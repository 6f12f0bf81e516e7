------------------------------ MODULE MCSession ------------------------------
(* An instance of Session for TLC. *)
EXTENDS Session

Typed(args, bytes) == [args |-> args, bytes |-> bytes]

Added(args) == Typed(args, EncodeCommand(args))

\* Commands given as arguments: one with a line end in its argument, one
\* that is logged as two commands, one that ends the session.
AddedRequests ==
    {Added(<< <<"s">>, <<"a">>, <<"x">> >>), Added(<< <<"E">>, <<"\r", "\n">> >>),
     Added(<< <<"q">> >>)}

\* Typed lines: spaces around, a bare newline, an empty line, a command with
\* more elements than RESP allows, one with few elements and more bytes than
\* replay allows, an unknown one, one without its argument.
TypedRequests ==
    {Typed(<< <<"g">>, <<"a">>, <<"b">> >>, <<" ", "g", " ", " ", "a", " ", "b", " ", "\n">>),
     Typed(<< <<"m">>, <<"a">>, <<"b">>, <<"b">> >>,
           <<"m", " ", "a", " ", "b", " ", "b", "\r", "\n">>),
     Typed(<< <<"m">>, <<"a">>, <<"b", "b", "b">> >>,
           <<"m", " ", "a", " ", "b", "b", "b", "\n">>),
     Typed(<< <<"S">>, <<"a">> >>, <<"S", " ", "a", "\n">>),
     Typed(<< <<"p">>, <<"a">> >>, <<"p", " ", "a", "\n">>),
     Typed(<<>>, <<"\r", "\n">>),
     Typed(<< <<"x">> >>, <<"x", "\n">>),
     Typed(<< <<"e">> >>, <<"e", "\n">>),
     Typed(<< <<"h">>, <<"3">> >>, <<"h", " ", "3", "\n">>),
     Typed(Malformed, <<"*", "0", "\r", "\n">>)}

AllRequests == AddedRequests \cup TypedRequests
=============================================================================

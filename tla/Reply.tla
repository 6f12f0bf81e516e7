-------------------------------- MODULE Reply --------------------------------
(***************************************************************************)
(* server/reply: how replies and commands are written in RESP.  A byte is  *)
(* a one-character string.  A reply is described by what it says: a line,  *)
(* an error, an integer, a bulk string, nothing, or an aggregate of such.  *)
(***************************************************************************)
EXTENDS Integers, Sequences, SequencesExt

kCrlf == <<"\r", "\n">>

(* Positions in a text are counted from 0, as in the code.                 *)
At(text, i) == text[i + 1]

Slice(text, start, end) == SubSeq(text, start + 1, end)

Digit == <<"0", "1", "2", "3", "4", "5", "6", "7", "8", "9">>

AppendInteger[n \in Nat] ==
    IF n < 10 THEN <<Digit[n + 1]>>
    ELSE AppendInteger[n \div 10] \o <<Digit[(n % 10) + 1]>>

IsDigits(text) == text # <<>> /\ ToSet(text) \subseteq ToSet(Digit)

Decimal(text) ==
    FoldLeft(LAMBDA n, c : 10 * n + (CHOOSE d \in 0..9 : Digit[d + 1] = c), 0, text)

FromString(s) == <<"+">> \o s \o kCrlf

FromError(s) == <<"-">> \o s \o kCrlf

FromInt64(n) == <<":">> \o AppendInteger[n] \o kCrlf

FromBulkString(s) == <<"$">> \o AppendInteger[Len(s)] \o kCrlf \o s \o kCrlf

FromArrayHeader(n) == <<"*">> \o AppendInteger[n] \o kCrlf

FromMapHeader(n, protocol) ==
    IF protocol = 2 THEN FromArrayHeader(2 * n)
    ELSE <<"%">> \o AppendInteger[n] \o kCrlf

Null(protocol) ==
    IF protocol = 2 THEN <<"$", "-", "1">> \o kCrlf ELSE <<"_">> \o kCrlf

(* An array of bulk strings: a command on the wire and in the log.         *)
EncodeCommand(args) ==
    FromArrayHeader(Len(args))
    \o FlattenSeq([i \in 1..Len(args) |-> FromBulkString(args[i])])
=============================================================================

------------------------------- MODULE Session -------------------------------
(***************************************************************************)
(* A command line client, the server's Client for it and the file of the   *)
(* log, byte by byte.  Requests and replies cross a connection that cuts   *)
(* the two streams anywhere; a crash cuts the log anywhere, and            *)
(* Aof::Replay reads what is left in chunks cut anywhere.                  *)
(*                                                                         *)
(* The reply buffer is the byte queue that ReplyBuffer is shown to be.     *)
(* Commands are one letter: S is SET (with one more argument for an        *)
(* expiration), P is PEXPIREAT, M is MSET, G is MGET, E is ECHO, H is      *)
(* HELLO and Q is QUIT.  A key stands for itself and its value.  The       *)
(* database is the sequence of mutations it was built by.  Operators       *)
(* called Definition_Bug are the defects the properties are tried against. *)
(***************************************************************************)
EXTENDS DynamicBuffer, Reply

CONSTANTS
    Requests,                   \* what a user may ask: [args, bytes]
    MaxRequests, MaxCrashes,
    kMaxCommandElements,        \* most elements of a RESP request
    kMaxQueryBufferSize,        \* most unprocessed input of a client
    kReadChunkSize,             \* most bytes one read of the log returns
    max_replay_command_bytes

ASSUME SessionAssumption ==
    /\ MaxRequests \in Nat /\ MaxCrashes \in Nat
    /\ kMaxCommandElements \in Nat \ {0} /\ kMaxQueryBufferSize \in Nat \ {0}
    /\ kReadChunkSize \in Nat \ {0} /\ max_replay_command_bytes \in Nat \ {0}

VARIABLES
    phase,      \* "replaying", "serving", or "refused": Aof::Open failed
    db,         \* the mutations executed, in the form the log has them
    log,        \* the bytes of the file
    replay,     \* the locals of Aof::Replay
    client,     \* the server's Client; busy while in ProcessInputBuffer
    out,        \* its reply buffer
    cli,        \* the RedisCli; reading while in ReadReplyFromConnection
    link,       \* bytes on their way up and down, and whether it is open
    heard,      \* history of the connection, see NewHistory
    crashed,    \* history: db at the last crash
    requests, crashes

serverVars == <<client, out, heard>>
vars == <<phase, db, log, replay, client, out, cli, link, heard, crashed,
          requests, crashes>>

Request == INSTANCE RequestParser
Resp == INSTANCE RespParser

-----------------------------------------------------------------------------
(* What a reply says, how it is encoded, and what the user should be       *)
(* shown.                                                                  *)

Line(s) == [kind |-> "line", text |-> s, items |-> <<>>]
Error == [kind |-> "error", text |-> <<"E">>, items |-> <<>>]
Bulk(s) == [kind |-> "bulk", text |-> s, items |-> <<>>]
Nil == [kind |-> "nil", text |-> <<>>, items |-> <<>>]
Integer(n) == [kind |-> "integer", text |-> AppendInteger[n], items |-> <<>>]
Array(items) == [kind |-> "array", text |-> <<>>, items |-> items]
Map(items) == [kind |-> "map", text |-> <<>>, items |-> items]

RECURSIVE Encoded(_, _)
Encoded(value, protocol) ==
    LET items == FlattenSeq([i \in 1..Len(value.items) |->
                                Encoded(value.items[i], protocol)])
    IN  CASE value.kind = "line" -> FromString(value.text)
          [] value.kind = "error" -> FromError(value.text)
          [] value.kind = "bulk" -> FromBulkString(value.text)
          [] value.kind = "nil" -> Null(protocol)
          [] value.kind = "integer" -> FromInt64(Decimal(value.text))
          [] value.kind = "array" -> FromArrayHeader(Len(value.items)) \o items
          [] value.kind = "map" ->
                 FromMapHeader(Len(value.items) \div 2, protocol) \o items

RECURSIVE Shown(_)
Shown(value) ==
    CASE value.kind = "nil" -> <<Resp!kNilReply>>
      [] value.kind \in {"array", "map"} ->
             FlattenSeq([i \in 1..Len(value.items) |-> Shown(value.items[i])])
             \o << <<"\n">> >>
      [] OTHER -> <<value.text>>

-----------------------------------------------------------------------------
(* Commands.                                                               *)

Upper == [s |-> "S", p |-> "P", m |-> "M", g |-> "G", e |-> "E", h |-> "H",
          q |-> "Q"]

FoldAsciiCase(c) == IF c \in DOMAIN Upper THEN Upper[c] ELSE c

kUnlimited == 99

kCommandTable ==
    [S |-> [access |-> "write", min |-> 1, max |-> kUnlimited],
     P |-> [access |-> "write", min |-> 1, max |-> 1],
     M |-> [access |-> "write", min |-> 1, max |-> kUnlimited],
     G |-> [access |-> "read", min |-> 1, max |-> kUnlimited],
     E |-> [access |-> "connection", min |-> 1, max |-> 1],
     H |-> [access |-> "connection", min |-> 0, max |-> 1],
     Q |-> [access |-> "connection", min |-> 0, max |-> 0]]

NotFound == "none"

Find(name) ==
    LET letter == FoldAsciiCase(name[1])
    IN  IF Len(name) = 1 /\ letter \in DOMAIN kCommandTable THEN letter ELSE NotFound

Accepts(command, count) ==
    count \in kCommandTable[command].min..kCommandTable[command].max

HasKey(key) ==
    \E i \in 1..Len(db) : db[i][1] \in {<<"S">>, <<"M">>} /\ key \in ToSet(Tail(db[i]))

HandleMGet(keys) ==
    Array([i \in 1..Len(keys) |-> IF HasKey(keys[i]) THEN Bulk(keys[i]) ELSE Nil])

(* One of the seven fields.                                                *)
EncodeHello == Map(<<Bulk(<<"m">>), Array(<<>>)>>)

Answer(value) ==
    [value |-> value, writes |-> <<>>, close |-> FALSE, protocol |-> client.protocol]

HandleHello(args) ==
    IF args = <<>> THEN Answer(EncodeHello)
    ELSE IF args[1] \notin {<<"2">>, <<"3">>} THEN Answer(Error)
    ELSE [Answer(EncodeHello) EXCEPT !.protocol = Decimal(args[1])]

(* SET with an expiration is logged as SET and PEXPIREAT, MSET as it is.   *)
Encode(command, args) ==
    IF command = "S" /\ Len(args) > 1
    THEN << <<<<"S">>, args[1]>>, <<<<"P">>, args[1]>> >>
    ELSE << <<<<command>>>> \o args >>

Execute(command, args) ==
    CASE command = "G" -> Answer(HandleMGet(args))
      [] command = "E" -> Answer(Bulk(args[1]))
      [] command = "H" -> HandleHello(args)
      [] command = "Q" -> [Answer(Line(<<"O">>)) EXCEPT !.close = TRUE]
      [] command = "P" ->
             IF HasKey(args[1])
             THEN [Answer(Integer(1)) EXCEPT !.writes = Encode("P", args)]
             ELSE Answer(Integer(0))
      [] OTHER -> [Answer(Line(<<"O">>)) EXCEPT !.writes = Encode(command, args)]

(* ParseRequest after a complete request, and ProcessCommand.              *)
Process(args) ==
    IF args = <<>> \/ args[1] = <<>> THEN Answer(Error)
    ELSE LET command == Find(args[1])
         IN  IF command = NotFound \/ ~Accepts(command, Len(args) - 1)
             THEN Answer(Error)
             ELSE Execute(command, Tail(args))

EncodeAll(commands) ==
    FlattenSeq([i \in 1..Len(commands) |-> EncodeCommand(commands[i])])

-----------------------------------------------------------------------------
(* Aof::Replay.                                                            *)

NewReplay == [input |-> Buffer, position |-> 0, complete_bytes |-> 0, busy |-> FALSE]

Replaying(busy) == phase = "replaying" /\ replay.busy = busy

ReadLog(n) ==
    /\ Replaying(FALSE)
    /\ n \in 1..Min({kReadChunkSize, Len(log) - replay.position})
    /\ replay' = [replay EXCEPT
           !.input = AppendBytes(@, Slice(log, replay.position,
                                          replay.position + n)),
           !.position = @ + n, !.busy = TRUE]
    /\ UNCHANGED <<phase, db, log, serverVars, cli, link, crashed, requests, crashes>>

Remaining == View(replay.input)

Parsed == Request!Parse(Remaining)

IsArray == IsPrefix(<<"*">>, Remaining)

ReadArgs(buffer, offset, views) ==
    [i \in 1..Len(views) |->
        Read(buffer, [views[i] EXCEPT !.start = @ + offset])]

ReplayArgs == ReadArgs(replay.input, replay.input.processed, Parsed.args)

(* The bound applied to all the input there is, not to one command.        *)
Replayable_Input ==
    /\ IsArray /\ Parsed.status = "complete"
    /\ Len(Remaining) <= max_replay_command_bytes
    /\ \E command \in {Find(ReplayArgs[1])} :
          /\ command # NotFound /\ kCommandTable[command].access = "write"
          /\ Accepts(command, Len(ReplayArgs) - 1)

Replayable ==
    /\ IsArray /\ Parsed.status = "complete"
    /\ Parsed.consumed <= max_replay_command_bytes
    /\ \E command \in {Find(ReplayArgs[1])} :
          /\ command # NotFound /\ kCommandTable[command].access = "write"
          /\ Accepts(command, Len(ReplayArgs) - 1)

ReplayCommand ==
    /\ Replaying(TRUE)
    /\ Remaining # <<>> /\ Replayable
    /\ db' = Append(db, ReplayArgs)
    /\ replay' = [replay EXCEPT !.input = Consume(@, Parsed.consumed),
                                !.complete_bytes = @ + Parsed.consumed]
    /\ UNCHANGED <<phase, log, serverVars, cli, link, crashed, requests, crashes>>

(* The command at the front is not all there yet.                          *)
AwaitsMore ==
    IF IsArray THEN Parsed.status = "incomplete" ELSE Remaining = <<>>

ReplayChunkEnds ==
    /\ Replaying(TRUE)
    /\ AwaitsMore /\ Len(Remaining) <= max_replay_command_bytes
    /\ replay' = [replay EXCEPT !.busy = FALSE]
    /\ UNCHANGED <<phase, db, log, serverVars, cli, link, crashed, requests, crashes>>

Refuse ==
    /\ Replaying(TRUE)
    /\ IF AwaitsMore THEN Len(Remaining) > max_replay_command_bytes ELSE ~Replayable
    /\ phase' = "refused"
    /\ UNCHANGED <<db, log, replay, serverVars, cli, link, crashed, requests, crashes>>

Truncated_Never == log

Truncated ==
    IF IsEmpty(replay.input) THEN log
    ELSE Slice(log, 0, replay.complete_bytes)

ReachEnd ==
    /\ Replaying(FALSE)
    /\ replay.position = Len(log)
    /\ log' = Truncated
    /\ phase' = "serving" /\ replay' = NewReplay
    /\ UNCHANGED <<db, serverVars, cli, link, crashed, requests, crashes>>

-----------------------------------------------------------------------------
(* The server's Client.                                                    *)

NewClient == [query |-> Buffer, busy |-> FALSE, protocol |-> 2, close |-> FALSE]

Idle == phase = "serving" /\ link.open /\ ~client.busy

(* Reads are paused once close_after_reply_ is set.                        *)
ReadQuery(n) ==
    /\ Idle /\ ~client.close
    /\ n \in 1..Len(link.up)
    /\ IF n + Len(client.query.data) > kMaxQueryBufferSize
       THEN link' = [link EXCEPT !.open = FALSE, !.up = <<>>] /\ UNCHANGED <<client, heard>>
       ELSE /\ client' = [client EXCEPT !.busy = TRUE,
                             !.query = AppendBytes(@, SubSeq(link.up, 1, n))]
            /\ link' = [link EXCEPT !.up = SubSeq(@, n + 1, Len(@))]
            /\ heard' = [heard EXCEPT !.received = @ + n]
    /\ UNCHANGED <<phase, db, log, replay, out, cli, crashed, requests, crashes>>

ParsedRequest == Request!Parse(View(client.query))

Malformed == << <<"malformed">> >>

(* The arguments are read through their views after Consume.               *)
HandleRequest(query, args) ==
    \E result \in {Process(args)} :
        /\ client' = [client EXCEPT !.query = query, !.close = result.close,
                                    !.protocol = result.protocol]
        /\ out' = out \o Encoded(result.value, result.protocol)
        /\ heard' = [heard EXCEPT !.said = Append(@, result.value),
                                  !.handled = Append(@, args)]
        /\ db' = db \o result.writes
        /\ log' = log \o EncodeAll(result.writes)

RejectRequest ==
    /\ client' = [client EXCEPT !.query = Clear(@), !.close = TRUE]
    /\ out' = out \o Encoded(Error, client.protocol)
    /\ heard' = [heard EXCEPT !.said = Append(@, Error),
                              !.handled = Append(@, Malformed)]
    /\ UNCHANGED <<db, log>>

Processing == phase = "serving" /\ client.busy

ProcessRequest ==
    /\ Processing /\ ~client.close
    /\ CASE ParsedRequest.status = "incomplete" -> FALSE
         [] ParsedRequest.status = "invalid" -> RejectRequest
         [] OTHER ->
              \E query \in {Consume(client.query, ParsedRequest.consumed)} :
                  HandleRequest(query, ReadArgs(query, client.query.processed,
                                                ParsedRequest.args))
    /\ UNCHANGED <<phase, replay, cli, link, crashed, requests, crashes>>

(* ProcessInputBuffer ends; the client is removed if it has nothing to say *)
(* and is to be closed.                                                    *)
ProcessEnds ==
    /\ Processing
    /\ client.close \/ ParsedRequest.status = "incomplete"
    /\ client' = [client EXCEPT !.query = Compact(@), !.busy = FALSE]
    /\ link' = [link EXCEPT !.open = ~(client.close /\ out = <<>>)]
    /\ UNCHANGED <<phase, db, log, replay, out, heard, cli, crashed, requests, crashes>>

(* What is sent while earlier bytes are on their way arrives with them or  *)
(* after them, so one segment at a time makes all the cuts.                *)
SendReply(n) ==
    /\ Idle /\ link.down = <<>> /\ n \in 1..Len(out)
    /\ out' = SubSeq(out, n + 1, Len(out))
    /\ link' = [link EXCEPT !.down = SubSeq(out, 1, n),
                            !.open = ~(client.close /\ n = Len(out))]
    /\ UNCHANGED <<phase, db, log, replay, client, heard, cli, crashed, requests, crashes>>

-----------------------------------------------------------------------------
(* RedisCli.                                                               *)

NewCli == [query |-> Buffer, reply |-> Buffer, reading |-> FALSE]

NewLink == [up |-> <<>>, down |-> <<>>, open |-> TRUE]

(* History of a connection: the requests asked, their bytes the server     *)
(* took, what it executed, what it said and what the user was given.       *)
NewHistory == [asked |-> <<>>, received |-> 0, handled |-> <<>>, said |-> <<>>,
               given |-> <<>>]

cliUnchanged == <<phase, db, log, replay, client, out, crashed, crashes>>

(* A user starts over with a new RedisCli.                                 *)
Connect ==
    /\ phase = "serving" /\ ~link.open
    /\ cli' = NewCli /\ link' = NewLink /\ heard' = NewHistory
    /\ client' = NewClient /\ out' = <<>>
    /\ UNCHANGED <<phase, db, log, replay, crashed, requests, crashes>>

AddCommand(request) ==
    /\ link.open /\ ~cli.reading /\ requests < MaxRequests
    /\ cli' = [cli EXCEPT !.query = AppendBytes(@, request.bytes)]
    /\ heard' = [heard EXCEPT !.asked = Append(@, request)]
    /\ requests' = requests + 1
    /\ UNCHANGED <<cliUnchanged, link>>

ProcessReply_Cleared(buffer, parsed) ==
    IF parsed.status = "incomplete" THEN buffer ELSE Clear(buffer)

(* ProcessReply, and the Clear of its callers.                             *)
ProcessReply(buffer, parsed) ==
    IF parsed.status = "complete" THEN Compact(Consume(buffer, parsed.consumed))
    ELSE IF parsed.status = "invalid" THEN Clear(buffer) ELSE buffer

kErrResp == << <<"error">> >>

Gives(parsed) ==
    CASE parsed.status = "complete" -> <<parsed.values>>
      [] parsed.status = "invalid" -> <<kErrResp>>
      [] OTHER -> <<>>

(* The reply buffer may already hold the reply; else the pending commands  *)
(* are sent and the client waits.                                          *)
MaybeReadReply(parsed) ==
    /\ parsed.status # "incomplete"
    /\ cli' = [cli EXCEPT !.reply = ProcessReply(@, parsed)]
    /\ heard' = [heard EXCEPT !.given = @ \o Gives(parsed)]
    /\ UNCHANGED link

StartReading(parsed) ==
    /\ parsed.status = "incomplete" /\ link.open
    /\ link' = [link EXCEPT !.up = @ \o View(cli.query)]
    /\ cli' = [cli EXCEPT !.query = Clear(@), !.reading = TRUE]
    /\ UNCHANGED heard

ReadReply ==
    /\ ~cli.reading
    /\ \E parsed \in {Resp!Parse(View(cli.reply))} :
           MaybeReadReply(parsed) \/ StartReading(parsed)
    /\ UNCHANGED <<cliUnchanged, requests>>

(* A SyncRead returns what has arrived, and ProcessReply looks at it.      *)
(* SendReply cuts the stream.                                              *)
SyncRead ==
    /\ cli.reading /\ link.down # <<>>
    /\ link' = [link EXCEPT !.down = <<>>]
    /\ \E buffer \in {AppendBytes(cli.reply, link.down)} :
       \E parsed \in {Resp!Parse(View(buffer))} :
           /\ cli' = [cli EXCEPT !.reply = ProcessReply(buffer, parsed),
                                 !.reading = parsed.status = "incomplete"]
           /\ heard' = [heard EXCEPT !.given = @ \o Gives(parsed)]
    /\ UNCHANGED <<cliUnchanged, requests>>

(* Nothing came in time, or the connection was closed: "no_reply".         *)
SyncReadFails ==
    /\ cli.reading /\ link.down = <<>>
    /\ cli' = [cli EXCEPT !.reading = FALSE]
    /\ UNCHANGED <<cliUnchanged, link, heard, requests>>

-----------------------------------------------------------------------------
(* The server dies and the file ends anywhere: what a sync guarantees is   *)
(* Aof's concern, and here nothing was synced.  With nothing left the next *)
(* start is the first one, Init, again.                                    *)
Crash(size) ==
    /\ phase = "serving" /\ crashes < MaxCrashes
    /\ size \in 1..Len(log)
    /\ log' = SubSeq(log, 1, size)
    /\ phase' = "replaying" /\ replay' = NewReplay
    /\ db' = <<>> /\ crashed' = db
    /\ link' = [NewLink EXCEPT !.open = FALSE]
    /\ client' = NewClient /\ out' = <<>> /\ cli' = NewCli
    /\ heard' = NewHistory
    /\ crashes' = crashes + 1
    /\ UNCHANGED requests

-----------------------------------------------------------------------------
Init ==
    /\ phase = "replaying" /\ db = <<>> /\ log = <<>> /\ crashed = <<>>
    /\ replay = NewReplay /\ client = NewClient /\ out = <<>>
    /\ cli = NewCli /\ link = [NewLink EXCEPT !.open = FALSE]
    /\ heard = NewHistory
    /\ requests = 0 /\ crashes = 0

Next ==
    \/ \E n \in 1..Len(log) : ReadLog(n)
    \/ ReplayCommand \/ ReplayChunkEnds \/ Refuse \/ ReachEnd
    \/ \E n \in 1..Len(link.up) : ReadQuery(n)
    \/ ProcessRequest \/ ProcessEnds
    \/ \E n \in 1..Len(out) : SendReply(n)
    \/ Connect \/ ReadReply \/ SyncRead \/ SyncReadFails
    \/ \E request \in Requests : AddCommand(request)
    \/ \E size \in 1..Len(log) : Crash(size)

Spec == Init /\ [][Next]_vars

-----------------------------------------------------------------------------
(* Properties.                                                             *)

Ending(request) == request.args \in {Malformed, << <<"q">> >>}

BytesOf(k) == Len(FlattenSeq([i \in 1..k |-> heard.asked[i].bytes]))

(* The requests that have arrived whole, up to one that ends the session.  *)
Arrived ==
    Max({k \in 0..Len(heard.asked) :
            /\ BytesOf(k) <= heard.received
            /\ \A i \in 1..k - 1 : ~Ending(heard.asked[i])})

(* However the stream of requests was cut, the server has executed exactly *)
(* the requests that arrived whole, with the arguments that were asked, in *)
(* order, once it returns to the loop: none is left waiting in query_buf_  *)
(* and none is read through a view whose bytes have moved.                 *)
RequestsSurviveCuts ==
    ~client.busy =>
        heard.handled = [k \in 1..Arrived |-> heard.asked[k].args]

(* ReadReply gives the answers in the order of the requests, whatever the  *)
(* cuts, the pipelining and the calls that returned "no_reply" before; and *)
(* none is missing once nothing is under way.                              *)
AnswersMatch ==
    LET answers == [k \in 1..Len(heard.said) |-> Shown(heard.said[k])]
    IN  /\ Len(heard.said) = Len(heard.handled)
        /\ IsPrefix(heard.given, answers)
        /\ (out = <<>> /\ link.down = <<>> /\ IsEmpty(cli.reply)) =>
               heard.given = answers

(* A start after a crash executes exactly the commands that are whole in   *)
(* what is left of the file, and leaves the file at the end of the last of *)
(* them, so that what is appended next can be read by the start after.     *)
RecoversWholeCommands ==
    [][(phase = "replaying" /\ phase' = "serving") =>
          LET whole == {k \in 0..Len(crashed) :
                          Len(EncodeAll(SubSeq(crashed, 1, k))) <= Len(log)}
          IN  /\ db' = SubSeq(crashed, 1, Max(whole))
              /\ log' = EncodeAll(db')]_vars

Oversized(command) ==
    \/ Len(command) > kMaxCommandElements
    \/ Len(EncodeCommand(command)) > max_replay_command_bytes

(* Replay refuses the server's own log only for a command that was         *)
(* accepted inline and is longer, in elements or bytes, than replay takes. *)
OnlyOversizedCommandsAreRefused ==
    phase = "refused" => \E i \in 1..Len(crashed) : Oversized(crashed[i])
=============================================================================

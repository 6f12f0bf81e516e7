-------------------------------- MODULE Server --------------------------------
(***************************************************************************)
(* The event loop of the server and the life of its client connections:    *)
(* accept, read and execute pipelined commands, queue and write replies,   *)
(* pause and resume reading, close, and the shutdown of the loop.          *)
(*                                                                         *)
(* The loop is one thread; its position is pc.  One cycle polls, hands     *)
(* every ready descriptor to its callbacks, runs the deferred callbacks    *)
(* and then the timer.  The peers, the signal handler and the AOF writer   *)
(* act between any two steps.  The read callback is cut where other actors *)
(* can show: one step reads the socket, one executes each command, one     *)
(* finishes the callback.                                                  *)
(*                                                                         *)
(* A command is its kind and its reply a run of bytes, each carrying the   *)
(* number of the command it answers.  The reply buffer is the queue that   *)
(* module ReplyBuffer shows it to be.  Operators called Definition_Bug are *)
(* the defects the properties are tried against.                           *)
(***************************************************************************)
EXTENDS EventLoop, Sequences, SequencesExt

CONSTANTS Clients,        \* Client objects, one per connection
          Kinds,          \* the commands a peer sends, of "get", "mget",
                          \* "set", "quit" and "bad" (not RESP)
          resume_bytes, soft_bytes, hard_bytes,   \* OutputBufferLimits
          kMaxQueryBufferSize,
          MaxSent,        \* commands a peer sends
          MaxPollerErrors \* registrations the kernel refuses

ASSUME ServerAssumption ==
    /\ Fds \subseteq Nat \ {0} /\ IsFiniteSet(Fds)
    /\ NoOwner \notin Clients
    /\ Kinds \subseteq {"get", "mget", "set", "quit", "bad"}
    /\ resume_bytes \in Nat /\ soft_bytes \in Nat /\ hard_bytes \in Nat
    /\ resume_bytes < soft_bytes /\ soft_bytes <= hard_bytes
    /\ kMaxQueryBufferSize \in Nat /\ MaxSent \in Nat /\ MaxPollerErrors \in Nat

VARIABLES
    loop,            \* file events and poller, see EventLoop
    client,          \* the Client objects
    clients,         \* Server::clients_
    deferred,        \* clients whose erasure is in deferred_callbacks_
    pc, ready,       \* position of the loop; ready events left to dispatch
    current,         \* the ready event being dispatched
    stop_requested,  \* Loop::stop_requested_
    stop_signal,     \* shutdown::StopRequested()
    healthy,         \* Aof::Healthy()
    poller_errors,
    peer, inbox, sent, window,        \* the other end of each connection
    answers, delivered, unlogged      \* history of each connection

loopVars == <<pc, ready, current, stop_requested>>
peerVars == <<peer, inbox, sent, window>>
history == <<answers, delivered, unlogged>>
vars == <<loop, client, clients, deferred, loopVars, stop_signal, healthy,
          poller_errors, peerVars, history>>

listener == 0
NoCurrent == [fd |-> listener, mask |-> {}]

NewClient == [state |-> "kConnect", fd |-> NoFd, flags |-> {},
              read_callback |-> FALSE, write_callback |-> FALSE,
              reads_paused |-> FALSE, close_after_reply |-> FALSE,
              query_buf |-> <<>>, reply_buf |-> <<>>]

Destroyed == [NewClient EXCEPT !.state = "kClosed"]

-----------------------------------------------------------------------------
(* Client.                                                                 *)

ReplySize(kind) == IF kind = "mget" THEN 2 ELSE 1

PendingReplyBytes(conn) == Len(conn.reply_buf)
HasPendingReplies(conn) == conn.reply_buf # <<>>

ShouldPauseReads(conn) ==
    /\ ~conn.reads_paused
    /\ \/ conn.close_after_reply
       \/ soft_bytes > 0 /\ PendingReplyBytes(conn) >= soft_bytes

ShouldResumeReads_Below(conn) ==
    /\ conn.reads_paused /\ ~conn.close_after_reply
    /\ PendingReplyBytes(conn) < resume_bytes

ShouldResumeReads(conn) ==
    /\ conn.reads_paused /\ ~conn.close_after_reply
    /\ PendingReplyBytes(conn) <= resume_bytes

CanQueueReply_SizeIgnored(conn, size) == PendingReplyBytes(conn) <= hard_bytes

CanQueueReply(conn, size) ==
    size <= hard_bytes /\ PendingReplyBytes(conn) <= hard_bytes - size

(* The reply is queued whole, or dropped and the connection is closed once *)
(* what was queued before it is written.                                   *)
AddReply(conn, reply) ==
    IF CanQueueReply(conn, Len(reply))
    THEN [conn EXCEPT !.reply_buf = @ \o reply]
    ELSE [conn EXCEPT !.close_after_reply = TRUE]

(* The query buffer holds the pieces received.  "half" is the first part   *)
(* of a command that arrives in two.                                       *)
RequestLength(query) == IF Head(query) = "half" THEN 2 ELSE 1
Incomplete(query) == query = <<>> \/ Len(query) < RequestLength(query)

HasRequest_ClosingIgnored(conn) == ~Incomplete(conn.query_buf)

(* The condition of ProcessInputBuffer's loop.                             *)
HasRequest(conn) == ~conn.close_after_reply /\ ~Incomplete(conn.query_buf)

-----------------------------------------------------------------------------
(* Handlers on a [loop, conn] pair.                                        *)

Session(c) == [loop |-> loop, conn |-> client[c]]

Refusable(s) == CanBeRefused(s.loop, s.conn.fd) /\ poller_errors < MaxPollerErrors

(* c is closed now; the loop erases it after the callbacks of this cycle.  *)
RemoveClient(c, s) ==
    LET closed == Close(s)
    IN  /\ loop' = closed.loop
        /\ client' = [client EXCEPT ![c] = closed.conn]
        /\ deferred' = deferred \cup {c}
        /\ UNCHANGED poller_errors

Leaves(c, s) ==
    /\ loop' = s.loop
    /\ client' = [client EXCEPT ![c] = s.conn]
    /\ UNCHANGED deferred

PauseReads_FlagOnly(s) ==
    IF ShouldPauseReads(s.conn) THEN [s EXCEPT !.conn.reads_paused = TRUE] ELSE s

PauseReads(s) ==
    IF ShouldPauseReads(s.conn) /\ Deletable(s.loop, s.conn.fd, {kReadable})
    THEN [UnsetReadCallback(s) EXCEPT !.conn.reads_paused = TRUE]
    ELSE s

ResumeReads_FlagOnly(c, s) == [s EXCEPT !.conn.reads_paused = FALSE]

ResumeReads(c, s) ==
    LET resumed == SetReadCallback(s, c)
    IN  [resumed EXCEPT !.conn.reads_paused = FALSE]

-----------------------------------------------------------------------------
(* The loop.                                                               *)

At(position) == pc = position
Goto(position) == pc' = position

(* Which events epoll reports for an open connection; an error or a        *)
(* hangup is reported as both.                                             *)
Readable(c) == inbox[c] # <<>> \/ peer[c] \in {"eof", "reset"}
Writable(c) == window[c] \/ peer[c] = "reset"

Reported(c) ==
    (IF Readable(c) THEN loop.masks[client[c].fd] \cap {kReadable} ELSE {})
        \cup (IF Writable(c) THEN loop.masks[client[c].fd] \cap {kWritable} ELSE {})
        \cup (IF peer[c] = "reset" /\ loop.masks[client[c].fd] # {}
              THEN {kReadable, kWritable} ELSE {})

Open(c) == client[c].fd # NoFd

Poll ==
    /\ At("poll") /\ Goto("dispatch")
    /\ ready' = {[fd |-> client[c].fd, mask |-> Reported(c)] :
                    c \in {d \in Clients : Open(d) /\ Reported(d) # {}}}
                \cup (IF \E c \in Clients : peer[c] = "backlog"
                      THEN {[fd |-> listener, mask |-> {kReadable}]} ELSE {})
    /\ UNCHANGED <<loop, client, clients, deferred, current, stop_requested,
                   stop_signal, healthy, poller_errors, peerVars, history>>

Fires(event, flag) ==
    LET file_event == loop.file_events[event.fd]
    IN  /\ flag \in event.mask \cap file_event.mask
        /\ (IF flag = kReadable THEN file_event.read ELSE file_event.write) # NoOwner

Dispatch(event) ==
    /\ At("dispatch")
    /\ event \in ready
    /\ ready' = ready \ {event}
    /\ current' = event

-----------------------------------------------------------------------------
(* Accept.                                                                 *)

FreeFds == Fds \ {client[c].fd : c \in Clients}

(* The kernel hands out the lowest free descriptor; without one accept     *)
(* fails and the connection stays in the backlog.  If the read callback    *)
(* cannot be registered the new Client is destroyed, which closes it.      *)
AcceptConnection(event, c) ==
    /\ Dispatch(event) /\ event.fd = listener /\ peer[c] = "backlog"
    /\ \/ /\ FreeFds = {}
          /\ UNCHANGED <<loop, client, clients, poller_errors, peer>>
       \/ /\ FreeFds # {}
          /\ LET fd == CHOOSE f \in FreeFds : \A g \in FreeFds : f <= g
                 new == [loop |-> loop, conn |-> [NewClient EXCEPT !.state = "kConnected",
                                                                   !.fd = fd]]
                 accepted == SetReadCallback(new, c)
             IN  \/ /\ loop' = accepted.loop
                    /\ client' = [client EXCEPT ![c] = accepted.conn]
                    /\ clients' = clients \cup {c}
                    /\ peer' = [peer EXCEPT ![c] = "open"]
                    /\ UNCHANGED poller_errors
                 \/ /\ Refusable(new)
                    /\ poller_errors' = poller_errors + 1
                    /\ client' = [client EXCEPT ![c] = Destroyed]
                    /\ peer' = [peer EXCEPT ![c] = "gone"]
                    /\ UNCHANGED <<loop, clients>>
    /\ UNCHANGED <<deferred, pc, stop_requested, stop_signal, healthy,
                   inbox, sent, window, history>>

-----------------------------------------------------------------------------
(* The read callback.                                                      *)

(* Client::ReadQuery takes all that has arrived.  End of file closes the   *)
(* connection after the bytes before it are executed; an error, or more    *)
(* than kMaxQueryBufferSize, drops the connection at once.  A report of    *)
(* input is never spurious here, so nothing to read means end of file.     *)
ReadQuery(event, c) ==
    LET conn == client[c]
        received == conn.query_buf \o inbox[c]
        state == CASE peer[c] = "reset" -> "kError"
                   [] Len(received) > kMaxQueryBufferSize -> "kError"
                   [] peer[c] = "eof" -> "kClosed"
                   [] OTHER -> "kConnected"
        read == [loop |-> [loop EXCEPT !.replaced = FALSE],
                 conn |-> [conn EXCEPT !.state = state,
                                       !.query_buf = IF state = "kError" THEN @
                                                     ELSE received]]
    IN  /\ Dispatch(event) /\ event.fd # listener /\ Fires(event, kReadable)
        /\ c = loop.file_events[event.fd].read
        /\ \/ /\ state = "kError" \/ inbox[c] = <<>>
              /\ RemoveClient(c, read) /\ UNCHANGED pc
           \/ /\ state # "kError" /\ inbox[c] # <<>>
              /\ Leaves(c, read) /\ Goto("process")
              /\ UNCHANGED poller_errors
        /\ inbox' = [inbox EXCEPT ![c] = <<>>]
        /\ UNCHANGED <<clients, stop_requested, stop_signal, healthy, peer, sent,
                       window, history>>

(* The connection whose callback is running.                               *)
Running(c) == Open(c) /\ client[c].fd = current.fd

(* One turn of ProcessInputBuffer: parse, execute, queue the reply, and    *)
(* append a mutation to the AOF.  The reply is queued before the append.   *)
ProcessRequest(c) ==
    LET conn == client[c]
        length == RequestLength(conn.query_buf)
        kind == conn.query_buf[length]
        number == Len(answers[c]) + 1
        reply == [i \in 1..ReplySize(kind) |-> <<number, i>>]
        replied == AddReply(conn, reply)
        consumed == IF kind = "bad" THEN <<>>
                    ELSE SubSeq(conn.query_buf, length + 1, Len(conn.query_buf))
    IN  /\ At("process") /\ Running(c) /\ HasRequest(conn)
        /\ answers' = [answers EXCEPT ![c] = Append(@, kind)]
        /\ \E appended \in IF kind = "set" THEN {healthy, FALSE} ELSE {TRUE} :
              /\ client' = [client EXCEPT ![c] =
                    [replied EXCEPT !.query_buf = consumed,
                                    !.close_after_reply =
                                        @ \/ kind \in {"bad", "quit"} \/ ~appended]]
              /\ unlogged' = [unlogged EXCEPT ![c] =
                                 IF appended THEN @ ELSE @ \cup {number}]
              /\ healthy' = (healthy /\ appended)
              /\ stop_requested' = (stop_requested \/ ~appended)
        /\ UNCHANGED <<loop, clients, deferred, pc, ready, current, stop_signal,
                       poller_errors, peerVars, delivered>>

(* What the read callback does after ProcessInputBuffer.                   *)
FinishRead(c) ==
    LET s == PauseReads(Session(c))
    IN  /\ At("process") /\ Running(c) /\ ~HasRequest(client[c])
        /\ \/ /\ client[c].state # "kConnected"
              /\ RemoveClient(c, Session(c)) /\ Goto("dispatch")
           \/ /\ client[c].state = "kConnected"
              /\ s.conn.close_after_reply /\ ~HasPendingReplies(s.conn)
              /\ RemoveClient(c, s) /\ Goto("dispatch")
           \/ /\ client[c].state = "kConnected"
              /\ ~(s.conn.close_after_reply /\ ~HasPendingReplies(s.conn))
              /\ Goto("writable")
              /\ IF HasPendingReplies(s.conn) /\ ~s.conn.write_callback
                 THEN \/ Leaves(c, SetWriteCallback(s, c)) /\ UNCHANGED poller_errors
                      \/ /\ Refusable(s) /\ poller_errors' = poller_errors + 1
                         /\ Leaves(c, s)
                 ELSE Leaves(c, s) /\ UNCHANGED poller_errors
        /\ UNCHANGED <<clients, ready, current, stop_requested, stop_signal, healthy,
                       peerVars, history>>

-----------------------------------------------------------------------------
(* The write callback.                                                     *)

(* Only the write event is due.                                            *)
DispatchWrite(event) ==
    /\ Dispatch(event) /\ event.fd # listener
    /\ ~Fires(event, kReadable) /\ Fires(event, kWritable)
    /\ Goto("writable")
    /\ loop' = [loop EXCEPT !.replaced = FALSE]
    /\ UNCHANGED <<client, clients, deferred, stop_requested, stop_signal, healthy,
                   poller_errors, peerVars, history>>

WriteDue == ~loop.replaced /\ Fires(current, kWritable)

SkipWrite ==
    /\ At("writable") /\ ~WriteDue
    /\ Goto("dispatch")
    /\ UNCHANGED <<loop, client, clients, deferred, ready, current, stop_requested,
                   stop_signal, healthy, poller_errors, peerVars, history>>

Unsent_TailDropped(replies, n) == IF n > 0 THEN <<>> ELSE replies

(* SendReply: what a write of n bytes leaves.                              *)
Unsent(replies, n) == SubSeq(replies, n + 1, Len(replies))

(* WriteToClient: write until the buffer is empty or the socket is full.   *)
WriteToClient(c) ==
    /\ At("writable") /\ WriteDue /\ c = loop.file_events[current.fd].write
    /\ peer[c] # "reset"
    /\ Goto("dispatch")
    /\ \E n \in 0..PendingReplyBytes(client[c]) :   \* the socket has room
          LET pending == client[c].reply_buf
              written == [Session(c) EXCEPT !.conn.reply_buf = Unsent(@, n)]
              s == IF HasPendingReplies(written.conn) THEN written
                   ELSE UnsetWriteCallback(written)
          IN  /\ n = 0 <=> pending = <<>>
              /\ delivered' = [delivered EXCEPT ![c] = @ \o SubSeq(pending, 1, n)]
              /\ window' = [window EXCEPT ![c] = @ /\ n = Len(pending)]
              /\ \/ /\ s.conn.close_after_reply /\ ~HasPendingReplies(s.conn)
                    /\ RemoveClient(c, s)
                 \/ /\ ~(s.conn.close_after_reply /\ ~HasPendingReplies(s.conn))
                    /\ IF ShouldResumeReads(s.conn)
                       THEN \/ Leaves(c, ResumeReads(c, s)) /\ UNCHANGED poller_errors
                            \/ /\ Refusable(s) /\ poller_errors' = poller_errors + 1
                               /\ Leaves(c, s)
                       ELSE Leaves(c, s) /\ UNCHANGED poller_errors
    /\ UNCHANGED <<clients, ready, current, stop_requested, stop_signal, healthy,
                   peer, inbox, sent, answers, unlogged>>

WriteFails(c) ==
    /\ At("writable") /\ WriteDue /\ c = loop.file_events[current.fd].write
    /\ peer[c] = "reset" /\ HasPendingReplies(client[c])
    /\ Goto("dispatch")
    /\ RemoveClient(c, [Session(c) EXCEPT !.conn.state = "kError"])
    /\ UNCHANGED <<clients, ready, current, stop_requested, stop_signal, healthy,
                   peerVars, history>>

-----------------------------------------------------------------------------
(* The end of a cycle.                                                     *)

ProcessDeferredCallbacks ==
    /\ At("dispatch") /\ ready = {} /\ Goto("time")
    /\ clients' = clients \ deferred
    /\ client' = [c \in Clients |-> IF c \in deferred THEN Destroyed ELSE client[c]]
    /\ deferred' = {}
    /\ UNCHANGED <<loop, ready, current, stop_requested, stop_signal, healthy,
                   poller_errors, peerVars, history>>

NextCycle(stop) == pc' = IF stop THEN "stopping" ELSE "poll"

ServerCron_HealthIgnored ==
    LET stop == stop_requested \/ stop_signal
    IN  /\ At("time") /\ NextCycle(stop)
        /\ stop_requested' = stop
        /\ UNCHANGED <<loop, client, clients, deferred, ready, current, stop_signal,
                       healthy, poller_errors, peerVars, history>>

(* The timer is due: ServerCron.  Its rewrite and expiry work is in the    *)
(* modules Aof and Keyspace.                                               *)
ServerCron ==
    LET stop == stop_requested \/ stop_signal \/ ~healthy
    IN  /\ At("time") /\ NextCycle(stop)
        /\ stop_requested' = stop
        /\ UNCHANGED <<loop, client, clients, deferred, ready, current, stop_signal,
                       healthy, poller_errors, peerVars, history>>

TimerNotDue ==
    /\ At("time") /\ NextCycle(stop_requested)
    /\ UNCHANGED <<loop, client, clients, deferred, ready, current, stop_requested,
                   stop_signal, healthy, poller_errors, peerVars, history>>

(* The end of Server::Run: clients_.clear() closes what is still open.     *)
Shutdown ==
    /\ At("stopping") /\ Goto("stopped")
    /\ client' = [c \in Clients |-> IF c \in clients THEN Destroyed ELSE client[c]]
    /\ loop' = EmptyLoop
    /\ clients' = {}
    /\ UNCHANGED <<deferred, ready, current, stop_requested, stop_signal, healthy,
                   poller_errors, peerVars, history>>

-----------------------------------------------------------------------------
(* The other actors.                                                       *)

serverVars == <<loop, client, clients, deferred, loopVars, poller_errors, history>>

Connect(c) ==
    /\ peer[c] = "none"
    /\ peer' = [peer EXCEPT ![c] = "backlog"]
    /\ UNCHANGED <<serverVars, stop_signal, healthy, inbox, sent, window>>

HalfSent(c) ==
    LET pieces == client[c].query_buf \o inbox[c]
    IN  pieces # <<>> /\ Last(pieces) = "half"

(* A command in one piece, or a "set" in two.                              *)
Send(c, kind) ==
    /\ peer[c] = "backlog" \/ (peer[c] = "open" /\ Open(c))
    /\ sent[c] < MaxSent
    /\ \E piece \in {kind} \cup (IF kind = "set" THEN {"half"} ELSE {}) :
          /\ inbox' = [inbox EXCEPT ![c] = Append(@, piece)]
          /\ sent' = [sent EXCEPT ![c] = @ + (IF piece = "half" THEN 0 ELSE 1)]
          /\ piece = "half" => ~HalfSent(c)
          /\ HalfSent(c) => piece = "set"
    /\ UNCHANGED <<serverVars, stop_signal, healthy, peer, window>>

PeerLeaves(c) ==
    /\ Open(c)
    /\ \/ peer[c] = "open" /\ peer' = [peer EXCEPT ![c] = "eof"] /\ UNCHANGED inbox
       \/ /\ peer[c] \in {"open", "eof"} /\ peer' = [peer EXCEPT ![c] = "reset"]
          /\ inbox' = [inbox EXCEPT ![c] = <<>>]
    /\ UNCHANGED <<serverVars, stop_signal, healthy, sent, window>>

PeerReads(c) ==
    /\ Open(c) /\ ~window[c] /\ peer[c] \in {"open", "eof"}
    /\ window' = [window EXCEPT ![c] = TRUE]
    /\ UNCHANGED <<serverVars, stop_signal, healthy, peer, inbox, sent>>

Signal ==
    /\ ~stop_signal /\ stop_signal' = TRUE
    /\ UNCHANGED <<serverVars, healthy, peerVars>>

(* The writer thread meets an error.                                       *)
AofFails ==
    /\ healthy /\ healthy' = FALSE
    /\ UNCHANGED <<serverVars, stop_signal, peerVars>>

-----------------------------------------------------------------------------
Init ==
    /\ loop = EmptyLoop
    /\ client = [c \in Clients |-> NewClient]
    /\ clients = {} /\ deferred = {}
    /\ pc = "poll" /\ ready = {} /\ current = NoCurrent
    /\ stop_requested = FALSE /\ stop_signal = FALSE /\ healthy = TRUE
    /\ poller_errors = 0
    /\ peer = [c \in Clients |-> "none"]
    /\ inbox = [c \in Clients |-> <<>>]
    /\ sent = [c \in Clients |-> 0]
    /\ window = [c \in Clients |-> TRUE]
    /\ answers = [c \in Clients |-> <<>>]
    /\ delivered = [c \in Clients |-> <<>>]
    /\ unlogged = [c \in Clients |-> {}]

ProcessFileEvents ==
    \/ \E event \in ready :
          \/ DispatchWrite(event)
          \/ \E c \in Clients : AcceptConnection(event, c) \/ ReadQuery(event, c)
    \/ \E c \in Clients :
          \/ ProcessRequest(c) \/ FinishRead(c)
          \/ WriteToClient(c) \/ WriteFails(c)
    \/ SkipWrite

Loop ==
    \/ Poll \/ ProcessFileEvents \/ ProcessDeferredCallbacks
    \/ ServerCron \/ TimerNotDue \/ Shutdown

Environment ==
    \/ \E c \in Clients :
          \/ Connect(c) \/ PeerLeaves(c) \/ PeerReads(c)
          \/ \E kind \in Kinds : Send(c, kind)
    \/ Signal \/ AofFails

Stopped == At("stopped") /\ UNCHANGED vars

Next == Loop \/ (~At("stopped") /\ Environment) \/ Stopped

Spec == Init /\ [][Next]_vars
=============================================================================

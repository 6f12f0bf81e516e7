--------------------------- MODULE ServerProperties ---------------------------
(***************************************************************************)
(* What the event loop and the client connections must satisfy.            *)
(***************************************************************************)
EXTENDS Server

(* The registrations agree.  What the poller watches, the FileEvent of the *)
(* loop and the flags of the Connection are one set, and the callbacks of  *)
(* a FileEvent point to the Client that owns the descriptor and has not    *)
(* been erased - also after the descriptor was closed and given to a new   *)
(* connection.  Otherwise a callback would run on a destroyed Client.  An  *)
(* event reported in a cycle still has its registration when its turn      *)
(* comes, whatever the callbacks before it did.                            *)
RegistrationsAgree ==
    /\ \A c \in Clients : Open(c) =>
          LET event == loop.file_events[client[c].fd]
          IN  /\ c \in clients
              /\ event.mask = client[c].flags
              /\ event.mask = loop.masks[client[c].fd]
              /\ {event.read, event.write} \subseteq {c, NoOwner}
              /\ kReadable \in event.mask => event.read = c
              /\ kWritable \in event.mask => event.write = c
    /\ \A fd \in FreeFds : loop.file_events[fd] = NoEvent /\ loop.masks[fd] = {}
    /\ \A c, d \in Clients : Open(c) /\ client[c].fd = client[d].fd => c = d
    /\ \A event \in ready : event.fd # listener =>
          Fires(event, kReadable) \/ Fires(event, kWritable)

(* No connection is forgotten.  When the loop goes to sleep, a connection  *)
(* with replies waits for the socket to drain, one whose reads are not     *)
(* paused waits for input, and one whose reads are paused has replies whose*)
(* delivery will resume or close it; so some event can still wake it.      *)
NeverStranded ==
    At("poll") /\ poller_errors = 0 =>
        \A c \in Clients : Open(c) =>
            /\ HasPendingReplies(client[c]) <=> kWritable \in client[c].flags
            /\ client[c].reads_paused <=> kReadable \notin client[c].flags
            /\ client[c].reads_paused => HasPendingReplies(client[c])

(* Pending output never exceeds the hard limit (README: the server "closes *)
(* the connection before exceeding 64 MiB").                               *)
OutputBounded == \A c \in Clients : PendingReplyBytes(client[c]) <= hard_bytes

(* The bytes that answering the commands cmds produces.                    *)
Stream(cmds) ==
    FlattenSeq([n \in 1..Len(cmds) |->
                   [i \in 1..ReplySize(cmds[n]) |-> <<n, i>>]])

(* What the peer has received, followed by what is queued for it, is a     *)
(* prefix of the answers to its commands in their order: pipelining,       *)
(* partial writes and a reply dropped at the hard limit leave no gap.      *)
RepliesInOrder ==
    \A c \in Clients : Open(c) =>
        IsPrefix(delivered[c] \o client[c].reply_buf, Stream(answers[c]))

(* No command of a connection is executed while its reads are paused, nor  *)
(* after the reply that closes it.                                         *)
PausedMeansQuiet ==
    [][\A c \in Clients :
          client[c].reads_paused \/ client[c].close_after_reply
              => answers'[c] = answers[c]]_vars

(* The log has no holes.  A mutation whose append was refused is the last  *)
(* command its connection executes, although more may be pipelined behind  *)
(* it and the loop finishes the cycle before it stops.                     *)
RefusedMutationIsLast ==
    \A c \in Clients : unlogged[c] \subseteq {Len(answers[c])}

-----------------------------------------------------------------------------
(* The loop thread runs, peers read what is written to them, and the timer *)
(* comes due again and again.                                              *)
Fairness ==
    /\ WF_vars(Loop)
    /\ SF_vars(ServerCron)
    /\ \A c \in Clients : WF_vars(PeerReads(c))

FairSpec == Spec /\ Fairness

(* What a connected peer sends is executed, and every reply reaches it or  *)
(* the connection is closed: pausing never starves a peer that reads.      *)
EveryRequestIsAnswered ==
    \A c \in Clients :
        Open(c) /\ (inbox[c] # <<>> \/ HasPendingReplies(client[c]))
            ~> ~Open(c) \/ (inbox[c] = <<>> /\ ~HasPendingReplies(client[c]))

(* A closed connection's Client is erased by the deferred callback.  A     *)
(* stop signal, or a failed AOF, which ServerCron notices, ends the loop   *)
(* with every descriptor closed.                                           *)
ConnectionsEnd ==
    /\ \A c \in Clients : c \in clients /\ ~Open(c) ~> c \notin clients
    /\ (stop_signal \/ ~healthy) ~> (At("stopped") /\ \A c \in Clients : ~Open(c))
=============================================================================

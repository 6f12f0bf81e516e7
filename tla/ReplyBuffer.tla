----------------------------- MODULE ReplyBuffer -----------------------------
(***************************************************************************)
(* memory/reply_buffer: the replies queued for a client.  Bytes go to one  *)
(* fixed buffer, then to a list of overflow nodes.  sent_ counts the bytes *)
(* already written, of the buffer while it holds any and of the first node *)
(* otherwise.                                                              *)
(*                                                                         *)
(* Bytes are numbered modulo Modulus in the order they are appended, so    *)
(* that a misplaced byte shows.  The writes are those of                   *)
(* Client::SendBufferReply and SendListReply: the socket takes some of the *)
(* bytes it is offered.  Operators called Definition_Bug are the defects   *)
(* the properties are tried against.                                       *)
(***************************************************************************)
EXTENDS Integers, Sequences, SequencesExt, FiniteSetsExt

CONSTANTS kDefaultBufferSize,   \* bytes of the fixed buffer
          kProtoNodeSize,       \* least capacity of a writable node
          MaxIovCount,          \* blocks one writev takes
          hard_bytes,           \* most pending bytes, from CanQueueReply
          Modulus               \* distinct bytes

ASSUME ReplyBufferAssumption ==
    /\ kDefaultBufferSize \in Nat \ {0} /\ kProtoNodeSize \in Nat \ {0}
    /\ MaxIovCount \in Nat \ {0} /\ hard_bytes \in Nat
    /\ Modulus \in Nat /\ Modulus > hard_bytes

VARIABLES
    buf,            \* the used part of buf_: size_ is its length
    sent,
    nodes,          \* the list from reply_head_: [data, capacity, writable]
    pending_bytes,
    next, out       \* the next byte appended; the bytes of the last write

vars == <<buf, sent, nodes, pending_bytes, next, out>>

Least(m, n) == IF m <= n THEN m ELSE n
Drop(s, n) == SubSeq(s, n + 1, Len(s))

NewBytes(n) == [i \in 1..n |-> (next + i - 1) % Modulus]

-----------------------------------------------------------------------------
(* Appending.                                                              *)

Room_OrderIgnored == kDefaultBufferSize - Len(buf)

(* Once there are nodes the buffer takes nothing until they are written.   *)
Room == IF nodes = <<>> THEN kDefaultBufferSize - Len(buf) ELSE 0

TailRoom ==
    IF nodes = <<>> \/ ~Last(nodes).writable THEN 0
    ELSE Last(nodes).capacity - Len(Last(nodes).data)

WithTail(data) ==
    IF nodes = <<>> THEN <<>>
    ELSE Front(nodes) \o <<[Last(nodes) EXCEPT !.data = @ \o data]>>

Node(data) == [data |-> data, writable |-> TRUE,
               capacity |-> Max({Len(data), kProtoNodeSize})]

Appends(n) ==
    /\ n > 0 /\ pending_bytes + n <= hard_bytes
    /\ next' = (next + n) % Modulus
    /\ out' = <<>>
    /\ pending_bytes' = pending_bytes + n
    /\ UNCHANGED sent

(* Append(const char*, size_t): what does not fit in the buffer fills the  *)
(* last node, then a new one.                                              *)
AppendView(n) ==
    LET in_buffer == Least(n, Room)
        in_tail == Least(n - in_buffer, TailRoom)
        rest == Drop(NewBytes(n), in_buffer + in_tail)
    IN  /\ Appends(n)
        /\ buf' = buf \o SubSeq(NewBytes(n), 1, in_buffer)
        /\ nodes' = WithTail(SubSeq(NewBytes(n), in_buffer + 1, in_buffer + in_tail))
                    \o (IF rest = <<>> THEN <<>> ELSE <<Node(rest)>>)

(* Append(std::string&&): a string that does not fit whole becomes a node. *)
AppendOwned(n) ==
    /\ Appends(n)
    /\ IF nodes = <<>> /\ n <= kDefaultBufferSize - Len(buf)
       THEN buf' = buf \o NewBytes(n) /\ UNCHANGED nodes
       ELSE /\ nodes' = Append(nodes, [data |-> NewBytes(n), capacity |-> n,
                                       writable |-> FALSE])
            /\ UNCHANGED buf

-----------------------------------------------------------------------------
(* Writing.                                                                *)

FirstOffset == IF buf = <<>> THEN sent ELSE 0

FillBlocks ==
    (IF buf = <<>> THEN <<>> ELSE <<Drop(buf, sent)>>)
    \o [i \in 1..Len(nodes) |->
           IF i = 1 THEN Drop(nodes[1].data, FirstOffset) ELSE nodes[i].data]

Offered ==
    IF nodes = <<>> THEN Drop(buf, sent)
    ELSE FlattenSeq(SubSeq(FillBlocks, 1, Least(MaxIovCount, Len(FillBlocks))))

(* The bytes Consume takes from the buffer.                                *)
ConsumeBuffer(n) == IF buf = <<>> THEN 0 ELSE Least(n, Len(buf) - sent)

UsedUpTo(k, from) ==
    Len(FlattenSeq([i \in 1..k |-> nodes[i].data])) - from

(* The number of nodes that m more bytes use up, where from bytes of the   *)
(* first were written before.                                              *)
Emptied(m, from) ==
    Cardinality({k \in 1..Len(nodes) : UsedUpTo(k, from) <= m})

NewSent_NotReset(m, from, k) == from + m

NewSent(m, from, k) == IF k = 0 THEN from + m ELSE m - UsedUpTo(k, from)

Write(n) ==
    LET in_buffer == ConsumeBuffer(n)
        cleared == buf # <<>> /\ sent + in_buffer >= Len(buf)
        from == IF cleared THEN 0 ELSE sent
        m == n - in_buffer
        k == Emptied(m, from)
    IN  /\ n \in 1..Len(Offered)
        /\ out' = SubSeq(Offered, 1, n)
        /\ pending_bytes' = pending_bytes - Least(n, pending_bytes)
        /\ buf' = IF cleared THEN <<>> ELSE buf
        /\ IF m = 0
           THEN /\ sent' = IF buf = <<>> \/ cleared THEN from ELSE sent + in_buffer
                /\ UNCHANGED nodes
           ELSE nodes' = Drop(nodes, k) /\ sent' = NewSent(m, from, k)
        /\ UNCHANGED next

-----------------------------------------------------------------------------
Init ==
    /\ buf = <<>> /\ sent = 0 /\ nodes = <<>> /\ pending_bytes = 0
    /\ next = 0 /\ out = <<>>

Next ==
    \E n \in 1..hard_bytes : AppendView(n) \/ AppendOwned(n) \/ Write(n)

Spec == Init /\ [][Next]_vars

-----------------------------------------------------------------------------
Unsent == FlattenSeq(FillBlocks)

(* PendingBytes(), on which the client's limits rest, and Empty(), on      *)
(* which the write callback rests, both tell exactly what is not written;  *)
(* and sent_ is always inside the block it counts for, the buffer or the   *)
(* first node, none of which is empty.                                     *)
PendingAgrees ==
    /\ pending_bytes = Len(Unsent)
    /\ (buf = <<>> /\ nodes = <<>>) <=> Unsent = <<>>
    /\ Len(buf) <= kDefaultBufferSize
    /\ \A i \in 1..Len(nodes) : Len(nodes[i].data) \in 1..nodes[i].capacity
    /\ sent < (IF buf # <<>> THEN Len(buf)
               ELSE IF nodes # <<>> THEN Len(nodes[1].data) ELSE 1)

Queue == INSTANCE ByteQueue WITH queue <- Unsent

(* Buffer, nodes and sent_ are one queue: appends go to its end and a      *)
(* write, however partial, takes its front.                                *)
ImplementsByteQueue == Queue!QueueSpec
=============================================================================

---------------------------- MODULE DynamicBuffer ----------------------------
(***************************************************************************)
(* memory/dynamic_buffer: the input buffer of the server's clients, of     *)
(* the command line client and of Aof::Replay.  A buffer is the size_      *)
(* bytes stored, how many of them were consumed, and the capacity.         *)
(* Consumed bytes stay where they are until Compact, so a view taken       *)
(* before Consume still reads them.                                        *)
(***************************************************************************)
EXTENDS Integers, Sequences, FiniteSetsExt

CONSTANTS kInitialCapacity, kResizeThreshold, kGrowthSlack

Buffer == [data |-> <<>>, processed |-> 0, capacity |-> kInitialCapacity]

View(buffer) == SubSeq(buffer.data, buffer.processed + 1, Len(buffer.data))

IsEmpty(buffer) == buffer.processed = Len(buffer.data)

Compact(buffer) == [buffer EXCEPT !.data = View(buffer), !.processed = 0]

Consume_Moved(buffer, n) == Compact([buffer EXCEPT !.processed = @ + n])

Consume(buffer, n) ==
    [buffer EXCEPT !.processed = @ + Min({n, Len(View(buffer))})]

Resize(buffer, n) ==
    [buffer EXCEPT !.capacity = IF n < kResizeThreshold THEN Max({n, 2 * @})
                                ELSE n + kGrowthSlack]

Fits(buffer, n) == n <= buffer.capacity - Len(buffer.data)

(* Consumed bytes are dropped only when there is no room behind the rest.  *)
MakeRoom(buffer, n) ==
    LET compacted == IF Fits(buffer, n) THEN buffer ELSE Compact(buffer)
    IN  IF Fits(compacted, n) THEN compacted
        ELSE Resize(compacted, Len(compacted.data) + n)

AppendBytes(buffer, bytes) ==
    [MakeRoom(buffer, Len(bytes)) EXCEPT !.data = @ \o bytes]

Clear(buffer) == [buffer EXCEPT !.data = <<>>, !.processed = 0]

(* What a view of the buffer's memory reads; a view that outlived its      *)
(* bytes reads something else.                                             *)
Read(buffer, view) ==
    [i \in 1..view.size |->
        IF view.start + i <= Len(buffer.data) THEN buffer.data[view.start + i]
        ELSE "stale"]
=============================================================================

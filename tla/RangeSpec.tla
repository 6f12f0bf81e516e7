------------------------------- MODULE RangeSpec -------------------------------
(***************************************************************************)
(* The ranges that both encodings of a sorted set answer                   *)
(* (data_types/zset/zset_range_spec).  A spec is a record of min, max,     *)
(* minex, maxex, reverse and limit; a limit is an offset and a count, and  *)
(* without a limit the offset is 0 and the count NoCount.                  *)
(***************************************************************************)
EXTENDS Integers, Sequences, FiniteSetsExt

NoCount == -1
NoLimit == [offset |-> 0, count |-> NoCount]

(* ValidateRangeRankSpec and ValidateRangeScoreSpec.                       *)
ValidSpec(spec) ==
    (~spec.minex /\ ~spec.maxex /\ spec.min <= spec.max) \/ spec.min < spec.max

(* The negative ranks counted from the end, and the range cut to the set;  *)
(* none when nothing is left of it.                                        *)
NormalizeRankRange(spec, size) ==
    LET start == IF spec.min >= 0 THEN spec.min
                 ELSE IF spec.min < -size THEN 0 ELSE spec.min + size
        stop == IF spec.max >= 0 THEN spec.max ELSE spec.max + size
    IN  IF size = 0 \/ spec.max < -size \/ start >= size \/ start > stop THEN {}
        ELSE {[spec EXCEPT !.min = start, !.max = IF stop < size THEN stop ELSE size - 1]}

(* The loops of the range queries, over the entries they visit: from the   *)
(* first that is in S, and while they are in S.                            *)
While(seq, S) ==
    LET stops == {i \in 1..Len(seq) : seq[i] \notin S}
    IN  SubSeq(seq, 1, IF stops = {} THEN Len(seq) ELSE Min(stops) - 1)

From(seq, S) ==
    LET starts == {i \in 1..Len(seq) : seq[i] \in S}
    IN  IF starts = {} THEN <<>> ELSE SubSeq(seq, Min(starts), Len(seq))

Limited(seq, limit) ==
    LET rest == SubSeq(seq, limit.offset + 1, Len(seq))
    IN  IF limit.count = NoCount \/ limit.count > Len(rest) THEN rest
        ELSE SubSeq(rest, 1, limit.count)
===============================================================================

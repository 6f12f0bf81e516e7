----------------------------- MODULE ZSetListPack -----------------------------
(***************************************************************************)
(* data_types/zset/zset_listpack: the keys and scores of a sorted set      *)
(* alternate in a listpack, in the order of the scores and then the keys.  *)
(*                                                                         *)
(* A score is stored as text and read back (FloatToString and ToDouble);   *)
(* text that is an integer is stored as one.  What is read is a view: of   *)
(* the block for a string, and for an integer of the one buffer of the     *)
(* ListPack, int_buf_, where the text of the next one replaces it.         *)
(***************************************************************************)
EXTENDS Integers, Sequences, SequencesExt, RangeSpec

CONSTANTS Values, AsInt, Length, kBacklenRadix, Order,
          ScoreText     \* FloatToString of each score

LP == INSTANCE ListPack

NoScore == -1000000

ToDouble(text) == CHOOSE score \in DOMAIN ScoreText : ScoreText[score] = text

InBuffer == "a view of int_buf_"

(* The view, and what int_buf_ holds after the read. *)
ValueAt(lp, idx, int_buf) ==
    IF LP!IsString(lp, idx) THEN [view |-> LP!Get(lp, idx), int_buf |-> int_buf]
    ELSE [view |-> InBuffer, int_buf |-> LP!Get(lp, idx)]

(* What a view shows while int_buf_ holds int_buf. *)
Text(view, int_buf) == IF view = InBuffer THEN int_buf ELSE view

EntryAt_KeyFirst(lp, key_idx) ==
    LET score_idx == LP!Next(lp, key_idx)
        key == ValueAt(lp, key_idx, LP!NoValue)
        score == ValueAt(lp, score_idx, key.int_buf)
    IN  [key |-> Text(key.view, score.int_buf), score |-> ToDouble(Text(score.view, score.int_buf)),
         key_index |-> key_idx, score_index |-> score_idx]

(* The score is converted before the key is read, and the key is a view.   *)
EntryAt(lp, key_idx) ==
    LET score_idx == LP!Next(lp, key_idx)
        score == ValueAt(lp, score_idx, LP!NoValue)
        key == ValueAt(lp, key_idx, score.int_buf)
    IN  [key |-> Text(key.view, key.int_buf), score |-> ToDouble(Text(score.view, score.int_buf)),
         key_index |-> key_idx, score_index |-> score_idx]

Size(lp) == LP!Size(lp) \div 2

EntriesAt(lp, keys) == <<>> \o [i \in 1..Len(keys) |-> EntryAt(lp, keys[i])]

(* The entries that a walk by NextKeyAfterScore from the front, and one by *)
(* PrevScoreBeforeKey from the back, visit.                                *)
Forward(lp) == EntriesAt(lp, LP!Every(LP!Indices(lp), 2))
Backward(lp) ==
    EntriesAt(lp, LP!Every(SubSeq(LP!IndicesBack(lp), 2, 2 * Size(lp)), 2))

Keys(entries) == [i \in 1..Len(entries) |-> entries[i].key]

FindKey(lp, key) == LP!FindAndSkip(lp, key, 1)

DeleteKeyScorePair(lp, idx) == LP!DeleteRange(lp, idx, 2)

(* The pair goes before the first entry that is greater.                   *)
InsertScore(lp, key_idx, score) == LP!Insert(lp, LP!Next(lp, key_idx), ScoreText[score])

InsertBefore(lp, greater, key, score) ==
    IF greater = <<>> THEN LP!AppendAll(lp, <<key, ScoreText[score]>>)
    ELSE InsertScore(LP!Insert(lp, greater[1].key_index, key), greater[1].key_index, score)

InsertPair(lp, key, score) ==
    LET IsGreater(entry) == \/ score < entry.score
                            \/ score = entry.score /\ Order[key] < Order[entry.key]
    IN  InsertBefore(lp, SelectSeq(Forward(lp), IsGreater), key, score)

InsertOrUpdateAt(lp, idx, key, score) ==
    IF idx = LP!NoIndex THEN [lp |-> InsertPair(lp, key, score), inserted |-> TRUE]
    ELSE IF EntryAt(lp, idx).score = score THEN [lp |-> lp, inserted |-> FALSE]
    ELSE [lp |-> InsertPair(DeleteKeyScorePair(lp, idx), key, score), inserted |-> FALSE]

InsertOrUpdate(lp, key, score) == InsertOrUpdateAt(lp, FindKey(lp, key), key, score)

DeleteAt(lp, idx) ==
    IF idx = LP!NoIndex THEN [lp |-> lp, deleted |-> FALSE]
    ELSE [lp |-> DeleteKeyScorePair(lp, idx), deleted |-> TRUE]

Delete(lp, key) == DeleteAt(lp, FindKey(lp, key))

-----------------------------------------------------------------------------
(* Queries.                                                                *)

ScoreAt(lp, idx) == IF idx = LP!NoIndex THEN NoScore ELSE EntryAt(lp, idx).score
Score(lp, key) == ScoreAt(lp, FindKey(lp, key))

Rank(lp, key) ==
    LET entries == Forward(lp)
    IN  IF FindKey(lp, key) = LP!NoIndex THEN NoCount
        ELSE Min({i \in 1..Len(entries) : entries[i].key_index = FindKey(lp, key)}) - 1

(* RangeByRankUtil and RevRangeByRankUtil: the ranks from start to end of  *)
(* the walk.                                                               *)
RanksOf(entries, spec) ==
    LET size == Len(entries)
        start == spec.min + (IF spec.minex THEN 1 ELSE 0)
        end == IF ~spec.maxex /\ spec.max < size THEN spec.max + 1 ELSE LP!Least(spec.max, size)
    IN  Keys(Limited(SubSeq(entries, start + 1, end), spec.limit))

RangeByRank(lp, spec) ==
    LET normal == NormalizeRankRange(spec, Size(lp))
    IN  IF ~\E n \in normal : ValidSpec(n) THEN <<>>
        ELSE RanksOf(IF spec.reverse THEN Backward(lp) ELSE Forward(lp), CHOOSE n \in normal : TRUE)

GreaterOrEqual(score, spec) == IF spec.minex THEN score > spec.min ELSE score >= spec.min
LessOrEqual(score, spec) == IF spec.maxex THEN score < spec.max ELSE score <= spec.max
IsInRange(score, spec) == GreaterOrEqual(score, spec) /\ LessOrEqual(score, spec)

AboveMin(lp, spec) == {entry \in ToSet(Forward(lp)) : GreaterOrEqual(entry.score, spec)}
BelowMax(lp, spec) == {entry \in ToSet(Forward(lp)) : LessOrEqual(entry.score, spec)}

RangeByScoreUtil(lp, spec) ==
    While(From(Forward(lp), AboveMin(lp, spec)), BelowMax(lp, spec))

RevRangeByScoreUtil(lp, spec) ==
    While(From(Backward(lp), BelowMax(lp, spec)), AboveMin(lp, spec))

RangeByScore(lp, spec) ==
    IF ~ValidSpec(spec) THEN <<>>
    ELSE Keys(Limited(IF spec.reverse THEN RevRangeByScoreUtil(lp, spec)
                      ELSE RangeByScoreUtil(lp, spec), spec.limit))

Count(lp, spec) ==
    LET InRange(entry) == IsInRange(entry.score, spec)
    IN  IF ~ValidSpec(spec) THEN 0
        ELSE Len(SelectSeq(While(Forward(lp), BelowMax(lp, spec)), InRange))
===============================================================================

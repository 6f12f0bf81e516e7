--------------------------------- MODULE ZSet ---------------------------------
(***************************************************************************)
(* data_types/zset: a sorted set is a ZSetListPack while it is small, then *)
(* a ZSetSkiplist: a Dict from keys to scores (here a function), a         *)
(* skiplist of the same entries, and the smallest and largest key, which   *)
(* stand for "before" and "after all keys of a score" in range queries.    *)
(* Queries return the keys in the order of the reply.                      *)
(***************************************************************************)
EXTENDS Integers, Sequences, SequencesExt, FiniteSetsExt, TLC

CONSTANTS Values, AsInt, Length, kBacklenRadix, Members, Order, ScoreText,
          kMaxSkiplistLevel, kListPackMaxEntries, kListPackMaxElementLength

ZL == INSTANCE ZSetListPack
SL == INSTANCE Skiplist

NoKey == "no key"

EmptySkiplist == [encoding |-> "kSkiplist", listpack |-> ZL!LP!NewListPack,
                  skiplist |-> SL!NewSkiplist, dict |-> <<>>,
                  min_key |-> NoKey, max_key |-> NoKey]
OfListPack(lp) == [EmptySkiplist EXCEPT !.encoding = "kListPack", !.listpack = lp]

NewZSet == OfListPack(ZL!LP!NewListPack)

IsListPack(z) == z.encoding = "kListPack"

Size(z) == IF IsListPack(z) THEN ZL!Size(z.listpack) ELSE z.skiplist.size

Entry(key, score) == [key |-> key, score |-> score]

-----------------------------------------------------------------------------
(* ZSetSkiplist.                                                           *)

WithKey_MaxKept(z, key) ==
    [z EXCEPT !.min_key = IF @ = NoKey \/ Order[key] < Order[@] THEN key ELSE @,
              !.max_key = IF @ = NoKey THEN key ELSE @]

WithKey(z, key) ==
    [z EXCEPT !.min_key = IF @ = NoKey \/ Order[key] < Order[@] THEN key ELSE @,
              !.max_key = IF @ = NoKey \/ Order[key] > Order[@] THEN key ELSE @]

InsertIntoSkiplist(z, key, score, insert_level) ==
    LET known == key \in DOMAIN z.dict
        skiplist == IF known THEN SL!Update(z.skiplist, Entry(key, z.dict[key]),
                                            Entry(key, score), insert_level)
                    ELSE SL!Insert(z.skiplist, Entry(key, score), insert_level)
        refused == known /\ ~SL!Contains(z.skiplist, Entry(key, z.dict[key]))
    IN  IF refused \/ (known /\ z.dict[key] = score) THEN [z |-> z, inserted |-> FALSE]
        ELSE [z |-> WithKey([z EXCEPT !.skiplist = skiplist,
                                      !.dict = (key :> score) @@ @], key),
              inserted |-> ~known]

RecomputeMinMaxKeys(z) ==
    FoldLeft(WithKey, [z EXCEPT !.min_key = NoKey, !.max_key = NoKey],
             SetToSeq(DOMAIN z.dict))

DeleteFromSkiplist(z, key) ==
    LET rest == DOMAIN z.dict \ {key}
        deleted == [z EXCEPT !.skiplist = SL!Delete(@, Entry(key, z.dict[key])),
                             !.dict = [k \in rest |-> z.dict[k]]]
    IN  IF key \notin DOMAIN z.dict THEN [z |-> z, deleted |-> FALSE]
        ELSE IF ~SL!Contains(z.skiplist, Entry(key, z.dict[key]))
        THEN [z |-> z, deleted |-> FALSE]
        ELSE [z |-> IF key \in {z.min_key, z.max_key} THEN RecomputeMinMaxKeys(deleted)
                    ELSE deleted,
              deleted |-> TRUE]

(* An exclusive bound is moved over all keys of its score.                 *)
ToSkiplistRangeByKeySpec(z, spec) ==
    [spec EXCEPT !.min = Entry(IF spec.minex THEN z.max_key ELSE z.min_key, spec.min),
                 !.max = Entry(IF spec.maxex THEN z.min_key ELSE z.max_key, spec.max)]

NoRange(z, spec) ==
    \/ Size(z) = 0 \/ spec.min > spec.max
    \/ spec.min = spec.max /\ (spec.minex \/ spec.maxex)

-----------------------------------------------------------------------------
(* ZSet.                                                                   *)

(* The entries move in order, each to a node of a random level.            *)
ConvertAndExpand(z, levels) ==
    FoldLeft(LAMBDA s, e : InsertIntoSkiplist(s, e.key, e.score, levels[e.key]).z,
             EmptySkiplist, ZL!Forward(z.listpack))

ShouldConvertToSkiplist(z, key, inserted) ==
    /\ IsListPack(z)
    /\ \/ inserted /\ Size(z) > kListPackMaxEntries
       \/ Length[key] > kListPackMaxElementLength

OfPacked(packed) == [z |-> OfListPack(packed.lp), inserted |-> packed.inserted]

Inserted(z, key, score, levels) ==
    IF IsListPack(z) THEN OfPacked(ZL!InsertOrUpdate(z.listpack, key, score))
    ELSE InsertIntoSkiplist(z, key, score, levels[key])

Expanded(result, key, levels) ==
    IF ShouldConvertToSkiplist(result.z, key, result.inserted)
    THEN [result EXCEPT !.z = ConvertAndExpand(@, levels)] ELSE result

(* levels are the outcomes of RandomLevel for the nodes created.           *)
InsertOrUpdate(z, key, score, levels) ==
    Expanded(Inserted(IF IsListPack(z) /\ Length[key] > kListPackMaxElementLength
                      THEN ConvertAndExpand(z, levels) ELSE z,
                      key, score, levels),
             key, levels)

OfDeletion(deletion) == [z |-> OfListPack(deletion.lp), deleted |-> deletion.deleted]

Delete(z, key) ==
    IF IsListPack(z) THEN OfDeletion(ZL!Delete(z.listpack, key))
    ELSE DeleteFromSkiplist(z, key)

Score(z, key) ==
    IF IsListPack(z) THEN ZL!Score(z.listpack, key)
    ELSE IF key \in DOMAIN z.dict THEN z.dict[key] ELSE ZL!NoScore

Rank(z, key) ==
    IF IsListPack(z) THEN ZL!Rank(z.listpack, key)
    ELSE IF key \notin DOMAIN z.dict THEN ZL!NoCount
    ELSE SL!FindRankOfKey(z.skiplist, Entry(key, z.dict[key]))

RangeByRank(z, spec) ==
    LET normal == ZL!NormalizeRankRange(spec, Size(z))
        n == CHOOSE n \in normal : TRUE
    IN  IF IsListPack(z) THEN ZL!RangeByRank(z.listpack, spec)
        ELSE IF normal = {} THEN <<>>
        ELSE IF spec.reverse THEN SL!RevRangeByRank(z.skiplist, n)
        ELSE SL!RangeByRank(z.skiplist, n)

RangeByScore(z, spec) ==
    LET keys == ToSkiplistRangeByKeySpec(z, spec)
    IN  IF IsListPack(z) THEN ZL!RangeByScore(z.listpack, spec)
        ELSE IF NoRange(z, spec) THEN <<>>
        ELSE IF spec.reverse THEN SL!RevRangeByKey(z.skiplist, keys)
        ELSE SL!RangeByKey(z.skiplist, keys)

(* RangeByScore dereferences a null entry.                                 *)
ReadsNullKey(z, spec) ==
    /\ ~IsListPack(z) /\ ~NoRange(z, spec) /\ spec.reverse
    /\ SL!ReadsNullKey(z.skiplist, ToSkiplistRangeByKeySpec(z, spec))

Count(z, spec) ==
    IF IsListPack(z) THEN ZL!Count(z.listpack, spec)
    ELSE IF NoRange(z, spec) THEN 0
    ELSE SL!Count(z.skiplist, ToSkiplistRangeByKeySpec(z, spec))

(* ForEachEntry, as a map from keys to scores.                             *)
Entries(z) ==
    LET entries == ZL!Forward(z.listpack)
        nodes == SL!All(z.skiplist)
    IN  IF IsListPack(z)
        THEN [key \in ToSet(ZL!Keys(entries)) |-> ZL!Score(z.listpack, key)]
        ELSE [key \in ToSet(nodes) |-> z.skiplist.entry[key].score]
===============================================================================

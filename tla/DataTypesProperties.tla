-------------------------- MODULE DataTypesProperties --------------------------
(***************************************************************************)
(* What the encodings of the collection types must satisfy.                *)
(***************************************************************************)
EXTENDS DataTypes

LP == INSTANCE ListPack

(* Every object has one of the encodings of its type, holds values of the  *)
(* model, and is well formed.  Every listpack can be walked from both ends *)
(* and counts its entries: the lengths written behind the entries are      *)
(* those a walk from the front finds, whatever was inserted, replaced or   *)
(* deleted.  An IntSet is strictly ascending, which its binary search      *)
(* relies on, also across a change of width.                               *)
TypeOK ==
    /\ type \in C!Types
    /\ object.encoding \in CASE type = "list" -> {"kListPack", "kQuickList"}
                             [] type = "set" -> {"kIntSet", "kListPack", "kDict"}
                             [] type = "hash" -> {"kListPack", "kDict"}
                             [] OTHER -> {"kListPack", "kSkiplist"}
    /\ CASE type = "list" -> value \in Seq(ListValues)
         [] type = "set" -> value \subseteq SetValues
         [] type = "hash" -> value \in UNION {[F -> HashValues] : F \in SUBSET HashFields}
         [] OTHER -> value \in UNION {[M -> Scores] : M \in SUBSET Members}
    /\ reply \in [ok : BOOLEAN, count : 0..MaxSize, val : ListValues \cup {C!NoValue}]
    /\ LP!WellFormed(object.listpack)
    /\ type = "list" => \A i \in 1..Len(object.quicklist.nodes) :
                            LP!WellFormed(object.quicklist.nodes[i])
    /\ type = "set" => \A i, j \in 1..Len(object.intset.contents) :
                           i < j => object.intset.contents[i] < object.intset.contents[j]

(* Conversions, merges, splits and in-place updates change no contents and *)
(* no reply: the commands do to the encodings what they promise.           *)
ImplementsCollections == C!Spec

(* The encodings stay within their limits, so that the linear work in them *)
(* does.  No node of a quicklist is empty, one that exceeds the limit      *)
(* holds a single element, and size_ is the number of elements; a list     *)
(* stays in its listpack only while that fits.  For the other types the    *)
(* limits are on the entries of an IntSet, the entries of a listpack and   *)
(* the length of each.                                                     *)
EncodingsStaySmall ==
    IF type = "list"
    THEN LET nodes == object.quicklist.nodes
         IN  /\ \A i \in 1..Len(nodes) :
                   /\ LP!Size(nodes[i]) > 0
                   /\ LP!TotalBytes(nodes[i]) <= list_max_listpack_bytes \/ LP!Size(nodes[i]) = 1
             /\ object.quicklist.size = Len(L!QL!Elements(object.quicklist))
             /\ LP!TotalBytes(object.listpack) <= list_max_listpack_bytes
    ELSE LET elements == LP!Elements(object.listpack)
             per_entry == IF type = "set" THEN 1 ELSE 2
         IN  /\ Len(elements) <= kListPackMaxEntries * per_entry
             /\ \A i \in 1..Len(elements) : Length[elements[i]] <= kListPackMaxElementLength
             /\ type = "set" => Len(object.intset.contents) <= kIntSetMaxEntries

(* In a skiplist each span is the number of keys its link moves over, up   *)
(* to the end for the last link of a level; backward links mirror forward  *)
(* ones; dict_ and the skiplist hold the same entries; min_key_ and        *)
(* max_key_ are the extremes of the keys.                                  *)
SkiplistConsistent ==
    type = "zset" /\ object.encoding = "kSkiplist" =>
        LET sl == object.skiplist
            keys == Z!SL!All(sl)
            rank == [n \in Z!SL!Nodes |->
                        IF n = Z!SL!Head_ THEN 0 ELSE Max({0} \cup {i \in 1..Len(keys) : keys[i] = n})]
        IN  /\ Len(keys) = sl.size
            /\ \A i \in 1..Len(keys) :
                  sl.prev[keys[i]] = IF i = 1 THEN Z!SL!Head_ ELSE keys[i - 1]
            /\ \A i \in 0..sl.level - 1, n \in Z!SL!Nodes :
                  sl.next[i][n] # Z!SL!Null => sl.span[i][n] = rank[sl.next[i][n]] - rank[n]
            /\ \A i \in 0..sl.level - 1 :
                  LET last == Z!SL!Path(sl, Members)[i].node
                  IN  sl.span[i][last] = sl.size - rank[last]
            /\ object.dict = [k \in ToSet(keys) |-> sl.entry[k].score]
            /\ \A k \in DOMAIN object.dict :
                  /\ Order[object.min_key] <= Order[k] /\ Order[k] <= Order[object.max_key]
                  /\ {object.min_key, object.max_key} \subseteq DOMAIN object.dict

-----------------------------------------------------------------------------
(* Queries, against their definitions on the contents.                     *)

Limits == {Z!ZL!NoLimit, [offset |-> 1, count |-> 1], [offset |-> 0, count |-> 2]}

ScoreSpecs ==
    [min : Bounds, max : Bounds, minex : BOOLEAN, maxex : BOOLEAN,
     reverse : BOOLEAN, limit : Limits]

RankSpecs ==
    [min : Positions, max : Positions, minex : {FALSE}, maxex : {FALSE},
     reverse : BOOLEAN, limit : {Z!ZL!NoLimit}]

Sorted ==
    SetToSortSeq(DOMAIN value,
        LAMBDA j, k : \/ value[j] < value[k]
                      \/ value[j] = value[k] /\ Order[j] < Order[k])

InOrder(keys, reverse) == IF reverse THEN Reverse(keys) ELSE keys

Within(score, spec) ==
    /\ IF spec.minex THEN score > spec.min ELSE score >= spec.min
    /\ IF spec.maxex THEN score < spec.max ELSE score <= spec.max

ScoreQuery(sorted, spec) ==
    SelectSeq(InOrder(sorted, spec.reverse), LAMBDA k : Within(value[k], spec))

(* Score, rank and both kinds of range return the same in either encoding  *)
(* of a sorted set: what they select, in score and then key order or its   *)
(* reverse, cut to the limit.  Left out are the reverse ranges that        *)
(* compare the key of the skiplist's head, which was never set: what they  *)
(* return is undefined.                                                    *)
ZSetQueries ==
    type = "zset" =>
        LET sorted == Sorted
            n == Len(sorted)
            From(i) == IF i < 0 THEN Max({i + n, 0}) ELSE i
            To(i) == IF i < 0 THEN i + n ELSE Min({i, n - 1})
        IN  /\ \A i \in 1..n : /\ Z!Rank(object, sorted[i]) = i - 1
                               /\ Z!Score(object, sorted[i]) = value[sorted[i]]
            /\ \A k \in Members \ DOMAIN value :
                  Z!Rank(object, k) = Z!ZL!NoCount /\ Z!Score(object, k) = Z!ZL!NoScore
            /\ \A spec \in RankSpecs :
                  Z!RangeByRank(object, spec) =
                      SubSeq(InOrder(sorted, spec.reverse), From(spec.min) + 1, To(spec.max) + 1)
            /\ \A spec \in ScoreSpecs : ~Z!ReadsNullKey(object, spec) =>
                  /\ Z!RangeByScore(object, spec) = Z!ZL!Limited(ScoreQuery(sorted, spec), spec.limit)
                  /\ Z!Count(object, spec) = Len(ScoreQuery(sorted, spec))

(* Membership, field and range lookups find what is there and nothing      *)
(* else.                                                                   *)
Lookups ==
    /\ type = "set" => \A v \in SetValues : S!HasMember(object, v) <=> v \in value
    /\ type = "hash" => \A f \in HashFields :
          H!Get(object, f) = IF f \in DOMAIN value THEN value[f] ELSE C!NoValue
    /\ type = "list" => \A i, j \in 0..Len(value), reverse \in BOOLEAN :
          L!Visit(object, i, j, reverse) =
              InOrder(SubSeq(value, i + 1, Min({j + 1, Len(value)})), reverse)

(* Every query answers from the contents, whatever the encoding.           *)
QueriesAgree == ZSetQueries /\ Lookups

-----------------------------------------------------------------------------
(* What the repository says of a case and the code does not do.            *)

(* Set::Add succeeds, also for the first string in a set of integers: SADD *)
(* is answered with a count.                                               *)
AddNeverThrows == type = "set" => reply.ok
===============================================================================

------------------------------- MODULE Skiplist -------------------------------
(***************************************************************************)
(* memory/skiplist: keys in order, linked at up to kMaxSkiplistLevel       *)
(* levels.  Each link carries its span, the number of keys it moves over;  *)
(* a search adds them up, which makes ranks cheap and every insertion and  *)
(* deletion responsible for the spans of all levels.                       *)
(*                                                                         *)
(* sl is a record of level, size, and for each level the links and spans   *)
(* of the nodes.  A node is named by the member it holds and its key is    *)
(* the entry entry[n] of the sorted set, a member and a score, compared as *)
(* ZSetSkiplist::Comparator does.  The links and spans of what is not in   *)
(* the list are Null and 0.  The random level is the caller's choice.      *)
(***************************************************************************)
EXTENDS Integers, Sequences, FiniteSets, RangeSpec

SeqExt == INSTANCE SequencesExt

CONSTANTS Members,             \* the keys of a sorted set
          Order,               \* their place in the order of std::string
          kMaxSkiplistLevel

Head_ == "head"
Null == "null"
Levels == 0..kMaxSkiplistLevel - 1
Nodes == Members \cup {Head_}
NoEntry == [key |-> Null, score |-> 0]

NewSkiplist ==
    [level |-> 1, size |-> 0,
     next |-> [i \in Levels |-> [n \in Nodes |-> Null]],
     span |-> [i \in Levels |-> [n \in Nodes |-> 0]],
     prev |-> [n \in Nodes |-> Null],
     entry |-> [n \in Nodes |-> NoEntry]]

Lt(a, b) == a.score < b.score \/ (a.score = b.score /\ Order[a.key] < Order[b.key])
Lte(a, b) == Lt(a, b) \/ a = b

(* The nodes that Next can lead to and whose key is below (or at) key.     *)
Below(sl, key) == {n \in Members : sl.entry[n] # NoEntry /\ Lt(sl.entry[n], key)}
UpTo(sl, key) == {n \in Members : sl.entry[n] # NoEntry /\ Lte(sl.entry[n], key)}

-----------------------------------------------------------------------------
(* Searching.  A position is a node and its rank, the sum of the spans.    *)

RECURSIVE Advance(_, _, _, _)
Advance(sl, i, at, lower) ==
    IF sl.next[i][at.node] \notin lower THEN at
    ELSE Advance(sl, i, [node |-> sl.next[i][at.node],
                         rank |-> at.rank + sl.span[i][at.node]], lower)

(* prev[i] and rank[i] of FindKeyGreaterOrEqual: the last position at each *)
(* level before the nodes that are not in lower.                           *)
Path(sl, lower) ==
    LET path[i \in 0..sl.level - 1] ==
            Advance(sl, i, IF i = sl.level - 1 THEN [node |-> Head_, rank |-> 0]
                           ELSE path[i + 1], lower)
    IN  path

FindKeyGreaterOrEqual(sl, key) == sl.next[0][Path(sl, Below(sl, key))[0].node]
Contains(sl, key) ==
    LET n == FindKeyGreaterOrEqual(sl, key) IN n # Null /\ sl.entry[n] = key
FindKeyLessOrEqual(sl, key) == Path(sl, UpTo(sl, key))[0].node

(* From the top level down, the first link that arrives at the key.        *)
FindRankOfKey(sl, key) ==
    LET path == Path(sl, Below(sl, key))
        Arrives(i) == LET next == sl.next[i][path[i].node]
                      IN  next # Null /\ sl.entry[next] = key
        levels == {i \in 0..sl.level - 1 : Arrives(i)}
        i == Max(levels)
    IN  IF levels = {} THEN NoCount
        ELSE path[i].rank + sl.span[i][path[i].node] - 1

RECURSIVE FindKeyFrom(_, _, _, _)
FindKeyFrom(sl, i, at, rank) ==
    LET next == sl.next[i][at.node]
        sum == at.rank + sl.span[i][at.node]
    IN  IF next # Null /\ sum < rank + 1
        THEN FindKeyFrom(sl, i, [node |-> next, rank |-> sum], rank)
        ELSE IF next # Null /\ sum = rank + 1 THEN next
        ELSE IF i = 0 THEN Null
        ELSE FindKeyFrom(sl, i - 1, at, rank)

FindKey(sl, rank) ==
    IF rank >= sl.size THEN Null
    ELSE FindKeyFrom(sl, sl.level - 1, [node |-> Head_, rank |-> 0], rank)

-----------------------------------------------------------------------------
(* Changing.                                                               *)

WithLevels(sl, insert_level) ==
    IF insert_level <= sl.level THEN sl
    ELSE [sl EXCEPT !.level = insert_level,
                    !.span = [i \in Levels |-> IF i \in sl.level..insert_level - 1
                                               THEN [@[i] EXCEPT ![Head_] = sl.size]
                                               ELSE @[i]]]

InsertSpan_NotShared(sl, path, i, node, insert_level) ==
    IF i < insert_level
    THEN [sl.span[i] EXCEPT ![node] = sl.span[i][path[i].node],
                            ![path[i].node] = path[0].rank - path[i].rank + 1]
    ELSE [sl.span[i] EXCEPT ![path[i].node] = @ + 1]

(* The spans of level i with node added behind the path.                   *)
InsertSpan(sl, path, i, node, insert_level) ==
    IF i < insert_level
    THEN [sl.span[i] EXCEPT ![node] = sl.span[i][path[i].node] - path[0].rank + path[i].rank,
                            ![path[i].node] = path[0].rank - path[i].rank + 1]
    ELSE [sl.span[i] EXCEPT ![path[i].node] = @ + 1]

Found(sl, path, key) ==
    LET n == sl.next[0][path[0].node] IN n # Null /\ sl.entry[n] = key

Linked(sl, path, node, key, insert_level) ==
    [level |-> sl.level, size |-> sl.size + 1,
     next |-> [i \in Levels |->
                 IF i < insert_level
                 THEN [sl.next[i] EXCEPT ![node] = sl.next[i][path[i].node],
                                         ![path[i].node] = node]
                 ELSE sl.next[i]],
     span |-> [i \in Levels |->
                 IF i < sl.level THEN InsertSpan(sl, path, i, node, insert_level)
                 ELSE sl.span[i]],
     prev |-> [n \in Nodes |-> IF n = node THEN path[0].node
                               ELSE IF n = sl.next[0][path[0].node] THEN node ELSE sl.prev[n]],
     entry |-> [sl.entry EXCEPT ![node] = key]]

InsertBehind(sl, path, key, insert_level) ==
    IF Found(sl, path, key) THEN sl ELSE Linked(sl, path, key.key, key, insert_level)

InsertWith(sl, key, insert_level) ==
    InsertBehind(sl, Path(sl, Below(sl, key)), key, insert_level)

Insert(sl, key, insert_level) == InsertWith(WithLevels(sl, insert_level), key, insert_level)

(* The node goes: its links, spans and key are reset.                      *)
DeleteNode(sl, path) ==
    LET node == sl.next[0][path[0].node]
        after == sl.next[0][node]
        IsLinked(i) == i < sl.level /\ sl.next[i][path[i].node] = node
    IN  [level |-> sl.level, size |-> sl.size - 1,
         next |-> [i \in Levels |->
                     IF IsLinked(i) THEN [sl.next[i] EXCEPT ![path[i].node] = sl.next[i][node],
                                                          ![node] = Null]
                     ELSE sl.next[i]],
         span |-> [i \in Levels |->
                     IF IsLinked(i)
                     THEN [sl.span[i] EXCEPT ![path[i].node] = @ + sl.span[i][node] - 1,
                                             ![node] = 0]
                     ELSE IF i < sl.level THEN [sl.span[i] EXCEPT ![path[i].node] = @ - 1]
                     ELSE sl.span[i]],
         prev |-> [n \in Nodes |-> IF n = node THEN Null
                                   ELSE IF n = after THEN path[0].node ELSE sl.prev[n]],
         entry |-> [sl.entry EXCEPT ![node] = NoEntry]]

DeleteBehind(sl, path, key) == IF Found(sl, path, key) THEN DeleteNode(sl, path) ELSE sl

Delete(sl, key) == DeleteBehind(sl, Path(sl, Below(sl, key)), key)

(* In place when the neighbours stay the neighbours.                       *)
UpdateBehind(sl, path, key, new_key, insert_level) ==
    LET before == path[0].node
        next == sl.next[0][sl.next[0][before]]
    IN  IF ~Found(sl, path, key) THEN sl
        ELSE IF /\ before = Head_ \/ Lte(sl.entry[before], new_key)
                /\ next = Null \/ Lte(new_key, sl.entry[next])
        THEN [sl EXCEPT !.entry[sl.next[0][before]] = new_key]
        ELSE Insert(DeleteNode(sl, path), new_key, insert_level)

Update(sl, key, new_key, insert_level) ==
    UpdateBehind(sl, Path(sl, Below(sl, key)), key, new_key, insert_level)

-----------------------------------------------------------------------------
(* Ranges, as the sequences of the members visited.                        *)

RECURSIVE Onward(_, _), Backward(_, _)
Onward(sl, node) == IF node = Null THEN <<>> ELSE <<node>> \o Onward(sl, sl.next[0][node])
Backward(sl, node) ==
    IF node \in {Null, Head_} THEN <<>> ELSE <<node>> \o Backward(sl, sl.prev[node])

All(sl) == Onward(sl, sl.next[0][Head_])

RankCount(spec) ==
    spec.max - (IF spec.maxex THEN 1 ELSE 0) - (spec.min + (IF spec.minex THEN 1 ELSE 0)) + 1

RangeByRank(sl, spec) ==
    LET min == FindKey(sl, spec.min)
        node == IF min # Null /\ spec.minex THEN sl.next[0][min] ELSE min
    IN  IF ~ValidSpec(spec) THEN <<>>
        ELSE Limited(Limited(Onward(sl, node), [offset |-> 0, count |-> RankCount(spec)]),
                     spec.limit)

RevRangeByRank(sl, spec) ==
    LET min == FindKey(sl, sl.size - 1 - spec.min)
        node == IF min # Null /\ spec.minex THEN sl.prev[min] ELSE min
    IN  IF ~ValidSpec(spec) THEN <<>>
        ELSE Limited(Limited(Backward(sl, node), [offset |-> 0, count |-> RankCount(spec)]),
                     spec.limit)

(* spec.min and spec.max are entries here.                                 *)
ValidKeySpec(spec) ==
    (~spec.minex /\ ~spec.maxex /\ Lte(spec.min, spec.max)) \/ Lt(spec.min, spec.max)

FromMin(sl, spec) ==
    LET node == FindKeyGreaterOrEqual(sl, spec.min)
        start == IF node # Null /\ spec.minex /\ sl.entry[node] = spec.min
                 THEN sl.next[0][node] ELSE node
        walk == Onward(sl, start)
    IN  While(walk, {n \in SeqExt!ToSet(walk) : IF spec.maxex THEN Lt(sl.entry[n], spec.max)
                                                       ELSE Lte(sl.entry[n], spec.max)})

RangeByKey(sl, spec) ==
    IF ~ValidKeySpec(spec) THEN <<>> ELSE Limited(FromMin(sl, spec), spec.limit)

Count(sl, spec) == IF ~ValidKeySpec(spec) THEN 0 ELSE Len(FromMin(sl, spec))

(* Eq(node->key, spec->max) dereferences the key of the node found, which  *)
(* is null when that node is head_.                                        *)
ReadsNullKey(sl, spec) ==
    /\ ValidKeySpec(spec) /\ spec.limit.count # 0
    /\ spec.maxex
    /\ FindKeyLessOrEqual(sl, spec.max) = Head_

RevRangeByKey(sl, spec) ==
    LET node == FindKeyLessOrEqual(sl, spec.max)
        start == IF spec.maxex /\ sl.entry[node] = spec.max THEN sl.prev[node] ELSE node
        walk == Backward(sl, start)
        within == {n \in SeqExt!ToSet(walk) : IF spec.minex THEN Lt(spec.min, sl.entry[n])
                                                     ELSE Lte(spec.min, sl.entry[n])}
    IN  IF ~ValidKeySpec(spec) THEN <<>>
        ELSE Limited(While(walk, within), spec.limit)
===============================================================================

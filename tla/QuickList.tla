------------------------------ MODULE QuickList ------------------------------
(***************************************************************************)
(* memory/quicklist: a list of listpacks of bounded size.  ql is a record  *)
(* of the listpacks from head_ to tail_ and size_; node_count_ is the      *)
(* length of the list and the links between nodes are their order.  Node   *)
(* numbers start at 1, element indices at 0 as in the code; a merge or a   *)
(* deletion of a node that does not exist changes nothing.                 *)
(***************************************************************************)
EXTENDS Integers, Sequences, SequencesExt, FiniteSetsExt

CONSTANTS Values, AsInt, Length, kBacklenRadix, node_max_bytes

LP == INSTANCE ListPack

NewQuickList == [nodes |-> <<>>, size |-> 0]

Elements(ql) == FlattenSeq([i \in 1..Len(ql.nodes) |-> LP!Elements(ql.nodes[i])])

-----------------------------------------------------------------------------
(* Nodes.                                                                  *)

CanAppendToNode(lp, val) ==
    \/ LP!Size(lp) = 0
    \/ LP!TotalBytes(lp) + LP!EstimateEntryBytes(val) <= node_max_bytes

CanMergeNodes(ql, i) ==
    /\ i >= 1 /\ i < Len(ql.nodes)
    /\ LP!TotalBytes(ql.nodes[i]) + LP!TotalBytes(ql.nodes[i + 1])
           - LP!kListPackHeaderSize - 1 <= node_max_bytes

DeleteNode(ql, i) == [ql EXCEPT !.nodes = RemoveAt(@, i)]

DeleteIfEmpty(ql, i) == IF LP!Size(ql.nodes[i]) = 0 THEN DeleteNode(ql, i) ELSE ql

MergeNext_RightFirst(ql, i) ==
    IF ~CanMergeNodes(ql, i) THEN ql
    ELSE DeleteNode([ql EXCEPT !.nodes[i] =
                        LP!AppendAll(ql.nodes[i + 1], LP!Elements(@))], i + 1)

MergeNext(ql, i) ==
    IF ~CanMergeNodes(ql, i) THEN ql
    ELSE DeleteNode([ql EXCEPT !.nodes[i] =
                        LP!AppendAll(@, LP!Elements(ql.nodes[i + 1]))], i + 1)

RECURSIVE MergeOnward(_, _)
MergeOnward(ql, i) ==
    IF CanMergeNodes(ql, i) THEN MergeOnward(MergeNext(ql, i), i) ELSE ql

MergeAround(ql, i) ==
    IF i \notin 1..Len(ql.nodes) THEN ql
    ELSE IF CanMergeNodes(ql, i - 1) THEN MergeOnward(MergeNext(ql, i - 1), i - 1)
    ELSE MergeOnward(ql, i)

RECURSIVE MergeAllFrom(_, _)
MergeAllFrom(ql, i) ==
    IF i > Len(ql.nodes) THEN ql ELSE MergeAllFrom(MergeOnward(ql, i), i + 1)

MergeAll(ql) == MergeAllFrom(ql, 1)

(* The right half goes to a new node.                                      *)
SplitNode(ql, i) ==
    LET lp == ql.nodes[i]
        split_index == LP!Size(lp) \div 2
        right == LP!AppendAll(LP!NewListPack,
                              LP!ForEach(lp, split_index, LP!Size(lp) - 1))
        left == LP!DeleteRange(lp, LP!IndexAt(lp, split_index),
                               LP!Size(lp) - split_index)
    IN  [ql EXCEPT !.nodes = InsertAt([@ EXCEPT ![i] = left], i + 1, right)]

RECURSIVE NormalizeNodeSizesFrom(_, _)
NormalizeNodeSizesFrom(ql, i) ==
    IF i > Len(ql.nodes) THEN ql
    ELSE IF LP!TotalBytes(ql.nodes[i]) > node_max_bytes /\ LP!Size(ql.nodes[i]) > 1
    THEN NormalizeNodeSizesFrom(SplitNode(ql, i), i)
    ELSE NormalizeNodeSizesFrom(ql, i + 1)

-----------------------------------------------------------------------------
(* Operations.                                                             *)

LPush(ql, val) ==
    LET room == ql.nodes # <<>> /\ CanAppendToNode(Head(ql.nodes), val)
        nodes == IF room THEN ql.nodes ELSE <<LP!NewListPack>> \o ql.nodes
    IN  [nodes |-> [nodes EXCEPT ![1] = LP!Prepend(@, val)], size |-> ql.size + 1]

RPush(ql, val) ==
    LET room == ql.nodes # <<>> /\ CanAppendToNode(Last(ql.nodes), val)
        nodes == IF room THEN ql.nodes ELSE Append(ql.nodes, LP!NewListPack)
    IN  [nodes |-> [nodes EXCEPT ![Len(nodes)] = LP!Append_(@, val)],
         size |-> ql.size + 1]

(* Pops return the list and the value.                                     *)
DeleteIn(ql, i, idx) ==
    DeleteIfEmpty([nodes |-> [ql.nodes EXCEPT ![i] = LP!Delete(@, idx)],
                   size |-> ql.size - 1], i)

MergeTail(ql) == MergeNext(ql, Len(ql.nodes) - 1)

LPop(ql) ==
    LET idx == LP!First(Head(ql.nodes))
    IN  IF ql.nodes = <<>> THEN [ql |-> ql, val |-> LP!NoValue]
        ELSE [ql |-> MergeNext(DeleteIn(ql, 1, idx), 1), val |-> LP!Get(Head(ql.nodes), idx)]

RPop(ql) ==
    LET idx == LP!Last_(Last(ql.nodes))
    IN  IF ql.nodes = <<>> THEN [ql |-> ql, val |-> LP!NoValue]
        ELSE [ql |-> MergeTail(DeleteIn(ql, Len(ql.nodes), idx)),
              val |-> LP!Get(Last(ql.nodes), idx)]

(* The node that holds element index, and the index in it: from the head   *)
(* for the first half of the list, from the tail for the second.           *)
Locate(ql, index) ==
    LET n == Len(ql.nodes)
        Sum(from, to) == FoldLeft(LAMBDA sum, lp : sum + LP!Size(lp), 0,
                                  SubSeq(ql.nodes, from, to))
    IN  IF index < ql.size \div 2
        THEN LET i == CHOOSE i \in 1..n : Sum(1, i - 1) <= index /\ index < Sum(1, i)
             IN  [node |-> i, local_index |-> index - Sum(1, i - 1)]
        ELSE LET i == CHOOSE i \in 1..n : /\ ql.size - Sum(i, n) <= index
                                          /\ index < ql.size - Sum(i + 1, n)
             IN  [node |-> i, local_index |-> index - (ql.size - Sum(i, n))]

SetAt(ql, location, val) ==
    LET i == location.node
    IN  MergeAround(NormalizeNodeSizesFrom(
            [ql EXCEPT !.nodes[i] =
                LP!Replace(@, LP!IndexAt(@, location.local_index), val)], i), i)

(* index < Size(), which List::Set has checked.                            *)
Set(ql, index, val) == SetAt(ql, Locate(ql, index), val)

(* DeleteMatching in node i, with what is left of limit (0: no limit).     *)
WithDeletion(state, i, deletion) ==
    [ql |-> DeleteIfEmpty([nodes |-> [state.ql.nodes EXCEPT ![i] = deletion.lp],
                           size |-> state.ql.size - deletion.count], i),
     removed |-> state.removed + deletion.count]

RemoveInNode(state, i, val, limit, from_tail) ==
    WithDeletion(state, i,
        LP!DeleteMatching(state.ql.nodes[i], val,
            IF limit = 0 THEN 0 ELSE limit - state.removed, from_tail))

(* A node that was deleted makes room for its successor.                   *)
RECURSIVE RemoveFromHead(_, _, _, _), RemoveFromTail(_, _, _, _)
RemoveFromHead(state, left, val, limit) ==
    IF left = 0 \/ (limit # 0 /\ state.removed >= limit) THEN state
    ELSE RemoveFromHead(
             RemoveInNode(state, Len(state.ql.nodes) + 1 - left, val, limit, FALSE),
             left - 1, val, limit)
RemoveFromTail(state, i, val, limit) ==
    IF i = 0 \/ state.removed >= limit THEN state
    ELSE RemoveFromTail(RemoveInNode(state, i, val, limit, TRUE), i - 1, val, limit)

Remove_(ql, val, limit, from_tail) ==
    LET start == [ql |-> ql, removed |-> 0]
    IN  IF ql.size = 0 THEN start
        ELSE [IF from_tail /\ limit # 0
              THEN RemoveFromTail(start, Len(ql.nodes), val, limit)
              ELSE RemoveFromHead(start, Len(ql.nodes), val, limit)
              EXCEPT !.ql = MergeAll(@)]

(* Whole nodes go first, then a part of the node at the edge.              *)
RECURSIVE TrimTail(_, _), TrimHead(_, _)
TrimTail(ql, count) ==
    LET n == Len(ql.nodes)
        lp == ql.nodes[n]
    IN  IF n = 0 \/ count = 0 THEN ql
        ELSE IF count >= LP!Size(lp)
        THEN TrimTail([DeleteNode(ql, n) EXCEPT !.size = @ - LP!Size(lp)],
                      count - LP!Size(lp))
        ELSE [nodes |-> [ql.nodes EXCEPT ![n] =
                            LP!DeleteRange(@, LP!IndexAt(@, LP!Size(@) - count), count)],
              size |-> ql.size - count]
TrimHead(ql, count) ==
    LET lp == ql.nodes[1]
    IN  IF ql.nodes = <<>> \/ count = 0 THEN ql
        ELSE IF count >= LP!Size(lp)
        THEN TrimHead([DeleteNode(ql, 1) EXCEPT !.size = @ - LP!Size(lp)],
                      count - LP!Size(lp))
        ELSE [nodes |-> [ql.nodes EXCEPT ![1] = LP!DeleteRange(@, LP!First(@), count)],
              size |-> ql.size - count]

MergeAroundTail(ql) ==
    LET n == Len(ql.nodes) IN MergeAround(ql, IF n > 1 THEN n - 1 ELSE n)

(* start <= stop < Size(), which List::Trim has checked.                   *)
Trim(ql, start, stop) ==
    MergeAroundTail(MergeAround(TrimHead(TrimTail(ql, ql.size - stop - 1), start), 1))

-----------------------------------------------------------------------------
(* Visits.  The global range is cut into a range of each node.             *)

Offset(ql, i) == FoldLeft(LAMBDA sum, lp : sum + LP!Size(lp), 0, SubSeq(ql.nodes, 1, i - 1))

InNode(ql, i, start, stop, reverse) ==
    LET first == Offset(ql, i)
        last == first + LP!Size(ql.nodes[i]) - 1
    IN  IF last < start \/ first > stop THEN <<>>
        ELSE IF reverse
        THEN LP!ForEachReverse(ql.nodes[i], Max({start - first, 0}), LP!Least(stop, last) - first)
        ELSE LP!ForEach(ql.nodes[i], Max({start - first, 0}), LP!Least(stop, last) - first)

ForEach(ql, start, stop) ==
    FlattenSeq([i \in 1..Len(ql.nodes) |-> InNode(ql, i, start, stop, FALSE)])

ForEachReverse(ql, start, stop) ==
    FlattenSeq(Reverse([i \in 1..Len(ql.nodes) |->
                           InNode(ql, i, start, stop, TRUE)]))
===============================================================================

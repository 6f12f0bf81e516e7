--------------------------------- MODULE List ---------------------------------
(***************************************************************************)
(* data_types/list: a listpack while it is small, a quicklist afterwards,  *)
(* and back when pops have made it small again.  A list is a record of the *)
(* encoding and of both representations; the one not in use is null, here  *)
(* empty.                                                                  *)
(***************************************************************************)
EXTENDS Integers, Sequences, SequencesExt

CONSTANTS Values, AsInt, Length, kBacklenRadix, list_max_listpack_bytes

LP == INSTANCE ListPack
QL == INSTANCE QuickList WITH node_max_bytes <- list_max_listpack_bytes

OfListPack(lp) ==
    [encoding |-> "kListPack", listpack |-> lp, quicklist |-> QL!NewQuickList]
OfQuickList(ql) ==
    [encoding |-> "kQuickList", listpack |-> LP!NewListPack, quicklist |-> ql]

NewList == OfListPack(LP!NewListPack)

IsListPack(list) == list.encoding = "kListPack"

Elements(list) ==
    IF IsListPack(list) THEN LP!Elements(list.listpack) ELSE QL!Elements(list.quicklist)

Size(list) == IF IsListPack(list) THEN LP!Size(list.listpack) ELSE list.quicklist.size

ConvertListPackToQuickList(lp) ==
    OfQuickList(FoldLeft(QL!RPush, QL!NewQuickList, LP!Elements(lp)))

(* ListPackBytes() is known of a single node only.                         *)
TryConvertQuickListToListPack(ql) ==
    LET lp == IF ql.nodes = <<>> THEN LP!NewListPack ELSE ql.nodes[1]
    IN  IF Len(ql.nodes) > 1 \/ LP!TotalBytes(lp) > list_max_listpack_bytes \div 2
        THEN OfQuickList(ql) ELSE OfListPack(lp)

WouldExceedListpackLimit_OffByOne(lp, val) ==
    LP!TotalBytes(lp) + LP!EstimateEntryBytes(val) > list_max_listpack_bytes + 1

WouldExceedListpackLimit(lp, val) ==
    LP!TotalBytes(lp) + LP!EstimateEntryBytes(val) > list_max_listpack_bytes

-----------------------------------------------------------------------------
PushInto(list, val, head) ==
    IF IsListPack(list)
    THEN OfListPack(IF head THEN LP!Prepend(list.listpack, val)
                    ELSE LP!Append_(list.listpack, val))
    ELSE OfQuickList(IF head THEN QL!LPush(list.quicklist, val)
                     ELSE QL!RPush(list.quicklist, val))

Push(list, val, head) ==
    PushInto(IF IsListPack(list) /\ WouldExceedListpackLimit(list.listpack, val)
             THEN ConvertListPackToQuickList(list.listpack) ELSE list,
             val, head)

PopListPack(lp, idx) ==
    IF idx = LP!NoIndex THEN [list |-> OfListPack(lp), val |-> LP!NoValue]
    ELSE [list |-> OfListPack(LP!Delete(lp, idx)), val |-> LP!Get(lp, idx)]

PopQuickList(popped) ==
    [list |-> TryConvertQuickListToListPack(popped.ql), val |-> popped.val]

Pop(list, head) ==
    IF IsListPack(list)
    THEN PopListPack(list.listpack,
                     IF head THEN LP!First(list.listpack) ELSE LP!Last_(list.listpack))
    ELSE PopQuickList(IF head THEN QL!LPop(list.quicklist) ELSE QL!RPop(list.quicklist))

ConvertIfLarge(lp) ==
    IF LP!TotalBytes(lp) > list_max_listpack_bytes
    THEN ConvertListPackToQuickList(lp) ELSE OfListPack(lp)

(* For index >= Size() Set returns false and changes nothing.              *)
Set(list, index, val) ==
    IF index >= Size(list) THEN list
    ELSE IF ~IsListPack(list) THEN OfQuickList(QL!Set(list.quicklist, index, val))
    ELSE ConvertIfLarge(LP!Replace(list.listpack, LP!IndexAt(list.listpack, index), val))

RemoveListPack(deletion) == [list |-> OfListPack(deletion.lp), count |-> deletion.count]
RemoveQuickList(removal) == [list |-> OfQuickList(removal.ql), count |-> removal.removed]

Remove_(list, val, limit, from_tail) ==
    IF Size(list) = 0 THEN [list |-> list, count |-> 0]
    ELSE IF IsListPack(list)
    THEN RemoveListPack(LP!DeleteMatching(list.listpack, val, limit, from_tail))
    ELSE RemoveQuickList(QL!Remove_(list.quicklist, val, limit, from_tail))

DeleteFound(lp, idx, count) == IF idx = LP!NoIndex THEN lp ELSE LP!DeleteRange(lp, idx, count)

TrimHead(lp, start) == DeleteFound(lp, LP!First(lp), start)

TrimListPack(lp, start, stop) ==
    TrimHead(DeleteFound(lp, LP!IndexAt(lp, stop + 1), LP!Size(lp) - stop - 1), start)

Trim(list, start, stop_) ==
    LET size == Size(list)
        stop == LP!Least(stop_, size - 1)
    IN  IF size = 0 \/ start > stop_ \/ start >= size THEN NewList
        ELSE IF start = 0 /\ stop = size - 1 THEN list
        ELSE IF IsListPack(list) THEN OfListPack(TrimListPack(list.listpack, start, stop))
        ELSE OfQuickList(QL!Trim(list.quicklist, start, stop))

(* Range, At and the visits behind them.                                   *)
Visit(list, start, stop_, reverse) ==
    LET stop == LP!Least(stop_, Size(list) - 1)
    IN  IF start > stop_ \/ start >= Size(list) THEN <<>>
        ELSE IF IsListPack(list)
        THEN IF reverse THEN LP!ForEachReverse(list.listpack, start, stop)
             ELSE LP!ForEach(list.listpack, start, stop)
        ELSE IF reverse THEN QL!ForEachReverse(list.quicklist, start, stop)
             ELSE QL!ForEach(list.quicklist, start, stop)
===============================================================================

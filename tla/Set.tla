---------------------------------- MODULE Set ----------------------------------
(***************************************************************************)
(* data_types/set: an IntSet while every member is an integer, a listpack  *)
(* while the set is small, a Dict afterwards; never back.  A set is a      *)
(* record of the encoding and of the three representations; a null one is  *)
(* empty, and intset_ may be null or not.  The Dict is the set of its keys *)
(* (DictMap).                                                              *)
(*                                                                         *)
(* ListPack::SafeToAdd and the length of a printed integer, at most 20     *)
(* bytes, are left out: below the limits on entries and their length both  *)
(* tests succeed.                                                          *)
(***************************************************************************)
EXTENDS Integers, Sequences, SequencesExt

CONSTANTS Values, AsInt, Length, kBacklenRadix,
          kInt16, kInt32, kInt64,
          kIntSetMaxEntries, kListPackMaxEntries, kListPackElementMaxLength

LP == INSTANCE ListPack
IS == INSTANCE IntSet

NewSet == [encoding |-> "kIntSet", has_intset |-> FALSE, intset |-> IS!NewIntSet,
           listpack |-> LP!NewListPack, dict |-> {}]

OfListPack(lp) == [NewSet EXCEPT !.encoding = "kListPack", !.listpack = lp]
OfDict(dict) == [NewSet EXCEPT !.encoding = "kDict", !.dict = dict]

IsInteger(value) == value \in DOMAIN AsInt

Integers_(set) == [i \in 1..IS!Size(set.intset) |-> LP!Int64ToString(set.intset.contents[i])]

Size(set) ==
    CASE set.encoding = "kIntSet" -> IS!Size(set.intset)
      [] set.encoding = "kListPack" -> LP!Size(set.listpack)
      [] OTHER -> Cardinality(set.dict)

(* ForEachMember.                                                          *)
ForEachMember(set) ==
    CASE set.encoding = "kIntSet" -> ToSet(Integers_(set))
      [] set.encoding = "kListPack" -> ToSet(LP!Elements(set.listpack))
      [] OTHER -> set.dict

HasMember(set, value) ==
    /\ Size(set) > 0
    /\ CASE set.encoding = "kIntSet" -> IsInteger(value) /\ IS!Find(set.intset, AsInt[value])
         [] set.encoding = "kListPack" -> LP!Find(set.listpack, value) # LP!NoIndex
         [] OTHER -> value \in set.dict

Result(set, added) == [set |-> set, added |-> added, throws |-> FALSE]

MaybeConvertIntsetToDict(set) ==
    IF IS!Size(set.intset) > kIntSetMaxEntries THEN OfDict(ForEachMember(set)) ELSE set

(* intset_->Max() and Min() are read first, and throw when the IntSet is   *)
(* empty; nothing has changed by then.                                     *)
MaybeConvertIntSetToListPack(set, value) ==
    IF set.has_intset /\ IS!Throws(set.intset)
    THEN [set |-> set, added |-> FALSE, throws |-> TRUE]
    ELSE IF IS!Size(set.intset) < kListPackMaxEntries
            /\ Length[value] <= kListPackElementMaxLength
    THEN Result(OfListPack(LP!Append_(LP!AppendAll(LP!NewListPack, Integers_(set)), value)),
                TRUE)
    ELSE Result(OfDict(ForEachMember(set) \cup {value}), TRUE)

IntSetAddAndMaybeConvert(set, value) ==
    LET addition == IS!Add(set.intset, AsInt[value])
        added == [set EXCEPT !.has_intset = TRUE, !.intset = addition.is]
    IN  IF ~IsInteger(value) THEN MaybeConvertIntSetToListPack(set, value)
        ELSE Result(IF addition.added THEN MaybeConvertIntsetToDict(added) ELSE added,
                    addition.added)

ListPackAddAndMaybeConvert(set, value) ==
    IF LP!Find(set.listpack, value) # LP!NoIndex THEN Result(set, FALSE)
    ELSE IF LP!Size(set.listpack) < kListPackMaxEntries
            /\ Length[value] <= kListPackElementMaxLength
    THEN Result(OfListPack(LP!Append_(set.listpack, value)), TRUE)
    ELSE Result(OfDict(ForEachMember(set) \cup {value}), TRUE)

DictAdd(set, value) == Result(OfDict(set.dict \cup {value}), value \notin set.dict)

Add(set, value) ==
    CASE set.encoding = "kIntSet" -> IntSetAddAndMaybeConvert(set, value)
      [] set.encoding = "kListPack" -> ListPackAddAndMaybeConvert(set, value)
      [] OTHER -> DictAdd(set, value)

Remove_(set, value) ==
    LET idx == LP!Find(set.listpack, value)
        removal == IS!Remove_(set.intset, AsInt[value])
        unchanged == [set |-> set, removed |-> FALSE]
    IN  IF Size(set) = 0 THEN unchanged
        ELSE CASE set.encoding = "kIntSet" ->
                    IF ~IsInteger(value) THEN unchanged
                    ELSE [set |-> [set EXCEPT !.intset = removal.is],
                          removed |-> removal.removed]
               [] set.encoding = "kListPack" ->
                    IF idx = LP!NoIndex THEN unchanged
                    ELSE [set |-> OfListPack(LP!Delete(set.listpack, idx)), removed |-> TRUE]
               [] OTHER -> [set |-> OfDict(set.dict \ {value}), removed |-> value \in set.dict]
===============================================================================

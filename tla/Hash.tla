--------------------------------- MODULE Hash ---------------------------------
(***************************************************************************)
(* data_types/hash: fields and values alternate in a listpack while the    *)
(* hash is small, then move to a Dict, here a function (DictMap).          *)
(* ListPack::SafeToAdd is left out as in Set.                              *)
(***************************************************************************)
EXTENDS Integers, Sequences, SequencesExt, FiniteSets, TLC

CONSTANTS Values, AsInt, Length, kBacklenRadix,
          kListPackMaxEntries, kListPackMaxElementLength

LP == INSTANCE ListPack

OfListPack(lp) == [encoding |-> "kListPack", listpack |-> lp, dict |-> <<>>]
OfDict(dict) == [encoding |-> "kDict", listpack |-> LP!NewListPack, dict |-> dict]

NewHash == OfListPack(LP!NewListPack)

CanStoreInListPack(field, value) ==
    /\ Length[field] <= kListPackMaxElementLength
    /\ Length[value] <= kListPackMaxElementLength

(* Every other entry, so that a value is never taken for a field.          *)
FindListPackField(hash, field) == LP!FindAndSkip(hash.listpack, field, 1)

Size(hash) ==
    IF hash.encoding = "kListPack" THEN LP!Size(hash.listpack) \div 2
    ELSE Cardinality(DOMAIN hash.dict)

(* ForEachPair: what ForEachEntry visits, as a map.                        *)
Entries(hash) ==
    LET e == LP!Elements(hash.listpack)
    IN  IF hash.encoding = "kDict" THEN hash.dict
        ELSE FoldLeft(LAMBDA dict, i : (e[2 * i - 1] :> e[2 * i]) @@ dict, <<>>,
                      [i \in 1..Len(e) \div 2 |-> i])

Get(hash, field) ==
    LET idx == FindListPackField(hash, field)
    IN  IF hash.encoding = "kDict"
        THEN IF field \in DOMAIN hash.dict THEN hash.dict[field] ELSE LP!NoValue
        ELSE IF idx = LP!NoIndex THEN LP!NoValue
        ELSE LP!Get(hash.listpack, LP!Next(hash.listpack, idx))

SetDict(hash, field, value) == OfDict((field :> value) @@ hash.dict)

ConvertListPackToDict(hash) == OfDict(Entries(hash))

CanAppendToListPack(hash, field, value) ==
    Size(hash) < kListPackMaxEntries /\ CanStoreInListPack(field, value)

SetListPack(hash, field, value) ==
    LET lp == hash.listpack
        idx == FindListPackField(hash, field)
    IN  IF idx # LP!NoIndex
        THEN [hash |-> IF CanStoreInListPack(field, value)
                       THEN OfListPack(LP!Replace(lp, LP!Next(lp, idx), value))
                       ELSE SetDict(ConvertListPackToDict(hash), field, value),
              added |-> FALSE]
        ELSE [hash |-> IF CanAppendToListPack(hash, field, value)
                       THEN OfListPack(LP!AppendAll(lp, <<field, value>>))
                       ELSE SetDict(ConvertListPackToDict(hash), field, value),
              added |-> TRUE]

Set(hash, field, value) ==
    IF hash.encoding = "kListPack" THEN SetListPack(hash, field, value)
    ELSE [hash |-> SetDict(hash, field, value), added |-> field \notin DOMAIN hash.dict]

Delete(hash, field) ==
    LET idx == FindListPackField(hash, field)
        rest == DOMAIN hash.dict \ {field}
    IN  IF hash.encoding = "kDict"
        THEN [hash |-> OfDict([f \in rest |-> hash.dict[f]]),
              deleted |-> field \in DOMAIN hash.dict]
        ELSE IF idx = LP!NoIndex THEN [hash |-> hash, deleted |-> FALSE]
        ELSE [hash |-> OfListPack(LP!DeleteRange(hash.listpack, idx, 2)), deleted |-> TRUE]
===============================================================================

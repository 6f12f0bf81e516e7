------------------------------ MODULE Collections ------------------------------
(***************************************************************************)
(* What the four collection types promise the commands, whatever encoding  *)
(* holds them: a list is a sequence, a set a set, a hash a map from fields *)
(* to values, a sorted set a map from members to scores; an emptied list   *)
(* or hash is gone and the next command finds a new one.                   *)
(*                                                                         *)
(* A reply says whether the command succeeded and carries an integer or a  *)
(* value.                                                                  *)
(***************************************************************************)
EXTENDS Integers, Sequences, SequencesExt, FiniteSetsExt, TLC

CONSTANTS ListValues, SetValues, HashFields, HashValues, Members, Scores,
          AsInt,       \* its domain: the values that are integers
          Positions,   \* the indices and counts that list commands are given
          MaxSize      \* bound: elements in a collection

VARIABLES type, value, reply

vars == <<type, value, reply>>

Types == {"list", "set", "hash", "zset"}
NoValue == "no value"

Number(n) == [ok |-> TRUE, count |-> n, val |-> NoValue]
Value(val) == [ok |-> TRUE, count |-> 0, val |-> val]
Ok == Number(0)
Failed == [ok |-> FALSE, count |-> 0, val |-> NoValue]
Flag(b) == Number(IF b THEN 1 ELSE 0)

Empty(t) == IF t = "set" THEN {} ELSE <<>>

Init == type \in Types /\ value = Empty(type) /\ reply = Ok

-----------------------------------------------------------------------------
(* Lists.  A negative position counts from the end.                        *)

At(i) == IF i < 0 THEN i + Len(value) ELSE i

LPush(val) ==
    /\ type = "list" /\ Len(value) < MaxSize
    /\ value' = <<val>> \o value
    /\ reply' = Number(Len(value'))

RPush(val) ==
    /\ type = "list" /\ Len(value) < MaxSize
    /\ value' = Append(value, val)
    /\ reply' = Number(Len(value'))

LPop ==
    /\ type = "list"
    /\ value' = IF value = <<>> THEN <<>> ELSE Tail(value)
    /\ reply' = Value(IF value = <<>> THEN NoValue ELSE Head(value))

RPop ==
    /\ type = "list"
    /\ value' = IF value = <<>> THEN <<>> ELSE Front(value)
    /\ reply' = Value(IF value = <<>> THEN NoValue ELSE Last(value))

LSet(i, val) ==
    /\ type = "list"
    /\ IF At(i) \in 0..Len(value) - 1
       THEN value' = [value EXCEPT ![At(i) + 1] = val] /\ reply' = Ok
       ELSE value' = value /\ reply' = Failed

(* The first count matches, the last -count, or all for 0, are removed.    *)
LRem(count, val) ==
    LET matches == {i \in 1..Len(value) : value[i] = val}
        Earlier(i) == {j \in matches : IF count > 0 THEN j < i ELSE j > i}
        limit == IF count > 0 THEN count ELSE -count
        removed == {i \in matches : count = 0 \/ Cardinality(Earlier(i)) < limit}
        kept == SetToSortSeq((1..Len(value)) \ removed, <)
    IN  /\ type = "list"
        /\ value' = [i \in 1..Len(kept) |-> value[kept[i]]]
        /\ reply' = Number(Cardinality(removed))

LTrim(start, stop) ==
    LET first == Max({At(start), 0})
        last == Min({At(stop), Len(value) - 1})
    IN  /\ type = "list"
        /\ value' = SubSeq(value, first + 1, last + 1)
        /\ reply' = Ok

-----------------------------------------------------------------------------
(* Sets, hashes and sorted sets.                                           *)

SAdd(val) ==
    /\ type = "set" /\ Cardinality(value \cup {val}) <= MaxSize
    /\ value' = value \cup {val}
    /\ reply' = Flag(val \notin value)

(* The one failure allowed: an addition to a set that was emptied.         *)
SAddFails(val) ==
    /\ type = "set" /\ value = {} /\ val \notin DOMAIN AsInt
    /\ value' = value
    /\ reply' = Failed

SRem(val) ==
    /\ type = "set"
    /\ value' = value \ {val}
    /\ reply' = Flag(val \in value)

Without(f, x) == [y \in DOMAIN f \ {x} |-> f[y]]

HSet(field, val) ==
    /\ type = "hash" /\ Cardinality(DOMAIN value \cup {field}) <= MaxSize
    /\ value' = (field :> val) @@ value
    /\ reply' = Flag(field \notin DOMAIN value)

HDel(field) ==
    /\ type = "hash"
    /\ value' = Without(value, field)
    /\ reply' = Flag(field \in DOMAIN value)

ZAdd(key, score) ==
    /\ type = "zset" /\ Cardinality(DOMAIN value \cup {key}) <= MaxSize
    /\ value' = (key :> score) @@ value
    /\ reply' = Flag(key \notin DOMAIN value)

ZRem(key) ==
    /\ type = "zset"
    /\ value' = Without(value, key)
    /\ reply' = Flag(key \in DOMAIN value)

Next ==
    /\ UNCHANGED type
    /\ \/ \E val \in ListValues : LPush(val) \/ RPush(val)
       \/ LPop \/ RPop
       \/ \E i \in Positions, val \in ListValues : LSet(i, val) \/ LRem(i, val)
       \/ \E start, stop \in Positions : LTrim(start, stop)
       \/ \E val \in SetValues : SAdd(val) \/ SAddFails(val) \/ SRem(val)
       \/ \E field \in HashFields : HDel(field) \/ \E val \in HashValues : HSet(field, val)
       \/ \E key \in Members : ZRem(key) \/ \E score \in Scores : ZAdd(key, score)

Spec == Init /\ [][Next]_vars
===============================================================================

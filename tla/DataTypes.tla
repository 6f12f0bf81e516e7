------------------------------- MODULE DataTypes -------------------------------
(***************************************************************************)
(* The commands on lists, sets, hashes and sorted sets (server/commands)   *)
(* over the encodings of data_types and memory.  type is the type of the   *)
(* key under study and object what it holds; a key that a command deletes  *)
(* is found again, empty, by the next one (FindOrCreate).  Commands with   *)
(* several values repeat the step for one value.                           *)
(***************************************************************************)
EXTENDS Integers, Sequences, SequencesExt, FiniteSetsExt

CONSTANTS Values, AsInt, Length, Order, ScoreText,
          ListValues, SetValues, HashFields, HashValues, Members,
          Positions,                \* signed indices and counts of list commands
          Bounds,                   \* scores that range queries are asked for
          MaxSize,                  \* bound: elements in a collection
          kBacklenRadix, list_max_listpack_bytes,
          kInt16, kInt32, kInt64,
          kIntSetMaxEntries, kListPackMaxEntries, kListPackMaxElementLength,
          kMaxSkiplistLevel

Scores == DOMAIN ScoreText

ASSUME ValuesAssumption ==
    /\ DOMAIN Length = Values
    /\ DOMAIN AsInt \subseteq Values
    /\ \A v, w \in DOMAIN AsInt : AsInt[v] = AsInt[w] => v = w
    /\ {ScoreText[s] : s \in Scores} \subseteq Values
    /\ \A s, t \in Scores : ScoreText[s] = ScoreText[t] => s = t

ASSUME LimitsAssumption ==
    /\ kInt16 < kInt32 /\ kInt32 < kInt64
    /\ kBacklenRadix > 1 /\ kMaxSkiplistLevel > 0
    /\ \A v \in DOMAIN AsInt : -(2 ^ (kInt64 - 1)) <= AsInt[v] /\ AsInt[v] < 2 ^ (kInt64 - 1)

L == INSTANCE List
S == INSTANCE Set WITH kListPackElementMaxLength <- kListPackMaxElementLength
H == INSTANCE Hash
Z == INSTANCE ZSet

VARIABLES type, object, reply,
          value   \* what a command that reads the whole object visits

vars == <<type, object, reply, value>>

(* ForEach, ForEachMember and ForEachEntry of the object o.                *)
Contents(t, o) ==
    CASE t = "list" -> L!Elements(o)
      [] t = "set" -> S!ForEachMember(o)
      [] t = "hash" -> H!Entries(o)
      [] OTHER -> Z!Entries(o)

C == INSTANCE Collections

New(t) ==
    CASE t = "list" -> L!NewList [] t = "set" -> S!NewSet
      [] t = "hash" -> H!NewHash [] OTHER -> Z!NewZSet

Init ==
    /\ type \in C!Types
    /\ object = New(type) /\ value = Contents(type, object) /\ reply = C!Ok

-----------------------------------------------------------------------------
(* server/commands/list.                                                   *)

NoRange == {}

NormalizeIndex(index, size) ==
    LET i == IF index < 0 THEN index + size ELSE index
    IN  IF i < 0 \/ i >= size THEN NoRange ELSE {i}

NormalizeRange(start, stop, size) ==
    LET first == IF start < 0 THEN Max({start + size, 0}) ELSE start
        last == Min({IF stop < 0 THEN stop + size ELSE stop, size - 1})
    IN  IF first > last \/ first >= size THEN NoRange ELSE {<<first, last>>}

(* DeleteKey of an emptied list.                                           *)
KeepList(list) == IF L!Size(list) = 0 THEN L!NewList ELSE list

Push(val, head) ==
    /\ type = "list" /\ L!Size(object) < MaxSize
    /\ object' = L!Push(object, val, head)
    /\ reply' = C!Number(L!Size(object'))
    /\ UNCHANGED type

Pop(head) ==
    /\ type = "list"
    /\ \E popped \in {L!Pop(object, head)} :
          /\ object' = KeepList(popped.list)
          /\ reply' = C!Value(popped.val)
    /\ UNCHANGED type

LSet(index, val) ==
    LET indices == NormalizeIndex(index, L!Size(object))
    IN  /\ type = "list"
        /\ \/ /\ indices = NoRange
              /\ UNCHANGED object /\ reply' = C!Failed
           \/ \E i \in indices :
                 object' = L!Set(object, i, val) /\ reply' = C!Ok
        /\ UNCHANGED type

(* NormalizeRemoveCount: a negative count is a limit from the tail.        *)
LRem(count, val) ==
    /\ type = "list"
    /\ \E removal \in {L!Remove_(object, val, IF count < 0 THEN -count ELSE count, count < 0)} :
          /\ object' = KeepList(removal.list)
          /\ reply' = C!Number(removal.count)
    /\ UNCHANGED type

LTrim(start, stop) ==
    LET ranges == NormalizeRange(start, stop, L!Size(object))
    IN  /\ type = "list"
        /\ \/ ranges = NoRange /\ object' = KeepList(L!Trim(object, 1, 0))
           \/ \E range \in ranges :
                 object' = KeepList(L!Trim(object, range[1], range[2]))
        /\ reply' = C!Ok
        /\ UNCHANGED type

-----------------------------------------------------------------------------
(* server/commands/set, hash and zset.                                     *)

(* An exception of Set::Add is caught, and answered with an error.         *)
SAdd(val) ==
    /\ type = "set" /\ (S!Size(object) < MaxSize \/ S!HasMember(object, val))
    /\ \E addition \in {S!Add(object, val)} :
          /\ object' = addition.set
          /\ reply' = IF addition.throws THEN C!Failed ELSE C!Flag(addition.added)
    /\ UNCHANGED type

SRem(val) ==
    /\ type = "set"
    /\ \E removal \in {S!Remove_(object, val)} :
          /\ object' = removal.set
          /\ reply' = C!Flag(removal.removed)
    /\ UNCHANGED type

HSet(field, val) ==
    /\ type = "hash" /\ (H!Size(object) < MaxSize \/ H!Get(object, field) # C!NoValue)
    /\ \E result \in {H!Set(object, field, val)} :
          /\ object' = result.hash
          /\ reply' = C!Flag(result.added)
    /\ UNCHANGED type

HDel(field) ==
    /\ type = "hash"
    /\ \E result \in {H!Delete(object, field)} :
          /\ object' = IF H!Size(result.hash) = 0 THEN H!NewHash ELSE result.hash
          /\ reply' = C!Flag(result.deleted)
    /\ UNCHANGED type

(* RandomLevel for every node that the call may create.                    *)
RandomLevels ==
    IF Z!IsListPack(object) THEN [Members -> 1..kMaxSkiplistLevel]
    ELSE {[m \in Members |-> level] : level \in 1..kMaxSkiplistLevel}

ZAdd(key, score) ==
    /\ type = "zset" /\ (Z!Size(object) < MaxSize \/ Z!Rank(object, key) # Z!ZL!NoCount)
    /\ \E levels \in RandomLevels :
          \E result \in {Z!InsertOrUpdate(object, key, score, levels)} :
             object' = result.z /\ reply' = C!Flag(result.inserted)
    /\ UNCHANGED type

ZRem(key) ==
    /\ type = "zset"
    /\ \E result \in {Z!Delete(object, key)} :
          /\ object' = result.z
          /\ reply' = C!Flag(result.deleted)
    /\ UNCHANGED type

Command ==
    \/ \E val \in ListValues, head \in BOOLEAN : Push(val, head)
    \/ \E head \in BOOLEAN : Pop(head)
    \/ \E i \in Positions, val \in ListValues : LSet(i, val) \/ LRem(i, val)
    \/ \E start, stop \in Positions : LTrim(start, stop)
    \/ \E val \in SetValues : SAdd(val) \/ SRem(val)
    \/ \E field \in HashFields, val \in HashValues : HSet(field, val)
    \/ \E field \in HashFields : HDel(field)
    \/ \E key \in Members, score \in Scores : ZAdd(key, score)
    \/ \E key \in Members : ZRem(key)

Next == Command /\ value' = Contents(type, object')

Spec == Init /\ [][Next]_vars
===============================================================================

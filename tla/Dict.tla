-------------------------------- MODULE Dict --------------------------------
(***************************************************************************)
(* The hash table of src/memory/dict.h, with two tables while it rehashes  *)
(* one bucket per operation.                                               *)
(*                                                                         *)
(* A bucket is the set of its entries <<key, value>>; the order of a chain *)
(* is left out.  A search looks only at the bucket of the key's hash.      *)
(***************************************************************************)
EXTENDS Integers, FiniteSets

LOCAL INSTANCE FiniteSetsExt

CONSTANTS
    Keys, Values, None,
    Hash,                     \* type_.hash_function
    kDictForceResizeRatio,    \* 2 in the code
    kEmptyVisits              \* 10 in the code: empty buckets skipped by a step

ASSUME DictAssumption ==
    /\ None \notin Values
    /\ Hash \in [Keys -> Nat]
    /\ kDictForceResizeRatio \in Nat \ {0} /\ kEmptyVisits \in Nat \ {0}

VARIABLES
    dict,      \* tables_, table_used_, table_size_exp_ and rehash_idx_
    answer     \* what the last operation returned

vars == <<dict, answer>>

-----------------------------------------------------------------------------
NoTable == -1      \* table_size_exp_ of an unallocated table
NoIndex == -1      \* rehash_idx_ without a value

TableSize(exp) == IF exp = NoTable THEN 0 ELSE 2^exp

HashIndex(key, d, i) == Hash[key] % TableSize(d.exp[i])

IsRehashing(d) == d.rehash_idx # NoIndex

\* The tables a search visits.
Searched(d) == IF IsRehashing(d) THEN {0, 1} ELSE {i \in {0} : d.exp[0] # NoTable}

Bucket(d, i, key) == {e \in d.table[i][HashIndex(key, d, i)] : e[1] = key}

FindEntry_OldTableOnly(d, key) == UNION {Bucket(d, i, key) : i \in Searched(d) \ {1}}

FindEntry(d, key) == UNION {Bucket(d, i, key) : i \in Searched(d)}

Value(entries) == IF entries = {} THEN None ELSE (CHOOSE e \in entries : TRUE)[2]

Reset(d, i) == [d EXCEPT !.table[i] = <<>>, !.used[i] = 0, !.exp[i] = NoTable]

InitializeTableWithSize(d, i, exp) ==
    [d EXCEPT !.table[i] = [b \in 0..(2^exp - 1) |-> {}], !.used[i] = 0, !.exp[i] = exp]

InsertEntry(d, entry, i) ==
    [d EXCEPT !.table[i][HashIndex(entry[1], d, i)] = @ \cup {entry},
              !.used[i] = @ + 1]

UnlinkEntry(d, entry, i) ==
    [d EXCEPT !.table[i][HashIndex(entry[1], d, i)] = @ \ {entry},
              !.used[i] = @ - 1]

-----------------------------------------------------------------------------
NextExp(size) == Min({e \in 1..size : 2^e >= size})

Expand(d, size) ==
    LET exp == NextExp(size) IN
    IF IsRehashing(d) \/ exp <= d.exp[0] THEN d
    ELSE IF d.exp[0] = NoTable
    THEN InitializeTableWithSize(d, 0, exp)
    ELSE [InitializeTableWithSize(d, 1, exp) EXCEPT !.rehash_idx = 0]

ExpandIfNeeded(d) ==
    LET size == TableSize(d.exp[0]) IN
    IF size = 0 \/ d.used[0] >= kDictForceResizeRatio * size
    THEN Expand(d, d.used[0] + 1) ELSE d

MigrateRehashedTable(d) ==
    Reset([d EXCEPT !.table[0] = d.table[1], !.exp[0] = d.exp[1], !.used[0] = d.used[1],
                    !.rehash_idx = NoIndex], 1)

MoveBucket_OldIndex(d, b) ==
    LET count == Cardinality(d.table[0][b])
    IN  [d EXCEPT !.table[0][b] = {}, !.table[1][b] = @ \cup d.table[0][b],
                  !.used[0] = @ - count, !.used[1] = @ + count, !.rehash_idx = b + 1]

(* One bucket moves to the larger table. *)
MoveBucket(d, b) ==
    LET moved(j) == {e \in d.table[0][b] : HashIndex(e[1], d, 1) = j}
        count == Cardinality(d.table[0][b])
    IN  [d EXCEPT !.table[0][b] = {},
                  !.table[1] = [j \in DOMAIN @ |-> @[j] \cup moved(j)],
                  !.used[0] = @ - count, !.used[1] = @ + count,
                  !.rehash_idx = b + 1]

(* Rehash(1): the next bucket that is not empty, unless that takes too     *)
(* many visits; the larger table takes over when the smaller is empty.     *)
RehashStep(d) ==
    LET ahead == {b \in d.rehash_idx..TableSize(d.exp[0]) - 1 : d.table[0][b] # {}}
        reach == d.rehash_idx + kEmptyVisits
    IN  IF d.used[0] = 0 THEN d
        ELSE IF ahead # {} /\ Min(ahead) < reach THEN MoveBucket(d, Min(ahead))
        ELSE [d EXCEPT !.rehash_idx = Min({reach, TableSize(d.exp[0])})]

RehashStepIfNeeded(d) ==
    IF ~IsRehashing(d) THEN d
    ELSE LET r == RehashStep(d) IN
         IF r.used[0] = 0 THEN MigrateRehashedTable(r) ELSE r

-----------------------------------------------------------------------------
(* The operations.  All but Clear first take a rehashing step. *)

Find(key) ==
    LET d == RehashStepIfNeeded(dict) IN
    /\ dict' = d
    /\ answer' = Value(FindEntry(d, key))

InsertRaw_OldTable(d, key, value) == InsertEntry(d, <<key, value>>, 0)

(* InsertRaw: a new entry goes to the larger table while rehashing. *)
InsertRaw(d, key, value) ==
    InsertEntry(d, <<key, value>>, IF IsRehashing(d) THEN 1 ELSE 0)

Replace(d, key, value) ==
    [d EXCEPT !.table = [i \in {0, 1} |-> [b \in DOMAIN @[i] |->
        {IF e[1] = key THEN <<key, value>> ELSE e : e \in @[i][b]}]]]

Set(key, value) ==
    LET d == RehashStepIfNeeded(ExpandIfNeeded(dict))
        existing == FindEntry(d, key)
    IN  /\ dict' = IF existing = {} THEN InsertRaw(d, key, value) ELSE Replace(d, key, value)
        /\ answer' = Value(existing)
    
Insert(key, value) ==
    LET d == RehashStepIfNeeded(ExpandIfNeeded(dict))
        existing == FindEntry(d, key)
    IN  /\ dict' = IF existing = {} THEN InsertRaw(d, key, value) ELSE d
        /\ answer' = Value(existing)
    
(* Delete and Extract: unlink the first match. *)
Unlink(key) ==
    LET d == RehashStepIfNeeded(dict)
        in == {i \in Searched(d) : Bucket(d, i, key) # {}}
        i == Min(in)
    IN  /\ dict' = IF in = {} THEN d
                   ELSE UnlinkEntry(d, CHOOSE e \in Bucket(d, i, key) : TRUE, i)
        /\ answer' = Value(FindEntry(d, key))

Clear ==
    /\ dict' = [Reset(Reset(dict, 0), 1) EXCEPT !.rehash_idx = NoIndex]
    /\ UNCHANGED answer

-----------------------------------------------------------------------------
Init ==
    /\ dict = [table |-> [i \in {0, 1} |-> <<>>], used |-> [i \in {0, 1} |-> 0],
               exp |-> [i \in {0, 1} |-> NoTable], rehash_idx |-> NoIndex]
    /\ answer = None

Next ==
    \/ \E key \in Keys : Find(key) \/ Unlink(key)
    \/ \E key \in Keys, value \in Values : Set(key, value) \/ Insert(key, value)
    \/ Clear

Spec == Init /\ [][Next]_vars

-----------------------------------------------------------------------------
Tables == {0, 1}

(* The tables, their counters and their sizes fit together, and the second *)
(* table exists exactly while rehash_idx_ has a value.  Rehashing leaves   *)
(* nothing behind it: the buckets before rehash_idx_ are empty, so that    *)
(* the smaller table can be dropped.                                       *)
TypeOK ==
    /\ \A i \in Tables :
          /\ DOMAIN dict.table[i] = 0..TableSize(dict.exp[i]) - 1
          /\ \A b \in DOMAIN dict.table[i] : dict.table[i][b] \subseteq Keys \X Values
          /\ dict.used[i] = Cardinality(UNION {dict.table[i][b] : b \in DOMAIN dict.table[i]})
    /\ IsRehashing(dict) <=> dict.exp[1] # NoTable
    /\ IsRehashing(dict) => \A b \in DOMAIN dict.table[0] :
                               b < dict.rehash_idx => dict.table[0][b] = {}
    /\ answer \in Values \cup {None}

Entries == UNION UNION {{dict.table[i][b] : b \in DOMAIN dict.table[i]} : i \in Tables}

(* Every entry sits where a search for its key looks, in one place only,   *)
(* whichever table it is in and however far rehashing has come.            *)
EveryEntryIsFound ==
    /\ \A e \in Entries : FindEntry(dict, e[1]) = {e}
    /\ \A e \in Entries : Cardinality({i \in Searched(dict) : Bucket(dict, i, e[1]) # {}}) = 1

Contents == [k \in Keys |-> Value({e \in Entries : e[1] = k})]

Map == INSTANCE DictMap WITH map <- Contents

(* The two tables together behave as one map. *)
ImplementsMap == Map!MapSpec
=============================================================================

---------------------------- MODULE ReplayCommands ----------------------------
(***************************************************************************)
(* A command on the live database and its record on the one replayed: what *)
(* modified nothing is forgotten by both, and what was logged leaves the   *)
(* entry of its key the same in both.                                      *)
(***************************************************************************)
EXTENDS KeyspaceProofs

(* The two entries of a key are the same, or one is gone because its time  *)
(* has come: from the live database when it was expired there, from the    *)
(* log when a rewrite left it out.                                         *)
Agree(db, log, key, t) ==
    \/ Same(db, key, log, key)
    \/ Gone(db, key) /\ Lapsed(log, key, t)
    \/ Lapsed(db, key, t) /\ Gone(log, key)

-----------------------------------------------------------------------------
(* All a command that modified nothing may have done to the live database  *)
(* is to take away keys whose time had come.                               *)
Forgets(db, left, t) ==
    \A k : Same(db, k, left, k) \/ (Lapsed(db, k, t) /\ Gone(left, k))

(* A lookup forgets.                                                       *)
LEMMA LookupForgets ==
    ASSUME NEW db, Consistent(db), ~db.loading, NEW key, NEW t \in Nat
    PROVE  Forgets(db, LookupKey(db, key, t), t)
BY LookupEntry DEF Forgets, Same

(* What was found was not expired, and nothing was taken away.             *)
LEMMA Found ==
    ASSUME NEW db, Consistent(db), ~db.loading, NEW key, NEW t \in Nat,
           Has(LookupKey(db, key, t), key)
    PROVE  LookupKey(db, key, t) = db /\ ~Lapsed(db, key, t)
BY LookupEntry DEF Gone

(* A command that is not logged only forgets.                              *)
LEMMA Unmodified ==
    ASSUME NEW db, Consistent(db), ~db.loading, Full(db), NEW c \in Commands,
           NEW t \in Nat, ~Execute(db, c, t).modified
    PROVE  Forgets(db, Execute(db, c, t).db, t)
<1> DEFINE found == LookupKey(db, c.key, t)
           r == Execute(db, c, t)
<1>1. Forgets(db, found, t)
  BY LookupForgets
<1>2. ASSUME NEW left, \A k : k # c.key => Same(db, k, left, k), Same(db, c.key, left, c.key)
      PROVE  Forgets(db, left, t)
  BY <1>2 DEF Forgets
<1>3. CASE c.op = "SET"
  BY <1>3 DEF Execute, HandleSet, Ok
<1>4. CASE c.op = "ADD"
  <2>1. r = HandleAdd(db, c, t) /\ c.key \in Keys
    BY <1>4, CommandFacts DEF Execute
  <2>2. Has(found, c.key)
    BY <2>1, AddEffect, Zenon
  <2>3. CASE found.dict[c.key].type # c.type
    BY <1>1, <2>1, <2>2, <2>3, AddEffect, Zenon
  <2>4. CASE found.dict[c.key].type = c.type
    <3>1. /\ Has(r.db, c.key) /\ Ttl(r.db, c.key) = Ttl(found, c.key)
          /\ r.db.dict[c.key] = Grown(found.dict[c.key], c.element)
          /\ \A k : k # c.key => Same(db, k, r.db, k)
          /\ ~AddMarks(c, found.dict[c.key])
      BY <2>1, <2>2, <2>4, AddEffect, Zenon
    <3>2. found = db /\ found.dict[c.key] \in Objects
      BY <2>2, Found DEF Consistent, IsDatabase, Has
    <3>3. Grown(found.dict[c.key], c.element) = found.dict[c.key]
      <4>1. c.element \in found.dict[c.key].data
        BY <3>1, Zenon DEF AddMarks
      <4> QED
        BY <3>2, <4>1, ZenonT(30) DEF Grown, Objects
    <3> QED
      BY <1>2, <2>2, <3>1, <3>2, <3>3 DEF Same
  <2> QED
    BY <2>3, <2>4
<1>5. CASE c.op = "REMOVE"
  <2> DEFINE old == found.dict[c.key]
             rest == Shrunk(old, c.element)
  <2>1. r = HandleRemove(db, c, t) /\ c.key \in Keys
    BY <1>5, CommandFacts DEF Execute
  <2>2. CASE ~Has(found, c.key) \/ old.type # c.type
    BY <1>1, <2>1, <2>2, RemoveEffect, Zenon
  <2>3. CASE Has(found, c.key) /\ old.type = c.type
    <3>1. found = db
      BY <2>3, Found
    <3>2. old = rest
      BY <2>1, <2>3, RemoveEffect, Zenon
    <3>3. ~Emptied(rest)
      BY <2>3, <3>1, <3>2, Zenon DEF Full, Emptied
    <3>4. /\ Has(r.db, c.key) /\ Ttl(r.db, c.key) = Ttl(found, c.key)
          /\ r.db.dict[c.key] = rest
          /\ \A k : k # c.key => Same(db, k, r.db, k)
      BY <2>1, <2>3, <3>3, RemoveEffect, Zenon
    <3> QED
      BY <1>2, <2>3, <3>1, <3>2, <3>4 DEF Same
  <2> QED
    BY <2>2, <2>3
<1>6. CASE c.op = "DEL"
  <2>1. r.db = DeleteKey(db, c.key) /\ ~Has(db, c.key)
    BY <1>6 DEF Execute, HandleDel, Ok
  <2> QED
    BY <2>1 DEF DeleteKey, Forgets, Same
<1>7. CASE c.op = "UNLINK"
  <2>1. /\ r.db = DeleteKey(db, c.key)
        /\ ~(Has(db, c.key) /\ ~IsKeyExpired(db, c.key, t))
    BY <1>7, Zenon DEF Execute, HandleUnlink, Ok
  <2>2. DeleteKey(db, c.key) = found
    BY <2>1 DEF LookupKey, DeleteKey
  <2> QED
    BY <1>1, <2>1, <2>2
<1>8. CASE c.op \in {"PEXPIREAT", "PERSIST", "GET"}
  <2>1. r.db = found
    BY <1>8 DEF Execute, HandlePExpireAt, HandlePersist, Ok
  <2> QED
    BY <1>1, <2>1
<1>9. CASE c.op = "RENAME"
  <2>1. r.db = found
    BY <1>9 DEF Execute, HandleRename, Ok, Error
  <2> QED
    BY <1>1, <2>1
<1>10. CASE c.op = "FLUSHDB"
  <2>1. r.db = Empty(db.loading) /\ DOMAIN db.dict = {}
    BY <1>10, Zenon DEF Execute, Ok
  <2> QED
    BY <2>1 DEF Empty, Forgets, Same, Has, HasTtl, Ttl, Consistent
<1>11. CASE c.op = "TRIM"
  <2>1. r = HandleTrim(db, c, t) /\ c.key \in Keys
    BY <1>11, CommandFacts DEF Execute
  <2>2. r.db = found
    BY <2>1, TrimEffect, Zenon
  <2> QED
    BY <1>1, <2>2, Zenon
<1> QED
  BY <1>3, <1>4, <1>5, <1>6, <1>7, <1>8, <1>9, <1>10, <1>11, CommandFacts

-----------------------------------------------------------------------------
(* A command is executed on the live database and on the one replayed.     *)

(* Looking a key up while the log is replayed changes nothing.             *)
LEMMA LookupLoading ==
    ASSUME NEW db, db.loading, NEW key, NEW t
    PROVE  LookupKey(db, key, t) = db
BY DEF LookupKey, IsKeyExpired

(* A key that is there and not expired is there in the log as well.        *)
LEMMA AgreeFound ==
    ASSUME NEW db, NEW log, NEW key, NEW t, Agree(db, log, key, t),
           Has(db, key), ~Lapsed(db, key, t)
    PROVE  Same(db, key, log, key)
BY DEF Agree, Gone

(* Agreement outlasts what is forgotten and the passing of time.           *)
LEMMA AgreeForgets ==
    ASSUME NEW db, Consistent(db), NEW log, Consistent(log), NEW left, NEW key,
           NEW t \in Nat, NEW later \in Nat, t <= later,
           Agree(db, log, key, t), Forgets(db, left, t)
    PROVE  Agree(left, log, key, later)
<1>1. Ttl(db, key) \in Nat /\ Ttl(log, key) \in Nat
  BY TtlFacts
<1>2. Agree(db, log, key, later)
  BY <1>1 DEF Agree, Lapsed
<1>3. Same(db, key, left, key) \/ (Lapsed(db, key, t) /\ Gone(left, key))
  BY DEF Forgets
<1>4. CASE Same(db, key, left, key)
  BY <1>2, <1>4 DEF Agree, Same, Lapsed, Gone
<1>5. CASE Lapsed(db, key, t) /\ Gone(left, key)
  BY <1>1, <1>5 DEF Agree, Same, Lapsed, Gone
<1> QED
  BY <1>3, <1>4, <1>5

(* Adding an element to a key that is found, or new to both.               *)
LEMMA AddAgrees ==
    ASSUME NEW db, Consistent(db), ~db.loading, NEW log, Consistent(log), log.loading,
           NEW c, c.key \in Keys, NEW t \in Nat, NEW z \in Nat, HandleAdd(db, c, t).modified,
           \/ Has(LookupKey(db, c.key, t), c.key) /\ Agree(db, log, c.key, t)
           \/ ~Has(LookupKey(db, c.key, t), c.key) /\ ~Has(log, c.key)
    PROVE  /\ Same(HandleAdd(db, c, t).db, c.key, HandleAdd(log, c, z).db, c.key)
           /\ ~HandleAdd(log, c, z).error
<1> DEFINE found == LookupKey(db, c.key, t)
<1>1. LookupKey(log, c.key, z) = log
  BY LookupLoading
<1> DEFINE r == HandleAdd(db, c, t)
           q == HandleAdd(log, c, z)
<1>2. CASE ~Has(found, c.key) /\ ~Has(log, c.key)
  <2>1. /\ Has(r.db, c.key) /\ Ttl(r.db, c.key) = 0
        /\ r.db.dict[c.key] = Single(c.type, c.element)
    BY <1>2, AddEffect, Zenon
  <2>2. /\ ~q.error /\ Has(q.db, c.key) /\ Ttl(q.db, c.key) = 0
        /\ q.db.dict[c.key] = Single(c.type, c.element)
    BY <1>1, <1>2, AddEffect, ZenonT(30)
  <2> QED
    BY <2>1, <2>2 DEF Same
<1>3. CASE Has(found, c.key) /\ Agree(db, log, c.key, t)
  <2>1. found = db /\ Same(db, c.key, log, c.key)
    BY <1>3, Found, AgreeFound
  <2>2. Has(db, c.key) /\ Has(log, c.key) /\ log.dict[c.key] = db.dict[c.key]
    BY <1>3, <2>1 DEF Same
  <2>3. db.dict[c.key].type = c.type
    BY <2>1, <2>2, AddEffect, ZenonT(30)
  <2>4. /\ Has(r.db, c.key) /\ Ttl(r.db, c.key) = Ttl(db, c.key)
        /\ r.db.dict[c.key] = Grown(db.dict[c.key], c.element)
    BY <2>1, <2>2, <2>3, AddEffect, ZenonT(30)
  <2>5. /\ ~q.error /\ Has(q.db, c.key) /\ Ttl(q.db, c.key) = Ttl(log, c.key)
        /\ q.db.dict[c.key] = Grown(log.dict[c.key], c.element)
    <3>1. /\ Has(LookupKey(log, c.key, z), c.key)
          /\ LookupKey(log, c.key, z).dict[c.key].type = c.type
      BY <1>1, <2>2, <2>3
    <3>2. /\ ~q.error /\ Has(q.db, c.key)
          /\ Ttl(q.db, c.key) = Ttl(LookupKey(log, c.key, z), c.key)
          /\ q.db.dict[c.key] = Grown(LookupKey(log, c.key, z).dict[c.key], c.element)
      BY <3>1, AddEffect, Zenon
    <3> QED
      BY <1>1, <3>2
  <2> QED
    BY <2>1, <2>2, <2>4, <2>5 DEF Same
<1> QED
  BY <1>2, <1>3

(* Only a key of another type makes an addition fail on replay.            *)
LEMMA ReplayAddError ==
    ASSUME NEW log, Consistent(log), log.loading, NEW c, c.key \in Keys, NEW z \in Nat,
           HandleAdd(log, c, z).error
    PROVE  Has(log, c.key) /\ log.dict[c.key].type # c.type
<1> DEFINE found == LookupKey(log, c.key, z)
<1>1. found = log
  BY LookupLoading
<1>2. Has(found, c.key)
  BY AddEffect, ZenonT(30)
<1>3. found.dict[c.key].type # c.type
  BY <1>2, AddEffect, ZenonT(30)
<1> QED
  BY <1>1, <1>2, <1>3

(* Removing an element, and the key with the last one.                     *)
LEMMA RemoveAgrees ==
    ASSUME NEW db, Consistent(db), ~db.loading, NEW log, Consistent(log), log.loading,
           NEW c, c.key \in Keys, NEW t \in Nat, NEW z \in Nat, HandleRemove(db, c, t).modified,
           Agree(db, log, c.key, t)
    PROVE  /\ Same(HandleRemove(db, c, t).db, c.key, HandleRemove(log, c, z).db, c.key)
           /\ ~HandleRemove(log, c, z).error
<1> DEFINE found == LookupKey(db, c.key, t)
           rest == Shrunk(db.dict[c.key], c.element)
<1>1. LookupKey(log, c.key, z) = log
  BY LookupLoading
<1>2. Has(found, c.key) /\ found.dict[c.key].type = c.type
  BY RemoveEffect, Zenon
<1>3. found = db /\ Same(db, c.key, log, c.key)
  BY <1>2, Found, AgreeFound
<1>4. Has(db, c.key) /\ Has(log, c.key) /\ log.dict[c.key] = db.dict[c.key]
  BY <1>2, <1>3 DEF Same
<1>5. /\ Has(LookupKey(log, c.key, z), c.key)
      /\ LookupKey(log, c.key, z).dict[c.key].type = c.type
      /\ Shrunk(LookupKey(log, c.key, z).dict[c.key], c.element) = rest
  BY <1>1, <1>2, <1>3, <1>4
<1> HIDE DEF rest
<1> DEFINE r == HandleRemove(db, c, t)
           q == HandleRemove(log, c, z)
<1>6. CASE Emptied(rest)
  <2>1. Gone(r.db, c.key)
    BY <1>2, <1>3, <1>4, <1>6, RemoveEffect, ZenonT(30) DEF rest
  <2>2. ~q.error /\ Gone(q.db, c.key)
    BY <1>6, <1>5, RemoveEffect, ZenonT(30)
  <2> QED
    BY <2>1, <2>2 DEF Same, Gone
<1>7. CASE ~Emptied(rest)
  <2>1. Has(r.db, c.key) /\ Ttl(r.db, c.key) = Ttl(db, c.key) /\ r.db.dict[c.key] = rest
    BY <1>2, <1>3, <1>4, <1>7, RemoveEffect, ZenonT(30) DEF rest
  <2>2. /\ ~q.error /\ Has(q.db, c.key)
        /\ Ttl(q.db, c.key) = Ttl(LookupKey(log, c.key, z), c.key)
        /\ q.db.dict[c.key] = rest
    BY <1>7, <1>5, RemoveEffect, ZenonT(30)
  <2> QED
    BY <1>1, <1>3, <2>1, <2>2 DEF Same
<1> QED
  BY <1>6, <1>7

(* LTRIM while the log is replayed.                                        *)
LEMMA ReplayTrim ==
    ASSUME NEW log, Consistent(log), log.loading, NEW c, c.key \in Keys, NEW z \in Nat
    PROVE  LET old == log.dict[c.key]
               rest == Trimmed(old, c.kept)
               q == HandleTrim(log, c, z)
           IN  /\ ~Has(log, c.key) => ~q.error /\ q.db = log
               /\ (Has(log, c.key) /\ old.type # c.type) => q.error
               /\ (Has(log, c.key) /\ old.type = c.type) => ~q.error
               /\ (Has(log, c.key) /\ old.type = c.type /\ Emptied(rest)) => Gone(q.db, c.key)
               /\ (Has(log, c.key) /\ old.type = c.type /\ ~Emptied(rest)) =>
                     /\ Has(q.db, c.key) /\ Ttl(q.db, c.key) = Ttl(log, c.key)
                     /\ q.db.dict[c.key] = rest
<1> DEFINE found == LookupKey(log, c.key, z)
           rest == Trimmed(found.dict[c.key], c.kept)
           q == HandleTrim(log, c, z)
<1>1. /\ ~Has(found, c.key) => ~q.error /\ q.db = found
      /\ (Has(found, c.key) /\ found.dict[c.key].type # c.type) => q.error
      /\ (Has(found, c.key) /\ found.dict[c.key].type = c.type) => ~q.error
      /\ (Has(found, c.key) /\ found.dict[c.key].type = c.type /\ Emptied(rest)) =>
            Gone(q.db, c.key)
      /\ (Has(found, c.key) /\ found.dict[c.key].type = c.type /\ ~Emptied(rest)) =>
            /\ Has(q.db, c.key) /\ Ttl(q.db, c.key) = Ttl(found, c.key)
            /\ q.db.dict[c.key] = rest
  BY TrimEffect, ZenonT(30)
<1>2. found = log
  BY LookupLoading
<1> HIDE DEF found, q
<1> QED
  BY <1>1, <1>2, SMTT(30) DEF q

(* Trimming a list.  One that is not there, or no longer, is not there     *)
(* afterwards; what the log has of it is expired and stays so, unless it   *)
(* is of another type.                                                     *)
LEMMA TrimAgrees ==
    ASSUME NEW db, Consistent(db), ~db.loading, NEW log, Consistent(log), log.loading,
           NEW c, c.key \in Keys, NEW t \in Nat, NEW z \in Nat, HandleTrim(db, c, t).modified,
           Agree(db, log, c.key, t)
    PROVE  /\ ~HandleTrim(log, c, z).error =>
                 Agree(HandleTrim(db, c, t).db, HandleTrim(log, c, z).db, c.key, t)
           /\ HandleTrim(log, c, z).error =>
                 /\ ~Has(LookupKey(db, c.key, t), c.key)
                 /\ Has(log, c.key) /\ log.dict[c.key].type # c.type
<1> DEFINE found == LookupKey(db, c.key, t)
           r == HandleTrim(db, c, t)
           q == HandleTrim(log, c, z)
           rest == Trimmed(log.dict[c.key], c.kept)
<1>1. /\ ~Has(log, c.key) => ~q.error /\ q.db = log
      /\ (Has(log, c.key) /\ log.dict[c.key].type # c.type) => q.error
      /\ (Has(log, c.key) /\ log.dict[c.key].type = c.type) => ~q.error
      /\ (Has(log, c.key) /\ log.dict[c.key].type = c.type /\ Emptied(rest)) => Gone(q.db, c.key)
      /\ (Has(log, c.key) /\ log.dict[c.key].type = c.type /\ ~Emptied(rest)) =>
            /\ Has(q.db, c.key) /\ Ttl(q.db, c.key) = Ttl(log, c.key)
            /\ q.db.dict[c.key] = rest
  BY ReplayTrim, ZenonT(30)
<1> HIDE DEF q
<1>2. CASE Has(found, c.key)
  <2>1. found = db /\ Same(db, c.key, log, c.key)
    BY <1>2, Found, AgreeFound
  <2>2. /\ Has(log, c.key) /\ found.dict[c.key] = log.dict[c.key]
        /\ Ttl(found, c.key) = Ttl(log, c.key)
    BY <1>2, <2>1 DEF Same
  <2>3. found.dict[c.key].type = c.type
    BY <1>2, TrimEffect, ZenonT(30)
  <2>4. /\ Emptied(Trimmed(found.dict[c.key], c.kept)) => Gone(r.db, c.key)
        /\ ~Emptied(Trimmed(found.dict[c.key], c.kept)) =>
              /\ Has(r.db, c.key) /\ Ttl(r.db, c.key) = Ttl(found, c.key)
              /\ r.db.dict[c.key] = Trimmed(found.dict[c.key], c.kept)
    BY <1>2, <2>3, TrimEffect, ZenonT(30)
  <2> HIDE DEF found, r
  <2>5. Trimmed(found.dict[c.key], c.kept) = rest /\ log.dict[c.key].type = c.type
    BY <2>2, <2>3, Zenon
  <2> HIDE DEF rest
  <2>6. ~q.error /\ Same(r.db, c.key, q.db, c.key)
    BY <1>1, <2>2, <2>4, <2>5 DEF Same, Gone
  <2> QED
    BY <2>6, Zenon DEF Agree, q, r
<1>3. CASE ~Has(found, c.key)
  <2>1. r.db = found
    BY <1>3, TrimEffect, ZenonT(30)
  <2>2. Gone(found, c.key) /\ (Has(db, c.key) => Lapsed(db, c.key, t))
    <3>1. Consistent(found)
      BY LookupKeeps DEF Keeps
    <3>2. Gone(found, c.key)
      BY <1>3, <3>1, TtlFacts
    <3>3. Has(db, c.key) => Lapsed(db, c.key, t)
      BY <1>3, LookupEntry
    <3> QED
      BY <3>2, <3>3
  <2> HIDE DEF found, r
  <2>3. CASE ~Has(log, c.key)
    <3>1. Gone(log, c.key) /\ ~q.error /\ q.db = log
      BY <1>1, <2>3, TtlFacts
    <3>2. Same(r.db, c.key, q.db, c.key)
      BY <2>1, <2>2, <3>1 DEF Same, Gone
    <3> QED
      BY <3>1, <3>2, Zenon DEF Agree, q, r
  <2>4. CASE Has(log, c.key) /\ log.dict[c.key].type # c.type
    BY <1>1, <1>3, <2>4, Zenon DEF q, found
  <2>5. CASE Has(log, c.key) /\ log.dict[c.key].type = c.type
    <3>1. Lapsed(log, c.key, t)
      BY <2>2, <2>5 DEF Agree, Same, Gone, Lapsed
    <3>2. Gone(r.db, c.key)
      BY <2>1, <2>2, Zenon
    <3> HIDE DEF rest
    <3>3. Gone(q.db, c.key) \/ Lapsed(q.db, c.key, t)
      BY <1>1, <2>5, <3>1 DEF Lapsed
    <3>4. Agree(r.db, q.db, c.key, t)
      BY <3>2, <3>3 DEF Agree, Same, Gone
    <3>5. ~q.error
      BY <1>1, <2>5, Zenon
    <3> QED
      BY <3>4, <3>5, Zenon DEF q, r
  <2> QED
    BY <2>3, <2>4, <2>5, Zenon
<1> QED
  BY <1>2, <1>3, Zenon

(* Taking an expiration away.                                              *)
LEMMA PersistAgrees ==
    ASSUME NEW db, Consistent(db), ~db.loading, NEW log, Consistent(log), log.loading,
           NEW c, NEW t \in Nat, HandlePersist(db, c, t).modified
    PROVE  /\ \A k : k # c.key => /\ Same(db, k, HandlePersist(db, c, t).db, k)
                                  /\ Same(log, k, HandlePersist(log, c, 0).db, k)
           /\ Agree(db, log, c.key, t) =>
                 Same(HandlePersist(db, c, t).db, c.key, HandlePersist(log, c, 0).db, c.key)
           /\ ~HandlePersist(log, c, 0).error
<1> DEFINE found == LookupKey(db, c.key, t)
<1>1. LookupKey(log, c.key, 0) = log
  BY LookupLoading
<1>2. /\ Has(found, c.key) /\ HasTtl(found, c.key)
      /\ HandlePersist(db, c, t) = Ok(Taken(found, c.key), TRUE)
  BY DEF HandlePersist, Ok, Taken
<1>3. found = db /\ ~Lapsed(db, c.key, t)
  BY <1>2, Found
<1>4. /\ Taken(db, c.key).dict = db.dict /\ Ttl(Taken(db, c.key), c.key) = 0
      /\ \A k : k # c.key => Same(db, k, Taken(db, c.key), k)
      /\ Taken(log, c.key).dict = log.dict /\ Ttl(Taken(log, c.key), c.key) = 0
      /\ \A k : k # c.key => Same(log, k, Taken(log, c.key), k)
  BY TtlEntry
<1>5. HandlePersist(log, c, 0) = IF Has(log, c.key) /\ HasTtl(log, c.key)
                                 THEN Ok(Taken(log, c.key), TRUE) ELSE Ok(log, FALSE)
  BY <1>1, Zenon DEF HandlePersist, Taken
<1> HIDE DEF found
<1>6. /\ HandlePersist(db, c, t).db = Taken(db, c.key) /\ ~HandlePersist(log, c, 0).error
      /\ HandlePersist(log, c, 0).db = IF Has(log, c.key) /\ HasTtl(log, c.key)
                                       THEN Taken(log, c.key) ELSE log
  BY <1>2, <1>3, <1>5 DEF Ok
<1>7. ASSUME Agree(db, log, c.key, t)
      PROVE  Same(Taken(db, c.key), c.key, HandlePersist(log, c, 0).db, c.key)
  <2>1. Same(db, c.key, log, c.key) /\ HasTtl(db, c.key) /\ Has(db, c.key)
    BY <1>2, <1>3, <1>7, AgreeFound
  <2>2. Has(log, c.key) /\ HasTtl(log, c.key)
    BY <2>1, TtlFacts DEF Same
  <2> QED
    BY <1>4, <1>6, <2>1, <2>2 DEF Same, Has
<1> QED
  BY <1>4, <1>6, <1>7 DEF Same

-----------------------------------------------------------------------------
(* The three commands Encode makes up, as they are replayed.               *)
LEMMA ReplayDel ==
    ASSUME NEW log, Consistent(log), NEW key
    PROVE  /\ Gone(Replay(log, Del(key)).db, key)
           /\ \A k : k # key => Same(log, k, Replay(log, Del(key)).db, k)
           /\ ~Replay(log, Del(key)).error
<1>1. Replay(log, Del(key)) = Ok(DeleteKey(log, key), Has(log, key))
  BY DEF Replay, Execute, Del, HandleDel
<1>2. Replay(log, Del(key)).db = DeleteKey(log, key) /\ ~Replay(log, Del(key)).error
  BY <1>1 DEF Ok
<1> QED
  BY <1>2, DeleteEntry

(* SET without an expiration.                                              *)
LEMMA ReplaySet ==
    ASSUME NEW log, Consistent(log), NEW key, NEW piece
    PROVE  /\ Writes(log, Replay(log, Set(key, piece)).db, key, Single("string", piece))
           /\ Ttl(Replay(log, Set(key, piece)).db, key) = 0
           /\ ~Replay(log, Set(key, piece)).error
<1> DEFINE object == Single("string", piece)
           left == SetKey(log, key, object, 0, FALSE)
<1>1. Replay(log, Set(key, piece)) = Ok(left, TRUE)
  <2> DEFINE c == Set(key, piece)
  <2>1. c.op = "SET" /\ c.key = key /\ c.piece = piece /\ c.expire = 0
    BY DEF Set
  <2>2. c.keep_ttl = FALSE
    BY DEF Set
  <2> HIDE DEF c
  <2>3. Replay(log, c) = HandleSet(log, c)
    BY <2>1 DEF Replay, Execute
  <2>4. HandleSet(log, c) = Ok(SetKey(log, c.key, Single("string", c.piece), c.expire, c.keep_ttl), TRUE)
    BY DEF HandleSet, Single
  <2> QED
    BY <2>1, <2>2, <2>3, <2>4, Zenon DEF c
<1> HIDE DEF object
<1>2. Writes(log, left, key, object) /\ Ttl(left, key) = 0
  <2>1. /\ Has(left, key) /\ left.dict[key] = object /\ Ttl(left, key) = 0
        /\ \A k : k # key => Same(log, k, left, k)
    BY CreateEntry, Zenon
  <2> HIDE DEF left
  <2> QED
    BY <2>1 DEF Writes
<1> HIDE DEF left
<1>3. Replay(log, Set(key, piece)).db = left /\ ~Replay(log, Set(key, piece)).error
  BY <1>1 DEF Ok
<1> QED
  BY <1>2, <1>3 DEF object

(* PEXPIREAT does not delete while the log is replayed.                    *)
LEMMA ReplayExpire ==
    ASSUME NEW log, Consistent(log), log.loading, NEW key, NEW expire
    PROVE  /\ \A k : k # key => Same(log, k, Replay(log, PExpireAt(key, expire)).db, k)
           /\ Has(log, key) => /\ Replay(log, PExpireAt(key, expire)).db.dict = log.dict
                               /\ Ttl(Replay(log, PExpireAt(key, expire)).db, key) = expire
           /\ ~Replay(log, PExpireAt(key, expire)).error
<1> DEFINE given == Given(log, key, expire)
           c == PExpireAt(key, expire)
<1>1. /\ given.dict = log.dict /\ Ttl(given, key) = expire
      /\ \A k : k # key => Same(log, k, given, k)
  BY TtlEntry
<1>2. ExpireKeyAt(log, key, expire, 0) = given
  BY DEF ExpireKeyAt, Given
<1> HIDE DEF given
<1>3. Replay(log, c) = HandlePExpireAt(log, c, 0) /\ c.key = key /\ c.expire = expire
  BY DEF Replay, Execute, PExpireAt
<1> HIDE DEF c
<1>4. HandlePExpireAt(log, c, 0) = IF Has(log, key) THEN Ok(given, TRUE) ELSE Ok(log, FALSE)
  BY <1>2, <1>3, LookupLoading, Zenon DEF HandlePExpireAt
<1>5. /\ Replay(log, c).db = IF Has(log, key) THEN given ELSE log
      /\ ~Replay(log, c).error
  BY <1>3, <1>4 DEF Ok
<1> QED
  BY <1>1, <1>5 DEF Same, c

(* A record is replayed command by command.                                *)
First(log, record) == Replay(log, record[1])

Last(log, record) ==
    IF Len(record) = 1 THEN First(log, record) ELSE Replay(First(log, record).db, record[2])

(* SET is logged as the value and the expiration it left; whatever the log *)
(* had of the key before.                                                  *)
LEMMA SetAgrees ==
    ASSUME NEW db, Consistent(db), ~db.loading, NEW log, Consistent(log), log.loading,
           NEW c \in Commands, c.op = "SET", NEW t, NEW later \in Nat,
           NEW left, left = LookupKey(Execute(db, c, t).db, c.key, later)
    PROVE  /\ \A k : k # c.key => /\ Same(db, k, left, k)
                                  /\ Same(log, k, Last(log, Encode(c, left)).db, k)
           /\ Same(left, c.key, Last(log, Encode(c, left)).db, c.key)
           /\ ~First(log, Encode(c, left)).error /\ ~Last(log, Encode(c, left)).error
<1> DEFINE object == Single("string", c.piece)
           set == SetKey(db, c.key, object, c.expire, c.keep_ttl)
           record == Encode(c, left)
<1>1. Execute(db, c, t).db = set
  BY DEF Execute, HandleSet, Ok, Single
<1>2. Consistent(set) /\ ~set.loading
  BY <1>1, ExecuteKeeps DEF Keeps
<1>3. Writes(db, set, c.key, object)
  <2>1. c.expire \in Nat /\ c.keep_ttl \in BOOLEAN
    BY CommandFacts, KeyspaceAssumption, SMTT(30) DEF Times
  <2> QED
    BY <2>1, SetEntry
<1> HIDE DEF set
<1>4. \A k : k # c.key => Same(db, k, left, k)
  BY <1>1, <1>2, <1>3, LookupEntry DEF Writes, Same
<1>5. Consistent(left)
  BY <1>1, <1>2, LookupKeeps, SMTT(30) DEF Keeps
<1>6. CASE ~Has(left, c.key)
  <2>1. record = <<Del(c.key)>>
    BY <1>6 DEF Encode
  <2>2. /\ First(log, record) = Replay(log, Del(c.key))
        /\ Last(log, record) = Replay(log, Del(c.key))
    BY <2>1 DEF First, Last
  <2>3. Gone(left, c.key)
    BY <1>5, <1>6, TtlFacts
  <2> QED
    BY <1>4, <2>2, <2>3, ReplayDel DEF Same, Gone
<1>7. CASE Has(left, c.key)
  <2>0. left = set /\ left.dict[c.key] = object
    BY <1>1, <1>2, <1>3, <1>7, Found DEF Writes
  <2> DEFINE first == Replay(log, Set(c.key, c.piece))
  <2>1. Writes(log, first.db, c.key, object) /\ Ttl(first.db, c.key) = 0 /\ ~first.error
    BY ReplaySet, SMTT(30)
  <2>2. CASE ~HasTtl(left, c.key)
    <3>1. record = <<Set(c.key, c.piece)>>
      BY <1>7, <2>2 DEF Encode
    <3>2. First(log, record) = first /\ Last(log, record) = first
      BY <3>1 DEF First, Last
    <3>3. Ttl(left, c.key) = 0
      BY <2>2, SMTT(30) DEF Ttl
    <3> HIDE DEF first, record
    <3> QED
      BY <1>4, <1>7, <2>0, <2>1, <3>2, <3>3 DEF Same, Writes, record
  <2>3. CASE HasTtl(left, c.key)
    <3> DEFINE expire == left.expires[c.key]
               last == Replay(first.db, PExpireAt(c.key, expire))
    <3>1. record = <<Set(c.key, c.piece), PExpireAt(c.key, expire)>>
      BY <1>7, <2>3, SMTT(30) DEF Encode
    <3>2. First(log, record) = first /\ Last(log, record) = last
      BY <3>1 DEF First, Last
    <3>3. Ttl(left, c.key) = expire
      BY <2>3 DEF Ttl
    <3>4. Consistent(first.db) /\ first.db.loading
      <4>1. c.key \in Keys /\ c.piece \in Elements
        BY CommandFacts
      <4>2. Set(c.key, c.piece) \in Commands
        BY <4>1, SMTT(30) DEF Set, Commands
      <4> QED
        BY <4>2, ExecuteKeeps DEF Replay, Keeps
    <3> HIDE DEF first, record, expire
    <3>5. /\ \A k : k # c.key => Same(first.db, k, last.db, k)
          /\ last.db.dict = first.db.dict /\ Ttl(last.db, c.key) = expire /\ ~last.error
      <4>1. Has(first.db, c.key)
        BY <2>1, SMTT(30) DEF Writes
      <4> QED
        BY <3>4, <4>1, ReplayExpire, SMTT(30)
    <3> HIDE DEF last, expire
    <3> QED
      BY <1>4, <1>7, <2>0, <2>1, <3>2, <3>3, <3>5, SMTT(30) DEF Same, Writes, Has, record
  <2> QED
    BY <2>2, <2>3
<1> QED
  BY <1>6, <1>7

(* An expiration is logged as the absolute time it set, or as the deletion *)
(* it came to.                                                             *)
LEMMA PExpireAgrees ==
    ASSUME NEW db, Consistent(db), ~db.loading, NEW log, Consistent(log), log.loading,
           NEW c \in Commands, c.op = "PEXPIREAT", NEW t \in Nat,
           NEW left, left = Execute(db, c, t).db, Execute(db, c, t).modified
    PROVE  /\ \A k : k # c.key => /\ Same(db, k, left, k)
                                  /\ Same(log, k, Last(log, Encode(c, left)).db, k)
           /\ Agree(db, log, c.key, t) =>
                 Same(left, c.key, Last(log, Encode(c, left)).db, c.key)
           /\ ~First(log, Encode(c, left)).error /\ ~Last(log, Encode(c, left)).error
<1> DEFINE record == Encode(c, left)
<1>1. /\ Has(LookupKey(db, c.key, t), c.key)
      /\ left = ExpireKeyAt(LookupKey(db, c.key, t), c.key, c.expire, t)
  BY DEF Execute, HandlePExpireAt, Ok
<1>2. LookupKey(db, c.key, t) = db /\ ~Lapsed(db, c.key, t) /\ Has(db, c.key)
  BY <1>1, Found, SMTT(30)
<1>3. CASE c.expire <= t
  <2>1. left = DeleteKey(db, c.key)
    BY <1>1, <1>2, <1>3 DEF ExpireKeyAt
  <2>2. Gone(left, c.key) /\ \A k : k # c.key => Same(db, k, left, k)
    BY <2>1, DeleteEntry
  <2>3. ~HasTtl(left, c.key)
    BY <2>1, <2>2, DeleteKeeps, TtlFacts DEF Keeps, Gone
  <2>4. record = <<Del(c.key)>>
    BY <2>3 DEF Encode
  <2>5. /\ First(log, record) = Replay(log, Del(c.key))
        /\ Last(log, record) = Replay(log, Del(c.key))
    BY <2>4, SMTT(30) DEF First, Last
  <2> QED
    BY <2>2, <2>5, ReplayDel DEF Same, Gone
<1>4. CASE ~(c.expire <= t)
  <2>1. left = Given(db, c.key, c.expire)
    BY <1>1, <1>2, <1>4, SMTT(30) DEF ExpireKeyAt, Given
  <2>2. /\ left.dict = db.dict /\ Ttl(left, c.key) = c.expire
        /\ \A k : k # c.key => Same(db, k, left, k)
    BY <2>1, TtlEntry
  <2>3. HasTtl(left, c.key)
    <3>1. c.expire # 0
      BY CommandFacts, KeyspaceAssumption DEF Times
    <3> QED
      BY <2>2, <3>1 DEF Ttl
  <2>4. left.expires[c.key] = c.expire
    BY <2>2, <2>3 DEF Ttl
  <2>5. record = <<PExpireAt(c.key, c.expire)>>
    BY <2>3, <2>4 DEF Encode
  <2> DEFINE q == Replay(log, PExpireAt(c.key, c.expire))
  <2>6. First(log, record) = q /\ Last(log, record) = q
    BY <2>5 DEF First, Last
  <2>7. /\ \A k : k # c.key => Same(log, k, q.db, k)
        /\ Has(log, c.key) => q.db.dict = log.dict /\ Ttl(q.db, c.key) = c.expire
        /\ ~q.error
    BY ReplayExpire, SMTT(30)
  <2> HIDE DEF q
  <2>8. ASSUME Agree(db, log, c.key, t)
        PROVE  Same(left, c.key, q.db, c.key)
    <3>1. Same(db, c.key, log, c.key)
      BY <1>2, <2>8, AgreeFound
    <3> QED
      BY <1>2, <2>2, <2>7, <3>1 DEF Same, Has
  <2> HIDE DEF record
  <2> QED
    BY <2>2, <2>6, <2>7, <2>8 DEF record
<1> QED
  BY <1>3, <1>4

(* The whole entry of a renamed key moves in both, unless it is not there. *)
LEMMA RenameAgrees ==
    ASSUME NEW db, Consistent(db), ~db.loading, NEW log, Consistent(log), log.loading,
           NEW c, NEW t \in Nat, NEW z \in Nat, HandleRename(db, c, t).modified
    PROVE  /\ \A k : k \notin {c.key, c.to} => Same(db, k, HandleRename(db, c, t).db, k)
           /\ Gone(HandleRename(db, c, t).db, c.key)
           /\ c.key # c.to
           /\ ~HandleRename(log, c, z).error =>
                 /\ \A k : k \notin {c.key, c.to} => Same(log, k, HandleRename(log, c, z).db, k)
                 /\ Gone(HandleRename(log, c, z).db, c.key)
           /\ Agree(db, log, c.key, t) =>
                 /\ Same(HandleRename(db, c, t).db, c.to, HandleRename(log, c, z).db, c.to)
                 /\ ~HandleRename(log, c, z).error
<1>1. LookupKey(log, c.key, z) = log
  BY LookupLoading
<1>2. /\ Has(LookupKey(db, c.key, t), c.key) /\ c.key # c.to
      /\ HandleRename(db, c, t).db = RenameKey(LookupKey(db, c.key, t), c.key, c.to)
  BY DEF HandleRename, Ok, Error
<1>3. LookupKey(db, c.key, t) = db /\ ~Lapsed(db, c.key, t)
  BY <1>2, Found
<1> DEFINE left == RenameKey(db, c.key, c.to)
           right == RenameKey(log, c.key, c.to)
<1>4. /\ Gone(left, c.key) /\ Same(db, c.key, left, c.to)
      /\ \A k : k \notin {c.key, c.to} => Same(db, k, left, k)
  BY <1>2, <1>3, RenameEntry
<1>5. Has(log, c.key) => /\ Gone(right, c.key) /\ Same(log, c.key, right, c.to)
                         /\ \A k : k \notin {c.key, c.to} => Same(log, k, right, k)
  BY <1>2, RenameEntry
<1>6. HandleRename(log, c, z) = IF Has(log, c.key) THEN Ok(right, TRUE) ELSE Error(log)
  BY <1>1, <1>2, ZenonT(30) DEF HandleRename
<1> HIDE DEF right
<1>7. /\ Has(log, c.key) => HandleRename(log, c, z).db = right
      /\ HandleRename(log, c, z).error <=> ~Has(log, c.key)
  <2>1. CASE Has(log, c.key)
    BY <1>6, <2>1 DEF Ok
  <2>2. CASE ~Has(log, c.key)
    BY <1>6, <2>2 DEF Error
  <2> QED
    BY <2>1, <2>2
<1>8. Agree(db, log, c.key, t) => Same(db, c.key, log, c.key) /\ Has(log, c.key)
  <2>1. Agree(db, log, c.key, t) => Same(db, c.key, log, c.key)
    BY <1>2, <1>3, AgreeFound
  <2> QED
    BY <1>2, <1>3, <2>1 DEF Same
<1> HIDE DEF left
<1>9. HandleRename(db, c, t).db = left
  BY <1>2, <1>3 DEF left
<1> QED
  BY <1>2, <1>4, <1>5, <1>7, <1>8, <1>9, ZenonT(90) DEF Same
=============================================================================

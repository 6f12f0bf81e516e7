----------------------------- MODULE ReplayProofs -----------------------------
(***************************************************************************)
(* Replaying the log shows every key as it was, for every set of keys and  *)
(* elements and every bound on the clock.  The invariant says of each key  *)
(* that has not diverged how its two entries are related; ReplayCommands   *)
(* says how a command and its record keep it so.                           *)
(***************************************************************************)
EXTENDS ReplayCommands

(* The inductive invariant.                                                *)
AInv ==
    /\ IInv /\ Full(live) /\ Full(replayed)
    /\ startable => \A key \in Keys \ diverged : Agree(live, replayed, key, now)

-----------------------------------------------------------------------------
(* A command that modified the database, and its record.                   *)
LEMMA Logged ==
    ASSUME IInv, NEW c \in Commands, ProcessCommand(c), Execute(live, c, now).modified
    PROVE  /\ c.op = "SET" => live' = LookupKey(Execute(live, c, now).db, c.key, now')
           /\ c.op # "SET" => live' = Execute(live, c, now).db
           /\ replayed' = Last(replayed, Encode(c, live')).db
           /\ startable' = /\ startable
                           /\ ~First(replayed, Encode(c, live')).error
                           /\ ~Last(replayed, Encode(c, live')).error
           /\ diverged' = Diverges(c, LookupKey(live, c.key, now))
           /\ now \in Nat /\ now' \in Nat /\ now <= now'
<1>1. /\ live' = IF c.op = "SET" THEN LookupKey(Execute(live, c, now).db, c.key, now')
                                 ELSE Execute(live, c, now).db
      /\ AppendRecord(Encode(c, live'))
      /\ diverged' = Diverges(c, LookupKey(live, c.key, now))
  BY DEF ProcessCommand
<1>2. /\ replayed' = Last(replayed, Encode(c, live')).db
      /\ startable' = /\ startable
                      /\ ~First(replayed, Encode(c, live')).error
                      /\ ~Last(replayed, Encode(c, live')).error
  BY <1>1, Zenon DEF AppendRecord, First, Last
<1>3. now \in Nat /\ now' \in Nat /\ now <= now'
  BY KeyspaceAssumption DEF ProcessCommand, IInv
<1> QED
  BY <1>1, <1>2, <1>3

(* Most commands are logged as they came.                                  *)
LEMMA LoggedAsIs ==
    ASSUME IInv, NEW c \in Commands, ProcessCommand(c), Execute(live, c, now).modified,
           c.op \notin {"SET", "PEXPIREAT"}
    PROVE  /\ live' = Execute(live, c, now).db
           /\ replayed' = Execute(replayed, c, 0).db
           /\ startable' = (startable /\ ~Execute(replayed, c, 0).error)
<1>1. Encode(c, live') = <<c>>
  BY CommandFacts DEF Encode
<1>2. /\ First(replayed, Encode(c, live')) = Execute(replayed, c, 0)
      /\ Last(replayed, Encode(c, live')) = Execute(replayed, c, 0)
  BY <1>1 DEF First, Last, Replay
<1> QED
  BY <1>2, Logged, ZenonT(30)

(* What the invariant needs of a logged command: keys it does not touch    *)
(* keep their entries, the two databases agree on the keys it touches, and *)
(* it is replayed without an error unless it met a key that had parted.    *)
Follows(c, touched) ==
    /\ startable' => \A k \in Keys :
          /\ k \notin touched =>
                /\ Same(live, k, live', k) /\ Same(replayed, k, replayed', k)
                /\ k \notin diverged' => k \notin diverged
          /\ k \in touched \ diverged' => Agree(live', replayed', k, now')
    /\ startable /\ ~startable' => Parted(c)

(* Most commands leave the keys they touch the same in both.               *)
Copies(c, touched) ==
    /\ startable' => \A k \in Keys :
          /\ k \notin touched =>
                /\ Same(live, k, live', k) /\ Same(replayed, k, replayed', k)
                /\ k \notin diverged' => k \notin diverged
          /\ k \in touched \ diverged' => Same(live', k, replayed', k)
    /\ startable /\ ~startable' => Parted(c)

(* That is more than enough.                                               *)
LEMMA CopiesFollow ==
    ASSUME NEW c, NEW touched, Copies(c, touched)
    PROVE  Follows(c, touched)
BY Zenon DEF Copies, Follows, Agree

(* The two databases agree on each key the log describes, after a command  *)
(* that modified the one and was logged for the other.                     *)
LEMMA Modified ==
    ASSUME AInv, NEW c \in Commands, ProcessCommand(c), Execute(live, c, now).modified
    PROVE  \E touched : Follows(c, touched)
<1> DEFINE found == LookupKey(live, c.key, now)
<1>1. /\ IInv /\ Consistent(live) /\ ~live.loading /\ Consistent(replayed) /\ replayed.loading
      /\ now \in Nat /\ now' \in Nat /\ diverged' = Diverges(c, found)
  BY Logged, Zenon DEF AInv, IInv
<1>2. startable /\ c.key \in Keys \ diverged => Agree(live, replayed, c.key, now)
  BY DEF AInv
<1>3. startable' => startable
  BY <1>1, Logged
<1>4. CASE c.op = "SET"
  <2>1. /\ live' = LookupKey(Execute(live, c, now).db, c.key, now')
        /\ replayed' = Last(replayed, Encode(c, live')).db
        /\ startable' = /\ startable
                        /\ ~First(replayed, Encode(c, live')).error
                        /\ ~Last(replayed, Encode(c, live')).error
    BY <1>1, <1>4, Logged, Zenon
  <2>2. diverged' = diverged \ {c.key}
    BY <1>1, <1>4 DEF Diverges
  <2>3. /\ \A k : k # c.key => Same(live, k, live', k) /\ Same(replayed, k, replayed', k)
        /\ Same(live', c.key, replayed', c.key)
        /\ ~First(replayed, Encode(c, live')).error /\ ~Last(replayed, Encode(c, live')).error
    BY <1>1, <1>4, <2>1, SetAgrees, Zenon
  <2>4. Copies(c, {c.key})
    BY <2>1, <2>2, <2>3 DEF Copies
  <2> QED
    BY <2>4, CopiesFollow, Zenon
<1>5. CASE c.op = "PEXPIREAT"
  <2>1. /\ live' = Execute(live, c, now).db
        /\ replayed' = Last(replayed, Encode(c, live')).db
        /\ startable' = /\ startable
                        /\ ~First(replayed, Encode(c, live')).error
                        /\ ~Last(replayed, Encode(c, live')).error
    BY <1>1, <1>5, Logged, Zenon
  <2>2. diverged' = diverged
    BY <1>1, <1>5 DEF Diverges
  <2>3. /\ \A k : k # c.key => Same(live, k, live', k) /\ Same(replayed, k, replayed', k)
        /\ Agree(live, replayed, c.key, now) => Same(live', c.key, replayed', c.key)
        /\ ~First(replayed, Encode(c, live')).error /\ ~Last(replayed, Encode(c, live')).error
    BY <1>1, <1>5, <2>1, PExpireAgrees, ZenonT(30)
  <2>4. Copies(c, {c.key})
    BY <1>2, <2>1, <2>2, <2>3, Zenon DEF Copies
  <2> QED
    BY <2>4, CopiesFollow, Zenon
<1> DEFINE r == Execute(live, c, now)
           q == Execute(replayed, c, 0)
<1>6. ASSUME c.op \notin {"SET", "PEXPIREAT"}
      PROVE  live' = r.db /\ replayed' = q.db /\ startable' = (startable /\ ~q.error)
  BY <1>1, <1>6, LoggedAsIs
<1>7. CASE c.op = "ADD"
  <2>1. r = HandleAdd(live, c, now) /\ q = HandleAdd(replayed, c, 0) /\ c.key \in Keys
    BY <1>7, CommandFacts DEF Execute
  <2>2. \A k : k # c.key => Same(live, k, r.db, k) /\ Same(replayed, k, q.db, k)
    BY <1>1, <2>1, AddElsewhere, Zenon
  <2>3. diverged' = IF ~Has(found, c.key) /\ Has(replayed, c.key)
                    THEN diverged \cup {c.key} ELSE diverged
    BY <1>1, <1>7 DEF Diverges
  <2>4. startable /\ c.key \notin diverged' => Same(r.db, c.key, q.db, c.key) /\ ~q.error
    <3> SUFFICES ASSUME startable, c.key \notin diverged'
                 PROVE  Same(r.db, c.key, q.db, c.key) /\ ~q.error
      OBVIOUS
    <3>1. \/ Has(found, c.key) /\ Agree(live, replayed, c.key, now)
          \/ ~Has(found, c.key) /\ ~Has(replayed, c.key)
      BY <1>2, <2>1, <2>3
    <3> QED
      BY <1>1, <2>1, <3>1, AddAgrees
  <2>6. q.error => Has(replayed, c.key) /\ replayed.dict[c.key].type # c.type
    <3>1. HandleAdd(replayed, c, 0).error =>
             Has(replayed, c.key) /\ replayed.dict[c.key].type # c.type
      BY <1>1, <2>1, ReplayAddError
    <3> QED
      BY <2>1, <3>1, Zenon
  <2> HIDE DEF r, q
  <2>5. Copies(c, {c.key})
    BY <1>3, <1>6, <1>7, <2>1, <2>2, <2>3, <2>4, <2>6, ZenonT(30) DEF Copies, Parted
  <2> QED
    BY <2>5, CopiesFollow, Zenon
<1>8. CASE c.op = "REMOVE"
  <2>1. r = HandleRemove(live, c, now) /\ q = HandleRemove(replayed, c, 0) /\ c.key \in Keys
    BY <1>8, CommandFacts DEF Execute
  <2>2. \A k : k # c.key => Same(live, k, r.db, k) /\ Same(replayed, k, q.db, k)
    BY <1>1, <2>1, RemoveEffect, ZenonT(30)
  <2>3. diverged' = diverged
    BY <1>1, <1>8 DEF Diverges
  <2>4. startable /\ c.key \notin diverged => Same(r.db, c.key, q.db, c.key) /\ ~q.error
    <3> SUFFICES ASSUME startable, c.key \notin diverged
                 PROVE  Same(r.db, c.key, q.db, c.key) /\ ~q.error
      OBVIOUS
    <3>1. Agree(live, replayed, c.key, now)
      BY <1>2, <2>1
    <3> QED
      BY <1>1, <2>1, <3>1, RemoveAgrees
  <2> HIDE DEF r, q
  <2>5. Copies(c, {c.key})
    BY <1>3, <1>6, <1>8, <2>2, <2>3, <2>4, Zenon DEF Copies, Parted
  <2> QED
    BY <2>5, CopiesFollow, Zenon
<1>9. CASE c.op \in {"DEL", "UNLINK"}
  <2>1. r.db = DeleteKey(live, c.key) /\ q.db = DeleteKey(replayed, c.key) /\ ~q.error
    BY <1>9, Zenon DEF Execute, HandleDel, HandleUnlink, Ok
  <2>2. diverged' = diverged \ {c.key}
    BY <1>1, <1>9, SMTT(30) DEF Diverges
  <2>3. /\ \A k : k # c.key => Same(live, k, r.db, k) /\ Same(replayed, k, q.db, k)
        /\ Same(r.db, c.key, q.db, c.key)
    <3> HIDE DEF r, q
    <3>1. \A k : k # c.key => Same(live, k, r.db, k) /\ Same(replayed, k, q.db, k)
      BY <1>1, <2>1, DeleteEntry
    <3>2. Gone(r.db, c.key) /\ Gone(q.db, c.key)
      BY <1>1, <2>1, DeleteEntry
    <3> QED
      BY <3>1, <3>2 DEF Same, Gone
  <2> HIDE DEF r, q
  <2>4. Copies(c, {c.key})
    BY <1>6, <1>9, <2>1, <2>2, <2>3, Zenon DEF Copies
  <2> QED
    BY <2>4, CopiesFollow, Zenon
<1>10. CASE c.op = "PERSIST"
  <2>1. r = HandlePersist(live, c, now) /\ q = HandlePersist(replayed, c, 0)
    BY <1>10, SMTT(30) DEF Execute
  <2>2. /\ \A k : k # c.key => Same(live, k, r.db, k) /\ Same(replayed, k, q.db, k)
        /\ Agree(live, replayed, c.key, now) => Same(r.db, c.key, q.db, c.key)
        /\ ~q.error
    BY <1>1, <2>1, PersistAgrees, Zenon
  <2>3. diverged' = diverged
    BY <1>1, <1>10 DEF Diverges
  <2> HIDE DEF r, q
  <2>4. Copies(c, {c.key})
    BY <1>2, <1>3, <1>6, <1>10, <2>2, <2>3, Zenon DEF Copies
  <2> QED
    BY <2>4, CopiesFollow, Zenon
<1>11. CASE c.op = "RENAME"
  <2>1. /\ r = HandleRename(live, c, now) /\ q = HandleRename(replayed, c, 0)
        /\ c.key \in Keys /\ c.to \in Keys
    BY <1>11, CommandFacts DEF Execute
  <2>2. /\ \A k : k \notin {c.key, c.to} => Same(live, k, r.db, k)
        /\ Gone(r.db, c.key) /\ c.key # c.to
        /\ ~q.error => /\ \A k : k \notin {c.key, c.to} => Same(replayed, k, q.db, k)
                       /\ Gone(q.db, c.key)
        /\ Agree(live, replayed, c.key, now) => Same(r.db, c.to, q.db, c.to) /\ ~q.error
    BY <1>1, <2>1, RenameAgrees, Zenon
  <2>3. diverged' = IF c.key \in diverged THEN (diverged \ {c.key}) \cup {c.to}
                                          ELSE diverged \ {c.to}
    BY <1>1, <1>11 DEF Diverges
  <2> HIDE DEF r, q
  <2>4. Gone(r.db, c.key) /\ Gone(q.db, c.key) => Same(r.db, c.key, q.db, c.key)
    BY DEF Gone, Same
  <2>5. Copies(c, {c.key, c.to})
    BY <1>2, <1>3, <1>6, <1>11, <2>1, <2>2, <2>3, <2>4, Zenon DEF Copies, Parted
  <2> QED
    BY <2>5, CopiesFollow, Zenon
<1>12. CASE c.op = "FLUSHDB"
  <2>1. r.db = Empty(live.loading) /\ q.db = Empty(replayed.loading) /\ ~q.error
    BY <1>12 DEF Execute, Ok
  <2>2. \A k : Same(r.db, k, q.db, k)
    BY <2>1 DEF Empty, Same, Has, Ttl, HasTtl
  <2> HIDE DEF r, q
  <2>3. Copies(c, Keys)
    BY <1>6, <1>12, <2>1, <2>2, Zenon DEF Copies
  <2> QED
    BY <2>3, CopiesFollow, Zenon
<1>13. c.op # "GET"
  BY Zenon DEF Execute, Ok
<1>14. CASE c.op = "TRIM"
  <2>1. r = HandleTrim(live, c, now) /\ q = HandleTrim(replayed, c, 0) /\ c.key \in Keys
    BY <1>14, CommandFacts DEF Execute
  <2>2. \A k : k # c.key => Same(live, k, r.db, k) /\ Same(replayed, k, q.db, k)
    BY <1>1, <2>1, TrimEffect, ZenonT(30)
  <2>3. diverged' = diverged
    BY <1>1, <1>14 DEF Diverges
  <2>4. ASSUME startable, c.key \notin diverged
        PROVE  /\ ~q.error => Agree(r.db, q.db, c.key, now)
               /\ q.error => /\ ~Has(found, c.key) /\ Has(replayed, c.key)
                             /\ replayed.dict[c.key].type # c.type
    <3>1. Agree(live, replayed, c.key, now)
      BY <1>2, <2>1, <2>4
    <3>2. HandleTrim(live, c, now).modified
      BY <2>1, Zenon
    <3>3. /\ ~HandleTrim(replayed, c, 0).error =>
                Agree(HandleTrim(live, c, now).db, HandleTrim(replayed, c, 0).db, c.key, now)
          /\ HandleTrim(replayed, c, 0).error =>
                /\ ~Has(LookupKey(live, c.key, now), c.key)
                /\ Has(replayed, c.key) /\ replayed.dict[c.key].type # c.type
      BY <1>1, <2>1, <3>1, <3>2, TrimAgrees
    <3> QED
      BY <2>1, <3>3, Zenon
  <2>5. ASSUME Agree(live', replayed', c.key, now)
        PROVE  Agree(live', replayed', c.key, now')
    <3>1. Consistent(live') /\ Consistent(replayed') /\ now <= now'
      BY <1>1, ProcessCommandIInv, Logged, Zenon DEF IInv
    <3>2. Forgets(live', live', now)
      BY Zenon DEF Forgets, Same
    <3> QED
      BY <1>1, <2>5, <3>1, <3>2, AgreeForgets, Zenon
  <2> HIDE DEF r, q, found
  <2>6. startable' => startable /\ (c.key \notin diverged => Agree(live', replayed', c.key, now'))
    BY <1>3, <1>6, <1>14, <2>4, <2>5, Zenon
  <2>7. startable /\ ~startable' => Parted(c)
    BY <1>6, <1>14, <2>4, Zenon DEF Parted, found
  <2>8. Follows(c, {c.key})
    BY <1>6, <1>14, <2>2, <2>3, <2>6, <2>7, Zenon DEF Follows
  <2> QED
    BY <2>8
<1> QED
  BY <1>4, <1>5, <1>7, <1>8, <1>9, <1>10, <1>11, <1>12, <1>13, <1>14, CommandFacts

-----------------------------------------------------------------------------
(* Every command keeps the databases in agreement.                         *)
LEMMA ProcessCommandAInv ==
    ASSUME AInv, NEW c \in Commands, ProcessCommand(c)
    PROVE  AInv'
<1> DEFINE r == Execute(live, c, now)
<1>1. /\ IInv /\ Consistent(live) /\ ~live.loading /\ Consistent(replayed)
      /\ Full(live) /\ Full(replayed)
      /\ now \in Nat /\ now' \in Nat /\ now <= now'
  BY KeyspaceAssumption DEF AInv, IInv, ProcessCommand
<1>2. IInv'
  BY <1>1, ProcessCommandIInv
<1>3. Keeps(live, r.db) /\ Full(r.db)
  BY <1>1, ExecuteKeeps, ExecuteFull
<1>4. CASE ~r.modified
  <2>1. live' = r.db /\ UNCHANGED <<replayed, startable, diverged>>
    BY <1>4 DEF ProcessCommand
  <2>2. Forgets(live, live', now)
    BY <1>1, <1>4, <2>1, Unmodified
  <2>3. startable' => \A key \in Keys \ diverged' : Agree(live', replayed', key, now')
    <3> SUFFICES ASSUME startable, NEW key \in Keys \ diverged
                 PROVE  Agree(live', replayed, key, now')
      BY <2>1
    <3>1. Agree(live, replayed, key, now)
      BY DEF AInv
    <3> QED
      BY <1>1, <2>2, <3>1, AgreeForgets
  <2> QED
    BY <1>1, <1>2, <1>3, <2>1, <2>3 DEF AInv
<1>5. CASE r.modified
  <2>1. Full(live')
    <3>1. live' = r.db \/ live' = LookupKey(r.db, c.key, now')
      BY <1>1, <1>5, Logged, Zenon
    <3> HIDE DEF r
    <3>2. CASE live' = LookupKey(r.db, c.key, now')
      <4>1. Forgets(r.db, live', now')
        BY <1>1, <1>3, <3>2, LookupForgets DEF Keeps
      <4> QED
        BY <1>3, <4>1 DEF Full, Forgets, Same, Gone
    <3> QED
      BY <1>3, <3>1, <3>2
  <2>2. Full(replayed')
    <3> DEFINE record == Encode(c, live')
               first == First(replayed, record)
    <3>1. Consistent(live')
      BY <1>2 DEF IInv
    <3>2. record[1] \in Commands /\ (Len(record) # 1 => record[2] \in Commands)
      BY <3>1, EncodeFacts
    <3>3. replayed' = Last(replayed, record).db
      BY <1>1, <1>5, Logged, Zenon
    <3> HIDE DEF record
    <3>4. Consistent(first.db) /\ Full(first.db)
      BY <1>1, <3>2, ExecuteKeeps, ExecuteFull, Zenon DEF First, Replay, Keeps
    <3> HIDE DEF first
    <3>5. Len(record) # 1 => Full(Replay(first.db, record[2]).db)
      BY <3>2, <3>4, ExecuteFull DEF Replay
    <3> QED
      BY <3>3, <3>4, <3>5 DEF Last, first
  <2>3. PICK touched : Follows(c, touched)
    BY <1>5, Modified
  <2>4. startable' => \A key \in Keys \ diverged' : Agree(live', replayed', key, now')
    <3> SUFFICES ASSUME startable', NEW key \in Keys \ diverged'
                 PROVE  Agree(live', replayed', key, now')
      OBVIOUS
    <3>1. CASE key \in touched
      BY <2>3, <3>1 DEF Follows
    <3>2. CASE key \notin touched
      <4>1. /\ Same(live, key, live', key) /\ Same(replayed, key, replayed', key)
            /\ key \notin diverged
        BY <2>3, <3>2 DEF Follows
      <4>2. startable
        BY <1>1, <1>5, Logged
      <4>3. Agree(live, replayed, key, now)
        BY <4>1, <4>2 DEF AInv
      <4>4. Ttl(live, key) \in Nat /\ Ttl(replayed, key) \in Nat
        BY <1>1, TtlFacts
      <4> QED
        BY <1>1, <4>1, <4>3, <4>4 DEF Agree, Same, Gone, Lapsed
    <3> QED
      BY <3>1, <3>2
  <2> QED
    BY <1>2, <2>1, <2>2, <2>4 DEF AInv
<1> QED
  BY <1>4, <1>5

(* Active expiration takes keys whose time has come.                       *)
LEMMA ExpireSomeAInv ==
    ASSUME AInv, NEW sample \in SUBSET Keys, ExpireSome(sample)
    PROVE  AInv'
<1> DEFINE d == Without(live.dict, sample)
           e == Without(live.expires, sample)
           left == [dict |-> d, expires |-> e, loading |-> live.loading]
<1>1. /\ IInv /\ Consistent(live) /\ Consistent(replayed) /\ Full(live) /\ Full(replayed)
      /\ now \in Nat /\ UNCHANGED <<now, replayed, startable, diverged>>
  BY KeyspaceAssumption DEF AInv, IInv, ExpireSome
<1>2. live' = left
  BY <1>1, Zenon DEF ExpireSome, Consistent
<1>3. \A k : k \notin sample => Same(live, k, left, k)
  BY DEF Without, Same, Has, HasTtl, Ttl
<1>4. \A k : k \in sample => Gone(left, k)
  BY DEF Without, Gone, Has, HasTtl, Ttl
<1> HIDE DEF left
<1>5. \A k : k \in sample => Lapsed(live, k, now)
  <2>1. \A k \in sample : HasTtl(live, k) /\ live.expires[k] <= now
    BY DEF ExpireSome
  <2> QED
    BY <1>1, <2>1, TtlFacts DEF Lapsed, Ttl
<1>6. Forgets(live, live', now)
  BY <1>2, <1>3, <1>4, <1>5 DEF Forgets
<1>7. Full(live')
  BY <1>1, <1>6, Zenon DEF Full, Forgets, Same, Gone
<1>8. startable' => \A key \in Keys \ diverged' : Agree(live', replayed', key, now')
  <2> SUFFICES ASSUME startable, NEW key \in Keys \ diverged
               PROVE  Agree(live', replayed, key, now)
    BY <1>1
  <2>1. Agree(live, replayed, key, now)
    BY DEF AInv
  <2> QED
    BY <1>1, <1>6, <2>1, AgreeForgets
<1>9. IInv'
  BY <1>1, ExpireSomeIInv
<1> QED
  BY <1>1, <1>7, <1>8, <1>9 DEF AInv

(* A rewrite leaves out what is expired; the empty objects it leaves out   *)
(* as well have diverged.                                                  *)
LEMMA RewriteAInv ==
    ASSUME AInv, Rewrite
    PROVE  AInv'
<1> DEFINE skipped == {k \in DOMAIN live.dict : \/ IsKeyExpired(live, k, now)
                                                \/ live.dict[k].data = {}}
           d == Without(live.dict, skipped)
           e == Without(live.expires, skipped)
           log == [dict |-> d, expires |-> e, loading |-> TRUE]
<1>1. /\ IInv /\ Consistent(live) /\ ~live.loading /\ Full(live)
      /\ now \in Nat /\ UNCHANGED <<now, live>>
  BY KeyspaceAssumption DEF AInv, IInv, Rewrite
<1>2. replayed' = log /\ diverged' = {k \in DOMAIN live.dict : live.dict[k].data = {}}
  BY DEF Rewrite, Snapshot
<1>3. \A k : k \notin skipped => Same(live, k, log, k)
  <2> HIDE DEF skipped
  <2> QED
    BY DEF Without, Same, Has, HasTtl, Ttl
<1>4. \A k : k \in skipped => Gone(log, k)
  <2> HIDE DEF skipped
  <2> QED
    BY DEF Without, Gone, Has, HasTtl, Ttl
<1>5. \A k : k \in skipped \ diverged' => Lapsed(live, k, now)
  <2>1. \A k : k \in skipped \ diverged' => HasTtl(live, k) /\ live.expires[k] <= now
    BY <1>2 DEF IsKeyExpired
  <2> QED
    BY <1>1, <2>1, TtlFacts DEF Lapsed, Ttl
<1> HIDE DEF skipped, log
<1>6. \A key \in Keys \ diverged' : Agree(live, log, key, now)
  BY <1>3, <1>4, <1>5 DEF Agree
<1>7. Full(log)
  BY <1>1, <1>3, <1>4 DEF Full, Same, Gone
<1>8. IInv'
  BY <1>1, RewriteIInv
<1> QED
  BY <1>1, <1>2, <1>6, <1>7, <1>8 DEF AInv

(* A restart answers from what was replayed.                               *)
LEMMA RestartAInv ==
    ASSUME AInv, Restart
    PROVE  AInv'
<1> DEFINE left == [dict |-> replayed.dict, expires |-> replayed.expires, loading |-> FALSE]
<1>1. live' = left /\ replayed' = replayed
  BY Zenon DEF Restart, AInv, IInv, Consistent
<1>2. \A k : Same(left, k, replayed, k)
  BY DEF Same, Has, HasTtl, Ttl
<1> HIDE DEF left
<1>3. Full(live') /\ Full(replayed')
  BY <1>1, <1>2 DEF AInv, Full, Same
<1>4. \A key : Agree(live', replayed', key, now')
  BY <1>1, <1>2 DEF Agree
<1>5. IInv'
  BY RestartIInv DEF AInv
<1> QED
  BY <1>3, <1>4, <1>5 DEF AInv

(* The invariant is inductive.                                             *)
LEMMA NextAInv ==
    ASSUME AInv, [Next]_vars
    PROVE  AInv'
<1>1. CASE Tick
  <2>1. /\ IInv /\ Consistent(live) /\ Consistent(replayed)
        /\ now \in Nat /\ now' = now + 1 /\ UNCHANGED <<live, replayed, startable, diverged>>
    BY <1>1, KeyspaceAssumption DEF AInv, IInv, Tick
  <2>2. IInv'
    BY <1>1, <2>1, KeyspaceAssumption DEF Tick, IInv
  <2>3. Forgets(live, live, now)
    BY DEF Forgets, Same
  <2>4. startable => \A key \in Keys \ diverged : Agree(live, replayed, key, now')
    <3> SUFFICES ASSUME startable, NEW key \in Keys \ diverged
                 PROVE  Agree(live, replayed, key, now')
      OBVIOUS
    <3>1. Agree(live, replayed, key, now) /\ now' \in Nat /\ now <= now'
      BY <2>1 DEF AInv
    <3> QED
      BY <2>1, <2>3, <3>1, AgreeForgets
  <2> QED
    BY <2>1, <2>2, <2>4 DEF AInv
<1>2. CASE UNCHANGED vars
  BY <1>2 DEF AInv, vars, IInv
<1> QED
  BY <1>1, <1>2, ProcessCommandAInv, ExpireSomeAInv, RewriteAInv, RestartAInv DEF Next

(* The databases agree in every state of the server's life.                *)
THEOREM AInvHolds == Spec => []AInv
<1>1. Init => AInv
  <2> SUFFICES ASSUME Init PROVE AInv
    OBVIOUS
  <2>1. IInv
    BY InitIInv
  <2>2. \A k : ~Has(live, k) /\ ~Has(replayed, k) /\ Same(live, k, replayed, k)
    BY DEF Init, Empty, Has, HasTtl, Ttl, Same
  <2> QED
    BY <2>1, <2>2 DEF AInv, Full, Agree
<1>2. AInv /\ [Next]_vars => AInv'
  BY NextAInv
<1> QED
  BY <1>1, <1>2, PTL DEF Spec

(* What a client sees of a key follows from its entry.                     *)
LEMMA VisibleEntry ==
    ASSUME NEW db, Consistent(db), NEW key, now \in Nat
    PROVE  Visible(db, key) = IF Has(db, key) /\ ~Lapsed(db, key, now)
                              THEN <<db.dict[key], Ttl(db, key)>> ELSE <<>>
<1>1. Lapsed(db, key, now) <=> HasTtl(db, key) /\ db.expires[key] <= now
  BY TtlFacts DEF Lapsed, Ttl
<1> QED
  BY <1>1 DEF Visible, Ttl

(* Restarting from the log shows every key that has not diverged as the    *)
(* clients last saw it, whatever commands, expirations, rewrites and       *)
(* restarts came before: for every set of keys and elements.               *)
THEOREM ReplayCorrect == Spec => []ReplayAgrees
<1>1. AInv => ReplayAgrees
  <2> SUFFICES ASSUME AInv, startable PROVE ReplayAgrees
    BY DEF ReplayAgrees
  <2>1. /\ Consistent(live) /\ Consistent(replayed) /\ now \in Nat
        /\ \A key \in Keys \ diverged : Agree(live, replayed, key, now)
    BY KeyspaceAssumption DEF AInv, IInv
  <2>2. ASSUME NEW key \in Keys \ diverged
        PROVE  Visible(replayed, key) = Visible(live, key)
    <3>1. Agree(live, replayed, key, now)
      BY <2>1, SMTT(30)
    <3> QED
      BY <2>1, <3>1, VisibleEntry DEF Agree, Same, Gone, Lapsed
  <2>3. ASSUME NEW key \in DOMAIN replayed.dict \ (DOMAIN live.dict \cup diverged)
        PROVE  HasTtl(replayed, key) /\ replayed.expires[key] <= now
    <3>1. Agree(live, replayed, key, now) /\ Has(replayed, key) /\ ~Has(live, key)
      BY <2>1 DEF Consistent, IsDatabase, Has
    <3>2. Lapsed(replayed, key, now)
      BY <3>1 DEF Agree, Same, Gone
    <3> QED
      BY <2>1, <3>2, TtlFacts DEF Lapsed, Ttl
  <2> QED
    BY <2>2, <2>3 DEF ReplayAgrees
<1> QED
  BY <1>1, AInvHolds, PTL

(* Append writes no record that Replay refuses, except for a command on a  *)
(* key that had parted from its log, or for an addition or an LTRIM on a   *)
(* missing key whose expired predecessor, of another type, the log still   *)
(* has: whatever the keys, the elements and the bound on the clock.        *)
THEOREM LogStaysUsable == Spec => OnlyDivergedKeysBreakReplay
<1>1. AInv /\ [Next]_vars =>
        [startable /\ ~startable' => \E c \in Commands : Parted(c) /\ ProcessCommand(c)]_vars
  <2> SUFFICES ASSUME AInv, Next, startable, ~startable'
               PROVE  \E c \in Commands : Parted(c) /\ ProcessCommand(c)
    OBVIOUS
  <2>1. ASSUME NEW c \in Commands, ProcessCommand(c)
        PROVE  Parted(c)
    <3>1. CASE Execute(live, c, now).modified
      <4>1. PICK touched : Follows(c, touched)
        BY <2>1, <3>1, Modified
      <4> QED
        BY <4>1 DEF Follows
    <3>2. CASE ~Execute(live, c, now).modified
      <4>1. startable' = startable
        BY <2>1, <3>2, Zenon DEF ProcessCommand
      <4> QED
        BY <4>1
    <3> QED
      BY <3>1, <3>2
  <2>2. CASE Tick
    BY <2>2 DEF Tick
  <2>3. ASSUME NEW sample \in SUBSET Keys, ExpireSome(sample)
        PROVE  FALSE
    BY <2>3 DEF ExpireSome
  <2>4. CASE Rewrite
    BY <2>4 DEF Rewrite
  <2>5. CASE Restart
    BY <2>5 DEF Restart
  <2> QED
    BY <2>1, <2>2, <2>3, <2>4, <2>5, Zenon DEF Next
<1> QED
  BY <1>1, AInvHolds, PTL DEF Spec, OnlyDivergedKeysBreakReplay
=============================================================================

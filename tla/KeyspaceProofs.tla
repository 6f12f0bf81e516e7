---------------------------- MODULE KeyspaceProofs ----------------------------
(***************************************************************************)
(* For every set of keys and elements and every bound on the clock, both   *)
(* databases stay well formed and no expiration outlives its key.  The     *)
(* argument is one lemma per RedisDb method and one per command handler,   *)
(* so that it covers the live database and the one being replayed alike.   *)
(* A second set of lemmas says what each of them does to the entry of its  *)
(* key; ReplayCommands builds on those.                                    *)
(***************************************************************************)
EXTENDS Keyspace, TLAPS

(* A database value, well formed, whose expirations all have their key.    *)
Consistent(db) ==
    /\ db = [dict |-> db.dict, expires |-> db.expires, loading |-> db.loading]
    /\ IsDatabase(db)
    /\ db.loading \in BOOLEAN
    /\ DOMAIN db.expires \subseteq DOMAIN db.dict

(* What a handler must leave of a consistent database.                     *)
Keeps(db, left) == Consistent(left) /\ left.loading = db.loading

(* A database built from a well formed dict and expires is consistent.     *)
LEMMA Build ==
    ASSUME NEW d, NEW e, NEW l \in BOOLEAN,
           DOMAIN d \subseteq Keys, \A key \in DOMAIN d : d[key] \in Objects,
           DOMAIN e \subseteq DOMAIN d, \A key \in DOMAIN e : e[key] \in Times
    PROVE  /\ Consistent([dict |-> d, expires |-> e, loading |-> l])
           /\ [dict |-> d, expires |-> e, loading |-> l].loading = l
BY DEF Consistent, IsDatabase

(* DeleteKey removes the expiration with the key.                          *)
LEMMA DeleteKeeps ==
    ASSUME NEW db, NEW key, Consistent(db)
    PROVE  Keeps(db, DeleteKey(db, key))
<1> DEFINE d == Without(db.dict, {key})
           e == Without(db.expires, {key})
<1>1. CASE ~Has(db, key)
  BY <1>1 DEF DeleteKey, Keeps
<1>2. CASE Has(db, key)
  <2>1. DeleteKey(db, key) = [dict |-> d, expires |-> e, loading |-> db.loading]
    BY <1>2, Zenon DEF DeleteKey, Consistent
  <2>2. /\ DOMAIN d = DOMAIN db.dict \ {key} /\ \A x \in DOMAIN d : d[x] = db.dict[x]
        /\ DOMAIN e = DOMAIN db.expires \ {key} /\ \A x \in DOMAIN e : e[x] = db.expires[x]
    BY DEF Without
  <2> HIDE DEF d, e
  <2>3. Consistent([dict |-> d, expires |-> e, loading |-> db.loading])
    BY <2>2, Build DEF Consistent, IsDatabase
  <2> QED
    BY <2>1, <2>3 DEF Keeps
<1> QED
  BY <1>1, <1>2

(* Reading a key may delete it, and changes nothing else.                  *)
LEMMA LookupKeeps ==
    ASSUME NEW db, NEW key, NEW t, Consistent(db)
    PROVE  Keeps(db, LookupKey(db, key, t))
BY DeleteKeeps DEF LookupKey, Keeps

(* SetKey sets, removes or keeps the expiration of a key that is there.    *)
LEMMA SetKeeps ==
    ASSUME NEW db, Consistent(db), NEW key \in Keys, NEW object \in Objects,
           NEW expire \in {0} \cup Times, NEW keep_ttl \in BOOLEAN
    PROVE  Keeps(db, SetKey(db, key, object, expire, keep_ttl))
<1> DEFINE d == With(db.dict, key, object)
           e == CASE expire > 0 -> With(db.expires, key, expire)
                  [] expire = 0 /\ ~keep_ttl -> Without(db.expires, {key})
                  [] OTHER -> db.expires
<1>1. SetKey(db, key, object, expire, keep_ttl)
        = [dict |-> d, expires |-> e, loading |-> db.loading]
  <2>1. SetKey(db, key, object, expire, keep_ttl)
          = [db EXCEPT !.dict = d, !.expires = e]
    BY DEF SetKey
  <2> QED
    BY <2>1, Zenon DEF Consistent
<1>2. /\ DOMAIN d = DOMAIN db.dict \cup {key}
      /\ \A x \in DOMAIN d : d[x] = IF x = key THEN object ELSE db.dict[x]
  BY DEF With
<1>3. /\ DOMAIN e \subseteq DOMAIN db.expires \cup {key}
      /\ \A x \in DOMAIN e : e[x] \in Times
  <2>1. CASE expire > 0
    <3>1. e = With(db.expires, key, expire) /\ expire \in Times
      BY <2>1
    <3>2. /\ DOMAIN e = DOMAIN db.expires \cup {key}
          /\ \A x \in DOMAIN e : e[x] = IF x = key THEN expire ELSE db.expires[x]
      BY <3>1 DEF With
    <3> QED
      BY <3>1, <3>2, SMTT(30) DEF Consistent, IsDatabase
  <2>2. CASE expire = 0 /\ ~keep_ttl
    <3>1. e = Without(db.expires, {key})
      BY <2>2
    <3>2. DOMAIN e = DOMAIN db.expires \ {key} /\ \A x \in DOMAIN e : e[x] = db.expires[x]
      BY <3>1 DEF Without
    <3> QED
      BY <3>2, Zenon DEF Consistent, IsDatabase
  <2>3. CASE expire = 0 /\ keep_ttl
    <3>1. e = db.expires
      BY <2>3
    <3> QED
      BY <3>1 DEF Consistent, IsDatabase
  <2> QED
    BY <2>1, <2>2, <2>3, KeyspaceAssumption DEF Times
<1> HIDE DEF d, e
<1>4. Consistent([dict |-> d, expires |-> e, loading |-> db.loading])
  BY <1>2, <1>3, Build DEF Consistent, IsDatabase
<1> QED
  BY <1>1, <1>4 DEF Keeps

(* An expiration is given only to a key that is there.                     *)
LEMMA ExpireKeeps ==
    ASSUME NEW db, Consistent(db), NEW key, Has(db, key), NEW expire \in Times, NEW t
    PROVE  Keeps(db, ExpireKeyAt(db, key, expire, t))
<1> DEFINE e == With(db.expires, key, expire)
<1>1. CASE ~db.loading /\ expire <= t
  BY <1>1, DeleteKeeps DEF ExpireKeyAt
<1>2. CASE ~(~db.loading /\ expire <= t)
  <2>1. ExpireKeyAt(db, key, expire, t)
          = [dict |-> db.dict, expires |-> e, loading |-> db.loading]
    BY <1>2 DEF ExpireKeyAt, Consistent
  <2>2. /\ DOMAIN e = DOMAIN db.expires \cup {key}
        /\ \A x \in DOMAIN e : e[x] = IF x = key THEN expire ELSE db.expires[x]
    BY DEF With
  <2> HIDE DEF e
  <2>3. Consistent([dict |-> db.dict, expires |-> e, loading |-> db.loading])
    BY <2>2, Build DEF Consistent, IsDatabase, Has
  <2> QED
    BY <2>1, <2>3 DEF Keeps
<1> QED
  BY <1>1, <1>2

(* PersistKey forgets one expiration.                                      *)
LEMMA PersistKeeps ==
    ASSUME NEW db, Consistent(db), NEW key
    PROVE  Keeps(db, [db EXCEPT !.expires = Without(@, {key})])
<1> DEFINE e == Without(db.expires, {key})
<1>1. [db EXCEPT !.expires = Without(@, {key})]
        = [dict |-> db.dict, expires |-> e, loading |-> db.loading]
  BY DEF Consistent
<1>2. DOMAIN e = DOMAIN db.expires \ {key} /\ \A x \in DOMAIN e : e[x] = db.expires[x]
  BY DEF Without
<1> HIDE DEF e
<1>3. Consistent([dict |-> db.dict, expires |-> e, loading |-> db.loading])
  BY <1>2, Build DEF Consistent, IsDatabase
<1> QED
  BY <1>1, <1>3 DEF Keeps

(* A handler that replaces the object of a key leaves the expirations.     *)
LEMMA ReplaceKeeps ==
    ASSUME NEW db, Consistent(db), NEW key \in Keys, NEW object \in Objects
    PROVE  Keeps(db, [db EXCEPT !.dict = With(@, key, object)])
<1> DEFINE d == With(db.dict, key, object)
<1>1. [db EXCEPT !.dict = With(@, key, object)]
        = [dict |-> d, expires |-> db.expires, loading |-> db.loading]
  BY DEF Consistent
<1>2. /\ DOMAIN d = DOMAIN db.dict \cup {key}
      /\ \A x \in DOMAIN d : d[x] = IF x = key THEN object ELSE db.dict[x]
  BY DEF With
<1> HIDE DEF d
<1>3. Consistent([dict |-> d, expires |-> db.expires, loading |-> db.loading])
  BY <1>2, Build DEF Consistent, IsDatabase
<1> QED
  BY <1>1, <1>3 DEF Keeps

(* RenameKey moves the expiration with the object, or removes the target's.*)
LEMMA RenameKeeps ==
    ASSUME NEW db, Consistent(db), NEW key \in Keys, Has(db, key), NEW to \in Keys
    PROVE  Keeps(db, RenameKey(db, key, to))
<1> DEFINE d == With(Without(db.dict, {key}), to, db.dict[key])
           moved == [dict |-> d, expires |-> db.expires, loading |-> db.loading]
<1>1. moved = [db EXCEPT !.dict = With(Without(@, {key}), to, db.dict[key])]
  BY DEF Consistent
<1>2. /\ DOMAIN d = (DOMAIN db.dict \ {key}) \cup {to}
      /\ \A x \in DOMAIN d : d[x] \in Objects
  BY DEF With, Without, Consistent, IsDatabase, Has
<1>3. ASSUME NEW e, DOMAIN e \subseteq (DOMAIN db.expires \ {key}) \cup {to},
             \A x \in DOMAIN e : e[x] \in Times
      PROVE  Keeps(db, [dict |-> d, expires |-> e, loading |-> db.loading])
  <2> HIDE DEF d
  <2>1. Consistent([dict |-> d, expires |-> e, loading |-> db.loading])
    BY <1>2, <1>3, Build DEF Consistent, IsDatabase
  <2> QED
    BY <2>1 DEF Keeps
<1>4. CASE HasTtl(db, key)
  <2> DEFINE e == With(Without(db.expires, {key}), to, db.expires[key])
  <2>1. RenameKey(db, key, to) = [dict |-> d, expires |-> e, loading |-> db.loading]
    BY <1>1, <1>4, Zenon DEF RenameKey
  <2>2. /\ DOMAIN e = (DOMAIN db.expires \ {key}) \cup {to}
        /\ \A x \in DOMAIN e : e[x] \in Times
    BY <1>4 DEF With, Without, Consistent, IsDatabase, HasTtl
  <2> QED
    BY <1>3, <2>1, <2>2
<1>5. CASE ~HasTtl(db, key)
  <2> DEFINE e == Without(db.expires, {key, to})
  <2>1. RenameKey(db, key, to) = [dict |-> d, expires |-> e, loading |-> db.loading]
    BY <1>1, <1>5, Zenon DEF RenameKey
  <2>2. /\ DOMAIN e = DOMAIN db.expires \ {key, to}
        /\ \A x \in DOMAIN e : e[x] \in Times
    BY DEF Without, Consistent, IsDatabase
  <2> QED
    BY <1>3, <2>1, <2>2, Zenon
<1> QED
  BY <1>4, <1>5

-----------------------------------------------------------------------------
(* The fields of a command.                                                *)
LEMMA CommandFacts ==
    ASSUME NEW c \in Commands
    PROVE  /\ c.op \in {"SET", "ADD", "REMOVE", "TRIM", "PEXPIREAT", "RENAME", "DEL",
                        "UNLINK", "PERSIST", "GET", "FLUSHDB"}
           /\ c.op # "FLUSHDB" => c.key \in Keys
           /\ c.op = "SET" => /\ c.piece \in Elements /\ c.expire \in {0} \cup Times
                              /\ c.keep_ttl \in BOOLEAN
           /\ c.op \in {"ADD", "REMOVE"} => c.type \in Types /\ c.element \in Elements
           /\ c.op = "TRIM" => c.type = "list" /\ c.kept \in SUBSET Elements
           /\ c.op = "PEXPIREAT" => c.expire \in Times
           /\ c.op = "RENAME" => c.to \in Keys
BY Zenon DEF Commands

(* The handlers that find or create an object and change what it holds.    *)
LEMMA AddRemoveKeep ==
    ASSUME NEW db, Consistent(db), NEW t, NEW c, c.key \in Keys, c.type \in Types,
           c.element \in Elements
    PROVE  /\ Keeps(db, HandleAdd(db, c, t).db) /\ HandleAdd(db, c, t).error \in BOOLEAN
           /\ Keeps(db, HandleRemove(db, c, t).db) /\ HandleRemove(db, c, t).error \in BOOLEAN
<1> DEFINE found == LookupKey(db, c.key, t)
           old == found.dict[c.key]
           more == [old EXCEPT !.data = @ \cup {c.element}]
           rest == [old EXCEPT !.data = @ \ {c.element}]
           new == [type |-> c.type, data |-> {c.element}]
<1>1. Keeps(db, found)
  BY LookupKeeps
<1>2. new \in Objects
  BY SMTT(30) DEF Objects
<1>3. Has(found, c.key) => more \in Objects /\ rest \in Objects
  BY <1>1 DEF Keeps, Consistent, IsDatabase, Has, Objects
<1>4. Keeps(db, SetKey(found, c.key, new, 0, FALSE))
  <2> HIDE DEF found, new
  <2>1. Keeps(found, SetKey(found, c.key, new, 0, FALSE))
    BY <1>1, <1>2, SetKeeps, ZenonT(30) DEF Keeps
  <2> QED
    BY <1>1, <2>1, Zenon DEF Keeps
<1>5. Has(found, c.key) => /\ Keeps(db, [found EXCEPT !.dict = With(@, c.key, more)])
                           /\ Keeps(db, [found EXCEPT !.dict = With(@, c.key, rest)])
  <2> HIDE DEF found, more, rest
  <2> QED
    BY <1>1, <1>3, ReplaceKeeps DEF Keeps
<1>6. Keeps(db, DeleteKey(found, c.key))
  BY <1>1, DeleteKeeps DEF Keeps
<1> HIDE DEF found
<1>7. /\ HandleAdd(db, c, t).db \in
           {found, SetKey(found, c.key, new, 0, FALSE)}
           \cup (IF Has(found, c.key) THEN {[found EXCEPT !.dict = With(@, c.key, more)]} ELSE {})
      /\ HandleAdd(db, c, t).error \in BOOLEAN
  BY Zenon DEF HandleAdd, Ok, Error, found
<1>8. /\ HandleRemove(db, c, t).db \in
           {found, DeleteKey(found, c.key)}
           \cup (IF Has(found, c.key) THEN {[found EXCEPT !.dict = With(@, c.key, rest)]} ELSE {})
      /\ HandleRemove(db, c, t).error \in BOOLEAN
  BY Zenon DEF HandleRemove, Shrink, Ok, Error, found
<1> QED
  BY <1>1, <1>4, <1>5, <1>6, <1>7, <1>8, Zenon

(* LTRIM keeps some of the elements, and the key unless none is left.      *)
LEMMA TrimKeeps ==
    ASSUME NEW db, Consistent(db), NEW t, NEW c, c.key \in Keys
    PROVE  Keeps(db, HandleTrim(db, c, t).db) /\ HandleTrim(db, c, t).error \in BOOLEAN
<1> DEFINE found == LookupKey(db, c.key, t)
           old == found.dict[c.key]
           rest == [old EXCEPT !.data = @ \cap c.kept]
<1>1. Keeps(db, found)
  BY LookupKeeps
<1>2. Has(found, c.key) => rest \in Objects
  BY <1>1 DEF Keeps, Consistent, IsDatabase, Has, Objects
<1>3. Has(found, c.key) => Keeps(db, [found EXCEPT !.dict = With(@, c.key, rest)])
  <2> HIDE DEF found, rest
  <2> QED
    BY <1>1, <1>2, ReplaceKeeps DEF Keeps
<1>4. Keeps(db, DeleteKey(found, c.key))
  BY <1>1, DeleteKeeps DEF Keeps
<1> HIDE DEF found
<1>5. /\ HandleTrim(db, c, t).db \in
           {found, DeleteKey(found, c.key)}
           \cup (IF Has(found, c.key) THEN {[found EXCEPT !.dict = With(@, c.key, rest)]} ELSE {})
      /\ HandleTrim(db, c, t).error \in BOOLEAN
  BY Zenon DEF HandleTrim, Shrink, Ok, Error, found
<1> QED
  BY <1>1, <1>3, <1>4, <1>5, Zenon

(* Every handler leaves a consistent database, on the live and on the      *)
(* replayed side.                                                          *)
LEMMA ExecuteKeeps ==
    ASSUME NEW db, Consistent(db), NEW c \in Commands, NEW t
    PROVE  Keeps(db, Execute(db, c, t).db) /\ Execute(db, c, t).error \in BOOLEAN
<1> DEFINE found == LookupKey(db, c.key, t)
           Good(r) == Keeps(db, r.db) /\ r.error \in BOOLEAN
<1>0. Keeps(db, found)
  BY LookupKeeps
<1>1. CASE c.op = "SET"
  <2>1. Execute(db, c, t) = HandleSet(db, c)
    BY <1>1 DEF Execute
  <2>2. [type |-> "string", data |-> {c.piece}] \in Objects
    BY <1>1, CommandFacts DEF Objects, Types
  <2>3. Keeps(db, SetKey(db, c.key, [type |-> "string", data |-> {c.piece}], c.expire, c.keep_ttl))
    BY <1>1, <2>2, CommandFacts, SetKeeps, Zenon
  <2> QED
    BY <2>1, <2>3 DEF HandleSet, Ok
<1>2. CASE c.op = "ADD"
  <2>1. Execute(db, c, t) = HandleAdd(db, c, t)
    BY <1>2 DEF Execute
  <2> QED
    BY <1>2, <2>1, CommandFacts, AddRemoveKeep
<1>3. CASE c.op = "REMOVE"
  <2>1. Execute(db, c, t) = HandleRemove(db, c, t)
    BY <1>3 DEF Execute
  <2> QED
    BY <1>3, <2>1, CommandFacts, AddRemoveKeep
<1>4. CASE c.op = "DEL"
  <2>1. Execute(db, c, t) = HandleDel(db, c)
    BY <1>4 DEF Execute
  <2> QED
    BY <2>1, DeleteKeeps DEF HandleDel, Ok
<1>5. CASE c.op = "UNLINK"
  <2>1. Execute(db, c, t) = HandleUnlink(db, c, t)
    BY <1>5 DEF Execute
  <2> QED
    BY <2>1, DeleteKeeps DEF HandleUnlink, Ok
<1>6. CASE c.op = "PEXPIREAT"
  <2>1. Execute(db, c, t) = HandlePExpireAt(db, c, t)
    BY <1>6 DEF Execute
  <2>2. Has(found, c.key) => Keeps(db, ExpireKeyAt(found, c.key, c.expire, t))
    BY <1>0, <1>6, CommandFacts, ExpireKeeps DEF Keeps
  <2> QED
    BY <1>0, <2>1, <2>2 DEF HandlePExpireAt, Ok
<1>7. CASE c.op = "PERSIST"
  <2>1. Execute(db, c, t) = HandlePersist(db, c, t)
    BY <1>7 DEF Execute
  <2>2. Keeps(db, [found EXCEPT !.expires = Without(@, {c.key})])
    BY <1>0, PersistKeeps, Zenon DEF Keeps
  <2> QED
    BY <1>0, <2>1, <2>2 DEF HandlePersist, Ok
<1>8. CASE c.op = "RENAME"
  <2>1. Execute(db, c, t) = HandleRename(db, c, t)
    BY <1>8 DEF Execute
  <2>2. Has(found, c.key) => Keeps(db, RenameKey(found, c.key, c.to))
    BY <1>0, <1>8, CommandFacts, RenameKeeps DEF Keeps
  <2> QED
    BY <1>0, <2>1, <2>2 DEF HandleRename, Ok, Error
<1>9. CASE c.op = "GET"
  <2>1. Execute(db, c, t) = Ok(found, FALSE)
    BY <1>9 DEF Execute
  <2> QED
    BY <1>0, <2>1 DEF Ok
<1>10. CASE c.op = "FLUSHDB"
  <2>1. Execute(db, c, t) = Ok(Empty(db.loading), DOMAIN db.dict # {})
    BY <1>10 DEF Execute
  <2>2. Keeps(db, Empty(db.loading))
    BY DEF Empty, Keeps, Consistent, IsDatabase
  <2> QED
    BY <2>1, <2>2 DEF Ok
<1>11. CASE c.op = "TRIM"
  <2>1. Execute(db, c, t) = HandleTrim(db, c, t)
    BY <1>11 DEF Execute
  <2> QED
    BY <1>11, <2>1, CommandFacts, TrimKeeps
<1> QED
  BY <1>1, <1>2, <1>3, <1>4, <1>5, <1>6, <1>7, <1>8, <1>9, <1>10, <1>11, CommandFacts

(* Aof::Encode writes commands.                                            *)
LEMMA EncodeFacts ==
    ASSUME NEW db, Consistent(db), NEW c \in Commands
    PROVE  /\ Encode(c, db)[1] \in Commands
           /\ Len(Encode(c, db)) # 1 => Encode(c, db)[2] \in Commands
<1>1. ASSUME NEW key \in Keys PROVE Del(key) \in Commands
  BY Zenon DEF Commands, Del
<1>2. ASSUME NEW key \in Keys, NEW piece \in Elements PROVE Set(key, piece) \in Commands
  BY DEF Commands, Set
<1>3. ASSUME NEW key \in Keys, HasTtl(db, key) PROVE PExpireAt(key, db.expires[key]) \in Commands
  BY <1>3, Zenon DEF Commands, PExpireAt, Consistent, IsDatabase, HasTtl
<1> DEFINE set == Set(c.key, c.piece)
           expire == PExpireAt(c.key, db.expires[c.key])
           del == Del(c.key)
<1>4. CASE c.op = "SET"
  <2>1. set \in Commands /\ del \in Commands /\ (HasTtl(db, c.key) => expire \in Commands)
    BY <1>1, <1>2, <1>3, <1>4, CommandFacts
  <2>2. \/ Encode(c, db) = <<del>> \/ Encode(c, db) = <<set>>
        \/ HasTtl(db, c.key) /\ Encode(c, db) = <<set, expire>>
    BY <1>4 DEF Encode
  <2> HIDE DEF set, expire, del
  <2> QED
    BY <2>1, <2>2
<1>5. CASE c.op = "PEXPIREAT"
  <2>1. del \in Commands /\ (HasTtl(db, c.key) => expire \in Commands)
    BY <1>1, <1>3, <1>5, CommandFacts
  <2>2. \/ Encode(c, db) = <<del>>
        \/ HasTtl(db, c.key) /\ Encode(c, db) = <<expire>>
    BY <1>5 DEF Encode
  <2> HIDE DEF expire, del
  <2> QED
    BY <2>1, <2>2
<1>6. CASE c.op \notin {"SET", "PEXPIREAT"}
  <2>1. Encode(c, db) = <<c>>
    BY <1>6 DEF Encode
  <2> QED
    BY <2>1
<1> QED
  BY <1>4, <1>5, <1>6

-----------------------------------------------------------------------------
(* The inductive invariant: both databases are consistent, and only the    *)
(* replayed one is loading.                                                *)
IInv ==
    /\ now \in 0..MaxTime
    /\ Consistent(live) /\ live.loading = FALSE
    /\ Consistent(replayed) /\ replayed.loading = TRUE
    /\ startable \in BOOLEAN
    /\ diverged \subseteq Keys

(* The server starts with two empty databases.                             *)
LEMMA InitIInv == Init => IInv
BY KeyspaceAssumption DEF Init, IInv, Empty, Consistent, IsDatabase

(* The keys of the history are keys.                                       *)
LEMMA DivergesFacts ==
    ASSUME NEW c \in Commands, NEW before, diverged \subseteq Keys
    PROVE  Diverges(c, before) \subseteq Keys
BY CommandFacts DEF Diverges

(* Executing a command, logging it and replaying the record keep IInv.     *)
LEMMA ProcessCommandIInv ==
    ASSUME IInv, NEW c \in Commands, ProcessCommand(c)
    PROVE  IInv'
<1> DEFINE result == Execute(live, c, now)
           settled == IF c.op = "SET" THEN LookupKey(result.db, c.key, now') ELSE result.db
           record == Encode(c, settled)
           first == Replay(replayed, record[1])
           last == IF Len(record) = 1 THEN first ELSE Replay(first.db, record[2])
<1>1. now' \in 0..MaxTime
  BY KeyspaceAssumption DEF ProcessCommand, IInv
<1>2. Keeps(live, result.db)
  BY ExecuteKeeps DEF IInv
<1>3. Keeps(live, settled)
  <2> HIDE DEF result
  <2> QED
    BY <1>2, LookupKeeps DEF Keeps
<1> HIDE DEF settled
<1>4. record[1] \in Commands /\ (Len(record) # 1 => record[2] \in Commands)
  BY <1>3, EncodeFacts DEF Keeps
<1> HIDE DEF record
<1>5. Keeps(replayed, first.db) /\ first.error \in BOOLEAN
  BY <1>4, ExecuteKeeps DEF Replay, IInv
<1> HIDE DEF first
<1>6. Keeps(replayed, last.db) /\ last.error \in BOOLEAN
  BY <1>4, <1>5, ExecuteKeeps DEF Replay, Keeps
<1> HIDE DEF last
<1>7. CASE ~result.modified
  BY <1>1, <1>2, <1>7 DEF ProcessCommand, IInv, Keeps
<1>8. CASE result.modified
  <2>0. /\ live' = settled /\ AppendRecord(Encode(c, live'))
        /\ diverged' = Diverges(c, LookupKey(live, c.key, now))
    BY <1>8 DEF ProcessCommand, settled
  <2>1. /\ replayed' = last.db
        /\ startable' = (startable /\ ~first.error /\ ~last.error)
    BY <2>0 DEF AppendRecord, record, first, last
  <2>2. diverged' \subseteq Keys
    BY <2>0, DivergesFacts DEF IInv
  <2> QED
    BY <1>1, <1>3, <1>5, <1>6, <2>0, <2>1, <2>2 DEF IInv, Keeps
<1> QED
  BY <1>7, <1>8

(* Active expiration removes keys with their expirations.                  *)
LEMMA ExpireSomeIInv ==
    ASSUME IInv, NEW sample \in SUBSET Keys, ExpireSome(sample)
    PROVE  IInv'
<1> DEFINE d == Without(live.dict, sample)
           e == Without(live.expires, sample)
<1>1. live' = [dict |-> d, expires |-> e, loading |-> FALSE]
  BY Zenon DEF ExpireSome, IInv, Consistent
<1>2. /\ DOMAIN d = DOMAIN live.dict \ sample /\ \A x \in DOMAIN d : d[x] = live.dict[x]
      /\ DOMAIN e = DOMAIN live.expires \ sample /\ \A x \in DOMAIN e : e[x] = live.expires[x]
  BY DEF Without
<1> HIDE DEF d, e
<1>3. Consistent([dict |-> d, expires |-> e, loading |-> FALSE])
  BY <1>2, Build DEF IInv, Consistent, IsDatabase
<1> QED
  BY <1>1, <1>3, Zenon DEF ExpireSome, IInv

(* A rewrite leaves out the same keys of dict and expires.                 *)
LEMMA RewriteIInv ==
    ASSUME IInv, Rewrite
    PROVE  IInv'
<1> DEFINE skipped == {k \in DOMAIN live.dict : \/ IsKeyExpired(live, k, now)
                                                \/ live.dict[k].data = {}}
           d == Without(live.dict, skipped)
           e == Without(live.expires, skipped)
<1>1. replayed' = [dict |-> d, expires |-> e, loading |-> TRUE]
  BY DEF Rewrite, Snapshot
<1> HIDE DEF skipped
<1>2. /\ DOMAIN d = DOMAIN live.dict \ skipped /\ \A x \in DOMAIN d : d[x] = live.dict[x]
      /\ DOMAIN e = DOMAIN live.expires \ skipped /\ \A x \in DOMAIN e : e[x] = live.expires[x]
  BY DEF Without
<1> HIDE DEF d, e
<1>3. Consistent([dict |-> d, expires |-> e, loading |-> TRUE])
  BY <1>2, Build DEF IInv, Consistent, IsDatabase
<1>4. diverged' \subseteq Keys
  BY DEF Rewrite, IInv, Consistent, IsDatabase
<1> QED
  BY <1>1, <1>3, <1>4 DEF Rewrite, IInv

(* A restart takes over the replayed database.                             *)
LEMMA RestartIInv ==
    ASSUME IInv, Restart
    PROVE  IInv'
<1>1. live' = [dict |-> replayed.dict, expires |-> replayed.expires, loading |-> FALSE]
  BY Zenon DEF Restart, IInv, Consistent
<1>2. Consistent([dict |-> replayed.dict, expires |-> replayed.expires, loading |-> FALSE])
  BY Build DEF IInv, Consistent, IsDatabase
<1> QED
  BY <1>1, <1>2, Zenon DEF Restart, IInv

(* IInv is preserved by every step and so holds in every state.            *)
THEOREM IInvHolds == Spec => []IInv
<1>1. IInv /\ [Next]_vars => IInv'
  <2> SUFFICES ASSUME IInv, [Next]_vars PROVE IInv'
    OBVIOUS
  <2>1. CASE Tick
    BY <2>1, KeyspaceAssumption DEF Tick, IInv
  <2>2. CASE UNCHANGED vars
    BY <2>2 DEF vars, IInv
  <2> QED
    BY <2>1, <2>2, ProcessCommandIInv, ExpireSomeIInv, RewriteIInv, RestartIInv DEF Next
<1> QED
  BY <1>1, InitIInv, PTL DEF Spec

(* Both databases stay well formed, and replay never leaves loading mode   *)
(* on the database that serves clients.                                    *)
THEOREM TypeCorrect == Spec => []TypeOK
<1>1. IInv => TypeOK
  BY DEF IInv, TypeOK, Consistent
<1> QED
  BY <1>1, IInvHolds, PTL

(* No expiration outlives its key in dict_, through SET with KEEPTTL,      *)
(* RENAME onto a key with an expiration, lazy and active expiration, FLUSHDB,*)
(* replay, rewrite and restart.                                            *)
THEOREM TtlHasKey == Spec => []NoOrphanTtl
<1>1. IInv => NoOrphanTtl
  BY DEF IInv, NoOrphanTtl, Consistent
<1> QED
  BY <1>1, IInvHolds, PTL

-----------------------------------------------------------------------------
(* What every RedisDb method and every command handler does to the entry   *)
(* of its key, and that it leaves the entries of all other keys alone.     *)

Ttl(db, key) == IF HasTtl(db, key) THEN db.expires[key] ELSE 0

(* The entry of key in db is that of to in other.                          *)
Same(db, key, other, to) ==
    /\ Has(db, key) <=> Has(other, to)
    /\ Has(db, key) => db.dict[key] = other.dict[to]
    /\ Ttl(db, key) = Ttl(other, to)

Lapsed(db, key, t) == Ttl(db, key) > 0 /\ Ttl(db, key) <= t

Gone(db, key) == ~Has(db, key) /\ Ttl(db, key) = 0

(* A list or hash is there only while it holds something.                  *)
Full(db) ==
    \A key : Has(db, key) => ~(db.dict[key].type = "list" /\ db.dict[key].data = {})

-----------------------------------------------------------------------------
(* An expiration is a positive time, of a key that is there.               *)
LEMMA TtlFacts ==
    ASSUME NEW db, Consistent(db), NEW key
    PROVE  /\ Ttl(db, key) \in Nat /\ Ttl(db, key) <= MaxTime
           /\ HasTtl(db, key) <=> Ttl(db, key) > 0
           /\ ~Has(db, key) => Gone(db, key)
BY KeyspaceAssumption DEF Consistent, IsDatabase, Ttl, HasTtl, Has, Times, Gone

(* DeleteKey takes its key away and no other.                              *)
LEMMA DeleteEntry ==
    ASSUME NEW db, Consistent(db), NEW key
    PROVE  /\ Gone(DeleteKey(db, key), key)
           /\ \A k : k # key => Same(db, k, DeleteKey(db, key), k)
<1>1. CASE ~Has(db, key)
  BY <1>1, TtlFacts DEF DeleteKey, Same
<1>2. CASE Has(db, key)
  <2>1. DeleteKey(db, key) = [dict |-> Without(db.dict, {key}),
                              expires |-> Without(db.expires, {key}),
                              loading |-> db.loading]
    BY <1>2, Zenon DEF DeleteKey, Consistent
  <2> QED
    BY <2>1 DEF Gone, Same, Has, HasTtl, Ttl, Without
<1> QED
  BY <1>1, <1>2

(* A lookup takes its key away exactly when it is expired.                 *)
LEMMA LookupEntry ==
    ASSUME NEW db, Consistent(db), NEW key, NEW t \in Nat
    PROVE  /\ ~db.loading /\ Lapsed(db, key, t) => Gone(LookupKey(db, key, t), key)
           /\ db.loading \/ ~Lapsed(db, key, t) => LookupKey(db, key, t) = db
           /\ \A k : k # key => Same(db, k, LookupKey(db, key, t), k)
<1>1. IsKeyExpired(db, key, t) <=> ~db.loading /\ Lapsed(db, key, t)
  BY TtlFacts DEF IsKeyExpired, Lapsed, Ttl
<1>2. Lapsed(db, key, t) => Has(db, key)
  BY TtlFacts DEF Lapsed, Gone
<1>3. CASE IsKeyExpired(db, key, t)
  BY <1>1, <1>2, <1>3, DeleteEntry DEF LookupKey, Consistent
<1>4. CASE ~IsKeyExpired(db, key, t)
  BY <1>1, <1>4 DEF LookupKey, Consistent, Same
<1> QED
  BY <1>3, <1>4

(* The object of one key is written and no other entry changes.            *)
Writes(db, left, key, object) ==
    /\ Has(left, key) /\ left.dict[key] = object
    /\ \A k : k # key => Same(db, k, left, k)

(* SetKey writes the object, and the expiration by its arguments.          *)
LEMMA SetEntry ==
    ASSUME NEW db, Consistent(db), NEW key, NEW object,
           NEW expire \in Nat, NEW keep_ttl \in BOOLEAN
    PROVE  /\ Writes(db, SetKey(db, key, object, expire, keep_ttl), key, object)
           /\ expire > 0 => Ttl(SetKey(db, key, object, expire, keep_ttl), key) = expire
           /\ (expire = 0 /\ keep_ttl) =>
                 Ttl(SetKey(db, key, object, expire, keep_ttl), key) = Ttl(db, key)
           /\ (expire = 0 /\ ~keep_ttl) =>
                 Ttl(SetKey(db, key, object, expire, keep_ttl), key) = 0
<1> DEFINE d == With(db.dict, key, object)
           e == CASE expire > 0 -> With(db.expires, key, expire)
                  [] expire = 0 /\ ~keep_ttl -> Without(db.expires, {key})
                  [] OTHER -> db.expires
           left == [dict |-> d, expires |-> e, loading |-> db.loading]
<1>1. SetKey(db, key, object, expire, keep_ttl) = left
  <2>1. SetKey(db, key, object, expire, keep_ttl)
          = [db EXCEPT !.dict = d, !.expires = e]
    BY DEF SetKey
  <2> QED
    BY <2>1, Zenon DEF Consistent
<1>2. /\ DOMAIN d = DOMAIN db.dict \cup {key}
      /\ \A x \in DOMAIN d : d[x] = IF x = key THEN object ELSE db.dict[x]
  BY DEF With
<1>3. /\ expire > 0 => Ttl(left, key) = expire
      /\ (expire = 0 /\ keep_ttl) => Ttl(left, key) = Ttl(db, key)
      /\ (expire = 0 /\ ~keep_ttl) => Ttl(left, key) = 0
      /\ \A k : k # key => Ttl(left, k) = Ttl(db, k)
  <2> HIDE DEF d
  <2>1. CASE expire > 0
    <3>1. e = With(db.expires, key, expire)
      BY <2>1
    <3> QED
      BY <2>1, <3>1 DEF With, Ttl, HasTtl
  <2>2. CASE expire = 0 /\ ~keep_ttl
    <3>1. e = Without(db.expires, {key})
      BY <2>2
    <3> QED
      BY <2>2, <3>1 DEF Without, Ttl, HasTtl
  <2>3. CASE expire = 0 /\ keep_ttl
    <3>1. e = db.expires
      BY <2>3
    <3> QED
      BY <2>3, <3>1 DEF Ttl, HasTtl
  <2> QED
    BY <2>1, <2>2, <2>3
<1>4. left.dict = d
  OBVIOUS
<1> HIDE DEF d, e, left
<1> QED
  BY <1>1, <1>2, <1>3, <1>4 DEF Has, Same, Writes

(* A key set with the default arguments has no expiration.                 *)
LEMMA CreateEntry ==
    ASSUME NEW db, Consistent(db), NEW key, NEW object
    PROVE  LET left == SetKey(db, key, object, 0, FALSE)
           IN  /\ Has(left, key) /\ left.dict[key] = object /\ Ttl(left, key) = 0
               /\ \A k : k # key => Same(db, k, left, k)
<1> DEFINE left == [dict |-> With(db.dict, key, object),
                    expires |-> Without(db.expires, {key}), loading |-> db.loading]
<1>1. SetKey(db, key, object, 0, FALSE) = left
  <2>1. SetKey(db, key, object, 0, FALSE)
          = [db EXCEPT !.dict = With(db.dict, key, object),
                       !.expires = Without(db.expires, {key})]
    BY DEF SetKey
  <2> QED
    BY <2>1, Zenon DEF Consistent
<1>2. /\ Has(left, key) /\ left.dict[key] = object /\ Ttl(left, key) = 0
      /\ \A k : k # key => Same(db, k, left, k)
  BY DEF With, Without, Has, HasTtl, Ttl, Same
<1> QED
  BY <1>1, <1>2, Zenon

(* Giving a key an expiration, or taking it away, changes nothing else.    *)
Given(db, key, expire) == [db EXCEPT !.expires = With(@, key, expire)]

Taken(db, key) == [db EXCEPT !.expires = Without(@, {key})]

(* What the two leave of the entries.                                      *)
LEMMA TtlEntry ==
    ASSUME NEW db, Consistent(db), NEW key, NEW expire
    PROVE  /\ Given(db, key, expire).dict = db.dict /\ Ttl(Given(db, key, expire), key) = expire
           /\ \A k : k # key => Same(db, k, Given(db, key, expire), k)
           /\ Taken(db, key).dict = db.dict /\ Ttl(Taken(db, key), key) = 0
           /\ \A k : k # key => Same(db, k, Taken(db, key), k)
<1>1. /\ Given(db, key, expire)
           = [dict |-> db.dict, expires |-> With(db.expires, key, expire), loading |-> db.loading]
      /\ Taken(db, key)
           = [dict |-> db.dict, expires |-> Without(db.expires, {key}), loading |-> db.loading]
  BY DEF Consistent, Given, Taken
<1> QED
  BY <1>1 DEF With, Without, Ttl, HasTtl, Has, Same

(* Replacing an object leaves every expiration.                            *)
LEMMA ReplaceEntry ==
    ASSUME NEW db, Consistent(db), NEW key, NEW object
    PROVE  LET left == [db EXCEPT !.dict = With(@, key, object)]
           IN  /\ Has(left, key) /\ left.dict[key] = object /\ Ttl(left, key) = Ttl(db, key)
               /\ \A k : k # key => Same(db, k, left, k)
<1>1. [db EXCEPT !.dict = With(@, key, object)]
        = [dict |-> With(db.dict, key, object), expires |-> db.expires, loading |-> db.loading]
  BY DEF Consistent
<1> QED
  BY <1>1 DEF With, Ttl, HasTtl, Has, Same

(* RenameKey moves the whole entry.                                        *)
LEMMA RenameEntry ==
    ASSUME NEW db, Consistent(db), NEW key, NEW to, key # to, Has(db, key)
    PROVE  LET left == RenameKey(db, key, to)
           IN  /\ Gone(left, key) /\ Same(db, key, left, to)
               /\ \A k : k \notin {key, to} => Same(db, k, left, k)
<1> DEFINE d == With(Without(db.dict, {key}), to, db.dict[key])
           e == IF HasTtl(db, key) THEN With(Without(db.expires, {key}), to, db.expires[key])
                ELSE Without(db.expires, {key, to})
           left == [dict |-> d, expires |-> e, loading |-> db.loading]
<1>1. RenameKey(db, key, to) = left
  <2>1. [db EXCEPT !.dict = d] = [dict |-> d, expires |-> db.expires, loading |-> db.loading]
    BY DEF Consistent
  <2> QED
    BY <2>1, Zenon DEF RenameKey
<1>2. /\ DOMAIN d = (DOMAIN db.dict \ {key}) \cup {to}
      /\ \A x \in DOMAIN d : d[x] = IF x = to THEN db.dict[key] ELSE db.dict[x]
  BY DEF With, Without
<1>3. /\ Ttl(left, key) = 0 /\ Ttl(left, to) = Ttl(db, key)
      /\ \A k : k \notin {key, to} => Ttl(left, k) = Ttl(db, k)
  <2> HIDE DEF d
  <2>1. CASE HasTtl(db, key)
    BY <2>1, SMTT(30) DEF With, Without, Ttl, HasTtl
  <2>2. CASE ~HasTtl(db, key)
    BY <2>2, SMTT(30) DEF Without, Ttl, HasTtl
  <2> QED
    BY <2>1, <2>2, SMTT(30)
<1>4. left.dict = d
  OBVIOUS
<1> HIDE DEF d, e, left
<1> QED
  BY <1>1, <1>2, <1>3, <1>4 DEF Has, Same, Gone

-----------------------------------------------------------------------------
(* An object of one element, with one more, with one less, and trimmed.    *)
Single(type, element) == [type |-> type, data |-> {element}]

Grown(object, element) == [object EXCEPT !.data = @ \cup {element}]

Shrunk(object, element) == [object EXCEPT !.data = @ \ {element}]

Trimmed(object, kept) == [object EXCEPT !.data = @ \cap kept]

(* Nothing is left of a list or hash.                                      *)
Emptied(object) == object.type = "list" /\ object.data = {}

(* The handlers that find or create, by what the lookup found.             *)
LEMMA AddEffect ==
    ASSUME NEW db, Consistent(db), NEW t \in Nat, NEW c, c.key \in Keys
    PROVE  LET found == LookupKey(db, c.key, t)
               r == HandleAdd(db, c, t)
           IN  /\ ~Has(found, c.key) =>
                     /\ ~r.error /\ Has(r.db, c.key) /\ Ttl(r.db, c.key) = 0
                     /\ r.db.dict[c.key] = Single(c.type, c.element)
                     /\ r.modified = TRUE
               /\ (Has(found, c.key) /\ found.dict[c.key].type # c.type) =>
                     r.error /\ r.db = found /\ r.modified = FALSE
               /\ (Has(found, c.key) /\ found.dict[c.key].type = c.type) =>
                     /\ ~r.error /\ Has(r.db, c.key) /\ Ttl(r.db, c.key) = Ttl(found, c.key)
                     /\ r.db.dict[c.key] = Grown(found.dict[c.key], c.element)
                     /\ r.modified = AddMarks(c, found.dict[c.key])
               /\ \A k : k # c.key => Same(db, k, r.db, k)
<1> DEFINE found == LookupKey(db, c.key, t)
           old == found.dict[c.key]
           new == Single(c.type, c.element)
           more == Grown(old, c.element)
           created == SetKey(found, c.key, new, 0, FALSE)
           grown == [found EXCEPT !.dict = With(@, c.key, more)]
           r == HandleAdd(db, c, t)
<1> SUFFICES /\ ~Has(found, c.key) =>
                   /\ ~r.error /\ Has(r.db, c.key) /\ Ttl(r.db, c.key) = 0
                   /\ r.db.dict[c.key] = new /\ r.modified = TRUE
             /\ (Has(found, c.key) /\ old.type # c.type) =>
                   r.error /\ r.db = found /\ r.modified = FALSE
             /\ (Has(found, c.key) /\ old.type = c.type) =>
                   /\ ~r.error /\ Has(r.db, c.key) /\ Ttl(r.db, c.key) = Ttl(found, c.key)
                   /\ r.db.dict[c.key] = more
                   /\ r.modified = AddMarks(c, old)
             /\ \A k : k # c.key => Same(db, k, r.db, k)
  BY Zenon
<1>1. Consistent(found) /\ \A k : k # c.key => Same(db, k, found, k)
  BY LookupKeeps, LookupEntry DEF Keeps
<1>2. r = IF ~Has(found, c.key) THEN Ok(created, TRUE)
          ELSE IF old.type # c.type THEN Error(found)
          ELSE Ok(grown, AddMarks(c, old))
  BY DEF HandleAdd, Grown, Single
<1> HIDE DEF found, new, more, r
<1>3. /\ Has(created, c.key) /\ created.dict[c.key] = new /\ Ttl(created, c.key) = 0
      /\ \A k : k # c.key => Same(found, k, created, k)
  BY <1>1, CreateEntry, Zenon
<1>4. /\ Has(grown, c.key) /\ grown.dict[c.key] = more /\ Ttl(grown, c.key) = Ttl(found, c.key)
      /\ \A k : k # c.key => Same(found, k, grown, k)
  BY <1>1, ReplaceEntry, Zenon
<1> HIDE DEF created, grown
<1>5. \A k : k # c.key => Same(db, k, created, k) /\ Same(db, k, grown, k)
  BY <1>1, <1>3, <1>4, SMTT(30) DEF Same
<1> HIDE DEF old
<1>6. CASE ~Has(found, c.key)
  <2>1. r = Ok(created, TRUE)
    BY <1>2, <1>6, Zenon
  <2>2. r.db = created /\ ~r.error /\ r.modified = TRUE
    BY <2>1, SMTT(30) DEF Ok
  <2> QED
    BY <1>3, <1>5, <1>6, <2>2, Zenon
<1>7. CASE Has(found, c.key) /\ old.type # c.type
  <2>1. r = Error(found)
    BY <1>2, <1>7, Zenon
  <2>2. r.db = found /\ r.error /\ r.modified = FALSE
    BY <2>1, SMTT(30) DEF Error
  <2> QED
    BY <1>1, <1>7, <2>2, Zenon
<1>8. CASE Has(found, c.key) /\ old.type = c.type
  <2>1. r = Ok(grown, AddMarks(c, old))
    BY <1>2, <1>8, Zenon
  <2>2. /\ r.db = grown /\ ~r.error
        /\ r.modified = AddMarks(c, old)
    BY <2>1, SMTT(30) DEF Ok
  <2> QED
    BY <1>4, <1>5, <1>8, <2>2, Zenon
<1> QED
  BY <1>6, <1>7, <1>8, Zenon

(* They leave every other key alone.                                       *)
LEMMA AddElsewhere ==
    ASSUME NEW db, Consistent(db), NEW t \in Nat, NEW c, c.key \in Keys, NEW k, k # c.key
    PROVE  Same(db, k, HandleAdd(db, c, t).db, k)
BY AddEffect, Zenon

(* The handlers that remove an element, by what the lookup found.          *)
LEMMA RemoveEffect ==
    ASSUME NEW db, Consistent(db), NEW t \in Nat, NEW c, c.key \in Keys
    PROVE  LET found == LookupKey(db, c.key, t)
               old == found.dict[c.key]
               rest == Shrunk(old, c.element)
               r == HandleRemove(db, c, t)
           IN  /\ ~Has(found, c.key) => ~r.error /\ r.db = found /\ r.modified = FALSE
               /\ (Has(found, c.key) /\ old.type # c.type) =>
                     r.error /\ r.db = found /\ r.modified = FALSE
               /\ (Has(found, c.key) /\ old.type = c.type) => ~r.error /\ r.modified = (old # rest)
               /\ (Has(found, c.key) /\ old.type = c.type /\ Emptied(rest)) => Gone(r.db, c.key)
               /\ (Has(found, c.key) /\ old.type = c.type /\ ~Emptied(rest)) =>
                     /\ Has(r.db, c.key) /\ Ttl(r.db, c.key) = Ttl(found, c.key)
                     /\ r.db.dict[c.key] = rest
               /\ \A k : k # c.key => Same(db, k, r.db, k)
<1> DEFINE found == LookupKey(db, c.key, t)
           old == found.dict[c.key]
           rest == Shrunk(old, c.element)
           left == Shrink(found, c.key, rest)
           r == HandleRemove(db, c, t)
<1> SUFFICES /\ ~Has(found, c.key) => ~r.error /\ r.db = found /\ r.modified = FALSE
             /\ (Has(found, c.key) /\ old.type # c.type) =>
                   r.error /\ r.db = found /\ r.modified = FALSE
             /\ (Has(found, c.key) /\ old.type = c.type) => ~r.error /\ r.modified = (old # rest)
             /\ (Has(found, c.key) /\ old.type = c.type /\ Emptied(rest)) => Gone(r.db, c.key)
             /\ (Has(found, c.key) /\ old.type = c.type /\ ~Emptied(rest)) =>
                   /\ Has(r.db, c.key) /\ Ttl(r.db, c.key) = Ttl(found, c.key)
                   /\ r.db.dict[c.key] = rest
             /\ \A k : k # c.key => Same(db, k, r.db, k)
  BY Zenon
<1>1. Consistent(found) /\ \A k : k # c.key => Same(db, k, found, k)
  BY LookupKeeps, LookupEntry DEF Keeps
<1>2. r = IF ~Has(found, c.key) THEN Ok(found, FALSE)
          ELSE IF old.type # c.type THEN Error(found)
          ELSE Ok(left, (old # rest))
  BY DEF HandleRemove, Shrunk
<1> HIDE DEF found, old, rest, r
<1>3. /\ Emptied(rest) => Gone(left, c.key)
      /\ ~Emptied(rest) => /\ Has(left, c.key) /\ Ttl(left, c.key) = Ttl(found, c.key)
                           /\ left.dict[c.key] = rest
      /\ \A k : k # c.key => Same(found, k, left, k)
  <2> DEFINE deleted == DeleteKey(found, c.key)
             shrunk == [found EXCEPT !.dict = With(@, c.key, rest)]
  <2>1. left = IF Emptied(rest) THEN deleted ELSE shrunk
    BY Zenon DEF Shrink, Emptied
  <2>2. Gone(deleted, c.key) /\ \A k : k # c.key => Same(found, k, deleted, k)
    BY <1>1, DeleteEntry, SMTT(30)
  <2>3. /\ Has(shrunk, c.key) /\ shrunk.dict[c.key] = rest /\ Ttl(shrunk, c.key) = Ttl(found, c.key)
        /\ \A k : k # c.key => Same(found, k, shrunk, k)
    BY <1>1, ReplaceEntry, Zenon
  <2> HIDE DEF left, deleted, shrunk
  <2>4. CASE Emptied(rest)
    BY <2>1, <2>2, <2>4, Zenon
  <2>5. CASE ~Emptied(rest)
    <3>1. left = shrunk
      BY <2>1, <2>5, Zenon
    <3> QED
      BY <2>3, <2>5, <3>1, Zenon
  <2> QED
    BY <2>4, <2>5, Zenon
<1> HIDE DEF left
<1>4. \A k : k # c.key => Same(db, k, left, k)
  BY <1>1, <1>3, SMTT(30) DEF Same
<1>5. CASE ~Has(found, c.key)
  <2>1. r = Ok(found, FALSE)
    BY <1>2, <1>5, Zenon
  <2>2. r.db = found /\ ~r.error /\ r.modified = FALSE
    BY <2>1, SMTT(30) DEF Ok
  <2> QED
    BY <1>1, <1>5, <2>2, Zenon
<1>6. CASE Has(found, c.key) /\ old.type # c.type
  <2>1. r = Error(found)
    BY <1>2, <1>6, Zenon
  <2>2. r.db = found /\ r.error /\ r.modified = FALSE
    BY <2>1, SMTT(30) DEF Error
  <2> QED
    BY <1>1, <1>6, <2>2, Zenon
<1>7. CASE Has(found, c.key) /\ old.type = c.type
  <2>1. r = Ok(left, (old # rest))
    BY <1>2, <1>7, Zenon
  <2>2. r.db = left /\ ~r.error /\ r.modified = (old # rest)
    BY <2>1, SMTT(30) DEF Ok
  <2> QED
    BY <1>3, <1>4, <1>7, <2>2, Zenon
<1> QED
  BY <1>5, <1>6, <1>7, Zenon

(* LTRIM, by what the lookup found: it is logged unless the type is wrong. *)
LEMMA TrimEffect ==
    ASSUME NEW db, Consistent(db), NEW t \in Nat, NEW c, c.key \in Keys
    PROVE  LET found == LookupKey(db, c.key, t)
               old == found.dict[c.key]
               rest == Trimmed(old, c.kept)
               r == HandleTrim(db, c, t)
           IN  /\ ~Has(found, c.key) => ~r.error /\ r.db = found /\ r.modified = TRUE
               /\ (Has(found, c.key) /\ old.type # c.type) =>
                     r.error /\ r.db = found /\ r.modified = FALSE
               /\ (Has(found, c.key) /\ old.type = c.type) => ~r.error /\ r.modified = TRUE
               /\ (Has(found, c.key) /\ old.type = c.type /\ Emptied(rest)) => Gone(r.db, c.key)
               /\ (Has(found, c.key) /\ old.type = c.type /\ ~Emptied(rest)) =>
                     /\ Has(r.db, c.key) /\ Ttl(r.db, c.key) = Ttl(found, c.key)
                     /\ r.db.dict[c.key] = rest
               /\ \A k : k # c.key => Same(db, k, r.db, k)
<1> DEFINE found == LookupKey(db, c.key, t)
           old == found.dict[c.key]
           rest == Trimmed(old, c.kept)
           left == Shrink(found, c.key, rest)
           r == HandleTrim(db, c, t)
<1> SUFFICES /\ ~Has(found, c.key) => ~r.error /\ r.db = found /\ r.modified = TRUE
             /\ (Has(found, c.key) /\ old.type # c.type) =>
                   r.error /\ r.db = found /\ r.modified = FALSE
             /\ (Has(found, c.key) /\ old.type = c.type) => ~r.error /\ r.modified = TRUE
             /\ (Has(found, c.key) /\ old.type = c.type /\ Emptied(rest)) => Gone(r.db, c.key)
             /\ (Has(found, c.key) /\ old.type = c.type /\ ~Emptied(rest)) =>
                   /\ Has(r.db, c.key) /\ Ttl(r.db, c.key) = Ttl(found, c.key)
                   /\ r.db.dict[c.key] = rest
             /\ \A k : k # c.key => Same(db, k, r.db, k)
  BY Zenon
<1>1. Consistent(found) /\ \A k : k # c.key => Same(db, k, found, k)
  BY LookupKeeps, LookupEntry DEF Keeps
<1>2. r = IF ~Has(found, c.key) THEN Ok(found, TRUE)
          ELSE IF old.type # c.type THEN Error(found)
          ELSE Ok(left, TRUE)
  BY DEF HandleTrim, Trimmed
<1> HIDE DEF found, old, rest, r
<1>3. /\ Emptied(rest) => Gone(left, c.key)
      /\ ~Emptied(rest) => /\ Has(left, c.key) /\ Ttl(left, c.key) = Ttl(found, c.key)
                           /\ left.dict[c.key] = rest
      /\ \A k : k # c.key => Same(found, k, left, k)
  <2> DEFINE deleted == DeleteKey(found, c.key)
             shrunk == [found EXCEPT !.dict = With(@, c.key, rest)]
  <2>1. left = IF Emptied(rest) THEN deleted ELSE shrunk
    BY Zenon DEF Shrink, Emptied
  <2>2. Gone(deleted, c.key) /\ \A k : k # c.key => Same(found, k, deleted, k)
    BY <1>1, DeleteEntry, SMTT(30)
  <2>3. /\ Has(shrunk, c.key) /\ shrunk.dict[c.key] = rest /\ Ttl(shrunk, c.key) = Ttl(found, c.key)
        /\ \A k : k # c.key => Same(found, k, shrunk, k)
    BY <1>1, ReplaceEntry, Zenon
  <2> HIDE DEF left, deleted, shrunk
  <2>4. CASE Emptied(rest)
    BY <2>1, <2>2, <2>4, Zenon
  <2>5. CASE ~Emptied(rest)
    <3>1. left = shrunk
      BY <2>1, <2>5, Zenon
    <3> QED
      BY <2>3, <2>5, <3>1, Zenon
  <2> QED
    BY <2>4, <2>5, Zenon
<1> HIDE DEF left
<1>4. \A k : k # c.key => Same(db, k, left, k)
  BY <1>1, <1>3, SMTT(30) DEF Same
<1>5. CASE ~Has(found, c.key)
  <2>1. r = Ok(found, TRUE)
    BY <1>2, <1>5, Zenon
  <2>2. r.db = found /\ ~r.error /\ r.modified = TRUE
    BY <2>1, SMTT(30) DEF Ok
  <2> QED
    BY <1>1, <1>5, <2>2, Zenon
<1>6. CASE Has(found, c.key) /\ old.type # c.type
  <2>1. r = Error(found)
    BY <1>2, <1>6, Zenon
  <2>2. r.db = found /\ r.error /\ r.modified = FALSE
    BY <2>1, SMTT(30) DEF Error
  <2> QED
    BY <1>1, <1>6, <2>2, Zenon
<1>7. CASE Has(found, c.key) /\ old.type = c.type
  <2>1. r = Ok(left, TRUE)
    BY <1>2, <1>7, Zenon
  <2>2. r.db = left /\ ~r.error /\ r.modified = TRUE
    BY <2>1, SMTT(30) DEF Ok
  <2> QED
    BY <1>3, <1>4, <1>7, <2>2, Zenon
<1> QED
  BY <1>5, <1>6, <1>7, Zenon

(* No handler leaves an empty list behind.                                 *)
LEMMA ExecuteFull ==
    ASSUME NEW db, Consistent(db), Full(db), NEW c \in Commands, NEW t \in Nat
    PROVE  Full(Execute(db, c, t).db)
<1> DEFINE found == LookupKey(db, c.key, t)
           r == Execute(db, c, t)
<1>1. Consistent(found) /\ Full(found)
  <2>1. Gone(found, c.key) \/ found = db
    BY LookupEntry DEF Consistent
  <2>2. Consistent(found) /\ \A k : k # c.key => Same(db, k, found, k)
    BY LookupKeeps, LookupEntry, SMTT(30) DEF Keeps
  <2> QED
    BY <2>1, <2>2 DEF Full, Same, Gone
<1>2. ASSUME NEW left, NEW key, \A k : k # key => Same(db, k, left, k),
             Gone(left, key) \/ Same(db, key, left, key)
             \/ ~(left.dict[key].type = "list" /\ left.dict[key].data = {})
      PROVE  Full(left)
  BY <1>2 DEF Full, Same, Gone
<1>3. CASE c.op = "SET"
  <2> DEFINE object == [type |-> "string", data |-> {c.piece}]
             left == SetKey(db, c.key, object, c.expire, c.keep_ttl)
  <2>1. r.db = left
    BY <1>3, SMTT(30) DEF Execute, HandleSet, Ok
  <2>2. Writes(db, left, c.key, object)
    <3> HIDE DEF object
    <3>1. c.expire \in Nat
      BY <1>3, CommandFacts, SMTT(30) DEF Times
    <3> QED
      BY <1>3, <3>1, CommandFacts, SetEntry
  <2> HIDE DEF left
  <2> QED
    BY <1>2, <2>1, <2>2 DEF Writes
<1>4. CASE c.op = "ADD"
  <2>1. r = HandleAdd(db, c, t) /\ c.key \in Keys /\ c.type \in Types
    BY <1>4, CommandFacts DEF Execute
  <2>2. \A k : k # c.key => Same(db, k, r.db, k)
    BY <2>1, AddEffect, Zenon
  <2>3. CASE ~Has(found, c.key)
    <3>1. r.db.dict[c.key] = Single(c.type, c.element)
      BY <2>1, <2>3, AddEffect, ZenonT(30)
    <3> QED
      BY <1>2, <2>2, <3>1 DEF Single
  <2>4. CASE Has(found, c.key) /\ found.dict[c.key].type # c.type
    BY <1>1, <2>1, <2>4, AddEffect, Zenon
  <2>5. CASE Has(found, c.key) /\ found.dict[c.key].type = c.type
    <3>1. r.db.dict[c.key] = Grown(found.dict[c.key], c.element)
      BY <2>1, <2>5, AddEffect, Zenon
    <3>2. found.dict[c.key] \in Objects
      BY <1>1, <2>5 DEF Consistent, IsDatabase, Has
    <3>3. r.db.dict[c.key].data # {}
      BY <3>1, <3>2, SMTT(30) DEF Grown, Objects
    <3> QED
      BY <1>2, <2>2, <3>3
  <2> QED
    BY <2>3, <2>4, <2>5
<1>5. CASE c.op = "REMOVE"
  <2> DEFINE old == found.dict[c.key]
             rest == Shrunk(old, c.element)
  <2>1. r = HandleRemove(db, c, t) /\ c.key \in Keys
    BY <1>5, CommandFacts DEF Execute
  <2>2. \A k : k # c.key => Same(db, k, r.db, k)
    BY <2>1, RemoveEffect, Zenon
  <2>3. CASE ~Has(found, c.key) \/ old.type # c.type
    BY <1>1, <2>1, <2>3, RemoveEffect, Zenon
  <2>4. CASE Has(found, c.key) /\ old.type = c.type /\ Emptied(rest)
    <3>1. Gone(r.db, c.key)
      BY <2>1, <2>4, RemoveEffect, ZenonT(30)
    <3> QED
      BY <1>2, <2>2, <3>1
  <2>5. CASE Has(found, c.key) /\ old.type = c.type /\ ~Emptied(rest)
    <3>1. r.db.dict[c.key] = rest
      BY <2>1, <2>5, RemoveEffect, ZenonT(30)
    <3> QED
      BY <1>2, <2>2, <2>5, <3>1, ZenonT(30) DEF Emptied
  <2> QED
    BY <2>3, <2>4, <2>5
<1>6. CASE c.op \in {"DEL", "UNLINK"}
  <2>1. r.db = DeleteKey(db, c.key)
    BY <1>6 DEF Execute, HandleDel, HandleUnlink, Ok
  <2> QED
    BY <1>2, <2>1, DeleteEntry
<1>7. CASE c.op \in {"PEXPIREAT", "PERSIST", "GET"}
  <2>1. \/ r.db = found \/ r.db = DeleteKey(found, c.key)
        \/ r.db = [found EXCEPT !.expires = With(@, c.key, c.expire)]
        \/ r.db = [found EXCEPT !.expires = Without(@, {c.key})]
    BY <1>7, Zenon DEF Execute, HandlePExpireAt, HandlePersist, ExpireKeyAt, Ok
  <2>2. CASE r.db = DeleteKey(found, c.key)
    BY <1>1, <2>2, DeleteEntry, SMTT(30) DEF Full, Same, Gone
  <2>3. CASE r.db # DeleteKey(found, c.key)
    <3>1. r.db.dict = found.dict
      <4> HIDE DEF found, r
      <4>1. /\ [found EXCEPT !.expires = With(@, c.key, c.expire)].dict = found.dict
            /\ [found EXCEPT !.expires = Without(@, {c.key})].dict = found.dict
        BY <1>1, TtlEntry
      <4> QED
        BY <2>1, <2>3, <4>1, Zenon
    <3> QED
      BY <1>1, <3>1 DEF Full, Has
  <2> QED
    BY <2>2, <2>3
<1>8. CASE c.op = "RENAME"
  <2>1. \/ r.db = found
        \/ Has(found, c.key) /\ c.key # c.to /\ r.db = RenameKey(found, c.key, c.to)
    BY <1>8, SMTT(30) DEF Execute, HandleRename, Ok, Error
  <2>2. CASE Has(found, c.key) /\ c.key # c.to /\ r.db = RenameKey(found, c.key, c.to)
    BY <1>1, <2>2, RenameEntry, SMTT(30) DEF Full, Same, Gone
  <2> QED
    BY <1>1, <2>1, <2>2
<1>9. CASE c.op = "FLUSHDB"
  <2>1. r.db = Empty(db.loading)
    BY <1>9 DEF Execute, Ok
  <2> QED
    BY <2>1 DEF Empty, Full, Has
<1>10. CASE c.op = "TRIM"
  <2> DEFINE old == found.dict[c.key]
             rest == Trimmed(old, c.kept)
  <2>1. r = HandleTrim(db, c, t) /\ c.key \in Keys
    BY <1>10, CommandFacts DEF Execute
  <2>2. \A k : k # c.key => Same(db, k, r.db, k)
    BY <2>1, TrimEffect, Zenon
  <2>3. CASE ~Has(found, c.key) \/ old.type # c.type
    BY <1>1, <2>1, <2>3, TrimEffect, Zenon
  <2>4. CASE Has(found, c.key) /\ old.type = c.type /\ Emptied(rest)
    <3>1. Gone(r.db, c.key)
      BY <2>1, <2>4, TrimEffect, ZenonT(30)
    <3> QED
      BY <1>2, <2>2, <3>1
  <2>5. CASE Has(found, c.key) /\ old.type = c.type /\ ~Emptied(rest)
    <3>1. r.db.dict[c.key] = rest
      BY <2>1, <2>5, TrimEffect, ZenonT(30)
    <3> QED
      BY <1>2, <2>2, <2>5, <3>1, ZenonT(30) DEF Emptied
  <2> QED
    BY <2>3, <2>4, <2>5
<1> QED
  BY <1>3, <1>4, <1>5, <1>6, <1>7, <1>8, <1>9, <1>10, CommandFacts, SMTT(30)
=============================================================================

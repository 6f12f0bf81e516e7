------------------------------ MODULE Keyspace ------------------------------
(***************************************************************************)
(* The database of src/server/db/db.cpp (dict_ and expires_), the command  *)
(* handlers that change it, the commands Aof::Encode logs for them, and    *)
(* what replaying that log rebuilds.  A handler is an operator on a        *)
(* database value, because Aof::Replay runs the same handlers on a second  *)
(* database whose loading_ flag defers expiration.                         *)
(*                                                                         *)
(* An object is its type and the elements it holds; a string is the set of *)
(* the pieces written to it.  "list" stands for lists and hashes, whose    *)
(* key goes with the last element; the key of a set or a sorted set stays. *)
(***************************************************************************)
EXTENDS Integers, Sequences

CONSTANTS
    Keys,
    Elements,
    MaxTime      \* bound on the clock

ASSUME KeyspaceAssumption == MaxTime \in Nat

VARIABLES
    now,         \* utils::NowInMilliseconds
    live,        \* the database the server answers from
    replayed,    \* what Aof::Replay makes of the log so far
    startable,   \* no command of the log fails when it is replayed
    diverged     \* history: keys whose log does not describe the live key

vars == <<now, live, replayed, startable, diverged>>

Types == {"string", "set", "zset", "list"}

Objects == [type : Types, data : SUBSET Elements]

-----------------------------------------------------------------------------
(* RedisDb *)

Without(f, S) == [x \in DOMAIN f \ S |-> f[x]]

With(f, k, v) == [x \in DOMAIN f \cup {k} |-> IF x = k THEN v ELSE f[x]]

Empty(loading) == [dict |-> <<>>, expires |-> <<>>, loading |-> loading]

Has(db, key) == key \in DOMAIN db.dict

HasTtl(db, key) == key \in DOMAIN db.expires

IsKeyExpired(db, key, t) == ~db.loading /\ HasTtl(db, key) /\ db.expires[key] <= t

DeleteKey_TtlKept(db, key) == [db EXCEPT !.dict = Without(@, {key})]

DeleteKey(db, key) ==
    IF Has(db, key)
    THEN [db EXCEPT !.dict = Without(@, {key}), !.expires = Without(@, {key})]
    ELSE db

(* MutableLookupKey deletes a key it finds expired. *)
LookupKey(db, key, t) ==
    IF Has(db, key) /\ IsKeyExpired(db, key, t) THEN DeleteKey(db, key) ELSE db

(* expire = 0 is no expiration. *)
SetKey(db, key, object, expire, keep_ttl) ==
    [db EXCEPT
        !.dict = With(@, key, object),
        !.expires = CASE expire > 0 -> With(@, key, expire)
                      [] expire = 0 /\ ~keep_ttl -> Without(@, {key})
                      [] OTHER -> @]

ExpireKeyAt(db, key, expire, t) ==
    IF ~db.loading /\ expire <= t
    THEN DeleteKey(db, key)
    ELSE [db EXCEPT !.expires = With(@, key, expire)]

RenameKey(db, key, to) ==
    LET moved == [db EXCEPT !.dict = With(Without(@, {key}), to, db.dict[key])] IN
    IF HasTtl(db, key)
    THEN [moved EXCEPT !.expires = With(Without(@, {key}), to, db.expires[key])]
    ELSE [moved EXCEPT !.expires = Without(@, {key, to})]

-----------------------------------------------------------------------------
(* Commands, and what a handler does: the database it leaves, whether it   *)
(* called MarkModified, and whether it replied with an error.              *)

Times == 1..MaxTime

Commands ==
    [op : {"SET"}, key : Keys, piece : Elements, expire : {0} \cup Times, keep_ttl : {FALSE}]
    \cup [op : {"SET"}, key : Keys, piece : Elements, expire : {0}, keep_ttl : {TRUE}]
    \cup [op : {"ADD"}, key : Keys, type : Types, element : Elements]
    \cup [op : {"REMOVE"}, key : Keys, type : Types \ {"string"}, element : Elements]
    \cup [op : {"TRIM"}, key : Keys, type : {"list"}, kept : SUBSET Elements]
    \cup [op : {"PEXPIREAT"}, key : Keys, expire : Times]
    \cup [op : {"RENAME"}, key : Keys, to : Keys]
    \cup [op : {"DEL", "UNLINK", "PERSIST", "GET"}, key : Keys]
    \cup [op : {"FLUSHDB"}]

Ok(db, modified) == [db |-> db, modified |-> modified, error |-> FALSE]

Error(db) == [db |-> db, modified |-> FALSE, error |-> TRUE]

HandleSet_NotMarked(db, c) ==
    Ok(SetKey(db, c.key, [type |-> "string", data |-> {c.piece}], c.expire, c.keep_ttl), FALSE)

HandleSet(db, c) ==
    Ok(SetKey(db, c.key, [type |-> "string", data |-> {c.piece}], c.expire, c.keep_ttl), TRUE)

(* SADD marks what it adds; ZADD, and every command that adds to another   *)
(* type, marks the database modified whenever it succeeds.                 *)
AddMarks(c, old) == c.type = "set" => c.element \notin old.data

(* APPEND, INCR, SADD, ZADD, LPUSH, RPUSH, HSET...: find or create. *)
HandleAdd(db, c, t) ==
    LET found == LookupKey(db, c.key, t)
        old == found.dict[c.key]
    IN  IF ~Has(found, c.key)
        THEN Ok(SetKey(found, c.key, [type |-> c.type, data |-> {c.element}], 0, FALSE), TRUE)
        ELSE IF old.type # c.type THEN Error(found)
        ELSE Ok([found EXCEPT !.dict = With(@, c.key, [old EXCEPT !.data = @ \cup {c.element}])],
                AddMarks(c, old))

(* What is left of an object; a list or hash goes when it is empty. *)
Shrink(db, key, rest) ==
    IF rest.type = "list" /\ rest.data = {}
    THEN DeleteKey(db, key)
    ELSE [db EXCEPT !.dict = With(@, key, rest)]

(* SREM, ZREM, LREM, LPOP, HDEL... mark the database if they removed something. *)
HandleRemove(db, c, t) ==
    LET found == LookupKey(db, c.key, t)
        old == found.dict[c.key]
        rest == [old EXCEPT !.data = @ \ {c.element}]
    IN  IF ~Has(found, c.key) THEN Ok(found, FALSE)
        ELSE IF old.type # c.type THEN Error(found)
        ELSE Ok(Shrink(found, c.key, rest), old # rest)

(* LTRIM marks the database whatever it removed, also if there is no key. *)
HandleTrim(db, c, t) ==
    LET found == LookupKey(db, c.key, t)
        old == found.dict[c.key]
    IN  IF ~Has(found, c.key) THEN Ok(found, TRUE)
        ELSE IF old.type # c.type THEN Error(found)
        ELSE Ok(Shrink(found, c.key, [old EXCEPT !.data = @ \cap c.kept]), TRUE)

HandleDel(db, c) == Ok(DeleteKey(db, c.key), Has(db, c.key))

HandleUnlink(db, c, t) ==
    Ok(DeleteKey(db, c.key), Has(db, c.key) /\ ~IsKeyExpired(db, c.key, t))

HandlePExpireAt(db, c, t) ==
    LET found == LookupKey(db, c.key, t) IN
    IF Has(found, c.key) THEN Ok(ExpireKeyAt(found, c.key, c.expire, t), TRUE)
                         ELSE Ok(found, FALSE)

HandlePersist(db, c, t) ==
    LET found == LookupKey(db, c.key, t) IN
    IF Has(found, c.key) /\ HasTtl(found, c.key)
    THEN Ok([found EXCEPT !.expires = Without(@, {c.key})], TRUE)
    ELSE Ok(found, FALSE)

HandleRename(db, c, t) ==
    LET found == LookupKey(db, c.key, t) IN
    IF ~Has(found, c.key) THEN Error(found)
    ELSE IF c.key = c.to THEN Ok(found, FALSE)
    ELSE Ok(RenameKey(found, c.key, c.to), TRUE)

Execute(db, c, t) ==
    CASE c.op = "SET" -> HandleSet(db, c)
      [] c.op = "ADD" -> HandleAdd(db, c, t)
      [] c.op = "REMOVE" -> HandleRemove(db, c, t)
      [] c.op = "TRIM" -> HandleTrim(db, c, t)
      [] c.op = "DEL" -> HandleDel(db, c)
      [] c.op = "UNLINK" -> HandleUnlink(db, c, t)
      [] c.op = "PEXPIREAT" -> HandlePExpireAt(db, c, t)
      [] c.op = "PERSIST" -> HandlePersist(db, c, t)
      [] c.op = "RENAME" -> HandleRename(db, c, t)
      [] c.op = "GET" -> Ok(LookupKey(db, c.key, t), FALSE)
      [] c.op = "FLUSHDB" -> Ok(Empty(db.loading), DOMAIN db.dict # {})

-----------------------------------------------------------------------------
(* Aof::Encode.  SET is logged as the value and the expiration it left, in *)
(* two RESP commands of one record; an expiration as its absolute time;    *)
(* every other command as it came.  The key may expire in between.         *)

Set(key, piece) ==
    [op |-> "SET", key |-> key, piece |-> piece, expire |-> 0, keep_ttl |-> FALSE]

PExpireAt(key, expire) == [op |-> "PEXPIREAT", key |-> key, expire |-> expire]

Del(key) == [op |-> "DEL", key |-> key]

Encode_TtlDropped(c, db) ==
    IF c.op = "SET" /\ Has(db, c.key) THEN <<Set(c.key, c.piece)>> ELSE <<c>>

Encode(c, db) ==
    CASE c.op = "SET" /\ ~Has(db, c.key) -> <<Del(c.key)>>
      [] c.op = "SET" /\ Has(db, c.key) /\ ~HasTtl(db, c.key) -> <<Set(c.key, c.piece)>>
      [] c.op = "SET" /\ Has(db, c.key) /\ HasTtl(db, c.key) ->
            <<Set(c.key, c.piece), PExpireAt(c.key, db.expires[c.key])>>
      [] c.op = "PEXPIREAT" /\ HasTtl(db, c.key) -> <<PExpireAt(c.key, db.expires[c.key])>>
      [] c.op = "PEXPIREAT" /\ ~HasTtl(db, c.key) -> <<Del(c.key)>>
      [] OTHER -> <<c>>

(* Replaying one more command; after an error reply Open has failed. *)
Replay(db, c) == Execute(db, c, 0)

(* The history of the keys a command touches.  A live key parts from its   *)
(* log when it is created over a predecessor that expired without a trace, *)
(* and follows a RENAME; SET, a logged deletion and FLUSHDB reunite them.  *)
Diverges(c, before) ==
    CASE c.op = "ADD" -> IF ~Has(before, c.key) /\ Has(replayed, c.key)
                         THEN diverged \cup {c.key} ELSE diverged
      [] c.op \in {"SET", "DEL", "UNLINK"} -> diverged \ {c.key}
      [] c.op = "RENAME" -> IF c.key \in diverged THEN (diverged \ {c.key}) \cup {c.to}
                                                  ELSE diverged \ {c.to}
      [] c.op = "FLUSHDB" -> {}
      [] OTHER -> diverged

(* Aof::Append adds a record of one or two commands to the log. *)
AppendRecord(record) ==
    \E first \in {Replay(replayed, record[1])} :
    \E last \in {IF Len(record) = 1 THEN first ELSE Replay(first.db, record[2])} :
        /\ replayed' = last.db
        /\ startable' = (startable /\ ~first.error /\ ~last.error)

-----------------------------------------------------------------------------
(* Client::ProcessCommand: the handler, then Aof::Append if it modified    *)
(* the database.  The clock may move in between.                           *)
ProcessCommand(c) ==
    \E result \in {Execute(live, c, now)} :
        /\ now' \in {now, now + 1} /\ now' <= MaxTime
        /\ IF ~result.modified
           THEN /\ live' = result.db
                /\ UNCHANGED <<replayed, startable, diverged>>
           ELSE /\ live' = IF c.op = "SET" THEN LookupKey(result.db, c.key, now')
                                          ELSE result.db
                /\ AppendRecord(Encode(c, live'))
                /\ diverged' = Diverges(c, LookupKey(live, c.key, now))

Tick ==
    /\ now < MaxTime
    /\ now' = now + 1
    /\ UNCHANGED <<live, replayed, startable, diverged>>

(* ExpireSome, from the active expiration cycle: some of the expired keys  *)
(* go, and nothing is logged.                                              *)
ExpireSome(sample) ==
    /\ sample # {}
    /\ \A key \in sample : HasTtl(live, key) /\ live.expires[key] <= now
    /\ live' = [live EXCEPT !.dict = Without(@, sample), !.expires = Without(@, sample)]
    /\ UNCHANGED <<now, replayed, startable, diverged>>

(* A rewrite, at the instant its snapshot stands for the log: the objects  *)
(* that are not expired, in commands that cannot express an empty one.     *)
Snapshot(db, t) ==
    LET skipped == {k \in DOMAIN db.dict : \/ IsKeyExpired(db, k, t)
                                           \/ db.dict[k].data = {}}
    IN  [dict |-> Without(db.dict, skipped),
         expires |-> Without(db.expires, skipped),
         loading |-> TRUE]

Rewrite ==
    /\ replayed' = Snapshot(live, now)
    /\ startable' = TRUE
    /\ diverged' = {k \in DOMAIN live.dict : live.dict[k].data = {}}
    /\ UNCHANGED <<now, live>>

(* A restart: Open replays the log and then lets keys expire. *)
Restart ==
    /\ startable
    /\ live' = [replayed EXCEPT !.loading = FALSE]
    /\ diverged' = {}
    /\ UNCHANGED <<now, replayed, startable>>

Init ==
    /\ now = 0
    /\ live = Empty(FALSE)
    /\ replayed = Empty(TRUE)
    /\ startable = TRUE
    /\ diverged = {}

Next ==
    \/ \E c \in Commands : ProcessCommand(c)
    \/ Tick
    \/ \E sample \in SUBSET Keys : ExpireSome(sample)
    \/ Rewrite
    \/ Restart

Spec == Init /\ [][Next]_vars

-----------------------------------------------------------------------------
IsDatabase(db) ==
    /\ DOMAIN db.dict \subseteq Keys /\ DOMAIN db.expires \subseteq Keys
    /\ \A key \in DOMAIN db.dict : db.dict[key] \in Objects
    /\ \A key \in DOMAIN db.expires : db.expires[key] \in Times

(* Both databases map keys to objects and to expiration times, and only    *)
(* the one being replayed has loading_ set.                                *)
TypeOK ==
    /\ now \in 0..MaxTime
    /\ IsDatabase(live) /\ ~live.loading
    /\ IsDatabase(replayed) /\ replayed.loading
    /\ startable \in BOOLEAN
    /\ diverged \subseteq Keys

(* What a client can see of a key: its object and its expiration. *)
Visible(db, key) ==
    IF Has(db, key) /\ ~(HasTtl(db, key) /\ db.expires[key] <= now)
    THEN <<db.dict[key], IF HasTtl(db, key) THEN db.expires[key] ELSE 0>>
    ELSE <<>>

(* dict_ and expires_ never disagree: no expiration outlives its key, from *)
(* where it would fall on the next key of that name.                       *)
NoOrphanTtl ==
    \A db \in {live, replayed} : DOMAIN db.expires \subseteq DOMAIN db.dict

(* Restarting from the log shows every key as it was, its expiration       *)
(* included, except the keys in diverged; whatever mix of lazy and active  *)
(* expiration, renames, flushes, rewrites and restarts came before.  What  *)
(* only the log has, it has expired: the key is gone because its time has  *)
(* come.                                                                   *)
ReplayAgrees ==
    startable =>
        /\ \A key \in Keys \ diverged : Visible(replayed, key) = Visible(live, key)
        /\ \A key \in DOMAIN replayed.dict \ (DOMAIN live.dict \cup diverged) :
              HasTtl(replayed, key) /\ replayed.expires[key] <= now

(* The key a command meets is not what the log has under that name: it     *)
(* parted from its log before, or it is missing where the log still has an *)
(* expired key of another type.                                            *)
Parted(c) ==
    /\ c.op # "FLUSHDB"
    /\ \/ c.key \in diverged
       \/ /\ c.op \in {"ADD", "TRIM"} /\ ~Has(LookupKey(live, c.key, now), c.key)
          /\ Has(replayed, c.key) /\ replayed.dict[c.key].type # c.type

(* A log that replays becomes one that does not only by a logged command   *)
(* on a key that had parted from its log, or by an addition or an LTRIM    *)
(* that found its key missing: LTRIM is logged though it did nothing, and  *)
(* Replay runs it on the expired key.                                      *)
OnlyDivergedKeysBreakReplay ==
    [][startable /\ ~startable' => \E c \in Commands : Parted(c) /\ ProcessCommand(c)]_vars

-----------------------------------------------------------------------------
(* "records successful mutations ... and replays them": a restart shows    *)
(* every key as the clients last saw it.                                   *)
ReplayReproduces ==
    startable => \A key \in Keys : Visible(replayed, key) = Visible(live, key)
=============================================================================

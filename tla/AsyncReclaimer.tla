---------------------------- MODULE AsyncReclaimer ----------------------------
(***************************************************************************)
(* server/db/async_reclaimer: values of unlinked keys are freed by a       *)
(* worker thread.  A step is a section under mutex_ or the work between    *)
(* two of them.  A thread waiting on a condition variable is in asleep     *)
(* until it is notified.  Operators called Definition_Bug are the defects  *)
(* the properties are tried against.                                       *)
(***************************************************************************)
EXTENDS Integers, FiniteSets

CONSTANTS Callers, Objects, worker

ASSUME ReclaimerAssumption == worker \notin Callers /\ IsFiniteSet(Objects)

VARIABLES
    pending, reclaiming, stopping,
    batch, freed, refused,   \* objects with the worker, destroyed, returned
    run,      \* the worker: "wait", "clear" or "done"
    call,     \* each caller: "out", "notify" or "idle"
    asked,    \* what a caller in WaitUntilIdle found accepted
    owner,    \* the destructor: "alive", "notify", "join" or "gone"
    asleep

vars == <<pending, reclaiming, stopping, batch, freed, refused, run, call, asked,
          owner, asleep>>

Accepted == pending \cup batch \cup freed

WakeWorker(waiting) == waiting \ {worker}

-----------------------------------------------------------------------------
Reclaim(t, o) ==
    /\ call[t] = "out" /\ owner # "gone" /\ o \notin Accepted \cup refused
    /\ IF stopping
       THEN refused' = refused \cup {o} /\ UNCHANGED <<pending, call>>
       ELSE /\ pending' = pending \cup {o}
            /\ call' = [call EXCEPT ![t] = "notify"]
            /\ UNCHANGED refused
    /\ UNCHANGED <<reclaiming, stopping, batch, freed, run, asked, owner, asleep>>

(* notify_one comes after the mutex is released.                           *)
ReclaimNotifies(t) ==
    /\ call[t] = "notify"
    /\ call' = [call EXCEPT ![t] = "out"]
    /\ asleep' = WakeWorker(asleep)
    /\ UNCHANGED <<pending, reclaiming, stopping, batch, freed, refused, run, asked, owner>>

IsIdle_BatchIgnored == pending = {}

IsIdle == pending = {} /\ reclaiming = 0

WaitUntilIdle(t) ==
    /\ call[t] = "out" /\ owner = "alive"
    /\ call' = [call EXCEPT ![t] = "idle"]
    /\ asked' = [asked EXCEPT ![t] = Accepted]
    /\ UNCHANGED <<pending, reclaiming, stopping, batch, freed, refused, run, owner, asleep>>

IdleReturns(t) ==
    /\ call[t] = "idle" /\ t \notin asleep /\ IsIdle
    /\ call' = [call EXCEPT ![t] = "out"]
    /\ UNCHANGED <<pending, reclaiming, stopping, batch, freed, refused, run, asked,
                   owner, asleep>>

IdleSleeps(t) ==
    /\ call[t] = "idle" /\ t \notin asleep /\ ~IsIdle
    /\ asleep' = asleep \cup {t}
    /\ UNCHANGED <<pending, reclaiming, stopping, batch, freed, refused, run, call,
                   asked, owner>>

(* ~AsyncReclaimer, which no caller may be waiting through.                *)
Destroy ==
    /\ \/ /\ owner = "alive" /\ \A t \in Callers : call[t] # "idle"
          /\ owner' = "notify" /\ stopping' = TRUE
          /\ UNCHANGED asleep
       \/ /\ owner = "notify" /\ owner' = "join"
          /\ asleep' = WakeWorker(asleep)
          /\ UNCHANGED stopping
       \/ /\ owner = "join" /\ run = "done" /\ \A t \in Callers : call[t] = "out"
          /\ owner' = "gone"
          /\ UNCHANGED <<stopping, asleep>>
    /\ UNCHANGED <<pending, reclaiming, batch, freed, refused, run, call, asked>>

-----------------------------------------------------------------------------
(* Run.                                                                    *)

Exits_Undrained == stopping

Exits == stopping /\ pending = {}

TakeBatch ==
    /\ batch' = pending /\ pending' = {}
    /\ reclaiming' = reclaiming + Cardinality(pending)

WorkerWait ==
    /\ run = "wait" /\ worker \notin asleep
    /\ \/ Exits /\ run' = "done" /\ UNCHANGED <<asleep, pending, batch, reclaiming>>
       \/ /\ ~Exits /\ pending = {}
          /\ asleep' = asleep \cup {worker}
          /\ UNCHANGED <<run, pending, batch, reclaiming>>
       \/ ~Exits /\ pending # {} /\ TakeBatch /\ run' = "clear" /\ UNCHANGED asleep
    /\ UNCHANGED <<stopping, freed, refused, call, asked, owner>>

(* batch.clear() without the lock, then the count under it: until the      *)
(* count is taken back nobody sees that the objects are gone.              *)
WorkerClear ==
    /\ run = "clear" /\ batch # {}
    /\ freed' = freed \cup batch /\ batch' = {}
    /\ UNCHANGED <<pending, reclaiming, stopping, refused, run, call, asked, owner, asleep>>

WakeIdle_One(waiting) ==
    IF waiting \cap Callers = {} THEN waiting
    ELSE waiting \ {CHOOSE t \in Callers : t \in waiting}

WakeIdle(waiting) == waiting \ Callers

WorkerCleared ==
    /\ run = "clear" /\ batch = {} /\ run' = "wait"
    /\ reclaiming' = 0
    /\ asleep' = IF pending = {} THEN WakeIdle(asleep) ELSE asleep
    /\ UNCHANGED <<pending, stopping, batch, freed, refused, call, asked, owner>>

-----------------------------------------------------------------------------
Init ==
    /\ pending = {} /\ reclaiming = 0 /\ stopping = FALSE
    /\ batch = {} /\ freed = {} /\ refused = {}
    /\ run = "wait" /\ owner = "alive" /\ asleep = {}
    /\ call = [t \in Callers |-> "out"] /\ asked = [t \in Callers |-> {}]

Run == WorkerWait \/ WorkerClear \/ WorkerCleared

Returns(t) == ReclaimNotifies(t) \/ IdleReturns(t) \/ IdleSleeps(t)

Next ==
    \/ Run \/ Destroy
    \/ \E t \in Callers :
          \/ Returns(t) \/ WaitUntilIdle(t)
          \/ \E o \in Objects : Reclaim(t, o)

Spec == Init /\ [][Next]_vars

(* Threads run; nobody is obliged to call.                                 *)
FairSpec ==
    /\ Spec /\ WF_vars(Run) /\ WF_vars(owner # "alive" /\ Destroy)
    /\ \A t \in Callers : WF_vars(Returns(t))

-----------------------------------------------------------------------------
(* Every variable stays in its domain, and an object is in one place.      *)
TypeOK ==
    /\ reclaiming \in Nat /\ stopping \in BOOLEAN
    /\ run \in {"wait", "clear", "done"}
    /\ call \in [Callers -> {"out", "notify", "idle"}]
    /\ owner \in {"alive", "notify", "join", "gone"}
    /\ asleep \subseteq Callers \cup {worker}
    /\ Accepted \cup refused \subseteq Objects
    /\ pending \cap batch = {} /\ freed \cap (pending \cup batch) = {}
    /\ refused \cap Accepted = {}

(* When the destructor returns, and when the worker has ended, every value *)
(* handed to Reclaim has been freed.                                       *)
DestructorDrains == run = "done" => pending = {} /\ batch = {}

(* WaitUntilIdle returns only when every value accepted before the call    *)
(* has been freed.                                                         *)
IdleMeansFreed ==
    [][\A t \in Callers : call[t] = "idle" /\ call'[t] = "out" => asked[t] \subseteq freed]_vars

(* Nobody waits for ever: a value that Reclaim accepted is freed, a caller *)
(* of WaitUntilIdle is not left asleep on an idle reclaimer, and the       *)
(* destructor returns from its join.                                       *)
EveryWaitEnds ==
    /\ \A o \in Objects : o \in pending ~> o \in freed
    /\ \A t \in Callers : [](call[t] = "idle" => <>(call[t] = "out" \/ pending # {}))
    /\ owner # "alive" ~> owner = "gone"
=============================================================================

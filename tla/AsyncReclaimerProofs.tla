------------------------- MODULE AsyncReclaimerProofs -------------------------
(***************************************************************************)
(* Proofs for every number of callers and objects.  IInv ties the worker's *)
(* position to the objects it holds: a worker outside batch.clear() holds  *)
(* none, one inside it has counted them in reclaiming_, and one that ended *)
(* left nothing behind.                                                    *)
(***************************************************************************)
EXTENDS AsyncReclaimer, FiniteSetTheorems, TLAPS

(* The worker's position and its objects.                                  *)
WorkerInv ==
    /\ run \in {"wait", "done"} => batch = {} /\ reclaiming = 0
    /\ run = "clear" => reclaiming > 0
    /\ run = "done" => stopping /\ pending = {}

(* What a waiting caller asked for has not been forgotten.                 *)
AskedInv == asked \in [Callers -> SUBSET Objects]
            /\ \A t \in Callers : asked[t] \subseteq Accepted

IInv == TypeOK /\ WorkerInv /\ AskedInv

(* A batch of at least one object has a positive size.                     *)
LEMMA BatchIsCounted ==
    ASSUME NEW S, S \subseteq Objects, S # {}
    PROVE  Cardinality(S) \in Nat /\ Cardinality(S) > 0
<1>1. IsFiniteSet(S)
  BY FS_Subset, ReclaimerAssumption
<1>2. Cardinality(S) \in Nat
  BY <1>1, FS_CardinalityType
<1>3. Cardinality(S) # 0
  BY <1>1, FS_EmptySet
<1> QED
  BY <1>2, <1>3

(* The reclaimer starts empty.                                             *)
LEMMA InitIInv == Init => IInv
<1> SUFFICES ASSUME Init PROVE IInv
  OBVIOUS
<1>1. AskedInv
  BY DEF Init, AskedInv, Accepted
<1>2. WorkerInv
  BY DEF Init, WorkerInv
<1>3. TypeOK
  BY DEF Init, TypeOK, Accepted
<1> QED
  BY <1>1, <1>2, <1>3 DEF IInv

(* Every step of a caller, the destructor or the worker keeps IInv.        *)
LEMMA StepIInv == IInv /\ [Next]_vars => IInv'
<1> SUFFICES ASSUME IInv, [Next]_vars PROVE IInv'
  OBVIOUS
<1> USE DEF IInv, TypeOK, WorkerInv, AskedInv, Accepted
<1>1. ASSUME NEW t \in Callers, NEW o \in Objects, Reclaim(t, o) PROVE IInv'
  BY <1>1 DEF Reclaim
<1>2. ASSUME NEW t \in Callers, ReclaimNotifies(t) PROVE IInv'
  BY <1>2 DEF ReclaimNotifies, WakeWorker
<1>3. ASSUME NEW t \in Callers, WaitUntilIdle(t) PROVE IInv'
  BY <1>3 DEF WaitUntilIdle
<1>4. ASSUME NEW t \in Callers, IdleReturns(t) PROVE IInv'
  BY <1>4 DEF IdleReturns
<1>5. ASSUME NEW t \in Callers, IdleSleeps(t) PROVE IInv'
  BY <1>5 DEF IdleSleeps
<1>6. CASE Destroy
  BY <1>6 DEF Destroy, WakeWorker
<1>7. CASE WorkerWait
  <2>1. CASE Exits /\ run' = "done" /\ UNCHANGED <<asleep, pending, batch, reclaiming>>
    BY <1>7, <2>1 DEF WorkerWait, Exits
  <2>2. CASE pending = {} /\ asleep' = asleep \cup {worker}
             /\ UNCHANGED <<run, pending, batch, reclaiming>>
    BY <1>7, <2>2 DEF WorkerWait
  <2>3. CASE pending # {} /\ TakeBatch /\ run' = "clear" /\ UNCHANGED asleep
    <3>1. Cardinality(pending) \in Nat /\ Cardinality(pending) > 0
      BY <2>3, BatchIsCounted
    <3>2. reclaiming' \in Nat /\ reclaiming' > 0
      BY <1>7, <2>3, <3>1 DEF WorkerWait, TakeBatch
    <3> QED
      BY <1>7, <2>3, <3>2 DEF WorkerWait, TakeBatch
  <2> QED
    BY <1>7, <2>1, <2>2, <2>3 DEF WorkerWait
<1>8. CASE WorkerClear
  BY <1>8 DEF WorkerClear
<1>9. CASE WorkerCleared
  BY <1>9 DEF WorkerCleared, WakeIdle
<1>10. CASE UNCHANGED vars
  BY <1>10 DEF vars
<1> QED
  BY <1>1, <1>2, <1>3, <1>4, <1>5, <1>6, <1>7, <1>8, <1>9, <1>10 DEF Next, Run, Returns

(* IInv holds in every state, whatever the number of callers and objects.  *)
THEOREM IInvHolds == Spec => []IInv
BY InitIInv, StepIInv, PTL DEF Spec

(* An object handed to Reclaim is in one place only: it is freed once.     *)
THEOREM TypeCorrect == Spec => []TypeOK
BY IInvHolds, PTL DEF IInv

(* When the worker has ended, so that ~AsyncReclaimer can return, every    *)
(* object handed to Reclaim was freed.                                     *)
THEOREM Drains == Spec => []DestructorDrains
<1>1. IInv => DestructorDrains
  BY DEF IInv, WorkerInv, DestructorDrains
<1> QED
  BY <1>1, IInvHolds, PTL

(* WaitUntilIdle returns only after everything accepted before the call    *)
(* was freed: reclaiming_ hides no batch that is still being cleared.      *)
THEOREM IdleFreed == Spec => IdleMeansFreed
<1>1. IInv /\ [Next]_vars =>
        [\A t \in Callers : call[t] = "idle" /\ call'[t] = "out" => asked[t] \subseteq freed]_vars
  <2> SUFFICES ASSUME IInv, Next, NEW t \in Callers, call[t] = "idle", call'[t] = "out"
               PROVE  asked[t] \subseteq freed
    BY DEF vars
  <2>1. IdleReturns(t)
    <3>1. ASSUME NEW s \in Callers, IdleReturns(s) PROVE s = t
      BY <3>1 DEF IdleReturns, IInv, TypeOK
    <3>2. ASSUME NEW s \in Callers, ReclaimNotifies(s) PROVE FALSE
      BY <3>2 DEF ReclaimNotifies, IInv, TypeOK
    <3>3. ASSUME NEW s \in Callers, WaitUntilIdle(s) PROVE FALSE
      BY <3>3 DEF WaitUntilIdle, IInv, TypeOK
    <3>4. ASSUME NEW s \in Callers, NEW o \in Objects, Reclaim(s, o) PROVE FALSE
      BY <3>4 DEF Reclaim, IInv, TypeOK
    <3>5. ASSUME NEW s \in Callers, IdleSleeps(s) PROVE FALSE
      BY <3>5 DEF IdleSleeps
    <3>6. ASSUME Destroy \/ Run PROVE FALSE
      BY <3>6 DEF Destroy, Run, WorkerWait, WorkerClear, WorkerCleared
    <3> QED
      BY <3>1, <3>2, <3>3, <3>4, <3>5, <3>6 DEF Next, Returns
  <2>2. pending = {} /\ batch = {}
    BY <2>1 DEF IdleReturns, IsIdle, IInv, TypeOK, WorkerInv
  <2> QED
    BY <2>2 DEF IInv, AskedInv, Accepted
<1> QED
  BY <1>1, IInvHolds, PTL DEF Spec, IdleMeansFreed
=============================================================================

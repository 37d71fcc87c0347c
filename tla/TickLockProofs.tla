--------------------------- MODULE TickLockProofs ---------------------------
(***************************************************************************)
(* Proofs about TickLock, for any number of replicas, any TTL and any      *)
(* number of failures.  The invariant ties the heartbeat to the key: a     *)
(* heartbeat that is neither late nor stopped runs in a tick whose replica *)
(* is named by the key, and its deadline comes before the key's.           *)
(***************************************************************************)
EXTENDS TickLock, TLAPS

\* A tick that knows of no loss has a heartbeat, and only such a tick has.
BeatsInTick ==
  \A r \in Replicas : beating[r] <=> (stage[r] \in {"ready", "pull"} /\ ~lost[r])

\* The key outlives the deadline of the heartbeat that renews it.
KeyOutlivesBeat ==
  \A r \in Replicas : beating[r] /\ r \notin late => holder = r /\ beat[r] + 1 < ttl

IInv == TypeOK /\ BeatsInTick /\ KeyOutlivesBeat

-----------------------------------------------------------------------------
LEMMA InvInit == Init => IInv
BY TickLockAssumption
   DEF TickLockAssumption, Init, IInv, TypeOK, Stages, BeatsInTick, KeyOutlivesBeat

LEMMA TickStep ==
  ASSUME IInv, NEW r \in Replicas, Tick(r)
  PROVE  IInv'
<1> USE TickLockAssumption DEF TickLockAssumption, IInv, TypeOK, Stages,
                               BeatsInTick, KeyOutlivesBeat, budgets
<1>1. CASE \E n \in 0..Batch : Acquire(r, n)
  <2>1. PICK n \in 0..Batch : Acquire(r, n)
    BY <1>1
  <2>2. TypeOK'
    BY <2>1 DEF Acquire, SetNX
  <2>3. BeatsInTick'
    BY <2>1 DEF Acquire, SetNX
  <2>4. KeyOutlivesBeat'
    BY <2>1 DEF Acquire, SetNX
  <2> QED BY <2>2, <2>3, <2>4
<1>2. CASE StartPull(r)
  <2>1. TypeOK'
    BY <1>2 DEF StartPull
  <2>2. BeatsInTick' /\ KeyOutlivesBeat'
    BY <1>2 DEF StartPull
  <2> QED BY <2>1, <2>2
<1>3. CASE EndPull(r)
  BY <1>3 DEF EndPull
<1>4. CASE EndTick(r)
  BY <1>4 DEF EndTick
<1>5. CASE Release(r)
  <2>1. TypeOK'
    BY <1>5 DEF Release, Delete, Fault
  <2>2. BeatsInTick'
    BY <1>5 DEF Release
  <2>3. KeyOutlivesBeat'
    BY <1>5 DEF Release, Delete, Fault
  <2> QED BY <2>1, <2>2, <2>3
<1> QED BY <1>1, <1>2, <1>3, <1>4, <1>5 DEF Tick

LEMMA HeartbeatStep ==
  ASSUME IInv, NEW r \in Replicas, Heartbeat(r)
  PROVE  IInv'
<1> USE TickLockAssumption DEF TickLockAssumption, IInv, TypeOK, Stages,
                               BeatsInTick, KeyOutlivesBeat, budgets, BeatDue
<1>1. CASE BeatRenews(r)
  <2>1. TypeOK'
    BY <1>1 DEF BeatRenews, Extend
  <2>2. BeatsInTick'
    BY <1>1 DEF BeatRenews
  <2>3. KeyOutlivesBeat'
    BY <1>1 DEF BeatRenews, Extend
  <2> QED BY <2>1, <2>2, <2>3
<1>2. CASE BeatFindsLost(r)
  BY <1>2 DEF BeatFindsLost, StopBeating
<1>3. CASE BeatFails(r)
  <2>1. TypeOK'
    BY <1>3 DEF BeatFails, StopBeating, Extend, Fault
  <2>2. BeatsInTick'
    BY <1>3 DEF BeatFails, StopBeating
  <2>3. KeyOutlivesBeat'
    BY <1>3 DEF BeatFails, StopBeating, Extend
  <2> QED BY <2>1, <2>2, <2>3
<1> QED BY <1>1, <1>2, <1>3 DEF Heartbeat

LEMMA ElapseStep ==
  ASSUME IInv, Elapse
  PROVE  IInv'
<1> USE TickLockAssumption DEF TickLockAssumption, IInv, TypeOK, Stages,
                               BeatsInTick, KeyOutlivesBeat, budgets
<1>1. TypeOK'
  BY DEF Elapse
<1>2. BeatsInTick'
  BY DEF Elapse
<1>3. KeyOutlivesBeat'
  <2> SUFFICES ASSUME NEW r \in Replicas, beating'[r], r \notin late'
               PROVE  (holder = r /\ beat[r] + 1 < ttl)'
    OBVIOUS
  <2>1. beating[r] /\ r \notin late /\ beat[r] # 0
    BY DEF Elapse
  <2>2. holder = r /\ beat[r] + 1 < ttl /\ beat[r] \in Nat /\ ttl \in Nat
    BY <2>1
  <2>3. ttl' = ttl - 1 /\ holder' = r /\ beat'[r] = beat[r] - 1
    BY <2>1, <2>2 DEF Elapse
  <2> QED BY <2>1, <2>2, <2>3
<1> QED BY <1>1, <1>2, <1>3

LEMMA ProcessStep ==
  ASSUME IInv, NEW r \in Replicas,
         AcquireUnanswered(r) \/ Pause(r) \/ Wake(r) \/ Crash(r) \/ Restart(r)
  PROVE  IInv'
<1> USE TickLockAssumption DEF TickLockAssumption, IInv, TypeOK, Stages,
                               BeatsInTick, KeyOutlivesBeat, budgets
<1>1. CASE AcquireUnanswered(r)
  BY <1>1 DEF AcquireUnanswered, SetNX, Fault
<1>2. CASE Pause(r)
  BY <1>2 DEF Pause
<1>3. CASE Wake(r)
  BY <1>3 DEF Wake
<1>4. CASE Crash(r)
  <2>1. TypeOK'
    BY <1>4 DEF Crash
  <2>2. BeatsInTick' /\ KeyOutlivesBeat'
    BY <1>4 DEF Crash
  <2> QED BY <2>1, <2>2
<1>5. CASE Restart(r)
  BY <1>5 DEF Restart
<1> QED BY <1>1, <1>2, <1>3, <1>4, <1>5

LEMMA InvStep == IInv /\ [Next]_vars => IInv'
<1> SUFFICES ASSUME IInv, [Next]_vars PROVE IInv'
  OBVIOUS
<1>1. CASE Next
  BY <1>1, TickStep, HeartbeatStep, ElapseStep, ProcessStep DEF Next
<1>2. CASE UNCHANGED vars
  BY <1>2 DEF vars, budgets, IInv, TypeOK, BeatsInTick, KeyOutlivesBeat
<1> QED BY <1>1, <1>2

LEMMA Invariant == Spec => []IInv
BY InvInit, InvStep, PTL DEF Spec

-----------------------------------------------------------------------------
(* The variables have their types: in particular the deadline of a         *)
(* heartbeat stays within Renew + Slack although the ticker adds up.       *)
THEOREM TypeCorrect == Spec => []TypeOK
<1>1. IInv => TypeOK
  BY DEF IInv
<1> QED BY <1>1, Invariant, PTL

(* A pull is started with the key in hand, whatever call to Redis has      *)
(* failed before, unless the process slept past its heartbeat.             *)
THEOREM PullsStartWithKey == Spec => StartsAsHolder
<1>1. IInv /\ [Next]_vars =>
        [\A r \in Replicas : stage[r] # "pull" /\ stage'[r] = "pull"
                               => holder = r \/ r \in late]_vars
  <2> SUFFICES ASSUME IInv, Next, NEW r \in Replicas,
                      stage[r] # "pull", stage'[r] = "pull"
               PROVE  holder = r \/ r \in late
    BY DEF vars
  <2>1. stage \in [Replicas -> Stages]
    BY DEF IInv, TypeOK
  <2>2. StartPull(r)
    BY <2>1 DEF Next, Tick, Heartbeat, Acquire, AcquireUnanswered, StartPull, EndPull,
                EndTick, Release, BeatRenews, BeatFindsLost, BeatFails, StopBeating,
                Elapse, Pause, Wake, Crash, Restart
  <2>3. beating[r]
    BY <2>2 DEF StartPull, IInv, BeatsInTick
  <2> QED BY <2>3 DEF IInv, KeyOutlivesBeat
<1> QED BY <1>1, Invariant, PTL DEF Spec, StartsAsHolder

-----------------------------------------------------------------------------
(* The refinement.                                                         *)

LEMMA SignersHoldKey ==
  ASSUME IInv
  PROVE  /\ HealthySigners \subseteq {holder}
         /\ HealthySigners \subseteq Replicas
         /\ \A r \in HealthySigners : ttl > 1
BY DEF IInv, TypeOK, KeyOutlivesBeat, HealthySigners

LEMMA MutexInit == Init => L!Init
BY DEF Init, L!Init, HealthySigners

LEMMA ElapseIsMutex ==
  ASSUME IInv, Elapse
  PROVE  [L!Next]_(L!vars)
<1> DEFINE signers == {r \in Replicas : stage[r] = "pull" /\ beating[r] /\ r \notin late}
<1>1. HealthySigners' \subseteq HealthySigners
  BY DEF Elapse, HealthySigners
<1>2. CASE HealthySigners = {}
  <2>1. HealthySigners' = HealthySigners /\ holder' \in {holder, NoReplica}
    BY <1>1, <1>2 DEF Elapse
  <2> QED BY <1>2, <2>1 DEF L!Next, L!Yield, L!vars
<1>3. CASE HealthySigners # {}
  <2>1. PICK r \in Replicas : HealthySigners = {r} /\ holder = r /\ ttl > 1
    BY <1>3, SignersHoldKey
  <2>2. holder' = holder
    BY <2>1 DEF Elapse, IInv, TypeOK
  <2>3. HealthySigners' = HealthySigners \/ HealthySigners' = HealthySigners \ {r}
    BY <1>1, <2>1
  <2> QED BY <2>2, <2>3 DEF L!Next, L!Finish, L!vars
<1> QED BY <1>2, <1>3

LEMMA ReplicaIsMutex ==
  ASSUME IInv, NEW r \in Replicas,
         \/ Tick(r) \/ Heartbeat(r)
         \/ AcquireUnanswered(r)
         \/ Pause(r) \/ Wake(r) \/ Crash(r) \/ Restart(r)
  PROVE  [L!Next]_(L!vars)
<1> USE DEF L!Next, L!vars, HealthySigners, budgets
<1>0. TypeOK /\ BeatsInTick /\ KeyOutlivesBeat
  BY DEF IInv
<1>1. ASSUME NEW n \in 0..Batch, Acquire(r, n) PROVE L!Take(r)
  BY <1>0, <1>1 DEF Acquire, SetNX, L!Take, TypeOK, BeatsInTick
<1>2. ASSUME StartPull(r) PROVE L!Begin(r) \/ UNCHANGED L!vars
  <2>1. CASE r \in late
    BY <1>2, <2>1, <1>0 DEF StartPull, TypeOK
  <2>2. CASE r \notin late
    <3>1. holder = r
      BY <1>0, <1>2, <2>2 DEF StartPull, BeatsInTick, KeyOutlivesBeat
    <3>2. HealthySigners' = HealthySigners \cup {r}
      BY <1>0, <1>2, <2>2 DEF StartPull, TypeOK, BeatsInTick
    <3> QED BY <1>2, <3>1, <3>2 DEF StartPull, L!Begin
  <2> QED BY <2>1, <2>2
<1>3. ASSUME EndPull(r) PROVE L!Finish(r)
  BY <1>0, <1>3 DEF EndPull, L!Finish, TypeOK
<1>4. ASSUME EndTick(r) PROVE UNCHANGED L!vars
  BY <1>0, <1>4 DEF EndTick, TypeOK
<1>5. ASSUME Release(r) PROVE L!Yield \/ UNCHANGED L!vars
  <2>1. r \notin HealthySigners /\ HealthySigners' = HealthySigners
    BY <1>0, <1>5 DEF Release, TypeOK
  <2> QED BY <2>1, <1>5 DEF Release, Delete, L!Yield
<1>6. ASSUME BeatRenews(r) PROVE L!Begin(r) \/ UNCHANGED L!vars
  <2>1. holder = r /\ holder' = r
    BY <1>6 DEF BeatRenews, Extend
  <2>2. HealthySigners' = IF stage[r] = "pull" THEN HealthySigners \cup {r}
                                               ELSE HealthySigners
    BY <1>0, <1>6 DEF BeatRenews, BeatDue
  <2> QED BY <2>1, <2>2 DEF L!Begin
<1>7. ASSUME StopBeating(r), holder' = holder PROVE L!Finish(r)
  BY <1>0, <1>7 DEF StopBeating, L!Finish, TypeOK
<1>8. ASSUME AcquireUnanswered(r) PROVE L!Take(r)
  BY <1>8 DEF AcquireUnanswered, SetNX, L!Take
<1>9. ASSUME Crash(r) PROVE L!Finish(r)
  BY <1>0, <1>9 DEF Crash, L!Finish, TypeOK
<1>10. ASSUME Pause(r) \/ Wake(r) \/ Restart(r) PROVE UNCHANGED L!vars
  BY <1>0, <1>10 DEF Pause, Wake, Restart, TypeOK
<1>11. Heartbeat(r) => BeatRenews(r) \/ (StopBeating(r) /\ holder' = holder)
  BY DEF Heartbeat, BeatFindsLost, BeatFails, Extend
<1> HIDE DEF L!vars, HealthySigners
<1> QED BY <1>1, <1>2, <1>3, <1>4, <1>5, <1>6, <1>7, <1>8, <1>9, <1>10, <1>11 DEF Tick

(* Seen through the replicas whose heartbeat is in order, the tick lock is *)
(* a mutex that is never given up during a pull: every step of TickLock is *)
(* a step of Leadership or leaves leader and signers as they are.          *)
THEOREM LockImplementsMutex == Spec => ImplementsMutex
<1>1. IInv /\ [Next]_vars => [L!Next]_(L!vars)
  <2> SUFFICES ASSUME IInv, [Next]_vars PROVE [L!Next]_(L!vars)
    OBVIOUS
  <2>1. CASE Next
    BY <2>1, ElapseIsMutex, ReplicaIsMutex DEF Next
  <2>2. CASE UNCHANGED vars
    BY <2>2 DEF vars, L!vars, HealthySigners
  <2> QED BY <2>1, <2>2
<1> QED BY <1>1, Invariant, MutexInit, PTL DEF Spec, ImplementsMutex, L!Spec

-----------------------------------------------------------------------------
(* Without failed calls and without pauses the comment holds as it stands: *)
(* one process drives the nonce sequence at a time, with any number of     *)
(* replicas, crashes and restarts, and pulls of any length.                *)

Calm == paused = {} /\ late = {} /\ \A r \in Replicas : ~lost[r]

LEMMA CalmStep ==
  ASSUME MaxFaults = 0, MaxPauses = 0, IInv, Calm, [Next]_vars
  PROVE  Calm'
<1> USE DEF Calm, IInv, TypeOK, budgets
<1>1. CASE Elapse
  BY <1>1 DEF Elapse
<1>2. ASSUME NEW r \in Replicas, Tick(r) PROVE Calm'
  BY <1>2 DEF Tick, Acquire, StartPull, EndPull, EndTick, Release
<1>3. ASSUME NEW r \in Replicas, Heartbeat(r) PROVE Calm'
  <2>1. ~Fault
    BY DEF Fault
  <2>2. ~BeatFindsLost(r)
    BY DEF BeatFindsLost, StopBeating, BeatDue, KeyOutlivesBeat
  <2>3. BeatRenews(r)
    BY <1>3, <2>1, <2>2 DEF Heartbeat, BeatFails
  <2> QED BY <2>3 DEF BeatRenews
<1>4. ASSUME NEW r \in Replicas,
             AcquireUnanswered(r) \/ Pause(r) \/ Wake(r) \/ Crash(r) \/ Restart(r)
      PROVE  Calm'
  BY <1>4 DEF AcquireUnanswered, Fault, Pause, Wake, Crash, Restart
<1>5. CASE UNCHANGED vars
  BY <1>5 DEF vars
<1> QED BY <1>1, <1>2, <1>3, <1>4, <1>5 DEF Next

THEOREM OneSignerWhenCalm ==
  ASSUME MaxFaults = 0, MaxPauses = 0
  PROVE  Spec => []OneSigner
<1>1. Init => Calm
  BY DEF Init, Calm
<1>2. IInv /\ Calm /\ [Next]_vars => Calm'
  BY CalmStep
<1>3. IInv /\ Calm => OneSigner
  BY DEF IInv, BeatsInTick, KeyOutlivesBeat, Calm, OneSigner
<1> QED BY <1>1, <1>2, <1>3, Invariant, PTL DEF Spec
=============================================================================

------------------------------ MODULE TickLock ------------------------------
(***************************************************************************)
(* The Redis lock around a scheduler tick: SETNX with a TTL, a heartbeat   *)
(* goroutine that renews it, the lockLost channel through which the        *)
(* heartbeat tells the tick to stop, and a compare-and-delete at the end.  *)
(* (scheduler.go Tick and heartbeatLock, lock.go, redislock.go)            *)
(*                                                                         *)
(* Time is kept in countdowns, so no clock has to be bounded: `ttl' is     *)
(* what the key has left, beat[r] the latest moment at which the ticker    *)
(* of r's heartbeat is served.                                             *)
(***************************************************************************)
EXTENDS Naturals, FiniteSets

CONSTANTS
  Replicas, NoReplica,
  LockTTL,     \* tickLockTTL
  Renew,       \* tickLockRenew
  Slack,       \* how late a running process may serve its ticker
  Batch,       \* bound on the records one tick works on
  MaxFaults,   \* bound on calls to Redis that fail
  MaxPauses,   \* bound on pauses of a process that outlast its heartbeat
  MaxCrashes   \* bound on processes that die or are shut down

ASSUME TickLockAssumption ==
  /\ NoReplica \notin Replicas
  /\ LockTTL \in Nat /\ Renew \in Nat \ {0} /\ Slack \in Nat
  /\ Renew + Slack + 1 < LockTTL   \* "Must be < tickLockTTL", served in time
  /\ Batch \in Nat /\ MaxFaults \in Nat /\ MaxPauses \in Nat /\ MaxCrashes \in Nat

VARIABLES
  holder,    \* value of the key scheduler:tick, NoReplica when it is absent
  ttl,       \* what is left of the key's TTL
  stage,     \* stage[r]: idle, ready (between two records), pull, leave, down
  todo,      \* todo[r]: records of the batch that are left
  beating,   \* beating[r]: the heartbeat goroutine runs
  beat,      \* beat[r]: time left until its ticker is served at the latest
  lost,      \* lost[r]: the channel lockLost has its value
  paused,    \* replicas whose process does not run at the moment
  faults, pauses, crashes,
  late       \* history: replicas whose heartbeat has missed its deadline

budgets == <<faults, pauses, crashes>>
vars == <<holder, ttl, stage, todo, beating, beat, lost, paused, budgets, late>>

Stages == {"idle", "ready", "pull", "leave", "down"}

TypeOK ==
  /\ holder \in Replicas \cup {NoReplica}
  /\ ttl \in 0..LockTTL
  /\ stage \in [Replicas -> Stages]
  /\ todo \in [Replicas -> 0..Batch]
  /\ beating \in [Replicas -> BOOLEAN]
  /\ beat \in [Replicas -> 0..(Renew + Slack)]
  /\ lost \in [Replicas -> BOOLEAN]
  /\ paused \subseteq Replicas
  /\ late \subseteq Replicas
  /\ faults \in 0..MaxFaults /\ pauses \in 0..MaxPauses /\ crashes \in 0..MaxCrashes

Init ==
  /\ holder = NoReplica
  /\ ttl = 0
  /\ stage = [r \in Replicas |-> "idle"]
  /\ todo = [r \in Replicas |-> 0]
  /\ beating = [r \in Replicas |-> FALSE]
  /\ beat = [r \in Replicas |-> 0]
  /\ lost = [r \in Replicas |-> FALSE]
  /\ paused = {} /\ late = {}
  /\ faults = 0 /\ pauses = 0 /\ crashes = 0

----------------------------------------------------------------------------
(* The key in Redis.                                                       *)

SetNX(r) ==
  /\ holder = NoReplica
  /\ holder' = r
  /\ ttl' = LockTTL

\* Mutant: a plain DEL.
DeleteAny(r) == holder' = NoReplica /\ ttl' = 0

\* The scripts compare the holder before they touch the key.
Delete(r) ==
  IF holder = r THEN holder' = NoReplica /\ ttl' = 0 ELSE UNCHANGED <<holder, ttl>>

Extend(r) == holder = r /\ holder' = r /\ ttl' = LockTTL

Fault == faults < MaxFaults /\ faults' = faults + 1 /\ UNCHANGED <<pauses, crashes>>

----------------------------------------------------------------------------
(* A tick.                                                                 *)

\* Acquire succeeds, the heartbeat starts, DueBefore returns n records.
Acquire(r, n) ==
  /\ stage[r] = "idle" /\ r \notin paused
  /\ SetNX(r)
  /\ stage' = [stage EXCEPT ![r] = "ready"]
  /\ todo' = [todo EXCEPT ![r] = n]
  /\ beating' = [beating EXCEPT ![r] = TRUE]
  /\ beat' = [beat EXCEPT ![r] = Renew + Slack]
  /\ lost' = [lost EXCEPT ![r] = FALSE]
  /\ late' = late \ {r}
  /\ UNCHANGED <<paused, budgets>>

\* SETNX takes effect and its answer is lost: the tick ends with an error,
\* and nobody has the lock that the key says is taken.
AcquireUnanswered(r) ==
  /\ stage[r] = "idle" /\ r \notin paused
  /\ Fault
  /\ SetNX(r)
  /\ UNCHANGED <<stage, todo, beating, beat, lost, paused, late>>

\* Mutant: one record too many.
StartPullPastBatch(r) ==
  /\ stage[r] = "ready" /\ r \notin paused
  /\ ~lost[r]
  /\ stage' = [stage EXCEPT ![r] = "pull"]
  /\ todo' = [todo EXCEPT ![r] = @ - 1]
  /\ UNCHANGED <<holder, ttl, beating, beat, lost, paused, budgets, late>>

\* The select before each record: another record, or the end of the tick
\* (batch done, lockLost, or DueBefore failed with nothing to do).
StartPull(r) ==
  /\ stage[r] = "ready" /\ r \notin paused
  /\ todo[r] > 0 /\ ~lost[r]
  /\ stage' = [stage EXCEPT ![r] = "pull"]
  /\ todo' = [todo EXCEPT ![r] = @ - 1]
  /\ UNCHANGED <<holder, ttl, beating, beat, lost, paused, budgets, late>>

\* processOne returns, after any time: up to submitTotalBudget for the
\* submission, and without limit for a hash found in flight.
EndPull(r) ==
  /\ stage[r] = "pull" /\ r \notin paused
  /\ stage' = [stage EXCEPT ![r] = "ready"]
  /\ UNCHANGED <<holder, ttl, todo, beating, beat, lost, paused, budgets, late>>

\* Mutant: the select misses lockLost and waits.
EndTickWhenDone(r) ==
  /\ stage[r] = "ready" /\ r \notin paused
  /\ todo[r] = 0
  /\ stage' = [stage EXCEPT ![r] = "leave"]
  /\ beating' = [beating EXCEPT ![r] = FALSE]
  /\ UNCHANGED <<holder, ttl, todo, beat, lost, paused, budgets, late>>

\* Tick returns; its first deferred call cancels the heartbeat.
EndTick(r) ==
  /\ stage[r] = "ready" /\ r \notin paused
  /\ todo[r] = 0 \/ lost[r]
  /\ stage' = [stage EXCEPT ![r] = "leave"]
  /\ todo' = [todo EXCEPT ![r] = 0]
  /\ beating' = [beating EXCEPT ![r] = FALSE]
  /\ UNCHANGED <<holder, ttl, beat, lost, paused, budgets, late>>

\* Its second one releases the lock, which may fail and is only logged.
Release(r) ==
  /\ stage[r] = "leave" /\ r \notin paused
  /\ stage' = [stage EXCEPT ![r] = "idle"]
  /\ \/ Delete(r) /\ UNCHANGED budgets
     \/ Fault /\ UNCHANGED <<holder, ttl>>
  /\ UNCHANGED <<todo, beating, beat, lost, paused, late>>

----------------------------------------------------------------------------
(* The heartbeat.                                                          *)

BeatDue(r) == beating[r] /\ beat[r] <= Slack /\ r \notin paused

\* The ticker keeps its pace: how late this tick was served does not move the
\* next one.
BeatRenews(r) ==
  /\ BeatDue(r)
  /\ Extend(r)
  /\ beat' = [beat EXCEPT ![r] = @ + Renew]
  /\ late' = late \ {r}
  /\ UNCHANGED <<stage, todo, beating, lost, paused, budgets>>

\* Mutant: the heartbeat ends without a word on lockLost.
StopBeatingSilently(r) ==
  /\ BeatDue(r)
  /\ beating' = [beating EXCEPT ![r] = FALSE]
  /\ UNCHANGED <<stage, todo, beat, lost, paused, late>>

\* Any error ends the heartbeat for the rest of the tick, also one that says
\* nothing about the lock.
StopBeating(r) ==
  /\ BeatDue(r)
  /\ lost' = [lost EXCEPT ![r] = TRUE]
  /\ beating' = [beating EXCEPT ![r] = FALSE]
  /\ UNCHANGED <<stage, todo, beat, paused, late>>

BeatFindsLost(r) == holder # r /\ StopBeating(r) /\ UNCHANGED <<holder, ttl, budgets>>

BeatFails(r) ==
  /\ Fault
  /\ StopBeating(r)
  /\ Extend(r) \/ UNCHANGED <<holder, ttl>>

----------------------------------------------------------------------------
(* Time, and what happens to processes.                                    *)

\* Mutant: a key without a TTL.
ElapseForever ==
  /\ \A r \in Replicas : beating[r] /\ r \notin paused => beat[r] > 0
  /\ beat' = [r \in Replicas |-> IF beat[r] = 0 THEN 0 ELSE beat[r] - 1]
  /\ late' = late \cup {r \in Replicas : beating[r] /\ beat[r] = 0}
  /\ UNCHANGED <<holder, ttl, stage, todo, beating, lost, paused, budgets>>

\* One unit passes.  A process that runs serves its ticker in time.
Elapse ==
  /\ \A r \in Replicas : beating[r] /\ r \notin paused => beat[r] > 0
  /\ ttl' = IF ttl = 0 THEN 0 ELSE ttl - 1
  /\ holder' = IF ttl <= 1 THEN NoReplica ELSE holder
  /\ beat' = [r \in Replicas |-> IF beat[r] = 0 THEN 0 ELSE beat[r] - 1]
  /\ late' = late \cup {r \in Replicas : beating[r] /\ beat[r] = 0}
  /\ UNCHANGED <<stage, todo, beating, lost, paused, budgets>>

\* A pause of a whole process ("e.g. we paused too long", redislock.go).
Pause(r) ==
  /\ stage[r] # "down" /\ r \notin paused
  /\ pauses < MaxPauses
  /\ pauses' = pauses + 1
  /\ paused' = paused \cup {r}
  /\ UNCHANGED <<holder, ttl, stage, todo, beating, beat, lost, faults, crashes, late>>

Wake(r) ==
  /\ r \in paused
  /\ paused' = paused \ {r}
  /\ UNCHANGED <<holder, ttl, stage, todo, beating, beat, lost, budgets, late>>

\* Death or shutdown: the cancelled context ends the pull, the heartbeat and
\* Release alike, so the key is left to its TTL.
Crash(r) ==
  /\ stage[r] # "down"
  /\ crashes < MaxCrashes
  /\ crashes' = crashes + 1
  /\ stage' = [stage EXCEPT ![r] = "down"]
  /\ todo' = [todo EXCEPT ![r] = 0]
  /\ beating' = [beating EXCEPT ![r] = FALSE]
  /\ lost' = [lost EXCEPT ![r] = FALSE]
  /\ paused' = paused \ {r}
  /\ UNCHANGED <<holder, ttl, beat, faults, pauses, late>>

\* A new process has a new instanceID; r stands for it once the key no longer
\* holds the old one.
Restart(r) ==
  /\ stage[r] = "down" /\ holder # r
  /\ stage' = [stage EXCEPT ![r] = "idle"]
  /\ UNCHANGED <<holder, ttl, todo, beating, beat, lost, paused, budgets, late>>

Tick(r) ==
  \/ \E n \in 0..Batch : Acquire(r, n)
  \/ StartPull(r)
  \/ EndPull(r)
  \/ EndTick(r)
  \/ Release(r)

Heartbeat(r) == BeatRenews(r) \/ BeatFindsLost(r) \/ BeatFails(r)

Next ==
  \/ Elapse
  \/ \E r \in Replicas :
       \/ Tick(r) \/ Heartbeat(r)
       \/ AcquireUnanswered(r)
       \/ Pause(r) \/ Wake(r) \/ Crash(r) \/ Restart(r)

Spec == Init /\ [][Next]_vars

\* The ticker of Run fires again and again and every call of a tick returns;
\* a running process serves its heartbeat; time passes; pauses end.  Nothing
\* is assumed of faults, crashes and restarts.
Fairness ==
  /\ WF_vars(Elapse)
  /\ \A r \in Replicas : WF_vars(Tick(r)) /\ WF_vars(Heartbeat(r)) /\ WF_vars(Wake(r))

FairSpec == Spec /\ Fairness

----------------------------------------------------------------------------
(* Properties.                                                             *)

\* Replicas that are in a pull, with a heartbeat that has neither failed nor
\* missed its deadline.
HealthySigners == {r \in Replicas : stage[r] = "pull" /\ beating[r] /\ r \notin late}

L == INSTANCE Leadership WITH leader <- holder, signing <- HealthySigners

\* "Only one scheduler instance does chain work at a time" (scheduler.go:129),
\* as far as the lock can give it: seen through the replicas whose heartbeat
\* is in order, the lock is a mutex, which nobody gives up during a pull.
ImplementsMutex == L!Spec

\* A tick that does not know of the loss of its lock has not lost it: a pull
\* is only started with the key in hand, after any failed call to Redis.  The
\* exception is a process that slept past its heartbeat and has yet to serve
\* it (scheduler.go:162-167, 191-197).
StartsAsHolder ==
  [][\A r \in Replicas :
       stage[r] # "pull" /\ stage'[r] = "pull" => holder = r \/ r \in late]_vars

\* "The operator EOA's single nonce sequence is always driven by one process
\* at a time" (README.md:317): it is without failed calls to Redis and pauses,
\* see TickLockProofs; one failed renewal during a pull is enough to lose it.
OneSigner ==
  \A r, q \in Replicas : stage[r] = "pull" /\ stage[q] = "pull" => r = q

\* "A holder that dies without releasing must lose the lock" (lock.go:21), and
\* so must one whose Acquire or Release went wrong, although the key names a
\* replica that never asks for it again.
DeadHolderLosesKey ==
  \A r \in Replicas :
    (holder = r /\ stage[r] \in {"idle", "down"}) ~> (holder # r \/ stage[r] = "ready")

\* Whatever happens to single calls and processes, ticks are begun and ended
\* as long as one process is left ("other replicas sit idle until the leader
\* dies ... and another instance takes over", README.md:317).
TicksGoOn == []<>(\E r \in Replicas : stage[r] = "leave")
=============================================================================

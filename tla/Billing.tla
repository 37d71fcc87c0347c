------------------------------- MODULE Billing -------------------------------
(***************************************************************************)
(* The pull cycle of the subscription backend: the scheduler replicas      *)
(* (scheduler.go), the subscription records they share through the store,  *)
(* the admin API handlers that read and write the same records (api.go,    *)
(* sessions.go), and the chain seen through the submitter (submit.go).     *)
(*                                                                         *)
(* A replica works on a COPY of the record taken when its tick began       *)
(* (DueBefore) and writes that copy back whole, so everything that happens *)
(* to the stored record in between is overwritten.  Each store access and  *)
(* each chain call is an action; everything a handler does between two of  *)
(* them is one step.                                                       *)
(***************************************************************************)
EXTENDS Integers, Sequences, FiniteSets

CONSTANTS
  Users,        \* wallets
  Replicas,     \* server processes, each running one scheduler
  Plans,        \* plan ids
  PlanOptions,  \* the [price, period, active] records an admin may write
  InitialPlans, \* the plan table at the start, in [Plans -> PlanOptions]
  Subscribed,   \* users that hold a new subscription at the start
  MayFail,      \* users whose transferFrom may revert when mined
  Backoffs,     \* dunning policy: the waits after the 1st, 2nd, ... failure
  OpBackoff,    \* the wait after an operator-side failure (5 minutes)
  Century,      \* what a cancellation adds to the clock (100 years)
  Starts,       \* offsets from now that createSub's start_at may have
  Batch,        \* DueBefore's limit
  Faults,       \* the failures of the environment that can happen, see below
  MaxTime, MaxTx, MaxBumps, MaxCalls, MaxCrashes   \* bounds of the model

(***************************************************************************)
(* The faults, each the environment's part in one hazard of the code:      *)
(*   orphan    a replica dies after SendTransaction, before the hash of    *)
(*             the transaction is stored                                   *)
(*   store     an UpsertSubscription (or GetPlan) fails                    *)
(*   resend    the node refuses a fee bump with an unexpected error        *)
(*   late      the transaction mines between the wait that timed out and   *)
(*             the fee bump that follows it                                *)
(*   replaced  an older, already replaced, version of a transaction mines  *)
(*   drop      the mempool drops a transaction for good                    *)
(*   rpc       TransactionReceipt fails while an in-flight hash is polled  *)
(*   renew     Renew of the tick lock fails although the lock is still held*)
(*   lease     the tick lock of a live holder expires                      *)
(*   midtick   an API call runs while a tick is in progress                *)
(*   split     other steps come between an API call's read and its write   *)
(*   checkout  a checkout replaces a subscription whose pull is in flight  *)
(*   proration the pull of a prorated charge can fail                      *)
(***************************************************************************)
FaultKinds == {"orphan", "store", "resend", "late", "replaced", "drop", "rpc",
               "renew", "lease", "midtick", "split", "checkout", "proration"}

Free   == "free"     \* nobody holds the tick lock
Orphan == "orphan"   \* a dead process's lock, until its TTL runs out
Never  == 0          \* the zero time of LastChargedAt; the clock starts at 1
TxIds  == 1..MaxTx
Statuses == {"none", "active", "past_due", "cancelled"}

Plan == [price : Nat, period : Nat \ {0}, active : BOOLEAN]
NoPlan == [price |-> 0, period |-> 1, active |-> FALSE]

\* A broadcast version of a pull: transaction number and fee-bump number.
NoHash == [tx |-> 0, bump |-> 0]
Hash == [tx : TxIds, bump : Nat] \cup {NoHash}

ASSUME ConstantsAssumption ==
  /\ Users # {} /\ Plans # {} /\ PlanOptions \subseteq Plan
  /\ InitialPlans \in [Plans -> PlanOptions]
  /\ Subscribed \subseteq Users /\ MayFail \subseteq Users
  /\ Backoffs \in Seq(Nat \ {0}) /\ OpBackoff \in Nat \ {0}
  /\ Starts \subseteq Nat /\ Batch \in Nat \ {0}
  /\ Faults \subseteq FaultKinds
  /\ MaxTime \in Nat \ {0} /\ MaxTx \in Nat \ {0}
  /\ MaxBumps \in Nat /\ MaxCalls \in Nat /\ MaxCrashes \in Nat
  /\ Century \in Nat /\ Century > MaxTime
  /\ {Free, Orphan} \cap Replicas = {}

VARIABLES
  store,     \* [Users -> Sub]: the subscription records
  plans,     \* [Plans -> Plan]: the plan records
  txs,       \* [TxIds -> Tx]: the pulls ever broadcast, in nonce order
  sent,      \* how many of them there are
  sched,     \* [Replicas -> ...]: what each scheduler is doing, its copies
  lock,      \* the tick lock: a replica, Free or Orphan
  api,       \* the admin call that has read its record and not yet written
  calls,     \* API calls so far (bound MaxCalls)
  crashes,   \* crashes so far (bound MaxCrashes)
  now,       \* the clock
  credited,  \* history: the pulls a scheduler recorded as paid, and as what
  blamed,    \* history: the pulls whose bookkeeping a fault has broken
  epoch      \* history: how often each user (re)started a subscription

vars == <<store, plans, txs, sent, sched, lock, api, calls, crashes, now,
          credited, blamed, epoch>>
-----------------------------------------------------------------------------
(* Records *)

Sub == [user : Users, plan : Plans, status : Statuses, next : Nat, last : Nat,
        pending : Nat, attempts : Nat, inflight : Hash]

NewSub(u, p, start) ==
  [user |-> u, plan |-> p, status |-> "active", next |-> start, last |-> Never,
   pending |-> 0, attempts |-> 0, inflight |-> NoHash]

NoSub(u) == [NewSub(u, CHOOSE p \in Plans : TRUE, 0) EXCEPT !.status = "none"]

Tx == [user : Users, kind : {"regular", "pending"}, due : Nat, period : Nat,
       epoch : Nat, top : Nat, mined : Nat, ok : BOOLEAN, dropped : BOOLEAN]

NoTx == [user |-> CHOOSE u \in Users : TRUE, kind |-> "regular", due |-> 0,
         period |-> 0, epoch |-> 0, top |-> 0, mined |-> 0, ok |-> FALSE,
         dropped |-> FALSE]

\* pc: idle, loop (between two subscriptions), persist (sent, hash not yet
\* stored), wait (SubmitAndWait), bump (its wait timed out), resolve
\* (WaitReceipt on a hash found in the record).
Work == [pc : {"idle", "loop", "persist", "wait", "bump", "resolve"},
         queue : SUBSET Sub, sub : Sub, plan : Plan, tx : 0..MaxTx, bump : Nat,
         kind : {"regular", "pending"}]

AnySub == NoSub(CHOOSE u \in Users : TRUE)
Idle == [pc |-> "idle", queue |-> {}, sub |-> AnySub, plan |-> NoPlan,
         tx |-> 0, bump |-> 0, kind |-> "regular"]
Looping(Q) == [Idle EXCEPT !.pc = "loop", !.queue = Q]

NoCall == [op |-> "none"]
Call == [op : {"cancel", "create"}, user : Users, plan : Plans, start : Nat,
         read : Sub]

\* In the middle of a pull or of polling for one.
Busy(r) == sched[r].pc \in {"persist", "wait", "bump", "resolve"}

AllIdle == \A r \in Replicas : sched[r].pc = "idle"
-----------------------------------------------------------------------------
(* What the handlers compute *)

Billable(s) == s.status \in {"active", "past_due"}

\* The score of a record in subs:due.
Score(s) == IF s.pending # 0 THEN 0 ELSE s.next

DueSet == {store[u] : u \in {v \in Users : /\ Billable(store[v])
                                           /\ Score(store[v]) <= now}}

\* DueBefore: the Batch records of lowest score among the due ones.
DueBefore ==
  {Q \in SUBSET DueSet :
     /\ Cardinality(Q) <= Batch
     /\ Cardinality(Q) < Batch => Q = DueSet
     /\ \A q \in Q, d \in DueSet \ Q : Score(q) <= Score(d)}

Cancelled(s) ==
  [s EXCEPT !.status = "cancelled", !.next = now + Century, !.inflight = NoHash]

\* Mutant: markCharged forgets to clear InFlightTx.
ChargedKeepsHash(s, plan) ==
  [s EXCEPT !.next = s.next + plan.period, !.status = "active",
            !.attempts = 0, !.last = now]

\* markCharged: the period is added to the attempt's own time.
Charged(s, plan) ==
  [s EXCEPT !.next = s.next + plan.period, !.status = "active",
            !.attempts = 0, !.last = now, !.inflight = NoHash]

\* The success branch of pullPending: next, status and attempts stay.
PendingSettled(s) ==
  [s EXCEPT !.pending = 0, !.last = now, !.inflight = NoHash]

\* Mutant: an exhausted policy repeats its last wait instead of cancelling.
FailedForever(s, side) ==
  LET attempts == s.attempts + 1
      rung == IF attempts > Len(Backoffs) THEN Len(Backoffs) ELSE attempts
  IN  IF side = "operator"
      THEN [s EXCEPT !.inflight = NoHash, !.next = now + OpBackoff]
      ELSE [s EXCEPT !.inflight = NoHash, !.attempts = attempts,
                     !.status = "past_due", !.next = now + Backoffs[rung]]

\* handleFailure, with dunning.Policy.NextRetry.
Failed(s, side) ==
  LET attempts == s.attempts + 1 IN
  CASE side = "operator" ->
         [s EXCEPT !.inflight = NoHash, !.next = now + OpBackoff]
    [] side = "user" /\ attempts > Len(Backoffs) ->
         Cancelled([s EXCEPT !.attempts = attempts])
    [] OTHER ->
         [s EXCEPT !.inflight = NoHash, !.attempts = attempts,
                   !.status = "past_due", !.next = now + Backoffs[attempts]]

\* proratedDiff: nothing unless an upgrade in the middle of a paid cycle.
ProratedDiff(s, old, new) ==
  LET cycle == s.next - s.last
      remaining == s.next - now
      diff == new.price - old.price
  IN  IF s.last # Never /\ cycle > 0 /\ remaining > 0 /\ diff > 0
      THEN (diff * remaining) \div cycle
      ELSE 0

\* Mutant: a repeated createSub restarts the anchor of a running subscription.
PlanAppliedAnew(s, p, start) ==
  IF s.status = "none" THEN NewSub(s.user, p, start)
  ELSE [s EXCEPT !.plan = p, !.status = "active", !.next = start]

\* Mutant: the sign of the proration is not looked at.
PlanAppliedUnsigned(s, p, start) ==
  CASE s.status = "none" -> NewSub(s.user, p, start)
    [] s.status = "cancelled" /\ s.plan = p ->
         [s EXCEPT !.status = "active", !.next = start]
    [] OTHER -> [s EXCEPT !.plan = p, !.status = "active", !.attempts = 0,
                          !.pending = plans[p].price - plans[s.plan].price]

\* applyPlan on an existing record.
PlanApplied(s, p, start) ==
  LET diff == ProratedDiff(s, plans[s.plan], plans[p]) IN
  CASE s.status = "none" -> NewSub(s.user, p, start)
    [] s.status # "none" /\ s.plan = p ->
         IF s.status = "cancelled"
         THEN [s EXCEPT !.status = "active", !.next = start]
         ELSE s
    [] OTHER -> [s EXCEPT !.plan = p, !.status = "active", !.attempts = 0,
                          !.pending = IF diff > 0 THEN diff ELSE s.pending]

\* A call that starts the billing anchor anew.
Restarts(s, p) == s.status = "none" \/ (s.status = "cancelled" /\ s.plan = p)
-----------------------------------------------------------------------------
(* Store and chain access *)

\* UpsertSubscription by a replica.  Without the tick lock the write is an
\* effect of the lease fault, and so is the loss of a hash it overwrites.
Upsert(r, rec) ==
  /\ store' = [store EXCEPT ![rec.user] = rec]
  /\ blamed' = IF lock = r THEN blamed
               ELSE blamed \cup ({store[rec.user].inflight.tx, rec.inflight.tx} \ {0})

HasReceipt(r) ==
  /\ sched[r].tx \in TxIds
  /\ txs[sched[r].tx].mined # 0
  /\ txs[sched[r].tx].mined = sched[r].bump

Return(r) == sched' = [sched EXCEPT ![r] = Looping(sched[r].queue)]

\* The record written when the pull of replica r succeeded.
Settled(r) == IF sched[r].kind = "pending" THEN PendingSettled(sched[r].sub)
              ELSE Charged(sched[r].sub, sched[r].plan)

Credit(r) ==
  /\ Upsert(r, Settled(r))
  /\ credited' = credited \cup {[tx |-> sched[r].tx, as |-> sched[r].kind]}

\* SubmitAndWait can fail on a prorated charge only under that fault.
PullMayFail(kind) == kind = "regular" \/ "proration" \in Faults

\* Scheduler steps interleave with a half-done API call only under "split".
Quiet == api = NoCall \/ "split" \in Faults
-----------------------------------------------------------------------------
Init ==
  /\ plans = InitialPlans
  /\ \E p \in [Users -> {q \in Plans : InitialPlans[q].active}] :
       store = [u \in Users |-> IF u \in Subscribed THEN NewSub(u, p[u], 1)
                                ELSE NoSub(u)]
  /\ txs = [n \in TxIds |-> NoTx] /\ sent = 0
  /\ sched = [r \in Replicas |-> Idle] /\ lock = Free
  /\ api = NoCall /\ calls = 0 /\ crashes = 0 /\ now = 1
  /\ credited = {} /\ blamed = {} /\ epoch = [u \in Users |-> 0]
-----------------------------------------------------------------------------
(* The scheduler: Tick *)

StartTick(r) ==
  /\ Quiet /\ sched[r].pc = "idle" /\ lock = Free
  /\ lock' = r
  /\ \E Q \in DueBefore : sched' = [sched EXCEPT ![r] = Looping(Q)]
  /\ UNCHANGED <<store, plans, txs, sent, api, calls, crashes, now, credited,
                 blamed, epoch>>

\* Mutant: a tick ends without Release.
EndTickKeepsLock(r) ==
  /\ Quiet /\ sched[r].pc = "loop" /\ sched[r].queue = {}
  /\ sched' = [sched EXCEPT ![r] = Idle]
  /\ UNCHANGED <<store, plans, txs, sent, lock, api, calls, crashes, now,
                 credited, blamed, epoch>>

\* The tick ends when the batch is done or the heartbeat reported the lock
\* lost; Release only frees a lock that is still the replica's own.
EndTick(r) ==
  /\ Quiet /\ sched[r].pc = "loop"
  /\ sched[r].queue = {} \/ lock # r \/ "renew" \in Faults
  /\ lock' = IF lock = r THEN Free ELSE lock
  /\ sched' = [sched EXCEPT ![r] = Idle]
  /\ UNCHANGED <<store, plans, txs, sent, api, calls, crashes, now, credited,
                 blamed, epoch>>

\* s is the next record of the snapshot that replica r takes up.
Takes(r, s) ==
  /\ Quiet /\ sched[r].pc = "loop" /\ s \in sched[r].queue
  /\ \A t \in sched[r].queue : Score(s) <= Score(t)

Rest(r, s) == Looping(sched[r].queue \ {s})

StartResolve(r, s) ==
  /\ Takes(r, s) /\ s.inflight # NoHash
  /\ sched' = [sched EXCEPT ![r] =
       [Rest(r, s) EXCEPT !.pc = "resolve", !.sub = s, !.plan = plans[s.plan],
                          !.tx = s.inflight.tx, !.bump = s.inflight.bump]]
  /\ UNCHANGED <<store, plans, txs, sent, lock, api, calls, crashes, now,
                 credited, blamed, epoch>>

CancelInactive(r, s) ==
  /\ Takes(r, s) /\ s.inflight = NoHash /\ ~plans[s.plan].active
  /\ Upsert(r, Cancelled(s))
  /\ sched' = [sched EXCEPT ![r] = Rest(r, s)]
  /\ UNCHANGED <<plans, txs, sent, lock, api, calls, crashes, now, credited, epoch>>

KindOf(s) == IF s.pending # 0 THEN "pending" ELSE "regular"

\* SubmitAndWait fails before anything is broadcast: nonce, estimate or send.
SubmitFails(r, s, side) ==
  /\ Takes(r, s) /\ s.inflight = NoHash /\ plans[s.plan].active
  /\ PullMayFail(KindOf(s)) /\ (side = "user" => s.user \in MayFail)
  /\ Upsert(r, Failed(s, side))
  /\ sched' = [sched EXCEPT ![r] = Rest(r, s)]
  /\ UNCHANGED <<plans, txs, sent, lock, api, calls, crashes, now, credited, epoch>>

\* The first SendTransaction of SubmitAndWait.
Broadcast(r, s) ==
  LET n == sent + 1
      plan == plans[s.plan]
  IN
  /\ Takes(r, s) /\ s.inflight = NoHash /\ plan.active /\ sent < MaxTx
  /\ sent' = n
  /\ txs' = [txs EXCEPT ![n] =
       [NoTx EXCEPT !.user = s.user, !.kind = KindOf(s), !.due = s.next,
                    !.period = plan.period, !.epoch = epoch[s.user], !.top = 1]]
  /\ sched' = [sched EXCEPT ![r] =
       [Rest(r, s) EXCEPT !.pc = "persist", !.sub = s, !.plan = plan, !.tx = n,
                          !.bump = 1, !.kind = KindOf(s)]]
  /\ UNCHANGED <<store, plans, lock, api, calls, crashes, now, credited, blamed, epoch>>
-----------------------------------------------------------------------------
(* The scheduler: inside SubmitAndWait and WaitReceipt *)

\* Mutant: onSubmit stores the record without the hash.
WithoutHash(r) == sched[r].sub

WithHash(r) == [sched[r].sub EXCEPT !.inflight = [tx |-> sched[r].tx,
                                                  bump |-> sched[r].bump]]

\* onSubmit: InFlightTx is set on the copy and the whole copy is stored.
PersistHash(r) ==
  /\ Quiet /\ sched[r].pc = "persist"
  /\ Upsert(r, WithHash(r))
  /\ sched' = [sched EXCEPT ![r].pc = "wait", ![r].sub = WithHash(r)]
  /\ UNCHANGED <<plans, txs, sent, lock, api, calls, crashes, now, credited, epoch>>

\* SubmitAndWait only logs an error of onSubmit.
PersistHashFails(r) ==
  /\ Quiet /\ sched[r].pc = "persist" /\ "store" \in Faults
  /\ blamed' = blamed \cup {sched[r].tx}
  /\ sched' = [sched EXCEPT ![r].pc = "wait", ![r].sub = WithHash(r)]
  /\ UNCHANGED <<store, plans, txs, sent, lock, api, calls, crashes, now,
                 credited, epoch>>

\* Mutant: the status of the receipt is not looked at.
ReceiptUnchecked(r) ==
  /\ Quiet /\ sched[r].pc \in {"wait", "resolve"} /\ HasReceipt(r)
  /\ Credit(r) /\ Return(r)
  /\ UNCHANGED <<plans, txs, sent, lock, api, calls, crashes, now, epoch>>

\* markCharged or pullPending's success branch, from either wait.
ReceiptOk(r) ==
  /\ Quiet /\ sched[r].pc \in {"wait", "resolve"}
  /\ HasReceipt(r) /\ txs[sched[r].tx].ok
  /\ Credit(r) /\ Return(r)
  /\ UNCHANGED <<plans, txs, sent, lock, api, calls, crashes, now, epoch>>

ReceiptReverted(r) ==
  /\ Quiet /\ sched[r].pc \in {"wait", "resolve"}
  /\ HasReceipt(r) /\ ~txs[sched[r].tx].ok
  /\ Upsert(r, Failed(sched[r].sub, "user")) /\ Return(r)
  /\ UNCHANGED <<plans, txs, sent, lock, api, calls, crashes, now, credited, epoch>>

\* Mutant: ErrTxStuck is handled like any other failure.
GiveUpForgets(r) ==
  /\ Quiet /\ sched[r].pc = "wait" /\ ~HasReceipt(r)
  /\ Upsert(r, Failed(sched[r].sub, "operator")) /\ Return(r)
  /\ UNCHANGED <<plans, txs, sent, lock, api, calls, crashes, now, credited, epoch>>

\* ErrTxStuck: the webhook goes out and the record stays as it is.
GiveUp(r) ==
  /\ Quiet /\ sched[r].pc = "wait" /\ ~HasReceipt(r)
  /\ Return(r)
  /\ UNCHANGED <<store, plans, txs, sent, lock, api, calls, crashes, now,
                 credited, blamed, epoch>>

\* The 60 seconds of an attempt are over and the fee is found too low.
Timeout(r) ==
  /\ Quiet /\ sched[r].pc = "wait" /\ ~HasReceipt(r)
  /\ txs[sched[r].tx].top <= MaxBumps
  /\ sched' = [sched EXCEPT ![r].pc = "bump"]
  /\ UNCHANGED <<store, plans, txs, sent, lock, api, calls, crashes, now,
                 credited, blamed, epoch>>

\* Mutant: onSubmit is not called for a replacement.
ResendSilently(r) ==
  LET n == sched[r].tx IN
  /\ Quiet /\ sched[r].pc = "bump" /\ txs[n].mined = 0
  /\ txs' = [txs EXCEPT ![n].top = @ + 1, ![n].dropped = FALSE]
  /\ sched' = [sched EXCEPT ![r].pc = "wait", ![r].bump = txs[n].top + 1]
  /\ UNCHANGED <<store, plans, sent, lock, api, calls, crashes, now, credited,
                 blamed, epoch>>

\* The replacement is sent with the same nonce and a new hash.
Resend(r) ==
  LET n == sched[r].tx IN
  /\ Quiet /\ sched[r].pc = "bump" /\ txs[n].mined = 0
  /\ txs' = [txs EXCEPT ![n].top = @ + 1, ![n].dropped = FALSE]
  /\ sched' = [sched EXCEPT ![r].pc = "persist", ![r].bump = txs[n].top + 1]
  /\ UNCHANGED <<store, plans, sent, lock, api, calls, crashes, now, credited,
                 blamed, epoch>>

\* "underpriced", or the head could not be fetched: wait for the old hash.
NoBump(r) ==
  /\ Quiet /\ sched[r].pc = "bump"
  /\ sched' = [sched EXCEPT ![r].pc = "wait"]
  /\ UNCHANGED <<store, plans, txs, sent, lock, api, calls, crashes, now,
                 credited, blamed, epoch>>

\* Any other send error ends SubmitAndWait; handleFailure clears InFlightTx.
ResendFails(r, side) ==
  /\ Quiet /\ sched[r].pc = "bump" /\ "resend" \in Faults
  /\ store' = [store EXCEPT ![sched[r].sub.user] = Failed(sched[r].sub, side)]
  /\ blamed' = blamed \cup
       ({sched[r].tx, store[sched[r].sub.user].inflight.tx} \ {0})
  /\ Return(r)
  /\ UNCHANGED <<plans, txs, sent, lock, api, calls, crashes, now, credited, epoch>>

\* "nonce too low": the receipt of the last hash is fetched, its status is
\* not looked at.
LateReceipt(r) ==
  /\ Quiet /\ sched[r].pc = "bump" /\ "late" \in Faults /\ HasReceipt(r)
  /\ Credit(r) /\ Return(r)
  /\ UNCHANGED <<plans, txs, sent, lock, api, calls, crashes, now, epoch>>

\* "nonce too low", but another version mined: NotFound is a user's failure.
LateNotFound(r) ==
  /\ Quiet /\ sched[r].pc = "bump" /\ "late" \in Faults
  /\ txs[sched[r].tx].mined # 0 /\ ~HasReceipt(r)
  /\ store' = [store EXCEPT ![sched[r].sub.user] = Failed(sched[r].sub, "user")]
  /\ blamed' = blamed \cup
       ({sched[r].tx, store[sched[r].sub.user].inflight.tx} \ {0})
  /\ Return(r)
  /\ UNCHANGED <<plans, txs, sent, lock, api, calls, crashes, now, credited, epoch>>

\* resolveInFlight leaves the record for the next tick.
ResolveRpcError(r) ==
  /\ Quiet /\ sched[r].pc = "resolve" /\ "rpc" \in Faults
  /\ Return(r)
  /\ UNCHANGED <<store, plans, txs, sent, lock, api, calls, crashes, now,
                 credited, blamed, epoch>>

\* The final upsert of processOne fails: the error is logged by Tick.
FinalUpsertFails(r) ==
  /\ Quiet /\ "store" \in Faults
  /\ sched[r].pc \in {"wait", "resolve"} /\ HasReceipt(r)
  /\ Return(r)
  /\ UNCHANGED <<store, plans, txs, sent, lock, api, calls, crashes, now,
                 credited, blamed, epoch>>
-----------------------------------------------------------------------------
(* Crashes, the lock's TTL, the chain and the clock *)

\* Death or shutdown of a process: its copies are gone, its lock stays.
Crash(r) ==
  LET w == sched[r] IN
  /\ w.pc # "idle" /\ crashes < MaxCrashes
  /\ w.pc = "persist" => "orphan" \in Faults
  /\ crashes' = crashes + 1
  /\ sched' = [sched EXCEPT ![r] = Idle]
  /\ lock' = IF lock = r THEN Orphan ELSE lock
  /\ blamed' = IF w.pc = "persist" THEN blamed \cup {w.tx} ELSE blamed
  /\ UNCHANGED <<store, plans, txs, sent, api, calls, now, credited, epoch>>

LeaseExpires ==
  /\ lock = Orphan \/ (lock # Free /\ "lease" \in Faults)
  /\ lock' = Free
  /\ UNCHANGED <<store, plans, txs, sent, sched, api, calls, crashes, now,
                 credited, blamed, epoch>>

\* Nonces mine in order.
Mine(n, b, ok) ==
  /\ txs[n].mined = 0 /\ ~txs[n].dropped
  /\ \A m \in 1..(n - 1) : txs[m].mined # 0 \/ txs[m].dropped
  /\ b = txs[n].top \/ "replaced" \in Faults
  /\ ~ok => txs[n].user \in MayFail /\ PullMayFail(txs[n].kind)
  /\ txs' = [txs EXCEPT ![n].mined = b, ![n].ok = ok]
  /\ UNCHANGED <<store, plans, sent, sched, lock, api, calls, crashes, now,
                 credited, blamed, epoch>>

Drop(n) ==
  /\ "drop" \in Faults /\ txs[n].mined = 0 /\ ~txs[n].dropped
  /\ txs' = [txs EXCEPT ![n].dropped = TRUE]
  /\ UNCHANGED <<store, plans, sent, sched, lock, api, calls, crashes, now,
                 credited, blamed, epoch>>

AdvanceTime ==
  /\ now < MaxTime
  /\ now' = now + 1
  /\ UNCHANGED <<store, plans, txs, sent, sched, lock, api, calls, crashes,
                 credited, blamed, epoch>>
-----------------------------------------------------------------------------
(* The API *)

CallAllowed == api = NoCall /\ calls < MaxCalls /\ (AllIdle \/ "midtick" \in Faults)

CancelSub(u) ==
  /\ CallAllowed /\ store[u].status # "none"
  /\ api' = [op |-> "cancel", user |-> u, plan |-> store[u].plan, start |-> now,
             read |-> store[u]]
  /\ calls' = calls + 1
  /\ UNCHANGED <<store, plans, txs, sent, sched, lock, crashes, now, credited,
                 blamed, epoch>>

CreateSub(u, p, start) ==
  /\ CallAllowed /\ plans[p].active
  /\ api' = [op |-> "create", user |-> u, plan |-> p, start |-> start,
             read |-> store[u]]
  /\ calls' = calls + 1
  /\ UNCHANGED <<store, plans, txs, sent, sched, lock, crashes, now, credited,
                 blamed, epoch>>

\* The record the call writes: its own copy, changed.  A stale copy overwrites
\* the hash in the record, or brings back one that was taken out of it.
CallResult(c) ==
  IF c.op = "create" THEN PlanApplied(c.read, c.plan, c.start)
  ELSE [c.read EXCEPT !.status = "cancelled", !.next = now + Century]

WriteCall ==
  LET u == api.user
      stale == api.read.inflight # store[u].inflight
  IN
  /\ api # NoCall
  /\ store' = [store EXCEPT ![u] = CallResult(api)]
  /\ blamed' = IF stale
               THEN blamed \cup ({store[u].inflight.tx, api.read.inflight.tx} \ {0})
               ELSE blamed
  /\ epoch' = IF api.op = "create" /\ Restarts(api.read, api.plan)
              THEN [epoch EXCEPT ![u] = @ + 1] ELSE epoch
  /\ api' = NoCall
  /\ UNCHANGED <<plans, txs, sent, sched, lock, calls, crashes, now, credited>>

UpsertPlan(p, plan) ==
  /\ calls < MaxCalls /\ plan # plans[p]
  /\ plans' = [plans EXCEPT ![p] = plan]
  /\ calls' = calls + 1
  /\ UNCHANGED <<store, txs, sent, sched, lock, api, crashes, now, credited,
                 blamed, epoch>>

\* The end of completeSession: a fresh record replaces whatever is stored.
CompleteCheckout(u, p) ==
  /\ calls < MaxCalls /\ api = NoCall /\ plans[p].active
  /\ (AllIdle /\ store[u].inflight = NoHash) \/ "checkout" \in Faults
  /\ store' = [store EXCEPT ![u] = NewSub(u, p, now + plans[p].period)]
  /\ blamed' = blamed \cup ({store[u].inflight.tx} \ {0})
  /\ epoch' = [epoch EXCEPT ![u] = @ + 1]
  /\ calls' = calls + 1
  /\ UNCHANGED <<plans, txs, sent, sched, lock, api, crashes, now, credited>>
-----------------------------------------------------------------------------
SubStep(r) ==
  \E s \in sched[r].queue :
     \/ StartResolve(r, s) \/ CancelInactive(r, s) \/ Broadcast(r, s)
     \/ \E side \in {"operator", "user"} : SubmitFails(r, s, side)

WaitStep(r) ==
  \/ PersistHash(r) \/ PersistHashFails(r) \/ ReceiptOk(r) \/ ReceiptReverted(r)
  \/ GiveUp(r) \/ Timeout(r) \/ Resend(r) \/ NoBump(r)
  \/ \E side \in {"operator", "user"} : ResendFails(r, side)
  \/ LateReceipt(r) \/ LateNotFound(r) \/ ResolveRpcError(r) \/ FinalUpsertFails(r)

SchedStep(r) == StartTick(r) \/ EndTick(r) \/ SubStep(r) \/ WaitStep(r)

ChainStep ==
  \E n \in 1..sent :
     \/ Drop(n)
     \/ \E b \in 1..txs[n].top, ok \in BOOLEAN : Mine(n, b, ok)

ApiStep ==
  \/ WriteCall
  \/ \E u \in Users :
       \/ CancelSub(u)
       \/ \E p \in Plans :
            \/ CompleteCheckout(u, p)
            \/ \E d \in Starts : CreateSub(u, p, now + d)
  \/ \E p \in Plans, plan \in PlanOptions : UpsertPlan(p, plan)

Next ==
  \/ \E r \in Replicas : SchedStep(r) \/ Crash(r)
  \/ LeaseExpires \/ ChainStep \/ ApiStep \/ AdvanceTime

Spec == Init /\ [][Next]_vars

(***************************************************************************)
(* Fairness.  The scheduler goroutine keeps running (Run's ticker fires    *)
(* for ever, and every call it makes returns), the TTL of a dead process's *)
(* lock runs out, an API handler that has read writes, and the chain mines *)
(* what sits in the mempool.  Nothing is promised for crashes, calls,      *)
(* drops, other faults or the clock.                                       *)
(***************************************************************************)
Mining == \E n \in 1..sent, ok \in BOOLEAN : Mine(n, txs[n].top, ok)

Fairness ==
  /\ \A r \in Replicas : WF_vars(SchedStep(r))
  /\ WF_vars(lock = Orphan /\ LeaseExpires)
  /\ WF_vars(WriteCall)
  /\ WF_vars(Mining)

FairSpec == Spec /\ Fairness
-----------------------------------------------------------------------------
(* Properties *)

(* Every record, copy and history variable keeps its type: in particular a *)
(* hash in a record or in a copy always names a broadcast slot.            *)
TypeOK ==
  /\ store \in [Users -> Sub] /\ \A u \in Users : store[u].user = u
  /\ plans \in [Plans -> Plan]
  /\ txs \in [TxIds -> Tx] /\ sent \in 0..MaxTx
  /\ sched \in [Replicas -> Work]
  /\ \A r \in Replicas : Busy(r) => sched[r].tx \in TxIds
  /\ lock \in Replicas \cup {Free, Orphan}
  /\ api \in Call \cup {NoCall} /\ (api # NoCall => api.read.user = api.user)
  /\ calls \in Nat /\ crashes \in Nat /\ now \in Nat
  /\ credited \subseteq [tx : TxIds, as : {"regular", "pending"}]
  /\ blamed \subseteq TxIds
  /\ epoch \in [Users -> Nat]

CreditedTx(n) == \E c \in credited : c.tx = n

\* A pull that has taken, or may still take, the user's money and that no
\* scheduler has recorded as paid.
Open(n) ==
  /\ ~txs[n].dropped /\ ~CreditedTx(n)
  /\ txs[n].mined = 0 \/ txs[n].ok

Durable(n) == store[txs[n].user].inflight.tx = n

(* The comment on InFlightTx (store.go:102-106): a pull whose receipt was  *)
(* not seen is found again after a restart.  Outside the instant between   *)
(* SendTransaction and onSubmit's write, every open pull is named by its   *)
(* user's record, or a listed fault is to blame.                           *)
OpenPullsAccounted ==
  \A n \in 1..sent : Open(n) =>
     \/ Durable(n)
     \/ \E r \in Replicas : sched[r].pc = "persist" /\ sched[r].tx = n
     \/ n \in blamed

(* The same without excuses, for environments without those faults.        *)
NoPullLost ==
  \A n \in 1..sent : Open(n) =>
     \/ Durable(n)
     \/ \E r \in Replicas : sched[r].pc = "persist" /\ sched[r].tx = n

(* A replacement has a new hash, and only the newest one is still polled:  *)
(* outside the instant between a resend and onSubmit's write, the hash in  *)
(* the record is the newest of its pull, or a listed fault is to blame.    *)
PollsNewestVersion ==
  \A n \in 1..sent : Open(n) /\ Durable(n) =>
     \/ store[txs[n].user].inflight.bump = txs[n].top
     \/ \E r \in Replicas : sched[r].pc = "persist" /\ sched[r].tx = n
     \/ n \in blamed

(* "MUST poll this receipt before submitting another pull" (store.go:104): *)
(* a user never has two open pulls.                                        *)
OneOpenPull ==
  \A m, n \in 1..sent :
     m # n /\ Open(m) /\ Open(n) => txs[m].user # txs[n].user

Paid(n) == txs[n].mined # 0 /\ txs[n].ok

(* Across crashes, retries, dunning and admin calls a user pays the        *)
(* regular price at most once per period of one subscription: "users pay   *)
(* the same total per year" (scheduler.go:437).                            *)
AtMostOncePerPeriod ==
  \A m, n \in 1..sent :
     /\ m < n /\ Paid(m) /\ Paid(n)
     /\ txs[m].kind = "regular" /\ txs[n].kind = "regular"
     /\ txs[m].user = txs[n].user /\ txs[m].epoch = txs[n].epoch
     => txs[n].due >= txs[m].due + txs[m].period

(* A plan change may shorten what a pull in flight has paid for, and the   *)
(* retry of a prorated pull may bring the next charge forward              *)
(* (scheduler.go:532), but no due date of a subscription is paid twice.    *)
OncePerDate ==
  \A m, n \in 1..sent :
     /\ m < n /\ Paid(m) /\ Paid(n)
     /\ txs[m].kind = "regular" /\ txs[n].kind = "regular"
     /\ txs[m].user = txs[n].user /\ txs[m].epoch = txs[n].epoch
     => txs[n].due > txs[m].due

(* What became of pull n, as PullLedger sees it.                            *)
LedgerState(n) ==
  CASE n \notin 1..sent -> "unsent"
    [] CreditedTx(n) -> "booked"
    [] OTHER ->
         IF txs[n].dropped THEN "lost"
         ELSE IF txs[n].mined = 0 THEN "open"
         ELSE IF txs[n].ok THEN "taken" ELSE "refused"

LedgerPulls == [n \in TxIds |-> [user |-> txs[n].user, state |-> LedgerState(n)]]

Ledger == INSTANCE PullLedger WITH Pulls <- TxIds, pulls <- LedgerPulls

(* Seen from the customer's account the whole cycle is PullLedger: sending *)
(* (scheduler.go:299), polling what is in flight (scheduler.go:406),       *)
(* booking (scheduler.go:430), across crashes, fee bumps and API calls.    *)
ImplementsLedger == Ledger!Spec

(* markCharged runs once per pull, not once per receipt seen: every run    *)
(* moves the date by a period and sends subscription.charged.              *)
RecordedOnce ==
  [][\A r \in Replicas : ReceiptOk(r) => ~CreditedTx(sched[r].tx)]_vars

(* A scheduler records as paid only what the chain has paid.               *)
CreditsAreReal == \A c \in credited : Paid(c.tx)

(* A prorated charge is settled as one, a regular charge as one: the code  *)
(* clears PendingChargeAtomic "on successful pull" (store.go:91-94).       *)
SettledAsBroadcast == \A c \in credited : c.as = txs[c.tx].kind

(* A past-due record is on a rung of the dunning ladder: its failures do   *)
(* not exceed the policy's backoffs, whoever overwrites whom.              *)
PastDueOnLadder ==
  \A u \in Users : store[u].status = "past_due" =>
     store[u].attempts \in 1..Len(Backoffs)

(* Every pull left in flight is resolved: polled until its receipt is      *)
(* there and taken out of the record, unless the subscription is cancelled *)
(* (cancelSub keeps InFlightTx, and a cancelled record is never due).      *)
InFlightResolved ==
  \A u \in Users, n \in TxIds :
     Billable(store[u]) /\ store[u].inflight.tx = n
       ~> ~Billable(store[u]) \/ store[u].inflight.tx # n

(* "On ambiguity (no receipt yet), leave for next tick" (scheduler.go:416): *)
(* polling an in-flight hash comes to an end.                              *)
ResolveReturns ==
  \A r \in Replicas : sched[r].pc = "resolve" ~> sched[r].pc # "resolve"

(* A due subscription is served: charged, put off by a retry or cancelled. *)
DueServed ==
  \A u \in Users :
     Billable(store[u]) /\ store[u].next <= now
       ~> ~Billable(store[u]) \/ store[u].next > now
=============================================================================

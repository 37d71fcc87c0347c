---------------------------- MODULE BillingProofs ----------------------------
(***************************************************************************)
(* Proofs about Billing, for every value of its constants: typing, and the *)
(* accounting of open pulls under every combination of faults.             *)
(***************************************************************************)
EXTENDS Billing, TLAPS

-----------------------------------------------------------------------------
(* The inductive invariant *)

\* A pull that can never again be charged without being recorded: it was
\* recorded as paid, or it reverted.
Gone(n) == CreditedTx(n) \/ (txs[n].mined # 0 /\ ~txs[n].ok)

\* The hash in a copy of a record names a pull of that record's user.
RefOK(s) == s.inflight.tx # 0 =>
              /\ s.inflight.tx \in 1..sent
              /\ txs[s.inflight.tx].user = s.user

\* A record that does not exist has no hash.
AbsentOK(s) == s.status = "none" => s.inflight = NoHash

RefsOK ==
  /\ \A u \in Users : RefOK(store[u]) /\ AbsentOK(store[u])
  /\ api # NoCall => RefOK(api.read) /\ AbsentOK(api.read)
  /\ \A r \in Replicas :
       /\ \A s \in sched[r].queue : RefOK(s) /\ Billable(s)
       /\ Busy(r) =>
            /\ sched[r].tx <= sent
            /\ txs[sched[r].tx].user = sched[r].sub.user
            /\ sched[r].sub.status # "none"

\* A snapshot holds one record per user, and none of the user worked on.
QueuesOK ==
  \A r \in Replicas :
    /\ \A s, t \in sched[r].queue : s.user = t.user => s = t
    /\ Busy(r) =>
         \A s \in sched[r].queue : s.user # sched[r].sub.user

\* What may be found in the stored record of a user while the lock's holder
\* works with a copy that names pull n: nothing else that still matters.
Agrees(u, n) ==
  LET m == store[u].inflight.tx IN m \in {0, n} \cup blamed \/ Gone(m)

\* The copies of the tick lock's holder are not outdated.
CopiesFresh ==
  \A r \in Replicas : lock = r =>
    /\ \A s \in sched[r].queue : Agrees(s.user, s.inflight.tx)
    /\ Busy(r) => Agrees(sched[r].sub.user, sched[r].tx)

Accounted ==
  \A n \in 1..sent :
     \/ Gone(n) \/ Durable(n) \/ n \in blamed
     \/ \E r \in Replicas : sched[r].pc = "persist" /\ sched[r].tx = n

IInv == TypeOK /\ RefsOK /\ QueuesOK /\ CopiesFresh /\ Accounted
-----------------------------------------------------------------------------
(* What the handlers compute *)

\* The constant records have their types.
LEMMA ConstantRecords ==
  /\ NoHash \in Hash /\ NoPlan \in Plan
  /\ \A u \in Users : /\ NoSub(u) \in Sub /\ NoSub(u).user = u
                      /\ NoSub(u).inflight = NoHash
  /\ \A u \in Users, p \in Plans, t \in Nat :
       /\ NewSub(u, p, t) \in Sub /\ NewSub(u, p, t).user = u
       /\ NewSub(u, p, t).inflight = NoHash /\ NewSub(u, p, t).status = "active"
  /\ NoTx \in Tx
  /\ Idle \in Work
  /\ \A Q \in SUBSET Sub : Looping(Q) \in Work
<1>1. /\ NoHash \in Hash /\ NoPlan \in Plan
      /\ (CHOOSE p \in Plans : TRUE) \in Plans
      /\ (CHOOSE u \in Users : TRUE) \in Users
  BY ConstantsAssumption DEF ConstantsAssumption, NoHash, Hash, NoPlan, Plan
<1>2. \A u \in Users, p \in Plans, t \in Nat :
        /\ NewSub(u, p, t) \in Sub /\ NewSub(u, p, t).user = u
        /\ NewSub(u, p, t).inflight = NoHash /\ NewSub(u, p, t).status = "active"
  BY <1>1 DEF NewSub, Sub, Never, Statuses
<1>3. \A u \in Users : NoSub(u) \in Sub /\ NoSub(u).user = u /\ NoSub(u).inflight = NoHash
  BY <1>1, <1>2 DEF NoSub, Sub, Statuses
<1>4. NoTx \in Tx
  BY <1>1 DEF NoTx, Tx
<1>5. Idle \in Work
  <2>1. AnySub \in Sub
    BY <1>1, <1>3 DEF AnySub
  <2>2. 0 \in 0..MaxTx
    BY ConstantsAssumption DEF ConstantsAssumption
  <2> QED BY <1>1, <2>1, <2>2 DEF Idle, Work
<1>6. \A Q \in SUBSET Sub : Looping(Q) \in Work
  BY <1>5 DEF Looping, Work
<1> QED BY <1>1, <1>2, <1>3, <1>4, <1>5, <1>6

\* A failed, cancelled or settled record keeps its user and loses its hash.
LEMMA ClearedRecords ==
  ASSUME now \in Nat, NEW s \in Sub, NEW plan \in Plan
  PROVE  /\ Cancelled(s) \in Sub /\ Cancelled(s).user = s.user
         /\ Cancelled(s).inflight = NoHash /\ Cancelled(s).status = "cancelled"
         /\ Charged(s, plan) \in Sub /\ Charged(s, plan).user = s.user
         /\ Charged(s, plan).inflight = NoHash /\ Charged(s, plan).status = "active"
         /\ PendingSettled(s) \in Sub /\ PendingSettled(s).user = s.user
         /\ PendingSettled(s).inflight = NoHash
         /\ PendingSettled(s).status = s.status
<1> DEFINE far == now + Century
           due == s.next + plan.period
<1>1. NoHash \in Hash /\ far \in Nat /\ due \in Nat
  <2>1. NoHash \in Hash /\ Century \in Nat
    BY ConstantRecords, ConstantsAssumption DEF ConstantsAssumption
  <2>2. s.next \in Nat /\ plan.period \in Nat
    BY DEF Sub, Plan
  <2> QED BY <2>1, <2>2
<1>2. /\ Cancelled(s) =
           [s EXCEPT !.status = "cancelled", !.next = far, !.inflight = NoHash]
      /\ Charged(s, plan) =
           [s EXCEPT !.next = due, !.status = "active", !.attempts = 0,
                     !.last = now, !.inflight = NoHash]
  BY DEF Cancelled, Charged
<1> HIDE DEF far, due
<1>3. /\ Cancelled(s) \in Sub /\ Cancelled(s).user = s.user
      /\ Cancelled(s).inflight = NoHash /\ Cancelled(s).status = "cancelled"
  BY <1>1, <1>2 DEF Sub, Statuses
<1>4. /\ Charged(s, plan) \in Sub /\ Charged(s, plan).user = s.user
      /\ Charged(s, plan).inflight = NoHash /\ Charged(s, plan).status = "active"
  <2>1. 0 \in Nat
    OBVIOUS
  <2> QED BY <1>1, <1>2, <2>1 DEF Sub, Statuses
<1>5. /\ PendingSettled(s) \in Sub /\ PendingSettled(s).user = s.user
      /\ PendingSettled(s).inflight = NoHash
      /\ PendingSettled(s).status = s.status
  BY <1>1 DEF PendingSettled, Sub
<1> QED BY <1>3, <1>4, <1>5

LEMMA FailedRecords ==
  ASSUME now \in Nat, NEW s \in Sub, NEW side \in {"operator", "user"}
  PROVE  /\ Failed(s, side) \in Sub /\ Failed(s, side).user = s.user
         /\ Failed(s, side).inflight = NoHash
         /\ s.status # "none" => Failed(s, side).status # "none"
<1> DEFINE attempts == s.attempts + 1
           soon == now + OpBackoff
           later == now + Backoffs[attempts]
<1>1. attempts \in Nat /\ attempts > 0 /\ soon \in Nat /\ NoHash \in Hash
  <2>1. NoHash \in Hash /\ OpBackoff \in Nat
    BY ConstantRecords, ConstantsAssumption DEF ConstantsAssumption
  <2>2. s.attempts \in Nat
    BY DEF Sub
  <2> QED BY <2>1, <2>2
<1>2. CASE side = "operator"
  <2>1. Failed(s, side) = [s EXCEPT !.inflight = NoHash, !.next = soon]
    BY <1>2 DEF Failed
  <2> HIDE DEF soon
  <2> QED BY <1>1, <2>1 DEF Sub, Statuses
<1>3. CASE side = "user" /\ attempts > Len(Backoffs)
  <2> DEFINE t == [s EXCEPT !.attempts = attempts]
  <2>1. Failed(s, side) = Cancelled(t)
    BY <1>3 DEF Failed
  <2> HIDE DEF attempts
  <2>2. t \in Sub /\ t.user = s.user
    BY <1>1 DEF Sub
  <2> HIDE DEF t
  <2> QED BY <2>1, <2>2, ConstantRecords, ClearedRecords
<1>4. CASE side = "user" /\ ~(attempts > Len(Backoffs))
  <2>1. later \in Nat
    BY <1>1, <1>4, ConstantsAssumption DEF ConstantsAssumption
  <2>2. Failed(s, side) =
          [s EXCEPT !.inflight = NoHash, !.attempts = attempts,
                    !.status = "past_due", !.next = later]
    BY <1>4 DEF Failed
  <2> HIDE DEF later, attempts
  <2> QED BY <1>1, <2>1, <2>2 DEF Sub, Statuses
<1> QED BY <1>2, <1>3, <1>4

\* What createSub and cancelSub write.
LEMMA CallRecords ==
  ASSUME TypeOK, api # NoCall
  PROVE  /\ CallResult(api) \in Sub /\ CallResult(api).user = api.user
         /\ CallResult(api).status # "none"
         /\ CallResult(api).inflight \in {NoHash, api.read.inflight}
         /\ api.read.status # "none" => CallResult(api).inflight = api.read.inflight
<1> DEFINE s == api.read
           p == api.plan
<1>1. /\ s \in Sub /\ s.user = api.user /\ p \in Plans /\ api.start \in Nat
      /\ now \in Nat /\ s.plan \in Plans /\ plans[s.plan] \in Plan /\ plans[p] \in Plan
  BY DEF TypeOK, Call, Sub
<1>2. CASE api.op = "create"
  <2> DEFINE diff == ProratedDiff(s, plans[s.plan], plans[p])
  <2>1. CallResult(api) = PlanApplied(s, p, api.start)
    BY <1>2 DEF CallResult
  <2>2. CASE s.status = "none"
    BY <1>1, <2>1, <2>2, ConstantRecords DEF PlanApplied, Sub
  <2>3. CASE s.status # "none" /\ s.plan = p
    BY <1>1, <2>1, <2>3 DEF PlanApplied, Sub, Statuses
  <2>4. CASE s.status # "none" /\ s.plan # p
    <3> DEFINE pend == IF diff > 0 THEN diff ELSE s.pending
    <3>1. diff > 0 => diff \in Nat
      BY <1>1 DEF ProratedDiff, Sub, Plan, Never
    <3>2. PlanApplied(s, p, api.start) =
            [s EXCEPT !.plan = p, !.status = "active", !.attempts = 0,
                      !.pending = pend]
      BY <2>4 DEF PlanApplied
    <3>3. pend \in Nat
      BY <1>1, <3>1 DEF Sub
    <3> HIDE DEF pend
    <3>4. CallResult(api) = [s EXCEPT !.plan = p, !.status = "active",
                                      !.attempts = 0, !.pending = pend]
      BY <2>1, <3>2
    <3> HIDE DEF s, p
    <3>5. CallResult(api) \in Sub /\ CallResult(api).inflight = s.inflight
      <4>1. s \in Sub /\ p \in Plans /\ 0 \in Nat
        BY <1>1
      <4> QED BY <3>3, <3>4, <4>1 DEF Sub, Statuses
    <3>6. CallResult(api).user = api.user /\ CallResult(api).status = "active"
      BY <1>1, <3>4 DEF Sub
    <3> QED BY <3>5, <3>6 DEF s
  <2> QED BY <2>2, <2>3, <2>4
<1>3. CASE api.op # "create"
  <2> DEFINE far == now + Century
  <2>1. far \in Nat
    BY <1>1, ConstantsAssumption DEF ConstantsAssumption
  <2>2. CallResult(api) = [s EXCEPT !.status = "cancelled", !.next = far]
    BY <1>3 DEF CallResult
  <2> HIDE DEF far
  <2> QED BY <1>1, <2>1, <2>2 DEF Sub, Statuses
<1> QED BY <1>2, <1>3
-----------------------------------------------------------------------------
(* Type correctness *)

\* The hash of a record names a slot or nothing.
LEMMA HashType ==
  ASSUME NEW s \in Sub
  PROVE  /\ s.inflight \in Hash /\ s.inflight.tx \in 0..MaxTx /\ s.inflight.bump \in Nat
         /\ {s.inflight.tx} \ {0} \subseteq TxIds
         /\ s.inflight # NoHash => s.inflight.tx \in TxIds
         /\ s.inflight.tx # 0 => s.inflight # NoHash
<1>1. MaxTx \in Nat
  BY ConstantsAssumption DEF ConstantsAssumption
<1>2. s.inflight \in Hash
  BY DEF Sub
<1> QED BY <1>1, <1>2 DEF Hash, NoHash, TxIds

LEMMA SubFields ==
  \A s \in Sub : s.user \in Users /\ s.inflight.tx \in Nat
<1>1. SUFFICES ASSUME NEW s \in Sub PROVE s.user \in Users /\ s.inflight.tx \in Nat
  OBVIOUS
<1>2. s.inflight.tx \in 0..MaxTx /\ MaxTx \in Nat
  BY HashType, ConstantsAssumption DEF ConstantsAssumption
<1> QED BY <1>2 DEF Sub

LEMMA StoreType ==
  ASSUME TypeOK, NEW rec \in Sub, store' = [store EXCEPT ![rec.user] = rec]
  PROVE  store' \in [Users -> Sub] /\ \A u \in Users : store'[u].user = u
<1>1. rec.user \in Users
  BY DEF Sub
<1> QED BY <1>1 DEF TypeOK

LEMMA UpsertType ==
  ASSUME TypeOK, NEW r \in Replicas, NEW rec \in Sub, Upsert(r, rec)
  PROVE  /\ store' \in [Users -> Sub] /\ \A u \in Users : store'[u].user = u
         /\ blamed' \subseteq TxIds
<1>1. rec.user \in Users
  BY DEF Sub
<1>2. store[rec.user] \in Sub
  BY <1>1 DEF TypeOK
<1>3. {store[rec.user].inflight.tx, rec.inflight.tx} \ {0} \subseteq TxIds
  BY <1>2, HashType
<1>4. store' = [store EXCEPT ![rec.user] = rec]
  BY DEF Upsert
<1>5. blamed' \subseteq TxIds
  BY <1>3 DEF Upsert, TypeOK
<1> QED BY <1>4, <1>5, StoreType

\* A replica's working state in the types the actions need.
LEMMA WorkType ==
  ASSUME TypeOK, NEW r \in Replicas
  PROVE  /\ sched[r] \in Work /\ sched[r].sub \in Sub /\ sched[r].plan \in Plan
         /\ sched[r].queue \subseteq Sub /\ sched[r].tx \in 0..MaxTx
         /\ sched[r].bump \in Nat /\ sched[r].kind \in {"regular", "pending"}
         /\ Looping(sched[r].queue) \in Work
         /\ \A s \in sched[r].queue :
              s \in Sub /\ plans[s.plan] \in Plan /\ Rest(r, s) \in Work
<1>1. /\ sched[r] \in Work /\ sched[r].sub \in Sub /\ sched[r].plan \in Plan
      /\ sched[r].queue \subseteq Sub /\ sched[r].tx \in 0..MaxTx
      /\ sched[r].bump \in Nat /\ sched[r].kind \in {"regular", "pending"}
  BY DEF TypeOK, Work
<1>2. Looping(sched[r].queue) \in Work
  BY <1>1, ConstantRecords
<1>3. ASSUME NEW s \in sched[r].queue
      PROVE  s \in Sub /\ plans[s.plan] \in Plan /\ Rest(r, s) \in Work
  <2>1. s \in Sub /\ sched[r].queue \ {s} \in SUBSET Sub
    BY <1>1
  <2>2. Rest(r, s) \in Work
    BY <2>1, ConstantRecords DEF Rest
  <2>3. s.plan \in Plans
    BY <2>1 DEF Sub
  <2> QED BY <2>1, <2>2, <2>3 DEF TypeOK
<1> QED BY <1>1, <1>2, <1>3

\* The records a replica writes while it handles its current subscription.
LEMMA WrittenRecords ==
  ASSUME TypeOK, NEW r \in Replicas
  PROVE  /\ Settled(r) \in Sub /\ Settled(r).user = sched[r].sub.user
         /\ Settled(r).inflight = NoHash
         /\ sched[r].sub.status # "none" => Settled(r).status # "none"
         /\ Busy(r) => /\ WithHash(r) \in Sub /\ WithHash(r).user = sched[r].sub.user
                       /\ WithHash(r).inflight.tx = sched[r].tx
                       /\ WithHash(r).status = sched[r].sub.status
<1>1. now \in Nat /\ sched[r].sub \in Sub /\ sched[r].plan \in Plan
  BY WorkType DEF TypeOK
<1>2. /\ Settled(r) \in Sub /\ Settled(r).user = sched[r].sub.user
      /\ Settled(r).inflight = NoHash
      /\ sched[r].sub.status # "none" => Settled(r).status # "none"
  BY <1>1, ClearedRecords DEF Settled
<1> DEFINE hash == [tx |-> sched[r].tx, bump |-> sched[r].bump]
<1>3. Busy(r) => hash \in Hash /\ hash.tx = sched[r].tx
  BY WorkType DEF Hash, TypeOK
<1>4. WithHash(r) = [sched[r].sub EXCEPT !.inflight = hash]
  BY DEF WithHash
<1> HIDE DEF hash
<1>5. Busy(r) => /\ WithHash(r) \in Sub /\ WithHash(r).user = sched[r].sub.user
                 /\ WithHash(r).inflight.tx = sched[r].tx
                 /\ WithHash(r).status = sched[r].sub.status
  BY <1>1, <1>3, <1>4 DEF Sub
<1> QED BY <1>2, <1>5

BusyWork(w) == w.pc \in {"persist", "wait", "bump", "resolve"} => w.tx \in TxIds

LEMMA SchedType ==
  ASSUME TypeOK, NEW r \in Replicas, NEW w \in Work, BusyWork(w),
         sched' = [sched EXCEPT ![r] = w]
  PROVE  /\ sched' \in [Replicas -> Work]
         /\ \A q \in Replicas : Busy(q)' => sched'[q].tx \in TxIds
BY DEF TypeOK, Busy, BusyWork

\* Between two subscriptions a replica has no pull in hand.
LEMMA LoopingWork ==
  ASSUME TypeOK, NEW r \in Replicas
  PROVE  /\ BusyWork(Looping(sched[r].queue)) /\ BusyWork(Idle)
         /\ \A Q : BusyWork(Looping(Q))
         /\ \A s : BusyWork(Rest(r, s))
BY DEF BusyWork, Looping, Idle, Rest

LEMMA InitType == Init => TypeOK
<1> SUFFICES ASSUME Init PROVE TypeOK
  OBVIOUS
<1>1. PICK p \in [Users -> {q \in Plans : InitialPlans[q].active}] :
        store = [u \in Users |-> IF u \in Subscribed THEN NewSub(u, p[u], 1)
                                 ELSE NoSub(u)]
  BY DEF Init
<1>2. \A u \in Users : store[u] \in Sub /\ store[u].user = u
  BY <1>1, ConstantRecords
<1>3. store \in [Users -> Sub]
  BY <1>1, <1>2
<1>4. InitialPlans \in [Plans -> Plan] /\ MaxTx \in Nat
  BY ConstantsAssumption DEF ConstantsAssumption
<1>5. api = NoCall /\ api \in Call \cup {NoCall}
  BY DEF Init
<1>6. \A r \in Replicas : sched[r] = Idle /\ ~Busy(r)
  BY DEF Init, Idle, Busy
<1>7. sched \in [Replicas -> Work]
  BY ConstantRecords DEF Init
<1> QED BY <1>2, <1>3, <1>4, <1>5, <1>6, <1>7, ConstantRecords DEF Init, TypeOK

LEMMA SubStepType ==
  ASSUME TypeOK, NEW r \in Replicas, SubStep(r)
  PROVE  TypeOK'
<1>1. PICK s \in sched[r].queue :
        \/ StartResolve(r, s) \/ CancelInactive(r, s) \/ Broadcast(r, s)
        \/ \E side \in {"operator", "user"} : SubmitFails(r, s, side)
  BY DEF SubStep
<1>2. /\ s \in Sub /\ plans[s.plan] \in Plan /\ Rest(r, s) \in Work
      /\ s.inflight \in Hash /\ s.inflight.tx \in 0..MaxTx /\ s.inflight.bump \in Nat
      /\ s.inflight # NoHash => s.inflight.tx \in TxIds
      /\ now \in Nat /\ BusyWork(Rest(r, s))
  BY WorkType, HashType, LoopingWork DEF TypeOK
<1>3. CASE StartResolve(r, s)
  <2> DEFINE work == [Rest(r, s) EXCEPT !.pc = "resolve", !.sub = s,
                        !.plan = plans[s.plan], !.tx = s.inflight.tx,
                        !.bump = s.inflight.bump]
  <2>1. work \in Work /\ BusyWork(work)
    BY <1>2, <1>3 DEF Work, BusyWork, StartResolve
  <2>2. sched' = [sched EXCEPT ![r] = work]
    BY <1>3 DEF StartResolve
  <2> HIDE DEF work
  <2>3. /\ sched' \in [Replicas -> Work]
        /\ \A q \in Replicas : Busy(q)' => sched'[q].tx \in TxIds
    BY <2>1, <2>2, SchedType
  <2> QED BY <1>3, <2>3 DEF StartResolve, TypeOK
<1>4. CASE CancelInactive(r, s) \/ \E side \in {"operator", "user"} : SubmitFails(r, s, side)
  <2>1. PICK rec \in Sub : Upsert(r, rec)
    BY <1>2, <1>4, ConstantRecords, ClearedRecords, FailedRecords
       DEF CancelInactive, SubmitFails
  <2>2. store' \in [Users -> Sub] /\ (\A u \in Users : store'[u].user = u)
        /\ blamed' \subseteq TxIds
    BY <2>1, UpsertType
  <2>3. /\ sched' \in [Replicas -> Work]
        /\ \A q \in Replicas : Busy(q)' => sched'[q].tx \in TxIds
    BY <1>2, <1>4, SchedType DEF CancelInactive, SubmitFails
  <2> QED BY <1>4, <2>2, <2>3 DEF CancelInactive, SubmitFails, TypeOK
<1>5. CASE Broadcast(r, s)
  <2> DEFINE n == sent + 1
             kind == KindOf(s)
             tx == [NoTx EXCEPT !.user = s.user, !.kind = kind, !.due = s.next,
                                !.period = plans[s.plan].period,
                                !.epoch = epoch[s.user], !.top = 1]
             work == [Rest(r, s) EXCEPT !.pc = "persist", !.sub = s,
                        !.plan = plans[s.plan], !.tx = n, !.bump = 1, !.kind = kind]
  <2>1. n \in TxIds /\ n \in 0..MaxTx
    BY <1>5, ConstantsAssumption DEF Broadcast, TypeOK, TxIds, ConstantsAssumption
  <2>2. kind \in {"regular", "pending"}
    BY DEF KindOf
  <2>3. /\ sent' = n /\ txs' = [txs EXCEPT ![n] = tx]
        /\ sched' = [sched EXCEPT ![r] = work]
    BY <1>5 DEF Broadcast
  <2>4. s.user \in Users /\ s.next \in Nat /\ plans[s.plan].period \in Nat
        /\ epoch[s.user] \in Nat
    BY <1>2 DEF Sub, Plan, TypeOK
  <2> HIDE DEF n, kind
  <2>5. tx \in Tx
    BY <2>2, <2>4, ConstantRecords DEF Tx
  <2>6. work \in Work /\ BusyWork(work)
    BY <1>2, <2>1, <2>2 DEF Work, BusyWork
  <2> HIDE DEF tx, work
  <2>7. /\ sched' \in [Replicas -> Work]
        /\ \A q \in Replicas : Busy(q)' => sched'[q].tx \in TxIds
    BY <2>3, <2>6, SchedType
  <2> QED BY <1>5, <2>1, <2>3, <2>5, <2>7 DEF Broadcast, TypeOK
<1> QED BY <1>1, <1>3, <1>4, <1>5

LEMMA WaitStepType ==
  ASSUME TypeOK, NEW r \in Replicas, WaitStep(r)
  PROVE  TypeOK'
<1>1. /\ sched[r] \in Work /\ Looping(sched[r].queue) \in Work
      /\ sched[r].sub \in Sub /\ now \in Nat
      /\ BusyWork(Looping(sched[r].queue)) /\ BusyWork(sched[r])
  BY WorkType, LoopingWork DEF TypeOK, BusyWork, Busy
<1>2. Busy(r) /\ sched[r].tx \in TxIds
  BY DEF WaitStep, PersistHash, PersistHashFails, ReceiptOk, ReceiptReverted, GiveUp,
         Timeout, Resend, NoBump, ResendFails, LateReceipt, LateNotFound,
         ResolveRpcError, FinalUpsertFails, Busy, TypeOK
<1>3. \A side \in {"operator", "user"} : Failed(sched[r].sub, side) \in Sub
  BY <1>1, FailedRecords
<1>4. Settled(r) \in Sub /\ WithHash(r) \in Sub
  BY <1>2, WrittenRecords
<1>5. ASSUME Return(r)
      PROVE  /\ sched' \in [Replicas -> Work]
             /\ \A q \in Replicas : Busy(q)' => sched'[q].tx \in TxIds
  BY <1>1, <1>5, SchedType DEF Return
<1>6. CASE PersistHash(r) \/ PersistHashFails(r)
  <2> DEFINE work == [sched[r] EXCEPT !.pc = "wait", !.sub = WithHash(r)]
  <2>1. sched' = [sched EXCEPT ![r] = work]
    BY <1>6 DEF PersistHash, PersistHashFails, TypeOK
  <2>2. work \in Work /\ BusyWork(work)
    BY <1>1, <1>2, <1>4 DEF Work, BusyWork
  <2> HIDE DEF work
  <2>3. /\ sched' \in [Replicas -> Work]
        /\ \A q \in Replicas : Busy(q)' => sched'[q].tx \in TxIds
    BY <2>1, <2>2, SchedType
  <2>4. store' \in [Users -> Sub] /\ (\A u \in Users : store'[u].user = u)
        /\ blamed' \subseteq TxIds
    <3>1. CASE PersistHash(r)
      BY <1>4, <3>1, UpsertType DEF PersistHash
    <3>2. CASE PersistHashFails(r)
      BY <1>2, <3>2 DEF PersistHashFails, TypeOK
    <3> QED BY <1>6, <3>1, <3>2
  <2> QED BY <1>6, <2>3, <2>4 DEF PersistHash, PersistHashFails, TypeOK
<1>7. CASE ReceiptOk(r) \/ LateReceipt(r)
  <2>1. Upsert(r, Settled(r)) /\ Return(r)
    BY <1>7 DEF ReceiptOk, LateReceipt, Credit
  <2>2. store' \in [Users -> Sub] /\ (\A u \in Users : store'[u].user = u)
        /\ blamed' \subseteq TxIds
    BY <1>4, <2>1, UpsertType
  <2>3. credited' \subseteq [tx : TxIds, as : {"regular", "pending"}]
    <3>1. [tx |-> sched[r].tx, as |-> sched[r].kind]
            \in [tx : TxIds, as : {"regular", "pending"}]
      BY <1>2, WorkType
    <3> QED BY <1>7, <3>1 DEF ReceiptOk, LateReceipt, Credit, TypeOK
  <2> QED BY <1>5, <1>7, <2>1, <2>2, <2>3 DEF ReceiptOk, LateReceipt, TypeOK
<1>8. CASE ReceiptReverted(r)
  <2>1. store' \in [Users -> Sub] /\ (\A u \in Users : store'[u].user = u)
        /\ blamed' \subseteq TxIds
    BY <1>3, <1>8, UpsertType DEF ReceiptReverted
  <2>2. Return(r)
    BY <1>8 DEF ReceiptReverted
  <2> QED BY <1>5, <1>8, <2>1, <2>2 DEF ReceiptReverted, TypeOK
<1>9. CASE GiveUp(r) \/ ResolveRpcError(r) \/ FinalUpsertFails(r)
  <2>1. Return(r)
    BY <1>9 DEF GiveUp, ResolveRpcError, FinalUpsertFails
  <2> QED BY <1>5, <1>9, <2>1 DEF GiveUp, ResolveRpcError, FinalUpsertFails, TypeOK
<1>10. CASE Timeout(r) \/ NoBump(r)
  <2>1. PICK pc \in {"wait", "bump"} :
          sched' = [sched EXCEPT ![r] = [sched[r] EXCEPT !.pc = pc]]
    BY <1>10 DEF Timeout, NoBump, TypeOK
  <2>2. [sched[r] EXCEPT !.pc = pc] \in Work /\ BusyWork([sched[r] EXCEPT !.pc = pc])
    BY <1>1, <1>2 DEF Work, BusyWork
  <2>3. /\ sched' \in [Replicas -> Work]
        /\ \A q \in Replicas : Busy(q)' => sched'[q].tx \in TxIds
    BY <2>1, <2>2, SchedType
  <2> QED BY <1>10, <2>3 DEF Timeout, NoBump, TypeOK
<1>11. CASE Resend(r)
  <2> DEFINE n == sched[r].tx
             bump == txs[n].top + 1
             tx == [txs[n] EXCEPT !.top = bump, !.dropped = FALSE]
             work == [sched[r] EXCEPT !.pc = "persist", !.bump = bump]
  <2>1. txs[n] \in Tx /\ bump \in Nat
    BY <1>2 DEF TypeOK, Tx
  <2>2. txs' = [txs EXCEPT ![n] = tx] /\ sched' = [sched EXCEPT ![r] = work]
    BY <1>2, <1>11 DEF Resend, TypeOK
  <2> HIDE DEF bump
  <2>3. tx \in Tx /\ work \in Work /\ BusyWork(work)
    BY <1>1, <1>2, <2>1 DEF Tx, Work, BusyWork
  <2> HIDE DEF tx, work
  <2>4. /\ sched' \in [Replicas -> Work]
        /\ \A q \in Replicas : Busy(q)' => sched'[q].tx \in TxIds
    BY <2>2, <2>3, SchedType
  <2> QED BY <1>2, <1>11, <2>2, <2>3, <2>4 DEF Resend, TypeOK
<1>12. CASE LateNotFound(r) \/ \E side \in {"operator", "user"} : ResendFails(r, side)
  <2>1. PICK side \in {"operator", "user"} :
          store' = [store EXCEPT ![sched[r].sub.user] = Failed(sched[r].sub, side)]
    BY <1>12 DEF LateNotFound, ResendFails
  <2>2. Failed(sched[r].sub, side).user = sched[r].sub.user
    BY <1>1, FailedRecords
  <2>3. store' \in [Users -> Sub] /\ (\A u \in Users : store'[u].user = u)
    BY <1>3, <2>1, <2>2, StoreType
  <2>4. blamed' \subseteq TxIds
    <3>1. sched[r].sub.user \in Users
      BY <1>1 DEF Sub
    <3>2. store[sched[r].sub.user] \in Sub
      BY <3>1 DEF TypeOK
    <3>3. {store[sched[r].sub.user].inflight.tx} \ {0} \subseteq TxIds
      BY <3>2, HashType
    <3> QED BY <1>2, <1>12, <3>3 DEF LateNotFound, ResendFails, TypeOK
  <2>5. Return(r)
    BY <1>12 DEF LateNotFound, ResendFails
  <2> QED BY <1>5, <1>12, <2>3, <2>4, <2>5 DEF LateNotFound, ResendFails, TypeOK
<1> QED BY <1>6, <1>7, <1>8, <1>9, <1>10, <1>11, <1>12 DEF WaitStep

LEMMA TickType ==
  ASSUME TypeOK, NEW r \in Replicas, StartTick(r) \/ EndTick(r) \/ Crash(r)
  PROVE  TypeOK'
<1>1. CASE StartTick(r)
  <2>1. PICK Q \in DueBefore : sched' = [sched EXCEPT ![r] = Looping(Q)]
    BY <1>1 DEF StartTick
  <2>2. Q \in SUBSET Sub
    BY <2>1 DEF DueBefore, DueSet, TypeOK
  <2>3. Looping(Q) \in Work /\ BusyWork(Looping(Q))
    BY <2>2, ConstantRecords, LoopingWork
  <2>4. /\ sched' \in [Replicas -> Work]
        /\ \A q \in Replicas : Busy(q)' => sched'[q].tx \in TxIds
    BY <2>1, <2>3, SchedType
  <2> QED BY <1>1, <2>4 DEF StartTick, TypeOK
<1>2. CASE EndTick(r) \/ Crash(r)
  <2>1. Idle \in Work /\ BusyWork(Idle)
    BY ConstantRecords, LoopingWork
  <2>2. /\ sched' \in [Replicas -> Work]
        /\ \A q \in Replicas : Busy(q)' => sched'[q].tx \in TxIds
    BY <1>2, <2>1, SchedType DEF EndTick, Crash
  <2>3. sched[r].pc = "persist" => sched[r].tx \in TxIds
    BY DEF TypeOK, Busy
  <2>4. CASE EndTick(r)
    BY <2>2, <2>4 DEF EndTick, TypeOK
  <2>5. CASE Crash(r)
    BY <2>2, <2>3, <2>5 DEF Crash, TypeOK
  <2> QED BY <1>2, <2>4, <2>5
<1> QED BY <1>1, <1>2

LEMMA ChainType ==
  ASSUME TypeOK, ChainStep
  PROVE  TypeOK'
<1>1. PICK n \in 1..sent :
        Drop(n) \/ \E b \in 1..txs[n].top, ok \in BOOLEAN : Mine(n, b, ok)
  BY DEF ChainStep
<1>2. n \in TxIds /\ txs[n] \in Tx
  BY ConstantsAssumption DEF TypeOK, TxIds, ConstantsAssumption
<1>3. CASE Drop(n)
  <2>1. [txs[n] EXCEPT !.dropped = TRUE] \in Tx
    BY <1>2 DEF Tx
  <2>2. txs' = [txs EXCEPT ![n] = [txs[n] EXCEPT !.dropped = TRUE]]
    BY <1>2, <1>3 DEF Drop, TypeOK
  <2> QED BY <1>2, <1>3, <2>1, <2>2 DEF Drop, TypeOK, Busy
<1>4. CASE \E b \in 1..txs[n].top, ok \in BOOLEAN : Mine(n, b, ok)
  <2>1. PICK b \in 1..txs[n].top, ok \in BOOLEAN : Mine(n, b, ok)
    BY <1>4
  <2>2. b \in Nat
    BY <1>2 DEF Tx
  <2>3. [txs[n] EXCEPT !.mined = b, !.ok = ok] \in Tx
    BY <1>2, <2>2 DEF Tx
  <2>4. txs' = [txs EXCEPT ![n] = [txs[n] EXCEPT !.mined = b, !.ok = ok]]
    BY <1>2, <2>1 DEF Mine, TypeOK
  <2> QED BY <1>2, <2>1, <2>3, <2>4 DEF Mine, TypeOK, Busy
<1> QED BY <1>1, <1>3, <1>4

LEMMA ApiType ==
  ASSUME TypeOK, ApiStep
  PROVE  TypeOK'
<1>1. CASE WriteCall
  <2>1. api # NoCall /\ api \in Call /\ api.user \in Users /\ api.read \in Sub
    BY <1>1 DEF WriteCall, TypeOK, Call
  <2>2. CallResult(api) \in Sub /\ CallResult(api).user = api.user
    BY <2>1, CallRecords
  <2>3. store' = [store EXCEPT ![CallResult(api).user] = CallResult(api)]
    BY <1>1, <2>2 DEF WriteCall
  <2>4. store' \in [Users -> Sub] /\ (\A u \in Users : store'[u].user = u)
    BY <2>2, <2>3, StoreType
  <2>5. blamed' \subseteq TxIds
    <3>1. {store[api.user].inflight.tx} \ {0} \subseteq TxIds
      BY <2>1, HashType DEF TypeOK
    <3>2. {api.read.inflight.tx} \ {0} \subseteq TxIds
      BY <2>1, HashType
    <3> QED BY <1>1, <3>1, <3>2 DEF WriteCall, TypeOK
  <2>6. epoch' \in [Users -> Nat]
    BY <1>1, <2>1 DEF WriteCall, TypeOK
  <2> QED BY <1>1, <2>4, <2>5, <2>6 DEF WriteCall, TypeOK, Busy
<1>2. CASE \E u \in Users : CancelSub(u)
  <2>1. PICK u \in Users : CancelSub(u)
    BY <1>2
  <2>2. store[u] \in Sub /\ store[u].plan \in Plans /\ store[u].user = u
    BY DEF TypeOK, Sub
  <2>3. api' \in Call /\ api'.read.user = api'.user
    BY <2>1, <2>2 DEF CancelSub, Call, TypeOK
  <2> QED BY <2>1, <2>3 DEF CancelSub, TypeOK, Busy
<1>3. CASE \E u \in Users, p \in Plans, d \in Starts : CreateSub(u, p, now + d)
  <2>1. PICK u \in Users, p \in Plans, d \in Starts : CreateSub(u, p, now + d)
    BY <1>3
  <2>2. store[u] \in Sub /\ store[u].user = u
    BY DEF TypeOK
  <2>3. now + d \in Nat
    BY ConstantsAssumption DEF TypeOK, ConstantsAssumption
  <2>4. api' \in Call /\ api'.read.user = api'.user
    BY <2>1, <2>2, <2>3 DEF CreateSub, Call
  <2> QED BY <2>1, <2>4 DEF CreateSub, TypeOK, Busy
<1>4. CASE \E u \in Users, p \in Plans : CompleteCheckout(u, p)
  <2>1. PICK u \in Users, p \in Plans : CompleteCheckout(u, p)
    BY <1>4
  <2> DEFINE start == now + plans[p].period
             rec == NewSub(u, p, start)
  <2>2. start \in Nat
    BY DEF TypeOK, Plan
  <2>3. store' = [store EXCEPT ![u] = rec]
    BY <2>1 DEF CompleteCheckout
  <2> HIDE DEF start
  <2>4. rec \in Sub /\ rec.user = u
    BY <2>2, ConstantRecords
  <2> HIDE DEF rec
  <2>5. store' \in [Users -> Sub] /\ (\A v \in Users : store'[v].user = v)
    BY <2>3, <2>4, StoreType
  <2>6. {store[u].inflight.tx} \ {0} \subseteq TxIds
    BY HashType DEF TypeOK
  <2>7. blamed' \subseteq TxIds /\ epoch' \in [Users -> Nat]
    BY <2>1, <2>6 DEF CompleteCheckout, TypeOK
  <2> QED BY <2>1, <2>5, <2>7 DEF CompleteCheckout, TypeOK, Busy
<1>5. CASE \E p \in Plans, plan \in PlanOptions : UpsertPlan(p, plan)
  <2>1. PICK p \in Plans, plan \in PlanOptions : UpsertPlan(p, plan)
    BY <1>5
  <2>2. plan \in Plan
    BY ConstantsAssumption DEF ConstantsAssumption
  <2> QED BY <2>1, <2>2 DEF UpsertPlan, TypeOK, Busy
<1> QED BY <1>1, <1>2, <1>3, <1>4, <1>5 DEF ApiStep

LEMMA StepType == TypeOK /\ [Next]_vars => TypeOK'
<1> SUFFICES ASSUME TypeOK, [Next]_vars PROVE TypeOK'
  OBVIOUS
<1>1. CASE \E r \in Replicas : SchedStep(r) \/ Crash(r)
  BY <1>1, TickType, SubStepType, WaitStepType DEF SchedStep
<1>2. CASE ChainStep \/ ApiStep
  BY <1>2, ChainType, ApiType
<1>3. CASE LeaseExpires \/ AdvanceTime
  BY <1>3 DEF LeaseExpires, AdvanceTime, TypeOK, Busy
<1>4. CASE UNCHANGED vars
  BY <1>4 DEF vars, TypeOK, Busy
<1> QED BY <1>1, <1>2, <1>3, <1>4 DEF Next

(* Every reachable state of the pull cycle is well typed, whatever fails:  *)
(* no interleaving of store writes, copies, crashes and API calls (the     *)
(* handlers of scheduler.go and api.go) produces a malformed record.       *)
THEOREM TypeCorrect == Spec => []TypeOK
BY InitType, StepType, PTL DEF Spec
-----------------------------------------------------------------------------
(* The accounting of open pulls.  A step that writes a record of the store *)
(* is reduced to what it does to the hashes: its effect.                   *)

IsBusy(w) == w.pc \in {"persist", "wait", "bump", "resolve"}

\* The hash that a write of k over the record of user u takes out is excused.
Excused(u, k) ==
  \A m : m = store[u].inflight.tx => m \in {0, k} \cup blamed' \/ Gone(m)'

\* Replica r writes rec, continues as w, and excuses the hash it overwrites.
WriteEffect(r, rec, w) ==
  /\ store' = [store EXCEPT ![rec.user] = rec]
  /\ sched' = [sched EXCEPT ![r] = w]
  /\ txs' = txs /\ sent' = sent /\ lock' = lock /\ api' = api
  /\ blamed \subseteq blamed' /\ credited \subseteq credited'
  /\ rec.status # "none"
  /\ rec.inflight.tx # 0 =>
       Busy(r) /\ rec.inflight.tx = sched[r].tx /\ rec.user = sched[r].sub.user
  /\ Excused(rec.user, rec.inflight.tx)
  /\ lock # r => rec.inflight.tx \in {0} \cup blamed'
  /\ w.queue \subseteq sched[r].queue /\ \A s \in w.queue : s.user # rec.user
  /\ IsBusy(w) =>
       /\ Busy(r) /\ w.tx = sched[r].tx /\ w.pc # "persist"
       /\ w.sub.user = rec.user /\ w.sub.status # "none" /\ rec.inflight.tx = w.tx
  /\ sched[r].pc = "persist" => rec.inflight.tx = sched[r].tx

Accounting == RefsOK /\ QueuesOK /\ CopiesFresh /\ Accounted

\* What was excused stays excused.
LEMMA GoneStable ==
  ASSUME txs' = txs, credited \subseteq credited', blamed \subseteq blamed', NEW n
  PROVE  Gone(n) => Gone(n)'
BY DEF Gone, CreditedTx

LEMMA AgreesStable ==
  ASSUME txs' = txs, credited \subseteq credited', blamed \subseteq blamed',
         NEW u, NEW n, store'[u] = store[u], Agrees(u, n)
  PROVE  Agrees(u, n)'
BY DEF Gone, CreditedTx, Agrees

LEMMA WriteStep ==
  ASSUME IInv, NEW r \in Replicas, NEW rec \in Sub, NEW w \in Work,
         WriteEffect(r, rec, w)
  PROVE  Accounting'
<1>1. /\ TypeOK /\ RefsOK /\ QueuesOK /\ CopiesFresh /\ Accounted
      /\ rec.user \in Users
  BY DEF IInv, Sub
<1>2. /\ txs' = txs /\ sent' = sent /\ lock' = lock /\ api' = api
      /\ blamed \subseteq blamed' /\ credited \subseteq credited'
      /\ rec.status # "none" /\ sent \in Nat
  BY <1>1 DEF WriteEffect, TypeOK
<1>3. /\ store'[rec.user] = rec
      /\ \A u \in Users : u # rec.user => store'[u] = store[u]
  BY <1>1 DEF WriteEffect, TypeOK
<1>4. /\ sched'[r] = w
      /\ \A q \in Replicas : q # r => sched'[q] = sched[q]
  BY <1>1 DEF WriteEffect, TypeOK
<1>5. rec.inflight.tx # 0 =>
        /\ rec.inflight.tx = sched[r].tx /\ Busy(r)
        /\ rec.user = sched[r].sub.user
        /\ rec.inflight.tx \in 1..sent /\ txs[rec.inflight.tx].user = rec.user
  <2>1. rec.inflight.tx # 0 =>
          rec.inflight.tx = sched[r].tx /\ Busy(r) /\ rec.user = sched[r].sub.user
    BY DEF WriteEffect
  <2>2. Busy(r) => sched[r].tx \in TxIds
    BY <1>1 DEF TypeOK
  <2>3. Busy(r) => sched[r].tx <= sent /\ txs[sched[r].tx].user = sched[r].sub.user
    BY <1>1 DEF RefsOK
  <2> QED BY <1>2, <2>1, <2>2, <2>3 DEF TxIds
<1>6. RefsOK'
  <2>1. \A u \in Users :
          /\ store'[u].inflight.tx # 0 =>
               /\ store'[u].inflight.tx \in 1..sent'
               /\ txs'[store'[u].inflight.tx].user = store'[u].user
          /\ store'[u].status = "none" => store'[u].inflight = NoHash
    <3>1. TAKE u \in Users
    <3>2. CASE u = rec.user
      BY <1>2, <1>3, <1>5, <3>2
    <3>3. CASE u # rec.user
      BY <1>1, <1>2, <1>3, <3>3 DEF RefsOK, RefOK, AbsentOK
    <3> QED BY <3>2, <3>3
  <2>2. \A q \in Replicas : \A s \in sched'[q].queue :
          /\ s.inflight.tx # 0 => /\ s.inflight.tx \in 1..sent'
                                  /\ txs'[s.inflight.tx].user = s.user
          /\ Billable(s)
    <3>1. w.queue \subseteq sched[r].queue
      BY DEF WriteEffect
    <3> QED BY <1>1, <1>2, <1>4, <3>1 DEF RefsOK, RefOK
  <2>3. \A q \in Replicas : Busy(q)' =>
          /\ sched'[q].tx <= sent'
          /\ txs'[sched'[q].tx].user = sched'[q].sub.user
          /\ sched'[q].sub.status # "none"
    <3>1. TAKE q \in Replicas
    <3>2. CASE q = r
      <4>1. SUFFICES ASSUME IsBusy(w)
                     PROVE  /\ w.tx <= sent /\ txs[w.tx].user = w.sub.user
                            /\ w.sub.status # "none"
        BY <1>2, <1>4, <3>2 DEF Busy, IsBusy
      <4>2. /\ Busy(r) /\ w.tx = sched[r].tx /\ w.sub.user = rec.user
            /\ w.sub.status # "none" /\ rec.inflight.tx = w.tx
        BY <4>1 DEF WriteEffect
      <4>3. sched[r].tx \in TxIds
        BY <1>1, <4>2 DEF TypeOK
      <4> QED BY <1>2, <1>5, <4>2, <4>3 DEF TxIds
    <3>3. CASE q # r
      <4>1. Busy(q)' <=> Busy(q)
        BY <1>4, <3>3 DEF Busy
      <4> QED BY <1>1, <1>2, <1>4, <3>3, <4>1 DEF RefsOK
    <3> QED BY <3>2, <3>3
  <2>4. api' # NoCall =>
          /\ api'.read.inflight.tx # 0 =>
               /\ api'.read.inflight.tx \in 1..sent'
               /\ txs'[api'.read.inflight.tx].user = api'.read.user
          /\ api'.read.status = "none" => api'.read.inflight = NoHash
    BY <1>1, <1>2 DEF RefsOK, RefOK, AbsentOK
  <2> QED BY <2>1, <2>2, <2>3, <2>4 DEF RefsOK, RefOK, AbsentOK
<1>7. QueuesOK'
  <2>1. SUFFICES ASSUME NEW q \in Replicas
                 PROVE  /\ \A s, t \in sched'[q].queue : s.user = t.user => s = t
                        /\ Busy(q)' => \A s \in sched'[q].queue :
                                         s.user # sched'[q].sub.user
    BY DEF QueuesOK
  <2>2. CASE q # r
    <3>1. Busy(q)' <=> Busy(q)
      BY <1>4, <2>2 DEF Busy
    <3> QED BY <1>1, <1>4, <2>2, <3>1 DEF QueuesOK
  <2>3. CASE q = r
    <3>1. /\ w.queue \subseteq sched[r].queue /\ \A s \in w.queue : s.user # rec.user
          /\ IsBusy(w) => w.sub.user = rec.user
      BY DEF WriteEffect
    <3>2. Busy(q)' => IsBusy(w)
      BY <1>4, <2>3 DEF Busy, IsBusy
    <3> QED BY <1>1, <1>4, <2>3, <3>1, <3>2 DEF QueuesOK
  <2> QED BY <2>2, <2>3 DEF QueuesOK
<1>8. CopiesFresh'
  <2>1. SUFFICES ASSUME NEW q \in Replicas, lock' = q
                 PROVE  /\ \A s \in sched'[q].queue : Agrees(s.user, s.inflight.tx)'
                        /\ Busy(q)' => Agrees(sched[q].sub.user, sched[q].tx)'
    BY DEF CopiesFresh
  <2>2. lock' = q
    BY <2>1
  <2>3. \A u \in Users, n \in Nat :
           u # rec.user /\ Agrees(u, n) => Agrees(u, n)'
    BY <1>2, <1>3, AgreesStable
  <2>4. CASE q = r
    <3>1. /\ w.queue \subseteq sched[r].queue /\ \A s \in w.queue : s.user # rec.user
          /\ IsBusy(w) => w.sub.user = rec.user /\ rec.inflight.tx = w.tx
      BY DEF WriteEffect
    <3>2. \A s \in w.queue : s.user \in Users /\ s.inflight.tx \in Nat
      BY SubFields DEF Work
    <3>3. \A s \in w.queue : Agrees(s.user, s.inflight.tx)
      BY <1>1, <1>2, <2>2, <2>4, <3>1 DEF CopiesFresh
    <3>4. \A s \in w.queue : Agrees(s.user, s.inflight.tx)'
      BY <2>3, <3>1, <3>2, <3>3
    <3>5. IsBusy(w) => Agrees(w.sub.user, w.tx)'
      BY <1>3, <3>1 DEF Agrees
    <3> QED BY <1>4, <2>4, <3>4, <3>5 DEF Busy, IsBusy
  <2>5. CASE q # r
    <3>1. rec.inflight.tx \in {0} \cup blamed'
      BY <1>2, <2>2, <2>5 DEF WriteEffect
    <3>2. \A n \in Nat : Agrees(rec.user, n)'
      BY <1>3, <3>1 DEF Agrees
    <3>3. \A u \in Users, n \in Nat : Agrees(u, n) => Agrees(u, n)'
      BY <2>3, <3>2
    <3>4. sched[q] \in Work
      BY <1>1 DEF TypeOK
    <3>5. \A s \in sched[q].queue : s.user \in Users /\ s.inflight.tx \in Nat
      BY <3>4, SubFields DEF Work
    <3>6. sched[q].sub.user \in Users /\ sched[q].tx \in Nat
      <4>1. sched[q].sub \in Sub /\ sched[q].tx \in 0..MaxTx /\ MaxTx \in Nat
        BY <3>4, ConstantsAssumption DEF Work, ConstantsAssumption
      <4> QED BY <4>1, SubFields
    <3>7. \A s \in sched[q].queue : Agrees(s.user, s.inflight.tx)'
      BY <1>1, <1>2, <2>2, <3>3, <3>5 DEF CopiesFresh
    <3>8. sched'[q] = sched[q] /\ (Busy(q)' <=> Busy(q))
      BY <1>4, <2>5 DEF Busy
    <3>9. Busy(q) => \A u \in Users, n \in Nat :
            u = sched[q].sub.user /\ n = sched[q].tx => Agrees(u, n)'
      BY <1>1, <1>2, <2>2, <3>3 DEF CopiesFresh
    <3>10. Busy(q)' => Agrees(sched[q].sub.user, sched[q].tx)'
      BY <3>6, <3>8, <3>9
    <3> QED BY <3>7, <3>8, <3>10
  <2> QED BY <2>4, <2>5
<1>9. Accounted'
  <2>1. SUFFICES ASSUME NEW n \in 1..sent
                 PROVE  \/ Gone(n)' \/ Durable(n)' \/ n \in blamed'
                        \/ \E q \in Replicas : sched'[q].pc = "persist" /\ sched'[q].tx = n
    BY <1>2 DEF Accounted
  <2>2. CASE Gone(n)
    BY <1>2, <2>2, GoneStable
  <2>3. CASE n \in blamed
    BY <1>2, <2>3
  <2>4. CASE Durable(n)
    <3>1. CASE txs[n].user = rec.user
      <4>1. n \in {0, rec.inflight.tx} \cup blamed' \/ Gone(n)'
        BY <2>4, <3>1 DEF WriteEffect, Durable, Excused
      <4>2. rec.inflight.tx = n => Durable(n)'
        BY <1>2, <1>3, <3>1 DEF Durable
      <4> QED BY <4>1, <4>2
    <3>2. CASE txs[n].user # rec.user
      <4>1. txs[n].user \in Users
        <5>1. txs \in [TxIds -> Tx] /\ sent \in 0..MaxTx /\ MaxTx \in Nat
          BY <1>1, ConstantsAssumption DEF TypeOK, ConstantsAssumption
        <5>2. n \in TxIds
          BY <1>2, <2>1, <5>1 DEF TxIds
        <5> QED BY <5>1, <5>2 DEF Tx
      <4> QED BY <1>2, <1>3, <2>4, <3>2, <4>1 DEF Durable
    <3> QED BY <3>1, <3>2
  <2>5. CASE \E q \in Replicas : sched[q].pc = "persist" /\ sched[q].tx = n
    <3>1. PICK q \in Replicas : sched[q].pc = "persist" /\ sched[q].tx = n
      BY <2>5
    <3>2. CASE q # r
      BY <1>4, <3>1, <3>2
    <3>3. CASE q = r
      <4>1. rec.inflight.tx = n
        BY <3>1, <3>3 DEF WriteEffect
      <4>2. txs[n].user = rec.user
        BY <1>5, <4>1
      <4> QED BY <1>2, <1>3, <4>1, <4>2 DEF Durable
    <3> QED BY <3>2, <3>3
  <2> QED BY <1>1, <2>2, <2>3, <2>4, <2>5 DEF Accounted
<1> QED BY <1>6, <1>7, <1>8, <1>9 DEF Accounting

\* What replica q still has in hand after a step that writes no record.
Carries(q) ==
  /\ sched'[q].queue \subseteq sched[q].queue
  /\ Busy(q)' => /\ Busy(q) /\ sched'[q].tx = sched[q].tx
                 /\ sched'[q].sub.user = sched[q].sub.user
                 /\ sched'[q].sub.status = sched[q].sub.status
  /\ sched[q].pc = "persist" =>
       \/ sched[q].tx \in blamed'
       \/ sched'[q].pc = "persist" /\ sched'[q].tx = sched[q].tx

\* A step that writes no record, broadcasts nothing and takes no lock.
QuietEffect ==
  /\ store' = store /\ sent' = sent /\ blamed \subseteq blamed'
  /\ \A n \in 1..sent : txs'[n].user = txs[n].user /\ (Gone(n) => Gone(n)')
  /\ lock' = lock \/ lock' \notin Replicas
  /\ api' = api \/ \E u \in Users : api'.read = store[u]
  /\ \A q \in Replicas : Carries(q)

LEMMA QuietStep ==
  ASSUME IInv, QuietEffect
  PROVE  Accounting'
<1>1. /\ TypeOK /\ RefsOK /\ QueuesOK /\ CopiesFresh /\ Accounted
      /\ store' = store /\ sent' = sent /\ blamed \subseteq blamed' /\ sent \in Nat
      /\ \A n \in 1..sent : txs'[n].user = txs[n].user /\ (Gone(n) => Gone(n)')
      /\ \A q \in Replicas : Carries(q)
  BY DEF IInv, QuietEffect, TypeOK
<1>2. \A s : RefOK(s) =>
        (s.inflight.tx # 0 => /\ s.inflight.tx \in 1..sent'
                              /\ txs'[s.inflight.tx].user = s.user)
  BY <1>1 DEF RefOK
<1>3. RefsOK'
  <2>1. \A u \in Users :
          /\ store'[u].inflight.tx # 0 =>
               /\ store'[u].inflight.tx \in 1..sent'
               /\ txs'[store'[u].inflight.tx].user = store'[u].user
          /\ store'[u].status = "none" => store'[u].inflight = NoHash
    BY <1>1, <1>2 DEF RefsOK, AbsentOK
  <2>2. \A q \in Replicas : \A s \in sched'[q].queue :
          /\ s.inflight.tx # 0 => /\ s.inflight.tx \in 1..sent'
                                  /\ txs'[s.inflight.tx].user = s.user
          /\ Billable(s)
    BY <1>1, <1>2 DEF RefsOK, Carries
  <2>3. \A q \in Replicas : Busy(q)' =>
          /\ sched'[q].tx <= sent'
          /\ txs'[sched'[q].tx].user = sched'[q].sub.user
          /\ sched'[q].sub.status # "none"
    <3>1. SUFFICES ASSUME NEW q \in Replicas, Busy(q)'
                   PROVE  /\ sched'[q].tx <= sent'
                          /\ txs'[sched'[q].tx].user = sched'[q].sub.user
                          /\ sched'[q].sub.status # "none"
      OBVIOUS
    <3>2. /\ Busy(q) /\ sched'[q].tx = sched[q].tx
          /\ sched'[q].sub.user = sched[q].sub.user
          /\ sched'[q].sub.status = sched[q].sub.status
      BY <1>1, <3>1 DEF Carries
    <3>3. /\ sched[q].tx <= sent /\ txs[sched[q].tx].user = sched[q].sub.user
          /\ sched[q].sub.status # "none"
      BY <1>1, <3>2 DEF RefsOK
    <3>4. sched[q].tx \in 1..sent
      BY <1>1, <3>2, <3>3 DEF TypeOK, TxIds
    <3> QED BY <1>1, <3>2, <3>3, <3>4
  <2>4. api' # NoCall =>
          /\ api'.read.inflight.tx # 0 =>
               /\ api'.read.inflight.tx \in 1..sent'
               /\ txs'[api'.read.inflight.tx].user = api'.read.user
          /\ api'.read.status = "none" => api'.read.inflight = NoHash
    <3>1. CASE api' = api
      BY <1>1, <1>2, <3>1 DEF RefsOK, AbsentOK
    <3>2. CASE \E u \in Users : api'.read = store[u]
      BY <1>1, <1>2, <3>2 DEF RefsOK, AbsentOK
    <3> QED BY <3>1, <3>2 DEF QuietEffect
  <2> QED BY <2>1, <2>2, <2>3, <2>4 DEF RefsOK, RefOK, AbsentOK
<1>4. QueuesOK'
  <2>1. SUFFICES ASSUME NEW q \in Replicas
                 PROVE  /\ \A s, t \in sched'[q].queue : s.user = t.user => s = t
                        /\ Busy(q)' => \A s \in sched'[q].queue :
                                         s.user # sched'[q].sub.user
    BY DEF QueuesOK
  <2>2. /\ sched'[q].queue \subseteq sched[q].queue
        /\ Busy(q)' => Busy(q) /\ sched'[q].sub.user = sched[q].sub.user
    BY <1>1 DEF Carries
  <2> QED BY <1>1, <2>2 DEF QueuesOK
<1>5. CopiesFresh'
  <2>1. SUFFICES ASSUME NEW q \in Replicas, lock' = q
                 PROVE  /\ \A s \in sched'[q].queue : Agrees(s.user, s.inflight.tx)'
                        /\ Busy(q)' => Agrees(sched[q].sub.user, sched[q].tx)'
    BY DEF CopiesFresh
  <2>2. lock' = q
    BY <2>1
  <2>3. lock = q
    BY <2>2 DEF QuietEffect
  <2>4. \A u \in Users : \A n : Agrees(u, n) => Agrees(u, n)'
    <3>0. TAKE u \in Users
    <3>1. TAKE n
    <3>2. store[u].inflight.tx \in {0} \cup 1..sent
      BY <1>1 DEF RefsOK, RefOK
    <3> QED BY <1>1, <3>2 DEF Agrees
  <2>5. sched[q].sub.user \in Users /\ \A s \in sched[q].queue : s.user \in Users
    BY <1>1, WorkType DEF Sub
  <2>6. \A s \in sched[q].queue : Agrees(s.user, s.inflight.tx)'
    BY <1>1, <2>3, <2>4, <2>5 DEF CopiesFresh
  <2>7. Busy(q) => \A u \in Users : \A n :
          u = sched[q].sub.user /\ n = sched[q].tx => Agrees(u, n)'
    BY <1>1, <2>3, <2>4, <2>5 DEF CopiesFresh
  <2>8. /\ sched'[q].queue \subseteq sched[q].queue
        /\ Busy(q)' => /\ Busy(q) /\ sched'[q].tx = sched[q].tx
                       /\ sched'[q].sub.user = sched[q].sub.user
    BY <1>1 DEF Carries
  <2>9. Busy(q)' => Agrees(sched[q].sub.user, sched[q].tx)'
    BY <2>5, <2>7, <2>8
  <2>10. \A s \in sched'[q].queue : Agrees(s.user, s.inflight.tx)'
    BY <2>6, <2>8
  <2> QED BY <2>9, <2>10
<1>6. Accounted'
  <2>1. SUFFICES ASSUME NEW n \in 1..sent
                 PROVE  \/ Gone(n)' \/ Durable(n)' \/ n \in blamed'
                        \/ \E q \in Replicas : sched'[q].pc = "persist" /\ sched'[q].tx = n
    BY <1>1 DEF Accounted
  <2>2. CASE Gone(n) \/ n \in blamed
    BY <1>1, <2>2
  <2>3. CASE Durable(n)
    BY <1>1, <2>3 DEF Durable
  <2>4. CASE \E q \in Replicas : sched[q].pc = "persist" /\ sched[q].tx = n
    BY <1>1, <2>4 DEF Carries
  <2> QED BY <1>1, <2>2, <2>3, <2>4 DEF Accounted
<1> QED BY <1>3, <1>4, <1>5, <1>6 DEF Accounting
-----------------------------------------------------------------------------
(* The steps that write a record *)

\* An Upsert over a copy that agreed with the store loses no hash unexcused.
LEMMA UpsertExcused ==
  ASSUME IInv, NEW r \in Replicas, NEW rec \in Sub, Upsert(r, rec),
         txs' = txs, credited \subseteq credited', NEW n \in Nat,
         lock = r => Agrees(rec.user, n),
         n \in {0, rec.inflight.tx} \/ Gone(n)'
  PROVE  /\ store' = [store EXCEPT ![rec.user] = rec] /\ blamed \subseteq blamed'
         /\ Excused(rec.user, rec.inflight.tx)
         /\ lock # r => rec.inflight.tx \in {0} \cup blamed'
<1>1. /\ store' = [store EXCEPT ![rec.user] = rec] /\ blamed \subseteq blamed'
      /\ \A m : Gone(m) => Gone(m)'
  BY GoneStable DEF Upsert
<1>2. CASE lock = r
  BY <1>1, <1>2 DEF Upsert, Agrees, Excused
<1>3. CASE lock # r
  BY <1>3 DEF Upsert, Excused
<1> QED BY <1>1, <1>2, <1>3

\* The records of a snapshot are billable ones of pairwise different users.
LEMMA NextRecord ==
  ASSUME IInv, NEW r \in Replicas, NEW s, Takes(r, s)
  PROVE  /\ s \in Sub /\ s \in sched[r].queue /\ s.user \in Users
         /\ s.status # "none" /\ sched[r].pc = "loop"
         /\ Rest(r, s) \in Work /\ ~IsBusy(Rest(r, s))
         /\ Rest(r, s).queue = sched[r].queue \ {s}
         /\ \A t \in Rest(r, s).queue : t.user # s.user
         /\ lock = r => Agrees(s.user, s.inflight.tx)
<1>1. /\ TypeOK /\ RefsOK /\ QueuesOK /\ CopiesFresh
      /\ s \in sched[r].queue /\ sched[r].pc = "loop"
  BY DEF IInv, Takes
<1>2. s \in Sub /\ Rest(r, s) \in Work /\ s.user \in Users
  BY <1>1, WorkType DEF Sub
<1>3. ~IsBusy(Rest(r, s)) /\ Rest(r, s).queue = sched[r].queue \ {s}
  BY DEF Rest, Looping, Idle, IsBusy
<1>4. s.status # "none"
  BY <1>1 DEF RefsOK, Billable
<1>5. \A t \in Rest(r, s).queue : t.user # s.user
  BY <1>1, <1>3 DEF QueuesOK
<1>6. lock = r => Agrees(s.user, s.inflight.tx)
  BY <1>1 DEF CopiesFresh
<1> QED BY <1>1, <1>2, <1>3, <1>4, <1>5, <1>6

\* CancelInactive and SubmitFails write a record without a hash.
LEMMA TakeAndWrite ==
  ASSUME IInv, NEW r \in Replicas, NEW s,
         \/ CancelInactive(r, s)
         \/ \E side \in {"operator", "user"} : SubmitFails(r, s, side)
  PROVE  Accounting'
<1>1. /\ Takes(r, s) /\ s.inflight = NoHash
      /\ sched' = [sched EXCEPT ![r] = Rest(r, s)]
      /\ txs' = txs /\ sent' = sent /\ lock' = lock /\ api' = api
      /\ credited' = credited
  BY DEF CancelInactive, SubmitFails
<1>2. /\ s \in Sub /\ s.user \in Users /\ s.status # "none" /\ sched[r].pc = "loop"
      /\ Rest(r, s) \in Work /\ ~IsBusy(Rest(r, s))
      /\ Rest(r, s).queue \subseteq sched[r].queue
      /\ \A t \in Rest(r, s).queue : t.user # s.user
      /\ lock = r => Agrees(s.user, 0)
  BY <1>1, NextRecord DEF NoHash
<1>3. PICK rec \in Sub : /\ Upsert(r, rec) /\ rec.user = s.user
                         /\ rec.inflight = NoHash /\ rec.status # "none"
  <2>1. now \in Nat
    BY DEF IInv, TypeOK
  <2>2. CASE CancelInactive(r, s)
    BY <1>2, <2>1, <2>2, ConstantRecords, ClearedRecords DEF CancelInactive
  <2>3. CASE \E side \in {"operator", "user"} : SubmitFails(r, s, side)
    BY <1>2, <2>1, <2>3, FailedRecords DEF SubmitFails
  <2> QED BY <2>2, <2>3
<1>4. rec.inflight.tx = 0
  BY <1>3 DEF NoHash
<1>5. /\ store' = [store EXCEPT ![rec.user] = rec] /\ blamed \subseteq blamed'
      /\ Excused(rec.user, rec.inflight.tx)
      /\ lock # r => rec.inflight.tx \in {0} \cup blamed'
  BY <1>1, <1>2, <1>3, <1>4, UpsertExcused
<1>6. WriteEffect(r, rec, Rest(r, s))
  BY <1>1, <1>2, <1>3, <1>4, <1>5 DEF WriteEffect
<1> QED BY <1>2, <1>6, WriteStep

\* What holds of a replica in the middle of a pull.
LEMMA CurrentRecord ==
  ASSUME IInv, NEW r \in Replicas, Busy(r)
  PROVE  /\ sched[r].sub \in Sub /\ sched[r].sub.user \in Users
         /\ sched[r].sub.status # "none"
         /\ sched[r].tx \in TxIds /\ sched[r].tx \in 1..sent
         /\ txs[sched[r].tx].user = sched[r].sub.user
         /\ Looping(sched[r].queue) \in Work /\ ~IsBusy(Looping(sched[r].queue))
         /\ Looping(sched[r].queue).queue = sched[r].queue
         /\ \A t \in sched[r].queue : t.user # sched[r].sub.user
         /\ lock = r => Agrees(sched[r].sub.user, sched[r].tx)
<1>1. TypeOK /\ RefsOK /\ QueuesOK /\ CopiesFresh
  BY DEF IInv
<1>2. sched[r].sub \in Sub /\ sched[r].sub.user \in Users
      /\ Looping(sched[r].queue) \in Work
  BY <1>1, WorkType DEF Sub
<1>3. sched[r].tx \in TxIds /\ sched[r].tx <= sent /\ sent \in Nat
  BY <1>1 DEF TypeOK, RefsOK
<1>4. sched[r].tx \in 1..sent
  BY <1>3 DEF TxIds
<1>5. ~IsBusy(Looping(sched[r].queue)) /\ Looping(sched[r].queue).queue = sched[r].queue
  BY DEF Looping, Idle, IsBusy
<1>6. /\ sched[r].sub.status # "none" /\ txs[sched[r].tx].user = sched[r].sub.user
      /\ \A t \in sched[r].queue : t.user # sched[r].sub.user
      /\ lock = r => Agrees(sched[r].sub.user, sched[r].tx)
  BY <1>1 DEF RefsOK, QueuesOK, CopiesFresh
<1> QED BY <1>2, <1>3, <1>4, <1>5, <1>6

\* onSubmit stores the hash of the pull.
LEMMA PersistAccounted ==
  ASSUME IInv, NEW r \in Replicas, PersistHash(r)
  PROVE  Accounting'
<1> DEFINE rec == WithHash(r)
           w == [sched[r] EXCEPT !.pc = "wait", !.sub = rec]
<1>1. /\ Busy(r) /\ sched[r].pc = "persist" /\ Upsert(r, rec)
      /\ txs' = txs /\ sent' = sent /\ lock' = lock /\ api' = api
      /\ credited' = credited
  BY DEF PersistHash, Busy
<1>2. sched' = [sched EXCEPT ![r] = w]
  BY DEF PersistHash, IInv, TypeOK
<1>3. /\ rec \in Sub /\ rec.user = sched[r].sub.user
      /\ rec.inflight.tx = sched[r].tx /\ rec.status = sched[r].sub.status
  BY <1>1, WrittenRecords DEF IInv
<1> HIDE DEF rec
<1>4. w \in Work /\ w.pc = "wait" /\ w.tx = sched[r].tx /\ w.sub = rec
      /\ w.queue = sched[r].queue
  BY <1>3, WorkType DEF Work, IInv
<1>5. sched[r].tx \in Nat
  BY <1>1, CurrentRecord DEF TxIds
<1> HIDE DEF w
<1>6. /\ store' = [store EXCEPT ![rec.user] = rec] /\ blamed \subseteq blamed'
      /\ Excused(rec.user, rec.inflight.tx)
      /\ lock # r => rec.inflight.tx \in {0} \cup blamed'
  BY <1>1, <1>3, <1>5, CurrentRecord, UpsertExcused
<1>7. rec.status # "none" /\ \A s \in w.queue : s.user # rec.user
  BY <1>1, <1>3, <1>4, CurrentRecord
<1>8. WriteEffect(r, rec, w)
  BY <1>1, <1>2, <1>3, <1>4, <1>6, <1>7 DEF WriteEffect
<1> QED BY <1>3, <1>4, <1>8, WriteStep

\* The pull is over: its record is written without a hash, because the pull
\* is recorded as paid, or reverted, or because its loss is excused.
LEMMA FinishStep ==
  ASSUME IInv, NEW r \in Replicas, NEW rec \in Sub, Busy(r),
         sched[r].pc # "persist", Return(r),
         rec.user = sched[r].sub.user, rec.inflight = NoHash, rec.status # "none",
         txs' = txs, sent' = sent, lock' = lock, api' = api,
         blamed \subseteq blamed', credited \subseteq credited',
         store' = [store EXCEPT ![rec.user] = rec],
         Excused(rec.user, rec.inflight.tx)
  PROVE  Accounting'
<1> DEFINE w == Looping(sched[r].queue)
<1>1. /\ sched' = [sched EXCEPT ![r] = w] /\ w \in Work /\ ~IsBusy(w)
      /\ w.queue = sched[r].queue /\ \A t \in w.queue : t.user # rec.user
  BY CurrentRecord DEF Return
<1> HIDE DEF w
<1>2. rec.inflight.tx = 0
  BY DEF NoHash
<1>3. WriteEffect(r, rec, w)
  BY <1>1, <1>2 DEF WriteEffect
<1> QED BY <1>1, <1>3, WriteStep

LEMMA FinishAccounted ==
  ASSUME IInv, NEW r \in Replicas,
         \/ ReceiptOk(r) \/ LateReceipt(r) \/ ReceiptReverted(r) \/ LateNotFound(r)
         \/ \E side \in {"operator", "user"} : ResendFails(r, side)
  PROVE  Accounting'
<1> DEFINE n == sched[r].tx
           u == sched[r].sub.user
<1>1. /\ Busy(r) /\ sched[r].pc # "persist" /\ Return(r)
      /\ txs' = txs /\ sent' = sent /\ lock' = lock /\ api' = api
      /\ credited \subseteq credited' /\ blamed \subseteq blamed'
  BY DEF ReceiptOk, LateReceipt, ReceiptReverted, LateNotFound, ResendFails, Busy,
         Credit, Upsert
<1>2. /\ now \in Nat /\ TypeOK /\ n \in Nat /\ n \in TxIds /\ u \in Users
      /\ sched[r].sub \in Sub /\ sched[r].sub.status # "none"
      /\ lock = r => Agrees(u, n)
  BY <1>1, CurrentRecord DEF IInv, TypeOK, TxIds
<1>3. \A side \in {"operator", "user"} :
        LET rec == Failed(sched[r].sub, side)
        IN  /\ rec \in Sub /\ rec.user = u /\ rec.inflight = NoHash
            /\ rec.status # "none"
  BY <1>2, FailedRecords
<1>4. CASE ReceiptOk(r) \/ LateReceipt(r)
  <2> DEFINE rec == Settled(r)
  <2>1. rec \in Sub /\ rec.user = u /\ rec.inflight = NoHash /\ rec.status # "none"
    BY <1>2, WrittenRecords
  <2>2. Upsert(r, rec)
    BY <1>4 DEF ReceiptOk, LateReceipt, Credit
  <2>3. \A k : k = sched[r].tx => Gone(k)'
    <3>1. [tx |-> sched[r].tx, as |-> sched[r].kind] \in credited'
      BY <1>4 DEF ReceiptOk, LateReceipt, Credit
    <3> QED BY <3>1 DEF Gone, CreditedTx
  <2> HIDE DEF rec, n, u
  <2>4. /\ store' = [store EXCEPT ![rec.user] = rec]
        /\ Excused(rec.user, rec.inflight.tx)
    <3>1. \A k \in Nat : k = sched[r].tx =>
            (lock = r => Agrees(rec.user, k)) /\ Gone(k)'
      BY <1>2, <2>1, <2>3 DEF n
    <3>2. n = sched[r].tx
      BY DEF n
    <3> HIDE DEF n
    <3> QED BY <1>1, <1>2, <2>1, <2>2, <3>1, <3>2, UpsertExcused
  <2> QED BY <1>1, <2>1, <2>4, FinishStep DEF u
<1>5. CASE ReceiptReverted(r)
  <2> DEFINE rec == Failed(sched[r].sub, "user")
  <2>1. rec \in Sub /\ rec.user = u /\ rec.inflight = NoHash /\ rec.status # "none"
    BY <1>3
  <2>2. Upsert(r, rec)
    BY <1>5 DEF ReceiptReverted
  <2>3. \A k : k = sched[r].tx => Gone(k)'
    BY <1>1, <1>5 DEF ReceiptReverted, HasReceipt, Gone, Return
  <2> HIDE DEF rec, n, u
  <2>4. /\ store' = [store EXCEPT ![rec.user] = rec]
        /\ Excused(rec.user, rec.inflight.tx)
    <3>1. \A k \in Nat : k = sched[r].tx =>
            (lock = r => Agrees(rec.user, k)) /\ Gone(k)'
      BY <1>2, <2>1, <2>3 DEF n
    <3>2. n = sched[r].tx
      BY DEF n
    <3> HIDE DEF n
    <3> QED BY <1>1, <1>2, <2>1, <2>2, <3>1, <3>2, UpsertExcused
  <2> QED BY <1>1, <2>1, <2>4, FinishStep DEF u
<1>6. CASE LateNotFound(r) \/ \E side \in {"operator", "user"} : ResendFails(r, side)
  <2>1. PICK side \in {"operator", "user"} :
          /\ store' = [store EXCEPT ![u] = Failed(sched[r].sub, side)]
          /\ blamed' = blamed \cup ({n, store[u].inflight.tx} \ {0})
    BY <1>6 DEF LateNotFound, ResendFails
  <2> DEFINE rec == Failed(sched[r].sub, side)
  <2>2. rec \in Sub /\ rec.user = u /\ rec.inflight = NoHash /\ rec.status # "none"
    BY <1>3
  <2>3. store' = [store EXCEPT ![rec.user] = rec]
    BY <2>1, <2>2
  <2>4. Excused(rec.user, rec.inflight.tx)
    BY <2>1, <2>2 DEF Excused
  <2> HIDE DEF rec
  <2> QED BY <1>1, <2>2, <2>3, <2>4, FinishStep
<1> QED BY <1>4, <1>5, <1>6
-----------------------------------------------------------------------------
(* The other steps *)

\* The steps of a replica that neither write a record nor take up one.
LEMMA QuietWork ==
  ASSUME IInv, NEW r \in Replicas,
         \/ GiveUp(r) \/ ResolveRpcError(r) \/ FinalUpsertFails(r) \/ Timeout(r)
         \/ NoBump(r) \/ PersistHashFails(r) \/ Resend(r) \/ EndTick(r) \/ Crash(r)
  PROVE  Accounting'
<1>1. TypeOK /\ sched[r] \in Work
  BY WorkType DEF IInv
<1>2. /\ store' = store /\ sent' = sent /\ api' = api /\ credited' = credited
      /\ lock' = lock \/ lock' \notin Replicas
  BY ConstantsAssumption
     DEF GiveUp, ResolveRpcError, FinalUpsertFails, Timeout, NoBump,
         PersistHashFails, Resend, EndTick, Crash, ConstantsAssumption
<1>3. blamed \subseteq blamed'
  BY DEF GiveUp, ResolveRpcError, FinalUpsertFails, Timeout, NoBump,
         PersistHashFails, Resend, EndTick, Crash
<1>4. \A n \in 1..sent : txs'[n].user = txs[n].user /\ (Gone(n) => Gone(n)')
  <2>1. CASE Resend(r)
    <3> DEFINE k == sched[r].tx
               bump == txs[k].top + 1
    <3>1. k \in TxIds /\ txs[k].mined = 0
      BY <1>1, <2>1 DEF Resend, TypeOK, Busy
    <3>2. txs' = [txs EXCEPT ![k] = [txs[k] EXCEPT !.top = bump, !.dropped = FALSE]]
      BY <1>1, <2>1 DEF Resend, TypeOK
    <3> HIDE DEF bump, k
    <3>3. txs[k] \in Tx
      BY <1>1, <3>1 DEF TypeOK
    <3>4. /\ txs'[k].user = txs[k].user /\ txs'[k].mined = txs[k].mined
          /\ txs'[k].ok = txs[k].ok
      BY <1>1, <3>1, <3>2, <3>3 DEF TypeOK, Tx
    <3>5. \A n \in 1..sent : n # k => txs'[n] = txs[n]
      BY <1>1, <3>2 DEF TypeOK
    <3> QED BY <1>2, <3>4, <3>5 DEF Gone, CreditedTx
  <2>2. CASE txs' = txs
    BY <1>2, <2>2 DEF Gone, CreditedTx
  <2> QED BY <2>1, <2>2
       DEF GiveUp, ResolveRpcError, FinalUpsertFails, Timeout, NoBump,
           PersistHashFails, EndTick, Crash
<1>5. \A q \in Replicas : q # r => sched'[q] = sched[q]
  BY <1>1 DEF GiveUp, ResolveRpcError, FinalUpsertFails, Timeout, NoBump,
       PersistHashFails, Resend, EndTick, Crash, Return, TypeOK
<1>6. \A q \in Replicas : q # r => Carries(q)
  BY <1>5 DEF Carries, Busy
<1>7. Carries(r)
  <2>1. CASE GiveUp(r) \/ ResolveRpcError(r) \/ FinalUpsertFails(r)
    <3>1. sched'[r] = Looping(sched[r].queue) /\ sched[r].pc # "persist"
      BY <1>1, <2>1 DEF GiveUp, ResolveRpcError, FinalUpsertFails, Return, TypeOK
    <3> QED BY <3>1 DEF Carries, Busy, Looping, Idle
  <2>2. CASE Timeout(r) \/ NoBump(r)
    <3>1. PICK pc : sched'[r] = [sched[r] EXCEPT !.pc = pc]
      BY <1>1, <2>2 DEF Timeout, NoBump, TypeOK
    <3>2. Busy(r) /\ sched[r].pc # "persist"
      BY <2>2 DEF Timeout, NoBump, Busy
    <3> QED BY <1>1, <3>1, <3>2 DEF Carries, Work
  <2>3. CASE PersistHashFails(r)
    <3> DEFINE rec == WithHash(r)
    <3>1. Busy(r) /\ sched[r].tx \in blamed'
      BY <2>3 DEF PersistHashFails, Busy
    <3>2. sched'[r] = [sched[r] EXCEPT !.pc = "wait", !.sub = rec]
      BY <1>1, <2>3 DEF PersistHashFails, TypeOK
    <3>3. rec.user = sched[r].sub.user /\ rec.status = sched[r].sub.status
      BY <1>1, <3>1, WrittenRecords
    <3> HIDE DEF rec
    <3>4. /\ sched'[r].queue = sched[r].queue /\ sched'[r].tx = sched[r].tx
          /\ sched'[r].sub = rec
      BY <1>1, <3>2 DEF Work
    <3> QED BY <3>1, <3>3, <3>4 DEF Carries
  <2>4. CASE Resend(r)
    <3> DEFINE bump == txs[sched[r].tx].top + 1
    <3>1. Busy(r) /\ sched[r].pc = "bump"
      BY <2>4 DEF Resend, Busy
    <3>2. sched'[r] = [sched[r] EXCEPT !.pc = "persist", !.bump = bump]
      BY <1>1, <2>4 DEF Resend, TypeOK
    <3> HIDE DEF bump
    <3>3. /\ sched'[r].queue = sched[r].queue /\ sched'[r].tx = sched[r].tx
          /\ sched'[r].sub = sched[r].sub
      BY <1>1, <3>2 DEF Work
    <3> QED BY <3>1, <3>3 DEF Carries
  <2>5. CASE EndTick(r) \/ Crash(r)
    <3>1. /\ sched'[r] = Idle
          /\ sched[r].pc = "persist" => sched[r].tx \in blamed'
      BY <1>1, <2>5 DEF EndTick, Crash, TypeOK
    <3> QED BY <3>1 DEF Carries, Busy, Idle
  <2> QED BY <2>1, <2>2, <2>3, <2>4, <2>5
<1> QED BY <1>2, <1>3, <1>4, <1>6, <1>7, QuietStep DEF QuietEffect

\* The steps of the environment, of the clock and of API calls that only read.
LEMMA QuietWorld ==
  ASSUME IInv,
         \/ LeaseExpires \/ AdvanceTime \/ ChainStep
         \/ \E u \in Users : CancelSub(u)
         \/ \E u \in Users, p \in Plans, d \in Starts : CreateSub(u, p, now + d)
         \/ \E p \in Plans, plan \in PlanOptions : UpsertPlan(p, plan)
         \/ UNCHANGED vars
  PROVE  Accounting'
<1>1. TypeOK
  BY DEF IInv
<1>2. /\ store' = store /\ sent' = sent /\ sched' = sched /\ blamed' = blamed
      /\ credited' = credited
      /\ lock' = lock \/ lock' \notin Replicas
      /\ api' = api \/ \E u \in Users : api'.read = store[u]
  <2>1. CASE LeaseExpires
    BY <2>1, ConstantsAssumption DEF LeaseExpires, ConstantsAssumption
  <2>2. CASE AdvanceTime \/ UNCHANGED vars
    BY <2>2 DEF AdvanceTime, vars
  <2>3. CASE ChainStep
    BY <2>3 DEF ChainStep, Drop, Mine
  <2>4. CASE \E u \in Users : CancelSub(u)
    BY <2>4 DEF CancelSub
  <2>5. CASE \E u \in Users, p \in Plans, d \in Starts : CreateSub(u, p, now + d)
    BY <2>5 DEF CreateSub
  <2>6. CASE \E p \in Plans, plan \in PlanOptions : UpsertPlan(p, plan)
    BY <2>6 DEF UpsertPlan
  <2> QED BY <2>1, <2>2, <2>3, <2>4, <2>5, <2>6
<1>3. \A q \in Replicas : Carries(q)
  BY <1>2 DEF Carries, Busy
<1>4. \A n \in 1..sent : txs'[n].user = txs[n].user /\ (Gone(n) => Gone(n)')
  <2>1. CASE ChainStep
    <3>1. PICK k \in 1..sent :
            Drop(k) \/ \E b \in 1..txs[k].top, ok \in BOOLEAN : Mine(k, b, ok)
      BY <2>1 DEF ChainStep
    <3>2. k \in TxIds /\ txs[k] \in Tx
      BY <1>1, ConstantsAssumption DEF TypeOK, TxIds, ConstantsAssumption
    <3>3. txs[k].mined = 0
      BY <3>1 DEF Drop, Mine
    <3>4. (\A n \in 1..sent : n # k => txs'[n] = txs[n]) /\ txs'[k].user = txs[k].user
      <4>1. CASE Drop(k)
        BY <1>1, <3>2, <4>1 DEF Drop, TypeOK, Tx
      <4>2. CASE \E b \in 1..txs[k].top, ok \in BOOLEAN : Mine(k, b, ok)
        <5>1. PICK b \in 1..txs[k].top, ok \in BOOLEAN : Mine(k, b, ok)
          BY <4>2
        <5>2. txs'[k] = [txs[k] EXCEPT !.mined = b, !.ok = ok]
          BY <1>1, <3>2, <5>1 DEF Mine, TypeOK
        <5>3. \A n \in TxIds : n # k => txs'[n] = txs[n]
          BY <1>1, <5>1 DEF Mine, TypeOK
        <5>4. \A n \in 1..sent : n \in TxIds
          BY <1>1, ConstantsAssumption DEF TypeOK, TxIds, ConstantsAssumption
        <5> QED BY <3>2, <5>2, <5>3, <5>4 DEF Tx
      <4> QED BY <3>1, <4>1, <4>2
    <3> QED BY <1>2, <3>3, <3>4 DEF Gone, CreditedTx
  <2>2. CASE txs' = txs
    BY <1>2, <2>2 DEF Gone, CreditedTx
  <2> QED BY <2>1, <2>2
       DEF LeaseExpires, AdvanceTime, CancelSub, CreateSub, UpsertPlan, vars
<1> QED BY <1>2, <1>3, <1>4, QuietStep DEF QuietEffect

\* The tick takes the lock and copies the due records as they are now.
LEMMA StartTickAccounted ==
  ASSUME IInv, NEW r \in Replicas, StartTick(r)
  PROVE  Accounting'
<1>1. /\ TypeOK /\ RefsOK /\ QueuesOK /\ CopiesFresh /\ Accounted
      /\ store' = store /\ sent' = sent /\ blamed' = blamed /\ txs' = txs
      /\ credited' = credited /\ api' = api /\ lock' = r /\ sched[r].pc = "idle"
  BY DEF IInv, StartTick
<1>2. PICK Q \in DueBefore : sched' = [sched EXCEPT ![r] = Looping(Q)]
  BY DEF StartTick
<1>3. /\ sched'[r].queue = Q /\ sched'[r].pc = "loop"
      /\ \A q \in Replicas : q # r => sched'[q] = sched[q]
  <2>1. sched'[r] = Looping(Q)
    BY <1>1, <1>2 DEF TypeOK
  <2> QED BY <1>1, <1>2, <2>1 DEF TypeOK, Looping, Idle
<1>4. ~Busy(r)' /\ \A q \in Replicas : q # r => (Busy(q)' <=> Busy(q))
  BY <1>3 DEF Busy
<1>5. \A s \in Q : /\ s.user \in Users /\ s = store[s.user] /\ Billable(s)
  BY <1>1 DEF DueBefore, DueSet, TypeOK
<1>6. RefsOK'
  <2>1. \A q \in Replicas : \A s \in sched'[q].queue : RefOK(s) /\ Billable(s)
    BY <1>1, <1>3, <1>5 DEF RefsOK
  <2>2. \A q \in Replicas : Busy(q)' =>
          /\ sched'[q].tx <= sent
          /\ txs[sched'[q].tx].user = sched'[q].sub.user
          /\ sched'[q].sub.status # "none"
    BY <1>1, <1>3, <1>4 DEF RefsOK
  <2> QED BY <1>1, <2>1, <2>2 DEF RefsOK, RefOK, AbsentOK
<1>7. QueuesOK'
  <2>1. \A q \in Replicas : \A s, t \in sched'[q].queue : s.user = t.user => s = t
    BY <1>1, <1>3, <1>5 DEF QueuesOK
  <2>2. \A q \in Replicas : Busy(q)' => \A s \in sched'[q].queue :
                                          s.user # sched'[q].sub.user
    BY <1>1, <1>3, <1>4 DEF QueuesOK
  <2> QED BY <2>1, <2>2 DEF QueuesOK
<1>8. CopiesFresh'
  <2>1. \A s \in Q : s.inflight.tx = store'[s.user].inflight.tx
    BY <1>1, <1>5
  <2>2. \A s \in sched'[r].queue : Agrees(s.user, s.inflight.tx)'
    BY <1>3, <2>1 DEF Agrees
  <2> QED BY <1>1, <1>4, <2>2 DEF CopiesFresh
<1>9. Accounted'
  <2>1. \A n \in 1..sent : (Gone(n) => Gone(n)') /\ (Durable(n) => Durable(n)')
    BY <1>1 DEF Gone, CreditedTx, Durable
  <2>2. \A q \in Replicas : sched[q].pc = "persist" =>
          sched'[q].pc = "persist" /\ sched'[q].tx = sched[q].tx
    BY <1>1, <1>3
  <2> QED BY <1>1, <2>1, <2>2 DEF Accounted
<1> QED BY <1>6, <1>7, <1>8, <1>9 DEF Accounting

\* resolveInFlight takes up the hash named by the copy.
LEMMA StartResolveAccounted ==
  ASSUME IInv, NEW r \in Replicas, NEW s, StartResolve(r, s)
  PROVE  Accounting'
<1> DEFINE w == [Rest(r, s) EXCEPT !.pc = "resolve", !.sub = s,
                   !.plan = plans[s.plan], !.tx = s.inflight.tx,
                   !.bump = s.inflight.bump]
<1>1. /\ TypeOK /\ RefsOK /\ QueuesOK /\ CopiesFresh /\ Accounted
      /\ store' = store /\ sent' = sent /\ blamed' = blamed /\ txs' = txs
      /\ credited' = credited /\ api' = api /\ lock' = lock
      /\ Takes(r, s) /\ s.inflight # NoHash
  BY DEF IInv, StartResolve
<1>2. /\ s \in Sub /\ s \in sched[r].queue /\ s.status # "none"
      /\ sched[r].pc = "loop" /\ Rest(r, s) \in Work
      /\ Rest(r, s).queue = sched[r].queue \ {s}
      /\ \A t \in Rest(r, s).queue : t.user # s.user
      /\ lock = r => Agrees(s.user, s.inflight.tx)
  BY <1>1, NextRecord
<1>3. /\ w.pc = "resolve" /\ w.sub = s /\ w.tx = s.inflight.tx
      /\ w.queue = sched[r].queue \ {s}
  BY <1>2 DEF Work
<1>4. sched' = [sched EXCEPT ![r] = w]
  BY DEF StartResolve
<1> HIDE DEF w
<1>5. sched'[r] = w /\ \A q \in Replicas : q # r => sched'[q] = sched[q]
  BY <1>1, <1>4 DEF TypeOK
<1>6. s.inflight.tx \in 1..sent /\ txs[s.inflight.tx].user = s.user
  <2>1. s.inflight.tx # 0
    BY <1>1, <1>2, HashType DEF TxIds
  <2> QED BY <1>1, <1>2, <2>1 DEF RefsOK, RefOK
<1>7. RefsOK'
  <2>1. \A q \in Replicas : \A t \in sched'[q].queue : RefOK(t) /\ Billable(t)
    BY <1>1, <1>3, <1>5 DEF RefsOK
  <2>2. \A q \in Replicas : Busy(q)' =>
          /\ sched'[q].tx <= sent
          /\ txs[sched'[q].tx].user = sched'[q].sub.user
          /\ sched'[q].sub.status # "none"
    <3>1. sent \in Nat
      BY <1>1 DEF TypeOK
    <3>2. w.tx <= sent /\ txs[w.tx].user = w.sub.user /\ w.sub.status # "none"
      BY <1>2, <1>3, <1>6, <3>1
    <3>3. \A q \in Replicas : q # r => (Busy(q)' <=> Busy(q))
      BY <1>5 DEF Busy
    <3> QED BY <1>1, <1>5, <3>2, <3>3 DEF RefsOK
  <2> QED BY <1>1, <2>1, <2>2 DEF RefsOK, RefOK, AbsentOK
<1>8. QueuesOK'
  <2>1. \A q \in Replicas : \A t, v \in sched'[q].queue : t.user = v.user => t = v
    BY <1>1, <1>3, <1>5 DEF QueuesOK
  <2>2. \A q \in Replicas : Busy(q)' => \A t \in sched'[q].queue :
                                          t.user # sched'[q].sub.user
    BY <1>1, <1>2, <1>3, <1>5 DEF QueuesOK, Busy
  <2> QED BY <2>1, <2>2 DEF QueuesOK
<1>9. CopiesFresh'
  <2>1. \A u, n : Agrees(u, n) => Agrees(u, n)'
    BY <1>1 DEF Agrees, Gone, CreditedTx
  <2>2. lock = r => \A u, n : u = w.sub.user /\ n = w.tx => Agrees(u, n)'
    BY <1>2, <1>3, <2>1
  <2>3. SUFFICES ASSUME NEW q \in Replicas, lock' = q
                 PROVE  /\ \A t \in sched'[q].queue : Agrees(t.user, t.inflight.tx)'
                        /\ Busy(q)' => Agrees(sched[q].sub.user, sched[q].tx)'
    BY DEF CopiesFresh
  <2>4. \A t \in sched'[q].queue : Agrees(t.user, t.inflight.tx)'
    BY <1>1, <1>3, <1>5, <2>1, <2>3 DEF CopiesFresh
  <2>5. Busy(q)' => \A u, n : u = sched'[q].sub.user /\ n = sched'[q].tx => Agrees(u, n)'
    <3>1. CASE q = r
      BY <1>1, <1>5, <2>2, <2>3, <3>1
    <3>2. CASE q # r
      BY <1>1, <1>5, <2>1, <2>3, <3>2 DEF CopiesFresh, Busy
    <3> QED BY <3>1, <3>2
  <2> QED BY <2>4, <2>5
<1>10. Accounted'
  <2>1. \A n \in 1..sent : (Gone(n) => Gone(n)') /\ (Durable(n) => Durable(n)')
    BY <1>1 DEF Gone, CreditedTx, Durable
  <2>2. \A q \in Replicas : sched[q].pc = "persist" =>
          sched'[q].pc = "persist" /\ sched'[q].tx = sched[q].tx
    BY <1>2, <1>5
  <2> QED BY <1>1, <2>1, <2>2 DEF Accounted
<1> QED BY <1>7, <1>8, <1>9, <1>10 DEF Accounting

\* A new pull of a user whose copy and record name no open one.
LEMMA BroadcastAccounted ==
  ASSUME IInv, NEW r \in Replicas, NEW s, Broadcast(r, s)
  PROVE  Accounting'
<1> DEFINE n == sent + 1
           plan == plans[s.plan]
           tx == [NoTx EXCEPT !.user = s.user, !.kind = KindOf(s), !.due = s.next,
                    !.period = plan.period, !.epoch = epoch[s.user], !.top = 1]
           w == [Rest(r, s) EXCEPT !.pc = "persist", !.sub = s, !.plan = plan,
                   !.tx = n, !.bump = 1, !.kind = KindOf(s)]
<1>1. /\ TypeOK /\ RefsOK /\ QueuesOK /\ CopiesFresh /\ Accounted
      /\ store' = store /\ sent' = n /\ blamed' = blamed
      /\ credited' = credited /\ api' = api /\ lock' = lock
      /\ Takes(r, s) /\ s.inflight = NoHash /\ sent \in Nat
  BY DEF IInv, Broadcast, TypeOK
<1>2. n \in TxIds /\ sent \in 0..MaxTx /\ \A k \in 1..sent : k \in TxIds /\ k # n
  BY <1>1, ConstantsAssumption DEF Broadcast, TypeOK, TxIds, ConstantsAssumption
<1>3. /\ s \in Sub /\ s \in sched[r].queue /\ s.status # "none"
      /\ sched[r].pc = "loop" /\ Rest(r, s) \in Work
      /\ Rest(r, s).queue = sched[r].queue \ {s} /\ s.user \in Users
      /\ \A t \in Rest(r, s).queue : t.user # s.user
      /\ lock = r => Agrees(s.user, 0)
  BY <1>1, NextRecord DEF NoHash
<1>4. sched' = [sched EXCEPT ![r] = w] /\ txs' = [txs EXCEPT ![n] = tx]
  BY DEF Broadcast
<1>5. /\ w.pc = "persist" /\ w.sub = s /\ w.tx = n
      /\ w.queue = sched[r].queue \ {s} /\ tx.user = s.user
  <2>1. NoTx \in Tx
    BY ConstantRecords
  <2> QED BY <1>3, <2>1 DEF Work, Tx
<1> HIDE DEF w, tx
<1>6. /\ sched'[r] = w /\ \A q \in Replicas : q # r => sched'[q] = sched[q]
      /\ txs'[n].user = s.user /\ \A k \in 1..sent : txs'[k] = txs[k]
  BY <1>1, <1>2, <1>4, <1>5 DEF TypeOK
<1>7. \A k \in 1..sent : k \in 1..sent' /\ k <= sent'
  BY <1>1
<1> HIDE DEF n
<1>8. \A t : RefOK(t) => (t.inflight.tx # 0 =>
                            /\ t.inflight.tx \in 1..sent'
                            /\ txs'[t.inflight.tx].user = t.user)
  BY <1>6, <1>7 DEF RefOK
<1>9. RefsOK'
  <2>1. \A q \in Replicas : \A t \in sched'[q].queue : RefOK(t) /\ Billable(t)
    BY <1>1, <1>5, <1>6 DEF RefsOK
  <2>2. \A q \in Replicas : Busy(q)' =>
          /\ sched'[q].tx <= sent'
          /\ txs'[sched'[q].tx].user = sched'[q].sub.user
          /\ sched'[q].sub.status # "none"
    <3>1. n \in Nat
      BY <1>2 DEF TxIds
    <3>2. CASE TRUE
      <4>1. SUFFICES ASSUME NEW q \in Replicas, q # r, Busy(q)'
                     PROVE  /\ sched'[q].tx <= sent'
                            /\ txs'[sched'[q].tx].user = sched'[q].sub.user
                            /\ sched'[q].sub.status # "none"
        BY <1>1, <1>3, <1>5, <1>6, <3>1
      <4>2. sched'[q] = sched[q] /\ Busy(q)
        BY <1>6, <4>1 DEF Busy
      <4>3. sched[q].tx \in TxIds /\ sched[q].tx <= sent
        BY <1>1, <4>2 DEF TypeOK, RefsOK
      <4>4. sched[q].tx \in 1..sent
        BY <1>1, <4>3 DEF TxIds
      <4> QED BY <1>1, <1>6, <1>7, <4>2, <4>4 DEF RefsOK
    <3> QED BY <3>2
  <2> QED BY <1>1, <1>8, <2>1, <2>2 DEF RefsOK, RefOK, AbsentOK
<1>10. QueuesOK'
  <2>1. \A q \in Replicas : \A t, v \in sched'[q].queue : t.user = v.user => t = v
    BY <1>1, <1>5, <1>6 DEF QueuesOK
  <2>2. \A q \in Replicas : Busy(q)' => \A t \in sched'[q].queue :
                                          t.user # sched'[q].sub.user
    BY <1>1, <1>3, <1>5, <1>6 DEF QueuesOK, Busy
  <2> QED BY <2>1, <2>2 DEF QueuesOK
<1>11. CopiesFresh'
  <2>1. \A u \in Users : \A k : Agrees(u, k) => Agrees(u, k)'
    <3>0. TAKE u \in Users
    <3>1. TAKE k
    <3>2. store[u].inflight.tx \in {0} \cup 1..sent
      BY <1>1 DEF RefsOK, RefOK
    <3> QED BY <1>1, <1>6, <3>2 DEF Agrees, Gone, CreditedTx
  <2>2. lock = r => \A u, k : u = s.user /\ k = n => Agrees(u, k)'
    <3>1. SUFFICES ASSUME lock = r, NEW k PROVE Agrees(s.user, k)'
      BY <1>3
    <3>2. Agrees(s.user, 0)'
      BY <1>3, <2>1, <3>1
    <3> QED BY <3>2 DEF Agrees
  <2>3. SUFFICES ASSUME NEW q \in Replicas, lock' = q
                 PROVE  /\ \A t \in sched'[q].queue : Agrees(t.user, t.inflight.tx)'
                        /\ Busy(q)' => Agrees(sched[q].sub.user, sched[q].tx)'
    BY DEF CopiesFresh
  <2>4. \A t \in sched'[q].queue : Agrees(t.user, t.inflight.tx)'
    <3>1. sched'[q].queue \subseteq sched[q].queue
      BY <1>5, <1>6
    <3>2. \A t \in sched[q].queue : t.user \in Users
      BY <1>1, WorkType, SubFields
    <3> QED BY <1>1, <2>1, <2>3, <3>1, <3>2 DEF CopiesFresh
  <2>5. Busy(q)' => \A u, k : u = sched'[q].sub.user /\ k = sched'[q].tx => Agrees(u, k)'
    <3>1. CASE q = r
      BY <1>1, <1>5, <1>6, <2>2, <2>3, <3>1
    <3>2. CASE q # r
      <4>1. sched'[q] = sched[q] /\ (Busy(q)' <=> Busy(q)) /\ lock = q
        BY <1>1, <1>6, <2>3, <3>2 DEF Busy
      <4>2. sched[q].sub.user \in Users
        BY <1>1, WorkType, SubFields
      <4>3. Busy(q) => Agrees(sched[q].sub.user, sched[q].tx)
        BY <1>1, <4>1 DEF CopiesFresh
      <4> QED BY <2>1, <4>1, <4>2, <4>3
    <3> QED BY <3>1, <3>2
  <2> QED BY <2>4, <2>5
<1>12. Accounted'
  <2>1. \A k \in 1..sent : (Gone(k) => Gone(k)') /\ (Durable(k) => Durable(k)')
    BY <1>1, <1>6 DEF Gone, CreditedTx, Durable
  <2>2. \A q \in Replicas : sched[q].pc = "persist" =>
          sched'[q].pc = "persist" /\ sched'[q].tx = sched[q].tx
    BY <1>3, <1>6
  <2>3. sched'[r].pc = "persist" /\ sched'[r].tx = n
    BY <1>5, <1>6
  <2>4. \A k \in 1..sent' : k \in 1..sent \/ k = n
    BY <1>1 DEF n
  <2> QED BY <1>1, <2>1, <2>2, <2>3, <2>4 DEF Accounted
<1> QED BY <1>9, <1>10, <1>11, <1>12 DEF Accounting

\* An API handler writes a record under the feet of the scheduler.
LEMMA ApiWrite ==
  ASSUME IInv, NEW rec \in Sub, rec.status # "none",
         store' = [store EXCEPT ![rec.user] = rec], sched' = sched,
         txs' = txs, sent' = sent, lock' = lock, credited' = credited,
         blamed \subseteq blamed', api' = NoCall, RefOK(rec),
         \/ rec.inflight.tx = store[rec.user].inflight.tx
         \/ {store[rec.user].inflight.tx, rec.inflight.tx} \subseteq {0} \cup blamed'
  PROVE  Accounting'
<1>1. /\ TypeOK /\ RefsOK /\ QueuesOK /\ CopiesFresh /\ Accounted
      /\ rec.user \in Users
  BY DEF IInv, Sub
<1>2. /\ store'[rec.user] = rec
      /\ \A u \in Users : u # rec.user => store'[u] = store[u]
  BY <1>1 DEF TypeOK
<1>3. \A q \in Replicas : Busy(q)' <=> Busy(q)
  BY DEF Busy
<1>4. \A u \in Users : \A n : Agrees(u, n) => Agrees(u, n)'
  <2>0. TAKE u \in Users
  <2>1. TAKE n
  <2>2. CASE u = rec.user
    BY <1>2, <2>2 DEF Agrees, Gone, CreditedTx
  <2>3. CASE u # rec.user
    BY <1>2, <2>3, AgreesStable
  <2> QED BY <2>2, <2>3
<1>5. RefsOK'
  <2>1. \A u \in Users :
          /\ store'[u].inflight.tx # 0 =>
               /\ store'[u].inflight.tx \in 1..sent
               /\ txs[store'[u].inflight.tx].user = store'[u].user
          /\ store'[u].status = "none" => store'[u].inflight = NoHash
    BY <1>1, <1>2 DEF RefsOK, RefOK, AbsentOK
  <2>2. \A q \in Replicas :
          /\ \A s \in sched[q].queue :
               /\ s.inflight.tx # 0 => /\ s.inflight.tx \in 1..sent
                                       /\ txs[s.inflight.tx].user = s.user
               /\ Billable(s)
          /\ Busy(q)' => /\ sched[q].tx <= sent
                         /\ txs[sched[q].tx].user = sched[q].sub.user
                         /\ sched[q].sub.status # "none"
    BY <1>1, <1>3 DEF RefsOK, RefOK
  <2> QED BY <2>1, <2>2 DEF RefsOK, RefOK, AbsentOK
<1>6. QueuesOK'
  BY <1>1, <1>3 DEF QueuesOK
<1>7. CopiesFresh'
  <2>1. SUFFICES ASSUME NEW q \in Replicas, lock' = q
                 PROVE  /\ \A s \in sched'[q].queue : Agrees(s.user, s.inflight.tx)'
                        /\ Busy(q)' => Agrees(sched[q].sub.user, sched[q].tx)'
    BY DEF CopiesFresh
  <2>2. sched[q].sub.user \in Users /\ \A s \in sched[q].queue : s.user \in Users
    BY <1>1, WorkType, SubFields
  <2>3. \A s \in sched'[q].queue : Agrees(s.user, s.inflight.tx)'
    BY <1>1, <1>4, <2>1, <2>2 DEF CopiesFresh
  <2>4. Busy(q) => \A u \in Users : \A n : u = sched'[q].sub.user /\ n = sched'[q].tx
                                         => Agrees(u, n)'
    BY <1>1, <1>4, <2>1 DEF CopiesFresh
  <2> QED BY <1>3, <2>2, <2>3, <2>4
<1>8. Accounted'
  <2>1. SUFFICES ASSUME NEW n \in 1..sent
                 PROVE  \/ Gone(n)' \/ Durable(n)' \/ n \in blamed'
                        \/ \E q \in Replicas : sched'[q].pc = "persist" /\ sched'[q].tx = n
    BY DEF Accounted
  <2>2. CASE Durable(n)
    <3>1. CASE txs[n].user = rec.user
      <4>1. n = rec.inflight.tx \/ n \in blamed'
        <5>1. n = store[rec.user].inflight.tx /\ n # 0
          BY <2>2, <3>1 DEF Durable
        <5> QED BY <5>1
      <4> QED BY <1>2, <3>1, <4>1 DEF Durable
    <3>2. CASE txs[n].user # rec.user
      <4>1. txs[n].user \in Users
        BY <1>1, ConstantsAssumption DEF TypeOK, Tx, TxIds, ConstantsAssumption
      <4> QED BY <1>2, <2>2, <3>2, <4>1 DEF Durable
    <3> QED BY <3>1, <3>2
  <2>3. CASE Gone(n) \/ n \in blamed
    BY <2>3, GoneStable
  <2> QED BY <1>1, <2>1, <2>2, <2>3 DEF Accounted
<1> QED BY <1>5, <1>6, <1>7, <1>8 DEF Accounting

LEMMA ApiAccounted ==
  ASSUME IInv, WriteCall \/ \E u \in Users, p \in Plans : CompleteCheckout(u, p)
  PROVE  Accounting'
<1>1. CASE WriteCall
  <2> DEFINE rec == CallResult(api)
             u == api.user
  <2>1. /\ TypeOK /\ RefsOK /\ api # NoCall /\ u \in Users
        /\ api.read \in Sub /\ api.read.user = u
    BY <1>1 DEF IInv, WriteCall, TypeOK, Call
  <2>2. /\ rec \in Sub /\ rec.user = u /\ rec.status # "none"
        /\ rec.inflight \in {NoHash, api.read.inflight}
        /\ api.read.status # "none" => rec.inflight = api.read.inflight
    BY <2>1, CallRecords
  <2>3. /\ store' = [store EXCEPT ![u] = rec] /\ sched' = sched /\ txs' = txs
        /\ sent' = sent /\ lock' = lock /\ credited' = credited
        /\ api' = NoCall /\ blamed \subseteq blamed'
    BY <1>1 DEF WriteCall
  <2>4. RefOK(api.read) /\ AbsentOK(api.read) /\ RefOK(store[u]) /\ AbsentOK(store[u])
    BY <2>1 DEF RefsOK
  <2>5. rec.inflight = api.read.inflight
    BY <2>2, <2>4 DEF AbsentOK
  <2>6. RefOK(rec)
    BY <2>1, <2>2, <2>4, <2>5 DEF RefOK
  <2>7. \/ rec.inflight.tx = store[u].inflight.tx
        \/ {store[u].inflight.tx, rec.inflight.tx} \subseteq {0} \cup blamed'
    <3>1. CASE api.read.inflight = store[u].inflight
      BY <2>5, <3>1
    <3>2. CASE api.read.inflight # store[u].inflight
      BY <1>1, <2>5, <3>2 DEF WriteCall
    <3> QED BY <3>1, <3>2
  <2> HIDE DEF rec, u
  <2> QED BY <2>2, <2>3, <2>6, <2>7, ApiWrite
<1>2. CASE \E u \in Users, p \in Plans : CompleteCheckout(u, p)
  <2>1. PICK u \in Users, p \in Plans : CompleteCheckout(u, p)
    BY <1>2
  <2> DEFINE start == now + plans[p].period
             rec == NewSub(u, p, start)
  <2>2. TypeOK /\ start \in Nat
    BY DEF IInv, TypeOK, Plan
  <2>3. store' = [store EXCEPT ![u] = rec]
    BY <2>1 DEF CompleteCheckout
  <2> HIDE DEF start
  <2>4. /\ rec \in Sub /\ rec.user = u /\ rec.status # "none"
        /\ rec.inflight.tx = 0
    BY <2>2, ConstantRecords DEF NoHash
  <2> HIDE DEF rec
  <2>5. /\ sched' = sched /\ txs' = txs /\ sent' = sent /\ lock' = lock
        /\ credited' = credited /\ api' = NoCall /\ blamed \subseteq blamed'
        /\ store[u].inflight.tx \in {0} \cup blamed'
    BY <2>1 DEF CompleteCheckout
  <2>6. RefOK(rec)
    BY <2>4 DEF RefOK
  <2> QED BY <2>3, <2>4, <2>5, <2>6, ApiWrite
<1> QED BY <1>1, <1>2

LEMMA AccountingInit == Init => Accounting
<1> SUFFICES ASSUME Init PROVE Accounting
  OBVIOUS
<1>1. \A u \in Users : store[u].inflight = NoHash
  BY ConstantRecords DEF Init
<1>2. \A r \in Replicas : sched[r].queue = {} /\ sched[r].pc = "idle"
  BY DEF Init, Idle
<1> QED BY <1>1, <1>2
      DEF Init, Accounting, RefsOK, QueuesOK, CopiesFresh, Accounted, RefOK,
          AbsentOK, Busy, NoHash

LEMMA AccountingStep == IInv /\ [Next]_vars => IInv'
<1> SUFFICES ASSUME IInv, [Next]_vars PROVE IInv'
  OBVIOUS
<1>1. TypeOK'
  BY StepType DEF IInv
<1>2. Accounting'
  <2>1. CASE \E r \in Replicas : SchedStep(r) \/ Crash(r)
    <3>1. PICK r \in Replicas : SchedStep(r) \/ Crash(r)
      BY <2>1
    <3>2. CASE SubStep(r)
      BY <3>2, StartResolveAccounted, TakeAndWrite, BroadcastAccounted DEF SubStep
    <3>3. CASE WaitStep(r)
      BY <3>3, PersistAccounted, FinishAccounted, QuietWork DEF WaitStep
    <3>4. CASE StartTick(r) \/ EndTick(r) \/ Crash(r)
      BY <3>4, StartTickAccounted, QuietWork
    <3> QED BY <3>1, <3>2, <3>3, <3>4 DEF SchedStep
  <2>2. CASE ApiStep
    BY <2>2, ApiAccounted, QuietWorld DEF ApiStep
  <2>3. CASE LeaseExpires \/ ChainStep \/ AdvanceTime \/ UNCHANGED vars
    BY <2>3, QuietWorld
  <2> QED BY <2>1, <2>2, <2>3 DEF Next
<1> QED BY <1>1, <1>2 DEF IInv, Accounting

(* store.go:102-106, for any number of users, replicas, pulls, crashes and *)
(* API calls, and any set of faults: a pull that can still cost the user   *)
(* money without being recorded is named by the stored record of its user, *)
(* or its hash is just about to be stored, or a listed fault hit that very *)
(* pull.                                                                   *)
THEOREM PullsAccounted == Spec => []OpenPullsAccounted
<1>1. Init => IInv
  BY InitType, AccountingInit DEF IInv, Accounting
<1>2. IInv => OpenPullsAccounted
  BY DEF IInv, Accounted, OpenPullsAccounted, Open, Gone
<1> QED BY <1>1, <1>2, AccountingStep, PTL DEF Spec
-----------------------------------------------------------------------------
(* What each step of a replica leaves in its own record of work, and what  *)
(* it leaves alone: the facts later proofs need of records built with      *)
(* EXCEPT.                                                                 *)

OthersWork(r) == \A q \in Replicas : q # r => sched'[q] = sched[q]

LEMMA TickWork ==
  ASSUME TypeOK, NEW r \in Replicas, StartTick(r) \/ EndTick(r) \/ Crash(r)
  PROVE  /\ OthersWork(r) /\ sched'[r].sub = AnySub
         /\ store' = store /\ plans' = plans /\ txs' = txs /\ sent' = sent
         /\ api' = api /\ now' = now /\ credited' = credited /\ epoch' = epoch
         /\ blamed \subseteq blamed'
         /\ StartTick(r) => sched'[r].pc = "loop" /\ sched'[r].queue \in DueBefore
         /\ EndTick(r) \/ Crash(r) => sched'[r].pc = "idle" /\ sched'[r].queue = {}
<1>1. \A Q : Looping(Q).pc = "loop" /\ Looping(Q).sub = AnySub /\ Looping(Q).queue = Q
  BY DEF Looping, Idle
<1>2. Idle.pc = "idle" /\ Idle.sub = AnySub /\ Idle.queue = {}
  BY DEF Idle
<1>3. CASE StartTick(r)
  <2>1. PICK Q \in DueBefore : sched' = [sched EXCEPT ![r] = Looping(Q)]
    BY <1>3 DEF StartTick
  <2>2. OthersWork(r) /\ sched'[r] = Looping(Q)
    BY <2>1 DEF TypeOK, OthersWork
  <2>3. lock = Free /\ sched[r].pc = "idle" /\ sched'[r].pc = "loop"
    BY <1>1, <1>3, <2>2 DEF StartTick
  <2>4. ~EndTick(r) /\ ~Crash(r)
    BY <2>3 DEF EndTick, Crash
  <2> QED BY <1>1, <1>3, <2>2, <2>4 DEF StartTick
<1>4. CASE EndTick(r) \/ Crash(r)
  <2>1. OthersWork(r) /\ sched'[r] = Idle
    BY <1>4 DEF EndTick, Crash, TypeOK, OthersWork
  <2>2. ~StartTick(r)
    BY <1>4 DEF EndTick, Crash, StartTick
  <2> QED BY <1>2, <1>4, <2>1, <2>2 DEF EndTick, Crash
<1> QED BY <1>3, <1>4

LEMMA RestFields ==
  ASSUME NEW r \in Replicas, NEW s
  PROVE  /\ Rest(r, s).pc = "loop" /\ Rest(r, s).sub = AnySub
         /\ Rest(r, s).queue = sched[r].queue \ {s} /\ Rest(r, s).kind = "regular"
BY DEF Rest, Looping, Idle

LEMMA ResolveWork ==
  ASSUME TypeOK, NEW r \in Replicas, NEW s \in sched[r].queue, StartResolve(r, s)
  PROVE  /\ OthersWork(r)
         /\ sched'[r].pc = "resolve" /\ sched'[r].queue = sched[r].queue \ {s}
         /\ sched'[r].sub = s /\ sched'[r].plan = plans[s.plan]
         /\ sched'[r].tx = s.inflight.tx /\ sched'[r].bump = s.inflight.bump
         /\ sched'[r].kind = "regular"
<1> DEFINE rest == Rest(r, s)
           plan == plans[s.plan]
           tx == s.inflight.tx
           bump == s.inflight.bump
           w == [rest EXCEPT !.pc = "resolve", !.sub = s, !.plan = plan, !.tx = tx,
                             !.bump = bump]
<1>1. sched' = [sched EXCEPT ![r] = w]
  BY DEF StartResolve
<1>2. rest \in Work /\ rest.queue = sched[r].queue \ {s} /\ rest.kind = "regular"
  BY WorkType, RestFields
<1> HIDE DEF rest, plan, tx, bump
<1>3. /\ w.pc = "resolve" /\ w.sub = s /\ w.plan = plan /\ w.tx = tx /\ w.bump = bump
      /\ w.queue = rest.queue /\ w.kind = rest.kind
  BY <1>2 DEF Work
<1> HIDE DEF w
<1>4. sched'[r] = w /\ OthersWork(r)
  BY <1>1 DEF TypeOK, OthersWork
<1> QED BY <1>2, <1>3, <1>4 DEF plan, tx, bump

LEMMA BroadcastWork ==
  ASSUME TypeOK, NEW r \in Replicas, NEW s \in sched[r].queue, Broadcast(r, s)
  PROVE  /\ OthersWork(r)
         /\ sched'[r].pc = "persist" /\ sched'[r].queue = sched[r].queue \ {s}
         /\ sched'[r].sub = s /\ sched'[r].plan = plans[s.plan]
         /\ sched'[r].tx = sent + 1 /\ sched'[r].bump = 1
         /\ sched'[r].kind = KindOf(s)
         /\ sent' = sent + 1 /\ sent + 1 \in TxIds
         /\ \A m \in TxIds : m # sent + 1 => txs'[m] = txs[m]
         /\ txs'[sent + 1].user = s.user /\ txs'[sent + 1].kind = KindOf(s)
         /\ txs'[sent + 1].due = s.next /\ txs'[sent + 1].period = plans[s.plan].period
         /\ txs'[sent + 1].epoch = epoch[s.user] /\ txs'[sent + 1].top = 1
         /\ txs'[sent + 1].mined = 0 /\ ~txs'[sent + 1].dropped
<1> DEFINE rest == Rest(r, s)
           plan == plans[s.plan]
           n == sent + 1
           kind == KindOf(s)
           period == plans[s.plan].period
           ep == epoch[s.user]
           tx == [NoTx EXCEPT !.user = s.user, !.kind = kind, !.due = s.next,
                              !.period = period, !.epoch = ep, !.top = 1]
           w == [rest EXCEPT !.pc = "persist", !.sub = s, !.plan = plan, !.tx = n,
                             !.bump = 1, !.kind = kind]
<1>1. sched' = [sched EXCEPT ![r] = w] /\ txs' = [txs EXCEPT ![n] = tx] /\ sent' = n
  BY DEF Broadcast
<1>2. rest \in Work /\ rest.queue = sched[r].queue \ {s}
  BY WorkType, RestFields
<1>3. n \in TxIds
  BY ConstantsAssumption DEF Broadcast, TypeOK, TxIds, ConstantsAssumption
<1> HIDE DEF rest, plan, n, kind, period, ep
<1>4. /\ w.pc = "persist" /\ w.sub = s /\ w.plan = plan /\ w.tx = n /\ w.bump = 1
      /\ w.queue = rest.queue /\ w.kind = kind
  BY <1>2 DEF Work
<1>5. /\ tx.user = s.user /\ tx.kind = kind /\ tx.due = s.next /\ tx.period = period
      /\ tx.epoch = ep /\ tx.top = 1 /\ tx.mined = 0 /\ ~tx.dropped
  BY DEF NoTx
<1> HIDE DEF w, tx
<1>6. sched'[r] = w /\ OthersWork(r)
  BY <1>1 DEF TypeOK, OthersWork
<1>7. txs'[n] = tx /\ \A m \in TxIds : m # n => txs'[m] = txs[m]
  BY <1>1, <1>3 DEF TypeOK
<1> QED BY <1>1, <1>2, <1>3, <1>4, <1>5, <1>6, <1>7 DEF plan, n, kind, period, ep

LEMMA FailedTakeWork ==
  ASSUME TypeOK, NEW r \in Replicas, NEW s \in sched[r].queue,
         \/ CancelInactive(r, s)
         \/ \E side \in {"operator", "user"} : SubmitFails(r, s, side)
  PROVE  /\ OthersWork(r) /\ sched'[r].pc = "loop" /\ sched'[r].sub = AnySub
         /\ sched'[r].queue = sched[r].queue \ {s}
BY RestFields DEF CancelInactive, SubmitFails, TypeOK, OthersWork

LEMMA PersistWork ==
  ASSUME TypeOK, NEW r \in Replicas, PersistHash(r) \/ PersistHashFails(r)
  PROVE  /\ OthersWork(r) /\ sched'[r].pc = "wait" /\ sched'[r].sub = WithHash(r)
         /\ sched'[r].queue = sched[r].queue /\ sched'[r].plan = sched[r].plan
         /\ sched'[r].tx = sched[r].tx /\ sched'[r].bump = sched[r].bump
         /\ sched'[r].kind = sched[r].kind
<1> DEFINE rec == WithHash(r)
           w == [sched[r] EXCEPT !.pc = "wait", !.sub = rec]
<1>1. sched' = [sched EXCEPT ![r] = w] /\ sched[r] \in Work
  BY WorkType DEF PersistHash, PersistHashFails, TypeOK
<1> HIDE DEF rec
<1>2. /\ w.pc = "wait" /\ w.sub = rec /\ w.queue = sched[r].queue
      /\ w.plan = sched[r].plan /\ w.tx = sched[r].tx /\ w.bump = sched[r].bump
      /\ w.kind = sched[r].kind
  BY <1>1 DEF Work
<1> HIDE DEF w
<1> QED BY <1>1, <1>2 DEF TypeOK, OthersWork, rec

LEMMA WaitWork ==
  ASSUME TypeOK, NEW r \in Replicas, Timeout(r) \/ NoBump(r)
  PROVE  /\ OthersWork(r) /\ sched'[r].pc \in {"wait", "bump"}
         /\ sched'[r].sub = sched[r].sub /\ sched'[r].queue = sched[r].queue
         /\ sched'[r].plan = sched[r].plan /\ sched'[r].tx = sched[r].tx
         /\ sched'[r].kind = sched[r].kind
<1>1. PICK pc \in {"wait", "bump"} : sched' = [sched EXCEPT ![r].pc = pc]
  BY DEF Timeout, NoBump
<1> DEFINE w == [sched[r] EXCEPT !.pc = pc]
<1>2. sched' = [sched EXCEPT ![r] = w] /\ sched[r] \in Work
  BY <1>1, WorkType DEF TypeOK
<1>3. /\ w.pc = pc /\ w.sub = sched[r].sub /\ w.queue = sched[r].queue
      /\ w.plan = sched[r].plan /\ w.tx = sched[r].tx /\ w.kind = sched[r].kind
  BY <1>2 DEF Work
<1> HIDE DEF w
<1> QED BY <1>2, <1>3 DEF TypeOK, OthersWork

LEMMA ResendWork ==
  ASSUME TypeOK, NEW r \in Replicas, Resend(r)
  PROVE  /\ OthersWork(r) /\ sched'[r].pc = "persist"
         /\ sched'[r].sub = sched[r].sub /\ sched'[r].queue = sched[r].queue
         /\ sched'[r].plan = sched[r].plan /\ sched'[r].tx = sched[r].tx
         /\ sched'[r].kind = sched[r].kind
         /\ sched'[r].bump = txs[sched[r].tx].top + 1
         /\ \A m \in TxIds : m # sched[r].tx => txs'[m] = txs[m]
         /\ \A m \in TxIds :
              /\ m = sched[r].tx => txs'[m].top = txs[m].top + 1
              /\ txs'[m].user = txs[m].user /\ txs'[m].kind = txs[m].kind
              /\ txs'[m].due = txs[m].due /\ txs'[m].period = txs[m].period
              /\ txs'[m].epoch = txs[m].epoch /\ txs'[m].mined = txs[m].mined
              /\ txs'[m].ok = txs[m].ok
<1> DEFINE n == sched[r].tx
           bump == txs[n].top + 1
           w == [sched[r] EXCEPT !.pc = "persist", !.bump = bump]
           tx == [txs[n] EXCEPT !.top = bump, !.dropped = FALSE]
<1>1. sched' = [sched EXCEPT ![r] = w] /\ sched[r] \in Work
  BY WorkType DEF Resend, TypeOK
<1>2. n \in TxIds /\ txs[n] \in Tx
  BY DEF Resend, TypeOK, Busy
<1>3. txs' = [txs EXCEPT ![n] = tx]
  BY <1>2 DEF Resend, TypeOK
<1> HIDE DEF bump
<1>4. /\ w.pc = "persist" /\ w.sub = sched[r].sub /\ w.queue = sched[r].queue
      /\ w.plan = sched[r].plan /\ w.tx = sched[r].tx /\ w.kind = sched[r].kind
      /\ w.bump = bump
  BY <1>1 DEF Work
<1>5. /\ tx.user = txs[n].user /\ tx.kind = txs[n].kind /\ tx.due = txs[n].due
      /\ tx.period = txs[n].period /\ tx.epoch = txs[n].epoch /\ tx.top = bump
      /\ tx.mined = txs[n].mined /\ tx.ok = txs[n].ok
  BY <1>2 DEF Tx
<1> HIDE DEF w, tx
<1>6. sched'[r] = w /\ OthersWork(r)
  BY <1>1 DEF TypeOK, OthersWork
<1>7. txs'[n] = tx /\ \A m \in TxIds : m # n => txs'[m] = txs[m]
  BY <1>2, <1>3 DEF TypeOK
<1> QED BY <1>2, <1>4, <1>5, <1>6, <1>7 DEF bump, n

LEMMA ReturnWork ==
  ASSUME TypeOK, NEW r \in Replicas, Return(r)
  PROVE  /\ OthersWork(r) /\ sched'[r].pc = "loop" /\ sched'[r].sub = AnySub
         /\ sched'[r].queue = sched[r].queue
<1> DEFINE w == Looping(sched[r].queue)
<1>1. w.pc = "loop" /\ w.sub = AnySub /\ w.queue = sched[r].queue
  BY DEF Looping, Idle
<1>2. sched' = [sched EXCEPT ![r] = w]
  BY DEF Return
<1> HIDE DEF w
<1> QED BY <1>1, <1>2 DEF TypeOK, OthersWork

\* The steps of WaitStep that give up the pull in hand.
Ends(r) ==
  \/ ReceiptOk(r) \/ ReceiptReverted(r) \/ GiveUp(r) \/ LateReceipt(r)
  \/ LateNotFound(r) \/ ResolveRpcError(r) \/ FinalUpsertFails(r)
  \/ \E side \in {"operator", "user"} : ResendFails(r, side)

LEMMA EndsWork ==
  ASSUME TypeOK, NEW r \in Replicas, Ends(r)
  PROVE  /\ OthersWork(r) /\ sched'[r].pc = "loop" /\ sched'[r].sub = AnySub
         /\ sched'[r].queue = sched[r].queue
         /\ sched[r].pc \in {"wait", "bump", "resolve"}
         /\ txs' = txs /\ sent' = sent /\ lock' = lock /\ api' = api
         /\ plans' = plans /\ now' = now /\ epoch' = epoch
         /\ blamed \subseteq blamed' /\ credited \subseteq credited'
<1>1. PICK side \in {"operator", "user"} :
        \/ ReceiptOk(r) \/ ReceiptReverted(r) \/ GiveUp(r) \/ LateReceipt(r)
        \/ LateNotFound(r) \/ ResolveRpcError(r) \/ FinalUpsertFails(r)
        \/ ResendFails(r, side)
  BY DEF Ends
<1>2. Return(r) /\ sched[r].pc \in {"wait", "bump", "resolve"}
  <2>1. CASE ReceiptOk(r) \/ ReceiptReverted(r) \/ GiveUp(r) \/ LateReceipt(r)
    BY <2>1 DEF ReceiptOk, ReceiptReverted, GiveUp, LateReceipt
  <2>2. CASE LateNotFound(r) \/ ResolveRpcError(r) \/ FinalUpsertFails(r)
    BY <2>2 DEF LateNotFound, ResolveRpcError, FinalUpsertFails
  <2>3. CASE ResendFails(r, side)
    BY <2>3 DEF ResendFails
  <2> QED BY <1>1, <2>1, <2>2, <2>3
<1>3. /\ txs' = txs /\ sent' = sent /\ lock' = lock /\ api' = api
      /\ plans' = plans /\ now' = now /\ epoch' = epoch
  BY <1>1 DEF ReceiptOk, ReceiptReverted, GiveUp, LateReceipt, LateNotFound,
       ResolveRpcError, FinalUpsertFails, ResendFails
<1>4. blamed \subseteq blamed' /\ credited \subseteq credited'
  BY <1>1 DEF ReceiptOk, ReceiptReverted, GiveUp, LateReceipt, LateNotFound,
       ResolveRpcError, FinalUpsertFails, ResendFails, Credit, Upsert
<1> QED BY <1>2, <1>3, <1>4, ReturnWork

\* The chain mines or drops a pull; a mined one stays as it is.
LEMMA ChainWork ==
  ASSUME TypeOK, ChainStep
  PROVE  /\ store' = store /\ plans' = plans /\ sent' = sent /\ sched' = sched
         /\ lock' = lock /\ api' = api /\ now' = now /\ credited' = credited
         /\ blamed' = blamed /\ epoch' = epoch
         /\ \A m \in TxIds :
              /\ txs'[m].user = txs[m].user /\ txs'[m].kind = txs[m].kind
              /\ txs'[m].due = txs[m].due /\ txs'[m].period = txs[m].period
              /\ txs'[m].epoch = txs[m].epoch /\ txs'[m].top = txs[m].top
              /\ txs[m].mined # 0 =>
                   txs'[m].mined = txs[m].mined /\ txs'[m].ok = txs[m].ok
              /\ txs'[m].mined # 0 /\ ~txs'[m].ok =>
                   (txs[m].mined # 0 /\ ~txs[m].ok) \/ PullMayFail(txs[m].kind)
<1>1. PICK n \in 1..sent :
        Drop(n) \/ \E b \in 1..txs[n].top, ok \in BOOLEAN : Mine(n, b, ok)
  BY DEF ChainStep
<1>2. n \in TxIds /\ txs[n] \in Tx
  BY ConstantsAssumption DEF TypeOK, TxIds, ConstantsAssumption
<1>3. CASE Drop(n)
  <2> DEFINE tx == [txs[n] EXCEPT !.dropped = TRUE]
  <2>1. /\ tx.user = txs[n].user /\ tx.kind = txs[n].kind /\ tx.due = txs[n].due
        /\ tx.period = txs[n].period /\ tx.epoch = txs[n].epoch
        /\ tx.top = txs[n].top /\ tx.mined = txs[n].mined /\ tx.ok = txs[n].ok
    BY <1>2 DEF Tx
  <2>2. txs' = [txs EXCEPT ![n] = tx]
    BY <1>2, <1>3 DEF Drop, TypeOK
  <2> HIDE DEF tx
  <2>3. txs'[n] = tx /\ \A m \in TxIds : m # n => txs'[m] = txs[m]
    BY <1>2, <2>2 DEF TypeOK
  <2> QED BY <1>3, <2>1, <2>3 DEF Drop
<1>4. CASE \E b \in 1..txs[n].top, ok \in BOOLEAN : Mine(n, b, ok)
  <2>1. PICK b \in 1..txs[n].top, ok \in BOOLEAN : Mine(n, b, ok)
    BY <1>4
  <2> DEFINE tx == [txs[n] EXCEPT !.mined = b, !.ok = ok]
  <2>2. /\ tx.user = txs[n].user /\ tx.kind = txs[n].kind /\ tx.due = txs[n].due
        /\ tx.period = txs[n].period /\ tx.epoch = txs[n].epoch
        /\ tx.top = txs[n].top /\ tx.mined = b /\ tx.ok = ok
    BY <1>2 DEF Tx
  <2>3. txs' = [txs EXCEPT ![n] = tx]
    BY <1>2, <2>1 DEF Mine, TypeOK
  <2> HIDE DEF tx
  <2>4. txs'[n] = tx /\ \A m \in TxIds : m # n => txs'[m] = txs[m]
    BY <1>2, <2>3 DEF TypeOK
  <2>5. txs[n].mined = 0 /\ (~ok => PullMayFail(txs[n].kind))
    BY <2>1 DEF Mine
  <2>6. \A m \in TxIds :
          /\ txs'[m].user = txs[m].user /\ txs'[m].kind = txs[m].kind
          /\ txs'[m].due = txs[m].due /\ txs'[m].period = txs[m].period
          /\ txs'[m].epoch = txs[m].epoch /\ txs'[m].top = txs[m].top
    BY <2>2, <2>4
  <2> QED BY <2>1, <2>2, <2>4, <2>5, <2>6 DEF Mine
<1> QED BY <1>1, <1>3, <1>4
=============================================================================

-------------------------- MODULE BillingCopiesProofs --------------------------
(***************************************************************************)
(* What the whole-record writes of Billing keep although they come from    *)
(* copies, under every combination of faults: a past-due record stays on   *)
(* the dunning ladder, and the hash it names is the newest of its pull.    *)
(***************************************************************************)
EXTENDS BillingProofs

-----------------------------------------------------------------------------
(* The dunning ladder *)

OnLadder(s) == s.status = "past_due" => s.attempts \in 1..Len(Backoffs)

\* Every record that may be written back is on the ladder.
LadderInv ==
  /\ \A u \in Users : OnLadder(store[u])
  /\ api # NoCall => OnLadder(api.read)
  /\ \A r \in Replicas :
       OnLadder(sched[r].sub) /\ \A s \in sched[r].queue : OnLadder(s)

\* What the scheduler writes of a record on the ladder is on the ladder.
LEMMA LadderRecords ==
  ASSUME now \in Nat, NEW s \in Sub, OnLadder(s)
  PROVE  /\ OnLadder(Cancelled(s)) /\ OnLadder(PendingSettled(s))
         /\ \A plan \in Plan : OnLadder(Charged(s, plan))
         /\ \A side \in {"operator", "user"} : OnLadder(Failed(s, side))
         /\ \A h \in Hash : OnLadder([s EXCEPT !.inflight = h])
<1>1. OnLadder(Cancelled(s))
  BY ConstantRecords, ClearedRecords DEF OnLadder
<1>2. OnLadder(PendingSettled(s)) /\ \A h \in Hash : OnLadder([s EXCEPT !.inflight = h])
  BY DEF PendingSettled, OnLadder, Sub
<1>3. \A plan \in Plan : OnLadder(Charged(s, plan))
  BY ClearedRecords DEF OnLadder
<1>4. ASSUME NEW side \in {"operator", "user"} PROVE OnLadder(Failed(s, side))
  <2> DEFINE attempts == s.attempts + 1
             soon == now + OpBackoff
             later == now + Backoffs[attempts]
  <2>1. attempts \in Nat /\ attempts > 0 /\ Len(Backoffs) \in Nat
    BY ConstantsAssumption DEF Sub, ConstantsAssumption
  <2>2. CASE side = "operator"
    <3>1. Failed(s, side) = [s EXCEPT !.inflight = NoHash, !.next = soon]
      BY <2>2 DEF Failed
    <3> HIDE DEF soon
    <3> QED BY <3>1 DEF OnLadder, Sub
  <2>3. CASE side = "user" /\ attempts > Len(Backoffs)
    <3> DEFINE t == [s EXCEPT !.attempts = attempts]
    <3>1. Failed(s, side) = Cancelled(t)
      BY <2>3 DEF Failed
    <3> HIDE DEF attempts
    <3>2. t \in Sub
      BY <2>1 DEF Sub
    <3> HIDE DEF t
    <3>3. Cancelled(t).status = "cancelled"
      BY <3>2, ConstantRecords, ClearedRecords
    <3> QED BY <3>1, <3>3 DEF OnLadder
  <2>4. CASE side = "user" /\ ~(attempts > Len(Backoffs))
    <3>1. Failed(s, side) =
            [s EXCEPT !.inflight = NoHash, !.attempts = attempts,
                      !.status = "past_due", !.next = later]
      BY <2>4 DEF Failed
    <3>2. attempts \in 1..Len(Backoffs)
      BY <2>1, <2>4
    <3> HIDE DEF later, attempts
    <3>3. Failed(s, side).attempts = attempts
      BY <3>1 DEF Sub
    <3> QED BY <3>2, <3>3 DEF OnLadder
  <2> QED BY <2>2, <2>3, <2>4
<1> QED BY <1>1, <1>2, <1>3, <1>4

\* So is what a call writes.
LEMMA LadderCall ==
  ASSUME TypeOK, api # NoCall, OnLadder(api.read)
  PROVE  OnLadder(CallResult(api))
<1> DEFINE s == api.read
           p == api.plan
<1>1. s \in Sub /\ api \in Call
  BY DEF TypeOK, Call
<1>2. CASE api.op # "create"
  <2> DEFINE far == now + Century
  <2>1. CallResult(api) = [s EXCEPT !.status = "cancelled", !.next = far]
    BY <1>2 DEF CallResult
  <2> HIDE DEF far
  <2> QED BY <1>1, <2>1 DEF OnLadder, Sub
<1>3. CASE api.op = "create"
  <2> DEFINE diff == ProratedDiff(s, plans[s.plan], plans[p])
             pend == IF diff > 0 THEN diff ELSE s.pending
  <2>1. CallResult(api) \in {NewSub(s.user, p, api.start), s,
                             [s EXCEPT !.status = "active", !.next = api.start],
                             [s EXCEPT !.plan = p, !.status = "active",
                                       !.attempts = 0, !.pending = pend]}
    BY <1>3 DEF CallResult, PlanApplied
  <2> HIDE DEF pend
  <2>2. NewSub(s.user, p, api.start).status = "active"
    BY DEF NewSub
  <2>3. /\ [s EXCEPT !.status = "active", !.next = api.start].status = "active"
        /\ [s EXCEPT !.plan = p, !.status = "active",
                     !.attempts = 0, !.pending = pend].status = "active"
    BY <1>1 DEF Sub
  <2> QED BY <2>1, <2>2, <2>3 DEF OnLadder
<1> QED BY <1>2, <1>3

\* At most one record is written, and it is on the ladder.
StaysOnLadder ==
  \/ store' = store
  \/ \E rec \in Sub : OnLadder(rec) /\ store' = [store EXCEPT ![rec.user] = rec]

\* A replica takes over copies from the store and writes one of them.
LEMMA LadderStep ==
  ASSUME TypeOK, LadderInv, NEW r \in Replicas, OthersWork(r),
         StaysOnLadder,
         OnLadder(sched'[r].sub), \A s \in sched'[r].queue : OnLadder(s),
         api' = api
  PROVE  LadderInv'
<1>1. \A u \in Users : OnLadder(store'[u])
  BY DEF TypeOK, LadderInv, StaysOnLadder
<1> QED BY <1>1 DEF LadderInv, OnLadder, OthersWork

LEMMA LadderSched ==
  ASSUME TypeOK, LadderInv, NEW r \in Replicas, SchedStep(r) \/ Crash(r)
  PROVE  LadderInv'
<1>1. /\ now \in Nat /\ sched[r].sub \in Sub /\ OnLadder(sched[r].sub)
      /\ sched[r].plan \in Plan
      /\ \A s \in sched[r].queue : s \in Sub /\ OnLadder(s)
  BY WorkType DEF TypeOK, LadderInv
<1>2. OnLadder(AnySub)
  BY DEF AnySub, NoSub, NewSub, OnLadder
<1>3. CASE StartTick(r) \/ EndTick(r) \/ Crash(r)
  <2>1. \A s \in sched'[r].queue : OnLadder(s)
    BY <1>3, TickWork DEF DueBefore, DueSet, LadderInv
  <2> QED BY <1>2, <1>3, <2>1, TickWork, LadderStep DEF StaysOnLadder
<1>4. CASE SubStep(r)
  <2>1. PICK s \in sched[r].queue :
          \/ StartResolve(r, s) \/ CancelInactive(r, s) \/ Broadcast(r, s)
          \/ \E side \in {"operator", "user"} : SubmitFails(r, s, side)
    BY <1>4 DEF SubStep
  <2>2. CASE \/ CancelInactive(r, s)
             \/ \E side \in {"operator", "user"} : SubmitFails(r, s, side)
    <3>1. PICK rec \in Sub : OnLadder(rec) /\ Upsert(r, rec)
      <4>1. Cancelled(s) \in Sub /\ OnLadder(Cancelled(s))
        BY <1>1, ConstantRecords, ClearedRecords, LadderRecords
      <4>2. \A side \in {"operator", "user"} :
              Failed(s, side) \in Sub /\ OnLadder(Failed(s, side))
        BY <1>1, FailedRecords, LadderRecords
      <4> QED BY <2>2, <4>1, <4>2 DEF CancelInactive, SubmitFails
    <3>2. store' = [store EXCEPT ![rec.user] = rec] /\ api' = api
      BY <2>2, <3>1 DEF Upsert, CancelInactive, SubmitFails
    <3>3. OthersWork(r) /\ sched'[r].sub = AnySub /\ sched'[r].queue = sched[r].queue \ {s}
      BY <2>2, FailedTakeWork
    <3> QED BY <1>1, <1>2, <3>1, <3>2, <3>3, LadderStep DEF StaysOnLadder
  <2>3. CASE StartResolve(r, s)
    <3>1. StaysOnLadder /\ api' = api
      BY <2>3 DEF StartResolve, StaysOnLadder
    <3>2. OthersWork(r) /\ sched'[r].sub = s /\ sched'[r].queue = sched[r].queue \ {s}
      BY <2>3, ResolveWork
    <3> QED BY <1>1, <3>1, <3>2, LadderStep
  <2>4. CASE Broadcast(r, s)
    <3>1. store' = store /\ api' = api
      BY <2>4 DEF Broadcast
    <3>2. OthersWork(r) /\ sched'[r].sub = s /\ sched'[r].queue = sched[r].queue \ {s}
      BY <2>4, BroadcastWork
    <3> QED BY <1>1, <3>1, <3>2, LadderStep DEF StaysOnLadder
  <2> QED BY <2>1, <2>2, <2>3, <2>4
<1>5. CASE WaitStep(r)
  <2>1. Busy(r) => WithHash(r) \in Sub /\ OnLadder(WithHash(r))
    <3> SUFFICES ASSUME Busy(r) PROVE WithHash(r) \in Sub /\ OnLadder(WithHash(r))
      OBVIOUS
    <3>1. [tx |-> sched[r].tx, bump |-> sched[r].bump] \in Hash
      BY WorkType DEF Hash, TypeOK
    <3> QED BY <1>1, <3>1, LadderRecords, WrittenRecords DEF WithHash
  <2>2. Settled(r) \in Sub /\ OnLadder(Settled(r))
    BY <1>1, LadderRecords, WrittenRecords DEF Settled
  <2>3. \A side \in {"operator", "user"} :
          /\ Failed(sched[r].sub, side) \in Sub /\ OnLadder(Failed(sched[r].sub, side))
          /\ Failed(sched[r].sub, side).user = sched[r].sub.user
    BY <1>1, FailedRecords, LadderRecords
  <2>4. CASE PersistHash(r) \/ PersistHashFails(r)
    <3>1. Busy(r) /\ api' = api
      BY <2>4 DEF PersistHash, PersistHashFails, Busy
    <3>2. StaysOnLadder
      BY <2>1, <2>4, <3>1 DEF PersistHash, PersistHashFails, Upsert, StaysOnLadder
    <3> QED BY <1>1, <2>1, <2>4, <3>1, <3>2, PersistWork, LadderStep
  <2>5. CASE Timeout(r) \/ NoBump(r)
    BY <1>1, <2>5, WaitWork, LadderStep DEF Timeout, NoBump, StaysOnLadder
  <2>6. CASE Resend(r)
    BY <1>1, <2>6, ResendWork, LadderStep DEF Resend, StaysOnLadder
  <2>7. CASE Ends(r)
    <3>1. StaysOnLadder
      BY <2>2, <2>3, <2>7 DEF Ends, ReceiptOk, ReceiptReverted, LateReceipt,
           LateNotFound, GiveUp, ResolveRpcError, FinalUpsertFails, ResendFails,
           Credit, Upsert, StaysOnLadder
    <3> QED BY <1>1, <1>2, <2>7, <3>1, EndsWork, LadderStep
  <2> QED BY <1>5, <2>4, <2>5, <2>6, <2>7 DEF WaitStep, Ends
<1> QED BY <1>3, <1>4, <1>5 DEF SchedStep

LEMMA LadderApi ==
  ASSUME TypeOK, LadderInv, ApiStep
  PROVE  LadderInv'
<1>1. sched' = sched
  BY DEF ApiStep, WriteCall, CancelSub, CreateSub, UpsertPlan, CompleteCheckout
<1>2. CASE WriteCall
  <2>1. api # NoCall /\ OnLadder(CallResult(api)) /\ api' = NoCall
    BY <1>2, LadderCall DEF WriteCall, LadderInv
  <2>2. \A u \in Users : OnLadder(store'[u])
    BY <1>2, <2>1 DEF WriteCall, LadderInv, TypeOK
  <2> QED BY <1>1, <2>1, <2>2 DEF LadderInv, OnLadder
<1>3. CASE \E u \in Users, p \in Plans : CompleteCheckout(u, p)
  <2>1. PICK u \in Users, p \in Plans : CompleteCheckout(u, p)
    BY <1>3
  <2> DEFINE rec == NewSub(u, p, now + plans[p].period)
  <2>2. OnLadder(rec) /\ store' = [store EXCEPT ![u] = rec] /\ api' = api
    BY <2>1 DEF CompleteCheckout, OnLadder, NewSub
  <2> HIDE DEF rec
  <2>3. \A v \in Users : OnLadder(store'[v])
    BY <2>2 DEF LadderInv, TypeOK
  <2> QED BY <1>1, <2>2, <2>3 DEF LadderInv, OnLadder
<1>4. CASE \/ \E u \in Users : CancelSub(u)
           \/ \E u \in Users, p \in Plans, d \in Starts : CreateSub(u, p, now + d)
  <2>1. store' = store /\ \E u \in Users : api'.read = store[u]
    BY <1>4 DEF CancelSub, CreateSub
  <2> QED BY <1>1, <2>1 DEF LadderInv, OnLadder
<1>5. CASE \E p \in Plans, plan \in PlanOptions : UpsertPlan(p, plan)
  BY <1>1, <1>5 DEF UpsertPlan, LadderInv, OnLadder
<1> QED BY <1>2, <1>3, <1>4, <1>5 DEF ApiStep

(* The dunning policy across copies (scheduler.go:503-547, dunning.go): a  *)
(* past-due record has failed at least once and no more often than the     *)
(* policy has waits, whichever copy was written last and whatever failed.  *)
THEOREM LadderIsKept == Spec => []PastDueOnLadder
<1>1. Init => LadderInv
  <2> SUFFICES ASSUME Init PROVE LadderInv
    OBVIOUS
  <2>1. \A u \in Users : store[u].status \in {"none", "active"}
    BY DEF Init, NewSub, NoSub
  <2>2. \A r \in Replicas : sched[r].sub.status = "none" /\ sched[r].queue = {}
    BY DEF Init, Idle, AnySub, NoSub, NewSub
  <2> QED BY <2>1, <2>2 DEF Init, LadderInv, OnLadder
<1>2. TypeOK /\ LadderInv /\ [Next]_vars => LadderInv'
  <2> SUFFICES ASSUME TypeOK, LadderInv, [Next]_vars PROVE LadderInv'
    OBVIOUS
  <2>1. CASE \E r \in Replicas : SchedStep(r) \/ Crash(r)
    BY <2>1, LadderSched
  <2>2. CASE ApiStep
    BY <2>2, LadderApi
  <2>3. CASE LeaseExpires \/ ChainStep \/ AdvanceTime \/ UNCHANGED vars
    BY <2>3 DEF LeaseExpires, ChainStep, Drop, Mine, AdvanceTime, vars, LadderInv, OnLadder
  <2> QED BY <2>1, <2>2, <2>3 DEF Next
<1>3. LadderInv => PastDueOnLadder
  BY DEF LadderInv, PastDueOnLadder, OnLadder
<1> QED BY <1>1, <1>2, <1>3, TypeCorrect, PTL DEF Spec
-----------------------------------------------------------------------------
(* The newest version of a pull *)

\* Version b is the newest one of pull n, or it does not matter any more.
Polled(n, b) == b = txs[n].top \/ n \in blamed \/ Gone(n)

\* Replica r is about to store the hash it sent last, a version of pull n.
Persists(r, n) == sched[r].pc = "persist" /\ sched[r].tx = n

NewestStored ==
  \A u \in Users : \A h : h = store[u].inflight /\ h.tx # 0 =>
     Polled(h.tx, h.bump) \/ \E r \in Replicas : Persists(r, h.tx)

\* What the lock's holder is about to store is not outdated either.
NewestHeld ==
  \A r \in Replicas : lock = r /\ sched[r].pc = "persist" =>
     \/ Polled(sched[r].tx, sched[r].bump)
     \/ \E q \in Replicas : q # r /\ Persists(q, sched[r].tx)

NewestInv == NewestStored /\ NewestHeld

\* A stored hash is an old one, or a current one.
StoresNewest ==
  \A u \in Users : \A h : h = store'[u].inflight /\ h.tx # 0 =>
     \/ h = store[u].inflight
     \/ Polled(h.tx, h.bump)' \/ \E q \in Replicas : Persists(q, h.tx)'

\* No version becomes outdated.
KeepsPolled == \A n \in 1..sent : \A b : Polled(n, b) => Polled(n, b)'

\* Who was about to store a hash still is, or its pull is blamed.
KeepsPersists ==
  \A q \in Replicas : \A n : Persists(q, n) => Persists(q, n)' \/ n \in blamed'

\* The holder is about to store what it was about to store, or the newest.
HoldsNewest ==
  \A r \in Replicas : lock' = r /\ sched'[r].pc = "persist" =>
     \/ \A n, b : n = sched'[r].tx /\ b = sched'[r].bump => Polled(n, b)'
     \/ /\ lock = r /\ sched[r].pc = "persist"
        /\ sched'[r].tx = sched[r].tx /\ sched'[r].bump = sched[r].bump

LEMMA NewestKept ==
  ASSUME IInv, NewestInv, StoresNewest, KeepsPolled, KeepsPersists, HoldsNewest
  PROVE  NewestInv'
<1>1. /\ \A u \in Users : RefOK(store[u])
      /\ \A r \in Replicas : sched[r].pc = "persist" => sched[r].tx \in 1..sent
  BY CurrentRecord DEF IInv, RefsOK, Busy
<1>2. \A n : n \in blamed' => \A b : Polled(n, b)'
  BY DEF Polled
<1>3. NewestStored'
  <2>1. SUFFICES ASSUME NEW u \in Users, NEW h, h = store'[u].inflight, h.tx # 0
                 PROVE  Polled(h.tx, h.bump)' \/ \E r \in Replicas : Persists(r, h.tx)'
    BY DEF NewestStored
  <2>2. CASE h = store[u].inflight
    <3>1. h.tx \in 1..sent
      BY <1>1, <2>1, <2>2 DEF RefOK
    <3>2. Polled(h.tx, h.bump) \/ \E r \in Replicas : Persists(r, h.tx)
      BY <2>1, <2>2 DEF NewestInv, NewestStored
    <3> QED BY <1>2, <3>1, <3>2 DEF KeepsPolled, KeepsPersists
  <2> QED BY <2>1, <2>2 DEF StoresNewest
<1>4. NewestHeld'
  <2>1. SUFFICES ASSUME NEW r \in Replicas, lock' = r, sched'[r].pc = "persist"
                 PROVE  \/ Polled(sched[r].tx, sched[r].bump)'
                        \/ \E q \in Replicas : q # r /\ Persists(q, sched[r].tx)'
    BY DEF NewestHeld
  <2>2. CASE \A n, b : n = sched'[r].tx /\ b = sched'[r].bump => Polled(n, b)'
    BY <2>2 DEF Polled, Gone, CreditedTx
  <2>3. CASE /\ lock = r /\ sched[r].pc = "persist"
             /\ sched'[r].tx = sched[r].tx /\ sched'[r].bump = sched[r].bump
    <3>1. PICK n, b : n = sched[r].tx /\ b = sched[r].bump
      OBVIOUS
    <3>2. Polled(n, b) \/ \E q \in Replicas : q # r /\ Persists(q, n)
      BY <2>3, <3>1 DEF NewestInv, NewestHeld, Polled, Persists, Gone, CreditedTx
    <3>3. Polled(n, b)' \/ \E q \in Replicas : q # r /\ Persists(q, n)'
      BY <1>1, <1>2, <2>3, <3>1, <3>2 DEF KeepsPolled, KeepsPersists
    <3>4. sched'[r].tx = n /\ sched'[r].bump = b
      BY <2>3, <3>1
    <3> QED BY <3>3, <3>4 DEF Polled, Persists, Gone, CreditedTx
  <2> QED BY <2>1, <2>2, <2>3 DEF HoldsNewest
<1> QED BY <1>3, <1>4 DEF NewestInv

\* Versions stay current as long as nothing is resent.
LEMMA PolledKept ==
  ASSUME blamed \subseteq blamed',
         \A n \in 1..sent : txs'[n].top = txs[n].top /\ (Gone(n) => Gone(n)')
  PROVE  KeepsPolled
BY DEF KeepsPolled, Polled

\* A step in which nothing is sent and no hash is stored.
LEMMA NewestQuiet ==
  ASSUME IInv, NewestInv,
         txs' = txs, blamed \subseteq blamed', credited \subseteq credited',
         \A u \in Users : store'[u].inflight.tx # 0 =>
                            store'[u].inflight = store[u].inflight,
         KeepsPersists,
         \A r \in Replicas : lock' = r /\ sched'[r].pc = "persist" =>
           lock = r /\ sched'[r] = sched[r]
  PROVE  NewestInv'
<1>1. KeepsPolled
  BY GoneStable, PolledKept
<1>2. StoresNewest /\ HoldsNewest
  BY DEF StoresNewest, HoldsNewest
<1> QED BY <1>1, <1>2, NewestKept

\* One replica steps without a hash to store before or after.
LEMMA NewestReplica ==
  ASSUME IInv, NewestInv, NEW r \in Replicas, OthersWork(r),
         txs' = txs, blamed \subseteq blamed', credited \subseteq credited',
         \A u \in Users : store'[u].inflight.tx # 0 =>
                            store'[u].inflight = store[u].inflight,
         sched[r].pc = "persist" => sched[r].tx \in blamed',
         sched'[r].pc # "persist",
         \A q \in Replicas : q # r /\ lock' = q => lock = q
  PROVE  NewestInv'
<1>1. KeepsPersists
  BY DEF KeepsPersists, Persists, OthersWork
<1>2. \A q \in Replicas : lock' = q /\ sched'[q].pc = "persist" =>
        lock = q /\ sched'[q] = sched[q]
  BY DEF OthersWork
<1> QED BY <1>1, <1>2, NewestQuiet

\* A record without a hash is written over another one.
LEMMA ClearsHash ==
  ASSUME TypeOK, NEW rec \in Sub, rec.inflight = NoHash,
         store' = [store EXCEPT ![rec.user] = rec]
  PROVE  \A u \in Users : store'[u].inflight.tx # 0 =>
                            store'[u].inflight = store[u].inflight
BY DEF TypeOK, NoHash

LEMMA NewestPersist ==
  ASSUME IInv, NewestInv, NEW r \in Replicas, PersistHash(r)
  PROVE  NewestInv'
<1> DEFINE rec == WithHash(r)
<1>1. /\ TypeOK /\ RefsOK /\ Busy(r) /\ sched[r].pc = "persist" /\ Upsert(r, rec)
      /\ txs' = txs /\ credited' = credited /\ lock' = lock
  BY DEF IInv, PersistHash, Busy
<1>2. /\ rec \in Sub /\ rec.user = sched[r].sub.user /\ rec.inflight.tx = sched[r].tx
      /\ rec.inflight.bump = sched[r].bump /\ sched[r].tx # 0
      /\ txs[sched[r].tx].user = rec.user
  <2>1. rec.inflight = [tx |-> sched[r].tx, bump |-> sched[r].bump]
    BY <1>1, WorkType DEF WithHash, Sub
  <2>2. sched[r].tx \in TxIds
    BY <1>1 DEF TypeOK
  <2> QED BY <1>1, <2>1, <2>2, WrittenRecords, CurrentRecord DEF TxIds
<1> HIDE DEF rec
<1>3. PICK n, b : n = sched[r].tx /\ b = sched[r].bump
  OBVIOUS
<1>4. /\ store'[rec.user] = rec /\ blamed \subseteq blamed'
      /\ \A u \in Users : u # rec.user => store'[u] = store[u]
      /\ lock # r => n \in blamed'
  <2>1. /\ store' = [store EXCEPT ![rec.user] = rec] /\ rec.user \in Users
        /\ blamed \subseteq blamed'
        /\ lock # r => {rec.inflight.tx} \ {0} \subseteq blamed'
    BY <1>1, <1>2, SubFields DEF Upsert
  <2>2. store'[rec.user] = rec /\ \A u \in Users : u # rec.user => store'[u] = store[u]
    BY <1>1, <2>1 DEF TypeOK
  <2>3. lock # r => n \in blamed'
    BY <1>2, <1>3, <2>1
  <2> QED BY <2>1, <2>2, <2>3
<1>5. OthersWork(r) /\ sched'[r].pc = "wait"
  BY <1>1, PersistWork
<1>6. KeepsPolled
  BY <1>1, <1>4, GoneStable, PolledKept
<1>7. NewestStored'
  <2>1. SUFFICES ASSUME NEW u \in Users, NEW h, h = store'[u].inflight, h.tx # 0
                 PROVE  Polled(h.tx, h.bump)' \/ \E q \in Replicas : Persists(q, h.tx)'
    BY DEF NewestStored
  <2>2. CASE u = rec.user
    <3>1. h.tx = n /\ h.bump = b
      BY <1>2, <1>3, <1>4, <2>1, <2>2
    <3>2. CASE lock # r
      BY <1>4, <3>1, <3>2 DEF Polled
    <3>3. CASE lock = r
      <4>1. Polled(n, b) \/ \E q \in Replicas : q # r /\ Persists(q, n)
        BY <1>1, <1>3, <3>3
           DEF NewestInv, NewestHeld, Polled, Persists, Gone, CreditedTx
      <4>2. n \in 1..sent
        BY <1>1, <1>3, CurrentRecord
      <4> QED BY <1>5, <1>6, <3>1, <4>1, <4>2
              DEF KeepsPolled, Persists, OthersWork
    <3> QED BY <3>2, <3>3
  <2>3. CASE u # rec.user
    <3>1. h = store[u].inflight /\ h.tx \in 1..sent /\ txs[h.tx].user = u
      <4>1. h = store[u].inflight /\ RefOK(store[u]) /\ store[u].user = u
        BY <1>1, <1>4, <2>1, <2>3 DEF RefsOK, TypeOK
      <4> QED BY <2>1, <4>1 DEF RefOK
    <3>2. Polled(h.tx, h.bump) \/ \E q \in Replicas : Persists(q, h.tx)
      BY <2>1, <3>1 DEF NewestInv, NewestStored
    <3>3. ~Persists(r, h.tx)
      BY <1>2, <2>3, <3>1 DEF Persists
    <3> QED BY <1>5, <1>6, <3>1, <3>2, <3>3 DEF KeepsPolled, Persists, OthersWork
  <2> QED BY <2>2, <2>3
<1>8. NewestHeld'
  <2>1. SUFFICES ASSUME NEW q \in Replicas, lock' = q, sched'[q].pc = "persist"
                 PROVE  \/ Polled(sched[q].tx, sched[q].bump)'
                        \/ \E p \in Replicas : p # q /\ Persists(p, sched[q].tx)'
    BY DEF NewestHeld
  <2>2. q # r /\ lock = q /\ sched'[q] = sched[q]
    BY <1>1, <1>5, <2>1 DEF OthersWork
  <2>3. PICK m, c : m = sched[q].tx /\ c = sched[q].bump
    OBVIOUS
  <2>4. m \in 1..sent
    BY <2>1, <2>2, <2>3, CurrentRecord DEF Busy
  <2>5. Polled(m, c) \/ \E p \in Replicas : p # q /\ Persists(p, m)
    BY <2>1, <2>2, <2>3 DEF NewestInv, NewestHeld, Polled, Persists, Gone, CreditedTx
  <2>6. Polled(m, c)' \/ \E p \in Replicas : p # q /\ Persists(p, m)'
    <3>1. CASE \E p \in Replicas : p # q /\ p # r /\ Persists(p, m)
      BY <1>5, <3>1 DEF Persists, OthersWork
    <3>2. CASE Persists(r, m)
      BY <1>3, <1>4, <2>2, <3>2 DEF Persists, Polled
    <3> QED BY <1>6, <2>4, <2>5, <3>1, <3>2 DEF KeepsPolled
  <2> QED BY <2>2, <2>3, <2>6 DEF Polled, Persists, Gone, CreditedTx
<1> QED BY <1>7, <1>8 DEF NewestInv

LEMMA NewestBroadcast ==
  ASSUME IInv, NewestInv, NEW r \in Replicas, NEW s \in sched[r].queue, Broadcast(r, s)
  PROVE  NewestInv'
<1>1. TypeOK /\ sent \in Nat /\ \A n \in 1..sent : n \in TxIds /\ n # sent + 1
  BY ConstantsAssumption DEF IInv, TypeOK, TxIds, ConstantsAssumption
<1>2. /\ store' = store /\ blamed' = blamed /\ credited' = credited /\ lock' = lock
      /\ sched[r].pc = "loop"
  BY DEF Broadcast, Takes
<1>3. \A n \in 1..sent : txs'[n] = txs[n]
  BY <1>1, BroadcastWork
<1>4. KeepsPolled
  BY <1>2, <1>3, PolledKept DEF Gone, CreditedTx
<1>5. StoresNewest /\ KeepsPersists
  BY <1>1, <1>2, BroadcastWork DEF StoresNewest, KeepsPersists, Persists, OthersWork
<1>6. HoldsNewest
  <2>1. sched'[r].bump = 1 /\ \A n : n = sched'[r].tx => txs'[n].top = 1
    BY <1>1, BroadcastWork
  <2> QED BY <1>1, <1>2, <2>1, BroadcastWork DEF HoldsNewest, Polled, OthersWork
<1> QED BY <1>4, <1>5, <1>6, NewestKept

LEMMA NewestResend ==
  ASSUME IInv, NewestInv, NEW r \in Replicas, Resend(r)
  PROVE  NewestInv'
<1>1. TypeOK /\ sent \in Nat /\ \A n \in 1..sent : n \in TxIds
  BY ConstantsAssumption DEF IInv, TypeOK, TxIds, ConstantsAssumption
<1>2. /\ store' = store /\ blamed' = blamed /\ credited' = credited /\ lock' = lock
      /\ sent' = sent /\ sched[r].pc = "bump"
  BY DEF Resend
<1>3. /\ OthersWork(r) /\ sched'[r].pc = "persist" /\ sched'[r].tx = sched[r].tx
      /\ sched'[r].bump = txs[sched[r].tx].top + 1
  BY <1>1, ResendWork
<1>4. PICK n \in 1..sent : n = sched[r].tx
  BY <1>2, CurrentRecord DEF Busy
<1>5. sched'[r].bump = txs'[n].top /\ Persists(r, n)'
  BY <1>1, <1>3, <1>4, ResendWork DEF Persists
<1>6. \A m \in 1..sent : \A b : m # n /\ Polled(m, b) => Polled(m, b)'
  BY <1>1, <1>2, <1>4, ResendWork DEF Polled, Gone, CreditedTx
<1>7. \A q \in Replicas : \A m : Persists(q, m) => Persists(q, m)'
  BY <1>2, <1>3 DEF Persists, OthersWork
<1>8. NewestStored'
  <2>1. SUFFICES ASSUME NEW u \in Users, NEW h, h = store[u].inflight, h.tx # 0
                 PROVE  Polled(h.tx, h.bump)' \/ \E q \in Replicas : Persists(q, h.tx)'
    BY <1>2 DEF NewestStored
  <2>2. h.tx \in 1..sent
    BY <2>1 DEF IInv, RefsOK, RefOK
  <2>3. Polled(h.tx, h.bump) \/ \E q \in Replicas : Persists(q, h.tx)
    BY <2>1 DEF NewestInv, NewestStored
  <2> QED BY <1>5, <1>6, <1>7, <2>2, <2>3
<1>9. NewestHeld'
  <2>1. SUFFICES ASSUME NEW q \in Replicas, lock' = q, sched'[q].pc = "persist"
                 PROVE  \/ Polled(sched[q].tx, sched[q].bump)'
                        \/ \E p \in Replicas : p # q /\ Persists(p, sched[q].tx)'
    BY DEF NewestHeld
  <2>2. CASE q = r
    BY <1>3, <1>4, <1>5, <2>2 DEF Polled
  <2>3. CASE q # r
    <3>1. lock = q /\ sched'[q] = sched[q]
      BY <1>2, <1>3, <2>1, <2>3 DEF OthersWork
    <3>2. PICK m, c : m = sched[q].tx /\ c = sched[q].bump
      OBVIOUS
    <3>3. m \in 1..sent
      BY <2>1, <3>1, <3>2, CurrentRecord DEF Busy
    <3>4. Polled(m, c) \/ \E p \in Replicas : p # q /\ Persists(p, m)
      BY <2>1, <3>1, <3>2 DEF NewestInv, NewestHeld, Polled, Persists, Gone, CreditedTx
    <3>5. Polled(m, c)' \/ \E p \in Replicas : p # q /\ Persists(p, m)'
      BY <1>5, <1>6, <1>7, <2>3, <3>3, <3>4
    <3> QED BY <3>1, <3>2, <3>5 DEF Polled, Persists, Gone, CreditedTx
  <2> QED BY <2>2, <2>3
<1> QED BY <1>8, <1>9 DEF NewestInv

LEMMA NewestWriteCall ==
  ASSUME IInv, NewestInv, WriteCall
  PROVE  NewestInv'
<1>1. TypeOK /\ api # NoCall /\ api.user \in Users /\ api.read \in Sub
  BY DEF IInv, WriteCall, TypeOK, Call
<1>2. /\ txs' = txs /\ credited' = credited /\ lock' = lock /\ sched' = sched
      /\ blamed \subseteq blamed'
      /\ store'[api.user] = CallResult(api)
      /\ \A u \in Users : u # api.user => store'[u] = store[u]
  BY <1>1 DEF WriteCall, TypeOK
<1>3. KeepsPolled
  BY <1>2, GoneStable, PolledKept
<1>4. KeepsPersists /\ HoldsNewest
  BY <1>2 DEF KeepsPersists, HoldsNewest, Persists
<1>5. StoresNewest
  <2>1. SUFFICES ASSUME NEW h, h = store'[api.user].inflight, h.tx # 0,
                        h # store[api.user].inflight
                 PROVE  Polled(h.tx, h.bump)'
    BY <1>2 DEF StoresNewest
  <2>2. h = api.read.inflight
    BY <1>1, <1>2, <2>1, CallRecords DEF NoHash
  <2>3. h.tx \in blamed'
    BY <2>1, <2>2 DEF WriteCall
  <2> QED BY <2>3 DEF Polled
<1> QED BY <1>3, <1>4, <1>5, NewestKept

LEMMA NewestSched ==
  ASSUME IInv, NewestInv, NEW r \in Replicas, SchedStep(r) \/ Crash(r)
  PROVE  NewestInv'
<1>1. TypeOK /\ Free \notin Replicas /\ Orphan \notin Replicas
  BY ConstantsAssumption DEF IInv, ConstantsAssumption
<1>2. CASE StartTick(r) \/ EndTick(r) \/ Crash(r)
  <2>1. sched[r].pc = "persist" => sched[r].tx \in blamed'
    BY <1>2 DEF StartTick, EndTick, Crash
  <2>2. \A q \in Replicas : q # r /\ lock' = q => lock = q
    BY <1>1, <1>2 DEF StartTick, EndTick, Crash
  <2> QED BY <1>1, <1>2, <2>1, <2>2, TickWork, NewestReplica
<1>3. CASE SubStep(r)
  <2>1. PICK s \in sched[r].queue :
          \/ StartResolve(r, s) \/ CancelInactive(r, s) \/ Broadcast(r, s)
          \/ \E side \in {"operator", "user"} : SubmitFails(r, s, side)
    BY <1>3 DEF SubStep
  <2>2. sched[r].pc = "loop" /\ s \in Sub /\ now \in Nat
    BY <1>1, <2>1, WorkType
       DEF StartResolve, CancelInactive, Broadcast, SubmitFails, Takes, TypeOK
  <2>3. CASE StartResolve(r, s)
    <3>1. /\ store' = store /\ txs' = txs /\ blamed' = blamed /\ credited' = credited
          /\ lock' = lock
      BY <2>3 DEF StartResolve
    <3>2. OthersWork(r) /\ sched'[r].pc = "resolve"
      BY <1>1, <2>3, ResolveWork
    <3> QED BY <2>2, <3>1, <3>2, NewestReplica
  <2>4. CASE \/ CancelInactive(r, s)
             \/ \E side \in {"operator", "user"} : SubmitFails(r, s, side)
    <3>1. PICK rec \in Sub : rec.inflight = NoHash /\ Upsert(r, rec)
      <4>1. Cancelled(s) \in Sub /\ Cancelled(s).inflight = NoHash
        BY <2>2, ConstantRecords, ClearedRecords
      <4>2. \A side \in {"operator", "user"} :
              Failed(s, side) \in Sub /\ Failed(s, side).inflight = NoHash
        BY <2>2, FailedRecords
      <4> QED BY <2>4, <4>1, <4>2 DEF CancelInactive, SubmitFails
    <3>2. \A u \in Users : store'[u].inflight.tx # 0 =>
                            store'[u].inflight = store[u].inflight
      BY <1>1, <3>1, ClearsHash DEF Upsert
    <3>3. /\ txs' = txs /\ blamed \subseteq blamed' /\ credited' = credited
          /\ lock' = lock
      BY <2>4, <3>1 DEF CancelInactive, SubmitFails, Upsert
    <3>4. OthersWork(r) /\ sched'[r].pc = "loop"
      BY <1>1, <2>4, FailedTakeWork
    <3> QED BY <2>2, <3>2, <3>3, <3>4, NewestReplica
  <2> QED BY <2>1, <2>3, <2>4, NewestBroadcast
<1>4. CASE WaitStep(r)
  <2>1. CASE PersistHashFails(r)
    <3>1. /\ store' = store /\ txs' = txs /\ blamed' = blamed \cup {sched[r].tx}
          /\ credited' = credited /\ lock' = lock
      BY <2>1 DEF PersistHashFails
    <3>2. OthersWork(r) /\ sched'[r].pc = "wait"
      BY <1>1, <2>1, PersistWork
    <3> QED BY <3>1, <3>2, NewestReplica
  <2>2. CASE Timeout(r) \/ NoBump(r)
    <3>1. /\ store' = store /\ txs' = txs /\ blamed' = blamed /\ credited' = credited
          /\ lock' = lock /\ sched[r].pc # "persist"
      BY <2>2 DEF Timeout, NoBump
    <3>2. OthersWork(r) /\ sched'[r].pc # "persist"
      BY <1>1, <2>2, WaitWork
    <3> QED BY <3>1, <3>2, NewestReplica
  <2>3. CASE Ends(r)
    <3>1. CASE store' = store
      BY <1>1, <2>3, <3>1, EndsWork, NewestReplica
    <3>2. CASE store' # store
      <4>1. /\ Settled(r) \in Sub /\ Settled(r).inflight = NoHash
            /\ \A side \in {"operator", "user"} :
                 /\ Failed(sched[r].sub, side) \in Sub
                 /\ Failed(sched[r].sub, side).user = sched[r].sub.user
                 /\ Failed(sched[r].sub, side).inflight = NoHash
        BY <1>1, WorkType, WrittenRecords, FailedRecords DEF TypeOK
      <4>2. PICK rec \in Sub : /\ rec.inflight = NoHash
                               /\ store' = [store EXCEPT ![rec.user] = rec]
        BY <2>3, <3>2, <4>1 DEF Ends, ReceiptOk, ReceiptReverted, LateReceipt,
           LateNotFound, GiveUp, ResolveRpcError, FinalUpsertFails, ResendFails,
           Credit, Upsert
      <4>3. \A u \in Users : store'[u].inflight.tx # 0 =>
                              store'[u].inflight = store[u].inflight
        BY <1>1, <4>2, ClearsHash
      <4> QED BY <1>1, <2>3, <4>3, EndsWork, NewestReplica
    <3> QED BY <3>1, <3>2
  <2> QED BY <1>4, <2>1, <2>2, <2>3, NewestPersist, NewestResend DEF WaitStep, Ends
<1> QED BY <1>2, <1>3, <1>4 DEF SchedStep

LEMMA NewestWorld ==
  ASSUME IInv, NewestInv, LeaseExpires \/ ChainStep \/ ApiStep \/ AdvanceTime
                          \/ UNCHANGED vars
  PROVE  NewestInv'
<1>1. TypeOK /\ Free \notin Replicas /\ Orphan \notin Replicas
  BY ConstantsAssumption DEF IInv, ConstantsAssumption
<1>2. CASE ChainStep
  <2>1. \A n \in 1..sent : n \in TxIds
    BY <1>1, ConstantsAssumption DEF TypeOK, TxIds, ConstantsAssumption
  <2>2. /\ store' = store /\ sched' = sched /\ lock' = lock /\ blamed' = blamed
        /\ credited' = credited
    BY <1>1, <1>2, ChainWork
  <2>3. \A n \in 1..sent : txs'[n].top = txs[n].top /\ (Gone(n) => Gone(n)')
    BY <1>1, <1>2, <2>1, <2>2, ChainWork DEF Gone, CreditedTx
  <2>4. KeepsPolled
    BY <2>2, <2>3, PolledKept
  <2>5. StoresNewest /\ KeepsPersists /\ HoldsNewest
    BY <2>2 DEF StoresNewest, KeepsPersists, HoldsNewest, Persists
  <2> QED BY <2>4, <2>5, NewestKept
<1>3. CASE \E u \in Users, p \in Plans : CompleteCheckout(u, p)
  <2>1. PICK u \in Users, p \in Plans : CompleteCheckout(u, p)
    BY <1>3
  <2> DEFINE start == now + plans[p].period
             rec == NewSub(u, p, start)
  <2>2. start \in Nat
    <3>1. plans[p] \in Plan /\ now \in Nat
      BY <1>1 DEF TypeOK
    <3> QED BY <3>1 DEF Plan
  <2>3. store' = [store EXCEPT ![u] = rec]
    BY <2>1 DEF CompleteCheckout
  <2> HIDE DEF start
  <2>4. rec \in Sub /\ rec.inflight = NoHash /\ rec.user = u
    BY <2>2, ConstantRecords
  <2> HIDE DEF rec
  <2>5. \A v \in Users : store'[v].inflight.tx # 0 =>
                          store'[v].inflight = store[v].inflight
    BY <1>1, <2>3, <2>4, ClearsHash
  <2>6. /\ sched' = sched /\ lock' = lock /\ txs' = txs /\ credited' = credited
        /\ blamed \subseteq blamed'
    BY <2>1 DEF CompleteCheckout
  <2> QED BY <2>5, <2>6, NewestQuiet DEF KeepsPersists, Persists
<1>4. CASE \/ \E u \in Users : CancelSub(u)
           \/ \E u \in Users, p \in Plans, d \in Starts : CreateSub(u, p, now + d)
           \/ \E p \in Plans, plan \in PlanOptions : UpsertPlan(p, plan)
           \/ LeaseExpires \/ AdvanceTime \/ UNCHANGED vars
  <2>1. /\ store' = store /\ sched' = sched /\ txs' = txs /\ credited' = credited
        /\ blamed' = blamed /\ lock' \in {lock, Free}
    BY <1>4 DEF CancelSub, CreateSub, UpsertPlan, LeaseExpires, AdvanceTime, vars
  <2>2. KeepsPersists
    BY <2>1 DEF KeepsPersists, Persists
  <2> QED BY <1>1, <2>1, <2>2, NewestQuiet
<1> QED BY <1>2, <1>3, <1>4, NewestWriteCall DEF ApiStep

(* A replacement has a new hash, and only the newest is polled             *)
(* (submit.go, the loop of SubmitAndWait; scheduler.go, onSubmit): the     *)
(* hash a record keeps of an open pull is that of its newest version,      *)
(* however many replicas write their copies, or a listed fault hit that    *)
(* very pull.                                                              *)
THEOREM NewestIsPolled == Spec => []PollsNewestVersion
<1>1. Init => IInv /\ NewestInv
  <2> SUFFICES ASSUME Init PROVE NewestInv
    BY InitType, AccountingInit DEF IInv, Accounting
  <2>1. \A u \in Users : store[u].inflight = NoHash
    BY ConstantRecords DEF Init
  <2>2. \A r \in Replicas : sched[r].pc = "idle"
    BY DEF Init, Idle
  <2> QED BY <2>1, <2>2 DEF NewestInv, NewestStored, NewestHeld, NoHash
<1>2. IInv /\ NewestInv /\ [Next]_vars => IInv' /\ NewestInv'
  <2> SUFFICES ASSUME IInv, NewestInv, [Next]_vars PROVE NewestInv'
    BY AccountingStep
  <2> QED BY NewestSched, NewestWorld DEF Next
<1>3. IInv /\ NewestInv => PollsNewestVersion
  <2>1. SUFFICES ASSUME IInv, NewestInv, NEW n \in 1..sent, Open(n), Durable(n)
                 PROVE  \/ store[txs[n].user].inflight.bump = txs[n].top
                        \/ \E r \in Replicas : sched[r].pc = "persist" /\ sched[r].tx = n
                        \/ n \in blamed
    BY DEF PollsNewestVersion
  <2>2. n # 0 /\ txs[n].user \in Users
    <3>1. txs \in [TxIds -> Tx] /\ sent \in 0..MaxTx /\ MaxTx \in Nat
      BY <2>1, ConstantsAssumption DEF IInv, TypeOK, ConstantsAssumption
    <3>2. n # 0 /\ n \in TxIds
      BY <3>1 DEF TxIds
    <3> QED BY <3>1, <3>2 DEF Tx
  <2>3. PICK h : h = store[txs[n].user].inflight
    OBVIOUS
  <2>4. h.tx = n
    BY <2>1, <2>3 DEF Durable
  <2>5. Polled(n, h.bump) \/ \E r \in Replicas : Persists(r, n)
    BY <2>1, <2>2, <2>3, <2>4 DEF NewestInv, NewestStored
  <2> QED BY <2>1, <2>3, <2>5 DEF Polled, Persists, Open, Gone
<1> QED BY <1>1, <1>2, <1>3, PTL DEF Spec
=============================================================================

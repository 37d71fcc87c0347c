-------------------------- MODULE BillingCalmProofs --------------------------
(***************************************************************************)
(* What Billing guarantees without excuses.  In an environment without the *)
(* faults below (whose part in the loss of a pull BillingProofs and the    *)
(* runs show) no pull is lost, no user has two open pulls and nothing is   *)
(* recorded as paid that is not: with any number of crashes between two    *)
(* steps, reverted and failed pulls, fee bumps, replaced and dropped       *)
(* transactions, RPC errors, lost renewals and API calls during a tick.    *)
(* Each pull is recorded once, and the whole cycle implements PullLedger.  *)
(***************************************************************************)
EXTENDS BillingProofs

Calm == Faults \cap {"orphan", "store", "resend", "late", "lease", "split",
                     "checkout"} = {}

\* A replica that is in a tick holds the tick lock.
HoldsLock == \A r \in Replicas : sched[r].pc # "idle" => lock = r

\* An API call in progress has read what is still stored.
CallFresh == api # NoCall => api.read = store[api.user]

\* What was recorded as paid was broadcast before.
CreditsSent == \A c \in credited : c.tx \in 1..sent

CalmInv ==
  blamed = {} /\ HoldsLock /\ CallFresh /\ CreditsSent /\ CreditsAreReal

LEMMA CalmInit == Init => CalmInv
<1> SUFFICES ASSUME Init PROVE CalmInv
  OBVIOUS
<1>1. \A r \in Replicas : sched[r].pc = "idle"
  BY DEF Init, Idle
<1> QED BY <1>1 DEF Init, CalmInv, HoldsLock, CallFresh, CreditsSent, CreditsAreReal

\* A step of a replica inside its tick blames nobody: it holds the lock, and
\* no API call is half done.
LEMMA CalmWork ==
  ASSUME TypeOK, Calm, CalmInv, NEW r \in Replicas, SubStep(r) \/ WaitStep(r)
  PROVE  /\ blamed' = {} /\ lock' = lock /\ lock = r
         /\ api = NoCall /\ api' = NoCall
         /\ \A q \in Replicas : q # r => sched'[q] = sched[q]
<1>1. CASE SubStep(r)
  <2>1. PICK s \in sched[r].queue :
          \/ StartResolve(r, s) \/ CancelInactive(r, s) \/ Broadcast(r, s)
          \/ \E side \in {"operator", "user"} : SubmitFails(r, s, side)
    BY <1>1 DEF SubStep
  <2>2. Takes(r, s)
    BY <2>1 DEF StartResolve, CancelInactive, Broadcast, SubmitFails
  <2>3. lock = r /\ api = NoCall
    BY <2>2 DEF Takes, Quiet, Calm, CalmInv, HoldsLock
  <2>4. blamed' = {}
    BY <2>1, <2>3
       DEF StartResolve, CancelInactive, Broadcast, SubmitFails, Upsert, CalmInv
  <2>5. lock' = lock /\ api' = api
    BY <2>1 DEF StartResolve, CancelInactive, Broadcast, SubmitFails
  <2>6. \A q \in Replicas : q # r => sched'[q] = sched[q]
    BY <2>1 DEF StartResolve, CancelInactive, Broadcast, SubmitFails, TypeOK
  <2> QED BY <2>3, <2>4, <2>5, <2>6
<1>2. CASE WaitStep(r)
  <2>1. \/ PersistHash(r) \/ ReceiptOk(r) \/ ReceiptReverted(r)
        \/ GiveUp(r) \/ Timeout(r) \/ Resend(r) \/ NoBump(r) \/ ResolveRpcError(r)
    BY <1>2 DEF WaitStep, Calm, PersistHashFails, ResendFails, LateReceipt,
         LateNotFound, FinalUpsertFails
  <2>2. Quiet /\ sched[r].pc # "idle"
    BY <2>1 DEF PersistHash, ReceiptOk, ReceiptReverted, GiveUp, Timeout, Resend,
         NoBump, ResolveRpcError
  <2>3. lock = r /\ api = NoCall
    BY <2>2 DEF Quiet, Calm, CalmInv, HoldsLock
  <2>4. blamed' = {}
    BY <2>1, <2>3 DEF PersistHash, ReceiptOk, ReceiptReverted, GiveUp, Timeout,
         Resend, NoBump, ResolveRpcError, Upsert, Credit, CalmInv
  <2>5. lock' = lock /\ api' = api
    BY <2>1 DEF PersistHash, ReceiptOk, ReceiptReverted, GiveUp, Timeout, Resend,
         NoBump, ResolveRpcError
  <2>6. \A q \in Replicas : q # r => sched'[q] = sched[q]
    BY <2>1 DEF PersistHash, ReceiptOk, ReceiptReverted, GiveUp, Timeout, Resend,
         NoBump, ResolveRpcError, Return, TypeOK
  <2> QED BY <2>3, <2>4, <2>5, <2>6
<1> QED BY <1>1, <1>2

\* A paid pull stays paid.
LEMMA PaidStable ==
  ASSUME TypeOK, [Next]_vars, NEW n \in 1..sent, Paid(n)
  PROVE  Paid(n)' /\ n \in 1..sent'
<1>1. txs[n].mined # 0 /\ sent \in Nat /\ n \in TxIds
  BY ConstantsAssumption DEF Paid, TypeOK, TxIds, ConstantsAssumption
<1>2. CASE \E r \in Replicas : \E s \in sched[r].queue : Broadcast(r, s)
  <2>0. PICK r \in Replicas : \E s \in sched[r].queue : Broadcast(r, s)
    BY <1>2
  <2>1. PICK s \in sched[r].queue : Broadcast(r, s)
    BY <2>0
  <2> DEFINE k == sent + 1
  <2>2. n # k /\ sent' = k /\ n \in 1..k
    BY <1>1, <2>1 DEF Broadcast
  <2>3. txs'[n] = txs[n]
    BY <1>1, <2>1, <2>2 DEF Broadcast, TypeOK
  <2> QED BY <2>2, <2>3 DEF Paid
<1>3. CASE \E r \in Replicas : Resend(r)
  BY <1>1, <1>3 DEF Resend, TypeOK, Paid
<1>4. CASE ChainStep
  <2>1. PICK k \in 1..sent :
          Drop(k) \/ \E b \in 1..txs[k].top, ok \in BOOLEAN : Mine(k, b, ok)
    BY <1>4 DEF ChainStep
  <2>2. txs'[n] = txs[n] /\ sent' = sent
    BY <1>1, <2>1 DEF Drop, Mine, TypeOK
  <2> QED BY <2>2 DEF Paid
<1>5. CASE txs' = txs /\ sent' = sent
  BY <1>5 DEF Paid
<1>6. \/ txs' = txs /\ sent' = sent
      \/ ChainStep \/ \E r \in Replicas : Resend(r)
      \/ \E r \in Replicas : \E s \in sched[r].queue : Broadcast(r, s)
  <2>1. CASE \E r \in Replicas : SchedStep(r) \/ Crash(r)
    <3>1. PICK r \in Replicas : SchedStep(r) \/ Crash(r)
      BY <2>1
    <3>2. CASE StartTick(r) \/ EndTick(r) \/ Crash(r)
      BY <3>2 DEF StartTick, EndTick, Crash
    <3>3. CASE SubStep(r)
      BY <3>3 DEF SubStep, StartResolve, CancelInactive, SubmitFails
    <3>4. CASE WaitStep(r)
      BY <3>4 DEF WaitStep, PersistHash, PersistHashFails, ReceiptOk, ReceiptReverted,
           GiveUp, Timeout, NoBump, ResendFails, LateReceipt, LateNotFound,
           ResolveRpcError, FinalUpsertFails
    <3> QED BY <3>1, <3>2, <3>3, <3>4 DEF SchedStep
  <2>2. CASE ApiStep
    BY <2>2 DEF ApiStep, WriteCall, CancelSub, CreateSub, UpsertPlan, CompleteCheckout
  <2>3. CASE LeaseExpires \/ AdvanceTime \/ UNCHANGED vars
    BY <2>3 DEF LeaseExpires, AdvanceTime, vars
  <2> QED BY <2>1, <2>2, <2>3 DEF Next
<1> QED BY <1>2, <1>3, <1>4, <1>5, <1>6

\* Only a mined, successful pull is recorded as paid: LateReceipt needs its
\* fault.
LEMMA CreditStep ==
  ASSUME IInv, Calm, CreditsSent, CreditsAreReal, [Next]_vars
  PROVE  CreditsSent' /\ CreditsAreReal'
<1>1. TypeOK
  BY DEF IInv
<1>2. CASE credited' = credited
  BY <1>1, <1>2, PaidStable DEF CreditsSent, CreditsAreReal
<1>3. CASE \E r \in Replicas : ReceiptOk(r)
  <2>1. PICK r \in Replicas : ReceiptOk(r)
    BY <1>3
  <2>2. /\ credited' = credited \cup {[tx |-> sched[r].tx, as |-> sched[r].kind]}
        /\ Paid(sched[r].tx) /\ Busy(r)
    BY <2>1 DEF ReceiptOk, Credit, HasReceipt, Paid, Busy
  <2>3. sched[r].tx \in 1..sent
    BY <2>2, CurrentRecord
  <2>4. \A c \in credited' : c.tx \in 1..sent /\ Paid(c.tx)
    BY <2>2, <2>3 DEF CreditsSent, CreditsAreReal
  <2>5. \A c \in credited' : \A n : n = c.tx => n \in 1..sent' /\ Paid(n)'
    BY <1>1, <2>4, PaidStable
  <2> QED BY <2>5 DEF CreditsSent, CreditsAreReal
<1>4. credited' = credited \/ \E r \in Replicas : ReceiptOk(r)
  <2>1. CASE \E r \in Replicas : SchedStep(r) \/ Crash(r)
    <3>1. PICK r \in Replicas : SchedStep(r) \/ Crash(r)
      BY <2>1
    <3>2. CASE StartTick(r) \/ EndTick(r) \/ Crash(r)
      BY <3>2 DEF StartTick, EndTick, Crash
    <3>3. CASE SubStep(r)
      BY <3>3 DEF SubStep, StartResolve, CancelInactive, SubmitFails, Broadcast
    <3>4. CASE WaitStep(r)
      BY <3>4 DEF WaitStep, PersistHash, PersistHashFails, ReceiptReverted,
           GiveUp, Timeout, Resend, NoBump, ResendFails, LateReceipt, LateNotFound,
           ResolveRpcError, FinalUpsertFails, Calm
    <3> QED BY <3>1, <3>2, <3>3, <3>4 DEF SchedStep
  <2>2. CASE ApiStep
    BY <2>2 DEF ApiStep, WriteCall, CancelSub, CreateSub, UpsertPlan, CompleteCheckout
  <2>3. CASE LeaseExpires \/ AdvanceTime \/ ChainStep \/ UNCHANGED vars
    BY <2>3 DEF LeaseExpires, AdvanceTime, ChainStep, Drop, Mine, vars
  <2> QED BY <2>1, <2>2, <2>3 DEF Next
<1> QED BY <1>2, <1>3, <1>4

LEMMA CalmStep == IInv /\ Calm /\ CalmInv /\ [Next]_vars => CalmInv'
<1> SUFFICES ASSUME IInv, Calm, CalmInv, [Next]_vars PROVE CalmInv'
  OBVIOUS
<1>1. /\ TypeOK /\ blamed = {} /\ HoldsLock /\ CallFresh
      /\ Free \notin Replicas /\ Orphan \notin Replicas
  BY ConstantsAssumption DEF IInv, CalmInv, ConstantsAssumption
<1>2. CreditsSent' /\ CreditsAreReal'
  BY CreditStep DEF CalmInv
<1>3. blamed' = {} /\ HoldsLock' /\ CallFresh'
  <2>1. CASE \E r \in Replicas : SubStep(r) \/ WaitStep(r)
    <3>1. PICK r \in Replicas : SubStep(r) \/ WaitStep(r)
      BY <2>1
    <3>2. /\ blamed' = {} /\ lock' = lock /\ lock = r /\ api' = NoCall
          /\ \A q \in Replicas : q # r => sched'[q] = sched[q]
      BY <1>1, <3>1, CalmWork
    <3> QED BY <1>1, <3>2 DEF HoldsLock, CallFresh
  <2>2. CASE \E r \in Replicas : StartTick(r)
    <3>1. PICK r \in Replicas : StartTick(r)
      BY <2>2
    <3>2. /\ lock = Free /\ lock' = r /\ blamed' = blamed /\ api' = api
          /\ store' = store /\ \A q \in Replicas : q # r => sched'[q] = sched[q]
      BY <1>1, <3>1 DEF StartTick, TypeOK
    <3> QED BY <1>1, <3>2 DEF HoldsLock, CallFresh
  <2>3. CASE \E r \in Replicas : EndTick(r) \/ Crash(r)
    <3>1. PICK r \in Replicas : EndTick(r) \/ Crash(r)
      BY <2>3
    <3>2. sched[r].pc # "idle"
      BY <3>1 DEF EndTick, Crash
    <3>3. blamed' = blamed
      BY <3>1 DEF EndTick, Crash, Calm
    <3>4. /\ api' = api /\ store' = store /\ sched'[r].pc = "idle"
          /\ \A q \in Replicas : q # r => sched'[q] = sched[q]
      BY <1>1, <3>1 DEF EndTick, Crash, TypeOK, Idle
    <3>5. \A q \in Replicas : sched'[q].pc = "idle"
      BY <1>1, <3>2, <3>4 DEF HoldsLock
    <3> QED BY <1>1, <3>3, <3>4, <3>5 DEF HoldsLock, CallFresh
  <2>4. CASE WriteCall
    <3>1. api # NoCall /\ api.read = store[api.user]
      BY <1>1, <2>4 DEF WriteCall, CallFresh
    <3> QED BY <1>1, <2>4, <3>1 DEF WriteCall, HoldsLock, CallFresh
  <2>5. CASE \E u \in Users, p \in Plans : CompleteCheckout(u, p)
    BY <1>1, <2>5 DEF CompleteCheckout, Calm, NoHash, HoldsLock, CallFresh
  <2>6. CASE \E u \in Users : CancelSub(u)
    BY <1>1, <2>6 DEF CancelSub, HoldsLock, CallFresh
  <2>7. CASE \E u \in Users, p \in Plans, d \in Starts : CreateSub(u, p, now + d)
    BY <1>1, <2>7 DEF CreateSub, HoldsLock, CallFresh
  <2>8. CASE LeaseExpires
    BY <1>1, <2>8 DEF LeaseExpires, Calm, HoldsLock, CallFresh
  <2>9. CASE ChainStep
    BY <1>1, <2>9 DEF ChainStep, Drop, Mine, HoldsLock, CallFresh
  <2>10. CASE AdvanceTime \/ UNCHANGED vars
    BY <1>1, <2>10 DEF AdvanceTime, vars, HoldsLock, CallFresh
  <2>11. CASE \E p \in Plans, plan \in PlanOptions : UpsertPlan(p, plan)
    BY <1>1, <2>11 DEF UpsertPlan, HoldsLock, CallFresh
  <2> QED BY <2>1, <2>2, <2>3, <2>4, <2>5, <2>6, <2>7, <2>8, <2>9, <2>10, <2>11
       DEF Next, SchedStep, ApiStep
<1> QED BY <1>2, <1>3 DEF CalmInv

LEMMA CalmInvariant ==
  ASSUME Calm
  PROVE  Spec => [](IInv /\ CalmInv)
<1>1. Init => IInv /\ CalmInv
  BY InitType, AccountingInit, CalmInit DEF IInv, Accounting
<1>2. IInv /\ CalmInv /\ [Next]_vars => IInv' /\ CalmInv'
  BY AccountingStep, CalmStep
<1> QED BY <1>1, <1>2, PTL DEF Spec

(* Without those faults no pull is lost: whatever may still take the       *)
(* user's money is named by the stored record (InFlightTx, store.go:102-   *)
(* 106), apart from the instant between SendTransaction and onSubmit.      *)
THEOREM NoPullLostWhenCalm ==
  ASSUME Calm
  PROVE  Spec => []NoPullLost
<1>1. IInv /\ CalmInv => NoPullLost
  BY DEF IInv, CalmInv, Accounted, NoPullLost, Open, Gone
<1> QED BY <1>1, CalmInvariant, PTL

\* Both of two open pulls would be in the record, or in the hands of the one
\* replica that holds the lock.
LEMMA OneOpen == IInv /\ CalmInv => OneOpenPull
<1>1. SUFFICES ASSUME IInv, CalmInv, NEW m \in 1..sent, NEW n \in 1..sent,
                      m # n, Open(m), Open(n), txs[m].user = txs[n].user
               PROVE  FALSE
  BY DEF OneOpenPull
<1>2. /\ TypeOK /\ RefsOK /\ CopiesFresh /\ Accounted
      /\ blamed = {} /\ HoldsLock
  BY <1>1 DEF IInv, CalmInv
<1>3. ~Gone(m) /\ ~Gone(n)
  BY <1>1 DEF Open, Gone
<1>4. \A k \in {m, n} :
        Durable(k) \/ \E r \in Replicas : sched[r].pc = "persist" /\ sched[r].tx = k
  BY <1>1, <1>2, <1>3 DEF Accounted
<1>5. ~(Durable(m) /\ Durable(n))
  BY <1>1 DEF Durable
<1>6. ASSUME NEW r \in Replicas, sched[r].pc = "persist"
      PROVE  /\ lock = r
             /\ Agrees(txs[sched[r].tx].user, sched[r].tx)
  BY <1>2, <1>6 DEF HoldsLock, CopiesFresh, RefsOK, Busy
<1>7. \A k, l \in {m, n} : k # l => ~(Durable(k) /\
         \E r \in Replicas : sched[r].pc = "persist" /\ sched[r].tx = l)
  <2>1. SUFFICES ASSUME NEW k \in {m, n}, NEW l \in {m, n}, k # l, Durable(k),
                        NEW r \in Replicas, sched[r].pc = "persist", sched[r].tx = l
                 PROVE  FALSE
    OBVIOUS
  <2>2. Agrees(txs[l].user, l) /\ store[txs[l].user].inflight.tx = k /\ k # 0
    BY <1>1, <1>6, <2>1 DEF Durable
  <2> QED BY <1>2, <1>3, <2>1, <2>2 DEF Agrees
<1>8. ASSUME NEW q \in Replicas, NEW r \in Replicas, sched[q].pc = "persist",
             sched[r].pc = "persist", sched[q].tx = m, sched[r].tx = n
      PROVE  FALSE
  BY <1>1, <1>6, <1>8
<1> QED BY <1>1, <1>4, <1>5, <1>7, <1>8

(* "MUST poll this receipt before submitting another pull" (store.go:104): *)
(* without those faults no user ever has two open pulls, with any number   *)
(* of replicas, restarts and concurrent API calls.                         *)
THEOREM OneOpenPullWhenCalm ==
  ASSUME Calm
  PROVE  Spec => []OneOpenPull
BY OneOpen, CalmInvariant, PTL

(* Without those faults a scheduler records as paid only what the chain    *)
(* paid: the receipt it saw is that of a mined, successful transaction.    *)
THEOREM CreditsAreRealWhenCalm ==
  ASSUME Calm
  PROVE  Spec => []CreditsAreReal
<1>1. CalmInv => CreditsAreReal
  BY DEF CalmInv
<1> QED BY <1>1, CalmInvariant, PTL
-----------------------------------------------------------------------------
(* Booking: each pull is recorded once *)

\* What a replica works on or has a copy of is not recorded yet.
WorkUnbooked(r) ==
  /\ sched[r].pc = "idle" => sched[r].queue = {}
  /\ Busy(r) => ~CreditedTx(sched[r].tx)
  /\ \A s \in sched[r].queue : ~CreditedTx(s.inflight.tx)

Unbooked ==
  /\ \A u \in Users : ~CreditedTx(store[u].inflight.tx)
  /\ \A r \in Replicas : WorkUnbooked(r)

LEMMA NeverBooked ==
  ASSUME TypeOK, CalmInv
  PROVE  ~CreditedTx(0) /\ ~CreditedTx(sent + 1)
BY DEF CalmInv, CreditsSent, CreditedTx, TypeOK

\* A step of a replica that records nothing.
LEMMA UnbookedReplica ==
  ASSUME Unbooked, NEW r \in Replicas, OthersWork(r), credited' = credited,
         \A u \in Users : store'[u] = store[u] \/ ~CreditedTx(store'[u].inflight.tx),
         sched'[r].pc = "idle" => sched'[r].queue = {},
         sched'[r].pc \in {"persist", "wait", "bump", "resolve"}
           => ~CreditedTx(sched'[r].tx),
         \A s \in sched'[r].queue : ~CreditedTx(s.inflight.tx)
  PROVE  Unbooked'
<1>1. \A n : CreditedTx(n)' <=> CreditedTx(n)
  BY DEF CreditedTx
<1>2. \A u \in Users : ~CreditedTx(store[u].inflight.tx)'
  BY DEF Unbooked, CreditedTx
<1>3. WorkUnbooked(r)'
  BY DEF WorkUnbooked, Busy, CreditedTx
<1>4. \A q \in Replicas : q # r => WorkUnbooked(q)'
  BY DEF Unbooked, WorkUnbooked, Busy, OthersWork, CreditedTx
<1> QED BY <1>2, <1>3, <1>4 DEF Unbooked

LEMMA UnbookedTake ==
  ASSUME IInv, CalmInv, Unbooked, NEW r \in Replicas, NEW s \in sched[r].queue,
         \/ StartResolve(r, s) \/ CancelInactive(r, s) \/ Broadcast(r, s)
         \/ \E side \in {"operator", "user"} : SubmitFails(r, s, side)
  PROVE  Unbooked'
<1>1. /\ TypeOK /\ s \in Sub /\ credited' = credited /\ ~CreditedTx(s.inflight.tx)
      /\ \A t \in sched[r].queue : ~CreditedTx(t.inflight.tx)
      /\ ~CreditedTx(0) /\ ~CreditedTx(sent + 1) /\ now \in Nat
  <2>1. credited' = credited
    BY DEF StartResolve, CancelInactive, Broadcast, SubmitFails
  <2>2. TypeOK /\ now \in Nat /\ s \in Sub
    BY WorkType DEF IInv, TypeOK
  <2> QED BY <2>1, <2>2, NeverBooked DEF Unbooked, WorkUnbooked
<1>2. CASE StartResolve(r, s)
  <2>1. /\ OthersWork(r) /\ sched'[r].pc = "resolve" /\ sched'[r].tx = s.inflight.tx
        /\ sched'[r].queue = sched[r].queue \ {s}
    BY <1>1, <1>2, ResolveWork
  <2>2. store' = store
    BY <1>2 DEF StartResolve
  <2> QED BY <1>1, <2>1, <2>2, UnbookedReplica
<1>3. CASE Broadcast(r, s)
  <2>1. /\ OthersWork(r) /\ sched'[r].pc = "persist" /\ sched'[r].tx = sent + 1
        /\ sched'[r].queue = sched[r].queue \ {s}
    BY <1>1, <1>3, BroadcastWork
  <2>2. store' = store
    BY <1>3 DEF Broadcast
  <2> QED BY <1>1, <2>1, <2>2, UnbookedReplica
<1>4. CASE CancelInactive(r, s) \/ \E side \in {"operator", "user"} : SubmitFails(r, s, side)
  <2>1. PICK rec \in Sub : store' = [store EXCEPT ![rec.user] = rec] /\ rec.inflight = NoHash
    <3>1. CASE CancelInactive(r, s)
      <4>1. PICK rec : rec = Cancelled(s)
        OBVIOUS
      <4>2. rec \in Sub /\ rec.inflight = NoHash
        BY <1>1, <4>1, ConstantRecords, ClearedRecords
      <4> QED BY <3>1, <4>1, <4>2 DEF CancelInactive, Upsert
    <3>2. CASE \E side \in {"operator", "user"} : SubmitFails(r, s, side)
      <4>1. PICK side \in {"operator", "user"} : SubmitFails(r, s, side)
        BY <3>2
      <4>2. PICK rec : rec = Failed(s, side)
        OBVIOUS
      <4>3. rec \in Sub /\ rec.inflight = NoHash
        BY <1>1, <4>2, FailedRecords
      <4> QED BY <4>1, <4>2, <4>3 DEF SubmitFails, Upsert
    <3> QED BY <1>4, <3>1, <3>2
  <2>2. \A u \in Users : store'[u] = store[u] \/ ~CreditedTx(store'[u].inflight.tx)
    BY <1>1, <2>1 DEF TypeOK, NoHash
  <2>3. /\ OthersWork(r) /\ sched'[r].pc = "loop"
        /\ sched'[r].queue = sched[r].queue \ {s}
    BY <1>1, <1>4, FailedTakeWork
  <2> QED BY <1>1, <2>2, <2>3, UnbookedReplica
<1> QED BY <1>2, <1>3, <1>4

LEMMA UnbookedTick ==
  ASSUME IInv, CalmInv, Unbooked, NEW r \in Replicas,
         StartTick(r) \/ EndTick(r) \/ Crash(r)
  PROVE  Unbooked'
<1>1. TypeOK /\ OthersWork(r) /\ store' = store /\ credited' = credited
  BY TickWork DEF IInv
<1>2. CASE StartTick(r)
  <2>1. sched'[r].pc = "loop" /\ sched'[r].queue \in DueBefore
    BY <1>1, <1>2, TickWork
  <2>2. \A s \in sched'[r].queue : \E u \in Users : s = store[u]
    BY <2>1 DEF DueBefore, DueSet
  <2>3. \A s \in sched'[r].queue : ~CreditedTx(s.inflight.tx)
    BY <2>2 DEF Unbooked
  <2> QED BY <1>1, <2>1, <2>3, UnbookedReplica
<1>3. CASE EndTick(r) \/ Crash(r)
  <2>1. sched'[r].pc = "idle" /\ sched'[r].queue = {}
    BY <1>1, <1>3, TickWork
  <2> QED BY <1>1, <2>1, UnbookedReplica
<1> QED BY <1>2, <1>3

LEMMA UnbookedWait ==
  ASSUME IInv, CalmInv, Unbooked, NEW r \in Replicas,
         \/ PersistHash(r) \/ Timeout(r) \/ NoBump(r) \/ Resend(r)
         \/ ReceiptReverted(r) \/ GiveUp(r) \/ ResolveRpcError(r)
  PROVE  Unbooked'
<1>1. /\ TypeOK /\ Busy(r) /\ credited' = credited /\ ~CreditedTx(sched[r].tx)
      /\ \A t \in sched[r].queue : ~CreditedTx(t.inflight.tx)
      /\ ~CreditedTx(0) /\ now \in Nat
  <2>1. Busy(r) /\ credited' = credited
    BY DEF PersistHash, Timeout, NoBump, Resend, ReceiptReverted, GiveUp,
           ResolveRpcError, Busy
  <2> QED BY <2>1, NeverBooked DEF IInv, TypeOK, Unbooked, WorkUnbooked
<1>2. CASE PersistHash(r)
  <2>1. PICK rec : rec = WithHash(r)
    OBVIOUS
  <2>2. /\ store' = [store EXCEPT ![rec.user] = rec] /\ rec.inflight.tx = sched[r].tx
    BY <1>1, <1>2, <2>1, WrittenRecords DEF PersistHash, Upsert
  <2>3. \A u \in Users : store'[u] = store[u] \/ ~CreditedTx(store'[u].inflight.tx)
    BY <1>1, <2>2 DEF TypeOK
  <2>4. /\ OthersWork(r) /\ sched'[r].pc = "wait" /\ sched'[r].tx = sched[r].tx
        /\ sched'[r].queue = sched[r].queue
    BY <1>1, <1>2, PersistWork
  <2> QED BY <1>1, <2>3, <2>4, UnbookedReplica
<1>3. CASE Timeout(r) \/ NoBump(r) \/ Resend(r)
  <2>1. /\ OthersWork(r) /\ sched'[r].pc # "idle" /\ sched'[r].tx = sched[r].tx
        /\ sched'[r].queue = sched[r].queue
    <3>1. CASE Timeout(r) \/ NoBump(r)
      BY <1>1, <3>1, WaitWork
    <3>2. CASE Resend(r)
      BY <1>1, <3>2, ResendWork
    <3> QED BY <1>3, <3>1, <3>2
  <2>2. store' = store
    BY <1>3 DEF Timeout, NoBump, Resend
  <2> QED BY <1>1, <2>1, <2>2, UnbookedReplica
<1>4. CASE ReceiptReverted(r) \/ GiveUp(r) \/ ResolveRpcError(r)
  <2>1. /\ OthersWork(r) /\ sched'[r].pc = "loop" /\ sched'[r].queue = sched[r].queue
    BY <1>1, <1>4, EndsWork DEF Ends
  <2>2. \A u \in Users : store'[u] = store[u] \/ ~CreditedTx(store'[u].inflight.tx)
    <3>1. CASE ReceiptReverted(r)
      <4>1. PICK rec : rec = Failed(sched[r].sub, "user")
        OBVIOUS
      <4>2. store' = [store EXCEPT ![rec.user] = rec] /\ rec.inflight = NoHash
        BY <1>1, <3>1, <4>1, CurrentRecord, FailedRecords DEF ReceiptReverted, Upsert
      <4> QED BY <1>1, <4>2 DEF TypeOK, NoHash
    <3>2. CASE GiveUp(r) \/ ResolveRpcError(r)
      BY <3>2 DEF GiveUp, ResolveRpcError
    <3> QED BY <1>4, <3>1, <3>2
  <2> QED BY <1>1, <2>1, <2>2, UnbookedReplica
<1> QED BY <1>2, <1>3, <1>4

\* The pull that is recorded is in no other record or copy.
LEMMA UnbookedReceipt ==
  ASSUME IInv, CalmInv, Unbooked, NEW r \in Replicas, ReceiptOk(r)
  PROVE  Unbooked'
<1>1. PICK n, rec, c : /\ n = sched[r].tx /\ rec = Settled(r)
                       /\ c = [tx |-> n, as |-> sched[r].kind]
  OBVIOUS
<1>2. /\ TypeOK /\ Busy(r) /\ sched[r].pc # "idle" /\ Ends(r)
      /\ store' = [store EXCEPT ![rec.user] = rec]
      /\ credited' = credited \cup {c} /\ c.tx = n
  BY <1>1 DEF IInv, ReceiptOk, Busy, Ends, Credit, Upsert
<1>3. \A m : CreditedTx(m)' <=> CreditedTx(m) \/ m = n
  BY <1>2 DEF CreditedTx
<1>4. /\ n \in 1..sent /\ n # 0 /\ txs[n].user = rec.user /\ rec.inflight.tx = 0
      /\ \A t \in sched[r].queue : t.user # rec.user
  BY <1>1, <1>2, CurrentRecord, WrittenRecords DEF NoHash
<1>5. /\ OthersWork(r) /\ sched'[r].pc = "loop" /\ sched'[r].queue = sched[r].queue
  BY <1>2, EndsWork
<1>6. ASSUME NEW u \in Users PROVE ~CreditedTx(store[u].inflight.tx)'
  <2>1. CASE u = rec.user
    <3>1. store'[u].inflight.tx = 0
      BY <1>2, <1>4, <2>1 DEF TypeOK
    <3> QED BY <1>2, <1>3, <1>4, <3>1, NeverBooked DEF CreditedTx
  <2>2. CASE u # rec.user
    <3>1. store'[u] = store[u] /\ store[u].user = u /\ RefOK(store[u])
      BY <1>2, <2>2 DEF TypeOK, IInv, RefsOK
    <3>2. store[u].inflight.tx # n
      BY <1>4, <2>2, <3>1 DEF RefOK
    <3>3. ~CreditedTx(store[u].inflight.tx)
      BY DEF Unbooked
    <3> QED BY <1>2, <3>1, <3>2, <3>3 DEF CreditedTx
  <2> QED BY <2>1, <2>2
<1>7. WorkUnbooked(r)'
  <2>1. ASSUME NEW t \in sched[r].queue PROVE ~CreditedTx(t.inflight.tx)'
    <3>1. RefOK(t) /\ t.user # rec.user /\ ~CreditedTx(t.inflight.tx)
      BY <1>4 DEF IInv, RefsOK, Unbooked, WorkUnbooked
    <3>2. t.inflight.tx # n
      BY <1>4, <3>1 DEF RefOK
    <3> QED BY <1>3, <3>1, <3>2
  <2> QED BY <1>5, <2>1 DEF WorkUnbooked, Busy
<1>8. ASSUME NEW q \in Replicas, q # r PROVE WorkUnbooked(q)'
  <2>1. sched'[q] = sched[q] /\ sched[q].pc = "idle" /\ sched[q].queue = {}
    BY <1>2, <1>5, <1>8 DEF CalmInv, HoldsLock, OthersWork, Unbooked, WorkUnbooked
  <2> QED BY <2>1 DEF WorkUnbooked, Busy
<1> QED BY <1>6, <1>7, <1>8 DEF Unbooked

LEMMA UnbookedApi ==
  ASSUME IInv, CalmInv, Unbooked, ApiStep
  PROVE  Unbooked'
<1>1. TypeOK /\ sched' = sched /\ credited' = credited /\ ~CreditedTx(0)
  BY NeverBooked DEF IInv, ApiStep, WriteCall, CancelSub, CreateSub, UpsertPlan, CompleteCheckout
<1>2. \A u \in Users : store'[u] = store[u] \/ ~CreditedTx(store'[u].inflight.tx)
  <2>1. CASE WriteCall
    <3>1. PICK u, rec : u = api.user /\ rec = CallResult(api)
      OBVIOUS
    <3>2. /\ api # NoCall /\ api.read = store[u] /\ u \in Users
          /\ store' = [store EXCEPT ![u] = rec]
      BY <1>1, <2>1, <3>1 DEF WriteCall, CalmInv, CallFresh, TypeOK, Call
    <3>3. rec.inflight \in {NoHash, store[u].inflight}
      BY <1>1, <3>1, <3>2, CallRecords
    <3>4. ~CreditedTx(rec.inflight.tx)
      BY <1>1, <3>2, <3>3 DEF Unbooked, NoHash
    <3> QED BY <1>1, <3>2, <3>4 DEF TypeOK
  <2>2. CASE \E u \in Users, p \in Plans : CompleteCheckout(u, p)
    <3>1. PICK u \in Users, p \in Plans : CompleteCheckout(u, p)
      BY <2>2
    <3>2. PICK rec : rec = NewSub(u, p, now + plans[p].period)
      OBVIOUS
    <3>3. store' = [store EXCEPT ![u] = rec] /\ rec.inflight.tx = 0
      <4>1. rec.inflight = NoHash
        BY <3>2 DEF NewSub
      <4> QED BY <3>1, <3>2, <4>1 DEF CompleteCheckout, NoHash
    <3> QED BY <1>1, <3>3 DEF TypeOK
  <2>3. CASE store' = store
    BY <2>3
  <2> QED BY <2>1, <2>2, <2>3 DEF ApiStep, CancelSub, CreateSub, UpsertPlan
<1> QED BY <1>1, <1>2 DEF Unbooked, WorkUnbooked, Busy, CreditedTx

LEMMA UnbookedStep ==
  IInv /\ Calm /\ CalmInv /\ Unbooked /\ [Next]_vars => Unbooked'
<1> SUFFICES ASSUME IInv, Calm, CalmInv, Unbooked, [Next]_vars PROVE Unbooked'
  OBVIOUS
<1>1. CASE \E r \in Replicas : SchedStep(r) \/ Crash(r)
  <2>1. PICK r \in Replicas : SchedStep(r) \/ Crash(r)
    BY <1>1
  <2>2. CASE WaitStep(r)
    <3>1. \/ PersistHash(r) \/ ReceiptOk(r) \/ ReceiptReverted(r)
          \/ GiveUp(r) \/ Timeout(r) \/ Resend(r) \/ NoBump(r) \/ ResolveRpcError(r)
      BY <2>2 DEF WaitStep, Calm, PersistHashFails, ResendFails, LateReceipt,
           LateNotFound, FinalUpsertFails
    <3> QED BY <3>1, UnbookedWait, UnbookedReceipt
  <2>3. CASE SubStep(r)
    BY <2>3, UnbookedTake DEF SubStep
  <2> QED BY <2>1, <2>2, <2>3, UnbookedTick DEF SchedStep
<1>2. CASE LeaseExpires \/ ChainStep \/ AdvanceTime \/ UNCHANGED vars
  <2>1. store' = store /\ sched' = sched /\ credited' = credited
    BY <1>2 DEF LeaseExpires, ChainStep, Drop, Mine, AdvanceTime, vars
  <2> QED BY <2>1 DEF Unbooked, WorkUnbooked, Busy, CreditedTx
<1> QED BY <1>1, <1>2, UnbookedApi DEF Next

LEMMA UnbookedInvariant ==
  ASSUME Calm
  PROVE  Spec => [](IInv /\ CalmInv /\ Unbooked)
<1>1. Init => Unbooked
  BY DEF Init, Unbooked, WorkUnbooked, Busy, Idle, CreditedTx
<1>2. IInv /\ CalmInv /\ Unbooked /\ [Next]_vars => Unbooked'
  BY UnbookedStep
<1> QED BY <1>1, <1>2, CalmInvariant, PTL DEF Spec

(* Without those faults a pull is recorded once, however often its receipt *)
(* is there to be seen: the write that moves the date also takes the hash  *)
(* out of the record (scheduler.go:440-450), and no copy of it is left.    *)
THEOREM RecordedOnceWhenCalm ==
  ASSUME Calm
  PROVE  Spec => RecordedOnce
<1>1. IInv /\ CalmInv /\ Unbooked =>
        \A r \in Replicas : ReceiptOk(r) => ~CreditedTx(sched[r].tx)
  BY DEF Unbooked, WorkUnbooked, ReceiptOk, Busy
<1> QED BY <1>1, UnbookedInvariant, PTL DEF RecordedOnce
-----------------------------------------------------------------------------
(* The cycle implements PullLedger *)

\* LedgerState(n), case by case.
LedgerStates ==
  \A n : /\ n \notin 1..sent => LedgerState(n) = "unsent"
         /\ n \in 1..sent /\ CreditedTx(n) => LedgerState(n) = "booked"
         /\ n \in 1..sent /\ ~CreditedTx(n) =>
              LedgerState(n) = IF txs[n].dropped THEN "lost"
                               ELSE IF txs[n].mined = 0 THEN "open"
                               ELSE IF txs[n].ok THEN "taken" ELSE "refused"

LEMMA StatesOfPulls ==
  (CreditsSent => LedgerStates) /\ (CreditsSent' => LedgerStates')
<1>1. CreditsSent => LedgerStates
  BY DEF LedgerStates, LedgerState, CreditsSent, CreditedTx
<1> QED BY <1>1, PTL

\* Only these steps change what has become of a pull.
LEMMA MoneySteps ==
  ASSUME Calm, [Next]_vars
  PROVE  \/ txs' = txs /\ sent' = sent /\ credited' = credited
         \/ ChainStep
         \/ \E r \in Replicas :
              Resend(r) \/ ReceiptOk(r) \/ \E s \in sched[r].queue : Broadcast(r, s)
<1>1. CASE \E r \in Replicas : SchedStep(r) \/ Crash(r)
  <2>1. PICK r \in Replicas : SchedStep(r) \/ Crash(r)
    BY <1>1
  <2>2. CASE StartTick(r) \/ EndTick(r) \/ Crash(r)
    BY <2>2 DEF StartTick, EndTick, Crash
  <2>3. CASE SubStep(r)
    BY <2>3 DEF SubStep, StartResolve, CancelInactive, SubmitFails
  <2>4. CASE WaitStep(r)
    BY <2>4 DEF WaitStep, Calm, PersistHash, PersistHashFails, ReceiptReverted,
         GiveUp, Timeout, NoBump, ResendFails, LateReceipt, LateNotFound,
         ResolveRpcError, FinalUpsertFails
  <2> QED BY <2>1, <2>2, <2>3, <2>4 DEF SchedStep
<1>2. CASE ApiStep
  BY <1>2 DEF ApiStep, WriteCall, CancelSub, CreateSub, UpsertPlan, CompleteCheckout
<1>3. CASE LeaseExpires \/ AdvanceTime \/ UNCHANGED vars
  BY <1>3 DEF LeaseExpires, AdvanceTime, vars
<1> QED BY <1>1, <1>2, <1>3 DEF Next

LEMMA TxIdsNat ==
  TxIds \subseteq Nat /\ (TypeOK => 1..sent \subseteq TxIds)
BY ConstantsAssumption DEF TxIds, ConstantsAssumption, TypeOK

\* What was mined is not lost.
MinedKept == \A n \in TxIds : txs[n].mined # 0 => ~txs[n].dropped

LEMMA MinedKeptStep ==
  TypeOK /\ Calm /\ MinedKept /\ [Next]_vars => MinedKept'
<1> SUFFICES ASSUME TypeOK, Calm, MinedKept, [Next]_vars PROVE MinedKept'
  OBVIOUS
<1>1. CASE ChainStep
  <2>1. PICK n \in 1..sent :
          Drop(n) \/ \E b \in 1..txs[n].top, ok \in BOOLEAN : Mine(n, b, ok)
    BY <1>1 DEF ChainStep
  <2>2. n \in TxIds /\ txs[n] \in Tx
    BY TxIdsNat DEF TypeOK
  <2>3. \A m \in TxIds : m # n => txs'[m] = txs[m]
    BY <2>1 DEF Drop, Mine, TypeOK
  <2>4. txs'[n].mined # 0 => ~txs'[n].dropped
    <3>1. CASE Drop(n)
      <4>1. txs'[n] = [txs[n] EXCEPT !.dropped = TRUE] /\ txs[n].mined = 0
        BY <2>2, <3>1 DEF Drop, TypeOK
      <4> QED BY <2>2, <4>1 DEF Tx
    <3>2. CASE \E b \in 1..txs[n].top, ok \in BOOLEAN : Mine(n, b, ok)
      <4>1. PICK b \in 1..txs[n].top, ok \in BOOLEAN : Mine(n, b, ok)
        BY <3>2
      <4>2. /\ ~txs[n].dropped
            /\ txs'[n] = [[txs[n] EXCEPT !.mined = b] EXCEPT !.ok = ok]
        BY <2>2, <4>1 DEF Mine, TypeOK
      <4> QED BY <2>2, <4>2 DEF Tx
    <3> QED BY <2>1, <3>1, <3>2
  <2> QED BY <2>3, <2>4 DEF MinedKept
<1>2. CASE \E r \in Replicas : Resend(r)
  <2>1. PICK r \in Replicas : Resend(r)
    BY <1>2
  <2>2. PICK n : n = sched[r].tx
    OBVIOUS
  <2>3. \A m \in TxIds : m # n => txs'[m] = txs[m]
    BY <2>1, <2>2, ResendWork
  <2>4. \A m \in TxIds : txs'[m].mined = txs[m].mined
    BY <2>1, ResendWork
  <2>5. txs[n].mined = 0
    BY <2>1, <2>2 DEF Resend
  <2> QED BY <2>3, <2>4, <2>5 DEF MinedKept
<1>3. CASE \E r \in Replicas : \E s \in sched[r].queue : Broadcast(r, s)
  <2>1. PICK r \in Replicas : \E s \in sched[r].queue : Broadcast(r, s)
    BY <1>3
  <2>2. PICK n : n = sent + 1
    OBVIOUS
  <2>3. txs'[n].mined = 0 /\ \A m \in TxIds : m # n => txs'[m] = txs[m]
    BY <2>1, <2>2, BroadcastWork
  <2> QED BY <2>3 DEF MinedKept
<1>4. CASE txs' = txs
  BY <1>4 DEF MinedKept
<1>5. CASE \E r \in Replicas : ReceiptOk(r)
  BY <1>5 DEF ReceiptOk, MinedKept
<1> QED BY <1>1, <1>2, <1>3, <1>4, <1>5, MoneySteps

\* A step that changes one pull's state and nobody's user.
LEMMA OnePullMoves ==
  ASSUME NEW n \in TxIds,
         \A m \in TxIds : txs'[m].user = txs[m].user,
         \A m \in TxIds : m # n => LedgerState(m)' = LedgerState(m)
  PROVE  LedgerPulls' = [LedgerPulls EXCEPT ![n].state = LedgerState(n)']
<1>1. \A m \in TxIds :
        LedgerPulls'[m] = [user |-> txs[m].user, state |-> LedgerState(m)']
  BY DEF LedgerPulls
<1>2. \A m \in TxIds :
        LedgerPulls[m] = [user |-> txs[m].user, state |-> LedgerState(m)]
  BY DEF LedgerPulls
<1>3. DOMAIN LedgerPulls' = TxIds /\ DOMAIN LedgerPulls = TxIds
      /\ LedgerPulls' = [m \in TxIds |-> LedgerPulls'[m]]
  BY DEF LedgerPulls
<1> HIDE DEF LedgerPulls
<1> QED BY <1>1, <1>2, <1>3

\* If n is open after a step that moves no other pull, then its user had no
\* outstanding pull before.
LEMMA NoneOutstanding ==
  ASSUME TypeOK, CalmInv, CreditsSent', OneOpenPull', NEW n \in 1..sent', Open(n)',
         LedgerState(n) \notin {"open", "taken"}, sent' \in Nat, sent <= sent',
         \A m \in TxIds : m # n => txs'[m] = txs[m] /\ (CreditedTx(m)' <=> CreditedTx(m)),
         NEW u \in Users, u = txs'[n].user
  PROVE  Ledger!Outstanding(u) = {}
<1>1. SUFFICES ASSUME NEW m \in TxIds, txs[m].user = u,
                      LedgerState(m) \in {"open", "taken"}
               PROVE  FALSE
  BY DEF Ledger!Outstanding, LedgerPulls
<1>2. m # n /\ m \in 1..sent /\ Open(m)
  BY <1>1, StatesOfPulls DEF CalmInv, Open, LedgerStates
<1>3. m \in 1..sent' /\ Open(m)' /\ txs'[m].user = u
  BY <1>1, <1>2, TxIdsNat DEF Open, TypeOK
<1> QED BY <1>2, <1>3 DEF OneOpenPull

LEMMA LedgerInit == Init => Ledger!Init
<1> SUFFICES ASSUME Init PROVE Ledger!Init
  OBVIOUS
<1>1. CreditsSent /\ sent = 0
  BY DEF Init, CreditsSent
<1>2. \A n \in TxIds : LedgerState(n) = "unsent" /\ txs[n].user \in Users
  <2>1. \A n \in TxIds : txs[n] = NoTx
    BY DEF Init
  <2>2. NoTx.user \in Users
    BY ConstantRecords DEF Tx
  <2> QED BY <1>1, <2>1, <2>2, StatesOfPulls DEF LedgerStates
<1> QED BY <1>2 DEF Ledger!Init, LedgerPulls

LEMMA LedgerSend ==
  ASSUME IInv, CalmInv, CreditsSent', OneOpenPull', NEW r \in Replicas,
         NEW s \in sched[r].queue, Broadcast(r, s)
  PROVE  Ledger!Next
<1>1. PICK n, u : n = sent + 1 /\ u = s.user
  OBVIOUS
<1>2. /\ TypeOK /\ credited' = credited /\ u \in Users /\ sent \in Nat
      /\ LedgerStates /\ LedgerStates' /\ ~CreditedTx(n)
  BY <1>1, WorkType, StatesOfPulls, NeverBooked DEF Broadcast, IInv, TypeOK, Sub, CalmInv
<1>3. /\ sent' = n /\ n \in TxIds /\ (\A m \in TxIds : m # n => txs'[m] = txs[m])
      /\ txs'[n].user = u /\ txs'[n].mined = 0 /\ ~txs'[n].dropped
  BY <1>1, <1>2, BroadcastWork
<1>4. \A m : CreditedTx(m)' <=> CreditedTx(m)
  BY <1>2 DEF CreditedTx
<1>5. LedgerState(n) = "unsent" /\ LedgerState(n)' = "open" /\ Open(n)'
  BY <1>1, <1>2, <1>3, <1>4 DEF LedgerStates, Open
<1>6. \A m \in TxIds : m # n => LedgerState(m)' = LedgerState(m)
  BY <1>1, <1>2, <1>3, <1>4, TxIdsNat DEF LedgerStates
<1>7. Ledger!Outstanding(u) = {}
  BY <1>1, <1>2, <1>3, <1>4, <1>5, NoneOutstanding
<1>8. LedgerPulls' = [LedgerPulls EXCEPT ![n] = [user |-> u, state |-> "open"]]
  BY <1>3, <1>5, <1>6 DEF LedgerPulls
<1>9. LedgerPulls[n].state = "unsent"
  BY <1>3, <1>5 DEF LedgerPulls
<1> QED BY <1>2, <1>3, <1>7, <1>8, <1>9 DEF Ledger!Next, Ledger!Send

\* A step of one pull, from one state to another.
LEMMA Becoming ==
  ASSUME NEW n \in TxIds,
         \A m \in TxIds : txs'[m].user = txs[m].user,
         \A m \in TxIds : m # n => LedgerState(m)' = LedgerState(m),
         NEW a, NEW b, LedgerState(n) = a, LedgerState(n)' = b
  PROVE  Ledger!Becomes(n, a, b)
<1>1. LedgerPulls[n].state = a
  BY DEF LedgerPulls
<1>2. LedgerPulls' = [LedgerPulls EXCEPT ![n].state = b]
  BY OnePullMoves
<1> QED BY <1>1, <1>2 DEF Ledger!Becomes

LEMMA LedgerReplace ==
  ASSUME IInv, CalmInv, CreditsSent', OneOpenPull', NEW r \in Replicas, Resend(r)
  PROVE  [Ledger!Next]_LedgerPulls
<1>1. PICK n : n = sched[r].tx
  OBVIOUS
<1>2. /\ TypeOK /\ credited' = credited /\ sent' = sent /\ sent \in Nat
      /\ n \in 1..sent /\ n \in TxIds /\ LedgerStates /\ LedgerStates'
      /\ txs[n].mined = 0 /\ ~CreditedTx(n)
  <2>1. Busy(r) /\ credited' = credited /\ sent' = sent /\ txs[n].mined = 0
    BY <1>1 DEF Resend, Busy
  <2>2. ~CreditedTx(n)
    BY <2>1 DEF CalmInv, CreditsAreReal, CreditedTx, Paid
  <2> QED BY <1>1, <2>1, <2>2, CurrentRecord, StatesOfPulls DEF IInv, TypeOK, CalmInv
<1>3. /\ \A m \in TxIds : m # n => txs'[m] = txs[m]
      /\ txs'[n].user = txs[n].user /\ txs'[n].mined = 0
      /\ ~txs'[n].dropped
  <2>1. ~txs'[n].dropped
    BY <1>1, <1>2 DEF Resend, TypeOK, Tx
  <2> QED BY <1>1, <1>2, <2>1, ResendWork
<1>4. \A m : CreditedTx(m)' <=> CreditedTx(m)
  BY <1>2 DEF CreditedTx
<1>5. LedgerState(n) \in {"lost", "open"} /\ LedgerState(n)' = "open" /\ Open(n)'
  BY <1>2, <1>3, <1>4 DEF LedgerStates, Open
<1>6. \A m \in TxIds : m # n => LedgerState(m)' = LedgerState(m)
  BY <1>2, <1>3, <1>4 DEF LedgerStates
<1>7. CASE LedgerState(n) = "lost"
  <2>1. Ledger!Becomes(n, "lost", "open")
    BY <1>2, <1>3, <1>5, <1>6, <1>7, Becoming
  <2>2. PICK u : u = txs[n].user
    OBVIOUS
  <2>3. u \in Users /\ LedgerPulls[n].user = u
    BY <1>2, <2>2 DEF TypeOK, Tx, LedgerPulls
  <2>4. Ledger!Outstanding(u) = {}
    <3>1. n \in 1..sent' /\ sent' \in Nat /\ sent <= sent' /\ u = txs'[n].user
      BY <1>2, <1>3, <2>2
    <3>2. LedgerState(n) \notin {"open", "taken"} /\ Open(n)'
      BY <1>5, <1>7
    <3> QED BY <1>2, <1>3, <1>4, <2>3, <3>1, <3>2, NoneOutstanding
  <2> QED BY <1>2, <2>1, <2>3, <2>4 DEF Ledger!Next, Ledger!Replace
<1>8. CASE LedgerState(n) = "open"
  BY <1>3, <1>5, <1>6, <1>8 DEF LedgerPulls
<1> QED BY <1>5, <1>7, <1>8

LEMMA LedgerChain ==
  ASSUME IInv, CalmInv, CreditsSent', ChainStep
  PROVE  Ledger!Next
<1>1. PICK n \in 1..sent :
        Drop(n) \/ \E b \in 1..txs[n].top, ok \in BOOLEAN : Mine(n, b, ok)
  BY DEF ChainStep
<1>2. /\ TypeOK /\ credited' = credited /\ sent' = sent /\ n \in TxIds
      /\ LedgerStates /\ LedgerStates'
      /\ txs[n].mined = 0 /\ ~txs[n].dropped /\ ~CreditedTx(n)
  <2>1. /\ credited' = credited /\ sent' = sent
        /\ txs[n].mined = 0 /\ ~txs[n].dropped
    BY <1>1 DEF Drop, Mine
  <2>2. ~CreditedTx(n)
    BY <2>1 DEF CalmInv, CreditsAreReal, CreditedTx, Paid
  <2> QED BY <2>1, <2>2, TxIdsNat, StatesOfPulls DEF IInv, CalmInv
<1>3. \A m : CreditedTx(m)' <=> CreditedTx(m)
  BY <1>2 DEF CreditedTx
<1>4. /\ \A m \in TxIds : m # n => txs'[m] = txs[m]
      /\ \A m \in TxIds : txs'[m].user = txs[m].user
      /\ txs'[n].dropped \/ (txs'[n].mined # 0 /\ txs'[n].dropped = txs[n].dropped)
  <2>1. CASE Drop(n)
    BY <1>2, <2>1 DEF Drop, TypeOK, Tx
  <2>2. CASE \E b \in 1..txs[n].top, ok \in BOOLEAN : Mine(n, b, ok)
    <3>1. PICK b \in 1..txs[n].top, ok \in BOOLEAN : Mine(n, b, ok)
      BY <2>2
    <3>2. b # 0
      OBVIOUS
    <3> QED BY <1>2, <3>1, <3>2 DEF Mine, TypeOK, Tx
  <2> QED BY <1>1, <2>1, <2>2
<1>5. PICK b \in {"lost", "taken", "refused"} :
        LedgerState(n) = "open" /\ LedgerState(n)' = b
  BY <1>2, <1>3, <1>4 DEF LedgerStates
<1>6. \A m \in TxIds : m # n => LedgerState(m)' = LedgerState(m)
  BY <1>2, <1>3, <1>4 DEF LedgerStates
<1>7. Ledger!Becomes(n, "open", b)
  BY <1>2, <1>4, <1>5, <1>6, Becoming
<1> QED BY <1>2, <1>5, <1>7 DEF Ledger!Next, Ledger!Lose, Ledger!Take, Ledger!Refuse

LEMMA LedgerBook ==
  ASSUME IInv, CalmInv, Unbooked, MinedKept, CreditsSent', NEW r \in Replicas, ReceiptOk(r)
  PROVE  Ledger!Next
<1>1. PICK n, c : n = sched[r].tx /\ c = [tx |-> n, as |-> sched[r].kind]
  OBVIOUS
<1>2. /\ credited' = credited \cup {c} /\ c.tx = n /\ sent' = sent /\ txs' = txs
      /\ Busy(r) /\ txs[n].mined # 0 /\ txs[n].ok
  BY <1>1 DEF ReceiptOk, Credit, Busy, HasReceipt
<1>3. /\ n \in 1..sent /\ n \in TxIds /\ LedgerStates /\ LedgerStates'
      /\ ~CreditedTx(n)
  BY <1>1, <1>2, CurrentRecord, StatesOfPulls DEF CalmInv, Unbooked, WorkUnbooked
<1>4. \A m : CreditedTx(m)' <=> CreditedTx(m) \/ m = n
  BY <1>2 DEF CreditedTx
<1>5. LedgerState(n) = "taken" /\ LedgerState(n)' = "booked"
  <2>1. ~txs[n].dropped
    BY <1>2, <1>3 DEF MinedKept
  <2> QED BY <1>2, <1>3, <1>4, <2>1 DEF LedgerStates
<1>6. \A m \in TxIds : m # n => LedgerState(m)' = LedgerState(m)
  BY <1>2, <1>3, <1>4 DEF LedgerStates
<1>7. Ledger!Becomes(n, "taken", "booked")
  BY <1>2, <1>3, <1>5, <1>6, Becoming
<1> QED BY <1>3, <1>7 DEF Ledger!Next, Ledger!Book

(* Seen from the customer's account the pull cycle is PullLedger: each     *)
(* step of any replica, of the chain, of an API call or of a crash is one  *)
(* step of the ledger or leaves it alone.                                  *)
THEOREM LedgerIsImplemented ==
  ASSUME Calm
  PROVE  Spec => ImplementsLedger
<1>1. /\ IInv /\ CalmInv /\ Unbooked /\ MinedKept
      /\ CreditsSent' /\ OneOpenPull' /\ [Next]_vars
      => [Ledger!Next]_LedgerPulls
  <2>1. SUFFICES ASSUME IInv, CalmInv, Unbooked, MinedKept, CreditsSent', OneOpenPull',
                        [Next]_vars
                 PROVE  [Ledger!Next]_LedgerPulls
    OBVIOUS
  <2>2. CASE txs' = txs /\ sent' = sent /\ credited' = credited
    <3>1. \A n : LedgerState(n)' = LedgerState(n)
      BY <2>2 DEF LedgerState, CreditedTx
    <3> QED BY <2>2, <3>1 DEF LedgerPulls
  <2>3. CASE ChainStep
    BY <2>1, <2>3, LedgerChain
  <2>4. CASE \E r \in Replicas :
               Resend(r) \/ ReceiptOk(r) \/ \E s \in sched[r].queue : Broadcast(r, s)
    BY <2>1, <2>4, LedgerReplace, LedgerBook, LedgerSend
  <2> QED BY <2>1, <2>2, <2>3, <2>4, MoneySteps
<1>2. Init => MinedKept
  BY DEF Init, MinedKept, NoTx
<1>3. IInv /\ MinedKept /\ [Next]_vars => MinedKept'
  BY MinedKeptStep DEF IInv
<1>4. CalmInv => CreditsSent
  BY DEF CalmInv
<1> QED BY <1>1, <1>2, <1>3, <1>4, LedgerInit, OneOpen, UnbookedInvariant, PTL
       DEF Spec, ImplementsLedger, Ledger!Spec
=============================================================================

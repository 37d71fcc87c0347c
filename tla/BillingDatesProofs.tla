-------------------------- MODULE BillingDatesProofs --------------------------
(***************************************************************************)
(* The dates of Billing's regular pulls.  Without the faults of            *)
(* BillingCalmProofs the date a record asks for next lies behind all that  *)
(* its subscription was charged for, so no date is charged twice.  If also *)
(* all plans have one period and prorated pulls do not fail, no period is. *)
(***************************************************************************)
EXTENDS BillingCalmProofs

Proration == "proration" \in Faults

OnePeriod == \A o, p \in PlanOptions : o.period = p.period

\* How far apart the dates are: a period, unless plans differ in theirs or the
\* retry of a prorated pull may shorten one.
Gap == IF OnePeriod /\ ~Proration
       THEN (CHOOSE o \in PlanOptions : TRUE).period ELSE 1

-----------------------------------------------------------------------------
(* The inductive invariant *)

Reverted(n) == txs[n].mined # 0 /\ ~txs[n].ok

\* A regular pull of the user's current subscription that was not refused.
Live(u, m) ==
  /\ m \in 1..sent /\ txs[m].user = u /\ txs[m].kind = "regular"
  /\ txs[m].epoch = epoch[u] /\ ~Reverted(m)

\* Date t is not before what pull m was for, and after it once m is recorded;
\* a date beyond the clock is never reached.
Behind(t, m) ==
  t > MaxTime \/ t >= txs[m].due + (IF CreditedTx(m) THEN Gap ELSE 0)

Follows(t, u) == \A m \in 1..sent : Live(u, m) => Behind(t, m)

\* The periods recorded as paid are over.
PaidUp(u) ==
  \A m \in 1..sent : Live(u, m) /\ CreditedTx(m) => txs[m].due + Gap <= now

Persisting(u) == \E r \in Replicas : sched[r].pc = "persist" /\ sched[r].sub.user = u

\* A stored record, unless a write of it is just being prepared.
RecordOK(u) ==
  \A s : s = store[u] =>
    /\ s.inflight.tx # 0 /\ txs[s.inflight.tx].kind = "regular" => PaidUp(u)
    /\ Persisting(u) \/ Follows(s.next, u)

\* The copies a replica has not come to: due, and their hash is not outdated.
QueueOK(r) ==
  \A s \in sched[r].queue :
    Score(s) <= now /\ s.inflight = store[s.user].inflight /\ Follows(s.next, s.user)

\* The copy and the pull a replica has in hand.
InHandOK(r) ==
  Busy(r) =>
    /\ sched[r].plan \in PlanOptions
    /\ \A s, n : s = sched[r].sub /\ n = sched[r].tx =>
         /\ Follows(s.next, s.user)
         /\ txs[n].kind = "regular" => PaidUp(s.user)
         /\ sched[r].kind = "pending" => txs[n].kind = "pending"

WorkOK(r) == (sched[r].pc = "idle" => sched[r].queue = {}) /\ QueueOK(r) /\ InHandOK(r)

HistoryOK ==
  /\ plans \in [Plans -> PlanOptions] /\ now <= MaxTime
  /\ \A n \in 1..sent :
       /\ txs[n].epoch <= epoch[txs[n].user]
       /\ txs[n].kind = "regular" => txs[n].due <= now
       /\ txs[n].kind = "pending" /\ Reverted(n) => Proration
       /\ \E o \in PlanOptions : txs[n].period = o.period

\* Two regular pulls of one subscription are for dates a charge apart, unless
\* the first was refused.
Apart ==
  \A m, n \in 1..sent :
     /\ m < n /\ ~Reverted(m)
     /\ txs[m].kind = "regular" /\ txs[n].kind = "regular"
     /\ txs[m].user = txs[n].user /\ txs[m].epoch = txs[n].epoch
     => txs[n].due >= txs[m].due + Gap

DatesInv ==
  HistoryOK /\ Apart /\ (\A u \in Users : RecordOK(u)) /\ (\A r \in Replicas : WorkOK(r))
-----------------------------------------------------------------------------
(* Dates *)

LEMMA GapType ==
  /\ Gap \in Nat /\ Gap > 0 /\ \A o \in PlanOptions : o.period >= Gap
  /\ Proration => Gap = 1
<1>1. \A o \in PlanOptions : o.period \in Nat /\ o.period > 0
  BY ConstantsAssumption DEF ConstantsAssumption, Plan
<1>2. (CHOOSE o \in PlanOptions : TRUE) \in PlanOptions
  BY ConstantsAssumption DEF ConstantsAssumption
<1> QED BY <1>1, <1>2 DEF Gap, OnePeriod

LEMMA TxFields ==
  ASSUME TypeOK
  PROVE  /\ sent \in Nat /\ MaxTime \in Nat /\ now \in Nat
         /\ \A n \in 1..sent :
              /\ n \in TxIds /\ txs[n].user \in Users /\ txs[n].due \in Nat
              /\ txs[n].epoch \in Nat /\ txs[n].kind \in {"regular", "pending"}
         /\ \A u \in Users : epoch[u] \in Nat /\ store[u].next \in Nat
<1>1. sent \in Nat /\ \A n \in 1..sent : n \in TxIds
  BY ConstantsAssumption DEF TypeOK, TxIds, ConstantsAssumption
<1>2. \A n \in TxIds : txs[n] \in Tx
  BY DEF TypeOK
<1>3. \A u \in Users : store[u] \in Sub
  BY DEF TypeOK
<1> QED BY <1>1, <1>2, <1>3, ConstantsAssumption DEF TypeOK, Tx, Sub, ConstantsAssumption

\* A later date follows too.
LEMMA LaterFollows ==
  ASSUME TypeOK, NEW u \in Users, NEW t \in Nat, NEW v \in Nat, t <= v, Follows(t, u)
  PROVE  Follows(v, u)
<1>1. \A m \in 1..sent : txs[m].due \in Nat
  BY TxFields
<1> QED BY <1>1, TxFields, GapType DEF Follows, Behind

\* A date that has come is behind what was recorded as paid.
LEMMA DuePaidUp ==
  ASSUME TypeOK, HistoryOK, NEW u \in Users, NEW t \in Nat, t <= now, Follows(t, u)
  PROVE  PaidUp(u)
<1>1. \A m \in 1..sent : txs[m].due \in Nat
  BY TxFields
<1> QED BY <1>1, TxFields, GapType DEF Follows, Behind, PaidUp, HistoryOK

\* What is put off to after the clock follows a paid-up subscription.
LEMMA PaidUpFollows ==
  ASSUME TypeOK, HistoryOK, NEW u \in Users, NEW t \in Nat, now <= t, PaidUp(u)
  PROVE  Follows(t, u)
<1>1. \A m \in 1..sent : txs[m].due \in Nat
  BY TxFields
<1> QED BY <1>1, TxFields, GapType DEF Follows, Behind, PaidUp, HistoryOK, Live

\* Without a gap to keep, every retry does.
LEMMA RetryFollows ==
  ASSUME TypeOK, HistoryOK, Proration, NEW u \in Users, NEW t \in Nat, now < t
  PROVE  Follows(t, u)
<1>1. \A m \in 1..sent : txs[m].due \in Nat
  BY TxFields
<1> QED BY <1>1, TxFields, GapType DEF Follows, Behind, HistoryOK, Live

\* The date of a cancelled record is never reached.
LEMMA FarFollows ==
  ASSUME TypeOK, NEW u \in Users
  PROVE  Follows(now + Century, u)
BY TxFields, ConstantsAssumption DEF Follows, Behind, ConstantsAssumption

\* The dates of the records the scheduler writes.
LEMMA FarDate ==
  ASSUME NEW s \in Sub
  PROVE  Cancelled(s).next = now + Century
<1> DEFINE far == now + Century
<1>1. Cancelled(s) = [s EXCEPT !.status = "cancelled", !.next = far, !.inflight = NoHash]
  BY DEF Cancelled
<1> HIDE DEF far
<1>2. Cancelled(s).next = far
  BY <1>1 DEF Sub
<1> QED BY <1>2 DEF far

LEMMA FailedDate ==
  ASSUME now \in Nat, NEW s \in Sub, NEW side \in {"operator", "user"}
  PROVE  Failed(s, side).next \in Nat /\ now < Failed(s, side).next
<1> DEFINE attempts == s.attempts + 1
           soon == now + OpBackoff
           later == now + Backoffs[attempts]
<1>1. attempts \in Nat /\ attempts > 0 /\ OpBackoff \in Nat \ {0} /\ Century \in Nat \ {0}
  BY ConstantsAssumption DEF Sub, ConstantsAssumption
<1>2. CASE side = "operator"
  <2>1. Failed(s, side) = [s EXCEPT !.inflight = NoHash, !.next = soon]
    BY <1>2 DEF Failed
  <2>2. soon \in Nat /\ now < soon
    BY <1>1
  <2> HIDE DEF soon
  <2>3. Failed(s, side).next = soon
    BY <2>1 DEF Sub
  <2> QED BY <2>2, <2>3
<1>3. CASE side = "user" /\ attempts > Len(Backoffs)
  <2> DEFINE t == [s EXCEPT !.attempts = attempts]
  <2>1. Failed(s, side) = Cancelled(t)
    BY <1>3 DEF Failed
  <2> HIDE DEF attempts
  <2>2. t \in Sub
    BY <1>1 DEF Sub
  <2> HIDE DEF t
  <2> QED BY <1>1, <2>1, <2>2, FarDate
<1>4. CASE side = "user" /\ ~(attempts > Len(Backoffs))
  <2>1. Backoffs[attempts] \in Nat \ {0}
    BY <1>1, <1>4, ConstantsAssumption DEF ConstantsAssumption
  <2>2. later \in Nat /\ now < later
    BY <2>1
  <2>3. Failed(s, side) = [s EXCEPT !.inflight = NoHash, !.attempts = attempts,
                                    !.status = "past_due", !.next = later]
    BY <1>4 DEF Failed
  <2> HIDE DEF later, attempts
  <2>4. Failed(s, side).next = later
    BY <2>3 DEF Sub
  <2> QED BY <2>2, <2>4
<1> QED BY <1>2, <1>3, <1>4

LEMMA SettledDate ==
  ASSUME TypeOK, NEW r \in Replicas, sched[r].plan \in PlanOptions
  PROVE  /\ Settled(r).next \in Nat
         /\ sched[r].kind = "pending" => Settled(r).next = sched[r].sub.next
         /\ sched[r].kind # "pending" => Settled(r).next >= sched[r].sub.next + Gap
<1> DEFINE s == sched[r].sub
           due == s.next + sched[r].plan.period
<1>1. s \in Sub /\ s.next \in Nat /\ sched[r].plan.period \in Nat
  BY WorkType DEF Sub, Plan
<1>2. due \in Nat /\ due >= s.next + Gap
  BY <1>1, GapType
<1>3. CASE sched[r].kind = "pending"
  <2>1. Settled(r).next = s.next
    BY <1>1, <1>3 DEF Settled, PendingSettled, Sub
  <2> QED BY <1>1, <1>3, <2>1
<1>4. CASE sched[r].kind # "pending"
  <2>1. Settled(r) = [s EXCEPT !.next = due, !.status = "active", !.attempts = 0,
                               !.last = now, !.inflight = NoHash]
    BY <1>4 DEF Settled, Charged
  <2> HIDE DEF due
  <2>2. Settled(r).next = due
    BY <1>1, <2>1 DEF Sub
  <2> QED BY <1>2, <1>4, <2>2
<1> QED BY <1>3, <1>4

\* A new subscription was not charged for anything yet.
LEMMA FreshFollows ==
  ASSUME TypeOK, HistoryOK, NEW u \in Users, epoch'[u] = epoch[u] + 1,
         txs' = txs, sent' = sent
  PROVE  PaidUp(u)' /\ \A t : Follows(t, u)'
<1>1. \A m \in 1..sent : ~Live(u, m)'
  BY TxFields DEF HistoryOK, Live
<1> QED BY <1>1 DEF PaidUp, Follows
-----------------------------------------------------------------------------
(* What steps leave as it is *)

\* The pulls stay what they were sent for; which of them get refused.
PullsKept ==
  /\ sent' = sent
  /\ \A n \in 1..sent :
       /\ txs'[n].user = txs[n].user /\ txs'[n].kind = txs[n].kind
       /\ txs'[n].due = txs[n].due /\ txs'[n].epoch = txs[n].epoch
       /\ txs'[n].period = txs[n].period
       /\ Reverted(n) => Reverted(n)'
       /\ Reverted(n)' => Reverted(n) \/ txs[n].kind = "regular" \/ Proration

LEMMA SamePulls == ASSUME txs' = txs, sent' = sent PROVE PullsKept
BY DEF PullsKept, Reverted

\* What is said of the dates of user u stays true.
DatesKept(u) ==
  /\ \A t : Follows(t, u) => Follows(t, u)'
  /\ PaidUp(u) => PaidUp(u)'

LEMMA KeepsDates ==
  ASSUME TypeOK, NEW u \in Users, PullsKept, epoch'[u] = epoch[u],
         now' \in Nat, now <= now',
         \A m \in 1..sent : Live(u, m) => (CreditedTx(m)' <=> CreditedTx(m))
  PROVE  DatesKept(u)
<1>1. \A m \in 1..sent :
        /\ txs[m].due \in Nat /\ txs'[m].due = txs[m].due
        /\ Live(u, m)' => Live(u, m)
  BY TxFields DEF PullsKept, Live
<1>2. sent' = sent /\ now \in Nat
  BY TxFields DEF PullsKept
<1>3. ASSUME NEW t, Follows(t, u) PROVE Follows(t, u)'
  BY <1>1, <1>2, <1>3 DEF Follows, Behind
<1>4. ASSUME PaidUp(u) PROVE PaidUp(u)'
  <2>1. SUFFICES ASSUME NEW m \in 1..sent, Live(u, m)', CreditedTx(m)'
                 PROVE  txs[m].due + Gap <= now'
    BY <1>1, <1>2 DEF PaidUp
  <2>2. txs[m].due + Gap <= now
    BY <1>1, <1>4, <2>1 DEF PaidUp
  <2> QED BY <1>1, <1>2, <2>2, GapType
<1> QED BY <1>3, <1>4 DEF DatesKept

LEMMA HistoryKept ==
  ASSUME TypeOK, HistoryOK, Apart, PullsKept, plans' \in [Plans -> PlanOptions],
         now' \in Nat, now <= now', now' <= MaxTime, \A u \in Users : epoch'[u] \in Nat /\ epoch[u] <= epoch'[u]
  PROVE  HistoryOK' /\ Apart'
<1>1. \A n \in 1..sent :
        /\ txs[n].user \in Users /\ txs[n].due \in Nat /\ txs[n].epoch \in Nat
        /\ epoch[txs[n].user] \in Nat
  BY TxFields
<1>2. HistoryOK'
  <2>1. plans' \in [Plans -> PlanOptions] /\ now' <= MaxTime
    BY DEF HistoryOK
  <2>2. ASSUME NEW n \in 1..sent
        PROVE  /\ txs'[n].epoch <= epoch'[txs'[n].user]
               /\ txs'[n].kind = "regular" => txs'[n].due <= now'
               /\ txs'[n].kind = "pending" /\ Reverted(n)' => Proration
               /\ \E o \in PlanOptions : txs'[n].period = o.period
    BY <1>1, <2>2, TxFields DEF HistoryOK, PullsKept
  <2> QED BY <2>1, <2>2 DEF HistoryOK, PullsKept
<1>3. Apart'
  BY DEF Apart, PullsKept
<1> QED BY <1>2, <1>3

LEMMA RecordKept ==
  ASSUME IInv, NEW u \in Users, RecordOK(u), PullsKept, DatesKept(u),
         store'[u].inflight = store[u].inflight, store'[u].next = store[u].next,
         Persisting(u) => Persisting(u)'
  PROVE  RecordOK(u)'
<1>1. store[u].inflight.tx # 0 => store[u].inflight.tx \in 1..sent
  BY DEF IInv, RefsOK, RefOK
<1> QED BY <1>1 DEF RecordOK, PullsKept, DatesKept

LEMMA QueueKept ==
  ASSUME NEW r \in Replicas, QueueOK(r), sched'[r].queue \subseteq sched[r].queue,
         TypeOK, now' \in Nat, now <= now',
         \A s \in sched'[r].queue :
           store'[s.user].inflight = store[s.user].inflight /\ DatesKept(s.user)
  PROVE  QueueOK(r)'
<1>1. SUFFICES ASSUME NEW s \in sched'[r].queue
               PROVE  /\ Score(s) <= now'
                      /\ s.inflight = store'[s.user].inflight /\ Follows(s.next, s.user)'
  BY DEF QueueOK, Score
<1>2. Score(s) \in Nat /\ now \in Nat /\ Score(s) <= now
  <2>1. s \in Sub /\ now \in Nat
    BY <1>1, WorkType DEF TypeOK
  <2> QED BY <1>1, <2>1 DEF QueueOK, Score, Sub
<1> QED BY <1>1, <1>2 DEF QueueOK, DatesKept

LEMMA InHandKept ==
  ASSUME IInv, NEW r \in Replicas, InHandOK(r), PullsKept,
         Busy(r)' => Busy(r), sched'[r].plan = sched[r].plan,
         sched'[r].sub.next = sched[r].sub.next, sched'[r].sub.user = sched[r].sub.user,
         sched'[r].tx = sched[r].tx, sched'[r].kind = sched[r].kind,
         \A u \in Users : u = sched[r].sub.user => DatesKept(u)
  PROVE  InHandOK(r)'
<1>1. Busy(r) => sched[r].tx \in 1..sent
  BY CurrentRecord
<1>2. PICK s, n : s = sched[r].sub /\ n = sched[r].tx
  OBVIOUS
<1>3. Busy(r) => /\ Follows(s.next, s.user) /\ (txs[n].kind = "regular" => PaidUp(s.user))
                 /\ (sched[r].kind = "pending" => txs[n].kind = "pending")
                 /\ sched[r].plan \in PlanOptions
  BY <1>2 DEF InHandOK
<1>4. Busy(r) => DatesKept(s.user)
  BY <1>2, CurrentRecord
<1>5. Busy(r) => /\ Follows(s.next, s.user)'
                 /\ (txs'[n].kind = "regular" => PaidUp(s.user)')
                 /\ (sched[r].kind = "pending" => txs'[n].kind = "pending")
  BY <1>1, <1>2, <1>3, <1>4 DEF DatesKept, PullsKept
<1>6. SUFFICES ASSUME Busy(r)', NEW t, t = sched'[r].sub
               PROVE  /\ sched'[r].plan \in PlanOptions /\ Follows(t.next, t.user)'
                      /\ txs'[n].kind = "regular" => PaidUp(t.user)'
                      /\ sched'[r].kind = "pending" => txs'[n].kind = "pending"
  BY <1>2 DEF InHandOK
<1>7. t.next = s.next /\ t.user = s.user
  BY <1>2, <1>6
<1> QED BY <1>3, <1>5, <1>6, <1>7

\* While a replica is in a tick, no other one has copies.
LEMMA OthersIdle ==
  ASSUME CalmInv, DatesInv, NEW r \in Replicas, sched[r].pc # "idle", OthersWork(r)
  PROVE  \A q \in Replicas : q # r => WorkOK(q)' /\ sched[q].pc = "idle"
<1>1. ASSUME NEW q \in Replicas, q # r PROVE WorkOK(q)' /\ sched[q].pc = "idle"
  <2>1. lock = r /\ sched[q].pc = "idle" /\ sched[q].queue = {} /\ sched'[q] = sched[q]
    BY <1>1 DEF CalmInv, HoldsLock, DatesInv, WorkOK, OthersWork
  <2> QED BY <2>1 DEF WorkOK, QueueOK, InHandOK, Busy
<1> QED BY <1>1
-----------------------------------------------------------------------------
(* The steps *)

\* The chain, the clock and what API calls do besides writing a record.
LEMMA DatesWorld ==
  ASSUME IInv, DatesInv, PullsKept, store' = store, sched' = sched,
         credited' = credited, epoch' = epoch, plans' \in [Plans -> PlanOptions],
         now' \in Nat, now <= now', now' <= MaxTime
  PROVE  DatesInv'
<1>1. TypeOK /\ \A u \in Users : epoch'[u] \in Nat /\ epoch[u] <= epoch'[u]
  BY TxFields DEF IInv
<1>2. \A u \in Users : DatesKept(u)
  BY <1>1, KeepsDates DEF CreditedTx
<1>3. HistoryOK' /\ Apart'
  BY <1>1, HistoryKept DEF DatesInv
<1>4. \A u \in Users : RecordOK(u)'
  BY <1>2, RecordKept DEF DatesInv, Persisting
<1>5. ASSUME NEW r \in Replicas PROVE WorkOK(r)'
  <2>1. \A s \in sched[r].queue : DatesKept(s.user)
    BY <1>1, <1>2, WorkType DEF Sub
  <2>2. QueueOK(r)'
    BY <1>1, <2>1, QueueKept DEF DatesInv, WorkOK
  <2>3. InHandOK(r)'
    BY <1>2, InHandKept DEF DatesInv, WorkOK, Busy
  <2> QED BY <2>2, <2>3 DEF DatesInv, WorkOK
<1> QED BY <1>3, <1>4, <1>5 DEF DatesInv

\* What all steps of a replica inside its tick leave to show.
LEMMA DatesReplica ==
  ASSUME IInv, CalmInv, DatesInv, NEW r \in Replicas, OthersWork(r),
         \A q \in Replicas : q # r => sched[q].pc = "idle",
         WorkOK(r)', \A u \in Users : RecordOK(u)', HistoryOK', Apart'
  PROVE  DatesInv'
<1>1. ASSUME NEW q \in Replicas, q # r PROVE WorkOK(q)'
  <2>1. sched'[q].pc = "idle" /\ sched'[q].queue = {}
    BY <1>1 DEF DatesInv, WorkOK, OthersWork
  <2> QED BY <2>1 DEF WorkOK, QueueOK, InHandOK, Busy
<1> QED BY <1>1 DEF DatesInv

\* A replica goes on without writing.
LEMMA DatesReads ==
  ASSUME IInv, CalmInv, DatesInv, NEW r \in Replicas, OthersWork(r),
         \A q \in Replicas : q # r => sched[q].pc = "idle",
         PullsKept, store' = store, credited' = credited, epoch' = epoch,
         plans' = plans, now' = now,
         sched[r].pc = "persist" => sched'[r].pc = "persist",
         sched'[r].sub.user = sched[r].sub.user \/ sched[r].pc # "persist",
         WorkOK(r)'
  PROVE  DatesInv'
<1>1. TypeOK /\ (\A u \in Users : epoch'[u] \in Nat /\ epoch[u] <= epoch'[u])
      /\ now \in Nat /\ now <= MaxTime /\ plans \in [Plans -> PlanOptions]
  BY TxFields DEF IInv, DatesInv, HistoryOK
<1>2. \A u \in Users : DatesKept(u)
  BY <1>1, KeepsDates DEF CreditedTx
<1>3. HistoryOK' /\ Apart'
  BY <1>1, HistoryKept DEF DatesInv
<1>4. \A u \in Users : Persisting(u) => Persisting(u)'
  BY DEF Persisting, OthersWork
<1>5. \A u \in Users : RecordOK(u)'
  BY <1>2, <1>4, RecordKept DEF DatesInv
<1> QED BY <1>3, <1>5, DatesReplica

\* A replica writes the record of the pull it gives up, without a hash.
LEMMA DatesWrite ==
  ASSUME IInv, CalmInv, DatesInv, NEW r \in Replicas, OthersWork(r),
         sched[r].pc \notin {"idle", "persist"}, sched'[r].pc = "loop",
         NEW rec \in Sub, store' = [store EXCEPT ![rec.user] = rec],
         rec.inflight = NoHash, Follows(rec.next, rec.user)',
         txs' = txs, sent' = sent, epoch' = epoch, plans' = plans, now' = now,
         \A s \in sched'[r].queue : s \in sched[r].queue /\ s.user # rec.user,
         \A m \in 1..sent : txs[m].user # rec.user => (CreditedTx(m)' <=> CreditedTx(m))
  PROVE  DatesInv'
<1>1. /\ TypeOK /\ (\A u \in Users : epoch'[u] \in Nat /\ epoch[u] <= epoch'[u])
      /\ now \in Nat /\ now <= MaxTime /\ plans \in [Plans -> PlanOptions]
      /\ rec.user \in Users /\ PullsKept
  BY TxFields, SubFields, SamePulls DEF IInv, DatesInv, HistoryOK
<1>2. /\ store'[rec.user] = rec
      /\ \A u \in Users : u # rec.user => store'[u] = store[u]
  BY <1>1 DEF TypeOK
<1>3. \A u \in Users : u # rec.user => DatesKept(u)
  <2>1. \A u \in Users : u # rec.user =>
          \A m \in 1..sent : Live(u, m) => (CreditedTx(m)' <=> CreditedTx(m))
    BY DEF Live
  <2> QED BY <1>1, <2>1, KeepsDates
<1>4. HistoryOK' /\ Apart'
  BY <1>1, HistoryKept DEF DatesInv
<1>5. \A q \in Replicas : q # r => sched[q].pc = "idle"
  BY OthersIdle
<1>6. \A u \in Users : ~Persisting(u)
  BY <1>5 DEF Persisting
<1>7. ASSUME NEW u \in Users PROVE RecordOK(u)'
  <2>1. CASE u = rec.user
    BY <1>2, <2>1 DEF RecordOK, NoHash
  <2>2. CASE u # rec.user
    BY <1>1, <1>2, <1>3, <1>6, <2>2, RecordKept DEF DatesInv
  <2> QED BY <2>1, <2>2
<1>8. WorkOK(r)'
  <2>1. \A s \in sched'[r].queue :
          store'[s.user].inflight = store[s.user].inflight /\ DatesKept(s.user)
    BY <1>1, <1>2, <1>3, WorkType DEF Sub
  <2>2. QueueOK(r)'
    BY <1>1, <2>1, QueueKept DEF DatesInv, WorkOK
  <2> QED BY <2>2 DEF WorkOK, InHandOK, Busy
<1> QED BY <1>4, <1>5, <1>7, <1>8, DatesReplica

LEMMA DatesTick ==
  ASSUME IInv, Calm, CalmInv, DatesInv, NEW r \in Replicas,
         StartTick(r) \/ EndTick(r) \/ Crash(r)
  PROVE  DatesInv'
<1>1. TypeOK /\ Free \notin Replicas
  BY ConstantsAssumption DEF IInv, ConstantsAssumption
<1>2. /\ OthersWork(r) /\ store' = store /\ plans' = plans /\ PullsKept
      /\ now' = now /\ credited' = credited /\ epoch' = epoch
  BY <1>1, TickWork, SamePulls
<1>3. sched[r].pc # "persist"
  BY DEF StartTick, EndTick, Crash, Calm
<1>4. CASE StartTick(r)
  <2>1. \A q \in Replicas : sched[q].pc = "idle"
    BY <1>1, <1>4 DEF StartTick, CalmInv, HoldsLock
  <2>2. \A u \in Users : DatesKept(u)
    BY <1>1, <1>2, TxFields, KeepsDates DEF CreditedTx
  <2>3. ASSUME NEW s \in sched'[r].queue
        PROVE  /\ Score(s) <= now /\ s.inflight = store[s.user].inflight
               /\ Follows(s.next, s.user)'
    <3>1. PICK u \in Users : s = store[u] /\ Score(store[u]) <= now
      BY <1>1, <1>4, <2>3, TickWork DEF DueBefore, DueSet
    <3>2. s.user = u
      BY <1>1, <3>1 DEF TypeOK
    <3>3. Follows(s.next, u)
      BY <2>1, <3>1 DEF DatesInv, RecordOK, Persisting
    <3> QED BY <2>2, <3>1, <3>2, <3>3 DEF DatesKept
  <2>4. sched'[r].pc = "loop"
    BY <1>1, <1>4, TickWork
  <2>5. WorkOK(r)'
    BY <1>2, <2>3, <2>4 DEF WorkOK, QueueOK, InHandOK, Busy, Score
  <2> QED BY <1>2, <1>3, <2>1, <2>5, DatesReads
<1>5. CASE EndTick(r) \/ Crash(r)
  <2>1. sched[r].pc # "idle"
    BY <1>5 DEF EndTick, Crash
  <2>2. sched'[r].pc = "idle" /\ sched'[r].queue = {}
    BY <1>1, <1>5, TickWork
  <2>3. WorkOK(r)'
    BY <2>2 DEF WorkOK, QueueOK, InHandOK, Busy
  <2>4. \A q \in Replicas : q # r => sched[q].pc = "idle"
    BY <1>2, <2>1, OthersIdle
  <2> QED BY <1>2, <1>3, <2>3, <2>4, DatesReads
<1> QED BY <1>4, <1>5

LEMMA DatesResolve ==
  ASSUME IInv, CalmInv, DatesInv, NEW r \in Replicas, NEW s \in sched[r].queue,
         StartResolve(r, s)
  PROVE  DatesInv'
<1>1. /\ TypeOK /\ sched[r].pc = "loop" /\ s.inflight # NoHash /\ s \in Sub
      /\ s.user \in Users /\ s.plan \in Plans
  BY NextRecord DEF IInv, StartResolve, Takes, Sub
<1>2. /\ store' = store /\ plans' = plans /\ txs' = txs /\ sent' = sent
      /\ now' = now /\ credited' = credited /\ epoch' = epoch
  BY DEF StartResolve
<1>3. PullsKept /\ \A u \in Users : DatesKept(u)
  BY <1>1, <1>2, SamePulls, TxFields, KeepsDates DEF CreditedTx
<1>4. /\ OthersWork(r) /\ sched'[r].pc = "resolve"
      /\ sched'[r].queue = sched[r].queue \ {s}
      /\ sched'[r].sub = s /\ sched'[r].plan = plans[s.plan]
      /\ sched'[r].tx = s.inflight.tx /\ sched'[r].kind = "regular"
  BY <1>1, ResolveWork
<1>5. /\ Follows(s.next, s.user) /\ s.inflight = store[s.user].inflight
      /\ QueueOK(r) /\ plans[s.plan] \in PlanOptions
  BY <1>1 DEF DatesInv, WorkOK, QueueOK, HistoryOK
<1>6. txs[s.inflight.tx].kind = "regular" => PaidUp(s.user)
  <2>1. s.inflight.tx # 0
    BY <1>1, HashType DEF TxIds
  <2> QED BY <1>1, <1>5, <2>1 DEF DatesInv, RecordOK
<1>7. QueueOK(r)'
  <2>1. \A t \in sched'[r].queue : t.user \in Users /\ t \in sched[r].queue
    BY <1>1, <1>4, WorkType DEF Sub
  <2> QED BY <1>1, <1>2, <1>3, <1>4, <1>5, <2>1, TxFields, QueueKept
<1>8. InHandOK(r)'
  <2>1. PICK n : n = s.inflight.tx
    OBVIOUS
  <2>2. /\ Follows(s.next, s.user)' /\ (txs'[n].kind = "regular" => PaidUp(s.user)')
    BY <1>1, <1>2, <1>3, <1>5, <1>6, <2>1 DEF DatesKept
  <2> QED BY <1>4, <1>5, <2>1, <2>2 DEF InHandOK
<1>9. WorkOK(r)' /\ \A q \in Replicas : q # r => sched[q].pc = "idle"
  BY <1>1, <1>4, <1>7, <1>8, OthersIdle DEF WorkOK
<1> QED BY <1>1, <1>2, <1>3, <1>4, <1>9, DatesReads

\* A record taken up is given back: cancelled, or put off.
LEMMA DatesTakeAndWrite ==
  ASSUME IInv, CalmInv, DatesInv, NEW r \in Replicas, NEW s \in sched[r].queue,
         \/ CancelInactive(r, s)
         \/ \E side \in {"operator", "user"} : SubmitFails(r, s, side)
  PROVE  DatesInv'
<1>1. /\ TypeOK /\ sched[r].pc = "loop" /\ s \in Sub /\ s.user \in Users
      /\ \A t \in sched[r].queue \ {s} : t.user # s.user
      /\ now \in Nat /\ HistoryOK
  <2>1. Takes(r, s)
    BY DEF CancelInactive, SubmitFails
  <2> QED BY <2>1, NextRecord DEF IInv, TypeOK, DatesInv
<1>2. /\ plans' = plans /\ txs' = txs /\ sent' = sent
      /\ now' = now /\ credited' = credited /\ epoch' = epoch
  BY DEF CancelInactive, SubmitFails
<1>3. /\ OthersWork(r) /\ sched'[r].pc = "loop"
      /\ sched'[r].queue = sched[r].queue \ {s}
  BY <1>1, FailedTakeWork
<1>4. DatesKept(s.user)
  BY <1>1, <1>2, SamePulls, TxFields, KeepsDates DEF CreditedTx
<1>5. PICK rec \in Sub : /\ store' = [store EXCEPT ![rec.user] = rec]
                         /\ rec.user = s.user /\ rec.inflight = NoHash
                         /\ Follows(rec.next, s.user)
  <2>1. CASE CancelInactive(r, s)
    <3>1. PICK rec : rec = Cancelled(s)
      OBVIOUS
    <3>2. rec \in Sub /\ rec.user = s.user /\ rec.inflight = NoHash
      BY <1>1, <3>1, ConstantRecords, ClearedRecords
    <3>3. rec.next = now + Century
      BY <1>1, <3>1, FarDate
    <3>4. Follows(rec.next, s.user)
      BY <1>1, <3>3, FarFollows
    <3> QED BY <2>1, <3>1, <3>2, <3>4 DEF CancelInactive, Upsert
  <2>2. CASE \E side \in {"operator", "user"} : SubmitFails(r, s, side)
    <3>1. PICK side \in {"operator", "user"} : SubmitFails(r, s, side)
      BY <2>2
    <3>2. PICK rec : rec = Failed(s, side)
      OBVIOUS
    <3>3. rec \in Sub /\ rec.user = s.user /\ rec.inflight = NoHash
      BY <1>1, <3>2, FailedRecords
    <3>4. rec.next \in Nat /\ now < rec.next
      BY <1>1, <3>2, FailedDate
    <3>5. s.next \in Nat /\ (Proration \/ s.pending = 0)
      BY <1>1, <3>1 DEF SubmitFails, PullMayFail, KindOf, Proration, Sub
    <3>6. Follows(s.next, s.user) /\ (s.pending = 0 => s.next <= now)
      BY <3>5 DEF DatesInv, WorkOK, QueueOK, Score
    <3>7. Follows(rec.next, s.user)
      <4>1. CASE s.pending = 0
        BY <1>1, <3>4, <3>5, <3>6, <4>1, LaterFollows
      <4>2. CASE Proration
        BY <1>1, <3>4, <4>2, RetryFollows
      <4> QED BY <3>5, <4>1, <4>2
    <3> QED BY <3>1, <3>2, <3>3, <3>7 DEF SubmitFails, Upsert
  <2> QED BY <2>1, <2>2
<1>6. Follows(rec.next, rec.user)'
  BY <1>4, <1>5 DEF DatesKept
<1> QED BY <1>1, <1>2, <1>3, <1>5, <1>6, DatesWrite DEF CreditedTx

\* The pull that is sent is for a date behind everything charged before.
LEMMA DatesBroadcast ==
  ASSUME IInv, CalmInv, DatesInv, NEW r \in Replicas, NEW s \in sched[r].queue,
         Broadcast(r, s)
  PROVE  DatesInv'
<1>1. /\ TypeOK /\ sched[r].pc = "loop" /\ s.inflight = NoHash /\ s \in Sub
      /\ s.user \in Users /\ s.plan \in Plans /\ s.next \in Nat
      /\ \A t \in sched[r].queue \ {s} : t.user # s.user
      /\ HistoryOK /\ blamed = {} /\ CreditsSent
  BY NextRecord DEF IInv, Broadcast, Takes, Sub, CalmInv, DatesInv
<1>2. /\ store' = store /\ plans' = plans /\ now' = now /\ credited' = credited
      /\ epoch' = epoch
  BY DEF Broadcast
<1>3. PICK n : n = sent + 1
  OBVIOUS
<1>4. /\ OthersWork(r) /\ sched'[r].pc = "persist" /\ sched'[r].sub = s
      /\ sched'[r].queue = sched[r].queue \ {s}
      /\ sched'[r].plan = plans[s.plan] /\ sched'[r].tx = n /\ sched'[r].kind = KindOf(s)
      /\ sent' = n /\ n \in TxIds
      /\ \A m \in TxIds : m # n => txs'[m] = txs[m]
      /\ txs'[n].user = s.user /\ txs'[n].kind = KindOf(s) /\ txs'[n].due = s.next
      /\ txs'[n].epoch = epoch[s.user] /\ txs'[n].mined = 0
      /\ txs'[n].period = plans[s.plan].period
  BY <1>1, <1>3, BroadcastWork
<1>5. /\ sent \in Nat /\ n \in Nat /\ n \notin 1..sent /\ 1..n = (1..sent) \cup {n}
      /\ \A m \in 1..sent : /\ txs'[m] = txs[m] /\ m < n
                            /\ (CreditedTx(m)' <=> CreditedTx(m))
      /\ ~CreditedTx(n) /\ ~CreditedTx(n)' /\ ~Reverted(n)'
  <2>1. sent \in Nat /\ n \in Nat /\ n \notin 1..sent /\ 1..n = (1..sent) \cup {n}
    BY <1>1, <1>3, TxFields
  <2>2. \A m \in 1..sent : m \in TxIds /\ m # n /\ m < n
    BY <1>1, <1>3, TxFields
  <2>3. ~CreditedTx(n) /\ ~CreditedTx(n)' /\ \A m : CreditedTx(m)' <=> CreditedTx(m)
    BY <1>1, <1>2, <2>1 DEF CreditsSent, CreditedTx
  <2> QED BY <1>4, <2>1, <2>2, <2>3 DEF Reverted
<1>6. /\ Follows(s.next, s.user) /\ s.inflight = store[s.user].inflight
      /\ Score(s) <= now /\ QueueOK(r) /\ plans[s.plan] \in PlanOptions
  BY <1>1 DEF DatesInv, WorkOK, QueueOK, HistoryOK
<1>7. \A q \in Replicas : q # r => sched[q].pc = "idle"
  BY <1>1, <1>4, OthersIdle
<1>8. KindOf(s) = "regular" => s.next <= now
  BY <1>1, <1>6 DEF KindOf, Score, Sub
<1>9. \A u \in Users, m \in 1..sent : Live(u, m)' <=> Live(u, m)
  BY <1>2, <1>4, <1>5 DEF Live, Reverted
<1>10. \A u \in Users : Live(u, n)' => u = s.user /\ KindOf(s) = "regular"
  BY <1>4 DEF Live
<1>11. ASSUME NEW u \in Users, PaidUp(u) PROVE PaidUp(u)'
  <2>1. SUFFICES ASSUME NEW m \in 1..n, Live(u, m)', CreditedTx(m)'
                 PROVE  txs'[m].due + Gap <= now'
    BY <1>4 DEF PaidUp
  <2>2. m \in 1..sent
    BY <1>5, <2>1
  <2>3. Live(u, m) /\ CreditedTx(m) /\ txs'[m] = txs[m]
    BY <1>5, <1>9, <2>1, <2>2
  <2> QED BY <1>2, <1>11, <2>2, <2>3 DEF PaidUp
<1>12. ASSUME NEW u \in Users, NEW t, Follows(t, u), u = s.user => t = s.next
       PROVE  Follows(t, u)'
  <2>1. ASSUME NEW m \in 1..n, Live(u, m)' PROVE Behind(t, m)'
    <3>1. CASE m = n
      <4>1. t = s.next /\ txs'[m].due = s.next /\ ~CreditedTx(m)'
        BY <1>4, <1>5, <1>10, <1>12, <2>1, <3>1
      <4> QED BY <1>1, <4>1 DEF Behind
    <3>2. CASE m \in 1..sent
      BY <1>5, <1>9, <1>12, <2>1, <3>2 DEF Follows, Behind
    <3> QED BY <1>5, <2>1, <3>1, <3>2
  <2> QED BY <1>4, <2>1 DEF Follows
<1>13. HistoryOK'
  <2>1. ASSUME NEW m \in 1..n
        PROVE  /\ txs'[m].epoch <= epoch'[txs'[m].user]
               /\ txs'[m].kind = "regular" => txs'[m].due <= now'
               /\ txs'[m].kind = "pending" /\ Reverted(m)' => Proration
               /\ \E o \in PlanOptions : txs'[m].period = o.period
    <3>1. CASE m = n
      BY <1>1, <1>2, <1>4, <1>5, <1>6, <1>8, <3>1, TxFields
    <3>2. CASE m \in 1..sent
      BY <1>1, <1>2, <1>5, <3>2 DEF HistoryOK, Reverted
    <3> QED BY <1>5, <2>1, <3>1, <3>2
  <2> QED BY <1>1, <1>2, <1>4, <2>1 DEF HistoryOK
<1>14. Apart'
  <2>1. SUFFICES ASSUME NEW m \in 1..n, NEW k \in 1..n, m < k, ~Reverted(m)',
                        txs'[m].kind = "regular", txs'[k].kind = "regular",
                        txs'[m].user = txs'[k].user, txs'[m].epoch = txs'[k].epoch
                 PROVE  txs'[k].due >= txs'[m].due + Gap
    BY <1>4 DEF Apart
  <2>2. CASE k \in 1..sent
    <3>1. m \in 1..sent
      BY <1>5, <2>1, <2>2
    <3> QED BY <1>5, <2>1, <2>2, <3>1 DEF DatesInv, Apart, Reverted
  <2>3. CASE k = n
    <3>1. m \in 1..sent /\ txs'[m] = txs[m]
      BY <1>5, <2>1, <2>3
    <3>2. Live(s.user, m) /\ KindOf(s) = "regular"
      BY <1>4, <2>1, <2>3, <3>1 DEF Live, Reverted
    <3>3. CreditedTx(m)
      <4>1. SUFFICES ASSUME ~CreditedTx(m) PROVE FALSE
        OBVIOUS
      <4>2. ~Gone(m)
        BY <3>2, <4>1 DEF Gone, Live, Reverted
      <4>3. ~\E q \in Replicas : sched[q].pc = "persist"
        BY <1>1, <1>7
      <4>4. Durable(m)
        BY <1>1, <3>1, <4>2, <4>3 DEF IInv, Accounted
      <4>5. store[s.user].inflight.tx = 0
        BY <1>1, <1>6 DEF NoHash
      <4> QED BY <3>1, <3>2, <4>4, <4>5 DEF Durable, Live
    <3>4. s.next >= txs[m].due + Gap
      <4>1. s.next <= MaxTime /\ MaxTime \in Nat /\ now \in Nat
        BY <1>1, <1>8, <3>2, TxFields DEF HistoryOK
      <4> QED BY <1>1, <1>6, <3>1, <3>2, <3>3, <4>1 DEF Follows, Behind
    <3> QED BY <1>4, <2>3, <3>1, <3>4
  <2> QED BY <1>5, <2>1, <2>2, <2>3
<1>15. ASSUME NEW u \in Users PROVE RecordOK(u)'
  <2>1. PICK v : v = store[u]
    OBVIOUS
  <2>2. /\ v.inflight.tx # 0 /\ txs[v.inflight.tx].kind = "regular" => PaidUp(u)
        /\ Follows(v.next, u)
    BY <1>1, <1>7, <2>1 DEF DatesInv, RecordOK, Persisting
  <2>3. v.inflight.tx # 0 => v.inflight.tx \in 1..sent
    BY <2>1 DEF IInv, RefsOK, RefOK
  <2>4. v.inflight.tx # 0 /\ txs'[v.inflight.tx].kind = "regular" => PaidUp(u)'
    BY <1>5, <1>11, <2>2, <2>3
  <2>5. Persisting(u)' \/ Follows(v.next, u)'
    <3>1. CASE u = s.user
      BY <1>4, <3>1 DEF Persisting
    <3>2. CASE u # s.user
      BY <1>12, <2>2, <3>2
    <3> QED BY <3>1, <3>2
  <2> QED BY <1>2, <2>1, <2>4, <2>5 DEF RecordOK
<1>16. QueueOK(r)'
  <2>1. ASSUME NEW t \in sched'[r].queue
        PROVE  /\ Score(t) <= now' /\ t.inflight = store'[t.user].inflight
               /\ Follows(t.next, t.user)'
    <3>1. t \in sched[r].queue /\ t.user # s.user /\ t.user \in Users
      BY <1>1, <1>4, <2>1, WorkType DEF Sub
    <3> QED BY <1>2, <1>6, <1>12, <3>1 DEF QueueOK
  <2> QED BY <2>1 DEF QueueOK, Score
<1>17. InHandOK(r)'
  <2>1. Follows(s.next, s.user)'
    BY <1>1, <1>6, <1>12
  <2>2. txs'[n].kind = "regular" => PaidUp(s.user)'
    <3>1. SUFFICES ASSUME KindOf(s) = "regular" PROVE PaidUp(s.user)
      BY <1>1, <1>4, <1>11
    <3> QED BY <1>1, <1>6, <1>8, <3>1, DuePaidUp
  <2> QED BY <1>4, <1>6, <2>1, <2>2 DEF InHandOK
<1>18. WorkOK(r)'
  BY <1>4, <1>16, <1>17 DEF WorkOK
<1> QED BY <1>4, <1>7, <1>13, <1>14, <1>15, <1>18, DatesReplica

LEMMA DatesPersist ==
  ASSUME IInv, CalmInv, DatesInv, NEW r \in Replicas, PersistHash(r)
  PROVE  DatesInv'
<1>1. /\ TypeOK /\ sched[r].pc = "persist" /\ Busy(r) /\ Upsert(r, WithHash(r))
      /\ plans' = plans /\ txs' = txs /\ sent' = sent /\ now' = now
      /\ credited' = credited /\ epoch' = epoch
  BY DEF IInv, PersistHash, Busy
<1>2. PICK rec, s, n : rec = WithHash(r) /\ s = sched[r].sub /\ n = sched[r].tx
  OBVIOUS
<1>3. /\ rec \in Sub /\ rec.user = s.user /\ rec.inflight.tx = n /\ s.user \in Users
      /\ rec.next = s.next /\ n \in 1..sent /\ \A t \in sched[r].queue : t.user # s.user
      /\ store' = [store EXCEPT ![rec.user] = rec]
  <2>1. rec \in Sub /\ rec.user = s.user /\ rec.inflight.tx = n
    BY <1>1, <1>2, WrittenRecords
  <2>2. rec.next = s.next
    BY <1>1, <1>2, WorkType DEF WithHash, Sub
  <2> QED BY <1>1, <1>2, <2>1, <2>2, CurrentRecord DEF Upsert
<1>4. /\ store'[s.user] = rec
      /\ \A u \in Users : u # s.user => store'[u] = store[u]
  BY <1>1, <1>3 DEF TypeOK
<1>5. /\ OthersWork(r) /\ sched'[r].pc = "wait" /\ sched'[r].sub = rec
      /\ sched'[r].queue = sched[r].queue /\ sched'[r].plan = sched[r].plan
      /\ sched'[r].tx = n /\ sched'[r].kind = sched[r].kind
  BY <1>1, <1>2, PersistWork
<1>6. PullsKept /\ \A u \in Users : DatesKept(u)
  BY <1>1, SamePulls, TxFields, KeepsDates DEF CreditedTx
<1>7. \A q \in Replicas : q # r => sched[q].pc = "idle"
  BY <1>1, <1>5, OthersIdle
<1>8. HistoryOK' /\ Apart'
  BY <1>1, <1>6, TxFields, HistoryKept DEF DatesInv, HistoryOK
<1>9. /\ Follows(s.next, s.user) /\ (txs[n].kind = "regular" => PaidUp(s.user))
      /\ QueueOK(r) /\ InHandOK(r)
  BY <1>1, <1>2 DEF DatesInv, WorkOK, InHandOK
<1>10. ASSUME NEW u \in Users PROVE RecordOK(u)'
  <2>1. CASE u = s.user
    <3>1. Follows(rec.next, u)' /\ (txs'[n].kind = "regular" => PaidUp(u)')
      BY <1>1, <1>3, <1>6, <1>9, <2>1 DEF DatesKept
    <3> QED BY <1>3, <1>4, <2>1, <3>1 DEF RecordOK
  <2>2. CASE u # s.user
    <3>1. ~Persisting(u)
      BY <1>2, <1>7, <2>2 DEF Persisting
    <3> QED BY <1>4, <1>6, <2>2, <3>1, RecordKept DEF DatesInv
  <2> QED BY <2>1, <2>2
<1>11. QueueOK(r)'
  <2>1. \A t \in sched'[r].queue :
          store'[t.user].inflight = store[t.user].inflight /\ DatesKept(t.user)
    BY <1>1, <1>3, <1>4, <1>5, <1>6, WorkType DEF Sub
  <2> QED BY <1>1, <1>5, <1>9, <2>1, TxFields, QueueKept
<1>12. InHandOK(r)'
  BY <1>1, <1>2, <1>3, <1>5, <1>6, <1>9, InHandKept
<1>13. WorkOK(r)'
  BY <1>5, <1>11, <1>12 DEF WorkOK
<1> QED BY <1>5, <1>7, <1>8, <1>10, <1>13, DatesReplica

LEMMA DatesReceipt ==
  ASSUME IInv, CalmInv, DatesInv, NEW r \in Replicas, ReceiptOk(r) \/ ReceiptReverted(r)
  PROVE  DatesInv'
<1>1. PICK s, n : s = sched[r].sub /\ n = sched[r].tx
  OBVIOUS
<1>2. /\ TypeOK /\ Busy(r) /\ sched[r].pc \notin {"idle", "persist"} /\ HistoryOK
      /\ txs' = txs /\ sent' = sent /\ epoch' = epoch /\ plans' = plans /\ now' = now
      /\ Ends(r)
  BY DEF IInv, DatesInv, ReceiptOk, ReceiptReverted, Busy, Ends
<1>3. /\ s \in Sub /\ s.user \in Users /\ n \in 1..sent /\ txs[n].user = s.user
      /\ \A t \in sched[r].queue : t.user # s.user
  BY <1>1, <1>2, CurrentRecord
<1>4. OthersWork(r) /\ sched'[r].pc = "loop" /\ sched'[r].queue = sched[r].queue
  BY <1>2, EndsWork
<1>5. /\ Follows(s.next, s.user) /\ (txs[n].kind = "regular" => PaidUp(s.user))
      /\ (sched[r].kind = "pending" => txs[n].kind = "pending")
      /\ sched[r].plan \in PlanOptions
  BY <1>1, <1>2 DEF DatesInv, WorkOK, InHandOK
<1>6. CASE ReceiptOk(r)
  <2>1. PICK rec : rec = Settled(r)
    OBVIOUS
  <2>2. /\ rec \in Sub /\ rec.user = s.user /\ rec.inflight = NoHash
        /\ store' = [store EXCEPT ![rec.user] = rec]
    BY <1>1, <1>2, <1>6, <2>1, WrittenRecords DEF ReceiptOk, Credit, Upsert
  <2>3. /\ rec.next \in Nat /\ s.next \in Nat
        /\ sched[r].kind = "pending" => rec.next = s.next
        /\ sched[r].kind # "pending" => rec.next >= s.next + Gap
    BY <1>1, <1>2, <1>3, <1>5, <2>1, SettledDate DEF Sub
  <2>4. \A m : CreditedTx(m)' <=> CreditedTx(m) \/ m = n
    <3>1. PICK c : c = [tx |-> n, as |-> sched[r].kind]
      OBVIOUS
    <3>2. credited' = credited \cup {c} /\ c.tx = n
      BY <1>1, <1>6, <3>1 DEF ReceiptOk, Credit
    <3> QED BY <3>2 DEF CreditedTx
  <2>5. ASSUME NEW m \in 1..sent, Live(s.user, m)
        PROVE  Behind(rec.next, m)'
    <3>1. Behind(s.next, m) /\ txs[m].due \in Nat /\ MaxTime \in Nat /\ txs'[m] = txs[m]
      BY <1>2, <1>5, <2>5, TxFields DEF Follows
    <3>2. CASE sched[r].kind = "pending"
      <4>1. m # n
        BY <1>5, <2>5, <3>2 DEF Live
      <4> QED BY <2>3, <2>4, <3>1, <3>2, <4>1 DEF Behind
    <3>3. CASE sched[r].kind # "pending"
      BY <2>3, <3>1, <3>3, GapType DEF Behind
    <3> QED BY <3>2, <3>3
  <2>6. Follows(rec.next, rec.user)'
    <3>1. \A m \in 1..sent : Live(s.user, m)' => Live(s.user, m)
      BY <1>2 DEF Live, Reverted
    <3> QED BY <1>2, <2>2, <2>5, <3>1 DEF Follows
  <2>7. \A m \in 1..sent : txs[m].user # rec.user => (CreditedTx(m)' <=> CreditedTx(m))
    BY <1>3, <2>2, <2>4
  <2> QED BY <1>2, <1>3, <1>4, <2>2, <2>6, <2>7, DatesWrite
<1>7. CASE ReceiptReverted(r)
  <2>1. PICK rec : rec = Failed(s, "user")
    OBVIOUS
  <2>2. /\ rec \in Sub /\ rec.user = s.user /\ rec.inflight = NoHash
        /\ store' = [store EXCEPT ![rec.user] = rec] /\ credited' = credited
    BY <1>1, <1>2, <1>3, <1>7, <2>1, FailedRecords DEF ReceiptReverted, Upsert, TypeOK
  <2>3. rec.next \in Nat /\ now < rec.next /\ now \in Nat
    BY <1>2, <1>3, <2>1, FailedDate DEF TypeOK
  <2>4. txs[n].kind = "regular" \/ Proration
    <3>1. Reverted(n)
      BY <1>1, <1>7 DEF ReceiptReverted, HasReceipt, Reverted
    <3> QED BY <1>2, <1>3, <3>1, TxFields DEF HistoryOK
  <2>5. Follows(rec.next, s.user)
    BY <1>2, <1>3, <1>5, <2>3, <2>4, PaidUpFollows, RetryFollows
  <2>6. DatesKept(s.user)
    BY <1>2, <1>3, <2>2, SamePulls, TxFields, KeepsDates DEF CreditedTx
  <2>7. Follows(rec.next, rec.user)'
    BY <2>2, <2>5, <2>6 DEF DatesKept
  <2> QED BY <1>2, <1>3, <1>4, <2>2, <2>7, DatesWrite DEF CreditedTx
<1> QED BY <1>6, <1>7

\* The other steps of a pull in hand write nothing.
LEMMA DatesWait ==
  ASSUME IInv, Calm, CalmInv, DatesInv, NEW r \in Replicas,
         \/ Timeout(r) \/ NoBump(r) \/ Resend(r) \/ GiveUp(r) \/ ResolveRpcError(r)
  PROVE  DatesInv'
<1>1. /\ TypeOK /\ Busy(r) /\ store' = store /\ credited' = credited /\ epoch' = epoch
      /\ plans' = plans /\ now' = now /\ sent' = sent
      /\ sched[r].pc \notin {"idle", "persist"}
  BY DEF IInv, Timeout, NoBump, Resend, GiveUp, ResolveRpcError, Busy
<1>2. PullsKept
  <2>1. CASE Resend(r)
    BY <1>1, <2>1, ResendWork, TxFields DEF PullsKept, Reverted
  <2>2. CASE Timeout(r) \/ NoBump(r) \/ GiveUp(r) \/ ResolveRpcError(r)
    BY <1>1, <2>2, SamePulls DEF Timeout, NoBump, GiveUp, ResolveRpcError
  <2> QED BY <2>1, <2>2
<1>3. /\ OthersWork(r) /\ sched'[r].pc # "idle" /\ sched'[r].queue = sched[r].queue
      /\ Busy(r)' =>
           /\ sched'[r].sub = sched[r].sub /\ sched'[r].plan = sched[r].plan
           /\ sched'[r].tx = sched[r].tx /\ sched'[r].kind = sched[r].kind
  <2>1. CASE Resend(r)
    BY <1>1, <2>1, ResendWork
  <2>2. CASE Timeout(r) \/ NoBump(r)
    BY <1>1, <2>2, WaitWork
  <2>3. CASE GiveUp(r) \/ ResolveRpcError(r)
    BY <1>1, <2>3, EndsWork DEF Ends, Busy
  <2> QED BY <2>1, <2>2, <2>3
<1>4. \A u \in Users : DatesKept(u)
  BY <1>1, <1>2, TxFields, KeepsDates DEF CreditedTx
<1>5. QueueOK(r)'
  <2>1. \A t \in sched'[r].queue :
          store'[t.user].inflight = store[t.user].inflight /\ DatesKept(t.user)
    BY <1>1, <1>3, <1>4, WorkType DEF Sub
  <2> QED BY <1>1, <1>3, <2>1, TxFields, QueueKept DEF DatesInv, WorkOK
<1>6. InHandOK(r)'
  <2>1. CASE Busy(r)'
    BY <1>1, <1>2, <1>3, <1>4, <2>1, InHandKept DEF DatesInv, WorkOK
  <2>2. CASE ~Busy(r)'
    BY <2>2 DEF InHandOK
  <2> QED BY <2>1, <2>2
<1>7. WorkOK(r)' /\ \A q \in Replicas : q # r => sched[q].pc = "idle"
  BY <1>1, <1>3, <1>5, <1>6, OthersIdle DEF WorkOK
<1> QED BY <1>1, <1>2, <1>3, <1>7, DatesReads

\* A call writes what is stored, with another plan or status, or begins a new
\* subscription.
LEMMA DatesWriteCall ==
  ASSUME IInv, CalmInv, DatesInv, WriteCall
  PROVE  DatesInv'
<1>1. PICK u, rec : u = api.user /\ rec = CallResult(api)
  OBVIOUS
<1>2. /\ TypeOK /\ api # NoCall /\ u \in Users /\ api.read = store[u] /\ store[u] \in Sub
      /\ txs' = txs /\ sent' = sent /\ plans' = plans /\ now' = now
      /\ credited' = credited /\ sched' = sched /\ HistoryOK
  BY <1>1 DEF IInv, CalmInv, CallFresh, DatesInv, WriteCall, TypeOK, Call
<1>3. /\ rec \in Sub /\ rec.user = u /\ rec.inflight = store[u].inflight
  <2>1. /\ rec \in Sub /\ rec.user = u /\ rec.inflight \in {NoHash, store[u].inflight}
        /\ store[u].status # "none" => rec.inflight = store[u].inflight
    BY <1>1, <1>2, CallRecords
  <2>2. store[u].status = "none" => store[u].inflight = NoHash
    BY <1>2 DEF IInv, RefsOK, AbsentOK
  <2> QED BY <2>1, <2>2
<1>4. store'[u] = rec /\ \A v \in Users : v # u => store'[v] = store[v]
  BY <1>1, <1>2 DEF WriteCall, TypeOK
<1>5. \A v \in Users : /\ epoch'[v] \in Nat /\ epoch[v] <= epoch'[v]
                       /\ v # u => epoch'[v] = epoch[v]
  BY <1>1, <1>2, TxFields DEF WriteCall, TypeOK
<1>6. \/ epoch'[u] = epoch[u] + 1
      \/ epoch'[u] = epoch[u] /\ rec.next \in {store[u].next, now + Century}
  <2>1. CASE api.op = "create" /\ Restarts(api.read, api.plan)
    BY <1>1, <1>2, <2>1 DEF WriteCall, TypeOK
  <2>2. CASE api.op = "create" /\ ~Restarts(api.read, api.plan)
    <3> DEFINE s == api.read
               p == api.plan
               diff == ProratedDiff(s, plans[s.plan], plans[p])
               pend == IF diff > 0 THEN diff ELSE s.pending
    <3>1. CallResult(api) \in {s, [s EXCEPT !.plan = p, !.status = "active",
                                           !.attempts = 0, !.pending = pend]}
      BY <2>2 DEF CallResult, PlanApplied, Restarts
    <3>2. s \in Sub
      BY <1>2
    <3> HIDE DEF s, p, pend
    <3>3. CallResult(api).next = s.next
      BY <3>1, <3>2 DEF Sub
    <3> QED BY <1>1, <1>2, <2>2, <3>3 DEF WriteCall, s
  <2>3. CASE api.op # "create"
    <3> DEFINE far == now + Century
    <3>1. CallResult(api) = [api.read EXCEPT !.status = "cancelled", !.next = far]
      BY <2>3 DEF CallResult
    <3> HIDE DEF far
    <3>2. CallResult(api).next = far
      BY <1>2, <3>1 DEF Sub
    <3> QED BY <1>1, <1>2, <2>3, <3>2 DEF WriteCall, far
  <2> QED BY <2>1, <2>2, <2>3
<1>7. PullsKept /\ \A v \in Users : DatesKept(v)
  <2>1. PullsKept
    BY <1>2, SamePulls
  <2>2. \A v \in Users : epoch'[v] = epoch[v] => DatesKept(v)
    BY <1>2, <2>1, TxFields, KeepsDates DEF CreditedTx
  <2>3. epoch'[u] = epoch[u] + 1 => DatesKept(u)
    BY <1>2, FreshFollows DEF DatesKept
  <2> QED BY <1>5, <1>6, <2>1, <2>2, <2>3
<1>8. HistoryOK' /\ Apart'
  BY <1>2, <1>5, <1>7, TxFields, HistoryKept DEF DatesInv, HistoryOK
<1>9. \A v \in Users : Persisting(v) => Persisting(v)'
  BY <1>2 DEF Persisting
<1>10. RecordOK(u)'
  <2>1. CASE epoch'[u] = epoch[u] + 1
    BY <1>2, <2>1, FreshFollows DEF RecordOK
  <2>2. CASE epoch'[u] = epoch[u] /\ rec.next = store[u].next
    BY <1>2, <1>3, <1>4, <1>7, <1>9, <2>2, RecordKept DEF DatesInv
  <2>3. CASE epoch'[u] = epoch[u] /\ rec.next = now + Century
    <3>1. Follows(rec.next, u)
      BY <1>2, <2>3, FarFollows
    <3>2. rec.inflight.tx # 0 /\ txs'[rec.inflight.tx].kind = "regular" => PaidUp(u)'
      BY <1>2, <1>3, <1>7 DEF DatesInv, RecordOK, DatesKept
    <3> QED BY <1>2, <1>4, <1>7, <3>1, <3>2 DEF RecordOK, DatesKept
  <2> QED BY <1>6, <2>1, <2>2, <2>3
<1>11. \A v \in Users : RecordOK(v)'
  <2>1. \A v \in Users : v # u => RecordOK(v)'
    BY <1>4, <1>7, <1>9, RecordKept DEF DatesInv
  <2> QED BY <1>10, <2>1
<1>12. ASSUME NEW r \in Replicas PROVE WorkOK(r)'
  <2>1. \A t \in sched'[r].queue :
          store'[t.user].inflight = store[t.user].inflight /\ DatesKept(t.user)
    BY <1>2, <1>3, <1>4, <1>7, WorkType DEF Sub
  <2>2. QueueOK(r)'
    BY <1>2, <2>1, TxFields, QueueKept DEF DatesInv, WorkOK
  <2>3. InHandOK(r)'
    BY <1>2, <1>7, InHandKept DEF DatesInv, WorkOK, Busy
  <2> QED BY <1>2, <2>2, <2>3 DEF DatesInv, WorkOK
<1> QED BY <1>8, <1>11, <1>12 DEF DatesInv

LEMMA DatesCheckout ==
  ASSUME IInv, Calm, CalmInv, DatesInv, NEW u \in Users, NEW p \in Plans,
         CompleteCheckout(u, p)
  PROVE  DatesInv'
<1>1. /\ TypeOK /\ (\A r \in Replicas : sched[r].pc = "idle")
      /\ txs' = txs /\ sent' = sent /\ plans' = plans /\ now' = now
      /\ credited' = credited /\ sched' = sched /\ HistoryOK
      /\ epoch' = [epoch EXCEPT ![u] = epoch[u] + 1]
  BY DEF IInv, DatesInv, CompleteCheckout, Calm, AllIdle, TypeOK
<1>2. PICK rec : rec = NewSub(u, p, now + plans[p].period)
  OBVIOUS
<1>3. /\ store'[u] = rec /\ rec.inflight.tx = 0
      /\ \A v \in Users : v # u => store'[v] = store[v]
  <2>1. store' = [store EXCEPT ![u] = rec]
    BY <1>2 DEF CompleteCheckout
  <2>2. rec.inflight.tx = 0
    BY <1>2 DEF NewSub, NoHash
  <2> QED BY <1>1, <2>1, <2>2 DEF TypeOK
<1>4. \A v \in Users : /\ epoch'[v] \in Nat /\ epoch[v] <= epoch'[v]
                       /\ v # u => epoch'[v] = epoch[v]
  BY <1>1 DEF TypeOK
<1>5. epoch'[u] = epoch[u] + 1
  BY <1>1 DEF TypeOK
<1>6. PullsKept /\ \A v \in Users : v # u => DatesKept(v)
  BY <1>1, <1>4, SamePulls, TxFields, KeepsDates DEF CreditedTx
<1>7. HistoryOK' /\ Apart'
  BY <1>1, <1>4, <1>6, TxFields, HistoryKept DEF DatesInv, HistoryOK
<1>8. ASSUME NEW v \in Users PROVE RecordOK(v)'
  <2>1. CASE v = u
    BY <1>1, <1>3, <1>5, <2>1, FreshFollows DEF RecordOK
  <2>2. CASE v # u
    <3>1. ~Persisting(v)
      BY <1>1 DEF Persisting
    <3> QED BY <1>3, <1>6, <2>2, <3>1, RecordKept DEF DatesInv
  <2> QED BY <2>1, <2>2
<1>9. \A r \in Replicas : WorkOK(r)'
  BY <1>1 DEF DatesInv, WorkOK, QueueOK, InHandOK, Busy
<1> QED BY <1>7, <1>8, <1>9 DEF DatesInv

LEMMA DatesInit == Init => DatesInv
<1> SUFFICES ASSUME Init PROVE DatesInv
  OBVIOUS
<1>1. sent = 0 /\ now = 1 /\ now <= MaxTime /\ plans \in [Plans -> PlanOptions]
  BY ConstantsAssumption DEF Init, ConstantsAssumption
<1>2. \A u \in Users : store[u].inflight.tx = 0
  BY ConstantRecords DEF Init, NoHash
<1>3. \A r \in Replicas : sched[r].queue = {} /\ sched[r].pc = "idle"
  BY DEF Init, Idle
<1> QED BY <1>1, <1>2, <1>3
      DEF DatesInv, HistoryOK, Apart, RecordOK, WorkOK, QueueOK, InHandOK, Busy, Follows

LEMMA DatesStep ==
  IInv /\ Calm /\ CalmInv /\ DatesInv /\ [Next]_vars => DatesInv'
<1> SUFFICES ASSUME IInv, Calm, CalmInv, DatesInv, [Next]_vars PROVE DatesInv'
  OBVIOUS
<1>1. TypeOK /\ now \in Nat /\ MaxTime \in Nat /\ HistoryOK
  BY TxFields DEF IInv, DatesInv
<1>2. CASE \E r \in Replicas : SchedStep(r) \/ Crash(r)
  <2>1. PICK r \in Replicas : SchedStep(r) \/ Crash(r)
    BY <1>2
  <2>2. CASE StartTick(r) \/ EndTick(r) \/ Crash(r)
    BY <1>1, <2>2, DatesTick
  <2>3. CASE SubStep(r)
    BY <2>3, DatesResolve, DatesTakeAndWrite, DatesBroadcast DEF SubStep
  <2>4. CASE WaitStep(r)
    <3>1. \/ PersistHash(r) \/ ReceiptOk(r) \/ ReceiptReverted(r)
          \/ GiveUp(r) \/ Timeout(r) \/ Resend(r) \/ NoBump(r) \/ ResolveRpcError(r)
      BY <1>1, <2>4 DEF WaitStep, Calm, PersistHashFails, ResendFails, LateReceipt,
           LateNotFound, FinalUpsertFails
    <3> QED BY <1>1, <3>1, DatesPersist, DatesReceipt, DatesWait
  <2> QED BY <2>1, <2>2, <2>3, <2>4 DEF SchedStep
<1>3. CASE ChainStep
  <2>1. PullsKept
    BY <1>1, <1>3, ChainWork, TxFields DEF PullsKept, Reverted, PullMayFail, Proration
  <2> QED BY <1>1, <1>3, <2>1, ChainWork, DatesWorld DEF HistoryOK
<1>4. CASE ApiStep
  <2>1. CASE \/ \E u \in Users : CancelSub(u)
             \/ \E u \in Users, p \in Plans, d \in Starts : CreateSub(u, p, now + d)
    BY <1>1, <2>1, SamePulls, DatesWorld DEF CancelSub, CreateSub, HistoryOK
  <2>2. CASE \E p \in Plans, plan \in PlanOptions : UpsertPlan(p, plan)
    BY <1>1, <2>2, SamePulls, DatesWorld DEF UpsertPlan, HistoryOK
  <2> QED BY <1>1, <1>4, <2>1, <2>2, DatesWriteCall, DatesCheckout DEF ApiStep
<1>5. CASE LeaseExpires \/ AdvanceTime \/ UNCHANGED vars
  BY <1>1, <1>5, SamePulls, DatesWorld DEF LeaseExpires, AdvanceTime, vars, HistoryOK
<1> QED BY <1>2, <1>3, <1>4, <1>5 DEF Next

LEMMA DatesInvariant ==
  ASSUME Calm
  PROVE  Spec => [](IInv /\ CalmInv /\ DatesInv)
<1>1. Init => DatesInv
  BY DatesInit
<1>2. IInv /\ CalmInv /\ DatesInv /\ [Next]_vars => DatesInv'
  BY DatesStep
<1> QED BY <1>1, <1>2, CalmInvariant, PTL DEF Spec

(* Whatever the plans' periods, and whichever pulls fail, no due date of a *)
(* subscription is paid for twice: markCharged moves the date on           *)
(* (scheduler.go:440), a retry sets one that is still to come              *)
(* (scheduler.go:518, 532), and a call leaves it, cancels or begins anew   *)
(* (api.go:276, 353, 476).                                                 *)
THEOREM OncePerDateWhenCalm ==
  ASSUME Calm
  PROVE  Spec => []OncePerDate
<1>1. IInv /\ DatesInv => OncePerDate
  <2>1. SUFFICES ASSUME IInv, DatesInv, NEW m \in 1..sent, NEW n \in 1..sent,
                        m < n, Paid(m), Paid(n),
                        txs[m].kind = "regular", txs[n].kind = "regular",
                        txs[m].user = txs[n].user, txs[m].epoch = txs[n].epoch
                 PROVE  txs[n].due > txs[m].due
    BY DEF OncePerDate
  <2>2. txs[n].due >= txs[m].due + Gap
    BY <2>1 DEF DatesInv, Apart, Paid, Reverted
  <2> QED BY <2>1, <2>2, GapType, TxFields DEF IInv
<1> QED BY <1>1, DatesInvariant, PTL

(* "each period, scheduler: pull" (README.md:34): when the plans share one *)
(* period, nobody pays the regular price twice for a period of one         *)
(* subscription, across crashes, reverts, retries, fee bumps, dropped      *)
(* transactions, plan changes, cancellations and calls during a tick.      *)
THEOREM OncePerPeriodWhenAnchored ==
  ASSUME Calm, OnePeriod, ~Proration
  PROVE  Spec => []AtMostOncePerPeriod
<1>1. \A o \in PlanOptions : o.period = Gap
  <2>1. \A o \in PlanOptions : o.period = (CHOOSE p \in PlanOptions : TRUE).period
    BY DEF OnePeriod
  <2> QED BY <2>1 DEF Gap
<1>2. IInv /\ DatesInv => AtMostOncePerPeriod
  <2>1. SUFFICES ASSUME IInv, DatesInv, NEW m \in 1..sent, NEW n \in 1..sent,
                        m < n, Paid(m), Paid(n),
                        txs[m].kind = "regular", txs[n].kind = "regular",
                        txs[m].user = txs[n].user, txs[m].epoch = txs[n].epoch
                 PROVE  txs[n].due >= txs[m].due + txs[m].period
    BY DEF AtMostOncePerPeriod
  <2>2. txs[n].due >= txs[m].due + Gap
    BY <2>1 DEF DatesInv, Apart, Paid, Reverted
  <2>3. txs[m].period = Gap
    BY <1>1, <2>1 DEF DatesInv, HistoryOK
  <2> QED BY <2>2, <2>3
<1> QED BY <1>2, DatesInvariant, PTL
=============================================================================

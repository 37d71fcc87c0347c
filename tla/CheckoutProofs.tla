--------------------------- MODULE CheckoutProofs ---------------------------
(***************************************************************************)
(* Proofs about Checkout, for any number of sessions, transfers, requests  *)
(* and sweepers.  The inductive invariant adds to the properties what a    *)
(* request or a sweeper in the middle of its work may rely on: what its    *)
(* WATCH read is still there or gone for good, what was verified stays     *)
(* verified, and a committed session is recorded by one request only.      *)
(***************************************************************************)
EXTENDS Checkout, TLAPS

-----------------------------------------------------------------------------
(* Types *)

LEMMA EmptyRecords ==
  /\ NoSession \in Session /\ NoRequest \in Request /\ NoSweep \in Sweep
  /\ \A Q \in SUBSET Sessions : Sweeping(Q) \in Sweep /\ Sweeping(Q).pc = "sweep"
BY DEF NoSession, NoRequest, NoSweep, Sweeping, Session, Request, Sweep

LEMMA InitType == Init => TypeOK
<1> SUFFICES ASSUME Init PROVE TypeOK
  OBVIOUS
<1>1. events \in Seq(Event)
  BY DEF Init
<1> QED BY <1>1, EmptyRecords, CheckoutAssumption
      DEF Init, TypeOK, NoRequest, NoSweep, CheckoutAssumption

LEMMA EventType ==
  ASSUME TypeOK, NEW r \in Request, r.session \in Sessions, Emit(r)
  PROVE  events' \in Seq(Event)
<1>1. [session |-> r.session, recovered |-> r.force] \in Event
  BY DEF Event, Request
<1> QED BY <1>1 DEF TypeOK, Emit

LEMMA CommitType ==
  ASSUME TypeOK, NEW h \in Requests, requests[h].pc = "exec",
         Commit(requests[h])
  PROVE  /\ sessions' \in [Sessions -> Session]
         /\ txOwner' \in [Txs -> Sessions \cup {None}]
         /\ expiring' \subseteq Sessions
<1>1. /\ requests[h] \in Request /\ requests[h].session \in Sessions
      /\ requests[h].tx \in Txs
  BY DEF TypeOK
<1>2. requests[h].seen.session \in Session
  BY <1>1 DEF Request
<1>3. [requests[h].seen.session EXCEPT !.status = "completed",
                                       !.tx = requests[h].tx] \in Session
  BY <1>1, <1>2 DEF Session
<1> QED BY <1>1, <1>3 DEF TypeOK, Commit

\* A request's record is replaced by a well typed one.
LEMMA ReplacedRequest ==
  ASSUME TypeOK, NEW h \in Requests, NEW r \in Request,
         r.pc # "idle" => r.session \in Sessions /\ r.tx \in Txs,
         requests' = [requests EXCEPT ![h] = r]
  PROVE  /\ requests' \in [Requests -> Request]
         /\ \A g \in Requests : requests'[g].pc # "idle" =>
              requests'[g].session \in Sessions /\ requests'[g].tx \in Txs
BY DEF TypeOK

\* The requests and what they change.
LEMMA RequestType ==
  ASSUME TypeOK, NEW h \in Requests, RequestStep(h)
  PROVE  TypeOK'
<1> USE CheckoutAssumption DEF CheckoutAssumption
<1>1. /\ requests \in [Requests -> Request] /\ requests[h] \in Request
      /\ faults \in Nat /\ faults + 1 \in Nat
  BY DEF TypeOK
<1>2. CASE \E s \in Sessions, t \in Txs, force \in BOOLEAN : Begin(h, s, t, force)
  <2>1. PICK s \in Sessions, t \in Txs, force \in BOOLEAN : Begin(h, s, t, force)
    BY <1>2
  <2> DEFINE r == [NoRequest EXCEPT !.pc = "verify", !.session = s, !.tx = t,
                                    !.force = force]
  <2>2. r \in Request /\ r.session \in Sessions /\ r.tx \in Txs
    BY EmptyRecords DEF Request, NoRequest
  <2>3. requests' = [requests EXCEPT ![h] = r]
    BY <2>1 DEF Begin
  <2> HIDE DEF r
  <2> QED BY <2>1, <2>2, <2>3 DEF Begin, TypeOK
<1>3. CASE Verify(h)
  <2>1. [requests[h] EXCEPT !.pc = "watch"] \in Request
    BY <1>1 DEF Request
  <2> QED BY <1>3, <2>1 DEF Verify, TypeOK
<1>4. CASE Refuse(h)
  BY <1>4, EmptyRecords DEF Refuse, TypeOK, NoRequest
<1>5. CASE Watch(h)
  <2> DEFINE r == [requests[h] EXCEPT !.pc = "exec",
                     !.seen = [session |-> sessions[requests[h].session],
                               owner |-> txOwner[requests[h].tx]]]
  <2>1. requests[h].session \in Sessions /\ requests[h].tx \in Txs
    BY <1>5 DEF Watch, TypeOK
  <2>2. /\ r \in Request /\ r.session = requests[h].session
        /\ r.tx = requests[h].tx
    BY <1>1, <2>1 DEF Request, TypeOK
  <2>3. requests' = [requests EXCEPT ![h] = r]
    BY <1>1, <1>5 DEF Watch
  <2> HIDE DEF r
  <2>4. /\ requests' \in [Requests -> Request]
        /\ \A g \in Requests : requests'[g].pc # "idle" =>
             requests'[g].session \in Sessions /\ requests'[g].tx \in Txs
    BY <2>1, <2>2, <2>3, ReplacedRequest
  <2> QED BY <1>5, <2>4 DEF Watch, TypeOK
<1>6. CASE Exec(h)
  <2>1. [requests[h] EXCEPT !.pc = "record"] \in Request
    BY <1>1 DEF Request
  <2> QED BY <1>6, <2>1, CommitType DEF Exec, TypeOK
<1>7. CASE ExecLost(h)
  <2> DEFINE r == [requests[h] EXCEPT !.pc = "watch",
                                      !.tries = requests[h].tries + 1]
  <2>1. /\ r \in Request /\ r.session = requests[h].session
        /\ r.tx = requests[h].tx
    <3>1. requests[h].tries \in Nat
      BY <1>1 DEF Request
    <3>2. requests[h].tries + 1 \in Nat
      BY <3>1
    <3> QED BY <1>1, <3>2 DEF Request
  <2>2. \/ requests' = [requests EXCEPT ![h] = r]
        \/ requests' = [requests EXCEPT ![h] = NoRequest]
    BY <1>1, <1>7 DEF ExecLost
  <2>3. requests[h].session \in Sessions /\ requests[h].tx \in Txs
    BY <1>7 DEF ExecLost, TypeOK
  <2> HIDE DEF r
  <2>4. CASE requests' = [requests EXCEPT ![h] = r]
    BY <1>7, <2>1, <2>3, <2>4 DEF ExecLost, TypeOK
  <2>5. CASE requests' = [requests EXCEPT ![h] = NoRequest]
    <3>1. /\ requests' \in [Requests -> Request]
          /\ \A g \in Requests : requests'[g].pc # "idle" =>
               requests'[g].session \in Sessions /\ requests'[g].tx \in Txs
      BY <2>5, EmptyRecords DEF TypeOK, NoRequest
    <3> QED BY <1>7, <3>1 DEF ExecLost, TypeOK
  <2> QED BY <2>2, <2>4, <2>5
<1>8. CASE ExecReplyLost(h)
  <2>1. requests[h].session \in Sessions /\ faults' \in Nat
    BY <1>1, <1>8 DEF ExecReplyLost, TypeOK, Fault
  <2> QED BY <1>8, <2>1, CommitType, EmptyRecords DEF ExecReplyLost, TypeOK, NoRequest
<1>9. CASE Record(h)
  <2>1. requests[h].session \in Sessions /\ requests[h].tx \in Txs
    BY <1>9 DEF Record, TypeOK
  <2>2. events' \in Seq(Event)
    BY <1>1, <1>9, <2>1, EventType DEF Record
  <2>3. subs' \in [Wallets -> Sessions \cup {None}]
    BY <1>9, <2>1 DEF Record, TypeOK
  <2> QED BY <1>9, <2>2, <2>3, EmptyRecords DEF Record, TypeOK, NoRequest
<1>10. CASE RecordFails(h)
  <2>1. requests[h].session \in Sessions /\ faults' \in Nat
    BY <1>1, <1>10 DEF RecordFails, TypeOK, Fault
  <2>2. events' \in Seq(Event)
    BY <1>1, <1>10, <2>1, EventType DEF RecordFails
  <2> QED BY <1>10, <2>1, <2>2, EmptyRecords DEF RecordFails, TypeOK, NoRequest
<1>11. CASE Crash(h)
  <2>1. requests[h].session \in Sessions /\ faults' \in Nat
    BY <1>1, <1>11 DEF Crash, TypeOK, Fault
  <2> QED BY <1>11, <2>1, EmptyRecords DEF Crash, TypeOK, NoRequest
<1> QED BY <1>2, <1>3, <1>4, <1>5, <1>6, <1>7, <1>8, <1>9, <1>10, <1>11 DEF RequestStep

\* The sweepers and what they change.
LEMMA SweepType ==
  ASSUME TypeOK, NEW w \in Sweepers, SweepStep(w) \/ SweepFails(w)
  PROVE  TypeOK'
<1>1. /\ sweeps[w] \in Sweep /\ faults \in Nat /\ faults + 1 \in Nat
      /\ sweeps[w].ids \subseteq Sessions
  BY DEF TypeOK, Sweep
<1>2. CASE StartSweep(w)
  <2>1. PICK Q \in SUBSET Sessions : sweeps' = [sweeps EXCEPT ![w] = Sweeping(Q)]
    BY <1>2 DEF StartSweep, PastDeadline, TypeOK
  <2> QED BY <1>2, <2>1, EmptyRecords DEF StartSweep, TypeOK
<1>3. CASE Expire(w) \/ ExpireLost(w)
  <2>1. sweeps[w].session \in Sessions /\ sweeps' = [sweeps EXCEPT ![w] = Sweeping(sweeps[w].ids)]
    BY <1>3 DEF Expire, ExpireLost, TypeOK
  <2>2. sweeps' \in [Sweepers -> Sweep]
        /\ \A k \in Sweepers : sweeps'[k].pc = "expire" => sweeps'[k].session \in Sessions
    BY <1>1, <2>1, EmptyRecords DEF TypeOK
  <2>3. CASE Expire(w)
    <3>1. [sweeps[w].seen EXCEPT !.status = "expired"] \in Session
      BY <1>1 DEF Sweep, Session
    <3>2. sessions' \in [Sessions -> Session] /\ txOwner' \in [Txs -> Sessions \cup {None}]
      BY <2>1, <2>3, <3>1 DEF Expire, TypeOK
    <3> QED BY <2>2, <2>3, <3>2 DEF Expire, TypeOK
  <2>4. CASE ExpireLost(w)
    BY <2>2, <2>4 DEF ExpireLost, TypeOK
  <2> QED BY <1>3, <2>3, <2>4
<1>4. CASE EndSweep(w)
  BY <1>4, EmptyRecords DEF EndSweep, TypeOK, NoSweep
<1>5. CASE \E s \in Sessions : SweepDrop(w, s)
  <2>1. PICK s \in Sessions : SweepDrop(w, s)
    BY <1>5
  <2>2. [sweeps[w] EXCEPT !.ids = @ \ {s}] \in Sweep
    BY <1>1 DEF Sweep
  <2> QED BY <2>1, <2>2 DEF SweepDrop, TypeOK
<1>6. CASE \E s \in Sessions : SweepWatch(w, s)
  <2>1. PICK s \in Sessions : SweepWatch(w, s)
    BY <1>6
  <2> DEFINE k == [pc |-> "expire", ids |-> sweeps[w].ids \ {s}, session |-> s,
                   seen |-> sessions[s]]
  <2>2. k \in Sweep /\ k.session \in Sessions
    BY <1>1 DEF Sweep, TypeOK
  <2>3. sweeps' = [sweeps EXCEPT ![w] = k]
    BY <2>1 DEF SweepWatch, TypeOK
  <2> HIDE DEF k
  <2> QED BY <2>1, <2>2, <2>3 DEF SweepWatch, TypeOK
<1>7. CASE SweepFails(w)
  BY <1>1, <1>7, EmptyRecords DEF SweepFails, Fault, TypeOK, NoSweep
<1> QED BY <1>2, <1>3, <1>4, <1>5, <1>6, <1>7 DEF SweepStep

LEMMA StepType == TypeOK /\ [Next]_vars => TypeOK'
<1> SUFFICES ASSUME TypeOK, [Next]_vars PROVE TypeOK'
  OBVIOUS
<1>1. CASE \E s \in Sessions : CreateSession(s)
  <2>1. PICK s \in Sessions : CreateSession(s)
    BY <1>1
  <2>2. [status |-> "pending", tx |-> None, expires |-> now + TTL] \in Session
    BY CheckoutAssumption DEF Session, TypeOK, CheckoutAssumption
  <2> QED BY <2>1, <2>2 DEF CreateSession, TypeOK
<1>2. CASE \E h \in Requests : RequestStep(h)
  BY <1>2, RequestType
<1>3. CASE \E w \in Sweepers : SweepStep(w) \/ SweepFails(w)
  BY <1>3, SweepType
<1>4. CASE \E t \in Txs : Mine(t) \/ Confirm(t) \/ Reorg(t)
  BY <1>4 DEF Mine, Confirm, Reorg, ChainMoves, Fault, TypeOK
<1>5. CASE AdvanceTime
  BY <1>5 DEF AdvanceTime, TypeOK
<1>6. CASE UNCHANGED vars
  BY <1>6 DEF vars, TypeOK
<1> QED BY <1>1, <1>2, <1>3, <1>4, <1>5, <1>6 DEF Next

(* Every key, reservation, index, request and sweeper keeps its type.      *)
THEOREM TypeCorrect == Spec => []TypeOK
BY InitType, StepType, PTL DEF Spec
-----------------------------------------------------------------------------
(* The inductive invariant *)

\* Only a completed session carries a transfer.
CarriesTx == \A s \in Sessions :
  IF Completed(s) THEN sessions[s].tx \in Txs ELSE sessions[s].tx = None

\* What a WATCH saw: a pending session and a free transfer.  The session is
\* still that one, or it is pending no more.
SeenOK ==
  /\ \A h \in Requests : requests[h].pc = "exec" =>
       /\ requests[h].seen.session.status = "pending"
       /\ requests[h].seen.session.tx = None
       /\ requests[h].seen.owner = None
       /\ \/ sessions[requests[h].session] = requests[h].seen.session
          \/ sessions[requests[h].session].status \in {"completed", "expired"}
  /\ \A w \in Sweepers : sweeps[w].pc = "expire" =>
       /\ sweeps[w].seen.status = "pending" /\ sweeps[w].seen.tx = None

\* The keys and the index agree.
KeysInv == /\ TypeOK /\ CarriesTx /\ SeenOK /\ ReservationsExact /\ ExpiringIndexExact

\* A payment that needs nobody's word: confirmed, and the logs agree.
Backed(t, s) == chain[t] = "final" /\ LogAgrees(t, s)

\* What was verified stays true.
VerifiedOK == \A h \in Requests : requests[h].pc \in {"watch", "exec", "record"} =>
  /\ CallPays(requests[h].tx, requests[h].session)
  /\ requests[h].force \/ Backed(requests[h].tx, requests[h].session)

\* A session that is being recorded is completed by that request's transfer,
\* and nobody else records it or has notified it.
RecordOK == \A h \in Requests : requests[h].pc = "record" =>
  /\ Completed(requests[h].session)
  /\ sessions[requests[h].session].tx = requests[h].tx
  /\ \A g \in Requests \ {h} :
       requests[g].pc = "record" => requests[g].session # requests[h].session
  /\ \A i \in DOMAIN events : events[i].session # requests[h].session

\* A request that lost a race has lost for good.
Beaten(h) ==
  \/ sessions[requests[h].session].status \in {"completed", "expired"}
  \/ txOwner[requests[h].tx] \notin {None, requests[h].session}

LostOK == \A h \in Requests :
  /\ requests[h].pc \in {"verify", "exec", "record"} => requests[h].tries = 0
  /\ requests[h].pc = "watch" =>
       requests[h].tries = 0 \/ (requests[h].tries = 1 /\ Beaten(h))
  /\ requests[h].pc = "idle" => requests[h].tries = 0

\* What the completions leave behind.
OutcomeInv == /\ NotifiedOnce /\ SubscriptionIsPaid /\ OrganicPaymentFinal
              /\ CompletionsRecorded

IInv == KeysInv /\ VerifiedOK /\ RecordOK /\ LostOK /\ OutcomeInv
-----------------------------------------------------------------------------
(* The keys *)

LEMMA KeysInit == Init => KeysInv
<1> SUFFICES ASSUME Init PROVE KeysInv
  OBVIOUS
<1>1. TypeOK
  BY InitType
<1>2. CarriesTx /\ SeenOK
  BY <1>1 DEF Init, CarriesTx, SeenOK, Completed, NoSession, NoRequest, NoSweep
<1>3. ReservationsExact /\ ExpiringIndexExact
  BY CheckoutAssumption DEF Init, ReservationsExact, ExpiringIndexExact, Completed,
                            NoSession, CheckoutAssumption
<1> QED BY <1>1, <1>2, <1>3 DEF KeysInv

\* What an EXEC finds, and what it leaves.
LEMMA CommitFacts ==
  ASSUME KeysInv, NEW h \in Requests, Exec(h) \/ ExecReplyLost(h)
  PROVE  LET r == requests[h] IN
         /\ r.session \in Sessions /\ r.tx \in Txs
         /\ sessions[r.session].status = "pending"
         /\ txOwner[r.tx] = None
         /\ sessions'[r.session].status = "completed"
         /\ sessions'[r.session].tx = r.tx
         /\ txOwner'[r.tx] = r.session
         /\ \A s \in Sessions \ {r.session} : sessions'[s] = sessions[s]
         /\ \A t \in Txs \ {r.tx} : txOwner'[t] = txOwner[t]
         /\ expiring' = expiring \ {r.session}
<1> DEFINE r == requests[h]
<1>1. r.pc = "exec" /\ StillAsSeen(r) /\ Commit(r)
  BY DEF Exec, ExecReplyLost
<1>2. r.session \in Sessions /\ r.tx \in Txs /\ r \in Request
  BY <1>1 DEF KeysInv, TypeOK
<1>3. /\ r.seen.session.status = "pending" /\ r.seen.session.tx = None
      /\ r.seen.owner = None
  BY <1>1 DEF KeysInv, SeenOK
<1>4. r.seen.session \in Session
  BY <1>2 DEF Request
<1>5. sessions'[r.session] = [r.seen.session EXCEPT !.status = "completed", !.tx = r.tx]
  BY <1>1, <1>2 DEF KeysInv, TypeOK, Commit
<1>6. sessions'[r.session].status = "completed" /\ sessions'[r.session].tx = r.tx
  BY <1>4, <1>5 DEF Session
<1> QED BY <1>1, <1>2, <1>3, <1>6 DEF KeysInv, TypeOK, Commit, StillAsSeen

LEMMA ExpireFacts ==
  ASSUME KeysInv, NEW w \in Sweepers, Expire(w)
  PROVE  LET k == sweeps[w] IN
         /\ k.session \in Sessions
         /\ sessions[k.session].status = "pending"
         /\ sessions'[k.session].status = "expired"
         /\ sessions'[k.session].tx = None
         /\ \A s \in Sessions \ {k.session} : sessions'[s] = sessions[s]
         /\ txOwner' = txOwner /\ expiring' = expiring \ {k.session}
<1> DEFINE k == sweeps[w]
<1>1. k.session \in Sessions /\ k \in Sweep
  BY DEF Expire, KeysInv, TypeOK
<1>2. k.seen.status = "pending" /\ k.seen.tx = None /\ k.seen \in Session
  BY <1>1 DEF Expire, KeysInv, SeenOK, Sweep
<1>3. sessions'[k.session] = [k.seen EXCEPT !.status = "expired"]
  BY <1>1 DEF Expire, KeysInv, TypeOK
<1>4. sessions'[k.session].status = "expired" /\ sessions'[k.session].tx = None
  BY <1>2, <1>3 DEF Session
<1>5. txOwner' = txOwner
  BY <1>2, CheckoutAssumption DEF Expire, KeysInv, TypeOK, CheckoutAssumption
<1> QED BY <1>1, <1>2, <1>4, <1>5 DEF Expire, KeysInv, TypeOK

\* How a session can change.
Moves(s) ==
  \/ sessions'[s] = sessions[s]
  \/ sessions[s].status = "none" /\ sessions'[s].status = "pending" /\ sessions'[s].tx = None
  \/ sessions[s].status = "pending" /\ sessions'[s].status \in {"completed", "expired"}

\* The steps that touch the keys; all others leave them alone.
LEMMA KeysTouched ==
  ASSUME [Next]_vars
  PROVE  \/ \E s \in Sessions : CreateSession(s)
         \/ \E h \in Requests : Exec(h) \/ ExecReplyLost(h)
         \/ \E w \in Sweepers : Expire(w) \/ \E s \in Sessions : SweepDrop(w, s)
         \/ UNCHANGED <<sessions, txOwner, expiring>>
<1>1. CASE \E h \in Requests : RequestStep(h)
  <2>1. PICK h \in Requests : RequestStep(h)
    BY <1>1
  <2> QED BY <2>1 DEF RequestStep, Begin, Verify, Refuse, Watch, ExecLost, Record,
                      RecordFails, Crash
<1>2. CASE \E w \in Sweepers : SweepStep(w) \/ SweepFails(w)
  <2>1. PICK w \in Sweepers : SweepStep(w) \/ SweepFails(w)
    BY <1>2
  <2> QED BY <2>1 DEF SweepStep, StartSweep, ExpireLost, EndSweep, SweepWatch, SweepFails
<1>3. CASE \E t \in Txs : Mine(t) \/ Confirm(t) \/ Reorg(t)
  BY <1>3 DEF Mine, Confirm, Reorg, ChainMoves
<1>4. CASE AdvanceTime \/ UNCHANGED vars
  BY <1>4 DEF AdvanceTime, vars
<1> QED BY <1>1, <1>2, <1>3, <1>4 DEF Next

LEMMA KeysStepStore ==
  ASSUME KeysInv, [Next]_vars
  PROVE  /\ \A s \in Sessions : Moves(s)
         /\ CarriesTx' /\ ReservationsExact' /\ ExpiringIndexExact'
<1>1. /\ TypeOK /\ CarriesTx /\ ReservationsExact /\ ExpiringIndexExact
      /\ None \notin Sessions \cup Txs
  BY CheckoutAssumption DEF KeysInv, CheckoutAssumption
<1>2. CASE \E s \in Sessions : CreateSession(s)
  <2>1. PICK s \in Sessions : CreateSession(s)
    BY <1>2
  <2>2. /\ sessions[s].status = "none" /\ sessions'[s].status = "pending"
        /\ sessions'[s].tx = None
        /\ \A z \in Sessions \ {s} : sessions'[z] = sessions[z]
        /\ txOwner' = txOwner /\ expiring' = expiring \cup {s}
    BY <1>1, <2>1 DEF CreateSession, TypeOK
  <2> QED BY <1>1, <2>2 DEF Moves, CarriesTx, ReservationsExact, ExpiringIndexExact,
                            Completed
<1>3. CASE \E h \in Requests : Exec(h) \/ ExecReplyLost(h)
  <2>1. PICK h \in Requests : Exec(h) \/ ExecReplyLost(h)
    BY <1>3
  <2> DEFINE r == requests[h]
  <2>2. /\ r.session \in Sessions /\ r.tx \in Txs
        /\ sessions[r.session].status = "pending"
        /\ txOwner[r.tx] = None
        /\ sessions'[r.session].status = "completed"
        /\ sessions'[r.session].tx = r.tx
        /\ txOwner'[r.tx] = r.session
        /\ \A s \in Sessions \ {r.session} : sessions'[s] = sessions[s]
        /\ \A t \in Txs \ {r.tx} : txOwner'[t] = txOwner[t]
        /\ expiring' = expiring \ {r.session}
    BY <2>1, CommitFacts
  <2> HIDE DEF r
  <2>3. \A s \in Sessions : Moves(s)
    BY <2>2 DEF Moves
  <2>4. CarriesTx' /\ ExpiringIndexExact'
    BY <1>1, <2>2 DEF CarriesTx, ExpiringIndexExact, Completed
  <2>5. ReservationsExact'
    <3>1. SUFFICES ASSUME NEW s \in Sessions, NEW t \in Txs
                   PROVE  txOwner'[t] = s
                            <=> sessions'[s].status = "completed" /\ sessions'[s].tx = t
      BY DEF ReservationsExact, Completed
    <3>2. txOwner[t] = s <=> sessions[s].status = "completed" /\ sessions[s].tx = t
      BY <1>1 DEF ReservationsExact, Completed
    <3>3. txOwner[r.tx] = s <=> sessions[s].status = "completed" /\ sessions[s].tx = r.tx
      BY <1>1, <2>2 DEF ReservationsExact, Completed
    <3>4. CASE s = r.session
      BY <2>2, <3>2, <3>4
    <3>5. CASE s # r.session
      BY <1>1, <2>2, <3>2, <3>3, <3>5
    <3> QED BY <3>4, <3>5
  <2> QED BY <2>3, <2>4, <2>5
<1>4. CASE \E w \in Sweepers : Expire(w)
  <2>1. PICK w \in Sweepers : Expire(w)
    BY <1>4
  <2> QED BY <1>1, <2>1, ExpireFacts DEF Moves, CarriesTx, ReservationsExact,
                                         ExpiringIndexExact, Completed
<1>5. CASE \E w \in Sweepers : \E s \in Sessions : SweepDrop(w, s)
  BY <1>1, <1>5 DEF SweepDrop, Moves, CarriesTx, ReservationsExact, ExpiringIndexExact,
                    Completed
<1>6. CASE UNCHANGED <<sessions, txOwner, expiring>>
  BY <1>1, <1>6 DEF Moves, CarriesTx, ReservationsExact, ExpiringIndexExact, Completed
<1> QED BY <1>2, <1>3, <1>4, <1>5, <1>6, KeysTouched
-----------------------------------------------------------------------------
(* The work in progress *)

\* What a step does to one request.
LEMMA RequestMoves ==
  ASSUME TypeOK, [Next]_vars, NEW h \in Requests
  PROVE  \/ requests'[h] = requests[h]
         \/ requests'[h] = NoRequest
         \/ requests'[h].pc = "verify" /\ requests'[h].tries = 0
         \/ Verify(h) \/ Watch(h) \/ Exec(h) \/ ExecLost(h)
<1>1. CASE \E g \in Requests : RequestStep(g)
  <2>1. PICK g \in Requests : RequestStep(g)
    BY <1>1
  <2>2. requests' = [requests EXCEPT ![g] = requests'[g]]
    BY <2>1 DEF RequestStep, Begin, Verify, Refuse, Watch, Exec, ExecLost, ExecReplyLost,
                Record, RecordFails, Crash, TypeOK
  <2>3. CASE g # h
    BY <2>2, <2>3 DEF TypeOK
  <2>4. CASE g = h
    <3>1. CASE \E s \in Sessions, t \in Txs, force \in BOOLEAN : Begin(h, s, t, force)
      BY <3>1 DEF Begin, NoRequest, TypeOK
    <3>2. CASE \/ Refuse(h) \/ ExecReplyLost(h) \/ Record(h) \/ RecordFails(h) \/ Crash(h)
      BY <3>2 DEF Refuse, ExecReplyLost, Record, RecordFails, Crash, TypeOK
    <3> QED BY <2>1, <2>4, <3>1, <3>2 DEF RequestStep
  <2> QED BY <2>3, <2>4
<1>2. CASE \E s \in Sessions : CreateSession(s)
  BY <1>2 DEF CreateSession
<1>3. CASE \E w \in Sweepers : SweepStep(w) \/ SweepFails(w)
  BY <1>3 DEF SweepStep, StartSweep, SweepDrop, SweepWatch, Expire, ExpireLost, EndSweep,
              SweepFails
<1>4. CASE \E t \in Txs : Mine(t) \/ Confirm(t) \/ Reorg(t)
  BY <1>4 DEF Mine, Confirm, Reorg, ChainMoves
<1>5. CASE AdvanceTime \/ UNCHANGED vars
  BY <1>5 DEF AdvanceTime, vars
<1> QED BY <1>1, <1>2, <1>3, <1>4, <1>5 DEF Next

LEMMA SweepMoves ==
  ASSUME TypeOK, [Next]_vars, NEW w \in Sweepers
  PROVE  \/ sweeps'[w] = sweeps[w]
         \/ sweeps'[w].pc # "expire"
         \/ \E s \in Sessions : SweepWatch(w, s)
<1>1. CASE \E k \in Sweepers : SweepStep(k) \/ SweepFails(k)
  <2>1. PICK k \in Sweepers : SweepStep(k) \/ SweepFails(k)
    BY <1>1
  <2>2. sweeps' = [sweeps EXCEPT ![k] = sweeps'[k]]
    <3>1. CASE StartSweep(k)
      BY <3>1 DEF StartSweep, TypeOK
    <3>2. CASE \E s \in Sessions : SweepDrop(k, s) \/ SweepWatch(k, s)
      BY <3>2 DEF SweepDrop, SweepWatch, TypeOK
    <3>3. CASE Expire(k) \/ ExpireLost(k) \/ EndSweep(k) \/ SweepFails(k)
      BY <3>3 DEF Expire, ExpireLost, EndSweep, SweepFails, TypeOK
    <3> QED BY <2>1, <3>1, <3>2, <3>3 DEF SweepStep
  <2>3. CASE k # w
    BY <2>2, <2>3 DEF TypeOK
  <2>4. CASE k = w
    <3>1. CASE StartSweep(w)
      BY <3>1 DEF StartSweep, TypeOK, Sweeping, NoSweep
    <3>2. CASE \E s \in Sessions : SweepDrop(w, s)
      BY <3>2 DEF SweepDrop, TypeOK
    <3>3. CASE Expire(w) \/ ExpireLost(w) \/ EndSweep(w) \/ SweepFails(w)
      <4>1. NoSweep.pc # "expire" /\ \A Q : Sweeping(Q).pc # "expire"
        BY DEF Sweeping, NoSweep
      <4>2. sweeps'[w] = NoSweep \/ \E Q : sweeps'[w] = Sweeping(Q)
        BY <3>3 DEF Expire, ExpireLost, EndSweep, SweepFails, TypeOK
      <4> QED BY <4>1, <4>2
    <3> QED BY <2>1, <2>4, <3>1, <3>2, <3>3 DEF SweepStep
  <2> QED BY <2>3, <2>4
<1>2. CASE \E s \in Sessions : CreateSession(s)
  BY <1>2 DEF CreateSession
<1>3. CASE \E h \in Requests : RequestStep(h)
  BY <1>3 DEF RequestStep, Begin, Verify, Refuse, Watch, Exec, ExecLost, ExecReplyLost,
              Record, RecordFails, Crash
<1>4. CASE \E t \in Txs : Mine(t) \/ Confirm(t) \/ Reorg(t)
  BY <1>4 DEF Mine, Confirm, Reorg, ChainMoves
<1>5. CASE AdvanceTime \/ UNCHANGED vars
  BY <1>5 DEF AdvanceTime, vars
<1> QED BY <1>1, <1>2, <1>3, <1>4, <1>5 DEF Next

LEMMA KeysStep == KeysInv /\ [Next]_vars => KeysInv'
<1> SUFFICES ASSUME KeysInv, [Next]_vars PROVE KeysInv'
  OBVIOUS
<1>1. /\ TypeOK /\ CarriesTx /\ ReservationsExact /\ SeenOK
  BY DEF KeysInv
<1>2. TypeOK'
  BY <1>1, StepType
<1>3. /\ \A s \in Sessions : Moves(s)
      /\ CarriesTx' /\ ReservationsExact' /\ ExpiringIndexExact'
  BY KeysStepStore
<1>4. ASSUME NEW h \in Requests, requests'[h].pc = "exec"
      PROVE  /\ requests'[h].seen.session.status = "pending"
             /\ requests'[h].seen.session.tx = None
             /\ requests'[h].seen.owner = None
             /\ \/ sessions'[requests'[h].session] = requests'[h].seen.session
                \/ sessions'[requests'[h].session].status \in {"completed", "expired"}
  <2>1. requests[h] \in Request /\ requests'[h].session \in Sessions
    BY <1>1, <1>2, <1>4 DEF TypeOK
  <2>2. \/ requests'[h] = requests[h]
        \/ Watch(h)
    <3>1. NoRequest.pc # "exec"
      BY DEF NoRequest
    <3>2. CASE Verify(h) \/ Exec(h)
      <4>1. requests'[h].pc \in {"watch", "record"}
        BY <1>1, <2>1, <3>2 DEF Verify, Exec, TypeOK, Request
      <4> QED BY <1>4, <4>1
    <3>3. CASE ExecLost(h)
      BY <1>1, <1>4, <3>1, <3>3 DEF ExecLost, TypeOK
    <3> QED BY <1>1, <1>4, <3>1, <3>2, <3>3, RequestMoves
  <2>3. CASE requests'[h] = requests[h]
    BY <1>1, <1>3, <1>4, <2>1, <2>3 DEF SeenOK, Moves
  <2>4. CASE Watch(h)
    <3> DEFINE s == requests[h].session
               t == requests[h].tx
    <3>1. s \in Sessions /\ t \in Txs /\ sessions[s].status = "pending"
          /\ txOwner[t] \in {None, s} /\ sessions' = sessions
      BY <1>1, <2>4 DEF Watch, TypeOK
    <3>2. sessions[s].tx = None /\ txOwner[t] = None
      BY <1>1, <3>1 DEF CarriesTx, ReservationsExact, Completed
    <3>3. /\ requests'[h].seen.session = sessions[s]
          /\ requests'[h].seen.owner = txOwner[t]
          /\ requests'[h].session = s
      BY <1>1, <2>1, <2>4 DEF Watch, TypeOK, Request
    <3> QED BY <3>1, <3>2, <3>3
  <2> QED BY <2>2, <2>3, <2>4
<1>5. ASSUME NEW w \in Sweepers, sweeps'[w].pc = "expire"
      PROVE  sweeps'[w].seen.status = "pending" /\ sweeps'[w].seen.tx = None
  <2>1. CASE sweeps'[w] = sweeps[w]
    BY <1>1, <1>5, <2>1 DEF SeenOK
  <2>2. CASE \E s \in Sessions : SweepWatch(w, s)
    BY <1>1, <2>2 DEF SweepWatch, TypeOK, CarriesTx, Completed
  <2> QED BY <1>1, <1>5, <2>1, <2>2, SweepMoves
<1>6. SeenOK'
  BY <1>4, <1>5 DEF SeenOK
<1> QED BY <1>2, <1>3, <1>6 DEF KeysInv

(* One transfer never completes two sessions: the double-spend guard of    *)
(* CompleteSession holds against any number of requests and sweepers.      *)
THEOREM DoubleSpendGuard == Spec => []OnePaymentOneSession
<1>1. KeysInv => OnePaymentOneSession
  BY CheckoutAssumption
     DEF KeysInv, CarriesTx, ReservationsExact, OnePaymentOneSession, Completed
<1> QED BY <1>1, KeysInit, KeysStep, PTL DEF Spec

(* CompleteSession's reservations are those of the completed sessions.     *)
THEOREM KeysAgree == Spec => []ReservationsExact
<1>1. KeysInv => ReservationsExact
  BY DEF KeysInv
<1> QED BY <1>1, KeysInit, KeysStep, PTL DEF Spec

(* The index the sweeper reads holds the pending sessions and no others,   *)
(* whatever completes and expires at the same time.                        *)
THEOREM IndexAgrees == Spec => []ExpiringIndexExact
<1>1. KeysInv => ExpiringIndexExact
  BY DEF KeysInv
<1> QED BY <1>1, KeysInit, KeysStep, PTL DEF Spec

(* No request, sweeper or operator changes a completed or expired session. *)
THEOREM TerminalStates == Spec => TerminalIsFinal
<1>1. KeysInv /\ [Next]_vars
        => [\A s \in Sessions : sessions[s].status \in {"completed", "expired"}
                                  => sessions'[s] = sessions[s]]_vars
  BY KeysStepStore DEF Moves
<1> QED BY <1>1, KeysInit, KeysStep, PTL DEF Spec, TerminalIsFinal
-----------------------------------------------------------------------------
(* What a request has verified, and what it has lost *)

LEMMA FinalStable ==
  ASSUME TypeOK, [Next]_vars, NEW t \in Txs, chain[t] = "final"
  PROVE  chain'[t] = "final"
<1>1. CASE \E z \in Txs : Mine(z) \/ Confirm(z) \/ Reorg(z)
  BY <1>1 DEF Mine, Confirm, Reorg, ChainMoves, TypeOK
<1>2. CASE \E h \in Requests : RequestStep(h)
  BY <1>2 DEF RequestStep, Begin, Verify, Refuse, Watch, Exec, ExecLost, ExecReplyLost,
              Record, RecordFails, Crash
<1>3. CASE \E w \in Sweepers : SweepStep(w) \/ SweepFails(w)
  BY <1>3 DEF SweepStep, StartSweep, SweepDrop, SweepWatch, Expire, ExpireLost, EndSweep,
              SweepFails
<1>4. CASE \E s \in Sessions : CreateSession(s)
  BY <1>4 DEF CreateSession
<1>5. CASE AdvanceTime \/ UNCHANGED vars
  BY <1>5 DEF AdvanceTime, vars
<1> QED BY <1>1, <1>2, <1>3, <1>4, <1>5 DEF Next

LEMMA VerifiedStep ==
  ASSUME TypeOK, VerifiedOK, [Next]_vars
  PROVE  VerifiedOK'
<1>1. SUFFICES ASSUME NEW h \in Requests, requests'[h].pc \in {"watch", "exec", "record"}
               PROVE  /\ CallPays(requests'[h].tx, requests'[h].session)
                      /\ \/ requests'[h].force
                         \/ /\ chain'[requests'[h].tx] = "final"
                            /\ LogAgrees(requests'[h].tx, requests'[h].session)
  BY DEF VerifiedOK, Backed
<1>2. requests[h] \in Request /\ (requests[h].pc # "idle" => requests[h].tx \in Txs)
  BY DEF TypeOK
<1>3. NoRequest.pc = "idle"
  BY DEF NoRequest
<1>4. CASE Verify(h)
  BY <1>2, <1>4 DEF Verify, Verified, Fetched, TypeOK, Request
<1>5. CASE Watch(h) \/ Exec(h) \/ ExecLost(h) \/ requests'[h] = requests[h]
  <2>1. /\ requests[h].pc \in {"watch", "exec", "record"}
        /\ requests'[h].tx = requests[h].tx /\ requests'[h].session = requests[h].session
        /\ requests'[h].force = requests[h].force
    <3>1. CASE Watch(h)
      BY <1>2, <3>1 DEF Watch, TypeOK, Request
    <3>2. CASE Exec(h)
      BY <1>2, <3>2 DEF Exec, TypeOK, Request
    <3>3. CASE ExecLost(h)
      BY <1>1, <1>2, <1>3, <3>3 DEF ExecLost, TypeOK, Request
    <3> QED BY <1>1, <1>5, <3>1, <3>2, <3>3
  <2>2. /\ CallPays(requests[h].tx, requests[h].session)
        /\ requests[h].force \/ Backed(requests[h].tx, requests[h].session)
    BY <2>1 DEF VerifiedOK
  <2> QED BY <1>2, <2>1, <2>2, FinalStable DEF Backed
<1> QED BY <1>1, <1>3, <1>4, <1>5, RequestMoves

LEMMA LostStep ==
  ASSUME KeysInv, LostOK, [Next]_vars
  PROVE  LostOK'
<1>1. /\ TypeOK /\ TypeOK' /\ SeenOK /\ ReservationsExact /\ ReservationsExact'
      /\ \A s \in Sessions : Moves(s)
      /\ None \notin Sessions
  BY KeysStep, KeysStepStore, CheckoutAssumption DEF KeysInv, CheckoutAssumption
<1>2. SUFFICES ASSUME NEW h \in Requests
               PROVE  /\ requests'[h].pc # "watch" => requests'[h].tries = 0
                      /\ requests'[h].pc = "watch" =>
                           \/ requests'[h].tries = 0
                           \/ requests'[h].tries = 1 /\ Beaten(h)'
  BY DEF LostOK
<1>3. /\ requests[h] \in Request
      /\ requests[h].pc # "idle" => requests[h].session \in Sessions
                                    /\ requests[h].tx \in Txs
      /\ requests[h].pc # "watch" => requests[h].tries = 0
      /\ requests[h].pc = "watch" =>
           requests[h].tries = 0 \/ (requests[h].tries = 1 /\ Beaten(h))
  BY <1>1 DEF TypeOK, LostOK, Request
<1>4. NoRequest.pc = "idle" /\ NoRequest.tries = 0
  BY DEF NoRequest
<1>5. CASE requests'[h] = requests[h]
  <2>1. ASSUME requests[h].pc = "watch", Beaten(h)
        PROVE  Beaten(h)'
    <3> DEFINE s == requests[h].session
               t == requests[h].tx
    <3>1. s \in Sessions /\ t \in Txs
      BY <1>3, <2>1
    <3>2. CASE sessions[s].status \in {"completed", "expired"}
      <4>1. sessions'[s] = sessions[s]
        BY <1>1, <3>1, <3>2 DEF Moves
      <4> QED BY <1>5, <3>2, <4>1 DEF Beaten
    <3>3. CASE txOwner[t] \notin {None, s}
      <4>1. PICK z \in Sessions : txOwner[t] = z /\ z # s
        BY <1>1, <3>1, <3>3 DEF TypeOK
      <4>2. sessions[z].status = "completed" /\ sessions[z].tx = t
        BY <1>1, <3>1, <4>1 DEF ReservationsExact, Completed
      <4>3. sessions'[z] = sessions[z]
        BY <1>1, <4>2 DEF Moves
      <4>4. txOwner'[t] = z
        BY <1>1, <3>1, <4>2, <4>3 DEF ReservationsExact, Completed
      <4> QED BY <1>1, <1>5, <4>1, <4>4 DEF Beaten
    <3> QED BY <2>1, <3>2, <3>3 DEF Beaten
  <2> QED BY <1>3, <1>5, <2>1
<1>6. CASE Verify(h)
  <2>1. requests'[h].tries = 0 /\ requests'[h].pc = "watch"
    BY <1>1, <1>3, <1>6 DEF Verify, TypeOK, Request
  <2> QED BY <2>1
<1>7. CASE Watch(h) \/ Exec(h)
  <2>1. requests'[h].tries = requests[h].tries
    <3>1. CASE Watch(h)
      BY <1>1, <1>3, <3>1 DEF Watch, TypeOK, Request
    <3>2. CASE Exec(h)
      BY <1>1, <1>3, <3>2 DEF Exec, TypeOK, Request
    <3> QED BY <1>7, <3>1, <3>2
  <2>2. requests[h].tries = 0
    <3>1. CASE Watch(h)
      <4>1. ~Beaten(h)
        BY <3>1 DEF Watch, Beaten
      <4> QED BY <1>3, <3>1, <4>1 DEF Watch
    <3>2. CASE Exec(h)
      BY <1>3, <3>2 DEF Exec
    <3> QED BY <1>7, <3>1, <3>2
  <2> QED BY <2>1, <2>2
<1>8. CASE ExecLost(h)
  <2> DEFINE s == requests[h].session
             t == requests[h].tx
  <2>1. requests[h].pc = "exec" /\ ~StillAsSeen(requests[h])
        /\ sessions' = sessions /\ txOwner' = txOwner
    BY <1>8 DEF ExecLost
  <2>2. s \in Sessions /\ t \in Txs /\ requests[h].tries = 0
    BY <1>3, <2>1
  <2>3. Beaten(h)
    <3>1. CASE sessions[s] # requests[h].seen.session
      BY <1>1, <2>1, <3>1 DEF SeenOK, Beaten
    <3>2. CASE txOwner[t] # requests[h].seen.owner
      <4>1. txOwner[t] # None
        BY <1>1, <2>1, <3>2 DEF SeenOK
      <4>2. CASE txOwner[t] = s
        BY <1>1, <2>2, <4>2 DEF ReservationsExact, Completed, Beaten
      <4> QED BY <4>1, <4>2 DEF Beaten
    <3> QED BY <2>1, <3>1, <3>2 DEF StillAsSeen
  <2>4. CASE requests'[h] = NoRequest
    BY <1>4, <2>4
  <2>5. CASE requests'[h] = [requests[h] EXCEPT !.pc = "watch",
                                                !.tries = requests[h].tries + 1]
    <3>1. /\ requests'[h].pc = "watch" /\ requests'[h].tries = requests[h].tries + 1
          /\ requests'[h].session = s /\ requests'[h].tx = t
      BY <1>3, <2>5 DEF Request
    <3> QED BY <2>1, <2>2, <2>3, <3>1 DEF Beaten
  <2> QED BY <1>1, <1>8, <2>4, <2>5 DEF ExecLost, TypeOK
<1> QED BY <1>1, <1>4, <1>5, <1>6, <1>7, <1>8, RequestMoves

LEMMA ProgressInit == Init => VerifiedOK /\ LostOK
BY DEF Init, VerifiedOK, LostOK, NoRequest

(* The WATCH race is lost at most once: a request that lost it is refused  *)
(* on its next read, so the five attempts of CompleteSession never run out.*)
THEOREM RaceIsLostOnce == Spec => []RaceLostOnce
<1> DEFINE I == KeysInv /\ LostOK
<1>1. Init => I
  BY KeysInit, ProgressInit
<1>2. I /\ [Next]_vars => I'
  BY KeysStep, LostStep
<1>3. I => RaceLostOnce
  <2>1. SUFFICES ASSUME TypeOK, LostOK, NEW h \in Requests PROVE requests[h].tries <= 1
    BY DEF KeysInv, RaceLostOnce
  <2>2. requests[h].pc \in {"idle", "verify", "watch", "exec", "record"}
    BY <2>1 DEF TypeOK, Request
  <2>3. requests[h].tries \in {0, 1}
    BY <2>1, <2>2 DEF LostOK
  <2> QED BY <2>3
<1> QED BY <1>1, <1>2, <1>3, PTL DEF Spec
-----------------------------------------------------------------------------
(* What a completion leaves behind *)

\* A step that completes a session, one that ends its recording, the rest.
LEMMA OutcomeMoves ==
  ASSUME [Next]_vars
  PROVE  \/ \E h \in Requests : Exec(h) \/ ExecReplyLost(h) \/ Record(h)
                                \/ RecordFails(h) \/ Crash(h)
         \/ UNCHANGED <<subs, events, blamed>>
<1>1. CASE \E h \in Requests : RequestStep(h)
  BY <1>1 DEF RequestStep, Begin, Verify, Refuse, Watch, ExecLost
<1>2. CASE \E w \in Sweepers : SweepStep(w) \/ SweepFails(w)
  BY <1>2 DEF SweepStep, StartSweep, SweepDrop, SweepWatch, Expire, ExpireLost, EndSweep,
              SweepFails
<1>3. CASE \E t \in Txs : Mine(t) \/ Confirm(t) \/ Reorg(t)
  BY <1>3 DEF Mine, Confirm, Reorg, ChainMoves
<1>4. CASE (\E s \in Sessions : CreateSession(s)) \/ AdvanceTime \/ UNCHANGED vars
  BY <1>4 DEF CreateSession, AdvanceTime, vars
<1> QED BY <1>1, <1>2, <1>3, <1>4 DEF Next

\* Completed sessions stay as they are, and the newly completed one is the
\* one whose EXEC it was.
LEMMA CompletedMoves ==
  ASSUME KeysInv, [Next]_vars, NEW s \in Sessions
  PROVE  /\ Completed(s) => Completed(s)' /\ sessions'[s] = sessions[s]
         /\ Completed(s)' /\ ~Completed(s) =>
              \E h \in Requests : /\ Exec(h) \/ ExecReplyLost(h)
                                  /\ requests[h].session = s
                                  /\ sessions'[s].tx = requests[h].tx
<1>1. Completed(s) => Completed(s)' /\ sessions'[s] = sessions[s]
  BY KeysStepStore DEF Moves, Completed
<1>2. ASSUME Completed(s)', ~Completed(s)
      PROVE  \E h \in Requests : /\ Exec(h) \/ ExecReplyLost(h)
                                 /\ requests[h].session = s
                                 /\ sessions'[s].tx = requests[h].tx
  <2>1. CASE \E z \in Sessions : CreateSession(z)
    BY <1>2, <2>1 DEF CreateSession, Completed, KeysInv, TypeOK
  <2>2. CASE \E h \in Requests : Exec(h) \/ ExecReplyLost(h)
    <3>1. PICK h \in Requests : Exec(h) \/ ExecReplyLost(h)
      BY <2>2
    <3>2. /\ sessions'[requests[h].session].tx = requests[h].tx
          /\ \A z \in Sessions \ {requests[h].session} : sessions'[z] = sessions[z]
      BY <3>1, CommitFacts
    <3>3. requests[h].session = s
      BY <1>2, <3>2 DEF Completed
    <3> QED BY <3>1, <3>2, <3>3
  <2>3. CASE \E w \in Sweepers : Expire(w)
    BY <1>2, <2>3, ExpireFacts DEF Completed
  <2>4. CASE \E w \in Sweepers : \E z \in Sessions : SweepDrop(w, z)
    BY <1>2, <2>4 DEF SweepDrop, Completed
  <2> QED BY <1>2, <2>1, <2>2, <2>3, <2>4, KeysTouched DEF Completed
<1> QED BY <1>1, <1>2

\* Only its own Record, RecordFails or Crash takes a request out of "record".
LEMMA RecordingStays ==
  ASSUME TypeOK, [Next]_vars, NEW g \in Requests, requests[g].pc = "record"
  PROVE  requests'[g] = requests[g] \/ Record(g) \/ RecordFails(g) \/ Crash(g)
<1>1. CASE \E h \in Requests : RequestStep(h)
  <2>1. PICK h \in Requests : RequestStep(h)
    BY <1>1
  <2>2. CASE h = g
    BY <2>1, <2>2 DEF RequestStep, Begin, Verify, Refuse, Watch, Exec, ExecLost,
                      ExecReplyLost
  <2>3. CASE h # g
    <3>1. requests' = [requests EXCEPT ![h] = requests'[h]]
      BY <2>1 DEF RequestStep, Begin, Verify, Refuse, Watch, Exec, ExecLost,
                  ExecReplyLost, Record, RecordFails, Crash, TypeOK
    <3> QED BY <2>3, <3>1 DEF TypeOK
  <2> QED BY <2>2, <2>3
<1>2. CASE \E w \in Sweepers : SweepStep(w) \/ SweepFails(w)
  BY <1>2 DEF SweepStep, StartSweep, SweepDrop, SweepWatch, Expire, ExpireLost, EndSweep,
              SweepFails
<1>3. CASE \E t \in Txs : Mine(t) \/ Confirm(t) \/ Reorg(t)
  BY <1>3 DEF Mine, Confirm, Reorg, ChainMoves
<1>4. CASE (\E s \in Sessions : CreateSession(s)) \/ AdvanceTime \/ UNCHANGED vars
  BY <1>4 DEF CreateSession, AdvanceTime, vars
<1> QED BY <1>1, <1>2, <1>3, <1>4 DEF Next

LEMMA EmitFacts ==
  ASSUME TypeOK, NEW r \in Request, r.session \in Sessions, Emit(r)
  PROVE  /\ DOMAIN events = 1..Len(events) /\ Len(events) \in Nat
         /\ DOMAIN events' = 1..(Len(events) + 1)
         /\ \A i \in 1..Len(events) : events'[i] = events[i]
         /\ events'[Len(events) + 1].session = r.session
         /\ events'[Len(events) + 1].recovered = r.force
<1> DEFINE e == [session |-> r.session, recovered |-> r.force]
<1>1. e \in Event /\ e.session = r.session /\ e.recovered = r.force
  BY DEF Event, Request
<1>2. events' = Append(events, e) /\ events \in Seq(Event)
  BY DEF Emit, TypeOK
<1> HIDE DEF e
<1> QED BY <1>1, <1>2

\* The events of a step: none, or one of a request that was recording.
LEMMA EventMoves ==
  ASSUME TypeOK, [Next]_vars
  PROVE  \/ events' = events
         \/ \E h \in Requests : /\ Record(h) \/ RecordFails(h)
                                /\ requests[h].pc = "record" /\ Emit(requests[h])
                                /\ requests'[h] = NoRequest /\ sessions' = sessions
                                /\ chain' = chain
<1>1. CASE \E h \in Requests : Exec(h) \/ ExecReplyLost(h) \/ Crash(h)
  BY <1>1 DEF Exec, ExecReplyLost, Crash
<1>2. CASE \E h \in Requests : Record(h) \/ RecordFails(h)
  BY <1>2 DEF Record, RecordFails, TypeOK
<1> QED BY <1>1, <1>2, OutcomeMoves

LEMMA RecordStep ==
  ASSUME KeysInv, RecordOK, NotifiedOnce, [Next]_vars
  PROVE  RecordOK' /\ NotifiedOnce'
<1>1. TypeOK /\ TypeOK' /\ NoRequest.pc = "idle"
  BY KeysStep DEF KeysInv, NoRequest
<1>2. ASSUME NEW h \in Requests, requests'[h].pc = "record"
      PROVE  \/ requests'[h] = requests[h]
             \/ /\ Exec(h) /\ events' = events
                /\ requests'[h].session = requests[h].session
                /\ requests'[h].tx = requests[h].tx
  <2>1. requests[h] \in Request
    BY <1>1 DEF TypeOK
  <2>2. ~Verify(h) /\ ~Watch(h) /\ ~ExecLost(h)
    <3>1. ~Verify(h) /\ ~Watch(h)
      BY <1>1, <1>2, <2>1 DEF Verify, Watch, TypeOK, Request
    <3>2. ExecLost(h) => requests'[h].pc \in {"idle", "watch"}
      BY <1>1, <2>1 DEF ExecLost, TypeOK, Request
    <3> QED BY <1>2, <3>1, <3>2
  <2>3. Exec(h) => /\ events' = events
                   /\ requests'[h].session = requests[h].session
                   /\ requests'[h].tx = requests[h].tx
    BY <1>1, <2>1 DEF Exec, TypeOK, Request
  <2> QED BY <1>1, <1>2, <2>2, <2>3, RequestMoves
<1>3. \A i \in DOMAIN events : events[i].session \in Sessions
  <2>1. \A i \in DOMAIN events : events[i] \in Event
    BY <1>1 DEF TypeOK
  <2> QED BY <2>1 DEF Event
<1>4. ASSUME NEW h \in Requests, requests'[h].pc = "record"
      PROVE  /\ sessions'[requests'[h].session].status = "completed"
             /\ sessions'[requests'[h].session].tx = requests'[h].tx
             /\ requests[h].pc = "record" =>
                  requests'[h] = requests[h] /\ Completed(requests[h].session)
             /\ requests[h].pc # "record" =>
                  /\ ~Completed(requests'[h].session) /\ events' = events
                  /\ Exec(h)
  <2>1. CASE requests'[h] = requests[h]
    <3>1. /\ requests[h].session \in Sessions /\ Completed(requests[h].session)
          /\ sessions[requests[h].session].tx = requests[h].tx
      BY <1>1, <1>4, <2>1 DEF RecordOK, TypeOK
    <3>2. sessions'[requests[h].session] = sessions[requests[h].session]
      BY <3>1, CompletedMoves
    <3> QED BY <1>4, <2>1, <3>1, <3>2 DEF Completed
  <2>2. CASE /\ Exec(h) /\ events' = events
             /\ requests'[h].session = requests[h].session
             /\ requests'[h].tx = requests[h].tx
    <3>1. requests[h].pc = "exec"
      BY <2>2 DEF Exec
    <3>2. /\ sessions'[requests[h].session].status = "completed"
          /\ sessions'[requests[h].session].tx = requests[h].tx
          /\ sessions[requests[h].session].status = "pending"
      BY <2>2, CommitFacts
    <3> QED BY <2>2, <3>1, <3>2 DEF Completed
  <2> QED BY <1>2, <1>4, <2>1, <2>2
<1>5. ASSUME NEW h \in Requests, requests'[h].pc = "record",
             NEW g \in Requests \ {h}, requests'[g].pc = "record"
      PROVE  requests'[g].session # requests'[h].session
  <2>1. CASE requests[h].pc = "record" /\ requests[g].pc = "record"
    BY <1>4, <1>5, <2>1 DEF RecordOK
  <2>2. CASE requests[h].pc # "record" /\ requests[g].pc = "record"
    BY <1>4, <1>5, <2>2
  <2>3. CASE requests[h].pc = "record" /\ requests[g].pc # "record"
    BY <1>4, <1>5, <2>3
  <2>4. CASE requests[h].pc # "record" /\ requests[g].pc # "record"
    <3>1. Exec(h) /\ Exec(g)
      BY <1>4, <1>5, <2>4
    <3>2. requests' = [requests EXCEPT ![h].pc = "record"] /\ requests[g].pc = "exec"
      BY <3>1 DEF Exec
    <3>3. requests'[g] = requests[g]
      BY <1>1, <1>5, <3>2 DEF TypeOK
    <3> QED BY <1>5, <3>2, <3>3
  <2> QED BY <2>1, <2>2, <2>3, <2>4
<1>6. ASSUME NEW h \in Requests, requests'[h].pc = "record", NEW i \in DOMAIN events'
      PROVE  events'[i].session # requests'[h].session
  <2>1. CASE requests[h].pc # "record"
    BY <1>4, <1>6, <2>1 DEF NotifiedOnce
  <2>2. CASE requests[h].pc = "record" /\ events' = events
    BY <1>4, <1>6, <2>2 DEF RecordOK
  <2>3. ASSUME requests[h].pc = "record",
               NEW g \in Requests, requests[g].pc = "record", Emit(requests[g]),
               requests'[g] = NoRequest
        PROVE  events'[i].session # requests'[h].session
    <3>1. g # h
      BY <1>1, <1>6, <2>3
    <3>2. requests[g] \in Request /\ requests[g].session \in Sessions
      BY <1>1, <2>3 DEF TypeOK
    <3>3. requests'[h] = requests[h]
      BY <1>4, <1>6, <2>3
    <3>4. requests[g].session # requests[h].session
      BY <2>3, <3>1 DEF RecordOK
    <3>5. CASE i \in 1..Len(events)
      BY <1>1, <2>3, <3>2, <3>3, <3>5, EmitFacts DEF RecordOK
    <3>6. CASE i = Len(events) + 1
      BY <1>1, <2>3, <3>2, <3>3, <3>4, <3>6, EmitFacts
    <3>7. i \in 1..(Len(events) + 1) /\ Len(events) \in Nat
      BY <1>1, <1>6, <2>3, <3>2, EmitFacts
    <3> QED BY <3>5, <3>6, <3>7
  <2> QED BY <1>1, <2>1, <2>2, <2>3, EventMoves
<1>7. RecordOK'
  BY <1>4, <1>5, <1>6 DEF RecordOK, Completed
<1>8. NotifiedOnce'
  <2>1. CASE events' = events
    BY <1>3, <2>1, CompletedMoves DEF NotifiedOnce
  <2>2. ASSUME NEW g \in Requests, requests[g].pc = "record", Emit(requests[g]),
               sessions' = sessions
        PROVE  NotifiedOnce'
    <3> DEFINE n == Len(events) + 1
    <3>1. requests[g] \in Request /\ requests[g].session \in Sessions
      BY <1>1, <2>2 DEF TypeOK
    <3>2. /\ DOMAIN events = 1..Len(events) /\ Len(events) \in Nat
          /\ DOMAIN events' = 1..n
          /\ \A i \in 1..Len(events) : events'[i] = events[i]
          /\ events'[n].session = requests[g].session
      BY <1>1, <2>2, <3>1, EmitFacts
    <3>3. /\ Completed(requests[g].session)
          /\ \A i \in 1..Len(events) : events[i].session # requests[g].session
      BY <2>2, <3>2 DEF RecordOK
    <3>4. \A i \in 1..n : i \in 1..Len(events) \/ i = n
      BY <3>2
    <3> HIDE DEF n
    <3>5. \A i, j \in 1..n : i # j => events'[i].session # events'[j].session
      BY <3>2, <3>3, <3>4 DEF NotifiedOnce
    <3>6. \A i \in 1..n : Completed(events'[i].session)
      BY <3>2, <3>3, <3>4 DEF NotifiedOnce
    <3> QED BY <2>2, <3>2, <3>5, <3>6 DEF NotifiedOnce, Completed
  <2> QED BY <1>1, <2>1, <2>2, EventMoves
<1> QED BY <1>7, <1>8

\* A log that passes the check of completeSession is the token's own record of
\* the payment.
LEMMA LogIsReceipt ==
  ASSUME NEW t \in Txs, NEW s \in Sessions, LogAgrees(t, s)
  PROVE  Received(t, s)
<1>1. PICK i \in DOMAIN Tx[t].logs :
        /\ Tx[t].logs[i].emitter = Token /\ Tx[t].logs[i].value = Price[s]
        /\ Tx[t].logs[i].from = From[t] /\ Tx[t].logs[i].to = Treasury
  BY DEF LogAgrees, LogsOf
<1>2. Tx[t].logs \in Seq(Log)
  BY PaymentAssumption DEF PaymentAssumption, Transaction
<1>3. Tx[t].logs[i] \in Log
  BY <1>1, <1>2
<1>4. Tx[t].logs[i] = [emitter |-> Token, from |-> From[t], to |-> Treasury,
                       value |-> Price[s]]
  BY <1>1, <1>3 DEF Log
<1> QED BY <1>1, <1>4 DEF Received

\* The record, verification and type facts of a request about to record.
LEMMA RecorderFacts ==
  ASSUME KeysInv, VerifiedOK, RecordOK, NEW h \in Requests, requests[h].pc = "record"
  PROVE  LET r == requests[h] IN
         /\ r \in Request /\ r.session \in Sessions /\ r.tx \in Txs
         /\ From[r.tx] \in Wallets
         /\ Completed(r.session) /\ sessions[r.session].tx = r.tx
         /\ CallPays(r.tx, r.session)
         /\ r.force \/ Backed(r.tx, r.session)
BY PaymentAssumption DEF KeysInv, TypeOK, VerifiedOK, RecordOK, PaymentAssumption

LEMMA PaidStep ==
  ASSUME KeysInv, VerifiedOK, RecordOK, NotifiedOnce, SubscriptionIsPaid,
         OrganicPaymentFinal, [Next]_vars
  PROVE  SubscriptionIsPaid' /\ OrganicPaymentFinal'
<1>1. TypeOK /\ CarriesTx
  BY DEF KeysInv
<1>2. \A s \in Sessions : Completed(s) => Completed(s)' /\ sessions'[s] = sessions[s]
  BY CompletedMoves
<1>3. SubscriptionIsPaid'
  <2>1. CASE subs' = subs
    BY <1>2, <2>1 DEF SubscriptionIsPaid
  <2>2. CASE \E h \in Requests : Record(h)
    <3>1. PICK h \in Requests : Record(h)
      BY <2>2
    <3> DEFINE r == requests[h]
    <3>2. /\ r.pc = "record" /\ subs' = [subs EXCEPT ![From[r.tx]] = r.session]
          /\ sessions' = sessions
      BY <3>1 DEF Record
    <3>3. /\ r.session \in Sessions /\ From[r.tx] \in Wallets
          /\ Completed(r.session) /\ sessions[r.session].tx = r.tx
          /\ CallPays(r.tx, r.session)
      BY <3>2, RecorderFacts
    <3>4. \A w \in Wallets : subs'[w] = IF w = From[r.tx] THEN r.session ELSE subs[w]
      BY <1>1, <3>2, <3>3 DEF TypeOK
    <3> HIDE DEF r
    <3> QED BY <3>2, <3>3, <3>4 DEF SubscriptionIsPaid, Completed
  <2> QED BY <2>1, <2>2, OutcomeMoves DEF Exec, ExecReplyLost, RecordFails, Crash
<1>4. OrganicPaymentFinal'
  <2>1. \A i \in DOMAIN events : events[i].session \in Sessions
    <3>1. \A i \in DOMAIN events : events[i] \in Event
      BY <1>1 DEF TypeOK
    <3> QED BY <3>1 DEF Event
  <2>2. ASSUME NEW i \in DOMAIN events, ~events[i].recovered
        PROVE  /\ chain'[sessions'[events[i].session].tx] = "final"
               /\ Received(sessions'[events[i].session].tx, events[i].session)
    <3> DEFINE s == events[i].session
    <3>1. /\ s \in Sessions /\ Completed(s) /\ chain[sessions[s].tx] = "final"
          /\ Received(sessions[s].tx, s)
      BY <2>1, <2>2 DEF NotifiedOnce, OrganicPaymentFinal
    <3>2. sessions[s].tx \in Txs /\ sessions'[s] = sessions[s]
      BY <1>1, <1>2, <3>1 DEF CarriesTx
    <3> QED BY <1>1, <3>1, <3>2, FinalStable
  <2>3. CASE events' = events
    BY <2>2, <2>3 DEF OrganicPaymentFinal
  <2>4. ASSUME NEW h \in Requests, requests[h].pc = "record", Emit(requests[h]),
               sessions' = sessions, chain' = chain
        PROVE  OrganicPaymentFinal'
    <3> DEFINE n == Len(events) + 1
               r == requests[h]
    <3>1. /\ r \in Request /\ r.session \in Sessions
          /\ sessions[r.session].tx = r.tx
          /\ r.force \/ (chain[r.tx] = "final" /\ Received(r.tx, r.session))
      <4>1. /\ r \in Request /\ r.session \in Sessions /\ r.tx \in Txs
            /\ sessions[r.session].tx = r.tx
            /\ r.force \/ Backed(r.tx, r.session)
        BY <2>4, RecorderFacts
      <4> HIDE DEF r
      <4>2. Backed(r.tx, r.session) => LogAgrees(r.tx, r.session) /\ chain[r.tx] = "final"
        BY DEF Backed
      <4>3. LogAgrees(r.tx, r.session) => Received(r.tx, r.session)
        BY <4>1, LogIsReceipt
      <4> QED BY <4>1, <4>2, <4>3
    <3>2. /\ DOMAIN events = 1..Len(events) /\ Len(events) \in Nat
          /\ DOMAIN events' = 1..n
          /\ \A i \in 1..Len(events) : events'[i] = events[i]
          /\ events'[n].session = r.session /\ events'[n].recovered = r.force
      BY <1>1, <2>4, <3>1, EmitFacts
    <3>3. \A i \in 1..n : i \in 1..Len(events) \/ i = n
      BY <3>2
    <3> HIDE DEF n, r
    <3> QED BY <2>2, <2>4, <3>1, <3>2, <3>3 DEF OrganicPaymentFinal
  <2> QED BY <1>1, <2>3, <2>4, EventMoves
<1> QED BY <1>3, <1>4

LEMMA SubscribedStays ==
  ASSUME KeysInv, VerifiedOK, RecordOK, [Next]_vars,
         NEW s \in Sessions, Completed(s), Subscribed(s)
  PROVE  Subscribed(s)'
<1>1. TypeOK /\ sessions'[s] = sessions[s]
  BY CompletedMoves DEF KeysInv
<1> DEFINE w == From[sessions[s].tx]
<1>2. PICK i, j \in DOMAIN events :
        i <= j /\ events[i].session = s /\ events[j].session = subs[w]
  BY DEF Subscribed
<1>3. ASSUME NEW h \in Requests, requests[h].pc = "record", Emit(requests[h])
      PROVE  /\ DOMAIN events = 1..Len(events) /\ Len(events) \in Nat
             /\ DOMAIN events' = 1..(Len(events) + 1)
             /\ \A k \in 1..Len(events) : events'[k] = events[k]
             /\ events'[Len(events) + 1].session = requests[h].session
  BY <1>1, <1>3, RecorderFacts, EmitFacts
<1>4. CASE events' = events /\ subs' = subs
  BY <1>1, <1>2, <1>4 DEF Subscribed
<1>5. CASE \E h \in Requests : RecordFails(h)
  <2>1. PICK h \in Requests : RecordFails(h)
    BY <1>5
  <2>2. requests[h].pc = "record" /\ Emit(requests[h]) /\ subs' = subs
    BY <2>1 DEF RecordFails
  <2>3. /\ i \in DOMAIN events' /\ j \in DOMAIN events'
        /\ events'[i] = events[i] /\ events'[j] = events[j]
    BY <1>2, <1>3, <2>2
  <2> QED BY <1>1, <1>2, <2>2, <2>3 DEF Subscribed
<1>6. CASE \E h \in Requests : Record(h)
  <2>1. PICK h \in Requests : Record(h)
    BY <1>6
  <2> DEFINE r == requests[h]
             n == Len(events) + 1
  <2>2. /\ r.pc = "record" /\ Emit(r)
        /\ subs' = [subs EXCEPT ![From[r.tx]] = r.session]
    BY <2>1 DEF Record
  <2>3. /\ i \in 1..n /\ j \in 1..n /\ n \in 1..n /\ i <= n /\ DOMAIN events' = 1..n
        /\ events'[i] = events[i] /\ events'[j] = events[j]
        /\ events'[n].session = r.session
    BY <1>2, <1>3, <2>2
  <2> HIDE DEF n
  <2>4. From[r.tx] \in Wallets
    BY <2>2, RecorderFacts
  <2>5. CASE w = From[r.tx]
    <3>1. subs'[w] = r.session
      BY <1>1, <2>2, <2>4, <2>5 DEF TypeOK
    <3> QED BY <1>1, <1>2, <2>3, <3>1 DEF Subscribed
  <2>6. CASE w # From[r.tx]
    <3>1. subs'[w] = subs[w]
      BY <1>1, <2>2, <2>4, <2>6 DEF TypeOK
    <3> QED BY <1>1, <1>2, <2>3, <3>1 DEF Subscribed
  <2> QED BY <2>5, <2>6
<1> QED BY <1>4, <1>5, <1>6, OutcomeMoves DEF Exec, ExecReplyLost, Crash

LEMMA RecordedStep ==
  ASSUME KeysInv, VerifiedOK, RecordOK, CompletionsRecorded, [Next]_vars
  PROVE  CompletionsRecorded'
<1>1. SUFFICES ASSUME NEW s \in Sessions, Completed(s)'
               PROVE  Subscribed(s)' \/ Recording(s)' \/ s \in blamed'
  BY DEF CompletionsRecorded
<1>2. TypeOK /\ blamed \subseteq blamed'
  BY OutcomeMoves
     DEF KeysInv, Exec, ExecReplyLost, Record, RecordFails, Crash
<1>3. CASE ~Completed(s)
  <2>1. PICK h \in Requests : /\ Exec(h) \/ ExecReplyLost(h)
                              /\ requests[h].session = s
    BY <1>1, <1>3, CompletedMoves
  <2>2. CASE Exec(h)
    <3>1. requests'[h].pc = "record" /\ requests'[h].session = s
      BY <1>2, <2>1, <2>2 DEF Exec, TypeOK, Request
    <3> QED BY <3>1 DEF Recording
  <2>3. CASE ExecReplyLost(h)
    BY <2>1, <2>3 DEF ExecReplyLost
  <2> QED BY <2>1, <2>2, <2>3
<1>4. CASE Completed(s) /\ Subscribed(s)
  BY <1>4, SubscribedStays
<1>5. CASE Completed(s) /\ Recording(s)
  <2>1. PICK h \in Requests : requests[h].pc = "record" /\ requests[h].session = s
    BY <1>5 DEF Recording
  <2>2. CASE requests'[h] = requests[h]
    BY <2>1, <2>2 DEF Recording
  <2>3. CASE RecordFails(h) \/ Crash(h)
    BY <2>1, <2>3 DEF RecordFails, Crash
  <2>4. CASE Record(h)
    <3> DEFINE r == requests[h]
               n == Len(events) + 1
    <3>1. /\ Emit(r) /\ subs' = [subs EXCEPT ![From[r.tx]] = r.session]
          /\ sessions' = sessions
      BY <2>4 DEF Record
    <3>2. /\ r \in Request /\ r.session \in Sessions /\ From[r.tx] \in Wallets
          /\ sessions[s].tx = r.tx
      BY <2>1, RecorderFacts
    <3>3. /\ Len(events) \in Nat /\ DOMAIN events' = 1..(Len(events) + 1)
          /\ events'[Len(events) + 1].session = s
      BY <1>2, <2>1, <3>1, <3>2, EmitFacts
    <3>4. n \in DOMAIN events' /\ events'[n].session = s /\ n <= n
      BY <3>3
    <3>5. subs'[From[sessions'[s].tx]] = s
      BY <1>2, <2>1, <3>1, <3>2 DEF TypeOK
    <3> HIDE DEF n, r
    <3> QED BY <3>4, <3>5 DEF Subscribed
  <2> QED BY <1>2, <2>1, <2>2, <2>3, <2>4, RecordingStays
<1>6. CASE s \in blamed
  BY <1>2, <1>6
<1> QED BY <1>3, <1>4, <1>5, <1>6 DEF CompletionsRecorded
-----------------------------------------------------------------------------
LEMMA OutcomeInit == Init => RecordOK /\ OutcomeInv
<1> SUFFICES ASSUME Init PROVE RecordOK /\ OutcomeInv
  OBVIOUS
<1>1. /\ \A h \in Requests : requests[h].pc = "idle"
      /\ \A s \in Sessions : ~Completed(s)
      /\ \A w \in Wallets : subs[w] = None
      /\ events = <<>> /\ DOMAIN events = {} /\ None \notin Sessions
  BY CheckoutAssumption DEF Init, NoRequest, NoSession, Completed, CheckoutAssumption
<1> QED BY <1>1 DEF RecordOK, OutcomeInv, NotifiedOnce, SubscriptionIsPaid,
                    OrganicPaymentFinal, CompletionsRecorded

LEMMA InvInductive == /\ Init => IInv
                      /\ IInv /\ [Next]_vars => IInv'
<1>1. Init => IInv
  BY KeysInit, ProgressInit, OutcomeInit DEF IInv
<1>2. ASSUME IInv, [Next]_vars PROVE IInv'
  <2>1. /\ KeysInv /\ TypeOK /\ VerifiedOK /\ RecordOK /\ LostOK /\ NotifiedOnce
        /\ SubscriptionIsPaid /\ OrganicPaymentFinal /\ CompletionsRecorded
    BY <1>2 DEF IInv, OutcomeInv, KeysInv
  <2>2. KeysInv'
    BY <1>2, <2>1, KeysStep
  <2>3. VerifiedOK' /\ LostOK'
    BY <1>2, <2>1, VerifiedStep, LostStep
  <2>4. RecordOK' /\ NotifiedOnce'
    BY <1>2, <2>1, RecordStep
  <2>5. SubscriptionIsPaid' /\ OrganicPaymentFinal'
    BY <1>2, <2>1, PaidStep
  <2>6. CompletionsRecorded'
    BY <1>2, <2>1, RecordedStep
  <2> QED BY <2>2, <2>3, <2>4, <2>5, <2>6 DEF IInv, OutcomeInv
<1> QED BY <1>1, <1>2

(* Every completed session has its subscription, or a later one of the     *)
(* same wallet has replaced it, or a request is about to write it, unless  *)
(* one of the three faults cut that very completion short.                 *)
THEOREM CompletionsAreRecorded == Spec => []CompletionsRecorded
<1>1. IInv => CompletionsRecorded
  BY DEF IInv, OutcomeInv
<1> QED BY <1>1, InvInductive, PTL DEF Spec

(* The webhook of a session is emitted at most once, and only for a        *)
(* completed one.                                                          *)
THEOREM NotifiedAtMostOnce == Spec => []NotifiedOnce
<1>1. IInv => NotifiedOnce
  BY DEF IInv, OutcomeInv
<1> QED BY <1>1, InvInductive, PTL DEF Spec

(* A subscription written by a checkout is backed by its wallet's payment. *)
THEOREM SubscriptionsArePaid == Spec => []SubscriptionIsPaid
<1>1. IInv => SubscriptionIsPaid
  BY DEF IInv, OutcomeInv
<1> QED BY <1>1, InvInductive, PTL DEF Spec

(* Without the operator's word a payment that is announced has its         *)
(* confirmations, and no reorganisation takes it back.                     *)
THEOREM PaymentsAreFinal == Spec => []OrganicPaymentFinal
<1>1. IInv => OrganicPaymentFinal
  BY DEF IInv, OutcomeInv
<1> QED BY <1>1, InvInductive, PTL DEF Spec
=============================================================================

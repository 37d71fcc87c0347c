------------------------------ MODULE Checkout ------------------------------
(***************************************************************************)
(* Hosted checkout sessions (internal/api/sessions.go, store/sessions.go,  *)
(* store/redis.go).  An integrator mints a session; the user pays the      *)
(* first period with a transfer and a request attaches that transfer to    *)
(* the session: POST /sessions/{id}/complete, or the operator's            *)
(* force_complete.  Several requests and several sweepers, one per         *)
(* process, work on the same Redis at once.                                *)
(*                                                                         *)
(* One action per access to Redis or to the chain.  CompleteSession and    *)
(* ExpireSessionsBefore run under WATCH: EXEC succeeds when the watched    *)
(* keys have not been written since they were read, here when they still   *)
(* hold what was read.  The two agree because neither key ever returns to  *)
(* an earlier value: a session leaves "pending" once (TerminalIsFinal),    *)
(* and a reservation changes owner only together with its session.         *)
(*                                                                         *)
(* Faults that a request or a sweeper can meet:                            *)
(*   crash   a process dies between CompleteSession and UpsertSubscription *)
(*   record  UpsertSubscription fails (the client hung up: the request's   *)
(*           context is cancelled; or Redis is away)                       *)
(*   reply   EXEC is applied, but its reply is lost and the handler errs   *)
(*   sweep   a sweep ends early on a Redis error                           *)
(*   reorg   a transaction without its confirmations leaves the chain      *)
(* Any other error ends a request without effect (Refuse).                 *)
(***************************************************************************)
EXTENDS Payment, FiniteSets

CONSTANTS
  Requests,    \* HTTP requests served at the same time
  Sweepers,    \* RunSessionSweeper goroutines, one per process
  TTL,         \* sessionTTL, in clock ticks
  Second,      \* clock ticks per second: the index is scored in whole seconds
  SweepBatch,  \* ids per sweep (1000 in the code)
  MaxTries,    \* attempts of CompleteSession's WATCH loop (5 in the code)
  Faults,
  MaxTime, MaxFaults   \* bounds of the clock and of the faults

FaultKinds == {"crash", "record", "reply", "sweep", "reorg"}
None == "none"     \* no transfer, no owner, no session

ASSUME CheckoutAssumption ==
  /\ Sessions # {} /\ Txs # {} /\ None \notin Sessions \cup Txs
  /\ TTL \in Nat \ {0} /\ Second \in Nat \ {0} /\ SweepBatch \in Nat \ {0}
  /\ MaxTries \in Nat \ {0} /\ MaxTime \in Nat /\ MaxFaults \in Nat
  /\ Faults \subseteq FaultKinds

VARIABLES
  sessions,   \* [Sessions -> Session]: the session:<id> keys
  txOwner,    \* [Txs -> Sessions \cup {None}]: the tx:<hash> reservations
  expiring,   \* the members of sessions:expiring
  subs,       \* [Wallets -> ...]: the session whose completion wrote the subscription
  requests,   \* [Requests -> Request]
  sweeps,     \* [Sweepers -> Sweep]
  chain,      \* [Txs -> ...]: what the node says of a transfer
  now, faults,
  events,     \* history: the session.completed webhooks, in order
  blamed      \* history: the sessions whose completion a fault cut short

vars == <<sessions, txOwner, expiring, subs, requests, sweeps, chain, now,
          faults, events, blamed>>
-----------------------------------------------------------------------------
Session == [status : {"none", "pending", "completed", "expired"},
            tx : Txs \cup {None}, expires : Nat]
NoSession == [status |-> "none", tx |-> None, expires |-> 0]

\* pc: verify (checks on the chain), watch (before WATCH and GET), exec (before
\* EXEC), record (before UpsertSubscription).  seen is what the WATCH read.
Request == [pc : {"idle", "verify", "watch", "exec", "record"},
            session : Sessions \cup {None}, tx : Txs \cup {None},
            force : BOOLEAN, tries : Nat,
            seen : [session : Session, owner : Sessions \cup {None}]]
NoRequest == [pc |-> "idle", session |-> None, tx |-> None, force |-> FALSE,
              tries |-> 0, seen |-> [session |-> NoSession, owner |-> None]]

Sweep == [pc : {"idle", "sweep", "expire"}, ids : SUBSET Sessions,
          session : Sessions \cup {None}, seen : Session]
NoSweep == [pc |-> "idle", ids |-> {}, session |-> None, seen |-> NoSession]
Sweeping(Q) == [NoSweep EXCEPT !.pc = "sweep", !.ids = Q]

Event == [session : Sessions, recovered : BOOLEAN]

Init ==
  /\ sessions = [s \in Sessions |-> NoSession]
  /\ txOwner = [t \in Txs |-> None] /\ expiring = {}
  /\ subs = [w \in Wallets |-> None]
  /\ requests = [h \in Requests |-> NoRequest]
  /\ sweeps = [w \in Sweepers |-> NoSweep]
  /\ chain = [t \in Txs |-> "unknown"]
  /\ now = 0 /\ faults = 0 /\ events = <<>> /\ blamed = {}

Fault(kind) == kind \in Faults /\ faults < MaxFaults /\ faults' = faults + 1
-----------------------------------------------------------------------------
(* Requests *)

\* Mutant: the TTL is taken off the clock.
CreateInThePast(s) ==
  /\ sessions[s].status = "none"
  /\ sessions' = [sessions EXCEPT ![s] =
       [status |-> "pending", tx |-> None, expires |-> now - TTL]]
  /\ expiring' = expiring \cup {s}
  /\ UNCHANGED <<txOwner, subs, requests, sweeps, chain, now, faults, events, blamed>>

CreateSession(s) ==
  /\ sessions[s].status = "none"
  /\ sessions' = [sessions EXCEPT ![s] =
       [status |-> "pending", tx |-> None, expires |-> now + TTL]]
  /\ expiring' = expiring \cup {s}
  /\ UNCHANGED <<txOwner, subs, requests, sweeps, chain, now, faults, events, blamed>>

\* The first read of completeSession and of forceCompleteSession; only the
\* former looks at the TTL.  A replay of a completed session changes nothing.
Begin(h, s, t, force) ==
  /\ requests[h].pc = "idle" /\ sessions[s].status = "pending"
  /\ force \/ sessions[s].expires > now
  /\ requests' = [requests EXCEPT ![h] =
       [NoRequest EXCEPT !.pc = "verify", !.session = s, !.tx = t, !.force = force]]
  /\ UNCHANGED <<sessions, txOwner, expiring, subs, sweeps, chain, now, faults,
                 events, blamed>>

\* Fetch: ErrTxNotMined without a receipt, else its status and how many blocks
\* there are from its own to the head; enough of them make it "final".
Fetched(t, confirmed) ==
  IF confirmed THEN chain[t] = "final" ELSE chain[t] \in {"mined", "final"}

\* Mutant: the confirmations are not counted.
VerifiedAnyDepth(r) ==
  /\ Fetched(r.tx, FALSE) /\ CallPays(r.tx, r.session)
  /\ r.force \/ LogAgrees(r.tx, r.session)

\* forceCompleteSession counts no confirmations and reads no logs.
Verified(r) ==
  /\ Fetched(r.tx, ~r.force) /\ CallPays(r.tx, r.session)
  /\ r.force \/ LogAgrees(r.tx, r.session)

\* Mutant: the subscription is written before the session is claimed.
VerifySubscribes(h) ==
  /\ requests[h].pc = "verify" /\ Verified(requests[h])
  /\ requests' = [requests EXCEPT ![h].pc = "watch"]
  /\ subs' = [subs EXCEPT ![From[requests[h].tx]] = requests[h].session]
  /\ UNCHANGED <<sessions, txOwner, expiring, sweeps, chain, now, faults, events, blamed>>

Verify(h) ==
  /\ requests[h].pc = "verify" /\ Verified(requests[h])
  /\ requests' = [requests EXCEPT ![h].pc = "watch"]
  /\ UNCHANGED <<sessions, txOwner, expiring, subs, sweeps, chain, now, faults,
                 events, blamed>>

\* Any answer but 200: a check fails, the session is not pending any more, the
\* transfer is taken, Redis or the node errs, or the process dies.
Refuse(h) ==
  /\ requests[h].pc \in {"verify", "watch", "exec"}
  /\ requests' = [requests EXCEPT ![h] = NoRequest]
  /\ UNCHANGED <<sessions, txOwner, expiring, subs, sweeps, chain, now, faults,
                 events, blamed>>

\* Mutant: the status of the session that was read is not checked.
WatchAnyStatus(h) ==
  LET r == requests[h] IN
  /\ r.pc = "watch"
  /\ txOwner[r.tx] \in {None, r.session}
  /\ requests' = [requests EXCEPT ![h].pc = "exec",
       ![h].seen = [session |-> sessions[r.session], owner |-> txOwner[r.tx]]]
  /\ UNCHANGED <<sessions, txOwner, expiring, subs, sweeps, chain, now, faults,
                 events, blamed>>

\* WATCH, GET session, GET reservation, and the two checks.
Watch(h) ==
  LET r == requests[h] IN
  /\ r.pc = "watch"
  /\ sessions[r.session].status = "pending"
  /\ txOwner[r.tx] \in {None, r.session}
  /\ requests' = [requests EXCEPT ![h].pc = "exec",
       ![h].seen = [session |-> sessions[r.session], owner |-> txOwner[r.tx]]]
  /\ UNCHANGED <<sessions, txOwner, expiring, subs, sweeps, chain, now, faults,
                 events, blamed>>

\* Mutant: the reservation is not among the watched keys.
UnchangedButOwner(r) == sessions[r.session] = r.seen.session

\* The watched keys have not been written since.
StillAsSeen(r) ==
  sessions[r.session] = r.seen.session /\ txOwner[r.tx] = r.seen.owner

\* Mutant: the session stays in the expiring index.
CommitKeepsIndex(r) ==
  /\ sessions' = [sessions EXCEPT ![r.session] =
       [r.seen.session EXCEPT !.status = "completed", !.tx = r.tx]]
  /\ txOwner' = [txOwner EXCEPT ![r.tx] = r.session]
  /\ UNCHANGED expiring

\* Mutant: the transfer is not reserved.
CommitUnreserved(r) ==
  /\ sessions' = [sessions EXCEPT ![r.session] =
       [r.seen.session EXCEPT !.status = "completed", !.tx = r.tx]]
  /\ expiring' = expiring \ {r.session}
  /\ UNCHANGED txOwner

\* What MULTI/EXEC writes: session, reservation, index.
Commit(r) ==
  /\ sessions' = [sessions EXCEPT ![r.session] =
       [r.seen.session EXCEPT !.status = "completed", !.tx = r.tx]]
  /\ txOwner' = [txOwner EXCEPT ![r.tx] = r.session]
  /\ expiring' = expiring \ {r.session}

Exec(h) ==
  /\ requests[h].pc = "exec" /\ StillAsSeen(requests[h])
  /\ Commit(requests[h])
  /\ requests' = [requests EXCEPT ![h].pc = "record"]
  /\ UNCHANGED <<subs, sweeps, chain, now, faults, events, blamed>>

\* Mutant: the retry does not read again.
ExecLostBlindly(h) ==
  LET tries == requests[h].tries + 1 IN
  /\ requests[h].pc = "exec" /\ ~StillAsSeen(requests[h])
  /\ requests' = [requests EXCEPT ![h] =
       IF tries = MaxTries THEN NoRequest ELSE [@ EXCEPT !.tries = tries]]
  /\ UNCHANGED <<sessions, txOwner, expiring, subs, sweeps, chain, now, faults,
                 events, blamed>>

\* TxFailedErr: start over, or give up after MaxTries.
ExecLost(h) ==
  LET tries == requests[h].tries + 1 IN
  /\ requests[h].pc = "exec" /\ ~StillAsSeen(requests[h])
  /\ requests' = [requests EXCEPT ![h] =
       IF tries = MaxTries THEN NoRequest
       ELSE [@ EXCEPT !.pc = "watch", !.tries = tries]]
  /\ UNCHANGED <<sessions, txOwner, expiring, subs, sweeps, chain, now, faults,
                 events, blamed>>

\* The EXEC took effect, the handler sees an error and answers 500.
ExecReplyLost(h) ==
  /\ Fault("reply")
  /\ requests[h].pc = "exec" /\ StillAsSeen(requests[h])
  /\ Commit(requests[h])
  /\ requests' = [requests EXCEPT ![h] = NoRequest]
  /\ blamed' = blamed \cup {requests[h].session}
  /\ UNCHANGED <<subs, sweeps, chain, now, events>>

Emit(r) == events' = Append(events, [session |-> r.session, recovered |-> r.force])

\* Mutant: a wallet that has a subscription keeps the old one.
RecordIfNew(h) ==
  LET r == requests[h] IN
  /\ r.pc = "record"
  /\ subs' = [subs EXCEPT ![From[r.tx]] = IF @ = None THEN r.session ELSE @]
  /\ Emit(r)
  /\ requests' = [requests EXCEPT ![h] = NoRequest]
  /\ UNCHANGED <<sessions, txOwner, expiring, sweeps, chain, now, faults, blamed>>

\* UpsertSubscription replaces what the wallet had; then the webhook.
Record(h) ==
  LET r == requests[h] IN
  /\ r.pc = "record"
  /\ subs' = [subs EXCEPT ![From[r.tx]] = r.session]
  /\ Emit(r)
  /\ requests' = [requests EXCEPT ![h] = NoRequest]
  /\ UNCHANGED <<sessions, txOwner, expiring, sweeps, chain, now, faults, blamed>>

\* The error is logged (or dropped, in forceCompleteSession): still 200.
RecordFails(h) ==
  LET r == requests[h] IN
  /\ Fault("record")
  /\ r.pc = "record"
  /\ Emit(r)
  /\ requests' = [requests EXCEPT ![h] = NoRequest]
  /\ blamed' = blamed \cup {r.session}
  /\ UNCHANGED <<sessions, txOwner, expiring, subs, sweeps, chain, now>>

Crash(h) ==
  /\ Fault("crash")
  /\ requests[h].pc = "record"
  /\ requests' = [requests EXCEPT ![h] = NoRequest]
  /\ blamed' = blamed \cup {requests[h].session}
  /\ UNCHANGED <<sessions, txOwner, expiring, subs, sweeps, chain, now, events>>
-----------------------------------------------------------------------------
(* The sweeper *)

Score(s) == sessions[s].expires \div Second

\* Mutant: the upper bound of ZRANGEBYSCORE is exclusive.
PastDeadlineStrict == {s \in expiring : Score(s) < now \div Second}

PastDeadline == {s \in expiring : Score(s) <= now \div Second}

\* ZRANGEBYSCORE: the SweepBatch lowest scores up to now.
StartSweep(w) ==
  /\ sweeps[w].pc = "idle"
  /\ \E Q \in SUBSET PastDeadline :
       /\ Cardinality(Q) <= SweepBatch
       /\ Cardinality(Q) < SweepBatch => Q = PastDeadline
       /\ \A s \in Q, d \in PastDeadline \ Q : Score(s) <= Score(d)
       /\ sweeps' = [sweeps EXCEPT ![w] = Sweeping(Q)]
  /\ UNCHANGED <<sessions, txOwner, expiring, subs, requests, chain, now, faults,
                 events, blamed>>

\* A session of the batch that was completed or expired meanwhile.
SweepDrop(w, s) ==
  /\ sweeps[w].pc = "sweep" /\ s \in sweeps[w].ids
  /\ sessions[s].status # "pending"
  /\ expiring' = expiring \ {s}
  /\ sweeps' = [sweeps EXCEPT ![w].ids = @ \ {s}]
  /\ UNCHANGED <<sessions, txOwner, subs, requests, chain, now, faults, events, blamed>>

SweepWatch(w, s) ==
  /\ sweeps[w].pc = "sweep" /\ s \in sweeps[w].ids
  /\ sessions[s].status = "pending"
  /\ sweeps' = [sweeps EXCEPT ![w] = [pc |-> "expire", ids |-> @.ids \ {s},
                                     session |-> s, seen |-> sessions[s]]]
  /\ UNCHANGED <<sessions, txOwner, expiring, subs, requests, chain, now, faults,
                 events, blamed>>

\* Mutant: the sweeper writes without WATCH.
ExpireUnwatched(w) ==
  LET k == sweeps[w] IN
  /\ k.pc = "expire"
  /\ sessions' = [sessions EXCEPT ![k.session] = [k.seen EXCEPT !.status = "expired"]]
  /\ expiring' = expiring \ {k.session}
  /\ sweeps' = [sweeps EXCEPT ![w] = Sweeping(k.ids)]
  /\ UNCHANGED <<txOwner, subs, requests, chain, now, faults, events, blamed>>

\* MULTI/EXEC of the sweeper.  A pending session that carried a transfer would
\* also lose its reservation.
Expire(w) ==
  LET k == sweeps[w] IN
  /\ k.pc = "expire" /\ sessions[k.session] = k.seen
  /\ sessions' = [sessions EXCEPT ![k.session] = [k.seen EXCEPT !.status = "expired"]]
  /\ expiring' = expiring \ {k.session}
  /\ txOwner' = [t \in Txs |-> IF t = k.seen.tx THEN None ELSE txOwner[t]]
  /\ sweeps' = [sweeps EXCEPT ![w] = Sweeping(k.ids)]
  /\ UNCHANGED <<subs, requests, chain, now, faults, events, blamed>>

\* TxFailedErr: the session is somebody else's now.
ExpireLost(w) ==
  /\ sweeps[w].pc = "expire" /\ sessions[sweeps[w].session] # sweeps[w].seen
  /\ sweeps' = [sweeps EXCEPT ![w] = Sweeping(@.ids)]
  /\ UNCHANGED <<sessions, txOwner, expiring, subs, requests, chain, now, faults,
                 events, blamed>>

EndSweep(w) ==
  /\ sweeps[w].pc = "sweep" /\ sweeps[w].ids = {}
  /\ sweeps' = [sweeps EXCEPT ![w] = NoSweep]
  /\ UNCHANGED <<sessions, txOwner, expiring, subs, requests, chain, now, faults,
                 events, blamed>>

\* A Redis error, or the process restarts: the next tick starts afresh.
SweepFails(w) ==
  /\ Fault("sweep")
  /\ sweeps[w].pc # "idle"
  /\ sweeps' = [sweeps EXCEPT ![w] = NoSweep]
  /\ UNCHANGED <<sessions, txOwner, expiring, subs, requests, chain, now, events, blamed>>
-----------------------------------------------------------------------------
(* The chain and the clock *)

ChainMoves(t, before, after) ==
  /\ chain[t] = before
  /\ chain' = [chain EXCEPT ![t] = after]
  /\ UNCHANGED <<sessions, txOwner, expiring, subs, requests, sweeps, now, events,
                 blamed>>

Mine(t)    == UNCHANGED faults /\ \E a \in {"mined", "reverted"} : ChainMoves(t, "unknown", a)
Confirm(t) == UNCHANGED faults /\ ChainMoves(t, "mined", "final")
Reorg(t)   == Fault("reorg") /\ ChainMoves(t, "mined", "unknown")

AdvanceTime ==
  /\ now < MaxTime /\ now' = now + 1
  /\ UNCHANGED <<sessions, txOwner, expiring, subs, requests, sweeps, chain, faults,
                 events, blamed>>
-----------------------------------------------------------------------------
RequestStep(h) ==
  \/ \E s \in Sessions, t \in Txs, force \in BOOLEAN : Begin(h, s, t, force)
  \/ Verify(h) \/ Refuse(h) \/ Watch(h) \/ Exec(h) \/ ExecLost(h) \/ ExecReplyLost(h)
  \/ Record(h) \/ RecordFails(h) \/ Crash(h)

SweepStep(w) ==
  \/ StartSweep(w) \/ Expire(w) \/ ExpireLost(w) \/ EndSweep(w)
  \/ \E s \in Sessions : SweepDrop(w, s) \/ SweepWatch(w, s)

Next ==
  \/ \E s \in Sessions : CreateSession(s)
  \/ \E h \in Requests : RequestStep(h)
  \/ \E w \in Sweepers : SweepStep(w) \/ SweepFails(w)
  \/ \E t \in Txs : Mine(t) \/ Confirm(t) \/ Reorg(t)
  \/ AdvanceTime

Spec == Init /\ [][Next]_vars

(***************************************************************************)
(* Fairness: the ticker of every RunSessionSweeper keeps firing and a      *)
(* sweep goes on.  No client, operator, chain or clock is promised to act. *)
(***************************************************************************)
FairSpec == Spec /\ \A w \in Sweepers : WF_vars(SweepStep(w))
-----------------------------------------------------------------------------
(* Properties *)

TypeOK ==
  /\ sessions \in [Sessions -> Session]
  /\ txOwner \in [Txs -> Sessions \cup {None}]
  /\ expiring \subseteq Sessions
  /\ subs \in [Wallets -> Sessions \cup {None}]
  /\ requests \in [Requests -> Request]
  /\ \A h \in Requests : requests[h].pc # "idle" =>
       requests[h].session \in Sessions /\ requests[h].tx \in Txs
  /\ sweeps \in [Sweepers -> Sweep]
  /\ \A w \in Sweepers : sweeps[w].pc = "expire" => sweeps[w].session \in Sessions
  /\ chain \in [Txs -> {"unknown", "mined", "reverted", "final"}]
  /\ now \in Nat /\ faults \in Nat /\ events \in Seq(Event)
  /\ blamed \subseteq Sessions

Completed(s) == sessions[s].status = "completed"

(* "Two concurrent submissions of the same hash serialize, only one wins"  *)
(* (docs/checkout-sessions.md): one transfer never completes two sessions, *)
(* whichever requests, operator and sweepers race.                         *)
OnePaymentOneSession ==
  \A s, z \in Sessions : s # z /\ Completed(s) /\ Completed(z)
                           => sessions[s].tx # sessions[z].tx

(* A reservation is held by exactly the completed session it paid for: no  *)
(* ghost reservation blocks a transfer, none is released too early.        *)
ReservationsExact ==
  \A s \in Sessions, t \in Txs :
     txOwner[t] = s <=> Completed(s) /\ sessions[s].tx = t

(* What the sweeper looks through is exactly what may still expire.        *)
ExpiringIndexExact ==
  \A s \in Sessions : s \in expiring <=> sessions[s].status = "pending"

\* The wallet is subscribed by s, or by a session that notified after s.
Subscribed(s) ==
  \E i, j \in DOMAIN events :
     i <= j /\ events[i].session = s
     /\ events[j].session = subs[From[sessions[s].tx]]

Recording(s) == \E h \in Requests : requests[h].pc = "record" /\ requests[h].session = s

(* "Must not orphan a subscription" (docs/checkout-sessions.md:23-24): a   *)
(* wallet that completed a session is subscribed by it or by a later one,  *)
(* or a request is about to write it, or one of the faults came between.   *)
CompletionsRecorded ==
  \A s \in Sessions : Completed(s) => Subscribed(s) \/ Recording(s) \/ s \in blamed

(* The same without the excuse.                                            *)
NoOrphanedCheckout ==
  \A s \in Sessions : Completed(s) => Subscribed(s) \/ Recording(s)

(* A subscription written by a checkout is backed by a session its own     *)
(* wallet paid for, with a transfer of that session's price.               *)
SubscriptionIsPaid ==
  \A w \in Wallets, s \in Sessions : subs[w] = s =>
     /\ Completed(s) /\ CallPays(sessions[s].tx, s)
     /\ From[sessions[s].tx] = w

(* Without the operator's word a completion rests on money that arrived,   *)
(* by the token's own account, and that no reorganisation takes away.      *)
OrganicPaymentFinal ==
  \A i \in DOMAIN events :
     LET s == events[i].session IN
     ~events[i].recovered =>
        chain[sessions[s].tx] = "final" /\ Received(sessions[s].tx, s)

(* "Emitted exactly once per session" (docs/checkout-sessions.md): at most *)
(* once, and only for a completed session.                                 *)
NotifiedOnce ==
  /\ \A i, j \in DOMAIN events : i # j => events[i].session # events[j].session
  /\ \A i \in DOMAIN events : Completed(events[i].session)

(* A request that lost the WATCH race finds on its next read that the      *)
(* session or the transfer is taken: the five attempts never run out.      *)
RaceLostOnce == \A h \in Requests : requests[h].tries <= 1

(* "completed and expired are terminal" (docs/checkout-sessions.md): such  *)
(* a session never changes again.                                          *)
TerminalIsFinal ==
  [][\A s \in Sessions : sessions[s].status \in {"completed", "expired"}
                           => sessions'[s] = sessions[s]]_vars

(* A session past its deadline is completed or marked expired in the end.  *)
ExpiredSwept ==
  \A s \in Sessions :
     sessions[s].status = "pending" /\ sessions[s].expires <= now
       ~> sessions[s].status # "pending"
=============================================================================

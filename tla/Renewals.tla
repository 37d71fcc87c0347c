------------------------------ MODULE Renewals ------------------------------
(***************************************************************************)
(* A subscription over the months: what is charged, when, and how the      *)
(* scheduler finds out.  The records and the sorted set subs:due of        *)
(* redis.go, DueBefore as the sequence of reads it is, the charges of      *)
(* scheduler.go with their calendar and money, and the plan changes and    *)
(* cancellations of api.go that come at any point of a tick.               *)
(*                                                                         *)
(* Billing has the pulls, hashes, replicas and crashes that are left out   *)
(* here: one scheduler works, and a pull succeeds or fails in one step.    *)
(***************************************************************************)
EXTENDS Calendar, Sequences, FiniteSets

CONSTANTS
  Users, Plans,
  Price,        \* [Plans -> Nat]
  Period,       \* [Plans -> Periods]
  Start,        \* the first day
  Clock,        \* the days on which something happens
  Backoffs,     \* dunning policy, in days
  Batch,        \* DueBefore's limit
  MaxCalls,     \* bound on API calls
  MaxGlitches   \* bound on operator-side failures

ASSUME RenewalsAssumption ==
  /\ Price \in [Plans -> Nat] /\ Period \in [Plans -> Periods] /\ Plans # {}
  /\ Start \in Dates /\ Clock \subseteq Dates
  /\ \A p \in Plans : Period[p].unit = "day" => Period[p].count \in 1..28
  /\ Backoffs \in Seq(0..28) /\ Batch \in Nat \ {0}
  /\ MaxCalls \in Nat /\ MaxGlitches \in Nat

VARIABLES
  today,
  records,   \* sub:<user>
  due,       \* subs:due: the score of a member, Absent for the others
  tick,      \* the users DueBefore has still to read, and its result
  calls, glitches,
  ledger     \* history: what each user has paid for, see Account

vars == <<today, records, due, tick, calls, glitches, ledger>>

Never == [month |-> 0, day |-> 0]   \* the zero time of LastChargedAt
Absent == -1
Statuses == {"none", "active", "past_due", "cancelled"}

Record == [user : Users, plan : Plans, status : Statuses, next : Dates,
           last : Dates \cup {Never}, pending : Nat, attempts : Nat]

Tick == [pc : {"idle", "read", "work"}, users : SUBSET Users,
         batch : SUBSET Record, touched : SUBSET Users]

\* spent: taken since the last regular charge, that one and the transfers of
\* checkouts included; allowed: their prices and every rise in price that came
\* with a change of plan since;
\* anchor, months: first billing date and the months paid for since; moved:
\* NextAttemptAt has been set by something else than a regular charge.
Account == [spent : Nat, allowed : Nat, anchor : Dates, months : Nat,
            moved : BOOLEAN]

NewSub(u, p) ==
  [user |-> u, plan |-> p, status |-> "active", next |-> today, last |-> Never,
   pending |-> 0, attempts |-> 0]

NewAccount == [spent |-> 0, allowed |-> 0, anchor |-> today, months |-> 0,
               moved |-> FALSE]

Idle == [pc |-> "idle", users |-> {}, batch |-> {}, touched |-> {}]

----------------------------------------------------------------------------
(* The store.                                                              *)

Billable(s) == s.status \in {"active", "past_due"}

Score(s) ==
  IF ~Billable(s) THEN Absent ELSE IF s.pending # 0 THEN 0 ELSE DayNumber(s.next)

Init ==
  /\ today = Start
  /\ records = [u \in Users |-> [NewSub(u, CHOOSE p \in Plans : TRUE)
                                 EXCEPT !.status = "none"]]
  /\ due = [u \in Users |-> Absent]
  /\ tick = Idle
  /\ calls = 0 /\ glitches = 0
  /\ ledger = [u \in Users |-> NewAccount]

\* Mutant: an update that leaves a cancelled member in the sorted set.
UpsertAdds(s) ==
  /\ records' = [records EXCEPT ![s.user] = s]
  /\ due' = IF Billable(s) THEN [due EXCEPT ![s.user] = Score(s)] ELSE due

\* UpsertSubscription: one transaction.
Upsert(s) ==
  /\ records' = [records EXCEPT ![s.user] = s]
  /\ due' = [due EXCEPT ![s.user] = Score(s)]

\* Mutant: the whole sorted set.
AllMembers == {u \in Users : due[u] # Absent}

DueMembers == {u \in Users : due[u] # Absent /\ due[u] <= DayNumber(today)}

\* ZRANGEBYSCORE with a LIMIT.
Ranges ==
  {Q \in SUBSET DueMembers :
     /\ Cardinality(Q) <= Batch
     /\ Cardinality(Q) < Batch => Q = DueMembers
     /\ \A q \in Q, d \in DueMembers \ Q : due[q] <= due[d]}

\* The first command of DueBefore.
ReadIndex ==
  /\ tick.pc = "idle"
  /\ \E Q \in Ranges \ {{}} : tick' = [Idle EXCEPT !.pc = "read", !.users = Q]
  /\ UNCHANGED <<today, records, due, calls, glitches, ledger>>

\* Then one GET for each user.
ReadRecord(u) ==
  /\ tick.pc = "read" /\ u \in tick.users
  /\ tick' = [tick EXCEPT !.users = @ \ {u}, !.batch = @ \cup {records[u]},
                          !.pc = IF tick.users = {u} THEN "work" ELSE "read"]
  /\ UNCHANGED <<today, records, due, calls, glitches, ledger>>

----------------------------------------------------------------------------
(* The scheduler.                                                          *)

\* A hundred years from today.
Cancelled(s) == [s EXCEPT !.status = "cancelled", !.next = AddDate(today, 1200)]

Charged(s) ==
  [s EXCEPT !.next = AddPeriod(s.next, Period[s.plan]), !.status = "active",
            !.attempts = 0, !.last = today]

Settled(s) == [s EXCEPT !.pending = 0, !.last = today]

\* Mutant: the ladder starts again when it is used up.
FailedAgain(s) ==
  [s EXCEPT !.status = "past_due", !.attempts = 1, !.next = AddDays(today, Backoffs[1])]

\* handleFailure for a user-side error.
Failed(s) ==
  LET n == s.attempts + 1 IN
  IF n > Len(Backoffs) THEN Cancelled([s EXCEPT !.attempts = n])
  ELSE [s EXCEPT !.status = "past_due", !.attempts = n,
                 !.next = AddDays(today, Backoffs[n])]

\* processOne is done with the copy s and writes s2.
Writes(s, s2) ==
  /\ tick.pc = "work" /\ s \in tick.batch
  /\ Upsert(s2)
  /\ tick' = IF tick.batch = {s} THEN Idle ELSE [tick EXCEPT !.batch = @ \ {s}]
  /\ UNCHANGED <<today, calls>>

Overwrites(s) == s.user \in tick.touched

\* The account a once s has been charged for a period.
Renewed(a, s) ==
  [spent |-> Price[s.plan], allowed |-> Price[s.plan], anchor |-> a.anchor,
   months |-> a.months + Months(Period[s.plan]),
   moved |-> a.moved \/ Overwrites(s) \/ Period[s.plan].unit = "day"]

Charge(s) ==
  /\ s.pending = 0
  /\ Writes(s, Charged(s))
  /\ ledger' = [ledger EXCEPT ![s.user] = Renewed(@, s)]
  /\ UNCHANGED glitches

PullPending(s) ==
  /\ s.pending # 0
  /\ Writes(s, Settled(s))
  /\ ledger' = [ledger EXCEPT ![s.user].spent = @ + s.pending,
                              ![s.user].moved = @ \/ Overwrites(s)]
  /\ UNCHANGED glitches

UserFailure(s) ==
  /\ Writes(s, Failed(s))
  /\ ledger' = [ledger EXCEPT ![s.user].moved = TRUE]
  /\ UNCHANGED glitches

\* Tried again five minutes later.
OperatorFailure(s) ==
  /\ glitches < MaxGlitches
  /\ glitches' = glitches + 1
  /\ Writes(s, [s EXCEPT !.next = today])
  /\ ledger' = [ledger EXCEPT ![s.user].moved = TRUE]

Work == \E s \in tick.batch :
          Charge(s) \/ PullPending(s) \/ UserFailure(s) \/ OperatorFailure(s)

----------------------------------------------------------------------------
(* The API.                                                                *)

Rise(old, new) == IF Price[new] > Price[old] THEN Price[new] - Price[old] ELSE 0

\* Mutant: a cycle that is measured from today.
ProratedNow(s, p) ==
  LET cycle == Days(today, s.next)
      remaining == IF s.last = Never THEN 0 ELSE Days(s.last, s.next)
  IN  IF cycle > 0 /\ remaining > 0 THEN (Rise(s.plan, p) * remaining) \div cycle ELSE 0

\* proratedDiff.
Prorated(s, p) ==
  LET cycle == Days(s.last, s.next)
      remaining == Days(today, s.next)
  IN  IF s.last # Never /\ cycle > 0 /\ remaining > 0
      THEN (Rise(s.plan, p) * remaining) \div cycle
      ELSE 0

\* An API call writes s while a tick may be under way.
CallWrites(s) ==
  /\ calls < MaxCalls
  /\ calls' = calls + 1
  /\ Upsert(s)
  /\ tick' = IF tick.pc = "idle" THEN tick
             ELSE [tick EXCEPT !.touched = @ \cup {s.user}]
  /\ UNCHANGED <<today, glitches>>

\* Billing dates are counted from today.
Restarted(a) == [a EXCEPT !.anchor = today, !.months = 0, !.moved = FALSE]

Subscribe(u, p) ==
  /\ records[u].status = "none"
  /\ CallWrites(NewSub(u, p))
  /\ ledger' = [ledger EXCEPT ![u] = Restarted(@)]

Resubscribe(u) ==
  /\ records[u].status = "cancelled"
  /\ CallWrites([records[u] EXCEPT !.status = "active", !.next = today])
  /\ ledger' = [ledger EXCEPT ![u] = Restarted(@)]

ChangePlan(u, p) ==
  LET s == records[u]
      diff == Prorated(s, p)
  IN
  /\ s.status # "none" /\ s.plan # p
  /\ CallWrites([s EXCEPT !.plan = p, !.status = "active", !.attempts = 0,
                          !.pending = IF diff > 0 THEN diff ELSE @])
  /\ ledger' = [ledger EXCEPT ![u].allowed = @ + Rise(s.plan, p),
                              ![u].moved = @ \/ s.status = "cancelled"]

\* The end of completeSession: the first period was paid with the checkout.
CompleteCheckout(u, p) ==
  /\ CallWrites([NewSub(u, p) EXCEPT !.next = AddPeriod(today, Period[p])])
  /\ ledger' = [ledger EXCEPT ![u] =
       [spent |-> @.spent + Price[p], allowed |-> @.allowed + Price[p],
        anchor |-> today, months |-> Months(Period[p]),
        moved |-> Period[p].unit = "day"]]

CancelSub(u) ==
  /\ records[u].status # "none"
  /\ CallWrites(Cancelled(records[u]))
  /\ UNCHANGED ledger

Call == \E u \in Users :
          \/ Resubscribe(u) \/ CancelSub(u)
          \/ \E p \in Plans : Subscribe(u, p) \/ ChangePlan(u, p) \/ CompleteCheckout(u, p)

NextDay ==
  /\ today' \in {d \in Clock : Days(today, d) > 0}
  /\ UNCHANGED <<records, due, tick, calls, glitches, ledger>>

TickStep == ReadIndex \/ (\E u \in Users : ReadRecord(u)) \/ Work

Next == TickStep \/ Call \/ NextDay

Spec == Init /\ [][Next]_vars

\* The ticker keeps firing and a tick goes on.
FairSpec == Spec /\ WF_vars(TickStep)

----------------------------------------------------------------------------
(* Properties.                                                             *)

TypeOK ==
  /\ today \in Dates
  /\ records \in [Users -> Record] /\ \A u \in Users : records[u].user = u
  /\ due \in [Users -> Nat \cup {Absent}]
  /\ tick \in Tick /\ \A s \in tick.batch : s.user \notin tick.users
  /\ calls \in 0..MaxCalls /\ glitches \in 0..MaxGlitches
  /\ ledger \in [Users -> Account]

\* subs:due is the set of billable records by the time they are due, pending
\* charges first (redis.go:103-117): one that fell out would never be billed.
IndexExact == \A u \in Users : due[u] = Score(records[u])

\* Between two regular charges, a customer pays the price of the first and at
\* most every rise in price that a change of plan has brought, settled or still
\* pending, whatever is upgraded, downgraded, cancelled, late, failed or
\* overwritten (api.go:379-404: "remaining/cycle" of the difference).
NeverOverpaid ==
  \A u \in Users : ledger[u].spent + records[u].pending <= ledger[u].allowed

\* The date of s is what the months paid for lead to: the day is that of the
\* anchor, or the end of a shorter month on the way.
OnCalendar(s, account) ==
  /\ s.next.month = account.anchor.month + account.months
  /\ s.next.day <= account.anchor.day
  /\ s.next.day >= 28 \/ s.next.day = account.anchor.day

\* "So that an integrator who picks 1 month doesn't drift" (store.go:17-19): one
\* regular charge for each period since the subscription started, unless
\* something else than a charge has set NextAttemptAt.
CalendarKept ==
  \A u \in Users :
     Billable(records[u]) /\ ~ledger[u].moved => OnCalendar(records[u], ledger[u])

\* DueBefore "returns active or past_due subscriptions whose NextAttemptAt is
\* at or before t, OR which have a PendingChargeAtomic" (store.go:126-129),
\* unless the API wrote the record after the index was read.
LoadedAreDue ==
  \A s \in tick.batch :
     \/ s.user \in tick.touched
     \/ Billable(s) /\ (s.pending # 0 \/ Days(s.next, today) >= 0)

\* "Pending charges are always considered due so they get processed as soon as
\* allowance allows" (store.go:128-129): a prorated charge does not stay.
PendingServed ==
  \A u \in Users :
     records[u].pending # 0 /\ Billable(records[u])
       ~> records[u].pending = 0 \/ ~Billable(records[u])

\* "Retry at 24h -> 72h -> 168h, then cancelled" (README.md:262): a customer
\* who has failed to pay is not tried again before the retry is due, as long as
\* no API call comes in the middle of the tick.
RetriesWait ==
  [][\A u \in Users :
       /\ records[u].attempts > 0 /\ u \notin tick.touched
       /\ records'[u].attempts > records[u].attempts
       => Days(records[u].next, today) >= 0]_vars
=============================================================================

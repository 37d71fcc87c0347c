--------------------------- MODULE RenewalsProofs ---------------------------
(***************************************************************************)
(* Proofs about Renewals, for any calendar dates, plans, prices, periods,  *)
(* dunning policy and number of users, and about the arithmetic of         *)
(* Calendar they rest on.                                                  *)
(***************************************************************************)
EXTENDS Renewals, TLAPS

----------------------------------------------------------------------------
(* The calendar.                                                           *)

LEMMA DaysInRange ==
  ASSUME NEW m \in Nat
  PROVE  DaysIn(m) \in 28..31
<1>1. m % 12 \in 0..11
  OBVIOUS
<1> QED BY <1>1 DEF DaysIn

LEMMA DayNumberNat ==
  ASSUME NEW d \in Dates
  PROVE  DayNumber(d) \in Nat
<1> DEFINE y == Year(d.month)
           k == d.month % 12
           past == y - 1
<1>1. d.month \in Nat /\ d.day \in Nat
  BY DEF Dates
<1>2. k \in 0..11 /\ k + 1 \in 1..12
  BY <1>1
<1>3. y \in Nat \ {0}
  BY <1>1, CalendarAssumption DEF CalendarAssumption, Year
<1>4. past \in Nat /\ past \div 4 \in Nat /\ past \div 100 \in Nat /\ past \div 400 \in Nat
  BY <1>3
<1>5. past \div 4 >= past \div 100
  BY <1>4
<1>6. DaysBefore[k + 1] \in Nat
  <2>1. DaysBefore \in [1..12 -> Nat]
    BY DEF DaysBefore
  <2> QED BY <2>1, <1>2
<1>7. (IF k > 1 /\ Leap(y) THEN 1 ELSE 0) \in Nat
  OBVIOUS
<1> HIDE DEF y, k, past
<1>8. 365 * y + past \div 4 - past \div 100 + past \div 400 + DaysBefore[k + 1]
        + (IF k > 1 /\ Leap(y) THEN 1 ELSE 0) + d.day \in Nat
  BY <1>1, <1>3, <1>4, <1>5, <1>6, <1>7
<1> QED BY <1>8 DEF DayNumber, y, k, past

\* clampedAddMonths lands n months later, on the same day or, in a month that
\* is too short for it, on the last.
LEMMA AddMonthsLands ==
  ASSUME NEW d \in Dates, NEW n \in Nat
  PROVE  /\ AddMonths(d, n) \in Dates
         /\ AddMonths(d, n).month = d.month + n
         /\ AddMonths(d, n).day <= d.day
         /\ AddMonths(d, n).day >= 28 \/ AddMonths(d, n).day = d.day
<1>1. d.month + n \in Nat /\ d.day \in 1..31
  BY DEF Dates
<1>2. DaysIn(d.month + n) \in 28..31
  BY <1>1, DaysInRange
<1> QED BY <1>1, <1>2 DEF AddMonths, Dates

LEMMA AddDateLands ==
  ASSUME NEW d \in Dates, NEW n \in Nat
  PROVE  AddDate(d, n) \in Dates
<1>1. d.month + n \in Nat /\ d.month + n + 1 \in Nat /\ d.day \in 1..31
  BY DEF Dates
<1>2. DaysIn(d.month + n) \in 28..31 /\ DaysIn(d.month + n + 1) \in 28..31
  BY <1>1, DaysInRange
<1> QED BY <1>1, <1>2 DEF AddDate, Dates

LEMMA AddDaysLands ==
  ASSUME NEW d \in Dates, NEW n \in 0..28
  PROVE  AddDays(d, n) \in Dates
<1>1. d.month \in Nat /\ d.month + 1 \in Nat /\ d.day \in 1..31 /\ d.day <= DaysIn(d.month)
  BY DEF Dates
<1>2. DaysIn(d.month) \in 28..31 /\ DaysIn(d.month + 1) \in 28..31
  BY <1>1, DaysInRange
<1>3. CASE d.day + n <= DaysIn(d.month)
  <2>1. d \in [month : Nat, day : 1..31]
    BY DEF Dates
  <2> QED BY <1>1, <1>2, <1>3, <2>1 DEF AddDays, Dates
<1>4. CASE ~(d.day + n <= DaysIn(d.month))
  BY <1>1, <1>2, <1>4 DEF AddDays, Dates
<1> QED BY <1>3, <1>4

LEMMA MonthsNat ==
  ASSUME NEW period \in Periods
  PROVE  Months(period) \in Nat
BY DEF Months, Periods

LEMMA AddPeriodLands ==
  ASSUME NEW d \in Dates, NEW p \in Plans
  PROVE  /\ AddPeriod(d, Period[p]) \in Dates
         /\ Period[p].unit # "day" =>
              /\ AddPeriod(d, Period[p]).month = d.month + Months(Period[p])
              /\ AddPeriod(d, Period[p]).day <= d.day
              /\ \/ AddPeriod(d, Period[p]).day >= 28
                 \/ AddPeriod(d, Period[p]).day = d.day
<1>1. Period[p] \in Periods
  BY RenewalsAssumption DEF RenewalsAssumption
<1>2. CASE Period[p].unit = "day"
  <2>1. \A q \in Plans : Period[q].unit = "day" => Period[q].count \in 1..28
    BY RenewalsAssumption, Zenon DEF RenewalsAssumption
  <2>2. Period[p].count \in 1..28
    BY <1>2, <2>1, Zenon
  <2>3. Period[p].count \in 0..28
    BY <2>2
  <2> QED BY <1>2, <2>3, AddDaysLands DEF AddPeriod
<1>3. CASE Period[p].unit # "day"
  <2>1. Months(Period[p]) \in Nat
    BY <1>1, MonthsNat
  <2> QED BY <1>3, <2>1, AddMonthsLands DEF AddPeriod
<1> QED BY <1>2, <1>3

----------------------------------------------------------------------------
(* Money.                                                                  *)

LEMMA QuotientBound ==
  ASSUME NEW r \in Nat, NEW a \in Nat, NEW c \in Nat, 0 < c, a <= c
  PROVE  (r * a) \div c \in Nat /\ (r * a) \div c <= r
<1> DEFINE q == (r * a) \div c
<1>1. r * a \in Nat
  OBVIOUS
<1>2. q \in Nat /\ c * q <= r * a
  <2> HIDE DEF q
  <2>1. \A x \in Nat : x \div c \in Nat /\ c * (x \div c) <= x
    OBVIOUS
  <2> QED BY <1>1, <2>1 DEF q
<1>3. r * a <= r * c
  OBVIOUS
<1>4. c * q <= c * r
  <2>1. r * c = c * r
    OBVIOUS
  <2> HIDE DEF q
  <2>2. c * q \in Nat /\ c * r \in Nat /\ r * c \in Nat
    BY <1>2
  <2> QED BY <1>1, <1>2, <1>3, <2>1, <2>2
<1>5. q <= r
  <2> HIDE DEF q
  <2>1. SUFFICES ASSUME q >= r + 1 PROVE FALSE
    BY <1>2
  <2>2. c * q >= c * (r + 1)
    BY <1>2, <2>1
  <2>3. c * (r + 1) = c * r + c
    OBVIOUS
  <2> QED BY <1>2, <1>4, <2>2, <2>3
<1> QED BY <1>2, <1>5

\* proratedDiff is a part of the rise in price, whatever the dates are: a cycle
\* begins no later than today.
LEMMA ProratedBound ==
  ASSUME NEW s \in Record, NEW p \in Plans, today \in Dates,
         s.last # Never => Days(s.last, today) >= 0
  PROVE  /\ Rise(s.plan, p) \in Nat
         /\ Prorated(s, p) \in Nat /\ Prorated(s, p) <= Rise(s.plan, p)
<1>1. s.plan \in Plans /\ s.next \in Dates /\ s.last \in Dates \cup {Never}
  BY DEF Record
<1>2. Price[s.plan] \in Nat /\ Price[p] \in Nat
  BY <1>1, RenewalsAssumption DEF RenewalsAssumption
<1>3. Rise(s.plan, p) \in Nat
  BY <1>2 DEF Rise
<1> DEFINE cycle == Days(s.last, s.next)
           remaining == Days(today, s.next)
<1>4. CASE s.last # Never /\ cycle > 0 /\ remaining > 0
  <2>1. DayNumber(s.last) \in Nat /\ DayNumber(s.next) \in Nat /\ DayNumber(today) \in Nat
    BY <1>1, <1>4, DayNumberNat
  <2>2. cycle \in Nat /\ remaining \in Nat /\ 0 < cycle /\ remaining <= cycle
    BY <1>4, <2>1 DEF Days
  <2>3. Prorated(s, p) = (Rise(s.plan, p) * remaining) \div cycle
    BY <1>4 DEF Prorated
  <2> HIDE DEF cycle, remaining
  <2> QED BY <1>3, <2>2, <2>3, QuotientBound
<1>5. CASE ~(s.last # Never /\ cycle > 0 /\ remaining > 0)
  <2>1. Prorated(s, p) = 0
    BY <1>5 DEF Prorated
  <2> QED BY <1>3, <2>1
<1> QED BY <1>3, <1>4, <1>5

----------------------------------------------------------------------------
(* The invariant.                                                          *)

\* A charge is in the past, on the record and on every copy.
Past(s) == s.last # Never => Days(s.last, today) >= 0

\* One copy of a user is worked on, and it is the record unless the API wrote
\* in between.
CopiesInv ==
  /\ tick.pc = "idle" => tick.users = {} /\ tick.batch = {}
  /\ tick.pc = "work" => tick.users = {}
  /\ \A s, t \in tick.batch : s.user = t.user => s = t
  /\ \A s \in tick.batch : s.user \in tick.touched \/ s = records[s.user]

\* What the index has returned is due until it is read.
ReadInv ==
  \A u \in tick.users :
     \/ u \in tick.touched
     \/ due[u] # Absent /\ due[u] <= DayNumber(today)

PastInv == (\A u \in Users : Past(records[u])) /\ (\A s \in tick.batch : Past(s))

MoneyInv ==
  /\ NeverOverpaid
  /\ \A s \in tick.batch : ledger[s.user].spent + s.pending <= ledger[s.user].allowed

IInv ==
  /\ TypeOK /\ IndexExact /\ CopiesInv /\ ReadInv /\ LoadedAreDue
  /\ PastInv /\ MoneyInv /\ CalendarKept

LEMMA RecordFields ==
  ASSUME NEW s \in Record
  PROVE  /\ s.user \in Users /\ s.plan \in Plans /\ s.status \in Statuses
         /\ s.next \in Dates /\ s.last \in Dates \cup {Never}
         /\ s.pending \in Nat /\ s.attempts \in Nat
BY DEF Record

LEMMA ScoreType ==
  ASSUME NEW s \in Record
  PROVE  Score(s) \in Nat \cup {Absent}
BY RecordFields, DayNumberNat DEF Score

LEMMA NewSubType ==
  ASSUME today \in Dates, NEW u \in Users, NEW p \in Plans
  PROVE  NewSub(u, p) \in Record
BY DEF NewSub, Record, Statuses

LEMMA CancelledType ==
  ASSUME today \in Dates, NEW s \in Record
  PROVE  Cancelled(s) \in Record
<1>1. AddDate(today, 1200) \in Dates
  BY AddDateLands
<1>2. "cancelled" \in Statuses
  BY DEF Statuses
<1>3. PICK d \in Dates : d = AddDate(today, 1200)
  BY <1>1
<1>4. Cancelled(s) = [s EXCEPT !.status = "cancelled", !.next = d]
  BY <1>3 DEF Cancelled
<1> QED BY <1>2, <1>4 DEF Record

LEMMA InvInit == Init => IInv
<1> SUFFICES ASSUME Init PROVE IInv
  OBVIOUS
<1>1. today \in Dates
  BY RenewalsAssumption DEF Init, RenewalsAssumption
<1> DEFINE p0 == CHOOSE p \in Plans : TRUE
<1>2. p0 \in Plans
  BY RenewalsAssumption DEF RenewalsAssumption
<1>3. ASSUME NEW u \in Users
      PROVE  records[u] = [NewSub(u, p0) EXCEPT !.status = "none"]
  BY DEF Init
<1>4. ASSUME NEW u \in Users
      PROVE  /\ records[u] \in Record /\ records[u].user = u
             /\ records[u].status = "none" /\ records[u].pending = 0
             /\ records[u].last = Never
  <2> HIDE DEF p0
  <2>1. NewSub(u, p0) \in Record
    BY <1>1, <1>2, NewSubType
  <2>2. records[u] \in Record
    BY <1>3, <2>1 DEF Record, Statuses
  <2>3. records[u].status = "none"
    BY <1>3, <2>1 DEF Record
  <2>4. records[u].user = u /\ records[u].pending = 0 /\ records[u].last = Never
    BY <1>3 DEF NewSub
  <2> QED BY <2>2, <2>3, <2>4
<1>5. \A u \in Users : ledger[u] \in Account /\ ledger[u].spent = 0 /\ ledger[u].allowed = 0
  BY <1>1 DEF Init, NewAccount, Account
<1>6. TypeOK
  <2>1. tick \in Tick /\ tick.batch = {}
    BY DEF Init, Idle, Tick
  <2>2. calls \in 0..MaxCalls /\ glitches \in 0..MaxGlitches
    BY RenewalsAssumption DEF Init, RenewalsAssumption
  <2>3. due \in [Users -> Nat \cup {Absent}]
    BY DEF Init
  <2>4. records \in [Users -> Record]
    BY <1>4 DEF Init
  <2>5. ledger \in [Users -> Account]
    BY <1>5 DEF Init
  <2> QED BY <1>1, <1>4, <2>1, <2>2, <2>3, <2>4, <2>5 DEF TypeOK
<1>7. \A u \in Users : ~Billable(records[u])
  BY <1>4 DEF Billable
<1>8. IndexExact
  BY <1>7 DEF Init, IndexExact, Score
<1>9. CopiesInv /\ ReadInv /\ LoadedAreDue
  BY DEF Init, Idle, CopiesInv, ReadInv, LoadedAreDue
<1>10. PastInv
  BY <1>4 DEF Init, Idle, PastInv, Past
<1>11. MoneyInv
  BY <1>4, <1>5 DEF Init, Idle, MoneyInv, NeverOverpaid
<1>12. CalendarKept
  BY <1>7 DEF CalendarKept
<1> QED BY <1>6, <1>8, <1>9, <1>10, <1>11, <1>12 DEF IInv

----------------------------------------------------------------------------
(* Steps.                                                                  *)

LEMMA CopyFacts ==
  ASSUME IInv, NEW s \in tick.batch
  PROVE  s \in Record /\ s.user \in Users /\ s.pending \in Nat
<1>1. s \in Record
  BY DEF IInv, TypeOK, Tick
<1> QED BY <1>1, RecordFields

LEMMA UpsertKeeps ==
  ASSUME IInv, NEW s \in Record, Upsert(s)
  PROVE  /\ records' \in [Users -> Record] /\ \A u \in Users : records'[u].user = u
         /\ due' \in [Users -> Nat \cup {Absent}]
         /\ IndexExact'
         /\ records'[s.user] = s
         /\ \A u \in Users \ {s.user} : records'[u] = records[u] /\ due'[u] = due[u]
<1>1. s.user \in Users /\ Score(s) \in Nat \cup {Absent}
  BY RecordFields, ScoreType
<1>2. records \in [Users -> Record] /\ due \in [Users -> Nat \cup {Absent}]
      /\ \A u \in Users : records[u].user = u /\ due[u] = Score(records[u])
  BY DEF IInv, TypeOK, IndexExact
<1>3. /\ records' = [records EXCEPT ![s.user] = s]
      /\ due' = [due EXCEPT ![s.user] = Score(s)]
  BY DEF Upsert
<1>4. IndexExact'
  <2> SUFFICES ASSUME NEW u \in Users PROVE due'[u] = Score(records'[u])
    BY DEF IndexExact, Score, Billable
  <2>1. CASE u = s.user
    BY <2>1, <1>1, <1>2, <1>3
  <2>2. CASE u # s.user
    BY <2>2, <1>1, <1>2, <1>3
  <2> QED BY <2>1, <2>2
<1> QED BY <1>1, <1>2, <1>3, <1>4

\* What a write of the scheduler has to bring along: acc is the new account.
LEMMA WriteKeepsInv ==
  ASSUME IInv, NEW s \in tick.batch, NEW s2 \in Record, NEW acc \in Account,
         s2.user = s.user, Past(s2), Writes(s, s2),
         ledger' = [ledger EXCEPT ![s.user] = acc],
         glitches' \in 0..MaxGlitches,
         acc.spent + s2.pending <= acc.allowed,
         Billable(s2) /\ ~acc.moved => OnCalendar(s2, acc)
  PROVE  IInv'
<1>1. s \in Record /\ s.user \in Users
  BY CopyFacts
<1>2. /\ tick.pc = "work" /\ Upsert(s2) /\ today' = today /\ calls' = calls
      /\ tick' = IF tick.batch = {s} THEN Idle ELSE [tick EXCEPT !.batch = @ \ {s}]
  BY DEF Writes
<1>3. /\ records' \in [Users -> Record] /\ \A u \in Users : records'[u].user = u
      /\ due' \in [Users -> Nat \cup {Absent}] /\ IndexExact'
      /\ records'[s.user] = s2
      /\ \A u \in Users \ {s.user} : records'[u] = records[u]
  BY <1>2, UpsertKeeps
<1>4. /\ tick \in Tick /\ tick.users = {}
      /\ \A t \in tick.batch : t.user = s.user => t = s
      /\ \A t \in tick.batch : t.user \in tick.touched \/ t = records[t.user]
  BY <1>2 DEF IInv, TypeOK, CopiesInv
<1>5. /\ tick' \in Tick /\ tick'.users = {} /\ tick'.batch = tick.batch \ {s}
      /\ tick'.batch # {} => tick'.touched = tick.touched
      /\ tick'.pc \in {"idle", "work"} /\ (tick'.pc = "idle" => tick'.batch = {})
  <2>1. CASE tick.batch = {s}
    BY <1>2, <2>1 DEF Idle, Tick
  <2>2. CASE tick.batch # {s}
    BY <1>2, <1>4, <2>2 DEF Tick
  <2> QED BY <2>1, <2>2
<1>6. ASSUME NEW t \in tick'.batch
      PROVE  /\ t \in tick.batch /\ t \in Record /\ t.user \in Users \ {s.user}
             /\ tick'.touched = tick.touched
  BY <1>4, <1>5, CopyFacts
<1>7. /\ ledger \in [Users -> Account] /\ ledger' \in [Users -> Account]
      /\ ledger'[s.user] = acc /\ \A u \in Users \ {s.user} : ledger'[u] = ledger[u]
  <2>1. ledger \in [Users -> Account]
    BY DEF IInv, TypeOK
  <2> QED BY <1>1, <2>1
<1>8. TypeOK'
  <2>1. today' \in Dates /\ calls' \in 0..MaxCalls
    BY <1>2 DEF IInv, TypeOK
  <2> QED BY <1>3, <1>5, <1>7, <2>1 DEF TypeOK
<1>9. CopiesInv'
  <2>1. \A t \in tick'.batch : t.user \in tick'.touched \/ t = records'[t.user]
    BY <1>3, <1>4, <1>6
  <2>2. \A t, v \in tick'.batch : t.user = v.user => t = v
    BY <1>6 DEF IInv, CopiesInv
  <2> QED BY <1>5, <2>1, <2>2 DEF CopiesInv
<1>10. ReadInv'
  BY <1>5 DEF ReadInv
<1>11. LoadedAreDue'
  BY <1>2, <1>6 DEF IInv, LoadedAreDue, Billable
<1>12. PastInv'
  BY <1>2, <1>3, <1>6 DEF IInv, PastInv, Past
<1>13. MoneyInv'
  <2>1. NeverOverpaid'
    BY <1>3, <1>7 DEF IInv, MoneyInv, NeverOverpaid
  <2>2. \A t \in tick'.batch : ledger'[t.user].spent + t.pending <= ledger'[t.user].allowed
    BY <1>6, <1>7 DEF IInv, MoneyInv
  <2> QED BY <2>1, <2>2 DEF MoneyInv
<1>14. CalendarKept'
  <2> SUFFICES ASSUME NEW u \in Users, Billable(records'[u]), ~ledger'[u].moved
               PROVE  OnCalendar(records'[u], ledger'[u])
    BY DEF CalendarKept, OnCalendar, Billable
  <2>1. CASE u = s.user
    BY <2>1, <1>3, <1>7
  <2>2. CASE u # s.user
    BY <2>2, <1>3, <1>7 DEF IInv, CalendarKept
  <2> QED BY <2>1, <2>2
<1> QED BY <1>3, <1>8, <1>9, <1>10, <1>11, <1>12, <1>13, <1>14 DEF IInv

\* The same for a write of the API, which leaves what may still be spent to the
\* copies of a tick.
LEMMA CallKeepsInv ==
  ASSUME IInv, NEW s \in Record, NEW acc \in Account, Past(s), CallWrites(s),
         ledger' = [ledger EXCEPT ![s.user] = acc],
         acc.spent + s.pending <= acc.allowed,
         ledger[s.user].allowed - ledger[s.user].spent <= acc.allowed - acc.spent,
         Billable(s) /\ ~acc.moved => OnCalendar(s, acc)
  PROVE  IInv'
<1>1. s.user \in Users /\ s.pending \in Nat
  BY RecordFields
<1>2. /\ calls < MaxCalls /\ calls' = calls + 1 /\ Upsert(s)
      /\ tick' = IF tick.pc = "idle" THEN tick
                 ELSE [tick EXCEPT !.touched = @ \cup {s.user}]
      /\ today' = today /\ glitches' = glitches
  BY DEF CallWrites
<1>3. /\ records' \in [Users -> Record] /\ \A u \in Users : records'[u].user = u
      /\ due' \in [Users -> Nat \cup {Absent}] /\ IndexExact'
      /\ records'[s.user] = s
      /\ \A u \in Users \ {s.user} : records'[u] = records[u] /\ due'[u] = due[u]
  BY <1>2, UpsertKeeps
<1>4. tick \in Tick
  BY DEF IInv, TypeOK
<1>5. /\ tick' \in Tick /\ tick'.pc = tick.pc
      /\ tick'.users = tick.users /\ tick'.batch = tick.batch
      /\ tick.touched \subseteq tick'.touched
      /\ tick'.batch # {} \/ tick'.users # {} => s.user \in tick'.touched
  <2>1. CASE tick.pc = "idle"
    BY <1>2, <1>4, <2>1 DEF IInv, CopiesInv
  <2>2. CASE tick.pc # "idle"
    BY <1>1, <1>2, <1>4, <2>2 DEF Tick
  <2> QED BY <2>1, <2>2
<1>6. /\ ledger \in [Users -> Account] /\ ledger' \in [Users -> Account]
      /\ ledger'[s.user] = acc /\ \A u \in Users \ {s.user} : ledger'[u] = ledger[u]
  <2>1. ledger \in [Users -> Account]
    BY DEF IInv, TypeOK
  <2> QED BY <1>1, <2>1
<1>7. \A t \in tick.batch : t \in Record /\ t.user \in Users /\ t.pending \in Nat
  BY CopyFacts
<1>8. TypeOK'
  <2>1. today' \in Dates /\ glitches' \in 0..MaxGlitches
        /\ \A t \in tick'.batch : t.user \notin tick'.users
    BY <1>2, <1>5 DEF IInv, TypeOK
  <2>2. calls' \in 0..MaxCalls
    BY <1>2, RenewalsAssumption DEF IInv, TypeOK, RenewalsAssumption
  <2> QED BY <1>3, <1>5, <1>6, <2>1, <2>2 DEF TypeOK
<1>9. CopiesInv'
  <2>1. \A t \in tick'.batch : t.user \in tick'.touched \/ t = records'[t.user]
    BY <1>3, <1>5, <1>7 DEF IInv, CopiesInv
  <2> QED BY <1>5, <2>1 DEF IInv, CopiesInv
<1>10. ReadInv'
  <2> SUFFICES ASSUME NEW u \in tick'.users
               PROVE  \/ u \in tick'.touched
                      \/ due'[u] # Absent /\ due'[u] <= DayNumber(today')
    BY DEF ReadInv
  <2>1. u \in Users
    BY <1>4, <1>5 DEF Tick
  <2>2. CASE u = s.user
    BY <1>5, <2>2
  <2>3. CASE u # s.user
    BY <1>2, <1>3, <1>5, <2>1, <2>3 DEF IInv, ReadInv
  <2> QED BY <2>2, <2>3
<1>11. LoadedAreDue'
  BY <1>2, <1>5 DEF IInv, LoadedAreDue, Billable
<1>12. PastInv'
  BY <1>2, <1>3, <1>5 DEF IInv, PastInv, Past
<1>13. MoneyInv'
  <2>1. NeverOverpaid'
    BY <1>3, <1>6 DEF IInv, MoneyInv, NeverOverpaid
  <2>2. ASSUME NEW t \in tick'.batch
        PROVE  ledger'[t.user].spent + t.pending <= ledger'[t.user].allowed
    <3>1. t \in tick.batch /\ t.user \in Users /\ t.pending \in Nat
          /\ ledger[t.user].spent + t.pending <= ledger[t.user].allowed
      BY <1>5, <1>7 DEF IInv, MoneyInv
    <3>2. /\ ledger[t.user].spent \in Nat /\ ledger[t.user].allowed \in Nat
          /\ acc.spent \in Nat /\ acc.allowed \in Nat
      BY <1>6, <3>1 DEF Account
    <3>3. CASE t.user = s.user
      BY <1>6, <3>1, <3>2, <3>3
    <3>4. CASE t.user # s.user
      BY <1>6, <3>1, <3>4
    <3> QED BY <3>3, <3>4
  <2> QED BY <2>1, <2>2 DEF MoneyInv
<1>14. CalendarKept'
  <2> SUFFICES ASSUME NEW u \in Users, Billable(records'[u]), ~ledger'[u].moved
               PROVE  OnCalendar(records'[u], ledger'[u])
    BY DEF CalendarKept, OnCalendar, Billable
  <2>1. CASE u = s.user
    BY <2>1, <1>3, <1>6
  <2>2. CASE u # s.user
    BY <2>2, <1>3, <1>6 DEF IInv, CalendarKept
  <2> QED BY <2>1, <2>2
<1> QED BY <1>3, <1>8, <1>9, <1>10, <1>11, <1>12, <1>13, <1>14 DEF IInv

\* The account of a user, as far as its own record and copies go.
LEMMA AccountFacts ==
  ASSUME IInv, NEW u \in Users
  PROVE  /\ ledger[u] \in Account
         /\ ledger[u].spent \in Nat /\ ledger[u].allowed \in Nat
         /\ ledger[u].anchor \in Dates /\ ledger[u].months \in Nat
         /\ ledger[u].moved \in BOOLEAN
         /\ records[u] \in Record /\ records[u].user = u /\ Past(records[u])
         /\ ledger[u].spent + records[u].pending <= ledger[u].allowed
<1>1. ledger[u] \in Account
  BY DEF IInv, TypeOK
<1> QED BY <1>1 DEF IInv, TypeOK, PastInv, MoneyInv, NeverOverpaid, Account

LEMMA ChargedFacts ==
  ASSUME today \in Dates, NEW s \in Record
  PROVE  /\ Charged(s) \in Record /\ Charged(s).user = s.user
         /\ Charged(s).next = AddPeriod(s.next, Period[s.plan])
         /\ Charged(s).last = today /\ Charged(s).pending = s.pending
<1>1. AddPeriod(s.next, Period[s.plan]) \in Dates
  BY RecordFields, AddPeriodLands
<1>2. PICK d \in Dates : d = AddPeriod(s.next, Period[s.plan])
  BY <1>1
<1>3. PICK s2 : s2 = Charged(s)
  OBVIOUS
<1>4. s2 = [s EXCEPT !.next = d, !.status = "active", !.attempts = 0, !.last = today]
  BY <1>2, <1>3 DEF Charged
<1>5. /\ s2 \in Record /\ s2.user = s.user /\ s2.next = d
      /\ s2.last = today /\ s2.pending = s.pending
  <2>1. "active" \in Statuses
    BY DEF Statuses
  <2> QED BY <1>4, <2>1 DEF Record
<1> QED BY <1>2, <1>3, <1>5

\* What the two kinds of pull enter into the account.
LEMMA ChargeAccount ==
  ASSUME IInv, NEW s \in tick.batch, Charge(s)
  PROVE  \E acc \in Account :
           /\ ledger' = [ledger EXCEPT ![s.user] = acc]
           /\ acc.spent = Price[s.plan] /\ acc.allowed = Price[s.plan]
           /\ acc.anchor = ledger[s.user].anchor
           /\ acc.months = ledger[s.user].months + Months(Period[s.plan])
           /\ ~acc.moved => /\ ~ledger[s.user].moved /\ ~Overwrites(s)
                            /\ Period[s.plan].unit # "day"
<1>1. s.user \in Users /\ s.plan \in Plans
  BY CopyFacts, RecordFields
<1> DEFINE a == ledger[s.user]
           acc == Renewed(a, s)
<1>2. ledger' = [ledger EXCEPT ![s.user] = acc]
  BY DEF Charge
<1>3. a.anchor \in Dates /\ a.months \in Nat
  BY <1>1, AccountFacts
<1>4. Price[s.plan] \in Nat /\ Months(Period[s.plan]) \in Nat
  BY <1>1, MonthsNat, RenewalsAssumption DEF RenewalsAssumption
<1>5. a.months + Months(Period[s.plan]) \in Nat
  BY <1>3, <1>4
<1>6. /\ acc.spent = Price[s.plan] /\ acc.allowed = Price[s.plan]
      /\ acc.anchor = a.anchor /\ acc.months = a.months + Months(Period[s.plan])
      /\ acc.moved = (a.moved \/ Overwrites(s) \/ Period[s.plan].unit = "day")
  BY DEF Renewed
<1>7. acc \in Account
  <2>1. (a.moved \/ Overwrites(s) \/ Period[s.plan].unit = "day") \in BOOLEAN
    OBVIOUS
  <2> HIDE DEF a
  <2> QED BY <1>3, <1>4, <1>5, <2>1 DEF Renewed, Account
<1> HIDE DEF acc
<1> QED BY <1>2, <1>6, <1>7

LEMMA PullAccount ==
  ASSUME IInv, NEW s \in tick.batch, PullPending(s)
  PROVE  \E acc \in Account :
           /\ ledger' = [ledger EXCEPT ![s.user] = acc]
           /\ acc.spent = ledger[s.user].spent + s.pending
           /\ acc.allowed = ledger[s.user].allowed
           /\ acc.anchor = ledger[s.user].anchor /\ acc.months = ledger[s.user].months
           /\ ~acc.moved => ~ledger[s.user].moved /\ ~Overwrites(s)
<1>1. s.user \in Users /\ s.pending \in Nat
  BY CopyFacts
<1> DEFINE a == ledger[s.user]
           spent == a.spent + s.pending
           moved == a.moved \/ Overwrites(s)
           acc == [a EXCEPT !.spent = spent, !.moved = moved]
<1>2. a \in Account /\ a.spent \in Nat
  BY <1>1, AccountFacts
<1>3. ledger' = [ledger EXCEPT ![s.user] = acc]
  BY <1>1, <1>2 DEF PullPending, IInv, TypeOK
<1>4. spent \in Nat /\ moved \in BOOLEAN
  BY <1>1, <1>2
<1>5. /\ acc \in Account /\ acc.spent = spent /\ acc.allowed = a.allowed
      /\ acc.anchor = a.anchor /\ acc.months = a.months /\ acc.moved = moved
  <2> HIDE DEF a, spent, moved
  <2> QED BY <1>2, <1>4 DEF Account
<1> HIDE DEF acc
<1> QED BY <1>3, <1>5

LEMMA SequenceElement ==
  ASSUME NEW S, NEW seq \in Seq(S), NEW n \in 1..Len(seq)
  PROVE  seq[n] \in S
OBVIOUS

LEMMA StepCharge ==
  ASSUME IInv, NEW s \in tick.batch, Charge(s)
  PROVE  IInv'
<1>1. s \in Record /\ s.user \in Users /\ s.plan \in Plans /\ s.next \in Dates
  BY CopyFacts, RecordFields
<1> DEFINE u == s.user
           n == Months(Period[s.plan])
           d == AddPeriod(s.next, Period[s.plan])
<1>2. today \in Dates /\ DayNumber(today) \in Nat
  BY DayNumberNat DEF IInv, TypeOK
<1>3. Price[s.plan] \in Nat /\ n \in Nat
  BY <1>1, MonthsNat, RenewalsAssumption DEF RenewalsAssumption
<1>4. PICK acc \in Account :
        /\ ledger' = [ledger EXCEPT ![s.user] = acc]
        /\ acc.spent = Price[s.plan] /\ acc.allowed = Price[s.plan]
        /\ acc.anchor = ledger[u].anchor /\ acc.months = ledger[u].months + n
        /\ ~acc.moved => /\ ~ledger[u].moved /\ ~Overwrites(s)
                         /\ Period[s.plan].unit # "day"
  BY ChargeAccount
<1>5. /\ Charged(s) \in Record /\ Charged(s).user = s.user /\ Charged(s).next = d
      /\ Charged(s).last = today /\ Charged(s).pending = s.pending
  BY <1>1, <1>2, ChargedFacts
<1>6. Past(Charged(s))
  BY <1>2, <1>5 DEF Past, Days
<1>7. s.pending = 0 /\ Writes(s, Charged(s)) /\ glitches' \in 0..MaxGlitches
  BY DEF Charge, IInv, TypeOK
<1>8. ASSUME ~acc.moved PROVE OnCalendar(Charged(s), acc)
  <2>1. ~ledger[u].moved /\ s.user \notin tick.touched /\ Period[s.plan].unit # "day"
    BY <1>4, <1>8 DEF Overwrites
  <2>2. s = records[u] /\ Billable(s)
    BY <2>1 DEF IInv, CopiesInv, LoadedAreDue
  <2>3. OnCalendar(s, ledger[u])
    BY <1>1, <2>1, <2>2 DEF IInv, CalendarKept
  <2>4. /\ d \in Dates /\ d.month = s.next.month + n
        /\ d.day <= s.next.day /\ (d.day >= 28 \/ d.day = s.next.day)
    BY <1>1, <2>1, AddPeriodLands
  <2>5. ledger[u].anchor \in Dates /\ ledger[u].months \in Nat
    BY <1>1, AccountFacts
  <2> HIDE DEF d, n, u
  <2>6. /\ d.month \in Nat /\ d.day \in Nat /\ s.next.month \in Nat /\ s.next.day \in Nat
        /\ ledger[u].anchor.month \in Nat /\ ledger[u].anchor.day \in Nat
    BY <1>1, <2>4, <2>5 DEF Dates
  <2> QED BY <1>3, <1>4, <1>5, <2>3, <2>4, <2>5, <2>6 DEF OnCalendar
<1>9. acc.spent + Charged(s).pending <= acc.allowed
  BY <1>3, <1>4, <1>5, <1>7
<1>10. ledger' = [ledger EXCEPT ![s.user] = acc]
  BY <1>4
<1> HIDE DEF d, n
<1> QED BY <1>5, <1>6, <1>7, <1>8, <1>9, <1>10, WriteKeepsInv

LEMMA StepPullPending ==
  ASSUME IInv, NEW s \in tick.batch, PullPending(s)
  PROVE  IInv'
<1>1. s \in Record /\ s.user \in Users /\ s.pending \in Nat
  BY CopyFacts
<1> DEFINE u == s.user
<1>2. today \in Dates /\ DayNumber(today) \in Nat
  BY DayNumberNat DEF IInv, TypeOK
<1>3. PICK acc \in Account :
        /\ ledger' = [ledger EXCEPT ![s.user] = acc]
        /\ acc.spent = ledger[u].spent + s.pending /\ acc.allowed = ledger[u].allowed
        /\ acc.anchor = ledger[u].anchor /\ acc.months = ledger[u].months
        /\ ~acc.moved => ~ledger[u].moved /\ ~Overwrites(s)
  BY PullAccount
<1>4. /\ Settled(s) \in Record /\ Settled(s).user = s.user /\ Settled(s).pending = 0
      /\ Settled(s).last = today /\ Settled(s).next = s.next
  BY <1>1, <1>2 DEF Settled, Record
<1>5. Past(Settled(s))
  BY <1>2, <1>4 DEF Past, Days
<1>6. Writes(s, Settled(s)) /\ glitches' \in 0..MaxGlitches
  BY DEF PullPending, IInv, TypeOK
<1>7. ASSUME ~acc.moved PROVE OnCalendar(Settled(s), acc)
  <2>1. ~ledger[u].moved /\ s.user \notin tick.touched
    BY <1>3, <1>7 DEF Overwrites
  <2>2. s = records[u] /\ Billable(s)
    BY <2>1 DEF IInv, CopiesInv, LoadedAreDue
  <2>3. OnCalendar(s, ledger[u])
    BY <1>1, <2>1, <2>2 DEF IInv, CalendarKept
  <2> HIDE DEF u
  <2> QED BY <1>3, <1>4, <2>3 DEF OnCalendar
<1>8. acc.spent + Settled(s).pending <= acc.allowed
  <2>1. ledger[u].spent + s.pending <= ledger[u].allowed
    BY DEF IInv, MoneyInv
  <2>2. ledger[u].spent \in Nat /\ ledger[u].allowed \in Nat
    BY <1>1, AccountFacts
  <2> QED BY <1>1, <1>3, <1>4, <2>1, <2>2
<1>9. ledger' = [ledger EXCEPT ![s.user] = acc]
  BY <1>3
<1> QED BY <1>4, <1>5, <1>6, <1>7, <1>8, <1>9, WriteKeepsInv

\* A failure changes neither what is pending nor what has been paid.
LEMMA FailureKeepsInv ==
  ASSUME IInv, NEW s \in tick.batch, NEW s2 \in Record, Writes(s, s2),
         s2.user = s.user, s2.last = s.last, s2.pending = s.pending,
         ledger' = [ledger EXCEPT ![s.user].moved = TRUE],
         glitches' \in 0..MaxGlitches
  PROVE  IInv'
<1>1. s \in Record /\ s.user \in Users /\ s.pending \in Nat
  BY CopyFacts
<1> DEFINE acc == [ledger[s.user] EXCEPT !.moved = TRUE]
<1>2. ledger[s.user] \in Account
  BY <1>1, AccountFacts
<1>3. acc \in Account /\ acc.spent = ledger[s.user].spent
      /\ acc.allowed = ledger[s.user].allowed /\ acc.moved
  BY <1>2 DEF Account
<1>4. ledger' = [ledger EXCEPT ![s.user] = acc]
  OBVIOUS
<1>5. Past(s2)
  BY DEF IInv, PastInv, Past
<1>6. acc.spent + s2.pending <= acc.allowed
  BY <1>3 DEF IInv, MoneyInv
<1> HIDE DEF acc
<1> QED BY <1>3, <1>4, <1>5, <1>6, WriteKeepsInv

LEMMA StepUserFailure ==
  ASSUME IInv, NEW s \in tick.batch, UserFailure(s)
  PROVE  IInv'
<1>1. s \in Record /\ s.attempts \in Nat
  BY CopyFacts, RecordFields
<1>2. today \in Dates
  BY DEF IInv, TypeOK
<1> DEFINE n == s.attempts + 1
<1>3. n \in Nat
  BY <1>1
<1>4. /\ Failed(s) \in Record /\ Failed(s).user = s.user
      /\ Failed(s).last = s.last /\ Failed(s).pending = s.pending
  <2>1. CASE n > Len(Backoffs)
    <3>1. Failed(s) = Cancelled([s EXCEPT !.attempts = n])
      BY <2>1 DEF Failed
    <3>2. [s EXCEPT !.attempts = n] \in Record
      BY <1>1, <1>3 DEF Record
    <3>3. Failed(s) \in Record
      BY <1>2, <3>1, <3>2, CancelledType
    <3>4. /\ Failed(s).user = s.user /\ Failed(s).last = s.last
          /\ Failed(s).pending = s.pending
      BY <1>1, <3>1 DEF Cancelled, Record
    <3> QED BY <3>3, <3>4
  <2>2. CASE ~(n > Len(Backoffs))
    <3>1. Backoffs \in Seq(0..28)
      BY RenewalsAssumption DEF RenewalsAssumption
    <3>2. n \in 1..Len(Backoffs)
      BY <1>1, <2>2, <3>1
    <3>5. Backoffs[n] \in 0..28
      BY <3>1, <3>2, SequenceElement
    <3>3. PICK d \in Dates : d = AddDays(today, Backoffs[n])
      BY <1>2, <3>5, AddDaysLands
    <3>4. Failed(s) = [s EXCEPT !.status = "past_due", !.attempts = n, !.next = d]
      BY <2>2, <3>3 DEF Failed
    <3> HIDE DEF n
    <3> QED BY <1>1, <1>3, <3>4 DEF Record, Statuses
  <2> QED BY <2>1, <2>2
<1>5. Writes(s, Failed(s)) /\ glitches' \in 0..MaxGlitches
      /\ ledger' = [ledger EXCEPT ![s.user].moved = TRUE]
  BY DEF UserFailure, IInv, TypeOK
<1> QED BY <1>4, <1>5, FailureKeepsInv

LEMMA StepOperatorFailure ==
  ASSUME IInv, NEW s \in tick.batch, OperatorFailure(s)
  PROVE  IInv'
<1>1. s \in Record /\ today \in Dates
  BY CopyFacts DEF IInv, TypeOK
<1> DEFINE s2 == [s EXCEPT !.next = today]
<1>2. s2 \in Record /\ s2.user = s.user /\ s2.last = s.last /\ s2.pending = s.pending
  BY <1>1 DEF Record
<1>3. Writes(s, s2) /\ ledger' = [ledger EXCEPT ![s.user].moved = TRUE]
  BY DEF OperatorFailure
<1>4. glitches' \in 0..MaxGlitches
  BY RenewalsAssumption DEF OperatorFailure, IInv, TypeOK, RenewalsAssumption
<1> HIDE DEF s2
<1> QED BY <1>2, <1>3, <1>4, FailureKeepsInv

LEMMA RestartKeepsInv ==
  ASSUME IInv, NEW u \in Users, NEW s \in Record, s.user = u, CallWrites(s), Past(s),
         s.next = today, s.pending = 0 \/ s.pending = records[u].pending,
         ledger' = [ledger EXCEPT ![u] = Restarted(@)]
  PROVE  IInv'
<1> DEFINE acc == Restarted(ledger[u])
<1>1. today \in Dates
  BY DEF IInv, TypeOK
<1>2. /\ ledger[u] \in Account /\ ledger[u].spent \in Nat /\ ledger[u].allowed \in Nat
      /\ records[u].pending \in Nat
      /\ ledger[u].spent + records[u].pending <= ledger[u].allowed
  BY AccountFacts, RecordFields
<1>3. /\ acc \in Account /\ acc.spent = ledger[u].spent /\ acc.allowed = ledger[u].allowed
      /\ acc.anchor = today /\ acc.months = 0
  BY <1>1, <1>2 DEF Restarted, Account
<1>4. ledger' = [ledger EXCEPT ![s.user] = acc]
  OBVIOUS
<1>5. OnCalendar(s, acc)
  <2>1. today.month \in Nat /\ today.day \in Nat
    BY <1>1 DEF Dates
  <2> HIDE DEF acc
  <2> QED BY <1>3, <2>1 DEF OnCalendar
<1> HIDE DEF acc
<1>6. acc.spent + s.pending <= acc.allowed
  BY <1>2, <1>3
<1>7. ledger[s.user].allowed - ledger[s.user].spent <= acc.allowed - acc.spent
  BY <1>2, <1>3
<1> QED BY <1>3, <1>4, <1>5, <1>6, <1>7, CallKeepsInv

LEMMA StepSubscribe ==
  ASSUME IInv, NEW u \in Users, NEW p \in Plans, Subscribe(u, p)
  PROVE  IInv'
<1>1. today \in Dates
  BY DEF IInv, TypeOK
<1>2. NewSub(u, p) \in Record
  BY <1>1, NewSubType
<1>3. NewSub(u, p).user = u /\ NewSub(u, p).next = today /\ NewSub(u, p).pending = 0
      /\ Past(NewSub(u, p))
  BY DEF NewSub, Past
<1>4. CallWrites(NewSub(u, p)) /\ ledger' = [ledger EXCEPT ![u] = Restarted(@)]
  BY DEF Subscribe
<1> QED BY <1>2, <1>3, <1>4, RestartKeepsInv

LEMMA StepResubscribe ==
  ASSUME IInv, NEW u \in Users, Resubscribe(u)
  PROVE  IInv'
<1> DEFINE s == [records[u] EXCEPT !.status = "active", !.next = today]
<1>1. today \in Dates
  BY DEF IInv, TypeOK
<1>2. records[u] \in Record /\ records[u].user = u /\ Past(records[u])
  BY AccountFacts
<1>3. /\ s \in Record /\ s.user = u /\ s.next = today
      /\ s.pending = records[u].pending /\ s.last = records[u].last
  <2>1. "active" \in Statuses
    BY DEF Statuses
  <2> QED BY <1>1, <1>2, <2>1 DEF Record
<1>4. CallWrites(s) /\ ledger' = [ledger EXCEPT ![u] = Restarted(@)]
  BY DEF Resubscribe
<1> HIDE DEF s
<1>5. Past(s)
  BY <1>2, <1>3 DEF Past
<1> QED BY <1>3, <1>4, <1>5, RestartKeepsInv

\* The record and the account a change of plan leaves.
LEMMA ChangeFacts ==
  ASSUME IInv, NEW u \in Users, NEW p \in Plans, ChangePlan(u, p)
  PROVE  \E s \in Record, acc \in Account :
           /\ CallWrites(s) /\ ledger' = [ledger EXCEPT ![u] = acc]
           /\ s.user = u /\ s.last = records[u].last /\ s.next = records[u].next
           /\ LET diff == Prorated(records[u], p)
              IN  s.pending = IF diff > 0 THEN diff ELSE records[u].pending
           /\ acc.spent = ledger[u].spent
           /\ acc.allowed = ledger[u].allowed + Rise(records[u].plan, p)
           /\ acc.anchor = ledger[u].anchor /\ acc.months = ledger[u].months
           /\ ~acc.moved => ~ledger[u].moved /\ records[u].status \in {"active", "past_due"}
<1> DEFINE s0 == records[u]
           a == ledger[u]
<1>1. today \in Dates /\ ledger \in [Users -> Account]
  BY DEF IInv, TypeOK
<1>2. /\ s0 \in Record /\ s0.user = u /\ Past(s0) /\ s0.pending \in Nat
      /\ s0.status \in Statuses
      /\ a \in Account /\ a.allowed \in Nat /\ a.moved \in BOOLEAN
  BY AccountFacts, RecordFields
<1>3. Rise(s0.plan, p) \in Nat /\ Prorated(s0, p) \in Nat
  BY <1>1, <1>2, ProratedBound DEF Past
<1>4. PICK pending \in Nat :
        pending = IF Prorated(s0, p) > 0 THEN Prorated(s0, p) ELSE s0.pending
  BY <1>2, <1>3
<1>5. PICK moved \in BOOLEAN : moved = (a.moved \/ s0.status = "cancelled")
  OBVIOUS
<1>6. PICK allowed \in Nat : allowed = a.allowed + Rise(s0.plan, p)
  BY <1>2, <1>3
<1> DEFINE s == [s0 EXCEPT !.plan = p, !.status = "active", !.attempts = 0,
                           !.pending = pending]
           acc == [a EXCEPT !.allowed = allowed, !.moved = moved]
<1>7. s0.status # "none" /\ CallWrites(s)
  BY <1>4 DEF ChangePlan
<1>8. ledger' = [ledger EXCEPT ![u] = acc]
  BY <1>1, <1>2, <1>5, <1>6, Zenon DEF ChangePlan
<1>9. /\ s \in Record /\ s.user = u /\ s.last = s0.last /\ s.next = s0.next
      /\ s.pending = pending
  <2>1. "active" \in Statuses
    BY DEF Statuses
  <2> HIDE DEF s0
  <2> QED BY <1>2, <2>1 DEF Record
<1>10. /\ acc \in Account /\ acc.spent = a.spent /\ acc.allowed = allowed
       /\ acc.anchor = a.anchor /\ acc.months = a.months /\ acc.moved = moved
  <2> HIDE DEF a
  <2> QED BY <1>2 DEF Account
<1>11. ~moved => ~a.moved /\ s0.status \in {"active", "past_due"}
  BY <1>2, <1>5, <1>7 DEF Statuses
<1> HIDE DEF s, acc
<1> QED BY <1>4, <1>6, <1>7, <1>8, <1>9, <1>10, <1>11

LEMMA StepChangePlan ==
  ASSUME IInv, NEW u \in Users, NEW p \in Plans, ChangePlan(u, p)
  PROVE  IInv'
<1> DEFINE s0 == records[u]
           a == ledger[u]
           diff == Prorated(s0, p)
           rise == Rise(s0.plan, p)
<1>1. PICK s \in Record, acc \in Account :
        /\ CallWrites(s) /\ ledger' = [ledger EXCEPT ![u] = acc]
        /\ s.user = u /\ s.last = s0.last /\ s.next = s0.next
        /\ s.pending = IF diff > 0 THEN diff ELSE s0.pending
        /\ acc.spent = a.spent /\ acc.allowed = a.allowed + rise
        /\ acc.anchor = a.anchor /\ acc.months = a.months
        /\ ~acc.moved => ~a.moved /\ s0.status \in {"active", "past_due"}
  BY ChangeFacts
<1>2. /\ s0 \in Record /\ Past(s0) /\ s0.pending \in Nat
      /\ a.spent \in Nat /\ a.allowed \in Nat /\ a.spent + s0.pending <= a.allowed
  BY AccountFacts, RecordFields
<1>3. rise \in Nat /\ diff \in Nat /\ diff <= rise
  BY <1>2, ProratedBound DEF Past, IInv, TypeOK
<1>4. Past(s)
  BY <1>1, <1>2 DEF Past
<1> HIDE DEF diff, rise
<1>5. acc.spent + s.pending <= acc.allowed
  BY <1>1, <1>2, <1>3
<1>6. a.allowed - a.spent <= acc.allowed - acc.spent
  BY <1>1, <1>2, <1>3
<1>7. ~acc.moved => OnCalendar(s, acc)
  BY <1>1 DEF IInv, CalendarKept, Billable, OnCalendar
<1> QED BY <1>1, <1>4, <1>5, <1>6, <1>7, CallKeepsInv

LEMMA StepCompleteCheckout ==
  ASSUME IInv, NEW u \in Users, NEW p \in Plans, CompleteCheckout(u, p)
  PROVE  IInv'
<1> DEFINE a == ledger[u]
           price == Price[p]
           months == Months(Period[p])
           s0 == NewSub(u, p)
<1>1. today \in Dates /\ ledger \in [Users -> Account]
  BY DEF IInv, TypeOK
<1>2. PICK d \in Dates : d = AddPeriod(today, Period[p])
  BY <1>1, AddPeriodLands
<1>3. price \in Nat /\ months \in Nat
  BY MonthsNat, RenewalsAssumption DEF RenewalsAssumption
<1>4. PICK daily \in BOOLEAN : daily = (Period[p].unit = "day")
  OBVIOUS
<1> DEFINE s == [s0 EXCEPT !.next = d]
           acc == [spent |-> a.spent + price, allowed |-> a.allowed + price,
                   anchor |-> today, months |-> months, moved |-> daily]
<1>5. /\ s0 \in Record /\ s0.user = u /\ s0.pending = 0 /\ s0.last = Never
  BY <1>1, NewSubType DEF NewSub
<1>6. /\ s \in Record /\ s.user = u /\ s.pending = 0 /\ s.last = Never /\ s.next = d
  <2> HIDE DEF s0
  <2> QED BY <1>5 DEF Record
<1>7. /\ a.spent \in Nat /\ a.allowed \in Nat /\ records[u].pending \in Nat
      /\ a.spent + records[u].pending <= a.allowed
  BY AccountFacts, RecordFields
<1>8. CallWrites(s) /\ ledger' = [ledger EXCEPT ![u] = acc]
  BY <1>2, <1>4 DEF CompleteCheckout
<1> HIDE DEF s, price, months
<1>9. acc \in Account
  BY <1>1, <1>3, <1>7 DEF Account
<1>10. Past(s)
  BY <1>6 DEF Past
<1>11. acc.spent + s.pending <= acc.allowed
  BY <1>3, <1>6, <1>7
<1>12. a.allowed - a.spent <= acc.allowed - acc.spent
  BY <1>3, <1>7
<1>13. ASSUME ~acc.moved PROVE OnCalendar(s, acc)
  <2>1. Period[p].unit # "day"
    BY <1>4, <1>13
  <2>2. /\ d.month = today.month + months
        /\ d.day <= today.day /\ (d.day >= 28 \/ d.day = today.day)
    BY <1>1, <1>2, <2>1, AddPeriodLands DEF months
  <2> QED BY <1>6, <2>2 DEF OnCalendar
<1> HIDE DEF acc
<1> QED BY <1>6, <1>8, <1>9, <1>10, <1>11, <1>12, <1>13, CallKeepsInv

LEMMA StepCancelSub ==
  ASSUME IInv, NEW u \in Users, CancelSub(u)
  PROVE  IInv'
<1> DEFINE s == Cancelled(records[u])
<1>1. today \in Dates /\ ledger \in [Users -> Account]
  BY DEF IInv, TypeOK
<1>2. /\ ledger[u] \in Account /\ ledger[u].spent \in Nat /\ ledger[u].allowed \in Nat
      /\ records[u] \in Record /\ records[u].user = u /\ Past(records[u])
      /\ ledger[u].spent + records[u].pending <= ledger[u].allowed
  BY AccountFacts
<1>3. s \in Record
  BY <1>1, <1>2, CancelledType
<1>4. /\ s.user = u /\ s.last = records[u].last /\ s.pending = records[u].pending
      /\ s.status = "cancelled"
  BY <1>2 DEF Cancelled, Record
<1>5. CallWrites(s) /\ ledger' = [ledger EXCEPT ![s.user] = ledger[s.user]]
  BY <1>1, <1>4 DEF CancelSub
<1>6. Past(s) /\ ~Billable(s)
  BY <1>2, <1>4 DEF Past, Billable
<1> HIDE DEF s
<1>7. /\ ledger[s.user].spent + s.pending <= ledger[s.user].allowed
      /\ ledger[s.user].allowed - ledger[s.user].spent
           <= ledger[s.user].allowed - ledger[s.user].spent
      /\ ledger[s.user] \in Account
  BY <1>2, <1>4
<1>8. CallWrites(s)
  BY <1>5
<1> QED BY <1>3, <1>5, <1>6, <1>7, <1>8, CallKeepsInv

LEMMA StepReadIndex ==
  ASSUME IInv, ReadIndex
  PROVE  IInv'
<1>1. PICK Q \in Ranges : tick' = [Idle EXCEPT !.pc = "read", !.users = Q]
  BY DEF ReadIndex
<1>2. /\ Q \subseteq Users
      /\ \A u \in Q : due[u] # Absent /\ due[u] <= DayNumber(today)
  BY DEF Ranges, DueMembers
<1>3. tick' \in Tick /\ tick'.pc = "read" /\ tick'.users = Q /\ tick'.batch = {}
  BY <1>1, <1>2 DEF Idle, Tick
<1>4. UNCHANGED <<today, records, due, calls, glitches, ledger>>
  BY DEF ReadIndex
<1>5. TypeOK' /\ IndexExact'
  BY <1>3, <1>4 DEF IInv, TypeOK, IndexExact, Score, Billable
<1>6. CopiesInv' /\ LoadedAreDue'
  BY <1>3 DEF CopiesInv, LoadedAreDue
<1>7. ReadInv'
  BY <1>2, <1>3, <1>4 DEF ReadInv
<1>8. PastInv' /\ MoneyInv'
  BY <1>3, <1>4 DEF IInv, PastInv, Past, MoneyInv, NeverOverpaid
<1>9. CalendarKept'
  BY <1>4 DEF IInv, CalendarKept, OnCalendar, Billable
<1> QED BY <1>5, <1>6, <1>7, <1>8, <1>9 DEF IInv

LEMMA StepReadRecord ==
  ASSUME IInv, NEW u \in Users, ReadRecord(u)
  PROVE  IInv'
<1>1. /\ tick \in Tick /\ tick.pc = "read" /\ u \in tick.users
      /\ \A s \in tick.batch : s.user \notin tick.users
  BY DEF ReadRecord, IInv, TypeOK
<1>2. /\ records[u] \in Record /\ records[u].user = u /\ Past(records[u])
      /\ ledger[u].spent + records[u].pending <= ledger[u].allowed
      /\ due[u] = Score(records[u])
  BY AccountFacts DEF IInv, IndexExact
<1>3. /\ tick'.users = tick.users \ {u} /\ tick'.batch = tick.batch \cup {records[u]}
      /\ tick'.pc = IF tick.users = {u} THEN "work" ELSE "read"
      /\ tick'.touched = tick.touched /\ tick' \in Tick
  BY <1>1, <1>2 DEF ReadRecord, Tick
<1>4. UNCHANGED <<today, records, due, calls, glitches, ledger>>
  BY DEF ReadRecord
<1>5. TypeOK' /\ IndexExact'
  <2>1. \A s \in tick'.batch : s.user \notin tick'.users
    BY <1>1, <1>2, <1>3
  <2> QED BY <1>3, <1>4, <2>1 DEF IInv, TypeOK, IndexExact, Score, Billable
<1>6. CopiesInv'
  <2>1. \A s, t \in tick'.batch : s.user = t.user => s = t
    BY <1>1, <1>2, <1>3 DEF IInv, CopiesInv
  <2>2. \A s \in tick'.batch : s.user \in tick'.touched \/ s = records'[s.user]
    BY <1>2, <1>3, <1>4 DEF IInv, CopiesInv
  <2> QED BY <1>3, <2>1, <2>2 DEF CopiesInv
<1>7. ReadInv'
  BY <1>3, <1>4 DEF IInv, ReadInv
<1>8. LoadedAreDue'
  <2>1. ASSUME u \notin tick.touched
        PROVE  Billable(records[u]) /\ (records[u].pending # 0 \/ Days(records[u].next, today) >= 0)
    <3>1. due[u] # Absent /\ due[u] <= DayNumber(today)
      BY <1>1, <2>1 DEF IInv, ReadInv
    <3>2. DayNumber(today) \in Nat /\ DayNumber(records[u].next) \in Nat
      BY <1>2, RecordFields, DayNumberNat DEF IInv, TypeOK
    <3> QED BY <1>2, <3>1, <3>2 DEF Score, Days
  <2> SUFFICES ASSUME NEW s \in tick'.batch, s.user \notin tick.touched
               PROVE  Billable(s) /\ (s.pending # 0 \/ Days(s.next, today) >= 0)
    BY <1>3, <1>4 DEF LoadedAreDue, Billable, Days
  <2>2. CASE s \in tick.batch
    BY <2>2 DEF IInv, LoadedAreDue
  <2>3. CASE s = records[u]
    BY <1>2, <2>1, <2>3
  <2> QED BY <1>3, <2>2, <2>3
<1>9. PastInv' /\ MoneyInv'
  BY <1>2, <1>3, <1>4 DEF IInv, PastInv, Past, MoneyInv, NeverOverpaid
<1>10. CalendarKept'
  BY <1>4 DEF IInv, CalendarKept, OnCalendar, Billable
<1> QED BY <1>5, <1>6, <1>7, <1>8, <1>9, <1>10 DEF IInv

LEMMA StepNextDay ==
  ASSUME IInv, NextDay
  PROVE  IInv'
<1>1. today' \in Dates /\ today \in Dates /\ Days(today, today') > 0
  BY RenewalsAssumption DEF NextDay, RenewalsAssumption, IInv, TypeOK
<1>2. UNCHANGED <<records, due, tick, calls, glitches, ledger>>
  BY DEF NextDay
<1>3. DayNumber(today) \in Nat /\ DayNumber(today') \in Nat /\ DayNumber(today) < DayNumber(today')
  BY <1>1, DayNumberNat DEF Days
<1>4. ASSUME NEW d \in Dates, Days(d, today) >= 0 PROVE Days(d, today') >= 0
  BY <1>3, <1>4, DayNumberNat DEF Days
<1>5. TypeOK' /\ IndexExact' /\ CopiesInv'
  BY <1>1, <1>2 DEF IInv, TypeOK, IndexExact, Score, Billable, CopiesInv
<1>6. ReadInv'
  <2>1. \A u \in tick.users : due[u] \in Nat \cup {Absent}
    BY DEF IInv, TypeOK, Tick
  <2> QED BY <1>2, <1>3, <2>1 DEF IInv, ReadInv, Absent
<1>7. LoadedAreDue'
  <2>1. \A s \in tick.batch : s.next \in Dates
    BY CopyFacts, RecordFields
  <2> QED BY <1>2, <1>4, <2>1 DEF IInv, LoadedAreDue, Billable
<1>8. PastInv'
  <2>1. ASSUME NEW s \in Record, Past(s) PROVE Past(s)'
    BY <1>4, <2>1, RecordFields DEF Past
  <2>2. \A u \in Users : records[u] \in Record
    BY DEF IInv, TypeOK
  <2> QED BY <1>2, <2>1, <2>2, CopyFacts DEF IInv, PastInv, Past
<1>9. MoneyInv'
  BY <1>2 DEF IInv, MoneyInv, NeverOverpaid
<1>10. CalendarKept'
  BY <1>2 DEF IInv, CalendarKept, OnCalendar, Billable
<1> QED BY <1>5, <1>6, <1>7, <1>8, <1>9, <1>10 DEF IInv

LEMMA InvNext == IInv /\ [Next]_vars => IInv'
<1> SUFFICES ASSUME IInv, [Next]_vars PROVE IInv'
  OBVIOUS
<1>1. CASE TickStep
  <2>1. CASE Work
    BY <2>1, StepCharge, StepPullPending, StepUserFailure, StepOperatorFailure DEF Work
  <2> QED BY <1>1, <2>1, StepReadIndex, StepReadRecord DEF TickStep
<1>2. CASE Call
  BY <1>2, StepResubscribe, StepCancelSub, StepSubscribe, StepChangePlan,
     StepCompleteCheckout DEF Call
<1>3. CASE NextDay
  BY <1>3, StepNextDay
<1>4. CASE UNCHANGED vars
  BY <1>4 DEF vars, IInv, TypeOK, IndexExact, Score, Billable, CopiesInv, ReadInv,
     LoadedAreDue, PastInv, Past, MoneyInv, NeverOverpaid, CalendarKept, OnCalendar
<1> QED BY <1>1, <1>2, <1>3, <1>4 DEF Next

LEMMA Invariant == Spec => []IInv
BY InvInit, InvNext, PTL DEF Spec

----------------------------------------------------------------------------
(* Theorems.                                                               *)

\* Every record, the sorted set, the batch of a tick and the accounts keep
\* their types; a billing date is always a day of the calendar.
THEOREM TypeCorrect == Spec => []TypeOK
BY Invariant, PTL DEF IInv

\* UpsertSubscription keeps subs:due equal to the billable records by the time
\* they are due, whatever the scheduler and the API write over one another.
THEOREM IndexStaysExact == Spec => []IndexExact
BY Invariant, PTL DEF IInv

\* Until an API call touches it, a record that DueBefore has loaded was billable
\* and due when the index was read and is still so when it is charged.
THEOREM LoadsAreDue == Spec => []LoadedAreDue
BY Invariant, PTL DEF IInv

\* The charges between two renewals never exceed the price of the period and the
\* rises in price: proratedDiff is at most the rise, on any two dates, and a
\* pending difference replaces the one before.
THEOREM NobodyOverpays == Spec => []NeverOverpaid
<1>1. IInv => NeverOverpaid
  BY DEF IInv, MoneyInv
<1> QED BY <1>1, Invariant, PTL

\* Renewals keep to the calendar: from any first day, for any period in months or
\* years, the n-th billing date is n periods later, clamped by clampedAddMonths.
THEOREM CalendarIsKept == Spec => []CalendarKept
BY Invariant, PTL DEF IInv
=============================================================================

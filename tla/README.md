# Verification of the ERC-20 subscription backend

TLA+ models of the subscription backend under `src/`, the TLC configurations
that check them on small instances, and TLAPS proofs of their main results.
Every definition is read off the Go source; the docs and comments only supply
what the code is *meant* to do.

    tlc -workers 2 -config MCBilling_safety.cfg MCBilling     # any run
    tlapm BillingProofs.tla                                   # any *Proofs module

## 1. The system

A Go server bills ERC-20 subscriptions. A user approves the `Subscriptions`
contract once; a scheduler in the server then calls `pull(user, amount)` every
period with the operator's key. Plans and subscriptions are managed through an
admin API, and a hosted checkout lets a user pay the first period. Everything
is kept in one Redis; several replicas of the server may share it.

| Component | State | Operations | Module |
|---|---|---|---|
| Scheduler `scheduler/scheduler.go` | per tick: a snapshot of at most 25 due records; per pull: a copy of one record | `Tick`, `processOne`, `submitAndWait`, `pullPending`, `resolveInFlight`, `markCharged`, `handleFailure`, `markCancelled` | `Billing` (pulls), `Renewals` (dates and money) |
| Submitter `chain/submit.go`, `client.go` | nonce, last hash, fee, number of bumps of the current call | `SubmitAndWait`, `WaitReceipt`, `shouldBump`, `maxFeeForTip` | `Billing` (hashes), `TxSubmit` (fees) |
| Tick lock `scheduler/lock.go`, `store/redislock.go` | one key with a TTL; a heartbeat per tick | `Acquire`, `Renew`, `Release`, `heartbeatLock` | `TickLock`, `Leadership` |
| Admin API `api/api.go` | none of its own | `upsertPlan`, `createSub` (`applyPlan`, `proratedDiff`), `cancelSub`, reads | `Billing`, `Renewals` |
| Dunning `dunning/dunning.go` | none | `NextRetry` | `Billing`, `Renewals` |
| Checkout sessions `api/sessions.go`, `store/sessions.go` | `session:<id>`, `tx:<hash>`, `sessions:expiring` | `createSession`, `completeSession`, `forceCompleteSession`, sweeper | `Checkout` |
| Transactions `chain/tx.go` | none | `Fetch`, `DecodeTransferCall`, `DecodeTransferLog` | `Payment` |
| Store `store/redis.go` | records, `subs:due` | `UpsertSubscription`, `DueBefore`, the two WATCH transactions | `Renewals`, `Checkout` |
| Calendar `store/store.go` | none | `AddPeriod`, `clampedAddMonths` | `Calendar` |
| Webhooks `webhooks/webhooks.go` | none | `Send`, three attempts | not modelled (section 6) |
| Contract, signatures, config, indexer, checkout page | | | not modelled (section 6) |

How they interact. The scheduler and the API share the subscription records
and nothing else: there is no lock per record and no compare-and-set. The
scheduler reads a batch at the start of a tick and writes each record back
whole, seconds to minutes later; a handler reads one record, computes, and
writes it whole. Replicas exclude each other with the tick lock only. The
submitter calls back into the scheduler (`onSubmit`) after every broadcast, so
that the hash reaches the record before the wait. The checkout writes a
subscription at the end; its own keys are guarded by Redis WATCH.

What is hard, and where:

* a crash between sending a transaction and storing its hash; a failed store
  write; a bump that fails half-way; a receipt that comes during a bump;
* stale copies: an API call in the middle of a tick, the lock's TTL running
  out under a live holder;
* legal sequences that add up to something nobody meant: upgrade, failed
  prorated charge, dunning retry, regular charge;
* two requests, a forced completion and a sweeper on one session, two sessions
  and one transfer, and the gap between completing a session and writing the
  subscription;
* progress: a stuck transaction, a batch limit, a lock left behind.

`PROJECT.json` lists each of these under `hazards`, at its line. What makes a
component correct:

* pull cycle: a pull is never lost or doubled; nobody pays twice for a period;
  only real payments are recorded; failures follow the dunning ladder; what is
  due is served;
* renewals: `subs:due` agrees with the records; a cycle never costs more than
  the plans held in it; billing dates do not drift; a queued difference does
  not stay queued;
* submitter: it decides by the fees that are really on offer, bumps when and
  only when that is needed, and returns;
* checkout: a payment completes one session, and was made; a session ends once,
  is notified once, and leaves a subscription its wallet paid for; what is past
  its deadline is swept;
* tick lock: as far as heartbeats are in order, a mutex that is not given up
  during a pull; a key nobody owns runs out, and ticks go on.

## 2. Modules

    PullLedger       what the pull cycle promises about a customer's money
    Billing          the pull cycle, its API writers, the chain
      BillingProofs    typing and pull accounting, for all constants and faults
        BillingCopiesProofs  the dunning ladder and the newest hash, likewise
        BillingCalmProofs    the promises without excuses, the ledger
          BillingDatesProofs   no date, no period paid for twice
    Calendar         dates and periods
      Renewals         records, due index, charges and plan changes over months
        RenewalsProofs   every safety property, for any calendar and price list
    Leadership       what the tick lock promises
    TickLock         the Redis lock, its heartbeat, pauses and crashes
      TickLockProofs   typing, the refinement of Leadership, one signer
    TxSubmit         the fees of one pull against a market and a mempool
      TxSubmitProofs   typing and every safety property
    Payment          what a transaction must look like to pay for a session
      Checkout         sessions, requests, the WATCH transactions, sweepers
        CheckoutProofs   typing and every safety property

Each of `Billing`, `Renewals`, `TickLock`, `TxSubmit` and `Checkout` has a
module `MC<name>` with its instances for TLC and the configurations
`MC<name>_*.cfg`. They are views of one system at different depths: `Billing`
sees the lock as a holder that may lose it, a pull as a nonce with versions and
a period as a number of ticks; `TickLock`, `TxSubmit` and `Renewals` open these
three boxes one at a time.

### Billing

One action per access to the store or to the chain; all that a handler does
between two of them is one step.

| Variable | Code |
|---|---|
| `store`, `plans` | `sub:<user>` and `plan:<id>`; status `"none"` means no key |
| `sched[r]` | where replica `r` is: `loop` (between two records), `persist` (transaction sent, hash not yet stored), `wait` and `bump` (in `SubmitAndWait`), `resolve` (in `WaitReceipt` for a hash found in the record); `queue`, `sub`, `plan` are its copies |
| `txs`, `sent` | pulls in nonce order; `top` is the newest version (fee bump), `mined` the version that mined, `ok` the status |
| `lock` | the tick lock; `Orphan` is a dead process's |
| `api` | an API call that has read and not yet written |
| `credited`, `blamed`, `epoch` | history: pulls recorded as paid and as what kind; pulls whose bookkeeping a fault broke; how often a subscription started |

`StartTick` is `Acquire` with `DueBefore`; `StartResolve`, `CancelInactive`,
`SubmitFails`, `Broadcast` are the branches of `processOne` for one record;
`PersistHash` is `onSubmit`; `Timeout`, `Resend`, `NoBump`, `ResendFails`,
`LateReceipt`, `LateNotFound`, `GiveUp` are the exits of `SubmitAndWait`;
`ReceiptOk` and `ReceiptReverted` are the writes after a receipt, by
`markCharged`, `pullPending` and `handleFailure`. `CancelSub` or `CreateSub`
followed by `WriteCall` is a handler.

The names of the failures are the members of `Faults`; a run or a theorem says
which can happen. Each is one the code meets and does not rule out:

| Fault | In the code |
|---|---|
| `orphan` | death or shutdown between `SendTransaction` and `onSubmit`'s write |
| `store` | `UpsertSubscription` fails (`onSubmit`'s error is only logged) |
| `resend` | a bump is refused with an unexpected error: `handleFailure` clears the hash of a live transaction |
| `late` | the transaction mines between the wait and the bump: "nonce too low" |
| `replaced` | an older version mines |
| `drop` | the mempool evicts a transaction |
| `rpc` | polling a receipt fails |
| `renew` | the heartbeat fails with the lock still held |
| `lease` | the lock of a live holder runs out |
| `midtick` | an API call runs during a tick |
| `split` | another step comes between an API call's read and its write |
| `checkout` | a checkout overwrites a record with a pull in flight |
| `proration` | the pull of a prorated charge can fail |

`PullLedger` is the abstract view, with a state per pull and nothing else:
`unsent`, `open` (may take the money), `taken`, `refused`, `lost` (evicted, and
not replaced), `booked`. `Send` needs a user with nothing open or taken. In
`Billing` a pull is `booked` once it is in `credited`, otherwise what the chain
makes of it (`LedgerState`); copies, locks, hashes, dates and plans disappear.
Most steps stutter; `Broadcast` is `Send`, `Mine` is `Take` or `Refuse`, `Drop`
is `Lose`, `Resend` of a dropped pull `Replace`, `ReceiptOk` is `Book`.

Crashes at any other point need no fault: every process may die at every step
(bounded by `MaxCrashes` for TLC).

The blame. Some of these faults do lose pulls; that is the code's behaviour.
A fault that breaks the record of a pull adds *that pull* to `blamed`, at the
step where it does. `OpenPullsAccounted` then says that there is no other way
to lose one: an interleaving in which a pull disappears and no listed fault hit
that very pull violates it. The lease fault blames the hash that is overwritten
and the hash that is written, since the write of a replica without the lock can
do either harm.

### Checkout

| Variable | Code |
|---|---|
| `sessions`, `txOwner`, `expiring` | `session:<id>`, `tx:<hash>`, `sessions:expiring` |
| `subs[w]` | the session whose completion wrote the wallet's subscription |
| `requests[h]` | a `/complete` or (`force`) `force_complete` request: `verify`, `watch`, `exec`, `record`; `seen` is what its WATCH read |
| `sweeps[w]` | a sweeper: `sweep` (has a batch), `expire` (has read one session) |
| `chain[t]` | what the node says: unknown, mined, reverted, final (enough confirmations) |
| `events`, `blamed` | history: `session.completed` events handed to the sender; sessions whose completion a fault cut short |

`Begin` is the first read with its guards, `Verify` the checks up to
`CompleteSession`, `Watch`/`Exec`/`ExecLost` one round of its WATCH loop,
`Record` the subscription write and the event, `StartSweep` ... `EndSweep`
`ExpireSessionsBefore`. `Refuse` is every other answer, a failed signature,
approval or allowance check among them.

`Payment` has a transaction as calldata and logs, which need not agree: a token
may take a fee or redirect. `CallPays` is the check of the calldata, `LogAgrees`
that of the first log of the right amount; `Received` says what both are for and
is used by properties only. `Verified` shows where the two endpoints differ:
`forceCompleteSession` reads no logs and counts no confirmations.

EXEC is modelled by comparing values, where Redis compares writes. The two
differ only if a watched key is written and returns to its value. It cannot: a
session leaves "pending" once (proved, `TerminalStates`), a reservation is made
together with such a change (`KeysAgree`), and `CreateSession` uses a new id.

Faults: `crash` (between `CompleteSession` and `UpsertSubscription`), `record`
(that upsert fails: the request's context is cancelled when the client hangs
up), `reply` (EXEC applied, reply lost), `sweep` (a sweep fails), `reorg`.

### Renewals

One customer's money and dates over several cycles, with the index that leads
the scheduler to the record. A pull succeeds or fails in one step: hashes,
crashes and replicas are `Billing`'s.

| Variable | Code |
|---|---|
| `records`, `due` | `sub:<user>`; `subs:due`, `Absent` for a user who is not a member, 0 for a pending charge |
| `tick` | `DueBefore` between its ZRANGEBYSCORE and its last GET (`read`), then the batch (`work`); `touched` is history: written by an API call during the tick |
| `ledger` | history, see below |

`ReadIndex` and `ReadRecord` are `DueBefore`; `Charge`, `PullPending`,
`UserFailure` and `OperatorFailure` what `processOne` makes of one copy;
`Subscribe`, `Resubscribe` and `ChangePlan` the branches of `createSub`.
Dates are those of `Calendar`: months counted from a base year, the Gregorian
lengths, `clampedAddMonths` and `AddDate`.

The ledger says what a customer owes: `allowed` is the price of the last
regular charge plus each rise in price that a change of plan has brought since,
`spent` what was taken; `anchor` and `months` say where the next date belongs;
`moved` that something other than a regular charge set it (a retry, a
cancellation, a period counted in days, a stale copy).

### TickLock

Time runs in countdowns: `ttl` is what the key has left, `beat[r]` when r's
heartbeat is served at the latest. `stage[r]` goes from `idle` through `ready`
(between two records, where `lockLost` is looked at) and `pull` to `leave`
(the deferred functions). A call to Redis fails with or without effect
(`Fault`); `Pause` stops a process beyond its deadline, which puts it in `late`;
a crash leaves the key to its TTL. `Leadership` is the lock as its users see
it: a leader that alone begins pulls and stays leader during them. `TickLock`
implements it under

    leader <- holder    signing <- replicas in a pull with a heartbeat that has
                                   neither failed nor missed its deadline

The restriction to healthy heartbeats is what the code can give: a heartbeat
that fails tells the tick between two records only, so a pull that is under way
goes on without the lock.

### TxSubmit

`SubmitAndWait` from the first broadcast to its return, with `market` (base fee
and tip) and `pool` (the version on offer). `Timeout` and `PollFails` end a
wait, `NoBump`, `Bump` and `ReadFails` are `shouldBump`, `Resend`,
`ResendUnderpriced`, `ResendTooLate` and `ResendFails` the outcomes of the
replacement. The mempool's rule (both fees a tenth higher) is go-ethereum's.
`fee` is what the code holds in its variables; after a refused bump
(`submit.go:142`) that is not what any transaction offers, and `refused` says
so.

## 3. Runs

| Run | Question | Result |
|---|---|---|
| `billing_safety` | Two replicas, crashes, reverts, a drop, one fee bump, plan changes and API calls mid-tick: is a pull ever lost, doubled or recorded twice, a period paid twice, does the cycle implement `PullLedger`? | holds |
| `billing_faults` | Two replicas, two fee bumps and every way they can end, a lease that expires under its holder, failed writes, calls split by other steps, a crash before the hash is stored: is every lost pull explained, does the record name the newest version? | holds |
| `billing_liveness` | Batch of one, two users, a crash, a plan that ends or gets a shorter period: is every hash resolved, is every due record served, no date paid for twice? | holds |
| `billing_dropped` | "leave for next tick" (`scheduler.go:416`) | violated |
| `billing_settled` | "Cleared on successful pull" (`store.go:91-94`) | violated |
| `renewals_safety` | January 31 to the end of March of a leap year, upgrades, downgrades, cancellations and checkouts at any point of a tick, failing pulls: do index, money and dates stay right, is a queued difference served? | holds |
| `renewals_backoff` | "retry at 24h → 72h → 168h" (`src/README.md:262`) | violated |
| `lock_safety` | Two replicas, a failing call, a pause, a crash: is the lock the mutex it stands for, and never left behind? | holds |
| `submit_fees` | A market that moves three times, two bumps, six attempts, failing calls: are decisions made by the fees on offer, is what the base fee strands replaced, does the call return? | holds |
| `checkout_safety` | Two requests, public or forced, a sweeper, two sessions, two transfers of one wallet, one of them redirected by the token, any one fault: the double-spend guard and all that hangs on it | holds |
| `checkout_sweep` | Two sweepers, batch of one, a failing sweep: does every overdue session end? | holds |
| `checkout_orphan` | "must not orphan a subscription" (`docs/checkout-sessions.md:23-24`) | violated |

### Bounds

Billing. The clock runs to 2 or 3 with a period of 2 and waits of 1: enough for
a charge, a failure, its retry and the next charge. Three transactions are one
more than two charges of a period need; with two, the fault run still has a
second pull after a lost one. That run has a clock that stands still and no
reverts: all its faults come between a broadcast and the end of its pull, and
`billing_safety` has the rest. Two bumps let an older version mine while a
newer one is polled. One user suffices for safety, since records of different
users meet only in the queue and in the nonce order; the liveness run has two
users and a batch of one, so that one can keep the other out. One or two API
calls are enough to be stale before or after each step of a pull; a plan change
followed by a cancel needs two. `billing_safety` has plans of one period and
prorated pulls that do not fail, as `AtMostOncePerPeriod` needs both (section 5);
`OncePerDate`, which needs neither, is asked by the liveness run, where a period
of 2 may become 1. That one user has one pull at a time, where others have
theirs, is left to the proof of `ImplementsLedger`. `Century` is beyond the clock,
as a hundred years are. Replicas are symmetric; no liveness run uses symmetry.

Renewals. Four days, January 31, February 14 and 29, and March 29 of 2028:
a clamped date, a day inside a cycle, and the renewal after the clamped one.
Four calls are a subscription, an upgrade, a change back and a cancellation or
checkout. Prices 3 and 10 make a division that rounds. One user, since a record
meets others only in the LIMIT of the index.

TickLock. One unit is 5 s: TTL 30 s, renewal every 10 s, a ticker served within
5 s. No clock is bounded. One failed call, one pause and one crash, in any
order and at any point, are what it takes to lose a lock, to wake without it and
to leave it behind.

TxSubmit. Base fees 2, 10 and 40 against tips 1 and 3: steps that two doublings
of the tip do and do not outweigh. 2 bumps and 6 attempts
instead of 5 and 10; the proofs are for any.

Checkout. Two sessions, two transfers and two requests give each race: same
session and different transfers, different sessions and the same transfer, both
the same. One wallet makes the two sessions fight for its subscription. The
receipt of one transfer begins with a log of another contract, the log of the
other names another recipient. A sweeper, a TTL of two ticks and seconds of two
ticks let a session expire mid-request, with the deadline inside a second. One
fault is enough for each property, as none counts faults. `MaxTries` has the
code's value.

Deadlock is checked for `TickLock`, whose processes never stop. Elsewhere the
clock, the calls or the transactions are bounded, so every behaviour may stop.

### Fairness

`Billing!FairSpec`: weak fairness of each replica's next step (`Run` has a
ticker; every call it makes returns), of the expiry of a dead holder's lock
(its TTL), of the write of a call that has read, and of mining the newest
version of what is in the mempool. No fairness for faults, crashes, calls or
the clock. The liveness run has no faults: with `drop` a pull may never mine,
which `billing_dropped` shows to be fatal.

`Checkout!FairSpec`: weak fairness of each sweeper (`RunSessionSweeper`'s
ticker), of nothing else: a sweep may fail, clients and chain may stop.

`Renewals!FairSpec`: weak fairness of the tick (`Run`'s ticker). A pull may
fail each time, days and calls may stop.

`TickLock!FairSpec`: time passes, a running process serves its ticks and its
heartbeat, a pause ends. Faults, crashes and restarts are never promised, so
one process that is left must do.

`TxSubmit!FairSpec`: weak fairness of the call itself (every request to the node
returns or times out). Nothing is assumed of market and miners: the call returns
because its budget ends.

## 4. Proofs

All theorems hold for every value of the constants that satisfies the named
assumptions of their module (types and non-emptiness; for `TickLock` also that a
renewal served as late as allowed still comes before the TTL ends), so for any
number of users, replicas, calls, crashes and transactions, and any set of
faults unless one is named.

**Billing.** `TypeCorrect`, then `PullsAccounted == Spec =>
[]OpenPullsAccounted`, which is not inductive: a stale copy written back could
drop a hash. The strengthening is

    IInv == TypeOK /\ RefsOK /\ QueuesOK /\ CopiesFresh /\ Accounted

* `RefsOK`: a hash in a record, a copy or a read names a pull of that user;
* `QueuesOK`: a snapshot has one record per user, and none of the user now
  being worked on, so the record of a user is rewritten from one copy only;
* `CopiesFresh`: while a replica holds the lock, the stored record names
  nothing but the pull its own copy names, a pull that is gone (recorded or
  reverted) or a blamed one. It is stated for the holder only: without the
  lock a copy may be arbitrarily stale, which is why the lease fault blames;
* `Accounted`: the conclusion, without the exception for dropped pulls.

Every action is either a write to one record (`WriteStep`) or moves nothing
that matters (`QuietStep`); the lemmas per action show which.

**Billing without excuses** (`BillingCalmProofs`): if none of `orphan`,
`store`, `resend`, `late`, `lease`, `split`, `checkout` occurs, nothing is ever
blamed, a replica in a tick holds the lock and a half-done call has read what
is stored (`CalmInv`). Hence `NoPullLostWhenCalm`, `OneOpenPullWhenCalm` and
`CreditsAreRealWhenCalm`, with any number of crashes, reverts, bumps, drops,
replaced versions, failed renewals and calls during a tick.

`RecordedOnceWhenCalm` needs more, since a pull is booked from a copy of its
hash: `Unbooked`, neither a stored record, nor a copy in a batch, nor the pull a
replica works on is booked yet. Booking takes the hash out of the record, and
with one tick at a time and one record per user in it, no other copy is left.

`LedgerIsImplemented` asks of `Send` and `Replace` that their user had nothing
outstanding. That is `OneOpenPull` after the step: the step opens this pull and
moves no other one, so another that could take money, or has taken it unbooked,
would make a second open pull. `Book` needs `Unbooked` and that a receipt is of
a mined pull; every other step is shown to leave `LedgerPulls` as it is.

**Copies** (`BillingCopiesProofs`), under any set of faults. The scheduler and
the API write whole records from copies that may be stale, so the invariants
speak of the copies too. `LadderInv`: every record, batch copy and read that is
past due has 1 to `Len(Backoffs)` failures; `handleFailure` sets both fields,
and every other write clears both or neither. Hence `LadderIsKept`.

For `NewestIsPolled`, on top of `IInv`: `NewestStored`, a stored hash is the
newest version of its pull, or that pull is blamed, recorded or reverted, or
some replica is about to store the newer hash; and `NewestHeld`, what the holder
of the lock is about to store is not outdated. The second is needed because the
first excuses any replica between a resend and its write, also one that woke up
without the lock.

**Dates** (`BillingDatesProofs`), without the faults named. The invariant is

    DatesInv == HistoryOK /\ Apart /\ \A u : RecordOK(u) /\ \A r : WorkOK(r)

* `Apart`: two regular pulls of one subscription that were not refused are for
  dates at least `Gap` apart, from which the theorems follow;
* `Follows`, for every record and copy: the date it asks for is not before that
  of any such pull, and `Gap` behind it once the pull is recorded. An
  unrecorded pull may have the same date: its record still names it, so nothing
  is sent before it is settled;
* `PaidUp`: while a regular pull is under way, what has been recorded is over by
  then. So a failure, whose retry date is counted from now, stays `Gap` behind.
  A prorated pull is sent before the next date, where this is not so; its retry
  is later than now, and therefore than every date charged, but no more.

`Gap` is the period if all plans have the same (`OnePeriod`) and prorated pulls
do not fail, and 1 otherwise. So the one invariant yields
`OncePerPeriodWhenAnchored` under these two hypotheses, and without them
`OncePerDateWhenCalm`. Both hypotheses are needed (section 5).

**Checkout.** Every safety property of the module is proved, from

    IInv == KeysInv /\ VerifiedOK /\ RecordOK /\ LostOK /\ OutcomeInv

* `KeysInv`: typing, the keys and the index agree, and what a WATCH has seen
  (`SeenOK`): a pending session and a free transfer, unless the session has
  ended since, so an EXEC that succeeds takes a free transfer for a session
  that was still pending. `DoubleSpendGuard`, `KeysAgree` and `TerminalStates`
  follow;
* `VerifiedOK`: what was verified stays true: the calldata pays, and without
  the operator's word the transfer is final (no reorganisation takes it) and its
  log agrees, from which `LogIsReceipt` concludes that the treasury was paid;
* `RecordOK`: one request at most is recording a session, and it is not yet
  notified (`NotifiedAtMostOnce`);
* `LostOK`: a request that lost the race finds on its next read that session
  or transfer is gone, so it never loses twice (`RaceIsLostOnce`): the five
  attempts cannot run out;
* `OutcomeInv`: the properties themselves, `CompletionsAreRecorded` and
  `SubscriptionsArePaid` among them.

**Renewals.** Every safety property, for any first day, price list, periods and
clock, from

    IInv == TypeOK /\ IndexExact /\ CopiesInv /\ ReadInv /\ LoadedAreDue
            /\ PastInv /\ MoneyInv /\ CalendarKept

* `CopiesInv`: a copy in the batch is the stored record unless a call has
  touched the user, and there is one copy per user; `ReadInv`: a user still to
  be read is due unless touched. `LoadedAreDue` follows;
* `PastInv`: no charge lies in the future, so that a proration divides by a
  cycle that is at least as long as what remains of it. That needs the calendar:
  `DayNumber` is shown to grow from one day to the next and over any number of
  months, by the lengths of years and months;
* `MoneyInv`: `NeverOverpaid`, for the copies in the batch as well, since one
  may be settled after the record was changed;
* `CalendarKept` for the copies is what `CopiesInv` gives.

**TickLock.** `IInv` adds to the types that a heartbeat runs during a tick only
and that, while it is neither stopped nor late, the replica holds the key and
the key outlives the heartbeat's deadline (`KeyOutlivesBeat`); this is where
`Renew + Slack + 1 < LockTTL` is used. From it `PullsStartWithKey` and
`LockImplementsMutex`, the refinement: `Acquire` is `Take`, `StartPull` is
`Begin`, the end of a pull, of its heartbeat or of its process is `Finish`,
release and expiry are `Yield`, the rest stutters. `OneSignerWhenCalm`: without
failed calls and pauses, crashes allowed, the statement of `src/README.md:317` holds
as it stands.

**TxSubmit.** `FeeInv`: what the code holds is what the mempool has, or a higher
tip after a refusal. `StrandedAreReplaced` is arithmetic: a version whose cap is
below the base fee is outbid, in both fees and by more than a tenth, by twice
the base fee and twice the tip.

Only model-checked: the liveness properties (fairness and ENABLED are outside
what TLAPS proves) and the counterexamples. Every safety property and every
action property of a passing run is proved, `AtMostOncePerPeriod` and the other
promises without excuses under the hypotheses named. Induction over data and
RECURSIVE operators are not used.

## 5. Findings

1. `billing_dropped`: `resolveInFlight` waits without a deadline: a dropped
   transaction holds the tick, the lock (renewed for ever) and with them all
   billing.
2. `billing_settled`: a prorated pull settled after a restart is treated as a
   regular charge: the period goes unpaid, the prorated amount is pulled again.
3. `renewals_backoff`: a record with a pending charge is due whatever its retry
   date, so an upgrade the allowance does not cover is tried again in the next
   ticks, and the fourth failure cancels the subscription within minutes.
4. `checkout_orphan`: a checkout whose subscription write fails is completed
   without a subscription, and no call repairs it: the replay of `/complete`
   answers 200, `force_complete` refuses a session that is not pending.

Seen while modelling, without a run of its own. Most show up as soon as the
models are asked; how is said with each.

* A prorated charge that fails sets `NextAttemptAt`. When its retry succeeds,
  that stays the date of the next regular charge, inside the period paid,
  although "the regular billing anchor doesn't shift" (`api.go:276`): add
  `"proration"` to `SafetyFaults`, `AtMostOncePerPeriod` fails. `Renewals` marks
  such a date as moved.
* A pull left in flight is settled with the plan of the moment
  (`scheduler.go:407, 427`): if the period has become shorter since, by
  `upsertPlan` or `createSub`, the next charge falls inside the period paid,
  although "users pay the same total per year" (`scheduler.go:437`): add `Short`
  to `MCOptionsAll`, `AtMostOncePerPeriod` fails.
* A cancel during a tick is overwritten by the tick's copy (`scheduler.go:158`),
  against "Stop scheduling" (`src/README.md:189`).
* Two replicas sign at once after one failed renewal during a long pull
  (`scheduler.go:191`, `src/README.md:317`): add `INVARIANT OneSigner` to
  `MCTickLock_safety.cfg`.
* A bump refused as underpriced leaves the doubled tip in the variable
  (`submit.go:142`); the following diagnosis may then wait although the
  transaction on offer pays too little: drop `refused` from `BumpsIfNeeded`.
* `force_complete` "runs the same on-chain verification as the public /complete
  handler, minus the EIP-191 signature check" (`sessions.go:527`), but counts no
  confirmations, reads no logs and asks for no allowance: drop the exception for
  `recovered` from `OrganicPaymentFinal`.
* `force_complete` refuses a session that the sweeper has expired, so a customer
  who paid and came back late has no way in (`sessions.go:553`).
* The price is read when a session is completed: one changed by `upsertPlan`
  after the customer has paid makes both endpoints refuse the payment.
* A change of plan on a cancelled subscription makes it active and leaves its
  date a hundred years ahead (`api.go:370`; `ChangePlan` with `moved`).
* A second upgrade within a cycle pays its share of what is left since the first
  one was settled (`api.go:386`), where `src/README.md:238` speaks of the cycle;
  an upgrade in the month paid by a checkout is free, since `LastChargedAt` is
  not set. `NeverOverpaid` allows both.
* `store.go:17` and `src/README.md:186` promise January 31, February 28,
  March 31; the code, and its tests (`period_test.go:48-69`), stay on the 28th.
  `OnCalendar` states the latter.
* `session.completed` is built from the copy of the session read before its
  completion: `initial_transfer_tx` is empty in it (`sessions.go:635`).

## 6. Not modelled

* The delivery of webhooks: `Send` makes three attempts within one call and
  keeps nothing; no state depends on the outcome. `Checkout` has the hand-over
  of `session.completed` (in `Record`; a crash in between would leave a
  subscription without an event), the other events are left out.
* Gas and allowance warnings: they only read and notify.
* A plan that does not exist (plans are never deleted), a malformed price, an
  invalid pending amount: the API writes none.
* A session that vanished from Redis (the sweeper's first branch): nothing
  deletes sessions. The in-memory store takes a mutex where Redis has WATCH or
  MULTI and is not modelled apart.
* Signature recovery, the encoding of calldata, the approval and allowance
  checks of a checkout: their failure is `Refuse`.
* The `Subscriptions` contract: its functions are atomic and few. A pull that is
  mined succeeds or reverts, which covers `NotOperator`, an allowance or a
  balance that does not suffice, and a halted operator.
* Reorganisations deeper than `MinConfirmations`; for pulls the scheduler takes
  the first receipt as final, and so does `Billing`.
* Replays of a completed session and the reading handlers: they change
  nothing.
* The indexer (`chain/indexer.go`, no caller), configuration, the checkout page.

## 7. Plan

Done: the pull cycle and its abstract ledger, the checkout with its payments, the
tick lock and its refinement, the fees of a pull, renewals with calendar, index and money; the
proofs of section 4. What is left, in order of weight:

1. `Billing`'s lock as an instance of `Leadership`, and its pull as an
   abstraction of `TxSubmit`.
2. A change of price between payment and completion as an action of `Checkout`.
3. The retries of `Send` under the 30 s the checkout gives it.

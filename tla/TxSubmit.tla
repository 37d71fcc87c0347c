------------------------------ MODULE TxSubmit ------------------------------
(***************************************************************************)
(* The fees of one pull: SubmitAndWait of submit.go, from the first        *)
(* broadcast over the diagnosis after each minute without a receipt and    *)
(* the fee bumps to its return.  Billing has the same call at the level of *)
(* hashes and records; here it runs against a fee market and a mempool     *)
(* that accepts a replacement only if it raises both fees enough.          *)
(***************************************************************************)
EXTENDS Integers

CONSTANTS
  BaseFees, Tips,   \* fees the market can ask for
  MaxBumps,         \* submitMaxBumps
  MaxAttempts,      \* submitTotalBudget / submitPerAttempt
  MaxMoves,         \* bound on the moves of the market
  MaxErrors         \* bound on calls to the node that fail

ASSUME TxSubmitAssumption ==
  /\ BaseFees \subseteq Nat /\ BaseFees # {}
  /\ Tips \subseteq Nat \ {0} /\ Tips # {}
  /\ MaxBumps \in Nat /\ MaxAttempts \in Nat \ {0}
  /\ MaxMoves \in Nat /\ MaxErrors \in Nat

VARIABLES
  market,    \* base fee of the head and suggested tip
  pool,      \* the version of the transaction the mempool has, or NoTx
  mined,     \* a version has mined
  pc,        \* start, wait (for the receipt), diagnose, raise, done
  fee,       \* tip and maxFee of SubmitAndWait
  bumps, attempts,
  result,    \* what SubmitAndWait returned
  refused,   \* history: the last bump was refused as underpriced
  moves, errors

env == <<market, pool, mined, moves>>
call == <<pc, fee, bumps, attempts, result, refused>>
vars == <<env, call, errors>>

Fee == [tip : Nat, cap : Nat]
NoTx == [tip |-> 0, cap |-> 0]

TypeOK ==
  /\ market \in [base : BaseFees, tip : Tips]
  /\ pool \in Fee /\ fee \in Fee
  /\ pc \in {"start", "wait", "diagnose", "raise", "done"}
  /\ mined \in BOOLEAN /\ refused \in BOOLEAN
  /\ bumps \in 0..MaxBumps /\ attempts \in 0..MaxAttempts
  /\ result \in {"none", "receipt", "stuck", "error"}
  /\ moves \in 0..MaxMoves /\ errors \in 0..MaxErrors

Init ==
  /\ market \in [base : BaseFees, tip : Tips]
  /\ pool = NoTx /\ fee = NoTx
  /\ mined = FALSE /\ refused = FALSE
  /\ pc = "start" /\ result = "none"
  /\ bumps = 0 /\ attempts = 0
  /\ moves = 0 /\ errors = 0

----------------------------------------------------------------------------
(* The chain and the node.                                                 *)

\* A version that is out for a while can only mine at these fees.
Enough(f) == f.cap >= market.base /\ f.tip >= market.tip

Move ==
  /\ moves < MaxMoves
  /\ moves' = moves + 1
  /\ market' \in [base : BaseFees, tip : Tips]
  /\ UNCHANGED <<pool, mined, call, errors>>

\* A builder may take any transaction that pays the base fee.
Mine ==
  /\ pool # NoTx
  /\ pool.cap >= market.base
  /\ mined' = TRUE
  /\ pool' = NoTx
  /\ UNCHANGED <<market, moves, call, errors>>

\* go-ethereum's rule for a transaction with a nonce that is in its pool:
\* both fees higher, and by a tenth.
Replaces(new, old) ==
  /\ new.tip > old.tip /\ 10 * new.tip >= 11 * old.tip
  /\ new.cap > old.cap /\ 10 * new.cap >= 11 * old.cap

Accepted(f) == ~mined /\ (pool # NoTx => Replaces(f, pool))

Error == errors < MaxErrors /\ errors' = errors + 1 /\ UNCHANGED env

----------------------------------------------------------------------------
(* SubmitAndWait.                                                          *)

maxFeeForTip(tip) == 2 * market.base + tip

Return(r) == pc' = "done" /\ result' = r

\* suggestedFee and the first send.
Broadcast ==
  /\ pc = "start"
  /\ fee' = [tip |-> market.tip, cap |-> maxFeeForTip(market.tip)]
  /\ pool' = fee'
  /\ pc' = "wait"
  /\ UNCHANGED <<market, mined, moves, bumps, attempts, result, refused, errors>>

\* Nonce, estimate, fees or the first send fail: nothing was broadcast.
BroadcastFails ==
  /\ pc = "start"
  /\ Error
  /\ Return("error")
  /\ UNCHANGED <<fee, bumps, attempts, refused>>

\* The loop is entered again unless the budget is used up.
Again ==
  IF attempts < MaxAttempts THEN pc' = "wait" /\ UNCHANGED result ELSE Return("stuck")

Receipt ==
  /\ pc = "wait" /\ mined
  /\ Return("receipt")
  /\ UNCHANGED <<env, fee, bumps, attempts, refused, errors>>

\* Mutant: no cap on the bumps.
DiagnoseAlways == pc' = "diagnose" /\ UNCHANGED result

\* No receipt: after submitPerAttempt, or at once when polling fails.
GiveUpOrDiagnose ==
  IF bumps >= MaxBumps THEN Return("stuck") ELSE pc' = "diagnose" /\ UNCHANGED result

\* Mutant: a budget that is renewed by each attempt.
TimeoutUncounted ==
  /\ pc = "wait" /\ ~mined
  /\ GiveUpOrDiagnose
  /\ UNCHANGED <<env, fee, bumps, attempts, refused, errors>>

Timeout ==
  /\ pc = "wait" /\ ~mined
  /\ attempts' = attempts + 1
  /\ GiveUpOrDiagnose
  /\ UNCHANGED <<env, fee, bumps, refused, errors>>

PollFails ==
  /\ pc = "wait"
  /\ Error
  /\ GiveUpOrDiagnose
  /\ UNCHANGED <<fee, bumps, attempts, refused>>

\* Mutant: only the base fee is looked at.
NoBumpAboveBase ==
  /\ pc = "diagnose"
  /\ fee.cap >= market.base
  /\ Again
  /\ UNCHANGED <<env, fee, bumps, attempts, refused, errors>>

\* shouldBump looks at the fees in its variables.
NoBump ==
  /\ pc = "diagnose"
  /\ Enough(fee)
  /\ Again
  /\ UNCHANGED <<env, fee, bumps, attempts, refused, errors>>

\* The head or the tip cannot be read, here or in maxFeeForTip.
ReadFails ==
  /\ pc \in {"diagnose", "raise"}
  /\ Error
  /\ Again
  /\ UNCHANGED <<fee, bumps, attempts, refused>>

Bump ==
  /\ pc = "diagnose"
  /\ ~Enough(fee)
  /\ pc' = "raise"
  /\ UNCHANGED <<env, fee, bumps, attempts, result, refused, errors>>

\* Mutant: a new cap for the old tip.
RaisedCapOnly == [tip |-> fee.tip, cap |-> maxFeeForTip(fee.tip)]

\* Twice the tip, and the cap that goes with it at the base fee of now.
Raised == [tip |-> 2 * fee.tip, cap |-> maxFeeForTip(2 * fee.tip)]

\* Mutant: the loop goes on with the fees of the first version.
ResendForgotten ==
  /\ pc = "raise"
  /\ Accepted(Raised)
  /\ pool' = Raised
  /\ bumps' = bumps + 1
  /\ refused' = FALSE
  /\ Again
  /\ UNCHANGED <<market, mined, moves, attempts, fee, errors>>

Resend ==
  /\ pc = "raise"
  /\ Accepted(Raised)
  /\ fee' = Raised
  /\ pool' = Raised
  /\ bumps' = bumps + 1
  /\ refused' = FALSE
  /\ Again
  /\ UNCHANGED <<market, mined, moves, attempts, errors>>

\* "Mempool wanted a bigger jump": the tip doubles once more, in the variable.
ResendUnderpriced ==
  /\ pc = "raise"
  /\ ~mined /\ ~Accepted(Raised)
  /\ fee' = [Raised EXCEPT !.tip = 2 * @]
  /\ bumps' = bumps + 1
  /\ refused' = TRUE
  /\ Again
  /\ UNCHANGED <<env, attempts, errors>>

\* "Nonce too low": the receipt of the last hash is there, or is not.
ResendTooLate ==
  /\ pc = "raise" /\ mined
  /\ fee' = Raised
  /\ bumps' = bumps + 1
  /\ \/ Return("receipt") /\ UNCHANGED <<env, errors>>
     \/ Error /\ Return("error")
  /\ UNCHANGED <<attempts, refused>>

ResendFails ==
  /\ pc = "raise"
  /\ Error
  /\ fee' = Raised
  /\ bumps' = bumps + 1
  /\ Return("error")
  /\ UNCHANGED <<attempts, refused>>

Step ==
  \/ Broadcast \/ BroadcastFails
  \/ Receipt \/ Timeout \/ PollFails
  \/ NoBump \/ ReadFails \/ Bump
  \/ Resend \/ ResendUnderpriced \/ ResendTooLate \/ ResendFails

Next == Move \/ Mine \/ Step

Spec == Init /\ [][Next]_vars

\* Every call to the node returns; nothing is assumed of the market.
FairSpec == Spec /\ WF_vars(Step)

----------------------------------------------------------------------------
(* Properties.                                                             *)

Active == pc \in {"wait", "diagnose", "raise"}

\* What SubmitAndWait thinks it pays is what the mempool has on offer, unless
\* its last bump was refused (submit.go:139-144).
OffersItsFee == Active /\ pool # NoTx /\ ~refused => pool = fee

\* "We only bump when objectively needed" (submit.go:154-156), "otherwise just
\* wait. The fee is fine" (submit.go:23-24): with the exception of a bump that
\* was refused, after which the doubled fee is compared, not the one on offer.
BumpsIfNeeded ==
  [][/\ Bump /\ pool # NoTx => ~Enough(pool) \/ refused
     /\ NoBump /\ pool # NoTx => Enough(pool) \/ refused]_vars

\* A transaction that the base fee has left behind can always be replaced:
\* the mempool refuses a bump only if the pending version still pays the base
\* fee (submit.go:126-139).
StrandedIsReplaced == [][ResendUnderpriced => pool.cap >= market.base]_vars

\* SubmitAndWait comes back, whatever the market does (submit.go:100-151).
Returns == <>(pc = "done")
=============================================================================

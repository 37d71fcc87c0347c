--------------------------- MODULE TxSubmitProofs ---------------------------
(***************************************************************************)
(* Proofs about TxSubmit, for any fees, budgets and number of moves of the *)
(* market.  What the client knows of its fees is tied to the mempool by    *)
(* FeeInv: the same fees, or after a refused bump a higher tip.            *)
(***************************************************************************)
EXTENDS TxSubmit, TLAPS

\* A wait is entered with budget left, a diagnosis with a bump left.
LoopInv ==
  /\ pc \in {"start", "wait"} => attempts < MaxAttempts
  /\ pc \in {"diagnose", "raise"} => bumps < MaxBumps
  /\ pc = "start" => pool = NoTx /\ ~refused

FeeInv ==
  /\ OffersItsFee
  /\ pool # NoTx => pool.tip > 0
  /\ Active => fee.tip > 0
  /\ Active /\ pool # NoTx => fee.tip >= pool.tip

IInv == TypeOK /\ LoopInv /\ FeeInv

LEMMA MarketType ==
  ASSUME TypeOK
  PROVE  /\ market.base \in Nat /\ market.tip \in Nat /\ market.tip > 0
         /\ pool.tip \in Nat /\ pool.cap \in Nat /\ fee.tip \in Nat /\ fee.cap \in Nat
         /\ bumps \in Nat /\ attempts \in Nat /\ errors \in Nat /\ moves \in Nat
<1>1. market.base \in BaseFees /\ market.tip \in Tips
  BY DEF TypeOK
<1>2. market.base \in Nat /\ market.tip \in Nat \ {0}
  BY <1>1, TxSubmitAssumption DEF TxSubmitAssumption
<1>3. pool.tip \in Nat /\ pool.cap \in Nat /\ fee.tip \in Nat /\ fee.cap \in Nat
  BY DEF TypeOK, Fee
<1> QED BY <1>2, <1>3, TxSubmitAssumption DEF TxSubmitAssumption, TypeOK

LEMMA RaisedType ==
  ASSUME TypeOK
  PROVE  /\ Raised \in Fee
         /\ Raised.tip = 2 * fee.tip /\ Raised.cap = 2 * market.base + 2 * fee.tip
         /\ [Raised EXCEPT !.tip = 2 * @] \in Fee
         /\ [Raised EXCEPT !.tip = 2 * @].tip = 4 * fee.tip
BY MarketType DEF Raised, maxFeeForTip, Fee

LEMMA InvInit == Init => IInv
<1> SUFFICES ASSUME Init PROVE IInv
  OBVIOUS
<1>1. TypeOK
  <2>1. NoTx \in Fee
    BY DEF NoTx, Fee
  <2>2. 0 \in 0..MaxBumps /\ 0 \in 0..MaxAttempts /\ 0 \in 0..MaxMoves /\ 0 \in 0..MaxErrors
    BY TxSubmitAssumption DEF TxSubmitAssumption
  <2>3. pool \in Fee /\ fee \in Fee
    BY <2>1 DEF Init
  <2> QED BY <2>2, <2>3 DEF Init, TypeOK
<1>2. LoopInv
  BY TxSubmitAssumption DEF TxSubmitAssumption, Init, LoopInv
<1>3. FeeInv
  BY DEF Init, FeeInv, OffersItsFee, Active
<1> QED BY <1>1, <1>2, <1>3 DEF IInv

LEMMA EnvStep ==
  ASSUME IInv, Move \/ Mine
  PROVE  IInv'
<1> USE DEF IInv, TypeOK, LoopInv, FeeInv, OffersItsFee, Active, call
<1>1. CASE Move
  BY <1>1, MarketType, TxSubmitAssumption DEF Move, TxSubmitAssumption
<1>2. CASE Mine
  BY <1>2 DEF Mine, NoTx, Fee
<1> QED BY <1>1, <1>2

LEMMA AgainStep ==
  ASSUME TypeOK, Again
  PROVE  /\ pc' \in {"wait", "done"} /\ result' \in {"none", "receipt", "stuck", "error"}
         /\ pc' = "wait" => attempts < MaxAttempts
BY DEF TypeOK, Again, Return

LEMMA GiveUpStep ==
  ASSUME TypeOK, GiveUpOrDiagnose
  PROVE  /\ pc' \in {"diagnose", "done"} /\ result' \in {"none", "receipt", "stuck", "error"}
         /\ pc' = "diagnose" => bumps < MaxBumps
BY MarketType, TxSubmitAssumption
   DEF TxSubmitAssumption, TypeOK, GiveUpOrDiagnose, Return

LEMMA BroadcastStep ==
  ASSUME IInv, Broadcast
  PROVE  IInv'
<1>1. TypeOK /\ LoopInv /\ pc = "start"
  BY DEF IInv, Broadcast
<1> DEFINE f == [tip |-> market.tip, cap |-> maxFeeForTip(market.tip)]
<1>2. f \in Fee /\ f.tip > 0
  BY <1>1, MarketType DEF Fee, maxFeeForTip
<1>3. fee' = f /\ pool' = f /\ pc' = "wait"
  BY DEF Broadcast
<1> HIDE DEF f
<1>4. TypeOK' /\ LoopInv'
  BY <1>1, <1>2, <1>3 DEF Broadcast, TypeOK, LoopInv
<1>5. FeeInv'
  BY <1>2, <1>3, MarketType DEF FeeInv, OffersItsFee, Fee
<1> QED BY <1>4, <1>5 DEF IInv

\* The exits of a wait and of a diagnosis that leave the fees alone.
LEMMA WaitStep ==
  ASSUME IInv,
         \/ BroadcastFails \/ Receipt \/ Timeout \/ PollFails
         \/ NoBump \/ ReadFails \/ Bump
  PROVE  IInv'
<1> USE DEF IInv, LoopInv, FeeInv, OffersItsFee, Active, env, Error
<1>1. TypeOK
  OBVIOUS
<1>2. CASE BroadcastFails
  BY <1>1, <1>2, MarketType, TxSubmitAssumption
     DEF BroadcastFails, Return, TypeOK, TxSubmitAssumption
<1>3. CASE Receipt
  BY <1>1, <1>3 DEF Receipt, Return, TypeOK
<1>4. CASE Timeout
  BY <1>1, <1>4, MarketType, TxSubmitAssumption, GiveUpStep
     DEF Timeout, TypeOK, TxSubmitAssumption
<1>5. CASE PollFails
  BY <1>1, <1>5, MarketType, TxSubmitAssumption, GiveUpStep
     DEF PollFails, TypeOK, TxSubmitAssumption
<1>6. CASE NoBump
  BY <1>1, <1>6, AgainStep DEF NoBump, TypeOK
<1>7. CASE ReadFails
  BY <1>1, <1>7, MarketType, TxSubmitAssumption, AgainStep
     DEF ReadFails, TypeOK, TxSubmitAssumption
<1>8. CASE Bump
  BY <1>1, <1>8 DEF Bump, TypeOK
<1> QED BY <1>2, <1>3, <1>4, <1>5, <1>6, <1>7, <1>8

LEMMA ResendStep ==
  ASSUME IInv, Resend \/ ResendUnderpriced \/ ResendTooLate \/ ResendFails
  PROVE  IInv'
<1>1. TypeOK /\ LoopInv /\ FeeInv /\ pc = "raise" /\ bumps < MaxBumps
  BY DEF IInv, LoopInv, Resend, ResendUnderpriced, ResendTooLate, ResendFails
<1>2. fee.tip > 0 /\ (pool # NoTx => fee.tip >= pool.tip)
  BY <1>1 DEF FeeInv, Active
<1>3. bumps + 1 \in 0..MaxBumps
  BY <1>1, MarketType, TxSubmitAssumption DEF TxSubmitAssumption
<1>4. CASE Resend
  <2>1. pool' = Raised /\ fee' = Raised
    BY <1>4 DEF Resend
  <2>2. TypeOK' /\ LoopInv'
    BY <1>1, <1>3, <1>4, <2>1, RaisedType, AgainStep DEF Resend, TypeOK, LoopInv
  <2>3. FeeInv'
    BY <1>1, <1>2, <2>1, RaisedType, MarketType DEF FeeInv, OffersItsFee
  <2> QED BY <2>2, <2>3 DEF IInv
<1>5. CASE ResendUnderpriced
  <2>1. TypeOK' /\ LoopInv'
    BY <1>1, <1>3, <1>5, RaisedType, AgainStep
       DEF ResendUnderpriced, TypeOK, LoopInv, env
  <2>2. fee'.tip = 4 * fee.tip /\ pool' = pool /\ refused'
    BY <1>1, <1>5, RaisedType DEF ResendUnderpriced, env
  <2>3. FeeInv'
    BY <1>1, <1>2, <2>2, MarketType DEF FeeInv, OffersItsFee
  <2> QED BY <2>1, <2>3 DEF IInv
<1>6. CASE ResendTooLate \/ ResendFails
  <2>1. pc' = "done" /\ fee' = Raised /\ pool' = pool
    BY <1>6 DEF ResendTooLate, ResendFails, Return, Error, env
  <2>2. TypeOK'
    BY <1>1, <1>3, <1>6, RaisedType, MarketType, TxSubmitAssumption
       DEF ResendTooLate, ResendFails, Return, Error, env, TypeOK, TxSubmitAssumption
  <2>3. LoopInv' /\ FeeInv'
    BY <1>1, <2>1 DEF LoopInv, FeeInv, OffersItsFee, Active
  <2> QED BY <2>2, <2>3 DEF IInv
<1> QED BY <1>4, <1>5, <1>6

LEMMA Invariant == Spec => []IInv
<1>1. IInv /\ [Next]_vars => IInv'
  <2> SUFFICES ASSUME IInv, [Next]_vars PROVE IInv'
    OBVIOUS
  <2>1. CASE Next
    BY <2>1, EnvStep, BroadcastStep, WaitStep, ResendStep DEF Next, Step
  <2>2. CASE UNCHANGED vars
    BY <2>2 DEF vars, env, call, IInv, TypeOK, LoopInv, FeeInv, OffersItsFee, Active
  <2> QED BY <2>1, <2>2
<1> QED BY <1>1, InvInit, PTL DEF Spec

-----------------------------------------------------------------------------
(* Bumps and attempts stay within their caps, and fees are natural numbers,*)
(* in any market.                                                          *)
THEOREM TypeCorrect == Spec => []TypeOK
<1>1. IInv => TypeOK
  BY DEF IInv
<1> QED BY <1>1, Invariant, PTL

(* The fees SubmitAndWait decides by are those of the transaction in the   *)
(* mempool, unless the last bump was refused.                              *)
THEOREM FeesAreOffered == Spec => []OffersItsFee
<1>1. IInv => OffersItsFee
  BY DEF IInv, FeeInv
<1> QED BY <1>1, Invariant, PTL

(* So it bumps when the pending transaction needs it and waits when it     *)
(* does not, with the same exception.                                      *)
THEOREM DecidesByThePool == Spec => BumpsIfNeeded
<1>1. IInv /\ [Next]_vars =>
        [/\ Bump /\ pool # NoTx => ~Enough(pool) \/ refused
         /\ NoBump /\ pool # NoTx => Enough(pool) \/ refused]_vars
  BY DEF IInv, FeeInv, OffersItsFee, Active, Bump, NoBump
<1> QED BY <1>1, Invariant, PTL DEF Spec, BumpsIfNeeded

(* The arithmetic of a bump: doubling the tip and adding it to twice the   *)
(* base fee of now outbids any cap below that base fee, by more than the   *)
(* tenth the mempool asks for.                                             *)
LEMMA OutbidsStranded ==
  ASSUME NEW b \in Nat, NEW t \in Nat, NEW old \in Fee,
         old.cap < b, 0 < old.tip, old.tip <= t
  PROVE  Replaces([tip |-> 2 * t, cap |-> 2 * b + 2 * t], old)
BY DEF Replaces, Fee

(* A pull that the base fee has left behind is never refused its bump: a   *)
(* refusal leaves a transaction in the mempool that pays the base fee.     *)
THEOREM StrandedAreReplaced == Spec => StrandedIsReplaced
<1>1. IInv /\ [Next]_vars => [ResendUnderpriced => pool.cap >= market.base]_vars
  <2> SUFFICES ASSUME IInv, ResendUnderpriced, pool.cap < market.base
               PROVE  FALSE
    BY MarketType DEF IInv
  <2>1. TypeOK /\ pc = "raise" /\ pool # NoTx /\ ~Replaces(Raised, pool)
    BY DEF IInv, ResendUnderpriced, Accepted
  <2>2. pool \in Fee /\ 0 < pool.tip /\ pool.tip <= fee.tip
    BY <2>1 DEF IInv, FeeInv, Active, TypeOK
  <2>3. Raised = [tip |-> 2 * fee.tip, cap |-> 2 * market.base + 2 * fee.tip]
    BY DEF Raised, maxFeeForTip
  <2> QED BY <2>1, <2>2, <2>3, MarketType, OutbidsStranded
<1> QED BY <1>1, Invariant, PTL DEF Spec, StrandedIsReplaced
=============================================================================

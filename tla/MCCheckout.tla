----------------------------- MODULE MCCheckout -----------------------------
(***************************************************************************)
(* Small instances of Checkout for TLC.                                    *)
(***************************************************************************)
EXTENDS Checkout, TLC

CONSTANTS s1, s2, h1, h2, k1, k2, w1, w2, t1, t2

\* Two transfers of one wallet with the right calldata for either session.  The
\* logs of the first begin with another token's; the log of the second goes to
\* somebody else, so that only the operator's word makes it a payment.
MCAddresses == {w1, w2, "token", "treasury", "bogus"}
MCFrom  == [t \in Txs |-> w1]
MCPrice == [s \in Sessions |-> 2]

LogFrom(emitter, to) == [emitter |-> emitter, from |-> w1, to |-> to, value |-> 2]
Call(logs) == [to |-> "token", method |-> "transfer", recipient |-> "treasury",
               value |-> 2, logs |-> logs]
Plain      == Call(<<LogFrom("bogus", w2), LogFrom("token", "treasury")>>)
Redirected == Call(<<LogFrom("token", w2)>>)
MCTx == [t \in Txs |-> IF t = t1 THEN Plain ELSE Redirected]

MCAllFaults == FaultKinds
MCHangUp    == {"record"}
MCSweepOnly == {"sweep"}
MCSymmetry  == Permutations({s1, s2}) \cup Permutations({h1, h2})
=============================================================================

------------------------------ MODULE MCBilling ------------------------------
(***************************************************************************)
(* Small instances of Billing for TLC.                                     *)
(***************************************************************************)
EXTENDS Billing, TLC

CONSTANTS u1, u2, r1, r2, p1, p2

Option(price, active) == [price |-> price, period |-> 2, active |-> active]

Short == [Option(2, TRUE) EXCEPT !.period = 1]

MCPlans1 == (p1 :> Option(2, TRUE))
MCPlans2 == (p1 :> Option(2, TRUE)) @@ (p2 :> Option(4, TRUE))

MCOptionsFixed  == {Option(2, TRUE)}
MCOptionsToggle == {Option(2, TRUE), Option(2, FALSE)}
MCOptionsTwo    == {Option(2, TRUE), Option(4, TRUE)}
MCOptionsAll    == MCOptionsToggle \cup MCOptionsTwo
MCOptionsMixed  == MCOptionsToggle \cup {Short}

MCBackoffs == <<1>>

NoFaults     == {}
DropOnly     == {"drop"}
SafetyFaults == {"midtick", "drop", "rpc", "renew"}
LossFaults   == {"orphan", "lease", "split", "store", "resend", "late", "replaced",
                 "checkout"}
MCSymmetry   == Permutations({r1, r2})
=============================================================================

----------------------------- MODULE MCRenewals -----------------------------
(***************************************************************************)
(* Small instances of Renewals for TLC: the spring of the leap year 2028,  *)
(* from January 31, with two monthly plans.                                *)
(***************************************************************************)
EXTENDS Renewals, TLC

CONSTANTS u1, u2, basic, pro

Monthly == [unit |-> "month", count |-> 1]

MCPrice  == (basic :> 3) @@ (pro :> 10)
MCPeriod == (basic :> Monthly) @@ (pro :> Monthly)
MCStart  == [month |-> 0, day |-> 31]
MCClock  == {[month |-> 1, day |-> 14], [month |-> 1, day |-> 29],
             [month |-> 2, day |-> 29]}
MCBackoffs == <<1, 3>>
=============================================================================

------------------------------ MODULE PullLedger ------------------------------
(***************************************************************************)
(* What the pull cycle promises about a customer's money, whatever the     *)
(* replicas, crashes and retries behind it: while one pull may still take  *)
(* the money, or has taken it and nobody has booked it, no second one is   *)
(* sent for the same customer ("MUST poll this receipt before submitting   *)
(* another pull", store.go:104); what is booked was taken, and only once.  *)
(***************************************************************************)
CONSTANTS Users, Pulls

VARIABLE pulls   \* [Pulls -> [user : Users, state : States]]

States == {"unsent", "open", "lost", "taken", "refused", "booked"}

Init == pulls \in [Pulls -> [user : Users, state : {"unsent"}]]

\* The pulls of u that its record has to answer for.
Outstanding(u) ==
  {p \in Pulls : pulls[p].user = u /\ pulls[p].state \in {"open", "taken"}}

Becomes(p, from, to) ==
  /\ pulls[p].state = from
  /\ pulls' = [pulls EXCEPT ![p].state = to]

Send(p, u) ==
  /\ pulls[p].state = "unsent" /\ Outstanding(u) = {}
  /\ pulls' = [pulls EXCEPT ![p] = [user |-> u, state |-> "open"]]

Take(p) == Becomes(p, "open", "taken")

Refuse(p) == Becomes(p, "open", "refused")

\* The mempool forgets a transaction; only a replacement can bring it back.
Lose(p) == Becomes(p, "open", "lost")

Replace(p) == Outstanding(pulls[p].user) = {} /\ Becomes(p, "lost", "open")

Book(p) == Becomes(p, "taken", "booked")

Next ==
  \E p \in Pulls :
     \/ Take(p) \/ Refuse(p) \/ Lose(p) \/ Replace(p) \/ Book(p)
     \/ \E u \in Users : Send(p, u)

Spec == Init /\ [][Next]_pulls
=============================================================================

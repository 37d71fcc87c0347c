----------------------------- MODULE Leadership -----------------------------
(***************************************************************************)
(* What the tick lock is for: "only one scheduler instance does chain work *)
(* at a time" (scheduler.go:129-132).  `leader' is the replica that owns   *)
(* the lock, `signing' the replicas with a pull under way.  Only the       *)
(* leader begins a pull, and its leadership does not end during one.       *)
(***************************************************************************)
CONSTANTS Replicas, NoReplica

VARIABLES leader, signing

vars == <<leader, signing>>

Init == leader = NoReplica /\ signing = {}

Take(r) ==
  /\ leader = NoReplica
  /\ leader' = r
  /\ UNCHANGED signing

Begin(r) ==
  /\ leader = r
  /\ signing' = signing \cup {r}
  /\ UNCHANGED leader

\* The pull ends, or its process does.
Finish(r) ==
  /\ signing' = signing \ {r}
  /\ UNCHANGED leader

\* The lock is released or runs out.
Yield ==
  /\ leader \notin signing
  /\ leader' = NoReplica
  /\ UNCHANGED signing

Next == Yield \/ \E r \in Replicas : Take(r) \/ Begin(r) \/ Finish(r)

Spec == Init /\ [][Next]_vars
=============================================================================

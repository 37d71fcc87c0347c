----------------------------- MODULE MCTickLock -----------------------------
(***************************************************************************)
(* Small instances of TickLock for TLC.  One unit of time is 5 s.          *)
(***************************************************************************)
EXTENDS TickLock, TLC

CONSTANTS r1, r2, none
=============================================================================

----------------------------- MODULE MCTxSubmit -----------------------------
(***************************************************************************)
(* Small instances of TxSubmit for TLC: base fees that a bump does and     *)
(* does not outweigh, and tips that a bump doubles up to the highest.      *)
(***************************************************************************)
EXTENDS TxSubmit, TLC
=============================================================================

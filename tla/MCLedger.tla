----------------------------- MODULE MCLedger -----------------------------
(***************************************************************************)
(* Small instances of Ledger.  The widths of the integer types are scaled  *)
(* down so that values wrap and delegate counts are truncated within a few *)
(* blocks; the waiting period is scaled down so that it expires.           *)
(***************************************************************************)
EXTENDS Ledger, TLC

CONSTANTS a, b   \* public keys

(* One block may hold two transactions.                                    *)
MCMaxTxns(h) == IF h = 2 THEN 2 ELSE 1

Symmetry == Permutations(PublicKey)
=============================================================================

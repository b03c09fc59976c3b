----------------------------- MODULE MCPayments -----------------------------
(***************************************************************************)
(* Small instances of Payments: at most two users and one invoice of each  *)
(* gateway, with two handlers between awaits at a time.                    *)
(***************************************************************************)
EXTENDS Payments, TLC

CONSTANTS first, second

\* The slots only keep handlers apart.
SlotSymmetry == Permutations(Slots)
=============================================================================

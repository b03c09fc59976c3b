------------------------------ MODULE MCOrders ------------------------------
(***************************************************************************)
(* Small instances of Orders: two users of whom one referred the other,    *)
(* one stock good and one API good.                                        *)
(***************************************************************************)
EXTENDS Orders

CONSTANTS alice, bob, key, stars

MCReferrer == [u \in Users |-> IF u = bob THEN alice ELSE NoUser]
MCFunds == [u \in Users |-> IF u = bob THEN 20 ELSE 5]
=============================================================================

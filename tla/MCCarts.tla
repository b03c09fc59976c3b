------------------------------ MODULE MCCarts ------------------------------
(***************************************************************************)
(* Small instances of Carts: one or two users, two goods and one or two    *)
(* promo codes.                                                            *)
(***************************************************************************)
EXTENDS Carts, TLC

CONSTANTS half, gift, key, mug

\* A code for half the price of a line, used once by whoever is first.
HalfOff == [kind |-> "percent", value |-> 50, maxUses |-> 1, perUser |-> 1,
            minOrder |-> 0, item |-> NoGoods]
\* A fixed sum off, as often as one likes, on one good only.
FixedOff == [HalfOff EXCEPT !.kind = "fixed", !.value = 3, !.maxUses = 0,
                            !.item = key]
\* A credit to the balance, for one user too.
Credit == [HalfOff EXCEPT !.kind = "balance", !.value = 2]
\* Half the price of a line of at least 10.
FromTen == [HalfOff EXCEPT !.minOrder = 10, !.maxUses = 0]

TermsHalf == [p \in Promos |-> HalfOff]
TermsGift == [p \in Promos |-> IF p = half THEN HalfOff ELSE Credit]
TermsFixed == [p \in Promos |-> IF p = half THEN HalfOff ELSE FixedOff]
TermsFromTen == [p \in Promos |-> FromTen]

Empty == {[g \in Goods |-> NoLine]}
\* One unit of every good, with the first code.
Full == {[g \in Goods |-> [qty |-> 1, promo |-> half]]}
\* Any lines with codes an item page may have put there.
Various == {c \in CartType : \A g \in Goods :
              /\ c[g].promo \in PageCodes(g)
              /\ c[g].qty = 0 => c[g] = NoLine}

\* Users start alike and slots only keep calls apart.
Symmetric == Permutations(Slots) \cup Permutations(Users)
=============================================================================

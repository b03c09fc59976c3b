------------------------------ MODULE MCDialogs ------------------------------
(***************************************************************************)
(* Small instances of the conversations with customers and staff. They     *)
(* share no state, so a behaviour is about one of them: focus.             *)
(***************************************************************************)
EXTENDS Staff, SupportDesk, Storefront, Lists, Catalogue

CONSTANTS u1, u2, o1, o2, i1, i2, i3

\* An order of each customer.
OwnerOf == [o \in {o1, o2} |-> IF o = o1 THEN u1 ELSE u2]

\* A category of more than one page and a search that shares positions with it.
ShelfOfThree == <<i1, i2, i3>>
FoundTwo == <<i2, i3>>

VARIABLE focus

vars == <<focus, staffVars, deskVars, storeVars, listVars, catalogueVars>>

Init ==
    /\ focus \in {"staff", "desk", "store", "lists", "catalogue"}
    /\ StaffInit /\ DeskInit /\ StorefrontInit /\ ListsInit /\ CatalogueInit
    /\ focus # "lists" => kind = "orders" /\ Total = 0
    /\ focus # "catalogue" => \E i \in Ids : stock[i] = {"unit"}

Next ==
    /\ UNCHANGED focus
    /\ IF focus = "staff" THEN StaffNext ELSE UNCHANGED staffVars
    /\ IF focus = "desk" THEN DeskNext ELSE UNCHANGED deskVars
    /\ IF focus = "store" THEN StorefrontNext ELSE UNCHANGED storeVars
    /\ IF focus = "lists" THEN ListsNext ELSE UNCHANGED listVars
    /\ IF focus = "catalogue" THEN CatalogueNext ELSE UNCHANGED catalogueVars

DialogsSpec == Init /\ [][Next]_vars

\* Roles, tickets, the customer's session, the lists and the catalogue are well
\* formed; among the rest, a position gets both endless and single values only
\* where two editors crossed.
DialogsTypeOK == StaffTypeOK /\ DeskTypeOK /\ StorefrontTypeOK /\ ListsTypeOK
                 /\ CatalogueTypeOK
=============================================================================

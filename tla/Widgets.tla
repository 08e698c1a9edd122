-------------------------------- MODULE Widgets --------------------------------
(***************************************************************************)
(* Parts of the user interface without state of their own that several     *)
(* pages use.                                                              *)
(***************************************************************************)
EXTENDS Naturals

\* Selector.js: x is one of the items on offer, and a choice is reported only
\* when it is another than the one selected.
Picks(items, selected, x) == x \in items /\ x # selected

\* DirectoriesTableMembers.js: up to ten members are shown one by one, more of
\* them as their number, and by name while the mouse is over it.
Collapsed(members) == members > 10
=============================================================================

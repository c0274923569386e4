----------------------------- MODULE AtomicView -----------------------------
(***************************************************************************)
(* What the market graph promises to search(): a view of all markets that  *)
(* no update moves while the search runs, and in which every market is as  *)
(* it is at the head of the chain or as it was one block before.  The view *)
(* may mix the two, and a search that begins on such a mixture, or that a  *)
(* block overtakes, ends before the chain moves on.                        *)
(***************************************************************************)
EXTENDS Integers

CONSTANT Markets

VARIABLES
    state,      \* the states of the markets on the chain
    previous,   \* their states one block before
    view,       \* the states that a search would use
    searching

vars == <<state, previous, view, searching>>

View == [Markets -> Int]

Init ==
    /\ state \in View
    /\ previous = state
    /\ view \in View
    /\ searching = FALSE

\* A block changes the chain; a search is overtaken by one block at most.
Change ==
    /\ searching => view = state
    /\ previous' = state
    /\ state' \in View
    /\ UNCHANGED <<view, searching>>

\* The view is brought up to date, one market or several at a time.
Refresh ==
    /\ ~searching
    /\ view' \in View
    /\ UNCHANGED <<state, previous, searching>>

Begin ==
    /\ ~searching
    /\ \A m \in Markets : view[m] \in {previous[m], state[m]}
    /\ searching' = TRUE
    /\ UNCHANGED <<state, previous, view>>

End ==
    /\ searching
    /\ searching' = FALSE
    /\ UNCHANGED <<state, previous, view>>

Next == Change \/ Refresh \/ Begin \/ End

Spec == Init /\ [][Next]_vars
=============================================================================

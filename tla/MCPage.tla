--------------------------------- MODULE MCPage ---------------------------------
(***************************************************************************)
(* Small instances of Page: what the program allocates on a small page.    *)
(***************************************************************************)
EXTENDS Page

Of(size, alignment, count, movable) ==
    [size |-> size, alignment |-> alignment, count |-> count, movable |-> movable,
     throws |-> count = 2]

\* A byte, an aligned array that can be moved over itself, and an object that fill the
\* page; and an aligned object that needs the page collected, and then fits where the
\* first two were, or at the end after a defragmentation, but without its padding
\* would fit in between, too.
Mixed == <<Of(1, 1, 1, TRUE), Of(2, 2, 2, TRUE), Of(3, 1, 1, TRUE), Of(4, 4, 1, FALSE)>>

\* The requests of the test allocation_strategy_does_not_waste_space.
WastingNoSpace == <<Of(1, 1, 1, TRUE), Of(4, 4, 1, TRUE), Of(3, 1, 1, TRUE)>>
\* An array without elements.
Empty == <<Of(1, 1, 0, TRUE)>>

===============================================================================

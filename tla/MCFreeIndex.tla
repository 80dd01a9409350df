----------------------------- MODULE MCFreeIndex -----------------------------
EXTENDS FreeIndex

\* Eight segments; sizes 2 and 4 repeat so that the address breaks ties.
MCNodes == {3, 5, 8, 12, 14, 20, 23, 27}
MCSize  == (3 :> 2) @@ (5 :> 4) @@ (8 :> 2) @@ (12 :> 6) @@ (14 :> 4) @@ (20 :> 3) @@ (23 :> 5) @@ (27 :> 2)
MCQueries == 1..7
=============================================================================

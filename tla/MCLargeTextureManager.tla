----------------------- MODULE MCLargeTextureManager -----------------------
(***************************************************************************)
(* A small instance of LargeTextureManager: two controls share an image, a *)
(* third shows another.                                                    *)
(***************************************************************************)
EXTENDS LargeTextureManager

CONSTANTS c1, c2, c3, p1, p2

MCControls == {c1, c2, c3}
MCPath == [c \in MCControls |-> IF c = c3 THEN p2 ELSE p1]
MCNormal == {2}

=============================================================================

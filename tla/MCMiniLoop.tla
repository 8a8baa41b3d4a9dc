----------------------------- MODULE MCMiniLoop -----------------------------
(* An instance of MiniLoop whose grids and positions are small numbers. *)
EXTENDS MiniLoop

MCPlaces == {<<1, 5>>}
MCLonGrid == [lat \in 0 .. 1 |-> IF lat = 1 THEN 3 ELSE 2]
=============================================================================

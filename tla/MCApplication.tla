--------------------------- MODULE MCApplication ---------------------------
(* Constants of the runs of Application.                                   *)
EXTENDS Application, TLC

\* 1 - 2 - 3, and 4 force-pushed on top of 1; 2 changes nothing under the path.
SmallHistory == 1 :> {1} @@ 2 :> {1, 2} @@ 3 :> {1, 2, 3} @@ 4 :> {1, 4}
\* 5 is on an orphan branch without the path.
OrphanHistory == SmallHistory @@ 5 :> {5}
=============================================================================

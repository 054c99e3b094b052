--------------------------- MODULE MCRawDelivery ---------------------------
(* Constants of the runs of RawDelivery.                                   *)
EXTENDS RawDelivery, TLC

CONSTANTS r1, r2

\* 1 - 2, and 3 force-pushed on top of 1; every commit changes the path.
SmallHistory == 1 :> {1} @@ 2 :> {1, 2} @@ 3 :> {1, 3}
\* A resource is added and another one removed.
SmallManifest == 1 :> {r1} @@ 2 :> {r2} @@ 3 :> {r1, r2}
LineHistory == 1 :> {1} @@ 2 :> {1, 2}
LineManifest == 1 :> {r1, r2} @@ 2 :> {r2}
=============================================================================

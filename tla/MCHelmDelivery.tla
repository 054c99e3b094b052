--------------------------- MODULE MCHelmDelivery ---------------------------
(* Constants of the runs of HelmDelivery.                                  *)
EXTENDS HelmDelivery, TLC

\* 1 - 2, and a branch without a chart that is force-pushed.
SmallHistory == 1 :> {1} @@ 2 :> {1, 2} @@ 3 :> {3}

\* The value files of 2 repeat the defaults of the chart in 1.
SmallDefaults == 1 :> "a" @@ 2 :> "b" @@ 3 :> "c"
SmallValues == 1 :> "d" @@ 2 :> "a" @@ 3 :> "d"

AllOptions == [checkValuesEqual : BOOLEAN, reInstallRelease : BOOLEAN, atomic : BOOLEAN]
SmallFaultSets ==
  {{"load"}, {"load", "install", "upgrade"}, {"crash at work"},
   {"load", "install", "upgrade", "rollback", "uninstall", "crash at work"}}
=============================================================================

----------------------------- MODULE MCOperator -----------------------------
(* Constants of the run of Operator.                                       *)
EXTENDS Operator, TLC

CONSTANTS r1, a1, a2

OneRepository == a1 :> r1 @@ a2 :> r1
SmallScenarios ==
  {{"delete repository"},
   {"delete repository", "delete application", "add", "update"},
   {"delete repository", "add", "restart", "lost call", "uninstall"},
   {"delete application", "restart"}}
=============================================================================

----------------------------- MODULE MCConditionPage -----------------------------
(* Five conditions, every third of them a warning, on pages of two.           *)
EXTENDS ConditionPage

MCLevelOf == [t \in 1..MaxTime |-> IF t % 3 = 1 THEN "warning" ELSE "info"]
MCSearches ==
  {[levels |-> {"warning"}, start |-> 0, end |-> MaxTime + 1],
   [levels |-> {"info"}, start |-> 0, end |-> MaxTime + 1],
   [levels |-> {"info", "warning"}, start |-> 2, end |-> MaxTime - 1]}
==============================================================================

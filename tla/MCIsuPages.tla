------------------------------ MODULE MCIsuPages ------------------------------
(* Three days of three hours, every third condition a warning, pages of two.   *)
EXTENDS IsuPages

MCLevelOf == [t \in 1..MaxTime |-> IF t % 3 = 1 THEN "warning" ELSE "info"]
MCSearches ==
  {[levels |-> {"warning"}, start |-> 0, end |-> MaxTime + 1],
   [levels |-> {"info", "warning"}, start |-> 2, end |-> MaxTime - 1]}
==============================================================================

----------------------------- MODULE MCIsuViews -----------------------------
(* IsuViews on small instances: strings a sensor posts, and strings that are *)
(* almost of the right format.                                               *)
EXTENDS IsuViews, TLC

Text(dirty, overweight, broken) ==
    <<"is_dirty=", dirty, ",", "is_overweight=", overweight, ",", "is_broken=", broken>>
Good == Text("false", "false", "false")
Valid == {Good, Text("true", "false", "true"), Text("true", "true", "true")}
Malformed ==
    {<<>>, Tail(Good), Front(Good), Good \o <<",">>, Text("true", "true", "truth"),
     Text("true", "true", "true") \o <<",", "other=", "true">>,
     <<"is_broken=", "true", ",", "is_dirty=", "true", ",", "is_overweight=", "true">>,
     <<"is_dirty=", "true", "is_overweight=", "true", "is_broken=", "true">>}

MCReading ==
    {[sitting |-> c = Good, condition |-> c] : c \in Valid}
    \cup {[sitting |-> TRUE, condition |-> c] : c \in Malformed}

CharacterSymmetry == Permutations(Character)

=============================================================================

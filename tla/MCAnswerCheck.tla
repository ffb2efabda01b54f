---------------------------- MODULE MCAnswerCheck ----------------------------
(***************************************************************************)
(* AnswerCheck on a few conditions.  The draws put all conditions in one   *)
(* level, so that the search doubles its step, or spread them over the     *)
(* levels, as close to each other as the blur allows.                      *)
(***************************************************************************)
EXTENDS AnswerCheck

D(level, blur) == [level |-> level, blur |-> blur]
C(level, timestamp) == [level |-> level, timestamp |-> timestamp]

Pad(f) == [s \in Slot |-> IF s \in DOMAIN f THEN f[s] ELSE D("info", 0)]

MCDraws ==
    {Pad(<<D("warning", 1), D("warning", -1), D("warning", 1), D("warning", 0)>>),
     Pad(<<D("warning", 1), D("info", -1), D("critical", 1), D("warning", -1)>>)}

\* What the scenario that looks for bad conditions asks for (load.go); the
\* trend and the list are about all levels.
MCFilters == {{"warning", "critical"}}

\* One that ends in the midst of the conditions and one that is bounded by
\* conditions on both sides.
MCRanges == {<<0, 11>>, <<5, 10>>}

\* Posted with the first draws, if not yet, and of another level with the second.
MCClaims == {C("warning", 10)}

============================================================================

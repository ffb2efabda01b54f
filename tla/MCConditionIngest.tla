------------------------ MODULE MCConditionIngest --------------------------
(* ConditionIngest on small instances. *)
EXTENDS ConditionIngest, TLC

\* No two isu have one character, and a character goes by the name of its isu,
\* so that exchanging isu exchanges their characters too.
MCCharacterOf == [i \in Isu |-> i]

\* The handlers do not tell slots, isu, users or viewers apart.
IngestSymmetry ==
    Permutations(Req) \cup Permutations(Isu) \cup Permutations(Viewer)
        \cup Permutations(Reader)

============================================================================

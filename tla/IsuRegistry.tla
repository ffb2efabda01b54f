---------------------------- MODULE IsuRegistry ----------------------------
(***************************************************************************)
(* What POST /api/isu promises its callers: every isu has at most one      *)
(* owner, set once and in one step; "created" is only ever told to the     *)
(* owner, "conflict" only when there is one.                               *)
(***************************************************************************)
CONSTANTS User, Isu, NoUser

VARIABLES
    owner,      \* [Isu -> User \cup {NoUser}]
    answers     \* <<user, isu, status>> told so far

regVars == <<owner, answers>>

Init ==
    /\ owner = [i \in Isu |-> NoUser]
    /\ answers = {}

Register(u, i) ==
    /\ owner[i] = NoUser
    /\ owner' = [owner EXCEPT ![i] = u]
    /\ UNCHANGED answers

TellCreated(u, i) ==
    /\ owner[i] = u
    /\ answers' = answers \cup {<<u, i, 201>>}
    /\ UNCHANGED owner

TellConflict(u, i) ==
    /\ owner[i] # NoUser
    /\ answers' = answers \cup {<<u, i, 409>>}
    /\ UNCHANGED owner

Next ==
    \E u \in User, i \in Isu :
        \/ Register(u, i)
        \/ TellCreated(u, i)
        \/ TellConflict(u, i)

Spec == Init /\ [][Next]_regVars

============================================================================

------------------------- MODULE MCIsuRegistration -------------------------
(***************************************************************************)
(* IsuRegistration for TLC: a benchmarker's user and a browser's user, one *)
(* isu the JIA knows that each of them may want, and one it does not.      *)
(***************************************************************************)
EXTENDS IsuRegistration, TLC

CONSTANTS b1, w1, w2, i1, i2, iBad

\* The character is a function of the isu; which one is of no interest.
MCCharacter == {"calm"}
MCCharacterOf == [i \in KnownIsu |-> "calm"]

\* Two browsers race for i2; the benchmarker's user is alone on i1.
MCWants == [u \in User |-> CASE u = b1 -> {i1}
                             [] u = w1 -> {i2}
                             [] u = w2 -> {i2, iBad}]

ReqSymmetry == Permutations(Req)

============================================================================

----------------------------- MODULE MCSession -----------------------------
(* Two tabs, two users the JIA vouches for, and a token it does not. *)
EXTENDS Session

CONSTANTS u1, u2, u3

MCToken ==
    {[user |-> u1, valid |-> TRUE], [user |-> u2, valid |-> TRUE],
     [user |-> u3, valid |-> FALSE]}

=============================================================================

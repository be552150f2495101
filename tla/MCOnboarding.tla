------------------------------ MODULE MCOnboarding ------------------------------
(* Two users, one group, one request thread beside another and an import job      *)
(* whose file names one user with a password and another without.                 *)
EXTENDS Onboarding

CONSTANTS u1, u2, g1

MCRows == <<[user |-> u1, given |-> TRUE,  groups |-> {g1}],
            [user |-> u2, given |-> FALSE, groups |-> {g1}]>>
=============================================================================

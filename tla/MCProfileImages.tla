-------------------------- MODULE MCProfileImages ---------------------------
(***************************************************************************)
(* Instances of ProfileImages for TLC: connections 0 and 2 belong to one   *)
(* user, connection 1 to another.                                          *)
(***************************************************************************)
EXTENDS ProfileImages

CONSTANTS Ana, Bob, JPG, PNG

TwoUsers   == [c \in Clients |-> IF c = 1 THEN Bob ELSE Ana]
AnaChanges == [c \in Clients |-> IF c = 2 THEN {JPG, PNG} ELSE {JPG}]
AnaSets    == [c \in Clients |-> IF c = 1 THEN 0 ELSE 1]
BothSet    == [c \in Clients |-> IF c = 2 THEN 0 ELSE 1]
=============================================================================

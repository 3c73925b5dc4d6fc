---------------------------- MODULE MCChatServer ----------------------------
(* Instances of ChatServer for TLC. *)
EXTENDS ChatRoster, TLC

WorkerSymmetry == Permutations(Workers)

\* One account per user; connection 2 is of the user of connection 0.
CONSTANTS a, b
OneAccountEach == [n \in Clients |-> {<<a, b, a>>[n + 1]}]

\* How many packets each client sends.
FourNone  == [n \in Clients |-> IF n = 0 THEN 4 ELSE 0]
OneEach   == [n \in Clients |-> 1]
=============================================================================

---------------------------- MODULE PacketStream ----------------------------
(***************************************************************************)
(* What both ends take a connection for: every packet that is sent is      *)
(* handled once, in the order sent.  When the sender has closed, and all   *)
(* has been handled, a receiver may take the end itself for packets.       *)
(***************************************************************************)
EXTENDS Naturals, Sequences

CONSTANTS Packets,
          Phantoms  \* what a receiver takes the end for, if anything

VARIABLES sent, handled, closed

streamVars == <<sent, handled, closed>>

Init == sent = <<>> /\ handled = <<>> /\ closed = FALSE

Send == /\ ~closed
        /\ \E p \in Packets : sent' = Append(sent, p)
        /\ UNCHANGED <<handled, closed>>

Close == /\ closed' = TRUE
         /\ UNCHANGED <<sent, handled>>

Handle == /\ Len(handled) < Len(sent)
          /\ handled' = Append(handled, sent[Len(handled) + 1])
          /\ UNCHANGED <<sent, closed>>

HandleEnd == /\ closed /\ Len(handled) >= Len(sent)
             /\ \E p \in Phantoms : handled' = Append(handled, p)
             /\ UNCHANGED <<sent, closed>>

Next == Send \/ Close \/ Handle \/ HandleEnd

Spec == Init /\ [][Next]_streamVars
=============================================================================

--------------------------- MODULE MessageChannel ---------------------------
(***************************************************************************)
(* What the message layers of the controller and of the router promise     *)
(* their users: messages arrive whole, in the order they were sent, each   *)
(* once, until the connection ends.  A message that was cut short on the   *)
(* way in (broken) ends the promise for the rest of that connection.       *)
(***************************************************************************)
EXTENDS Naturals, Sequences

CONSTANT Message

VARIABLES sent, got, broken

cvars == <<sent, got, broken>>

Init == sent = <<>> /\ got = <<>> /\ ~ broken

Send == /\ \E m \in Message : sent' = Append(sent, m)
        /\ UNCHANGED <<got, broken>>

Deliver == /\ ~ broken /\ Len(got) < Len(sent)
           /\ got' = Append(got, sent[Len(got) + 1])
           /\ UNCHANGED <<sent, broken>>

Break == broken' /\ UNCHANGED got

(* A new connection: what was under way on the old one is forgotten.       *)
Reconnect == sent' = <<>> /\ got' = <<>> /\ ~ broken'

Anything == broken /\ broken'

Next == Send \/ Deliver \/ Break \/ Reconnect \/ Anything

Spec == Init /\ [][Next]_cvars
=============================================================================

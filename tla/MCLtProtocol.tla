---------------------------- MODULE MCLtProtocol ----------------------------
(* Bytes below 4, two for the length and one for the type: commands of 3,  *)
(* 4 and 5 bytes, so that a length fills one byte or two and the longest   *)
(* is one byte over what the router reads (MaxLen = 4).                    *)
EXTENDS LtProtocol

Commands ==
    {[type |-> 1, body |-> <<>>],
     [type |-> 2, body |-> <<3>>],
     [type |-> 2, body |-> <<0, 3>>]}
=============================================================================

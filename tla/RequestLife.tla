---------------------------- MODULE RequestLife ----------------------------
(***************************************************************************)
(* What a client transport promises of a request: it waits, is sent once   *)
(* and never again, and its promise is settled once, before it is sent or  *)
(* after; only a request that was sent may be lost.                        *)
(***************************************************************************)
CONSTANT Requests

VARIABLE life    \* of each request

Init == life = [r \in Requests |-> "new"]

Moves ==
    ({"new"} \X {"waiting", "sent", "settled"}) \cup ({"waiting"} \X {"sent", "settled"})
    \cup ({"sent"} \X {"settled", "lost"})

(* Closing a connection settles several at once. *)
Next ==
    /\ \A r \in Requests : life'[r] = life[r] \/ <<life[r], life'[r]>> \in Moves
    /\ DOMAIN life' = Requests

Spec == Init /\ [][Next]_life
=============================================================================

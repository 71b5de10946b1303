----------------------------- MODULE RelayViews -----------------------------
(***************************************************************************)
(* The relay as its clients see it: Relay with a history variable that is  *)
(* computed from the frames it sends and that it never reads.              *)
(***************************************************************************)
EXTENDS RelayProperties

VARIABLE told       \* seated socket -> what it was last told of its session

ViewInit ==
    /\ Init
    /\ told = [w \in Sockets |-> "nothing"]

WasSent(w, T) == \E f \in out' : f.to = w /\ f.type \in T

ViewNext ==
    /\ Next
    /\ told' = [w \in Sockets |->
           IF ~Seated(w)' \/ conn'[w] # "open" THEN "nothing"
           ELSE IF WasSent(w, {"SESSION_CREATED", "RING_READY", "PARTNER_LEFT"}) THEN "alone"
           ELSE IF WasSent(w, {"PARTNER_JOINED"}) THEN "paired"
           ELSE told[w]]

ViewSpec == ViewInit /\ [][ViewNext]_<<vars, told>>

(* Whoever sits in a session on an open socket was last told the truth     *)
(* about it: "paired" when two sit there, "alone" when it sits alone.      *)
ToldTheTruth ==
    \A s \in live : \A p \in participants[s] :
        conn[p] = "open" =>
            told[p] = IF Cardinality(participants[s]) = 2 THEN "paired" ELSE "alone"
============================================================================

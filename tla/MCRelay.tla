------------------------------ MODULE MCRelay ------------------------------
(* Small instances of the relay for TLC.                                   *)
EXTENDS RelayProperties, TLC

CONSTANTS w1, w2, w3, w4, s1, s2, h1, h2

TwoSockets   == {w1, w2}
ThreeSockets == {w1, w2, w3}
FourSockets  == {w1, w2, w3, w4}
OneSession   == {s1}
TwoSessions  == {s1, s2}
NoHandles    == {}
OneHandle    == {h1}
TwoHandles   == {h1, h2}

Symmetric == Permutations(Sockets) \cup Permutations(SessionIds)
                                   \cup Permutations(Handles)

(* TLC tells states apart by everything but the frames of the last step:   *)
(* no action and no invariant reads them, and the action properties are    *)
(* evaluated on every step taken, whether or not its target is new.        *)
Stored == <<now, storeVars>>
============================================================================

----------------------------- MODULE XmpContext -----------------------------
(***************************************************************************)
(* The life of a libxmp context as its callers may drive it: a module is   *)
(* loaded, started, played, ended and released; the position moves and a   *)
(* stop is asked for only while the player is started; nothing is called   *)
(* on a freed context.  Loading over a module that is still loaded is      *)
(* allowed, libxmp releases the old one.                                   *)
(***************************************************************************)
CONSTANT Positions

VARIABLES state, position

vars == <<state, position>>

Init == state = "unloaded" /\ position \in Positions

Load ==
    /\ state \in {"unloaded", "loaded"}
    /\ state' \in {"unloaded", "loaded"}
    /\ position' \in Positions

Start ==
    /\ state = "loaded"
    /\ state' = "playing"
    /\ position' \in Positions

Move ==
    /\ state = "playing"
    /\ position' \in Positions
    /\ UNCHANGED state

EndPlayer ==
    /\ state = "playing"
    /\ state' = "loaded"
    /\ UNCHANGED position

Release ==
    /\ state = "loaded"
    /\ state' = "unloaded"
    /\ UNCHANGED position

Free ==
    /\ state \in {"unloaded", "loaded"}
    /\ state' = "freed"
    /\ UNCHANGED position

Next == Load \/ Start \/ Move \/ EndPlayer \/ Release \/ Free

Spec == Init /\ [][Next]_vars
=============================================================================

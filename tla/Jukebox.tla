------------------------------- MODULE Jukebox -------------------------------
(***************************************************************************)
(* What xmp promises the listener about the playlist, without saying how   *)
(* it searches: which track may play after which, and why.                 *)
(***************************************************************************)
EXTENDS Integers

CONSTANTS First, Argc      \* the playlist is First .. Argc - 1

VARIABLES
    good,      \* the places of the list that hold a track that can be played
    track,     \* the track selected last; First - 1 at the head of the list
    status,    \* "seeking" the next track, "playing" it, or "over"
    request,   \* what the listener asked for while the track plays
    asked      \* the direction of the search: "next" or "prev"

vars == <<good, track, status, request, asked>>

Places == First .. Argc - 1

TypeOK ==
    /\ good \subseteq Places
    /\ track \in First - 1 .. Argc - 1
    /\ status \in {"seeking", "playing", "over"}
    /\ request \in {"none", "next", "prev", "quit"}
    /\ asked \in {"next", "prev"}

IsFirst(t, S) == t \in S /\ \A u \in S : t <= u
IsLast(t, S)  == t \in S /\ \A u \in S : u <= t

Before == {t \in good : t < track}
After  == {t \in good : t > track}

Init ==
    /\ good \subseteq Places
    /\ track = First - 1
    /\ status = "seeking"
    /\ request = "none"
    /\ asked = "next"

\* Play the nearest track in the direction asked for; before the first
\* playable track there is only that track.
Enter ==
    /\ status = "seeking"
    /\ \E t \in Places :
         /\ IF asked = "next"    THEN IsFirst(t, After)
            ELSE IF Before # {}  THEN IsLast(t, Before)
            ELSE IsFirst(t, good)
         /\ track' = t
    /\ status' = "playing"
    /\ asked' = "next"
    /\ UNCHANGED <<good, request>>

\* Nothing before the current track: the search starts over from the head.
GiveUp ==
    /\ status = "seeking"
    /\ asked = "prev" /\ Before = {}
    /\ track' = First - 1
    /\ asked' = "next"
    /\ UNCHANGED <<good, status, request>>

Ask ==
    /\ status = "playing"
    /\ request = "none"
    /\ request' \in {"next", "prev", "quit"}
    /\ UNCHANGED <<good, track, status, asked>>

\* The track ends, by itself or because the listener asked for it.
Leave ==
    /\ status = "playing"
    /\ status' = IF request = "quit" THEN "over" ELSE "seeking"
    /\ IF request = "quit"
         THEN UNCHANGED <<request, asked>>
         ELSE request' = "none" /\ asked' = IF request = "prev" THEN "prev" ELSE "next"
    /\ UNCHANGED <<good, track>>

\* --loop-all, only if the list holds something to play.
Restart ==
    /\ status = "seeking"
    /\ asked = "next" /\ After = {} /\ good # {}
    /\ track' = First - 1
    /\ UNCHANGED <<good, status, request, asked>>

Rearrangements ==
    {p \in [Places -> Places] : \A t, u \in Places : p[t] = p[u] => t = u}

\* At the head of the list its tracks may be rearranged.
Rearrange ==
    /\ status = "seeking"
    /\ track = First - 1
    /\ \E p \in Rearrangements : good' = {t \in Places : p[t] \in good}
    /\ UNCHANGED <<track, status, request, asked>>

Finish ==
    /\ status = "seeking"
    /\ asked = "next" /\ After = {}
    /\ status' = "over"
    /\ UNCHANGED <<good, track, request, asked>>

Next == Enter \/ GiveUp \/ Ask \/ Leave \/ Restart \/ Rearrange \/ Finish

Spec == Init /\ [][Next]_vars
=============================================================================

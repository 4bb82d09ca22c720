----------------------------- MODULE MCXmpPlayer -----------------------------
(***************************************************************************)
(* The values XmpPlayer is checked with.                                   *)
(***************************************************************************)
EXTENDS XmpPlayer

\* "one" and "two" play and have that many sequences; "bad" does not load,
\* "dud" loads but does not start, "void" starts but has no frame.
MCNumSequences == [f \in Files |-> IF f = "two" THEN 2 ELSE 1]

\* the second sequence is reported to last no time
NoLength == {<<"two", 1>>}

DefaultOptions ==
    [loop |-> 0, loop_time |-> 0, max_time |-> 0, random |-> FALSE,
     info |-> FALSE, nocmd |-> FALSE, sequence |-> 0, start |-> 0,
     explore |-> 0, amiga_mixer |-> 0]

\* xmp, xmp -l, xmp --loop-all, and the last with --random
ListOptions ==
    {[DefaultOptions EXCEPT !.loop = l] : l \in 0 .. 2}
        \cup {[DefaultOptions EXCEPT !.loop = 2, !.random = TRUE]}

\* -l, --load-only, --nocmd, -z 1, -z -1, -s -1 and the explorer, with the two
\* time limits
TimedOptions ==
    {[DefaultOptions EXCEPT !.loop = l, !.explore = e, !.max_time = m,
                            !.loop_time = t] :
         l \in {0, 1}, e \in Bit, m \in {0, 3}, t \in {0, 3}}
        \cup {[DefaultOptions EXCEPT !.explore = e, !.info = TRUE] : e \in Bit}
        \cup {[DefaultOptions EXCEPT !.nocmd = TRUE],
              [DefaultOptions EXCEPT !.sequence = 1],
              [DefaultOptions EXCEPT !.sequence = -1, !.explore = 1],
              [DefaultOptions EXCEPT !.start = -1]}

\* -z 1 with and without --loop-all
SequenceOptions ==
    {[DefaultOptions EXCEPT !.sequence = 1, !.loop = l] : l \in {0, 2}}

\* ListOptions, -A and the explorer, and -z -1
MixedOptions ==
    ListOptions \cup {[DefaultOptions EXCEPT !.amiga_mixer = a, !.explore = e] :
                          a \in Bit, e \in Bit}
                \cup {[DefaultOptions EXCEPT !.sequence = -1]}

Skips == {"n", "p", "q"}
SomeKeys == {"q", "n", "f", "b", "space", "z", "l"}
MixedKeys == {"n", "p", "q", "a", ">", "<"}
=============================================================================

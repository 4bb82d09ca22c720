------------------------------ MODULE MCSoundSb ------------------------------
(***************************************************************************)
(* The cards SoundSb is checked with: one of each way to play.             *)
(***************************************************************************)
EXTENDS SoundSb

\* A 1.x card that must be told to go on at each half; a 16 on a line of the
\* second controller with a channel of its own for 16 bit transfers; and two
\* that are not found: on channel 0, and a 16 without the second channel.
MCCards ==
    {[ver |-> 1, irq |-> 5, dma8 |-> 1, dma16 |-> 0],
     [ver |-> 4, irq |-> 10, dma8 |-> 1, dma16 |-> 6],
     [ver |-> 3, irq |-> 5, dma8 |-> 0, dma16 |-> 0],
     [ver |-> 4, irq |-> 7, dma8 |-> 3, dma16 |-> 0]}
=============================================================================

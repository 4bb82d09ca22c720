----------------------------- MODULE MCAudioRing -----------------------------
(***************************************************************************)
(* The values AudioRing is checked with: a ring of three chunks of two     *)
(* bytes.  BeOS asks for whole chunks, and a frame must leave room for one *)
(* (Frames <= buffer_len - 2 * chunk_size + 1), or play() and render_proc  *)
(* wait for each other; CoreAudio takes any frame that fits the ring.      *)
(***************************************************************************)
EXTENDS AudioRing

MCFrames ==
    [d \in Drivers |-> IF d = "beos" THEN {1, buffer_len - 2 * chunk_size + 1}
                       ELSE {1, 3, buffer_len - chunk_size}]

MCRequests == [d \in Drivers |-> IF d = "beos" THEN {chunk_size} ELSE {1, 2, 3}]
=============================================================================

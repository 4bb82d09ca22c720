----------------------------- MODULE SoundDevice -----------------------------
(***************************************************************************)
(* The order in which the player may call a driver of struct sound_driver, *)
(* told by the last call made.  Every driver of the source counts on it:   *)
(* frames are played between init and deinit and never while the device is *)
(* paused, a pause is always followed by its resume, and nothing follows   *)
(* deinit.                                                                 *)
(***************************************************************************)
VARIABLE call

Init == call = "init"

Running == call \in {"init", "play", "resume"}

Play   == Running /\ call' = "play"
Pause  == call = "play" /\ call' = "pause"
Resume == call = "pause" /\ call' = "resume"
Flush  == Running /\ call' = "flush"
Deinit == (Running \/ call = "flush") /\ call' = "deinit"

Next == Play \/ Pause \/ Resume \/ Flush \/ Deinit

Spec == Init /\ [][Next]_call
=============================================================================

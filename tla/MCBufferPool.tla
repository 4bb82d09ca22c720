---------------------------- MODULE MCBufferPool ----------------------------
(***************************************************************************)
(* The values BufferPool is checked with: three buffers for Win32, four    *)
(* for DART, two for AHI.  A DART buffer takes two frames and has a byte   *)
(* to spare, so that it is given to the device before it is full; a frame  *)
(* of AHI's may be longer than a buffer.                                   *)
(***************************************************************************)
EXTENDS BufferPool

MCFrames == [d \in Drivers |-> CASE d = "win32" -> {2}
                                 [] d = "dart" -> {2} [] d = "ahi" -> {3, 7}]
=============================================================================

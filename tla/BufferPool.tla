---------------------------- MODULE BufferPool ----------------------------
(***************************************************************************)
(* The drivers that hand whole buffers to an audio system which returns    *)
(* them later: play, the callback and deinit of src/sound_win32.c,         *)
(* src/sound_dart.c and src/sound_ahi.c.  The device plays the buffers it  *)
(* is given in order; a callback thread (Win32, DART) counts them as they  *)
(* come back, AHI looks at the request itself.  A byte is its number in    *)
(* the stream modulo Modulus, so one that is stale, missing or repeated    *)
(* has the wrong number.                                                   *)
(***************************************************************************)
EXTENDS Integers, Sequences, SequencesExt

CONSTANTS
    Drivers,        \* a subset of {"win32", "dart", "ahi"}
    Builds,         \* how the updates of a counter that both threads use are
                    \* compiled: "atomic", as one access, or "split"
    num_buffers,    \* Win32: the option buffers=
    Room,           \* the bytes of a buffer: OUT_MAXLEN, bsize, BUFFERSIZE
    Frames,         \* the lengths of the frames, for each driver
    MaxLost,        \* bounds the buffers that are lost to an error
    Modulus         \* more than all the bytes in the buffers

ASSUME PoolAssumption ==
    /\ Drivers \subseteq {"win32", "dart", "ahi"}
    /\ Builds \subseteq {"atomic", "split"}
    /\ num_buffers \in Nat /\ num_buffers >= 2
    /\ Room \in Nat \ {0} /\ Modulus \in Nat \ {0} /\ MaxLost \in Nat
    /\ Frames \in [Drivers -> SUBSET (Nat \ {0})]
    /\ \A d \in Drivers \ {"ahi"} : \A n \in Frames[d] : n <= Room

VARIABLES
    driver, build, limit,   \* chosen at the start: limit is what is lost to
                            \* errors of the device at most
    data,           \* the bytes of each buffer
    next,           \* nextbuffer (Win32), next (DART), active (AHI)
    freebuffer,     \* Win32: the oldest buffer the device has
    ready,          \* DART: buffers free beside the one being filled
    index,          \* DART: how far that one is filled
    used,           \* AHI: the requests whose io_Data is set
    pc, len,        \* where play is, the bytes it still has to copy
    cpc,            \* where the callback is
    preg, creg,     \* a copy of ready in a register of either thread
    queue,          \* the buffers the device has, in order
    done,           \* buffers played whose callback is yet to come
    lost,           \* buffers the device did not accept, or whose completion
                    \* reported an error that DART's callback does not count
    sent, got       \* stream numbers of the next byte to copy and to play

setting == <<driver, build, limit>>
pool == <<data, next, freebuffer, ready, index, used>>
threads == <<pc, len, cpc, preg, creg>>
device == <<queue, done, lost>>
stream == <<sent, got>>
vars == <<setting, pool, threads, device, stream>>

BUFFERCOUNT == 4

Count == CASE driver = "win32" -> num_buffers
           [] driver = "dart"  -> BUFFERCOUNT
           [] driver = "ahi"   -> 2
Buffers == 0 .. Count - 1

Bytes(first, n) == [k \in 1 .. n |-> (first + k - 1) % Modulus]

\* DART starts by playing two buffers of silence, which hold no byte of the
\* stream, fills the third and has the fourth ready.
Init ==
    /\ driver \in Drivers /\ build \in Builds /\ limit \in 0 .. MaxLost
    /\ data = [b \in Buffers |-> <<>>]
    /\ next = (IF driver = "dart" THEN 2 ELSE 0)
    /\ queue = (IF driver = "dart" THEN <<0, 1>> ELSE <<>>)
    /\ ready = 1 /\ freebuffer = 0 /\ index = 0 /\ used = {}
    /\ pc = "idle" /\ len = 0 /\ cpc = "idle" /\ preg = 0 /\ creg = 0
    /\ done = 0 /\ lost = 0 /\ sent = 0 /\ got = 0

-----------------------------------------------------------------------------
(* What the three drivers share.                                           *)

At(d, place) == driver = d /\ pc = place
Goto(place) == pc' = place /\ UNCHANGED <<cpc, preg, creg>>

\* A bound: once an update lost in a "split" build has put the counters wrong,
\* play is not called again.
Bounded ==
    build = "split" =>
    CASE driver = "win32" -> Len(queue) + done < num_buffers
      [] driver = "dart"  -> ready + Len(queue) + done + lost
                               + (IF cpc = "store" THEN 1 ELSE 0) = BUFFERCOUNT - 1
      [] driver = "ahi"   -> TRUE

\* play(b, n): where it begins.
Call(d, place, n) ==
    /\ driver = d /\ pc = "idle" /\ Bounded /\ len' = n /\ Goto(place)
    /\ UNCHANGED <<setting, pool, device, stream>>

\* n bytes of the frame are copied into the buffer that is being filled,
\* after its first "from" bytes.
CopyBytes(from, n) ==
    /\ data' = [data EXCEPT ![next] = SubSeq(@, 1, from) \o Bytes(sent, n)]
    /\ sent' = (sent + n) % Modulus
    /\ len' = len - n
    /\ UNCHANGED <<got, next, freebuffer, ready>>

\* The buffer is given to the device; an error is not looked at.
Submit ==
    /\ \/ queue' = Append(queue, next) /\ UNCHANGED lost
       \/ /\ driver # "ahi" /\ lost < limit
          /\ lost' = lost + 1 /\ UNCHANGED queue
    /\ UNCHANGED done

-----------------------------------------------------------------------------
(* Win32                                                                   *)

Win32Play == \E n \in Frames[driver] : Call("win32", "copy", n)

Win32Copy == /\ At("win32", "copy")
             /\ CopyBytes(0, len) /\ Goto("wait")
             /\ UNCHANGED <<setting, index, used, device>>

\* Mutant: a full pool is taken for one with a free buffer.
Win32WaitNot == /\ At("win32", "wait") /\ Goto("write")
                /\ UNCHANGED <<setting, pool, len, device, stream>>

\* while ((nextbuffer + 1) % num_buffers == freebuffer) Sleep(10);
Win32Wait == /\ At("win32", "wait")
             /\ (next + 1) % num_buffers # freebuffer
             /\ Goto("write")
             /\ UNCHANGED <<setting, pool, len, device, stream>>

Win32Write == /\ At("win32", "write")
              /\ Submit /\ Goto("advance")
              /\ UNCHANGED <<setting, pool, len, stream>>

Win32Advance ==
    /\ At("win32", "advance") /\ next' = (next + 1) % num_buffers
    /\ Goto("idle")
    /\ UNCHANGED <<setting, data, freebuffer, ready, index, used, len,
                   device, stream>>

\* wave_callback: freebuffer++; freebuffer %= num_buffers, stored once or
\* twice: play may read it between the two.
Win32Callback ==
    /\ driver = "win32" /\ cpc = "idle" /\ done > 0
    /\ done' = done - 1
    /\ IF build = "atomic"
       THEN freebuffer' = (freebuffer + 1) % num_buffers /\ UNCHANGED cpc
       ELSE freebuffer' = freebuffer + 1 /\ cpc' = "modulo"
    /\ UNCHANGED <<setting, data, next, ready, index, used, pc, len, preg, creg,
                   queue, lost, stream>>

Win32Modulo ==
    /\ driver = "win32" /\ cpc = "modulo"
    /\ freebuffer' = freebuffer % num_buffers /\ cpc' = "idle"
    /\ UNCHANGED <<setting, data, next, ready, index, used, pc, len, preg, creg,
                   device, stream>>

-----------------------------------------------------------------------------
(* DART.  The mutex protects the counter in the callback and where play    *)
(* waits, but not where play subtracts from it.                            *)

MutexFree == cpc = "idle"

\* The frame goes into the buffer being filled, or, when it has no room left,
\* into the next one.
DartPlay ==
    \E n \in Frames[driver] :
        Call("dart", IF index + n > Room THEN "wait" ELSE "copy", n)

DartWait == /\ At("dart", "wait") /\ MutexFree /\ ready # 0
            /\ Goto("write")
            /\ UNCHANGED <<setting, pool, len, device, stream>>

\* ulBufferLength = index: no more than what was filled is played.
DartWrite ==
    /\ At("dart", "write")
    /\ data' = [data EXCEPT ![next] = SubSeq(@, 1, index)]
    /\ Submit /\ Goto("ready")
    /\ UNCHANGED <<setting, next, freebuffer, ready, index, used, len, stream>>

\* ready--, in one instruction or in two.
DartReady ==
    /\ At("dart", "ready")
    /\ IF build = "atomic"
       THEN pc' = "advance" /\ ready' = ready - 1 /\ UNCHANGED preg
       ELSE pc' = "store" /\ preg' = ready /\ UNCHANGED ready
    /\ UNCHANGED <<setting, data, next, freebuffer, index, used, len, cpc, creg,
                   device, stream>>

DartStore ==
    /\ At("dart", "store")
    /\ ready' = preg - 1 /\ preg' = 0 /\ pc' = "advance"
    /\ UNCHANGED <<setting, data, next, freebuffer, index, used, len, cpc, creg,
                   device, stream>>

DartAdvance ==
    /\ At("dart", "advance") /\ Goto("copy")
    /\ next' = (IF next + 1 = BUFFERCOUNT THEN 0 ELSE next + 1)
    /\ index' = 0
    /\ UNCHANGED <<setting, data, freebuffer, ready, used, len, device, stream>>

DartCopy == /\ At("dart", "copy")
            /\ CopyBytes(index, len) /\ index' = index + len
            /\ Goto("idle")
            /\ UNCHANGED <<setting, used, device>>

\* Mutant: the audio thread counts only while play waits.
DartCallbackLate ==
    /\ driver = "dart" /\ cpc = "idle" /\ done > 0
    /\ done' = done - 1
    /\ ready' = (IF pc = "wait" THEN ready + 1 ELSE ready)
    /\ UNCHANGED <<setting, data, next, freebuffer, index, used, threads,
                   queue, lost, stream>>

\* Mutant: the callback counts one buffer, however many have come back.
DartCallbackOnce ==
    /\ driver = "dart" /\ cpc = "idle" /\ done > 0
    /\ done' = 0 /\ ready' = ready + 1
    /\ UNCHANGED <<setting, data, next, freebuffer, index, used, threads,
                   queue, lost, stream>>

\* OS2_Dart_UpdateBuffers: ready++ under the mutex, for a buffer that was
\* completed, also one that ran out.
DartCallback ==
    /\ driver = "dart" /\ cpc = "idle" /\ done > 0
    /\ done' = done - 1
    /\ IF build = "atomic"
       THEN ready' = ready + 1 /\ UNCHANGED <<cpc, creg>>
       ELSE cpc' = "store" /\ creg' = ready /\ UNCHANGED ready
    /\ UNCHANGED <<setting, data, next, freebuffer, index, used, pc, len, preg,
                   queue, lost, stream>>

\* A buffer that was completed with any other error is not counted: no one
\* waits for it, and no one knows that it is free.
DartCallbackError ==
    /\ driver = "dart" /\ cpc = "idle" /\ done > 0
    /\ lost < limit
    /\ done' = done - 1 /\ lost' = lost + 1
    /\ UNCHANGED <<setting, pool, threads, queue, stream>>

DartCallbackStore ==
    /\ driver = "dart" /\ cpc = "store"
    /\ ready' = creg + 1 /\ creg' = 0 /\ cpc' = "idle"
    /\ UNCHANGED <<setting, data, next, freebuffer, index, used, pc, len, preg,
                   device, stream>>

-----------------------------------------------------------------------------
(* AHI: two requests in turn; a long frame is cut into chunks.             *)

AhiPlay == \E n \in Frames[driver] : Call("ahi", "wait", n)

\* Mutant: a request is used again without waiting for it.
AhiWaitNot == /\ At("ahi", "wait") /\ Goto("copy")
              /\ UNCHANGED <<setting, pool, len, device, stream>>

\* WaitIO returns at once for a request that has come back.
AhiWait == /\ At("ahi", "wait")
           /\ next \in used => ~Contains(queue, next)
           /\ Goto("copy")
           /\ UNCHANGED <<setting, pool, len, device, stream>>

\* Mutant: "in" is not moved, so that the next chunk is the same again.
AhiCopySame ==
    /\ At("ahi", "copy")
    /\ LET chunk == IF len < Room THEN len ELSE Room IN
         /\ data' = [data EXCEPT ![next] = Bytes(sent, chunk)]
         /\ sent' = (IF len = chunk THEN (sent + chunk) % Modulus ELSE sent)
         /\ len' = len - chunk
    /\ used' = used \union {next} /\ Goto("write")
    /\ UNCHANGED <<setting, next, freebuffer, ready, index, device, got>>

AhiCopy == /\ At("ahi", "copy")
           /\ CopyBytes(0, IF len < Room THEN len ELSE Room)
           /\ used' = used \union {next}
           /\ Goto("write")
           /\ UNCHANGED <<setting, index, device>>

AhiSend == /\ At("ahi", "write")
           /\ Submit /\ Goto("advance")
           /\ UNCHANGED <<setting, pool, len, stream>>

AhiAdvance ==
    /\ At("ahi", "advance") /\ next' = 1 - next
    /\ Goto(IF len > 0 THEN "wait" ELSE "idle")
    /\ UNCHANGED <<setting, data, freebuffer, ready, index, used, len, device,
                   stream>>

-----------------------------------------------------------------------------
(* The device, and deinit.                                                 *)

\* The oldest buffer has been played.
Complete ==
    /\ queue # <<>> /\ pc # "closed"
    /\ queue' = Tail(queue)
    /\ got' = (got + Len(data[Head(queue)])) % Modulus
    /\ done' = (IF driver = "ahi" THEN done ELSE done + 1)
    /\ UNCHANGED <<setting, pool, threads, lost, sent>>

\* What the device still has, or DART has not given it, is not played.
Deinit == /\ pc = "idle" /\ Goto("closed")
          /\ UNCHANGED <<setting, pool, len, device, stream>>

Closed == pc = "closed" /\ UNCHANGED vars

Playing == \/ Win32Copy \/ Win32Wait \/ Win32Write \/ Win32Advance
           \/ DartWait \/ DartWrite \/ DartReady \/ DartStore \/ DartAdvance
           \/ DartCopy
           \/ AhiWait \/ AhiCopy \/ AhiSend \/ AhiAdvance
Control == Win32Play \/ DartPlay \/ AhiPlay \/ Deinit
Callback == \/ Win32Callback \/ Win32Modulo
            \/ DartCallback \/ DartCallbackError \/ DartCallbackStore

Next == Playing \/ Control \/ Callback \/ Complete \/ Closed

Spec == /\ Init /\ [][Next]_vars
        /\ WF_vars(Playing) /\ WF_vars(Callback) /\ WF_vars(Complete)

-----------------------------------------------------------------------------
(* Properties                                                              *)

\* Every variable keeps a value the driver can give it.
TypeOK ==
    /\ driver \in Drivers /\ build \in Builds
    /\ data \in [Buffers -> Seq(0 .. Modulus - 1)]
    /\ next \in Buffers /\ freebuffer \in 0 .. num_buffers
    /\ ready \in Int /\ index \in Nat /\ used \subseteq {0, 1}
    /\ pc \in {"idle", "copy", "wait", "write", "ready", "store", "advance",
               "closed"}
    /\ len \in Nat /\ cpc \in {"idle", "modulo", "store"}
    /\ preg \in Int /\ creg \in Int
    /\ queue \in Seq(Buffers) /\ done \in Nat /\ lost \in 0 .. MaxLost
    /\ sent \in 0 .. Modulus - 1 /\ got \in 0 .. Modulus - 1

\* play() never copies into a buffer the device has, and never gives it one
\* twice, however the callback interleaves, if the counters are updated by one
\* access: freebuffer, which has no lock, and ready, which play decrements
\* outside the mutex.
NeverOwned == build = "atomic" /\ pc \in {"copy", "write"} => ~Contains(queue, next)

\* The device plays the stream: the buffer whose turn it is holds the bytes
\* that follow those played, none lost at a change of buffer or in a chunk.
PlaysStream ==
    build = "atomic" /\ lost = 0 /\ queue # <<>> =>
        LET bytes == data[Head(queue)] IN bytes = Bytes(got, Len(bytes))

\* A buffer is free, with the device, on its way between the two, or lost to an
\* error: what the counters say of the pool, which neither thread may change
\* behind the other's back.
Credits ==
    build = "atomic" =>
        CASE driver = "win32" ->
               /\ Len(queue) + done + lost <= num_buffers - 1
               /\ (freebuffer + Len(queue) + done + lost) % num_buffers =
                  (next + (IF pc = "advance" THEN 1 ELSE 0)) % num_buffers
          [] driver = "dart" ->
               ready + Len(queue) + done + lost
                 = BUFFERCOUNT - 1 + (IF pc = "ready" THEN 1 ELSE 0)
          [] OTHER -> TRUE

\* play() returns as long as the pool has not lost all its buffers to errors;
\* once it has, play() waits for ever.
PlayReturns ==
    (pc = "wait" /\ build = "atomic") ~>
        (pc # "wait" \/ lost >= Count - 1)

\* A device that takes every buffer makes the pool a bounded queue of bytes:
\* those it has, and those of the buffer being filled.
Reliable == build = "atomic" /\ limit = 0
Given == FlattenSeq([k \in DOMAIN queue |-> data[queue[k]]])
Filled == CASE driver = "win32" /\ pc \in {"wait", "write"} -> data[next]
            [] driver = "ahi" /\ pc = "write" -> data[next]
            [] driver = "dart" /\ pc \notin {"ready", "store", "advance"} ->
                 SubSeq(data[next], 1, index)
            [] OTHER -> <<>>
IfReliable(e, none) == IF Reliable THEN e ELSE none
Fifo == INSTANCE ByteFifo WITH
    Capacity <- Count * Room,
    queue <- IfReliable(Given \o Filled, <<>>),
    sent <- IfReliable(sent, 0),
    got <- IfReliable(got, 0)
IsFifo == Fifo!Spec
=============================================================================

------------------------------ MODULE AudioRing ------------------------------
(***************************************************************************)
(* The ring buffer of sound_coreaudio.c and sound_beos.cpp: play() fills   *)
(* it from the program's thread, render_proc empties it from the thread of *)
(* the audio system.  They share buffer, buf_write_pos and buf_read_pos    *)
(* with no lock, so every read of a shared position is a step of its own.  *)
(*                                                                         *)
(* The bytes are told apart by their number in the stream, modulo Modulus; *)
(* sent and got count the bytes published and the bytes consumed.          *)
(***************************************************************************)
EXTENDS Integers

CONSTANTS
    buffer_len,  \* size of the ring, in bytes
    chunk_size,  \* what buf_free keeps back
    Drivers,     \* the drivers looked at: "coreaudio", "beos"
    Frames,      \* for each driver, the sizes of the frames given to play()
    Requests,    \* for each driver, the sizes the audio system asks for
    Machines,    \* "ordered": stores become visible in program order; "weak"
    Modulus      \* bound: byte numbers are counted modulo this

ASSUME RingAssumption ==
    /\ buffer_len \in Nat /\ chunk_size \in Nat \ {0} /\ chunk_size < buffer_len
    /\ Drivers \subseteq {"coreaudio", "beos"}
    /\ Frames \in [Drivers -> SUBSET (Nat \ {0})]
    /\ Requests \in [Drivers -> SUBSET (Nat \ {0})]
    /\ Machines \subseteq {"ordered", "weak"}
    /\ Modulus \in Nat /\ Modulus > buffer_len

VARIABLES
    driver, machine,                      \* never change
    buffer, buf_write_pos, buf_read_pos,  \* shared
    unit,      \* "running": the audio system calls render_proc
    paused,    \* the unit was never started
    call,      \* the last driver call, as in SoundDevice
    ppc, i, wlen,      \* play: where it is, bytes left, bytes being written
    stores,            \* what write_buffer has not yet made visible
    cpc, req, amt,     \* render_proc: where it is, bytes wanted, bytes being read
    sent, got          \* history: bytes put and taken so far

setting  == <<driver, machine>>
shared   == <<buffer, buf_write_pos, buf_read_pos>>
producer == <<ppc, i, wlen, stores>>
consumer == <<cpc, req, amt>>
vars == <<setting, shared, unit, paused, call, producer, consumer, sent, got>>

Slots == 0 .. buffer_len - 1
Wrap(n) == n % buffer_len
Byte(n) == n % Modulus
Least(a, b) == IF a < b THEN a ELSE b

\* The distance between two positions, corrected once at the end of the ring.
Corrected(n) == IF n < 0 THEN n + buffer_len ELSE n

\* Mutant: one byte is kept back in place of a chunk.
buf_free_one == Corrected(buf_read_pos - buf_write_pos - 1)

\* buf_free and buf_used, of the positions they happen to read.
buf_free == Corrected(buf_read_pos - buf_write_pos - chunk_size)
buf_used == Corrected(buf_write_pos - buf_read_pos)

\* render_proc waits for the bytes it wants, or gives what there is.
Blocking == driver = "beos"

Init ==
    /\ driver \in Drivers /\ machine \in Machines
    /\ buffer = [k \in Slots |-> 0]
    /\ buf_write_pos = 0 /\ buf_read_pos = 0
    /\ unit = "stopped" /\ paused = 1
    /\ call = "init"
    /\ ppc = "idle" /\ i = 0 /\ wlen = 0 /\ stores = {}
    /\ cpc = "idle" /\ req = 0 /\ amt = 0
    /\ sent = 0 /\ got = 0

-----------------------------------------------------------------------------
(* The program's thread *)

Play ==
    /\ ppc = "idle"
    /\ call \in {"init", "play", "resume"}
    /\ i' \in Frames[driver]
    /\ call' = "play"
    /\ ppc' = "wait"
    /\ UNCHANGED <<setting, shared, unit, paused, wlen, stores, consumer, sent, got>>

\* Mutant: any free byte will do.
WaitAny ==
    /\ ppc = "wait"
    /\ buf_free > 0
    /\ ppc' = "write"
    /\ UNCHANGED <<setting, shared, unit, paused, call, i, wlen, stores, consumer,
                   sent, got>>

\* while (buf_free() < i) delay_ms(100);
WaitFree ==
    /\ ppc = "wait"
    /\ buf_free >= i
    /\ ppc' = "write"
    /\ UNCHANGED <<setting, shared, unit, paused, call, i, wlen, stores, consumer,
                   sent, got>>

\* write_buffer asks again how much is free, and writes no more than that.
WriteBuffer ==
    /\ ppc = "write"
    /\ wlen' = Least(i, buf_free)
    /\ IF wlen' > 0
         THEN ppc' = "store" /\ stores' = {"bytes", "position"}
         ELSE ppc' = "start" /\ UNCHANGED stores
    /\ UNCHANGED <<setting, shared, unit, paused, call, i, consumer, sent, got>>

\* The slots that n bytes from pos on occupy, over the end of the buffer.
Region(pos, n) == {Wrap(pos + k) : k \in 0 .. n - 1}

\* The two memcpy calls.  The bytes are the wlen next ones of the stream; when
\* the position was seen first, they are the wlen ones before it.
StoreBytes ==
    LET late  == "position" \notin stores
        pos   == IF late THEN Wrap(buf_write_pos - wlen + buffer_len) ELSE buf_write_pos
        first == IF late THEN Byte(sent - wlen + Modulus) ELSE sent
    IN  /\ ppc = "store" /\ "bytes" \in stores
        /\ buffer' = [k \in Slots |-> IF Corrected(k - pos) < wlen
                                      THEN Byte(first + Corrected(k - pos))
                                      ELSE buffer[k]]
        /\ stores' = stores \ {"bytes"}
        /\ UNCHANGED <<setting, buf_write_pos, buf_read_pos, unit, paused, call,
                       ppc, i, wlen, consumer, sent, got>>

\* Mutant: the position is moved before the bytes are copied.
StorePositionAnyTime ==
    /\ ppc = "store" /\ "position" \in stores
    /\ buf_write_pos' = Wrap(buf_write_pos + wlen)
    /\ sent' = Byte(sent + wlen)
    /\ stores' = stores \ {"position"}
    /\ UNCHANGED <<setting, buffer, buf_read_pos, unit, paused, call, ppc, i, wlen,
                   consumer, got>>

\* buf_write_pos is a plain int stored without a barrier: only a machine that
\* keeps the order of stores shows it after the bytes.
StorePosition ==
    /\ ppc = "store" /\ "position" \in stores
    /\ "bytes" \in stores => machine = "weak"
    /\ buf_write_pos' = Wrap(buf_write_pos + wlen)
    /\ sent' = Byte(sent + wlen)
    /\ stores' = stores \ {"position"}
    /\ UNCHANGED <<setting, buffer, buf_read_pos, unit, paused, call, ppc, i, wlen,
                   consumer, got>>

\* Back in play: while (i) with the bytes that are left.
Written ==
    /\ ppc = "store" /\ stores = {}
    /\ i' = i - wlen
    /\ ppc' = IF i' > 0 THEN "write" ELSE "start"
    /\ UNCHANGED <<setting, shared, unit, paused, call, wlen, stores, consumer,
                   sent, got>>

\* Mutant: the flag is tested the wrong way round.
StartUnitLater ==
    /\ ppc = "start"
    /\ unit' = IF paused = 0 THEN "running" ELSE unit
    /\ i' = 0
    /\ ppc' = "idle"
    /\ UNCHANGED <<setting, shared, paused, call, wlen, stores, consumer, sent, got>>

\* The unit is started by the first call of play.
StartUnit ==
    /\ ppc = "start"
    /\ unit' = IF paused = 1 THEN "running" ELSE unit
    /\ paused' = 0
    /\ i' = 0
    /\ ppc' = "idle"
    /\ UNCHANGED <<setting, shared, call, wlen, stores, consumer, sent, got>>

\* onpause and onresume: CoreAudio stops and starts the unit, on BeOS they
\* are empty.  Stopping the unit waits for a callback to return.
OnPause ==
    /\ ppc = "idle" /\ call = "play"
    /\ IF Blocking THEN UNCHANGED unit ELSE cpc = "idle" /\ unit' = "stopped"
    /\ call' = "pause"
    /\ UNCHANGED <<setting, shared, paused, producer, consumer, sent, got>>

OnResume ==
    /\ ppc = "idle" /\ call = "pause"
    /\ unit' = "running"
    /\ call' = "resume"
    /\ UNCHANGED <<setting, shared, paused, producer, consumer, sent, got>>

\* A BeOS callback that waits for its bytes is left behind.
Deinit ==
    /\ ppc = "idle" /\ call \in {"init", "play", "resume"}
    /\ Blocking \/ cpc = "idle"
    /\ unit' = "stopped"
    /\ call' = "deinit"
    /\ UNCHANGED <<setting, shared, paused, producer, consumer, sent, got>>

-----------------------------------------------------------------------------
(* The thread of the audio system *)

Render ==
    /\ cpc = "idle" /\ unit = "running"
    /\ req' \in Requests[driver]
    /\ cpc' = "wait"
    /\ UNCHANGED <<setting, shared, unit, paused, call, producer, amt, sent, got>>

\* CoreAudio: amt = min(buf_used(), req).  BeOS: until buf_used() >= req.
RenderAmount ==
    /\ cpc = "wait"
    /\ Blocking => buf_used >= req
    /\ amt' = Least(buf_used, req)
    /\ cpc' = "read"
    /\ UNCHANGED <<setting, shared, unit, paused, call, producer, req, sent, got>>

\* Mutant: read_buffer trusts the length it is given.
ReadAll ==
    /\ cpc = "read"
    /\ amt' = req
    /\ cpc' = "copy"
    /\ UNCHANGED <<setting, shared, unit, paused, call, producer, req, sent, got>>

\* read_buffer asks again how much is buffered, and reads no more than that.
ReadBuffer ==
    /\ cpc = "read"
    /\ amt' = Least(amt, buf_used)
    /\ cpc' = "copy"
    /\ UNCHANGED <<setting, shared, unit, paused, call, producer, req, sent, got>>

\* Mutant: the position moves by what was asked for.
ReadDoneAsAsked ==
    /\ cpc = "copy"
    /\ buf_read_pos' = Wrap(buf_read_pos + req)
    /\ got' = Byte(got + amt)
    /\ cpc' = "idle"
    /\ UNCHANGED <<setting, buffer, buf_write_pos, unit, paused, call, producer,
                   req, amt, sent>>

\* The bytes are copied out and given up: buf_read_pos moves on.
ReadDone ==
    /\ cpc = "copy"
    /\ buf_read_pos' = Wrap(buf_read_pos + amt)
    /\ got' = Byte(got + amt)
    /\ cpc' = "idle"
    /\ UNCHANGED <<setting, buffer, buf_write_pos, unit, paused, call, producer,
                   req, amt, sent>>

Closed == call = "deinit" /\ UNCHANGED vars

Producing == WaitFree \/ WriteBuffer \/ StoreBytes \/ StorePosition \/ Written
                \/ StartUnit
Control   == Play \/ OnPause \/ OnResume \/ Deinit
Rendering == Render \/ RenderAmount \/ ReadBuffer \/ ReadDone

Next == Producing \/ Control \/ Rendering \/ Closed

Spec == Init /\ [][Next]_vars /\ WF_vars(Producing) /\ WF_vars(Rendering)

-----------------------------------------------------------------------------
(* Properties *)

\* Every variable keeps a value the driver can give it.
TypeOK ==
    /\ driver \in Drivers /\ machine \in Machines
    /\ buffer \in [Slots -> 0 .. Modulus - 1]
    /\ buf_write_pos \in Slots /\ buf_read_pos \in Slots
    /\ unit \in {"running", "stopped"} /\ paused \in {0, 1}
    /\ call \in {"init", "play", "pause", "resume", "deinit"}
    /\ ppc \in {"idle", "wait", "write", "store", "start"}
    /\ i \in Nat /\ wlen \in Nat
    /\ stores \in SUBSET {"bytes", "position"}
    /\ cpc \in {"idle", "wait", "read", "copy"}
    /\ req \in Nat /\ amt \in Nat
    /\ sent \in 0 .. Modulus - 1 /\ got \in 0 .. Modulus - 1

\* A chunk is always left unwritten, so that a full buffer is never taken for
\* an empty one; this is what makes the one correction in buf_free enough.
ChunkStaysFree == buf_used <= buffer_len - chunk_size

\* "return minimum number of free bytes in buffer" and "minimum number of
\* buffered bytes" (sound_coreaudio.c:41, 52): what either thread was told
\* still holds when it copies, whatever the other did in between.
NothingCutShort ==
    /\ ppc = "store" => wlen = i
    /\ Blocking /\ cpc = "copy" => amt = req

\* The memcpy calls of the two threads never touch the same byte, when stores
\* become visible in order.
NoOverlap ==
    /\ machine = "ordered"
    /\ ppc = "store" /\ "bytes" \in stores
    /\ cpc = "copy"
    => Region(buf_write_pos, wlen) \cap Region(buf_read_pos, amt) = {}

\* The bytes render_proc hands to the audio system are the next ones of the
\* stream.
NextBytes ==
    \A k \in 0 .. amt - 1 : buffer[Wrap(buf_read_pos + k)] = Byte(got + k)
BytesInOrder == cpc = "copy" => NextBytes

\* The same on a machine that keeps the order of stores.
BytesInOrderIfOrdered == machine = "ordered" => BytesInOrder

\* On such a machine the ring implements a bounded queue of bytes.
IfOrdered(e, none) == IF machine = "ordered" THEN e ELSE none
Fifo == INSTANCE ByteFifo WITH
    Capacity <- buffer_len - chunk_size,
    queue <- IfOrdered([k \in 1 .. buf_used |-> buffer[Wrap(buf_read_pos + k - 1)]],
                       << >>),
    sent <- IfOrdered(sent, 0),
    got  <- IfOrdered(got, 0)
IsFifo == Fifo!Spec

\* play() returns: the wait for free space is always ended by render_proc.
PlayReturns == (ppc = "wait") ~> (ppc = "idle")
=============================================================================

------------------------------- MODULE SoundSb -------------------------------
(***************************************************************************)
(* The "sb" driver (sound_sb.c): play() fills the cyclic buffer behind the *)
(* position of the transfer, which it reads a byte at a time while the     *)
(* transfer goes on.                                                       *)
(***************************************************************************)
EXTENDS DosSb

CONSTANTS
    ByteBase,   \* values of a byte of the count register: 256
    Near,       \* how close two readings of it must be: 10
    Align,      \* the position is rounded down to a multiple of this: 256
    MaxTicks,   \* bytes transferred while play() reads the position
    FrameSizes  \* the sizes of the frames handed to play()

ASSUME SoundSbAssumption ==
    /\ ByteBase \in Nat /\ Near \in Nat /\ Near > 0 /\ 2 * ByteBase <= Size
    /\ MaxTicks \in Nat /\ MaxTicks + Near <= ByteBase
    /\ Align \in Nat /\ Align > 0 /\ Size % Align = 0
    /\ FrameSizes \subseteq Nat \ {0}

VARIABLES
    buff_tail,  \* where the next byte goes
    mem,        \* the byte each place of the buffer holds, or Silence
    next,       \* the number of the next byte of the stream
    siz,        \* bytes of the frame still to copy
    query,      \* what sb_query_dma has read
    ticks,      \* bytes transferred since play() knew the position
    ahead       \* bytes from the card's position to the end of what is stored;
                \* 0 if the card has overtaken the program

streamVars == <<buff_tail, mem, next, siz, query, ticks, ahead>>
vars == <<sbVars, streamVars>>

\* Bytes are numbered modulo Size + 1, enough to tell a byte from those that
\* could be in its place.
Numbers  == 0 .. Size
Silence  == Size + 1
Places   == 0 .. Size - 1
Position == Size - channel.left
Later(n, k) == (n + k) % (Size + 1)

NoQuery == [low |-> 0, test |-> 0, pos |-> 0]

Init ==
    /\ SbInit
    /\ buff_tail = 0
    /\ mem = [i \in Places |-> Silence]
    /\ next = 0
    /\ siz = 0
    /\ query = NoQuery
    /\ ticks = 0
    /\ ahead = Size

InPlay  == pc \in {"query", "high", "low2", "high2", "write"}
Hurried == InPlay \/ pc = "halted"

\* The card goes on by itself; while play() runs, only so far from one
\* position it accepts to the next, and as far between two steps of deinit.

Tick ==
    /\ Hurried => ticks < MaxTicks
    /\ Transfer
    /\ ticks' = IF Hurried THEN ticks + 1 ELSE 0
    /\ ahead' = IF channel.auto /\ ahead > 0 THEN ahead - 1 ELSE ahead
    /\ UNCHANGED <<vector, unmasked, handle, count, seen, locks, blocks, alloc,
                   buffer, card, speaker, sb, pc, asked, trial, noise,
                   buff_tail, mem, next, siz, query>>

-----------------------------------------------------------------------------
Play(n) ==
    /\ At("ready")
    /\ siz' = n
    /\ Goto("query")
    /\ UNCHANGED <<irqVars, dmaVars, card, dsp, speaker, sb, asked, trial, noise,
                   buff_tail, mem, next, query, ticks, ahead>>

Register == channel.left - 1
Low      == Register % ByteBase
High     == Register \div ByteBase
Reading  == High * ByteBase + query.low + 1     \* dma_get_count

QueryStep(p, q) ==
    /\ Goto(p)
    /\ query' = q
    /\ UNCHANGED <<irqVars, dmaVars, card, dsp, speaker, sb, asked, trial, noise,
                   buff_tail, mem, next, siz, ahead>>

\* sb_query_dma reads the count twice, its low byte first, until the second
\* reading is not below the first and close to it.
ReadLow ==
    /\ At("query")
    /\ QueryStep("high", [NoQuery EXCEPT !.low = Low])
    /\ UNCHANGED ticks
ReadHigh ==
    /\ At("high")
    /\ QueryStep("low2", [query EXCEPT !.test = Reading])
    /\ UNCHANGED ticks
ReadLow2 ==
    /\ At("low2")
    /\ QueryStep("high2", [query EXCEPT !.low = Low])
    /\ UNCHANGED ticks

\* Mutant: the readings are not compared.
AcceptedAny == TRUE

Accepted == Reading >= query.test /\ Reading - query.test < Near

ReadHigh2 ==
    /\ At("high2") /\ Accepted
    /\ QueryStep("write", [NoQuery EXCEPT !.pos = Size - Reading])
    /\ ticks' = 0

\* The query goes on; the transfer is too slow to disturb it again.
ReadAgain ==
    /\ At("high2") /\ ~Accepted
    /\ QueryStep("query", NoQuery)
    /\ UNCHANGED ticks

-----------------------------------------------------------------------------
Least(a, b) == IF a < b THEN a ELSE b

\* The buffer after n bytes of the stream are stored from place i on.
Stored(m, i, n, from) ==
    [j \in Places |-> IF j \in i .. i + n - 1 THEN Later(from, j - i) ELSE m[j]]

dma_pos == query.pos - (query.pos % Align)

\* The transfer is ahead in the buffer: fill up to it.
FillAhead ==
    LET cnt == Least(dma_pos - buff_tail, siz)
    IN  /\ mem' = Stored(mem, buff_tail, cnt, next)
        /\ buff_tail' = IF buff_tail + cnt >= Size THEN 0 ELSE buff_tail + cnt
        /\ next' = Later(next, cnt)
        /\ siz' = siz - cnt

\* It has wrapped: fill to the end, and then from the beginning up to it.
FillAround ==
    LET cnt  == Least(Size - buff_tail, siz)
        rest == Least(dma_pos, siz - cnt)
        end  == Stored(mem, buff_tail, cnt, next)
    IN  /\ mem' = Stored(end, 0, rest, Later(next, cnt))
        /\ buff_tail' = IF siz = cnt THEN buff_tail + cnt ELSE rest
        /\ next' = Later(next, cnt + rest)
        /\ siz' = siz - cnt - rest

Write ==
    /\ At("write")
    /\ IF buff_tail = dma_pos THEN UNCHANGED <<mem, buff_tail, next, siz>>
       ELSE IF dma_pos > buff_tail THEN FillAhead
       ELSE FillAround
    /\ LET cnt  == siz - siz'
           lead == (Position - buff_tail + Size) % Size
       IN  ahead' = IF ahead > 0 THEN ahead + cnt
                    ELSE IF cnt > lead THEN cnt - lead ELSE 0
    /\ Goto(IF siz' = 0 THEN "ready" ELSE "query")
    /\ query' = NoQuery
    /\ UNCHANGED <<irqVars, dmaVars, card, dsp, speaker, sb, asked, trial, noise,
                   ticks>>

OnPause ==
    /\ At("ready")
    /\ mem' = [i \in Places |-> Silence]
    /\ UNCHANGED <<sbVars, buff_tail, next, siz, query, ticks, ahead>>

-----------------------------------------------------------------------------
Opening ==
    \/ ReadEnvironment \/ FindPort \/ FindIrq \/ Sight \/ SightTimeout \/ PickIrq
    \/ FindDma \/ TryChannel \/ TrialHit \/ TrialMiss \/ TrialsEnd \/ Detected
    \/ Open \/ AskForBuffer \/ Allocate \/ StartDma \/ StartFailed
Closing == Halt \/ CloseChannel \/ FreeBuffer \/ Close

Playing ==
    ReadLow \/ ReadHigh \/ ReadLow2 \/ ReadHigh2 \/ ReadAgain \/ Write

\* The program's next step: what is left of the call it is in, or a new call.
Program ==
    \/ (Opening \/ Closing) /\ UNCHANGED streamVars
    \/ Playing
    \/ \E n \in FrameSizes : Play(n)
    \/ OnPause

Interrupts == \E l \in Lines : Interrupt(l) /\ UNCHANGED streamVars
Others == \E l \in Lines : OtherDevice(l) /\ UNCHANGED streamVars

Next == Program \/ Interrupts \/ Others \/ (CardAnswers /\ UNCHANGED streamVars) \/ Tick

\* The processor goes on, interrupts are taken, and the card keeps playing.
Fairness ==
    /\ WF_vars(Playing)
    /\ WF_vars((Opening \/ CloseChannel \/ FreeBuffer \/ Close) /\ UNCHANGED streamVars)
    /\ WF_vars(Interrupts)
    /\ WF_vars(CardAnswers /\ UNCHANGED streamVars)
    /\ WF_vars(Tick)

Spec == Init /\ [][Next]_vars /\ Fairness
-----------------------------------------------------------------------------
\* What lies ahead of the card is the end of the stream, in order, or the
\* silence of the start or of a pause, and no byte of it is overwritten: so
\* a program that is in time is heard as it plays, and one that is late is
\* heard in order again once it has caught up (write_sb_output, sb_query_dma).
StreamInOrder ==
    pc = "ready" \/ InPlay =>
        /\ ahead <= Size
        /\ \A k \in 0 .. ahead - 1 :
             mem[(Position + k) % Size]
                 \in {Silence, Later(next, Size + 1 - ahead + k)}

\* The interrupt handler of a card of version 1.x reads the buffer's size:
\* it is not called when there is no buffer (sb_irq, sb_stop_dma).
HandlerSafe ==
    \A l \in Deliverable :
        vector[l] = "sb" /\ sb.ver < SBVER_20 => buffer # NULL

\* What detection says of the line and the channels is so, whatever other
\* devices do meanwhile (__sb_detect).
DetectedAsIs ==
    card # NULL /\ pc \in {"open", "opened"} =>
        /\ sb.irq = card.irq
        /\ sb.dma8 = card.dma8
        /\ sb.ver >= SBVER_16 => sb.dma16 = card.dma16

\* After a failed init and after deinit the machine is as it was: vectors,
\* masks, locks, speaker, DMA channel and DOS memory.
Released ==
    pc \in {"failed", "over"} =>
        /\ \A l \in Lines : vector[l] = "old"
        /\ unmasked \ {Cascade} = Enabled
        /\ locks = 0 /\ blocks = {} /\ buffer = NULL
        /\ ~speaker /\ channel.ch = -1

\* Every call of init(), play() and deinit() returns: detection gives up on a
\* card that does not answer, the position moves and is read in the end, and
\* a card that stops at each half is told to go on (__sb_detect, sb_irq, play).
CallsReturn == []<>(pc \in {"ready", "failed", "over", "wild"})
=============================================================================

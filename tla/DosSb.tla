-------------------------------- MODULE DosSb --------------------------------
(***************************************************************************)
(* The Sound Blaster (dossb.c): finding the card and its resources,        *)
(* opening and closing it, the interrupt handlers, and the card itself.    *)
(* The program runs a step at a time; an interrupt that gets through is    *)
(* taken before its next step, and the card goes on by itself.             *)
(***************************************************************************)
EXTENDS DosIrq, DosDma

CONSTANTS
    Cards,      \* the cards looked for: records of ver, irq, dma8, dma16
    Sightings,  \* interrupts asked for to find the line: 10
    MaxNoise,   \* interrupts of other devices while the line is looked for
    Size        \* bytes of the buffer

ASSUME DosSbAssumption ==
    /\ Cards \subseteq [ver : 1 .. 4, irq : Lines, dma8 : 0 .. 7, dma16 : 0 .. 7]
    /\ Sightings \in Nat /\ MaxNoise \in Nat /\ MaxNoise < Sightings
    /\ Size \in Nat /\ Size > 0 /\ Size % 2 = 0

VARIABLES
    card,       \* the card of this machine, or NULL
    dsp,        \* what the card was told to transfer
    speaker,    \* whether its output is on
    sb,         \* the global structure
    pc,         \* where the program is
    asked,      \* interrupts still to see, those on their way, any seen
    trial,      \* the DMA channel being tried and whether it worked
    noise       \* interrupts of other devices so far

sbVars == <<irqVars, dmaVars, card, dsp, speaker, sb, pc, asked, trial, noise>>

\* Versions 1.x, 2.0, Pro (3.x) and 16 (4.x) differ.
SBVER_20 == 2
SBVER_PRO == 3
SBVER_16 == 4

Half == Size \div 2

Resting == [run |-> "none", todo |-> 0, block |-> 0, wide |-> FALSE]
NoTrial == [wide |-> FALSE, ch |-> 0, next |-> 1, hit |-> FALSE]
UnknownSb == [port |-> FALSE, irq |-> 0, dma8 |-> 0, dma16 |-> 0, ver |-> 0]

SbInit ==
    /\ IrqInit /\ DmaInit
    /\ card \in Cards \cup {NULL}
    /\ dsp = Resting
    /\ speaker = FALSE
    /\ sb = UnknownSb
    /\ pc = "init"
    /\ asked = [left |-> 0, sent |-> 0, any |-> FALSE]
    /\ trial = NoTrial
    /\ noise = 0

-----------------------------------------------------------------------------
\* The card moves a byte when the channel it uses is open.
Channel == IF dsp.wide THEN card.dma16 ELSE card.dma8

CanTransfer ==
    card # NULL /\ dsp.run # "none" /\ dsp.todo > 0 /\ channel.ch = Channel

Transfer ==
    /\ CanTransfer
    /\ channel' = IF channel.left > 1 THEN [channel EXCEPT !.left = @ - 1]
                  ELSE IF channel.auto THEN [channel EXCEPT !.left = Size]
                  ELSE NoChannel
    /\ dsp' = [dsp EXCEPT !.todo =
                  IF @ = 1 /\ dsp.run = "auto" THEN dsp.block ELSE @ - 1]
    /\ request' = IF dsp.todo = 1 THEN request \cup {card.irq} ELSE request

\* Nothing more happens unless the program does something.
Quiet == ~CanTransfer /\ asked.sent = 0 /\ request \cap unmasked = {}

\* Mutant: the command init gave is enough.
ToldByInit == FALSE

\* A card of version 1.x has to be told about each half of the buffer.
MustTell == sb.ver < SBVER_20

\* The handlers: sb_irq takes the size of the half from the buffer.
Interrupt(l) ==
    /\ l \in Deliverable
    /\ request' = request \ {l}
    /\ IF vector[l] = "detect" THEN Counted(l) ELSE UNCHANGED <<count, seen>>
    /\ trial' = [trial EXCEPT !.hit = @ \/ vector[l] = "dmadetect"]
    /\ dsp' = IF vector[l] = "sb" /\ MustTell
              THEN [dsp EXCEPT !.run = "single", !.todo = Half] ELSE dsp
    /\ UNCHANGED <<vector, unmasked, handle, locks, dmaVars, card, speaker,
                   sb, pc, asked, noise>>

\* The answer to SBDSP_GEN_IRQ8.
CardAnswers ==
    /\ asked.sent > 0
    /\ asked' = [asked EXCEPT !.sent = @ - 1]
    /\ request' = request \cup {card.irq}
    /\ UNCHANGED <<vector, unmasked, handle, count, seen, locks, dmaVars,
                   card, dsp, speaker, sb, pc, trial, noise>>

\* Another device interrupts on a line of its own, which is being watched.
OtherDevice(l) ==
    /\ noise < MaxNoise
    /\ l \notin request /\ Through(l) /\ vector[l] = "detect"
    /\ card # NULL => l # card.irq
    /\ noise' = noise + 1
    /\ request' = request \cup {l}
    /\ UNCHANGED <<vector, unmasked, handle, count, seen, locks, dmaVars,
                   card, dsp, speaker, sb, pc, asked, trial>>

-----------------------------------------------------------------------------
At(p) == pc = p /\ Deliverable = {}
Goto(p) == pc' = p

\* What the variable BLASTER says, if it is set and right.
ReadEnvironment ==
    /\ At("init")
    /\ \E port, irq, dma8, dma16 \in BOOLEAN :
         sb' = IF card = NULL THEN sb
               ELSE [sb EXCEPT !.port = port,
                               !.irq = IF irq THEN card.irq ELSE 0,
                               !.dma8 = IF dma8 THEN card.dma8 ELSE 0,
                               !.dma16 = IF dma16 THEN card.dma16 ELSE 0]
    /\ Goto("port")
    /\ UNCHANGED <<irqVars, dmaVars, card, dsp, speaker, asked, trial, noise>>

\* __sb_reset: the card is silent and forgets what it was told.
Reset == dsp' = Resting /\ speaker' = FALSE

\* The ports are tried only if BLASTER does not give one, and only then is
\* the version known from here on.
FindPort ==
    /\ At("port")
    /\ IF sb.port THEN UNCHANGED <<sb, dsp, speaker>> /\ Goto("irq")
       ELSE IF card # NULL
       THEN /\ sb' = [sb EXCEPT !.port = TRUE, !.ver = card.ver]
            /\ Reset /\ Goto("irq")
       ELSE UNCHANGED <<sb, dsp, speaker>> /\ Goto("detected")
    /\ UNCHANGED <<irqVars, dmaVars, card, asked, trial, noise>>

\* Anything may happen: irq_enable(NULL) for a line that cannot be hooked, or
\* the handler reads a handle not yet stored, of an interrupt on a line that
\* was unmasked before its vector was set.
Wild == Goto("wild") /\ UNCHANGED <<irqVars, sb, asked, trial, dsp, speaker>>

FindIrq ==
    /\ At("irq")
    /\ \/ sb.irq # 0 /\ Goto("dma")
          /\ UNCHANGED <<irqVars, sb, asked, trial, dsp, speaker>>
       \/ /\ sb.irq = 0
          /\ DetectStart
          /\ asked' = [left |-> Sightings, sent |-> 1, any |-> FALSE]
          /\ Goto("sight")
          /\ UNCHANGED <<request, sb, trial, dsp, speaker>>
       \/ sb.irq = 0 /\ Wild
    /\ UNCHANGED <<dmaVars, card, noise>>

\* irq_detect_get sees an interrupt of any line, and the card is asked again.
Sight ==
    /\ At("sight") /\ seen # {}
    /\ seen' = {}
    /\ asked' = [left |-> asked.left - 1, any |-> TRUE,
                 sent |-> asked.sent + IF asked.left > 1 THEN 1 ELSE 0]
    /\ Goto(IF asked.left > 1 THEN "sight" ELSE "pick")
    /\ UNCHANGED <<vector, unmasked, handle, request, count, locks, dmaVars,
                   card, dsp, speaker, sb, trial, noise>>

\* Half a second without an answer.
SightTimeout ==
    /\ At("sight") /\ seen = {} /\ Quiet
    /\ Goto("pick")
    /\ UNCHANGED <<irqVars, dmaVars, card, dsp, speaker, sb, asked, trial, noise>>

\* The highest line that was called exactly as often as the card was asked.
\* The counts are not read again.
PickIrq ==
    /\ At("pick")
    /\ sb' = [sb EXCEPT !.irq = IF asked.any THEN LineWith(Sightings) ELSE 0]
    /\ Unhook(Lines)
    /\ Goto(IF sb'.irq = 0 THEN "detected" ELSE "dma")
    /\ count' = [l \in Lines |-> 0] /\ seen' = {}
    /\ asked' = [asked EXCEPT !.left = 0, !.any = FALSE]
    /\ noise' = 0
    /\ UNCHANGED <<request, dmaVars, card, dsp, speaker, trial>>

-----------------------------------------------------------------------------
\* The channels tried for 8 and 16 bit transfers, in this order.
__dma8  == <<0, 1, 3>>
__dma16 == <<5, 6, 7>>

NeedDma8  == sb.dma8 = 0
NeedDma16 == sb.ver >= SBVER_16 /\ sb.dma16 = 0

FindDma ==
    /\ At("dma")
    /\ \/ ~NeedDma8 /\ ~NeedDma16 /\ Goto("detected")
          /\ UNCHANGED <<irqVars, sb, asked, trial, dsp, speaker>>
       \/ /\ NeedDma8 \/ NeedDma16
          /\ Hook({sb.irq}, "dmadetect")
          /\ speaker' = FALSE
          /\ Goto("trial")
          /\ UNCHANGED <<request, count, seen, sb, asked, trial, dsp>>
       \/ (NeedDma8 \/ NeedDma16) /\ Wild
    /\ UNCHANGED <<dmaVars, card, noise>>

\* A transfer of two bytes on the next channel.
TryChannel ==
    /\ At("trial") /\ (NeedDma8 \/ NeedDma16)
    /\ LET wide == ~NeedDma8
           ch   == IF wide THEN __dma16[trial.next] ELSE __dma8[trial.next]
       IN  /\ trial' = [trial EXCEPT !.wide = wide, !.ch = ch, !.hit = FALSE]
           /\ DmaStart(ch, 2, FALSE)
           /\ dsp' = [run |-> "single", todo |-> 2, block |-> 2, wide |-> wide]
    /\ Goto("await")
    /\ UNCHANGED <<irqVars, blocks, alloc, buffer, card, speaker, sb, asked, noise>>

\* It interrupted: the channel is taken down, and kept unless it is 0, which
\* reads as none.
TrialHit ==
    /\ At("await") /\ trial.hit
    /\ DmaDisable
    /\ sb' = IF trial.wide THEN [sb EXCEPT !.dma16 = trial.ch]
             ELSE [sb EXCEPT !.dma8 = trial.ch]
    /\ trial' = NoTrial
    /\ Goto(IF trial.ch = 0 THEN "trialsend" ELSE "trial")
    /\ UNCHANGED <<irqVars, blocks, alloc, buffer, card, dsp, speaker, asked, noise>>

\* It did not within two ticks of the clock.
TrialMiss ==
    /\ At("await") /\ ~trial.hit /\ Quiet
    /\ DmaDisable
    /\ IF trial.next < 3
       THEN trial' = [trial EXCEPT !.next = @ + 1] /\ Goto("trial")
       ELSE trial' = NoTrial /\ Goto("trialsend")
    /\ UNCHANGED <<irqVars, blocks, alloc, buffer, card, dsp, speaker, sb, asked, noise>>

TrialsEnd ==
    /\ At("trialsend") \/ (At("trial") /\ ~NeedDma8 /\ ~NeedDma16)
    /\ Unhook({sb.irq})
    /\ Goto("detected")
    /\ UNCHANGED <<request, count, seen, dmaVars, card, dsp, speaker, sb,
                   asked, trial, noise>>

\* The rest of sb_detect; sb_open gives up if anything is missing.
Detected ==
    /\ At("detected")
    /\ IF sb.port /\ sb.irq # 0 /\ sb.dma8 # 0
       THEN /\ Reset
            /\ sb' = [sb EXCEPT !.ver = card.ver]
            /\ Goto(IF card.ver >= SBVER_16 /\ sb.dma16 = 0 THEN "failed" ELSE "open")
       ELSE Goto("failed") /\ UNCHANGED <<sb, dsp, speaker>>
    /\ UNCHANGED <<irqVars, dmaVars, card, asked, trial, noise>>

\* The structure and the handler are locked, the line hooked and unmasked; one
\* that was unmasked may interrupt before the handle is stored.
Open ==
    /\ At("open")
    /\ \/ /\ Hook({sb.irq}, "sb")
          /\ Goto("opened")
       \/ Goto("failed") /\ UNCHANGED <<vector, unmasked, handle, locks>>
       \/ sb.irq \in unmasked /\ Wild
    /\ UNCHANGED <<request, count, seen, dmaVars, card, dsp, speaker, sb,
                   asked, trial, noise>>

Wide   == sb.ver >= SBVER_16
MyDma  == IF Wide THEN sb.dma16 ELSE sb.dma8

\* sb_output(TRUE), and sb_start_dma as far as the buffer.
AskForBuffer ==
    /\ At("opened")
    /\ speaker' = TRUE
    /\ DmaAllocate(MyDma)
    /\ Goto("starting")
    /\ UNCHANGED <<irqVars, card, dsp, sb, asked, trial, noise>>

Allocate ==
    /\ At("starting")
    /\ AllocateStep
    /\ UNCHANGED <<irqVars, card, dsp, speaker, sb, pc, asked, trial, noise>>

\* The cyclic transfer: the card interrupts at each half of the buffer.
StartDma ==
    /\ At("starting") /\ buffer # NULL
    /\ DmaStart(buffer.ch, Size, TRUE)
    /\ dsp' = [run |-> IF sb.ver >= SBVER_20 THEN "auto" ELSE "single",
               todo |-> Half, block |-> Half, wide |-> Wide]
    /\ Goto("ready")
    /\ UNCHANGED <<irqVars, blocks, alloc, buffer, card, speaker, sb, asked,
                   trial, noise>>

\* No buffer: init turns the output off and closes the card.
StartFailed ==
    /\ At("starting") /\ alloc.pc = "idle" /\ buffer = NULL
    /\ speaker' = FALSE
    /\ Unhook({sb.irq})
    /\ Goto("failed")
    /\ UNCHANGED <<request, count, seen, dmaVars, card, dsp, sb, asked, trial, noise>>

\* deinit: the halt reaches the card at once or not before its channel is
\* closed; then the buffer goes, and then the handler.
Halt ==
    /\ At("ready")
    /\ speaker' = FALSE
    /\ \/ dsp' = [dsp EXCEPT !.run = "none"]
       \/ UNCHANGED dsp
    /\ Goto("halted")
    /\ UNCHANGED <<irqVars, dmaVars, card, sb, asked, trial, noise>>

\* Mutant: the channel stays open.
CloseChannelNot ==
    /\ At("halted")
    /\ Goto("disabled")
    /\ UNCHANGED <<irqVars, dmaVars, card, dsp, speaker, sb, asked, trial, noise>>

CloseChannel ==
    /\ At("halted")
    /\ DmaDisable
    /\ Goto("disabled")
    /\ UNCHANGED <<irqVars, blocks, alloc, buffer, card, dsp, speaker, sb,
                   asked, trial, noise>>

FreeBuffer ==
    /\ At("disabled")
    /\ DmaFree
    /\ Goto("closing")
    /\ UNCHANGED <<irqVars, alloc, channel, card, dsp, speaker, sb, asked, trial, noise>>

Close ==
    /\ At("closing")
    /\ Unhook({sb.irq})
    /\ Goto("over")
    /\ UNCHANGED <<request, count, seen, dmaVars, card, dsp, speaker, sb,
                   asked, trial, noise>>
=============================================================================

--------------------------- MODULE SoundSbProofs ---------------------------
(***************************************************************************)
(* Proofs about the Sound Blaster driver, for every card, set of lines,    *)
(* size of memory, page, buffer and frame, and number of sightings.        *)
(***************************************************************************)
EXTENDS SoundSb, Numbers, FiniteSetTheorems, TLAPS

-----------------------------------------------------------------------------
(* What holds at each place of the program                                 *)

Running == {"ready", "query", "high", "low2", "high2", "write"}

\* init() has got its buffer and deinit() has not freed it.
Holding == Running \cup {"halted", "disabled"}

SbTypes ==
    /\ card \in Cards \cup {NULL}
    /\ sb \in [port : BOOLEAN, irq : Nat, dma8 : Nat, dma16 : Nat, ver : Nat]
    /\ trial \in [wide : BOOLEAN, ch : Nat, next : 1 .. 3, hit : BOOLEAN]
    /\ asked \in [left : Int, sent : Nat, any : BOOLEAN]
    /\ channel \in [ch : Int, left : Int, auto : BOOLEAN]
    /\ dsp \in [run : {"none", "single", "auto"}, todo : Int, block : Int,
                wide : BOOLEAN]
    /\ count \in [Lines -> Nat] /\ seen \subseteq Lines /\ request \subseteq Lines
    /\ noise \in 0 .. MaxNoise /\ speaker \in BOOLEAN

AllocType == [pc : {"idle", "try", "found"}, selector : BlockType \cup {NULL},
              bound : Nat, count : Int, size : Int, ch : Nat]

\* Page bounds are multiples of the page; dma_allocate and then the buffer own
\* the only block of DOS memory there is.
OnBound(p, ch) == \E k \in Nat : p = PageOf(ch) * k

DmaInv ==
    /\ alloc \in AllocType
    /\ buffer \in BufferType \cup {NULL}
    /\ alloc.pc = "found" => alloc.selector \in BlockType /\ OnBound(alloc.bound, alloc.ch)
    /\ alloc.pc # "idle" => buffer = NULL /\ blocks \subseteq {alloc.selector}
    /\ alloc.pc = "idle" /\ buffer = NULL => blocks = {}
    /\ buffer # NULL =>
         /\ alloc.pc = "idle" /\ blocks \subseteq {buffer.selector}
         /\ OnBound(buffer.par, buffer.ch)

\* Only init() from the start of the transfer on and deinit() have a buffer.
BufferInv ==
    /\ alloc.pc # "idle" => pc = "starting"
    /\ buffer # NULL => pc \in Holding \cup {"starting"}
    /\ pc \in Holding => buffer # NULL

\* The handler of the lines that are hooked, and these lines.
Handler == CASE pc \in {"sight", "pick"} -> "detect"
             [] pc \in {"trial", "await", "trialsend"} -> "dmadetect"
             [] pc \in Holding \cup {"opened", "starting", "closing"} -> "sb"
             [] OTHER -> "old"
Taken == CASE Handler = "detect" -> Lines
           [] Handler \in {"dmadetect", "sb"} -> {sb.irq}
           [] OTHER -> {}

\* What irq_hook saved puts everything back as it was.
LinesInv ==
    /\ vector = [l \in Lines |-> IF l \in Taken THEN Handler ELSE "old"]
    /\ handle = [l \in Lines |-> IF l \in Taken
                    THEN [vector |-> "old", on |-> l \in Enabled] ELSE Unhooked]
    /\ unmasked \ {Cascade} = Enabled \cup Taken
    /\ (\E l \in Taken : l > 7) => Cascade \in unmasked
    /\ locks = 2 * Cardinality(Taken)

\* The places where the line of the card is known, and all that is.
Known == Holding \cup {"open", "opened", "starting", "closing"}
LineKnown == Known \cup {"dma", "trial", "await", "trialsend", "over"}

CardInv ==
    /\ sb.port \/ asked.sent > 0 => card # NULL
    /\ card = NULL => sb.irq = 0
    /\ card # NULL =>
         /\ sb.irq \in {0, card.irq} /\ sb.ver \in {0, card.ver}
         /\ sb.dma8 \in {0, card.dma8} /\ sb.dma16 \in {0, card.dma16}
    /\ pc \in LineKnown \cup {"irq", "sight", "pick"} => sb.port
    /\ pc \in LineKnown => sb.irq = card.irq
    /\ pc \in Known => /\ sb.dma8 = card.dma8
                       /\ sb.ver >= SBVER_16 => sb.dma16 = card.dma16

\* The places where no interrupt is on its way: nothing has been asked of the
\* card, or its channel is closed and all it sent was taken.
Asking == {"sight", "pick", "failed", "wild"}
Transferring == Running \cup {"await", "halted"}

QuietInv ==
    /\ pc \notin Asking /\ (pc = "detected" => sb.irq # 0) =>
         /\ asked.sent = 0
         /\ request \subseteq {sb.irq}
         /\ pc \notin Transferring => request = {}
    /\ pc \notin Transferring => channel = NoChannel
    /\ speaker => pc \in Running \cup {"starting"}
    /\ pc \in {"init", "port", "irq"} => noise = 0

\* While the line is looked for: another line was called no more often than
\* other devices interrupted, and the card's no more often than it was asked.
One(l) == IF l \in request THEN 1 ELSE 0
CountInv ==
    pc \in {"sight", "pick"} =>
        /\ \A l \in Lines : l # card.irq => count[l] + One(l) <= noise
        /\ count[card.irq] + One(card.irq) + asked.sent
             <= IF asked.left > 0 THEN Sightings - asked.left + 1 ELSE Sightings
        /\ asked.left >= 0 /\ (pc = "sight" => asked.left > 0)

\* An interrupt during the trial of a channel means that it is the card's.
TrialInv ==
    pc = "await" =>
        /\ channel.ch \in {-1, trial.ch}
        /\ dsp.wide = trial.wide
        /\ trial.hit \/ request # {} => trial.ch = Channel

SbInv ==
    /\ SbTypes /\ DmaInv /\ BufferInv /\ LinesInv /\ CardInv /\ QuietInv
    /\ CountInv /\ TrialInv

-----------------------------------------------------------------------------
(* The buffer                                                              *)

\* A buffer that starts at a page bound and is no longer than a page ends in
\* the same page.
LEMMA WithinPage ==
    ASSUME NEW page \in Nat \ {0}, NEW k \in Nat, NEW n \in 1 .. page
    PROVE  (page * k) \div page = (page * k + n - 1) \div page
<1>1. page * k \in Nat /\ n - 1 \in 0 .. page - 1
  OBVIOUS
<1>2. ASSUME NEW r \in 0 .. page - 1
      PROVE  (page * k + r) \div page = k
  OBVIOUS
<1>3. page * k + 0 = page * k /\ page * k + n - 1 = page * k + (n - 1)
  BY <1>1
<1>4. 0 \in 0 .. page - 1
  OBVIOUS
<1> QED
  BY <1>1, <1>2, <1>3, <1>4

\* dma_allocate holds one block at most, and what it finds is a page bound.
LEMMA AllocateKeeps ==
    ASSUME DmaInv, AllocateStep
    PROVE  DmaInv' /\ (buffer' # NULL => alloc.pc = "found")
<1>1. /\ alloc \in AllocType /\ alloc.pc \in {"try", "found"}
      /\ buffer = NULL /\ blocks \subseteq {alloc.selector}
  BY DEF DmaInv, AllocType, AllocateStep, Resize, Reallocate, OutOfMemory, Found, NotLocked
<1>2. NoAlloc \in AllocType /\ NoAlloc.pc = "idle"
  BY DosDmaAssumption DEF NoAlloc, AllocType
<1>3. PageOf(alloc.ch) \in Nat \ {0}
  BY DosDmaAssumption DEF PageOf
<1>4. ASSUME NEW b \in BlockType, Judge(b), UNCHANGED buffer
      PROVE  DmaInv' /\ buffer' = NULL
  <2> DEFINE page == PageOf(alloc.ch)
             bound == Bound(b.par, page)
  <2>1. bound \in Nat /\ OnBound(bound, alloc.ch)
    <3>1. PICK k \in Nat : k = b.par \div page + 1
      BY <1>3 DEF BlockType
    <3>2. bound = page * k /\ page * k \in Nat
      BY <1>3, <3>1 DEF Bound
    <3> QED
      BY <3>1, <3>2 DEF OnBound
  <2> HIDE DEF bound
  <2>2. \/ /\ alloc'.pc \in {"found", "try"} /\ alloc'.selector = b
           /\ alloc' \in AllocType /\ alloc'.bound = bound /\ alloc'.ch = alloc.ch
           /\ blocks' = (blocks \ {alloc.selector}) \cup {b}
        \/ alloc' = NoAlloc /\ blocks' = blocks \ {alloc.selector}
    <3> DEFINE good == b.par + ParSize <= bound \/ bound + ParSize <= b.par + b.size
    <3>1. CASE ~(good \/ alloc.count > 1)
      BY <1>4, <3>1 DEF Judge, bound
    <3>2. CASE good \/ alloc.count > 1
      <4>1. PICK place \in {"found", "try"}, n \in Int :
              alloc' = [alloc EXCEPT !.pc = place, !.selector = b, !.bound = bound,
                                     !.size = b.size, !.count = n]
        <5>1. alloc.count \in Int /\ alloc.count - 1 \in Int
          BY <1>1 DEF AllocType
        <5> QED
          BY <1>4, <3>2, <5>1 DEF Judge, bound
      <4>2. blocks' = (blocks \ {alloc.selector}) \cup {b}
        BY <1>4, <3>2 DEF Judge, bound
      <4>3. b.size \in Int
        BY DEF BlockType
      <4> QED
        BY <1>1, <2>1, <4>1, <4>2, <4>3 DEF AllocType
    <3> QED
      BY <3>1, <3>2
  <2>3. CASE alloc' = NoAlloc /\ blocks' = blocks \ {alloc.selector}
    BY <1>1, <1>2, <1>4, <2>3 DEF DmaInv
  <2>4. CASE /\ alloc'.pc \in {"found", "try"} /\ alloc'.selector = b
             /\ alloc' \in AllocType /\ alloc'.bound = bound /\ alloc'.ch = alloc.ch
             /\ blocks' = (blocks \ {alloc.selector}) \cup {b}
    BY <1>1, <1>4, <2>1, <2>4 DEF DmaInv, OnBound
  <2> QED
    BY <2>2, <2>3, <2>4
<1>5. CASE Resize
  <2>1. alloc.selector \in BlockType
    BY <1>1, <1>5 DEF Resize, AllocType
  <2>2. Block(alloc.selector.par, MaxSize) \in BlockType
    BY <1>1, <2>1, DosDmaAssumption DEF Block, BlockType, MaxSize, AllocType
  <2> QED
    BY <1>4, <1>5, <2>2 DEF Resize
<1>6. CASE Reallocate
  <2>1. PICK p \in 1 .. Memory : Judge(Block(p, NewSize)) /\ UNCHANGED buffer
    BY <1>6 DEF Reallocate
  <2>2. MaxSize \in Int \/ alloc.selector = NULL
    BY <1>1, DosDmaAssumption DEF MaxSize, AllocType, BlockType
  <2>3. Block(p, NewSize) \in BlockType
    BY <1>1, <2>2, DosDmaAssumption DEF Block, BlockType, NewSize, AllocType
  <2> QED
    BY <1>4, <2>1, <2>3
<1>7. CASE OutOfMemory \/ NotLocked
  BY <1>1, <1>2, <1>7 DEF OutOfMemory, NotLocked, DmaInv
<1>8. CASE Found
  <2>1. /\ alloc.pc = "found" /\ alloc.selector \in BlockType
        /\ OnBound(alloc.bound, alloc.ch) /\ UNCHANGED blocks /\ alloc' = NoAlloc
        /\ buffer' = [par |-> alloc.bound, size |-> ParSize,
                      selector |-> alloc.selector, ch |-> alloc.ch]
    BY <1>8 DEF Found, DmaInv
  <2>2. buffer' \in BufferType /\ buffer' # NULL
    BY <1>1, <2>1, DosDmaAssumption DEF BufferType, AllocType
  <2> QED
    BY <1>1, <1>2, <2>1, <2>2 DEF DmaInv, OnBound
<1> QED
  BY <1>5, <1>6, <1>7, <1>8 DEF AllocateStep

-----------------------------------------------------------------------------
(* A step keeps the invariant                                              *)

\* A step keeps the invariant: each place of the program leaves the machine, the
\* counts and the memory as the next one expects them.
LEMMA SbStep == SbInv /\ [Next]_vars => SbInv'
<1> SUFFICES ASSUME SbInv, [Next]_vars PROVE SbInv'
  OBVIOUS
<1>1. /\ SbTypes /\ DmaInv /\ BufferInv /\ LinesInv /\ CardInv /\ QuietInv
      /\ CountInv /\ TrialInv
  BY DEF SbInv
<1>2. /\ Lines \subseteq 3 .. 15 /\ Enabled \subseteq Lines
      /\ card # NULL => /\ card.irq \in Lines /\ card.irq \in Nat /\ card.ver \in Nat
                        /\ card.dma8 \in Nat /\ card.dma16 \in Nat
      /\ Sightings \in Nat /\ MaxNoise \in Nat /\ MaxNoise < Sightings
      /\ Size \in Nat \ {0} /\ Half \in Int
  <2>1. ASSUME card # NULL
        PROVE  card \in [ver : 1 .. 4, irq : Lines, dma8 : 0 .. 7, dma16 : 0 .. 7]
    BY <1>1, <2>1, DosSbAssumption DEF SbTypes
  <2>2. Lines \subseteq 3 .. 15
    BY DosIrqAssumption
  <2>3. ASSUME card # NULL
        PROVE  /\ card.irq \in Lines /\ card.irq \in Nat /\ card.ver \in Nat
               /\ card.dma8 \in Nat /\ card.dma16 \in Nat
    <3>1. card \in [ver : 1 .. 4, irq : Lines, dma8 : 0 .. 7, dma16 : 0 .. 7]
      BY <2>1, <2>3
    <3>2. card.irq \in Lines /\ card.ver \in 1 .. 4 /\ card.dma8 \in 0 .. 7 /\ card.dma16 \in 0 .. 7
      BY <3>1
    <3>3. card.irq \in 3 .. 15
      BY <2>2, <3>2
    <3>4. card.irq \in Nat /\ card.ver \in Nat /\ card.dma8 \in Nat /\ card.dma16 \in Nat
      BY <3>2, <3>3
    <3> QED
      BY <3>2, <3>4
  <2>4. Half \in Int
    BY DosSbAssumption DEF Half
  <2> QED
    BY <2>3, <2>4, DosIrqAssumption, DosSbAssumption
<1>3. /\ Cardinality({}) = 0 /\ Cardinality(Lines) \in Nat
      /\ Cardinality({sb.irq}) = 1
  <2>1. IsFiniteSet(Lines)
    <3>1. 3 \in Int /\ 15 \in Int
      OBVIOUS
    <3>2. IsFiniteSet(3 .. 15)
      BY <3>1, FS_Interval
    <3>3. Lines \in SUBSET (3 .. 15)
      BY <1>2
    <3> QED
      BY <3>2, <3>3, FS_Subset
  <2> QED
    BY <2>1, FS_CardinalityType, FS_EmptySet, FS_Singleton
<1>4. ASSUME UNCHANGED <<blocks, alloc, buffer>>
      PROVE  DmaInv'
  BY <1>1, <1>4 DEF DmaInv, OnBound
<1>5. ASSUME UNCHANGED <<alloc, buffer>>,
             \/ (pc' = "starting" <=> pc = "starting") /\ (pc' \in Holding <=> pc \in Holding)
             \/ pc \notin Holding \cup {"starting"} /\ pc' \notin Holding
      PROVE  BufferInv'
  BY <1>1, <1>5 DEF BufferInv
<1>6. ASSUME UNCHANGED <<vector, handle, unmasked, locks>>, Handler' = Handler, Taken' = Taken
      PROVE  LinesInv'
  BY <1>1, <1>6 DEF LinesInv
<1>7. ASSUME NEW ls \in {Lines, {sb.irq}}, NEW h \in {"detect", "dmadetect", "sb"},
             ls \subseteq Lines, Hook(ls, h), Handler = "old", Handler' = h, Taken' = ls
      PROVE  LinesInv'
  <2>1. /\ vector = [l \in Lines |-> "old"] /\ handle = [l \in Lines |-> Unhooked]
        /\ unmasked \ {Cascade} = Enabled /\ locks = 0
    BY <1>1, <1>3, <1>7 DEF LinesInv, Taken
  <2>2. Cardinality(ls) \in Nat
    BY <1>3, <1>7
  <2>3. Cascade \notin ls /\ Cascade \notin Enabled
    BY <1>2, <1>7 DEF Cascade
  <2>4. /\ vector' = [l \in Lines |-> IF l \in ls THEN h ELSE "old"]
        /\ handle' = [l \in Lines |-> IF l \in ls
                         THEN [vector |-> "old", on |-> l \in Enabled] ELSE Unhooked]
    <3>1. \A l \in ls : l \in unmasked <=> l \in Enabled
      BY <2>1, <2>3
    <3> QED
      BY <1>7, <2>1, <3>1 DEF Hook
  <2>5. /\ unmasked' \ {Cascade} = Enabled \cup ls
        /\ (\E l \in ls : l > 7) => Cascade \in unmasked'
    BY <1>7, <2>1, <2>3 DEF Hook, CascadeFor
  <2>6. locks' = 2 * Cardinality(ls)
    BY <1>7, <2>1, <2>2 DEF Hook
  <2> QED
    BY <1>7, <2>4, <2>5, <2>6 DEF LinesInv
<1>8. ASSUME Taken \in {Lines, {sb.irq}}, Taken \subseteq Lines, Unhook(Taken), Handler' = "old"
      PROVE  LinesInv'
  <2>1. Taken' = {}
    BY <1>8 DEF Taken
  <2>2. Cardinality(Taken) \in Nat /\ locks = 2 * Cardinality(Taken)
    BY <1>1, <1>3, <1>8 DEF LinesInv
  <2>3. locks' = 0
    BY <1>8, <2>2 DEF Unhook
  <2>4. /\ vector' = [l \in Lines |-> "old"] /\ handle' = [l \in Lines |-> Unhooked]
    BY <1>1, <1>8 DEF Unhook, LinesInv
  <2>5. unmasked' \ {Cascade} = Enabled
    <3>1. \A l \in Taken : handle[l].on <=> l \in Enabled
      BY <1>1, <1>8 DEF LinesInv
    <3>2. unmasked' = {l \in unmasked : l \in Taken => handle[l].on}
      BY <1>8 DEF Unhook
    <3>3. unmasked \ {Cascade} = Enabled \cup Taken /\ Cascade \notin Enabled
      BY <1>1, <1>2 DEF LinesInv, Cascade
    <3> QED
      BY <3>1, <3>2, <3>3
  <2> QED
    BY <1>3, <1>8, <2>1, <2>3, <2>4, <2>5 DEF LinesInv
<1>9. ASSUME Deliverable = {}, request \subseteq Taken
      PROVE  request = {}
  BY <1>1, <1>2, <1>9 DEF Deliverable, Through, LinesInv, Cascade
<1>10. ASSUME UNCHANGED sbVars PROVE SbInv'
  BY <1>10 DEF SbInv, sbVars, irqVars, dmaVars, SbTypes, DmaInv, OnBound, BufferInv, LinesInv,
     Handler, Taken, CardInv, QuietInv, CountInv, One, TrialInv, Channel
<1>11. CASE UNCHANGED vars \/ OnPause
  BY <1>10, <1>11 DEF vars, OnPause
<1>12. CASE Playing \/ \E n \in FrameSizes : Play(n)
  <2>1. /\ UNCHANGED <<irqVars, dmaVars, card, dsp, speaker, sb, asked, trial, noise>>
        /\ pc \in Running /\ pc' \in Running
    BY <1>12 DEF Playing, Play, ReadLow, ReadHigh, ReadLow2, ReadHigh2, ReadAgain, Write,
       QueryStep, At, Goto, Running
  <2>2. SbTypes' /\ DmaInv'
    BY <1>1, <1>4, <2>1 DEF SbTypes, irqVars, dmaVars
  <2>3. /\ Handler = "sb" /\ Handler' = "sb" /\ pc \in Holding /\ pc' \in Holding
        /\ pc # "starting" /\ pc' # "starting"
    BY <2>1 DEF Handler, Running, Holding
  <2>4. BufferInv' /\ LinesInv'
    BY <1>5, <1>6, <2>1, <2>3 DEF Taken, irqVars, dmaVars
  <2>5. CardInv' /\ QuietInv'
    BY <1>1, <2>1, <2>3 DEF CardInv, QuietInv, irqVars, dmaVars, LineKnown, Known, Running,
       Asking, Transferring
  <2>6. CountInv' /\ TrialInv'
    BY <2>1 DEF CountInv, TrialInv, Running
  <2> QED
    BY <2>2, <2>4, <2>5, <2>6 DEF SbInv
<1>13. ASSUME NEW l \in Lines, Interrupt(l)
       PROVE  SbInv'
  <2>1. /\ UNCHANGED <<vector, unmasked, handle, locks, dmaVars, card, speaker, sb, pc,
                       asked, noise>>
        /\ l \in request /\ request' = request \ {l}
    BY <1>13 DEF Interrupt, Deliverable
  <2>2. /\ count' = IF vector[l] = "detect" THEN [count EXCEPT ![l] = @ + 1] ELSE count
        /\ seen' \subseteq Lines
    BY <1>1, <1>13 DEF Interrupt, Counted, SbTypes
  <2>3. SbTypes'
    <3>1. trial' \in [wide : BOOLEAN, ch : Nat, next : 1 .. 3, hit : BOOLEAN]
      BY <1>1, <1>13 DEF Interrupt, SbTypes
    <3>2. dsp' \in [run : {"none", "single", "auto"}, todo : Int, block : Int, wide : BOOLEAN]
      BY <1>1, <1>2, <1>13 DEF Interrupt, SbTypes
    <3>3. count' \in [Lines -> Nat]
      BY <1>1, <2>2 DEF SbTypes
    <3> QED
      BY <1>1, <2>1, <2>2, <3>1, <3>2, <3>3 DEF SbTypes, dmaVars
  <2>4. DmaInv' /\ BufferInv' /\ LinesInv'
    BY <1>4, <1>5, <1>6, <2>1 DEF dmaVars, Handler, Taken
  <2>5. CardInv' /\ QuietInv'
    BY <1>1, <2>1 DEF CardInv, QuietInv, dmaVars
  <2>6. CountInv'
    <3>1. ASSUME pc \in {"sight", "pick"}
          PROVE  /\ count' = [count EXCEPT ![l] = @ + 1]
                 /\ \A k \in Lines : count'[k] + One(k)' <= count[k] + One(k)
                 /\ card.irq \in Lines
      <4>1. Handler = "detect" /\ Taken = Lines
        BY <3>1 DEF Handler, Taken, Holding, Running
      <4>2. vector[l] = "detect"
        BY <1>1, <4>1 DEF LinesInv
      <4>3. card.irq \in Lines
        BY <1>1, <1>2, <3>1 DEF CardInv
      <4> QED
        BY <1>1, <2>1, <2>2, <4>2, <4>3 DEF One, SbTypes
    <3>2. ASSUME pc \in {"sight", "pick"}, NEW k \in Lines
          PROVE  count[k] \in Int /\ count'[k] \in Int /\ One(k) \in Int /\ One(k)' \in Int
      BY <1>1, <2>3 DEF SbTypes, One
    <3>3. UNCHANGED <<pc, card, noise, asked>> /\ asked.sent \in Nat /\ asked.left \in Int
          /\ noise \in Int
      BY <1>1, <2>1 DEF SbTypes
    <3>4. ASSUME pc \in {"sight", "pick"}, NEW k \in Lines, k # card.irq
          PROVE  count'[k] + One(k)' <= noise
      BY <1>1, <3>1, <3>2, <3>3, <3>4 DEF CountInv
    <3>5. ASSUME pc \in {"sight", "pick"}
          PROVE  count'[card.irq] + One(card.irq)' + asked.sent
                   <= IF asked.left > 0 THEN Sightings - asked.left + 1 ELSE Sightings
      <4>1. PICK k \in Lines : k = card.irq
        BY <3>1, <3>5
      <4> QED
        BY <1>1, <1>2, <3>1, <3>2, <3>3, <3>5, <4>1 DEF CountInv
    <3> QED
      BY <1>1, <3>3, <3>4, <3>5 DEF CountInv, One
  <2>7. TrialInv'
    <3>1. ASSUME pc = "await"
          PROVE  dsp'.wide = dsp.wide /\ trial'.wide = trial.wide /\ trial'.ch = trial.ch
      BY <1>1, <1>13 DEF Interrupt, SbTypes
    <3> QED
      BY <1>1, <2>1, <3>1 DEF TrialInv, Channel, dmaVars
  <2> QED
    BY <2>3, <2>4, <2>5, <2>6, <2>7 DEF SbInv
<1>14. ASSUME NEW l \in Lines, OtherDevice(l)
       PROVE  SbInv'
  <2>1. /\ UNCHANGED <<vector, unmasked, handle, count, seen, locks, dmaVars, card, dsp,
                       speaker, sb, pc, asked, trial>>
        /\ l \notin request /\ request' = request \cup {l} /\ vector[l] = "detect"
        /\ noise < MaxNoise /\ noise' = noise + 1 /\ (card # NULL => l # card.irq)
    BY <1>14 DEF OtherDevice
  <2>2. pc \in {"sight", "pick"} /\ card # NULL /\ l # card.irq
    <3>1. Handler = "detect"
      BY <1>1, <2>1 DEF LinesInv
    <3>2. pc \in {"sight", "pick"}
      BY <3>1 DEF Handler
    <3> QED
      BY <1>1, <2>1, <3>2 DEF CardInv
  <2>3. SbTypes'
    BY <1>1, <1>2, <2>1 DEF SbTypes, dmaVars
  <2>4. DmaInv' /\ BufferInv' /\ LinesInv'
    BY <1>4, <1>5, <1>6, <2>1 DEF dmaVars, Handler, Taken
  <2>5. CardInv' /\ QuietInv'
    BY <1>1, <2>1, <2>2 DEF CardInv, QuietInv, dmaVars, Asking, Transferring, Running
  <2>6. CountInv'
    <3>1. /\ \A k \in Lines : k # l => One(k)' = One(k)
          /\ One(l) = 0 /\ One(l)' = 1
      BY <2>1 DEF One
    <3>2. \A k \in Lines : count[k] \in Int /\ One(k) \in Int
      BY <1>1 DEF SbTypes, One
    <3>3. card.irq \in Lines /\ noise \in Int
      BY <1>1, <1>2, <2>2 DEF SbTypes
    <3>4. \A k \in Lines : k # card.irq => count[k] + One(k)' <= noise'
      BY <1>1, <2>1, <2>2, <3>1, <3>2, <3>3 DEF CountInv
    <3>5. One(card.irq)' = One(card.irq)
      BY <2>1, <2>2, <3>3 DEF One
    <3> QED
      BY <1>1, <2>1, <2>2, <3>4, <3>5 DEF CountInv, One
  <2>7. TrialInv'
    BY <2>1, <2>2 DEF TrialInv
  <2> QED
    BY <2>3, <2>4, <2>5, <2>6, <2>7 DEF SbInv
<1>15. CASE CardAnswers /\ UNCHANGED streamVars
  <2>1. /\ UNCHANGED <<vector, unmasked, handle, count, seen, locks, dmaVars, card, dsp,
                       speaker, sb, pc, trial, noise>>
        /\ asked.sent > 0 /\ asked' = [asked EXCEPT !.sent = @ - 1]
        /\ request' = request \cup {card.irq}
    BY <1>15 DEF CardAnswers
  <2>2. /\ card # NULL /\ card.irq \in Lines
        /\ pc \in Asking \/ (pc = "detected" /\ sb.irq = 0)
        /\ asked'.sent = asked.sent - 1 /\ asked'.left = asked.left
        /\ asked.sent \in Nat
    BY <1>1, <1>2, <2>1 DEF CardInv, QuietInv, SbTypes
  <2>3. SbTypes'
    BY <1>1, <1>2, <2>1, <2>2 DEF SbTypes, dmaVars
  <2>4. DmaInv' /\ BufferInv' /\ LinesInv'
    BY <1>4, <1>5, <1>6, <2>1 DEF dmaVars, Handler, Taken
  <2>5. CardInv' /\ QuietInv'
    <3>1. asked'.sent > 0 => card # NULL
      BY <2>2
    <3>2. pc \in Asking \/ (pc = "detected" /\ sb.irq = 0)
      BY <2>2
    <3>3. UNCHANGED <<pc, sb, card, channel, speaker, noise>>
      BY <2>1 DEF dmaVars
    <3> QED
      BY <1>1, <3>1, <3>2, <3>3 DEF CardInv, QuietInv
  <2>6. CountInv'
    <3>1. \A k \in Lines : k # card.irq => One(k)' = One(k)
      BY <2>1 DEF One
    <3>2. \A k \in Lines : count[k] \in Int /\ One(k) \in {0, 1} /\ One(k)' \in {0, 1}
      BY <1>1 DEF SbTypes, One
    <3>3. UNCHANGED <<pc, card, noise, count>> /\ asked.left \in Int
      BY <1>1, <2>1 DEF SbTypes
    <3>4. One(card.irq)' + asked'.sent <= One(card.irq) + asked.sent
      BY <2>2, <3>3 DEF One
    <3>5. ASSUME pc \in {"sight", "pick"}
          PROVE  count[card.irq] + One(card.irq)' + asked'.sent
                   <= IF asked.left > 0 THEN Sightings - asked.left + 1 ELSE Sightings
      <4>1. PICK a \in Int : a = One(card.irq)' + asked'.sent
        BY <2>2, <3>3 DEF One
      <4>2. PICK b \in Int : b = One(card.irq) + asked.sent
        BY <2>2 DEF One
      <4>3. PICK n \in Int : n = count[card.irq]
        BY <2>2, <3>2
      <4>4. n + b <= IF asked.left > 0 THEN Sightings - asked.left + 1 ELSE Sightings
        BY <1>1, <2>2, <3>5, <4>2, <4>3 DEF CountInv, One
      <4>5. n + a = count[card.irq] + One(card.irq)' + asked'.sent
        BY <2>2, <3>3, <4>1, <4>3 DEF One
      <4>6. n + a <= IF asked.left > 0 THEN Sightings - asked.left + 1 ELSE Sightings
        BY <1>2, <3>3, <3>4, <4>1, <4>2, <4>4
      <4> QED
        BY <4>5, <4>6
    <3> QED
      BY <1>1, <2>2, <3>1, <3>3, <3>5 DEF CountInv, One
  <2>7. TrialInv'
    BY <2>1, <2>2 DEF TrialInv, Asking
  <2> QED
    BY <2>3, <2>4, <2>5, <2>6, <2>7 DEF SbInv
<1>16. CASE Tick
  <2>1. /\ Transfer
        /\ UNCHANGED <<vector, unmasked, handle, count, seen, locks, blocks, alloc, buffer,
                       card, speaker, sb, pc, asked, trial, noise>>
    BY <1>16 DEF Tick
  <2>2. card # NULL /\ channel.ch = Channel /\ Channel \in Nat
    BY <1>1, <1>2, <2>1 DEF Transfer, CanTransfer, Channel
  <2>3. pc \in Transferring /\ pc \in LineKnown /\ sb.irq = card.irq
    <3>1. pc \in Transferring
      BY <1>1, <2>2 DEF QuietInv, NoChannel
    <3> QED
      BY <1>1, <3>1 DEF CardInv, Transferring, LineKnown, Known, Holding
  <2>4. /\ channel' \in [ch : Int, left : Int, auto : BOOLEAN]
        /\ channel'.ch \in {channel.ch, -1}
    BY <1>1, <1>2, <2>1 DEF Transfer, SbTypes, NoChannel
  <2>5. /\ dsp' \in [run : {"none", "single", "auto"}, todo : Int, block : Int, wide : BOOLEAN]
        /\ dsp'.wide = dsp.wide
    BY <1>1, <2>1 DEF Transfer, SbTypes
  <2>6. request' \in {request, request \cup {card.irq}} /\ card.irq \in Lines
    BY <1>2, <2>1, <2>2 DEF Transfer
  <2>7. SbTypes'
    BY <1>1, <2>1, <2>4, <2>5, <2>6 DEF SbTypes
  <2>8. DmaInv' /\ BufferInv' /\ LinesInv'
    BY <1>4, <1>5, <1>6, <2>1 DEF Handler, Taken
  <2>9. CardInv' /\ QuietInv'
    BY <1>1, <2>1, <2>3, <2>6 DEF CardInv, QuietInv, Asking, Transferring, Running
  <2>10. CountInv'
    BY <2>1, <2>3 DEF CountInv, Transferring, Running
  <2>11. TrialInv'
    BY <1>1, <2>1, <2>2, <2>4, <2>5 DEF TrialInv, Channel
  <2> QED
    BY <2>7, <2>8, <2>9, <2>10, <2>11 DEF SbInv
<1>17. CASE ReadEnvironment
  <2>1. /\ UNCHANGED <<irqVars, dmaVars, card, dsp, speaker, asked, trial, noise>>
        /\ pc = "init" /\ pc' = "port"
    BY <1>17 DEF ReadEnvironment, At, Goto
  <2>2. /\ sb' \in [port : BOOLEAN, irq : Nat, dma8 : Nat, dma16 : Nat, ver : Nat]
        /\ card = NULL => sb' = sb
        /\ card # NULL => /\ sb'.irq \in {0, card.irq} /\ sb'.ver = sb.ver
                          /\ sb'.dma8 \in {0, card.dma8} /\ sb'.dma16 \in {0, card.dma16}
    <3>1. PICK port, irq, dma8, dma16 \in BOOLEAN :
            sb' = IF card = NULL THEN sb
                  ELSE [sb EXCEPT !.port = port,
                                  !.irq = IF irq THEN card.irq ELSE 0,
                                  !.dma8 = IF dma8 THEN card.dma8 ELSE 0,
                                  !.dma16 = IF dma16 THEN card.dma16 ELSE 0]
      BY <1>17 DEF ReadEnvironment
    <3>2. card # NULL => card.irq \in Nat /\ card.dma8 \in Nat /\ card.dma16 \in Nat
      BY <1>2
    <3> QED
      BY ZenonT(30), <1>1, <3>1, <3>2 DEF SbTypes
  <2>3. Handler = "old" /\ Handler' = "old"
    BY <2>1 DEF Handler, Holding, Running
  <2>4. SbTypes' /\ DmaInv' /\ BufferInv' /\ LinesInv'
    BY <1>1, <1>4, <1>5, <1>6, <2>1, <2>2, <2>3
       DEF SbTypes, irqVars, dmaVars, Taken, Holding, Running
  <2>5. CardInv' /\ QuietInv' /\ CountInv' /\ TrialInv'
    BY <1>1, <2>1, <2>2 DEF CardInv, QuietInv, CountInv, TrialInv, irqVars, dmaVars, LineKnown,
       Known, Holding, Running, Asking, Transferring
  <2> QED
    BY <2>4, <2>5 DEF SbInv
<1>18. CASE FindPort
  <2>1. /\ UNCHANGED <<irqVars, dmaVars, card, asked, trial, noise>>
        /\ pc = "port" /\ pc' \in {"irq", "detected"}
        /\ pc' = "irq" => sb'.port
        /\ pc' = "detected" => card = NULL
    BY <1>1, <1>18 DEF FindPort, At, Goto, SbTypes
  <2>2. /\ sb' \in [port : BOOLEAN, irq : Nat, dma8 : Nat, dma16 : Nat, ver : Nat]
        /\ sb'.irq = sb.irq /\ sb'.dma8 = sb.dma8 /\ sb'.dma16 = sb.dma16
        /\ card = NULL => sb' = sb
        /\ card # NULL => sb'.ver \in {0, card.ver}
    <3>1. card # NULL => card.ver \in Nat
      BY <1>2
    <3>2. sb' \in {sb, [sb EXCEPT !.port = TRUE, !.ver = card.ver]}
      BY <1>18 DEF FindPort
    <3>3. card = NULL => sb' = sb
      BY <1>1, <1>18 DEF FindPort, CardInv
    <3>4. CASE sb' = sb
      BY <1>1, <3>4 DEF SbTypes, CardInv
    <3>5. CASE sb' # sb
      <4>1. card # NULL /\ card.ver \in Nat /\ sb' = [sb EXCEPT !.port = TRUE, !.ver = card.ver]
        BY <3>1, <3>2, <3>3, <3>5
      <4>2. sb \in [port : BOOLEAN, irq : Nat, dma8 : Nat, dma16 : Nat, ver : Nat]
        BY <1>1 DEF SbTypes
      <4> QED
        BY <4>1, <4>2
    <3> QED
      BY <3>4, <3>5
  <2>3. /\ dsp' \in [run : {"none", "single", "auto"}, todo : Int, block : Int, wide : BOOLEAN]
        /\ speaker' \in {speaker, FALSE}
    <3>1. dsp' \in {dsp, Resting} /\ speaker' \in {speaker, FALSE}
      BY <1>18 DEF FindPort, Reset
    <3>2. Resting \in [run : {"none", "single", "auto"}, todo : Int, block : Int, wide : BOOLEAN]
      BY DEF Resting
    <3> QED
      BY <1>1, <3>1, <3>2 DEF SbTypes
  <2>4. Handler = "old" /\ Handler' = "old"
    BY <2>1 DEF Handler, Holding, Running
  <2>5. SbTypes' /\ DmaInv' /\ BufferInv' /\ LinesInv'
    BY <1>1, <1>4, <1>5, <1>6, <2>1, <2>2, <2>3, <2>4
       DEF SbTypes, irqVars, dmaVars, Taken, Holding, Running
  <2>6. CardInv'
    BY <1>1, <2>1, <2>2 DEF CardInv, LineKnown, Known, Holding, Running
  <2>7. QuietInv' /\ CountInv' /\ TrialInv'
    <3>1. ~speaker'
      BY <1>1, <2>1, <2>3 DEF QuietInv, Running, SbTypes
    <3> QED
      BY <1>1, <2>1, <2>2, <3>1 DEF CardInv, QuietInv, CountInv, TrialInv, irqVars, dmaVars,
       Holding, Running, Asking, Transferring
  <2> QED
    BY <2>5, <2>6, <2>7 DEF SbInv
<1>19. CASE FindIrq
  <2>1. /\ UNCHANGED <<dmaVars, card, noise, request, sb, trial, dsp, speaker>>
        /\ pc = "irq" /\ noise = 0 /\ request = {} /\ card # NULL
        /\ Handler = "old" /\ Taken = {}
    <3>1. pc = "irq" /\ UNCHANGED <<dmaVars, card, noise, request, sb, trial, dsp, speaker>>
      BY <1>19 DEF FindIrq, At, Wild, irqVars
    <3> QED
      BY <1>1, <3>1 DEF QuietInv, CardInv, Handler, Taken, Holding, Running, Asking, Transferring
  <2>2. CASE sb.irq # 0 /\ Goto("dma") /\ UNCHANGED <<irqVars, asked>>
    <3>1. pc' = "dma" /\ Handler' = "old" /\ Taken' = {} /\ UNCHANGED <<irqVars, asked>>
      BY <2>2 DEF Goto, Handler, Taken, Holding, Running
    <3>2. SbTypes' /\ DmaInv' /\ BufferInv' /\ LinesInv'
      BY <1>1, <1>4, <1>5, <1>6, <2>1, <3>1 DEF SbTypes, irqVars, dmaVars, Holding, Running
    <3>3. CardInv' /\ QuietInv' /\ CountInv' /\ TrialInv'
      BY <1>1, <2>1, <2>2, <3>1 DEF CardInv, QuietInv, CountInv, TrialInv, irqVars, dmaVars,
         LineKnown, Known, Holding, Running, Asking, Transferring
    <3> QED
      BY <3>2, <3>3 DEF SbInv
  <2>3. CASE /\ sb.irq = 0 /\ DetectStart /\ Goto("sight")
             /\ asked' = [left |-> Sightings, sent |-> 1, any |-> FALSE]
    <3>1. /\ pc' = "sight" /\ Handler' = "detect" /\ Taken' = Lines /\ Hook(Lines, "detect")
          /\ count' = [l \in Lines |-> 0] /\ seen' = {}
      BY <2>3 DEF Goto, Handler, Taken, DetectStart, Holding, Running
    <3>2. asked' \in [left : Int, sent : Nat, any : BOOLEAN] /\ asked'.left = Sightings
          /\ asked'.sent = 1
      BY <1>2, <2>3
    <3>3. SbTypes' /\ DmaInv' /\ BufferInv'
      BY <1>1, <1>4, <1>5, <2>1, <3>1, <3>2 DEF SbTypes, dmaVars, Holding, Running
    <3>4. LinesInv'
      BY <1>7, <2>1, <3>1
    <3>5. CardInv' /\ QuietInv' /\ TrialInv'
      BY <1>1, <2>1, <3>1 DEF CardInv, QuietInv, TrialInv, dmaVars,
         LineKnown, Known, Holding, Running, Asking, Transferring
    <3>6. CountInv'
      <4>1. \A l : One(l)' = 0
        BY <2>1 DEF One
      <4>2. card' = card /\ card.irq \in Lines /\ noise' = 0
        BY <1>2, <2>1
      <4>3. \A l \in Lines : count'[l] + One(l)' = 0
        BY <3>1, <4>1
      <4>4. count'[card'.irq] + One(card.irq)' = 0
        BY <4>2, <4>3 DEF One
      <4>5. Sightings > 0
        BY <1>2
      <4> QED
        BY <1>2, <3>1, <3>2, <4>2, <4>3, <4>4, <4>5 DEF CountInv
    <3> QED
      BY <3>3, <3>4, <3>5, <3>6 DEF SbInv
  <2>4. CASE Wild /\ UNCHANGED asked
    <3>1. pc' = "wild" /\ Handler' = "old" /\ Taken' = {} /\ UNCHANGED <<irqVars, asked>>
      BY <2>4 DEF Wild, Goto, Handler, Taken, Holding, Running
    <3>2. SbTypes' /\ DmaInv' /\ BufferInv' /\ LinesInv'
      BY <1>1, <1>4, <1>5, <1>6, <2>1, <3>1 DEF SbTypes, irqVars, dmaVars, Holding, Running
    <3>3. CardInv' /\ QuietInv' /\ CountInv' /\ TrialInv'
      BY <1>1, <2>1, <3>1 DEF CardInv, QuietInv, CountInv, TrialInv, irqVars, dmaVars,
         LineKnown, Known, Holding, Running, Asking, Transferring
    <3> QED
      BY <3>2, <3>3 DEF SbInv
  <2> QED
    BY <1>19, <2>2, <2>3, <2>4 DEF FindIrq, Wild
<1>20. CASE Sight
  <2>1. /\ UNCHANGED <<vector, unmasked, handle, request, count, locks, dmaVars, card, dsp,
                       speaker, sb, trial, noise>>
        /\ seen' = {} /\ pc = "sight" /\ pc' \in {"sight", "pick"}
        /\ pc' = "sight" <=> asked.left > 1
        /\ asked' = [left |-> asked.left - 1, any |-> TRUE,
                     sent |-> asked.sent + IF asked.left > 1 THEN 1 ELSE 0]
    BY <1>20 DEF Sight, At, Goto
  <2>2. /\ asked' \in [left : Int, sent : Nat, any : BOOLEAN]
        /\ asked'.left = asked.left - 1
        /\ asked'.sent = asked.sent + IF asked.left > 1 THEN 1 ELSE 0
        /\ asked.left \in Int /\ asked.sent \in Nat
    BY <1>1, <2>1 DEF SbTypes
  <2>3. Handler = "detect" /\ Handler' = "detect" /\ card # NULL
    BY <1>1, <2>1 DEF Handler, Holding, Running, CardInv
  <2>4. SbTypes' /\ DmaInv' /\ BufferInv' /\ LinesInv'
    BY <1>1, <1>4, <1>5, <1>6, <2>1, <2>2, <2>3 DEF SbTypes, dmaVars, Taken, Holding, Running
  <2>5. CardInv' /\ QuietInv' /\ TrialInv'
    BY <1>1, <2>1, <2>3 DEF CardInv, QuietInv, TrialInv, dmaVars,
       LineKnown, Known, Holding, Running, Asking, Transferring
  <2>6. CountInv'
    <3>1. PICK n \in Int : n = count[card.irq] + One(card.irq)
      BY <1>1, <1>2, <2>3 DEF SbTypes, One
    <3>2. asked.left > 0 /\ n + asked.sent <= Sightings - asked.left + 1
      BY <1>1, <2>1, <3>1 DEF CountInv
    <3>3. n + asked'.sent <= IF asked'.left > 0 THEN Sightings - asked'.left + 1 ELSE Sightings
      BY <1>2, <2>2, <3>2
    <3>4. n = count'[card'.irq] + One(card.irq)'
      BY <2>1, <3>1 DEF One
    <3> QED
      BY <1>1, <2>1, <2>2, <3>2, <3>3, <3>4 DEF CountInv, One
  <2> QED
    BY <2>4, <2>5, <2>6 DEF SbInv
<1>21. CASE SightTimeout
  <2>1. /\ UNCHANGED <<irqVars, dmaVars, card, dsp, speaker, sb, asked, trial, noise>>
        /\ pc = "sight" /\ pc' = "pick"
    BY <1>21 DEF SightTimeout, At, Goto
  <2>2. Handler = "detect" /\ Handler' = "detect"
    BY <2>1 DEF Handler, Holding, Running
  <2>3. SbTypes' /\ DmaInv' /\ BufferInv' /\ LinesInv'
    BY <1>1, <1>4, <1>5, <1>6, <2>1, <2>2 DEF SbTypes, irqVars, dmaVars, Taken, Holding, Running
  <2>4. CardInv' /\ QuietInv' /\ CountInv' /\ TrialInv'
    BY <1>1, <2>1 DEF CardInv, QuietInv, CountInv, One, TrialInv, irqVars, dmaVars,
       LineKnown, Known, Holding, Running, Asking, Transferring
  <2> QED
    BY <2>3, <2>4 DEF SbInv
<1>22. CASE PickIrq
  <2>1. /\ UNCHANGED <<request, dmaVars, card, dsp, speaker, trial>>
        /\ pc = "pick" /\ Deliverable = {} /\ Unhook(Lines)
        /\ sb' = [sb EXCEPT !.irq = IF asked.any THEN LineWith(Sightings) ELSE 0]
        /\ pc' = (IF sb'.irq = 0 THEN "detected" ELSE "dma")
        /\ count' = [l \in Lines |-> 0] /\ seen' = {} /\ noise' = 0
        /\ asked' = [asked EXCEPT !.left = 0, !.any = FALSE]
    BY <1>22 DEF PickIrq, At, Goto
  <2>2. /\ Handler = "detect" /\ Taken = Lines /\ Handler' = "old" /\ card # NULL /\ sb.port
        /\ Taken' = {}
    BY <1>1, <2>1 DEF Handler, Holding, Running, CardInv, Taken
  <2>3. /\ LineWith(Sightings) \in {0, card.irq}
        /\ LineWith(Sightings) = card.irq => count[card.irq] = Sightings
    <3> DEFINE ls == {l \in Lines : count[l] = Sightings}
    <3>1. \A l \in Lines : l # card.irq => count[l] # Sightings
      <4>1. \A l \in Lines : l # card.irq => count[l] + One(l) <= noise
        BY <1>1, <2>1 DEF CountInv
      <4>2. \A l \in Lines : One(l) \in {0, 1} /\ count[l] \in Nat
        BY <1>1 DEF One, SbTypes
      <4>3. noise \in 0 .. MaxNoise
        BY <1>1 DEF SbTypes
      <4> QED
        BY <1>2, <4>1, <4>2, <4>3
    <3>2. ls \subseteq {card.irq}
      BY <3>1
    <3>3. CASE ls = {}
      <4>1. LineWith(Sightings) = 0 /\ card.irq # 0
        BY <1>2, <2>2, <3>3 DEF LineWith
      <4> QED
        BY <4>1
    <3>4. CASE ls # {}
      <4>1. ls = {card.irq} /\ card.irq \in Nat
        BY <1>2, <2>2, <3>2, <3>4
      <4>2. \E l \in ls : \A k \in ls : k <= l
        BY <4>1
      <4>3. (CHOOSE l \in ls : \A k \in ls : k <= l) \in ls
        BY <4>2
      <4>4. LineWith(Sightings) \in ls
        BY <3>4, <4>3 DEF LineWith
      <4> QED
        BY <3>2, <4>4
    <3> QED
      BY <3>3, <3>4
  <2>4. /\ sb' \in [port : BOOLEAN, irq : Nat, dma8 : Nat, dma16 : Nat, ver : Nat]
        /\ sb'.irq \in {0, card.irq} /\ sb'.port = sb.port /\ sb'.dma8 = sb.dma8
        /\ sb'.dma16 = sb.dma16 /\ sb'.ver = sb.ver
        /\ sb'.irq # 0 => count[card.irq] = Sightings
    <3>1. PICK n \in {0, card.irq} : n = IF asked.any THEN LineWith(Sightings) ELSE 0
      BY <2>3
    <3>2. sb' = [sb EXCEPT !.irq = n] /\ n \in Nat
      BY <1>2, <2>1, <2>2, <3>1
    <3>3. n # 0 => count[card.irq] = Sightings
      BY <2>3, <3>1
    <3> QED
      BY <1>1, <3>1, <3>2, <3>3 DEF SbTypes
  <2>5. /\ asked' \in [left : Int, sent : Nat, any : BOOLEAN] /\ asked'.sent = asked.sent
        /\ asked.sent \in Nat /\ asked.left \in Int
    <3>1. asked \in [left : Int, sent : Nat, any : BOOLEAN]
      BY <1>1 DEF SbTypes
    <3>2. asked' = [left |-> 0, sent |-> asked.sent, any |-> FALSE]
      BY <2>1, <3>1
    <3>3. asked.sent \in Nat /\ asked.left \in Int
      BY <3>1
    <3> QED
      BY <3>2, <3>3
  <2>6. sb'.irq # 0 => asked.sent = 0
    <3>1. PICK n \in Int : n = One(card.irq) /\ n \in {0, 1}
      BY DEF One
    <3>2. count[card.irq] + n + asked.sent <= Sightings
      <4>1. /\ count[card.irq] \in Int /\ asked.left >= 0
            /\ count[card.irq] + n + asked.sent
                 <= IF asked.left > 0 THEN Sightings - asked.left + 1 ELSE Sightings
        BY <1>1, <1>2, <2>1, <2>2, <3>1 DEF CountInv, SbTypes
      <4> QED
        BY <1>2, <2>5, <3>1, <4>1
    <3> QED
      BY <1>2, <2>4, <2>5, <3>1, <3>2
  <2>7. request = {}
    BY <1>1, <1>9, <2>1, <2>2 DEF SbTypes
  <2>8. SbTypes' /\ DmaInv' /\ BufferInv'
    BY <1>1, <1>2, <1>4, <1>5, <2>1, <2>4, <2>5 DEF SbTypes, dmaVars, Holding, Running
  <2>9. LinesInv'
    BY <1>8, <2>1, <2>2
  <2>10. CardInv'
    BY <1>1, <2>1, <2>2, <2>4, <2>5 DEF CardInv, LineKnown, Known, Holding, Running
  <2>11. QuietInv' /\ CountInv' /\ TrialInv'
    BY <1>1, <2>1, <2>4, <2>5, <2>6, <2>7 DEF QuietInv, CountInv, TrialInv, dmaVars,
       Holding, Running, Asking, Transferring
  <2> QED
    BY <2>8, <2>9, <2>10, <2>11 DEF SbInv
<1>23. CASE FindDma
  <2>1. /\ UNCHANGED <<request, count, seen, dmaVars, card, noise, sb, asked, trial, dsp>>
        /\ pc = "dma" /\ speaker' \in {speaker, FALSE}
        /\ Handler = "old" /\ Taken = {} /\ ~speaker /\ sb.irq = card.irq /\ card # NULL
    <3>1. /\ pc = "dma" /\ UNCHANGED <<dmaVars, card, noise, sb, asked, trial, dsp>>
          /\ UNCHANGED <<request, count, seen>> /\ speaker' \in {speaker, FALSE}
      BY <1>23 DEF FindDma, At, Wild, irqVars
    <3> QED
      BY <1>1, <3>1 DEF QuietInv, CardInv, LineKnown, Handler, Taken, Holding, Running
  <2>2. ~speaker'
    BY <2>1
  <2>3. SbTypes' /\ DmaInv'
    BY <1>1, <1>4, <2>1, <2>2 DEF SbTypes, dmaVars
  <2>4. CASE (Goto("detected") /\ UNCHANGED irqVars) \/ Wild
    <3>1. pc' \in {"detected", "wild"} /\ Handler' = "old" /\ Taken' = {} /\ UNCHANGED irqVars
      BY <2>4 DEF Goto, Wild, Handler, Taken, Holding, Running
    <3>2. BufferInv' /\ LinesInv'
      BY <1>1, <1>5, <1>6, <2>1, <3>1 DEF irqVars, dmaVars, Holding, Running
    <3>3. CardInv' /\ QuietInv' /\ CountInv' /\ TrialInv'
      BY <1>1, <2>1, <2>2, <3>1 DEF CardInv, QuietInv, CountInv, TrialInv, irqVars, dmaVars,
         LineKnown, Known, Holding, Running, Asking, Transferring
    <3> QED
      BY <2>3, <3>2, <3>3 DEF SbInv
  <2>5. CASE Hook({sb.irq}, "dmadetect") /\ Goto("trial")
    <3>1. pc' = "trial" /\ Handler' = "dmadetect" /\ Taken' = {sb.irq} /\ {sb.irq} \subseteq Lines
      BY <1>2, <2>1, <2>5 DEF Goto, Handler, Taken, Holding, Running
    <3>2. BufferInv' /\ LinesInv'
      BY <1>1, <1>5, <1>7, <2>1, <2>5, <3>1 DEF dmaVars, Holding, Running
    <3>3. CardInv' /\ QuietInv' /\ CountInv' /\ TrialInv'
      BY <1>1, <2>1, <2>2, <3>1 DEF CardInv, QuietInv, CountInv, TrialInv, dmaVars,
         LineKnown, Known, Holding, Running, Asking, Transferring
    <3> QED
      BY <2>3, <3>2, <3>3 DEF SbInv
  <2> QED
    BY <1>23, <2>4, <2>5 DEF FindDma
<1>24. CASE TryChannel
  <2>1. /\ UNCHANGED <<irqVars, blocks, alloc, buffer, card, speaker, sb, asked, noise>>
        /\ pc = "trial" /\ pc' = "await" /\ Deliverable = {}
    BY <1>24 DEF TryChannel, At, Goto
  <2>2. PICK wide \in BOOLEAN : wide = ~NeedDma8
    OBVIOUS
  <2>3. PICK ch \in Nat : ch = IF wide THEN __dma16[trial.next] ELSE __dma8[trial.next]
    <3>1. trial.next \in 1 .. 3
      BY <1>1 DEF SbTypes
    <3>2. __dma16[trial.next] \in Nat /\ __dma8[trial.next] \in Nat
      BY <3>1 DEF __dma16, __dma8
    <3> QED
      BY <3>2
  <2>4. /\ trial' = [trial EXCEPT !.wide = wide, !.ch = ch, !.hit = FALSE]
        /\ channel' = [ch |-> ch, left |-> 2, auto |-> FALSE]
        /\ dsp' = [run |-> "single", todo |-> 2, block |-> 2, wide |-> wide]
    BY <1>24, <2>2, <2>3 DEF TryChannel, DmaStart
  <2>5. /\ trial' \in [wide : BOOLEAN, ch : Nat, next : 1 .. 3, hit : BOOLEAN]
        /\ trial'.wide = wide /\ trial'.ch = ch /\ ~trial'.hit
    BY <1>1, <2>4 DEF SbTypes
  <2>6. /\ channel' \in [ch : Int, left : Int, auto : BOOLEAN] /\ channel'.ch = ch
        /\ dsp' \in [run : {"none", "single", "auto"}, todo : Int, block : Int, wide : BOOLEAN]
        /\ dsp'.wide = wide
    BY <2>4
  <2>7. Handler = "dmadetect" /\ Handler' = "dmadetect"
    BY <2>1 DEF Handler, Holding, Running
  <2>8. SbTypes' /\ DmaInv' /\ BufferInv' /\ LinesInv'
    BY <1>1, <1>4, <1>5, <1>6, <2>1, <2>5, <2>6, <2>7
       DEF SbTypes, irqVars, Taken, Holding, Running
  <2>9. request = {}
    BY <1>1, <2>1 DEF QuietInv, Asking, Transferring, Running
  <2>10. CardInv' /\ QuietInv'
    BY <1>1, <2>1, <2>9 DEF CardInv, QuietInv, irqVars,
       LineKnown, Known, Holding, Running, Asking, Transferring
  <2>11. CountInv' /\ TrialInv'
    BY <2>1, <2>5, <2>6, <2>9 DEF CountInv, TrialInv, irqVars
  <2> QED
    BY <2>8, <2>10, <2>11 DEF SbInv
<1>25. CASE TrialHit
  <2>1. /\ UNCHANGED <<irqVars, blocks, alloc, buffer, card, dsp, speaker, asked, noise>>
        /\ pc = "await" /\ pc' \in {"trial", "trialsend"} /\ Deliverable = {}
        /\ trial.hit /\ channel' = NoChannel /\ trial' = NoTrial
        /\ sb' = IF trial.wide THEN [sb EXCEPT !.dma16 = trial.ch]
                 ELSE [sb EXCEPT !.dma8 = trial.ch]
    BY <1>25 DEF TrialHit, At, Goto, DmaDisable
  <2>2. trial.ch \in Nat /\ card # NULL
        /\ trial.ch = IF trial.wide THEN card.dma16 ELSE card.dma8
    BY <1>1, <2>1 DEF SbTypes, CardInv, TrialInv, Channel, LineKnown
  <2>3. /\ sb' \in [port : BOOLEAN, irq : Nat, dma8 : Nat, dma16 : Nat, ver : Nat]
        /\ sb'.port = sb.port /\ sb'.irq = sb.irq /\ sb'.ver = sb.ver
        /\ sb'.dma8 \in {sb.dma8, card.dma8} /\ sb'.dma16 \in {sb.dma16, card.dma16}
    BY <1>1, <2>1, <2>2 DEF SbTypes
  <2>4. NoTrial \in [wide : BOOLEAN, ch : Nat, next : 1 .. 3, hit : BOOLEAN]
        /\ NoChannel \in [ch : Int, left : Int, auto : BOOLEAN]
    BY DEF NoTrial, NoChannel
  <2>5. /\ Handler = "dmadetect" /\ Handler' = "dmadetect" /\ Taken = {sb.irq}
        /\ Taken' = {sb.irq}
    BY <2>1, <2>3 DEF Handler, Taken, Holding, Running
  <2>6. SbTypes' /\ DmaInv' /\ BufferInv' /\ LinesInv'
    BY <1>1, <1>4, <1>5, <1>6, <2>1, <2>3, <2>4, <2>5
       DEF SbTypes, irqVars, Holding, Running
  <2>7. request \subseteq {sb.irq}
    BY <1>1, <2>1 DEF QuietInv, Asking
  <2>8. request = {}
    BY <1>9, <2>1, <2>5, <2>7
  <2>9. CardInv'
    BY <1>1, <2>1, <2>2, <2>3 DEF CardInv, LineKnown, Known, Holding, Running
  <2>10. QuietInv' /\ CountInv' /\ TrialInv'
    BY <1>1, <2>1, <2>3, <2>8 DEF QuietInv, CountInv, TrialInv, irqVars,
       Holding, Running, Asking, Transferring
  <2> QED
    BY <2>6, <2>9, <2>10 DEF SbInv
<1>26. CASE TrialMiss
  <2>1. /\ UNCHANGED <<irqVars, blocks, alloc, buffer, card, dsp, speaker, sb, asked, noise>>
        /\ pc = "await" /\ pc' \in {"trial", "trialsend"} /\ Deliverable = {}
        /\ channel' = NoChannel
        /\ trial' \in {NoTrial, [trial EXCEPT !.next = @ + 1]}
        /\ trial' # NoTrial => trial.next < 3
    BY <1>26 DEF TrialMiss, At, Goto, DmaDisable
  <2>2. NoTrial \in [wide : BOOLEAN, ch : Nat, next : 1 .. 3, hit : BOOLEAN]
        /\ NoChannel \in [ch : Int, left : Int, auto : BOOLEAN]
    BY DEF NoTrial, NoChannel
  <2>3. trial' \in [wide : BOOLEAN, ch : Nat, next : 1 .. 3, hit : BOOLEAN]
    BY <1>1, <2>1, <2>2 DEF SbTypes
  <2>4. /\ Handler = "dmadetect" /\ Handler' = "dmadetect" /\ Taken = {sb.irq}
        /\ Taken' = {sb.irq}
    BY <2>1 DEF Handler, Taken, Holding, Running
  <2>5. SbTypes' /\ DmaInv' /\ BufferInv' /\ LinesInv'
    BY <1>1, <1>4, <1>5, <1>6, <2>1, <2>2, <2>3, <2>4
       DEF SbTypes, irqVars, Holding, Running
  <2>6. request \subseteq {sb.irq}
    BY <1>1, <2>1 DEF QuietInv, Asking
  <2>7. request = {}
    BY <1>9, <2>1, <2>4, <2>6
  <2>8. CardInv' /\ QuietInv' /\ CountInv' /\ TrialInv'
    BY <1>1, <2>1, <2>7 DEF CardInv, QuietInv, CountInv, TrialInv, irqVars,
       LineKnown, Known, Holding, Running, Asking, Transferring
  <2> QED
    BY <2>5, <2>8 DEF SbInv
<1>27. CASE TrialsEnd
  <2>1. /\ UNCHANGED <<request, count, seen, dmaVars, card, dsp, speaker, sb, asked, trial, noise>>
        /\ pc \in {"trial", "trialsend"} /\ pc' = "detected" /\ Unhook({sb.irq})
    BY <1>27 DEF TrialsEnd, At, Goto
  <2>2. /\ Taken = {sb.irq} /\ Handler' = "old" /\ {sb.irq} \subseteq Lines
    BY <1>1, <1>2, <2>1 DEF Handler, Taken, Holding, Running, CardInv, LineKnown
  <2>3. LinesInv'
    BY <1>8, <2>1, <2>2
  <2>4. SbTypes' /\ DmaInv' /\ BufferInv'
    BY <1>1, <1>4, <1>5, <2>1 DEF SbTypes, dmaVars, Holding, Running
  <2>5. CardInv' /\ QuietInv' /\ CountInv' /\ TrialInv'
    BY <1>1, <2>1 DEF CardInv, QuietInv, CountInv, TrialInv, dmaVars,
       LineKnown, Known, Holding, Running, Asking, Transferring
  <2> QED
    BY <2>3, <2>4, <2>5 DEF SbInv
<1>28. CASE Detected
  <2>1. /\ UNCHANGED <<irqVars, dmaVars, card, asked, trial, noise>>
        /\ pc = "detected" /\ pc' \in {"failed", "open"}
    BY <1>28 DEF Detected, At, Goto
  <2>2. /\ sb' \in [port : BOOLEAN, irq : Nat, dma8 : Nat, dma16 : Nat, ver : Nat]
        /\ sb'.port = sb.port /\ sb'.irq = sb.irq /\ sb'.dma8 = sb.dma8
        /\ sb'.dma16 = sb.dma16
        /\ card = NULL => sb'.irq = 0
        /\ card # NULL => sb'.ver \in {0, card.ver}
        /\ pc' = "open" => /\ card # NULL /\ sb'.port /\ sb'.irq # 0 /\ sb'.dma8 # 0
                           /\ sb'.ver >= SBVER_16 => sb'.dma16 # 0
    <3>1. CASE sb.port /\ sb.irq # 0 /\ sb.dma8 # 0
      <4>1. card # NULL /\ card.ver \in Nat
        BY <1>1, <1>2, <3>1 DEF CardInv
      <4>2. sb' = [sb EXCEPT !.ver = card.ver]
        BY <1>28, <3>1 DEF Detected
      <4>3. pc' = "open" => ~(card.ver >= SBVER_16 /\ sb.dma16 = 0)
        BY <1>28, <3>1 DEF Detected, Goto
      <4> QED
        BY <1>1, <3>1, <4>1, <4>2, <4>3 DEF SbTypes
    <3>2. CASE ~(sb.port /\ sb.irq # 0 /\ sb.dma8 # 0)
      BY <1>1, <1>28, <3>2 DEF Detected, Goto, SbTypes, CardInv
    <3> QED
      BY <3>1, <3>2
  <2>3. /\ dsp' \in [run : {"none", "single", "auto"}, todo : Int, block : Int, wide : BOOLEAN]
        /\ speaker' \in {speaker, FALSE}
    <3>1. dsp' \in {dsp, Resting} /\ speaker' \in {speaker, FALSE}
      BY <1>28 DEF Detected, Reset
    <3>2. Resting \in [run : {"none", "single", "auto"}, todo : Int, block : Int, wide : BOOLEAN]
      BY DEF Resting
    <3> QED
      BY <1>1, <3>1, <3>2 DEF SbTypes
  <2>4. Handler = "old" /\ Handler' = "old" /\ Taken = {} /\ Taken' = {}
    BY <2>1 DEF Handler, Taken, Holding, Running
  <2>5. SbTypes' /\ DmaInv' /\ BufferInv' /\ LinesInv'
    BY <1>1, <1>4, <1>5, <1>6, <2>1, <2>2, <2>3, <2>4
       DEF SbTypes, irqVars, dmaVars, Holding, Running
  <2>6. CardInv'
    BY <1>1, <2>1, <2>2 DEF CardInv, LineKnown, Known, Holding, Running
  <2>7. QuietInv' /\ CountInv' /\ TrialInv'
    <3>1. ~speaker'
      BY <1>1, <2>1, <2>3 DEF QuietInv, Running, SbTypes
    <3> QED
      BY <1>1, <2>1, <2>2, <3>1 DEF QuietInv, CountInv, TrialInv, irqVars, dmaVars,
         Holding, Running, Asking, Transferring
  <2> QED
    BY <2>5, <2>6, <2>7 DEF SbInv
<1>29. CASE Open
  <2>1. /\ UNCHANGED <<request, count, seen, dmaVars, card, dsp, speaker, sb, asked, trial, noise>>
        /\ pc = "open" /\ pc' \in {"opened", "failed", "wild"}
        /\ pc' = "opened" => Hook({sb.irq}, "sb")
        /\ pc' # "opened" => UNCHANGED <<vector, unmasked, handle, locks>>
    BY <1>29 DEF Open, Wild, At, Goto, irqVars
  <2>2. {sb.irq} \subseteq Lines /\ Handler = "old" /\ Taken = {}
    BY <1>1, <1>2, <2>1 DEF CardInv, LineKnown, Known, Handler, Taken, Holding, Running
  <2>3. LinesInv'
    <3>1. CASE pc' = "opened"
      <4>1. Handler' = "sb" /\ Taken' = {sb.irq}
        BY <2>1, <3>1 DEF Handler, Taken
      <4> QED
        BY <1>7, <2>1, <2>2, <3>1, <4>1
    <3>2. CASE pc' \in {"failed", "wild"}
      <4>1. Handler' = "old" /\ Taken' = {}
        BY <3>2 DEF Handler, Taken, Holding, Running
      <4> QED
        BY <1>6, <2>1, <2>2, <3>2, <4>1
    <3> QED
      BY <2>1, <3>1, <3>2
  <2>4. SbTypes' /\ DmaInv' /\ BufferInv'
    BY <1>1, <1>4, <1>5, <2>1 DEF SbTypes, dmaVars, Holding, Running
  <2>5. CardInv' /\ QuietInv' /\ CountInv' /\ TrialInv'
    BY <1>1, <2>1 DEF CardInv, QuietInv, CountInv, TrialInv, dmaVars,
       LineKnown, Known, Holding, Running, Asking, Transferring
  <2> QED
    BY <2>3, <2>4, <2>5 DEF SbInv
<1>30. CASE AskForBuffer
  <2>1. /\ UNCHANGED <<irqVars, card, dsp, sb, asked, trial, noise, blocks, buffer, channel>>
        /\ pc = "opened" /\ pc' = "starting" /\ speaker' = TRUE
        /\ alloc' = [NoAlloc EXCEPT !.pc = "try", !.ch = MyDma, !.count = Tries]
    BY <1>30 DEF AskForBuffer, DmaAllocate, At, Goto
  <2>2. alloc.pc = "idle" /\ buffer = NULL /\ blocks = {}
    <3>1. alloc.pc = "idle" /\ buffer = NULL
      BY <1>1, <2>1 DEF BufferInv, Holding, Running
    <3> QED
      BY <1>1, <3>1 DEF DmaInv
  <2>3. alloc' \in AllocType /\ alloc'.pc = "try"
    <3>1. PICK ch \in Nat : ch = MyDma
      BY <1>1 DEF MyDma, SbTypes
    <3>2. NoAlloc \in AllocType /\ Tries \in Int
      BY DosDmaAssumption DEF NoAlloc, AllocType
    <3> QED
      BY <2>1, <3>1, <3>2 DEF AllocType
  <2>4. Handler = "sb" /\ Handler' = "sb"
    BY <2>1 DEF Handler
  <2>5. SbTypes' /\ LinesInv'
    BY <1>1, <1>6, <2>1, <2>4 DEF SbTypes, irqVars, Taken
  <2>6. DmaInv' /\ BufferInv'
    BY <2>1, <2>2, <2>3 DEF DmaInv, BufferInv, Holding, Running
  <2>7. CardInv' /\ QuietInv' /\ CountInv' /\ TrialInv'
    BY <1>1, <2>1 DEF CardInv, QuietInv, CountInv, TrialInv, irqVars,
       LineKnown, Known, Holding, Running, Asking, Transferring
  <2> QED
    BY <2>5, <2>6, <2>7 DEF SbInv
<1>31. CASE Allocate
  <2>1. /\ UNCHANGED <<irqVars, card, dsp, speaker, sb, pc, asked, trial, noise, channel>>
        /\ pc = "starting" /\ AllocateStep
    BY <1>31 DEF Allocate, At, AllocateStep, Resize, Reallocate, OutOfMemory, Found, NotLocked
  <2>2. DmaInv'
    BY <1>1, <2>1, AllocateKeeps
  <2>3. BufferInv'
    BY <2>1 DEF BufferInv, Holding, Running
  <2>4. SbTypes' /\ LinesInv'
    BY <1>1, <1>6, <2>1 DEF SbTypes, irqVars, Handler, Taken
  <2>5. CardInv' /\ QuietInv' /\ CountInv' /\ TrialInv'
    BY <1>1, <2>1 DEF CardInv, QuietInv, CountInv, TrialInv, irqVars,
       LineKnown, Known, Holding, Running, Asking, Transferring
  <2> QED
    BY <2>2, <2>3, <2>4, <2>5 DEF SbInv
<1>32. CASE StartDma
  <2>1. /\ UNCHANGED <<irqVars, blocks, alloc, buffer, card, speaker, sb, asked, trial, noise>>
        /\ pc = "starting" /\ pc' = "ready" /\ buffer # NULL
        /\ channel' = [ch |-> buffer.ch, left |-> Size, auto |-> TRUE]
        /\ dsp' = [run |-> IF sb.ver >= SBVER_20 THEN "auto" ELSE "single",
                   todo |-> Half, block |-> Half, wide |-> Wide]
    BY <1>32 DEF StartDma, DmaStart, At, Goto
  <2>2. channel' \in [ch : Int, left : Int, auto : BOOLEAN]
    <3>1. buffer.ch \in Int
      BY <1>1, <2>1 DEF DmaInv, BufferType
    <3> QED
      BY <1>2, <2>1, <3>1
  <2>3. dsp' \in [run : {"none", "single", "auto"}, todo : Int, block : Int, wide : BOOLEAN]
    <3>1. Wide \in BOOLEAN
      BY DEF Wide
    <3> QED
      BY <1>2, <2>1, <3>1
  <2>4. Handler = "sb" /\ Handler' = "sb" /\ alloc.pc = "idle"
    BY <1>1, <2>1 DEF Handler, Holding, Running, DmaInv
  <2>5. SbTypes' /\ DmaInv' /\ LinesInv'
    BY <1>1, <1>4, <1>6, <2>1, <2>2, <2>3, <2>4 DEF SbTypes, irqVars, Taken
  <2>6. BufferInv'
    BY <2>1, <2>4 DEF BufferInv, Holding, Running
  <2>7. CardInv' /\ QuietInv' /\ CountInv' /\ TrialInv'
    BY <1>1, <2>1 DEF CardInv, QuietInv, CountInv, TrialInv, irqVars,
       LineKnown, Known, Holding, Running, Asking, Transferring
  <2> QED
    BY <2>5, <2>6, <2>7 DEF SbInv
<1>33. CASE StartFailed
  <2>1. /\ UNCHANGED <<request, count, seen, dmaVars, card, dsp, sb, asked, trial, noise>>
        /\ pc = "starting" /\ pc' = "failed" /\ speaker' = FALSE
        /\ alloc.pc = "idle" /\ buffer = NULL /\ Unhook({sb.irq})
    BY <1>33 DEF StartFailed, At, Goto
  <2>2. /\ Taken = {sb.irq} /\ Handler' = "old" /\ {sb.irq} \subseteq Lines
    BY <1>1, <1>2, <2>1 DEF Handler, Taken, Holding, Running, CardInv, LineKnown, Known
  <2>3. LinesInv'
    BY <1>8, <2>1, <2>2
  <2>4. SbTypes' /\ DmaInv' /\ BufferInv'
    BY <1>1, <1>4, <2>1 DEF SbTypes, dmaVars, BufferInv, Holding, Running
  <2>5. CardInv' /\ QuietInv' /\ CountInv' /\ TrialInv'
    BY <1>1, <2>1 DEF CardInv, QuietInv, CountInv, TrialInv, dmaVars,
       LineKnown, Known, Holding, Running, Asking, Transferring
  <2> QED
    BY <2>3, <2>4, <2>5 DEF SbInv
<1>34. CASE Halt
  <2>1. /\ UNCHANGED <<irqVars, dmaVars, card, sb, asked, trial, noise>>
        /\ pc = "ready" /\ pc' = "halted" /\ speaker' = FALSE
        /\ dsp' \in {dsp, [dsp EXCEPT !.run = "none"]}
    BY <1>34 DEF Halt, At, Goto
  <2>2. dsp' \in [run : {"none", "single", "auto"}, todo : Int, block : Int, wide : BOOLEAN]
    BY <1>1, <2>1 DEF SbTypes
  <2>3. Handler = "sb" /\ Handler' = "sb"
    BY <2>1 DEF Handler, Holding, Running
  <2>4. SbTypes' /\ DmaInv' /\ BufferInv' /\ LinesInv'
    BY <1>1, <1>4, <1>5, <1>6, <2>1, <2>2, <2>3
       DEF SbTypes, irqVars, dmaVars, Taken, Holding, Running
  <2>5. CardInv' /\ QuietInv' /\ CountInv' /\ TrialInv'
    BY <1>1, <2>1 DEF CardInv, QuietInv, CountInv, TrialInv, irqVars, dmaVars,
       LineKnown, Known, Holding, Running, Asking, Transferring
  <2> QED
    BY <2>4, <2>5 DEF SbInv
<1>35. CASE CloseChannel
  <2>1. /\ UNCHANGED <<irqVars, blocks, alloc, buffer, card, dsp, speaker, sb, asked, trial, noise>>
        /\ pc = "halted" /\ pc' = "disabled" /\ channel' = NoChannel /\ Deliverable = {}
    BY <1>35 DEF CloseChannel, DmaDisable, At, Goto
  <2>2. NoChannel \in [ch : Int, left : Int, auto : BOOLEAN]
    BY DEF NoChannel
  <2>3. Handler = "sb" /\ Handler' = "sb" /\ Taken = {sb.irq} /\ Taken' = {sb.irq}
    BY <2>1 DEF Handler, Taken, Holding, Running
  <2>4. SbTypes' /\ DmaInv' /\ BufferInv' /\ LinesInv'
    BY <1>1, <1>4, <1>5, <1>6, <2>1, <2>2, <2>3 DEF SbTypes, irqVars, Holding, Running
  <2>5. request \subseteq {sb.irq}
    BY <1>1, <2>1 DEF QuietInv, Asking
  <2>6. request = {}
    BY <1>9, <2>1, <2>3, <2>5
  <2>7. CardInv' /\ QuietInv' /\ CountInv' /\ TrialInv'
    BY <1>1, <2>1, <2>6 DEF CardInv, QuietInv, CountInv, TrialInv, irqVars,
       LineKnown, Known, Holding, Running, Asking, Transferring
  <2> QED
    BY <2>4, <2>7 DEF SbInv
<1>36. CASE FreeBuffer
  <2>1. /\ UNCHANGED <<irqVars, alloc, channel, card, dsp, speaker, sb, asked, trial, noise>>
        /\ pc = "disabled" /\ pc' = "closing" /\ buffer' = NULL
        /\ blocks' = blocks \ {buffer.selector}
    BY <1>36 DEF FreeBuffer, DmaFree, At, Goto
  <2>2. buffer # NULL /\ alloc.pc = "idle" /\ blocks' = {}
    BY <1>1, <2>1 DEF BufferInv, DmaInv, Holding
  <2>3. Handler = "sb" /\ Handler' = "sb"
    BY <2>1 DEF Handler, Holding, Running
  <2>4. SbTypes' /\ LinesInv'
    BY <1>1, <1>6, <2>1, <2>3 DEF SbTypes, irqVars, Taken
  <2>5. DmaInv' /\ BufferInv'
    BY <1>1, <2>1, <2>2 DEF DmaInv, BufferInv, Holding, Running
  <2>6. CardInv' /\ QuietInv' /\ CountInv' /\ TrialInv'
    BY <1>1, <2>1 DEF CardInv, QuietInv, CountInv, TrialInv, irqVars,
       LineKnown, Known, Holding, Running, Asking, Transferring
  <2> QED
    BY <2>4, <2>5, <2>6 DEF SbInv
<1>37. CASE Close
  <2>1. /\ UNCHANGED <<request, count, seen, dmaVars, card, dsp, speaker, sb, asked, trial, noise>>
        /\ pc = "closing" /\ pc' = "over" /\ Unhook({sb.irq})
    BY <1>37 DEF Close, At, Goto
  <2>2. /\ Taken = {sb.irq} /\ Handler' = "old" /\ {sb.irq} \subseteq Lines
    BY <1>1, <1>2, <2>1 DEF Handler, Taken, Holding, Running, CardInv, LineKnown, Known
  <2>3. LinesInv'
    BY <1>8, <2>1, <2>2
  <2>4. SbTypes' /\ DmaInv' /\ BufferInv'
    BY <1>1, <1>4, <1>5, <2>1 DEF SbTypes, dmaVars, Holding, Running
  <2>5. CardInv' /\ QuietInv' /\ CountInv' /\ TrialInv'
    BY <1>1, <2>1 DEF CardInv, QuietInv, CountInv, TrialInv, dmaVars,
       LineKnown, Known, Holding, Running, Asking, Transferring
  <2> QED
    BY <2>3, <2>4, <2>5 DEF SbInv
<1> QED
  BY <1>11, <1>12, <1>13, <1>14, <1>15, <1>16, <1>17, <1>18, <1>19, <1>20, <1>21, <1>22, <1>23,
     <1>24, <1>25, <1>26, <1>27, <1>28, <1>29, <1>30, <1>31, <1>32, <1>33, <1>34, <1>35, <1>36,
     <1>37 DEF Next, Program, Opening, Closing, Interrupts, Others

-----------------------------------------------------------------------------
(* What the driver promises                                                *)

\* The driver's invariant: what holds at each place of the program, whatever
\* interrupts come between its steps (dossb.c, dosirq.c, dosdma.c).
THEOREM SbCorrect == Spec => []SbInv
<1>1. Init => SbInv
  <2> SUFFICES ASSUME Init PROVE SbInv
    OBVIOUS
  <2> USE DEF Init, SbInit
  <2>1. pc = "init" /\ buffer = NULL /\ Handler = "old" /\ Taken = {} /\ Cardinality({}) = 0
    BY FS_EmptySet DEF DmaInit, Handler, Taken, Holding, Running
  <2>2. SbTypes
    <3>1. UnknownSb \in [port : BOOLEAN, irq : Nat, dma8 : Nat, dma16 : Nat, ver : Nat]
      BY DEF UnknownSb
    <3>2. NoTrial \in [wide : BOOLEAN, ch : Nat, next : 1 .. 3, hit : BOOLEAN]
      BY DEF NoTrial
    <3>3. NoChannel \in [ch : Int, left : Int, auto : BOOLEAN]
      BY DEF NoChannel
    <3>4. Resting \in [run : {"none", "single", "auto"}, todo : Int, block : Int, wide : BOOLEAN]
      BY DEF Resting
    <3>5. asked \in [left : Int, sent : Nat, any : BOOLEAN] /\ 0 \in 0 .. MaxNoise
      BY DosSbAssumption
    <3>6. count \in [Lines -> Nat] /\ seen \subseteq Lines /\ request \subseteq Lines
      BY DEF IrqInit
    <3> QED
      BY <3>1, <3>2, <3>3, <3>4, <3>5, <3>6 DEF SbTypes, DmaInit
  <2>3. DmaInv /\ BufferInv
    BY <2>1, DosDmaAssumption
       DEF DmaInv, BufferInv, DmaInit, NoAlloc, AllocType, Holding, Running
  <2>4. LinesInv
    BY <2>1, DosIrqAssumption DEF LinesInv, IrqInit, Cascade
  <2>5. CardInv /\ QuietInv /\ CountInv /\ TrialInv
    BY <2>1, <2>2 DEF CardInv, QuietInv, CountInv, TrialInv, IrqInit, DmaInit, UnknownSb, Resting,
       SbTypes, LineKnown, Known, Holding, Running, Asking, Transferring
  <2> QED
    BY <2>2, <2>3, <2>4, <2>5 DEF SbInv
<1> QED
  BY <1>1, SbStep, PTL DEF Spec

\* The controller can reach the whole buffer whenever there is one: whatever
\* blocks DOS hands out, no page bound lies in it (dma_allocate).
THEOREM BufferOnOnePage == Spec => []OnOnePage
<1>1. SbInv => OnOnePage
  <2> SUFFICES ASSUME SbInv, buffer # NULL
               PROVE  buffer.par \div PageOf(buffer.ch)
                        = (buffer.par + buffer.size - 1) \div PageOf(buffer.ch)
    BY DEF OnOnePage
  <2>1. buffer \in BufferType /\ OnBound(buffer.par, buffer.ch)
    BY DEF SbInv, DmaInv
  <2>2. PageOf(buffer.ch) \in Nat \ {0} /\ buffer.size \in 1 .. PageOf(buffer.ch)
    BY <2>1, DosDmaAssumption DEF PageOf, BufferType
  <2>3. PICK k \in Nat : buffer.par = PageOf(buffer.ch) * k
    BY <2>1 DEF OnBound
  <2> QED
    BY <2>2, <2>3, WithinPage
<1> QED
  BY <1>1, SbCorrect, PTL

\* The handler of an old card finds the buffer it reads, however late its
\* interrupt is taken (sb_irq, sb_start_dma, sb_stop_dma).
THEOREM HandlerIsSafe == Spec => []HandlerSafe
<1>1. SbInv => HandlerSafe
  <2> SUFFICES ASSUME SbInv, NEW l \in Deliverable, vector[l] = "sb" PROVE buffer # NULL
    BY DEF HandlerSafe
  <2>1. SbTypes /\ BufferInv /\ LinesInv /\ QuietInv
    BY DEF SbInv
  <2>2. l \in Lines /\ l \in request
    BY <2>1 DEF Deliverable, SbTypes
  <2>3. Handler = "sb"
    BY <2>1, <2>2 DEF LinesInv
  <2>4. pc \in Holding \cup {"opened", "starting", "closing"}
    BY <2>3 DEF Handler
  <2>5. pc \in Transferring
    BY <2>1, <2>2, <2>4 DEF QuietInv, Asking, Holding, Running
  <2> QED
    BY <2>1, <2>4, <2>5 DEF BufferInv, Transferring, Holding, Running
<1> QED
  BY <1>1, SbCorrect, PTL

\* What detection found is what the card has, although other devices interrupt
\* while it looks for the line and tries the channels (__sb_detect).
THEOREM DetectionIsRight == Spec => []DetectedAsIs
<1>1. SbInv => DetectedAsIs
  BY DEF SbInv, CardInv, DetectedAsIs, LineKnown, Known
<1> QED
  BY <1>1, SbCorrect, PTL

\* Whatever fails in init() and whenever deinit() is called, nothing of what
\* the driver took is left behind (sb_close, irq_unhook, dma_free).
THEOREM NothingLeft == Spec => []Released
<1>1. SbInv => Released
  <2> SUFFICES ASSUME SbInv, pc \in {"failed", "over"}
               PROVE  /\ \A l \in Lines : vector[l] = "old"
                      /\ unmasked \ {Cascade} = Enabled
                      /\ locks = 0 /\ blocks = {} /\ buffer = NULL
                      /\ ~speaker /\ channel.ch = -1
    BY DEF Released
  <2>1. SbTypes /\ DmaInv /\ BufferInv /\ LinesInv /\ QuietInv
    BY DEF SbInv
  <2>2. Taken = {} /\ Cardinality({}) = 0
    BY FS_EmptySet DEF Taken, Handler, Holding, Running
  <2>3. buffer = NULL /\ alloc.pc = "idle" /\ blocks = {}
    BY <2>1 DEF DmaInv, BufferInv, Holding, Running
  <2>4. channel.ch = -1 /\ ~speaker
    BY <2>1 DEF QuietInv, Transferring, Running, NoChannel
  <2> QED
    BY <2>1, <2>2, <2>3, <2>4 DEF LinesInv
<1> QED
  BY <1>1, SbCorrect, PTL

-----------------------------------------------------------------------------
(* The stream                                                              *)

\* The register of the count d ticks ago, and its two bytes.
Reg(d) == IF Register + d < Size THEN Register + d ELSE Register + d - Size
Lo(d) == Reg(d) % ByteBase
Hi(d) == Reg(d) \div ByteBase

\* The place d bytes before the tail, and the number of the byte stored there.
Back(d) == IF buff_tail >= d THEN buff_tail - d ELSE buff_tail - d + Size
Ago(d)  == IF next >= d THEN next - d ELSE next - d + Size + 1

\* The card was at a place play() rounds down to at least a ticks ago, after
\* the place where what is stored now will have ended.
Aligned(p) == \E k \in Int : p = Align * k
Since(a) == ahead > 0 => \E e \in a .. Size - ahead : Aligned(Position - e)

StreamTypes ==
    /\ buff_tail \in 0 .. Size /\ mem \in [Places -> Int] /\ next \in Numbers
    /\ siz \in Nat /\ ticks \in 0 .. MaxTicks /\ ahead \in 0 .. Size
    /\ query \in [low : Int, test : Int, pos : Int]

\* What is stored before the tail is the end of the stream.
Contents == \A d \in 1 .. ahead : mem[Back(d)] \in {Silence, Ago(d)}

\* The tail is as far ahead of the card as what is stored reaches.
After == {"halted", "disabled", "closing", "over"}
RingInv ==
    /\ pc \notin Running \cup After => buff_tail = 0 /\ ahead = Size /\ ~channel.auto
    /\ pc \in Running => /\ channel.auto /\ channel.left \in 1 .. Size
                         /\ ahead > 0 => Position + ahead - buff_tail \in {0, Size}
                         /\ Since(0)

\* What has been read so far was in the register at some time, in this order,
\* and what was accepted is a position of the card.
QueryInv ==
    /\ pc = "high" => \E a \in 0 .. ticks : query.low = Lo(a) /\ Since(a)
    /\ pc = "low2" =>
         \E a \in 0 .. ticks, b \in 0 .. ticks :
           /\ b <= a /\ Since(a)
           /\ query.test = Hi(b) * ByteBase + Lo(a) + 1
    /\ pc = "high2" =>
         \E a \in 0 .. ticks, b \in 0 .. ticks, c \in 0 .. ticks :
           /\ c <= b /\ b <= a /\ Since(a)
           /\ query.test = Hi(b) * ByteBase + Lo(a) + 1
           /\ query.low = Lo(c)
    /\ pc = "write" =>
         /\ query.pos \in Places
         /\ ahead > 0 => \E d \in 0 .. Size - ahead, e \in 0 .. Size - ahead :
              /\ d <= e /\ Aligned(Position - e)
              /\ Position - d - query.pos \in {0, -Size}

StreamInv == StreamTypes /\ Contents /\ RingInv /\ QueryInv

\* The count of a register of S values is read twice, in the order a, b, c, d,
\* low bytes first, while it runs down by at most M and perhaps starts over:
\* if the second reading is not below the first and near it, it is the value
\* the register had at c.
LEMMA SecondReading ==
    ASSUME NEW S \in Nat, NEW B \in Nat \ {0}, NEW M \in Nat, NEW N \in Nat \ {0},
           M + N <= B, 2 * B <= S,
           NEW a \in 0 .. S - 1, NEW b \in 0 .. S - 1,
           NEW c \in 0 .. S - 1, NEW d \in 0 .. S - 1,
           NEW u \in Nat, NEW v \in Nat, NEW w \in Nat, u + v + w <= M,
           b \in {a - u, a - u + S}, c \in {b - v, b - v + S}, d \in {c - w, c - w + S}
    PROVE  LET first  == (b \div B) * B + (a % B)
               second == (d \div B) * B + (c % B)
           IN  second >= first /\ second - first < N => second = c
<1>1. ASSUME NEW x \in 0 .. S - 1
      PROVE  \E i \in Nat, r \in 0 .. B - 1 :
               i = (x \div B) * B /\ r = x % B /\ x = i + r /\ (i = 0 \/ i >= B)
  <2>1. x \in Nat /\ B \in Nat \ {0}
    BY <1>1
  <2>2. \E i \in Nat, r \in 0 .. B - 1 :
               /\ i = (x \div B) * B /\ r = x % B
               /\ x = i + r /\ (i = 0 \/ i >= B)
    BY ONLY <2>1, Blocks, Zenon
  <2> QED
    BY <2>2, Zenon
<1>2. ASSUME NEW x \in 0 .. S - 1, NEW y \in 0 .. S - 1, x >= y, x - y < B
      PROVE  (x \div B) * B \in {(y \div B) * B, (y \div B) * B + B}
  BY <1>2, Blocks
<1>3. PICK i \in Nat, ra \in 0 .. B - 1 :
        ra = a % B /\ a = i + ra /\ (i = 0 \/ i >= B)
  BY <1>1
<1>4. PICK j \in Nat, rb \in 0 .. B - 1 :
        j = (b \div B) * B /\ b = j + rb /\ (j = 0 \/ j >= B)
  BY <1>1
<1>5. PICK k \in Nat, rc \in 0 .. B - 1 :
        k = (c \div B) * B /\ rc = c % B /\ c = k + rc /\ (k = 0 \/ k >= B)
  BY <1>1
<1>6. PICK l \in Nat, rd \in 0 .. B - 1 :
        l = (d \div B) * B /\ d = l + rd /\ (l = 0 \/ l >= B)
  BY <1>1
<1>7. b >= c /\ b - c < B => j \in {k, k + B}
  BY <1>2, <1>4, <1>5
<1>8. b >= d /\ b - d < B => j \in {l, l + B}
  BY <1>2, <1>4, <1>6
<1>9. c >= d /\ c - d < B => k \in {l, l + B}
  BY <1>2, <1>5, <1>6
<1>10. ASSUME l + rc >= j + ra, l + rc - (j + ra) < N
       PROVE  l + rc = c
  <2>1. CASE d = c - w + S /\ w > c
    BY <1>3, <1>4, <1>5, <1>6, <1>10, <2>1
  <2>2. CASE d = c - w /\ c = b - v
    <3>1. j \in {k, k + B} /\ j \in {l, l + B} /\ k \in {l, l + B}
      BY <1>7, <1>8, <1>9, <2>2
    <3>2. CASE k = l
      BY <1>5, <3>2
    <3>3. CASE k = l + B
      <4>1. j = l + B
        BY <3>1, <3>3
      <4>2. l + rc < j + ra
        BY <1>3, <1>5, <4>1
      <4> QED
        BY <1>10, <4>2
    <3> QED
      BY <3>1, <3>2, <3>3
  <2>3. CASE d = c - w /\ c = b - v + S /\ v > b
    BY <1>3, <1>4, <1>5, <1>6, <1>9, <1>10, <2>3
  <2> QED
    BY <2>1, <2>2, <2>3
<1> QED
  BY <1>3, <1>4, <1>5, <1>6, <1>10

\* A step keeps the invariant of the stream.
LEMMA StreamStep == SbInv /\ StreamInv /\ [Next]_vars => StreamInv'
<1> SUFFICES ASSUME SbInv, StreamInv, [Next]_vars PROVE StreamInv'
  OBVIOUS
<1>1. StreamTypes /\ Contents /\ RingInv /\ QueryInv /\ SbTypes /\ QuietInv
  BY DEF StreamInv, SbInv
<1>2. /\ Size \in Nat \ {0} /\ ByteBase \in Nat \ {0} /\ Near \in Nat \ {0} /\ MaxTicks \in Nat
      /\ MaxTicks + Near <= ByteBase /\ 2 * ByteBase <= Size /\ MaxTicks < Size
  BY SoundSbAssumption, DosSbAssumption
<1>3. ASSUME UNCHANGED <<buff_tail, mem, next, siz, query, ticks, ahead>>
      PROVE  StreamTypes' /\ Contents'
  BY <1>1, <1>3 DEF StreamTypes, Contents, Back, Ago
<1>4. ASSUME UNCHANGED <<channel, pc, buff_tail, ahead, ticks, query>>
      PROVE  RingInv' /\ QueryInv'
  BY <1>1, <1>4 DEF RingInv, QueryInv, Since, Aligned, Lo, Hi, Reg, Register, Position
<1>5. CASE UNCHANGED vars
  BY <1>3, <1>4, <1>5 DEF vars, streamVars, sbVars, dmaVars, StreamInv
<1>6. CASE (Interrupts \/ Others \/ CardAnswers) /\ UNCHANGED streamVars
  <2>1. UNCHANGED <<channel, pc>>
    BY <1>6 DEF Interrupts, Interrupt, Others, OtherDevice, CardAnswers, dmaVars
  <2> QED
    BY <1>3, <1>4, <1>6, <2>1 DEF streamVars, StreamInv
<1>7. CASE OnPause
  <2>1. /\ UNCHANGED <<channel, pc, buff_tail, next, siz, query, ticks, ahead>>
        /\ mem' = [i \in Places |-> Silence]
    BY <1>7 DEF OnPause, sbVars, dmaVars
  <2>2. \A d \in 1 .. ahead : Back(d)' \in Places
    BY <1>1, <1>2, <2>1 DEF StreamTypes, Back, Places
  <2>3. StreamTypes' /\ Contents'
    BY <1>1, <1>2, <2>1, <2>2 DEF StreamTypes, Contents, Silence
  <2> QED
    BY <1>4, <2>1, <2>3 DEF StreamInv
<1>8. CASE StartDma /\ UNCHANGED streamVars
  <2>1. /\ UNCHANGED <<buff_tail, mem, next, siz, query, ticks, ahead>>
        /\ pc = "starting" /\ pc' = "ready" /\ channel'.left = Size /\ channel'.auto
    BY <1>8 DEF StartDma, streamVars, DmaStart, At, Goto
  <2>2. ahead = Size /\ buff_tail = 0
    BY <1>1, <2>1 DEF RingInv, Running, After
  <2>3. Since(0)'
    <3>1. Position' = Align * 0 /\ 0 \in 0 .. Size - ahead
      BY <1>2, <2>1, <2>2, SoundSbAssumption DEF Position
    <3>2. Aligned(Position' - 0)
      BY <3>1 DEF Aligned
    <3> QED
      BY <2>1, <3>1, <3>2 DEF Since
  <2>4. RingInv' /\ QueryInv'
    BY <1>2, <2>1, <2>2, <2>3 DEF RingInv, QueryInv, Running, After, Position
  <2> QED
    BY <1>3, <2>1, <2>4 DEF StreamInv
<1>9. CASE (Opening /\ ~StartDma) /\ UNCHANGED streamVars
  <2>1. /\ pc \notin Running \cup After /\ pc' \notin Running \cup After
        /\ UNCHANGED channel \/ ~channel'.auto
    <3>1. CASE ReadEnvironment \/ FindPort \/ FindIrq \/ Sight \/ SightTimeout \/ PickIrq
      <4>1. /\ pc \in {"init", "port", "irq", "sight", "pick"} /\ UNCHANGED channel
            /\ pc' \in {"port", "irq", "sight", "pick", "wild", "detected", "dma"}
        <5>1. CASE ReadEnvironment
          BY <5>1 DEF ReadEnvironment, At, Goto, dmaVars
        <5>2. CASE FindPort
          BY <5>2 DEF FindPort, At, Goto, dmaVars
        <5>3. CASE FindIrq
          BY <5>3 DEF FindIrq, Wild, At, Goto, dmaVars
        <5>4. CASE Sight
          BY <5>4 DEF Sight, At, Goto, dmaVars
        <5>5. CASE SightTimeout
          BY <5>5 DEF SightTimeout, At, Goto, dmaVars
        <5>6. CASE PickIrq
          BY <5>6 DEF PickIrq, At, Goto, dmaVars
        <5> QED
          BY <3>1, <5>1, <5>2, <5>3, <5>4, <5>5, <5>6
      <4> QED
        BY <4>1 DEF Running, After
    <3>2. CASE FindDma \/ TryChannel \/ TrialHit \/ TrialMiss \/ TrialsEnd
      BY <3>2 DEF FindDma, Wild, TryChannel, TrialHit, TrialMiss, TrialsEnd, At, Goto, DmaStart,
         DmaDisable, NoChannel, dmaVars, Running, After
    <3>3. CASE Detected \/ Open \/ AskForBuffer \/ StartFailed
      BY <3>3 DEF Detected, Open, Wild, AskForBuffer, StartFailed, DmaAllocate, At, Goto,
         dmaVars, Running, After
    <3>4. CASE Allocate
      BY <3>4 DEF Allocate, AllocateStep, Resize, Reallocate, OutOfMemory, Found, NotLocked, At,
         Running, After
    <3> QED
      BY <1>9, <3>1, <3>2, <3>3, <3>4 DEF Opening
  <2>2. UNCHANGED <<buff_tail, mem, next, siz, query, ticks, ahead>>
    BY <1>9 DEF streamVars
  <2>3. RingInv' /\ QueryInv'
    BY <1>1, <2>1, <2>2 DEF RingInv, QueryInv, Running
  <2> QED
    BY <1>3, <2>2, <2>3 DEF StreamInv
<1>10. CASE Closing /\ UNCHANGED streamVars
  <2>1. pc' \in After
    BY <1>10 DEF Closing, Halt, CloseChannel, FreeBuffer, Close, Goto, After
  <2>2. UNCHANGED <<buff_tail, mem, next, siz, query, ticks, ahead>>
    BY <1>10 DEF streamVars
  <2>3. RingInv' /\ QueryInv'
    BY <2>1 DEF RingInv, QueryInv, Running, After
  <2> QED
    BY <1>3, <2>2, <2>3 DEF StreamInv
<1>11. CASE \E n \in FrameSizes : Play(n)
  <2>1. /\ UNCHANGED <<channel, buff_tail, mem, next, query, ticks, ahead>>
        /\ siz' \in Nat /\ pc = "ready" /\ pc' = "query"
    BY <1>11, SoundSbAssumption DEF Play, At, Goto, dmaVars
  <2>2. StreamTypes' /\ Contents'
    BY <1>1, <2>1 DEF StreamTypes, Contents, Back, Ago
  <2>3. RingInv' /\ QueryInv'
    BY <1>1, <2>1 DEF RingInv, QueryInv, Running, Since, Aligned, Position
  <2> QED
    BY <2>2, <2>3 DEF StreamInv
<1>12. ASSUME UNCHANGED <<channel, buff_tail, ahead>>, pc \in Running, pc' \in Running
       PROVE  /\ RingInv'
              /\ \A d \in Nat : /\ Lo(d)' = Lo(d) /\ Hi(d)' = Hi(d)
                                /\ Since(d) => Since(d)'
  BY <1>1, <1>12 DEF RingInv, Since, Aligned, Lo, Hi, Reg, Register, Position, Running
<1>13. ASSUME pc \in Running
       PROVE  /\ Register \in 0 .. Size - 1 /\ Position = Size - 1 - Register /\ Since(0)
              /\ Low = Lo(0) /\ High = Hi(0) /\ Low \in Int /\ High * ByteBase \in Int
              /\ \A d \in 0 .. MaxTicks : Reg(d) \in 0 .. Size - 1
  <2>1. channel.left \in 1 .. Size /\ Since(0)
    BY <1>1, <1>13 DEF RingInv
  <2>2. Register \in 0 .. Size - 1 /\ Position = Size - 1 - Register
    BY <1>2, <2>1 DEF Register, Position
  <2>3. Reg(0) = Register /\ \A d \in 0 .. MaxTicks : Reg(d) \in 0 .. Size - 1
    BY <1>2, <2>2 DEF Reg
  <2>4. PICK r \in 0 .. Size - 1 : r = Register
    BY <2>2
  <2>5. r % ByteBase \in Int /\ r \div ByteBase \in Int
    BY <1>2
  <2>6. (r \div ByteBase) * ByteBase \in Int
    BY <1>2, <2>5
  <2> QED
    BY <2>1, <2>2, <2>3, <2>4, <2>5, <2>6 DEF Low, High, Lo, Hi
<1>14. ASSUME UNCHANGED <<buff_tail, mem, next, siz, ahead>>, ticks' \in 0 .. MaxTicks,
              query' \in [low : Int, test : Int, pos : Int]
       PROVE  StreamTypes' /\ Contents'
  BY <1>1, <1>14 DEF StreamTypes, Contents, Back, Ago
<1>15. CASE ReadLow
  <2>1. /\ UNCHANGED <<channel, buff_tail, mem, next, siz, ahead, ticks>>
        /\ pc = "query" /\ pc' = "high" /\ query' = [NoQuery EXCEPT !.low = Low]
    BY <1>15 DEF ReadLow, QueryStep, At, Goto, dmaVars
  <2>2. pc \in Running /\ pc' \in Running
    BY <2>1 DEF Running
  <2>3. query' \in [low : Int, test : Int, pos : Int] /\ query'.low = Low
    <3>1. query' = [low |-> Low, test |-> 0, pos |-> 0] /\ Low \in Int
      BY <1>13, <2>1, <2>2 DEF NoQuery
    <3> QED
      BY <3>1
  <2>4. StreamTypes' /\ Contents'
    BY <1>1, <1>14, <2>1, <2>3 DEF StreamTypes
  <2>5. query'.low = Lo(0)' /\ Since(0)' /\ 0 \in 0 .. ticks'
    BY <1>1, <1>12, <1>13, <2>1, <2>2, <2>3 DEF StreamTypes
  <2> QED
    BY <1>12, <2>1, <2>2, <2>4, <2>5 DEF StreamInv, QueryInv
<1>16. CASE ReadHigh
  <2>1. /\ UNCHANGED <<channel, buff_tail, mem, next, siz, ahead, ticks>>
        /\ pc = "high" /\ pc' = "low2" /\ query' = [query EXCEPT !.test = Reading]
    BY <1>16 DEF ReadHigh, QueryStep, At, Goto, dmaVars
  <2>2. pc \in Running /\ pc' \in Running
    BY <2>1 DEF Running
  <2>3. query.low \in Int /\ High * ByteBase \in Int /\ ticks \in Nat
    BY <1>1, <1>13, <2>2 DEF StreamTypes
  <2>4. /\ query' \in [low : Int, test : Int, pos : Int]
        /\ query'.test = Hi(0) * ByteBase + query.low + 1
    <3>1. Reading \in Int /\ Reading = Hi(0) * ByteBase + query.low + 1
      BY <1>13, <2>2, <2>3 DEF Reading
    <3> QED
      BY <1>1, <2>1, <3>1 DEF StreamTypes
  <2>5. StreamTypes' /\ Contents'
    BY <1>1, <1>14, <2>1, <2>4 DEF StreamTypes
  <2>6. PICK a \in 0 .. ticks : query.low = Lo(a) /\ Since(a)
    BY <1>1, <2>1 DEF QueryInv
  <2>7. /\ a \in 0 .. ticks' /\ 0 \in 0 .. ticks' /\ 0 <= a /\ Since(a)'
        /\ query'.test = Hi(0)' * ByteBase + Lo(a)' + 1
    BY <1>12, <2>1, <2>2, <2>3, <2>4, <2>6
  <2> QED
    BY <1>12, <2>1, <2>2, <2>5, <2>7 DEF StreamInv, QueryInv
<1>17. CASE ReadLow2
  <2>1. /\ UNCHANGED <<channel, buff_tail, mem, next, siz, ahead, ticks>>
        /\ pc = "low2" /\ pc' = "high2" /\ query' = [query EXCEPT !.low = Low]
    BY <1>17 DEF ReadLow2, QueryStep, At, Goto, dmaVars
  <2>2. pc \in Running /\ pc' \in Running
    BY <2>1 DEF Running
  <2>3. /\ query' \in [low : Int, test : Int, pos : Int]
        /\ query'.test = query.test /\ query'.low = Lo(0) /\ ticks \in Nat
    BY <1>1, <1>13, <2>1, <2>2 DEF StreamTypes
  <2>4. StreamTypes' /\ Contents'
    BY <1>1, <1>14, <2>1, <2>3 DEF StreamTypes
  <2>5. PICK a \in 0 .. ticks, b \in 0 .. ticks :
          b <= a /\ Since(a) /\ query.test = Hi(b) * ByteBase + Lo(a) + 1
    BY <1>1, <2>1 DEF QueryInv
  <2>6. /\ a \in 0 .. ticks' /\ b \in 0 .. ticks' /\ 0 \in 0 .. ticks' /\ 0 <= b /\ b <= a
        /\ Since(a)' /\ query'.low = Lo(0)'
        /\ query'.test = Hi(b)' * ByteBase + Lo(a)' + 1
    BY <1>12, <2>1, <2>2, <2>3, <2>5
  <2> QED
    BY <1>12, <2>1, <2>2, <2>4, <2>6 DEF StreamInv, QueryInv
<1>18. CASE ReadHigh2
  <2>1. /\ UNCHANGED <<channel, buff_tail, mem, next, siz, ahead>>
        /\ pc = "high2" /\ pc' = "write" /\ ticks' = 0
        /\ Accepted /\ query' = [NoQuery EXCEPT !.pos = Size - Reading]
    BY <1>18 DEF ReadHigh2, QueryStep, At, Goto, dmaVars
  <2>2. pc \in Running /\ pc' \in Running
    BY <2>1 DEF Running
  <2>3. PICK a \in 0 .. ticks, b \in 0 .. ticks, c \in 0 .. ticks :
          /\ c <= b /\ b <= a /\ Since(a)
          /\ query.test = Hi(b) * ByteBase + Lo(a) + 1
          /\ query.low = Lo(c)
    BY <1>1, <2>1 DEF QueryInv
  <2>4. a \in 0 .. MaxTicks /\ b \in 0 .. MaxTicks /\ c \in 0 .. MaxTicks
    <3>1. ticks \in 0 .. MaxTicks
      BY <1>1 DEF StreamTypes
    <3> QED
      BY <1>2, <3>1
  <2>5. PICK ra \in 0 .. Size - 1, rb \in 0 .. Size - 1, rc \in 0 .. Size - 1,
             rd \in 0 .. Size - 1 :
          ra = Reg(a) /\ rb = Reg(b) /\ rc = Reg(c) /\ rd = Register
    BY <1>13, <2>2, <2>4
  <2>6. Reading - 1 = rc
    <3> DEFINE first  == (rb \div ByteBase) * ByteBase + (ra % ByteBase)
               second == (rd \div ByteBase) * ByteBase + (rc % ByteBase)
    <3>1. first \in Int /\ second \in Int
      <4>1. ASSUME NEW x \in 0 .. Size - 1
            PROVE  (x \div ByteBase) * ByteBase \in Int /\ x % ByteBase \in Int
        <5>1. x \div ByteBase \in Int /\ x % ByteBase \in Int
          BY <1>2
        <5> QED
          BY <1>2, <5>1
      <4> QED
        BY <4>1
    <3>2. query.test = first + 1 /\ Reading = second + 1
      BY <2>3, <2>5 DEF Reading, High, Hi, Lo
    <3>3. second >= first /\ second - first < Near
      <4> HIDE DEF first, second
      <4> QED
        BY <1>2, <2>1, <3>1, <3>2 DEF Accepted
    <3>4. /\ rb \in {ra - (a - b), ra - (a - b) + Size}
          /\ rc \in {rb - (b - c), rb - (b - c) + Size}
          /\ rd \in {rc - c, rc - c + Size}
      BY <1>2, <2>3, <2>4, <2>5 DEF Reg
    <3>5. a - b \in Nat /\ b - c \in Nat /\ c \in Nat /\ (a - b) + (b - c) + c <= MaxTicks
      BY <2>3, <2>4
    <3>6. second = rc
      BY <1>2, <3>3, <3>4, <3>5, SecondReading
    <3> HIDE DEF second
    <3> QED
      BY <3>1, <3>2, <3>6
  <2>7. query' = [low |-> 0, test |-> 0, pos |-> Size - 1 - rc] /\ Size - 1 - rc \in Places
    <3>1. Size - Reading = Size - 1 - rc
      <4>1. query.test \in Int /\ Reading \in Int
        <5>1. query.low \in Int
          BY <1>1 DEF StreamTypes
        <5>2. High * ByteBase \in Int
          BY <1>13, <2>2
        <5> QED
          BY <1>1, <5>1, <5>2 DEF StreamTypes, Reading
      <4> QED
        BY <1>2, <2>6, <4>1
    <3> QED
      BY <1>2, <2>1, <3>1 DEF NoQuery, Places
  <2>8. StreamTypes' /\ Contents'
    <3>1. query' \in [low : Int, test : Int, pos : Int] /\ 0 \in 0 .. MaxTicks
      BY <1>2, <2>7 DEF Places
    <3> QED
      BY <1>14, <2>1, <3>1
  <2>9. ASSUME ahead > 0
        PROVE  \E d \in 0 .. Size - ahead, e \in 0 .. Size - ahead :
                 /\ d <= e /\ Aligned(Position - e)
                 /\ Position - d - query'.pos \in {0, -Size}
    <3>1. PICK e \in a .. Size - ahead : Aligned(Position - e)
      BY <2>3, <2>9 DEF Since
    <3>2. c \in 0 .. Size - ahead /\ e \in 0 .. Size - ahead /\ c <= e
      BY <1>1, <1>2, <2>3, <2>4, <3>1 DEF StreamTypes
    <3>3. Position - c - query'.pos \in {0, -Size}
      BY <1>2, <1>13, <2>2, <2>4, <2>5, <2>7 DEF Reg
    <3> QED
      BY <3>1, <3>2, <3>3
  <2>10. QueryInv'
    <3>1. Position' = Position /\ query'.pos \in Places /\ ahead' = ahead
      BY <2>1, <2>7 DEF Position
    <3> QED
      BY <2>1, <2>9, <3>1 DEF QueryInv
  <2> QED
    BY <1>12, <2>1, <2>2, <2>8, <2>10 DEF StreamInv
<1>19. CASE ReadAgain
  <2>1. /\ UNCHANGED <<channel, buff_tail, mem, next, siz, ahead, ticks>>
        /\ pc = "high2" /\ pc' = "query" /\ query' = NoQuery
    BY <1>19 DEF ReadAgain, QueryStep, At, Goto, dmaVars
  <2>2. pc \in Running /\ pc' \in Running /\ NoQuery \in [low : Int, test : Int, pos : Int]
    BY <2>1 DEF Running, NoQuery
  <2>3. StreamTypes' /\ Contents' /\ QueryInv'
    BY <1>1, <1>14, <2>1, <2>2 DEF StreamTypes, QueryInv
  <2> QED
    BY <1>12, <2>1, <2>2, <2>3 DEF StreamInv
<1>20. CASE Tick
  <2>1. /\ UNCHANGED <<pc, buff_tail, mem, next, siz, query>>
        /\ Hurried => ticks < MaxTicks
        /\ ticks' = IF Hurried THEN ticks + 1 ELSE 0
        /\ ahead' = IF channel.auto /\ ahead > 0 THEN ahead - 1 ELSE ahead
        /\ Transfer
    BY <1>20 DEF Tick
  <2>2. StreamTypes' /\ Contents'
    <3>1. ticks' \in 0 .. MaxTicks /\ ahead' \in 0 .. ahead /\ ahead' \in 0 .. Size
      BY <1>1, <1>2, <2>1 DEF StreamTypes
    <3>2. StreamTypes'
      BY <1>1, <2>1, <3>1 DEF StreamTypes
    <3>3. \A d \in 1 .. ahead' : d \in 1 .. ahead /\ Back(d)' = Back(d) /\ Ago(d)' = Ago(d)
      BY <1>1, <2>1, <3>1 DEF StreamTypes, Back, Ago
    <3> QED
      BY <1>1, <2>1, <3>2, <3>3 DEF Contents
  <2>3. CASE pc \notin Running
    <3>1. channel.auto \/ ~channel'.auto
      BY <1>1, <2>1 DEF Transfer, NoChannel, SbTypes
    <3> QED
      BY <1>1, <2>1, <2>2, <2>3, <3>1 DEF RingInv, QueryInv, Running, StreamInv
  <2>4. CASE pc \in Running
    <3>1. /\ channel.auto /\ channel.left \in 1 .. Size
          /\ ahead > 0 => Position + ahead - buff_tail \in {0, Size}
      BY <1>1, <2>4 DEF RingInv
    <3>2. /\ channel'.auto
          /\ channel'.left = IF channel.left > 1 THEN channel.left - 1 ELSE Size
          /\ channel'.left \in 1 .. Size
      BY <1>1, <1>2, <2>1, <3>1 DEF Transfer, SbTypes
    <3>3. /\ Position \in 0 .. Size - 1 /\ Register \in 0 .. Size - 1
          /\ \/ Position' = Position + 1 /\ Register' = Register - 1
             \/ Position = Size - 1 /\ Position' = 0 /\ Register = 0 /\ Register' = Size - 1
      BY <1>2, <3>1, <3>2 DEF Position, Register
    <3>4. \A d \in 0 .. MaxTicks : Lo(d + 1)' = Lo(d) /\ Hi(d + 1)' = Hi(d)
      <4>1. \A d \in 0 .. MaxTicks : Reg(d + 1)' = Reg(d)
        BY <1>2, <3>3 DEF Reg
      <4> QED
        BY <4>1 DEF Lo, Hi
    <3>5. ahead' > 0 => ahead' = ahead - 1 /\ ahead \in 1 .. Size
      BY <1>1, <2>1, <3>1 DEF StreamTypes
    <3>6. ASSUME NEW e \in Int, Aligned(Position - e)
          PROVE  Aligned(Position' - (e + 1))
      <4>1. PICK k \in Int : Position - e = Align * k
        BY <3>6 DEF Aligned
      <4>2. CASE Position' = Position + 1
        <5>1. Position' - (e + 1) = Align * k
          BY <3>3, <4>1, <4>2
        <5> QED
          BY <5>1 DEF Aligned
      <4>3. CASE Position = Size - 1 /\ Position' = 0
        <5>1. PICK s \in Int : Size = Align * s
          BY <1>2, SoundSbAssumption
        <5>2. Align * (k - s) = Align * k - Align * s /\ k - s \in Int
          BY SoundSbAssumption
        <5>3. Position' - (e + 1) = Align * (k - s)
          BY <1>2, <4>1, <4>3, <5>1, <5>2
        <5> QED
          BY <5>2, <5>3 DEF Aligned
      <4> QED
        BY <3>3, <4>2, <4>3
    <3>7. ASSUME NEW a \in Nat, Since(a)
          PROVE  Since(a + 1)' /\ Since(0)'
      <4> SUFFICES ASSUME ahead' > 0
                   PROVE  \E e \in a + 1 .. Size - ahead' : Aligned(Position' - e)
        BY <1>2, <3>5 DEF Since
      <4>1. PICK e \in a .. Size - ahead : Aligned(Position - e)
        BY <3>5, <3>7 DEF Since
      <4>2. e \in Int /\ e + 1 \in a + 1 .. Size - ahead'
        BY <1>2, <3>5, <4>1
      <4>3. Aligned(Position' - (e + 1))
        BY <3>6, <4>1, <4>2
      <4> QED
        BY <4>2, <4>3
    <3>8. RingInv'
      <4>1. ahead' > 0 => Position' + ahead' - buff_tail' \in {0, Size}
        BY <1>1, <1>2, <2>1, <3>1, <3>3, <3>5 DEF StreamTypes
      <4>2. Since(0)'
        BY <1>13, <2>4, <3>7
      <4> QED
        BY <2>1, <2>4, <3>2, <4>1, <4>2 DEF RingInv
    <3>9. ASSUME InPlay
          PROVE  /\ ticks' = ticks + 1 /\ ticks \in Nat /\ ticks <= MaxTicks
                 /\ \A d \in 0 .. ticks : d + 1 \in 0 .. ticks' /\ d \in 0 .. MaxTicks
      BY <1>1, <1>2, <2>1, <3>9 DEF StreamTypes, Hurried
    <3>10. QueryInv'
      <4>1. CASE pc = "high"
        <5>1. PICK a \in 0 .. ticks : query.low = Lo(a) /\ Since(a)
          BY <1>1, <4>1 DEF QueryInv
        <5>2. a + 1 \in 0 .. ticks' /\ query'.low = Lo(a + 1)' /\ Since(a + 1)'
          BY <2>1, <3>4, <3>7, <3>9, <4>1, <5>1 DEF InPlay
        <5> QED
          BY <2>1, <4>1, <5>2 DEF QueryInv
      <4>2. CASE pc = "low2"
        <5>1. PICK a \in 0 .. ticks, b \in 0 .. ticks :
                b <= a /\ Since(a) /\ query.test = Hi(b) * ByteBase + Lo(a) + 1
          BY <1>1, <4>2 DEF QueryInv
        <5>2. /\ a + 1 \in 0 .. ticks' /\ b + 1 \in 0 .. ticks' /\ b + 1 <= a + 1
              /\ Since(a + 1)' /\ Lo(a + 1)' = Lo(a) /\ Hi(b + 1)' = Hi(b)
          BY <3>4, <3>7, <3>9, <4>2, <5>1 DEF InPlay
        <5>3. query'.test = Hi(b + 1)' * ByteBase + Lo(a + 1)' + 1
          BY <2>1, <5>1, <5>2
        <5> QED
          BY <2>1, <4>2, <5>2, <5>3 DEF QueryInv
      <4>3. CASE pc = "high2"
        <5>1. PICK a \in 0 .. ticks, b \in 0 .. ticks, c \in 0 .. ticks :
                /\ c <= b /\ b <= a /\ Since(a)
                /\ query.test = Hi(b) * ByteBase + Lo(a) + 1
                /\ query.low = Lo(c)
          BY <1>1, <4>3 DEF QueryInv
        <5>2. /\ a + 1 \in 0 .. ticks' /\ b + 1 \in 0 .. ticks' /\ c + 1 \in 0 .. ticks'
              /\ c + 1 <= b + 1 /\ b + 1 <= a + 1
              /\ Since(a + 1)' /\ Lo(a + 1)' = Lo(a) /\ Hi(b + 1)' = Hi(b) /\ Lo(c + 1)' = Lo(c)
          BY <3>4, <3>7, <3>9, <4>3, <5>1 DEF InPlay
        <5>3. query'.test = Hi(b + 1)' * ByteBase + Lo(a + 1)' + 1 /\ query'.low = Lo(c + 1)'
          BY <2>1, <5>1, <5>2
        <5> QED
          BY <2>1, <4>3, <5>2, <5>3 DEF QueryInv
      <4>4. CASE pc = "write"
        <5>1. /\ query.pos \in Places
              /\ ahead > 0 => \E d \in 0 .. Size - ahead, e \in 0 .. Size - ahead :
                   /\ d <= e /\ Aligned(Position - e)
                   /\ Position - d - query.pos \in {0, -Size}
          BY <1>1, <4>4 DEF QueryInv
        <5>2. ASSUME ahead' > 0
              PROVE  \E d \in 0 .. Size - ahead', e \in 0 .. Size - ahead' :
                       /\ d <= e /\ Aligned(Position' - e)
                       /\ Position' - d - query.pos \in {0, -Size}
          <6>1. ahead' = ahead - 1 /\ ahead \in 1 .. Size
            BY <3>5, <5>2
          <6>2. PICK d \in 0 .. Size - ahead, e \in 0 .. Size - ahead :
                  /\ d <= e /\ Aligned(Position - e)
                  /\ Position - d - query.pos \in {0, -Size}
            BY <5>1, <6>1
          <6>3. /\ d + 1 \in 0 .. Size - ahead' /\ e + 1 \in 0 .. Size - ahead'
                /\ d + 1 <= e + 1 /\ Aligned(Position' - (e + 1))
            BY <1>2, <3>6, <6>1, <6>2
          <6>4. Position' - (d + 1) - query.pos \in {0, -Size}
            <7>1. query.pos \in 0 .. Size - 1 /\ d \in 0 .. Size - 1
              BY <1>2, <5>1, <6>1, <6>2 DEF Places
            <7>2. CASE Position' = Position + 1
              BY <1>2, <3>3, <6>2, <7>1, <7>2
            <7>3. CASE Position = Size - 1 /\ Position' = 0
              BY <1>2, <3>3, <6>2, <7>1, <7>3
            <7> QED
              BY <3>3, <7>2, <7>3
          <6> QED
            BY <6>3, <6>4
        <5> QED
          BY <2>1, <4>4, <5>1, <5>2 DEF QueryInv
      <4>5. CASE pc \notin {"high", "low2", "high2", "write"}
        BY <2>1, <4>5 DEF QueryInv
      <4> QED
        BY <4>1, <4>2, <4>3, <4>4, <4>5
    <3> QED
      BY <2>2, <3>8, <3>10 DEF StreamInv
  <2> QED
    BY <2>3, <2>4
<1>21. CASE Write
  <2>1. /\ UNCHANGED <<channel, ticks>> /\ pc = "write" /\ pc' \in {"ready", "query"}
        /\ query' = NoQuery
    BY <1>21 DEF Write, At, Goto, dmaVars
  <2>2. pc \in Running /\ pc' \in Running /\ query' \in [low : Int, test : Int, pos : Int]
    BY <2>1 DEF Running, NoQuery
  <2>3. query.pos \in 0 .. Size - 1
    BY <1>1, <1>2, <2>1 DEF QueryInv, Places
  <2>4. PICK P \in 0 .. Size - 1 : P = dma_pos /\ P <= query.pos /\ query.pos < P + Align /\ Aligned(P)
    <3>1. PICK p \in Nat : p = query.pos
      BY <1>2, <2>3
    <3>2. /\ Align \in Nat \ {0} /\ p \div Align \in Int
          /\ (p \div Align) * Align = Align * (p \div Align)
      <4>1. Align \in Nat \ {0} /\ p \div Align \in Int
        BY SoundSbAssumption
      <4> QED
        BY <4>1
    <3>3. PICK i \in Nat, r \in 0 .. Align - 1 :
            i = (p \div Align) * Align /\ r = p % Align /\ p = i + r
      <4>1. \E i \in Nat, r \in 0 .. Align - 1 :
              /\ i = (p \div Align) * Align /\ r = p % Align
              /\ p = i + r /\ (i = 0 \/ i >= Align)
        BY ONLY <3>1, <3>2, Blocks, Zenon
      <4> QED
        BY <4>1, Zenon
    <3>4. dma_pos = p - r
      BY <3>1, <3>3 DEF dma_pos
    <3>5. i = p - r /\ p < i + Align /\ i <= p /\ p <= Size - 1
      <4>1. p = i + r /\ Align \in Nat /\ Size \in Nat /\ p <= Size - 1
        BY <1>2, <2>3, <3>1, <3>2, <3>3
      <4> QED
        BY <4>1
    <3>6. i \in 0 .. Size - 1
      BY <1>2, <3>5
    <3>7. Aligned(i)
      BY <3>2, <3>3 DEF Aligned
    <3> QED
      BY <3>1, <3>4, <3>5, <3>6, <3>7
  <2>5. ASSUME NEW x \in Int, Aligned(x)
        PROVE  Aligned(x + Size) /\ Aligned(x - Size) /\ (x <= query.pos => x <= P)
    <3>1. PICK k \in Int, s \in Int, q \in Int : x = Align * k /\ Size = Align * s /\ P = Align * q
      <4>1. PICK s \in Int : Size = Align * s
        BY <1>2, SoundSbAssumption
      <4> QED
        BY <2>4, <2>5, <4>1 DEF Aligned
    <3>2. /\ Align \in Nat \ {0}
          /\ Align * (k + s) = Align * k + Align * s
          /\ Align * (k - s) = Align * k - Align * s
      BY SoundSbAssumption
    <3>3. Aligned(x + Size) /\ Aligned(x - Size)
      BY <3>1, <3>2 DEF Aligned
    <3>4. x <= query.pos => x <= P
      <4>1. PICK d \in Int : d = k - q
        OBVIOUS
      <4>2. Align * k = Align * q + Align * d /\ Align * d \in Int /\ Align * q \in Int
        BY <3>2, <4>1
      <4>3. d >= 1 => Align * d >= Align
        BY <3>2
      <4> QED
        BY <2>3, <2>4, <3>1, <3>2, <4>1, <4>2, <4>3
    <3> QED
      BY <3>3, <3>4
  <2>6. PICK t \in 0 .. Size, n \in 0 .. Size : t = buff_tail /\ n = next
    BY <1>1 DEF StreamTypes, Numbers
  <2>7. ASSUME NEW x \in 0 .. Size, NEW k \in 0 .. Size
        PROVE  Later(x, k) = IF x + k <= Size THEN x + k ELSE x + k - (Size + 1)
    <3>1. PICK m \in Nat \ {0} : m = Size + 1
      BY <1>2
    <3>2. PICK a \in 0 .. 2 * m - 1 : a = x + k
      BY <1>2, <3>1
    <3>3. a % m = IF a < m THEN a ELSE a - m
      BY ModuloOnce
    <3> QED
      BY <1>2, <3>1, <3>2, <3>3 DEF Later
  <2>8. PICK room \in 0 .. Size - 1 : room = IF P >= t THEN P - t ELSE P - t + Size
    <3>1. (IF P >= t THEN P - t ELSE P - t + Size) \in 0 .. Size - 1
      BY <1>2
    <3> QED
      BY <3>1
  <2>9. PICK cnt \in 0 .. room :
          /\ siz' = siz - cnt /\ cnt <= siz
          /\ buff_tail' \in {t + cnt, t + cnt - Size} /\ buff_tail' \in 0 .. Size
          /\ next' = Later(n, cnt) /\ mem' \in [Places -> Int]
          /\ \A d \in 1 .. Size :
               mem'[Back(d)'] = IF d <= cnt THEN Ago(d)' ELSE mem[Back(d - cnt)]
    <3> DEFINE Stores(c) ==
          /\ siz' = siz - c /\ c <= siz
          /\ buff_tail' \in {t + c, t + c - Size} /\ buff_tail' \in 0 .. Size
          /\ next' = Later(n, c) /\ mem' \in [Places -> Int]
          /\ \A d \in 1 .. Size :
               mem'[Back(d)'] = IF d <= c THEN Ago(d)' ELSE mem[Back(d - c)]
    <3>1. siz \in Nat /\ mem \in [Places -> Int] /\ Places = 0 .. Size - 1
      BY <1>1 DEF StreamTypes, Places
    <3>2. ASSUME NEW x \in 0 .. Size, NEW k \in 0 .. Size
          PROVE  Later(x, k) \in 0 .. Size
      BY <1>2, <2>7
    <3>3. ASSUME NEW c \in 0 .. room, c <= siz, t + c <= Size, siz' = siz - c,
                 buff_tail' = t + c, next' = Later(n, c), mem' = Stored(mem, t, c, n)
          PROVE  \E cnt \in 0 .. room : Stores(cnt)
      <4>1. \A j \in Places :
              mem'[j] = IF j >= t /\ j < t + c THEN Later(n, j - t) ELSE mem[j]
        BY <3>1, <3>3 DEF Stored
      <4>2. mem' \in [Places -> Int]
        <5>1. ASSUME NEW j \in Places, j >= t /\ j < t + c
              PROVE  Later(n, j - t) \in Int
          BY <1>2, <3>1, <3>2, <5>1
        <5> QED
          BY <3>1, <3>3, <5>1 DEF Stored
      <4>3. ASSUME NEW d \in 1 .. Size
            PROVE  mem'[Back(d)'] = IF d <= c THEN Ago(d)' ELSE mem[Back(d - c)]
        <5>1. PICK j \in 0 .. Size - 1 : j = IF t + c >= d THEN t + c - d ELSE t + c - d + Size
          <6>1. (IF t + c >= d THEN t + c - d ELSE t + c - d + Size) \in 0 .. Size - 1
            BY <1>2, <3>3
          <6> QED
            BY <6>1
        <5>2. Back(d)' = j
          BY <3>3, <5>1 DEF Back
        <5>3. CASE d <= c
          <6>1. j >= t /\ j < t + c /\ j - t = c - d /\ c - d \in 0 .. Size /\ c \in 0 .. Size
            BY <1>2, <5>1, <5>3
          <6>2. PICK m \in 0 .. Size : m = Later(n, c)
            BY <3>2, <6>1
          <6>3. m = IF n + c <= Size THEN n + c ELSE n + c - (Size + 1)
            BY <2>7, <6>1, <6>2
          <6>4. Later(n, c - d) = IF n + (c - d) <= Size THEN n + (c - d) ELSE n + (c - d) - (Size + 1)
            BY <2>7, <6>1
          <6>5. (IF n + (c - d) <= Size THEN n + (c - d) ELSE n + (c - d) - (Size + 1))
                  = IF m >= d THEN m - d ELSE m - d + Size + 1
            BY <1>2, <5>3, <6>1, <6>3
          <6>6. Ago(d)' = IF m >= d THEN m - d ELSE m - d + Size + 1
            BY <3>3, <6>2 DEF Ago
          <6>7. mem'[j] = Later(n, c - d)
            BY <3>1, <4>1, <6>1
          <6> QED
            BY <5>2, <5>3, <6>4, <6>5, <6>6, <6>7
        <5>4. CASE d > c
          <6>1. ~(j >= t /\ j < t + c) /\ j = IF t >= d - c THEN t - (d - c) ELSE t - (d - c) + Size
            BY <1>2, <3>3, <5>1, <5>4
          <6>2. Back(d - c) = j
            BY <2>6, <6>1 DEF Back
          <6>3. mem'[j] = mem[j]
            BY <3>1, <4>1, <6>1
          <6> QED
            BY <1>2, <5>2, <5>4, <6>2, <6>3
        <5> QED
          BY <1>2, <5>3, <5>4
      <4> QED
        BY <1>2, <3>3, <4>2, <4>3
    <3>4. CASE P = t
      <4>1. UNCHANGED <<mem, buff_tail, next, siz>>
        BY <1>21, <2>4, <2>6, <3>4 DEF Write
      <4>2. Later(n, 0) = n
        BY <1>2, <2>7
      <4>3. Stored(mem, t, 0, n) = mem
        BY <1>2, <3>1 DEF Stored
      <4> QED
        BY <1>2, <2>6, <3>1, <3>3, <4>1, <4>2, <4>3
    <3>5. CASE P > t
      <4>1. PICK c \in 0 .. room : c = Least(P - t, siz) /\ c <= siz /\ t + c <= P
        <5>1. /\ Least(P - t, siz) \in 0 .. room
              /\ Least(P - t, siz) <= siz /\ t + Least(P - t, siz) <= P
          BY <1>2, <2>8, <3>1, <3>5 DEF Least
        <5> QED
          BY <5>1
      <4>2. FillAhead
        BY <1>21, <1>2, <2>4, <2>6, <3>5 DEF Write
      <4>3. /\ siz' = siz - c /\ next' = Later(n, c) /\ mem' = Stored(mem, t, c, n)
            /\ buff_tail' = IF t + c >= Size THEN 0 ELSE t + c
        BY <2>4, <2>6, <4>1, <4>2 DEF FillAhead
      <4>4. t + c < Size
        BY <1>2, <4>1
      <4> QED
        BY <1>2, <3>3, <4>1, <4>3, <4>4
    <3>6. CASE P < t
      <4> DEFINE c0 == Least(Size - t, siz)
                 rest == Least(P, siz - c0)
                 end == Stored(mem, t, c0, n)
      <4>1. FillAround
        BY <1>21, <1>2, <2>4, <2>6, <3>6 DEF Write
      <4>2. /\ mem' = Stored(end, 0, rest, Later(n, c0))
            /\ buff_tail' = IF siz = c0 THEN t + c0 ELSE rest
            /\ next' = Later(n, c0 + rest)
            /\ siz' = siz - c0 - rest
        BY <2>4, <2>6, <4>1 DEF FillAround
      <4>3. CASE siz <= Size - t
        <5>1. c0 = siz /\ rest = 0 /\ siz + 0 = siz
          BY <1>2, <3>1, <4>3 DEF Least
        <5>2. mem' = Stored(end, 0, 0, Later(n, siz)) /\ end = Stored(mem, t, siz, n)
          BY <4>2, <5>1
        <5>3. Stored(end, 0, 0, Later(n, siz)) = end
          BY <1>2, <3>1, <5>2 DEF Stored
        <5>4. siz \in 0 .. room /\ siz <= siz /\ t + siz <= Size
          BY <1>2, <2>8, <3>1, <3>6, <4>3
        <5>5. siz' = siz - siz /\ buff_tail' = t + siz /\ next' = Later(n, siz)
          BY <3>1, <4>2, <5>1
        <5> QED
          BY <3>3, <5>2, <5>3, <5>4, <5>5
      <4>4. CASE siz > Size - t
        <5>1. c0 = Size - t
          BY <1>2, <3>1, <4>4 DEF Least
        <5>2. PICK g \in 0 .. P : g = rest /\ g <= siz - (Size - t) /\ siz # c0
          <6>1. rest \in 0 .. P /\ rest <= siz - (Size - t) /\ siz # c0
            BY <1>2, <3>1, <4>4, <5>1 DEF Least
          <6> QED
            BY <6>1
        <5>3. PICK c \in 0 .. room : c = Size - t + g /\ c <= siz /\ c \in 0 .. Size
          <6>1. Size - t + g \in 0 .. room /\ Size - t + g <= siz /\ Size - t + g \in 0 .. Size
            BY <1>2, <2>8, <3>1, <3>6, <5>2
          <6> QED
            BY <6>1
        <5>4. PICK f \in 0 .. Size : f = Later(n, Size - t)
          BY <1>2, <3>2
        <5>5. /\ siz' = siz - c /\ next' = Later(n, c) /\ buff_tail' = g /\ g = t + c - Size
              /\ mem' = Stored(end, 0, g, f) /\ end = Stored(mem, t, Size - t, n)
          <6>1. siz - (Size - t) - g = siz - c /\ g = t + c - Size
            BY <1>2, <3>1, <5>3
          <6> QED
            BY <4>2, <5>1, <5>2, <5>3, <5>4, <6>1
        <5>6. ASSUME NEW k \in 0 .. Size PROVE Later(n, k) \in Int /\ Later(f, k) \in Int
          BY <1>2, <3>2
        <5>7. \A j \in Places : end[j] = IF j >= t THEN Later(n, j - t) ELSE mem[j]
          BY <1>2, <3>1, <5>5 DEF Stored
        <5>8. \A j \in Places :
                mem'[j] = IF j < g THEN Later(f, j)
                          ELSE IF j >= t THEN Later(n, j - t) ELSE mem[j]
          <6> HIDE DEF end
          <6>1. \A j \in Places : mem'[j] = IF j < g THEN Later(f, j - 0) ELSE end[j]
            BY <1>2, <3>1, <5>5 DEF Stored
          <6> QED
            BY <3>1, <5>7, <6>1
        <5>9. mem' \in [Places -> Int]
          <6>1. mem' = [j \in Places |-> mem'[j]]
            BY <5>5 DEF Stored
          <6>2. ASSUME NEW j \in Places PROVE mem'[j] \in Int
            <7>1. mem[j] \in Int /\ j \in 0 .. Size /\ (j >= t => j - t \in 0 .. Size)
              BY <1>2, <3>1
            <7> QED
              BY <5>6, <5>8, <7>1
          <6> QED
            BY <6>1, <6>2
        <5>10. ASSUME NEW d \in 1 .. Size
               PROVE  mem'[Back(d)'] = IF d <= c THEN Ago(d)' ELSE mem[Back(d - c)]
          <6>1. PICK j \in 0 .. Size - 1 : j = IF g >= d THEN g - d ELSE g - d + Size
            <7>1. (IF g >= d THEN g - d ELSE g - d + Size) \in 0 .. Size - 1
              BY <1>2
            <7> QED
              BY <7>1
          <6>2. Back(d)' = j
            BY <5>5, <6>1 DEF Back
          <6>3. PICK m \in 0 .. Size : m = Later(n, c)
            BY <3>2, <5>3
          <6>4. m = IF n + c <= Size THEN n + c ELSE n + c - (Size + 1)
            BY <2>7, <5>3, <6>3
          <6>5. Ago(d)' = IF m >= d THEN m - d ELSE m - d + Size + 1
            BY <5>5, <6>3 DEF Ago
          <6>6. CASE d <= g
            <7>1. j < g /\ j = g - d /\ g - d \in 0 .. Size /\ Size - t \in 0 .. Size
              BY <1>2, <6>1, <6>6
            <7>2. f = IF n + (Size - t) <= Size THEN n + (Size - t)
                      ELSE n + (Size - t) - (Size + 1)
              BY <2>7, <5>4, <7>1
            <7>3. Later(f, g - d) = IF f + (g - d) <= Size THEN f + (g - d)
                                    ELSE f + (g - d) - (Size + 1)
              BY <2>7, <7>1
            <7>4. (IF f + (g - d) <= Size THEN f + (g - d) ELSE f + (g - d) - (Size + 1))
                    = IF m >= d THEN m - d ELSE m - d + Size + 1
              BY <1>2, <5>3, <6>4, <6>6, <7>1, <7>2
            <7>5. mem'[j] = Later(f, g - d) /\ d <= c
              BY <1>2, <3>1, <5>3, <5>8, <6>6, <7>1
            <7> QED
              BY <6>2, <6>5, <7>3, <7>4, <7>5
          <6>7. CASE d > g /\ d <= c
            <7>1. ~(j < g) /\ j >= t /\ j - t = c - d /\ c - d \in 0 .. Size
              BY <1>2, <3>6, <5>3, <6>1, <6>7
            <7>2. Later(n, c - d) = IF n + (c - d) <= Size THEN n + (c - d)
                                    ELSE n + (c - d) - (Size + 1)
              BY <2>7, <7>1
            <7>3. (IF n + (c - d) <= Size THEN n + (c - d) ELSE n + (c - d) - (Size + 1))
                    = IF m >= d THEN m - d ELSE m - d + Size + 1
              BY <1>2, <5>3, <6>4, <6>7, <7>1
            <7>4. mem'[j] = Later(n, c - d)
              BY <3>1, <5>8, <7>1
            <7> QED
              BY <6>2, <6>5, <6>7, <7>2, <7>3, <7>4
          <6>8. CASE d > c
            <7>1. /\ ~(j < g) /\ ~(j >= t)
                  /\ j = IF t >= d - c THEN t - (d - c) ELSE t - (d - c) + Size
              BY <1>2, <3>6, <5>3, <6>1, <6>8
            <7>2. Back(d - c) = j
              BY <2>6, <7>1 DEF Back
            <7>3. mem'[j] = mem[j]
              BY <3>1, <5>8, <7>1
            <7> QED
              BY <1>2, <5>3, <6>2, <6>8, <7>2, <7>3
          <6> QED
            BY <1>2, <5>3, <6>6, <6>7, <6>8
        <5>11. buff_tail' \in 0 .. Size /\ buff_tail' = t + c - Size
          BY <1>2, <5>5
        <5> QED
          BY <5>3, <5>5, <5>9, <5>10, <5>11
      <4>5. siz <= Size - t \/ siz > Size - t
        BY <1>2, <3>1
      <4> QED
        BY ONLY <4>3, <4>4, <4>5, Zenon
    <3>7. P = t \/ P > t \/ P < t
      BY <1>2
    <3> QED
      BY ONLY <3>4, <3>5, <3>6, <3>7, Zenon
  <2>10. cnt \in 0 .. Size - 1 /\ siz \in Nat /\ (room = P - t \/ room = P - t + Size)
    BY <1>1, <1>2, <2>8 DEF StreamTypes
  <2>11. next' \in 0 .. Size /\ (next' = n + cnt \/ next' = n + cnt - (Size + 1))
    BY <1>2, <2>7, <2>9, <2>10
  <2>12. PICK p \in 0 .. Size - 1 : p = Position /\ Position' = p
    BY <1>13, <1>2, <2>1, <2>2 DEF Position
  <2>13. PICK h \in 0 .. Size : h = ahead
    BY <1>1 DEF StreamTypes
  <2>14. /\ \A d \in 1 .. ahead' : d <= Size /\ (d <= cnt \/ d - cnt \in 1 .. h)
         /\ ahead' \in 0 .. Size
         /\ ahead' > 0 => /\ p + ahead' - buff_tail' \in {0, Size}
                          /\ \E e \in 0 .. Size - ahead' : Aligned(p - e)
    <3> DEFINE lead == (p - t + Size) % Size
    <3>1. ahead' = IF h > 0 THEN h + cnt ELSE IF cnt > lead THEN cnt - lead ELSE 0
      <4>1. siz - siz' = cnt
        BY <2>9, <2>10
      <4> QED
        BY <1>21, <2>6, <2>12, <2>13, <4>1 DEF Write
    <3>2. PICK b \in 0 .. Size : b = buff_tail' /\ (b = t + cnt \/ b = t + cnt - Size)
      BY <2>9
    <3>3. CASE h > 0
      <4>1. p + h - t \in {0, Size}
        BY <1>1, <2>2, <2>6, <2>12, <2>13, <3>3 DEF RingInv
      <4>2. PICK d \in 0 .. Size - h, e \in 0 .. Size - h, v \in {0, -Size} :
              d <= e /\ Aligned(p - e) /\ p - d - query.pos = v
        BY <1>1, <2>1, <2>12, <2>13, <3>3 DEF QueryInv
      <4>3. Aligned(p - e - v)
        BY <1>2, <2>5, <4>2
      <4>4. p - e - v <= P
        BY <1>2, <2>3, <2>5, <4>2, <4>3
      <4>5. PICK f \in 0 .. Size - h : f = p - v - P
        BY <1>2, <2>3, <2>4, <4>2, <4>4
      <4>6. room = Size - h - f
        BY <1>2, <2>10, <3>3, <4>1, <4>2, <4>5
      <4>7. ahead' = h + cnt /\ h + cnt <= Size - f
        BY <1>2, <2>9, <2>10, <3>1, <3>3, <4>6
      <4>8. p + ahead' - buff_tail' \in {0, Size}
        <5>1. (b = t + cnt \/ b = t + cnt - Size) /\ h + cnt <= Size
          BY <1>2, <2>10, <3>2, <4>7
        <5>2. p + (h + cnt) - b \in {0, Size}
          BY <1>2, <2>10, <3>3, <4>1, <5>1
        <5> QED
          BY <3>2, <4>7, <5>2
      <4>9. f \in 0 .. Size - ahead' /\ Aligned(p - f)
        <5>1. p - f \in {P, P - Size}
          BY <1>2, <4>2, <4>5
        <5>2. Aligned(P) /\ Aligned(P - Size)
          BY <2>4, <2>5
        <5> QED
          BY <1>2, <2>10, <4>5, <4>7, <5>1, <5>2
      <4> QED
        BY <1>2, <2>10, <4>7, <4>8, <4>9
    <3>4. CASE h = 0 /\ cnt > lead
      <4>1. lead \in 0 .. Size - 1 /\ lead \in {p - t, p - t + Size}
        <5>1. PICK a \in 0 .. 2 * Size - 1 : a = p - t + Size
          BY <1>2
        <5>2. a % Size = IF a < Size THEN a ELSE a - Size
          BY <1>2, ModuloOnce
        <5> QED
          BY <1>2, <5>1, <5>2
      <4> HIDE DEF lead
      <4>2. ahead' = cnt - lead /\ ahead' \in 1 .. cnt
        BY <2>10, <3>1, <3>4, <4>1
      <4>3. p + ahead' - buff_tail' \in {0, Size}
        <5>1. (b = t + cnt \/ b = t + cnt - Size) /\ cnt - lead \in 1 .. cnt
          BY <3>2, <4>2
        <5>2. p + (cnt - lead) - b \in {0, Size}
          BY <1>2, <2>10, <4>1, <5>1
        <5> QED
          BY <3>2, <4>2, <5>2
      <4>4. PICK f \in 0 .. Size - ahead' : f = Size - (room - lead)
        BY <1>2, <2>9, <2>10, <4>1, <4>2
      <4>5. Aligned(p - f)
        <5>1. p - f \in {P, P - Size, P - Size - Size}
          BY <1>2, <2>10, <4>1, <4>4
        <5>2. Aligned(P) /\ Aligned(P - Size)
          BY <2>4, <2>5
        <5>3. Aligned(P - Size - Size)
          BY <1>2, <2>5, <5>2
        <5> QED
          BY <5>1, <5>2, <5>3
      <4> QED
        BY <1>2, <2>10, <4>2, <4>3, <4>4, <4>5
    <3>5. CASE h = 0 /\ ~(cnt > lead)
      BY <1>2, <3>1, <3>5
    <3> QED
      BY <3>3, <3>4, <3>5
  <2>15. ahead' \in 0 .. Size /\ StreamTypes'
    BY <1>1, <2>1, <2>2, <2>9, <2>10, <2>11, <2>14 DEF StreamTypes, Numbers
  <2>16. Contents'
    <3> SUFFICES ASSUME NEW d \in 1 .. ahead' PROVE mem'[Back(d)'] \in {Silence, Ago(d)'}
      BY DEF Contents
    <3>1. CASE d <= cnt
      BY <1>2, <2>9, <2>14, <2>15, <3>1
    <3>2. CASE d > cnt
      <4>1. PICK c \in 1 .. h : c = d - cnt
        BY <1>2, <2>10, <2>14, <2>15, <3>2
      <4>2. mem'[Back(d)'] = mem[Back(c)] /\ mem[Back(c)] \in {Silence, Ago(c)}
        BY <1>1, <1>2, <2>9, <2>13, <2>14, <2>15, <3>2, <4>1 DEF Contents
      <4>3. Ago(d)' = Ago(c)
        <5>1. PICK m \in 0 .. Size : m = next'
          BY <2>11
        <5>2. (m = n + cnt \/ m = n + cnt - (Size + 1)) /\ d \in cnt + 1 .. Size /\ d = c + cnt
          BY <1>2, <2>10, <2>11, <2>14, <2>15, <3>2, <4>1, <5>1
        <5>3. (IF m >= d THEN m - d ELSE m - d + Size + 1)
                = IF n >= c THEN n - c ELSE n - c + Size + 1
          BY <1>2, <2>10, <5>2
        <5> QED
          BY <2>6, <5>1, <5>3 DEF Ago
      <4> QED
        BY <4>2, <4>3
    <3> QED
      BY <2>10, <2>15, <3>1, <3>2
  <2>17. RingInv' /\ QueryInv'
    <3>1. Since(0)'
      BY <2>12, <2>14 DEF Since
    <3>2. channel'.auto /\ channel'.left \in 1 .. Size
      BY <1>1, <2>1, <2>2 DEF RingInv
    <3> QED
      BY <2>1, <2>2, <2>12, <2>14, <3>1, <3>2 DEF RingInv, QueryInv
  <2> QED
    BY <2>15, <2>16, <2>17 DEF StreamInv
<1> QED
  BY <1>5, <1>6, <1>7, <1>8, <1>9, <1>10, <1>11, <1>15, <1>16, <1>17, <1>18, <1>19, <1>20, <1>21
  DEF Next, Program, Playing, Others, Interrupts, Opening, vars

\* What lies ahead of the card is the end of the stream in order, or silence:
\* the position play() accepts was the card's a while ago, so no byte the card
\* has not played yet is overwritten (write_sb_output, sb_query_dma).
THEOREM Heard == Spec => []StreamInOrder
<1>1. ASSUME Init PROVE StreamInv
  <2>1. /\ pc = "init" /\ ~channel.auto /\ buff_tail = 0 /\ next = 0 /\ siz = 0 /\ ticks = 0
        /\ mem = [i \in Places |-> Silence] /\ ahead = Size
        /\ query = [low |-> 0, test |-> 0, pos |-> 0]
    BY <1>1 DEF Init, SbInit, DmaInit, NoChannel, NoQuery
  <2>2. Size \in Nat \ {0} /\ MaxTicks \in Nat /\ Silence \in Int
    BY SoundSbAssumption, DosSbAssumption DEF Silence
  <2>3. query \in [low : Int, test : Int, pos : Int]
    BY <2>1
  <2>4. StreamTypes
    BY <2>1, <2>2, <2>3 DEF StreamTypes, Numbers
  <2>5. Contents
    <3>1. \A d \in 1 .. ahead : Back(d) \in Places
      BY <2>1, <2>2 DEF Back, Places
    <3> QED
      BY <2>1, <3>1 DEF Contents
  <2>6. RingInv /\ QueryInv
    BY <2>1 DEF RingInv, QueryInv, Running, After
  <2> QED
    BY <2>4, <2>5, <2>6 DEF StreamInv
<1>2. ASSUME SbInv, StreamInv PROVE StreamInOrder
  <2> SUFFICES ASSUME pc \in Running
               PROVE  /\ ahead <= Size
                      /\ \A k \in 0 .. ahead - 1 :
                           mem[(Position + k) % Size]
                               \in {Silence, Later(next, Size + 1 - ahead + k)}
    BY DEF StreamInOrder, InPlay, Running
  <2>1. StreamTypes /\ Contents /\ RingInv /\ Size \in Nat \ {0}
    BY <1>2, DosSbAssumption DEF StreamInv
  <2>2. PICK h \in 0 .. Size, t \in 0 .. Size, n \in 0 .. Size :
          h = ahead /\ t = buff_tail /\ n = next
    BY <2>1 DEF StreamTypes, Numbers
  <2>3. ASSUME NEW k \in 0 .. h - 1
        PROVE  mem[(Position + k) % Size] \in {Silence, Later(next, Size + 1 - ahead + k)}
    <3>1. PICK p \in 0 .. Size - 1 : p = Position
      BY <2>1 DEF RingInv, Position
    <3>2. PICK d \in 1 .. h : d = h - k
      BY <2>1, <2>3
    <3>3. mem[Back(d)] \in {Silence, Ago(d)}
      BY <2>1, <2>2 DEF Contents
    <3>4. (p + k) % Size = Back(d)
      <4>1. PICK a \in 0 .. 2 * Size - 1 : a = p + k
        BY <2>1, <2>3
      <4>2. a % Size = IF a < Size THEN a ELSE a - Size
        BY <2>1, ModuloOnce
      <4>3. p + h - t \in {0, Size}
        BY <2>1, <2>2, <2>3, <3>1 DEF RingInv
      <4>4. (IF a < Size THEN a ELSE a - Size) = IF t >= d THEN t - d ELSE t - d + Size
        BY <2>1, <2>3, <3>2, <4>1, <4>3
      <4> QED
        BY <2>2, <4>1, <4>2, <4>4 DEF Back
    <3>5. Later(n, Size + 1 - h + k) = Ago(d)
      <4>1. PICK m \in Nat \ {0} : m = Size + 1
        BY <2>1
      <4>2. PICK a \in 0 .. 2 * m - 1 : a = n + (Size + 1 - h + k)
        <5>1. n + (Size + 1 - h + k) \in 0 .. 2 * m - 1
          BY <2>1, <2>3, <4>1
        <5> QED
          BY <5>1
      <4>3. a % m = IF a < m THEN a ELSE a - m
        BY ModuloOnce
      <4>4. (IF a < m THEN a ELSE a - m) = IF n >= d THEN n - d ELSE n - d + Size + 1
        BY <2>1, <2>3, <3>2, <4>1, <4>2
      <4> QED
        BY <2>2, <4>1, <4>2, <4>3, <4>4 DEF Later, Ago
    <3> QED
      BY <2>2, <3>1, <3>3, <3>4, <3>5
  <2> QED
    BY <2>1, <2>2, <2>3
<1> QED
  BY SbCorrect, StreamStep, <1>1, <1>2, PTL DEF Spec
=============================================================================

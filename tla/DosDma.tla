------------------------------- MODULE DosDma -------------------------------
(***************************************************************************)
(* The allocation of a DMA buffer in conventional memory (dosdma.c) and    *)
(* the channels of the DMA controller.  Addresses and sizes are counted in *)
(* paragraphs.  The locks dma_allocate takes on its own table are left     *)
(* out.                                                                    *)
(***************************************************************************)
EXTENDS Integers

CONSTANTS
    Memory,     \* the paragraphs of conventional memory are 1 .. Memory
    Page,       \* paragraphs an 8 bit channel can address without carry
    ParSize,    \* paragraphs of the buffer asked for
    Tries       \* how often dma_allocate tries to get an aligned block

CONSTANT NULL   \* no pointer

\* The records of a block of DOS memory and of a buffer in one.
BlockType  == [par : Nat, size : Int]
BufferType == [par : Nat, size : {ParSize}, selector : BlockType, ch : Nat]

ASSUME DosDmaAssumption ==
    /\ Memory \in Nat /\ Tries \in Nat \ {0}
    /\ ParSize \in Nat \ {0} /\ Page \in Nat /\ ParSize <= Page
    /\ NULL \notin BufferType

VARIABLES
    blocks,     \* the blocks of DOS memory held: records of par and size
    alloc,      \* the locals of dma_allocate
    buffer,     \* the buffer returned, or NULL
    channel     \* the channel that is not masked (-1 if all are), the bytes
                \* it has left and whether it starts over by itself

dmaVars == <<blocks, alloc, buffer, channel>>

Block(p, s) == [par |-> p, size |-> s]
Fits(p, s)  == p >= 1 /\ p + s - 1 <= Memory

\* Channels 4 to 7 transfer words and see pages of twice the size.
PageOf(ch)     == IF ch <= 3 THEN Page ELSE 2 * Page

\* Mutant: & ~mask is forgotten.
BoundUnmasked(p, page) == p + page

\* The next page after paragraph p.
Bound(p, page) == (p \div page + 1) * page

NoAlloc == [pc |-> "idle", selector |-> NULL, bound |-> 0, count |-> 0,
            size |-> ParSize, ch |-> 0]
NoChannel == [ch |-> -1, left |-> 0, auto |-> FALSE]

DmaInit ==
    /\ blocks = {}
    /\ alloc = NoAlloc
    /\ buffer = NULL
    /\ channel = NoChannel

DmaAllocate(ch) ==
    /\ alloc' = [NoAlloc EXCEPT !.pc = "try", !.ch = ch, !.count = Tries]
    /\ UNCHANGED <<blocks, buffer, channel>>

\* The size of the next try: enough to reach past the next bound.
MaxSize ==
    LET need == alloc.bound + ParSize - alloc.selector.par
    IN  IF need > 2 * ParSize THEN 2 * ParSize ELSE need

\* Keep block b if it is good, and if not try again while there are tries.
Judge(b) ==
    LET bound == Bound(b.par, PageOf(alloc.ch))
        good  == \/ b.par + ParSize <= bound
                 \/ bound + ParSize <= b.par + b.size
    IN  IF good \/ alloc.count > 1
        THEN /\ alloc' = [alloc EXCEPT !.pc = IF good THEN "found" ELSE "try",
                              !.selector = b, !.bound = bound, !.size = b.size,
                              !.count = IF good THEN @ ELSE @ - 1]
             /\ blocks' = (blocks \ {alloc.selector}) \cup {b}
        ELSE /\ alloc' = NoAlloc
             /\ blocks' = blocks \ {alloc.selector}

\* The block held is grown or shrunk in place.
Resize ==
    /\ alloc.pc = "try" /\ alloc.selector # NULL
    /\ MaxSize # alloc.size
    /\ Fits(alloc.selector.par, MaxSize)
    /\ Judge(Block(alloc.selector.par, MaxSize))
    /\ UNCHANGED <<buffer, channel>>

\* The first try, and any time the block cannot be resized.
NewSize == IF alloc.selector = NULL THEN alloc.size ELSE MaxSize

Reallocate ==
    /\ alloc.pc = "try"
    /\ \E p \in 1 .. Memory : Fits(p, NewSize) /\ Judge(Block(p, NewSize))
    /\ UNCHANGED <<buffer, channel>>

OutOfMemory ==
    /\ alloc.pc = "try"
    /\ alloc' = NoAlloc
    /\ blocks' = blocks \ {alloc.selector}
    /\ UNCHANGED <<buffer, channel>>

\* The buffer starts at the bound, whichever of the two tests found it.
Found ==
    /\ alloc.pc = "found"
    /\ buffer' = [par |-> alloc.bound, size |-> ParSize,
                  selector |-> alloc.selector, ch |-> alloc.ch]
    /\ alloc' = NoAlloc
    /\ UNCHANGED <<blocks, channel>>

\* The control structure cannot be locked.
NotLocked ==
    /\ alloc.pc = "found"
    /\ blocks' = blocks \ {alloc.selector}
    /\ alloc' = NoAlloc
    /\ UNCHANGED <<buffer, channel>>

AllocateStep == Resize \/ Reallocate \/ OutOfMemory \/ Found \/ NotLocked

DmaFree ==
    /\ blocks' = blocks \ {buffer.selector}
    /\ buffer' = NULL

DmaStart(ch, count, auto) ==
    channel' = [ch |-> ch, left |-> count, auto |-> auto]
DmaDisable == channel' = NoChannel

DmaNext ==
    \/ alloc.pc = "idle" /\ buffer = NULL /\ \E ch \in {1, 5} : DmaAllocate(ch)
    \/ AllocateStep
    \/ buffer # NULL /\ DmaFree /\ UNCHANGED <<alloc, channel>>

DmaSpec == DmaInit /\ [][DmaNext]_dmaVars
-----------------------------------------------------------------------------
\* The controller can reach the whole buffer: no page bound lies inside it.
OnOnePage ==
    buffer # NULL =>
        buffer.par \div PageOf(buffer.ch)
            = (buffer.par + buffer.size - 1) \div PageOf(buffer.ch)

\* "If memory block contains a properly aligned portion, quit loop"
\* (dosdma.c:117): the portion used is part of the block.
BufferInBlock ==
    buffer # NULL =>
        /\ buffer.selector.par <= buffer.par
        /\ buffer.par + buffer.size <= buffer.selector.par + buffer.selector.size
=============================================================================

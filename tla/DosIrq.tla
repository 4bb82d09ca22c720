------------------------------- MODULE DosIrq -------------------------------
(***************************************************************************)
(* Interrupt lines, their vectors and masks, and the counting of           *)
(* interrupts by which a card's line is found (dosirq.c, dosirq.h).        *)
(***************************************************************************)
EXTENDS Integers, FiniteSets

CONSTANTS
    Lines,      \* the interrupt lines of the machine that matter
    Enabled     \* the lines some other program has unmasked

ASSUME DosIrqAssumption ==
    /\ Lines \subseteq 3 .. 15
    /\ Enabled \subseteq Lines

VARIABLES
    vector,     \* the handler each line calls
    unmasked,   \* the lines the interrupt controllers let through
    handle,     \* what irq_hook saved of each line, or Unhooked
    request,    \* lines with an interrupt not yet taken
    count,      \* __irq_count
    seen,       \* __irq_mask, as a set
    locks       \* regions locked in memory by the handlers

irqVars == <<vector, unmasked, handle, request, count, seen, locks>>

Cascade  == 2                   \* the line the second controller hangs on
Unhooked == [vector |-> "none", on |-> FALSE]

IrqInit ==
    /\ vector = [l \in Lines |-> "old"]
    /\ unmasked = Enabled
    /\ handle = [l \in Lines |-> Unhooked]
    /\ request = {}
    /\ count = [l \in Lines |-> 0]
    /\ seen = {}
    /\ locks = 0

\* Lines above 7 belong to the second controller.
Through(l) == l \in unmasked /\ (l > 7 => Cascade \in unmasked)

\* An interrupt is taken between any two instructions of the program.
Deliverable == {l \in request : Through(l)}

CascadeFor(ls) == IF \E l \in ls : l > 7 THEN {Cascade} ELSE {}

\* irq_hook, irq_enable and _irq_enable(2) for the lines ls.  irq_hook saves
\* the vector and the mask, and does not mask the line: what an interrupt finds
\* before the handle is stored is the caller's step "Wild" (DosSb).
Hook(ls, h) ==
    /\ handle' = [l \in Lines |-> IF l \in ls
                     THEN [vector |-> vector[l], on |-> l \in unmasked]
                     ELSE handle[l]]
    /\ vector' = [l \in Lines |-> IF l \in ls THEN h ELSE vector[l]]
    /\ unmasked' = unmasked \cup ls \cup CascadeFor(ls)
    /\ locks' = locks + 2 * Cardinality(ls)

\* Mutant: the line stays masked.
UnhookMasked(ls) ==
    /\ vector' = [l \in Lines |-> IF l \in ls THEN handle[l].vector ELSE vector[l]]
    /\ unmasked' = unmasked \ ls
    /\ handle' = [l \in Lines |-> IF l \in ls THEN Unhooked ELSE handle[l]]
    /\ locks' = locks - 2 * Cardinality(ls)

\* irq_unhook: the vector, and then the mask as it was.
Unhook(ls) ==
    /\ vector' = [l \in Lines |-> IF l \in ls THEN handle[l].vector ELSE vector[l]]
    /\ unmasked' = {l \in unmasked : l \in ls => handle[l].on}
    /\ handle' = [l \in Lines |-> IF l \in ls THEN Unhooked ELSE handle[l]]
    /\ locks' = locks - 2 * Cardinality(ls)

DetectStart ==
    /\ Hook(Lines, "detect")
    /\ count' = [l \in Lines |-> 0]
    /\ seen' = {}

\* __irqN_handler; the confirmation always says yes.
Counted(l) ==
    /\ count' = [count EXCEPT ![l] = @ + 1]
    /\ seen' = seen \cup {l}

\* Mutant: any interrupt will do.
LineWithAny(n) ==
    LET ls == {l \in Lines : count[l] > 0}
    IN  IF ls = {} THEN 0 ELSE CHOOSE l \in ls : \A k \in ls : k <= l

\* The highest line that counted n interrupts; 0 if there is none.
LineWith(n) ==
    LET ls == {l \in Lines : count[l] = n}
    IN  IF ls = {} THEN 0 ELSE CHOOSE l \in ls : \A k \in ls : k <= l
=============================================================================

-------------------------------- MODULE Fifo --------------------------------
(***************************************************************************)
(* The ring buffer of wifi/mb_ftp/drive/fifo.c with the element copy       *)
(* callbacks of socketfifo.c.  The indices move by compare-and-wrap, as in *)
(* the code; the array keeps the stale contents of the slots it popped.    *)
(***************************************************************************)
EXTENDS Naturals, Sequences

CONSTANTS
    Elem,           \* the elements callers push
    uiElementsMax,  \* MB_FTP_SOCKETFIFO_ELEMENTS_MAX in the FTP server
    Junk            \* what the caller's element variable holds before a pop

ASSUME FifoAssumption == uiElementsMax \in Nat \ {0}

ASSUME JunkAssumption == Junk \in Elem

VARIABLES
    pvElements,     \* the array of slots
    uiFirst,        \* slot of the oldest element
    uiLast,         \* slot of the newest element
    uiElementCount, \* number of queued elements
    ok,             \* return value of the last call
    pvElement       \* the element the last successful pop or peek copied out

fifoVars == <<pvElements, uiFirst, uiLast, uiElementCount, ok, pvElement>>

Slots == 0 .. (uiElementsMax - 1)

\* An index one past the last slot goes back to slot 0.
Wrap(i) == IF i = uiElementsMax THEN 0 ELSE i

FIFO_IsEmpty == uiElementCount = 0

FIFO_IsFull == ~(uiElementCount < uiElementsMax)

FIFO_Init ==
    /\ pvElements = [s \in Slots |-> Junk]
    /\ uiFirst = 0
    /\ uiLast = uiElementsMax - 1
    /\ uiElementCount = 0
    /\ ok = FALSE
    /\ pvElement = Junk

\* Mutant: the element is copied before the index is advanced.
FIFO_bPushElement_early(e) ==
    /\ ~FIFO_IsFull
    /\ uiElementCount' = uiElementCount + 1
    /\ uiLast' = Wrap(uiLast + 1)
    /\ pvElements' = [pvElements EXCEPT ![uiLast] = e]
    /\ ok' = TRUE
    /\ UNCHANGED <<uiFirst, pvElement>>

\* The slot index is advanced first and the element is copied to the new uiLast.
FIFO_bPushElement(e) ==
    /\ ~FIFO_IsFull
    /\ uiElementCount' = uiElementCount + 1
    /\ uiLast' = Wrap(uiLast + 1)
    /\ pvElements' = [pvElements EXCEPT ![Wrap(uiLast + 1)] = e]
    /\ ok' = TRUE
    /\ UNCHANGED <<uiFirst, pvElement>>

FIFO_bPushFull ==
    /\ FIFO_IsFull
    /\ ok' = FALSE
    /\ UNCHANGED <<pvElements, uiFirst, uiLast, uiElementCount, pvElement>>

FIFO_bPopElement ==
    /\ ~FIFO_IsEmpty
    /\ pvElement' = pvElements[uiFirst]
    /\ uiElementCount' = uiElementCount - 1
    /\ uiFirst' = Wrap(uiFirst + 1)
    /\ ok' = TRUE
    /\ UNCHANGED <<pvElements, uiLast>>

FIFO_bPeekElement ==
    /\ ~FIFO_IsEmpty
    /\ pvElement' = pvElements[uiFirst]
    /\ ok' = TRUE
    /\ UNCHANGED <<pvElements, uiFirst, uiLast, uiElementCount>>

\* A pop or a peek of an empty queue returns false and copies nothing.
FIFO_bGetEmpty ==
    /\ FIFO_IsEmpty
    /\ ok' = FALSE
    /\ UNCHANGED <<pvElements, uiFirst, uiLast, uiElementCount, pvElement>>

\* Mutant: only the oldest index goes back to its first value.
FIFO_Flush_half ==
    /\ uiElementCount' = 0
    /\ uiFirst' = 0
    /\ UNCHANGED <<pvElements, uiLast, ok, pvElement>>

FIFO_Flush ==
    /\ uiElementCount' = 0
    /\ uiFirst' = 0
    /\ uiLast' = uiElementsMax - 1
    /\ UNCHANGED <<pvElements, ok, pvElement>>

FifoNext ==
    \/ \E e \in Elem : FIFO_bPushElement(e)
    \/ FIFO_bPushFull
    \/ FIFO_bPopElement
    \/ FIFO_bPeekElement
    \/ FIFO_bGetEmpty
    \/ FIFO_Flush

FifoSpec == FIFO_Init /\ [][FifoNext]_fifoVars

-----------------------------------------------------------------------------
\* The queued elements, oldest first: the slots from uiFirst on, around the ring.
SlotOf(i) == IF uiFirst + (i - 1) < uiElementsMax
             THEN uiFirst + (i - 1)
             ELSE uiFirst + (i - 1) - uiElementsMax

Contents == [i \in 1 .. uiElementCount |-> pvElements[SlotOf(i)]]

\* The queue the ring buffer implements (the refinement mapping).
Queue == INSTANCE BoundedQueue
             WITH Capacity <- uiElementsMax, queue <- Contents, got <- pvElement

\* The indices, the count and the slots of the FIFO_t structure keep their types.
FifoTypeOK ==
    /\ pvElements \in [Slots -> Elem]
    /\ uiFirst \in Slots
    /\ uiLast \in Slots
    /\ uiElementCount \in 0 .. uiElementsMax
    /\ ok \in BOOLEAN
    /\ pvElement \in Elem

\* uiFirst, uiLast and uiElementCount of fifo.c are three views of one segment
\* of the ring: the newest element sits uiElementCount - 1 slots after the
\* oldest, around the ring, and just before it when the queue is empty or full.
RingConsistent ==
    Wrap(uiLast + 1) =
        IF uiFirst + uiElementCount < uiElementsMax
        THEN uiFirst + uiElementCount
        ELSE uiFirst + uiElementCount - uiElementsMax

\* fifo.c is a bounded FIFO queue: every call of the ring buffer is a step of
\* the abstract queue on the elements between uiFirst and uiLast.
ImplementsQueue == Queue!AbsSpec
=============================================================================

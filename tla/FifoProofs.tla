----------------------------- MODULE FifoProofs -----------------------------
(***************************************************************************)
(* The ring buffer of fifo.c is correct for every capacity and every set   *)
(* of elements: its indices stay consistent and it implements the abstract *)
(* bounded queue.                                                          *)
(***************************************************************************)
EXTENDS Fifo, SequenceTheorems, TLAPS

USE FifoAssumption, JunkAssumption

\* The inductive invariant: types, and the two indices describe one segment.
FifoInv == FifoTypeOK /\ RingConsistent

\* FIFO_Init establishes the inductive invariant.
LEMMA FifoInvInit == FIFO_Init => FifoInv
  <1> SUFFICES ASSUME FIFO_Init
               PROVE  FifoInv
    OBVIOUS
  <1>1. pvElements \in [Slots -> Elem] /\ pvElement \in Elem
    BY DEF FIFO_Init, Slots
  <1>2. uiFirst \in Slots /\ uiLast \in Slots /\ uiElementCount \in 0 .. uiElementsMax
    BY DEF FIFO_Init, Slots
  <1>3. ok \in BOOLEAN
    BY DEF FIFO_Init
  <1>4. RingConsistent
    BY DEF FIFO_Init, RingConsistent, Wrap
  <1>5. QED
    BY <1>1, <1>2, <1>3, <1>4 DEF FifoInv, FifoTypeOK

\* Every call of fifo.c preserves it.
LEMMA FifoInvNext == FifoInv /\ [FifoNext]_fifoVars => FifoInv'
  <1> SUFFICES ASSUME FifoInv, [FifoNext]_fifoVars
               PROVE  FifoInv'
    OBVIOUS
  <1> USE DEF FifoInv, FifoTypeOK, RingConsistent, Slots, Wrap, FIFO_IsFull, FIFO_IsEmpty
  <1>1. ASSUME NEW e \in Elem, FIFO_bPushElement(e)
        PROVE  FifoInv'
    BY <1>1 DEF FIFO_bPushElement
  <1>2. CASE FIFO_bPushFull
    BY <1>2 DEF FIFO_bPushFull
  <1>3. CASE FIFO_bPopElement
    BY <1>3 DEF FIFO_bPopElement
  <1>4. CASE FIFO_bPeekElement
    BY <1>4 DEF FIFO_bPeekElement
  <1>5. CASE FIFO_bGetEmpty
    BY <1>5 DEF FIFO_bGetEmpty
  <1>6. CASE FIFO_Flush
    BY <1>6 DEF FIFO_Flush
  <1>7. CASE UNCHANGED fifoVars
    BY <1>7 DEF fifoVars
  <1>8. QED
    BY <1>1, <1>2, <1>3, <1>4, <1>5, <1>6, <1>7 DEF FifoNext

\* Types of the FIFO_t fields and consistency of uiFirst, uiLast and
\* uiElementCount hold in every reachable state, for every capacity.
THEOREM FifoCorrect == FifoSpec => [](FifoTypeOK /\ RingConsistent)
  <1>1. FifoSpec => []FifoInv
    BY FifoInvInit, FifoInvNext, PTL DEF FifoSpec
  <1>2. QED
    BY <1>1, PTL DEF FifoInv

-----------------------------------------------------------------------------
(* The refinement: each call is a step of BoundedQueue on Contents. *)

USE DEF FifoInv, FifoTypeOK, Slots

\* The queued elements are a sequence of as many elements as are counted.
LEMMA ContentsType ==
    ASSUME FifoInv
    PROVE  /\ Contents \in Seq(Elem)
           /\ Len(Contents) = uiElementCount
           /\ DOMAIN Contents = 1 .. uiElementCount
           /\ uiElementCount > 0 => Head(Contents) = pvElements[uiFirst]
  <1>1. \A i \in 1 .. uiElementCount : SlotOf(i) \in Slots
    BY DEF SlotOf
  <1>2. Contents \in [1 .. uiElementCount -> Elem]
    BY <1>1 DEF Contents
  <1>3. Contents \in Seq(Elem) /\ Len(Contents) = uiElementCount
    BY <1>2
  <1>4. uiElementCount > 0 => Contents[1] = pvElements[uiFirst]
    BY DEF Contents, SlotOf
  <1>5. QED
    BY <1>2, <1>3, <1>4

\* A successful push appends the element to the contents.
LEMMA PushAppends ==
    ASSUME FifoInv, NEW e \in Elem, FIFO_bPushElement(e)
    PROVE  Contents' = Append(Contents, e)
  <1> DEFINE n == uiElementCount
  <1>1. FifoInv'
    BY FifoInvNext DEF FifoNext
  <1>2. n \in Nat /\ uiElementCount' = n + 1 /\ uiFirst' = uiFirst
    BY DEF FIFO_bPushElement
  <1>3. pvElements' = [pvElements EXCEPT ![Wrap(uiLast + 1)] = e]
    BY DEF FIFO_bPushElement
  <1>4. Wrap(uiLast + 1) = SlotOf(n + 1) /\ Wrap(uiLast + 1) \in Slots
    BY DEF FIFO_bPushElement, FIFO_IsFull, RingConsistent, SlotOf, Wrap
  <1>5. \A i \in 1 .. n : SlotOf(i) \in Slots /\ SlotOf(i) # SlotOf(n + 1)
    BY DEF FIFO_bPushElement, FIFO_IsFull, SlotOf
  <1>6. Contents' = [i \in 1 .. (n + 1) |-> pvElements'[SlotOf(i)]]
    BY <1>2 DEF Contents, SlotOf
  <1>7. \A i \in 1 .. n : pvElements'[SlotOf(i)] = Contents[i]
    BY <1>3, <1>4, <1>5 DEF Contents
  <1>8. pvElements'[SlotOf(n + 1)] = e
    BY <1>3, <1>4
  <1>9. Append(Contents, e) = [i \in 1 .. (n + 1) |-> IF i = n + 1 THEN e ELSE Contents[i]]
    <2> DEFINE c == Contents
               d == Append(c, e)
    <2>1. c \in Seq(Elem) /\ Len(c) = n
      BY ContentsType
    <2> HIDE DEF c
    <2>2. d \in Seq(Elem) /\ Len(d) = n + 1
      BY <2>1, AppendProperties
    <2>3. d \in [1 .. (n + 1) -> Elem]
      BY <2>2, LenProperties
    <2>4. (\A i \in 1 .. n : d[i] = c[i]) /\ d[n + 1] = e
      BY <2>1, AppendProperties
    <2> HIDE DEF d
    <2>5. \A i \in 1 .. (n + 1) : d[i] = IF i = n + 1 THEN e ELSE c[i]
      BY <1>2, <2>4
    <2>6. d = [i \in 1 .. (n + 1) |-> IF i = n + 1 THEN e ELSE c[i]]
      BY <2>3, <2>5
    <2>7. QED
      BY <2>6 DEF c, d
  <1>10. \A i \in 1 .. (n + 1) : pvElements'[SlotOf(i)] = IF i = n + 1 THEN e ELSE Contents[i]
    BY <1>2, <1>7, <1>8
  <1>11. QED
    BY <1>6, <1>9, <1>10

\* A pop leaves the contents without their head.
LEMMA PopTails ==
    ASSUME FifoInv, FIFO_bPopElement
    PROVE  Contents' = Tail(Contents)
  <1> DEFINE n == uiElementCount
  <1>1. n \in Nat \ {0} /\ uiElementCount' = n - 1 /\ pvElements' = pvElements
    BY DEF FIFO_bPopElement, FIFO_IsEmpty
  <1>2. \A i \in 1 .. (n - 1) : SlotOf(i)' = SlotOf(i + 1)
    BY DEF FIFO_bPopElement, FIFO_IsEmpty, SlotOf, Wrap
  <1>3. Contents' = [i \in 1 .. (n - 1) |-> pvElements[SlotOf(i + 1)]]
    BY <1>1, <1>2 DEF Contents
  <1>4. Tail(Contents) = [i \in 1 .. (n - 1) |-> Contents[i + 1]]
    <2>1. /\ Tail(Contents) \in [1 .. (n - 1) -> Elem]
          /\ \A i \in 1 .. (n - 1) : Tail(Contents)[i] = Contents[i + 1]
      BY <1>1, ContentsType, HeadTailProperties, LenProperties
    <2>2. QED
      BY <2>1
  <1>5. \A i \in 1 .. (n - 1) : Contents[i + 1] = pvElements[SlotOf(i + 1)]
    BY <1>1 DEF Contents
  <1>6. QED
    BY <1>3, <1>4, <1>5

\* Calls that move no index and write no slot leave the queued elements as they are.
LEMMA SameContents ==
    ASSUME UNCHANGED <<pvElements, uiFirst, uiElementCount>>
    PROVE  Contents' = Contents
  BY DEF Contents, SlotOf

\* Every behaviour of the ring buffer of fifo.c is a behaviour of a bounded
\* FIFO queue: elements come out once, whole and in the order they went in.
THEOREM FifoImplementsQueue == FifoSpec => ImplementsQueue
  <1>1. FIFO_Init => Queue!AbsInit
    <2> SUFFICES ASSUME FIFO_Init
                 PROVE  Queue!AbsInit
      OBVIOUS
    <2>1. Contents = <<>>
      BY FifoInvInit, ContentsType DEF FIFO_Init
    <2>2. QED
      BY <2>1 DEF FIFO_Init, Queue!AbsInit
  <1>2. FifoInv /\ [FifoNext]_fifoVars => [Queue!AbsNext]_(Queue!absVars)
    <2> SUFFICES ASSUME FifoInv, [FifoNext]_fifoVars
                 PROVE  [Queue!AbsNext]_(Queue!absVars)
      OBVIOUS
    <2> USE ContentsType
    <2>1. ASSUME NEW e \in Elem, FIFO_bPushElement(e)
          PROVE  Queue!Accept(e)
      BY <2>1, PushAppends DEF FIFO_bPushElement, FIFO_IsFull, Queue!Accept
    <2>2. CASE FIFO_bPushFull
      BY <2>2, SameContents DEF FIFO_bPushFull, FIFO_IsFull, Queue!Refuse, Queue!AbsNext
    <2>3. CASE FIFO_bPopElement
      BY <2>3, PopTails DEF FIFO_bPopElement, FIFO_IsEmpty, Queue!Take, Queue!AbsNext
    <2>4. CASE FIFO_bPeekElement
      BY <2>4, SameContents DEF FIFO_bPeekElement, FIFO_IsEmpty, Queue!Look, Queue!AbsNext
    <2>5. CASE FIFO_bGetEmpty
      BY <2>5, SameContents DEF FIFO_bGetEmpty, FIFO_IsEmpty, Queue!Refuse, Queue!AbsNext
    <2>6. CASE FIFO_Flush
      <3>1. Contents' = <<>>
        BY <2>6, FifoInvNext, ContentsType DEF FIFO_Flush, FifoNext, Contents
      <3>2. QED
        BY <2>6, <3>1 DEF FIFO_Flush, Queue!Clear, Queue!AbsNext
    <2>7. CASE UNCHANGED fifoVars
      BY <2>7, SameContents DEF fifoVars, Queue!absVars
    <2>8. QED
      BY <2>1, <2>2, <2>3, <2>4, <2>5, <2>6, <2>7 DEF FifoNext, Queue!AbsNext
  <1>3. QED
    BY <1>1, <1>2, FifoInvInit, FifoInvNext, PTL DEF FifoSpec, Queue!AbsSpec, ImplementsQueue
=============================================================================

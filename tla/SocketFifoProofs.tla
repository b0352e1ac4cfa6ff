-------------------------- MODULE SocketFifoProofs --------------------------
(***************************************************************************)
(* The queue of the FTP server's replies and data chunks owns its heap     *)
(* blocks correctly for every capacity and every heap.                     *)
(***************************************************************************)
EXTENDS SocketFifo, TLAPS

USE BlocksAssumption, MaxAssumption

\* The elements are records of a block and a flag.
LEMMA ElementTypes ==
    /\ Borrowed \in SocketFifoElement_t /\ Borrowed.freedata = FALSE
    /\ \A b \in Blocks : /\ Owned(b) \in SocketFifoElement_t
                         /\ Owned(b).freedata = TRUE /\ Owned(b).data = b
  BY DEF Borrowed, Owned, SocketFifoElement_t

\* The ring's part of the invariant: the types and the segment between the two indices.
RingInv == Ring!FifoTypeOK /\ Ring!RingConsistent

\* A queue without elements is a ring whose indices are apart by its whole size.
LEMMA RingStarts ==
    ASSUME Ring!FIFO_Init
    PROVE  RingInv
  <1>1. pvElements \in [Ring!Slots -> SocketFifoElement_t] /\ pvElement \in SocketFifoElement_t
    BY ElementTypes DEF Ring!FIFO_Init, Ring!Slots
  <1>2. uiFirst \in Ring!Slots /\ uiLast \in Ring!Slots /\ uiElementCount \in 0 .. uiElementsMax
    BY DEF Ring!FIFO_Init, Ring!Slots
  <1>3. ok \in BOOLEAN
    BY DEF Ring!FIFO_Init
  <1>4. Ring!RingConsistent
    BY DEF Ring!FIFO_Init, Ring!RingConsistent, Ring!Wrap
  <1>5. QED
    BY <1>1, <1>2, <1>3, <1>4 DEF RingInv, Ring!FifoTypeOK

\* The slots of the queued elements, oldest first.
LEMMA ContentsAre ==
    ASSUME RingInv
    PROVE  /\ uiElementCount \in Nat /\ DOMAIN Ring!Contents = 1 .. uiElementCount
           /\ \A k \in 1 .. uiElementCount :
                  /\ Ring!SlotOf(k) \in Ring!Slots
                  /\ Ring!Contents[k] = pvElements[Ring!SlotOf(k)]
                  /\ Ring!Contents[k] \in SocketFifoElement_t
           /\ uiElementCount > 0 => Ring!Contents[1] = pvElements[uiFirst]
  <1> USE DEF RingInv, Ring!FifoTypeOK, Ring!Slots
  <1>1. \A k \in 1 .. uiElementCount : Ring!SlotOf(k) \in Ring!Slots
    BY DEF Ring!SlotOf
  <1>2. /\ DOMAIN Ring!Contents = 1 .. uiElementCount
        /\ \A k \in 1 .. uiElementCount : Ring!Contents[k] = pvElements[Ring!SlotOf(k)]
    BY DEF Ring!Contents
  <1>3. uiElementCount > 0 => Ring!SlotOf(1) = uiFirst
    BY DEF Ring!SlotOf
  <1>4. QED
    BY <1>1, <1>2, <1>3

\* A successful push adds an element behind the others.
LEMMA PushAdds ==
    ASSUME RingInv, NEW e \in SocketFifoElement_t, Ring!FIFO_bPushElement(e)
    PROVE  /\ RingInv' /\ uiElementCount' = uiElementCount + 1
           /\ \A k \in 1 .. uiElementCount : Ring!Contents'[k] = Ring!Contents[k]
           /\ Ring!Contents'[uiElementCount + 1] = e
  <1> DEFINE n == uiElementCount
  <1> USE DEF RingInv, Ring!FifoTypeOK, Ring!Slots
  <1>1. RingInv'
    BY DEF Ring!FIFO_bPushElement, Ring!FIFO_IsFull, Ring!RingConsistent, Ring!Wrap
  <1>2. n \in Nat /\ uiElementCount' = n + 1 /\ uiFirst' = uiFirst
    BY DEF Ring!FIFO_bPushElement
  <1>3. pvElements' = [pvElements EXCEPT ![Ring!Wrap(uiLast + 1)] = e]
    BY DEF Ring!FIFO_bPushElement
  <1>4. Ring!Wrap(uiLast + 1) = Ring!SlotOf(n + 1) /\ Ring!Wrap(uiLast + 1) \in Ring!Slots
    BY DEF Ring!FIFO_bPushElement, Ring!FIFO_IsFull, Ring!RingConsistent, Ring!SlotOf, Ring!Wrap
  <1>5. \A k \in 1 .. n : Ring!SlotOf(k) \in Ring!Slots /\ Ring!SlotOf(k) # Ring!SlotOf(n + 1)
    BY DEF Ring!FIFO_bPushElement, Ring!FIFO_IsFull, Ring!SlotOf
  <1>6. Ring!Contents' = [k \in 1 .. (n + 1) |-> pvElements'[Ring!SlotOf(k)]]
    BY <1>2 DEF Ring!Contents, Ring!SlotOf
  <1>7. \A k \in 1 .. n : Ring!Contents[k] = pvElements[Ring!SlotOf(k)]
    BY ContentsAre
  <1>8. \A k \in 1 .. n : Ring!Contents'[k] = Ring!Contents[k]
    BY <1>2, <1>3, <1>4, <1>5, <1>6, <1>7
  <1>9. Ring!Contents'[n + 1] = e
    BY <1>2, <1>3, <1>4, <1>6
  <1>10. QED
    BY <1>1, <1>2, <1>8, <1>9

\* A pop hands over the oldest element; the others move up.
LEMMA PopRemoves ==
    ASSUME RingInv, Ring!FIFO_bPopElement
    PROVE  /\ RingInv' /\ uiElementCount > 0 /\ uiElementCount' = uiElementCount - 1
           /\ pvElement' = Ring!Contents[1]
           /\ \A k \in 1 .. uiElementCount - 1 : Ring!Contents'[k] = Ring!Contents[k + 1]
  <1> DEFINE n == uiElementCount
  <1>1. RingInv'
    BY DEF RingInv, Ring!FifoTypeOK, Ring!Slots, Ring!FIFO_bPopElement, Ring!FIFO_IsEmpty,
           Ring!RingConsistent, Ring!Wrap
  <1>2. n \in Nat \ {0} /\ uiElementCount' = n - 1 /\ pvElements' = pvElements
    BY DEF RingInv, Ring!FifoTypeOK, Ring!FIFO_bPopElement, Ring!FIFO_IsEmpty
  <1>3. pvElement' = Ring!Contents[1]
    BY <1>2, ContentsAre DEF Ring!FIFO_bPopElement
  <1>4. \A k \in 1 .. (n - 1) : Ring!SlotOf(k)' = Ring!SlotOf(k + 1)
    BY DEF RingInv, Ring!FifoTypeOK, Ring!Slots, Ring!FIFO_bPopElement, Ring!FIFO_IsEmpty,
           Ring!SlotOf, Ring!Wrap
  <1>5. Ring!Contents' = [k \in 1 .. (n - 1) |-> pvElements[Ring!SlotOf(k + 1)]]
    BY <1>2, <1>4 DEF Ring!Contents
  <1>6. \A k \in 1 .. (n - 1) : Ring!Contents[k + 1] = pvElements[Ring!SlotOf(k + 1)]
    BY <1>2, ContentsAre
  <1>7. QED
    BY <1>1, <1>2, <1>3, <1>5, <1>6

\* A refused push, a peek and a get of nothing leave the queue as it is.
LEMMA QueueKept ==
    ASSUME RingInv,
           Ring!FIFO_bPushFull \/ Ring!FIFO_bPeekElement \/ Ring!FIFO_bGetEmpty \/ UNCHANGED queueVars
    PROVE  RingInv' /\ Ring!Contents' = Ring!Contents
  <1> USE DEF RingInv, Ring!FifoTypeOK, Ring!Slots, Ring!RingConsistent, Ring!Wrap
  <1>1. UNCHANGED <<pvElements, uiFirst, uiLast, uiElementCount>>
    BY DEF Ring!FIFO_bPushFull, Ring!FIFO_bPeekElement, Ring!FIFO_bGetEmpty, queueVars
  <1>2. CASE Ring!FIFO_bPushFull
    BY <1>2 DEF Ring!FIFO_bPushFull, Ring!Contents, Ring!SlotOf
  <1>3. CASE Ring!FIFO_bPeekElement
    BY <1>3 DEF Ring!FIFO_bPeekElement, Ring!Contents, Ring!SlotOf
  <1>4. CASE Ring!FIFO_bGetEmpty
    BY <1>4 DEF Ring!FIFO_bGetEmpty, Ring!Contents, Ring!SlotOf
  <1>5. CASE UNCHANGED queueVars
    BY <1>5 DEF queueVars, Ring!Contents, Ring!SlotOf
  <1>6. QED
    BY <1>2, <1>3, <1>4, <1>5

\* The pops of the flush take uiFirst once around to where the next push will be.
LEMMA FlushEmpties ==
    ASSUME RingInv, SOCKETFIFO_Flush
    PROVE  RingInv' /\ uiElementCount' = 0
  <1> DEFINE at == (uiFirst + uiElementCount) % uiElementsMax
  <1>1. /\ uiFirst' = at /\ uiElementCount' = 0 /\ pvElement' = LastPopped /\ ok' = FALSE
        /\ UNCHANGED <<pvElements, uiLast>>
    BY DEF SOCKETFIFO_Flush
  <1>2. /\ uiFirst \in 0 .. uiElementsMax - 1 /\ uiElementCount \in 0 .. uiElementsMax
        /\ uiLast \in 0 .. uiElementsMax - 1
    BY DEF RingInv, Ring!FifoTypeOK, Ring!Slots
  <1>3. at = IF uiFirst + uiElementCount < uiElementsMax
             THEN uiFirst + uiElementCount ELSE uiFirst + uiElementCount - uiElementsMax
    BY <1>2
  <1>4. at \in 0 .. uiElementsMax - 1
    BY <1>2
  <1> HIDE DEF at
  <1>5. Ring!Wrap(uiLast + 1) = at
    BY <1>3 DEF RingInv, Ring!RingConsistent
  <1>6. Ring!RingConsistent'
    BY <1>1, <1>2, <1>4, <1>5 DEF Ring!RingConsistent, Ring!Wrap
  <1>7. pvElement' \in SocketFifoElement_t
    BY <1>1, <1>2, ContentsAre DEF LastPopped, RingInv, Ring!FifoTypeOK
  <1>8. uiFirst' \in Ring!Slots /\ uiElementCount' \in 0 .. uiElementsMax
    BY <1>1, <1>4 DEF Ring!Slots
  <1>9. Ring!FifoTypeOK'
    <2>1. ok' \in BOOLEAN
      BY <1>1
    <2>2. QED
      BY <1>1, <1>7, <1>8, <2>1, Zenon DEF RingInv, Ring!FifoTypeOK, Ring!Slots
  <1>10. QED
    BY <1>1, <1>6, <1>9 DEF RingInv

-----------------------------------------------------------------------------
(* Ownership, over the positions in the queue. *)

\* Nothing queued is freed, nothing that is not queued is live, and no block is in two
\* replies.
QueuedLive ==
    \A k \in 1 .. uiElementCount :
        Ring!Contents[k].freedata => Ring!Contents[k].data \in live

LiveQueued ==
    \A b \in live : \E k \in 1 .. uiElementCount :
        Ring!Contents[k].freedata /\ Ring!Contents[k].data = b

OwnedOnce ==
    \A k, l \in 1 .. uiElementCount :
        /\ Ring!Contents[k].freedata /\ Ring!Contents[l].freedata
        /\ Ring!Contents[k].data = Ring!Contents[l].data
        => k = l

OwnershipInv ==
    /\ RingInv /\ live \subseteq Blocks
    /\ QueuedLive /\ LiveQueued /\ OwnedOnce

\* The positions say what HeapOwnership says.
LEMMA OwnershipParts ==
    ASSUME OwnershipInv
    PROVE  HeapOwnership
  <1> DEFINE q == Ring!Contents
             owning == {k \in DOMAIN q : q[k].freedata}
  <1>1. DOMAIN q = 1 .. uiElementCount
    BY ContentsAre DEF OwnershipInv
  <1> HIDE DEF q
  <1>2. QueuedLive /\ LiveQueued /\ OwnedOnce
    BY DEF OwnershipInv
  <1>3. live = {q[k].data : k \in owning}
    BY <1>1, <1>2 DEF QueuedLive, LiveQueued, q
  <1>4. \A k, l \in owning : q[k].data = q[l].data => k = l
    BY <1>1, <1>2 DEF OwnedOnce, q
  <1>5. QED
    BY <1>3, <1>4 DEF HeapOwnership, q

\* Nothing is queued and nothing allocated.
LEMMA OwnershipStarts ==
    ASSUME QueueInit
    PROVE  OwnershipInv
  <1>1. RingInv
    BY RingStarts DEF QueueInit
  <1>2. live = {} /\ uiElementCount = 0
    BY DEF QueueInit, Ring!FIFO_Init
  <1>3. 1 .. uiElementCount = {}
    BY <1>2
  <1>4. QED
    BY <1>1, <1>2, <1>3, Zenon
       DEF OwnershipInv, QueuedLive, LiveQueued, OwnedOnce

\* An element is added with the block it owns, if any, which was not allocated before.
LEMMA OwnershipAdds ==
    ASSUME OwnershipInv, NEW e \in SocketFifoElement_t, Ring!FIFO_bPushElement(e),
           e.freedata => e.data \in Blocks \ live,
           live' = live \cup FreeOf(e)
    PROVE  OwnershipInv'
  <1> DEFINE n == uiElementCount
             c == Ring!Contents
             d == Ring!Contents'
  <1>1. /\ RingInv' /\ uiElementCount' = n + 1
        /\ \A k \in 1 .. n : d[k] = c[k]
        /\ d[n + 1] = e
    BY PushAdds DEF OwnershipInv
  <1>2. n \in Nat
    BY ContentsAre DEF OwnershipInv
  <1>3. 1 .. n + 1 = (1 .. n) \cup {n + 1} /\ n + 1 \notin 1 .. n
    BY <1>2
  <1>4. /\ \A k \in 1 .. n : c[k].freedata => c[k].data \in live
        /\ \A b \in live : \E k \in 1 .. n : c[k].freedata /\ c[k].data = b
        /\ \A k, l \in 1 .. n : c[k].freedata /\ c[l].freedata /\ c[k].data = c[l].data => k = l
    BY DEF OwnershipInv, QueuedLive, LiveQueued, OwnedOnce
  <1>5. /\ live \subseteq live' /\ live' \subseteq live \cup {e.data}
        /\ e.freedata => e.data \in live'
        /\ ~e.freedata => live' = live
    BY DEF FreeOf
  <1> HIDE DEF n, c, d
  <1>6. \A k \in 1 .. n + 1 : d[k].freedata => d[k].data \in live'
    BY <1>1, <1>3, <1>4, <1>5
  <1>7. \A b \in live' : \E k \in 1 .. n + 1 : d[k].freedata /\ d[k].data = b
    BY <1>1, <1>3, <1>4, <1>5
  <1>8. \A k, l \in 1 .. n + 1 : d[k].freedata /\ d[l].freedata /\ d[k].data = d[l].data => k = l
    BY <1>1, <1>3, <1>4
  <1>9. live' \subseteq Blocks
    BY <1>5 DEF OwnershipInv
  <1>10. QueuedLive' /\ LiveQueued' /\ OwnedOnce'
    BY <1>1, <1>6, <1>7, <1>8 DEF QueuedLive, LiveQueued, OwnedOnce, d
  <1>11. QED
    BY <1>1, <1>9, <1>10 DEF OwnershipInv

\* The oldest element leaves and its block is freed, if it owns one.
LEMMA OwnershipRemoves ==
    ASSUME OwnershipInv, Remove
    PROVE  OwnershipInv'
  <1> DEFINE n == uiElementCount
             c == Ring!Contents
             d == Ring!Contents'
  <1>1. /\ RingInv' /\ n > 0 /\ uiElementCount' = n - 1 /\ pvElement' = c[1]
        /\ \A k \in 1 .. n - 1 : d[k] = c[k + 1]
    BY PopRemoves DEF OwnershipInv, Remove
  <1>2. n \in Nat
    BY ContentsAre DEF OwnershipInv
  <1>3. live' = live \ FreeOf(c[1])
    BY <1>1 DEF Remove
  <1>4. /\ \A k \in 1 .. n : c[k].freedata => c[k].data \in live
        /\ \A b \in live : \E k \in 1 .. n : c[k].freedata /\ c[k].data = b
        /\ \A k, l \in 1 .. n : c[k].freedata /\ c[l].freedata /\ c[k].data = c[l].data => k = l
    BY DEF OwnershipInv, QueuedLive, LiveQueued, OwnedOnce
  <1> HIDE DEF n, c, d
  <1>5. \A k \in 1 .. n - 1 : k + 1 \in 1 .. n /\ k + 1 # 1
    BY <1>2
  <1>6. 1 \in 1 .. n
    BY <1>1, <1>2
  <1>7. \A k \in 1 .. n - 1 : d[k].freedata => d[k].data \in live'
    <2> SUFFICES ASSUME NEW k \in 1 .. n - 1, d[k].freedata
                 PROVE  d[k].data \in live'
      OBVIOUS
    <2>1. d[k] = c[k + 1] /\ k + 1 \in 1 .. n /\ k + 1 # 1
      BY <1>1, <1>5
    <2>2. c[k + 1].data \in live
      BY <1>4, <2>1
    <2>3. c[1].freedata => c[1].data # c[k + 1].data
      BY <1>4, <1>6, <2>1
    <2>4. QED
      BY <1>3, <2>1, <2>2, <2>3 DEF FreeOf
  <1>8. \A b \in live' : \E k \in 1 .. n - 1 : d[k].freedata /\ d[k].data = b
    <2> SUFFICES ASSUME NEW b \in live'
                 PROVE  \E k \in 1 .. n - 1 : d[k].freedata /\ d[k].data = b
      OBVIOUS
    <2>1. b \in live /\ b \notin FreeOf(c[1])
      BY <1>3
    <2>2. PICK k \in 1 .. n : c[k].freedata /\ c[k].data = b
      BY <1>4, <2>1
    <2>3. k # 1
      BY <2>1, <2>2 DEF FreeOf
    <2>4. k - 1 \in 1 .. n - 1 /\ (k - 1) + 1 = k
      BY <1>2, <2>3
    <2>5. d[k - 1] = c[k]
      BY <1>1, <2>4
    <2>6. QED
      BY <2>2, <2>4, <2>5
  <1>9. \A k, l \in 1 .. n - 1 : d[k].freedata /\ d[l].freedata /\ d[k].data = d[l].data => k = l
    <2> SUFFICES ASSUME NEW k \in 1 .. n - 1, NEW l \in 1 .. n - 1,
                        d[k].freedata, d[l].freedata, d[k].data = d[l].data
                 PROVE  k = l
      OBVIOUS
    <2>1. k + 1 = l + 1
      BY <1>1, <1>4, <1>5
    <2>2. QED
      BY <1>2, <2>1
  <1>10. live' \subseteq Blocks
    BY <1>3 DEF OwnershipInv
  <1>11. QueuedLive' /\ LiveQueued' /\ OwnedOnce'
    BY <1>1, <1>7, <1>8, <1>9 DEF QueuedLive, LiveQueued, OwnedOnce, d
  <1>12. QED
    BY <1>1, <1>10, <1>11 DEF OwnershipInv

\* The flush frees every block that is live.
LEMMA OwnershipFlushes ==
    ASSUME OwnershipInv, SOCKETFIFO_Flush
    PROVE  OwnershipInv'
  <1>1. RingInv' /\ uiElementCount' = 0
    BY FlushEmpties DEF OwnershipInv
  <1>2. live' = live \ FlushHeap
    BY DEF SOCKETFIFO_Flush
  <1>3. live \subseteq FlushHeap
    <2> SUFFICES ASSUME NEW b \in live
                 PROVE  b \in FlushHeap
      OBVIOUS
    <2>1. PICK k \in 1 .. uiElementCount : Ring!Contents[k].freedata /\ Ring!Contents[k].data = b
      BY DEF OwnershipInv, LiveQueued
    <2>2. k \in DOMAIN Ring!Contents
      BY ContentsAre DEF OwnershipInv
    <2>3. b \in FreeOf(Ring!Contents[k])
      BY <2>1 DEF FreeOf
    <2>4. QED
      BY <2>2, <2>3, Zenon DEF FlushHeap
  <1>4. live' = {} /\ 1 .. uiElementCount' = {}
    BY <1>1, <1>2, <1>3
  <1>5. QED
    BY <1>1, <1>4, Zenon
       DEF OwnershipInv, QueuedLive, LiveQueued, OwnedOnce

\* Steps that leave the queue and the heap as they are.
LEMMA OwnershipKept ==
    ASSUME OwnershipInv, live' = live,
           Ring!FIFO_bPushFull \/ Ring!FIFO_bPeekElement \/ Ring!FIFO_bGetEmpty \/ UNCHANGED queueVars
    PROVE  OwnershipInv'
  <1>1. RingInv' /\ Ring!Contents' = Ring!Contents
    BY QueueKept DEF OwnershipInv
  <1>2. uiElementCount' = uiElementCount
    BY DEF Ring!FIFO_bPushFull, Ring!FIFO_bPeekElement, Ring!FIFO_bGetEmpty, queueVars
  <1>3. QED
    BY <1>1, <1>2 DEF OwnershipInv, QueuedLive, LiveQueued, OwnedOnce

\* Every call of socketfifo.c keeps the ownership of the blocks.
LEMMA OwnershipNext == OwnershipInv /\ [QueueNext]_queueVars => OwnershipInv'
  <1> SUFFICES ASSUME OwnershipInv, [QueueNext]_queueVars
               PROVE  OwnershipInv'
    OBVIOUS
  <1>1. ASSUME NEW b \in Blocks, SendReply(b)
        PROVE  OwnershipInv'
    <2>1. CASE Ring!FIFO_bPushElement(Owned(b)) /\ live' = live \cup {b}
      <3>1. live' = live \cup FreeOf(Owned(b))
        BY <2>1, ElementTypes DEF FreeOf
      <3>2. Owned(b).data \in Blocks \ live
        BY <1>1, ElementTypes DEF SendReply
      <3>3. QED
        BY <2>1, <3>1, <3>2, ElementTypes, OwnershipAdds
    <2>2. CASE Ring!FIFO_bPushFull /\ live' = live
      BY <2>2, OwnershipKept
    <2>3. QED
      BY <1>1, <2>1, <2>2 DEF SendReply
  <1>2. CASE SendData
    <2>1. CASE Ring!FIFO_bPushElement(Borrowed)
      <3>1. live' = live \cup FreeOf(Borrowed)
        BY <1>2, ElementTypes DEF SendData, FreeOf
      <3>2. QED
        BY <2>1, <3>1, ElementTypes, OwnershipAdds
    <2>2. CASE Ring!FIFO_bPushFull
      BY <1>2, <2>2, OwnershipKept DEF SendData
    <2>3. QED
      BY <1>2, <2>1, <2>2 DEF SendData
  <1>3. CASE Remove
    BY <1>3, OwnershipRemoves
  <1>4. CASE Peek
    BY <1>4, OwnershipKept DEF Peek
  <1>5. CASE SOCKETFIFO_Flush
    BY <1>5, OwnershipFlushes
  <1>6. CASE UNCHANGED queueVars
    BY <1>6, OwnershipKept DEF queueVars
  <1>7. QED
    BY <1>1, <1>2, <1>3, <1>4, <1>5, <1>6 DEF QueueNext

\* The ring and the set of live blocks keep their types under every call of socketfifo.c.
THEOREM QueueTypeCorrect == QueueSpec => []SocketFifoTypeOK
  <1>1. QueueSpec => []OwnershipInv
    BY OwnershipStarts, OwnershipNext, PTL DEF QueueSpec
  <1>2. OwnershipInv => SocketFifoTypeOK
    BY DEF OwnershipInv, RingInv, SocketFifoTypeOK
  <1>3. QED
    BY <1>1, <1>2, PTL

\* For every capacity and every heap, the blocks not freed are those of the queued
\* replies, each in one reply: no leak, no use after free, no double free.
THEOREM QueueOwnsItsBlocks == QueueSpec => []HeapOwnership
  <1>1. QueueSpec => []OwnershipInv
    BY OwnershipStarts, OwnershipNext, PTL DEF QueueSpec
  <1>2. OwnershipInv => HeapOwnership
    BY OwnershipParts
  <1>3. QED
    BY <1>1, <1>2, PTL

\* The ring is consistent after every flush, though no index is reset.
THEOREM RingSurvivesFlush == QueueSpec => []RingAfterFlush
  <1>1. QueueSpec => []OwnershipInv
    BY OwnershipStarts, OwnershipNext, PTL DEF QueueSpec
  <1>2. OwnershipInv => RingAfterFlush
    BY DEF OwnershipInv, RingInv, RingAfterFlush
  <1>3. QED
    BY <1>1, <1>2, PTL
=============================================================================

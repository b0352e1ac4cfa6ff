----------------------------- MODULE SocketFifo -----------------------------
(***************************************************************************)
(* socketfifo.c as mb_ftp.c uses it: the queue owns the heap block of each *)
(* reply (freedata) and only borrows the shared ftpBuffer of a data chunk. *)
(* Blocks are taken from and given back to the FreeRTOS heap.              *)
(***************************************************************************)
EXTENDS Naturals, Sequences, FiniteSets

CONSTANTS
    Blocks,         \* heap blocks pvPortMalloc can return
    ftpBuffer,      \* the one static data buffer
    uiElementsMax

ASSUME BlocksAssumption == ftpBuffer \notin Blocks

ASSUME MaxAssumption == uiElementsMax \in Nat \ {0}

VARIABLES pvElements, uiFirst, uiLast, uiElementCount, ok, pvElement,
    live            \* heap blocks allocated and not yet freed

queueVars == <<pvElements, uiFirst, uiLast, uiElementCount, ok, pvElement, live>>

SocketFifoElement_t ==
    [data : Blocks \cup {ftpBuffer}, freedata : BOOLEAN]

Borrowed == [data |-> ftpBuffer, freedata |-> FALSE]

Ring == INSTANCE Fifo WITH Elem <- SocketFifoElement_t, Junk <- Borrowed

Owned(b) == [data |-> b, freedata |-> TRUE]

QueueInit ==
    /\ Ring!FIFO_Init
    /\ live = {}

\* vPortFree(element.data), done only for the elements that own their data.
FreeOf(e) == IF e.freedata THEN {e.data} ELSE {}

\* Mutant: a reply the queue refuses is not freed.
SendReply_kept(b) ==
    /\ b \notin live
    /\ Ring!FIFO_bPushElement(Owned(b)) \/ Ring!FIFO_bPushFull
    /\ live' = live \cup {b}

\* mb_ftp_send_reply: malloc, push, and free again when the queue is full.
SendReply(b) ==
    /\ b \notin live
    /\ \/ Ring!FIFO_bPushElement(Owned(b)) /\ live' = live \cup {b}
       \/ Ring!FIFO_bPushFull /\ live' = live

\* mb_ftp_send_data_to_fifo: the chunk stays in ftpBuffer, the result is ignored.
SendData ==
    /\ \/ Ring!FIFO_bPushElement(Borrowed)
       \/ Ring!FIFO_bPushFull
    /\ live' = live

\* mb_ftp_send_from_fifo, the element was sent or its socket is closed.
Remove ==
    /\ Ring!FIFO_bPopElement
    /\ live' = live \ FreeOf(pvElement')

\* mb_ftp_send_from_fifo peeks first and may leave the element for a retry.
Peek ==
    /\ Ring!FIFO_bPeekElement \/ Ring!FIFO_bGetEmpty
    /\ live' = live

FlushHeap == UNION {FreeOf(Ring!Contents[i]) : i \in DOMAIN Ring!Contents}

LastPopped == IF uiElementCount = 0 THEN pvElement ELSE Ring!Contents[uiElementCount]

\* Mutant: the count is cleared and the indices are not moved.
SOCKETFIFO_Flush_count ==
    /\ live' = live \ FlushHeap
    /\ uiElementCount' = 0
    /\ pvElement' = LastPopped
    /\ ok' = FALSE
    /\ UNCHANGED <<pvElements, uiFirst, uiLast>>

\* SOCKETFIFO_Flush pops until the queue is empty and frees what it owns.
SOCKETFIFO_Flush ==
    /\ live' = live \ FlushHeap
    /\ uiFirst' = (uiFirst + uiElementCount) % uiElementsMax
    /\ uiElementCount' = 0
    /\ pvElement' = LastPopped
    /\ ok' = FALSE
    /\ UNCHANGED <<pvElements, uiLast>>

QueueNext ==
    \/ \E b \in Blocks : SendReply(b)
    \/ SendData
    \/ Remove
    \/ Peek
    \/ SOCKETFIFO_Flush

QueueSpec == QueueInit /\ [][QueueNext]_queueVars

-----------------------------------------------------------------------------
\* Every call leaves the ring structure well typed and live a set of blocks.
SocketFifoTypeOK == Ring!FifoTypeOK /\ live \subseteq Blocks

\* Heap ownership of socketfifo.c and its callers: the blocks allocated and not
\* freed are exactly those of the queued replies (nothing leaks, nothing queued
\* is already freed) and no two queued replies share one (no double free).
HeapOwnership ==
    LET q == Ring!Contents
        owning == {i \in DOMAIN q : q[i].freedata}
    IN  /\ live = {q[i].data : i \in owning}
        /\ \A i, j \in owning : q[i].data = q[j].data => i = j

\* SOCKETFIFO_Flush empties by popping and never resets the indices, so the
\* ring must stay consistent when a reset strikes with any number queued.
RingAfterFlush == Ring!RingConsistent
=============================================================================

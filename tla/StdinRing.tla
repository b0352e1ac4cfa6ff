------------------------------ MODULE StdinRing ------------------------------
(***************************************************************************)
(* Console input: the UART interrupt handler of uart.c puts characters in  *)
(* the ring of py/ringbuf.h, mp_hal_stdin_rx_chr of mphalport.c takes them *)
(* out.  The handler is atomic to the task and may run between any two     *)
(* memory accesses of the task.  A character is named by its number in the *)
(* order of arrival, so that a loss or a change of order shows.            *)
(***************************************************************************)
EXTENDS Naturals, Sequences

CONSTANTS
    RingSize,   \* slots of stdin_ringbuf_array
    StoreOnce,  \* the builds: whether the wrapped iget is stored once, or iget + 1 first
    MaxChars    \* bound: characters that arrive

ASSUME RingAssumption ==
    /\ RingSize \in Nat \ {0}
    /\ StoreOnce \subseteq BOOLEAN
    /\ MaxChars \in Nat

VARIABLES
    once,               \* the build
    buf, iget, iput,    \* ringbuf_t
    reader, old, v,     \* the task: its step, the slot it takes, the byte it loaded
    pending,            \* mp_pending_exception is the keyboard interrupt
    arrived,            \* how many characters the UART received
    accepted,           \* history: the characters that were put
    delivered           \* history: the characters mp_hal_stdin_rx_chr returned

ring == <<once, buf, iget, iput>>
task == <<reader, old, v>>
stdinVars == <<once, buf, iget, iput, reader, old, v, pending, arrived, accepted, delivered>>

RingSlots == 0 .. (RingSize - 1)

WrapIndex(i) == IF i >= RingSize THEN 0 ELSE i

StdinInit ==
    /\ once \in StoreOnce
    /\ buf = [s \in RingSlots |-> 0] /\ iget = 0 /\ iput = 0
    /\ reader = "get" /\ old = 0 /\ v = 0
    /\ pending = FALSE
    /\ arrived = 0
    /\ accepted = <<>> /\ delivered = <<>>

-----------------------------------------------------------------------------
(* The interrupt handler, once per byte in the hardware FIFO. *)

RingFull == WrapIndex(iput + 1) = iget

\* A byte arrives, goes to slot s and the put index advances.
Store(s) ==
    /\ arrived < MaxChars
    /\ arrived' = arrived + 1
    /\ buf' = [buf EXCEPT ![s] = arrived + 1]
    /\ iput' = WrapIndex(iput + 1)
    /\ accepted' = Append(accepted, arrived + 1)
    /\ UNCHANGED <<once, iget, task, pending, delivered>>

\* Mutant: the byte goes to the slot after the put index.
Put_after == ~RingFull /\ Store(WrapIndex(iput + 1))

Put == ~RingFull /\ Store(iput)

\* A full ring refuses the byte; the handler ignores the -1.
PutFull ==
    /\ arrived < MaxChars /\ RingFull
    /\ arrived' = arrived + 1
    /\ UNCHANGED <<ring, task, pending, accepted, delivered>>

\* mp_interrupt_char is not put in the ring.
Interrupt ==
    /\ arrived < MaxChars
    /\ arrived' = arrived + 1
    /\ pending' = TRUE
    /\ UNCHANGED <<ring, task, accepted, delivered>>

-----------------------------------------------------------------------------
(* mp_hal_stdin_rx_chr, called again for every character. *)

GetEmpty ==
    /\ reader = "get" /\ iget = iput
    /\ reader' = "poll"
    /\ UNCHANGED <<ring, old, v, pending, arrived, accepted, delivered>>

\* Mutant: the hook only waits.
PollHook_waits ==
    /\ reader = "poll"
    /\ reader' = "get"
    /\ UNCHANGED <<ring, old, v, pending, arrived, accepted, delivered>>

\* mp_handle_pending raises what is pending, which ends the call.
PollHook ==
    /\ reader = "poll"
    /\ reader' = "get"
    /\ pending' = FALSE
    /\ UNCHANGED <<ring, old, v, arrived, accepted, delivered>>

GetTest ==
    /\ reader = "get" /\ iget # iput
    /\ reader' = "load"
    /\ UNCHANGED <<ring, old, v, pending, arrived, accepted, delivered>>

\* v = r->buf[r->iget++]
GetLoad ==
    /\ reader = "load"
    /\ reader' = "wrap"
    /\ old' = iget
    /\ v' = buf[iget]
    /\ iget' = IF once THEN iget ELSE iget + 1
    /\ UNCHANGED <<once, buf, iput, pending, arrived, accepted, delivered>>

\* The get index becomes i and byte b is returned.
ReturnChar(i, b) ==
    /\ reader = "wrap"
    /\ reader' = "get"
    /\ iget' = i
    /\ delivered' = Append(delivered, b)
    /\ UNCHANGED <<once, buf, iput, old, v, pending, arrived, accepted>>

\* if (r->iget >= r->size) r->iget = 0; nothing orders the load of the byte
\* against the first store of iget, so that the byte may be loaded only now.
GetWrap == \E b \in {v, buf[old]} : (once => b = v) /\ ReturnChar(WrapIndex(old + 1), b)

Isr == Put \/ PutFull \/ Interrupt

Task == GetEmpty \/ PollHook \/ GetTest \/ GetLoad \/ GetWrap

StdinNext == Isr \/ Task

\* The REPL reads on for ever and every wait ends with the next tick.
StdinSpec == StdinInit /\ [][StdinNext]_stdinVars /\ WF_stdinVars(Task)

-----------------------------------------------------------------------------
\* What the ring holds, oldest first.
Count == IF iput >= iget THEN iput - iget ELSE iput + RingSize - iget

RingSlot(i) == IF iget + (i - 1) < RingSize THEN iget + (i - 1) ELSE iget + (i - 1) - RingSize

RingContents == [i \in 1 .. Count |-> buf[RingSlot(i)]]

\* The two indices stay on the ring; iget is one past it only inside ringbuf_get.
StdinTypeOK ==
    /\ once \in StoreOnce
    /\ buf \in [RingSlots -> Nat]
    /\ iget \in RingSlots \/ (reader = "wrap" /\ ~once /\ iget = RingSize)
    /\ iput \in RingSlots
    /\ reader \in {"get", "poll", "load", "wrap"}
    /\ old \in RingSlots /\ v \in Nat
    /\ pending \in BOOLEAN
    /\ arrived \in 0 .. MaxChars
    /\ accepted \in Seq(Nat) /\ delivered \in Seq(Nat)

\* When ringbuf_get stores iget once, no interrupt between its steps loses, repeats or
\* reorders a character that ringbuf_put accepted: what was accepted is what
\* mp_hal_stdin_rx_chr returned, followed by what the ring holds.  In a build that lets
\* the handler see iget = size, where it does not notice that the ring is full, the
\* characters returned are still in the order they arrived and none is returned twice.
NothingLost ==
    /\ once => accepted = delivered \o RingContents
    /\ \A i, j \in DOMAIN delivered : i < j => delivered[i] < delivered[j]

\* The reader gets all there is: in the first kind of build every character that
\* ringbuf_put accepts is returned in the end, and in both a keyboard interrupt that
\* the handler has set is raised by the waiting reader.
InputDelivered == <>[](once => delivered = accepted) /\ (pending ~> ~pending)
=============================================================================

---------------------------- MODULE SocketRetry ----------------------------
(***************************************************************************)
(* The waiting calls of a socket object, from modsocket.c: a timeout is a  *)
(* number of retries of one lwIP call that waits SOCKET_POLL_US, with a    *)
(* look at the pending exception (Ctrl-C) between them.  Bytes are         *)
(* counted, time is counted in arbitrary units, and lwIP, the peer and the *)
(* console are the environment.                                            *)
(***************************************************************************)
EXTENDS Naturals

CONSTANTS
    Timeouts,   \* the timeouts programs set; 0 is non-blocking
    Forever,    \* UINT64_MAX: settimeout(None), setblocking(True)
    Poll,       \* SOCKET_POLL_US
    Width,      \* 32: bits of retries and of the loop counters
    Lengths,    \* the lengths of data to send or receive
    Capacity,   \* bound: bytes lwIP buffers each way
    MaxElapsed  \* bound: the history of time stops here

ASSUME SocketAssumption ==
    /\ Timeouts \subseteq Nat /\ Forever \notin Nat
    /\ Lengths \subseteq Nat
    /\ Poll \in Nat \ {0} /\ Width \in Nat \ {0} /\ Capacity \in Nat \ {0}
    /\ \A t \in Timeouts : t \div Poll < 2 ^ Width      \* in the code 13 years
    /\ MaxElapsed \in Nat /\ \A t \in Timeouts : t + Poll <= MaxElapsed

VARIABLES
    timeout, retries,   \* the socket's timeout and what is kept of it
    op, want, done,     \* the call, its length, the bytes it has counted
    i,                  \* the retry loop's counter
    result,             \* "running", or how the last call ended ("none": no call)
    avail, eof, room,   \* lwIP: bytes to receive, end of stream, bytes of space
    pending,            \* mp_pending_exception is set
    moved, elapsed      \* history: bytes lwIP moved in this call, time since progress

env == <<avail, eof, room>>
socket == <<timeout, retries>>
call == <<op, want>>
socketVars == <<socket, call, done, i, result, env, pending, moved, elapsed>>

Receives == {"accept", "recv", "read"}
Sends == {"send", "sendall", "sendto", "write"}
UINT_MAX == 2 ^ Width - 1

Least(a, b) == IF a <= b THEN a ELSE b

\* _socket_settimeout: how often the lwIP call is repeated.
Retries(t) == IF t = Forever THEN UINT_MAX ELSE (t \div Poll) % (UINT_MAX + 1)

\* How long lwIP waits before it gives up with EWOULDBLOCK.
PollTime == IF timeout = 0 THEN 0 ELSE Poll

SocketInit ==
    /\ timeout = Forever /\ retries = Retries(Forever)
    /\ op = "recv" /\ want = 0 /\ done = 0 /\ i = 0 /\ result = "none"
    /\ avail = 0 /\ eof = FALSE /\ room = Capacity
    /\ pending = FALSE
    /\ moved = 0 /\ elapsed = 0

\* socket_settimeout and socket_setblocking
settimeout(t) ==
    /\ result # "running"
    /\ timeout' = t /\ retries' = Retries(t)
    /\ result' = "none"
    /\ UNCHANGED <<call, done, i, env, pending, moved, elapsed>>

\* A receiving call asks for at least one byte.
Call(o, n) ==
    /\ result # "running"
    /\ n = 0 => o \in Sends
    /\ op' = o /\ want' = n
    /\ done' = 0 /\ i' = 0 /\ moved' = 0 /\ elapsed' = 0
    /\ result' = "running"
    /\ UNCHANGED <<socket, env, pending>>

\* Mutant: the sending loops end one try early.
CanTry_early ==
    /\ IF op \in Receives THEN i <= retries ELSE i + 1 < retries
    /\ op \in {"send", "sendall", "read", "write"} => done < want

\* The loops' conditions; read and write loop in mp_stream_rw until all is done.
CanTry ==
    /\ IF op \in Receives THEN i <= retries ELSE i < retries
    /\ op \in {"send", "sendall", "read", "write"} => done < want

\* Mutant: no look at the pending exception.
NextTry_unchecked ==
    /\ i' = (i + 1) % (UINT_MAX + 1)
    /\ UNCHANGED <<pending, result>>

\* check_for_exceptions and the loop's i++.
NextTry ==
    IF pending
    THEN pending' = FALSE /\ result' = "KeyboardInterrupt" /\ UNCHANGED i
    ELSE i' = (i + 1) % (UINT_MAX + 1) /\ UNCHANGED <<pending, result>>

Wait == elapsed' = Least(elapsed + PollTime, MaxElapsed)

Ready == avail > 0 \/ (eof /\ op # "accept")

\* lwip_recvfrom_r or lwip_accept_r has something, which at the end of the stream
\* is zero bytes; only read goes on for more, with a new count.
TryReceive ==
    /\ result = "running" /\ op \in Receives /\ CanTry
    /\ Ready
    /\ LET n == Least(avail, IF op = "accept" THEN 1 ELSE want - done) IN
           /\ avail' = avail - n
           /\ done' = done + n /\ moved' = moved + n
           /\ IF op = "read" /\ n > 0
              THEN i' = 0 /\ elapsed' = 0 /\ UNCHANGED result
              ELSE result' = "ok" /\ UNCHANGED <<i, elapsed>>
    /\ UNCHANGED <<socket, call, eof, room, pending>>

\* The receiving call returns EWOULDBLOCK.
TryEmpty ==
    /\ result = "running" /\ op \in Receives /\ CanTry
    /\ ~Ready
    /\ Wait /\ NextTry
    /\ UNCHANGED <<socket, call, done, env, moved>>

\* _socket_send: lwip_write_r took n bytes, none of them when it would block.
TrySend ==
    /\ result = "running" /\ op \in {"send", "sendall"} /\ CanTry
    /\ LET n == Least(room, want - done) IN
           /\ room' = room - n
           /\ done' = done + n /\ moved' = moved + n
           /\ IF n < want - done THEN Wait ELSE UNCHANGED elapsed
    /\ NextTry
    /\ UNCHANGED <<socket, call, avail, eof>>

\* socket_sendto: the whole datagram or nothing.
TrySendto ==
    /\ result = "running" /\ op = "sendto" /\ CanTry
    /\ IF want \in 1 .. room
       THEN /\ room' = room - want /\ done' = want /\ moved' = want
            /\ result' = "ok"
            /\ UNCHANGED <<i, pending, elapsed>>
       ELSE /\ IF want > room THEN Wait ELSE UNCHANGED elapsed
            /\ NextTry
            /\ UNCHANGED <<room, done, moved>>
    /\ UNCHANGED <<socket, call, avail, eof>>

\* socket_stream_write called by mp_stream_rw.
TryWrite ==
    /\ result = "running" /\ op = "write" /\ CanTry
    /\ LET n == Least(room, want - done) IN
           /\ room' = room - n
           /\ done' = done + n /\ moved' = moved + n
           /\ IF n > 0 THEN i' = 0 /\ elapsed' = 0 /\ UNCHANGED <<pending, result>>
              ELSE Wait /\ NextTry
    /\ UNCHANGED <<socket, call, avail, eof>>

\* Any lwIP call fails: an exception of its errno, at once.
TryError ==
    /\ result = "running" /\ CanTry
    /\ result' = "error"
    /\ UNCHANGED <<socket, call, done, i, env, pending, moved, elapsed>>

\* What ends the call when its loop is left.
TimedOut ==
    \/ op \in {"accept", "recv", "sendto"}
    \/ op \in {"send", "sendall"} /\ done = 0
    \/ op = "sendall" /\ done < want

Finish ==
    /\ result = "running" /\ ~CanTry
    /\ result' = IF TimedOut THEN "ETIMEDOUT" ELSE "ok"
    /\ UNCHANGED <<socket, call, done, i, env, pending, moved, elapsed>>

Step ==
    TryReceive \/ TryEmpty \/ TrySend \/ TrySendto \/ TryWrite \/ TryError \/ Finish

\* The environment: bytes (or a connection) arrive, the peer ends the stream, sent
\* bytes are acknowledged, Ctrl-C is typed.
Arrive ==
    /\ avail < Capacity /\ ~eof
    /\ avail' = avail + 1
    /\ UNCHANGED <<socket, call, done, i, result, eof, room, pending, moved, elapsed>>

PeerCloses ==
    /\ ~eof /\ eof' = TRUE
    /\ UNCHANGED <<socket, call, done, i, result, avail, room, pending, moved, elapsed>>

Acknowledge ==
    /\ room < Capacity /\ room' = room + 1
    /\ UNCHANGED <<socket, call, done, i, result, avail, eof, pending, moved, elapsed>>

CtrlC ==
    /\ ~pending /\ pending' = TRUE
    /\ UNCHANGED <<socket, call, done, i, result, env, moved, elapsed>>

SocketNext ==
    \/ \E t \in Timeouts \cup {Forever} : settimeout(t)
    \/ \E o \in Receives \cup Sends, n \in Lengths : Call(o, n)
    \/ Step
    \/ Arrive \/ PeerCloses \/ Acknowledge \/ CtrlC

\* A call that has begun goes on: lwIP's own timeout ends each try.
SocketSpec == SocketInit /\ [][SocketNext]_socketVars /\ WF_socketVars(Step)

-----------------------------------------------------------------------------
SocketTypeOK ==
    /\ timeout \in Timeouts \cup {Forever} /\ retries \in 0 .. UINT_MAX
    /\ op \in Receives \cup Sends /\ want \in Lengths \cup {0}
    /\ done \in Nat /\ moved \in Nat /\ elapsed \in 0 .. MaxElapsed
    /\ i \in 0 .. UINT_MAX
    /\ result \in {"none", "running", "ok", "ETIMEDOUT", "KeyboardInterrupt", "error"}
    /\ avail \in 0 .. Capacity /\ eof \in BOOLEAN /\ room \in 0 .. Capacity
    /\ pending \in BOOLEAN

\* The whole timeout has passed, and no more than one poll after it; never on a
\* blocking socket.
WaitedOut == timeout # Forever /\ elapsed \in timeout .. timeout + Poll

\* The outcome of a call is what happened.  recv and accept raise ETIMEDOUT only when the
\* whole timeout has passed without anything to receive, also when the loop counter wraps
\* around, and read comes back short before the end of the stream only then (without an
\* exception: see TimeoutRaised); a send of something that can try at all raises ETIMEDOUT
\* only after a wait of the timeout cut down to whole polls, however many tries took a
\* part of the data.  What send, sendto and write report is what lwIP took over all their
\* tries, and a sendall that returns has handed over everything.
OutcomeTrue ==
    /\ op \in {"accept", "recv"} /\ result = "ETIMEDOUT" => WaitedOut
    /\ op = "read" /\ result = "ok" /\ done < want /\ ~eof => WaitedOut
    /\ op \in Sends /\ result = "ETIMEDOUT" /\ timeout # Forever =>
           retries = 0 \/ want = 0 \/ elapsed + Poll > timeout
    /\ op \in Sends /\ result = "ok" => done = moved /\ moved <= want
    /\ op = "sendall" /\ result = "ok" => moved = want

\* What the documentation of settimeout and the comment in socket_stream_read say: on a
\* socket with a timeout an operation raises the timeout error if the timeout has passed
\* before it was complete, and a read that gets nothing more is such an operation.
TimeoutRaised ==
    timeout \notin {0, Forever} =>
        /\ result = "ETIMEDOUT" => elapsed >= timeout
        /\ op = "read" /\ result = "ok" /\ done < want => eof

\* A call ends, however the bytes dribble in or drain, when its socket has a timeout,
\* and after Ctrl-C also on a blocking socket with a silent peer (the call may have been
\* answered first, and then the exception stays pending).
CallEnds ==
    (result = "running" /\ (timeout # Forever \/ pending)) ~> (result # "running")
=============================================================================

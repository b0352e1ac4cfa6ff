---------------------------- MODULE SerialChannel ----------------------------
(***************************************************************************)
(* The serial channel to the extension board: process_serial_data of       *)
(* mb_processcmd.c receives frames into read_buffer_data; a sensor driver  *)
(* (mb_ultrasonic_sensor_value, and seventeen others of the same shape)    *)
(* sends a request, waits for the response flag and decodes the buffer.    *)
(* Two tasks of one priority on one core: either is preempted anywhere.    *)
(*                                                                         *)
(* The buffer is its header bytes and the two halves of the float, each    *)
(* zero or from some frame; a frame is named by the request it answers.    *)
(* The other board may lose an answer or send it late.                     *)
(***************************************************************************)
EXTENDS Naturals

CONSTANT MaxRequests    \* bound: requests sent

ASSUME SerialAssumption == MaxRequests \in Nat \ {0}

VARIABLES
    read_buffer_data,   \* what header, lo and hi hold: Zero or a Byte
    rsp_be_received,
    pure_command_mode,
    rx, frame,          \* the receive task: its step, the frame in its data buffer
    driver,             \* the driver: its step
    calls,              \* how many value() calls have begun
    requests,           \* how many requests were sent, value_cmd() ones included
    late,               \* whether the call gave up waiting
    value,              \* the two halves the call has read
    wire                \* the answers on their way

channel == <<read_buffer_data, rsp_be_received, pure_command_mode>>
reading == <<calls, late, value>>
serialVars == <<channel, rx, frame, driver, reading, requests, wire>>

Halves == {"lo", "hi"}

Parts == {"header"} \cup Halves

Frame == [request : 1 .. MaxRequests, float : BOOLEAN]

Zero == [request |-> 0, float |-> FALSE, during |-> 0]

\* A byte of a frame and the number of calls begun when it was copied.
Byte(f) == [request |-> f.request, float |-> f.float, during |-> calls]

SerialInit ==
    /\ read_buffer_data = [p \in Parts |-> Zero]
    /\ rsp_be_received = FALSE
    /\ pure_command_mode = TRUE
    /\ rx = "read" /\ frame = [request |-> 1, float |-> FALSE]
    /\ driver = "idle" /\ calls = 0 /\ requests = 0 /\ late = FALSE
    /\ value = [p \in Halves |-> Zero]
    /\ wire = {}

-----------------------------------------------------------------------------
(* process_serial_data *)

Receive(from, to) == rx = from /\ rx' = to /\ UNCHANGED <<driver, reading, requests>>

RxRead(f) ==
    /\ Receive("read", "flag")
    /\ f \in wire
    /\ frame' = f
    /\ wire' = wire \ {f}
    /\ UNCHANGED channel

RxFlag ==
    /\ Receive("flag", "echo")
    /\ rsp_be_received' = TRUE
    /\ UNCHANGED <<read_buffer_data, pure_command_mode, frame, wire>>

\* In pure command mode the frame is printed first; the copy follows in any case.
RxEcho == Receive("echo", "header") /\ UNCHANGED <<channel, frame, wire>>

Copy(part, to) ==
    /\ Receive(part, to)
    /\ read_buffer_data' = [read_buffer_data EXCEPT ![part] = Byte(frame)]
    /\ UNCHANGED <<rsp_be_received, pure_command_mode, frame, wire>>

\* memcpy, from the first byte on.
RxCopy == Copy("header", "lo") \/ Copy("lo", "hi") \/ Copy("hi", "read")

-----------------------------------------------------------------------------
(* The extension board answers a request; the answer may be lost on the way. *)

Request(float) ==
    /\ requests < MaxRequests
    /\ requests' = requests + 1
    /\ wire' = wire \cup {[request |-> requests + 1, float |-> float]}

Lose(f) ==
    /\ wire' = wire \ {f}
    /\ UNCHANGED <<channel, rx, frame, driver, reading, requests>>

-----------------------------------------------------------------------------
(* The driver. *)

\* mb_ultrasonic_sensor_value_cmd: a request whose answer goes to the console.
ValueCmd ==
    /\ driver = "idle"
    /\ rsp_be_received' = FALSE
    /\ Request(TRUE)
    /\ UNCHANGED <<read_buffer_data, pure_command_mode, rx, frame, driver, reading>>

\* mb_dcmotor_run: a command, answered without a value.
RunCmd ==
    /\ driver = "idle"
    /\ Request(FALSE)
    /\ UNCHANGED <<channel, rx, frame, driver, reading>>

DriverStep(from, to) == driver = from /\ driver' = to /\ UNCHANGED <<rx, frame>>

\* mb_ultrasonic_sensor_value: the flag and the mode are reset ...
ValueCall ==
    /\ DriverStep("idle", "mode")
    /\ requests < MaxRequests
    /\ calls' = calls + 1
    /\ late' = FALSE
    /\ value' = [p \in Halves |-> Zero]
    /\ rsp_be_received' = FALSE
    /\ UNCHANGED <<read_buffer_data, pure_command_mode, requests, wire>>

Mode ==
    /\ DriverStep("mode", "free")
    /\ pure_command_mode' = FALSE
    /\ UNCHANGED <<read_buffer_data, rsp_be_received, reading, requests, wire>>

\* Mutant: the buffer keeps the previous answer.
free_the_read_buffer_kept ==
    DriverStep("free", "send") /\ UNCHANGED <<channel, reading, requests, wire>>

\* ... the buffer is cleared ...
free_the_read_buffer ==
    /\ DriverStep("free", "send")
    /\ read_buffer_data' = [p \in Parts |-> Zero]
    /\ UNCHANGED <<rsp_be_received, pure_command_mode, reading, requests, wire>>

\* ... the request is sent ...
Send ==
    /\ DriverStep("send", "wait")
    /\ Request(TRUE)
    /\ UNCHANGED <<channel, reading>>

\* ... and the flag awaited ...
WaitFlag ==
    /\ DriverStep("wait", "check")
    /\ rsp_be_received
    /\ UNCHANGED <<channel, reading, requests, wire>>

\* Mutant: the loop has no time limit.
Timeout_none == FALSE

\* ... for a second.
Timeout ==
    /\ DriverStep("wait", "check")
    /\ ~rsp_be_received
    /\ late' = TRUE
    /\ UNCHANGED <<channel, calls, value, requests, wire>>

\* check_start_frame and is_data_float look at the header bytes.
Check ==
    /\ \/ read_buffer_data["header"].float /\ DriverStep("check", "lo")
       \/ ~read_buffer_data["header"].float /\ DriverStep("check", "restore")
    /\ UNCHANGED <<channel, reading, requests, wire>>

ReadFloat ==
    /\ DriverStep("lo", "hi") \/ DriverStep("hi", "restore")
    /\ value' = [value EXCEPT ![driver] = read_buffer_data[driver]]
    /\ UNCHANGED <<channel, calls, late, requests, wire>>

Return ==
    /\ DriverStep("restore", "idle")
    /\ pure_command_mode' = TRUE
    /\ UNCHANGED <<read_buffer_data, rsp_be_received, reading, requests, wire>>

RxTask == (\E f \in wire : RxRead(f)) \/ RxFlag \/ RxEcho \/ RxCopy

InCall ==
    \/ Mode \/ free_the_read_buffer \/ Send
    \/ WaitFlag \/ Timeout
    \/ Check \/ ReadFloat \/ Return

SerialNext ==
    \/ RxTask
    \/ \E f \in wire : Lose(f)
    \/ ValueCmd
    \/ RunCmd
    \/ ValueCall
    \/ InCall

\* Both tasks get their time slices; programs may stop calling and answers may be lost.
SerialSpec ==
    /\ SerialInit /\ [][SerialNext]_serialVars
    /\ WF_serialVars(RxTask) /\ WF_serialVars(InCall)

-----------------------------------------------------------------------------
\* The steps, the counters and what the buffer can hold.
SerialTypeOK ==
    /\ read_buffer_data \in
           [Parts -> [request : 0 .. MaxRequests, float : BOOLEAN, during : 0 .. MaxRequests]]
    /\ rsp_be_received \in BOOLEAN
    /\ pure_command_mode \in BOOLEAN
    /\ rx \in {"read", "flag", "echo"} \cup Parts
    /\ frame \in Frame
    /\ driver \in {"idle", "mode", "free", "send", "wait", "check", "lo", "hi", "restore"}
    /\ calls \in 0 .. MaxRequests
    /\ requests \in 0 .. MaxRequests
    /\ late \in BOOLEAN
    /\ value \in [Halves ->
           [request : 0 .. MaxRequests, float : BOOLEAN, during : 0 .. MaxRequests]]
    /\ wire \subseteq Frame

\* Whatever the receive task copies and however late, a reading contains no byte
\* that was in read_buffer_data before mb_ultrasonic_sensor_value was called.
ReadingFromThisCall ==
    \A p \in Halves : value[p] # Zero => value[p].during = calls

\* Every call of a driver returns, answer or not, and leaves the channel in pure
\* command mode, which forwards answers to the console again.
CallReturns == (driver # "idle") ~> (driver = "idle" /\ pure_command_mode)

\* A call that did not give up returns the float of a frame: the answer was
\* received, so its bytes are read and not the zeros the buffer was cleared to.
AnswerReturned ==
    driver = "restore" /\ ~late /\ frame.float => \A p \in Halves : value[p] # Zero
=============================================================================

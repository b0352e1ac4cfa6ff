------------------------------ MODULE CmdFrame ------------------------------
(***************************************************************************)
(* The command mode of mptask.c: pyexec_pure_cmd_repl takes one console    *)
(* byte per call, finds frames FF 55 length payload in the stream and      *)
(* hands each to parseData in py_data.  The host sends frames, and any     *)
(* bytes at all between them.                                              *)
(***************************************************************************)
EXTENDS Naturals, Sequences

CONSTANTS
    START_FRAME_1, START_FRAME_2,   \* FF and 55
    Width,                          \* 8: bits of a byte and of dataLen
    Size,                           \* 128: bytes of py_data
    Limit                           \* 140: the largest index

Bytes == 0 .. 2 ^ Width - 1

ASSUME FrameAssumption ==
    /\ Width \in Nat \ {0} /\ Size \in Nat /\ Limit \in Nat /\ 3 < Size /\ Size <= Limit
    /\ Size - 3 < 2 ^ Width     \* the length of a payload is a byte
    /\ {START_FRAME_1, START_FRAME_2} \subseteq Bytes /\ START_FRAME_1 # START_FRAME_2

VARIABLES
    prec, dataLen, py_index, isStart,   \* the parser's static variables
    py_data,                            \* the buffer
    parsed,                             \* the buffer parseData was last called with
    rest,                               \* the host: bytes of its frame still to come
    sent, clean                         \* history: that frame's payload; it met an idle parser

frameVars == <<prec, dataLen, py_index, isStart, py_data, parsed, rest, sent, clean>>

Blank == [k \in 0 .. Size - 1 |-> 0]

\* The payloads that fit: the last byte is written at index Size - 1.
Payloads == UNION {[1 .. n -> Bytes] : n \in 1 .. Size - 3}

\* py_data[k] = c.  An index from Size to Limit is past the array, and what lies
\* there is not the parser's.
writeBuffer(k, c) == IF k < Size THEN [py_data EXCEPT ![k] = c] ELSE py_data

FrameInit ==
    /\ prec = 0 /\ dataLen = 0 /\ py_index = 0 /\ isStart = FALSE
    /\ py_data = Blank /\ parsed = Blank
    /\ rest = <<>> /\ sent = <<>> /\ clean = FALSE

\* Mutant: one byte too late.
Overlong_late(k) == k > Limit + 1

Overlong(k) == k > Limit

Complete(started, len, k) == started /\ len = 0 /\ k > 3

\* Mutant: the buffer is not cleared after a frame.
Cleared_kept(data) == data

Cleared(data) == Blank

\* pyexec_pure_cmd_repl with the byte c.
pyexec_pure_cmd_repl(c) ==
    LET start  == c = START_FRAME_2 /\ ~isStart
        begin  == start /\ prec = START_FRAME_1
        at     == IF begin THEN 1 ELSE py_index
        len    == IF start \/ ~isStart THEN dataLen
                  ELSE IF at = 2 THEN c
                  ELSE IF at > 2 THEN (dataLen + 2 ^ Width - 1) % 2 ^ Width
                  ELSE dataLen
        data   == IF isStart /\ ~start THEN writeBuffer(at, c) ELSE py_data
        cut    == Overlong(at + 1)
        on     == (isStart \/ begin) /\ ~cut
        parse  == Complete(on, len, at + 1)
    IN  /\ prec' = IF start THEN prec ELSE c
        /\ dataLen' = len
        /\ isStart' = (on /\ ~parse)
        /\ py_index' = IF cut \/ parse THEN 0 ELSE at + 1
        /\ py_data' = IF cut THEN Blank ELSE IF parse THEN Cleared(data) ELSE data
        /\ parsed' = IF parse THEN data ELSE parsed

\* Any byte outside frames.
Noise(c) ==
    /\ rest = <<>>
    /\ pyexec_pure_cmd_repl(c)
    /\ sent' = <<>> /\ clean' = FALSE
    /\ UNCHANGED rest

\* The host begins a frame, and its bytes follow.
Begin(p) ==
    /\ rest = <<>>
    /\ pyexec_pure_cmd_repl(START_FRAME_1)
    /\ sent' = p
    /\ rest' = <<START_FRAME_2, Len(p)>> \o p
    /\ clean' = ~isStart

Continue ==
    /\ rest # <<>>
    /\ pyexec_pure_cmd_repl(Head(rest))
    /\ rest' = Tail(rest)
    /\ UNCHANGED <<sent, clean>>

FrameNext == (\E c \in Bytes : Noise(c)) \/ (\E p \in Payloads : Begin(p)) \/ Continue

FrameSpec == FrameInit /\ [][FrameNext]_frameVars

-----------------------------------------------------------------------------
\* The index never passes the limit where the buffer is given up.
FrameTypeOK ==
    /\ prec \in Bytes /\ dataLen \in Bytes /\ py_index \in 0 .. Limit
    /\ isStart \in BOOLEAN
    /\ {py_data, parsed} \subseteq [0 .. Size - 1 -> Bytes]

\* A frame of any fitting length that begins while the parser waits for one is
\* parsed when its last byte is there, whatever bytes came before, with nothing of an
\* earlier frame behind its payload, where the drivers read parameters a short frame
\* does not have.
FrameParsed ==
    sent # <<>> /\ rest = <<>> /\ clean =>
        /\ ~isStart
        /\ parsed = [k \in 0 .. Size - 1 |->
               IF k = 2 THEN Len(sent)
               ELSE IF k - 2 \in DOMAIN sent THEN sent[k - 2] ELSE 0]
=============================================================================

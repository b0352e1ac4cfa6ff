--------------------------- MODULE CmdFrameProofs ---------------------------
(***************************************************************************)
(* The frame parser of mptask.c finds every frame that begins while it is  *)
(* idle, whatever bytes came before, for every byte width, size of py_data *)
(* and limit.                                                              *)
(***************************************************************************)
EXTENDS CmdFrame, SequenceTheorems, FiniteSetTheorems, TLAPS

USE FrameAssumption

\* What the host's sequences hold.
HostTypeOK ==
    /\ sent \in Seq(Bytes) /\ Len(sent) <= Size - 3
    /\ rest \in Seq(Bytes)
    /\ clean \in BOOLEAN

\* Outside a frame the buffer is clear.
IdleBlank == ~isStart => py_data = Blank

\* The frame after its first byte, and what py_data holds after n bytes of its payload.
FrameByte(j) == IF j = 1 THEN START_FRAME_2 ELSE IF j = 2 THEN Len(sent) ELSE sent[j - 2]

Stored(n) == [k \in 0 .. Size - 1 |->
    IF k = 2 THEN Len(sent) ELSE IF k - 2 \in 1 .. n THEN sent[k - 2] ELSE 0]

\* What is to come is the end of the frame.
RestOfFrame ==
    /\ Len(rest) <= Len(sent) + 2
    /\ rest # <<>> => sent # <<>>
    /\ \A i \in 1 .. Len(rest) : rest[i] = FrameByte(Len(sent) + 2 - Len(rest) + i)

\* The parser follows a frame that met it idle: after the first byte, after the second,
\* after the length and some of the payload, and after the last.
Following ==
    clean /\ sent # <<>> =>
        /\ Len(rest) = Len(sent) + 2 => ~isStart /\ prec = START_FRAME_1
        /\ Len(rest) = Len(sent) + 1 => isStart /\ py_index = 2 /\ py_data = Blank
        /\ Len(rest) \in 1 .. Len(sent) =>
               /\ isStart /\ dataLen = Len(rest)
               /\ py_index = 3 + Len(sent) - Len(rest)
               /\ py_data = Stored(Len(sent) - Len(rest))
        /\ Len(rest) = 0 => ~isStart /\ parsed = Stored(Len(sent))

FrameInv == FrameTypeOK /\ HostTypeOK /\ IdleBlank /\ RestOfFrame /\ Following

\* 2 ^ Width counts the subsets of the bits of a byte.
LEMMA ByteCount == 2 ^ Width \in Nat \ {0}
  <1>1. IsFiniteSet(1 .. Width) /\ Cardinality(1 .. Width) = Width
    BY FS_Interval
  <1>2. IsFiniteSet(SUBSET (1 .. Width)) /\ Cardinality(SUBSET (1 .. Width)) = 2 ^ Width
    BY <1>1, FS_SUBSET
  <1>3. SUBSET (1 .. Width) # {}
    OBVIOUS
  <1>4. QED
    BY <1>2, <1>3, FS_CardinalityType, FS_EmptySet

\* Counting down a byte, around zero.
LEMMA CountDown ==
    ASSUME NEW n \in Bytes
    PROVE  /\ (n + 2 ^ Width - 1) % 2 ^ Width \in Bytes
           /\ n > 0 => (n + 2 ^ Width - 1) % 2 ^ Width = n - 1
  <1> DEFINE w == 2 ^ Width
  <1>1. w \in Nat \ {0} /\ n \in 0 .. w - 1
    BY ByteCount DEF Bytes
  <1> HIDE DEF w
  <1>2. (n + w - 1) % w \in 0 .. w - 1
    BY <1>1
  <1>3. n > 0 => (n + w - 1) % w = n - 1
    BY <1>1
  <1>4. QED
    BY <1>2, <1>3 DEF w, Bytes

\* Whatever byte comes: the parser's variables keep their types and outside a frame the
\* buffer is clear.
LEMMA ReplKeeps ==
    ASSUME FrameTypeOK, IdleBlank, NEW c \in Bytes, pyexec_pure_cmd_repl(c)
    PROVE  FrameTypeOK' /\ IdleBlank'
  <1> DEFINE start == c = START_FRAME_2 /\ ~isStart
             begin == start /\ prec = START_FRAME_1
             at    == IF begin THEN 1 ELSE py_index
             data  == IF isStart /\ ~start THEN writeBuffer(at, c) ELSE py_data
             cut   == Overlong(at + 1)
             on    == (isStart \/ begin) /\ ~cut
             down  == (dataLen + 2 ^ Width - 1) % 2 ^ Width
             len   == IF start \/ ~isStart THEN dataLen
                      ELSE IF at = 2 THEN c ELSE IF at > 2 THEN down ELSE dataLen
             parse == Complete(on, len, at + 1)
  <1>1. /\ prec' = IF start THEN prec ELSE c
        /\ dataLen' = len
        /\ isStart' = (on /\ ~parse)
        /\ py_index' = IF cut \/ parse THEN 0 ELSE at + 1
        /\ py_data' = IF cut THEN Blank ELSE IF parse THEN Cleared(data) ELSE data
        /\ parsed' = IF parse THEN data ELSE parsed
    BY DEF pyexec_pure_cmd_repl
  <1>2. at \in 0 .. Limit
    BY DEF FrameTypeOK
  <1>3. len \in Bytes
    BY CountDown DEF FrameTypeOK
  <1>4. 0 \in Bytes /\ Blank \in [0 .. Size - 1 -> Bytes]
    BY ByteCount DEF Bytes, Blank
  <1>5. data \in [0 .. Size - 1 -> Bytes]
    BY <1>2 DEF writeBuffer, FrameTypeOK
  <1>6. py_index' \in 0 .. Limit
    BY <1>1, <1>2 DEF Overlong
  <1>7. isStart' \in BOOLEAN
    BY <1>1
  <1>8. ~isStart /\ ~begin => data = Blank
    BY DEF IdleBlank
  <1>9. IdleBlank'
    BY <1>1, <1>8 DEF IdleBlank, Cleared
  <1> HIDE DEF at, len, data, cut, parse, on, begin, start
  <1>10. prec' \in Bytes /\ dataLen' \in Bytes
    BY <1>1, <1>3 DEF FrameTypeOK
  <1>11. py_data' \in [0 .. Size - 1 -> Bytes] /\ parsed' \in [0 .. Size - 1 -> Bytes]
    BY <1>1, <1>4, <1>5 DEF FrameTypeOK, Cleared
  <1>12. QED
    BY <1>6, <1>7, <1>9, <1>10, <1>11 DEF FrameTypeOK

\* The first byte of a frame meets an idle parser.
LEMMA ReplFirst ==
    ASSUME FrameTypeOK, ~isStart, pyexec_pure_cmd_repl(START_FRAME_1)
    PROVE  ~isStart' /\ prec' = START_FRAME_1
  BY DEF pyexec_pure_cmd_repl

\* The second begins the frame.
LEMMA ReplSecond ==
    ASSUME FrameTypeOK, IdleBlank, ~isStart, prec = START_FRAME_1,
           pyexec_pure_cmd_repl(START_FRAME_2)
    PROVE  isStart' /\ py_index' = 2 /\ py_data' = Blank
  <1>1. ~Overlong(2) /\ ~Complete(TRUE, dataLen, 2) /\ py_data = Blank
    BY DEF Overlong, Complete, IdleBlank
  <1> DEFINE begin == START_FRAME_2 = START_FRAME_2 /\ ~isStart /\ prec = START_FRAME_1
             at    == IF begin THEN 1 ELSE py_index
  <1>2. begin /\ at = 1 /\ at + 1 = 2
    OBVIOUS
  <1>3. /\ isStart' = (~Overlong(2) /\ ~Complete(~Overlong(2), dataLen, 2))
        /\ py_index' = IF Overlong(2) \/ Complete(~Overlong(2), dataLen, 2) THEN 0 ELSE 2
        /\ py_data' = IF Overlong(2) THEN Blank
                      ELSE IF Complete(~Overlong(2), dataLen, 2) THEN Cleared(py_data)
                      ELSE py_data
    BY <1>2 DEF pyexec_pure_cmd_repl
  <1>4. ~Complete(~Overlong(2), dataLen, 2)
    BY DEF Complete
  <1>5. QED
    BY <1>1, <1>3, <1>4

\* Inside a frame the byte is stored and the length, or what is left of it, kept; the
\* frame is handed over when nothing is left.
LEMMA ReplInFrame ==
    ASSUME FrameTypeOK, isStart, py_index \in 2 .. Size - 1, NEW c \in Bytes,
           pyexec_pure_cmd_repl(c)
    PROVE  /\ py_index = 2 => dataLen' = c
           /\ py_index > 2 => dataLen' = (dataLen + 2 ^ Width - 1) % 2 ^ Width
           /\ IF py_index > 2 /\ dataLen' = 0
              THEN ~isStart' /\ parsed' = [py_data EXCEPT ![py_index] = c]
              ELSE isStart' /\ py_index' = py_index + 1 /\ py_data' = [py_data EXCEPT ![py_index] = c]
  <1> DEFINE down  == (dataLen + 2 ^ Width - 1) % 2 ^ Width
             len   == IF py_index = 2 THEN c ELSE IF py_index > 2 THEN down ELSE dataLen
             data  == writeBuffer(py_index, c)
             cut   == Overlong(py_index + 1)
             parse == Complete(~cut, len, py_index + 1)
  <1>1. /\ dataLen' = len
        /\ isStart' = (~cut /\ ~parse)
        /\ py_index' = IF cut \/ parse THEN 0 ELSE py_index + 1
        /\ py_data' = IF cut THEN Blank ELSE IF parse THEN Cleared(data) ELSE data
        /\ parsed' = IF parse THEN data ELSE parsed
    BY DEF pyexec_pure_cmd_repl
  <1>2. ~cut
    BY DEF Overlong
  <1>3. data = [py_data EXCEPT ![py_index] = c]
    BY DEF writeBuffer
  <1>4. parse <=> len = 0 /\ py_index > 2
    BY <1>2 DEF Complete
  <1>5. (py_index = 2 => len = c) /\ (py_index > 2 => len = down)
    OBVIOUS
  <1> HIDE DEF len, data, cut, parse, down
  <1>6. QED
    BY <1>1, <1>2, <1>3, <1>4, <1>5 DEF down

-----------------------------------------------------------------------------
\* An idle parser and a silent host.
LEMMA FrameInvInit == FrameInit => FrameInv
  <1> SUFFICES ASSUME FrameInit
               PROVE  FrameInv
    OBVIOUS
  <1>1. 0 \in Bytes /\ Blank \in [0 .. Size - 1 -> Bytes]
    BY ByteCount DEF Bytes, Blank
  <1>2. py_index \in 0 .. Limit
    BY DEF FrameInit
  <1>3. FrameTypeOK
    BY <1>1, <1>2, Zenon DEF FrameInit, FrameTypeOK
  <1>4. Len(sent) = 0 /\ Len(rest) = 0 /\ sent = <<>> /\ rest = <<>>
    BY DEF FrameInit
  <1>5. HostTypeOK
    <2>1. clean \in BOOLEAN
      BY DEF FrameInit
    <2>2. QED
      BY <1>4, <2>1 DEF HostTypeOK
  <1>6. RestOfFrame
    BY <1>4 DEF RestOfFrame
  <1>7. IdleBlank /\ Following
    BY <1>4, Zenon DEF FrameInit, IdleBlank, Following
  <1>8. QED
    BY <1>3, <1>5, <1>6, <1>7 DEF FrameInv

\* Bytes outside frames.
LEMMA NoiseKeeps ==
    ASSUME FrameInv, NEW c \in Bytes, Noise(c)
    PROVE  FrameInv'
  <1>1. FrameTypeOK' /\ IdleBlank'
    BY ReplKeeps DEF FrameInv, Noise
  <1>2. sent' = <<>> /\ rest' = <<>> /\ Len(sent') = 0 /\ Len(rest') = 0
    BY DEF Noise
  <1>3. clean' \in BOOLEAN /\ ~clean'
    BY DEF Noise
  <1>4. HostTypeOK'
    BY <1>2, <1>3 DEF HostTypeOK
  <1>5. RestOfFrame' /\ Following'
    BY <1>2, <1>3 DEF RestOfFrame, Following
  <1>6. QED
    BY <1>1, <1>4, <1>5 DEF FrameInv

\* The first byte of a frame.
LEMMA BeginKeeps ==
    ASSUME FrameInv, NEW p \in Payloads, Begin(p)
    PROVE  FrameInv'
  <1>1. p \in Seq(Bytes) /\ Len(p) \in 1 .. Size - 3 /\ Len(p) \in Bytes /\ p # <<>>
    <2>1. PICK n \in 1 .. Size - 3 : p \in [1 .. n -> Bytes]
      BY DEF Payloads
    <2>2. p \in Seq(Bytes) /\ Len(p) = n /\ n \in Nat
      BY <2>1
    <2>3. n \in Bytes
      BY <2>1, ByteCount DEF Bytes
    <2>4. QED
      BY <2>1, <2>2, <2>3
  <1>2. FrameTypeOK' /\ IdleBlank'
    BY ReplKeeps DEF FrameInv, Begin
  <1> DEFINE h == <<START_FRAME_2, Len(p)>>
             r == h \o p
  <1>3. h \in Seq(Bytes) /\ Len(h) = 2 /\ h[1] = START_FRAME_2 /\ h[2] = Len(p)
    BY <1>1
  <1> HIDE DEF h
  <1>4. /\ r \in Seq(Bytes) /\ Len(r) = Len(p) + 2
        /\ \A i \in 1 .. Len(p) + 2 : r[i] = IF i <= 2 THEN h[i] ELSE p[i - 2]
    <2>1. /\ r \in Seq(Bytes) /\ Len(r) = Len(h) + Len(p)
          /\ \A i \in 1 .. Len(h) + Len(p) : r[i] = IF i <= Len(h) THEN h[i] ELSE p[i - Len(h)]
      BY <1>1, <1>3, ConcatProperties
    <2> HIDE DEF r
    <2>2. Len(h) + Len(p) = Len(p) + 2
      BY <1>1, <1>3
    <2>3. QED
      BY <1>3, <2>1, <2>2
  <1> HIDE DEF r
  <1>5. sent' = p /\ rest' = r /\ clean' = ~isStart
    BY Zenon DEF Begin, r, h
  <1>6. HostTypeOK'
    BY <1>1, <1>4, <1>5 DEF HostTypeOK
  <1>7. RestOfFrame'
    <2>1. \A i \in 1 .. Len(r) : r[i] = IF i = 1 THEN START_FRAME_2
                                        ELSE IF i = 2 THEN Len(p) ELSE p[i - 2]
      BY <1>1, <1>3, <1>4
    <2>2. \A i \in 1 .. Len(r) : Len(p) + 2 - Len(r) + i = i
      BY <1>1, <1>4
    <2>3. QED
      BY <1>1, <1>4, <1>5, <2>1, <2>2 DEF RestOfFrame, FrameByte
  <1>8. Following'
    <2>1. ~isStart => ~isStart' /\ prec' = START_FRAME_1
      BY ReplFirst DEF FrameInv, Begin
    <2>2. Len(rest') = Len(sent') + 2 /\ Len(sent') \in Nat
      BY <1>1, <1>4, <1>5
    <2>3. clean' => ~isStart' /\ prec' = START_FRAME_1
      BY <1>5, <2>1
    <2>4. QED
      BY <2>2, <2>3 DEF Following
  <1>9. QED
    BY <1>2, <1>6, <1>7, <1>8 DEF FrameInv

\* The next byte of the payload is stored.
LEMMA StoredNext ==
    ASSUME NEW j \in Nat, j + 3 <= Size - 1
    PROVE  [Stored(j) EXCEPT ![j + 3] = sent[j + 1]] = Stored(j + 1)
  <1>1. [Stored(j) EXCEPT ![j + 3] = sent[j + 1]] =
            [k \in 0 .. Size - 1 |-> IF k = j + 3 THEN sent[j + 1] ELSE Stored(j)[k]]
    BY DEF Stored
  <1>2. ASSUME NEW k \in 0 .. Size - 1
        PROVE  (IF k = j + 3 THEN sent[j + 1] ELSE Stored(j)[k]) = Stored(j + 1)[k]
    <2>1. CASE k = j + 3
      <3>1. k # 2 /\ k - 2 \in 1 .. j + 1 /\ k - 2 = j + 1
        BY <2>1
      <3>2. Stored(j + 1)[k] = sent[j + 1]
        BY <3>1 DEF Stored
      <3>3. QED
        BY <2>1, <3>2
    <2>2. CASE k # j + 3
      <3>1. k - 2 \in 1 .. j + 1 <=> k - 2 \in 1 .. j
        BY <2>2
      <3>2. QED
        BY <2>2, <3>1 DEF Stored
    <2>3. QED
      BY <2>1, <2>2
  <1>3. Stored(j + 1) = [k \in 0 .. Size - 1 |-> Stored(j + 1)[k]]
    BY DEF Stored
  <1>4. QED
    BY <1>1, <1>2, <1>3

\* The next byte of a frame.
LEMMA ContinueKeeps ==
    ASSUME FrameInv, Continue
    PROVE  FrameInv'
  <1> DEFINE n == Len(sent)
             m == Len(rest)
             c == Head(rest)
  <1>1. /\ n \in Nat /\ m \in 1 .. n + 2 /\ sent # <<>> /\ n > 0 /\ n <= Size - 3
        /\ c = rest[1] /\ c \in Bytes
        /\ rest' \in Seq(Bytes) /\ Len(rest') = m - 1
        /\ \A i \in 1 .. m - 1 : rest'[i] = rest[i + 1]
        /\ sent' = sent /\ clean' = clean
    BY DEF FrameInv, Continue, HostTypeOK, RestOfFrame
  <1>2. c = FrameByte(n + 3 - m)
    BY <1>1 DEF FrameInv, RestOfFrame
  <1>3. pyexec_pure_cmd_repl(c)
    BY DEF Continue
  <1> HIDE DEF c
  <1>4. FrameTypeOK' /\ IdleBlank'
    BY <1>1, <1>3, ReplKeeps DEF FrameInv
  <1>5. HostTypeOK'
    BY <1>1 DEF FrameInv, HostTypeOK
  <1>6. RestOfFrame'
    <2>1. \A i \in 1 .. m - 1 : rest'[i] = FrameByte(n + 2 - m + (i + 1))
      BY <1>1 DEF FrameInv, RestOfFrame
    <2>2. \A i \in 1 .. m - 1 : n + 2 - m + (i + 1) = n + 2 - (m - 1) + i
      BY <1>1
    <2>3. QED
      BY <1>1, <2>1, <2>2 DEF RestOfFrame, FrameByte
  <1>7. Following'
    <2> SUFFICES ASSUME clean
                 PROVE  Following'
      BY <1>1 DEF Following
    <2>1. CASE m = n + 2
      <3>1. c = START_FRAME_2 /\ ~isStart /\ prec = START_FRAME_1
        BY <1>1, <1>2, <2>1 DEF FrameByte, FrameInv, Following
      <3>2. isStart' /\ py_index' = 2 /\ py_data' = Blank
        BY <1>3, <3>1, ReplSecond DEF FrameInv
      <3>3. QED
        BY <1>1, <2>1, <3>2 DEF Following
    <2>2. CASE m = n + 1
      <3>1. c = n /\ isStart /\ py_index = 2 /\ py_data = Blank
        BY <1>1, <1>2, <2>2 DEF FrameByte, FrameInv, Following
      <3>2. isStart' /\ py_index' = 3 /\ dataLen' = n /\ py_data' = [Blank EXCEPT ![2] = n]
        BY <1>1, <1>3, <3>1, ReplInFrame DEF FrameInv
      <3>3. [Blank EXCEPT ![2] = n] = Stored(0)
        BY DEF Stored, Blank
      <3>4. QED
        BY <1>1, <2>2, <3>2, <3>3 DEF Following, Stored
    <2>3. CASE m \in 1 .. n
      <3>1. /\ c = sent[n - m + 1] /\ isStart /\ dataLen = m
            /\ py_index = 3 + n - m /\ py_data = Stored(n - m)
        BY <1>1, <1>2, <2>3 DEF FrameByte, FrameInv, Following
      <3>2. py_index \in 3 .. Size - 1 /\ dataLen \in Bytes
        BY <1>1, <2>3, <3>1 DEF FrameInv, FrameTypeOK
      <3>3. /\ dataLen' = (dataLen + 2 ^ Width - 1) % 2 ^ Width
            /\ IF dataLen' = 0
               THEN ~isStart' /\ parsed' = [py_data EXCEPT ![py_index] = c]
               ELSE /\ isStart' /\ py_index' = py_index + 1
                    /\ py_data' = [py_data EXCEPT ![py_index] = c]
        <4>1. FrameTypeOK /\ isStart /\ py_index \in 2 .. Size - 1 /\ py_index > 2
          BY <3>1, <3>2 DEF FrameInv
        <4>2. QED
          BY <1>1, <1>3, <4>1, ReplInFrame
      <3>4. dataLen' = m - 1
        <4>1. dataLen = m /\ m > 0
          BY <2>3, <3>1
        <4>2. QED
          BY <3>2, <3>3, <4>1, CountDown
      <3>5. [py_data EXCEPT ![py_index] = c] = Stored(n - m + 1)
        <4>1. n - m \in Nat /\ n - m + 3 <= Size - 1 /\ py_index = n - m + 3
          BY <1>1, <2>3, <3>1
        <4>2. QED
          BY <3>1, <4>1, StoredNext
      <3>6. QED
        <4>1. \A j \in Nat : Stored(j)' = Stored(j)
          BY <1>1 DEF Stored
        <4>2. /\ Len(rest') = m - 1 /\ Len(sent') = n
              /\ Len(sent') - Len(rest') = n - m + 1 /\ n - m + 1 \in Nat
          BY <1>1, <2>3
        <4>3. CASE m = 1
          <5>1. /\ ~isStart' /\ Len(rest') = 0
                /\ parsed' = Stored(n) /\ Stored(n) = Stored(Len(sent))'
            BY <1>1, <3>3, <3>4, <3>5, <4>1, <4>2, <4>3
          <5>2. /\ Len(rest') # Len(sent') + 2 /\ Len(rest') # Len(sent') + 1
                /\ Len(rest') \notin 1 .. Len(sent')
            <6>1. Len(rest') = 0 /\ Len(sent') \in Nat /\ Len(sent') = n
              BY <1>1, <4>2, <4>3
            <6> HIDE DEF n, m
            <6>2. QED
              BY <6>1
          <5>3. QED
            BY <5>1, <5>2, Zenon DEF Following
        <4>4. CASE m # 1
          <5>1. Len(rest') \in 1 .. Len(sent')
            BY <1>1, <2>3, <4>2, <4>4
          <5>2. py_index' = 3 + Len(sent') - Len(rest') /\ dataLen' = Len(rest')
            BY <1>1, <2>3, <3>1, <3>3, <3>4, <4>2, <4>4, SMTT(30)
          <5>3. isStart' /\ py_data' = Stored(Len(sent) - Len(rest))'
            BY <1>1, <2>3, <3>3, <3>4, <3>5, <4>1, <4>2, <4>4, SMTT(30)
          <5>4. QED
            BY <1>1, <5>1, <5>2, <5>3 DEF Following
        <4>5. QED
          BY <4>3, <4>4
    <2>4. QED
      BY <1>1, <2>1, <2>2, <2>3
  <1>8. QED
    BY <1>4, <1>5, <1>6, <1>7 DEF FrameInv

\* Every byte preserves it.
LEMMA FrameInvNext == FrameInv /\ [FrameNext]_frameVars => FrameInv'
  <1> SUFFICES ASSUME FrameInv, [FrameNext]_frameVars
               PROVE  FrameInv'
    OBVIOUS
  <1>1. CASE UNCHANGED frameVars
    BY <1>1 DEF frameVars, FrameInv, FrameTypeOK, HostTypeOK, IdleBlank, RestOfFrame,
                FrameByte, Following, Stored
  <1>2. QED
    BY <1>1, NoiseKeeps, BeginKeeps, ContinueKeeps DEF FrameNext

\* The parser's index never passes the limit and its variables stay bytes.
THEOREM FrameTypeCorrect == FrameSpec => []FrameTypeOK
  <1>1. FrameSpec => []FrameInv
    BY FrameInvInit, FrameInvNext, PTL DEF FrameSpec
  <1>2. QED
    BY <1>1, PTL DEF FrameInv

\* A frame that begins while the parser waits for one is handed to parseData whole, with
\* zeros behind it, when its last byte is there.
THEOREM FrameFound == FrameSpec => []FrameParsed
  <1>1. FrameSpec => []FrameInv
    BY FrameInvInit, FrameInvNext, PTL DEF FrameSpec
  <1>2. FrameInv => FrameParsed
    BY DEF FrameInv, HostTypeOK, Following, FrameParsed, Stored
  <1>3. QED
    BY <1>1, <1>2, PTL
=============================================================================

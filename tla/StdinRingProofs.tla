--------------------------- MODULE StdinRingProofs ---------------------------
(***************************************************************************)
(* The console ring of py/ringbuf.h loses, repeats and reorders nothing    *)
(* between the UART interrupt and the reader, for every size of the ring   *)
(* and any number of characters, in the builds that store iget once; in    *)
(* the others what is returned is still in the order of arrival.           *)
(***************************************************************************)
EXTENDS StdinRing, SequenceTheorems, TLAPS

USE RingAssumption DEF RingSlots

\* The slot of the next character after the one being taken: iget as it is stored when
\* ringbuf_get is done.
Start == IF reader = "wrap" /\ ~once THEN WrapIndex(old + 1) ELSE iget

\* How far a slot is from there, and the slots that hold a character.
Pos(s) == IF s >= Start THEN s - Start ELSE s + RingSize - Start

Held == {s \in RingSlots : Pos(s) < Pos(iput)}

\* The characters in the ring are in the order of arrival, later than those returned.
HeldInOrder ==
    /\ \A s, t \in Held : Pos(s) < Pos(t) => buf[s] < buf[t]
    /\ \A s \in Held : buf[s] <= arrived
    /\ \A s \in Held, i \in DOMAIN delivered : delivered[i] < buf[s]

\* The characters returned are in the order of arrival.
DeliveredInOrder ==
    /\ \A i, j \in DOMAIN delivered : i < j => delivered[i] < delivered[j]
    /\ \A i \in DOMAIN delivered : delivered[i] <= arrived

\* A character x that may be returned next.
NextInOrder(x) ==
    /\ x <= arrived
    /\ \A i \in DOMAIN delivered : delivered[i] < x
    /\ \A s \in Held : x < buf[s]

\* Inside ringbuf_get: the character was there when it was tested for; a build that
\* stores iget once keeps its slot until it is done; another gives the slot up, and the
\* byte loaded and the byte now in the slot are both characters to come.
InGet ==
    /\ reader = "load" => iget # iput
    /\ reader = "wrap" /\ once => iget # iput /\ old = iget /\ v = buf[old]
    /\ reader = "wrap" /\ ~once => iget = old + 1 /\ NextInOrder(v) /\ NextInOrder(buf[old])

\* What was accepted was returned or is in its slot.
Accounted ==
    once =>
        /\ Len(accepted) = Len(delivered) + Pos(iput)
        /\ \A i \in DOMAIN delivered : accepted[i] = delivered[i]
        /\ \A s \in Held : accepted[Len(delivered) + Pos(s) + 1] = buf[s]

StdinInv == StdinTypeOK /\ HeldInOrder /\ DeliveredInOrder /\ InGet /\ Accounted

\* An empty ring and no character yet.
LEMMA StdinInvInit == StdinInit => StdinInv
  <1> SUFFICES ASSUME StdinInit
               PROVE  StdinInv
    OBVIOUS
  <1>1. StdinTypeOK
    BY DEF StdinInit, StdinTypeOK
  <1>2. Start = 0 /\ Pos(iput) = 0 /\ Held = {}
    BY DEF StdinInit, Start, Pos, Held
  <1>3. HeldInOrder /\ DeliveredInOrder /\ InGet /\ Accounted
    BY <1>2 DEF StdinInit, HeldInOrder, DeliveredInOrder, InGet, Accounted
  <1>4. QED
    BY <1>1, <1>3 DEF StdinInv

\* The slot after the one read is on the ring, and so is the put index' distance from it.
LEMMA StartOnRing ==
    ASSUME StdinTypeOK, InGet
    PROVE  /\ Start \in RingSlots
           /\ \A s \in RingSlots : Pos(s) \in RingSlots
           /\ \A s, t \in RingSlots : Pos(s) = Pos(t) => s = t
           /\ once \/ reader # "wrap" => Start = iget /\ iget \in RingSlots
  <1>1. once \/ reader # "wrap" => Start = iget /\ iget \in RingSlots
    BY DEF StdinTypeOK, Start
  <1>2. Start \in RingSlots
    BY <1>1 DEF StdinTypeOK, Start, WrapIndex
  <1>3. \A s \in RingSlots : Pos(s) \in RingSlots
    BY <1>2 DEF Pos
  <1>4. \A s, t \in RingSlots : Pos(s) = Pos(t) => s = t
    BY <1>2 DEF Pos
  <1>5. QED
    BY <1>1, <1>2, <1>3, <1>4

\* ringbuf_put
LEMMA PutKeeps ==
    ASSUME StdinInv, Put
    PROVE  StdinInv'
  <1> USE DEF StdinInv
  <1>1. /\ arrived \in Nat /\ arrived' = arrived + 1 /\ arrived' \in 0 .. MaxChars
        /\ buf' = [buf EXCEPT ![iput] = arrived + 1] /\ iput' = WrapIndex(iput + 1)
        /\ accepted' = Append(accepted, arrived + 1)
        /\ UNCHANGED <<once, iget, reader, old, v, pending, delivered>>
    BY DEF Put, Store, task, StdinTypeOK
  <1>2. StdinTypeOK'
    BY <1>1 DEF StdinTypeOK, WrapIndex
  <1>3. Start' = Start /\ (\A s \in RingSlots : Pos(s)' = Pos(s)) /\ Start \in RingSlots
    BY <1>1, StartOnRing DEF Start, Pos
  <1>4. iput \in RingSlots /\ iput' \in RingSlots /\ iput \notin Held
    BY <1>1, <1>2, StartOnRing, SMTT(30) DEF Held, StdinTypeOK
  <1>5. \A s \in Held : buf'[s] = buf[s] /\ s \in RingSlots
    BY <1>1, <1>4 DEF Held, StdinTypeOK
  <1>6. CASE iput' # Start
    <2>1. Pos(iput)' = Pos(iput) + 1
      BY <1>1, <1>3, <1>4, <1>6 DEF Pos, WrapIndex
    <2>2. Held' = Held \cup {iput}
      <3>1. \A s \in RingSlots : Pos(s) < Pos(iput) + 1 <=> Pos(s) < Pos(iput) \/ s = iput
        BY <1>4, StartOnRing
      <3>2. QED
        BY <1>3, <1>4, <2>1, <3>1 DEF Held
    <2>3. buf'[iput] = arrived + 1
      BY <1>1, <1>4 DEF StdinTypeOK
    <2>4. \A s \in Held : s # iput /\ buf'[s] = buf[s] /\ buf[s] \in Nat /\ buf[s] < arrived + 1
      BY <1>1, <1>4, <1>5, SMTT(30) DEF HeldInOrder, Held, StdinTypeOK
    <2>5. HeldInOrder'
      <3>1. \A s \in Held' : buf'[s] <= arrived'
        BY <1>1, <2>2, <2>3, <2>4 DEF HeldInOrder
      <3>2. \A s \in Held', i \in DOMAIN delivered' : delivered'[i] < buf'[s]
        <4> SUFFICES ASSUME NEW s \in Held', NEW i \in DOMAIN delivered
                     PROVE  delivered[i] < buf'[s]
          BY <1>1
        <4>1. delivered[i] <= arrived /\ delivered[i] \in Nat
          BY DEF DeliveredInOrder, StdinTypeOK
        <4>2. QED
          BY <1>1, <2>2, <2>3, <2>4, <4>1 DEF HeldInOrder
      <3>3. \A s, t \in Held' : Pos(s)' < Pos(t)' => buf'[s] < buf'[t]
        BY <1>3, <1>4, <1>5, <2>2, <2>3, <2>4, StartOnRing DEF HeldInOrder, Held
      <3>4. QED
        BY <3>1, <3>2, <3>3 DEF HeldInOrder
    <2>6. Accounted'
      <3> SUFFICES ASSUME once
                   PROVE  Accounted'
        BY <1>1 DEF Accounted
      <3>1. /\ Len(accepted) = Len(delivered) + Pos(iput) /\ Len(delivered) \in Nat
            /\ DOMAIN delivered = 1 .. Len(delivered)
            /\ Pos(iput) \in Nat /\ \A s \in Held : Pos(s) \in Nat /\ Pos(s) < Pos(iput)
        <4>1. \A s \in Held : s \in RingSlots /\ Pos(s) < Pos(iput)
          BY DEF Held
        <4>2. Pos(iput) \in Nat /\ \A s \in Held : Pos(s) \in Nat
          BY <1>4, <4>1, StartOnRing
        <4>3. QED
          BY <4>1, <4>2 DEF Accounted, StdinTypeOK
      <3>2. Len(accepted') = Len(accepted) + 1 /\ accepted'[Len(accepted) + 1] = arrived + 1
        BY <1>1 DEF StdinTypeOK
      <3>3. \A i \in 1 .. Len(accepted) : accepted'[i] = accepted[i]
        BY <1>1 DEF StdinTypeOK
      <3>4. \A i \in DOMAIN delivered : i \in 1 .. Len(accepted)
        BY <3>1
      <3>5. \A s \in Held : Len(delivered) + Pos(s) + 1 \in 1 .. Len(accepted)
        BY <3>1
      <3>6. \A s \in Held' : accepted'[Len(delivered) + Pos(s) + 1] = buf'[s]
        BY <2>2, <2>3, <2>4, <3>1, <3>2, <3>3, <3>5 DEF Accounted
      <3>7. \A s \in Held' : accepted'[Len(delivered') + Pos(s)' + 1] = buf'[s]
        BY <1>1, <1>3, <3>6 DEF Held
      <3>8. Len(accepted') = Len(delivered') + Pos(iput)'
        BY <1>1, <2>1, <3>1, <3>2
      <3>9. \A i \in DOMAIN delivered' : accepted'[i] = delivered'[i]
        BY <1>1, <3>3, <3>4 DEF Accounted
      <3>10. QED
        BY <3>7, <3>8, <3>9 DEF Accounted
    <2>7. InGet'
      <3>1. reader = "load" => iget' # iput'
        BY <1>1, <1>6, StartOnRing
      <3>2. reader = "wrap" /\ once => iget' # iput' /\ old = iget /\ v = buf'[old]
        BY <1>1, <1>4, <1>6, StartOnRing DEF InGet, StdinTypeOK
      <3>3. ASSUME reader = "wrap", ~once
            PROVE  iget = old + 1 /\ NextInOrder(v)' /\ NextInOrder(buf[old])'
        <4>1. ASSUME NEW x \in Nat, NextInOrder(x)
              PROVE  NextInOrder(x)'
          BY <1>1, <2>2, <2>3, <2>4, <4>1 DEF NextInOrder, StdinTypeOK
        <4>2. iput # old
          BY <1>1, <1>6, <3>3 DEF InGet, Start, WrapIndex, Put, RingFull, StdinTypeOK
        <4>3. buf'[old] = buf[old] /\ buf[old] \in Nat /\ v \in Nat
          BY <1>1, <4>2 DEF StdinTypeOK
        <4>4. QED
          BY <1>1, <3>3, <4>1, <4>3 DEF InGet
      <3>4. QED
        BY <1>1, <3>1, <3>2, <3>3 DEF InGet
    <2>8. QED
      BY <1>1, <1>2, <2>5, <2>6, <2>7, SMTT(30) DEF DeliveredInOrder, StdinTypeOK
  <1>7. CASE iput' = Start
    <2>1. reader = "wrap" /\ ~once /\ iget = RingSize /\ old = RingSize - 1
      BY <1>1, <1>7, StartOnRing, SMTT(30) DEF Put, RingFull, InGet, Start, WrapIndex, StdinTypeOK
    <2>2. Held' = {} /\ iput = old
      BY <1>1, <1>3, <1>4, <1>7, <2>1 DEF Held, Pos, Start, WrapIndex
    <2>3. HeldInOrder' /\ Accounted'
      BY <1>1, <2>1, <2>2 DEF HeldInOrder, Accounted
    <2>4. DeliveredInOrder'
      BY <1>1 DEF DeliveredInOrder, StdinTypeOK
    <2>5. NextInOrder(v)' /\ NextInOrder(buf[old])'
      <3>1. buf'[old] = arrived + 1 /\ v \in Nat /\ v <= arrived
        BY <1>1, <1>4, <2>1, <2>2 DEF InGet, NextInOrder, StdinTypeOK
      <3>2. \A i \in DOMAIN delivered' : delivered'[i] < v' /\ delivered'[i] < buf'[old']
        BY <1>1, <2>1, <3>1 DEF InGet, NextInOrder, DeliveredInOrder, StdinTypeOK
      <3>3. QED
        BY <1>1, <2>2, <3>1, <3>2 DEF NextInOrder
    <2>6. QED
      BY <1>1, <1>2, <2>1, <2>3, <2>4, <2>5 DEF InGet
  <1>8. QED
    BY <1>6, <1>7

\* The first slot is given up: what is held moves one place ahead.
LEMMA StartMoves ==
    ASSUME Start \in RingSlots, iput \in RingSlots, Start # iput,
           Start' = WrapIndex(Start + 1), iput' = iput
    PROVE  /\ Start \in Held /\ Pos(Start) = 0
           /\ Held' = Held \ {Start}
           /\ \A s \in Held' : Pos(s)' = Pos(s) - 1 /\ Pos(s) \in Nat \ {0}
           /\ Pos(iput)' = Pos(iput) - 1 /\ Pos(iput) \in Nat \ {0}
  <1>1. Start \in Held /\ Pos(Start) = 0
    BY DEF Held, Pos
  <1>2. \A s \in RingSlots : Pos(s)' = IF s = Start THEN RingSize - 1 ELSE Pos(s) - 1
    BY DEF Pos, WrapIndex
  <1>3. \A s \in RingSlots : Pos(s) \in RingSlots /\ (s # Start => Pos(s) # 0)
    BY DEF Pos
  <1>4. Pos(iput)' = Pos(iput) - 1 /\ Pos(iput) \in Nat \ {0}
    BY <1>2, <1>3
  <1>5. \A s \in RingSlots : Pos(s)' < Pos(iput)' <=> s # Start /\ Pos(s) < Pos(iput)
    BY <1>2, <1>3, <1>4
  <1>6. Held' = Held \ {Start}
    BY <1>5 DEF Held
  <1>7. \A s \in Held' : s \in RingSlots /\ s # Start
    BY <1>6 DEF Held
  <1>8. QED
    BY <1>1, <1>2, <1>3, <1>4, <1>6, <1>7

\* v = r->buf[r->iget++]
LEMMA GetLoadKeeps ==
    ASSUME StdinInv, GetLoad
    PROVE  StdinInv'
  <1> USE DEF StdinInv
  <1>1. /\ reader = "load" /\ reader' = "wrap" /\ old' = iget /\ v' = buf[iget]
        /\ iget' = IF once THEN iget ELSE iget + 1
        /\ UNCHANGED <<once, buf, iput, pending, arrived, accepted, delivered>>
    BY DEF GetLoad
  <1>2. iget \in RingSlots /\ iput \in RingSlots /\ Start = iget /\ iget # iput
    BY <1>1 DEF StdinTypeOK, Start, InGet
  <1>3. StdinTypeOK'
    BY <1>1, <1>2 DEF StdinTypeOK
  <1>4. DeliveredInOrder'
    BY <1>1 DEF DeliveredInOrder
  <1>5. CASE once
    <2>1. Start' = Start /\ Held' = Held /\ \A s \in RingSlots : Pos(s)' = Pos(s)
      BY <1>1, <1>2, <1>5 DEF Start, Held, Pos
    <2>2. HeldInOrder' /\ Accounted'
      BY <1>1, <1>2, <2>1 DEF HeldInOrder, Accounted, Held
    <2>3. InGet'
      BY <1>1, <1>2, <1>5 DEF InGet
    <2>4. QED
      BY <1>3, <1>4, <2>2, <2>3
  <1>6. CASE ~once
    <2>1. Start' = WrapIndex(Start + 1)
      BY <1>1, <1>2, <1>6 DEF Start
    <2>2. /\ Start \in Held /\ Pos(Start) = 0
          /\ Held' = Held \ {Start}
          /\ \A s \in Held' : Pos(s)' = Pos(s) - 1 /\ Pos(s) \in Nat \ {0}
      BY <1>1, <1>2, <2>1, StartMoves
    <2>3. HeldInOrder'
      BY <1>1, <2>2 DEF HeldInOrder
    <2>4. NextInOrder(v)' /\ NextInOrder(buf[old])'
      BY <1>1, <1>2, <2>2 DEF NextInOrder, HeldInOrder
    <2>5. QED
      BY <1>1, <1>3, <1>4, <1>6, <2>3, <2>4 DEF InGet, Accounted
  <1>7. QED
    BY <1>5, <1>6

\* A character later than all those returned is returned.
LEMMA AppendInOrder ==
    ASSUME StdinTypeOK, DeliveredInOrder, NEW b \in Nat, b <= arrived, arrived' = arrived,
           \A i \in DOMAIN delivered : delivered[i] < b,
           delivered' = Append(delivered, b)
    PROVE  /\ DeliveredInOrder'
           /\ Len(delivered') = Len(delivered) + 1 /\ Len(delivered) \in Nat
           /\ DOMAIN delivered = 1 .. Len(delivered)
           /\ DOMAIN delivered' = 1 .. (Len(delivered) + 1)
           /\ \A i \in DOMAIN delivered : delivered'[i] = delivered[i]
           /\ delivered'[Len(delivered) + 1] = b
  <1>1. /\ Len(delivered') = Len(delivered) + 1 /\ Len(delivered) \in Nat
        /\ DOMAIN delivered = 1 .. Len(delivered)
        /\ DOMAIN delivered' = 1 .. (Len(delivered) + 1)
        /\ \A i \in DOMAIN delivered : delivered'[i] = delivered[i]
        /\ delivered'[Len(delivered) + 1] = b
    BY DEF StdinTypeOK
  <1>2. DeliveredInOrder'
    BY <1>1 DEF DeliveredInOrder
  <1>3. QED
    BY <1>1, <1>2

\* if (r->iget >= r->size) r->iget = 0, and the character is returned.
LEMMA GetWrapKeeps ==
    ASSUME StdinInv, GetWrap
    PROVE  StdinInv'
  <1> USE DEF StdinInv
  <1>1. PICK b \in {v, buf[old]} : (once => b = v) /\ ReturnChar(WrapIndex(old + 1), b)
    BY DEF GetWrap
  <1>2. /\ reader = "wrap" /\ reader' = "get" /\ iget' = WrapIndex(old + 1)
        /\ delivered' = Append(delivered, b)
        /\ UNCHANGED <<once, buf, iput, old, v, pending, arrived, accepted>>
    BY <1>1 DEF ReturnChar
  <1>3. b \in Nat /\ iput \in RingSlots /\ old \in RingSlots
    BY <1>1 DEF StdinTypeOK
  <1>4. StdinTypeOK'
    BY <1>2, <1>3 DEF StdinTypeOK, WrapIndex
  <1>5. Start' = WrapIndex(old + 1) /\ InGet'
    BY <1>2 DEF Start, InGet
  <1>6. CASE once
    <2>1. Start = old /\ Start # iput /\ Start' = WrapIndex(Start + 1) /\ b = buf[Start]
      BY <1>1, <1>2, <1>5, <1>6 DEF InGet, Start
    <2>2. /\ Start \in Held /\ Pos(Start) = 0
          /\ Held' = Held \ {Start}
          /\ \A s \in Held' : Pos(s)' = Pos(s) - 1 /\ Pos(s) \in Nat \ {0}
          /\ Pos(iput)' = Pos(iput) - 1 /\ Pos(iput) \in Nat \ {0}
      BY <1>2, <1>3, <2>1, StartMoves
    <2>3. b <= arrived /\ \A i \in DOMAIN delivered : delivered[i] < b
      BY <2>1, <2>2 DEF HeldInOrder
    <2>4. /\ DeliveredInOrder'
          /\ Len(delivered') = Len(delivered) + 1 /\ Len(delivered) \in Nat
          /\ DOMAIN delivered = 1 .. Len(delivered)
          /\ DOMAIN delivered' = 1 .. (Len(delivered) + 1)
          /\ \A i \in DOMAIN delivered : delivered'[i] = delivered[i]
          /\ delivered'[Len(delivered) + 1] = b
      BY <1>2, <1>3, <2>3, AppendInOrder
    <2>5. HeldInOrder'
      <3>1. \A s \in Held' : b < buf[s]
        BY <2>1, <2>2 DEF HeldInOrder
      <3>2. \A s \in Held', i \in DOMAIN delivered' : delivered'[i] < buf'[s]
        BY <1>2, <2>2, <2>4, <3>1 DEF HeldInOrder
      <3>3. QED
        BY <1>2, <2>2, <3>2 DEF HeldInOrder
    <2>6. Accounted'
      <3>1. accepted[Len(delivered) + 1] = b
        BY <1>6, <2>1, <2>2, <2>4 DEF Accounted
      <3>2. \A s \in Held' : accepted'[Len(delivered') + Pos(s)' + 1] = buf'[s]
        <4> SUFFICES ASSUME NEW s \in Held'
                     PROVE  accepted[Len(delivered') + Pos(s)' + 1] = buf[s]
          BY <1>2
        <4>1. Len(delivered') + Pos(s)' + 1 = Len(delivered) + Pos(s) + 1 /\ s \in Held
          BY <2>2, <2>4
        <4>2. QED
          BY <1>6, <4>1 DEF Accounted
      <3>3. \A i \in DOMAIN delivered' : accepted'[i] = delivered'[i]
        BY <1>2, <1>6, <2>4, <3>1 DEF Accounted
      <3>4. Len(accepted') = Len(delivered') + Pos(iput)'
        BY <1>2, <1>6, <2>2, <2>4 DEF Accounted
      <3>5. QED
        BY <3>2, <3>3, <3>4 DEF Accounted
    <2>7. QED
      BY <1>4, <1>5, <2>4, <2>5, <2>6
  <1>7. CASE ~once
    <2>1. Start' = Start /\ NextInOrder(b)
      BY <1>1, <1>2, <1>5, <1>7 DEF Start, InGet
    <2>2. Held' = Held /\ \A s \in RingSlots : Pos(s)' = Pos(s)
      BY <1>2, <2>1 DEF Held, Pos
    <2>3. /\ DeliveredInOrder'
          /\ Len(delivered) \in Nat
          /\ DOMAIN delivered = 1 .. Len(delivered)
          /\ DOMAIN delivered' = 1 .. (Len(delivered) + 1)
          /\ \A i \in DOMAIN delivered : delivered'[i] = delivered[i]
          /\ delivered'[Len(delivered) + 1] = b
      BY <1>2, <1>3, <2>1, AppendInOrder DEF NextInOrder
    <2>4. \A s \in Held, i \in DOMAIN delivered' : delivered'[i] < buf[s]
      BY <2>1, <2>3 DEF NextInOrder, HeldInOrder
    <2>5. HeldInOrder'
      BY <1>2, <2>2, <2>4 DEF HeldInOrder, Held
    <2>6. QED
      BY <1>2, <1>4, <1>5, <1>7, <2>3, <2>5 DEF Accounted
  <1>8. QED
    BY <1>6, <1>7

\* Every step of the interrupt handler and of the reader preserves it.
LEMMA StdinInvNext == StdinInv /\ [StdinNext]_stdinVars => StdinInv'
  <1> SUFFICES ASSUME StdinInv, [StdinNext]_stdinVars
               PROVE  StdinInv'
    OBVIOUS
  <1>1. ASSUME UNCHANGED <<once, buf, iget, iput, old, v, accepted, delivered>>,
               arrived' \in arrived .. MaxChars, pending' \in BOOLEAN,
               reader' \in {"get", "poll", "load"} \/ UNCHANGED reader,
               reader # reader' => reader # "wrap" /\ (reader' = "load" => iget # iput)
        PROVE  StdinInv'
    <2> USE <1>1 DEF StdinInv
    <2>1. StdinTypeOK'
      BY DEF StdinTypeOK
    <2>2. Start' = Start /\ Held' = Held /\ \A s \in RingSlots : Pos(s)' = Pos(s)
      BY DEF Start, Held, Pos
    <2>3. iput \in RingSlots /\ arrived \in Nat /\ arrived' \in Nat /\ arrived <= arrived'
      BY DEF StdinTypeOK
    <2>4. DeliveredInOrder'
      BY <2>3 DEF DeliveredInOrder, StdinTypeOK
    <2>5. HeldInOrder'
      BY <2>2, <2>3 DEF HeldInOrder, Held, StdinTypeOK
    <2>6. Accounted'
      BY <2>2, <2>3 DEF Accounted, Held
    <2>7. \A x \in Nat : NextInOrder(x) => NextInOrder(x)'
      BY <2>2, <2>3 DEF NextInOrder
    <2>8. InGet'
      BY <2>7 DEF InGet, StdinTypeOK
    <2>9. QED
      BY <2>1, <2>4, <2>5, <2>6, <2>8
  <1>2. pending \in BOOLEAN /\ arrived \in 0 .. MaxChars
    BY DEF StdinInv, StdinTypeOK
  <1>3. CASE Put
    BY <1>3, PutKeeps
  <1>4. CASE PutFull
    BY <1>1, <1>2, <1>4 DEF PutFull, ring, task
  <1>5. CASE Interrupt
    BY <1>1, <1>2, <1>5 DEF Interrupt, ring, task
  <1>6. CASE GetEmpty
    BY <1>1, <1>2, <1>6 DEF GetEmpty, ring
  <1>7. CASE PollHook
    <2>1. pending' \in BOOLEAN
      BY <1>7 DEF PollHook
    <2>2. arrived' \in arrived .. MaxChars /\ reader = "poll" /\ reader' = "get"
      BY <1>2, <1>7 DEF PollHook
    <2>3. UNCHANGED <<once, buf, iget, iput, old, v, accepted, delivered>>
      BY <1>7 DEF PollHook, ring
    <2>4. QED
      BY <1>1, <2>1, <2>2, <2>3
  <1>8. CASE GetTest
    BY <1>1, <1>2, <1>8 DEF GetTest, ring
  <1>9. CASE GetLoad
    BY <1>9, GetLoadKeeps
  <1>10. CASE GetWrap
    BY <1>10, GetWrapKeeps
  <1>11. CASE UNCHANGED stdinVars
    BY <1>1, <1>2, <1>11 DEF stdinVars
  <1>12. QED
    BY <1>3, <1>4, <1>5, <1>6, <1>7, <1>8, <1>9, <1>10, <1>11 DEF StdinNext, Isr, Task

\* Slot by slot and as sequences, what was accepted is what was returned and is held.
LEMMA AccountedIsNothingLost ==
    ASSUME StdinInv
    PROVE  NothingLost
  <1> USE DEF StdinInv
  <1>1. ASSUME once
        PROVE  accepted = delivered \o RingContents
    <2>1. Start = iget /\ iget \in RingSlots /\ iput \in RingSlots
      BY <1>1, StartOnRing DEF StdinTypeOK
    <2>2. Pos(iput) = Count /\ Count \in Nat
      BY <2>1 DEF Pos, Count
    <2>3. \A i \in 1 .. Count : RingSlot(i) \in Held /\ Pos(RingSlot(i)) = i - 1
      BY <2>1, <2>2 DEF Pos, Count, RingSlot, Held
    <2>4. RingContents \in [1 .. Count -> Nat]
      BY <2>3 DEF RingContents, Held, StdinTypeOK
    <2> DEFINE c == RingContents
               d == delivered \o c
    <2>5. c \in Seq(Nat) /\ Len(c) = Count /\ \A i \in 1 .. Count : c[i] = buf[RingSlot(i)]
      BY <2>2, <2>4 DEF RingContents
    <2> HIDE DEF c
    <2>6. delivered \in Seq(Nat) /\ accepted \in Seq(Nat) /\ Len(delivered) \in Nat
      BY DEF StdinTypeOK
    <2>7. d \in Seq(Nat) /\ Len(d) = Len(delivered) + Count
      BY <2>5, <2>6, ConcatProperties
    <2>8. \A i \in 1 .. Len(d) :
              d[i] = IF i <= Len(delivered) THEN delivered[i] ELSE c[i - Len(delivered)]
      BY <2>5, <2>6, ConcatProperties
    <2> HIDE DEF d
    <2>9. Len(accepted) = Len(d)
      BY <1>1, <2>2, <2>7 DEF Accounted
    <2>10. ASSUME NEW i \in 1 .. Len(d)
           PROVE  accepted[i] = d[i]
      <3>1. CASE i <= Len(delivered)
        <4>1. i \in DOMAIN delivered /\ d[i] = delivered[i]
          BY <2>6, <2>7, <2>8, <3>1
        <4>2. \A j \in DOMAIN delivered : accepted[j] = delivered[j]
          BY <1>1 DEF Accounted
        <4>3. QED
          BY <4>1, <4>2, Zenon
      <3>2. CASE i > Len(delivered)
        <4>1. i - Len(delivered) \in 1 .. Count
          BY <2>2, <2>6, <2>7, <3>2
        <4>2. d[i] = buf[RingSlot(i - Len(delivered))]
          BY <2>5, <2>6, <2>8, <3>2, <4>1
        <4>3. Len(delivered) + Pos(RingSlot(i - Len(delivered))) + 1 = i
          BY <2>3, <2>6, <4>1
        <4>4. QED
          BY <1>1, <2>3, <4>1, <4>2, <4>3 DEF Accounted
      <3>3. QED
        BY <2>6, <2>7, <3>1, <3>2
    <2>11. accepted = d
      BY <2>6, <2>7, <2>9, <2>10, SeqEqual
    <2>12. QED
      BY <2>11 DEF c, d
  <1>2. QED
    BY <1>1 DEF NothingLost, DeliveredInOrder

\* The indices of the ring stay on it, iget one past its end only inside ringbuf_get.
THEOREM StdinTypeCorrect == StdinSpec => []StdinTypeOK
  <1>1. StdinSpec => []StdinInv
    BY StdinInvInit, StdinInvNext, PTL DEF StdinSpec
  <1>2. QED
    BY <1>1, PTL DEF StdinInv

\* Between the interrupt handler and mp_hal_stdin_rx_chr no character that was accepted
\* is lost, repeated or reordered when iget is stored once, and none is repeated or
\* reordered when it is not.
THEOREM StdinNothingLost == StdinSpec => []NothingLost
  <1>1. StdinSpec => []StdinInv
    BY StdinInvInit, StdinInvNext, PTL DEF StdinSpec
  <1>2. StdinInv => NothingLost
    BY AccountedIsNothingLost
  <1>3. QED
    BY <1>1, <1>2, PTL
=============================================================================

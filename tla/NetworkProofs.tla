---------------------------- MODULE NetworkProofs ----------------------------
(***************************************************************************)
(* The path of an FTP session, the Wi-Fi station, the waiting socket calls *)
(* and the BLE device keep their promises for every set of parameters,     *)
(* every length of the event queues, every timeout and every set of        *)
(* clients.                                                                *)
(***************************************************************************)
EXTENDS MCNetwork, SocketFifoProofs, SequenceTheorems, FiniteSetTheorems,
        WellFoundedInduction, TLAPS

-----------------------------------------------------------------------------
(* FtpPath *)

\* A path that FatFs takes: it begins with "/", has no empty name and ends in none.
Shape(p) ==
    /\ p \in Seq(Chars) /\ Len(p) \in Nat \ {0} /\ p[1] = "/" /\ NoEmptyName(p)
    /\ Len(p) > 1 => p[Len(p)] # "/"

PathInv == Shape(path) /\ Len(path) <= MaxPath /\ last.ok \in BOOLEAN

\* A set of positions has a last one.
LEMMA LastPosition ==
    ASSUME NEW n \in Nat, NEW T, T \subseteq 1 .. n, T # {}
    PROVE  \E k \in T : \A j \in T : j <= k
  <1> DEFINE D == {n - k : k \in T}
             R == OpToRel(<, Nat)
  <1>1. \A k \in T : k \in Int /\ n - k \in Nat
    OBVIOUS
  <1>2. D \subseteq Nat /\ D # {}
    BY <1>1
  <1>3. IsWellFoundedOn(R, Nat)
    BY NatLessThanWellFounded
  <1>4. PICK x \in D : \A y \in D : <<y, x>> \notin R
    <2> HIDE DEF D, R
    <2>1. QED
      BY <1>2, <1>3, WFMin
  <1>5. \A y \in D : ~(y < x)
    BY <1>2, <1>4 DEF OpToRel
  <1>6. PICK k \in T : x = n - k
    OBVIOUS
  <1>7. \A j \in T : ~(n - j < n - k)
    BY <1>5, <1>6
  <1>8. \A j \in T : j <= k
    BY <1>1, <1>7
  <1>9. QED
    BY <1>8

\* The beginning of a string.
LEMMA Beginning ==
    ASSUME NEW q \in Seq(Chars), NEW n \in 0 .. Len(q)
    PROVE  /\ SubSeq(q, 1, n) \in Seq(Chars) /\ Len(SubSeq(q, 1, n)) = n
           /\ \A k \in 1 .. n : SubSeq(q, 1, n)[k] = q[k]
  <1>1. Len(q) \in Nat /\ n \in Int /\ 1 \in Int
    BY LenProperties
  <1>2. \A k \in 1 .. n : q[k] \in Chars
    BY <1>1, LenProperties
  <1> DEFINE s == SubSeq(q, 1, n)
  <1>3. /\ s \in Seq(Chars) /\ Len(s) = IF 1 <= n THEN n - 1 + 1 ELSE 0
        /\ \A k \in 1 .. n - 1 + 1 : s[k] = q[1 + k - 1]
    BY <1>1, <1>2, SubSeqProperties
  <1> HIDE DEF s
  <1>4. s \in Seq(Chars) /\ Len(s) = n
    BY <1>1, <1>3
  <1>5. \A k \in 1 .. n : s[k] = q[k]
    BY <1>1, <1>3
  <1>6. QED
    BY <1>4, <1>5 DEF s

\* A string that begins another one is its beginning.
LEMMA IsBeginning ==
    ASSUME NEW q \in Seq(Chars), NEW p \in Seq(Chars), Len(p) <= Len(q),
           \A k \in 1 .. Len(p) : q[k] = p[k]
    PROVE  SubSeq(q, 1, Len(p)) = p
  <1> DEFINE s == SubSeq(q, 1, Len(p))
  <1>1. Len(p) \in 0 .. Len(q)
    BY LenProperties
  <1>2. s \in Seq(Chars) /\ Len(s) = Len(p) /\ \A k \in 1 .. Len(p) : s[k] = q[k]
    BY <1>1, Beginning
  <1> HIDE DEF s
  <1>3. s = p
    BY <1>2, SeqEqual
  <1>4. QED
    BY <1>3 DEF s

\* The root, and every path of one character.
LEMMA RootIs ==
    /\ Shape(Root) /\ Len(Root) = 1 /\ Root \in Seq(Chars) /\ Root[1] = "/"
    /\ \A p : Shape(p) /\ Len(p) = 1 => p = Root
  <1>1. Root \in Seq(Chars) /\ Len(Root) = 1 /\ Root[1] = "/"
    BY ParamAssumption DEF Root
  <1>2. Shape(Root)
    BY <1>1 DEF Shape, NoEmptyName
  <1>3. ASSUME NEW p, Shape(p), Len(p) = 1
        PROVE  p = Root
    BY <1>1, <1>3, SeqEqual DEF Shape
  <1>4. QED
    BY <1>1, <1>2, <1>3

\* The directory and a parameter put together, with one "/" between them.
Between(p) == IF Len(p) > 1 THEN Len(p) + 1 ELSE 1
Joined(p, d) == IF Len(p) > 1 THEN p \o Root \o d ELSE p \o d

\* Character by character: the path, a "/" between when it is not the root, the parameter.
LEMMA JoinedIs ==
    ASSUME NEW p, Shape(p), NEW d \in Seq(Chars)
    PROVE  /\ Between(p) \in Nat \ {0} /\ Len(p) <= Between(p) /\ Between(p) <= Len(p) + 1
           /\ Joined(p, d) \in Seq(Chars) /\ Len(Joined(p, d)) = Between(p) + Len(d)
           /\ \A k \in 1 .. Len(p) : Joined(p, d)[k] = p[k]
           /\ Joined(p, d)[Between(p)] = "/"
           /\ \A k \in 1 .. Len(d) : Joined(p, d)[Between(p) + k] = d[k]
  <1>0. Len(p) \in Nat \ {0} /\ Len(d) \in Nat
    BY LenProperties DEF Shape
  <1>1. p \in Seq(Chars) /\ p[1] = "/"
    BY DEF Shape
  <1>2. CASE Len(p) > 1
    <2> DEFINE r == p \o Root
               s == r \o d
    <2>1. /\ r \in Seq(Chars) /\ Len(r) = Len(p) + 1
          /\ \A k \in 1 .. Len(p) + 1 : r[k] = IF k <= Len(p) THEN p[k] ELSE Root[k - Len(p)]
      <3>1. Root \in Seq(Chars) /\ Len(Root) = 1
        BY RootIs
      <3>2. /\ r \in Seq(Chars) /\ Len(r) = Len(p) + Len(Root)
            /\ \A k \in 1 .. Len(p) + Len(Root) :
                   r[k] = IF k <= Len(p) THEN p[k] ELSE Root[k - Len(p)]
        BY <1>1, <3>1, ConcatProperties, Zenon
      <3> HIDE DEF r
      <3>3. QED
        BY <3>1, <3>2, Zenon
    <2> HIDE DEF r
    <2>2. (\A k \in 1 .. Len(p) : r[k] = p[k]) /\ r[Len(p) + 1] = "/"
      <3>1. \A k \in 1 .. Len(p) : k \in 1 .. Len(p) + 1 /\ k <= Len(p)
        BY <1>0
      <3>2. Len(p) + 1 \in 1 .. Len(p) + 1 /\ ~(Len(p) + 1 <= Len(p)) /\ Len(p) + 1 - Len(p) = 1
        BY <1>0
      <3>3. QED
        BY <2>1, <3>1, <3>2, RootIs
    <2>3. /\ s \in Seq(Chars) /\ Len(s) = Len(r) + Len(d)
          /\ \A k \in 1 .. Len(r) + Len(d) : s[k] = IF k <= Len(r) THEN r[k] ELSE d[k - Len(r)]
      BY <2>1, ConcatProperties, ZenonT(30)
    <2> HIDE DEF s
    <2>4. \A k \in 1 .. Len(p) : s[k] = p[k]
      BY <1>0, <1>1, <2>1, <2>2, <2>3
    <2>5. s[Len(p) + 1] = "/"
      BY <1>0, <1>1, <2>1, <2>2, <2>3
    <2>6. \A k \in 1 .. Len(d) : s[Len(p) + 1 + k] = d[k]
      <3> SUFFICES ASSUME NEW k \in 1 .. Len(d)
                   PROVE  s[Len(p) + 1 + k] = d[k]
        OBVIOUS
      <3>1. /\ Len(p) + 1 + k \in 1 .. Len(r) + Len(d) /\ ~(Len(p) + 1 + k <= Len(r))
            /\ Len(p) + 1 + k - Len(r) = k
        BY <1>0, <2>1
      <3>2. QED
        BY <2>3, <3>1, SMTT(30)
    <2>7. Joined(p, d) = s /\ Between(p) = Len(p) + 1
      BY <1>2 DEF Joined, Between, r, s
    <2>8. QED
      BY <1>0, <1>1, <2>1, <2>3, <2>4, <2>5, <2>6, <2>7
  <1>3. CASE ~(Len(p) > 1)
    <2> DEFINE s == p \o d
    <2>1. Len(p) = 1
      <3>1. \A n \in Nat \ {0} : ~(n > 1) => n = 1
        OBVIOUS
      <3>2. QED
        BY <1>0, <1>3, <3>1, Zenon
    <2>2. /\ s \in Seq(Chars) /\ Len(s) = Len(p) + Len(d)
          /\ \A k \in 1 .. Len(p) + Len(d) : s[k] = IF k <= Len(p) THEN p[k] ELSE d[k - Len(p)]
      BY <1>1, ConcatProperties
    <2> HIDE DEF s
    <2>3. s[1] = "/"
      BY <1>0, <1>1, <2>1, <2>2
    <2>4. \A k \in 1 .. Len(d) : s[1 + k] = d[k]
      BY <1>0, <1>1, <2>1, <2>2
    <2>5. Joined(p, d) = s /\ Between(p) = 1
      BY <1>3 DEF Joined, Between, s
    <2>6. QED
      BY <1>0, <1>1, <2>1, <2>2, <2>3, <2>4, <2>5
  <1>4. QED
    BY <1>2, <1>3

\* The "/" at the end of what was put together is taken away.
Ends(p, d) == Len(Joined(p, d)) > 1 /\ Joined(p, d)[Len(Joined(p, d))] = "/"

\* open_child with a relative parameter appends it, but for a "/" at its end.
LEMMA OpenRelative ==
    ASSUME NEW p, Shape(p), NEW d \in Seq(Chars), ~Absolute(d)
    PROVE  /\ open_child(p, d) \in Seq(Chars)
           /\ Len(open_child(p, d)) =
                  IF Ends(p, d) THEN Len(Joined(p, d)) - 1 ELSE Len(Joined(p, d))
           /\ \A k \in 1 .. Len(open_child(p, d)) : open_child(p, d)[k] = Joined(p, d)[k]
  <1> DEFINE j == Joined(p, d)
             q == open_child(p, d)
  <1>1. /\ j \in Seq(Chars) /\ Len(j) = Between(p) + Len(d) /\ Between(p) \in Nat \ {0}
    BY JoinedIs
  <1>2. Len(d) \in Nat
    BY LenProperties
  <1>3. q = IF Len(j) > 1 /\ j[Len(j)] = "/" THEN SubSeq(j, 1, Len(j) - 1) ELSE j
    BY DEF open_child, Joined
  <1>4. Ends(p, d) <=> Len(j) > 1 /\ j[Len(j)] = "/"
    BY <1>1 DEF Ends
  <1> HIDE DEF j, q
  <1>5. CASE Ends(p, d)
    <2>1. Len(j) - 1 \in 0 .. Len(j)
      BY <1>1, <1>2
    <2>2. q = SubSeq(j, 1, Len(j) - 1)
      BY <1>3, <1>4, <1>5
    <2>3. q \in Seq(Chars) /\ Len(q) = Len(j) - 1 /\ \A k \in 1 .. Len(j) - 1 : q[k] = j[k]
      BY <1>1, <2>1, <2>2, Beginning
    <2>4. QED
      BY <1>1, <1>5, <2>3 DEF j, q
  <1>6. CASE ~Ends(p, d)
    <2>1. q = j
      BY <1>3, <1>4, <1>6
    <2>2. QED
      BY <1>1, <1>6, <2>1 DEF j, q
  <1>7. QED
    BY <1>5, <1>6

\* An absolute parameter replaces the directory.
LEMMA OpenAbsolute ==
    ASSUME NEW p, NEW d \in Params, Absolute(d)
    PROVE  open_child(p, d) = d /\ Shape(d)
  <1>1. d \in Seq(Chars) /\ NoEmptyName(d) /\ (Len(d) > 1 /\ d[1] = "/" => d[Len(d)] # "/")
    BY ParamAssumption
  <1>2. d # <<>> /\ d[1] = "/"
    BY DEF Absolute
  <1>3. Len(d) \in Nat \ {0}
    BY <1>1, <1>2
  <1>4. open_child(p, d) = d
    BY <1>1, <1>2 DEF open_child
  <1>5. QED
    BY <1>1, <1>2, <1>3, <1>4 DEF Shape

\* No name of what was put together is empty.
LEMMA JoinedNames ==
    ASSUME NEW p, Shape(p), NEW d \in Params, ~Absolute(d)
    PROVE  NoEmptyName(Joined(p, d))
  <1> DEFINE j == Joined(p, d)
             b == Between(p)
             n == Len(p)
             m == Len(d)
  <1>1. d \in Seq(Chars)
    BY ParamAssumption
  <1>2. \A k \in 2 .. m : d[k] = "/" => d[k - 1] # "/"
    BY ParamAssumption DEF NoEmptyName
  <1>3. m \in Nat /\ (m > 0 => d[1] # "/")
    BY <1>1 DEF Absolute
  <1>4. n \in Nat \ {0} /\ b = IF n > 1 THEN n + 1 ELSE 1
    BY DEF Shape, Between
  <1>5. (\A k \in 2 .. n : p[k] = "/" => p[k - 1] # "/") /\ (n > 1 => p[n] # "/")
    BY DEF Shape, NoEmptyName
  <1>6. /\ Len(j) = b + m
        /\ \A k \in 1 .. n : j[k] = p[k]
        /\ \A k \in 1 .. m : j[b + k] = d[k]
    BY <1>1, JoinedIs
  <1> HIDE DEF j, b, n, m
  <1>7. ASSUME NEW k \in 2 .. b + m, j[k] = "/", j[k - 1] = "/"
        PROVE  FALSE
    <2>1. CASE k <= n
      <3>1. k \in 2 .. n /\ k \in 1 .. n /\ k - 1 \in 1 .. n
        BY <1>3, <1>4, <2>1
      <3>2. QED
        BY <1>5, <1>6, <1>7, <3>1
    <2>2. CASE k = n + 1 /\ n > 1
      <3>1. n \in 1 .. n /\ k - 1 = n
        BY <1>4, <2>2
      <3>2. QED
        BY <1>5, <1>6, <1>7, <2>2, <3>1
    <2>3. CASE k = b + 1
      <3>1. 1 \in 1 .. m /\ m > 0
        BY <1>3, <1>4, <1>7, <2>3
      <3>2. QED
        BY <1>3, <1>6, <1>7, <2>3, <3>1
    <2>4. CASE k > b + 1
      <3>1. k - b \in 2 .. m /\ k - b \in 1 .. m /\ k - b - 1 \in 1 .. m
        BY <1>3, <1>4, <2>4
      <3>2. b + (k - b) = k /\ b + (k - b - 1) = k - 1
        BY <1>3, <1>4
      <3>3. d[k - b] = "/" /\ d[k - b - 1] = "/"
        BY <1>6, <1>7, <3>1, <3>2
      <3>4. QED
        BY <1>2, <3>1, <3>3
    <2>5. k <= n \/ (k = n + 1 /\ n > 1) \/ k = b + 1 \/ k > b + 1
      BY <1>3, <1>4
    <2>6. QED
      BY <2>1, <2>2, <2>3, <2>4, <2>5
  <1>8. QED
    BY <1>6, <1>7 DEF NoEmptyName, j

\* mb_ftp_open_child makes a path of a path.
LEMMA OpenShape ==
    ASSUME NEW p, Shape(p), NEW d \in Params
    PROVE  Shape(open_child(p, d))
  <1>1. CASE Absolute(d)
    BY <1>1, OpenAbsolute
  <1>2. CASE ~Absolute(d)
    <2> DEFINE j == Joined(p, d)
               q == open_child(p, d)
               l == Len(j)
    <2>1. d \in Seq(Chars)
      BY ParamAssumption
    <2>2. Len(d) \in Nat /\ Len(p) \in Nat \ {0} /\ p[1] = "/"
      BY <2>1, LenProperties DEF Shape
    <2>3. /\ q \in Seq(Chars) /\ Len(q) = IF Ends(p, d) THEN l - 1 ELSE l
          /\ \A k \in 1 .. Len(q) : q[k] = j[k]
      BY <1>2, <2>1, OpenRelative, Zenon
    <2>4. /\ Between(p) \in Nat \ {0} /\ l = Between(p) + Len(d)
          /\ \A k \in 1 .. Len(p) : j[k] = p[k]
      BY <2>1, JoinedIs
    <2>5. l \in Nat \ {0} /\ 1 \in 1 .. Len(p)
      BY <2>2, <2>4
    <2>6. Ends(p, d) <=> l > 1 /\ j[l] = "/"
      BY DEF Ends
    <2>7. \A k \in 2 .. l : j[k] = "/" => j[k - 1] # "/"
      BY <1>2, <2>4, JoinedNames DEF NoEmptyName
    <2>8. j[1] = "/"
      BY <2>2, <2>4, <2>5
    <2> HIDE DEF j, q, l
    <2>9. Len(q) \in Nat \ {0} /\ Len(q) <= l
      <3>1. Len(q) = l \/ (l > 1 /\ Len(q) = l - 1)
        BY <2>3, <2>6, Zenon
      <3>2. QED
        BY <2>5, <3>1
    <2>10. q[1] = "/"
      <3>1. 1 \in 1 .. Len(q)
        BY <2>9
      <3>2. QED
        BY <2>3, <2>8, <3>1, Zenon
    <2>11. \A k \in 2 .. Len(q) : q[k] = "/" => q[k - 1] # "/"
      BY <2>3, <2>5, <2>7, <2>9
    <2>12. Len(q) > 1 => q[Len(q)] # "/"
      <3>1. CASE Ends(p, d)
        <4>1. l \in 2 .. l /\ Len(q) = l - 1
          BY <2>3, <2>5, <2>6, <3>1
        <4>2. j[l - 1] # "/"
          BY <2>6, <2>7, <3>1, <4>1
        <4>3. QED
          BY <2>3, <2>9, <4>1, <4>2
      <3>2. CASE ~Ends(p, d)
        BY <2>3, <2>6, <2>9, <3>2
      <3>3. QED
        BY <3>1, <3>2
    <2>13. Shape(q)
      BY <2>3, <2>9, <2>10, <2>11, <2>12 DEF Shape, NoEmptyName
    <2>14. QED
      BY <2>13 DEF q
  <1>3. QED
    BY <1>1, <1>2

\* Where a path may be cut: before a "/" that is not its first character.
Cuts(q) == {k \in 1 .. Len(q) - 1 : q[k + 1] = "/"}

\* mb_ftp_close_child cuts a path at its last "/", or is back at the root.
LEMMA CloseCuts ==
    ASSUME NEW q, Shape(q)
    PROVE  \/ Cuts(q) = {} /\ close_child(q) = Root
           \/ \E k \in Cuts(q) : /\ \A j \in Cuts(q) : j <= k
                                 /\ close_child(q) = SubSeq(q, 1, k)
  <1> DEFINE cuts == {k \in 1 .. Len(q) - 1 : q[k + 1] = "/"}
  <1>1. cuts = Cuts(q)
    BY DEF Cuts
  <1>2. close_child(q) = IF cuts = {} THEN Root
                         ELSE SubSeq(q, 1, CHOOSE k \in cuts : \A j \in cuts : j <= k)
    BY DEF close_child
  <1>3. Len(q) - 1 \in Nat
    BY DEF Shape
  <1>4. cuts \subseteq 1 .. Len(q) - 1
    OBVIOUS
  <1> HIDE DEF cuts
  <1>5. cuts # {} => \E k \in cuts : \A j \in cuts : j <= k
    BY <1>3, <1>4, LastPosition
  <1>6. QED
    BY <1>1, <1>2, <1>5, Zenon

\* It makes a path of a path.
LEMMA CloseShape ==
    ASSUME NEW q, Shape(q)
    PROVE  Shape(close_child(q)) /\ Len(close_child(q)) <= Len(q)
  <1>1. q \in Seq(Chars) /\ q[1] = "/"
    BY DEF Shape
  <1>2. Len(q) \in Nat \ {0}
    BY DEF Shape
  <1>3. \A k \in 2 .. Len(q) : q[k] = "/" => q[k - 1] # "/"
    BY DEF Shape, NoEmptyName
  <1>4. CASE close_child(q) = Root
    <2>1. Len(Root) = 1 /\ Shape(Root)
      BY RootIs
    <2>2. 1 <= Len(q)
      BY <1>2
    <2>3. QED
      BY <1>4, <2>1, <2>2
  <1>5. ASSUME NEW k \in Cuts(q), close_child(q) = SubSeq(q, 1, k)
        PROVE  Shape(close_child(q)) /\ Len(close_child(q)) <= Len(q)
    <2> DEFINE s == SubSeq(q, 1, k)
    <2>1. k \in 1 .. Len(q) - 1 /\ q[k + 1] = "/"
      BY DEF Cuts
    <2>2. k \in 0 .. Len(q) /\ k \in Nat \ {0} /\ k + 1 \in 2 .. Len(q) /\ k + 1 - 1 = k
      BY <1>2, <2>1
    <2>3. s \in Seq(Chars) /\ Len(s) = k /\ \A l \in 1 .. k : s[l] = q[l]
      BY <1>1, <2>2, Beginning
    <2> HIDE DEF s
    <2>4. q[k] # "/"
      BY <1>3, <2>1, <2>2
    <2>5. 1 \in 1 .. k /\ k \in 1 .. k
      BY <2>2
    <2>6. s[1] = "/" /\ s[k] # "/"
      BY <1>1, <2>3, <2>4, <2>5
    <2>7. ASSUME NEW l \in 2 .. k, s[l] = "/"
          PROVE  s[l - 1] # "/"
      <3>1. l \in 1 .. k /\ l - 1 \in 1 .. k /\ l \in 2 .. Len(q)
        BY <1>2, <2>1, <2>2
      <3>2. QED
        BY <1>3, <2>3, <2>7, <3>1
    <2>8. Shape(s)
      BY <2>2, <2>3, <2>6, <2>7 DEF Shape, NoEmptyName
    <2>9. Len(s) <= Len(q)
      BY <1>2, <2>1, <2>3
    <2>10. QED
      BY <1>5, <2>8, <2>9 DEF s
  <1>6. QED
    BY <1>4, <1>5, CloseCuts

\* A command on a relative path comes back to its directory, on an absolute one to the
\* root.
LEMMA ReturnsTo ==
    ASSUME NEW p, Shape(p), NEW d \in Params
    PROVE  return_to_previous_path(open_child(p, d), d) = IF Absolute(d) THEN Root ELSE p
  <1> DEFINE q == open_child(p, d)
             new == Len(q) - Len(d)
  <1>0. d \in Seq(Chars) /\ Len(d) \in Nat
    BY ParamAssumption, LenProperties
  <1>1. return_to_previous_path(q, d) =
            IF new > 2 /\ q[new] = "/" THEN SubSeq(q, 1, new - 1)
            ELSE IF new = 0 THEN Root ELSE SubSeq(q, 1, new)
    BY DEF return_to_previous_path
  <1>2. CASE Absolute(d)
    <2>1. q = d
      BY <1>2, OpenAbsolute
    <2>2. new = 0
      BY <1>0, <2>1
    <2>3. QED
      BY <1>1, <1>2, <2>2
  <1>3. CASE ~Absolute(d)
    <2> DEFINE j == Joined(p, d)
               n == Len(p)
               m == Len(d)
               b == Between(p)
    <2>1. /\ q \in Seq(Chars) /\ Len(q) = IF Ends(p, d) THEN Len(j) - 1 ELSE Len(j)
          /\ \A k \in 1 .. Len(q) : q[k] = j[k]
      BY <1>0, <1>3, OpenRelative, Zenon
    <2>2. /\ Len(j) = b + m
          /\ \A k \in 1 .. n : j[k] = p[k]
          /\ j[b] = "/"
      BY <1>0, JoinedIs
    <2>3. p \in Seq(Chars) /\ (n > 1 => p[n] # "/")
      BY DEF Shape
    <2>4. n \in Nat \ {0} /\ m \in Nat /\ b = IF n > 1 THEN n + 1 ELSE 1
      BY <1>0 DEF Shape, Between
    <2>5. Ends(p, d) <=> Len(j) > 1 /\ j[Len(j)] = "/"
      BY DEF Ends
    <2>6. n = 1 => p = Root
      BY RootIs
    <2>7. new = Len(q) - m
      OBVIOUS
    <2>8. Len(q) = b + m \/ (Ends(p, d) /\ b + m > 1 /\ Len(q) = b + m - 1)
      <3> HIDE DEF j, q, b, m
      <3>1. CASE Ends(p, d)
        <4>1. Len(q) = Len(j) - 1 /\ Len(j) > 1
          BY <2>1, <2>5, <3>1
        <4>2. QED
          BY <2>2, <2>4, <3>1, <4>1
      <3>2. CASE ~Ends(p, d)
        BY <2>1, <2>2, <3>2
      <3>3. QED
        BY <3>1, <3>2
    <2> HIDE DEF j, n, m, b, q, new
    <2>9. SubSeq(q, 1, n) = p \/ Len(q) < n
      <3>1. ASSUME n <= Len(q)
            PROVE  SubSeq(q, 1, n) = p
        <4>1. \A k \in 1 .. n : k \in 1 .. Len(q)
          BY <2>4, <2>8, <3>1
        <4>2. \A k \in 1 .. n : q[k] = p[k]
          BY <2>1, <2>2, <4>1
        <4>3. QED
          BY <2>1, <2>3, <3>1, <4>2, IsBeginning DEF n
      <3>2. QED
        BY <2>4, <2>8, <3>1
    <2>10. n <= Len(q)
      BY <2>4, <2>8
    <2>11. CASE n > 1 /\ Len(q) = b + m
      <3>1. new = n + 1 /\ new > 2 /\ new - 1 = n /\ new = b /\ b \in 1 .. Len(q)
        BY <2>4, <2>7, <2>11
      <3>2. q[new] = "/"
        BY <2>1, <2>2, <3>1
      <3>3. return_to_previous_path(q, d) = SubSeq(q, 1, n)
        BY <1>1, <3>1, <3>2
      <3>4. QED
        BY <1>3, <2>4, <2>8, <2>9, <2>10, <3>3 DEF q
    <2>12. CASE n > 1 /\ Len(q) = b + m - 1
      <3>1. new = n /\ new # 0 /\ n \in 1 .. Len(q) /\ n \in 1 .. n
        BY <2>4, <2>7, <2>12
      <3>2. q[new] # "/"
        BY <2>1, <2>2, <2>3, <2>12, <3>1
      <3>3. return_to_previous_path(q, d) = SubSeq(q, 1, n)
        BY <1>1, <3>1, <3>2
      <3>4. QED
        BY <1>3, <2>4, <2>8, <2>9, <2>10, <3>3 DEF q
    <2>13. CASE n = 1 /\ Len(q) = b + m
      <3>1. new = 1 /\ ~(new > 2) /\ new # 0
        BY <2>4, <2>7, <2>13
      <3>2. return_to_previous_path(q, d) = SubSeq(q, 1, n)
        BY <1>1, <2>13, <3>1
      <3>3. QED
        BY <1>3, <2>4, <2>8, <2>9, <2>10, <3>2 DEF q
    <2>14. CASE n = 1 /\ Len(q) = b + m - 1
      <3>1. new = 0 /\ ~(new > 2)
        BY <2>4, <2>7, <2>14
      <3>2. return_to_previous_path(q, d) = Root
        BY <1>1, <3>1
      <3>3. QED
        BY <1>3, <2>6, <2>14, <3>2 DEF q
    <2>15. (n > 1 \/ n = 1) /\ (Len(q) = b + m \/ Len(q) = b + m - 1)
      BY <2>4, <2>8
    <2>16. QED
      BY <2>11, <2>12, <2>13, <2>14, <2>15
  <1>4. QED
    BY <1>2, <1>3

\* A directory that is not there, of one name: cutting the last "/" undoes the joining.
LEMMA ClosesOneName ==
    ASSUME NEW p, Shape(p), NEW d \in Params, OneName(d)
    PROVE  close_child(open_child(p, d)) = p
  <1> DEFINE q == open_child(p, d)
             j == Joined(p, d)
             n == Len(p)
             m == Len(d)
             b == Between(p)
  <1>1. d \in Seq(Chars) /\ d # <<>> /\ \A k \in 1 .. m : d[k] = "/" => k > 1 /\ k = m
    BY ParamAssumption DEF OneName
  <1>2. m \in Nat \ {0}
    BY <1>1
  <1>3. d[1] # "/"
    BY <1>1, <1>2
  <1>4. ~Absolute(d)
    BY <1>3 DEF Absolute
  <1>5. /\ q \in Seq(Chars) /\ Len(q) = IF Ends(p, d) THEN Len(j) - 1 ELSE Len(j)
        /\ \A k \in 1 .. Len(q) : q[k] = j[k]
    BY <1>1, <1>4, OpenRelative, Zenon
  <1>6. /\ Len(j) = b + m
        /\ \A k \in 1 .. n : j[k] = p[k]
        /\ j[b] = "/"
        /\ \A k \in 1 .. m : j[b + k] = d[k]
    BY <1>1, JoinedIs
  <1>7. n \in Nat \ {0} /\ b = IF n > 1 THEN n + 1 ELSE 1
    BY DEF Shape, Between
  <1>8. Ends(p, d) <=> Len(j) > 1 /\ j[Len(j)] = "/"
    BY DEF Ends
  <1>9. p \in Seq(Chars) /\ (n = 1 => p = Root)
    BY RootIs DEF Shape
  <1>10. Shape(q)
    BY OpenShape
  <1> HIDE DEF q, j, n, m, b
  <1>11. Len(q) = b + m \/ Len(q) = b + m - 1
    <2>1. CASE Ends(p, d)
      <3>1. Len(q) = Len(j) - 1 /\ Len(j) = b + m
        BY <1>5, <1>6, <2>1
      <3>2. QED
        BY <1>2, <1>7, <3>1
    <2>2. CASE ~Ends(p, d)
      BY <1>5, <1>6, <2>2
    <2>3. QED
      BY <2>1, <2>2
  <1>12. ASSUME NEW k \in 1 .. Len(q), q[k] = "/"
         PROVE  k <= b
    <2> SUFFICES ASSUME k > b
                 PROVE  FALSE
      BY <1>2, <1>7, <1>11
    <2>1. k - b \in 1 .. m /\ b + (k - b) = k
      BY <1>2, <1>7, <1>11
    <2>2. d[k - b] = "/"
      BY <1>5, <1>6, <1>12, <2>1
    <2>3. k - b = m
      BY <1>1, <2>1, <2>2
    <2>4. k = Len(j) /\ Len(j) > 1 /\ k = Len(q)
      BY <1>2, <1>6, <1>7, <1>11, <2>3
    <2>5. Ends(p, d)
      BY <1>5, <1>8, <1>12, <2>4
    <2>6. Len(q) = Len(j) - 1
      BY <1>5, <2>5
    <2>7. QED
      BY <1>2, <1>6, <1>7, <2>4, <2>6
  <1>13. CASE n = 1
    <2>1. Cuts(q) = {}
      <3> SUFFICES ASSUME NEW k \in 1 .. Len(q) - 1, q[k + 1] = "/"
                   PROVE  FALSE
        BY DEF Cuts
      <3>1. k + 1 \in 1 .. Len(q) /\ k + 1 > 1 /\ b = 1
        BY <1>2, <1>7, <1>11, <1>13
      <3>2. k + 1 <= b
        BY <1>12, <3>1
      <3>3. QED
        BY <3>1, <3>2
    <2>2. close_child(q) = Root
      BY <1>10, <2>1, CloseCuts
    <2>3. QED
      BY <1>9, <1>13, <2>2 DEF q
  <1>14. CASE n > 1
    <2>1. b = n + 1 /\ b \in 1 .. Len(q) /\ n \in 1 .. Len(q) - 1
      BY <1>2, <1>7, <1>11, <1>14
    <2>2. n \in Cuts(q)
      BY <1>5, <1>6, <2>1 DEF Cuts
    <2>3. \A k \in Cuts(q) : k <= n
      <3> SUFFICES ASSUME NEW k \in 1 .. Len(q) - 1, q[k + 1] = "/"
                   PROVE  k <= n
        BY DEF Cuts
      <3>1. k + 1 \in 1 .. Len(q)
        BY <1>2, <1>7, <1>11
      <3>2. k + 1 <= b
        BY <1>12, <3>1
      <3>3. QED
        BY <1>7, <2>1, <3>2
    <2>4. PICK k \in Cuts(q) : (\A l \in Cuts(q) : l <= k) /\ close_child(q) = SubSeq(q, 1, k)
      BY <1>10, <2>2, CloseCuts
    <2>5. k = n
      <3>1. k \in Int /\ n \in Int
        BY <1>7 DEF Cuts
      <3>2. k <= n /\ n <= k
        BY <2>2, <2>3, <2>4
      <3>3. QED
        BY <3>1, <3>2
    <2>6. n <= Len(q) /\ \A l \in 1 .. n : l \in 1 .. Len(q)
      BY <1>2, <1>7, <1>11, <1>14
    <2>7. \A l \in 1 .. n : q[l] = p[l]
      BY <1>5, <1>6, <2>6
    <2>8. SubSeq(q, 1, n) = p
      BY <1>5, <1>9, <2>6, <2>7, IsBeginning DEF n
    <2>9. QED
      BY <2>4, <2>5, <2>8 DEF q
  <1>15. QED
    BY <1>7, <1>13, <1>14

\* The session begins at the root.
LEMMA PathInvInit == PathInit => PathInv
  <1> SUFFICES ASSUME PathInit
               PROVE  PathInv
    OBVIOUS
  <1>1. path = Root /\ named = <<>> /\ last.ok = TRUE
    BY DEF PathInit
  <1>2. Shape(Root) /\ Len(Root) <= MaxPath
    BY RootIs, ParamAssumption
  <1>3. QED
    BY <1>1, <1>2, Zenon DEF PathInv

\* Where each command leaves the session.
LEMMA PathSteps ==
    ASSUME PathInv, PathNext
    PROVE  /\ PathInv'
           /\ Stays
  <1>1. Shape(path) /\ Len(path) <= MaxPath
    BY DEF PathInv
  <1>2. Shape(Root) /\ Len(Root) <= MaxPath
    BY RootIs, ParamAssumption
  <1>3. ASSUME NEW dir \in Params, NEW fine \in BOOLEAN, CWD(dir, fine)
        PROVE  PathInv' /\ Stays
    <2> DEFINE p == open_child(path, dir)
    <2>1. /\ Len(p) <= MaxPath /\ path' = IF fine THEN p ELSE close_child(p)
          /\ last' = [cmd |-> "CWD", param |-> dir, ok |-> fine]
          /\ UNCHANGED <<buffer, named>>
      BY <1>3 DEF CWD, Command
    <2>2. Shape(p)
      BY <1>1, OpenShape
    <2>3. Shape(close_child(p)) /\ Len(close_child(p)) <= Len(p)
      BY <2>2, CloseShape
    <2>4. OneName(dir) => close_child(p) = path
      BY <1>1, ClosesOneName
    <2>5. Len(p) \in Nat /\ Len(close_child(p)) \in Nat
      BY <2>2, <2>3 DEF Shape
    <2> HIDE DEF p
    <2>6. Len(close_child(p)) <= MaxPath
      BY <2>1, <2>3, <2>5, ParamAssumption
    <2>7. Shape(path') /\ Len(path') <= MaxPath
      BY <2>1, <2>2, <2>3, <2>6
    <2>8. last'.cmd = "CWD" /\ last'.param = dir /\ last'.ok = fine
      BY <2>1
    <2>9. PathInv'
      BY <1>1, <2>1, <2>7, <2>8 DEF PathInv
    <2>10. Stays
      BY <2>1, <2>4, <2>8 DEF Stays
    <2>11. QED
      BY <2>9, <2>10
  <1>4. CASE CDUP
    <2>1. /\ path' = close_child(path) /\ UNCHANGED <<buffer, named>>
          /\ last' = [cmd |-> "CDUP", param |-> <<>>, ok |-> TRUE]
      BY <1>4 DEF CDUP, Command
    <2>2. last'.cmd = "CDUP" /\ last'.ok = TRUE
      BY <2>1
    <2>3. Shape(path') /\ Len(path') <= Len(path)
      BY <1>1, <2>1, CloseShape
    <2>4. Len(path') <= MaxPath
      BY <1>1, <2>3, ParamAssumption DEF Shape
    <2>5. PathInv'
      BY <1>1, <2>1, <2>2, <2>3, <2>4 DEF PathInv
    <2>6. Stays
      BY <2>2 DEF Stays
    <2>7. QED
      BY <2>5, <2>6
  <1>5. ASSUME NEW dir \in Params, NEW fine \in BOOLEAN, NEW cmd \in {"file", "info", "RNFR", "RNTO"},
               Child(cmd, dir, fine)
        PROVE  PathInv' /\ Stays
    <2>1. /\ path' = IF Absolute(dir) THEN Root ELSE path
          /\ last' = [cmd |-> cmd, param |-> dir, ok |-> fine]
      BY <1>1, <1>5, ReturnsTo DEF Child, Command
    <2>2. last'.cmd = cmd /\ last'.param = dir /\ last'.ok = fine
      BY <2>1
    <2>3. Shape(path') /\ Len(path') <= MaxPath
      BY <1>1, <1>2, <2>1
    <2>4. PathInv'
      BY <1>5, <2>2, <2>3 DEF PathInv
    <2>5. Stays
      BY <1>5, <2>1, <2>2 DEF Stays
    <2>6. QED
      BY <2>4, <2>5
  <1>6. ASSUME NEW dir \in Params, NEW fine \in BOOLEAN,
               File(dir, fine) \/ Info(dir, fine) \/ RNFR(dir, fine) \/ RNTO(dir, fine)
        PROVE  PathInv' /\ Stays
    <2>1. CASE File(dir, fine)
      BY <1>1, <1>5, <2>1 DEF File
    <2>2. CASE Info(dir, fine)
      BY <1>1, <1>5, <2>2 DEF Info
    <2>3. CASE RNFR(dir, fine)
      BY <1>1, <1>5, <2>3 DEF RNFR
    <2>4. CASE RNTO(dir, fine)
      BY <1>1, <1>5, <2>4 DEF RNTO
    <2>5. QED
      BY <1>6, <2>1, <2>2, <2>3, <2>4
  <1>7. CASE Overwrite
    <2>1. /\ buffer' = Text /\ UNCHANGED <<path, named>>
          /\ last' = [cmd |-> "data", param |-> <<>>, ok |-> TRUE]
      BY <1>7 DEF Overwrite, Command
    <2>2. last'.cmd = "data" /\ last'.ok = TRUE
      BY <2>1
    <2>3. PathInv'
      BY <1>1, <2>1, <2>2 DEF PathInv
    <2>4. Stays
      BY <2>2 DEF Stays
    <2>5. QED
      BY <2>3, <2>4
  <1>8. QED
    BY <1>3, <1>4, <1>6, <1>7 DEF PathNext

\* Every command keeps the shape of the path, and stays where Stays says so.
LEMMA PathInvNext == PathInv /\ [PathNext]_pathVars => PathInv' /\ [Stays]_pathVars
  <1> SUFFICES ASSUME PathInv, [PathNext]_pathVars
               PROVE  PathInv' /\ [Stays]_pathVars
    OBVIOUS
  <1>1. CASE PathNext
    BY <1>1, PathSteps
  <1>2. CASE UNCHANGED pathVars
    <2>1. UNCHANGED <<path, buffer, named, last>>
      BY <1>2 DEF pathVars
    <2>2. PathInv'
      BY <2>1 DEF PathInv
    <2>3. QED
      BY <1>2, <2>2
  <1>3. QED
    BY <1>1, <1>2

\* The invariant gives the path its type.
LEMMA PathTyped == PathInv => PathTypeOK
  <1> SUFFICES ASSUME PathInv
               PROVE  PathTypeOK
    OBVIOUS
  <1>1. Shape(path) /\ Len(path) <= MaxPath /\ last.ok \in BOOLEAN
    BY DEF PathInv
  <1>2. Absolute(path)
    BY <1>1 DEF Shape, Absolute
  <1>3. path # Root => Len(path) > 1
    <2>1. Len(path) \in Nat \ {0}
      BY <1>1 DEF Shape
    <2>2. Len(path) = 1 => path = Root
      BY <1>1, RootIs
    <2>3. \A n \in Nat \ {0} : n = 1 \/ n > 1
      OBVIOUS
    <2>4. QED
      BY <2>1, <2>2, <2>3, Zenon
  <1>4. QED
    BY <1>1, <1>2, <1>3 DEF Shape, PathTypeOK

\* For every set of parameters without empty names the working directory stays a path that
\* FatFs takes, which never grows past its bound.
THEOREM PathTypeCorrect == PathSpec => []PathTypeOK
  <1>1. PathSpec => []PathInv
    BY PathInvInit, PathInvNext, PTL DEF PathSpec
  <1>2. QED
    BY <1>1, PathTyped, PTL

\* The part of Navigates that needs no induction over strings: a command on a relative path
\* and a CWD that fails on one name come back to where they began, though the code only
\* subtracts lengths.
THEOREM PathStays == PathSpec => [][Stays]_pathVars
  <1>1. PathSpec => []PathInv
    BY PathInvInit, PathInvNext, PTL DEF PathSpec
  <1>2. QED
    BY <1>1, PathInvNext, PTL DEF PathSpec

-----------------------------------------------------------------------------
(* WifiStation *)

USE WifiAssumption

\* The user's calls succeed only with the handler of the network module; the handler
\* of main.c finds the station active.
HandlerRoles ==
    /\ handler # "event_handler" => wanted = "never" /\ pc = "idle"
    /\ handler = "mb_test_event_handler" => sta

\* Which request the MicroPython task is in the middle of, and what the flag says of it.
FlagFollows ==
    /\ wanted = "no" => ~wifi_sta_connected /\ pc # "connect"
    /\ pc = "disconnect" => wanted = "no"
    /\ wanted = "yes" => sta /\ (pc = "idle" => wifi_sta_connected)

\* A station that is wanted and has lost its link finds the loss last in the queue.
LossReported ==
    wanted = "yes" /\ link = "idle" => events # <<>> /\ events[Len(events)] # "sta_start"

WifiInv ==
    /\ WifiTypeOK /\ HandlerRoles /\ FlagFollows /\ LossReported
    /\ StaysDisconnected /\ Reassociation

Events == {"sta_start", "disconnected", "auth_fail"}

\* The last of the events after one is added.
LEMMA EventAdded ==
    ASSUME WifiTypeOK, NEW e \in Events
    PROVE  /\ Append(events, e) \in Seq(Events)
           /\ Len(Append(events, e)) = Len(events) + 1 /\ Len(events) \in Nat
           /\ Append(events, e) # <<>>
           /\ Append(events, e)[Len(events) + 1] = e
  <1>1. events \in Seq(Events)
    BY DEF WifiTypeOK, Events
  <1>2. QED
    BY <1>1, AppendProperties

\* The first of the events, and the last after it was handled.
LEMMA EventHandled ==
    ASSUME WifiTypeOK, events # <<>>
    PROVE  /\ Head(events) = events[1] /\ Head(events) \in Events
           /\ Tail(events) \in Seq(Events)
           /\ Len(Tail(events)) = Len(events) - 1 /\ Len(events) \in Nat \ {0}
           /\ Len(events) # 1 =>
                  /\ Tail(events) # <<>>
                  /\ Tail(events)[Len(events) - 1] = events[Len(events)]
  <1>1. events \in Seq(Events)
    BY DEF WifiTypeOK, Events
  <1>2. Len(events) \in Nat \ {0} /\ Head(events) = events[1] /\ Head(events) \in Events
    BY <1>1
  <1>3. /\ Tail(events) \in Seq(Events) /\ Len(Tail(events)) = Len(events) - 1
        /\ \A k \in 1 .. Len(events) - 1 : Tail(events)[k] = events[k + 1]
    BY <1>1, HeadTailProperties
  <1>4. Len(events) # 1 => Len(Tail(events)) > 0 /\ Len(events) - 1 \in 1 .. Len(events) - 1
    BY <1>2, <1>3
  <1>5. Len(events) # 1 => Tail(events) # <<>>
    <2> DEFINE t == Tail(events)
    <2>1. Len(events) # 1 => Len(t) > 0
      BY <1>4
    <2> HIDE DEF t
    <2>2. Len(events) # 1 => t # <<>>
      BY <2>1
    <2>3. QED
      BY <2>2 DEF t
  <1>6. QED
    BY <1>2, <1>3, <1>4, <1>5

\* Wi-Fi is off.
LEMMA WifiInvInit == WifiInit => WifiInv
  <1> SUFFICES ASSUME WifiInit
               PROVE  WifiInv
    OBVIOUS
  <1>1. events \in Seq(Events) /\ Len(events) <= MaxEvents
    BY DEF WifiInit
  <1>2. WifiTypeOK
    BY <1>1, Zenon DEF WifiInit, WifiTypeOK, Events
  <1>3. HandlerRoles /\ FlagFollows /\ LossReported /\ StaysDisconnected /\ Reassociation
    BY DEF WifiInit, HandlerRoles, FlagFollows, LossReported, StaysDisconnected, Reassociation
  <1>4. QED
    BY <1>2, <1>3 DEF WifiInv

\* Calls of the user, events and the driver preserve it.
LEMMA WifiInvNext == WifiInv /\ [WifiNext]_wifiVars => WifiInv'
  <1> SUFFICES ASSUME WifiInv, [WifiNext]_wifiVars
               PROVE  WifiInv'
    OBVIOUS
  <1>1. WifiTypeOK
    BY DEF WifiInv
  <1> USE DEF WifiInv, WifiTypeOK, HandlerRoles, FlagFollows, LossReported,
              StaysDisconnected, Reassociation, user
  <1>2. CASE Connected
    BY <1>2 DEF Connected
  <1>3. ASSUME NEW reason \in {"disconnected", "auth_fail"}, Drop(reason)
        PROVE  WifiInv'
    <2>1. Append(events, reason) \in Seq(Events) /\ Len(Append(events, reason)) <= MaxEvents
      BY <1>1, <1>3, EventAdded DEF Drop, Room, Events
    <2>2. events' # <<>> /\ events'[Len(events')] = reason
      BY <1>1, <1>3, EventAdded DEF Drop, Events
    <2>3. WifiTypeOK'
      BY <1>3, <2>1 DEF Drop, Events
    <2>4. QED
      BY <1>3, <2>2, <2>3 DEF Drop
  <1>4. CASE HandleEvent
    <2>1. /\ Head(events) \in Events /\ Head(events) = events[1]
          /\ events' \in Seq(Events) /\ Len(events') <= MaxEvents
          /\ Len(events') = Len(events) - 1 /\ Len(events) \in Nat \ {0}
          /\ Len(events) # 1 => events' # <<>> /\ events'[Len(events')] = events[Len(events)]
      BY <1>1, <1>4, EventHandled DEF HandleEvent
    <2>2. CASE handler = "event_handler" /\ event_handler(Head(events))
      <3> USE <1>4, <2>1, <2>2 DEF HandleEvent, event_handler, EndsRequest, esp_wifi_connect
      <3>1. WifiTypeOK'
        BY DEF Events
      <3>2. HandlerRoles' /\ FlagFollows' /\ StaysDisconnected'
        OBVIOUS
      <3>3. LossReported'
        BY DEF Events
      <3>4. Reassociation'
        BY <3>2, <3>3
      <3>5. QED
        BY <3>1, <3>2, <3>3, <3>4
    <2>3. CASE handler = "mb_test_event_handler" /\ mb_test_event_handler(Head(events))
      BY <1>4, <2>1, <2>3 DEF HandleEvent, mb_test_event_handler, esp_wifi_connect, Events
    <2>4. QED
      BY <1>4, <2>2, <2>3 DEF HandleEvent
  <1>5. CASE mb_initialise_wifi
    <2>1. <<"sta_start">> \in Seq(Events) /\ Len(<<"sta_start">>) = 1 /\ <<"sta_start">> # <<>>
      BY DEF Events
    <2>2. events' \in Seq(Events) /\ Len(events') <= MaxEvents /\ events' # <<>>
      BY <1>5, <2>1 DEF mb_initialise_wifi
    <2>3. QED
      BY <1>5, <2>2 DEF mb_initialise_wifi, Events
  <1>6. CASE esp_initialize
    BY <1>6 DEF esp_initialize
  <1>7. ASSUME NEW on \in BOOLEAN, esp_active(on)
        PROVE  WifiInv'
    BY <1>1, <1>7, EventAdded DEF esp_active, Usable, Room, Leave, Events
  <1>8. CASE esp_connect
    BY <1>8 DEF esp_connect, Usable, esp_wifi_connect
  <1>9. CASE esp_connect_flag
    BY <1>9 DEF esp_connect_flag
  <1>10. CASE esp_disconnect
    BY <1>10 DEF esp_disconnect, Usable
  <1>11. CASE esp_disconnect_driver
    BY <1>1, <1>11, EventAdded DEF esp_disconnect_driver, Leave, Room, Events
  <1>12. CASE UNCHANGED wifiVars
    BY <1>12 DEF wifiVars
  <1>13. QED
    BY <1>2, <1>3, <1>4, <1>5, <1>6, <1>7, <1>8, <1>9, <1>10, <1>11, <1>12
    DEF WifiNext, MpTask

\* The state of the station, the driver and the event queue stays well typed.
THEOREM WifiTypeCorrect == WifiSpec => []WifiTypeOK
  <1>1. WifiSpec => []WifiInv
    BY WifiInvInit, WifiInvNext, PTL DEF WifiSpec
  <1>2. QED
    BY <1>1, PTL DEF WifiInv

\* Once esp_disconnect has returned, no late event brings the station back.
THEOREM WifiStaysDisconnected == WifiSpec => []StaysDisconnected
  <1>1. WifiSpec => []WifiInv
    BY WifiInvInit, WifiInvNext, PTL DEF WifiSpec
  <1>2. QED
    BY <1>1, PTL DEF WifiInv

\* A station that is wanted is connected, trying, or about to be told of its loss.
THEOREM WifiReassociates == WifiSpec => []Reassociation
  <1>1. WifiSpec => []WifiInv
    BY WifiInvInit, WifiInvNext, PTL DEF WifiSpec
  <1>2. QED
    BY <1>1, PTL DEF WifiInv

-----------------------------------------------------------------------------
(* BleDevice *)

USE BleAssumption

BleEvents ==
    [evt : Requests \cup {"CONNECT", "DISCONNECT"},
     status : Statuses, client : Clients \cup {NoClient}]

\* What the stack has queued; the event of a connection names its client.
EventsTyped ==
    /\ queue \in Seq(BleEvents)
    /\ \A k \in 1 .. Len(queue) : queue[k].evt = "CONNECT" => queue[k].client \in Clients

\* The device advertises because of one chain of causes: the registration, its event,
\* the advertising data, their event, the start, the advertising itself, a link, and the
\* event of its end, which leads to the next start.
Chain == {"app", "adv_data", "DISCONNECT"}

Early == stage \notin {"registered", "failed"}

Asked == requests \cap {"app", "adv_data", "adv_start"}

Queued == \E k \in 1 .. Len(queue) : queue[k].evt \in Chain

\* There is one such chain, and the device is at one point of it.
OneCause ==
    /\ \A k, l \in 1 .. Len(queue) : queue[k].evt \in Chain /\ queue[l].evt \in Chain => k = l
    /\ \A a, b \in Asked : a = b
    /\ \A c, d \in links : c = d
    /\ Queued => Asked = {} /\ links = {} /\ ~advertising /\ ~Early
    /\ Asked # {} => links = {} /\ ~advertising /\ ~Early
    /\ links # {} => ~advertising /\ ~Early
    /\ advertising => ~Early

\* The event of a connection is about the link there is, or about one that has ended
\* since; a link without such an event is in conn_id.
ConnectedClient ==
    /\ \A k \in 1 .. Len(queue) : queue[k].evt = "CONNECT" =>
           \/ links = {queue[k].client}
           \/ \E l \in k + 1 .. Len(queue) : queue[l].evt = "DISCONNECT"
    /\ \A c \in links :
           conn_id = c \/ \E k \in 1 .. Len(queue) : queue[k].evt = "CONNECT"

BleInv == BleTypeOK /\ EventsTyped /\ OneCause /\ ConnectedClient

\* An event is queued.
LEMMA QueueAdded ==
    ASSUME EventsTyped, NEW e \in BleEvents, queue' = Append(queue, e),
           e.evt = "CONNECT" => e.client \in Clients
    PROVE  /\ EventsTyped'
           /\ Len(queue) \in Nat /\ Len(queue') = Len(queue) + 1
           /\ \A k \in 1 .. Len(queue) : queue'[k] = queue[k]
           /\ queue'[Len(queue) + 1] = e
  <1>1. queue \in Seq(BleEvents)
    BY DEF EventsTyped
  <1>2. /\ queue' \in Seq(BleEvents)
        /\ Len(queue) \in Nat /\ Len(queue') = Len(queue) + 1
        /\ \A k \in 1 .. Len(queue) : queue'[k] = queue[k]
        /\ queue'[Len(queue) + 1] = e
    BY <1>1, AppendProperties
  <1>3. QED
    BY <1>2 DEF EventsTyped

\* An event is handed over.
LEMMA QueueHanded ==
    ASSUME EventsTyped, queue # <<>>, queue' = Tail(queue)
    PROVE  /\ EventsTyped'
           /\ Len(queue) \in Nat \ {0} /\ Len(queue') = Len(queue) - 1
           /\ \A k \in 1 .. Len(queue) - 1 : queue'[k] = queue[k + 1]
           /\ Head(queue) = queue[1] /\ queue[1] \in BleEvents
  <1>1. queue \in Seq(BleEvents)
    BY DEF EventsTyped
  <1>2. Len(queue) \in Nat \ {0} /\ Head(queue) = queue[1] /\ queue[1] \in BleEvents
    BY <1>1
  <1>3. /\ queue' \in Seq(BleEvents) /\ Len(queue') = Len(queue) - 1
        /\ \A k \in 1 .. Len(queue) - 1 : queue'[k] = queue[k + 1]
    BY <1>1, HeadTailProperties
  <1>4. QED
    BY <1>2, <1>3 DEF EventsTyped

\* What the steps of the callbacks have in common: the rest of the queue is about what it
\* was about, and the event handed over was the cause if one of the chain was queued first.
LEMMA HandedCauses ==
    ASSUME BleInv, queue # <<>>, queue' = Tail(queue)
    PROVE  /\ \A k, l \in 1 .. Len(queue') :
                  queue'[k].evt \in Chain /\ queue'[l].evt \in Chain => k = l
           /\ Queued' => Queued /\ Head(queue).evt \notin Chain
           /\ Head(queue).evt \in Chain => Queued /\ ~Queued'
  <1>1. /\ Len(queue) \in Nat \ {0} /\ Len(queue') = Len(queue) - 1
        /\ \A k \in 1 .. Len(queue) - 1 : queue'[k] = queue[k + 1]
        /\ Head(queue) = queue[1]
    BY QueueHanded DEF BleInv
  <1>2. \A k, l \in 1 .. Len(queue) : queue[k].evt \in Chain /\ queue[l].evt \in Chain => k = l
    BY DEF BleInv, OneCause
  <1>3. \A k \in 1 .. Len(queue') : k + 1 \in 1 .. Len(queue) /\ k + 1 # 1 /\ queue'[k] = queue[k + 1]
    BY <1>1
  <1>4. 1 \in 1 .. Len(queue)
    BY <1>1
  <1>5. \A k, l \in 1 .. Len(queue') :
            queue'[k].evt \in Chain /\ queue'[l].evt \in Chain => k = l
    <2> SUFFICES ASSUME NEW k \in 1 .. Len(queue'), NEW l \in 1 .. Len(queue'),
                        queue'[k].evt \in Chain, queue'[l].evt \in Chain
                 PROVE  k = l
      OBVIOUS
    <2>1. k + 1 = l + 1
      BY <1>2, <1>3
    <2>2. QED
      BY <2>1
  <1>6. Queued' => Queued /\ Head(queue).evt \notin Chain
    BY <1>1, <1>2, <1>3, <1>4 DEF Queued
  <1>7. QED
    BY <1>1, <1>4, <1>5, <1>6 DEF Queued

\* The event of a connection stays about its link, or about one that has ended, when
\* another event is handed over.
LEMMA HandedConnects ==
    ASSUME BleInv, queue # <<>>, queue' = Tail(queue), links' = links,
           Head(queue).evt = "CONNECT" => conn_id' = Head(queue).client,
           Head(queue).evt # "CONNECT" => conn_id' = conn_id
    PROVE  ConnectedClient'
  <1>1. /\ Len(queue) \in Nat \ {0} /\ Len(queue') = Len(queue) - 1
        /\ \A k \in 1 .. Len(queue) - 1 : queue'[k] = queue[k + 1]
        /\ Head(queue) = queue[1]
    BY QueueHanded DEF BleInv
  <1>2. ASSUME NEW k \in 1 .. Len(queue'), queue'[k].evt = "CONNECT"
        PROVE  \/ links' = {queue'[k].client}
               \/ \E l \in k + 1 .. Len(queue') : queue'[l].evt = "DISCONNECT"
    <2>1. k + 1 \in 1 .. Len(queue) /\ queue[k + 1].evt = "CONNECT" /\ queue'[k] = queue[k + 1]
      BY <1>1, <1>2
    <2>2. CASE \E l \in k + 2 .. Len(queue) : queue[l].evt = "DISCONNECT"
      <3>1. PICK l \in k + 2 .. Len(queue) : queue[l].evt = "DISCONNECT"
        BY <2>2
      <3>2. l - 1 \in k + 1 .. Len(queue') /\ queue'[l - 1] = queue[l]
        BY <1>1, <3>1
      <3>3. QED
        BY <3>1, <3>2
    <2>3. CASE links = {queue[k + 1].client}
      BY <2>1, <2>3
    <2>4. k + 1 + 1 = k + 2
      BY <1>1
    <2>5. QED
      BY <2>1, <2>2, <2>3, <2>4 DEF BleInv, ConnectedClient
  <1>3. ASSUME NEW c \in links
        PROVE  conn_id' = c \/ \E k \in 1 .. Len(queue') : queue'[k].evt = "CONNECT"
    <2>1. ~Queued
      BY <1>3 DEF BleInv, OneCause
    <2>2. \A l \in 1 .. Len(queue) : queue[l].evt # "DISCONNECT"
      BY <2>1 DEF Queued, Chain
    <2>3. CASE queue[1].evt = "CONNECT"
      <3>1. \A l \in 1 + 1 .. Len(queue) : queue[l].evt # "DISCONNECT"
        BY <1>1, <2>2
      <3>2. links = {queue[1].client}
        BY <1>1, <2>3, <3>1 DEF BleInv, ConnectedClient
      <3>3. QED
        BY <1>1, <2>3, <3>2
    <2>4. CASE queue[1].evt # "CONNECT"
      <3>1. CASE conn_id = c
        BY <1>1, <2>4, <3>1
      <3>2. CASE \E k \in 1 .. Len(queue) : queue[k].evt = "CONNECT"
        <4>1. PICK k \in 1 .. Len(queue) : queue[k].evt = "CONNECT"
          BY <3>2
        <4>2. k - 1 \in 1 .. Len(queue') /\ queue'[k - 1] = queue[k]
          BY <1>1, <2>4, <4>1
        <4>3. QED
          BY <4>1, <4>2
      <3>3. QED
        BY <3>1, <3>2 DEF BleInv, ConnectedClient
    <2>5. QED
      BY <2>3, <2>4
  <1>4. QED
    BY <1>2, <1>3 DEF ConnectedClient

\* The Bluetooth stack is not yet started.
LEMMA BleInvInit == BleInit => BleInv
  <1> SUFFICES ASSUME BleInit
               PROVE  BleInv
    OBVIOUS
  <1>1. queue = <<>> /\ Len(queue) = 0 /\ queue \in Seq(BleEvents)
    BY DEF BleInit
  <1>2. BleTypeOK
    <2>1. Len(queue) <= MaxQueue
      BY <1>1, BleAssumption
    <2>2. stage \in DOMAIN NextStage
      BY DEF BleInit, NextStage
    <2>3. QED
      BY <2>1, <2>2, Zenon DEF BleInit, BleTypeOK
  <1>3. EventsTyped /\ ConnectedClient
    BY <1>1 DEF BleInit, EventsTyped, ConnectedClient
  <1>4. OneCause
    BY <1>1 DEF BleInit, OneCause, Queued, Asked, Early
  <1>5. QED
    BY <1>2, <1>3, <1>4 DEF BleInv

\* An event queued is a cause besides those there are.
LEMMA AddedCauses ==
    ASSUME BleInv, NEW e \in BleEvents, queue' = Append(queue, e),
           e.evt = "CONNECT" => e.client \in Clients,
           ~(Queued /\ e.evt \in Chain)
    PROVE  /\ \A k, l \in 1 .. Len(queue') :
                  queue'[k].evt \in Chain /\ queue'[l].evt \in Chain => k = l
           /\ Queued' <=> Queued \/ e.evt \in Chain
  <1>1. /\ Len(queue) \in Nat /\ Len(queue') = Len(queue) + 1
        /\ \A k \in 1 .. Len(queue) : queue'[k] = queue[k]
        /\ queue'[Len(queue) + 1] = e
    BY QueueAdded DEF BleInv
  <1>2. 1 .. Len(queue') = (1 .. Len(queue)) \cup {Len(queue) + 1}
    BY <1>1
  <1>3. Queued' <=> Queued \/ e.evt \in Chain
    BY <1>1, <1>2, Zenon DEF Queued
  <1>4. \A k, l \in 1 .. Len(queue) : queue[k].evt \in Chain /\ queue[l].evt \in Chain => k = l
    BY DEF BleInv, OneCause
  <1>5. QED
    BY <1>1, <1>2, <1>3, <1>4, Zenon DEF Queued

\* A call of the start-up.
LEMMA BleStarts ==
    ASSUME BleInv, mb_ble_device_init \/ Register
    PROVE  BleInv'
  <1>1. /\ Early /\ stage' \in DOMAIN NextStage \cup {"register", "registered", "failed"}
        /\ UNCHANGED <<queue, gatts_if, conn_id, services, advertising, links>>
        /\ requests' = requests \/ (requests' = {"app"} /\ stage' = "registered")
    <2>1. CASE Register
      BY <2>1 DEF Register, Early, profile, controller
    <2>2. CASE mb_ble_device_init
      <3>1. PICK s \in Statuses : stage' = IF s = "ok" THEN NextStage[stage] ELSE "failed"
        BY <2>2 DEF mb_ble_device_init
      <3>2. /\ stage \in {"controller_init", "controller_enable", "bluedroid_init", "bluedroid_enable"}
            /\ \A x \in DOMAIN NextStage : NextStage[x] \in DOMAIN NextStage \cup {"register"}
        BY <2>2 DEF mb_ble_device_init, NextStage
      <3>3. stage' \in DOMAIN NextStage \cup {"register", "registered", "failed"}
        BY <2>2, <3>1, <3>2, Zenon DEF mb_ble_device_init
      <3>4. Early
        BY <3>2, Zenon DEF Early
      <3>5. UNCHANGED <<queue, gatts_if, conn_id, services, advertising, links, requests>>
        BY <2>2 DEF mb_ble_device_init, profile, controller
      <3>6. QED
        BY <3>3, <3>4, <3>5, Zenon
    <2>3. QED
      BY <2>1, <2>2
  <1>2. /\ Asked = {} /\ links = {} /\ ~advertising /\ ~Queued
    BY <1>1 DEF BleInv, OneCause
  <1>3. BleTypeOK' /\ EventsTyped'
    BY <1>1 DEF BleInv, BleTypeOK, EventsTyped, Requests
  <1>4. \A a, b \in Asked' : a = b
    BY <1>1, <1>2 DEF Asked
  <1>5. Asked' # {} => ~Early'
    BY <1>1, <1>2 DEF Asked, Early
  <1>6. ~Queued'
    BY <1>1, <1>2 DEF Queued
  <1>7. OneCause'
    BY <1>1, <1>2, <1>4, <1>5, <1>6 DEF BleInv, OneCause
  <1>8. ConnectedClient'
    BY <1>1 DEF BleInv, ConnectedClient
  <1>9. QED
    BY <1>3, <1>7, <1>8 DEF BleInv

\* The stack answers.
LEMMA BleAnswers ==
    ASSUME BleInv, NEW r \in Requests, NEW s \in Statuses,
           Answer(r, s)
    PROVE  BleInv'
  <1> DEFINE e == [evt |-> r, status |-> s, client |-> NoClient]
  <1>1. /\ e \in BleEvents /\ e.evt = r /\ queue' = Append(queue, e) /\ e.evt # "CONNECT"
    BY DEF BleEvents, Answer, Requests, Services
  <1> HIDE DEF e
  <1>2. /\ r \in requests /\ requests' = requests \ {r} /\ Len(queue) < MaxQueue
        /\ advertising' = (advertising \/ (r = "adv_start" /\ s = "ok"))
        /\ services' \in SUBSET Services
        /\ UNCHANGED <<stage, gatts_if, conn_id, links>>
    BY DEF Answer, profile, BleInv, BleTypeOK
  <1>3. /\ EventsTyped' /\ Len(queue) \in Nat /\ Len(queue') = Len(queue) + 1
        /\ \A k \in 1 .. Len(queue) : queue'[k] = queue[k]
        /\ queue'[Len(queue) + 1] = e
    BY <1>1, QueueAdded DEF BleInv
  <1>4. BleTypeOK'
    <2>1. Len(queue') <= MaxQueue
      BY <1>2, <1>3
    <2>2. advertising' \in BOOLEAN
      BY <1>2, Zenon DEF BleInv, BleTypeOK
    <2>3. QED
      BY <1>2, <2>1, <2>2, Zenon DEF BleInv, BleTypeOK
  <1>5. Asked' = Asked \ {r}
    BY <1>2 DEF Asked
  <1>6. r \in Chain => r \in Asked
    BY <1>2 DEF Chain, Asked, Requests, Services
  <1>7. ~(Queued /\ e.evt \in Chain)
    BY <1>1, <1>6 DEF BleInv, OneCause
  <1>8. /\ \A k, l \in 1 .. Len(queue') :
                  queue'[k].evt \in Chain /\ queue'[l].evt \in Chain => k = l
        /\ Queued' <=> Queued \/ r \in Chain
    BY <1>1, <1>7, AddedCauses
  <1>9. Early' = Early
    BY <1>2 DEF Early
  <1>10. advertising' # advertising => r \in Asked
    BY <1>2 DEF Asked, BleInv, BleTypeOK
  <1>11. r \in Asked => Asked' = {}
    BY <1>5 DEF BleInv, OneCause
  <1>12. advertising' => r \notin Chain
    BY <1>2, <1>6 DEF Chain, BleInv, OneCause
  <1>13. OneCause'
    <2>1. CASE r \in Asked
      BY <1>2, <1>8, <1>9, <1>11, <1>12, <2>1 DEF BleInv, OneCause
    <2>2. CASE r \notin Asked
      <3>1. advertising' = advertising /\ Asked' = Asked /\ (Queued' <=> Queued)
        BY <1>5, <1>6, <1>8, <1>10, <2>2
      <3>2. QED
        BY <1>2, <1>8, <1>9, <3>1 DEF BleInv, OneCause
    <2>3. QED
      BY <2>1, <2>2
  <1>14. ConnectedClient'
    <2>1. ASSUME NEW k \in 1 .. Len(queue'), queue'[k].evt = "CONNECT"
          PROVE  \/ links' = {queue'[k].client}
                 \/ \E l \in k + 1 .. Len(queue') : queue'[l].evt = "DISCONNECT"
      <3>1. k \in 1 .. Len(queue) /\ queue[k].evt = "CONNECT" /\ queue'[k] = queue[k]
        BY <1>1, <1>3, <2>1
      <3>2. CASE \E l \in k + 1 .. Len(queue) : queue[l].evt = "DISCONNECT"
        <4>1. PICK l \in k + 1 .. Len(queue) : queue[l].evt = "DISCONNECT"
          BY <3>2
        <4>2. l \in 1 .. Len(queue) /\ l \in k + 1 .. Len(queue')
          BY <1>3, <3>1
        <4>3. QED
          BY <1>3, <4>1, <4>2
      <3>3. CASE links = {queue[k].client}
        BY <1>2, <3>1, <3>3
      <3>4. QED
        BY <3>1, <3>2, <3>3 DEF BleInv, ConnectedClient
    <2>2. ASSUME NEW c \in links
          PROVE  conn_id' = c \/ \E k \in 1 .. Len(queue') : queue'[k].evt = "CONNECT"
      <3>1. CASE conn_id = c
        BY <1>2, <3>1
      <3>2. CASE \E k \in 1 .. Len(queue) : queue[k].evt = "CONNECT"
        <4>1. PICK k \in 1 .. Len(queue) : queue[k].evt = "CONNECT"
          BY <3>2
        <4>2. k \in 1 .. Len(queue') /\ queue'[k] = queue[k]
          BY <1>3
        <4>3. QED
          BY <4>1, <4>2
      <3>3. QED
        BY <3>1, <3>2 DEF BleInv, ConnectedClient
    <2>3. QED
      BY <1>2, <2>1, <2>2 DEF ConnectedClient
  <1>15. QED
    BY <1>3, <1>4, <1>13, <1>14 DEF BleInv

\* A client connects.
LEMMA BleConnects ==
    ASSUME BleInv, NEW c \in Clients, Connect(c)
    PROVE  BleInv'
  <1> DEFINE e == [evt |-> "CONNECT", status |-> "ok", client |-> c]
  <1>1. /\ e \in BleEvents /\ e.evt = "CONNECT" /\ e.client = c /\ queue' = Append(queue, e)
    BY DEF BleEvents, Connect, Statuses
  <1> HIDE DEF e
  <1>2. /\ advertising /\ Len(queue) < MaxQueue /\ advertising' = FALSE
        /\ links' = links \cup {c}
        /\ UNCHANGED <<stage, requests, gatts_if, conn_id, services>>
    BY DEF Connect, profile, controller
  <1>3. /\ EventsTyped' /\ Len(queue) \in Nat /\ Len(queue') = Len(queue) + 1
        /\ \A k \in 1 .. Len(queue) : queue'[k] = queue[k]
        /\ queue'[Len(queue) + 1] = e
    BY <1>1, QueueAdded DEF BleInv
  <1>4. ~Queued /\ Asked = {} /\ links = {} /\ ~Early
    BY <1>2 DEF BleInv, OneCause
  <1>5. BleTypeOK'
    <2>1. Len(queue') <= MaxQueue
      BY <1>2, <1>3
    <2>2. QED
      BY <1>2, <2>1, Zenon DEF BleInv, BleTypeOK
  <1>6. e.evt \notin Chain
    BY <1>1 DEF Chain
  <1>7. /\ \A k, l \in 1 .. Len(queue') :
                  queue'[k].evt \in Chain /\ queue'[l].evt \in Chain => k = l
        /\ ~Queued'
    BY <1>1, <1>4, <1>6, AddedCauses
  <1>8. Asked' = {} /\ ~Early'
    BY <1>2, <1>4 DEF Asked, Early
  <1>9. OneCause'
    BY <1>2, <1>4, <1>7, <1>8 DEF OneCause
  <1>10. \A k \in 1 .. Len(queue) : queue[k].evt # "CONNECT"
    <2> SUFFICES ASSUME NEW k \in 1 .. Len(queue), queue[k].evt = "CONNECT"
                 PROVE  FALSE
      OBVIOUS
    <2>1. PICK l \in k + 1 .. Len(queue) : queue[l].evt = "DISCONNECT"
      BY <1>4 DEF BleInv, ConnectedClient
    <2>2. l \in 1 .. Len(queue)
      BY <1>3
    <2>3. QED
      BY <1>4, <2>1, <2>2 DEF Queued, Chain
  <1>11. ConnectedClient'
    BY <1>1, <1>2, <1>3, <1>4, <1>10 DEF ConnectedClient
  <1>12. QED
    BY <1>3, <1>5, <1>9, <1>11 DEF BleInv

\* A link ends.
LEMMA BleDisconnects ==
    ASSUME BleInv, NEW c \in Clients, Disconnect(c)
    PROVE  BleInv'
  <1> DEFINE e == [evt |-> "DISCONNECT", status |-> "ok", client |-> c]
  <1>1. /\ e \in BleEvents /\ e.evt = "DISCONNECT" /\ queue' = Append(queue, e)
    BY DEF BleEvents, Disconnect, Statuses
  <1> HIDE DEF e
  <1>2. /\ c \in links /\ Len(queue) < MaxQueue /\ links' = links \ {c}
        /\ UNCHANGED <<stage, requests, gatts_if, conn_id, services, advertising>>
    BY DEF Disconnect, profile, controller
  <1>3. /\ EventsTyped' /\ Len(queue) \in Nat /\ Len(queue') = Len(queue) + 1
        /\ \A k \in 1 .. Len(queue) : queue'[k] = queue[k]
        /\ queue'[Len(queue) + 1] = e
    BY <1>1, QueueAdded DEF BleInv
  <1>4. ~Queued /\ Asked = {} /\ links' = {} /\ ~Early /\ ~advertising
    BY <1>2 DEF BleInv, OneCause
  <1>5. BleTypeOK'
    <2>1. Len(queue') <= MaxQueue
      BY <1>2, <1>3
    <2>2. QED
      BY <1>2, <2>1, Zenon DEF BleInv, BleTypeOK
  <1>6. /\ \A k, l \in 1 .. Len(queue') :
                  queue'[k].evt \in Chain /\ queue'[l].evt \in Chain => k = l
    BY <1>1, <1>4, AddedCauses
  <1>7. Asked' = {} /\ ~Early'
    BY <1>2, <1>4 DEF Asked, Early
  <1>8. OneCause'
    BY <1>2, <1>4, <1>6, <1>7 DEF OneCause
  <1>9. ASSUME NEW k \in 1 .. Len(queue'), queue'[k].evt = "CONNECT"
        PROVE  \E l \in k + 1 .. Len(queue') : queue'[l].evt = "DISCONNECT"
    <2>1. Len(queue) + 1 \in k + 1 .. Len(queue')
      BY <1>1, <1>3, <1>9
    <2>2. QED
      BY <1>1, <1>3, <2>1
  <1>10. ConnectedClient'
    BY <1>4, <1>9 DEF ConnectedClient
  <1>11. QED
    BY <1>3, <1>5, <1>8, <1>10 DEF BleInv

\* A callback takes an event and makes the request that event leads to.
LEMMA BleHandles ==
    ASSUME BleInv, Handler
    PROVE  BleInv'
  <1>1. /\ queue # <<>> /\ queue' = Tail(queue)
        /\ UNCHANGED <<stage, advertising, links>>
        /\ Head(queue).evt = "CONNECT" => conn_id' = Head(queue).client
        /\ Head(queue).evt # "CONNECT" => conn_id' = conn_id
    BY DEF Handler, OnRegister, OnAdvData, OnAdvStart, OnAttrTab, OnStart, OnConnect,
           OnDisconnect, Event, Handled, profile, controller, Services
  <1>2. /\ gatts_if' = gatts_if \/ gatts_if' = TRUE
        /\ services' = services
        /\ requests' \subseteq Requests
    BY DEF Handler, OnRegister, OnAdvData, OnAdvStart, OnAttrTab, OnStart, OnConnect,
           OnDisconnect, Event, Handled, profile, controller, Requests, BleInv, BleTypeOK
  <1>3. \/ Asked' = Asked
        \/ Head(queue).evt \in Chain /\ \E a \in {"adv_data", "adv_start"} : Asked' = Asked \cup {a}
    BY DEF Handler, OnRegister, OnAdvData, OnAdvStart, OnAttrTab, OnStart, OnConnect,
           OnDisconnect, Event, profile, Asked, Chain, Services
  <1>4. /\ EventsTyped' /\ Len(queue) \in Nat \ {0} /\ Len(queue') = Len(queue) - 1
        /\ \A k \in 1 .. Len(queue) - 1 : queue'[k] = queue[k + 1]
        /\ Head(queue) = queue[1]
    BY <1>1, QueueHanded DEF BleInv
  <1>5. BleTypeOK'
    <2>1. Len(queue') <= MaxQueue
      BY <1>4 DEF BleInv, BleTypeOK
    <2>2. conn_id' \in Clients \cup {NoClient}
      <3>1. 1 \in 1 .. Len(queue)
        BY <1>4
      <3>2. QED
        BY <1>1, <1>4, <3>1 DEF BleInv, BleTypeOK, EventsTyped
    <2>3. gatts_if' \in BOOLEAN /\ services' \in SUBSET Services
      BY <1>2, Zenon DEF BleInv, BleTypeOK
    <2>4. QED
      BY <1>1, <1>2, <2>1, <2>2, <2>3, Zenon DEF BleInv, BleTypeOK
  <1>6. /\ \A k, l \in 1 .. Len(queue') :
                  queue'[k].evt \in Chain /\ queue'[l].evt \in Chain => k = l
        /\ Queued' => Queued /\ Head(queue).evt \notin Chain
        /\ Head(queue).evt \in Chain => Queued /\ ~Queued'
    BY <1>1, HandedCauses
  <1>7. Early' = Early
    BY <1>1 DEF Early
  <1>8. OneCause'
    <2>1. CASE Asked' = Asked
      BY <1>1, <1>6, <1>7, <2>1 DEF BleInv, OneCause
    <2>2. CASE Head(queue).evt \in Chain /\ \E a \in {"adv_data", "adv_start"} : Asked' = Asked \cup {a}
      <3>1. Queued /\ ~Queued' /\ Asked = {} /\ links' = {} /\ ~advertising' /\ ~Early'
        BY <1>1, <1>6, <1>7, <2>2 DEF BleInv, OneCause
      <3>2. PICK a \in {"adv_data", "adv_start"} : Asked' = {a}
        BY <2>2, <3>1
      <3>3. QED
        BY <1>6, <3>1, <3>2 DEF OneCause
    <2>3. QED
      BY <1>3, <2>1, <2>2
  <1>9. ConnectedClient'
    BY <1>1, HandedConnects
  <1>10. QED
    BY <1>4, <1>5, <1>8, <1>9 DEF BleInv

\* Every call, event and step of the controller keeps the chain of causes.
LEMMA BleInvNext == BleInv /\ [BleNext]_bleVars => BleInv'
  <1> SUFFICES ASSUME BleInv, [BleNext]_bleVars
               PROVE  BleInv'
    OBVIOUS
  <1>1. CASE mb_ble_device_init \/ Register
    BY <1>1, BleStarts
  <1>2. CASE Handler
    BY <1>2, BleHandles
  <1>3. CASE Stack
    BY <1>3, BleAnswers DEF Stack
  <1>4. CASE \E c \in Clients : Connect(c) \/ Disconnect(c)
    BY <1>4, BleConnects, BleDisconnects
  <1>5. CASE UNCHANGED bleVars
    <2>1. /\ UNCHANGED <<stage, requests, queue, conn_id, links, advertising, gatts_if, services>>
          /\ Asked' = Asked /\ Early' = Early /\ (Queued' <=> Queued)
      BY <1>5 DEF bleVars, profile, controller, Asked, Early, Queued
    <2>2. BleTypeOK' /\ EventsTyped'
      BY <2>1 DEF BleInv, BleTypeOK, EventsTyped
    <2>3. OneCause' /\ ConnectedClient'
      BY <2>1 DEF BleInv, OneCause, ConnectedClient
    <2>4. QED
      BY <2>2, <2>3 DEF BleInv
  <1>6. QED
    BY <1>1, <1>2, <1>3, <1>4, <1>5 DEF BleNext

\* The profile, the requests and the queue stay of their types, and the queue within its
\* bound.
THEOREM BleTypeCorrect == BleSpec => []BleTypeOK
  <1>1. BleSpec => []BleInv
    BY BleInvInit, BleInvNext, PTL DEF BleSpec
  <1>2. QED
    BY <1>1, PTL DEF BleInv

\* However many clients there are and however late their events are handed over, there is
\* one link, and its client is in conn_id when no event is outstanding.
THEOREM BleOneLink == BleSpec => []OneLink
  <1>1. BleSpec => []BleInv
    BY BleInvInit, BleInvNext, PTL DEF BleSpec
  <1>2. BleInv => OneLink
    <2> SUFFICES ASSUME BleInv
                 PROVE  OneLink
      OBVIOUS
    <2>1. links # {} => ~advertising /\ Asked = {}
      BY DEF BleInv, OneCause
    <2>2. "adv_start" \in requests => "adv_start" \in Asked
      BY DEF Asked
    <2>3. ASSUME queue = <<>>, NEW c \in links
          PROVE  conn_id = c
      <3>1. 1 .. Len(queue) = {}
        BY <2>3
      <3>2. QED
        BY <3>1 DEF BleInv, ConnectedClient
    <2>4. QED
      BY <2>1, <2>2, <2>3 DEF OneLink
  <1>3. QED
    BY <1>1, <1>2, PTL

-----------------------------------------------------------------------------
(* SocketRetry *)

USE SocketAssumption

\* While a call runs, what it has counted is what lwIP moved, and its counter times the
\* poll time is the time that passed: for a receiving call since the last byte, for a
\* sending one that has not handed over everything since it began.
ReceiveCount ==
    op \in Receives /\ retries # UINT_MAX => i <= retries + 1 /\ elapsed = i * PollTime

SendCount ==
    op \in {"send", "sendall", "sendto"} /\ timeout # Forever /\ done < want =>
        i <= retries /\ elapsed = i * PollTime

CallCounted ==
    result = "running" =>
        /\ want \in Lengths
        /\ op # "accept" => done <= want
        /\ op \in Sends => done = moved
        /\ op = "sendto" => done = 0
        /\ ReceiveCount /\ SendCount

\* A receiving call ended without what it waited for.
GaveUp ==
    \/ result = "ETIMEDOUT"
    \/ op = "read" /\ result = "ok" /\ done < want /\ ~eof

\* What holds of a call's outcome, with all receiving calls alike.
OutcomeInv ==
    /\ op \in Receives /\ GaveUp => timeout # Forever /\ elapsed \in timeout .. timeout + Poll
    /\ op \in Sends /\ result = "ETIMEDOUT" /\ timeout # Forever =>
           retries = 0 \/ want = 0 \/ elapsed + Poll > timeout
    /\ op \in Sends /\ result = "ok" => done = moved /\ moved <= want
    /\ op = "sendall" /\ result = "ok" => moved = want

SocketInv ==
    /\ SocketTypeOK /\ retries = Retries(timeout)
    /\ CallCounted /\ OutcomeInv

\* The counters have Width bits.
LEMMA CounterSize == 2 ^ Width \in Nat \ {0} /\ UINT_MAX \in Nat /\ UINT_MAX + 1 = 2 ^ Width
  <1>1. IsFiniteSet(1 .. Width) /\ Cardinality(1 .. Width) = Width
    BY FS_Interval
  <1>2. IsFiniteSet(SUBSET (1 .. Width)) /\ Cardinality(SUBSET (1 .. Width)) = 2 ^ Width
    BY <1>1, FS_SUBSET
  <1>3. SUBSET (1 .. Width) # {}
    OBVIOUS
  <1>4. 2 ^ Width \in Nat \ {0}
    BY <1>2, <1>3, FS_CardinalityType, FS_EmptySet
  <1> DEFINE w == 2 ^ Width
  <1> HIDE DEF w
  <1>5. w \in Nat \ {0} /\ UINT_MAX = w - 1
    BY <1>4 DEF w, UINT_MAX
  <1>6. QED
    BY <1>5 DEF w

\* A timeout is a number of whole polls and less than one more.
LEMMA WholePolls ==
    ASSUME NEW t \in Nat, NEW p \in Nat \ {0}
    PROVE  t \div p \in Nat /\ (t \div p) * p <= t /\ t < (t \div p) * p + p
  <1>1. t \div p \in Nat
    OBVIOUS
  <1>2. (t \div p) * p <= t
    OBVIOUS
  <1>3. t < (t \div p) * p + p
    OBVIOUS
  <1>4. QED
    BY <1>1, <1>2, <1>3

\* One more poll.
LEMMA OneMorePoll ==
    ASSUME NEW k \in Nat, NEW p \in Nat
    PROVE  (k + 1) * p = k * p + p /\ k * p \in Nat /\ 0 * p = 0
  OBVIOUS

\* More polls take more time.
LEMMA MorePolls ==
    ASSUME NEW k \in Nat, NEW l \in Nat, NEW p \in Nat, k <= l
    PROVE  k * p <= l * p
  OBVIOUS

\* What _socket_settimeout keeps of a timeout: as many retries as whole polls fit into it.
LEMMA RetriesOf ==
    ASSUME NEW t \in Timeouts \cup {Forever}
    PROVE  /\ Retries(t) \in 0 .. UINT_MAX
           /\ t = Forever => Retries(t) = UINT_MAX
           /\ t # Forever => /\ t \in Nat
                             /\ Retries(t) * Poll <= t
                             /\ t < Retries(t) * Poll + Poll
                             /\ t = 0 => Retries(t) = 0
  <1>1. CASE t = Forever
    BY <1>1, CounterSize DEF Retries
  <1>2. CASE t # Forever
    <2> DEFINE q == t \div Poll
    <2>1. t \in Timeouts /\ t \in Nat
      BY <1>2
    <2>2. q \in Nat /\ q * Poll <= t /\ t < q * Poll + Poll
      BY <2>1, WholePolls
    <2>3. t = 0 => q = 0
      <3> SUFFICES ASSUME t = 0 PROVE 0 \div Poll = 0
        OBVIOUS
      <3> QED OBVIOUS
    <2>4. q < UINT_MAX + 1
      BY <2>1, CounterSize
    <2>5. Retries(t) = q % (UINT_MAX + 1)
      BY <1>2 DEF Retries
    <2> HIDE DEF q
    <2>6. q % (UINT_MAX + 1) = q /\ q \in 0 .. UINT_MAX
      BY <2>2, <2>4, CounterSize
    <2>7. QED
      BY <1>2, <2>1, <2>2, <2>3, <2>5, <2>6
  <1>3. QED
    BY <1>1, <1>2

\* A call that does not run and was neither answered nor timed out claims nothing.
LEMMA NothingClaimed ==
    ASSUME SocketTypeOK', retries' = Retries(timeout'),
           result' \in {"none", "KeyboardInterrupt", "error"}
    PROVE  SocketInv'
  BY DEF SocketInv, CallCounted, OutcomeInv, GaveUp

\* Nor does a running call claim anything, but it counts.
LEMMA StillCounting ==
    ASSUME SocketTypeOK', retries' = Retries(timeout'), result' = "running", CallCounted'
    PROVE  SocketInv'
  BY DEF SocketInv, OutcomeInv, GaveUp

\* After a try that had to wait, the time that passed is one poll longer.
LEMMA Waits ==
    ASSUME SocketInv, Wait
    PROVE  /\ elapsed' \in 0 .. MaxElapsed
           /\ timeout # Forever /\ i <= retries /\ elapsed = i * PollTime =>
                  elapsed' = (i + 1) * PollTime
  <1>1. /\ timeout \in Timeouts \cup {Forever} /\ elapsed \in 0 .. MaxElapsed
        /\ i \in Nat /\ retries = Retries(timeout) /\ retries \in Nat
    BY CounterSize DEF SocketInv, SocketTypeOK
  <1>2. PollTime \in Nat /\ PollTime <= Poll
    BY DEF PollTime
  <1>3. elapsed' \in 0 .. MaxElapsed
    BY <1>1, <1>2 DEF Wait, Least
  <1>4. ASSUME timeout # Forever, i <= retries, elapsed = i * PollTime
        PROVE  elapsed' = (i + 1) * PollTime
    <2>1. (i + 1) * PollTime = i * PollTime + PollTime /\ i * PollTime \in Nat
      BY <1>1, <1>2, OneMorePoll
    <2>2. i * Poll <= retries * Poll /\ i * Poll \in Nat /\ retries * Poll \in Nat
      BY <1>1, <1>4, MorePolls, OneMorePoll
    <2>3. retries * Poll <= timeout /\ timeout \in Timeouts /\ timeout \in Nat
      BY <1>1, <1>4, RetriesOf
    <2>4. i * PollTime <= i * Poll
      <3>1. CASE timeout = 0
        BY <1>1, <2>2, <3>1 DEF PollTime
      <3>2. CASE timeout # 0
        BY <2>2, <3>2 DEF PollTime
      <3>3. QED
        BY <3>1, <3>2
    <2> DEFINE now == i * PollTime
               all == retries * Poll
               part == i * Poll
    <2>5. now \in Nat /\ now <= part /\ part <= all /\ all <= timeout /\ part \in Nat /\ all \in Nat
      BY <2>1, <2>2, <2>3, <2>4
    <2>6. timeout + Poll <= MaxElapsed
      BY <2>3
    <2>7. elapsed' = Least(now + PollTime, MaxElapsed) /\ (i + 1) * PollTime = now + PollTime
      BY <1>4, <2>1 DEF Wait
    <2> HIDE DEF now, all, part
    <2>8. now + PollTime <= MaxElapsed
      BY <1>2, <2>3, <2>5, <2>6
    <2>9. QED
      BY <1>2, <2>5, <2>7, <2>8 DEF Least
  <1>5. QED
    BY <1>3, <1>4

\* The look at the pending exception, and the loop's counter, which wraps around only
\* at its largest value.
LEMMA Counts ==
    ASSUME SocketInv, result = "running", NextTry
    PROVE  /\ i' \in 0 .. UINT_MAX /\ pending' \in BOOLEAN
           /\ \/ result' = "KeyboardInterrupt"
              \/ result' = "running" /\ (i < UINT_MAX => i' = i + 1)
  <1>1. i \in 0 .. UINT_MAX /\ pending \in BOOLEAN /\ UINT_MAX \in Nat
    BY CounterSize DEF SocketInv, SocketTypeOK
  <1>2. CASE pending
    <2>1. pending' = FALSE /\ result' = "KeyboardInterrupt" /\ i' = i
      BY <1>2 DEF NextTry
    <2>2. QED
      BY <1>1, <2>1
  <1>3. CASE ~pending
    <2>1. i' = (i + 1) % (UINT_MAX + 1) /\ pending' = pending /\ result' = result
      BY <1>3 DEF NextTry
    <2>2. i' \in 0 .. UINT_MAX /\ (i < UINT_MAX => i' = i + 1)
      BY <1>1, <2>1
    <2>3. QED
      BY <1>1, <2>1, <2>2
  <1>4. QED
    BY <1>2, <1>3

\* A new socket with no call under way.
LEMMA SocketInvInit == SocketInit => SocketInv
  <1> SUFFICES ASSUME SocketInit
               PROVE  SocketInv
    OBVIOUS
  <1>1. Retries(Forever) = UINT_MAX /\ UINT_MAX \in Nat
    BY CounterSize DEF Retries
  <1>2. SocketTypeOK
    <2>1. i \in 0 .. UINT_MAX /\ retries \in 0 .. UINT_MAX /\ elapsed \in 0 .. MaxElapsed
          /\ avail \in 0 .. Capacity /\ room \in 0 .. Capacity /\ done \in Nat /\ moved \in Nat
      BY <1>1 DEF SocketInit
    <2>2. op \in Receives \cup Sends
      BY DEF SocketInit, Receives
    <2>3. QED
      BY <2>1, <2>2, Zenon DEF SocketInit, SocketTypeOK
  <1>3. QED
    BY <1>2 DEF SocketInit, SocketInv, CallCounted, OutcomeInv, GaveUp

\* The timeout is set and a call begins: the loop's counter and the time are zero.
LEMMA SocketBegins ==
    ASSUME SocketInv,
           \/ \E t \in Timeouts \cup {Forever} : settimeout(t)
           \/ \E o \in Receives \cup Sends, n \in Lengths : Call(o, n)
    PROVE  SocketInv'
  <1>0. UINT_MAX \in Nat
    BY CounterSize
  <1>1. ASSUME NEW t \in Timeouts \cup {Forever}, settimeout(t)
        PROVE  SocketInv'
    <2>1. /\ timeout' = t /\ retries' = Retries(t) /\ result' = "none"
          /\ UNCHANGED <<op, want, done, i, avail, eof, room, pending, moved, elapsed>>
      BY <1>1 DEF settimeout, call, env
    <2>2. retries' \in 0 .. UINT_MAX
      BY <2>1, RetriesOf
    <2>3. SocketTypeOK'
      BY <2>1, <2>2, Zenon DEF SocketInv, SocketTypeOK
    <2>4. QED
      BY <2>1, <2>3, NothingClaimed
  <1>2. ASSUME NEW o \in Receives \cup Sends, NEW n \in Lengths, Call(o, n)
        PROVE  SocketInv'
    <2>1. /\ op' = o /\ want' = n /\ done' = 0 /\ i' = 0 /\ moved' = 0 /\ elapsed' = 0
          /\ result' = "running"
          /\ UNCHANGED <<timeout, retries, avail, eof, room, pending>>
      BY <1>2 DEF Call, socket, env
    <2>2. i' \in 0 .. UINT_MAX /\ elapsed' \in 0 .. MaxElapsed /\ done' \in Nat /\ moved' \in Nat
      BY <1>0, <2>1
    <2>3. SocketTypeOK'
      BY <2>1, <2>2, Zenon DEF SocketInv, SocketTypeOK
    <2>4. 0 <= retries' /\ 0 <= retries' + 1
      <3>1. retries \in 0 .. UINT_MAX
        BY DEF SocketInv, SocketTypeOK
      <3>2. 0 <= retries /\ 0 <= retries + 1
        BY <1>0, <3>1
      <3>3. QED
        BY <2>1, <3>2
    <2>5. 0 = 0 * PollTime'
      <3>1. \A p \in Nat : 0 = 0 * p
        OBVIOUS
      <3>2. PollTime' \in Nat
        BY <2>3 DEF PollTime, SocketTypeOK
      <3>3. QED
        BY <3>1, <3>2, Zenon
    <2>6. CallCounted'
      <3>1. ReceiveCount' /\ SendCount'
        BY <2>1, <2>4, <2>5 DEF ReceiveCount, SendCount
      <3>2. QED
        BY <2>1, <3>1 DEF CallCounted
    <2>7. QED
      BY <2>1, <2>3, <2>6, StillCounting DEF SocketInv
  <1>3. QED
    BY <1>1, <1>2

\* A receiving call finds nothing and waits.
LEMMA SocketFindsNothing ==
    ASSUME SocketInv, TryEmpty
    PROVE  SocketInv'
  <1>1. /\ result = "running" /\ op \in Receives /\ CanTry /\ Wait /\ NextTry
        /\ UNCHANGED <<timeout, retries, op, want, done, avail, eof, room, moved>>
    BY DEF TryEmpty, socket, call, env
  <1>2. /\ i' \in 0 .. UINT_MAX /\ pending' \in BOOLEAN
        /\ \/ result' = "KeyboardInterrupt"
           \/ result' = "running" /\ (i < UINT_MAX => i' = i + 1)
    BY <1>1, Counts
  <1>3. elapsed' \in 0 .. MaxElapsed
    BY <1>1, Waits
  <1>4. SocketTypeOK' /\ retries' = Retries(timeout')
    BY <1>1, <1>2, <1>3, Zenon DEF SocketInv, SocketTypeOK
  <1>5. ASSUME result' = "running"
        PROVE  CallCounted'
    <2>1. ASSUME retries # UINT_MAX
          PROVE  i' <= retries' + 1 /\ elapsed' = i' * PollTime'
      <3>1. /\ UINT_MAX \in Nat /\ retries \in 0 .. UINT_MAX /\ i \in 0 .. UINT_MAX
            /\ timeout \in Timeouts \cup {Forever} /\ retries = Retries(timeout)
        BY CounterSize DEF SocketInv, SocketTypeOK
      <3>2. i <= retries
        BY <1>1 DEF CanTry
      <3>3. timeout # Forever
        BY <2>1, <3>1, RetriesOf
      <3>4. elapsed = i * PollTime
        BY <1>1, <2>1 DEF SocketInv, CallCounted, ReceiveCount
      <3>5. elapsed' = (i + 1) * PollTime
        BY <1>1, <3>2, <3>3, <3>4, Waits
      <3>6. i' = i + 1
        BY <1>2, <1>5, <2>1, <3>1, <3>2
      <3>7. PollTime' = PollTime
        BY <1>1 DEF PollTime
      <3>8. QED
        BY <1>1, <3>1, <3>2, <3>5, <3>6, <3>7
    <2>2. ReceiveCount'
      BY <1>1, <2>1 DEF ReceiveCount
    <2>3. SendCount' /\ (op' \in Sends => done' = moved') /\ op' # "sendto"
      BY <1>1 DEF SendCount, Receives, Sends
    <2>4. QED
      BY <1>1, <2>2, <2>3 DEF SocketInv, CallCounted
  <1>6. QED
    BY <1>2, <1>4, <1>5, NothingClaimed, StillCounting

\* A receiving call is answered.  It gets no byte only at the end of the stream.
LEMMA SocketReceives ==
    ASSUME SocketInv, TryReceive
    PROVE  SocketInv'
  <1> DEFINE n == Least(avail, IF op = "accept" THEN 1 ELSE want - done)
  <1>1. /\ result = "running" /\ op \in Receives /\ CanTry /\ Ready
        /\ avail' = avail - n /\ done' = done + n /\ moved' = moved + n
        /\ UNCHANGED <<timeout, retries, op, want, eof, room, pending>>
        /\ \/ op = "read" /\ n > 0 /\ i' = 0 /\ elapsed' = 0 /\ result' = "running"
           \/ ~(op = "read" /\ n > 0) /\ result' = "ok" /\ i' = i /\ elapsed' = elapsed
    BY DEF TryReceive, socket, call
  <1>2. /\ avail \in 0 .. Capacity /\ done \in Nat /\ moved \in Nat /\ want \in Nat
        /\ i \in 0 .. UINT_MAX /\ elapsed \in 0 .. MaxElapsed /\ UINT_MAX \in Nat
        /\ want \in Lengths /\ (op # "accept" => done <= want) /\ retries \in Nat
    BY <1>1, CounterSize DEF SocketInv, SocketTypeOK, CallCounted
  <1>3. /\ n \in Nat /\ n <= avail
        /\ op # "accept" => n <= want - done /\ (n = avail \/ n = want - done)
    BY <1>2 DEF Least
  <1> HIDE DEF n
  <1>4. /\ avail' \in 0 .. Capacity /\ done' \in Nat /\ moved' \in Nat
        /\ i' \in 0 .. UINT_MAX /\ elapsed' \in 0 .. MaxElapsed
        /\ op # "accept" => done' <= want
    BY <1>1, <1>2, <1>3
  <1>5. SocketTypeOK' /\ retries' = Retries(timeout')
    BY <1>1, <1>4, Zenon DEF SocketInv, SocketTypeOK
  <1>6. op \notin Sends /\ op \notin {"send", "sendall", "sendto"}
    BY <1>1 DEF Receives, Sends
  <1>7. CASE result' = "running"
    <2>1. i' = 0 /\ elapsed' = 0
      BY <1>1, <1>7
    <2>2. PollTime' \in Nat
      BY <1>5 DEF PollTime, SocketTypeOK
    <2>3. i' <= retries' + 1 /\ elapsed' = i' * PollTime'
      <3>1. \A p \in Nat : 0 = 0 * p
        OBVIOUS
      <3>2. 0 = 0 * PollTime'
        BY <2>2, <3>1, Zenon
      <3>3. QED
        BY <1>1, <1>2, <2>1, <3>2
    <2>4. ReceiveCount' /\ SendCount'
      BY <1>1, <1>6, <2>3 DEF ReceiveCount, SendCount
    <2>5. CallCounted'
      BY <1>1, <1>2, <1>4, <1>6, <2>4 DEF CallCounted, Sends
    <2>6. QED
      BY <1>5, <1>7, <2>5, StillCounting
  <1>8. CASE result' = "ok"
    <2>1. op = "read" => n = 0
      BY <1>1, <1>3, <1>8
    <2>2. op = "read" => done < want
      BY <1>1 DEF CanTry
    <2>3. op = "read" => avail = 0
      BY <1>2, <1>3, <2>1, <2>2
    <2>4. op = "read" => eof'
      BY <1>1, <1>2, <2>3 DEF Ready, SocketInv, SocketTypeOK
    <2>5. ~GaveUp'
      BY <1>1, <1>8, <2>4 DEF GaveUp
    <2>6. OutcomeInv'
      BY <1>1, <1>6, <2>5 DEF OutcomeInv, Receives
    <2>7. QED
      BY <1>5, <1>8, <2>6 DEF SocketInv, CallCounted
  <1>9. QED
    BY <1>1, <1>7, <1>8

\* The part of the sending calls: what they count is what lwIP took, never more than
\* there is to send.
LEMMA SocketTook ==
    ASSUME SocketInv, result = "running", op \in Sends, NEW n \in Nat,
           n = Least(room, want - done),
           room' = room - n, done' = done + n, moved' = moved + n
    PROVE  /\ room' \in 0 .. Capacity /\ done' \in Nat /\ moved' \in Nat
           /\ done' <= want /\ done' = moved'
           /\ want \in Lengths /\ done <= want /\ done \in Nat /\ want \in Nat /\ room \in Nat
  <1>1. /\ room \in 0 .. Capacity /\ done \in Nat /\ moved \in Nat /\ want \in Nat
        /\ want \in Lengths /\ done <= want /\ done = moved
    BY DEF SocketInv, SocketTypeOK, CallCounted, Sends
  <1>2. n <= room /\ n <= want - done
    BY <1>1 DEF Least
  <1>3. room' \in 0 .. Capacity
    BY <1>1, <1>2
  <1>4. done' \in Nat /\ done' <= want
    BY <1>1, <1>2, SMTT(30)
  <1>5. QED
    BY <1>1, <1>3, <1>4

\* send and sendall.
LEMMA SocketSends ==
    ASSUME SocketInv, TrySend
    PROVE  SocketInv'
  <1> DEFINE n == Least(room, want - done)
  <1>1. /\ result = "running" /\ op \in {"send", "sendall"} /\ CanTry /\ NextTry
        /\ room' = room - n /\ done' = done + n /\ moved' = moved + n
        /\ IF n < want - done THEN Wait ELSE UNCHANGED elapsed
        /\ UNCHANGED <<timeout, retries, op, want, avail, eof>>
    BY DEF TrySend, socket, call
  <1>2. op \in Sends /\ op \notin Receives /\ op # "sendto" /\ op # "accept"
    BY <1>1 DEF Sends, Receives
  <1>3. n \in Nat
    BY <1>1, <1>2 DEF SocketInv, SocketTypeOK, CallCounted, Least
  <1> HIDE DEF n
  <1>4. /\ room' \in 0 .. Capacity /\ done' \in Nat /\ moved' \in Nat
        /\ done' <= want /\ done' = moved'
        /\ want \in Lengths /\ done <= want /\ done \in Nat /\ want \in Nat
    BY <1>1, <1>2, <1>3, SocketTook DEF n
  <1>5. /\ i' \in 0 .. UINT_MAX /\ pending' \in BOOLEAN
        /\ \/ result' = "KeyboardInterrupt"
           \/ result' = "running" /\ (i < UINT_MAX => i' = i + 1)
    BY <1>1, Counts
  <1>6. elapsed' \in 0 .. MaxElapsed
    <2>1. CASE n < want - done
      BY <1>1, <2>1, Waits
    <2>2. CASE ~(n < want - done)
      BY <1>1, <2>2 DEF SocketInv, SocketTypeOK
    <2>3. QED
      BY <2>1, <2>2
  <1>7. SocketTypeOK' /\ retries' = Retries(timeout')
    <2>1. result' \in {"none", "running", "ok", "ETIMEDOUT", "KeyboardInterrupt", "error"}
      BY <1>5
    <2>2. QED
      BY <1>1, <1>4, <1>5, <1>6, <2>1, Zenon DEF SocketInv, SocketTypeOK
  <1>8. ASSUME result' = "running"
        PROVE  CallCounted'
    <2>1. ASSUME timeout # Forever, done' < want
          PROVE  i' <= retries /\ elapsed' = i' * PollTime'
      <3>1. UINT_MAX \in Nat /\ retries \in 0 .. UINT_MAX /\ i \in 0 .. UINT_MAX
        BY CounterSize DEF SocketInv, SocketTypeOK
      <3>2. i < retries
        BY <1>1, <1>2 DEF CanTry
      <3>3. done < want /\ n < want - done
        BY <1>1, <1>3, <1>4, <2>1
      <3>4. elapsed = i * PollTime
        BY <1>1, <2>1, <3>3 DEF SocketInv, CallCounted, SendCount
      <3>5. Wait
        BY <1>1, <3>3
      <3>6. elapsed' = (i + 1) * PollTime
        BY <2>1, <3>1, <3>2, <3>4, <3>5, Waits
      <3>7. i' = i + 1
        BY <1>5, <1>8, <3>1, <3>2
      <3>8. PollTime' = PollTime
        BY <1>1 DEF PollTime
      <3>9. QED
        BY <3>1, <3>2, <3>6, <3>7, <3>8
    <2>2. ReceiveCount' /\ SendCount'
      BY <1>1, <1>2, <2>1 DEF ReceiveCount, SendCount
    <2>3. QED
      BY <1>1, <1>2, <1>4, <2>2 DEF CallCounted
  <1>9. QED
    BY <1>5, <1>7, <1>8, NothingClaimed, StillCounting

\* sendto.
LEMMA SocketSendsTo ==
    ASSUME SocketInv, TrySendto
    PROVE  SocketInv'
  <1>1. /\ result = "running" /\ op = "sendto" /\ CanTry
        /\ UNCHANGED <<timeout, retries, op, want, avail, eof>>
    BY DEF TrySendto, socket, call
  <1>2. op \in Sends /\ op \notin Receives
    BY <1>1 DEF Sends, Receives
  <1>3. /\ room \in 0 .. Capacity /\ want \in Nat /\ want \in Lengths
        /\ done = 0 /\ moved = 0
    BY <1>1, <1>2 DEF SocketInv, SocketTypeOK, CallCounted
  <1>4. CASE want \in 1 .. room
    <2>1. /\ room' = room - want /\ done' = want /\ moved' = want /\ result' = "ok"
          /\ UNCHANGED <<i, pending, elapsed>>
      BY <1>4 DEF TrySendto
    <2>2. room' \in 0 .. Capacity /\ done' \in Nat /\ moved' \in Nat
      BY <1>3, <1>4, <2>1
    <2>3. SocketTypeOK' /\ retries' = Retries(timeout')
      BY <1>1, <2>1, <2>2, Zenon DEF SocketInv, SocketTypeOK
    <2>4. moved' <= want' /\ done' = moved' /\ op' = "sendto"
      BY <1>1, <1>3, <2>1
    <2>5. OutcomeInv'
      BY <1>1, <1>2, <2>1, <2>4 DEF OutcomeInv
    <2>6. QED
      BY <2>1, <2>3, <2>5 DEF SocketInv, CallCounted
  <1>5. CASE want \notin 1 .. room
    <2>1. /\ IF want > room THEN Wait ELSE UNCHANGED elapsed
          /\ NextTry /\ UNCHANGED <<room, done, moved>>
      BY <1>5 DEF TrySendto
    <2>2. want > 0 => want > room
      BY <1>3, <1>5
    <2>3. want > 0 => Wait
      BY <2>1, <2>2
    <2>4. /\ i' \in 0 .. UINT_MAX /\ pending' \in BOOLEAN
          /\ \/ result' = "KeyboardInterrupt"
             \/ result' = "running" /\ (i < UINT_MAX => i' = i + 1)
      BY <1>1, <2>1, Counts
    <2>5. elapsed' \in 0 .. MaxElapsed
      <3>1. CASE want > room
        BY <2>1, <3>1, Waits
      <3>2. CASE ~(want > room)
        BY <2>1, <3>2 DEF SocketInv, SocketTypeOK
      <3>3. QED
        BY <3>1, <3>2
    <2>6. SocketTypeOK' /\ retries' = Retries(timeout')
      BY <1>1, <2>1, <2>4, <2>5, Zenon DEF SocketInv, SocketTypeOK
    <2>7. ASSUME result' = "running"
          PROVE  CallCounted'
      <3>1. ASSUME timeout # Forever, 0 < want
            PROVE  i' <= retries /\ elapsed' = i' * PollTime'
        <4>1. UINT_MAX \in Nat /\ retries \in 0 .. UINT_MAX /\ i \in 0 .. UINT_MAX
          BY CounterSize DEF SocketInv, SocketTypeOK
        <4>2. i < retries
          BY <1>1, <1>2 DEF CanTry
        <4>3. elapsed = i * PollTime
          BY <1>1, <1>3, <3>1 DEF SocketInv, CallCounted, SendCount
        <4>4. elapsed' = (i + 1) * PollTime
          BY <2>3, <3>1, <4>1, <4>2, <4>3, Waits
        <4>5. i' = i + 1
          BY <2>4, <2>7, <4>1, <4>2
        <4>6. PollTime' = PollTime
          BY <1>1 DEF PollTime
        <4>7. QED
          BY <4>1, <4>2, <4>4, <4>5, <4>6
      <3>2. ReceiveCount' /\ SendCount'
        BY <1>1, <1>2, <1>3, <2>1, <3>1 DEF ReceiveCount, SendCount
      <3>3. done' <= want' /\ done' = 0 /\ moved' = 0
        BY <1>1, <1>3, <2>1
      <3>4. QED
        BY <1>1, <1>3, <3>2, <3>3 DEF CallCounted
    <2>8. QED
      BY <2>4, <2>6, <2>7, NothingClaimed, StillCounting
  <1>6. QED
    BY <1>4, <1>5

\* write.
LEMMA SocketWrites ==
    ASSUME SocketInv, TryWrite
    PROVE  SocketInv'
  <1> DEFINE n == Least(room, want - done)
  <1>1. /\ result = "running" /\ op = "write" /\ CanTry
        /\ room' = room - n /\ done' = done + n /\ moved' = moved + n
        /\ IF n > 0 THEN i' = 0 /\ elapsed' = 0 /\ UNCHANGED <<pending, result>>
           ELSE Wait /\ NextTry
        /\ UNCHANGED <<timeout, retries, op, want, avail, eof>>
    BY DEF TryWrite, socket, call
  <1>2. op \in Sends /\ op \notin Receives /\ op \notin {"send", "sendall", "sendto", "accept"}
    BY <1>1 DEF Sends, Receives
  <1>3. n \in Nat
    BY <1>1, <1>2 DEF SocketInv, SocketTypeOK, CallCounted, Least
  <1> HIDE DEF n
  <1>4. /\ room' \in 0 .. Capacity /\ done' \in Nat /\ moved' \in Nat
        /\ done' <= want /\ done' = moved' /\ want \in Lengths
    BY <1>1, <1>2, <1>3, SocketTook DEF n
  <1>5. /\ i' \in 0 .. UINT_MAX /\ elapsed' \in 0 .. MaxElapsed /\ pending' \in BOOLEAN
        /\ result' \in {"running", "KeyboardInterrupt"}
    <2>1. CASE n > 0
      <3>1. i' \in 0 .. UINT_MAX /\ elapsed' \in 0 .. MaxElapsed
        BY <1>1, <2>1, CounterSize
      <3>2. pending' = pending /\ result' = "running"
        BY <1>1, <2>1
      <3>3. QED
        BY <3>1, <3>2 DEF SocketInv, SocketTypeOK
    <2>2. CASE ~(n > 0)
      BY <1>1, <2>2, Counts, Waits
    <2>3. QED
      BY <2>1, <2>2
  <1>6. SocketTypeOK' /\ retries' = Retries(timeout')
    <2>1. result' \in {"none", "running", "ok", "ETIMEDOUT", "KeyboardInterrupt", "error"}
      BY <1>5
    <2>2. QED
      BY <1>1, <1>4, <1>5, <2>1, Zenon DEF SocketInv, SocketTypeOK
  <1>7. CallCounted'
    BY <1>1, <1>2, <1>4 DEF CallCounted, ReceiveCount, SendCount
  <1>8. QED
    BY <1>5, <1>6, <1>7, NothingClaimed, StillCounting

\* The call's loop is left: by its count only when the timeout has passed.
LEMMA SocketFinishes ==
    ASSUME SocketInv, Finish
    PROVE  SocketInv'
  <1>1. /\ result = "running" /\ ~CanTry
        /\ result' = IF TimedOut THEN "ETIMEDOUT" ELSE "ok"
        /\ UNCHANGED <<timeout, retries, op, want, done, i, avail, eof, room, pending,
                       moved, elapsed>>
    BY DEF Finish, socket, call, env
  <1>2. SocketTypeOK' /\ retries' = Retries(timeout')
    <2>1. result' \in {"none", "running", "ok", "ETIMEDOUT", "KeyboardInterrupt", "error"}
      BY <1>1
    <2>2. QED
      BY <1>1, <2>1, Zenon DEF SocketInv, SocketTypeOK
  <1>3. /\ UINT_MAX \in Nat /\ retries \in 0 .. UINT_MAX /\ i \in 0 .. UINT_MAX
        /\ timeout \in Timeouts \cup {Forever} /\ retries = Retries(timeout)
        /\ done \in Nat /\ want \in Nat /\ want \in Lengths /\ moved \in Nat
        /\ op \in Receives \cup Sends
    BY <1>1, CounterSize DEF SocketInv, SocketTypeOK, CallCounted
  <1>4. PollTime \in Nat /\ PollTime <= Poll /\ (timeout = 0 => PollTime = 0)
        /\ (timeout # 0 => PollTime = Poll)
    BY DEF PollTime
  <1>5. timeout # Forever =>
            /\ timeout \in Nat /\ retries * Poll \in Nat /\ retries * PollTime \in Nat
            /\ retries * Poll <= timeout /\ timeout < retries * Poll + Poll
            /\ (retries + 1) * Poll = retries * Poll + Poll
            /\ (retries + 1) * PollTime = retries * PollTime + PollTime
            /\ timeout = 0 => retries = 0
    <2> SUFFICES ASSUME timeout # Forever
                 PROVE  /\ timeout \in Nat /\ retries * Poll \in Nat /\ retries * PollTime \in Nat
                        /\ retries * Poll <= timeout /\ timeout < retries * Poll + Poll
                        /\ (retries + 1) * Poll = retries * Poll + Poll
                        /\ (retries + 1) * PollTime = retries * PollTime + PollTime
                        /\ timeout = 0 => retries = 0
      OBVIOUS
    <2>1. /\ timeout \in Nat /\ retries * Poll <= timeout /\ timeout < retries * Poll + Poll
          /\ timeout = 0 => retries = 0
      BY <1>3, RetriesOf
    <2>2. retries \in Nat
      BY <1>3
    <2>3. retries * Poll \in Nat /\ (retries + 1) * Poll = retries * Poll + Poll
      BY <2>2, OneMorePoll
    <2>4. /\ retries * PollTime \in Nat
          /\ (retries + 1) * PollTime = retries * PollTime + PollTime
      BY <1>4, <2>2, OneMorePoll
    <2>5. QED
      BY <2>1, <2>3, <2>4
  <1>6. ASSUME op \in Receives, GaveUp'
        PROVE  timeout # Forever /\ elapsed \in timeout .. timeout + Poll
    <2>1. op \notin {"send", "sendall", "write"}
      BY <1>6 DEF Receives
    <2>2. op = "read" => done < want
      <3> SUFFICES ASSUME op = "read" PROVE done < want
        OBVIOUS
      <3>1. ~TimedOut
        BY DEF TimedOut
      <3>2. result' = "ok"
        BY <1>1, <3>1
      <3>3. QED
        BY <1>1, <1>6, <3>2 DEF GaveUp
    <2>3. ~(i <= retries)
      BY <1>1, <1>6, <2>1, <2>2 DEF CanTry
    <2>4. retries # UINT_MAX
      BY <1>3, <2>3
    <2>5. timeout # Forever
      BY <1>3, <2>4, RetriesOf
    <2>6. i = retries + 1 /\ elapsed = i * PollTime
      BY <1>1, <1>3, <1>6, <2>3, <2>4 DEF SocketInv, CallCounted, ReceiveCount
    <2>7. CASE timeout = 0
      <3>1. elapsed = (retries + 1) * 0
        BY <1>4, <2>6, <2>7
      <3>2. elapsed = 0
        BY <1>3, <3>1
      <3>3. QED
        BY <2>5, <2>7, <3>2
    <2>8. CASE timeout # 0
      <3>1. elapsed = retries * Poll + Poll
        BY <1>4, <1>5, <2>5, <2>6, <2>8
      <3> DEFINE all == retries * Poll
      <3>2. all \in Nat /\ all <= timeout /\ timeout < all + Poll /\ elapsed = all + Poll
            /\ timeout \in Nat
        BY <1>5, <2>5, <3>1
      <3> HIDE DEF all
      <3>3. elapsed \in timeout .. timeout + Poll
        BY <3>2
      <3>4. QED
        BY <2>5, <3>3
    <2>9. QED
      BY <2>7, <2>8
  <1>7. ASSUME op \in Sends, result' = "ETIMEDOUT", timeout # Forever
        PROVE  want = 0 \/ elapsed + Poll > timeout
    <2> SUFFICES ASSUME want # 0
                 PROVE  elapsed + Poll > timeout
      OBVIOUS
    <2>1. TimedOut
      BY <1>1, <1>7
    <2>2. op \in {"send", "sendall", "sendto"} /\ op \notin Receives /\ done < want
      <3>1. op \in {"send", "sendall", "sendto"} /\ op \notin Receives
        BY <1>7, <2>1 DEF TimedOut, Sends, Receives
      <3>2. op = "sendto" => done = 0
        BY <1>1 DEF SocketInv, CallCounted
      <3>3. done = 0 => done < want
        BY <1>3
      <3>4. done = 0 \/ done < want
        BY <2>1, <3>1, <3>2 DEF TimedOut
      <3>5. QED
        BY <3>1, <3>3, <3>4
    <2>3. ~(i < retries)
      BY <1>1, <2>2 DEF CanTry
    <2>4. i <= retries /\ elapsed = i * PollTime
      BY <1>1, <1>7, <2>2 DEF SocketInv, CallCounted, SendCount
    <2>5. i = retries
      BY <1>3, <2>3, <2>4
    <2>6. CASE timeout = 0
      <3>1. elapsed = retries * 0
        BY <1>4, <2>4, <2>5, <2>6
      <3>2. elapsed = 0
        BY <1>3, <3>1
      <3>3. QED
        BY <2>6, <3>2
    <2>7. CASE timeout # 0
      <3>1. elapsed = retries * Poll
        BY <1>4, <2>4, <2>5, <2>7
      <3> DEFINE all == retries * Poll
      <3>2. all \in Nat /\ timeout < all + Poll /\ elapsed = all /\ timeout \in Nat
        BY <1>5, <1>7, <3>1
      <3> HIDE DEF all
      <3>3. QED
        BY <3>2
    <2>8. QED
      BY <2>6, <2>7
  <1>8. op \in Sends => done = moved /\ moved <= want
    BY <1>1 DEF SocketInv, CallCounted, Sends
  <1>9. op = "sendall" /\ result' = "ok" => moved = want
    <2> SUFFICES ASSUME op = "sendall", result' = "ok" PROVE moved = want
      OBVIOUS
    <2>1. ~TimedOut
      BY <1>1
    <2>2. ~(done < want)
      BY <2>1 DEF TimedOut
    <2>3. done = moved /\ moved <= want
      BY <1>8 DEF Sends
    <2>4. QED
      BY <1>3, <2>2, <2>3
  <1>10. OutcomeInv'
    BY <1>1, <1>6, <1>7, <1>8, <1>9 DEF OutcomeInv
  <1>11. QED
    BY <1>1, <1>2, <1>10 DEF SocketInv, CallCounted

\* lwIP fails, bytes or a connection arrive, the peer ends the stream, sent bytes are
\* acknowledged, Ctrl-C is typed.
LEMMA SocketEnvironment ==
    ASSUME SocketInv, TryError \/ Arrive \/ PeerCloses \/ Acknowledge \/ CtrlC
    PROVE  SocketInv'
  <1>1. UNCHANGED <<timeout, retries, op, want, done, i, moved, elapsed>>
    BY DEF TryError, Arrive, PeerCloses, Acknowledge, CtrlC, socket, call, env
  <1>2. /\ result' = result \/ result' = "error"
        /\ eof' = eof \/ eof' = TRUE
        /\ pending' = pending \/ pending' = TRUE
    BY DEF TryError, Arrive, PeerCloses, Acknowledge, CtrlC, socket, call, env
  <1>3. avail' \in 0 .. Capacity /\ room' \in 0 .. Capacity
    <2>1. avail \in 0 .. Capacity /\ room \in 0 .. Capacity
      BY DEF SocketInv, SocketTypeOK
    <2>2. /\ avail' = avail \/ (avail < Capacity /\ avail' = avail + 1)
          /\ room' = room \/ (room < Capacity /\ room' = room + 1)
      BY DEF TryError, Arrive, PeerCloses, Acknowledge, CtrlC, env
    <2>3. QED
      BY <2>1, <2>2
  <1>4. SocketTypeOK' /\ retries' = Retries(timeout')
    <2>1. eof' \in BOOLEAN /\ pending' \in BOOLEAN
      BY <1>2, Zenon DEF SocketInv, SocketTypeOK
    <2>2. result' \in {"none", "running", "ok", "ETIMEDOUT", "KeyboardInterrupt", "error"}
      BY <1>2, Zenon DEF SocketInv, SocketTypeOK
    <2>3. QED
      BY <1>1, <1>3, <2>1, <2>2, Zenon DEF SocketInv, SocketTypeOK
  <1>5. CASE result' = "error"
    BY <1>4, <1>5, NothingClaimed
  <1>6. CASE result' = result
    <2>1. CallCounted'
      <3>1. PollTime' = PollTime
        BY <1>1 DEF PollTime
      <3>2. QED
        BY <1>1, <1>6, <3>1 DEF SocketInv, CallCounted, ReceiveCount, SendCount
    <2>2. GaveUp' => GaveUp
      BY <1>1, <1>2, <1>6 DEF GaveUp, SocketInv, SocketTypeOK
    <2>3. OutcomeInv'
      BY <1>1, <1>6, <2>2 DEF SocketInv, OutcomeInv
    <2>4. QED
      BY <1>4, <2>1, <2>3 DEF SocketInv
  <1>7. QED
    BY <1>2, <1>5, <1>6

\* Every call, try and step of lwIP keeps the count of the time waited.
LEMMA SocketInvNext == SocketInv /\ [SocketNext]_socketVars => SocketInv'
  <1> SUFFICES ASSUME SocketInv, [SocketNext]_socketVars
               PROVE  SocketInv'
    OBVIOUS
  <1>1. CASE UNCHANGED socketVars
    <2>1. /\ UNCHANGED <<timeout, retries, op, want, done, i, moved, elapsed>>
          /\ UNCHANGED <<result, avail, eof, room, pending>>
      BY <1>1 DEF socketVars, socket, call, env
    <2>2. PollTime' = PollTime /\ (GaveUp' <=> GaveUp)
      BY <2>1 DEF PollTime, GaveUp
    <2>3. SocketTypeOK' /\ retries' = Retries(timeout')
      BY <2>1 DEF SocketInv, SocketTypeOK
    <2>4. CallCounted' /\ OutcomeInv'
      BY <2>1, <2>2 DEF SocketInv, CallCounted, ReceiveCount, SendCount, OutcomeInv
    <2>5. QED
      BY <2>3, <2>4 DEF SocketInv
  <1>2. CASE \/ \E t \in Timeouts \cup {Forever} : settimeout(t)
             \/ \E o \in Receives \cup Sends, n \in Lengths : Call(o, n)
    BY <1>2, SocketBegins
  <1>3. CASE Step
    BY <1>3, SocketReceives, SocketFindsNothing, SocketSends, SocketSendsTo, SocketWrites,
       SocketFinishes, SocketEnvironment DEF Step
  <1>4. CASE Arrive \/ PeerCloses \/ Acknowledge \/ CtrlC
    BY <1>4, SocketEnvironment
  <1>5. QED
    BY <1>1, <1>2, <1>3, <1>4 DEF SocketNext

\* The counters, the byte counts and the time of the socket's calls stay in their ranges.
THEOREM SocketTypeCorrect == SocketSpec => []SocketTypeOK
  <1>1. SocketSpec => []SocketInv
    BY SocketInvInit, SocketInvNext, PTL DEF SocketSpec
  <1>2. QED
    BY <1>1, PTL DEF SocketInv

\* For every timeout, poll and width of the counters, and whatever lwIP, the peer and the
\* console do: a call gives up only after its timeout, and reports the bytes that moved.
THEOREM SocketOutcomeTrue == SocketSpec => []OutcomeTrue
  <1>1. SocketSpec => []SocketInv
    BY SocketInvInit, SocketInvNext, PTL DEF SocketSpec
  <1>2. SocketInv => OutcomeTrue
    BY DEF SocketInv, OutcomeInv, OutcomeTrue, GaveUp, WaitedOut, Receives
  <1>3. QED
    BY <1>1, <1>2, PTL

-----------------------------------------------------------------------------
(* MCNetwork *)

NetworkInv == WifiInv /\ SocketInv /\ BleInv /\ PathInv /\ OwnershipInv

\* A step of one component is none of the others.
LEMMA NetworkInvNext ==
    ASSUME NetworkInv,
           [Next]_<<component, wifiVars, socketVars, bleVars, pathVars, queueVars>>
    PROVE  NetworkInv'
  <1>1. /\ [WifiNext]_wifiVars /\ [SocketNext]_socketVars
        /\ [BleNext]_bleVars /\ [PathNext]_pathVars /\ [QueueNext]_queueVars
    BY DEF Next
  <1>2. QED
    BY <1>1, WifiInvNext, SocketInvNext, BleInvNext, PathInvNext, OwnershipNext DEF NetworkInv

\* The five components keep their types in one program.
THEOREM NetworkTypeCorrect == Spec => []NetworkTypeOK
  <1>1. Init => NetworkInv
    BY WifiInvInit, SocketInvInit, BleInvInit, PathInvInit, OwnershipStarts
    DEF Init, NetworkInv
  <1>2. NetworkInv => NetworkTypeOK
    BY PathTyped DEF NetworkInv, WifiInv, SocketInv, BleInv, NetworkTypeOK, OwnershipInv, RingInv,
                     SocketFifoTypeOK
  <1>3. Spec => []NetworkInv
    BY <1>1, NetworkInvNext, PTL DEF Spec
  <1>4. QED
    BY <1>2, <1>3, PTL
=============================================================================

------------------------- MODULE SpacePacketProofs -------------------------
(***************************************************************************)
(* Proofs about SpacePackets: the bytes of every virtual channel stay the   *)
(* packets behind one another, whatever frames are lost, the pointer of     *)
(* every frame points to the first packet that starts in it, and what the   *)
(* reconstruction holds and has given is of the packets that came down.     *)
(*                                                                          *)
(* And about NanolinkTransport, the other transport that cuts a stream of   *)
(* bytes into frames, which uses the same lemmas: the block, the bytes to   *)
(* come and what was published agree, and only severed frames are lost.     *)
(*                                                                          *)
(* The loops of the two handlers are folds over the number of turns; what   *)
(* they keep is proved turn by turn, by well-founded induction.             *)
(***************************************************************************)
EXTENDS SpacePackets, NanolinkTransport, FiniteSetTheorems, WellFoundedInduction, TLAPS


\* What joining two sequences returns.
LEMMA ElementsJoined ==
    ASSUME NEW S, NEW p \in Seq(S), NEW q \in Seq(S)
    PROVE  /\ p \o q \in Seq(S)
           /\ Len(p \o q) = Len(p) + Len(q)
           /\ \A k \in 1 .. Len(p) : (p \o q)[k] = p[k]
           /\ \A k \in 1 .. Len(q) : (p \o q)[Len(p) + k] = q[k]
OBVIOUS

\* The sequence y is p and q joined, of lengths a and b.
AreJoined(y, p, q, a, b) == /\ y = p \o q /\ Len(y) = a + b
                            /\ \A k \in 1 .. a : y[k] = p[k]
                            /\ \A k \in 1 .. b : y[a + k] = q[k]

\* The same with the lengths as numbers.
LEMMA NumberedJoined ==
    ASSUME NEW S, NEW p \in Seq(S), NEW q \in Seq(S), NEW a, NEW b, a = Len(p), b = Len(q)
    PROVE  \E y \in Seq(S) : AreJoined(y, p, q, a, b)
  <1>1. p \o q \in Seq(S)
    BY ElementsJoined
  <1>2. AreJoined(p \o q, p, q, Len(p), Len(q))
    BY ElementsJoined, SMT DEF AreJoined
  <1> QED BY <1>1, <1>2

------------------------------------------------------------------------------
\* What holds at 0, and at each step if it held before, holds from 0 to n: the places
\* where it fails would have a first one.
LEMMA StepByStep ==
    ASSUME NEW n \in Nat, NEW S, 0 \in S, \A j \in 1 .. n : j - 1 \in S => j \in S
    PROVE  \A j \in 0 .. n : j \in S
  <1>1. PICK T : T = {j \in 0 .. n : j \notin S}
    OBVIOUS
  <1>2. SUFFICES ASSUME T # {} PROVE FALSE
    BY <1>1
  <1>3. T \in SUBSET Nat
    BY <1>1
  <1>4. PICK m \in T : \A x \in T : ~ (<<x, m>> \in OpToRel(<, Nat))
    BY <1>2, <1>3, NatLessThanWellFounded, WFMin
  <1>5. m \in 1 .. n /\ m \notin S
    BY <1>1
  <1>6. m - 1 \in T
    BY <1>1, <1>5
  <1>7. m - 1 < m /\ m - 1 \in Nat /\ m \in Nat
    BY <1>5
  <1> QED BY <1>4, <1>6, <1>7 DEF OpToRel

\* What is repeated, and what is had after each time.
Step(F, D, n) == F \in [D \X (1 .. n) -> D]

Repeated(f, F, D, n, a) ==
    /\ f \in [0 .. n -> D]
    /\ f[0] = a
    /\ \A j \in 1 .. n : f[j] = F[<<f[j - 1], j>>]

\* A function that is defined by recursion from 0 to n exists.
LEMMA Recursion ==
    ASSUME NEW n \in Nat, NEW D, NEW a \in D, NEW F, Step(F, D, n)
    PROVE  \E f : Repeated(f, F, D, n, a)
  <1> DEFINE Exists(k) == \E f \in [0 .. k -> D] :
                            \A j \in 0 .. k : f[j] = IF j = 0 THEN a ELSE F[<<f[j - 1], j>>]
  <1>1. Exists(0)
    <2>1. [j \in 0 .. 0 |-> a] \in [0 .. 0 -> D]
      OBVIOUS
    <2>2. \A j \in 0 .. 0 : [i \in 0 .. 0 |-> a][j] = a /\ j = 0
      OBVIOUS
    <2> QED BY <2>1, <2>2
  <1>2. ASSUME NEW m \in 1 .. n, Exists(m - 1) PROVE Exists(m)
    <2>1. m \in 0 .. n
      OBVIOUS
    <2>2. m # 0 /\ m - 1 \in 0 .. n /\ m - 1 \in Nat /\ m \in Nat
      OBVIOUS
    <2>3. Exists(m - 1)
      BY <1>2
    <2>4. PICK f \in [0 .. m - 1 -> D] :
            \A j \in 0 .. m - 1 : f[j] = IF j = 0 THEN a ELSE F[<<f[j - 1], j>>]
      BY <2>3
    <2>5. PICK g : g = [j \in 0 .. m |-> IF j = m THEN F[<<f[m - 1], m>>] ELSE f[j]]
      OBVIOUS
    <2>6. f[m - 1] \in D
      BY <2>2, <2>4
    <2>7. F[<<f[m - 1], m>>] \in D
      BY <2>1, <2>2, <2>6 DEF Step
    <2>8. \A j \in 0 .. m : j = m \/ j \in 0 .. m - 1
      BY <2>2
    <2>9. g \in [0 .. m -> D]
      BY <2>4, <2>5, <2>7, <2>8
    <2>10. ASSUME NEW j \in 0 .. m PROVE g[j] = IF j = 0 THEN a ELSE F[<<g[j - 1], j>>]
      <3>1. CASE j = m
        <4>1. m - 1 \in 0 .. m /\ m - 1 # m
          BY <2>2
        <4>2. g[m - 1] = f[m - 1]
          BY <2>5, <4>1
        <4> QED BY <2>2, <2>5, <3>1, <4>2
      <3>2. CASE j # m
        <4>1. j \in 0 .. m - 1
          BY <2>8, <3>2
        <4>2. g[j] = f[j]
          BY <2>5, <3>2
        <4>3. j # 0 => j - 1 \in 0 .. m /\ j - 1 # m /\ j - 1 \in 0 .. m - 1
          BY <2>2, <4>1
        <4>4. j # 0 => g[j - 1] = f[j - 1]
          BY <2>5, <4>3
        <4> QED BY <2>4, <4>1, <4>2, <4>4
      <3> QED BY <3>1, <3>2
    <2> QED BY <2>9, <2>10
  <1>3. Exists(n)
    <2> HIDE DEF Exists
    <2>1. PICK S : S = {k \in 0 .. n : Exists(k)}
      OBVIOUS
    <2>2. 0 \in S
      BY <1>1, <2>1
    <2>3. \A m \in 1 .. n : m - 1 \in S => m \in S
      BY <1>2, <2>1
    <2>4. \A k \in 0 .. n : k \in S
      BY <2>2, <2>3, StepByStep
    <2> QED BY <2>1, <2>4
  <1>4. PICK f \in [0 .. n -> D] :
          \A j \in 0 .. n : f[j] = IF j = 0 THEN a ELSE F[<<f[j - 1], j>>]
    BY <1>3
  <1>5. 0 \in 0 .. n /\ \A j \in 1 .. n : j \in 0 .. n /\ j # 0
    OBVIOUS
  <1> QED BY <1>4, <1>5 DEF Repeated

------------------------------------------------------------------------------
\* Space packets: a byte of a packet, where packets start, and the handler of
\* telemetry_primaryheader_adder.
MarkedByte == [byte : Nat, packet : Nat, at : Nat]

NothingStarts(s) == \A j \in DOMAIN s : s[j].at # 1

StartsFirst(s, k) == /\ k \in DOMAIN s
                     /\ s[k].at = 1
                     /\ \A j \in DOMAIN s : s[j].at = 1 => k <= j

FirstStarts(s) == \A j \in DOMAIN s : s[j].at = 1 <=> j = 1

\* The pointer of a TM frame, or of what there is of one.
Pointed(s, pointer, none) ==
    IF NothingStarts(s) THEN pointer = none ELSE StartsFirst(s, pointer + 1)

FilledFrame == [pointer : Nat, payload : Seq(MarkedByte)]

FillState == [list : Seq(MarkedByte), pointer : Nat, next : Nat, frames : Seq(FilledFrame),
              packet : Seq(MarkedByte)]

\* A TM frame that is not full.
Filling(s, pointer) == Len(s) < TmSize /\ Pointed(s, pointer, Len(s))

\* The bytes that are left: none, the whole packet, or an end of it.
FillLeft(h) ==
    \/ h.packet = <<>> /\ Filling(h.list, h.pointer)
    \/ h.packet # <<>> /\ Filling(h.list, h.pointer) /\ FirstStarts(h.packet)
    \/ /\ h.packet # <<>> /\ h.list = <<>> /\ NothingStarts(h.packet)
       /\ h.pointer = IF Len(h.packet) >= TmSize THEN NoHeader ELSE Len(h.packet)

FramesPointed(frames) ==
    \A i \in DOMAIN frames : Pointed(frames[i].payload, frames[i].pointer, NoHeader)

Fills == {h \in FillState : FillLeft(h) /\ FramesPointed(h.frames)}

\* What the first bytes of a sequence and the rest of it are.
LEMMA TakenAndLeft ==
    ASSUME NEW S, NEW s \in Seq(S), NEW n \in Nat \ {0}
    PROVE  /\ Take(s, n) \in Seq(S)
           /\ Len(Take(s, n)) = IF n < Len(s) THEN n ELSE Len(s)
           /\ \A i \in 1 .. Len(Take(s, n)) : Take(s, n)[i] = s[i]
           /\ Drop(s, n) \in Seq(S)
           /\ Len(Drop(s, n)) = IF n < Len(s) THEN Len(s) - n ELSE 0
           /\ \A i \in 1 .. Len(Drop(s, n)) : Drop(s, n)[i] = s[n + i]
  <1>1. PICK m \in Nat : m = IF n < Len(s) THEN n ELSE Len(s)
    OBVIOUS
  <1>2. /\ SubSeq(s, 1, m) \in Seq(S)
        /\ Len(SubSeq(s, 1, m)) = m
        /\ \A i \in 1 .. m : SubSeq(s, 1, m)[i] = s[i]
    BY <1>1
  <1>3. /\ SubSeq(s, n + 1, Len(s)) \in Seq(S)
        /\ Len(SubSeq(s, n + 1, Len(s))) = IF n < Len(s) THEN Len(s) - n ELSE 0
        /\ \A i \in 1 .. Len(s) - n : SubSeq(s, n + 1, Len(s))[i] = s[n + i]
    OBVIOUS
  <1>4. Len(SubSeq(s, n + 1, Len(s))) <= Len(s) - n \/ Len(SubSeq(s, n + 1, Len(s))) = 0
    BY <1>3
  <1>5. \A i \in 1 .. Len(SubSeq(s, n + 1, Len(s))) : SubSeq(s, n + 1, Len(s))[i] = s[n + i]
    BY <1>3
  <1> QED BY <1>1, <1>2, <1>3, <1>5 DEF Take, Drop

\* Joined to the bytes of a TM frame that is not full, a packet is pointed to.
LEMMA PacketPointed ==
    ASSUME NEW s \in Seq(MarkedByte), NEW pointer \in Nat, NEW t \in Seq(MarkedByte),
           Pointed(s, pointer, Len(s)), StartsFirst(t, 1), NEW none
    PROVE  Pointed(s \o t, pointer, none)
  <1>1. PICK u \in Seq(MarkedByte) : u = s \o t
    BY ElementsJoined
  <1>2. /\ Len(u) = Len(s) + Len(t)
        /\ \A k \in 1 .. Len(s) : u[k] = s[k]
        /\ \A k \in 1 .. Len(t) : u[Len(s) + k] = t[k]
    BY <1>1, ElementsJoined
  <1>3. DOMAIN s = 1 .. Len(s) /\ DOMAIN t = 1 .. Len(t) /\ DOMAIN u = 1 .. Len(u)
    OBVIOUS
  <1>4. 1 \in 1 .. Len(t) /\ t[1].at = 1
    BY <1>3 DEF StartsFirst
  <1>5. u[Len(s) + 1].at = 1 /\ Len(s) + 1 \in 1 .. Len(u)
    BY <1>2, <1>4
  <1>6. ~ NothingStarts(u)
    BY <1>3, <1>5 DEF NothingStarts
  <1>7. CASE NothingStarts(s)
    <2>1. pointer = Len(s)
      BY <1>7 DEF Pointed
    <2>2. \A j \in 1 .. Len(s) : u[j].at # 1
      BY <1>2, <1>3, <1>7 DEF NothingStarts
    <2>3. \A j \in 1 .. Len(u) : u[j].at = 1 => Len(s) + 1 <= j
      BY <2>2
    <2> QED BY <1>1, <1>3, <1>5, <1>6, <2>1, <2>3 DEF Pointed, StartsFirst
  <1>8. CASE ~ NothingStarts(s)
    <2>1. StartsFirst(s, pointer + 1)
      BY <1>8 DEF Pointed
    <2>2. pointer + 1 \in 1 .. Len(s) /\ s[pointer + 1].at = 1
      BY <1>3, <2>1 DEF StartsFirst
    <2>3. pointer + 1 \in 1 .. Len(u) /\ u[pointer + 1].at = 1
      BY <1>2, <2>2
    <2>4. ASSUME NEW j \in 1 .. Len(u), u[j].at = 1 PROVE pointer + 1 <= j
      <3>1. CASE j <= Len(s)
        <4>1. j \in 1 .. Len(s) /\ s[j].at = 1
          BY <1>2, <2>4, <3>1
        <4> QED BY <1>3, <2>1, <4>1 DEF StartsFirst
      <3>2. CASE j > Len(s)
        BY <2>2, <3>2
      <3> QED BY <3>1, <3>2
    <2> QED BY <1>1, <1>3, <1>6, <2>3, <2>4 DEF Pointed, StartsFirst
  <1> QED BY <1>7, <1>8

\* A TM frame more.
LEMMA FrameFilled ==
    ASSUME NEW frames \in Seq(FilledFrame), FramesPointed(frames),
           NEW pointer \in Nat, NEW payload \in Seq(MarkedByte), Pointed(payload, pointer, NoHeader)
    PROVE  /\ Append(frames, [pointer |-> pointer, payload |-> payload]) \in Seq(FilledFrame)
           /\ FramesPointed(Append(frames, [pointer |-> pointer, payload |-> payload]))
  <1>1. PICK f \in FilledFrame : f = [pointer |-> pointer, payload |-> payload]
    BY DEF FilledFrame
  <1>2. PICK S : S = FilledFrame
    OBVIOUS
  <1>3. /\ Append(frames, f) \in Seq(S)
        /\ DOMAIN Append(frames, f) = 1 .. Len(frames) + 1
        /\ \A i \in 1 .. Len(frames) : Append(frames, f)[i] = frames[i]
        /\ Append(frames, f)[Len(frames) + 1] = f
        /\ DOMAIN frames = 1 .. Len(frames)
    BY <1>2
  <1>4. f.payload = payload /\ f.pointer = pointer
    BY <1>1
  <1>5. ASSUME NEW i \in 1 .. Len(frames) + 1
        PROVE  Pointed(Append(frames, f)[i].payload, Append(frames, f)[i].pointer, NoHeader)
    <2>1. CASE i \in 1 .. Len(frames)
      BY <1>3, <2>1, Zenon DEF FramesPointed
    <2>2. CASE i = Len(frames) + 1
      BY <1>3, <1>4, <2>2, Zenon
    <2> QED BY <2>1, <2>2
  <1> QED BY <1>1, <1>2, <1>3, <1>5, Zenon DEF FramesPointed

\* The sequence that is empty is the one without an element.
LEMMA NoElement ==
    ASSUME NEW S, NEW s \in Seq(S)
    PROVE  (s = <<>> <=> Len(s) = 0) /\ DOMAIN s = 1 .. Len(s) /\ Len(s) \in Nat
OBVIOUS

\* A turn of the loop of telemetry_primaryheader_adder.handle_msg(): bytes are taken, and
\* the pointers are right.
LEMMA TurnFills ==
    ASSUME NEW h \in Fills
    PROVE  /\ FillTurn(h) \in Fills
           /\ h.packet # <<>> => Len(FillTurn(h).packet) < Len(h.packet)
  <1>1. CASE h.packet = <<>>
    BY <1>1 DEF FillTurn
  <1>2. CASE h.packet # <<>>
    <2>1. PICK s \in Seq(MarkedByte), t \in Seq(MarkedByte), p \in Nat, x \in Nat,
               frames \in Seq(FilledFrame) :
             /\ s = h.list /\ t = h.packet /\ p = h.pointer /\ x = h.next /\ frames = h.frames
             /\ h = [list |-> s, pointer |-> p, next |-> x, frames |-> frames, packet |-> t]
      BY DEF Fills, FillState
    <2>2. Len(t) >= 1 /\ Len(t) \in Nat /\ DOMAIN t = 1 .. Len(t)
      BY <1>2, <2>1
    <2>3. TmSize \in Nat /\ TmSize >= 1
      BY SpacePacketsAssumption
    <2>4. FramesPointed(frames)
      BY <2>1 DEF Fills
    <2>5. \/ Filling(s, p) /\ FirstStarts(t)
          \/ /\ s = <<>> /\ NothingStarts(t)
             /\ p = IF Len(t) >= TmSize THEN NoHeader ELSE Len(t)
      BY <1>2, <2>1 DEF Fills, FillLeft
    <2>6. PICK a \in Nat, n \in Nat \ {0} : a = Len(s) /\ n = Len(t) /\ a < TmSize
      <3>1. PICK a \in Nat, n \in Nat : a = Len(s) /\ n = Len(t)
        OBVIOUS
      <3>2. s = <<>> => a = 0
        BY <3>1
      <3>3. Filling(s, p) => a < TmSize
        BY <3>1 DEF Filling
      <3>4. n >= 1
        BY <2>2, <3>1
      <3>5. n \in Nat \ {0} /\ a < TmSize
        BY <2>3, <2>5, <3>2, <3>3, <3>4
      <3> QED BY <3>1, <3>5
    <2>7. PICK limit \in Nat \ {0} : limit = TmSize - a
      BY <2>3, <2>6
    <2>8. PICK first, left \in Seq(MarkedByte) : first = Take(t, limit) /\ left = Drop(t, limit)
      BY TakenAndLeft
    <2>9. PICK b, l \in Nat :
             /\ b = Len(first) /\ b = (IF limit < n THEN limit ELSE n)
             /\ l = Len(left) /\ l = (IF limit < n THEN n - limit ELSE 0)
      BY <2>6, <2>8, TakenAndLeft
    <2>10. /\ \A i \in 1 .. b : first[i] = t[i]
           /\ \A i \in 1 .. l : left[i] = t[limit + i]
           /\ DOMAIN first = 1 .. b /\ DOMAIN left = 1 .. l /\ DOMAIN t = 1 .. n
      <3>1. /\ \A i \in 1 .. Len(first) : first[i] = t[i]
            /\ \A i \in 1 .. Len(left) : left[i] = t[limit + i]
        BY <2>8, TakenAndLeft
      <3>2. DOMAIN first = 1 .. Len(first) /\ DOMAIN left = 1 .. Len(left) /\ DOMAIN t = 1 .. Len(t)
        OBVIOUS
      <3> QED BY <2>6, <2>9, <3>1, <3>2, Zenon
    <2>11. PICK grown \in Seq(MarkedByte) : grown = s \o first
      BY ElementsJoined
    <2>12. /\ Len(grown) = a + b
           /\ \A k \in 1 .. b : grown[a + k] = first[k]
           /\ DOMAIN grown = 1 .. a + b
      <3>1. /\ Len(grown) = Len(s) + Len(first)
            /\ \A k \in 1 .. Len(first) : grown[Len(s) + k] = first[k]
        BY <2>11, ElementsJoined
      <3>2. DOMAIN grown = 1 .. Len(grown)
        OBVIOUS
      <3> QED BY <2>6, <2>9, <3>1, <3>2, Zenon
    <2>13. FirstStarts(t) => StartsFirst(first, 1)
      <3>1. 1 \in 1 .. b /\ 1 \in 1 .. n
        BY <2>9
      <3>2. \A j \in 1 .. b : j \in 1 .. n /\ 1 <= j
        BY <2>9
      <3>3. SUFFICES ASSUME FirstStarts(t) PROVE StartsFirst(first, 1)
        OBVIOUS
      <3>4. t[1].at = 1
        BY <2>10, <3>1, <3>3, Zenon DEF FirstStarts
      <3> QED BY <2>10, <3>1, <3>2, <3>4, Zenon DEF StartsFirst
    <2>14. s = <<>> /\ NothingStarts(t) => a = 0 /\ NothingStarts(grown)
      <3>1. SUFFICES ASSUME s = <<>>, NothingStarts(t) PROVE a = 0 /\ NothingStarts(grown)
        OBVIOUS
      <3>2. a = 0
        BY <2>6, <3>1
      <3>3. \A k \in 1 .. b : k \in 1 .. n
        BY <2>9
      <3>4. a + b = b /\ \A k \in 1 .. b : a + k = k
        BY <3>2
      <3>5. \A k \in 1 .. b : grown[k] = t[k]
        BY <2>10, <2>12, <3>4, Zenon
      <3> QED BY <2>10, <2>12, <3>1, <3>2, <3>3, <3>4, <3>5, Zenon DEF NothingStarts
    <2>15. NothingStarts(left)
      <3>1. \A i \in 1 .. l : limit + i \in 1 .. n /\ limit + i # 1
        BY <2>9
      <3>2. ASSUME NEW i \in 1 .. l PROVE left[i].at # 1
        <4>1. PICK k \in 1 .. n : k = limit + i /\ k # 1
          BY <3>1
        <4>2. left[i] = t[k]
          BY <2>10, <4>1
        <4>3. t[k].at # 1
          BY <2>5, <2>10, <4>1, Zenon DEF NothingStarts, FirstStarts
        <4> QED BY <4>2, <4>3
      <3> QED BY <2>10, <3>2, Zenon DEF NothingStarts
    <2>16. PICK none \in Nat : none = IF n >= limit THEN NoHeader ELSE a + b
      <3>1. NoHeader \in Nat /\ a + b \in Nat
        BY DEF NoHeader
      <3> QED BY <3>1
    <2>17. Pointed(grown, p, none)
      <3>1. CASE Filling(s, p) /\ FirstStarts(t)
        BY <2>11, <2>13, <3>1, PacketPointed DEF Filling
      <3>2. CASE /\ s = <<>> /\ NothingStarts(t)
                 /\ p = IF Len(t) >= TmSize THEN NoHeader ELSE Len(t)
        <4>1. limit = TmSize /\ a = 0 /\ NothingStarts(grown)
          BY <2>3, <2>7, <2>14, <3>2
        <4>2. p = IF n >= TmSize THEN NoHeader ELSE n
          BY <2>6, <3>2
        <4>3. p = none
          BY <2>3, <2>9, <2>16, <4>1, <4>2
        <4> QED BY <4>1, <4>3 DEF Pointed
      <3> QED BY <2>5, <3>1, <3>2
    <2>18. PICK y \in Nat : /\ y = next_pointer(t, limit, x)
                            /\ n = limit => y = 0
                            /\ n > limit => y = IF l >= TmSize THEN NoHeader ELSE l
      <3>1. CASE n < limit
        <4>1. next_pointer(t, limit, x) = x
          BY <2>3, <2>6, <3>1 DEF next_pointer
        <4> QED BY <3>1, <4>1
      <3>2. CASE n = limit
        <4>1. next_pointer(t, limit, x) = 0
          BY <2>3, <2>6, <3>2 DEF next_pointer
        <4> QED BY <3>2, <4>1
      <3>3. CASE n > limit /\ n < limit + TmSize
        <4>1. next_pointer(t, limit, x) = n - limit
          BY <2>3, <2>6, <3>3 DEF next_pointer
        <4>2. l = n - limit /\ l < TmSize
          BY <2>3, <2>9, <3>3
        <4> QED BY <2>3, <3>3, <4>1, <4>2
      <3>4. CASE n >= limit + TmSize
        <4>1. next_pointer(t, limit, x) = NoHeader
          BY <2>3, <2>6, <3>4 DEF next_pointer
        <4>2. l >= TmSize /\ n # limit /\ NoHeader \in Nat
          BY <2>3, <2>9, <3>4 DEF NoHeader
        <4> QED BY <4>1, <4>2
      <3> QED BY <2>3, <3>1, <3>2, <3>3, <3>4
    <2>19. FillTurn(h) =
             IF Len(grown) = TmSize
             THEN [list |-> <<>>, pointer |-> y, next |-> y, packet |-> left,
                   frames |-> Append(frames, [pointer |-> p, payload |-> grown])]
             ELSE [h EXCEPT !.list = grown, !.next = y, !.packet = left]
      BY <1>2, <2>1, <2>6, <2>7, <2>8, <2>11, <2>18, Zenon DEF FillTurn
    <2>20. (left = <<>> <=> l = 0) /\ Len(left) = l
      BY <2>9, NoElement
    <2>21. CASE n < limit
      <3>1. a + b < TmSize /\ left = <<>> /\ none = a + b
        BY <2>3, <2>7, <2>9, <2>16, <2>20, <2>21
      <3>2. Len(grown) # TmSize /\ Len(grown) < TmSize
        BY <2>12, <3>1
      <3>3. FillTurn(h) = [list |-> grown, pointer |-> p, next |-> y, frames |-> frames,
                           packet |-> left]
        BY <2>1, <2>19, <3>2
      <3>4. Filling(grown, p)
        BY <2>12, <2>17, <3>1, <3>2 DEF Filling
      <3>5. FillTurn(h) \in Fills
        BY <2>4, <3>1, <3>3, <3>4 DEF Fills, FillState, FillLeft
      <3>6. FillTurn(h).packet = left
        BY <3>3
      <3>7. Len(FillTurn(h).packet) < Len(h.packet)
        BY <2>1, <2>6, <2>9, <2>20, <2>21, <3>6
      <3> QED BY <3>5, <3>7
    <2>22. CASE n >= limit
      <3>1. a + b = TmSize /\ none = NoHeader /\ l = n - limit /\ l < n
        BY <2>3, <2>7, <2>9, <2>16, <2>22
      <3>2. PICK more \in Seq(FilledFrame) :
               more = Append(frames, [pointer |-> p, payload |-> grown]) /\ FramesPointed(more)
        BY <2>4, <2>17, <3>1, FrameFilled
      <3>3. FillTurn(h) = [list |-> <<>>, pointer |-> y, next |-> y, frames |-> more, packet |-> left]
        BY <2>12, <2>19, <3>1, <3>2
      <3>4. FillLeft([list |-> <<>>, pointer |-> y, next |-> y, frames |-> more, packet |-> left])
        <4>1. CASE n = limit
          <5>1. left = <<>> /\ y = 0
            BY <2>18, <2>20, <3>1, <4>1
          <5>2. Filling(<<>>, 0)
            BY <2>3 DEF Filling, Pointed, NothingStarts
          <5> QED BY <5>1, <5>2 DEF FillLeft
        <4>2. CASE n > limit
          <5>1. left # <<>> /\ y = IF Len(left) >= TmSize THEN NoHeader ELSE Len(left)
            BY <2>18, <2>20, <3>1, <4>2
          <5> QED BY <2>15, <5>1 DEF FillLeft
        <4> QED BY <2>22, <4>1, <4>2
      <3>5. <<>> \in Seq(MarkedByte)
        OBVIOUS
      <3>6. FillTurn(h) \in FillState
        BY <3>3, <3>5 DEF FillState
      <3>7. FillTurn(h).packet = left /\ FillTurn(h).frames = more
        BY <3>3
      <3>8. FillTurn(h) \in Fills
        BY <3>2, <3>3, <3>4, <3>6, <3>7, Zenon DEF Fills
      <3>9. Len(FillTurn(h).packet) < Len(h.packet)
        BY <2>1, <2>6, <2>20, <3>1, <3>7
      <3> QED BY <3>8, <3>9
    <2> QED BY <2>21, <2>22
  <1> QED BY <1>1, <1>2

\* A packet fills TM frames, and is gone after as many turns as it has bytes; what the
\* turns keep true holds then.
LEMMA PacketFills ==
    ASSUME NEW D, D \subseteq Fills, \A h \in D : FillTurn(h) \in D, NEW h \in D
    PROVE  filled(h) \in D /\ filled(h).packet = <<>>
  <1>1. PICK n \in Nat : n = Len(h.packet)
    <2>1. h.packet \in Seq(MarkedByte)
      BY DEF Fills, FillState
    <2> QED BY <2>1
  <1> DEFINE Is(f) == f = [i \in 0 .. n |-> IF i = 0 THEN h ELSE FillTurn(f[i - 1])]
  <1>2. \E f : Is(f)
    <2>1. PICK F : F = [q \in D \X (1 .. n) |-> FillTurn(q[1])]
      OBVIOUS
    <2>2. Step(F, D, n)
      <3>1. \A q \in D \X (1 .. n) : FillTurn(q[1]) \in D
        OBVIOUS
      <3> QED BY <2>1, <3>1 DEF Step
    <2>3. PICK f : Repeated(f, F, D, n, h)
      BY <2>2, Recursion, Zenon
    <2>4. f \in [0 .. n -> D] /\ f[0] = h /\ \A j \in 1 .. n : f[j] = F[<<f[j - 1], j>>]
      BY <2>3 DEF Repeated
    <2>5. ASSUME NEW i \in 0 .. n PROVE f[i] = IF i = 0 THEN h ELSE FillTurn(f[i - 1])
      <3>1. CASE i # 0
        <4>1. i \in 1 .. n /\ i - 1 \in 0 .. n
          BY <3>1
        <4>2. <<f[i - 1], i>> \in D \X (1 .. n)
          BY <2>4, <4>1
        <4>3. F[<<f[i - 1], i>>] = FillTurn(f[i - 1])
          BY <2>1, <4>2
        <4> QED BY <2>4, <3>1, <4>1, <4>3
      <3> QED BY <2>4, <3>1
    <2> QED BY <2>4, <2>5
  <1>3. PICK e : e = CHOOSE f : Is(f)
    OBVIOUS
  <1>4. filled(h) = e[n]
    BY <1>1, <1>3 DEF filled
  <1>5. Is(e)
    <2> HIDE DEF Is
    <2> QED BY <1>2, <1>3
  <1>6. \A i \in 0 .. n : e[i] = IF i = 0 THEN h ELSE FillTurn(e[i - 1])
    BY <1>5
  <1> HIDE DEF Is
  <1>7. \A i \in 0 .. n : e[i] \in D /\ Len(e[i].packet) <= n - i
    <2>1. PICK S : S = {i \in 0 .. n : e[i] \in D /\ Len(e[i].packet) <= n - i}
      OBVIOUS
    <2>2. 0 \in S
      <3>1. 0 \in 0 .. n /\ e[0] = h
        BY <1>6
      <3> QED BY <1>1, <2>1, <3>1
    <2>3. ASSUME NEW j \in 1 .. n, j - 1 \in S PROVE j \in S
      <3>1. j \in 0 .. n /\ j # 0
        OBVIOUS
      <3>2. PICK g \in D : g = e[j - 1] /\ Len(g.packet) <= n - (j - 1)
        BY <2>1, <2>3
      <3>3. e[j] = FillTurn(g)
        BY <1>6, <3>1, <3>2
      <3>4. PICK k \in D : k = FillTurn(g) /\ (g.packet # <<>> => Len(k.packet) < Len(g.packet))
        BY TurnFills
      <3>5. PICK a, b \in Nat : a = Len(g.packet) /\ b = Len(k.packet)
        <4>1. g.packet \in Seq(MarkedByte) /\ k.packet \in Seq(MarkedByte)
          BY DEF Fills, FillState
        <4> QED BY <4>1
      <3>6. b <= n - j
        <4>1. CASE g.packet = <<>>
          <5>1. k = g
            BY <3>4, <4>1 DEF FillTurn
          <5>2. b = 0
            BY <3>5, <4>1, <5>1
          <5> QED BY <5>2
        <4>2. CASE g.packet # <<>>
          BY <3>2, <3>4, <3>5, <4>2
        <4> QED BY <4>1, <4>2
      <3> QED BY <2>1, <3>1, <3>3, <3>4, <3>5, <3>6
    <2>4. \A j \in 0 .. n : j \in S
      BY <2>2, <2>3, StepByStep
    <2> QED BY <2>1, <2>4
  <1>8. n \in 0 .. n
    OBVIOUS
  <1>9. PICK g \in D : g = e[n] /\ Len(g.packet) <= n - n
    BY <1>7, <1>8
  <1>10. g.packet = <<>>
    <2>1. g.packet \in Seq(MarkedByte)
      BY DEF Fills, FillState
    <2>2. Len(g.packet) = 0
      BY <1>9, <2>1
    <2> QED BY <2>1, <2>2, NoElement
  <1> QED BY <1>4, <1>9, <1>10

------------------------------------------------------------------------------
\* Sequences of the same elements are the same.
LEMMA SameElements ==
    ASSUME NEW S, NEW s \in Seq(S), NEW t \in Seq(S), Len(s) = Len(t),
           \A i \in 1 .. Len(s) : s[i] = t[i]
    PROVE  s = t
OBVIOUS

\* Where the bytes go.  Three sequences are joined in either order.
LEMMA JoinedThrice ==
    ASSUME NEW S, NEW p \in Seq(S), NEW q \in Seq(S), NEW r \in Seq(S)
    PROVE  (p \o q) \o r = p \o (q \o r)
  <1>1. PICK v \in Seq(S), w \in Seq(S), x \in Seq(S), y \in Seq(S) :
          v = p \o q /\ w = q \o r /\ x = v \o r /\ y = p \o w
    BY ElementsJoined
  <1>2. PICK a, b, c \in Nat : a = Len(p) /\ b = Len(q) /\ c = Len(r)
    OBVIOUS
  <1>3. /\ Len(v) = a + b /\ Len(w) = b + c /\ Len(x) = a + b + c /\ Len(y) = a + b + c
    BY <1>1, <1>2
  <1>4. ASSUME NEW i \in 1 .. a + b + c PROVE x[i] = y[i]
    <2>1. CASE i <= a
      BY <1>1, <1>2, <1>3, <2>1
    <2>2. CASE i > a /\ i <= a + b
      <3>1. PICK k \in 1 .. b : i = a + k
        <4>1. i - a \in 1 .. b /\ i = a + (i - a)
          BY <2>2
        <4> QED BY <4>1
      <3>2. x[i] = v[i] /\ v[i] = q[k] /\ w[k] = q[k]
        BY <1>1, <1>2, <1>3, <3>1, ElementsJoined
      <3>3. y[i] = w[k]
        BY <1>1, <1>2, <1>3, <3>1, ElementsJoined
      <3> QED BY <3>2, <3>3
    <2>3. CASE i > a + b
      <3>1. PICK k \in 1 .. c : i = a + b + k
        <4>1. i - (a + b) \in 1 .. c /\ i = a + b + (i - (a + b))
          BY <2>3
        <4> QED BY <4>1
      <3>2. x[i] = r[k] /\ w[b + k] = r[k]
        BY <1>1, <1>2, <1>3, <3>1, ElementsJoined
      <3>3. y[i] = w[b + k]
        BY <1>1, <1>2, <1>3, <3>1, ElementsJoined
      <3> QED BY <3>2, <3>3
    <2> QED BY <2>1, <2>2, <2>3
  <1>5. x = y
    BY <1>1, <1>3, <1>4
  <1> QED BY <1>1, <1>5

\* A sequence is its first bytes joined to the rest.
LEMMA TakenAndLeftJoined ==
    ASSUME NEW S, NEW s \in Seq(S), NEW n \in Nat \ {0}
    PROVE  Take(s, n) \o Drop(s, n) = s
  <1>1. PICK p \in Seq(S), q \in Seq(S) : p = Take(s, n) /\ q = Drop(s, n)
    BY TakenAndLeft
  <1>2. PICK m \in Nat, a \in Nat, b \in Nat :
          /\ m = Len(s) /\ a = Len(p) /\ b = Len(q) /\ m = a + b
          /\ b # 0 => a = n
    <2>1. PICK m \in Nat, a \in Nat, b \in Nat : m = Len(s) /\ a = Len(p) /\ b = Len(q)
      OBVIOUS
    <2>2. a = (IF n < m THEN n ELSE m) /\ b = (IF n < m THEN m - n ELSE 0)
      BY <1>1, <2>1, TakenAndLeft
    <2>3. m = a + b /\ (b # 0 => a = n)
      BY <2>2
    <2> QED BY <2>1, <2>3
  <1>3. /\ \A i \in 1 .. a : p[i] = s[i]
        /\ \A i \in 1 .. b : q[i] = s[n + i]
    BY <1>1, <1>2, TakenAndLeft, ZenonT(30)
  <1>4. PICK x \in Seq(S) : x = p \o q
    BY ElementsJoined
  <1>5. /\ Len(x) = m
        /\ \A i \in 1 .. a : x[i] = p[i]
        /\ \A i \in 1 .. b : x[a + i] = q[i]
    BY <1>2, <1>4, ElementsJoined
  <1>6. ASSUME NEW i \in 1 .. m PROVE x[i] = s[i]
    <2>1. CASE i <= a
      BY <1>3, <1>5, <2>1
    <2>2. CASE i > a
      <3>1. PICK k \in 1 .. b : i = a + k /\ a = n
        <4>1. i - a \in 1 .. b /\ i = a + (i - a) /\ a = n
          BY <1>2, <2>2
        <4> QED BY <4>1
      <3> QED BY <1>3, <1>5, <3>1
    <2> QED BY <1>2, <2>1, <2>2
  <1>7. x = s
    <2>1. Len(x) = Len(s) /\ \A i \in 1 .. Len(x) : x[i] = s[i]
      BY <1>2, <1>5, <1>6
    <2> QED BY <2>1, SameElements
  <1> QED BY <1>1, <1>4, <1>7

\* The sequence v is the pieces, joined one after the other: from any of them on, f has
\* what is left of it.
Consists(v, parts, S, f) ==
    /\ f \in [0 .. Len(parts) -> Seq(S)]
    /\ f[0] = v
    /\ f[Len(parts)] = <<>>
    /\ \A i \in 1 .. Len(parts) : f[i - 1] = parts[i] \o f[i]

Joined(v, parts, S) == parts \in Seq(Seq(S)) /\ \E f : Consists(v, parts, S, f)

\* The value that is joined of sequences is a sequence.
LEMMA JoinedIsSequence ==
    ASSUME NEW S, NEW parts, NEW v, Joined(v, parts, S)
    PROVE  v \in Seq(S)
  <1>1. PICK f : Consists(v, parts, S, f)
    BY DEF Joined
  <1>2. 0 \in 0 .. Len(parts)
    <2>1. PICK T : T = Seq(S)
      OBVIOUS
    <2>2. parts \in Seq(T)
      BY <2>1 DEF Joined
    <2> QED BY <2>2
  <1>3. f \in [0 .. Len(parts) -> Seq(S)] /\ f[0] = v
    BY <1>1 DEF Consists
  <1> QED BY <1>2, <1>3, Zenon

\* Pieces that are empty make nothing.
LEMMA NothingJoined ==
    ASSUME NEW S, NEW parts \in Seq(Seq(S)), \A i \in DOMAIN parts : parts[i] = <<>>
    PROVE  Joined(<<>>, parts, S)
  <1>1. PICK T : T = Seq(S)
    OBVIOUS
  <1>2. PICK n \in Nat : n = Len(parts) /\ DOMAIN parts = 1 .. n
    BY <1>1, NoElement
  <1>3. <<>> \in T /\ <<>> \o <<>> = <<>>
    BY <1>1
  <1>4. PICK f : f = [i \in 0 .. n |-> <<>>]
    OBVIOUS
  <1>5. 0 \in 0 .. n /\ n \in 0 .. n /\ \A i \in 1 .. n : i \in 0 .. n /\ i - 1 \in 0 .. n
    OBVIOUS
  <1>6. f \in [0 .. n -> T] /\ \A i \in 0 .. n : f[i] = <<>>
    BY <1>3, <1>4
  <1>7. \A i \in 1 .. n : f[i - 1] = parts[i] \o f[i]
    BY <1>2, <1>3, <1>5, <1>6
  <1> QED BY <1>1, <1>2, <1>5, <1>6, <1>7, Zenon DEF Joined, Consists

\* The first piece comes first.
LEMMA FirstJoined ==
    ASSUME NEW S, NEW parts, NEW v, Joined(v, parts, S), parts # <<>>
    PROVE  \E u \in Seq(S) : v = parts[1] \o u /\ Joined(u, Tail(parts), S)
  <1>1. PICK T : T = Seq(S)
    OBVIOUS
  <1>2. PICK f : Consists(v, parts, S, f) /\ parts \in Seq(T)
    BY <1>1 DEF Joined
  <1>3. PICK n \in Nat : n = Len(parts) /\ n >= 1
    <2>1. Len(parts) \in Nat /\ Len(parts) # 0
      BY <1>2, NoElement
    <2> QED BY <2>1
  <1>4. /\ f \in [0 .. n -> T] /\ f[0] = v /\ f[n] = <<>>
        /\ \A i \in 1 .. n : f[i - 1] = parts[i] \o f[i]
    BY <1>1, <1>2, <1>3 DEF Consists
  <1>5. /\ Tail(parts) \in Seq(T) /\ Len(Tail(parts)) = n - 1
        /\ \A i \in 1 .. n - 1 : Tail(parts)[i] = parts[i + 1]
    BY <1>2, <1>3
  <1>6. PICK u \in T : u = f[1]
    <2>1. 1 \in 0 .. n
      BY <1>3
    <2> QED BY <1>4, <2>1
  <1>7. v = parts[1] \o u
    <2>1. 1 \in 1 .. n /\ 1 - 1 = 0
      BY <1>3
    <2>2. f[1 - 1] = parts[1] \o f[1]
      BY <1>4, <2>1
    <2> QED BY <1>4, <1>6, <2>1, <2>2
  <1>8. PICK g : g = [i \in 0 .. n - 1 |-> f[i + 1]]
    OBVIOUS
  <1>9. /\ 0 \in 0 .. n - 1 /\ n - 1 \in 0 .. n - 1 /\ 0 + 1 = 1 /\ (n - 1) + 1 = n /\ n - 1 \in Nat
        /\ \A i \in 0 .. n - 1 : i + 1 \in 0 .. n
        /\ \A i \in 1 .. n - 1 : /\ i \in 0 .. n - 1 /\ i - 1 \in 0 .. n - 1 /\ (i - 1) + 1 = i
                                 /\ i + 1 \in 1 .. n /\ (i + 1) - 1 = i
    BY <1>3
  <1>10. g \in [0 .. n - 1 -> T] /\ g[0] = u /\ g[n - 1] = <<>>
    BY <1>4, <1>6, <1>8, <1>9
  <1>11. ASSUME NEW i \in 1 .. n - 1 PROVE g[i - 1] = Tail(parts)[i] \o g[i]
    <2>1. g[i - 1] = f[i] /\ g[i] = f[i + 1]
      BY <1>8, <1>9
    <2>2. f[(i + 1) - 1] = parts[i + 1] \o f[i + 1]
      BY <1>4, <1>9
    <2> QED BY <1>5, <1>9, <2>1, <2>2
  <1>12. Joined(u, Tail(parts), S)
    BY <1>1, <1>5, <1>10, <1>11, Zenon DEF Joined, Consists
  <1> QED BY <1>1, <1>6, <1>7, <1>12

\* One piece.
LEMMA OneJoined ==
    ASSUME NEW S, NEW v \in Seq(S)
    PROVE  Joined(v, <<v>>, S)
  <1>1. PICK T : T = Seq(S)
    OBVIOUS
  <1>2. PICK w \in T : w = v
    BY <1>1
  <1>3. <<w>> \in Seq(T) /\ Len(<<w>>) = 1 /\ <<w>>[1] = w
    OBVIOUS
  <1>4. <<>> \in T /\ w \o <<>> = w
    BY <1>1
  <1>5. PICK f : f = [i \in 0 .. 1 |-> IF i = 0 THEN w ELSE <<>>]
    OBVIOUS
  <1>6. f \in [0 .. 1 -> T] /\ f[0] = w /\ f[1] = <<>>
    BY <1>4, <1>5
  <1>7. \A i \in 1 .. 1 : f[i - 1] = <<w>>[i] \o f[i]
    <2>1. \A i \in 1 .. 1 : i = 1 /\ i - 1 = 0
      OBVIOUS
    <2> QED BY <1>3, <1>4, <1>6, <2>1
  <1> QED BY <1>1, <1>2, <1>3, <1>6, <1>7, Zenon DEF Joined, Consists

\* More pieces.
LEMMA MoreJoined ==
    ASSUME NEW S, NEW p, NEW q, NEW v, NEW w, Joined(v, p, S), Joined(w, q, S)
    PROVE  Joined(v \o w, p \o q, S)
  <1>1. PICK T : T = Seq(S)
    OBVIOUS
  <1>2. PICK f : Consists(v, p, S, f) /\ p \in Seq(T)
    BY <1>1 DEF Joined
  <1>3. PICK g : Consists(w, q, S, g) /\ q \in Seq(T)
    BY <1>1 DEF Joined
  <1>4. PICK m, n \in Nat : m = Len(p) /\ n = Len(q)
    BY <1>2, <1>3
  <1>5. /\ f \in [0 .. m -> T] /\ f[0] = v /\ f[m] = <<>>
        /\ \A i \in 1 .. m : f[i - 1] = p[i] \o f[i]
    BY <1>1, <1>2, <1>4 DEF Consists
  <1>6. /\ g \in [0 .. n -> T] /\ g[0] = w /\ g[n] = <<>>
        /\ \A i \in 1 .. n : g[i - 1] = q[i] \o g[i]
    BY <1>1, <1>3, <1>4 DEF Consists
  <1>7. PICK r \in Seq(T) : r = p \o q
    BY <1>2, <1>3, ElementsJoined
  <1>8. /\ Len(r) = m + n
        /\ \A i \in 1 .. m : r[i] = p[i]
        /\ \A i \in 1 .. n : r[m + i] = q[i]
    BY <1>2, <1>3, <1>4, <1>7, ElementsJoined
  <1>9. w \in T /\ <<>> \o w = w
    <2>1. 0 \in 0 .. n
      OBVIOUS
    <2>2. w \in T
      BY <1>6, <2>1
    <2> QED BY <1>1, <2>2
  <1>10. \A x \in T : x \o w \in T
    BY <1>1, <1>9, ElementsJoined
  <1>11. PICK h : h = [i \in 0 .. m + n |-> IF i <= m THEN f[i] \o w ELSE g[i - m]]
    OBVIOUS
  <1>12. \A i \in 0 .. m : i \in 0 .. m + n /\ h[i] = f[i] \o w
    BY <1>11
  <1>13. \A i \in 0 .. n : m + i \in 0 .. m + n /\ h[m + i] = g[i]
    <2>1. ASSUME NEW i \in 0 .. n PROVE m + i \in 0 .. m + n /\ h[m + i] = g[i]
      <3>1. m + i \in 0 .. m + n /\ (m + i) - m = i
        OBVIOUS
      <3>2. CASE i = 0
        <4>1. m + i = m /\ m \in 0 .. m
          BY <3>2
        <4>2. h[m] = f[m] \o w
          BY <1>12, <4>1
        <4> QED BY <1>5, <1>6, <1>9, <3>1, <3>2, <4>1, <4>2
      <3>3. CASE i # 0
        <4>1. ~ (m + i <= m)
          BY <3>3
        <4> QED BY <1>11, <3>1, <4>1
      <3> QED BY <3>2, <3>3
    <2> QED BY <2>1
  <1>14. \A i \in 0 .. m + n : i \in 0 .. m \/ \E k \in 0 .. n : i = m + k
    <2>1. ASSUME NEW i \in 0 .. m + n, i \notin 0 .. m PROVE \E k \in 0 .. n : i = m + k
      <3>1. i - m \in 0 .. n /\ i = m + (i - m)
        BY <2>1
      <3> QED BY <3>1
    <2> QED BY <2>1
  <1>15. h \in [0 .. m + n -> T]
    <2>1. ASSUME NEW i \in 0 .. m + n PROVE h[i] \in T
      <3>1. CASE i \in 0 .. m
        BY <1>5, <1>10, <1>12, <3>1
      <3>2. CASE \E k \in 0 .. n : i = m + k
        BY <1>6, <1>13, <3>2
      <3> QED BY <1>14, <3>1, <3>2
    <2> QED BY <1>11, <2>1
  <1>16. h[0] = v \o w /\ h[m + n] = <<>>
    <2>1. 0 \in 0 .. m /\ n \in 0 .. n
      OBVIOUS
    <2>2. h[0] = f[0] \o w
      BY <1>12, <2>1, Zenon
    <2>3. h[m + n] = g[n]
      BY <1>13, <2>1, Zenon
    <2> QED BY <1>5, <1>6, <2>2, <2>3, Zenon
  <1>17. ASSUME NEW i \in 1 .. m + n PROVE h[i - 1] = r[i] \o h[i]
    <2>1. CASE i \in 1 .. m
      <3>1. i \in 0 .. m /\ i - 1 \in 0 .. m
        BY <2>1
      <3>2. h[i - 1] = (p[i] \o f[i]) \o w /\ h[i] = f[i] \o w /\ r[i] = p[i]
        BY <1>5, <1>8, <1>12, <2>1, <3>1
      <3>3. p[i] \in Seq(S) /\ f[i] \in Seq(S) /\ w \in Seq(S)
        <4>1. p[i] \in T
          BY <1>2, <1>4, <2>1
        <4> QED BY <1>1, <1>5, <1>9, <3>1, <4>1
      <3>4. (p[i] \o f[i]) \o w = p[i] \o (f[i] \o w)
        <4>1. \A x, y, z \in Seq(S) : (x \o y) \o z = x \o (y \o z)
          BY JoinedThrice
        <4> QED BY <3>3, <4>1, Zenon
      <3> QED BY <3>2, <3>4
    <2>2. CASE i \notin 1 .. m
      <3>1. PICK k \in 1 .. n : i = m + k
        <4>1. i - m \in 1 .. n /\ i = m + (i - m)
          BY <2>2
        <4> QED BY <4>1
      <3>2. k \in 0 .. n /\ k - 1 \in 0 .. n /\ i - 1 = m + (k - 1)
        BY <3>1
      <3>3. h[i - 1] = g[k - 1] /\ h[i] = g[k] /\ r[i] = q[k]
        BY <1>8, <1>13, <3>1, <3>2
      <3> QED BY <1>6, <3>3
    <2> QED BY <2>1, <2>2
  <1>18. Consists(v \o w, r, S, h)
    BY <1>1, <1>8, <1>15, <1>16, <1>17, Zenon DEF Consists
  <1> QED BY <1>1, <1>7, <1>18, Zenon DEF Joined

------------------------------------------------------------------------------
\* What telemetry_primaryheader_adder has done with the bytes it had and those it was
\* given.
PayloadsOf(frames) == [i \in DOMAIN frames |-> frames[i].payload]

Carries(h, w) == \E u : /\ Joined(u, PayloadsOf(h.frames), MarkedByte)
                        /\ u \o (h.list \o h.packet) = w

\* The payload of one TM frame more.
LEMMA PayloadMore ==
    ASSUME NEW frames \in Seq(FilledFrame), NEW pointer \in Nat, NEW s \in Seq(MarkedByte),
           NEW u, Joined(u, PayloadsOf(frames), MarkedByte)
    PROVE  Joined(u \o s, PayloadsOf(Append(frames, [pointer |-> pointer, payload |-> s])), MarkedByte)
  <1>1. PICK T : T = Seq(MarkedByte)
    OBVIOUS
  <1>2. PICK F : F = FilledFrame
    OBVIOUS
  <1>3. PICK f \in F : f = [pointer |-> pointer, payload |-> s] /\ f.payload = s
    <2>1. [pointer |-> pointer, payload |-> s] \in FilledFrame
      BY DEF FilledFrame
    <2>2. [pointer |-> pointer, payload |-> s].payload = s
      OBVIOUS
    <2> QED BY <1>2, <2>1, <2>2, Zenon
  <1>4. PICK n \in Nat : n = Len(frames) /\ DOMAIN frames = 1 .. n
    BY NoElement
  <1>5. PICK more \in Seq(F) :
          /\ more = Append(frames, f) /\ DOMAIN more = 1 .. n + 1
          /\ \A i \in 1 .. n : more[i] = frames[i]
          /\ more[n + 1] = f
    <2>1. PICK old \in Seq(F) : old = frames /\ n = Len(old)
      BY <1>2, <1>4
    <2>2. Append(old, f) \in Seq(F)
      OBVIOUS
    <2>3. /\ DOMAIN Append(old, f) = 1 .. n + 1
          /\ \A i \in 1 .. n : Append(old, f)[i] = old[i]
          /\ Append(old, f)[n + 1] = f
      BY <2>1
    <2> QED BY <2>1, <2>2, <2>3
  <1>6. PICK p \in Seq(T) : p = PayloadsOf(frames)
    BY <1>1 DEF Joined
  <1>7. Len(p) = n /\ \A i \in 1 .. n : p[i] = frames[i].payload
    <2>1. DOMAIN p = 1 .. n /\ \A i \in 1 .. n : p[i] = frames[i].payload
      BY <1>4, <1>6 DEF PayloadsOf
    <2> QED BY <2>1
  <1>8. PICK t \in T : t = s
    BY <1>1
  <1>9. <<t>> \in Seq(T) /\ Len(<<t>>) = 1 /\ <<t>>[1] = t
    OBVIOUS
  <1>10. PICK q \in Seq(T) : q = p \o <<t>>
    BY <1>9, ElementsJoined
  <1>11. /\ DOMAIN q = 1 .. n + 1
         /\ \A i \in 1 .. n : q[i] = p[i]
         /\ q[n + 1] = t
    BY <1>7, <1>9, <1>10, SMTT(20)
  <1>12. q = PayloadsOf(more)
    <2>1. ASSUME NEW i \in 1 .. n + 1 PROVE q[i] = more[i].payload
      <3>1. CASE i \in 1 .. n
        BY <1>5, <1>7, <1>11, <3>1
      <3>2. CASE i = n + 1
        BY <1>3, <1>5, <1>8, <1>11, <3>2
      <3> QED BY <3>1, <3>2
    <2>2. q = [i \in 1 .. n + 1 |-> q[i]]
      BY <1>11
    <2> QED BY <1>5, <2>1, <2>2 DEF PayloadsOf
  <1>13. Joined(s, <<s>>, MarkedByte)
    BY OneJoined
  <1>14. Joined(u \o s, p \o <<s>>, MarkedByte)
    BY <1>6, <1>13, MoreJoined
  <1> QED BY <1>3, <1>5, <1>8, <1>10, <1>12, <1>14

\* A turn loses no byte and puts none elsewhere.
LEMMA TurnCarries ==
    ASSUME NEW h \in Fills, NEW w, Carries(h, w)
    PROVE  Carries(FillTurn(h), w)
  <1>1. CASE h.packet = <<>>
    BY <1>1 DEF FillTurn
  <1>2. CASE h.packet # <<>>
    <2>1. PICK s \in Seq(MarkedByte), t \in Seq(MarkedByte), p \in Nat, x \in Nat,
               frames \in Seq(FilledFrame) :
             /\ s = h.list /\ t = h.packet /\ p = h.pointer /\ x = h.next /\ frames = h.frames
             /\ h = [list |-> s, pointer |-> p, next |-> x, frames |-> frames, packet |-> t]
      BY DEF Fills, FillState
    <2>2. PICK u \in Seq(MarkedByte) :
             Joined(u, PayloadsOf(frames), MarkedByte) /\ u \o (s \o t) = w
      BY <2>1, JoinedIsSequence DEF Carries
    <2>3. PICK limit \in Nat \ {0} : limit = TmSize - Len(s)
      <3>1. Len(s) < TmSize
        <4>1. TmSize \in Nat /\ TmSize >= 1 /\ (s = <<>> => Len(s) = 0)
          BY SpacePacketsAssumption
        <4>2. Filling(s, p) \/ s = <<>>
          BY <1>2, <2>1 DEF Fills, FillLeft
        <4> QED BY <4>1, <4>2 DEF Filling
      <3>2. TmSize \in Nat /\ Len(s) \in Nat
        BY SpacePacketsAssumption
      <3> QED BY <3>1, <3>2
    <2>4. PICK first, left \in Seq(MarkedByte) : first = Take(t, limit) /\ left = Drop(t, limit)
      BY TakenAndLeft
    <2>5. first \o left = t
      BY <2>4, TakenAndLeftJoined
    <2>6. PICK grown \in Seq(MarkedByte) : grown = s \o first
      BY ElementsJoined
    <2>7. PICK y : y = next_pointer(t, limit, x)
      OBVIOUS
    <2>8. FillTurn(h) =
             IF Len(grown) = TmSize
             THEN [list |-> <<>>, pointer |-> y, next |-> y, packet |-> left,
                   frames |-> Append(frames, [pointer |-> p, payload |-> grown])]
             ELSE [h EXCEPT !.list = grown, !.next = y, !.packet = left]
      BY <1>2, <2>1, <2>3, <2>4, <2>6, <2>7, Zenon DEF FillTurn
    <2>9. s \o t = grown \o left
      <3>1. (s \o first) \o left = s \o (first \o left)
        BY JoinedThrice, SMTT(20)
      <3> QED BY <2>5, <2>6, <3>1, Zenon
    <2>10. CASE Len(grown) = TmSize
      <3>1. PICK more : more = Append(frames, [pointer |-> p, payload |-> grown])
        OBVIOUS
      <3>2. Joined(u \o grown, PayloadsOf(more), MarkedByte)
        BY <2>2, <3>1, PayloadMore
      <3>3. FillTurn(h).list = <<>> /\ FillTurn(h).packet = left /\ FillTurn(h).frames = more
        BY <2>8, <2>10, <3>1
      <3>4. (u \o grown) \o (<<>> \o left) = w
        <4>1. <<>> \o left = left
          OBVIOUS
        <4>2. (u \o grown) \o left = u \o (grown \o left)
          BY JoinedThrice, SMTT(20)
        <4> QED BY <2>2, <2>9, <4>1, <4>2
      <3> QED BY <3>2, <3>3, <3>4, Zenon DEF Carries
    <2>11. CASE Len(grown) # TmSize
      <3>1. FillTurn(h).list = grown /\ FillTurn(h).packet = left /\ FillTurn(h).frames = frames
        BY <2>1, <2>8, <2>11
      <3> QED BY <2>2, <2>9, <3>1, Zenon DEF Carries
    <2> QED BY <2>10, <2>11
  <1> QED BY <1>1, <1>2

\* The payload of a TM frame comes down without the control field.
LEMMA PayloadBack ==
    ASSUME NEW vc, NEW pointer, NEW s \in Seq(MarkedByte), NEW f,
           f = [vc |-> vc, pointer |-> pointer, payload |-> with_ocf(vc, s)]
    PROVE  Payload(f) = s
  <1>1. f.vc = vc /\ f.payload = with_ocf(vc, s)
    OBVIOUS
  <1>2. CASE vc \notin OcfChannels
    BY <1>1, <1>2 DEF Payload, with_ocf
  <1>3. CASE vc \in OcfChannels
    <2>1. PICK S : S = MarkedByte
      OBVIOUS
    <2>2. PICK b \in S : b = [byte |-> 0, packet |-> 0, at |-> 0]
      BY <2>1 DEF MarkedByte
    <2>3. PICK n \in Nat, v \in Seq(S), t \in Seq(S) : n = Len(s) /\ v = Append(s, b) /\ t = s
      <3>1. Len(s) \in Nat /\ Append(s, b) \in Seq(S) /\ s \in Seq(S)
        BY <2>1
      <3> QED BY <3>1
    <2>4. Len(t) = n /\ Len(v) = n + 1 /\ \A i \in 1 .. n : v[i] = t[i]
      BY <2>3
    <2>5. Payload(f) = SubSeq(v, 1, Len(v) - 1)
      BY <1>1, <1>3, <2>2, <2>3 DEF Payload, with_ocf, OcfLen
    <2>6. Len(v) - 1 = n
      BY <2>4
    <2>7. PICK x \in Seq(S) : x = SubSeq(v, 1, n) /\ Len(x) = n /\ \A i \in 1 .. n : x[i] = v[i]
      <3>1. /\ SubSeq(v, 1, n) \in Seq(S)
            /\ Len(SubSeq(v, 1, n)) = n
            /\ \A i \in 1 .. n : SubSeq(v, 1, n)[i] = v[i]
        BY <2>4
      <3> QED BY <3>1
    <2>8. x = t
      BY <2>4, <2>7, SameElements
    <2> QED BY <2>3, <2>5, <2>6, <2>7, <2>8
  <1> QED BY <1>2, <1>3

------------------------------------------------------------------------------
\* What the blocks on board keep true: no TM frame is full, and every one on its way and
\* every one being filled is pointed to.
LinkFrame == [vc : TmChannels, pointer : Nat, payload : Seq(MarkedByte)]

FramePointed(frame) == Pointed(frame.payload, frame.pointer, NoHeader)

PointersKept == /\ sent \in [TmChannels -> Seq(Seq(Nat))]
                /\ list \in [TmChannels -> Seq(MarkedByte)]
                /\ first_header_pointer \in [TmChannels -> Nat]
                /\ \A vc \in TmChannels : Filling(list[vc], first_header_pointer[vc])
                /\ link \in Seq(LinkFrame)
                /\ \A i \in DOMAIN link : FramePointed(link[i])

\* No frame is on the link and nothing is kept by the sender, initially.
LEMMA PointersInitially == SpacePacketInit => PointersKept
  <1>1. Filling(<<>>, 0)
    BY SpacePacketsAssumption DEF Filling, Pointed, NothingStarts
  <1>2. <<>> \in Seq(MarkedByte) /\ <<>> \in Seq(LinkFrame) /\ <<>> \in Seq(Seq(Nat))
    OBVIOUS
  <1> QED BY <1>1, <1>2 DEF SpacePacketInit, PointersKept

\* The bytes of a packet, marked: it starts with the first.
LEMMA MarkedPacket ==
    ASSUME NEW apid \in ApIds, NEW payload \in Payloads, NEW n \in Nat
    PROVE  /\ with_primary_header(apid, payload) \in Seq(Nat)
           /\ Marked(with_primary_header(apid, payload), n) \in Seq(MarkedByte)
           /\ Marked(with_primary_header(apid, payload), n) # <<>>
           /\ FirstStarts(Marked(with_primary_header(apid, payload), n))
  <1>1. payload \in Seq(Nat) /\ apid \in Nat
    BY SpacePacketsAssumption
  <1>2. PICK header \in Seq(Nat) : header = <<apid, Len(payload)>> /\ Len(header) = 2
    <2>1. PICK a, b \in Nat : a = apid /\ b = Len(payload)
      BY <1>1
    <2>2. <<a, b>> \in Seq(Nat) /\ Len(<<a, b>>) = 2
      OBVIOUS
    <2> QED BY <2>1, <2>2
  <1>3. PICK packet \in Seq(Nat) : packet = with_primary_header(apid, payload)
    BY <1>1, <1>2, ElementsJoined DEF with_primary_header
  <1>4. PICK m \in Nat \ {0} : m = Len(packet)
    <2>1. Len(packet) = 2 + Len(payload)
      BY <1>1, <1>2, <1>3, ElementsJoined DEF with_primary_header
    <2> QED BY <1>1, <2>1
  <1>5. PICK t : t = [i \in 1 .. m |-> [byte |-> packet[i], packet |-> n, at |-> i]]
    OBVIOUS
  <1>6. Marked(packet, n) = t
    BY <1>4, <1>5 DEF Marked
  <1>7. \A i \in 1 .. m : [byte |-> packet[i], packet |-> n, at |-> i] \in MarkedByte
    BY <1>4 DEF MarkedByte
  <1>8. t \in Seq(MarkedByte) /\ Len(t) = m
    BY <1>5, <1>7
  <1>9. t # <<>> /\ DOMAIN t = 1 .. m
    BY <1>8, NoElement
  <1>10. \A i \in 1 .. m : t[i].at = i
    BY <1>5
  <1>11. FirstStarts(t)
    BY <1>9, <1>10, Zenon DEF FirstStarts
  <1> QED BY <1>3, <1>6, <1>8, <1>9, <1>11

\* Nothing starts in the control field.
LEMMA ControlFieldPointed ==
    ASSUME NEW vc, NEW s \in Seq(MarkedByte), NEW pointer \in Nat, Pointed(s, pointer, NoHeader)
    PROVE  with_ocf(vc, s) \in Seq(MarkedByte) /\ Pointed(with_ocf(vc, s), pointer, NoHeader)
  <1>1. CASE vc \notin OcfChannels
    BY <1>1 DEF with_ocf
  <1>2. CASE vc \in OcfChannels
    <2>1. PICK b \in MarkedByte : b = [byte |-> 0, packet |-> 0, at |-> 0]
      BY DEF MarkedByte
    <2>2. b.at # 1
      BY <2>1
    <2>3. PICK S : S = MarkedByte
      OBVIOUS
    <2>4. PICK n \in Nat, u \in Seq(S) : n = Len(s) /\ u = Append(s, b)
      <3>1. Len(s) \in Nat /\ Append(s, b) \in Seq(S)
        BY <2>3
      <3> QED BY <3>1
    <2>5. /\ DOMAIN u = 1 .. n + 1 /\ DOMAIN s = 1 .. n
          /\ \A i \in 1 .. n : u[i] = s[i]
          /\ u[n + 1] = b
      BY <2>3, <2>4
    <2>6. \A i \in 1 .. n + 1 : i \in 1 .. n \/ i = n + 1
      BY <2>4
    <2>7. \A i \in 1 .. n : i \in 1 .. n + 1
      BY <2>4
    <2>8. NothingStarts(u) <=> NothingStarts(s)
      BY <2>2, <2>5, <2>6, <2>7, Zenon DEF NothingStarts
    <2>9. \A k : StartsFirst(s, k) => StartsFirst(u, k)
      BY <2>2, <2>5, <2>6, <2>7, Zenon DEF StartsFirst
    <2>10. Pointed(u, pointer, NoHeader)
      BY <2>8, <2>9, Zenon DEF Pointed
    <2> QED BY <1>2, <2>1, <2>3, <2>4, <2>10 DEF with_ocf
  <1> QED BY <1>1, <1>2

\* Of the packets sent on a virtual channel there is one more, and the TM frames it fills
\* are on their way.
SendsFrames(vc, packet, s, p, new) ==
    /\ sent' = [sent EXCEPT ![vc] = Append(@, packet)]
    /\ list' = [list EXCEPT ![vc] = s]
    /\ first_header_pointer' = [first_header_pointer EXCEPT ![vc] = p]
    /\ link' = link \o new

\* They hold what the blocks had of the virtual channel and the packet.
HoldFrames(vc, packet, s, frames, new) ==
    /\ Len(new) = Len(frames)
    /\ \A i \in 1 .. Len(new) : new[i].vc = vc /\ Payload(new[i]) = frames[i].payload
    /\ \E u : /\ Joined(u, PayloadsOf(frames), MarkedByte)
              /\ u \o s = list[vc] \o Marked(packet, Len(sent[vc]) + 1)

\* A packet is sent: what becomes of it.
LEMMA PacketSent ==
    ASSUME PointersKept, NEW vc \in TmChannels, NEW apid \in ApIds, NEW payload \in Payloads,
           SendPacket(vc, apid, payload)
    PROVE  \E packet \in Seq(Nat), s \in Seq(MarkedByte), p \in Nat,
              frames \in Seq(FilledFrame), new \in Seq(LinkFrame) :
                 /\ packet = with_primary_header(apid, payload)
                 /\ Filling(s, p)
                 /\ \A i \in 1 .. Len(new) : FramePointed(new[i])
                 /\ SendsFrames(vc, packet, s, p, new)
                 /\ HoldFrames(vc, packet, s, frames, new)
  <1>1. PICK n \in Nat : n = Len(sent[vc]) + 1
    <2>1. sent[vc] \in Seq(Seq(Nat))
      BY DEF PointersKept
    <2> QED BY <2>1
  <1>2. PICK packet \in Seq(Nat), t \in Seq(MarkedByte) :
          /\ packet = with_primary_header(apid, payload)
          /\ t = Marked(packet, n) /\ t # <<>> /\ FirstStarts(t)
    BY MarkedPacket
  <1>3. PICK w : w = list[vc] \o t
    OBVIOUS
  <1>4. PICK h : h = [list |-> list[vc], pointer |-> first_header_pointer[vc], next |-> 0,
                      frames |-> <<>>, packet |-> t]
    OBVIOUS
  <1>5. PICK D : D = {g \in Fills : Carries(g, w)}
    OBVIOUS
  <1>6. h \in D
    <2>1. h \in FillState
      <3>1. <<>> \in Seq(FilledFrame)
        OBVIOUS
      <3> QED BY <1>4, <3>1 DEF FillState, PointersKept
    <2>2. FillLeft(h)
      BY <1>2, <1>4 DEF FillLeft, PointersKept
    <2>3. FramesPointed(h.frames)
      BY <1>4 DEF FramesPointed
    <2>4. Carries(h, w)
      <3>1. PICK T : T = Seq(MarkedByte)
        OBVIOUS
      <3>2. <<>> \in Seq(T) /\ DOMAIN <<>> = {}
        OBVIOUS
      <3>3. Joined(<<>>, <<>>, MarkedByte)
        BY <3>1, <3>2, NothingJoined
      <3>4. PayloadsOf(h.frames) = <<>>
        BY <1>4 DEF PayloadsOf
      <3>5. \A v \in Seq(MarkedByte) : <<>> \o v = v
        OBVIOUS
      <3>6. h.list = list[vc] /\ h.packet = t /\ w \in Seq(MarkedByte)
        BY <1>3, <1>4, ElementsJoined DEF PointersKept
      <3> QED BY <1>3, <3>3, <3>4, <3>5, <3>6, Zenon DEF Carries
    <2> QED BY <1>5, <2>1, <2>2, <2>3, <2>4 DEF Fills
  <1>7. PICK g \in D : g = filled(h) /\ g.packet = <<>>
    <2>1. D \subseteq Fills
      BY <1>5
    <2>2. \A k \in D : FillTurn(k) \in D
      BY <1>5, TurnFills, TurnCarries
    <2> QED BY <1>6, <2>1, <2>2, PacketFills
  <1>8. PICK s \in Seq(MarkedByte), p \in Nat, frames \in Seq(FilledFrame) :
          /\ s = g.list /\ p = g.pointer /\ frames = g.frames
          /\ Filling(s, p) /\ FramesPointed(frames)
    BY <1>5, <1>7 DEF Fills, FillState, FillLeft
  <1>9. PICK u : Joined(u, PayloadsOf(frames), MarkedByte) /\ u \o s = w
    <2>1. PICK u : Joined(u, PayloadsOf(frames), MarkedByte) /\ u \o (s \o g.packet) = w
      BY <1>5, <1>8 DEF Carries
    <2>2. \A v \in Seq(MarkedByte) : v \o <<>> = v
      OBVIOUS
    <2> QED BY <1>7, <2>1, <2>2, Zenon
  <1>10. PICK new : new = [i \in DOMAIN frames |->
                             [vc |-> vc, pointer |-> frames[i].pointer,
                              payload |-> with_ocf(vc, frames[i].payload)]]
    OBVIOUS
  <1>11. SendsFrames(vc, packet, s, p, new)
    BY <1>1, <1>2, <1>4, <1>7, <1>8, <1>10, Zenon DEF SendPacket, SendsFrames
  <1>12. PICK m \in Nat : m = Len(frames) /\ DOMAIN frames = 1 .. m
    BY NoElement
  <1>13. ASSUME NEW i \in 1 .. m
         PROVE  /\ new[i] \in LinkFrame /\ FramePointed(new[i])
                /\ new[i].vc = vc /\ Payload(new[i]) = frames[i].payload
    <2>1. PICK f \in FilledFrame : f = frames[i]
      BY <1>12
    <2>2. PICK c \in Nat, v \in Seq(MarkedByte) : c = f.pointer /\ v = f.payload /\ Pointed(v, c, NoHeader)
      <3>1. Pointed(f.payload, f.pointer, NoHeader)
        BY <1>8, <1>12, <2>1, Zenon DEF FramesPointed
      <3> QED BY <3>1 DEF FilledFrame
    <2>3. PICK x \in Seq(MarkedByte) : x = with_ocf(vc, v) /\ Pointed(x, c, NoHeader)
      BY <2>2, ControlFieldPointed
    <2>4. new[i] = [vc |-> vc, pointer |-> c, payload |-> x]
      BY <1>10, <1>12, <2>1, <2>2, <2>3
    <2>5. Payload(new[i]) = v
      BY <2>3, <2>4, PayloadBack, ZenonT(30)
    <2> QED BY <2>1, <2>2, <2>3, <2>4, <2>5 DEF LinkFrame, FramePointed
  <1>14. new \in Seq(LinkFrame) /\ Len(new) = m
    <2>1. PICK S : S = LinkFrame
      OBVIOUS
    <2>2. new = [i \in 1 .. m |-> new[i]]
      BY <1>10, <1>12
    <2>3. \A i \in 1 .. m : new[i] \in S
      BY <1>13, <2>1
    <2>4. ASSUME NEW v, v = [i \in 1 .. m |-> v[i]], \A i \in 1 .. m : v[i] \in S
          PROVE  v \in Seq(S) /\ Len(v) = m
      BY <1>12, <2>4
    <2> QED BY <2>1, <2>2, <2>3, <2>4, Zenon
  <1>15. HoldFrames(vc, packet, s, frames, new)
    BY <1>1, <1>2, <1>3, <1>9, <1>12, <1>13, <1>14, Zenon DEF HoldFrames
  <1>16. \A i \in 1 .. Len(new) : FramePointed(new[i])
    BY <1>13, <1>14, Zenon
  <1> QED BY <1>2, <1>8, <1>11, <1>14, <1>15, <1>16, Zenon

\* A packet is sent.
LEMMA SendKeepsPointers ==
    ASSUME PointersKept, NEW vc \in TmChannels, NEW apid \in ApIds, NEW payload \in Payloads,
           SendPacket(vc, apid, payload)
    PROVE  PointersKept'
  <1>1. PICK old \in Seq(LinkFrame) : old = link /\ \A i \in DOMAIN old : FramePointed(old[i])
    BY DEF PointersKept
  <1>2. PICK packet \in Seq(Nat), s \in Seq(MarkedByte), p \in Nat, new \in Seq(LinkFrame) :
          /\ Filling(s, p)
          /\ \A i \in 1 .. Len(new) : FramePointed(new[i])
          /\ SendsFrames(vc, packet, s, p, new)
    BY PacketSent
  <1>9. /\ sent' = [sent EXCEPT ![vc] = Append(@, packet)]
        /\ list' = [list EXCEPT ![vc] = s]
        /\ first_header_pointer' = [first_header_pointer EXCEPT ![vc] = p]
        /\ link' = old \o new
    BY <1>1, <1>2, Zenon DEF SendsFrames
  <1>10. PICK m \in Nat : m = Len(new) /\ DOMAIN new = 1 .. m
    BY NoElement
  <1>11. \A i \in 1 .. m : FramePointed(new[i])
    BY <1>2, <1>10
  <1>12. PICK S : S = LinkFrame
    OBVIOUS
  <1>13. new \in Seq(S) /\ Len(new) = m
    BY <1>10, <1>12
  <1>14. /\ old \o new \in Seq(S)
         /\ \A i \in DOMAIN (old \o new) : FramePointed((old \o new)[i])
    <2>1. PICK a \in Nat : a = Len(old) /\ DOMAIN old = 1 .. a
      BY NoElement
    <2>2. /\ old \o new \in Seq(S)
          /\ Len(old \o new) = a + m
          /\ \A k \in 1 .. a : (old \o new)[k] = old[k]
          /\ \A k \in 1 .. m : (old \o new)[a + k] = new[k]
      <3>1. old \in Seq(S)
        BY <1>12
      <3>2. /\ old \o new \in Seq(S)
            /\ Len(old \o new) = Len(old) + Len(new)
            /\ \A k \in 1 .. Len(old) : (old \o new)[k] = old[k]
            /\ \A k \in 1 .. Len(new) : (old \o new)[Len(old) + k] = new[k]
        <4>1. ASSUME NEW q \in Seq(S), NEW r \in Seq(S)
              PROVE  /\ q \o r \in Seq(S)
                     /\ Len(q \o r) = Len(q) + Len(r)
                     /\ \A k \in 1 .. Len(q) : (q \o r)[k] = q[k]
                     /\ \A k \in 1 .. Len(r) : (q \o r)[Len(q) + k] = r[k]
          BY ElementsJoined
        <4> QED BY <1>13, <3>1, <4>1, Zenon
      <3> QED BY <1>13, <2>1, <3>2, Zenon
    <2>3. DOMAIN (old \o new) = 1 .. a + m
      BY <2>2, NoElement
    <2>4. \A i \in 1 .. a + m : i \in 1 .. a \/ \E k \in 1 .. m : i = a + k
      <3>1. ASSUME NEW i \in 1 .. a + m, i \notin 1 .. a PROVE \E k \in 1 .. m : i = a + k
        <4>1. i - a \in 1 .. m /\ i = a + (i - a)
          BY <1>10, <2>1, <3>1
        <4> QED BY <4>1
      <3> QED BY <3>1
    <2>5. ASSUME NEW i \in 1 .. a + m PROVE FramePointed((old \o new)[i])
      <3>1. CASE i \in 1 .. a
        BY <1>1, <2>1, <2>2, <3>1, Zenon
      <3>2. CASE \E k \in 1 .. m : i = a + k
        BY <1>11, <2>2, <3>2, Zenon
      <3> QED BY <2>4, <3>1, <3>2, Zenon
    <2> QED BY <2>2, <2>3, <2>5, Zenon
  <1>15. (\A i \in DOMAIN link : FramePointed(link[i]))'
    BY <1>9, <1>14, Zenon DEF FramePointed, Pointed, NothingStarts, StartsFirst
  <1>16. sent' \in [TmChannels -> Seq(Seq(Nat))]
    <2>1. PICK P : P = Seq(Nat)
      OBVIOUS
    <2>2. Append(sent[vc], packet) \in Seq(P)
      BY <2>1 DEF PointersKept
    <2> QED BY <1>9, <2>1, <2>2 DEF PointersKept
  <1>17. /\ list' \in [TmChannels -> Seq(MarkedByte)]
         /\ first_header_pointer' \in [TmChannels -> Nat]
    BY <1>9 DEF PointersKept
  <1>18. ASSUME NEW c \in TmChannels PROVE Filling(list'[c], first_header_pointer'[c])
    BY <1>2, <1>9 DEF PointersKept
  <1>19. (\A c \in TmChannels : Filling(list[c], first_header_pointer[c]))'
    BY <1>18, Zenon DEF Filling, Pointed, NothingStarts, StartsFirst
  <1> QED BY <1>9, <1>12, <1>14, <1>15, <1>16, <1>17, <1>19, Zenon DEF PointersKept

\* A TM frame leaves the link.
LEMMA FrameLeaves ==
    ASSUME PointersKept, link # <<>>, link' = Tail(link),
           UNCHANGED <<sent, list, first_header_pointer>>
    PROVE  PointersKept'
  <1>1. PICK S : S = LinkFrame
    OBVIOUS
  <1>2. PICK old \in Seq(S), n \in Nat :
          /\ old = link /\ n = Len(old) /\ n >= 1 /\ DOMAIN old = 1 .. n
          /\ \A i \in DOMAIN old : FramePointed(old[i])
    <2>1. link \in Seq(S) /\ \A i \in DOMAIN link : FramePointed(link[i])
      BY <1>1 DEF PointersKept
    <2>2. Len(link) \in Nat /\ Len(link) # 0 /\ DOMAIN link = 1 .. Len(link)
      BY <2>1, NoElement
    <2> QED BY <2>1, <2>2
  <1>3. PICK new \in Seq(S) :
          /\ new = Tail(old) /\ DOMAIN new = 1 .. n - 1
          /\ \A i \in 1 .. n - 1 : new[i] = old[i + 1] /\ i + 1 \in 1 .. n
    BY <1>2
  <1>4. link' = new
    BY <1>2, <1>3
  <1>5. \A i \in DOMAIN new : FramePointed(new[i])
    BY <1>2, <1>3, Zenon
  <1>6. (\A i \in DOMAIN link : FramePointed(link[i]))'
    BY <1>4, <1>5, Zenon DEF FramePointed, Pointed, NothingStarts, StartsFirst
  <1>7. (\A vc \in TmChannels : Filling(list[vc], first_header_pointer[vc]))'
    BY DEF PointersKept, Filling, Pointed, NothingStarts, StartsFirst
  <1> QED BY <1>1, <1>3, <1>4, <1>6, <1>7 DEF PointersKept

\* Every step of a link keeps the pointers of its frames right.
LEMMA StepKeepsPointers == PointersKept /\ [SpacePacketNext]_spacePacketVars => PointersKept'
  <1> SUFFICES ASSUME PointersKept, [SpacePacketNext]_spacePacketVars PROVE PointersKept'
    OBVIOUS
  <1>1. CASE \E vc \in TmChannels, apid \in ApIds, payload \in Payloads :
                 SendPacket(vc, apid, payload)
    BY <1>1, SendKeepsPointers
  <1>2. CASE ReceiveFrame \/ LoseFrame
    BY <1>2, FrameLeaves DEF ReceiveFrame, LoseFrame
  <1>3. CASE UNCHANGED spacePacketVars
    BY <1>3 DEF spacePacketVars, PointersKept, Filling, FramePointed, Pointed, NothingStarts,
                StartsFirst
  <1> QED BY <1>1, <1>2, <1>3 DEF SpacePacketNext

\* What is pointed to is where the first packet starts.
LEMMA PointersAreRight == PointersKept => PointsToFirstHeader
  <1> SUFFICES ASSUME PointersKept, NEW i \in DOMAIN link
               PROVE  LET starts == {j \in DOMAIN link[i].payload : link[i].payload[j].at = 1}
                      IN  IF starts = {} THEN link[i].pointer = NoHeader
                          ELSE link[i].pointer + 1 \in starts
                               /\ \A j \in starts : link[i].pointer + 1 <= j
    BY DEF PointsToFirstHeader
  <1>1. PICK s, p : s = link[i].payload /\ p = link[i].pointer
    OBVIOUS
  <1>2. Pointed(s, p, NoHeader)
    BY <1>1 DEF PointersKept, FramePointed
  <1>3. PICK starts : starts = {j \in DOMAIN s : s[j].at = 1}
    OBVIOUS
  <1>4. NothingStarts(s) <=> starts = {}
    BY <1>3, Zenon DEF NothingStarts
  <1>5. StartsFirst(s, p + 1) => p + 1 \in starts /\ \A j \in starts : p + 1 <= j
    BY <1>3, Zenon DEF StartsFirst
  <1> QED BY <1>1, <1>2, <1>3, <1>4, <1>5, Zenon DEF Pointed

\* No TM frame is full, and each one on its way and each one being filled is pointed to
\* (telemetry_primaryheader_adder.handle_msg()).
THEOREM FramesArePointed == SpacePacketSpec => []PointersKept
  BY PointersInitially, StepKeepsPointers, PTL DEF SpacePacketSpec

\* The first header pointer of a TM frame is where the first packet starts in it, whatever
\* the sizes of packets and TM frames (telemetry_primaryheader_adder.handle_msg()).
THEOREM HeadersPointedTo == SpacePacketSpec => []PointsToFirstHeader
  BY FramesArePointed, PointersAreRight, PTL

------------------------------------------------------------------------------
\* The bytes of a virtual channel, of the packets all, of which those in gone have lost a
\* byte.
WellFormed(all) ==
    /\ all \in Seq(Seq(Nat))
    /\ \A n \in 1 .. Len(all) : /\ Len(all[n]) >= HeaderLen
                                /\ all[n][2] = Len(all[n]) - HeaderLen

OfPacket(b, all) == /\ b.packet \in 1 .. Len(all)
                    /\ b.at \in 1 .. Len(all[b.packet])
                    /\ b.byte = all[b.packet][b.at]

MayEnd(b, all, gone) == b.at = Len(all[b.packet]) \/ b.packet \in gone

MayBegin(b, gone) == b.at = 1 \/ b.packet \in gone

\* Byte c comes behind b: it is the next one, or only bytes of packets that have lost some
\* are missing between them.
Adjoins(b, c, all, gone) == \/ c.packet = b.packet /\ c.at = b.at + 1
                            \/ MayEnd(b, all, gone) /\ MayBegin(c, gone)

Chain(w, all, gone) ==
    /\ w \in Seq(MarkedByte)
    /\ \A i \in 1 .. Len(w) : OfPacket(w[i], all)
    /\ \A i \in 1 .. Len(w) - 1 : Adjoins(w[i], w[i + 1], all, gone)
    /\ w # <<>> => MayBegin(w[1], gone) /\ MayEnd(w[Len(w)], all, gone)

\* The byte of a packet.
IsByte(b, packet, n, i) == b.byte = packet[i] /\ b.packet = n /\ b.at = i

\* The bytes of a packet.
LEMMA ByteOfPacket ==
    ASSUME NEW apid \in ApIds, NEW payload \in Payloads, NEW n \in Nat, NEW packet,
           packet = with_primary_header(apid, payload)
    PROVE  /\ packet \in Seq(Nat) /\ Len(packet) >= HeaderLen
           /\ packet[2] = Len(packet) - HeaderLen
           /\ Marked(packet, n) \in Seq(MarkedByte) /\ Len(Marked(packet, n)) = Len(packet)
           /\ \A i \in 1 .. Len(packet) : IsByte(Marked(packet, n)[i], packet, n, i)
  <1>1. payload \in Seq(Nat) /\ apid \in Nat
    BY SpacePacketsAssumption
  <1>2. PICK header \in Seq(Nat), b \in Nat :
          /\ header = <<apid, Len(payload)>> /\ Len(header) = 2 /\ b = Len(payload)
          /\ header[2] = b
    <2>1. PICK a, b \in Nat : a = apid /\ b = Len(payload)
      BY <1>1
    <2>2. <<a, b>> \in Seq(Nat) /\ Len(<<a, b>>) = 2 /\ <<a, b>>[2] = b
      OBVIOUS
    <2> QED BY <2>1, <2>2
  <1>3. PICK p \in Seq(Nat), m \in Nat \ {0} :
          /\ p = packet /\ m = Len(p) /\ m = 2 + b /\ p[2] = b /\ DOMAIN p = 1 .. m
    <2>1. PICK p \in Seq(Nat) : p = header \o payload
      BY <1>1, ElementsJoined
    <2>2. Len(p) = 2 + b /\ DOMAIN p = 1 .. Len(p) /\ p[2] = b
      BY <1>1, <1>2, <2>1, ElementsJoined
    <2>3. packet = p
      BY <1>2, <2>1 DEF with_primary_header
    <2>4. 2 + b \in Nat \ {0}
      OBVIOUS
    <2> QED BY <2>2, <2>3, <2>4
  <1>4. PICK t : t = [i \in 1 .. m |-> [byte |-> p[i], packet |-> n, at |-> i]]
    OBVIOUS
  <1>5. Marked(packet, n) = t
    BY <1>3, <1>4 DEF Marked
  <1>6. \A i \in 1 .. m : [byte |-> p[i], packet |-> n, at |-> i] \in MarkedByte
    BY <1>3 DEF MarkedByte
  <1>7. t \in Seq(MarkedByte) /\ Len(t) = m
    BY <1>4, <1>6
  <1>8. Len(packet) = m /\ m >= HeaderLen /\ packet[2] = m - HeaderLen
    BY <1>3 DEF HeaderLen
  <1>9. \A i \in 1 .. m : IsByte(t[i], packet, n, i)
    BY <1>3, <1>4 DEF IsByte
  <1> QED BY <1>3, <1>5, <1>7, <1>8, <1>9

\* A packet more.
LEMMA PacketMore ==
    ASSUME NEW all, WellFormed(all), NEW packet \in Seq(Nat), Len(packet) >= HeaderLen,
           packet[2] = Len(packet) - HeaderLen
    PROVE  /\ WellFormed(Append(all, packet))
           /\ Len(Append(all, packet)) = Len(all) + 1
           /\ Append(all, packet)[Len(all) + 1] = packet
           /\ \A n \in 1 .. Len(all) : Append(all, packet)[n] = all[n]
           /\ Len(all) \in Nat
  <1>1. PICK T : T = Seq(Nat)
    OBVIOUS
  <1>2. PICK old \in Seq(T), new \in Seq(T) : old = all /\ new = Append(old, packet)
    <2>1. PICK old \in Seq(T) : old = all
      BY <1>1 DEF WellFormed
    <2>2. Append(old, packet) \in Seq(T)
      BY <1>1
    <2> QED BY <2>1, <2>2
  <1>3. PICK n \in Nat : n = Len(old)
    OBVIOUS
  <1>4. /\ Len(new) = n + 1 /\ new[n + 1] = packet
        /\ \A i \in 1 .. n : new[i] = old[i]
    BY <1>1, <1>2, <1>3
  <1>5. \A i \in 1 .. n + 1 : i \in 1 .. n \/ i = n + 1
    OBVIOUS
  <1>6. ASSUME NEW i \in 1 .. n + 1
        PROVE  Len(new[i]) >= HeaderLen /\ new[i][2] = Len(new[i]) - HeaderLen
    <2>1. CASE i \in 1 .. n
      BY <1>2, <1>3, <1>4, <2>1, Zenon DEF WellFormed
    <2>2. CASE i = n + 1
      BY <1>4, <2>2, Zenon
    <2> QED BY <1>5, <2>1, <2>2
  <1> QED BY <1>1, <1>2, <1>3, <1>4, <1>6, Zenon DEF WellFormed

\* A packet is sent behind the bytes of a virtual channel.
LEMMA ChainGrows ==
    ASSUME NEW all, WellFormed(all), NEW w, NEW gone, Chain(w, all, gone),
           NEW apid \in ApIds, NEW payload \in Payloads, NEW packet,
           packet = with_primary_header(apid, payload)
    PROVE  /\ WellFormed(Append(all, packet))
           /\ Chain(w \o Marked(packet, Len(all) + 1), Append(all, packet), gone)
  <1>1. PICK n \in Nat : n = Len(all) + 1 /\ n - 1 = Len(all)
    <2>1. PICK T : T = Seq(Nat)
      OBVIOUS
    <2>2. all \in Seq(T)
      BY <2>1 DEF WellFormed
    <2>3. Len(all) + 1 \in Nat /\ (Len(all) + 1) - 1 = Len(all)
      BY <2>2
    <2> QED BY <2>3
  <1>0. PICK new : new = Append(all, packet)
    OBVIOUS
  <1>2. PICK t \in Seq(MarkedByte) : t = Marked(packet, n)
    BY ByteOfPacket
  <1>3. PICK h \in Nat \ {0} :
          /\ h = Len(packet) /\ h = Len(t)
          /\ \A i \in 1 .. h : IsByte(t[i], packet, n, i)
    <2>1. /\ Len(packet) = Len(t) /\ packet \in Seq(Nat) /\ Len(packet) >= HeaderLen
          /\ \A i \in 1 .. Len(packet) : IsByte(t[i], packet, n, i)
      BY <1>2, ByteOfPacket
    <2>2. Len(packet) \in Nat \ {0}
      BY <2>1 DEF HeaderLen
    <2> QED BY <2>1, <2>2
  <1>4. /\ WellFormed(new) /\ Len(new) = n /\ new[n] = packet
        /\ \A i \in 1 .. n - 1 : new[i] = all[i]
        /\ Len(all) = n - 1
    <2>1. packet \in Seq(Nat) /\ Len(packet) >= HeaderLen /\ packet[2] = Len(packet) - HeaderLen
      BY ByteOfPacket
    <2> QED BY <1>0, <1>1, <2>1, PacketMore
  <1>5. PICK a \in Nat : a = Len(w) /\ w \in Seq(MarkedByte)
    BY DEF Chain
  <1>6. PICK x \in Seq(MarkedByte) : x = w \o t
    BY <1>5, ElementsJoined
  <1>7. /\ Len(x) = a + h
        /\ \A i \in 1 .. a : x[i] = w[i]
        /\ \A i \in 1 .. h : x[a + i] = t[i]
    BY <1>3, <1>5, <1>6, ElementsJoined
  <1>8. \A i \in 1 .. a + h : i \in 1 .. a \/ \E k \in 1 .. h : i = a + k
    <2>1. ASSUME NEW i \in 1 .. a + h, i \notin 1 .. a PROVE \E k \in 1 .. h : i = a + k
      <3>1. i - a \in 1 .. h /\ i = a + (i - a)
        BY <2>1
      <3> QED BY <3>1
    <2> QED BY <2>1
  <1>9. ASSUME NEW b, OfPacket(b, all)
        PROVE  /\ OfPacket(b, new)
               /\ MayEnd(b, all, gone) => MayEnd(b, new, gone)
    <2>1. b.packet \in 1 .. n - 1 /\ b.packet \in 1 .. n
      BY <1>4, <1>9 DEF OfPacket
    <2>2. new[b.packet] = all[b.packet]
      BY <1>4, <2>1
    <2> QED BY <1>4, <1>9, <2>1, <2>2, Zenon DEF OfPacket, MayEnd
  <1>10. ASSUME NEW i \in 1 .. h PROVE OfPacket(t[i], new)
    <2>1. t[i].packet = n /\ t[i].at = i /\ t[i].byte = packet[i]
      BY <1>3 DEF IsByte
    <2>2. n \in 1 .. n
      BY <1>4
    <2> QED BY <1>3, <1>4, <2>1, <2>2 DEF OfPacket
  <1>11. ASSUME NEW i \in 1 .. a + h PROVE OfPacket(x[i], new)
    <2>1. CASE i \in 1 .. a
      BY <1>5, <1>7, <1>9, <2>1 DEF Chain
    <2>2. CASE \E k \in 1 .. h : i = a + k
      BY <1>7, <1>10, <2>2
    <2> QED BY <1>8, <2>1, <2>2
  <1>12. MayBegin(t[1], gone) /\ MayEnd(t[h], new, gone)
    <2>1. 1 \in 1 .. h /\ h \in 1 .. h
      OBVIOUS
    <2>2. t[1].at = 1 /\ t[h].at = h /\ t[h].packet = n
      BY <1>3, <2>1 DEF IsByte
    <2> QED BY <1>3, <1>4, <2>2 DEF MayBegin, MayEnd
  <1>13. a # 0 => /\ OfPacket(w[a], all) /\ MayEnd(w[a], all, gone) /\ MayBegin(w[1], gone)
                  /\ MayEnd(w[a], new, gone)
    <2>1. a # 0 => a \in 1 .. a /\ w # <<>>
      BY <1>5
    <2> QED BY <1>5, <1>9, <2>1 DEF Chain
  <1>14. ASSUME NEW i \in 1 .. a + h - 1 PROVE Adjoins(x[i], x[i + 1], new, gone)
    <2>1. CASE i < a
      <3>1. i \in 1 .. a /\ i + 1 \in 1 .. a /\ i \in 1 .. a - 1
        BY <2>1
      <3>2. Adjoins(w[i], w[i + 1], all, gone) /\ OfPacket(w[i], all)
        BY <1>5, <3>1 DEF Chain
      <3>3. Adjoins(w[i], w[i + 1], new, gone)
        BY <1>9, <3>2, Zenon DEF Adjoins
      <3> QED BY <1>7, <3>1, <3>3
    <2>2. CASE i = a
      <3>1. a # 0 /\ 1 \in 1 .. h /\ a \in 1 .. a
        BY <2>2
      <3>2. x[i] = w[a] /\ x[i + 1] = t[1]
        BY <1>7, <2>2, <3>1
      <3> QED BY <1>12, <1>13, <3>1, <3>2 DEF Adjoins
    <2>3. CASE i > a
      <3>1. PICK k \in 1 .. h - 1 : i = a + k
        <4>1. i - a \in 1 .. h - 1 /\ i = a + (i - a)
          BY <2>3
        <4> QED BY <4>1
      <3>2. k \in 1 .. h /\ k + 1 \in 1 .. h /\ i + 1 = a + (k + 1)
        BY <3>1
      <3>3. x[i] = t[k] /\ x[i + 1] = t[k + 1]
        BY <1>7, <3>1, <3>2
      <3>4. t[k].packet = n /\ t[k].at = k /\ t[k + 1].packet = n /\ t[k + 1].at = k + 1
        BY <1>3, <3>2 DEF IsByte
      <3> QED BY <3>3, <3>4 DEF Adjoins
    <2> QED BY <2>1, <2>2, <2>3
  <1>15. MayBegin(x[1], gone) /\ MayEnd(x[a + h], new, gone)
    <2>1. h \in 1 .. h /\ x[a + h] = t[h]
      BY <1>7
    <2>2. CASE a = 0
      <3>1. 1 \in 1 .. h /\ a + 1 = 1
        BY <2>2
      <3>2. x[1] = t[1]
        BY <1>7, <3>1
      <3> QED BY <1>12, <2>1, <3>2
    <2>3. CASE a # 0
      <3>1. 1 \in 1 .. a
        BY <2>3
      <3> QED BY <1>7, <1>12, <1>13, <2>1, <2>3, <3>1
    <2> QED BY <2>2, <2>3
  <1>16. Chain(x, new, gone)
    <2>1. \A i \in 1 .. Len(x) : OfPacket(x[i], new)
      BY <1>7, <1>11, Zenon
    <2>2. \A i \in 1 .. Len(x) - 1 : Adjoins(x[i], x[i + 1], new, gone)
      <3>1. Len(x) - 1 = a + h - 1
        BY <1>7
      <3> QED BY <1>14, <3>1, Zenon
    <2>3. MayBegin(x[1], gone) /\ MayEnd(x[Len(x)], new, gone)
      BY <1>7, <1>15, Zenon
    <2> QED BY <2>1, <2>2, <2>3, Zenon DEF Chain
  <1> QED BY <1>0, <1>1, <1>2, <1>4, <1>6, <1>16

\* Bytes in a row are lost.
LEMMA ChainCut ==
    ASSUME NEW all, NEW gone, NEW p \in Seq(MarkedByte), NEW q \in Seq(MarkedByte),
           NEW r \in Seq(MarkedByte), Chain(p \o (q \o r), all, gone), NEW more,
           gone \subseteq more, \A i \in 1 .. Len(q) : q[i].packet \in more
    PROVE  Chain(p \o r, all, more)
  <1>1. PICK y \in Seq(MarkedByte) : y = q \o r
    BY ElementsJoined
  <1>2. PICK w \in Seq(MarkedByte) : w = p \o y
    BY ElementsJoined
  <1>3. PICK x \in Seq(MarkedByte) : x = p \o r
    BY ElementsJoined
  <1>4. PICK a, b, c \in Nat : a = Len(p) /\ b = Len(q) /\ c = Len(r)
    OBVIOUS
  <1>5. /\ Len(y) = b + c
        /\ \A i \in 1 .. b : y[i] = q[i]
        /\ \A i \in 1 .. c : y[b + i] = r[i]
    BY <1>1, <1>4, ElementsJoined
  <1>6. /\ Len(w) = a + (b + c)
        /\ \A i \in 1 .. a : w[i] = p[i]
        /\ \A i \in 1 .. b + c : w[a + i] = y[i]
    <2>1. /\ Len(w) = Len(p) + Len(y)
          /\ \A i \in 1 .. Len(p) : w[i] = p[i]
          /\ \A i \in 1 .. Len(y) : w[Len(p) + i] = y[i]
      BY <1>2, ElementsJoined
    <2> QED BY <1>4, <1>5, <2>1, Zenon
  <1>7. /\ Len(x) = a + c
        /\ \A i \in 1 .. a : x[i] = p[i]
        /\ \A i \in 1 .. c : x[a + i] = r[i]
    BY <1>3, <1>4, ElementsJoined
  <1>8. \A i \in 1 .. b : w[a + i] = q[i] /\ w[a + i].packet \in more
    <2>1. ASSUME NEW i \in 1 .. b PROVE w[a + i] = q[i]
      <3>1. i \in 1 .. b + c
        OBVIOUS
      <3> QED BY <1>5, <1>6, <3>1
    <2>2. \A i \in 1 .. b : q[i].packet \in more
      BY <1>4
    <2> QED BY <2>1, <2>2
  <1>9. \A i \in 1 .. c : w[a + b + i] = r[i]
    <2>1. ASSUME NEW i \in 1 .. c PROVE w[a + b + i] = r[i]
      <3>1. b + i \in 1 .. b + c /\ a + b + i = a + (b + i)
        OBVIOUS
      <3> QED BY <1>5, <1>6, <3>1
    <2> QED BY <2>1
  <1>10. Chain(w, all, gone)
    BY <1>1, <1>2
  <1>11. /\ \A i \in 1 .. a + b + c : OfPacket(w[i], all)
         /\ \A i \in 1 .. a + b + c - 1 : Adjoins(w[i], w[i + 1], all, gone)
         /\ a + b + c # 0 => MayBegin(w[1], gone) /\ MayEnd(w[a + b + c], all, gone)
    <2>1. Len(w) = a + b + c /\ Len(w) - 1 = a + b + c - 1
      BY <1>6
    <2>2. a + b + c # 0 => w # <<>>
      BY <2>1
    <2>3. /\ \A i \in 1 .. Len(w) : OfPacket(w[i], all)
          /\ \A i \in 1 .. Len(w) - 1 : Adjoins(w[i], w[i + 1], all, gone)
          /\ w # <<>> => MayBegin(w[1], gone) /\ MayEnd(w[Len(w)], all, gone)
      BY <1>10 DEF Chain
    <2> QED BY <2>1, <2>2, <2>3, Zenon
  <1>12. \A i \in 1 .. a + b + c - 1 : Adjoins(w[i], w[i + 1], all, more)
    BY <1>11 DEF Adjoins, MayBegin, MayEnd
  <1>13. a + b + c # 0 => MayBegin(w[1], more) /\ MayEnd(w[a + b + c], all, more)
    BY <1>11 DEF MayBegin, MayEnd
  <1>14. \A i \in 1 .. a + c : i \in 1 .. a \/ \E k \in 1 .. c : i = a + k
    <2>1. ASSUME NEW i \in 1 .. a + c, i \notin 1 .. a PROVE \E k \in 1 .. c : i = a + k
      <3>1. i - a \in 1 .. c /\ i = a + (i - a)
        BY <2>1
      <3> QED BY <3>1
    <2> QED BY <2>1
  <1>15. ASSUME NEW i \in 1 .. a + c PROVE OfPacket(x[i], all)
    <2>1. CASE i \in 1 .. a
      <3>1. i \in 1 .. a + b + c
        BY <2>1
      <3>2. x[i] = w[i]
        BY <1>6, <1>7, <2>1
      <3> QED BY <1>11, <3>1, <3>2
    <2>2. CASE \E k \in 1 .. c : i = a + k
      <3>1. PICK k \in 1 .. c : i = a + k
        BY <2>2
      <3>2. a + b + k \in 1 .. a + b + c
        OBVIOUS
      <3>3. x[i] = w[a + b + k]
        BY <1>7, <1>9, <3>1
      <3> QED BY <1>11, <3>2, <3>3
    <2> QED BY <1>14, <2>1, <2>2
  \* The byte before what was lost, and the one behind.
  <1>16. a # 0 /\ b # 0 => MayEnd(w[a], all, more)
    <2>1. SUFFICES ASSUME a # 0, b # 0 PROVE MayEnd(w[a], all, more)
      OBVIOUS
    <2>2. a \in 1 .. a + b + c - 1 /\ 1 \in 1 .. b
      BY <2>1
    <2>3. Adjoins(w[a], w[a + 1], all, more) /\ w[a + 1].packet \in more
      BY <1>8, <1>12, <2>2
    <2> QED BY <2>3 DEF Adjoins, MayEnd
  <1>17. b # 0 /\ c # 0 => MayBegin(w[a + b + 1], more)
    <2>1. SUFFICES ASSUME b # 0, c # 0 PROVE MayBegin(w[a + b + 1], more)
      OBVIOUS
    <2>2. a + b \in 1 .. a + b + c - 1 /\ b \in 1 .. b
      BY <2>1
    <2>3. Adjoins(w[a + b], w[a + b + 1], all, more) /\ w[a + b].packet \in more
      BY <1>8, <1>12, <2>2
    <2> QED BY <2>3 DEF Adjoins, MayBegin
  <1>18. ASSUME NEW i \in 1 .. a + c - 1 PROVE Adjoins(x[i], x[i + 1], all, more)
    <2>1. CASE i < a
      <3>1. i \in 1 .. a /\ i + 1 \in 1 .. a /\ i \in 1 .. a + b + c - 1
        BY <2>1
      <3>2. x[i] = w[i] /\ x[i + 1] = w[i + 1]
        BY <1>6, <1>7, <3>1
      <3> QED BY <1>12, <3>1, <3>2
    <2>2. CASE i = a
      <3>1. a \in 1 .. a /\ 1 \in 1 .. c /\ a # 0 /\ c # 0
        BY <2>2
      <3>2. x[i] = w[a] /\ x[i + 1] = w[a + b + 1]
        BY <1>6, <1>7, <1>9, <2>2, <3>1
      <3>3. CASE b = 0
        <4>1. a + b + 1 = a + 1 /\ a \in 1 .. a + b + c - 1
          BY <3>1, <3>3
        <4> QED BY <1>12, <3>2, <4>1
      <3>4. CASE b # 0
        BY <1>16, <1>17, <3>1, <3>2, <3>4 DEF Adjoins
      <3> QED BY <3>3, <3>4
    <2>3. CASE i > a
      <3>1. PICK k \in 1 .. c - 1 : i = a + k
        <4>1. i - a \in 1 .. c - 1 /\ i = a + (i - a)
          BY <2>3
        <4> QED BY <4>1
      <3>2. /\ k \in 1 .. c /\ k + 1 \in 1 .. c /\ i + 1 = a + (k + 1)
            /\ a + b + k \in 1 .. a + b + c - 1 /\ a + b + (k + 1) = (a + b + k) + 1
        BY <3>1
      <3>3. x[i] = r[k] /\ x[i + 1] = r[k + 1]
        BY <1>7, <3>1, <3>2
      <3>4. w[a + b + k] = r[k] /\ w[(a + b + k) + 1] = r[k + 1]
        BY <1>9, <3>2
      <3> QED BY <1>12, <3>2, <3>3, <3>4
    <2> QED BY <2>1, <2>2, <2>3
  <1>19. a + c # 0 => MayBegin(x[1], more)
    <2>1. SUFFICES ASSUME a + c # 0 PROVE MayBegin(x[1], more)
      OBVIOUS
    <2>2. a + b + c # 0
      BY <2>1
    <2>3. CASE a # 0
      <3>1. 1 \in 1 .. a
        BY <2>3
      <3>2. x[1] = w[1]
        BY <1>6, <1>7, <3>1
      <3> QED BY <1>13, <2>2, <3>2
    <2>4. CASE a = 0
      <3>1. 1 \in 1 .. c /\ c # 0 /\ a + 1 = 1
        BY <2>1, <2>4
      <3>2. x[1] = w[a + b + 1]
        BY <1>7, <1>9, <3>1
      <3>3. CASE b = 0
        <4>1. a + b + 1 = 1
          BY <2>4, <3>3
        <4> QED BY <1>13, <2>2, <3>2, <4>1
      <3>4. CASE b # 0
        BY <1>17, <3>1, <3>2, <3>4
      <3> QED BY <3>3, <3>4
    <2> QED BY <2>3, <2>4
  <1>20. a + c # 0 => MayEnd(x[a + c], all, more)
    <2>1. SUFFICES ASSUME a + c # 0 PROVE MayEnd(x[a + c], all, more)
      OBVIOUS
    <2>2. a + b + c # 0
      BY <2>1
    <2>3. CASE c # 0
      <3>1. c \in 1 .. c
        BY <2>3
      <3>2. x[a + c] = w[a + b + c]
        BY <1>7, <1>9, <3>1
      <3> QED BY <1>13, <2>2, <3>2
    <2>4. CASE c = 0
      <3>1. a \in 1 .. a /\ a # 0 /\ a + c = a
        BY <2>1, <2>4
      <3>2. x[a + c] = w[a]
        BY <1>6, <1>7, <3>1
      <3>3. CASE b = 0
        <4>1. a + b + c = a
          BY <2>4, <3>3
        <4> QED BY <1>13, <2>2, <3>2, <4>1
      <3>4. CASE b # 0
        BY <1>16, <3>1, <3>2, <3>4
      <3> QED BY <3>3, <3>4
    <2> QED BY <2>3, <2>4
  <1>21. Chain(x, all, more)
    <2>1. Len(x) - 1 = a + c - 1 /\ (x # <<>> => a + c # 0)
      BY <1>7
    <2>2. \A i \in 1 .. Len(x) : OfPacket(x[i], all)
      BY <1>7, <1>15, Zenon
    <2>3. \A i \in 1 .. Len(x) - 1 : Adjoins(x[i], x[i + 1], all, more)
      BY <1>18, <2>1, Zenon
    <2>4. x # <<>> => MayBegin(x[1], more) /\ MayEnd(x[Len(x)], all, more)
      BY <1>7, <1>19, <1>20, <2>1, Zenon
    <2> QED BY <2>2, <2>3, <2>4, Zenon DEF Chain
  <1> QED BY <1>3, <1>21

------------------------------------------------------------------------------
\* What the link does with the bytes of a virtual channel.
PartOf(f, vc) == IF f.vc = vc THEN Payload(f) ELSE <<>>

PartsOf(frames, vc) == [i \in DOMAIN frames |-> PartOf(frames[i], vc)]

\* The bytes still to come down are those on their way and those in the TM frame that is
\* being filled.
OnTheWay(frames, vc, came, rest, all, gone) ==
    \E u : /\ Joined(u, PartsOf(frames, vc), MarkedByte)
           /\ Chain(came \o (u \o rest), all, gone)

Down(vc) == OnTheWay(link, vc, taken[vc], list[vc], sent[vc], missed[vc])

BytesKept ==
    /\ PointersKept
    /\ taken \in [TmChannels -> Seq(MarkedByte)]
    /\ missed = [vc \in TmChannels |-> missed[vc]]
    /\ \A vc \in TmChannels : WellFormed(sent[vc]) /\ Down(vc)

\* Nothing has been sent initially.
LEMMA BytesInitially == SpacePacketInit => BytesKept
  <1> SUFFICES ASSUME SpacePacketInit PROVE BytesKept
    OBVIOUS
  <1>1. PointersKept
    BY PointersInitially
  <1>2. <<>> \in Seq(MarkedByte) /\ <<>> \o <<>> = <<>> /\ <<>> \in Seq(Seq(Nat)) /\ Len(<<>>) = 0
    OBVIOUS
  <1>3. taken \in [TmChannels -> Seq(MarkedByte)] /\ missed = [vc \in TmChannels |-> missed[vc]]
    BY <1>2 DEF SpacePacketInit
  <1>4. ASSUME NEW vc \in TmChannels PROVE WellFormed(sent[vc]) /\ Down(vc)
    <2>1. /\ sent[vc] = <<>> /\ list[vc] = <<>> /\ taken[vc] = <<>> /\ missed[vc] = {}
          /\ link = <<>>
      BY DEF SpacePacketInit
    <2>2. WellFormed(<<>>)
      BY <1>2 DEF WellFormed
    <2>3. PICK T : T = Seq(MarkedByte)
      OBVIOUS
    <2>4. <<>> \in Seq(T) /\ DOMAIN <<>> = {}
      OBVIOUS
    <2>5. PartsOf(<<>>, vc) = <<>>
      BY DEF PartsOf
    <2>6. Joined(<<>>, <<>>, MarkedByte)
      BY <2>3, <2>4, NothingJoined
    <2>7. Chain(<<>>, <<>>, {})
      BY <1>2 DEF Chain
    <2> QED BY <1>2, <2>1, <2>2, <2>5, <2>6, <2>7, Zenon DEF Down, OnTheWay
  <1> QED BY <1>1, <1>3, <1>4 DEF BytesKept

\* The parts that a virtual channel has in TM frames are sequences of bytes.
LEMMA PartType ==
    ASSUME NEW frames \in Seq(LinkFrame), NEW vc
    PROVE  /\ PartsOf(frames, vc) \in Seq(Seq(MarkedByte))
           /\ Len(PartsOf(frames, vc)) = Len(frames)
           /\ \A i \in 1 .. Len(frames) : PartsOf(frames, vc)[i] = PartOf(frames[i], vc)
  <1>1. PICK n \in Nat : n = Len(frames) /\ DOMAIN frames = 1 .. n
    BY NoElement
  <1>2. PICK T : T = Seq(MarkedByte)
    OBVIOUS
  <1>3. ASSUME NEW i \in 1 .. n PROVE PartOf(frames[i], vc) \in T
    <2>1. PICK f \in LinkFrame : f = frames[i]
      BY <1>1
    <2>2. PICK s \in Seq(MarkedByte) : s = f.payload
      BY DEF LinkFrame
    <2>3. PICK S : S = MarkedByte
      OBVIOUS
    <2>4. \A t \in Seq(S) : SubSeq(t, 1, Len(t) - 1) \in Seq(S)
      OBVIOUS
    <2>5. SubSeq(s, 1, Len(s) - 1) \in T
      BY <1>2, <2>3, <2>4
    <2>6. <<>> \in T
      BY <1>2
    <2> QED BY <1>2, <2>1, <2>2, <2>5, <2>6 DEF PartOf, Payload, OcfLen
  <1>4. PICK p : p = [i \in 1 .. n |-> PartOf(frames[i], vc)]
    OBVIOUS
  <1>5. PartsOf(frames, vc) = p
    BY <1>1, <1>4 DEF PartsOf
  <1>6. p \in Seq(T) /\ Len(p) = n /\ \A i \in 1 .. n : p[i] = PartOf(frames[i], vc)
    BY <1>3, <1>4
  <1> QED BY <1>1, <1>2, <1>5, <1>6

\* More TM frames.
LEMMA MoreParts ==
    ASSUME NEW old \in Seq(LinkFrame), NEW new \in Seq(LinkFrame), NEW vc
    PROVE  PartsOf(old \o new, vc) = PartsOf(old, vc) \o PartsOf(new, vc)
  <1>1. PICK both \in Seq(LinkFrame) : both = old \o new
    BY ElementsJoined
  <1>2. PICK a, b \in Nat : a = Len(old) /\ b = Len(new)
    OBVIOUS
  <1>3. /\ Len(both) = a + b
        /\ \A i \in 1 .. a : both[i] = old[i]
        /\ \A i \in 1 .. b : both[a + i] = new[i]
    BY <1>1, <1>2, ElementsJoined
  <1>4. PICK T : T = Seq(MarkedByte)
    OBVIOUS
  <1>5. PICK p \in Seq(T), q \in Seq(T), r \in Seq(T) :
          p = PartsOf(old, vc) /\ q = PartsOf(new, vc) /\ r = PartsOf(both, vc)
    BY <1>4, PartType
  <1>6. /\ Len(p) = a /\ Len(q) = b /\ Len(r) = a + b
        /\ \A i \in 1 .. a : p[i] = PartOf(old[i], vc)
        /\ \A i \in 1 .. b : q[i] = PartOf(new[i], vc)
        /\ \A i \in 1 .. a + b : r[i] = PartOf(both[i], vc)
    BY <1>2, <1>3, <1>5, PartType, Zenon
  <1>7. PICK x \in Seq(T) : x = p \o q
    BY ElementsJoined
  <1>8. /\ Len(x) = a + b
        /\ \A i \in 1 .. a : x[i] = p[i]
        /\ \A i \in 1 .. b : x[a + i] = q[i]
    <2>1. /\ Len(x) = Len(p) + Len(q)
          /\ \A i \in 1 .. Len(p) : x[i] = p[i]
          /\ \A i \in 1 .. Len(q) : x[Len(p) + i] = q[i]
      BY <1>7, ElementsJoined
    <2> QED BY <1>6, <2>1, Zenon
  <1>9. ASSUME NEW i \in 1 .. a + b PROVE r[i] = x[i]
    <2>1. CASE i \in 1 .. a
      BY <1>3, <1>6, <1>8, <2>1
    <2>2. CASE i \notin 1 .. a
      <3>1. PICK k \in 1 .. b : i = a + k
        <4>1. i - a \in 1 .. b /\ i = a + (i - a)
          BY <2>2
        <4> QED BY <4>1
      <3>2. x[i] = PartOf(new[k], vc)
        BY <1>6, <1>8, <3>1, Zenon
      <3>3. both[i] = new[k]
        BY <1>3, <3>1, Zenon
      <3>4. r[i] = PartOf(both[i], vc)
        BY <1>6, <1>9, Zenon
      <3> QED BY <3>2, <3>3, <3>4
    <2> QED BY <2>1, <2>2
  <1>10. r = x
    BY <1>6, <1>8, <1>9, SameElements
  <1> QED BY <1>1, <1>5, <1>7, <1>10

\* The bytes of a virtual channel, joined twice.
LEMMA BytesJoinedThrice == \A x, y, z \in Seq(MarkedByte) : (x \o y) \o z = x \o (y \o z)
  <1> SUFFICES ASSUME NEW x \in Seq(MarkedByte), NEW y \in Seq(MarkedByte),
                      NEW z \in Seq(MarkedByte)
               PROVE  (x \o y) \o z = x \o (y \o z)
    BY Zenon
  <1>1. PICK S : S = MarkedByte
    OBVIOUS
  <1>2. x \in Seq(S) /\ y \in Seq(S) /\ z \in Seq(S)
    BY <1>1
  <1> QED BY <1>2, JoinedThrice

\* A packet is sent.
LEMMA SendKeepsBytes ==
    ASSUME BytesKept, NEW vc \in TmChannels, NEW apid \in ApIds, NEW payload \in Payloads,
           SendPacket(vc, apid, payload)
    PROVE  BytesKept'
  <1>1. PICK packet \in Seq(Nat), s \in Seq(MarkedByte), p \in Nat,
             frames \in Seq(FilledFrame), new \in Seq(LinkFrame) :
          /\ packet = with_primary_header(apid, payload)
          /\ SendsFrames(vc, packet, s, p, new)
          /\ HoldFrames(vc, packet, s, frames, new)
    BY PacketSent DEF BytesKept
  <1>2. /\ sent \in [TmChannels -> Seq(Seq(Nat))] /\ list \in [TmChannels -> Seq(MarkedByte)]
        /\ link \in Seq(LinkFrame) /\ taken \in [TmChannels -> Seq(MarkedByte)]
    BY DEF BytesKept, PointersKept
  <1>3. /\ sent' = [sent EXCEPT ![vc] = Append(@, packet)]
        /\ list' = [list EXCEPT ![vc] = s]
        /\ link' = link \o new
        /\ taken' = taken /\ missed' = missed
    BY <1>1 DEF SendsFrames, SendPacket
  <1>4. PointersKept'
    BY SendKeepsPointers DEF BytesKept
  <1>5. ASSUME NEW c \in TmChannels
        PROVE  /\ WellFormed(sent'[c])
               /\ OnTheWay(link', c, taken[c], list'[c], sent'[c], missed[c])
    <2>1. PICK u \in Seq(MarkedByte) :
            /\ Joined(u, PartsOf(link, c), MarkedByte)
            /\ Chain(taken[c] \o (u \o list[c]), sent[c], missed[c])
      BY JoinedIsSequence DEF BytesKept, Down, OnTheWay
    <2>2. WellFormed(sent[c])
      BY DEF BytesKept
    <2>3. PartsOf(link', c) = PartsOf(link, c) \o PartsOf(new, c)
      BY <1>2, <1>3, MoreParts
    <2>4. PICK T : T = Seq(MarkedByte)
      OBVIOUS
    <2>5. PICK m \in Nat, q \in Seq(T) :
            /\ m = Len(new) /\ q = PartsOf(new, c) /\ Len(q) = m /\ DOMAIN q = 1 .. m
            /\ \A i \in 1 .. m : q[i] = PartOf(new[i], c)
      BY <2>4, PartType, NoElement
    <2>6. CASE c = vc
      <3>1. PICK v \in Seq(MarkedByte), t \in Seq(MarkedByte) :
              /\ Joined(v, PayloadsOf(frames), MarkedByte)
              /\ t = Marked(packet, Len(sent[vc]) + 1)
              /\ v \o s = list[vc] \o t
        <4>1. PICK v : /\ Joined(v, PayloadsOf(frames), MarkedByte)
                       /\ v \o s = list[vc] \o Marked(packet, Len(sent[vc]) + 1)
          BY <1>1 DEF HoldFrames
        <4>2. Len(sent[vc]) + 1 \in Nat
          <5>1. sent[vc] \in Seq(Seq(Nat))
            BY <1>2
          <5> QED BY <5>1
        <4>3. Marked(packet, Len(sent[vc]) + 1) \in Seq(MarkedByte)
          BY <1>1, <4>2, ByteOfPacket
        <4> QED BY <4>1, <4>3, JoinedIsSequence
      <3>2. q = PayloadsOf(frames)
        <4>1. Len(frames) = m /\ DOMAIN frames = 1 .. m
          <5>1. DOMAIN frames = 1 .. Len(frames) /\ Len(frames) = Len(new)
            BY <1>1, NoElement DEF HoldFrames
          <5> QED BY <2>5, <5>1
        <4>2. ASSUME NEW i \in 1 .. m PROVE q[i] = frames[i].payload
          BY <1>1, <2>5, <2>6, Zenon DEF HoldFrames, PartOf
        <4>3. q = [i \in 1 .. m |-> q[i]]
          BY <2>5
        <4> QED BY <4>1, <4>2, <4>3 DEF PayloadsOf
      <3>3. Joined(u \o v, PartsOf(link', c), MarkedByte)
        BY <2>1, <2>3, <2>5, <3>1, <3>2, MoreJoined, Zenon
      <3>4. taken[c] \o ((u \o v) \o s) = (taken[c] \o (u \o list[c])) \o t
        <4>1. PICK a, b \in Seq(MarkedByte) : a = taken[c] /\ b = list[c]
          <5>1. PICK S : S = Seq(MarkedByte)
            OBVIOUS
          <5>2. taken[c] \in S /\ list[c] \in S
            BY <1>2, <5>1
          <5> QED BY <5>1, <5>2, Zenon
        <4>2. \A x, y, z \in Seq(MarkedByte) : (x \o y) \o z = x \o (y \o z)
          BY BytesJoinedThrice
        <4>3. u \o b \in Seq(MarkedByte)
          BY ElementsJoined
        <4>4. (u \o v) \o s = u \o (v \o s)
          BY <4>2, ZenonT(30)
        <4>5. v \o s = b \o t
          BY <2>6, <3>1, <4>1
        <4>6. u \o (b \o t) = (u \o b) \o t
          BY <4>2, ZenonT(30)
        <4>7. a \o ((u \o b) \o t) = (a \o (u \o b)) \o t
          BY <4>2, <4>3, ZenonT(30)
        <4> QED BY <4>1, <4>4, <4>5, <4>6, <4>7
      <3>5. sent'[c] = Append(sent[c], packet) /\ list'[c] = s
        BY <1>2, <1>3, <2>6
      <3>6. WellFormed(Append(sent[c], packet))
            /\ Chain((taken[c] \o (u \o list[c])) \o t, Append(sent[c], packet), missed[c])
        BY <1>1, <2>1, <2>2, <2>6, <3>1, ChainGrows
      <3> QED BY <3>3, <3>4, <3>5, <3>6, Zenon DEF OnTheWay
    <2>7. CASE c # vc
      <3>1. \A i \in DOMAIN q : q[i] = <<>>
        BY <1>1, <2>5, <2>7, Zenon DEF HoldFrames, PartOf
      <3>2. Joined(<<>>, q, MarkedByte)
        BY <2>4, <3>1, NothingJoined
      <3>3. u \o <<>> = u
        OBVIOUS
      <3>4. Joined(u, PartsOf(link', c), MarkedByte)
        <4>1. Joined(u \o <<>>, PartsOf(link, c) \o q, MarkedByte)
          BY <2>1, <3>2, MoreJoined
        <4> QED BY <2>3, <2>5, <3>3, <4>1, Zenon
      <3>5. sent'[c] = sent[c] /\ list'[c] = list[c]
        BY <1>2, <1>3, <2>7
      <3> QED BY <2>1, <2>2, <3>4, <3>5, Zenon DEF OnTheWay
    <2> QED BY <2>6, <2>7
  <1>6. (\A c \in TmChannels : WellFormed(sent[c]) /\ Down(c))'
    BY <1>3, <1>5, Zenon DEF Down
  <1> QED BY <1>3, <1>4, <1>6 DEF BytesKept

\* The TM frames but the first.
LEMMA OtherParts ==
    ASSUME NEW frames \in Seq(LinkFrame), frames # <<>>, NEW vc
    PROVE  /\ Tail(PartsOf(frames, vc)) = PartsOf(Tail(frames), vc)
           /\ PartsOf(frames, vc) # <<>>
           /\ PartsOf(frames, vc)[1] = PartOf(frames[1], vc)
  <1>1. PICK n \in Nat : n = Len(frames) /\ n >= 1
    <2>1. Len(frames) \in Nat /\ Len(frames) # 0
      BY NoElement
    <2> QED BY <2>1
  <1>2. PICK rest \in Seq(LinkFrame) :
          rest = Tail(frames) /\ Len(rest) = n - 1 /\ \A i \in 1 .. n - 1 : rest[i] = frames[i + 1]
    <2>1. PICK S : S = LinkFrame
      OBVIOUS
    <2>2. Tail(frames) \in Seq(S) /\ Len(Tail(frames)) = n - 1
          /\ \A i \in 1 .. n - 1 : Tail(frames)[i] = frames[i + 1]
      BY <1>1, <2>1
    <2> QED BY <2>1, <2>2
  <1>3. PICK T : T = Seq(MarkedByte)
    OBVIOUS
  <1>4. PICK p \in Seq(T), q \in Seq(T) : p = PartsOf(frames, vc) /\ q = PartsOf(rest, vc)
    BY <1>3, PartType
  <1>5. /\ Len(p) = n /\ Len(q) = n - 1
        /\ \A i \in 1 .. n : p[i] = PartOf(frames[i], vc)
        /\ \A i \in 1 .. n - 1 : q[i] = PartOf(rest[i], vc)
    BY <1>1, <1>2, <1>4, PartType, Zenon
  <1>6. PICK t \in Seq(T) : t = Tail(p) /\ Len(t) = n - 1 /\ \A i \in 1 .. n - 1 : t[i] = p[i + 1]
    <2>1. Len(p) = n /\ n \in Nat /\ n >= 1
      BY <1>1, <1>5
    <2>2. Tail(p) \in Seq(T) /\ Len(Tail(p)) = n - 1
          /\ \A i \in 1 .. n - 1 : Tail(p)[i] = p[i + 1]
      BY <2>1
    <2> QED BY <2>2, Zenon
  <1>7. \A i \in 1 .. n - 1 : i + 1 \in 1 .. n
    BY <1>1
  <1>8. t = q
    <2>1. \A i \in 1 .. n - 1 : t[i] = q[i]
      BY <1>2, <1>5, <1>6, <1>7
    <2> QED BY <1>5, <1>6, <2>1, SameElements
  <1>9. 1 \in 1 .. n
    BY <1>1
  <1> QED BY <1>1, <1>2, <1>4, <1>5, <1>6, <1>8, <1>9

\* What is lost, if the TM frame that leaves the link is.
LostPackets(f) == {b.packet : b \in Range(Payload(f))}

\* A TM frame leaves the link: it has come down, or is lost.
LEMMA FrameGoes ==
    ASSUME NEW c, NEW frames \in Seq(LinkFrame), frames # <<>>, NEW came \in Seq(MarkedByte),
           NEW rest \in Seq(MarkedByte), NEW all, NEW gone,
           OnTheWay(frames, c, came, rest, all, gone)
    PROVE  /\ PartOf(frames[1], c) \in Seq(MarkedByte)
           /\ OnTheWay(Tail(frames), c, came \o PartOf(frames[1], c), rest, all, gone)
           /\ frames[1].vc = c =>
                 OnTheWay(Tail(frames), c, came, rest, all, gone \cup LostPackets(frames[1]))
  <1>1. PICK u \in Seq(MarkedByte) :
          /\ Joined(u, PartsOf(frames, c), MarkedByte)
          /\ Chain(came \o (u \o rest), all, gone)
    BY JoinedIsSequence DEF OnTheWay
  <1>2. PICK h : h = PartOf(frames[1], c)
    OBVIOUS
  <1>3. PICK v \in Seq(MarkedByte) : u = h \o v /\ Joined(v, PartsOf(Tail(frames), c), MarkedByte)
    <2>1. PICK p : p = PartsOf(frames, c) /\ p # <<>> /\ p[1] = h /\ Tail(p) = PartsOf(Tail(frames), c)
      BY <1>2, OtherParts
    <2>2. PICK T : T = Seq(MarkedByte)
      OBVIOUS
    <2>3. p \in Seq(T)
      BY <2>1, <2>2, PartType
    <2>4. \E v \in Seq(MarkedByte) : u = p[1] \o v /\ Joined(v, Tail(p), MarkedByte)
      BY <1>1, <2>1, <2>2, <2>3, FirstJoined
    <2> QED BY <2>1, <2>4, Zenon
  <1>4. h \in Seq(MarkedByte)
    <2>1. PICK T : T = Seq(MarkedByte)
      OBVIOUS
    <2>2. PartsOf(frames, c) \in Seq(T) /\ PartsOf(frames, c) # <<>>
      BY <2>1, PartType, OtherParts
    <2>3. PartsOf(frames, c)[1] \in T
      BY <2>2
    <2> QED BY <1>2, <2>1, <2>3, OtherParts
  <1>5. \A x, y, z \in Seq(MarkedByte) : (x \o y) \o z = x \o (y \o z)
    BY BytesJoinedThrice
  <1>6. PICK w \in Seq(MarkedByte) : w = v \o rest
    BY ElementsJoined
  <1>7. Chain(came \o (h \o w), all, gone)
    <2>1. (h \o v) \o rest = h \o w
      BY <1>4, <1>5, <1>6
    <2> QED BY <1>1, <1>3, <2>1
  <1>8. Chain((came \o h) \o w, all, gone)
    BY <1>4, <1>5, <1>7, ZenonT(30)
  <1>9. OnTheWay(Tail(frames), c, came \o h, rest, all, gone)
    BY <1>3, <1>6, <1>8, Zenon DEF OnTheWay
  <1>10. ASSUME frames[1].vc = c
         PROVE  OnTheWay(Tail(frames), c, came, rest, all, gone \cup LostPackets(frames[1]))
    <2>1. PICK more : more = gone \cup LostPackets(frames[1])
      OBVIOUS
    <2>2. h = Payload(frames[1])
      BY <1>2, <1>10 DEF PartOf
    <2>3. \A i \in 1 .. Len(h) : h[i].packet \in more
      <3>1. DOMAIN h = 1 .. Len(h)
        BY <1>4, NoElement
      <3> QED BY <2>1, <2>2, <3>1 DEF LostPackets, Range
    <2>4. gone \subseteq more
      BY <2>1
    <2>5. Chain(came \o w, all, more)
      BY <1>4, <1>7, <2>3, <2>4, ChainCut
    <2> QED BY <1>3, <1>6, <2>1, <2>5, Zenon DEF OnTheWay
  <1> QED BY <1>2, <1>4, <1>9, <1>10

\* A frame that is received takes its bytes from the link to those that came down.
LEMMA ReceiveKeepsBytes == BytesKept /\ ReceiveFrame => BytesKept'
  <1> SUFFICES ASSUME BytesKept, ReceiveFrame PROVE BytesKept'
    OBVIOUS
  <1>1. /\ list \in [TmChannels -> Seq(MarkedByte)]
        /\ link \in Seq(LinkFrame) /\ taken \in [TmChannels -> Seq(MarkedByte)]
    BY DEF BytesKept, PointersKept
  <1>2. PICK f \in LinkFrame : f = link[1] /\ f = Head(link)
    <2>1. link # <<>>
      BY DEF ReceiveFrame
    <2>2. Len(link) \in Nat /\ Len(link) # 0
      BY <1>1, <2>1, NoElement
    <2> QED BY <1>1, <2>1, <2>2
  <1>3. /\ link # <<>> /\ link' = Tail(link)
        /\ taken' = [taken EXCEPT ![f.vc] = @ \o Payload(f)]
        /\ UNCHANGED <<sent, list, first_header_pointer, missed>>
    BY <1>2 DEF ReceiveFrame
  <1>4. PointersKept'
    BY <1>3, FrameLeaves DEF BytesKept
  <1>5. f.vc \in TmChannels
    BY DEF LinkFrame
  <1>6. ASSUME NEW c \in TmChannels
        PROVE  /\ taken'[c] \in Seq(MarkedByte)
               /\ OnTheWay(link', c, taken'[c], list[c], sent[c], missed[c])
    <2>1. PICK came \in Seq(MarkedByte), rest \in Seq(MarkedByte), h \in Seq(MarkedByte) :
            /\ came = taken[c] /\ rest = list[c] /\ h = PartOf(f, c)
            /\ OnTheWay(Tail(link), c, came \o h, rest, sent[c], missed[c])
      <3>1. OnTheWay(link, c, taken[c], list[c], sent[c], missed[c])
        BY DEF BytesKept, Down
      <3>2. taken[c] \in Seq(MarkedByte) /\ list[c] \in Seq(MarkedByte)
        BY <1>1
      <3> QED BY <1>1, <1>2, <1>3, <3>1, <3>2, FrameGoes
    <2>2. taken'[c] = came \o h
      <3>1. CASE c = f.vc
        <4>1. taken'[c] = taken[c] \o Payload(f)
          BY <1>1, <1>3, <3>1
        <4> QED BY <2>1, <3>1, <4>1 DEF PartOf
      <3>2. CASE c # f.vc
        <4>1. taken'[c] = taken[c]
          BY <1>1, <1>3, <3>2
        <4>2. h = <<>> /\ came \o <<>> = came
          BY <2>1, <3>2 DEF PartOf
        <4> QED BY <2>1, <4>1, <4>2
      <3> QED BY <3>1, <3>2
    <2>3. came \o h \in Seq(MarkedByte)
      BY ElementsJoined
    <2> QED BY <1>3, <2>1, <2>2, <2>3
  <1>7. (\A c \in TmChannels : WellFormed(sent[c]) /\ Down(c))'
    BY <1>3, <1>6, Zenon DEF BytesKept, Down
  <1>8. taken' \in [TmChannels -> Seq(MarkedByte)]
    <2>1. taken' = [c \in TmChannels |-> taken'[c]]
      BY <1>1, <1>3
    <2> QED BY <1>6, <2>1
  <1> QED BY <1>3, <1>4, <1>7, <1>8 DEF BytesKept

\* A frame that is lost leaves a gap, in the packets it had bytes of.
LEMMA LossKeepsBytes == BytesKept /\ LoseFrame => BytesKept'
  <1> SUFFICES ASSUME BytesKept, LoseFrame PROVE BytesKept'
    OBVIOUS
  <1>1. /\ list \in [TmChannels -> Seq(MarkedByte)]
        /\ link \in Seq(LinkFrame) /\ taken \in [TmChannels -> Seq(MarkedByte)]
        /\ missed = [c \in TmChannels |-> missed[c]]
    BY DEF BytesKept, PointersKept
  <1>2. PICK f \in LinkFrame : f = link[1] /\ f = Head(link)
    <2>1. link # <<>>
      BY DEF LoseFrame
    <2>2. Len(link) \in Nat /\ Len(link) # 0
      BY <1>1, <2>1, NoElement
    <2> QED BY <1>1, <2>1, <2>2
  <1>3. /\ link # <<>> /\ link' = Tail(link)
        /\ missed' = [missed EXCEPT ![f.vc] = @ \cup LostPackets(f)]
        /\ UNCHANGED <<sent, list, first_header_pointer, taken>>
    BY <1>2 DEF LoseFrame, LostPackets
  <1>4. PointersKept'
    BY <1>3, FrameLeaves DEF BytesKept
  <1>5. ASSUME NEW c \in TmChannels
        PROVE  OnTheWay(link', c, taken[c], list[c], sent[c], missed'[c])
    <2>1. OnTheWay(link, c, taken[c], list[c], sent[c], missed[c])
      BY DEF BytesKept, Down
    <2>2. PICK came \in Seq(MarkedByte), rest \in Seq(MarkedByte) : came = taken[c] /\ rest = list[c]
      BY <1>1
    <2>3. CASE c = f.vc
      <3>1. missed'[c] = missed[c] \cup LostPackets(f)
        BY <1>1, <1>3, <2>3, Zenon
      <3> QED BY <1>1, <1>2, <1>3, <2>1, <2>2, <2>3, <3>1, FrameGoes
    <2>4. CASE c # f.vc
      <3>1. missed'[c] = missed[c]
        BY <1>1, <1>3, <2>4, Zenon
      <3>2. PartOf(f, c) = <<>> /\ came \o <<>> = came
        BY <2>4 DEF PartOf
      <3>3. OnTheWay(Tail(link), c, came \o PartOf(f, c), rest, sent[c], missed[c])
        BY <1>1, <1>2, <1>3, <2>1, <2>2, FrameGoes
      <3> QED BY <1>3, <2>2, <3>1, <3>2, <3>3
    <2> QED BY <2>3, <2>4
  <1>6. (\A c \in TmChannels : WellFormed(sent[c]) /\ Down(c))'
    BY <1>3, <1>5, Zenon DEF BytesKept, Down
  <1>7. missed' = [c \in TmChannels |-> missed'[c]]
    BY <1>1, <1>3
  <1> QED BY <1>1, <1>3, <1>4, <1>6, <1>7 DEF BytesKept

\* Every step keeps the bytes of a virtual channel the packets behind one another.
LEMMA StepKeepsBytes == BytesKept /\ [SpacePacketNext]_spacePacketVars => BytesKept'
  <1> SUFFICES ASSUME BytesKept, [SpacePacketNext]_spacePacketVars PROVE BytesKept'
    OBVIOUS
  <1>1. CASE \E vc \in TmChannels, apid \in ApIds, payload \in Payloads :
                 SendPacket(vc, apid, payload)
    BY <1>1, SendKeepsBytes
  <1>2. CASE ReceiveFrame
    BY <1>2, ReceiveKeepsBytes
  <1>3. CASE LoseFrame
    BY <1>3, LossKeepsBytes
  <1>4. CASE UNCHANGED spacePacketVars
    <2>1. PointersKept'
      BY <1>4, StepKeepsPointers DEF BytesKept
    <2>2. UNCHANGED <<sent, list, link, taken, missed>>
      BY <1>4 DEF spacePacketVars
    <2>3. (\A c \in TmChannels : WellFormed(sent[c]) /\ Down(c))'
      BY <2>2, Zenon DEF BytesKept, Down
    <2> QED BY <2>1, <2>2, <2>3 DEF BytesKept
  <1> QED BY <1>1, <1>2, <1>3, <1>4 DEF SpacePacketNext

------------------------------------------------------------------------------
\* How a packet is put back together: its first m bytes, and bytes that come behind them
\* as far as the packet goes.
Begun(q, m) == SubSeq(q, 1, m)

Continues(u, q, m) ==
    /\ u \in Seq(Nat) /\ q \in Seq(Nat) /\ m \in 0 .. Len(q)
    /\ \A j \in 1 .. Len(u) : m + j <= Len(q) => u[j] = q[m + j]

\* What is left of the bytes u, if k are taken.
LeftOf(v, u, k) ==
    /\ v \in Seq(Nat) /\ Len(v) = Len(u) - k
    /\ \A j \in 1 .. Len(u) - k : v[j] = u[k + j]

\* What there is of a packet.
LEMMA BegunIs ==
    ASSUME NEW q \in Seq(Nat), NEW m \in 0 .. Len(q)
    PROVE  /\ Begun(q, m) \in Seq(Nat) /\ Len(Begun(q, m)) = m
           /\ \A i \in 1 .. m : Begun(q, m)[i] = q[i]
  BY DEF Begun

\* Up to n bytes are taken.
LEMMA BegunGrows ==
    ASSUME NEW u, NEW q, NEW m, Continues(u, q, m), NEW n \in Nat, m + n <= Len(q)
    PROVE  \E k \in 0 .. n :
              /\ k <= Len(u) /\ (k = n \/ k = Len(u))
              /\ Begun(q, m) \o Take(u, n) = Begun(q, m + k)
              /\ LeftOf(Drop(u, n), u, k)
  <1>1. PICK a, l \in Nat :
          /\ a = Len(u) /\ l = Len(q) /\ u \in Seq(Nat) /\ q \in Seq(Nat) /\ m \in 0 .. l
          /\ \A j \in 1 .. a : m + j <= l => u[j] = q[m + j]
    <2>1. /\ u \in Seq(Nat) /\ q \in Seq(Nat) /\ m \in 0 .. Len(q)
          /\ \A j \in 1 .. Len(u) : m + j <= Len(q) => u[j] = q[m + j]
      BY Zenon DEF Continues
    <2>2. Len(u) \in Nat /\ Len(q) \in Nat
      BY <2>1
    <2> QED BY <2>1, <2>2, Zenon
  <1>2. PICK k \in 0 .. n : k = (IF n < a THEN n ELSE a) /\ k <= a /\ (k = n \/ k = a)
    BY <1>1
  <1>3. PICK first \in Seq(Nat) :
          first = Take(u, n) /\ Len(first) = k /\ \A i \in 1 .. k : first[i] = u[i]
    <2>1. /\ SubSeq(u, 1, k) \in Seq(Nat) /\ Len(SubSeq(u, 1, k)) = k
          /\ \A i \in 1 .. k : SubSeq(u, 1, k)[i] = u[i]
      BY <1>1, <1>2, SMTT(20)
    <2>2. Take(u, n) = SubSeq(u, 1, k)
      BY <1>1, <1>2 DEF Take
    <2> QED BY <2>1, <2>2
  <1>4. LeftOf(Drop(u, n), u, k)
    <2>1. PICK s \in Seq(Nat) : s = u /\ Len(s) = a
      BY <1>1
    <2>2. /\ SubSeq(s, n + 1, a) \in Seq(Nat)
          /\ Len(SubSeq(s, n + 1, a)) = IF n + 1 <= a THEN a - n ELSE 0
          /\ \A i \in 1 .. a - n : SubSeq(s, n + 1, a)[i] = s[n + i]
      BY <2>1
    <2>3. PICK r \in Seq(Nat) :
            /\ r = SubSeq(s, n + 1, a) /\ Len(r) = (IF n + 1 <= a THEN a - n ELSE 0)
            /\ \A i \in 1 .. a - n : r[i] = s[n + i]
      BY <2>2, Zenon
    <2>4. Len(r) = a - k
      BY <1>2, <2>3
    <2>5. \A i \in 1 .. a - k : r[i] = s[k + i]
      <3>1. CASE n < a
        BY <1>2, <2>3, <3>1
      <3>2. CASE n >= a
        BY <1>2, <3>2
      <3> QED BY <3>1, <3>2
    <2>6. r = Drop(u, n)
      BY <1>1, <2>1, <2>3 DEF Drop
    <2> QED BY <1>1, <2>1, <2>4, <2>5, <2>6, Zenon DEF LeftOf
  <1>5. PICK b \in Seq(Nat) :
          b = Begun(q, m) /\ Len(b) = m /\ \A i \in 1 .. m : b[i] = q[i]
    BY <1>1, BegunIs
  <1>6. m + k \in 0 .. l /\ m \in Nat /\ k \in Nat
    BY <1>1, <1>2
  <1>7. PICK e \in Seq(Nat) :
          e = Begun(q, m + k) /\ Len(e) = m + k /\ \A i \in 1 .. m + k : e[i] = q[i]
    BY <1>1, <1>6, BegunIs
  <1>8. PICK g \in Seq(Nat) : g = b \o first
    BY ElementsJoined
  <1>9. /\ Len(g) = m + k
        /\ \A i \in 1 .. m : g[i] = b[i]
        /\ \A i \in 1 .. k : g[m + i] = first[i]
    <2>1. /\ Len(g) = Len(b) + Len(first)
          /\ \A i \in 1 .. Len(b) : g[i] = b[i]
          /\ \A i \in 1 .. Len(first) : g[Len(b) + i] = first[i]
      BY <1>8, ElementsJoined
    <2> QED BY <1>3, <1>5, <2>1, Zenon
  <1>10. ASSUME NEW i \in 1 .. m + k PROVE g[i] = e[i]
    <2>1. CASE i \in 1 .. m
      BY <1>5, <1>7, <1>9, <2>1
    <2>2. CASE i \notin 1 .. m
      <3>1. PICK j \in 1 .. k : i = m + j
        <4>1. i - m \in 1 .. k /\ i = m + (i - m)
          BY <1>6, <2>2
        <4> QED BY <4>1
      <3>2. j \in 1 .. a /\ m + j <= l
        BY <1>1, <1>2, <1>6, <3>1, SMTT(20)
      <3>3. u[j] = q[m + j]
        BY <1>1, <3>2
      <3> QED BY <1>3, <1>7, <1>9, <3>1, <3>3
    <2> QED BY <2>1, <2>2
  <1>11. g = e
    BY <1>7, <1>9, <1>10, SameElements
  <1> QED BY <1>1, <1>2, <1>3, <1>4, <1>5, <1>7, <1>8, <1>11

\* What is left goes on behind the bytes that were taken.
LEMMA LeftContinues ==
    ASSUME NEW u, NEW q, NEW m, Continues(u, q, m), NEW k \in Nat, k <= Len(u), m + k <= Len(q),
           NEW v, LeftOf(v, u, k)
    PROVE  Continues(v, q, m + k)
  <1>1. PICK a, l \in Nat :
          /\ a = Len(u) /\ l = Len(q) /\ u \in Seq(Nat) /\ q \in Seq(Nat) /\ m \in 0 .. l
          /\ \A j \in 1 .. a : m + j <= l => u[j] = q[m + j]
    <2>1. /\ u \in Seq(Nat) /\ q \in Seq(Nat) /\ m \in 0 .. Len(q)
          /\ \A j \in 1 .. Len(u) : m + j <= Len(q) => u[j] = q[m + j]
      BY Zenon DEF Continues
    <2>2. Len(u) \in Nat /\ Len(q) \in Nat
      BY <2>1
    <2> QED BY <2>1, <2>2, Zenon
  <1>2. /\ v \in Seq(Nat) /\ Len(v) = a - k
        /\ \A j \in 1 .. a - k : v[j] = u[k + j]
    BY <1>1 DEF LeftOf
  <1>3. m + k \in 0 .. l
    BY <1>1
  <1>4. ASSUME NEW j \in 1 .. a - k, (m + k) + j <= l PROVE v[j] = q[(m + k) + j]
    <2>1. PICK i \in 1 .. a : i = k + j /\ m + i = (m + k) + j
      <3>1. k + j \in 1 .. a /\ m + (k + j) = (m + k) + j
        BY <1>1
      <3> QED BY <3>1
    <2> QED BY <1>1, <1>2, <1>4, <2>1
  <1> QED BY <1>1, <1>2, <1>3, <1>4 DEF Continues

\* What a turn of the reconstruction makes of h, with m bytes of packet q and more of its
\* bytes in the payload: they are taken up to the end of the packet, or all.
Turned(h, r, q, m) ==
    \E k \in 1 .. Len(h.payload) :
        /\ m + k <= Len(q)
        /\ LeftOf(r.payload, h.payload, k)
        /\ m + k = Len(q) => r.packet = <<>> /\ r.published = Append(h.published, q)
        /\ m + k # Len(q) => r.packet = Begun(q, m + k) /\ r.published = h.published
        /\ r = [packet |-> r.packet, published |-> r.published, payload |-> r.payload]

\* A packet of a header and its data.
LEMMA TurnReconstructs ==
    ASSUME NEW q \in Seq(Nat), NEW l \in Nat, l = Len(q), l >= 2, q[2] = l - 2,
           NEW m \in Nat, m < l, NEW u, Continues(u, q, m), u # <<>>, NEW published,
           NEW h, h = [packet |-> Begun(q, m), published |-> published, payload |-> u]
    PROVE  Turned(h, ReconstructTurn(h), q, m)
  <1>1. PICK a \in Nat \ {0} : a = Len(u) /\ u \in Seq(Nat)
    <2>1. u \in Seq(Nat)
      BY DEF Continues
    <2>2. Len(u) \in Nat /\ Len(u) # 0
      BY <2>1, NoElement
    <2> QED BY <2>1, <2>2
  <1>2. PICK b \in Seq(Nat) : b = Begun(q, m) /\ Len(b) = m
    BY BegunIs
  <1>3. h.packet = b /\ h.payload = u /\ h.published = published
    BY <1>2
  <1>4. PICK k \in 0 .. a, p \in Seq(Nat), v \in Seq(Nat) :
          /\ m + k <= l /\ (m + k >= 2 \/ k = a)
          /\ p = Begun(q, m + k) /\ LeftOf(v, u, k)
          /\ p = (IF m < 2 THEN b \o Take(u, 2 - m) ELSE b)
          /\ v = (IF m < 2 THEN Drop(u, 2 - m) ELSE u)
    <2>1. CASE m < 2
      <3>1. PICK n \in Nat : n = 2 - m /\ m + n <= l
        BY <2>1
      <3>2. PICK j \in 0 .. n :
              /\ j <= a /\ (j = n \/ j = a)
              /\ b \o Take(u, n) = Begun(q, m + j)
              /\ LeftOf(Drop(u, n), u, j)
        BY <1>1, <1>2, <3>1, BegunGrows
      <3>3. j \in 0 .. a /\ m + j <= l /\ (m + j >= 2 \/ j = a)
        BY <3>1, <3>2
      <3>4. Begun(q, m + j) \in Seq(Nat)
        <4>1. m + j \in 0 .. Len(q)
          BY <3>3
        <4> QED BY <4>1, BegunIs
      <3>5. Drop(u, n) \in Seq(Nat)
        BY <3>2 DEF LeftOf
      <3> QED BY <2>1, <3>1, <3>2, <3>3, <3>4, <3>5
    <2>2. CASE ~ (m < 2)
      <3>1. LeftOf(u, u, 0)
        <4>1. a - 0 = a /\ \A j \in 1 .. a : 0 + j = j
          BY <1>1
        <4> QED BY <1>1, <4>1 DEF LeftOf
      <3>2. 0 \in 0 .. a /\ m + 0 <= l /\ m + 0 >= 2 /\ m + 0 = m
        BY <2>2
      <3>3. u \in Seq(Nat) /\ Begun(q, m + 0) = b
        BY <1>1, <1>2, <3>2
      <3> QED BY <2>2, <3>1, <3>2, <3>3, Zenon
    <2> QED BY <2>1, <2>2
  <1>5. k \in Nat /\ m + k \in 0 .. l
    BY <1>4
  <1>6. Len(p) = m + k /\ \A i \in 1 .. m + k : p[i] = q[i]
    <2>1. PICK c \in 0 .. Len(q) : c = m + k
      BY <1>5
    <2>2. Len(Begun(q, c)) = c /\ \A i \in 1 .. c : Begun(q, c)[i] = q[i]
      BY BegunIs
    <2> QED BY <1>4, <2>1, <2>2
  <1>7. PICK whole, left : whole = p \o Take(v, data_left(p)) /\ left = Drop(v, data_left(p))
    OBVIOUS
  <1>8. PICK r : r = ReconstructTurn(h)
    OBVIOUS
  <1>9. /\ Len(p) < HeaderLen => r = [h EXCEPT !.packet = p, !.payload = <<>>]
        /\ Len(p) >= HeaderLen /\ data_left(whole) = 0 =>
              r = [packet |-> <<>>, published |-> Append(published, whole), payload |-> left]
        /\ Len(p) >= HeaderLen /\ data_left(whole) # 0 =>
              r = [h EXCEPT !.packet = whole, !.payload = left]
    <2>1. Len(b) < HeaderLen <=> m < 2
      BY <1>2 DEF HeaderLen
    <2>2. header_left(b) = 2 - m
      BY <1>2 DEF header_left, HeaderLen
    <2>3. PICK x, y, z : /\ x = [h EXCEPT !.packet = p, !.payload = <<>>]
                         /\ y = [packet |-> <<>>, published |-> Append(published, whole),
                                  payload |-> left]
                         /\ z = [h EXCEPT !.packet = whole, !.payload = left]
      OBVIOUS
    <2>4. PICK e : e = data_left(whole)
      OBVIOUS
    <2>5. r = CASE Len(p) < HeaderLen -> x
                [] Len(p) >= HeaderLen /\ e = 0 -> y
                [] Len(p) >= HeaderLen /\ e # 0 -> z
      BY <1>3, <1>4, <1>7, <1>8, <2>1, <2>2, <2>3, <2>4, Zenon DEF ReconstructTurn
    <2>6. PICK o \in Nat : o = Len(p)
      OBVIOUS
    <2>7. /\ o < HeaderLen => r = x
          /\ o >= HeaderLen /\ e = 0 => r = y
          /\ o >= HeaderLen /\ e # 0 => r = z
      BY <2>5, <2>6 DEF HeaderLen
    <2> QED BY <2>3, <2>4, <2>6, <2>7
  <1>10. CASE m + k < 2
    <2>1. k = a /\ m + k # l /\ k \in 1 .. a
      BY <1>4, <1>10
    <2>2. r = [packet |-> p, published |-> published, payload |-> <<>>]
      <3>1. Len(p) < HeaderLen
        BY <1>6, <1>10 DEF HeaderLen
      <3>2. r = [h EXCEPT !.packet = p, !.payload = <<>>]
        BY <1>9, <3>1, Zenon
      <3> QED BY <3>2
    <2>3. r.packet = p /\ r.published = published /\ r.payload = <<>>
      BY <2>2
    <2>4. LeftOf(<<>>, u, k)
      <3>1. Len(u) - k = 0 /\ Len(<<>>) = 0 /\ <<>> \in Seq(Nat) /\ 1 .. 0 = {}
        BY <1>1, <2>1
      <3> QED BY <3>1 DEF LeftOf
    <2> QED BY <1>1, <1>3, <1>4, <1>8, <2>1, <2>2, <2>3, <2>4, Zenon DEF Turned
  <1>11. CASE m + k >= 2
    <2>1. PICK n \in Nat : n = l - (m + k) /\ (m + k) + n <= l
      <3>1. l - (m + k) \in Nat /\ (m + k) + (l - (m + k)) <= l
        BY <1>5
      <3> QED BY <3>1
    <2>2. data_left(p) = n
      <3>1. 2 \in 1 .. m + k
        BY <1>5, <1>11
      <3>2. p[2] = l - 2
        BY <1>6, <3>1
      <3>3. data_left(p) = (l - 2) + 2 - (m + k)
        BY <1>6, <3>2 DEF data_left, HeaderLen
      <3> QED BY <1>5, <2>1, <3>3
    <2>3. Continues(v, q, m + k)
      <3>1. k <= Len(u) /\ m + k <= Len(q) /\ k \in Nat
        BY <1>1, <1>4
      <3> QED BY <1>4, <3>1, LeftContinues
    <2>4. PICK j \in 0 .. n :
            /\ j <= Len(v) /\ (j = n \/ j = Len(v))
            /\ whole = Begun(q, (m + k) + j)
            /\ LeftOf(left, v, j)
      <3>1. (m + k) + n <= Len(q)
        BY <2>1
      <3>2. \E j \in 0 .. n :
              /\ j <= Len(v) /\ (j = n \/ j = Len(v))
              /\ Begun(q, m + k) \o Take(v, n) = Begun(q, (m + k) + j)
              /\ LeftOf(Drop(v, n), v, j)
        BY <2>3, <3>1, BegunGrows
      <3> QED BY <1>4, <1>7, <2>2, <3>2, Zenon
    <2>5. v \in Seq(Nat) /\ Len(v) = a - k /\ \A i \in 1 .. a - k : v[i] = u[k + i]
      BY <1>1, <1>4 DEF LeftOf
    <2>6. PICK c \in Nat : /\ c = k + j /\ (m + k) + j = m + c /\ m + c \in 0 .. l
                           /\ (m + c = l \/ c = a) /\ c <= a
      <3>1. k + j \in Nat /\ (m + k) + j = m + (k + j) /\ m + (k + j) \in 0 .. l
            /\ (m + (k + j) = l \/ k + j = a) /\ k + j <= a
        BY <1>5, <2>1, <2>4, <2>5
      <3> QED BY <3>1
    <2>7. LeftOf(left, u, c)
      <3>1. /\ left \in Seq(Nat) /\ Len(left) = (a - k) - j
            /\ \A i \in 1 .. (a - k) - j : left[i] = v[j + i]
        BY <2>4, <2>5, Zenon DEF LeftOf
      <3>2. (a - k) - j = a - c
        BY <1>5, <2>6
      <3>3. ASSUME NEW i \in 1 .. a - c PROVE left[i] = u[c + i]
        <4>1. PICK e \in 1 .. a - k : e = j + i /\ k + e = c + i
          <5>1. j + i \in 1 .. a - k /\ k + (j + i) = c + i
            BY <1>5, <2>6
          <5> QED BY <5>1
        <4>2. left[i] = v[e] /\ v[e] = u[k + e]
          BY <2>5, <3>1, <3>2, <4>1
        <4> QED BY <4>1, <4>2
      <3> QED BY <1>1, <3>1, <3>2, <3>3 DEF LeftOf
    <2>8. c \in 1 .. a
      <3>1. m + c = l => c >= 1
        BY <2>6
      <3> QED BY <2>6, <3>1
    <2>9. Len(whole) = m + c /\ (m + c >= 2 => whole[2] = q[2]) /\ whole \in Seq(Nat)
      <3>1. /\ whole \in Seq(Nat) /\ Len(whole) = m + c
            /\ \A i \in 1 .. m + c : whole[i] = q[i]
        BY <2>4, <2>6, BegunIs
      <3>2. m + c >= 2 => 2 \in 1 .. m + c
        BY <2>6
      <3> QED BY <3>1, <3>2
    <2>10. m + c >= 2
      BY <1>5, <1>11, <2>6
    <2>11. data_left(whole) = l - (m + c)
      <3>1. data_left(whole) = (l - 2) + 2 - (m + c)
        BY <2>9, <2>10 DEF data_left, HeaderLen
      <3> QED BY <2>6, <3>1
    <2>12. Len(p) >= HeaderLen /\ ~ (Len(p) < HeaderLen)
      BY <1>5, <1>6, <1>11 DEF HeaderLen
    <2>13. CASE m + c = l
      <3>1. data_left(whole) = 0
        BY <2>11, <2>13
      <3>2. r = [packet |-> <<>>, published |-> Append(published, whole), payload |-> left]
        BY <1>9, <2>12, <3>1, Zenon
      <3>3. whole = q
        <4>1. /\ Begun(q, l) \in Seq(Nat) /\ Len(Begun(q, l)) = l
              /\ \A i \in 1 .. l : Begun(q, l)[i] = q[i]
          <5>1. l \in 0 .. Len(q)
            OBVIOUS
          <5> QED BY <5>1, BegunIs
        <4>2. Begun(q, l) = q
          BY <4>1, SameElements
        <4> QED BY <2>4, <2>6, <2>13, <4>2
      <3>4. r.packet = <<>> /\ r.published = Append(h.published, q) /\ r.payload = left
        BY <3>2, <3>3
      <3>5. r = [packet |-> r.packet, published |-> r.published, payload |-> r.payload]
        BY <3>2
      <3>6. m + c <= Len(q) /\ m + c = Len(q)
        BY <2>13
      <3> QED BY <1>1, <1>3, <1>8, <2>7, <2>8, <3>4, <3>5, <3>6, Zenon DEF Turned
    <2>14. CASE m + c # l
      <3>1. data_left(whole) # 0
        BY <2>6, <2>11, <2>14
      <3>2. r = [h EXCEPT !.packet = whole, !.payload = left]
        BY <1>9, <2>12, <3>1, Zenon
      <3>3. r = [packet |-> whole, published |-> published, payload |-> left]
        BY <3>2
      <3>4. r.packet = Begun(q, m + c) /\ r.published = published /\ r.payload = left
        BY <2>4, <2>6, <3>3
      <3>5. r = [packet |-> r.packet, published |-> r.published, payload |-> r.payload]
        BY <3>3
      <3>6. m + c <= Len(q) /\ m + c # Len(q)
        BY <2>6, <2>14
      <3> QED BY <1>1, <1>3, <1>8, <2>7, <2>8, <3>4, <3>5, <3>6, Zenon DEF Turned
    <2> QED BY <2>13, <2>14
  <1>12. m + k < 2 \/ m + k >= 2
    BY <1>5
  <1> QED BY <1>10, <1>11, <1>12

------------------------------------------------------------------------------
\* The bytes of a virtual channel that have come down, of packets that have lost none.
Follows(b, c, all) == \/ c.packet = b.packet /\ c.at = b.at + 1
                      \/ b.at = Len(all[b.packet]) /\ c.at = 1

Aligned(w, all) ==
    /\ w \in Seq(MarkedByte)
    /\ \A i \in 1 .. Len(w) : OfPacket(w[i], all)
    /\ w # <<>> => w[1].at = 1
    /\ \A i \in 1 .. Len(w) - 1 : Follows(w[i], w[i + 1], all)

\* The bytes that came down are bytes of packets.
LEMMA CameOfPackets ==
    ASSUME NEW w \in Seq(MarkedByte), NEW rest \in Seq(MarkedByte), NEW all, NEW gone,
           Chain(w \o rest, all, gone)
    PROVE  \A i \in 1 .. Len(w) : OfPacket(w[i], all)
  <1>1. PICK x \in Seq(MarkedByte) : x = w \o rest
    BY ElementsJoined
  <1>2. PICK n, m \in Nat : n = Len(w) /\ m = Len(x) /\ n <= m
    <2>1. Len(x) = Len(w) + Len(rest)
      BY <1>1, ElementsJoined
    <2> QED BY <2>1
  <1>3. \A i \in 1 .. n : x[i] = w[i]
    <2>1. \A i \in 1 .. Len(w) : x[i] = w[i]
      BY <1>1, ElementsJoined
    <2> QED BY <1>2, <2>1
  <1>4. \A i \in 1 .. m : OfPacket(x[i], all)
    BY <1>1, <1>2, Zenon DEF Chain
  <1>5. \A i \in 1 .. n : i \in 1 .. m
    BY <1>2
  <1> QED BY <1>2, <1>3, <1>4, <1>5, Zenon

\* If no packet of theirs has lost a byte, packets follow each other.
LEMMA CameAligned ==
    ASSUME NEW w \in Seq(MarkedByte), NEW rest \in Seq(MarkedByte), NEW all, NEW gone,
           Chain(w \o rest, all, gone), \A b \in Range(w) : b.packet \notin gone
    PROVE  Aligned(w, all)
  <1>1. PICK x \in Seq(MarkedByte) : x = w \o rest
    BY ElementsJoined
  <1>2. PICK n, m \in Nat : n = Len(w) /\ m = Len(x) /\ n <= m
    <2>1. Len(x) = Len(w) + Len(rest)
      BY <1>1, ElementsJoined
    <2> QED BY <2>1
  <1>3. \A i \in 1 .. n : x[i] = w[i]
    <2>1. \A i \in 1 .. Len(w) : x[i] = w[i]
      BY <1>1, ElementsJoined
    <2> QED BY <1>2, <2>1
  <1>4. \A i \in 1 .. n : w[i].packet \notin gone
    <2>1. DOMAIN w = 1 .. n
      BY <1>2, NoElement
    <2> QED BY <2>1 DEF Range
  <1>5. \A i \in 1 .. n : OfPacket(w[i], all)
    BY <1>2, CameOfPackets
  <1>6. ASSUME w # <<>> PROVE w[1].at = 1
    <2>1. n # 0
      BY <1>2, <1>6, NoElement
    <2>2. m # 0 /\ 1 \in 1 .. n
      BY <1>2, <2>1
    <2>3. x # <<>>
      BY <1>2, <2>2, NoElement
    <2>4. MayBegin(x[1], gone)
      BY <1>1, <2>3, Zenon DEF Chain
    <2> QED BY <1>3, <1>4, <2>2, <2>4 DEF MayBegin
  <1>7. ASSUME NEW i \in 1 .. n - 1 PROVE Follows(w[i], w[i + 1], all)
    <2>1. i \in 1 .. n /\ i + 1 \in 1 .. n /\ i \in 1 .. m - 1
      BY <1>2
    <2>2. Adjoins(x[i], x[i + 1], all, gone)
      BY <1>1, <1>2, <2>1, Zenon DEF Chain
    <2>3. Adjoins(w[i], w[i + 1], all, gone)
      BY <1>3, <2>1, <2>2, Zenon
    <2> QED BY <1>4, <2>1, <2>3, Zenon DEF Adjoins, MayEnd, MayBegin, Follows
  <1> QED BY <1>2, <1>5, <1>6, <1>7, Zenon DEF Aligned

\* What is known of the bytes, by numbers.
LEMMA AlignedBytes ==
    ASSUME NEW w, NEW all, Aligned(w, all), WellFormed(all), NEW i \in 1 .. Len(w)
    PROVE  /\ w[i] \in MarkedByte /\ w[i].packet \in 1 .. Len(all)
           /\ all[w[i].packet] \in Seq(Nat)
           /\ Len(all[w[i].packet]) >= 2 /\ all[w[i].packet][2] = Len(all[w[i].packet]) - 2
           /\ w[i].at \in 1 .. Len(all[w[i].packet])
           /\ w[i].byte = all[w[i].packet][w[i].at]
  <1>1. w[i] \in MarkedByte
    BY DEF Aligned
  <1>2. OfPacket(w[i], all)
    BY Zenon DEF Aligned
  <1>3. w[i].packet \in 1 .. Len(all)
    BY <1>2 DEF OfPacket
  <1>4. all[w[i].packet] \in Seq(Nat)
    <2>1. PICK T : T = Seq(Nat)
      OBVIOUS
    <2>2. all \in Seq(T)
      BY <2>1 DEF WellFormed
    <2>3. all[w[i].packet] \in T
      BY <1>3, <2>2
    <2> QED BY <2>1, <2>3
  <1>5. /\ Len(all[w[i].packet]) >= 2
        /\ all[w[i].packet][2] = Len(all[w[i].packet]) - 2
    BY <1>3, Zenon DEF WellFormed, HeaderLen
  <1> QED BY <1>1, <1>2, <1>3, <1>4, <1>5, Zenon DEF OfPacket

RunsOn(w, i, n, m, l) ==
    \A j \in 1 .. Len(w) - i : m + j <= l => w[i + j].packet = n /\ w[i + j].at = m + j

\* From a byte on, the bytes are those of its packet, as far as it goes.
LEMMA RunOn ==
    ASSUME NEW w, NEW all, Aligned(w, all), WellFormed(all), NEW i \in Nat, i + 1 \in 1 .. Len(w),
           NEW m \in Nat, m + 1 = w[i + 1].at
    PROVE  RunsOn(w, i, w[i + 1].packet, m, Len(all[w[i + 1].packet]))
  <1>0. PICK n : n = w[i + 1].packet
    OBVIOUS
  <1>1. PICK l, a \in Nat : l = Len(all[n]) /\ a = Len(w)
    <2>1. all[n] \in Seq(Nat)
      BY <1>0, AlignedBytes
    <2>2. w \in Seq(MarkedByte)
      BY DEF Aligned
    <2> QED BY <2>1, <2>2
  <1>2. PICK k \in Nat : k = a - i - 1
    BY <1>1
  <1>3. PICK S : S = {j \in 0 .. k : m + (j + 1) <= l =>
                         /\ w[i + (j + 1)].packet = n
                         /\ w[i + (j + 1)].at = m + (j + 1)}
    OBVIOUS
  <1>4. 0 \in S
    <2>1. 0 \in 0 .. k /\ 0 + 1 = 1
      OBVIOUS
    <2> QED BY <1>0, <1>3, <2>1
  <1>5. ASSUME NEW j \in 1 .. k, j - 1 \in S PROVE j \in S
    <2>1. /\ (j - 1) + 1 = j /\ j \in 0 .. k /\ i + j \in 1 .. a - 1 /\ i + j \in 1 .. a
          /\ (i + j) + 1 = i + (j + 1) /\ (m + j) + 1 = m + (j + 1)
      BY <1>1, <1>2
    <2>2. m + j <= l => w[i + j].packet = n /\ w[i + j].at = m + j
      BY <1>3, <1>5, <2>1
    <2>3. ASSUME m + (j + 1) <= l
          PROVE  w[i + (j + 1)].packet = n /\ w[i + (j + 1)].at = m + (j + 1)
      <3>1. m + j <= l /\ m + j # l
        BY <1>1, <2>3
      <3>2. w[i + j].packet = n /\ w[i + j].at = m + j
        BY <2>2, <3>1
      <3>3. Follows(w[i + j], w[(i + j) + 1], all)
        BY <1>1, <2>1, Zenon DEF Aligned
      <3>4. w[i + (j + 1)].packet = n /\ w[i + (j + 1)].at = (m + j) + 1
        BY <1>1, <2>1, <3>1, <3>2, <3>3, Zenon DEF Follows
      <3> QED BY <2>1, <3>4
    <2> QED BY <1>3, <2>1, <2>3
  <1>6. \A j \in 0 .. k : j \in S
    BY <1>4, <1>5, StepByStep
  <1>7. ASSUME NEW j \in 1 .. a - i, m + j <= l PROVE w[i + j].packet = n /\ w[i + j].at = m + j
    <2>1. PICK e \in 0 .. k : e + 1 = j
      <3>1. j - 1 \in 0 .. k /\ (j - 1) + 1 = j
        BY <1>1, <1>2
      <3> QED BY <3>1
    <2> QED BY <1>3, <1>6, <1>7, <2>1
  <1> QED BY <1>0, <1>1, <1>7, Zenon DEF RunsOn

------------------------------------------------------------------------------
\* The last bytes of packets among the first n bytes, what is held of a packet after them,
\* and the bytes behind.
IsLast(b, all) == b.at = Len(all[b.packet])

Ends(w, all, n) == {i \in 1 .. n : IsLast(w[i], all)}

Held(w, all, n) ==
    IF n = 0 \/ IsLast(w[n], all) THEN <<>> ELSE Begun(all[w[n].packet], w[n].at)

BytesAfter(u, w, i) ==
    /\ u \in Seq(Nat) /\ Len(u) = Len(w) - i
    /\ \A j \in 1 .. Len(w) - i : u[j] = w[i + j].byte

\* What is held goes on with the next byte.
LEMMA HeldGoesOn ==
    ASSUME NEW w, NEW all, Aligned(w, all), WellFormed(all), NEW i \in Nat, i + 1 \in 1 .. Len(w)
    PROVE  Held(w, all, i) = Begun(all[w[i + 1].packet], w[i + 1].at - 1)
  <1>1. PICK q \in Seq(Nat), at \in Nat \ {0} :
          q = all[w[i + 1].packet] /\ at = w[i + 1].at /\ at <= Len(q)
    <2>1. /\ all[w[i + 1].packet] \in Seq(Nat)
          /\ w[i + 1].at \in 1 .. Len(all[w[i + 1].packet])
      BY AlignedBytes
    <2>2. Len(all[w[i + 1].packet]) \in Nat
      BY <2>1
    <2>3. w[i + 1].at \in Nat \ {0} /\ w[i + 1].at <= Len(all[w[i + 1].packet])
      BY <2>1, <2>2
    <2> QED BY <2>1, <2>3
  <1>2. at = 1 => Begun(q, at - 1) = <<>>
    <2>1. 1 - 1 = 0 /\ 0 \in 0 .. Len(q)
      OBVIOUS
    <2>2. Begun(q, 0) \in Seq(Nat) /\ Len(Begun(q, 0)) = 0
      BY <2>1, BegunIs
    <2>3. Begun(q, 0) = <<>>
      BY <2>2, NoElement
    <2> QED BY <2>1, <2>3
  <1>3. CASE i = 0
    <2>1. w # <<>> /\ i + 1 = 1
      BY <1>3
    <2>2. at = 1
      BY <1>1, <2>1, Zenon DEF Aligned
    <2> QED BY <1>1, <1>2, <1>3, <2>2 DEF Held
  <1>4. CASE i # 0
    <2>1. i \in 1 .. Len(w) /\ i \in 1 .. Len(w) - 1
      <3>1. PICK a \in Nat : a = Len(w)
        <4>1. w \in Seq(MarkedByte)
          BY DEF Aligned
        <4> QED BY <4>1
      <3> QED BY <1>4, <3>1
    <2>2. Follows(w[i], w[i + 1], all)
      BY <2>1, Zenon DEF Aligned
    <2>3. PICK b \in Nat : b = w[i].at
      BY <2>1, AlignedBytes DEF MarkedByte
    <2>4. CASE IsLast(w[i], all)
      <3>1. at = 1
        <4>1. CASE w[i + 1].packet = w[i].packet /\ w[i + 1].at = w[i].at + 1
          <5>1. b = Len(q) /\ at = b + 1
            BY <1>1, <2>3, <2>4, <4>1 DEF IsLast
          <5> QED BY <1>1, <5>1
        <4> QED BY <1>1, <2>2, <4>1 DEF Follows
      <3> QED BY <1>1, <1>2, <1>4, <2>4, <3>1 DEF Held
    <2>5. CASE ~ IsLast(w[i], all)
      <3>1. w[i + 1].packet = w[i].packet /\ w[i + 1].at = w[i].at + 1
        BY <2>2, <2>5, Zenon DEF Follows, IsLast
      <3>2. at - 1 = b
        BY <1>1, <2>3, <3>1
      <3> QED BY <1>1, <1>4, <2>3, <2>5, <3>1, <3>2 DEF Held
    <2> QED BY <2>4, <2>5
  <1> QED BY <1>3, <1>4

\* The bytes behind are those of the packet that has begun, as far as it goes.
LEMMA BytesContinue ==
    ASSUME NEW w, NEW all, Aligned(w, all), WellFormed(all), NEW i \in Nat, i + 1 \in 1 .. Len(w),
           NEW u, BytesAfter(u, w, i), NEW m \in Nat, m + 1 = w[i + 1].at
    PROVE  Continues(u, all[w[i + 1].packet], m)
  <1>1. PICK n : n = w[i + 1].packet
    OBVIOUS
  <1>2. PICK q \in Seq(Nat), l \in Nat : q = all[n] /\ l = Len(q) /\ m \in 0 .. l
    <2>1. all[n] \in Seq(Nat) /\ w[i + 1].at \in 1 .. Len(all[n])
      BY <1>1, AlignedBytes
    <2>2. Len(all[n]) \in Nat
      BY <2>1
    <2>3. m \in 0 .. Len(all[n])
      BY <2>1, <2>2
    <2> QED BY <2>1, <2>2, <2>3
  <1>3. PICK a \in Nat : a = Len(w)
    <2>1. w \in Seq(MarkedByte)
      BY DEF Aligned
    <2> QED BY <2>1
  <1>4. u \in Seq(Nat) /\ Len(u) = a - i /\ \A j \in 1 .. a - i : u[j] = w[i + j].byte
    BY <1>3 DEF BytesAfter
  <1>5. \A j \in 1 .. a - i : m + j <= l => w[i + j].packet = n /\ w[i + j].at = m + j
    <2>1. RunsOn(w, i, w[i + 1].packet, m, Len(all[w[i + 1].packet]))
      BY RunOn
    <2>2. RunsOn(w, i, n, m, l)
      BY <1>1, <1>2, <2>1, Zenon
    <2> QED BY <1>3, <2>2, Zenon DEF RunsOn
  <1>6. ASSUME NEW j \in 1 .. a - i, m + j <= l PROVE u[j] = q[m + j]
    <2>1. i + j \in 1 .. a
      BY <1>3
    <2>2. w[i + j].byte = all[w[i + j].packet][w[i + j].at]
      BY <1>3, <2>1, AlignedBytes
    <2> QED BY <1>2, <1>4, <1>5, <1>6, <2>2
  <1> QED BY <1>1, <1>2, <1>4, <1>6, Zenon DEF Continues

\* The packets that a turn finds the end of.
Ended(w, all, i, n, published, r) ==
    \/ Ends(w, all, n) = Ends(w, all, i) /\ r.published = published
    \/ /\ Ends(w, all, n) = Ends(w, all, i) \cup {n}
       /\ n > i /\ all[w[n].packet] \in Seq(Nat)
       /\ r.published = Append(published, all[w[n].packet])

Went(w, all, i, published, r) ==
    \E n \in i + 1 .. Len(w) :
        /\ r.packet = Held(w, all, n)
        /\ BytesAfter(r.payload, w, n)
        /\ Ended(w, all, i, n, published, r)
        /\ r = [packet |-> r.packet, published |-> r.published, payload |-> r.payload]

\* A turn goes on to a byte further down.
LEMMA TurnGoesOn ==
    ASSUME NEW w, NEW all, Aligned(w, all), WellFormed(all), NEW i \in Nat, NEW u, u # <<>>,
           BytesAfter(u, w, i), NEW published, NEW h,
           h = [packet |-> Held(w, all, i), published |-> published, payload |-> u]
    PROVE  Went(w, all, i, published, ReconstructTurn(h))
  <1>1. PICK a \in Nat : a = Len(w) /\ i + 1 \in 1 .. a
    <2>1. PICK a, b \in Nat : a = Len(w) /\ b = Len(u) /\ b # 0 /\ b = a - i
      <3>1. w \in Seq(MarkedByte)
        BY DEF Aligned
      <3>2. u \in Seq(Nat) /\ Len(u) = Len(w) - i
        BY DEF BytesAfter
      <3>3. Len(w) \in Nat /\ Len(u) \in Nat
        BY <3>1, <3>2
      <3>4. Len(u) # 0
        BY <3>2, NoElement
      <3> QED BY <3>2, <3>3, <3>4
    <2>2. i + 1 \in 1 .. a
      BY <2>1
    <2> QED BY <2>1, <2>2
  <1>2. PICK n : n = w[i + 1].packet
    OBVIOUS
  <1>3. PICK q \in Seq(Nat), l \in Nat, m \in Nat :
          /\ q = all[n] /\ l = Len(q) /\ l >= 2 /\ q[2] = l - 2
          /\ m = w[i + 1].at - 1 /\ m + 1 = w[i + 1].at /\ m < l
    <2>1. /\ all[n] \in Seq(Nat) /\ Len(all[n]) >= 2 /\ all[n][2] = Len(all[n]) - 2
          /\ w[i + 1].at \in 1 .. Len(all[n])
      BY <1>1, <1>2, AlignedBytes
    <2>2. Len(all[n]) \in Nat
      BY <2>1
    <2>3. w[i + 1].at - 1 \in Nat /\ (w[i + 1].at - 1) + 1 = w[i + 1].at
          /\ w[i + 1].at - 1 < Len(all[n])
      BY <2>1, <2>2
    <2> QED BY <2>1, <2>2, <2>3
  <1>4. Held(w, all, i) = Begun(q, m)
    BY <1>1, <1>2, <1>3, HeldGoesOn
  <1>5. Continues(u, q, m)
    <2>1. Continues(u, all[w[i + 1].packet], m)
      BY <1>1, <1>3, BytesContinue
    <2> QED BY <1>2, <1>3, <2>1
  <1>6. PICK r : r = ReconstructTurn(h)
    OBVIOUS
  <1>7. Turned(h, r, q, m)
    <2>1. h = [packet |-> Begun(q, m), published |-> published, payload |-> u]
      BY <1>4
    <2> QED BY <1>3, <1>5, <1>6, <2>1, TurnReconstructs
  <1>8. u \in Seq(Nat) /\ Len(u) = a - i /\ \A j \in 1 .. a - i : u[j] = w[i + j].byte
    BY <1>1 DEF BytesAfter
  <1>9. h.packet = Held(w, all, i) /\ h.published = published /\ h.payload = u
    OBVIOUS
  <1>10. PICK k \in 1 .. a - i :
            /\ m + k <= l
            /\ LeftOf(r.payload, u, k)
            /\ m + k = l => r.packet = <<>> /\ r.published = Append(published, q)
            /\ m + k # l => r.packet = Begun(q, m + k) /\ r.published = published
            /\ r = [packet |-> r.packet, published |-> r.published, payload |-> r.payload]
    BY <1>3, <1>7, <1>8, <1>9, Zenon DEF Turned
  <1>11. \A j \in 1 .. a - i : m + j <= l => w[i + j].packet = n /\ w[i + j].at = m + j
    <2>1. RunsOn(w, i, w[i + 1].packet, m, Len(all[w[i + 1].packet]))
      BY <1>1, <1>3, RunOn
    <2>2. RunsOn(w, i, n, m, l)
      BY <1>2, <1>3, <2>1, Zenon
    <2> QED BY <1>1, <2>2, Zenon DEF RunsOn
  <1>12. PICK e \in Nat : e = i + k /\ e \in i + 1 .. a /\ e > i
    <2>1. i + k \in Nat /\ i + k \in i + 1 .. a /\ i + k > i
      BY <1>1
    <2> QED BY <2>1
  <1>13. w[e].packet = n /\ w[e].at = m + k
    BY <1>10, <1>11, <1>12
  <1>14. BytesAfter(r.payload, w, e)
    <2>1. PICK v \in Seq(Nat) :
            /\ v = r.payload /\ Len(v) = (a - i) - k
            /\ \A j \in 1 .. (a - i) - k : v[j] = u[k + j]
      BY <1>8, <1>10, Zenon DEF LeftOf
    <2>2. (a - i) - k = a - e
      BY <1>12
    <2>3. ASSUME NEW j \in 1 .. a - e PROVE v[j] = w[e + j].byte
      <3>1. PICK c \in 1 .. a - i : c = k + j /\ i + c = e + j
        <4>1. k + j \in 1 .. a - i /\ i + (k + j) = e + j
          BY <1>12
        <4> QED BY <4>1
      <3>2. v[j] = u[c] /\ u[c] = w[i + c].byte
        BY <1>8, <2>1, <2>2, <3>1
      <3> QED BY <3>1, <3>2
    <2> QED BY <1>1, <2>1, <2>2, <2>3, Zenon DEF BytesAfter
  <1>15. \A j \in i + 1 .. e - 1 : ~ IsLast(w[j], all)
    <2>1. SUFFICES ASSUME NEW j \in i + 1 .. e - 1 PROVE ~ IsLast(w[j], all)
      OBVIOUS
    <2>2. PICK c \in 1 .. a - i : j = i + c /\ m + c <= l /\ m + c # l
      <3>1. j - i \in 1 .. a - i /\ j = i + (j - i) /\ m + (j - i) <= l /\ m + (j - i) # l
        BY <1>10, <1>12, SMTT(20)
      <3> QED BY <3>1
    <2>3. w[j].packet = n /\ w[j].at = m + c
      BY <1>11, <2>2
    <2> QED BY <1>3, <2>2, <2>3 DEF IsLast
  <1>16. \A j \in 1 .. e : j \in 1 .. i \/ j \in i + 1 .. e - 1 \/ j = e
    BY <1>12
  <1>17. 1 .. i \subseteq 1 .. e /\ e \in 1 .. e /\ e # 0
    BY <1>12
  <1>18. CASE m + k = l
    <2>1. IsLast(w[e], all)
      BY <1>3, <1>13, <1>18 DEF IsLast
    <2>2. Ends(w, all, e) = Ends(w, all, i) \cup {e}
      BY <1>15, <1>16, <1>17, <2>1 DEF Ends
    <2>3. r.packet = Held(w, all, e)
      BY <1>10, <1>18, <2>1 DEF Held
    <2>4. Ended(w, all, i, e, published, r)
      BY <1>3, <1>10, <1>12, <1>13, <1>18, <2>2, Zenon DEF Ended
    <2> QED BY <1>1, <1>6, <1>10, <1>12, <1>14, <2>3, <2>4, Zenon DEF Went
  <1>19. CASE m + k # l
    <2>1. ~ IsLast(w[e], all)
      BY <1>3, <1>13, <1>19 DEF IsLast
    <2>2. Ends(w, all, e) = Ends(w, all, i)
      BY <1>15, <1>16, <1>17, <2>1 DEF Ends
    <2>3. r.packet = Held(w, all, e)
      BY <1>3, <1>10, <1>13, <1>17, <1>19, <2>1 DEF Held
    <2>4. Ended(w, all, i, e, published, r)
      BY <1>10, <1>19, <2>2, Zenon DEF Ended
    <2> QED BY <1>1, <1>6, <1>10, <1>12, <1>14, <2>3, <2>4, Zenon DEF Went
  <1> QED BY <1>18, <1>19

------------------------------------------------------------------------------
\* What the packets that have ended give, each routed.
RoutedPackets == {Routed(q) : q \in Seq(Nat)}

RoutedAll(published) == [i \in DOMAIN published |-> Routed(published[i])]

Out(given, w, all, n) ==
    /\ given \in Seq(RoutedPackets)
    /\ Len(given) = Cardinality(Ends(w, all, n))
    /\ \A e \in Ends(w, all, n) :
          given[Cardinality(Ends(w, all, e))] = Routed(all[w[e].packet])

\* The last bytes are numbered.
LEMMA EndsCounted ==
    ASSUME NEW w, NEW all, NEW n \in Nat
    PROVE  /\ IsFiniteSet(Ends(w, all, n)) /\ Cardinality(Ends(w, all, n)) \in Nat
           /\ \A e \in Ends(w, all, n) :
                 Cardinality(Ends(w, all, e)) \in 1 .. Cardinality(Ends(w, all, n))
  <1>1. ASSUME NEW m \in Nat
        PROVE  IsFiniteSet(Ends(w, all, m)) /\ Cardinality(Ends(w, all, m)) \in Nat
    <2>1. IsFiniteSet(1 .. m)
      BY FS_Interval
    <2>2. Ends(w, all, m) \subseteq 1 .. m
      BY DEF Ends
    <2> QED BY <2>1, <2>2, FS_Subset, FS_CardinalityType
  <1>2. ASSUME NEW e \in Ends(w, all, n)
        PROVE  Cardinality(Ends(w, all, e)) \in 1 .. Cardinality(Ends(w, all, n))
    <2>1. e \in Nat /\ e \in 1 .. e /\ 1 .. e \subseteq 1 .. n
      BY DEF Ends
    <2>2. e \in Ends(w, all, e) /\ Ends(w, all, e) \subseteq Ends(w, all, n)
      BY <2>1 DEF Ends
    <2>3. PICK a, b \in Nat :
            a = Cardinality(Ends(w, all, e)) /\ b = Cardinality(Ends(w, all, n))
      BY <1>1, <2>1
    <2>4. a <= b
      BY <1>1, <2>2, <2>3, FS_Subset
    <2>5. a # 0
      BY <1>1, <2>1, <2>2, <2>3, FS_EmptySet
    <2> QED BY <2>3, <2>4, <2>5
  <1> QED BY <1>1, <1>2

\* A packet more has ended.
LEMMA OutMore ==
    ASSUME NEW w, NEW all, NEW i \in Nat, NEW n \in Nat, n > i, NEW given, Out(given, w, all, i),
           Ends(w, all, n) = Ends(w, all, i) \cup {n}, all[w[n].packet] \in Seq(Nat)
    PROVE  Out(Append(given, Routed(all[w[n].packet])), w, all, n)
  <1>1. PICK a, b \in Nat : a = Cardinality(Ends(w, all, i)) /\ b = Cardinality(Ends(w, all, n))
    BY EndsCounted
  <1>2. b = a + 1
    <2>1. n \notin Ends(w, all, i)
      BY DEF Ends
    <2> QED BY <1>1, <2>1, EndsCounted, FS_AddElement
  <1>3. PICK S : S = RoutedPackets
    OBVIOUS
  <1>4. PICK p \in S : p = Routed(all[w[n].packet])
    BY <1>3 DEF RoutedPackets
  <1>5. PICK old \in Seq(S), new \in Seq(S) :
          /\ old = given /\ new = Append(given, p)
          /\ Len(old) = a /\ Len(new) = b /\ new[b] = p
          /\ \A j \in 1 .. a : new[j] = old[j]
    <2>1. given \in Seq(S) /\ Len(given) = a
      BY <1>1, <1>3 DEF Out
    <2>2. PICK old \in Seq(S) : old = given
      BY <2>1
    <2>3. /\ Append(old, p) \in Seq(S) /\ Len(Append(old, p)) = a + 1
          /\ Append(old, p)[a + 1] = p
          /\ \A j \in 1 .. a : Append(old, p)[j] = old[j]
      BY <2>1, <2>2
    <2> QED BY <1>2, <2>1, <2>2, <2>3, Zenon
  <1>6. ASSUME NEW e \in Ends(w, all, n)
        PROVE  new[Cardinality(Ends(w, all, e))] = Routed(all[w[e].packet])
    <2>1. CASE e \in Ends(w, all, i)
      <3>1. old[Cardinality(Ends(w, all, e))] = Routed(all[w[e].packet])
        BY <1>5, <2>1 DEF Out
      <3>2. Cardinality(Ends(w, all, e)) \in 1 .. a
        BY <1>1, <2>1, EndsCounted
      <3> QED BY <1>5, <3>1, <3>2
    <2>2. CASE e = n
      BY <1>1, <1>4, <1>5, <2>2
    <2> QED BY <2>1, <2>2
  <1> QED BY <1>1, <1>3, <1>4, <1>5, <1>6, Zenon DEF Out

\* The packets that are published are routed.
LEMMA RoutedMore ==
    ASSUME NEW given \in Seq(RoutedPackets), NEW published \in Seq(Seq(Nat))
    PROVE  /\ RoutedAll(published) \in Seq(RoutedPackets)
           /\ given \o RoutedAll(published) \in Seq(RoutedPackets)
           /\ \A q \in Seq(Nat) :
                 /\ Append(published, q) \in Seq(Seq(Nat))
                 /\ given \o RoutedAll(Append(published, q))
                       = Append(given \o RoutedAll(published), Routed(q))
  <1>1. PICK S, T : S = RoutedPackets /\ T = Seq(Nat)
    OBVIOUS
  <1>2. \A q \in T : Routed(q) \in S
    BY <1>1 DEF RoutedPackets
  <1>3. PICK g \in Seq(S), a \in Nat : g = given /\ a = Len(g)
    <2>1. given \in Seq(S) /\ Len(given) \in Nat
      BY <1>1
    <2> QED BY <2>1
  <1>4. PICK p \in Seq(T), n \in Nat : p = published /\ n = Len(p) /\ DOMAIN p = 1 .. n
    <2>1. published \in Seq(T) /\ Len(published) \in Nat
      BY <1>1
    <2>2. DOMAIN published = 1 .. Len(published)
      BY <2>1, NoElement
    <2> QED BY <2>1, <2>2
  <1>5. PICK r \in Seq(S) :
          r = RoutedAll(p) /\ Len(r) = n /\ \A i \in 1 .. n : r[i] = Routed(p[i])
    <2>1. PICK r : r = [i \in 1 .. n |-> Routed(p[i])]
      OBVIOUS
    <2>2. \A i \in 1 .. n : p[i] \in T
      BY <1>4
    <2>3. \A i \in 1 .. n : Routed(p[i]) \in S
      BY <1>2, <2>2
    <2>4. r \in Seq(S) /\ Len(r) = n /\ \A i \in 1 .. n : r[i] = Routed(p[i])
      BY <2>1, <2>3
    <2>5. r = RoutedAll(p)
      BY <1>4, <2>1 DEF RoutedAll
    <2> QED BY <2>4, <2>5
  <1>6. PICK x \in Seq(S) :
          /\ x = g \o r /\ Len(x) = a + n
          /\ \A i \in 1 .. a : x[i] = g[i]
          /\ \A i \in 1 .. n : x[a + i] = r[i]
    <2>1. a = Len(g) /\ n = Len(r)
      BY <1>3, <1>5
    <2>2. PICK y \in Seq(S) : AreJoined(y, g, r, a, n)
      BY <2>1, NumberedJoined, Zenon
    <2> QED BY <2>2, Zenon DEF AreJoined
  <1>7. ASSUME NEW q \in T
        PROVE  Append(p, q) \in Seq(T) /\ g \o RoutedAll(Append(p, q)) = Append(x, Routed(q))
    <2>1. PICK more \in Seq(T) :
            /\ more = Append(p, q) /\ Len(more) = n + 1 /\ DOMAIN more = 1 .. n + 1
            /\ more[n + 1] = q
            /\ \A i \in 1 .. n : more[i] = p[i]
      <3>1. /\ Append(p, q) \in Seq(T) /\ Len(Append(p, q)) = n + 1
            /\ Append(p, q)[n + 1] = q
            /\ \A i \in 1 .. n : Append(p, q)[i] = p[i]
        BY <1>4
      <3>2. DOMAIN Append(p, q) = 1 .. Len(Append(p, q))
        BY <3>1, NoElement
      <3> QED BY <3>1, <3>2, Zenon
    <2>2. \A i \in 1 .. n + 1 : i \in 1 .. n \/ i = n + 1
      OBVIOUS
    <2>3. PICK t \in Seq(S) :
            t = RoutedAll(more) /\ Len(t) = n + 1 /\ \A i \in 1 .. n + 1 : t[i] = Routed(more[i])
      <3>1. PICK t : t = [i \in 1 .. n + 1 |-> Routed(more[i])]
        OBVIOUS
      <3>2. \A i \in 1 .. n + 1 : more[i] \in T
        BY <2>1
      <3>3. \A i \in 1 .. n + 1 : Routed(more[i]) \in S
        BY <1>2, <3>2
      <3>4. t \in Seq(S) /\ Len(t) = n + 1 /\ \A i \in 1 .. n + 1 : t[i] = Routed(more[i])
        BY <3>1, <3>3
      <3>5. t = RoutedAll(more)
        BY <2>1, <3>1 DEF RoutedAll
      <3> QED BY <3>4, <3>5
    <2>4. PICK y \in Seq(S) :
            /\ y = g \o t /\ Len(y) = a + (n + 1)
            /\ \A i \in 1 .. a : y[i] = g[i]
            /\ \A i \in 1 .. n + 1 : y[a + i] = t[i]
      <3>1. a = Len(g) /\ n + 1 = Len(t) /\ n + 1 \in Nat
        BY <1>3, <2>3
      <3>2. PICK y \in Seq(S) : AreJoined(y, g, t, a, n + 1)
        BY <3>1, NumberedJoined, Zenon
      <3> QED BY <3>2, Zenon DEF AreJoined
    <2>5. PICK e \in S : e = Routed(q)
      BY <1>2
    <2>6. PICK z \in Seq(S) :
            /\ z = Append(x, e) /\ Len(z) = a + (n + 1) /\ z[a + (n + 1)] = e
            /\ \A i \in 1 .. a + n : z[i] = x[i]
      <3>1. /\ Append(x, e) \in Seq(S) /\ Len(Append(x, e)) = (a + n) + 1
            /\ Append(x, e)[(a + n) + 1] = e
            /\ \A i \in 1 .. a + n : Append(x, e)[i] = x[i]
        BY <1>6
      <3>2. (a + n) + 1 = a + (n + 1)
        OBVIOUS
      <3> QED BY <3>1, <3>2, Zenon
    <2>7. ASSUME NEW i \in 1 .. a + (n + 1) PROVE y[i] = z[i]
      <3>1. CASE i \in 1 .. a
        <4>1. i \in 1 .. a + n
          BY <3>1
        <4> QED BY <1>6, <2>4, <2>6, <3>1, <4>1
      <3>2. CASE i \notin 1 .. a
        <4>1. PICK j \in 1 .. n + 1 : i = a + j
          <5>1. i - a \in 1 .. n + 1 /\ i = a + (i - a)
            BY <3>2
          <5> QED BY <5>1
        <4>2. CASE j \in 1 .. n
          <5>1. i \in 1 .. a + n
            BY <4>1, <4>2
          <5>2. z[i] = Routed(p[j])
            BY <1>5, <1>6, <2>6, <4>1, <4>2, <5>1
          <5>3. y[i] = Routed(more[j]) /\ more[j] = p[j]
            BY <2>1, <2>3, <2>4, <4>1, <4>2
          <5> QED BY <5>2, <5>3
        <4>3. CASE j = n + 1
          BY <2>1, <2>3, <2>4, <2>5, <2>6, <4>1, <4>3
        <4> QED BY <2>2, <4>2, <4>3
      <3> QED BY <3>1, <3>2
    <2>8. y = z
      BY <2>4, <2>6, <2>7, SameElements
    <2> QED BY <2>1, <2>3, <2>4, <2>5, <2>6, <2>8
  <1> QED BY <1>1, <1>3, <1>4, <1>5, <1>6, <1>7

------------------------------------------------------------------------------
\* The handler of telemetry_packet_reconstruction: wherever it is in the bytes that have
\* come down, what it holds and has published is of the bytes before.
ReconstructState == [packet : Seq(Nat), published : Seq(Seq(Nat)), payload : Seq(Nat)]

Reached(h, given, w, all) ==
    \E i \in 0 .. Len(w) :
        /\ h.packet = Held(w, all, i)
        /\ BytesAfter(h.payload, w, i)
        /\ Out(given \o RoutedAll(h.published), w, all, i)

Reconstructing(given, w, all) == {h \in ReconstructState : Reached(h, given, w, all)}

\* What is held between two turns has the fields of the state of the reconstruction.
LEMMA HeldType ==
    ASSUME NEW w, NEW all, Aligned(w, all), WellFormed(all), NEW n \in 0 .. Len(w)
    PROVE  Held(w, all, n) \in Seq(Nat)
  <1>1. CASE n = 0 \/ IsLast(w[n], all)
    BY <1>1 DEF Held
  <1>2. CASE ~ (n = 0 \/ IsLast(w[n], all))
    <2>1. w \in Seq(MarkedByte)
      BY DEF Aligned
    <2>2. n \in 1 .. Len(w)
      BY <1>2, <2>1
    <2>3. all[w[n].packet] \in Seq(Nat) /\ w[n].at \in 1 .. Len(all[w[n].packet])
      BY <2>2, AlignedBytes
    <2>4. w[n].at \in 0 .. Len(all[w[n].packet])
      BY <2>3
    <2> QED BY <1>2, <2>3, <2>4, BegunIs DEF Held
  <1> QED BY <1>1, <1>2

\* A turn keeps that.
LEMMA TurnReaches ==
    ASSUME NEW w, NEW all, Aligned(w, all), WellFormed(all),
           NEW given \in Seq(RoutedPackets), NEW h \in Reconstructing(given, w, all)
    PROVE  /\ ReconstructTurn(h) \in Reconstructing(given, w, all)
           /\ h.payload # <<>> => Len(ReconstructTurn(h).payload) < Len(h.payload)
  <1>1. CASE h.payload = <<>>
    BY <1>1 DEF ReconstructTurn
  <1>2. CASE h.payload # <<>>
    <2>1. PICK i \in 0 .. Len(w) :
            /\ h.packet = Held(w, all, i)
            /\ BytesAfter(h.payload, w, i)
            /\ Out(given \o RoutedAll(h.published), w, all, i)
      BY DEF Reconstructing, Reached
    <2>2. PICK a \in Nat : a = Len(w) /\ i \in Nat
      <3>1. w \in Seq(MarkedByte)
        BY DEF Aligned
      <3> QED BY <3>1
    <2>3. PICK u, p : u = h.payload /\ p = h.published
      OBVIOUS
    <2>4. h = [packet |-> Held(w, all, i), published |-> p, payload |-> u]
      BY <2>1, <2>3 DEF Reconstructing, ReconstructState
    <2>5. PICK r : r = ReconstructTurn(h)
      OBVIOUS
    <2>6. Went(w, all, i, p, r)
      BY <1>2, <2>1, <2>2, <2>3, <2>4, <2>5, TurnGoesOn
    <2>7. PICK n \in i + 1 .. a :
            /\ r.packet = Held(w, all, n)
            /\ BytesAfter(r.payload, w, n)
            /\ Ended(w, all, i, n, p, r)
            /\ r = [packet |-> r.packet, published |-> r.published, payload |-> r.payload]
      BY <2>2, <2>6, Zenon DEF Went
    <2>8. n \in Nat /\ n \in 0 .. a /\ n > i
      BY <2>2
    <2>9. p \in Seq(Seq(Nat))
      BY <2>3 DEF Reconstructing, ReconstructState
    <2>10. PICK g : g = given \o RoutedAll(p) /\ Out(g, w, all, i)
      BY <2>1, <2>3
    <2>11. r.published \in Seq(Seq(Nat)) /\ Out(given \o RoutedAll(r.published), w, all, n)
      <3>1. CASE Ends(w, all, n) = Ends(w, all, i) /\ r.published = p
        <4>1. Out(g, w, all, n)
          BY <2>10, <3>1, Zenon DEF Out
        <4> QED BY <2>9, <2>10, <3>1, <4>1
      <3>2. CASE /\ Ends(w, all, n) = Ends(w, all, i) \cup {n}
                 /\ all[w[n].packet] \in Seq(Nat)
                 /\ r.published = Append(p, all[w[n].packet])
        <4>1. Out(Append(g, Routed(all[w[n].packet])), w, all, n)
          BY <2>2, <2>8, <2>10, <3>2, OutMore
        <4>2. PICK q \in Seq(Nat) : q = all[w[n].packet]
          BY <3>2
        <4>3. /\ Append(p, q) \in Seq(Seq(Nat))
              /\ given \o RoutedAll(Append(p, q)) = Append(given \o RoutedAll(p), Routed(q))
          BY <2>9, RoutedMore
        <4> QED BY <2>10, <3>2, <4>1, <4>2, <4>3, Zenon
      <3> QED BY <2>7, <3>1, <3>2, Zenon DEF Ended
    <2>12. r.packet \in Seq(Nat)
      BY <2>2, <2>7, <2>8, HeldType
    <2>13. r.payload \in Seq(Nat) /\ Len(r.payload) = a - n
      BY <2>2, <2>7 DEF BytesAfter
    <2>14. r \in ReconstructState
      BY <2>7, <2>11, <2>12, <2>13 DEF ReconstructState
    <2>15. Reached(r, given, w, all)
      BY <2>2, <2>7, <2>8, <2>11, Zenon DEF Reached
    <2>16. Len(r.payload) < Len(h.payload)
      <3>1. Len(h.payload) = a - i
        BY <2>1, <2>2 DEF BytesAfter
      <3> QED BY <2>2, <2>8, <2>13, <3>1
    <2> QED BY <2>5, <2>14, <2>15, <2>16 DEF Reconstructing
  <1> QED BY <1>1, <1>2

\* The loop ends with all the bytes of the payload taken.
LEMMA PayloadReconstructed ==
    ASSUME NEW w, NEW all, Aligned(w, all), WellFormed(all),
           NEW given \in Seq(RoutedPackets), NEW h \in Reconstructing(given, w, all)
    PROVE  /\ reconstructed(h) \in Reconstructing(given, w, all)
           /\ reconstructed(h).payload = <<>>
  <1>0. PICK D : D = Reconstructing(given, w, all)
    OBVIOUS
  <1>1. PICK n \in Nat : n = Len(h.payload)
    <2>1. h.payload \in Seq(Nat)
      BY DEF Reconstructing, ReconstructState
    <2> QED BY <2>1
  <1> DEFINE Is(f) == f = [i \in 0 .. n |-> IF i = 0 THEN h ELSE ReconstructTurn(f[i - 1])]
  <1>2. \E f : Is(f)
    <2>1. PICK F : F = [q \in D \X (1 .. n) |-> ReconstructTurn(q[1])]
      OBVIOUS
    <2>2. Step(F, D, n)
      <3>1. \A q \in D \X (1 .. n) : ReconstructTurn(q[1]) \in D
        BY <1>0, TurnReaches
      <3> QED BY <2>1, <3>1 DEF Step
    <2>3. PICK f : Repeated(f, F, D, n, h)
      BY <1>0, <2>2, Recursion, Zenon
    <2>4. f \in [0 .. n -> D] /\ f[0] = h /\ \A j \in 1 .. n : f[j] = F[<<f[j - 1], j>>]
      BY <2>3 DEF Repeated
    <2>5. ASSUME NEW i \in 0 .. n PROVE f[i] = IF i = 0 THEN h ELSE ReconstructTurn(f[i - 1])
      <3>1. CASE i # 0
        <4>1. i \in 1 .. n /\ i - 1 \in 0 .. n
          BY <3>1
        <4>2. <<f[i - 1], i>> \in D \X (1 .. n)
          BY <2>4, <4>1
        <4>3. F[<<f[i - 1], i>>] = ReconstructTurn(f[i - 1])
          BY <2>1, <4>2
        <4> QED BY <2>4, <3>1, <4>1, <4>3
      <3> QED BY <2>4, <3>1
    <2> QED BY <2>4, <2>5
  <1>3. PICK e : e = CHOOSE f : Is(f)
    OBVIOUS
  <1>4. reconstructed(h) = e[n]
    BY <1>1, <1>3 DEF reconstructed
  <1>5. Is(e)
    <2> HIDE DEF Is
    <2> QED BY <1>2, <1>3
  <1>6. \A i \in 0 .. n : e[i] = IF i = 0 THEN h ELSE ReconstructTurn(e[i - 1])
    BY <1>5
  <1> HIDE DEF Is
  <1>7. \A i \in 0 .. n : e[i] \in D /\ Len(e[i].payload) <= n - i
    <2>1. PICK S : S = {i \in 0 .. n : e[i] \in D /\ Len(e[i].payload) <= n - i}
      OBVIOUS
    <2>2. 0 \in S
      <3>1. 0 \in 0 .. n /\ e[0] = h
        BY <1>6
      <3> QED BY <1>0, <1>1, <2>1, <3>1
    <2>3. ASSUME NEW j \in 1 .. n, j - 1 \in S PROVE j \in S
      <3>1. j \in 0 .. n /\ j # 0
        OBVIOUS
      <3>2. PICK g \in D : g = e[j - 1] /\ Len(g.payload) <= n - (j - 1)
        BY <2>1, <2>3
      <3>3. e[j] = ReconstructTurn(g)
        BY <1>6, <3>1, <3>2
      <3>4. PICK k \in D :
              k = ReconstructTurn(g) /\ (g.payload # <<>> => Len(k.payload) < Len(g.payload))
        BY <1>0, TurnReaches
      <3>5. PICK a, b \in Nat : a = Len(g.payload) /\ b = Len(k.payload)
        <4>1. g.payload \in Seq(Nat) /\ k.payload \in Seq(Nat)
          BY <1>0 DEF Reconstructing, ReconstructState
        <4> QED BY <4>1
      <3>6. b <= n - j
        <4>1. CASE g.payload = <<>>
          <5>1. k = g
            BY <3>4, <4>1 DEF ReconstructTurn
          <5>2. b = 0
            BY <3>5, <4>1, <5>1
          <5> QED BY <5>2
        <4>2. CASE g.payload # <<>>
          BY <3>2, <3>4, <3>5, <4>2
        <4> QED BY <4>1, <4>2
      <3> QED BY <2>1, <3>1, <3>3, <3>4, <3>5, <3>6
    <2>4. \A j \in 0 .. n : j \in S
      BY <2>2, <2>3, StepByStep
    <2> QED BY <2>1, <2>4
  <1>8. n \in 0 .. n
    OBVIOUS
  <1>9. PICK g \in D : g = e[n] /\ Len(g.payload) <= n - n
    BY <1>7, <1>8
  <1>10. g.payload = <<>>
    <2>1. g.payload \in Seq(Nat)
      BY <1>0 DEF Reconstructing, ReconstructState
    <2>2. Len(g.payload) = 0
      BY <1>9, <2>1
    <2> QED BY <2>1, <2>2, NoElement
  <1> QED BY <1>0, <1>4, <1>9, <1>10

------------------------------------------------------------------------------
\* What telemetry_packet_reconstruction holds, and pathID_demultiplexer gave, of the bytes
\* that came down.
Given(w, all, part, given) == part = Held(w, all, Len(w)) /\ Out(given, w, all, Len(w))

PacketsKept ==
    /\ BytesKept
    /\ space_packet = [vc \in vc_outputs |-> space_packet[vc]]
    /\ forwarded = [vc \in vc_outputs |-> forwarded[vc]]
    /\ \A vc \in vc_outputs :
          LostWhole(vc) => Given(taken[vc], sent[vc], space_packet[vc], forwarded[vc])

\* What is held and was given is of the first bytes, whatever comes behind them.
LEMMA SameBytes ==
    ASSUME NEW w, NEW x, NEW all, NEW more, NEW n \in Nat,
           \A i \in 1 .. n : x[i] = w[i] /\ more[w[i].packet] = all[w[i].packet]
    PROVE  /\ Held(x, more, n) = Held(w, all, n)
           /\ \A given : Out(given, w, all, n) => Out(given, x, more, n)
  <1>1. \A i \in 1 .. n : IsLast(x[i], more) <=> IsLast(w[i], all)
    BY DEF IsLast
  <1>2. Ends(x, more, n) = Ends(w, all, n)
    BY <1>1 DEF Ends
  <1>3. ASSUME NEW e \in Ends(w, all, n)
        PROVE  /\ Ends(x, more, e) = Ends(w, all, e)
               /\ more[x[e].packet] = all[w[e].packet]
    <2>1. e \in 1 .. n /\ 1 .. e \subseteq 1 .. n
      BY DEF Ends
    <2> QED BY <1>1, <2>1 DEF Ends
  <1>4. ASSUME NEW given, Out(given, w, all, n) PROVE Out(given, x, more, n)
    BY <1>2, <1>3, <1>4, Zenon DEF Out
  <1>5. Held(x, more, n) = Held(w, all, n)
    <2>1. n # 0 => n \in 1 .. n
      OBVIOUS
    <2>2. CASE n = 0
      BY <2>2 DEF Held
    <2>3. CASE n # 0
      BY <1>1, <2>1, <2>3, Zenon DEF Held
    <2> QED BY <2>2, <2>3
  <1> QED BY <1>4, <1>5

\* The handler, on the payload of a TM frame.
LEMMA FrameReconstructed ==
    ASSUME NEW w \in Seq(MarkedByte), NEW p \in Seq(MarkedByte), NEW all, WellFormed(all),
           Aligned(w \o p, all), NEW part, NEW given, Given(w, all, part, given),
           NEW h, h = [packet |-> part, published |-> <<>>, payload |-> Bytes(p)]
    PROVE  Given(w \o p, all, reconstructed(h).packet,
                 given \o RoutedAll(reconstructed(h).published))
  <1>1. PICK n, c \in Nat : n = Len(w) /\ c = Len(p)
    OBVIOUS
  <1>2. PICK x \in Seq(MarkedByte) :
          /\ x = w \o p /\ Len(x) = n + c
          /\ \A i \in 1 .. n : x[i] = w[i]
          /\ \A i \in 1 .. c : x[n + i] = p[i]
    <2>1. /\ w \o p \in Seq(MarkedByte) /\ Len(w \o p) = Len(w) + Len(p)
          /\ \A i \in 1 .. Len(w) : (w \o p)[i] = w[i]
          /\ \A i \in 1 .. Len(p) : (w \o p)[Len(w) + i] = p[i]
      BY ElementsJoined
    <2> QED BY <1>1, <2>1, Zenon
  <1>3. /\ Held(x, all, n) = Held(w, all, n)
        /\ \A g : Out(g, w, all, n) => Out(g, x, all, n)
    <2>1. \A i \in 1 .. n : x[i] = w[i] /\ all[w[i].packet] = all[w[i].packet]
      BY <1>2
    <2> QED BY <2>1, SameBytes
  <1>4. part = Held(x, all, n) /\ Out(given, x, all, n)
    BY <1>1, <1>3, Zenon DEF Given
  <1>5. PICK u : u = Bytes(p)
    OBVIOUS
  <1>6. BytesAfter(u, x, n)
    <2>1. DOMAIN p = 1 .. c
      BY <1>1, NoElement
    <2>2. u = [i \in 1 .. c |-> p[i].byte]
      BY <1>5, <2>1 DEF Bytes
    <2>3. \A i \in 1 .. c : p[i].byte \in Nat
      <3>1. PICK S : S = MarkedByte
        OBVIOUS
      <3>2. \A i \in 1 .. c : p[i] \in S
        BY <1>1, <3>1
      <3>3. \A b \in S : b.byte \in Nat
        BY <3>1 DEF MarkedByte
      <3> QED BY <3>2, <3>3
    <2>4. u \in Seq(Nat) /\ Len(u) = c /\ \A i \in 1 .. c : u[i] = p[i].byte
      BY <2>2, <2>3
    <2>5. (n + c) - n = c
      OBVIOUS
    <2> QED BY <1>2, <2>4, <2>5, Zenon DEF BytesAfter
  <1>7. n \in 0 .. Len(x) /\ part \in Seq(Nat)
    <2>1. n \in 0 .. Len(x)
      BY <1>2
    <2> QED BY <1>2, <1>4, <2>1, HeldType
  <1>8. PICK g \in Seq(RoutedPackets) : g = given
    BY <1>4 DEF Out
  <1>9. g \o RoutedAll(<<>>) = g
    <2>1. RoutedAll(<<>>) = <<>>
      BY DEF RoutedAll
    <2>2. PICK S : S = RoutedPackets
      OBVIOUS
    <2>3. \A s \in Seq(S) : s \o <<>> = s
      OBVIOUS
    <2> QED BY <2>1, <2>2, <2>3
  <1>10. h \in Reconstructing(g, x, all)
    <2>1. h.packet = part /\ h.published = <<>> /\ h.payload = u
      BY <1>5
    <2>2. u \in Seq(Nat)
      BY <1>6 DEF BytesAfter
    <2>3. <<>> \in Seq(Seq(Nat))
      OBVIOUS
    <2>4. h \in ReconstructState
      BY <1>5, <1>7, <2>2, <2>3 DEF ReconstructState
    <2>5. Reached(h, g, x, all)
      BY <1>4, <1>6, <1>7, <1>8, <1>9, <2>1, Zenon DEF Reached
    <2> QED BY <2>4, <2>5 DEF Reconstructing
  <1>11. PICK r \in Reconstructing(g, x, all) : r = reconstructed(h) /\ r.payload = <<>>
    BY <1>2, <1>10, PayloadReconstructed
  <1>12. PICK i \in 0 .. Len(x) :
           /\ r.packet = Held(x, all, i)
           /\ BytesAfter(r.payload, x, i)
           /\ Out(g \o RoutedAll(r.published), x, all, i)
    BY <1>11 DEF Reconstructing, Reached
  <1>13. i = Len(x)
    <2>1. Len(<<>>) = Len(x) - i
      BY <1>11, <1>12 DEF BytesAfter
    <2>0. Len(<<>>) = 0
      OBVIOUS
    <2>2. Len(x) - i = 0
      BY <2>0, <2>1, Zenon
    <2>3. PICK a \in Nat : a = Len(x)
      OBVIOUS
    <2>4. i \in 0 .. a /\ a - i = 0
      BY <2>2, <2>3, Zenon
    <2>5. i = a
      BY <2>4
    <2> QED BY <2>3, <2>5, Zenon
  <1> QED BY <1>2, <1>8, <1>11, <1>12, <1>13, Zenon DEF Given

\* Nothing is held and nothing has been given initially.
LEMMA PacketsInitially == SpacePacketInit => PacketsKept
  <1> SUFFICES ASSUME SpacePacketInit PROVE PacketsKept
    OBVIOUS
  <1>1. BytesKept
    BY BytesInitially
  <1>2. /\ space_packet = [vc \in vc_outputs |-> space_packet[vc]]
        /\ forwarded = [vc \in vc_outputs |-> forwarded[vc]]
    BY DEF SpacePacketInit
  <1>3. ASSUME NEW vc \in vc_outputs
        PROVE  Given(taken[vc], sent[vc], space_packet[vc], forwarded[vc])
    <2>1. vc \in TmChannels
      BY SpacePacketsAssumption
    <2>2. taken[vc] = <<>> /\ sent[vc] = <<>> /\ space_packet[vc] = <<>> /\ forwarded[vc] = <<>>
      BY <2>1 DEF SpacePacketInit
    <2>3. Len(<<>>) = 0 /\ <<>> \in Seq(RoutedPackets) /\ 1 .. 0 = {}
      OBVIOUS
    <2>4. Ends(<<>>, <<>>, 0) = {}
      BY <2>3 DEF Ends
    <2>5. Cardinality({}) = 0
      BY FS_EmptySet
    <2>6. Out(<<>>, <<>>, <<>>, 0)
      BY <2>3, <2>4, <2>5 DEF Out
    <2>7. Held(<<>>, <<>>, 0) = <<>>
      BY DEF Held
    <2> QED BY <2>2, <2>3, <2>6, <2>7, Zenon DEF Given
  <1> QED BY <1>1, <1>2, <1>3, Zenon DEF PacketsKept

\* The bytes that came down are a sequence of bytes of packets.
CameDown ==
    \A vc \in TmChannels :
        /\ taken[vc] \in Seq(MarkedByte) /\ WellFormed(sent[vc])
        /\ \A i \in 1 .. Len(taken[vc]) : OfPacket(taken[vc][i], sent[vc])
        /\ LostWhole(vc) => Aligned(taken[vc], sent[vc])

\* What of the bytes the reconstruction relies on: those that came down are in order.
LEMMA BytesCameDown == BytesKept => CameDown
  <1> SUFFICES ASSUME BytesKept, NEW vc \in TmChannels
               PROVE  /\ taken[vc] \in Seq(MarkedByte) /\ WellFormed(sent[vc])
                      /\ \A i \in 1 .. Len(taken[vc]) : OfPacket(taken[vc][i], sent[vc])
                      /\ LostWhole(vc) => Aligned(taken[vc], sent[vc])
    BY DEF CameDown
  <1>1. PICK w \in Seq(MarkedByte), s \in Seq(MarkedByte) : w = taken[vc] /\ s = list[vc]
    <2>1. taken[vc] \in Seq(MarkedByte) /\ list[vc] \in Seq(MarkedByte)
      BY DEF BytesKept, PointersKept
    <2> QED BY <2>1, Zenon
  <1>2. PICK u \in Seq(MarkedByte) : Chain(w \o (u \o s), sent[vc], missed[vc])
    BY <1>1, JoinedIsSequence DEF BytesKept, Down, OnTheWay
  <1>3. PICK rest \in Seq(MarkedByte) : rest = u \o s
    BY ElementsJoined
  <1>4. Chain(w \o rest, sent[vc], missed[vc])
    BY <1>2, <1>3
  <1>5. \A i \in 1 .. Len(w) : OfPacket(w[i], sent[vc])
    BY <1>4, CameOfPackets
  <1>6. LostWhole(vc) => Aligned(w, sent[vc])
    BY <1>1, <1>4, CameAligned DEF LostWhole
  <1>7. WellFormed(sent[vc])
    BY DEF BytesKept
  <1> QED BY <1>1, <1>5, <1>6, <1>7

\* A packet that is sent changes neither what is held nor what has been given.
LEMMA SendKeepsPackets ==
    ASSUME PacketsKept, NEW vc \in TmChannels, NEW apid \in ApIds, NEW payload \in Payloads,
           SendPacket(vc, apid, payload)
    PROVE  PacketsKept'
  <1>1. BytesKept'
    BY SendKeepsBytes DEF PacketsKept
  <1>2. UNCHANGED <<space_packet, forwarded, taken, missed>>
    BY DEF SendPacket
  <1>3. PICK packet \in Seq(Nat) : sent' = [sent EXCEPT ![vc] = Append(@, packet)]
    BY PacketSent DEF PacketsKept, BytesKept, SendsFrames
  <1>4. sent \in [TmChannels -> Seq(Seq(Nat))]
    BY DEF PacketsKept, BytesKept, PointersKept
  <1>5. ASSUME NEW c \in vc_outputs, LostWhole(c)'
        PROVE  Given(taken[c], sent'[c], space_packet[c], forwarded[c])
    <2>1. LostWhole(c)
      BY <1>2, <1>5 DEF LostWhole
    <2>2. c \in TmChannels
      BY SpacePacketsAssumption
    <2>3. PICK w \in Seq(MarkedByte), n \in Nat :
            /\ w = taken[c] /\ n = Len(w)
            /\ \A i \in 1 .. n : OfPacket(w[i], sent[c])
      <3>1. /\ taken[c] \in Seq(MarkedByte)
            /\ \A i \in 1 .. Len(taken[c]) : OfPacket(taken[c][i], sent[c])
        BY <2>2, BytesCameDown, Zenon DEF PacketsKept, CameDown
      <3>2. Len(taken[c]) \in Nat
        BY <3>1
      <3> QED BY <3>1, <3>2, Zenon
    <2>4. Given(w, sent[c], space_packet[c], forwarded[c])
      BY <2>1, <2>3 DEF PacketsKept
    <2>5. ASSUME NEW i \in 1 .. n PROVE sent'[c][w[i].packet] = sent[c][w[i].packet]
      <3>1. w[i].packet \in 1 .. Len(sent[c])
        BY <2>3, Zenon DEF OfPacket
      <3>2. CASE c = vc
        <4>1. PICK T : T = Seq(Nat)
          OBVIOUS
        <4>2. PICK all \in Seq(T), p \in T : all = sent[c] /\ p = packet
          BY <1>4, <2>2, <4>1
        <4>3. \A k \in 1 .. Len(all) : Append(all, p)[k] = all[k]
          BY <4>1
        <4>4. sent'[c] = Append(all, p)
          <5>1. sent'[c] = Append(sent[c], packet)
            BY <1>3, <1>4, <2>2, <3>2
          <5> QED BY <4>2, <5>1
        <4>5. PICK k \in 1 .. Len(all) : k = w[i].packet
          BY <3>1, <4>2
        <4>6. sent'[c][k] = all[k]
          BY <4>3, <4>4
        <4> QED BY <4>2, <4>5, <4>6
      <3>3. CASE c # vc
        BY <1>3, <1>4, <2>2, <3>3
      <3> QED BY <3>2, <3>3
    <2>6. PICK all, more : all = sent[c] /\ more = sent'[c]
      OBVIOUS
    <2>7. /\ Held(w, more, n) = Held(w, all, n)
          /\ \A g : Out(g, w, all, n) => Out(g, w, more, n)
      <3>1. \A i \in 1 .. n : w[i] = w[i] /\ more[w[i].packet] = all[w[i].packet]
        BY <2>5, <2>6
      <3> QED BY <3>1, SameBytes
    <2> QED BY <2>3, <2>4, <2>6, <2>7, Zenon DEF Given
  <1>6. \A c \in vc_outputs : LostWhole(c)' =>
           Given(taken'[c], sent'[c], space_packet'[c], forwarded'[c])
    BY <1>2, <1>5, Zenon
  <1>7. /\ space_packet' = [c \in vc_outputs |-> space_packet'[c]]
        /\ forwarded' = [c \in vc_outputs |-> forwarded'[c]]
    BY <1>2, Zenon DEF PacketsKept
  <1> QED BY <1>1, <1>6, <1>7, Zenon DEF PacketsKept

\* A frame that is lost changes neither what is held nor what has been given.
LEMMA LossKeepsPackets == PacketsKept /\ LoseFrame => PacketsKept'
  <1> SUFFICES ASSUME PacketsKept, LoseFrame PROVE PacketsKept'
    OBVIOUS
  <1>1. BytesKept'
    BY LossKeepsBytes DEF PacketsKept
  <1>2. UNCHANGED <<space_packet, forwarded, taken, sent>>
    BY DEF LoseFrame
  <1>3. missed = [c \in TmChannels |-> missed[c]]
    BY DEF PacketsKept, BytesKept
  <1>4. ASSUME NEW c \in vc_outputs, LostWhole(c)'
        PROVE  Given(taken[c], sent[c], space_packet[c], forwarded[c])
    <2>1. c \in TmChannels
      BY SpacePacketsAssumption
    <2>2. missed[c] \subseteq missed'[c]
      <3>1. PICK v, more : missed' = [missed EXCEPT ![v] = @ \cup more]
        BY Zenon DEF LoseFrame
      <3> QED BY <1>3, <2>1, <3>1
    <2>3. LostWhole(c)
      BY <1>2, <1>4, <2>2 DEF LostWhole
    <2> QED BY <2>3 DEF PacketsKept
  <1>5. \A c \in vc_outputs : LostWhole(c)' =>
           Given(taken'[c], sent'[c], space_packet'[c], forwarded'[c])
    BY <1>2, <1>4, Zenon
  <1>6. /\ space_packet' = [c \in vc_outputs |-> space_packet'[c]]
        /\ forwarded' = [c \in vc_outputs |-> forwarded'[c]]
    BY <1>2, Zenon DEF PacketsKept
  <1> QED BY <1>1, <1>5, <1>6, Zenon DEF PacketsKept

\* A frame that is received adds to what is held and given what it brought down.
LEMMA ReceiveKeepsPackets == PacketsKept /\ ReceiveFrame => PacketsKept'
  <1> SUFFICES ASSUME PacketsKept, ReceiveFrame PROVE PacketsKept'
    OBVIOUS
  <1>1. BytesKept' /\ BytesKept
    BY ReceiveKeepsBytes DEF PacketsKept
  <1>2. PICK f \in LinkFrame : f = link[1] /\ f = Head(link)
    <2>1. link # <<>> /\ link \in Seq(LinkFrame)
      BY <1>1 DEF ReceiveFrame, BytesKept, PointersKept
    <2>2. Len(link) \in Nat /\ Len(link) # 0
      BY <2>1, NoElement
    <2> QED BY <2>1, <2>2
  <1>3. /\ taken' = [taken EXCEPT ![f.vc] = @ \o Payload(f)]
        /\ UNCHANGED <<sent, missed>>
    BY <1>2 DEF ReceiveFrame
  <1>4. /\ f.vc \in vc_outputs => Reconstruct(f.vc, Payload(f))
        /\ f.vc \notin vc_outputs => UNCHANGED <<space_packet, forwarded>>
    BY <1>2 DEF ReceiveFrame
  <1>5. taken \in [TmChannels -> Seq(MarkedByte)]
    BY <1>1 DEF BytesKept
  <1>6. PICK part, given :
          /\ part = space_packet /\ given = forwarded
          /\ part = [c \in vc_outputs |-> part[c]] /\ given = [c \in vc_outputs |-> given[c]]
    BY Zenon DEF PacketsKept
  <1>7. PICK h : h = reconstructed([packet |-> part[f.vc], published |-> <<>>,
                                    payload |-> Bytes(Payload(f))])
    OBVIOUS
  <1>8. f.vc \in vc_outputs =>
          /\ space_packet' = [part EXCEPT ![f.vc] = h.packet]
          /\ forwarded' = [given EXCEPT ![f.vc] = @ \o RoutedAll(h.published)]
    BY <1>4, <1>6, <1>7, Zenon DEF Reconstruct, RoutedAll
  <1>9. /\ space_packet' = [c \in vc_outputs |-> space_packet'[c]]
        /\ forwarded' = [c \in vc_outputs |-> forwarded'[c]]
    <2>1. CASE f.vc \in vc_outputs
      BY <1>6, <1>8, <2>1
    <2>2. CASE f.vc \notin vc_outputs
      BY <1>4, <1>6, <2>2, Zenon
    <2> QED BY <2>1, <2>2
  <1>10. ASSUME NEW c \in vc_outputs, LostWhole(c)'
         PROVE  Given(taken'[c], sent[c], space_packet'[c], forwarded'[c])
    <2>1. c \in TmChannels
      BY SpacePacketsAssumption
    <2>2. CASE c = f.vc
      <3>1. PICK w \in Seq(MarkedByte), p \in Seq(MarkedByte), x \in Seq(MarkedByte) :
              w = taken[c] /\ p = Payload(f) /\ x = w \o p /\ x = taken'[c]
        <4>1. PICK w \in Seq(MarkedByte) : w = taken[c]
          BY <1>5, <2>1
        <4>2. PICK p \in Seq(MarkedByte) : p = Payload(f)
          <5>1. PICK s \in Seq(MarkedByte) : s = f.payload
            BY DEF LinkFrame
          <5>2. PICK S : S = MarkedByte
            OBVIOUS
          <5>3. \A t \in Seq(S) : SubSeq(t, 1, Len(t) - 1) \in Seq(S)
            OBVIOUS
          <5> QED BY <5>1, <5>2, <5>3 DEF Payload, OcfLen
        <4>3. PICK x \in Seq(MarkedByte) : x = w \o p
          BY ElementsJoined
        <4>4. taken'[c] = x
          BY <1>3, <1>5, <2>1, <2>2, <4>1, <4>2, <4>3
        <4> QED BY <4>1, <4>2, <4>3, <4>4
      <3>2. WellFormed(sent[c])
        BY <1>1, <2>1, BytesCameDown DEF CameDown
      <3>3. Aligned(x, sent[c])
        <4>1. CameDown'
          BY <1>1, BytesCameDown, PTL
        <4>2. (LostWhole(c) => Aligned(taken[c], sent[c]))'
          BY <2>1, <4>1, Zenon DEF CameDown
        <4> QED BY <1>3, <1>10, <3>1, <4>2
      <3>4. LostWhole(c)
        <4>1. Range(w) \subseteq Range(x)
          <5>1. \A i \in 1 .. Len(w) : x[i] = w[i] /\ i \in 1 .. Len(x)
            <6>1. \A i \in 1 .. Len(w) : x[i] = w[i]
              <7>1. \A i \in 1 .. Len(w) : (w \o p)[i] = w[i]
                BY ElementsJoined
              <7> QED BY <3>1, <7>1, Zenon
            <6>2. Len(x) = Len(w) + Len(p)
              BY <3>1, ElementsJoined
            <6> QED BY <6>1, <6>2
          <5>2. DOMAIN w = 1 .. Len(w) /\ DOMAIN x = 1 .. Len(x)
            BY NoElement
          <5> QED BY <5>1, <5>2 DEF Range
        <4> QED BY <1>3, <1>10, <3>1, <4>1 DEF LostWhole
      <3>5. Given(w, sent[c], part[c], given[c])
        BY <1>6, <3>1, <3>4, Zenon DEF PacketsKept
      <3>6. PICK all, s : all = sent[c] /\ s = [packet |-> part[c], published |-> <<>>,
                                               payload |-> Bytes(p)]
        OBVIOUS
      <3>7. h = reconstructed(s)
        BY <1>7, <2>2, <3>1, <3>6
      <3>8. Given(x, all, h.packet, given[c] \o RoutedAll(h.published))
        BY <3>1, <3>2, <3>3, <3>5, <3>6, <3>7, FrameReconstructed
      <3>9. space_packet'[c] = h.packet /\ forwarded'[c] = given[c] \o RoutedAll(h.published)
        BY <1>6, <1>8, <2>2
      <3> QED BY <3>1, <3>6, <3>8, <3>9
    <2>3. CASE c # f.vc
      <3>1. taken'[c] = taken[c]
        BY <1>3, <1>5, <2>1, <2>3
      <3>2. space_packet'[c] = space_packet[c] /\ forwarded'[c] = forwarded[c]
        <4>1. CASE f.vc \in vc_outputs
          BY <1>6, <1>8, <2>3, <4>1
        <4>2. CASE f.vc \notin vc_outputs
          BY <1>4, <4>2, Zenon
        <4> QED BY <4>1, <4>2
      <3>3. LostWhole(c)
        BY <1>3, <1>10, <3>1 DEF LostWhole
      <3> QED BY <3>1, <3>2, <3>3 DEF PacketsKept
    <2> QED BY <2>2, <2>3
  <1>11. \A c \in vc_outputs : LostWhole(c)' =>
            Given(taken'[c], sent'[c], space_packet'[c], forwarded'[c])
    BY <1>3, <1>10, Zenon
  <1> QED BY <1>1, <1>9, <1>11, Zenon DEF PacketsKept

\* Every step keeps what is held and given of the packets that came down.
LEMMA StepKeepsPackets == PacketsKept /\ [SpacePacketNext]_spacePacketVars => PacketsKept'
  <1> SUFFICES ASSUME PacketsKept, [SpacePacketNext]_spacePacketVars PROVE PacketsKept'
    OBVIOUS
  <1>1. CASE \E vc \in TmChannels, apid \in ApIds, payload \in Payloads :
                 SendPacket(vc, apid, payload)
    BY <1>1, SendKeepsPackets
  <1>2. CASE ReceiveFrame
    BY <1>2, ReceiveKeepsPackets
  <1>3. CASE LoseFrame
    BY <1>3, LossKeepsPackets
  <1>4. CASE UNCHANGED spacePacketVars
    <2>1. BytesKept'
      BY <1>4, StepKeepsBytes DEF PacketsKept
    <2>2. UNCHANGED <<sent, space_packet, forwarded, taken, missed>>
      BY <1>4 DEF spacePacketVars
    <2> QED BY <2>1, <2>2, Zenon DEF PacketsKept, LostWhole
  <1> QED BY <1>1, <1>2, <1>3, <1>4 DEF SpacePacketNext

\* By then the packets are those that were sent.
LEMMA PacketsAreExtracted == PacketsKept => SpacePacketsExtracted
  <1> SUFFICES ASSUME PacketsKept, NEW vc \in vc_outputs, LostWhole(vc)
               PROVE  /\ Len(forwarded[vc]) = Cardinality(LastBytes(vc))
                      /\ \A i \in LastBytes(vc) :
                            forwarded[vc][Cardinality({j \in LastBytes(vc) : j <= i})]
                                = Routed(sent[vc][taken[vc][i].packet])
    BY DEF SpacePacketsExtracted
  <1>0. PICK all : all = sent[vc]
    OBVIOUS
  <1>1. PICK w \in Seq(MarkedByte), n \in Nat :
          w = taken[vc] /\ n = Len(w) /\ DOMAIN w = 1 .. n
    <2>1. taken[vc] \in Seq(MarkedByte)
      BY SpacePacketsAssumption, BytesCameDown DEF PacketsKept, CameDown
    <2>2. DOMAIN taken[vc] = 1 .. Len(taken[vc]) /\ Len(taken[vc]) \in Nat
      BY <2>1, NoElement
    <2> QED BY <2>1, <2>2
  <1>2. Out(forwarded[vc], w, all, n)
    BY <1>0, <1>1, Zenon DEF PacketsKept, Given
  <1>3. LastBytes(vc) = Ends(w, all, n)
    BY <1>0, <1>1 DEF LastBytes, Ends, IsLast
  <1>4. ASSUME NEW i \in Ends(w, all, n)
        PROVE  {j \in Ends(w, all, n) : j <= i} = Ends(w, all, i)
    <2>1. i \in 1 .. n
      BY DEF Ends
    <2>2. \A j : j \in 1 .. i <=> j \in 1 .. n /\ j <= i
      BY <2>1
    <2> QED BY <2>2 DEF Ends
  <1> QED BY <1>0, <1>1, <1>2, <1>3, <1>4, Zenon DEF Out

\* What there is of the packets on the link and in the blocks is kept.
THEOREM PacketsAreKept == SpacePacketSpec => []PacketsKept
  BY PacketsInitially, StepKeepsPackets, PTL DEF SpacePacketSpec

\* The space packets that came down go to the ports of their AP_IDs in order, as long as no
\* packet was cut (telemetry_packet_reconstruction.handle_msg(), pathID_demultiplexer).
THEOREM PacketsExtracted == SpacePacketSpec => []SpacePacketsExtracted
  BY PacketsAreKept, PacketsAreExtracted, PTL

------------------------------------------------------------------------------
\* NANOLINK: a byte of the stream, and what is behind those that are not in a PDU yet.
StreamByte == [byte : Nat, frame : Nat, at : Nat]

StreamEnd(all) == [byte |-> FillByte, frame |-> Len(all), at |-> 0]

\* What a frame is.
FramesFormed(all) ==
    /\ all \in Seq(Seq(Nat))
    /\ \A k \in 1 .. Len(all) : /\ Len(all[k]) >= header_len
                                /\ all[k][header_len] = Len(all[k]) - header_len
                                /\ NoSyncword(all[k])

\* What a byte is: of a syncword, of a frame or between frames.
OfFrame(b, all) ==
    /\ b.at = 0 => b.frame \in 0 .. Len(all) /\ b.byte = FillByte
    /\ b.at # 0 => b.frame \in 1 .. Len(all)
    /\ b.at = 1 => b.byte = 8
    /\ b.at = 2 => b.byte = 9
    /\ b.at \notin {0, 1, 2} => /\ b.at <= Len(all[b.frame]) + 2
                               /\ b.byte = all[b.frame][b.at - 2]

\* The byte behind a byte.
FrameEnds(b, all) == b.at = 0 \/ b.at = Len(all[b.frame]) + 2

GoesOn(b, c, all) ==
    \/ FrameEnds(b, all) /\ c.frame = b.frame /\ c.at = 0
    \/ FrameEnds(b, all) /\ c.frame = b.frame + 1 /\ c.at = 1
    \/ ~ FrameEnds(b, all) /\ c.frame = b.frame /\ c.at = b.at + 1

FrameStream(x, all) ==
    /\ x \in Seq(StreamByte)
    /\ Len(x) >= 1
    /\ \A i \in 1 .. Len(x) : OfFrame(x[i], all)
    /\ \A i \in 1 .. Len(x) - 1 : GoesOn(x[i], x[i + 1], all)
    /\ x[Len(x)] = StreamEnd(all)

\* The frames that have come, and begun, before a byte.
FramesCome(b) == IF b.at = 0 THEN b.frame ELSE b.frame - 1
FramesBegun(b) == IF b.at = 1 THEN b.frame - 1 ELSE b.frame

\* The frames among the first n that are not severed, and those that were published.
Unsevered(cut, n) == {k \in 1 .. n : k \notin cut}

FramesOut(given, all, cut, n) ==
    /\ given \in Seq(Seq(Nat))
    /\ Len(given) = Cardinality(Unsevered(cut, n))
    /\ \A k \in Unsevered(cut, n) : given[Cardinality(Unsevered(cut, k))] = all[k]

\* What the block is in before byte b.
Searching(b, cut) == b.at \in {0, 1} \/ b.frame \in cut

InFrame(h, b, all, cut) ==
    /\ b.at >= 3
    /\ b.frame \notin cut
    /\ h.current = SubSeq(all[b.frame], 1, b.at - 3)
    /\ h.remain = IF b.at - 3 < header_len THEN None ELSE Len(all[b.frame]) - (b.at - 3)

InStep(h, b, all, cut) ==
    \/ h.in_frame = FALSE /\ Searching(b, cut)
    \/ h.in_frame = TRUE /\ InFrame(h, b, all, cut)

\* What the block holds, and what was published, when x is the stream that is to come.
KeptBy(h, all, x, cut, given) ==
    /\ h \in [in_frame : BOOLEAN, current : Seq(Nat), remain : Int]
    /\ FramesFormed(all)
    /\ FrameStream(x, all)
    /\ cut \subseteq Nat
    /\ \A k \in cut : k <= FramesBegun(x[1])
    /\ InStep(h, x[1], all, cut)
    /\ FramesOut(given, all, cut, FramesCome(x[1]))

Held0 == [in_frame |-> in_frame, current |-> current, remain |-> remain]

Stream == Append(waiting, StreamEnd(transmitted))

FramesKept == /\ waiting \in Seq(StreamByte)
              /\ KeptBy(Held0, transmitted, Stream, severed, defragmented)

------------------------------------------------------------------------------
\* How many frames have come does not go down, nor how many have begun.
LEMMA MoreFramesCome ==
    ASSUME NEW x, NEW all, FrameStream(x, all), NEW i \in 1 .. Len(x), NEW j \in i .. Len(x)
    PROVE  FramesCome(x[i]) <= FramesCome(x[j]) /\ FramesBegun(x[i]) <= FramesBegun(x[j])
  <1>1. PICK n \in Nat : n = Len(x) /\ i \in 1 .. n /\ j \in i .. n
    BY DEF FrameStream
  <1>2. PICK m \in Nat : m = n - i
    <2>1. n - i \in Nat
      BY <1>1
    <2> QED BY <2>1
  <1>3. PICK S : S = {e \in 0 .. m : /\ FramesCome(x[i]) <= FramesCome(x[i + e])
                                     /\ FramesBegun(x[i]) <= FramesBegun(x[i + e])}
    OBVIOUS
  <1>4. \A k \in 1 .. n : x[k] \in StreamByte
    BY <1>1 DEF FrameStream
  <1>5. 0 \in S
    <2>1. x[i] \in StreamByte /\ i + 0 = i /\ 0 \in 0 .. m
      BY <1>1, <1>4
    <2>2. FramesCome(x[i]) \in Int /\ FramesBegun(x[i]) \in Int
      BY <2>1 DEF StreamByte, FramesCome, FramesBegun
    <2> QED BY <1>3, <2>1, <2>2
  <1>6. ASSUME NEW e \in 1 .. m, e - 1 \in S PROVE e \in S
    <2>1. PICK k \in 1 .. n - 1 : k = i + (e - 1) /\ k + 1 = i + e
      <3>1. i + (e - 1) \in 1 .. n - 1 /\ (i + (e - 1)) + 1 = i + e
        BY <1>1, <1>2
      <3> QED BY <3>1
    <2>2. k \in 1 .. n /\ k + 1 \in 1 .. n
      BY <2>1
    <2>3. PICK a, b, c \in StreamByte : a = x[i] /\ b = x[k] /\ c = x[k + 1]
      BY <1>1, <1>4, <2>2
    <2>4. GoesOn(b, c, all) /\ OfFrame(b, all) /\ OfFrame(c, all)
      BY <1>1, <2>1, <2>2, <2>3, Zenon DEF FrameStream
    <2>5. FramesCome(a) <= FramesCome(b) /\ FramesBegun(a) <= FramesBegun(b)
      BY <1>3, <1>6, <2>1, <2>3
    <2>6. FramesCome(b) <= FramesCome(c) /\ FramesBegun(b) <= FramesBegun(c)
      <3>1. FrameEnds(b, all) \/ b.at # 0
        BY DEF FrameEnds
      <3>2. PICK p, f, t, g \in Nat : p = b.at /\ f = b.frame /\ t = c.at /\ g = c.frame
        BY DEF StreamByte
      <3>3. \/ g = f /\ t = 0
            \/ g = f + 1 /\ t = 1
            \/ p # 0 /\ g = f /\ t = p + 1
        BY <2>4, <3>1, <3>2, Zenon DEF GoesOn
      <3>4. /\ FramesCome(b) = (IF p = 0 THEN f ELSE f - 1)
            /\ FramesCome(c) = (IF t = 0 THEN g ELSE g - 1)
            /\ FramesBegun(b) = (IF p = 1 THEN f - 1 ELSE f)
            /\ FramesBegun(c) = (IF t = 1 THEN g - 1 ELSE g)
        BY <3>2 DEF FramesCome, FramesBegun
      <3> QED BY <3>3, <3>4
    <2>7. FramesCome(a) <= FramesCome(c) /\ FramesBegun(a) <= FramesBegun(c)
      <3>1. /\ FramesCome(a) \in Int /\ FramesCome(b) \in Int /\ FramesCome(c) \in Int
            /\ FramesBegun(a) \in Int /\ FramesBegun(b) \in Int /\ FramesBegun(c) \in Int
        BY DEF FramesCome, FramesBegun, StreamByte
      <3> QED BY <2>5, <2>6, <3>1
    <2> QED BY <1>3, <2>1, <2>3, <2>7
  <1>7. \A e \in 0 .. m : e \in S
    BY <1>5, <1>6, StepByStep
  <1>8. PICK e \in 0 .. m : j = i + e
    <2>1. j - i \in 0 .. m /\ j = i + (j - i)
      BY <1>1, <1>2
    <2> QED BY <2>1
  <1> QED BY <1>3, <1>7, <1>8

\* Two elements behind one another.
LEMMA TwoTaken ==
    ASSUME NEW S, NEW s \in Seq(S), NEW j \in 1 .. Len(s) - 1
    PROVE  /\ SubSeq(s, j, j + 1) \in Seq(S) /\ Len(SubSeq(s, j, j + 1)) = 2
           /\ SubSeq(s, j, j + 1)[1] = s[j] /\ SubSeq(s, j, j + 1)[2] = s[j + 1]
  <1>1. PICK n \in Nat : n = Len(s)
    OBVIOUS
  <1>2. PICK k \in 1 .. n : j \in 1 .. n /\ k = j + 1 /\ k - j + 1 = 2 /\ j + 2 - 1 = k
    <2>1. /\ j + 1 \in 1 .. n /\ j \in 1 .. n /\ (j + 1) - j + 1 = 2 /\ j + 2 - 1 = j + 1
      BY <1>1
    <2> QED BY <2>1
  <1>3. /\ SubSeq(s, j, k) \in Seq(S)
        /\ Len(SubSeq(s, j, k)) = k - j + 1
        /\ \A i \in 1 .. k - j + 1 : SubSeq(s, j, k)[i] = s[j + i - 1]
    BY <1>1, <1>2
  <1>4. 1 \in 1 .. 2 /\ 2 \in 1 .. 2 /\ j + 1 - 1 = j
    OBVIOUS
  <1>5. SubSeq(s, j, k)[1] = s[j] /\ SubSeq(s, j, k)[2] = s[k]
    BY <1>2, <1>3, <1>4, Zenon
  <1> QED BY <1>2, <1>3, <1>5, Zenon

\* What the bytes of s are that are left.
LEMMA BytesLeft ==
    ASSUME NEW S, NEW s \in Seq(S), NEW n \in Nat
    PROVE  /\ From(s, n) \in Seq(S)
           /\ Len(From(s, n)) = IF n < Len(s) THEN Len(s) - n ELSE 0
           /\ \A i \in 1 .. Len(s) - n : From(s, n)[i] = s[n + i]
  <1>1. /\ SubSeq(s, n + 1, Len(s)) \in Seq(S)
        /\ Len(SubSeq(s, n + 1, Len(s))) = IF n < Len(s) THEN Len(s) - n ELSE 0
        /\ \A i \in 1 .. Len(s) - n : SubSeq(s, n + 1, Len(s))[i] = s[n + i]
    OBVIOUS
  <1> QED BY <1>1, Zenon DEF From

\* Bytes taken of s behind the first c of q, where s goes on with q.
BytesGoOn(s, q, c, m) == \A j \in 1 .. m : s[j] = q[c + j]

AreTaken(s, q, r, c, m) ==
    /\ SubSeq(q, 1, c) \o UpTo(s, r) = SubSeq(q, 1, c + m)
    /\ Len(UpTo(s, r)) = m
    /\ From(s, r) \in Seq(Nat) /\ Len(From(s, r)) = Len(s) - m
    /\ \A j \in 1 .. Len(s) - m : From(s, r)[j] = s[m + j]

\* Taking up to r bytes of s takes m bytes of q.
LEMMA BytesTaken ==
    ASSUME NEW s \in Seq(Nat), NEW q \in Seq(Nat), NEW r \in Nat, NEW c \in Nat, NEW m \in Nat,
           m = IF r < Len(s) THEN r ELSE Len(s), c + m <= Len(q),
           BytesGoOn(s, q, c, m)
    PROVE  AreTaken(s, q, r, c, m)
  <1>0. \A j \in 1 .. m : s[j] = q[c + j]
    BY DEF BytesGoOn
  <1>1. PICK n, l \in Nat : n = Len(s) /\ l = Len(q) /\ m <= n /\ c + m <= l
    OBVIOUS
  <1>2. PICK u \in Seq(Nat) : u = UpTo(s, r) /\ Len(u) = m /\ \A j \in 1 .. m : u[j] = s[j]
    <2>1. UpTo(s, r) = SubSeq(s, 1, m)
      BY DEF UpTo
    <2>2. /\ SubSeq(s, 1, m) \in Seq(Nat) /\ Len(SubSeq(s, 1, m)) = m
          /\ \A j \in 1 .. m : SubSeq(s, 1, m)[j] = s[j]
      BY <1>1
    <2> QED BY <2>1, <2>2
  <1>3. PICK v, w \in Seq(Nat) :
          /\ v = SubSeq(q, 1, c) /\ w = SubSeq(q, 1, c + m)
          /\ Len(v) = c /\ Len(w) = c + m
          /\ \A j \in 1 .. c : v[j] = q[j]
          /\ \A j \in 1 .. c + m : w[j] = q[j]
    <2>1. /\ SubSeq(q, 1, c) \in Seq(Nat) /\ Len(SubSeq(q, 1, c)) = c
          /\ \A j \in 1 .. c : SubSeq(q, 1, c)[j] = q[j]
      BY <1>1
    <2>2. /\ SubSeq(q, 1, c + m) \in Seq(Nat) /\ Len(SubSeq(q, 1, c + m)) = c + m
          /\ \A j \in 1 .. c + m : SubSeq(q, 1, c + m)[j] = q[j]
      BY <1>1
    <2> QED BY <2>1, <2>2
  <1>4. PICK y \in Seq(Nat) : AreJoined(y, v, u, c, m)
    BY <1>2, <1>3, NumberedJoined
  <1>5. y = w
    <2>1. ASSUME NEW j \in 1 .. c + m PROVE y[j] = w[j]
      <3>1. CASE j <= c
        BY <1>3, <1>4, <3>1 DEF AreJoined
      <3>2. CASE j > c
        <4>1. PICK e \in 1 .. m : j = c + e
          <5>1. j - c \in 1 .. m /\ j = c + (j - c)
            BY <3>2
          <5> QED BY <5>1
        <4>2. y[c + e] = u[e] /\ u[e] = s[e] /\ s[e] = q[c + e]
          BY <1>0, <1>2, <1>4, <4>1 DEF AreJoined
        <4> QED BY <1>3, <4>1, <4>2
      <3> QED BY <3>1, <3>2
    <2>2. Len(y) = c + m
      BY <1>4 DEF AreJoined
    <2> QED BY <1>3, <2>1, <2>2, SameElements
  <1>6. /\ From(s, r) \in Seq(Nat) /\ Len(From(s, r)) = n - m
        /\ \A j \in 1 .. n - m : From(s, r)[j] = s[m + j]
    <2>1. /\ From(s, r) \in Seq(Nat) /\ Len(From(s, r)) = IF r < n THEN n - r ELSE 0
          /\ \A j \in 1 .. n - r : From(s, r)[j] = s[r + j]
      <3>1. /\ From(s, r) \in Seq(Nat)
            /\ Len(From(s, r)) = IF r < Len(s) THEN Len(s) - r ELSE 0
            /\ \A j \in 1 .. Len(s) - r : From(s, r)[j] = s[r + j]
        BY BytesLeft
      <3> QED BY <1>1, <3>1, Zenon
    <2>2. m = (IF r < n THEN r ELSE n)
      BY <1>1
    <2>3. m <= n /\ (r < n => m = r) /\ (~ (r < n) => m = n)
      BY <2>2
    <2>4. CASE r < n
      BY <2>1, <2>3, <2>4
    <2>5. CASE ~ (r < n)
      <3>1. Len(From(s, r)) = n - m /\ n - m = 0
        BY <2>1, <2>3, <2>5
      <3>2. \A j \in 1 .. n - m : FALSE
        BY <3>1
      <3> QED BY <2>1, <3>1, <3>2
    <2> QED BY <2>4, <2>5
  <1>7. SubSeq(q, 1, c) \o UpTo(s, r) = SubSeq(q, 1, c + m)
    BY <1>2, <1>3, <1>4, <1>5, Zenon DEF AreJoined
  <1> QED BY <1>1, <1>2, <1>6, <1>7, Zenon DEF AreTaken

------------------------------------------------------------------------------
\* From byte i on, the bytes are those of frame k after the first c, to its end.
FrameAlong(x, i, all, k, c, l) ==
    /\ \A j \in 0 .. l - c - 1 : /\ i + j < Len(x)
                                 /\ x[i + j].frame = k
                                 /\ x[i + j].byte = all[k][c + 1 + j]
                                 /\ x[i + j].at = c + 3 + j
    /\ i + (l - c) <= Len(x)
    /\ x[i + (l - c)].at \in {0, 1}
    /\ FramesCome(x[i + (l - c)]) = k

\* At a there is a byte of a frame, and not its last.
Within(a, l) == a # 0 /\ a # l + 2

\* So it is behind byte c + 1, up to the one before the last.
LEMMA BeforeTheEnd ==
    ASSUME NEW c \in Nat, NEW l \in Nat, NEW m \in Nat, m = l - c - 1, NEW j \in 1 .. m
    PROVE  Within(c + 3 + (j - 1), l)
BY DEF Within

\* The place of the last byte of a frame, m behind byte c + 1.
LastAt(c, m, l) == c + 3 + m = l + 2

\* What m is.
LEMMA UpToTheEnd ==
    ASSUME NEW c \in Nat, NEW l \in Nat, NEW m \in Nat, m = l - c - 1
    PROVE  LastAt(c, m, l)
BY DEF LastAt

\* Behind a byte of a frame the others follow.
LEMMA FrameGoesAlong ==
    ASSUME NEW x, NEW all, FrameStream(x, all), NEW i \in Nat, i \in 1 .. Len(x),
           NEW k, k = x[i].frame, NEW c \in Nat, x[i].at = c + 3,
           NEW l \in Nat, l = Len(all[k])
    PROVE  c < l /\ FrameAlong(x, i, all, k, c, l)
  <1>1. PICK n \in Nat : n = Len(x) /\ i \in 1 .. n
    BY DEF FrameStream
  <1>2. /\ \A e \in 1 .. n : x[e] \in StreamByte /\ OfFrame(x[e], all)
        /\ \A e \in 1 .. n - 1 : GoesOn(x[e], x[e + 1], all)
        /\ x[n].at = 0
    <2>1. \A e \in 1 .. n : x[e] \in StreamByte
      BY <1>1 DEF FrameStream
    <2>2. StreamEnd(all).at = 0
      BY DEF StreamEnd
    <2> QED BY <1>1, <2>1, <2>2, Zenon DEF FrameStream
  <1>3. c < l
    <2>1. OfFrame(x[i], all)
      BY <1>1, <1>2
    <2>2. x[i].at # 0 /\ x[i].at # 1 /\ x[i].at # 2
      OBVIOUS
    <2>3. x[i].at <= Len(all[k]) + 2
      BY <2>1, <2>2, Zenon DEF OfFrame
    <2> QED BY <2>3
  <1>4. PICK m \in Nat : m = l - c - 1
    <2>1. l - c - 1 \in Nat
      BY <1>3
    <2> QED BY <2>1
  <1>5. PICK S : S = {j \in 0 .. m : /\ i + j \in 1 .. n
                                     /\ x[i + j].frame = k
                                     /\ x[i + j].at = c + 3 + j}
    OBVIOUS
  <1>6. 0 \in S
    <2>1. i + 0 = i /\ c + 3 + 0 = c + 3 /\ 0 \in 0 .. m
      BY <1>1
    <2> QED BY <1>1, <1>5, <2>1
  <1>7. ASSUME NEW e \in 1 .. n, x[e].at # 0 PROVE e \in 1 .. n - 1
    <2>1. e # n
      BY <1>2, <1>7
    <2> QED BY <1>7, <2>1
  <1>8. ASSUME NEW j \in 1 .. m, j - 1 \in S PROVE j \in S
    <2>1. PICK e \in 1 .. n : e = i + (j - 1)
      BY <1>5, <1>8
    <2>2. x[e].frame = k /\ x[e].at = c + 3 + (j - 1)
      BY <1>5, <1>8, <2>1
    <2>3. x[e].at # 0 /\ x[e].at # l + 2
      <3>1. Within(c + 3 + (j - 1), l)
        BY <1>4, BeforeTheEnd, Zenon
      <3> QED BY <2>2, <3>1, Zenon DEF Within
    <2>4. e \in 1 .. n - 1 /\ e + 1 = i + j /\ e + 1 \in 1 .. n
      <3>1. e \in 1 .. n - 1
        BY <1>7, <2>3
      <3> QED BY <1>1, <2>1, <3>1
    <2>5. ~ FrameEnds(x[e], all)
      BY <2>2, <2>3, Zenon DEF FrameEnds
    <2>6. x[e + 1].frame = k /\ x[e + 1].at = x[e].at + 1
      BY <1>2, <2>2, <2>4, <2>5, Zenon DEF GoesOn
    <2>7. x[e + 1].at = c + 3 + j
      BY <2>2, <2>6
    <2> QED BY <1>5, <2>4, <2>6, <2>7
  <1>9. \A j \in 0 .. m : j \in S
    BY <1>6, <1>8, StepByStep
  <1>10. ASSUME NEW j \in 0 .. m
         PROVE  /\ i + j \in 1 .. n - 1 /\ x[i + j].frame = k
                /\ x[i + j].byte = all[k][c + 1 + j] /\ x[i + j].at = c + 3 + j
    <2>1. /\ i + j \in 1 .. n /\ x[i + j].frame = k
          /\ x[i + j].at = c + 3 + j
      BY <1>5, <1>9
    <2>2. PICK e \in 1 .. n : e = i + j
      BY <2>1
    <2>3. /\ x[e].at # 0 /\ x[e].at # 1 /\ x[e].at # 2
          /\ x[e].at - 2 = c + 1 + j
      BY <2>1, <2>2
    <2>4. x[e].byte = all[k][x[e].at - 2]
      BY <1>2, <2>1, <2>2, <2>3, Zenon DEF OfFrame
    <2> QED BY <1>7, <2>1, <2>2, <2>3, <2>4
  <1>11. PICK e \in 1 .. n - 1 : e = i + m /\ e + 1 = i + (l - c) /\ e + 1 \in 1 .. n
    <2>1. m \in 0 .. m
      OBVIOUS
    <2>2. i + m \in 1 .. n - 1
      BY <1>10, <2>1
    <2>3. PICK e \in 1 .. n - 1 : e = i + m
      BY <2>2
    <2>4. e + 1 = i + (m + 1) /\ m + 1 = l - c /\ e + 1 \in 1 .. n
      BY <1>4, <2>3
    <2> QED BY <2>3, <2>4
  <1>12. x[e].frame = k /\ x[e].at = l + 2
    <2>1. m \in 0 .. m
      OBVIOUS
    <2>2. c + 3 + m = l + 2
      <3>1. LastAt(c, m, l)
        BY <1>4, UpToTheEnd, Zenon
      <3> QED BY <3>1, Zenon DEF LastAt
    <2>3. x[i + m].frame = k /\ x[i + m].at = c + 3 + m
      BY <1>10, <2>1, Zenon
    <2> QED BY <1>11, <2>2, <2>3, Zenon
  <1>13. x[e + 1].at \in {0, 1} /\ FramesCome(x[e + 1]) = k
    <2>1. PICK t, g \in Nat : t = x[e + 1].at /\ g = x[e + 1].frame
      BY <1>2, <1>11 DEF StreamByte
    <2>2. FrameEnds(x[e], all)
      BY <1>12, Zenon DEF FrameEnds
    <2>3. (t = 0 /\ g = k) \/ (t = 1 /\ g = k + 1)
      <3>1. GoesOn(x[e], x[e + 1], all)
        BY <1>2
      <3>2. \/ x[e + 1].frame = x[e].frame /\ x[e + 1].at = 0
            \/ x[e + 1].frame = x[e].frame + 1 /\ x[e + 1].at = 1
        BY <2>2, <3>1, Zenon DEF GoesOn
      <3>3. x[e + 1].frame = g /\ x[e + 1].at = t /\ x[e].frame = k
        BY <1>12, <2>1
      <3> QED BY <3>2, <3>3, Zenon
    <2>4. k \in Nat
      BY <1>1, <1>2 DEF StreamByte
    <2>5. FramesCome(x[e + 1]) = IF t = 0 THEN g ELSE g - 1
      BY <2>1, Zenon DEF FramesCome
    <2> QED BY <2>1, <2>3, <2>4, <2>5
  <1>14. \A j \in 0 .. m : i + j < n
    <2>1. ASSUME NEW j \in 0 .. m PROVE i + j < n
      <3>1. i + j \in 1 .. n - 1
        BY <1>10, Zenon
      <3> QED BY <3>1
    <2> QED BY <2>1
  <1>15. m = l - c - 1 /\ i + (l - c) <= n
    BY <1>4, <1>11
  <1> QED BY <1>1, <1>3, <1>10, <1>11, <1>13, <1>14, <1>15 DEF FrameAlong

\* Two bytes as a syncword are one, and a frame follows.
LEMMA PairIsSyncword ==
    ASSUME NEW x, NEW all, FrameStream(x, all), FramesFormed(all), NEW e \in Nat, e >= 1,
           e + 1 < Len(x), x[e].byte = 8, x[e + 1].byte = 9
    PROVE  /\ x[e].at = 1
           /\ x[e + 2].at = 3 /\ x[e + 2].frame = x[e].frame
           /\ FramesCome(x[e + 2]) = FramesCome(x[e])
  <1>1. PICK n \in Nat : n = Len(x) /\ e \in 1 .. n - 1 /\ e + 1 \in 1 .. n - 1
    BY DEF FrameStream
  <1>2. e \in 1 .. n /\ e + 1 \in 1 .. n /\ (e + 1) + 1 = e + 2 /\ e + 2 \in 1 .. n
    BY <1>1
  <1>3. PICK b, c, d \in StreamByte : b = x[e] /\ c = x[e + 1] /\ d = x[e + 2]
    BY <1>1, <1>2 DEF FrameStream
  <1>4. /\ OfFrame(b, all) /\ OfFrame(c, all) /\ GoesOn(b, c, all) /\ GoesOn(c, d, all)
    BY <1>1, <1>2, <1>3, Zenon DEF FrameStream
  <1>5. PICK bf, ba, cf, ca, df, da \in Nat :
          /\ bf = b.frame /\ ba = b.at /\ cf = c.frame /\ ca = c.at /\ df = d.frame /\ da = d.at
    BY DEF StreamByte
  <1>6. b.byte = 8 /\ c.byte = 9 /\ 8 # 9
    BY <1>3
  <1>7. ca # 0 /\ ca # 1
    BY <1>4, <1>5, <1>6 DEF OfFrame, FillByte
  <1>8. cf = bf /\ ca = ba + 1 /\ ~ FrameEnds(b, all)
    BY <1>4, <1>5, <1>7, Zenon DEF GoesOn
  <1>9. ba # 0
    BY <1>5, <1>8, Zenon DEF FrameEnds
  <1>10. ba # 2
    BY <1>4, <1>5, <1>6 DEF OfFrame
  <1>11. ASSUME ba >= 3 PROVE FALSE
    <2>1. ba # 1 /\ ba # 2 /\ ca # 2
      BY <1>8, <1>11
    <2>2. /\ bf \in 1 .. Len(all) /\ ca <= Len(all[bf]) + 2
          /\ all[bf][ba - 2] = 8 /\ all[bf][ca - 2] = 9
      BY <1>4, <1>5, <1>6, <1>7, <1>8, <1>9, <2>1, Zenon DEF OfFrame
    <2>3. PICK q \in Seq(Nat) : q = all[bf] /\ NoSyncword(q)
      BY <2>2 DEF FramesFormed
    <2>4. PICK p \in Nat : p = ba - 2 /\ p + 1 = ca - 2 /\ p \in 1 .. Len(q) - 1
      <3>1. ba - 2 \in Nat /\ (ba - 2) + 1 = ca - 2 /\ ba - 2 \in 1 .. Len(q) - 1
        BY <1>8, <1>11, <2>2, <2>3
      <3> QED BY <3>1
    <2>5. q[p] = 8 /\ q[p + 1] = 9
      BY <2>2, <2>3, <2>4
    <2>6. SubSeq(q, p, p + 1) = syncword
      <3>0. /\ SubSeq(q, p, p + 1) \in Seq(Nat) /\ Len(SubSeq(q, p, p + 1)) = 2
            /\ SubSeq(q, p, p + 1)[1] = q[p] /\ SubSeq(q, p, p + 1)[2] = q[p + 1]
        <4>1. p \in 1 .. Len(q) - 1
          BY <2>4
        <4> QED BY <4>1, TwoTaken
      <3>1. PICK y \in Seq(Nat) :
              y = SubSeq(q, p, p + 1) /\ Len(y) = 2 /\ y[1] = q[p] /\ y[2] = q[p + 1]
        BY <3>0
      <3>2. syncword \in Seq(Nat) /\ Len(syncword) = 2 /\ syncword[1] = 8 /\ syncword[2] = 9
        BY DEF syncword
      <3>3. \A j \in 1 .. 2 : y[j] = syncword[j]
        <4>1. \A j \in 1 .. 2 : j = 1 \/ j = 2
          OBVIOUS
        <4> QED BY <2>5, <3>1, <3>2, <4>1
      <3> QED BY <3>1, <3>2, <3>3, SameElements
    <2> QED BY <2>3, <2>4, <2>6 DEF NoSyncword
  <1>12. ba = 1 /\ ca = 2
    BY <1>8, <1>9, <1>10, <1>11
  <1>13. ~ FrameEnds(c, all)
    <2>1. cf \in 1 .. Len(all)
      BY <1>4, <1>5, <1>12 DEF OfFrame
    <2>2. all[cf] \in Seq(Nat) /\ Len(all[cf]) >= 2
      BY <2>1 DEF FramesFormed, header_len
    <2>3. ca # Len(all[cf]) + 2
      BY <1>12, <2>2
    <2> QED BY <1>5, <1>7, <2>3, Zenon DEF FrameEnds
  <1>14. df = cf /\ da = ca + 1
    BY <1>4, <1>5, <1>13, Zenon DEF GoesOn
  <1>15. da = 3 /\ df = bf
    BY <1>8, <1>12, <1>14
  <1>16. FramesCome(d) = FramesCome(b)
    BY <1>5, <1>12, <1>15 DEF FramesCome
  <1> QED BY <1>3, <1>5, <1>12, <1>15, <1>16

------------------------------------------------------------------------------
\* Between the bytes i and n, the frames that begin are severed just if they do at n.
CutAt(x, n, cut) == \A e \in 1 .. n : x[e].at = 1 => (x[e].frame \in cut <=> e = n)

\* The bytes e and e + 1 are a syncword.
PairAt(x, e) == x[e].byte = 8 /\ x[e + 1].byte = 9

\* Up to the first syncword no frame comes that is to come out.
LEMMA SearchGoesOn ==
    ASSUME NEW x, NEW all, FrameStream(x, all), FramesFormed(all), NEW cut,
           NEW n \in Nat, n < Len(x), NEW i \in 0 .. n, NEW m \in i .. n, CutAt(x, n, cut),
           Searching(x[i + 1], cut),
           \A e \in i + 1 .. m : e < n => ~ PairAt(x, e)
    PROVE  /\ Searching(x[m + 1], cut)
           /\ Unsevered(cut, FramesCome(x[m + 1])) = Unsevered(cut, FramesCome(x[i + 1]))
  <1>1. PICK a \in Nat : a = Len(x) /\ i \in Nat /\ m \in Nat /\ m - i \in Nat /\ n + 1 \in 1 .. a
    BY DEF FrameStream
  <1>2. PICK d \in Nat : d = m - i
    BY <1>1
  <1>3. /\ \A e \in 1 .. a : x[e] \in StreamByte /\ OfFrame(x[e], all)
        /\ \A e \in 1 .. a - 1 : GoesOn(x[e], x[e + 1], all)
    <2>1. \A e \in 1 .. a : x[e] \in StreamByte
      BY <1>1 DEF FrameStream
    <2> QED BY <1>1, <2>1, Zenon DEF FrameStream
  <1>4. PICK U : U = Unsevered(cut, FramesCome(x[i + 1]))
    OBVIOUS
  <1>5. PICK S : S = {j \in 0 .. d : /\ Searching(x[i + 1 + j], cut)
                                     /\ Unsevered(cut, FramesCome(x[i + 1 + j])) = U}
    OBVIOUS
  <1>6. 0 \in S
    <2>1. i + 1 + 0 = i + 1 /\ 0 \in 0 .. d
      BY <1>1
    <2> QED BY <1>4, <1>5, <2>1
  <1>7. ASSUME NEW j \in 1 .. d, j - 1 \in S PROVE j \in S
    <2>1. PICK e \in 1 .. n : e = i + 1 + (j - 1) /\ e + 1 = i + 1 + j /\ e \in i + 1 .. m
      <3>1. /\ i + 1 + (j - 1) \in 1 .. n /\ (i + 1 + (j - 1)) + 1 = i + 1 + j
            /\ i + 1 + (j - 1) \in i + 1 .. m
        BY <1>1, <1>2
      <3> QED BY <3>1
    <2>2. e \in 1 .. a - 1 /\ e \in 1 .. a /\ e + 1 \in 1 .. a
      BY <1>1, <2>1
    <2>3. PICK b, c \in StreamByte : b = x[e] /\ c = x[e + 1]
      BY <1>3, <2>2
    <2>4. /\ OfFrame(b, all) /\ OfFrame(c, all) /\ GoesOn(b, c, all)
          /\ Searching(b, cut) /\ Unsevered(cut, FramesCome(b)) = U
      BY <1>3, <1>5, <1>7, <2>1, <2>2, <2>3
    <2>5. PICK bf, ba, cf, ca \in Nat : bf = b.frame /\ ba = b.at /\ cf = c.frame /\ ca = c.at
      BY DEF StreamByte
    <2>6. /\ FramesCome(b) = (IF ba = 0 THEN bf ELSE bf - 1)
          /\ FramesCome(c) = (IF ca = 0 THEN cf ELSE cf - 1)
      BY <2>5, Zenon DEF FramesCome
    <2>7. CASE FrameEnds(b, all)
      <3>1. (cf = bf /\ ca = 0) \/ (cf = bf + 1 /\ ca = 1)
        BY <2>4, <2>5, <2>7, Zenon DEF GoesOn
      <3>2. Searching(c, cut)
        BY <2>5, <3>1 DEF Searching
      <3>3. FramesCome(c) = bf
        BY <2>6, <3>1
      <3>4. CASE ba = 0
        BY <1>5, <2>1, <2>3, <2>4, <2>6, <3>2, <3>3, <3>4
      <3>5. CASE ba # 0
        <4>1. bf \in 1 .. Len(all)
          BY <2>4, <2>5, <3>5, Zenon DEF OfFrame
        <4>2. all[bf] \in Seq(Nat) /\ ba = Len(all[bf]) + 2 /\ Len(all[bf]) >= 2
          <5>1. all[bf] \in Seq(Nat) /\ Len(all[bf]) >= 2
            BY <4>1 DEF FramesFormed, header_len
          <5>2. ba = Len(all[bf]) + 2
            BY <2>5, <2>7, <3>5, Zenon DEF FrameEnds
          <5> QED BY <5>1, <5>2
        <4>3. ba # 1
          BY <4>2
        <4>4. bf \in cut
          BY <2>4, <2>5, <3>5, <4>3 DEF Searching
        <4>5. FramesCome(b) = bf - 1 /\ bf - 1 \in Nat
          BY <2>6, <3>5, <4>1
        <4>6. Unsevered(cut, bf) = Unsevered(cut, bf - 1)
          BY <4>4, <4>5 DEF Unsevered
        <4> QED BY <1>5, <2>1, <2>3, <2>4, <3>2, <3>3, <4>5, <4>6
      <3> QED BY <3>4, <3>5
    <2>8. CASE ~ FrameEnds(b, all)
      <3>1. cf = bf /\ ca = ba + 1 /\ ba # 0
        BY <2>4, <2>5, <2>8, Zenon DEF GoesOn, FrameEnds
      <3>2. FramesCome(c) = FramesCome(b)
        BY <2>6, <3>1
      <3>3. Searching(c, cut)
        <4>1. CASE bf \in cut
          BY <2>5, <3>1, <4>1 DEF Searching
        <4>2. CASE bf \notin cut
          <5>1. ba = 1
            BY <2>4, <2>5, <3>1, <4>2 DEF Searching
          <5>2. e # n
            BY <2>1, <2>3, <2>5, <4>2, <5>1 DEF CutAt
          <5>3. ~ PairAt(x, e)
            BY <2>1, <5>2
          <5>4. b.byte = 8 /\ c.byte = 9
            BY <2>4, <2>5, <3>1, <5>1 DEF OfFrame
          <5> QED BY <2>3, <5>3, <5>4 DEF PairAt
        <4> QED BY <4>1, <4>2
      <3> QED BY <1>5, <2>1, <2>3, <2>4, <3>2, <3>3
    <2> QED BY <2>7, <2>8
  <1>8. \A j \in 0 .. d : j \in S
    BY <1>6, <1>7, StepByStep
  <1>9. d \in 0 .. d /\ i + 1 + d = m + 1
    BY <1>1, <1>2
  <1> QED BY <1>4, <1>5, <1>8, <1>9

\* The frames that are not severed are numbered.
LEMMA UnseveredCounted ==
    ASSUME NEW cut, NEW n \in Nat
    PROVE  /\ IsFiniteSet(Unsevered(cut, n)) /\ Cardinality(Unsevered(cut, n)) \in Nat
           /\ \A e \in Unsevered(cut, n) :
                 Cardinality(Unsevered(cut, e)) \in 1 .. Cardinality(Unsevered(cut, n))
  <1>1. ASSUME NEW m \in Nat
        PROVE  IsFiniteSet(Unsevered(cut, m)) /\ Cardinality(Unsevered(cut, m)) \in Nat
    <2>1. IsFiniteSet(1 .. m)
      BY FS_Interval
    <2>2. Unsevered(cut, m) \subseteq 1 .. m
      BY DEF Unsevered
    <2> QED BY <2>1, <2>2, FS_Subset, FS_CardinalityType
  <1>2. ASSUME NEW e \in Unsevered(cut, n)
        PROVE  Cardinality(Unsevered(cut, e)) \in 1 .. Cardinality(Unsevered(cut, n))
    <2>1. e \in Nat /\ e \in 1 .. e /\ 1 .. e \subseteq 1 .. n
      BY DEF Unsevered
    <2>2. e \in Unsevered(cut, e) /\ Unsevered(cut, e) \subseteq Unsevered(cut, n)
      BY <2>1 DEF Unsevered
    <2>3. PICK a, b \in Nat :
            a = Cardinality(Unsevered(cut, e)) /\ b = Cardinality(Unsevered(cut, n))
      BY <1>1, <2>1
    <2>4. a <= b
      BY <1>1, <2>2, <2>3, FS_Subset
    <2>5. a # 0
      BY <1>1, <2>1, <2>2, <2>3, FS_EmptySet
    <2> QED BY <2>3, <2>4, <2>5
  <1> QED BY <1>1, <1>2

\* A frame more has come out.
LEMMA FrameOutMore ==
    ASSUME NEW given, NEW all, NEW cut, NEW n \in Nat, FramesOut(given, all, cut, n),
           n + 1 \notin cut, all[n + 1] \in Seq(Nat)
    PROVE  FramesOut(Append(given, all[n + 1]), all, cut, n + 1)
  <1>1. PICK a, b \in Nat :
          a = Cardinality(Unsevered(cut, n)) /\ b = Cardinality(Unsevered(cut, n + 1))
    BY UnseveredCounted
  <1>2. Unsevered(cut, n + 1) = Unsevered(cut, n) \cup {n + 1} /\ n + 1 \notin Unsevered(cut, n)
    BY DEF Unsevered
  <1>3. b = a + 1
    BY <1>1, <1>2, UnseveredCounted, FS_AddElement
  <1>4. PICK S : S = Seq(Nat)
    OBVIOUS
  <1>5. PICK p \in S : p = all[n + 1]
    BY <1>4
  <1>6. PICK old \in Seq(S), new \in Seq(S) :
          /\ old = given /\ new = Append(given, p)
          /\ Len(old) = a /\ Len(new) = b /\ new[b] = p
          /\ \A j \in 1 .. a : new[j] = old[j]
    <2>1. given \in Seq(S) /\ Len(given) = a
      BY <1>1, <1>4 DEF FramesOut
    <2>2. PICK old \in Seq(S) : old = given
      BY <2>1
    <2>3. /\ Append(old, p) \in Seq(S) /\ Len(Append(old, p)) = a + 1
          /\ Append(old, p)[a + 1] = p
          /\ \A j \in 1 .. a : Append(old, p)[j] = old[j]
      BY <2>1, <2>2
    <2> QED BY <1>3, <2>1, <2>2, <2>3, Zenon
  <1>7. ASSUME NEW e \in Unsevered(cut, n + 1)
        PROVE  new[Cardinality(Unsevered(cut, e))] = all[e]
    <2>1. CASE e \in Unsevered(cut, n)
      <3>1. old[Cardinality(Unsevered(cut, e))] = all[e]
        BY <1>6, <2>1 DEF FramesOut
      <3>2. Cardinality(Unsevered(cut, e)) \in 1 .. a
        BY <1>1, <2>1, UnseveredCounted
      <3> QED BY <1>6, <3>1, <3>2
    <2>2. CASE e = n + 1
      BY <1>1, <1>5, <1>6, <2>2
    <2> QED BY <1>2, <2>1, <2>2
  <1> QED BY <1>1, <1>4, <1>5, <1>6, <1>7, Zenon DEF FramesOut

------------------------------------------------------------------------------
\* The loop of nanolink_defragmenter.handle_msg(): s are the bytes behind the first i of
\* the n bytes of the PDU.
BytesFrom(s, x, i, n) == /\ s \in Seq(Nat)
                         /\ Len(s) = n - i
                         /\ \A j \in 1 .. n - i : s[j] = x[i + j].byte

\* The bytes behind the first i go on with q behind its first c.
GoesWith(x, i, q, c) == \A j \in 1 .. Len(q) - c : x[i + j].byte = q[c + j]

\* Taking bytes of a frame: m of at most r.
FrameTaken(s, x, i, n, q, c, r, m) ==
    /\ m = (IF r < n - i THEN r ELSE n - i)
    /\ SubSeq(q, 1, c) \o UpTo(s, r) = SubSeq(q, 1, c + m)
    /\ Len(UpTo(s, r)) = m
    /\ BytesFrom(From(s, r), x, i + m, n)
    /\ GoesWith(x, i + m, q, c + m)

\* Taking up to r bytes of the PDU takes those of the frame that are in it.
LEMMA FrameBytesTaken ==
    ASSUME NEW x, NEW n \in Nat, NEW i \in Nat, i <= n, NEW s, BytesFrom(s, x, i, n),
           NEW q \in Seq(Nat), NEW c \in Nat, NEW r \in Nat, c + r <= Len(q),
           GoesWith(x, i, q, c)
    PROVE  \E m \in Nat : FrameTaken(s, x, i, n, q, c, r, m)
  <1>1. PICK a, l \in Nat : a = n - i /\ l = Len(q)
    <2>1. n - i \in Nat /\ Len(q) \in Nat
      OBVIOUS
    <2> QED BY <2>1
  <1>2. PICK m \in Nat : m = (IF r < a THEN r ELSE a)
    OBVIOUS
  <1>3. m <= a /\ m <= r /\ c + m <= l
    BY <1>1, <1>2
  <1>4. s \in Seq(Nat) /\ Len(s) = a /\ \A j \in 1 .. a : s[j] = x[i + j].byte
    BY <1>1 DEF BytesFrom
  <1>5. \A j \in 1 .. l - c : x[i + j].byte = q[c + j]
    BY <1>1 DEF GoesWith
  <1>6. \A j \in 1 .. m : s[j] = q[c + j]
    <2>1. \A j \in 1 .. m : j \in 1 .. a /\ j \in 1 .. l - c
      BY <1>3
    <2> QED BY <1>4, <1>5, <2>1
  <1>7. m = IF r < Len(s) THEN r ELSE Len(s)
    BY <1>2, <1>4
  <1>8. c + m <= Len(q)
    BY <1>1, <1>3
  <1>9. /\ SubSeq(q, 1, c) \o UpTo(s, r) = SubSeq(q, 1, c + m)
        /\ Len(UpTo(s, r)) = m
        /\ From(s, r) \in Seq(Nat) /\ Len(From(s, r)) = Len(s) - m
        /\ \A j \in 1 .. Len(s) - m : From(s, r)[j] = s[m + j]
    <2>1. PICK z \in Seq(Nat) : z = s
      BY <1>4
    <2>2. m = IF r < Len(z) THEN r ELSE Len(z)
      BY <1>7, <2>1, Zenon
    <2>3. BytesGoOn(z, q, c, m)
      BY <1>6, <2>1 DEF BytesGoOn
    <2>4. AreTaken(z, q, r, c, m)
      BY <1>8, <2>2, <2>3, BytesTaken, Zenon
    <2> QED BY <2>1, <2>4, Zenon DEF AreTaken
  <1>10. BytesFrom(From(s, r), x, i + m, n)
    <2>1. a - m = n - (i + m)
      BY <1>1
    <2>2. ASSUME NEW j \in 1 .. a - m PROVE From(s, r)[j] = x[(i + m) + j].byte
      <3>1. PICK e \in 1 .. a : e = m + j /\ i + e = (i + m) + j
        <4>1. m + j \in 1 .. a /\ i + (m + j) = (i + m) + j
          BY <1>3
        <4> QED BY <4>1
      <3>2. From(s, r)[j] = s[m + j]
        BY <1>4, <1>9
      <3> QED BY <1>4, <3>1, <3>2
    <2> QED BY <1>4, <1>9, <2>1, <2>2 DEF BytesFrom
  <1>11. GoesWith(x, i + m, q, c + m)
    <2>1. ASSUME NEW j \in 1 .. l - (c + m) PROVE x[(i + m) + j].byte = q[(c + m) + j]
      <3>1. PICK e \in 1 .. l - c : e = m + j /\ i + e = (i + m) + j /\ c + e = (c + m) + j
        <4>1. /\ m + j \in 1 .. l - c /\ i + (m + j) = (i + m) + j
              /\ c + (m + j) = (c + m) + j
          BY <1>3
        <4> QED BY <4>1
      <3> QED BY <1>5, <3>1
    <2> QED BY <1>1, <2>1 DEF GoesWith
  <1>12. m = IF r < n - i THEN r ELSE n - i
    BY <1>1, <1>2
  <1> QED BY <1>9, <1>10, <1>11, <1>12, Zenon DEF FrameTaken

\* The header, as far as it is in the PDU: m bytes of it.
DefragState == [in_frame : BOOLEAN, current : Seq(Nat), remain : Int, in0 : Seq(Nat),
                published : Seq(Seq(Nat))]

\* A state with fields changed.
LEMMA TwoFieldsChanged ==
    ASSUME NEW h \in DefragState, NEW u \in Seq(Nat), NEW s \in Seq(Nat)
    PROVE  [h EXCEPT !.current = u, !.in0 = s] =
              [in_frame |-> h.in_frame, current |-> u, remain |-> h.remain, in0 |-> s,
               published |-> h.published]
  <1>1. PICK g : g = [h EXCEPT !.current = u, !.in0 = s]
    OBVIOUS
  <1>2. g \in DefragState
    BY <1>1 DEF DefragState
  <1>3. /\ g.in_frame = h.in_frame /\ g.current = u /\ g.remain = h.remain /\ g.in0 = s
        /\ g.published = h.published
    BY <1>1 DEF DefragState
  <1> QED BY <1>1, <1>2, <1>3 DEF DefragState

\* The same with each of them.
Changed(h, b, u, e, s, p) ==
    [h EXCEPT !.in0 = s, !.current = u, !.in_frame = b, !.remain = e, !.published = p]

\* What the record is then.
LEMMA AllFieldsChanged ==
    ASSUME NEW h \in DefragState, NEW b \in BOOLEAN, NEW u \in Seq(Nat), NEW e \in Int,
           NEW s \in Seq(Nat), NEW p \in Seq(Seq(Nat))
    PROVE  Changed(h, b, u, e, s, p) =
              [in_frame |-> b, current |-> u, remain |-> e, in0 |-> s, published |-> p]
  <1>1. PICK g : g = [h EXCEPT !.in0 = s, !.current = u, !.in_frame = b, !.remain = e,
                               !.published = p]
    OBVIOUS
  <1>0. g = Changed(h, b, u, e, s, p)
    BY <1>1 DEF Changed
  <1>2. g \in DefragState
    BY <1>1 DEF DefragState
  <1>3. g.in_frame = b /\ g.current = u /\ g.remain = e /\ g.in0 = s /\ g.published = p
    BY <1>1 DEF DefragState
  <1>4. g = [in_frame |-> b, current |-> u, remain |-> e, in0 |-> s, published |-> p]
    BY <1>2, <1>3 DEF DefragState
  <1> QED BY <1>0, <1>4

\* The header of frame q after m bytes more of it.
HeaderTaken(h, g, x, i, n, q, c, m) ==
    /\ g = [in_frame |-> h.in_frame, current |-> SubSeq(q, 1, c + m), remain |-> h.remain,
            in0 |-> g.in0, published |-> h.published]
    /\ BytesFrom(g.in0, x, i + m, n)
    /\ GoesWith(x, i + m, q, c + m)
    /\ IF c < header_len THEN m = (IF header_len - c < n - i THEN header_len - c ELSE n - i)
       ELSE m = 0

\* HeaderContinued() takes what is missing of the header, as far as it is in the PDU.
LEMMA HeaderGoesOn ==
    ASSUME NEW x, NEW n \in Nat, NEW i \in Nat, i <= n, NEW h \in DefragState,
           BytesFrom(h.in0, x, i, n), NEW q \in Seq(Nat), Len(q) >= header_len,
           NEW c \in Nat, c <= Len(q), h.current = SubSeq(q, 1, c), GoesWith(x, i, q, c)
    PROVE  \E m \in Nat : HeaderTaken(h, HeaderContinued(h), x, i, n, q, c, m)
  <1>1. PICK r \in Nat : r = header_missing(h) /\ r = IF c < header_len THEN header_len - c ELSE 0
    <2>1. Len(h.current) = c
      OBVIOUS
    <2>2. header_missing(h) = IF c < header_len THEN header_len - c ELSE 0
      BY <2>1, Zenon DEF header_missing
    <2>3. header_missing(h) \in Nat
      BY <2>2 DEF header_len
    <2> QED BY <2>2, <2>3
  <1>2. c + r <= Len(q)
    <2>1. header_len = 2
      BY DEF header_len
    <2> QED BY <1>1, <2>1
  <1>2a. PICK m \in Nat : FrameTaken(h.in0, x, i, n, q, c, r, m)
    BY <1>2, FrameBytesTaken
  <1>3. /\ m = (IF r < n - i THEN r ELSE n - i)
        /\ SubSeq(q, 1, c) \o UpTo(h.in0, r) = SubSeq(q, 1, c + m)
        /\ BytesFrom(From(h.in0, r), x, i + m, n)
        /\ GoesWith(x, i + m, q, c + m)
    BY <1>2a, Zenon DEF FrameTaken
  <1>4. PICK u, s : u = h.current \o UpTo(h.in0, r) /\ s = From(h.in0, r)
    OBVIOUS
  <1>5. HeaderContinued(h) = [h EXCEPT !.current = u, !.in0 = s]
    BY <1>1, <1>4 DEF HeaderContinued
  <1>6. [h EXCEPT !.current = u, !.in0 = s] =
            [in_frame |-> h.in_frame, current |-> u, remain |-> h.remain,
             in0 |-> s, published |-> h.published]
    <2>1. u \in Seq(Nat) /\ s \in Seq(Nat)
      <3>1. SubSeq(q, 1, c + m) \in Seq(Nat)
        <4>1. c + m \in 0 .. Len(q)
          BY <1>2, <1>3
        <4> QED BY <4>1
      <3> QED BY <1>3, <1>4, <3>1 DEF BytesFrom
    <2> QED BY <2>1, TwoFieldsChanged, Zenon
  <1>7. PICK g : g = HeaderContinued(h)
    OBVIOUS
  <1>8. g = [in_frame |-> h.in_frame, current |-> u, remain |-> h.remain,
             in0 |-> s, published |-> h.published]
    BY <1>5, <1>6, <1>7
  <1>9. g.in0 = s
    BY <1>8
  <1>10. u = SubSeq(q, 1, c + m)
    BY <1>3, <1>4
  <1>11. IF c < header_len THEN m = (IF header_len - c < n - i THEN header_len - c ELSE n - i)
         ELSE m = 0
    <2>1. CASE c < header_len
      BY <1>1, <1>3, <2>1, Zenon
    <2>2. CASE ~ (c < header_len)
      <3>1. r = 0 /\ n - i \in Nat
        BY <1>1, <2>2
      <3>2. m = 0
        BY <1>3, <3>1
      <3> QED BY <2>2, <3>2, Zenon
    <2> QED BY <2>1, <2>2
  <1>12. HeaderTaken(h, g, x, i, n, q, c, m)
    BY <1>3, <1>4, <1>8, <1>9, <1>10, <1>11, Zenon DEF HeaderTaken
  <1> QED BY <1>7, <1>12

\* What a turn comes to, and what is there before it.
Defragmented(h, given, x, i, n, all, cut) ==
    /\ BytesFrom(h.in0, x, i, n)
    /\ InStep(h, x[i + 1], all, cut)
    /\ FramesOut(given \o h.published, all, cut, FramesCome(x[i + 1]))

FrameTurn(h) == IF Len(HeaderContinued(h).current) < header_len THEN HeaderContinued(h)
                ELSE PayloadContinued(HeaderContinued(h))

\* The bytes to come are known, or are in the header.
RemainKnown(g, c, l) == \/ c = header_len /\ g.remain = None
                        \/ g.remain = l - c /\ l # c

\* The payload to its end, or the end of the PDU.
PayloadTaken(g, t, s, x, i, n, q, c, l) ==
    \/ /\ l - c <= n - i
       /\ t = [in_frame |-> FALSE, current |-> q, remain |-> None, in0 |-> s,
               published |-> Append(g.published, q)]
       /\ BytesFrom(s, x, i + (l - c), n)
    \/ /\ ~ (l - c <= n - i)
       /\ t = [in_frame |-> TRUE, current |-> SubSeq(q, 1, c + (n - i)),
               remain |-> l - (c + (n - i)), in0 |-> s, published |-> g.published]
       /\ BytesFrom(s, x, n, n)

\* The payload, with a whole header: the first c bytes of frame q are there.
PayloadReady(g, x, i, n, q, c, l) ==
    /\ BytesFrom(g.in0, x, i, n) /\ GoesWith(x, i, q, c) /\ g.current = SubSeq(q, 1, c)
    /\ i <= n /\ l = Len(q) /\ header_len <= c /\ c <= l
    /\ q[header_len] = l - header_len
    /\ RemainKnown(g, c, l)

\* PayloadContinued() takes the frame to its end, or what is in the PDU.
LEMMA PayloadGoesOn ==
    ASSUME NEW x, NEW n \in Nat, NEW i \in Nat, NEW g \in DefragState, NEW q \in Seq(Nat),
           NEW l \in Nat, NEW c \in Nat, PayloadReady(g, x, i, n, q, c, l)
    PROVE  \E s : PayloadTaken(g, PayloadContinued(g), s, x, i, n, q, c, l)
  <1>0. /\ BytesFrom(g.in0, x, i, n) /\ GoesWith(x, i, q, c) /\ g.current = SubSeq(q, 1, c)
        /\ i <= n /\ l = Len(q) /\ header_len <= c /\ c <= l
        /\ q[header_len] = l - header_len
        /\ RemainKnown(g, c, l)
    BY DEF PayloadReady
  <1>1. PICK a, b \in Nat : a = n - i /\ b = l - c
    <2>1. n - i \in Nat /\ l - c \in Nat
      BY <1>0
    <2> QED BY <2>1
  <1>2. b = IF g.remain = None THEN g.current[header_len] ELSE g.remain
    <2>1. CASE c = header_len /\ g.remain = None
      <3>1. g.current[header_len] = q[header_len]
        BY <1>0, <2>1 DEF header_len
      <3> QED BY <1>0, <1>1, <2>1, <3>1
    <2>2. CASE ~ (c = header_len /\ g.remain = None)
      <3>1. g.remain = b
        BY <1>0, <1>1, <2>2, Zenon DEF RemainKnown
      <3>2. b # None
        BY DEF None
      <3> QED BY <3>1, <3>2
    <2> QED BY <2>1, <2>2
  <1>3. c + b <= Len(q)
    BY <1>0, <1>1
  <1>3a. PICK m \in Nat : FrameTaken(g.in0, x, i, n, q, c, b, m)
    BY <1>0, <1>3, FrameBytesTaken
  <1>4. /\ m = (IF b < n - i THEN b ELSE n - i)
        /\ SubSeq(q, 1, c) \o UpTo(g.in0, b) = SubSeq(q, 1, c + m)
        /\ Len(UpTo(g.in0, b)) = m
        /\ BytesFrom(From(g.in0, b), x, i + m, n)
    BY <1>3a, Zenon DEF FrameTaken
  <1>5. PICK s, u, e : /\ s = From(g.in0, b) /\ u = g.current \o UpTo(g.in0, b)
                       /\ e = b - Len(UpTo(g.in0, b))
    OBVIOUS
  <1>6. PayloadContinued(g) =
            [g EXCEPT !.in0 = s, !.current = u, !.in_frame = e > 0,
                      !.remain = IF e > 0 THEN e ELSE None,
                      !.published = IF e > 0 THEN g.published ELSE Append(g.published, u)]
    BY <1>2, <1>5, Zenon DEF PayloadContinued
  <1>7. (b <= a => m = b) /\ (~ (b <= a) => m = a) /\ e = b - m
    <2>1. m = (IF b < a THEN b ELSE a)
      BY <1>1, <1>4, Zenon
    <2>2. e = b - m
      BY <1>4, <1>5, Zenon
    <2>3. (b <= a => m = b) /\ (~ (b <= a) => m = a)
      BY <2>1
    <2> QED BY <2>2, <2>3
  <1>7a. u = SubSeq(q, 1, c + m)
    BY <1>0, <1>4, <1>5
  <1>8. s \in Seq(Nat) /\ BytesFrom(s, x, i + m, n)
    BY <1>4, <1>5 DEF BytesFrom
  <1>9. u \in Seq(Nat)
    <2>1. c + m \in 0 .. Len(q)
      BY <1>0, <1>1, <1>7
    <2> QED BY <1>0, <1>7a, <2>1
  <1>10. PICK p \in Seq(Seq(Nat)) : p = g.published
    BY DEF DefragState
  <1>11. CASE b <= a
    <2>1. m = b /\ e = 0 /\ c + m = l
      <3>1. m = b
        BY <1>7, <1>11
      <3> QED BY <1>1, <1>7, <3>1
    <2>2. u = q
      BY <1>0, <1>7a, <2>1
    <2>3. (e > 0) = FALSE
      BY <2>1
    <2>4. PayloadContinued(g) =
            Changed(g, FALSE, q, None, s, Append(p, q))
      BY <1>6, <1>10, <2>2, <2>3, Zenon DEF Changed
    <2>5. None \in Int /\ FALSE \in BOOLEAN /\ Append(p, q) \in Seq(Seq(Nat))
      BY <1>10 DEF None
    <2>6. PayloadContinued(g) = [in_frame |-> FALSE, current |-> q, remain |-> None,
                                 in0 |-> s, published |-> Append(p, q)]
      <3>1. Changed(g, FALSE, q, None, s, Append(p, q)) =
                [in_frame |-> FALSE, current |-> q, remain |-> None, in0 |-> s,
                 published |-> Append(p, q)]
        BY <1>8, <2>5, AllFieldsChanged, Zenon
      <3> QED BY <2>4, <3>1, Zenon
    <2>7. l - c <= n - i /\ i + m = i + (l - c)
      BY <1>0, <1>1, <1>11, <2>1
    <2>8. BytesFrom(s, x, i + (l - c), n)
      BY <1>8, <2>7
    <2>9. PayloadTaken(g, PayloadContinued(g), s, x, i, n, q, c, l)
      BY <1>10, <2>6, <2>7, <2>8, Zenon DEF PayloadTaken
    <2> QED BY <2>9
  <1>12. CASE ~ (b <= a)
    <2>1. m = a /\ e = b - a /\ e > 0 /\ i + m = n /\ e \in Nat
      <3>1. m = a
        BY <1>7, <1>12
      <3> QED BY <1>1, <1>7, <1>12, <3>1
    <2>2. u = SubSeq(q, 1, c + (n - i))
      BY <1>1, <1>7a, <2>1
    <2>3. e = l - (c + (n - i))
      BY <1>1, <2>1
    <2>4. (e > 0) = TRUE
      BY <2>1
    <2>5. PayloadContinued(g) =
            Changed(g, TRUE, u, e, s, p)
      BY <1>6, <1>10, <2>4, Zenon DEF Changed
    <2>6. e \in Int /\ TRUE \in BOOLEAN
      BY <2>1
    <2>7. PayloadContinued(g) = [in_frame |-> TRUE, current |-> u, remain |-> e,
                                 in0 |-> s, published |-> p]
      <3>1. Changed(g, TRUE, u, e, s, p) =
                [in_frame |-> TRUE, current |-> u, remain |-> e, in0 |-> s, published |-> p]
        BY <1>8, <1>9, <2>6, AllFieldsChanged, Zenon
      <3> QED BY <2>5, <3>1, Zenon
    <2>8. ~ (l - c <= n - i)
      BY <1>1, <1>12
    <2>9. BytesFrom(s, x, n, n)
      BY <1>8, <2>1
    <2>10. PayloadContinued(g) =
             [in_frame |-> TRUE, current |-> SubSeq(q, 1, c + (n - i)),
              remain |-> l - (c + (n - i)), in0 |-> s, published |-> g.published]
      BY <1>10, <2>2, <2>3, <2>7, Zenon
    <2>11. PayloadTaken(g, PayloadContinued(g), s, x, i, n, q, c, l)
      BY <2>8, <2>9, <2>10, Zenon DEF PayloadTaken
    <2> QED BY <2>11
  <1> QED BY <1>11, <1>12

\* A sequence more at the end of what was given.
LEMMA OneMore ==
    ASSUME NEW given \in Seq(Seq(Nat)), NEW p \in Seq(Seq(Nat)), NEW q \in Seq(Nat)
    PROVE  Append(given \o p, q) = given \o Append(p, q)
  <1>1. PICK S : S = Seq(Nat)
    OBVIOUS
  <1>2. PICK g \in Seq(S), b \in Seq(S), y \in S, m, n \in Nat :
          g = given /\ b = p /\ y = q /\ m = Len(g) /\ n = Len(b)
    <2>1. given \in Seq(S) /\ p \in Seq(S) /\ q \in S /\ Len(given) \in Nat /\ Len(p) \in Nat
      BY <1>1
    <2> QED BY <2>1
  <1>3. PICK j \in Seq(S) : AreJoined(j, g, b, m, n)
    BY <1>2, NumberedJoined
  <1>4. PICK u \in Seq(S) : /\ u = Append(j, y) /\ Len(u) = (m + n) + 1 /\ u[(m + n) + 1] = y
                            /\ \A i \in 1 .. m + n : u[i] = j[i]
    <2>1. Len(j) = m + n
      BY <1>3 DEF AreJoined
    <2>2. /\ Append(j, y) \in Seq(S) /\ Len(Append(j, y)) = Len(j) + 1
          /\ Append(j, y)[Len(j) + 1] = y
          /\ \A i \in 1 .. Len(j) : Append(j, y)[i] = j[i]
      OBVIOUS
    <2> QED BY <2>1, <2>2, Zenon
  <1>5. PICK v \in Seq(S) : /\ v = Append(b, y) /\ Len(v) = n + 1 /\ v[n + 1] = y
                            /\ \A i \in 1 .. n : v[i] = b[i]
    <2>1. /\ Append(b, y) \in Seq(S) /\ Len(Append(b, y)) = Len(b) + 1
          /\ Append(b, y)[Len(b) + 1] = y
          /\ \A i \in 1 .. Len(b) : Append(b, y)[i] = b[i]
      OBVIOUS
    <2> QED BY <1>2, <2>1, Zenon
  <1>6. PICK w \in Seq(S) : AreJoined(w, g, v, m, n + 1)
    <2>1. n + 1 \in Nat
      OBVIOUS
    <2> QED BY <1>2, <1>5, <2>1, NumberedJoined
  <1>7. u = w
    <2>1. ASSUME NEW i \in 1 .. (m + n) + 1 PROVE u[i] = w[i]
      <3>1. CASE i <= m
        BY <1>3, <1>4, <1>6, <3>1 DEF AreJoined
      <3>2. CASE i > m /\ i <= m + n
        <4>1. PICK e \in 1 .. n : i = m + e
          <5>1. i - m \in 1 .. n /\ i = m + (i - m)
            BY <3>2
          <5> QED BY <5>1
        <4>2. u[m + e] = b[e]
          <5>1. m + e \in 1 .. m + n
            OBVIOUS
          <5> QED BY <1>3, <1>4, <5>1 DEF AreJoined
        <4>3. w[m + e] = b[e]
          <5>1. e \in 1 .. n + 1 /\ v[e] = b[e]
            BY <1>5
          <5> QED BY <1>6, <5>1 DEF AreJoined
        <4> QED BY <4>1, <4>2, <4>3
      <3>3. CASE i = m + (n + 1)
        <4>1. w[m + (n + 1)] = y
          <5>1. n + 1 \in 1 .. n + 1
            OBVIOUS
          <5> QED BY <1>5, <1>6, <5>1 DEF AreJoined
        <4>2. m + (n + 1) = (m + n) + 1
          OBVIOUS
        <4> QED BY <1>4, <3>3, <4>1, <4>2
      <3>4. i <= m \/ (i > m /\ i <= m + n) \/ i = m + (n + 1)
        OBVIOUS
      <3> QED BY <3>1, <3>2, <3>3, <3>4
    <2>2. Len(w) = (m + n) + 1
      BY <1>6 DEF AreJoined
    <2> QED BY <1>4, <2>1, <2>2, SameElements
  <1> QED BY <1>2, <1>3, <1>4, <1>5, <1>6, <1>7, Zenon DEF AreJoined

\* A turn in a frame takes what is there of it, and publishes it if that is all.
LEMMA FrameTurnReaches ==
    ASSUME NEW x, NEW all, FrameStream(x, all), FramesFormed(all), NEW cut,
           NEW n \in Nat, n < Len(x), NEW i \in Nat, i <= n, NEW h \in DefragState,
           h.in_frame = TRUE, BytesFrom(h.in0, x, i, n), InFrame(h, x[i + 1], all, cut),
           NEW given \in Seq(Seq(Nat)),
           FramesOut(given \o h.published, all, cut, FramesCome(x[i + 1]))
    PROVE  /\ FrameTurn(h) \in DefragState
           /\ \E j \in i .. n : /\ i < n => j > i
                                /\ Defragmented(FrameTurn(h), given, x, j, n, all, cut)
  <1>1. PICK a \in Nat : a = Len(x) /\ n < a
    BY DEF FrameStream
  <1>2. PICK z \in Nat : z = i + 1 /\ z \in 1 .. a
    <2>1. i + 1 \in Nat /\ i + 1 \in 1 .. a
      BY <1>1
    <2> QED BY <2>1
  <1>3. PICK y \in StreamByte : y = x[z]
    BY <1>1, <1>2 DEF FrameStream
  <1>4. OfFrame(y, all)
    BY <1>1, <1>2, <1>3, Zenon DEF FrameStream
  <1>5. PICK k, at \in Nat : k = y.frame /\ at = y.at
    BY <1>3 DEF StreamByte
  <1>6. InFrame(h, y, all, cut)
    BY <1>2, <1>3
  <1>7. PICK c \in Nat : at = c + 3 /\ at - 3 = c
    <2>1. at >= 3
      BY <1>5, <1>6 DEF InFrame
    <2>2. at - 3 \in Nat /\ at = (at - 3) + 3
      BY <2>1
    <2> QED BY <2>2
  <1>8. k \in 1 .. Len(all) /\ k \notin cut
    <2>1. at # 0
      BY <1>7
    <2> QED BY <1>4, <1>5, <1>6, <2>1, Zenon DEF InFrame, OfFrame
  <1>9. PICK q \in Seq(Nat), l \in Nat :
          q = all[k] /\ l = Len(q) /\ l >= 2 /\ q[2] = l - 2
    <2>1. all[k] \in Seq(Nat)
      BY <1>8 DEF FramesFormed
    <2>2. Len(all[k]) >= 2 /\ all[k][2] = Len(all[k]) - 2
      BY <1>8, Zenon DEF FramesFormed, header_len
    <2>3. PICK q \in Seq(Nat) : q = all[k]
      BY <2>1
    <2>4. PICK l \in Nat : l = Len(q)
      OBVIOUS
    <2> QED BY <2>2, <2>3, <2>4, Zenon
  <1>10. /\ h.current = SubSeq(q, 1, c)
         /\ h.remain = IF c < 2 THEN None ELSE l - c
    BY <1>5, <1>6, <1>7, <1>9, Zenon DEF InFrame, header_len
  <1>11. c < l /\ FrameAlong(x, z, all, k, c, l)
    BY <1>1, <1>2, <1>3, <1>5, <1>7, <1>9, FrameGoesAlong
  <1>12. /\ \A j \in 0 .. l - c - 1 : /\ x[z + j].frame = k
                                      /\ x[z + j].byte = q[c + 1 + j]
                                      /\ x[z + j].at = c + 3 + j
         /\ x[z + (l - c)].at \in {0, 1}
         /\ FramesCome(x[z + (l - c)]) = k
    BY <1>9, <1>11 DEF FrameAlong
  <1>13. GoesWith(x, i, q, c)
    <2>1. ASSUME NEW j \in 1 .. l - c PROVE x[i + j].byte = q[c + j]
      <3>1. PICK e \in 0 .. l - c - 1 : z + e = i + j /\ c + 1 + e = c + j
        <4>1. /\ j - 1 \in 0 .. l - c - 1 /\ z + (j - 1) = i + j
              /\ c + 1 + (j - 1) = c + j
          BY <1>2
        <4> QED BY <4>1
      <3> QED BY <1>12, <3>1
    <2> QED BY <1>9, <2>1 DEF GoesWith
  <1>14. PICK g : g = HeaderContinued(h)
    OBVIOUS
  <1>15. PICK m \in Nat : HeaderTaken(h, g, x, i, n, q, c, m)
    <2>1. header_len <= Len(q) /\ c <= Len(q)
      BY <1>9, <1>11 DEF header_len
    <2> QED BY <1>10, <1>13, <1>14, <2>1, HeaderGoesOn
  <1>16. /\ g = [in_frame |-> TRUE, current |-> SubSeq(q, 1, c + m), remain |-> h.remain,
                 in0 |-> g.in0, published |-> h.published]
         /\ BytesFrom(g.in0, x, i + m, n)
         /\ GoesWith(x, i + m, q, c + m)
         /\ IF c < 2 THEN m = (IF 2 - c < n - i THEN 2 - c ELSE n - i) ELSE m = 0
    BY <1>15, Zenon DEF HeaderTaken, header_len
  <1>17. /\ m <= n - i
         /\ c < 2 => m <= 2 - c /\ (m = 2 - c \/ m = n - i)
         /\ ~ (c < 2) => m = 0
    <2>1. CASE c < 2
      <3>1. m = IF 2 - c < n - i THEN 2 - c ELSE n - i
        BY <1>16, <2>1, Zenon
      <3> QED BY <2>1, <3>1
    <2>2. CASE ~ (c < 2)
      <3>1. m = 0
        BY <1>16, <2>2, Zenon
      <3> QED BY <2>2, <3>1
    <2> QED BY <2>1, <2>2
  <1>18. PICK p \in Seq(Seq(Nat)) : p = h.published
    BY DEF DefragState
  <1>19. /\ g.current = SubSeq(q, 1, c + m) /\ g.remain = h.remain
         /\ g.published = p /\ g.in_frame = TRUE
    BY <1>16, <1>18
  <1>20. c + m \in 0 .. l /\ c + m <= l
    <2>1. l >= 2 /\ c < l
      BY <1>9, <1>11
    <2>2. CASE c < 2
      BY <1>17, <2>1, <2>2
    <2>3. CASE ~ (c < 2)
      <3>1. m = 0
        BY <1>17, <2>3
      <3> QED BY <2>1, <3>1
    <2> QED BY <2>2, <2>3
  <1>21. g.current \in Seq(Nat) /\ Len(g.current) = c + m
    <2>1. SubSeq(q, 1, c + m) \in Seq(Nat) /\ Len(SubSeq(q, 1, c + m)) = c + m
      <3>1. PICK e \in 0 .. Len(q) : e = c + m
        BY <1>9, <1>20
      <3>2. SubSeq(q, 1, e) \in Seq(Nat) /\ Len(SubSeq(q, 1, e)) = e
        OBVIOUS
      <3> QED BY <3>1, <3>2
    <2> QED BY <1>19, <2>1
  <1>22. g \in DefragState
    <2>1. g.in0 \in Seq(Nat)
      BY <1>16 DEF BytesFrom
    <2>2. h.remain \in Int
      BY DEF DefragState
    <2>3. PICK s \in Seq(Nat), u \in Seq(Nat), e \in Int :
            s = g.in0 /\ u = SubSeq(q, 1, c + m) /\ e = h.remain
      BY <1>19, <1>21, <2>1, <2>2
    <2>4. g = [in_frame |-> TRUE, current |-> u, remain |-> e, in0 |-> s, published |-> p]
      BY <1>16, <1>18, <2>3, Zenon
    <2> QED BY <2>4 DEF DefragState
  <1>23. FramesCome(y) = k - 1
    <2>1. at # 0
      BY <1>7
    <2> QED BY <1>5, <2>1, Zenon DEF FramesCome
  <1>24. PICK all0 : all0 = given \o p /\ FramesOut(all0, all, cut, k - 1)
    BY <1>2, <1>3, <1>18, <1>23
  \* The PDU ends in the frame: d bytes of it are there.
  <1>25. ASSUME NEW t \in DefragState, NEW d \in Nat, z + (d - c) = n + 1, c <= d, d < l,
                BytesFrom(t.in0, x, n, n), t.in_frame = TRUE, t.published = p,
                t.current = SubSeq(q, 1, d), t.remain = IF d < 2 THEN None ELSE l - d
         PROVE  Defragmented(t, given, x, n, n, all, cut)
    <2>1. PICK w : w = x[n + 1]
      OBVIOUS
    <2>2. d - c \in 0 .. l - c - 1 /\ c + 3 + (d - c) = d + 3
      BY <1>25
    <2>3. w.frame = k /\ w.at = d + 3
      BY <1>12, <1>25, <2>1, <2>2
    <2>4. w.at >= 3 /\ w.at - 3 = d /\ w.at # 0
      BY <2>3
    <2>5. InFrame(t, w, all, cut)
      BY <1>8, <1>9, <1>25, <2>3, <2>4, Zenon DEF InFrame, header_len
    <2>6. FramesCome(w) = k - 1
      BY <2>3, <2>4, Zenon DEF FramesCome
    <2>7. FramesOut(given \o t.published, all, cut, FramesCome(w))
      BY <1>24, <1>25, <2>6
    <2> QED BY <1>25, <2>1, <2>5, <2>7, Zenon DEF Defragmented, InStep
  <1>26. CASE c + m < 2
    <2>1. FrameTurn(h) = g
      <3>1. Len(HeaderContinued(h).current) < header_len
        BY <1>14, <1>21, <1>26 DEF header_len
      <3> QED BY <1>14, <3>1, Zenon DEF FrameTurn
    <2>2. PICK d \in Nat : d = c + m /\ d < 2 /\ c <= d /\ d < l
      <3>1. l >= 2
        BY <1>9
      <3>2. c + m \in Nat /\ c + m < l /\ c <= c + m
        BY <1>26, <3>1
      <3> QED BY <1>26, <3>2
    <2>3. c < 2 /\ m = n - i /\ i + m = n
      BY <1>17, <1>26
    <2>4. z + (d - c) = n + 1
      BY <1>2, <2>2, <2>3
    <2>5. BytesFrom(g.in0, x, n, n)
      BY <1>16, <2>3
    <2>6. g.remain = IF d < 2 THEN None ELSE l - d
      BY <1>10, <1>19, <2>2, <2>3, Zenon
    <2>7. g.current = SubSeq(q, 1, d)
      BY <1>19, <2>2
    <2>8. Defragmented(g, given, x, n, n, all, cut)
      BY <1>19, <1>22, <1>25, <2>2, <2>4, <2>5, <2>6, <2>7
    <2>9. n \in i .. n /\ (i < n => n > i)
      OBVIOUS
    <2> QED BY <1>22, <2>1, <2>8, <2>9
  <1>27. CASE ~ (c + m < 2)
    <2>1. PICK t : t = PayloadContinued(g) /\ t = FrameTurn(h)
      <3>1. ~ (Len(HeaderContinued(h).current) < header_len)
        BY <1>14, <1>21, <1>27 DEF header_len
      <3> QED BY <1>14, <3>1, Zenon DEF FrameTurn
    <2>2. PICK d, e \in Nat : d = c + m /\ e = i + m /\ 2 <= d /\ d <= l /\ e <= n /\ c <= d
      <3>1. c + m \in Nat /\ i + m \in Nat
        OBVIOUS
      <3> QED BY <1>17, <1>20, <1>27, <3>1
    <2>3. RemainKnown(g, d, l)
      <3>1. CASE c < 2
        <4>1. d = 2
          BY <1>17, <2>2, <3>1
        <4>2. g.remain = None
          BY <1>10, <1>19, <3>1, Zenon
        <4> QED BY <4>1, <4>2 DEF RemainKnown, header_len
      <3>2. CASE ~ (c < 2)
        <4>1. d = c /\ l # c
          BY <1>11, <1>17, <2>2, <3>2
        <4>2. g.remain = l - c
          BY <1>10, <1>19, <3>2, Zenon
        <4> QED BY <4>1, <4>2 DEF RemainKnown
      <3> QED BY <3>1, <3>2
    <2>4. PICK s : PayloadTaken(g, t, s, x, e, n, q, d, l)
      <3>1. BytesFrom(g.in0, x, e, n) /\ GoesWith(x, e, q, d) /\ g.current = SubSeq(q, 1, d)
        BY <1>16, <1>19, <2>2, Zenon
      <3>2. header_len <= d /\ q[header_len] = l - header_len
        BY <1>9, <2>2 DEF header_len
      <3>3. l = Len(q)
        BY <1>9
      <3>4. PayloadReady(g, x, e, n, q, d, l)
        BY <2>2, <2>3, <3>1, <3>2, <3>3, Zenon DEF PayloadReady
      <3>5. \E s : PayloadTaken(g, PayloadContinued(g), s, x, e, n, q, d, l)
        BY <1>22, <3>4, PayloadGoesOn, Zenon
      <3> QED BY <2>1, <3>5, Zenon
    <2>5. l - d = l - c - m /\ n - e = n - i - m
      BY <2>2
    <2>6. CASE l - d <= n - e
      <3>1. /\ t = [in_frame |-> FALSE, current |-> q, remain |-> None, in0 |-> s,
                    published |-> Append(p, q)]
            /\ BytesFrom(s, x, e + (l - d), n)
        BY <1>19, <2>4, <2>6, Zenon DEF PayloadTaken
      <3>2. PICK j \in i .. n : j = i + (l - c) /\ j = e + (l - d) /\ j > i /\ j + 1 = z + (l - c)
        <4>1. /\ i + (l - c) \in i .. n /\ i + (l - c) = e + (l - d) /\ i + (l - c) > i
              /\ (i + (l - c)) + 1 = z + (l - c)
          BY <1>2, <1>11, <2>2, <2>5, <2>6
        <4> QED BY <4>1
      <3>3. PICK w : w = x[j + 1] /\ w.at \in {0, 1} /\ FramesCome(w) = k
        BY <1>12, <3>2
      <3>4. s \in Seq(Nat) /\ BytesFrom(s, x, j, n)
        BY <3>1, <3>2 DEF BytesFrom
      <3>5. t \in DefragState
        <4>1. Append(p, q) \in Seq(Seq(Nat)) /\ None \in Int
          BY DEF None
        <4> QED BY <3>1, <3>4, <4>1 DEF DefragState
      <3>6. FramesOut(given \o Append(p, q), all, cut, k)
        <4>1. (k - 1) + 1 = k /\ k - 1 \in Nat
          BY <1>8
        <4>2. FramesOut(Append(all0, all[k]), all, cut, k)
          BY <1>8, <1>9, <1>24, <4>1, FrameOutMore
        <4>3. Append(given \o p, q) = given \o Append(p, q)
          BY <1>9, OneMore
        <4> QED BY <1>9, <1>24, <4>2, <4>3, Zenon
      <3>7. t.in_frame = FALSE /\ t.in0 = s /\ t.published = Append(p, q)
        BY <3>1
      <3>8. InStep(t, w, all, cut)
        BY <3>3, <3>7, Zenon DEF InStep, Searching
      <3>9. Defragmented(t, given, x, j, n, all, cut)
        BY <3>3, <3>4, <3>6, <3>7, <3>8, Zenon DEF Defragmented
      <3> QED BY <2>1, <3>2, <3>5, <3>9
    <2>7. CASE ~ (l - d <= n - e)
      <3>1. PICK f \in Nat : f = d + (n - e) /\ f = c + (n - i) /\ c <= f /\ f < l /\ 2 <= f
        <4>1. /\ d + (n - e) \in Nat /\ d + (n - e) = c + (n - i) /\ c <= d + (n - e)
              /\ d + (n - e) < l /\ 2 <= d + (n - e)
          BY <2>2, <2>5, <2>7
        <4> QED BY <4>1
      <3>2. /\ t = [in_frame |-> TRUE, current |-> SubSeq(q, 1, f), remain |-> l - f, in0 |-> s,
                    published |-> p]
            /\ BytesFrom(s, x, n, n)
        BY <1>19, <2>4, <2>7, <3>1, Zenon DEF PayloadTaken
      <3>3. z + (f - c) = n + 1 /\ ~ (f < 2) /\ l - f \in Int /\ f \in 0 .. l
        BY <1>2, <3>1
      <3>4. t \in DefragState
        <4>1. SubSeq(q, 1, f) \in Seq(Nat)
          <5>1. PICK v \in 0 .. Len(q) : v = f
            BY <1>9, <3>3
          <5>2. SubSeq(q, 1, v) \in Seq(Nat)
            OBVIOUS
          <5> QED BY <5>1, <5>2
        <4>2. s \in Seq(Nat)
          BY <3>2 DEF BytesFrom
        <4>3. PICK u \in Seq(Nat), v \in Int : u = SubSeq(q, 1, f) /\ v = l - f
          BY <3>3, <4>1
        <4>4. t = [in_frame |-> TRUE, current |-> u, remain |-> v, in0 |-> s, published |-> p]
          BY <3>2, <4>3, Zenon
        <4> QED BY <4>2, <4>4 DEF DefragState
      <3>5. /\ t.in_frame = TRUE /\ t.published = p /\ t.current = SubSeq(q, 1, f)
            /\ t.remain = l - f /\ t.in0 = s
        BY <3>2
      <3>6. t.remain = IF f < 2 THEN None ELSE l - f
        BY <3>3, <3>5, Zenon
      <3>7. Defragmented(t, given, x, n, n, all, cut)
        BY <1>25, <3>1, <3>2, <3>3, <3>4, <3>5, <3>6
      <3>8. n \in i .. n /\ (i < n => n > i)
        OBVIOUS
      <3> QED BY <2>1, <3>4, <3>7, <3>8
    <2> QED BY <2>6, <2>7
  <1> QED BY <1>26, <1>27

------------------------------------------------------------------------------
\* What find() returns.
HasPair(s, j) == s[j] = 8 /\ s[j + 1] = 9

Found(s, f) == \/ f = 0 /\ \A j \in 1 .. Len(s) - 1 : ~ HasPair(s, j)
               \/ /\ f \in 1 .. Len(s) - 1 /\ HasPair(s, f)
                  /\ \A j \in 1 .. f - 1 : ~ HasPair(s, j)

\* The first such pair, or 0.
LEMMA FindIs ==
    ASSUME NEW s \in Seq(Nat)
    PROVE  Found(s, find(s))
  <1>1. PICK n \in Nat : n = Len(s)
    OBVIOUS
  <1> DEFINE at == {i \in 1 .. Len(s) - 1 : SubSeq(s, i, i + 1) = syncword}
  <1>2. \A i : i \in at <=> i \in 1 .. Len(s) - 1 /\ SubSeq(s, i, i + 1) = syncword
    OBVIOUS
  <1>4. find(s) = IF at = {} THEN 0 ELSE CHOOSE i \in at : \A j \in at : i <= j
    BY Zenon DEF find
  <1> HIDE DEF at
  <1>3. ASSUME NEW j \in 1 .. n - 1 PROVE j \in at <=> HasPair(s, j)
    <2>0. j \in 1 .. Len(s) - 1
      BY <1>1
    <2>1. PICK y \in Seq(Nat) :
            y = SubSeq(s, j, j + 1) /\ Len(y) = 2 /\ y[1] = s[j] /\ y[2] = s[j + 1]
      <3>1. /\ SubSeq(s, j, j + 1) \in Seq(Nat) /\ Len(SubSeq(s, j, j + 1)) = 2
            /\ SubSeq(s, j, j + 1)[1] = s[j] /\ SubSeq(s, j, j + 1)[2] = s[j + 1]
        BY <2>0, TwoTaken
      <3> QED BY <3>1, Zenon
    <2>2. syncword \in Seq(Nat) /\ Len(syncword) = 2 /\ syncword[1] = 8 /\ syncword[2] = 9
      BY DEF syncword
    <2>3. y = syncword <=> y[1] = 8 /\ y[2] = 9
      <3>1. ASSUME y[1] = 8, y[2] = 9 PROVE y = syncword
        <4>1. \A e \in 1 .. 2 : e = 1 \/ e = 2
          OBVIOUS
        <4>2. \A e \in 1 .. 2 : y[e] = syncword[e]
          BY <2>2, <3>1, <4>1
        <4> QED BY <2>1, <2>2, <4>2, SameElements
      <3> QED BY <2>2, <3>1
    <2> QED BY <1>2, <2>0, <2>1, <2>3 DEF HasPair
  <1>5. CASE at = {}
    <2>1. \A j \in 1 .. n - 1 : ~ HasPair(s, j)
      BY <1>3, <1>5
    <2> QED BY <1>1, <1>4, <1>5, <2>1 DEF Found
  <1>6. CASE at # {}
    <2>1. at \in SUBSET Nat
      BY <1>2
    <2>2. PICK m \in at : \A j \in at : ~ (<<j, m>> \in OpToRel(<, Nat))
      BY <1>6, <2>1, NatLessThanWellFounded, WFMin
    <2>3. ASSUME NEW j \in at PROVE m <= j
      <3>1. m \in Nat /\ j \in Nat
        BY <2>1
      <3>2. ~ (j < m)
        BY <2>2, <3>1 DEF OpToRel
      <3> QED BY <3>1, <3>2
    <2>4. PICK f : f = CHOOSE i \in at : \A j \in at : i <= j
      OBVIOUS
    <2>5. f \in at /\ \A j \in at : f <= j
      BY <2>3, <2>4
    <2>6. f \in 1 .. n - 1 /\ f = find(s)
      <3>1. f = find(s)
        BY <1>4, <1>6, <2>4, Zenon
      <3>2. f \in 1 .. n - 1
        BY <1>1, <1>2, <2>5
      <3> QED BY <3>1, <3>2
    <2>7. HasPair(s, f)
      BY <1>3, <2>5, <2>6
    <2>8. ASSUME NEW j \in 1 .. f - 1 PROVE ~ HasPair(s, j)
      <3>1. j \in 1 .. n - 1 /\ ~ (f <= j)
        BY <2>6
      <3> QED BY <1>3, <2>5, <3>1
    <2> QED BY <1>1, <2>6, <2>7, <2>8 DEF Found
  <1> QED BY <1>5, <1>6

\* Without a byte that is missing, or one that is there, the header stays.
LEMMA HeaderOnce ==
    ASSUME NEW g \in DefragState, Len(g.current) >= header_len \/ Len(g.in0) = 0
    PROVE  HeaderContinued(g) = g
  <1>1. PICK u, s \in Seq(Nat) : u = g.current /\ s = g.in0
    BY DEF DefragState
  <1>2. PICK r \in Nat : r = header_missing(g) /\ (r = 0 \/ Len(s) = 0)
    <2>1. Len(u) \in Nat
      OBVIOUS
    <2>2. header_missing(g) \in Nat /\ (header_missing(g) = 0 \/ Len(s) = 0)
      BY <1>1, <2>1 DEF header_missing, header_len
    <2> QED BY <2>2
  <1>3. UpTo(s, r) = <<>>
    BY <1>2 DEF UpTo
  <1>4. From(s, r) = s
    <2>1. /\ From(s, r) \in Seq(Nat) /\ Len(From(s, r)) = IF r < Len(s) THEN Len(s) - r ELSE 0
          /\ \A i \in 1 .. Len(s) - r : From(s, r)[i] = s[r + i]
      BY BytesLeft
    <2>2. Len(From(s, r)) = Len(s)
      BY <1>2, <2>1
    <2>3. \A i \in 1 .. Len(From(s, r)) : From(s, r)[i] = s[i]
      <3>1. CASE r = 0
        BY <2>1, <2>2, <3>1
      <3>2. CASE Len(s) = 0
        BY <2>2, <3>2
      <3> QED BY <1>2, <3>1, <3>2
    <2> QED BY <2>1, <2>2, <2>3, SameElements
  <1>5. u \o <<>> = u
    OBVIOUS
  <1>6. HeaderContinued(g) = [g EXCEPT !.current = u, !.in0 = s]
    BY <1>1, <1>2, <1>3, <1>4, <1>5, Zenon DEF HeaderContinued
  <1>7. g = [in_frame |-> g.in_frame, current |-> u, remain |-> g.remain, in0 |-> s,
             published |-> g.published]
    BY <1>1 DEF DefragState
  <1>8. [g EXCEPT !.current = u, !.in0 = s] =
            [in_frame |-> g.in_frame, current |-> u, remain |-> g.remain, in0 |-> s,
             published |-> g.published]
    BY TwoFieldsChanged, Zenon
  <1> QED BY <1>6, <1>7, <1>8, Zenon

\* The header behind the syncword is taken as that of a frame of which there is nothing yet.
Opened(h, s) == [in_frame |-> TRUE, current |-> <<>>, remain |-> None, in0 |-> s,
                 published |-> h.published]

\* SyncFound() does as HeaderContinued() does then.
LEMMA SyncIsOpened ==
    ASSUME NEW h \in DefragState, NEW f \in Nat
    PROVE  /\ Opened(h, From(h.in0, f - 1 + Len(syncword))) \in DefragState
           /\ SyncFound(h, f) = HeaderContinued(Opened(h, From(h.in0, f - 1 + Len(syncword))))
  <1>1. PICK after \in Seq(Nat) : after = From(h.in0, f - 1 + Len(syncword))
    <2>1. h.in0 \in Seq(Nat)
      BY DEF DefragState
    <2>2. f - 1 + Len(syncword) \in Nat
      BY DEF syncword
    <2>3. From(h.in0, f - 1 + Len(syncword)) \in Seq(Nat)
      BY <2>1, <2>2, BytesLeft
    <2> QED BY <2>3
  <1>2. PICK o : o = Opened(h, after)
    OBVIOUS
  <1>3. PICK p \in Seq(Seq(Nat)) : p = h.published
    BY DEF DefragState
  <1>4. o = [in_frame |-> TRUE, current |-> <<>>, remain |-> None, in0 |-> after, published |-> p]
    BY <1>2, <1>3 DEF Opened
  <1>5. o \in DefragState
    <2>1. None \in Int /\ <<>> \in Seq(Nat)
      BY DEF None
    <2> QED BY <1>4, <2>1 DEF DefragState
  <1>6. o.current = <<>> /\ o.in0 = after /\ o.in_frame = TRUE /\ o.remain = None /\ o.published = p
    BY <1>4
  <1>7. header_missing(o) = header_len
    <2>1. Len(<<>>) = 0 /\ 0 < 2
      OBVIOUS
    <2> QED BY <1>6, <2>1 DEF header_missing, header_len
  <1>8. PICK u, s \in Seq(Nat) : u = UpTo(after, header_len) /\ s = From(after, header_len)
    <2>1. header_len \in Nat
      BY DEF header_len
    <2>2. From(after, header_len) \in Seq(Nat)
      BY <2>1, BytesLeft
    <2>3. UpTo(after, header_len) \in Seq(Nat)
      BY DEF UpTo, header_len
    <2> QED BY <2>2, <2>3
  <1>9. HeaderContinued(o) = [o EXCEPT !.current = u, !.in0 = s]
    <2>1. <<>> \o u = u
      OBVIOUS
    <2> QED BY <1>6, <1>7, <1>8, <2>1, Zenon DEF HeaderContinued
  <1>10. HeaderContinued(o) =
             [in_frame |-> TRUE, current |-> u, remain |-> None, in0 |-> s, published |-> p]
    <2>1. [o EXCEPT !.current = u, !.in0 = s] =
              [in_frame |-> o.in_frame, current |-> u, remain |-> o.remain, in0 |-> s,
               published |-> o.published]
      BY <1>5, TwoFieldsChanged, Zenon
    <2> QED BY <1>6, <1>9, <2>1, Zenon
  <1>11. SyncFound(h, f) =
             [in_frame |-> TRUE, current |-> u, remain |-> None, in0 |-> s, published |-> p]
    <2>1. SyncFound(h, f) = [h EXCEPT !.in_frame = TRUE, !.remain = None, !.current = u, !.in0 = s]
      BY <1>1, <1>8, Zenon DEF SyncFound
    <2>2. PICK b \in BOOLEAN, e \in Int : b = TRUE /\ e = None
      <3>1. TRUE \in BOOLEAN
        BY Zenon
      <3>2. None \in Int
        BY DEF None
      <3> QED BY <3>1, <3>2, Zenon
    <2>3. PICK g : g = [h EXCEPT !.in_frame = b, !.remain = e, !.current = u, !.in0 = s]
      OBVIOUS
    <2>4. g \in DefragState
      BY <2>3 DEF DefragState
    <2>5. g.in_frame = b /\ g.current = u /\ g.remain = e /\ g.in0 = s /\ g.published = p
      BY <1>3, <2>3 DEF DefragState
    <2>6. g = [in_frame |-> b, current |-> u, remain |-> e, in0 |-> s, published |-> p]
      BY <2>4, <2>5 DEF DefragState
    <2> QED BY <2>1, <2>2, <2>3, <2>6, Zenon
  <1> QED BY <1>1, <1>2, <1>5, <1>10, <1>11, Zenon

------------------------------------------------------------------------------
\* A turn of the loop.
Defragmenting(given, x, n, all, cut) ==
    {h \in DefragState : \E i \in 0 .. n : Defragmented(h, given, x, i, n, all, cut)}

\* Before a byte of a PDU, in the stream.
InPdu(x, n, all, cut) ==
    FrameStream(x, all) /\ FramesFormed(all) /\ n < Len(x) /\ CutAt(x, n, cut)

\* The state after a turn, with more bytes taken than the first i.
TurnedTo(t, given, x, i, n, all, cut) ==
    /\ t \in DefragState
    /\ \E j \in i + 1 .. n : Defragmented(t, given, x, j, n, all, cut)

\* No frame of those to come out has come between i and j.
NoFrame(x, i, j, cut) ==
    Unsevered(cut, FramesCome(x[j])) = Unsevered(cut, FramesCome(x[i]))

\* What is out at i is what is to be out at j then.
LEMMA NoFrameOut ==
    ASSUME NEW x, NEW i, NEW j, NEW cut, NoFrame(x, i, j, cut), NEW given, NEW all,
           FramesOut(given, all, cut, FramesCome(x[i]))
    PROVE  FramesOut(given, all, cut, FramesCome(x[j]))
  BY Zenon DEF NoFrame, FramesOut

\* No syncword is found.
LEMMA NothingFound ==
    ASSUME NEW x, NEW n \in Nat, NEW all, NEW cut, InPdu(x, n, all, cut),
           NEW given \in Seq(Seq(Nat)), NEW i \in Nat, i < n, NEW h \in DefragState,
           Defragmented(h, given, x, i, n, all, cut), h.in_frame = FALSE,
           \A j \in 1 .. Len(h.in0) - 1 : ~ HasPair(h.in0, j)
    PROVE  TurnedTo([h EXCEPT !.in0 = <<>>], given, x, i, n, all, cut)
  <1>1. PICK t : t = [h EXCEPT !.in0 = <<>>]
    OBVIOUS
  <1>2. t \in DefragState /\ t.in_frame = FALSE /\ t.in0 = <<>> /\ t.published = h.published
    <2>1. PICK s \in Seq(Nat) : s = <<>>
      <3>1. <<>> \in Seq(Nat)
        OBVIOUS
      <3> QED BY <3>1
    <2>2. PICK g : g = [h EXCEPT !.in0 = s]
      OBVIOUS
    <2>3. g \in DefragState
      BY <2>2 DEF DefragState
    <2>4. g.in_frame = h.in_frame /\ g.in0 = s /\ g.published = h.published
      BY <2>2 DEF DefragState
    <2> QED BY <1>1, <2>1, <2>2, <2>3, <2>4, Zenon
  <1>3. BytesFrom(h.in0, x, i, n) /\ Searching(x[i + 1], cut)
    BY Zenon DEF Defragmented, InStep
  <1>4. ASSUME NEW e \in i + 1 .. n, e < n PROVE ~ PairAt(x, e)
    <2>1. PICK j \in Nat : /\ j = e - i /\ j \in 1 .. n - i /\ j + 1 \in 1 .. n - i
                           /\ i + j = e /\ i + (j + 1) = e + 1
      <3>1. /\ e - i \in Nat /\ e - i \in 1 .. n - i /\ (e - i) + 1 \in 1 .. n - i
            /\ i + (e - i) = e /\ i + ((e - i) + 1) = e + 1
        BY <1>4
      <3> QED BY <3>1
    <2>2. h.in0[j] = x[e].byte /\ h.in0[j + 1] = x[e + 1].byte
      BY <1>3, <2>1 DEF BytesFrom
    <2>3. j \in 1 .. Len(h.in0) - 1
      <3>1. Len(h.in0) = n - i
        BY <1>3 DEF BytesFrom
      <3> QED BY <2>1, <3>1
    <2> QED BY <2>2, <2>3 DEF PairAt, HasPair
  <1>5. Searching(x[n + 1], cut) /\ NoFrame(x, i + 1, n + 1, cut)
    <2>1. i \in 0 .. n /\ n \in i .. n
      OBVIOUS
    <2> QED BY <1>3, <1>4, <2>1, SearchGoesOn DEF InPdu, NoFrame
  <1>6. FramesOut(given \o t.published, all, cut, FramesCome(x[n + 1]))
    <2>1. FramesOut(given \o h.published, all, cut, FramesCome(x[i + 1]))
      BY Zenon DEF Defragmented
    <2> QED BY <1>2, <1>5, <2>1, NoFrameOut
  <1>7. BytesFrom(t.in0, x, n, n)
    BY <1>2 DEF BytesFrom
  <1>8. Defragmented(t, given, x, n, n, all, cut)
    BY <1>2, <1>5, <1>6, <1>7, Zenon DEF Defragmented, InStep
  <1>9. n \in i + 1 .. n
    OBVIOUS
  <1> QED BY <1>1, <1>2, <1>8, <1>9, Zenon DEF TurnedTo

\* A syncword is found, and the frame taken as far as it goes.
LEMMA SyncwordFound ==
    ASSUME NEW x, NEW n \in Nat, NEW all, NEW cut, InPdu(x, n, all, cut),
           NEW given \in Seq(Seq(Nat)), NEW i \in Nat, i < n, NEW h \in DefragState,
           Defragmented(h, given, x, i, n, all, cut), h.in_frame = FALSE,
           NEW f \in Nat, f \in 1 .. Len(h.in0) - 1, HasPair(h.in0, f),
           \A j \in 1 .. f - 1 : ~ HasPair(h.in0, j)
    PROVE  LET g == HeaderContinued(SyncFound(h, f))
           IN  TurnedTo(IF Len(g.current) < header_len THEN g ELSE PayloadContinued(g),
                        given, x, i, n, all, cut)
  <1>1. BytesFrom(h.in0, x, i, n) /\ Searching(x[i + 1], cut)
    BY Zenon DEF Defragmented, InStep
  <1>2. h.in0 \in Seq(Nat) /\ Len(h.in0) = n - i /\ \A j \in 1 .. n - i : h.in0[j] = x[i + j].byte
    BY <1>1 DEF BytesFrom
  <1>3. PICK e \in Nat : e = i + f /\ e >= 1 /\ e + 1 <= n /\ e # n
    <2>1. i + f \in Nat /\ i + f >= 1 /\ i + f + 1 <= n /\ i + f # n
      BY <1>2
    <2> QED BY <2>1
  <1>4. ASSUME NEW j \in 1 .. f PROVE HasPair(h.in0, j) <=> PairAt(x, i + j)
    <2>0. PICK d \in Nat : d = n - i /\ f \in 1 .. d - 1
      <3>1. Len(h.in0) \in Nat
        BY <1>2
      <3> QED BY <1>2, <3>1, Zenon
    <2>1. j \in 1 .. n - i /\ j + 1 \in 1 .. n - i /\ i + (j + 1) = (i + j) + 1
      BY <2>0
    <2>2. h.in0[j] = x[i + j].byte /\ h.in0[j + 1] = x[(i + j) + 1].byte
      BY <1>2, <2>1
    <2> QED BY <2>2 DEF HasPair, PairAt
  <1>5. PairAt(x, e)
    <2>1. f \in 1 .. f
      BY <1>2
    <2> QED BY <1>3, <1>4, <2>1
  <1>6. PICK m \in Nat : m = e - 1 /\ m \in i .. n /\ m + 1 = e
    <2>1. e - 1 \in Nat /\ e - 1 \in i .. n /\ (e - 1) + 1 = e
      BY <1>2, <1>3
    <2> QED BY <2>1
  <1>7. ASSUME NEW d \in i + 1 .. m PROVE ~ PairAt(x, d)
    <2>1. PICK j \in 1 .. f : j = d - i /\ i + j = d /\ j \in 1 .. f - 1
      <3>1. d - i \in 1 .. f /\ i + (d - i) = d /\ d - i \in 1 .. f - 1
        BY <1>2, <1>3, <1>6, <1>7
      <3> QED BY <3>1
    <2> QED BY <1>4, <2>1
  <1>8. NoFrame(x, i + 1, e, cut)
    <2>1. i \in 0 .. n
      OBVIOUS
    <2>2. Unsevered(cut, FramesCome(x[m + 1])) = Unsevered(cut, FramesCome(x[i + 1]))
      BY <1>1, <1>6, <1>7, <2>1, SearchGoesOn DEF InPdu
    <2> QED BY <1>6, <2>2 DEF NoFrame
  <1>9. /\ x[e].at = 1 /\ x[e + 2].at = 3 /\ x[e + 2].frame = x[e].frame
        /\ FramesCome(x[e + 2]) = FramesCome(x[e])
    <2>1. e + 1 < Len(x)
      <3>1. n < Len(x) /\ x \in Seq(StreamByte)
        BY DEF InPdu, FrameStream
      <3>2. Len(x) \in Nat
        BY <3>1
      <3> QED BY <1>3, <3>1, <3>2
    <2>2. x[e].byte = 8 /\ x[e + 1].byte = 9
      BY <1>5 DEF PairAt
    <2> QED BY <1>3, <2>1, <2>2, PairIsSyncword DEF InPdu
  <1>10. x[e].frame \notin cut
    <2>1. e \in 1 .. n
      BY <1>3
    <2> QED BY <1>3, <1>9, <2>1 DEF InPdu, CutAt
  <1>11. PICK s, o : s = From(h.in0, f - 1 + Len(syncword)) /\ o = Opened(h, s)
    OBVIOUS
  <1>12. o \in DefragState /\ SyncFound(h, f) = HeaderContinued(o)
    BY <1>11, SyncIsOpened
  <1>13. /\ o.in_frame = TRUE /\ o.current = <<>> /\ o.remain = None
         /\ o.in0 = s /\ o.published = h.published
    BY <1>11 DEF Opened
  <1>14. PICK z \in Nat : z = e + 1 /\ z = i + (f + 1) /\ z <= n /\ z + 1 = e + 2 /\ z > i
    <2>1. e + 1 \in Nat /\ e + 1 = i + (f + 1) /\ (e + 1) + 1 = e + 2 /\ e + 1 > i
      BY <1>3
    <2> QED BY <1>3, <2>1
  <1>15. BytesFrom(s, x, z, n)
    <2>1. f - 1 + Len(syncword) = f + 1 /\ f + 1 \in Nat
      BY DEF syncword
    <2>2. PICK y \in Seq(Nat) : /\ y = h.in0 /\ Len(y) = n - i
                                /\ \A j \in 1 .. n - i : y[j] = x[i + j].byte
      BY <1>2
    <2>3. /\ s \in Seq(Nat) /\ Len(s) = IF f + 1 < Len(y) THEN Len(y) - (f + 1) ELSE 0
          /\ \A j \in 1 .. Len(y) - (f + 1) : s[j] = y[(f + 1) + j]
      <3>1. s = From(y, f + 1)
        BY <1>11, <2>1, <2>2
      <3>2. /\ From(y, f + 1) \in Seq(Nat)
            /\ Len(From(y, f + 1)) = IF f + 1 < Len(y) THEN Len(y) - (f + 1) ELSE 0
            /\ \A j \in 1 .. Len(y) - (f + 1) : From(y, f + 1)[j] = y[(f + 1) + j]
        BY <2>1, BytesLeft
      <3> QED BY <3>1, <3>2, Zenon
    <2>4. Len(y) - (f + 1) = n - z /\ f + 1 <= Len(y)
      <3>1. Len(y) = n - i /\ f <= Len(y) - 1
        BY <1>2, <2>2
      <3> QED BY <1>14, <3>1
    <2>5. Len(s) = n - z
      BY <2>2, <2>3, <2>4
    <2>6. ASSUME NEW j \in 1 .. n - z PROVE s[j] = x[z + j].byte
      <3>1. (f + 1) + j \in 1 .. n - i /\ i + ((f + 1) + j) = z + j
        BY <1>14
      <3> QED BY <2>2, <2>3, <2>4, <3>1
    <2> QED BY <2>3, <2>5, <2>6 DEF BytesFrom
  <1>16. InFrame(o, x[z + 1], all, cut)
    <2>1. PICK b : b = x[z + 1] /\ b.at = 3 /\ b.frame \notin cut
      BY <1>9, <1>10, <1>14
    <2>2. b.at - 3 = 0 /\ 0 < header_len /\ b.at >= 3
      BY <2>1 DEF header_len
    <2>3. SubSeq(all[b.frame], 1, 0) = <<>>
      OBVIOUS
    <2> QED BY <1>13, <2>1, <2>2, <2>3, Zenon DEF InFrame
  <1>17. FramesOut(given \o o.published, all, cut, FramesCome(x[z + 1]))
    <2>1. FramesOut(given \o h.published, all, cut, FramesCome(x[i + 1]))
      BY Zenon DEF Defragmented
    <2>2. FramesOut(given \o h.published, all, cut, FramesCome(x[e]))
      BY <1>8, <2>1, NoFrameOut
    <2> QED BY <1>9, <1>13, <1>14, <2>2
  <1>18. /\ FrameTurn(o) \in DefragState
         /\ \E j \in z .. n : Defragmented(FrameTurn(o), given, x, j, n, all, cut)
    BY <1>12, <1>13, <1>14, <1>15, <1>16, <1>17, FrameTurnReaches DEF InPdu
  <1>19. PICK g : g = HeaderContinued(SyncFound(h, f))
    OBVIOUS
  <1>20. g = HeaderContinued(o)
    <2>1. PICK k, c, q : k = x[e].frame /\ q = all[k] /\ c = 0
      OBVIOUS
    <2>2. q \in Seq(Nat) /\ Len(q) >= header_len
      <3>1. e \in 1 .. Len(x) /\ x[e].at # 0
        <4>1. n < Len(x) /\ x \in Seq(StreamByte)
          BY DEF InPdu, FrameStream
        <4>2. Len(x) \in Nat
          BY <4>1
        <4> QED BY <1>3, <1>9, <4>1, <4>2
      <3>2. OfFrame(x[e], all)
        BY <3>1, Zenon DEF InPdu, FrameStream
      <3>3. k \in 1 .. Len(all)
        BY <2>1, <3>1, <3>2, Zenon DEF OfFrame
      <3> QED BY <2>1, <3>3 DEF InPdu, FramesFormed
    <2>3. o.current = SubSeq(q, 1, 0)
      BY <1>13
    <2>4. GoesWith(x, z, q, 0)
      <3>1. PICK w \in Nat : w = z + 1 /\ w \in 1 .. Len(x) /\ x[w].at = 0 + 3 /\ x[w].frame = k
        <4>1. n < Len(x) /\ x \in Seq(StreamByte)
          BY DEF InPdu, FrameStream
        <4>2. Len(x) \in Nat
          BY <4>1
        <4>3. z + 1 \in Nat /\ z + 1 \in 1 .. Len(x)
          BY <1>14, <4>1, <4>2
        <4> QED BY <1>9, <1>14, <2>1, <4>3
      <3>2. PICK l \in Nat : l = Len(q)
        BY <2>2
      <3>3. FrameAlong(x, w, all, k, 0, l)
        BY <2>1, <3>1, <3>2, FrameGoesAlong DEF InPdu
      <3>4. ASSUME NEW j \in 1 .. l - 0 PROVE x[z + j].byte = q[0 + j]
        <4>1. PICK d \in 0 .. l - 0 - 1 : w + d = z + j /\ 0 + 1 + d = 0 + j
          <5>1. w = z + 1
            BY <3>1
          <5>2. j - 1 \in 0 .. l - 0 - 1 /\ w + (j - 1) = z + j /\ 0 + 1 + (j - 1) = 0 + j
            BY <5>1
          <5> QED BY <5>2
        <4>2. x[w + d].byte = all[k][0 + 1 + d]
          BY <3>3, Zenon DEF FrameAlong
        <4> QED BY <2>1, <4>1, <4>2
      <3> QED BY <3>2, <3>4 DEF GoesWith
    <2>5. PICK r : r = HeaderContinued(o)
      OBVIOUS
    <2>6. PICK m0 \in Nat : HeaderTaken(o, r, x, z, n, q, 0, m0)
      <3>1. BytesFrom(o.in0, x, z, n)
        BY <1>13, <1>15
      <3>2. 0 \in Nat /\ 0 <= Len(q)
        BY <2>2
      <3> QED BY <1>12, <1>14, <2>2, <2>3, <2>4, <2>5, <3>1, <3>2, HeaderGoesOn
    <2>7. /\ r.current = SubSeq(q, 1, 0 + m0) /\ r.remain = None /\ r.published = h.published
          /\ BytesFrom(r.in0, x, z + m0, n)
          /\ r = [in_frame |-> TRUE, current |-> r.current, remain |-> None,
                  in0 |-> r.in0, published |-> h.published]
      BY <1>13, <2>6 DEF HeaderTaken
    <2>8. (m0 = 2 \/ m0 = n - z) /\ m0 <= 2
      <3>1. IF 0 < header_len THEN m0 = (IF header_len - 0 < n - z THEN header_len - 0 ELSE n - z)
            ELSE m0 = 0
        BY <2>6, Zenon DEF HeaderTaken
      <3> QED BY <1>14, <3>1 DEF header_len
    <2>9. Len(r.current) = m0 /\ r.current \in Seq(Nat)
      <3>1. PICK d \in 0 .. Len(q) : d = 0 + m0 /\ d = m0
        BY <2>2, <2>8 DEF header_len
      <3>2. SubSeq(q, 1, d) \in Seq(Nat) /\ Len(SubSeq(q, 1, d)) = d
        BY <2>2
      <3> QED BY <2>7, <3>1, <3>2
    <2>10. r \in DefragState
      <3>1. r.in0 \in Seq(Nat)
        BY <2>7 DEF BytesFrom
      <3>2. None \in Int /\ h.published \in Seq(Seq(Nat))
        BY DEF None, DefragState
      <3>3. PICK y \in Seq(Nat), v \in Int, u \in Seq(Nat), p \in Seq(Seq(Nat)) :
              y = r.current /\ v = None /\ u = r.in0 /\ p = h.published
        BY <2>9, <3>1, <3>2
      <3>4. r = [in_frame |-> TRUE, current |-> y, remain |-> v, in0 |-> u, published |-> p]
        BY <2>7, <3>3, Zenon
      <3> QED BY <3>4 DEF DefragState
    <2>11. Len(r.current) >= header_len \/ Len(r.in0) = 0
      <3>1. Len(r.in0) = n - (z + m0)
        BY <2>7 DEF BytesFrom
      <3> QED BY <1>14, <2>8, <2>9, <3>1 DEF header_len
    <2>12. HeaderContinued(r) = r
      BY <2>10, <2>11, HeaderOnce
    <2> QED BY <1>12, <1>19, <2>5, <2>12
  <1>21. FrameTurn(o) = IF Len(g.current) < header_len THEN g ELSE PayloadContinued(g)
    BY <1>20, Zenon DEF FrameTurn
  <1>22. TurnedTo(FrameTurn(o), given, x, i, n, all, cut)
    <2>1. PICK j \in z .. n : Defragmented(FrameTurn(o), given, x, j, n, all, cut)
      BY <1>18
    <2>2. j \in i + 1 .. n
      BY <1>14
    <2> QED BY <1>18, <2>1, <2>2, Zenon DEF TurnedTo
  <1> QED BY <1>19, <1>21, <1>22, Zenon

\* A turn takes bytes and keeps to the frames.
LEMMA DefragmentTurnReaches ==
    ASSUME NEW x, NEW n \in Nat, NEW all, NEW cut, InPdu(x, n, all, cut),
           NEW given \in Seq(Seq(Nat)), NEW h \in Defragmenting(given, x, n, all, cut)
    PROVE  /\ DefragmentTurn(h) \in Defragmenting(given, x, n, all, cut)
           /\ h.in0 # <<>> => Len(DefragmentTurn(h).in0) < Len(h.in0)
  <1>1. CASE h.in0 = <<>>
    BY <1>1 DEF DefragmentTurn
  <1>2. CASE h.in0 # <<>>
    <2>1. PICK i \in 0 .. n : Defragmented(h, given, x, i, n, all, cut)
      BY DEF Defragmenting
    <2>2. h \in DefragState
      BY DEF Defragmenting
    <2>3. BytesFrom(h.in0, x, i, n) /\ InStep(h, x[i + 1], all, cut)
          /\ FramesOut(given \o h.published, all, cut, FramesCome(x[i + 1]))
      BY <2>1, Zenon DEF Defragmented
    <2>4. h.in0 \in Seq(Nat) /\ Len(h.in0) = n - i
      BY <2>3 DEF BytesFrom
    <2>5. i \in Nat /\ i < n /\ i <= n
      <3>1. Len(h.in0) # 0
        BY <1>2, <2>4, NoElement
      <3> QED BY <2>4, <3>1
    <2>6. TurnedTo(DefragmentTurn(h), given, x, i, n, all, cut)
      <3>1. CASE h.in_frame = TRUE
        <4>1. DefragmentTurn(h) = FrameTurn(h)
          BY <1>2, <3>1, Zenon DEF DefragmentTurn, FrameTurn
        <4>2. InFrame(h, x[i + 1], all, cut)
          BY <2>3, <3>1 DEF InStep
        <4>3. /\ FrameTurn(h) \in DefragState
              /\ \E j \in i .. n : /\ i < n => j > i
                                   /\ Defragmented(FrameTurn(h), given, x, j, n, all, cut)
          BY <2>2, <2>3, <2>5, <3>1, <4>2, FrameTurnReaches DEF InPdu
        <4>4. PICK j \in i .. n : j > i /\ Defragmented(FrameTurn(h), given, x, j, n, all, cut)
          BY <2>5, <4>3
        <4>5. j \in i + 1 .. n
          BY <2>5, <4>4
        <4> QED BY <4>1, <4>3, <4>4, <4>5, Zenon DEF TurnedTo
      <3>2. CASE h.in_frame = FALSE
        <4>1. PICK f : f = find(h.in0) /\ Found(h.in0, f)
          BY <2>4, FindIs
        <4>2. CASE f = 0 /\ \A j \in 1 .. Len(h.in0) - 1 : ~ HasPair(h.in0, j)
          <5>1. DefragmentTurn(h) = [h EXCEPT !.in0 = <<>>]
            BY <1>2, <3>2, <4>1, <4>2, Zenon DEF DefragmentTurn
          <5>2. TurnedTo([h EXCEPT !.in0 = <<>>], given, x, i, n, all, cut)
            BY <2>1, <2>2, <2>5, <3>2, <4>2, NothingFound
          <5> QED BY <5>1, <5>2, Zenon
        <4>3. CASE /\ f \in 1 .. Len(h.in0) - 1 /\ HasPair(h.in0, f)
                   /\ \A j \in 1 .. f - 1 : ~ HasPair(h.in0, j)
          <5>1. f # 0 /\ f \in Nat
            BY <4>3
          <5>2. PICK g : g = HeaderContinued(SyncFound(h, f))
            OBVIOUS
          <5>3. DefragmentTurn(h) = IF Len(g.current) < header_len THEN g ELSE PayloadContinued(g)
            BY <1>2, <3>2, <4>1, <5>1, <5>2, Zenon DEF DefragmentTurn
          <5>4. TurnedTo(IF Len(g.current) < header_len THEN g ELSE PayloadContinued(g),
                         given, x, i, n, all, cut)
            BY <2>1, <2>2, <2>5, <3>2, <4>3, <5>1, <5>2, SyncwordFound
          <5> QED BY <5>3, <5>4, Zenon
        <4> QED BY <4>1, <4>2, <4>3, Zenon DEF Found
      <3>3. h.in_frame \in BOOLEAN
        BY <2>2 DEF DefragState
      <3> QED BY <3>1, <3>2, <3>3
    <2>7. PICK t : t = DefragmentTurn(h)
      OBVIOUS
    <2>8. PICK j \in i + 1 .. n : Defragmented(t, given, x, j, n, all, cut)
      BY <2>6, <2>7 DEF TurnedTo
    <2>9. t \in DefragState /\ j \in 0 .. n
      BY <2>5, <2>6, <2>7 DEF TurnedTo
    <2>10. Len(t.in0) = n - j
      BY <2>8 DEF Defragmented, BytesFrom
    <2>11. Len(t.in0) < Len(h.in0)
      BY <2>4, <2>5, <2>8, <2>10
    <2> QED BY <2>7, <2>8, <2>9, <2>11 DEF Defragmenting
  <1> QED BY <1>1, <1>2

\* The loop ends with all the bytes of the PDU taken.
LEMMA PduDefragmented ==
    ASSUME NEW x, NEW n \in Nat, NEW all, NEW cut, InPdu(x, n, all, cut),
           NEW given \in Seq(Seq(Nat)), NEW h \in Defragmenting(given, x, n, all, cut)
    PROVE  /\ defragment(h) \in Defragmenting(given, x, n, all, cut)
           /\ defragment(h).in0 = <<>>
  <1>0. PICK D : D = Defragmenting(given, x, n, all, cut)
    OBVIOUS
  <1>1. PICK l \in Nat : l = Len(h.in0)
    <2>1. h.in0 \in Seq(Nat)
      BY DEF Defragmenting, DefragState
    <2> QED BY <2>1
  <1> DEFINE Is(f) == f = [i \in 0 .. l |-> IF i = 0 THEN h ELSE DefragmentTurn(f[i - 1])]
  <1>2. \E f : Is(f)
    <2>1. PICK F : F = [q \in D \X (1 .. l) |-> DefragmentTurn(q[1])]
      OBVIOUS
    <2>2. Step(F, D, l)
      <3>1. \A q \in D \X (1 .. l) : DefragmentTurn(q[1]) \in D
        BY <1>0, DefragmentTurnReaches
      <3> QED BY <2>1, <3>1 DEF Step
    <2>3. PICK f : Repeated(f, F, D, l, h)
      BY <1>0, <2>2, Recursion, Zenon
    <2>4. f \in [0 .. l -> D] /\ f[0] = h /\ \A j \in 1 .. l : f[j] = F[<<f[j - 1], j>>]
      BY <2>3 DEF Repeated
    <2>5. ASSUME NEW i \in 0 .. l PROVE f[i] = IF i = 0 THEN h ELSE DefragmentTurn(f[i - 1])
      <3>1. CASE i # 0
        <4>1. i \in 1 .. l /\ i - 1 \in 0 .. l
          BY <3>1
        <4>2. <<f[i - 1], i>> \in D \X (1 .. l)
          BY <2>4, <4>1
        <4>3. F[<<f[i - 1], i>>] = DefragmentTurn(f[i - 1])
          BY <2>1, <4>2
        <4> QED BY <2>4, <3>1, <4>1, <4>3
      <3> QED BY <2>4, <3>1
    <2> QED BY <2>4, <2>5
  <1>3. PICK e : e = CHOOSE f : Is(f)
    OBVIOUS
  <1>4. defragment(h) = e[l]
    BY <1>1, <1>3 DEF defragment
  <1>5. Is(e)
    <2> HIDE DEF Is
    <2> QED BY <1>2, <1>3
  <1>6. \A i \in 0 .. l : e[i] = IF i = 0 THEN h ELSE DefragmentTurn(e[i - 1])
    BY <1>5
  <1> HIDE DEF Is
  <1>7. \A i \in 0 .. l : e[i] \in D /\ Len(e[i].in0) <= l - i
    <2>1. PICK S : S = {i \in 0 .. l : e[i] \in D /\ Len(e[i].in0) <= l - i}
      OBVIOUS
    <2>2. 0 \in S
      <3>1. 0 \in 0 .. l /\ e[0] = h
        BY <1>6
      <3> QED BY <1>0, <1>1, <2>1, <3>1
    <2>3. ASSUME NEW j \in 1 .. l, j - 1 \in S PROVE j \in S
      <3>1. j \in 0 .. l /\ j # 0
        OBVIOUS
      <3>2. PICK g \in D : g = e[j - 1] /\ Len(g.in0) <= l - (j - 1)
        BY <2>1, <2>3
      <3>3. e[j] = DefragmentTurn(g)
        BY <1>6, <3>1, <3>2
      <3>4. PICK k \in D :
              k = DefragmentTurn(g) /\ (g.in0 # <<>> => Len(k.in0) < Len(g.in0))
        BY <1>0, DefragmentTurnReaches
      <3>5. PICK a, b \in Nat : a = Len(g.in0) /\ b = Len(k.in0)
        <4>1. g.in0 \in Seq(Nat) /\ k.in0 \in Seq(Nat)
          BY <1>0 DEF Defragmenting, DefragState
        <4> QED BY <4>1
      <3>6. b <= l - j
        <4>1. CASE g.in0 = <<>>
          <5>1. k = g
            BY <3>4, <4>1 DEF DefragmentTurn
          <5>2. b = 0
            BY <3>5, <4>1, <5>1
          <5> QED BY <5>2
        <4>2. CASE g.in0 # <<>>
          BY <3>2, <3>4, <3>5, <4>2
        <4> QED BY <4>1, <4>2
      <3> QED BY <2>1, <3>1, <3>3, <3>4, <3>5, <3>6
    <2>4. \A j \in 0 .. l : j \in S
      BY <2>2, <2>3, StepByStep
    <2> QED BY <2>1, <2>4
  <1>8. l \in 0 .. l
    OBVIOUS
  <1>9. PICK g \in D : g = e[l] /\ Len(g.in0) <= l - l
    BY <1>7, <1>8
  <1>10. g.in0 = <<>>
    <2>1. g.in0 \in Seq(Nat)
      BY <1>0 DEF Defragmenting, DefragState
    <2>2. Len(g.in0) = 0
      BY <1>9, <2>1
    <2> QED BY <2>1, <2>2, NoElement
  <1> QED BY <1>0, <1>4, <1>9, <1>10

------------------------------------------------------------------------------
\* A frame whose first byte is the last of the PDU is severed, and only then.
CutWith(x, n, cut) == IF x[n].at = 1 THEN cut \cup {x[n].frame} ELSE cut

BegunBefore(x, cut, b) == \A k \in cut : k \in Nat /\ k <= FramesBegun(x[b])

\* The frames severed by a PDU of n bytes have not begun before it, and have behind it.
LEMMA CutCounted ==
    ASSUME NEW x, NEW all, FrameStream(x, all), FramesFormed(all), NEW cut,
           BegunBefore(x, cut, 1), NEW n \in Nat, n >= 1, n < Len(x),
           NEW new, new = CutWith(x, n, cut)
    PROVE  /\ CutAt(x, n, new)
           /\ BegunBefore(x, new, n + 1)
           /\ \A k \in new : k \in cut \/ k > FramesBegun(x[1])
           /\ cut \subseteq new
           /\ FramesCome(x[1]) <= FramesBegun(x[1]) /\ FramesBegun(x[1]) \in Int
  <1>1. PICK a \in Nat : a = Len(x) /\ n < a /\ n \in 1 .. a /\ n + 1 \in 1 .. a /\ 1 \in 1 .. a
    <2>1. Len(x) \in Nat
      BY DEF FrameStream
    <2> QED BY <2>1
  <1>2. /\ \A e \in 1 .. a : x[e] \in StreamByte /\ OfFrame(x[e], all)
        /\ \A e \in 1 .. a - 1 : GoesOn(x[e], x[e + 1], all)
    <2>1. \A e \in 1 .. a : x[e] \in StreamByte
      BY <1>1 DEF FrameStream
    <2> QED BY <1>1, <2>1, Zenon DEF FrameStream
  <1>3. ASSUME NEW e \in 1 .. a, NEW d \in e .. a
        PROVE  FramesBegun(x[e]) <= FramesBegun(x[d])
    <2>1. e \in 1 .. Len(x) /\ d \in e .. Len(x)
      BY <1>1
    <2> QED BY <2>1, MoreFramesCome
  <1>4. ASSUME NEW e \in 1 .. a, x[e].at = 1
        PROVE  /\ x[e].frame \in Nat /\ FramesBegun(x[e]) = x[e].frame - 1
               /\ x[e].frame > FramesBegun(x[1]) /\ x[e].frame \notin cut
    <2>1. PICK f \in Nat : f = x[e].frame
      BY <1>2 DEF StreamByte
    <2>2. FramesBegun(x[e]) = f - 1
      BY <1>4, <2>1 DEF FramesBegun
    <2>3. PICK g \in Int : g = FramesBegun(x[1])
      <3>1. x[1] \in StreamByte
        BY <1>1, <1>2
      <3>2. FramesBegun(x[1]) \in Int
        BY <3>1 DEF StreamByte, FramesBegun
      <3> QED BY <3>2
    <2>4. g <= f - 1
      <3>1. 1 \in 1 .. a /\ e \in 1 .. a /\ e \in 1 .. a
        BY <1>1
      <3>2. FramesBegun(x[1]) <= FramesBegun(x[e])
        BY <1>1, <1>3
      <3> QED BY <2>2, <2>3, <3>2
    <2>5. f \notin cut
      <3>1. ~ (f <= g)
        BY <2>4
      <3> QED BY <2>3, <3>1 DEF BegunBefore
    <2> QED BY <2>1, <2>2, <2>3, <2>4, <2>5
  <1>5. ASSUME NEW e \in 1 .. a, x[e].at = 1, e + 1 \in 1 .. a
        PROVE  FramesBegun(x[e + 1]) = x[e].frame
    <2>1. e \in 1 .. a - 1
      BY <1>5
    <2>2. PICK b, c \in StreamByte : b = x[e] /\ c = x[e + 1]
      BY <1>2, <1>5
    <2>3. OfFrame(b, all) /\ GoesOn(b, c, all) /\ b.at = 1
      BY <1>2, <1>5, <2>1, <2>2
    <2>4. ~ FrameEnds(b, all)
      <3>1. b.frame \in 1 .. Len(all)
        BY <2>3 DEF OfFrame
      <3>2. all[b.frame] \in Seq(Nat)
        BY <3>1 DEF FramesFormed
      <3>3. b.at # 0 /\ b.at # Len(all[b.frame]) + 2
        BY <2>3, <3>2
      <3> QED BY <3>3, Zenon DEF FrameEnds
    <2>5. c.frame = b.frame /\ c.at = b.at + 1
      BY <2>3, <2>4, Zenon DEF GoesOn
    <2>6. c.at # 1
      BY <2>3, <2>5
    <2> QED BY <2>2, <2>5, <2>6, Zenon DEF FramesBegun
  <1>6. CutAt(x, n, new)
    <2>1. ASSUME NEW e \in 1 .. n, x[e].at = 1 PROVE x[e].frame \in new <=> e = n
      <3>1. e \in 1 .. a
        BY <1>1
      <3>2. CASE e = n
        BY <2>1, <3>2 DEF CutWith
      <3>3. CASE e # n
        <4>1. SUFFICES ASSUME x[e].frame \in new PROVE FALSE
          BY <3>3
        <4>2. x[n].at = 1 /\ x[e].frame = x[n].frame
          BY <1>4, <2>1, <3>1, <4>1 DEF CutWith
        <4>3. e + 1 \in 1 .. a /\ n \in e + 1 .. a
          BY <1>1, <3>3
        <4>4. PICK f \in Nat : f = x[e].frame
          BY <1>4, <2>1, <3>1
        <4>5. FramesBegun(x[e + 1]) = f /\ FramesBegun(x[n]) = f - 1
          BY <1>1, <1>4, <1>5, <2>1, <3>1, <4>2, <4>3, <4>4
        <4>6. f <= f - 1
          BY <1>3, <4>3, <4>5
        <4> QED BY <4>6
      <3> QED BY <3>2, <3>3
    <2> QED BY <2>1 DEF CutAt
  <1>7. PICK g, h \in Int : g = FramesBegun(x[1]) /\ h = FramesBegun(x[n + 1]) /\ g <= h
    <2>1. x[1] \in StreamByte /\ x[n + 1] \in StreamByte
      BY <1>1, <1>2
    <2>2. FramesBegun(x[1]) \in Int /\ FramesBegun(x[n + 1]) \in Int
      BY <2>1 DEF StreamByte, FramesBegun
    <2>3. n + 1 \in 1 .. a
      BY <1>1
    <2>4. FramesBegun(x[1]) <= FramesBegun(x[n + 1])
      BY <1>1, <1>3, <2>3
    <2> QED BY <2>2, <2>4
  <1>8. BegunBefore(x, new, n + 1)
    <2>1. ASSUME NEW k \in new PROVE k \in Nat /\ k <= h
      <3>1. CASE k \in cut
        <4>1. k \in Nat /\ k <= g
          BY <1>7, <3>1 DEF BegunBefore
        <4> QED BY <1>7, <4>1
      <3>2. CASE k \notin cut
        <4>1. x[n].at = 1 /\ k = x[n].frame
          BY <3>2 DEF CutWith
        <4>2. k \in Nat /\ k = h
          BY <1>1, <1>4, <1>5, <1>7, <4>1
        <4> QED BY <4>2
      <3> QED BY <3>1, <3>2
    <2> QED BY <1>7, <2>1 DEF BegunBefore
  <1>9. \A k \in new : k \in cut \/ k > FramesBegun(x[1])
    BY <1>1, <1>4 DEF CutWith
  <1>10. cut \subseteq new
    BY DEF CutWith
  <1>11. FramesCome(x[1]) <= g
    <2>1. PICK f, p \in Nat : f = x[1].frame /\ p = x[1].at
      BY <1>1, <1>2 DEF StreamByte
    <2>2. FramesCome(x[1]) = (IF p = 0 THEN f ELSE f - 1) /\ g = IF p = 1 THEN f - 1 ELSE f
      BY <1>7, <2>1, Zenon DEF FramesCome, FramesBegun
    <2> QED BY <2>2
  <1> QED BY <1>6, <1>7, <1>8, <1>9, <1>10, <1>11

\* What is to come out stays if frames are severed that have not begun.
LEMMA CutKeepsOut ==
    ASSUME NEW given, NEW all, NEW cut, NEW new, NEW n \in Int, FramesOut(given, all, cut, n),
           cut \subseteq new, \A k \in new : k \in cut \/ k > n
    PROVE  FramesOut(given, all, new, n)
  <1>1. ASSUME NEW m \in Int, m <= n PROVE Unsevered(new, m) = Unsevered(cut, m)
    <2>1. \A k \in 1 .. m : k \in new <=> k \in cut
      BY <1>1
    <2> QED BY <2>1 DEF Unsevered
  <1>2. Unsevered(new, n) = Unsevered(cut, n)
    BY <1>1
  <1>3. \A k \in Unsevered(cut, n) : k \in Int /\ k <= n
    BY DEF Unsevered
  <1>4. \A k \in Unsevered(cut, n) : Unsevered(new, k) = Unsevered(cut, k)
    BY <1>1, <1>3
  <1> QED BY <1>2, <1>4, Zenon DEF FramesOut

\* So does what the block is in.
LEMMA CutKeepsStep ==
    ASSUME NEW h, NEW b \in StreamByte, NEW all, NEW cut, NEW new, InStep(h, b, all, cut),
           cut \subseteq new, \A k \in new : k \in cut \/ k > FramesBegun(b)
    PROVE  InStep(h, b, all, new)
  <1>1. CASE h.in_frame = FALSE /\ Searching(b, cut)
    BY <1>1 DEF InStep, Searching
  <1>2. CASE h.in_frame = TRUE /\ InFrame(h, b, all, cut)
    <2>1. b.at >= 3 /\ b.frame \notin cut
      BY <1>2 DEF InFrame
    <2>2. FramesBegun(b) = b.frame
      <3>1. b.at # 1
        BY <2>1
      <3> QED BY <3>1, Zenon DEF FramesBegun
    <2>3. b.frame \in Nat
      BY DEF StreamByte
    <2>4. b.frame \notin new
      <3>1. ~ (b.frame > b.frame)
        BY <2>3
      <3> QED BY <2>1, <2>2, <3>1
    <2> QED BY <1>2, <2>4, Zenon DEF InStep, InFrame
  <1> QED BY <1>1, <1>2, Zenon DEF InStep

------------------------------------------------------------------------------
\* The sequence y is s, of length a, with e behind it.
IsBehind(y, s, e, a) == /\ y = Append(s, e) /\ Len(y) = a + 1 /\ y[a + 1] = e
                        /\ \A i \in 1 .. a : y[i] = s[i]

\* There is such a sequence.
LEMMA OneBehind ==
    ASSUME NEW S, NEW s \in Seq(S), NEW e \in S, NEW a \in Nat, a = Len(s)
    PROVE  \E y \in Seq(S) : IsBehind(y, s, e, a)
  <1>1. /\ Append(s, e) \in Seq(S) /\ Len(Append(s, e)) = Len(s) + 1
        /\ Append(s, e)[Len(s) + 1] = e
        /\ \A i \in 1 .. Len(s) : Append(s, e)[i] = s[i]
    OBVIOUS
  <1>2. IsBehind(Append(s, e), s, e, a)
    BY <1>1, Zenon DEF IsBehind
  <1> QED BY <1>1, <1>2, Zenon

\* The stream without its first n bytes.
LEMMA StreamCut ==
    ASSUME NEW w \in Seq(StreamByte), NEW all, NEW end \in StreamByte,
           FrameStream(Append(w, end), all), NEW n \in Nat, n <= Len(w)
    PROVE  /\ FrameStream(Append(From(w, n), end), all)
           /\ Append(From(w, n), end)[1] = Append(w, end)[n + 1]
  <1>1. PICK a, m \in Nat : a = Len(w) /\ m = a - n
    <2>1. Len(w) \in Nat /\ Len(w) - n \in Nat
      OBVIOUS
    <2> QED BY <2>1
  <1>2. PICK x \in Seq(StreamByte) :
          /\ x = Append(w, end) /\ Len(x) = a + 1 /\ x[a + 1] = end
          /\ \A i \in 1 .. a : x[i] = w[i]
    <2>1. PICK x \in Seq(StreamByte) : IsBehind(x, w, end, a)
      BY <1>1, OneBehind
    <2> QED BY <2>1, Zenon DEF IsBehind
  <1>3. PICK u \in Seq(StreamByte) :
          u = From(w, n) /\ Len(u) = m /\ \A i \in 1 .. m : u[i] = w[n + i]
    <2>1. /\ From(w, n) \in Seq(StreamByte)
          /\ Len(From(w, n)) = IF n < a THEN a - n ELSE 0
          /\ \A i \in 1 .. a - n : From(w, n)[i] = w[n + i]
      BY <1>1, BytesLeft
    <2> QED BY <1>1, <2>1
  <1>4. PICK y \in Seq(StreamByte) :
          /\ y = Append(u, end) /\ Len(y) = m + 1 /\ y[m + 1] = end
          /\ \A i \in 1 .. m : y[i] = u[i]
    <2>1. PICK y \in Seq(StreamByte) : IsBehind(y, u, end, m)
      BY <1>3, OneBehind
    <2> QED BY <2>1, Zenon DEF IsBehind
  <1>5. ASSUME NEW i \in 1 .. m + 1 PROVE n + i \in 1 .. a + 1 /\ y[i] = x[n + i]
    <2>1. n + i \in 1 .. a + 1
      BY <1>1
    <2>2. CASE i <= m
      <3>1. i \in 1 .. m /\ n + i \in 1 .. a
        BY <1>1, <2>2
      <3> QED BY <1>2, <1>3, <1>4, <2>1, <3>1
    <2>3. CASE i = m + 1
      <3>1. n + i = a + 1
        BY <1>1, <2>3
      <3> QED BY <1>2, <1>4, <2>1, <2>3, <3>1
    <2> QED BY <2>2, <2>3
  <1>6. /\ \A i \in 1 .. a + 1 : OfFrame(x[i], all)
        /\ \A i \in 1 .. a : GoesOn(x[i], x[i + 1], all)
        /\ end = StreamEnd(all)
    <2>1. (a + 1) - 1 = a
      OBVIOUS
    <2> QED BY <1>2, <2>1, Zenon DEF FrameStream
  <1>7. ASSUME NEW i \in 1 .. m PROVE GoesOn(y[i], y[i + 1], all)
    <2>1. i \in 1 .. m + 1 /\ i + 1 \in 1 .. m + 1 /\ n + i \in 1 .. a /\ n + (i + 1) = (n + i) + 1
      BY <1>1
    <2>2. y[i] = x[n + i]
      BY <1>5, <2>1
    <2>3. y[i + 1] = x[n + (i + 1)]
      BY <1>5, <2>1
    <2> QED BY <1>6, <2>1, <2>2, <2>3, Zenon
  <1>8. \A i \in 1 .. m + 1 : OfFrame(y[i], all)
    BY <1>5, <1>6
  <1>9. (m + 1) - 1 = m /\ m + 1 >= 1 /\ 1 \in 1 .. m + 1
    OBVIOUS
  <1>10. FrameStream(y, all)
    BY <1>4, <1>6, <1>7, <1>8, <1>9, Zenon DEF FrameStream
  <1>11. y[1] = x[n + 1]
    BY <1>5, <1>9
  <1> QED BY <1>2, <1>3, <1>4, <1>10, <1>11

\* The stream with a byte between frames more.
LEMMA StreamFilled ==
    ASSUME NEW x, NEW all, FrameStream(x, all)
    PROVE  FrameStream(Append(x, StreamEnd(all)), all) /\ Append(x, StreamEnd(all))[1] = x[1]
  <1>1. PICK a \in Nat : a = Len(x) /\ a >= 1
    BY DEF FrameStream
  <1>2. PICK end \in StreamByte : end = StreamEnd(all) /\ x[a] = end
    <2>1. x[a] = StreamEnd(all) /\ x[a] \in StreamByte
      BY <1>1 DEF FrameStream
    <2> QED BY <2>1
  <1>3. PICK y \in Seq(StreamByte) :
          /\ y = Append(x, end) /\ Len(y) = a + 1 /\ y[a + 1] = end
          /\ \A i \in 1 .. a : y[i] = x[i]
    <2>1. x \in Seq(StreamByte)
      BY DEF FrameStream
    <2>2. PICK y \in Seq(StreamByte) : IsBehind(y, x, end, a)
      BY <1>1, <2>1, OneBehind
    <2> QED BY <2>2, Zenon DEF IsBehind
  <1>4. /\ \A i \in 1 .. a : OfFrame(x[i], all)
        /\ \A i \in 1 .. a - 1 : GoesOn(x[i], x[i + 1], all)
    BY <1>1, Zenon DEF FrameStream
  <1>5. ASSUME NEW i \in 1 .. a + 1 PROVE OfFrame(y[i], all)
    <2>1. CASE i \in 1 .. a
      BY <1>3, <1>4, <2>1
    <2>2. CASE i = a + 1
      <3>1. y[i] = x[a] /\ a \in 1 .. a
        BY <1>1, <1>2, <1>3, <2>2
      <3> QED BY <1>4, <3>1
    <2> QED BY <2>1, <2>2
  <1>6. ASSUME NEW i \in 1 .. a PROVE GoesOn(y[i], y[i + 1], all)
    <2>1. CASE i \in 1 .. a - 1
      <3>1. i \in 1 .. a /\ i + 1 \in 1 .. a
        BY <2>1
      <3>2. y[i] = x[i] /\ y[i + 1] = x[i + 1]
        BY <1>3, <3>1
      <3> QED BY <1>4, <2>1, <3>2
    <2>2. CASE i = a
      <3>1. y[i] = end /\ y[i + 1] = end
        BY <1>2, <1>3, <2>2
      <3>2. end.at = 0
        BY <1>2 DEF StreamEnd
      <3> QED BY <3>1, <3>2, Zenon DEF GoesOn, FrameEnds
    <2> QED BY <2>1, <2>2
  <1>7. (a + 1) - 1 = a /\ a + 1 >= 1 /\ 1 \in 1 .. a
    BY <1>1
  <1>8. FrameStream(y, all)
    BY <1>2, <1>3, <1>5, <1>6, <1>7, Zenon DEF FrameStream
  <1> QED BY <1>2, <1>3, <1>7, <1>8

\* The marks of a frame q that is number k.
FrameMarks(q, k) == [i \in DOMAIN (syncword \o q) |->
                     [byte |-> (syncword \o q)[i], frame |-> k, at |-> i]]

\* What those bytes are.
LEMMA FrameMarked ==
    ASSUME NEW q \in Seq(Nat), NEW k \in Nat, NEW l \in Nat, l = Len(q)
    PROVE  /\ FrameMarks(q, k) \in Seq(StreamByte)
           /\ Len(FrameMarks(q, k)) = l + 2
           /\ \A i \in 1 .. l + 2 : /\ FrameMarks(q, k)[i].frame = k /\ FrameMarks(q, k)[i].at = i
                                    /\ FrameMarks(q, k)[i].byte = IF i = 1 THEN 8 ELSE
                                                              IF i = 2 THEN 9 ELSE q[i - 2]
  <1>1. PICK s \in Seq(Nat) : /\ s = syncword \o q /\ Len(s) = l + 2 /\ DOMAIN s = 1 .. l + 2
                              /\ s[1] = 8 /\ s[2] = 9 /\ \A j \in 1 .. l : s[2 + j] = q[j]
    <2>1. syncword \in Seq(Nat) /\ 2 = Len(syncword) /\ syncword[1] = 8 /\ syncword[2] = 9
      BY DEF syncword
    <2>2. PICK y \in Seq(Nat) : AreJoined(y, syncword, q, 2, l)
      BY <2>1, NumberedJoined
    <2>3. /\ y = syncword \o q /\ Len(y) = l + 2 /\ y[1] = 8 /\ y[2] = 9
          /\ \A j \in 1 .. l : y[2 + j] = q[j]
      BY <2>1, <2>2 DEF AreJoined
    <2>4. DOMAIN y = 1 .. l + 2
      BY <2>3, NoElement
    <2> QED BY <2>3, <2>4
  <1>2. PICK v : v = [i \in 1 .. l + 2 |-> [byte |-> s[i], frame |-> k, at |-> i]]
    OBVIOUS
  <1>3. FrameMarks(q, k) = v
    BY <1>1, <1>2, Zenon DEF FrameMarks
  <1>4. ASSUME NEW i \in 1 .. l + 2
        PROVE  v[i] \in StreamByte /\ v[i].frame = k /\ v[i].at = i /\ v[i].byte = s[i]
    <2>1. s[i] \in Nat
      BY <1>1
    <2> QED BY <1>2, <2>1 DEF StreamByte
  <1>5. v \in Seq(StreamByte) /\ Len(v) = l + 2
    BY <1>2, <1>4
  <1>6. ASSUME NEW i \in 1 .. l + 2
        PROVE  s[i] = IF i = 1 THEN 8 ELSE IF i = 2 THEN 9 ELSE q[i - 2]
    <2>1. CASE i > 2
      <3>1. i - 2 \in 1 .. l /\ 2 + (i - 2) = i /\ i # 1 /\ i # 2
        BY <2>1
      <3> QED BY <1>1, <3>1
    <2>2. CASE i = 1 \/ i = 2
      BY <1>1, <2>2
    <2> QED BY <2>1, <2>2
  <1> QED BY <1>3, <1>4, <1>5, <1>6

\* What a byte is, and how the stream goes on behind it, stays with a frame more.
LEMMA OfFrameStays ==
    ASSUME NEW all, NEW more, NEW q, NEW N \in Nat, N = Len(all), IsBehind(more, all, q, N),
           NEW b \in StreamByte, OfFrame(b, all)
    PROVE  /\ OfFrame(b, more)
           /\ \A c \in StreamByte : GoesOn(b, c, all) => GoesOn(b, c, more)
  <1>1. Len(more) = N + 1 /\ \A i \in 1 .. N : more[i] = all[i]
    BY DEF IsBehind
  <1>2. PICK f, p \in Nat : f = b.frame /\ p = b.at
    BY DEF StreamByte
  <1>3. CASE p = 0
    <2>1. f \in 0 .. N /\ b.byte = FillByte
      BY <1>2, <1>3, Zenon DEF OfFrame
    <2>2. b.frame \in 0 .. Len(more) /\ b.at = 0 /\ b.at # 1 /\ b.at # 2
      BY <1>1, <1>2, <1>3, <2>1
    <2>3. OfFrame(b, more)
      BY <2>1, <2>2, Zenon DEF OfFrame
    <2> QED BY <2>2, <2>3, Zenon DEF GoesOn, FrameEnds
  <1>4. CASE p # 0
    <2>1. f \in 1 .. N
      BY <1>2, <1>4, Zenon DEF OfFrame
    <2>2. all[b.frame] = more[b.frame] /\ b.frame \in 1 .. Len(more)
      BY <1>1, <1>2, <2>1
    <2>3. OfFrame(b, more)
      BY <1>2, <1>4, <2>2, Zenon DEF OfFrame
    <2> QED BY <2>2, <2>3, Zenon DEF GoesOn, FrameEnds
  <1> QED BY <1>3, <1>4

\* The streams without and with the frame q more.
GrownBy(x, y, w, all, N, q, more) ==
    /\ x = Append(w, StreamEnd(all))
    /\ y = Append(w \o FrameMarks(q, N + 1), StreamEnd(more))
    /\ FrameStream(y, more)
    /\ y[1] = x[1] \/ (x[1] = StreamEnd(all) /\ y[1].frame = N + 1 /\ y[1].at = 1)

\* The stream with a frame more: its first byte has as many frames before it.
LEMMA StreamGrows ==
    ASSUME NEW w \in Seq(StreamByte), NEW all, NEW N \in Nat, N = Len(all), NEW q \in Seq(Nat),
           NEW more, IsBehind(more, all, q, N), FramesFormed(more),
           FrameStream(Append(w, StreamEnd(all)), all)
    PROVE  \E x, y \in Seq(StreamByte) : GrownBy(x, y, w, all, N, q, more)
  <1>1. PICK a, l, k \in Nat : a = Len(w) /\ l = Len(q) /\ k = N + 1
    <2>1. Len(w) \in Nat /\ Len(q) \in Nat /\ N + 1 \in Nat
      OBVIOUS
    <2> QED BY <2>1
  <1>2. PICK end, last \in StreamByte :
          /\ end = StreamEnd(all) /\ end.at = 0 /\ end.frame = N
          /\ last = StreamEnd(more) /\ last.at = 0 /\ last.frame = k /\ last.byte = FillByte
    <2>1. Len(more) = k
      BY <1>1, Zenon DEF IsBehind
    <2>2. FillByte \in Nat
      BY DEF FillByte
    <2>3. [byte |-> FillByte, frame |-> N, at |-> 0] \in StreamByte
      BY <2>2 DEF StreamByte
    <2>4. [byte |-> FillByte, frame |-> k, at |-> 0] \in StreamByte
      BY <2>2 DEF StreamByte
    <2>5. /\ StreamEnd(all) = [byte |-> FillByte, frame |-> N, at |-> 0]
          /\ StreamEnd(more) = [byte |-> FillByte, frame |-> k, at |-> 0]
      BY <2>1, Zenon DEF StreamEnd
    <2> QED BY <2>3, <2>4, <2>5
  <1>3. PICK x \in Seq(StreamByte) : IsBehind(x, w, end, a)
    BY <1>1, OneBehind
  <1>4. PICK v \in Seq(StreamByte) :
          /\ v = FrameMarks(q, k) /\ Len(v) = l + 2
          /\ \A i \in 1 .. l + 2 : /\ v[i].frame = k /\ v[i].at = i
                                   /\ v[i].byte = IF i = 1 THEN 8 ELSE IF i = 2 THEN 9 ELSE q[i - 2]
    BY <1>1, FrameMarked
  <1>5. PICK b \in Nat : b = l + 2
    BY <1>1
  <1>6. PICK u \in Seq(StreamByte) : AreJoined(u, w, v, a, b)
    BY <1>1, <1>4, <1>5, NumberedJoined
  <1>7. PICK c \in Nat : c = a + b /\ c = Len(u)
    <2>1. a + b \in Nat
      OBVIOUS
    <2> QED BY <1>6, <2>1 DEF AreJoined
  <1>8. PICK y \in Seq(StreamByte) : IsBehind(y, u, last, c)
    BY <1>7, OneBehind
  <1>9. /\ x = Append(w, end) /\ Len(x) = a + 1 /\ x[a + 1] = end
        /\ \A i \in 1 .. a : x[i] = w[i]
    BY <1>3 DEF IsBehind
  <1>10. /\ y = Append(w \o FrameMarks(q, k), last) /\ Len(y) = c + 1 /\ y[c + 1] = last
    BY <1>4, <1>6, <1>8, Zenon DEF IsBehind, AreJoined
  <1>11. ASSUME NEW i \in 1 .. a PROVE y[i] = x[i]
    <2>1. i \in 1 .. c
      BY <1>7
    <2>2. y[i] = u[i] /\ u[i] = w[i]
      BY <1>6, <1>8, <2>1, Zenon DEF IsBehind, AreJoined
    <2> QED BY <1>9, <2>2
  <1>12. ASSUME NEW i \in 1 .. b
         PROVE  /\ y[a + i].frame = k /\ y[a + i].at = i
                /\ y[a + i].byte = IF i = 1 THEN 8 ELSE IF i = 2 THEN 9 ELSE q[i - 2]
    <2>1. a + i \in 1 .. c
      BY <1>7
    <2>2. y[a + i] = u[a + i] /\ u[a + i] = v[i]
      BY <1>6, <1>8, <2>1, Zenon DEF IsBehind, AreJoined
    <2> QED BY <1>4, <1>5, <2>2
  <1>13. /\ \A i \in 1 .. a + 1 : x[i] \in StreamByte /\ OfFrame(x[i], all)
         /\ \A i \in 1 .. a : GoesOn(x[i], x[i + 1], all)
    <2>1. (a + 1) - 1 = a
      OBVIOUS
    <2>2. FrameStream(x, all)
      BY <1>2, <1>9, Zenon
    <2>3. \A i \in 1 .. a + 1 : x[i] \in StreamByte
      BY <1>9
    <2> QED BY <1>9, <2>1, <2>2, <2>3, Zenon DEF FrameStream
  <1>14. \A i \in 1 .. c + 1 : y[i] \in StreamByte
    <2>1. \A i \in 1 .. Len(y) : y[i] \in StreamByte
      OBVIOUS
    <2> QED BY <1>10, <2>1, Zenon
  <1>15. Len(more) = k /\ more[k] = q /\ k \in 1 .. Len(more) /\ k >= 1
    BY <1>1 DEF IsBehind
  <1>16. ASSUME NEW i \in 1 .. c + 1 PROVE OfFrame(y[i], more)
    <2>1. CASE i \in 1 .. a
      <3>1. i \in 1 .. a + 1
        BY <2>1
      <3> QED BY <1>11, <1>13, <2>1, <3>1, OfFrameStays
    <2>2. ASSUME NEW j \in 1 .. b, i = a + j PROVE OfFrame(y[i], more)
      <3>1. /\ y[i].frame = k /\ y[i].at = j
            /\ y[i].byte = IF j = 1 THEN 8 ELSE IF j = 2 THEN 9 ELSE q[j - 2]
        BY <1>12, <2>2
      <3>2. j # 0 /\ j <= Len(q) + 2 /\ (j = 2 => j # 1)
        BY <1>1, <1>5
      <3>3. y[i].at = 1 => y[i].byte = 8
        BY <3>1
      <3>4. y[i].at = 2 => y[i].byte = 9
        BY <3>1
      <3>5. y[i].at \notin {0, 1, 2} => /\ y[i].at <= Len(more[y[i].frame]) + 2
                                        /\ y[i].byte = more[y[i].frame][y[i].at - 2]
        BY <1>15, <3>1, <3>2
      <3> QED BY <1>15, <3>1, <3>2, <3>3, <3>4, <3>5, Zenon DEF OfFrame
    <2>3. CASE i = c + 1
      <3>1. y[i] = last /\ k \in 0 .. Len(more)
        BY <1>10, <1>15, <2>3
      <3>2. /\ y[i].at = 0 /\ 0 # 1 /\ 0 # 2 /\ y[i].frame \in 0 .. Len(more)
            /\ y[i].byte = FillByte
        BY <1>2, <3>1
      <3> QED BY <3>2, Zenon DEF OfFrame
    <2>4. i \in 1 .. a \/ i = c + 1 \/ (i - a \in 1 .. b /\ i = a + (i - a))
      BY <1>7
    <2> QED BY <2>1, <2>2, <2>3, <2>4
  <1>17. ASSUME NEW i \in 1 .. c PROVE GoesOn(y[i], y[i + 1], more)
    <2>1. CASE i < a
      <3>1. i \in 1 .. a /\ i + 1 \in 1 .. a /\ i \in 1 .. a + 1 /\ i + 1 \in 1 .. a + 1
        BY <2>1
      <3>2. y[i] = x[i] /\ y[i + 1] = x[i + 1]
        BY <1>11, <3>1
      <3>3. GoesOn(x[i], x[i + 1], more)
        BY <1>13, <3>1, OfFrameStays
      <3> QED BY <3>2, <3>3
    <2>2. CASE i = a
      <3>1. a \in 1 .. a /\ a \in 1 .. a + 1 /\ a + 1 \in 1 .. a + 1 /\ 1 \in 1 .. b
        BY <1>5, <2>2
      <3>2. GoesOn(x[a], end, more) /\ y[a] = x[a]
        BY <1>9, <1>11, <1>13, <3>1, OfFrameStays
      <3>3. y[a + 1].frame = k /\ y[a + 1].at = 1
        BY <1>12, <3>1
      <3>4. FrameEnds(x[a], more) /\ x[a].frame = N
        <4>1. x[a].at \in Nat
          BY <1>13, <3>1 DEF StreamByte
        <4>2. x[a].at + 1 # 0 /\ 0 # 1
          BY <4>1
        <4> QED BY <1>2, <3>2, <4>2, Zenon DEF GoesOn
      <3> QED BY <1>1, <2>2, <3>2, <3>3, <3>4, Zenon DEF GoesOn
    <2>3. CASE i > a
      <3>1. PICK j \in 1 .. b : i = a + j
        <4>1. i - a \in 1 .. b /\ i = a + (i - a)
          BY <1>7, <2>3
        <4> QED BY <4>1
      <3>2. y[i].frame = k /\ y[i].at = j
        BY <1>12, <3>1
      <3>3. CASE j = b
        <4>1. i + 1 = c + 1
          BY <1>7, <3>1, <3>3
        <4>2. y[i + 1].frame = k /\ y[i + 1].at = 0
          BY <1>2, <1>10, <4>1
        <4>3. Len(more[k]) + 2 = j
          BY <1>1, <1>5, <1>15, <3>3
        <4> QED BY <3>2, <4>2, <4>3, Zenon DEF GoesOn, FrameEnds
      <3>4. CASE j # b
        <4>1. j + 1 \in 1 .. b /\ i + 1 = a + (j + 1)
          BY <3>1, <3>4
        <4>2. y[i + 1].frame = k /\ y[i + 1].at = j + 1
          BY <1>12, <4>1
        <4>3. Len(more[k]) + 2 # j /\ j # 0
          BY <1>1, <1>5, <1>15, <3>4
        <4> QED BY <3>2, <4>2, <4>3, Zenon DEF GoesOn, FrameEnds
      <3> QED BY <3>3, <3>4
    <2> QED BY <2>1, <2>2, <2>3
  <1>18. (c + 1) - 1 = c /\ c + 1 >= 1
    OBVIOUS
  <1>19. FrameStream(y, more)
    BY <1>2, <1>10, <1>16, <1>17, <1>18, Zenon DEF FrameStream
  <1>20. y[1] = x[1] \/ (x[1] = StreamEnd(all) /\ y[1].frame = k /\ y[1].at = 1)
    <2>1. CASE a = 0
      <3>1. x[1] = StreamEnd(all)
        BY <1>2, <1>9, <2>1
      <3>2. 1 \in 1 .. b /\ a + 1 = 1
        BY <1>5, <2>1
      <3> QED BY <1>12, <3>1, <3>2
    <2>2. CASE a # 0
      <3>1. 1 \in 1 .. a
        BY <2>2
      <3>2. y[1] = x[1]
        BY <1>11, <3>1, Zenon
      <3> QED BY <3>2
    <2> QED BY <2>1, <2>2
  <1> QED BY <1>1, <1>2, <1>9, <1>10, <1>19, <1>20, Zenon DEF GrownBy

------------------------------------------------------------------------------
\* With a frame more to come.
LEMMA KeptWithFrame ==
    ASSUME NEW w \in Seq(StreamByte), NEW all, NEW N \in Nat, N = Len(all), NEW q \in Seq(Nat),
           NEW more, IsBehind(more, all, q, N), FramesFormed(more), NEW h, NEW cut, NEW given,
           KeptBy(h, all, Append(w, StreamEnd(all)), cut, given)
    PROVE  KeptBy(h, more, Append(w \o FrameMarks(q, N + 1), StreamEnd(more)), cut, given)
  <1>1. FrameStream(Append(w, StreamEnd(all)), all)
    BY DEF KeptBy
  <1>0. PICK x, y \in Seq(StreamByte) : GrownBy(x, y, w, all, N, q, more)
    BY <1>1, StreamGrows
  <1>2. /\ x = Append(w, StreamEnd(all))
        /\ y = Append(w \o FrameMarks(q, N + 1), StreamEnd(more))
        /\ FrameStream(y, more)
        /\ y[1] = x[1] \/ (x[1] = StreamEnd(all) /\ y[1].frame = N + 1 /\ y[1].at = 1)
    BY <1>0, Zenon DEF GrownBy
  <1>3. /\ h \in [in_frame : BOOLEAN, current : Seq(Nat), remain : Int]
        /\ FramesFormed(all) /\ FrameStream(x, all)
        /\ cut \subseteq Nat
        /\ \A k \in cut : k <= FramesBegun(x[1])
        /\ InStep(h, x[1], all, cut)
        /\ FramesOut(given, all, cut, FramesCome(x[1]))
    BY <1>2, Zenon DEF KeptBy
  <1>4. PICK b, c \in StreamByte : b = x[1] /\ c = y[1] /\ OfFrame(b, all)
    <2>1. 1 \in 1 .. Len(x) /\ 1 \in 1 .. Len(y)
      BY <1>2, <1>3 DEF FrameStream
    <2>2. x[1] \in StreamByte /\ y[1] \in StreamByte
      BY <1>2, <2>1
    <2>3. OfFrame(x[1], all)
      BY <1>3, <2>1, Zenon DEF FrameStream
    <2> QED BY <2>2, <2>3
  <1>5. /\ Len(more) = N + 1
        /\ \A i \in 1 .. N : more[i] = all[i]
    BY DEF IsBehind
  <1>6. PICK f, p, g, t \in Nat : f = b.frame /\ p = b.at /\ g = c.frame /\ t = c.at
    BY DEF StreamByte
  <1>7. \/ c = b
        \/ p = 0 /\ f = N /\ g = N + 1 /\ t = 1
    <2>1. StreamEnd(all).at = 0 /\ StreamEnd(all).frame = N
      BY DEF StreamEnd
    <2> QED BY <1>2, <1>4, <1>6, <2>1
  <1>8. FramesBegun(c) = FramesBegun(b) /\ FramesCome(c) = FramesCome(b)
    <2>1. CASE p = 0 /\ f = N /\ g = N + 1 /\ t = 1
      <3>1. (N + 1) - 1 = N /\ 1 # 0 /\ 0 # 1
        OBVIOUS
      <3> QED BY <1>6, <2>1, <3>1, Zenon DEF FramesBegun, FramesCome
    <2> QED BY <1>7, <2>1
  <1>9. InStep(h, c, more, cut)
    <2>1. InStep(h, b, more, cut)
      <3>1. ASSUME b.at >= 3 PROVE more[b.frame] = all[b.frame]
        <4>1. b.at # 0
          BY <3>1
        <4>2. b.frame \in 1 .. N
          BY <1>4, <4>1, Zenon DEF OfFrame
        <4> QED BY <1>5, <4>2
      <3> QED BY <1>3, <1>4, <3>1, Zenon DEF InStep, InFrame
    <2>2. CASE p = 0 /\ t = 1
      <3>1. ~ (b.at >= 3) /\ c.at \in {0, 1}
        BY <1>6, <2>2
      <3> QED BY <2>1, <3>1, Zenon DEF InStep, InFrame, Searching
    <2> QED BY <1>7, <2>1, <2>2
  <1>10. FramesOut(given, more, cut, FramesCome(c))
    <2>1. PICK n \in Int : n = FramesCome(b) /\ n <= N
      <3>1. CASE p = 0
        <4>1. f \in 0 .. N /\ FramesCome(b) = f
          BY <1>4, <1>6, <3>1, Zenon DEF OfFrame, FramesCome
        <4> QED BY <4>1
      <3>2. CASE p # 0
        <4>1. f \in 1 .. N /\ FramesCome(b) = f - 1
          BY <1>4, <1>6, <3>2, Zenon DEF OfFrame, FramesCome
        <4> QED BY <4>1
      <3> QED BY <3>1, <3>2
    <2>2. \A k \in Unsevered(cut, n) : more[k] = all[k]
      BY <1>5, <2>1 DEF Unsevered
    <2> QED BY <1>3, <1>4, <1>8, <2>1, <2>2, Zenon DEF FramesOut
  <1> QED BY <1>2, <1>3, <1>4, <1>8, <1>9, <1>10, Zenon DEF KeptBy

\* With a byte between frames more to come.
LEMMA KeptWithFill ==
    ASSUME NEW x, NEW all, NEW h, NEW cut, NEW given, KeptBy(h, all, x, cut, given)
    PROVE  KeptBy(h, all, Append(x, StreamEnd(all)), cut, given)
  <1>1. /\ FrameStream(Append(x, StreamEnd(all)), all)
        /\ Append(x, StreamEnd(all))[1] = x[1]
    BY StreamFilled DEF KeptBy
  <1> QED BY <1>1, Zenon DEF KeptBy

\* What the loop of handle_msg() starts from.
Taking(h, in0) == [in_frame |-> h.in_frame, current |-> h.current, remain |-> h.remain,
                   in0 |-> in0, published |-> <<>>]

HeldBy(g) == [in_frame |-> g.in_frame, current |-> g.current, remain |-> g.remain]

\* With the bytes of a PDU taken.
LEMMA KeptWithPdu ==
    ASSUME NEW w \in Seq(StreamByte), NEW all, NEW h, NEW cut, NEW given,
           KeptBy(h, all, Append(w, StreamEnd(all)), cut, given),
           NEW n \in 1 .. Len(w), NEW new, new = CutWith(w, n, cut),
           NEW g, g = defragment(Taking(h, [i \in 1 .. n |-> w[i].byte]))
    PROVE  KeptBy(HeldBy(g), all, Append(From(w, n), StreamEnd(all)), new, given \o g.published)
  <1>1. PICK a \in Nat : a = Len(w) /\ n \in 1 .. a /\ n \in Nat /\ n >= 1 /\ n <= a
    OBVIOUS
  <1>2. PICK end \in StreamByte : end = StreamEnd(all)
    <2>1. Len(all) \in Nat
      BY DEF KeptBy, FramesFormed
    <2> QED BY <2>1 DEF StreamEnd, StreamByte, FillByte
  <1>3. PICK x \in Seq(StreamByte) : IsBehind(x, w, end, a)
    BY <1>1, OneBehind
  <1>4. /\ x = Append(w, end) /\ Len(x) = a + 1 /\ \A i \in 1 .. a : x[i] = w[i]
    BY <1>3 DEF IsBehind
  <1>5. /\ h \in [in_frame : BOOLEAN, current : Seq(Nat), remain : Int]
        /\ FramesFormed(all) /\ FrameStream(x, all)
        /\ cut \subseteq Nat
        /\ \A k \in cut : k <= FramesBegun(x[1])
        /\ InStep(h, x[1], all, cut)
        /\ FramesOut(given, all, cut, FramesCome(x[1]))
    BY <1>2, <1>4, Zenon DEF KeptBy
  <1>6. /\ CutAt(x, n, new)
        /\ BegunBefore(x, new, n + 1)
        /\ \A k \in new : k \in cut \/ k > FramesBegun(x[1])
        /\ cut \subseteq new
        /\ FramesCome(x[1]) <= FramesBegun(x[1]) /\ FramesBegun(x[1]) \in Int
    <2>1. new = CutWith(x, n, cut)
      BY <1>1, <1>4 DEF CutWith
    <2>2. BegunBefore(x, cut, 1)
      BY <1>5 DEF BegunBefore
    <2>3. n < Len(x)
      BY <1>1, <1>4
    <2> QED BY <1>1, <1>5, <2>1, <2>2, <2>3, CutCounted
  <1>7. PICK b \in StreamByte : b = x[1] /\ x[0 + 1] = b
    <2>1. x[1] \in StreamByte
      BY <1>1, <1>4
    <2> QED BY <2>1
  <1>8. PICK f \in Int : f = FramesCome(b)
    <2>1. b.frame \in Int
      BY DEF StreamByte
    <2>2. FramesCome(b) \in Int
      BY <2>1 DEF FramesCome
    <2> QED BY <2>2, Zenon
  <1>9. InStep(h, b, all, new)
    <2>1. /\ InStep(h, b, all, cut) /\ cut \subseteq new
          /\ \A k \in new : k \in cut \/ k > FramesBegun(b)
      BY <1>5, <1>6, <1>7, Zenon
    <2> QED BY <2>1, CutKeepsStep, Zenon
  <1>10. FramesOut(given, all, new, f)
    <2>1. \A k \in new : k \in cut \/ k > f
      <3>1. ASSUME NEW k \in new PROVE k \in cut \/ k > f
        <4>1. k \in Int
          BY <1>6 DEF BegunBefore
        <4> QED BY <1>6, <1>7, <1>8, <4>1
      <3> QED BY <3>1
    <2>2. FramesOut(given, all, cut, f)
      BY <1>5, <1>7, <1>8
    <2> QED BY <1>6, <2>1, <2>2, CutKeepsOut
  <1>11. PICK s \in Seq(Nat) : /\ s = [i \in 1 .. n |-> w[i].byte]
                               /\ BytesFrom(s, x, 0, n)
    <2>1. ASSUME NEW i \in 1 .. n PROVE w[i].byte \in Nat /\ w[i].byte = x[0 + i].byte
      <3>1. i \in 1 .. a /\ 0 + i = i
        BY <1>1
      <3>2. w[i] \in StreamByte
        BY <1>1, <3>1
      <3> QED BY <1>4, <3>1, <3>2 DEF StreamByte
    <2>2. PICK s : s = [i \in 1 .. n |-> w[i].byte]
      OBVIOUS
    <2>3. s \in Seq(Nat) /\ Len(s) = n
      BY <1>1, <2>1, <2>2
    <2>4. \A i \in 1 .. n : s[i] = x[0 + i].byte
      BY <2>1, <2>2
    <2>5. n - 0 = n
      BY <1>1
    <2> QED BY <2>2, <2>3, <2>4, <2>5, Zenon DEF BytesFrom
  <1>12. given \in Seq(Seq(Nat))
    BY <1>10 DEF FramesOut
  <1>13. PICK o \in DefragState : o = Taking(h, s) /\ o.in0 = s /\ o.published = <<>>
                                  /\ o.in_frame = h.in_frame /\ o.current = h.current
                                  /\ o.remain = h.remain
    <2>1. PICK p \in Seq(Seq(Nat)) : p = <<>>
      <3>1. PICK S : S = Seq(Nat)
        OBVIOUS
      <3>2. <<>> \in Seq(S)
        OBVIOUS
      <3> QED BY <3>1, <3>2, Zenon
    <2>2. [in_frame |-> h.in_frame, current |-> h.current, remain |-> h.remain,
           in0 |-> s, published |-> p] \in DefragState
      BY <1>5 DEF DefragState
    <2> QED BY <2>1, <2>2 DEF Taking
  <1>14. o \in Defragmenting(given, x, n, all, new)
    <2>1. InStep(o, b, all, new)
      BY <1>9, <1>13, Zenon DEF InStep, InFrame
    <2>2. given \o o.published = given
      BY <1>12, <1>13
    <2>3. Defragmented(o, given, x, 0, n, all, new)
      BY <1>7, <1>8, <1>10, <1>11, <1>13, <2>1, <2>2, Zenon DEF Defragmented
    <2>4. 0 \in 0 .. n
      BY <1>1
    <2> QED BY <2>3, <2>4 DEF Defragmenting
  <1>15. g \in Defragmenting(given, x, n, all, new) /\ g.in0 = <<>>
    <2>1. InPdu(x, n, all, new)
      <3>1. n < Len(x)
        BY <1>1, <1>4
      <3> QED BY <1>5, <1>6, <3>1 DEF InPdu
    <2>2. g = defragment(o)
      BY <1>11, <1>13
    <2> QED BY <1>1, <1>12, <1>14, <2>1, <2>2, PduDefragmented
  <1>16. g \in DefragState /\ Defragmented(g, given, x, n, n, all, new)
    <2>1. g \in DefragState
      BY <1>15 DEF Defragmenting
    <2>2. PICK i \in 0 .. n : Defragmented(g, given, x, i, n, all, new)
      BY <1>15 DEF Defragmenting
    <2>3. Len(g.in0) = n - i
      BY <2>2 DEF Defragmented, BytesFrom
    <2>4. i = n
      <3>1. Len(g.in0) = 0
        BY <1>15
      <3> QED BY <1>1, <2>3, <3>1
    <2> QED BY <2>1, <2>2, <2>4
  <1>17. /\ InStep(g, x[n + 1], all, new)
         /\ FramesOut(given \o g.published, all, new, FramesCome(x[n + 1]))
    BY <1>16, Zenon DEF Defragmented
  <1>18. PICK y : /\ y = Append(From(w, n), end)
                  /\ FrameStream(y, all) /\ y[1] = x[n + 1]
    <2>1. FrameStream(Append(w, end), all)
      BY <1>4, <1>5, Zenon
    <2>2. /\ FrameStream(Append(From(w, n), end), all)
          /\ Append(From(w, n), end)[1] = Append(w, end)[n + 1]
      BY <1>1, <2>1, StreamCut
    <2> QED BY <1>4, <2>2, Zenon
  <1>19. new \subseteq Nat /\ \A k \in new : k <= FramesBegun(y[1])
    BY <1>6, <1>18 DEF BegunBefore
  <1>20. /\ HeldBy(g) \in [in_frame : BOOLEAN, current : Seq(Nat), remain : Int]
         /\ HeldBy(g).in_frame = g.in_frame /\ HeldBy(g).current = g.current
         /\ HeldBy(g).remain = g.remain
    BY <1>16 DEF HeldBy, DefragState
  <1>21. InStep(HeldBy(g), y[1], all, new)
    BY <1>17, <1>18, <1>20, Zenon DEF InStep, InFrame
  <1> QED BY <1>2, <1>5, <1>17, <1>18, <1>19, <1>20, <1>21, Zenon DEF KeptBy

------------------------------------------------------------------------------
\* FramesKept holds at the start.
LEMMA NoFramesYet == NanolinkInit => FramesKept
  <1> SUFFICES ASSUME NanolinkInit PROVE FramesKept
    OBVIOUS
  <1>0. \A S : <<>> \in Seq(S) /\ Len(<<>>) = 0
    <2>1. ASSUME NEW S PROVE <<>> \in Seq(S) /\ Len(<<>>) = 0
      OBVIOUS
    <2> QED BY <2>1
  <1>1. PICK w \in Seq(StreamByte) : w = <<>> /\ Len(w) = 0
    BY <1>0, Zenon
  <1>2. PICK all \in Seq(Seq(Nat)) : all = <<>> /\ Len(all) = 0
    BY <1>0, Zenon
  <1>3. PICK end \in StreamByte :
          /\ end = StreamEnd(all) /\ end.at = 0 /\ end.frame = 0 /\ end.byte = FillByte
    <2>1. StreamEnd(all) = [byte |-> FillByte, frame |-> 0, at |-> 0]
      BY <1>2, Zenon DEF StreamEnd
    <2>2. [byte |-> FillByte, frame |-> 0, at |-> 0] \in StreamByte
      BY DEF StreamByte, FillByte
    <2> QED BY <2>1, <2>2
  <1>4. PICK x \in Seq(StreamByte) : x = Append(w, end) /\ Len(x) = 1 /\ x[1] = end
    <2>1. 0 \in Nat /\ 0 + 1 = 1
      OBVIOUS
    <2>2. PICK x \in Seq(StreamByte) : IsBehind(x, w, end, 0)
      BY <1>1, <2>1, OneBehind
    <2> QED BY <2>1, <2>2, Zenon DEF IsBehind
  <1>5. /\ in_frame = FALSE /\ current = <<>> /\ remain = None /\ severed = {}
        /\ transmitted = all /\ waiting = w /\ defragmented = all
    BY <1>1, <1>2 DEF NanolinkInit
  <1>6. FramesFormed(all)
    BY <1>2 DEF FramesFormed
  <1>7. FrameStream(x, all)
    <2>1. OfFrame(end, all)
      <3>1. 0 \in 0 .. Len(all) /\ 0 # 1 /\ 0 # 2
        BY <1>2
      <3> QED BY <1>3, <3>1, Zenon DEF OfFrame
    <2>2. \A i \in 1 .. 1 : i = 1
      OBVIOUS
    <2>3. \A i \in 1 .. 1 - 1 : GoesOn(x[i], x[i + 1], all)
      OBVIOUS
    <2>4. 1 >= 1
      OBVIOUS
    <2> QED BY <1>3, <1>4, <2>1, <2>2, <2>3, <2>4, Zenon DEF FrameStream
  <1>8. Held0 \in [in_frame : BOOLEAN, current : Seq(Nat), remain : Int]
        /\ Held0.in_frame = FALSE
    <2>1. PICK u \in Seq(Nat), r \in Int : u = <<>> /\ r = None
      <3>1. None \in Int
        BY DEF None
      <3> QED BY <1>0, <3>1, Zenon
    <2>2. Held0 = [in_frame |-> FALSE, current |-> u, remain |-> r]
      BY <1>5, <2>1 DEF Held0
    <2> QED BY <2>2
  <1>9. InStep(Held0, x[1], all, severed)
    BY <1>3, <1>4, <1>8 DEF InStep, Searching
  <1>10. FramesOut(all, all, severed, FramesCome(x[1]))
    <2>1. FramesCome(x[1]) = 0
      BY <1>3, <1>4, Zenon DEF FramesCome
    <2>2. Unsevered(severed, 0) = {}
      BY DEF Unsevered
    <2>3. Cardinality({}) = 0
      BY FS_EmptySet
    <2> QED BY <1>2, <2>1, <2>2, <2>3, Zenon DEF FramesOut
  <1>11. severed \subseteq Nat /\ \A k \in severed : k <= FramesBegun(x[1])
    BY <1>5
  <1>12. KeptBy(Held0, all, x, severed, all)
    BY <1>6, <1>7, <1>8, <1>9, <1>10, <1>11, Zenon DEF KeptBy
  <1>13. Stream = x
    BY <1>3, <1>4, <1>5, Zenon DEF Stream
  <1> QED BY <1>5, <1>12, <1>13, Zenon DEF FramesKept

\* A frame is formed as its header says.
LEMMA FramedIsFormed ==
    ASSUME NEW content \in Seq(Nat), NEW seq \in Nat
    PROVE  /\ Framed(content, seq) \in Seq(Nat)
           /\ Len(Framed(content, seq)) >= header_len
           /\ Framed(content, seq)[header_len] = Len(Framed(content, seq)) - header_len
  <1>1. PICK l \in Nat : l = Len(content)
    OBVIOUS
  <1>2. PICK s \in Seq(Nat) : s = <<seq, l>> /\ 2 = Len(s) /\ s[2] = l
    <2>1. <<seq, l>> \in Seq(Nat) /\ 2 = Len(<<seq, l>>) /\ <<seq, l>>[2] = l
      BY <1>1
    <2> QED BY <2>1, Zenon
  <1>3. PICK y \in Seq(Nat) : AreJoined(y, s, content, 2, l)
    BY <1>1, <1>2, NumberedJoined
  <1>4. y = Framed(content, seq)
    BY <1>1, <1>2, <1>3, Zenon DEF Framed, AreJoined
  <1>5. Len(y) = 2 + l /\ y[2] = s[2]
    <2>1. 2 \in 1 .. 2
      OBVIOUS
    <2> QED BY <1>3, <2>1, Zenon DEF AreJoined
  <1>6. 2 + l >= 2 /\ (2 + l) - 2 = l
    BY <1>1
  <1> QED BY <1>2, <1>4, <1>5, <1>6 DEF header_len

\* A step keeps FramesKept.
LEMMA FramesKeptBySteps == FramesKept /\ [NanolinkNext]_nanolinkVars => FramesKept'
  <1> SUFFICES ASSUME FramesKept, [NanolinkNext]_nanolinkVars PROVE FramesKept'
    OBVIOUS
  <1>1. /\ waiting \in Seq(StreamByte)
        /\ KeptBy(Held0, transmitted, Append(waiting, StreamEnd(transmitted)), severed,
                  defragmented)
        /\ FramesFormed(transmitted)
    BY DEF FramesKept, KeptBy, Stream
  <1>2. SUFFICES /\ waiting' \in Seq(StreamByte)
                 /\ KeptBy(Held0', transmitted', Append(waiting', StreamEnd(transmitted')),
                           severed', defragmented')
    BY Zenon DEF FramesKept, Stream, KeptBy, FramesFormed, FrameStream, InStep, FramesOut
  <1>3. ASSUME NEW content \in Contents, TransmitFrame(content)
        PROVE  /\ waiting' \in Seq(StreamByte)
               /\ KeptBy(Held0', transmitted', Append(waiting', StreamEnd(transmitted')),
                         severed', defragmented')
    <2>0. Len(transmitted) \in Nat /\ Len(transmitted) < MaxFrames
      <3>1. transmitted \in Seq(Seq(Nat))
        BY <1>1 DEF FramesFormed
      <3>2. Len(transmitted) < MaxFrames
        BY <1>3 DEF TransmitFrame
      <3> QED BY <3>1, <3>2
    <2>1. PICK N \in Nat : N = Len(transmitted) /\ N < MaxFrames
      BY <2>0, Zenon
    <2>2. content \in Seq(Nat)
      BY ContentsAssumption
    <2>3. PICK q \in Seq(Nat) : /\ q = Framed(content, N)
                                /\ Len(q) >= header_len
                                /\ q[header_len] = Len(q) - header_len
                                /\ NoSyncword(q)
      <3>1. N \in 0 .. MaxFrames - 1
        BY <2>1, ContentsAssumption
      <3> QED BY <2>2, <3>1, FramedIsFormed, ContentsAssumption
    <2>4. PICK all \in Seq(Seq(Nat)) : all = transmitted
      BY <1>1 DEF FramesFormed
    <2>5. PICK more \in Seq(Seq(Nat)) : IsBehind(more, all, q, N)
      BY <2>1, <2>4, OneBehind
    <2>6. FramesFormed(more)
      <3>1. Len(more) = N + 1 /\ more[N + 1] = q /\ \A k \in 1 .. N : more[k] = all[k]
        BY <2>5 DEF IsBehind
      <3>2. ASSUME NEW k \in 1 .. N + 1
            PROVE  /\ Len(more[k]) >= header_len
                   /\ more[k][header_len] = Len(more[k]) - header_len
                   /\ NoSyncword(more[k])
        <4>1. CASE k = N + 1
          BY <2>3, <3>1, <4>1
        <4>2. CASE k # N + 1
          <5>1. k \in 1 .. N /\ k \in 1 .. Len(all)
            BY <2>1, <2>4, <4>2
          <5>2. more[k] = all[k]
            BY <3>1, <5>1
          <5> QED BY <1>1, <2>4, <5>1, <5>2 DEF FramesFormed
        <4> QED BY <4>1, <4>2
      <3> QED BY <3>1, <3>2, Zenon DEF FramesFormed
    <2>7. transmitted' = more
      BY <1>3, <2>1, <2>3, <2>4, <2>5, Zenon DEF TransmitFrame, IsBehind
    <2>8. waiting' = waiting \o FrameMarks(q, N + 1)
      BY <1>3, <2>1, <2>3, Zenon DEF TransmitFrame, FrameMarks
    <2>9. Held0' = Held0 /\ severed' = severed /\ defragmented' = defragmented
      BY <1>3 DEF TransmitFrame, Held0
    <2>10. waiting \o FrameMarks(q, N + 1) \in Seq(StreamByte)
      <3>1. FrameMarks(q, N + 1) \in Seq(StreamByte)
        BY FrameMarked
      <3> QED BY <1>1, <3>1
    <2>11. KeptBy(Held0, more, Append(waiting \o FrameMarks(q, N + 1), StreamEnd(more)), severed,
                  defragmented)
      BY <1>1, <2>1, <2>4, <2>5, <2>6, KeptWithFrame
    <2> QED BY <2>7, <2>8, <2>9, <2>10, <2>11, Zenon
  <1>4. ASSUME TransmitFill
        PROVE  /\ waiting' \in Seq(StreamByte)
               /\ KeptBy(Held0', transmitted', Append(waiting', StreamEnd(transmitted')),
                         severed', defragmented')
    <2>1. /\ waiting' = Append(waiting, StreamEnd(transmitted)) /\ transmitted' = transmitted
          /\ severed' = severed /\ defragmented' = defragmented /\ Held0' = Held0
      BY <1>4 DEF TransmitFill, StreamEnd, Held0
    <2>2. Append(waiting, StreamEnd(transmitted)) \in Seq(StreamByte)
      BY <1>1 DEF KeptBy, FrameStream
    <2>3. KeptBy(Held0, transmitted,
                 Append(Append(waiting, StreamEnd(transmitted)), StreamEnd(transmitted)),
                 severed, defragmented)
      BY <1>1, KeptWithFill
    <2> QED BY <2>1, <2>2, <2>3, Zenon
  <1>5. ASSUME NEW n \in 1 .. Len(waiting), ReceivePdu(n)
        PROVE  /\ waiting' \in Seq(StreamByte)
               /\ KeptBy(Held0', transmitted', Append(waiting', StreamEnd(transmitted')),
                         severed', defragmented')
    <2>1. PICK g : g = defragment(Taking(Held0, [i \in 1 .. n |-> waiting[i].byte]))
      OBVIOUS
    <2>2. Taking(Held0, [i \in 1 .. n |-> waiting[i].byte]) =
            [in_frame |-> in_frame, current |-> current, remain |-> remain,
             in0 |-> [i \in 1 .. n |-> waiting[i].byte], published |-> <<>>]
      BY DEF Taking, Held0
    <2>3. /\ in_frame' = g.in_frame /\ current' = g.current /\ remain' = g.remain
          /\ defragmented' = defragmented \o g.published
      BY <1>5, <2>1, <2>2, Zenon DEF ReceivePdu, handle_pdu
    <2>4. /\ waiting' = From(waiting, n) /\ transmitted' = transmitted
          /\ severed' = CutWith(waiting, n, severed)
      BY <1>5 DEF ReceivePdu, CutWith
    <2>5. Held0' = HeldBy(g)
      BY <2>3 DEF Held0, HeldBy
    <2>6. KeptBy(HeldBy(g), transmitted, Append(From(waiting, n), StreamEnd(transmitted)),
                 CutWith(waiting, n, severed), defragmented \o g.published)
      BY <1>1, <2>1, KeptWithPdu
    <2>7. From(waiting, n) \in Seq(StreamByte)
      BY <1>1, BytesLeft
    <2> QED BY <2>3, <2>4, <2>5, <2>6, <2>7, Zenon
  <1>6. CASE UNCHANGED nanolinkVars
    BY <1>1, <1>6, Zenon DEF nanolinkVars, Held0
  <1> QED BY <1>3, <1>4, <1>5, <1>6 DEF NanolinkNext

\* The frames due are those that have come before the first byte of the stream, without the
\* severed.
LEMMA DueHaveCome ==
    FramesKept => FramesDue = Unsevered(severed, FramesCome(Stream[1]))
  <1> SUFFICES ASSUME FramesKept PROVE FramesDue = Unsevered(severed, FramesCome(Stream[1]))
    OBVIOUS
  <1>1. PICK w \in Seq(StreamByte) : w = waiting
    BY DEF FramesKept
  <1>2. PICK all \in Seq(Seq(Nat)) : all = transmitted
    BY DEF FramesKept, KeptBy, FramesFormed
  <1>3. PICK a, N \in Nat : a = Len(w) /\ N = Len(all)
    BY <1>1, <1>2
  <1>4. PICK end \in StreamByte : end = StreamEnd(all) /\ end.at = 0 /\ end.frame = N
    <2>1. StreamEnd(all) = [byte |-> FillByte, frame |-> N, at |-> 0]
      BY <1>3, Zenon DEF StreamEnd
    <2>2. [byte |-> FillByte, frame |-> N, at |-> 0] \in StreamByte
      BY DEF StreamByte, FillByte
    <2> QED BY <2>1, <2>2
  <1>5. PICK x \in Seq(StreamByte) : IsBehind(x, w, end, a)
    BY <1>3, OneBehind
  <1>6. /\ x = Stream /\ Len(x) = a + 1 /\ x[a + 1] = end /\ \A i \in 1 .. a : x[i] = w[i]
    BY <1>1, <1>2, <1>4, <1>5, Zenon DEF IsBehind, Stream
  <1>7. FrameStream(x, all)
    BY <1>2, <1>6, Zenon DEF FramesKept, KeptBy
  <1>8. /\ \A i \in 1 .. a + 1 : x[i] \in StreamByte /\ OfFrame(x[i], all)
        /\ \A i \in 1 .. a : GoesOn(x[i], x[i + 1], all)
    <2>1. (a + 1) - 1 = a
      OBVIOUS
    <2>2. \A i \in 1 .. a + 1 : x[i] \in StreamByte
      BY <1>6
    <2> QED BY <1>6, <1>7, <2>1, <2>2, Zenon DEF FrameStream
  <1>9. ASSUME NEW i \in 1 .. a + 1
        PROVE  FramesCome(x[i]) \in Int /\ FramesCome(x[1]) <= FramesCome(x[i])
    <2>1. 1 \in 1 .. Len(x) /\ i \in 1 .. Len(x)
      BY <1>6
    <2>2. PICK b \in StreamByte : b = x[i]
      BY <1>8
    <2>3. FramesCome(x[i]) \in Int
      <3>1. FramesCome(b) \in Int
        BY DEF StreamByte, FramesCome
      <3> QED BY <2>2, <3>1
    <2> QED BY <1>7, <2>1, <2>3, MoreFramesCome
  <1>10. PICK n \in Int : n = FramesCome(x[1]) /\ n <= N
    <2>1. 1 \in 1 .. a + 1 /\ a + 1 \in 1 .. a + 1
      OBVIOUS
    <2>2. FramesCome(x[a + 1]) = N
      BY <1>4, <1>6, Zenon DEF FramesCome
    <2> QED BY <1>9, <2>1, <2>2
  <1>11. ASSUME NEW k \in 1 .. N, NEW i \in 1 .. a, w[i].frame = k, w[i].at # 0
         PROVE  n < k
    <2>1. i \in 1 .. a + 1
      OBVIOUS
    <2>2. FramesCome(x[i]) = k - 1
      BY <1>6, <1>11, Zenon DEF FramesCome
    <2>3. n <= k - 1
      BY <1>9, <1>10, <2>1, <2>2
    <2> QED BY <2>3
  <1>12. ASSUME NEW k \in 1 .. N, \A i \in 1 .. a : w[i].frame = k => w[i].at = 0, n < k
         PROVE  FALSE
    <2>1. PICK S : S = {i \in 0 .. a : FramesCome(x[i + 1]) < k}
      OBVIOUS
    <2>2. 0 \in S
      <3>1. 0 \in 0 .. a /\ 0 + 1 = 1
        OBVIOUS
      <3> QED BY <1>10, <1>12, <2>1, <3>1
    <2>3. ASSUME NEW j \in 1 .. a, j - 1 \in S PROVE j \in S
      <3>1. j \in 1 .. a + 1 /\ j + 1 \in 1 .. a + 1 /\ (j - 1) + 1 = j /\ j \in 0 .. a
        OBVIOUS
      <3>2. PICK b, c \in StreamByte : b = x[j] /\ c = x[j + 1]
        BY <1>8, <3>1
      <3>3. GoesOn(b, c, all) /\ (b.frame = k => b.at = 0)
        BY <1>6, <1>8, <1>12, <3>2
      <3>4. PICK f, p, g, t \in Nat : f = b.frame /\ p = b.at /\ g = c.frame /\ t = c.at
        BY DEF StreamByte
      <3>5. FramesCome(b) < k
        BY <2>1, <2>3, <3>1, <3>2
      <3>6. \/ g = f /\ t = 0
            \/ g = f + 1 /\ t = 1
            \/ p # 0 /\ g = f /\ t = p + 1
        <4>1. FrameEnds(b, all) \/ b.at # 0
          BY DEF FrameEnds
        <4> QED BY <3>3, <3>4, <4>1, Zenon DEF GoesOn
      <3>7. /\ FramesCome(b) = IF p = 0 THEN f ELSE f - 1
            /\ FramesCome(c) = IF t = 0 THEN g ELSE g - 1
        BY <3>4, Zenon DEF FramesCome
      <3>8. FramesCome(c) < k
        BY <3>3, <3>4, <3>5, <3>6, <3>7
      <3> QED BY <2>1, <3>1, <3>2, <3>8
    <2>4. \A j \in 0 .. a : j \in S
      BY <2>2, <2>3, StepByStep
    <2>5. a \in 0 .. a
      OBVIOUS
    <2>6. FramesCome(x[a + 1]) < k
      BY <2>1, <2>4, <2>5
    <2>7. FramesCome(x[a + 1]) = N
      BY <1>4, <1>6, Zenon DEF FramesCome
    <2> QED BY <2>6, <2>7
  <1>13. DOMAIN transmitted = 1 .. N /\ DOMAIN waiting = 1 .. a
    BY <1>1, <1>2, <1>3, NoElement
  <1>14. ASSUME NEW k
         PROVE  k \in FramesDue <=> k \in Unsevered(severed, n)
    <2>1. k \in FramesDue <=> /\ k \in 1 .. N /\ k \notin severed
                              /\ \A i \in 1 .. a : w[i].frame = k => w[i].at = 0
      BY <1>1, <1>13, Zenon DEF FramesDue
    <2>2. k \in Unsevered(severed, n) <=> k \in 1 .. n /\ k \notin severed
      BY Zenon DEF Unsevered
    <2>3. k \in 1 .. n <=> k \in 1 .. N /\ ~ (n < k)
      BY <1>10
    <2>4. k \in 1 .. N => (n < k <=> ~ \A i \in 1 .. a : w[i].frame = k => w[i].at = 0)
      BY <1>11, <1>12, Zenon
    <2> QED BY <2>1, <2>2, <2>3, <2>4, Zenon
  <1> QED BY <1>6, <1>10, <1>14

\* The frames kept are those due, each at its place.
LEMMA KeptAreDue == FramesKept => OnlySeveredLost
  <1> SUFFICES ASSUME FramesKept PROVE OnlySeveredLost
    OBVIOUS
  <1>1. PICK n : n = FramesCome(Stream[1]) /\ FramesDue = Unsevered(severed, n)
    BY DueHaveCome
  <1>2. /\ Len(defragmented) = Cardinality(Unsevered(severed, n))
        /\ \A k \in Unsevered(severed, n) :
              defragmented[Cardinality(Unsevered(severed, k))] = transmitted[k]
    BY <1>1, Zenon DEF FramesKept, KeptBy, FramesOut
  <1>3. ASSUME NEW k \in Unsevered(severed, n)
        PROVE  {j \in Unsevered(severed, n) : j <= k} = Unsevered(severed, k)
    <2>1. PICK m \in Int : m = n
      <3>1. FrameStream(Stream, transmitted)
        BY DEF FramesKept, KeptBy
      <3>2. 1 \in 1 .. Len(Stream)
        BY <3>1 DEF FrameStream
      <3>3. Stream[1] \in StreamByte
        BY <3>1, <3>2 DEF FrameStream
      <3> QED BY <1>1, <3>3 DEF StreamByte, FramesCome
    <2>2. k \in 1 .. m
      BY <2>1 DEF Unsevered
    <2>3. \A j \in 1 .. m : j <= k <=> j \in 1 .. k
      BY <2>2
    <2>4. \A j \in 1 .. k : j \in 1 .. m
      BY <2>2
    <2> QED BY <2>1, <2>3, <2>4 DEF Unsevered
  <1> QED BY <1>1, <1>2, <1>3, Zenon DEF OnlySeveredLost

\* The block, the bytes to come and what was published agree in every state, however the
\* stream is cut into PDUs and whatever the frames hold.
THEOREM FramesAreKept == NanolinkSpec => []FramesKept
  <1> QED BY NoFramesYet, FramesKeptBySteps, PTL DEF NanolinkSpec

\* A frame whose syncword is in two PDUs is lost, and no other is: each comes out once,
\* whole and in order.
THEOREM OnlySeveredAreLost == NanolinkSpec => []OnlySeveredLost
  <1> QED BY FramesAreKept, KeptAreDue, PTL
==============================================================================

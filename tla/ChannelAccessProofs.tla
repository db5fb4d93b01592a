-------------------------- MODULE ChannelAccessProofs --------------------------
(***************************************************************************)
(* Carrier sensing is right for packets of every length, cut in every way.  *)
(*                                                                          *)
(* Packets tile what upstream has written (Tiling): every item belongs to   *)
(* exactly one packet.  So the last item a call lets through says which     *)
(* packet is in flight afterwards, and d_remaining_items is what that       *)
(* packet has left (RemainingIsExact).  With that, the minimum taken in     *)
(* general_work cannot reach the next packet.                               *)
(*                                                                          *)
(* The messages of the carrier are those of the changes of the level        *)
(* (ChangesTo): one block appends to them, the other drops them.            *)
(***************************************************************************)
EXTENDS ChannelAccess, TLAPS

\* The item at offset p is one of the packet of t.
Holds(t, p) == t.offset <= p /\ p < EndOf(t)

\* The packets written so far cover the items written, once each.
Tiling ==
    /\ \A t \in tags : EndOf(t) <= written
    /\ \A t, u \in tags : t = u \/ EndOf(t) <= u.offset \/ EndOf(u) <= t.offset
    /\ \A p \in 0 .. written - 1 : \E t \in tags : Holds(t, p)

\* The inductive invariant.
IInv == TypeOK /\ Tiling /\ RemainingIsExact /\ NeverThrows

\* A packet is a nonempty interval of natural numbers.
LEMMA TagNumbers ==
    ASSUME NEW t \in Tags
    PROVE  /\ t.offset \in Nat /\ t.length \in Nat /\ t.length >= 1
           /\ EndOf(t) \in Nat /\ EndOf(t) > t.offset
           /\ EndOf(t) = t.offset + t.length
  <1>1. t.offset \in Nat /\ t.length \in PacketLens
    BY DEF Tags
  <1>2. t.length \in Nat /\ t.length # 0
    BY <1>1, PacketLensAssumption
  <1>3. PICK l \in Nat : l = t.length /\ l >= 1
    BY <1>2
  <1> QED BY <1>1, <1>3 DEF EndOf

\* Only one packet holds an item.
LEMMA HolderIsUnique ==
    ASSUME TypeOK, Tiling, NEW t \in tags, NEW u \in tags, NEW p \in Int,
           Holds(t, p), Holds(u, p)
    PROVE  t = u
  <1>1. t \in Tags /\ u \in Tags
    BY DEF TypeOK
  <1>2. /\ t.offset \in Nat /\ EndOf(t) \in Nat
        /\ u.offset \in Nat /\ EndOf(u) \in Nat
    BY <1>1, TagNumbers
  <1>3. t = u \/ EndOf(t) <= u.offset \/ EndOf(u) <= t.offset
    BY DEF Tiling
  <1> QED BY <1>2, <1>3 DEF Holds

\* What a call lets through is at most what it was given, and under a carrier it
\* stays inside the packet in flight unless back-to-back packets have priority.
LEMMA PropagateBounds ==
    ASSUME TypeOK, NEW n \in Nat
    PROVE  /\ num_propagate(n) \in 0 .. n
           /\ d_carrier_sense /\ d_remaining_items = 0 => num_propagate(n) = 0
           /\ d_carrier_sense /\ ~ d_back_to_back_priority
                => num_propagate(n) <= d_remaining_items
  BY DEF TypeOK, num_propagate, Min2

\* After letting through num items that end inside or at the end of packet t, the
\* counter is what t has left, and there was something to continue.
LEMMA WorkIsExact ==
    ASSUME IInv, NEW num \in Nat, num >= 1, nitems_read + num <= written
    PROVE  /\ ~ NothingToContinue(num)
           /\ \E t \in tags :
                /\ Holds(t, nitems_read + num - 1)
                /\ RemainingAfter(num) = EndOf(t) - (nitems_read + num)
  <1> DEFINE last == nitems_read + num - 1
  <1>1. /\ nitems_read \in Nat /\ written \in Nat /\ d_remaining_items \in Nat
        /\ tags \subseteq Tags
    BY DEF IInv, TypeOK
  <1>2. last \in 0 .. written - 1 /\ nitems_read \in 0 .. written - 1
    BY <1>1
  <1>3. PICK t \in tags : Holds(t, last)
    BY <1>2 DEF IInv, Tiling
  <1>4. t \in Tags /\ t.offset \in Nat /\ EndOf(t) \in Nat
    BY <1>1, TagNumbers
  <1>5. CASE TagsInRange(num) # {}
    \* Of the packets that begin in the range, t is the last one.
    <2>1. \A u \in TagsInRange(num) :
             u \in tags /\ u.offset >= nitems_read /\ u.offset <= last /\ u.offset \in Nat
      <3>1. \A u \in TagsInRange(num) : u \in Tags /\ u \in tags /\ u.offset >= nitems_read
                                          /\ u.offset < nitems_read + num
        BY <1>1 DEF TagsInRange
      <3>2. \A u \in TagsInRange(num) : u.offset \in Nat
        BY <3>1, TagNumbers
      <3> QED BY <1>1, <3>1, <3>2
    <2>2. \A u \in TagsInRange(num) : u.offset <= t.offset
      <3> SUFFICES ASSUME NEW u \in TagsInRange(num), ~ (u.offset <= t.offset)
                   PROVE  FALSE
        OBVIOUS
      <3>1. u.offset \in Int /\ u.offset \in Nat /\ u.offset <= last /\ u \in tags /\ u \in Tags
        BY <1>1, <2>1
      <3>2. Holds(t, u.offset)
        BY <1>1, <1>3, <1>4, <3>1 DEF Holds
      <3>3. Holds(u, u.offset)
        BY <3>1, TagNumbers DEF Holds
      <3>4. t = u
        BY <3>1, <3>2, <3>3, HolderIsUnique DEF IInv
      <3> QED BY <1>4, <3>1, <3>4
    <2>3. t \in TagsInRange(num)
      <3>1. PICK u \in TagsInRange(num) : TRUE
        BY <1>5
      <3>2. t.offset >= nitems_read
        BY <1>1, <1>4, <2>1, <2>2, <3>1
      <3>3. t.offset < nitems_read + num
        BY <1>1, <1>3, <1>4 DEF Holds
      <3> QED BY <3>2, <3>3 DEF TagsInRange
    <2>4. ASSUME NEW u \in TagsInRange(num), \A v \in TagsInRange(num) : v.offset <= u.offset
          PROVE  u = t
      <3>1. u \in tags /\ u \in Tags /\ u.offset \in Nat
        BY <1>1, <2>1
      <3>2. u.offset = t.offset
        BY <1>4, <2>2, <2>3, <2>4, <3>1
      <3>3. Holds(u, t.offset) /\ Holds(t, t.offset)
        BY <1>4, <3>1, <3>2, TagNumbers DEF Holds
      <3> QED BY <1>4, <3>1, <3>3, HolderIsUnique DEF IInv
    <2>5. TagThatCounts(TagsInRange(num)) = t
      BY <2>2, <2>3, <2>4 DEF TagThatCounts
    <2> QED BY <1>3, <1>5, <2>5 DEF RemainingAfter, NothingToContinue
  <1>6. CASE TagsInRange(num) = {}
    \* All the items belong to the packet that was in flight.
    <2>1. t.offset < nitems_read
      <3>1. t.offset < nitems_read + num
        BY <1>1, <1>3, <1>4 DEF Holds
      <3>2. ~ (t.offset >= nitems_read)
        BY <1>6, <3>1 DEF TagsInRange
      <3> QED BY <1>1, <1>4, <3>2
    <2>2. InFlight(t) /\ nitems_read + num <= EndOf(t)
      BY <1>1, <1>3, <1>4, <2>1 DEF InFlight, Holds
    <2>3. d_remaining_items = EndOf(t) - nitems_read
      BY <2>2 DEF IInv, RemainingIsExact
    <2>4. ~ (num > d_remaining_items)
      BY <1>1, <1>4, <2>2, <2>3
    <2>5. RemainingAfter(num) = EndOf(t) - (nitems_read + num)
      BY <1>1, <1>4, <1>6, <2>3 DEF RemainingAfter
    <2> QED BY <1>3, <2>4, <2>5 DEF NothingToContinue
  <1> QED BY <1>5, <1>6

------------------------------------------------------------------------------
\* At the start nothing is written and nothing is in flight.
LEMMA InitInv == Init => IInv
  <1> SUFFICES ASSUME Init PROVE IInv
    OBVIOUS
  <1> USE DEF Init, CsmaInit
  <1>1. TypeOK
    <2>1. <<>> \in Seq(BOOLEAN)
      OBVIOUS
    <2>2. carrier_msgs \in Seq(BOOLEAN)
      BY <2>1
    <2>3. /\ d_carrier_sense \in BOOLEAN /\ failed \in BOOLEAN
          /\ d_above_threshold \in BOOLEAN /\ d_back_to_back_priority \in BOOLEAN
      BY Zenon
    <2>4. /\ d_remaining_items \in Nat /\ nitems_read \in Nat /\ written \in Nat
          /\ nitems_read <= written /\ tags \subseteq Tags
      OBVIOUS
    <2> QED BY <2>2, <2>3, <2>4, Zenon DEF TypeOK
  <1>2. Tiling
    BY DEF Tiling
  <1>3. RemainingIsExact /\ NeverThrows
    BY DEF RemainingIsExact, NeverThrows
  <1> QED BY <1>1, <1>2, <1>3 DEF IInv

\* A new packet begins where the last one ends.
LEMMA UpstreamInv == IInv /\ Upstream => IInv'
  <1> SUFFICES ASSUME IInv, NEW l \in PacketLens, WritePacket(l),
                      UNCHANGED d_above_threshold
               PROVE  IInv'
    BY DEF Upstream
  <1> DEFINE new == [offset |-> written, length |-> l]
  <1>1. l \in Nat /\ l >= 1
    <2>1. l \in Nat /\ l # 0
      BY PacketLensAssumption
    <2> QED BY <2>1
  <1>2. /\ tags' = tags \cup {new}
        /\ written' = written + l
        /\ UNCHANGED <<d_back_to_back_priority, d_carrier_sense, d_remaining_items,
                       nitems_read, carrier_msgs, failed>>
    BY DEF WritePacket
  <1>3. /\ written \in Nat /\ nitems_read \in Nat /\ nitems_read <= written
        /\ tags \subseteq Tags
    BY DEF IInv, TypeOK
  <1>4. new \in Tags /\ EndOf(new) = written + l /\ new.offset = written
    BY <1>3 DEF Tags, EndOf
  <1>5. \A t \in tags : t.offset \in Nat /\ EndOf(t) \in Nat /\ EndOf(t) <= written
    BY <1>3, TagNumbers DEF IInv, Tiling
  <1>6. TypeOK'
    BY <1>1, <1>2, <1>3, <1>4 DEF IInv, TypeOK
  <1>7. Tiling'
    <2>1. \A t \in tags' : EndOf(t) <= written'
      BY <1>1, <1>2, <1>3, <1>4, <1>5
    <2>2. \A t, u \in tags' : t = u \/ EndOf(t) <= u.offset \/ EndOf(u) <= t.offset
      BY <1>2, <1>4, <1>5 DEF IInv, Tiling
    <2>3. ASSUME NEW p \in 0 .. written' - 1
          PROVE  \E t \in tags' : Holds(t, p)
      <3>1. CASE p < written
        BY <1>2, <1>3, <3>1 DEF IInv, Tiling
      <3>2. CASE ~ (p < written)
        <4>1. Holds(new, p)
          BY <1>1, <1>2, <1>3, <1>4, <3>2 DEF Holds
        <4> QED BY <1>2, <4>1
      <3> QED BY <3>1, <3>2
    <2> QED BY <2>1, <2>2, <2>3 DEF Tiling, Holds, EndOf
  <1>8. RemainingIsExact'
    <2>1. \A t : InFlight(t)' <=> InFlight(t)
      BY <1>2 DEF InFlight, EndOf
    <2>2. ~ InFlight(new)
      BY <1>3, <1>4 DEF InFlight
    <2> QED BY <1>2, <2>1, <2>2 DEF IInv, RemainingIsExact, EndOf
  <1>9. NeverThrows'
    BY <1>2 DEF IInv, NeverThrows
  <1> QED BY <1>6, <1>7, <1>8, <1>9 DEF IInv

\* The messages concern neither the packets nor the counter.
LEMMA MessagesInv == IInv /\ (Sense \/ Handle) => IInv'
  <1> SUFFICES ASSUME IInv, Sense \/ Handle PROVE IInv'
    OBVIOUS
  <1>1. UNCHANGED <<d_back_to_back_priority, d_remaining_items, nitems_read,
                    written, tags, failed>>
    BY DEF Sense, Handle, handle_carrier_sense
  <1>2. /\ d_carrier_sense' \in BOOLEAN
        /\ carrier_msgs' \in Seq(BOOLEAN)
        /\ d_above_threshold' \in BOOLEAN
    BY SMTT(20) DEF Sense, Handle, handle_carrier_sense, level_work, IInv, TypeOK
  <1> QED BY <1>1, <1>2 DEF IInv, TypeOK, Tiling, Holds, EndOf, RemainingIsExact,
                            InFlight, NeverThrows

\* A call of general_work keeps the counter exact, and does not throw.
LEMMA WorkInv == IInv /\ Work => IInv'
  <1> SUFFICES ASSUME IInv, NEW n \in 1 .. written - nitems_read, general_work(n),
                      UNCHANGED d_above_threshold
               PROVE  IInv'
    BY DEF Work
  <1> DEFINE num == num_propagate(n)
  <1>1. /\ written \in Nat /\ nitems_read \in Nat /\ nitems_read <= written
        /\ tags \subseteq Tags /\ d_remaining_items \in Nat
    BY DEF IInv, TypeOK
  <1>2. n \in Nat /\ num \in 0 .. n /\ nitems_read + n <= written
    <2>1. n \in Nat /\ nitems_read + n <= written
      BY <1>1
    <2> QED BY <2>1, PropagateBounds DEF IInv
  <1>3. /\ failed' = NothingToContinue(num)
        /\ IF failed' THEN UNCHANGED <<d_remaining_items, nitems_read>>
                      ELSE /\ d_remaining_items' = RemainingAfter(num)
                           /\ nitems_read' = nitems_read + num
        /\ UNCHANGED <<d_back_to_back_priority, d_carrier_sense, written, tags, carrier_msgs>>
    BY DEF general_work
  <1> HIDE DEF num
  <1>4. CASE num = 0
    <2>1. TagsInRange(num) = {}
      <3>1. \A t \in tags : t.offset \in Nat
        BY <1>1, TagNumbers
      <3> QED BY <1>1, <1>4, <3>1 DEF TagsInRange
    <2>2. ~ NothingToContinue(num) /\ RemainingAfter(num) = d_remaining_items
      BY <1>1, <1>4, <2>1 DEF NothingToContinue, RemainingAfter
    <2>3. failed' = FALSE /\ d_remaining_items' = d_remaining_items /\ nitems_read' = nitems_read
      <3>1. failed' = FALSE
        BY <1>3, <2>2 DEF NothingToContinue
      <3> QED BY <1>1, <1>3, <1>4, <2>2, <3>1
    <2> QED BY <1>3, <2>3 DEF IInv, TypeOK, Tiling, Holds, EndOf, RemainingIsExact,
                              InFlight, NeverThrows
  <1>5. CASE num # 0
    <2>1. num \in Nat /\ num >= 1 /\ nitems_read + num <= written
      BY <1>1, <1>2, <1>5
    <2>2. /\ ~ NothingToContinue(num)
          /\ \E t \in tags :
               /\ Holds(t, nitems_read + num - 1)
               /\ RemainingAfter(num) = EndOf(t) - (nitems_read + num)
      BY <2>1, WorkIsExact
    <2>3. PICK t \in tags :
            /\ Holds(t, nitems_read + num - 1)
            /\ RemainingAfter(num) = EndOf(t) - (nitems_read + num)
      BY <2>2
    <2>4. PICK r \in Nat : r = nitems_read' /\ r = nitems_read + num /\ r <= written
      BY <1>1, <1>3, <2>1, <2>2
    <2>5. d_remaining_items' = EndOf(t) - r /\ failed' = FALSE
      <3>1. failed' = FALSE
        BY <1>3, <2>2 DEF NothingToContinue
      <3> QED BY <1>3, <2>2, <2>3, <2>4, <3>1
    <2>6. t.offset \in Nat /\ EndOf(t) \in Nat /\ t.offset < r /\ r <= EndOf(t)
      <3>1. t.offset \in Nat /\ EndOf(t) \in Nat
        BY <1>1, TagNumbers
      <3> QED BY <1>1, <2>1, <2>3, <2>4, <3>1 DEF Holds
    <2>7. TypeOK'
      <3>1. EndOf(t) - r \in Nat
        BY <2>6
      <3>2. d_remaining_items' \in Nat /\ failed' \in BOOLEAN
        BY <2>5, <3>1
      <3>3. nitems_read' \in Nat /\ nitems_read' <= written'
        BY <1>3, <2>4
      <3> QED BY <1>3, <3>2, <3>3, Zenon DEF IInv, TypeOK
    <2>8. Tiling'
      BY <1>3 DEF IInv, Tiling, Holds, EndOf
    <2>9. \A u \in tags : InFlight(u)' <=> u.offset < r /\ r < EndOf(u)
      BY <2>4 DEF InFlight, EndOf
    <2>10. ASSUME NEW u \in tags, u.offset < r, r < EndOf(u)
           PROVE  u = t
      <3>1. u.offset \in Nat /\ EndOf(u) \in Nat
        BY <1>1, TagNumbers
      <3>2. PICK q \in Int : q = nitems_read + num - 1 /\ q = r - 1
        BY <1>1, <2>1, <2>4
      <3>3. Holds(u, q) /\ Holds(t, q)
        BY <2>3, <2>10, <3>1, <3>2 DEF Holds
      <3> QED BY <3>3, HolderIsUnique DEF IInv
    <2>11. (\A u \in tags : ~ InFlight(u)') => EndOf(t) - r = 0
      BY <2>6, <2>9
    <2>12. RemainingIsExact'
      BY <1>3, <2>4, <2>5, <2>9, <2>10, <2>11 DEF RemainingIsExact, EndOf
    <2>13. NeverThrows'
      BY <2>5 DEF NeverThrows
    <2> QED BY <2>7, <2>8, <2>12, <2>13 DEF IInv
  <1> QED BY <1>4, <1>5

\* The invariant holds in every state.
THEOREM Invariance == Spec => []IInv
  <1>1. Init => IInv
    BY InitInv
  <1>2. IInv /\ [Next]_vars => IInv'
    <2> SUFFICES ASSUME IInv, [Next]_vars PROVE IInv'
      OBVIOUS
    <2>1. CASE UNCHANGED vars
      BY <2>1 DEF vars, IInv, TypeOK, Tiling, Holds, EndOf, RemainingIsExact,
                  InFlight, NeverThrows
    <2>2. CASE Next
      BY <2>2, UpstreamInv, MessagesInv, WorkInv DEF Next
    <2> QED BY <2>1, <2>2
  <1> QED BY <1>1, <1>2, PTL DEF Spec

\* Types, for packets of every length.
THEOREM TypeCorrect == Spec => []TypeOK
  <1>1. IInv => TypeOK
    BY DEF IInv
  <1> QED BY <1>1, Invariance, PTL

\* d_remaining_items counts exactly what the packet in flight has left.
THEOREM RemainingCorrect == Spec => []RemainingIsExact
  <1>1. IInv => RemainingIsExact
    BY DEF IInv
  <1> QED BY <1>1, Invariance, PTL

\* The exception of general_work is unreachable on a tagged stream.
THEOREM NoException == Spec => []NeverThrows
  <1>1. IInv => NeverThrows
    BY DEF IInv
  <1> QED BY <1>1, Invariance, PTL

\* No packet starts under a carrier, but for back-to-back priority.
THEOREM CarrierRespected == Spec => NoStartUnderCarrier
  <1>1. IInv /\ [Next]_vars =>
          [\A t \in tags :
             (nitems_read <= t.offset /\ t.offset < nitems_read' /\ d_carrier_sense)
               => /\ d_back_to_back_priority
                  /\ \E u \in tags : InFlight(u)]_vars
    <2> SUFFICES ASSUME IInv, Next, NEW t \in tags,
                        nitems_read <= t.offset, t.offset < nitems_read', d_carrier_sense
                 PROVE  d_back_to_back_priority /\ \E u \in tags : InFlight(u)
      BY Zenon
    <2>1. /\ written \in Nat /\ nitems_read \in Nat /\ nitems_read <= written
          /\ tags \subseteq Tags /\ d_remaining_items \in Nat
          /\ d_back_to_back_priority \in BOOLEAN
      BY DEF IInv, TypeOK
    <2>2. t.offset \in Nat
      BY <2>1, TagNumbers
    <2>3. nitems_read' # nitems_read
      BY <2>1, <2>2
    <2>4. PICK n \in 1 .. written - nitems_read : general_work(n)
      BY <2>3 DEF Next, Upstream, WritePacket, Sense, Handle, handle_carrier_sense, Work
    <2>5. n \in Nat
      BY <2>1
    <2>6. PICK num \in 0 .. n :
            /\ d_remaining_items = 0 => num = 0
            /\ ~ d_back_to_back_priority => num <= d_remaining_items
            /\ nitems_read' = nitems_read + num
      <3>1. nitems_read' = nitems_read + num_propagate(n)
        BY <2>3, <2>4 DEF general_work
      <3> QED BY <2>5, <3>1, PropagateBounds DEF IInv
    <2>7. d_remaining_items # 0
      BY <2>1, <2>3, <2>6
    <2>8. PICK u \in tags : InFlight(u)
      BY <2>7 DEF IInv, RemainingIsExact
    <2>9. ASSUME ~ d_back_to_back_priority PROVE FALSE
      <3>1. d_remaining_items = EndOf(u) - nitems_read
        BY <2>8 DEF IInv, RemainingIsExact
      <3>2. u.offset \in Nat /\ EndOf(u) \in Nat /\ EndOf(t) \in Nat /\ EndOf(t) > t.offset
        BY <2>1, TagNumbers
      <3>3. nitems_read <= t.offset /\ t.offset < nitems_read + num
        BY <2>6
      <3>4. Holds(u, t.offset) /\ Holds(t, t.offset)
        BY <2>1, <2>2, <2>6, <2>8, <2>9, <3>1, <3>2, <3>3 DEF Holds, InFlight
      <3>5. u = t
        BY <2>2, <3>4, HolderIsUnique DEF IInv
      <3> QED BY <2>1, <2>2, <2>8, <3>2, <3>3, <3>5 DEF InFlight
    <2> QED BY <2>1, <2>8, <2>9
  <1> QED BY <1>1, Invariance, PTL DEF Spec, NoStartUnderCarrier

------------------------------------------------------------------------------
\* The values of a sequence change from one to the next, and l is the last.
ChangesTo(s, l) ==
    /\ Len(s) >= 1
    /\ s[Len(s)] = l
    /\ \A i \in 1 .. Len(s) - 1 : s[i] # s[i + 1]

\* Another value at the end is one more change.
LEMMA AppendChanges ==
    ASSUME NEW S, NEW s \in Seq(S), NEW l \in S, NEW x \in S,
           ChangesTo(s, l), x # l
    PROVE  ChangesTo(Append(s, x), x)
  <1>1. PICK n \in Nat : n = Len(s)
    OBVIOUS
  <1>2. /\ Len(Append(s, x)) = n + 1
        /\ Append(s, x)[n + 1] = x
        /\ \A i \in 1 .. n : Append(s, x)[i] = s[i]
    BY <1>1
  <1> QED BY <1>1, <1>2 DEF ChangesTo

\* The first value is dropped; the others change as before.
LEMMA DropChanges ==
    ASSUME NEW S, NEW s \in Seq(S), NEW c \in S, NEW l \in S,
           ChangesTo(<<c>> \o s, l), s # <<>>
    PROVE  ChangesTo(<<Head(s)>> \o Tail(s), l)
  <1>1. PICK n \in Nat : n = Len(s) /\ n >= 1
    OBVIOUS
  <1>2. /\ Len(<<c>> \o s) = n + 1
        /\ \A i \in 1 .. n : (<<c>> \o s)[i + 1] = s[i]
    BY <1>1
  <1>3. Len(<<Head(s)>> \o Tail(s)) = n /\ \A i \in 1 .. n : (<<Head(s)>> \o Tail(s))[i] = s[i]
    <2>1. Tail(s) \in Seq(S) /\ Len(Tail(s)) = n - 1 /\ \A i \in 1 .. n - 1 : Tail(s)[i] = s[i + 1]
      BY <1>1
    <2>2. Head(s) = s[1] /\ Head(s) \in S
      BY <1>1
    <2>3. (<<Head(s)>> \o Tail(s))[1] = s[1]
      BY <2>1, <2>2
    <2>4. ASSUME NEW i \in 2 .. n PROVE (<<Head(s)>> \o Tail(s))[i] = s[i]
      BY <1>1, <2>1, <2>2
    <2> QED BY <1>1, <2>1, <2>2, <2>3, <2>4
  <1>4. s[n] = l /\ \A i \in 1 .. n - 1 : s[i] # s[i + 1]
    BY <1>1, <1>2 DEF ChangesTo
  <1> QED BY <1>1, <1>3, <1>4 DEF ChangesTo

\* The inductive invariant of the carrier messages: the carrier the transmitter knows of,
\* the messages on their way and the level are one sequence of changes.
CarrierIInv ==
    /\ d_carrier_sense \in BOOLEAN
    /\ d_above_threshold \in BOOLEAN
    /\ carrier_msgs \in Seq(BOOLEAN)
    /\ ChangesTo(<<d_carrier_sense>> \o carrier_msgs, d_above_threshold)

\* No change of the level is lost and none is sent twice, however many messages wait
\* (level_to_message_impl::work, packet_csma_impl::handle_carrier_sense).
THEOREM CarrierFollowed == Spec => []CarrierFollowsLevel
  <1>1. Init => CarrierIInv
    <2> SUFFICES ASSUME Init PROVE CarrierIInv
      OBVIOUS
    <2>1. d_carrier_sense = FALSE /\ d_above_threshold = FALSE /\ carrier_msgs = <<>>
      BY DEF Init, CsmaInit
    <2>2. <<FALSE>> \o <<>> = <<FALSE>>
      OBVIOUS
    <2>3. ChangesTo(<<FALSE>>, FALSE)
      BY DEF ChangesTo
    <2>4. <<>> \in Seq(BOOLEAN)
      OBVIOUS
    <2> QED BY <2>1, <2>2, <2>3, <2>4, Zenon DEF CarrierIInv
  <1>2. CarrierIInv /\ [Next]_vars => CarrierIInv'
    <2> SUFFICES ASSUME CarrierIInv, [Next]_vars PROVE CarrierIInv'
      OBVIOUS
    <2>1. CASE UNCHANGED <<d_carrier_sense, d_above_threshold, carrier_msgs>>
      BY <2>1 DEF CarrierIInv, ChangesTo
    <2>2. ASSUME NEW above \in BOOLEAN, above # d_above_threshold,
                 d_above_threshold' = above, carrier_msgs' = Append(carrier_msgs, above),
                 UNCHANGED d_carrier_sense
          PROVE  CarrierIInv'
      <3>1. ChangesTo(Append(<<d_carrier_sense>> \o carrier_msgs, above), above)
        <4>1. <<d_carrier_sense>> \o carrier_msgs \in Seq(BOOLEAN)
          BY DEF CarrierIInv
        <4>2. /\ d_above_threshold \in BOOLEAN /\ above \in BOOLEAN
              /\ ChangesTo(<<d_carrier_sense>> \o carrier_msgs, d_above_threshold)
          BY <2>2 DEF CarrierIInv
        <4>3. \A s \in Seq(BOOLEAN) : \A l, x \in BOOLEAN :
                ChangesTo(s, l) /\ x # l => ChangesTo(Append(s, x), x)
          BY AppendChanges
        <4> QED BY <2>2, <4>1, <4>2, <4>3, Zenon
      <3>2. Append(<<d_carrier_sense>> \o carrier_msgs, above)
              = <<d_carrier_sense>> \o Append(carrier_msgs, above)
        BY DEF CarrierIInv
      <3>3. Append(carrier_msgs, above) \in Seq(BOOLEAN)
        BY DEF CarrierIInv
      <3> QED BY <2>2, <3>1, <3>2, <3>3, Zenon DEF CarrierIInv
    <2>3. CASE Handle
      <3>1. /\ carrier_msgs # <<>> /\ carrier_msgs \in Seq(BOOLEAN)
            /\ d_carrier_sense' = Head(carrier_msgs) /\ carrier_msgs' = Tail(carrier_msgs)
            /\ d_above_threshold' = d_above_threshold
        BY <2>3 DEF Handle, handle_carrier_sense, CarrierIInv
      <3>2. ChangesTo(<<Head(carrier_msgs)>> \o Tail(carrier_msgs), d_above_threshold)
        BY <3>1, DropChanges, Zenon DEF CarrierIInv
      <3>3. Head(carrier_msgs) \in BOOLEAN /\ Tail(carrier_msgs) \in Seq(BOOLEAN)
        BY <3>1
      <3> QED BY <3>1, <3>2, <3>3, Zenon DEF CarrierIInv
    <2>4. CASE Sense
      BY <2>1, <2>2, <2>4 DEF Sense, level_work
    <2>5. CASE Upstream
      BY <2>1, <2>5 DEF Upstream, WritePacket
    <2>6. CASE Work
      BY <2>1, <2>6 DEF Work, general_work
    <2>7. CASE UNCHANGED vars
      BY <2>1, <2>7 DEF vars
    <2> QED BY <2>3, <2>4, <2>5, <2>6, <2>7 DEF Next
  <1>3. CarrierIInv => CarrierFollowsLevel
    BY DEF CarrierIInv, CarrierFollowsLevel, ChangesTo
  <1> QED BY <1>1, <1>2, <1>3, PTL DEF Spec
==============================================================================

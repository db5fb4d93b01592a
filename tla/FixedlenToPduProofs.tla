-------------------------- MODULE FixedlenToPduProofs --------------------------
(***************************************************************************)
(* FixedlenToPdu keeps the promise of TaggedPackets for every packet        *)
(* length, every stream and every way of cutting it into calls of work().   *)
(*                                                                          *)
(* The ring invariant (HistoryHoldsStream) says where each recent item is.  *)
(* A packet that is still pending has not ended, so it began at most        *)
(* d_packetlen - 1 items ago (Bookkeeping): the ring holds all it has had,  *)
(* and the copy that work() chooses finds its items in order.               *)
(***************************************************************************)
EXTENDS FixedlenToPdu, TLAPS

\* What the lists of packets have to do with what was tagged and published.
Bookkeeping ==
    /\ \A p \in tagged : p.offset < nitems_read
    /\ d_packet_infos = {p \in tagged : ~ (p.offset + p.length <= nitems_read)}
    /\ published = {Promise!PduOf(p) : p \in Promise!CompleteBy(tagged, nitems_read)}

\* The inductive invariant.
IInv == TypeOK /\ HistoryHoldsStream /\ Bookkeeping

\* The input buffer of a call with n items.
Buffer(n) == [k \in 0 .. n - 1 |-> nitems_read + k]

\* A tag never announces more items than a packet holds.
LEMMA PacketLengthBounded ==
    ASSUME TypeOK, NEW v
    PROVE  PacketLength(v) \in 0 .. d_packetlen
  BY SizesAssumption DEF PacketLength, TypeOK

\* The announced packets are well formed and start in the window.
LEMMA NewInfosInWindow ==
    ASSUME TypeOK, NEW n \in Nat, NEW starts \in SUBSET Window(n),
           NEW tag \in [starts -> LengthTags \cup {NoLengthTag}]
    PROVE  /\ NewInfos(tag) \subseteq Infos
           /\ \A p \in NewInfos(tag) : /\ p.length <= d_packetlen
                                       /\ p.offset >= nitems_read
                                       /\ p.offset < nitems_read + n
  <1> SUFFICES ASSUME NEW o \in DOMAIN tag
               PROVE  LET p == [offset |-> o, length |-> PacketLength(tag[o])]
                      IN  /\ p \in Infos
                          /\ p.length <= d_packetlen
                          /\ p.offset >= nitems_read
                          /\ p.offset < nitems_read + n
    BY DEF NewInfos
  <1>1. o \in nitems_read .. nitems_read + n - 1
    BY DEF Window
  <1>2. PacketLength(tag[o]) \in 0 .. d_packetlen
    BY PacketLengthBounded
  <1>3. d_packetlen \in Nat /\ nitems_read \in Nat
    BY SizesAssumption DEF TypeOK
  <1> QED BY <1>1, <1>2, <1>3 DEF Infos

\* Each of the three copies gathers the items of the packet, in order.
LEMMA CopyIsRight ==
    ASSUME TypeOK, HistoryHoldsStream, NEW n \in Nat, NEW p \in Infos,
           p.length <= d_packetlen,
           p.offset + p.length <= nitems_read + n,
           p.offset >= nitems_read \/ p.offset + p.length > nitems_read
    PROVE  d_packet(p, Buffer(n)) = [i \in 0 .. p.length - 1 |-> p.offset + i]
  <1> DEFINE H == d_packetlen - 1
             o == p.offset
             l == p.length
  <1>0. /\ d_packetlen \in Nat /\ d_packetlen >= 1
        /\ nitems_read \in Nat /\ d_write_ptr \in Nat
        /\ d_write_ptr < H \/ d_write_ptr = 0
        /\ o \in Nat /\ l \in Nat
    BY SizesAssumption DEF TypeOK, Infos, HistoryItems
  <1>1. \A k \in Int : k >= 1 /\ k <= H /\ k <= nitems_read =>
            d_history[Slot(k)] = nitems_read - k
    BY <1>0 DEF HistoryHoldsStream, HistoryItems
  <1>2. \A k \in 0 .. n - 1 : Buffer(n)[k] = nitems_read + k
    BY DEF Buffer
  <1>3. CASE o >= nitems_read
    <2> SUFFICES ASSUME NEW i \in 0 .. l - 1
                 PROVE  Buffer(n)[o - nitems_read + i] = o + i
      BY <1>3 DEF d_packet, FromInput
    <2> QED BY <1>0, <1>2, <1>3
  <1>4. CASE o < nitems_read /\ d_write_ptr + o >= nitems_read
    <2> DEFINE start == d_write_ptr + o - nitems_read
               len   == Min2(d_write_ptr - start, l)
    <2>1. len = IF nitems_read - o <= l THEN nitems_read - o ELSE l
      BY <1>0, <1>4 DEF Min2
    <2>0. d_packet(p, Buffer(n)) =
            [i \in 0 .. l - 1 |->
                IF i < len THEN d_history[start + i] ELSE Buffer(n)[i - len]]
      <3>1. d_packet(p, Buffer(n)) = FromBeforePointer(p, Buffer(n))
        BY <1>0, <1>4 DEF d_packet
      <3> QED BY <3>1 DEF FromBeforePointer
    <2> SUFFICES ASSUME NEW i \in 0 .. l - 1
                 PROVE  (IF i < len THEN d_history[start + i] ELSE Buffer(n)[i - len]) = o + i
      BY <2>0
    <2> HIDE DEF len
    <2>2. CASE i < len
      <3>1. Slot(nitems_read - o - i) = start + i
        BY <1>0, <1>4, <2>1, <2>2 DEF Slot
      <3>2. /\ nitems_read - o - i >= 1
            /\ nitems_read - o - i <= H
            /\ nitems_read - o - i <= nitems_read
        BY <1>0, <1>4, <2>1, <2>2
      <3> QED BY <1>0, <1>1, <3>1, <3>2, <2>2
    <2>3. CASE ~ (i < len)
      <3>1. i - len \in 0 .. n - 1 /\ nitems_read + (i - len) = o + i
        BY <1>0, <1>4, <2>1, <2>3
      <3> QED BY <1>2, <3>1, <2>3
    <2> QED BY <2>2, <2>3
  <1>5. CASE o < nitems_read /\ ~ (d_write_ptr + o >= nitems_read)
    <2> DEFINE start == d_write_ptr + o + d_packetlen - 1 - nitems_read
               len   == Min2(HistoryItems - start, l)
               len2  == Min2(d_write_ptr, l - len)
    <2>1. len = IF nitems_read - o - d_write_ptr <= l THEN nitems_read - o - d_write_ptr ELSE l
      BY <1>0, <1>5 DEF Min2, HistoryItems
    <2>2. len2 = IF d_write_ptr <= l - len THEN d_write_ptr ELSE l - len
      BY DEF Min2
    <2>0. d_packet(p, Buffer(n)) =
            [i \in 0 .. l - 1 |->
                IF i < len THEN d_history[start + i]
                ELSE IF i < len + len2 THEN d_history[i - len]
                ELSE Buffer(n)[i - len - len2]]
      <3>1. d_packet(p, Buffer(n)) = FromAfterPointer(p, Buffer(n))
        BY <1>0, <1>5 DEF d_packet
      <3> QED BY <3>1 DEF FromAfterPointer
    <2> SUFFICES ASSUME NEW i \in 0 .. l - 1
                 PROVE  (IF i < len THEN d_history[start + i]
                         ELSE IF i < len + len2 THEN d_history[i - len]
                         ELSE Buffer(n)[i - len - len2]) = o + i
      BY <2>0
    <2> HIDE DEF len, len2
    <2>3. CASE i < len
      <3>1. Slot(nitems_read - o - i) = start + i
        BY <1>0, <1>5, <2>1, <2>3 DEF Slot, HistoryItems
      <3>2. /\ nitems_read - o - i >= 1
            /\ nitems_read - o - i <= H
            /\ nitems_read - o - i <= nitems_read
        BY <1>0, <1>5, <2>1, <2>3
      <3> QED BY <1>0, <1>1, <3>1, <3>2, <2>3
    <2>4. CASE ~ (i < len) /\ i < len + len2
      <3>1. Slot(nitems_read - o - i) = i - len
        BY <1>0, <1>5, <2>1, <2>2, <2>4 DEF Slot
      <3>2. /\ nitems_read - o - i >= 1
            /\ nitems_read - o - i <= H
            /\ nitems_read - o - i <= nitems_read
        BY <1>0, <1>5, <2>1, <2>2, <2>4
      <3> QED BY <1>0, <1>1, <3>1, <3>2, <2>4
    <2>5. CASE ~ (i < len) /\ ~ (i < len + len2)
      <3>1. i - len - len2 \in 0 .. n - 1 /\ nitems_read + (i - len - len2) = o + i
        BY <1>0, <1>5, <2>1, <2>2, <2>5
      <3> QED BY <1>2, <3>1, <2>5
    <2> QED BY <2>3, <2>4, <2>5
  <1> QED BY <1>0, <1>3, <1>4, <1>5

\* The vocabulary of the next lemma: what a ring holds, a copy in two pieces, and
\* the write pointer after it.
RingHolds(ring, H, w, m) ==
    \A k \in 1 .. H : k <= m => ring[IF k <= w THEN w - k ELSE w - k + H] = m - k

Replaced(new, old, in, H, w, start, len, len2) ==
    \A j \in 0 .. H - 1 :
        new[j] = IF j \in w .. w + len2 - 1 THEN in[start + j - w]
                 ELSE IF j < len - len2 THEN in[start + len2 + j]
                 ELSE old[j]

PointerAfter(H, w, len, len2) ==
    IF len2 < len THEN len - len2 ELSE IF w + len = H THEN 0 ELSE w + len

\* The arithmetic of the ring.  In a ring of H items with write pointer w, len items
\* are replaced, len2 of them before the end of the ring and the others from slot 0:
\* if it held the last H of m items, it now holds the last H of m + n.
LEMMA RingUpdate ==
    ASSUME NEW H \in Nat, NEW w \in Nat, w < H \/ w = 0,
           NEW m \in Nat, NEW n \in Nat, n >= 1,
           NEW len \in Nat, NEW len2 \in Nat, NEW start \in Nat,
           start + len = n, len2 <= len, w + len2 <= H, len <= H,
           len2 < len => w + len2 = H,
           len = H \/ start = 0,
           NEW in, \A i \in 0 .. n - 1 : in[i] = m + i,
           NEW old, RingHolds(old, H, w, m),
           NEW new, Replaced(new, old, in, H, w, start, len, len2),
           NEW w1 \in Nat, w1 = PointerAfter(H, w, len, len2)
    PROVE  RingHolds(new, H, w1, m + n)
  <1> SUFFICES ASSUME NEW k \in 1 .. H, k <= m + n
               PROVE  new[IF k <= w1 THEN w1 - k ELSE w1 - k + H] = m + n - k
    BY DEF RingHolds
  <1>0. w1 < H \/ w1 = 0
    BY DEF PointerAfter
  <1>1. PICK s \in 0 .. H - 1 : s = IF k <= w1 THEN w1 - k ELSE w1 - k + H
    BY <1>0
  <1> USE DEF RingHolds, Replaced, PointerAfter
  <1>2. CASE k <= len
    \* The item came with this call: the first copy or the second one wrote it.
    <2>1. CASE s \in w .. w + len2 - 1
      <3>1. start + s - w = n - k /\ n - k \in 0 .. n - 1
        BY <1>1, <1>2, <2>1
      <3> QED BY <1>1, <2>1, <3>1
    <2>2. CASE s \notin w .. w + len2 - 1
      <3>1. s < len - len2 /\ start + len2 + s = n - k /\ n - k \in 0 .. n - 1
        BY <1>1, <1>2, <2>2
      <3> QED BY <1>1, <2>2, <3>1, SMTT(20)
    <2> QED BY <2>1, <2>2
  <1>3. CASE k > len
    \* The item was in the ring already, and neither copy reached its slot.
    <2>1. len = n /\ start = 0
      BY <1>3
    <2>2. s \notin w .. w + len2 - 1 /\ ~ (s < len - len2)
      BY <1>1, <1>3
    <2>3. PICK q \in 1 .. H : q = k - n /\ q <= m
      BY <1>3, <2>1
    <2>4. s = IF q <= w THEN w - q ELSE w - q + H
      BY <1>1, <1>3, <2>1, <2>3
    <2>5. old[s] = m - q
      BY <2>3, <2>4
    <2> QED BY <1>1, <2>2, <2>3, <2>5
  <1> QED BY <1>2, <1>3

\* update_history leaves in the ring the last items of the longer stream.
LEMMA UpdateKeepsRing ==
    ASSUME TypeOK, HistoryHoldsStream, NEW n \in Nat, n >= 1,
           update_history(Buffer(n), n),
           nitems_read' = nitems_read + n, d_packetlen' = d_packetlen
    PROVE  /\ d_history' \in [0 .. HistoryItems - 1 -> Nat \cup {Unwritten}]
           /\ d_write_ptr' \in Nat
           /\ d_write_ptr' < HistoryItems \/ d_write_ptr' = 0
           /\ HistoryHoldsStream'
  <1> DEFINE H == HistoryItems
             w == d_write_ptr
             start == IF n > H THEN n - H ELSE 0
             len   == Min2(n, H)
             len2  == IF w + len <= H THEN len ELSE H - w
  <1>0. /\ H \in Nat
        /\ nitems_read \in Nat /\ w \in Nat
        /\ w < H \/ w = 0
        /\ d_history \in [0 .. H - 1 -> Nat \cup {Unwritten}]
    BY SizesAssumption DEF TypeOK, HistoryItems
  <1>1. /\ d_history' = [j \in 0 .. H - 1 |->
                            IF j \in w .. w + len2 - 1 THEN Buffer(n)[start + j - w]
                            ELSE IF j < len - len2 THEN Buffer(n)[start + len2 + j]
                            ELSE d_history[j]]
        /\ d_write_ptr' = IF len2 < len THEN len - len2
                          ELSE IF w + len = H THEN 0 ELSE w + len
    BY DEF update_history
  <1>2. len = IF n <= H THEN n ELSE H
    BY DEF Min2
  <1>3. \A k \in 0 .. n - 1 : Buffer(n)[k] = nitems_read + k
    BY DEF Buffer
  <1>4. \A k \in Int : k >= 1 /\ k <= H /\ k <= nitems_read =>
            d_history[Slot(k)] = nitems_read - k
    BY <1>0 DEF HistoryHoldsStream
  <1> HIDE DEF len
  <1>5. /\ len \in Nat /\ len2 \in Nat /\ start \in Nat
        /\ start + len = n /\ len2 <= len /\ w + len2 <= H /\ len <= H
        /\ len2 < len => w + len2 = H
    BY <1>0, <1>2
  <1> HIDE DEF len2, start
  <1>6. d_history' \in [0 .. H - 1 -> Nat \cup {Unwritten}]
    <2> SUFFICES ASSUME NEW j \in 0 .. H - 1
                 PROVE  d_history'[j] \in Nat \cup {Unwritten}
      BY <1>1
    <2>1. CASE j \in w .. w + len2 - 1
      <3>1. start + j - w \in 0 .. n - 1
        BY <1>0, <1>5, <2>1
      <3> QED BY <1>0, <1>1, <1>3, <2>1, <3>1
    <2>2. CASE j \notin w .. w + len2 - 1 /\ j < len - len2
      <3>1. start + len2 + j \in 0 .. n - 1
        BY <1>0, <1>5, <2>2
      <3> QED BY <1>0, <1>1, <1>3, <2>2, <3>1
    <2>3. CASE j \notin w .. w + len2 - 1 /\ ~ (j < len - len2)
      BY <1>0, <1>1, <2>3
    <2> QED BY <2>1, <2>2, <2>3
  <1>7. d_write_ptr' \in Nat /\ (d_write_ptr' < H \/ d_write_ptr' = 0)
    BY <1>0, <1>1, <1>5
  <1>8. HistoryHoldsStream'
    <2>1. PICK w1 \in Nat : /\ w1 = d_write_ptr'
                            /\ w1 = PointerAfter(H, w, len, len2)
      BY <1>1, <1>7 DEF PointerAfter
    <2>2. RingHolds(d_history', H, w1, nitems_read + n)
      <3>1. Replaced(d_history', d_history, Buffer(n), H, w, start, len, len2)
        BY <1>1 DEF Replaced
      <3>2. RingHolds(d_history, H, w, nitems_read)
        BY DEF HistoryHoldsStream, Slot, RingHolds
      <3>3. len = H \/ start = 0
        BY <1>0, <1>2, <1>5
      <3>4. H \in Nat /\ w \in Nat /\ nitems_read \in Nat
        BY <1>0
      <3> HIDE DEF H, w
      <3> QED BY <1>0, <1>3, <1>5, <2>1, <3>1, <3>2, <3>3, <3>4, RingUpdate, ZenonT(30)
    <2>3. HistoryItems' = HistoryItems
      BY DEF HistoryItems
    <2> QED BY <2>1, <2>2, <2>3 DEF HistoryHoldsStream, Slot, RingHolds
  <1> QED BY <1>6, <1>7, <1>8

------------------------------------------------------------------------------
\* The constructor leaves the block in a state of the invariant.
LEMMA InitInv == Init => IInv
  <1> SUFFICES ASSUME Init PROVE IInv
    OBVIOUS
  <1>1. TypeOK
    BY SizesAssumption DEF Init, TypeOK, HistoryItems, Infos
  <1>2. HistoryHoldsStream
    BY DEF Init, HistoryHoldsStream
  <1>3. Bookkeeping
    BY DEF Init, Bookkeeping, Promise!CompleteBy
  <1> QED BY <1>1, <1>2, <1>3 DEF IInv

\* The PDU made of a packet that ends in this call is the one it must give.
LEMMA PduIsRight ==
    ASSUME IInv, NEW n \in Nat, NEW p \in Infos,
           p.length <= d_packetlen,
           EndsInBuffer(p, n),
           p.offset >= nitems_read \/ p.offset + p.length > nitems_read
    PROVE  make_pdu(p, Buffer(n)) = Promise!PduOf(p)
  <1>1. d_packet(p, Buffer(n)) = Promise!ItemsOf(p)
    BY CopyIsRight DEF IInv, EndsInBuffer, Promise!ItemsOf
  <1> QED BY <1>1 DEF make_pdu, Payload, pack_packet, Promise!PduOf, Promise!BytesOf

\* A call of work() publishes the packets that end in it, and keeps the books.
LEMMA WorkKeepsBooks ==
    ASSUME IInv, NEW n \in Nat, n >= 1,
           NEW starts \in SUBSET Window(n),
           NEW tag \in [starts -> LengthTags \cup {NoLengthTag}],
           work(n, tag)
    PROVE  /\ Bookkeeping'
           /\ tagged' \subseteq Infos
           /\ \A p \in tagged' : p.length <= d_packetlen
           /\ d_packet_infos' \subseteq Infos
           /\ \A p \in pdus' : p \notin published
  <1> DEFINE new   == NewInfos(tag)
             infos == d_packet_infos \cup new
             out   == {make_pdu(p, Buffer(n)) : p \in {i \in infos : EndsInBuffer(i, n)}}
  <1>1. /\ nitems_read \in Nat
        /\ tagged \subseteq Infos
        /\ \A p \in tagged : p.length <= d_packetlen /\ p.offset < nitems_read
        /\ d_packet_infos = {p \in tagged : ~ (p.offset + p.length <= nitems_read)}
        /\ published = {Promise!PduOf(p) : p \in Promise!CompleteBy(tagged, nitems_read)}
    BY DEF IInv, TypeOK, Bookkeeping
  <1>2. /\ new \subseteq Infos
        /\ \A p \in new : /\ p.length <= d_packetlen
                          /\ p.offset >= nitems_read
                          /\ p.offset < nitems_read + n
    BY NewInfosInWindow DEF IInv
  <1>3. /\ pdus' = out
        /\ published' = published \cup out
        /\ tagged' = tagged \cup new
        /\ d_packet_infos' = {i \in infos : ~ EndsInBuffer(i, n)}
        /\ nitems_read' = nitems_read + n
        /\ d_pack' = d_pack
    BY DEF work, Buffer, Pending
  <1> HIDE DEF new
  <1>4. \A p \in Infos : EndsInBuffer(p, n) <=> p.offset + p.length <= nitems_read + n
    BY DEF EndsInBuffer
  <1>5. \A p \in Infos : p.offset \in Nat /\ p.length \in Nat
    BY DEF Infos
  <1>6. out = {Promise!PduOf(p) : p \in {i \in infos : EndsInBuffer(i, n)}}
    <2>1. ASSUME NEW p \in infos, EndsInBuffer(p, n)
          PROVE  make_pdu(p, Buffer(n)) = Promise!PduOf(p)
      BY <1>1, <1>2, <1>5, <2>1, PduIsRight
    <2> QED BY <2>1
  <1>7. \A p \in Infos : Promise!PduOf(p)' = Promise!PduOf(p)
    BY <1>3 DEF Promise!PduOf, Promise!BytesOf, Promise!ItemsOf
  <1>8. Promise!CompleteBy(tagged, nitems_read)' =
          Promise!CompleteBy(tagged, nitems_read) \cup {i \in infos : EndsInBuffer(i, n)}
    <2>1. ASSUME NEW p \in tagged
          PROVE  p.offset + p.length <= nitems_read + n
                   <=> \/ p.offset + p.length <= nitems_read
                       \/ p \in d_packet_infos /\ EndsInBuffer(p, n)
      <3>1. p.offset \in Nat /\ p.length \in Nat /\ n \in Nat /\ nitems_read \in Nat
        BY <1>1, <1>5
      <3>2. p.offset + p.length <= nitems_read => p.offset + p.length <= nitems_read + n
        BY <3>1
      <3> QED BY <1>1, <1>4, <3>2
    <2>2. \A p \in new : p \in Infos
      BY <1>2
    <2> QED BY <1>1, <1>3, <1>4, <2>1, <2>2 DEF Promise!CompleteBy
  <1>9. published' =
          {Promise!PduOf(p)' : p \in Promise!CompleteBy(tagged, nitems_read)'}
    <2>1. Promise!CompleteBy(tagged, nitems_read)' \subseteq Infos
      BY <1>1, <1>2, <1>3 DEF Promise!CompleteBy
    <2> QED BY <1>1, <1>3, <1>6, <1>7, <1>8, <2>1
  <1>10. \A p \in tagged' : p.offset < nitems_read + n
    BY <1>1, <1>2, <1>3, <1>5
  <1>11. d_packet_infos' = {p \in tagged' : ~ (p.offset + p.length <= nitems_read + n)}
    <2>1. ASSUME NEW p \in tagged, ~ (p.offset + p.length <= nitems_read + n)
          PROVE  p \in d_packet_infos
      BY <1>1, <1>5, <2>1
    <2> QED BY <1>1, <1>2, <1>3, <1>4, <2>1
  <1>12. Bookkeeping'
    BY <1>3, <1>9, <1>10, <1>11 DEF Bookkeeping
  <1>13. \A p \in pdus' : p \notin published
    <2>1. ASSUME NEW p \in infos, NEW q \in Promise!CompleteBy(tagged, nitems_read),
                 EndsInBuffer(p, n), Promise!PduOf(p) = Promise!PduOf(q)
          PROVE  FALSE
      <3>1. p.offset = q.offset /\ p.length = q.length
        BY <2>1 DEF Promise!PduOf
      <3>2. q \in tagged /\ q.offset + q.length <= nitems_read
        BY DEF Promise!CompleteBy
      <3>3. CASE p \in new
        BY <1>1, <1>2, <1>5, <3>1, <3>2, <3>3
      <3>4. CASE p \in d_packet_infos
        BY <1>1, <3>1, <3>2, <3>4
      <3> QED BY <3>3, <3>4
    <2> QED BY <1>1, <1>3, <1>6, <2>1
  <1> QED BY <1>1, <1>2, <1>3, <1>12, <1>13

\* Every call of work() preserves the invariant.
LEMMA NextInv == IInv /\ [Next]_vars => IInv'
  <1> SUFFICES ASSUME IInv, [Next]_vars PROVE IInv'
    OBVIOUS
  <1>1. CASE Next
    <2>1. PICK n \in 1 .. MaxChunk :
            \E starts \in SUBSET Window(n) :
              \E tag \in [starts -> LengthTags \cup {NoLengthTag}] : work(n, tag)
      BY <1>1 DEF Next
    <2>a. PICK starts \in SUBSET Window(n) :
            \E tag \in [starts -> LengthTags \cup {NoLengthTag}] : work(n, tag)
      BY <2>1
    <2>2. PICK tag \in [starts -> LengthTags \cup {NoLengthTag}] : work(n, tag)
      BY <2>a
    <2>3. n \in Nat /\ n >= 1
      BY SizesAssumption
    <2>4. /\ Bookkeeping'
          /\ tagged' \subseteq Infos
          /\ \A p \in tagged' : p.length <= d_packetlen
          /\ d_packet_infos' \subseteq Infos
      BY <2>2, <2>3, WorkKeepsBooks
    <2>5. /\ update_history(Buffer(n), n)
          /\ nitems_read' = nitems_read + n
          /\ d_packetlen' = d_packetlen
          /\ d_pack' = d_pack
      BY <2>2 DEF work, Buffer
    <2>6. /\ d_history' \in [0 .. HistoryItems - 1 -> Nat \cup {Unwritten}]
          /\ d_write_ptr' \in Nat
          /\ d_write_ptr' < HistoryItems \/ d_write_ptr' = 0
          /\ HistoryHoldsStream'
      BY <2>3, <2>5, UpdateKeepsRing DEF IInv
    <2>7. TypeOK'
      BY <2>3, <2>4, <2>5, <2>6 DEF IInv, TypeOK, HistoryItems
    <2> QED BY <2>4, <2>6, <2>7 DEF IInv
  <1>2. CASE UNCHANGED vars
    BY <1>2 DEF vars, IInv, TypeOK, HistoryItems, HistoryHoldsStream, Slot, Bookkeeping,
                Promise!CompleteBy, Promise!PduOf, Promise!BytesOf, Promise!ItemsOf
  <1> QED BY <1>1, <1>2

\* The invariant holds in every state of every behaviour of the block.
THEOREM Invariance == Spec => []IInv
  <1>1. Init => IInv
    BY InitInv
  <1>2. IInv /\ [Next]_vars => IInv'
    BY NextInv
  <1> QED BY <1>1, <1>2, PTL DEF Spec

\* For every packet length: the vectors keep their sizes and the write pointer
\* stays inside the ring.
THEOREM TypeCorrect == Spec => []TypeOK
  <1>1. IInv => TypeOK
    BY DEF IInv
  <1> QED BY <1>1, Invariance, PTL

\* For every packet length and every cutting of the stream, the ring of
\* update_history holds the last items of the stream.
THEOREM RingCorrect == Spec => []HistoryHoldsStream
  <1>1. IInv => HistoryHoldsStream
    BY DEF IInv
  <1> QED BY <1>1, Invariance, PTL

\* A pending packet has not ended and all it has had so far is in the ring.
THEOREM PendingCorrect == Spec => []PendingInHistory
  <1>1. IInv => PendingInHistory
    <2> SUFFICES ASSUME IInv, NEW p \in d_packet_infos
                 PROVE  /\ p.offset + p.length > nitems_read
                        /\ \A o \in p.offset .. nitems_read - 1 :
                              \E j \in DOMAIN d_history : d_history[j] = o
      BY DEF PendingInHistory
    <2>1. /\ p \in tagged /\ ~ (p.offset + p.length <= nitems_read)
          /\ p.offset \in Nat /\ p.length \in Nat /\ p.length <= d_packetlen
      BY DEF IInv, Bookkeeping, TypeOK, Infos
    <2>2. /\ nitems_read \in Nat /\ d_packetlen \in Nat
          /\ DOMAIN d_history = 0 .. HistoryItems - 1
          /\ d_write_ptr \in Nat
          /\ d_write_ptr < HistoryItems \/ d_write_ptr = 0
          /\ HistoryItems = d_packetlen - 1
      BY SizesAssumption DEF IInv, TypeOK, HistoryItems
    <2>3. ASSUME NEW o \in p.offset .. nitems_read - 1
          PROVE  \E j \in DOMAIN d_history : d_history[j] = o
      <3>1. nitems_read - o \in 1 .. HistoryItems /\ nitems_read - o <= nitems_read
        BY <2>1, <2>2
      <3>2. d_history[Slot(nitems_read - o)] = nitems_read - (nitems_read - o)
        BY <3>1 DEF IInv, HistoryHoldsStream
      <3>3. Slot(nitems_read - o) \in 0 .. HistoryItems - 1
        BY <2>2, <3>1 DEF Slot
      <3> QED BY <2>1, <2>2, <3>2, <3>3
    <2> QED BY <2>1, <2>2, <2>3
  <1> QED BY <1>1, Invariance, PTL

\* No packet is published twice, whatever the stream and its cutting.
THEOREM NeverTwice == Spec => PublishedOnce
  <1>1. IInv /\ [Next]_vars => [\A p \in pdus' : p \notin published]_vars
    <2> SUFFICES ASSUME IInv, Next PROVE \A p \in pdus' : p \notin published
      BY Zenon
    <2>1. PICK n \in 1 .. MaxChunk :
            \E starts \in SUBSET Window(n) :
              \E tag \in [starts -> LengthTags \cup {NoLengthTag}] : work(n, tag)
      BY DEF Next
    <2>2. PICK starts \in SUBSET Window(n) :
            \E tag \in [starts -> LengthTags \cup {NoLengthTag}] : work(n, tag)
      BY <2>1
    <2>3. PICK tag \in [starts -> LengthTags \cup {NoLengthTag}] : work(n, tag)
      BY <2>2
    <2>4. n \in Nat /\ n >= 1
      BY SizesAssumption
    <2> QED BY <2>3, <2>4, WorkKeepsBooks
  <1> QED BY <1>1, Invariance, PTL DEF Spec, PublishedOnce

\* The block implements TaggedPackets: each call of work() is a step of the
\* abstract block, whatever the packet length, the tags and the cutting.
THEOREM Refinement == Spec => KeepsPromise
  <1>1. Init => Promise!PInit
    BY DEF Init, Promise!PInit
  <1>2. IInv /\ IInv' /\ [Next]_vars => [Promise!Receive]_(Promise!abstractVars)
    <2> SUFFICES ASSUME IInv, IInv', [Next]_vars
                 PROVE  [Promise!Receive]_(Promise!abstractVars)
      OBVIOUS
    <2>1. CASE Next
      <3>1. PICK n \in 1 .. MaxChunk :
              \E starts \in SUBSET Window(n) :
                \E tag \in [starts -> LengthTags \cup {NoLengthTag}] : work(n, tag)
        BY <2>1 DEF Next
      <3>2. PICK starts \in SUBSET Window(n) :
              \E tag \in [starts -> LengthTags \cup {NoLengthTag}] : work(n, tag)
        BY <3>1
      <3>3. PICK tag \in [starts -> LengthTags \cup {NoLengthTag}] : work(n, tag)
        BY <3>2
      <3>4. n \in Nat /\ n >= 1 /\ nitems_read \in Nat
        BY SizesAssumption DEF IInv, TypeOK
      <3>5. /\ d_pack' = d_pack
            /\ nitems_read' = nitems_read + n
            /\ tagged' = tagged \cup NewInfos(tag)
        BY <3>3 DEF work
      <3>6. \A p \in NewInfos(tag) : p.offset >= nitems_read /\ p.offset < nitems_read + n
        BY <3>4, NewInfosInWindow DEF IInv
      <3>7. \A p \in NewInfos(tag) : p.offset \in nitems_read .. nitems_read' - 1
        <4>1. \A p \in NewInfos(tag) : p.offset \in Nat
          BY <3>4, NewInfosInWindow DEF IInv, Infos
        <4> QED BY <3>4, <3>5, <3>6, <4>1
      <3>8. nitems_read' > nitems_read
        BY <3>4, <3>5
      <3>9. published' = {Promise!PduOf(p)' : p \in Promise!CompleteBy(tagged', nitems_read')}
        BY DEF IInv, Bookkeeping, Promise!CompleteBy
      <3>10. \A p : Promise!PduOf(p)' = Promise!PduOf(p)
        BY <3>5 DEF Promise!PduOf, Promise!BytesOf, Promise!ItemsOf
      <3> QED BY <3>5, <3>7, <3>8, <3>9, <3>10 DEF Promise!Receive
    <2>2. CASE UNCHANGED vars
      BY <2>2 DEF vars, Promise!abstractVars
    <2> QED BY <2>1, <2>2
  <1> QED BY <1>1, <1>2, Invariance, PTL DEF Spec, KeepsPromise, Promise!PSpec
==============================================================================

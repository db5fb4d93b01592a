---------------------------- MODULE MobitexProofs ----------------------------
(***************************************************************************)
(* Two arguments about the deframer of Mobitex frames.                      *)
(*                                                                          *)
(* However the two paths race and whatever gets lost in the reframer, each  *)
(* data block is in one place only, for any number of frames of any number  *)
(* of blocks: on its way in one of the queues, held by the reframer, or     *)
(* forwarded (OnePlace).  A handler takes it from one place and puts it in  *)
(* another, or drops it.  Blocks of the next frame are new (FramesKnown).   *)
(*                                                                          *)
(* Without errors only one of the paths is used, and the blocks on it are   *)
(* the stream of all that was sent, from where the reframer is (InOrder).   *)
(***************************************************************************)
EXTENDS MobitexDeframer, FiniteSetTheorems, TLAPS

Block == [frame : Nat, block_id : Nat, num_blocks : Nat, crc_valid : BOOLEAN]
Frame == [header : Nat, blocks : Seq(Block), error_code : SUBSET Nat]

Held == {blocks[id] : id \in DOMAIN blocks}
Forwarded == UNION {ToSet(published[i].blocks) : i \in DOMAIN published}

TypeInv ==
    /\ mobitex_sent \in Seq(Seq(BOOLEAN))
    /\ to_crc \in Seq(Block)
    /\ to_crc_ok \in Seq(Block)
    /\ to_crc_fail \in Seq(Block)
    /\ to_reframer \in Seq(Block)
    /\ DOMAIN blocks \subseteq Nat
    /\ Held \subseteq Block
    /\ frame_header \in Nat \cup {NoHeader}
    /\ published \in Seq(Frame)

\* The header that is stored is the one of the block 0 that is held.
HeaderStored ==
    frame_header # NoHeader => 0 \in DOMAIN blocks /\ blocks[0].frame = frame_header

\* No data block is twice in a queue.
Once(q) == \A i, j \in 1 .. Len(q) : i # j => q[i] # q[j]

\* No data block is in two of these sets.
Apart(a, b, c, d, e, f) ==
    \A x : /\ x \in a => x \notin b /\ x \notin c /\ x \notin d /\ x \notin e /\ x \notin f
           /\ x \in b => x \notin c /\ x \notin d /\ x \notin e /\ x \notin f
           /\ x \in c => x \notin d /\ x \notin e /\ x \notin f
           /\ x \in d => x \notin e /\ x \notin f
           /\ x \in e => x \notin f

OnePlace ==
    /\ Once(to_crc) /\ Once(to_crc_ok) /\ Once(to_crc_fail) /\ Once(to_reframer)
    /\ Apart(ToSet(to_crc), ToSet(to_crc_ok), ToSet(to_crc_fail), ToSet(to_reframer),
             Held, Forwarded)

Everywhere == ToSet(to_crc) \cup ToSet(to_crc_ok) \cup ToSet(to_crc_fail)
                  \cup ToSet(to_reframer) \cup Held \cup Forwarded

\* The data blocks there are belong to frames received.
FramesKnown == \A b \in Everywhere : b.frame <= Len(mobitex_sent)

\* The inductive invariant.
IInv == /\ TypeInv
        /\ HeaderStored
        /\ OnePlace
        /\ FramesKnown
        /\ HeaderOfBlockZero
        /\ BlockForwardedOnce


------------------------------------------------------------------------------
\* b is a data block of one of the frames s, and its CRC is valid.
Sound(b, s) ==
    /\ b \in Block
    /\ b.frame \in DOMAIN s
    /\ b.block_id < Len(s[b.frame])
    /\ b.num_blocks = Len(s[b.frame])
    /\ b.crc_valid

\* c is the data block that was sent behind b.
Behind(b, c) ==
    IF b.block_id + 1 < b.num_blocks THEN c.frame = b.frame /\ c.block_id = b.block_id + 1
    ELSE c.frame = b.frame + 1 /\ c.block_id = 0

\* q is all that was sent of the frames s, from data block k of frame f on.
Stream(q, s, f, k) ==
    /\ \A j \in 1 .. Len(q) : Sound(q[j], s)
    /\ \A j \in 1 .. Len(q) - 1 : Behind(q[j], q[j + 1])
    /\ q = <<>> => f = Len(s) + 1 /\ k = 0
    /\ q # <<>> => /\ q[1].frame = f
                   /\ q[1].block_id = k
                   /\ q[Len(q)].frame = Len(s)
                   /\ q[Len(q)].block_id + 1 = q[Len(q)].num_blocks

\* The data blocks on their way by the path that is used without errors.
Line == to_reframer \o (to_crc_ok \o to_crc)

\* Without errors one path carries the stream of the data blocks; the reframer holds
\* the first k blocks of the next frame to come out, and the rest is on its way.
InOrder ==
    AllValid =>
        /\ to_crc_fail = <<>>
        /\ \E k \in Nat :
              /\ DOMAIN blocks = 0 .. k - 1
              /\ \A i \in 0 .. k - 1 : /\ Sound(blocks[i], mobitex_sent)
                                       /\ blocks[i].frame = Len(published) + 1
                                       /\ blocks[i].block_id = i
              /\ k > 0 => /\ frame_header = Len(published) + 1
                          /\ num_blocks_expected = Len(mobitex_sent[Len(published) + 1])
              /\ Stream(Line, mobitex_sent, Len(published) + 1, k)

------------------------------------------------------------------------------
\* The first of a queue is taken.
LEMMA Taken ==
    ASSUME NEW S, NEW q \in Seq(S), q # <<>>
    PROVE  /\ Head(q) \in S /\ Tail(q) \in Seq(S)
           /\ ToSet(q) = {Head(q)} \cup ToSet(Tail(q))
           /\ Once(q) => Once(Tail(q)) /\ Head(q) \notin ToSet(Tail(q))
  <1>1. PICK n \in Nat : n = Len(q) /\ n >= 1
    OBVIOUS
  <1>2. /\ Head(q) = q[1] /\ Head(q) \in S /\ Tail(q) \in Seq(S)
        /\ Len(Tail(q)) = n - 1
        /\ \A i \in 1 .. n - 1 : Tail(q)[i] = q[i + 1]
    BY <1>1
  <1>3. DOMAIN q = 1 .. n /\ DOMAIN Tail(q) = 1 .. n - 1
    BY <1>1, <1>2
  <1>4. ToSet(q) = {Head(q)} \cup ToSet(Tail(q))
    <2>1. ASSUME NEW i \in 1 .. n PROVE q[i] \in {Head(q)} \cup ToSet(Tail(q))
      <3>1. CASE i = 1
        BY <1>2, <3>1
      <3>2. CASE i # 1
        <4>1. i - 1 \in 1 .. n - 1 /\ Tail(q)[i - 1] = q[i]
          BY <1>1, <1>2, <3>2
        <4> QED BY <1>3, <4>1 DEF ToSet
      <3> QED BY <3>1, <3>2
    <2>2. ASSUME NEW i \in 1 .. n - 1 PROVE Tail(q)[i] \in ToSet(q)
      <3>1. i + 1 \in 1 .. n
        BY <1>1
      <3> QED BY <1>2, <1>3, <3>1 DEF ToSet
    <2>3. Head(q) \in ToSet(q)
      BY <1>1, <1>2, <1>3 DEF ToSet
    <2> QED BY <1>3, <2>1, <2>2, <2>3 DEF ToSet
  <1>5. ASSUME Once(q) PROVE Once(Tail(q)) /\ Head(q) \notin ToSet(Tail(q))
    <2>1. \A i, j \in 1 .. n - 1 : i # j => Tail(q)[i] # Tail(q)[j]
      BY <1>1, <1>2, <1>5 DEF Once
    <2>2. \A i \in 1 .. n - 1 : Tail(q)[i] # q[1]
      BY <1>1, <1>2, <1>5 DEF Once
    <2> QED BY <1>2, <1>3, <2>1, <2>2 DEF Once, ToSet
  <1> QED BY <1>2, <1>4, <1>5

\* One more is put at the end of a queue.
LEMMA Put ==
    ASSUME NEW S, NEW q \in Seq(S), NEW x \in S
    PROVE  /\ Append(q, x) \in Seq(S)
           /\ ToSet(Append(q, x)) = ToSet(q) \cup {x}
           /\ Once(q) /\ x \notin ToSet(q) => Once(Append(q, x))
  <1>1. PICK n \in Nat : n = Len(q)
    OBVIOUS
  <1>2. /\ Append(q, x) \in Seq(S)
        /\ Len(Append(q, x)) = n + 1
        /\ Append(q, x)[n + 1] = x
        /\ \A i \in 1 .. n : Append(q, x)[i] = q[i]
    BY <1>1
  <1>3. DOMAIN q = 1 .. n /\ DOMAIN Append(q, x) = 1 .. n + 1
    BY <1>1, <1>2
  <1>4. ToSet(Append(q, x)) = ToSet(q) \cup {x}
    <2>1. \A i \in 1 .. n + 1 : i \in 1 .. n \/ i = n + 1
      BY <1>1
    <2>2. \A i \in 1 .. n : i \in 1 .. n + 1
      BY <1>1
    <2>3. n + 1 \in 1 .. n + 1
      BY <1>1
    <2> QED BY <1>2, <1>3, <2>1, <2>2, <2>3 DEF ToSet
  <1>5. ASSUME Once(q), x \notin ToSet(q) PROVE Once(Append(q, x))
    <2>1. \A i \in 1 .. n : q[i] # x
      BY <1>3, <1>5 DEF ToSet
    <2>2. \A i, j \in 1 .. n : i # j => q[i] # q[j]
      BY <1>1, <1>5 DEF Once
    <2>3. \A i \in 1 .. n + 1 : i \in 1 .. n \/ i = n + 1
      BY <1>1
    <2> QED BY <1>2, <2>1, <2>2, <2>3 DEF Once
  <1> QED BY <1>2, <1>4, <1>5

\* Two queues are joined.
LEMMA Joined ==
    ASSUME NEW S, NEW q \in Seq(S), NEW r \in Seq(S)
    PROVE  /\ q \o r \in Seq(S)
           /\ ToSet(q \o r) = ToSet(q) \cup ToSet(r)
           /\ Once(q) /\ Once(r) /\ (\A x \in ToSet(r) : x \notin ToSet(q)) => Once(q \o r)
  <1>1. PICK m \in Nat, n \in Nat : m = Len(q) /\ n = Len(r)
    OBVIOUS
  <1>2. /\ q \o r \in Seq(S)
        /\ Len(q \o r) = m + n
        /\ \A i \in 1 .. m : (q \o r)[i] = q[i]
        /\ \A i \in m + 1 .. m + n : (q \o r)[i] = r[i - m]
    BY <1>1
  <1>3. DOMAIN q = 1 .. m /\ DOMAIN r = 1 .. n /\ DOMAIN (q \o r) = 1 .. m + n
    BY <1>1, <1>2
  <1>4. \A i \in 1 .. m + n : i \in 1 .. m \/ (i \in m + 1 .. m + n /\ i - m \in 1 .. n)
    BY <1>1
  <1>5. ToSet(q \o r) = ToSet(q) \cup ToSet(r)
    <2>1. \A i \in 1 .. m : i \in 1 .. m + n
      BY <1>1
    <2>2. ASSUME NEW i \in 1 .. n PROVE m + i \in 1 .. m + n /\ (q \o r)[m + i] = r[i]
      <3>1. m + i \in m + 1 .. m + n /\ (m + i) - m = i
        BY <1>1
      <3> QED BY <1>1, <1>2, <3>1
    <2>3. \A i \in 1 .. m + n : (q \o r)[i] \in ToSet(q) \cup ToSet(r)
      BY <1>2, <1>3, <1>4 DEF ToSet
    <2>4. \A i \in 1 .. m : q[i] \in ToSet(q \o r)
      BY <1>2, <1>3, <2>1 DEF ToSet
    <2>5. \A i \in 1 .. n : r[i] \in ToSet(q \o r)
      BY <1>3, <2>2 DEF ToSet
    <2>6. ToSet(q \o r) \subseteq ToSet(q) \cup ToSet(r)
      BY <1>3, <2>3 DEF ToSet
    <2>7. ToSet(q) \cup ToSet(r) \subseteq ToSet(q \o r)
      BY <1>3, <2>4, <2>5 DEF ToSet
    <2> QED BY <2>6, <2>7
  <1>6. ASSUME Once(q), Once(r), \A x \in ToSet(r) : x \notin ToSet(q) PROVE Once(q \o r)
    <2>1. \A i \in 1 .. m : \A j \in 1 .. n : q[i] # r[j]
      BY <1>3, <1>6 DEF ToSet
    <2>2. \A i, j \in 1 .. m : i # j => q[i] # q[j]
      BY <1>1, <1>6 DEF Once
    <2>3. \A i, j \in 1 .. n : i # j => r[i] # r[j]
      BY <1>1, <1>6 DEF Once
    <2>4. ASSUME NEW i \in 1 .. m + n, NEW j \in 1 .. m + n, i # j
          PROVE  (q \o r)[i] # (q \o r)[j]
      <3>1. CASE i \in 1 .. m /\ j \in 1 .. m
        BY <1>2, <2>2, <2>4, <3>1
      <3>2. CASE i \in 1 .. m /\ j \in m + 1 .. m + n /\ j - m \in 1 .. n
        BY <1>2, <2>1, <3>2
      <3>3. CASE j \in 1 .. m /\ i \in m + 1 .. m + n /\ i - m \in 1 .. n
        BY <1>2, <2>1, <3>3
      <3>4. CASE /\ i \in m + 1 .. m + n /\ i - m \in 1 .. n
                 /\ j \in m + 1 .. m + n /\ j - m \in 1 .. n
        <4>1. i - m # j - m
          BY <1>1, <2>4
        <4> QED BY <1>2, <2>3, <3>4, <4>1
      <3> QED BY <1>4, <3>1, <3>2, <3>3, <3>4
    <2> QED BY <1>2, <2>4 DEF Once
  <1> QED BY <1>2, <1>5, <1>6

------------------------------------------------------------------------------
LEMMA InitInv == MobitexInit => IInv
  <1> SUFFICES ASSUME MobitexInit PROVE IInv
    OBVIOUS
  <1>1. /\ mobitex_sent = <<>> /\ to_crc = <<>> /\ to_crc_ok = <<>> /\ to_crc_fail = <<>>
        /\ to_reframer = <<>> /\ blocks = NoBlocks /\ frame_header = NoHeader
        /\ published = <<>>
    BY DEF MobitexInit, ReframerInit
  <1>2. ToSet(<<>>) = {} /\ Once(<<>>)
    BY DEF ToSet, Once
  <1>3. Held = {} /\ DOMAIN blocks = {}
    BY <1>1 DEF Held, NoBlocks
  <1>4. Forwarded = {}
    BY <1>1 DEF Forwarded
  <1>5. TypeInv
    BY <1>1, <1>3 DEF TypeInv
  <1>6. OnePlace /\ FramesKnown
    BY <1>1, <1>2, <1>3, <1>4 DEF OnePlace, Apart, FramesKnown, Everywhere
  <1>7. HeaderStored /\ HeaderOfBlockZero /\ BlockForwardedOnce
    BY <1>1 DEF HeaderStored, HeaderOfBlockZero, BlockForwardedOnce
  <1> QED BY <1>5, <1>6, <1>7 DEF IInv

\* The data blocks of a new frame are new, and no two of them are the same
\* (mobitex_to_datablocks).
LEMMA NewBlocks ==
    ASSUME NEW f \in Nat, NEW outcomes \in Seq(BOOLEAN)
    PROVE  /\ DataBlocks(f, outcomes) \in Seq(Block)
           /\ Once(DataBlocks(f, outcomes))
           /\ \A b \in ToSet(DataBlocks(f, outcomes)) : b.frame = f
  <1>1. PICK n \in Nat : n = Len(outcomes)
    OBVIOUS
  <1> DEFINE d == DataBlocks(f, outcomes)
  <1>2. d = [i \in 1 .. n |-> [frame |-> f, block_id |-> i - 1, num_blocks |-> n,
                               crc_valid |-> outcomes[i]]]
    BY <1>1 DEF DataBlocks
  <1>3. ASSUME NEW i \in 1 .. n
        PROVE  d[i] \in Block /\ d[i].frame = f /\ d[i].block_id = i - 1
    <2>1. d[i] = [frame |-> f, block_id |-> i - 1, num_blocks |-> n, crc_valid |-> outcomes[i]]
      BY <1>2
    <2>2. i - 1 \in Nat /\ outcomes[i] \in BOOLEAN
      BY <1>1
    <2> QED BY <2>1, <2>2 DEF Block
  <1>4. d \in [1 .. n -> Block]
    BY <1>2, <1>3
  <1>5. d \in Seq(Block) /\ Len(d) = n /\ DOMAIN d = 1 .. n
    BY <1>4
  <1>6. ASSUME NEW i \in 1 .. n, NEW j \in 1 .. n, i # j PROVE d[i] # d[j]
    <2>1. i - 1 # j - 1
      BY <1>6
    <2> QED BY <1>3, <2>1
  <1>7. Once(d)
    BY <1>5, <1>6 DEF Once
  <1>8. \A b \in ToSet(d) : b.frame = f
    BY <1>3, <1>5 DEF ToSet
  <1> QED BY <1>5, <1>7, <1>8

\* A frame is received.
LEMMA ReceiveInv ==
    ASSUME IInv, PublishDatablocks
    PROVE  IInv'
  <1>1. PICK n \in BlockCounts : \E outcomes \in [1 .. n -> BOOLEAN] :
            /\ mobitex_sent' = Append(mobitex_sent, outcomes)
            /\ to_crc' = to_crc \o DataBlocks(Len(mobitex_sent) + 1, outcomes)
    BY DEF PublishDatablocks
  <1>2. PICK outcomes \in [1 .. n -> BOOLEAN] :
            /\ mobitex_sent' = Append(mobitex_sent, outcomes)
            /\ to_crc' = to_crc \o DataBlocks(Len(mobitex_sent) + 1, outcomes)
    BY <1>1
  <1>3. UNCHANGED <<reframerVars, to_crc_ok, to_crc_fail, to_reframer>>
    BY DEF PublishDatablocks
  <1>4. outcomes \in Seq(BOOLEAN)
    <2>1. n \in Nat
      BY BlockCountsAssumption
    <2> QED BY <2>1
  <1>5. PICK l \in Nat : l = Len(mobitex_sent)
    BY DEF IInv, TypeInv
  <1>6. PICK new : new = DataBlocks(l + 1, outcomes)
    OBVIOUS
  <1>7. /\ new \in Seq(Block) /\ Once(new)
        /\ \A b \in ToSet(new) : b.frame = l + 1
    <2>1. l + 1 \in Nat
      OBVIOUS
    <2> QED BY <1>4, <1>6, <2>1, NewBlocks
  <1>8. /\ UNCHANGED <<to_crc_ok, to_crc_fail, to_reframer, blocks, frame_header, published>>
        /\ Held' = Held /\ Forwarded' = Forwarded
    BY <1>3 DEF reframerVars, Held, Forwarded
  <1>9. ASSUME NEW b \in Everywhere PROVE b \in Block /\ b.frame <= l
    <2>1. b \in Block
      <3>1. \A q \in Seq(Block) : ToSet(q) \subseteq Block
        BY DEF ToSet
      <3>2. Forwarded \subseteq Block
        <4>1. \A i \in DOMAIN published : published[i] \in Frame
          BY DEF IInv, TypeInv
        <4>2. \A i \in DOMAIN published : published[i].blocks \in Seq(Block)
          BY <4>1 DEF Frame
        <4> QED BY <3>1, <4>2 DEF Forwarded
      <3> QED BY <3>1, <3>2 DEF IInv, TypeInv, Everywhere
    <2> QED BY <1>5, <2>1 DEF IInv, FramesKnown
  <1>10. \A b \in ToSet(new) : b \notin Everywhere
    <2> SUFFICES ASSUME NEW b \in ToSet(new), b \in Everywhere PROVE FALSE
      OBVIOUS
    <2>1. b.frame = l + 1 /\ b.frame <= l
      BY <1>7, <1>9
    <2> QED BY <2>1
  <1>11. to_crc \in Seq(Block) /\ to_crc' = to_crc \o new
    BY <1>2, <1>5, <1>6 DEF IInv, TypeInv
  <1>12. /\ to_crc' \in Seq(Block)
         /\ ToSet(to_crc') = ToSet(to_crc) \cup ToSet(new)
         /\ Once(to_crc')
    <2>1. Once(to_crc) /\ \A b \in ToSet(new) : b \notin ToSet(to_crc)
      BY <1>10 DEF IInv, OnePlace, Everywhere
    <2> QED BY <1>7, <1>11, <2>1, Joined
  <1>13. mobitex_sent' \in Seq(Seq(BOOLEAN)) /\ Len(mobitex_sent') = l + 1
    BY <1>2, <1>4, <1>5 DEF IInv, TypeInv
  <1>14. TypeInv'
    BY <1>8, <1>12, <1>13 DEF IInv, TypeInv
  <1>15. OnePlace'
    <2>1. Apart(ToSet(to_crc'), ToSet(to_crc_ok), ToSet(to_crc_fail), ToSet(to_reframer),
                Held, Forwarded)
      BY <1>10, <1>12 DEF IInv, OnePlace, Apart, Everywhere
    <2> QED BY <1>8, <1>12, <2>1 DEF IInv, OnePlace
  <1>16. FramesKnown'
    <2>1. Everywhere' = Everywhere \cup ToSet(new)
      BY <1>8, <1>12 DEF Everywhere
    <2>2. ASSUME NEW b \in Everywhere' PROVE b.frame <= l + 1
      <3>1. CASE b \in Everywhere
        <4>1. b.frame \in Nat /\ b.frame <= l
          BY <1>9, <3>1 DEF Block
        <4> QED BY <4>1
      <3>2. CASE b \in ToSet(new)
        BY <1>7, <3>2
      <3> QED BY <2>1, <3>1, <3>2
    <2> QED BY <1>13, <2>2 DEF FramesKnown
  <1>17. HeaderStored' /\ HeaderOfBlockZero' /\ BlockForwardedOnce'
    BY <1>8 DEF IInv, HeaderStored, HeaderOfBlockZero, BlockForwardedOnce
  <1> QED BY <1>14, <1>15, <1>16, <1>17 DEF IInv

\* What changes when blocks move and none is new.
LEMMA MovedInv ==
    ASSUME IInv, OnePlace', UNCHANGED <<mobitex_sent, reframerVars>>,
           Everywhere' \subseteq Everywhere,
           to_crc' \in Seq(Block), to_crc_ok' \in Seq(Block), to_crc_fail' \in Seq(Block),
           to_reframer' \in Seq(Block)
    PROVE  IInv'
  <1>1. UNCHANGED <<mobitex_sent, blocks, frame_header, published>> /\ Held' = Held
    BY DEF reframerVars, Held
  <1>2. TypeInv'
    BY <1>1 DEF IInv, TypeInv
  <1>3. FramesKnown'
    BY <1>1 DEF IInv, FramesKnown
  <1>4. HeaderStored' /\ HeaderOfBlockZero' /\ BlockForwardedOnce'
    BY <1>1 DEF IInv, HeaderStored, HeaderOfBlockZero, BlockForwardedOnce
  <1> QED BY <1>2, <1>3, <1>4 DEF IInv

\* The CRC block takes a block from its queue and puts it in one of two.
LEMMA CheckBlockInv == IInv /\ CheckBlock => IInv'
  <1> SUFFICES ASSUME IInv, CheckBlock PROVE IInv'
    OBVIOUS
  <1>1. PICK b : b = Head(to_crc)
    OBVIOUS
  <1>2. /\ b \in Block /\ to_crc' \in Seq(Block)
        /\ ToSet(to_crc) = {b} \cup ToSet(to_crc')
        /\ Once(to_crc') /\ b \notin ToSet(to_crc')
    <2>1. to_crc \in Seq(Block) /\ to_crc # <<>> /\ to_crc' = Tail(to_crc) /\ Once(to_crc)
      BY DEF CheckBlock, IInv, TypeInv, OnePlace
    <2> QED BY <1>1, <2>1, Taken
  <1>3. UNCHANGED <<mobitex_sent, reframerVars, to_reframer>> /\ Held' = Held /\ Forwarded' = Forwarded
    BY DEF CheckBlock, reframerVars, Held, Forwarded
  <1>4. CASE to_crc_ok' = Append(to_crc_ok, b) /\ UNCHANGED to_crc_fail
    <2>1. b \notin ToSet(to_crc_ok)
      BY <1>2 DEF IInv, OnePlace, Apart
    <2>2. /\ to_crc_ok' \in Seq(Block)
          /\ ToSet(to_crc_ok') = ToSet(to_crc_ok) \cup {b}
          /\ Once(to_crc_ok')
      BY <1>2, <1>4, <2>1, Put DEF IInv, TypeInv, OnePlace
    <2>3. OnePlace'
      BY <1>2, <1>3, <1>4, <2>2 DEF IInv, OnePlace, Apart
    <2>4. Everywhere' \subseteq Everywhere
      BY <1>2, <1>3, <1>4, <2>2 DEF Everywhere
    <2> QED BY <1>2, <1>3, <1>4, <2>2, <2>3, <2>4, MovedInv DEF IInv, TypeInv
  <1>5. CASE to_crc_fail' = Append(to_crc_fail, b) /\ UNCHANGED to_crc_ok
    <2>1. b \notin ToSet(to_crc_fail)
      BY <1>2 DEF IInv, OnePlace, Apart
    <2>2. /\ to_crc_fail' \in Seq(Block)
          /\ ToSet(to_crc_fail') = ToSet(to_crc_fail) \cup {b}
          /\ Once(to_crc_fail')
      BY <1>2, <1>5, <2>1, Put DEF IInv, TypeInv, OnePlace
    <2>3. OnePlace'
      BY <1>2, <1>3, <1>5, <2>2 DEF IInv, OnePlace, Apart
    <2>4. Everywhere' \subseteq Everywhere
      BY <1>2, <1>3, <1>5, <2>2 DEF Everywhere
    <2> QED BY <1>2, <1>3, <1>5, <2>2, <2>3, <2>4, MovedInv DEF IInv, TypeInv
  <1> QED BY <1>1, <1>4, <1>5 DEF CheckBlock

\* One of the two paths passes a block on.
LEMMA SetCrcOkInv == IInv /\ SetCrcOk => IInv'
  <1> SUFFICES ASSUME IInv, SetCrcOk PROVE IInv'
    OBVIOUS
  <1>1. PICK b : b = Head(to_crc_ok)
    OBVIOUS
  <1>2. /\ b \in Block /\ to_crc_ok' \in Seq(Block)
        /\ ToSet(to_crc_ok) = {b} \cup ToSet(to_crc_ok')
        /\ Once(to_crc_ok') /\ b \notin ToSet(to_crc_ok')
    <2>1. to_crc_ok \in Seq(Block) /\ to_crc_ok # <<>> /\ to_crc_ok' = Tail(to_crc_ok)
          /\ Once(to_crc_ok)
      BY DEF SetCrcOk, IInv, TypeInv, OnePlace
    <2> QED BY <1>1, <2>1, Taken
  <1>3. /\ UNCHANGED <<mobitex_sent, reframerVars, to_crc, to_crc_fail>>
        /\ Held' = Held /\ Forwarded' = Forwarded
        /\ to_reframer' = Append(to_reframer, b)
    BY <1>1 DEF SetCrcOk, reframerVars, Held, Forwarded
  <1>4. b \notin ToSet(to_reframer)
    BY <1>2 DEF IInv, OnePlace, Apart
  <1>5. /\ to_reframer' \in Seq(Block)
        /\ ToSet(to_reframer') = ToSet(to_reframer) \cup {b}
        /\ Once(to_reframer')
    BY <1>2, <1>3, <1>4, Put DEF IInv, TypeInv, OnePlace
  <1>6. OnePlace'
    BY <1>2, <1>3, <1>5 DEF IInv, OnePlace, Apart
  <1>7. Everywhere' \subseteq Everywhere
    BY <1>2, <1>3, <1>5 DEF Everywhere
  <1> QED BY <1>2, <1>3, <1>5, <1>6, <1>7, MovedInv DEF IInv, TypeInv

LEMMA SetCrcFailInv == IInv /\ SetCrcFail => IInv'
  <1> SUFFICES ASSUME IInv, SetCrcFail PROVE IInv'
    OBVIOUS
  <1>1. PICK b : b = Head(to_crc_fail)
    OBVIOUS
  <1>2. /\ b \in Block /\ to_crc_fail' \in Seq(Block)
        /\ ToSet(to_crc_fail) = {b} \cup ToSet(to_crc_fail')
        /\ Once(to_crc_fail') /\ b \notin ToSet(to_crc_fail')
    <2>1. to_crc_fail \in Seq(Block) /\ to_crc_fail # <<>> /\ to_crc_fail' = Tail(to_crc_fail)
          /\ Once(to_crc_fail)
      BY DEF SetCrcFail, IInv, TypeInv, OnePlace
    <2> QED BY <1>1, <2>1, Taken
  <1>3. /\ UNCHANGED <<mobitex_sent, reframerVars, to_crc, to_crc_ok>>
        /\ Held' = Held /\ Forwarded' = Forwarded
        /\ to_reframer' = Append(to_reframer, b)
    BY <1>1 DEF SetCrcFail, reframerVars, Held, Forwarded
  <1>4. b \notin ToSet(to_reframer)
    BY <1>2 DEF IInv, OnePlace, Apart
  <1>5. /\ to_reframer' \in Seq(Block)
        /\ ToSet(to_reframer') = ToSet(to_reframer) \cup {b}
        /\ Once(to_reframer')
    BY <1>2, <1>3, <1>4, Put DEF IInv, TypeInv, OnePlace
  <1>6. OnePlace'
    BY <1>2, <1>3, <1>5 DEF IInv, OnePlace, Apart
  <1>7. Everywhere' \subseteq Everywhere
    BY <1>2, <1>3, <1>5 DEF Everywhere
  <1> QED BY <1>2, <1>3, <1>5, <1>6, <1>7, MovedInv DEF IInv, TypeInv

------------------------------------------------------------------------------
\* The blocks the reframer holds when it has stored b, under their ids.
LEMMA StoredBlocks ==
    ASSUME IInv, NEW b \in Block
    PROVE  /\ DOMAIN Stored(b) = {b.block_id} \cup DOMAIN Kept(b)
           /\ Stored(b)[b.block_id] = b
           /\ \A id \in DOMAIN Stored(b) : id # b.block_id =>
                 /\ b.block_id # 0 /\ id \in DOMAIN blocks
                 /\ Stored(b)[id] = blocks[id]
           /\ DOMAIN Stored(b) \subseteq Nat
           /\ \A id \in DOMAIN Stored(b) : Stored(b)[id] \in Held \cup {b}
  <1>1. /\ DOMAIN Stored(b) = {b.block_id} \cup DOMAIN Kept(b)
        /\ Stored(b)[b.block_id] = b
        /\ \A id \in DOMAIN Stored(b) : id # b.block_id =>
              id \in DOMAIN Kept(b) /\ Stored(b)[id] = Kept(b)[id]
    BY DEF Stored
  <1>2. \A id \in DOMAIN Kept(b) :
            b.block_id # 0 /\ id \in DOMAIN blocks /\ Kept(b)[id] = blocks[id]
    BY DEF Kept, NoBlocks
  <1>3. \A id \in DOMAIN Stored(b) : id # b.block_id =>
            /\ b.block_id # 0 /\ id \in DOMAIN blocks
            /\ Stored(b)[id] = blocks[id]
    BY <1>1, <1>2
  <1>4. b.block_id \in Nat
    BY DEF Block
  <1>5. DOMAIN Stored(b) \subseteq Nat
    BY <1>3, <1>4 DEF IInv, TypeInv
  <1>6. \A id \in DOMAIN Stored(b) : Stored(b)[id] \in Held \cup {b}
    BY <1>1, <1>3 DEF Held
  <1> QED BY <1>1, <1>3, <1>5, <1>6

\* The header the reframer has after b is that of block 0 of what it holds then.
LEMMA HeaderOfStored ==
    ASSUME IInv, NEW b \in Block, Header(b) # NoHeader
    PROVE  /\ 0 \in DOMAIN Stored(b) /\ Stored(b)[0].frame = Header(b)
           /\ Header(b) \in Nat
  <1>1. CASE b.block_id = 0
    <2>1. Header(b) = b.frame /\ b.frame \in Nat
      BY <1>1 DEF Header, Block
    <2> QED BY <1>1, <2>1, StoredBlocks
  <1>2. CASE b.block_id # 0
    <2>1. Header(b) = frame_header /\ Kept(b) = blocks
      BY <1>2 DEF Header, Kept
    <2>2. 0 \in DOMAIN blocks /\ blocks[0].frame = frame_header /\ frame_header \in Nat
      BY <2>1 DEF IInv, HeaderStored, TypeInv
    <2>3. 0 \in DOMAIN Stored(b)
      BY <2>1, <2>2, StoredBlocks
    <2>4. Stored(b)[0] = blocks[0]
      BY <1>2, <2>3, StoredBlocks
    <2> QED BY <2>1, <2>2, <2>3, <2>4
  <1> QED BY <1>1, <1>2

\* A frame that is put together: its blocks are among those the reframer holds, the
\* first one is block 0 (prepare_frame).
LEMMA PreparedFrame ==
    ASSUME IInv, NEW b \in Block, Complete(b, Stored(b)), ~ MissingBlock(Stored(b))
    PROVE  LET f == prepare_frame(Header(b), Stored(b))
           IN  /\ f \in Frame
               /\ f.blocks[1].frame = f.header
               /\ ToSet(f.blocks) \subseteq Held \cup {b}
  <1>1. PICK s : s = Stored(b)
    OBVIOUS
  <1>2. PICK n \in Nat : n = Cardinality(DOMAIN s) /\ n >= 1
    <2>1. Cardinality(DOMAIN s) = b.block_id + 1
      <3>1. b.block_id + 1 = Expected(b) /\ Cardinality(DOMAIN s) = Expected(b)
        BY <1>1 DEF Complete
      <3> QED BY <3>1
    <2>2. b.block_id \in Nat
      BY DEF Block
    <2> QED BY <2>1, <2>2
  <1>3. \A i \in 0 .. n - 1 : i \in DOMAIN s
    BY <1>1, <1>2 DEF MissingBlock
  <1>4. PICK f : f = prepare_frame(Header(b), s)
    OBVIOUS
  <1>5. /\ f = [header |-> Header(b), blocks |-> [i \in 1 .. n |-> s[i - 1]],
                error_code |-> error_code(s)]
    BY <1>2, <1>4 DEF prepare_frame
  <1>6. PICK q : q = [i \in 1 .. n |-> s[i - 1]]
    OBVIOUS
  <1>7. ASSUME NEW i \in 1 .. n PROVE q[i] = s[i - 1] /\ q[i] \in Held \cup {b}
    <2>1. i - 1 \in 0 .. n - 1
      BY <1>2
    <2>2. q[i] = s[i - 1] /\ i - 1 \in DOMAIN s
      BY <1>3, <1>6, <2>1
    <2> QED BY <1>1, <2>2, StoredBlocks
  <1>8. Held \cup {b} \subseteq Block
    BY DEF IInv, TypeInv
  <1>9. q \in [1 .. n -> Block]
    BY <1>6, <1>7, <1>8
  <1>10. q \in Seq(Block) /\ DOMAIN q = 1 .. n
    BY <1>2, <1>9
  <1>11. error_code(s) \subseteq Nat
    BY <1>1, StoredBlocks DEF error_code
  <1>12. Header(b) # NoHeader
    BY DEF Complete
  <1>13. 0 \in DOMAIN s /\ s[0].frame = Header(b) /\ Header(b) \in Nat
    BY <1>1, <1>12, HeaderOfStored
  <1>14. f.header = Header(b) /\ f.blocks = q /\ f.error_code = error_code(s)
    BY <1>5, <1>6
  <1>15. f \in Frame
    BY <1>5, <1>6, <1>10, <1>11, <1>13 DEF Frame
  <1>16. q[1].frame = Header(b)
    <2>1. 1 \in 1 .. n
      BY <1>2
    <2>2. q[1] = s[1 - 1]
      BY <1>7, <2>1
    <2>3. 1 - 1 = 0
      OBVIOUS
    <2> QED BY <1>13, <2>2, <2>3
  <1>17. ToSet(q) \subseteq Held \cup {b}
    BY <1>7, <1>10 DEF ToSet
  <1> QED BY <1>1, <1>4, <1>14, <1>15, <1>16, <1>17

\* The reframer takes a block: it drops it, stores it or forwards a frame with it.
LEMMA ReframeInv == IInv /\ Reframe => IInv'
  <1> SUFFICES ASSUME IInv, Reframe PROVE IInv'
    OBVIOUS
  <1>1. PICK b : b = Head(to_reframer)
    OBVIOUS
  <1>2. /\ b \in Block /\ to_reframer' \in Seq(Block)
        /\ ToSet(to_reframer) = {b} \cup ToSet(to_reframer')
        /\ Once(to_reframer') /\ b \notin ToSet(to_reframer')
    <2>1. to_reframer \in Seq(Block) /\ to_reframer # <<>> /\ to_reframer' = Tail(to_reframer)
          /\ Once(to_reframer)
      BY DEF Reframe, IInv, TypeInv, OnePlace
    <2> QED BY <1>1, <2>1, Taken
  <1>3. UNCHANGED <<mobitex_sent, to_crc, to_crc_ok, to_crc_fail>> /\ handle_msg(b)
    BY <1>1 DEF Reframe
  <1>4. b \notin Held /\ b \notin Forwarded /\ b \in Everywhere
    BY <1>2 DEF IInv, OnePlace, Apart, Everywhere
  \* What remains: where the blocks are that the reframer has held.
  <1>5. ASSUME /\ DOMAIN blocks' \subseteq Nat
               /\ Held' \subseteq Held \cup {b}
               /\ frame_header' \in Nat \cup {NoHeader}
               /\ published' = published
               /\ HeaderStored'
        PROVE  IInv'
    <2>1. Held \cup {b} \subseteq Block /\ Forwarded' = Forwarded
      BY <1>2, <1>5 DEF IInv, TypeInv, Forwarded
    <2>2. TypeInv'
      BY <1>2, <1>3, <1>5, <2>1 DEF IInv, TypeInv
    <2>3. OnePlace'
      BY <1>2, <1>3, <1>4, <1>5, <2>1 DEF IInv, OnePlace, Apart
    <2>4. FramesKnown'
      <3>1. Everywhere' \subseteq Everywhere
        BY <1>2, <1>3, <1>4, <1>5, <2>1 DEF Everywhere
      <3> QED BY <1>3, <3>1 DEF IInv, FramesKnown
    <2> QED BY <1>5, <2>2, <2>3, <2>4 DEF IInv, HeaderOfBlockZero, BlockForwardedOnce
  <1>6. CASE ~ Complete(b, Stored(b))
    <2>1. blocks' = Stored(b) /\ frame_header' = Header(b) /\ published' = published
      BY <1>3, <1>6 DEF handle_msg
    <2>2. DOMAIN blocks' \subseteq Nat /\ Held' \subseteq Held \cup {b}
      <3>1. \A id \in DOMAIN blocks' : blocks'[id] \in Held \cup {b}
        BY <1>2, <2>1, StoredBlocks
      <3>2. DOMAIN blocks' \subseteq Nat
        BY <1>2, <2>1, StoredBlocks
      <3>3. Held' = {blocks'[id] : id \in DOMAIN blocks'}
        BY DEF Held
      <3> QED BY <3>1, <3>2, <3>3
    <2>3. frame_header' \in Nat \cup {NoHeader} /\ HeaderStored'
      BY <1>2, <2>1, HeaderOfStored DEF HeaderStored
    <2> QED BY <1>5, <2>1, <2>2, <2>3
  <1>7. CASE Complete(b, Stored(b))
    <2>1. blocks' = NoBlocks /\ frame_header' = NoHeader /\ publish_frame(Header(b), Stored(b))
      BY <1>3, <1>7 DEF handle_msg, reset
    <2>2. DOMAIN blocks' = {} /\ Held' = {} /\ HeaderStored'
      BY <2>1 DEF NoBlocks, Held, HeaderStored
    <2>3. CASE published' = published
      BY <1>5, <2>1, <2>2, <2>3
    <2>4. CASE published' # published
      <3>1. PICK f : f = prepare_frame(Header(b), Stored(b))
        OBVIOUS
      <3>2. ~ MissingBlock(Stored(b)) /\ published' = Append(published, f)
        BY <2>1, <2>4, <3>1 DEF publish_frame
      <3>3. f \in Frame /\ f.blocks[1].frame = f.header /\ ToSet(f.blocks) \subseteq Held \cup {b}
        BY <1>2, <1>7, <3>1, <3>2, PreparedFrame
      <3>4. PICK n \in Nat : n = Len(published)
        BY DEF IInv, TypeInv
      <3>5. /\ published \in Seq(Frame) /\ DOMAIN published = 1 .. n
            /\ published' \in Seq(Frame) /\ DOMAIN published' = 1 .. n + 1
            /\ published'[n + 1] = f
            /\ \A i \in 1 .. n : published'[i] = published[i]
        BY <3>2, <3>3, <3>4 DEF IInv, TypeInv
      <3>6. \A i \in 1 .. n + 1 : i \in 1 .. n \/ i = n + 1
        BY <3>4
      <3>7. Forwarded' \subseteq Forwarded \cup ToSet(f.blocks)
        BY <3>5, <3>6 DEF Forwarded
      <3>8. \A x \in ToSet(f.blocks) : x \notin Forwarded
        BY <1>4, <3>3 DEF IInv, OnePlace, Apart
      <3>9. TypeInv'
        BY <1>2, <1>3, <2>1, <2>2, <3>5 DEF IInv, TypeInv
      <3>10. OnePlace'
        BY <1>2, <1>3, <1>4, <2>2, <3>3, <3>7 DEF IInv, OnePlace, Apart
      <3>11. FramesKnown'
        <4>1. Everywhere' \subseteq Everywhere
          BY <1>2, <1>3, <1>4, <2>2, <3>3, <3>7 DEF Everywhere
        <4> QED BY <1>3, <4>1 DEF IInv, FramesKnown
      <3>12. HeaderOfBlockZero'
        BY <3>3, <3>5, <3>6 DEF IInv, HeaderOfBlockZero
      <3>13. BlockForwardedOnce'
        <4>1. \A i \in 1 .. n : ToSet(published[i].blocks) \subseteq Forwarded
          BY <3>5 DEF Forwarded
        <4>2. \A i \in 1 .. n : ToSet(published[i].blocks) \cap ToSet(f.blocks) = {}
          BY <3>8, <4>1
        <4>3. \A i, j \in 1 .. n : i # j =>
                  ToSet(published[i].blocks) \cap ToSet(published[j].blocks) = {}
          BY <3>5 DEF IInv, BlockForwardedOnce
        <4> QED BY <3>5, <3>6, <4>2, <4>3 DEF BlockForwardedOnce
      <3> QED BY <2>2, <3>9, <3>10, <3>11, <3>12, <3>13 DEF IInv
    <2> QED BY <2>3, <2>4
  <1> QED BY <1>6, <1>7

------------------------------------------------------------------------------
\* Wherever the paths race, each data block is in one place, and the header that the
\* reframer has stored is the one of the block 0 it holds.
THEOREM Invariance == MobitexSpec => []IInv
  <1>1. MobitexInit => IInv
    BY InitInv
  <1>2. IInv /\ [MobitexNext]_mobitexVars => IInv'
    <2> SUFFICES ASSUME IInv, [MobitexNext]_mobitexVars PROVE IInv'
      OBVIOUS
    <2>1. CASE PublishDatablocks
      BY <2>1, ReceiveInv
    <2>2. CASE CheckBlock
      BY <2>2, CheckBlockInv
    <2>3. CASE SetCrcOk
      BY <2>3, SetCrcOkInv
    <2>4. CASE SetCrcFail
      BY <2>4, SetCrcFailInv
    <2>5. CASE Reframe
      BY <2>5, ReframeInv
    <2>6. CASE UNCHANGED mobitexVars
      <3>1. UNCHANGED <<mobitex_sent, reframerVars, to_crc, to_crc_ok, to_crc_fail, to_reframer>>
            /\ Held' = Held /\ Forwarded' = Forwarded
        BY <2>6 DEF mobitexVars, reframerVars, Held, Forwarded
      <3>2. OnePlace' /\ Everywhere' = Everywhere
        BY <3>1 DEF IInv, OnePlace, Everywhere
      <3> QED BY <3>1, <3>2, MovedInv DEF IInv, TypeInv
    <2> QED BY <2>1, <2>2, <2>3, <2>4, <2>5, <2>6 DEF MobitexNext
  <1> QED BY <1>1, <1>2, PTL DEF MobitexSpec

\* A frame that is forwarded has the header of the frame its block 0 came from
\* (tubix20_reframer.handle_msg).
THEOREM HeaderCorrect == MobitexSpec => []HeaderOfBlockZero
  <1>1. IInv => HeaderOfBlockZero
    BY DEF IInv
  <1> QED BY <1>1, Invariance, PTL

\* No data block is forwarded in two frames (tubix20_reframer.publish_frame and reset).
THEOREM ForwardedOnce == MobitexSpec => []BlockForwardedOnce
  <1>1. IInv => BlockForwardedOnce
    BY DEF IInv
  <1> QED BY <1>1, Invariance, PTL
------------------------------------------------------------------------------
\* What is left of the stream when its first data block is taken.
LEMMA StreamTaken ==
    ASSUME NEW s \in Seq(Seq(BOOLEAN)), NEW q \in Seq(Block), q # <<>>,
           NEW f, NEW k, Stream(q, s, f, k)
    PROVE  /\ Sound(Head(q), s) /\ Head(q).frame = f /\ Head(q).block_id = k
           /\ f \in DOMAIN s /\ k \in Nat /\ k < Len(s[f])
           /\ k + 1 < Len(s[f]) => Stream(Tail(q), s, f, k + 1)
           /\ k + 1 = Len(s[f]) => Stream(Tail(q), s, f + 1, 0)
  <1>1. PICK n \in Nat : n = Len(q) /\ n >= 1
    OBVIOUS
  <1>2. PICK b : b = q[1]
    OBVIOUS
  <1>3. PICK t : t = Tail(q)
    OBVIOUS
  <1>4. /\ t \in Seq(Block) /\ Head(q) = b /\ Len(t) = n - 1
        /\ \A i \in 1 .. n - 1 : t[i] = q[i + 1]
    BY <1>1, <1>2, <1>3
  <1>5. /\ Sound(b, s) /\ b.frame = f /\ b.block_id = k
    BY <1>1, <1>2 DEF Stream
  <1>6. /\ f \in DOMAIN s /\ f \in Nat /\ k \in Nat /\ k < Len(s[f]) /\ b.num_blocks = Len(s[f])
        /\ Len(s[f]) \in Nat
    <2>1. b.frame \in Nat /\ b.block_id \in Nat
      BY <1>5 DEF Sound, Block
    <2>2. f \in DOMAIN s /\ k < Len(s[f]) /\ b.num_blocks = Len(s[f])
      BY <1>5 DEF Sound
    <2>3. s[f] \in Seq(BOOLEAN)
      BY <2>2
    <2> QED BY <1>5, <2>1, <2>2, <2>3
  <1>7. /\ \A j \in 1 .. Len(t) : Sound(t[j], s)
        /\ \A j \in 1 .. Len(t) - 1 : Behind(t[j], t[j + 1])
    <2>1. \A j \in 1 .. n - 1 : j + 1 \in 1 .. n
      BY <1>1
    <2>2. \A j \in 1 .. n - 1 : Sound(t[j], s)
      BY <1>1, <1>4, <2>1 DEF Stream
    <2>3. ASSUME NEW j \in 1 .. (n - 1) - 1 PROVE Behind(t[j], t[j + 1])
      <3>1. j \in 1 .. n - 1 /\ j + 1 \in 1 .. n - 1
        BY <1>1
      <3>2. Behind(q[j + 1], q[(j + 1) + 1])
        BY <1>1, <3>1 DEF Stream
      <3> QED BY <1>4, <3>1, <3>2
    <2> QED BY <1>4, <2>2, <2>3
  <1>8. CASE n = 1
    <2>1. t = <<>>
      BY <1>3, <1>4, <1>8
    <2>2. b.frame = Len(s) /\ b.block_id + 1 = b.num_blocks
      BY <1>1, <1>2, <1>8 DEF Stream
    <2>3. f = Len(s) /\ k + 1 = Len(s[f])
      BY <1>5, <1>6, <2>2
    <2>4. Stream(t, s, f + 1, 0)
      BY <1>7, <2>1, <2>3 DEF Stream
    <2> QED BY <1>3, <1>4, <1>5, <1>6, <2>3, <2>4
  <1>9. CASE n # 1
    <2>1. Behind(b, q[2])
      <3>1. 1 \in 1 .. n - 1 /\ 1 + 1 = 2
        BY <1>1, <1>9
      <3> QED BY <1>1, <1>2, <3>1 DEF Stream
    <2>2. t[1] = q[2] /\ t[n - 1] = q[n] /\ t # <<>>
      <3>1. 1 \in 1 .. n - 1 /\ n - 1 \in 1 .. n - 1 /\ 1 + 1 = 2 /\ (n - 1) + 1 = n
        BY <1>1, <1>9
      <3> QED BY <1>1, <1>4, <1>9, <3>1
    <2>3. t[Len(t)].frame = Len(s) /\ t[Len(t)].block_id + 1 = t[Len(t)].num_blocks
      BY <1>1, <1>4, <2>2 DEF Stream
    <2>4. ASSUME k + 1 < Len(s[f]) PROVE Stream(t, s, f, k + 1)
      <3>1. t[1].frame = f /\ t[1].block_id = k + 1
        BY <1>5, <1>6, <2>1, <2>2, <2>4 DEF Behind
      <3> QED BY <1>7, <2>2, <2>3, <3>1 DEF Stream
    <2>5. ASSUME k + 1 = Len(s[f]) PROVE Stream(t, s, f + 1, 0)
      <3>1. t[1].frame = f + 1 /\ t[1].block_id = 0
        BY <1>5, <1>6, <2>1, <2>2, <2>5 DEF Behind
      <3> QED BY <1>7, <2>2, <2>3, <3>1 DEF Stream
    <2> QED BY <1>3, <1>4, <1>5, <1>6, <2>4, <2>5
  <1> QED BY <1>8, <1>9

\* The data blocks of a frame that is received without errors go on with the stream.
LEMMA StreamReceived ==
    ASSUME NEW s \in Seq(Seq(BOOLEAN)), NEW q \in Seq(Block), NEW f, NEW k, Stream(q, s, f, k),
           NEW n \in Nat, n >= 1, NEW o \in [1 .. n -> {TRUE}]
    PROVE  Stream(q \o DataBlocks(Len(s) + 1, o), Append(s, o), f, k)
  <1>1. PICK l \in Nat : l = Len(s)
    OBVIOUS
  <1>2. PICK m \in Nat : m = Len(q)
    OBVIOUS
  <1>3. /\ o \in Seq(BOOLEAN) /\ Len(o) = n
    <2>1. o \in [1 .. n -> BOOLEAN]
      OBVIOUS
    <2> QED BY <2>1
  <1>4. PICK s2 : s2 = Append(s, o)
    OBVIOUS
  <1>5. /\ s2 \in Seq(Seq(BOOLEAN)) /\ Len(s2) = l + 1 /\ s2[l + 1] = o
        /\ DOMAIN s = 1 .. l /\ DOMAIN s2 = 1 .. l + 1
        /\ \A i \in 1 .. l : s2[i] = s[i]
    BY <1>1, <1>3, <1>4
  <1>6. PICK d : d = DataBlocks(l + 1, o)
    OBVIOUS
  <1>7. /\ d = [i \in 1 .. n |-> [frame |-> l + 1, block_id |-> i - 1, num_blocks |-> n,
                                  crc_valid |-> o[i]]]
    BY <1>3, <1>6 DEF DataBlocks
  <1>8. \A i \in 1 .. n : /\ d[i] \in Block /\ d[i].frame = l + 1 /\ d[i].block_id = i - 1
                          /\ d[i].num_blocks = n /\ d[i].crc_valid
    <2>1. ASSUME NEW i \in 1 .. n
          PROVE  /\ d[i] \in Block /\ d[i].frame = l + 1 /\ d[i].block_id = i - 1
                 /\ d[i].num_blocks = n /\ d[i].crc_valid
      <3>1. i - 1 \in Nat /\ l + 1 \in Nat
        BY <1>1
      <3>2. d[i] = [frame |-> l + 1, block_id |-> i - 1, num_blocks |-> n, crc_valid |-> TRUE]
        BY <1>7
      <3> QED BY <3>1, <3>2 DEF Block
    <2> QED BY <2>1
  <1>9. d \in Seq(Block) /\ Len(d) = n
    <2>1. DOMAIN d = 1 .. n /\ \A i \in 1 .. n : d[i] \in Block
      BY <1>7, <1>8
    <2>2. d \in [1 .. n -> Block]
      BY <1>7, <2>1
    <2> QED BY <2>2
  <1>10. PICK r : r = q \o d
    OBVIOUS
  <1>11. /\ r \in Seq(Block) /\ Len(r) = m + n
         /\ \A i \in 1 .. m : r[i] = q[i]
         /\ \A i \in 1 .. n : r[m + i] = d[i]
    <2>1. r \in Seq(Block) /\ Len(r) = m + n
      <3>1. \A x, y \in Seq(Block) : x \o y \in Seq(Block) /\ Len(x \o y) = Len(x) + Len(y)
        OBVIOUS
      <3> QED BY <1>2, <1>9, <1>10, <3>1
    <2>2. \A i \in 1 .. m : r[i] = q[i]
      BY <1>2, <1>9, <1>10
    <2>3. ASSUME NEW i \in 1 .. n PROVE r[m + i] = d[i]
      <3>1. m + i \in 1 .. m + n /\ ~(m + i <= m) /\ (m + i) - m = i
        OBVIOUS
      <3> QED BY <1>2, <1>9, <1>10, <3>1
    <2> QED BY <2>1, <2>2, <2>3
  <1>12. ASSUME NEW x, Sound(x, s) PROVE Sound(x, s2)
    BY <1>5, <1>12 DEF Sound
  <1>13. \A i \in 1 .. n : Sound(d[i], s2)
    <2>1. ASSUME NEW i \in 1 .. n PROVE Sound(d[i], s2)
      <3>1. i - 1 < n /\ l + 1 \in 1 .. l + 1
        BY <1>1
      <3> QED BY <1>3, <1>5, <1>8, <3>1 DEF Sound
    <2> QED BY <2>1
  <1>14. ASSUME NEW j \in 1 .. Len(r) PROVE Sound(r[j], s2)
    <2>1. CASE j \in 1 .. m
      BY <1>2, <1>11, <1>12, <2>1 DEF Stream
    <2>2. CASE j \notin 1 .. m
      <3>1. PICK i \in 1 .. n : j = m + i
        <4>1. j - m \in 1 .. n /\ j = m + (j - m)
          BY <1>11, <2>2
        <4> QED BY <4>1
      <3> QED BY <1>11, <1>13, <3>1
    <2> QED BY <2>1, <2>2
  <1>15. ASSUME NEW j \in 1 .. Len(r) - 1 PROVE Behind(r[j], r[j + 1])
    <2>1. CASE j < m
      <3>1. j \in 1 .. m - 1 /\ j \in 1 .. m /\ j + 1 \in 1 .. m
        BY <2>1
      <3> QED BY <1>2, <1>11, <3>1 DEF Stream
    <2>2. CASE j = m
      <3>1. r[j] = q[m] /\ r[j + 1] = d[1] /\ q # <<>>
        <4>1. j \in 1 .. m /\ 1 \in 1 .. n
          BY <2>2
        <4> QED BY <1>2, <1>11, <2>2, <4>1
      <3>2. q[m].frame = l /\ q[m].block_id + 1 = q[m].num_blocks
        BY <1>1, <1>2, <3>1 DEF Stream
      <3>3. d[1].frame = l + 1 /\ d[1].block_id = 0
        <4>1. 1 \in 1 .. n /\ 1 - 1 = 0
          OBVIOUS
        <4> QED BY <1>8, <4>1
      <3>4. q[m].num_blocks \in Nat /\ q[m].block_id \in Nat
        <4>1. q[m] \in Block
          BY <1>2, <2>2
        <4> QED BY <4>1 DEF Block
      <3>5. ~(q[m].block_id + 1 < q[m].num_blocks)
        BY <3>2, <3>4
      <3> QED BY <3>1, <3>2, <3>3, <3>5 DEF Behind
    <2>3. CASE j > m
      <3>1. PICK i \in 1 .. n - 1 : j = m + i
        <4>1. j - m \in 1 .. n - 1 /\ j = m + (j - m)
          BY <1>11, <2>3
        <4> QED BY <4>1
      <3>2. i \in 1 .. n /\ i + 1 \in 1 .. n /\ j + 1 = m + (i + 1)
        BY <3>1
      <3>3. r[j] = d[i] /\ r[j + 1] = d[i + 1]
        BY <1>11, <3>1, <3>2
      <3>4. /\ d[i].block_id = i - 1 /\ d[i].num_blocks = n /\ d[i].frame = l + 1
            /\ d[i + 1].block_id = (i + 1) - 1 /\ d[i + 1].frame = l + 1
        BY <1>8, <3>2
      <3> QED BY <3>1, <3>3, <3>4 DEF Behind
    <2> QED BY <1>2, <2>1, <2>2, <2>3
  <1>16. r # <<>>
    BY <1>2, <1>11
  <1>17. r[1].frame = f /\ r[1].block_id = k
    <2>1. CASE q = <<>>
      <3>1. r[1] = d[1] /\ f = l + 1 /\ k = 0
        <4>1. m = 0 /\ 1 \in 1 .. n /\ m + 1 = 1
          BY <1>2, <2>1
        <4>2. r[m + 1] = d[1]
          BY <1>11, <4>1
        <4>3. f = l + 1 /\ k = 0
          BY <1>1, <2>1 DEF Stream
        <4> QED BY <4>1, <4>2, <4>3
      <3>2. d[1].frame = l + 1 /\ d[1].block_id = 0
        <4>1. 1 \in 1 .. n /\ 1 - 1 = 0
          OBVIOUS
        <4> QED BY <1>8, <4>1
      <3> QED BY <3>1, <3>2
    <2>2. CASE q # <<>>
      <3>1. r[1] = q[1]
        <4>1. 1 \in 1 .. m
          BY <1>2, <2>2
        <4> QED BY <1>11, <4>1
      <3>2. q[1].frame = f /\ q[1].block_id = k
        BY <2>2 DEF Stream
      <3> QED BY <3>1, <3>2
    <2> QED BY <2>1, <2>2
  <1>18. r[Len(r)].frame = Len(s2) /\ r[Len(r)].block_id + 1 = r[Len(r)].num_blocks
    <2>1. n \in 1 .. n
      OBVIOUS
    <2>2. r[m + n] = d[n]
      BY <1>11, <2>1
    <2>3. d[n].frame = l + 1 /\ d[n].block_id = n - 1 /\ d[n].num_blocks = n
      BY <1>8, <2>1
    <2> QED BY <1>5, <1>11, <2>2, <2>3
  <1>19. Stream(r, s2, f, k)
    BY <1>14, <1>15, <1>16, <1>17, <1>18 DEF Stream
  <1> QED BY <1>1, <1>4, <1>6, <1>10, <1>19

\* A block goes from the front of one queue to the end of the one before it.
LEMMA Moved ==
    ASSUME NEW S, NEW p \in Seq(S), NEW q \in Seq(S), q # <<>>
    PROVE  Append(p, Head(q)) \o Tail(q) = p \o q
  OBVIOUS

LEMMA Associative ==
    ASSUME NEW S, NEW p \in Seq(S), NEW q \in Seq(S), NEW r \in Seq(S)
    PROVE  (p \o q) \o r = p \o (q \o r)
  OBVIOUS

\* With a first block missing from a queue the rest of the line is a queue, too.
LEMMA TakenFromLine ==
    ASSUME NEW S, NEW p \in Seq(S), NEW q \in Seq(S), p # <<>>
    PROVE  p \o q # <<>> /\ Head(p \o q) = Head(p) /\ Tail(p \o q) = Tail(p) \o q
  OBVIOUS
\* At first there is nothing on the line.
LEMMA InitInOrder == MobitexInit => InOrder
  <1> SUFFICES ASSUME MobitexInit PROVE InOrder
    OBVIOUS
  <1>1. /\ mobitex_sent = <<>> /\ to_crc = <<>> /\ to_crc_ok = <<>> /\ to_crc_fail = <<>>
        /\ to_reframer = <<>> /\ blocks = NoBlocks /\ published = <<>>
    BY DEF MobitexInit, ReframerInit
  <1>2. DOMAIN blocks = 0 .. 0 - 1
    BY <1>1 DEF NoBlocks
  <1>3. Line = <<>>
    BY <1>1 DEF Line
  <1>4. Stream(Line, mobitex_sent, Len(published) + 1, 0)
    BY <1>1, <1>3 DEF Stream
  <1>5. 0 \in Nat /\ \A i \in 0 .. 0 - 1 : FALSE
    OBVIOUS
  <1> QED BY <1>1, <1>2, <1>4, <1>5 DEF InOrder

\* InOrder is about where the line begins only: a step that leaves it and the reframer
\* as they are keeps it.
LEMMA SameLine ==
    ASSUME InOrder, UNCHANGED <<reframerVars, mobitex_sent>>, Line' = Line,
           AllValid => to_crc_fail' = <<>>
    PROVE  InOrder'
  <1>1. /\ published' = published /\ blocks' = blocks /\ frame_header' = frame_header
        /\ num_blocks_expected' = num_blocks_expected /\ mobitex_sent' = mobitex_sent
    BY DEF reframerVars
  <1>2. AllValid' <=> AllValid
    BY <1>1 DEF AllValid
  <1> QED BY <1>1, <1>2 DEF InOrder

\* A frame is received, perhaps with errors.
LEMMA ReceiveInOrder == ASSUME IInv, InOrder, PublishDatablocks PROVE InOrder'
  <1>1. PICK n \in BlockCounts : \E outcomes \in [1 .. n -> BOOLEAN] :
            /\ mobitex_sent' = Append(mobitex_sent, outcomes)
            /\ to_crc' = to_crc \o DataBlocks(Len(mobitex_sent) + 1, outcomes)
    BY DEF PublishDatablocks
  <1>2. PICK outcomes \in [1 .. n -> BOOLEAN] :
            /\ mobitex_sent' = Append(mobitex_sent, outcomes)
            /\ to_crc' = to_crc \o DataBlocks(Len(mobitex_sent) + 1, outcomes)
    BY <1>1
  <1>3. UNCHANGED <<reframerVars, to_crc_ok, to_crc_fail, to_reframer>>
    BY DEF PublishDatablocks
  <1>4. n \in Nat /\ n >= 1
    BY BlockCountsAssumption
  <1>5. outcomes \in Seq(BOOLEAN)
    BY <1>4
  <1>6. PICK s \in Seq(Seq(BOOLEAN)) : s = mobitex_sent
    BY DEF IInv, TypeInv
  <1>7. PICK l \in Nat : l = Len(s)
    OBVIOUS
  <1>8. /\ mobitex_sent' = Append(s, outcomes)
        /\ DOMAIN s = 1 .. l
        /\ DOMAIN Append(s, outcomes) = 1 .. l + 1
        /\ \A i \in 1 .. l : Append(s, outcomes)[i] = s[i]
        /\ Append(s, outcomes)[l + 1] = outcomes
    BY <1>2, <1>5, <1>6, <1>7
  <1> SUFFICES ASSUME AllValid' PROVE InOrder'
    BY DEF InOrder
  <1>9. AllValid
    <2>1. \A i \in 1 .. l : i \in 1 .. l + 1
      BY <1>7
    <2> QED BY <1>6, <1>8, <2>1 DEF AllValid
  <1>10. outcomes \in [1 .. n -> {TRUE}]
    <2>1. l + 1 \in 1 .. l + 1
      BY <1>7
    <2>2. \A i \in DOMAIN outcomes : outcomes[i]
      BY <1>8, <2>1 DEF AllValid
    <2> QED BY <2>2
  <1>11. PICK new : new = DataBlocks(l + 1, outcomes)
    OBVIOUS
  <1>12. new \in Seq(Block)
    BY <1>5, <1>7, <1>11, NewBlocks
  <1>13. Line' = Line \o new /\ Line \in Seq(Block)
    <2>1. to_crc \in Seq(Block) /\ to_crc_ok \in Seq(Block) /\ to_reframer \in Seq(Block)
      BY DEF IInv, TypeInv
    <2>2. PICK S : S = Seq(Block)
      OBVIOUS
    <2>3. \A p \in S : \A q \in S : p \o q \in S
      BY <2>2, Joined
    <2>4. \A p \in S : \A q \in S : \A r \in S : (p \o q) \o r = p \o (q \o r)
      BY <2>2, Associative
    <2>5. to_crc' = to_crc \o new
      BY <1>2, <1>6, <1>7, <1>11
    <2>6. PICK c, o, r : c = to_crc /\ o = to_crc_ok /\ r = to_reframer
      OBVIOUS
    <2>7. c \in S /\ o \in S /\ r \in S /\ new \in S
      BY <1>12, <2>1, <2>2, <2>6
    <2>8. r \o (o \o (c \o new)) = (r \o (o \o c)) \o new
      BY <2>3, <2>4, <2>7
    <2>9. Line = r \o (o \o c) /\ Line' = r \o (o \o (c \o new))
      BY <1>3, <2>5, <2>6 DEF Line
    <2>10. Line \in Seq(Block)
      BY <2>2, <2>3, <2>7, <2>9
    <2> QED BY <2>8, <2>9, <2>10
  <1>14. /\ published' = published /\ blocks' = blocks /\ frame_header' = frame_header
         /\ num_blocks_expected' = num_blocks_expected /\ to_crc_fail' = to_crc_fail
    BY <1>3 DEF reframerVars
  <1>15. PICK p \in Nat : p = Len(published)
    BY DEF IInv, TypeInv
  <1>16. PICK k \in Nat :
            /\ DOMAIN blocks = 0 .. k - 1
            /\ \A i \in 0 .. k - 1 : /\ Sound(blocks[i], s)
                                     /\ blocks[i].frame = p + 1
                                     /\ blocks[i].block_id = i
            /\ k > 0 => /\ frame_header = p + 1
                        /\ num_blocks_expected = Len(s[p + 1])
            /\ Stream(Line, s, p + 1, k)
    BY <1>6, <1>9, <1>15 DEF InOrder
  <1>17. ASSUME NEW i \in 0 .. k - 1 PROVE Sound(blocks[i], mobitex_sent')
    <2>1. Sound(blocks[i], s)
      BY <1>16
    <2>2. \A j \in 1 .. l : j \in 1 .. l + 1
      BY <1>7
    <2> QED BY <1>8, <2>1, <2>2 DEF Sound
  <1>18. k > 0 => mobitex_sent'[p + 1] = s[p + 1]
    <2>1. ASSUME k > 0 PROVE p + 1 \in 1 .. l
      <3>1. 0 \in 0 .. k - 1
        BY <2>1
      <3> QED BY <1>8, <1>16, <3>1 DEF Sound
    <2> QED BY <1>8, <2>1
  <1>19. Stream(Line', mobitex_sent', p + 1, k)
    <2>1. Stream(Line \o DataBlocks(Len(s) + 1, outcomes), Append(s, outcomes), p + 1, k)
      BY <1>4, <1>10, <1>13, <1>16, StreamReceived
    <2> QED BY <1>7, <1>8, <1>11, <1>13, <2>1
  <1>20. to_crc_fail' = <<>>
    BY <1>9, <1>14 DEF InOrder
  <1> QED BY <1>14, <1>15, <1>16, <1>17, <1>18, <1>19, <1>20 DEF InOrder

\* The CRC of a block is checked; without errors it is valid.
LEMMA CheckBlockInOrder == ASSUME IInv, InOrder, CheckBlock PROVE InOrder'
  <1>1. /\ to_crc \in Seq(Block) /\ to_crc_ok \in Seq(Block) /\ to_reframer \in Seq(Block)
        /\ to_crc # <<>> /\ to_crc' = Tail(to_crc)
        /\ UNCHANGED <<reframerVars, mobitex_sent, to_reframer>>
    BY DEF CheckBlock, IInv, TypeInv
  <1>2. CASE ~AllValid
    <2>1. ~AllValid'
      BY <1>1, <1>2 DEF AllValid
    <2> QED BY <2>1 DEF InOrder
  <1>3. CASE AllValid
    <2>1. Head(to_crc).crc_valid
      <3>1. PICK f, k : Stream(Line, mobitex_sent, f, k)
        BY <1>3 DEF InOrder
      <3>2. PICK q \in Seq(Block) : q = to_reframer \o to_crc_ok
        BY <1>1, Joined
      <3>3. Line = q \o to_crc
        BY <1>1, <3>2, Associative, SMTT(20) DEF Line
      <3>4. PICK m \in Nat : m = Len(q)
        BY <3>2
      <3>5. PICK n \in Nat : n = Len(to_crc) /\ n >= 1
        BY <1>1
      <3>6. Line[m + 1] = Head(to_crc) /\ Len(Line) = m + n
        <4>1. \A x, y \in Seq(Block) : y # <<>> =>
                  (x \o y)[Len(x) + 1] = Head(y) /\ Len(x \o y) = Len(x) + Len(y)
          OBVIOUS
        <4> QED BY <1>1, <3>2, <3>3, <3>4, <3>5, <4>1
      <3>7. m + 1 \in 1 .. Len(Line)
        BY <3>4, <3>5, <3>6
      <3> QED BY <3>1, <3>6, <3>7 DEF Stream, Sound
    <2>2. to_crc_ok' = Append(to_crc_ok, Head(to_crc)) /\ to_crc_fail' = to_crc_fail
      BY <2>1 DEF CheckBlock
    <2>3. to_crc_ok' \o to_crc' = to_crc_ok \o to_crc
      BY <1>1, <2>2, Moved
    <2>4. Line' = Line
      BY <1>1, <2>3 DEF Line
    <2>5. to_crc_fail' = <<>>
      BY <1>3, <2>2 DEF InOrder
    <2> QED BY <1>1, <2>4, <2>5, SameLine
  <1> QED BY <1>2, <1>3

\* The paths: the one is used, the other is not.
LEMMA SetCrcOkInOrder == ASSUME IInv, InOrder, SetCrcOk PROVE InOrder'
  <1>1. /\ to_crc \in Seq(Block) /\ to_crc_ok \in Seq(Block) /\ to_reframer \in Seq(Block)
        /\ to_crc_ok # <<>> /\ to_crc_ok' = Tail(to_crc_ok)
        /\ to_reframer' = Append(to_reframer, Head(to_crc_ok))
        /\ UNCHANGED <<reframerVars, mobitex_sent, to_crc, to_crc_fail>>
    BY DEF SetCrcOk, IInv, TypeInv
  <1>2. PICK q \in Seq(Block) : q = to_crc_ok \o to_crc
    BY <1>1, Joined
  <1>3. q # <<>> /\ Head(q) = Head(to_crc_ok) /\ Tail(q) = Tail(to_crc_ok) \o to_crc
    <2>1. \A x, y \in Seq(Block) : x # <<>> =>
              x \o y # <<>> /\ Head(x \o y) = Head(x) /\ Tail(x \o y) = Tail(x) \o y
      BY TakenFromLine
    <2> QED BY <1>1, <1>2, <2>1
  <1>4. Append(to_reframer, Head(q)) \o Tail(q) = to_reframer \o q
    BY <1>1, <1>2, <1>3, Moved
  <1>5. Line' = Line
    BY <1>1, <1>2, <1>3, <1>4 DEF Line
  <1>6. AllValid => to_crc_fail' = <<>>
    BY <1>1 DEF InOrder
  <1> QED BY <1>1, <1>5, <1>6, SameLine

LEMMA SetCrcFailInOrder == ASSUME InOrder, SetCrcFail PROVE InOrder'
  <1>1. to_crc_fail # <<>> /\ mobitex_sent' = mobitex_sent
    BY DEF SetCrcFail
  <1>2. ~AllValid'
    BY <1>1 DEF InOrder, AllValid
  <1> QED BY <1>2 DEF InOrder
\* With the data blocks 0 .. k of frame f the reframer holds the whole frame, if k is
\* the last, and puts it together (prepare_frame).
LEMMA WholeFrameStored ==
    ASSUME AllValid, mobitex_sent \in Seq(Seq(BOOLEAN)),
           NEW f \in DOMAIN mobitex_sent, NEW k \in Nat, k + 1 = Len(mobitex_sent[f]),
           NEW stored, DOMAIN stored = 0 .. k,
           \A i \in 0 .. k : /\ Sound(stored[i], mobitex_sent)
                             /\ stored[i].frame = f
                             /\ stored[i].block_id = i
    PROVE  /\ num_blocks_correct(stored) >= 1
           /\ MissingBlock(stored) = FALSE
           /\ prepare_frame(f, stored) = WholeFrame(f)
  <1>1. Cardinality(DOMAIN stored) = k + 1
    <2>1. Cardinality(0 .. k) = k - 0 + 1
      BY FS_Interval
    <2> QED BY <2>1
  <1>2. \A i \in 0 .. k : stored[i].crc_valid
    BY DEF Sound
  <1>3. num_blocks_correct(stored) >= 1
    <2>1. {id \in DOMAIN stored : stored[id].crc_valid} = DOMAIN stored
      BY <1>2
    <2>2. num_blocks_correct(stored) = Cardinality(DOMAIN stored)
      BY <2>1 DEF num_blocks_correct
    <2> QED BY <1>1, <2>2
  <1>4. MissingBlock(stored) = FALSE
    BY <1>1 DEF MissingBlock
  <1>5. error_code(stored) = {}
    BY <1>2 DEF error_code
  <1>6. PICK n \in Nat : n = Len(mobitex_sent[f]) /\ n = k + 1
    OBVIOUS
  <1>7. PICK o \in Seq(BOOLEAN) : o = mobitex_sent[f]
    OBVIOUS
  <1>8. \A i \in 1 .. n : o[i] = TRUE
    <2>1. DOMAIN o = 1 .. n /\ \A i \in 1 .. n : o[i] \in BOOLEAN
      <3>1. \A q \in Seq(BOOLEAN) : /\ DOMAIN q = 1 .. Len(q)
                                    /\ \A i \in 1 .. Len(q) : q[i] \in BOOLEAN
        OBVIOUS
      <3>2. Len(o) = n
        BY <1>6, <1>7
      <3> QED BY <3>1, <3>2, Zenon
    <2>2. \A i \in DOMAIN o : o[i]
      BY <1>7, Zenon DEF AllValid
    <2> QED BY <2>1, <2>2, Zenon
  <1>9. ASSUME NEW i \in 1 .. n
        PROVE  stored[i - 1] = [frame |-> f, block_id |-> i - 1, num_blocks |-> n,
                                crc_valid |-> o[i]]
    <2>1. PICK b : b = stored[i - 1]
      OBVIOUS
    <2>2. i - 1 \in 0 .. k
      BY <1>6
    <2>3. /\ b \in Block /\ b.frame = f /\ b.block_id = i - 1 /\ b.num_blocks = n /\ b.crc_valid
      BY <1>6, <2>1, <2>2 DEF Sound
    <2>4. b.crc_valid = TRUE
      BY <2>3 DEF Block
    <2> QED BY <1>8, <2>1, <2>3, <2>4 DEF Block
  <1>10. [i \in 1 .. Cardinality(DOMAIN stored) |-> stored[i - 1]] = DataBlocks(f, mobitex_sent[f])
    BY <1>1, <1>6, <1>7, <1>9 DEF DataBlocks
  <1> QED BY <1>3, <1>4, <1>5, <1>10 DEF prepare_frame, WholeFrame

\* The reframer takes the next block of the stream.
LEMMA ReframeInOrder ==
    ASSUME IInv, InOrder, PerfectReceptionInOrder, Reframe
    PROVE  InOrder' /\ PerfectReceptionInOrder'
  <1>1. /\ to_crc \in Seq(Block) /\ to_crc_ok \in Seq(Block) /\ to_reframer \in Seq(Block)
        /\ to_reframer # <<>> /\ to_reframer' = Tail(to_reframer)
        /\ handle_msg(Head(to_reframer))
        /\ UNCHANGED <<mobitex_sent, to_crc, to_crc_ok, to_crc_fail>>
    BY DEF Reframe, IInv, TypeInv
  <1>2. AllValid' <=> AllValid
    BY <1>1 DEF AllValid
  <1>3. CASE ~AllValid
    BY <1>2, <1>3 DEF InOrder, PerfectReceptionInOrder
  <1>4. CASE AllValid
    <2>1. PICK s \in Seq(Seq(BOOLEAN)) : s = mobitex_sent
      BY DEF IInv, TypeInv
    <2>2. PICK p \in Nat : p = Len(published)
      BY DEF IInv, TypeInv
    <2>3. PICK k \in Nat :
              /\ DOMAIN blocks = 0 .. k - 1
              /\ \A i \in 0 .. k - 1 : /\ Sound(blocks[i], s)
                                       /\ blocks[i].frame = p + 1
                                       /\ blocks[i].block_id = i
              /\ k > 0 => /\ frame_header = p + 1
                          /\ num_blocks_expected = Len(s[p + 1])
              /\ Stream(Line, s, p + 1, k)
      BY <1>4, <2>1, <2>2 DEF InOrder
    <2>4. PICK b : b = Head(to_reframer)
      OBVIOUS
    <2>5. /\ Line \in Seq(Block) /\ Line # <<>> /\ Head(Line) = b /\ Line' = Tail(Line)
      <3>1. PICK q \in Seq(Block) : q = to_crc_ok \o to_crc
        BY <1>1, Joined
      <3>2. \A x, y \in Seq(Block) : x # <<>> =>
                x \o y # <<>> /\ Head(x \o y) = Head(x) /\ Tail(x \o y) = Tail(x) \o y
        BY TakenFromLine
      <3>3. Line = to_reframer \o q /\ Line' = to_reframer' \o q
        BY <1>1, <3>1 DEF Line
      <3>4. Line \in Seq(Block)
        BY <1>1, <3>1, <3>3, Joined
      <3> QED BY <1>1, <2>4, <3>1, <3>2, <3>3, <3>4
    <2>6. /\ Sound(b, s) /\ b.frame = p + 1 /\ b.block_id = k
          /\ p + 1 \in DOMAIN s /\ k < Len(s[p + 1])
          /\ k + 1 < Len(s[p + 1]) => Stream(Line', s, p + 1, k + 1)
          /\ k + 1 = Len(s[p + 1]) => Stream(Line', s, (p + 1) + 1, 0)
      <3>1. PICK line \in Seq(Block) : line = Line
        BY <2>5
      <3>2. PICK rest : rest = Line'
        OBVIOUS
      <3>3. line # <<>> /\ Head(line) = b /\ rest = Tail(line) /\ Stream(line, s, p + 1, k)
        BY <2>3, <2>5, <3>1, <3>2
      <3>4. /\ Sound(b, s) /\ b.frame = p + 1 /\ b.block_id = k
            /\ p + 1 \in DOMAIN s /\ k < Len(s[p + 1])
            /\ k + 1 < Len(s[p + 1]) => Stream(rest, s, p + 1, k + 1)
            /\ k + 1 = Len(s[p + 1]) => Stream(rest, s, (p + 1) + 1, 0)
        BY <3>3, StreamTaken
      <3> QED BY <3>2, <3>4
    <2>7. PICK n \in Nat : n = Len(s[p + 1]) /\ n >= 1
      BY <2>3, <2>6
    <2>8. b.num_blocks = n /\ b.block_id = k
      BY <2>6, <2>7 DEF Sound
    <2>9. Expected(b) = n /\ Header(b) = p + 1
      <3>1. CASE k = 0
        BY <2>6, <2>8, <3>1 DEF Expected, Header
      <3>2. CASE k # 0
        <4>1. num_blocks_expected = n /\ frame_header = p + 1
          BY <2>3, <2>7, <3>2
        <4> QED BY <2>8, <3>2, <4>1 DEF Expected, Header
      <3> QED BY <3>1, <3>2
    <2>10. DOMAIN Kept(b) = 0 .. k - 1 /\ \A i \in 0 .. k - 1 : Kept(b)[i] = blocks[i]
      <3>1. CASE k = 0
        BY <2>3, <2>8, <3>1 DEF Kept, NoBlocks
      <3>2. CASE k # 0
        BY <2>3, <2>8, <3>2 DEF Kept
      <3> QED BY <3>1, <3>2
    <2>11. PICK stored : stored = Stored(b)
      OBVIOUS
    <2>12. DOMAIN stored = 0 .. k
      BY <2>3, <2>8, <2>10, <2>11 DEF Stored
    <2>13. \A i \in 0 .. k : stored[i] = IF i = k THEN b ELSE blocks[i]
      <3>1. ASSUME NEW i \in 0 .. k, i # k PROVE i \in 0 .. k - 1
        BY <3>1
      <3>2. stored[k] = b
        BY <2>8, <2>10, <2>11 DEF Stored
      <3>3. \A i \in 0 .. k - 1 : i # k /\ stored[i] = Kept(b)[i]
        BY <2>8, <2>10, <2>11 DEF Stored
      <3> QED BY <2>10, <3>1, <3>2, <3>3
    <2>14. ASSUME NEW i \in 0 .. k
           PROVE  Sound(stored[i], s) /\ stored[i].frame = p + 1 /\ stored[i].block_id = i
      <3>1. CASE i = k
        BY <2>6, <2>13, <3>1
      <3>2. CASE i # k
        <4>1. i \in 0 .. k - 1
          BY <3>2
        <4> QED BY <2>3, <2>13, <3>2, <4>1
      <3> QED BY <3>1, <3>2
    <2>15. Complete(b, stored) <=> k + 1 = n
      <3>1. Cardinality(0 .. k) = k - 0 + 1
        BY FS_Interval
      <3>2. Cardinality(DOMAIN stored) = k + 1
        BY <2>12, <3>1
      <3>3. Header(b) # NoHeader
        <4>1. p + 1 \in Nat
          OBVIOUS
        <4> QED BY <2>9, <4>1, NoHeaderAssumption
      <3> QED BY <2>8, <2>9, <3>2, <3>3 DEF Complete
    <2>16. to_crc_fail' = <<>>
      BY <1>1, <1>4 DEF InOrder
    <2>17. CASE k + 1 # n
      <3>1. /\ num_blocks_expected' = n /\ frame_header' = p + 1 /\ blocks' = stored
            /\ published' = published /\ failed' = failed
        BY <1>1, <2>4, <2>9, <2>11, <2>15, <2>17 DEF handle_msg
      <3>2. Stream(Line', s, p + 1, k + 1)
        BY <2>6, <2>7, <2>17
      <3>3. k + 1 \in Nat /\ (k + 1) - 1 = k
        OBVIOUS
      <3>4. DOMAIN blocks' = 0 .. (k + 1) - 1
        BY <2>12, <3>1, <3>3
      <3>5. \A i \in 0 .. (k + 1) - 1 : /\ Sound(blocks'[i], s)
                                        /\ blocks'[i].frame = p + 1
                                        /\ blocks'[i].block_id = i
        BY <2>14, <3>1, <3>3
      <3>6. Len(published') = p /\ mobitex_sent' = s
        BY <1>1, <2>1, <2>2, <3>1
      <3>7. InOrder'
        BY <2>7, <2>16, <3>1, <3>2, <3>3, <3>4, <3>5, <3>6 DEF InOrder
      <3>8. PerfectReceptionInOrder'
        BY <1>1, <1>2, <3>1 DEF PerfectReceptionInOrder, WholeFrame
      <3> QED BY <3>7, <3>8
    <2>18. CASE k + 1 = n
      <3>1. /\ blocks' = NoBlocks
            /\ publish_frame(p + 1, stored)
        BY <1>1, <2>4, <2>9, <2>11, <2>15, <2>18 DEF handle_msg, reset
      <3>2. /\ num_blocks_correct(stored) >= 1
            /\ MissingBlock(stored) = FALSE
            /\ prepare_frame(p + 1, stored) = WholeFrame(p + 1)
        BY <1>4, <2>1, <2>6, <2>7, <2>12, <2>14, <2>18, WholeFrameStored
      <3>3. PICK frame : frame = WholeFrame(p + 1)
        OBVIOUS
      <3>4. published' = Append(published, frame) /\ ~failed'
        <4>1. ~(num_blocks_correct(stored) < 1)
          <5>1. num_blocks_correct(stored) \in Int
            <6>1. {id \in DOMAIN stored : stored[id].crc_valid} \subseteq 0 .. k
              BY <2>12
            <6>2. IsFiniteSet(0 .. k)
              BY FS_Interval
            <6>3. IsFiniteSet({id \in DOMAIN stored : stored[id].crc_valid})
              BY <6>1, <6>2, FS_Subset
            <6> QED BY <6>3, FS_CardinalityType DEF num_blocks_correct
          <5> QED BY <3>2, <5>1
        <4> QED BY <3>1, <3>2, <3>3, <4>1 DEF publish_frame
      <3>5. /\ Len(published') = p + 1 /\ DOMAIN published = 1 .. p
            /\ DOMAIN published' = 1 .. p + 1
            /\ published'[p + 1] = frame
            /\ \A i \in 1 .. p : published'[i] = published[i]
        <4>1. published \in Seq(Frame)
          BY DEF IInv, TypeInv
        <4> QED BY <2>2, <3>4, <4>1
      <3>6. mobitex_sent' = s /\ DOMAIN blocks' = {}
        BY <1>1, <2>1, <3>1 DEF NoBlocks
      <3>7. Stream(Line', s, (p + 1) + 1, 0)
        BY <2>6, <2>7, <2>18
      <3>8. InOrder'
        <4>1. 0 \in Nat /\ 0 .. 0 - 1 = {}
          OBVIOUS
        <4> QED BY <2>16, <3>5, <3>6, <3>7, <4>1 DEF InOrder
      <3>9. PerfectReceptionInOrder'
        <4>1. ASSUME NEW i \in 1 .. p + 1
              PROVE  i \in DOMAIN s /\ published'[i] = WholeFrame(i)
          <5>1. CASE i = p + 1
            BY <2>6, <3>3, <3>5, <5>1
          <5>2. CASE i # p + 1
            <6>1. i \in 1 .. p
              BY <5>2
            <6> QED BY <1>4, <2>1, <3>5, <6>1 DEF PerfectReceptionInOrder
          <5> QED BY <5>1, <5>2
        <4>2. \A i : WholeFrame(i)' = WholeFrame(i)
          BY <2>1, <3>6 DEF WholeFrame
        <4> QED BY <3>4, <3>5, <3>6, <4>1, <4>2 DEF PerfectReceptionInOrder
      <3> QED BY <3>8, <3>9
    <2> QED BY <2>17, <2>18
  <1> QED BY <1>3, <1>4

\* Whatever the others do, what has come out stays right.
LEMMA PublishedStays ==
    ASSUME PerfectReceptionInOrder, mobitex_sent \in Seq(Seq(BOOLEAN)),
           published' = published, failed' = failed,
           \/ mobitex_sent' = mobitex_sent
           \/ \E o \in Seq(BOOLEAN) : mobitex_sent' = Append(mobitex_sent, o)
    PROVE  PerfectReceptionInOrder'
  <1>1. CASE mobitex_sent' = mobitex_sent
    BY <1>1 DEF PerfectReceptionInOrder, AllValid, WholeFrame
  <1>2. CASE \E o \in Seq(BOOLEAN) : mobitex_sent' = Append(mobitex_sent, o)
    <2>1. PICK o \in Seq(BOOLEAN) : mobitex_sent' = Append(mobitex_sent, o)
      BY <1>2
    <2>2. PICK l \in Nat : l = Len(mobitex_sent)
      OBVIOUS
    <2>3. /\ DOMAIN mobitex_sent = 1 .. l /\ DOMAIN mobitex_sent' = 1 .. l + 1
          /\ \A i \in 1 .. l : mobitex_sent'[i] = mobitex_sent[i] /\ i \in 1 .. l + 1
      BY <2>1, <2>2
    <2>4. AllValid' => AllValid
      BY <2>3 DEF AllValid
    <2>5. \A i \in 1 .. l : WholeFrame(i)' = WholeFrame(i)
      BY <2>3 DEF WholeFrame
    <2> QED BY <2>3, <2>4, <2>5 DEF PerfectReceptionInOrder
  <1> QED BY <1>1, <1>2

\* With perfect reception every frame that comes out is whole, and they come out in the
\* order they came in: one of the two paths carries everything, and the reframer starts
\* afresh with each frame (mobitex_deframer.py, tubix20_reframer.handle_msg).
THEOREM InOrderReception == MobitexSpec => []PerfectReceptionInOrder
  <1>1. MobitexInit => InOrder /\ PerfectReceptionInOrder
    <2>1. MobitexInit => PerfectReceptionInOrder
      BY DEF MobitexInit, ReframerInit, PerfectReceptionInOrder
    <2> QED BY <2>1, InitInOrder
  <1>2. IInv /\ InOrder /\ PerfectReceptionInOrder /\ [MobitexNext]_mobitexVars
            => InOrder' /\ PerfectReceptionInOrder'
    <2> SUFFICES ASSUME IInv, InOrder, PerfectReceptionInOrder, [MobitexNext]_mobitexVars
                 PROVE  InOrder' /\ PerfectReceptionInOrder'
      OBVIOUS
    <2>1. mobitex_sent \in Seq(Seq(BOOLEAN))
      BY DEF IInv, TypeInv
    <2>2. CASE PublishDatablocks
      <3>1. \E o \in Seq(BOOLEAN) : mobitex_sent' = Append(mobitex_sent, o)
        <4>1. PICK n \in BlockCounts : \E o \in [1 .. n -> BOOLEAN] :
                  mobitex_sent' = Append(mobitex_sent, o)
          BY <2>2 DEF PublishDatablocks
        <4>2. n \in Nat
          BY BlockCountsAssumption
        <4> QED BY <4>1, <4>2
      <3>2. published' = published /\ failed' = failed
        BY <2>2 DEF PublishDatablocks, reframerVars
      <3> QED BY <2>1, <2>2, <3>1, <3>2, PublishedStays, ReceiveInOrder
    <2>3. CASE CheckBlock
      BY <2>1, <2>3, PublishedStays, CheckBlockInOrder DEF CheckBlock, reframerVars
    <2>4. CASE SetCrcOk
      BY <2>1, <2>4, PublishedStays, SetCrcOkInOrder DEF SetCrcOk, reframerVars
    <2>5. CASE SetCrcFail
      BY <2>1, <2>5, PublishedStays, SetCrcFailInOrder DEF SetCrcFail, reframerVars
    <2>6. CASE Reframe
      BY <2>6, ReframeInOrder
    <2>7. CASE UNCHANGED mobitexVars
      <3>1. /\ UNCHANGED <<reframerVars, mobitex_sent>> /\ published' = published
            /\ failed' = failed /\ mobitex_sent' = mobitex_sent /\ to_crc_fail' = to_crc_fail /\ Line' = Line
        BY <2>7 DEF mobitexVars, reframerVars, Line
      <3>2. AllValid => to_crc_fail' = <<>>
        BY <3>1 DEF InOrder
      <3> QED BY <2>1, <3>1, <3>2, PublishedStays, SameLine
    <2> QED BY <2>2, <2>3, <2>4, <2>5, <2>6, <2>7 DEF MobitexNext
  <1> QED BY <1>1, <1>2, Invariance, PTL DEF MobitexSpec
==============================================================================

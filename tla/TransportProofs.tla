---------------------------- MODULE TransportProofs ----------------------------
(***************************************************************************)
(* Proofs about what takes packets out of frames: the two telemetry parsers *)
(* that keep state from frame to frame, CuteTelemetry and FuncubeTelemetry, *)
(* the KISS streams of TmKissTransport, and Lilacsat1Demux.                 *)
(***************************************************************************)
EXTENDS TmKissTransport, CuteTelemetry, FuncubeTelemetry, Lilacsat1Demux, FiniteSetTheorems,
        WellFoundedInduction, TLAPS

------------------------------------------------------------------------------
\* The numbers that a division gives.
LEMMA Division ==
    ASSUME NEW a \in Nat, NEW m \in Nat \ {0}
    PROVE  \E q \in Nat, r \in 0 .. m - 1 : a = m * q + r /\ a \div m = q /\ a % m = r
<1>1. PICK q \in Int : a \div m = q OBVIOUS
<1>2. PICK r \in Int : a % m = r OBVIOUS
<1>3. a = m * q + r /\ r \in 0 .. m - 1 BY <1>1, <1>2
<1>4. q >= 0
  <2>1. SUFFICES ASSUME q <= -1 PROVE FALSE OBVIOUS
  <2>2. m * q <= m * (-1) BY <2>1
  <2> QED BY <1>3, <2>2
<1> QED BY <1>1, <1>2, <1>3, <1>4

\* The quotient is the only number that fits.
LEMMA Quotient ==
    ASSUME NEW q \in Int, NEW m \in Nat \ {0}, NEW r \in 0 .. m - 1
    PROVE  (m * q + r) % m = r /\ (m * q + r) \div m = q
OBVIOUS

------------------------------------------------------------------------------
\* CUTE: what the parser keeps true.
Flag == {"GRP_BEGIN", "GRP_MIDDLE", "GRP_END", "GRP_FIRST_AND_LAST"}

Piece == [apid : CuteApids, flag : Flag, received : BOOLEAN]

KeptFrame == [apid : CuteApids, flag : Flag, sequence_count : Nat, number : Nat]

\* The frames of an application among the first n.
Sent(apid, n) == {i \in 1 .. n : pieces[i].apid = apid}

CuteType == /\ pieces \in Seq(Piece)
            /\ cute_frames \in Seq(KeptFrame)
            /\ state \in {"SEARCH_START", "SEARCH_MIDDLE"}
            /\ parsed \in Seq(Seq(Nat))

\* The satellite sends packet after packet.
PacketAfterPacket ==
    \A i \in DOMAIN pieces : i > 1 =>
        IF Ends(pieces[i - 1].flag) THEN Begins(pieces[i].flag)
        ELSE ~Begins(pieces[i].flag) /\ pieces[i].apid = pieces[i - 1].apid

\* No more than MaxPiecesLost frames in a row are lost.
FewLost == \A i \in 1 .. Len(pieces) - MaxPiecesLost :
               \E j \in i .. i + MaxPiecesLost : pieces[j].received

\* Kept frame j is one that was received.
AsSent(f, j) ==
    /\ f.number \in DOMAIN pieces
    /\ pieces[f.number] = [apid |-> f.apid, flag |-> f.flag, received |-> TRUE]
    /\ f.flag = IF j = 1 THEN "GRP_BEGIN" ELSE "GRP_MIDDLE"
    /\ f.sequence_count = Cardinality(Sent(f.apid, f.number - 1)) % SequenceCounts

KeptAsSent == \A j \in DOMAIN cute_frames : AsSent(cute_frames[j], j)

\* Nothing was received since.
LostSince == cute_frames # <<>> =>
    \A i \in Last(cute_frames).number + 1 .. Len(pieces) : ~pieces[i].received

\* The kept frames follow each other, as far as they are of one application.
InARow == \A k \in DOMAIN cute_frames :
              (\A j \in 1 .. k : cute_frames[j].apid = cute_frames[1].apid)
                  => cute_frames[k].number = cute_frames[1].number + k - 1

Searching == state = "SEARCH_START" <=> cute_frames = <<>>

ParsedSent == \A k \in DOMAIN parsed :
                  parsed[k] # <<>> /\ \A i \in DOMAIN parsed[k] : parsed[k][i] \in DOMAIN pieces

CuteInv == /\ CuteType
           /\ PacketAfterPacket
           /\ FewLost
           /\ KeptAsSent
           /\ LostSince
           /\ InARow
           /\ Searching
           /\ ParsedSent

\* After the end of a packet nothing is kept.
NothingAfterEnd ==
    (pieces = <<>> \/ (Last(pieces).received /\ Ends(Last(pieces).flag))) => cute_frames = <<>>

\* The packet on its way, none of whose frames is lost, is what is kept.
WholeSoFar ==
    \A first \in DOMAIN pieces :
        (/\ Begins(pieces[first].flag)
         /\ \A i \in first .. Len(pieces) : pieces[i].received /\ ~Ends(pieces[i].flag)
         /\ first = 1 \/ pieces[first - 1].received)
            => /\ Len(cute_frames) = Len(pieces) - first + 1
               /\ \A j \in DOMAIN cute_frames : cute_frames[j].number = first + j - 1

------------------------------------------------------------------------------
\* A count that wraps is the count, wrapped.
LEMMA NextModulus ==
    ASSUME NEW a \in Nat, NEW m \in Nat \ {0}
    PROVE  ((a % m) + 1) % m = (a + 1) % m
<1>1. PICK q \in Nat, r \in 0 .. m - 1 : a = m * q + r /\ a \div m = q /\ a % m = r
  BY Division
<1>2. CASE r + 1 < m
  <2>1. r + 1 = m * 0 + (r + 1) /\ a + 1 = m * q + (r + 1) /\ r + 1 \in 0 .. m - 1 BY <1>1, <1>2
  <2>2. (m * 0 + (r + 1)) % m = r + 1 BY <2>1, Quotient
  <2>3. (m * q + (r + 1)) % m = r + 1
    <3>1. PICK n \in 0 .. m - 1 : n = r + 1 BY <2>1
    <3>2. q \in Int OBVIOUS
    <3>3. (m * q + n) % m = n BY <3>2, Quotient
    <3> QED BY <3>1, <3>3
  <2> QED BY <1>1, <2>1, <2>2, <2>3
<1>3. CASE r + 1 = m
  <2>1. r + 1 = m * 1 + 0 /\ a + 1 = m * (q + 1) + 0 BY <1>1, <1>3
  <2>2. (m * 1 + 0) % m = 0 BY Quotient
  <2>3. (m * (q + 1) + 0) % m = 0 BY Quotient
  <2> QED BY <1>1, <2>1, <2>2, <2>3
<1> QED BY <1>2, <1>3

\* It is another one after fewer than m frames more.
LEMMA LaterModulus ==
    ASSUME NEW a \in Nat, NEW m \in Nat \ {0}, NEW c \in 1 .. m - 1
    PROVE  (a + 1 + c) % m # ((a % m) + 1) % m
<1>1. PICK b \in Nat : b = a + 1 OBVIOUS
<1>2. PICK d \in Nat : d = a + 1 + c OBVIOUS
<1>3. PICK q \in Nat, r \in 0 .. m - 1 : b = m * q + r /\ b % m = r BY Division
<1>4. PICK p \in Nat, s \in 0 .. m - 1 : d = m * p + s /\ d % m = s BY Division
<1>5. SUFFICES ASSUME r = s PROVE FALSE BY <1>1, <1>2, <1>3, <1>4, NextModulus
<1>6. c = m * (p - q)
  <2>1. PICK x \in Int, y \in Int : x = m * q /\ y = m * p OBVIOUS
  <2>2. c = y - x BY <1>1, <1>2, <1>3, <1>4, <1>5, <2>1
  <2>3. m * p - m * q = m * (p - q) OBVIOUS
  <2> QED BY <2>1, <2>2, <2>3
<1>7. PICK e \in Int : e = p - q OBVIOUS
<1>8. e <= 0 => m * e <= 0 OBVIOUS
<1>9. e >= 1 => m * e >= m OBVIOUS
<1> QED BY <1>6, <1>7, <1>8, <1>9

------------------------------------------------------------------------------
\* What Append returns.
LEMMA Appended ==
    ASSUME NEW S, NEW s \in Seq(S), NEW x \in S
    PROVE  /\ Append(s, x) \in Seq(S)
           /\ Append(s, x) # <<>>
           /\ Len(Append(s, x)) = Len(s) + 1
           /\ DOMAIN Append(s, x) = 1 .. Len(s) + 1
           /\ Append(s, x)[Len(s) + 1] = x
           /\ Last(Append(s, x)) = x
           /\ \A i \in 1 .. Len(s) : Append(s, x)[i] = s[i]
BY DEF Last

\* The last element of a sequence.
LEMMA LastElement ==
    ASSUME NEW S, NEW s \in Seq(S), s # <<>>
    PROVE  /\ Len(s) \in DOMAIN s
           /\ Len(s) >= 1
           /\ Last(s) = s[Len(s)]
           /\ Last(s) \in S
BY DEF Last

\* The frame that the parser is given.
Frame(apid, flag) == [apid |-> apid, flag |-> flag, sequence_count |-> NextCount(apid),
                      number |-> Len(pieces) + 1]

\* The frame continues what is kept, or begins when nothing is.
Fits(apid, flag) ==
    IF Begins(flag) THEN cute_frames = <<>>
    ELSE cute_frames # <<>> /\ Follows(Frame(apid, flag), Last(cute_frames))

\* What the parser does with it.
Outcome(apid, flag) ==
    \/ ~Fits(apid, flag) /\ DropAll
    \/ Fits(apid, flag) /\ ~Ends(flag) /\ Keep(Append(cute_frames, Frame(apid, flag)))
    \/ Fits(apid, flag) /\ Ends(flag) /\ Process(Append(cute_frames, Frame(apid, flag)))

\* The satellite sends this frame.
Sends(apid, flag, received) ==
    /\ MayFollow(apid, flag)
    /\ pieces' = Append(pieces, [apid |-> apid, flag |-> flag, received |-> received])
    /\ IF received THEN Outcome(apid, flag)
       ELSE MayBeLost /\ UNCHANGED <<cute_frames, state, parsed>>

\* What a frame does, in terms of what it is: Sends says the same as CuteFrame.
LEMMA Parsing ==
    ASSUME Searching, state \in {"SEARCH_START", "SEARCH_MIDDLE"}, CuteFrame
    PROVE  \E apid \in CuteApids, flag \in Flag, received \in BOOLEAN :
               Sends(apid, flag, received)
<1>1. PICK apid \in CuteApids, received \in BOOLEAN, flag \in Flag :
          /\ MayFollow(apid, flag)
          /\ pieces' = Append(pieces, [apid |-> apid, flag |-> flag, received |-> received])
          /\ IF received THEN CuteParse(Frame(apid, flag))
             ELSE MayBeLost /\ UNCHANGED <<cute_frames, state, parsed>>
  BY DEF CuteFrame, Frame, Flag
<1>2. ASSUME CuteParse(Frame(apid, flag)) PROVE Outcome(apid, flag)
  <2>1. Frame(apid, flag).flag = flag BY DEF Frame
  <2>2. CASE state = "SEARCH_START"
    <3>1. SearchStart(Frame(apid, flag), Append(cute_frames, Frame(apid, flag)))
      BY <1>2, <2>2 DEF CuteParse
    <3>2. cute_frames = <<>> BY <2>2 DEF Searching
    <3> QED BY <2>1, <3>1, <3>2 DEF SearchStart, Outcome, Fits, Begins, Ends, Flag
  <2>3. CASE state = "SEARCH_MIDDLE"
    <3>1. SearchMiddle(Frame(apid, flag), Append(cute_frames, Frame(apid, flag)))
      BY <1>2, <2>3 DEF CuteParse
    <3>2. cute_frames # <<>> BY <2>3 DEF Searching
    <3> QED BY <2>1, <3>1, <3>2 DEF SearchMiddle, Outcome, Fits, Begins, Ends, Flag
  <2> QED BY <2>2, <2>3
<1> QED BY <1>1, <1>2 DEF Sends

------------------------------------------------------------------------------
\* Frames are counted.
LEMMA SentCounted ==
    ASSUME NEW apid, NEW n \in Nat
    PROVE  /\ IsFiniteSet(Sent(apid, n))
           /\ Cardinality(Sent(apid, n)) \in Nat
<1>1. IsFiniteSet(1 .. n) BY FS_Interval
<1>2. Sent(apid, n) \subseteq 1 .. n BY DEF Sent
<1>3. IsFiniteSet(Sent(apid, n)) BY <1>1, <1>2, FS_Subset
<1> QED BY <1>3, FS_CardinalityType

\* One frame more of the application is one more.
LEMMA OneMore ==
    ASSUME NEW n \in Nat \ {0}
    PROVE  Cardinality(Sent(pieces[n].apid, n)) = Cardinality(Sent(pieces[n].apid, n - 1)) + 1
<1>1. IsFiniteSet(Sent(pieces[n].apid, n - 1)) BY SentCounted
<1>2. Sent(pieces[n].apid, n) = Sent(pieces[n].apid, n - 1) \cup {n} BY DEF Sent
<1>3. n \notin Sent(pieces[n].apid, n - 1) BY DEF Sent
<1> QED BY <1>1, <1>2, <1>3, FS_AddElement

\* Among the frames after number n of which one at least is of the application.
LEMMA SomeMore ==
    ASSUME NEW n \in Nat, NEW last \in Nat, n < last, NEW apid, pieces[n + 1].apid = apid
    PROVE  \E c \in 1 .. last - n :
               Cardinality(Sent(apid, last)) = Cardinality(Sent(apid, n)) + c
<1> DEFINE Later == {i \in n + 1 .. last : pieces[i].apid = apid}
<1>1. IsFiniteSet(n + 1 .. last) /\ Cardinality(n + 1 .. last) = last - n
  <2>1. n + 1 \in Int /\ last \in Int OBVIOUS
  <2>2. /\ IsFiniteSet(n + 1 .. last)
        /\ Cardinality(n + 1 .. last) = IF n + 1 > last THEN 0 ELSE last - (n + 1) + 1
    BY <2>1, FS_Interval
  <2> QED BY <2>2
<1>2. Later \subseteq n + 1 .. last OBVIOUS
<1>3. IsFiniteSet(Later) /\ Cardinality(Later) <= last - n BY <1>1, <1>2, FS_Subset
<1>4. n + 1 \in Later OBVIOUS
<1>5. Cardinality(Later) \in Nat /\ Cardinality(Later) # 0
  BY <1>3, <1>4, FS_CardinalityType, FS_EmptySet
<1>6. IsFiniteSet(Sent(apid, n)) /\ Cardinality(Sent(apid, n)) \in Nat BY SentCounted
<1>7. Sent(apid, last) = Sent(apid, n) \cup Later BY DEF Sent
<1>8. Sent(apid, n) \cap Later = {} BY DEF Sent
<1>9. Cardinality(Sent(apid, n) \cap Later) = 0 BY <1>8, FS_EmptySet
<1>10. Cardinality(Sent(apid, last)) =
           Cardinality(Sent(apid, n)) + Cardinality(Later) - Cardinality(Sent(apid, n) \cap Later)
  BY <1>3, <1>6, <1>7, FS_Union
<1>11. PICK c \in Nat : c = Cardinality(Later) BY <1>5
<1>12. c \in 1 .. last - n BY <1>3, <1>5, <1>11
<1>13. Cardinality(Sent(apid, last)) = Cardinality(Sent(apid, n)) + c
  BY <1>6, <1>9, <1>10, <1>11
<1> QED BY <1>12, <1>13

\* The count of the next frame.
LEMMA CountOfNext ==
    ASSUME NEW apid, pieces \in Seq(Piece)
    PROVE  NextCount(apid) = Cardinality(Sent(apid, Len(pieces))) % SequenceCounts
<1>1. DOMAIN pieces = 1 .. Len(pieces) OBVIOUS
<1>2. {i \in DOMAIN pieces : pieces[i].apid = apid} = Sent(apid, Len(pieces)) BY <1>1 DEF Sent
<1> QED BY <1>2 DEF NextCount

\* The next frame of an application has the next count when no other is between.
LEMMA NextFollows ==
    ASSUME NEW n \in Nat \ {0}, pieces \in Seq(Piece), n = Len(pieces)
    PROVE  NextCount(pieces[n].apid)
               = ((Cardinality(Sent(pieces[n].apid, n - 1)) % SequenceCounts) + 1) % SequenceCounts
<1>1. PICK a \in Nat : a = Cardinality(Sent(pieces[n].apid, n - 1)) BY SentCounted
<1>2. Cardinality(Sent(pieces[n].apid, n)) = a + 1 BY <1>1, OneMore
<1>3. ((a % SequenceCounts) + 1) % SequenceCounts = (a + 1) % SequenceCounts
  BY NextModulus, LossesAssumption
<1> QED BY <1>1, <1>2, <1>3, CountOfNext

\* It has another one when some are between, as long as they are not too many.
LEMMA MissedDoesNotFollow ==
    ASSUME NEW n \in Nat \ {0}, pieces \in Seq(Piece),
           n < Len(pieces), Len(pieces) - n <= MaxPiecesLost,
           pieces[n + 1].apid = pieces[n].apid
    PROVE  NextCount(pieces[n].apid)
               # ((Cardinality(Sent(pieces[n].apid, n - 1)) % SequenceCounts) + 1) % SequenceCounts
<1>1. PICK a \in Nat : a = Cardinality(Sent(pieces[n].apid, n - 1)) BY SentCounted
<1>2. Cardinality(Sent(pieces[n].apid, n)) = a + 1 BY <1>1, OneMore
<1>3. PICK c \in 1 .. Len(pieces) - n :
          Cardinality(Sent(pieces[n].apid, Len(pieces)))
              = Cardinality(Sent(pieces[n].apid, n)) + c
  <2>1. Len(pieces) \in Nat OBVIOUS
  <2> QED BY <2>1, SomeMore
<1>4. c \in 1 .. SequenceCounts - 1 BY LossesAssumption
<1>5. (a + 1 + c) % SequenceCounts # ((a % SequenceCounts) + 1) % SequenceCounts
  BY <1>4, LaterModulus, LossesAssumption
<1> QED BY <1>1, <1>2, <1>3, <1>5, CountOfNext

------------------------------------------------------------------------------
\* The last frame kept is one that was received, and no packet ends with it.
LEMMA LastKept ==
    ASSUME CuteInv, cute_frames # <<>>
    PROVE  \E n \in DOMAIN pieces :
               /\ Last(cute_frames).number = n
               /\ Last(cute_frames).apid = pieces[n].apid
               /\ Last(cute_frames).sequence_count
                      = Cardinality(Sent(pieces[n].apid, n - 1)) % SequenceCounts
               /\ ~Ends(pieces[n].flag)
               /\ pieces[n].received
               /\ \A i \in n + 1 .. Len(pieces) : ~pieces[i].received
<1>1. cute_frames \in Seq(KeptFrame) BY DEF CuteInv, CuteType
<1>2. Len(cute_frames) \in DOMAIN cute_frames /\ Last(cute_frames) = cute_frames[Len(cute_frames)]
  BY <1>1, LastElement
<1>3. PICK f : f = Last(cute_frames) OBVIOUS
<1>4. /\ f.number \in DOMAIN pieces
      /\ pieces[f.number] = [apid |-> f.apid, flag |-> f.flag, received |-> TRUE]
      /\ f.flag \in {"GRP_BEGIN", "GRP_MIDDLE"}
      /\ f.sequence_count = Cardinality(Sent(f.apid, f.number - 1)) % SequenceCounts
  BY <1>2, <1>3, Zenon DEF CuteInv, KeptAsSent, AsSent
<1>5. /\ pieces[f.number].apid = f.apid
      /\ pieces[f.number].flag = f.flag
      /\ pieces[f.number].received
  BY <1>4
<1>6. ~Ends(f.flag) BY <1>4 DEF Ends
<1>7. \A i \in f.number + 1 .. Len(pieces) : ~pieces[i].received
  BY <1>3 DEF CuteInv, LostSince
<1> QED BY <1>3, <1>4, <1>5, <1>6, <1>7

\* A frame that fits is the next one the satellite sent, if it is of the application
\* of the last one kept: the count tells, as only so many frames in a row are lost.
LEMMA FittingIsNext ==
    ASSUME CuteInv, cute_frames # <<>>,
           NEW apid, NEW flag, MayFollow(apid, flag),
           Follows(Frame(apid, flag), Last(cute_frames)),
           Last(cute_frames).apid = apid
    PROVE  Last(cute_frames).number = Len(pieces)
<1>1. pieces \in Seq(Piece) BY DEF CuteInv, CuteType
<1>2. PICK n \in DOMAIN pieces :
          /\ Last(cute_frames).number = n
          /\ Last(cute_frames).apid = pieces[n].apid
          /\ Last(cute_frames).sequence_count
                 = Cardinality(Sent(pieces[n].apid, n - 1)) % SequenceCounts
          /\ ~Ends(pieces[n].flag)
          /\ pieces[n].received
          /\ \A i \in n + 1 .. Len(pieces) : ~pieces[i].received
  BY LastKept
<1>3. n \in Nat \ {0} /\ n <= Len(pieces) /\ Len(pieces) \in Nat BY <1>1
<1>4. SUFFICES ASSUME n < Len(pieces) PROVE FALSE BY <1>2, <1>3
<1>5. pieces[n + 1].apid = pieces[n].apid
  <2>1. n + 1 \in DOMAIN pieces /\ n + 1 > 1 /\ (n + 1) - 1 = n BY <1>1, <1>3, <1>4
  <2> QED BY <1>2, <2>1 DEF CuteInv, PacketAfterPacket
<1>6. Len(pieces) - n <= MaxPiecesLost
  <2>1. SUFFICES ASSUME Len(pieces) - n > MaxPiecesLost PROVE FALSE BY <1>3, LossesAssumption
  <2>2. n + 1 \in 1 .. Len(pieces) - MaxPiecesLost BY <1>3, <2>1, LossesAssumption
  <2>3. PICK j \in n + 1 .. (n + 1) + MaxPiecesLost : pieces[j].received
    BY <2>2 DEF CuteInv, FewLost
  <2>4. j \in n + 1 .. Len(pieces) BY <1>3, <2>1, <2>3, LossesAssumption
  <2> QED BY <1>2, <2>3, <2>4
<1>7. NextCount(apid)
          # ((Cardinality(Sent(pieces[n].apid, n - 1)) % SequenceCounts) + 1) % SequenceCounts
  BY <1>1, <1>2, <1>3, <1>4, <1>5, <1>6, MissedDoesNotFollow
<1> QED BY <1>2, <1>7 DEF Follows, Frame

\* When the last frame was kept, the next one of the packet fits.
LEMMA NextFits ==
    ASSUME CuteInv, cute_frames # <<>>, Last(cute_frames).number = Len(pieces),
           NEW apid, NEW flag, MayFollow(apid, flag)
    PROVE  Fits(apid, flag) /\ ~Begins(flag) /\ Last(cute_frames).apid = apid
<1>1. pieces \in Seq(Piece) BY DEF CuteInv, CuteType
<1>2. PICK n \in DOMAIN pieces :
          /\ Last(cute_frames).number = n
          /\ Last(cute_frames).apid = pieces[n].apid
          /\ Last(cute_frames).sequence_count
                 = Cardinality(Sent(pieces[n].apid, n - 1)) % SequenceCounts
          /\ ~Ends(pieces[n].flag)
  BY LastKept
<1>3. n \in Nat \ {0} /\ n = Len(pieces) /\ pieces # <<>> BY <1>1, <1>2
<1>4. Last(pieces) = pieces[n] BY <1>1, <1>3, LastElement
<1>5. ~Begins(flag) /\ apid = pieces[n].apid BY <1>2, <1>3, <1>4 DEF MayFollow
<1>6. NextCount(apid)
          = ((Cardinality(Sent(pieces[n].apid, n - 1)) % SequenceCounts) + 1) % SequenceCounts
  BY <1>1, <1>3, <1>5, NextFollows
<1>7. Follows(Frame(apid, flag), Last(cute_frames)) BY <1>2, <1>6 DEF Follows, Frame
<1> QED BY <1>2, <1>5, <1>7 DEF Fits

------------------------------------------------------------------------------
\* What is kept together with a frame that fits.
LEMMA KeptWithNext ==
    ASSUME CuteInv, NEW apid \in CuteApids, NEW flag \in Flag,
           MayFollow(apid, flag), Fits(apid, flag),
           NEW kept, kept = Append(cute_frames, Frame(apid, flag))
    PROVE  /\ kept \in Seq(KeptFrame)
           /\ kept # <<>>
           /\ Len(kept) = Len(cute_frames) + 1
           /\ DOMAIN kept = 1 .. Len(cute_frames) + 1
           /\ Last(kept) = Frame(apid, flag)
           /\ kept[Len(cute_frames) + 1] = Frame(apid, flag)
           /\ \A j \in 1 .. Len(cute_frames) : kept[j] = cute_frames[j]
           /\ \A k \in DOMAIN kept :
                  (\A j \in 1 .. k : kept[j].apid = kept[1].apid)
                      => kept[k].number = kept[1].number + k - 1
<1>1. cute_frames \in Seq(KeptFrame) /\ pieces \in Seq(Piece) BY DEF CuteInv, CuteType
<1>2. Frame(apid, flag) \in KeptFrame
  <2>1. NextCount(apid) \in Nat
    <3>1. PICK a \in Nat : a = Cardinality(Sent(apid, Len(pieces))) BY <1>1, SentCounted
    <3>2. a % SequenceCounts \in Nat BY LossesAssumption
    <3> QED BY <1>1, <3>1, <3>2, CountOfNext
  <2>2. Len(pieces) + 1 \in Nat BY <1>1
  <2> QED BY <2>1, <2>2 DEF Frame, KeptFrame
<1>3. /\ kept \in Seq(KeptFrame)
      /\ kept # <<>>
      /\ Len(kept) = Len(cute_frames) + 1
      /\ DOMAIN kept = 1 .. Len(cute_frames) + 1
      /\ kept[Len(cute_frames) + 1] = Frame(apid, flag)
      /\ Last(kept) = Frame(apid, flag)
      /\ \A j \in 1 .. Len(cute_frames) : kept[j] = cute_frames[j]
  BY <1>1, <1>2, Appended
<1>4. PICK l \in Nat : l = Len(cute_frames) BY <1>1
<1>5. DOMAIN cute_frames = 1 .. l BY <1>1, <1>4
<1>6. ASSUME NEW k \in DOMAIN kept, \A j \in 1 .. k : kept[j].apid = kept[1].apid
      PROVE  kept[k].number = kept[1].number + k - 1
  <2>1. k \in 1 .. l + 1 BY <1>3, <1>4
  <2>2. CASE k <= l
    <3>1. \A j \in 1 .. k : kept[j] = cute_frames[j] BY <1>3, <1>4, <2>1, <2>2
    <3>2. 1 \in 1 .. k /\ k \in 1 .. k BY <2>1
    <3>3. \A j \in 1 .. k : cute_frames[j].apid = cute_frames[1].apid BY <1>6, <3>1, <3>2
    <3>4. k \in DOMAIN cute_frames BY <1>5, <2>1, <2>2
    <3>5. cute_frames[k].number = cute_frames[1].number + k - 1
      BY <3>3, <3>4 DEF CuteInv, InARow
    <3> QED BY <3>1, <3>2, <3>5
  <2>3. CASE k = l + 1 /\ l = 0
    <3>1. kept[1].number = Len(pieces) + 1 BY <1>3, <1>4, <2>3 DEF Frame
    <3>2. Len(pieces) \in Nat BY <1>1
    <3> QED BY <2>3, <3>1, <3>2
  <2>4. CASE k = l + 1 /\ l > 0
    <3>1. cute_frames # <<>> BY <1>1, <1>4, <2>4
    <3>2. Last(cute_frames) = cute_frames[l] BY <1>1, <1>4, <3>1, LastElement
    <3>3. \A j \in 1 .. l : kept[j] = cute_frames[j] BY <1>3, <1>4
    <3>4. 1 \in 1 .. l /\ l \in 1 .. l /\ l \in 1 .. k /\ k \in 1 .. k BY <2>4
    <3>5. \A j \in 1 .. l : kept[j].apid = kept[1].apid BY <1>6, <2>4
    <3>6. \A j \in 1 .. l : cute_frames[j].apid = cute_frames[1].apid BY <3>3, <3>4, <3>5
    <3>7. Last(cute_frames).apid = apid
      <4>1. kept[k].apid = apid BY <1>3, <1>4, <2>4 DEF Frame
      <4>2. kept[k].apid = kept[l].apid BY <1>6, <3>4
      <4> QED BY <3>2, <3>3, <3>4, <4>1, <4>2
    <3>8. Follows(Frame(apid, flag), Last(cute_frames)) BY <3>1 DEF Fits
    <3>9. Last(cute_frames).number = Len(pieces) BY <3>1, <3>7, <3>8, FittingIsNext
    <3>10. cute_frames[l].number = cute_frames[1].number + l - 1
      <4>1. l \in DOMAIN cute_frames BY <1>5, <3>4
      <4> QED BY <3>6, <4>1 DEF CuteInv, InARow
    <3>11. kept[k].number = Len(pieces) + 1 BY <1>3, <1>4, <2>4 DEF Frame
    <3>12. cute_frames[1] \in KeptFrame BY <1>1, <1>5, <3>4
    <3>13. PICK m \in Nat : m = cute_frames[1].number BY <3>12 DEF KeptFrame
    <3>14. PICK x \in Nat : x = Len(pieces) BY <1>1
    <3>15. x = m + l - 1 BY <3>2, <3>9, <3>10, <3>13, <3>14
    <3>16. kept[k].number = x + 1 BY <3>11, <3>14
    <3>17. kept[1].number = m BY <3>3, <3>4, <3>13
    <3>18. x + 1 = m + k - 1 BY <2>4, <3>15
    <3> QED BY <3>16, <3>17, <3>18, Zenon
  <2>5. k <= l \/ (k = l + 1 /\ (l = 0 \/ l > 0)) BY <2>1
  <2> QED BY <2>2, <2>3, <2>4, <2>5, Zenon
<1> QED BY <1>3, <1>6

------------------------------------------------------------------------------
\* One frame more has been sent, and those before it are as they were.
OneMoreSent ==
    /\ pieces' \in Seq(Piece)
    /\ Len(pieces') = Len(pieces) + 1
    /\ DOMAIN pieces' = 1 .. Len(pieces) + 1
    /\ \A i \in 1 .. Len(pieces) : pieces'[i] = pieces[i]
    /\ \A a, n : n \in 0 .. Len(pieces) => Sent(a, n)' = Sent(a, n)

\* What a frame more is to the history.
LEMMA OnePieceMore ==
    ASSUME CuteInv, NEW apid \in CuteApids, NEW flag \in Flag, NEW received \in BOOLEAN,
           Sends(apid, flag, received)
    PROVE  /\ OneMoreSent
           /\ pieces'[Len(pieces) + 1] = [apid |-> apid, flag |-> flag, received |-> received]
           /\ Last(pieces)' = [apid |-> apid, flag |-> flag, received |-> received]
<1>1. pieces \in Seq(Piece) BY DEF CuteInv, CuteType
<1>2. PICK x : x = [apid |-> apid, flag |-> flag, received |-> received] OBVIOUS
<1>3. x \in Piece BY <1>2 DEF Piece
<1>4. pieces' = Append(pieces, x) BY <1>2 DEF Sends
<1>5. /\ pieces' \in Seq(Piece)
      /\ Len(pieces') = Len(pieces) + 1
      /\ DOMAIN pieces' = 1 .. Len(pieces) + 1
      /\ pieces'[Len(pieces) + 1] = x
      /\ Last(pieces') = x
      /\ \A i \in 1 .. Len(pieces) : pieces'[i] = pieces[i]
  BY <1>1, <1>3, <1>4, Appended
<1>6. Last(pieces)' = Last(pieces') OBVIOUS
<1>7. ASSUME NEW a, NEW n \in 0 .. Len(pieces) PROVE Sent(a, n)' = Sent(a, n)
  <2>1. \A i \in 1 .. n : i \in 1 .. Len(pieces) BY <1>1
  <2>2. \A i \in 1 .. n : pieces'[i] = pieces[i] BY <1>5, <2>1
  <2> QED BY <2>2 DEF Sent
<1>8. OneMoreSent BY <1>5, <1>7 DEF OneMoreSent
<1> QED BY <1>2, <1>5, <1>6, <1>8

\* The satellite still sends packet after packet, and no more frames in a row are lost.
LEMMA HistoryKept ==
    ASSUME CuteInv, NEW apid \in CuteApids, NEW flag \in Flag, NEW received \in BOOLEAN,
           Sends(apid, flag, received)
    PROVE  PacketAfterPacket' /\ FewLost'
<1>1. pieces \in Seq(Piece) BY DEF CuteInv, CuteType
<1>2. PICK l \in Nat : l = Len(pieces) BY <1>1
<1>3. /\ Len(pieces') = l + 1
      /\ DOMAIN pieces' = 1 .. l + 1
      /\ pieces'[l + 1] = [apid |-> apid, flag |-> flag, received |-> received]
      /\ \A i \in 1 .. l : pieces'[i] = pieces[i]
  <2>1. OneMoreSent BY OnePieceMore
  <2>2. pieces'[Len(pieces) + 1] = [apid |-> apid, flag |-> flag, received |-> received]
    BY OnePieceMore
  <2> QED BY <1>2, <2>1, <2>2 DEF OneMoreSent
<1>4. PacketAfterPacket'
  <2>1. SUFFICES ASSUME NEW i \in 1 .. l + 1, i > 1
                 PROVE  IF Ends(pieces'[i - 1].flag) THEN Begins(pieces'[i].flag)
                        ELSE ~Begins(pieces'[i].flag) /\ pieces'[i].apid = pieces'[i - 1].apid
    BY <1>3 DEF PacketAfterPacket, Ends, Begins
  <2>2. i - 1 \in 1 .. l BY <2>1
  <2>3. pieces'[i - 1] = pieces[i - 1] BY <1>3, <2>2
  <2>4. CASE i <= l
    <3>1. pieces'[i] = pieces[i] /\ i \in DOMAIN pieces BY <1>1, <1>2, <1>3, <2>1, <2>4
    <3> QED BY <2>1, <2>3, <3>1 DEF CuteInv, PacketAfterPacket
  <2>5. CASE i = l + 1
    <3>1. pieces # <<>> /\ i - 1 = l BY <1>1, <1>2, <2>2, <2>5
    <3>2. Last(pieces) = pieces[i - 1] BY <1>1, <1>2, <3>1, LastElement
    <3>3. pieces'[i].flag = flag /\ pieces'[i].apid = apid BY <1>3, <2>5
    <3>4. MayFollow(apid, flag) BY DEF Sends
    <3> QED BY <2>3, <3>1, <3>2, <3>3, <3>4 DEF MayFollow
  <2> QED BY <2>1, <2>4, <2>5
<1>5. FewLost'
  <2>1. SUFFICES ASSUME NEW i \in 1 .. (l + 1) - MaxPiecesLost
                 PROVE  \E j \in i .. i + MaxPiecesLost : pieces'[j].received
    BY <1>3, Zenon DEF FewLost
  <2>2. PICK m \in Nat : m = MaxPiecesLost BY LossesAssumption
  <2>3. CASE i <= l - m
    <3>1. i \in 1 .. Len(pieces) - MaxPiecesLost BY <1>2, <2>1, <2>2, <2>3
    <3>2. PICK j \in i .. i + MaxPiecesLost : pieces[j].received BY <3>1 DEF CuteInv, FewLost
    <3>3. j \in 1 .. l BY <2>1, <2>2, <2>3, <3>2
    <3> QED BY <1>3, <3>2, <3>3
  <2>4. CASE i = l + 1 - m /\ received
    <3>1. l + 1 \in i .. i + MaxPiecesLost BY <2>2, <2>4
    <3>2. pieces'[l + 1].received BY <1>3, <2>4
    <3> QED BY <3>1, <3>2
  <2>5. CASE i = l + 1 - m /\ ~received
    <3>1. MayBeLost BY <2>5 DEF Sends
    <3>2. l >= m BY <2>1, <2>2, <2>5
    <3>3. PICK j \in l - m + 1 .. l : pieces[j].received BY <1>2, <2>2, <3>1, <3>2 DEF MayBeLost
    <3>4. j \in 1 .. l /\ j \in i .. i + MaxPiecesLost BY <2>2, <2>5, <3>2, <3>3
    <3> QED BY <1>3, <3>3, <3>4
  <2> QED BY <2>1, <2>2, <2>3, <2>4, <2>5
<1> QED BY <1>4, <1>5

------------------------------------------------------------------------------
\* The frames kept before stay as they were sent.
LEMMA StillAsSent ==
    ASSUME CuteInv, NEW apid \in CuteApids, NEW flag \in Flag, NEW received \in BOOLEAN,
           Sends(apid, flag, received),
           NEW j \in DOMAIN cute_frames, NEW f, f = cute_frames[j]
    PROVE  AsSent(f, j)'
<1>1. pieces \in Seq(Piece) BY DEF CuteInv, CuteType
<1>2. /\ f.number \in DOMAIN pieces
      /\ pieces[f.number] = [apid |-> f.apid, flag |-> f.flag, received |-> TRUE]
      /\ f.flag = IF j = 1 THEN "GRP_BEGIN" ELSE "GRP_MIDDLE"
      /\ f.sequence_count = Cardinality(Sent(f.apid, f.number - 1)) % SequenceCounts
  BY Zenon DEF CuteInv, KeptAsSent, AsSent
<1>3. PICK n \in 1 .. Len(pieces) : n = f.number BY <1>1, <1>2
<1>4. n - 1 \in 0 .. Len(pieces) /\ n \in 1 .. Len(pieces) + 1 BY <1>1, <1>3
<1>5. OneMoreSent BY OnePieceMore
<1>6. Sent(f.apid, n - 1)' = Sent(f.apid, n - 1) BY <1>4, <1>5 DEF OneMoreSent
<1>7. pieces'[n] = pieces[n] /\ n \in DOMAIN pieces' BY <1>3, <1>4, <1>5 DEF OneMoreSent
<1>8. f.number \in DOMAIN pieces' BY <1>3, <1>7
<1>9. pieces'[f.number] = [apid |-> f.apid, flag |-> f.flag, received |-> TRUE]
  BY <1>2, <1>3, <1>7
<1>10. f.sequence_count = Cardinality(Sent(f.apid, f.number - 1)') % SequenceCounts
  BY <1>2, <1>3, <1>6
<1> QED BY <1>2, <1>8, <1>9, <1>10, Zenon DEF AsSent

\* When nothing is kept the invariant holds of what is kept.
LEMMA NothingKept ==
    ASSUME cute_frames' = <<>>, state' = "SEARCH_START"
    PROVE  KeptAsSent' /\ LostSince' /\ InARow' /\ Searching'
BY DEF KeptAsSent, LostSince, InARow, Searching

\* Packets put together before stay so.
LEMMA StillParsed ==
    ASSUME CuteInv, NEW apid \in CuteApids, NEW flag \in Flag, NEW received \in BOOLEAN,
           Sends(apid, flag, received), UNCHANGED parsed
    PROVE  ParsedSent'
<1>1. pieces \in Seq(Piece) BY DEF CuteInv, CuteType
<1>2. DOMAIN pieces \subseteq DOMAIN pieces'
  <2>1. OneMoreSent BY OnePieceMore
  <2> QED BY <1>1, <2>1 DEF OneMoreSent
<1> QED BY <1>2 DEF CuteInv, ParsedSent

\* The invariant is kept by a frame that is lost,
LEMMA FrameLost ==
    ASSUME CuteInv, NEW apid \in CuteApids, NEW flag \in Flag, NEW received \in BOOLEAN,
           Sends(apid, flag, received), ~received
    PROVE  CuteInv'
<1>0. OneMoreSent BY OnePieceMore
<1>1. UNCHANGED <<cute_frames, state, parsed>> BY DEF Sends
<1>2. pieces \in Seq(Piece) /\ cute_frames \in Seq(KeptFrame) BY DEF CuteInv, CuteType
<1>3. CuteType' BY <1>0, <1>1 DEF CuteInv, CuteType, OneMoreSent
<1>4. PacketAfterPacket' /\ FewLost' BY HistoryKept
<1>5. KeptAsSent'
  <2>1. ASSUME NEW j \in DOMAIN cute_frames, NEW f, f = cute_frames[j] PROVE AsSent(f, j)'
    BY <2>1, StillAsSent, Zenon
  <2> QED BY <1>1, <2>1, Zenon DEF KeptAsSent, AsSent
<1>6. LostSince'
  <2>1. SUFFICES ASSUME cute_frames # <<>>, NEW i \in Last(cute_frames).number + 1 .. Len(pieces) + 1
                 PROVE  ~pieces'[i].received
    <3>1. Len(pieces') = Len(pieces) + 1 BY <1>0 DEF OneMoreSent
    <3>2. Last(cute_frames)' = Last(cute_frames) BY <1>1 DEF Last
    <3> QED BY <1>1, <3>1, <3>2, Zenon DEF LostSince
  <2>2. PICK n \in DOMAIN pieces : Last(cute_frames).number = n BY <2>1, LastKept
  <2>3. n \in 1 .. Len(pieces) /\ Len(pieces) \in Nat BY <1>2, <2>2
  <2>4. i \in n + 1 .. Len(pieces) + 1 BY <2>1, <2>2
  <2>5. CASE i = Len(pieces) + 1
    <3>1. pieces'[Len(pieces) + 1] = [apid |-> apid, flag |-> flag, received |-> received]
      BY OnePieceMore
    <3>2. pieces'[i].received = received BY <2>5, <3>1
    <3> QED BY <3>2
  <2>6. CASE i \in n + 1 .. Len(pieces)
    <3>1. ~pieces[i].received BY <2>1, <2>2, <2>6 DEF CuteInv, LostSince
    <3>2. i \in 1 .. Len(pieces) BY <2>3, <2>6
    <3>3. pieces'[i] = pieces[i] BY <1>0, <3>2 DEF OneMoreSent
    <3> QED BY <3>1, <3>3
  <2> QED BY <2>3, <2>4, <2>5, <2>6
<1>7. InARow' /\ Searching' BY <1>1 DEF CuteInv, InARow, Searching
<1>8. ParsedSent' BY <1>1, StillParsed
<1> QED BY <1>3, <1>4, <1>5, <1>6, <1>7, <1>8 DEF CuteInv

\* by one that makes the parser start anew,
LEMMA FrameDropped ==
    ASSUME CuteInv, NEW apid \in CuteApids, NEW flag \in Flag, NEW received \in BOOLEAN,
           Sends(apid, flag, received), received, DropAll
    PROVE  CuteInv'
<1>0. OneMoreSent BY OnePieceMore
<1>1. cute_frames' = <<>> /\ state' = "SEARCH_START" /\ UNCHANGED parsed BY DEF DropAll
<1>2. CuteType' BY <1>0, <1>1 DEF CuteInv, CuteType, OneMoreSent
<1>3. PacketAfterPacket' /\ FewLost' BY HistoryKept
<1> QED BY <1>1, <1>2, <1>3, NothingKept, StillParsed DEF CuteInv

\* by one that is kept,
LEMMA FrameKept ==
    ASSUME CuteInv, NEW apid \in CuteApids, NEW flag \in Flag, NEW received \in BOOLEAN,
           Sends(apid, flag, received), received, Fits(apid, flag), ~Ends(flag),
           Keep(Append(cute_frames, Frame(apid, flag)))
    PROVE  CuteInv'
<1>0. OneMoreSent BY OnePieceMore
<1>1. PICK kept : kept = Append(cute_frames, Frame(apid, flag)) OBVIOUS
<1>2. cute_frames' = kept /\ state' = "SEARCH_MIDDLE" /\ UNCHANGED parsed BY <1>1 DEF Keep
<1>3. pieces \in Seq(Piece) /\ cute_frames \in Seq(KeptFrame) BY DEF CuteInv, CuteType
<1>4. MayFollow(apid, flag) BY DEF Sends
<1>5. /\ kept \in Seq(KeptFrame)
      /\ kept # <<>>
      /\ DOMAIN kept = 1 .. Len(cute_frames) + 1
      /\ Last(kept) = Frame(apid, flag)
      /\ kept[Len(cute_frames) + 1] = Frame(apid, flag)
      /\ \A j \in 1 .. Len(cute_frames) : kept[j] = cute_frames[j]
      /\ \A k \in DOMAIN kept :
             (\A j \in 1 .. k : kept[j].apid = kept[1].apid)
                 => kept[k].number = kept[1].number + k - 1
  BY <1>1, <1>4, KeptWithNext
<1>6. CuteType' BY <1>0, <1>2, <1>5 DEF CuteInv, CuteType, OneMoreSent
<1>7. PacketAfterPacket' /\ FewLost' BY HistoryKept
<1>8. PICK l \in Nat : l = Len(pieces) BY <1>3
<1>9. KeptAsSent'
  <2>1. SUFFICES ASSUME NEW j \in 1 .. Len(cute_frames) + 1, NEW f, f = kept[j]
                 PROVE  AsSent(f, j)'
    BY <1>2, <1>5, Zenon DEF KeptAsSent, AsSent
  <2>2. CASE j \in 1 .. Len(cute_frames)
    <3>1. f = cute_frames[j] /\ j \in DOMAIN cute_frames BY <1>3, <1>5, <2>1, <2>2
    <3> QED BY <3>1, StillAsSent, Zenon
  <2>3. CASE j = Len(cute_frames) + 1
    <3>2. f = Frame(apid, flag) BY <1>5, <2>1, <2>3
    <3>3. f.number = l + 1 /\ f.apid = apid /\ f.flag = flag /\ f.sequence_count = NextCount(apid)
      BY <1>8, <3>2 DEF Frame
    <3>4. pieces'[l + 1] = [apid |-> apid, flag |-> flag, received |-> TRUE] /\ l + 1 \in DOMAIN pieces'
      <4>1. pieces'[Len(pieces) + 1] = [apid |-> apid, flag |-> flag, received |-> received]
        BY OnePieceMore
      <4>2. received = TRUE OBVIOUS
      <4>3. l + 1 \in DOMAIN pieces' BY <1>0, <1>8 DEF OneMoreSent
      <4> QED BY <1>8, <4>1, <4>2, <4>3, Zenon
    <3>5. f.flag = IF j = 1 THEN "GRP_BEGIN" ELSE "GRP_MIDDLE"
      <4>1. j = 1 <=> cute_frames = <<>> BY <1>3, <2>3
      <4>2. CASE Begins(flag) BY <3>3, <4>1, <4>2 DEF Fits, Begins, Ends
      <4>3. CASE ~Begins(flag) BY <3>3, <4>1, <4>3 DEF Fits, Begins, Ends, Flag
      <4> QED BY <4>2, <4>3
    <3>6. f.sequence_count = Cardinality(Sent(f.apid, f.number - 1)') % SequenceCounts
      <4>1. l \in 0 .. Len(pieces) /\ (l + 1) - 1 = l BY <1>8
      <4>2. Sent(apid, l)' = Sent(apid, l) BY <1>0, <4>1 DEF OneMoreSent
      <4>3. NextCount(apid) = Cardinality(Sent(apid, l)) % SequenceCounts BY <1>3, <1>8, CountOfNext
      <4> QED BY <3>3, <4>1, <4>2, <4>3
    <3> QED BY <3>3, <3>4, <3>5, <3>6 DEF AsSent
  <2>4. j \in 1 .. Len(cute_frames) \/ j = Len(cute_frames) + 1 BY <1>3, <2>1
  <2> QED BY <2>2, <2>3, <2>4
<1>10. LostSince'
  <2>1. Last(cute_frames)' = Last(kept) BY <1>2 DEF Last
  <2>2. Last(cute_frames)'.number = l + 1 BY <1>5, <1>8, <2>1 DEF Frame
  <2>3. Len(pieces') = l + 1 BY <1>0, <1>8 DEF OneMoreSent
  <2>4. (l + 1) + 1 .. l + 1 = {} OBVIOUS
  <2> QED BY <2>2, <2>3, <2>4 DEF LostSince
<1>11. InARow' BY <1>2, <1>5, Zenon DEF InARow
<1>12. Searching' BY <1>2, <1>5 DEF Searching
<1>13. ParsedSent' BY <1>2, StillParsed
<1> QED BY <1>6, <1>7, <1>9, <1>10, <1>11, <1>12, <1>13 DEF CuteInv

\* and by the end of a packet.
LEMMA PacketPutTogether ==
    ASSUME CuteInv, NEW apid \in CuteApids, NEW flag \in Flag, NEW received \in BOOLEAN,
           Sends(apid, flag, received), received, Fits(apid, flag),
           Process(Append(cute_frames, Frame(apid, flag)))
    PROVE  CuteInv'
<1>0. OneMoreSent BY OnePieceMore
<1>1. PICK kept : kept = Append(cute_frames, Frame(apid, flag)) OBVIOUS
<1>2. PICK packet : packet = [i \in DOMAIN kept |-> kept[i].number] OBVIOUS
<1>3. cute_frames' = <<>> /\ state' = "SEARCH_START" /\ parsed' = Append(parsed, packet)
  BY <1>1, <1>2 DEF Process
<1>4. pieces \in Seq(Piece) /\ cute_frames \in Seq(KeptFrame) /\ parsed \in Seq(Seq(Nat))
  BY DEF CuteInv, CuteType
<1>5. MayFollow(apid, flag) BY DEF Sends
<1>6. /\ kept \in Seq(KeptFrame)
      /\ DOMAIN kept = 1 .. Len(cute_frames) + 1
      /\ kept[Len(cute_frames) + 1] = Frame(apid, flag)
      /\ \A j \in 1 .. Len(cute_frames) : kept[j] = cute_frames[j]
  BY <1>1, <1>5, KeptWithNext
<1>7. PICK n \in Nat : n = Len(cute_frames) + 1 BY <1>4
<1>8. \A i \in 1 .. n : kept[i].number \in DOMAIN pieces' /\ kept[i].number \in Nat
  <2>1. SUFFICES ASSUME NEW i \in 1 .. n
                 PROVE  kept[i].number \in DOMAIN pieces' /\ kept[i].number \in Nat
    OBVIOUS
  <2>2. DOMAIN pieces' \subseteq Nat BY <1>0, <1>4 DEF OneMoreSent
  <2>3. CASE i \in 1 .. Len(cute_frames)
    <3>1. kept[i] = cute_frames[i] /\ i \in DOMAIN cute_frames BY <1>4, <1>6, <2>3
    <3>2. PICK f : f = cute_frames[i] OBVIOUS
    <3>3. AsSent(f, i)' BY <3>1, <3>2, StillAsSent, Zenon
    <3> QED BY <2>2, <3>1, <3>2, <3>3 DEF AsSent
  <2>4. CASE i = Len(cute_frames) + 1
    <3>1. kept[i].number = Len(pieces) + 1 BY <1>6, <2>4 DEF Frame
    <3>2. Len(pieces) + 1 \in DOMAIN pieces' BY <1>0, <1>4 DEF OneMoreSent
    <3> QED BY <2>2, <3>1, <3>2
  <2> QED BY <1>4, <1>7, <2>3, <2>4
<1>9. packet \in Seq(Nat) /\ packet # <<>> /\ DOMAIN packet = 1 .. n
      /\ \A i \in 1 .. n : packet[i] \in DOMAIN pieces'
  <2>1. packet = [i \in 1 .. n |-> kept[i].number] BY <1>2, <1>6, <1>7
  <2>2. packet \in [1 .. n -> Nat] BY <1>8, <2>1
  <2>3. packet \in Seq(Nat) BY <2>2
  <2>4. 1 \in DOMAIN packet BY <1>4, <1>7, <2>1
  <2> QED BY <1>8, <2>1, <2>3, <2>4
<1>10. /\ parsed' \in Seq(Seq(Nat))
       /\ DOMAIN parsed' = 1 .. Len(parsed) + 1
       /\ parsed'[Len(parsed) + 1] = packet
       /\ \A k \in 1 .. Len(parsed) : parsed'[k] = parsed[k]
  BY <1>3, <1>4, <1>9, Appended
<1>11. CuteType' BY <1>0, <1>3, <1>10 DEF CuteInv, CuteType, OneMoreSent
<1>12. PacketAfterPacket' /\ FewLost' BY HistoryKept
<1>13. ParsedSent'
  <2>1. SUFFICES ASSUME NEW k \in 1 .. Len(parsed) + 1
                 PROVE  parsed'[k] # <<>> /\ \A i \in DOMAIN parsed'[k] : parsed'[k][i] \in DOMAIN pieces'
    BY <1>10, Zenon DEF ParsedSent
  <2>2. CASE k \in 1 .. Len(parsed)
    <3>1. k \in DOMAIN parsed /\ parsed'[k] = parsed[k] BY <1>4, <1>10, <2>2
    <3>2. DOMAIN pieces \subseteq DOMAIN pieces' BY <1>0, <1>4 DEF OneMoreSent
    <3> QED BY <3>1, <3>2 DEF CuteInv, ParsedSent
  <2>3. CASE k = Len(parsed) + 1
    <3>1. parsed'[k] = packet BY <1>10, <2>3
    <3> QED BY <1>9, <3>1
  <2> QED BY <1>4, <2>1, <2>2, <2>3
<1> QED BY <1>3, <1>11, <1>12, <1>13, NothingKept DEF CuteInv

\* The invariant holds before the first frame.
LEMMA CuteInvInitially == CuteInit => CuteInv
<1> SUFFICES ASSUME CuteInit PROVE CuteInv OBVIOUS
<1>1. pieces = <<>> /\ cute_frames = <<>> /\ state = "SEARCH_START" /\ parsed = <<>>
  BY DEF CuteInit
<1>2. CuteType BY <1>1 DEF CuteType
<1>3. PacketAfterPacket /\ KeptAsSent /\ LostSince /\ InARow /\ Searching /\ ParsedSent
  BY <1>1 DEF PacketAfterPacket, KeptAsSent, LostSince, InARow, Searching, ParsedSent
<1>4. FewLost BY <1>1, LossesAssumption DEF FewLost
<1> QED BY <1>2, <1>3, <1>4 DEF CuteInv

\* Every step keeps the invariant.
LEMMA CuteInvKept == CuteInv /\ [CuteNext]_cuteVars => CuteInv'
<1> SUFFICES ASSUME CuteInv, [CuteNext]_cuteVars PROVE CuteInv' OBVIOUS
<1>1. CASE CuteFrame
  <2>1. PICK apid \in CuteApids, flag \in Flag, received \in BOOLEAN : Sends(apid, flag, received)
    BY <1>1, Parsing DEF CuteInv, CuteType
  <2>2. CASE ~received BY <2>1, <2>2, FrameLost
  <2>3. CASE received /\ DropAll BY <2>1, <2>3, FrameDropped
  <2>4. CASE received /\ Fits(apid, flag) /\ ~Ends(flag)
                /\ Keep(Append(cute_frames, Frame(apid, flag)))
    BY <2>1, <2>4, FrameKept
  <2>5. CASE received /\ Fits(apid, flag) /\ Process(Append(cute_frames, Frame(apid, flag)))
    BY <2>1, <2>5, PacketPutTogether
  <2> QED BY <2>1, <2>2, <2>3, <2>4, <2>5, Zenon DEF Sends, Outcome
<1>2. CASE UNCHANGED cuteVars
  <2>1. CuteType' BY <1>2 DEF cuteVars, CuteInv, CuteType
  <2>2. PacketAfterPacket' BY <1>2, Zenon DEF cuteVars, CuteInv, PacketAfterPacket, Begins, Ends
  <2>3. FewLost' BY <1>2, Zenon DEF cuteVars, CuteInv, FewLost
  <2>4. KeptAsSent' BY <1>2, Zenon DEF cuteVars, CuteInv, KeptAsSent, AsSent, Sent
  <2>5. LostSince' BY <1>2, Zenon DEF cuteVars, CuteInv, LostSince, Last
  <2>6. InARow' BY <1>2, Zenon DEF cuteVars, CuteInv, InARow
  <2>7. Searching' /\ ParsedSent' BY <1>2 DEF cuteVars, CuteInv, Searching, ParsedSent
  <2> QED BY <2>1, <2>2, <2>3, <2>4, <2>5, <2>6, <2>7 DEF CuteInv
<1> QED BY <1>1, <1>2 DEF CuteNext

\* The inductive invariant.
THEOREM CuteInvariance == CuteSpec => []CuteInv
BY CuteInvInitially, CuteInvKept, PTL DEF CuteSpec

------------------------------------------------------------------------------
\* What PiecesOfOnePacket says of a packet.
OnePacket(p) ==
    (\A i \in DOMAIN p : pieces[p[i]].apid = pieces[p[1]].apid)
        => /\ IsPacket(p[1], Last(p))
           /\ p = [i \in 1 .. Last(p) - p[1] + 1 |-> p[1] + i - 1]

\* Frame i of those kept is the one that was received, when n came before the last.
KeptAs(f, i, n, flag) ==
    /\ f.number \in 1 .. Len(pieces) + 1
    /\ pieces'[f.number].apid = f.apid
    /\ i <= n => pieces'[f.number].flag = IF i = 1 THEN "GRP_BEGIN" ELSE "GRP_MIDDLE"
    /\ i = n + 1 => pieces'[f.number].flag = flag /\ f.number = Len(pieces) + 1

\* The frames a packet is made of.
LEMMA KeptFlags ==
    ASSUME CuteInv, NEW apid \in CuteApids, NEW flag \in Flag, NEW received \in BOOLEAN,
           Sends(apid, flag, received), received, Fits(apid, flag),
           NEW kept, kept = Append(cute_frames, Frame(apid, flag)),
           NEW i \in 1 .. Len(cute_frames) + 1
    PROVE  KeptAs(kept[i], i, Len(cute_frames), flag)
<1>1. pieces \in Seq(Piece) /\ cute_frames \in Seq(KeptFrame) BY DEF CuteInv, CuteType
<1>2. MayFollow(apid, flag) BY DEF Sends
<1>3. /\ kept[Len(cute_frames) + 1] = Frame(apid, flag)
      /\ \A j \in 1 .. Len(cute_frames) : kept[j] = cute_frames[j]
  BY <1>2, KeptWithNext
<1>4. PICK f : f = kept[i] OBVIOUS
<1>5. PICK l \in Nat : l = Len(cute_frames) BY <1>1
<1>6. DOMAIN pieces' = 1 .. Len(pieces) + 1
  <2>1. OneMoreSent BY OnePieceMore
  <2> QED BY <2>1 DEF OneMoreSent
<1>7. CASE i \in 1 .. l
  <2>1. f = cute_frames[i] /\ i \in DOMAIN cute_frames BY <1>1, <1>3, <1>4, <1>5, <1>7
  <2>2. AsSent(f, i)' BY <2>1, StillAsSent, Zenon
  <2>3. /\ f.number \in 1 .. Len(pieces) + 1
        /\ pieces'[f.number] = [apid |-> f.apid, flag |-> f.flag, received |-> TRUE]
        /\ f.flag = IF i = 1 THEN "GRP_BEGIN" ELSE "GRP_MIDDLE"
    BY <1>6, <2>2 DEF AsSent
  <2> QED BY <1>4, <1>5, <1>7, <2>3 DEF KeptAs
<1>8. CASE i = l + 1
  <2>1. f = Frame(apid, flag) BY <1>3, <1>4, <1>5, <1>8
  <2>2. PICK n \in Nat : n = Len(pieces) BY <1>1
  <2>3. f.number = n + 1 /\ f.apid = apid BY <2>1, <2>2 DEF Frame
  <2>4. pieces'[Len(pieces) + 1] = [apid |-> apid, flag |-> flag, received |-> received]
    BY OnePieceMore
  <2>5. pieces'[n + 1].apid = apid /\ pieces'[n + 1].flag = flag BY <2>2, <2>4
  <2> QED BY <1>4, <1>5, <1>8, <2>2, <2>3, <2>5 DEF KeptAs
<1> QED BY <1>5, <1>7, <1>8

\* A packet that is put together now.
LEMMA NewIsOnePacket ==
    ASSUME CuteInv, NEW apid \in CuteApids, NEW flag \in Flag, NEW received \in BOOLEAN,
           Sends(apid, flag, received), received, Fits(apid, flag), Ends(flag),
           NEW kept, kept = Append(cute_frames, Frame(apid, flag)),
           NEW p, p = [i \in DOMAIN kept |-> kept[i].number]
    PROVE  OnePacket(p)'
<1>1. pieces \in Seq(Piece) /\ cute_frames \in Seq(KeptFrame) BY DEF CuteInv, CuteType
<1>2. MayFollow(apid, flag) BY DEF Sends
<1>3. PICK l \in Nat : l = Len(cute_frames) BY <1>1
<1>4. DOMAIN kept = 1 .. l + 1 BY <1>2, <1>3, KeptWithNext
<1>5. DOMAIN p = 1 .. l + 1 /\ \A i \in 1 .. l + 1 : p[i] = kept[i].number BY <1>4
<1>6. \A i \in 1 .. l + 1 :
         /\ p[i] \in 1 .. Len(pieces) + 1
         /\ pieces'[p[i]].apid = kept[i].apid
         /\ i <= l => pieces'[p[i]].flag = IF i = 1 THEN "GRP_BEGIN" ELSE "GRP_MIDDLE"
         /\ i = l + 1 => pieces'[p[i]].flag = flag
  <2>1. SUFFICES ASSUME NEW i \in 1 .. Len(cute_frames) + 1
                 PROVE  /\ p[i] \in 1 .. Len(pieces) + 1
                        /\ pieces'[p[i]].apid = kept[i].apid
                        /\ i <= Len(cute_frames) =>
                               pieces'[p[i]].flag = IF i = 1 THEN "GRP_BEGIN" ELSE "GRP_MIDDLE"
                        /\ i = Len(cute_frames) + 1 => pieces'[p[i]].flag = flag
    BY <1>3, Zenon
  <2>2. p[i] = kept[i].number BY <1>3, <1>5
  <2>3. KeptAs(kept[i], i, Len(cute_frames), flag) BY KeptFlags
  <2> QED BY <2>2, <2>3, Zenon DEF KeptAs
<1>7. SUFFICES ASSUME \A i \in DOMAIN p : pieces'[p[i]].apid = pieces'[p[1]].apid
               PROVE  /\ IsPacket(p[1], Last(p))'
                      /\ p = [i \in 1 .. Last(p) - p[1] + 1 |-> p[1] + i - 1]
  BY Zenon DEF OnePacket, Last
<1>8. PICK first \in Nat : first = p[1]
  <2>1. 1 \in 1 .. l + 1 OBVIOUS
  <2>2. p[1] \in 1 .. Len(pieces) + 1 BY <1>6, <2>1, Zenon
  <2>3. PICK n \in Nat : n = Len(pieces) BY <1>1
  <2> QED BY <2>2, <2>3
<1>9. \A k \in 1 .. l + 1 : p[k] = first + k - 1
  <2>1. SUFFICES ASSUME NEW k \in 1 .. l + 1 PROVE p[k] = first + k - 1 OBVIOUS
  <2>2. \A j \in 1 .. k : j \in 1 .. l + 1 OBVIOUS
  <2>3. 1 \in 1 .. l + 1 OBVIOUS
  <2>4. ASSUME NEW j \in 1 .. k PROVE kept[j].apid = kept[1].apid
    <3>1. pieces'[p[j]].apid = kept[j].apid BY <1>6, <2>2
    <3>2. pieces'[p[1]].apid = kept[1].apid BY <1>6, <2>3
    <3>3. pieces'[p[j]].apid = pieces'[p[1]].apid BY <1>5, <1>7, <2>2
    <3> QED BY <3>1, <3>2, <3>3
  <2>5. k \in DOMAIN kept BY <1>4
  <2>6. kept[k].number = kept[1].number + k - 1 BY <1>2, <2>4, <2>5, KeptWithNext
  <2> QED BY <1>5, <1>8, <2>3, <2>6
<1>10. Last(p) = first + l
  <2>1. Len(p) = l + 1 BY <1>5
  <2>2. l + 1 \in 1 .. l + 1 OBVIOUS
  <2>3. p[l + 1] = first + (l + 1) - 1 BY <1>9, <2>2
  <2>4. first + (l + 1) - 1 = first + l OBVIOUS
  <2> QED BY <2>1, <2>3, <2>4 DEF Last
<1>11. p = [i \in 1 .. Last(p) - p[1] + 1 |-> p[1] + i - 1]
  <2>1. Last(p) - p[1] + 1 = l + 1
    <3>1. (first + l) - first + 1 = l + 1 OBVIOUS
    <3> QED BY <1>8, <1>10, <3>1, Zenon
  <2>2. p = [i \in DOMAIN p |-> p[i]] OBVIOUS
  <2> QED BY <1>5, <1>8, <1>9, <2>1, <2>2
<1>12. \A i \in first .. first + l : i - first + 1 \in 1 .. l + 1 /\ p[i - first + 1] = i
  <2>1. SUFFICES ASSUME NEW i \in first .. first + l
                 PROVE  i - first + 1 \in 1 .. l + 1 /\ p[i - first + 1] = i
    OBVIOUS
  <2>2. PICK k \in 1 .. l + 1 : k = i - first + 1 OBVIOUS
  <2>3. p[k] = first + k - 1 BY <1>9
  <2>4. first + k - 1 = i BY <2>2
  <2> QED BY <2>2, <2>3, <2>4
<1>13. Begins(pieces'[first].flag)
  <2>1. 1 \in 1 .. l + 1 OBVIOUS
  <2>2. CASE l = 0
    <3>1. cute_frames = <<>>
      <4>1. \A s \in Seq(KeptFrame) : Len(s) = 0 => s = <<>> OBVIOUS
      <4> QED BY <1>1, <1>3, <2>2, <4>1
    <3>2. Begins(flag) BY <3>1 DEF Fits
    <3> QED BY <1>6, <1>8, <2>1, <2>2, <3>2
  <2>3. CASE l # 0
    <3>1. 1 <= l BY <2>3
    <3>2. pieces'[first].flag = "GRP_BEGIN" BY <1>6, <1>8, <2>1, <3>1
    <3> QED BY <3>2 DEF Begins
  <2> QED BY <2>2, <2>3
<1>14. Ends(pieces'[first + l].flag)
  <2>1. l + 1 \in 1 .. l + 1 /\ first + l \in first .. first + l /\ (first + l) - first + 1 = l + 1
    OBVIOUS
  <2>2. p[l + 1] = first + l BY <1>12, <2>1, Zenon
  <2>3. pieces'[p[l + 1]].flag = flag BY <1>6, <2>1, Zenon
  <2> QED BY <2>2, <2>3
<1>15. \A i \in first .. (first + l) - 1 : ~Ends(pieces'[i].flag)
  <2>1. SUFFICES ASSUME NEW i \in first .. (first + l) - 1 PROVE ~Ends(pieces'[i].flag) OBVIOUS
  <2>2. i \in first .. first + l OBVIOUS
  <2>3. PICK k \in 1 .. l + 1 : k = i - first + 1 /\ p[k] = i /\ k <= l BY <1>12, <2>2, SMTT(20)
  <2>4. pieces'[i].flag \in {"GRP_BEGIN", "GRP_MIDDLE"} BY <1>6, <2>3, ZenonT(30)
  <2> QED BY <2>4 DEF Ends
<1>16. IsPacket(p[1], Last(p))'
  <2>1. Last(p)' = first + l BY <1>10
  <2> QED BY <1>8, <1>10, <1>13, <1>14, <1>15, Zenon DEF IsPacket, Begins, Ends
<1> QED BY <1>11, <1>16

\* A packet that was put together before.
LEMMA StillOnePacket ==
    ASSUME CuteInv, OneMoreSent, NEW p \in Seq(Nat), p # <<>>,
           \A i \in DOMAIN p : p[i] \in DOMAIN pieces,
           OnePacket(p)
    PROVE  OnePacket(p)'
<1>1. pieces \in Seq(Piece) BY DEF CuteInv, CuteType
<1>2. \A i \in 1 .. Len(pieces) : pieces'[i] = pieces[i] BY DEF OneMoreSent
<1>3. SUFFICES ASSUME \A i \in DOMAIN p : pieces'[p[i]].apid = pieces'[p[1]].apid
               PROVE  /\ IsPacket(p[1], Last(p))'
                      /\ p = [i \in 1 .. Last(p) - p[1] + 1 |-> p[1] + i - 1]
  BY Zenon DEF OnePacket, Last
<1>4. 1 \in DOMAIN p /\ Len(p) \in DOMAIN p BY LastElement
<1>5. \A i \in DOMAIN p : p[i] \in 1 .. Len(pieces) /\ pieces'[p[i]] = pieces[p[i]]
  BY <1>1, <1>2
<1>6. \A i \in DOMAIN p : pieces[p[i]].apid = pieces[p[1]].apid BY <1>3, <1>4, <1>5
<1>7. /\ IsPacket(p[1], Last(p))
      /\ p = [i \in 1 .. Last(p) - p[1] + 1 |-> p[1] + i - 1]
  BY <1>6, Zenon DEF OnePacket
<1>8. Last(p)' = Last(p) /\ Last(p) = p[Len(p)] BY DEF Last
<1>9. PICK first, last : first = p[1] /\ last = Last(p) OBVIOUS
<1>10. /\ first \in 1 .. Len(pieces) /\ last \in 1 .. Len(pieces)
       /\ pieces'[first] = pieces[first] /\ pieces'[last] = pieces[last]
  BY <1>4, <1>5, <1>8, <1>9
<1>11. Begins(pieces[first].flag) /\ Ends(pieces[last].flag)
       /\ \A i \in first .. last - 1 : ~Ends(pieces[i].flag)
  BY <1>7, <1>9, Zenon DEF IsPacket
<1>12. \A i \in first .. last - 1 : i \in 1 .. Len(pieces) BY <1>1, <1>10
<1>13. \A i \in first .. last - 1 : ~Ends(pieces'[i].flag) BY <1>2, <1>11, <1>12
<1>14. Begins(pieces'[first].flag) /\ Ends(pieces'[last].flag) BY <1>10, <1>11
<1>15. IsPacket(p[1], Last(p))'
  BY <1>8, <1>9, <1>13, <1>14, Zenon DEF IsPacket, Begins, Ends
<1> QED BY <1>7, <1>15

\* The packets put together before are still there.
LEMMA ParsedStays ==
    ASSUME CuteInv, NEW apid, NEW flag, NEW received,
           Sends(apid, flag, received), NEW k \in DOMAIN parsed
    PROVE  k \in DOMAIN parsed' /\ parsed'[k] = parsed[k]
<1>1. parsed \in Seq(Seq(Nat)) BY DEF CuteInv, CuteType
<1>2. CASE UNCHANGED parsed BY <1>2
<1>3. ASSUME NEW x, parsed' = Append(parsed, x)
      PROVE  k \in DOMAIN parsed' /\ parsed'[k] = parsed[k]
  <2>1. \A s \in Seq(Seq(Nat)) : \A i \in DOMAIN s :
            i \in DOMAIN Append(s, x) /\ Append(s, x)[i] = s[i]
    OBVIOUS
  <2> QED BY <1>1, <1>3, <2>1
<1> QED BY <1>2, <1>3 DEF Sends, Outcome, DropAll, Keep, Process

\* A step puts together one packet at most, and a whole one.
LEMMA PiecesStep ==
    ASSUME CuteInv, PiecesOfOnePacket, [CuteNext]_cuteVars
    PROVE  PiecesOfOnePacket'
<1>1. parsed \in Seq(Seq(Nat)) BY DEF CuteInv, CuteType
<1>2. \A k \in DOMAIN parsed : OnePacket(parsed[k])
  BY Zenon DEF PiecesOfOnePacket, OnePacket
<1>3. CASE CuteFrame
  <2>1. PICK apid \in CuteApids, flag \in Flag, received \in BOOLEAN : Sends(apid, flag, received)
    BY <1>3, Parsing DEF CuteInv, CuteType
  <2>2. OneMoreSent BY <2>1, OnePieceMore
  <2>3. ASSUME NEW k \in DOMAIN parsed, NEW p, p = parsed[k] PROVE OnePacket(p)'
    <3>1. p \in Seq(Nat) BY <1>1, <2>3
    <3>2. p # <<>> /\ \A i \in DOMAIN p : p[i] \in DOMAIN pieces
      BY <2>3 DEF CuteInv, ParsedSent
    <3>3. OnePacket(p) BY <1>2, <2>3
    <3> QED BY <2>2, <3>1, <3>2, <3>3, StillOnePacket
  <2>4. CASE UNCHANGED parsed
    BY <2>3, <2>4, Zenon DEF PiecesOfOnePacket, OnePacket
  <2>5. CASE received /\ Fits(apid, flag) /\ Ends(flag)
                /\ Process(Append(cute_frames, Frame(apid, flag)))
    <3>1. PICK kept : kept = Append(cute_frames, Frame(apid, flag)) OBVIOUS
    <3>2. PICK packet : packet = [i \in DOMAIN kept |-> kept[i].number] OBVIOUS
    <3>3. parsed' = Append(parsed, packet) BY <2>5, <3>1, <3>2 DEF Process
    <3>4. OnePacket(packet)' BY <2>1, <2>5, <3>1, <3>2, NewIsOnePacket
    <3>5. \A s \in Seq(Seq(Nat)) : \A i \in DOMAIN Append(s, packet) :
              \/ i \in DOMAIN s /\ Append(s, packet)[i] = s[i]
              \/ Append(s, packet)[i] = packet
      OBVIOUS
    <3>6. ASSUME NEW k \in DOMAIN parsed', NEW p, p = parsed'[k] PROVE OnePacket(p)'
      <4>1. (k \in DOMAIN parsed /\ p = parsed[k]) \/ p = packet BY <1>1, <3>3, <3>5, <3>6
      <4> QED BY <2>3, <3>4, <4>1
    <3> QED BY <3>6, Zenon DEF PiecesOfOnePacket, OnePacket
  <2> QED BY <2>1, <2>4, <2>5 DEF Sends, Outcome, DropAll, Keep
<1>4. CASE UNCHANGED cuteVars
  <2>1. UNCHANGED <<pieces, parsed>> BY <1>4 DEF cuteVars
  <2>2. ASSUME NEW p, OnePacket(p) PROVE OnePacket(p)'
    BY <2>1, <2>2, Zenon DEF OnePacket, IsPacket, Begins, Ends, Last
  <2>3. ASSUME NEW k \in DOMAIN parsed, NEW p, p = parsed[k] PROVE OnePacket(p)'
    <3>1. OnePacket(p) BY <1>2, <2>3
    <3> QED BY <2>2, <3>1
  <2> QED BY <2>1, <2>3, Zenon DEF PiecesOfOnePacket, OnePacket
<1> QED BY <1>3, <1>4 DEF CuteNext

\* What is put together is a packet as it was sent, for any number of applications
\* and frames and any width of the count, as long as fewer frames in a row are lost than
\* the count has values.
THEOREM OnlyWholePackets == CuteSpec => []PiecesOfOnePacket
<1>1. CuteInit => PiecesOfOnePacket BY DEF CuteInit, PiecesOfOnePacket
<1> QED BY <1>1, CuteInvariance, PiecesStep, PTL DEF CuteSpec

------------------------------------------------------------------------------
\* The frames first to last have been received, the one before them too.
AllReceived(first, last) ==
    /\ Begins(pieces[first].flag)
    /\ \A i \in first .. last : pieces[i].received
    /\ \A i \in first .. last - 1 : ~Ends(pieces[i].flag)
    /\ first = 1 \/ pieces[first - 1].received

\* They are what is kept.
KeptFrom(first, last, kept) ==
    /\ Len(kept) = last - (first - 1)
    /\ DOMAIN kept = 1 .. Len(kept)
    /\ \A j \in DOMAIN kept : kept[j].number = first + j - 1

\* A frame that comes after such a beginning of its packet fits.
LEMMA ArrivedFits ==
    ASSUME CuteInv, NothingAfterEnd, WholeSoFar,
           NEW apid \in CuteApids, NEW flag \in Flag, NEW received \in BOOLEAN,
           Sends(apid, flag, received), received,
           NEW last, last = Len(pieces) + 1,
           NEW first \in 1 .. last, AllReceived(first, last)',
           NEW kept, kept = Append(cute_frames, Frame(apid, flag))
    PROVE  Fits(apid, flag) /\ KeptFrom(first, last, kept)
<1>1. pieces \in Seq(Piece) /\ cute_frames \in Seq(KeptFrame) BY DEF CuteInv, CuteType
<1>2. PICK l \in Nat : l = Len(pieces) BY <1>1
<1>3. MayFollow(apid, flag) BY DEF Sends
<1>4. \A i \in 1 .. l : pieces'[i] = pieces[i]
  <2>1. OneMoreSent BY OnePieceMore
  <2> QED BY <1>2, <2>1 DEF OneMoreSent
<1>5. pieces'[l + 1].flag = flag
  <2>1. pieces'[Len(pieces) + 1] = [apid |-> apid, flag |-> flag, received |-> received]
    BY OnePieceMore
  <2> QED BY <1>2, <2>1
<1>6. /\ Begins(pieces'[first].flag)
      /\ \A i \in first .. l + 1 : pieces'[i].received
      /\ \A i \in first .. (l + 1) - 1 : ~Ends(pieces'[i].flag)
      /\ first = 1 \/ pieces'[first - 1].received
  <2>1. last = l + 1 BY <1>2
  <2> QED BY <2>1, Zenon DEF AllReceived, Begins, Ends
<1>7. first \in 1 .. l + 1 BY <1>2
<1>8. CASE first = l + 1
  <2>1. Begins(flag) BY <1>5, <1>6, <1>8
  <2>2. cute_frames = <<>>
    <3>1. CASE pieces = <<>> BY <3>1 DEF NothingAfterEnd
    <3>2. CASE pieces # <<>>
      <4>1. Last(pieces) = pieces[l] /\ l >= 1 BY <1>1, <1>2, <3>2, LastElement
      <4>2. Ends(Last(pieces).flag) BY <1>3, <2>1, <3>2 DEF MayFollow
      <4>3. first - 1 = l /\ first # 1 /\ l \in 1 .. l BY <1>8, <4>1
      <4>4. pieces'[l].received BY <1>6, <4>3
      <4>5. pieces[l].received BY <1>4, <4>3, <4>4
      <4> QED BY <4>1, <4>2, <4>5 DEF NothingAfterEnd
    <3> QED BY <3>1, <3>2
  <2>3. Fits(apid, flag) BY <2>1, <2>2 DEF Fits
  <2>4. Len(cute_frames) = 0 BY <2>2
  <2>5. /\ Len(kept) = Len(cute_frames) + 1
        /\ DOMAIN kept = 1 .. Len(cute_frames) + 1
        /\ kept[Len(cute_frames) + 1] = Frame(apid, flag)
    BY <1>3, <2>3, KeptWithNext
  <2>6. /\ Len(kept) = 1
        /\ DOMAIN kept = 1 .. 1
        /\ kept[1].number = l + 1
    BY <1>2, <2>4, <2>5 DEF Frame
  <2>7. last - (first - 1) = 1 BY <1>2, <1>8
  <2>8. \A j \in 1 .. 1 : j = 1 /\ first + j - 1 = l + 1 BY <1>8
  <2>9. \A j \in DOMAIN kept : kept[j].number = first + j - 1 BY <2>6, <2>8
  <2> QED BY <2>3, <2>6, <2>7, <2>9 DEF KeptFrom
<1>9. CASE first \in 1 .. l
  <2>1. first \in DOMAIN pieces BY <1>1, <1>2, <1>9
  <2>2. \A i \in first .. l : i \in 1 .. l /\ i \in first .. l + 1 /\ i \in first .. (l + 1) - 1
    BY <1>9
  <2>3. Begins(pieces[first].flag) BY <1>4, <1>6, <1>9
  <2>4. \A i \in first .. l : pieces[i].received /\ ~Ends(pieces[i].flag) BY <1>4, <1>6, <2>2
  <2>5. first = 1 \/ pieces[first - 1].received
    <3>1. CASE first # 1
      <4>1. first - 1 \in 1 .. l BY <1>9, <3>1
      <4> QED BY <1>4, <1>6, <3>1, <4>1
    <3> QED BY <3>1
  <2>6. /\ Len(cute_frames) = Len(pieces) - first + 1
        /\ \A j \in DOMAIN cute_frames : cute_frames[j].number = first + j - 1
    BY <1>2, <2>1, <2>3, <2>4, <2>5, Zenon DEF WholeSoFar
  <2>7. PICK n \in Nat : n = l - first + 1 /\ n >= 1 BY <1>9
  <2>8. Len(cute_frames) = n BY <1>2, <2>6, <2>7
  <2>9. cute_frames # <<>> BY <2>7, <2>8
  <2>10. Last(cute_frames).number = Len(pieces)
    <3>1. Last(cute_frames) = cute_frames[n] /\ n \in DOMAIN cute_frames
      BY <1>1, <2>8, <2>9, LastElement
    <3>2. cute_frames[n].number = first + n - 1 BY <2>6, <3>1
    <3>3. first + n - 1 = l BY <1>9, <2>7
    <3> QED BY <1>2, <3>1, <3>2, <3>3
  <2>11. Fits(apid, flag) BY <1>3, <2>9, <2>10, NextFits
  <2>12. /\ Len(kept) = Len(cute_frames) + 1
         /\ DOMAIN kept = 1 .. Len(cute_frames) + 1
         /\ kept[Len(cute_frames) + 1] = Frame(apid, flag)
         /\ \A j \in 1 .. Len(cute_frames) : kept[j] = cute_frames[j]
    BY <1>3, <2>11, KeptWithNext
  <2>13. Len(kept) = n + 1 /\ DOMAIN kept = 1 .. n + 1 /\ n + 1 = l + 1 - (first - 1)
    BY <1>9, <2>7, <2>8, <2>12
  <2>14. ASSUME NEW j \in 1 .. n + 1 PROVE kept[j].number = first + j - 1
    <3>1. CASE j \in 1 .. n
      <4>1. j \in DOMAIN cute_frames BY <1>1, <2>8, <3>1
      <4>2. kept[j] = cute_frames[j] BY <2>8, <2>12, <3>1
      <4>3. cute_frames[j].number = first + j - 1 BY <2>6, <4>1
      <4> QED BY <4>2, <4>3
    <3>2. CASE j = n + 1
      <4>1. kept[j].number = l + 1 BY <1>2, <2>8, <2>12, <3>2 DEF Frame
      <4>2. first + j - 1 = l + 1 BY <1>9, <2>7, <3>2
      <4> QED BY <4>1, <4>2
    <3>3. j \in 1 .. n \/ j = n + 1 BY <2>7
    <3> QED BY <3>1, <3>2, <3>3
  <2>15. last - (first - 1) = n + 1 BY <1>2, <2>13
  <2> QED BY <2>11, <2>13, <2>14, <2>15 DEF KeptFrom
<1> QED BY <1>7, <1>8, <1>9

\* Whatever the frame that ends a packet does, nothing is kept behind it.
LEMMA NothingAfterEndKept ==
    ASSUME CuteInv, NEW apid \in CuteApids, NEW flag \in Flag, NEW received \in BOOLEAN,
           Sends(apid, flag, received)
    PROVE  NothingAfterEnd'
<1>1. Last(pieces)' = [apid |-> apid, flag |-> flag, received |-> received] BY OnePieceMore
<1>2. PICK x : x = [apid |-> apid, flag |-> flag, received |-> received] OBVIOUS
<1>3. x.received = received /\ x.flag = flag BY <1>2
<1>4. pieces' # <<>>
  <2>1. pieces \in Seq(Piece) BY DEF CuteInv, CuteType
  <2>2. x \in Piece BY <1>2 DEF Piece
  <2>3. pieces' = Append(pieces, x) BY <1>2 DEF Sends
  <2> QED BY <2>1, <2>2, <2>3, Appended
<1>5. ASSUME received, Ends(flag) PROVE cute_frames' = <<>>
  BY <1>5 DEF Sends, Outcome, DropAll, Process
<1> QED BY <1>1, <1>2, <1>3, <1>4, <1>5, Zenon DEF NothingAfterEnd, Ends

\* The packet on its way stays whole while its frames come.
LEMMA WholeSoFarKept ==
    ASSUME CuteInv, NothingAfterEnd, WholeSoFar,
           NEW apid \in CuteApids, NEW flag \in Flag, NEW received \in BOOLEAN,
           Sends(apid, flag, received)
    PROVE  WholeSoFar'
<1>1. PICK last : last = Len(pieces) + 1 OBVIOUS
<1>2. Len(pieces') = last /\ DOMAIN pieces' = 1 .. last /\ last \in Nat
  <2>1. OneMoreSent BY OnePieceMore
  <2>2. Len(pieces) \in Nat BY DEF CuteInv, CuteType
  <2> QED BY <1>1, <2>1, <2>2 DEF OneMoreSent
<1>3. pieces'[last] = [apid |-> apid, flag |-> flag, received |-> received]
  BY <1>1, OnePieceMore
<1>4. SUFFICES ASSUME NEW first \in 1 .. last,
                      Begins(pieces'[first].flag),
                      \A i \in first .. last : pieces'[i].received /\ ~Ends(pieces'[i].flag),
                      first = 1 \/ pieces'[first - 1].received
               PROVE  /\ Len(cute_frames') = last - first + 1
                      /\ \A j \in DOMAIN cute_frames' : cute_frames'[j].number = first + j - 1
  BY <1>2, Zenon DEF WholeSoFar, Begins, Ends
<1>5. last \in first .. last BY <1>2
<1>6. received /\ ~Ends(flag) BY <1>3, <1>4, <1>5
<1>7. \A i \in first .. last - 1 : i \in first .. last BY <1>2
<1>8. AllReceived(first, last)' BY <1>4, <1>7, Zenon DEF AllReceived, Begins, Ends
<1>9. PICK kept : kept = Append(cute_frames, Frame(apid, flag)) OBVIOUS
<1>10. Fits(apid, flag) /\ KeptFrom(first, last, kept)
  BY <1>1, <1>6, <1>8, <1>9, ArrivedFits
<1>11. Keep(kept) BY <1>6, <1>9, <1>10 DEF Sends, Outcome
<1>12. cute_frames' = kept BY <1>11 DEF Keep
<1>13. last - (first - 1) = last - first + 1 BY <1>2
<1> QED BY <1>10, <1>12, <1>13, Zenon DEF KeptFrom

\* What LossCostsNoThirdPacket says of a packet.
PutTogether(first, last) ==
    \E k \in DOMAIN parsed : Last(parsed[k]) = last /\ parsed[k][1] = first

\* A packet that was put together stays so.
LEMMA StillPutTogether ==
    ASSUME CuteInv, NEW apid, NEW flag, NEW received, Sends(apid, flag, received),
           NEW first, NEW last, PutTogether(first, last)
    PROVE  PutTogether(first, last)'
<1>1. PICK k \in DOMAIN parsed : Last(parsed[k]) = last /\ parsed[k][1] = first
  BY DEF PutTogether
<1>2. PICK p : p = parsed[k] OBVIOUS
<1>3. k \in DOMAIN parsed' /\ parsed'[k] = p BY <1>2, ParsedStays
<1>4. Last(p) = last /\ p[1] = first BY <1>1, <1>2
<1> QED BY <1>3, <1>4, Zenon DEF PutTogether, Last

\* The end of a packet whose frames have all come puts it together.
LEMMA ArrivedIsPutTogether ==
    ASSUME CuteInv, NothingAfterEnd, WholeSoFar,
           NEW apid \in CuteApids, NEW flag \in Flag, NEW received \in BOOLEAN,
           Sends(apid, flag, received), received, Ends(flag),
           NEW last, last = Len(pieces) + 1,
           NEW first \in 1 .. last, AllReceived(first, last)'
    PROVE  PutTogether(first, last)'
<1>1. parsed \in Seq(Seq(Nat)) BY DEF CuteInv, CuteType
<1>2. PICK kept : kept = Append(cute_frames, Frame(apid, flag)) OBVIOUS
<1>3. PICK p : p = [i \in DOMAIN kept |-> kept[i].number] OBVIOUS
<1>4. Fits(apid, flag) /\ KeptFrom(first, last, kept) BY <1>2, ArrivedFits
<1>5. parsed' = Append(parsed, p) BY <1>2, <1>3, <1>4 DEF Sends, Outcome, Process
<1>6. last \in Nat
  <2>1. Len(pieces) \in Nat BY DEF CuteInv, CuteType
  <2> QED BY <2>1
<1>7. PICK n \in Nat : n = last - (first - 1) /\ n >= 1 BY <1>6
<1>8. DOMAIN kept = 1 .. n BY <1>4, <1>7 DEF KeptFrom
<1>9. DOMAIN p = 1 .. n /\ \A j \in 1 .. n : p[j] = first + j - 1 BY <1>3, <1>4, <1>8 DEF KeptFrom
<1>10. p[1] = first /\ p[n] = last
  <2>1. 1 \in 1 .. n /\ n \in 1 .. n BY <1>7
  <2>2. first + 1 - 1 = first /\ first + n - 1 = last BY <1>6, <1>7
  <2>3. p[1] = first + 1 - 1 /\ p[n] = first + n - 1 BY <1>9, <2>1
  <2> QED BY <2>2, <2>3
<1>11. Len(p) = n BY <1>9
<1>12. \A s \in Seq(Seq(Nat)) : Len(s) + 1 \in DOMAIN Append(s, p) /\ Append(s, p)[Len(s) + 1] = p
  OBVIOUS
<1>13. PICK k : k = Len(parsed) + 1 OBVIOUS
<1>14. k \in DOMAIN parsed' /\ parsed'[k] = p BY <1>1, <1>5, <1>12, <1>13
<1> QED BY <1>10, <1>11, <1>14, Zenon DEF PutTogether, Last

\* No step loses a packet whose frames have all come.
LEMMA LossStep ==
    ASSUME CuteInv, NothingAfterEnd, WholeSoFar, LossCostsNoThirdPacket,
           NEW apid \in CuteApids, NEW flag \in Flag, NEW received \in BOOLEAN,
           Sends(apid, flag, received)
    PROVE  LossCostsNoThirdPacket'
<1>1. pieces \in Seq(Piece) BY DEF CuteInv, CuteType
<1>2. PICK l \in Nat : l = Len(pieces) BY <1>1
<1>3. OneMoreSent BY OnePieceMore
<1>4. DOMAIN pieces' = 1 .. l + 1 /\ \A i \in 1 .. l : pieces'[i] = pieces[i]
  BY <1>2, <1>3 DEF OneMoreSent
<1>5. pieces'[l + 1] = [apid |-> apid, flag |-> flag, received |-> received]
  BY <1>2, OnePieceMore
<1>6. SUFFICES ASSUME NEW first \in 1 .. l + 1, NEW last \in 1 .. l + 1, first <= last,
                      IsPacket(first, last)',
                      \A i \in first .. last : pieces'[i].received,
                      first = 1 \/ pieces'[first - 1].received
               PROVE  PutTogether(first, last)'
  BY <1>4, Zenon DEF LossCostsNoThirdPacket, PutTogether
<1>7. /\ Begins(pieces'[first].flag)
      /\ Ends(pieces'[last].flag)
      /\ \A i \in first .. last - 1 : ~Ends(pieces'[i].flag)
  BY <1>6, Zenon DEF IsPacket, Begins, Ends
<1>8. CASE last \in 1 .. l
  <2>1. first \in DOMAIN pieces /\ last \in DOMAIN pieces BY <1>1, <1>2, <1>6, <1>8
  <2>2. \A i \in first .. last : i \in 1 .. l BY <1>8
  <2>3. \A i \in first .. last - 1 : i \in 1 .. l BY <1>8
  <2>4. first \in 1 .. l BY <1>6, <1>8
  <2>5. IsPacket(first, last) BY <1>4, <1>7, <1>8, <2>3, <2>4 DEF IsPacket
  <2>6. \A i \in first .. last : pieces[i].received BY <1>4, <1>6, <2>2
  <2>7. first = 1 \/ pieces[first - 1].received
    <3>1. CASE first # 1
      <4>1. first - 1 \in 1 .. l BY <2>4, <3>1
      <4> QED BY <1>4, <1>6, <3>1, <4>1
    <3> QED BY <3>1
  <2>8. PutTogether(first, last)
    BY <1>6, <2>1, <2>5, <2>6, <2>7, Zenon DEF LossCostsNoThirdPacket, PutTogether
  <2> QED BY <2>8, StillPutTogether
<1>9. CASE last = l + 1
  <2>1. Ends(flag) BY <1>5, <1>7, <1>9
  <2>2. received
    <3>1. last \in first .. last BY <1>6
    <3> QED BY <1>5, <1>6, <1>9, <3>1
  <2>3. AllReceived(first, last)' BY <1>6, <1>7, Zenon DEF AllReceived, Begins, Ends
  <2>4. first \in 1 .. last /\ last = Len(pieces) + 1 BY <1>2, <1>9
  <2> QED BY <2>1, <2>2, <2>3, <2>4, ArrivedIsPutTogether
<1> QED BY <1>6, <1>8, <1>9

\* Every step keeps what the loss of a packet is bounded by.
LEMMA LossInvKept ==
    ASSUME CuteInv, NothingAfterEnd, WholeSoFar, LossCostsNoThirdPacket, [CuteNext]_cuteVars
    PROVE  NothingAfterEnd' /\ WholeSoFar' /\ LossCostsNoThirdPacket'
<1>1. CASE CuteFrame
  <2>1. PICK apid \in CuteApids, flag \in Flag, received \in BOOLEAN : Sends(apid, flag, received)
    BY <1>1, Parsing DEF CuteInv, CuteType
  <2> QED BY <2>1, NothingAfterEndKept, WholeSoFarKept, LossStep, Zenon
<1>2. CASE UNCHANGED cuteVars
  <2>1. UNCHANGED <<pieces, cute_frames, parsed>> BY <1>2 DEF cuteVars
  <2>2. NothingAfterEnd' BY <2>1, Zenon DEF NothingAfterEnd, Last, Ends
  <2>3. WholeSoFar' BY <2>1, Zenon DEF WholeSoFar, Begins, Ends
  <2>4. LossCostsNoThirdPacket'
    BY <2>1 DEF LossCostsNoThirdPacket, IsPacket, Begins, Ends, Last
  <2> QED BY <2>2, <2>3, <2>4
<1> QED BY <1>1, <1>2 DEF CuteNext

\* A loss costs the packet it hits, and the one behind that only when its end is lost
\* too, for any number of applications and frames and any width of the count.
THEOREM LossIsBounded == CuteSpec => []LossCostsNoThirdPacket
<1>1. CuteInit => NothingAfterEnd /\ WholeSoFar /\ LossCostsNoThirdPacket
  BY DEF CuteInit, NothingAfterEnd, WholeSoFar, LossCostsNoThirdPacket
<1> QED BY <1>1, CuteInvariance, LossInvKept, PTL DEF CuteSpec

------------------------------------------------------------------------------
\* FUNcube: products, then bytes, records, frames and what is given.

\* Products with a positive factor.
LEMMA Factors ==
    ASSUME NEW m \in Nat \ {0}, NEW q \in Int, NEW p \in Int
    PROVE  /\ q <= p => m * q <= m * p
           /\ q < p => m * q + m <= m * p
           /\ m * q < m * p => q < p
           /\ m * (q + 1) = m * q + m
           /\ m * q - m * p = m * (q - p)
           /\ m * q \in Int
           /\ m * q = q * m
<1>1. q <= p => m * q <= m * p OBVIOUS
<1>2. q < p => m * q + m <= m * p
  <2>1. SUFFICES ASSUME q < p PROVE m * q + m <= m * p OBVIOUS
  <2>2. q + 1 <= p BY <2>1
  <2>3. m * (q + 1) <= m * p BY <2>2
  <2> QED BY <2>3
<1>3. m * q < m * p => q < p
  <2>1. SUFFICES ASSUME p <= q PROVE m * p <= m * q OBVIOUS
  <2> QED BY <2>1
<1>4. m * (q + 1) = m * q + m OBVIOUS
<1>5. m * q - m * p = m * (q - p) OBVIOUS
<1> QED BY <1>1, <1>2, <1>3, <1>4, <1>5
------------------------------------------------------------------------------
OrbitByte == [seq : Int, byte : Int]

\* The bytes of an orbit from number from on, up to the one before number to.
Bytes(seq, from, to) == [i \in 1 .. to - from |-> [seq |-> seq, byte |-> from + i - 1]]

AreBytes(s, seq, from, length) ==
    /\ s \in Seq(OrbitByte)
    /\ Len(s) = length
    /\ \A i \in 1 .. length : s[i] = [seq |-> seq, byte |-> from + i - 1]

\* The bytes of a piece of the orbit are a sequence.
LEMMA BytesAre ==
    ASSUME NEW seq \in Int, NEW from \in Int, NEW to \in Int, from <= to
    PROVE  AreBytes(Bytes(seq, from, to), seq, from, to - from)
<1>1. PICK n \in Nat : n = to - from OBVIOUS
<1>2. \A i \in 1 .. n : [seq |-> seq, byte |-> from + i - 1] \in OrbitByte BY DEF OrbitByte
<1>3. PICK s : s = [i \in 1 .. n |-> [seq |-> seq, byte |-> from + i - 1]] OBVIOUS
<1>4. Bytes(seq, from, to) = s BY <1>1, <1>3 DEF Bytes
<1>5. s \in [1 .. n -> OrbitByte] BY <1>2, <1>3
<1>6. s \in Seq(OrbitByte) /\ Len(s) = n BY <1>5
<1>7. \A i \in 1 .. n : s[i] = [seq |-> seq, byte |-> from + i - 1] BY <1>3
<1> QED BY <1>1, <1>4, <1>6, <1>7, Zenon DEF AreBytes

\* Two sequences of bytes are the same.
LEMMA SameBytes ==
    ASSUME NEW s \in Seq(OrbitByte), NEW t \in Seq(OrbitByte), Len(s) = Len(t),
           \A i \in 1 .. Len(s) : s[i] = t[i]
    PROVE  s = t
OBVIOUS

\* Of the bytes from .. to - 1, number i to number j are f .. e - 1.
Within(from, to, i, j, f, e) ==
    /\ from \in Int /\ to \in Int /\ f \in Int /\ e \in Int
    /\ i \in Nat \ {0} /\ j \in Nat /\ i <= j + 1 /\ j <= to - from
    /\ f = from + i - 1 /\ e = from + j

Cut(s, i, j) == SubSeq(s, i, j)

\* A part of a piece of the orbit is a piece of it.
LEMMA BytesWithin ==
    ASSUME NEW seq \in Int, NEW from, NEW to, NEW i, NEW j, NEW f, NEW e,
           Within(from, to, i, j, f, e)
    PROVE  Cut(Bytes(seq, from, to), i, j) = Bytes(seq, f, e)
<1> USE DEF Within, Cut
<1>1. PICK s : s = Bytes(seq, from, to) OBVIOUS
<1>2. from <= to OBVIOUS
<1>3. AreBytes(s, seq, from, to - from) BY <1>1, <1>2, BytesAre
<1>6. PICK t : t = Bytes(seq, f, e) OBVIOUS
<1>7. f <= e OBVIOUS
<1>8. AreBytes(t, seq, f, e - f) BY <1>6, <1>7, BytesAre
<1>9. \A u \in Seq(OrbitByte) :
          j <= Len(u) => /\ SubSeq(u, i, j) \in Seq(OrbitByte)
                         /\ Len(SubSeq(u, i, j)) = j - i + 1
                         /\ \A k \in 1 .. j - i + 1 : SubSeq(u, i, j)[k] = u[i + k - 1]
  OBVIOUS
<1>10. /\ SubSeq(s, i, j) \in Seq(OrbitByte)
       /\ Len(SubSeq(s, i, j)) = j - i + 1
       /\ \A k \in 1 .. j - i + 1 : SubSeq(s, i, j)[k] = s[i + k - 1]
  BY <1>3, <1>9 DEF AreBytes
<1>11. e - f = j - i + 1 OBVIOUS
<1>12. ASSUME NEW k \in 1 .. j - i + 1 PROVE SubSeq(s, i, j)[k] = t[k]
  <2>1. i + k - 1 \in 1 .. to - from BY <1>12
  <2>2. s[i + k - 1] = [seq |-> seq, byte |-> from + (i + k - 1) - 1] BY <1>3, <2>1 DEF AreBytes
  <2>3. t[k] = [seq |-> seq, byte |-> f + k - 1] BY <1>8, <1>11 DEF AreBytes
  <2>4. from + (i + k - 1) - 1 = f + k - 1 OBVIOUS
  <2> QED BY <1>10, <2>2, <2>3, <2>4
<1>13. SubSeq(s, i, j) = t BY <1>8, <1>10, <1>11, <1>12, SameBytes DEF AreBytes
<1> QED BY <1>1, <1>6, <1>13

\* What joining two sequences returns.
LEMMA ElementsJoined ==
    ASSUME NEW S, NEW p \in Seq(S), NEW q \in Seq(S)
    PROVE  /\ p \o q \in Seq(S)
           /\ Len(p \o q) = Len(p) + Len(q)
           /\ \A k \in 1 .. Len(p) : (p \o q)[k] = p[k]
           /\ \A k \in 1 .. Len(q) : (p \o q)[Len(p) + k] = q[k]
OBVIOUS

\* Sequences of the same elements are the same.
LEMMA SameElements ==
    ASSUME NEW S, NEW s \in Seq(S), NEW t \in Seq(S), Len(s) = Len(t),
           \A i \in 1 .. Len(s) : s[i] = t[i]
    PROVE  s = t
OBVIOUS

\* Two pieces of the orbit that follow each other are one.
LEMMA BytesJoined ==
    ASSUME NEW seq \in Int, NEW from \in Int, NEW cut \in Int, NEW to \in Int,
           from <= cut, cut <= to
    PROVE  Bytes(seq, from, cut) \o Bytes(seq, cut, to) = Bytes(seq, from, to)
<1>1. PICK s, t, u : s = Bytes(seq, from, cut) /\ t = Bytes(seq, cut, to) /\ u = Bytes(seq, from, to)
  OBVIOUS
<1>2. AreBytes(s, seq, from, cut - from) BY <1>1, BytesAre
<1>3. AreBytes(t, seq, cut, to - cut) BY <1>1, BytesAre
<1>4. AreBytes(u, seq, from, to - from)
  <2>1. from <= to OBVIOUS
  <2> QED BY <1>1, <2>1, BytesAre
<1>5. /\ s \o t \in Seq(OrbitByte)
      /\ Len(s \o t) = Len(s) + Len(t)
      /\ \A k \in 1 .. Len(s) : (s \o t)[k] = s[k]
      /\ \A k \in 1 .. Len(t) : (s \o t)[Len(s) + k] = t[k]
  <2>1. s \in Seq(OrbitByte) /\ t \in Seq(OrbitByte) BY <1>2, <1>3 DEF AreBytes
  <2> QED BY <2>1, ElementsJoined
<1>6. ASSUME NEW k \in 1 .. to - from PROVE (s \o t)[k] = u[k]
  <2>1. u[k] = [seq |-> seq, byte |-> from + k - 1] BY <1>4 DEF AreBytes
  <2>2. CASE k <= cut - from
    <3>1. k \in 1 .. cut - from BY <2>2
    <3>2. s[k] = [seq |-> seq, byte |-> from + k - 1] BY <1>2, <3>1 DEF AreBytes
    <3>3. (s \o t)[k] = s[k] BY <1>2, <1>5, <3>1 DEF AreBytes
    <3> QED BY <2>1, <3>2, <3>3
  <2>3. CASE k > cut - from
    <3>1. PICK n \in 1 .. to - cut : n = k - (cut - from) BY <2>3
    <3>2. k = (cut - from) + n BY <3>1
    <3>3. (s \o t)[k] = t[n] BY <1>2, <1>3, <1>5, <3>2 DEF AreBytes
    <3>4. t[n] = [seq |-> seq, byte |-> cut + n - 1] BY <1>3 DEF AreBytes
    <3>5. cut + n - 1 = from + k - 1 BY <3>2
    <3> QED BY <2>1, <3>3, <3>4, <3>5
  <2>4. k <= cut - from \/ k > cut - from OBVIOUS
  <2> QED BY <2>2, <2>3, <2>4, Zenon
<1>7. Len(s \o t) = Len(u) /\ Len(u) = to - from BY <1>2, <1>3, <1>4, <1>5 DEF AreBytes
<1>8. s \o t = u BY <1>4, <1>5, <1>6, <1>7, SameBytes DEF AreBytes
<1> QED BY <1>1, <1>8

------------------------------------------------------------------------------
\* The whole records in the chunks 1 to chunk.
Boundary(chunk) == (PAYLOAD_SIZE * chunk) \div WHOLEORBIT_SIZE

\* A chunk ends some bytes, fewer than a record has, behind a record's end.
LEMMA BoundaryIs ==
    ASSUME NEW chunk \in Nat
    PROVE  /\ Boundary(chunk) \in Nat
           /\ remaining(chunk) \in 0 .. WHOLEORBIT_SIZE - 1
           /\ PAYLOAD_SIZE * chunk = WHOLEORBIT_SIZE * Boundary(chunk) + remaining(chunk)
<1>1. PICK a \in Nat : a = PAYLOAD_SIZE * chunk BY SizesOfRecords
<1>2. WHOLEORBIT_SIZE \in Nat \ {0} BY SizesOfRecords
<1>3. PICK q \in Nat, r \in 0 .. WHOLEORBIT_SIZE - 1 :
          a = WHOLEORBIT_SIZE * q + r /\ a \div WHOLEORBIT_SIZE = q /\ a % WHOLEORBIT_SIZE = r
  BY <1>2, Division
<1>4. Boundary(chunk) = q /\ remaining(chunk) = r BY <1>1, <1>3 DEF Boundary, remaining
<1> QED BY <1>1, <1>3, <1>4

\* A chunk ends behind the next record that begins.
LEMMA BoundaryGrows ==
    ASSUME NEW a \in Nat, NEW b \in Nat, a < b
    PROVE  Boundary(a) + 1 <= Boundary(b)
<1>1. PICK W \in Nat \ {0} : W = WHOLEORBIT_SIZE BY SizesOfRecords
<1>2. PICK P \in Nat : P = PAYLOAD_SIZE /\ W <= P BY <1>1, SizesOfRecords
<1>3. PICK d \in Nat, r \in 0 .. W - 1 : d = Boundary(a) /\ P * a = W * d + r
  BY <1>1, <1>2, BoundaryIs
<1>4. PICK e \in Nat, s \in 0 .. W - 1 : e = Boundary(b) /\ P * b = W * e + s
  BY <1>1, <1>2, BoundaryIs
<1>5. P * a + W <= P * b
  <2>1. a + 1 <= b OBVIOUS
  <2>2. P * (a + 1) <= P * b BY <2>1
  <2>3. P * (a + 1) = P * a + P OBVIOUS
  <2>4. PICK x \in Int, y \in Int : x = P * a /\ y = P * b OBVIOUS
  <2> QED BY <1>2, <2>2, <2>3, <2>4
<1>6. PICK x \in Int, y \in Int : x = W * d /\ y = W * e BY Factors
<1>7. x + r + W <= y + s BY <1>3, <1>4, <1>5, <1>6
<1>8. x < y BY <1>7
<1>9. d < e BY <1>6, <1>8, Factors
<1> QED BY <1>3, <1>4, <1>9

\* A later chunk does not end before an earlier one.
LEMMA BoundaryOrder ==
    ASSUME NEW a \in Nat, NEW b \in Nat, a <= b
    PROVE  Boundary(a) <= Boundary(b)
<1>1. Boundary(a) \in Nat /\ Boundary(b) \in Nat BY BoundaryIs
<1>2. CASE a = b BY <1>1, <1>2
<1>3. CASE a < b BY <1>1, <1>3, BoundaryGrows
<1> QED BY <1>2, <1>3

------------------------------------------------------------------------------
\* A record is a piece of the orbit.
LEMMA RecordIsBytes ==
    ASSUME NEW seq \in Int, NEW n \in Int, NEW from \in Int, NEW to \in Int,
           from = WHOLEORBIT_SIZE * n, to = from + WHOLEORBIT_SIZE
    PROVE  Record(seq, n) = Bytes(seq, from, to)
<1>1. PICK W \in Nat \ {0} : W = WHOLEORBIT_SIZE BY SizesOfRecords
<1>2. to - from = W BY <1>1
<1>3. n * W = from BY <1>1, Factors
<1> QED BY <1>1, <1>2, <1>3 DEF Record, Bytes

\* The records m to n - 1 of an orbit.
RecordsFrom(seq, m, n) == [k \in 1 .. n - m |-> Record(seq, m + k - 1)]

\* The records in a piece of the orbit that begins and ends where a record does.
LEMMA RecordsOfBytes ==
    ASSUME NEW seq \in Int, NEW m \in Nat, NEW n \in Nat, m <= n
    PROVE  Records(Bytes(seq, WHOLEORBIT_SIZE * m, WHOLEORBIT_SIZE * n))
               = RecordsFrom(seq, m, n)
<1>1. PICK W \in Nat \ {0} : W = WHOLEORBIT_SIZE BY SizesOfRecords
<1>2. PICK from \in Int, to \in Int : from = W * m /\ to = W * n BY Factors
<1>3. from <= to BY <1>2, Factors
<1>4. PICK wo : wo = Bytes(seq, from, to) OBVIOUS
<1>5. Len(wo) = to - from BY <1>3, <1>4, BytesAre DEF AreBytes
<1>6. PICK d \in Nat : d = n - m OBVIOUS
<1>7. to - from = W * d
  <2>1. W * n - W * m = W * (n - m) BY Factors
  <2> QED BY <1>2, <1>6, <2>1
<1>8. Len(wo) \div W = d
  <2>1. 0 \in 0 .. W - 1 BY <1>1
  <2>2. (W * d + 0) \div W = d BY <2>1, Quotient
  <2>3. W * d + 0 = W * d BY Factors
  <2> QED BY <1>5, <1>7, <2>2, <2>3
<1>9. ASSUME NEW k \in 1 .. d
      PROVE  SubSeq(wo, (k - 1) * W + 1, k * W) = Record(seq, m + k - 1)
  <2>1. PICK p \in Int, q \in Int : p = W * (k - 1) /\ q = W * k BY Factors
  <2>2. p = (k - 1) * W /\ q = k * W BY <2>1, Factors
  <2>3. q = p + W
    <3>1. W * ((k - 1) + 1) = W * (k - 1) + W BY Factors
    <3>2. (k - 1) + 1 = k OBVIOUS
    <3> QED BY <2>1, <3>1, <3>2
  <2>4. p >= 0
    <3>1. 0 <= k - 1 /\ k - 1 \in Int OBVIOUS
    <3>2. W * 0 <= W * (k - 1) BY <3>1, Factors
    <3> QED BY <2>1, <3>2
  <2>5. q <= to - from
    <3>1. k <= d OBVIOUS
    <3>2. W * k <= W * d BY <3>1, Factors
    <3> QED BY <1>7, <2>1, <3>2
  <2>6. PICK i \in Nat \ {0} : i = p + 1 BY <2>4
  <2>7. q \in Nat /\ i <= q + 1 /\ q <= to - from BY <2>3, <2>4, <2>5, <2>6
  <2>9. from + i - 1 = W * (m + k - 1) /\ from + q = (from + i - 1) + W
    <3>1. W * (m + (k - 1)) = W * m + W * (k - 1) OBVIOUS
    <3>2. m + (k - 1) = m + k - 1 OBVIOUS
    <3>3. from + i - 1 = from + p BY <2>6
    <3> QED BY <1>2, <2>1, <2>3, <3>1, <3>2, <3>3
  <2>10. PICK f \in Int, e \in Int : f = from + i - 1 /\ e = from + q OBVIOUS
  <2>11. PICK g \in Int : g = m + k - 1 OBVIOUS
  <2>12. f = WHOLEORBIT_SIZE * g /\ e = f + WHOLEORBIT_SIZE BY <1>1, <2>9, <2>10, <2>11
  <2>13. Record(seq, g) = Bytes(seq, f, e) BY <2>12, RecordIsBytes
  <2>14. PICK j \in Nat : j = q BY <2>7
  <2>15. i <= j + 1 /\ j <= to - from /\ e = from + j BY <2>7, <2>10, <2>14
  <2>16. Within(from, to, i, j, f, e) BY <2>10, <2>15 DEF Within
  <2>17. Cut(Bytes(seq, from, to), i, j) = Bytes(seq, f, e) BY <2>16, BytesWithin
  <2>18. SubSeq(wo, i, j) = Bytes(seq, f, e) BY <1>4, <2>17 DEF Cut
  <2> QED BY <2>2, <2>6, <2>11, <2>13, <2>14, <2>18
<1>10. Records(wo) = [k \in 1 .. d |-> SubSeq(wo, (k - 1) * W + 1, k * W)]
  BY <1>1, <1>8 DEF Records
<1>11. Records(wo) = [k \in 1 .. d |-> Record(seq, m + k - 1)] BY <1>9, <1>10
<1> QED BY <1>1, <1>2, <1>4, <1>6, <1>11 DEF RecordsFrom

------------------------------------------------------------------------------
\* The bytes of a chunk, and what FuncubeParse() cuts off.
LEMMA ChunkPayloadIs ==
    ASSUME NEW f, NEW seq, f.seq = seq, NEW chunk \in Nat \ {0}, f.chunk = chunk,
           NEW from, from = PAYLOAD_SIZE * (chunk - 1), NEW to, to = PAYLOAD_SIZE * chunk
    PROVE  /\ from \in Nat /\ to \in Nat /\ to = from + PAYLOAD_SIZE
           /\ ChunkPayload(f) = Bytes(seq, from, to)
<1>1. PICK P \in Nat : P = PAYLOAD_SIZE BY SizesOfRecords
<1>2. PICK p \in Nat \ {0} : p = chunk OBVIOUS
<1>3. P * (p - 1) \in Nat /\ P * p \in Nat /\ P * p = P * (p - 1) + P
  <2>1. p - 1 \in Nat OBVIOUS
  <2> QED BY <2>1
<1>4. from \in Nat /\ to \in Nat /\ to = from + P BY <1>1, <1>2, <1>3
<1>5. to - from = P BY <1>4
<1>6. ChunkPayload(f) = [i \in 1 .. P |-> [seq |-> seq, byte |-> from + i - 1]]
  BY <1>1 DEF ChunkPayload
<1> QED BY <1>1, <1>4, <1>5, <1>6 DEF Bytes

\* The end of a chunk that is kept for the next one.
TailOf(seq, chunk) == Bytes(seq, WHOLEORBIT_SIZE * Boundary(chunk), PAYLOAD_SIZE * chunk)

\* What FuncubeParse() keeps is the part of the record that the chunk ends in.
LEMMA EndIsTail ==
    ASSUME NEW f, NEW seq \in Int, f.seq = seq, NEW chunk \in Nat \ {0}, f.chunk = chunk
    PROVE  SubSeq(ChunkPayload(f), PAYLOAD_SIZE - remaining(chunk) + 1, PAYLOAD_SIZE)
               = TailOf(seq, chunk)
<1>1. PICK W \in Nat \ {0} : W = WHOLEORBIT_SIZE BY SizesOfRecords
<1>2. PICK P \in Nat : P = PAYLOAD_SIZE /\ W <= P BY <1>1, SizesOfRecords
<1>3. PICK from, to : from = P * (chunk - 1) /\ to = P * chunk OBVIOUS
<1>4. /\ from \in Nat /\ to \in Nat /\ to = from + P
      /\ ChunkPayload(f) = Bytes(seq, from, to)
  BY <1>2, <1>3, ChunkPayloadIs
<1>5. PICK r \in 0 .. W - 1 : r = remaining(chunk) BY <1>1, BoundaryIs
<1>6. PICK cut : cut = W * Boundary(chunk) OBVIOUS
<1>7. cut \in Int /\ to = cut + r
  <2>1. PICK d \in Nat : d = Boundary(chunk) BY BoundaryIs
  <2>2. W * d \in Int BY Factors
  <2>3. P * chunk = W * Boundary(chunk) + remaining(chunk) BY <1>1, <1>2, BoundaryIs
  <2> QED BY <1>3, <1>5, <1>6, <2>1, <2>2, <2>3
<1>8. PICK i \in Nat \ {0} : i = P - r + 1 BY <1>2, <1>5
<1>9. Within(from, to, i, P, cut, to) BY <1>2, <1>4, <1>5, <1>7, <1>8 DEF Within
<1>10. Cut(ChunkPayload(f), i, P) = Bytes(seq, cut, to) BY <1>4, <1>9, BytesWithin
<1>11. SubSeq(ChunkPayload(f), i, P) = Bytes(seq, cut, to) BY <1>10 DEF Cut
<1> QED BY <1>1, <1>2, <1>3, <1>5, <1>6, <1>8, <1>11 DEF TailOf

\* The first record that is given when frame f comes.
FirstGiven(f) == IF Continues(f) THEN Boundary(f.chunk - 1) ELSE Boundary(f.chunk - 1) + 1

\* What is put together from the end that was kept and from the chunk begins and
\* ends where a record does.
LEMMA WholeRecords ==
    ASSUME NEW f, NEW seq \in Int, f.seq = seq, NEW chunk \in Nat \ {0}, f.chunk = chunk,
           Continues(f) => last_wo = TailOf(seq, chunk - 1)
    PROVE  WholeOrbitBytes(f) = Bytes(seq, WHOLEORBIT_SIZE * FirstGiven(f),
                                      WHOLEORBIT_SIZE * Boundary(chunk))
<1>1. PICK W \in Nat \ {0} : W = WHOLEORBIT_SIZE BY SizesOfRecords
<1>2. PICK P \in Nat : P = PAYLOAD_SIZE /\ W <= P BY <1>1, SizesOfRecords
<1>3. PICK from, to : from = P * (chunk - 1) /\ to = P * chunk OBVIOUS
<1>4. /\ from \in Nat /\ to \in Nat /\ to = from + P
      /\ ChunkPayload(f) = Bytes(seq, from, to)
  BY <1>2, <1>3, ChunkPayloadIs
<1>5. chunk - 1 \in Nat /\ chunk \in Nat /\ chunk - 1 < chunk OBVIOUS
<1>6. PICK c \in Nat : c = chunk - 1 BY <1>5
<1>7. PICK d \in Nat, r \in 0 .. W - 1 : d = Boundary(c) /\ r = remaining(c) /\ from = W * d + r
  BY <1>1, <1>2, <1>3, <1>6, BoundaryIs
<1>8. PICK e \in Nat, s \in 0 .. W - 1 :
          e = Boundary(chunk) /\ s = remaining(chunk) /\ to = W * e + s
  BY <1>1, <1>2, <1>3, <1>5, BoundaryIs
<1>9. d + 1 <= e BY <1>5, <1>6, <1>7, <1>8, BoundaryGrows
<1>10. PICK x \in Int, y \in Int, z \in Int : x = W * d /\ y = W * (d + 1) /\ z = W * e
  BY Factors
<1>11. x <= y /\ y = x + W /\ y <= z BY <1>9, <1>10, Factors
<1>12. from = x + r /\ to = z + s BY <1>7, <1>8, <1>10
<1>13. PICK last \in Nat : last = P - s BY <1>2, <1>8
<1>14. z = from + last BY <1>4, <1>12, <1>13
<1>15. CASE Continues(f)
  <2>1. WholeOrbitBytes(f) = last_wo \o SubSeq(ChunkPayload(f), 1, last)
    BY <1>2, <1>8, <1>13, <1>15 DEF WholeOrbitBytes
  <2>2. Within(from, to, 1, last, from, z) BY <1>4, <1>8, <1>12, <1>13, <1>14 DEF Within
  <2>3. Cut(ChunkPayload(f), 1, last) = Bytes(seq, from, z) BY <1>4, <2>2, BytesWithin
  <2>4. SubSeq(ChunkPayload(f), 1, last) = Bytes(seq, from, z) BY <2>3 DEF Cut
  <2>5. last_wo = Bytes(seq, x, from)
    BY <1>1, <1>2, <1>3, <1>6, <1>7, <1>10, <1>15 DEF TailOf
  <2>6. Bytes(seq, x, from) \o Bytes(seq, from, z) = Bytes(seq, x, z)
    <3>1. x <= from /\ from <= z BY <1>12, <1>14
    <3> QED BY <1>4, <3>1, BytesJoined, SMTT(20)
  <2>7. FirstGiven(f) = d BY <1>6, <1>7, <1>15 DEF FirstGiven
  <2> QED BY <1>1, <1>8, <1>10, <2>1, <2>4, <2>5, <2>6, <2>7
<1>16. CASE ~Continues(f)
  <2>1. PICK i \in Nat \ {0} : i = (W - r) + 1 BY <1>7
  <2>2. BytesToSkip(f) = W - r BY <1>1, <1>6, <1>7 DEF BytesToSkip
  <2>3. WholeOrbitBytes(f) = SubSeq(ChunkPayload(f), i, last)
    BY <1>2, <1>8, <1>13, <1>16, <2>1, <2>2 DEF WholeOrbitBytes
  <2>4. Within(from, to, i, last, y, z)
    BY <1>4, <1>8, <1>11, <1>12, <1>13, <1>14, <2>1 DEF Within
  <2>5. Cut(ChunkPayload(f), i, last) = Bytes(seq, y, z) BY <1>4, <2>4, BytesWithin
  <2>6. SubSeq(ChunkPayload(f), i, last) = Bytes(seq, y, z) BY <2>5 DEF Cut
  <2>7. FirstGiven(f) = d + 1 BY <1>6, <1>7, <1>16 DEF FirstGiven
  <2> QED BY <1>1, <1>8, <1>10, <2>3, <2>6, <2>7
<1> QED BY <1>15, <1>16

\* What is given when frame f comes.
LEMMA RecordsGiven ==
    ASSUME NEW f, NEW seq \in Int, f.seq = seq, NEW chunk \in Nat \ {0}, f.chunk = chunk,
           Continues(f) => last_wo = TailOf(seq, chunk - 1)
    PROVE  /\ FirstGiven(f) \in Nat
           /\ FirstGiven(f) <= Boundary(chunk)
           /\ Boundary(chunk - 1) <= FirstGiven(f)
           /\ Records(WholeOrbitBytes(f)) = RecordsFrom(seq, FirstGiven(f), Boundary(chunk))
<1>1. PICK c \in Nat : c = chunk - 1 OBVIOUS
<1>2. c < chunk /\ chunk \in Nat BY <1>1
<1>3. PICK d \in Nat : d = Boundary(c) BY BoundaryIs
<1>4. PICK e \in Nat : e = Boundary(chunk) BY BoundaryIs
<1>5. d + 1 <= e BY <1>2, <1>3, <1>4, BoundaryGrows
<1>6. FirstGiven(f) = d \/ FirstGiven(f) = d + 1 BY <1>1, <1>3 DEF FirstGiven
<1>7. PICK first \in Nat : first = FirstGiven(f) /\ first <= e /\ d <= first BY <1>5, <1>6
<1>8. WholeOrbitBytes(f) = Bytes(seq, WHOLEORBIT_SIZE * first, WHOLEORBIT_SIZE * e)
  BY <1>4, <1>7, WholeRecords
<1>9. Records(WholeOrbitBytes(f)) = RecordsFrom(seq, first, e)
  BY <1>7, <1>8, RecordsOfBytes
<1> QED BY <1>1, <1>3, <1>4, <1>7, <1>9

------------------------------------------------------------------------------
\* The frame that the satellite sends as number i.
FrameNumber(i) == [chunk |-> ((i - 1) % WHOLEORBIT_MAX) + 1,
                   seq   |-> ((i - 1) \div WHOLEORBIT_MAX) + 1]

SentFrame == [frame : [chunk : 1 .. WHOLEORBIT_MAX, seq : Nat \ {0}], received : BOOLEAN]

FuncubeType == chunks \in Seq(SentFrame) /\ records \in Seq(Seq(OrbitByte))

SentInOrder == \A i \in DOMAIN chunks : chunks[i].frame = FrameNumber(i) /\ i <= MaxOrbits * WHOLEORBIT_MAX

\* Frame i is the last one that was received.
LastReceived(i) ==
    /\ chunks[i].received
    /\ last_chunk = chunks[i].frame.chunk
    /\ last_seq = chunks[i].frame.seq
    /\ last_wo = TailOf(last_seq, last_chunk)
    /\ \A j \in i + 1 .. Len(chunks) : ~chunks[j].received

LastIsKept ==
    \/ /\ last_chunk = NoChunk
       /\ records = <<>>
       /\ \A j \in DOMAIN chunks : ~chunks[j].received
    \/ \E i \in DOMAIN chunks : LastReceived(i)

\* A record of an orbit before seq, or of this one and before record number end.
Before(record, seq, end) ==
    \E s \in 1 .. MaxOrbits, n \in 0 .. Boundary(WHOLEORBIT_MAX) - 1 :
        /\ record = Record(s, n)
        /\ s < seq \/ (s = seq /\ n < end)

AllBefore(given, seq, end) == \A k \in DOMAIN given : Before(given[k], seq, end)

NoneTwice(given) == \A k, l \in DOMAIN given : given[k] = given[l] => k = l

FuncubeInv == /\ FuncubeType
              /\ SentInOrder
              /\ LastIsKept
              /\ AllBefore(records, last_seq, Boundary(last_chunk))
              /\ NoneTwice(records)
------------------------------------------------------------------------------
\* The number of a frame, its orbit and its place there.
LEMMA FrameNumberIs ==
    ASSUME NEW i \in Nat \ {0}
    PROVE  \E q \in Nat, r \in 0 .. WHOLEORBIT_MAX - 1 :
              i - 1 = WHOLEORBIT_MAX * q + r /\ FrameNumber(i) = [chunk |-> r + 1, seq |-> q + 1]
<1>1. PICK a \in Nat : a = i - 1 OBVIOUS
<1>2. WHOLEORBIT_MAX \in Nat \ {0} BY SizesOfRecords
<1>3. PICK q \in Nat, r \in 0 .. WHOLEORBIT_MAX - 1 :
          a = WHOLEORBIT_MAX * q + r /\ a \div WHOLEORBIT_MAX = q /\ a % WHOLEORBIT_MAX = r
  BY <1>2, Division
<1> QED BY <1>1, <1>3 DEF FrameNumber

\* The frames of an orbit follow each other, and the orbits too.
LEMMA LaterFrame ==
    ASSUME NEW i \in Nat \ {0}, NEW j \in Nat \ {0}, i < j
    PROVE  \/ FrameNumber(i).seq < FrameNumber(j).seq
           \/ FrameNumber(i).seq = FrameNumber(j).seq /\ FrameNumber(i).chunk < FrameNumber(j).chunk
<1>1. PICK X \in Nat \ {0} : X = WHOLEORBIT_MAX BY SizesOfRecords
<1>2. PICK q \in Nat, r \in 0 .. X - 1 :
          i - 1 = X * q + r /\ FrameNumber(i) = [chunk |-> r + 1, seq |-> q + 1]
  BY <1>1, FrameNumberIs
<1>3. PICK p \in Nat, s \in 0 .. X - 1 :
          j - 1 = X * p + s /\ FrameNumber(j) = [chunk |-> s + 1, seq |-> p + 1]
  BY <1>1, FrameNumberIs
<1>4. PICK x \in Int, y \in Int : x = X * q /\ y = X * p BY Factors
<1>5. x + r < y + s BY <1>2, <1>3, <1>4
<1>6. CASE q < p BY <1>2, <1>3, <1>6
<1>7. CASE q = p
  <2>1. r < s BY <1>4, <1>5, <1>7
  <2> QED BY <1>2, <1>3, <1>7, <2>1
<1>8. CASE p < q
  <2>1. y + X <= x BY <1>4, <1>8, Factors
  <2> QED BY <1>5, <2>1
<1> QED BY <1>6, <1>7, <1>8

\* The frame before one that is not the first of its orbit is the chunk before.
LEMMA NextFrame ==
    ASSUME NEW i \in Nat \ {0}, FrameNumber(i + 1).chunk > 1
    PROVE  /\ FrameNumber(i).seq = FrameNumber(i + 1).seq
           /\ FrameNumber(i).chunk = FrameNumber(i + 1).chunk - 1
<1>1. PICK X \in Nat \ {0} : X = WHOLEORBIT_MAX BY SizesOfRecords
<1>2. PICK j \in Nat \ {0} : j = i + 1 OBVIOUS
<1>3. PICK p \in Nat, s \in 0 .. X - 1 :
          j - 1 = X * p + s /\ FrameNumber(j) = [chunk |-> s + 1, seq |-> p + 1]
  BY <1>1, FrameNumberIs
<1>4. PICK r \in 0 .. X - 1 : r = s - 1 BY <1>2, <1>3
<1>5. PICK a \in Nat : a = i - 1 OBVIOUS
<1>6. a = X * p + r
  <2>1. PICK x \in Int : x = X * p BY Factors
  <2> QED BY <1>2, <1>3, <1>4, <1>5, <2>1
<1>7. a % X = r /\ a \div X = p BY <1>6, Quotient
<1>8. FrameNumber(i) = [chunk |-> r + 1, seq |-> p + 1] BY <1>1, <1>5, <1>7 DEF FrameNumber
<1> QED BY <1>2, <1>3, <1>4, <1>8

\* The frames within the bound are of its orbits.
LEMMA OrbitOfFrame ==
    ASSUME NEW i \in Nat \ {0}, i <= MaxOrbits * WHOLEORBIT_MAX
    PROVE  /\ FrameNumber(i) \in [chunk : 1 .. WHOLEORBIT_MAX, seq : 1 .. MaxOrbits]
           /\ FrameNumber(i) \in [chunk : 1 .. WHOLEORBIT_MAX, seq : Nat \ {0}]
<1>1. PICK X \in Nat \ {0} : X = WHOLEORBIT_MAX BY SizesOfRecords
<1>2. PICK q \in Nat, r \in 0 .. X - 1 :
          i - 1 = X * q + r /\ FrameNumber(i) = [chunk |-> r + 1, seq |-> q + 1]
  BY <1>1, FrameNumberIs
<1>3. PICK o \in Nat : o = MaxOrbits BY SizesOfRecords
<1>4. PICK x \in Int, y \in Int : x = X * q /\ y = X * o BY Factors
<1>5. i <= y BY <1>1, <1>3, <1>4, Factors
<1>6. x < y BY <1>2, <1>4, <1>5
<1>7. q < o BY <1>4, <1>6, Factors
<1> QED BY <1>1, <1>2, <1>3, <1>7

\* Two records are different when their orbits or their numbers are.
LEMMA RecordDiffers ==
    ASSUME NEW s \in Int, NEW n \in Int, NEW t \in Int, NEW m \in Int,
           Record(s, n) = Record(t, m)
    PROVE  s = t /\ n = m
<1>1. PICK W \in Nat \ {0} : W = WHOLEORBIT_SIZE BY SizesOfRecords
<1>2. PICK x \in Int, y \in Int : x = W * n /\ y = W * m BY Factors
<1>3. n * W = x /\ m * W = y BY <1>2, Factors
<1>4. 1 \in 1 .. W BY <1>1
<1>5. Record(s, n)[1] = [seq |-> s, byte |-> x + 1 - 1] BY <1>1, <1>3, <1>4 DEF Record
<1>6. Record(t, m)[1] = [seq |-> t, byte |-> y + 1 - 1] BY <1>1, <1>3, <1>4 DEF Record
<1>7. s = t /\ x = y
  <2>1. [seq |-> s, byte |-> x + 1 - 1] = [seq |-> t, byte |-> y + 1 - 1] BY <1>5, <1>6
  <2>2. s = t /\ x + 1 - 1 = y + 1 - 1 BY <2>1
  <2> QED BY <2>2
<1>8. n = m
  <2>1. CASE n < m BY <1>1, <1>2, <1>7, <2>1, Factors
  <2>2. CASE m < n BY <1>1, <1>2, <1>7, <2>2, Factors
  <2> QED BY <2>1, <2>2
<1> QED BY <1>7, <1>8

\* A record is a sequence of bytes.
LEMMA RecordType ==
    ASSUME NEW s \in Int, NEW n \in Int
    PROVE  Record(s, n) \in Seq(OrbitByte)
<1>1. PICK from \in Int, to \in Int : from = WHOLEORBIT_SIZE * n /\ to = from + WHOLEORBIT_SIZE
  BY SizesOfRecords
<1>2. Record(s, n) = Bytes(s, from, to) BY <1>1, RecordIsBytes
<1>3. from <= to BY <1>1, SizesOfRecords
<1> QED BY <1>2, <1>3, BytesAre DEF AreBytes

------------------------------------------------------------------------------
\* What came before one place came before every later one.
LEMMA BeforeLater ==
    ASSUME NEW record, NEW seq \in Int, NEW end \in Int, NEW seq2 \in Int, NEW end2 \in Int,
           Before(record, seq, end),
           seq < seq2 \/ (seq = seq2 /\ end <= end2)
    PROVE  Before(record, seq2, end2)
<1>1. PICK s \in 1 .. MaxOrbits, n \in 0 .. Boundary(WHOLEORBIT_MAX) - 1 :
          record = Record(s, n) /\ (s < seq \/ (s = seq /\ n < end))
  BY Zenon DEF Before
<1>2. s \in Int /\ n \in Int OBVIOUS
<1>3. s < seq2 \/ (s = seq2 /\ n < end2) BY <1>1, <1>2
<1> QED BY <1>1, <1>3, Zenon DEF Before

AreRecords(given, s, m, n) ==
    /\ given \in Seq(Seq(OrbitByte))
    /\ Len(given) = n - m
    /\ \A k \in 1 .. n - m : given[k] = Record(s, m + k - 1)

\* The records that are given are a sequence of them.
LEMMA RecordsFromAre ==
    ASSUME NEW s \in Int, NEW m \in Nat, NEW n \in Nat, m <= n
    PROVE  AreRecords(RecordsFrom(s, m, n), s, m, n)
<1>1. PICK d \in Nat : d = n - m OBVIOUS
<1>2. PICK g : g = [k \in 1 .. d |-> Record(s, m + k - 1)] OBVIOUS
<1>3. RecordsFrom(s, m, n) = g BY <1>1, <1>2 DEF RecordsFrom
<1>4. \A k \in 1 .. d : Record(s, m + k - 1) \in Seq(OrbitByte)
  <2>1. SUFFICES ASSUME NEW k \in 1 .. d PROVE Record(s, m + k - 1) \in Seq(OrbitByte) OBVIOUS
  <2>2. PICK a \in Int : a = m + k - 1 OBVIOUS
  <2> QED BY <2>2, RecordType
<1>5. g \in [1 .. d -> Seq(OrbitByte)] BY <1>2, <1>4
<1>6. g \in Seq(Seq(OrbitByte)) /\ Len(g) = d BY <1>5
<1>7. ASSUME NEW k \in 1 .. d PROVE g[k] = Record(s, m + k - 1) BY <1>2
<1>8. RecordsFrom(s, m, n) \in Seq(Seq(OrbitByte)) /\ Len(RecordsFrom(s, m, n)) = n - m
  BY <1>1, <1>3, <1>6
<1> QED BY <1>1, <1>3, <1>7, <1>8, Zenon DEF AreRecords

\* The records m to n - 1 of an orbit behind records that came before.
LEMMA MoreRecords ==
    ASSUME NEW old \in Seq(Seq(OrbitByte)), NEW s \in 1 .. MaxOrbits,
           NEW m \in Nat, NEW n \in Nat, m <= n, n <= Boundary(WHOLEORBIT_MAX),
           AllBefore(old, s, m), NoneTwice(old)
    PROVE  /\ old \o RecordsFrom(s, m, n) \in Seq(Seq(OrbitByte))
           /\ AllBefore(old \o RecordsFrom(s, m, n), s, n)
           /\ NoneTwice(old \o RecordsFrom(s, m, n))
<1>1. PICK new : new = RecordsFrom(s, m, n) OBVIOUS
<1>2. AreRecords(new, s, m, n) /\ s \in Int
  <2>1. s \in Int OBVIOUS
  <2> QED BY <1>1, <2>1, RecordsFromAre
<1>3. PICK all : all = old \o new OBVIOUS
<1>4. /\ all \in Seq(Seq(OrbitByte))
      /\ Len(all) = Len(old) + Len(new)
      /\ \A k \in 1 .. Len(old) : all[k] = old[k]
      /\ \A k \in 1 .. Len(new) : all[Len(old) + k] = new[k]
  <2>1. PICK S : S = Seq(OrbitByte) OBVIOUS
  <2>2. old \in Seq(S) /\ new \in Seq(S) BY <1>2, <2>1 DEF AreRecords
  <2>3. /\ old \o new \in Seq(S)
        /\ Len(old \o new) = Len(old) + Len(new)
        /\ \A k \in 1 .. Len(old) : (old \o new)[k] = old[k]
        /\ \A k \in 1 .. Len(new) : (old \o new)[Len(old) + k] = new[k]
    BY <2>2, ElementsJoined
  <2> QED BY <1>3, <2>1, <2>3, Zenon
<1>5. PICK o \in Nat : o = Len(old) OBVIOUS
<1>6. DOMAIN all = 1 .. o + (n - m) /\ DOMAIN old = 1 .. o BY <1>2, <1>4, <1>5 DEF AreRecords
<1>7. ASSUME NEW k \in 1 .. o + (n - m)
      PROVE  \/ k \in 1 .. o /\ all[k] = old[k]
             \/ \E a \in m .. n - 1 : k = o + (a - m) + 1 /\ all[k] = Record(s, a)
  <2>1. CASE k <= o
    <3>1. k \in 1 .. o BY <2>1
    <3> QED BY <1>4, <1>5, <3>1, Zenon
  <2>2. CASE k > o
    <3>1. PICK b \in 1 .. n - m : b = k - o BY <2>2
    <3>2. PICK a \in m .. n - 1 : a = m + b - 1 BY <3>1
    <3>3. all[o + b] = new[b] BY <1>2, <1>4, <1>5, <3>1 DEF AreRecords
    <3>4. new[b] = Record(s, a) BY <1>2, <3>1, <3>2 DEF AreRecords
    <3>5. k = o + b /\ k = o + (a - m) + 1 BY <3>1, <3>2
    <3> QED BY <3>3, <3>4, <3>5
  <2>3. k <= o \/ k > o OBVIOUS
  <2> QED BY <2>1, <2>2, <2>3, Zenon
<1>8. AllBefore(all, s, n)
  <2>1. SUFFICES ASSUME NEW k \in 1 .. o + (n - m) PROVE Before(all[k], s, n)
    BY <1>6, Zenon DEF AllBefore
  <2>2. CASE k \in 1 .. o /\ all[k] = old[k]
    <3>1. Before(old[k], s, m) BY <1>6, <2>2, Zenon DEF AllBefore
    <3> QED BY <2>2, <3>1, BeforeLater
  <2>3. CASE \E a \in m .. n - 1 : k = o + (a - m) + 1 /\ all[k] = Record(s, a)
    <3>1. PICK a \in m .. n - 1 : all[k] = Record(s, a) BY <2>3
    <3>2. PICK b \in Nat : b = Boundary(WHOLEORBIT_MAX) BY SizesOfRecords, BoundaryIs
    <3>3. a \in 0 .. b - 1 /\ a < n BY <3>2
    <3> QED BY <3>1, <3>2, <3>3, Zenon DEF Before
  <2> QED BY <1>7, <2>2, <2>3
\* An old record is not one of the new ones.
<1>9. ASSUME NEW k \in 1 .. o, NEW a \in m .. n - 1, old[k] = Record(s, a) PROVE FALSE
  <2>1. Before(old[k], s, m) BY <1>6, Zenon DEF AllBefore
  <2>2. PICK t \in 1 .. MaxOrbits, b \in 0 .. Boundary(WHOLEORBIT_MAX) - 1 :
            old[k] = Record(t, b) /\ (t < s \/ (t = s /\ b < m))
    BY <2>1, Zenon DEF Before
  <2>3. t = s /\ b = a
    <3>1. t \in Int /\ b \in Int /\ s \in Int /\ a \in Int BY SizesOfRecords, BoundaryIs
    <3>2. Record(t, b) = Record(s, a) BY <1>9, <2>2, Zenon
    <3> QED BY <3>1, <3>2, RecordDiffers
  <2> QED BY <2>2, <2>3
<1>10. NoneTwice(all)
  <2>1. SUFFICES ASSUME NEW k \in 1 .. o + (n - m), NEW l \in 1 .. o + (n - m), all[k] = all[l]
                 PROVE  k = l
    BY <1>6, Zenon DEF NoneTwice
  <2>2. CASE k \in 1 .. o /\ all[k] = old[k] /\ l \in 1 .. o /\ all[l] = old[l]
    BY <1>6, <2>1, <2>2, Zenon DEF NoneTwice
  <2>3. CASE /\ \E a \in m .. n - 1 : k = o + (a - m) + 1 /\ all[k] = Record(s, a)
             /\ \E a \in m .. n - 1 : l = o + (a - m) + 1 /\ all[l] = Record(s, a)
    <3>1. PICK a \in m .. n - 1 : k = o + (a - m) + 1 /\ all[k] = Record(s, a) BY <2>3, Zenon
    <3>2. PICK b \in m .. n - 1 : l = o + (b - m) + 1 /\ all[l] = Record(s, b) BY <2>3, Zenon
    <3>3. a = b
      <4>1. s \in Int /\ a \in Int /\ b \in Int OBVIOUS
      <4> QED BY <2>1, <3>1, <3>2, <4>1, RecordDiffers
    <3> QED BY <3>1, <3>2, <3>3
  <2> QED BY <1>7, <1>9, <2>1, <2>2, <2>3
<1> QED BY <1>1, <1>3, <1>4, <1>8, <1>10

------------------------------------------------------------------------------
\* The frame that comes, seen from the last one that was received.
LEMMA LastKnown ==
    ASSUME FuncubeInv, NEW f, f = FrameNumber(Len(chunks) + 1),
           NEW c \in 1 .. WHOLEORBIT_MAX, NEW s \in 1 .. MaxOrbits, f = [chunk |-> c, seq |-> s]
    PROVE  /\ Continues(f) => last_wo = TailOf(s, c - 1)
           /\ AllBefore(records, s, FirstGiven(f))
<1> USE DEF FuncubeInv
<1>1. PICK l \in Nat : l = Len(chunks) BY DEF FuncubeType
<1>2. DOMAIN chunks = 1 .. l BY <1>1 DEF FuncubeType
<1>3. c \in Nat \ {0} /\ s \in Int /\ c - 1 \in Nat BY SizesOfRecords
<1>4. PICK b \in Nat : b = Boundary(c - 1) BY <1>3, BoundaryIs
<1>5. PICK first \in Nat : first = FirstGiven(f) /\ b <= first
  <2>1. FirstGiven(f) = b \/ FirstGiven(f) = b + 1 BY <1>4 DEF FirstGiven
  <2> QED BY <2>1
<1>6. CASE last_chunk = NoChunk /\ records = <<>>
  <2>1. ~Continues(f) BY <1>3, <1>6 DEF Continues, NoChunk
  <2>2. AllBefore(records, s, FirstGiven(f)) BY <1>6 DEF AllBefore
  <2> QED BY <2>1, <2>2
<1>7. CASE \E i \in DOMAIN chunks : LastReceived(i)
  <2>1. PICK i \in 1 .. l : LastReceived(i) BY <1>2, <1>7
  <2>2. /\ last_chunk = FrameNumber(i).chunk /\ last_seq = FrameNumber(i).seq
        /\ last_wo = TailOf(last_seq, last_chunk)
        /\ i <= MaxOrbits * WHOLEORBIT_MAX
    BY <1>2, <2>1, Zenon DEF LastReceived, SentInOrder
  <2>3. last_chunk \in 1 .. WHOLEORBIT_MAX /\ last_seq \in 1 .. MaxOrbits
    BY <2>2, OrbitOfFrame
  <2>4. Continues(f) => last_wo = TailOf(s, c - 1) BY <2>2 DEF Continues
  <2>5. last_seq < s \/ (last_seq = s /\ last_chunk < c)
    <3>1. PICK j \in Nat \ {0} : j = l + 1 OBVIOUS
    <3>2. i \in Nat \ {0} /\ i < j BY <3>1
    <3>3. f = FrameNumber(j) BY <1>1, <3>1
    <3> QED BY <2>2, <3>2, <3>3, LaterFrame
  <2>6. last_chunk \in Nat /\ last_seq \in Int /\ last_chunk \in Int BY <2>3, SizesOfRecords
  <2>7. PICK e \in Nat : e = Boundary(last_chunk) BY <2>6, BoundaryIs
  <2>8. last_seq < s \/ (last_seq = s /\ e <= first)
    <3>1. ASSUME last_chunk < c PROVE e <= first
      <4>1. last_chunk <= c - 1 BY <1>3, <2>6, <3>1
      <4>2. e <= b BY <1>3, <1>4, <2>6, <2>7, <4>1, BoundaryOrder
      <4> QED BY <1>5, <4>2
    <3> QED BY <2>5, <3>1
  <2>9. ASSUME NEW k \in DOMAIN records PROVE Before(records[k], s, first)
    <3>1. Before(records[k], last_seq, e) BY <2>7, Zenon DEF AllBefore
    <3> QED BY <1>3, <2>6, <2>8, <3>1, BeforeLater
  <2>10. AllBefore(records, s, first) BY <2>9, Zenon DEF AllBefore
  <2> QED BY <1>5, <2>4, <2>10
<1> QED BY <1>6, <1>7, Zenon DEF LastIsKept

\* The history with one frame more.
LEMMA OneMoreChunk ==
    ASSUME FuncubeType, SentInOrder, NEW entry \in SentFrame,
           Len(chunks) + 1 <= MaxOrbits * WHOLEORBIT_MAX,
           entry.frame = FrameNumber(Len(chunks) + 1), chunks' = Append(chunks, entry)
    PROVE  /\ chunks' \in Seq(SentFrame)
           /\ Len(chunks') = Len(chunks) + 1
           /\ chunks'[Len(chunks) + 1] = entry
           /\ \A i \in 1 .. Len(chunks) : chunks'[i] = chunks[i]
           /\ SentInOrder'
<1>1. \A q \in Seq(SentFrame) :
          /\ Append(q, entry) \in Seq(SentFrame)
          /\ Len(Append(q, entry)) = Len(q) + 1
          /\ Append(q, entry)[Len(q) + 1] = entry
          /\ \A i \in 1 .. Len(q) : Append(q, entry)[i] = q[i]
  OBVIOUS
<1>2. /\ chunks' \in Seq(SentFrame)
      /\ Len(chunks') = Len(chunks) + 1
      /\ chunks'[Len(chunks) + 1] = entry
      /\ \A i \in 1 .. Len(chunks) : chunks'[i] = chunks[i]
  BY <1>1 DEF FuncubeType
<1>3. PICK l \in Nat : l = Len(chunks) BY DEF FuncubeType
<1>4. DOMAIN chunks = 1 .. l /\ DOMAIN (chunks') = 1 .. l + 1 BY <1>2, <1>3 DEF FuncubeType
<1>5. ASSUME NEW i \in 1 .. l + 1
      PROVE  chunks'[i].frame = FrameNumber(i) /\ i <= MaxOrbits * WHOLEORBIT_MAX
  <2>1. CASE i \in 1 .. l BY <1>2, <1>3, <1>4, <2>1 DEF SentInOrder
  <2>2. CASE i = l + 1 BY <1>2, <1>3, <2>2
  <2>3. i \in 1 .. l \/ i = l + 1 OBVIOUS
  <2> QED BY <2>1, <2>2, <2>3, Zenon
<1>6. SentInOrder'
  <2>1. SUFFICES ASSUME NEW i \in DOMAIN (chunks')
                 PROVE  chunks'[i].frame = FrameNumber(i)' /\ i <= MaxOrbits * WHOLEORBIT_MAX
    BY Zenon DEF SentInOrder
  <2> QED BY <1>4, <1>5, Zenon DEF FrameNumber
<1> QED BY <1>2, <1>6

------------------------------------------------------------------------------
\* What a frame sent is, whether it is received or lost.
LEMMA FrameSent ==
    ASSUME FuncubeType, SentInOrder, FuncubeFrame
    PROVE  \E c \in 1 .. WHOLEORBIT_MAX, s \in 1 .. MaxOrbits, entry \in SentFrame :
              /\ entry.frame = [chunk |-> c, seq |-> s]
              /\ entry.frame = FrameNumber(Len(chunks) + 1)
              /\ Len(chunks) + 1 <= MaxOrbits * WHOLEORBIT_MAX
              /\ chunks' = Append(chunks, entry)
              /\ \/ entry.received /\ FuncubeParse(entry.frame)
                 \/ ~entry.received /\ UNCHANGED <<last_chunk, last_seq, last_wo, records>>
<1>1. PICK l \in Nat : l = Len(chunks) BY DEF FuncubeType
<1>2. PICK f : f = [chunk |-> (l % WHOLEORBIT_MAX) + 1, seq |-> (l \div WHOLEORBIT_MAX) + 1]
  OBVIOUS
<1>3. /\ l < MaxOrbits * WHOLEORBIT_MAX
      /\ \/ /\ chunks' = Append(chunks, [frame |-> f, received |-> TRUE])
            /\ FuncubeParse(f)
         \/ /\ chunks' = Append(chunks, [frame |-> f, received |-> FALSE])
            /\ UNCHANGED <<last_chunk, last_seq, last_wo, records>>
  BY <1>1, <1>2, Zenon DEF FuncubeFrame
<1>4. PICK all \in Int : all = MaxOrbits * WHOLEORBIT_MAX BY SizesOfRecords
<1>5. PICK i \in Nat \ {0} : i = l + 1 /\ i - 1 = l /\ i <= all BY <1>3, <1>4
<1>6. f = FrameNumber(i) BY <1>2, <1>5 DEF FrameNumber
<1>7. /\ f \in [chunk : 1 .. WHOLEORBIT_MAX, seq : 1 .. MaxOrbits]
      /\ f \in [chunk : 1 .. WHOLEORBIT_MAX, seq : Nat \ {0}]
  BY <1>4, <1>5, <1>6, OrbitOfFrame
<1>8. PICK c \in 1 .. WHOLEORBIT_MAX, s \in 1 .. MaxOrbits : f = [chunk |-> c, seq |-> s]
  BY <1>7
<1>9. Len(chunks) + 1 <= MaxOrbits * WHOLEORBIT_MAX /\ f = FrameNumber(Len(chunks) + 1)
  BY <1>1, <1>4, <1>5, <1>6
<1>10. CASE chunks' = Append(chunks, [frame |-> f, received |-> TRUE]) /\ FuncubeParse(f)
  <2>1. PICK entry : entry = [frame |-> f, received |-> TRUE] OBVIOUS
  <2>2. entry \in SentFrame /\ entry.frame = f /\ entry.received = TRUE
    BY <1>7, <2>1 DEF SentFrame
  <2> QED BY <1>8, <1>9, <1>10, <2>1, <2>2, Zenon
<1>11. CASE /\ chunks' = Append(chunks, [frame |-> f, received |-> FALSE])
            /\ UNCHANGED <<last_chunk, last_seq, last_wo, records>>
  <2>1. PICK entry : entry = [frame |-> f, received |-> FALSE] OBVIOUS
  <2>2. entry \in SentFrame /\ entry.frame = f /\ entry.received = FALSE
    BY <1>7, <2>1 DEF SentFrame
  <2> QED BY <1>8, <1>9, <1>11, <2>1, <2>2, Zenon
<1> QED BY <1>3, <1>10, <1>11, Zenon

\* What FuncubeParse() does to what is kept and what was given.
LEMMA FrameParsed ==
    ASSUME FuncubeInv, NEW f, f = FrameNumber(Len(chunks) + 1),
           NEW c \in 1 .. WHOLEORBIT_MAX, NEW s \in 1 .. MaxOrbits, f = [chunk |-> c, seq |-> s],
           FuncubeParse(f)
    PROVE  /\ last_chunk' = c /\ last_seq' = s /\ last_wo' = TailOf(s, c)
           /\ records' = records \o RecordsFrom(s, FirstGiven(f), Boundary(c))
           /\ FirstGiven(f) \in Nat /\ FirstGiven(f) <= Boundary(c)
           /\ records' \in Seq(Seq(OrbitByte))
           /\ AllBefore(records', s, Boundary(c))
           /\ NoneTwice(records')
<1>1. c \in Nat \ {0} /\ c \in Nat /\ s \in Int /\ f.chunk = c /\ f.seq = s BY SizesOfRecords
<1>2. /\ Continues(f) => last_wo = TailOf(s, c - 1)
      /\ AllBefore(records, s, FirstGiven(f))
  BY LastKnown
<1>3. PICK e \in Nat : e = Boundary(c) BY <1>1, BoundaryIs
<1>4. /\ FirstGiven(f) \in Nat /\ FirstGiven(f) <= e
      /\ Records(WholeOrbitBytes(f)) = RecordsFrom(s, FirstGiven(f), e)
  BY <1>1, <1>2, <1>3, RecordsGiven
<1>5. PICK first \in Nat : first = FirstGiven(f) /\ first <= e BY <1>4
<1>6. last_chunk' = c /\ last_seq' = s BY <1>1 DEF FuncubeParse
<1>7. last_wo' = TailOf(s, c)
  <2>1. last_wo' = SubSeq(ChunkPayload(f), PAYLOAD_SIZE - remaining(c) + 1, PAYLOAD_SIZE)
    BY <1>1, Zenon DEF FuncubeParse
  <2>2. SubSeq(ChunkPayload(f), PAYLOAD_SIZE - remaining(c) + 1, PAYLOAD_SIZE) = TailOf(s, c)
    BY <1>1, EndIsTail
  <2> QED BY <2>1, <2>2, Zenon
<1>8. records' = records \o RecordsFrom(s, first, e)
  <2>1. records' = records \o Records(WholeOrbitBytes(f)) BY Zenon DEF FuncubeParse
  <2> QED BY <1>4, <1>5, <2>1, Zenon
<1>9. e <= Boundary(WHOLEORBIT_MAX) BY <1>1, <1>3, SizesOfRecords, BoundaryOrder
<1>10. /\ records \o RecordsFrom(s, first, e) \in Seq(Seq(OrbitByte))
       /\ AllBefore(records \o RecordsFrom(s, first, e), s, e)
       /\ NoneTwice(records \o RecordsFrom(s, first, e))
  <2>1. records \in Seq(Seq(OrbitByte)) /\ NoneTwice(records) BY Zenon DEF FuncubeInv, FuncubeType
  <2>2. AllBefore(records, s, first) BY <1>2, <1>5, Zenon
  <2> QED BY <1>5, <1>9, <2>1, <2>2, MoreRecords
<1>11. /\ records' \in Seq(Seq(OrbitByte)) /\ AllBefore(records', s, e) /\ NoneTwice(records')
  BY <1>8, <1>10, Zenon
<1> QED BY <1>3, <1>5, <1>6, <1>7, <1>8, <1>11, Zenon

------------------------------------------------------------------------------
\* The invariant holds before the first frame.
LEMMA FuncubeInitial == FuncubeInit => FuncubeInv
<1> SUFFICES ASSUME FuncubeInit PROVE FuncubeInv OBVIOUS
<1>1. chunks = <<>> /\ last_chunk = NoChunk /\ records = <<>> BY DEF FuncubeInit
<1>2. FuncubeType BY <1>1 DEF FuncubeType
<1>3. SentInOrder BY <1>1 DEF SentInOrder
<1>4. LastIsKept BY <1>1 DEF LastIsKept
<1>5. AllBefore(records, last_seq, Boundary(last_chunk)) BY <1>1 DEF AllBefore
<1>6. NoneTwice(records) BY <1>1 DEF NoneTwice
<1> QED BY <1>2, <1>3, <1>4, <1>5, <1>6, Zenon DEF FuncubeInv

\* A frame that is received and parsed keeps the invariant.
LEMMA FuncubeReceived ==
    ASSUME FuncubeInv, NEW c \in 1 .. WHOLEORBIT_MAX, NEW s \in 1 .. MaxOrbits,
           NEW entry \in SentFrame, entry.frame = [chunk |-> c, seq |-> s],
           entry.frame = FrameNumber(Len(chunks) + 1),
           Len(chunks) + 1 <= MaxOrbits * WHOLEORBIT_MAX,
           chunks' = Append(chunks, entry), entry.received, FuncubeParse(entry.frame)
    PROVE  FuncubeInv'
<1>1. PICK l \in Nat : l = Len(chunks) BY SMTT(20) DEF FuncubeInv, FuncubeType
<1>2. FuncubeType /\ SentInOrder BY Zenon DEF FuncubeInv
<1>3. /\ chunks' \in Seq(SentFrame) /\ Len(chunks') = l + 1
      /\ chunks'[l + 1] = entry /\ SentInOrder'
  BY <1>1, <1>2, OneMoreChunk, Zenon
<1>4. /\ last_chunk' = c /\ last_seq' = s /\ last_wo' = TailOf(s, c)
      /\ records' \in Seq(Seq(OrbitByte))
      /\ AllBefore(records', s, Boundary(c)) /\ NoneTwice(records')
  <2>1. PICK f : f = entry.frame OBVIOUS
  <2>2. f = [chunk |-> c, seq |-> s] /\ f = FrameNumber(Len(chunks) + 1) /\ FuncubeParse(f)
    BY <2>1, Zenon
  <2> QED BY <2>2, FrameParsed
<1>5. FuncubeType' BY <1>3, <1>4, Zenon DEF FuncubeType
<1>6. LastIsKept'
  <2>1. l + 1 \in DOMAIN (chunks') BY <1>3
  <2>2. LastReceived(l + 1)'
    <3>1. entry.frame.chunk = c /\ entry.frame.seq = s OBVIOUS
    <3>2. \A j \in (l + 1) + 1 .. Len(chunks') : ~chunks'[j].received BY <1>3
    <3>3. last_wo' = TailOf(last_seq', last_chunk') BY <1>4
    <3> QED BY <1>3, <1>4, <3>1, <3>2, <3>3, Zenon DEF LastReceived, TailOf, Bytes, Boundary
  <2> QED BY <2>1, <2>2, Zenon DEF LastIsKept
<1>7. AllBefore(records, last_seq, Boundary(last_chunk))'
  BY <1>4, Zenon DEF AllBefore, Before, Record, Boundary
<1>8. NoneTwice(records)' BY <1>4, Zenon DEF NoneTwice
<1> QED BY <1>3, <1>5, <1>6, <1>7, <1>8, Zenon DEF FuncubeInv

\* So does a frame that is lost.
LEMMA FuncubeLost ==
    ASSUME FuncubeInv, NEW entry \in SentFrame, entry.frame = FrameNumber(Len(chunks) + 1),
           Len(chunks) + 1 <= MaxOrbits * WHOLEORBIT_MAX,
           chunks' = Append(chunks, entry), ~entry.received,
           UNCHANGED <<last_chunk, last_seq, last_wo, records>>
    PROVE  FuncubeInv'
<1>1. PICK l \in Nat : l = Len(chunks) BY DEF FuncubeInv, FuncubeType
<1>2. FuncubeType /\ SentInOrder BY Zenon DEF FuncubeInv
<1>3. /\ chunks' \in Seq(SentFrame) /\ Len(chunks') = l + 1
      /\ chunks'[l + 1] = entry /\ SentInOrder'
      /\ \A i \in 1 .. l : chunks'[i] = chunks[i]
  BY <1>1, <1>2, OneMoreChunk, Zenon
<1>4. DOMAIN chunks = 1 .. l /\ DOMAIN (chunks') = 1 .. l + 1 BY <1>1, <1>2, <1>3 DEF FuncubeType
<1>5. FuncubeType'
  <2>1. records' \in Seq(Seq(OrbitByte)) BY <1>2, Zenon DEF FuncubeType
  <2> QED BY <1>3, <2>1, Zenon DEF FuncubeType
<1>6. ASSUME NEW m \in Nat, \A j \in m + 1 .. l : ~chunks[j].received
      PROVE  \A j \in m + 1 .. l + 1 : ~chunks'[j].received
  <2>1. SUFFICES ASSUME NEW j \in m + 1 .. l + 1 PROVE ~chunks'[j].received OBVIOUS
  <2>2. CASE j \in 1 .. l
    <3>1. j \in m + 1 .. l BY <2>2
    <3> QED BY <1>3, <1>6, <2>2, <3>1, Zenon
  <2>3. CASE j = l + 1 BY <1>3, <2>3, Zenon
  <2>4. j \in 1 .. l \/ j = l + 1 OBVIOUS
  <2> QED BY <2>2, <2>3, <2>4, Zenon
<1>7. LastIsKept'
  <2>1. CASE /\ last_chunk = NoChunk
             /\ records = <<>>
             /\ \A j \in DOMAIN chunks : ~chunks[j].received
    <3>1. \A j \in 0 + 1 .. l : ~chunks[j].received BY <1>4, <2>1
    <3>2. \A j \in 0 + 1 .. l + 1 : ~chunks'[j].received BY <1>6, <3>1
    <3>3. \A j \in DOMAIN (chunks') : ~chunks'[j].received BY <1>4, <3>2
    <3>4. last_chunk' = NoChunk /\ records' = <<>> BY <2>1
    <3> QED BY <3>3, <3>4, Zenon DEF LastIsKept
  <2>2. CASE \E i \in DOMAIN chunks : LastReceived(i)
    <3>1. PICK i \in 1 .. l : LastReceived(i) BY <1>4, <2>2
    <3>2. i \in DOMAIN (chunks') /\ i \in Nat BY <1>4
    <3>3. \A j \in i + 1 .. l + 1 : ~chunks'[j].received
      <4>1. \A j \in i + 1 .. l : ~chunks[j].received BY <1>1, <3>1, Zenon DEF LastReceived
      <4> QED BY <1>6, <3>2, <4>1
    <3>4. chunks'[i] = chunks[i] BY <1>3
    <3>5. /\ chunks[i].received
          /\ last_chunk = chunks[i].frame.chunk
          /\ last_seq = chunks[i].frame.seq
          /\ last_wo = TailOf(last_seq, last_chunk)
      BY <3>1, Zenon DEF LastReceived
    <3>6. last_chunk' = last_chunk /\ last_seq' = last_seq /\ last_wo' = last_wo OBVIOUS
    <3>7. TailOf(last_seq, last_chunk)' = TailOf(last_seq, last_chunk)
      BY <3>6, Zenon DEF TailOf, Bytes, Boundary
    <3>8. LastReceived(i)'
      BY <1>3, <3>3, <3>4, <3>5, <3>6, <3>7, Zenon DEF LastReceived
    <3> QED BY <3>2, <3>8, Zenon DEF LastIsKept
  <2> QED BY <2>1, <2>2, Zenon DEF FuncubeInv, LastIsKept
<1>8. AllBefore(records, last_seq, Boundary(last_chunk))'
  <2>1. AllBefore(records, last_seq, Boundary(last_chunk)) BY Zenon DEF FuncubeInv
  <2>2. last_chunk' = last_chunk /\ last_seq' = last_seq /\ records' = records OBVIOUS
  <2>3. AllBefore(records', last_seq', Boundary(last_chunk')) BY <2>1, <2>2, Zenon
  <2> QED BY <2>3, Zenon DEF AllBefore, Before, Record, Boundary
<1>9. NoneTwice(records)'
  <2>1. NoneTwice(records) /\ records' = records BY Zenon DEF FuncubeInv
  <2> QED BY <2>1, Zenon DEF NoneTwice
<1> QED BY <1>3, <1>5, <1>7, <1>8, <1>9, Zenon DEF FuncubeInv

\* So does every step.
LEMMA FuncubeStep == FuncubeInv /\ [FuncubeNext]_funcubeVars => FuncubeInv'
<1> SUFFICES ASSUME FuncubeInv, [FuncubeNext]_funcubeVars PROVE FuncubeInv' OBVIOUS
<1>1. CASE FuncubeNext
  <2>1. FuncubeType /\ SentInOrder /\ FuncubeFrame
    BY <1>1, Zenon DEF FuncubeInv, FuncubeNext
  <2>2. PICK c \in 1 .. WHOLEORBIT_MAX, s \in 1 .. MaxOrbits, entry \in SentFrame :
            /\ entry.frame = [chunk |-> c, seq |-> s]
            /\ entry.frame = FrameNumber(Len(chunks) + 1)
            /\ Len(chunks) + 1 <= MaxOrbits * WHOLEORBIT_MAX
            /\ chunks' = Append(chunks, entry)
            /\ \/ entry.received /\ FuncubeParse(entry.frame)
               \/ ~entry.received /\ UNCHANGED <<last_chunk, last_seq, last_wo, records>>
    BY <2>1, FrameSent, Zenon
  <2>3. CASE entry.received /\ FuncubeParse(entry.frame)
    BY <2>2, <2>3, FuncubeReceived, Zenon
  <2>4. CASE ~entry.received /\ UNCHANGED <<last_chunk, last_seq, last_wo, records>>
    BY <2>2, <2>4, FuncubeLost, Zenon
  <2> QED BY <2>2, <2>3, <2>4, Zenon
<1>2. CASE UNCHANGED funcubeVars
  <2>1. /\ chunks' = chunks /\ last_chunk' = last_chunk /\ last_seq' = last_seq
        /\ last_wo' = last_wo /\ records' = records
    BY <1>2 DEF funcubeVars
  <2>2. FuncubeType' BY <2>1, Zenon DEF FuncubeInv, FuncubeType
  <2>3. SentInOrder' BY <2>1, Zenon DEF FuncubeInv, SentInOrder, FrameNumber
  <2>4. LastIsKept'
    BY <2>1, Zenon DEF FuncubeInv, LastIsKept, LastReceived, TailOf, Bytes, Boundary
  <2>5. AllBefore(records, last_seq, Boundary(last_chunk))'
    <3>1. AllBefore(records', last_seq', Boundary(last_chunk')) BY <2>1, Zenon DEF FuncubeInv
    <3> QED BY <3>1, Zenon DEF AllBefore, Before, Record, Boundary
  <2>6. NoneTwice(records)' BY <2>1, Zenon DEF FuncubeInv, NoneTwice
  <2> QED BY <2>2, <2>3, <2>4, <2>5, <2>6, Zenon DEF FuncubeInv
<1> QED BY <1>1, <1>2, Zenon

\* What the FUNcube parser keeps is the end of the last frame it received, of a chunk
\* of some orbit, and all it has given are records before that, each once.
THEOREM FuncubeInvariance == FuncubeSpec => []FuncubeInv
BY FuncubeInitial, FuncubeStep, PTL DEF FuncubeSpec

\* Records that came before are records of the orbit.
LEMMA WrittenRecords == FuncubeInv => RecordsAsWritten
<1> SUFFICES ASSUME FuncubeInv PROVE RecordsAsWritten OBVIOUS
<1>1. ASSUME NEW k \in DOMAIN records
      PROVE  \E seq \in 1 .. MaxOrbits, n \in RecordsWithin(1, WHOLEORBIT_MAX) :
                records[k] = Record(seq, n)
  <2>1. Before(records[k], last_seq, Boundary(last_chunk))
    BY Zenon DEF FuncubeInv, AllBefore
  <2>2. PICK s \in 1 .. MaxOrbits, n \in 0 .. Boundary(WHOLEORBIT_MAX) - 1 :
            records[k] = Record(s, n)
    BY <2>1, Zenon DEF Before
  <2>3. PICK W \in Nat : W = WHOLEORBIT_SIZE BY SizesOfRecords
  <2>4. PICK P \in Nat : P = PAYLOAD_SIZE BY SizesOfRecords
  <2>5. n \in Nat BY SizesOfRecords, BoundaryIs
  <2>6. n * W >= P * (1 - 1)
    <3>1. n * W \in Nat BY <2>3, <2>5
    <3> QED BY <2>4, <3>1
  <2>7. n \in RecordsWithin(1, WHOLEORBIT_MAX)
    BY <2>2, <2>3, <2>4, <2>6, Zenon DEF RecordsWithin, Boundary
  <2> QED BY <2>2, <2>7, Zenon
<1>2. IsInjective(records) BY Zenon DEF FuncubeInv, NoneTwice, IsInjective
<1> QED BY <1>1, <1>2, Zenon DEF RecordsAsWritten

\* Whatever frames are lost, FuncubeParse() only gives records as the satellite wrote
\* them, and none twice: for all sizes of payloads and of records, chunks of an orbit
\* and orbits.
THEOREM OnlyRecordsAsWritten == FuncubeSpec => []RecordsAsWritten
BY FuncubeInvariance, WrittenRecords, PTL

------------------------------------------------------------------------------
\* The records that lie in two chunks together and end in the second.
LEMMA SpanningNumbers ==
    ASSUME NEW c \in Nat, 1 < c,
           NEW n \in RecordsWithin(c - 1, c) \ RecordsWithin(c - 1, c - 1)
    PROVE  n \in Nat /\ Boundary(c - 1) <= n /\ n < Boundary(c)
<1>1. PICK b \in Nat : b = c - 1 OBVIOUS
<1>2. PICK d \in Nat : d = Boundary(b) BY BoundaryIs
<1>3. PICK e \in Nat : e = Boundary(c) BY BoundaryIs
<1>4. n \in 0 .. e - 1 /\ n * WHOLEORBIT_SIZE >= PAYLOAD_SIZE * (b - 1)
  BY <1>1, <1>3, Zenon DEF RecordsWithin, Boundary
<1>5. ~(n \in 0 .. d - 1)
  <2>1. SUFFICES ASSUME n \in 0 .. d - 1 PROVE n \in RecordsWithin(b, b) BY <1>1, Zenon
  <2> QED BY <1>2, <1>4, <2>1, Zenon DEF RecordsWithin, Boundary
<1> QED BY <1>1, <1>2, <1>3, <1>4, <1>5

\* The first frame is the first chunk.
LEMMA FirstFrame == FrameNumber(1).chunk = 1
<1>1. PICK X \in Nat \ {0} : X = WHOLEORBIT_MAX BY SizesOfRecords
<1>2. PICK i \in Nat \ {0} : i = 1 OBVIOUS
<1>3. PICK q \in Nat, r \in 0 .. X - 1 :
          i - 1 = X * q + r /\ FrameNumber(i) = [chunk |-> r + 1, seq |-> q + 1]
  BY <1>1, FrameNumberIs
<1>4. X * q \in Nat OBVIOUS
<1>5. r = 0 BY <1>2, <1>3, <1>4
<1> QED BY <1>2, <1>3, <1>5

\* Frame i gives the records that it shares with the frame before.
SharedGiven(i) ==
    LET f == chunks[i].frame
    IN  (f.chunk > 1 /\ chunks[i].received /\ chunks[i - 1].received)
            => \A n \in RecordsWithin(f.chunk - 1, f.chunk) \ RecordsWithin(f.chunk - 1, f.chunk - 1) :
                  Given(f.seq, n)

\* What was given before the frame that comes.
LEMMA SharedStays ==
    ASSUME FuncubeType, SentInOrder, NEW l \in Nat, l = Len(chunks), NEW i \in 1 .. l,
           SharedGiven(i), \A j \in 1 .. l : chunks'[j] = chunks[j],
           NEW given, records' = given,
           \A k \in DOMAIN records : k \in DOMAIN given /\ given[k] = records[k]
    PROVE  SharedGiven(i)'
<1>1. PICK f : f = chunks[i].frame OBVIOUS
<1>2. chunks'[i] = chunks[i] /\ chunks'[i].frame = f BY <1>1
<1>3. SUFFICES ASSUME f.chunk > 1, chunks[i].received, chunks'[i - 1].received,
                      NEW n \in RecordsWithin(f.chunk - 1, f.chunk)
                                \ RecordsWithin(f.chunk - 1, f.chunk - 1)
               PROVE  Given(f.seq, n)'
  BY <1>2, Zenon DEF SharedGiven, RecordsWithin
<1>4. i - 1 \in 1 .. l
  <2>1. DOMAIN chunks = 1 .. l BY DEF FuncubeType
  <2>2. f = FrameNumber(i) BY <1>1, <2>1, Zenon DEF SentInOrder
  <2>3. CASE i = 1 BY <1>3, <2>2, <2>3, FirstFrame
  <2>4. CASE i # 1 BY <2>4
  <2> QED BY <2>3, <2>4
<1>5. chunks'[i - 1] = chunks[i - 1] BY <1>4
<1>6. Given(f.seq, n) BY <1>1, <1>3, <1>5, Zenon DEF SharedGiven
<1>7. PICK k \in DOMAIN records : records[k] = Record(f.seq, n) BY <1>6, Zenon DEF Given
<1>8. k \in DOMAIN (records') /\ records'[k] = Record(f.seq, n) BY <1>7, Zenon
<1> QED BY <1>8, Zenon DEF Given, Record

\* What the frame that comes gives.
LEMMA SharedComes ==
    ASSUME FuncubeInv, NEW c \in 1 .. WHOLEORBIT_MAX, NEW s \in 1 .. MaxOrbits,
           NEW entry \in SentFrame, entry.frame = [chunk |-> c, seq |-> s],
           entry.frame = FrameNumber(Len(chunks) + 1),
           NEW l \in Nat, l = Len(chunks), chunks'[l + 1] = entry,
           \A j \in 1 .. l : chunks'[j] = chunks[j],
           FuncubeParse(entry.frame)
    PROVE  SharedGiven(l + 1)'
<1>1. PICK f : f = entry.frame OBVIOUS
<1>2. f.chunk = c /\ f.seq = s /\ c \in Nat /\ c - 1 \in Int BY <1>1, SizesOfRecords
<1>3. SUFFICES ASSUME 1 < c, chunks'[l].received,
                      NEW n \in RecordsWithin(c - 1, c) \ RecordsWithin(c - 1, c - 1)
               PROVE  Given(s, n)'
  <2>1. (l + 1) - 1 = l OBVIOUS
  <2>2. c > 1 => 1 < c BY <1>2
  <2> QED BY <1>1, <1>2, <2>1, <2>2, Zenon DEF SharedGiven, RecordsWithin
<1>4. l \in 1 .. l /\ l \in Nat \ {0}
  <2>1. CASE l = 0
    <3>1. entry.frame = FrameNumber(1) BY <2>1
    <3> QED BY <1>1, <1>2, <1>3, <3>1, FirstFrame
  <2> QED BY <2>1
<1>5. chunks[l].received BY <1>3, <1>4
<1>6. DOMAIN chunks = 1 .. l BY DEF FuncubeInv, FuncubeType
<1>7. chunks[l].frame = FrameNumber(l) BY <1>4, <1>6, Zenon DEF FuncubeInv, SentInOrder
<1>8. FrameNumber(l).seq = s /\ FrameNumber(l).chunk = c - 1
  BY <1>1, <1>2, <1>3, <1>4, NextFrame
<1>9. LastReceived(l)
  <2>1. PICK i \in 1 .. l : LastReceived(i) BY <1>4, <1>5, <1>6, Zenon DEF FuncubeInv, LastIsKept
  <2>2. i = l
    <3>1. SUFFICES ASSUME i # l PROVE FALSE OBVIOUS
    <3>2. l \in i + 1 .. l BY <3>1
    <3> QED BY <1>5, <2>1, <3>2, Zenon DEF LastReceived
  <2> QED BY <2>1, <2>2
<1>10. Continues(f) BY <1>2, <1>7, <1>8, <1>9, Zenon DEF Continues, LastReceived
<1>11. FirstGiven(f) = Boundary(c - 1) BY <1>2, <1>10, Zenon DEF FirstGiven
<1>12. /\ records' = records \o RecordsFrom(s, FirstGiven(f), Boundary(c))
       /\ FirstGiven(f) \in Nat /\ FirstGiven(f) <= Boundary(c)
  <2>1. f = FrameNumber(Len(chunks) + 1) /\ f = [chunk |-> c, seq |-> s] /\ FuncubeParse(f)
    BY <1>1, Zenon
  <2> QED BY <2>1, FrameParsed
<1>13. PICK m \in Nat, e \in Nat : m = FirstGiven(f) /\ e = Boundary(c) /\ m <= e
  BY <1>2, <1>12, BoundaryIs
<1>14. n \in Nat /\ m <= n /\ n < e
  BY <1>2, <1>3, <1>11, <1>13, SpanningNumbers
<1>15. PICK new : new = RecordsFrom(s, m, e) OBVIOUS
<1>16. AreRecords(new, s, m, e)
  <2>1. s \in Int OBVIOUS
  <2> QED BY <1>13, <1>15, <2>1, RecordsFromAre
<1>17. PICK k \in 1 .. e - m : k = (n - m) + 1 BY <1>13, <1>14
<1>18. m + k - 1 = n BY <1>13, <1>14, <1>17, SMTT(20)
<1>19. new[k] = Record(s, n) /\ k \in 1 .. Len(new) BY <1>16, <1>17, <1>18 DEF AreRecords
<1>20. PICK S : S = Seq(OrbitByte) OBVIOUS
<1>21. records \in Seq(S) /\ new \in Seq(S)
  BY <1>16, <1>20, Zenon DEF FuncubeInv, FuncubeType, AreRecords
<1>22. /\ (records \o new)[Len(records) + k] = new[k]
       /\ Len(records) + k \in DOMAIN (records \o new)
  BY <1>19, <1>21, ElementsJoined
<1>23. records' = records \o new BY <1>12, <1>13, <1>15
<1> QED BY <1>19, <1>22, <1>23, Zenon DEF Given, Record

\* Every frame, also the one that comes, has given what it shares.
LEMMA SharedStep ==
    ASSUME FuncubeInv, FuncubeFrame, \A i \in DOMAIN chunks : SharedGiven(i)
    PROVE  \A i \in DOMAIN (chunks') : SharedGiven(i)'
<1>1. FuncubeType /\ SentInOrder BY Zenon DEF FuncubeInv
<1>2. PICK c \in 1 .. WHOLEORBIT_MAX, s \in 1 .. MaxOrbits, entry \in SentFrame :
          /\ entry.frame = [chunk |-> c, seq |-> s]
          /\ entry.frame = FrameNumber(Len(chunks) + 1)
          /\ Len(chunks) + 1 <= MaxOrbits * WHOLEORBIT_MAX
          /\ chunks' = Append(chunks, entry)
          /\ \/ entry.received /\ FuncubeParse(entry.frame)
             \/ ~entry.received /\ UNCHANGED <<last_chunk, last_seq, last_wo, records>>
  BY <1>1, FrameSent, Zenon
<1>3. PICK l \in Nat : l = Len(chunks) BY <1>1 DEF FuncubeType
<1>4. /\ chunks' \in Seq(SentFrame) /\ Len(chunks') = l + 1
      /\ chunks'[l + 1] = entry
      /\ \A i \in 1 .. l : chunks'[i] = chunks[i]
  BY <1>1, <1>2, <1>3, OneMoreChunk, Zenon
<1>5. DOMAIN chunks = 1 .. l /\ DOMAIN (chunks') = 1 .. l + 1 BY <1>1, <1>3, <1>4 DEF FuncubeType
<1>6. \A k \in DOMAIN records : k \in DOMAIN (records') /\ records'[k] = records[k]
  <2>1. CASE entry.received /\ FuncubeParse(entry.frame)
    <3>1. PICK S : S = Seq(OrbitByte) OBVIOUS
    <3>2. PICK f : f = entry.frame OBVIOUS
    <3>3. f = FrameNumber(Len(chunks) + 1) /\ f = [chunk |-> c, seq |-> s] /\ FuncubeParse(f)
      BY <1>2, <2>1, <3>2, Zenon
    <3>4. /\ records' = records \o RecordsFrom(s, FirstGiven(f), Boundary(c))
          /\ FirstGiven(f) \in Nat /\ FirstGiven(f) <= Boundary(c)
      BY <3>3, FrameParsed
    <3>5. PICK m \in Nat, e \in Nat : m = FirstGiven(f) /\ e = Boundary(c) /\ m <= e
      BY <3>4, BoundaryIs
    <3>6. PICK new : new = RecordsFrom(s, m, e) OBVIOUS
    <3>7. AreRecords(new, s, m, e)
      <4>1. s \in Int OBVIOUS
      <4> QED BY <3>5, <3>6, <4>1, RecordsFromAre
    <3>8. records \in Seq(S) /\ new \in Seq(S)
      BY <1>1, <3>1, <3>7, Zenon DEF FuncubeType, AreRecords
    <3>9. \A k \in DOMAIN records :
              k \in DOMAIN (records \o new) /\ (records \o new)[k] = records[k]
      BY <3>8, ElementsJoined
    <3>10. records' = records \o new BY <3>4, <3>5, <3>6
    <3> QED BY <3>9, <3>10, Zenon
  <2>2. CASE ~entry.received /\ UNCHANGED <<last_chunk, last_seq, last_wo, records>>
    BY <2>2
  <2> QED BY <1>2, <2>1, <2>2, Zenon
<1>7. SUFFICES ASSUME NEW i \in 1 .. l + 1 PROVE SharedGiven(i)' BY <1>5, Zenon
<1>8. CASE i \in 1 .. l
  <2>1. SharedGiven(i) BY <1>5, <1>8, Zenon
  <2>2. PICK given : given = records' OBVIOUS
  <2>3. \A k \in DOMAIN records : k \in DOMAIN given /\ given[k] = records[k] BY <1>6, <2>2
  <2> QED BY <1>1, <1>3, <1>4, <1>8, <2>1, <2>2, <2>3, SharedStays, Zenon
<1>9. CASE i = l + 1 /\ entry.received /\ FuncubeParse(entry.frame)
  <2>1. SharedGiven(l + 1)' BY <1>2, <1>3, <1>4, <1>9, SharedComes, Zenon
  <2> QED BY <1>9, <2>1, Zenon
<1>10. CASE i = l + 1 /\ ~entry.received
  BY <1>4, <1>10, Zenon DEF SharedGiven
<1>11. i \in 1 .. l \/ i = l + 1 OBVIOUS
<1> QED BY <1>2, <1>8, <1>9, <1>10, <1>11, Zenon

\* Two frames of an orbit that follow each other and are both received give all the
\* records that lie in both together and end in the second.
THEOREM SpanningGiven == FuncubeSpec => []SpanningRecordsGiven
<1>1. ASSUME FuncubeInit PROVE SpanningRecordsGiven
  <2>1. DOMAIN chunks = {} BY <1>1 DEF FuncubeInit
  <2> QED BY <2>1, Zenon DEF SpanningRecordsGiven
<1>2. ASSUME FuncubeInv, SpanningRecordsGiven, [FuncubeNext]_funcubeVars
      PROVE  SpanningRecordsGiven'
  <2>1. CASE FuncubeNext
    <3>1. \A i \in DOMAIN chunks : SharedGiven(i)
      BY <1>2, Zenon DEF SpanningRecordsGiven, SharedGiven
    <3>2. FuncubeFrame BY <2>1 DEF FuncubeNext
    <3>3. \A i \in DOMAIN (chunks') : SharedGiven(i)' BY <1>2, <3>1, <3>2, SharedStep, Zenon
    <3> QED BY <3>3, Zenon DEF SpanningRecordsGiven, SharedGiven
  <2>2. CASE UNCHANGED funcubeVars
    <3>1. chunks' = chunks /\ records' = records BY <2>2 DEF funcubeVars
    <3>2. SUFFICES ASSUME NEW i \in DOMAIN chunks PROVE SharedGiven(i)'
      BY <3>1, Zenon DEF SpanningRecordsGiven, SharedGiven
    <3>3. SharedGiven(i) BY <1>2, <3>2, Zenon DEF SpanningRecordsGiven, SharedGiven
    <3>4. ASSUME NEW s, NEW n, Given(s, n) PROVE Given(s, n)'
      BY <3>1, <3>4, Zenon DEF Given, Record
    <3> QED BY <3>1, <3>3, <3>4, Zenon DEF SharedGiven, RecordsWithin
  <2> QED BY <1>2, <2>1, <2>2, Zenon
<1> QED BY <1>1, <1>2, FuncubeInvariance, PTL DEF FuncubeSpec

------------------------------------------------------------------------------
\* What holds at 0, and at each step if it held before, holds from 0 to n: the places
\* where it fails would have a first one.
LEMMA StepByStep ==
    ASSUME NEW n \in Nat, NEW S, 0 \in S, \A j \in 1 .. n : j - 1 \in S => j \in S
    PROVE  \A j \in 0 .. n : j \in S
  <1>1. PICK T : T = {j \in 0 .. n : j \notin S}
    OBVIOUS
  <1>2. SUFFICES ASSUME T # {} PROVE FALSE
    BY <1>1
  <1>3. T \in SUBSET Nat
    BY <1>1
  <1>4. PICK m \in T : \A x \in T : ~ (<<x, m>> \in OpToRel(<, Nat))
    BY <1>2, <1>3, NatLessThanWellFounded, WFMin
  <1>5. m \in 1 .. n /\ m \notin S
    BY <1>1
  <1>6. m - 1 \in T
    BY <1>1, <1>5
  <1>7. m - 1 < m /\ m - 1 \in Nat /\ m \in Nat
    BY <1>5
  <1> QED BY <1>4, <1>6, <1>7 DEF OpToRel

\* What is repeated, and what is had after each time.
Step(F, D, n) == F \in [D \X (1 .. n) -> D]

Repeated(f, F, D, n, a) ==
    /\ f \in [0 .. n -> D]
    /\ f[0] = a
    /\ \A j \in 1 .. n : f[j] = F[<<f[j - 1], j>>]

\* A function that is defined by recursion from 0 to n exists.
LEMMA Recursion ==
    ASSUME NEW n \in Nat, NEW D, NEW a \in D, NEW F, Step(F, D, n)
    PROVE  \E f : Repeated(f, F, D, n, a)
  <1> DEFINE Exists(k) == \E f \in [0 .. k -> D] :
                            \A j \in 0 .. k : f[j] = IF j = 0 THEN a ELSE F[<<f[j - 1], j>>]
  <1>1. Exists(0)
    <2>1. [j \in 0 .. 0 |-> a] \in [0 .. 0 -> D]
      OBVIOUS
    <2>2. \A j \in 0 .. 0 : [i \in 0 .. 0 |-> a][j] = a /\ j = 0
      OBVIOUS
    <2> QED BY <2>1, <2>2
  <1>2. ASSUME NEW m \in 1 .. n, Exists(m - 1) PROVE Exists(m)
    <2>1. m \in 0 .. n
      OBVIOUS
    <2>2. m # 0 /\ m - 1 \in 0 .. n /\ m - 1 \in Nat /\ m \in Nat
      OBVIOUS
    <2>3. Exists(m - 1)
      BY <1>2
    <2>4. PICK f \in [0 .. m - 1 -> D] :
            \A j \in 0 .. m - 1 : f[j] = IF j = 0 THEN a ELSE F[<<f[j - 1], j>>]
      BY <2>3
    <2>5. PICK g : g = [j \in 0 .. m |-> IF j = m THEN F[<<f[m - 1], m>>] ELSE f[j]]
      OBVIOUS
    <2>6. f[m - 1] \in D
      BY <2>2, <2>4
    <2>7. F[<<f[m - 1], m>>] \in D
      BY <2>1, <2>2, <2>6 DEF Step
    <2>8. \A j \in 0 .. m : j = m \/ j \in 0 .. m - 1
      BY <2>2
    <2>9. g \in [0 .. m -> D]
      BY <2>4, <2>5, <2>7, <2>8
    <2>10. ASSUME NEW j \in 0 .. m PROVE g[j] = IF j = 0 THEN a ELSE F[<<g[j - 1], j>>]
      <3>1. CASE j = m
        <4>1. m - 1 \in 0 .. m /\ m - 1 # m
          BY <2>2
        <4>2. g[m - 1] = f[m - 1]
          BY <2>5, <4>1
        <4> QED BY <2>2, <2>5, <3>1, <4>2
      <3>2. CASE j # m
        <4>1. j \in 0 .. m - 1
          BY <2>8, <3>2
        <4>2. g[j] = f[j]
          BY <2>5, <3>2
        <4>3. j # 0 => j - 1 \in 0 .. m /\ j - 1 # m /\ j - 1 \in 0 .. m - 1
          BY <2>2, <4>1
        <4>4. j # 0 => g[j - 1] = f[j - 1]
          BY <2>5, <4>3
        <4> QED BY <2>4, <4>1, <4>2, <4>4
      <3> QED BY <3>1, <3>2
    <2> QED BY <2>9, <2>10
  <1>3. Exists(n)
    <2> HIDE DEF Exists
    <2>1. PICK S : S = {k \in 0 .. n : Exists(k)}
      OBVIOUS
    <2>2. 0 \in S
      BY <1>1, <2>1
    <2>3. \A m \in 1 .. n : m - 1 \in S => m \in S
      BY <1>2, <2>1
    <2>4. \A k \in 0 .. n : k \in S
      BY <2>2, <2>3, StepByStep
    <2> QED BY <2>1, <2>4
  <1>4. PICK f \in [0 .. n -> D] :
          \A j \in 0 .. n : f[j] = IF j = 0 THEN a ELSE F[<<f[j - 1], j>>]
    BY <1>3
  <1>5. 0 \in 0 .. n /\ \A j \in 1 .. n : j \in 0 .. n /\ j # 0
    OBVIOUS
  <1> QED BY <1>4, <1>5 DEF Repeated

------------------------------------------------------------------------------
\* A byte of a stream, what the decoder of a virtual channel keeps, and what has come out.
Byte == [byte : Nat, ends : BOOLEAN]
Packet == Seq(Nat)
Decoder == [packet : Packet, transpose : BOOLEAN, published : Seq(Packet)]

\* Between two escapes: so far v of the next packet.
Holding(v, out) == [packet |-> v, transpose |-> FALSE, published |-> out]

\* A byte ends a packet.
EndsPacket(r, b) == b.byte = FEND /\ r.packet # <<>>

\* The decoder that begins a new list after each packet, after one byte more.
Decoded(r, b) ==
    CASE EndsPacket(r, b) ->
            [packet |-> <<>>, transpose |-> r.transpose,
             published |-> Append(r.published, r.packet)]
      [] b.byte = FEND /\ ~ EndsPacket(r, b) -> r
      [] b.byte # FEND ->
            [packet |-> r.packet \o Unescaped(r.transpose, b.byte),
             transpose |-> TransposeAfter(r.transpose, b.byte),
             published |-> r.published]

\* The decoders before and after each byte of s.  The bytes that end packets are marked.
Run(s, run, n) ==
    /\ run \in [0 .. n -> Decoder]
    /\ \A i \in 1 .. n : /\ run[i] = Decoded(run[i - 1], s[i])
                         /\ s[i].ends <=> EndsPacket(run[i - 1], s[i])

\* The bytes of s take the decoder from r to z.
Takes(s, r, z) == \E run : Run(s, run, Len(s)) /\ run[0] = r /\ run[Len(s)] = z

LEMMA DecodedIsDecoder ==
    ASSUME NEW r \in Decoder, NEW b \in Byte
    PROVE  Decoded(r, b) \in Decoder
  <1>1. PICK packet \in Packet, transposed \in BOOLEAN :
           packet = r.packet /\ transposed = r.transpose
    BY DEF Decoder
  <1>2. PICK P : P = Packet
    OBVIOUS
  <1>3. PICK out \in Seq(P) : out = r.published
    BY <1>2 DEF Decoder
  <1>4. Unescaped(transposed, b.byte) \in Packet /\ TransposeAfter(transposed, b.byte) \in BOOLEAN
    BY DEF Unescaped, TransposeAfter, Byte, Packet, FEND, FESC, TFEND, TFESC
  <1>5. packet \o Unescaped(transposed, b.byte) \in Packet
    BY <1>4 DEF Packet
  <1>6. Append(out, packet) \in Seq(P)
    BY <1>2
  <1>7. <<>> \in Packet
    BY DEF Packet
  <1>8. CASE EndsPacket(r, b)
    <2>1. Decoded(r, b) = [packet |-> <<>>, transpose |-> r.transpose,
                           published |-> Append(r.published, r.packet)]
      BY <1>8 DEF Decoded, EndsPacket
    <2>2. Decoded(r, b) = [packet |-> <<>>, transpose |-> transposed,
                           published |-> Append(out, packet)]
      BY <1>1, <1>3, <2>1
    <2> QED BY <1>2, <1>6, <1>7, <2>2 DEF Decoder
  <1>9. CASE b.byte = FEND /\ ~ EndsPacket(r, b)
    BY <1>9 DEF Decoded
  <1>10. CASE b.byte # FEND
    <2>1. Decoded(r, b) = [packet |-> packet \o Unescaped(transposed, b.byte),
                           transpose |-> TransposeAfter(transposed, b.byte),
                           published |-> out]
      BY <1>1, <1>3, <1>10 DEF Decoded, EndsPacket
    <2> QED BY <1>2, <1>4, <1>5, <2>1 DEF Decoder
  <1> QED BY <1>8, <1>9, <1>10

\* One byte.
LEMMA ByteTakes ==
    ASSUME NEW r \in Decoder, NEW b \in Byte, b.ends <=> EndsPacket(r, b)
    PROVE  Takes(<<b>>, r, Decoded(r, b))
  <1>1. PICK z \in Decoder : z = Decoded(r, b)
    BY DecodedIsDecoder
  <1>2. Len(<<b>>) = 1 /\ <<b>>[1] = b
    OBVIOUS
  <1>3. PICK run : run = [i \in 0 .. 1 |-> IF i = 0 THEN r ELSE z]
    OBVIOUS
  <1>4. run \in [0 .. 1 -> Decoder] /\ run[0] = r /\ run[1] = z
    BY <1>3
  <1>5. Run(<<b>>, run, 1)
    BY <1>1, <1>2, <1>4 DEF Run
  <1> QED BY <1>1, <1>2, <1>4, <1>5 DEF Takes

\* No byte.
LEMMA NothingTakes ==
    ASSUME NEW r \in Decoder
    PROVE  Takes(<<>>, r, r)
  <1>1. PICK run : run = [i \in 0 .. 0 |-> r]
    OBVIOUS
  <1>2. run \in [0 .. 0 -> Decoder] /\ run[0] = r
    BY <1>1
  <1>3. Run(<<>>, run, 0)
    BY <1>2 DEF Run
  <1> QED BY <1>2, <1>3 DEF Takes

\* One sequence of bytes after another.
LEMMA BothTake ==
    ASSUME NEW s \in Seq(Byte), NEW t \in Seq(Byte), NEW r, NEW y, NEW z,
           Takes(s, r, y), Takes(t, y, z)
    PROVE  Takes(s \o t, r, z)
  <1>1. PICK m, n \in Nat : m = Len(s) /\ n = Len(t)
    OBVIOUS
  <1>2. PICK f : Run(s, f, m) /\ f[0] = r /\ f[m] = y
    BY <1>1 DEF Takes
  <1>3. PICK g : Run(t, g, n) /\ g[0] = y /\ g[n] = z
    BY <1>1 DEF Takes
  <1>4. PICK run : run = [i \in 0 .. m + n |-> IF i <= m THEN f[i] ELSE g[i - m]]
    OBVIOUS
  <1>5. PICK st : st = s \o t
    OBVIOUS
  <1>6. /\ Len(st) = m + n
        /\ \A i \in 1 .. m : st[i] = s[i]
        /\ \A i \in 1 .. n : st[m + i] = t[i]
    BY <1>1, <1>5
  <1>7. \A i \in 0 .. m : run[i] = f[i]
    BY <1>4
  <1>8. \A i \in 0 .. n : run[m + i] = g[i]
    BY <1>2, <1>3, <1>4
  <1>9. run \in [0 .. m + n -> Decoder]
    <2>1. ASSUME NEW i \in 0 .. m + n PROVE run[i] \in Decoder
      <3>1. CASE i <= m
        BY <1>2, <1>7, <3>1 DEF Run
      <3>2. CASE ~ (i <= m)
        <4>1. PICK k \in 0 .. n : k = i - m
          BY <3>2
        <4>2. run[i] = g[k]
          BY <1>8, <4>1
        <4> QED BY <1>3, <4>2 DEF Run
      <3> QED BY <3>1, <3>2
    <2> QED BY <1>4, <2>1
  <1>10. ASSUME NEW i \in 1 .. m + n
         PROVE  /\ run[i] = Decoded(run[i - 1], st[i])
                /\ st[i].ends <=> EndsPacket(run[i - 1], st[i])
    <2>1. CASE i <= m
      <3>1. i - 1 \in 0 .. m /\ i \in 0 .. m /\ i \in 1 .. m
        BY <2>1
      <3> QED BY <1>2, <1>6, <1>7, <3>1 DEF Run
    <2>2. CASE ~ (i <= m)
      <3>1. PICK k \in 1 .. n : k = i - m
        BY <2>2
      <3>2. k - 1 \in 0 .. n /\ k \in 0 .. n /\ i = m + k /\ i - 1 = m + (k - 1)
        BY <3>1
      <3>3. run[i] = g[k] /\ run[i - 1] = g[k - 1] /\ st[i] = t[k]
        BY <1>6, <1>8, <3>1, <3>2
      <3> QED BY <1>3, <3>1, <3>3 DEF Run
    <2> QED BY <2>1, <2>2
  <1>11. Run(st, run, m + n)
    BY <1>9, <1>10 DEF Run
  <1>12. run[0] = r /\ run[m + n] = z
    <2>1. 0 \in 0 .. m /\ n \in 0 .. n
      OBVIOUS
    <2> QED BY <1>2, <1>3, <1>7, <1>8, <2>1
  <1> QED BY <1>5, <1>6, <1>11, <1>12 DEF Takes

\* A sequence of bytes is cut in two.
LEMMA PartTakes ==
    ASSUME NEW s \in Seq(Byte), NEW r, NEW z, Takes(s, r, z), NEW n \in 0 .. Len(s)
    PROVE  \E y : /\ Takes(SubSeq(s, 1, n), r, y)
                  /\ Takes(SubSeq(s, n + 1, Len(s)), y, z)
  <1>1. PICK l \in Nat : l = Len(s)
    OBVIOUS
  <1>2. n \in Nat /\ n <= l
    BY <1>1
  <1>3. PICK run : Run(s, run, l) /\ run[0] = r /\ run[l] = z
    BY <1>1 DEF Takes
  <1>4. PICK front, rest : front = SubSeq(s, 1, n) /\ rest = SubSeq(s, n + 1, l)
    OBVIOUS
  <1>5. /\ Len(front) = n /\ \A i \in 1 .. n : front[i] = s[i]
        /\ Len(rest) = l - n /\ \A i \in 1 .. l - n : rest[i] = s[n + i]
    BY <1>1, <1>2, <1>4
  <1>6. PICK f : f = [i \in 0 .. n |-> run[i]]
    OBVIOUS
  <1>7. PICK m \in Nat : m = l - n
    BY <1>2
  <1>8. PICK g : g = [i \in 0 .. m |-> run[n + i]]
    OBVIOUS
  <1>9. Run(front, f, n)
    <2>1. \A i \in 0 .. n : i \in 0 .. l
      BY <1>2
    <2>2. f \in [0 .. n -> Decoder]
      BY <1>3, <1>6, <2>1 DEF Run
    <2>3. ASSUME NEW i \in 1 .. n
          PROVE  /\ f[i] = Decoded(f[i - 1], front[i])
                 /\ front[i].ends <=> EndsPacket(f[i - 1], front[i])
      <3>1. i \in 1 .. l /\ i - 1 \in 0 .. n /\ i \in 0 .. n
        BY <1>2
      <3> QED BY <1>3, <1>5, <1>6, <3>1 DEF Run
    <2> QED BY <2>2, <2>3 DEF Run
  <1>10. Run(rest, g, m)
    <2>1. \A i \in 0 .. m : n + i \in 0 .. l
      BY <1>2, <1>7
    <2>2. g \in [0 .. m -> Decoder]
      BY <1>3, <1>8, <2>1 DEF Run
    <2>3. ASSUME NEW i \in 1 .. m
          PROVE  /\ g[i] = Decoded(g[i - 1], rest[i])
                 /\ rest[i].ends <=> EndsPacket(g[i - 1], rest[i])
      <3>1. n + i \in 1 .. l /\ i - 1 \in 0 .. m /\ i \in 0 .. m
            /\ (n + i) - 1 = n + (i - 1)
        BY <1>2, <1>7
      <3>2. g[i] = run[n + i] /\ g[i - 1] = run[(n + i) - 1] /\ rest[i] = s[n + i]
        BY <1>5, <1>7, <1>8, <3>1
      <3> QED BY <1>3, <3>1, <3>2 DEF Run
    <2> QED BY <2>2, <2>3 DEF Run
  <1>11. f[0] = r /\ f[n] = run[n] /\ g[0] = run[n] /\ g[m] = z
    <2>1. 0 \in 0 .. n /\ n \in 0 .. n /\ 0 \in 0 .. m /\ m \in 0 .. m /\ n + 0 = n /\ n + m = l
      BY <1>2, <1>7
    <2> QED BY <1>3, <1>6, <1>8, <2>1
  <1> QED BY <1>1, <1>4, <1>5, <1>7, <1>9, <1>10, <1>11 DEF Takes

------------------------------------------------------------------------------
\* What a byte publishes: the packet, when it ends one.
LEMMA DecodedPublishes ==
    ASSUME NEW r \in Decoder, NEW b \in Byte
    PROVE  Decoded(r, b).published
             = IF EndsPacket(r, b) THEN Append(r.published, r.packet) ELSE r.published
  <1>1. CASE EndsPacket(r, b)
    BY <1>1 DEF Decoded, EndsPacket
  <1>2. CASE b.byte = FEND /\ ~ EndsPacket(r, b)
    BY <1>2 DEF Decoded
  <1>3. CASE b.byte # FEND
    BY <1>3 DEF Decoded, EndsPacket
  <1> QED BY <1>1, <1>2, <1>3 DEF EndsPacket

\* The bytes that end packets, and w is v with c packets more.
Marked(s, n) == {i \in 1 .. n : s[i].ends}

Extends(w, v, c) == /\ Len(w) = Len(v) + c
                    /\ \A i \in 1 .. Len(v) : w[i] = v[i]

\* As many packets come out as bytes end packets, behind those that are out.
LEMMA AsManyAsMarked ==
    ASSUME NEW s \in Seq(Byte), NEW r, NEW z, Takes(s, r, z)
    PROVE  /\ r \in Decoder /\ z \in Decoder
           /\ Cardinality(Marked(s, Len(s))) \in Nat
           /\ Extends(z.published, r.published, Cardinality(Marked(s, Len(s))))
  <1>1. PICK n \in Nat : n = Len(s)
    OBVIOUS
  <1>2. PICK run : Run(s, run, n) /\ run[0] = r /\ run[n] = z
    BY <1>1 DEF Takes
  <1>3. PICK S : S = {k \in 0 .. n : /\ IsFiniteSet(Marked(s, k))
                                     /\ Extends(run[k].published, r.published,
                                                Cardinality(Marked(s, k)))}
    OBVIOUS
  <1>4. \A i \in 0 .. n : run[i] \in Decoder
    BY <1>2 DEF Run
  <1>5. 0 \in S
    <2>1. Marked(s, 0) = {}
      BY DEF Marked
    <2>2. IsFiniteSet(Marked(s, 0)) /\ Cardinality(Marked(s, 0)) = 0
      BY <2>1, FS_EmptySet
    <2>3. run[0].published = r.published /\ r \in Decoder
      BY <1>2, <1>4
    <2>4. Len(r.published) \in Nat
      BY <2>3 DEF Decoder
    <2>5. Extends(r.published, r.published, 0)
      BY <2>4 DEF Extends
    <2> QED BY <1>3, <2>2, <2>3, <2>5
  <1>6. ASSUME NEW j \in 1 .. n, j - 1 \in S PROVE j \in S
    <2>1. PICK v \in Decoder, w \in Decoder : v = run[j - 1] /\ w = run[j]
      <3>1. j - 1 \in 0 .. n /\ j \in 0 .. n
        OBVIOUS
      <3> QED BY <1>4, <3>1
    <2>2. PICK b \in Byte : b = s[j]
      BY <1>1
    <2>3. w = Decoded(v, b) /\ (b.ends <=> EndsPacket(v, b))
      BY <1>2, <2>1, <2>2 DEF Run
    <2>4. PICK c \in Nat : c = Cardinality(Marked(s, j - 1)) /\ IsFiniteSet(Marked(s, j - 1))
      BY <1>3, <1>6, FS_CardinalityType
    <2>5. Extends(v.published, r.published, c)
      BY <1>3, <1>6, <2>1, <2>4
    <2>6. PICK P : P = Packet
      OBVIOUS
    <2>7. PICK before \in Seq(P), first \in Seq(P) : before = v.published /\ first = r.published
      <3>1. r \in Decoder
        BY <1>2, <1>4
      <3> QED BY <2>1, <2>6, <3>1 DEF Decoder
    <2>8. PICK packet \in P : packet = v.packet
      BY <2>1, <2>6 DEF Decoder
    <2>9. CASE b.ends
      <3>1. Marked(s, j) = Marked(s, j - 1) \cup {j} /\ j \notin Marked(s, j - 1)
        BY <2>2, <2>9 DEF Marked
      <3>2. PICK M : M = Marked(s, j - 1)
        OBVIOUS
      <3>3. IsFiniteSet(M \cup {j}) /\ Cardinality(M \cup {j}) = Cardinality(M) + 1
        BY <2>4, <3>1, <3>2, FS_AddElement
      <3>4. IsFiniteSet(Marked(s, j)) /\ Cardinality(Marked(s, j)) = c + 1
        BY <2>4, <3>1, <3>2, <3>3
      <3>5. PICK after \in Seq(P) :
               /\ after = Append(before, packet)
               /\ Len(after) = Len(before) + 1
               /\ \A i \in 1 .. Len(before) : after[i] = before[i]
        <4>1. /\ Append(before, packet) \in Seq(P)
              /\ Len(Append(before, packet)) = Len(before) + 1
              /\ \A i \in 1 .. Len(before) : Append(before, packet)[i] = before[i]
          OBVIOUS
        <4> QED BY <4>1
      <3>6. w.published = after
        BY <2>3, <2>7, <2>8, <2>9, <3>5, DecodedPublishes
      <3>7. Extends(before, first, c)
        BY <2>5, <2>7
      <3>8. Extends(after, first, c + 1)
        <4>1. Len(before) \in Nat /\ Len(first) \in Nat
          OBVIOUS
        <4> QED BY <3>5, <3>7, <4>1 DEF Extends
      <3>9. /\ IsFiniteSet(Marked(s, j))
            /\ Extends(run[j].published, r.published, Cardinality(Marked(s, j)))
        BY <2>1, <2>7, <3>4, <3>6, <3>8
      <3> QED BY <1>3, <3>9
    <2>10. CASE ~ b.ends
      <3>1. Marked(s, j) = Marked(s, j - 1)
        BY <2>2, <2>10 DEF Marked
      <3>2. w.published = v.published
        BY <2>3, <2>10, DecodedPublishes
      <3> QED BY <1>3, <2>1, <2>4, <2>5, <3>1, <3>2
    <2> QED BY <2>9, <2>10
  <1>7. \A j \in 0 .. n : j \in S
    BY <1>5, <1>6, StepByStep
  <1>8. n \in S /\ 0 \in 0 .. n /\ n \in 0 .. n
    BY <1>7
  <1> QED BY <1>1, <1>2, <1>3, <1>4, <1>8, FS_CardinalityType

------------------------------------------------------------------------------
\* What kiss_escape() has written after each byte of a.
LEMMA EscapedPrefixes ==
    ASSUME NEW n \in Nat, NEW a \in [1 .. n -> Nat]
    PROVE  \E e \in [0 .. n -> Seq(Nat)] :
              /\ e[0] = <<>>
              /\ \A k \in 1 .. n : e[k] = e[k - 1] \o Escaped(a[k])
              /\ e[n] = kiss_escape(a)
  <1> DEFINE F == [x \in Seq(Nat) \X (1 .. n) |-> x[1] \o Escaped(a[x[2]])]
             Is(f) == f = [i \in 0 .. n |-> IF i = 0 THEN <<>> ELSE f[i - 1] \o Escaped(a[i])]
  <1>1. \A x \in Nat : Escaped(x) \in Seq(Nat)
    BY DEF Escaped, FEND, FESC, TFEND, TFESC
  <1>2. Step(F, Seq(Nat), n)
    <2>1. \A q \in Seq(Nat), k \in 1 .. n : q \o Escaped(a[k]) \in Seq(Nat)
      BY <1>1
    <2> QED BY <2>1 DEF Step
  <1>3. <<>> \in Seq(Nat)
    OBVIOUS
  <1>4. PICK f \in [0 .. n -> Seq(Nat)] :
          f[0] = <<>> /\ \A i \in 1 .. n : f[i] = F[<<f[i - 1], i>>]
    <2> HIDE DEF F
    <2>1. \E f : Repeated(f, F, Seq(Nat), n, <<>>)
      BY <1>2, <1>3, Recursion, Zenon
    <2> QED BY <2>1 DEF Repeated
  <1>5. ASSUME NEW i \in 1 .. n PROVE f[i] = f[i - 1] \o Escaped(a[i])
    <2>1. i - 1 \in 0 .. n
      OBVIOUS
    <2>2. f[i - 1] \in Seq(Nat)
      BY <2>1
    <2>3. F[<<f[i - 1], i>>] = f[i - 1] \o Escaped(a[i])
      BY <2>2
    <2> HIDE DEF F
    <2> QED BY <1>4, <2>3
  <1>6. Is(f)
    <2>1. \A i \in 0 .. n : i # 0 => i \in 1 .. n
      OBVIOUS
    <2>2. \A i \in 0 .. n : f[i] = IF i = 0 THEN <<>> ELSE f[i - 1] \o Escaped(a[i])
      BY <1>4, <1>5, <2>1
    <2> HIDE DEF F
    <2> QED BY <2>2
  <1>7. Len(a) = n
    OBVIOUS
  <1>8. PICK e : e = CHOOSE g : Is(g)
    OBVIOUS
  <1>9. kiss_escape(a) = e[n]
    BY <1>7, <1>8 DEF kiss_escape
  <1>10. Is(e)
    <2> HIDE DEF Is
    <2> QED BY <1>6, <1>8
  <1>11. \A i \in 0 .. n : e[i] = IF i = 0 THEN <<>> ELSE e[i - 1] \o Escaped(a[i])
    BY <1>10
  <1>12. e[0] = <<>> /\ \A i \in 1 .. n : e[i] = e[i - 1] \o Escaped(a[i])
    <2>1. 0 \in 0 .. n /\ \A i \in 1 .. n : i \in 0 .. n /\ i # 0
      OBVIOUS
    <2> HIDE DEF Is, F
    <2>2. e[0] = <<>>
      BY <1>11, <2>1, Zenon
    <2>3. ASSUME NEW i \in 1 .. n PROVE e[i] = e[i - 1] \o Escaped(a[i])
      BY <1>11, <2>1, Zenon
    <2> QED BY <2>2, <2>3
  <1>13. \A i \in 0 .. n : e[i] \in Seq(Nat)
    <2>1. PICK S : S = {i \in 0 .. n : e[i] \in Seq(Nat)}
      OBVIOUS
    <2>2. 0 \in S
      <3>1. 0 \in 0 .. n
        OBVIOUS
      <3> HIDE DEF Is, F
      <3> QED BY <1>3, <1>12, <2>1, <3>1, Zenon
    <2>3. ASSUME NEW j \in 1 .. n, j - 1 \in S PROVE j \in S
      <3>1. PICK q \in Seq(Nat) : q = e[j - 1]
        BY <2>1, <2>3
      <3>2. PICK x \in Nat : x = a[j]
        OBVIOUS
      <3>3. e[j] = q \o Escaped(x)
        BY <1>12, <3>1, <3>2
      <3>4. q \o Escaped(x) \in Seq(Nat)
        BY <1>1
      <3>5. j \in 0 .. n
        OBVIOUS
      <3> QED BY <2>1, <3>3, <3>4, <3>5
    <2>4. \A j \in 0 .. n : j \in S
      BY <2>2, <2>3, StepByStep
    <2> QED BY <2>1, <2>4
  <1>14. e \in [0 .. n -> Seq(Nat)]
    <2>1. e = [i \in 0 .. n |-> IF i = 0 THEN <<>> ELSE e[i - 1] \o Escaped(a[i])]
      BY <1>10
    <2>2. DOMAIN e = 0 .. n /\ e = [i \in DOMAIN e |-> e[i]]
      BY <2>1
    <2> HIDE DEF Is
    <2> QED BY <1>13, <2>2
  <1> HIDE DEF Is
  <1> QED BY <1>9, <1>12, <1>14

------------------------------------------------------------------------------
\* The bytes of q, none of which ends a packet.
Unmarked(q) == [i \in 1 .. Len(q) |-> [byte |-> q[i], ends |-> FALSE]]

LEMMA HoldingIsDecoder ==
    ASSUME NEW v \in Packet, NEW out \in Seq(Packet)
    PROVE  Holding(v, out) \in Decoder
  BY DEF Holding, Decoder

LEMMA UnmarkedBytes ==
    ASSUME NEW q \in Seq(Nat)
    PROVE  Unmarked(q) \in Seq(Byte)
  <1>1. \A i \in 1 .. Len(q) : [byte |-> q[i], ends |-> FALSE] \in Byte
    BY DEF Byte
  <1>2. Len(q) \in Nat
    OBVIOUS
  <1> QED BY <1>1, <1>2 DEF Unmarked

LEMMA UnmarkedJoined ==
    ASSUME NEW q \in Seq(Nat), NEW w \in Seq(Nat)
    PROVE  Unmarked(q \o w) = Unmarked(q) \o Unmarked(w)
  <1>1. PICK both \in Seq(Nat) : both = q \o w
    <2>1. q \o w \in Seq(Nat)
      OBVIOUS
    <2> QED BY <2>1
  <1>2. PICK m \in Nat, n \in Nat : m = Len(q) /\ n = Len(w)
    OBVIOUS
  <1>3. /\ Len(both) = m + n
        /\ \A i \in 1 .. m + n : both[i] = IF i <= m THEN q[i] ELSE w[i - m]
    BY <1>1, <1>2
  <1>4. PICK f \in Seq(Byte), g \in Seq(Byte) : f = Unmarked(q) /\ g = Unmarked(w)
    BY UnmarkedBytes
  <1>5. /\ Len(f) = m /\ Len(g) = n
        /\ \A i \in 1 .. m : f[i] = [byte |-> q[i], ends |-> FALSE]
        /\ \A i \in 1 .. n : g[i] = [byte |-> w[i], ends |-> FALSE]
    BY <1>2, <1>4 DEF Unmarked
  <1>6. PICK h \in Seq(Byte) : h = f \o g
    <2>1. f \o g \in Seq(Byte)
      OBVIOUS
    <2> QED BY <2>1
  <1>7. /\ Len(h) = m + n
        /\ \A i \in 1 .. m + n : h[i] = IF i <= m THEN f[i] ELSE g[i - m]
    <2>1. /\ Len(f \o g) = Len(f) + Len(g)
          /\ \A i \in 1 .. Len(f) + Len(g) : (f \o g)[i] = IF i <= Len(f) THEN f[i] ELSE g[i - Len(f)]
      OBVIOUS
    <2> QED BY <1>5, <1>6, <2>1
  <1>8. ASSUME NEW i \in 1 .. m + n PROVE h[i] = [byte |-> both[i], ends |-> FALSE]
    <2>1. CASE i <= m
      <3>1. i \in 1 .. m
        BY <2>1
      <3> QED BY <1>3, <1>5, <1>7, <2>1, <3>1
    <2>2. CASE ~ (i <= m)
      <3>1. i - m \in 1 .. n
        BY <2>2
      <3> QED BY <1>3, <1>5, <1>7, <2>2, <3>1
    <2> QED BY <2>1, <2>2
  <1>9. h = [i \in 1 .. m + n |-> h[i]]
    BY <1>7
  <1>10. h = Unmarked(both)
    BY <1>3, <1>8, <1>9 DEF Unmarked
  <1> QED BY <1>1, <1>4, <1>6, <1>10

\* One byte.
LEMMA OneUnmarked ==
    ASSUME NEW x \in Nat, NEW b \in Byte, b = [byte |-> x, ends |-> FALSE]
    PROVE  Unmarked(<<x>>) = <<b>>
  <1>1. Len(<<x>>) = 1 /\ <<x>>[1] = x
    OBVIOUS
  <1>2. Unmarked(<<x>>) = [i \in 1 .. 1 |-> b]
    <2>1. PICK q : q = <<x>>
      OBVIOUS
    <2>2. Len(q) = 1 /\ q[1] = x
      BY <1>1, <2>1
    <2>3. Unmarked(q) = [i \in 1 .. 1 |-> [byte |-> q[i], ends |-> FALSE]]
      BY <2>2, Zenon DEF Unmarked
    <2>4. \A i \in 1 .. 1 : q[i] = x
      BY <2>2
    <2>5. b = [byte |-> x, ends |-> FALSE]
      OBVIOUS
    <2>6. Unmarked(q) = [i \in 1 .. 1 |-> b]
      BY <2>3, <2>4, <2>5
    <2> QED BY <2>1, <2>6, Zenon
  <1>3. \A c : [i \in 1 .. 1 |-> c] = <<c>>
    OBVIOUS
  <1> QED BY <1>2, <1>3

\* What a byte that is not FEND does.
LEMMA OtherByte ==
    ASSUME NEW v \in Packet, NEW out \in Seq(Packet), NEW transposed \in BOOLEAN,
           NEW x \in Nat, x # FEND
    PROVE  Takes(Unmarked(<<x>>), [packet |-> v, transpose |-> transposed, published |-> out],
                 [packet |-> v \o Unescaped(transposed, x),
                  transpose |-> TransposeAfter(transposed, x), published |-> out])
  <1>1. PICK r : r = [packet |-> v, transpose |-> transposed, published |-> out]
    OBVIOUS
  <1>2. r \in Decoder
    BY <1>1 DEF Decoder
  <1>3. PICK b \in Byte : b = [byte |-> x, ends |-> FALSE]
    BY DEF Byte
  <1>4. b.byte = x /\ ~ b.ends /\ ~ EndsPacket(r, b)
    BY <1>3 DEF EndsPacket
  <1>5. Takes(<<b>>, r, Decoded(r, b))
    BY <1>2, <1>4, ByteTakes
  <1>6. Decoded(r, b) = [packet |-> r.packet \o Unescaped(r.transpose, b.byte),
                         transpose |-> TransposeAfter(r.transpose, b.byte),
                         published |-> r.published]
    BY <1>4 DEF Decoded, EndsPacket
  <1>7. Decoded(r, b) = [packet |-> v \o Unescaped(transposed, x),
                         transpose |-> TransposeAfter(transposed, x), published |-> out]
    BY <1>1, <1>4, <1>6
  <1>8. Unmarked(<<x>>) = <<b>>
    BY <1>3, OneUnmarked
  <1> QED BY <1>1, <1>5, <1>7, <1>8

\* An escaped byte adds the byte.
LEMMA EscapedTakes ==
    ASSUME NEW v \in Packet, NEW out \in Seq(Packet), NEW x \in Nat
    PROVE  Takes(Unmarked(Escaped(x)), Holding(v, out), Holding(Append(v, x), out))
  <1>1. Append(v, x) = v \o <<x>> /\ v \o <<>> = v
    BY DEF Packet
  <1>2. PICK open : open = [packet |-> v, transpose |-> TRUE, published |-> out]
    OBVIOUS
  <1>3. Takes(Unmarked(<<FESC>>), Holding(v, out), open)
    <2>1. FESC \in Nat /\ FESC # FEND
      BY DEF FESC, FEND
    <2>2. Unescaped(FALSE, FESC) = <<>> /\ TransposeAfter(FALSE, FESC) = TRUE
      BY DEF Unescaped, TransposeAfter
    <2> QED BY <1>1, <1>2, <2>1, <2>2, OtherByte DEF Holding
  <1>4. ASSUME NEW y \in {TFEND, TFESC}, Unescaped(TRUE, y) = <<x>>
        PROVE  Takes(Unmarked(<<FESC, y>>), Holding(v, out), Holding(Append(v, x), out))
    <2>1. y \in Nat /\ y # FEND /\ FESC \in Nat
      BY DEF FESC, FEND, TFESC, TFEND
    <2>2. TransposeAfter(TRUE, y) = FALSE
      BY DEF TransposeAfter
    <2>3. Takes(Unmarked(<<y>>), open, Holding(Append(v, x), out))
      BY <1>1, <1>2, <1>4, <2>1, <2>2, OtherByte DEF Holding
    <2>4. <<FESC>> \in Seq(Nat) /\ <<y>> \in Seq(Nat) /\ <<FESC, y>> = <<FESC>> \o <<y>>
      BY <2>1
    <2>5. /\ Unmarked(<<FESC>>) \in Seq(Byte) /\ Unmarked(<<y>>) \in Seq(Byte)
          /\ Unmarked(<<FESC, y>>) = Unmarked(<<FESC>>) \o Unmarked(<<y>>)
      BY <2>4, UnmarkedBytes, UnmarkedJoined
    <2> QED BY <1>3, <2>3, <2>5, BothTake
  <1>5. CASE x = FESC
    <2>1. Escaped(x) = <<FESC, TFESC>> /\ Unescaped(TRUE, TFESC) = <<x>>
      BY <1>5 DEF Escaped, Unescaped, FESC, FEND, TFESC, TFEND
    <2> QED BY <1>4, <2>1
  <1>6. CASE x = FEND
    <2>1. Escaped(x) = <<FESC, TFEND>> /\ Unescaped(TRUE, TFEND) = <<x>>
      BY <1>6 DEF Escaped, Unescaped, FESC, FEND, TFESC, TFEND
    <2> QED BY <1>4, <2>1
  <1>7. CASE x # FESC /\ x # FEND
    <2>1. Escaped(x) = <<x>>
      BY <1>7 DEF Escaped
    <2>2. Unescaped(FALSE, x) = <<x>> /\ TransposeAfter(FALSE, x) = FALSE
      BY <1>7 DEF Unescaped, TransposeAfter
    <2>3. Takes(Unmarked(<<x>>), Holding(v, out), Holding(Append(v, x), out))
      BY <1>1, <1>7, <2>2, OtherByte DEF Holding
    <2> QED BY <2>1, <2>3
  <1> QED BY <1>5, <1>6, <1>7

\* A packet, escaped.
LEMMA EscapedPacketTakes ==
    ASSUME NEW a \in Packet, NEW out \in Seq(Packet)
    PROVE  /\ kiss_escape(a) \in Seq(Nat)
           /\ Takes(Unmarked(kiss_escape(a)), Holding(<<>>, out), Holding(a, out))
  <1>1. PICK n \in Nat : n = Len(a)
    BY DEF Packet
  <1>2. a \in [1 .. n -> Nat]
    BY <1>1 DEF Packet
  <1>3. PICK e \in [0 .. n -> Seq(Nat)] :
           /\ e[0] = <<>>
           /\ \A k \in 1 .. n : e[k] = e[k - 1] \o Escaped(a[k])
           /\ e[n] = kiss_escape(a)
    BY <1>2, EscapedPrefixes
  <1>4. \A k \in 0 .. n : SubSeq(a, 1, k) \in Packet
    BY <1>1 DEF Packet
  <1>5. PICK S : S = {k \in 0 .. n : Takes(Unmarked(e[k]), Holding(<<>>, out),
                                           Holding(SubSeq(a, 1, k), out))}
    OBVIOUS
  <1>6. 0 \in S
    <2>1. Unmarked(<<>>) = <<>>
      BY DEF Unmarked
    <2>2. SubSeq(a, 1, 0) = <<>> /\ <<>> \in Packet /\ 0 \in 0 .. n
      BY DEF Packet
    <2>3. Takes(<<>>, Holding(<<>>, out), Holding(<<>>, out))
      BY <2>2, HoldingIsDecoder, NothingTakes
    <2> QED BY <1>3, <1>5, <2>1, <2>2, <2>3
  <1>7. ASSUME NEW k \in 1 .. n, k - 1 \in S PROVE k \in S
    <2>1. PICK before \in Seq(Nat) : before = e[k - 1]
      BY <1>3
    <2>2. PICK x \in Nat : x = a[k]
      BY <1>2
    <2>3. Escaped(x) \in Seq(Nat)
      BY DEF Escaped, FEND, FESC, TFEND, TFESC
    <2>4. e[k] = before \o Escaped(x)
      BY <1>3, <2>1, <2>2
    <2>5. PICK v \in Packet : v = SubSeq(a, 1, k - 1)
      <3>1. k - 1 \in 0 .. n
        OBVIOUS
      <3>2. SubSeq(a, 1, k - 1) \in Packet
        BY <1>4, <3>1
      <3> QED BY <3>2
    <2>6. Append(v, x) = SubSeq(a, 1, k)
      <3>1. PICK w : w = SubSeq(a, 1, k)
        OBVIOUS
      <3>2. /\ v \in Seq(Nat) /\ Len(v) = k - 1
            /\ \A i \in 1 .. k - 1 : v[i] = a[i]
            /\ w \in Seq(Nat) /\ Len(w) = k
            /\ \A i \in 1 .. k : w[i] = a[i]
        BY <1>1, <1>4, <2>5, <3>1 DEF Packet
      <3>3. PICK u : u = Append(v, x)
        OBVIOUS
      <3>4. u \in Seq(Nat) /\ Len(u) = k /\ \A i \in 1 .. k : u[i] = a[i]
        BY <2>2, <3>2, <3>3
      <3>5. Len(u) = Len(w) /\ \A i \in 1 .. Len(u) : u[i] = w[i]
        BY <3>2, <3>4, ZenonT(20)
      <3>6. u = w
        BY <3>2, <3>4, <3>5, SameElements, ZenonT(20)
      <3> QED BY <3>1, <3>3, <3>6
    <2>7. Takes(Unmarked(before), Holding(<<>>, out), Holding(v, out))
      BY <1>5, <1>7, <2>1, <2>5
    <2>8. Takes(Unmarked(Escaped(x)), Holding(v, out), Holding(Append(v, x), out))
      BY EscapedTakes
    <2>9. Takes(Unmarked(before) \o Unmarked(Escaped(x)), Holding(<<>>, out),
                Holding(Append(v, x), out))
      BY <2>3, <2>7, <2>8, UnmarkedBytes, BothTake
    <2>10. k \in 0 .. n
      OBVIOUS
    <2> QED BY <1>5, <2>3, <2>4, <2>6, <2>9, <2>10, UnmarkedJoined
  <1>8. \A k \in 0 .. n : k \in S
    BY <1>6, <1>7, StepByStep
  <1>9. n \in S /\ SubSeq(a, 1, n) = a /\ e[n] \in Seq(Nat)
    <2>1. n \in 0 .. n
      OBVIOUS
    <2>2. SubSeq(a, 1, n) = a
      BY <1>1, <1>2 DEF Packet
    <2> QED BY <1>8, <2>1, <2>2
  <1> QED BY <1>3, <1>5, <1>9

\* The FEND between packets that are not the end of one does nothing.
LEMMA OpeningTakes ==
    ASSUME NEW out \in Seq(Packet), NEW opening \in {<<>>, <<FEND>>}
    PROVE  /\ opening \in Seq(Nat)
           /\ Takes(Unmarked(opening), Holding(<<>>, out), Holding(<<>>, out))
  <1>1. PICK r \in Decoder : r = Holding(<<>>, out)
    <2>1. <<>> \in Packet
      BY DEF Packet
    <2> QED BY <2>1, HoldingIsDecoder
  <1>2. CASE opening = <<>>
    <2>1. Unmarked(<<>>) = <<>>
      BY DEF Unmarked
    <2> QED BY <1>1, <1>2, <2>1, NothingTakes
  <1>3. CASE opening = <<FEND>>
    <2>1. FEND \in Nat
      BY DEF FEND
    <2>2. PICK b \in Byte : b = [byte |-> FEND, ends |-> FALSE]
      BY <2>1 DEF Byte
    <2>3. b.byte = FEND /\ ~ b.ends /\ ~ EndsPacket(r, b)
      BY <1>1, <2>2 DEF EndsPacket, Holding
    <2>4. Decoded(r, b) = r
      BY <2>3 DEF Decoded
    <2>5. Takes(<<b>>, r, r)
      BY <2>3, <2>4, ByteTakes
    <2>6. Unmarked(<<FEND>>) = <<b>>
      BY <2>1, <2>2, OneUnmarked
    <2> QED BY <1>1, <1>3, <2>1, <2>5, <2>6
  <1> QED BY <1>2, <1>3

\* A packet as it is sent adds the packet to what is out.
LEMMA FrameTakes ==
    ASSUME NEW a \in Packet, a # <<>>, NEW out \in Seq(Packet),
           NEW opening \in {<<>>, <<FEND>>}
    PROVE  /\ KissFrame(a, opening) \in Seq(Byte)
           /\ Takes(KissFrame(a, opening), Holding(<<>>, out), Holding(<<>>, Append(out, a)))
  <1>1. PICK escaped \in Seq(Nat) :
           /\ escaped = kiss_escape(a)
           /\ Takes(Unmarked(escaped), Holding(<<>>, out), Holding(a, out))
    BY EscapedPacketTakes
  <1>2. PICK sent \in Seq(Nat) : sent = opening \o escaped
    <2>1. opening \in Seq(Nat)
      BY OpeningTakes
    <2>2. opening \o escaped \in Seq(Nat)
      BY <2>1
    <2> QED BY <2>2
  <1>3. Takes(Unmarked(sent), Holding(<<>>, out), Holding(a, out))
    <2>1. /\ opening \in Seq(Nat)
          /\ Takes(Unmarked(opening), Holding(<<>>, out), Holding(<<>>, out))
      BY OpeningTakes
    <2> QED BY <1>1, <1>2, <2>1, UnmarkedBytes, UnmarkedJoined, BothTake
  <1>4. PICK b \in Byte : b = [byte |-> FEND, ends |-> TRUE]
    BY DEF Byte, FEND
  <1>5. PICK r \in Decoder : r = Holding(a, out)
    BY HoldingIsDecoder
  <1>6. r.packet = a /\ r.transpose = FALSE /\ r.published = out
    BY <1>5 DEF Holding
  <1>7. b.byte = FEND /\ b.ends /\ EndsPacket(r, b)
    BY <1>4, <1>6 DEF EndsPacket
  <1>8. Decoded(r, b) = Holding(<<>>, Append(out, a))
    <2>1. Decoded(r, b) = [packet |-> <<>>, transpose |-> r.transpose,
                           published |-> Append(r.published, r.packet)]
      BY <1>7 DEF Decoded, EndsPacket
    <2> QED BY <1>6, <2>1 DEF Holding
  <1>9. Takes(<<b>>, Holding(a, out), Holding(<<>>, Append(out, a)))
    BY <1>5, <1>7, <1>8, ByteTakes
  <1>10. <<b>> \in Seq(Byte) /\ Unmarked(sent) \in Seq(Byte)
    BY UnmarkedBytes
  <1>11. KissFrame(a, opening) = Unmarked(sent) \o <<b>>
    <2>1. DOMAIN sent = 1 .. Len(sent)
      OBVIOUS
    <2> QED BY <1>1, <1>2, <1>4, <2>1 DEF KissFrame, Unmarked
  <1>12. Unmarked(sent) \o <<b>> \in Seq(Byte)
    BY <1>10
  <1> QED BY <1>3, <1>9, <1>10, <1>11, <1>12, BothTake

------------------------------------------------------------------------------
\* The handler as long as the list is that of the virtual channel, and when a packet
\* has just come out.
Tracking(y) == [packet |-> y.packet, same_list |-> TRUE,
                transpose |-> y.transpose, published |-> y.published]

Ended(y) == [packet |-> y.packet, same_list |-> FALSE,
             transpose |-> y.transpose, published |-> Append(y.published, y.packet)]

\* Until a packet comes out the handler does what a decoder should.
LEMMA ByteTracked ==
    ASSUME NEW y \in Decoder, NEW b \in Byte, ~ EndsPacket(y, b)
    PROVE  ByteHandled(Tracking(y), b) = Tracking(Decoded(y, b))
  <1>1. PICK h : h = Tracking(y)
    OBVIOUS
  <1>2. h = [packet |-> y.packet, same_list |-> TRUE, transpose |-> y.transpose,
             published |-> y.published]
    BY <1>1 DEF Tracking
  <1>3. /\ h.packet = y.packet /\ h.same_list = TRUE
        /\ h.transpose = y.transpose /\ h.published = y.published
    BY <1>2
  <1>4. CASE b.byte = FEND
    <2>1. y.packet = <<>>
      BY <1>4 DEF EndsPacket
    <2>2. ByteHandled(h, b) = h
      BY <1>3, <1>4, <2>1 DEF ByteHandled
    <2>3. Decoded(y, b) = y
      BY <1>4, <2>1 DEF Decoded, EndsPacket
    <2> QED BY <1>1, <2>2, <2>3
  <1>5. CASE b.byte # FEND
    <2>1. ByteHandled(h, b) = [h EXCEPT !.packet = @ \o Unescaped(h.transpose, b.byte),
                                        !.transpose = TransposeAfter(h.transpose, b.byte)]
      BY <1>5 DEF ByteHandled
    <2>2. PICK packet, transposed :
             /\ packet = y.packet \o Unescaped(y.transpose, b.byte)
             /\ transposed = TransposeAfter(y.transpose, b.byte)
      OBVIOUS
    <2>3. ByteHandled(h, b) = [h EXCEPT !.packet = packet, !.transpose = transposed]
      BY <1>3, <2>1, <2>2
    <2>4. ByteHandled(h, b) = [packet |-> packet, same_list |-> TRUE,
                               transpose |-> transposed, published |-> y.published]
      BY <1>2, <2>3
    <2>5. Decoded(y, b) = [packet |-> packet, transpose |-> transposed,
                           published |-> y.published]
      BY <1>5, <2>2 DEF Decoded, EndsPacket
    <2> QED BY <1>1, <2>4, <2>5 DEF Tracking
  <1> QED BY <1>4, <1>5

\* The byte that ends a packet.
LEMMA ByteEnds ==
    ASSUME NEW y \in Decoder, NEW b \in Byte, EndsPacket(y, b)
    PROVE  /\ ByteHandled(Tracking(y), b) = Ended(y)
           /\ Decoded(y, b) = [packet |-> <<>>, transpose |-> y.transpose,
                               published |-> Append(y.published, y.packet)]
  <1>1. PICK h : h = Tracking(y)
    OBVIOUS
  <1>2. h = [packet |-> y.packet, same_list |-> TRUE, transpose |-> y.transpose,
             published |-> y.published]
    BY <1>1 DEF Tracking
  <1>3. h.packet = y.packet /\ h.published = y.published
    BY <1>2
  <1>4. b.byte = FEND /\ y.packet # <<>>
    BY DEF EndsPacket
  <1>5. ByteHandled(h, b) = [h EXCEPT !.published = Append(@, h.packet), !.same_list = FALSE]
    BY <1>3, <1>4 DEF ByteHandled
  <1>6. PICK out : out = Append(y.published, y.packet)
    OBVIOUS
  <1>7. ByteHandled(h, b) = [h EXCEPT !.published = out, !.same_list = FALSE]
    BY <1>3, <1>5, <1>6
  <1>8. ByteHandled(h, b) = [packet |-> y.packet, same_list |-> FALSE,
                             transpose |-> y.transpose, published |-> out]
    BY <1>2, <1>7
  <1>9. Decoded(y, b) = [packet |-> <<>>, transpose |-> y.transpose, published |-> out]
    BY <1>4, <1>6 DEF Decoded, EndsPacket
  <1> QED BY <1>1, <1>6, <1>8, <1>9 DEF Ended

\* When no byte but the last one ends a packet, handle_msg() leaves what a decoder should.
LEMMA HandlerAgrees ==
    ASSUME NEW s \in Seq(Byte), NEW r, NEW y, Takes(s, r, y),
           \A i \in 1 .. Len(s) - 1 : ~ s[i].ends
    PROVE  LET h == handled(Tracking(r), s)[Len(s)]
           IN  Stored(h) = y.packet /\ h.transpose = y.transpose /\ h.published = y.published
  <1>1. PICK n \in Nat : n = Len(s)
    OBVIOUS
  <1>2. PICK run : Run(s, run, n) /\ run[0] = r /\ run[n] = y
    BY <1>1 DEF Takes
  <1>3. \A i \in 0 .. n : run[i] \in Decoder
    BY <1>2 DEF Run
  <1> DEFINE After(i) == IF i # 0 /\ s[i].ends THEN Ended(run[i - 1]) ELSE Tracking(run[i])
             Is(f) == f = [i \in 0 .. n |-> IF i = 0 THEN Tracking(r)
                                            ELSE ByteHandled(f[i - 1], s[i])]
  <1>4. After(0) = Tracking(r)
    BY <1>2
  <1>5. ASSUME NEW i \in 1 .. n PROVE After(i) = ByteHandled(After(i - 1), s[i])
    <2>1. PICK v \in Decoder, w \in Decoder : v = run[i - 1] /\ w = run[i]
      <3>1. i - 1 \in 0 .. n /\ i \in 0 .. n
        OBVIOUS
      <3> QED BY <1>3, <3>1
    <2>2. PICK b \in Byte : b = s[i]
      BY <1>1
    <2>3. w = Decoded(v, b) /\ (b.ends <=> EndsPacket(v, b))
      BY <1>2, <2>1, <2>2 DEF Run
    <2>4. After(i - 1) = Tracking(v)
      <3>1. CASE i - 1 = 0
        BY <2>1, <3>1
      <3>2. CASE i - 1 # 0
        <4>1. i - 1 \in 1 .. Len(s) - 1
          BY <1>1, <3>2
        <4> QED BY <2>1, <4>1
      <3> QED BY <3>1, <3>2
    <2>5. i # 0
      OBVIOUS
    <2>6. After(i) = IF b.ends THEN Ended(v) ELSE Tracking(w)
      BY <2>1, <2>2, <2>5
    <2> HIDE DEF After
    <2>7. CASE b.ends
      BY <2>2, <2>3, <2>4, <2>6, <2>7, ByteEnds
    <2>8. CASE ~ b.ends
      BY <2>2, <2>3, <2>4, <2>6, <2>8, ByteTracked
    <2> QED BY <2>7, <2>8
  <1> HIDE DEF After
  <1>6. PICK f : f = [i \in 0 .. n |-> After(i)]
    OBVIOUS
  <1>7. Is(f)
    <2>1. ASSUME NEW i \in 0 .. n
          PROVE  After(i) = IF i = 0 THEN Tracking(r) ELSE ByteHandled(f[i - 1], s[i])
      <3>1. CASE i = 0
        BY <1>4, <3>1
      <3>2. CASE i # 0
        <4>1. i \in 1 .. n /\ i - 1 \in 0 .. n
          BY <3>2
        <4>2. f[i - 1] = After(i - 1)
          BY <1>6, <4>1
        <4> QED BY <1>5, <3>2, <4>1, <4>2
      <3> QED BY <3>1, <3>2
    <2> QED BY <1>6, <2>1
  <1>8. PICK e : e = handled(Tracking(r), s)
    OBVIOUS
  <1>9. e = CHOOSE g : Is(g)
    BY <1>1, <1>8 DEF handled
  <1>10. Is(e)
    <2> HIDE DEF Is
    <2> QED BY <1>7, <1>9
  <1>11. \A i \in 0 .. n : e[i] = IF i = 0 THEN Tracking(r) ELSE ByteHandled(e[i - 1], s[i])
    BY <1>10
  <1> HIDE DEF Is
  <1>12. \A i \in 0 .. n : e[i] = After(i)
    <2>1. PICK S : S = {i \in 0 .. n : e[i] = After(i)}
      OBVIOUS
    <2>2. 0 \in S
      <3>1. 0 \in 0 .. n
        OBVIOUS
      <3> QED BY <1>4, <1>11, <2>1, <3>1, Zenon
    <2>3. ASSUME NEW j \in 1 .. n, j - 1 \in S PROVE j \in S
      <3>1. j \in 0 .. n /\ j # 0
        OBVIOUS
      <3>2. e[j] = ByteHandled(e[j - 1], s[j])
        BY <1>11, <3>1, Zenon
      <3>3. e[j - 1] = After(j - 1)
        BY <2>1, <2>3, Zenon
      <3>4. e[j] = After(j)
        BY <1>5, <3>2, <3>3, Zenon
      <3> QED BY <2>1, <3>1, <3>4, Zenon
    <2>4. \A j \in 0 .. n : j \in S
      BY <2>2, <2>3, StepByStep
    <2> QED BY <2>1, <2>4
  <1>13. PICK h : h = e[n]
    OBVIOUS
  <1>14. n \in 0 .. n /\ h = After(n)
    BY <1>12, <1>13
  <1>15. Stored(h) = y.packet /\ h.transpose = y.transpose /\ h.published = y.published
    <2>1. CASE n # 0 /\ s[n].ends
      <3>1. PICK v \in Decoder : v = run[n - 1]
        <4>1. n - 1 \in 0 .. n
          BY <2>1
        <4> QED BY <1>3, <4>1
      <3>2. PICK b \in Byte : b = s[n]
        BY <1>1, <2>1
      <3>3. y = Decoded(v, b) /\ EndsPacket(v, b)
        <4>1. n \in 1 .. n
          BY <2>1
        <4> QED BY <1>2, <2>1, <3>1, <3>2, <4>1 DEF Run
      <3>4. h = Ended(v)
        BY <1>14, <2>1, <3>1 DEF After
      <3>5. y = [packet |-> <<>>, transpose |-> v.transpose,
                 published |-> Append(v.published, v.packet)]
        BY <3>3, ByteEnds
      <3> QED BY <3>4, <3>5 DEF Ended, Stored
    <2>2. CASE ~ (n # 0 /\ s[n].ends)
      <3>1. h = Tracking(y)
        BY <1>2, <1>14, <2>2 DEF After
      <3> QED BY <3>1 DEF Tracking, Stored
    <2> QED BY <2>1, <2>2
  <1> QED BY <1>1, <1>8, <1>13, <1>15

\* A TM frame: the rest of the stream takes what handle_msg() leaves to the same end.
LEMMA RestTakes ==
    ASSUME NEW q \in Seq(Byte), NEW r, NEW z, Takes(q, r, z), NEW n \in 1 .. Len(q),
           \A i \in 1 .. n - 1 : ~ SubSeq(q, 1, n)[i].ends
    PROVE  LET h == handled(Tracking(r), SubSeq(q, 1, n))[Len(SubSeq(q, 1, n))]
           IN  Takes(SubSeq(q, n + 1, Len(q)),
                     [packet |-> Stored(h), transpose |-> h.transpose,
                      published |-> h.published], z)
  <1>1. PICK front \in Seq(Byte), rest \in Seq(Byte) :
           front = SubSeq(q, 1, n) /\ rest = SubSeq(q, n + 1, Len(q))
    <2>1. SubSeq(q, 1, n) \in Seq(Byte) /\ SubSeq(q, n + 1, Len(q)) \in Seq(Byte)
      OBVIOUS
    <2> QED BY <2>1
  <1>2. Len(front) = n /\ n \in 0 .. Len(q)
    BY <1>1
  <1>3. PICK y : Takes(front, r, y) /\ Takes(rest, y, z)
    BY <1>1, <1>2, PartTakes
  <1>4. y \in Decoder
    BY <1>3, AsManyAsMarked
  <1>5. PICK h : h = handled(Tracking(r), front)[Len(front)]
    OBVIOUS
  <1>6. Stored(h) = y.packet /\ h.transpose = y.transpose /\ h.published = y.published
    <2>1. \A i \in 1 .. Len(front) - 1 : ~ front[i].ends
      BY <1>1, <1>2
    <2> QED BY <1>3, <1>5, <2>1, HandlerAgrees, Zenon
  <1>7. y = [packet |-> Stored(h), transpose |-> h.transpose, published |-> h.published]
    BY <1>4, <1>6 DEF Decoder
  <1> QED BY <1>1, <1>3, <1>5, <1>7

------------------------------------------------------------------------------
\* What the decoders keep true: a decoder that begins a new list after each packet
\* would make of the bytes still to be sent of a delimited virtual channel all the
\* packets that were written and are not out, and nothing else.
DecoderOf(vc) == [packet |-> packets[vc], transpose |-> transpose[vc],
                  published |-> published[vc]]

Streams == /\ packets = [vc \in VirtualChannels |-> packets[vc]]
           /\ transpose = [vc \in VirtualChannels |-> transpose[vc]]
           /\ published = [vc \in Channels |-> published[vc]]
           /\ encapsulated \in [Channels -> Seq(Packet)]
           /\ stream \in [Channels -> Seq(Byte)]

StreamTakes(vc) == Takes(stream[vc], DecoderOf(vc), Holding(<<>>, encapsulated[vc]))

RestDecodes == Streams /\ \A vc \in VirtualChannels \cap delimited : StreamTakes(vc)

LEMMA InitiallyDecodes == Init => RestDecodes
  <1> SUFFICES ASSUME Init PROVE RestDecodes
    OBVIOUS
  <1>1. Streams
    <2>1. <<>> \in Seq(Packet) /\ <<>> \in Seq(Byte)
      OBVIOUS
    <2> QED BY <2>1 DEF Init, Streams
  <1>2. ASSUME NEW vc \in VirtualChannels PROVE StreamTakes(vc)
    <2>1. vc \in Channels
      BY DEF Channels
    <2>2. stream[vc] = <<>> /\ encapsulated[vc] = <<>> /\ DecoderOf(vc) = Holding(<<>>, <<>>)
      BY <2>1 DEF Init, DecoderOf, Holding
    <2>3. <<>> \in Packet /\ <<>> \in Seq(Packet)
      BY DEF Packet
    <2> QED BY <2>2, <2>3, HoldingIsDecoder, NothingTakes DEF StreamTakes
  <1> QED BY <1>1, <1>2 DEF RestDecodes

LEMMA EncapsulateDecodes ==
    ASSUME RestDecodes, NEW vc \in Channels, NEW packet \in Packets,
           NEW opening \in {<<>>, <<FEND>>}, Encapsulate(vc, packet, opening)
    PROVE  RestDecodes'
  <1>1. packet \in Packet /\ packet # <<>>
    BY PacketsAssumption DEF Packet
  <1>2. PICK written \in Seq(Packet), q \in Seq(Byte) :
           written = encapsulated[vc] /\ q = stream[vc]
    BY DEF RestDecodes, Streams
  <1>3. PICK frame \in Seq(Byte) :
           /\ frame = KissFrame(packet, opening)
           /\ Takes(frame, Holding(<<>>, written), Holding(<<>>, Append(written, packet)))
    BY <1>1, FrameTakes
  <1>4. PICK longer \in Seq(Byte) : longer = q \o frame
    <2>1. q \o frame \in Seq(Byte)
      OBVIOUS
    <2> QED BY <2>1
  <1>5. PICK P : P = Packet
    OBVIOUS
  <1>6. PICK more \in Seq(P) : more = Append(written, packet)
    <2>1. Append(written, packet) \in Seq(P)
      BY <1>1, <1>5
    <2> QED BY <2>1
  <1>7. /\ encapsulated' = [encapsulated EXCEPT ![vc] = more]
        /\ stream' = [stream EXCEPT ![vc] = longer]
        /\ UNCHANGED <<packets, transpose, delimited, published>>
    BY <1>2, <1>3, <1>4, <1>6 DEF Encapsulate
  <1>8. Streams'
    BY <1>5, <1>7 DEF RestDecodes, Streams
  <1>9. ASSUME NEW c \in VirtualChannels \cap delimited PROVE StreamTakes(c)'
    <2>1. c \in Channels /\ DecoderOf(c)' = DecoderOf(c) /\ StreamTakes(c)
      BY <1>7 DEF Channels, DecoderOf, RestDecodes
    <2>2. CASE c = vc
      <3>1. stream'[c] = longer /\ encapsulated'[c] = more
        BY <1>7, <2>2 DEF RestDecodes, Streams
      <3>2. Takes(q, DecoderOf(c), Holding(<<>>, written))
        BY <1>2, <2>1, <2>2 DEF StreamTakes
      <3>3. Takes(longer, DecoderOf(c), Holding(<<>>, more))
        BY <1>3, <1>4, <1>6, <3>2, BothTake
      <3> QED BY <2>1, <3>1, <3>3 DEF StreamTakes
    <2>3. CASE c # vc
      <3>1. stream'[c] = stream[c] /\ encapsulated'[c] = encapsulated[c]
        BY <1>7, <2>1, <2>3 DEF RestDecodes, Streams
      <3> QED BY <2>1, <3>1 DEF StreamTakes
    <2> QED BY <2>2, <2>3
  <1> QED BY <1>7, <1>8, <1>9 DEF RestDecodes

LEMMA TmFrameDecodes ==
    ASSUME RestDecodes, NEW vc \in Channels, NEW n \in 1 .. Len(stream[vc]), TmFrame(vc, n)
    PROVE  RestDecodes'
  <1>1. PICK q \in Seq(Byte) : q = stream[vc]
    BY DEF RestDecodes, Streams
  <1>2. PICK front, rest \in Seq(Byte) :
           front = SubSeq(q, 1, n) /\ rest = SubSeq(q, n + 1, Len(q))
    <2>1. SubSeq(q, 1, n) \in Seq(Byte) /\ SubSeq(q, n + 1, Len(q)) \in Seq(Byte)
      BY <1>1
    <2> QED BY <2>1
  <1>3. stream' = [stream EXCEPT ![vc] = rest] /\ encapsulated' = encapsulated
    BY <1>1, <1>2 DEF TmFrame
  <1>4. PICK h : h = handled([packet |-> packets[vc], same_list |-> TRUE,
                              transpose |-> transpose[vc], published |-> published[vc]],
                             front)[Len(front)]
    OBVIOUS
  <1>5. IF vc \in VirtualChannels
        THEN /\ packets' = [packets EXCEPT ![vc] = Stored(h)]
             /\ transpose' = [transpose EXCEPT ![vc] = h.transpose]
             /\ published' = [published EXCEPT ![vc] = h.published]
        ELSE UNCHANGED <<packets, transpose, published>>
    BY <1>1, <1>2, <1>4 DEF TmFrame, handle_msg
  <1>6. Streams'
    <2>1. /\ encapsulated' \in [Channels -> Seq(Packet)]
          /\ stream' \in [Channels -> Seq(Byte)]
      BY <1>3 DEF RestDecodes, Streams
    <2>2. CASE vc \in VirtualChannels
      <3>1. packets' = [c \in VirtualChannels |-> packets'[c]]
        BY <1>5, <2>2 DEF RestDecodes, Streams
      <3>2. transpose' = [c \in VirtualChannels |-> transpose'[c]]
        BY <1>5, <2>2 DEF RestDecodes, Streams
      <3>3. published' = [c \in Channels |-> published'[c]]
        BY <1>5, <2>2 DEF RestDecodes, Streams
      <3> QED BY <2>1, <3>1, <3>2, <3>3 DEF Streams
    <2>3. CASE vc \notin VirtualChannels
      BY <1>5, <2>1, <2>3 DEF RestDecodes, Streams
    <2> QED BY <2>2, <2>3
  <1>7. /\ delimited' \subseteq delimited
        /\ vc \in delimited' => \A i \in 1 .. n - 1 : ~ front[i].ends
    BY <1>1, <1>2 DEF TmFrame
  <1>8. ASSUME NEW c \in VirtualChannels \cap delimited' PROVE StreamTakes(c)'
    <2>1. c \in Channels /\ StreamTakes(c)
      BY <1>7 DEF Channels, RestDecodes
    <2>2. CASE c = vc
      <3>1. stream'[c] = rest /\ encapsulated'[c] = encapsulated[c]
        BY <1>3, <2>2 DEF RestDecodes, Streams
      <3>2. DecoderOf(c)' = [packet |-> Stored(h), transpose |-> h.transpose,
                             published |-> h.published]
        <4>1. packets'[c] = Stored(h)
          BY <1>5, <2>2 DEF RestDecodes, Streams
        <4>2. transpose'[c] = h.transpose
          BY <1>5, <2>2 DEF RestDecodes, Streams
        <4>3. published'[c] = h.published
          BY <1>5, <2>1, <2>2 DEF RestDecodes, Streams
        <4> QED BY <4>1, <4>2, <4>3 DEF DecoderOf
      <3>3. PICK r, z : r = DecoderOf(c) /\ z = Holding(<<>>, encapsulated[c])
        OBVIOUS
      <3>4. Takes(q, r, z) /\ n \in 1 .. Len(q) /\ \A i \in 1 .. n - 1 : ~ SubSeq(q, 1, n)[i].ends
        BY <1>1, <1>2, <1>7, <2>1, <2>2, <3>3 DEF StreamTakes
      <3>5. h = handled(Tracking(r), front)[Len(front)]
        BY <1>4, <2>2, <3>3 DEF Tracking, DecoderOf
      <3>6. Takes(rest, [packet |-> Stored(h), transpose |-> h.transpose,
                         published |-> h.published], z)
        BY <1>2, <3>4, <3>5, RestTakes
      <3> QED BY <3>1, <3>2, <3>3, <3>6 DEF StreamTakes
    <2>3. CASE c # vc
      <3>1. stream'[c] = stream[c] /\ encapsulated'[c] = encapsulated[c]
        BY <1>3, <2>1, <2>3 DEF RestDecodes, Streams
      <3>2. packets'[c] = packets[c] /\ transpose'[c] = transpose[c] /\ published'[c] = published[c]
        BY <1>5, <2>1, <2>3 DEF RestDecodes, Streams
      <3>3. DecoderOf(c)' = DecoderOf(c)
        BY <3>2 DEF DecoderOf
      <3> QED BY <2>1, <3>1, <3>3 DEF StreamTakes
    <2> QED BY <2>2, <2>3
  <1> QED BY <1>6, <1>8 DEF RestDecodes

LEMMA StepDecodes == RestDecodes /\ [Next]_vars => RestDecodes'
  <1> SUFFICES ASSUME RestDecodes, [Next]_vars PROVE RestDecodes'
    OBVIOUS
  <1>1. CASE UNCHANGED vars
    BY <1>1 DEF vars, RestDecodes, Streams, StreamTakes, DecoderOf
  <1>2. CASE Next
    <2>1. PICK vc \in Channels :
             \/ \E packet \in Packets, opening \in {<<>>, <<FEND>>} :
                   Encapsulate(vc, packet, opening)
             \/ \E n \in 1 .. Len(stream[vc]) : TmFrame(vc, n)
      BY <1>2 DEF Next
    <2> QED BY <2>1, EncapsulateDecodes, TmFrameDecodes
  <1> QED BY <1>1, <1>2

LEMMA DecodedArrives == RestDecodes => DelimitedExtracted
  <1> SUFFICES ASSUME RestDecodes, NEW vc \in VirtualChannels \cap delimited
               PROVE  published[vc] = Arrived(vc)
    BY DEF DelimitedExtracted
  <1>1. vc \in Channels /\ StreamTakes(vc)
    BY DEF RestDecodes, Channels
  <1>2. PICK P : P = Packet
    OBVIOUS
  <1>3. PICK written \in Seq(P), q \in Seq(Byte) : written = encapsulated[vc] /\ q = stream[vc]
    BY <1>1, <1>2 DEF RestDecodes, Streams
  <1>4. PICK r, z : r = DecoderOf(vc) /\ z = Holding(<<>>, written) /\ Takes(q, r, z)
    BY <1>1, <1>3 DEF StreamTakes
  <1>5. r.published = published[vc] /\ z.published = written
    BY <1>4 DEF DecoderOf, Holding
  <1>6. PICK out \in Seq(P) : out = published[vc]
    BY <1>2, <1>4, <1>5, AsManyAsMarked DEF Decoder
  <1>7. PICK c \in Nat : c = Cardinality(Marked(q, Len(q))) /\ Extends(written, out, c)
    BY <1>4, <1>5, <1>6, AsManyAsMarked
  <1>8. Arrived(vc) = SubSeq(written, 1, Len(written) - c)
    <2>1. DOMAIN q = 1 .. Len(q)
      OBVIOUS
    <2> QED BY <1>3, <1>7, <2>1 DEF Arrived, Marked
  <1>9. SubSeq(written, 1, Len(written) - c) = out
    <2>1. /\ Len(written) = Len(out) + c /\ Len(out) \in Nat
          /\ \A i \in 1 .. Len(out) : written[i] = out[i]
      BY <1>7 DEF Extends
    <2>2. PICK first \in Seq(P) : first = SubSeq(written, 1, Len(out))
      <3>1. SubSeq(written, 1, Len(out)) \in Seq(P)
        BY <2>1
      <3> QED BY <3>1
    <2>3. Len(first) = Len(out) /\ \A i \in 1 .. Len(out) : first[i] = out[i]
      BY <2>1, <2>2
    <2>4. first = out
      BY <2>3
    <2>5. Len(written) - c = Len(out)
      BY <2>1
    <2> QED BY <2>2, <2>4, <2>5
  <1> QED BY <1>6, <1>8, <1>9

\* A decoder and the bytes of its virtual channel that are still to be sent always make
\* the packets written (TmKissTransport.handle_msg()).
THEOREM StreamsDecode == Spec => []RestDecodes
  BY InitiallyDecodes, StepDecodes, PTL DEF Spec

\* Of a virtual channel whose packets end at the end of a TM frame, exactly the packets
\* that have arrived are out, whatever bytes they hold and wherever TM frames cut them
\* (TmKissTransport.handle_msg()).
THEOREM DelimitedStreamsExtracted == Spec => []DelimitedExtracted
  BY StreamsDecode, DecodedArrives, PTL

------------------------------------------------------------------------------
\* LilacSat-1: the lengths are natural numbers, and the frame and codec2 share the chunks.
LEMMA Lengths ==
    /\ d_bits_per_byte \in Nat \ {0}
    /\ d_codec2_frame_len \in Nat \ {0}
    /\ d_chunk_len \in Nat \ {0}
    /\ d_header_len \in Nat
    /\ Chunks \in Nat \ {0}
    /\ frame_part \in Nat
    /\ frame_part + d_codec2_frame_len = d_chunk_len
    /\ d_header_len <= frame_part
BY DemuxAssumption DEF frame_part

\* Where position p is: the chunk, the byte in it, the bit of the byte.
Place(p, c, i, b) ==
    /\ c \in Nat /\ i \in 0 .. d_chunk_len - 1 /\ b \in 0 .. d_bits_per_byte - 1
    /\ d_chunk_len * c + i - d_header_len \in Nat
    /\ p = d_bits_per_byte * (d_chunk_len * c + i - d_header_len) + b

\* Each position is somewhere.
LEMMA PlaceExists ==
    ASSUME NEW p \in Nat PROVE \E c, i, b : Place(p, c, i, b)
<1>1. PICK y \in Nat, b \in 0 .. d_bits_per_byte - 1 :
        p = d_bits_per_byte * y + b /\ p \div d_bits_per_byte = y /\ p % d_bits_per_byte = b
  BY Lengths, Division, Zenon
<1>2. y + d_header_len \in Nat
  BY Lengths
<1>3. PICK c \in Nat, i \in 0 .. d_chunk_len - 1 :
        /\ y + d_header_len = d_chunk_len * c + i
        /\ (y + d_header_len) \div d_chunk_len = c
        /\ (y + d_header_len) % d_chunk_len = i
  BY <1>2, Lengths, Division, Zenon
<1>4. PICK z \in Int : z = d_chunk_len * c
  BY Lengths
<1>5. d_chunk_len * c + i - d_header_len = y
  BY <1>3, <1>4, Lengths
<1> QED BY <1>1, <1>5 DEF Place

\* What the block computes from a position is where it is.
LEMMA PlaceIs ==
    ASSUME NEW p, NEW c, NEW i, NEW b, Place(p, c, i, b)
    PROVE  /\ base(p) = d_chunk_len * c + i
           /\ base(p) \div d_chunk_len = c
           /\ idx(p) = i
           /\ p % d_bits_per_byte = b
<1>1. PICK y \in Nat : y = d_chunk_len * c + i - d_header_len
  BY DEF Place
<1>2. c \in Nat /\ i \in 0 .. d_chunk_len - 1 /\ b \in 0 .. d_bits_per_byte - 1
  BY DEF Place
<1>3. p = d_bits_per_byte * y + b
  BY <1>1 DEF Place
<1>4. p % d_bits_per_byte = b /\ p \div d_bits_per_byte = y
  <2>1. y \in Int
    OBVIOUS
  <2> QED BY <1>2, <1>3, <2>1, Lengths, Quotient, Zenon
<1>5. PICK z \in Int : z = d_chunk_len * c
  BY <1>2, Lengths
<1>6. base(p) = d_chunk_len * c + i
  BY <1>1, <1>2, <1>4, <1>5, Lengths DEF base
<1>7. (d_chunk_len * c + i) % d_chunk_len = i /\ (d_chunk_len * c + i) \div d_chunk_len = c
  <2>1. c \in Int
    BY <1>2
  <2> QED BY <1>2, <2>1, Lengths, Quotient, Zenon
<1> QED BY <1>4, <1>6, <1>7 DEF idx

\* Where the position after it is.
LEMMA NextPlace ==
    ASSUME NEW p \in Nat, NEW c, NEW i, NEW b, Place(p, c, i, b)
    PROVE  Place(p + 1, IF b + 1 = d_bits_per_byte /\ i + 1 = d_chunk_len THEN c + 1 ELSE c,
                 IF b + 1 # d_bits_per_byte THEN i
                 ELSE IF i + 1 # d_chunk_len THEN i + 1 ELSE 0,
                 IF b + 1 # d_bits_per_byte THEN b + 1 ELSE 0)
<1>1. PICK y \in Nat : y = d_chunk_len * c + i - d_header_len
  BY DEF Place
<1>2. c \in Nat /\ i \in 0 .. d_chunk_len - 1 /\ b \in 0 .. d_bits_per_byte - 1
  BY DEF Place
<1>3. p = d_bits_per_byte * y + b
  BY <1>1 DEF Place
<1>4. CASE b + 1 # d_bits_per_byte
  <2>1. b + 1 \in 0 .. d_bits_per_byte - 1
    BY <1>2, <1>4, Lengths
  <2>2. PICK z \in Int : z = d_bits_per_byte * y
    BY Lengths
  <2>3. p + 1 = d_bits_per_byte * y + (b + 1)
    BY <1>2, <1>3, <2>2
  <2> QED BY <1>1, <1>2, <1>4, <2>1, <2>3 DEF Place
<1>5. CASE b + 1 = d_bits_per_byte
  <2>1. p + 1 = d_bits_per_byte * (y + 1) + 0
    BY <1>2, <1>3, <1>5, Lengths
  <2>2. 0 \in 0 .. d_bits_per_byte - 1
    BY Lengths
  <2>3. PICK z \in Int : z = d_chunk_len * c
    BY <1>2, Lengths
  <2>4. CASE i + 1 # d_chunk_len
    <3>1. i + 1 \in 0 .. d_chunk_len - 1
      BY <1>2, <2>4, Lengths
    <3>2. y + 1 = d_chunk_len * c + (i + 1) - d_header_len
      BY <1>1, <1>2, <2>3, Lengths
    <3>3. ~ (b + 1 # d_bits_per_byte)
      BY <1>5
    <3>4. d_chunk_len * c + (i + 1) - d_header_len \in Nat
      BY <3>2
    <3>5. Place(p + 1, c, i + 1, 0)
      BY <1>2, <2>1, <2>2, <3>1, <3>2, <3>4, Zenon DEF Place
    <3> QED BY <1>5, <2>4, <3>5
  <2>5. CASE i + 1 = d_chunk_len
    <3>1. c + 1 \in Nat /\ 0 \in 0 .. d_chunk_len - 1
      BY <1>2, Lengths
    <3>2. d_chunk_len * (c + 1) = z + d_chunk_len
      BY <1>2, <2>3, Lengths
    <3>3. y + 1 = d_chunk_len * (c + 1) + 0 - d_header_len
      BY <1>1, <1>2, <2>3, <2>5, <3>2, Lengths
    <3>4. d_chunk_len * (c + 1) + 0 - d_header_len \in Nat
      BY <3>3
    <3>5. Place(p + 1, c + 1, 0, 0)
      BY <2>1, <2>2, <3>1, <3>3, <3>4, Zenon DEF Place
    <3> QED BY <1>5, <2>5, <3>5
  <2> QED BY <2>4, <2>5
<1> QED BY <1>4, <1>5

------------------------------------------------------------------------------
\* How many of the positions before p are in the frame.
FrameCount(p) ==
    IF IsCodec2(p)
    THEN ((base(p) \div d_chunk_len + 1) * frame_part - d_header_len) * d_bits_per_byte
    ELSE frame_bit(p) - 1

\* In terms of where the position is.
CountAt(p, c, i, b) ==
    /\ IsCodec2(p) <=> i >= frame_part
    /\ i >= frame_part =>
          /\ FrameCount(p) = ((c + 1) * frame_part - d_header_len) * d_bits_per_byte
          /\ codec2_bit(p) = (i - frame_part) * d_bits_per_byte + b + 1
    /\ i < frame_part =>
          /\ FrameCount(p) = (c * frame_part + i - d_header_len) * d_bits_per_byte + b
          /\ frame_bit(p) = FrameCount(p) + 1

\* So it is at each position.
LEMMA FrameCountAt ==
    ASSUME NEW p, NEW c, NEW i, NEW b, Place(p, c, i, b)
    PROVE  CountAt(p, c, i, b)
<1>1. /\ base(p) \div d_chunk_len = c
      /\ idx(p) = i
      /\ p % d_bits_per_byte = b
  BY PlaceIs
<1>2. c \in Nat /\ i \in 0 .. d_chunk_len - 1 /\ b \in 0 .. d_bits_per_byte - 1
  BY DEF Place
<1>3. IsCodec2(p) <=> i >= frame_part
  BY <1>1 DEF IsCodec2
<1>4. PICK x : x = (c * frame_part + i - d_header_len) * d_bits_per_byte
  OBVIOUS
<1>5. x \in Int
  BY <1>2, <1>4, Lengths
<1>6. frame_bit(p) = x + b + 1
  BY <1>1, <1>4, Zenon DEF frame_bit
<1>7. ASSUME i < frame_part
      PROVE  FrameCount(p) = x + b /\ frame_bit(p) = FrameCount(p) + 1
  <2>1. ~ IsCodec2(p)
    BY <1>2, <1>3, <1>7, Lengths
  <2>2. FrameCount(p) = frame_bit(p) - 1
    BY <2>1, Zenon DEF FrameCount
  <2> QED BY <1>2, <1>5, <1>6, <2>2, Lengths
<1>8. ASSUME i >= frame_part
      PROVE  /\ FrameCount(p) = ((c + 1) * frame_part - d_header_len) * d_bits_per_byte
             /\ codec2_bit(p) = (i - frame_part) * d_bits_per_byte + b + 1
  BY <1>1, <1>3, <1>8, Zenon DEF FrameCount, codec2_bit
<1>9. i < frame_part => /\ FrameCount(p) = (c * frame_part + i - d_header_len) * d_bits_per_byte + b
                        /\ frame_bit(p) = FrameCount(p) + 1
  BY <1>4, <1>7
<1> QED BY <1>3, <1>8, <1>9, Zenon DEF CountAt

\* A position adds one to it, or none.
LEMMA FrameCountOfNext ==
    ASSUME NEW p \in Nat
    PROVE  FrameCount(p + 1) = FrameCount(p) + (IF IsCodec2(p) THEN 0 ELSE 1)
<1>1. PICK c, i, b : Place(p, c, i, b)
  BY PlaceExists
<1>2. c \in Nat /\ i \in 0 .. d_chunk_len - 1 /\ b \in 0 .. d_bits_per_byte - 1
  BY <1>1 DEF Place
<1>3. CountAt(p, c, i, b)
  BY <1>1, FrameCountAt
<1>4. CASE b + 1 # d_bits_per_byte
  <2>1. Place(p + 1, c, i, b + 1)
    BY <1>1, <1>4, NextPlace
  <2>2. CountAt(p + 1, c, i, b + 1)
    BY <2>1, FrameCountAt
  <2>3. PICK x \in Int : x = (c * frame_part + i - d_header_len) * d_bits_per_byte
    BY <1>2, Lengths
  <2>4. PICK z \in Int : z = ((c + 1) * frame_part - d_header_len) * d_bits_per_byte
    BY <1>2, Lengths
  <2> QED BY <1>2, <1>3, <2>2, <2>3, <2>4, Lengths DEF CountAt
<1>5. CASE b + 1 = d_bits_per_byte /\ i + 1 # d_chunk_len
  <2>1. Place(p + 1, c, i + 1, 0)
    BY <1>1, <1>5, NextPlace
  <2>2. CountAt(p + 1, c, i + 1, 0)
    BY <2>1, FrameCountAt
  <2>3. PICK x \in Int : x = (c * frame_part + i - d_header_len) * d_bits_per_byte
    BY <1>2, Lengths
  <2>4. (c * frame_part + (i + 1) - d_header_len) * d_bits_per_byte = x + d_bits_per_byte
    BY <1>2, <2>3, Lengths
  <2>5. PICK z \in Int : z = ((c + 1) * frame_part - d_header_len) * d_bits_per_byte
    BY <1>2, Lengths
  <2>6. i + 1 = frame_part => z = x + d_bits_per_byte
    <3>1. ASSUME i + 1 = frame_part
          PROVE  (c + 1) * frame_part - d_header_len = c * frame_part + (i + 1) - d_header_len
      BY <1>2, <3>1, Lengths
    <3> QED BY <2>4, <2>5, <3>1
  <2> QED BY <1>2, <1>3, <1>5, <2>2, <2>3, <2>4, <2>5, <2>6, Lengths DEF CountAt
<1>6. CASE b + 1 = d_bits_per_byte /\ i + 1 = d_chunk_len
  <2>1. Place(p + 1, c + 1, 0, 0)
    BY <1>1, <1>6, NextPlace
  <2>2. CountAt(p + 1, c + 1, 0, 0)
    BY <2>1, FrameCountAt
  <2>3. PICK x \in Int : x = (c + 1) * frame_part - d_header_len
    BY <1>2, Lengths
  <2>4. (c + 1) * frame_part + 0 - d_header_len = x
    BY <1>2, <2>3, Lengths
  <2>5. 0 >= frame_part => (c + 1 + 1) * frame_part - d_header_len = x
    BY <1>2, <2>3, Lengths
  <2>6. i >= frame_part
    BY <1>2, <1>6, Lengths
  <2>7. FrameCount(p) = x * d_bits_per_byte
    BY <1>3, <2>3, <2>6 DEF CountAt
  <2>8. x * d_bits_per_byte \in Int
    BY Lengths
  <2>9. FrameCount(p + 1) = x * d_bits_per_byte
    BY <2>2, <2>3, <2>4, <2>5, <2>8, Lengths DEF CountAt
  <2> QED BY <1>3, <2>6, <2>7, <2>8, <2>9 DEF CountAt
<1> QED BY <1>4, <1>5, <1>6, Zenon

\* At the first position and behind the last one.
LEMMA CountAtEnds ==
    /\ PacketBits \in Nat \ {0} /\ FrameBits \in Nat /\ Codec2Bits \in Nat \ {0}
    /\ FrameCount(0) = 0
    /\ FrameCount(PacketBits) = FrameBits
    /\ PacketBits - FrameBits = Chunks * Codec2Bits
<1>1. PICK x \in Int : x = Chunks * d_chunk_len - d_header_len
  BY Lengths
<1>2. PICK z \in Int : z = Chunks * frame_part - d_header_len
  BY Lengths
<1>3. PacketBits = x * d_bits_per_byte /\ FrameBits = z * d_bits_per_byte
  BY <1>1, <1>2 DEF PacketBits, d_packet_len, FrameBits
<1>4. z >= 0 /\ x - z = Chunks * d_codec2_frame_len
  <2>1. Chunks * frame_part >= frame_part
    BY Lengths
  <2>2. Chunks * d_chunk_len = Chunks * frame_part + Chunks * d_codec2_frame_len
    BY Lengths
  <2> QED BY <1>1, <1>2, <2>1, <2>2, Lengths
<1>5. Chunks * d_codec2_frame_len \in Nat \ {0}
  BY Lengths
<1>6. x > 0
  BY <1>4, <1>5
<1>7. Codec2Bits \in Nat \ {0}
  BY Lengths DEF Codec2Bits
<1>8. PacketBits - FrameBits = Chunks * Codec2Bits
  <2>1. x * d_bits_per_byte - z * d_bits_per_byte = (x - z) * d_bits_per_byte
    BY Lengths
  <2>2. (Chunks * d_codec2_frame_len) * d_bits_per_byte
          = Chunks * (d_codec2_frame_len * d_bits_per_byte)
    BY Lengths
  <2> QED BY <1>3, <1>4, <2>1, <2>2 DEF Codec2Bits
<1>9. x * d_bits_per_byte \in Nat \ {0} /\ z * d_bits_per_byte \in Nat
  BY <1>4, <1>6, Lengths
<1>10. FrameCount(0) = 0
  <2>1. Place(0, 0, d_header_len, 0)
    <3>1. d_header_len \in 0 .. d_chunk_len - 1 /\ 0 \in 0 .. d_bits_per_byte - 1 /\ 0 \in Nat
      BY Lengths
    <3>2. d_chunk_len * 0 + d_header_len - d_header_len = 0
      BY Lengths
    <3>3. 0 = d_bits_per_byte * 0 + 0
      BY Lengths
    <3> QED BY <3>1, <3>2, <3>3, Zenon DEF Place
  <2>2. CountAt(0, 0, d_header_len, 0)
    BY <2>1, FrameCountAt
  <2>3. d_header_len >= frame_part => (0 + 1) * frame_part - d_header_len = 0
    BY Lengths
  <2>4. 0 * frame_part + d_header_len - d_header_len = 0
    BY Lengths
  <2>5. 0 * d_bits_per_byte = 0
    BY Lengths
  <2> QED BY <2>2, <2>3, <2>4, <2>5, Lengths DEF CountAt
<1>11. FrameCount(PacketBits) = FrameBits
  <2>1. d_chunk_len * Chunks + 0 - d_header_len = x
    BY <1>1, Lengths
  <2>2. d_bits_per_byte * x + 0 = PacketBits
    BY <1>3, Lengths
  <2>3. x \in Nat /\ Chunks \in Nat /\ 0 \in 0 .. d_chunk_len - 1 /\ 0 \in 0 .. d_bits_per_byte - 1
    BY <1>6, Lengths
  <2>4. Place(PacketBits, Chunks, 0, 0)
    BY <2>1, <2>2, <2>3, Zenon DEF Place
  <2>5. CountAt(PacketBits, Chunks, 0, 0)
    BY <2>4, FrameCountAt
  <2>6. 0 >= frame_part => (Chunks + 1) * frame_part - d_header_len = z
    BY <1>2, Lengths
  <2>7. Chunks * frame_part + 0 - d_header_len = z
    BY <1>2, Lengths
  <2> QED BY <1>3, <1>9, <2>5, <2>6, <2>7, Lengths DEF CountAt
<1> QED BY <1>3, <1>7, <1>8, <1>9, <1>10, <1>11

------------------------------------------------------------------------------
\* How many of some positions are before another: finitely many, one more behind each.
LEMMA BeforeIs ==
    ASSUME NEW T \in SUBSET Nat, NEW p \in Nat
    PROVE  /\ IsFiniteSet({q \in T : q < p})
           /\ Earlier(T, p) \in Nat
           /\ Earlier(T, p + 1) = Earlier(T, p) + (IF p \in T THEN 1 ELSE 0)
<1>0. \A q \in T : q \in Nat
  OBVIOUS
<1>1. \A n \in Nat : IsFiniteSet({q \in T : q < n})
  <2>1. SUFFICES ASSUME NEW n \in Nat PROVE IsFiniteSet({q \in T : q < n})
    OBVIOUS
  <2>2. IsFiniteSet(0 .. n)
    BY FS_Interval
  <2>3. \A q \in T : q < n => q \in 0 .. n
    BY <1>0
  <2>4. {q \in T : q < n} \subseteq 0 .. n
    BY <2>3, Zenon
  <2> QED BY <2>2, <2>4, FS_Subset
<1>2. PICK S : S = {q \in T : q < p}
  OBVIOUS
<1>3. IsFiniteSet(S) /\ Cardinality(S) \in Nat
  BY <1>1, <1>2, FS_CardinalityType
<1>4. CASE p \in T
  <2>1. {q \in T : q < p + 1} = S \cup {p} /\ p \notin S
    <3>1. \A q \in T : q < p + 1 <=> q < p \/ q = p
      BY <1>0
    <3>2. ~ (p < p)
      OBVIOUS
    <3> QED BY <1>2, <1>4, <3>1, <3>2, Zenon
  <2>2. Cardinality(S \cup {p}) = Cardinality(S) + 1
    BY <1>3, <2>1, FS_AddElement
  <2> QED BY <1>2, <1>3, <1>4, <2>1, <2>2 DEF Earlier
<1>5. CASE p \notin T
  <2>1. {q \in T : q < p + 1} = S
    <3>1. \A q \in T : q < p + 1 <=> q < p \/ q = p
      BY <1>0
    <3> QED BY <1>2, <1>5, <3>1, Zenon
  <2> QED BY <1>2, <1>3, <1>5, <2>1 DEF Earlier
<1> QED BY <1>4, <1>5

\* No fewer are before a later one.
LEMMA BeforeGrows ==
    ASSUME NEW T \in SUBSET Nat, NEW p \in Nat, NEW q \in Nat, p <= q
    PROVE  Earlier(T, p) <= Earlier(T, q)
<1>1. IsFiniteSet({x \in T : x < q})
  BY BeforeIs
<1>2. {x \in T : x < p} \subseteq {x \in T : x < q}
  <2>1. \A x \in T : x \in Nat
    OBVIOUS
  <2>2. \A x \in T : x < p => x < q
    BY <2>1
  <2> QED BY <2>2, Zenon
<1> QED BY <1>1, <1>2, FS_Subset DEF Earlier

\* Before the first there is none, behind all of them are all.
LEMMA BeforeAtEnds ==
    ASSUME NEW n \in Nat, NEW T \in SUBSET (0 .. n - 1)
    PROVE  Earlier(T, 0) = 0 /\ Earlier(T, n) = Cardinality(T) /\ Cardinality(T) \in Nat
<1>1. {q \in T : q < 0} = {} /\ {q \in T : q < n} = T
  <2>1. \A q \in T : q \in 0 .. n - 1
    OBVIOUS
  <2>2. \A q \in T : ~ (q < 0) /\ q < n
    BY <2>1
  <2> QED BY <2>2, Zenon
<1>2. IsFiniteSet(T)
  BY <1>1, BeforeIs
<1> QED BY <1>1, <1>2, FS_EmptySet, FS_CardinalityType DEF Earlier

\* What is at a position is in its place.
InPlace(bits, T, p) ==
    /\ Earlier(T, p) + 1 \in 1 .. Cardinality(T)
    /\ InOrder(bits, T)[Earlier(T, p) + 1] = bits[p + 1]

\* So it is with InOrder.
LEMMA InOrderAt ==
    ASSUME NEW n \in Nat, NEW T \in SUBSET (0 .. n - 1), NEW p \in T, NEW bits
    PROVE  InPlace(bits, T, p)
<1>1. T \in SUBSET Nat /\ p \in 0 .. n - 1
  OBVIOUS
<1>2. PICK k \in Nat : k = Earlier(T, p)
  BY <1>1, BeforeIs
<1>3. Earlier(T, p + 1) = k + 1
  BY <1>1, <1>2, BeforeIs
<1>4. k + 1 <= Cardinality(T) /\ Cardinality(T) \in Nat
  <2>1. Earlier(T, p + 1) <= Earlier(T, n)
    <3>1. p + 1 \in Nat /\ p + 1 <= n
      BY <1>1
    <3> QED BY <1>1, <3>1, BeforeGrows
  <2> QED BY <1>3, <2>1, BeforeAtEnds
<1>5. ASSUME NEW q \in T, Earlier(T, q) = k PROVE q = p
  <2>1. q \in Nat /\ p \in Nat /\ Earlier(T, q + 1) = k + 1
    BY <1>1, <1>5, BeforeIs
  <2>2. CASE q < p
    <3>1. q + 1 \in Nat /\ q + 1 <= p
      BY <2>1, <2>2
    <3>2. Earlier(T, q + 1) <= Earlier(T, p)
      BY <1>1, <2>1, <3>1, BeforeGrows
    <3> QED BY <1>2, <2>1, <3>2
  <2>3. CASE p < q
    <3>1. p + 1 \in Nat /\ p + 1 <= q
      BY <2>1, <2>3
    <3>2. Earlier(T, p + 1) <= Earlier(T, q)
      BY <1>1, <2>1, <3>1, BeforeGrows
    <3> QED BY <1>3, <1>5, <3>2
  <2> QED BY <2>1, <2>2, <2>3
<1>6. (CHOOSE q \in T : Earlier(T, q) = k) = p
  BY <1>2, <1>5
<1>7. PICK z : z = k + 1
  OBVIOUS
<1>8. z \in 1 .. Cardinality(T) /\ z - 1 = k
  BY <1>4, <1>7
<1>9. InOrder(bits, T)[z] = bits[1 + CHOOSE q \in T : Earlier(T, q) = z - 1]
  BY <1>8 DEF InOrder
<1>10. InOrder(bits, T)[z] = bits[1 + p]
  BY <1>6, <1>8, <1>9
<1>11. 1 + p = p + 1
  BY <1>1
<1> QED BY <1>2, <1>7, <1>8, <1>10, <1>11 DEF InPlace

------------------------------------------------------------------------------
\* The positions before p that are in d_frame, and in d_codec2.
FrameBefore(p) == Earlier(FramePositions, p)
Codec2Before(p) == Earlier(Codec2Positions, p)

\* As many are in the frame as are counted, the others are codec2.
LEMMA CountedBefore ==
    ASSUME NEW p \in 0 .. PacketBits
    PROVE  /\ FrameBefore(p) \in Nat /\ FrameBefore(p) = FrameCount(p)
           /\ Codec2Before(p) \in Nat /\ Codec2Before(p) = p - FrameCount(p)
<1> DEFINE Counts(q) == /\ FrameBefore(q) \in Nat /\ FrameBefore(q) = FrameCount(q)
                        /\ Codec2Before(q) \in Nat /\ Codec2Before(q) = q - FrameCount(q)
<1>1. PICK n \in Nat : n = PacketBits
  BY CountAtEnds
<1>2. PICK S : S = {q \in 0 .. n : Counts(q)}
  OBVIOUS
<1>3. FramePositions \in SUBSET (0 .. n - 1) /\ Codec2Positions \in SUBSET (0 .. n - 1)
  BY <1>1 DEF FramePositions, Codec2Positions
<1>4. 0 \in S
  <2>1. FrameBefore(0) = 0 /\ Codec2Before(0) = 0
    BY <1>3, BeforeAtEnds DEF FrameBefore, Codec2Before
  <2>2. FrameCount(0) = 0
    BY CountAtEnds
  <2>3. Counts(0)
    BY <2>1, <2>2
  <2> QED BY <1>2, <2>3
<1>5. ASSUME NEW j \in 1 .. n, j - 1 \in S PROVE j \in S
  <2>1. PICK q \in Nat : q = j - 1
    OBVIOUS
  <2>2. q \in 0 .. n - 1 /\ j = q + 1
    BY <2>1
  <2>3. Counts(q)
    BY <1>2, <1>5, <2>1
  <2>4. PICK f \in Nat, g \in Nat, x \in Nat :
          f = FrameBefore(q) /\ g = Codec2Before(q) /\ x = FrameCount(q) /\ f = x /\ g = q - x
    BY <2>3
  <2>5. FramePositions \in SUBSET Nat /\ Codec2Positions \in SUBSET Nat
    BY <1>3
  <2>11. /\ Earlier(FramePositions, q + 1)
               = Earlier(FramePositions, q) + (IF q \in FramePositions THEN 1 ELSE 0)
         /\ Earlier(Codec2Positions, q + 1)
               = Earlier(Codec2Positions, q) + (IF q \in Codec2Positions THEN 1 ELSE 0)
    BY <2>5, BeforeIs, Zenon
  <2>6. FrameBefore(q + 1) = f + (IF q \in FramePositions THEN 1 ELSE 0)
    BY <2>4, <2>11 DEF FrameBefore
  <2>7. Codec2Before(q + 1) = g + (IF q \in Codec2Positions THEN 1 ELSE 0)
    BY <2>4, <2>11 DEF Codec2Before
  <2>8. FrameCount(q + 1) = x + (IF IsCodec2(q) THEN 0 ELSE 1)
    BY <2>4, FrameCountOfNext
  <2>9. (q \in FramePositions <=> ~ IsCodec2(q)) /\ (q \in Codec2Positions <=> IsCodec2(q))
    BY <1>1, <2>2 DEF FramePositions, Codec2Positions
  <2>10. Counts(q + 1)
    BY <2>4, <2>6, <2>7, <2>8, <2>9
  <2> QED BY <1>2, <2>2, <2>10
<1>6. \A j \in 0 .. n : j \in S
  <2> HIDE DEF Counts
  <2>1. \A j \in 1 .. n : j - 1 \in S => j \in S
    BY <1>5
  <2> QED BY <1>4, <2>1, StepByStep
<1> QED BY <1>1, <1>2, <1>6

------------------------------------------------------------------------------
\* What is in order is a sequence.
LEMMA InOrderIsSequence ==
    ASSUME NEW bits, NEW T, Cardinality(T) \in Nat
    PROVE  \E S : InOrder(bits, T) \in Seq(S) /\ Len(InOrder(bits, T)) = Cardinality(T)
<1>1. PICK n \in Nat : n = Cardinality(T)
  OBVIOUS
<1>2. PICK s : s = InOrder(bits, T)
  OBVIOUS
<1>3. DOMAIN s = 1 .. n /\ s = [k \in 1 .. n |-> s[k]]
  BY <1>1, <1>2 DEF InOrder
<1>4. PICK S : S = {s[k] : k \in 1 .. n}
  OBVIOUS
<1>5. s \in [1 .. n -> S]
  BY <1>3, <1>4
<1>6. s \in Seq(S) /\ Len(s) = n
  BY <1>3, <1>5
<1> QED BY <1>1, <1>2, <1>6

\* The positions are those of the frame and those of codec2, of which there are as many as
\* bits of them.
LEMMA PositionsCounted ==
    /\ FramePositions \in SUBSET (0 .. PacketBits - 1)
    /\ Codec2Positions \in SUBSET (0 .. PacketBits - 1)
    /\ Cardinality(FramePositions) = FrameBits
    /\ Cardinality(Codec2Positions) = Chunks * Codec2Bits
    /\ FrameBefore(PacketBits) = FrameBits
    /\ Codec2Before(PacketBits) = Chunks * Codec2Bits
    /\ FrameBefore(0) = 0
    /\ Codec2Before(0) = 0
<1>1. PICK n \in Nat : n = PacketBits
  BY CountAtEnds
<1>2. FramePositions \in SUBSET (0 .. n - 1) /\ Codec2Positions \in SUBSET (0 .. n - 1)
  BY <1>1 DEF FramePositions, Codec2Positions
<1>3. /\ FrameBefore(n) = Cardinality(FramePositions)
      /\ Codec2Before(n) = Cardinality(Codec2Positions)
      /\ FrameBefore(0) = 0 /\ Codec2Before(0) = 0
  BY <1>2, BeforeAtEnds DEF FrameBefore, Codec2Before
<1>4. n \in 0 .. n /\ n \in 0 .. PacketBits
  BY <1>1
<1>5. FrameBefore(n) = FrameCount(n) /\ Codec2Before(n) = n - FrameCount(n)
  BY <1>4, CountedBefore
<1>6. FrameCount(n) = FrameBits /\ n - FrameBits = Chunks * Codec2Bits
  BY <1>1, CountAtEnds
<1> QED BY <1>1, <1>2, <1>3, <1>5, <1>6

\* The codec2 parts are one after another.
PartAfterPart(bits) ==
    \A c \in 1 .. Chunks, i \in 1 .. Codec2Bits :
        Codec2Parts(bits)[c][i] = InOrder(bits, Codec2Positions)[Codec2Bits * (c - 1) + i]

\* The parts have the lengths of what is read.
LEMMA PartsAre ==
    ASSUME NEW bits
    PROVE  /\ FramePart(bits) = [k \in 1 .. FrameBits |-> FramePart(bits)[k]]
           /\ Codec2Parts(bits) = [c \in 1 .. Chunks |-> Codec2Parts(bits)[c]]
           /\ Len(Codec2Parts(bits)) = Chunks
           /\ \A c \in 1 .. Chunks :
                 Codec2Parts(bits)[c] = [i \in 1 .. Codec2Bits |-> Codec2Parts(bits)[c][i]]
           /\ PartAfterPart(bits)
<1>1. PICK w \in Nat \ {0} : w = Codec2Bits
  BY CountAtEnds
<1>2. PICK K \in Nat \ {0} : K = Chunks
  BY Lengths
<1>3. PICK n \in Nat : n = K * w
  BY <1>1, <1>2
<1>4. Cardinality(Codec2Positions) = n
  BY <1>1, <1>2, <1>3, PositionsCounted
<1>5. PICK all : all = InOrder(bits, Codec2Positions)
  OBVIOUS
<1>6. PICK S : all \in Seq(S) /\ Len(all) = n
  BY <1>4, <1>5, InOrderIsSequence
<1>7. n \div w = K
  <2>1. K \in Int /\ 0 \in 0 .. w - 1 /\ w * K + 0 = n
    BY <1>3
  <2> QED BY <2>1, Quotient
<1>8. Codec2Parts(bits) = [c \in 1 .. K |-> SubSeq(all, (c - 1) * w + 1, c * w)]
  BY <1>1, <1>5, <1>6, <1>7, Zenon DEF Codec2Parts
<1>9. FramePart(bits) = [k \in 1 .. FrameBits |-> FramePart(bits)[k]]
  BY PositionsCounted DEF FramePart, InOrder
<1>10. ASSUME NEW c \in 1 .. K
       PROVE  /\ Codec2Parts(bits)[c] = [i \in 1 .. w |-> Codec2Parts(bits)[c][i]]
              /\ \A i \in 1 .. w : Codec2Parts(bits)[c][i] = all[w * (c - 1) + i]
  <2>1. PICK z \in Nat : z = (c - 1) * w
    OBVIOUS
  <2>2. c * w = z + w /\ w * (c - 1) = z
    BY <2>1
  <2>3. z + w <= n
    <3>1. c <= K /\ c * w <= K * w
      OBVIOUS
    <3> QED BY <1>3, <2>2, <3>1
  <2>4. Codec2Parts(bits)[c] = SubSeq(all, z + 1, z + w)
    BY <1>8, <2>1, <2>2
  <2>5. SubSeq(all, z + 1, z + w) = [i \in 1 .. w |-> all[z + i]]
    BY <1>6, <2>3
  <2> QED BY <2>2, <2>4, <2>5
<1>11. Codec2Parts(bits) = [c \in 1 .. K |-> Codec2Parts(bits)[c]] /\ Len(Codec2Parts(bits)) = K
  BY <1>2, <1>8
<1>12. PartAfterPart(bits)
  BY <1>1, <1>2, <1>5, <1>10 DEF PartAfterPart
<1> QED BY <1>1, <1>2, <1>9, <1>10, <1>11, <1>12

\* A position of the frame: its bit is the next one of the frame's part.
LEMMA FramePosition ==
    ASSUME NEW p \in FramePositions, NEW bits
    PROVE  /\ frame_bit(p) = FrameBefore(p) + 1
           /\ frame_bit(p) \in 1 .. FrameBits
           /\ FramePart(bits)[frame_bit(p)] = bits[p + 1]
           /\ FrameBefore(p + 1) = FrameBefore(p) + 1
           /\ Codec2Before(p + 1) = Codec2Before(p)
<1>1. PICK n \in Nat : n = PacketBits
  BY CountAtEnds
<1>2. p \in 0 .. n - 1 /\ p \in Nat /\ ~ IsCodec2(p) /\ p \in 0 .. PacketBits
      /\ p \notin Codec2Positions
  BY <1>1 DEF FramePositions, Codec2Positions
<1>3. FramePositions \in SUBSET (0 .. n - 1) /\ Codec2Positions \in SUBSET (0 .. n - 1)
  BY <1>1, PositionsCounted
<1>4. FramePositions \in SUBSET Nat /\ Codec2Positions \in SUBSET Nat
  BY <1>3
<1>5. frame_bit(p) = FrameCount(p) + 1
  <2>1. PICK c, i, b : Place(p, c, i, b)
    BY <1>2, PlaceExists
  <2>2. CountAt(p, c, i, b) /\ i \in Nat
    BY <2>1, FrameCountAt DEF Place
  <2> QED BY <1>2, <2>2, Lengths DEF CountAt
<1>6. FrameBefore(p) = FrameCount(p)
  BY <1>2, CountedBefore
<1>7. InPlace(bits, FramePositions, p)
  BY <1>3, InOrderAt
<1>8. /\ Earlier(FramePositions, p + 1)
            = Earlier(FramePositions, p) + (IF p \in FramePositions THEN 1 ELSE 0)
      /\ Earlier(Codec2Positions, p + 1)
            = Earlier(Codec2Positions, p) + (IF p \in Codec2Positions THEN 1 ELSE 0)
      /\ Earlier(Codec2Positions, p) \in Nat
  BY <1>2, <1>4, BeforeIs, Zenon
<1>9. Cardinality(FramePositions) = FrameBits
  BY PositionsCounted
<1>10. frame_bit(p) = FrameBefore(p) + 1
  BY <1>5, <1>6
<1>11. frame_bit(p) \in 1 .. FrameBits /\ FramePart(bits)[frame_bit(p)] = bits[p + 1]
  BY <1>7, <1>9, <1>10, Zenon DEF FrameBefore, FramePart, InPlace
<1>12. FrameBefore(p + 1) = FrameBefore(p) + 1 /\ Codec2Before(p + 1) = Codec2Before(p)
  BY <1>2, <1>8 DEF FrameBefore, Codec2Before
<1> QED BY <1>10, <1>11, <1>12

\* A position of codec2: its bit is the next one of a part, which it may complete.
LEMMA Codec2Position ==
    ASSUME NEW p \in Codec2Positions, NEW bits
    PROVE  \E k \in 0 .. Chunks - 1 :
              /\ Codec2Before(p) \div Codec2Bits = k
              /\ codec2_bit(p) \in 1 .. Codec2Bits
              /\ Codec2Before(p) % Codec2Bits = codec2_bit(p) - 1
              /\ Codec2Parts(bits)[k + 1][codec2_bit(p)] = bits[p + 1]
              /\ FrameBefore(p + 1) = FrameBefore(p)
              /\ codec2_bit(p) = Codec2Bits =>
                    /\ Codec2Before(p + 1) \div Codec2Bits = k + 1
                    /\ Codec2Before(p + 1) % Codec2Bits = 0
              /\ codec2_bit(p) # Codec2Bits =>
                    /\ Codec2Before(p + 1) \div Codec2Bits = k
                    /\ Codec2Before(p + 1) % Codec2Bits = codec2_bit(p)
<1>1. PICK n \in Nat : n = PacketBits
  BY CountAtEnds
<1>2. PICK w \in Nat \ {0} : w = Codec2Bits
  BY CountAtEnds
<1>3. p \in 0 .. n - 1 /\ p \in Nat /\ IsCodec2(p) /\ p \in 0 .. PacketBits
      /\ p \notin FramePositions
  BY <1>1 DEF FramePositions, Codec2Positions
<1>4. FramePositions \in SUBSET (0 .. n - 1) /\ Codec2Positions \in SUBSET (0 .. n - 1)
  BY <1>1, PositionsCounted
<1>5. FramePositions \in SUBSET Nat /\ Codec2Positions \in SUBSET Nat
  BY <1>4
<1>6. PICK c, i, b : Place(p, c, i, b)
  BY <1>3, PlaceExists
<1>7. /\ c \in Nat /\ i \in 0 .. d_chunk_len - 1 /\ b \in 0 .. d_bits_per_byte - 1
      /\ p = d_bits_per_byte * (d_chunk_len * c + i - d_header_len) + b
  BY <1>6 DEF Place
<1>8. CountAt(p, c, i, b)
  BY <1>6, FrameCountAt
<1>9. /\ i >= frame_part
      /\ FrameCount(p) = ((c + 1) * frame_part - d_header_len) * d_bits_per_byte
      /\ codec2_bit(p) = (i - frame_part) * d_bits_per_byte + b + 1
  BY <1>3, <1>8 DEF CountAt
<1>10. PICK r \in Int : r = (i - frame_part) * d_bits_per_byte + b
  BY <1>7, Lengths
<1>11. codec2_bit(p) = r + 1
  BY <1>9, <1>10
<1>12. r \in 0 .. w - 1
  <2>1. PICK j \in Nat : j = i - frame_part
    BY <1>7, <1>9, Lengths
  <2>2. j + 1 <= d_codec2_frame_len
    BY <1>7, <2>1, Lengths
  <2>3. (j + 1) * d_bits_per_byte <= d_codec2_frame_len * d_bits_per_byte
    BY <2>2, Lengths
  <2>4. (j + 1) * d_bits_per_byte = j * d_bits_per_byte + d_bits_per_byte
        /\ j * d_bits_per_byte \in Nat
    BY Lengths
  <2>5. r = j * d_bits_per_byte + b
    BY <1>10, <2>1
  <2>6. w = d_codec2_frame_len * d_bits_per_byte
    BY <1>2 DEF Codec2Bits
  <2> QED BY <1>7, <2>3, <2>4, <2>5, <2>6, Lengths
<1>13. Codec2Before(p) = p - FrameCount(p) /\ Codec2Before(p) \in Nat
  BY <1>3, CountedBefore
<1>14. Codec2Before(p) = w * c + r
  <2>1. p - ((c + 1) * frame_part - d_header_len) * d_bits_per_byte
          = (d_codec2_frame_len * d_bits_per_byte) * c + ((i - frame_part) * d_bits_per_byte + b)
    <3>1. d_chunk_len = frame_part + d_codec2_frame_len
      BY Lengths
    <3>2. p = d_bits_per_byte * ((frame_part + d_codec2_frame_len) * c + i - d_header_len) + b
      BY <1>7, <3>1, Zenon
    <3> QED BY <1>7, <3>2, Lengths
  <2>2. Codec2Before(p) = (d_codec2_frame_len * d_bits_per_byte) * c + r
    BY <1>9, <1>10, <1>13, <2>1
  <2>3. w = d_codec2_frame_len * d_bits_per_byte
    BY <1>2 DEF Codec2Bits
  <2> QED BY <2>2, <2>3
<1>15. Codec2Before(p) \div w = c /\ Codec2Before(p) % w = r
  <2>1. c \in Int /\ w \in Nat \ {0} /\ r \in 0 .. w - 1
    BY <1>7, <1>12
  <2> QED BY <1>14, <2>1, Quotient, Zenon
<1>16. InPlace(bits, Codec2Positions, p)
  BY <1>4, InOrderAt
<1>17. c \in 0 .. Chunks - 1
  <2>1. w * c + r + 1 <= Chunks * w
    BY <1>2, <1>12, <1>14, <1>16, PositionsCounted, Lengths DEF Codec2Before, InPlace
  <2>2. SUFFICES ASSUME c >= Chunks PROVE FALSE
    BY <1>7, Lengths
  <2>3. w * c >= w * Chunks /\ w * Chunks = Chunks * w /\ w * c \in Int /\ Chunks * w \in Int
    BY <1>7, <2>2, Lengths
  <2> QED BY <1>12, <2>1, <2>3
<1>18. Codec2Parts(bits)[c + 1][r + 1] = bits[p + 1]
  <2>1. PICK y \in 1 .. Chunks : y = c + 1
    BY <1>7, <1>17, Lengths
  <2>2. PICK j \in 1 .. Codec2Bits : j = r + 1
    BY <1>2, <1>12
  <2>3. Codec2Parts(bits)[y][j] = InOrder(bits, Codec2Positions)[Codec2Bits * (y - 1) + j]
    <3>1. PartAfterPart(bits)
      BY PartsAre
    <3> QED BY <3>1, Zenon DEF PartAfterPart
  <2>4. Codec2Bits * (y - 1) + j = Codec2Before(p) + 1
    <3>1. y - 1 = c /\ w * c \in Int
      BY <1>7, <2>1
    <3> QED BY <1>2, <1>12, <1>14, <2>2, <3>1
  <2> QED BY <1>16, <2>1, <2>2, <2>3, <2>4, Zenon DEF Codec2Before, InPlace
<1>19. /\ Earlier(FramePositions, p + 1)
             = Earlier(FramePositions, p) + (IF p \in FramePositions THEN 1 ELSE 0)
       /\ Earlier(Codec2Positions, p + 1)
             = Earlier(Codec2Positions, p) + (IF p \in Codec2Positions THEN 1 ELSE 0)
       /\ Earlier(FramePositions, p) \in Nat
  BY <1>3, <1>5, BeforeIs, Zenon
<1>20. FrameBefore(p + 1) = FrameBefore(p) /\ Codec2Before(p + 1) = Codec2Before(p) + 1
  BY <1>3, <1>19 DEF FrameBefore, Codec2Before
<1>21. CASE r + 1 = w
  <2>1. Codec2Before(p + 1) = w * (c + 1) + 0 /\ c + 1 \in Int /\ 0 \in 0 .. w - 1
    BY <1>7, <1>14, <1>20, <1>21
  <2>2. Codec2Before(p + 1) \div w = c + 1 /\ Codec2Before(p + 1) % w = 0
    BY <2>1, Quotient, Zenon
  <2> QED BY <1>2, <1>11, <1>12, <1>15, <1>17, <1>18, <1>20, <1>21, <2>2
<1>22. CASE r + 1 # w
  <2>1. Codec2Before(p + 1) = w * c + (r + 1) /\ c \in Int /\ r + 1 \in 0 .. w - 1
    <3>1. w * c \in Int
      BY <1>7
    <3> QED BY <1>7, <1>12, <1>14, <1>20, <1>22, <3>1
  <2>2. Codec2Before(p + 1) \div w = c /\ Codec2Before(p + 1) % w = r + 1
    <3>1. PICK x \in 0 .. w - 1 : x = r + 1
      BY <2>1
    <3>2. (w * c + x) % w = x /\ (w * c + x) \div w = c
      BY <2>1, Quotient, Zenon
    <3> QED BY <2>1, <3>1, <3>2, Zenon
  <2> QED BY <1>2, <1>11, <1>12, <1>15, <1>17, <1>18, <1>20, <1>22, <2>2
<1> QED BY <1>21, <1>22

------------------------------------------------------------------------------
\* What the block has and publishes.
Bits(n) == [1 .. n -> {0, 1}]
Entry(n) == [of : Nat, bits : Bits(n)]

DemuxType == /\ d_position \in NoPosition .. PacketBits
             /\ d_frame \in Bits(FrameBits)
             /\ d_codec2 \in Bits(Codec2Bits)
             /\ radio \in Seq(PacketContents)
             /\ on_air \in Seq({0, 1})
             /\ gap \in Nat
             /\ false_tags \in Seq(0 .. Len(radio))
             /\ frames \in Seq(Entry(FrameBits))
             /\ codec2_frames \in Seq(Entry(Codec2Bits))

\* The position in the last packet of the next bit of it.
NextPosition == PacketBits - Len(on_air)

\* What is on air is the end of the last packet.
OnAir == /\ Len(on_air) <= PacketBits
         /\ radio = <<>> => on_air = <<>>
         /\ on_air # <<>> => gap = 0
         /\ radio # <<>> =>
               \A i \in 1 .. Len(on_air) : on_air[i] = radio[Len(radio)][NextPosition + i]

\* Nothing is published of a packet that is not sent yet.
OfUpTo(entries, n) == \A j \in DOMAIN entries : entries[j].of <= n
OfSent == OfUpTo(frames, Len(radio)) /\ OfUpTo(codec2_frames, Len(radio))

\* No packet is on air, and the last one, if any, is followed by a bit.
Between == radio = <<>> \/ gap > 0

\* There was no false tag during or after packet n.
Clean(n) == n \notin Range(false_tags)

\* With no false tag in it or behind it, a packet is read from its first bit to its last, and
\* leaves nothing.
ReadFromStart ==
    Clean(Len(radio)) =>
        IF Between THEN /\ d_position = NoPosition
                        /\ d_frame = Zeros(FrameBits)
                        /\ d_codec2 = Zeros(Codec2Bits)
        ELSE /\ d_position = NextPosition
             /\ on_air = <<>> => d_codec2 = Zeros(Codec2Bits)

\* The first k bits are those of a whole, the others are not set.
Filled(bits, whole, k) == \A i \in DOMAIN bits : bits[i] = IF i <= k THEN whole[i] ELSE 0

\* The first k of the parts of packet n have come out, and nothing else of it.
FirstOut(entries, n, parts, k) ==
    \E m \in 0 .. Len(entries) :
        /\ {j \in DOMAIN entries : entries[j].of = n} = m + 1 .. m + k
        /\ m + k = Len(entries)
        /\ \A i \in 1 .. k : entries[m + i].bits = parts[i]

\* The bits of a packet before position p are where they belong.
ReadUpTo(bits, n, p) ==
    /\ Filled(d_frame, FramePart(bits), FrameBefore(p))
    /\ Filled(d_codec2, Codec2Parts(bits)[Codec2Before(p) \div Codec2Bits + 1],
              Codec2Before(p) % Codec2Bits)
    /\ FirstOut(frames, n, <<>>, 0)
    /\ FirstOut(codec2_frames, n, Codec2Parts(bits), Codec2Before(p) \div Codec2Bits)

\* So they are if there was no false tag in the packet before, either.
LastPacketRead ==
    ~ Between /\ Clean(Len(radio) - 1) /\ Clean(Len(radio)) =>
        ReadUpTo(radio[Len(radio)], Len(radio), NextPosition)

\* The inductive invariant.
DemuxInv == /\ DemuxType
            /\ OnAir
            /\ OfSent
            /\ ReadFromStart
            /\ LastPacketRead
            /\ FalseTagSpoilsTwo

\* The block and the radio.
DemuxSpec == DemuxInit /\ [][DemuxNext]_demuxVars

------------------------------------------------------------------------------
\* A bit is added to what is filled.
LEMMA FilledWithBit ==
    ASSUME NEW n \in Nat, NEW s \in Bits(n), NEW whole, NEW k \in 0 .. n - 1, NEW bit \in {0, 1},
           Filled(s, whole, k), whole[k + 1] = bit
    PROVE  Ored(s, k + 1, bit) \in Bits(n) /\ Filled(Ored(s, k + 1, bit), whole, k + 1)
<1>1. DOMAIN s = 1 .. n /\ k + 1 \in 1 .. n
  BY DEF Bits
<1>2. s[k + 1] = 0
  <2>1. ~ (k + 1 <= k)
    OBVIOUS
  <2> QED BY <1>1, <2>1 DEF Filled
<1>3. PICK t : t = Ored(s, k + 1, bit)
  OBVIOUS
<1>4. t = [s EXCEPT ![k + 1] = bit]
  BY <1>1, <1>2, <1>3 DEF Ored
<1>5. t \in Bits(n) /\ DOMAIN t = 1 .. n
  BY <1>4 DEF Bits
<1>6. ASSUME NEW i \in 1 .. n PROVE t[i] = IF i <= k + 1 THEN whole[i] ELSE 0
  <2>1. CASE i = k + 1
    BY <1>1, <1>4, <2>1 DEF Bits
  <2>2. CASE i # k + 1
    <3>1. t[i] = s[i]
      BY <1>4, <2>2 DEF Bits
    <3>2. s[i] = IF i <= k THEN whole[i] ELSE 0
      BY <1>1 DEF Filled
    <3>3. i <= k + 1 <=> i <= k
      BY <2>2
    <3> QED BY <3>1, <3>2, <3>3
  <2> QED BY <2>1, <2>2
<1> QED BY <1>3, <1>5, <1>6 DEF Filled

\* With no bit it is zeros, with all of them the whole.
LEMMA FilledAtEnds ==
    ASSUME NEW n \in Nat, NEW whole
    PROVE  /\ Zeros(n) \in Bits(n) /\ Filled(Zeros(n), whole, 0)
           /\ \A s \in Bits(n) :
                 Filled(s, whole, n) /\ whole = [i \in 1 .. n |-> whole[i]] => s = whole
<1>1. Zeros(n) \in Bits(n) /\ Filled(Zeros(n), whole, 0)
  BY DEF Zeros, Bits, Filled
<1>2. ASSUME NEW s \in Bits(n), Filled(s, whole, n), whole = [i \in 1 .. n |-> whole[i]]
      PROVE  s = whole
  <2>1. DOMAIN s = 1 .. n /\ s = [i \in 1 .. n |-> s[i]]
    BY DEF Bits
  <2>2. \A i \in 1 .. n : s[i] = whole[i]
    BY <1>2, <2>1 DEF Filled
  <2> QED BY <1>2, <2>1, <2>2, Zenon
<1> QED BY <1>1, <1>2

\* What is published of packet n, when another entry is.
LEMMA EntryAdded ==
    ASSUME NEW S, NEW entries \in Seq(S), NEW e \in S
    PROVE  /\ Append(entries, e) \in Seq(S)
           /\ Len(Append(entries, e)) = Len(entries) + 1
           /\ DOMAIN entries = 1 .. Len(entries)
           /\ DOMAIN Append(entries, e) = 1 .. Len(entries) + 1
           /\ \A j \in 1 .. Len(entries) : Append(entries, e)[j] = entries[j]
           /\ Append(entries, e)[Len(entries) + 1] = e
OBVIOUS

\* The next part of it.
LEMMA OneMoreOut ==
    ASSUME NEW l \in Nat, NEW entries \in Seq(Entry(l)), NEW n \in Nat, NEW parts, NEW k \in Nat,
           FirstOut(entries, n, parts, k), parts[k + 1] \in Bits(l)
    PROVE  FirstOut(Append(entries, [of |-> n, bits |-> parts[k + 1]]), n, parts, k + 1)
<1>1. PICK e : e = [of |-> n, bits |-> parts[k + 1]]
  OBVIOUS
<1>2. e \in Entry(l) /\ e.of = n /\ e.bits = parts[k + 1]
  BY <1>1 DEF Entry
<1>3. PICK t : t = Append(entries, e)
  OBVIOUS
<1>4. PICK h \in Nat : h = Len(entries)
  OBVIOUS
<1>5. /\ Len(t) = h + 1 /\ DOMAIN entries = 1 .. h /\ DOMAIN t = 1 .. h + 1
      /\ \A j \in 1 .. h : t[j] = entries[j]
      /\ t[h + 1] = e
  BY <1>2, <1>3, <1>4, EntryAdded
<1>6. PICK m \in 0 .. h :
        /\ {j \in DOMAIN entries : entries[j].of = n} = m + 1 .. m + k
        /\ m + k = Len(entries)
        /\ \A i \in 1 .. k : entries[m + i].bits = parts[i]
  BY <1>4 DEF FirstOut
<1>7. m \in 0 .. h + 1 /\ m + (k + 1) = h + 1 /\ m + k = h
  BY <1>4, <1>6
<1>8. {j \in 1 .. h + 1 : t[j].of = n} = m + 1 .. m + (k + 1)
  <2>1. ASSUME NEW j \in 1 .. h + 1 PROVE t[j].of = n <=> j \in m + 1 .. m + (k + 1)
    <3>1. CASE j = h + 1
      BY <1>2, <1>5, <1>7, <3>1
    <3>2. CASE j # h + 1
      <4>1. j \in 1 .. h /\ t[j] = entries[j]
        BY <1>5, <3>2
      <4>2. entries[j].of = n <=> j \in m + 1 .. m + k
        BY <1>5, <1>6, <4>1, Zenon
      <4>3. j \in m + 1 .. m + k <=> j \in m + 1 .. m + (k + 1)
        BY <1>7, <4>1
      <4> QED BY <4>1, <4>2, <4>3
    <3> QED BY <3>1, <3>2
  <2>2. m + 1 .. m + (k + 1) \subseteq 1 .. h + 1
    BY <1>7
  <2> QED BY <2>1, <2>2, Zenon
<1>9. ASSUME NEW i \in 1 .. k + 1 PROVE t[m + i].bits = parts[i]
  <2>1. CASE i = k + 1
    <3>1. m + i = h + 1
      BY <1>7, <2>1
    <3> QED BY <1>2, <1>5, <2>1, <3>1
  <2>2. CASE i # k + 1
    <3>1. i \in 1 .. k /\ m + i \in 1 .. h
      BY <1>7, <2>2
    <3> QED BY <1>5, <1>6, <3>1
  <2> QED BY <2>1, <2>2
<1>10. FirstOut(t, n, parts, k + 1)
  <2>1. m \in 0 .. Len(t) /\ m + (k + 1) = Len(t)
    BY <1>5, <1>7
  <2>2. {j \in DOMAIN t : t[j].of = n} = m + 1 .. m + (k + 1)
    BY <1>5, <1>8
  <2> QED BY <1>9, <2>1, <2>2, Zenon DEF FirstOut
<1> QED BY <1>1, <1>3, <1>10

\* Before the first, and when all of them are out.
LEMMA OutAtEnds ==
    ASSUME NEW l \in Nat, NEW entries \in Seq(Entry(l)), NEW n \in Nat, NEW parts
    PROVE  /\ OfUpTo(entries, n - 1) => FirstOut(entries, n, parts, 0)
           /\ DOMAIN parts = 1 .. Len(parts) /\ FirstOut(entries, n, parts, Len(parts))
                 => ComeOut(entries, n, parts)
<1>1. PICK h \in Nat : h = Len(entries)
  OBVIOUS
<1>2. ASSUME OfUpTo(entries, n - 1) PROVE FirstOut(entries, n, parts, 0)
  <2>1. ASSUME NEW j \in DOMAIN entries PROVE entries[j].of # n
    <3>1. entries[j] \in Entry(l)
      OBVIOUS
    <3>2. entries[j].of \in Nat /\ entries[j].of <= n - 1
      BY <1>2, <3>1 DEF Entry, OfUpTo
    <3> QED BY <3>2
  <2>2. h + 1 .. h + 0 = {} /\ 1 .. 0 = {} /\ h \in 0 .. h /\ h + 0 = h
    OBVIOUS
  <2>3. {j \in DOMAIN entries : entries[j].of = n} = {}
    BY <2>1, Zenon
  <2>4. \A i \in 1 .. 0 : entries[h + i].bits = parts[i]
    BY <2>2
  <2> QED BY <1>1, <2>2, <2>3, <2>4, Zenon DEF FirstOut
<1>3. ASSUME DOMAIN parts = 1 .. Len(parts),
             FirstOut(entries, n, parts, Len(parts))
      PROVE  ComeOut(entries, n, parts)
  BY <1>3, Zenon DEF FirstOut, ComeOut
<1> QED BY <1>2, <1>3

\* Nothing changes of another packet.
LEMMA StaysOut ==
    ASSUME NEW l \in Nat, NEW entries \in Seq(Entry(l)), NEW e \in Entry(l), NEW n, NEW parts,
           Len(parts) \in Nat, DOMAIN parts = 1 .. Len(parts), e.of # n, ComeOut(entries, n, parts)
    PROVE  ComeOut(Append(entries, e), n, parts)
<1>1. PICK t : t = Append(entries, e)
  OBVIOUS
<1>2. PICK h \in Nat : h = Len(entries)
  OBVIOUS
<1>3. /\ Len(t) = h + 1 /\ DOMAIN entries = 1 .. h /\ DOMAIN t = 1 .. h + 1
      /\ \A j \in 1 .. h : t[j] = entries[j]
      /\ t[h + 1] = e
  BY <1>1, <1>2, EntryAdded
<1>4. PICK m \in 0 .. h :
        /\ {j \in DOMAIN entries : entries[j].of = n} = m + 1 .. m + Len(parts)
        /\ \A k \in DOMAIN parts : entries[m + k].bits = parts[k]
  BY <1>2 DEF ComeOut
<1>5. {j \in 1 .. h + 1 : t[j].of = n} = {j \in 1 .. h : entries[j].of = n}
  <2>1. \A j \in 1 .. h + 1 : t[j].of = n <=> j \in 1 .. h /\ entries[j].of = n
    <3>1. \A j \in 1 .. h + 1 : j \in 1 .. h \/ j = h + 1
      OBVIOUS
    <3>2. h + 1 \notin 1 .. h
      OBVIOUS
    <3> QED BY <1>3, <3>1, <3>2, Zenon
  <2>2. \A j \in 1 .. h : j \in 1 .. h + 1
    OBVIOUS
  <2> QED BY <2>1, <2>2, Zenon
<1>6. ASSUME NEW k \in DOMAIN parts PROVE t[m + k].bits = parts[k]
  <2>1. PICK x \in Nat : x = Len(parts)
    OBVIOUS
  <2>2. k \in 1 .. x /\ m + k \in m + 1 .. m + x
    BY <2>1
  <2>3. m + k \in DOMAIN entries
    BY <1>4, <2>1, <2>2, Zenon
  <2> QED BY <1>3, <1>4, <2>3, Zenon
<1>7. m \in 0 .. Len(t)
  BY <1>3
<1>8. {j \in DOMAIN t : t[j].of = n} = m + 1 .. m + Len(parts)
  BY <1>3, <1>4, <1>5, Zenon
<1>9. ComeOut(t, n, parts)
  BY <1>6, <1>7, <1>8, Zenon DEF ComeOut
<1> QED BY <1>1, <1>9

------------------------------------------------------------------------------
\* Where an item is read.
Start(tagged) == IF tagged THEN 0 ELSE d_position

\* Something of the last packet may be published, no more.
MayAppend(s, t, n, l) == t = s \/ \E v \in Bits(l) : t = Append(s, [of |-> n, bits |-> v])

\* What an item leaves is of the types, and what it publishes is of the last packet.
LEMMA DemuxTyped ==
    ASSUME DemuxType, NEW bit \in {0, 1}, NEW tagged \in BOOLEAN, Demux(bit, tagged)
    PROVE  /\ d_position' \in NoPosition .. PacketBits
           /\ d_frame' \in Bits(FrameBits)
           /\ d_codec2' \in Bits(Codec2Bits)
           /\ MayAppend(frames, frames', Len(radio'), FrameBits)
           /\ MayAppend(codec2_frames, codec2_frames', Len(radio'), Codec2Bits)
<1>1. PICK n \in Nat : n = PacketBits
  BY CountAtEnds
<1>2. /\ d_position \in NoPosition .. PacketBits
      /\ d_frame \in Bits(FrameBits)
      /\ d_codec2 \in Bits(Codec2Bits)
  BY DEF DemuxType
<1>3. PICK start : start = Start(tagged)
  OBVIOUS
<1>4. PICK position : position = IF start = n THEN NoPosition ELSE start
  OBVIOUS
<1>5. start \in -1 .. n /\ position \in -1 .. n - 1
  BY <1>1, <1>2, <1>3, <1>4 DEF Start, NoPosition
<1>6. \A l \in Nat : \A s \in Bits(l) : \A i : Ored(s, i, bit) \in Bits(l)
  <2>1. SUFFICES ASSUME NEW l \in Nat, NEW s \in Bits(l), NEW i PROVE Ored(s, i, bit) \in Bits(l)
    OBVIOUS
  <2> QED BY DEF Ored, Bits
<1>7. Zeros(FrameBits) \in Bits(FrameBits) /\ Zeros(Codec2Bits) \in Bits(Codec2Bits)
  BY DEF Zeros, Bits
<1>8. FrameBits \in Nat /\ Codec2Bits \in Nat
  BY CountAtEnds
<1>9. PICK frame : frame = frame_cleared(start = PacketBits)
  OBVIOUS
<1>10. frame \in Bits(FrameBits)
  BY <1>2, <1>7, <1>9 DEF frame_cleared
<1>11. PICK codec2 : codec2 = Ored(d_codec2, codec2_bit(position), bit)
  OBVIOUS
<1>12. codec2 \in Bits(Codec2Bits)
  BY <1>2, <1>6, <1>8, <1>11
<1>13. /\ frames' = IF start = PacketBits
                    THEN Append(frames, [of |-> Len(radio'), bits |-> d_frame]) ELSE frames
       /\ d_position' = IF position = NoPosition THEN NoPosition ELSE position + 1
       /\ \/ /\ position = NoPosition
             /\ d_frame' = frame
             /\ UNCHANGED <<d_codec2, codec2_frames>>
          \/ /\ position # NoPosition
             /\ ~ IsCodec2(position)
             /\ d_frame' = Ored(frame, frame_bit(position), bit)
             /\ UNCHANGED <<d_codec2, codec2_frames>>
          \/ /\ position # NoPosition
             /\ IsCodec2(position)
             /\ d_frame' = frame
             /\ IF codec2_bit(position) = Codec2Bits
                THEN /\ codec2_frames' = Append(codec2_frames,
                            [of |-> Len(radio'), bits |-> codec2])
                     /\ d_codec2' = Zeros(Codec2Bits)
                ELSE /\ codec2_frames' = codec2_frames
                     /\ d_codec2' = codec2
  BY <1>1, <1>3, <1>4, <1>9, <1>11, Zenon DEF Demux, Start
<1>14. d_position' \in NoPosition .. PacketBits
  BY <1>1, <1>5, <1>13 DEF NoPosition
<1>15. MayAppend(frames, frames', Len(radio'), FrameBits)
  BY <1>2, <1>13, Zenon DEF MayAppend
<1>16. d_frame' \in Bits(FrameBits)
  BY <1>6, <1>8, <1>10, <1>13, Zenon
<1>17. d_codec2' \in Bits(Codec2Bits)
  BY <1>2, <1>7, <1>12, <1>13, Zenon
<1>18. MayAppend(codec2_frames, codec2_frames', Len(radio'), Codec2Bits)
  BY <1>12, <1>13, Zenon DEF MayAppend
<1> QED BY <1>14, <1>15, <1>16, <1>17, <1>18

\* An item without a packet changes nothing.
LEMMA DemuxIdle ==
    ASSUME NEW bit, Demux(bit, FALSE), d_position = NoPosition
    PROVE  UNCHANGED <<d_position, d_frame, d_codec2, frames, codec2_frames>>
<1>1. NoPosition # PacketBits
  BY CountAtEnds DEF NoPosition
<1> QED BY <1>1, Zenon DEF Demux, frame_cleared

\* The item after a packet publishes the frame.
LEMMA DemuxEnds ==
    ASSUME NEW bit, Demux(bit, FALSE), d_position = PacketBits
    PROVE  /\ d_position' = NoPosition /\ d_frame' = Zeros(FrameBits)
           /\ UNCHANGED <<d_codec2, codec2_frames>>
           /\ frames' = Append(frames, [of |-> Len(radio'), bits |-> d_frame])
BY Zenon DEF Demux, frame_cleared

\* An item of a packet is ored to the frame or to codec2.
LEMMA DemuxReads ==
    ASSUME NEW bit, NEW tagged \in BOOLEAN, Demux(bit, tagged), NEW p \in 0 .. PacketBits - 1,
           Start(tagged) = p
    PROVE  /\ d_position' = p + 1 /\ frames' = frames
           /\ p \in FramePositions =>
                 /\ d_frame' = Ored(d_frame, frame_bit(p), bit)
                 /\ UNCHANGED <<d_codec2, codec2_frames>>
           /\ p \in Codec2Positions =>
                 /\ d_frame' = d_frame
                 /\ codec2_bit(p) = Codec2Bits =>
                       /\ d_codec2' = Zeros(Codec2Bits)
                       /\ codec2_frames' = Append(codec2_frames, [of |-> Len(radio'),
                              bits |-> Ored(d_codec2, codec2_bit(p), bit)])
                 /\ codec2_bit(p) # Codec2Bits =>
                       /\ d_codec2' = Ored(d_codec2, codec2_bit(p), bit)
                       /\ codec2_frames' = codec2_frames
<1>1. p # NoPosition /\ p # PacketBits
  BY CountAtEnds DEF NoPosition
<1>2. (p \in FramePositions => ~ IsCodec2(p)) /\ (p \in Codec2Positions => IsCodec2(p))
  BY Zenon DEF FramePositions, Codec2Positions
<1>3. frame_cleared(FALSE) = d_frame
  BY Zenon DEF frame_cleared
<1>4. d_position' = p + 1 /\ frames' = frames
  BY <1>1, Zenon DEF Demux, Start
<1>5. (p = PacketBits) = FALSE
  BY <1>1
<1>6. \/ /\ ~ IsCodec2(p)
         /\ d_frame' = Ored(d_frame, frame_bit(p), bit)
         /\ UNCHANGED <<d_codec2, codec2_frames>>
      \/ /\ IsCodec2(p)
         /\ d_frame' = d_frame
         /\ IF codec2_bit(p) = Codec2Bits
            THEN /\ codec2_frames' = Append(codec2_frames, [of |-> Len(radio'),
                        bits |-> Ored(d_codec2, codec2_bit(p), bit)])
                 /\ d_codec2' = Zeros(Codec2Bits)
            ELSE /\ codec2_frames' = codec2_frames
                 /\ d_codec2' = Ored(d_codec2, codec2_bit(p), bit)
  BY <1>1, <1>3, <1>5, Zenon DEF Demux, Start
<1> QED BY <1>2, <1>4, <1>6, Zenon

\* The last position completes a part of codec2.
LEMMA LastPosition ==
    PacketBits - 1 \in Codec2Positions /\ codec2_bit(PacketBits - 1) = Codec2Bits
<1>1. PICK n \in Nat \ {0} : n = PacketBits
  BY CountAtEnds
<1>2. PICK i \in Nat, b \in Nat, c \in Nat :
        i = d_chunk_len - 1 /\ b = d_bits_per_byte - 1 /\ c = Chunks - 1
  BY Lengths
<1>3. PICK y \in Int : y = d_chunk_len * c + i - d_header_len
  BY Lengths
<1>4. Chunks * d_chunk_len - d_header_len = y + 1
  <2>1. d_chunk_len * c = Chunks * d_chunk_len - d_chunk_len
    BY <1>2, Lengths
  <2>2. Chunks * d_chunk_len \in Int
    BY Lengths
  <2> QED BY <1>2, <1>3, <2>1, <2>2, Lengths
<1>5. n = (y + 1) * d_bits_per_byte
  BY <1>1, <1>4 DEF PacketBits, d_packet_len
<1>6. y \in Nat
  <2>1. d_chunk_len * c \in Nat
    BY <1>2, Lengths
  <2> QED BY <1>2, <1>3, <2>1, Lengths
<1>7. n - 1 = d_bits_per_byte * y + b
  BY <1>2, <1>5, <1>6, Lengths
<1>8. i \in 0 .. d_chunk_len - 1 /\ b \in 0 .. d_bits_per_byte - 1
  BY <1>2
<1>9. Place(n - 1, c, i, b)
  BY <1>3, <1>6, <1>7, <1>8, Zenon DEF Place
<1>10. CountAt(n - 1, c, i, b)
  BY <1>9, FrameCountAt
<1>11. i >= frame_part
  BY <1>2, Lengths
<1>12. IsCodec2(n - 1) /\ codec2_bit(n - 1) = (i - frame_part) * d_bits_per_byte + b + 1
  BY <1>10, <1>11, Zenon DEF CountAt
<1>13. (i - frame_part) * d_bits_per_byte + b + 1 = Codec2Bits
  <2>1. i - frame_part = d_codec2_frame_len - 1
    BY <1>2, Lengths
  <2>2. (d_codec2_frame_len - 1) * d_bits_per_byte
          = d_codec2_frame_len * d_bits_per_byte - d_bits_per_byte
    BY Lengths
  <2>3. d_codec2_frame_len * d_bits_per_byte \in Int
    BY Lengths
  <2> QED BY <1>2, <2>1, <2>2, <2>3, Lengths DEF Codec2Bits
<1>14. n - 1 \in 0 .. PacketBits - 1
  BY <1>1
<1> QED BY <1>1, <1>12, <1>13, <1>14 DEF Codec2Positions

\* A bit that is read is where it belongs.
LEMMA NextRead ==
    ASSUME DemuxType, NEW bits \in PacketContents, NEW n \in Nat, NEW p \in 0 .. PacketBits - 1,
           NEW tagged \in BOOLEAN, Demux(bits[p + 1], tagged), Start(tagged) = p,
           Len(radio') = n, ReadUpTo(bits, n, p)
    PROVE  ReadUpTo(bits, n, p + 1)'
<1>1. PICK bit : bit = bits[p + 1]
  OBVIOUS
<1>2. bit \in {0, 1}
  <2>1. bits \in [1 .. PacketBits -> {0, 1}]
    BY DemuxAssumption
  <2>2. p + 1 \in 1 .. PacketBits
    BY CountAtEnds
  <2> QED BY <1>1, <2>1, <2>2
<1>3. /\ d_frame \in Bits(FrameBits)
      /\ d_codec2 \in Bits(Codec2Bits)
      /\ frames \in Seq(Entry(FrameBits))
      /\ codec2_frames \in Seq(Entry(Codec2Bits))
  BY DEF DemuxType
<1>4. /\ Filled(d_frame, FramePart(bits), FrameBefore(p))
      /\ Filled(d_codec2, Codec2Parts(bits)[Codec2Before(p) \div Codec2Bits + 1],
                Codec2Before(p) % Codec2Bits)
      /\ FirstOut(frames, n, <<>>, 0)
      /\ FirstOut(codec2_frames, n, Codec2Parts(bits), Codec2Before(p) \div Codec2Bits)
  BY DEF ReadUpTo
<1>5. FrameBits \in Nat /\ Codec2Bits \in Nat \ {0}
  BY CountAtEnds
<1>6. frames' = frames
  BY <1>1, DemuxReads
<1>7. SUFFICES /\ Filled(d_frame', FramePart(bits), FrameBefore(p + 1))
               /\ Filled(d_codec2', Codec2Parts(bits)[Codec2Before(p + 1) \div Codec2Bits + 1],
                         Codec2Before(p + 1) % Codec2Bits)
               /\ FirstOut(codec2_frames', n, Codec2Parts(bits),
                           Codec2Before(p + 1) \div Codec2Bits)
  BY <1>4, <1>6, Zenon DEF ReadUpTo
<1>8. CASE p \in FramePositions
  <2>1. /\ frame_bit(p) = FrameBefore(p) + 1
        /\ frame_bit(p) \in 1 .. FrameBits
        /\ FramePart(bits)[frame_bit(p)] = bit
        /\ FrameBefore(p + 1) = FrameBefore(p) + 1
        /\ Codec2Before(p + 1) = Codec2Before(p)
    BY <1>1, <1>8, FramePosition
  <2>2. d_frame' = Ored(d_frame, frame_bit(p), bit) /\ UNCHANGED <<d_codec2, codec2_frames>>
    BY <1>1, <1>8, DemuxReads
  <2>3. PICK k \in 0 .. FrameBits - 1 : k = FrameBefore(p)
    <3>1. FrameBefore(p) \in Nat
      <4>1. p \in 0 .. PacketBits
        BY CountAtEnds
      <4> QED BY <4>1, CountedBefore
    <3> QED BY <1>5, <2>1, <3>1
  <2>4. Filled(Ored(d_frame, k + 1, bit), FramePart(bits), k + 1)
    BY <1>2, <1>3, <1>4, <1>5, <2>1, <2>3, FilledWithBit
  <2> QED BY <1>4, <2>1, <2>2, <2>3, <2>4
<1>9. CASE p \in Codec2Positions
  <2>1. PICK k \in 0 .. Chunks - 1 :
          /\ Codec2Before(p) \div Codec2Bits = k
          /\ codec2_bit(p) \in 1 .. Codec2Bits
          /\ Codec2Before(p) % Codec2Bits = codec2_bit(p) - 1
          /\ Codec2Parts(bits)[k + 1][codec2_bit(p)] = bit
          /\ FrameBefore(p + 1) = FrameBefore(p)
          /\ codec2_bit(p) = Codec2Bits =>
                /\ Codec2Before(p + 1) \div Codec2Bits = k + 1
                /\ Codec2Before(p + 1) % Codec2Bits = 0
          /\ codec2_bit(p) # Codec2Bits =>
                /\ Codec2Before(p + 1) \div Codec2Bits = k
                /\ Codec2Before(p + 1) % Codec2Bits = codec2_bit(p)
    BY <1>1, <1>9, Codec2Position
  <2>2. PICK r \in 0 .. Codec2Bits - 1 : r = codec2_bit(p) - 1
    BY <1>5, <2>1
  <2>3. r + 1 = codec2_bit(p)
    BY <1>5, <2>1, <2>2
  <2>4. PICK part : part = Codec2Parts(bits)[k + 1]
    OBVIOUS
  <2>5. PICK codec2 : codec2 = Ored(d_codec2, codec2_bit(p), bit)
    OBVIOUS
  <2>6. Filled(d_codec2, part, r) /\ part[r + 1] = bit
    BY <1>4, <2>1, <2>2, <2>3, <2>4
  <2>7. codec2 \in Bits(Codec2Bits) /\ Filled(codec2, part, r + 1)
    BY <1>2, <1>3, <1>5, <2>3, <2>5, <2>6, FilledWithBit
  <2>8. /\ d_frame' = d_frame
        /\ codec2_bit(p) = Codec2Bits =>
              /\ d_codec2' = Zeros(Codec2Bits)
              /\ codec2_frames' = Append(codec2_frames, [of |-> Len(radio'), bits |-> codec2])
        /\ codec2_bit(p) # Codec2Bits => d_codec2' = codec2 /\ codec2_frames' = codec2_frames
    BY <1>1, <1>9, <2>5, DemuxReads
  <2>9. Filled(d_frame', FramePart(bits), FrameBefore(p + 1))
    BY <1>4, <2>1, <2>8
  <2>10. CASE codec2_bit(p) # Codec2Bits
    BY <1>4, <2>1, <2>3, <2>4, <2>7, <2>8, <2>9, <2>10, Zenon
  <2>11. CASE codec2_bit(p) = Codec2Bits
    <3>1. codec2 = part
      <4>1. Filled(codec2, part, Codec2Bits)
        BY <2>3, <2>7, <2>11
      <4>2. k + 1 \in 1 .. Chunks
        BY Lengths
      <4>3. part = [i \in 1 .. Codec2Bits |-> part[i]]
        <5>1. \A c \in 1 .. Chunks :
                Codec2Parts(bits)[c] = [i \in 1 .. Codec2Bits |-> Codec2Parts(bits)[c][i]]
          BY PartsAre, Zenon
        <5>2. Codec2Parts(bits)[k + 1]
                = [i \in 1 .. Codec2Bits |-> Codec2Parts(bits)[k + 1][i]]
          BY <4>2, <5>1, Zenon
        <5> QED BY <2>4, <5>2, Zenon
      <4> QED BY <1>5, <2>7, <4>1, <4>3, FilledAtEnds
    <3>2. FirstOut(codec2_frames', n, Codec2Parts(bits), k + 1)
      <4>1. FirstOut(codec2_frames, n, Codec2Parts(bits), k)
        BY <1>4, <2>1, Zenon
      <4>2. Codec2Parts(bits)[k + 1] \in Bits(Codec2Bits)
        BY <2>4, <2>7, <3>1, Zenon
      <4>3. FirstOut(Append(codec2_frames, [of |-> n, bits |-> Codec2Parts(bits)[k + 1]]), n,
                     Codec2Parts(bits), k + 1)
        <5>1. k \in Nat /\ Codec2Bits \in Nat
          BY <1>5
        <5> QED BY <1>3, <4>1, <4>2, <5>1, OneMoreOut, Zenon
      <4> QED BY <2>4, <2>8, <2>11, <3>1, <4>3, Zenon
    <3>3. Filled(d_codec2', Codec2Parts(bits)[Codec2Before(p + 1) \div Codec2Bits + 1],
                 Codec2Before(p + 1) % Codec2Bits)
      BY <1>5, <2>1, <2>8, <2>11, FilledAtEnds
    <3> QED BY <2>1, <2>9, <2>11, <3>2, <3>3, Zenon
  <2> QED BY <2>10, <2>11, Zenon
<1>10. p \in FramePositions \/ p \in Codec2Positions
  BY DEF FramePositions, Codec2Positions
<1> QED BY <1>8, <1>9, <1>10, Zenon

------------------------------------------------------------------------------
\* What a step publishes is of the last packet: what came out of others stays so.
LEMMA OthersStay ==
    ASSUME NEW l \in Nat, NEW s \in Seq(Entry(l)), NEW t, NEW n \in Nat, MayAppend(s, t, n, l)
    PROVE  /\ t \in Seq(Entry(l))
           /\ OfUpTo(s, n) => OfUpTo(t, n)
           /\ \A m \in Nat : \A parts :
                 m # n /\ Len(parts) \in Nat /\ DOMAIN parts = 1 .. Len(parts)
                   /\ ComeOut(s, m, parts) => ComeOut(t, m, parts)
<1>1. CASE t = s
  BY <1>1, Zenon
<1>2. CASE \E v \in Bits(l) : t = Append(s, [of |-> n, bits |-> v])
  <2>1. PICK e \in Entry(l) : t = Append(s, e) /\ e.of = n
    <3>1. PICK v \in Bits(l) : t = Append(s, [of |-> n, bits |-> v])
      BY <1>2
    <3>2. [of |-> n, bits |-> v] \in Entry(l) /\ [of |-> n, bits |-> v].of = n
      BY DEF Entry
    <3> QED BY <3>1, <3>2, Zenon
  <2>2. /\ t \in Seq(Entry(l)) /\ DOMAIN s = 1 .. Len(s) /\ DOMAIN t = 1 .. Len(s) + 1
        /\ \A j \in 1 .. Len(s) : t[j] = s[j]
        /\ t[Len(s) + 1] = e
    BY <2>1, EntryAdded
  <2>3. ASSUME OfUpTo(s, n) PROVE OfUpTo(t, n)
    <3>1. SUFFICES ASSUME NEW j \in 1 .. Len(s) + 1 PROVE t[j].of <= n
      BY <2>2, Zenon DEF OfUpTo
    <3>2. CASE j = Len(s) + 1
      BY <2>1, <2>2, <3>2
    <3>3. CASE j # Len(s) + 1
      <4>1. j \in 1 .. Len(s)
        BY <3>3
      <4> QED BY <2>2, <2>3, <4>1, Zenon DEF OfUpTo
    <3> QED BY <3>2, <3>3
  <2>4. ASSUME NEW m \in Nat, NEW parts, m # n, Len(parts) \in Nat,
               DOMAIN parts = 1 .. Len(parts), ComeOut(s, m, parts)
        PROVE  ComeOut(t, m, parts)
    BY <2>1, <2>4, StaysOut, Zenon
  <2> QED BY <2>2, <2>3, <2>4, Zenon
<1> QED BY <1>1, <1>2, Zenon DEF MayAppend

\* A packet comes out whole.
CameOut(n) == /\ ComeOut(frames, n, <<FramePart(radio[n])>>)
              /\ ComeOut(codec2_frames, n, Codec2Parts(radio[n]))

\* What has come out of a packet stays.
LEMMA CameOutStays ==
    ASSUME DemuxType, NEW bit \in {0, 1}, NEW tagged \in BOOLEAN, Demux(bit, tagged),
           Len(radio') \in Nat, NEW m \in 1 .. Len(radio), radio'[m] = radio[m],
           m # Len(radio'), CameOut(m)
    PROVE  CameOut(m)'
<1>1. PICK n \in Nat : n = Len(radio')
  OBVIOUS
<1>2. m \in Nat /\ m # n /\ FrameBits \in Nat /\ Codec2Bits \in Nat
  BY <1>1, CountAtEnds DEF DemuxType
<1>3. frames \in Seq(Entry(FrameBits)) /\ codec2_frames \in Seq(Entry(Codec2Bits))
  BY DEF DemuxType
<1>4. /\ MayAppend(frames, frames', n, FrameBits)
      /\ MayAppend(codec2_frames, codec2_frames', n, Codec2Bits)
  BY <1>1, DemuxTyped, Zenon
<1>5. PICK f : f = <<FramePart(radio[m])>>
  OBVIOUS
<1>6. PICK c : c = Codec2Parts(radio[m])
  OBVIOUS
<1>7. Len(f) \in Nat /\ DOMAIN f = 1 .. Len(f)
  BY <1>5
<1>8. Len(c) \in Nat /\ DOMAIN c = 1 .. Len(c)
  <2>1. c = [x \in 1 .. Chunks |-> c[x]] /\ Len(c) = Chunks
    BY <1>6, PartsAre, Zenon
  <2> QED BY <2>1, Lengths
<1>9. ComeOut(frames, m, f) /\ ComeOut(codec2_frames, m, c)
  BY <1>5, <1>6, Zenon DEF CameOut
<1>10. ComeOut(frames', m, f)
  BY <1>2, <1>3, <1>4, <1>7, <1>9, OthersStay, Zenon
<1>11. ComeOut(codec2_frames', m, c)
  BY <1>2, <1>3, <1>4, <1>8, <1>9, OthersStay, Zenon
<1> QED BY <1>5, <1>6, <1>10, <1>11, Zenon DEF CameOut

\* The invariant at first.
LEMMA DemuxInvInitially == DemuxInit => DemuxInv
<1>1. SUFFICES ASSUME DemuxInit PROVE DemuxInv
  OBVIOUS
<1>2. /\ d_position = -1 /\ d_frame = Zeros(FrameBits) /\ d_codec2 = Zeros(Codec2Bits)
      /\ radio = <<>> /\ on_air = <<>> /\ gap = 0 /\ false_tags = <<>>
      /\ frames = <<>> /\ codec2_frames = <<>>
  BY <1>1 DEF DemuxInit, NoPosition
<1>3. PacketBits \in Nat /\ FrameBits \in Nat /\ Codec2Bits \in Nat
  BY CountAtEnds
<1>4. DemuxType
  <2>1. d_frame \in Bits(FrameBits) /\ d_codec2 \in Bits(Codec2Bits)
    BY <1>2, <1>3, FilledAtEnds
  <2>2. d_position \in NoPosition .. PacketBits
    BY <1>2, <1>3 DEF NoPosition
  <2> QED BY <1>2, <2>1, <2>2 DEF DemuxType
<1>5. OnAir
  BY <1>2, <1>3 DEF OnAir
<1>6. OfSent
  BY <1>2 DEF OfSent, OfUpTo
<1>7. Between
  BY <1>2 DEF Between
<1>8. ReadFromStart
  BY <1>2, <1>7 DEF ReadFromStart, NoPosition
<1>9. LastPacketRead
  BY <1>7, Zenon DEF LastPacketRead
<1>10. FalseTagSpoilsTwo
  <2>1. Complete = {}
    BY <1>2 DEF Complete
  <2> QED BY <2>1, Zenon DEF FalseTagSpoilsTwo
<1> QED BY <1>4, <1>5, <1>6, <1>8, <1>9, <1>10 DEF DemuxInv

\* FalseTagSpoilsTwo says that the packets that are Clean, as is the one before, come out.
LEMMA CleanComeOut ==
    FalseTagSpoilsTwo <=> \A n \in Complete : Clean(n - 1) /\ Clean(n) => CameOut(n)
<1>1. \A n : {n - 1, n} \cap Range(false_tags) = {} <=> Clean(n - 1) /\ Clean(n)
  BY Zenon DEF Clean
<1> QED BY <1>1, Zenon DEF FalseTagSpoilsTwo, CameOut

\* The parts of the invariant that an item keeps whatever it is.
LEMMA ItemKeeps ==
    ASSUME DemuxType, OfSent, NEW bit \in {0, 1}, NEW tagged \in BOOLEAN, Demux(bit, tagged),
           radio' \in Seq(PacketContents), on_air' \in Seq({0, 1}), gap' \in Nat,
           false_tags' \in Seq(0 .. Len(radio')), Len(radio) <= Len(radio')
    PROVE  DemuxType' /\ OfSent'
<1>1. PICK n \in Nat, z \in Nat : n = Len(radio') /\ z = Len(radio)
  BY DEF DemuxType
<1>2. frames \in Seq(Entry(FrameBits)) /\ codec2_frames \in Seq(Entry(Codec2Bits))
  BY DEF DemuxType
<1>3. /\ d_position' \in NoPosition .. PacketBits
      /\ d_frame' \in Bits(FrameBits)
      /\ d_codec2' \in Bits(Codec2Bits)
      /\ MayAppend(frames, frames', n, FrameBits)
      /\ MayAppend(codec2_frames, codec2_frames', n, Codec2Bits)
  BY <1>1, DemuxTyped, Zenon
<1>4. FrameBits \in Nat /\ Codec2Bits \in Nat
  BY CountAtEnds
<1>5. OfUpTo(frames, n) /\ OfUpTo(codec2_frames, n)
  <2>1. ASSUME NEW l \in Nat, NEW s \in Seq(Entry(l)), OfUpTo(s, z) PROVE OfUpTo(s, n)
    <3>1. SUFFICES ASSUME NEW j \in DOMAIN s PROVE s[j].of <= n
      BY Zenon DEF OfUpTo
    <3>2. s[j] \in Entry(l) /\ s[j].of <= z
      BY <2>1 DEF OfUpTo
    <3>3. s[j].of \in Nat
      BY <3>2 DEF Entry
    <3>4. z <= n
      BY <1>1
    <3> QED BY <3>2, <3>3, <3>4
  <2>2. OfUpTo(frames, z) /\ OfUpTo(codec2_frames, z)
    BY <1>1 DEF OfSent
  <2> QED BY <1>2, <1>4, <2>1, <2>2, Zenon
<1>6. frames' \in Seq(Entry(FrameBits)) /\ OfUpTo(frames', n)
  BY <1>1, <1>2, <1>3, <1>4, <1>5, OthersStay, Zenon
<1>7. codec2_frames' \in Seq(Entry(Codec2Bits)) /\ OfUpTo(codec2_frames', n)
  BY <1>1, <1>2, <1>3, <1>4, <1>5, OthersStay, Zenon
<1>8. DemuxType'
  BY <1>3, <1>6, <1>7, Zenon DEF DemuxType
<1>9. OfSent'
  BY <1>1, <1>6, <1>7, Zenon DEF OfSent
<1> QED BY <1>8, <1>9

\* A packet has a first bit, and as many behind it as positions.
LEMMA PacketIs ==
    ASSUME NEW bits \in PacketContents
    PROVE  /\ bits \in Seq({0, 1}) /\ Len(bits) = PacketBits /\ bits # <<>>
           /\ Head(bits) = bits[1] /\ bits[1] \in {0, 1}
           /\ Tail(bits) \in Seq({0, 1}) /\ Len(Tail(bits)) = PacketBits - 1
           /\ \A i \in 1 .. PacketBits - 1 : Tail(bits)[i] = bits[i + 1]
<1>1. PICK n \in Nat \ {0} : n = PacketBits
  BY CountAtEnds
<1>2. bits \in [1 .. n -> {0, 1}]
  BY <1>1, DemuxAssumption
<1>3. bits \in Seq({0, 1}) /\ Len(bits) = n
  BY <1>2
<1> QED BY <1>1, <1>3

\* A packet begins.
LEMMA BeginPacketKeeps ==
    ASSUME DemuxInv, NEW bits \in PacketContents, BeginPacket(bits)
    PROVE  DemuxInv'
<1>1. DemuxType /\ OnAir /\ OfSent /\ ReadFromStart /\ FalseTagSpoilsTwo
  BY DEF DemuxInv
<1>2. PICK z \in Nat : z = Len(radio)
  BY <1>1 DEF DemuxType
<1>3. PICK n \in Nat : n = z + 1
  OBVIOUS
<1>4. radio \in Seq(PacketContents) /\ false_tags \in Seq(0 .. z)
  BY <1>1, <1>2 DEF DemuxType
<1>5. /\ on_air = <<>> /\ Between
      /\ radio' = Append(radio, bits) /\ on_air' = Tail(bits) /\ gap' = 0
      /\ Demux(Head(bits), TRUE) /\ false_tags' = false_tags
  BY Zenon DEF BeginPacket, Between
<1>6. /\ radio' \in Seq(PacketContents) /\ Len(radio') = n /\ radio'[n] = bits /\ radio' # <<>>
      /\ \A m \in 1 .. z : radio'[m] = radio[m]
  BY <1>2, <1>3, <1>4, <1>5
<1>7. Head(bits) = bits[1] /\ Head(bits) \in {0, 1} /\ on_air' \in Seq({0, 1})
      /\ Len(on_air') = PacketBits - 1
  BY <1>5, PacketIs
<1>8. false_tags' \in Seq(0 .. Len(radio'))
  <2>1. PICK S : S = 0 .. z
    OBVIOUS
  <2>2. PICK T : T = 0 .. n
    OBVIOUS
  <2>3. S \subseteq T
    BY <1>3, <2>1, <2>2
  <2>4. false_tags \in Seq(S)
    BY <1>4, <2>1, Zenon
  <2>5. false_tags \in Seq(T)
    BY <2>3, <2>4
  <2> QED BY <1>5, <1>6, <2>2, <2>5, Zenon
<1>9. DemuxType' /\ OfSent'
  <2>1. gap' \in Nat /\ Len(radio) <= Len(radio') /\ TRUE \in BOOLEAN
    BY <1>2, <1>3, <1>5, <1>6
  <2> QED BY <1>1, <1>5, <1>6, <1>7, <1>8, <2>1, ItemKeeps
<1>10. NextPosition' = 1 /\ PacketBits \in Nat \ {0}
  BY <1>7, CountAtEnds DEF NextPosition
<1>11. OnAir'
  <2>1. ASSUME NEW i \in 1 .. Len(on_air') PROVE on_air'[i] = bits[1 + i]
    <3>1. i \in 1 .. PacketBits - 1 /\ 1 + i = i + 1
      BY <1>7, <1>10
    <3> QED BY <1>5, <3>1, PacketIs
  <2>2. Len(on_air') <= PacketBits
    BY <1>7, <1>10
  <2> QED BY <1>5, <1>6, <1>10, <2>1, <2>2 DEF OnAir
<1>12. ~ Between'
  BY <1>5, <1>6 DEF Between
<1>13. /\ Start(TRUE) = 0 /\ 0 \in 0 .. PacketBits - 1 /\ TRUE \in BOOLEAN /\ 0 + 1 = 1
  BY <1>10 DEF Start
<1>14. d_position' = 1
  BY <1>5, <1>13, DemuxReads
<1>15. on_air' = <<>> => d_codec2' = Zeros(Codec2Bits)
  <2>1. SUFFICES ASSUME on_air' = <<>> PROVE d_codec2' = Zeros(Codec2Bits)
    OBVIOUS
  <2>2. PacketBits - 1 = 0
    BY <1>7, <2>1
  <2>3. 0 \in Codec2Positions /\ codec2_bit(0) = Codec2Bits
    BY <2>2, LastPosition
  <2> QED BY <1>5, <1>13, <2>3, DemuxReads
<1>16. ReadFromStart'
  BY <1>10, <1>12, <1>14, <1>15, Zenon DEF ReadFromStart
<1>17. \A m : Clean(m)' <=> Clean(m)
  BY <1>5, Zenon DEF Clean
<1>18. LastPacketRead'
  <2>1. SUFFICES ASSUME Clean(z) PROVE ReadUpTo(bits, n, 1)'
    <3>1. Len(radio') - 1 = z
      BY <1>2, <1>3, <1>6
    <3> QED BY <1>6, <1>10, <1>17, <3>1, Zenon DEF LastPacketRead
  <2>2. d_frame = Zeros(FrameBits) /\ d_codec2 = Zeros(Codec2Bits)
    BY <1>1, <1>2, <1>5, <2>1, Zenon DEF ReadFromStart
  <2>3. FrameBefore(0) = 0 /\ Codec2Before(0) = 0
    BY PositionsCounted
  <2>4. FrameBits \in Nat /\ Codec2Bits \in Nat \ {0}
    BY CountAtEnds
  <2>5. 0 \div Codec2Bits = 0 /\ 0 % Codec2Bits = 0
    BY <2>4
  <2>6. Filled(d_frame, FramePart(bits), 0)
        /\ Filled(d_codec2, Codec2Parts(bits)[0 + 1], 0)
    BY <2>2, <2>4, FilledAtEnds
  <2>7. ASSUME NEW parts PROVE FirstOut(frames, n, parts, 0) /\ FirstOut(codec2_frames, n, parts, 0)
    <3>1. n - 1 = z
      BY <1>3
    <3>2. OfUpTo(frames, n - 1) /\ OfUpTo(codec2_frames, n - 1)
      BY <1>1, <1>2, <3>1, Zenon DEF OfSent
    <3>3. frames \in Seq(Entry(FrameBits)) /\ codec2_frames \in Seq(Entry(Codec2Bits))
      BY <1>1 DEF DemuxType
    <3> QED BY <2>4, <3>2, <3>3, OutAtEnds
  <2>8. ReadUpTo(bits, n, 0)
    BY <2>3, <2>5, <2>6, <2>7, Zenon DEF ReadUpTo
  <2>9. Demux(bits[0 + 1], TRUE)
    BY <1>5, <1>7, <1>13, Zenon
  <2>10. ReadUpTo(bits, n, 0 + 1)'
    BY <1>1, <1>6, <1>13, <2>8, <2>9, NextRead
  <2> QED BY <1>13, <2>10, Zenon
<1>19. FalseTagSpoilsTwo'
  <2>1. SUFFICES ASSUME NEW m \in Complete', Clean(m - 1), Clean(m) PROVE CameOut(m)'
    <3>1. FalseTagSpoilsTwo' <=> \A m \in Complete' : Clean(m - 1)' /\ Clean(m)' => CameOut(m)'
      <4>1. \A m : {m - 1, m} \cap Range(false_tags') = {} <=> Clean(m - 1)' /\ Clean(m)'
        BY Zenon DEF Clean
      <4> QED BY <4>1, Zenon DEF FalseTagSpoilsTwo, CameOut
    <3> QED BY <1>17, <3>1, Zenon
  <2>2. m \in 1 .. n /\ (m < n \/ gap' > 0)
    BY <1>6, <2>1 DEF Complete
  <2>3. m \in 1 .. z /\ m # n /\ m \in Nat
    BY <1>3, <1>5, <2>2
  <2>4. radio # <<>>
    BY <1>2, <2>3
  <2>5. gap > 0
    BY <1>5, <2>4 DEF Between
  <2>6. m \in Complete
    BY <1>2, <1>4, <2>3, <2>5 DEF Complete
  <2>7. CameOut(m)
    BY <1>1, <2>1, <2>6, CleanComeOut, Zenon
  <2> QED BY <1>1, <1>2, <1>5, <1>6, <1>7, <1>13, <2>3, <2>7, CameOutStays
<1> QED BY <1>9, <1>11, <1>16, <1>18, <1>19, Zenon DEF DemuxInv

\* A tag that is set where no packet begins.
LEMMA FalseTagSet ==
    ASSUME DemuxType, NEW tagged \in BOOLEAN, TagMayBeFalse(tagged),
           NEW n \in Nat, n = Len(radio)
    PROVE  /\ false_tags' \in Seq(0 .. n)
           /\ \A m : Clean(m)' => Clean(m)
           /\ Clean(n)' => ~ tagged /\ false_tags' = false_tags
<1>1. PICK S : S = 0 .. n
  OBVIOUS
<1>2. false_tags \in Seq(S) /\ n \in S
  BY <1>1 DEF DemuxType
<1>3. CASE tagged
  <2>1. false_tags' = Append(false_tags, n)
    BY <1>3 DEF TagMayBeFalse
  <2>2. /\ false_tags' \in Seq(S)
        /\ DOMAIN false_tags' = 1 .. Len(false_tags) + 1
        /\ DOMAIN false_tags = 1 .. Len(false_tags)
        /\ \A j \in 1 .. Len(false_tags) : false_tags'[j] = false_tags[j]
        /\ false_tags'[Len(false_tags) + 1] = n
    BY <1>2, <2>1
  <2>3. \A j \in 1 .. Len(false_tags) : j \in 1 .. Len(false_tags) + 1
    BY <1>2
  <2>4. Len(false_tags) + 1 \in 1 .. Len(false_tags) + 1
    BY <1>2
  <2>5. \A m : Clean(m)' => Clean(m)
    BY <2>2, <2>3, Zenon DEF Clean, Range
  <2>6. ~ Clean(n)'
    BY <2>2, <2>4, Zenon DEF Clean, Range
  <2> QED BY <1>1, <2>2, <2>5, <2>6, Zenon
<1>4. CASE ~ tagged
  <2>1. false_tags' = false_tags
    BY <1>4 DEF TagMayBeFalse
  <2> QED BY <1>1, <1>2, <1>4, <2>1, Zenon DEF Clean
<1> QED BY <1>3, <1>4

\* The next bit of a packet.
LEMMA NextBitKeeps ==
    ASSUME DemuxInv, NEW tagged \in BOOLEAN, NextBit(tagged)
    PROVE  DemuxInv'
<1>1. DemuxType /\ OnAir /\ OfSent /\ ReadFromStart /\ LastPacketRead /\ FalseTagSpoilsTwo
  BY DEF DemuxInv
<1>2. PICK n \in Nat : n = Len(radio)
  BY <1>1 DEF DemuxType
<1>3. radio \in Seq(PacketContents) /\ on_air \in Seq({0, 1})
  BY <1>1 DEF DemuxType
<1>4. /\ on_air # <<>> /\ TagMayBeFalse(tagged) /\ on_air' = Tail(on_air)
      /\ radio' = radio /\ gap' = gap /\ Demux(Head(on_air), tagged)
  BY Zenon DEF NextBit
<1>5. radio # <<>> /\ gap = 0 /\ n \in 1 .. n
  <2>1. radio # <<>> /\ gap = 0
    BY <1>1, <1>4 DEF OnAir
  <2>2. n # 0
    BY <1>2, <1>3, <2>1
  <2> QED BY <2>1, <2>2
<1>6. PICK l \in Nat \ {0} : l = Len(on_air) /\ l <= PacketBits
  BY <1>1, <1>3, <1>4 DEF OnAir
<1>7. PICK p \in 0 .. PacketBits - 1 : p = PacketBits - l
  BY <1>6, CountAtEnds
<1>8. PICK bits \in PacketContents : bits = radio[n]
  BY <1>2, <1>3, <1>5
<1>9. \A i \in 1 .. l : on_air[i] = bits[p + i]
  BY <1>1, <1>2, <1>5, <1>6, <1>7, <1>8 DEF OnAir, NextPosition
<1>10. /\ Head(on_air) = bits[p + 1] /\ Head(on_air) \in {0, 1}
       /\ on_air' \in Seq({0, 1}) /\ Len(on_air') = l - 1
       /\ \A i \in 1 .. l - 1 : on_air'[i] = on_air[i + 1]
  <2>1. Head(on_air) = on_air[1] /\ 1 \in 1 .. l
    BY <1>3, <1>4, <1>6
  <2> QED BY <1>3, <1>4, <1>6, <1>9, <2>1
<1>11. NextPosition = p /\ NextPosition' = p + 1
  <2>1. PacketBits \in Nat
    BY CountAtEnds
  <2> QED BY <1>6, <1>7, <1>10, <2>1 DEF NextPosition
<1>12. /\ false_tags' \in Seq(0 .. n)
       /\ \A m : Clean(m)' => Clean(m)
       /\ Clean(n)' => ~ tagged /\ false_tags' = false_tags
  BY <1>1, <1>2, <1>4, FalseTagSet
<1>13. DemuxType' /\ OfSent'
  <2>1. gap' \in Nat /\ Len(radio) <= Len(radio') /\ radio' \in Seq(PacketContents)
        /\ false_tags' \in Seq(0 .. Len(radio'))
    BY <1>2, <1>3, <1>4, <1>5, <1>12
  <2> QED BY <1>1, <1>4, <1>10, <2>1, ItemKeeps
<1>14. OnAir'
  <2>1. ASSUME NEW i \in 1 .. Len(on_air') PROVE on_air'[i] = bits[p + 1 + i]
    <3>1. i \in 1 .. l - 1 /\ i + 1 \in 1 .. l /\ p + (i + 1) = p + 1 + i
      BY <1>6, <1>7, <1>10
    <3> QED BY <1>9, <1>10, <3>1
  <2>2. Len(on_air') <= PacketBits
    BY <1>6, <1>10, CountAtEnds
  <2> QED BY <1>2, <1>4, <1>5, <1>8, <1>11, <2>1, <2>2 DEF OnAir
<1>15. ~ Between /\ ~ Between'
  BY <1>4, <1>5 DEF Between
<1>16. ASSUME Clean(n)'
       PROVE  Start(tagged) = p /\ d_position' = p + 1
              /\ (on_air' = <<>> => d_codec2' = Zeros(Codec2Bits))
  <2>1. ~ tagged /\ Clean(n)
    BY <1>12, <1>16, Zenon
  <2>2. d_position = p
    BY <1>1, <1>2, <1>11, <1>15, <2>1, Zenon DEF ReadFromStart
  <2>3. Start(tagged) = p
    BY <2>1, <2>2, Zenon DEF Start
  <2>4. d_position' = p + 1
    BY <1>4, <2>3, DemuxReads
  <2>5. ASSUME on_air' = <<>> PROVE d_codec2' = Zeros(Codec2Bits)
    <3>1. l = 1
      BY <1>10, <2>5
    <3>2. p = PacketBits - 1
      BY <1>7, <3>1
    <3>3. p \in Codec2Positions /\ codec2_bit(p) = Codec2Bits
      BY <3>2, LastPosition
    <3> QED BY <1>4, <2>3, <3>3, DemuxReads
  <2> QED BY <2>3, <2>4, <2>5
<1>17. ReadFromStart'
  BY <1>2, <1>4, <1>11, <1>15, <1>16, Zenon DEF ReadFromStart
<1>18. LastPacketRead'
  <2>1. SUFFICES ASSUME Clean(n - 1)', Clean(n)' PROVE ReadUpTo(bits, n, p + 1)'
    BY <1>2, <1>4, <1>8, <1>11, Zenon DEF LastPacketRead
  <2>2. Clean(n - 1) /\ Clean(n)
    BY <1>12, <2>1, Zenon
  <2>3. ReadUpTo(bits, n, p)
    BY <1>1, <1>2, <1>8, <1>11, <1>15, <2>2, Zenon DEF LastPacketRead
  <2>4. Demux(bits[p + 1], tagged)
    BY <1>4, <1>10, Zenon
  <2>5. Start(tagged) = p
    BY <1>16, <2>1
  <2>6. Len(radio') = n
    BY <1>2, <1>4
  <2> QED BY <1>1, <2>3, <2>4, <2>5, <2>6, NextRead
<1>19. FalseTagSpoilsTwo'
  <2>1. SUFFICES ASSUME NEW m \in Complete', Clean(m - 1)', Clean(m)' PROVE CameOut(m)'
    <3>1. \A m : {m - 1, m} \cap Range(false_tags') = {} <=> Clean(m - 1)' /\ Clean(m)'
      BY Zenon DEF Clean
    <3> QED BY <3>1, Zenon DEF FalseTagSpoilsTwo, CameOut
  <2>2. Complete' = Complete
    BY <1>4, Zenon DEF Complete
  <2>3. m \in Complete /\ Clean(m - 1) /\ Clean(m)
    BY <1>12, <2>1, <2>2, Zenon
  <2>4. CameOut(m)
    BY <1>1, <2>3, CleanComeOut, Zenon
  <2>5. m \in 1 .. Len(radio) /\ m # Len(radio') /\ Len(radio') \in Nat
    BY <1>2, <1>3, <1>4, <1>5, <2>3 DEF Complete
  <2>6. radio'[m] = radio[m]
    BY <1>4
  <2> QED BY <1>1, <1>4, <1>10, <2>4, <2>5, <2>6, CameOutStays
<1> QED BY <1>13, <1>14, <1>17, <1>18, <1>19, Zenon DEF DemuxInv

\* The packet that ends has come out with the bit behind it.
LEMMA ReadComesOut ==
    ASSUME DemuxType, NEW n \in DOMAIN radio, n \in Nat, ReadUpTo(radio[n], n, PacketBits),
           frames' = Append(frames, [of |-> n, bits |-> d_frame]),
           codec2_frames' = codec2_frames, radio' = radio
    PROVE  CameOut(n)'
<1>1. PICK bits : bits = radio[n]
  OBVIOUS
<1>2. FrameBits \in Nat /\ Codec2Bits \in Nat \ {0} /\ Chunks \in Nat
  BY CountAtEnds, Lengths
<1>3. /\ d_frame \in Bits(FrameBits)
      /\ frames \in Seq(Entry(FrameBits))
      /\ codec2_frames \in Seq(Entry(Codec2Bits))
  BY DEF DemuxType
<1>4. /\ Filled(d_frame, FramePart(bits), FrameBefore(PacketBits))
      /\ FirstOut(frames, n, <<>>, 0)
      /\ FirstOut(codec2_frames, n, Codec2Parts(bits), Codec2Before(PacketBits) \div Codec2Bits)
  BY <1>1, Zenon DEF ReadUpTo
<1>5. FrameBefore(PacketBits) = FrameBits /\ Codec2Before(PacketBits) = Chunks * Codec2Bits
  BY PositionsCounted
<1>6. d_frame = FramePart(bits)
  <2>1. FramePart(bits) = [k \in 1 .. FrameBits |-> FramePart(bits)[k]]
    BY PartsAre, Zenon
  <2> QED BY <1>2, <1>3, <1>4, <1>5, <2>1, FilledAtEnds
<1>7. PICK f : f = <<FramePart(bits)>>
  OBVIOUS
<1>8. f[0 + 1] = d_frame /\ Len(f) = 0 + 1 /\ DOMAIN f = 1 .. Len(f)
  BY <1>6, <1>7
<1>9. FirstOut(frames, n, f, 0)
  <2>1. \A m : \A i \in 1 .. 0 : frames[m + i].bits = f[i]
    OBVIOUS
  <2> QED BY <1>4, <2>1, Zenon DEF FirstOut
<1>10. FirstOut(frames', n, f, 0 + 1)
  <2>1. 0 \in Nat /\ f[0 + 1] \in Bits(FrameBits)
    BY <1>3, <1>8
  <2>2. FirstOut(Append(frames, [of |-> n, bits |-> f[0 + 1]]), n, f, 0 + 1)
    BY <1>2, <1>3, <1>9, <2>1, OneMoreOut, Zenon
  <2> QED BY <1>8, <2>2, Zenon
<1>11. frames' \in Seq(Entry(FrameBits))
  <2>1. [of |-> n, bits |-> d_frame] \in Entry(FrameBits)
    BY <1>3 DEF Entry
  <2> QED BY <1>3, <2>1, EntryAdded
<1>12. ComeOut(frames', n, f)
  BY <1>2, <1>8, <1>10, <1>11, OutAtEnds, Zenon
<1>13. Codec2Before(PacketBits) \div Codec2Bits = Chunks
  <2>1. PICK w \in Nat \ {0} : w = Codec2Bits
    BY <1>2
  <2>2. PICK K \in Int : K = Chunks
    BY <1>2
  <2>3. 0 \in 0 .. w - 1 /\ K * w = w * K + 0
    OBVIOUS
  <2>4. (w * K + 0) \div w = K
    BY <2>3, Quotient, Zenon
  <2> QED BY <1>5, <2>1, <2>2, <2>3, <2>4, Zenon
<1>14. PICK c : c = Codec2Parts(bits)
  OBVIOUS
<1>15. Len(c) = Chunks /\ DOMAIN c = 1 .. Len(c)
  <2>1. c = [x \in 1 .. Chunks |-> c[x]] /\ Len(c) = Chunks
    BY <1>14, PartsAre, Zenon
  <2> QED BY <2>1
<1>16. ComeOut(codec2_frames, n, c)
  <2>1. FirstOut(codec2_frames, n, c, Len(c))
    BY <1>4, <1>13, <1>14, <1>15, Zenon
  <2>2. Codec2Bits \in Nat
    BY <1>2
  <2> QED BY <1>3, <1>15, <2>1, <2>2, OutAtEnds, Zenon
<1> QED BY <1>1, <1>7, <1>12, <1>14, <1>16, Zenon DEF CameOut

\* A bit between packets.
LEMMA GapBitKeeps ==
    ASSUME DemuxInv, NEW bit \in {0, 1}, NEW tagged \in BOOLEAN, GapBit(bit, tagged)
    PROVE  DemuxInv'
<1>1. DemuxType /\ OnAir /\ OfSent /\ ReadFromStart /\ LastPacketRead /\ FalseTagSpoilsTwo
  BY DEF DemuxInv
<1>2. PICK n \in Nat : n = Len(radio)
  BY <1>1 DEF DemuxType
<1>3. radio \in Seq(PacketContents) /\ on_air \in Seq({0, 1}) /\ gap \in Nat
  BY <1>1 DEF DemuxType
<1>4. /\ on_air = <<>> /\ TagMayBeFalse(tagged) /\ gap' = gap + 1
      /\ radio' = radio /\ on_air' = on_air /\ Demux(bit, tagged)
  BY Zenon DEF GapBit
<1>5. /\ false_tags' \in Seq(0 .. n)
      /\ \A m : Clean(m)' => Clean(m)
      /\ Clean(n)' => ~ tagged /\ false_tags' = false_tags
  BY <1>1, <1>2, <1>4, FalseTagSet
<1>6. DemuxType' /\ OfSent'
  <2>1. gap' \in Nat /\ Len(radio) <= Len(radio') /\ radio' \in Seq(PacketContents)
        /\ false_tags' \in Seq(0 .. Len(radio')) /\ on_air' \in Seq({0, 1})
    BY <1>2, <1>3, <1>4, <1>5
  <2> QED BY <1>1, <1>4, <2>1, ItemKeeps
<1>7. OnAir'
  <2>1. Len(on_air') = 0 /\ PacketBits \in Nat /\ 1 .. 0 = {}
    BY <1>4, CountAtEnds
  <2> QED BY <1>4, <2>1 DEF OnAir
<1>8. Between'
  BY <1>3, <1>4 DEF Between
<1>9. NextPosition = PacketBits
  BY <1>4, CountAtEnds DEF NextPosition
<1>10. ASSUME Clean(n)', Between
       PROVE  UNCHANGED <<d_position, d_frame, d_codec2, frames, codec2_frames>>
              /\ d_position = NoPosition
  <2>1. Clean(n) /\ ~ tagged
    BY <1>5, <1>10, Zenon
  <2>2. d_position = NoPosition
    BY <1>1, <1>2, <1>10, <2>1, Zenon DEF ReadFromStart
  <2>3. tagged = FALSE
    BY <2>1
  <2> QED BY <1>4, <2>2, <2>3, DemuxIdle
<1>11. ASSUME Clean(n)', ~ Between
       PROVE  /\ d_position' = NoPosition /\ d_frame' = Zeros(FrameBits)
              /\ d_codec2' = d_codec2 /\ d_codec2 = Zeros(Codec2Bits)
              /\ codec2_frames' = codec2_frames
              /\ frames' = Append(frames, [of |-> n, bits |-> d_frame])
  <2>1. Clean(n) /\ ~ tagged
    BY <1>5, <1>11, Zenon
  <2>2. d_position = PacketBits /\ d_codec2 = Zeros(Codec2Bits)
    BY <1>1, <1>2, <1>4, <1>9, <1>11, <2>1, Zenon DEF ReadFromStart
  <2>3. tagged = FALSE
    BY <2>1
  <2>4. Len(radio') = n
    BY <1>2, <1>4
  <2> QED BY <1>4, <2>2, <2>3, <2>4, DemuxEnds
<1>12. ReadFromStart'
  <2>1. SUFFICES ASSUME Clean(n)'
                 PROVE  /\ d_position' = NoPosition
                        /\ d_frame' = Zeros(FrameBits)
                        /\ d_codec2' = Zeros(Codec2Bits)
    BY <1>2, <1>4, <1>8, Zenon DEF ReadFromStart
  <2>2. CASE Between
    <3>1. Clean(n)
      BY <1>5, <2>1, Zenon
    <3>2. d_frame = Zeros(FrameBits) /\ d_codec2 = Zeros(Codec2Bits)
      BY <1>1, <1>2, <2>2, <3>1, Zenon DEF ReadFromStart
    <3> QED BY <1>10, <2>1, <2>2, <3>2
  <2>3. CASE ~ Between
    BY <1>11, <2>1, <2>3
  <2> QED BY <2>2, <2>3
<1>13. LastPacketRead'
  BY <1>8, Zenon DEF LastPacketRead
<1>14. FalseTagSpoilsTwo'
  <2>1. SUFFICES ASSUME NEW m \in Complete', Clean(m - 1)', Clean(m)' PROVE CameOut(m)'
    <3>1. \A m : {m - 1, m} \cap Range(false_tags') = {} <=> Clean(m - 1)' /\ Clean(m)'
      BY Zenon DEF Clean
    <3> QED BY <3>1, Zenon DEF FalseTagSpoilsTwo, CameOut
  <2>2. m \in 1 .. n /\ m \in Nat /\ DOMAIN radio = 1 .. n
    BY <1>2, <1>3, <1>4, <2>1 DEF Complete
  <2>3. Clean(m - 1) /\ Clean(m)
    BY <1>5, <2>1, Zenon
  <2>4. m \in 1 .. Len(radio) /\ Len(radio') \in Nat /\ radio'[m] = radio[m] /\ Len(radio') = n
    BY <1>2, <1>4, <2>2
  <2>5. CASE m # n
    <3>1. m \in Complete
      BY <1>2, <2>2, <2>5 DEF Complete
    <3>2. CameOut(m)
      BY <1>1, <2>3, <3>1, CleanComeOut, Zenon
    <3> QED BY <1>1, <1>4, <2>4, <2>5, <3>2, CameOutStays
  <2>6. CASE m = n /\ Between
    <3>1. radio # <<>>
      BY <1>2, <2>2, <2>6
    <3>2. m \in Complete
      BY <2>2, <2>6, <3>1 DEF Complete, Between
    <3>3. CameOut(m)
      BY <1>1, <2>3, <3>2, CleanComeOut, Zenon
    <3>4. frames' = frames /\ codec2_frames' = codec2_frames
      BY <1>10, <2>1, <2>6
    <3> QED BY <1>4, <3>3, <3>4, Zenon DEF CameOut
  <2>7. CASE m = n /\ ~ Between
    <3>1. ReadUpTo(radio[n], n, PacketBits)
      BY <1>1, <1>2, <1>9, <2>3, <2>7, Zenon DEF LastPacketRead
    <3>2. /\ codec2_frames' = codec2_frames
          /\ frames' = Append(frames, [of |-> n, bits |-> d_frame])
      BY <1>11, <2>1, <2>7
    <3>3. n \in DOMAIN radio
      BY <2>2, <2>7
    <3>4. CameOut(n)'
      BY <1>1, <1>4, <3>1, <3>2, <3>3, ReadComesOut
    <3> QED BY <2>7, <3>4, Zenon
  <2> QED BY <2>5, <2>6, <2>7, Zenon
<1> QED BY <1>6, <1>7, <1>12, <1>13, <1>14, Zenon DEF DemuxInv

\* Each step keeps the invariant.
LEMMA DemuxInvKept == DemuxInv /\ [DemuxNext]_demuxVars => DemuxInv'
<1>1. SUFFICES ASSUME DemuxInv, [DemuxNext]_demuxVars PROVE DemuxInv'
  OBVIOUS
<1>2. CASE DemuxNext
  <2>1. CASE \E bits \in PacketContents : BeginPacket(bits)
    BY <1>1, <2>1, BeginPacketKeeps, Zenon
  <2>2. CASE \E tagged \in BOOLEAN : NextBit(tagged)
    BY <1>1, <2>2, NextBitKeeps, Zenon
  <2>3. CASE \E bit \in {0, 1}, tagged \in BOOLEAN : GapBit(bit, tagged)
    BY <1>1, <2>3, GapBitKeeps, Zenon
  <2> QED BY <1>2, <2>1, <2>2, <2>3, Zenon DEF DemuxNext
<1>3. CASE UNCHANGED demuxVars
  <2>1. /\ d_position' = d_position /\ d_frame' = d_frame /\ d_codec2' = d_codec2
        /\ radio' = radio /\ on_air' = on_air /\ gap' = gap /\ false_tags' = false_tags
        /\ frames' = frames /\ codec2_frames' = codec2_frames
    BY <1>3, Zenon DEF demuxVars
  <2> QED BY <1>1, <2>1, Zenon DEF DemuxInv, DemuxType, OnAir, OfSent, ReadFromStart,
             LastPacketRead, FalseTagSpoilsTwo, Complete, Clean, Between, NextPosition,
             ReadUpTo
<1> QED BY <1>1, <1>2, <1>3, Zenon

\* LilacSat-1: what is in d_frame, d_codec2 and d_position of a packet, without false tags.
THEOREM DemuxInvariance == DemuxSpec => []DemuxInv
<1> QED BY DemuxInvInitially, DemuxInvKept, PTL DEF DemuxSpec

\* LilacSat-1: a false tag spoils the packet it falls in or behind and the one after, no more.
THEOREM OnlyTwoSpoilt == DemuxSpec => []FalseTagSpoilsTwo
<1>1. DemuxInv => FalseTagSpoilsTwo
  BY Zenon DEF DemuxInv
<1> QED BY <1>1, DemuxInvariance, PTL
==============================================================================

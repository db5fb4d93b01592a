----------------------------- MODULE CuteTelemetry -----------------------------
(***************************************************************************)
(* python/telemetry/cute_70cm.py: the telemetry parser of CUTE puts the     *)
(* packets of the flight software together, which span several AX.25        *)
(* frames.  A frame has a piece of a packet, a grouping flag that says      *)
(* which piece, and a count; frames get lost on the way.                    *)
(***************************************************************************)
EXTENDS Integers, SequencesExt

CONSTANTS
    CuteApids,      \* the applications on board, each with a count of its own
    SequenceCounts, \* number of values of the count (2^14 in the code)
    MaxPieces,      \* bound: frames the satellite sends
    MaxPiecesLost   \* frames that may be lost in a row

\* More lost frames, and the count would be the same again.
ASSUME LossesAssumption ==
    SequenceCounts \in Nat \ {0} /\ MaxPiecesLost \in 0 .. SequenceCounts - 1

VARIABLES
    pieces,         \* history: the frames sent, and whether they were received
    cute_frames,    \* those kept for the packet being put together
    state,          \* "SEARCH_START" or "SEARCH_MIDDLE"
    parsed          \* history: the packets put together, as numbers of frames

cuteVars == <<pieces, cute_frames, state, parsed>>

CuteInit == /\ pieces = <<>>
            /\ cute_frames = <<>>
            /\ state = "SEARCH_START"
            /\ parsed = <<>>

------------------------------------------------------------------------------
Begins(flag) == flag \in {"GRP_BEGIN", "GRP_FIRST_AND_LAST"}
Ends(flag) == flag \in {"GRP_END", "GRP_FIRST_AND_LAST"}

\* The satellite sends packet after packet: what may follow the last frame.
MayFollow(apid, flag) ==
    IF pieces = <<>> \/ Ends(Last(pieces).flag) THEN Begins(flag)
    ELSE ~Begins(flag) /\ apid = Last(pieces).apid

NextCount(apid) ==
    Cardinality({i \in DOMAIN pieces : pieces[i].apid = apid}) % SequenceCounts

\* Not all of the last MaxPiecesLost frames are lost.
MayBeLost == Len(pieces) >= MaxPiecesLost =>
    \E i \in Len(pieces) - MaxPiecesLost + 1 .. Len(pieces) : pieces[i].received

\* A slip the properties must notice: the count of the next frame does not wrap.
FollowsUnwrapped(p, prev) == p.sequence_count = prev.sequence_count + 1

Follows(p, prev) == p.sequence_count = (prev.sequence_count + 1) % SequenceCounts

\* A slip the properties must notice: the frames are left.
DropState == state' = "SEARCH_START" /\ UNCHANGED <<cute_frames, parsed>>

\* The frame is not kept, nor any before it.
DropAll == cute_frames' = <<>> /\ state' = "SEARCH_START" /\ UNCHANGED parsed

Keep(kept) == cute_frames' = kept /\ state' = "SEARCH_MIDDLE" /\ UNCHANGED parsed

Process(kept) == /\ cute_frames' = <<>>
                 /\ state' = "SEARCH_START"
                 /\ parsed' = Append(parsed, [i \in DOMAIN kept |-> kept[i].number])

SearchStart(p, kept) == CASE p.flag \in {"GRP_MIDDLE", "GRP_END"} -> DropAll
                          [] p.flag = "GRP_BEGIN"                 -> Keep(kept)
                          [] p.flag = "GRP_FIRST_AND_LAST"        -> Process(kept)

SearchMiddle(p, kept) == IF Begins(p.flag) \/ ~Follows(p, Last(cute_frames)) THEN DropAll
                         ELSE IF p.flag = "GRP_MIDDLE" THEN Keep(kept)
                         ELSE Process(kept)

CuteParse(p) ==
    LET kept == Append(cute_frames, p)
    IN  IF state = "SEARCH_START" THEN SearchStart(p, kept) ELSE SearchMiddle(p, kept)

\* The satellite sends a frame, which is received, or is not.
CuteFrame ==
    /\ Len(pieces) < MaxPieces
    /\ \E apid \in CuteApids, received \in BOOLEAN,
          flag \in {"GRP_BEGIN", "GRP_MIDDLE", "GRP_END", "GRP_FIRST_AND_LAST"} :
          LET p == [apid |-> apid, flag |-> flag, sequence_count |-> NextCount(apid),
                    number |-> Len(pieces) + 1]
          IN  /\ MayFollow(apid, flag)
              /\ pieces' = Append(pieces, [apid |-> apid, flag |-> flag, received |-> received])
              /\ IF received THEN CuteParse(p)
                 ELSE MayBeLost /\ UNCHANGED <<cute_frames, state, parsed>>

CuteNext == CuteFrame

CuteSpec == CuteInit /\ [][CuteNext]_cuteVars

------------------------------------------------------------------------------
\* The frames first to last are a packet as it was sent.
IsPacket(first, last) ==
    /\ Begins(pieces[first].flag)
    /\ Ends(pieces[last].flag)
    /\ \A i \in first .. last - 1 : ~Ends(pieces[i].flag)

\* What is put together is a packet as the satellite sent it, all of it and nothing
\* else, as long as fewer frames in a row are lost than the count has values.  Only for
\* pieces of one application: the parser does not compare the APIDs, and the counts of
\* two applications may fit by chance.
PiecesOfOnePacket ==
    \A k \in DOMAIN parsed :
        LET p == parsed[k]
        IN  (\A i \in DOMAIN p : pieces[p[i]].apid = pieces[p[1]].apid)
                => /\ IsPacket(p[1], Last(p))
                   /\ p = [i \in 1 .. Last(p) - p[1] + 1 |-> p[1] + i - 1]

\* A packet whose frames have all come is put together if the last frame of
\* the packet before it has come: a loss costs the packet it hits, and the one behind
\* that only when its end is lost too.
LossCostsNoThirdPacket ==
    \A first, last \in DOMAIN pieces :
        (/\ first <= last
         /\ IsPacket(first, last)
         /\ \A i \in first .. last : pieces[i].received
         /\ first = 1 \/ pieces[first - 1].received)
            => \E k \in DOMAIN parsed : Last(parsed[k]) = last /\ parsed[k][1] = first
==============================================================================

--------------------------- MODULE NanolinkTransport ---------------------------
(***************************************************************************)
(* python/components/transports/nanolink_transport.py: NANOLINK frames in a *)
(* stream of bytes that comes in PDUs.                                      *)
(*                                                                          *)
(* The syncword is two bytes here (three in the code), the header a         *)
(* sequence number and the length (in three bytes in the code).  Each byte  *)
(* is marked with its frame and its place there, which the block does not   *)
(* see.  The CRC check behind it passes what is as it was sent.             *)
(***************************************************************************)
EXTENDS Integers, Sequences, FiniteSets

CONSTANTS
    Contents,           \* contents of the frames
    MaxFrames,          \* bound: frames sent
    MaxFill             \* bound: bytes between frames

\* A frame as the block is to publish it.
Framed(content, seq) == <<seq, Len(content)>> \o content

syncword == <<8, 9>>

NoSyncword(s) == \A i \in 1 .. Len(s) - 1 : SubSeq(s, i, i + 1) # syncword

\* Contents are bytes, and no frame has a syncword in it.
ASSUME ContentsAssumption ==
    /\ Contents \subseteq Seq(Nat)
    /\ MaxFrames \in Nat
    /\ \A content \in Contents, seq \in 0 .. MaxFrames - 1 : NoSyncword(Framed(content, seq))

VARIABLES
    in_frame,
    current,            \* header and payload so far
    remain,             \* bytes to come, or None
    transmitted,        \* history: the frames sent
    fill,               \* history: bytes sent between frames
    waiting,            \* the bytes of the stream that are not in a PDU yet
    severed,            \* history: the frames whose syncword is in two PDUs
    defragmented        \* the frames published

nanolinkVars == <<in_frame, current, remain, transmitted, fill, waiting, severed, defragmented>>

None == -1
header_len == 2
FillByte == 8           \* the stream may look as though a syncword began

NanolinkInit == /\ in_frame = FALSE
                /\ current = <<>>
                /\ remain = None
                /\ transmitted = <<>>
                /\ fill = 0
                /\ waiting = <<>>
                /\ severed = {}
                /\ defragmented = <<>>

------------------------------------------------------------------------------
\* The first bytes of s, and the others; n may be more than there are.
From(s, n) == SubSeq(s, n + 1, Len(s))
UpTo(s, n) == SubSeq(s, 1, IF n < Len(s) THEN n ELSE Len(s))

\* Where the syncword is found first, or 0.
find(s) ==
    LET at == {i \in 1 .. Len(s) - 1 : SubSeq(s, i, i + 1) = syncword}
    IN  IF at = {} THEN 0 ELSE CHOOSE i \in at : \A j \in at : i <= j

\* A slip: the header must be whole in the PDU with the syncword.
header_missing_dropped(h) == 0

\* The bytes of the header that are missing.
header_missing(h) == IF Len(h.current) < header_len THEN header_len - Len(h.current) ELSE 0

\* The syncword was found: the next bytes are the header.
SyncFound(h, a) ==
    LET after == From(h.in0, a - 1 + Len(syncword))
    IN  [h EXCEPT !.in_frame = TRUE, !.remain = None,
                  !.current = UpTo(after, header_len), !.in0 = From(after, header_len)]

\* In a frame: what is missing of the header, then the payload.
HeaderContinued(h) ==
    [h EXCEPT !.current = @ \o UpTo(h.in0, header_missing(h)),
              !.in0 = From(@, header_missing(h))]
PayloadContinued(h) ==
    LET b == IF h.remain = None THEN h.current[header_len] ELSE h.remain
        left == b - Len(UpTo(h.in0, b))
        whole == h.current \o UpTo(h.in0, b)
    IN  [h EXCEPT !.in0 = From(@, b), !.current = whole,
                  !.in_frame = left > 0,
                  !.remain = IF left > 0 THEN left ELSE None,
                  !.published = IF left > 0 THEN @ ELSE Append(@, whole)]

\* The loop of handle_msg(): h is what it works on, in0 the bytes of the PDU not looked
\* at yet.  Without a whole header there are none left.
DefragmentTurn(h) ==
    IF h.in0 = <<>> THEN h
    ELSE IF ~ h.in_frame /\ find(h.in0) = 0 THEN [h EXCEPT !.in0 = <<>>]
    ELSE LET framed == HeaderContinued(IF h.in_frame THEN h ELSE SyncFound(h, find(h.in0)))
         IN  IF Len(framed.current) < header_len THEN framed ELSE PayloadContinued(framed)

\* A turn takes a byte at least.
defragment(h) ==
    LET turn[n \in 0 .. Len(h.in0)] == IF n = 0 THEN h ELSE DefragmentTurn(turn[n - 1])
    IN  turn[Len(h.in0)]

handle_pdu(in0) ==
    LET h == defragment([in_frame |-> in_frame, current |-> current, remain |-> remain,
                         in0 |-> in0, published |-> <<>>])
    IN  /\ in_frame' = h.in_frame
        /\ current' = h.current
        /\ remain' = h.remain
        /\ defragmented' = defragmented \o h.published

------------------------------------------------------------------------------
TransmitFrame(content) ==
    LET frame == Framed(content, Len(transmitted))
        stream == syncword \o frame
    IN  /\ Len(transmitted) < MaxFrames
        /\ transmitted' = Append(transmitted, frame)
        /\ waiting' = waiting \o [i \in DOMAIN stream |->
               [byte |-> stream[i], frame |-> Len(transmitted) + 1, at |-> i]]
        /\ UNCHANGED <<in_frame, current, remain, fill, severed, defragmented>>

\* A byte between frames is marked as behind the frame before.
TransmitFill ==
    /\ fill < MaxFill
    /\ fill' = fill + 1
    /\ waiting' = Append(waiting, [byte |-> FillByte, frame |-> Len(transmitted), at |-> 0])
    /\ UNCHANGED <<in_frame, current, remain, transmitted, severed, defragmented>>

\* The next n bytes come in a PDU.
ReceivePdu(n) ==
    /\ n <= Len(waiting)
    /\ handle_pdu([i \in 1 .. n |-> waiting[i].byte])
    /\ waiting' = From(waiting, n)
    /\ severed' = IF waiting[n].at = 1 THEN severed \cup {waiting[n].frame} ELSE severed
    /\ UNCHANGED <<transmitted, fill>>

NanolinkNext == \/ \E content \in Contents : TransmitFrame(content)
                \/ TransmitFill
                \/ \E n \in 1 .. Len(waiting) : ReceivePdu(n)

NanolinkSpec == NanolinkInit /\ [][NanolinkNext]_nanolinkVars

------------------------------------------------------------------------------
\* The frames that have come to their last byte, without those whose syncword is in two
\* PDUs.
FramesDue == {k \in DOMAIN transmitted :
                 /\ k \notin severed
                 /\ \A i \in DOMAIN waiting : waiting[i].frame = k => waiting[i].at = 0}

\* A frame whose syncword is in two PDUs is lost, and no other is: however else the
\* stream is cut, also inside a header, each frame comes out once, whole and in order.
\* Fill may end with the first byte of a syncword.
OnlySeveredLost ==
    /\ Len(defragmented) = Cardinality(FramesDue)
    /\ \A k \in FramesDue :
          defragmented[Cardinality({j \in FramesDue : j <= k})] = transmitted[k]
==============================================================================

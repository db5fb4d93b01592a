----------------------------- MODULE SpacePackets -----------------------------
(***************************************************************************)
(* python/ccsds: CCSDS space packets in TM frames, from the blocks that add *)
(* the primary headers to those that put the packets back together.         *)
(*                                                                          *)
(*   space_packet_primaryheader_adder (one for each AP_ID)                  *)
(*     -> telemetry_primaryheader_adder (one for each virtual channel)      *)
(*     -> telemetry_ocf_adder, where TM frames have a control field         *)
(*     -> the link -> virtual_channel_demultiplexer                         *)
(*     -> telemetry_packet_reconstruction -> pathID_demultiplexer           *)
(*                                                                          *)
(* The blocks of either side of the link are a chain of queues without a    *)
(* choice, so the handlers of a side are one step.  A primary header is two *)
(* bytes here, the AP_ID and data_length; what else it holds nobody reads.  *)
(* Each byte is marked with its packet and its place there, which no block  *)
(* looks at.                                                                *)
(***************************************************************************)
EXTENDS Integers, Sequences, FiniteSets, SequencesExt

CONSTANTS
    TmChannels,         \* virtual channels on board
    vc_outputs,         \* those the ground demultiplexes
    ApIds,              \* AP_IDs on board
    pathID_outputs,     \* those the ground demultiplexes
    OcfChannels,        \* virtual channels whose TM frames have a control field
    Payloads,           \* contents of the packets
    TmSize,             \* self.size: bytes in a TM frame
    MaxSpacePackets,    \* bound: packets sent
    MaxLost             \* bound: TM frames lost

\* A TM frame has room, and AP_IDs and the bytes of packets are numbers.  A virtual
\* channel that the satellite does not have is as one on which it sends nothing.
ASSUME SpacePacketsAssumption == /\ vc_outputs \subseteq TmChannels
                                 /\ TmSize \in Nat \ {0}
                                 /\ ApIds \subseteq Nat
                                 /\ Payloads \subseteq Seq(Nat)

VARIABLES
    sent,               \* history: the packets of each virtual channel
    list,               \* the TM frame each telemetry_primaryheader_adder is filling
    first_header_pointer,
    link,               \* TM frames on their way
    space_packet,       \* what each telemetry_packet_reconstruction has of a packet
    forwarded,          \* for each virtual channel, what its pathID_demultiplexer gave
    taken,              \* history: for each virtual channel, the bytes that came down
    missed,             \* history: for each, the packets that have lost a byte
    lost                \* TM frames lost so far

spacePacketVars == <<sent, list, first_header_pointer, link, space_packet, forwarded,
                     taken, missed, lost>>

HeaderLen == 2
NoHeader == 1023        \* the pointer of a frame in which no packet starts

SpacePacketInit ==
    /\ sent = [vc \in TmChannels |-> <<>>]
    /\ list = [vc \in TmChannels |-> <<>>]
    /\ first_header_pointer = [vc \in TmChannels |-> 0]
    /\ link = <<>>
    /\ space_packet = [vc \in vc_outputs |-> <<>>]
    /\ forwarded = [vc \in vc_outputs |-> <<>>]
    /\ taken = [vc \in TmChannels |-> <<>>]
    /\ missed = [vc \in TmChannels |-> {}]
    /\ lost = 0

Bytes(marked) == [i \in DOMAIN marked |-> marked[i].byte]
Take(s, n) == SubSeq(s, 1, IF n < Len(s) THEN n ELSE Len(s))
Drop(s, n) == SubSeq(s, n + 1, Len(s))

------------------------------------------------------------------------------
\* A slip: data_length counts the header.
with_header_counted(apid, payload) == <<apid, HeaderLen + Len(payload)>> \o payload

\* space_packet_primaryheader_adder: the header and the payload.
with_primary_header(apid, payload) == <<apid, Len(payload)>> \o payload

Marked(packet, n) ==
    [i \in DOMAIN packet |-> [byte |-> packet[i], packet |-> n, at |-> i]]

\* A slip: a rest that fills the next frame is taken to end inside it.
next_pointer_off_by_one(packet, limit, pointer) ==
    CASE Len(packet) > limit + TmSize -> NoHeader
      [] Len(packet) > limit /\ Len(packet) <= limit + TmSize -> Len(packet) - limit
      [] Len(packet) = limit -> 0
      [] Len(packet) < limit -> pointer

\* Where the first packet starts in the frame after the one that is being filled.
next_pointer(packet, limit, pointer) ==
    CASE Len(packet) >= limit + TmSize -> NoHeader
      [] Len(packet) > limit /\ Len(packet) < limit + TmSize  -> Len(packet) - limit
      [] Len(packet) = limit -> 0
      [] Len(packet) < limit -> pointer

\* The loop of telemetry_primaryheader_adder.handle_msg() while bytes of the packet are
\* left: h is [list, pointer, next, frames, packet].
FillTurn(h) ==
    IF h.packet = <<>> THEN h ELSE
    LET limit == TmSize - Len(h.list)
        next  == next_pointer(h.packet, limit, h.next)
        grown == h.list \o Take(h.packet, limit)
        left  == Drop(h.packet, limit)
    IN  IF Len(grown) = TmSize
        THEN [list |-> <<>>, pointer |-> next, next |-> next, packet |-> left,
              frames |-> Append(h.frames, [pointer |-> h.pointer, payload |-> grown])]
        ELSE [h EXCEPT !.list = grown, !.next = next, !.packet = left]

\* A turn takes a byte at least.
filled(h) ==
    LET turn[n \in 0 .. Len(h.packet)] == IF n = 0 THEN h ELSE FillTurn(turn[n - 1])
    IN  turn[Len(h.packet)]

\* telemetry_ocf_adder: the control field behind the payload, of one byte here.
OcfLen == 1
with_ocf(vc, payload) ==
    IF vc \in OcfChannels THEN Append(payload, [byte |-> 0, packet |-> 0, at |-> 0])
    ELSE payload

\* A packet is sent: it gets its header, and the TM frames it fills go down.
SendPacket(vc, apid, payload) ==
    /\ FoldFunction(LAMBDA s, n : Len(s) + n, 0, sent) < MaxSpacePackets
    /\ LET packet == with_primary_header(apid, payload)
           h == filled([list |-> list[vc], pointer |-> first_header_pointer[vc],
                        next |-> 0, frames |-> <<>>,
                        packet |-> Marked(packet, Len(sent[vc]) + 1)])
       IN  /\ sent' = [sent EXCEPT ![vc] = Append(@, packet)]
           /\ list' = [list EXCEPT ![vc] = h.list]
           /\ first_header_pointer' = [first_header_pointer EXCEPT ![vc] = h.pointer]
           /\ link' = link \o [i \in DOMAIN h.frames |->
                                  [vc |-> vc, pointer |-> h.frames[i].pointer,
                                   payload |-> with_ocf(vc, h.frames[i].payload)]]
    /\ UNCHANGED <<space_packet, forwarded, taken, missed, lost>>

------------------------------------------------------------------------------
\* The bytes of the header that are missing.
header_left(packet) == HeaderLen - Len(packet)

\* The bytes that are missing after the header.
data_left(packet) == packet[2] + HeaderLen - Len(packet)

\* The loop of telemetry_packet_reconstruction.handle_msg() while bytes of the payload are
\* left: h is [packet, published, payload].
ReconstructTurn(h) ==
    IF h.payload = <<>> THEN h ELSE
    LET short  == Len(h.packet) < HeaderLen
        packet == IF short THEN h.packet \o Take(h.payload, header_left(h.packet)) ELSE h.packet
        rest   == IF short THEN Drop(h.payload, header_left(h.packet)) ELSE h.payload
        whole  == packet \o Take(rest, data_left(packet))
        left   == Drop(rest, data_left(packet))
    IN  CASE Len(packet) < HeaderLen -> [h EXCEPT !.packet = packet, !.payload = <<>>]
          [] Len(packet) >= HeaderLen /\ data_left(whole) = 0 ->
                [packet |-> <<>>, published |-> Append(h.published, whole), payload |-> left]
          [] Len(packet) >= HeaderLen /\ data_left(whole) # 0 ->
                [h EXCEPT !.packet = whole, !.payload = left]

\* A turn takes a byte at least.
reconstructed(h) ==
    LET turn[n \in 0 .. Len(h.payload)] == IF n = 0 THEN h ELSE ReconstructTurn(turn[n - 1])
    IN  turn[Len(h.payload)]

\* pathID_demultiplexer: the port of the AP_ID, or discarded.
discarded == -1
port(packet) == IF packet[1] \in pathID_outputs THEN packet[1] ELSE discarded
Routed(packet) == [port |-> port(packet), packet |-> packet]

\* The payload of a TM frame, by its length and the OCF flag of its header.
Payload(frame) ==
    IF frame.vc \in OcfChannels
    THEN SubSeq(frame.payload, 1, Len(frame.payload) - OcfLen)
    ELSE frame.payload

\* A TM frame for a telemetry_packet_reconstruction, and the packets it completes.
Reconstruct(vc, payload) ==
    LET h == reconstructed([packet |-> space_packet[vc], published |-> <<>>,
                            payload |-> Bytes(payload)])
    IN  /\ space_packet' = [space_packet EXCEPT ![vc] = h.packet]
        /\ forwarded' = [forwarded EXCEPT ![vc] =
               @ \o [i \in DOMAIN h.published |-> Routed(h.published[i])]]

\* virtual_channel_demultiplexer: nothing is connected to its port for the others.
ReceiveFrame ==
    /\ link # <<>>
    /\ IF Head(link).vc \in vc_outputs
       THEN Reconstruct(Head(link).vc, Payload(Head(link)))
       ELSE UNCHANGED <<space_packet, forwarded>>
    /\ taken' = [taken EXCEPT ![Head(link).vc] = @ \o Payload(Head(link))]
    /\ link' = Tail(link)
    /\ UNCHANGED <<sent, list, first_header_pointer, missed, lost>>

LoseFrame ==
    /\ link # <<>>
    /\ lost < MaxLost
    /\ missed' = [missed EXCEPT ![Head(link).vc] =
           @ \cup {b.packet : b \in Range(Payload(Head(link)))}]
    /\ link' = Tail(link)
    /\ lost' = lost + 1
    /\ UNCHANGED <<sent, list, first_header_pointer, space_packet, forwarded, taken>>

SpacePacketNext ==
    \/ \E vc \in TmChannels, apid \in ApIds, payload \in Payloads :
          SendPacket(vc, apid, payload)
    \/ ReceiveFrame
    \/ LoseFrame

SpacePacketSpec == SpacePacketInit /\ [][SpacePacketNext]_spacePacketVars

------------------------------------------------------------------------------
\* The bytes of a virtual channel that came down and were the last of a packet.
LastBytes(vc) ==
    {i \in DOMAIN taken[vc] : taken[vc][i].at = Len(sent[vc][taken[vc][i].packet])}

\* The TM frames that were lost held whole packets only.
LostWhole(vc) == \A b \in Range(taken[vc]) : b.packet \notin missed[vc]

\* Whatever way the packets lie in the TM frames, each one that came down goes to the
\* port of its AP_ID, in order.  With frames lost that is so as long as no packet was
\* cut: nothing realigns the reconstruction.
SpacePacketsExtracted ==
    \A vc \in vc_outputs :
        LostWhole(vc) =>
            /\ Len(forwarded[vc]) = Cardinality(LastBytes(vc))
            /\ \A i \in LastBytes(vc) :
                  forwarded[vc][Cardinality({j \in LastBytes(vc) : j <= i})]
                      = Routed(sent[vc][taken[vc][i].packet])

\* The first header pointer is where the first packet starts in the TM frame, if any does.
PointsToFirstHeader ==
    \A i \in DOMAIN link :
        LET starts == {j \in DOMAIN link[i].payload : link[i].payload[j].at = 1}
        IN  IF starts = {} THEN link[i].pointer = NoHeader
            ELSE link[i].pointer + 1 \in starts
                 /\ \A j \in starts : link[i].pointer + 1 <= j
==============================================================================

---------------------------- MODULE TmKissTransport ----------------------------
(***************************************************************************)
(* python/components/transports/tm_kiss_transport.py: the decoder of KISS   *)
(* streams that come in CCSDS TM frames, one stream per virtual channel.    *)
(*                                                                          *)
(* handle_msg() works on the list self.packets[vc] through the local name   *)
(* packet.  At the end of a packet it puts a new list in self.packets[vc]   *)
(* while packet goes on naming the old one: the state of the handler says   *)
(* whether both are the same list.                                          *)
(***************************************************************************)
EXTENDS Kiss, FiniteSetsExt

CONSTANTS
    VirtualChannels,    \* those to extract
    OtherChannels,      \* other virtual channels of the satellite
    Packets,            \* contents of the packets on board
    MaxPackets          \* bound: packets written on all virtual channels

ASSUME ChannelsAssumption == VirtualChannels \cap OtherChannels = {}

\* No packet is empty.
ASSUME PacketsAssumption == Packets \subseteq Seq(Nat) \ {<<>>}

VARIABLES
    packets,            \* for each virtual channel, the packet being decoded
    transpose,          \* for each virtual channel, whether the last byte was FESC
    encapsulated,       \* history: for each virtual channel, the packets written
    stream,             \* for each virtual channel, the bytes still to be sent
    delimited,          \* history: the virtual channels none of whose TM frames has
                        \* had a byte behind the end of a packet
    published           \* for each virtual channel, the PDUs published for it

vars == <<packets, transpose, encapsulated, stream, delimited, published>>

Channels == VirtualChannels \cup OtherChannels

Init == /\ packets = [vc \in VirtualChannels |-> <<>>]
        /\ transpose = [vc \in VirtualChannels |-> FALSE]
        /\ encapsulated = [vc \in Channels |-> <<>>]
        /\ stream = [vc \in Channels |-> <<>>]
        /\ delimited = Channels
        /\ published = [vc \in Channels |-> <<>>]

------------------------------------------------------------------------------
\* The bytes of a packet as they are sent; the FEND that ends it is marked, which no
\* block sees.  KISS allows one FEND between packets as well as two.
KissFrame(packet, opening) ==
    [i \in DOMAIN (opening \o kiss_escape(packet)) |->
        [byte |-> (opening \o kiss_escape(packet))[i], ends |-> FALSE]]
    \o <<[byte |-> FEND, ends |-> TRUE]>>

Encapsulate(vc, packet, opening) ==
    /\ MapThenSumSet(LAMBDA c : Len(encapsulated[c]), Channels) < MaxPackets
    /\ encapsulated' = [encapsulated EXCEPT ![vc] = Append(@, packet)]
    /\ stream' = [stream EXCEPT ![vc] = @ \o KissFrame(packet, opening)]
    /\ UNCHANGED <<packets, transpose, delimited, published>>

\* The handler, after one byte more of the payload.
ByteHandled(h, b) ==
    CASE b.byte = FEND /\ h.packet # <<>> ->
            [h EXCEPT !.published = Append(@, h.packet), !.same_list = FALSE]
      [] b.byte = FEND /\ h.packet = <<>> -> h
      [] b.byte # FEND ->
            [h EXCEPT !.packet = @ \o Unescaped(h.transpose, b.byte),
                      !.transpose = TransposeAfter(h.transpose, b.byte)]

\* A slip: nothing replaces a list that has been published.
StoredSame(h) == h.packet

\* What self.packets[vc] is when the handler returns.
Stored(h) == IF h.same_list THEN h.packet ELSE <<>>

\* The handler, after each byte of the payload.
handled(start, payload) ==
    LET h[i \in 0 .. Len(payload)] ==
            IF i = 0 THEN start ELSE ByteHandled(h[i - 1], payload[i])
    IN  h

\* A TM frame of a virtual channel to extract.
handle_msg(vc, payload) ==
    LET h == handled([packet |-> packets[vc], same_list |-> TRUE,
                      transpose |-> transpose[vc], published |-> published[vc]],
                     payload)[Len(payload)]
    IN  /\ packets' = [packets EXCEPT ![vc] = Stored(h)]
        /\ transpose' = [transpose EXCEPT ![vc] = h.transpose]
        /\ published' = [published EXCEPT ![vc] = h.published]

\* The next n bytes of a stream come down in a TM frame; the handler returns at once
\* when the virtual channel is not among those to extract.
TmFrame(vc, n) ==
    LET payload == SubSeq(stream[vc], 1, n)
    IN  /\ IF vc \in VirtualChannels
           THEN handle_msg(vc, payload)
           ELSE UNCHANGED <<packets, transpose, published>>
        /\ stream' = [stream EXCEPT ![vc] = SubSeq(@, n + 1, Len(@))]
        /\ delimited' = IF \E i \in 1 .. n - 1 : payload[i].ends
                        THEN delimited \ {vc} ELSE delimited
        /\ UNCHANGED encapsulated

Next == \E vc \in Channels :
           \/ \E packet \in Packets, opening \in {<<>>, <<FEND>>} :
                 Encapsulate(vc, packet, opening)
           \/ \E n \in 1 .. Len(stream[vc]) : TmFrame(vc, n)

Spec == Init /\ [][Next]_vars

------------------------------------------------------------------------------
\* The packets of a virtual channel that have come down to their last byte.
Arrived(vc) ==
    LET onTheWay == Cardinality({i \in DOMAIN stream[vc] : stream[vc][i].ends})
    IN  SubSeq(encapsulated[vc], 1, Len(encapsulated[vc]) - onTheWay)

\* What the documentation says ("The output are PDUs with the packets encapsulated in
\* the stream", python/components/transports/tm_kiss_transport.py:24): of every
\* virtual channel to extract, exactly the packets that have arrived are out.
PacketsExtracted == \A vc \in VirtualChannels : published[vc] = Arrived(vc)

\* This holds of a virtual channel as long as packets end at the end of a TM frame:
\* packets that span TM frames, escapes cut in two and TM frames of other virtual
\* channels in between, delimited or not, do no harm.
DelimitedExtracted ==
    \A vc \in VirtualChannels \cap delimited : published[vc] = Arrived(vc)
==============================================================================

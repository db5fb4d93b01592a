# gr-satellites in TLA+

gr-satellites is an out-of-tree module of GNU Radio: decoders for the telemetry
of small satellites.  Its parts are blocks.  The GNU Radio runtime gives each
block a thread, hands it the samples of a stream in pieces whose sizes only the
scheduler knows, and queues the messages (PDUs) that blocks send each other.
Most of the program's arithmetic has reference vectors and unit tests.  What a
unit test hardly reaches is what depends on the cuts of the stream, on the order
of messages from two threads, on what got lost on the way, on which bits were
received wrong, and on what a block remembers from one call to the next.  This
directory models that, checks it with TLC and proves the core of it with TLAPS.

## Contents

1. [The system](#the-system)
2. [Modules](#modules)
3. [How the modules correspond to the code](#how-the-modules-correspond-to-the-code)
4. [Runs, bounds and fairness](#runs-bounds-and-fairness)
5. [What the checks found](#what-the-checks-found)
6. [Proofs](#proofs)
7. [What is not modelled](#what-is-not-modelled)
8. [Plan](#plan)

## The system

A flowgraph (python/core/gr_satellites_flowgraph.py) is put together once from
a SatYAML description and then runs:

    source -> demodulator -> deframer -> transport -> data sinks
              (samples)      (syncword, FEC, CRC)     (files, servers, telemetry)

Samples and bits are streams; from the syncword on everything is PDUs.  A
transmitter (packet_csma, hdlc_framer, varlen_packet_framer, u482c_encode,
encode_rs, the CCSDS adders) runs the other way.  The selector and the blocks
with a file of times (doppler_correction, time_dependent_delay) belong to
flowgraphs that users build.

| component | state it keeps | operations | interacts with | hard behaviour | what makes it right |
|---|---|---|---|---|---|
| fixedlen_to_pdu (lib) | ring of old items, write pointer, packets not ended | work (one buffer) | syncword tags in, PDUs out; used by nearly every deframer | cuts of the stream, packets that overlap, span buffers and wrap round the ring, length tags of any value | every tagged packet comes out once, as soon as it is whole, with the right items |
| level_to_message, packet_csma (lib) | last level; carrier flag, items left of the packet in flight | work; handle_carrier_sense, general_work | a message queue between two threads | messages between any two calls, cuts inside packets, unsigned arithmetic, an exception | no packet starts under a carrier, none stops half way, all go out in the end |
| selector (lib) | indices, enabled | forecast, general_work, setters, messages | scheduler, control thread, the blocks that feed it | indices change between forecast and work; forecast asks for less than is needed | items of the active input, each once, tags with them; nothing stalls |
| doppler_correction, time_dependent_delay (lib) | index into a file of times, time of a sample, history, future tags | work, set_time | tags that set the time, the scheduler's count, each other | several tags in a buffer, time going back, set_time between work and the count | every sample gets the value for its time; tags come out where they belong |
| Mobitex deframer (python) | expected count, header, blocks by id | handle_msg of the blocks, header and FEC decoding | two paths with a thread each between the CRC and the reframer | reordering, lost frames, partial frames, wrong bits | frames come out whole, once, with their own header |
| KISS framing (python) | packet being decoded, pending escape | handle_msg, work | file, TCP socket or downlink between the two | cuts anywhere, payload full of control values, lost pieces | what goes in comes out; recovery after a loss |
| HDLC framer and deframer (python) | bounded deque of bits, count of ones, last level | handle_msg, work | each other, over the air | stuffing, shared flags, slips of clock and carrier | frames come out unchanged; recovery after a fault |
| varlen_packet_framer/tagger (lib) | have_sync, required input, min_noutput_items | forecast, general_work | each other, over the air; the scheduler | header settings, buffers that are too small, syncwords inside packets | the tagger finds what the framer wrote; neither waits for ever |
| codecs: CRC, Reed-Solomon, U482C, Viterbi, BCH (lib, python) | settings, a table | handle_msg | each other, over the air | wrong bits in any places, empty and too long PDUs | what the code can correct is corrected, what it can notice is noticed |
| KISS in TM frames (python) | packet and escape for each virtual channel | handle_msg | TM frames of several channels | two names for one list | the packets of the stream come out |
| CCSDS headers, demultiplexers, packet reconstruction (python) | packets being put together for each channel; the end of a packet that goes on | handle_msg | each other | packets that span frames, header pointers, lost frames | packets come out whole, at the port of their AP_ID |
| lilacsat1_demux (lib), nanolink (python) | bit position, frames; partial frame | work, handle_msg | sync tags; PDUs | a false tag inside a packet, pieces that straddle PDUs | damage stays where it is |
| telemetry parsers of CUTE and FUNcube (python) | pieces of a packet; end of the last frame | parse | frames, some of them lost | pieces of different packets that seem to fit | only what was sent comes out, and all that can |
| flowgraph and SatYAML (python) | dictionaries of sinks, transports, deframers | constructor, check_yaml | descriptions, options | references between entries, options that leave out sinks | every checked description gives a flowgraph whose frames reach their sinks |
| file and image receivers, other deframers, stream filters, PDU utilities, submitters, CSP over ZMQ, other telemetry definitions, demodulators | little or none | | outside servers, libraries | see "What is not modelled" | |

PROJECT.json lists all of them, with the hazards of this code line by line.

## Modules

Each group of modules ends with the one that composes the others and with the
instance TLC explores.

| module | what it is |
|---|---|
| `TaggedPackets` | abstract specification: packets announced by tags come out when they are whole |
| `FixedlenToPdu` | lib/fixedlen_to_pdu_impl; `KeepsPromise` says that it implements `TaggedPackets` |
| `FixedlenToPduProofs` | its theorems |
| `MCFixedlenToPdu` | the instance |
| `PacketCsma` | lib/packet_csma_impl |
| `ChannelAccess` | the same behind lib/level_to_message_impl, the queue between them and the blocks upstream; explored with `MCChannelAccess.cfg` |
| `ChannelAccessProofs` | its theorems |
| `Selector` | lib/selector_impl with the scheduler's forecast and the blocks around it |
| `SelectorProofs` | its theorems |
| `MCSelector` | the instance |
| `TimeFile` | what both blocks with a file of times do with it |
| `TimeDependentDelay`, `DopplerCorrection` | lib/time_dependent_delay_impl, lib/doppler_correction_impl |
| `TimeLine` | the delay followed by the correction |
| `TimeLineProofs` | its theorems |
| `MCTimeLine` | the instance |
| `Kiss` | python/kiss.py and the decoding that the KISS receivers share |
| `KissLink` | pdu_to_kiss and kiss_to_pdu over a medium that cuts and loses |
| `HdlcLink` | hdlc_framer, nrzi_encode, nrzi_decode, hdlc_deframer over a radio link |
| `VarlenFramer`, `VarlenTagger` | lib/varlen_packet_framer_impl with the header of both blocks; lib/varlen_packet_tagger_impl |
| `VarlenLink` | both of them over a link with faults |
| `MobitexDeframer` | python/tubix20_reframer.py behind the CRC and the two pdu_set blocks |
| `MobitexProofs` | its theorems |
| `Words` | words of bits as sets |
| `Crc` | lib/crc, lib/crc_append_impl, lib/crc_check_impl |
| `MobitexCoding` | the error correction of Mobitex: headers, callsigns, data blocks |
| `ReedSolomon`, `U482c` | lib/encode_rs_impl and lib/decode_rs_impl with PDUs; lib/u482c_encode_impl and lib/u482c_decode_impl |
| `Viterbi` | lib/viterbi/viterbi.cc with its two blocks |
| `Bch15` | python/bch15.py |
| `Framing`, `MCFraming` | all of the links and codes, one at a time; the instance |
| `TmKissTransport`, `NanolinkTransport`, `Lilacsat1Demux` | the transports with a state |
| `SpacePackets` | the blocks of python/ccsds from the space packet to the space packet |
| `SpacePacketProofs` | its theorems, and those about `NanolinkTransport` |
| `CuteTelemetry`, `FuncubeTelemetry` | the two telemetry parsers with a state |
| `TransportProofs` | theorems about those two, `TmKissTransport` and `Lilacsat1Demux` |
| `Transports`, `MCTransports` | all of these, one at a time; the instance |
| `Flowgraph` | python/core/gr_satellites_flowgraph.py and python/satyaml/satyaml.py |
| `FlowgraphProofs` | its theorems |
| `MCFlowgraph` | the instance |

Some definitions are introduced by "A slip:".  They are the definition below them
with a mistake a programmer might make.  No specification uses them; the mutation
test puts each in the place of the right one and expects a property to fail.

## How the modules correspond to the code

**One call, one step.**  A block's message handlers and its work function run in
the block's own thread and never overlap, so each call is one action with all
it does: `work` publishes, keeps the packets that have not ended *and* updates
the ring.  Two blocks interleave call by call.  Where a block handles its items
one by one and keeps nothing else between them (the NRZI and HDLC receivers,
lilacsat1_demux), an item is a step: a call is then a sequence of steps, and every
way of cutting the stream into calls is covered.

**Streams.**  A stream is a number of items read so far; a buffer is the next n
of them, for any n (`\E n`).  Blocks that only copy items get the offsets of the
items as data, so that a wrong copy shows as a wrong offset.  Sizes in bytes are
sizes in items times a constant and are left out (`d_write_ptr_byte` is
`d_write_ptr_item * d_itemsize` throughout).

**Marks.**  Bytes and bits on their way carry what they were written for (the
number of the frame, the place in the packet).  No block looks at the marks; the
properties do.

**Smaller words.**  Bytes, codes and headers are smaller than in the code where
their size makes no difference to the control: a byte of one or two bits, a Golay
code of four bits, an int of four bits (where a length can overflow it), a Reed-Solomon
code of five symbols that corrects one, a CRC of two short bytes.  The sizes are constants.  KISS bytes, the bytes of the Mobitex
FEC, its headers, the BCH code and the two convolutional codes are those of the
program.

**FixedlenToPdu.**  `d_history`, `d_write_ptr`, `d_packet_infos` are the members
of the class; the list is a set because each syncword tag has an offset of its
own and nothing depends on the order.  The three ways of copying a packet are
`FromInput`, `FromBeforePointer` and `FromAfterPointer`; the last one has the
three parts of the code.  `update_history` has the three cases of the code.
`PacketLength` is the clamping, where a negative tag is a large unsigned number.
A byte of a packed payload has `ByteBits` bits, 8 in the code.  `pdus`,
`tagged` and `published` are what the last call sent, and histories.

**ChannelAccess.**  `Upstream` writes packets with length tags, back to back.
`Sense` is the level block with a buffer that ends above or below the threshold
(only the last sample counts in the code).  `carrier_msgs` is the message queue.
`general_work(n)` is a call with n items to read and room for n; `failed` is the
exception, after which the block does nothing.

**Selector.**  `Forecast` is what the scheduler does between two calls: it looks at
what there is and asks forecast() whether that is enough for an output of n items,
for the sizes it would try.  The call it then commits to is in the state;
`set_input_index`, `set_output_index` and `handle_enable` may come before
`general_work` runs, as d_mutex is released in between.  The inputs have a block of
their own each, or one block writes to all of them in turn and is stopped while one
of them is full (`feed`).

**TimeLine.**  `TimeFile` is the index that moves with the time, forwards and back,
and the time of a sample counted from the last one told.  `TimeDependentDelay` has
`work()` and the count of the scheduler as two steps, with `set_time` possible
between them.  The values of samples are not computed: a sample is the time and the
value the block used and the items its filter read.  The tags that leave the delay
are those that reach the correction.

**Links.**  `KissLink` decodes a buffer by a fold of the body of the loop.
`HdlcLink` has the NRZI levels and the polarity of the line.  `VarlenLink` has both
blocks with the requests they make of the scheduler (`f_required`,
`f_min_noutput`, `t_required`, `t_min_noutput`): a call comes with any input and
room that meets the request.  In `MobitexDeframer` a data block is a record of its
frame, its id, the number of blocks and its CRC outcome; everything in front of the
CRC keeps the order and is one queue; every port behind it is a queue.  The reframer
keeps the early return without reset, the test for a correct
block and the `KeyError` of a missing id (`failed`).

**Codes.**  Each has one action for the encoder and the link, which chooses the
wrong bits, and one for the decoder with all its early returns.  `Crc` has the
table of the constructor, the byte loop, the reflections and the order of bytes,
and is compared with polynomial division (`CrcIsRemainder`).  `ReedSolomon` and
`U482c` have libfec's codes as external: a code word with no more wrong symbols than
the code corrects is decoded, one with more is not (libfec may take it for another word,
which is left out).  `Viterbi` has the path metrics and the traceback.
`Bch15` has the field GF(16), the syndromes and the Peterson decoder, and meets the
words of the code by shifting and adding the generator polynomial.

**Transports.**  In `TmKissTransport` the field `same_list` says whether the local
name `packet` and `self.packets[vc]` are one list.  In `SpacePackets` each side of
the link is a chain of queues without a choice, so what a packet or a TM frame sets
going there is one step.  `Lilacsat1Demux` has the lengths of the class as
constants; where a bit goes is computed from its position, as in `work()`.  `CuteTelemetry` and `FuncubeTelemetry`
are the parsers' `parse` with what the satellite sends as the environment.

**Flowgraph.**  Each entry of a dictionary is a step; a name that is missing is the
KeyError that ends the construction.  A connection is a pair of blocks.

PROJECT.json's `map` gives the lines of each definition.

## Runs, bounds and fairness

| run | question | bounds | states |
|---|---|---|---|
| `fixedlen_to_pdu` | does the ring with its pending packets keep the promise? | packet_len 1-4, calls of 1-5 items (below, at and above the size of the ring), stream of 9, two tags, length tags -1, 0, 1, 2, 3, 9 or none | 45 169 |
| `channel_access` | is the channel respected, and do packets get out? | packets of 1-3 items, stream of 6, two messages on their way | 3 672 |
| `selector` | are items and tags right whenever the indices change, and does nothing stall? | 1 input and 2 outputs, 2 and 1, 3 and 1; buffers of 2, three items for each input, one switch | 706 167 |
| `time_line` | does each sample get the value of its time, and each tag its place? | two delay files, four samples, two tags, one set_time, a quarter of a sample | 445 106 |
| `framing` | does what goes in come out, and are faults repaired or at least left behind? | see below | 880 640 |
| `transports` | does it matter how packets lie in frames, and what does a loss cost? | see below | 1 673 169 |
| `flowgraph` | does every checked description give a flowgraph that brings frames to their sinks? | two data entries of each kind, one transport, two transmitters with all combinations of references, all options | 77 968 |
| `mobitex_race` | does the first PDU always have the tags the documentation asks for? | frames of 1-3 blocks | violated |
| `tm_kiss_extracts` | are the packets of the stream extracted? | as `transports` | violated |
| `varlen_false_sync` | does the tagger find the frames behind a sync tag that is wrong? | as `framing`, one fault | violated |
| `funcube_consecutive` | do the frames of an orbit give all of its records? | one orbit | violated |
| `bch_supported` | does the BCH decoder correct what its distances allow? | all words of the generator with two shifts, all errors | violated |

Components that do not interact share a run: `Framing` and `Transports` choose one
of them in the initial state and that one alone moves, so the states are the sum
of theirs and not the product.  One property may then be a conjunction of what each
of them promises (`LosslessInOrder`, `IntactFrameArrives`, `CorrectsErrors`).

Bounds of `framing`:

* KISS: three settings, four frames, payloads that are empty or full of control
  values, one lost piece of any length.  A loss can spoil the frame it hits and the
  next one; four frames show one before and one behind.
* HDLC: three settings of flags and checks; no data, data whose FCS ends in five
  ones in front of the flag, data longer than max_length; two frames, the second
  given when at most one bit of the first is on its way, one fault of the three kinds at
  any bit.
* Variable length packets: both kinds of header, two packets of one or two bytes,
  buffers of nine items (less than two framed packets), two faults.  A byte has two
  bits, an int four: a number in a header gives a length that fits, is too long, is
  negative or has lost its highest bit.
* Mobitex deframer: two frames of 1-3 blocks, all CRC outcomes.  Two frames are what
  the reframer can mix: it forgets everything when a frame is complete or block 0
  comes.
* Mobitex headers and FEC: the three variants, with the callsign known or not, two
  callsigns of one bit difference, up to two wrong bits anywhere; every byte.
* U482C and Reed-Solomon: all settings, no byte to one too many, every place of one
  wrong symbol in each code word, one or two code words.
* Viterbi: both codes of the repository, all messages of up to two bits, up to two
  wrong bits, one bit cut off.
* CRC: all combinations of reflections, order of bytes, header and discarding, for two
  polynomials that are not their own reflections, each wrong byte.
* BCH: the three distances, words of the generator with two shifts, errors of up to
  half the distance.

Bounds of `transports`: two virtual channels extracted and one not with four packets;
three space packets of two applications in two channels, TM frames of three bytes
(less than a packet and less than two headers), one lost; three NANOLINK frames cut
anywhere with a byte between them; four LilacSat-1 packets, two false tags, any gaps up
to two bits; six pieces of CUTE packets with counts modulo 4, three lost; two orbits
of FUNcube with records of five bytes in frames of seven.  `PiecesOfOnePacket` needs
fewer losses than the count has values, and the bound is just that.

Why the others are enough: the ring of `FixedlenToPdu` wraps more than once in a
stream of nine items with `packet_len` 4, and each of the three copies occurs with
each of its parts empty and not; two tags give packets that overlap, nest and
share their end.  Six items give `ChannelAccess` every alignment of two or more
packets with two cuts and a change of carrier.  The selector's forecast tells apart
one input, two, and more; with buffers of two there are requests of one and of more.
The files of times have values that rise and fall, and times before, at, between and
behind their entries.

Deadlock is not checked: every model stops when its bounded input is used up.

Fairness.  `ChannelAccess` assumes weak fairness of `Handle` and `Work`, the
Mobitex deframer of its four blocks, `Selector` of `Forecast`, `general_work` and the
blocks around it: the scheduler of GNU Radio runs a block as long as it has messages
or items, and upstream blocks write as long as there is room.  For the variable
length packets nothing more is assumed than calls with exactly the room a block has
asked for, and that only as long as the link has no fault.  Nothing is assumed of switches, faults, the channel, or of the satellite;
`ClearChannelDrains` has its condition on the channel in the formula.

What each run shows:

* `fixedlen_to_pdu`: the ring holds the stream (`HistoryHoldsStream`), packets
  kept have begun, have not ended and are in the ring (`PendingInHistory`), no PDU
  twice (`PublishedOnce`), and the block implements `TaggedPackets`
  (`KeepsPromise`).
* `channel_access`: `d_remaining_items` is exact (`RemainingIsExact`), the
  exception is unreachable (`NeverThrows`), no change of the level is lost or
  repeated (`CarrierFollowsLevel`), no packet starts under a carrier but back to
  back with priority (`NoStartUnderCarrier`), a packet that has started ends
  (`PacketsEnd`), and a clear channel drains (`ClearChannelDrains`).
* `selector`: between two switches the items of an output follow each other
  (`GapsOnlyAtSwitches`), none comes twice (`AtMostOnce`), each tag is at its item
  (`TagsFollowItems`); what is written to an input is consumed (`DrainsEventually`),
  and one block that feeds all inputs never stops for good (`NeverStopsUpstream`).
  With two inputs fewer items of the active one than the first request may be left:
  for one item forecast() asks for an item of the inactive input, so the last items
  of the active one wait until that has some.
* `time_line`: both blocks use the value the file has for the time of each sample,
  whatever was told before (`ValuesFollowFile`); the filters stay within the history
  (`ReadsWithinHistory`); each tag is in the output or waits, once (`EveryTagOnce`), and
  reaches the next block (`TagsReachNextBlock`).
* `framing`: on a link without faults what goes in comes out (`LosslessInOrder`); what
  arrives whole comes out, whatever was lost or damaged before (`IntactFrameArrives`:
  for KISS a frame behind a whole one with a byte in it, as the decoder remembers an
  escape across FEND); neither end of a variable length link waits for ever
  (`AllArrive`).  Of the variable length link that holds until the tagger gets a negative
  length and the program ends, which `IntactFrameArrives` says to happen only at a header
  that was not sent so, and never with the Golay code.  Mobitex frames with valid CRCs come out whole and in order
  (`PerfectReceptionInOrder`), all of them (`PerfectReceptionComplete`); with any
  outcomes and any race what comes out has the header of its own block 0
  (`HeaderOfBlockZero`) and no block is used twice (`BlockForwardedOnce`).  That the
  *other* blocks of a forwarded frame are of the same frame is not claimed: with the
  race they may not be.  The codes correct what they can (`CorrectsErrors`; of a PDU in
  several Reed-Solomon code words nothing comes out if one cannot be decoded), the CRC
  block is a CRC (`CrcIsRemainder`) and notices damage (`CrcFindsDamage`).
* `transports`: how packets lie in frames does not matter to tm_kiss_transport as long
  as packets end with TM frames (`DelimitedExtracted`), to the space packets
  (`SpacePacketsExtracted`, with `PointsToFirstHeader` for the header they rely on), nor
  to NANOLINK but for a syncword in two PDUs (`OnlySeveredLost`).  A false tag spoils at
  most two LilacSat-1 packets (`FalseTagSpoilsTwo`).  What CUTE and FUNcube parsers put
  together is what was sent (`PiecesOfOnePacket`, `RecordsAsWritten`), and a loss costs
  no more than it must (`LossCostsNoThirdPacket`, `SpanningRecordsGiven`).
* `flowgraph`: a description that passes check_yaml() fails only by what check_yaml()
  overlooks (`CheckedDescriptionBuilds`), and frames reach the sinks described and no
  other (`FramesReachDescribedSinks`).

## What the checks found

Five runs show disagreements between the code and what it says of itself:

* **Two threads in front of the reframer** (`mobitex_race`).  Data blocks with a
  valid CRC go through one pdu_set block, those with an invalid one through
  another; both send to the reframer, so block 1 can arrive before block 0.  The
  reframer's documentation asks for block 0 first
  (python/tubix20_reframer.py:22); when it does not get it, the block that came
  early is dropped, and the frame is lost.
* **A list with two names** (`tm_kiss_extracts`).  When a packet ends inside a TM
  frame, tm_kiss_transport goes on with the old list: the next packet in the same
  TM frame comes out with the first one in front of it, an opening FEND repeats
  the first one, and what is left at the end of the TM frame is lost.
* **A length that is negative** (`varlen_false_sync`).  varlen_packet_tagger keeps the
  length of a packet in bits in an `int` (lib/varlen_packet_tagger_impl.cc:122).  Where a
  sync tag is wrong, or a bit of a header, the number may be any, and in eight times it
  the three highest bits are lost and the fourth is the sign.  A negative length passes
  the comparison with max_packet_size (:125) and gets to memcpy() (:153) as a size_t,
  which ends the program, and the frames behind are lost with it.  The comment there says
  that only the header is consumed "in case the sync was incorrectly tagged" (:163).
* **The wrong number of a frame** (`funcube_consecutive`).  The parser means to tell the
  first frame of an orbit by chunk 0, but counts from 1, and so never gives an orbit's
  first record (python/telemetry/funcube.py:560).
* **A syndrome that is the parity** (`bch_supported`).  The decoder's first syndrome is at
  the power 0, which is the parity of the word and not zero for half of the code words
  (python/bch15.py:116); those are corrected from one error less.

Met while modelling, without a run of its own:

* varlen_packet_framer: the bounds of max(32, min(8, n)) are the wrong way round
  (lib/varlen_packet_framer_impl.cc:62), so the header has 32 bits whatever
  length_field_size was given, and the tagger reads what it was given.  They understand
  each other with 32 bits or the Golay code, and the runs have these.

* time_dependent_delay: in a buffer with a time tag the samples before the tag use the
  index of a later time; delayed tags that overtake each other come too late for the next
  block; when the longest delay is not a whole number of samples above that of the filter,
  the history is one short.
* Doppler files: a newline at the end of the file doubles the last entry (harmless); the
  files of the delay are read by a loop that in that case pushes variables it has not read.
* The reframer raises KeyError when stale blocks of a longer frame make up the number but
  not the ids (python/tubix20_reframer.py:140).
* check_yaml() tests for a field `transport` that no description has (python/satyaml/satyaml.py:180)
  and does not look up the data of transports or the names of decoders; additional data on
  a telemetry sink fail with --hexdump; the documentation calls `file` what the code calls
  `files`; PDUs read with --kiss_in bypass the transports.
* Reed-Solomon and U482C encoders send the parity of an empty PDU, and the decoders take it
  for too short.
* The Viterbi decoder takes the best end state and not the zero state the encoder's flush
  leads to, so errors in the last bits are not corrected as well as others; a PDU shorter
  than the flush comes out whole.
* The CUTE parser does not compare the APIDs of pieces.

## Proofs

TLAPS proves, for every value of the constants:

| theorem | of | states |
|---|---|---|
| `FixedlenToPduProofs!Invariance` | `IInv` | the inductive invariant below |
| `... TypeCorrect`, `RingCorrect`, `PendingCorrect` | `TypeOK`, `HistoryHoldsStream`, `PendingInHistory` | invariants of the run |
| `... NeverTwice` | `PublishedOnce` | no PDU twice |
| `... Refinement` | `KeepsPromise` | the block implements `TaggedPackets` |
| `ChannelAccessProofs!Invariance` | `IInv` | the inductive invariant below |
| `... TypeCorrect`, `RemainingCorrect`, `NoException` | `TypeOK`, `RemainingIsExact`, `NeverThrows` | invariants of the run |
| `... CarrierRespected` | `NoStartUnderCarrier` | no packet starts under a carrier |
| `... CarrierFollowed` | `CarrierFollowsLevel` | no change of the level is lost or repeated |
| `SelectorProofs!Invariance` | `IInv` | the inductive invariant below |
| `... TypeCorrect` | `TypeOK` | nothing is read before it is written nor written without room |
| `... NoGaps`, `NoItemTwice`, `TagsCorrect` | `GapsOnlyAtSwitches`, `AtMostOnce`, `TagsFollowItems` | invariants of the run |
| `MobitexProofs!Invariance` | `IInv` | the inductive invariant below |
| `... HeaderCorrect`, `ForwardedOnce` | `HeaderOfBlockZero`, `BlockForwardedOnce` | invariants of the run |
| `... InOrderReception` | `PerfectReceptionInOrder` | with valid CRCs frames come out whole and in order |
| `FlowgraphProofs!CheckedBuilds` | `CheckedDescriptionBuilds` | for every description and option |
| `... FramesReachSinks` | `FramesReachDescribedSinks` | each transmitter is connected to its sinks and to no others |
| `TransportProofs!CuteInvariance` | `CuteInv` | the inductive invariant below |
| `... OnlyWholePackets`, `LossIsBounded` | `PiecesOfOnePacket`, `LossCostsNoThirdPacket` | invariants of the run |
| `... FuncubeInvariance` | `FuncubeInv` | the inductive invariant below |
| `... OnlyRecordsAsWritten`, `SpanningGiven` | `RecordsAsWritten`, `SpanningRecordsGiven` | invariants of the run |
| `... StreamsDecode` | `RestDecodes` | the inductive invariant below |
| `... DelimitedStreamsExtracted` | `DelimitedExtracted` | delimited KISS streams give what has arrived |
| `... DemuxInvariance` | `DemuxInv` | the inductive invariant below |
| `... OnlyTwoSpoilt` | `FalseTagSpoilsTwo` | LilacSat-1 packets come out as sent but for those near a false tag |
| `SpacePacketProofs!FramesArePointed`, `PacketsAreKept` | `PointersKept`, `PacketsKept` | the inductive invariants below |
| `... HeadersPointedTo`, `PacketsExtracted` | `PointsToFirstHeader`, `SpacePacketsExtracted` | invariants of the run |
| `... FramesAreKept` | `FramesKept` | the inductive invariant below |
| `... OnlySeveredAreLost` | `OnlySeveredLost` | NANOLINK frames come out but for those whose syncword is cut |
| `TimeLineProofs!SpecIndexBehindTime` | `IndexBehindTime` | the inductive invariant below |
| `... SpecValuesFollowFile`, `SpecReadsWithinHistory`, `SpecEveryTagOnce` | `ValuesFollowFile`, `ReadsWithinHistory`, `EveryTagOnce` | invariants of the run |
| `... SpecNoneOvertakes`, `SpecTagsReachNextBlock` | `NoneOvertakes`, `TagsReachNextBlock` | the inductive invariant of the tags, and the run's invariant from it |

Assumptions, stated where the constants are declared: `SizesAssumption` (packet_len is
positive, a byte has bits), `PacketLensAssumption` (packets are not empty),
`SelectorAssumption` (there is an input and an output), `BlockCountsAssumption` (a frame
has 1 to 32 blocks, the five bits of the control bytes and one) and `NoHeaderAssumption`
(None is not a number), `LossesAssumption` (fewer frames in a row are lost than the count
has values), `SizesOfRecords` (a payload is at least as long as a record, and none ends
where a record does), `FilesAssumption` (a file has a line, and its lines are in the order
of time, which neither block checks) and `FiltersAssumption` (a filter has a tap, and there
are two filters at least: with one the second filter would always be read an item later),
`ChannelsAssumption` (a virtual channel is extracted or not) and `PacketsAssumption` (no
packet is empty: the handler ignores a FEND behind a FEND) and `SpacePacketsAssumption`
(a TM frame has room for a byte, and the bytes of packets are numbers; the virtual channels
demultiplexed are among those on board, as one on which nothing is sent is no exception)
and `ContentsAssumption` (NANOLINK frames hold bytes and no syncword, which nothing escapes)
and `DemuxAssumption` (the header of a LilacSat-1 packet is in no codec2 part, and a packet
has as many bits as there are positions; in the code the header is 4 bytes of the 17 in
front of the first part).
Those of `TimeLine` also say that times and bounds are whole numbers.  Nothing else: sizes
of buffers, lengths of streams, numbers of ports, packets and frames are any, and a
description is anything with the three fields.

*FixedlenToPdu.*  What has to hold of a step is that each packet in the list can
still be put together from the ring and the next buffer.  `HistoryHoldsStream`
alone is inductive about the ring (`UpdateKeepsRing`, one case for each branch of
`update_history`), but says nothing of the packets, so the invariant adds
`PendingInHistory` and the books: `d_packet_infos` is what has been tagged and
has not ended, `published` is the PDUs of what has been tagged and has ended.
From the ring follows `CopyIsRight`: each of the three copies gives the offsets of
the packet; with it `PduIsRight`, that a PDU is the one promised; and then a step
of `work` is a `Receive` step of `TaggedPackets`.

*ChannelAccess.*  `RemainingIsExact` is not inductive: it needs that tags do not
overlap and leave no gap, so that at most one packet is in flight
(`HolderIsUnique`) and that a call which finds no tag in its range stays within
the packet in flight.  The invariant adds that.  `PropagateBounds` gives what a
call may let through, `WorkIsExact` what remains afterwards.  `CarrierFollowed` has
an invariant of its own, of the carrier, the queue and the level as one sequence that
changes at every place and ends in the level; one side appends, the other drops.

*Selector.*  The properties are about what has come out, and a step adds to it from
what is there.  So the invariant says that a call which the scheduler has committed to
is within what is there (`WithinCall`, which survives every switch because it speaks of
all ports), that what came out is behind the counts (`BelowCounts`), and that what came
out since the last switch went from the active input to the active output, as far
behind one count as behind the other (`CurrentRun`).  `CopyInv` is the call that copies,
`DropInv` the one that is disabled.

*Mobitex.*  Neither property is inductive: they speak of what came out, and a step makes
it from what the reframer holds and what waits in four queues.  The invariant says that each
data block is in one place (`OnePlace`: no queue has it twice, and no two places have it),
that blocks are of frames received (`FramesKnown`, so that those of the next frame are new),
and that the header stored is of the block 0 held (`HeaderStored`).  Each handler takes the
head of a queue (`Taken`) and puts it at the end of another (`Put`); the reframer drops it,
holds it or forwards it (`PreparedFrame`).  The race is in the order of these steps, about
which the invariant assumes nothing.
For perfect reception the race does not exist, as no block fails its CRC, and there is one
line: what the reframer holds, then the queues from the one in front of it back to the one
in front of the CRC.  `InOrder` says that this line is the rest of the stream that was
received (`Stream`), from the first block that has not come out; a handler moves one block
along the line, `StreamReceived` adds a frame at its end, and `WholeFrameStored` takes one
from its front.

*Flowgraph.*  A name is looked up in a dictionary that an earlier stage has filled, so
the invariant says what is filled from which stage on: all sinks that are wanted, then
all transports.  What check_yaml() guarantees and what it overlooks are then exactly the
hypotheses of the lookups (`TransportFindsSinks`, `TransmitterFindsNames`).
For the second theorem the invariant says which connections there are: those of the
entries done so far, and no other (`ConnectedAsDescribed`).  What can be reached from a
deframer is then worked out from a finished description (`ReachedFromDeframer`).

*CUTE.*  What is put together comes from the frames kept, so the invariant says of them
that each is a frame received with the count the satellite gave it (`KeptAsSent`), that
nothing was received since the last one (`LostSince`), and that they follow each other as
far as they are of one application (`InARow`).  `LaterModulus` is why a gap shows: a
count that is one more modulo N is of the next frame, or of one N frames later, and
`FewLost` excludes the second.  For `LossIsBounded` the invariant adds that the frames of
a packet on its way are what is kept while none is missing (`WholeSoFar`), and that
nothing is kept behind the end of a packet that was received.  The losses allowed are
those of `MayBeLost`: any number of them, but fewer in a row than the count has values.

*FUNcube.*  The bytes of an orbit are numbered, so payloads, ends and records are all
pieces of it (`Bytes`), and what FuncubeParse cuts and joins are again pieces
(`BytesWithin`, `BytesJoined`).  `Boundary` is where the last whole record of a chunk ends;
`RecordsGiven` says that a frame gives the records from `FirstGiven` to `Boundary`.  The
invariant says that the end kept is of the last frame received (`LastIsKept`) and that all
records given lie before it (`AllBefore`), so the next ones are new.  `LaterFrame`, that the
frames of an orbit come in their order, is an argument about `%` and `\div` for any
number of chunks.

*KISS in TM frames.*  `Takes` says that bytes lead a decoder that begins a new list after
each packet (`Decoded`) from one state to another, with exactly the marked bytes ending
packets.  It can be joined and cut anywhere (`BothTake`, `PartTakes`), and that is why it
does not matter where TM frames cut packets and escapes.  A packet as it is sent adds
itself to what is out (`FrameTakes`, from `EscapedTakes` for a byte), and a sequence of
bytes adds as many packets as it has marks (`AsManyAsMarked`).  The handler does not begin
a new list but goes on with the old one; `HandlerAgrees` is that it leaves the same if only
the last byte of a payload ends a packet, the condition that `PacketsExtracted` lacks.  The
invariant says that the rest of the stream takes the decoder to all that was written.

*Space packets.*  A handler is a loop; `FillTurn` and `ReconstructTurn` are its turns, and
the model repeats them as often as there are bytes, of which a turn takes one at least.
`Recursion` is that repeating them gives something, `StepByStep` that what every turn keeps
holds in the end; `PacketFills` and `PayloadReconstructed` add that no bytes are left then.
For the pointer the invariant `PointersKept` says that the TM frame being filled, and every
one on its way, is pointed to (`Pointed`).  A turn keeps it (`TurnFills`) while the pointer of
the *next* TM frame is computed from what is left of the packet: `FillLeft` says what that
pointer is when nothing of the packet, all of it, or an end of it is left.
The other invariant comes in two parts.  `BytesKept` is about the link: the bytes of a virtual
channel that came down, those on their way and those in the TM frame being filled are a
chain (`Chain`), in which a byte is followed by the next one of its packet, or a last byte by a
first one, except at packets that lost bytes (`missed`).  A frame that is
lost takes a piece out of the chain, and the pieces left adjoin.  `PacketsKept` is about the
ground: as long as no packet was cut, what a reconstruction holds is the beginning of the
packet that the last byte belongs to (`Held`), and what it has given is one packet for each
last byte that came down, in order (`Out`).  The handler passes from one such state to the
next (`Reached`) wherever a TM frame ends, in a header too, which is what the property is
about.  Nothing in the proof bounds the packets, their lengths, the frames or the losses.

*NANOLINK.*  The bytes of the stream carry the frame and the place they come from, which the
block does not see.  `FrameStream` says what a byte is (`OfFrame`) and what is behind it
(`GoesOn`), up to a byte between frames at the end; `StreamCut`, `StreamFilled` and
`StreamGrows` keep it.  The invariant `FramesKept` is then about the first byte that has not
come in a PDU: the block searches if that byte is between frames, is the first of a syncword
or is of a severed frame (`Searching`), and otherwise holds exactly what lies before it of its
frame (`InFrame`), in the header too, with `remain` for what is missing; and what was published
is the frames that have come before that byte, but for the severed ones (`FramesOut`).  A turn
of the loop keeps this as it moves along the PDU.  That find() finds the syncword of the next
frame, and not one that fill and frames make up between them, is `PairIsSyncword`: two bytes
that look like a syncword are one, for frames hold none and fill is not its second byte.  A
search passes no frame that is to come out (`SearchGoesOn`), `HeaderGoesOn` and `PayloadGoesOn`
are the two halves of a turn in a frame, and `PduDefragmented` is that no bytes are left.
A frame is severed when a PDU ends with the first byte of its syncword; `CutCounted` is that
this frame has not begun before, so that what has come out does not change by it.  Nothing in
the proof bounds the frames, their contents, the fill or the PDUs.

*Time line.*  The index into a file only moves on from where it is, until somebody tells
a time and it goes back; so a value is the one that the file has for a time if the index is
not ahead of that time (`ValueOfFile`), however far behind it is.  The invariant says so of
the next sample to come and of the time that was told, whichever is later (`Reached`), with
what the last call has produced counted whether or not the scheduler has done so.  That is
why set_time() between work() and the count does no harm: it counts from a sample that is
past, and the index goes back as far as the time told.  What a call does is a chain of
indices, one for each sample, one for each tag; `StepByStep` is induction along such a
chain, from `WFMin`, and `Recursion` that the chain exists.  `ValueWithin` bounds values
that are interpolated by those of the file, whatever the index, from which
`ReadsOfSample` follows with the longest delay (`LongestDelay`) and the rounding.  For the
tags the invariant says that the output and the queue have each tag once between them
(`Each`): a tag of the window is put in one of them (`TagIsPut`), and the front of the
queue goes behind the output (`QueueParts`, `QueuesJoin`).

That the next block sees the tags (`TagsReachNextBlock`) needs a second invariant,
`NoneOvertakes`.  `tags_propagate()` lets go the front of the queue up to the first tag
that is not due, so that a tag behind one that is due later would come too late.  While no
time is told that the block does not have, the time of an item is its number (`Punctual`),
and a tag goes out with the item `Due` for its own, which is not before it since no delay is
negative.  If the delay falls by one sample per sample at most between the lines of the
file, it does so anywhere between (`PartFalls`, `FallsSlowlyAnywhere`): also where several
lines have the same time (`FallsNotAtOnce`), and after rounding (`Rounded`).  So `Due` does
not go back from one item to a later one (`DueInOrder`), the queue stays in the order of the
items (`WindowIsQueued`), what is kept is not due before the next item (`DueAreParted`), and
what goes out belongs to an item that the scheduler has not counted, which is behind all
that the second block has read.  That block sees all tags of its window, since the order in
which it gets them leaves none out (`WindowHasTags`, with `FS_Injection`).

*LilacSat-1.*  A packet comes out as sent if the bits read so far are where they belong
(`ReadUpTo`), but a step only keeps this if it reads at the position that the bit has in its
packet, with d_frame and d_codec2 clear when the packet begins.  The invariant therefore
has two parts, of which the second needs the first of the packet before.  With no false tag
in a packet or behind it, it is read from its first bit to its last and leaves nothing
(`ReadFromStart`): the position is right from the first bit on, the last part of codec2 ends
with the packet (`LastPosition`), and d_frame is cleared with the bit behind it.  With none
in the packet before, either, nothing was left when it began, and the bits are where they
belong (`LastPacketRead`).  That they belong there is what the arithmetic of work() does:
the property takes the positions of the frame, and those of codec2, out of the packet in
the order they come (`InOrder`), and `frame_bit` and `codec2_bit` are found to be
numbers in that order.  A position has a chunk, a byte in it and a bit (`Place`, `NextPlace`),
from which follows how many positions of the frame are in front of it (`FrameCount`); that
is one more behind each of them (`FrameCountOfNext`), so by `StepByStep` it is their number
(`CountedBefore`).

Only model-checked:

* Everything about liveness (`PacketsEnd`, `ClearChannelDrains`, `DrainsEventually`,
  `NeverStopsUpstream`, `AllArrive`, `PerfectReceptionComplete`) is out of the prover's
  reach.
* What framers and deframers are to each other (`LosslessInOrder`, `IntactFrameArrives`):
  the links with KISS and HDLC work through a stream with a fold over its bytes, the one
  with variable length packets through bits.  `StepByStep` is induction along a recursive
  function, and the folds would have to be brought into that form first.
* The codes and CRCs (`CorrectsErrors`, `CrcFindsDamage`, `CrcIsRemainder`) are tables and
  matrices of particular numbers: TLC's enumeration of them is the proof.

## What is not modelled

* File and image receivers: creating a file raises AttributeError
  (python/filereceiver/filereceiver.py:220 asks a Path for dirname), so no state behind
  that can be reached.
* Demodulators, stream filters, the RA code: floating point, or one sample at a time with
  a register or two.
* Deframers other than those above are chains of the same blocks (syncword, descrambler,
  FEC, CRC) put together by GNU Radio; the S-NET, AX100 and NuSat decoders among them
  parse headers without keeping a state.  The loop of the K2SAT deframer
  (python/k2sat_deframer.py:84) may not end; it keeps nothing between PDUs either.
* The distributed syncword search: the runtime keeps its window, the block has no state.
* Of CCSDS: the telecommand blocks, the time stamp adder and the parsers, which print;
  counters that no block of the repository reads (the sequence count fails to build a
  header after 16383 packets, python/ccsds/space_packet_primaryheader_adder.py:56).
* Reed-Solomon on streams (the encoder leaves the end of its output items unwritten for
  shortened codes) and the convolutional coding that U482C refuses to encode.
* Telemetry layouts: declarative, one frame at a time; submission and CSP over ZMQ: outside
  libraries, with a thread that forwards.
* PDU utilities: functions of one PDU and two counters.
* Of the flowgraph: options of single demodulators and deframers.
* Generated documentation code under docs/doxygen and the examples, apps, tools and grc
  files: they are not part of the running system.

Of the modelled parts, the metadata dictionaries of PDUs, the values of samples, the
wording of log messages and what printing parsers print are left out.

The implementation that is not modelled is, by size, mostly declarative telemetry
layouts, generated documentation code and signal processing; the parts with a state that
outlives a call, where order, cuts and losses matter, are the ones modelled.

## Plan

Done: selector, variable length packets, HDLC, the files of times, the transports and CCSDS
packets, telemetry parsers with a state, codes and CRCs, the flowgraph; proofs of the ring of
old items, the carrier messages, the selector, the Mobitex reframer, the flowgraph's
construction and its connections, the two telemetry parsers, the files of times, KISS streams
in TM frames, space packets in TM frames and NANOLINK frames in PDUs.

Left, in this order:

1. The links by recursive functions in place of folds, so that they can be reasoned about as
   the files of times are: `KissLink` first.
2. The soft-decision syncword search of AO-40 with its deinterleaver, and the S-NET frame
   decoder on top of `Bch15`.

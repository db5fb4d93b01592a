---------------------------- MODULE TaggedPackets ----------------------------
(***************************************************************************)
(* What a "tagged stream to PDU" block promises, whatever its buffers are.  *)
(*                                                                          *)
(* A stream of items arrives.  Some items carry a syncword tag: a packet    *)
(* starts there and spans a known number of items.  As soon as the last     *)
(* item of a packet has arrived, a PDU with the items of the packet is out, *)
(* and until then it is not.  The promise mentions neither the sizes of the *)
(* buffers in which the scheduler delivers the stream nor a history.        *)
(*                                                                          *)
(* The blocks only copy items, so an item is represented by its offset in   *)
(* the stream: a PDU is right when it holds the right offsets.              *)
(***************************************************************************)
EXTENDS Integers

CONSTANT ByteBits        \* items in a byte of a packed payload

VARIABLES
    packed,              \* payloads are made of bytes of ByteBits items
    received,            \* number of items of the stream that have arrived
    tagged,              \* packets announced so far: records of offset and length
    published            \* PDUs published so far

abstractVars == <<packed, received, tagged, published>>

\* The items of the stream that belong to a packet.
ItemsOf(p) == [i \in 0 .. p.length - 1 |-> p.offset + i]

\* Whole bytes, in the order of the stream.
BytesOf(p) == [j \in 0 .. (p.length \div ByteBits) - 1 |->
                  [k \in 0 .. ByteBits - 1 |-> ItemsOf(p)[ByteBits * j + k]]]

\* The PDU a packet must give.
PduOf(p) == [offset |-> p.offset,
             length |-> p.length,
             data   |-> IF packed THEN BytesOf(p) ELSE ItemsOf(p)]

\* The packets of S all of whose items have arrived.
CompleteBy(S, last) == {p \in S : p.offset + p.length <= last}

PInit == /\ packed \in BOOLEAN
         /\ received = 0
         /\ tagged = {}
         /\ published = {}

\* Some items arrive, with the packets that start at one of them.
Receive == /\ packed' = packed
           /\ received' > received
           /\ tagged \subseteq tagged'
           /\ \A p \in tagged' \ tagged : p.offset \in received .. received' - 1
           /\ published' = {PduOf(p) : p \in CompleteBy(tagged', received')}

PSpec == PInit /\ [][Receive]_abstractVars
==============================================================================

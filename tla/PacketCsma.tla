------------------------------ MODULE PacketCsma ------------------------------
(***************************************************************************)
(* lib/packet_csma_impl.{h,cc}: the general block that lets a packet start  *)
(* only while no carrier is sensed and never stops one that has started.    *)
(*                                                                          *)
(* The input is a tagged stream: packets one after the other, each with a   *)
(* length tag on its first item.  Items are not inspected and are not       *)
(* represented; what matters is how many of them each call lets through.    *)
(* The message handler and general_work() run in the thread of the block,   *)
(* so each of them is one step.                                             *)
(***************************************************************************)
EXTENDS Integers, Sequences

CONSTANTS
    PacketLens,             \* lengths of the packets upstream may send
    MaxItems                \* bound: items upstream sends

\* An item carries at most one length tag, so packets are not empty.
ASSUME PacketLensAssumption == PacketLens \subseteq Nat \ {0}

VARIABLES
    d_back_to_back_priority,  \* constructor argument, constant afterwards
    d_carrier_sense,          \* the last message handled
    d_remaining_items,        \* items the packet in flight still has to go
    nitems_read,              \* items let through
    written,                  \* items upstream has written
    tags,                     \* the length tags on them
    carrier_msgs,             \* messages waiting at the carrier_sense port
    failed                    \* general_work() has thrown

csmaVars == <<d_back_to_back_priority, d_carrier_sense, d_remaining_items,
              nitems_read, written, tags, carrier_msgs, failed>>

Min2(a, b) == IF a <= b THEN a ELSE b

\* The offset after the last item of the packet of a tag.
EndOf(t) == t.offset + t.length

CsmaInit == /\ d_back_to_back_priority \in BOOLEAN
            /\ d_carrier_sense = FALSE
            /\ d_remaining_items = 0
            /\ nitems_read = 0
            /\ written = 0
            /\ tags = {}
            /\ failed = FALSE

------------------------------------------------------------------------------
\* Upstream writes a packet and tags its first item.  How much of it is in the
\* buffer when general_work() is called is left to the scheduler.
WritePacket(length) ==
    /\ written + length <= MaxItems
    /\ tags' = tags \cup {[offset |-> written, length |-> length]}
    /\ written' = written + length
    /\ UNCHANGED <<d_back_to_back_priority, d_carrier_sense, d_remaining_items,
                   nitems_read, carrier_msgs, failed>>

handle_carrier_sense ==
    /\ ~ failed
    /\ carrier_msgs # <<>>
    /\ d_carrier_sense' = Head(carrier_msgs)
    /\ carrier_msgs' = Tail(carrier_msgs)
    /\ UNCHANGED <<d_back_to_back_priority, d_remaining_items, nitems_read,
                   written, tags, failed>>

\* Slips: the packet in flight is not told from the next one; or it is stopped.
num_propagate_all(n) == IF d_carrier_sense /\ d_remaining_items = 0 THEN 0 ELSE n

num_propagate_none(n) == IF d_carrier_sense THEN 0 ELSE n

\* How many of n items may go: all of them without a carrier; with a carrier
\* nothing new, except behind a packet in flight when back-to-back has priority.
num_propagate(n) ==
    CASE ~ d_carrier_sense                              -> n
      [] d_carrier_sense /\ d_remaining_items = 0       -> 0
      [] d_carrier_sense /\ d_remaining_items # 0       ->
            IF d_back_to_back_priority THEN n ELSE Min2(n, d_remaining_items)

\* The length tags on the next n items.
TagsInRange(n) == {t \in tags : t.offset >= nitems_read /\ t.offset < nitems_read + n}

\* A slip: the first packet of the range counts, not the last one.
TagThatCountsFirst(range) == CHOOSE t \in range : \A u \in range : t.offset <= u.offset

\* Only the last packet of the range may have items left.
TagThatCounts(range) == CHOOSE t \in range : \A u \in range : u.offset <= t.offset

\* No packet begins in what is let through, and no packet has that much left.
NothingToContinue(num) == TagsInRange(num) = {} /\ num > d_remaining_items

\* What remains of the packet in flight once num items have gone.
RemainingAfter(num) ==
    IF TagsInRange(num) # {}
    THEN EndOf(TagThatCounts(TagsInRange(num))) - (nitems_read + num)
    ELSE d_remaining_items - num

\* A call with n items at the input and room for n at the output.
general_work(n) ==
    LET num == num_propagate(n)
    IN  /\ ~ failed
        /\ failed' = NothingToContinue(num)
        /\ IF failed' THEN UNCHANGED <<d_remaining_items, nitems_read>>
                      ELSE /\ d_remaining_items' = RemainingAfter(num)
                           /\ nitems_read' = nitems_read + num
        /\ UNCHANGED <<d_back_to_back_priority, d_carrier_sense, written, tags, carrier_msgs>>
==============================================================================

---------------------------- MODULE ChannelAccess ----------------------------
(***************************************************************************)
(* Carrier sensing as two blocks do it together: level_to_message runs in   *)
(* one thread and publishes messages, PacketCsma runs in another, handles   *)
(* them in order some time later and lets packets through.                  *)
(*                                                                          *)
(* lib/level_to_message_impl.{h,cc} watches the level of the channel and    *)
(* tells when it crosses a threshold.  Each call looks only at the last     *)
(* sample of its buffer, so a buffer is represented by whether that sample  *)
(* is above the threshold; a message is the Boolean of its pair.            *)
(***************************************************************************)
EXTENDS PacketCsma

CONSTANT MaxMsgs            \* bound: messages in transit

VARIABLE d_above_threshold      \* what the last message said (FALSE at construction)

vars == <<d_back_to_back_priority, d_carrier_sense, d_remaining_items,
          nitems_read, written, tags, carrier_msgs, failed, d_above_threshold>>

Init == /\ CsmaInit
        /\ d_above_threshold = FALSE
        /\ carrier_msgs = <<>>

\* A slip: a message for every rise, none for a fall.
level_work_rises(above_threshold) ==
    IF above_threshold # d_above_threshold
    THEN /\ d_above_threshold' = above_threshold
         /\ carrier_msgs' = IF above_threshold THEN Append(carrier_msgs, TRUE)
                                               ELSE carrier_msgs
    ELSE UNCHANGED <<d_above_threshold, carrier_msgs>>

\* One call to work(): a message only when the level has crossed the threshold.
level_work(above_threshold) ==
    IF above_threshold # d_above_threshold
    THEN /\ d_above_threshold' = above_threshold
         /\ carrier_msgs' = Append(carrier_msgs, above_threshold)
    ELSE UNCHANGED <<d_above_threshold, carrier_msgs>>

Upstream == \E length \in PacketLens : WritePacket(length) /\ UNCHANGED d_above_threshold

\* The block that watches the level gets a buffer.
Sense == \E above \in BOOLEAN :
            /\ Len(carrier_msgs) < MaxMsgs
            /\ level_work(above)
            /\ UNCHANGED <<d_back_to_back_priority, d_carrier_sense, d_remaining_items,
                           nitems_read, written, tags, failed>>

Handle == handle_carrier_sense /\ UNCHANGED d_above_threshold

Work == \E n \in 1 .. written - nitems_read :
            general_work(n) /\ UNCHANGED d_above_threshold

Next == Upstream \/ Sense \/ Handle \/ Work

Spec == Init /\ [][Next]_vars

\* The scheduler of the flowgraph calls the handlers and general_work() of a block
\* as long as there are messages and items for it; the channel owes nothing.
Fairness == WF_vars(Handle) /\ WF_vars(Work)

FairSpec == Spec /\ Fairness

------------------------------------------------------------------------------
Tags == [offset : Nat, length : PacketLens]

TypeOK == /\ d_back_to_back_priority \in BOOLEAN
          /\ d_carrier_sense \in BOOLEAN
          /\ d_remaining_items \in Nat
          /\ nitems_read \in Nat
          /\ written \in Nat
          /\ nitems_read <= written
          /\ tags \subseteq Tags
          /\ carrier_msgs \in Seq(BOOLEAN)
          /\ failed \in BOOLEAN
          /\ d_above_threshold \in BOOLEAN

\* The packet of tag t has begun and has not ended.
InFlight(t) == t.offset < nitems_read /\ nitems_read < EndOf(t)

\* d_remaining_items is what the packet in flight has left, to the item, and 0 when
\* the stream stands between two packets, however the calls of general_work cut
\* the packets.  In particular the subtraction of lib/packet_csma_impl.cc:88 never
\* wraps around.
RemainingIsExact ==
    /\ \A t \in tags : InFlight(t) => d_remaining_items = EndOf(t) - nitems_read
    /\ (\A t \in tags : ~ InFlight(t)) => d_remaining_items = 0

\* The exception of lib/packet_csma_impl.cc:93 cannot happen on a tagged stream.
NeverThrows == ~ failed

\* Messages change the block's mind once each, and when all of them are handled
\* the block believes what the level block last saw: no edge is lost or repeated.
CarrierFollowsLevel ==
    LET believed == <<d_carrier_sense>> \o carrier_msgs
    IN  /\ believed[Len(believed)] = d_above_threshold
        /\ \A i \in 1 .. Len(believed) - 1 : believed[i] # believed[i + 1]

\* No packet starts while the block senses a carrier.  With back-to-back priority
\* there is one exception: a packet that follows, in the same call, one in flight.
NoStartUnderCarrier ==
    [][\A t \in tags :
         (nitems_read <= t.offset /\ t.offset < nitems_read' /\ d_carrier_sense)
           => /\ d_back_to_back_priority
              /\ \E u \in tags : InFlight(u)]_vars

\* A packet that has started gets to its end, whatever the carrier does meanwhile.
PacketsEnd ==
    \A e \in 1 .. MaxItems :
        (\E t \in tags : InFlight(t) /\ EndOf(t) = e) ~> (nitems_read >= e)

\* If the channel stays clear from some moment on, everything written goes out.
ClearChannelDrains ==
    <>[](~ d_above_threshold) => []<>(nitems_read = written)
==============================================================================

---------------------------- MODULE SelectorProofs ----------------------------
(***************************************************************************)
(* The selector is right for any number of ports, buffers of any size and  *)
(* any number of switches, whichever moments they fall on.                 *)
(*                                                                         *)
(* A call never has more than is there (WithinCall), so what it copies are *)
(* the next items of an input, put behind those of an output               *)
(* (BelowCounts).  Since the last switch everything went from one input to *)
(* one output, so items and places have moved on together (CurrentRun).    *)
(***************************************************************************)
EXTENDS Selector, TLAPS

\* The call to come asks for no more than there is, and has room for it.
WithinCall == /\ \A o \in Outputs : call.noutput_items <= Space(o)
              /\ \A i \in Inputs : call.ninput_items[i] <= Available(i)

\* What came out was written to the output and read from the input.
BelowCounts ==
    \A o \in Outputs : \A a \in out[o] :
        /\ a.offset < nitems_written[o]
        /\ a.item < nitems_read[a.input]
        /\ a.switches <= switches

\* What came out since the last switch.
CurrentRun ==
    \A o \in Outputs : \A a \in out[o] :
        a.switches = switches =>
            /\ d_enabled
            /\ o = d_output_index
            /\ a.input = d_input_index
            /\ nitems_written[o] - a.offset = nitems_read[a.input] - a.item

\* The inductive invariant.
IInv == /\ TypeOK
        /\ WithinCall
        /\ BelowCounts
        /\ CurrentRun
        /\ GapsOnlyAtSwitches
        /\ AtMostOnce
        /\ TagsFollowItems

------------------------------------------------------------------------------
\* There is at least one input and one output.
LEMMA Ports ==
    ASSUME TypeOK
    PROVE  d_num_inputs \in Nat \ {0} /\ d_num_outputs \in Nat \ {0}
  BY SelectorAssumption DEF TypeOK

\* A request fits every output.
LEMMA RequestFits ==
    ASSUME TypeOK, NEW n \in Requests
    PROVE  n \in Nat /\ \A o \in Outputs : n <= Space(o)
  <1>1. PICK o \in Outputs : /\ \A p \in Outputs : Space(o) <= Space(p)
                             /\ n \in Halves(Space(o))
    BY Zenon DEF Requests
  <1>2. n \in 1 .. Space(o)
    BY <1>1, Zenon DEF Halves
  <1>3. \A p \in Outputs : Space(p) \in Int
    BY SelectorAssumption DEF TypeOK, Space
  <1> QED BY <1>1, <1>2, <1>3

\* What a call copies is there and fits.
LEMMA CopyFits ==
    ASSUME IInv
    PROVE  /\ to_copy \in Nat
           /\ to_copy <= Available(d_input_index)
           /\ to_copy <= Space(d_output_index)
  <1>1. /\ call.noutput_items \in Nat
        /\ call.ninput_items[d_input_index] \in Nat
        /\ d_input_index \in Inputs /\ d_output_index \in Outputs
    BY DEF IInv, TypeOK
  <1>2. /\ Available(d_input_index) \in Int
        /\ Space(d_output_index) \in Int
    BY <1>1, SelectorAssumption DEF IInv, TypeOK, Available, Space
  <1>3. /\ call.noutput_items <= Space(d_output_index)
        /\ call.ninput_items[d_input_index] <= Available(d_input_index)
    BY <1>1 DEF IInv, WithinCall
  <1> QED BY <1>1, <1>2, <1>3 DEF to_copy, Min2

\* The items of a call, one by one.
LEMMA CopiedItems ==
    ASSUME TypeOK, NEW n \in Nat, NEW a \in Copied(n)
    PROVE  \E k \in 0 .. n - 1 :
              /\ a \in Items
              /\ a.offset = nitems_written[d_output_index] + k
              /\ a.input = d_input_index
              /\ a.item = nitems_read[d_input_index] + k
              /\ a.switches = switches
  <1>1. PICK k \in 0 .. n - 1 :
            a = [offset |-> nitems_written[d_output_index] + k,
                 input  |-> d_input_index,
                 item   |-> nitems_read[d_input_index] + k,
                 switches |-> switches]
    BY DEF Copied
  <1>2. /\ nitems_written[d_output_index] \in Nat /\ nitems_read[d_input_index] \in Nat
        /\ d_input_index \in Inputs /\ switches \in Nat
    BY DEF TypeOK
  <1>3. /\ nitems_written[d_output_index] + k \in Nat
        /\ nitems_read[d_input_index] + k \in Nat
    BY <1>2
  <1> QED BY <1>1, <1>2, <1>3 DEF Items

\* A tag goes with each item.
LEMMA CopiedTagsOfItems ==
    ASSUME TypeOK, NEW n \in Nat
    PROVE  CopiedTags(n) =
              {[offset |-> a.offset, input |-> a.input, item |-> a.item] : a \in Copied(n)}
  <1> DEFINE AsTag(a) == [offset |-> a.offset, input |-> a.input, item |-> a.item]
  <1>1. PICK r \in Nat : r = nitems_read[d_input_index]
    BY DEF TypeOK
  <1>2. PICK w \in Nat : w = nitems_written[d_output_index]
    BY DEF TypeOK
  <1>3. ASSUME NEW t \in CopiedTags(n)
        PROVE  \E a \in Copied(n) : t = AsTag(a)
    <2>1. PICK q \in r .. r + n - 1 :
              t = [offset |-> q - (r - w), input |-> d_input_index, item |-> q]
      BY <1>1, <1>2, <1>3 DEF CopiedTags
    <2>2. PICK k \in 0 .. n - 1 : q = r + k /\ q - (r - w) = w + k
      <3>1. q - r \in 0 .. n - 1 /\ q = r + (q - r) /\ q - (r - w) = w + (q - r)
        OBVIOUS
      <3> QED BY <3>1
    <2> DEFINE a == [offset |-> w + k, input |-> d_input_index, item |-> r + k,
                     switches |-> switches]
    <2>3. a \in Copied(n)
      BY <1>1, <1>2 DEF Copied
    <2>4. t = AsTag(a)
      BY <2>1, <2>2
    <2> QED BY <2>3, <2>4
  <1>4. ASSUME NEW a \in Copied(n)
        PROVE  AsTag(a) \in CopiedTags(n)
    <2>1. PICK k \in 0 .. n - 1 : a = [offset |-> w + k, input |-> d_input_index,
                                       item |-> r + k, switches |-> switches]
      BY <1>1, <1>2, <1>4 DEF Copied
    <2>2. r + k \in r .. r + n - 1 /\ (r + k) - (r - w) = w + k
      OBVIOUS
    <2>3. [offset |-> (r + k) - (r - w), input |-> d_input_index, item |-> r + k]
             \in CopiedTags(n)
      BY <1>1, <1>2, <2>2 DEF CopiedTags
    <2> QED BY <2>1, <2>2, <2>3
  <1>5. \A t \in CopiedTags(n) : t \in {AsTag(a) : a \in Copied(n)}
    BY <1>3, Zenon
  <1>6. \A t \in {AsTag(a) : a \in Copied(n)} : t \in CopiedTags(n)
    BY <1>4, Zenon
  <1> QED BY <1>5, <1>6

------------------------------------------------------------------------------
\* At the start nothing is written, and the buffers are empty.
LEMMA InitInv == Init => IInv
  <1> SUFFICES ASSUME Init PROVE IInv
    OBVIOUS
  <1>1. \E t \in Topologies : d_num_inputs = t[1] /\ d_num_outputs = t[2]
    BY DEF Init
  <1>2. <<d_num_inputs, d_num_outputs>> \in Topologies
    <2>1. PICK t \in Topologies : d_num_inputs = t[1] /\ d_num_outputs = t[2]
      BY <1>1
    <2>2. t \in (Nat \ {0}) \X (Nat \ {0})
      BY SelectorAssumption
    <2> QED BY <2>1, <2>2
  <1>3. TypeOK
    <2>1. /\ written \in [Inputs -> Nat] /\ nitems_read \in [Inputs -> Nat]
          /\ nitems_written \in [Outputs -> Nat] /\ drained \in [Outputs -> Nat]
          /\ out \in [Outputs -> SUBSET Items] /\ tags \in [Outputs -> SUBSET Tags]
      BY DEF Init
    <2>2. call \in [noutput_items : Nat, ninput_items : [Inputs -> Nat]]
      BY DEF Init, NoCall
    <2>3. \A i \in Inputs : Available(i) >= 0
      BY DEF Init, Available
    <2>4. \A o \in Outputs : Space(o) >= 0
      BY SelectorAssumption DEF Init, Space
    <2>5. /\ d_input_index \in Inputs /\ d_output_index \in Outputs
          /\ d_enabled \in BOOLEAN /\ feed \in Inputs \cup {Separate}
          /\ switches \in Nat
      BY DEF Init
    <2> QED BY <1>2, <2>1, <2>2, <2>3, <2>4, <2>5, Zenon DEF TypeOK
  <1>4. WithinCall
    BY SelectorAssumption DEF Init, WithinCall, NoCall, Available, Space
  <1>5. BelowCounts /\ CurrentRun /\ GapsOnlyAtSwitches /\ AtMostOnce
    BY DEF Init, BelowCounts, CurrentRun, GapsOnlyAtSwitches, AtMostOnce
  <1>6. TagsFollowItems
    BY DEF Init, TagsFollowItems
  <1> QED BY <1>3, <1>4, <1>5, <1>6 DEF IInv

\* After a switch nothing is of the current run.
LEMMA SwitchInv ==
    ASSUME IInv, Switch,
           d_input_index' \in Inputs, d_output_index' \in Outputs, d_enabled' \in BOOLEAN
    PROVE  IInv'
  <1>1. /\ switches' = switches + 1 /\ switches \in Nat
        /\ UNCHANGED <<ports, streams, upstream, drained, call>>
    BY DEF Switch, IInv, TypeOK
  <1>2. TypeOK'
    BY <1>1 DEF IInv, TypeOK, ports, streams, upstream, Inputs, Outputs, Available, Space,
                Items, Tags
  <1>3. WithinCall'
    BY <1>1 DEF IInv, WithinCall, ports, streams, upstream, Inputs, Outputs, Available, Space
  <1>4. \A o \in Outputs : \A a \in out[o] : a.switches \in Nat /\ a.switches <= switches
    BY DEF IInv, BelowCounts, TypeOK, Items
  <1>5. BelowCounts'
    BY <1>1, <1>4 DEF IInv, BelowCounts, ports, streams, Outputs
  <1>6. CurrentRun'
    BY <1>1, <1>4 DEF CurrentRun, ports, streams, Outputs
  <1>7. (GapsOnlyAtSwitches /\ AtMostOnce /\ TagsFollowItems)'
    BY <1>1 DEF IInv, GapsOnlyAtSwitches, AtMostOnce, TagsFollowItems, ports, streams, Outputs
  <1> QED BY <1>2, <1>3, <1>5, <1>6, <1>7 DEF IInv

\* The scheduler commits to what is there now.
LEMMA ForecastInv == IInv /\ Forecast => IInv'
  <1> SUFFICES ASSUME IInv, Forecast PROVE IInv'
    OBVIOUS
  <1>1. UNCHANGED <<ports, settings, streams, upstream, drained>>
    BY DEF Forecast
  <1>2. PICK n \in Requests :
            call' = [noutput_items |-> n, ninput_items |-> [i \in Inputs |-> Available(i)]]
    BY Zenon DEF Forecast
  <1>3. n \in Nat /\ \A o \in Outputs : n <= Space(o)
    BY RequestFits DEF IInv
  <1>4. \A i \in Inputs : Available(i) \in Nat
    BY DEF IInv, TypeOK, Available
  <1>5. TypeOK'
    <2>1. call' \in [noutput_items : Nat, ninput_items : [Inputs -> Nat]]
      BY <1>2, <1>3, <1>4
    <2> QED BY <1>1, <2>1 DEF IInv, TypeOK, ports, settings, streams, upstream, Inputs,
                              Outputs, Available, Space, Items, Tags
  <1>6. WithinCall'
    <2>1. \A o \in Outputs : call'.noutput_items <= Space(o)
      BY <1>2, <1>3
    <2>2. \A i \in Inputs : call'.ninput_items[i] <= Available(i)
      BY <1>2, <1>4
    <2> QED BY <1>1, <2>1, <2>2 DEF WithinCall, ports, settings, streams, upstream, Inputs,
                                    Outputs, Available, Space
  <1>7. (BelowCounts /\ CurrentRun /\ GapsOnlyAtSwitches /\ AtMostOnce /\ TagsFollowItems)'
    BY <1>1 DEF IInv, BelowCounts, CurrentRun, GapsOnlyAtSwitches, AtMostOnce,
                TagsFollowItems, ports, settings, streams, Outputs
  <1> QED BY <1>5, <1>6, <1>7 DEF IInv

\* Items that are written only add to what is there.
LEMMA UpstreamInv ==
    ASSUME IInv, NEW i \in Inputs, HasRoom(i), written' = [written EXCEPT ![i] = @ + 1],
           feed' \in Inputs \cup {Separate},
           UNCHANGED <<ports, settings, streams, drained, call>>
    PROVE  IInv'
  <1>1. \A j \in Inputs : written'[j] = IF j = i THEN written[j] + 1 ELSE written[j]
    BY DEF IInv, TypeOK
  <1>2. \A j \in Inputs : written[j] \in Nat /\ nitems_read[j] \in Nat
    BY DEF IInv, TypeOK
  <1>3. \A j \in Inputs : written'[j] - nitems_read[j] >= Available(j)
                            /\ Available(j) \in Int /\ written'[j] - nitems_read[j] \in Int
    BY <1>1, <1>2 DEF Available
  <1>4. TypeOK'
    <2>1. written' \in [Inputs -> Nat]
      BY DEF IInv, TypeOK
    <2>2. \A j \in Inputs : written'[j] - nitems_read[j] >= 0
      BY <1>3 DEF IInv, TypeOK
    <2> QED BY <2>1, <2>2 DEF IInv, TypeOK, ports, settings, streams, Inputs, Outputs,
                              Available, Space, Items, Tags
  <1>5. WithinCall'
    <2>1. \A j \in Inputs : call.ninput_items[j] <= written'[j] - nitems_read[j]
      <3>1. \A j \in Inputs : call.ninput_items[j] \in Nat /\ call.ninput_items[j] <= Available(j)
        BY DEF IInv, TypeOK, WithinCall
      <3> QED BY <1>3, <3>1
    <2> QED BY <2>1 DEF IInv, WithinCall, ports, streams, Inputs, Outputs, Available, Space
  <1>6. (BelowCounts /\ CurrentRun /\ GapsOnlyAtSwitches /\ AtMostOnce /\ TagsFollowItems)'
    BY DEF IInv, BelowCounts, CurrentRun, GapsOnlyAtSwitches, AtMostOnce, TagsFollowItems,
           ports, settings, streams, Outputs
  <1> QED BY <1>4, <1>5, <1>6 DEF IInv

\* An item taken behind an output makes room.
LEMMA DownstreamInv ==
    ASSUME IInv, NEW o \in Outputs, Downstream(o)
    PROVE  IInv'
  <1>1. /\ drained[o] < nitems_written[o]
        /\ drained' = [drained EXCEPT ![o] = @ + 1]
        /\ UNCHANGED <<ports, settings, streams, upstream, call>>
    BY DEF Downstream
  <1>2. \A p \in Outputs : /\ drained[p] \in Nat /\ nitems_written[p] \in Nat
                           /\ drained'[p] = IF p = o THEN drained[p] + 1 ELSE drained[p]
    BY <1>1 DEF IInv, TypeOK
  <1>3. \A p \in Outputs : /\ OutCapacity - (nitems_written[p] - drained'[p]) >= Space(p)
                           /\ OutCapacity - (nitems_written[p] - drained'[p]) \in Int
                           /\ Space(p) \in Int
    BY <1>2, SelectorAssumption DEF Space
  <1>4. TypeOK'
    <2>1. drained' \in [Outputs -> Nat]
      BY <1>1 DEF IInv, TypeOK
    <2>2. \A p \in Outputs : OutCapacity - (nitems_written[p] - drained'[p]) >= 0
      BY <1>3 DEF IInv, TypeOK
    <2> QED BY <1>1, <2>1, <2>2 DEF IInv, TypeOK, ports, settings, streams, upstream, Inputs,
                                    Outputs, Available, Space, Items, Tags
  <1>5. WithinCall'
    <2>1. \A p \in Outputs :
             call.noutput_items <= OutCapacity - (nitems_written[p] - drained'[p])
      <3>1. \A p \in Outputs : call.noutput_items \in Nat /\ call.noutput_items <= Space(p)
        BY DEF IInv, TypeOK, WithinCall
      <3> QED BY <1>3, <3>1
    <2> QED BY <1>1, <2>1 DEF IInv, WithinCall, ports, streams, upstream, Inputs, Outputs,
                              Available, Space
  <1>6. (BelowCounts /\ CurrentRun /\ GapsOnlyAtSwitches /\ AtMostOnce /\ TagsFollowItems)'
    BY <1>1 DEF IInv, BelowCounts, CurrentRun, GapsOnlyAtSwitches, AtMostOnce,
                TagsFollowItems, ports, settings, streams, Outputs
  <1> QED BY <1>4, <1>5, <1>6 DEF IInv

\* What is consumed is there.
LEMMA ConsumedFits ==
    ASSUME IInv, NEW i \in Inputs
    PROVE  Consumed(i) \in Nat /\ Consumed(i) <= Available(i)
  <1>1. call.ninput_items[i] \in Nat /\ call.ninput_items[i] <= Available(i)
    BY DEF IInv, TypeOK, WithinCall
  <1> QED BY <1>1, CopyFits DEF Consumed

\* A call while the block is enabled: the items copied are new at both ends.
LEMMA CopyInv ==
    ASSUME IInv, d_enabled,
           tags' = [tags EXCEPT ![d_output_index] = @ \cup CopiedTags(to_copy)],
           out' = [out EXCEPT ![d_output_index] = @ \cup Copied(to_copy)],
           nitems_written' = [nitems_written EXCEPT ![d_output_index] = @ + to_copy],
           nitems_read' = [i \in Inputs |-> nitems_read[i] + Consumed(i)],
           UNCHANGED <<ports, settings>>
    PROVE  (BelowCounts /\ CurrentRun /\ GapsOnlyAtSwitches /\ AtMostOnce /\ TagsFollowItems)'
  <1>1. PICK n \in Nat : n = to_copy
    BY CopyFits
  <1>2. d_input_index \in Inputs /\ d_output_index \in Outputs /\ switches \in Nat
    BY DEF IInv, TypeOK
  <1>3. PICK r \in Nat : r = nitems_read[d_input_index]
    BY <1>2 DEF IInv, TypeOK
  <1>4. PICK w \in Nat : w = nitems_written[d_output_index]
    BY <1>2 DEF IInv, TypeOK
  \* The counts after the call.
  <1>5. \A i \in Inputs : /\ nitems_read[i] \in Nat /\ nitems_read'[i] \in Nat
                          /\ nitems_read[i] <= nitems_read'[i]
    <2>1. \A i \in Inputs : nitems_read[i] \in Nat /\ Consumed(i) \in Nat
      BY ConsumedFits DEF IInv, TypeOK
    <2> QED BY <2>1
  <1>6. nitems_read'[d_input_index] = r + n
    BY <1>1, <1>2, <1>3 DEF Consumed
  <1>7. \A o \in Outputs : /\ nitems_written[o] \in Nat
                           /\ nitems_written'[o] =
                                 IF o = d_output_index THEN w + n ELSE nitems_written[o]
    BY <1>1, <1>4 DEF IInv, TypeOK
  \* The items after the call: the old ones and the copied ones.
  <1>8. \A o \in Outputs : out'[o] = IF o = d_output_index THEN out[o] \cup Copied(n) ELSE out[o]
    BY <1>1 DEF IInv, TypeOK
  <1>16. ASSUME NEW o \in Outputs, NEW a \in out'[o]
         PROVE  a \in out[o] \/ (o = d_output_index /\ a \in Copied(n))
    <2>1. out'[o] = IF o = d_output_index THEN out[o] \cup Copied(n) ELSE out[o]
      BY <1>8
    <2> QED BY <1>16, <2>1
  <1>9. ASSUME NEW o \in Outputs, NEW a \in out[o]
        PROVE  /\ a.offset \in Nat /\ a.item \in Nat /\ a.input \in Inputs /\ a.switches \in Nat
               /\ a.offset < nitems_written[o] /\ a.item < nitems_read[a.input]
               /\ a.switches <= switches
    BY <1>9 DEF IInv, TypeOK, BelowCounts, Items
  <1>10. ASSUME NEW a \in Copied(n)
         PROVE  /\ a.input = d_input_index /\ a.switches = switches
                /\ a.offset \in Nat /\ a.item \in Nat
                /\ w <= a.offset /\ a.offset < w + n
                /\ a.item - r = a.offset - w
                /\ r <= a.item /\ a.item < r + n
    <2>1. PICK k \in 0 .. n - 1 :
             /\ a.offset = w + k /\ a.input = d_input_index
             /\ a.item = r + k /\ a.switches = switches
      BY <1>3, <1>4, <1>10, CopiedItems DEF IInv
    <2> QED BY <2>1
  <1>11. BelowCounts'
    <2>1. ASSUME NEW o \in Outputs, NEW a \in out'[o]
          PROVE  /\ a.offset < nitems_written'[o]
                 /\ a.item < nitems_read'[a.input]
                 /\ a.switches <= switches
      <3>1. CASE a \in out[o]
        <4>1. a.offset < nitems_written[o] /\ nitems_written[o] <= nitems_written'[o]
              /\ nitems_written'[o] \in Nat
          BY <1>4, <1>7, <1>9, <3>1
        <4>2. a.item < nitems_read[a.input] /\ nitems_read[a.input] <= nitems_read'[a.input]
          BY <1>5, <1>9, <3>1
        <4> QED BY <1>5, <1>7, <1>9, <3>1, <4>1, <4>2
      <3>2. CASE o = d_output_index /\ a \in Copied(n)
        BY <1>2, <1>6, <1>7, <1>10, <3>2
      <3> QED BY <1>16, <2>1, <3>1, <3>2, Zenon
    <2> QED BY <2>1 DEF BelowCounts, ports, settings, Outputs
  <1>12. CurrentRun'
    <2>1. ASSUME NEW o \in Outputs, NEW a \in out'[o], a.switches = switches
          PROVE  /\ o = d_output_index /\ a.input = d_input_index
                 /\ nitems_written'[o] - a.offset = nitems_read'[a.input] - a.item
      <3>1. CASE a \in out[o]
        <4>1. /\ o = d_output_index /\ a.input = d_input_index
              /\ w - a.offset = r - a.item
          BY <1>3, <1>4, <2>1, <3>1 DEF IInv, CurrentRun
        <4> QED BY <1>6, <1>7, <1>9, <3>1, <4>1
      <3>2. CASE o = d_output_index /\ a \in Copied(n)
        BY <1>6, <1>7, <1>10, <3>2
      <3> QED BY <1>16, <2>1, <3>1, <3>2, Zenon
    <2> QED BY <2>1 DEF CurrentRun, ports, settings, Outputs
  <1>13. GapsOnlyAtSwitches'
    <2>1. ASSUME NEW o \in Outputs, NEW a \in out'[o], NEW b \in out'[o],
                 b.offset = a.offset + 1, b.switches = a.switches
          PROVE  b.input = a.input /\ b.item = a.item + 1
      <3>1. CASE a \in out[o] /\ b \in out[o]
        BY <2>1, <3>1 DEF IInv, GapsOnlyAtSwitches
      <3>2. CASE o = d_output_index /\ a \in out[o] /\ b \in Copied(n)
        <4>1. a.input = d_input_index /\ w - a.offset = r - a.item
          BY <1>3, <1>4, <1>10, <2>1, <3>2 DEF IInv, CurrentRun
        <4> QED BY <1>9, <1>10, <2>1, <3>2, <4>1
      <3>3. CASE o = d_output_index /\ a \in Copied(n) /\ b \in out[o]
        <4>1. b.offset < w
          BY <1>4, <1>9, <3>3
        <4> QED BY <1>9, <1>10, <2>1, <3>3, <4>1
      <3>4. CASE o = d_output_index /\ a \in Copied(n) /\ b \in Copied(n)
        BY <1>10, <2>1, <3>4
      <3> QED BY <1>16, <2>1, <3>1, <3>2, <3>3, <3>4, Zenon
    <2> QED BY <2>1 DEF GapsOnlyAtSwitches, ports, Outputs
  <1>14. AtMostOnce'
    <2>1. ASSUME NEW o \in Outputs, NEW p \in Outputs, NEW a \in out'[o], NEW b \in out'[p]
          PROVE  \/ o = p /\ a = b
                 \/ /\ o = p => a.offset # b.offset
                    /\ a.input = b.input => a.item # b.item
      <3>1. CASE a \in out[o] /\ b \in out[p]
        BY <3>1 DEF IInv, AtMostOnce
      <3>2. CASE a \in out[o] /\ p = d_output_index /\ b \in Copied(n)
        <4>1. o = p => a.offset < w
          BY <1>4, <1>9, <3>2
        <4>2. a.input = b.input => a.item < r
          BY <1>3, <1>9, <1>10, <3>2
        <4> QED BY <1>9, <1>10, <3>2, <4>1, <4>2
      <3>3. CASE o = d_output_index /\ a \in Copied(n) /\ b \in out[p]
        <4>1. o = p => b.offset < w
          BY <1>4, <1>9, <3>3
        <4>2. a.input = b.input => b.item < r
          BY <1>3, <1>9, <1>10, <3>3
        <4> QED BY <1>9, <1>10, <3>3, <4>1, <4>2
      <3>4. CASE o = d_output_index /\ p = d_output_index /\ a \in Copied(n) /\ b \in Copied(n)
        <4>1. a = b \/ (a.offset # b.offset /\ a.item # b.item)
          <5> DEFINE Item(k) == [offset |-> w + k, input |-> d_input_index,
                                 item |-> r + k, switches |-> switches]
          <5>1. PICK k \in 0 .. n - 1 : a = Item(k)
            BY <1>3, <1>4, <3>4 DEF Copied
          <5>2. PICK l \in 0 .. n - 1 : b = Item(l)
            BY <1>3, <1>4, <3>4 DEF Copied
          <5>3. k # l => a.offset # b.offset /\ a.item # b.item
            <6>1. k # l => w + k # w + l /\ r + k # r + l
              OBVIOUS
            <6> QED BY <5>1, <5>2, <6>1
          <5> HIDE DEF Item
          <5>4. k = l => a = b
            BY <5>1, <5>2
          <5> QED BY <5>3, <5>4
        <4> QED BY <3>4, <4>1
      <3>5. a \in out[o] \/ (o = d_output_index /\ a \in Copied(n))
        BY <1>16, <2>1
      <3>6. b \in out[p] \/ (p = d_output_index /\ b \in Copied(n))
        BY <1>16, <2>1
      <3> QED BY <3>1, <3>2, <3>3, <3>4, <3>5, <3>6
    <2> QED BY <2>1 DEF AtMostOnce, ports, Outputs
  <1>15. TagsFollowItems'
    <2> DEFINE AsTag(a) == [offset |-> a.offset, input |-> a.input, item |-> a.item]
    <2>1. \A o \in Outputs : tags[o] = {AsTag(a) : a \in out[o]}
      BY DEF IInv, TagsFollowItems
    <2>2. CopiedTags(n) = {AsTag(a) : a \in Copied(n)}
      BY CopiedTagsOfItems DEF IInv
    <2>3. \A o \in Outputs : tags'[o] = IF o = d_output_index THEN tags[o] \cup CopiedTags(n)
                                        ELSE tags[o]
      BY <1>1 DEF IInv, TypeOK
    <2>4. ASSUME NEW o \in Outputs
          PROVE  tags'[o] = {AsTag(a) : a \in out'[o]}
      <3>1. CASE o = d_output_index
        <4>1. tags'[o] = {AsTag(a) : a \in out[o]} \cup {AsTag(a) : a \in Copied(n)}
          BY <2>1, <2>2, <2>3, <3>1
        <4>2. out'[o] = out[o] \cup Copied(n)
          BY <1>8, <3>1
        <4> QED BY <4>1, <4>2
      <3>2. CASE o # d_output_index
        BY <1>8, <2>1, <2>3, <3>2
      <3> QED BY <3>1, <3>2
    <2> QED BY <2>4 DEF TagsFollowItems, ports, Outputs
  <1> QED BY <1>11, <1>12, <1>13, <1>14, <1>15

\* A call while the block is disabled: nothing comes out.
LEMMA DropInv ==
    ASSUME IInv, ~ d_enabled, UNCHANGED <<tags, out, nitems_written, ports, settings>>,
           nitems_read' = [i \in Inputs |-> nitems_read[i] + Consumed(i)]
    PROVE  (BelowCounts /\ CurrentRun /\ GapsOnlyAtSwitches /\ AtMostOnce /\ TagsFollowItems)'
  <1>1. \A i \in Inputs : /\ nitems_read[i] \in Nat /\ nitems_read'[i] \in Nat
                          /\ nitems_read[i] <= nitems_read'[i]
    <2>1. \A i \in Inputs : nitems_read[i] \in Nat /\ Consumed(i) \in Nat
      BY ConsumedFits DEF IInv, TypeOK
    <2> QED BY <2>1
  <1>2. BelowCounts'
    <2>1. ASSUME NEW o \in Outputs, NEW a \in out[o]
          PROVE  a.item < nitems_read'[a.input]
      <3>1. a.item \in Nat /\ a.input \in Inputs /\ a.item < nitems_read[a.input]
        BY DEF IInv, TypeOK, BelowCounts, Items
      <3> QED BY <1>1, <3>1
    <2> QED BY <2>1 DEF IInv, BelowCounts, ports, settings, Outputs
  <1>3. CurrentRun'
    BY DEF IInv, CurrentRun, ports, settings, Outputs
  <1>4. (GapsOnlyAtSwitches /\ AtMostOnce /\ TagsFollowItems)'
    BY DEF IInv, GapsOnlyAtSwitches, AtMostOnce, TagsFollowItems, ports, Outputs
  <1> QED BY <1>2, <1>3, <1>4

\* A call keeps the counts within what is there.
LEMMA WorkInv == IInv /\ general_work => IInv'
  <1> SUFFICES ASSUME IInv, general_work PROVE IInv'
    OBVIOUS
  <1>1. /\ nitems_read' = [i \in Inputs |-> nitems_read[i] + Consumed(i)]
        /\ call' = NoCall
        /\ UNCHANGED <<ports, settings, upstream, drained>>
    BY DEF general_work
  <1>2. d_output_index \in Outputs /\ d_input_index \in Inputs
    BY DEF IInv, TypeOK
  <1>3. \A i \in Inputs : /\ nitems_read[i] \in Nat /\ written[i] \in Nat
                          /\ Consumed(i) \in Nat /\ Consumed(i) <= Available(i)
    BY ConsumedFits DEF IInv, TypeOK
  <1>4. \A i \in Inputs : nitems_read'[i] \in Nat /\ written[i] - nitems_read'[i] >= 0
    <2>1. \A i \in Inputs : nitems_read'[i] = nitems_read[i] + Consumed(i)
      BY <1>1
    <2> QED BY <1>3, <2>1 DEF Available
  <1>5. nitems_read' \in [Inputs -> Nat]
    BY <1>1, <1>3
  <1>6. nitems_written' \in [Outputs -> Nat]
    BY <1>2, CopyFits DEF general_work, IInv, TypeOK
  <1>7. \A o \in Outputs : /\ OutCapacity - (nitems_written'[o] - drained[o]) \in Int
                           /\ OutCapacity - (nitems_written'[o] - drained[o]) >= 0
    <2>1. \A o \in Outputs : /\ nitems_written[o] \in Nat /\ drained[o] \in Nat
                             /\ OutCapacity - (nitems_written[o] - drained[o]) >= 0
      BY DEF IInv, TypeOK, Space
    <2>2. CASE d_enabled
      <3>1. PICK n \in Nat : /\ n = to_copy
                             /\ n <= OutCapacity - (nitems_written[d_output_index]
                                                    - drained[d_output_index])
        BY CopyFits DEF Space
      <3>2. \A o \in Outputs : nitems_written'[o] =
                IF o = d_output_index THEN nitems_written[o] + n ELSE nitems_written[o]
        BY <2>2, <3>1 DEF general_work, IInv, TypeOK
      <3> QED BY <2>1, <3>1, <3>2, SelectorAssumption
    <2>3. CASE ~ d_enabled
      BY <2>1, <2>3, SelectorAssumption DEF general_work
    <2> QED BY <2>2, <2>3
  <1>8. out' \in [Outputs -> SUBSET Items]
    <2>1. \A n \in Nat : Copied(n) \subseteq Items
      BY CopiedItems DEF IInv
    <2> QED BY <1>2, <2>1, CopyFits DEF general_work, IInv, TypeOK
  <1>9. tags' \in [Outputs -> SUBSET Tags]
    <2>1. ASSUME NEW n \in Nat
          PROVE  CopiedTags(n) \subseteq Tags
      <3>1. \A a \in Copied(n) : a \in Items
        BY CopiedItems DEF IInv
      <3>2. \A a \in Copied(n) : [offset |-> a.offset, input |-> a.input, item |-> a.item] \in Tags
        BY <3>1 DEF Items, Tags
      <3> QED BY <3>2, CopiedTagsOfItems DEF IInv
    <2> QED BY <1>2, <2>1, CopyFits DEF general_work, IInv, TypeOK
  <1>10. TypeOK'
    <2>1. call' \in [noutput_items : Nat, ninput_items : [Inputs -> Nat]]
      BY <1>1 DEF NoCall
    <2> QED BY <1>1, <1>4, <1>5, <1>6, <1>7, <1>8, <1>9, <2>1
            DEF IInv, TypeOK, ports, settings, upstream, Inputs, Outputs, Available, Space,
                Items, Tags
  <1>11. WithinCall'
    BY <1>1, <1>4, <1>7 DEF WithinCall, NoCall, ports, upstream, Inputs, Outputs, Available,
                            Space
  <1>12. (BelowCounts /\ CurrentRun /\ GapsOnlyAtSwitches /\ AtMostOnce /\ TagsFollowItems)'
    <2>1. CASE d_enabled
      BY <1>1, <2>1, CopyInv DEF general_work
    <2>2. CASE ~ d_enabled
      BY <1>1, <2>2, DropInv DEF general_work
    <2> QED BY <2>1, <2>2
  <1> QED BY <1>10, <1>11, <1>12 DEF IInv

------------------------------------------------------------------------------
\* The counts, the items and the tags agree in every reachable state.
THEOREM Invariance == Spec => []IInv
  <1>1. Init => IInv
    BY InitInv
  <1>2. IInv /\ [Next]_vars => IInv'
    <2> SUFFICES ASSUME IInv, [Next]_vars PROVE IInv'
      OBVIOUS
    <2>1. CASE UNCHANGED vars
      BY <2>1 DEF vars, ports, settings, streams, upstream, IInv, TypeOK, WithinCall,
                  BelowCounts, CurrentRun, GapsOnlyAtSwitches, AtMostOnce, TagsFollowItems,
                  Inputs, Outputs, Available, Space, Items, Tags
    <2>2. ASSUME NEW i \in Inputs, set_input_index(i)
          PROVE  IInv'
      BY <2>2, SwitchInv DEF set_input_index, IInv, TypeOK
    <2>3. ASSUME NEW o \in Outputs, set_output_index(o)
          PROVE  IInv'
      BY <2>3, SwitchInv DEF set_output_index, IInv, TypeOK
    <2>4. ASSUME NEW en \in BOOLEAN, handle_enable(en)
          PROVE  IInv'
      BY <2>4, SwitchInv DEF handle_enable, IInv, TypeOK
    <2>5. ASSUME NEW i \in Inputs, UpstreamSeparate(i)
          PROVE  IInv'
      BY <2>5, UpstreamInv DEF UpstreamSeparate, IInv, TypeOK
    <2>6. CASE UpstreamShared
      <3>1. feed \in Inputs
        BY <2>6 DEF UpstreamShared, IInv, TypeOK
      <3> QED BY <2>6, <3>1, UpstreamInv DEF UpstreamShared
    <2> QED BY <2>1, <2>2, <2>3, <2>4, <2>5, <2>6, ForecastInv, WorkInv, DownstreamInv
            DEF Next
  <1> QED BY <1>1, <1>2, PTL DEF Spec

\* Types, for any number of ports: no more is read than was written, and no output
\* gets more than it has room for.
THEOREM TypeCorrect == Spec => []TypeOK
  <1>1. IInv => TypeOK
    BY DEF IInv
  <1> QED BY <1>1, Invariance, PTL

\* Between two switches the items of an output follow each other as in the input.
THEOREM NoGaps == Spec => []GapsOnlyAtSwitches
  <1>1. IInv => GapsOnlyAtSwitches
    BY DEF IInv
  <1> QED BY <1>1, Invariance, PTL

\* No item comes out twice, and no two come out at the same place.
THEOREM NoItemTwice == Spec => []AtMostOnce
  <1>1. IInv => AtMostOnce
    BY DEF IInv
  <1> QED BY <1>1, Invariance, PTL

\* Each tag stays with its item.
THEOREM TagsCorrect == Spec => []TagsFollowItems
  <1>1. IInv => TagsFollowItems
    BY DEF IInv
  <1> QED BY <1>1, Invariance, PTL
==============================================================================

------------------------------- MODULE Selector -------------------------------
(***************************************************************************)
(* lib/selector_impl.cc: one of several inputs is copied to one of several  *)
(* outputs, and the other inputs are drained.                               *)
(*                                                                          *)
(* The scheduler takes the items that are there, asks forecast() whether    *)
(* they are enough, and calls general_work() with them.  d_mutex is not     *)
(* held in between: another thread may move the indices or disable the      *)
(* block, so that general_work() runs on a forecast made for another input. *)
(* The blocks around are here because forecast() is written for them: when  *)
(* one block feeds all the inputs, an input that is not drained stops them  *)
(* all.                                                                     *)
(*                                                                          *)
(* Item n of input i is [input |-> i, item |-> n], and it carries one tag,  *)
(* which says so too.                                                       *)
(***************************************************************************)
EXTENDS Integers

CONSTANTS
    Topologies,     \* pairs: the inputs and the outputs that may be connected
    InCapacity,     \* items in the buffer of an input
    OutCapacity,    \* items in the buffer of an output
    MaxItems,       \* bound: items written to each input
    MaxSwitches     \* bound: changes of the indices and of enabled

ASSUME SelectorAssumption == /\ Topologies \subseteq (Nat \ {0}) \X (Nat \ {0})
                             /\ OutCapacity \in Nat

VARIABLES
    d_num_inputs,   \* set by check_topology(), constant afterwards
    d_num_outputs,  \* the same
    d_input_index,
    d_output_index,
    d_enabled,
    feed,           \* the input the next item is for, if one block feeds them all
    written,        \* items written to each input
    nitems_read,    \* items consumed from each input
    nitems_written, \* items produced at each output
    drained,        \* items the block after each output has taken
    call,           \* the arguments of the call of general_work() to come
    out,            \* history: the items at each output
    tags,           \* the tags at each output
    switches        \* history: changes of the indices and of enabled

settings == <<d_input_index, d_output_index, d_enabled, switches>>
streams == <<nitems_read, nitems_written, out, tags>>
ports == <<d_num_inputs, d_num_outputs>>
upstream == <<written, feed>>
vars == <<ports, settings, streams, upstream, drained, call>>

Inputs == 0 .. d_num_inputs - 1
Outputs == 0 .. d_num_outputs - 1

\* Each input has a block of its own before it.
Separate == -1

NoCall == [noutput_items |-> 0, ninput_items |-> [i \in Inputs |-> 0]]

\* The constructor, and check_topology(): the indices are those of ports.
Init == /\ \E t \in Topologies : d_num_inputs = t[1] /\ d_num_outputs = t[2]
        /\ d_input_index \in Inputs
        /\ d_output_index \in Outputs
        /\ d_enabled = TRUE
        /\ feed \in Inputs \cup {Separate}
        /\ written = [i \in Inputs |-> 0]
        /\ nitems_read = [i \in Inputs |-> 0]
        /\ nitems_written = [o \in Outputs |-> 0]
        /\ drained = [o \in Outputs |-> 0]
        /\ call = NoCall
        /\ out = [o \in Outputs |-> {}]
        /\ tags = [o \in Outputs |-> {}]
        /\ switches = 0

------------------------------------------------------------------------------
Available(i) == written[i] - nitems_read[i]
HasRoom(i) == written[i] < MaxItems /\ Available(i) < InCapacity
Space(o) == OutCapacity - (nitems_written[o] - drained[o])

\* Two settings may never be the same: a call that changes nothing is no step.
Switch == /\ switches < MaxSwitches
          /\ switches' = switches + 1
          /\ UNCHANGED <<ports, streams, upstream, drained, call>>

\* Indices that are not those of a port are refused.
set_input_index(i) == /\ i # d_input_index
                      /\ d_input_index' = i
                      /\ UNCHANGED <<d_output_index, d_enabled>>
                      /\ Switch

set_output_index(o) == /\ o # d_output_index
                       /\ d_output_index' = o
                       /\ UNCHANGED <<d_input_index, d_enabled>>
                       /\ Switch

handle_enable(en) == /\ en # d_enabled
                     /\ d_enabled' = en
                     /\ UNCHANGED <<d_input_index, d_output_index>>
                     /\ Switch

------------------------------------------------------------------------------
\* A slip the properties must notice: the request is passed on as it is.
ForecastPlain(noutput_items) ==
    [i \in Inputs |-> IF i = d_input_index THEN noutput_items ELSE 0]

\* What must be there for noutput_items to be produced.
forecast(noutput_items) ==
    IF d_num_inputs = 1 \/ noutput_items > 1
    THEN [i \in Inputs |-> IF i = d_input_index THEN noutput_items ELSE 0]
    ELSE [i \in Inputs |->
             IF d_num_inputs = 2 /\ i = 1 - d_input_index THEN 1 ELSE 0]

\* The requests the scheduler makes: what fits all the outputs, half of it, ...
Halves(m) == {n \in 1 .. m : \E k \in 0 .. m : n = m \div (2 ^ k)}
Requests == {n \in 1 .. OutCapacity :
                \E o \in Outputs : /\ \A p \in Outputs : Space(o) <= Space(p)
                                  /\ n \in Halves(Space(o))}

\* The scheduler finds a request that can be met.  The index may change between two
\* requests as well, so each of those that can be met may be the one that is.
Forecast ==
    /\ call = NoCall
    /\ \E n \in Requests :
          /\ \A i \in Inputs : forecast(n)[i] <= Available(i)
          /\ call' = [noutput_items |-> n,
                      ninput_items  |-> [i \in Inputs |-> Available(i)]]
    /\ UNCHANGED <<ports, settings, streams, upstream, drained>>

Min2(a, b) == IF a <= b THEN a ELSE b

to_copy == Min2(call.ninput_items[d_input_index], call.noutput_items)

\* What goes to the output for the next n items of the active input.  An item is
\* recorded with the number of switches so far.
Copied(n) == {[offset |-> nitems_written[d_output_index] + k,
               input  |-> d_input_index,
               item   |-> nitems_read[d_input_index] + k,
               switches |-> switches] : k \in 0 .. n - 1}

\* A slip: the offset at the input is kept.
CopiedTagsUnshifted(n) ==
    {[offset |-> nitems_read[d_input_index] + k,
      input  |-> d_input_index,
      item   |-> nitems_read[d_input_index] + k] : k \in 0 .. n - 1}

\* The tags in the window, moved by nitems_read - nitems_written.
CopiedTags(n) ==
    LET shift == nitems_read[d_input_index] - nitems_written[d_output_index]
    IN  {[offset |-> t - shift, input |-> d_input_index, item |-> t] :
            t \in nitems_read[d_input_index] .. nitems_read[d_input_index] + n - 1}

\* Slips: all there is is consumed; the active input is left alone; the inactive
\* inputs are.
ConsumedAll(i) == call.ninput_items[i]

ConsumedFromInactive(i) == IF i = d_input_index THEN 0 ELSE call.ninput_items[i]

ConsumedFromActive(i) == IF i = d_input_index THEN to_copy ELSE 0

Consumed(i) == IF i = d_input_index THEN to_copy ELSE call.ninput_items[i]

general_work ==
    /\ call # NoCall
    /\ IF d_enabled
       THEN /\ tags' = [tags EXCEPT ![d_output_index] = @ \cup CopiedTags(to_copy)]
            /\ out' = [out EXCEPT ![d_output_index] = @ \cup Copied(to_copy)]
            /\ nitems_written' = [nitems_written EXCEPT ![d_output_index] = @ + to_copy]
       ELSE UNCHANGED <<tags, out, nitems_written>>
    /\ nitems_read' = [i \in Inputs |-> nitems_read[i] + Consumed(i)]
    /\ call' = NoCall
    /\ UNCHANGED <<ports, settings, upstream, drained>>

------------------------------------------------------------------------------
\* Before the inputs there is a block for each, or one that decides item by item which
\* input the next one is for, and waits until that input has room.
UpstreamSeparate(i) ==
    /\ feed = Separate
    /\ HasRoom(i)
    /\ written' = [written EXCEPT ![i] = @ + 1]
    /\ UNCHANGED <<ports, settings, streams, feed, drained, call>>

UpstreamShared ==
    /\ feed # Separate
    /\ HasRoom(feed)
    /\ written' = [written EXCEPT ![feed] = @ + 1]
    /\ feed' \in Inputs
    /\ written'[feed'] < MaxItems \/ \A i \in Inputs : written'[i] = MaxItems
    /\ UNCHANGED <<ports, settings, streams, drained, call>>

\* The block after output o takes an item.
Downstream(o) == /\ drained[o] < nitems_written[o]
                 /\ drained' = [drained EXCEPT ![o] = @ + 1]
                 /\ UNCHANGED <<ports, settings, streams, upstream, call>>

Next == \/ \E i \in Inputs : set_input_index(i)
        \/ \E o \in Outputs : set_output_index(o)
        \/ \E en \in BOOLEAN : handle_enable(en)
        \/ Forecast
        \/ general_work
        \/ \E i \in Inputs : UpstreamSeparate(i)
        \/ UpstreamShared
        \/ \E o \in Outputs : Downstream(o)

\* The ports of all the topologies.
AnyInput == UNION {0 .. t[1] - 1 : t \in Topologies}
AnyOutput == UNION {0 .. t[2] - 1 : t \in Topologies}

\* Each block has a thread of its own that the scheduler wakes when there is room or
\* there are items.  Nobody has to switch.
Fairness == /\ WF_vars(Forecast)
            /\ WF_vars(general_work)
            /\ \A i \in AnyInput : WF_vars(i \in Inputs /\ UpstreamSeparate(i))
            /\ WF_vars(UpstreamShared)
            /\ \A o \in AnyOutput : WF_vars(o \in Outputs /\ Downstream(o))

Spec == Init /\ [][Next]_vars

FairSpec == Spec /\ Fairness

------------------------------------------------------------------------------
Items == [offset : Nat, input : Inputs, item : Nat, switches : Nat]
Tags == [offset : Nat, input : Inputs, item : Nat]

\* The values of the variables; the block never reads what is not written, and never
\* writes where there is no room.
TypeOK == /\ <<d_num_inputs, d_num_outputs>> \in Topologies
          /\ d_input_index \in Inputs
          /\ d_output_index \in Outputs
          /\ d_enabled \in BOOLEAN
          /\ feed \in Inputs \cup {Separate}
          /\ written \in [Inputs -> Nat]
          /\ nitems_read \in [Inputs -> Nat]
          /\ nitems_written \in [Outputs -> Nat]
          /\ drained \in [Outputs -> Nat]
          /\ call \in [noutput_items : Nat, ninput_items : [Inputs -> Nat]]
          /\ out \in [Outputs -> SUBSET Items]
          /\ tags \in [Outputs -> SUBSET Tags]
          /\ switches \in Nat
          /\ \A i \in Inputs : Available(i) >= 0
          /\ \A o \in Outputs : Space(o) >= 0

\* The items of an output are those of the selected input one after the other, from
\* one switch to the next, although the call may come with a forecast made for
\* another input.
GapsOnlyAtSwitches ==
    \A o \in Outputs : \A a, b \in out[o] :
        (b.offset = a.offset + 1 /\ b.switches = a.switches)
            => b.input = a.input /\ b.item = a.item + 1

\* No item is produced twice, at the same or at another output, and no two items
\* have the same place.
AtMostOnce ==
    \A o, p \in Outputs : \A a \in out[o], b \in out[p] :
        \/ o = p /\ a = b
        \/ /\ o = p => a.offset # b.offset
           /\ a.input = b.input => a.item # b.item

\* The tags of an output are those of its items, each at its item.
TagsFollowItems ==
    \A o \in Outputs :
        tags[o] = {[offset |-> a.offset, input |-> a.input, item |-> a.item] : a \in out[o]}

\* What is written to an inactive input is consumed in the end, and so is what is
\* written to the active one, except that with two inputs fewer items than the
\* first request may be left.
DrainsEventually ==
    <>[](\A i \in Inputs :
            IF d_num_inputs = 2 /\ i = d_input_index THEN Available(i) < OutCapacity
            ELSE Available(i) = 0)

\* A block that feeds all the inputs is never stopped for good by one of them: items
\* for the active input come even if items for another one are in front of them.
NeverStopsUpstream == feed # Separate => <>(\A i \in Inputs : written[i] = MaxItems)
==============================================================================

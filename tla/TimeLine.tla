------------------------------- MODULE TimeLine -------------------------------
(***************************************************************************)
(* A time dependent delay followed by a Doppler correction, as in the       *)
(* simulation of a channel: the tags of the samples, those with the time    *)
(* among them, come to the second block where the first one has put them.   *)
(*                                                                          *)
(* The source of the samples attaches any tags.  Time, in samples, may be   *)
(* told by tags and by set_time(), and need not agree with what was told    *)
(* before.                                                                  *)
(***************************************************************************)
EXTENDS TimeFile, FiniteSets

CONSTANTS
    SubSamples, d_fir_delay, d_taps_per_filter, NumFilters,  \* see TimeDependentDelay
    DelayFiles,     \* records [times, values]
    DopplerFiles,   \* the same, and whether the file ends in a new line
    Times,          \* the times that are told
    MaxItems,       \* bound: samples
    MaxTags,        \* bound: tags
    MaxSets         \* bound: calls of set_time()

\* A file has a line at least, and its lines are in the order of time.  Neither block
\* checks the order.
IsFile(f) ==
    /\ f.times \in Seq(Int) /\ f.values \in Seq(Int)
    /\ f.times # <<>> /\ Len(f.values) = Len(f.times)
    /\ \A i, j \in DOMAIN f.times : i <= j => f.times[i] <= f.times[j]

ASSUME FilesAssumption ==
    /\ \A f \in DelayFiles \cup DopplerFiles : IsFile(f)
    /\ \A f \in DopplerFiles : f.newline \in BOOLEAN

\* A filter has a tap, and there are two filters to choose between.
ASSUME FiltersAssumption ==
    /\ SubSamples \in Nat \ {0}
    /\ d_fir_delay \in Nat
    /\ d_taps_per_filter \in Nat \ {0}
    /\ NumFilters \in Nat \ {0, 1}

ASSUME TimesAssumption == Times \subseteq Int

ASSUME BoundsAssumption == MaxItems \in Nat /\ MaxTags \in Nat /\ MaxSets \in Nat

VARIABLES
    d_file, delay_keeper, delay_written, delay_produced, d_future_tags, item_tags, delay_call,
    file, doppler_keeper, doppler_written, doppler_produced, seen, doppler_call,
    timesync_enabled,   \* constant
    tag_count,          \* tags attached so far
    jumped,             \* history: the delay was told a time that it did not have
    sets                \* history: calls of set_time()

Delay == INSTANCE TimeDependentDelay WITH
    keeper <- delay_keeper, nitems_written <- delay_written, produced <- delay_produced,
    call <- delay_call
Doppler == INSTANCE DopplerCorrection WITH
    keeper <- doppler_keeper, nitems_written <- doppler_written,
    produced <- doppler_produced, call <- doppler_call

delayVars == <<d_file, delay_keeper, delay_written, delay_produced, d_future_tags,
               item_tags, delay_call>>
dopplerVars == <<file, doppler_keeper, doppler_written, doppler_produced, seen,
                 doppler_call>>
source == <<tag_count, jumped>>
vars == <<delayVars, dopplerVars, timesync_enabled, source, sets>>

Init == /\ Delay!DelayInit(DelayFiles)
        /\ Doppler!DopplerInit(DopplerFiles)
        /\ timesync_enabled \in BOOLEAN
        /\ tag_count = 0
        /\ jumped = FALSE
        /\ sets = 0

------------------------------------------------------------------------------
Tag == [id : Nat, offset : Int, time : Int]

\* The tags that the source may attach to the items of a call: one on an item at most.
Windows(n) ==
    LET Marks(count) == {m \in [1 .. count -> [item : 0 .. n - 1, time : Times \cup {NoTime}]] :
                            \A i, j \in 1 .. count : i < j => m[i].item < m[j].item}
        Tags(m) == [i \in DOMAIN m |-> [id |-> tag_count + i,
                                       offset |-> delay_written + m[i].item,
                                       time |-> m[i].time]]
    IN  {Tags(m) : m \in UNION {Marks(count) : count \in 0 .. MaxTags - tag_count}}

\* The delay is told that an item has another time than it would give it.
Disagrees(time, item) ==
    time # compute_time(delay_keeper.d_t0, delay_keeper.d_sample_t0, item)

DelayWork(n) ==
    /\ delay_written + n <= MaxItems
    /\ \E tags \in Windows(n) :
          /\ Delay!work(n, tags)
          /\ tag_count' = tag_count + Len(tags)
          /\ jumped' = (jumped \/ \E i \in DOMAIN tags :
                                   /\ tags[i].time # NoTime
                                   /\ Disagrees(tags[i].time, tags[i].offset))
    /\ UNCHANGED <<dopplerVars, timesync_enabled, sets>>

\* The tags of the window of the second block: by offset, and as they were added.
Window(n) ==
    LET here == {i \in DOMAIN item_tags :
                    item_tags[i].offset \in doppler_written .. (doppler_written + n) - 1}
        Before(i, j) == \/ item_tags[i].offset < item_tags[j].offset
                        \/ item_tags[i].offset = item_tags[j].offset /\ i < j
        InOrder(order) == \A k, l \in DOMAIN order : k < l => Before(order[k], order[l])
    IN  {[k \in DOMAIN order |-> item_tags[order[k]]] :
            order \in {o \in [1 .. Cardinality(here) -> here] : InOrder(o)}}

DopplerWork(n) ==
    /\ doppler_written + n <= delay_written
    /\ \E now \in Times, tags \in Window(n) : Doppler!work(n, tags, now, timesync_enabled)
    /\ UNCHANGED <<delayVars, timesync_enabled, source, sets>>

DelaySetTime(t) ==
    /\ sets < MaxSets
    /\ Delay!set_time(t)
    /\ jumped' = (jumped \/ Disagrees(t, delay_written))
    /\ sets' = sets + 1
    /\ UNCHANGED <<dopplerVars, timesync_enabled, tag_count>>

DopplerSetTime(t) ==
    /\ sets < MaxSets
    /\ Doppler!set_time(t)
    /\ sets' = sets + 1
    /\ UNCHANGED <<delayVars, timesync_enabled, source>>

DelayCount ==
    Delay!Count /\ UNCHANGED <<dopplerVars, timesync_enabled, source, sets>>
DopplerCount ==
    Doppler!Count /\ UNCHANGED <<delayVars, timesync_enabled, source, sets>>

Next == \/ \E n \in 1 .. MaxItems : DelayWork(n) \/ DopplerWork(n)
        \/ \E t \in Times : DelaySetTime(t) \/ DopplerSetTime(t)
        \/ DelayCount
        \/ DopplerCount

Spec == Init /\ [][Next]_vars

------------------------------------------------------------------------------
\* The samples of a call from the last one on whose time was told get the value that
\* the file has for their time, as though the index were searched anew for each; also
\* after time was set back, ahead, or between work() and the scheduler's counting.
FollowsFile(call, f) ==
    \A j \in DOMAIN call.samples :
        call.first + j - 1 >= call.told =>
            call.samples[j].value = Interpolated(f.times, f.values, call.samples[j].time)

ValuesFollowFile == FollowsFile(delay_call, d_file) /\ FollowsFile(doppler_call, file)

\* If the longest delay is a whole number of samples above that of the filter, the
\* filters read no item before the history and none behind the last one given.
ReadsWithinHistory ==
    (Delay!max_delay - d_fir_delay) % SubSamples = 0 =>
        \A j \in DOMAIN delay_call.samples :
            LET delay == delay_call.samples[j].value
            IN  /\ Delay!sample_idx0(j - 1, delay) >= 0
                /\ Delay!sample_idx1(j - 1, delay) + d_taps_per_filter - 1
                      <= (j - 1) + Delay!history - 1

\* Each tag of the input is in the output or waits, once.
EveryTagOnce ==
    \A id \in 1 .. tag_count :
        Cardinality({i \in DOMAIN item_tags : item_tags[i].id = id})
        + Cardinality({i \in DOMAIN d_future_tags : d_future_tags[i].id = id}) = 1

\* The delay falls by one sample per sample at most.
FallsSlowly ==
    \A i \in 1 .. Len(d_file.times) - 1 :
        d_file.values[i] - d_file.values[i + 1]
            <= SubSamples * (d_file.times[i + 1] - d_file.times[i])

\* A tag must not be added before its item is produced, nor so late that the next block
\* has read the item: that block sees each tag, unless the delay shrinks so fast that
\* tags overtake each other.
TagsReachNextBlock ==
    ~ jumped /\ FallsSlowly =>
        \A tag \in Range(item_tags) \cup Range(d_future_tags) :
            tag.offset < doppler_written + doppler_produced => tag.id \in seen
==============================================================================

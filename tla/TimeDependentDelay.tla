-------------------------- MODULE TimeDependentDelay --------------------------
(***************************************************************************)
(* lib/time_dependent_delay_impl.{h,cc}: a delay that changes with time.    *)
(*                                                                          *)
(* work() and set_time() hold d_setlock, but the scheduler counts what      *)
(* work() has produced after it has returned: set_time() may come in        *)
(* between and then counts from the first of those items.                   *)
(*                                                                          *)
(* A tag is [id, offset, time]; delays are in units of 1/SubSamples sample. *)
(***************************************************************************)
EXTENDS TimeFile

CONSTANTS
    SubSamples,         \* units of delay in a sample
    d_fir_delay,        \* in units
    d_taps_per_filter,
    NumFilters

VARIABLES
    d_file,             \* d_times and d_delays_samples, constant
    keeper,             \* d_t0, d_sample_t0 and d_current_index
    nitems_written,     \* what the scheduler has counted
    produced,           \* items of the last call it has not counted yet
    d_future_tags,
    item_tags,          \* history: the tags added to the output, in the order they were
    call                \* history: the last call of work()

NoCall == [first |-> 0, told |-> 0, samples |-> <<>>]

\* The file was read: no delay is below that of the filter.
DelayInit(files) ==
    /\ d_file \in {f \in files : \A i \in DOMAIN f.values : f.values[i] >= d_fir_delay}
    /\ keeper = [d_t0 |-> 0, d_sample_t0 |-> 0, d_current_index |-> 1]
    /\ nitems_written = 0
    /\ produced = 0
    /\ d_future_tags = <<>>
    /\ item_tags = <<>>
    /\ call = NoCall

------------------------------------------------------------------------------
max_delay == Max({0} \cup Range(d_file.values))

\* A slip: the sample that is under way is not counted.
history_of_delay_only ==
    ((max_delay - d_fir_delay) \div SubSamples) + (d_taps_per_filter - 1)

\* Samples due to delays, and to the filter.
history == ((max_delay - d_fir_delay) \div SubSamples) + 1 + (d_taps_per_filter - 1)

\* The parts of the delay of a sample: whole samples, and what is then too much.
delay_int(delay) ==
    ((delay - d_fir_delay) \div SubSamples)
    + IF (delay - d_fir_delay) % SubSamples = 0 THEN 0 ELSE 1
advance_frac(delay) == delay_int(delay) * SubSamples - (delay - d_fir_delay)

\* Sample j of a call, counted from 0: where the input of both filters begins.
sample_idx0(j, delay) == j + history - 1 - delay_int(delay) - (d_taps_per_filter - 1)
sample_idx1(j, delay) ==
    IF (advance_frac(delay) * NumFilters) \div SubSamples + 1 = NumFilters
    THEN sample_idx0(j, delay) + 1
    ELSE sample_idx0(j, delay)

\* The delay of a tag: the index is searched both ways, and not kept.
compute_tag_delay(time, index) ==
    value_at(d_file.times, d_file.values,
             advanced_index(d_file.times,
                            adjust_current_index(d_file.times, index, time), time),
             time)

delay_rounded(delay) == (2 * delay + SubSamples) \div (2 * SubSamples)

\* The tags of the window, each at the offset it goes out with.
delayed_tags(tags, k) ==
    [i \in DOMAIN tags |->
        [tags[i] EXCEPT !.offset =
            @ + delay_rounded(compute_tag_delay(
                    compute_time(k.d_t0, k.d_sample_t0, @), k.d_current_index))]]

\* The first tag of the queue that is still in the future.
in_future(future, add_limit) ==
    SelectInSeq(future, LAMBDA tag : tag.offset >= add_limit)

\* A slip: what became due during the call waits for the next one.
tags_due_before(future, add_limit) ==
    LET first == in_future(future, nitems_written)
    IN  SubSeq(future, 1, IF first = 0 THEN Len(future) ELSE first - 1)

\* The tags up to that one go out.
tags_due(future, add_limit) ==
    LET first == in_future(future, add_limit)
    IN  SubSeq(future, 1, IF first = 0 THEN Len(future) ELSE first - 1)

\* A slip: what has gone out stays.
tags_kept_all(future, add_limit) == future
tags_kept(future, add_limit) == SubSeq(future, Len(tags_due(future, add_limit)) + 1, Len(future))

\* Where the tags of the window go, in order: out, or behind the queue.
placed(tags, add_limit) ==
    LET after[i \in 0 .. Len(tags)] ==
            CASE i = 0 -> [out |-> item_tags, future |-> d_future_tags]
              [] i > 0 /\ tags[i].offset < add_limit ->
                    [after[i - 1] EXCEPT !.out = Append(@, tags[i])]
              [] OTHER -> [after[i - 1] EXCEPT !.future = Append(@, tags[i])]
    IN  after

propagate(tags, add_limit) ==
    LET end == placed(tags, add_limit)[Len(tags)]
    IN  /\ item_tags' = end.out \o tags_due(end.future, add_limit)
        /\ d_future_tags' = tags_kept(end.future, add_limit)

\* A call for n items, with the tags of its window.
work(n, tags) ==
    LET k == update_time_from_tags(d_file.times, keeper, tags)
    IN  /\ produced = 0
        /\ keeper' = keeper_after(d_file.times, k, nitems_written, n)
        /\ call' = call_of(d_file.times, d_file.values, k, nitems_written, n)
        /\ propagate(delayed_tags(tags, keeper_after(d_file.times, k, nitems_written, n)),
                     nitems_written + n)
        /\ produced' = n
        /\ UNCHANGED <<d_file, nitems_written>>

\* The scheduler counts what was produced.
Count == /\ produced > 0
         /\ nitems_written' = nitems_written + produced
         /\ produced' = 0
         /\ UNCHANGED <<d_file, keeper, d_future_tags, item_tags, call>>

set_time(t) == /\ keeper' = time_set(d_file.times, keeper, t, nitems_written)
               /\ UNCHANGED <<d_file, nitems_written, produced, d_future_tags, item_tags, call>>
==============================================================================

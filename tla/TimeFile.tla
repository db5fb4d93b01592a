------------------------------- MODULE TimeFile -------------------------------
(***************************************************************************)
(* What doppler_correction and time_dependent_delay share: a file of values *)
(* over time, an index into it that moves with the time, and the time of a  *)
(* sample, counted from the last sample whose time was told.                *)
(*                                                                          *)
(* Times are whole and the sample rate is 1.  Indices start at 1, those of  *)
(* the code at 0.                                                           *)
(***************************************************************************)
EXTENDS Integers, Sequences, FiniteSetsExt, SequencesExt

\* A tag that tells no time.
NoTime == -1

compute_time(t0, sample_t0, sample) == t0 + (sample - sample_t0)

\* A slip: a time update to the past leaves the index where it is.
IndexKept(times, index, t0) == index

\* The index after the time was set: back as far as the new time is.
adjust_current_index(times, index, t0) ==
    Max({1} \cup {k \in 1 .. index : times[k] <= t0})

\* The index is moved on so that the next time is greater than the current one.
advanced_index(times, index, time) ==
    Min({Len(times)} \cup {k \in index .. Len(times) - 1 : times[k + 1] > time})

\* A constant before the beginning and past the end of the file, else interpolated.
value_at(times, values, index, time) ==
    IF time < times[index] \/ index = Len(times)
    THEN values[index]
    ELSE values[index] + ((values[index + 1] - values[index]) * (time - times[index]))
                         \div (times[index + 1] - times[index])

\* The state of the time keeping after a tag.
time_from_tag(times, keeper, tag) ==
    IF tag.time = NoTime
    THEN keeper
    ELSE [d_t0 |-> tag.time, d_sample_t0 |-> tag.offset,
          d_current_index |-> adjust_current_index(times, keeper.d_current_index, tag.time)]

\* The tags of a call, in order.  All are read before its first sample.
times_from_tags(times, keeper, tags) ==
    LET after[i \in 0 .. Len(tags)] ==
            IF i = 0 THEN keeper ELSE time_from_tag(times, after[i - 1], tags[i])
    IN  after

update_time_from_tags(times, keeper, tags) == times_from_tags(times, keeper, tags)[Len(tags)]

\* set_time(): the time of the next sample, as far as nitems_written() tells.
time_set(times, keeper, t, nitems_written) ==
    [d_t0 |-> t, d_sample_t0 |-> nitems_written,
     d_current_index |-> adjust_current_index(times, keeper.d_current_index, t)]

time_of(keeper, first, j) == compute_time(keeper.d_t0, keeper.d_sample_t0, (first + j) - 1)

\* The index after each sample of a call.
indices(times, keeper, first, n) ==
    LET index[j \in 0 .. n] == IF j = 0 THEN keeper.d_current_index
                               ELSE advanced_index(times, index[j - 1], time_of(keeper, first, j))
    IN  index

\* The samples of a call: the time of each, and the index that is used for it.
samples(times, keeper, first, n) ==
    LET index == indices(times, keeper, first, n)
    IN  [j \in 1 .. n |-> [time |-> time_of(keeper, first, j), index |-> index[j]]]

\* What a call did: its first sample, the last one whose time was told, the samples.
call_of(times, values, keeper, first, n) ==
    LET s == samples(times, keeper, first, n)
    IN  [first |-> first, told |-> keeper.d_sample_t0,
         samples |-> [j \in 1 .. n |->
             [time |-> s[j].time, value |-> value_at(times, values, s[j].index, s[j].time)]]]

\* What a call leaves.
keeper_after(times, keeper, first, n) ==
    [keeper EXCEPT !.d_current_index = indices(times, keeper, first, n)[n]]

------------------------------------------------------------------------------
\* What the value of a file at a time is, with no index to start from.
Interpolated(times, values, time) ==
    CASE time < times[1] -> values[1]
      [] time >= Last(times) -> Last(values)
      [] OTHER ->
            LET k == CHOOSE k \in 1 .. Len(times) - 1 :
                        times[k] <= time /\ time < times[k + 1]
            IN  values[k] + ((values[k + 1] - values[k]) * (time - times[k]))
                            \div (times[k + 1] - times[k])
==============================================================================

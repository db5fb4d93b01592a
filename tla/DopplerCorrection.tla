--------------------------- MODULE DopplerCorrection ---------------------------
(***************************************************************************)
(* lib/doppler_correction_impl.{h,cc}: a frequency that changes with time.  *)
(*                                                                          *)
(* The time keeping is that of TimeFile.  Besides tags with a time there is *)
(* the timesync tag, which stands for the time of the computer.  Tags go    *)
(* through as they are, by the scheduler's default policy.                  *)
(***************************************************************************)
EXTENDS TimeFile

VARIABLES
    file,               \* times and freqs_rad_per_sample, constant
    keeper,             \* d_t0, d_sample_t0 and d_current_index
    nitems_written,     \* what the scheduler has counted
    produced,           \* items of the last call it has not counted yet
    seen,               \* history: the tags of the windows so far, by id
    call                \* history: the last call of work()

NoCall == [first |-> 0, told |-> 0, samples |-> <<>>]

\* read_doppler_file(): eof() is only found out by the read that fails, so that a new
\* line at the end of the file enters its last line twice.
as_read(f) ==
    IF f.newline
    THEN [times |-> Append(f.times, Last(f.times)),
          values |-> Append(f.values, Last(f.values))]
    ELSE [times |-> f.times, values |-> f.values]

DopplerInit(files) ==
    /\ file \in {as_read(f) : f \in files}
    /\ keeper = [d_t0 |-> 0, d_sample_t0 |-> 0, d_current_index |-> 1]
    /\ nitems_written = 0
    /\ produced = 0
    /\ seen = {}
    /\ call = NoCall

\* The timesync tag tells the time of the computer, now.
timesync(tags, now, enabled) ==
    [i \in DOMAIN tags |->
        IF enabled /\ tags[i].time = NoTime THEN [tags[i] EXCEPT !.time = now]
        ELSE tags[i]]

work(n, tags, now, enabled) ==
    LET k == update_time_from_tags(file.times, keeper, timesync(tags, now, enabled))
    IN  /\ produced = 0
        /\ keeper' = keeper_after(file.times, k, nitems_written, n)
        /\ call' = call_of(file.times, file.values, k, nitems_written, n)
        /\ seen' = seen \cup {tags[i].id : i \in DOMAIN tags}
        /\ produced' = n
        /\ UNCHANGED <<file, nitems_written>>

\* The scheduler counts what was produced.
Count == /\ produced > 0
         /\ nitems_written' = nitems_written + produced
         /\ produced' = 0
         /\ UNCHANGED <<file, keeper, seen, call>>

set_time(t) == /\ keeper' = time_set(file.times, keeper, t, nitems_written)
               /\ UNCHANGED <<file, nitems_written, produced, seen, call>>
==============================================================================

---------------------------- MODULE TimeLineProofs ----------------------------
(***************************************************************************)
(* Every sample whose time is known has the value that the file has for     *)
(* it, the filters of the delay read no further than their history, no tag  *)
(* is lost or put twice, and the next block sees each where it was put: for *)
(* files of any length, calls of any length, any tags and any times told.   *)
(*                                                                          *)
(* The index into a file moves on from where it is, so that it must not be  *)
(* ahead of the time.  Reached says so, of the next sample and of the time  *)
(* that was told: it is the heart of the invariant.  A call sets the index  *)
(* sample by sample, and tag by tag, in recursive functions.  What these    *)
(* are is shown by StepByStep, which holds since the samples for which      *)
(* something fails would have a first one.                                  *)
(*                                                                          *)
(* That tags come in time follows from the file: where the delay falls by   *)
(* one sample per sample at most, the item that is due for a tag does not   *)
(* go back (DueInOrder), and so the queue of tags stays in order.           *)
(***************************************************************************)
EXTENDS TimeLine, FiniteSetTheorems, WellFoundedInduction, TLAPS

------------------------------------------------------------------------------
\* Numbers that are not below 0 have a least one.
LEMMA Least ==
    ASSUME NEW T \in SUBSET Nat, T # {}
    PROVE  \E m \in T : \A x \in T : m <= x
  <1>1. PICK m \in T : \A x \in T : ~ (<<x, m>> \in OpToRel(<, Nat))
    BY NatLessThanWellFounded, WFMin
  <1>2. ASSUME NEW x \in T PROVE m <= x
    <2>1. x \in Nat /\ m \in Nat
      OBVIOUS
    <2>2. ~ (x < m)
      BY <1>1, <2>1 DEF OpToRel
    <2> QED BY <2>1, <2>2
  <1> QED BY <1>2

\* Numbers of an interval have a greatest one.
LEMMA Greatest ==
    ASSUME NEW n \in Nat, NEW T \in SUBSET (0 .. n), T # {}
    PROVE  \E m \in T : \A x \in T : x <= m
  <1>1. PICK U : U = {k \in Nat : n - k \in T}
    OBVIOUS
  <1>2. PICK t : t \in T
    OBVIOUS
  <1>3. n - t \in Nat /\ n - (n - t) = t
    BY <1>2
  <1>4. U \in SUBSET Nat /\ U # {}
    BY <1>1, <1>2, <1>3
  <1>5. PICK u \in U : \A x \in U : u <= x
    BY <1>4, Least
  <1>6. n - u \in T /\ u \in Nat
    BY <1>1, <1>5
  <1>7. ASSUME NEW x \in T PROVE x <= n - u
    <2>1. x \in 0 .. n /\ n - x \in Nat /\ n - (n - x) = x
      OBVIOUS
    <2>2. u <= n - x
      BY <1>1, <1>5, <2>1
    <2> QED BY <1>6, <2>1, <2>2
  <1> QED BY <1>6, <1>7

\* What holds at 0, and at each step if it held before, holds from 0 to n.
LEMMA StepByStep ==
    ASSUME NEW n \in Nat, NEW S, 0 \in S, \A j \in 1 .. n : j - 1 \in S => j \in S
    PROVE  \A j \in 0 .. n : j \in S
  <1>1. PICK T : T = {j \in 0 .. n : j \notin S}
    OBVIOUS
  <1>2. T = {}
    <2> SUFFICES ASSUME T # {} PROVE FALSE
      OBVIOUS
    <2>1. T \in SUBSET Nat
      BY <1>1
    <2>2. PICK m \in T : \A x \in T : m <= x
      BY <2>1, Least
    <2>3. m \in 0 .. n /\ m \notin S
      BY <1>1
    <2>4. m \in 1 .. n /\ m - 1 \in 0 .. n
      BY <2>3
    <2>5. m - 1 \notin T
      BY <2>2, <2>4
    <2> QED BY <1>1, <2>3, <2>4, <2>5
  <1> QED BY <1>1, <1>2

\* What is repeated, and what is had after each time.
Step(F, D, n) == F \in [D \X (1 .. n) -> D]

Repeated(f, F, D, n, a) ==
    /\ f \in [0 .. n -> D]
    /\ f[0] = a
    /\ \A j \in 1 .. n : f[j] = F[<<f[j - 1], j>>]

\* A function that is defined by recursion from 0 to n exists.
LEMMA Recursion ==
    ASSUME NEW n \in Nat, NEW D, NEW a \in D, NEW F, Step(F, D, n)
    PROVE  \E f : Repeated(f, F, D, n, a)
  <1> DEFINE Exists(k) == \E f \in [0 .. k -> D] :
                            \A j \in 0 .. k : f[j] = IF j = 0 THEN a ELSE F[<<f[j - 1], j>>]
  <1>1. Exists(0)
    <2>1. [j \in 0 .. 0 |-> a] \in [0 .. 0 -> D]
      OBVIOUS
    <2>2. \A j \in 0 .. 0 : [i \in 0 .. 0 |-> a][j] = a /\ j = 0
      OBVIOUS
    <2> QED BY <2>1, <2>2
  <1>2. ASSUME NEW m \in 1 .. n, Exists(m - 1) PROVE Exists(m)
    <2>1. m \in 0 .. n
      OBVIOUS
    <2>2. m # 0 /\ m - 1 \in 0 .. n /\ m - 1 \in Nat /\ m \in Nat
      OBVIOUS
    <2>3. Exists(m - 1)
      BY <1>2
    <2>4. PICK f \in [0 .. m - 1 -> D] :
            \A j \in 0 .. m - 1 : f[j] = IF j = 0 THEN a ELSE F[<<f[j - 1], j>>]
      BY <2>3
    <2>5. PICK g : g = [j \in 0 .. m |-> IF j = m THEN F[<<f[m - 1], m>>] ELSE f[j]]
      OBVIOUS
    <2>6. f[m - 1] \in D
      BY <2>2, <2>4
    <2>7. F[<<f[m - 1], m>>] \in D
      BY <2>1, <2>2, <2>6 DEF Step
    <2>8. \A j \in 0 .. m : j = m \/ j \in 0 .. m - 1
      BY <2>2
    <2>9. g \in [0 .. m -> D]
      BY <2>4, <2>5, <2>7, <2>8
    <2>10. ASSUME NEW j \in 0 .. m PROVE g[j] = IF j = 0 THEN a ELSE F[<<g[j - 1], j>>]
      <3>1. CASE j = m
        <4>1. m - 1 \in 0 .. m /\ m - 1 # m
          BY <2>2
        <4>2. g[m - 1] = f[m - 1]
          BY <2>5, <4>1
        <4> QED BY <2>2, <2>5, <3>1, <4>2
      <3>2. CASE j # m
        <4>1. j \in 0 .. m - 1
          BY <2>8, <3>2
        <4>2. g[j] = f[j]
          BY <2>5, <3>2
        <4>3. j # 0 => j - 1 \in 0 .. m /\ j - 1 # m /\ j - 1 \in 0 .. m - 1
          BY <2>2, <4>1
        <4>4. j # 0 => g[j - 1] = f[j - 1]
          BY <2>5, <4>3
        <4> QED BY <2>4, <4>1, <4>2, <4>4
      <3> QED BY <3>1, <3>2
    <2> QED BY <2>9, <2>10
  <1>3. Exists(n)
    <2> HIDE DEF Exists
    <2>1. PICK S : S = {k \in 0 .. n : Exists(k)}
      OBVIOUS
    <2>2. 0 \in S
      BY <1>1, <2>1
    <2>3. \A m \in 1 .. n : m - 1 \in S => m \in S
      BY <1>2, <2>1
    <2>4. \A k \in 0 .. n : k \in S
      BY <2>2, <2>3, StepByStep
    <2> QED BY <2>1, <2>4
  <1>4. PICK f \in [0 .. n -> D] :
          \A j \in 0 .. n : f[j] = IF j = 0 THEN a ELSE F[<<f[j - 1], j>>]
    BY <1>3
  <1>5. 0 \in 0 .. n /\ \A j \in 1 .. n : j \in 0 .. n /\ j # 0
    OBVIOUS
  <1> QED BY <1>4, <1>5 DEF Repeated

\* That one is what Max chooses.
LEMMA GreatestIsMax ==
    ASSUME NEW n \in Nat, NEW T \in SUBSET (0 .. n), T # {}
    PROVE  Max(T) \in T /\ \A x \in T : x <= Max(T)
  <1>1. \E m \in T : \A x \in T : m >= x
    <2>1. PICK m \in T : \A x \in T : x <= m
      BY Greatest
    <2>2. \A x \in T : x \in Int
      OBVIOUS
    <2>3. \A x \in T : m >= x
      BY <2>1, <2>2
    <2> QED BY <2>3
  <1>2. Max(T) \in T /\ \A x \in T : Max(T) >= x
    BY <1>1 DEF Max
  <1> QED BY <1>2

\* And the least one is what Min chooses.
LEMMA LeastIsMin ==
    ASSUME NEW T \in SUBSET Nat, T # {}
    PROVE  Min(T) \in T /\ \A x \in T : Min(T) <= x
  <1>1. \E m \in T : \A x \in T : m =< x
    BY Least
  <1> QED BY <1>1 DEF Min

\* A quotient is rounded down.
LEMMA Quotient ==
    ASSUME NEW x \in Int, NEW w \in Nat \ {0}
    PROVE  /\ x \div w \in Int
           /\ (x \div w) * w <= x
           /\ x < (x \div w) * w + w
  OBVIOUS

\* A part of a difference lies between 0 and the difference, rounded down too.
LEMMA Part ==
    ASSUME NEW d \in Int, NEW u \in Nat, NEW w \in Nat \ {0}, u <= w
    PROVE  /\ (d * u) \div w \in Int
           /\ d >= 0 => (d * u) \div w \in 0 .. d
           /\ d <= 0 => (d * u) \div w \in d .. 0
  <1>1. PICK x \in Int : x = d * u
    OBVIOUS
  <1>2. PICK q \in Int : q = x \div w
    BY Quotient
  <1>3. q * w <= x /\ x < q * w + w
    BY <1>2, Quotient
  <1>4. d >= 0 => 0 <= x /\ x <= d * w
    BY <1>1
  <1>5. d <= 0 => x <= 0 /\ d * w <= x
    BY <1>1
  <1>6. q >= 1 => q * w >= w
    OBVIOUS
  <1>7. q <= -1 => q * w + w <= 0
    OBVIOUS
  <1>8. q >= d + 1 => q * w >= d * w + w
    OBVIOUS
  <1>9. q <= d - 1 => q * w + w <= d * w
    OBVIOUS
  <1> QED BY <1>1, <1>2, <1>3, <1>4, <1>5, <1>6, <1>7, <1>8, <1>9

------------------------------------------------------------------------------
\* The lines of a file: how many there are, and that they are in the order of time.
Lines(times, n) ==
    /\ n \in Nat /\ n >= 1 /\ Len(times) = n
    /\ times \in [1 .. n -> Int]
    /\ \A i, j \in 1 .. n : i <= j => times[i] <= times[j]

\* The index does not stand for a time later than the one given.
NotAhead(times, index, time) == index = 1 \/ times[index] <= time

\* The index goes back as far as the time that was told.
LEMMA AdjustedIndex ==
    ASSUME NEW times, NEW n, Lines(times, n), NEW index \in 1 .. n, NEW t0 \in Int
    PROVE  /\ adjust_current_index(times, index, t0) \in 1 .. n
           /\ NotAhead(times, adjust_current_index(times, index, t0), t0)
  <1>1. PICK T : T = {1} \cup {k \in 1 .. index : times[k] <= t0}
    OBVIOUS
  <1>2. T \in SUBSET (0 .. n) /\ T # {} /\ \A k \in T : k \in 1 .. n
    BY <1>1 DEF Lines
  <1>3. Max(T) \in T
    BY <1>2, GreatestIsMax DEF Lines
  <1>4. adjust_current_index(times, index, t0) = Max(T)
    BY <1>1 DEF adjust_current_index
  <1> QED BY <1>1, <1>2, <1>3, <1>4 DEF NotAhead

\* The index goes on to the last line that is not later than the time.
LEMMA AdvancedIndex ==
    ASSUME NEW times, NEW n, Lines(times, n), NEW index \in 1 .. n, NEW time \in Int
    PROVE  LET next == advanced_index(times, index, time)
           IN  /\ next \in index .. n
               /\ next < n => time < times[next + 1]
               /\ next # index => times[next] <= time
  <1>1. PICK T : T = {n} \cup {k \in index .. n - 1 : times[k + 1] > time}
    OBVIOUS
  <1>2. T \in SUBSET Nat /\ T # {} /\ n \in Nat
    BY <1>1 DEF Lines
  <1>3. PICK next : next = Min(T)
    OBVIOUS
  <1>4. next \in T /\ \A x \in T : next <= x
    BY <1>2, <1>3, LeastIsMin
  <1>5. advanced_index(times, index, time) = next
    BY <1>1, <1>3 DEF advanced_index, Lines
  <1>6. next \in index .. n
    BY <1>1, <1>2, <1>4
  <1>7. next < n => time < times[next + 1]
    <2> SUFFICES ASSUME next < n PROVE time < times[next + 1]
      OBVIOUS
    <2>1. next + 1 \in 1 .. n /\ next # n
      BY <1>2, <1>6
    <2>2. times[next + 1] > time
      BY <1>1, <1>4, <2>1
    <2>3. times[next + 1] \in Int
      BY <2>1 DEF Lines
    <2> QED BY <2>2, <2>3
  <1>8. next # index => times[next] <= time
    <2> SUFFICES ASSUME next # index, ~ (times[next] <= time) PROVE FALSE
      OBVIOUS
    <2>1. next - 1 \in index .. n - 1 /\ (next - 1) + 1 = next /\ next \in 1 .. n
      BY <1>2, <1>6
    <2>2. times[next] \in Int
      BY <2>1 DEF Lines
    <2>3. times[(next - 1) + 1] > time
      BY <2>1, <2>2
    <2>4. next - 1 \in T
      BY <1>1, <2>1, <2>3
    <2> QED BY <1>4, <1>6, <2>1, <2>4
  <1> QED BY <1>5, <1>6, <1>7, <1>8

\* From an index that is not ahead, the value is the one the file has for the time.
LEMMA ValueOfFile ==
    ASSUME NEW times, NEW values, NEW n, Lines(times, n), Len(values) = n,
           NEW index \in 1 .. n, NEW time \in Int, NotAhead(times, index, time)
    PROVE  LET next == advanced_index(times, index, time)
           IN  /\ NotAhead(times, next, time)
               /\ value_at(times, values, next, time) = Interpolated(times, values, time)
  <1>1. PICK next : next = advanced_index(times, index, time)
    OBVIOUS
  <1>2. /\ next \in index .. n
        /\ next < n => time < times[next + 1]
        /\ next # index => times[next] <= time
    BY <1>1, AdvancedIndex
  <1>3. NotAhead(times, next, time)
    BY <1>2 DEF NotAhead
  <1>4. /\ n \in Nat /\ n >= 1 /\ next \in 1 .. n /\ 1 \in 1 .. n /\ n \in 1 .. n
        /\ times[1] \in Int /\ times[n] \in Int /\ times[next] \in Int
        /\ times[1] <= times[next]
    BY <1>2 DEF Lines
  <1>5. Last(times) = times[n] /\ Last(values) = values[n]
    BY DEF Last, Lines
  <1>6. CASE time < times[1]
    <2>1. next = 1
      BY <1>3, <1>4, <1>6 DEF NotAhead
    <2>2. value_at(times, values, next, time) = values[1]
      BY <1>6, <2>1 DEF value_at
    <2>3. times[1] <= times[n] /\ ~ (time >= Last(times))
      BY <1>4, <1>5, <1>6 DEF Lines
    <2>4. Interpolated(times, values, time) = values[1]
      BY <1>6, <2>3 DEF Interpolated
    <2> QED BY <1>1, <1>3, <2>2, <2>4
  <1>7. CASE time >= times[1] /\ time >= times[n]
    <2>1. next = n
      <3> SUFFICES ASSUME next # n PROVE FALSE
        OBVIOUS
      <3>1. next + 1 \in 1 .. n /\ next < n
        BY <1>4
      <3>2. times[next + 1] <= times[n] /\ times[next + 1] \in Int
        BY <1>4, <3>1 DEF Lines
      <3> QED BY <1>2, <1>4, <1>7, <3>1, <3>2
    <2>2. value_at(times, values, next, time) = values[n]
      BY <2>1, <1>5 DEF value_at, Lines
    <2>3. Interpolated(times, values, time) = values[n]
      BY <1>4, <1>5, <1>7 DEF Interpolated
    <2> QED BY <1>1, <1>3, <2>2, <2>3
  <1>8. CASE time >= times[1] /\ time < times[n]
    <2>1. next # n /\ times[next] <= time
      BY <1>3, <1>4, <1>8 DEF NotAhead
    <2>2. next \in 1 .. n - 1 /\ next < n /\ time < times[next + 1]
      BY <1>2, <1>4, <2>1
    <2>3. ASSUME NEW k \in 1 .. n - 1, times[k] <= time, time < times[k + 1]
          PROVE  k = next
      <3>1. k \in 1 .. n /\ k + 1 \in 1 .. n /\ next + 1 \in 1 .. n
        BY <1>4, <2>2
      <3>2. /\ times[k] \in Int /\ times[k + 1] \in Int /\ times[next + 1] \in Int
            /\ k + 1 <= next => times[k + 1] <= times[next]
            /\ next + 1 <= k => times[next + 1] <= times[k]
        BY <1>4, <3>1 DEF Lines
      <3> QED BY <1>4, <2>1, <2>2, <2>3, <3>1, <3>2
    <2>4. PICK c : c = CHOOSE k \in 1 .. n - 1 : times[k] <= time /\ time < times[k + 1]
      OBVIOUS
    <2>5. c = next
      BY <2>1, <2>2, <2>3, <2>4
    <2>6. value_at(times, values, next, time) =
             values[next] + ((values[next + 1] - values[next]) * (time - times[next]))
                                \div (times[next + 1] - times[next])
      <3>1. ~ (time < times[next] \/ next = Len(times))
        BY <1>4, <2>1 DEF Lines
      <3> QED BY <3>1 DEF value_at
    <2>7. Interpolated(times, values, time) =
             values[c] + ((values[c + 1] - values[c]) * (time - times[c]))
                                \div (times[c + 1] - times[c])
      <3>1. ~ (time < times[1]) /\ ~ (time >= Last(times)) /\ Len(times) = n
        BY <1>4, <1>5, <1>8 DEF Lines
      <3> QED BY <2>4, <3>1 DEF Interpolated
    <2> QED BY <1>1, <1>3, <2>5, <2>6, <2>7
  <1> QED BY <1>4, <1>6, <1>7, <1>8


\* A value lies between the least and the greatest of the file, interpolated or not.
LEMMA ValueWithin ==
    ASSUME NEW times, NEW values, NEW n, Lines(times, n), values \in [1 .. n -> Int],
           NEW lo \in Int, NEW hi \in Int, \A i \in 1 .. n : values[i] \in lo .. hi,
           NEW index \in 1 .. n, NEW time \in Int, index < n => time < times[index + 1]
    PROVE  value_at(times, values, index, time) \in lo .. hi
  <1>1. CASE time < times[index] \/ index = Len(times)
    BY <1>1 DEF value_at
  <1>2. CASE ~ (time < times[index] \/ index = Len(times))
    <2>1. index + 1 \in 1 .. n /\ index < n
      BY <1>2 DEF Lines
    <2>2. PICK a, b, t, p \in Int : /\ a = values[index] /\ b = values[index + 1]
                                    /\ t = times[index] /\ p = times[index + 1]
      BY <2>1 DEF Lines
    <2>3. t <= time /\ time < p
      BY <1>2, <2>1, <2>2
    <2>4. PICK d \in Int : d = b - a
      OBVIOUS
    <2>5. PICK u \in Nat : u = time - t
      BY <2>3
    <2>6. PICK w \in Nat \ {0} : w = p - t
      BY <2>3
    <2>7. u <= w
      BY <2>3, <2>5, <2>6
    <2>8. PICK q \in Int : q = (d * u) \div w
      BY <2>7, Part
    <2>9. (d >= 0 => q \in 0 .. d) /\ (d <= 0 => q \in d .. 0)
      BY <2>7, <2>8, Part
    <2>10. value_at(times, values, index, time) = a + q
      BY <1>2, <2>2, <2>4, <2>5, <2>6, <2>8 DEF value_at
    <2>11. a \in lo .. hi /\ b \in lo .. hi
      BY <2>1, <2>2
    <2>12. a + q \in lo .. hi
      BY <2>4, <2>9, <2>11
    <2> QED BY <2>10, <2>12
  <1> QED BY <1>1, <1>2

------------------------------------------------------------------------------
\* What a block keeps for a file with n lines.
Keeper(n) == [d_t0 : Int, d_sample_t0 : Int, d_current_index : 1 .. n]

\* After sample j of a call the index stands for no time later than the last one told
\* and the time of the sample.
Reached(times, index, keeper, first, j) ==
    \A time \in Int : time >= keeper.d_t0 /\ time >= time_of(keeper, first, j)
                        => NotAhead(times, index, time)

\* The state after each tag exists.
LEMMA TimesFromTags ==
    ASSUME NEW times, NEW n, Lines(times, n), NEW keeper \in Keeper(n),
           NEW tags, NEW l \in Nat, Len(tags) = l,
           \A i \in 1 .. l : tags[i].time \in Int /\ tags[i].offset \in Int
    PROVE  LET after == times_from_tags(times, keeper, tags)
           IN  /\ after \in [0 .. l -> Keeper(n)]
               /\ after[0] = keeper
               /\ \A i \in 1 .. l : after[i] = time_from_tag(times, after[i - 1], tags[i])
  <1> DEFINE F == [x \in Keeper(n) \X (1 .. l) |-> time_from_tag(times, x[1], tags[x[2]])]
             Is(f) == f = [i \in 0 .. l |-> IF i = 0 THEN keeper
                                           ELSE time_from_tag(times, f[i - 1], tags[i])]
  <1>1. ASSUME NEW k \in Keeper(n), NEW i \in 1 .. l
        PROVE  time_from_tag(times, k, tags[i]) \in Keeper(n)
    <2>1. adjust_current_index(times, k.d_current_index, tags[i].time) \in 1 .. n
      BY AdjustedIndex DEF Keeper
    <2> QED BY <2>1 DEF time_from_tag, Keeper
  <1>2. Step(F, Keeper(n), l)
    BY <1>1 DEF Step
  <1>3. PICK f \in [0 .. l -> Keeper(n)] :
          f[0] = keeper /\ \A i \in 1 .. l : f[i] = F[<<f[i - 1], i>>]
    <2> HIDE DEF F
    <2>1. \E f : Repeated(f, F, Keeper(n), l, keeper)
      BY <1>2, Recursion, Zenon
    <2> QED BY <2>1 DEF Repeated
  <1>4. ASSUME NEW i \in 1 .. l PROVE f[i] = time_from_tag(times, f[i - 1], tags[i])
    <2>1. i - 1 \in 0 .. l
      OBVIOUS
    <2>2. f[i - 1] \in Keeper(n)
      BY <2>1
    <2>3. F[<<f[i - 1], i>>] = time_from_tag(times, f[i - 1], tags[i])
      BY <2>2
    <2> HIDE DEF F
    <2> QED BY <1>3, <2>3
  <1>5. Is(f)
    <2>1. \A i \in 0 .. l : i # 0 => i \in 1 .. l
      OBVIOUS
    <2>2. \A i \in 0 .. l : f[i] = IF i = 0 THEN keeper ELSE time_from_tag(times, f[i - 1], tags[i])
      BY <1>3, <1>4, <2>1
    <2> HIDE DEF F
    <2> QED BY <2>2
  <1>6. PICK after : after = times_from_tags(times, keeper, tags)
    OBVIOUS
  <1>7. after = CHOOSE g : Is(g)
    BY <1>6 DEF times_from_tags
  <1>8. Is(after)
    <2> HIDE DEF Is
    <2> QED BY <1>5, <1>7
  <1>9. \A i \in 0 .. l : after[i] = IF i = 0 THEN keeper
                                     ELSE time_from_tag(times, after[i - 1], tags[i])
    BY <1>8
  <1>10. after[0] = keeper /\ \A i \in 1 .. l : after[i] = time_from_tag(times, after[i - 1], tags[i])
    BY <1>9
  <1>11. \A i \in 0 .. l : after[i] \in Keeper(n)
    <2>1. PICK S : S = {i \in 0 .. l : after[i] \in Keeper(n)}
      OBVIOUS
    <2>2. 0 \in S
      BY <1>10, <2>1
    <2>3. \A i \in 1 .. l : i - 1 \in S => i \in S
      BY <1>1, <1>10, <2>1
    <2>4. \A i \in 0 .. l : i \in S
      BY <2>2, <2>3, StepByStep
    <2> QED BY <2>1, <2>4
  <1>12. after \in [0 .. l -> Keeper(n)]
    BY <1>8, <1>11
  <1> QED BY <1>6, <1>10, <1>12

\* Tags that tell a time leave an index that is not ahead of it, others leave all as it was.
LEMMA UpdatedTimes ==
    ASSUME NEW times, NEW n, Lines(times, n), NEW keeper \in Keeper(n),
           NEW tags, NEW l \in Nat, Len(tags) = l,
           \A i \in 1 .. l : tags[i].time \in Int /\ tags[i].offset \in Int
    PROVE  LET k == update_time_from_tags(times, keeper, tags)
           IN  /\ k \in Keeper(n)
               /\ k = keeper \/ NotAhead(times, k.d_current_index, k.d_t0)
  <1>1. PICK after : after = times_from_tags(times, keeper, tags)
    OBVIOUS
  <1>2. /\ after \in [0 .. l -> Keeper(n)]
        /\ after[0] = keeper
        /\ \A i \in 1 .. l : after[i] = time_from_tag(times, after[i - 1], tags[i])
    BY <1>1, TimesFromTags
  <1>3. PICK S : S = {i \in 0 .. l : \/ after[i] = keeper
                                    \/ NotAhead(times, after[i].d_current_index, after[i].d_t0)}
    OBVIOUS
  <1>4. 0 \in S
    BY <1>2, <1>3
  <1>5. ASSUME NEW i \in 1 .. l, i - 1 \in S PROVE i \in S
    <2>1. PICK before, tag : before = after[i - 1] /\ tag = tags[i]
      OBVIOUS
    <2>2. before \in Keeper(n) /\ after[i] = time_from_tag(times, before, tag) /\ tag.time \in Int
      BY <1>2, <2>1
    <2>3. CASE tag.time = NoTime
      BY <1>3, <1>5, <2>1, <2>2, <2>3 DEF time_from_tag
    <2>4. CASE tag.time # NoTime
      <3>1. after[i] = [d_t0 |-> tag.time, d_sample_t0 |-> tag.offset, d_current_index |->
                            adjust_current_index(times, before.d_current_index, tag.time)]
        BY <2>2, <2>4 DEF time_from_tag
      <3>2. NotAhead(times, adjust_current_index(times, before.d_current_index, tag.time), tag.time)
        BY <2>2, AdjustedIndex DEF Keeper
      <3> QED BY <1>3, <3>1, <3>2
    <2> QED BY <2>3, <2>4
  <1>6. \A i \in 0 .. l : i \in S
    BY <1>4, <1>5, StepByStep
  <1>7. l \in 0 .. l /\ update_time_from_tags(times, keeper, tags) = after[l]
    BY <1>1 DEF update_time_from_tags
  <1> QED BY <1>2, <1>3, <1>6, <1>7

\* The index after each sample exists.
LEMMA IndicesOfCall ==
    ASSUME NEW times, NEW n, Lines(times, n), NEW keeper \in Keeper(n), NEW first \in Int,
           NEW l \in Nat
    PROVE  LET index == indices(times, keeper, first, l)
           IN  /\ index \in [0 .. l -> 1 .. n]
               /\ index[0] = keeper.d_current_index
               /\ \A j \in 1 .. l :
                     index[j] = advanced_index(times, index[j - 1], time_of(keeper, first, j))
  <1> DEFINE F == [x \in (1 .. n) \X (1 .. l) |->
                      advanced_index(times, x[1], time_of(keeper, first, x[2]))]
             Is(f) == f = [j \in 0 .. l |->
                              IF j = 0 THEN keeper.d_current_index
                              ELSE advanced_index(times, f[j - 1], time_of(keeper, first, j))]
  <1>1. ASSUME NEW k \in 1 .. n, NEW j \in 1 .. l
        PROVE  advanced_index(times, k, time_of(keeper, first, j)) \in 1 .. n
    <2>1. time_of(keeper, first, j) \in Int
      BY DEF time_of, compute_time, Keeper
    <2>2. advanced_index(times, k, time_of(keeper, first, j)) \in k .. n
      BY <2>1, AdvancedIndex
    <2> QED BY <2>2
  <1>2. Step(F, 1 .. n, l)
    BY <1>1 DEF Step
  <1>3. keeper.d_current_index \in 1 .. n
    BY DEF Keeper
  <1>4. PICK f \in [0 .. l -> 1 .. n] :
          f[0] = keeper.d_current_index /\ \A j \in 1 .. l : f[j] = F[<<f[j - 1], j>>]
    <2> HIDE DEF F
    <2>1. \E f : Repeated(f, F, 1 .. n, l, keeper.d_current_index)
      BY <1>2, <1>3, Recursion, Zenon
    <2> QED BY <2>1 DEF Repeated
  <1>5. ASSUME NEW j \in 1 .. l
        PROVE  f[j] = advanced_index(times, f[j - 1], time_of(keeper, first, j))
    <2>1. j - 1 \in 0 .. l
      OBVIOUS
    <2>2. f[j - 1] \in 1 .. n
      BY <2>1
    <2>3. F[<<f[j - 1], j>>] = advanced_index(times, f[j - 1], time_of(keeper, first, j))
      BY <2>2
    <2> HIDE DEF F
    <2> QED BY <1>4, <2>3
  <1>6. Is(f)
    <2>1. \A j \in 0 .. l : j # 0 => j \in 1 .. l
      OBVIOUS
    <2>2. \A j \in 0 .. l : f[j] = IF j = 0 THEN keeper.d_current_index
                                  ELSE advanced_index(times, f[j - 1], time_of(keeper, first, j))
      BY <1>4, <1>5, <2>1
    <2> HIDE DEF F
    <2> QED BY <2>2
  <1>7. PICK index : index = indices(times, keeper, first, l)
    OBVIOUS
  <1>8. index = CHOOSE g : Is(g)
    BY <1>7 DEF indices
  <1>9. Is(index)
    <2> HIDE DEF Is
    <2> QED BY <1>6, <1>8
  <1>10. \A j \in 0 .. l : index[j] = IF j = 0 THEN keeper.d_current_index
                                     ELSE advanced_index(times, index[j - 1], time_of(keeper, first, j))
    BY <1>9
  <1>11. /\ index[0] = keeper.d_current_index
         /\ \A j \in 1 .. l : index[j] = advanced_index(times, index[j - 1], time_of(keeper, first, j))
    BY <1>10
  <1>12. \A j \in 0 .. l : index[j] \in 1 .. n
    <2>1. PICK S : S = {j \in 0 .. l : index[j] \in 1 .. n}
      OBVIOUS
    <2>2. 0 \in S
      BY <1>3, <1>11, <2>1
    <2>3. \A j \in 1 .. l : j - 1 \in S => j \in S
      BY <1>1, <1>11, <2>1, SMTT(20)
    <2>4. \A j \in 0 .. l : j \in S
      BY <2>2, <2>3, StepByStep
    <2> QED BY <2>1, <2>4
  <1>13. index \in [0 .. l -> 1 .. n]
    BY <1>9, <1>12
  <1> QED BY <1>7, <1>11, <1>13

\* If the index is not ahead before a call, it is not ahead at any sample whose time is
\* not before the one that was told, and not at the end.
LEMMA IndexNotAhead ==
    ASSUME NEW times, NEW n, Lines(times, n), NEW keeper \in Keeper(n), NEW first \in Int,
           NEW l \in Nat, Reached(times, keeper.d_current_index, keeper, first, 0)
    PROVE  \A j \in 0 .. l :
              Reached(times, indices(times, keeper, first, l)[j], keeper, first, j)
  <1>1. PICK index : index = indices(times, keeper, first, l)
    OBVIOUS
  <1>2. /\ index \in [0 .. l -> 1 .. n]
        /\ index[0] = keeper.d_current_index
        /\ \A j \in 1 .. l :
              index[j] = advanced_index(times, index[j - 1], time_of(keeper, first, j))
    BY <1>1, IndicesOfCall
  <1>3. PICK S : S = {j \in 0 .. l : Reached(times, index[j], keeper, first, j)}
    OBVIOUS
  <1>4. 0 \in S
    BY <1>2, <1>3
  <1>5. ASSUME NEW j \in 1 .. l, j - 1 \in S PROVE j \in S
    <2>1. PICK before, now : before = index[j - 1] /\ now = time_of(keeper, first, j)
      OBVIOUS
    <2>2. before \in 1 .. n /\ now \in Int /\ index[j] = advanced_index(times, before, now)
      BY <1>2, <2>1 DEF time_of, compute_time, Keeper
    <2>3. time_of(keeper, first, j - 1) \in Int /\ time_of(keeper, first, j - 1) <= now
      <3>1. PICK t, s \in Int : t = keeper.d_t0 /\ s = keeper.d_sample_t0
        BY DEF Keeper
      <3>2. PICK i \in Int : i = j
        OBVIOUS
      <3>3. /\ time_of(keeper, first, j - 1) = t + (((first + (i - 1)) - 1) - s)
            /\ now = t + (((first + i) - 1) - s)
        BY <2>1, <3>1, <3>2 DEF time_of, compute_time
      <3>4. t + (((first + (i - 1)) - 1) - s) <= t + (((first + i) - 1) - s)
        OBVIOUS
      <3>5. t + (((first + (i - 1)) - 1) - s) \in Int
        OBVIOUS
      <3> QED BY <3>3, <3>4, <3>5
    <2>4. PICK after : after = index[j]
      OBVIOUS
    <2>5. after \in 1 .. n /\ (after # before => times[after] <= now)
      <3>1. j \in 0 .. l /\ after = advanced_index(times, before, now)
        BY <2>2, <2>4
      <3>2. after # before => times[after] <= now
        BY <2>2, <3>1, AdvancedIndex
      <3>3. after \in 1 .. n
        BY <1>2, <2>4, <3>1
      <3> QED BY <3>2, <3>3
    <2>6. ASSUME NEW time \in Int, time >= keeper.d_t0, time >= now
          PROVE  NotAhead(times, after, time)
      <3>1. CASE after = before
        <4>1. time >= time_of(keeper, first, j - 1)
          BY <2>2, <2>3, <2>6
        <4> QED BY <1>3, <1>5, <2>1, <2>6, <3>1, <4>1 DEF Reached
      <3>2. CASE after # before
        <4>1. times[after] \in Int
          BY <2>5 DEF Lines
        <4>2. times[after] <= time
          BY <2>2, <2>5, <2>6, <3>2, <4>1
        <4> QED BY <4>2 DEF NotAhead
      <3> QED BY <3>1, <3>2
    <2>7. Reached(times, index[j], keeper, first, j)
      BY <2>1, <2>4, <2>6 DEF Reached
    <2> QED BY <1>3, <2>7
  <1>6. \A j \in 0 .. l : j \in S
    BY <1>4, <1>5, StepByStep
  <1> QED BY <1>1, <1>3, <1>6

\* A call leaves an index that is not ahead, and its samples from the one on whose time
\* was told have the values of the file.
LEMMA CallFollowsFile ==
    ASSUME NEW f, NEW n, Lines(f.times, n), Len(f.values) = n, NEW keeper \in Keeper(n),
           NEW first \in Int, NEW l \in Nat \ {0},
           Reached(f.times, keeper.d_current_index, keeper, first, 0)
    PROVE  LET after == keeper_after(f.times, keeper, first, l)
           IN  /\ after \in Keeper(n)
               /\ Reached(f.times, after.d_current_index, after, first + l, 0)
               /\ FollowsFile(call_of(f.times, f.values, keeper, first, l), f)
  <1>1. PICK times, values : times = f.times /\ values = f.values
    OBVIOUS
  <1>2. PICK index : index = indices(times, keeper, first, l)
    OBVIOUS
  <1>3. /\ index \in [0 .. l -> 1 .. n]
        /\ \A j \in 1 .. l :
              index[j] = advanced_index(times, index[j - 1], time_of(keeper, first, j))
    BY <1>1, <1>2, IndicesOfCall
  <1>4. \A j \in 0 .. l : Reached(times, index[j], keeper, first, j)
    BY <1>1, <1>2, IndexNotAhead
  <1>5. PICK t, s \in Int : t = keeper.d_t0 /\ s = keeper.d_sample_t0
    BY DEF Keeper
  <1>6. PICK after : after = keeper_after(times, keeper, first, l)
    OBVIOUS
  <1>7. after = [d_t0 |-> t, d_sample_t0 |-> s, d_current_index |-> index[l]]
    BY <1>2, <1>5, <1>6 DEF keeper_after, Keeper
  <1>8. l \in 0 .. l /\ index[l] \in 1 .. n
    BY <1>3
  <1>9. after \in Keeper(n)
    BY <1>7, <1>8 DEF Keeper
  <1>10. Reached(times, after.d_current_index, after, first + l, 0)
    <2>1. time_of(after, first + l, 0) = time_of(keeper, first, l)
      <3>1. PICK m \in Int : m = l
        OBVIOUS
      <3>2. /\ time_of(after, first + l, 0) = t + ((((first + m) + 0) - 1) - s)
            /\ time_of(keeper, first, l) = t + (((first + m) - 1) - s)
        BY <1>5, <1>7, <3>1 DEF time_of, compute_time
      <3>3. t + ((((first + m) + 0) - 1) - s) = t + (((first + m) - 1) - s)
        OBVIOUS
      <3> QED BY <3>2, <3>3
    <2>2. Reached(times, index[l], keeper, first, l)
      BY <1>4, <1>8
    <2>3. after.d_t0 = keeper.d_t0 /\ after.d_current_index = index[l]
      BY <1>5, <1>7
    <2> QED BY <2>1, <2>2, <2>3 DEF Reached
  <1>11. PICK call : call = call_of(times, values, keeper, first, l)
    OBVIOUS
  <1>12. /\ call.first = first /\ call.told = s /\ DOMAIN call.samples = 1 .. l
         /\ \A j \in 1 .. l :
               call.samples[j] = [time |-> time_of(keeper, first, j),
                                  value |-> value_at(times, values, index[j], time_of(keeper, first, j))]
    BY <1>2, <1>5, <1>11 DEF call_of, samples
  <1>13. ASSUME NEW j \in 1 .. l, first + j - 1 >= s
         PROVE  call.samples[j].value = Interpolated(times, values, call.samples[j].time)
    <2>1. PICK now : now = time_of(keeper, first, j)
      OBVIOUS
    <2>2. PICK i \in Int : i = j
      OBVIOUS
    <2>3. now = t + (((first + i) - 1) - s)
      BY <1>5, <2>1, <2>2 DEF time_of, compute_time
    <2>4. now \in Int /\ now >= t
      <3>1. (first + i) - 1 >= s
        BY <1>13, <2>2
      <3>2. t + (((first + i) - 1) - s) >= t
        BY <3>1
      <3> QED BY <2>3, <3>2
    <2>5. PICK before : before = index[j - 1]
      OBVIOUS
    <2>6. j - 1 \in 0 .. l /\ before \in 1 .. n
      BY <1>3, <2>5
    <2>7. now >= time_of(keeper, first, j - 1)
      <3>1. time_of(keeper, first, j - 1) = t + (((first + (i - 1)) - 1) - s)
        BY <1>5, <2>2 DEF time_of, compute_time
      <3>2. t + (((first + i) - 1) - s) >= t + (((first + (i - 1)) - 1) - s)
        OBVIOUS
      <3> QED BY <2>3, <3>1, <3>2
    <2>8. NotAhead(times, before, now)
      <3>1. Reached(times, before, keeper, first, j - 1)
        BY <1>4, <2>5, <2>6
      <3> QED BY <1>5, <2>4, <2>7, <3>1 DEF Reached
    <2>9. value_at(times, values, advanced_index(times, before, now), now)
             = Interpolated(times, values, now)
      BY <1>1, <2>4, <2>6, <2>8, ValueOfFile
    <2>10. index[j] = advanced_index(times, before, now)
      BY <1>3, <2>1, <2>5
    <2>11. PICK sample : sample = call.samples[j]
      OBVIOUS
    <2>12. sample = [time |-> now, value |-> value_at(times, values, index[j], now)]
      BY <1>12, <2>1, <2>11
    <2>13. sample.time = now /\ sample.value = value_at(times, values, index[j], now)
      BY <2>12
    <2> QED BY <2>9, <2>10, <2>11, <2>13
  <1>14. FollowsFile(call, f)
    <2>1. ASSUME NEW j \in DOMAIN call.samples, call.first + j - 1 >= call.told
          PROVE  call.samples[j].value = Interpolated(f.times, f.values, call.samples[j].time)
      <3>1. j \in 1 .. l
        BY <1>12
      <3>2. first + j - 1 >= s
        BY <1>12, <2>1
      <3> QED BY <1>1, <1>13, <3>1, <3>2
    <2> QED BY <2>1 DEF FollowsFile
  <1> QED BY <1>1, <1>6, <1>9, <1>10, <1>11, <1>14

------------------------------------------------------------------------------
\* The time keeping of a block that has produced as many items.
Told(f, keeper, next) ==
    /\ Lines(f.times, Len(f.times))
    /\ Len(f.values) = Len(f.times) /\ f.values \in [1 .. Len(f.times) -> Int]
    /\ keeper \in Keeper(Len(f.times))
    /\ Reached(f.times, keeper.d_current_index, keeper, next, 0)

\* A block is told the time of its next sample.
LEMMA TimeIsSet ==
    ASSUME NEW f, NEW keeper, NEW next, Told(f, keeper, next),
           NEW t \in Int, NEW written \in Int, NEW later
    PROVE  Told(f, time_set(f.times, keeper, t, written), later)
  <1>1. PICK n : n = Len(f.times)
    OBVIOUS
  <1>2. PICK k : k = adjust_current_index(f.times, keeper.d_current_index, t)
    OBVIOUS
  <1>3. k \in 1 .. n /\ NotAhead(f.times, k, t)
    BY <1>1, <1>2, AdjustedIndex DEF Told, Keeper
  <1>4. time_set(f.times, keeper, t, written)
           = [d_t0 |-> t, d_sample_t0 |-> written, d_current_index |-> k]
    BY <1>2 DEF time_set
  <1>5. f.times[k] \in Int
    BY <1>1, <1>3 DEF Told, Lines
  <1>6. \A time \in Int : time >= t => NotAhead(f.times, k, time)
    BY <1>3, <1>5 DEF NotAhead
  <1> QED BY <1>1, <1>3, <1>4, <1>6 DEF Told, Keeper, Reached

\* A block works: it reads the tags of its window and gives a value to each sample.
LEMMA BlockWorks ==
    ASSUME NEW f, NEW keeper, NEW first \in Int, Told(f, keeper, first),
           NEW tags, NEW l \in Nat, Len(tags) = l,
           \A i \in 1 .. l : tags[i].time \in Int /\ tags[i].offset \in Int,
           NEW m \in Nat \ {0}
    PROVE  LET k == update_time_from_tags(f.times, keeper, tags)
           IN  /\ k \in Keeper(Len(f.times))
               /\ Told(f, keeper_after(f.times, k, first, m), first + m)
               /\ FollowsFile(call_of(f.times, f.values, k, first, m), f)
  <1>1. PICK n : n = Len(f.times)
    OBVIOUS
  <1>2. Lines(f.times, n) /\ Len(f.values) = n /\ keeper \in Keeper(n)
    BY <1>1 DEF Told
  <1>3. PICK k : k = update_time_from_tags(f.times, keeper, tags)
    OBVIOUS
  <1>4. k \in Keeper(n) /\ (k = keeper \/ NotAhead(f.times, k.d_current_index, k.d_t0))
    BY <1>2, <1>3, UpdatedTimes
  <1>5. Reached(f.times, k.d_current_index, k, first, 0)
    <2>1. CASE k = keeper
      BY <2>1 DEF Told
    <2>2. CASE NotAhead(f.times, k.d_current_index, k.d_t0)
      <3>1. f.times[k.d_current_index] \in Int /\ k.d_t0 \in Int
        BY <1>2, <1>4 DEF Lines, Keeper
      <3> QED BY <2>2, <3>1 DEF Reached, NotAhead
    <2> QED BY <1>4, <2>1, <2>2
  <1>6. PICK after : after = keeper_after(f.times, k, first, m)
    OBVIOUS
  <1>7. /\ after \in Keeper(n)
        /\ Reached(f.times, after.d_current_index, after, first + m, 0)
        /\ FollowsFile(call_of(f.times, f.values, k, first, m), f)
    <2>1. LET left == keeper_after(f.times, k, first, m)
          IN  /\ left \in Keeper(n)
              /\ Reached(f.times, left.d_current_index, left, first + m, 0)
              /\ FollowsFile(call_of(f.times, f.values, k, first, m), f)
      BY <1>2, <1>4, <1>5, CallFollowsFile, Zenon
    <2> QED BY <1>6, <2>1
  <1> QED BY <1>1, <1>2, <1>3, <1>4, <1>6, <1>7 DEF Told

\* So do the values of all samples of a call, also of those before the one on whose time
\* was told.
LEMMA CallWithin ==
    ASSUME NEW f, NEW n, Lines(f.times, n), f.values \in [1 .. n -> Int],
           NEW lo \in Int, NEW hi \in Int, \A i \in 1 .. n : f.values[i] \in lo .. hi,
           NEW keeper \in Keeper(n), NEW first \in Int, NEW l \in Nat
    PROVE  LET call == call_of(f.times, f.values, keeper, first, l)
           IN  /\ DOMAIN call.samples = 1 .. l
               /\ \A j \in 1 .. l : call.samples[j].value \in lo .. hi
  <1>1. PICK times, values : times = f.times /\ values = f.values
    OBVIOUS
  <1>2. PICK index : index = indices(times, keeper, first, l)
    OBVIOUS
  <1>3. /\ index \in [0 .. l -> 1 .. n]
        /\ \A j \in 1 .. l :
              index[j] = advanced_index(times, index[j - 1], time_of(keeper, first, j))
    BY <1>1, <1>2, IndicesOfCall, SMTT(20)
  <1>4. PICK call : call = call_of(times, values, keeper, first, l)
    OBVIOUS
  <1>5. /\ DOMAIN call.samples = 1 .. l
        /\ \A j \in 1 .. l :
              call.samples[j].value = value_at(times, values, index[j], time_of(keeper, first, j))
    BY <1>2, <1>4 DEF call_of, samples
  <1>6. ASSUME NEW j \in 1 .. l
        PROVE  value_at(times, values, index[j], time_of(keeper, first, j)) \in lo .. hi
    <2>1. PICK now \in Int : now = time_of(keeper, first, j)
      BY DEF time_of, compute_time, Keeper
    <2>2. j - 1 \in 0 .. l /\ j \in 0 .. l
      OBVIOUS
    <2>3. PICK before, after \in 1 .. n : before = index[j - 1] /\ after = index[j]
      BY <1>3, <2>2
    <2>4. after = advanced_index(times, before, now)
      BY <1>3, <2>1, <2>3
    <2>5. after < n => now < times[after + 1]
      <3>1. Lines(times, n)
        BY <1>1
      <3>2. advanced_index(times, before, now) < n
               => now < times[advanced_index(times, before, now) + 1]
        BY <3>1, AdvancedIndex
      <3> QED BY <2>4, <3>2
    <2>6. value_at(times, values, after, now) \in lo .. hi
      BY <1>1, <2>3, <2>5, ValueWithin
    <2> QED BY <2>1, <2>3, <2>6
  <1> QED BY <1>1, <1>4, <1>5, <1>6

------------------------------------------------------------------------------
\* The tags in a queue: which they are, and that none is there twice.
Ids(q) == {q[i].id : i \in 1 .. Len(q)}

Different(q) == \A i, j \in 1 .. Len(q) : i # j => q[i].id # q[j].id

\* The tags attached so far are out or wait, each once.
Each(out, future, count) ==
    /\ Different(out) /\ Different(future)
    /\ Ids(out) \cap Ids(future) = {}
    /\ Ids(out) \cup Ids(future) = 1 .. count

\* A tag that is new joins a queue.
LEMMA TagJoins ==
    ASSUME NEW q \in Seq(Tag), NEW tag \in Tag, tag.id \notin Ids(q), Different(q)
    PROVE  /\ Append(q, tag) \in Seq(Tag) /\ Different(Append(q, tag))
           /\ Ids(Append(q, tag)) = Ids(q) \cup {tag.id}
  <1>1. PICK l \in Nat : l = Len(q)
    OBVIOUS
  <1>2. PICK T, r : T = Tag /\ r = Append(q, tag)
    OBVIOUS
  <1>3. q \in Seq(T) /\ tag \in T /\ l \in Nat
    BY <1>2
  <1>4. /\ r \in Seq(T) /\ Len(r) = l + 1 /\ r[l + 1] = tag
        /\ \A i \in 1 .. l : r[i] = q[i]
    BY <1>1, <1>2, <1>3
  <1>5. \A i \in 1 .. l + 1 : i = l + 1 \/ i \in 1 .. l
    OBVIOUS
  <1>6. \A i \in 1 .. l : q[i].id # tag.id
    BY <1>1 DEF Ids
  <1>7. Different(r)
    BY <1>1, <1>4, <1>5, <1>6 DEF Different
  <1>8. Ids(r) = Ids(q) \cup {tag.id}
    BY <1>1, <1>4, <1>5 DEF Ids
  <1> QED BY <1>2, <1>4, <1>7, <1>8

\* A queue is parted: each of its tags is in one of the parts.
LEMMA QueueParts ==
    ASSUME NEW q \in Seq(Tag), NEW k \in 0 .. Len(q), Different(q)
    PROVE  LET front == SubSeq(q, 1, k)
               rest == SubSeq(q, k + 1, Len(q))
           IN  /\ front \in Seq(Tag) /\ rest \in Seq(Tag)
               /\ Different(front) /\ Different(rest)
               /\ Ids(front) \cap Ids(rest) = {}
               /\ Ids(front) \cup Ids(rest) = Ids(q)
  <1>1. PICK T : T = Tag
    OBVIOUS
  <1>2. PICK l \in Nat : l = Len(q)
    OBVIOUS
  <1>3. PICK front, rest : front = SubSeq(q, 1, k) /\ rest = SubSeq(q, k + 1, Len(q))
    OBVIOUS
  <1>4. k \in Nat /\ k <= l /\ q \in Seq(T)
    BY <1>1, <1>2
  <1>5. /\ front \in Seq(T) /\ Len(front) = k
        /\ \A i \in 1 .. k : front[i] = q[i]
    BY <1>2, <1>3, <1>4
  <1>6. /\ rest \in Seq(T) /\ Len(rest) = l - k
        /\ \A i \in 1 .. l - k : rest[i] = q[k + i]
    BY <1>2, <1>3, <1>4
  <1>7. \A i \in 1 .. k : i \in 1 .. l
    BY <1>4
  <1>8. \A i \in 1 .. l - k : k + i \in 1 .. l /\ \A j \in 1 .. k : j # k + i
    BY <1>4
  <1>9. \A i \in 1 .. l : i \in 1 .. k \/ (i - k \in 1 .. l - k /\ k + (i - k) = i)
    BY <1>4
  <1>10. Different(front)
    BY <1>2, <1>5, <1>7 DEF Different
  <1>11. Different(rest)
    <2>1. \A i, j \in 1 .. l - k : i # j => k + i # k + j
      BY <1>4
    <2> QED BY <1>2, <1>6, <1>8, <2>1 DEF Different
  <1>12. Ids(front) \cap Ids(rest) = {}
    BY <1>2, <1>5, <1>6, <1>7, <1>8 DEF Ids, Different
  <1>13. Ids(front) \cup Ids(rest) = Ids(q)
    <2>1. Ids(front) \cup Ids(rest) \subseteq Ids(q)
      BY <1>2, <1>5, <1>6, <1>7, <1>8 DEF Ids
    <2>2. ASSUME NEW i \in 1 .. l PROVE q[i].id \in Ids(front) \cup Ids(rest)
      <3>1. CASE i \in 1 .. k
        BY <1>5, <3>1 DEF Ids
      <3>2. CASE i - k \in 1 .. l - k /\ k + (i - k) = i
        <4>1. PICK j \in 1 .. l - k : j = i - k /\ k + j = i
          BY <3>2
        <4>2. rest[j] = q[i]
          BY <1>6, <4>1
        <4> QED BY <1>6, <4>2 DEF Ids
      <3> QED BY <1>9, <3>1, <3>2
    <2> QED BY <1>2, <2>1, <2>2 DEF Ids
  <1> QED BY <1>1, <1>3, <1>5, <1>6, <1>10, <1>11, <1>12, <1>13

\* Two queues with nothing in common are put one behind the other.
LEMMA QueuesJoin ==
    ASSUME NEW p \in Seq(Tag), NEW q \in Seq(Tag), Different(p), Different(q),
           Ids(p) \cap Ids(q) = {}
    PROVE  /\ p \o q \in Seq(Tag) /\ Different(p \o q)
           /\ Ids(p \o q) = Ids(p) \cup Ids(q)
  <1>1. PICK T : T = Tag
    OBVIOUS
  <1>2. PICK l, m \in Nat : l = Len(p) /\ m = Len(q)
    OBVIOUS
  <1>3. PICK r : r = p \o q
    OBVIOUS
  <1>4. p \in Seq(T) /\ q \in Seq(T)
    BY <1>1
  <1>5. /\ r \in Seq(T) /\ Len(r) = l + m
        /\ \A i \in 1 .. l : r[i] = p[i]
        /\ \A i \in 1 .. m : r[l + i] = q[i]
    BY <1>2, <1>3, <1>4
  <1>6. \A i \in 1 .. l : i \in 1 .. l + m
    OBVIOUS
  <1>7. \A i \in 1 .. m : l + i \in 1 .. l + m
    OBVIOUS
  <1>8. ASSUME NEW i \in 1 .. l + m
        PROVE  i \in 1 .. l \/ \E j \in 1 .. m : i = l + j
    <2>1. i \notin 1 .. l => i - l \in 1 .. m /\ i = l + (i - l)
      OBVIOUS
    <2> QED BY <2>1
  <1>9. \A i \in 1 .. l : \A j \in 1 .. m : p[i].id # q[j].id
    BY <1>2 DEF Ids
  <1>10. Different(r)
    <2> SUFFICES ASSUME NEW i \in 1 .. l + m, NEW j \in 1 .. l + m, i # j
                 PROVE  r[i].id # r[j].id
      BY <1>5 DEF Different
    <2>1. CASE i \in 1 .. l /\ j \in 1 .. l
      BY <1>2, <1>5, <2>1 DEF Different
    <2>2. CASE i \in 1 .. l /\ \E k \in 1 .. m : j = l + k
      <3>1. PICK k \in 1 .. m : j = l + k
        BY <2>2
      <3>2. r[j] = q[k] /\ r[i] = p[i]
        BY <1>5, <2>2, <3>1
      <3> QED BY <1>9, <2>2, <3>2
    <2>3. CASE j \in 1 .. l /\ \E k \in 1 .. m : i = l + k
      <3>1. PICK k \in 1 .. m : i = l + k
        BY <2>3
      <3>2. r[i] = q[k] /\ r[j] = p[j]
        BY <1>5, <2>3, <3>1
      <3> QED BY <1>9, <2>3, <3>2
    <2>4. CASE (\E k \in 1 .. m : i = l + k) /\ (\E k \in 1 .. m : j = l + k)
      <3>1. PICK a \in 1 .. m : i = l + a
        BY <2>4
      <3>2. PICK b \in 1 .. m : j = l + b
        BY <2>4
      <3>3. a # b
        BY <3>1, <3>2
      <3> QED BY <1>2, <1>5, <3>1, <3>2, <3>3 DEF Different
    <2> QED BY <1>8, <2>1, <2>2, <2>3, <2>4
  <1>11. Ids(r) = Ids(p) \cup Ids(q)
    <2>1. Ids(r) \subseteq Ids(p) \cup Ids(q)
      <3> SUFFICES ASSUME NEW i \in 1 .. l + m PROVE r[i].id \in Ids(p) \cup Ids(q)
        BY <1>5 DEF Ids
      <3>1. CASE i \in 1 .. l
        BY <1>2, <1>5, <3>1 DEF Ids
      <3>2. CASE \E j \in 1 .. m : i = l + j
        BY <1>2, <1>5, <3>2 DEF Ids
      <3> QED BY <1>8, <3>1, <3>2
    <2>2. Ids(p) \subseteq Ids(r)
      BY <1>2, <1>5, <1>6 DEF Ids
    <2>3. Ids(q) \subseteq Ids(r)
      <3> SUFFICES ASSUME NEW i \in 1 .. m PROVE q[i].id \in Ids(r)
        BY <1>2 DEF Ids
      <3>1. r[l + i] = q[i] /\ l + i \in 1 .. Len(r)
        BY <1>5, <1>7
      <3> QED BY <3>1 DEF Ids
    <2> QED BY <2>1, <2>2, <2>3
  <1> QED BY <1>1, <1>3, <1>5, <1>10, <1>11

\* Where a tag goes: out, or behind the queue.
Queues == [out : Seq(Tag), future : Seq(Tag)]

Put(queues, tag, limit) ==
    IF tag.offset < limit THEN [queues EXCEPT !.out = Append(@, tag)]
    ELSE [queues EXCEPT !.future = Append(@, tag)]

\* A tag that is new is out or waits, and the others stay where they are.
LEMMA TagIsPut ==
    ASSUME NEW queues \in Queues, NEW count \in Nat, Each(queues.out, queues.future, count),
           NEW tag \in Tag, tag.id = count + 1, NEW limit
    PROVE  LET next == Put(queues, tag, limit)
           IN  next \in Queues /\ Each(next.out, next.future, count + 1)
  <1>1. PICK out, future \in Seq(Tag) : out = queues.out /\ future = queues.future
    BY DEF Queues
  <1>2. PICK next : next = Put(queues, tag, limit)
    OBVIOUS
  <1>3. Each(out, future, count)
    BY <1>1
  <1>4. tag.id \notin Ids(out) /\ tag.id \notin Ids(future)
    <2>1. count + 1 \notin 1 .. count
      OBVIOUS
    <2> QED BY <1>3, <2>1 DEF Each
  <1>5. 1 .. count + 1 = (1 .. count) \cup {count + 1}
    OBVIOUS
  <1>6. CASE tag.offset < limit
    <2>1. /\ next.out = Append(out, tag) /\ next.future = future
          /\ next = [out |-> Append(out, tag), future |-> future]
      BY <1>1, <1>2, <1>6 DEF Put, Queues
    <2>2. /\ Append(out, tag) \in Seq(Tag) /\ Different(Append(out, tag))
          /\ Ids(Append(out, tag)) = Ids(out) \cup {tag.id}
      BY <1>3, <1>4, TagJoins DEF Each
    <2>3. Each(Append(out, tag), future, count + 1)
      BY <1>3, <1>4, <1>5, <2>2 DEF Each
    <2> QED BY <1>1, <1>2, <2>1, <2>2, <2>3 DEF Queues
  <1>7. CASE ~ (tag.offset < limit)
    <2>1. /\ next.out = out /\ next.future = Append(future, tag)
          /\ next = [out |-> out, future |-> Append(future, tag)]
      BY <1>1, <1>2, <1>7 DEF Put, Queues
    <2>2. /\ Append(future, tag) \in Seq(Tag) /\ Different(Append(future, tag))
          /\ Ids(Append(future, tag)) = Ids(future) \cup {tag.id}
      BY <1>3, <1>4, TagJoins DEF Each
    <2>3. Each(out, Append(future, tag), count + 1)
      BY <1>3, <1>4, <1>5, <2>2 DEF Each
    <2> QED BY <1>1, <1>2, <2>1, <2>2, <2>3 DEF Queues
  <1> QED BY <1>6, <1>7

\* The queues after each tag of a window exist.
LEMMA PlacedTags ==
    ASSUME item_tags \in Seq(Tag), d_future_tags \in Seq(Tag),
           NEW l \in Nat, NEW tags \in [1 .. l -> Tag], NEW limit
    PROVE  LET after == Delay!placed(tags, limit)
           IN  /\ after \in [0 .. l -> Queues]
               /\ after[0] = [out |-> item_tags, future |-> d_future_tags]
               /\ \A i \in 1 .. l : after[i] = Put(after[i - 1], tags[i], limit)
  <1> DEFINE F == [x \in Queues \X (1 .. l) |-> Put(x[1], tags[x[2]], limit)]
             Is(f) == f = [i \in 0 .. l |->
                CASE i = 0 -> [out |-> item_tags, future |-> d_future_tags]
                  [] i > 0 /\ tags[i].offset < limit ->
                        [f[i - 1] EXCEPT !.out = Append(@, tags[i])]
                  [] OTHER -> [f[i - 1] EXCEPT !.future = Append(@, tags[i])]]
  <1>1. ASSUME NEW queues \in Queues, NEW tag \in Tag PROVE Put(queues, tag, limit) \in Queues
    <2>1. PICK T : T = Tag
      OBVIOUS
    <2>2. \A q \in Seq(T) : \A t \in T : Append(q, t) \in Seq(T)
      OBVIOUS
    <2>3. queues.out \in Seq(T) /\ queues.future \in Seq(T) /\ tag \in T
      BY <2>1 DEF Queues
    <2>4. Append(queues.out, tag) \in Seq(T) /\ Append(queues.future, tag) \in Seq(T)
      BY <2>2, <2>3
    <2> QED BY <2>1, <2>3, <2>4 DEF Put, Queues
  <1>2. Step(F, Queues, l)
    BY <1>1 DEF Step
  <1>3. PICK start : start = [out |-> item_tags, future |-> d_future_tags]
    OBVIOUS
  <1>4. start \in Queues
    BY <1>3 DEF Queues
  <1>5. PICK f \in [0 .. l -> Queues] : f[0] = start /\ \A i \in 1 .. l : f[i] = F[<<f[i - 1], i>>]
    <2> HIDE DEF F
    <2>1. \E f : Repeated(f, F, Queues, l, start)
      BY <1>2, <1>4, Recursion, Zenon
    <2> QED BY <2>1 DEF Repeated
  <1>6. ASSUME NEW i \in 1 .. l PROVE f[i] = Put(f[i - 1], tags[i], limit)
    <2>1. i - 1 \in 0 .. l
      OBVIOUS
    <2>2. f[i - 1] \in Queues
      BY <2>1
    <2>3. F[<<f[i - 1], i>>] = Put(f[i - 1], tags[i], limit)
      BY <2>2
    <2> HIDE DEF F
    <2> QED BY <1>5, <2>3
  <1>7. Is(f)
    <2>1. \A i \in 0 .. l : i = 0 \/ (i # 0 /\ i > 0 /\ i \in 1 .. l)
      OBVIOUS
    <2>2. ASSUME NEW i \in 0 .. l
          PROVE  f[i] = CASE i = 0 -> [out |-> item_tags, future |-> d_future_tags]
                          [] i > 0 /\ tags[i].offset < limit ->
                                [f[i - 1] EXCEPT !.out = Append(@, tags[i])]
                          [] OTHER -> [f[i - 1] EXCEPT !.future = Append(@, tags[i])]
      <3> HIDE DEF F
      <3>1. CASE i = 0
        BY <1>3, <1>5, <3>1
      <3>2. CASE i # 0 /\ i > 0 /\ tags[i].offset < limit
        <4>1. f[i] = [f[i - 1] EXCEPT !.out = Append(@, tags[i])]
          BY <1>6, <2>1, <3>2 DEF Put
        <4> QED BY <3>2, <4>1
      <3>3. CASE i # 0 /\ i > 0 /\ ~ (tags[i].offset < limit)
        <4>1. f[i] = [f[i - 1] EXCEPT !.future = Append(@, tags[i])]
          BY <1>6, <2>1, <3>3 DEF Put
        <4> QED BY <3>3, <4>1
      <3> QED BY <2>1, <3>1, <3>2, <3>3
    <2> HIDE DEF F
    <2> QED BY <2>2
  <1>8. PICK after : after = Delay!placed(tags, limit)
    OBVIOUS
  <1>9. Len(tags) = l
    OBVIOUS
  <1>10. after = CHOOSE g : Is(g)
    BY <1>8, <1>9 DEF Delay!placed
  <1>11. Is(after)
    <2> HIDE DEF Is
    <2> QED BY <1>7, <1>10
  <1>12. after[0] = start
    BY <1>3, <1>11
  <1>13. ASSUME NEW i \in 1 .. l PROVE after[i] = Put(after[i - 1], tags[i], limit)
    <2>1. i \in 0 .. l /\ i # 0 /\ i > 0
      OBVIOUS
    <2> QED BY <1>11, <2>1 DEF Put
  <1>14. \A i \in 0 .. l : after[i] \in Queues
    <2>1. PICK S : S = {i \in 0 .. l : after[i] \in Queues}
      OBVIOUS
    <2>2. 0 \in S
      BY <1>4, <1>12, <2>1
    <2>3. \A i \in 1 .. l : i - 1 \in S => i \in S
      BY <1>1, <1>13, <2>1
    <2>4. \A i \in 0 .. l : i \in S
      BY <2>2, <2>3, StepByStep
    <2> QED BY <2>1, <2>4
  <1>15. after \in [0 .. l -> Queues]
    BY <1>11, <1>14
  <1> QED BY <1>3, <1>8, <1>12, <1>13, <1>15

\* After a call each tag, those of the window among them, is out or waits, once.
LEMMA PropagatedTags ==
    ASSUME item_tags \in Seq(Tag), d_future_tags \in Seq(Tag), NEW count \in Nat,
           Each(item_tags, d_future_tags, count),
           NEW l \in Nat, NEW tags \in [1 .. l -> Tag],
           \A i \in 1 .. l : tags[i].id = count + i,
           NEW limit, Delay!propagate(tags, limit)
    PROVE  /\ item_tags' \in Seq(Tag) /\ d_future_tags' \in Seq(Tag)
           /\ Each(item_tags', d_future_tags', count + l)
  <1>1. PICK after : after = Delay!placed(tags, limit)
    OBVIOUS
  <1>2. /\ after \in [0 .. l -> Queues]
        /\ after[0] = [out |-> item_tags, future |-> d_future_tags]
        /\ \A i \in 1 .. l : after[i] = Put(after[i - 1], tags[i], limit)
    BY <1>1, PlacedTags
  <1>3. PICK S : S = {i \in 0 .. l : Each(after[i].out, after[i].future, count + i)}
    OBVIOUS
  <1>4. 0 \in S
    BY <1>2, <1>3
  <1>5. ASSUME NEW i \in 1 .. l, i - 1 \in S PROVE i \in S
    <2>1. PICK before, tag : before = after[i - 1] /\ tag = tags[i]
      OBVIOUS
    <2>2. PICK c \in Nat : c = count + (i - 1)
      OBVIOUS
    <2>3. /\ before \in Queues /\ tag \in Tag /\ tag.id = c + 1
          /\ Each(before.out, before.future, c)
      <3>1. i - 1 \in 0 .. l /\ count + i = c + 1
        BY <2>2
      <3> QED BY <1>2, <1>3, <1>5, <2>1, <2>2, <3>1
    <2>4. LET next == Put(before, tag, limit)
          IN  next \in Queues /\ Each(next.out, next.future, c + 1)
      BY <2>3, TagIsPut
    <2>5. after[i] = Put(before, tag, limit)
      BY <1>2, <2>1
    <2>6. PICK next : next = Put(before, tag, limit)
      OBVIOUS
    <2>7. Each(next.out, next.future, c + 1) /\ after[i] = next
      BY <2>4, <2>5, <2>6
    <2>8. c + 1 = count + i
      BY <2>2
    <2>9. Each(after[i].out, after[i].future, count + i)
      BY <2>7, <2>8
    <2>10. i \in 0 .. l
      OBVIOUS
    <2> QED BY <1>3, <2>9, <2>10
  <1>6. \A i \in 0 .. l : i \in S
    BY <1>4, <1>5, StepByStep
  <1>7. PICK out, future \in Seq(Tag) : out = after[l].out /\ future = after[l].future
    <2>1. l \in 0 .. l
      OBVIOUS
    <2> QED BY <1>2, <2>1 DEF Queues
  <1>8. Each(out, future, count + l)
    <2>1. l \in 0 .. l
      OBVIOUS
    <2> QED BY <1>3, <1>6, <1>7, <2>1
  <1>9. PICK n \in Nat : n = Len(future)
    OBVIOUS
  <1>10. PICK first : first = Delay!in_future(future, limit)
    OBVIOUS
  <1>11. first \in 0 .. n
    <2>1. PICK I : I = {i \in 1 .. Len(future) : future[i].offset >= limit}
      OBVIOUS
    <2>2. I \in SUBSET Nat /\ I \subseteq 1 .. n
      BY <1>9, <2>1
    <2>3. I # {} => Min(I) \in I
      BY <2>2, LeastIsMin
    <2>4. first = IF I # {} THEN Min(I) ELSE 0
      BY <1>10, <2>1 DEF Delay!in_future, Delay!SelectInSeq, Delay!Min, Min
    <2>5. first = 0 \/ first \in 1 .. n
      BY <2>2, <2>3, <2>4
    <2> QED BY <2>5
  <1>12. PICK k \in 0 .. n : k = IF first = 0 THEN n ELSE first - 1
    BY <1>11
  <1>13. PICK due, kept : due = SubSeq(future, 1, k) /\ kept = SubSeq(future, k + 1, Len(future))
    OBVIOUS
  <1>14. /\ due \in Seq(Tag) /\ kept \in Seq(Tag)
         /\ Different(due) /\ Different(kept)
         /\ Ids(due) \cap Ids(kept) = {}
         /\ Ids(due) \cup Ids(kept) = Ids(future)
    BY <1>8, <1>9, <1>12, <1>13, QueueParts DEF Each
  <1>15. Delay!tags_due(future, limit) = due
    BY <1>9, <1>10, <1>12, <1>13 DEF Delay!tags_due
  <1>16. Len(due) = k
    BY <1>9, <1>12, <1>13
  <1>17. Delay!tags_kept(future, limit) = kept
    BY <1>13, <1>15, <1>16 DEF Delay!tags_kept
  <1>18. item_tags' = out \o due /\ d_future_tags' = kept
    <2>1. Len(tags) = l
      OBVIOUS
    <2> QED BY <1>1, <1>7, <1>15, <1>17, <2>1 DEF Delay!propagate
  <1>19. /\ out \o due \in Seq(Tag) /\ Different(out \o due)
         /\ Ids(out \o due) = Ids(out) \cup Ids(due)
    <2>1. Ids(out) \cap Ids(due) = {}
      BY <1>8, <1>14 DEF Each
    <2> QED BY <1>8, <1>14, <2>1, QueuesJoin DEF Each
  <1>20. Each(out \o due, kept, count + l)
    BY <1>8, <1>14, <1>19 DEF Each
  <1> QED BY <1>14, <1>18, <1>19, <1>20

------------------------------------------------------------------------------
\* The delay keeps time by what TimeFile defines.
LEMMA DelayKeepsTime ==
    ASSUME NEW times, NEW values, NEW keeper, NEW tags, NEW t, NEW first, NEW n
    PROVE  /\ Delay!update_time_from_tags(times, keeper, tags)
                 = update_time_from_tags(times, keeper, tags)
           /\ Delay!time_set(times, keeper, t, first) = time_set(times, keeper, t, first)
           /\ Delay!keeper_after(times, keeper, first, n) = keeper_after(times, keeper, first, n)
           /\ Delay!call_of(times, values, keeper, first, n)
                 = call_of(times, values, keeper, first, n)
  <1>1. \A x, y, z : Delay!adjust_current_index(x, y, z) = adjust_current_index(x, y, z)
    BY DEF Delay!adjust_current_index, adjust_current_index, Delay!Max, Max
  <1>2. Delay!update_time_from_tags(times, keeper, tags)
            = update_time_from_tags(times, keeper, tags)
    BY Zenon DEF Delay!update_time_from_tags, update_time_from_tags, Delay!times_from_tags,
       times_from_tags, Delay!time_from_tag, time_from_tag, Delay!adjust_current_index,
       adjust_current_index, Delay!Max, Max, NoTime, Delay!NoTime
  <1>3. Delay!time_set(times, keeper, t, first) = time_set(times, keeper, t, first)
    BY <1>1 DEF Delay!time_set, time_set
  <1>4. Delay!keeper_after(times, keeper, first, n) = keeper_after(times, keeper, first, n)
    BY DEF Delay!keeper_after, keeper_after, Delay!indices, indices, Delay!advanced_index,
       advanced_index, Delay!time_of, time_of, Delay!compute_time, compute_time, Delay!Min, Min
  <1>5. Delay!samples(times, keeper, first, n) = samples(times, keeper, first, n)
    BY Zenon DEF Delay!samples, samples, Delay!indices, indices, Delay!advanced_index,
       advanced_index, Delay!time_of, time_of, Delay!compute_time, compute_time, Delay!Min, Min
  <1>6. \A i, x : Delay!value_at(times, values, i, x) = value_at(times, values, i, x)
    BY DEF Delay!value_at, value_at
  <1>7. Delay!call_of(times, values, keeper, first, n) = call_of(times, values, keeper, first, n)
    BY <1>5, <1>6 DEF call_of, Delay!call_of
  <1> QED BY <1>2, <1>3, <1>4, <1>7

\* And so does the Doppler correction.
LEMMA DopplerKeepsTime ==
    ASSUME NEW times, NEW values, NEW keeper, NEW tags, NEW t, NEW first, NEW n
    PROVE  /\ Doppler!update_time_from_tags(times, keeper, tags)
                 = update_time_from_tags(times, keeper, tags)
           /\ Doppler!time_set(times, keeper, t, first) = time_set(times, keeper, t, first)
           /\ Doppler!keeper_after(times, keeper, first, n) = keeper_after(times, keeper, first, n)
           /\ Doppler!call_of(times, values, keeper, first, n)
                 = call_of(times, values, keeper, first, n)
  <1>1. \A x, y, z : Doppler!adjust_current_index(x, y, z) = adjust_current_index(x, y, z)
    BY DEF Doppler!adjust_current_index, adjust_current_index, Doppler!Max, Max
  <1>2. Doppler!update_time_from_tags(times, keeper, tags)
            = update_time_from_tags(times, keeper, tags)
    BY Zenon DEF Doppler!update_time_from_tags, update_time_from_tags, Doppler!times_from_tags,
       times_from_tags, Doppler!time_from_tag, time_from_tag, Doppler!adjust_current_index,
       adjust_current_index, Doppler!Max, Max, NoTime, Doppler!NoTime
  <1>3. Doppler!time_set(times, keeper, t, first) = time_set(times, keeper, t, first)
    BY <1>1 DEF Doppler!time_set, time_set
  <1>4. Doppler!keeper_after(times, keeper, first, n) = keeper_after(times, keeper, first, n)
    BY DEF Doppler!keeper_after, keeper_after, Doppler!indices, indices, Doppler!advanced_index,
       advanced_index, Doppler!time_of, time_of, Doppler!compute_time, compute_time,
       Doppler!Min, Min
  <1>5. Doppler!samples(times, keeper, first, n) = samples(times, keeper, first, n)
    BY Zenon DEF Doppler!samples, samples, Doppler!indices, indices, Doppler!advanced_index,
       advanced_index, Doppler!time_of, time_of, Doppler!compute_time, compute_time,
       Doppler!Min, Min
  <1>6. \A i, x : Doppler!value_at(times, values, i, x) = value_at(times, values, i, x)
    BY DEF Doppler!value_at, value_at
  <1>7. Doppler!call_of(times, values, keeper, first, n) = call_of(times, values, keeper, first, n)
    BY <1>5, <1>6 DEF call_of, Doppler!call_of
  <1> QED BY <1>2, <1>3, <1>4, <1>7

\* A value is a whole number.
LEMMA ValueIsWhole ==
    ASSUME NEW times, NEW values, NEW n, Lines(times, n), values \in [1 .. n -> Int],
           NEW index \in 1 .. n, NEW time \in Int, index < n => time < times[index + 1]
    PROVE  value_at(times, values, index, time) \in Int
  <1>1. PICK a \in Int : a = values[index]
    OBVIOUS
  <1>2. CASE time < times[index] \/ index = n
    <2>1. value_at(times, values, index, time) = a
      BY <1>1, <1>2 DEF value_at, Lines
    <2> QED BY <2>1
  <1>3. CASE ~ (time < times[index] \/ index = n)
    <2>1. index + 1 \in 1 .. n /\ index < n
      BY <1>3 DEF Lines
    <2>2. PICK b \in Int : b = values[index + 1]
      BY <2>1
    <2>3. PICK t \in Int : t = times[index]
      BY DEF Lines
    <2>4. PICK u \in Int : u = times[index + 1]
      BY <2>1 DEF Lines
    <2>5. PICK w \in Nat \ {0} : w = u - t
      BY <1>3, <2>1, <2>3, <2>4
    <2>6. PICK x \in Int : x = (b - a) * (time - t)
      BY <2>3
    <2>7. x \div w \in Int
      BY Quotient
    <2>8. value_at(times, values, index, time) = a + (x \div w)
      BY <1>1, <1>3, <2>2, <2>3, <2>4, <2>5, <2>6 DEF value_at, Lines
    <2> QED BY <2>7, <2>8
  <1> QED BY <1>2, <1>3

\* The tags of a window keep what they are, and go out at some item.
LEMMA DelayedTags ==
    ASSUME NEW next, Told(d_file, delay_keeper, next), NEW k \in Keeper(Len(d_file.times)),
           NEW l \in Nat, NEW tags \in [1 .. l -> Tag]
    PROVE  LET delayed == Delay!delayed_tags(tags, k)
           IN  delayed \in [1 .. l -> Tag] /\ \A i \in 1 .. l : delayed[i].id = tags[i].id
  <1>1. PICK times, values, n : times = d_file.times /\ values = d_file.values /\ n = Len(times)
    OBVIOUS
  <1>2. Lines(times, n) /\ values \in [1 .. n -> Int] /\ k.d_current_index \in 1 .. n
        /\ k.d_t0 \in Int /\ k.d_sample_t0 \in Int
    BY <1>1 DEF Told, Keeper
  <1>3. ASSUME NEW time \in Int
        PROVE  Delay!compute_tag_delay(time, k.d_current_index) \in Int
    <2>1. PICK i : i = adjust_current_index(times, k.d_current_index, time)
      OBVIOUS
    <2>2. i \in 1 .. n
      BY <1>2, <2>1, AdjustedIndex
    <2>3. PICK m : m = advanced_index(times, i, time)
      OBVIOUS
    <2>4. m \in i .. n /\ (m < n => time < times[m + 1])
      BY <1>2, <2>2, <2>3, AdvancedIndex
    <2>5. m \in 1 .. n
      BY <1>2, <2>2, <2>4 DEF Lines
    <2>6. value_at(times, values, m, time) \in Int
      BY <1>2, <2>4, <2>5, ValueIsWhole
    <2>7. Delay!adjust_current_index(times, k.d_current_index, time) = i
      BY <2>1 DEF Delay!adjust_current_index, adjust_current_index, Delay!Max, Max
    <2>8. Delay!advanced_index(times, i, time) = m
      BY <2>3 DEF Delay!advanced_index, advanced_index, Delay!Min, Min
    <2>9. Delay!value_at(times, values, m, time) = value_at(times, values, m, time)
      BY DEF Delay!value_at, value_at
    <2> QED BY <1>1, <2>6, <2>7, <2>8, <2>9 DEF Delay!compute_tag_delay
  <1>4. ASSUME NEW delay \in Int PROVE Delay!delay_rounded(delay) \in Int
    <2>1. PICK w \in Nat \ {0} : w = 2 * SubSamples
      BY FiltersAssumption
    <2>2. PICK x \in Int : x = 2 * delay + SubSamples
      BY FiltersAssumption
    <2>3. x \div w \in Int
      BY Quotient
    <2> QED BY <2>1, <2>2, <2>3 DEF Delay!delay_rounded
  <1>5. PICK delayed : delayed = Delay!delayed_tags(tags, k)
    OBVIOUS
  <1>6. ASSUME NEW i \in 1 .. l
        PROVE  delayed[i] \in Tag /\ delayed[i].id = tags[i].id
    <2>1. PICK tag \in Tag : tag = tags[i]
      OBVIOUS
    <2>2. PICK offset \in Int : offset = tag.offset
      BY DEF Tag
    <2>3. PICK time \in Int : time = Delay!compute_time(k.d_t0, k.d_sample_t0, offset)
      BY <1>2 DEF Delay!compute_time
    <2>4. PICK delay \in Int : delay = Delay!compute_tag_delay(time, k.d_current_index)
      BY <1>3
    <2>5. PICK by \in Int : by = Delay!delay_rounded(delay)
      BY <1>4
    <2>6. delayed[i] = [tag EXCEPT !.offset = offset + by]
      BY <1>5, <2>1, <2>2, <2>3, <2>4, <2>5 DEF Delay!delayed_tags
    <2> QED BY <2>1, <2>6 DEF Tag
  <1>7. delayed = [i \in 1 .. l |-> delayed[i]]
    BY <1>5 DEF Delay!delayed_tags
  <1> QED BY <1>5, <1>6, <1>7

\* No delay of the file is above the longest one.
LEMMA LongestDelay ==
    ASSUME NEW n \in Nat, d_file.values \in [1 .. n -> Int]
    PROVE  Delay!max_delay \in Int /\ \A i \in 1 .. n : d_file.values[i] <= Delay!max_delay
  <1>1. PICK values : values = d_file.values
    OBVIOUS
  <1>2. values \in [1 .. n -> Int]
    BY <1>1
  <1>3. PICK Up : Up = [j \in 0 .. n |-> {0} \cup {values[i] : i \in 1 .. j}]
    OBVIOUS
  <1>4. PICK S : S = {j \in 0 .. n : \E m \in Up[j] : m \in Int /\ \A x \in Up[j] : x <= m}
    OBVIOUS
  <1>5. 0 \in S
    <2>1. Up[0] = {0}
      BY <1>3
    <2> QED BY <1>4, <2>1
  <1>6. ASSUME NEW j \in 1 .. n, j - 1 \in S PROVE j \in S
    <2>1. j - 1 \in 0 .. n /\ j \in 0 .. n
      OBVIOUS
    <2>2. PICK m \in Up[j - 1] : m \in Int /\ \A x \in Up[j - 1] : x <= m
      BY <1>4, <1>6
    <2>3. PICK v \in Int : v = values[j]
      BY <1>2
    <2>4. Up[j] = Up[j - 1] \cup {v}
      <3>1. \A i : i \in 1 .. j <=> i \in 1 .. j - 1 \/ i = j
        OBVIOUS
      <3> QED BY <1>3, <2>1, <2>3, <3>1
    <2>5. CASE m >= v
      BY <1>4, <2>1, <2>2, <2>3, <2>4, <2>5
    <2>6. CASE ~ (m >= v)
      <3>1. \A x \in Up[j - 1] : x \in Int
        BY <1>2, <1>3, <2>1
      <3>2. \A x \in Up[j] : x <= v
        BY <2>2, <2>3, <2>4, <2>6, <3>1
      <3> QED BY <1>4, <2>1, <2>3, <2>4, <3>2
    <2> QED BY <2>5, <2>6
  <1>7. n \in S
    <2>1. n \in 0 .. n
      OBVIOUS
    <2> QED BY <1>5, <1>6, <2>1, StepByStep
  <1>8. PICK T : T = {0} \cup Range(values)
    OBVIOUS
  <1>9. T = Up[n]
    BY <1>2, <1>3, <1>8 DEF Range
  <1>10. \E m \in T : m \in Int /\ \A x \in T : m >= x
    <2>1. PICK m \in T : m \in Int /\ \A x \in T : x <= m
      BY <1>4, <1>7, <1>9
    <2>2. \A x \in T : x \in Int
      BY <1>2, <1>8 DEF Range
    <2> QED BY <2>1, <2>2
  <1>11. PICK top : top = CHOOSE m \in T : \A x \in T : m >= x
    OBVIOUS
  <1>12. top \in T /\ \A x \in T : top >= x
    BY <1>10, <1>11
  <1>13. \A x \in T : x \in Int
    BY <1>2, <1>8 DEF Range
  <1>14. \A i \in 1 .. n : values[i] \in T
    BY <1>2, <1>8 DEF Range
  <1>15. Delay!max_delay = top
    BY <1>1, <1>8, <1>11 DEF Delay!max_delay, Delay!Max, Delay!Range, Range
  <1>16. \A i \in 1 .. n : values[i] <= top
    BY <1>12, <1>13, <1>14
  <1> QED BY <1>1, <1>12, <1>13, <1>15, <1>16

\* The filters read within the history if the delay is between that of the filter and
\* the longest one.
LEMMA ReadsOfSample ==
    ASSUME NEW longest \in Int, longest = Delay!max_delay,
           (longest - d_fir_delay) % SubSamples = 0,
           NEW delay \in d_fir_delay .. longest, NEW j \in Nat \ {0}
    PROVE  /\ Delay!sample_idx0(j - 1, delay) >= 0
           /\ Delay!sample_idx1(j - 1, delay) + d_taps_per_filter - 1
                 <= (j - 1) + Delay!history - 1
  <1>1. PICK w \in Nat \ {0} : w = SubSamples
    BY FiltersAssumption
  <1>2. PICK fir \in Nat : fir = d_fir_delay
    BY FiltersAssumption
  <1>3. PICK taps \in Nat \ {0} : taps = d_taps_per_filter
    BY FiltersAssumption
  <1>4. PICK filters \in Nat \ {0, 1} : filters = NumFilters
    BY FiltersAssumption
  <1>5. PICK d, e \in Int : d = longest - fir /\ e = delay - fir /\ 0 <= e /\ e <= d
    BY <1>2
  <1>6. PICK q \in Int : q = d \div w /\ q * w = d
    <2>1. d % w = 0
      BY <1>1, <1>2, <1>5
    <2>2. d \div w \in Int /\ (d \div w) * w = d
      BY <2>1
    <2> QED BY <2>2
  <1>7. PICK p \in Int : p = e \div w /\ p * w <= e /\ e < p * w + w
    BY Quotient
  <1>8. PICK c \in Int : c = p + IF p * w = e THEN 0 ELSE 1
    BY <1>7
  <1>9. PICK a \in Int : a = c * w - e
    OBVIOUS
  <1>10. c >= 0 /\ c <= q /\ a >= 0 /\ (a > 0 => c >= 1)
    <2>1. p >= 0
      BY <1>5, <1>7
    <2>2. p <= q
      BY <1>5, <1>6, <1>7
    <2>3. CASE p * w = e
      <3>1. c = p /\ a = 0
        BY <1>7, <1>8, <1>9, <2>3
      <3> QED BY <2>1, <2>2, <3>1
    <2>4. CASE p * w # e
      <3>1. c = p + 1
        BY <1>8, <2>4
      <3>2. c * w = p * w + w
        BY <3>1
      <3>3. a >= 0
        BY <1>7, <1>9, <3>2
      <3>4. p < q
        BY <1>5, <1>6, <1>7, <2>2, <2>4
      <3> QED BY <2>1, <3>1, <3>3, <3>4
    <2> QED BY <2>3, <2>4
  <1>11. Delay!delay_int(delay) = c
    <2>1. e % w = 0 => p * w = e
      BY <1>7
    <2>2. p * w = e => e % w = 0
      BY <1>7
    <2>3. Delay!delay_int(delay) = p + IF e % w = 0 THEN 0 ELSE 1
      BY <1>1, <1>2, <1>5, <1>7 DEF Delay!delay_int
    <2> QED BY <1>8, <2>1, <2>2, <2>3
  <1>12. Delay!advance_frac(delay) = a
    BY <1>1, <1>2, <1>5, <1>9, <1>11 DEF Delay!advance_frac
  <1>13. Delay!history = q + 1 + (taps - 1)
    BY <1>1, <1>2, <1>3, <1>5, <1>6 DEF Delay!history
  <1>14. Delay!sample_idx0(j - 1, delay) = (j - 1) + q - c - (taps - 1) + (taps - 1)
    BY <1>3, <1>11, <1>13 DEF Delay!sample_idx0
  <1>15. PICK idx0 \in Int : idx0 = (j - 1) + q - c
    OBVIOUS
  <1>16. Delay!sample_idx0(j - 1, delay) = idx0
    BY <1>14, <1>15
  <1>17. PICK g \in Int : g = (a * filters) \div w
    <2>1. PICK x \in Int : x = a * filters
      OBVIOUS
    <2> QED BY <2>1, Quotient
  <1>18. Delay!sample_idx1(j - 1, delay) = IF g + 1 = filters THEN idx0 + 1 ELSE idx0
    BY <1>1, <1>4, <1>12, <1>16, <1>17 DEF Delay!sample_idx1
  <1>19. g + 1 = filters => a > 0
    <2>1. SUFFICES ASSUME a = 0 PROVE g + 1 # filters
      BY <1>10
    <2>2. g = 0
      BY <1>17, <2>1
    <2> QED BY <2>2
  <1>20. PICK idx1 \in Int : idx1 = Delay!sample_idx1(j - 1, delay)
    BY <1>18
  <1>21. idx1 <= (j - 1) + q
    BY <1>10, <1>15, <1>18, <1>19, <1>20
  <1>22. idx1 + taps - 1 <= (j - 1) + (q + 1 + (taps - 1)) - 1
    BY <1>21
  <1> QED BY <1>3, <1>10, <1>13, <1>15, <1>16, <1>20, <1>22

\* A file that is read has its lines in order.
LEMMA FileHasLines ==
    ASSUME NEW f, IsFile(f)
    PROVE  /\ Lines(f.times, Len(f.times))
           /\ Len(f.values) = Len(f.times) /\ f.values \in [1 .. Len(f.times) -> Int]
  <1>1. PICK times, values \in Seq(Int) : times = f.times /\ values = f.values
    BY DEF IsFile
  <1>2. PICK n \in Nat : n = Len(times)
    OBVIOUS
  <1>3. times \in [1 .. n -> Int] /\ values \in [1 .. n -> Int] /\ Len(values) = n /\ n >= 1
    BY <1>1, <1>2 DEF IsFile
  <1>4. \A i, j \in 1 .. n : i <= j => times[i] <= times[j]
    <2>1. DOMAIN times = 1 .. n
      BY <1>2
    <2> QED BY <1>1, <2>1 DEF IsFile
  <1> QED BY <1>1, <1>2, <1>3, <1>4 DEF Lines

\* A line is added.
LEMMA LineIsAdded ==
    ASSUME NEW q \in Seq(Int), NEW x \in Int
    PROVE  /\ Append(q, x) \in Seq(Int) /\ Len(Append(q, x)) = Len(q) + 1
           /\ Append(q, x)[Len(q) + 1] = x
           /\ \A i \in 1 .. Len(q) : Append(q, x)[i] = q[i]
  OBVIOUS

\* Also with its last line twice.
LEMMA FileAsRead ==
    ASSUME NEW f, IsFile(f)
    PROVE  IsFile(Doppler!as_read(f))
  <1>1. PICK times, values \in Seq(Int) : times = f.times /\ values = f.values
    BY DEF IsFile
  <1>2. PICK n \in Nat : n = Len(times) /\ n = Len(values) /\ n >= 1
    BY <1>1 DEF IsFile
  <1>3. \A i, j \in 1 .. n : i <= j => times[i] <= times[j]
    BY <1>1, <1>2, FileHasLines DEF Lines
  <1>4. PICK t, v \in Int : t = times[n] /\ v = values[n]
    <2>1. times \in [1 .. n -> Int] /\ values \in [1 .. n -> Int]
      BY <1>1, <1>2, FileHasLines DEF Lines
    <2>2. times[n] \in Int /\ values[n] \in Int
      BY <1>2, <2>1
    <2> QED BY <2>2
  <1>5. PICK longer, more : longer = Append(times, t) /\ more = Append(values, v)
    OBVIOUS
  <1>6. /\ longer \in Seq(Int) /\ more \in Seq(Int)
        /\ Len(longer) = n + 1 /\ Len(more) = n + 1
        /\ longer[n + 1] = t /\ \A i \in 1 .. n : longer[i] = times[i]
    <2>1. /\ longer \in Seq(Int) /\ Len(longer) = Len(times) + 1
          /\ longer[Len(times) + 1] = t /\ \A i \in 1 .. Len(times) : longer[i] = times[i]
      BY <1>5, LineIsAdded
    <2>2. more \in Seq(Int) /\ Len(more) = Len(values) + 1
      BY <1>5, LineIsAdded
    <2> QED BY <1>2, <2>1, <2>2
  <1>7. ASSUME NEW i \in 1 .. n + 1, NEW j \in 1 .. n + 1, i <= j
        PROVE  longer[i] <= longer[j]
    <2>1. CASE j # n + 1
      BY <1>3, <1>6, <1>7, <2>1, SMTT(20)
    <2>2. CASE j = n + 1 /\ i # n + 1
      <3>1. times[i] <= times[n]
        BY <1>3, <2>2
      <3> QED BY <1>4, <1>6, <2>2, <3>1
    <2>3. CASE j = n + 1 /\ i = n + 1
      BY <1>6, <2>3
    <2> QED BY <2>1, <2>2, <2>3
  <1>8. DOMAIN longer = 1 .. n + 1 /\ longer # <<>>
    BY <1>6
  <1>9. IsFile([times |-> longer, values |-> more])
    BY <1>6, <1>7, <1>8 DEF IsFile
  <1>10. IsFile([times |-> f.times, values |-> f.values])
    BY DEF IsFile
  <1>11. Doppler!Last(times) = t /\ Doppler!Last(values) = v
    BY <1>2, <1>4 DEF Doppler!Last
  <1> QED BY <1>1, <1>5, <1>9, <1>10, <1>11 DEF Doppler!as_read

\* Where the source attaches tags, and what they tell.
MarksOf(n, count) ==
    {m \in [1 .. count -> [item : 0 .. n - 1, time : Times \cup {NoTime}]] :
        \A i, j \in 1 .. count : i < j => m[i].item < m[j].item}

\* The tags that the source attaches are new ones.
LEMMA TagsOfSource ==
    ASSUME tag_count \in Nat, delay_written \in Nat, NEW n \in Nat, NEW tags \in Windows(n)
    PROVE  \E l \in Nat : /\ tags \in [1 .. l -> Tag] /\ Len(tags) = l
                          /\ \A i \in 1 .. l : tags[i].id = tag_count + i
  <1>1. PICK count \in 0 .. MaxTags - tag_count :
           \E m \in [1 .. count -> [item : 0 .. n - 1, time : Times \cup {NoTime}]] :
              tags = [i \in DOMAIN m |-> [id |-> tag_count + i,
                                          offset |-> delay_written + m[i].item,
                                          time |-> m[i].time]]
    <2>1. PICK m \in UNION {MarksOf(n, c) : c \in 0 .. MaxTags - tag_count} :
             tags = [i \in DOMAIN m |-> [id |-> tag_count + i,
                                         offset |-> delay_written + m[i].item,
                                         time |-> m[i].time]]
      BY Zenon DEF Windows, MarksOf
    <2>2. PICK c \in 0 .. MaxTags - tag_count : m \in MarksOf(n, c)
      OBVIOUS
    <2>3. m \in [1 .. c -> [item : 0 .. n - 1, time : Times \cup {NoTime}]]
      BY <2>2 DEF MarksOf
    <2> QED BY <2>1, <2>2, <2>3
  <1>2. PICK m \in [1 .. count -> [item : 0 .. n - 1, time : Times \cup {NoTime}]] :
           tags = [i \in DOMAIN m |-> [id |-> tag_count + i,
                                       offset |-> delay_written + m[i].item,
                                       time |-> m[i].time]]
    BY <1>1
  <1>3. count \in Nat
    BY BoundsAssumption
  <1>4. ASSUME NEW i \in 1 .. count
        PROVE  tags[i] \in Tag /\ tags[i].id = tag_count + i
    <2>1. PICK item, time \in Int : item = m[i].item /\ time = m[i].time
      <3>1. m[i] \in [item : 0 .. n - 1, time : Times \cup {NoTime}]
        OBVIOUS
      <3>2. m[i].item \in 0 .. n - 1 /\ m[i].time \in Times \cup {NoTime}
        BY <3>1
      <3>3. m[i].item \in Int
        BY <3>2
      <3>4. NoTime \in Int
        BY DEF NoTime
      <3>5. Times \cup {NoTime} \subseteq Int
        BY <3>4, TimesAssumption
      <3>6. m[i].time \in Int
        BY <3>2, <3>5
      <3> QED BY <3>3, <3>6
    <2>2. tags[i] = [id |-> tag_count + i, offset |-> delay_written + item, time |-> time]
      BY <1>2, <2>1
    <2> QED BY <1>3, <2>2 DEF Tag
  <1>5. tags = [i \in 1 .. count |-> tags[i]]
    BY <1>2
  <1>6. tags \in [1 .. count -> Tag] /\ Len(tags) = count
    <2>1. PICK T : T = Tag
      OBVIOUS
    <2>2. \A i \in 1 .. count : tags[i] \in T
      BY <1>4, <2>1
    <2>3. tags \in [1 .. count -> T]
      BY <1>5, <2>2
    <2>4. Len(tags) = count
      BY <1>3, <1>5
    <2> QED BY <2>1, <2>3, <2>4
  <1>7. \A i \in 1 .. count : tags[i].id = tag_count + i
    BY <1>4
  <1> QED BY <1>3, <1>6, <1>7

\* The tags of the window of the second block are such that the first one has let go.
LEMMA TagsOfWindow ==
    ASSUME item_tags \in Seq(Tag), NEW n, NEW tags \in Window(n)
    PROVE  \E l \in Nat : tags \in [1 .. l -> Tag] /\ Len(tags) = l
  <1>1. PICK T, q : T = Tag /\ q = item_tags /\ q \in Seq(T)
    OBVIOUS
  <1>2. PICK here : here = {i \in DOMAIN q :
                        q[i].offset \in doppler_written .. (doppler_written + n) - 1}
    OBVIOUS
  <1>3. PICK l : l = Cardinality(here)
    OBVIOUS
  <1>4. PICK order \in [1 .. l -> here] : tags = [k \in DOMAIN order |-> q[order[k]]]
    BY <1>1, <1>2, <1>3 DEF Window
  <1>5. l \in Nat
    <2>1. here \subseteq 1 .. Len(q)
      BY <1>1, <1>2
    <2>2. IsFiniteSet(1 .. Len(q))
      BY <1>1, FS_Interval
    <2>3. IsFiniteSet(here)
      BY <2>1, <2>2, FS_Subset
    <2> QED BY <1>3, <2>3, FS_CardinalityType
  <1>6. tags \in [1 .. l -> T]
    <2>1. \A i \in here : q[i] \in T
      BY <1>1, <1>2
    <2> QED BY <1>4, <2>1
  <1> QED BY <1>1, <1>5, <1>6

\* A tag that is out or waits once is counted once.
LEMMA CountedOnce ==
    ASSUME NEW p \in Seq(Tag), NEW q \in Seq(Tag), NEW count \in Nat, Each(p, q, count),
           NEW id \in 1 .. count
    PROVE  Cardinality({i \in DOMAIN p : p[i].id = id})
           + Cardinality({i \in DOMAIN q : q[i].id = id}) = 1
  <1>1. ASSUME NEW s \in Seq(Tag), Different(s), id \in Ids(s)
        PROVE  Cardinality({i \in DOMAIN s : s[i].id = id}) = 1
    <2>1. PICK k \in 1 .. Len(s) : s[k].id = id
      BY <1>1 DEF Ids
    <2>2. DOMAIN s = 1 .. Len(s)
      OBVIOUS
    <2>3. \A i \in 1 .. Len(s) : s[i].id = id => i = k
      BY <1>1, <2>1 DEF Different
    <2>4. {i \in DOMAIN s : s[i].id = id} = {k}
      BY <2>1, <2>2, <2>3
    <2> QED BY <2>4, FS_Singleton
  <1>2. ASSUME NEW s \in Seq(Tag), id \notin Ids(s)
        PROVE  Cardinality({i \in DOMAIN s : s[i].id = id}) = 0
    <2>1. DOMAIN s = 1 .. Len(s)
      OBVIOUS
    <2>2. {i \in DOMAIN s : s[i].id = id} = {}
      BY <1>2, <2>1 DEF Ids
    <2> QED BY <2>2, FS_EmptySet
  <1>3. /\ Different(p) /\ Different(q)
        /\ \/ id \in Ids(p) /\ id \notin Ids(q)
           \/ id \notin Ids(p) /\ id \in Ids(q)
    <2>1. PICK P, Q : P = Ids(p) /\ Q = Ids(q)
      OBVIOUS
    <2>2. Different(p) /\ Different(q) /\ P \cap Q = {} /\ P \cup Q = 1 .. count
      BY <2>1 DEF Each
    <2> QED BY <2>1, <2>2
  <1> QED BY <1>1, <1>2, <1>3

------------------------------------------------------------------------------
\* What the blocks have counted and the source has attached.
Counted ==
    /\ delay_written \in Nat /\ delay_produced \in Nat
    /\ doppler_written \in Nat /\ doppler_produced \in Nat
    /\ tag_count \in Nat

\* Each tag is out or waits, once.
TagsKept ==
    /\ item_tags \in Seq(Tag) /\ d_future_tags \in Seq(Tag)
    /\ Each(item_tags, d_future_tags, tag_count)

\* The delays of the file, and those of the last call.
LeastDelay == \A i \in 1 .. Len(d_file.times) : d_file.values[i] >= d_fir_delay

DelaysOfCall ==
    \E l \in Nat : /\ DOMAIN delay_call.samples = 1 .. l
                   /\ \A j \in 1 .. l :
                         delay_call.samples[j].value \in d_fir_delay .. Delay!max_delay

\* The inductive invariant: both blocks keep time, with an index that is ahead of none of
\* the samples to come.
IndexBehindTime ==
    /\ Counted
    /\ Told(d_file, delay_keeper, delay_written + delay_produced)
    /\ Told(file, doppler_keeper, doppler_written + doppler_produced)
    /\ TagsKept
    /\ LeastDelay
    /\ DelaysOfCall
    /\ ValuesFollowFile

\* With the first line as index nothing is ahead.
LEMMA ToldAtFirst ==
    ASSUME NEW f, IsFile(f), NEW keeper,
           keeper = [d_t0 |-> 0, d_sample_t0 |-> 0, d_current_index |-> 1], NEW next
    PROVE  Told(f, keeper, next)
  <1>1. PICK n : n = Len(f.times)
    OBVIOUS
  <1>2. n \in Nat /\ n >= 1
    BY <1>1, FileHasLines DEF Lines
  <1>3. keeper \in Keeper(n)
    BY <1>2 DEF Keeper
  <1>4. Reached(f.times, keeper.d_current_index, keeper, next, 0)
    BY DEF Reached, NotAhead
  <1> QED BY <1>1, <1>3, <1>4, FileHasLines DEF Told

\* The blocks start with the first line of their files.
LEMMA InitiallyBehind == Init => IndexBehindTime
  <1> SUFFICES ASSUME Init PROVE IndexBehindTime
    OBVIOUS
  <1>1. IsFile(d_file)
    BY FilesAssumption DEF Init, Delay!DelayInit
  <1>2. IsFile(file)
    <2>1. PICK f \in DopplerFiles : file = Doppler!as_read(f)
      BY DEF Init, Doppler!DopplerInit
    <2> QED BY <2>1, FilesAssumption, FileAsRead
  <1>3. Counted
    BY DEF Counted, Init, Delay!DelayInit, Doppler!DopplerInit
  <1>4. Told(d_file, delay_keeper, delay_written + delay_produced)
    BY <1>1, ToldAtFirst DEF Init, Delay!DelayInit
  <1>5. Told(file, doppler_keeper, doppler_written + doppler_produced)
    BY <1>2, ToldAtFirst DEF Init, Doppler!DopplerInit
  <1>6. TagsKept
    <2>1. item_tags = <<>> /\ d_future_tags = <<>> /\ tag_count = 0
      BY DEF Init, Delay!DelayInit
    <2>2. PICK none : none = <<>>
      OBVIOUS
    <2>3. none \in Seq(Tag) /\ Ids(none) = {} /\ Different(none)
      BY <2>2 DEF Ids, Different
    <2> QED BY <2>1, <2>2, <2>3 DEF TagsKept, Each
  <1>7. LeastDelay
    <2>1. DOMAIN d_file.values = 1 .. Len(d_file.times)
      BY <1>1, FileHasLines
    <2>2. \A i \in DOMAIN d_file.values : d_file.values[i] >= d_fir_delay
      BY DEF Init, Delay!DelayInit
    <2> QED BY <2>1, <2>2 DEF LeastDelay
  <1>8. delay_call.samples = <<>> /\ doppler_call.samples = <<>>
    BY DEF Init, Delay!DelayInit, Delay!NoCall, Doppler!DopplerInit, Doppler!NoCall
  <1>9. DelaysOfCall
    BY <1>8 DEF DelaysOfCall
  <1>10. ValuesFollowFile
    BY <1>8 DEF ValuesFollowFile, FollowsFile
  <1> QED BY <1>3, <1>4, <1>5, <1>6, <1>7, <1>9, <1>10 DEF IndexBehindTime

\* A call of the delay: its time keeping and its samples.
LEMMA DelayKeeps ==
    ASSUME IndexBehindTime, NEW n \in Nat \ {0}, NEW l \in Nat, NEW tags \in [1 .. l -> Tag],
           Len(tags) = l, Delay!work(n, tags)
    PROVE  /\ d_file' = d_file /\ delay_written' \in Nat /\ delay_produced' \in Nat
           /\ Told(d_file, delay_keeper', delay_written' + delay_produced')
           /\ FollowsFile(delay_call', d_file)
           /\ \E m \in Nat : /\ DOMAIN delay_call'.samples = 1 .. m
                             /\ \A j \in 1 .. m : delay_call'.samples[j].value
                                                     \in d_fir_delay .. Delay!max_delay
  <1>1. PICK f, first, k : /\ f = d_file /\ first = delay_written
                           /\ k = update_time_from_tags(f.times, delay_keeper, tags)
    OBVIOUS
  <1>2. Delay!update_time_from_tags(f.times, delay_keeper, tags) = k
    BY <1>1, DelayKeepsTime
  <1>3. /\ delay_produced = 0 /\ delay_produced' = n /\ delay_written' = first /\ d_file' = f
        /\ delay_keeper' = keeper_after(f.times, k, first, n)
        /\ delay_call' = call_of(f.times, f.values, k, first, n)
    <2>1. /\ delay_keeper' = Delay!keeper_after(f.times, k, first, n)
          /\ delay_call' = Delay!call_of(f.times, f.values, k, first, n)
          /\ delay_produced = 0 /\ delay_produced' = n /\ delay_written' = first /\ d_file' = f
      BY <1>1, <1>2 DEF Delay!work
    <2> QED BY <2>1, DelayKeepsTime
  <1>4. first \in Nat
    BY <1>1 DEF IndexBehindTime, Counted
  <1>5. Told(f, delay_keeper, first)
    <2>1. Told(d_file, delay_keeper, delay_written + delay_produced)
      BY DEF IndexBehindTime
    <2>2. delay_written + delay_produced = first
      BY <1>1, <1>3, <1>4
    <2> QED BY <1>1, <2>1, <2>2
  <1>6. \A i \in 1 .. l : tags[i].time \in Int /\ tags[i].offset \in Int
    BY DEF Tag
  <1>7. /\ k \in Keeper(Len(f.times))
        /\ Told(f, keeper_after(f.times, k, first, n), first + n)
        /\ FollowsFile(call_of(f.times, f.values, k, first, n), f)
    BY <1>1, <1>4, <1>5, <1>6, BlockWorks
  <1>8. PICK count : count = Len(f.times)
    OBVIOUS
  <1>9. Lines(f.times, count) /\ f.values \in [1 .. count -> Int]
    BY <1>5, <1>8 DEF Told
  <1>10. count \in Nat /\ 1 \in 1 .. count
    BY <1>9 DEF Lines
  <1>11. PICK hi \in Int : hi = Delay!max_delay /\ \A i \in 1 .. count : f.values[i] <= hi
    BY <1>1, <1>9, <1>10, LongestDelay
  <1>12. PICK lo \in Int : lo = d_fir_delay
    BY FiltersAssumption
  <1>13. ASSUME NEW i \in 1 .. count PROVE f.values[i] \in lo .. hi
    <2>1. PICK v \in Int : v = f.values[i]
      BY <1>9
    <2>2. f.values[i] >= d_fir_delay
      BY <1>1, <1>8 DEF IndexBehindTime, LeastDelay
    <2>3. f.values[i] <= hi
      BY <1>11
    <2>4. lo <= v /\ v <= hi
      BY <1>12, <2>1, <2>2, <2>3
    <2> QED BY <2>1, <2>4
  <1>14. /\ DOMAIN call_of(f.times, f.values, k, first, n).samples = 1 .. n
         /\ \A j \in 1 .. n :
               call_of(f.times, f.values, k, first, n).samples[j].value \in lo .. hi
    <2>1. n \in Nat /\ first \in Int /\ k \in Keeper(count)
      BY <1>4, <1>7, <1>8
    <2> QED BY <1>9, <1>13, <2>1, CallWithin
  <1>15. \E m \in Nat : /\ DOMAIN delay_call'.samples = 1 .. m
                        /\ \A j \in 1 .. m : delay_call'.samples[j].value
                                                \in d_fir_delay .. Delay!max_delay
    BY <1>3, <1>11, <1>12, <1>14
  <1>16. Told(d_file, delay_keeper', delay_written' + delay_produced')
    BY <1>1, <1>3, <1>7
  <1>17. FollowsFile(delay_call', d_file)
    BY <1>1, <1>3, <1>7
  <1> QED BY <1>1, <1>3, <1>4, <1>15, <1>16, <1>17

\* A call of the delay: its tags.
LEMMA DelayKeepsTags ==
    ASSUME IndexBehindTime, NEW n \in Nat \ {0}, NEW l \in Nat, NEW tags \in [1 .. l -> Tag],
           Len(tags) = l, \A i \in 1 .. l : tags[i].id = tag_count + i, Delay!work(n, tags)
    PROVE  /\ item_tags' \in Seq(Tag) /\ d_future_tags' \in Seq(Tag)
           /\ Each(item_tags', d_future_tags', tag_count + l)
  <1>1. PICK f, first, k : /\ f = d_file /\ first = delay_written
                           /\ k = update_time_from_tags(f.times, delay_keeper, tags)
    OBVIOUS
  <1>2. Delay!update_time_from_tags(f.times, delay_keeper, tags) = k
    BY <1>1, DelayKeepsTime
  <1>3. PICK after : after = keeper_after(f.times, k, first, n)
    OBVIOUS
  <1>4. Delay!keeper_after(f.times, k, first, n) = after
    BY <1>3, DelayKeepsTime
  <1>5. /\ Delay!propagate(Delay!delayed_tags(tags, after), first + n)
        /\ delay_keeper' = after
    BY <1>1, <1>2, <1>4 DEF Delay!work
  <1>6. after \in Keeper(Len(d_file.times))
    BY <1>1, <1>5, DelayKeeps DEF Told
  <1>7. PICK next : Told(d_file, delay_keeper, next)
    BY DEF IndexBehindTime
  <1>8. PICK delayed : delayed = Delay!delayed_tags(tags, after)
    OBVIOUS
  <1>9. delayed \in [1 .. l -> Tag] /\ \A i \in 1 .. l : delayed[i].id = tags[i].id
    BY <1>6, <1>7, <1>8, DelayedTags
  <1>10. PICK count \in Nat : count = tag_count
    BY DEF IndexBehindTime, Counted
  <1>11. \A i \in 1 .. l : delayed[i].id = count + i
    BY <1>9, <1>10
  <1>12. /\ item_tags \in Seq(Tag) /\ d_future_tags \in Seq(Tag)
         /\ Each(item_tags, d_future_tags, count)
    BY <1>10 DEF IndexBehindTime, TagsKept
  <1>13. PICK limit : limit = first + n
    OBVIOUS
  <1>14. Delay!propagate(delayed, limit)
    BY <1>5, <1>8, <1>13
  <1> QED BY <1>9, <1>10, <1>11, <1>12, <1>14, PropagatedTags

\* A call of the Doppler correction: its time keeping and its samples.
LEMMA DopplerKeeps ==
    ASSUME IndexBehindTime, NEW n \in Nat \ {0}, NEW l \in Nat, NEW tags \in [1 .. l -> Tag],
           Len(tags) = l, NEW now \in Int, NEW enabled, Doppler!work(n, tags, now, enabled)
    PROVE  /\ file' = file /\ doppler_written' \in Nat /\ doppler_produced' \in Nat
           /\ Told(file, doppler_keeper', doppler_written' + doppler_produced')
           /\ FollowsFile(doppler_call', file)
  <1>1. PICK synced : synced = Doppler!timesync(tags, now, enabled)
    OBVIOUS
  <1>2. PICK f, first, k : /\ f = file /\ first = doppler_written
                           /\ k = update_time_from_tags(f.times, doppler_keeper, synced)
    OBVIOUS
  <1>3. Doppler!update_time_from_tags(f.times, doppler_keeper, synced) = k
    BY <1>2, DopplerKeepsTime
  <1>4. /\ doppler_produced = 0 /\ doppler_produced' = n /\ doppler_written' = first
        /\ file' = f
        /\ doppler_keeper' = keeper_after(f.times, k, first, n)
        /\ doppler_call' = call_of(f.times, f.values, k, first, n)
    <2>1. /\ doppler_keeper' = Doppler!keeper_after(f.times, k, first, n)
          /\ doppler_call' = Doppler!call_of(f.times, f.values, k, first, n)
          /\ doppler_produced = 0 /\ doppler_produced' = n /\ doppler_written' = first
          /\ file' = f
      BY <1>1, <1>2, <1>3 DEF Doppler!work
    <2> QED BY <2>1, DopplerKeepsTime
  <1>5. first \in Nat
    BY <1>2 DEF IndexBehindTime, Counted
  <1>6. Told(f, doppler_keeper, first)
    <2>1. Told(file, doppler_keeper, doppler_written + doppler_produced)
      BY DEF IndexBehindTime
    <2>2. doppler_written + doppler_produced = first
      BY <1>2, <1>4, <1>5
    <2> QED BY <1>2, <2>1, <2>2
  <1>7. Len(synced) = l /\ \A i \in 1 .. l : synced[i].time \in Int /\ synced[i].offset \in Int
    <2>1. synced = [i \in 1 .. l |->
                       IF enabled /\ tags[i].time = Doppler!NoTime
                       THEN [tags[i] EXCEPT !.time = now] ELSE tags[i]]
      BY <1>1 DEF Doppler!timesync
    <2>2. Len(synced) = l
      BY <2>1
    <2>3. ASSUME NEW i \in 1 .. l PROVE synced[i].time \in Int /\ synced[i].offset \in Int
      <3>1. PICK tag \in Tag : tag = tags[i]
        OBVIOUS
      <3>2. synced[i] = [tag EXCEPT !.time = now] \/ synced[i] = tag
        BY <2>1, <3>1
      <3> QED BY <3>2 DEF Tag
    <2> QED BY <2>2, <2>3
  <1>8. /\ Told(f, keeper_after(f.times, k, first, n), first + n)
        /\ FollowsFile(call_of(f.times, f.values, k, first, n), f)
    BY <1>2, <1>5, <1>6, <1>7, BlockWorks
  <1>9. Told(file, doppler_keeper', doppler_written' + doppler_produced')
    BY <1>2, <1>4, <1>8
  <1>10. FollowsFile(doppler_call', file)
    BY <1>2, <1>4, <1>8
  <1> QED BY <1>2, <1>4, <1>5, <1>9, <1>10

\* No call of work() or set_time(), and no counting, moves an index ahead of the time, or
\* loses a tag.
LEMMA StepKeepsBehind == IndexBehindTime /\ [Next]_vars => IndexBehindTime'
  <1> SUFFICES ASSUME IndexBehindTime, [Next]_vars PROVE IndexBehindTime'
    OBVIOUS
  <1>1. ASSUME NEW n \in 1 .. MaxItems, DelayWork(n) PROVE IndexBehindTime'
    <2>1. PICK tags \in Windows(n) : /\ Delay!work(n, tags)
                                     /\ tag_count' = tag_count + Len(tags)
      BY <1>1 DEF DelayWork
    <2>2. UNCHANGED dopplerVars
      BY <1>1 DEF DelayWork
    <2>3. n \in Nat \ {0} /\ n \in Nat
      BY BoundsAssumption
    <2>4. PICK l \in Nat : /\ tags \in [1 .. l -> Tag] /\ Len(tags) = l
                           /\ \A i \in 1 .. l : tags[i].id = tag_count + i
      BY <2>3, TagsOfSource DEF IndexBehindTime, Counted
    <2>5. /\ d_file' = d_file /\ delay_written' \in Nat /\ delay_produced' \in Nat
          /\ Told(d_file, delay_keeper', delay_written' + delay_produced')
          /\ FollowsFile(delay_call', d_file)
          /\ \E m \in Nat : /\ DOMAIN delay_call'.samples = 1 .. m
                            /\ \A j \in 1 .. m : delay_call'.samples[j].value
                                                    \in d_fir_delay .. Delay!max_delay
      BY <2>1, <2>3, <2>4, DelayKeeps
    <2>6. /\ item_tags' \in Seq(Tag) /\ d_future_tags' \in Seq(Tag)
          /\ Each(item_tags', d_future_tags', tag_count + l)
      BY <2>1, <2>3, <2>4, DelayKeepsTags
    <2>7. tag_count' = tag_count + l
      BY <2>1, <2>4
    <2>8. Counted'
      BY <2>2, <2>4, <2>5, <2>7 DEF IndexBehindTime, Counted, dopplerVars
    <2>9. Told(d_file, delay_keeper, delay_written + delay_produced)'
      BY <2>5
    <2>10. Told(file, doppler_keeper, doppler_written + doppler_produced)'
      BY <2>2 DEF IndexBehindTime, dopplerVars
    <2>11. TagsKept'
      BY <2>6, <2>7 DEF TagsKept
    <2>12. LeastDelay'
      BY <2>5 DEF IndexBehindTime, LeastDelay
    <2>13. DelaysOfCall'
      BY <2>5 DEF DelaysOfCall, Delay!max_delay
    <2>14. ValuesFollowFile'
      BY <2>2, <2>5 DEF IndexBehindTime, ValuesFollowFile, dopplerVars
    <2> QED BY <2>8, <2>9, <2>10, <2>11, <2>12, <2>13, <2>14 DEF IndexBehindTime
  <1>2. ASSUME NEW n \in 1 .. MaxItems, DopplerWork(n) PROVE IndexBehindTime'
    <2>1. PICK now \in Times, tags \in Window(n) :
             Doppler!work(n, tags, now, timesync_enabled)
      BY <1>2 DEF DopplerWork
    <2>2. UNCHANGED delayVars /\ tag_count' = tag_count
      BY <1>2 DEF DopplerWork, source
    <2>3. n \in Nat \ {0} /\ now \in Int
      BY BoundsAssumption, TimesAssumption
    <2>4. PICK l \in Nat : tags \in [1 .. l -> Tag] /\ Len(tags) = l
      BY TagsOfWindow DEF IndexBehindTime, TagsKept
    <2>5. /\ file' = file /\ doppler_written' \in Nat /\ doppler_produced' \in Nat
          /\ Told(file, doppler_keeper', doppler_written' + doppler_produced')
          /\ FollowsFile(doppler_call', file)
      BY <2>1, <2>3, <2>4, DopplerKeeps
    <2>6. Counted'
      BY <2>2, <2>5 DEF IndexBehindTime, Counted, delayVars
    <2>7. Told(d_file, delay_keeper, delay_written + delay_produced)'
      BY <2>2 DEF IndexBehindTime, delayVars
    <2>8. Told(file, doppler_keeper, doppler_written + doppler_produced)'
      BY <2>5
    <2>9. TagsKept'
      BY <2>2 DEF IndexBehindTime, TagsKept, delayVars
    <2>10. LeastDelay'
      BY <2>2 DEF IndexBehindTime, LeastDelay, delayVars
    <2>11. DelaysOfCall'
      BY <2>2 DEF IndexBehindTime, DelaysOfCall, delayVars, Delay!max_delay
    <2>12. ValuesFollowFile'
      BY <2>2, <2>5 DEF IndexBehindTime, ValuesFollowFile, delayVars
    <2> QED BY <2>6, <2>7, <2>8, <2>9, <2>10, <2>11, <2>12 DEF IndexBehindTime
  <1>3. ASSUME NEW t \in Times, DelaySetTime(t) PROVE IndexBehindTime'
    <2>1. /\ delay_keeper' = time_set(d_file.times, delay_keeper, t, delay_written)
          /\ UNCHANGED <<d_file, delay_written, delay_produced, d_future_tags, item_tags,
                         delay_call>>
          /\ UNCHANGED dopplerVars /\ tag_count' = tag_count
      BY <1>3, DelayKeepsTime DEF DelaySetTime, Delay!set_time
    <2>2. Told(d_file, delay_keeper', delay_written + delay_produced)
      <3>1. t \in Int /\ delay_written \in Int
        BY TimesAssumption DEF IndexBehindTime, Counted
      <3> QED BY <2>1, <3>1, TimeIsSet DEF IndexBehindTime
    <2>3. Told(d_file, delay_keeper, delay_written + delay_produced)'
      BY <2>1, <2>2
    <2>4. Told(file, doppler_keeper, doppler_written + doppler_produced)'
      BY <2>1 DEF IndexBehindTime, dopplerVars
    <2>5. Counted'
      BY <2>1 DEF IndexBehindTime, Counted, dopplerVars
    <2>6. TagsKept'
      BY <2>1 DEF IndexBehindTime, TagsKept
    <2>7. LeastDelay'
      BY <2>1 DEF IndexBehindTime, LeastDelay
    <2>8. DelaysOfCall'
      BY <2>1 DEF IndexBehindTime, DelaysOfCall, Delay!max_delay
    <2>9. ValuesFollowFile'
      BY <2>1 DEF IndexBehindTime, ValuesFollowFile, dopplerVars
    <2> QED BY <2>3, <2>4, <2>5, <2>6, <2>7, <2>8, <2>9 DEF IndexBehindTime
  <1>4. ASSUME NEW t \in Times, DopplerSetTime(t) PROVE IndexBehindTime'
    <2>1. /\ doppler_keeper' = time_set(file.times, doppler_keeper, t, doppler_written)
          /\ UNCHANGED <<file, doppler_written, doppler_produced, doppler_call>>
          /\ UNCHANGED delayVars /\ tag_count' = tag_count
      BY <1>4, DopplerKeepsTime DEF DopplerSetTime, Doppler!set_time, source
    <2>2. Told(file, doppler_keeper', doppler_written + doppler_produced)
      <3>1. t \in Int /\ doppler_written \in Int
        BY TimesAssumption DEF IndexBehindTime, Counted
      <3> QED BY <2>1, <3>1, TimeIsSet DEF IndexBehindTime
    <2>3. Told(file, doppler_keeper, doppler_written + doppler_produced)'
      BY <2>1, <2>2
    <2>4. Told(d_file, delay_keeper, delay_written + delay_produced)'
      BY <2>1 DEF IndexBehindTime, delayVars
    <2>5. Counted'
      BY <2>1 DEF IndexBehindTime, Counted, delayVars
    <2>6. TagsKept'
      BY <2>1 DEF IndexBehindTime, TagsKept, delayVars
    <2>7. LeastDelay'
      BY <2>1 DEF IndexBehindTime, LeastDelay, delayVars
    <2>8. DelaysOfCall'
      BY <2>1 DEF IndexBehindTime, DelaysOfCall, Delay!max_delay, delayVars
    <2>9. ValuesFollowFile'
      BY <2>1 DEF IndexBehindTime, ValuesFollowFile, delayVars
    <2> QED BY <2>3, <2>4, <2>5, <2>6, <2>7, <2>8, <2>9 DEF IndexBehindTime
  <1>5. CASE DelayCount
    <2>1. /\ delay_written' = delay_written + delay_produced /\ delay_produced' = 0
          /\ UNCHANGED <<d_file, delay_keeper, d_future_tags, item_tags, delay_call>>
          /\ UNCHANGED dopplerVars /\ tag_count' = tag_count
      BY <1>5 DEF DelayCount, Delay!Count, source
    <2>2. PICK next \in Nat : next = delay_written + delay_produced
      BY DEF IndexBehindTime, Counted
    <2>3. delay_written' = next /\ delay_written' + delay_produced' = next
      BY <2>1, <2>2
    <2>4. Told(d_file, delay_keeper, delay_written + delay_produced)'
      BY <2>1, <2>2, <2>3 DEF IndexBehindTime
    <2>5. Told(file, doppler_keeper, doppler_written + doppler_produced)'
      BY <2>1 DEF IndexBehindTime, dopplerVars
    <2>6. Counted'
      BY <2>1, <2>3 DEF IndexBehindTime, Counted, dopplerVars
    <2>7. TagsKept'
      BY <2>1 DEF IndexBehindTime, TagsKept
    <2>8. LeastDelay'
      BY <2>1 DEF IndexBehindTime, LeastDelay
    <2>9. DelaysOfCall'
      BY <2>1 DEF IndexBehindTime, DelaysOfCall, Delay!max_delay
    <2>10. ValuesFollowFile'
      BY <2>1 DEF IndexBehindTime, ValuesFollowFile, dopplerVars
    <2> QED BY <2>4, <2>5, <2>6, <2>7, <2>8, <2>9, <2>10 DEF IndexBehindTime
  <1>6. CASE DopplerCount
    <2>1. /\ doppler_written' = doppler_written + doppler_produced /\ doppler_produced' = 0
          /\ UNCHANGED <<file, doppler_keeper, doppler_call>>
          /\ UNCHANGED delayVars /\ tag_count' = tag_count
      BY <1>6 DEF DopplerCount, Doppler!Count, source
    <2>2. PICK next \in Nat : next = doppler_written + doppler_produced
      BY DEF IndexBehindTime, Counted
    <2>3. doppler_written' = next /\ doppler_written' + doppler_produced' = next
      BY <2>1, <2>2
    <2>4. Told(file, doppler_keeper, doppler_written + doppler_produced)'
      BY <2>1, <2>2, <2>3 DEF IndexBehindTime
    <2>5. Told(d_file, delay_keeper, delay_written + delay_produced)'
      BY <2>1 DEF IndexBehindTime, delayVars
    <2>6. Counted'
      BY <2>1, <2>3 DEF IndexBehindTime, Counted, delayVars
    <2>7. TagsKept'
      BY <2>1 DEF IndexBehindTime, TagsKept, delayVars
    <2>8. LeastDelay'
      BY <2>1 DEF IndexBehindTime, LeastDelay, delayVars
    <2>9. DelaysOfCall'
      BY <2>1 DEF IndexBehindTime, DelaysOfCall, Delay!max_delay, delayVars
    <2>10. ValuesFollowFile'
      BY <2>1 DEF IndexBehindTime, ValuesFollowFile, delayVars
    <2> QED BY <2>4, <2>5, <2>6, <2>7, <2>8, <2>9, <2>10 DEF IndexBehindTime
  <1>7. CASE UNCHANGED vars
    <2>1. UNCHANGED delayVars /\ UNCHANGED dopplerVars /\ tag_count' = tag_count
      BY <1>7 DEF vars, source
    <2> QED BY <2>1 DEF IndexBehindTime, Counted, TagsKept, LeastDelay, DelaysOfCall,
            ValuesFollowFile, Delay!max_delay, delayVars, dopplerVars
  <1> QED BY <1>1, <1>2, <1>3, <1>4, <1>5, <1>6, <1>7 DEF Next

\* The blocks never have an index that is ahead of the time of their samples to come
\* (adjust_current_index() and the search in work()).
THEOREM SpecIndexBehindTime == Spec => []IndexBehindTime
  BY InitiallyBehind, StepKeepsBehind, PTL DEF Spec

\* The samples of a call from the last one on whose time was told have the value that the
\* file has for their time, however often time was told, and whether or not the last call
\* was counted (doppler_correction work(), time_dependent_delay work() and set_time()).
THEOREM SpecValuesFollowFile == Spec => []ValuesFollowFile
  <1>1. IndexBehindTime => ValuesFollowFile
    BY DEF IndexBehindTime
  <1> QED BY <1>1, SpecIndexBehindTime, PTL

\* The filters of time_dependent_delay read no item before the history and none behind the
\* last one given, if the longest delay is a whole number of samples above that of the
\* filter.
THEOREM SpecReadsWithinHistory == Spec => []ReadsWithinHistory
  <1>1. IndexBehindTime => ReadsWithinHistory
    <2> SUFFICES ASSUME IndexBehindTime, (Delay!max_delay - d_fir_delay) % SubSamples = 0,
                        NEW j \in DOMAIN delay_call.samples
                 PROVE  LET delay == delay_call.samples[j].value
                        IN  /\ Delay!sample_idx0(j - 1, delay) >= 0
                            /\ Delay!sample_idx1(j - 1, delay) + d_taps_per_filter - 1
                                  <= (j - 1) + Delay!history - 1
      BY DEF ReadsWithinHistory
    <2>1. PICK l \in Nat : /\ DOMAIN delay_call.samples = 1 .. l
                           /\ \A i \in 1 .. l : delay_call.samples[i].value
                                                   \in d_fir_delay .. Delay!max_delay
      BY DEF IndexBehindTime, DelaysOfCall
    <2>2. j \in Nat \ {0}
      BY <2>1
    <2>3. Delay!max_delay \in Int
      <3>1. PICK n : Lines(d_file.times, n) /\ d_file.values \in [1 .. n -> Int]
        BY DEF IndexBehindTime, Told
      <3>2. n \in Nat
        BY <3>1 DEF Lines
      <3> QED BY <3>1, <3>2, LongestDelay
    <2>4. PICK longest \in Int : longest = Delay!max_delay
      BY <2>3
    <2>5. PICK delay \in d_fir_delay .. longest : delay = delay_call.samples[j].value
      BY <2>1, <2>4
    <2>6. (longest - d_fir_delay) % SubSamples = 0
      BY <2>4
    <2>7. /\ Delay!sample_idx0(j - 1, delay) >= 0
          /\ Delay!sample_idx1(j - 1, delay) + d_taps_per_filter - 1
                <= (j - 1) + Delay!history - 1
      BY <2>2, <2>4, <2>6, ReadsOfSample
    <2> QED BY <2>5, <2>7
  <1> QED BY <1>1, SpecIndexBehindTime, PTL

\* The tags that the source attached are in the output of time_dependent_delay or wait in
\* d_future_tags, none lost and none twice (tags_propagate()).
THEOREM SpecEveryTagOnce == Spec => []EveryTagOnce
  <1>1. IndexBehindTime => EveryTagOnce
    <2> SUFFICES ASSUME IndexBehindTime, NEW id \in 1 .. tag_count
                 PROVE  Cardinality({i \in DOMAIN item_tags : item_tags[i].id = id})
                        + Cardinality({i \in DOMAIN d_future_tags : d_future_tags[i].id = id})
                           = 1
      BY DEF EveryTagOnce
    <2>1. PICK p, q, count : p = item_tags /\ q = d_future_tags /\ count = tag_count
      OBVIOUS
    <2>2. p \in Seq(Tag) /\ q \in Seq(Tag) /\ count \in Nat /\ Each(p, q, count)
      BY <2>1 DEF IndexBehindTime, TagsKept, Counted
    <2>3. id \in 1 .. count
      BY <2>1
    <2> QED BY <2>1, <2>2, <2>3, CountedOnce
  <1> QED BY <1>1, SpecIndexBehindTime, PTL

------------------------------------------------------------------------------
\* From line k on the value goes to that of the next line, in steps of a time.
Between(times, values, k, time) ==
    values[k] + ((values[k + 1] - values[k]) * (time - times[k])) \div (times[k + 1] - times[k])

\* The value of a time by where it lies in the file.
Placed(times, values, n, time, value) ==
    /\ time < times[1] => value = values[1]
    /\ ~ (time < times[1]) /\ time >= times[n] => value = values[n]
    /\ ~ (time < times[1]) /\ ~ (time >= times[n]) =>
          \E k \in 1 .. n - 1 : /\ times[k] <= time /\ time < times[k + 1]
                                /\ value = Between(times, values, k, time)

\* What Interpolated is, with the line named.
LEMMA InterpolatedIs ==
    ASSUME NEW times, NEW values, NEW n, Lines(times, n), Len(values) = n, NEW time \in Int
    PROVE  Placed(times, values, n, time, Interpolated(times, values, time))
  <1>1. Last(times) = times[n] /\ Last(values) = values[n] /\ Len(times) = n
    BY DEF Last, Lines
  <1>2. ASSUME time < times[1] PROVE Interpolated(times, values, time) = values[1]
    <2>1. times[1] \in Int /\ times[n] \in Int /\ times[1] <= times[n]
      BY DEF Lines
    <2>2. ~ (time >= Last(times))
      BY <1>1, <1>2, <2>1
    <2> QED BY <1>2, <2>2 DEF Interpolated
  <1>3. ASSUME ~ (time < times[1]), time >= times[n]
        PROVE  Interpolated(times, values, time) = values[n]
    BY <1>1, <1>3 DEF Interpolated
  <1>4. ASSUME ~ (time < times[1]), ~ (time >= times[n])
        PROVE  \E k \in 1 .. n - 1 :
                  /\ times[k] <= time /\ time < times[k + 1]
                  /\ Interpolated(times, values, time) = Between(times, values, k, time)
    <2>1. PICK k : k = CHOOSE i \in 1 .. n - 1 : times[i] <= time /\ time < times[i + 1]
      OBVIOUS
    <2>2. Interpolated(times, values, time) = Between(times, values, k, time)
      BY <1>1, <1>4, <2>1 DEF Interpolated, Between
    <2>3. \E i \in 1 .. n - 1 : times[i] <= time /\ time < times[i + 1]
      <3>1. PICK T : T = {i \in 1 .. n : times[i] <= time}
        OBVIOUS
      <3>2. n \in Nat /\ n >= 1 /\ times[1] \in Int /\ times[n] \in Int
        BY DEF Lines
      <3>3. 1 \in T /\ n \notin T
        BY <1>4, <3>1, <3>2
      <3>4. T \in SUBSET (0 .. n) /\ T # {}
        BY <3>1, <3>2, <3>3
      <3>5. PICK i \in T : \A x \in T : x <= i
        BY <3>2, <3>4, Greatest
      <3>6. i \in 1 .. n /\ i # n /\ times[i] <= time
        BY <3>1, <3>3, <3>5
      <3>7. i \in 1 .. n - 1 /\ i + 1 \in 1 .. n /\ ~ (i + 1 <= i)
        BY <3>2, <3>6
      <3>8. i + 1 \notin T
        BY <3>5, <3>7
      <3>9. times[i + 1] \in Int
        BY <3>7 DEF Lines
      <3>10. time < times[i + 1]
        BY <3>1, <3>7, <3>8, <3>9
      <3> QED BY <3>6, <3>7, <3>10
    <2>4. k \in 1 .. n - 1 /\ times[k] <= time /\ time < times[k + 1]
      BY <2>1, <2>3, Zenon
    <2> QED BY <2>2, <2>4
  <1> QED BY <1>2, <1>3, <1>4 DEF Placed

\* A value lies between the least and the greatest of the file also where it is sought anew.
LEMMA InterpolatedWithin ==
    ASSUME NEW times, NEW values, NEW n, Lines(times, n), Len(values) = n,
           values \in [1 .. n -> Int],
           NEW lo \in Int, NEW hi \in Int, \A i \in 1 .. n : values[i] \in lo .. hi,
           NEW time \in Int
    PROVE  Interpolated(times, values, time) \in lo .. hi
  <1>1. n \in Nat /\ 1 \in 1 .. n /\ NotAhead(times, 1, time)
    BY DEF Lines, NotAhead
  <1>2. PICK next : next = advanced_index(times, 1, time)
    OBVIOUS
  <1>3. value_at(times, values, next, time) = Interpolated(times, values, time)
    BY <1>1, <1>2, ValueOfFile
  <1>4. next \in 1 .. n /\ (next < n => time < times[next + 1])
    BY <1>1, <1>2, AdvancedIndex
  <1>5. value_at(times, values, next, time) \in lo .. hi
    BY <1>4, ValueWithin
  <1> QED BY <1>3, <1>5

\* The delays fall by s in a time at most, line by line.
Falls(times, values, n, s) ==
    \A i \in 1 .. n - 1 : values[i] - values[i + 1] <= s * (times[i + 1] - times[i])

\* So they do over lines of the same time: there they do not fall.
LEMMA FallsNotAtOnce ==
    ASSUME NEW times, NEW values, NEW n, Lines(times, n), values \in [1 .. n -> Int],
           NEW s \in Nat, Falls(times, values, n, s),
           NEW i \in 1 .. n, NEW j \in i .. n, times[i] = times[j]
    PROVE  values[i] <= values[j]
  <1>1. n \in Nat /\ i \in Nat /\ j \in Nat
    BY DEF Lines
  <1>2. PICK l \in Nat : l = j - i
    BY <1>1
  <1>3. PICK S : S = {x \in 0 .. l : values[i] <= values[i + x]}
    OBVIOUS
  <1>4. 0 \in S
    <2>1. i + 0 = i /\ values[i] \in Int
      BY <1>1
    <2> QED BY <1>2, <1>3, <2>1
  <1>5. ASSUME NEW x \in 1 .. l, x - 1 \in S PROVE x \in S
    <2>1. PICK a \in 1 .. n - 1 : a = i + (x - 1)
      BY <1>1, <1>2
    <2>2. a + 1 = i + x /\ a \in 1 .. n /\ a + 1 \in 1 .. n /\ i <= a /\ a + 1 <= j
      BY <1>1, <1>2, <2>1
    <2>3. PICK v, w, u \in Int : v = values[i] /\ u = values[a] /\ w = values[a + 1]
      BY <2>2
    <2>4. PICK p, q, t \in Int : p = times[a] /\ q = times[a + 1] /\ t = times[i]
      BY <2>2 DEF Lines
    <2>5. t <= p /\ p <= q /\ q <= t
      BY <2>2, <2>4 DEF Lines
    <2>6. u - w <= s * (q - p)
      BY <2>1, <2>3, <2>4 DEF Falls
    <2>7. q - p = 0
      BY <2>5
    <2>8. u <= w
      BY <2>6, <2>7
    <2>9. v <= u
      BY <1>3, <1>5, <2>1, <2>3
    <2>10. values[i] <= values[i + x]
      BY <2>2, <2>3, <2>8, <2>9
    <2> QED BY <1>3, <2>10
  <1>6. \A x \in 0 .. l : x \in S
    BY <1>4, <1>5, StepByStep
  <1>7. l \in 0 .. l /\ i + l = j
    BY <1>1, <1>2
  <1> QED BY <1>3, <1>6, <1>7

\* At the time of a line the value is that of the last line of that time.
LEMMA AtLine ==
    ASSUME NEW times, NEW values, NEW n, Lines(times, n), Len(values) = n,
           values \in [1 .. n -> Int], NEW j \in 1 .. n, NEW time \in Int, times[j] = time
    PROVE  \E m \in j .. n : /\ times[m] = time
                             /\ Interpolated(times, values, time) = values[m]
  <1>1. /\ n \in Nat /\ 1 \in 1 .. n /\ n \in 1 .. n /\ n \in j .. n
        /\ times[1] \in Int /\ times[n] \in Int /\ times[1] <= time /\ time <= times[n]
    BY DEF Lines
  <1>0. Placed(times, values, n, time, Interpolated(times, values, time))
    BY InterpolatedIs, Zenon
  <1>2. CASE time >= times[n]
    <2>1. times[n] = time
      BY <1>1, <1>2
    <2>2. ~ (time < times[1])
      BY <1>1
    <2>3. Interpolated(times, values, time) = values[n]
      BY <1>2, <2>2, <1>0 DEF Placed
    <2> QED BY <1>1, <2>1, <2>3
  <1>3. CASE ~ (time >= times[n])
    <2>1. ~ (time < times[1])
      BY <1>1
    <2>2. PICK k \in 1 .. n - 1 :
             /\ times[k] <= time /\ time < times[k + 1]
             /\ Interpolated(times, values, time) = Between(times, values, k, time)
      BY <1>3, <2>1, <1>0 DEF Placed
    <2>3. k \in 1 .. n /\ k + 1 \in 1 .. n /\ times[k] \in Int /\ times[k + 1] \in Int
      BY <1>1 DEF Lines
    <2>4. j <= k
      <3>1. CASE k + 1 <= j
        <4>1. times[k + 1] <= times[j]
          BY <2>3, <3>1 DEF Lines
        <4> QED BY <2>2, <2>3, <4>1
      <3> QED BY <1>1, <2>3, <3>1
    <2>5. times[j] <= times[k]
      BY <2>3, <2>4 DEF Lines
    <2>6. times[k] = time
      BY <2>2, <2>3, <2>5
    <2>7. PICK a, d, w \in Int : /\ a = values[k] /\ d = values[k + 1] - values[k]
                                 /\ w = times[k + 1] - times[k]
      BY <2>3
    <2>8. w \in Nat \ {0}
      BY <2>2, <2>3, <2>6, <2>7
    <2>9. (d * 0) \div w = 0
      BY <2>8
    <2>10. Between(times, values, k, time) = a + (d * 0) \div w
      <3>1. time - times[k] = 0
        BY <2>6
      <3> QED BY <2>7, <3>1 DEF Between
    <2>11. Interpolated(times, values, time) = values[k] /\ k \in j .. n
      BY <1>1, <2>2, <2>3, <2>4, <2>7, <2>9, <2>10
    <2> QED BY <2>6, <2>11
  <1> QED BY <1>2, <1>3

\* A part of a fall, rounded down, falls by s at most if the part grows by 1.
LEMMA PartFalls ==
    ASSUME NEW d \in Int, NEW u \in Nat, NEW w \in Nat \ {0}, NEW s \in Nat,
           0 - d <= s * w
    PROVE  (d * u) \div w <= (d * (u + 1)) \div w + s
  <1>1. PICK x, y, z \in Int : x = d * u /\ y = d * (u + 1) /\ z = s * w
    OBVIOUS
  <1>2. y = x + d
    BY <1>1
  <1>3. PICK p, q \in Int : p = x \div w /\ q = y \div w
    BY Quotient
  <1>4. p * w <= x /\ y < q * w + w
    BY <1>3, Quotient
  <1>5. p * w < q * w + w + z
    BY <1>1, <1>2, <1>4
  <1>6. q * w + w + z = (q + 1 + s) * w
    BY <1>1
  <1>7. p * w < (q + 1 + s) * w
    BY <1>5, <1>6
  <1>8. p < q + 1 + s
    <2>1. PICK e \in Int : e = q + 1 + s
      OBVIOUS
    <2>2. p >= e => p * w >= e * w
      OBVIOUS
    <2> QED BY <1>7, <2>1, <2>2
  <1> QED BY <1>1, <1>3, <1>8

\* From one time to the next the value falls by s at most.
LEMMA FallsSlowlyAnywhere ==
    ASSUME NEW times, NEW values, NEW n, Lines(times, n), Len(values) = n,
           values \in [1 .. n -> Int], NEW s \in Nat, Falls(times, values, n, s),
           NEW time \in Int,
           NEW x \in Int, x = Interpolated(times, values, time),
           NEW y \in Int, y = Interpolated(times, values, time + 1)
    PROVE  x <= y + s
  <1>1. /\ n \in Nat /\ 1 \in 1 .. n /\ n \in 1 .. n
        /\ times[1] \in Int /\ times[n] \in Int
    BY DEF Lines
  <1>2. PICK after \in Int : after = time + 1
    OBVIOUS
  <1>6. Placed(times, values, n, time, x) /\ Placed(times, values, n, after, y)
    BY <1>2, InterpolatedIs, Zenon
  <1>3. CASE time < times[1]
    <2>1. x = values[1]
      BY <1>3, <1>6 DEF Placed
    <2>2. CASE after < times[1]
      <3>1. y = values[1]
        BY <1>2, <2>2, <1>6 DEF Placed
      <3> QED BY <2>1, <3>1
    <2>3. CASE ~ (after < times[1])
      <3>1. times[1] = after
        BY <1>1, <1>2, <1>3, <2>3
      <3>2. PICK m \in 1 .. n : times[m] = after /\ y = values[m]
        BY <1>1, <1>2, <3>1, AtLine
      <3>3. m \in 1 .. n /\ times[1] = times[m]
        BY <3>1, <3>2
      <3>4. values[1] <= values[m]
        BY <1>1, <3>3, FallsNotAtOnce
      <3> QED BY <2>1, <3>2, <3>4
    <2> QED BY <2>2, <2>3
  <1>4. CASE ~ (time < times[1]) /\ time >= times[n]
    <2>1. x = values[n]
      BY <1>4, <1>6 DEF Placed
    <2>2. ~ (after < times[1]) /\ after >= times[n]
      BY <1>1, <1>2, <1>4
    <2>3. y = values[n]
      BY <1>2, <2>2, <1>6 DEF Placed
    <2> QED BY <2>1, <2>3
  <1>5. CASE ~ (time < times[1]) /\ ~ (time >= times[n])
    <2>1. PICK k \in 1 .. n - 1 : /\ times[k] <= time /\ time < times[k + 1]
                                  /\ x = Between(times, values, k, time)
      BY <1>5, <1>6 DEF Placed
    <2>2. k \in 1 .. n /\ k + 1 \in 1 .. n
      BY <1>1
    <2>3. PICK a, b, t, p \in Int : /\ a = values[k] /\ b = values[k + 1]
                                    /\ t = times[k] /\ p = times[k + 1]
      BY <2>2 DEF Lines
    <2>4. PICK d \in Int : d = b - a
      OBVIOUS
    <2>5. PICK u \in Nat : u = time - t
      <3>1. t <= time
        BY <2>1, <2>3
      <3> QED BY <3>1
    <2>6. PICK w \in Nat \ {0} : w = p - t
      <3>1. t <= time /\ time < p
        BY <2>1, <2>3
      <3> QED BY <3>1
    <2>7. 0 - d <= s * w
      <3>1. a - b <= s * (p - t)
        BY <2>3 DEF Falls
      <3> QED BY <2>4, <2>6, <3>1
    <2>8. PICK q, r \in Int : q = (d * u) \div w /\ r = (d * (u + 1)) \div w
      <3>1. d * u \in Int /\ d * (u + 1) \in Int
        OBVIOUS
      <3> QED BY <3>1, Quotient
    <2>9. q <= r + s
      BY <2>7, <2>8, PartFalls
    <2>10. x = a + q
      BY <2>1, <2>3, <2>4, <2>5, <2>6, <2>8 DEF Between
    <2>11. y >= a + r
      <3>1. CASE after < p
        <4>1. ~ (after < times[1]) /\ ~ (after >= times[n])
          <5>1. p <= times[n]
            BY <1>1, <2>2, <2>3 DEF Lines
          <5> QED BY <1>1, <1>2, <1>5, <3>1, <5>1
        <4>2. PICK m \in 1 .. n - 1 : /\ times[m] <= after /\ after < times[m + 1]
                                      /\ y = Between(times, values, m, after)
          BY <1>2, <4>1, <1>6 DEF Placed
        <4>3. m \in 1 .. n /\ m + 1 \in 1 .. n /\ times[m] \in Int /\ times[m + 1] \in Int
          BY <1>1 DEF Lines
        <4>4. m = k
          <5>1. CASE m + 1 <= k
            <6>1. times[m + 1] <= times[k]
              BY <2>2, <4>3, <5>1 DEF Lines
            <6> QED BY <1>2, <2>1, <2>3, <4>2, <4>3, <6>1
          <5>2. CASE k + 1 <= m
            <6>1. times[k + 1] <= times[m]
              BY <2>2, <4>3, <5>2 DEF Lines
            <6> QED BY <2>3, <3>1, <4>2, <4>3, <6>1
          <5> QED BY <1>1, <2>2, <4>3, <5>1, <5>2
        <4>5. after - t = u + 1
          BY <1>2, <2>5
        <4>6. y = a + r
          BY <2>3, <2>4, <2>6, <2>8, <4>2, <4>4, <4>5 DEF Between
        <4> QED BY <4>6
      <3>2. CASE ~ (after < p)
        <4>1. after = p /\ u + 1 = w
          <5>1. time < p
            BY <2>1, <2>3
          <5> QED BY <1>2, <2>5, <2>6, <3>2, <5>1
        <4>2. times[k + 1] = after
          BY <2>3, <4>1
        <4>3. PICK m \in k + 1 .. n : times[m] = after /\ y = values[m]
          <5>1. y = Interpolated(times, values, after)
            BY <1>2
          <5>2. PICK j \in 1 .. n : j = k + 1
            BY <2>2
          <5>3. times[j] = after
            BY <4>2, <5>2
          <5>4. \E m \in j .. n : times[m] = after /\ Interpolated(times, values, after) = values[m]
            BY <5>3, AtLine
          <5> QED BY <5>1, <5>2, <5>4
        <4>4. values[k + 1] <= values[m]
          <5>1. times[k + 1] = times[m]
            BY <4>2, <4>3
          <5> QED BY <2>2, <5>1, FallsNotAtOnce
        <4>5. b <= y
          BY <2>3, <4>3, <4>4
        <4>6. r = d
          <5>1. PICK z \in Int : z = d * w
            OBVIOUS
          <5>2. z \div w = d
            BY <5>1
          <5> QED BY <2>8, <4>1, <5>1, <5>2
        <4> QED BY <2>4, <4>5, <4>6
      <3> QED BY <3>1, <3>2
    <2> QED BY <2>9, <2>10, <2>11
  <1> QED BY <1>3, <1>4, <1>5

\* The item that a tag goes out with, where the time of an item is its number.
Due(item) ==
    item + Delay!delay_rounded(Interpolated(d_file.times, d_file.values, item))

\* A delay is rounded to items: one that is not negative to no negative number, and one
\* that is less by one sample at most to a number that is less by 1 at most.
LEMMA Rounded ==
    ASSUME NEW x \in Int, NEW y \in Int, x <= y + SubSamples
    PROVE  /\ Delay!delay_rounded(x) \in Int
           /\ x >= 0 => Delay!delay_rounded(x) >= 0
           /\ Delay!delay_rounded(x) <= Delay!delay_rounded(y) + 1
  <1>1. PICK s \in Nat \ {0} : s = SubSamples
    BY FiltersAssumption
  <1>2. PICK w \in Nat \ {0} : w = 2 * s
    OBVIOUS
  <1>3. PICK a, b \in Int : a = 2 * x + s /\ b = 2 * y + s
    OBVIOUS
  <1>4. PICK p, q \in Int : p = a \div w /\ q = b \div w
    BY Quotient
  <1>5. /\ p * w <= a /\ a < p * w + w
        /\ q * w <= b /\ b < q * w + w
    BY <1>4, Quotient
  <1>6. Delay!delay_rounded(x) = p /\ Delay!delay_rounded(y) = q
    BY <1>1, <1>2, <1>3, <1>4 DEF Delay!delay_rounded
  <1>7. x >= 0 => p >= 0
    <2>1. p <= -1 => p * w + w <= 0
      OBVIOUS
    <2>2. x >= 0 => a > 0
      BY <1>3
    <2>3. p * w \in Int
      OBVIOUS
    <2> QED BY <1>5, <2>1, <2>2, <2>3
  <1>8. p <= q + 1
    <2>1. a <= b + w
      BY <1>1, <1>2, <1>3
    <2>2. PICK e \in Int : e = q + 2
      OBVIOUS
    <2>3. p >= e => p * w >= e * w
      OBVIOUS
    <2>4. e * w = q * w + w + w
      BY <2>2
    <2>5. PICK f, g, h \in Int : f = p * w /\ g = q * w /\ h = e * w
      OBVIOUS
    <2>6. f <= a /\ b < g + w /\ h = g + w + w /\ (p >= e => f >= h)
      BY <1>5, <2>3, <2>4, <2>5
    <2>7. ~ (p >= e)
      BY <2>1, <2>6
    <2> QED BY <2>2, <2>7
  <1> QED BY <1>6, <1>7, <1>8

\* The file of the delay.
FileOfDelay ==
    /\ Lines(d_file.times, Len(d_file.times))
    /\ Len(d_file.values) = Len(d_file.times)
    /\ d_file.values \in [1 .. Len(d_file.times) -> Int]
    /\ LeastDelay

\* No delay is negative.
LEMMA DelaysAreWhole ==
    ASSUME FileOfDelay, NEW time \in Int
    PROVE  /\ Interpolated(d_file.times, d_file.values, time) \in Int
           /\ Interpolated(d_file.times, d_file.values, time) >= 0
  <1>1. PICK times, values, n : times = d_file.times /\ values = d_file.values /\ n = Len(times)
    OBVIOUS
  <1>2. Lines(times, n) /\ Len(values) = n /\ values \in [1 .. n -> Int]
    BY <1>1 DEF FileOfDelay
  <1>3. n \in Nat
    BY <1>2 DEF Lines
  <1>4. PICK hi \in Int : hi = Delay!max_delay /\ \A i \in 1 .. n : values[i] <= hi
    BY <1>1, <1>2, <1>3, LongestDelay
  <1>5. PICK lo \in Nat : lo = d_fir_delay
    BY FiltersAssumption
  <1>6. \A i \in 1 .. n : values[i] \in lo .. hi
    <2>1. \A i \in 1 .. n : values[i] \in Int /\ values[i] <= hi /\ values[i] >= lo
      BY <1>1, <1>2, <1>4, <1>5 DEF FileOfDelay, LeastDelay
    <2> QED BY <2>1
  <1>7. Interpolated(times, values, time) \in lo .. hi
    <2>1. lo \in Int
      OBVIOUS
    <2> QED BY <1>2, <1>6, <2>1, InterpolatedWithin, Zenon
  <1> QED BY <1>1, <1>7

\* Tags go out with no item before their own.
LEMMA DueIsLater ==
    ASSUME FileOfDelay, NEW item \in Int
    PROVE  Due(item) \in Int /\ Due(item) >= item
  <1>1. PICK x \in Int : x = Interpolated(d_file.times, d_file.values, item) /\ x >= 0
    BY DelaysAreWhole
  <1>2. x <= x + SubSamples
    BY FiltersAssumption
  <1>3. PICK r \in Int : r = Delay!delay_rounded(x) /\ r >= 0
    BY <1>1, <1>2, Rounded
  <1>4. Due(item) = item + r
    BY <1>1, <1>3 DEF Due
  <1> QED BY <1>3, <1>4

\* And if delays fall slowly, in the order of their own.
LEMMA DueInOrder ==
    ASSUME FileOfDelay, FallsSlowly, NEW item \in Int, NEW later \in Int, item <= later
    PROVE  Due(item) <= Due(later)
  <1>1. ASSUME NEW i \in Int PROVE Due(i) <= Due(i + 1)
    <2>1. PICK x \in Int : x = Interpolated(d_file.times, d_file.values, i)
      BY DelaysAreWhole
    <2>2. i + 1 \in Int
      OBVIOUS
    <2>3. PICK y \in Int : y = Interpolated(d_file.times, d_file.values, i + 1)
      BY <2>2, DelaysAreWhole
    <2>4. x <= y + SubSamples
      <3>1. PICK times, values, n, s :
               times = d_file.times /\ values = d_file.values /\ n = Len(times) /\ s = SubSamples
        OBVIOUS
      <3>2. /\ Lines(times, n) /\ Len(values) = n /\ values \in [1 .. n -> Int] /\ s \in Nat
        BY <3>1, FiltersAssumption DEF FileOfDelay
      <3>3. Falls(times, values, n, s)
        BY <3>1 DEF Falls, FallsSlowly
      <3>4. x = Interpolated(times, values, i) /\ y = Interpolated(times, values, i + 1)
        BY <2>1, <2>3, <3>1
      <3>5. x <= y + s
        BY <3>2, <3>3, <3>4, FallsSlowlyAnywhere
      <3> QED BY <3>1, <3>5
    <2>5. y <= y + SubSamples
      BY FiltersAssumption
    <2>6. PICK p, q \in Int : p = Delay!delay_rounded(x) /\ q = Delay!delay_rounded(y)
      BY <2>4, <2>5, Rounded
    <2>7. p <= q + 1
      BY <2>4, <2>6, Rounded
    <2>8. Due(i) = i + p /\ Due(i + 1) = (i + 1) + q
      BY <2>1, <2>3, <2>6 DEF Due
    <2> QED BY <2>7, <2>8
  <1>2. PICK l \in Nat : l = later - item
    OBVIOUS
  <1>3. PICK S : S = {x \in 0 .. l : Due(item) <= Due(item + x)}
    OBVIOUS
  <1>4. 0 \in S
    <2>1. item + 0 = item /\ Due(item) \in Int
      BY DueIsLater
    <2> QED BY <1>3, <2>1
  <1>5. ASSUME NEW x \in 1 .. l, x - 1 \in S PROVE x \in S
    <2>1. PICK i \in Int : i = item + (x - 1)
      OBVIOUS
    <2>2. i + 1 = item + x
      BY <2>1
    <2>3. PICK a, b, c \in Int : a = Due(item) /\ b = Due(i) /\ c = Due(i + 1)
      <3>1. i + 1 \in Int
        OBVIOUS
      <3> QED BY <3>1, DueIsLater
    <2>4. a <= b
      BY <1>3, <1>5, <2>1, <2>3
    <2>5. b <= c
      BY <1>1, <2>3
    <2>6. a <= c
      BY <2>4, <2>5
    <2> QED BY <1>3, <2>2, <2>3, <2>6
  <1>6. \A x \in 0 .. l : x \in S
    BY <1>4, <1>5, StepByStep
  <1>7. l \in 0 .. l /\ item + l = later
    BY <1>2
  <1> QED BY <1>3, <1>6, <1>7

------------------------------------------------------------------------------
\* A tag is sought the delay of its time.
LEMMA DelayOfTag ==
    ASSUME FileOfDelay, NEW index \in 1 .. Len(d_file.times), NEW time \in Int
    PROVE  Delay!compute_tag_delay(time, index)
              = Interpolated(d_file.times, d_file.values, time)
  <1>1. PICK times, values, n : times = d_file.times /\ values = d_file.values /\ n = Len(times)
    OBVIOUS
  <1>2. Lines(times, n) /\ Len(values) = n /\ index \in 1 .. n
    BY <1>1 DEF FileOfDelay
  <1>3. PICK i : i = adjust_current_index(times, index, time)
    OBVIOUS
  <1>4. i \in 1 .. n /\ NotAhead(times, i, time)
    BY <1>2, <1>3, AdjustedIndex
  <1>5. PICK m : m = advanced_index(times, i, time)
    OBVIOUS
  <1>6. value_at(times, values, m, time) = Interpolated(times, values, time)
    BY <1>2, <1>4, <1>5, ValueOfFile
  <1>7. Delay!adjust_current_index(times, index, time) = i
    BY <1>3 DEF Delay!adjust_current_index, adjust_current_index, Delay!Max, Max
  <1>8. Delay!advanced_index(times, i, time) = m
    BY <1>5 DEF Delay!advanced_index, advanced_index, Delay!Min, Min
  <1>9. Delay!value_at(times, values, m, time) = value_at(times, values, m, time)
    BY DEF Delay!value_at, value_at
  <1> QED BY <1>1, <1>6, <1>7, <1>8, <1>9 DEF Delay!compute_tag_delay

\* So each tag of a window goes out with the item that is due.
LEMMA TagsAreDue ==
    ASSUME FileOfDelay, NEW k \in Keeper(Len(d_file.times)), k.d_t0 = k.d_sample_t0,
           NEW l \in Nat, NEW tags \in [1 .. l -> Tag], NEW i \in 1 .. l
    PROVE  Delay!delayed_tags(tags, k)[i].offset = Due(tags[i].offset)
  <1>1. PICK tag \in Tag : tag = tags[i]
    OBVIOUS
  <1>2. PICK item \in Int : item = tag.offset
    BY DEF Tag
  <1>3. PICK index \in 1 .. Len(d_file.times) : index = k.d_current_index
    BY DEF Keeper
  <1>4. Delay!compute_time(k.d_t0, k.d_sample_t0, item) = item
    <2>1. PICK t \in Int : t = k.d_t0 /\ t = k.d_sample_t0
      BY DEF Keeper
    <2>2. t + (item - t) = item
      OBVIOUS
    <2> QED BY <2>1, <2>2 DEF Delay!compute_time
  <1>5. Delay!compute_tag_delay(item, index) = Interpolated(d_file.times, d_file.values, item)
    BY DelayOfTag
  <1>6. PICK due : due = Due(item)
    OBVIOUS
  <1>7. item + Delay!delay_rounded(Delay!compute_tag_delay(
                  Delay!compute_time(k.d_t0, k.d_sample_t0, item), index)) = due
    BY <1>4, <1>5, <1>6 DEF Due
  <1>8. Delay!delayed_tags(tags, k)[i] = [tag EXCEPT !.offset = due]
    BY <1>1, <1>2, <1>3, <1>7 DEF Delay!delayed_tags
  <1>9. [tag EXCEPT !.offset = due].offset = due
    BY DEF Tag
  <1> QED BY <1>1, <1>2, <1>6, <1>8, <1>9

\* Tags that tell the time that the block has do not change what it has.
LEMMA ToldAgain ==
    ASSUME NEW times, NEW n, Lines(times, n), NEW keeper \in Keeper(n),
           keeper.d_t0 = keeper.d_sample_t0,
           NEW l \in Nat, NEW tags \in [1 .. l -> Tag],
           \A i \in 1 .. l : tags[i].time # NoTime => tags[i].time = tags[i].offset
    PROVE  LET k == update_time_from_tags(times, keeper, tags) IN k.d_t0 = k.d_sample_t0
  <1>0. Len(tags) = l
    OBVIOUS
  <1>1. PICK after : after = times_from_tags(times, keeper, tags)
    OBVIOUS
  <1>2. \A i \in 1 .. l : tags[i].time \in Int /\ tags[i].offset \in Int
    BY DEF Tag
  <1>3. /\ after[0] = keeper
        /\ \A i \in 1 .. l : after[i] = time_from_tag(times, after[i - 1], tags[i])
    BY <1>0, <1>1, <1>2, TimesFromTags
  <1>4. PICK S : S = {i \in 0 .. l : after[i].d_t0 = after[i].d_sample_t0}
    OBVIOUS
  <1>5. 0 \in S
    BY <1>3, <1>4
  <1>6. ASSUME NEW i \in 1 .. l, i - 1 \in S PROVE i \in S
    <2>1. PICK before, tag : before = after[i - 1] /\ tag = tags[i]
      OBVIOUS
    <2>2. after[i] = time_from_tag(times, before, tag) /\ before.d_t0 = before.d_sample_t0
      BY <1>3, <1>4, <1>6, <2>1
    <2>3. tag.time # NoTime => tag.time = tag.offset
      BY <2>1
    <2>4. after[i].d_t0 = after[i].d_sample_t0
      BY <2>2, <2>3 DEF time_from_tag
    <2> QED BY <1>4, <2>4
  <1>7. \A i \in 0 .. l : i \in S
    BY <1>5, <1>6, StepByStep
  <1>8. l \in 0 .. l /\ update_time_from_tags(times, keeper, tags) = after[l]
    BY <1>0, <1>1 DEF update_time_from_tags
  <1> QED BY <1>4, <1>7, <1>8

------------------------------------------------------------------------------
\* The tags in a queue, and whether they are in the order of their items.
TagsIn(q) == {q[i] : i \in 1 .. Len(q)}

Sorted(q) == \A i, j \in 1 .. Len(q) : i <= j => q[i].offset <= q[j].offset

\* A tag joins a queue.
LEMMA TagBehind ==
    ASSUME NEW q \in Seq(Tag), NEW tag \in Tag
    PROVE  /\ TagsIn(Append(q, tag)) = TagsIn(q) \cup {tag}
           /\ Sorted(q) /\ (\A t \in TagsIn(q) : t.offset <= tag.offset)
                 => Sorted(Append(q, tag))
  <1>1. PICK l \in Nat : l = Len(q)
    OBVIOUS
  <1>2. PICK T, r : T = Tag /\ r = Append(q, tag)
    OBVIOUS
  <1>3. q \in Seq(T) /\ tag \in T /\ l \in Nat
    BY <1>2
  <1>4. /\ Len(r) = l + 1 /\ r[l + 1] = tag
        /\ \A i \in 1 .. l : r[i] = q[i]
    BY <1>1, <1>2, <1>3
  <1>5. \A i \in 1 .. l + 1 : i = l + 1 \/ i \in 1 .. l
    OBVIOUS
  <1>6. TagsIn(r) = TagsIn(q) \cup {tag}
    BY <1>1, <1>4, <1>5 DEF TagsIn
  <1>7. ASSUME Sorted(q), \A t \in TagsIn(q) : t.offset <= tag.offset
        PROVE  Sorted(r)
    <2>1. ASSUME NEW i \in 1 .. l + 1, NEW j \in 1 .. l + 1, i <= j
          PROVE  r[i].offset <= r[j].offset
      <3>1. CASE j \in 1 .. l
        <4>1. i \in 1 .. l
          BY <2>1, <3>1
        <4> QED BY <1>1, <1>4, <1>7, <2>1, <3>1, <4>1 DEF Sorted
      <3>2. CASE j = l + 1 /\ i \in 1 .. l
        <4>1. q[i] \in TagsIn(q)
          BY <1>1, <3>2 DEF TagsIn
        <4> QED BY <1>4, <1>7, <3>2, <4>1
      <3>3. CASE j = l + 1 /\ i = l + 1
        <4>1. tag.offset \in Int
          BY DEF Tag
        <4> QED BY <1>4, <3>3, <4>1
      <3> QED BY <1>5, <3>1, <3>2, <3>3
    <2> QED BY <1>4, <2>1 DEF Sorted
  <1> QED BY <1>2, <1>6, <1>7

\* One queue goes behind another.
LEMMA TagsJoin ==
    ASSUME NEW p \in Seq(Tag), NEW q \in Seq(Tag)
    PROVE  TagsIn(p \o q) \subseteq TagsIn(p) \cup TagsIn(q)
  <1>1. PICK l, n \in Nat : l = Len(p) /\ n = Len(q)
    OBVIOUS
  <1>2. PICK T, r : T = Tag /\ r = p \o q
    OBVIOUS
  <1>3. p \in Seq(T) /\ q \in Seq(T)
    BY <1>2
  <1>4. /\ Len(r) = l + n /\ \A i \in 1 .. l : r[i] = p[i]
        /\ \A i \in l + 1 .. l + n : r[i] = q[i - l]
    BY <1>1, <1>2, <1>3
  <1>5. ASSUME NEW i \in 1 .. l + n PROVE r[i] \in TagsIn(p) \cup TagsIn(q)
    <2>1. CASE i \in 1 .. l
      BY <1>1, <1>4, <2>1 DEF TagsIn
    <2>2. CASE i \in l + 1 .. l + n
      <3>1. i - l \in 1 .. n
        BY <2>2
      <3> QED BY <1>1, <1>4, <2>2, <3>1 DEF TagsIn
    <2> QED BY <2>1, <2>2
  <1> QED BY <1>2, <1>4, <1>5 DEF TagsIn

\* A queue in order is parted where the first tag is that is not due: all that stay are
\* not due either.
LEMMA DueAreParted ==
    ASSUME NEW q \in Seq(Tag), Sorted(q), NEW limit \in Int
    PROVE  LET due == Delay!tags_due(q, limit)
               kept == Delay!tags_kept(q, limit)
           IN  /\ due \in Seq(Tag) /\ kept \in Seq(Tag)
               /\ TagsIn(due) \subseteq TagsIn(q)
               /\ TagsIn(kept) \subseteq TagsIn(q)
               /\ \A tag \in TagsIn(kept) : tag.offset >= limit
               /\ Sorted(kept)
  <1>1. PICK n \in Nat : n = Len(q)
    OBVIOUS
  <1>2. PICK I : I = {i \in 1 .. n : q[i].offset >= limit}
    OBVIOUS
  <1>3. I \in SUBSET Nat
    BY <1>2
  <1>4. PICK first : first = Delay!in_future(q, limit)
    OBVIOUS
  <1>5. first = IF I # {} THEN Min(I) ELSE 0
    BY <1>1, <1>2, <1>4 DEF Delay!in_future, Delay!SelectInSeq, Delay!Min, Min
  <1>6. \/ I = {} /\ first = 0
        \/ first \in I /\ first \in 1 .. n /\ q[first].offset >= limit
    BY <1>2, <1>3, <1>5, LeastIsMin
  <1>7. PICK k \in 0 .. n : k = IF first = 0 THEN n ELSE first - 1
    BY <1>6
  <1>8. PICK due, kept : due = SubSeq(q, 1, k) /\ kept = SubSeq(q, k + 1, n)
    OBVIOUS
  <1>9. Delay!tags_due(q, limit) = due
    BY <1>1, <1>4, <1>7, <1>8 DEF Delay!tags_due
  <1>10. PICK T : T = Tag
    OBVIOUS
  <1>11. q \in Seq(T)
    BY <1>10
  <1>12. due \in Seq(T) /\ Len(due) = k /\ \A i \in 1 .. k : due[i] = q[i]
    BY <1>1, <1>8, <1>11
  <1>13. Delay!tags_kept(q, limit) = kept
    BY <1>1, <1>8, <1>9, <1>12 DEF Delay!tags_kept
  <1>14. PICK m \in Nat : m = n - k
    OBVIOUS
  <1>15. kept \in Seq(T) /\ Len(kept) = m /\ \A i \in 1 .. m : kept[i] = q[k + i]
    <2>1. kept \in Seq(T) /\ Len(kept) = m
      BY <1>1, <1>8, <1>11, <1>14
    <2>2. \A i \in 1 .. m : kept[i] = q[k + i]
      BY <1>1, <1>8, <1>11, <1>14
    <2> QED BY <2>1, <2>2
  <1>16. \A i \in 1 .. m : k + i \in 1 .. n
    BY <1>14
  <1>17. TagsIn(due) \subseteq TagsIn(q)
    <2>1. \A i \in 1 .. k : i \in 1 .. n
      OBVIOUS
    <2> QED BY <1>1, <1>12, <2>1 DEF TagsIn
  <1>18. TagsIn(kept) \subseteq TagsIn(q)
    BY <1>1, <1>15, <1>16 DEF TagsIn
  <1>19. ASSUME NEW i \in 1 .. m PROVE kept[i].offset >= limit
    <2>1. first # 0 /\ first \in 1 .. n /\ q[first].offset >= limit
      BY <1>6, <1>7, <1>14
    <2>2. k = first - 1
      BY <1>7, <2>1
    <2>3. PICK j \in 1 .. n : j = k + i
      BY <1>16
    <2>4. first <= j
      BY <2>1, <2>2, <2>3
    <2>5. q[first].offset <= q[j].offset
      BY <1>1, <2>1, <2>4 DEF Sorted
    <2>6. q[first].offset \in Int /\ q[j].offset \in Int
      <3>1. PICK t, u \in Tag : t = q[first] /\ u = q[j]
        BY <1>1, <2>1
      <3>2. t.offset \in Int /\ u.offset \in Int
        BY DEF Tag
      <3> QED BY <3>1, <3>2
    <2>7. q[j].offset >= limit
      BY <2>1, <2>5, <2>6
    <2> QED BY <1>15, <2>3, <2>7
  <1>20. \A tag \in TagsIn(kept) : tag.offset >= limit
    BY <1>15, <1>19 DEF TagsIn
  <1>21. Sorted(kept)
    <2>1. ASSUME NEW i \in 1 .. m, NEW j \in 1 .. m, i <= j
          PROVE  kept[i].offset <= kept[j].offset
      <3>1. PICK a, b \in 1 .. n : a = k + i /\ b = k + j
        BY <1>16
      <3>2. a <= b
        BY <2>1, <3>1
      <3>3. q[a].offset <= q[b].offset
        BY <1>1, <3>2 DEF Sorted
      <3> QED BY <1>15, <3>1, <3>3
    <2> QED BY <1>15, <2>1 DEF Sorted
  <1> QED BY <1>9, <1>10, <1>12, <1>13, <1>15, <1>17, <1>18, <1>20, <1>21

\* The queue of the delay: in order, none for an item that was produced, and none later
\* than the next item is due.
Waiting(future, next) ==
    /\ Sorted(future)
    /\ \A tag \in TagsIn(future) : tag.offset >= next /\ tag.offset <= Due(next)

\* The tags of a window go out or wait behind the queue, and no tag goes out with an item
\* before the window.
LEMMA WindowIsQueued ==
    ASSUME FileOfDelay, FallsSlowly, item_tags \in Seq(Tag), d_future_tags \in Seq(Tag),
           NEW first \in Int, NEW limit \in Int, first <= limit,
           Waiting(d_future_tags, first),
           NEW l \in Nat, NEW tags \in [1 .. l -> Tag], NEW item \in [1 .. l -> Int],
           \A i \in 1 .. l : /\ tags[i].offset = Due(item[i])
                             /\ first <= item[i] /\ item[i] < limit,
           \A i, j \in 1 .. l : i <= j => item[i] <= item[j],
           Delay!propagate(tags, limit)
    PROVE  /\ Waiting(d_future_tags', limit)
           /\ \A tag \in TagsIn(item_tags') : tag \in TagsIn(item_tags) \/ tag.offset >= first
  <1>1. PICK after : after = Delay!placed(tags, limit)
    OBVIOUS
  <1>2. /\ after \in [0 .. l -> Queues]
        /\ after[0] = [out |-> item_tags, future |-> d_future_tags]
        /\ \A i \in 1 .. l : after[i] = Put(after[i - 1], tags[i], limit)
    BY <1>1, PlacedTags
  <1> DEFINE Later(i, x) == first <= x /\ \A j \in 1 .. i : item[j] <= x
             OutSoFar(out) ==
                \A tag \in TagsIn(out) : tag \in TagsIn(item_tags) \/ tag.offset >= first
             Behind(future, i) ==
                /\ Sorted(future)
                /\ \A tag \in TagsIn(future) : tag.offset >= first
                /\ \A x \in Int : Later(i, x) => \A tag \in TagsIn(future) : tag.offset <= Due(x)
  <1>3. PICK S : S = {i \in 0 .. l : OutSoFar(after[i].out) /\ Behind(after[i].future, i)}
    OBVIOUS
  <1>4. 0 \in S
    <2>1. after[0].out = item_tags /\ after[0].future = d_future_tags
      BY <1>2
    <2>2. ASSUME NEW x \in Int, Later(0, x), NEW tag \in TagsIn(d_future_tags)
          PROVE  tag.offset <= Due(x)
      <3>1. Due(first) <= Due(x)
        BY <2>2, DueInOrder
      <3>2. tag.offset <= Due(first)
        BY DEF Waiting
      <3>3. PICK t \in Tag : t = tag
        BY DEF TagsIn
      <3>4. t.offset \in Int
        BY DEF Tag
      <3>5. Due(first) \in Int /\ Due(x) \in Int
        BY DueIsLater
      <3> QED BY <3>1, <3>2, <3>3, <3>4, <3>5
    <2>3. Behind(d_future_tags, 0)
      BY <2>2 DEF Waiting
    <2>4. OutSoFar(item_tags)
      OBVIOUS
    <2> QED BY <1>3, <2>1, <2>3, <2>4
  <1>5. ASSUME NEW i \in 1 .. l, i - 1 \in S PROVE i \in S
    <2>1. PICK out, future \in Seq(Tag) :
             out = after[i - 1].out /\ future = after[i - 1].future
      <3>1. i - 1 \in 0 .. l
        OBVIOUS
      <3>2. after[i - 1] \in Queues
        BY <1>2, <3>1
      <3> QED BY <3>2 DEF Queues
    <2>2. PICK tag \in Tag : tag = tags[i]
      OBVIOUS
    <2>3. PICK at \in Int : at = item[i]
      OBVIOUS
    <2>4. tag.offset = Due(at) /\ first <= at /\ Due(at) \in Int /\ Due(at) >= first
      <3>1. tag.offset = Due(at) /\ first <= at
        BY <2>2, <2>3
      <3>2. Due(at) \in Int /\ Due(at) >= at
        BY DueIsLater
      <3> QED BY <3>1, <3>2
    <2>5. OutSoFar(out) /\ Behind(future, i - 1)
      BY <1>3, <1>5, <2>1
    <2>6. after[i] = Put(after[i - 1], tag, limit)
      BY <1>2, <2>2
    <2>7. \A j \in 1 .. i - 1 : j \in 1 .. l /\ j \in 1 .. i /\ j <= i
      OBVIOUS
    <2>8. \A x \in Int : Later(i, x) => Later(i - 1, x) /\ at <= x
      <3>1. i \in 1 .. i
        OBVIOUS
      <3> QED BY <2>3, <2>7, <3>1
    <2>9. Later(i - 1, at)
      <3>1. \A j \in 1 .. i - 1 : item[j] <= item[i]
        BY <2>7
      <3> QED BY <2>3, <2>4, <3>1
    <2>10. Behind(future, i)
      <3>1. \A x \in Int : Later(i, x) => \A t \in TagsIn(future) : t.offset <= Due(x)
        BY <2>5, <2>8
      <3> QED BY <2>5, <3>1
    <2>11. CASE tag.offset < limit
      <3>1. after[i].out = Append(out, tag) /\ after[i].future = future
        BY <1>2, <2>1, <2>6, <2>11 DEF Put, Queues
      <3>2. TagsIn(Append(out, tag)) = TagsIn(out) \cup {tag}
        BY TagBehind
      <3>3. OutSoFar(Append(out, tag))
        BY <2>4, <2>5, <3>2
      <3> HIDE DEF OutSoFar, Behind
      <3>8. OutSoFar(after[i].out) /\ Behind(after[i].future, i)
        BY <3>1, <3>3, <2>10, Zenon
      <3>9. i \in 0 .. l
        OBVIOUS
      <3> QED BY <1>3, <3>8, <3>9
    <2>12. CASE ~ (tag.offset < limit)
      <3>1. after[i].out = out /\ after[i].future = Append(future, tag)
        BY <1>2, <2>1, <2>6, <2>12 DEF Put, Queues
      <3>2. TagsIn(Append(future, tag)) = TagsIn(future) \cup {tag}
        BY TagBehind
      <3>3. Sorted(Append(future, tag))
        <4>1. \A t \in TagsIn(future) : t.offset <= tag.offset
          BY <2>4, <2>5, <2>9
        <4> QED BY <2>5, <4>1, TagBehind
      <3>4. \A t \in TagsIn(Append(future, tag)) : t.offset >= first
        BY <2>4, <2>5, <3>2
      <3>5. ASSUME NEW x \in Int, Later(i, x), NEW t \in TagsIn(Append(future, tag))
            PROVE  t.offset <= Due(x)
        <4>1. CASE t \in TagsIn(future)
          BY <2>10, <3>5, <4>1
        <4>2. CASE t = tag
          <5>1. at <= x
            BY <2>8, <3>5
          <5>2. Due(at) <= Due(x)
            BY <5>1, DueInOrder
          <5> QED BY <2>4, <4>2, <5>2
        <4> QED BY <3>2, <3>5, <4>1, <4>2
      <3>6. Behind(Append(future, tag), i)
        BY <3>3, <3>4, <3>5
      <3> HIDE DEF OutSoFar, Behind
      <3>8. OutSoFar(after[i].out) /\ Behind(after[i].future, i)
        BY <3>1, <2>5, <3>6, Zenon
      <3>9. i \in 0 .. l
        OBVIOUS
      <3> QED BY <1>3, <3>8, <3>9
    <2> QED BY <2>11, <2>12
  <1>6. \A i \in 0 .. l : i \in S
    <2> HIDE DEF OutSoFar, Behind
    <2> QED BY <1>4, <1>5, StepByStep
  <1>7. PICK out, future \in Seq(Tag) : out = after[l].out /\ future = after[l].future
    <2>1. l \in 0 .. l
      OBVIOUS
    <2> QED BY <1>2, <2>1 DEF Queues
  <1>8. OutSoFar(out) /\ Behind(future, l)
    <2>1. l \in 0 .. l
      OBVIOUS
    <2> HIDE DEF OutSoFar, Behind
    <2> QED BY <1>3, <1>6, <1>7, <2>1
  <1>9. PICK due, kept : /\ due = Delay!tags_due(future, limit)
                         /\ kept = Delay!tags_kept(future, limit)
    OBVIOUS
  <1>10. /\ due \in Seq(Tag) /\ kept \in Seq(Tag)
         /\ TagsIn(due) \subseteq TagsIn(future)
         /\ TagsIn(kept) \subseteq TagsIn(future)
         /\ \A tag \in TagsIn(kept) : tag.offset >= limit
         /\ Sorted(kept)
    BY <1>8, <1>9, DueAreParted
  <1>11. item_tags' = out \o due /\ d_future_tags' = kept
    <2>1. Len(tags) = l
      OBVIOUS
    <2> QED BY <1>1, <1>7, <1>9, <2>1 DEF Delay!propagate
  <1>12. Later(l, limit)
    <2>1. ASSUME NEW j \in 1 .. l PROVE item[j] <= limit
      <3>1. item[j] < limit /\ item[j] \in Int
        OBVIOUS
      <3> QED BY <3>1
    <2> QED BY <2>1
  <1>13. Waiting(kept, limit)
    BY <1>8, <1>10, <1>12 DEF Waiting
  <1>14. OutSoFar(out \o due)
    <2>1. TagsIn(out \o due) \subseteq TagsIn(out) \cup TagsIn(due)
      BY <1>10, TagsJoin
    <2> QED BY <1>8, <1>10, <2>1
  <1>15. Waiting(d_future_tags', limit)
    BY <1>11, <1>13
  <1> QED BY <1>11, <1>14, <1>15

\* The source attaches tags to items of the window, in order.
LEMMA TagsOfItems ==
    ASSUME tag_count \in Nat, delay_written \in Nat, NEW n \in Nat, NEW tags \in Windows(n),
           NEW l \in Nat, tags \in [1 .. l -> Tag]
    PROVE  /\ \A i \in 1 .. l : /\ delay_written <= tags[i].offset
                                /\ tags[i].offset < delay_written + n
           /\ \A i, j \in 1 .. l : i <= j => tags[i].offset <= tags[j].offset
  <1>1. PICK m \in UNION {MarksOf(n, c) : c \in 0 .. MaxTags - tag_count} :
           tags = [i \in DOMAIN m |-> [id |-> tag_count + i,
                                       offset |-> delay_written + m[i].item,
                                       time |-> m[i].time]]
    BY Zenon DEF Windows, MarksOf
  <1>2. PICK c \in 0 .. MaxTags - tag_count : m \in MarksOf(n, c)
    OBVIOUS
  <1>3. /\ m \in [1 .. c -> [item : 0 .. n - 1, time : Times \cup {NoTime}]]
        /\ \A i, j \in 1 .. c : i < j => m[i].item < m[j].item
    BY <1>2 DEF MarksOf
  <1>4. DOMAIN tags = 1 .. c /\ DOMAIN tags = 1 .. l
    <2>1. DOMAIN m = 1 .. c
      BY <1>3
    <2> QED BY <1>1, <2>1
  <1>5. PICK first \in Nat : first = delay_written
    OBVIOUS
  <1>6. ASSUME NEW i \in 1 .. l
        PROVE  /\ i \in 1 .. c /\ m[i].item \in 0 .. n - 1
               /\ tags[i].offset = first + m[i].item
    <2>1. i \in 1 .. c
      BY <1>4
    <2>2. m[i] \in [item : 0 .. n - 1, time : Times \cup {NoTime}]
      BY <1>3, <2>1
    <2>3. m[i].item \in 0 .. n - 1
      BY <2>2
    <2>4. tags[i] = [id |-> tag_count + i, offset |-> delay_written + m[i].item,
                     time |-> m[i].time]
      BY <1>1, <1>3, <2>1
    <2> QED BY <1>5, <2>1, <2>3, <2>4
  <1>7. ASSUME NEW i \in 1 .. l
        PROVE  first <= tags[i].offset /\ tags[i].offset < first + n
    <2>1. PICK item \in 0 .. n - 1 : item = m[i].item /\ tags[i].offset = first + item
      BY <1>6
    <2>2. first <= first + item /\ first + item < first + n
      OBVIOUS
    <2> QED BY <2>1, <2>2
  <1>8. ASSUME NEW i \in 1 .. l, NEW j \in 1 .. l, i <= j
        PROVE  tags[i].offset <= tags[j].offset
    <2>1. PICK a, b \in 0 .. n - 1 : /\ a = m[i].item /\ tags[i].offset = first + a
                                     /\ b = m[j].item /\ tags[j].offset = first + b
      BY <1>6
    <2>2. i = j => a = b
      BY <2>1
    <2>3. i < j => a < b
      BY <1>3, <1>6, <2>1
    <2>4. i = j \/ i < j
      BY <1>8
    <2>5. a <= b
      BY <2>2, <2>3, <2>4
    <2>6. first + a <= first + b
      BY <2>5
    <2> QED BY <2>1, <2>6
  <1> QED BY <1>5, <1>7, <1>8

\* The window of the second block has each of the tags that are out for its items.
LEMMA WindowHasTags ==
    ASSUME item_tags \in Seq(Tag), NEW n, NEW tags \in Window(n),
           NEW i \in 1 .. Len(item_tags),
           item_tags[i].offset \in doppler_written .. (doppler_written + n) - 1
    PROVE  \E k \in DOMAIN tags : tags[k].id = item_tags[i].id
  <1>1. PICK q, len : q = item_tags /\ len = Len(q)
    OBVIOUS
  <1>2. len \in Nat /\ DOMAIN q = 1 .. len /\ \A j \in 1 .. len : q[j].offset \in Int
    <2>1. PICK T : T = Tag
      OBVIOUS
    <2>2. q \in Seq(T)
      BY <1>1, <2>1
    <2>3. len \in Nat /\ DOMAIN q = 1 .. len /\ \A j \in 1 .. len : q[j] \in T
      BY <1>1, <2>2
    <2>4. \A t \in T : t.offset \in Int
      BY <2>1 DEF Tag
    <2> QED BY <2>3, <2>4
  <1>3. PICK here : here = {j \in DOMAIN q :
                        q[j].offset \in doppler_written .. (doppler_written + n) - 1}
    OBVIOUS
  <1>4. PICK c : c = Cardinality(here)
    OBVIOUS
  <1> DEFINE Before(j, k) == \/ q[j].offset < q[k].offset
                             \/ q[j].offset = q[k].offset /\ j < k
  <1>5. PICK order \in [1 .. c -> here] :
           /\ \A k, j \in DOMAIN order : k < j => Before(order[k], order[j])
           /\ tags = [k \in DOMAIN order |-> q[order[k]]]
    BY <1>1, <1>3, <1>4 DEF Window
  <1>6. here \subseteq 1 .. len
    BY <1>2, <1>3
  <1>7. IsFiniteSet(here) /\ c \in Nat
    <2>1. IsFiniteSet(1 .. len)
      BY <1>2, FS_Interval
    <2>2. IsFiniteSet(here)
      BY <1>6, <2>1, FS_Subset
    <2> QED BY <1>4, <2>2, FS_CardinalityType
  <1>8. ASSUME NEW k \in 1 .. c, NEW j \in 1 .. c, k < j PROVE order[k] # order[j]
    <2>1. Before(order[k], order[j])
      BY <1>5, <1>8
    <2>2. PICK a \in 1 .. len : a = order[k]
      BY <1>5, <1>6
    <2>3. q[a].offset \in Int
      BY <1>2
    <2>4. ~ Before(a, a)
      BY <2>3
    <2> QED BY <2>1, <2>2, <2>4
  <1>9. order \in Injection(1 .. c, here)
    <2>1. ASSUME NEW k \in 1 .. c, NEW j \in 1 .. c, order[k] = order[j] PROVE k = j
      <3>1. k < j \/ j < k \/ k = j
        BY <1>7
      <3> QED BY <1>8, <2>1, <3>1
    <2>2. DOMAIN order = 1 .. c
      BY <1>5
    <2> QED BY <2>1, <2>2 DEF Injection, IsInjective
  <1>10. order \in Surjection(1 .. c, here)
    <2>1. Cardinality(1 .. c) = c
      <3>1. Cardinality(1 .. c) = IF 1 > c THEN 0 ELSE c - 1 + 1
        BY <1>7, FS_Interval
      <3> QED BY <1>7, <3>1
    <2> QED BY <1>4, <1>7, <1>9, <2>1, FS_Injection
  <1>11. i \in here
    BY <1>1, <1>2, <1>3
  <1>12. PICK k \in 1 .. c : order[k] = i
    BY <1>10, <1>11 DEF Surjection
  <1>13. k \in DOMAIN tags /\ tags[k] = q[i]
    BY <1>5, <1>12
  <1> QED BY <1>1, <1>13

------------------------------------------------------------------------------
\* While the delay has the time that it was told, its queue is in order and the second block
\* has seen the tags of all its items.
Punctual ==
    /\ delay_keeper.d_t0 = delay_keeper.d_sample_t0
    /\ Waiting(d_future_tags, delay_written + delay_produced)
    /\ \A tag \in TagsIn(item_tags) :
          tag.offset < doppler_written + doppler_produced => tag.id \in seen

\* The inductive invariant: the second block takes only items that were counted, and no tag
\* is overtaken by its item, nor by a later tag.
NoneOvertakes ==
    /\ jumped \in BOOLEAN
    /\ doppler_written + doppler_produced <= delay_written
    /\ ~ jumped /\ FallsSlowly => Punctual

\* At first no tag is there.
LEMMA NoneAtFirst == Init => NoneOvertakes
  <1> SUFFICES ASSUME Init PROVE NoneOvertakes
    OBVIOUS
  <1>1. /\ jumped = FALSE /\ doppler_written = 0 /\ doppler_produced = 0 /\ delay_written = 0
        /\ item_tags = <<>> /\ d_future_tags = <<>>
        /\ delay_keeper = [d_t0 |-> 0, d_sample_t0 |-> 0, d_current_index |-> 1]
    BY DEF Init, Delay!DelayInit, Doppler!DopplerInit
  <1>2. Punctual
    BY <1>1 DEF Punctual, Waiting, Sorted, TagsIn
  <1>3. jumped \in BOOLEAN
    BY <1>1, Zenon
  <1>4. doppler_written + doppler_produced <= delay_written
    <2>1. doppler_written = 0 /\ doppler_produced = 0 /\ delay_written = 0
      BY <1>1, Zenon
    <2> QED BY <2>1
  <1> QED BY <1>2, <1>3, <1>4 DEF NoneOvertakes

\* A call of the delay: tags go out in time.
LEMMA DelayIsPunctual ==
    ASSUME IndexBehindTime, doppler_written + doppler_produced <= delay_written,
           FallsSlowly, Punctual,
           NEW n \in Nat \ {0}, NEW tags \in Windows(n), Delay!work(n, tags),
           \A i \in DOMAIN tags :
              tags[i].time # NoTime => ~ Disagrees(tags[i].time, tags[i].offset),
           UNCHANGED dopplerVars
    PROVE  Punctual'
  <1>0. n \in Nat /\ tag_count \in Nat /\ delay_written \in Nat
    BY DEF IndexBehindTime, Counted
  <1>1. PICK l \in Nat : /\ tags \in [1 .. l -> Tag] /\ Len(tags) = l
                         /\ \A i \in 1 .. l : tags[i].id = tag_count + i
    BY <1>0, TagsOfSource
  <1>2. PICK f, first, k : /\ f = d_file /\ first = delay_written
                           /\ k = update_time_from_tags(f.times, delay_keeper, tags)
    OBVIOUS
  <1>3. Delay!update_time_from_tags(f.times, delay_keeper, tags) = k
    BY <1>2, DelayKeepsTime
  <1>4. PICK after : after = keeper_after(f.times, k, first, n)
    OBVIOUS
  <1>5. Delay!keeper_after(f.times, k, first, n) = after
    BY <1>4, DelayKeepsTime
  <1>6. /\ Delay!propagate(Delay!delayed_tags(tags, after), first + n)
        /\ delay_keeper' = after /\ d_file' = d_file /\ delay_written' = delay_written
        /\ delay_produced = 0 /\ delay_produced' = n
    BY <1>2, <1>3, <1>5 DEF Delay!work
  <1>7. after \in Keeper(Len(d_file.times))
    BY <1>1, <1>6, DelayKeeps DEF Told
  <1>8. PICK next : Told(d_file, delay_keeper, next)
    BY DEF IndexBehindTime
  <1>9. FileOfDelay /\ delay_keeper \in Keeper(Len(d_file.times))
    BY <1>8 DEF FileOfDelay, Told, IndexBehindTime
  <1>10. \A i \in 1 .. l : tags[i].time # NoTime => tags[i].time = tags[i].offset
    <2>1. PICK t \in Int : t = delay_keeper.d_t0 /\ t = delay_keeper.d_sample_t0
      BY <1>9 DEF Punctual, Keeper
    <2>2. ASSUME NEW i \in 1 .. l, tags[i].time # NoTime PROVE tags[i].time = tags[i].offset
      <3>1. PICK tag \in Tag : tag = tags[i]
        BY <1>1
      <3>2. PICK o \in Int : o = tag.offset
        BY DEF Tag
      <3>3. i \in DOMAIN tags
        BY <1>1
      <3>4. ~ Disagrees(tag.time, o)
        BY <2>2, <3>1, <3>2, <3>3
      <3>5. t + (o - t) = o
        OBVIOUS
      <3>6. tag.time = o
        BY <2>1, <3>4, <3>5 DEF Disagrees, compute_time
      <3> QED BY <3>1, <3>2, <3>6
    <2> QED BY <2>2
  <1>11. after.d_t0 = after.d_sample_t0
    <2>1. k.d_t0 = k.d_sample_t0 /\ k \in Keeper(Len(d_file.times))
      <3>1. PICK m : m = Len(d_file.times)
        OBVIOUS
      <3>2. Lines(d_file.times, m) /\ delay_keeper \in Keeper(m)
        BY <1>9, <3>1 DEF FileOfDelay
      <3>3. \A i \in 1 .. l : tags[i].time \in Int /\ tags[i].offset \in Int
        BY <1>1 DEF Tag
      <3>4. k \in Keeper(m)
        BY <1>1, <1>2, <3>2, <3>3, UpdatedTimes
      <3>5. k.d_t0 = k.d_sample_t0
        BY <1>1, <1>2, <1>10, <3>2, ToldAgain DEF Punctual
      <3> QED BY <3>1, <3>4, <3>5
    <2> QED BY <1>4, <2>1 DEF keeper_after, Keeper
  <1>12. PICK delayed : delayed = Delay!delayed_tags(tags, after)
    OBVIOUS
  <1>13. delayed \in [1 .. l -> Tag]
    BY <1>1, <1>7, <1>8, <1>12, DelayedTags
  <1>14. \A i \in 1 .. l : delayed[i].offset = Due(tags[i].offset)
    BY <1>1, <1>7, <1>9, <1>11, <1>12, TagsAreDue
  <1>15. PICK at, limit \in Nat : at = delay_written /\ limit = at + n /\ at <= limit
    BY <1>0
  <1>16. PICK item \in [1 .. l -> Int] : \A i \in 1 .. l : item[i] = tags[i].offset
    <2>1. PICK g : g = [i \in 1 .. l |-> tags[i].offset]
      OBVIOUS
    <2>2. \A i \in 1 .. l : tags[i].offset \in Int
      BY <1>1 DEF Tag
    <2> QED BY <2>1, <2>2
  <1>17. /\ \A i \in 1 .. l : /\ delayed[i].offset = Due(item[i])
                              /\ at <= item[i] /\ item[i] < limit
         /\ \A i, j \in 1 .. l : i <= j => item[i] <= item[j]
    <2>1. /\ \A i \in 1 .. l : at <= tags[i].offset /\ tags[i].offset < limit
          /\ \A i, j \in 1 .. l : i <= j => tags[i].offset <= tags[j].offset
      BY <1>0, <1>1, <1>15, TagsOfItems
    <2> QED BY <1>14, <1>16, <2>1
  <1>18. Delay!propagate(delayed, limit)
    BY <1>2, <1>6, <1>12, <1>15
  <1>19. item_tags \in Seq(Tag) /\ d_future_tags \in Seq(Tag)
    BY DEF IndexBehindTime, TagsKept
  <1>20. Waiting(d_future_tags, at)
    <2>1. delay_written + delay_produced = at
      BY <1>6, <1>15
    <2> QED BY <2>1 DEF Punctual
  <1>21. /\ Waiting(d_future_tags', limit)
         /\ \A tag \in TagsIn(item_tags') : tag \in TagsIn(item_tags) \/ tag.offset >= at
    <2>1. at \in Int /\ limit \in Int /\ at <= limit
      BY <1>15
    <2> QED BY <1>9, <1>13, <1>16, <1>17, <1>18, <1>19, <1>20, <2>1, WindowIsQueued, Zenon
  <1>22. Waiting(d_future_tags, delay_written + delay_produced)'
    <2>1. delay_written' + delay_produced' = limit
      BY <1>6, <1>15
    <2> QED BY <1>6, <1>21, <2>1 DEF Waiting, Due, Delay!delay_rounded
  <1>23. ASSUME NEW tag \in TagsIn(item_tags'),
                tag.offset < doppler_written + doppler_produced
         PROVE  tag.id \in seen
    <2>1. CASE tag \in TagsIn(item_tags)
      BY <1>23, <2>1 DEF Punctual
    <2>2. CASE tag.offset >= at
      <3>1. PICK d \in Int : d = doppler_written + doppler_produced /\ d <= at
        BY <1>15 DEF IndexBehindTime, Counted
      <3>2. item_tags' \in Seq(Tag)
        BY <1>1, DelayKeepsTags
      <3>3. tag.offset \in Int
        <4>1. PICK T, q : T = Tag /\ q = item_tags'
          OBVIOUS
        <4>2. q \in Seq(T)
          BY <3>2, <4>1
        <4>3. tag \in T
          BY <4>1, <4>2 DEF TagsIn
        <4> QED BY <4>1, <4>3 DEF Tag
      <3> QED BY <1>23, <2>2, <3>1, <3>3
    <2> QED BY <1>21, <2>1, <2>2
  <1>24. /\ doppler_written' = doppler_written /\ doppler_produced' = doppler_produced
         /\ seen' = seen
    BY DEF dopplerVars
  <1> QED BY <1>6, <1>11, <1>22, <1>23, <1>24 DEF Punctual

\* A call of the second block: it sees the tags of its items.
LEMMA WindowIsSeen ==
    ASSUME IndexBehindTime, NEW n \in Nat \ {0}, NEW tags \in Window(n),
           seen' = seen \cup {tags[i].id : i \in DOMAIN tags},
           \A tag \in TagsIn(item_tags) : tag.offset < doppler_written => tag.id \in seen,
           NEW tag \in TagsIn(item_tags), tag.offset < doppler_written + n
    PROVE  tag.id \in seen'
  <1>1. PICK i \in 1 .. Len(item_tags) : tag = item_tags[i]
    BY DEF TagsIn
  <1>2. item_tags \in Seq(Tag)
    BY DEF IndexBehindTime, TagsKept
  <1>3. PICK item \in Int : item = tag.offset
    <2>1. PICK T, q : T = Tag /\ q = item_tags
      OBVIOUS
    <2>2. q \in Seq(T)
      BY <1>2, <2>1
    <2>3. tag \in T
      BY <1>1, <2>1, <2>2
    <2> QED BY <2>1, <2>3 DEF Tag
  <1>4. PICK first \in Nat : first = doppler_written
    BY DEF IndexBehindTime, Counted
  <1>5. CASE item < first
    BY <1>3, <1>4, <1>5
  <1>6. CASE ~ (item < first)
    <2>1. item \in first .. (first + n) - 1
      BY <1>3, <1>4, <1>6
    <2>2. item_tags[i].offset \in doppler_written .. (doppler_written + n) - 1
      BY <1>1, <1>3, <1>4, <2>1
    <2>3. \E k \in DOMAIN tags : tags[k].id = item_tags[i].id
      BY <1>2, <2>2, WindowHasTags
    <2> QED BY <1>1, <2>3
  <1> QED BY <1>5, <1>6

\* No step lets a tag be overtaken.
LEMMA StepIsPunctual == IndexBehindTime /\ NoneOvertakes /\ [Next]_vars => NoneOvertakes'
  <1> SUFFICES ASSUME IndexBehindTime, NoneOvertakes, [Next]_vars PROVE NoneOvertakes'
    OBVIOUS
  <1> USE DEF NoneOvertakes
  <1>1. ASSUME NEW n \in 1 .. MaxItems, DelayWork(n) PROVE NoneOvertakes'
    <2>1. PICK tags \in Windows(n) :
             /\ Delay!work(n, tags)
             /\ jumped' = (jumped \/ \E i \in DOMAIN tags :
                                      /\ tags[i].time # NoTime
                                      /\ Disagrees(tags[i].time, tags[i].offset))
      BY <1>1 DEF DelayWork
    <2>2. UNCHANGED dopplerVars
      BY <1>1 DEF DelayWork
    <2>3. n \in Nat \ {0}
      BY BoundsAssumption
    <2>4. /\ doppler_written' = doppler_written /\ doppler_produced' = doppler_produced
          /\ delay_written' = delay_written /\ d_file' = d_file
      BY <2>1, <2>2 DEF dopplerVars, Delay!work
    <2>5. jumped' \in BOOLEAN
      BY <2>1, Zenon
    <2>6. ~ jumped' => ~ jumped /\ \A i \in DOMAIN tags :
             tags[i].time # NoTime => ~ Disagrees(tags[i].time, tags[i].offset)
      BY <2>1, Zenon
    <2>7. FallsSlowly' <=> FallsSlowly
      BY <2>4 DEF FallsSlowly
    <2>8. ASSUME ~ jumped', FallsSlowly PROVE Punctual'
      <3>1. /\ Punctual
            /\ \A i \in DOMAIN tags :
                  tags[i].time # NoTime => ~ Disagrees(tags[i].time, tags[i].offset)
        BY <2>6, <2>8, Zenon
      <3> QED BY <2>1, <2>2, <2>3, <2>8, <3>1, DelayIsPunctual
    <2>9. (doppler_written + doppler_produced <= delay_written)'
      BY <2>4
    <2> QED BY <2>5, <2>7, <2>8, <2>9, Zenon
  <1>2. ASSUME NEW n \in 1 .. MaxItems, DopplerWork(n) PROVE NoneOvertakes'
    <2>1. PICK now \in Times, tags \in Window(n) :
             Doppler!work(n, tags, now, timesync_enabled)
      BY <1>2 DEF DopplerWork
    <2>2. /\ UNCHANGED delayVars /\ jumped' = jumped
          /\ doppler_written + n <= delay_written
      BY <1>2 DEF DopplerWork, source
    <2>3. n \in Nat \ {0}
      BY BoundsAssumption
    <2>4. /\ doppler_produced = 0 /\ doppler_produced' = n /\ doppler_written' = doppler_written
          /\ seen' = seen \cup {tags[i].id : i \in DOMAIN tags}
      BY <2>1 DEF Doppler!work
    <2>5. FallsSlowly' <=> FallsSlowly
      BY <2>2 DEF FallsSlowly, delayVars
    <2>6. ASSUME Punctual PROVE Punctual'
      <3>1. delay_keeper'.d_t0 = delay_keeper'.d_sample_t0
        BY <2>2, <2>6 DEF Punctual, delayVars
      <3>2. Waiting(d_future_tags, delay_written + delay_produced)'
        BY <2>2, <2>6 DEF Punctual, delayVars, Waiting, Due, Delay!delay_rounded
      <3>3. \A tag \in TagsIn(item_tags) : tag.offset < doppler_written => tag.id \in seen
        <4>1. PICK d \in Nat : d = doppler_written
          BY DEF IndexBehindTime, Counted
        <4>2. doppler_written + doppler_produced = d
          BY <2>4, <4>1
        <4> QED BY <2>6, <4>1, <4>2 DEF Punctual
      <3>4. ASSUME NEW tag \in TagsIn(item_tags), tag.offset < doppler_written + n
            PROVE  tag.id \in seen'
        BY <2>3, <2>4, <3>3, <3>4, WindowIsSeen
      <3>5. item_tags' = item_tags
        BY <2>2 DEF delayVars
      <3>6. \A tag \in TagsIn(item_tags') :
               tag.offset < doppler_written' + doppler_produced' => tag.id \in seen'
        BY <2>4, <3>4, <3>5
      <3> QED BY <3>1, <3>2, <3>6 DEF Punctual
    <2>7. (doppler_written + doppler_produced <= delay_written)'
      BY <2>2, <2>4 DEF delayVars
    <2> QED BY <2>2, <2>5, <2>6, <2>7, Zenon
  <1>3. ASSUME NEW t \in Times, DelaySetTime(t) PROVE NoneOvertakes'
    <2>1. /\ delay_keeper' = time_set(d_file.times, delay_keeper, t, delay_written)
          /\ UNCHANGED <<d_file, delay_written, delay_produced, d_future_tags, item_tags>>
          /\ UNCHANGED dopplerVars
          /\ jumped' = (jumped \/ Disagrees(t, delay_written))
      BY <1>3, DelayKeepsTime DEF DelaySetTime, Delay!set_time
    <2>2. jumped' \in BOOLEAN
      BY <2>1, Zenon
    <2>3. ~ jumped' => ~ jumped /\ ~ Disagrees(t, delay_written)
      BY <2>1, Zenon
    <2>4. FallsSlowly' <=> FallsSlowly
      BY <2>1 DEF FallsSlowly
    <2>5. ASSUME ~ Disagrees(t, delay_written), Punctual PROVE Punctual'
      <3>1. t = delay_written
        <4>1. Told(d_file, delay_keeper, delay_written + delay_produced)
          BY DEF IndexBehindTime
        <4>2. PICK told \in Int : told = delay_keeper.d_t0 /\ told = delay_keeper.d_sample_t0
          BY <2>5, <4>1 DEF Punctual, Told, Keeper
        <4>3. PICK item \in Int : item = delay_written
          BY DEF IndexBehindTime, Counted
        <4>4. told + (item - told) = item
          OBVIOUS
        <4> QED BY <2>5, <4>2, <4>3, <4>4 DEF Disagrees, compute_time
      <3>2. delay_keeper'.d_t0 = delay_keeper'.d_sample_t0
        BY <2>1, <3>1 DEF time_set
      <3>3. Waiting(d_future_tags, delay_written + delay_produced)'
        BY <2>1, <2>5 DEF Punctual, Waiting, Due, Delay!delay_rounded
      <3>4. (\A tag \in TagsIn(item_tags) :
                tag.offset < doppler_written + doppler_produced => tag.id \in seen)'
        BY <2>1, <2>5 DEF Punctual, dopplerVars
      <3> QED BY <3>2, <3>3, <3>4 DEF Punctual
    <2>6. (doppler_written + doppler_produced <= delay_written)'
      BY <2>1 DEF dopplerVars
    <2> QED BY <2>2, <2>3, <2>4, <2>5, <2>6, Zenon
  <1>4. ASSUME NEW t \in Times, DopplerSetTime(t) PROVE NoneOvertakes'
    <2>1. /\ UNCHANGED delayVars /\ jumped' = jumped
          /\ UNCHANGED <<doppler_written, doppler_produced, seen>>
      BY <1>4 DEF DopplerSetTime, Doppler!set_time, source
    <2>2. FallsSlowly' <=> FallsSlowly
      BY <2>1 DEF FallsSlowly, delayVars
    <2>3. Punctual => Punctual'
      BY <2>1 DEF Punctual, delayVars, Waiting, Due, Delay!delay_rounded
    <2>4. (doppler_written + doppler_produced <= delay_written)'
      BY <2>1 DEF delayVars
    <2> QED BY <2>1, <2>2, <2>3, <2>4, Zenon
  <1>5. CASE DelayCount
    <2>1. /\ delay_written' = delay_written + delay_produced /\ delay_produced' = 0
          /\ UNCHANGED <<d_file, delay_keeper, d_future_tags, item_tags, delay_call>>
          /\ UNCHANGED dopplerVars /\ jumped' = jumped
      BY <1>5 DEF DelayCount, Delay!Count, source
    <2>2. PICK next \in Nat : next = delay_written + delay_produced
      BY DEF IndexBehindTime, Counted
    <2>3. delay_written' = next /\ delay_written' + delay_produced' = next
      BY <2>1, <2>2
    <2>4. FallsSlowly' <=> FallsSlowly
      BY <2>1 DEF FallsSlowly
    <2>5. ASSUME Punctual PROVE Punctual'
      <3>1. Waiting(d_future_tags, next)
        BY <2>2, <2>5 DEF Punctual
      <3>2. Waiting(d_future_tags, delay_written + delay_produced)'
        BY <2>1, <2>3, <3>1 DEF Waiting, Due, Delay!delay_rounded
      <3> QED BY <2>1, <2>5, <3>2 DEF Punctual, dopplerVars
    <2>6. (doppler_written + doppler_produced <= delay_written)'
      <3>1. PICK w, p \in Nat : w = delay_written /\ p = delay_produced
        BY DEF IndexBehindTime, Counted
      <3>2. PICK d \in Nat : d = doppler_written + doppler_produced
        BY DEF IndexBehindTime, Counted
      <3>3. d <= w /\ w <= w + p
        BY <3>1, <3>2
      <3>4. d <= w + p
        BY <3>3
      <3> QED BY <2>1, <3>1, <3>2, <3>4 DEF dopplerVars
    <2> QED BY <2>1, <2>4, <2>5, <2>6, Zenon
  <1>6. CASE DopplerCount
    <2>1. /\ doppler_written' = doppler_written + doppler_produced /\ doppler_produced' = 0
          /\ seen' = seen
          /\ UNCHANGED delayVars /\ jumped' = jumped
      BY <1>6 DEF DopplerCount, Doppler!Count, source
    <2>2. PICK next \in Nat : next = doppler_written + doppler_produced
      BY DEF IndexBehindTime, Counted
    <2>3. doppler_written' + doppler_produced' = next
      BY <2>1, <2>2
    <2>4. FallsSlowly' <=> FallsSlowly
      BY <2>1 DEF FallsSlowly, delayVars
    <2>5. ASSUME Punctual PROVE Punctual'
      <3>1. \A tag \in TagsIn(item_tags) : tag.offset < next => tag.id \in seen
        BY <2>2, <2>5 DEF Punctual
      <3>2. (\A tag \in TagsIn(item_tags) :
                tag.offset < doppler_written + doppler_produced => tag.id \in seen)'
        BY <2>1, <2>3, <3>1 DEF delayVars
      <3>3. Waiting(d_future_tags, delay_written + delay_produced)'
        BY <2>1, <2>5 DEF Punctual, delayVars, Waiting, Due, Delay!delay_rounded
      <3>4. delay_keeper'.d_t0 = delay_keeper'.d_sample_t0
        BY <2>1, <2>5 DEF Punctual, delayVars
      <3> QED BY <3>2, <3>3, <3>4 DEF Punctual
    <2>6. (doppler_written + doppler_produced <= delay_written)'
      BY <2>1, <2>2, <2>3 DEF delayVars
    <2> QED BY <2>1, <2>4, <2>5, <2>6, Zenon
  <1>7. CASE UNCHANGED vars
    <2>1. UNCHANGED delayVars /\ UNCHANGED dopplerVars /\ jumped' = jumped
      BY <1>7 DEF vars, source
    <2>2. FallsSlowly' <=> FallsSlowly
      BY <2>1 DEF FallsSlowly, delayVars
    <2>3. Punctual => Punctual'
      BY <2>1 DEF Punctual, delayVars, dopplerVars, Waiting, Due, Delay!delay_rounded
    <2>4. (doppler_written + doppler_produced <= delay_written)'
      BY <2>1 DEF delayVars, dopplerVars
    <2> QED BY <2>1, <2>2, <2>3, <2>4, Zenon
  <1> QED BY <1>1, <1>2, <1>3, <1>4, <1>5, <1>6, <1>7 DEF Next

\* Unless the delay is told another time than it has, or falls by more than a sample per
\* sample, tags never overtake each other and are never overtaken by their items
\* (time_dependent_delay tags_propagate(), and the scheduler's windows).
THEOREM SpecNoneOvertakes == Spec => []NoneOvertakes
  BY SpecIndexBehindTime, NoneAtFirst, StepIsPunctual, PTL DEF Spec

\* Then the block behind the delay sees each tag with the item that the delay gave it: no
\* tag is added to an item that this block has read before (time_dependent_delay
\* tags_propagate(), doppler_correction work()).
THEOREM SpecTagsReachNextBlock == Spec => []TagsReachNextBlock
  <1>1. IndexBehindTime /\ NoneOvertakes => TagsReachNextBlock
    <2> SUFFICES ASSUME IndexBehindTime, NoneOvertakes, ~ jumped, FallsSlowly,
                        NEW tag \in Range(item_tags) \cup Range(d_future_tags),
                        tag.offset < doppler_written + doppler_produced
                 PROVE  tag.id \in seen
      BY Zenon DEF TagsReachNextBlock
    <2>1. Punctual
      BY Zenon DEF NoneOvertakes
    <2>2. PICK T, out, future : T = Tag /\ out = item_tags /\ future = d_future_tags
      OBVIOUS
    <2>3. out \in Seq(T) /\ future \in Seq(T)
      BY <2>2 DEF IndexBehindTime, TagsKept
    <2>4. Range(out) = TagsIn(out) /\ Range(future) = TagsIn(future)
      BY <2>3 DEF Range, TagsIn
    <2>5. CASE tag \in TagsIn(out)
      BY <2>1, <2>2, <2>5 DEF Punctual
    <2>6. CASE tag \in TagsIn(future)
      <3>1. PICK w, p \in Nat : w = delay_written /\ p = delay_produced
        BY DEF IndexBehindTime, Counted
      <3>2. PICK d \in Nat : d = doppler_written + doppler_produced /\ d <= w
        BY <3>1 DEF IndexBehindTime, Counted, NoneOvertakes
      <3>3. tag.offset >= w + p
        BY <2>1, <2>2, <2>6, <3>1 DEF Punctual, Waiting
      <3>4. tag \in T
        BY <2>3, <2>6 DEF TagsIn
      <3>5. PICK item \in Int : item = tag.offset
        BY <2>2, <3>4 DEF Tag
      <3>6. ~ (item < d)
        BY <3>2, <3>3, <3>5
      <3> QED BY <3>2, <3>5, <3>6
    <2> QED BY <2>2, <2>4, <2>5, <2>6
  <1> QED BY <1>1, SpecIndexBehindTime, SpecNoneOvertakes, PTL
==============================================================================

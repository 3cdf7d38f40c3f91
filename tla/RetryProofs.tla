---------------------------- MODULE RetryProofs ----------------------------
(***************************************************************************)
(* Theorems about the retry counter, for every ascending table of delays,  *)
(* every width of the counter and all arguments of retry_init.             *)
(***************************************************************************)
EXTENDS Retry, FiniteSetTheorems, TLAPS

LEMMA TableFacts ==
  /\ Len(Delays) \in Nat \ {0}
  /\ \A i \in 1..Len(Delays) : Delays[i] \in Nat
  BY RetryAssumption

LEMMA HandleFields ==
  ASSUME NEW h \in Handles
  PROVE  /\ h.attempts \in 0..AttemptMod - 1 /\ h.attempts \in Nat
         /\ h.first_instant \in BOOLEAN
         /\ h.short_count \in Nat
         /\ h.short_delay \in Nat
         /\ h.max_delay \in Int
         /\ h.delays_offset \in 0..Len(Delays)
<1>1. /\ h.attempts \in 0..AttemptMod - 1 /\ h.first_instant \in FirstInstants
      /\ h.short_count \in ShortCounts /\ h.short_delay \in ShortDelays
      /\ h.max_delay \in MaxDelays /\ h.delays_offset \in 0..Len(Delays)
  BY DEF Handles
<1>2. AttemptMod \in Nat \ {0}
  BY RetryAssumption
<1>3. /\ FirstInstants \subseteq BOOLEAN /\ ShortCounts \subseteq Nat
      /\ ShortDelays \subseteq Nat /\ MaxDelays \subseteq Int
  BY RetryAssumption
<1>4. h.attempts \in Nat
  BY <1>1, <1>2
<1>. QED
  BY <1>1, <1>3, <1>4

LEMMA HandleChanges ==
  ASSUME NEW h \in Handles
  PROVE  /\ \A a \in 0..AttemptMod - 1 : [h EXCEPT !.attempts = a] \in Handles
         /\ \A k \in 0..Len(Delays) : [h EXCEPT !.delays_offset = k] \in Handles
  BY DEF Handles

LEMMA CounterFits ==
  /\ 0 \in 0..AttemptMod - 1
  /\ \A a \in 0..AttemptMod - 1 : (a + 1) % AttemptMod \in 0..AttemptMod - 1
<1>1. AttemptMod \in Nat \ {0}
  BY RetryAssumption
<1>. QED
  BY <1>1

(* An index retry_delay computes is never outside the table. *)
LEMMA TableDelayType ==
  ASSUME NEW h \in Handles, h.attempts >= h.short_count
  PROVE  TableDelay(h) \in Nat
  BY HandleFields, TableFacts DEF TableDelay

LEMMA DelayOfType == \A h \in Handles : DelayOf(h) \in Nat
<1> SUFFICES ASSUME NEW h \in Handles PROVE DelayOf(h) \in Nat
  OBVIOUS
<1>1. CASE h.attempts >= h.short_count
  <2>1. TableDelay(h) \in Nat
    BY <1>1, TableDelayType
  <2>. QED
    BY <2>1, <1>1, HandleFields DEF DelayOf, Capped
<1>2. CASE h.attempts < h.short_count
  BY <1>2, HandleFields DEF DelayOf
<1>. QED
  BY <1>1, <1>2, HandleFields

-----------------------------------------------------------------------------
(* Type correctness. *)

LEMMA ColdHandle == Init => handle \in Handles /\ handle.attempts = 0
<1>1. 0 \in 0..Len(Delays)
  BY TableFacts
<1>. QED
  BY <1>1, CounterFits DEF Init, Handles

LEMMA TypeInductive == TypeOK /\ [Next]_vars => TypeOK'
<1> SUFFICES ASSUME TypeOK, [Next]_vars PROVE TypeOK'
  OBVIOUS
<1>0. handle \in Handles
  BY DEF TypeOK
<1>1. CASE SkipDelay
  <2>1. handle.delays_offset + 1 \in 0..Len(Delays)
    BY <1>0, <1>1, HandleFields, TableFacts DEF SkipDelay, Skips
  <2>. QED
    BY <1>0, <1>1, <2>1, HandleChanges DEF TypeOK, SkipDelay
<1>2. CASE InitDone
  BY <1>2 DEF TypeOK, InitDone
<1>3. CASE RetryDelay
  <2>1. (handle.attempts + 1) % AttemptMod \in 0..AttemptMod - 1
    BY <1>0, HandleFields, CounterFits
  <2>. QED
    BY <1>0, <1>3, <2>1, HandleChanges, DelayOfType DEF TypeOK, RetryDelay
<1>4. CASE RetryReset
  BY <1>0, <1>4, HandleChanges, CounterFits DEF TypeOK, RetryReset
<1>5. CASE UNCHANGED vars
  BY <1>5 DEF vars, TypeOK
<1>. QED
  BY <1>1, <1>2, <1>3, <1>4, <1>5 DEF Next

(* The counter stays in its width, the offset in the table, and every      *)
(* delay is a natural number of milliseconds.                              *)
THEOREM RetryTypeCorrect == Spec => []TypeOK
<1>1. Init => TypeOK
  BY ColdHandle DEF Init, TypeOK
<1>. QED
  BY <1>1, TypeInductive, PTL DEF Spec

-----------------------------------------------------------------------------
(* No delay exceeds max_delay, for arguments as the callers choose them. *)
THEOREM DelayIsBounded == Spec => []NeverBeyondMax
<1>1. Init => NeverBeyondMax
  BY ColdHandle, HandleFields DEF Init, NeverBeyondMax
<1>2. TypeOK /\ NeverBeyondMax /\ [Next]_vars => NeverBeyondMax'
  <2> SUFFICES ASSUME TypeOK, NeverBeyondMax, [Next]_vars PROVE NeverBeyondMax'
    OBVIOUS
  <2>. USE DEF NeverBeyondMax, WellChosen
  <2>1. CASE SkipDelay
    BY <2>1 DEF SkipDelay, TypeOK, Handles
  <2>2. CASE InitDone
    BY <2>2 DEF InitDone
  <2>3. CASE RetryDelay
    <3>1. handle.short_delay \in Nat /\ handle.max_delay \in Int
          /\ handle.attempts \in Nat /\ handle.short_count \in Nat
      BY HandleFields DEF TypeOK
    <3>2. handle.attempts >= handle.short_count => TableDelay(handle) \in Nat
      BY TableDelayType DEF TypeOK
    <3>3. WellChosen(handle) /\ handle.max_delay > 0 => DelayOf(handle) <= handle.max_delay
      BY <3>1, <3>2 DEF DelayOf, Capped
    <3>. QED
      BY <2>3, <3>3 DEF RetryDelay, TypeOK, Handles
  <2>4. CASE RetryReset
    BY <2>4 DEF RetryReset, TypeOK, Handles
  <2>5. CASE UNCHANGED vars
    BY <2>5 DEF vars
  <2>. QED
    BY <2>1, <2>2, <2>3, <2>4, <2>5 DEF Next
<1>. QED
  BY <1>1, <1>2, RetryTypeCorrect, PTL DEF Spec

-----------------------------------------------------------------------------
(* Where the loop of retry_init stops, and how the last delay came about.  *)

Before(h) == [h EXCEPT !.attempts = @ - 1]

OffsetRight ==
  pc = "ready" /\ handle.delays_offset < Len(Delays)
      => Delays[handle.delays_offset + 1] >= handle.short_delay

DelayInv ==
  /\ TypeOK
  /\ OffsetRight
  /\ pc = "init" => handle.attempts = 0
  /\ handle.attempts > 0 => delay = DelayOf(Before(handle))

LEMMA BeforeUndoes ==
  ASSUME NEW h \in Handles, NEW g, g = [h EXCEPT !.attempts = h.attempts + 1]
  PROVE  [g EXCEPT !.attempts = g.attempts - 1] = h
<1>1. h.attempts \in Nat
  BY HandleFields
<1>2. g.attempts = h.attempts + 1 /\ g.attempts - 1 = h.attempts
  BY <1>1 DEF Handles
<1>3. [g EXCEPT !.attempts = g.attempts - 1] = [h EXCEPT !.attempts = h.attempts]
  BY <1>2 DEF Handles
<1>. QED
  BY <1>3 DEF Handles

(* One more failure never makes the delay shorter. *)
LEMMA DelayOfMonotone ==
  ASSUME DelayInv, pc = "ready", handle.attempts > 0, WellChosen(handle)
  PROVE  DelayOf(handle) >= DelayOf(Before(handle))
<1>. DEFINE h == handle
            b == Before(handle)
<1>1. /\ h.attempts \in Nat \ {0} /\ h.short_count \in Nat /\ h.short_delay \in Nat
      /\ h.max_delay \in Int /\ h.delays_offset \in 0..Len(Delays)
  BY HandleFields DEF DelayInv, TypeOK
<1>2. /\ b.attempts = h.attempts - 1 /\ b.short_count = h.short_count
      /\ b.short_delay = h.short_delay /\ b.max_delay = h.max_delay
      /\ b.delays_offset = h.delays_offset /\ b.first_instant = h.first_instant
  BY DEF DelayInv, TypeOK, Handles, Before
<1>3. h \in Handles /\ b \in Handles
  <2>1. h \in Handles
    BY DEF DelayInv, TypeOK
  <2>2. h.attempts - 1 \in 0..AttemptMod - 1
    <3>1. AttemptMod \in Nat \ {0} /\ h.attempts \in 0..AttemptMod - 1
      BY <2>1, HandleFields, RetryAssumption
    <3>. QED
      BY <3>1
  <2>. QED
    BY <2>1, <2>2, HandleChanges DEF Before
<1>4. CASE h.attempts < h.short_count
  BY <1>1, <1>2, <1>4 DEF DelayOf
<1>5. CASE h.attempts >= h.short_count
  <2>1. TableDelay(h) \in Nat
    BY <1>3, <1>5, TableDelayType
  <2>2. DelayOf(h) = Capped(TableDelay(h), h)
    BY <1>1, <1>5 DEF DelayOf
  <2>3. TableDelay(h) >= h.short_delay
    <3>. DEFINE i == h.attempts - h.short_count + h.delays_offset
    <3>1. i \in Nat /\ i >= h.delays_offset
      BY <1>1, <1>5
    <3>2. CASE i < Len(Delays)
      <4>1. h.delays_offset < Len(Delays)
        BY <3>1, <3>2, <1>1, TableFacts
      <4>2. Delays[h.delays_offset + 1] >= h.short_delay
        BY <4>1 DEF DelayInv, OffsetRight
      <4>3. Delays[h.delays_offset + 1] <= Delays[i + 1]
        <5>1. \A j, k \in 1..Len(Delays) : j <= k => Delays[j] <= Delays[k]
          BY RetryAssumption
        <5>2. h.delays_offset + 1 \in 1..Len(Delays) /\ i + 1 \in 1..Len(Delays)
              /\ h.delays_offset + 1 <= i + 1
          BY <3>1, <3>2, <4>1, <1>1, TableFacts
        <5>. QED
          BY <5>1, <5>2
      <4>4. Delays[h.delays_offset + 1] \in Nat /\ Delays[i + 1] \in Nat
        BY <3>1, <3>2, <4>1, <1>1, TableFacts
      <4>. QED
        BY <4>2, <4>3, <4>4, <3>2, <1>1 DEF TableDelay
    <3>3. CASE ~ (i < Len(Delays))
      BY <3>3 DEF TableDelay, WellChosen
    <3>. QED
      BY <3>2, <3>3
  <2>4. Capped(TableDelay(h), h) >= h.short_delay
    BY <1>1, <2>1, <2>3 DEF Capped, WellChosen
  <2>5. CASE b.attempts < h.short_count
    BY <1>1, <1>2, <2>2, <2>4, <2>5, DelayOfType, <1>3 DEF DelayOf
  <2>6. CASE b.attempts >= h.short_count
    <3>1. TableDelay(b) \in Nat
      BY <1>2, <1>3, <2>6, TableDelayType
    <3>2. TableDelay(b) <= TableDelay(h)
      <4>. DEFINE i == h.attempts - h.short_count + h.delays_offset
      <4>1. i \in Nat \ {0} /\ b.attempts - b.short_count + b.delays_offset = i - 1
        <5>1. h.delays_offset \in Nat
          BY <1>1, TableFacts
        <5>. QED
          BY <5>1, <1>1, <1>2, <2>6
      <4>2. TableDelay(b) = IF i - 1 < Len(Delays) THEN Delays[i] ELSE Delays[Len(Delays)]
        BY <4>1 DEF TableDelay
      <4>3. TableDelay(h) = IF i < Len(Delays) THEN Delays[i + 1] ELSE Delays[Len(Delays)]
        BY DEF TableDelay
      <4>4. \A j, k \in 1..Len(Delays) : j <= k => Delays[j] <= Delays[k]
        BY RetryAssumption
      <4>. HIDE DEF i
      <4>. QED
        BY <4>1, <4>2, <4>3, <4>4, TableFacts
    <3>3. DelayOf(b) = IF b.attempts = 0 /\ b.first_instant THEN 0
                       ELSE Capped(TableDelay(b), b)
      BY <1>1, <1>2, <2>6 DEF DelayOf
    <3>4. Capped(TableDelay(b), b) <= Capped(TableDelay(h), h)
      BY <1>1, <1>2, <2>1, <3>1, <3>2 DEF Capped
    <3>5. Capped(TableDelay(h), h) \in Nat
      BY <1>1, <2>1 DEF Capped
    <3>. QED
      BY <2>2, <3>3, <3>4, <3>5
  <2>. QED
    BY <2>5, <2>6, <1>1, <1>2
<1>. QED
  BY <1>1, <1>4, <1>5

LEMMA DelayInvInductive == DelayInv /\ [Next]_vars => DelayInv'
<1> SUFFICES ASSUME DelayInv, [Next]_vars PROVE DelayInv'
  OBVIOUS
<1>0. TypeOK /\ TypeOK' /\ handle \in Handles
  BY TypeInductive DEF DelayInv, TypeOK
<1>. USE DEF DelayInv, OffsetRight
<1>1. CASE SkipDelay
  BY <1>0, <1>1 DEF SkipDelay, Handles
<1>2. CASE InitDone
  <2>1. handle.delays_offset < Len(Delays)
          => Delays[handle.delays_offset + 1] >= handle.short_delay
    BY <1>0, <1>2, HandleFields, TableFacts DEF InitDone, Skips
  <2>. QED
    BY <1>0, <1>2, <2>1 DEF InitDone
<1>3. CASE RetryDelay
  <2>1. /\ handle'.delays_offset = handle.delays_offset
        /\ handle'.short_delay = handle.short_delay
        /\ handle'.attempts = (handle.attempts + 1) % AttemptMod
    BY <1>0, <1>3 DEF RetryDelay, Handles
  <2>2. ASSUME handle'.attempts > 0
        PROVE  Before(handle') = handle
    <3>1. handle'.attempts = handle.attempts + 1
      <4>1. AttemptMod \in Nat \ {0} /\ handle.attempts \in 0..AttemptMod - 1
        BY <1>0, HandleFields, RetryAssumption
      <4>. QED
        BY <2>1, <2>2, <4>1
    <3>2. handle.attempts \in Nat
      BY <1>0, HandleFields
    <3>3. handle' = [handle EXCEPT !.attempts = handle.attempts + 1]
      BY <1>0, <1>3, <2>1, <3>1 DEF RetryDelay, Handles
    <3>. QED
      BY <1>0, <3>3, BeforeUndoes DEF Before
  <2>. QED
    BY <1>0, <1>3, <2>1, <2>2 DEF RetryDelay
<1>4. CASE RetryReset
  BY <1>0, <1>4 DEF RetryReset, Handles
<1>5. CASE UNCHANGED vars
  BY <1>0, <1>5 DEF vars
<1>. QED
  BY <1>1, <1>2, <1>3, <1>4, <1>5 DEF Next

(* The station that keeps failing never waits less than the last time: the *)
(* step from the short delays to the table included, where delays_offset   *)
(* has to be right.                                                        *)
THEOREM BackoffNeverShrinks == Spec => BackoffGrows
<1>1. Init => DelayInv
  <2>1. Init => TypeOK
    BY ColdHandle DEF Init, TypeOK
  <2>. QED
    BY <2>1, ColdHandle DEF Init, DelayInv, OffsetRight
<1>2. DelayInv /\ [Next]_vars =>
        [handle.attempts > 0 /\ handle'.attempts = handle.attempts + 1
          => (WellChosen(handle) => delay' >= delay)]_vars
  <2> SUFFICES ASSUME DelayInv, Next, handle.attempts > 0,
                      handle'.attempts = handle.attempts + 1, WellChosen(handle)
               PROVE  delay' >= delay
    OBVIOUS
  <2>1. handle \in Handles /\ handle.attempts \in Nat
    BY HandleFields DEF DelayInv, TypeOK
  <2>2. pc = "ready"
    BY <2>1 DEF DelayInv, TypeOK
  <2>3. RetryDelay
    BY <2>1, <2>2 DEF Next, SkipDelay, InitDone, RetryReset, Handles
  <2>. QED
    BY <2>2, <2>3, DelayOfMonotone DEF RetryDelay, DelayInv
<1>. QED
  BY <1>1, <1>2, DelayInvInductive, PTL DEF Spec, BackoffGrows

-----------------------------------------------------------------------------
(* The index retry_delay computes, and what it is to compute.              *)

LoopInv == \A i \in 1..handle.delays_offset : Delays[i] < handle.short_delay

LEMMA LoopInvInductive == TypeOK /\ LoopInv /\ [Next]_vars => LoopInv'
<1>. SUFFICES ASSUME TypeOK, LoopInv, [Next]_vars PROVE LoopInv'
  OBVIOUS
<1>0. handle \in Handles
  BY DEF TypeOK
<1>1. CASE SkipDelay
  <2>1. /\ handle'.delays_offset = handle.delays_offset + 1
        /\ handle'.short_delay = handle.short_delay
        /\ Delays[handle.delays_offset + 1] < handle.short_delay
    BY <1>0, <1>1 DEF SkipDelay, Skips, Handles
  <2>2. handle.delays_offset \in Nat
    BY <1>0, HandleFields, TableFacts
  <2>3. \A i \in 1..handle.delays_offset + 1 :
            i \in 1..handle.delays_offset \/ i = handle.delays_offset + 1
    BY <2>2
  <2>. QED
    BY <2>1, <2>3 DEF LoopInv
<1>2. CASE RetryDelay \/ RetryReset
  <2>1. handle'.delays_offset = handle.delays_offset /\ handle'.short_delay = handle.short_delay
    BY <1>0, <1>2 DEF RetryDelay, RetryReset, Handles
  <2>. QED
    BY <2>1 DEF LoopInv
<1>3. CASE InitDone \/ UNCHANGED vars
  BY <1>3 DEF InitDone, vars, LoopInv
<1>. QED
  BY <1>1, <1>2, <1>3 DEF Next

(* Where the loop stopped, the eligible delays are the rest of the table.  *)
LEMMA EligibleIs ==
  ASSUME TypeOK, LoopInv, OffsetRight, pc = "ready"
  PROVE  Eligible(handle) = handle.delays_offset + 1..Len(Delays)
<1>. DEFINE off == handle.delays_offset
<1>1. off \in Nat /\ off <= Len(Delays) /\ handle.short_delay \in Nat /\ Len(Delays) \in Nat
  BY HandleFields, TableFacts DEF TypeOK
<1>2. ASSUME NEW i \in 1..Len(Delays), i <= off PROVE ~(Delays[i] >= handle.short_delay)
  <2>1. Delays[i] < handle.short_delay /\ Delays[i] \in Nat
    BY <1>1, <1>2, TableFacts DEF LoopInv
  <2>. QED
    BY <1>1, <2>1
<1>3. ASSUME NEW i \in 1..Len(Delays), i > off PROVE Delays[i] >= handle.short_delay
  <2>1. off < Len(Delays) /\ off + 1 \in 1..Len(Delays) /\ off + 1 <= i
    BY <1>1, <1>3
  <2>2. Delays[off + 1] <= Delays[i]
    BY <2>1, RetryAssumption
  <2>3. Delays[off + 1] >= handle.short_delay
    BY <2>1 DEF OffsetRight
  <2>4. Delays[off + 1] \in Nat /\ Delays[i] \in Nat
    BY <2>1, TableFacts
  <2>. QED
    BY <1>1, <2>2, <2>3, <2>4
<1>. HIDE DEF off
<1>4. \A i : i \in off + 1..Len(Delays) <=> i \in 1..Len(Delays) /\ i > off
  BY <1>1
<1>5. \A i \in 1..Len(Delays) : i <= off \/ i > off
  BY <1>1
<1>6. Eligible(handle) = off + 1..Len(Delays)
  BY <1>2, <1>3, <1>4, <1>5 DEF Eligible
<1>. QED
  BY <1>6 DEF off

(* Of an interval, the element with k below it is the one k after the first. *)
LEMMA IntervalNth ==
  ASSUME NEW n \in Nat, NEW off \in 0..n, NEW k \in Nat
  PROVE  /\ Cardinality(off + 1..n) = n - off
         /\ off + k < n => (CHOOSE i \in off + 1..n :
                                Cardinality({j \in off + 1..n : j < i}) = k) = off + k + 1
<1>1. \A a, b \in Int : Cardinality(a..b) = IF a > b THEN 0 ELSE b - a + 1
  BY FS_Interval
<1>2. Cardinality(off + 1..n) = n - off
  <2>1. off + 1 \in Int /\ n \in Int /\ (off + 1 > n <=> off = n)
    OBVIOUS
  <2>2. Cardinality(off + 1..n) = IF off + 1 > n THEN 0 ELSE n - (off + 1) + 1
    BY <1>1, <2>1
  <2>. QED
    BY <2>1, <2>2
<1>3. ASSUME NEW i \in off + 1..n
      PROVE  Cardinality({j \in off + 1..n : j < i}) = i - off - 1
  <2>1. {j \in off + 1..n : j < i} = off + 1..i - 1
    OBVIOUS
  <2>2. Cardinality(off + 1..i - 1) = i - off - 1
    BY <1>1
  <2>. QED
    BY <2>1, <2>2
<1>4. ASSUME off + k < n
      PROVE  (CHOOSE i \in off + 1..n :
                  Cardinality({j \in off + 1..n : j < i}) = k) = off + k + 1
  <2>1. off + k + 1 \in off + 1..n
    BY <1>4
  <2>2. \A i \in off + 1..n :
            Cardinality({j \in off + 1..n : j < i}) = k <=> i = off + k + 1
    BY <1>3
  <2>. DEFINE P(i) == Cardinality({j \in off + 1..n : j < i}) = k
  <2>3. \E i \in off + 1..n : P(i)
    BY <2>1, <2>2
  <2>4. (CHOOSE i \in off + 1..n : P(i)) \in off + 1..n /\ P(CHOOSE i \in off + 1..n : P(i))
    BY <2>3
  <2>. QED
    BY <2>2, <2>4
<1>. QED
  BY <1>2, <1>4

LEMMA DelayOfReference ==
  ASSUME DelayInv, LoopInv, handle.attempts > 0
  PROVE  DelayOf(Before(handle)) = Reference(handle, handle.attempts - 1)
<1>. DEFINE h   == handle
            b   == Before(handle)
            a   == handle.attempts - 1
            off == handle.delays_offset
            n   == Len(Delays)
            k   == a - handle.short_count
            d   == IF k < Cardinality(Eligible(handle))
                   THEN Delays[CHOOSE i \in Eligible(handle) :
                            Cardinality({j \in Eligible(handle) : j < i}) = k]
                   ELSE Delays[n]
<1>1. /\ a \in Nat /\ h.short_count \in Nat /\ h.short_delay \in Nat
      /\ h.max_delay \in Int /\ off \in 0..n /\ n \in Nat \ {0} /\ h.first_instant \in BOOLEAN
  BY HandleFields, TableFacts DEF DelayInv, TypeOK
<1>2. /\ b.attempts = a /\ b.short_count = h.short_count
      /\ b.short_delay = h.short_delay /\ b.max_delay = h.max_delay
      /\ b.delays_offset = off /\ b.first_instant = h.first_instant
  BY DEF DelayInv, TypeOK, Handles, Before
<1>3. pc = "ready"
  BY DEF DelayInv, TypeOK
<1>4. Eligible(handle) = off + 1..n
  BY <1>3, EligibleIs DEF DelayInv
<1>5. ASSUME a >= h.short_count PROVE TableDelay(b) = d /\ d \in Nat
  <2>1. k \in Nat
    BY <1>1, <1>5
  <2>2. TableDelay(b) = IF k + off < n THEN Delays[k + off + 1] ELSE Delays[n]
    BY <1>2 DEF TableDelay
  <2>3. Cardinality(off + 1..n) = n - off
    BY <1>1, <2>1, IntervalNth
  <2>4. off + k < n => (CHOOSE i \in off + 1..n :
                            Cardinality({j \in off + 1..n : j < i}) = k) = off + k + 1
    BY <1>1, <2>1, IntervalNth
  <2>. HIDE DEF k, off, n
  <2>5. d = IF k < n - off THEN Delays[CHOOSE i \in off + 1..n :
                                   Cardinality({j \in off + 1..n : j < i}) = k]
            ELSE Delays[n]
    BY <1>4, <2>3 DEF n
  <2>. HIDE DEF d
  <2>6. CASE k + off < n
    <3>1. k < n - off /\ off + k < n /\ off + k + 1 = k + off + 1 /\ k + off + 1 \in 1..n
      BY <1>1, <2>1, <2>6
    <3>2. Delays[k + off + 1] \in Nat
      BY <3>1, TableFacts DEF n
    <3>. QED
      BY <2>2, <2>4, <2>5, <2>6, <3>1, <3>2
  <2>7. CASE ~(k + off < n)
    <3>1. ~(k < n - off) /\ n \in 1..n
      BY <1>1, <2>1, <2>7
    <3>2. Delays[n] \in Nat
      BY <3>1, TableFacts DEF n
    <3>. QED
      BY <2>2, <2>5, <2>7, <3>1, <3>2
  <2>. QED
    BY <2>6, <2>7
<1>6. Reference(h, a) =
          CASE a = 0 /\ h.first_instant -> 0
            [] a < h.short_count /\ (a > 0 \/ ~h.first_instant) -> h.short_delay
            [] OTHER -> IF h.max_delay > 0 /\ h.max_delay < d THEN h.max_delay ELSE d
  BY DEF Reference
<1>7. DelayOf(b) = IF a = 0 /\ h.first_instant THEN 0
                   ELSE IF a < h.short_count THEN h.short_delay
                   ELSE IF h.max_delay > 0 /\ TableDelay(b) > h.max_delay
                        THEN h.max_delay ELSE TableDelay(b)
  BY <1>2 DEF DelayOf, Capped
<1>. HIDE DEF d, a, h, b
<1>8. DelayOf(b) = Reference(h, a)
  <2>1. CASE a = 0 /\ h.first_instant
    BY <1>1, <1>6, <1>7, <2>1
  <2>2. CASE ~(a = 0 /\ h.first_instant) /\ a < h.short_count
    BY <1>1, <1>6, <1>7, <2>2
  <2>3. CASE ~(a = 0 /\ h.first_instant) /\ ~(a < h.short_count)
    <3>1. a >= h.short_count
      BY <1>1, <2>3
    <3>2. TableDelay(b) = d /\ d \in Nat
      BY <1>5, <3>1
    <3>. QED
      BY <1>1, <1>6, <1>7, <2>3, <3>2
  <2>. QED
    BY <2>1, <2>2, <2>3
<1>. QED
  BY <1>8 DEF a, b, h

(* After any sequence of calls the station has slept for what its count of *)
(* attempts calls for, and the loop of retry_init and the index of         *)
(* retry_delay (retry.c:55, :70) together enter the table where a reading  *)
(* without indices does, whatever the ascending table and the arguments.   *)
THEOREM DelayMeetsReference == Spec => []DelayIsReference
<1>1. Init => TypeOK
  BY ColdHandle DEF Init, TypeOK
<1>2. Init => DelayInv
  BY <1>1, ColdHandle DEF Init, DelayInv, OffsetRight
<1>3. Init => LoopInv
  <2>1. Init => handle.delays_offset = 0
    BY DEF Init
  <2>. QED
    BY <2>1 DEF LoopInv
<1>4. DelayInv /\ LoopInv /\ [Next]_vars => LoopInv'
  BY LoopInvInductive DEF DelayInv
<1>5. DelayInv /\ LoopInv => DelayIsReference
  BY DelayOfReference DEF DelayInv, DelayIsReference
<1>. QED
  BY <1>2, <1>3, <1>4, <1>5, DelayInvInductive, PTL DEF Spec

-----------------------------------------------------------------------------
(* retry_delay and retry_reset (retry.c:62, :89) keep a counter that wraps *)
(* at its width and starts again at a reset: the counter that the station  *)
(* is shown to keep, too, with its tasks interleaved.                      *)
THEOREM RetryIsCounter == Spec => RefinesCounter
<1>1. Init => C!retry_init
  BY DEF Init, C!retry_init
<1>2. TypeOK /\ [Next]_vars => [C!retry_delay \/ C!retry_reset]_(handle.attempts)
  <2> SUFFICES ASSUME TypeOK, [Next]_vars PROVE [C!retry_delay \/ C!retry_reset]_(handle.attempts)
    OBVIOUS
  <2>0. handle \in Handles
    BY DEF TypeOK
  <2>1. CASE SkipDelay
    BY <2>0, <2>1 DEF SkipDelay, Handles
  <2>2. CASE InitDone \/ UNCHANGED vars
    BY <2>2 DEF InitDone, vars
  <2>3. CASE RetryDelay
    BY <2>0, <2>3 DEF RetryDelay, Handles, C!retry_delay
  <2>4. CASE RetryReset
    BY <2>0, <2>4 DEF RetryReset, Handles, C!retry_reset
  <2>. QED
    BY <2>1, <2>2, <2>3, <2>4 DEF Next
<1>. QED
  BY <1>1, <1>2, RetryTypeCorrect, PTL DEF Spec, RefinesCounter, C!Calls
=============================================================================

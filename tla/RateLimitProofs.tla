--------------------------- MODULE RateLimitProofs ---------------------------
(***************************************************************************)
(* Proofs about RateLimit, for any callers, limits, windows and fractions  *)
(* of a second: the budget of every window, who is refused, and how long   *)
(* they have to wait.                                                      *)
(*                                                                         *)
(* A bucket forgets calls, so what it says of a window is not inductive.   *)
(* What is: it is the end of the history of admitted calls, whatever it    *)
(* has forgotten is older than the window, and a call is admitted only     *)
(* when the call of MaxCalls calls ago is.                                 *)
(***************************************************************************)
EXTENDS RateLimit, FiniteSetTheorems, SequenceTheorems, TLAPS

-----------------------------------------------------------------------------
(* Positions in a bucket                                                   *)

\* A set of positions that holds all the positions before each of its own.
LEMMA InitialSegment ==
  ASSUME NEW n \in Nat, NEW S \in SUBSET (1..n), \A i \in S : \A j \in 1..i : j \in S
  PROVE  Cardinality(S) \in 0..n /\ S = 1..Cardinality(S)
  <1> DEFINE c == Cardinality(S)
  <1>1. IsFiniteSet(1..n) /\ Cardinality(1..n) = n
    BY FS_Interval
  <1>2. IsFiniteSet(S) /\ c \in Nat /\ c <= n
    <2>1. IsFiniteSet(S) /\ Cardinality(S) <= Cardinality(1..n)
      BY <1>1, FS_Subset
    <2> QED
      BY <1>1, <2>1, FS_CardinalityType
  <1>3. IsFiniteSet(1..c) /\ Cardinality(1..c) = c
    BY <1>2, FS_Interval
  <1>4. c + 1 \notin S
    <2> SUFFICES ASSUME c + 1 \in S PROVE FALSE
      OBVIOUS
    <2>1. 1..(c + 1) \in SUBSET S
      OBVIOUS
    <2>2. Cardinality(1..(c + 1)) = c + 1
      BY <1>2, FS_Interval
    <2> QED
      BY <1>2, <2>1, <2>2, FS_Subset
  <1>5. S \in SUBSET (1..c)
    <2> SUFFICES ASSUME NEW i \in S, i > c PROVE FALSE
      BY <1>2
    <2>1. c + 1 \in 1..i
      BY <1>2
    <2> QED
      BY <1>4, <2>1
  <1>6. Cardinality(S) = Cardinality(1..c)
    BY <1>3
  <1> HIDE DEF c
  <1>7. S = 1..c
    BY <1>3, <1>5, <1>6, FS_Subset
  <1> QED
    BY <1>2, <1>7 DEF c

Sorted(s) == \A i, j \in 1..Len(s) : i <= j => s[i] <= s[j]

Cutoff == now - WindowTicks

\* The window is a number of ticks.
LEMMA WindowType == WindowTicks \in Nat
  BY RateLimitAssumption DEF WindowTicks

\* popleft leaves the calls of the window, and only these.
LEMMA EvictedFacts ==
  ASSUME now \in Nat, NEW bucket \in Seq(Nat), Sorted(bucket)
  PROVE  \E k \in 0..Len(bucket) :
           /\ Evicted(bucket) = SubSeq(bucket, k + 1, Len(bucket))
           /\ Evicted(bucket) \in Seq(Nat)
           /\ Len(Evicted(bucket)) = Len(bucket) - k
           /\ \A i \in 1..(Len(bucket) - k) : Evicted(bucket)[i] = bucket[k + i]
           /\ \A i \in 1..Len(bucket) : bucket[i] < Cutoff <=> i <= k
  <1> DEFINE n == Len(bucket)
             k == Cardinality(Stale(bucket))
  <1>1. n \in Nat /\ DOMAIN bucket = 1..n /\ \A i \in 1..n : bucket[i] \in Nat
    OBVIOUS
  <1>2. Stale(bucket) \in SUBSET (1..n)
    BY <1>1 DEF Stale
  <1>3. \A i \in Stale(bucket) : \A j \in 1..i : j \in Stale(bucket)
    BY <1>1 DEF Stale
  <1>4. k \in 0..n /\ Stale(bucket) = 1..k
    BY <1>1, <1>2, <1>3, InitialSegment
  <1>5. ASSUME NEW i \in 1..n PROVE bucket[i] < Cutoff <=> i <= k
    <2>1. ASSUME bucket[i] < Cutoff PROVE i \in Stale(bucket)
      BY <1>1, <2>1, WindowType DEF Stale, Sorted, Cutoff
    <2>2. ASSUME i \in Stale(bucket) PROVE bucket[i] < Cutoff
      BY <1>1, <2>2 DEF Stale, Cutoff
    <2> QED
      BY <1>4, <2>1, <2>2
  <1>6. /\ SubSeq(bucket, k + 1, n) \in Seq(Nat)
        /\ Len(SubSeq(bucket, k + 1, n)) = IF k + 1 <= n THEN n - (k + 1) + 1 ELSE 0
        /\ \A i \in 1..(n - (k + 1) + 1) : SubSeq(bucket, k + 1, n)[i] = bucket[(k + 1) + i - 1]
    <2>1. \A i \in (k + 1)..n : bucket[i] \in Nat
      BY <1>1, <1>4
    <2>2. k + 1 \in Int /\ n \in Int
      BY <1>1, <1>4
    <2> HIDE DEF n, k
    <2> QED
      BY <2>1, <2>2, SubSeqProperties
  <1>7. Evicted(bucket) = SubSeq(bucket, k + 1, n)
    BY DEF Evicted
  <1> HIDE DEF n, k
  <1>8. /\ Len(Evicted(bucket)) = n - k
        /\ \A i \in 1..(n - k) : Evicted(bucket)[i] = bucket[k + i]
    BY <1>1, <1>4, <1>6, <1>7
  <1> QED
    BY <1>4, <1>5, <1>6, <1>7, <1>8 DEF n

-----------------------------------------------------------------------------
(* The inductive invariant                                                 *)

TypeOK ==
  /\ buckets \in [Keys -> Seq(Nat)]
  /\ admitted \in [Keys -> Seq(Nat)]
  /\ hints \in [Keys -> Int]
  /\ now \in Nat

\* The history is in the order of time.
HistoryAgrees(calls) == Sorted(calls) /\ \A i \in 1..Len(calls) : calls[i] <= now

\* The bucket is the end of the history; what it has forgotten is out of the window.
BucketAgrees(bucket, calls) ==
  LET gone == Len(calls) - Len(bucket) IN
  /\ gone >= 0
  /\ \A i \in 1..Len(bucket) : bucket[i] = calls[gone + i]
  /\ \A i \in 1..gone : calls[i] < Cutoff

\* A call is admitted when the one of max calls ago is out of the window.
Spaced(calls, max) ==
  \A i \in 1..Len(calls) : i > max => calls[i - max] < calls[i] - WindowTicks

\* Until the caller is admitted again, the hint lies less than a second before
\* the end of the window of the call of max calls ago.
HintAgrees(hint, calls, max) ==
  hint >= 0 => /\ Len(calls) >= max
               /\ calls[Len(calls) - max + 1] + WindowTicks < hint + SecondTicks

KeyAgrees(key) ==
  /\ HistoryAgrees(admitted[key])
  /\ BucketAgrees(buckets[key], admitted[key])
  /\ Len(buckets[key]) <= MaxCalls[key[2]]
  /\ Spaced(admitted[key], MaxCalls[key[2]])
  /\ HintAgrees(hints[key], admitted[key], MaxCalls[key[2]])

IInv == TypeOK /\ \A key \in Keys : KeyAgrees(key)

-----------------------------------------------------------------------------
(* One limiter                                                             *)

\* Each action has a limit.
LEMMA LimitType ==
  ASSUME NEW key \in Keys
  PROVE  MaxCalls[key[2]] \in Nat \ {0}
  BY RateLimitAssumption DEF Keys

\* The end of a sorted sequence is sorted.
LEMMA BucketSorted ==
  ASSUME TypeOK, NEW key \in Keys, KeyAgrees(key)
  PROVE  Sorted(buckets[key])
  <1> DEFINE calls  == admitted[key]
             bucket == buckets[key]
             gone   == Len(calls) - Len(bucket)
  <1>1. /\ calls \in Seq(Nat) /\ bucket \in Seq(Nat)
        /\ Sorted(calls) /\ BucketAgrees(bucket, calls)
    BY DEF TypeOK, KeyAgrees, HistoryAgrees
  <1> HIDE DEF calls, bucket
  <1>2. Len(calls) \in Nat /\ Len(bucket) \in Nat /\ gone \in Nat
    BY <1>1 DEF BucketAgrees
  <1>3. ASSUME NEW i \in 1..Len(bucket), NEW j \in 1..Len(bucket), i <= j
        PROVE  bucket[i] <= bucket[j]
    <2>1. gone + i \in 1..Len(calls) /\ gone + j \in 1..Len(calls) /\ gone + i <= gone + j
      BY <1>2, <1>3
    <2>2. calls[gone + i] <= calls[gone + j]
      BY <1>1, <2>1 DEF Sorted
    <2> QED
      BY <1>1, <2>2 DEF BucketAgrees
  <1> QED
    BY <1>3 DEF Sorted, bucket

\* What popleft leaves agrees with the history as the bucket did, and holds
\* exactly the calls of the window.
LEMMA EvictedAgrees ==
  ASSUME TypeOK, NEW key \in Keys, KeyAgrees(key)
  PROVE  LET bucket == Evicted(buckets[key])
             gone   == Len(admitted[key]) - Len(bucket)
         IN  /\ bucket \in Seq(Nat)
             /\ Len(bucket) <= Len(buckets[key])
             /\ BucketAgrees(bucket, admitted[key])
             /\ \A i \in 1..Len(admitted[key]) : admitted[key][i] >= Cutoff <=> i > gone
  <1> DEFINE calls == admitted[key]
             old   == buckets[key]
             new   == Evicted(old)
  <1>1. calls \in Seq(Nat) /\ old \in Seq(Nat) /\ now \in Nat
    BY DEF TypeOK
  <1>2. Sorted(old)
    BY BucketSorted
  <1>3. PICK k \in 0..Len(old) :
           /\ new \in Seq(Nat)
           /\ Len(new) = Len(old) - k
           /\ \A i \in 1..(Len(old) - k) : new[i] = old[k + i]
           /\ \A i \in 1..Len(old) : old[i] < Cutoff <=> i <= k
    BY <1>1, <1>2, EvictedFacts
  <1>4. BucketAgrees(old, calls) /\ HistoryAgrees(calls)
    BY DEF KeyAgrees
  <1> HIDE DEF calls, old, new
  <1>5. Len(calls) \in Nat /\ Len(old) \in Nat /\ Cutoff \in Int
    BY <1>1, WindowType DEF Cutoff
  <1>6. \A i \in 1..Len(calls) : calls[i] \in Nat
    BY <1>1
  <1>7. \A i \in 1..Len(calls) : calls[i] < Cutoff <=> i <= Len(calls) - Len(new)
    <2> TAKE i \in 1..Len(calls)
    <2> DEFINE gone == Len(calls) - Len(old)
    <2>1. CASE i <= gone
      BY <1>3, <1>4, <1>5, <1>6, <2>1 DEF BucketAgrees
    <2>2. CASE i > gone
      <3>1. i - gone \in 1..Len(old)
        BY <1>4, <1>5, <2>2 DEF BucketAgrees
      <3>2. old[i - gone] = calls[gone + (i - gone)]
        BY <1>4, <3>1 DEF BucketAgrees
      <3>3. gone + (i - gone) = i
        BY <1>5
      <3>4. old[i - gone] = calls[i]
        BY <3>2, <3>3
      <3>5. old[i - gone] < Cutoff <=> i - gone <= k
        BY <1>3, <3>1
      <3>6. k = Len(old) - Len(new)
        BY <1>3, <1>5
      <3> QED
        BY <1>5, <3>4, <3>5, <3>6
    <2> QED
      BY <1>5, <2>1, <2>2
  <1>8. BucketAgrees(new, calls)
    <2>1. \A i \in 1..Len(new) : new[i] = calls[(Len(calls) - Len(new)) + i]
      <3> TAKE i \in 1..Len(new)
      <3>1. new[i] = old[k + i] /\ k + i \in 1..Len(old)
        BY <1>3, <1>5
      <3>2. old[k + i] = calls[(Len(calls) - Len(old)) + (k + i)]
        BY <1>4, <3>1 DEF BucketAgrees
      <3>3. (Len(calls) - Len(old)) + (k + i) = (Len(calls) - Len(new)) + i
        BY <1>3, <1>5
      <3> QED
        BY <3>1, <3>2, <3>3
    <2>2. Len(calls) - Len(new) >= 0
      BY <1>3, <1>4, <1>5 DEF BucketAgrees
    <2> QED
      BY <1>3, <1>5, <1>7, <2>1, <2>2 DEF BucketAgrees
  <1>9. \A i \in 1..Len(calls) : calls[i] >= Cutoff <=> i > Len(calls) - Len(new)
    BY <1>3, <1>5, <1>6, <1>7
  <1>10. /\ new \in Seq(Nat) /\ Len(new) <= Len(old) /\ BucketAgrees(new, calls)
         /\ \A i \in 1..Len(calls) : calls[i] >= Cutoff <=> i > Len(calls) - Len(new)
    BY <1>3, <1>5, <1>8, <1>9
  <1> QED
    BY <1>10 DEF calls, old, new

-----------------------------------------------------------------------------
(* The steps                                                               *)

\* The clock only widens what the bucket may have forgotten.
LEMMA TickStep ==
  ASSUME IInv, Tick
  PROVE  IInv'
  <1>1. now' = now + 1 /\ UNCHANGED << buckets, admitted, hints >>
    BY DEF Tick
  <1>2. TypeOK'
    BY <1>1 DEF IInv, TypeOK
  <1>3. ASSUME NEW key \in Keys PROVE KeyAgrees(key)'
    <2>1. admitted[key] \in Seq(Nat) /\ buckets[key] \in Seq(Nat) /\ KeyAgrees(key) /\ now \in Nat
      BY DEF IInv, TypeOK
    <2>2. HistoryAgrees(admitted[key])'
      BY <1>1, <2>1 DEF KeyAgrees, HistoryAgrees, Sorted
    <2>3. Cutoff' = Cutoff + 1 /\ Cutoff \in Int
      BY <1>1, <2>1, WindowType DEF Cutoff, WindowTicks
    <2> DEFINE calls  == admitted[key]
               bucket == buckets[key]
               gone   == Len(calls) - Len(bucket)
    <2>4. calls \in Seq(Nat) /\ bucket \in Seq(Nat) /\ BucketAgrees(bucket, calls)
      BY <2>1 DEF KeyAgrees
    <2>5. \A i \in 1..gone : calls[i] < Cutoff + 1
      <3> HIDE DEF calls, bucket
      <3> SUFFICES ASSUME NEW i \in 1..gone PROVE calls[i] < Cutoff + 1
        OBVIOUS
      <3>1. calls[i] < Cutoff /\ i \in 1..Len(calls)
        BY <2>4 DEF BucketAgrees
      <3>2. calls[i] \in Nat
        BY <2>4, <3>1
      <3> QED
        BY <2>3, <3>1, <3>2
    <2>6. BucketAgrees(buckets[key], admitted[key])'
      BY <1>1, <2>1, <2>3, <2>5 DEF KeyAgrees, BucketAgrees
    <2> QED
      BY <1>1, <2>1, <2>2, <2>6 DEF KeyAgrees, Spaced, HintAgrees, WindowTicks
  <1> QED
    BY <1>2, <1>3 DEF IInv

\* A new process starts with nothing.
LEMMA RestartStep ==
  ASSUME IInv, Restart
  PROVE  IInv'
  <1>1. TypeOK'
    BY DEF IInv, TypeOK, Restart
  <1>2. ASSUME NEW key \in Keys PROVE KeyAgrees(key)'
    BY LimitType DEF Restart, KeyAgrees, HistoryAgrees, BucketAgrees, Spaced, HintAgrees, Sorted
  <1> QED
    BY <1>1, <1>2 DEF IInv

\* The keys that a call does not name stay as they are.
LEMMA OtherKeys ==
  ASSUME IInv, UNCHANGED now, NEW key \in Keys,
         buckets'[key] = buckets[key], admitted'[key] = admitted[key], hints'[key] = hints[key]
  PROVE  KeyAgrees(key)'
  BY DEF IInv, KeyAgrees, HistoryAgrees, BucketAgrees, Spaced, HintAgrees, Sorted, Cutoff,
    WindowTicks

\* The diagnostics evict and do nothing else.
LEMMA StateStep ==
  ASSUME IInv, NEW user \in Users, NEW action \in Actions, State(user, action)
  PROVE  IInv'
  <1> DEFINE key == << user, action >>
  <1>1. key \in Keys
    BY DEF Keys
  <1>2. TypeOK /\ KeyAgrees(key)
    BY <1>1 DEF IInv
  <1>3. buckets' = [buckets EXCEPT ![key] = Evicted(@)] /\ UNCHANGED << now, admitted, hints >>
    BY DEF State
  <1>4. /\ Evicted(buckets[key]) \in Seq(Nat)
        /\ Len(Evicted(buckets[key])) <= Len(buckets[key])
        /\ BucketAgrees(Evicted(buckets[key]), admitted[key])
    BY <1>1, <1>2, EvictedAgrees
  <1> HIDE DEF key
  <1>5. TypeOK'
    BY <1>1, <1>2, <1>3, <1>4 DEF TypeOK
  <1>6. buckets'[key] = Evicted(buckets[key])
    BY <1>1, <1>2, <1>3 DEF TypeOK
  <1>7. KeyAgrees(key)'
    <2>1. BucketAgrees(buckets[key], admitted[key])'
      BY <1>3, <1>4, <1>6 DEF BucketAgrees, Cutoff, WindowTicks
    <2>2. Len(buckets'[key]) <= MaxCalls[key[2]]
      BY <1>1, <1>2, <1>4, <1>6, LimitType DEF KeyAgrees, TypeOK
    <2> QED
      BY <1>2, <1>3, <2>1, <2>2 DEF KeyAgrees, HistoryAgrees, Spaced, HintAgrees, Sorted, WindowTicks
  <1>8. ASSUME NEW k \in Keys, k # key PROVE KeyAgrees(k)'
    BY <1>2, <1>3, <1>8, OtherKeys DEF TypeOK
  <1> QED
    BY <1>5, <1>7, <1>8 DEF IInv

\* Who is refused has as many calls in the window as the limit allows.
LEMMA RefusedBucket ==
  ASSUME IInv, NEW user \in Users, NEW action \in Actions, Refuse(user, action)
  PROVE  Len(Evicted(buckets[<< user, action >>])) = MaxCalls[action]
  <1> DEFINE key == << user, action >>
  <1>1. key \in Keys /\ key[2] = action
    BY DEF Keys
  <1>2. TypeOK /\ KeyAgrees(key)
    BY <1>1 DEF IInv
  <1>3. /\ Evicted(buckets[key]) \in Seq(Nat)
        /\ Len(Evicted(buckets[key])) <= Len(buckets[key])
    BY <1>1, <1>2, EvictedAgrees
  <1>4. buckets[key] \in Seq(Nat) /\ Len(buckets[key]) <= MaxCalls[action]
    BY <1>1, <1>2 DEF TypeOK, KeyAgrees
  <1>5. MaxCalls[action] \in Nat
    BY RateLimitAssumption
  <1>6. ~(Len(Evicted(buckets[key])) < MaxCalls[action])
    BY DEF Refuse, HasRoom
  <1> HIDE DEF key
  <1> QED
    BY <1>3, <1>4, <1>5, <1>6 DEF key

\* The hint is less than a second short of the end of the oldest call's window.
LEMMA RetryAfterFacts ==
  ASSUME now \in Nat, NEW bucket \in Seq(Nat), Len(bucket) > 0
  PROVE  LET hint == now + RetryAfter(bucket) * SecondTicks
         IN  hint \in Int /\ bucket[1] + WindowTicks < hint + SecondTicks
  <1> DEFINE rest == bucket[1] + WindowTicks - now
             wait == IF rest < SecondTicks THEN SecondTicks ELSE rest
             secs == wait \div SecondTicks
  <1>1. SecondTicks \in Nat \ {0}
    BY RateLimitAssumption
  <1>2. bucket[1] \in Nat
    OBVIOUS
  <1>3. rest \in Int /\ wait \in Int /\ wait >= rest
    BY <1>1, <1>2, WindowType
  <1>4. RetryAfter(bucket) = secs
    BY DEF RetryAfter
  <1> HIDE DEF wait
  <1>5. secs \in Int /\ wait - SecondTicks < secs * SecondTicks
    BY <1>1, <1>3
  <1>6. secs * SecondTicks \in Int
    BY <1>1, <1>5
  <1> HIDE DEF secs
  <1>7. now + secs * SecondTicks + SecondTicks > now + rest
    BY <1>1, <1>3, <1>5, <1>6
  <1>8. now + secs * SecondTicks \in Int
    BY <1>1, <1>6
  <1> QED
    BY <1>1, <1>2, <1>3, <1>4, <1>7, <1>8, WindowType

\* A refusal evicts and gives the hint.
LEMMA RefuseStep ==
  ASSUME IInv, NEW user \in Users, NEW action \in Actions, Refuse(user, action)
  PROVE  IInv'
  <1> DEFINE key    == << user, action >>
             bucket == Evicted(buckets[key])
             calls  == admitted[key]
             max    == MaxCalls[action]
             hint   == now + RetryAfter(bucket) * SecondTicks
  <1>1. key \in Keys /\ key[2] = action
    BY DEF Keys
  <1>2. TypeOK /\ KeyAgrees(key) /\ now \in Nat
    BY <1>1 DEF IInv, TypeOK
  <1>3. /\ buckets' = [buckets EXCEPT ![key] = bucket]
        /\ hints' = [hints EXCEPT ![key] = hint]
        /\ UNCHANGED << now, admitted >>
    BY DEF Refuse
  <1>4. bucket \in Seq(Nat) /\ BucketAgrees(bucket, calls)
    BY <1>1, <1>2, EvictedAgrees
  <1>5. Len(bucket) = max
    BY RefusedBucket
  <1>6. max \in Nat \ {0}
    BY RateLimitAssumption
  <1>7. hint \in Int /\ bucket[1] + WindowTicks < hint + SecondTicks
    BY <1>2, <1>4, <1>5, <1>6, RetryAfterFacts
  <1>8. calls \in Seq(Nat)
    BY <1>1, <1>2 DEF TypeOK
  <1> HIDE DEF key, bucket, calls, max, hint
  <1>9. TypeOK'
    BY <1>1, <1>2, <1>3, <1>4, <1>7 DEF TypeOK
  <1>10. buckets'[key] = bucket /\ hints'[key] = hint /\ admitted'[key] = calls
    BY <1>1, <1>2, <1>3 DEF TypeOK, calls
  <1>11. KeyAgrees(key)'
    <2>1. BucketAgrees(buckets[key], admitted[key])'
      BY <1>3, <1>4, <1>10 DEF BucketAgrees, Cutoff, WindowTicks
    <2>2. HintAgrees(hint, calls, max)
      <3>1. Len(calls) - Len(bucket) >= 0 /\ bucket[1] = calls[(Len(calls) - Len(bucket)) + 1]
        BY <1>4, <1>5, <1>6 DEF BucketAgrees
      <3> QED
        BY <1>5, <1>6, <1>7, <1>8, <3>1 DEF HintAgrees
    <2>3. HintAgrees(hints[key], admitted[key], MaxCalls[key[2]])'
      BY <1>1, <1>10, <2>2 DEF HintAgrees, WindowTicks, max
    <2> QED
      BY <1>1, <1>2, <1>3, <1>5, <1>6, <1>10, <2>1, <2>3
        DEF KeyAgrees, HistoryAgrees, Spaced, Sorted, WindowTicks, max
  <1>12. ASSUME NEW k \in Keys, k # key PROVE KeyAgrees(k)'
    BY <1>2, <1>3, <1>12, OtherKeys DEF TypeOK
  <1> QED
    BY <1>9, <1>11, <1>12 DEF IInv

\* An admitted call joins the history and the bucket.
LEMMA AdmitStep ==
  ASSUME IInv, NEW user \in Users, NEW action \in Actions, Admit(user, action)
  PROVE  IInv'
  <1> DEFINE key    == << user, action >>
             bucket == Evicted(buckets[key])
             calls  == admitted[key]
             max    == MaxCalls[action]
             more   == Append(calls, now)
             full   == Append(bucket, now)
  <1>1. key \in Keys /\ key[2] = action
    BY DEF Keys
  <1>2. TypeOK /\ KeyAgrees(key) /\ now \in Nat
    BY <1>1 DEF IInv, TypeOK
  <1>3. /\ Len(bucket) < max
        /\ buckets' = [buckets EXCEPT ![key] = full]
        /\ admitted' = [admitted EXCEPT ![key] = more]
        /\ hints' = [hints EXCEPT ![key] = -1]
        /\ UNCHANGED now
    BY <1>1, <1>2 DEF Admit, HasRoom, TypeOK
  <1>4. /\ bucket \in Seq(Nat) /\ BucketAgrees(bucket, calls)
        /\ \A i \in 1..Len(calls) : calls[i] >= Cutoff <=> i > Len(calls) - Len(bucket)
    BY <1>1, <1>2, EvictedAgrees
  <1>5. max \in Nat \ {0}
    BY RateLimitAssumption
  <1>6. calls \in Seq(Nat) /\ HistoryAgrees(calls) /\ Spaced(calls, max)
    BY <1>1, <1>2 DEF TypeOK, KeyAgrees
  <1> HIDE DEF key, bucket, calls, max
  <1>7. /\ more \in Seq(Nat) /\ Len(more) = Len(calls) + 1
        /\ \A i \in 1..Len(calls) : more[i] = calls[i]
        /\ more[Len(calls) + 1] = now
    BY <1>2, <1>6, AppendProperties
  <1>8. /\ full \in Seq(Nat) /\ Len(full) = Len(bucket) + 1
        /\ \A i \in 1..Len(bucket) : full[i] = bucket[i]
        /\ full[Len(bucket) + 1] = now
    BY <1>2, <1>4, AppendProperties
  <1> HIDE DEF more, full
  <1>9. TypeOK'
    BY <1>1, <1>2, <1>3, <1>7, <1>8 DEF TypeOK
  <1>10. buckets'[key] = full /\ admitted'[key] = more /\ hints'[key] = -1
    BY <1>1, <1>2, <1>3 DEF TypeOK
  <1>11. Len(calls) \in Nat /\ Len(bucket) \in Nat /\ Cutoff \in Int
    BY <1>2, <1>4, <1>6, WindowType DEF Cutoff
  <1>12. \A i \in 1..Len(calls) : calls[i] \in Nat
    BY <1>6
  <1>13. HistoryAgrees(more)
    <2>1. ASSUME NEW i \in 1..Len(more)
          PROVE  more[i] <= now
      <3>1. \A k \in 1..Len(calls) : calls[k] <= now
        BY <1>6 DEF HistoryAgrees
      <3>2. CASE i = Len(calls) + 1
        BY <1>2, <1>7, <3>2
      <3>3. CASE i # Len(calls) + 1
        <4>1. i \in 1..Len(calls)
          BY <1>7, <1>11, <3>3
        <4> QED
          BY <1>7, <3>1, <4>1
      <3> QED
        BY <3>2, <3>3
    <2>2. ASSUME NEW i \in 1..Len(more), NEW j \in 1..Len(more), i <= j
          PROVE  more[i] <= more[j]
      <3>1. CASE j = Len(calls) + 1
        BY <1>7, <2>1, <3>1
      <3>2. CASE j # Len(calls) + 1
        <4>1. i \in 1..Len(calls) /\ j \in 1..Len(calls)
          BY <1>7, <1>11, <2>2, <3>2
        <4>2. calls[i] <= calls[j]
          BY <1>6, <2>2, <4>1 DEF HistoryAgrees, Sorted
        <4> QED
          BY <1>7, <4>1, <4>2
      <3> QED
        BY <3>1, <3>2
    <2> QED
      BY <2>1, <2>2 DEF HistoryAgrees, Sorted
  <1>14. BucketAgrees(full, more)
    <2> DEFINE gone == Len(calls) - Len(bucket)
    <2>1. gone >= 0 /\ gone \in Int /\ Len(more) - Len(full) = gone
      BY <1>4, <1>7, <1>8, <1>11 DEF BucketAgrees
    <2>2. \A i \in 1..gone : more[i] < Cutoff
      <3> TAKE i \in 1..gone
      <3>1. i \in 1..Len(calls)
        BY <1>11, <2>1
      <3> QED
        BY <1>4, <1>7, <3>1 DEF BucketAgrees
    <2>3. \A i \in 1..Len(full) : full[i] = more[gone + i]
      <3> TAKE i \in 1..Len(full)
      <3>1. CASE i = Len(bucket) + 1
        <4>1. gone + i = Len(calls) + 1
          BY <1>11, <3>1
        <4> QED
          BY <1>7, <1>8, <3>1, <4>1
      <3>2. CASE i # Len(bucket) + 1
        <4>1. i \in 1..Len(bucket) /\ gone + i \in 1..Len(calls)
          BY <1>8, <1>11, <2>1, <3>2
        <4>2. bucket[i] = calls[gone + i]
          BY <1>4, <4>1 DEF BucketAgrees
        <4> QED
          BY <1>7, <1>8, <4>1, <4>2
      <3> QED
        BY <3>1, <3>2
    <2> HIDE DEF gone
    <2> QED
      BY <2>1, <2>2, <2>3 DEF BucketAgrees
  <1>15. Spaced(more, max)
    <2> SUFFICES ASSUME NEW i \in 1..Len(more), i > max
                 PROVE  more[i - max] < more[i] - WindowTicks
      BY DEF Spaced
    <2>1. i - max \in 1..Len(calls)
      BY <1>5, <1>7, <1>11
    <2>2. CASE i <= Len(calls)
      <3>1. i \in 1..Len(calls) /\ calls[i - max] < calls[i] - WindowTicks
        BY <1>6, <1>7, <1>11, <2>2 DEF Spaced
      <3> QED
        BY <1>7, <2>1, <3>1
    <2>3. CASE i = Len(calls) + 1
      <3>1. ~(i - max > Len(calls) - Len(bucket))
        BY <1>3, <1>5, <1>11, <2>3
      <3>2. calls[i - max] < Cutoff
        BY <1>4, <1>11, <1>12, <2>1, <3>1
      <3> QED
        BY <1>7, <2>1, <2>3, <3>2 DEF Cutoff
    <2> QED
      BY <1>7, <1>11, <2>2, <2>3
  <1>16. KeyAgrees(key)'
    <2>1. HistoryAgrees(admitted[key])' /\ BucketAgrees(buckets[key], admitted[key])'
      BY <1>3, <1>10, <1>13, <1>14 DEF HistoryAgrees, BucketAgrees, Sorted, Cutoff, WindowTicks
    <2>2. Len(buckets'[key]) <= MaxCalls[key[2]]
      BY <1>1, <1>3, <1>5, <1>8, <1>10, <1>11 DEF max
    <2>3. Spaced(admitted[key], MaxCalls[key[2]])'
      BY <1>1, <1>10, <1>15 DEF Spaced, WindowTicks, max
    <2>4. HintAgrees(hints[key], admitted[key], MaxCalls[key[2]])'
      BY <1>10 DEF HintAgrees
    <2> QED
      BY <2>1, <2>2, <2>3, <2>4 DEF KeyAgrees
  <1>17. ASSUME NEW k \in Keys, k # key PROVE KeyAgrees(k)'
    BY <1>2, <1>3, <1>17, OtherKeys DEF TypeOK
  <1> QED
    BY <1>9, <1>16, <1>17 DEF IInv

\* The limiter starts with nothing.
LEMMA InitIInv == Init => IInv
  <1> SUFFICES ASSUME Init PROVE IInv
    OBVIOUS
  <1>1. TypeOK
    BY DEF Init, TypeOK
  <1>2. ASSUME NEW key \in Keys PROVE KeyAgrees(key)
    BY LimitType DEF Init, KeyAgrees, HistoryAgrees, BucketAgrees, Spaced, HintAgrees, Sorted
  <1> QED
    BY <1>1, <1>2 DEF IInv

LEMMA StepIInv == IInv /\ [Next]_vars => IInv'
  <1> SUFFICES ASSUME IInv, [Next]_vars PROVE IInv'
    OBVIOUS
  <1>1. CASE UNCHANGED vars
    BY <1>1 DEF vars, IInv, TypeOK, KeyAgrees, HistoryAgrees, BucketAgrees, Spaced, HintAgrees,
      Sorted, Cutoff, WindowTicks
  <1> QED
    BY <1>1, AdmitStep, RefuseStep, StateStep, RestartStep, TickStep DEF Next

LEMMA Invariance == Spec => []IInv
  BY InitIInv, StepIInv, PTL DEF Spec

-----------------------------------------------------------------------------
(* Theorems                                                                *)

\* The calls of a window are consecutive.
LEMMA CallsAreConsecutive ==
  ASSUME IInv, NEW key \in Keys, NEW t \in Int
  PROVE  LET calls == admitted[key] IN
         \E d, e \in 0..Len(calls) :
           /\ {i \in DOMAIN calls : calls[i] \in (t - WindowTicks)..t} = (d + 1)..e
           /\ CallsInWindow(key, t) = IF d < e THEN e - d ELSE 0
           /\ \A i \in 1..Len(calls) : calls[i] < t - WindowTicks <=> i <= d
           /\ \A i \in 1..Len(calls) : calls[i] <= t <=> i <= e
  <1> DEFINE calls == admitted[key]
             D == {i \in 1..Len(calls) : calls[i] < t - WindowTicks}
             E == {i \in 1..Len(calls) : calls[i] <= t}
             d == Cardinality(D)
             e == Cardinality(E)
  <1>1. calls \in Seq(Nat) /\ Sorted(calls)
    BY DEF IInv, TypeOK, KeyAgrees, HistoryAgrees
  <1>2. CallsInWindow(key, t) = Cardinality({i \in DOMAIN calls : calls[i] \in (t - WindowTicks)..t})
    BY DEF CallsInWindow
  <1> HIDE DEF calls
  <1>3. Len(calls) \in Nat /\ DOMAIN calls = 1..Len(calls) /\ \A i \in 1..Len(calls) : calls[i] \in Nat
    BY <1>1
  <1>4. d \in 0..Len(calls) /\ D = 1..d
    <2>1. \A i \in D : \A j \in 1..i : j \in D
      BY <1>1, <1>3, WindowType DEF Sorted
    <2> QED
      BY <1>3, <2>1, InitialSegment
  <1>5. e \in 0..Len(calls) /\ E = 1..e
    <2>1. \A i \in E : \A j \in 1..i : j \in E
      BY <1>1, <1>3 DEF Sorted
    <2> QED
      BY <1>3, <2>1, InitialSegment
  <1>6. \A i \in 1..Len(calls) : calls[i] < t - WindowTicks <=> i <= d
    <2>1. \A i \in 1..Len(calls) : i \in D <=> i <= d
      BY <1>4
    <2> QED
      BY <2>1
  <1>7. \A i \in 1..Len(calls) : calls[i] <= t <=> i <= e
    <2>1. \A i \in 1..Len(calls) : i \in E <=> i <= e
      BY <1>5
    <2> QED
      BY <2>1
  <1> HIDE DEF d, e
  <1>8. {i \in DOMAIN calls : calls[i] \in (t - WindowTicks)..t} = (d + 1)..e
    BY <1>3, <1>4, <1>5, <1>6, <1>7, WindowType
  <1>9. Cardinality((d + 1)..e) = IF d < e THEN e - d ELSE 0
    <2>1. d + 1 \in Int /\ e \in Int /\ d \in Int
      BY <1>4, <1>5
    <2>2. Cardinality((d + 1)..e) = IF d + 1 > e THEN 0 ELSE e - (d + 1) + 1
      BY <2>1, FS_Interval
    <2> QED
      BY <2>1, <2>2
  <1> QED
    BY <1>2, <1>4, <1>5, <1>6, <1>7, <1>8, <1>9 DEF calls

\* No window, wherever it is laid, holds more calls than the limit.
LEMMA BudgetFacts ==
  ASSUME IInv, NEW key \in Keys, NEW t \in Int
  PROVE  CallsInWindow(key, t) <= MaxCalls[key[2]]
  <1> DEFINE calls == admitted[key]
             max   == MaxCalls[key[2]]
  <1>1. PICK d, e \in 0..Len(calls) :
           /\ CallsInWindow(key, t) = IF d < e THEN e - d ELSE 0
           /\ \A i \in 1..Len(calls) : calls[i] < t - WindowTicks <=> i <= d
           /\ \A i \in 1..Len(calls) : calls[i] <= t <=> i <= e
    BY CallsAreConsecutive
  <1>2. calls \in Seq(Nat) /\ Spaced(calls, max)
    BY DEF IInv, TypeOK, KeyAgrees
  <1>3. max \in Nat \ {0}
    BY LimitType
  <1> HIDE DEF calls, max
  <1>4. Len(calls) \in Nat /\ \A i \in 1..Len(calls) : calls[i] \in Nat
    BY <1>2
  <1>5. ASSUME d + max < e PROVE FALSE
    <2>1. e \in 1..Len(calls) /\ e - max \in 1..Len(calls) /\ e > max /\ ~(e - max <= d)
      BY <1>3, <1>4, <1>5
    <2>2. calls[e - max] < calls[e] - WindowTicks /\ calls[e] <= t
      BY <1>1, <1>2, <2>1 DEF Spaced
    <2>3. ~(calls[e - max] < t - WindowTicks)
      BY <1>1, <2>1
    <2> QED
      BY <1>4, <2>1, <2>2, <2>3, WindowType
  <1> QED
    BY <1>1, <1>3, <1>4, <1>5 DEF max

\* However calls, refusals, diagnostics and restarts are spread over it, no
\* window holds more admitted calls than the limit.
THEOREM BudgetSafety == Spec => []WindowBudget
  <1>1. IInv => WindowBudget
    BY BudgetFacts DEF WindowBudget, IInv, TypeOK
  <1> QED
    BY <1>1, Invariance, PTL

\* Nobody is refused who has not spent the budget of the window that ends now.
THEOREM RefusalSafety == Spec => RefusedOnlyWhenSpent
  <1> DEFINE Spent == \A user \in Users, action \in Actions :
               Refuse(user, action) => CallsInWindow(<< user, action >>, now) = MaxCalls[action]
  <1>1. ASSUME IInv, NEW user \in Users, NEW action \in Actions, Refuse(user, action)
        PROVE  CallsInWindow(<< user, action >>, now) = MaxCalls[action]
    <2> DEFINE key    == << user, action >>
               calls  == admitted[key]
               bucket == Evicted(buckets[key])
    <2>1. key \in Keys /\ TypeOK /\ KeyAgrees(key) /\ now \in Int
      BY <1>1 DEF Keys, IInv, TypeOK
    <2>2. PICK d, e \in 0..Len(calls) :
             /\ CallsInWindow(key, now) = IF d < e THEN e - d ELSE 0
             /\ \A i \in 1..Len(calls) : calls[i] < now - WindowTicks <=> i <= d
             /\ \A i \in 1..Len(calls) : calls[i] <= now <=> i <= e
      BY <1>1, <2>1, CallsAreConsecutive
    <2>3. /\ bucket \in Seq(Nat) /\ BucketAgrees(bucket, calls)
          /\ \A i \in 1..Len(calls) : calls[i] >= Cutoff <=> i > Len(calls) - Len(bucket)
      BY <2>1, EvictedAgrees
    <2>4. Len(bucket) = MaxCalls[action] /\ MaxCalls[action] \in Nat \ {0}
      BY <1>1, RefusedBucket, RateLimitAssumption
    <2>5. calls \in Seq(Nat) /\ HistoryAgrees(calls)
      BY <2>1 DEF TypeOK, KeyAgrees
    <2> HIDE DEF calls, bucket
    <2>6. Len(calls) \in Nat /\ \A i \in 1..Len(calls) : calls[i] \in Nat
      BY <2>5
    <2>7. Len(calls) >= Len(bucket) /\ Len(calls) > 0
      BY <2>3, <2>4, <2>6 DEF BucketAgrees
    <2>8. e = Len(calls)
      <3>1. Len(calls) \in 1..Len(calls) /\ calls[Len(calls)] <= now
        BY <2>5, <2>6, <2>7 DEF HistoryAgrees
      <3> QED
        BY <2>2, <2>6, <3>1
    <2>9. d = Len(calls) - Len(bucket)
      <3> DEFINE gone == Len(calls) - Len(bucket)
      <3>1. gone \in 0..Len(calls)
        BY <2>3, <2>4, <2>6, <2>7
      <3>2. ASSUME NEW i \in 1..Len(calls) PROVE i <= d <=> i <= gone
        <4>1. calls[i] \in Nat /\ now - WindowTicks \in Int
          BY <2>1, <2>6, WindowType
        <4>2. calls[i] < now - WindowTicks <=> i <= d
          BY <2>2
        <4>3. calls[i] >= now - WindowTicks <=> i > gone
          BY <2>3 DEF Cutoff
        <4> QED
          BY <2>6, <3>1, <4>1, <4>2, <4>3
      <3> HIDE DEF gone
      <3>3. d <= gone
        BY <2>6, <3>1, <3>2
      <3>4. gone <= d
        BY <2>6, <3>1, <3>2
      <3> QED
        BY <3>1, <3>3, <3>4 DEF gone
    <2> QED
      BY <2>2, <2>4, <2>6, <2>7, <2>8, <2>9
  <1>2. IInv /\ [Next]_vars => [Spent]_vars
    BY <1>1
  <1>3. RefusedOnlyWhenSpent <=> [][Spent]_vars
    BY PTL DEF RefusedOnlyWhenSpent
  <1> QED
    BY <1>2, <1>3, Invariance, PTL DEF Spec

\* A caller who stayed away until one second after the hint is not refused.
THEOREM BackoffSafety == Spec => BackoffPlusOneSuffices
  <1> DEFINE Early == \A user \in Users, action \in Actions :
               Refuse(user, action) =>
                 LET hint == hints[<< user, action >>] IN hint >= 0 => now < hint + SecondTicks
  <1>1. ASSUME IInv, NEW user \in Users, NEW action \in Actions, Refuse(user, action),
               hints[<< user, action >>] >= 0
        PROVE  now < hints[<< user, action >>] + SecondTicks
    <2> DEFINE key    == << user, action >>
               calls  == admitted[key]
               bucket == Evicted(buckets[key])
               oldest == calls[Len(calls) - Len(bucket) + 1]
    <2>1. key \in Keys /\ key[2] = action /\ TypeOK /\ KeyAgrees(key) /\ now \in Int
      BY <1>1 DEF Keys, IInv, TypeOK
    <2>2. Len(bucket) = MaxCalls[action] /\ MaxCalls[action] \in Nat \ {0}
      BY <1>1, RefusedBucket, RateLimitAssumption
    <2>3. /\ bucket \in Seq(Nat) /\ BucketAgrees(bucket, calls)
          /\ \A i \in 1..Len(calls) : calls[i] >= Cutoff <=> i > Len(calls) - Len(bucket)
      BY <2>1, EvictedAgrees
    <2>4. calls \in Seq(Nat) /\ hints[key] \in Int /\ HintAgrees(hints[key], calls, Len(bucket))
      BY <2>1, <2>2 DEF TypeOK, KeyAgrees
    <2>5. oldest + WindowTicks < hints[key] + SecondTicks
      BY <1>1, <2>4 DEF HintAgrees
    <2> HIDE DEF calls, bucket
    <2>6. Len(calls) - Len(bucket) + 1 \in 1..Len(calls)
      BY <2>2, <2>3, <2>4 DEF BucketAgrees
    <2>7. oldest >= Cutoff /\ oldest \in Nat
      <3>1. oldest \in Nat
        BY <2>4, <2>6
      <3>2. Len(calls) - Len(bucket) + 1 > Len(calls) - Len(bucket)
        BY <2>3, <2>4
      <3> QED
        BY <2>3, <2>6, <3>1, <3>2
    <2>8. SecondTicks \in Nat
      BY RateLimitAssumption
    <2> HIDE DEF oldest, key
    <2>9. now < hints[key] + SecondTicks
      BY <2>1, <2>4, <2>5, <2>7, <2>8, WindowType DEF Cutoff
    <2> QED
      BY <2>9 DEF key
  <1>2. IInv /\ [Next]_vars => [Early]_vars
    BY <1>1
  <1>3. BackoffPlusOneSuffices <=> [][Early]_vars
    BY PTL DEF BackoffPlusOneSuffices
  <1> QED
    BY <1>2, <1>3, Invariance, PTL DEF Spec

=============================================================================

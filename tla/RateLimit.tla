------------------------------- MODULE RateLimit -------------------------------
(***************************************************************************)
(* core/rate_limit.py: the sliding window that POST /pois, /confirm, the   *)
(* removal proposals and the reports call before anything else.  A call is *)
(* one step: it runs under the lock and on one event loop.  The buckets    *)
(* live in the process, so a restart forgets them.                         *)
(*                                                                         *)
(* Time is counted in ticks, SecondTicks of them to a second, because      *)
(* time.time() is a fraction of a second and the hint a whole number.      *)
(***************************************************************************)
EXTENDS Integers, Sequences, FiniteSets

CONSTANTS
  Users,        \* accounts
  Actions,      \* actions with a configured limit
  MaxCalls,     \* calls of an action in a window
  Window,       \* its length in seconds
  SecondTicks,  \* ticks in a second
  MaxNow        \* bound: the clock stops here

ASSUME RateLimitAssumption ==
  /\ MaxCalls \in [Actions -> Nat \ {0}]
  /\ Window \in Nat \ {0} /\ SecondTicks \in Nat \ {0} /\ MaxNow \in Nat

VARIABLES
  buckets,   \* times of the calls counted, oldest first
  now,       \* time.time()
  admitted,  \* history: times of all calls let through since the process started
  hints      \* history: when the last refusal told the caller to come back, or -1

vars == << buckets, now, admitted, hints >>

Keys == Users \X Actions

Init ==
  /\ buckets = [key \in Keys |-> << >>]
  /\ now = 0
  /\ admitted = [key \in Keys |-> << >>]
  /\ hints = [key \in Keys |-> -1]

-----------------------------------------------------------------------------

WindowTicks == Window * SecondTicks

\* Mutants: a call counts no longer when it is exactly one window old; a call
\* counts for as long as the process lives.
StaleAtTheEdge(bucket) == {i \in DOMAIN bucket : \A j \in 1..i : bucket[j] <= now - WindowTicks}
NeverStale(bucket) == {}

\* The calls at the head of the bucket that are older than the window.
Stale(bucket) == {i \in DOMAIN bucket : \A j \in 1..i : bucket[j] < now - WindowTicks}

\* _evict: popleft while the oldest call is older than the window.
Evicted(bucket) == SubSeq(bucket, Cardinality(Stale(bucket)) + 1, Len(bucket))

HasRoom(bucket, action) == Len(bucket) < MaxCalls[action]

\* Mutant: the age of the oldest call instead of what is left of its window.
AgeOfOldest(bucket) == (now - bucket[1]) \div SecondTicks

\* retry_after: the rest of the oldest call's window in whole seconds, at least one.
RetryAfter(bucket) ==
  LET rest == bucket[1] + WindowTicks - now IN
    (IF rest < SecondTicks THEN SecondTicks ELSE rest) \div SecondTicks

\* hit: the call is counted and let through.
Admit(user, action) ==
  LET key == << user, action >>  bucket == Evicted(buckets[key]) IN
    /\ HasRoom(bucket, action)
    /\ buckets' = [buckets EXCEPT ![key] = Append(bucket, now)]
    /\ admitted' = [admitted EXCEPT ![key] = Append(@, now)]
    /\ hints' = [hints EXCEPT ![key] = -1]
    /\ UNCHANGED now

\* hit: RateLimitExceeded, which the routers answer with 429 and Retry-After.
Refuse(user, action) ==
  LET key == << user, action >>  bucket == Evicted(buckets[key]) IN
    /\ ~HasRoom(bucket, action)
    /\ buckets' = [buckets EXCEPT ![key] = bucket]
    /\ hints' = [hints EXCEPT ![key] = now + RetryAfter(bucket) * SecondTicks]
    /\ UNCHANGED << now, admitted >>

\* state: the diagnostics evict, too.
State(user, action) ==
  /\ buckets' = [buckets EXCEPT ![<< user, action >>] = Evicted(@)]
  /\ UNCHANGED << now, admitted, hints >>

\* A new process has a new limiter.
Restart ==
  /\ buckets' = [key \in Keys |-> << >>]
  /\ admitted' = [key \in Keys |-> << >>]
  /\ hints' = [key \in Keys |-> -1]
  /\ UNCHANGED now

Tick ==
  /\ now < MaxNow
  /\ now' = now + 1
  /\ UNCHANGED << buckets, admitted, hints >>

Next ==
  \/ \E user \in Users, action \in Actions :
       Admit(user, action) \/ Refuse(user, action) \/ State(user, action)
  \/ Restart
  \/ Tick

Spec == Init /\ [][Next]_vars

-----------------------------------------------------------------------------
(* Properties                                                              *)

\* The calls let through during the window that ends at time t, both ends included.
CallsInWindow(key, t) ==
  Cardinality({i \in DOMAIN admitted[key] : admitted[key][i] \in (t - WindowTicks)..t})

\* Wherever a window is laid, and however calls, diagnostics and refusals are
\* spread over it, no more calls than the limit got through while the process
\* lived: the budget does not come back at once as with fixed windows.
WindowBudget ==
  \A key \in Keys, t \in 0..now : CallsInWindow(key, t) <= MaxCalls[key[2]]

\* A caller is refused only when their own calls of this action in the last
\* window have spent the budget: refusals and diagnostics cost nothing.
RefusedOnlyWhenSpent ==
  [][\A user \in Users, action \in Actions :
       Refuse(user, action) => CallsInWindow(<< user, action >>, now) = MaxCalls[action]]_vars

\* Whoever waits one second longer than Retry-After said and made no call since
\* is let through.  Without that second the call may be refused again: the hint
\* is rounded down, and a call of exactly one window ago still counts.
BackoffPlusOneSuffices ==
  [][\A user \in Users, action \in Actions :
       Refuse(user, action) =>
         LET hint == hints[<< user, action >>] IN hint >= 0 => now < hint + SecondTicks]_vars

=============================================================================

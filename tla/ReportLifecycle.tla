--------------------------- MODULE ReportLifecycle ---------------------------
(***************************************************************************)
(* What the handlers and the expiry job promise about a status report,     *)
(* without sessions, copies, counters or reputation: distinct people other *)
(* than its author back it; its author closes it at any time, others when  *)
(* the delay has passed, staff when they dismiss it and the job when it    *)
(* has outlived its life; no closed report is open again.  The promise is  *)
(* one sided, as the code is: of two sessions that close a report at the   *)
(* same time the last one says how it ended, and whoever began to back it  *)
(* while it was open still may.                                            *)
(***************************************************************************)
EXTENDS Integers

CONSTANTS
  People,      \* users
  Staff,       \* users who may dismiss a report
  Subjects,    \* ids of reports
  Nobody,      \* whoever has not filed or closed a report
  Delay,       \* how long only the author may call it resolved
  Life         \* how long it may stay open

VARIABLES
  author,      \* who filed each report
  state,       \* absent, active, resolved, expired or dismissed
  closer,      \* the person who closed it, if anybody did
  filed,       \* when the author began to file it
  backers,     \* people who confirmed it
  told,        \* what the author was told of: resolved, expired
  clock

lifecycle == << author, state, closer, filed, backers, told, clock >>

Init ==
  /\ author = [i \in Subjects |-> Nobody]
  /\ state = [i \in Subjects |-> "absent"]
  /\ closer = [i \in Subjects |-> Nobody]
  /\ filed = [i \in Subjects |-> 0]
  /\ backers = [i \in Subjects |-> {}]
  /\ told = [i \in Subjects |-> {}]
  /\ clock = 0

File(i, u) ==
  /\ state[i] = "absent"
  /\ author' = [author EXCEPT ![i] = u]
  /\ state' = [state EXCEPT ![i] = "active"]
  /\ \E begun \in 0..clock : filed' = [filed EXCEPT ![i] = begun]
  /\ UNCHANGED << closer, backers, told, clock >>

Back(i, u) ==
  /\ state[i] # "absent" /\ u # author[i] /\ u \notin backers[i]
  /\ backers' = [backers EXCEPT ![i] = @ \cup {u}]
  /\ UNCHANGED << author, state, closer, filed, told, clock >>

\* The author of a report closes it unasked, and needs not be told.
Withdraw(i) ==
  /\ state[i] # "absent"
  /\ state' = [state EXCEPT ![i] = "resolved"]
  /\ closer' = [closer EXCEPT ![i] = author[i]]
  /\ UNCHANGED << author, filed, backers, told, clock >>

Resolve(i, u) ==
  /\ state[i] # "absent" /\ u # author[i]
  /\ filed[i] + Delay <= clock
  /\ state' = [state EXCEPT ![i] = "resolved"]
  /\ closer' = [closer EXCEPT ![i] = u]
  /\ told' = [told EXCEPT ![i] = @ \cup {"resolved"}]
  /\ UNCHANGED << author, filed, backers, clock >>

Dismiss(i, u) ==
  /\ state[i] # "absent" /\ u \in Staff
  /\ state' = [state EXCEPT ![i] = "dismissed"]
  /\ closer' = [closer EXCEPT ![i] = u]
  /\ UNCHANGED << author, filed, backers, told, clock >>

\* The job closes everything it found overdue at once.
Expire(due) ==
  /\ \A i \in due : state[i] # "absent" /\ filed[i] + Life < clock
  /\ state' = [i \in Subjects |-> IF i \in due THEN "expired" ELSE state[i]]
  /\ told' = [i \in Subjects |-> IF i \in due THEN told[i] \cup {"expired"} ELSE told[i]]
  /\ UNCHANGED << author, closer, filed, backers, clock >>

Pass == clock' = clock + 1 /\ UNCHANGED << author, state, closer, filed, backers, told >>

Next ==
  \/ \E i \in Subjects :
       \/ Withdraw(i)
       \/ \E u \in People : File(i, u) \/ Back(i, u) \/ Resolve(i, u) \/ Dismiss(i, u)
  \/ \E due \in SUBSET Subjects : Expire(due)
  \/ Pass

Spec == Init /\ [][Next]_lifecycle

=============================================================================

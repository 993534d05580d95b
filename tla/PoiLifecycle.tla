---------------------------- MODULE PoiLifecycle ----------------------------
(***************************************************************************)
(* What the moderation of POIs promises, whatever its sessions do: a POI   *)
(* is vouched for and objected to by distinct people other than its        *)
(* submitter, it becomes verified because enough of them vouched or an     *)
(* admin approved it, it is removed because enough of them objected or an  *)
(* admin rejected it, and none of this is undone.  The promise is one      *)
(* sided, as the concurrent code allows: enough vouchers or objectors make *)
(* the flip possible, they do not force it.                                *)
(***************************************************************************)
CONSTANTS
  People,      \* users
  Places,      \* POIs
  Outsider,    \* source of POIs nobody in People submitted
  Quorums,     \* sets of other people that can verify a place
  Juries       \* sets of people that can remove a place

VARIABLES
  owner,       \* who submitted each place
  status,      \* absent, active or removed
  verified,    \* whether the place counts as verified
  vouchers,    \* people who vouched for the place
  objectors    \* people who asked to remove it

lifecycle == << owner, status, verified, vouchers, objectors >>

Init ==
  /\ owner \in [Places -> People \cup {Outsider}]
  /\ status \in [Places -> {"absent", "active"}]
  /\ verified \in [Places -> BOOLEAN]
  /\ \A p \in Places : verified[p] => status[p] = "active" /\ owner[p] = Outsider
  /\ vouchers = [p \in Places |-> {}]
  /\ objectors = [p \in Places |-> {}]

\* A trusted submitter's place is verified at once, any other is not.
Submit(p, u) ==
  /\ status[p] = "absent"
  /\ owner' = [owner EXCEPT ![p] = u]
  /\ status' = [status EXCEPT ![p] = "active"]
  /\ \E auto \in BOOLEAN : verified' = [verified EXCEPT ![p] = auto]
  /\ UNCHANGED << vouchers, objectors >>

Vouch(p, u) ==
  /\ status[p] # "absent" /\ u # owner[p] /\ u \notin vouchers[p]
  /\ vouchers' = [vouchers EXCEPT ![p] = @ \cup {u}]
  /\ \/ UNCHANGED verified
     \/ /\ vouchers'[p] \in Quorums
        /\ verified' = [verified EXCEPT ![p] = TRUE]
  /\ UNCHANGED << owner, status, objectors >>

Object(p, u) ==
  /\ status[p] # "absent" /\ u # owner[p] /\ u \notin objectors[p]
  /\ objectors' = [objectors EXCEPT ![p] = @ \cup {u}]
  /\ \/ UNCHANGED status
     \/ /\ objectors'[p] \in Juries
        /\ status' = [status EXCEPT ![p] = "removed"]
  /\ UNCHANGED << owner, verified, vouchers >>

Approve(p) ==
  /\ status[p] # "absent"
  /\ verified' = [verified EXCEPT ![p] = TRUE]
  /\ UNCHANGED << owner, status, vouchers, objectors >>

Reject(p) ==
  /\ status[p] # "absent"
  /\ status' = [status EXCEPT ![p] = "removed"]
  /\ UNCHANGED << owner, verified, vouchers, objectors >>

Next ==
  \E p \in Places :
    \/ \E u \in People : Submit(p, u) \/ Vouch(p, u) \/ Object(p, u)
    \/ Approve(p)
    \/ Reject(p)

Spec == Init /\ [][Next]_lifecycle

=============================================================================

----------------------------- MODULE MCRateLimit -----------------------------
(***************************************************************************)
(* Small instance of RateLimit: two callers of one action with a limit of  *)
(* two calls, a window of two seconds of two ticks, and a clock that       *)
(* leaves time for two calls, their window and the calls after it.         *)
(***************************************************************************)
EXTENDS RateLimit

Limits == [action \in Actions |-> 2]

=============================================================================

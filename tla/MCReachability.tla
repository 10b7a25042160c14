---------------------------- MODULE MCReachability ----------------------------
(***************************************************************************)
(* Reachability for TLC.                                                   *)
(*                                                                         *)
(* Fairness: time passes, a transaction that has begun goes on, and a      *)
(* session that waits for a key gets it when the holder rolls back, before *)
(* anybody who asks later, so its Flush is strongly fair.  The monitor     *)
(* begins again and again by its loop, for as long as it is alive, the     *)
(* cron job by its schedule, the dashboard only while somebody looks.      *)
(***************************************************************************)
EXTENDS Reachability, TLC

Progress ==
    /\ WF_vars(Tick)
    /\ \A r \in Reconciler : WF_vars(Proceed(r)) /\ SF_vars(Flush(r))

\* The monitor loop runs and somebody keeps the dashboard open, or the cron
\* job, which is the same transaction, is scheduled.
WatchedSpec == Spec /\ Progress /\ \A r \in Reconciler : WF_vars(Clock(r))

\* Only the monitor loop begins again and again.
UnattendedSpec == Spec /\ Progress /\ WF_vars(Clock(Monitor))
===============================================================================

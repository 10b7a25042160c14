---------------------------- MODULE MCUsageReports ----------------------------
(***************************************************************************)
(* UsageReports for TLC.                                                   *)
(*                                                                         *)
(* Fairness: Run calls OTelUsage in every round and Usage every            *)
(* usage_seconds.  Each is strongly fair because it is only our bound on   *)
(* the queue that disables it now and then.  The server answers requests   *)
(* and, while it runs, finishes them.  A refused report expires after      *)
(* retention_days (SignedDelivery, QueueDrains).                           *)
(***************************************************************************)
EXTENDS UsageReports, TLC

LiveSpec ==
    /\ Init /\ [][Next]_vars /\ WF_vars(Tick)
    /\ SF_vars(OTelUsage) /\ SF_vars(Usage) /\ WF_vars(StoreUsage)
    /\ WF_vars(queue # << >> /\ ~Fits(Head(queue)) /\ ReportLost)
    /\ WF_vars(\E c \in checks : CompareSources(c))
=============================================================================

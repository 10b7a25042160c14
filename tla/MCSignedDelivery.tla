-------------------------- MODULE MCSignedDelivery --------------------------
(***************************************************************************)
(* SignedDelivery for TLC: symmetry and the liveness specification.        *)
(***************************************************************************)
EXTENDS SignedDelivery, TLC

Symmetry == Permutations(Device)

-----------------------------------------------------------------------------
(***************************************************************************)
(* Liveness.  The agent never stops producing heartbeats, a bounded model  *)
(* does.  Two actions stand for the heartbeats beyond MaxEvents.           *)
(* UntrackedHeartbeat runs while tracked items are queued: the new item    *)
(* goes behind them all and cannot affect them, so only the expiry and the *)
(* flush are kept.  Recycle runs when none is queued or on its way: it     *)
(* renumbers, so that the next heartbeat is tracked again; sequences are   *)
(* only ever compared, so shifting all of them changes nothing.            *)
(***************************************************************************)
UntrackedHeartbeat ==
    /\ pc = "idle" /\ issued = MaxEvents /\ queue # << >>
    /\ \E n \in 0 .. Len(queue) :
         /\ \A i \in 1 .. Len(queue) : Stale(queue[i]) <=> i <= n
         /\ queue' = SubSeq(queue, n + 1, Len(queue))
         /\ expired' = expired \cup {queue[i] : i \in 1 .. n}
    /\ pushedAt' = now /\ first' = TRUE /\ pc' = "peek"
    /\ UNCHANGED <<mem, disk, item, newDev, serverVars, issued, owned, envVars>>

Recycle ==
    /\ pc = "idle" /\ issued = MaxEvents /\ queue = << >> /\ late = {}
    /\ mem' = [mem EXCEPT !.next = 1] /\ disk' = mem'
    /\ lastSeq' = [d \in Registered |-> 0]
    /\ receipts' = {} /\ replays' = {} /\ applied' = {} /\ expired' = {}
    /\ issued' = 0
    /\ UNCHANGED <<pc, queue, item, newDev, pushedAt, first, owned, envVars>>

LiveNext == Next \/ UntrackedHeartbeat \/ Recycle

(***************************************************************************)
(* The service manager restarts the agent (Restart=always), the run loop   *)
(* never ends, the clock goes on, and a disk, a server and a network that  *)
(* keep being tried work again and again; nothing says they work at any    *)
(* given time.                                                             *)
(***************************************************************************)
Fairness ==
    /\ SF_vars(Tick) /\ WF_vars(Restart) /\ SF_vars(Recycle)
    /\ SF_vars(\E k \in Kind : Enqueue(k)) /\ SF_vars(UntrackedHeartbeat)
    /\ SF_vars(Push) /\ SF_vars(Send) /\ WF_vars(FlushDone)
    /\ SF_vars(Exchange) /\ SF_vars(Pop) /\ WF_vars(Refused)
    /\ SF_vars(\E d \in Device : Register(d)) /\ SF_vars(ConfigureTelemetry)
    /\ SF_vars(Clear) /\ SF_vars(SaveReEnrolled) /\ WF_vars(ReEnrollFails)

\* Devices are interchangeable: one of them is the one that is enrolled.
LiveInit == Init /\ disk.dev = CHOOSE d \in Device : TRUE

LiveSpec == LiveInit /\ [][LiveNext]_vars /\ Fairness

Holds(n) == \E e \in Queued : e.id = n

\* Item n will be delivered, or reaches its retention within the model's time.
MustLeave(n) ==
    \E i \in 1 .. Len(queue) :
        /\ queue[i].id = n
        /\ \/ \A j \in 1 .. i : queue[j].kind = "good"
           \/ queue[i].at + QueueRetention <= MaxTime

(***************************************************************************)
(* Every queued report leaves the queue (by NoSilentLoss it is stored,     *)
(* expires, or belongs to a device the server has lost).  A report the     *)
(* server will never accept blocks the reports behind it, as Flush returns *)
(* and leaves it at the head, but only until it expires.                   *)
(***************************************************************************)
QueueDrains == \A n \in 0 .. MaxEvents - 1 : MustLeave(n) ~> ~Holds(n)

(***************************************************************************)
(* README.md:99, "recovers from an explicitly reset server database":      *)
(* an agent whose device the server has lost is enrolled again.            *)
(***************************************************************************)
RecoversFromReset == disk.dev \notin Registered ~> disk.dev \in Registered
=============================================================================

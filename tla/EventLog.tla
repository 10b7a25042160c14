------------------------------- MODULE EventLog -------------------------------
(***************************************************************************)
(* What the signed event channel promises, without processes, files,       *)
(* requests, receipts or transactions: an event the agent holds is stored  *)
(* at most once, after the earlier events of its device, and the agent     *)
(* lets go of it only when it is stored, when it has lapsed, or when the   *)
(* server does not know its device.  An event is a record with at least    *)
(* the fields dev and seq.                                                 *)
(***************************************************************************)
EXTENDS Integers

VARIABLES
    held,    \* events the agent still has to deliver
    lapsed,  \* events it has given up for their age
    stored,  \* events the server has stored
    last     \* the last sequence stored of every device the server knows

logVars == <<held, lapsed, stored, last>>

Init ==
    /\ held = {} /\ lapsed = {} /\ stored = {}
    /\ \A d \in DOMAIN last : last[d] = 0

\* A new event is held; at the same time the events of S lapse.
Submit(e, S) ==
    /\ e \notin held \cup stored /\ S \subseteq held
    /\ held' = (held \ S) \cup {e} /\ lapsed' = lapsed \cup S
    /\ UNCHANGED <<stored, last>>

Store(e) ==
    /\ e \in (held \cup lapsed) \ stored
    /\ e.dev \in DOMAIN last /\ last[e.dev] < e.seq
    /\ \A f \in stored : f.dev = e.dev => f.seq < e.seq
    /\ stored' = stored \cup {e} /\ last' = [last EXCEPT ![e.dev] = e.seq]
    /\ UNCHANGED <<held, lapsed>>

Release(S) ==
    /\ S \subseteq held /\ \A e \in S : e \in stored \/ e.dev \notin DOMAIN last
    /\ held' = held \ S
    /\ UNCHANGED <<lapsed, stored, last>>

\* A device id the server hands out has no history.
NewDevice(d) ==
    /\ d \notin DOMAIN last /\ \A e \in held \cup stored : e.dev # d
    /\ last' = [x \in DOMAIN last \cup {d} |-> IF x = d THEN 0 ELSE last[x]]
    /\ UNCHANGED <<held, lapsed, stored>>

\* The server loses its devices.
Forget == last' = [d \in {} |-> 0] /\ UNCHANGED <<held, lapsed, stored>>

Next ==
    \/ \E e \in held' : Submit(e, held \ held')
    \/ \E e \in stored' : Store(e)
    \/ Release(held \ held')
    \/ \E d \in DOMAIN last' : NewDevice(d)
    \/ Forget

Spec == Init /\ [][Next]_logVars
===============================================================================

------------------------- MODULE AgentProcesses_proofs -------------------------
(***************************************************************************)
(* Proofs about AgentProcesses, for every platform and every bound: types  *)
(* in general, the sequence and the queue as long as the service manager   *)
(* does not start or stop the service beside a running watchdog (~Racing). *)
(***************************************************************************)
EXTENDS AgentProcesses, SequenceTheorems, FiniteSetTheorems, TLAPS

\* A queue stays a queue of pushed envelopes when more are pushed.
LEMMA SeqOfMore ==
    ASSUME NEW S, NEW T, S \subseteq T, NEW s \in Seq(S) PROVE s \in Seq(T)
<1>1. Len(s) \in Nat /\ s \in [1 .. Len(s) -> S]
  BY LenProperties
<1>2. s \in [1 .. Len(s) -> T]
  BY <1>1
<1> QED
  BY <1>1, <1>2, SeqDef

\* Pop: the file without its head.
LEMMA WithoutHead ==
    ASSUME NEW S, NEW q \in Seq(S), q # << >>
    PROVE  /\ Len(q) \in Nat /\ Len(q) >= 1 /\ q[1] \in S /\ Head(q) = q[1]
           /\ Tail(q) \in Seq(S) /\ Len(Tail(q)) = Len(q) - 1
           /\ \A i \in 1 .. Len(q) - 1 : Tail(q)[i] = q[i + 1]
<1>1. Len(q) \in Nat /\ Len(q) >= 1
  BY EmptySeq, LenProperties
<1> QED
  BY <1>1, HeadTailProperties, TailIsSubSeq, ElementOfSeq

-----------------------------------------------------------------------------
(* Type correctness *)

\* A process that does not run.
LEMMA DownType ==
    /\ Down \in Local /\ Down.pc = "down" /\ Down.tried = FALSE /\ Down.stopping = FALSE
    /\ \A p \in Process : WellPlaced(p, Down) /\ WellPlaced(p, Down)'
<1>1. /\ Down.pc = "down" /\ Down.tried = FALSE /\ Down.stopping = FALSE /\ Down.items = << >>
      /\ Down.next = 0 /\ Down.item = << >>
  BY DEF Down
<1>2. << >> \in Seq(Envelope) /\ << >> \in Seq(pushed) /\ << >> \in Seq(pushed')
  BY EmptySeq
<1>3. Down \in Local
  BY <1>2 DEF Down, Local
<1> QED
  BY <1>1, <1>2, <1>3 DEF WellPlaced, Holding

\* A process that has just read config.json.
LEMMA LoadedType ==
    ASSUME TypeOK, NEW pc \in {"idle", "check", "save"}
    PROVE  LET t == [Loaded EXCEPT !.pc = pc]
           IN  /\ t \in Local /\ t.pc = pc /\ t.next = disk /\ ~t.tried /\ ~t.stopping
               /\ t.items = << >>
<1>1. << >> \in Seq(Envelope)
  BY EmptySeq
<1>2. disk \in Nat
  BY DEF TypeOK
<1> QED
  BY <1>1, <1>2 DEF Loaded, Down, Local

\* A step of one process, whatever it does to the files and the server.
LEMMA ProcessTyped ==
    ASSUME TypeOK, NEW p \in Process, NEW t \in Local, proc' = [proc EXCEPT ![p] = t],
           WellPlaced(p, t)', UNCHANGED platform, disk' \in Nat \ {0}, lastSeq' \in Nat,
           issued \subseteq issued', issued' \subseteq Envelope, IsFiniteSet(issued'),
           pushed \subseteq pushed', pushed' \subseteq issued',
           receipts' \subseteq {e[1] : e \in issued'}, queue' \in Seq(pushed')
    PROVE  TypeOK'
<1>1. proc \in [Process -> Local]
  BY DEF TypeOK
<1>2. proc' \in [Process -> Local]
  BY <1>1
<1>3. ASSUME NEW q \in Process PROVE WellPlaced(q, proc[q])'
  <2>1. CASE q = p
    BY <1>1, <2>1
  <2>2. CASE q # p
    <3>1. proc'[q] = proc[q] /\ WellPlaced(q, proc[q])
      BY <1>1, <2>2 DEF TypeOK
    <3>2. proc[q].items \in Seq(pushed')
      BY <3>1, SeqOfMore DEF WellPlaced
    <3> QED
      BY <3>1, <3>2 DEF WellPlaced
  <2> QED
    BY <2>1, <2>2
<1> QED
  BY <1>2, <1>3 DEF TypeOK

\* The same for a step that leaves files, server and history alone.
LEMMA ProcessOnly ==
    ASSUME TypeOK, NEW p \in Process, NEW t \in Local, proc' = [proc EXCEPT ![p] = t],
           WellPlaced(p, t), UNCHANGED <<platform, disk, queue, serverVars, issued, pushed>>
    PROVE  TypeOK'
<1>1. WellPlaced(p, t)'
  BY DEF WellPlaced
<1> QED
  BY <1>1, ProcessTyped DEF TypeOK, serverVars

\* Where an operation leaves its process.
LEMMA ReturnedType ==
    ASSUME TypeOK, NEW p \in Process, proc[p].pc \in Holding \cup {"peek"}
    PROVE  /\ Returned(p) \in Local /\ WellPlaced(p, Returned(p))
           /\ Returned(p).pc \in {"idle", "start", "down"}
           /\ p = "service" => Returned(p).pc # "down"
           /\ Returned(p).pc = "start" => p = "watchdog"
           /\ Returned(p).pc # "down" => Returned(p).next = proc[p].next
           /\ Returned(p).stopping => proc[p].stopping
<1>1. /\ proc[p] \in Local /\ WellPlaced(p, proc[p]) /\ proc[p].pc # "down"
      /\ p \in {"service", "watchdog", "tool"}
  BY DEF TypeOK, Holding, Process
<1>2. << >> \in Seq(Envelope) /\ << >> \in Seq(pushed)
  BY EmptySeq
<1>3. CASE p = "service"
  <2> DEFINE t == [proc[p] EXCEPT !.pc = "idle", !.items = << >>, !.item = << >>]
  <2>1. Returned(p) = t
    BY <1>3 DEF Returned
  <2>2. /\ t \in Local /\ t.pc = "idle" /\ t.items = << >> /\ t.next = proc[p].next
        /\ t.tried = proc[p].tried /\ t.stopping = proc[p].stopping
    BY <1>1, <1>2 DEF Local
  <2> HIDE DEF t
  <2> QED
    BY <1>1, <1>2, <1>3, <2>1, <2>2 DEF WellPlaced, Holding
<1>4. CASE p # "service" /\ (p = "tool" \/ proc[p].tried)
  BY <1>4, DownType DEF Returned
<1>5. CASE p # "service" /\ ~(p = "tool" \/ proc[p].tried)
  <2> DEFINE t == [proc[p] EXCEPT !.pc = "start", !.items = << >>, !.item = << >>]
  <2>1. Returned(p) = t
    BY <1>5 DEF Returned
  <2>2. /\ t \in Local /\ t.pc = "start" /\ t.items = << >> /\ t.next = proc[p].next
        /\ t.tried = proc[p].tried /\ t.stopping = proc[p].stopping
    BY <1>1, <1>2 DEF Local
  <2> HIDE DEF t
  <2> QED
    BY <1>1, <1>2, <1>5, <2>1, <2>2 DEF WellPlaced, Holding
<1> QED
  BY <1>3, <1>4, <1>5

\* The steps of enqueue and Flush keep the types.
LEMMA ReportsTyped == ASSUME TypeOK, NEW p \in Process, Reports(p) PROVE TypeOK'
<1> DEFINE t == proc[p]
<1>0. /\ t \in Local /\ WellPlaced(p, t) /\ proc \in [Process -> Local]
      /\ queue \in Seq(pushed) /\ pushed \subseteq issued /\ issued \subseteq Envelope
      /\ queue \in Seq(Envelope) /\ disk \in Nat /\ disk # 0 /\ lastSeq \in Nat
      /\ receipts \subseteq {e[1] : e \in issued} /\ IsFiniteSet(issued)
  BY SeqOfMore DEF TypeOK
<1>00. << >> \in Seq(Envelope) /\ << >> \in Seq(pushed) /\ << >> \in Seq(pushed')
  BY EmptySeq
<1>1. CASE Enqueue(p)
  <2> DEFINE e == <<Cardinality(issued), t.next>>
             w == [t EXCEPT !.pc = "load", !.next = @ + 1, !.item = e]
  <2>1. /\ t.pc = "idle" /\ issued' = issued \cup {e} /\ proc' = [proc EXCEPT ![p] = w]
        /\ disk' = t.next + 1 /\ UNCHANGED <<platform, queue, serverVars, pushed>>
    BY <1>0, <1>1 DEF Enqueue, Local
  <2>2. e \in Envelope /\ IsFiniteSet(issued \cup {e})
    BY <1>0, FS_CardinalityType, FS_AddElement DEF Envelope, Local
  <2> HIDE DEF e
  <2>3. w \in Local /\ w.next = t.next + 1 /\ w.next # 0 /\ w.pc = "load" /\ w.item = e
        /\ w.items = t.items /\ w.tried = t.tried /\ w.stopping = t.stopping
    <3>1. t.next + 1 \in Nat /\ t.next + 1 # 0 /\ "load" \in Holding
      BY <1>0 DEF Local, Holding
    <3>2. w = [t EXCEPT !.pc = "load", !.next = t.next + 1, !.item = e]
      OBVIOUS
    <3>3. w \in Local
      BY <1>0, <2>2, <3>1, <3>2 DEF Local
    <3> QED
      BY <1>0, <3>1, <3>2, <3>3 DEF Local
  <2> HIDE DEF w
  <2>4. PICK u \in Local : u = w
    BY <2>3
  <2>5. WellPlaced(p, u)'
    BY <1>0, <2>1, <2>3, <2>4 DEF WellPlaced
  <2>6. disk' \in Nat \ {0}
    BY <1>0, <2>1 DEF Local
  <2>7. issued \subseteq issued' /\ issued' \subseteq Envelope /\ IsFiniteSet(issued')
    BY <1>0, <2>1, <2>2
  <2>8. receipts' \subseteq {x[1] : x \in issued'}
    BY <1>0, <2>1, <2>7 DEF serverVars
  <2> QED
    BY <1>0, <2>1, <2>4, <2>5, <2>6, <2>7, <2>8, ProcessTyped DEF serverVars
<1>2. CASE PushLoads(p)
  <2> DEFINE u == [t EXCEPT !.pc = "push", !.items = queue]
  <2>1. proc' = [proc EXCEPT ![p] = u] /\ UNCHANGED <<platform, disk, queue, serverVars, issued, pushed>>
        /\ t.pc = "load"
    BY <1>0, <1>2 DEF PushLoads
  <2>2. u \in Local /\ WellPlaced(p, u)
    BY <1>0, <2>1 DEF Local, WellPlaced, Holding
  <2> QED
    BY <2>1, <2>2, ProcessOnly
<1>3. CASE PushSaves(p)
  <2> DEFINE w == [t EXCEPT !.pc = "peek", !.items = << >>, !.item = << >>]
  <2>1. /\ proc' = [proc EXCEPT ![p] = w] /\ UNCHANGED <<platform, disk, serverVars, issued>>
        /\ queue' = Append(t.items, t.item) /\ pushed' = pushed \cup {t.item} /\ t.pc = "push"
    BY <1>0, <1>3 DEF PushSaves
  <2>2. w \in Local
    BY <1>0, <1>00 DEF Local
  <2>3. w.pc = "peek" /\ w.items = << >> /\ w.next = t.next /\ w.tried = t.tried
        /\ w.stopping = t.stopping
    BY <1>0 DEF Local
  <2> HIDE DEF w
  <2>0. PICK u \in Local : u = w
    BY <2>2
  <2>4. WellPlaced(p, u)'
    BY <1>0, <1>00, <2>0, <2>1, <2>3 DEF WellPlaced, Holding
  <2>5. t.item \in issued /\ t.items \in Seq(pushed')
    BY <1>0, <2>1, SeqOfMore DEF WellPlaced, Holding
  <2>6. queue' \in Seq(pushed')
    BY <2>1, <2>5, AppendProperties
  <2> QED
    BY <1>0, <2>0, <2>1, <2>4, <2>5, <2>6, ProcessTyped DEF TypeOK, serverVars
<1>4. CASE Peek(p)
  <2>1. UNCHANGED <<platform, disk, queue, serverVars, issued, pushed>> /\ t.pc = "peek"
    BY <1>4 DEF Peek
  <2>2. CASE queue = << >>
    <3>1. proc' = [proc EXCEPT ![p] = Returned(p)]
      BY <1>4, <2>2 DEF Peek, Return
    <3> QED
      BY <2>1, <3>1, ReturnedType, ProcessOnly
  <2>3. CASE queue # << >>
    <3> DEFINE u == [t EXCEPT !.pc = "wait", !.item = Head(queue)]
    <3>1. proc' = [proc EXCEPT ![p] = u]
      BY <1>0, <1>4, <2>3 DEF Peek
    <3>2. Head(queue) \in issued
      BY <1>0, <2>3, WithoutHead
    <3>3. u \in Local /\ WellPlaced(p, u)
      BY <1>0, <2>1, <3>2 DEF Local, WellPlaced, Holding
    <3> QED
      BY <2>1, <3>1, <3>3, ProcessOnly
  <2> QED
    BY <2>2, <2>3
<1>5. ASSUME NEW u \in Local, proc' = [proc EXCEPT ![p] = u], WellPlaced(p, u),
             t.pc = "wait", Serve(t.item) \/ UNCHANGED serverVars,
             UNCHANGED <<platform, disk, queue, issued, pushed>>
      PROVE  TypeOK'
  <2>1. t.item \in issued /\ t.item \in Envelope
    BY <1>0, <1>5 DEF WellPlaced, Holding
  <2>2. lastSeq' \in Nat /\ receipts' \subseteq {e[1] : e \in issued'}
    BY <1>0, <1>5, <2>1 DEF Serve, serverVars, Envelope
  <2>3. WellPlaced(p, u)'
    BY <1>5 DEF WellPlaced
  <2> QED
    BY <1>0, <1>5, <2>2, <2>3, ProcessTyped
<1>6. CASE Exchange(p)
  <2>1. /\ t.pc = "wait" /\ Serve(t.item) /\ UNCHANGED <<platform, disk, queue, issued, pushed>>
    BY <1>6 DEF Exchange
  <2>2. CASE t.item[1] \in receipts'
    <3> DEFINE u == [t EXCEPT !.pc = "popload"]
    <3>1. proc' = [proc EXCEPT ![p] = u]
      BY <1>0, <1>6, <2>2 DEF Exchange
    <3>2. u \in Local /\ WellPlaced(p, u)
      BY <1>0, <2>1 DEF Local, WellPlaced, Holding
    <3> QED
      BY <1>5, <2>1, <3>1, <3>2
  <2>3. CASE t.item[1] \notin receipts'
    <3>1. proc' = [proc EXCEPT ![p] = Returned(p)]
      BY <1>6, <2>3 DEF Exchange, Return
    <3> QED
      BY <1>5, <2>1, <3>1, ReturnedType DEF Holding
  <2> QED
    BY <2>2, <2>3
<1>7. CASE NoAnswer(p)
  <2>1. /\ t.pc = "wait" /\ (Serve(t.item) \/ UNCHANGED serverVars)
        /\ UNCHANGED <<platform, disk, queue, issued, pushed>>
        /\ proc' = [proc EXCEPT ![p] = Returned(p)]
    BY <1>7 DEF NoAnswer, Return
  <2> QED
    BY <1>5, <2>1, ReturnedType DEF Holding
<1>8. CASE PopLoads(p)
  <2> DEFINE u == [t EXCEPT !.pc = "pop", !.items = queue]
  <2>1. proc' = [proc EXCEPT ![p] = u] /\ UNCHANGED <<platform, disk, queue, serverVars, issued, pushed>>
        /\ t.pc = "popload"
    BY <1>0, <1>8 DEF PopLoads
  <2>2. u \in Local /\ WellPlaced(p, u)
    BY <1>0, <2>1 DEF Local, WellPlaced, Holding
  <2> QED
    BY <2>1, <2>2, ProcessOnly
<1>9. CASE PopSaves(p)
  <2> DEFINE w == [t EXCEPT !.pc = "peek", !.items = << >>, !.item = << >>]
  <2>1. /\ proc' = [proc EXCEPT ![p] = w] /\ UNCHANGED <<platform, disk, serverVars, issued, pushed>>
        /\ queue' = IF t.items = << >> THEN queue ELSE Tail(t.items)
    BY <1>0, <1>9 DEF PopSaves
  <2>2. w \in Local
    BY <1>0, <1>00 DEF Local
  <2>3. w.pc = "peek" /\ w.items = << >> /\ w.next = t.next /\ w.tried = t.tried
        /\ w.stopping = t.stopping /\ t.pc = "pop"
    BY <1>0, <1>9 DEF Local, PopSaves
  <2> HIDE DEF w
  <2>0. PICK u \in Local : u = w
    BY <2>2
  <2>4. WellPlaced(p, u)'
    BY <1>0, <1>00, <2>0, <2>1, <2>3 DEF WellPlaced, Holding
  <2>5. queue' \in Seq(pushed')
    BY <1>0, <2>1, WithoutHead DEF WellPlaced
  <2> QED
    BY <1>0, <2>0, <2>1, <2>4, <2>5, ProcessTyped DEF TypeOK, serverVars
<1> QED
  BY <1>1, <1>2, <1>3, <1>4, <1>6, <1>7, <1>8, <1>9 DEF Reports

\* So do the steps of the service manager, the watchdog and the installers.
LEMMA TypeStep == ASSUME TypeOK, [Next]_vars PROVE TypeOK'
<1>0. /\ proc \in [Process -> Local] /\ \A p \in Process : WellPlaced(p, proc[p])
      /\ "service" \in Process /\ "watchdog" \in Process /\ "tool" \in Process
  BY DEF TypeOK, Process
<1>00. << >> \in Seq(pushed)
  BY EmptySeq
<1>1. ASSUME NEW p \in Process, proc' = [proc EXCEPT ![p] = Down],
             UNCHANGED <<platform, disk, queue, serverVars, issued, pushed>>
      PROVE  TypeOK'
  BY <1>1, DownType, ProcessOnly
<1>2. ASSUME NEW p \in Process, NEW pc \in {"idle", "check", "save"},
             pc = "check" => p = "watchdog", pc = "save" => p = "tool"
      PROVE  [Loaded EXCEPT !.pc = pc] \in Local /\ WellPlaced(p, [Loaded EXCEPT !.pc = pc])
  <2> DEFINE t == [Loaded EXCEPT !.pc = pc]
  <2>1. t \in Local /\ t.pc = pc /\ t.next = disk /\ ~t.tried /\ ~t.stopping /\ t.items = << >>
    BY LoadedType
  <2>2. disk # 0
    BY DEF TypeOK
  <2> HIDE DEF t
  <2>3. WellPlaced(p, t)
    BY <1>00, <1>2, <2>1, <2>2 DEF WellPlaced, Holding
  <2> QED
    BY <2>1, <2>3 DEF t
<1>3. [Loaded EXCEPT !.pc = "idle"] = Loaded
  BY DEF Loaded, Down
<1>4. CASE ServiceStarts
  BY <1>0, <1>2, <1>3, <1>4, ProcessOnly DEF ServiceStarts
<1>5. CASE StopRequested
  <2> DEFINE u == [proc["service"] EXCEPT !.stopping = TRUE]
  <2>1. proc' = [proc EXCEPT !["service"] = u] /\ UNCHANGED <<platform, disk, queue, serverVars, issued, pushed>>
    BY <1>0, <1>5 DEF StopRequested
  <2>2. u \in Local /\ WellPlaced("service", u)
    BY <1>0 DEF Local, WellPlaced
  <2> QED
    BY <1>0, <2>1, <2>2, ProcessOnly
<1>6. CASE ServiceEnds \/ ServiceMissing
  BY <1>0, <1>1, <1>6 DEF ServiceEnds, ServiceMissing
<1>7. ASSUME NEW p \in Process, Stops(p) PROVE TypeOK'
  BY <1>1, <1>7 DEF Stops
<1>8. CASE WatchdogStarts
  BY <1>0, <1>2, <1>8, ProcessOnly DEF WatchdogStarts
<1>9. CASE CheckPosture
  <2> DEFINE u == [proc["watchdog"] EXCEPT !.pc = "idle"]
  <2>1. /\ UNCHANGED <<platform, disk, queue, serverVars, issued, pushed>>
        /\ proc["watchdog"].pc = "check"
        /\ \/ proc' = [proc EXCEPT !["watchdog"] = Down]
           \/ proc' = [proc EXCEPT !["watchdog"] = u]
    BY <1>0, <1>9 DEF CheckPosture
  <2>2. u \in Local /\ WellPlaced("watchdog", u)
    BY <1>0, <2>1 DEF Local, WellPlaced, Holding
  <2> QED
    BY <1>0, <1>1, <2>1, <2>2, ProcessOnly
<1>10. CASE StartSucceeds
  <2> DEFINE s == IF Alive("service") /\ platform # "darwin" THEN proc["service"] ELSE Loaded
  <2>1. /\ proc' = [proc EXCEPT !["service"] = s, !["watchdog"] = Down]
        /\ UNCHANGED <<platform, disk, queue, serverVars, issued, pushed>>
    BY <1>0, <1>10 DEF StartSucceeds
  <2>2. s \in Local /\ WellPlaced("service", s)
    BY <1>0, <1>2, <1>3
  <2> HIDE DEF s
  <2>3. proc' \in [Process -> Local]
    BY <1>0, <2>1, <2>2, DownType
  <2>4. \A p \in Process : proc'[p] = IF p = "watchdog" THEN Down
                                      ELSE IF p = "service" THEN s ELSE proc[p]
    BY <1>0, <2>1
  <2>5. \A p \in Process : WellPlaced(p, proc[p])'
    <3> SUFFICES ASSUME NEW p \in Process PROVE WellPlaced(p, proc[p])'
      OBVIOUS
    <3>1. WellPlaced(p, proc'[p])
      BY <1>0, <2>2, <2>4, DownType
    <3> QED
      BY <2>1, <3>1 DEF WellPlaced
  <2> QED
    BY <2>1, <2>3, <2>5 DEF TypeOK, serverVars
<1>11. CASE StartFails
  <2> DEFINE u == [proc["watchdog"] EXCEPT !.pc = "idle", !.tried = TRUE]
  <2>1. /\ proc' = [proc EXCEPT !["watchdog"] = u] /\ proc["watchdog"].pc = "start"
        /\ UNCHANGED <<platform, disk, queue, serverVars, issued, pushed>>
    BY <1>0, <1>11 DEF StartFails
  <2>2. u \in Local /\ WellPlaced("watchdog", u)
    BY <1>0, <2>1 DEF Local, WellPlaced, Holding
  <2> QED
    BY <1>0, <2>1, <2>2, ProcessOnly
<1>12. CASE ToolStarts
  <2>1. PICK pc \in {"idle", "save"} : proc' = [proc EXCEPT !["tool"] = [Loaded EXCEPT !.pc = pc]]
    BY <1>12 DEF ToolStarts
  <2> QED
    BY <1>0, <1>2, <1>12, <2>1, ProcessOnly DEF ToolStarts
<1>13. CASE ToolSaves
  <2>1. /\ disk' = proc["tool"].next /\ proc' = [proc EXCEPT !["tool"] = Down]
        /\ proc["tool"].pc = "save" /\ UNCHANGED <<platform, queue, serverVars, issued, pushed>>
    BY <1>13 DEF ToolSaves
  <2>2. disk' \in Nat \ {0}
    BY <1>0, <2>1 DEF WellPlaced, Local
  <2> QED
    BY <1>0, <2>1, <2>2, DownType, ProcessTyped DEF TypeOK, serverVars
<1>14. ASSUME NEW p \in Process, Reports(p) PROVE TypeOK'
  BY <1>14, ReportsTyped
<1>15. CASE UNCHANGED vars
  BY <1>15 DEF vars, serverVars, TypeOK, WellPlaced
<1> QED
  BY <1>4, <1>5, <1>6, <1>7, <1>8, <1>9, <1>10, <1>11, <1>12, <1>13, <1>14, <1>15 DEF Next

(***************************************************************************)
(* Whatever the processes do to one another's files, with or without a     *)
(* race, the queue only holds envelopes that were signed and pushed, and   *)
(* each process has an envelope in hand wherever its code uses one.        *)
(***************************************************************************)
THEOREM TypeCorrect == Spec => []TypeOK
<1>1. Init => TypeOK
  <2> SUFFICES ASSUME Init PROVE TypeOK
    OBVIOUS
  <2>1. queue \in Seq(pushed) /\ IsFiniteSet(issued)
    BY EmptySeq, FS_EmptySet DEF Init
  <2> QED
    BY <2>1, DownType DEF Init, TypeOK
<1>2. TypeOK /\ [Next]_vars => TypeOK'
  BY TypeStep
<1> QED
  BY <1>1, <1>2, PTL DEF Spec

-----------------------------------------------------------------------------
(* One process at a time *)

\* A process at work is the only one, and counts from config.json.
LEMMA OnlyOneBusy ==
    ASSUME TypeOK, OneAtATime, InStep, NEW p \in Process, Busy(p)
    PROVE  /\ proc[p].next = disk
           /\ \A q \in Process : q # p => proc[q].pc \in {"down", "check"}
           /\ p # "service" => ~Alive("service")
<1>1. \A q \in Process : q # p => proc[q].pc \in {"down", "check"}
  BY DEF OneAtATime, Busy
<1>2. proc["service"].pc # "check"
  BY DEF TypeOK, WellPlaced, Process
<1>3. p # "service" => ~Alive("service")
  BY <1>1, <1>2 DEF Alive, Process
<1>4. Alive(p)
  BY DEF Alive, Busy
<1> QED
  BY <1>1, <1>3, <1>4 DEF InStep

\* A step of the process at work leaves it the only one: the watchdog that may
\* be looking on does not lose sight of a running service.
LEMMA StaysAlone ==
    ASSUME TypeOK, OneAtATime, InStep, NEW p \in Process, Busy(p),
           NEW u \in Local, proc' = [proc EXCEPT ![p] = u], u.pc # "check",
           u.pc # "down" => u.next = disk',
           p = "service" /\ Alive("watchdog") => u.pc # "down",
           u.stopping => p = "service" /\ (proc[p].stopping \/ ~Alive("watchdog"))
    PROVE  OneAtATime' /\ InStep'
<1>1. proc \in [Process -> Local] /\ "service" \in Process /\ "watchdog" \in Process
      /\ "tool" \in Process /\ Process = {"service", "watchdog", "tool"}
  BY DEF TypeOK, Process
<1>2. proc'[p] = u /\ \A q \in Process : q # p => proc'[q] = proc[q]
  BY <1>1
<1>3. \A q \in Process : q # p => proc[q].pc \in {"down", "check"}
  BY OnlyOneBusy
<1>4. \A q \in Process : Alive(q)' => Alive(q)
  BY <1>2 DEF Alive, Busy
<1>5. OneAtATime'
  <2>1. \A q, r \in Process : Busy(q)' /\ Busy(r)' => q = r
    BY <1>2, <1>3 DEF Busy
  <2>2. Alive("watchdog")' => ~proc'["service"].stopping
    BY <1>1, <1>2, <1>4 DEF OneAtATime
  <2>3. Alive("tool")' => ~Alive("watchdog")' /\ ~Alive("service")'
    BY <1>1, <1>4 DEF OneAtATime
  <2> QED
    BY <2>1, <2>2, <2>3 DEF OneAtATime
<1>6. InStep'
  <2> SUFFICES ASSUME NEW q \in Process, Alive(q)', q = "watchdog" => ~Alive("service")'
               PROVE  proc'[q].next = disk'
    BY DEF InStep
  <2>1. CASE q = p
    BY <1>2, <2>1 DEF Alive
  <2>2. CASE q # p
    <3>1. proc[q].pc = "check" /\ Alive(q)
      BY <1>3, <1>4, <2>2 DEF Alive
    <3>2. q = "watchdog"
      BY <3>1 DEF TypeOK, WellPlaced
    <3>3. p = "service"
      BY <1>1, <2>2, <3>1, <3>2 DEF OneAtATime, Alive, Busy
    <3> QED
      BY <1>2, <3>1, <3>2, <3>3 DEF Alive
  <2> QED
    BY <2>1, <2>2
<1> QED
  BY <1>5, <1>6

\* A process that ends takes nothing with it, unless it is the service.
LEMMA EndsAlone ==
    ASSUME TypeOK, OneAtATime, InStep, NEW p \in Process, proc' = [proc EXCEPT ![p] = Down],
           p = "service" => ~Alive("watchdog"), disk' = disk
    PROVE  OneAtATime' /\ InStep'
<1>1. proc \in [Process -> Local] /\ "service" \in Process /\ "watchdog" \in Process
      /\ "tool" \in Process /\ Process = {"service", "watchdog", "tool"}
  BY DEF TypeOK, Process
<1>2. /\ proc'[p].pc = "down" /\ proc'[p].stopping = FALSE
      /\ \A q \in Process : q # p => proc'[q] = proc[q]
  BY <1>1, DownType
<1>3. \A q \in Process : Alive(q)' => Alive(q) /\ q # p
  BY <1>2 DEF Alive
<1>4. OneAtATime'
  BY <1>1, <1>2, <1>3 DEF OneAtATime, Busy
<1>5. InStep'
  BY <1>1, <1>2, <1>3 DEF InStep, Alive
<1> QED
  BY <1>4, <1>5

\* A process that loads config.json when no other works on the files.
LEMMA StartsAlone ==
    ASSUME TypeOK, OneAtATime, InStep, NEW p \in Process, NEW u \in Local,
           proc' = [proc EXCEPT ![p] = u], u.pc # "down", ~u.stopping,
           u.next = disk, disk' = disk,
           \/ p # "watchdog" /\ \A q \in Process : ~Alive(q) \/ q = p
           \/ p = "watchdog" /\ u.pc = "check" /\ ~Alive("tool") /\ ~proc["service"].stopping
    PROVE  OneAtATime' /\ InStep'
<1>1. proc \in [Process -> Local] /\ "service" \in Process /\ "watchdog" \in Process
      /\ "tool" \in Process /\ Process = {"service", "watchdog", "tool"}
  BY DEF TypeOK, Process
<1>2. proc'[p] = u /\ \A q \in Process : q # p => proc'[q] = proc[q]
  BY <1>1
<1>3. CASE p # "watchdog" /\ \A q \in Process : ~Alive(q) \/ q = p
  <2>1. \A q \in Process : Alive(q)' => q = p
    BY <1>2, <1>3 DEF Alive
  <2>2. \A q \in Process : Busy(q)' => q = p
    BY <2>1 DEF Alive, Busy
  <2> QED
    BY <1>1, <1>2, <1>3, <2>1, <2>2 DEF OneAtATime, InStep
<1>4. CASE p = "watchdog" /\ u.pc = "check" /\ ~Alive("tool") /\ ~proc["service"].stopping
  <2>1. \A q \in Process : Busy(q)' => Busy(q)
    BY <1>1, <1>2, <1>4 DEF Busy
  <2>2. ~Alive("tool")' /\ ~proc'["service"].stopping
    BY <1>1, <1>2, <1>4 DEF Alive
  <2>3. OneAtATime'
    BY <2>1, <2>2 DEF OneAtATime
  <2>4. InStep'
    BY <1>1, <1>2, <1>4 DEF InStep, Alive
  <2> QED
    BY <2>3, <2>4
<1> QED
  BY <1>3, <1>4

\* Who runs beside whom, and from which sequence each counts.
LEMMA HandoverStep ==
    ASSUME ~Racing, TypeOK, OneAtATime, InStep, [Next]_vars
    PROVE  OneAtATime' /\ InStep'
<1>0. /\ proc \in [Process -> Local] /\ \A p \in Process : WellPlaced(p, proc[p])
      /\ "service" \in Process /\ "watchdog" \in Process /\ "tool" \in Process
      /\ Process = {"service", "watchdog", "tool"}
  BY DEF TypeOK, Process
<1>1. proc["service"].pc # "check" /\ proc["tool"].pc # "check"
  BY <1>0 DEF WellPlaced
<1>2. [Loaded EXCEPT !.pc = "idle"] = Loaded
  BY DEF Loaded, Down
<1>3. Undisturbed => ~Alive("tool") /\ ~Alive("watchdog")
  BY DEF Undisturbed
<1>4. CASE ServiceStarts
  <2>1. Loaded \in Local /\ Loaded.pc = "idle" /\ Loaded.next = disk /\ ~Loaded.stopping
    BY <1>2, LoadedType
  <2>2. proc' = [proc EXCEPT !["service"] = Loaded] /\ disk' = disk
        /\ \A q \in Process : ~Alive(q) \/ q = "service"
    BY <1>0, <1>3, <1>4 DEF ServiceStarts
  <2> QED
    BY <1>0, <2>1, <2>2, StartsAlone
<1>5. CASE StopRequested
  <2> DEFINE u == [proc["service"] EXCEPT !.stopping = TRUE]
  <2>1. /\ proc' = [proc EXCEPT !["service"] = u] /\ disk' = disk
        /\ Busy("service") /\ ~Alive("watchdog")
    BY <1>0, <1>1, <1>3, <1>5 DEF StopRequested, Alive, Busy
  <2>2. u \in Local /\ u.pc = proc["service"].pc /\ u.next = proc["service"].next
    BY <1>0 DEF Local
  <2>3. u.pc # "check" /\ u.next = disk'
    BY <1>0, <1>1, <2>1, <2>2, OnlyOneBusy
  <2> HIDE DEF u
  <2> QED
    BY <1>0, <2>1, <2>2, <2>3, StaysAlone
<1>6. CASE ServiceEnds
  <2>1. proc["service"].stopping /\ proc' = [proc EXCEPT !["service"] = Down] /\ disk' = disk
    BY <1>6 DEF ServiceEnds
  <2>2. ~Alive("watchdog")
    BY <2>1 DEF OneAtATime
  <2> QED
    BY <1>0, <2>1, <2>2, EndsAlone
<1>7. CASE ServiceMissing
  BY <1>0, <1>7, EndsAlone DEF ServiceMissing
<1>8. ASSUME NEW p \in Process, Stops(p) PROVE OneAtATime' /\ InStep'
  BY <1>0, <1>3, <1>8, EndsAlone DEF Stops
<1>9. CASE WatchdogStarts
  <2> DEFINE u == [Loaded EXCEPT !.pc = "check"]
  <2>1. u \in Local /\ u.pc = "check" /\ u.next = disk /\ ~u.stopping
    BY LoadedType
  <2>2. proc' = [proc EXCEPT !["watchdog"] = u] /\ disk' = disk /\ ~Alive("tool")
        /\ ~proc["service"].stopping
    BY <1>9 DEF WatchdogStarts
  <2> HIDE DEF u
  <2> QED
    BY <1>0, <2>1, <2>2, StartsAlone
<1>10. CASE CheckPosture
  <2> DEFINE u == [proc["watchdog"] EXCEPT !.pc = "idle"]
  <2>1. proc["watchdog"].pc = "check" /\ disk' = disk /\ Alive("watchdog")
        /\ ~proc["service"].stopping /\ ~Alive("tool")
    BY <1>10 DEF CheckPosture, Alive, OneAtATime
  <2>2. PICK running \in ServiceRunning :
          proc' = [proc EXCEPT !["watchdog"] = IF running THEN Down ELSE u]
    BY <1>0, <1>10 DEF CheckPosture
  <2>3. CASE running
    BY <1>0, <2>1, <2>2, <2>3, EndsAlone
  <2>4. CASE ~running
    <3>1. ~Alive("service")
      BY <2>1, <2>2, <2>4 DEF ServiceRunning
    <3>2. proc["watchdog"].next = disk
      BY <1>0, <2>1, <3>1 DEF InStep
    <3>3. proc' = [proc EXCEPT !["watchdog"] = u] /\ u.next = disk
      BY <1>0, <2>2, <2>4, <3>2 DEF Local
    <3> HIDE DEF u
    <3>4. /\ proc'["watchdog"] = u /\ proc'["service"] = proc["service"]
          /\ proc'["tool"] = proc["tool"]
      BY <1>0, <3>3
    <3>5. ~Alive("service")' /\ ~Alive("tool")'
      BY <2>1, <3>1, <3>4 DEF Alive
    <3> QED
      BY <1>0, <2>1, <3>3, <3>4, <3>5 DEF OneAtATime, InStep, Busy, Alive
  <2> QED
    BY <2>3, <2>4
<1>11. CASE StartSucceeds
  <2>1. Busy("watchdog") /\ Alive("watchdog") /\ disk' = disk
    BY <1>11 DEF StartSucceeds, Busy, Alive
  <2>2. ~Alive("service") /\ ~Alive("tool")
    BY <1>0, <2>1, OnlyOneBusy DEF OneAtATime
  <2>3. proc' = [proc EXCEPT !["service"] = Loaded, !["watchdog"] = Down]
    BY <1>0, <1>11, <2>2 DEF StartSucceeds
  <2>4. /\ proc'["service"] = Loaded /\ proc'["watchdog"] = Down /\ proc'["tool"] = proc["tool"]
    BY <1>0, <2>3
  <2>5. Loaded.next = disk /\ Down.pc = "down"
    BY <1>2, LoadedType, DownType
  <2>6. ~Alive("watchdog")' /\ ~Alive("tool")'
    BY <2>2, <2>4, <2>5 DEF Alive
  <2> QED
    BY <1>0, <2>1, <2>4, <2>5, <2>6 DEF OneAtATime, InStep, Busy, Alive
<1>12. CASE StartFails
  <2> DEFINE u == [proc["watchdog"] EXCEPT !.pc = "idle", !.tried = TRUE]
  <2>1. proc' = [proc EXCEPT !["watchdog"] = u] /\ disk' = disk /\ Busy("watchdog")
    BY <1>0, <1>12 DEF StartFails, Busy
  <2>2. u \in Local /\ u.pc = "idle" /\ u.next = proc["watchdog"].next
        /\ u.stopping = proc["watchdog"].stopping
    BY <1>0 DEF Local
  <2>3. u.next = disk' /\ ~u.stopping
    BY <1>0, <2>1, <2>2, OnlyOneBusy DEF WellPlaced
  <2> HIDE DEF u
  <2> QED
    BY <1>0, <2>1, <2>2, <2>3, StaysAlone
<1>13. CASE ToolStarts
  <2>1. PICK pc \in {"idle", "save"} : proc' = [proc EXCEPT !["tool"] = [Loaded EXCEPT !.pc = pc]]
    BY <1>13 DEF ToolStarts
  <2> DEFINE u == [Loaded EXCEPT !.pc = pc]
  <2>2. u \in Local /\ u.pc # "down" /\ u.next = disk /\ ~u.stopping
    BY <2>1, LoadedType
  <2>3. disk' = disk /\ \A q \in Process : ~Alive(q)
    BY <1>13 DEF ToolStarts
  <2> QED
    BY <1>0, <2>1, <2>2, <2>3, StartsAlone
<1>14. CASE ToolSaves
  <2>1. Busy("tool") /\ proc' = [proc EXCEPT !["tool"] = Down] /\ disk' = proc["tool"].next
    BY <1>14 DEF ToolSaves, Busy
  <2>2. disk' = disk
    BY <1>0, <2>1, OnlyOneBusy
  <2> QED
    BY <1>0, <2>1, <2>2, EndsAlone
<1>15. CASE UNCHANGED vars
  BY <1>15 DEF vars, OneAtATime, InStep, Alive, Busy
<1>16. ASSUME NEW p \in Process, Reports(p) PROVE OneAtATime' /\ InStep'
  <2> DEFINE t == proc[p]
  <2>1. Busy(p) /\ t.pc \in Holding \cup {"peek", "idle"}
    BY <1>16 DEF Reports, Enqueue, PushLoads, PushSaves, Peek, Exchange, NoAnswer, PopLoads,
                 PopSaves, Busy, Holding
  <2>2. t \in Local /\ WellPlaced(p, t) /\ t.next = disk
    BY <1>0, <2>1, OnlyOneBusy
  <2>3. ASSUME NEW u \in Local, proc' = [proc EXCEPT ![p] = u], u.pc \notin {"check", "down"},
               u.next = disk', u.stopping = t.stopping
        PROVE  OneAtATime' /\ InStep'
    BY <1>0, <2>1, <2>2, <2>3, StaysAlone DEF WellPlaced
  <2>4. CASE Enqueue(p)
    <3> DEFINE e == <<Cardinality(issued), t.next>>
               u == [t EXCEPT !.pc = "load", !.next = @ + 1, !.item = e]
    <3>1. proc' = [proc EXCEPT ![p] = u] /\ disk' = t.next + 1
      BY <1>0, <2>4 DEF Enqueue, Local
    <3>2. u.pc = "load" /\ u.next = disk' /\ u.stopping = t.stopping
      BY <2>2, <3>1 DEF Local
    <3> HIDE DEF u
    <3>3. u = proc'[p] /\ TypeOK'
      BY <1>0, <1>16, <3>1, ReportsTyped
    <3>4. u \in Local
      BY <3>3 DEF TypeOK
    <3> QED
      BY <2>3, <3>1, <3>2, <3>4
  <2>5. CASE disk' = disk /\ Return(p) /\ t.pc # "idle"
    <3>1. /\ Returned(p) \in Local /\ WellPlaced(p, Returned(p))
          /\ Returned(p).pc \in {"idle", "start", "down"}
          /\ p = "service" => Returned(p).pc # "down"
          /\ Returned(p).pc # "down" => Returned(p).next = proc[p].next
          /\ Returned(p).stopping => proc[p].stopping
      BY <2>1, <2>5, ReturnedType
    <3> QED
      BY <2>1, <2>2, <2>5, <3>1, StaysAlone DEF Return, WellPlaced
  <2>6. ASSUME disk' = disk, proc'[p].pc \in {"push", "peek", "wait", "popload", "pop"},
               proc'[p].next = t.next, proc'[p].stopping = t.stopping,
               \A q \in Process : q # p => proc'[q] = proc[q]
        PROVE  OneAtATime' /\ InStep'
    <3>1. TypeOK'
      BY <1>16, ReportsTyped
    <3>2. proc' \in [Process -> Local]
      BY <3>1 DEF TypeOK
    <3>3. PICK u \in Local : u = proc'[p]
      BY <3>2
    <3>4. proc' = [proc EXCEPT ![p] = u]
      BY <1>0, <2>6, <3>2, <3>3
    <3> QED
      BY <2>2, <2>3, <2>6, <3>3, <3>4
  <2>7. CASE PushLoads(p) \/ PopLoads(p)
    BY <1>0, <2>2, <2>6, <2>7 DEF PushLoads, PopLoads, Local
  <2>8. CASE PushSaves(p) \/ PopSaves(p)
    BY <1>0, <2>2, <2>6, <2>8 DEF PushSaves, PopSaves, Local
  <2>9. CASE Peek(p)
    <3>1. CASE queue = << >>
      BY <2>5, <2>9, <3>1 DEF Peek
    <3>2. CASE queue # << >>
      BY <1>0, <2>2, <2>6, <2>9, <3>2 DEF Peek, Local
    <3> QED
      BY <3>1, <3>2
  <2>10. CASE Exchange(p)
    <3>1. CASE t.item[1] \in receipts'
      BY <1>0, <2>2, <2>6, <2>10, <3>1 DEF Exchange, Local
    <3>2. CASE t.item[1] \notin receipts'
      BY <2>5, <2>10, <3>2 DEF Exchange
    <3> QED
      BY <3>1, <3>2
  <2>11. CASE NoAnswer(p)
    BY <2>5, <2>11 DEF NoAnswer
  <2> QED
    BY <1>16, <2>4, <2>7, <2>8, <2>9, <2>10, <2>11 DEF Reports
<1> QED
  BY <1>4, <1>5, <1>6, <1>7, <1>8, <1>9, <1>10, <1>11, <1>12, <1>13, <1>14, <1>15, <1>16
  DEF Next

-----------------------------------------------------------------------------
(* The files and the server *)

\* What one process and the server leave behind: the parts of IInv that speak
\* of the files.
FilesInv ==
    /\ InOrder /\ SequenceNeverReused /\ QueuedUntilReceived
    /\ \A p \in Process : CopyIsCurrent(proc[p])

\* A step that touches neither the files nor the server, nor puts a process
\* between two of its steps on them.
LEMMA FilesUntouched ==
    ASSUME FilesInv, UNCHANGED <<disk, queue, serverVars, issued, pushed>>,
           \A p \in Process : \/ proc'[p].pc \notin Holding
                              \/ /\ proc'[p].pc = proc[p].pc /\ proc'[p].item = proc[p].item
                                 /\ proc'[p].items = proc[p].items
    PROVE  FilesInv'
<1>1. ASSUME NEW p \in Process PROVE CopyIsCurrent(proc[p])'
  <2>1. CopyIsCurrent(proc[p])
    BY DEF FilesInv
  <2> QED
    BY <2>1 DEF CopyIsCurrent, Holding, serverVars
<1>2. InOrder' /\ SequenceNeverReused' /\ QueuedUntilReceived'
  BY DEF FilesInv, InOrder, SequenceNeverReused, QueuedUntilReceived, serverVars
<1> QED
  BY <1>1, <1>2 DEF FilesInv

\* The copies of the processes that are not at work say nothing.
LEMMA OnlyOneCopy ==
    ASSUME TypeOK, OneAtATime, InStep, NEW p \in Process, Busy(p),
           \A q \in Process : q # p => proc'[q] = proc[q], CopyIsCurrent(proc[p])'
    PROVE  \A q \in Process : CopyIsCurrent(proc[q])'
<1>1. \A q \in Process : q # p => proc'[q].pc \in {"down", "check"}
  BY OnlyOneBusy
<1> QED
  BY <1>1 DEF CopyIsCurrent

\* The elements of the queue.
LEMMA Queued ==
    ASSUME TypeOK
    PROVE  /\ Len(queue) \in Nat /\ DOMAIN queue = 1 .. Len(queue)
           /\ \A i \in 1 .. Len(queue) : queue[i] \in pushed /\ queue[i] \in issued
                                         /\ queue[i][1] \in Nat /\ queue[i][2] \in Nat
<1>1. queue \in Seq(pushed) /\ pushed \subseteq issued /\ issued \subseteq Envelope
  BY DEF TypeOK
<1>2. Len(queue) \in Nat /\ DOMAIN queue = 1 .. Len(queue)
  BY <1>1, LenProperties
<1>3. \A i \in 1 .. Len(queue) : queue[i] \in pushed
  BY <1>1, <1>2, ElementOfSeq
<1> QED
  BY <1>1, <1>2, <1>3 DEF Envelope

\* enqueue: the sequence of config.json is above all that were signed.
LEMMA EnqueueFiles ==
    ASSUME TypeOK, OneAtATime, InStep, FilesInv, NEW p \in Process, Enqueue(p), TypeOK'
    PROVE  FilesInv'
<1> DEFINE e == <<Cardinality(issued), proc[p].next>>
<1>1. /\ proc \in [Process -> Local] /\ proc[p] \in Local /\ disk \in Nat /\ lastSeq \in Nat
      /\ issued \subseteq Envelope
  BY DEF TypeOK
<1>2. Busy(p) /\ e[2] = disk
  BY OnlyOneBusy DEF Enqueue, Busy
<1>3. /\ issued' = issued \cup {e} /\ disk' = disk + 1
      /\ UNCHANGED <<queue, serverVars, pushed>>
      /\ proc'[p].pc = "load" /\ proc'[p].item = e
      /\ \A q \in Process : q # p => proc'[q] = proc[q]
  BY <1>1, <1>2, OnlyOneBusy DEF Enqueue, Local
<1> HIDE DEF e
<1>4. InOrder /\ SequenceNeverReused /\ QueuedUntilReceived
  BY DEF FilesInv
<1>5. \A f \in issued : f[2] \in Nat /\ f[2] < disk
  BY <1>1, <1>4 DEF InOrder, Envelope
<1>6. InOrder'
  BY <1>1, <1>2, <1>3, <1>4, <1>5, SMTT(30) DEF InOrder, serverVars
<1>7. SequenceNeverReused'
  BY <1>1, <1>2, <1>3, <1>4, <1>5 DEF SequenceNeverReused
<1>8. QueuedUntilReceived'
  BY <1>3, <1>4 DEF QueuedUntilReceived, serverVars
<1>9. CopyIsCurrent(proc[p])'
  BY <1>1, <1>2, <1>3, <1>4, <1>5, Queued DEF CopyIsCurrent, serverVars, InOrder
<1> QED
  BY <1>2, <1>3, <1>6, <1>7, <1>8, <1>9, OnlyOneCopy DEF FilesInv

\* Push: the copy that was loaded is still the file, and the new report goes
\* behind it.
LEMMA PushSavesFiles ==
    ASSUME TypeOK, OneAtATime, InStep, FilesInv, NEW p \in Process, PushSaves(p)
    PROVE  FilesInv'
<1> DEFINE e == proc[p].item
<1>1. /\ proc \in [Process -> Local] /\ proc[p] \in Local /\ disk \in Nat /\ lastSeq \in Nat
      /\ queue \in Seq(issued) /\ issued \subseteq Envelope /\ proc[p].pc = "push"
  BY SeqOfMore DEF TypeOK, PushSaves
<1>2. e \in issued /\ e \in Envelope
  BY <1>1 DEF TypeOK, WellPlaced, Holding
<1>3. /\ e[2] < disk /\ lastSeq < e[2] /\ proc[p].items = queue /\ e[2] \in Nat
      /\ \A i \in 1 .. Len(queue) : queue[i][2] < e[2]
  BY <1>1, <1>2 DEF FilesInv, CopyIsCurrent, Envelope
<1>4. /\ queue' = Append(queue, e) /\ pushed' = pushed \cup {e}
      /\ UNCHANGED <<disk, serverVars, issued>>
      /\ proc'[p].pc = "peek" /\ \A q \in Process : q # p => proc'[q] = proc[q]
  BY <1>1, <1>3 DEF PushSaves, Local
<1> HIDE DEF e
<1>5. /\ Len(queue) \in Nat /\ Len(queue') = Len(queue) + 1 /\ queue'[Len(queue) + 1] = e
      /\ \A i \in 1 .. Len(queue) : queue'[i] = queue[i]
      /\ DOMAIN queue = 1 .. Len(queue) /\ DOMAIN queue' = 1 .. Len(queue) + 1
  BY <1>1, <1>2, <1>4, Queued, AppendProperties
<1>6. InOrder /\ SequenceNeverReused /\ QueuedUntilReceived
  BY DEF FilesInv
<1>7. InOrder'
  <2>1. ASSUME NEW i \in 1 .. Len(queue'), NEW j \in 1 .. Len(queue'), i < j
        PROVE  queue'[i][2] < queue'[j][2]
    <3>1. CASE j = Len(queue) + 1
      BY <1>3, <1>5, <2>1, <3>1
    <3>2. CASE j # Len(queue) + 1
      <4>1. i \in 1 .. Len(queue) /\ j \in 1 .. Len(queue)
        BY <1>5, <2>1, <3>2
      <4> QED
        BY <1>5, <1>6, <2>1, <4>1 DEF InOrder
    <3> QED
      BY <3>1, <3>2
  <2> QED
    BY <1>4, <1>6, <2>1 DEF InOrder, serverVars
<1>8. SequenceNeverReused'
  BY <1>4, <1>6 DEF SequenceNeverReused
<1>9. QueuedUntilReceived'
  BY <1>3, <1>4, <1>5, <1>6 DEF QueuedUntilReceived, serverVars
<1>10. CopyIsCurrent(proc[p])'
  BY <1>4 DEF CopyIsCurrent
<1>11. Busy(p)
  BY <1>1 DEF Busy
<1> QED
  BY <1>4, <1>7, <1>8, <1>9, <1>10, <1>11, OnlyOneCopy DEF FilesInv

\* verified(): the report at the head of the queue has the lowest sequence, so
\* accepting it refuses none of the others.
LEMMA ServeFiles ==
    ASSUME TypeOK, OneAtATime, InStep, FilesInv, NEW p \in Process, proc[p].pc = "wait",
           Serve(proc[p].item) \/ UNCHANGED serverVars,
           UNCHANGED <<disk, queue, issued, pushed>>,
           \A q \in Process : q # p => proc'[q] = proc[q],
           \/ proc'[p].pc \notin Holding
           \/ /\ proc'[p].pc = "popload" /\ proc'[p].item = proc[p].item
              /\ proc[p].item[1] \in receipts'
    PROVE  FilesInv'
<1> DEFINE e == proc[p].item
<1>1. e \in issued /\ queue # << >> /\ e = queue[1] /\ Busy(p)
  BY DEF TypeOK, WellPlaced, Holding, FilesInv, CopyIsCurrent, Busy
<1> HIDE DEF e
<1>2. InOrder /\ SequenceNeverReused /\ QueuedUntilReceived
  BY DEF FilesInv
<1>3. /\ lastSeq \in Nat /\ e[2] \in Nat /\ e[2] < disk
      /\ receipts \subseteq receipts'
      /\ lastSeq' = lastSeq \/ (lastSeq' = e[2] /\ e[1] \in receipts')
  BY <1>1, <1>2 DEF TypeOK, Envelope, InOrder, Serve, serverVars, e
<1>4. InOrder'
  BY <1>2, <1>3 DEF InOrder
<1>5. SequenceNeverReused'
  BY <1>2 DEF SequenceNeverReused
<1>6. QueuedUntilReceived'
  <2> SUFFICES ASSUME NEW f \in pushed, f[1] \notin receipts'
               PROVE  f[2] > lastSeq' /\ \E i \in DOMAIN queue : queue[i] = f
    BY DEF QueuedUntilReceived
  <2>1. f[2] > lastSeq /\ \E i \in DOMAIN queue : queue[i] = f
    BY <1>2, <1>3 DEF QueuedUntilReceived
  <2>2. PICK i \in 1 .. Len(queue) : queue[i] = f
    BY <2>1, Queued
  <2>3. CASE lastSeq' = lastSeq
    BY <2>1, <2>3
  <2>4. CASE lastSeq' = e[2] /\ e[1] \in receipts'
    <3>1. i # 1
      BY <1>1, <2>2, <2>4
    <3>2. 1 \in 1 .. Len(queue) /\ 1 < i
      BY <3>1, Queued
    <3>3. queue[1][2] < queue[i][2]
      BY <1>2, <3>2 DEF InOrder
    <3> QED
      BY <1>1, <1>3, <2>1, <2>2, <2>4, <3>3, Queued
  <2> QED
    BY <1>3, <2>3, <2>4
<1>7. CopyIsCurrent(proc[p])'
  BY <1>1 DEF CopyIsCurrent, Holding, e
<1> QED
  BY <1>1, <1>4, <1>5, <1>6, <1>7, OnlyOneCopy DEF FilesInv

\* Pop: the head that is removed is the report that was received.
LEMMA PopSavesFiles ==
    ASSUME TypeOK, OneAtATime, InStep, FilesInv, NEW p \in Process, PopSaves(p)
    PROVE  FilesInv'
<1>1. /\ proc \in [Process -> Local] /\ proc[p] \in Local /\ queue \in Seq(pushed)
      /\ proc[p].pc = "pop" /\ Busy(p)
  BY DEF TypeOK, PopSaves, Busy
<1>2. queue # << >> /\ queue[1][1] \in receipts /\ proc[p].items = queue
  BY <1>1 DEF FilesInv, CopyIsCurrent
<1>3. /\ queue' = Tail(queue) /\ UNCHANGED <<disk, serverVars, issued, pushed>>
      /\ proc'[p].pc = "peek" /\ \A q \in Process : q # p => proc'[q] = proc[q]
  BY <1>1, <1>2 DEF PopSaves, Local
<1>4. /\ Len(queue) \in Nat /\ Len(queue) >= 1 /\ Len(queue') = Len(queue) - 1
      /\ \A i \in 1 .. Len(queue) - 1 : queue'[i] = queue[i + 1]
      /\ DOMAIN queue' = 1 .. Len(queue) - 1 /\ DOMAIN queue = 1 .. Len(queue)
  BY <1>1, <1>2, <1>3, WithoutHead, LenProperties
<1>5. InOrder /\ SequenceNeverReused /\ QueuedUntilReceived
  BY DEF FilesInv
<1>6. InOrder'
  <2>1. ASSUME NEW i \in 1 .. Len(queue'), NEW j \in 1 .. Len(queue'), i < j
        PROVE  queue'[i][2] < queue'[j][2]
    <3>1. i + 1 \in 1 .. Len(queue) /\ j + 1 \in 1 .. Len(queue) /\ i + 1 < j + 1
      BY <1>4, <2>1
    <3>2. queue[i + 1][2] < queue[j + 1][2]
      BY <1>5, <3>1 DEF InOrder
    <3> QED
      BY <1>4, <3>2
  <2> QED
    BY <1>3, <1>5, <2>1 DEF InOrder, serverVars
<1>7. SequenceNeverReused'
  BY <1>3, <1>5 DEF SequenceNeverReused
<1>8. QueuedUntilReceived'
  <2> SUFFICES ASSUME NEW f \in pushed, f[1] \notin receipts
               PROVE  f[2] > lastSeq /\ \E i \in DOMAIN queue' : queue'[i] = f
    BY <1>3 DEF QueuedUntilReceived, serverVars
  <2>1. f[2] > lastSeq /\ \E i \in DOMAIN queue : queue[i] = f
    BY <1>5 DEF QueuedUntilReceived
  <2>2. PICK i \in 1 .. Len(queue) : queue[i] = f
    BY <1>4, <2>1
  <2>3. i - 1 \in 1 .. Len(queue) - 1
    BY <1>2, <1>4, <2>2
  <2>4. queue'[i - 1] = f
    BY <1>4, <2>2, <2>3
  <2> QED
    BY <1>4, <2>1, <2>3, <2>4
<1>9. CopyIsCurrent(proc[p])'
  BY <1>3 DEF CopyIsCurrent
<1> QED
  BY <1>1, <1>3, <1>6, <1>7, <1>8, <1>9, OnlyOneCopy DEF FilesInv

\* One case per action: the steps on the files one by one, the others together.
LEMMA FilesStep ==
    ASSUME ~Racing, TypeOK, OneAtATime, InStep, FilesInv, [Next]_vars
    PROVE  FilesInv'
<1>0. /\ proc \in [Process -> Local] /\ Down.pc = "down" /\ Loaded.pc = "idle"
      /\ "service" \in Process /\ "watchdog" \in Process /\ "tool" \in Process
  BY DEF TypeOK, Process, Down, Loaded
<1>1. CASE ServiceStarts \/ ServiceEnds \/ ServiceMissing \/ WatchdogStarts \/ ToolStarts
           \/ \E p \in Process : Stops(p)
  <2>1. /\ UNCHANGED <<disk, queue, serverVars, issued, pushed>>
        /\ \A pc \in {"idle", "check", "save"} : [Loaded EXCEPT !.pc = pc].pc = pc
    BY <1>1, LoadedType DEF ServiceStarts, ServiceEnds, ServiceMissing, WatchdogStarts, ToolStarts, Stops
  <2>2. \A p \in Process : proc'[p] = proc[p] \/ proc'[p].pc \in {"down", "idle", "check", "save"}
    BY <1>0, <1>1, <2>1 DEF ServiceStarts, ServiceEnds, ServiceMissing, WatchdogStarts, ToolStarts, Stops
  <2> QED
    BY <2>1, <2>2, FilesUntouched DEF Holding
<1>2. CASE StopRequested
  <2>1. /\ UNCHANGED <<disk, queue, serverVars, issued, pushed>>
        /\ \A p \in Process : /\ proc'[p].pc = proc[p].pc /\ proc'[p].item = proc[p].item
                              /\ proc'[p].items = proc[p].items
    BY <1>0, <1>2 DEF StopRequested, Local
  <2> QED
    BY <2>1, FilesUntouched
<1>3. CASE CheckPosture \/ StartFails
  <2>1. UNCHANGED <<disk, queue, serverVars, issued, pushed>>
    BY <1>3 DEF CheckPosture, StartFails
  <2>2. \A p \in Process : proc'[p] = proc[p] \/ proc'[p].pc \in {"down", "idle"}
    BY <1>0, <1>3 DEF CheckPosture, StartFails, Local
  <2> QED
    BY <2>1, <2>2, FilesUntouched DEF Holding
<1>4. CASE StartSucceeds
  <2>1. UNCHANGED <<disk, queue, serverVars, issued, pushed>>
    BY <1>4 DEF StartSucceeds
  <2>2. \A p \in Process : proc'[p] = proc[p] \/ proc'[p].pc \in {"down", "idle"}
    BY <1>0, <1>4 DEF StartSucceeds
  <2> QED
    BY <2>1, <2>2, FilesUntouched DEF Holding
<1>5. CASE ToolSaves
  <2>1. Busy("tool") /\ disk' = proc["tool"].next /\ UNCHANGED <<queue, serverVars, issued, pushed>>
    BY <1>5 DEF ToolSaves, Busy
  <2>2. disk' = disk
    BY <1>0, <2>1, OnlyOneBusy
  <2>3. \A p \in Process : proc'[p] = proc[p] \/ proc'[p].pc = "down"
    BY <1>0, <1>5 DEF ToolSaves
  <2> QED
    BY <2>1, <2>2, <2>3, FilesUntouched DEF Holding
<1>6. CASE UNCHANGED vars
  BY <1>6, FilesUntouched DEF vars
<1>7. ASSUME NEW p \in Process, Reports(p) PROVE FilesInv'
  <2>0. CopyIsCurrent(proc[p]) /\ proc[p] \in Local /\ TypeOK'
        /\ InOrder /\ SequenceNeverReused /\ QueuedUntilReceived
    BY <1>0, <1>7, ReportsTyped DEF FilesInv
  <2>1. ASSUME Busy(p), \A q \in Process : q # p => proc'[q] = proc[q], CopyIsCurrent(proc[p])',
               UNCHANGED <<disk, queue, serverVars, issued, pushed>>
        PROVE  FilesInv'
    <3>1. InOrder' /\ SequenceNeverReused' /\ QueuedUntilReceived'
      BY <2>0, <2>1 DEF InOrder, SequenceNeverReused, QueuedUntilReceived, serverVars
    <3> QED
      BY <2>1, <3>1, OnlyOneCopy DEF FilesInv
  <2>2. ASSUME Return(p), proc[p].pc \in Holding \cup {"peek"}
        PROVE  proc'[p].pc \notin Holding /\ \A q \in Process : q # p => proc'[q] = proc[q]
    <3>1. proc'[p] = Returned(p) /\ \A q \in Process : q # p => proc'[q] = proc[q]
      BY <1>0, <2>2 DEF Return
    <3> QED
      BY <2>2, <3>1, ReturnedType DEF Holding
  <2>3. CASE Enqueue(p)
    BY <2>0, <2>3, EnqueueFiles
  <2>4. CASE PushLoads(p)
    <3>1. /\ proc[p].pc = "load" /\ proc'[p].pc = "push" /\ proc'[p].items = queue
          /\ proc'[p].item = proc[p].item /\ UNCHANGED <<disk, queue, serverVars, issued, pushed>>
          /\ \A q \in Process : q # p => proc'[q] = proc[q]
      BY <1>0, <2>0, <2>4 DEF PushLoads, Local
    <3> QED
      BY <2>0, <2>1, <3>1 DEF CopyIsCurrent, Busy, serverVars
  <2>5. CASE PushSaves(p)
    BY <2>5, PushSavesFiles
  <2>6. CASE Peek(p)
    <3>1. proc[p].pc = "peek" /\ UNCHANGED <<disk, queue, serverVars, issued, pushed>> /\ Busy(p)
      BY <2>6 DEF Peek, Busy
    <3>2. CASE queue = << >>
      <4>1. Return(p)
        BY <2>6, <3>2 DEF Peek
      <4> QED
        BY <2>1, <2>2, <3>1, <4>1 DEF CopyIsCurrent, Holding
    <3>3. CASE queue # << >>
      <4>1. proc'[p].pc = "wait" /\ proc'[p].item = Head(queue)
            /\ \A q \in Process : q # p => proc'[q] = proc[q]
        BY <1>0, <2>0, <2>6, <3>3 DEF Peek, Local
      <4>2. queue \in Seq(pushed)
        BY DEF TypeOK
      <4>3. Head(queue) = queue[1]
        BY <3>3, <4>2, WithoutHead
      <4> QED
        BY <2>1, <3>1, <3>3, <4>1, <4>3 DEF CopyIsCurrent
    <3> QED
      BY <3>2, <3>3
  <2>7. CASE Exchange(p)
    <3>1. proc[p].pc = "wait" /\ Serve(proc[p].item) /\ UNCHANGED <<disk, queue, issued, pushed>>
      BY <2>7 DEF Exchange
    <3>2. CASE proc[p].item[1] \in receipts'
      <4>1. proc'[p].pc = "popload" /\ proc'[p].item = proc[p].item
            /\ \A q \in Process : q # p => proc'[q] = proc[q]
        BY <1>0, <2>0, <2>7, <3>2 DEF Exchange, Local
      <4> QED
        BY <3>1, <3>2, <4>1, ServeFiles
    <3>3. CASE proc[p].item[1] \notin receipts'
      <4>1. Return(p)
        BY <2>7, <3>3 DEF Exchange
      <4> QED
        BY <2>2, <3>1, <4>1, ServeFiles DEF Holding
    <3> QED
      BY <3>2, <3>3
  <2>8. CASE NoAnswer(p)
    <3>1. proc[p].pc = "wait" /\ (Serve(proc[p].item) \/ UNCHANGED serverVars) /\ Return(p)
          /\ UNCHANGED <<disk, queue, issued, pushed>>
      BY <2>8 DEF NoAnswer
    <3> QED
      BY <2>2, <3>1, ServeFiles DEF Holding
  <2>9. CASE PopLoads(p)
    <3>1. /\ proc[p].pc = "popload" /\ proc'[p].pc = "pop" /\ proc'[p].items = queue
          /\ proc'[p].item = proc[p].item /\ UNCHANGED <<disk, queue, serverVars, issued, pushed>>
          /\ \A q \in Process : q # p => proc'[q] = proc[q]
      BY <1>0, <2>0, <2>9 DEF PopLoads, Local
    <3> QED
      BY <2>0, <2>1, <3>1 DEF CopyIsCurrent, Busy, serverVars
  <2>10. CASE PopSaves(p)
    BY <2>10, PopSavesFiles
  <2> QED
    BY <1>7, <2>3, <2>4, <2>5, <2>6, <2>7, <2>8, <2>9, <2>10 DEF Reports
<1> QED
  BY <1>1, <1>2, <1>3, <1>4, <1>5, <1>6, <1>7 DEF Next

(***************************************************************************)
(* While the service manager leaves a running watchdog alone, at most one  *)
(* process works on config.json and queue.json, it counts from what the    *)
(* file says, and what it loaded is what it will overwrite.                *)
(***************************************************************************)
THEOREM Invariance == ASSUME ~Racing PROVE Spec => []IInv
<1>1. IInv <=> TypeOK /\ OneAtATime /\ InStep /\ FilesInv
  BY DEF IInv, FilesInv
<1>2. Init => IInv
  <2> SUFFICES ASSUME Init PROVE IInv
    OBVIOUS
  <2>1. queue \in Seq(pushed) /\ IsFiniteSet(issued) /\ Len(queue) = 0
    BY EmptySeq, FS_EmptySet DEF Init
  <2>2. TypeOK
    BY <2>1, DownType DEF Init, TypeOK
  <2>3. \A p \in Process : proc[p].pc = "down"
    BY DownType DEF Init
  <2>4. OneAtATime /\ InStep
    BY <2>3 DEF OneAtATime, InStep, Busy, Alive, Process
  <2>5. InOrder /\ SequenceNeverReused /\ QueuedUntilReceived
    BY <2>1 DEF Init, InOrder, SequenceNeverReused, QueuedUntilReceived
  <2>6. \A p \in Process : CopyIsCurrent(proc[p])
    BY <2>3 DEF CopyIsCurrent
  <2> QED
    BY <2>2, <2>4, <2>5, <2>6 DEF IInv
<1>3. IInv /\ [Next]_vars => IInv'
  <2> SUFFICES ASSUME IInv, [Next]_vars PROVE IInv'
    OBVIOUS
  <2>1. TypeOK' /\ OneAtATime' /\ InStep' /\ FilesInv'
    BY <1>1, TypeStep, HandoverStep, FilesStep
  <2> QED
    BY <2>1 DEF IInv, FilesInv
<1> QED
  BY <1>2, <1>3, PTL DEF Spec

(***************************************************************************)
(* The handover through config.json is safe for any number of reports and  *)
(* stops: no two envelopes of the service, the watchdog and the commands   *)
(* of an installer ever have the same sequence.                            *)
(***************************************************************************)
THEOREM SequencesAreNeverReused == ASSUME ~Racing PROVE Spec => []SequenceNeverReused
<1>1. IInv => SequenceNeverReused
  BY DEF IInv
<1> QED
  BY <1>1, Invariance, PTL

(***************************************************************************)
(* And no report that any of them queued is lost from queue.json or turned *)
(* into a replay before the server has it.                                 *)
(***************************************************************************)
THEOREM ReportsAreNotLost == ASSUME ~Racing PROVE Spec => []QueuedUntilReceived
<1>1. IInv => QueuedUntilReceived
  BY DEF IInv
<1> QED
  BY <1>1, Invariance, PTL
=============================================================================

---------------------------- MODULE AgentProcesses ----------------------------
(***************************************************************************)
(* The service, the watchdog (internal/agent/service_other.go and          *)
(* service_windows.go) and the commands an installer runs (cmd/codex-guard *)
(* /main.go) are processes that share config.json and queue.json.  Each    *)
(* loads the configuration when it starts and then counts sequences in     *)
(* memory; the mutexes of Client and Queue are per process, so the load    *)
(* and the save of a queue operation are two steps.  SignedDelivery models *)
(* one process in full; here a report is an event id and its sequence, and *)
(* the server is the part of verified() about receipts and sequences.      *)
(***************************************************************************)
EXTENDS Integers, Sequences, FiniteSets

CONSTANTS
    Racing,      \* may a watchdog run beside a service that starts or stops?
    MaxReports, MaxStops   \* bounds of the model

ASSUME ProcessAssumption ==
    Racing \in BOOLEAN /\ MaxReports \in Nat /\ MaxStops \in Nat

Process == {"service", "watchdog", "tool"}
Platform == {"linux", "darwin", "windows"}

VARIABLES
    platform,  \* runtime.GOOS
    disk,      \* config.json: next_sequence
    queue,     \* queue.json
    proc,      \* the processes
    lastSeq,   \* devices.last_sequence
    receipts,  \* processed_events
    issued,    \* history: every envelope signed
    pushed,    \* history: every envelope whose Push returned
    stops

serverVars == <<lastSeq, receipts>>
vars == <<platform, disk, queue, proc, serverVars, issued, pushed, stops>>

\* pc, Config.NextSequence, the queue as loaded, the envelope in hand, whether
\* the watchdog has tried to start the service, and whether the service was
\* asked to stop and has not done so yet.
Down == [pc |-> "down", next |-> 0, items |-> << >>, item |-> << >>,
         tried |-> FALSE, stopping |-> FALSE]

Alive(p) == proc[p].pc # "down"

\* The installers stop everything before they run a command.  Events of the
\* service manager are held back while a watchdog runs, unless Racing.
Undisturbed == ~Alive("tool") /\ (Alive("watchdog") => Racing)

Init ==
    /\ platform \in Platform
    /\ disk = 1 /\ queue = << >> /\ proc = [p \in Process |-> Down]
    /\ lastSeq = 0 /\ receipts = {}
    /\ issued = {} /\ pushed = {} /\ stops = 0

-----------------------------------------------------------------------------
(* The service manager *)

Loaded == [Down EXCEPT !.pc = "idle", !.next = disk]

\* The manager starts the service, at boot or by its restart policy.
ServiceStarts ==
    /\ ~Alive("service") /\ Undisturbed
    /\ proc' = [proc EXCEPT !["service"] = Loaded]
    /\ UNCHANGED <<platform, disk, queue, serverVars, issued, pushed, stops>>

\* The manager asks the service to stop: a signal, or svc.Stop in Execute ...
StopRequested ==
    /\ Alive("service") /\ ~proc["service"].stopping /\ Undisturbed
    /\ stops < MaxStops /\ stops' = stops + 1
    /\ proc' = [proc EXCEPT !["service"].stopping = TRUE]
    /\ UNCHANGED <<platform, disk, queue, serverVars, issued, pushed>>

\* ... and Run returns when its cycle is over, not before.
ServiceEnds ==
    /\ proc["service"].stopping /\ proc["service"].pc = "idle"
    /\ proc' = [proc EXCEPT !["service"] = Down]
    /\ UNCHANGED <<platform, disk, queue, serverVars, issued, pushed, stops>>

\* A process is killed; the files are as it left them.
Stops(p) ==
    /\ Alive(p) /\ (p = "service" => Undisturbed)
    /\ stops < MaxStops /\ stops' = stops + 1
    /\ proc' = [proc EXCEPT ![p] = Down]
    /\ UNCHANGED <<platform, disk, queue, serverVars, issued, pushed>>

\* Mutant: the watchdog starts from a default configuration.
WatchdogStartsUnloaded ==
    /\ ~Alive("watchdog")
    /\ ~Alive("tool") /\ (proc["service"].stopping => Racing)
    /\ proc' = [proc EXCEPT !["watchdog"] = [Down EXCEPT !.pc = "check"]]
    /\ UNCHANGED <<platform, disk, queue, serverVars, issued, pushed, stops>>

\* The timer runs `codex-guard watchdog`; load() reads the configuration.
WatchdogStarts ==
    /\ ~Alive("watchdog")
    /\ ~Alive("tool") /\ (proc["service"].stopping => Racing)
    /\ proc' = [proc EXCEPT !["watchdog"] = [Loaded EXCEPT !.pc = "check"]]
    /\ UNCHANGED <<platform, disk, queue, serverVars, issued, pushed, stops>>

\* Mutant: the watchdog reports without looking at the service.
CheckPostureIgnored ==
    /\ proc["watchdog"].pc = "check"
    /\ proc' = [proc EXCEPT !["watchdog"].pc = "idle"]
    /\ UNCHANGED <<platform, disk, queue, serverVars, issued, pushed, stops>>

\* ServiceRunning of MonitorPosture: a service that is about to stop is not
\* active any more, and launchctl answers for the job, not for the process.
ServiceRunning ==
    IF Alive("service") /\ ~proc["service"].stopping THEN {TRUE}
    ELSE IF platform = "darwin" THEN BOOLEAN ELSE {FALSE}

\* A running service ends the watchdog.
CheckPosture ==
    /\ proc["watchdog"].pc = "check"
    /\ \E running \in ServiceRunning :
         proc' = [proc EXCEPT !["watchdog"] = IF running THEN Down
                                              ELSE [@ EXCEPT !.pc = "idle"]]
    /\ UNCHANGED <<platform, disk, queue, serverVars, issued, pushed, stops>>

\* An operation of p returns.  The service goes on with its loop; the watchdog
\* tries to start the service after its first event and ends after its second;
\* a command ends.
Returned(p) ==
    IF p = "service" THEN [proc[p] EXCEPT !.pc = "idle", !.items = << >>, !.item = << >>]
    ELSE IF p = "tool" \/ proc[p].tried THEN Down
    ELSE [proc[p] EXCEPT !.pc = "start", !.items = << >>, !.item = << >>]

Return(p) == proc' = [proc EXCEPT ![p] = Returned(p)]

\* systemctl, launchctl or sc starts the service, and the watchdog ends.  A
\* service that runs already goes on, but kickstart -k starts it anew.
StartSucceeds ==
    /\ proc["watchdog"].pc = "start"
    /\ proc' = [proc EXCEPT
         !["service"] = IF Alive("service") /\ platform # "darwin" THEN @ ELSE Loaded,
         !["watchdog"] = Down]
    /\ UNCHANGED <<platform, disk, queue, serverVars, issued, pushed, stops>>

\* It fails: SERVICE_RESTART_FAILED is reported.
StartFails ==
    /\ proc["watchdog"].pc = "start"
    /\ proc' = [proc EXCEPT !["watchdog"].pc = "idle", !["watchdog"].tried = TRUE]
    /\ UNCHANGED <<platform, disk, queue, serverVars, issued, pushed, stops>>

\* On Windows a service that is not installed is not started.
ServiceMissing ==
    /\ proc["watchdog"].pc = "start" /\ ~proc["watchdog"].tried
    /\ platform = "windows" /\ ~Alive("service")
    /\ proc' = [proc EXCEPT !["watchdog"] = Down]
    /\ UNCHANGED <<platform, disk, queue, serverVars, issued, pushed, stops>>

-----------------------------------------------------------------------------
(* The commands of the installers *)

\* load() in `once` and `uninstall-notice`, which send one report, and in
\* `configure-telemetry`, which saves the configuration.
ToolStarts ==
    /\ \A p \in Process : ~Alive(p)
    /\ \E pc \in {"idle", "save"} : proc' = [proc EXCEPT !["tool"] = [Loaded EXCEPT !.pc = pc]]
    /\ UNCHANGED <<platform, disk, queue, serverVars, issued, pushed, stops>>

\* config.Save writes the whole configuration, next_sequence as it was loaded.
ToolSaves ==
    /\ proc["tool"].pc = "save"
    /\ disk' = proc["tool"].next
    /\ proc' = [proc EXCEPT !["tool"] = Down]
    /\ UNCHANGED <<platform, queue, serverVars, issued, pushed, stops>>

-----------------------------------------------------------------------------
(* enqueue and Flush, in any process *)

\* Sign, advance the sequence, config.Save.
Enqueue(p) ==
    /\ proc[p].pc = "idle" /\ Cardinality(issued) < MaxReports
    /\ LET e == <<Cardinality(issued), proc[p].next>>
       IN  /\ issued' = issued \cup {e}
           /\ proc' = [proc EXCEPT ![p].pc = "load", ![p].next = @ + 1, ![p].item = e]
    /\ disk' = proc[p].next + 1
    /\ UNCHANGED <<platform, queue, serverVars, pushed, stops>>

\* Push: load ...
PushLoads(p) ==
    /\ proc[p].pc = "load"
    /\ proc' = [proc EXCEPT ![p].pc = "push", ![p].items = queue]
    /\ UNCHANGED <<platform, disk, queue, serverVars, issued, pushed, stops>>

\* Mutant: the kept items are not written back.
PushSavesOnlyNew(p) ==
    /\ proc[p].pc = "push"
    /\ queue' = << proc[p].item >>
    /\ pushed' = pushed \cup {proc[p].item}
    /\ proc' = [proc EXCEPT ![p].pc = "peek", ![p].items = << >>, ![p].item = << >>]
    /\ UNCHANGED <<platform, disk, serverVars, issued, stops>>

\* ... and save.
PushSaves(p) ==
    /\ proc[p].pc = "push"
    /\ queue' = Append(proc[p].items, proc[p].item)
    /\ pushed' = pushed \cup {proc[p].item}
    /\ proc' = [proc EXCEPT ![p].pc = "peek", ![p].items = << >>, ![p].item = << >>]
    /\ UNCHANGED <<platform, disk, serverVars, issued, stops>>

\* Flush: Peek.
Peek(p) ==
    /\ proc[p].pc = "peek"
    /\ IF queue = << >> THEN Return(p)
       ELSE proc' = [proc EXCEPT ![p].pc = "wait", ![p].item = Head(queue)]
    /\ UNCHANGED <<platform, disk, queue, serverVars, issued, pushed, stops>>

\* verified(): a receipt answers a retry, an old sequence is refused.
Serve(e) ==
    \/ (e[1] \in receipts \/ e[2] <= lastSeq) /\ UNCHANGED serverVars
    \/ /\ e[1] \notin receipts /\ e[2] > lastSeq
       /\ receipts' = receipts \cup {e[1]} /\ lastSeq' = e[2]

\* The answer is 2xx exactly when the server now has a receipt.
Exchange(p) ==
    /\ proc[p].pc = "wait" /\ Serve(proc[p].item)
    /\ IF proc[p].item[1] \in receipts'
       THEN proc' = [proc EXCEPT ![p].pc = "popload"]
       ELSE Return(p)
    /\ UNCHANGED <<platform, disk, queue, issued, pushed, stops>>

\* No answer: the report stays in the queue.
NoAnswer(p) ==
    /\ proc[p].pc = "wait" /\ (Serve(proc[p].item) \/ UNCHANGED serverVars)
    /\ Return(p)
    /\ UNCHANGED <<platform, disk, queue, issued, pushed, stops>>

\* Pop: load and save; it removes the head, whatever that is by now.
PopLoads(p) ==
    /\ proc[p].pc = "popload"
    /\ proc' = [proc EXCEPT ![p].pc = "pop", ![p].items = queue]
    /\ UNCHANGED <<platform, disk, queue, serverVars, issued, pushed, stops>>

PopSaves(p) ==
    /\ proc[p].pc = "pop"
    /\ queue' = IF proc[p].items = << >> THEN queue ELSE Tail(proc[p].items)
    /\ proc' = [proc EXCEPT ![p].pc = "peek", ![p].items = << >>, ![p].item = << >>]
    /\ UNCHANGED <<platform, disk, serverVars, issued, pushed, stops>>

Reports(p) ==
    \/ Enqueue(p) \/ PushLoads(p) \/ PushSaves(p) \/ Peek(p)
    \/ Exchange(p) \/ NoAnswer(p) \/ PopLoads(p) \/ PopSaves(p)

Next ==
    \/ ServiceStarts \/ StopRequested \/ ServiceEnds
    \/ WatchdogStarts \/ CheckPosture \/ StartSucceeds \/ StartFails \/ ServiceMissing
    \/ ToolStarts \/ ToolSaves
    \/ \E p \in Process : Stops(p) \/ Reports(p)

Spec == Init /\ [][Next]_vars

-----------------------------------------------------------------------------
(* Properties *)

Envelope == Nat \X Nat
Holding  == {"load", "push", "wait", "popload", "pop"}
Local == [pc : {"down", "idle", "check", "start", "save", "peek"} \cup Holding, next : Nat,
          items : Seq(Envelope), item : Envelope \cup {<< >>},
          tried : BOOLEAN, stopping : BOOLEAN]

\* A running process has loaded a sequence, holds an envelope that was signed
\* where its code uses one, and is only ever where its own code is.
WellPlaced(p, t) ==
    /\ t.pc # "down" => t.next # 0
    /\ t.pc \in Holding => t.item \in issued
    /\ t.items \in Seq(pushed)
    /\ t.pc \in {"check", "start"} \/ t.tried => p = "watchdog"
    /\ t.pc = "save" => p = "tool"
    /\ t.stopping => p = "service"

\* Receipts and queued reports are envelopes that were signed, the processes
\* are well placed.
TypeOK ==
    /\ platform \in Platform /\ disk \in Nat \ {0} /\ lastSeq \in Nat
    /\ issued \subseteq Envelope /\ IsFiniteSet(issued) /\ pushed \subseteq issued
    /\ receipts \subseteq {e[1] : e \in issued}
    /\ queue \in Seq(pushed) /\ proc \in [Process -> Local]
    /\ \A p \in Process : WellPlaced(p, proc[p])

(***************************************************************************)
(* service_other.go:15-17, "Avoid touching its shared sequence and queue   *)
(* from a second process; the watchdog owns only the stopped-service       *)
(* recovery path": the sequence is handed from one process to the other    *)
(* and back through config.json, and no two envelopes ever share one.      *)
(***************************************************************************)
SequenceNeverReused == \A e, f \in issued : e[2] = f[2] => e = f

(***************************************************************************)
(* A report that was queued, by any process, is received, or still in      *)
(* queue.json where the server will accept it: no process writes back an   *)
(* old copy of the queue, pops a report it did not send, or lets a later   *)
(* sequence overtake and turn the device's own report into a replay.       *)
(***************************************************************************)
QueuedUntilReceived ==
    \A e \in pushed :
        \/ e[1] \in receipts
        \/ e[2] > lastSeq /\ \E i \in DOMAIN queue : queue[i] = e

-----------------------------------------------------------------------------
(* The inductive invariant for ~Racing, in parts *)

Busy(p) == proc[p].pc \notin {"down", "check"}

\* One process at a time works on the files; a watchdog that has found a
\* service to look at is looking at one that will not stop.
OneAtATime ==
    /\ \A p, q \in Process : Busy(p) /\ Busy(q) => p = q
    /\ Alive("watchdog") => ~proc["service"].stopping
    /\ Alive("tool") => ~Alive("watchdog") /\ ~Alive("service")

\* Every process that will go on counts from the sequence in config.json; a
\* watchdog beside a running service will not.
InStep ==
    \A p \in Process :
        Alive(p) /\ (p = "watchdog" => ~Alive("service")) => proc[p].next = disk

\* What a process holds between two steps on the files is still true of them.
CopyIsCurrent(t) ==
    /\ t.pc \in {"load", "push"} =>
         /\ t.item[2] < disk /\ lastSeq < t.item[2]
         /\ \A i \in 1 .. Len(queue) : queue[i][2] < t.item[2]
    /\ t.pc \in {"wait", "popload", "pop"} => queue # << >> /\ t.item = queue[1]
    /\ t.pc \in {"popload", "pop"} => t.item[1] \in receipts
    /\ t.pc \in {"push", "pop"} => t.items = queue

\* The queue is in the order of its sequences, all of them used up.
InOrder ==
    /\ \A i, j \in 1 .. Len(queue) : i < j => queue[i][2] < queue[j][2]
    /\ lastSeq < disk /\ \A e \in issued : e[2] < disk

(***************************************************************************)
(* The inductive invariant behind SequenceNeverReused and                  *)
(* QueuedUntilReceived: who may touch the files, and what that process     *)
(* believes about them.                                                    *)
(***************************************************************************)
IInv ==
    /\ TypeOK /\ OneAtATime /\ InStep /\ InOrder
    /\ \A p \in Process : CopyIsCurrent(proc[p])
    /\ SequenceNeverReused /\ QueuedUntilReceived
=============================================================================

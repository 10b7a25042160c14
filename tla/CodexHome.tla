------------------------------ MODULE CodexHome ------------------------------
(***************************************************************************)
(* Which Codex home the agent watches (internal/agent/codexhome.go and     *)
(* refreshCodexHome of client.go), and what the server concludes from the  *)
(* home, the telemetry fingerprint and the quota of a heartbeat (heartbeat *)
(* of server/app/main.py).                                                 *)
(*                                                                         *)
(* The agent runs one loop: a refresh inspects the homes one after the     *)
(* other while Codex goes on writing, switches, and saves; an integrity    *)
(* scan or a heartbeat uses the result.  The five-minute caches only limit *)
(* how often the disk is read: after the first refresh of a process, a     *)
(* heartbeat may or may not refresh.  Heartbeats reach the server in order *)
(* or not at all (EventLog).                                               *)
(***************************************************************************)
EXTENDS Integers, Sequences, FiniteSets, FiniteSetsExt

CONSTANTS
    Home,            \* directories that may hold Codex data
    Configured,      \* the one the installer was given
    Owned,           \* those where Codex has a config.toml of its own
    EnvHomes,        \* the homes that CODEX_HOME lists, in order
    UserHomes,       \* the current user's, and on Windows USERPROFILE's
    ProfileHomes,    \* those of the local profiles, in order
    QuotaFileLimit,  \* how many of the newest logs are read for a quota
    MaxWrites, MaxCrashes, MaxFaults, MaxQueue   \* bounds of the model

ASSUME HomeAssumption ==
    /\ IsFiniteSet(Home) /\ Configured \in Home /\ Owned \subseteq Home
    /\ EnvHomes \in Seq(Home) /\ UserHomes \in Seq(Home) /\ ProfileHomes \in Seq(Home)
    /\ QuotaFileLimit \in Nat \ {0}
    /\ MaxWrites \in Nat /\ MaxCrashes \in Nat /\ MaxFaults \in Nat
    /\ MaxQueue \in Nat \ {0}

\* What may go wrong or be done by hand, as the properties tell it apart.
Fault == {"crash",   \* the process ends
          "logs",    \* a log is deleted, or a walk fails or is cut short
          "home",    \* somebody edits the home in config.json
          "toml",    \* somebody edits a config.toml, or it cannot be written
          "save",    \* the agent cannot write config.json
          "other"}   \* a queued heartbeat lapses, configure-telemetry is run,
                     \* or the server forgets the device

VARIABLES
    logs,      \* home -> its session logs: [mod, rate], times of the last
               \* write and of the newest rate limits in it (0: none)
    toml,      \* home -> config.toml: "none", "ours" or "other"
    writes,    \* the time of the last write to any log
    disk,      \* codex_home of config.json
    mem,       \* the process: pc, and home, auto, checked and quota of Client
    found,     \* resolveCodexHome: what the inspections have found
    queue,     \* heartbeats on their way
    srv,       \* the device's row, and the events of its last heartbeat
    baseline,  \* the home whose logs integrity.json holds, or NoHome
    accused,   \* has a scan found all logs of a home to be LOG_DELETED?
    faults     \* how often each fault happened

diskVars  == <<logs, toml, writes>>
agentVars == <<disk, mem, found, baseline, accused>>
vars == <<diskVars, agentVars, queue, srv, faults>>

NoHome  == "no home"
NoQuota == [home |-> NoHome, at |-> 0]
Unseen  == -2   \* not inspected in this refresh
Invalid == -1   \* neither logs nor config.toml, or not readable

NoneFound == [h \in Home |-> Unseen]
Down == [pc |-> "down", home |-> NoHome, auto |-> FALSE, checked |-> FALSE, quota |-> NoQuota]
NewRow == [home |-> NoHome, fp |-> "", run |-> -1, quota |-> NoQuota, raised |-> {}]

Suffer(f) ==
    /\ IF f = "crash" THEN faults[f] < MaxCrashes
       ELSE MapThenSumSet(LAMBDA g : faults[g], Fault \ {"crash"}) < MaxFaults
    /\ faults' = [faults EXCEPT ![f] = @ + 1]

Happened(kinds) == \E f \in kinds : faults[f] > 0

\* The installer has configured the telemetry of the home it was given.
Init ==
    /\ logs = [h \in Home |-> {}] /\ writes = 0 /\ disk = Configured
    /\ toml = [h \in Home |-> IF h = Configured THEN "ours"
                              ELSE IF h \in Owned THEN "other" ELSE "none"]
    /\ mem = Down /\ found = NoneFound /\ queue = << >> /\ srv = NewRow
    /\ baseline = NoHome /\ accused = FALSE /\ faults = [f \in Fault |-> 0]

-----------------------------------------------------------------------------
(* The disk *)

\* Codex starts a log or appends to one, with or without rate limits.
CodexWrites(h) ==
    /\ writes < MaxWrites /\ writes' = writes + 1
    /\ \E old \in logs[h] \cup {[mod |-> 0, rate |-> 0]}, rated \in BOOLEAN :
         logs' = [logs EXCEPT ![h] = (@ \ {old}) \cup
                    {[mod |-> writes', rate |-> IF rated THEN writes' ELSE old.rate]}]
    /\ UNCHANGED <<toml, agentVars, queue, srv, faults>>

LogDeleted(h) ==
    /\ Suffer("logs")
    /\ \E f \in logs[h] : logs' = [logs EXCEPT ![h] = @ \ {f}]
    /\ UNCHANGED <<toml, writes, agentVars, queue, srv>>

TomlEdited(h) ==
    /\ Suffer("toml")
    /\ \E t \in {"none", "other"} : toml' = [toml EXCEPT ![h] = t]
    /\ UNCHANGED <<logs, writes, agentVars, queue, srv>>

\* The next config.Save of a running agent writes its own home back.
HomeEdited(h) ==
    /\ Suffer("home") /\ disk' = h
    /\ UNCHANGED <<diskVars, mem, found, baseline, accused, queue, srv>>

-----------------------------------------------------------------------------
(* Discovery *)

\* platformCodexHomeCandidates; a home may come up more than once.
Candidates == EnvHomes \o UserHomes \o ProfileHomes

\* inspectCodexHome: the newest log (sessionLogSummary), or 0 for a home with
\* nothing but a config.toml.
Inspection(h) ==
    IF logs[h] # {} THEN Max({f.mod : f \in logs[h]})
    ELSE IF toml[h] # "none" THEN 0 ELSE Invalid

\* Mutant: the newest logs win over the configured home.
ResolveNewest(configured, seen) ==
    LET order == <<configured>> \o Candidates
        valid == {k \in DOMAIN order : seen[order[k]] >= 0}
        best  == Max({seen[order[k]] : k \in valid})
    IN  IF valid = {} THEN configured
        ELSE order[Min({k \in valid : seen[order[k]] = best})]

\* resolveCodexHome: a configured home with logs stays; otherwise the newest
\* logs win, then a mere config.toml, and the earlier candidate among equals.
Resolve(configured, seen) ==
    LET order == <<configured>> \o Candidates
        valid == {k \in DOMAIN order : seen[order[k]] >= 0}
        best  == Max({seen[order[k]] : k \in valid})
    IN  IF valid = {} \/ seen[configured] > 0 THEN configured
        ELSE order[Min({k \in valid : seen[order[k]] = best})]

\* Mutant: the file is left as it is.
RoutedNowhere(h) == toml

\* ConfigureTelemetry: the [otel] section is replaced.
Routed(h) == [toml EXCEPT ![h] = "ours"]

\* New(): the configuration is read once, when the process starts.
Start ==
    /\ mem.pc = "down"
    /\ mem' = [Down EXCEPT !.pc = "idle", !.home = disk]
    /\ UNCHANGED <<diskVars, disk, found, baseline, accused, queue, srv, faults>>

Crash ==
    /\ mem.pc # "down" /\ Suffer("crash")
    /\ mem' = Down /\ found' = NoneFound
    /\ UNCHANGED <<diskVars, disk, baseline, accused, queue, srv>>

\* Mutant: the cache never expires.
BeginRefreshOnce ==
    /\ mem.pc = "idle" /\ ~mem.checked
    /\ mem' = [mem EXCEPT !.pc = "walk", !.checked = TRUE]
    /\ UNCHANGED <<diskVars, disk, found, baseline, accused, queue, srv, faults>>

\* refreshCodexHome, when its cache has expired.
BeginRefresh ==
    /\ mem.pc = "idle"
    /\ mem' = [mem EXCEPT !.pc = "walk", !.checked = TRUE]
    /\ UNCHANGED <<diskVars, disk, found, baseline, accused, queue, srv, faults>>

\* Mutant: the configured home is not among the candidates.
UncheckedWithoutConfigured ==
    LET order == <<mem.home>> \o Candidates
    IN  {k \in DOMAIN order : found[order[k]] = Unseen /\ order[k] # mem.home}

\* The candidates that are left: the configured home first, each one once.
Unchecked ==
    LET order == <<mem.home>> \o Candidates
    IN  {k \in DOMAIN order : found[order[k]] = Unseen}

Inspect ==
    /\ mem.pc = "walk" /\ Unchecked # {}
    /\ LET h == (<<mem.home>> \o Candidates)[Min(Unchecked)]
       IN  \/ found' = [found EXCEPT ![h] = Inspection(h)] /\ UNCHANGED faults
           \/ /\ Suffer("logs")
              /\ \E r \in {Invalid, IF toml[h] # "none" THEN 0 ELSE Invalid} :
                   found' = [found EXCEPT ![h] = r]
    /\ UNCHANGED <<diskVars, disk, mem, baseline, accused, queue, srv>>

Resolved == mem.pc = "walk" /\ Unchecked = {}

Stay ==
    /\ Resolved /\ Resolve(mem.home, found) = mem.home
    /\ mem' = [mem EXCEPT !.pc = "idle"] /\ found' = NoneFound
    /\ UNCHANGED <<diskVars, disk, baseline, accused, queue, srv, faults>>

\* Mutants: homeAuto is not set; the quota cache is kept.
SwitchedNotAuto(h) == [mem EXCEPT !.pc = "save", !.home = h, !.quota = NoQuota]
SwitchedKeepsQuota(h) == [mem EXCEPT !.pc = "save", !.home = h, !.auto = TRUE]

Switched(h) == [mem EXCEPT !.pc = "save", !.home = h, !.auto = TRUE, !.quota = NoQuota]

\* The telemetry of the new home is configured, if it can be, and the agent
\* moves there in either case.
Switch ==
    LET h == Resolve(mem.home, found)
    IN  /\ Resolved /\ h # mem.home
        /\ \/ toml' = Routed(h) /\ UNCHANGED faults
           \/ Suffer("toml") /\ UNCHANGED toml
        /\ mem' = Switched(h) /\ found' = NoneFound
        /\ UNCHANGED <<logs, writes, disk, baseline, accused, queue, srv>>

\* config.Save, of a switch or of the enqueue after a scan; when it fails the
\* caller gives up, and the next one goes on.
SaveHome ==
    /\ mem.pc = "save"
    /\ \/ disk' = mem.home /\ UNCHANGED faults
       \/ Suffer("save") /\ UNCHANGED disk
    /\ mem' = [mem EXCEPT !.pc = "idle"]
    /\ UNCHANGED <<diskVars, found, baseline, accused, queue, srv>>

\* `codex-guard configure-telemetry`, which the installers run while the
\* service is stopped; its config.Save may fail.
ConfigureTool ==
    /\ mem.pc = "down" /\ Suffer("other")
    /\ LET h == Resolve(disk, [g \in Home |-> Inspection(g)])
       IN  toml' = Routed(h) /\ disk' \in {disk, h}
    /\ UNCHANGED <<logs, writes, mem, found, baseline, accused, queue, srv>>

-----------------------------------------------------------------------------
(* What uses the home *)

\* Mutant: an error of TelemetryStatus ends the call.
HomeKnownAndConfigured == mem.pc = "idle" /\ mem.checked /\ toml[mem.home] # "none"

\* refreshCodexHome has returned.
HomeKnown == mem.pc = "idle" /\ mem.checked

\* Integrity(): the checkpoints of another home are all missing in this one.
\* integrity.json is replaced at the end of the scan; enqueue saves
\* config.json only afterwards.
Scan ==
    /\ HomeKnown
    /\ baseline' = IF logs[mem.home] # {} THEN mem.home ELSE NoHome
    /\ accused' = (accused \/ baseline \notin {NoHome, mem.home})
    /\ mem' = [mem EXCEPT !.pc = "save"]
    /\ UNCHANGED <<diskVars, disk, found, queue, srv, faults>>

\* quotaFiles: the newest logs.
QuotaFiles(h) ==
    {f \in logs[h] : Cardinality({g \in logs[h] : g.mod > f.mod}) < QuotaFileLimit}

\* LatestQuota: the newest rate limits in them (quotaFromFile).
LatestQuota(h) ==
    LET at == Max({f.rate : f \in QuotaFiles(h)} \cup {0})
    IN  IF at = 0 THEN NoQuota ELSE [home |-> h, at |-> at]

\* cachedQuota: the cached one, or a new one if one can be read.
Quotas == {mem.quota} \cup ({LatestQuota(mem.home)} \ {NoQuota})

\* The fingerprint is that of the settings, whatever home they are in.
TelemetryStatus(h) ==
    [fp |-> IF toml[h] = "none" THEN "missing" ELSE toml[h], ok |-> toml[h] = "ours"]

\* The enqueue of a heartbeat fails in config.Save.
HeartbeatUnsaved ==
    /\ HomeKnown /\ Suffer("save")
    /\ \E q \in Quotas : mem' = [mem EXCEPT !.quota = q]
    /\ UNCHANGED <<diskVars, disk, found, baseline, accused, queue, srv>>

\* Heartbeat; its enqueue saves the configuration.
Heartbeat ==
    /\ HomeKnown /\ Len(queue) < MaxQueue
    /\ \E q \in Quotas :
         /\ mem' = [mem EXCEPT !.quota = q]
         /\ queue' = Append(queue, [home |-> mem.home, auto |-> mem.auto, quota |-> q,
                       config |-> TelemetryStatus(mem.home), run |-> faults["crash"]])
    /\ disk' = mem.home
    /\ UNCHANGED <<diskVars, found, baseline, accused, srv, faults>>

\* The events of a heartbeat about its home and its telemetry.
Events(p) ==
    {e \in {"CODEX_HOME_CHANGED", "TELEMETRY_CONFIG_CHANGED"} :
       \/ e = "CODEX_HOME_CHANGED" /\ srv.home \notin {NoHome, p.home} /\ ~p.auto
       \/ e = "TELEMETRY_CONFIG_CHANGED" /\ (srv.fp \notin {"", p.config.fp} \/ ~p.config.ok)}

\* heartbeat() on the server; a heartbeat without a quota keeps the old row.
Store ==
    /\ queue # << >> /\ queue' = Tail(queue)
    /\ LET p == Head(queue)
       IN  srv' = [home |-> p.home, fp |-> p.config.fp, run |-> p.run, raised |-> Events(p),
                   quota |-> IF p.quota # NoQuota THEN p.quota ELSE srv.quota]
    /\ UNCHANGED <<diskVars, agentVars, faults>>

Lapse ==
    /\ queue # << >> /\ Suffer("other") /\ queue' = Tail(queue)
    /\ UNCHANGED <<diskVars, agentVars, srv>>

\* The database is reset and the agent re-enrols: a new row, a new token in
\* the config.toml of its home, an empty queue, and a saved configuration.
ReEnroll ==
    /\ mem.pc = "idle" /\ Suffer("other")
    /\ srv' = NewRow /\ queue' = << >> /\ disk' = mem.home
    /\ toml' = [h \in Home |-> IF h = mem.home THEN "ours"
                               ELSE IF toml[h] = "ours" THEN "other" ELSE toml[h]]
    /\ UNCHANGED <<logs, writes, mem, found, baseline, accused>>

Refresh == BeginRefresh \/ Inspect \/ Stay \/ Switch \/ SaveHome

Next ==
    \/ \E h \in Home : CodexWrites(h) \/ LogDeleted(h) \/ TomlEdited(h) \/ HomeEdited(h)
    \/ Start \/ Crash \/ Refresh \/ ConfigureTool
    \/ Scan \/ Heartbeat \/ HeartbeatUnsaved \/ Store \/ Lapse \/ ReEnroll

(***************************************************************************)
(* The service manager restarts the agent, its loop goes on, and the queue *)
(* is flushed.  Each turn of the loop refreshes before it scans or sends,  *)
(* once the cache has expired, so that neither keeps a refresh out for     *)
(* good; nor does a refresh keep the heartbeats out, because the call of   *)
(* Heartbeat that refreshes goes on to send one.                           *)
(***************************************************************************)
Fairness ==
    /\ WF_vars(Start) /\ WF_vars(Refresh) /\ SF_vars(BeginRefresh)
    /\ SF_vars(Heartbeat) /\ WF_vars(Store)

Spec == Init /\ [][Next]_vars /\ Fairness

-----------------------------------------------------------------------------
(* Properties *)

Time == 0 .. MaxWrites
Quota == [home : Home, at : Time \ {0}] \cup {NoQuota}
Fingerprint == {"missing", "ours", "other"}
Process == [pc : {"down", "idle", "walk", "save"}, home : Home \cup {NoHome},
            auto : BOOLEAN, checked : BOOLEAN, quota : Quota]
Message == [home : Home, auto : BOOLEAN, quota : Quota,
            config : [fp : Fingerprint, ok : BOOLEAN], run : Nat]
Row == [home : Home \cup {NoHome}, fp : Fingerprint \cup {""}, run : Nat \cup {-1}, quota : Quota,
        raised : SUBSET {"CODEX_HOME_CHANGED", "TELEMETRY_CONFIG_CHANGED"}]

(***************************************************************************)
(* Type invariant: the agent is at a home exactly while it runs, and holds *)
(* inspections only during a refresh, of the configured home first.        *)
(***************************************************************************)
TypeOK ==
    /\ logs \in [Home -> SUBSET [mod : Time \ {0}, rate : Time]] /\ writes \in Time
    /\ toml \in [Home -> {"none", "ours", "other"}] /\ disk \in Home
    /\ mem \in Process
    /\ IF mem.pc = "down" THEN mem = Down ELSE mem.home \in Home
    /\ found \in [Home -> {Unseen, Invalid} \cup Time]
    /\ found # NoneFound => mem.pc = "walk" /\ found[mem.home] # Unseen
    /\ queue \in Seq(Message) /\ Len(queue) <= MaxQueue /\ srv \in Row
    /\ baseline \in Home \cup {NoHome} /\ accused \in BOOLEAN
    /\ faults \in [Fault -> Nat]

(***************************************************************************)
(* A switch is saved twice: in config.json by refreshCodexHome, and, after *)
(* the next scan, in integrity.json.  No scan looks for the logs it knows  *)
(* in another home, and finds them all deleted, unless a log is deleted, a *)
(* walk fails, somebody edits config.json, or the agent could not write    *)
(* config.json and then ended: neither a crash in any place nor a failed   *)
(* save of an agent that lives on is enough, nor are re-enrolments and     *)
(* runs of configure-telemetry.                                            *)
(***************************************************************************)
KnownLogsStayInView ==
    accused => \/ Happened({"logs", "home"})
               \/ Happened({"save"}) /\ Happened({"crash"})

(***************************************************************************)
(* codexhome.go:155-156, "A configured home that already contains logs     *)
(* stays pinned.  This prevents a shared computer from silently switching  *)
(* between two real Codex users."  The home of an agent whose config.Save  *)
(* failed (client.go:86) is configured in memory only: the scan records    *)
(* its logs, the agent ends before the save that follows, and the next     *)
(* process is pinned to the home before, if it has logs by then.           *)
(***************************************************************************)
HomeStaysPinned == accused => Happened({"logs", "home"})

(***************************************************************************)
(* client.go:81 sets homeAuto for the rest of the process.  A change of    *)
(* home is an alarm only in the first heartbeat stored from a process: no  *)
(* discovery of a running agent is ever mistaken for tampering, whatever   *)
(* is lost, and a home edited by hand is looked at after a restart.        *)
(***************************************************************************)
HomeAlarmsFollowRestarts ==
    [][srv' # srv /\ "CODEX_HOME_CHANGED" \in srv'.raised => srv'.run # srv.run]_vars

(***************************************************************************)
(* The quota cache of quota.go would outlive the home it was read in, if   *)
(* the switch did not clear it: the quota of a heartbeat was read in the   *)
(* home that the heartbeat names, never in the one before a switch.        *)
(***************************************************************************)
QuotaOfReportedHome ==
    \A i \in DOMAIN queue : queue[i].quota.home \in {queue[i].home, NoHome}

(***************************************************************************)
(* The agent's own work on config.toml (switches, re-enrolment with a new  *)
(* token, configure-telemetry, crashes in between) never raises            *)
(* TELEMETRY_CONFIG_CHANGED: the event means an edit by hand, or a home    *)
(* the agent may not write to.                                             *)
(***************************************************************************)
TelemetryAlarmIsReal ==
    "TELEMETRY_CONFIG_CHANGED" \in srv.raised => Happened({"toml", "home"})

(***************************************************************************)
(* README.md:85, "if the stored location has no session logs, it safely    *)
(* switches to the candidate that has real Codex JSONL data": when in the  *)
(* end one home alone has logs, the server is told of that home for good.  *)
(***************************************************************************)
UsersHomeIsReported ==
    \A h \in Home : <>[](logs[h] # {} /\ \A g \in Home \ {h} : logs[g] = {})
                       => <>[](srv.home = h)

(***************************************************************************)
(* A home whose telemetry stays routed elsewhere is reported with every    *)
(* heartbeat, not only once, so that a lost heartbeat hides nothing.       *)
(***************************************************************************)
UnroutedIsReported ==
    \A h \in Home : <>[](mem.home = h /\ toml[h] # "ours")
                       => <>[]("TELEMETRY_CONFIG_CHANGED" \in srv.raised)

-----------------------------------------------------------------------------
(* The inductive invariant, in parts *)

\* The quota cache is of the home the process is at.
CacheIsOfHome == mem.quota.home \in {mem.home, NoHome}

\* Unless somebody edits by hand, the homes that the process and config.json
\* are at report to us, and nothing else has been said of them.
TelemetryIsOurs ==
    ~Happened({"toml", "home"}) =>
        /\ toml[disk] = "ours" /\ (mem.pc # "down" => toml[mem.home] = "ours")
        /\ \A i \in DOMAIN queue : queue[i].config = [fp |-> "ours", ok |-> TRUE]
        /\ srv.fp \in {"", "ours"}

\* While the agent writes config.json, the file names the process's home
\* whenever the process is not about to save it.
SavedIsCurrent ==
    ~Happened({"home", "save"}) /\ mem.pc \in {"idle", "walk"} => disk = mem.home

\* The home whose logs integrity.json holds still has logs; a running process
\* stays there, because no inspection misses them, and so does config.json
\* unless a save has failed, which only matters to a later process.
BaselineHolds ==
    /\ baseline # NoHome /\ mem.pc = "down" => Happened({"crash"})
    /\ baseline # NoHome /\ ~Happened({"logs", "home"})
          /\ ~(Happened({"save"}) /\ Happened({"crash"})) =>
        /\ logs[baseline] # {} /\ (mem.pc # "down" => mem.home = baseline)
        /\ ~Happened({"save"}) => disk = baseline
        /\ found[baseline] # Unseen => found[baseline] > 0

\* Of a row or heartbeat p and a later heartbeat q of the same process.
Agrees(p, q) == p.run = q.run /\ ~q.auto => p.home = q.home

\* The next heartbeat of a running process, as far as its home goes.
Upcoming == [home |-> mem.home, auto |-> mem.auto, run |-> faults["crash"]]

Precedes(p) ==
    IF mem.pc = "down" THEN p.run < faults["crash"]
    ELSE p.run <= faults["crash"] /\ Agrees(p, Upcoming)

\* A process that has not switched has been at one home all the time.
OneHomePerRun ==
    /\ Precedes(srv)
    /\ \A i \in DOMAIN queue :
         /\ Agrees(srv, queue[i]) /\ Precedes(queue[i])
         /\ \A j \in 1 .. i - 1 : Agrees(queue[j], queue[i])

\* The inductive invariant behind the four safety properties and
\* HomeAlarmsFollowRestarts.
IInv == /\ TypeOK /\ CacheIsOfHome /\ QuotaOfReportedHome
        /\ TelemetryIsOurs /\ TelemetryAlarmIsReal
        /\ SavedIsCurrent /\ BaselineHolds /\ KnownLogsStayInView /\ OneHomePerRun
=============================================================================

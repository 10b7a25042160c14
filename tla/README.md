# Verification of Codex Classroom Monitor

TLA+ models of the monitor: an agent (`agent/codex-guard`, Go) on every
student machine that reports heartbeats, token usage and log integrity, and a
server (`server/app`, FastAPI and SQLAlchemy) that verifies, stores and
audits what it is sent. The models are translated from the code; where the
code disagrees with a comment or a document, a run shows the disagreement
or the README says how to reproduce it (see *Findings*).

Paths below are relative to the repository.

## 1. Inventory

| Component | State | Operations | Interacts with |
|---|---|---|---|
| Signed event channel, agent side (`internal/agent/client.go`, `internal/queue`, `internal/config`) | `config.json` (device id, next sequence, keys), `queue.json`, the same configuration in memory | `enqueue`, `Flush`, `Push`/`Peek`/`Pop`/`Clear`, `Enroll`, `reEnrollIfCurrent` | signed ingest, over HTTP with a 20 s timeout |
| Signed ingest (`server/app/main.py`: `verified`, `enroll`, endpoints) | `devices.last_sequence`, `processed_events` (receipts), `security_events` | `/register`, `/heartbeat`, `/usage`, `/integrity`, `/events`, receipt purge | every endpoint behind it, in the same transaction; other sessions of the same device |
| Service, watchdog and commands (`service_other.go`, `service_windows.go`, `run.go`, `cmd/codex-guard`) | the two files above, each process with its own copy | `Run`, `Execute`, `Watchdog`, `once`, `uninstall-notice`, `configure-telemetry` | the service manager, each other through the files |
| Log integrity scan (`integrity.go`: `ScanIntegrity`) | `integrity.json`: a checkpoint per log | scan | Codex, which writes and archives logs meanwhile |
| Integrity chain (`integrity.go`, `main.py`: `integrity`) | state id, scan sequence, last hash on the device; snapshots on the server | scan, ingest, snapshot purge | signed channel |
| Missing-heartbeat detection (`services.py`: `device_state`, `reconcile_unreachable`) | `devices.last_seen`, `AGENT_UNREACHABLE` events | heartbeat; reconciliation in the monitor task, the dashboard and the cron job | concurrent database sessions |
| Usage (`otel.go`, `usage.go`, `main.py`: `usage`, `services.py`: `maybe_usage_mismatch`) | `otel-usage.json`, session logs, `usage_reports` | OTLP ingest, two kinds of snapshots, store, compare | Codex exporter, signed channel |
| Codex home discovery (`codexhome.go`, `refreshCodexHome`) | home and source in memory and in `config.json`, cache time, auto flag | `ResolveCodexHome`, switch and save | Codex, which writes to any home; scan, usage and heartbeat use the home |
| Telemetry configuration (`detect.go`) | `config.toml` of a home | `ConfigureTelemetry`, `TelemetryStatus` | discovery, re-enrollment, heartbeat |
| Quota (`quota.go`) | cached snapshot; one row per device on the server | `LatestQuota`, `cachedQuota` | heartbeat |
| Heartbeat policy (`main.py`: `heartbeat`) | home, fingerprint, quota row, hashes, history sampling | checks on each heartbeat | `add_security_event` |
| Posture, protocol encoding | none | probes, encoding | watchdog; payloads |
| Request limits, pages, migration, setup, installers | rate windows; otherwise none | | |

What is hard here, and what makes the components right:

* **Channel**: crashes between the two files, lost answers, late requests,
  expiry, receipt purge, a reset database. Right if a retry is never taken for
  a replay, storage is in order and at most once, no report is lost without a
  reason, and the queue drains.
* **Ingest**: a request outlives its client and meets its own retry in another
  session. Right if a report is stored once and in order, and an overlapping
  copy is a duplicate, not a replay.
* **Several processes**: each keeps the sequence in memory. Right if no
  sequence is signed twice and no queued report disappears.
* **Scan**: logs grow and move while it runs. Right if an honest program is
  never accused, and a clean report really accounts for everything.
* **Chain**: reports get lost, snapshots are purged. Right if every gap leaves
  a trace, and only gaps do.
* **Detection**: several sessions race to insert the same event. Right if an
  outage is one event, never on stale data, and always reported.
* **Usage**: exports are repeated, absolute snapshots overwrite each other,
  two commits per request. Right if each response counts once and two sources
  that disagree are flagged.
* **Home**: homes are inspected one after the other while Codex writes, and the
  agent may fail or end between switch, two saves and report. Right if known
  logs stay in view, the agent's own moves raise no alarm, and the home really
  in use is reported in the end.

`PROJECT.json` lists every component and every hazard at its line.

## 2. Modules

| Module | Models |
|---|---|
| `EventLog` | what the channel promises: hold, store in order and once, release for a reason |
| `SignedDelivery` | one agent, its files, the network, `verified()`, registration, purge, reset; implements `EventLog` |
| `IngestTransactions` | the signed endpoints as concurrent database sessions; implements `EventLog` |
| `AgentProcesses` | service, watchdog and commands on the same files, on three platforms |
| `CodexHome` | discovery, telemetry routing, quota, and the server's checks of them |
| `IntegrityScan` | one scan after another beside Codex and, optionally, somebody who edits logs |
| `IntegrityChain` | the chain of reports on both sides |
| `Reachability` | reconcilers as database sessions, heartbeats, monitor task |
| `UsageReports` | collector, snapshots, the two commits of `usage()` |
| `MC*` | for TLC: symmetry, fairness, liveness properties |
| `*_proofs` | the theorems about the module of that name (section 5) |

Definitions that begin with `\* Mutant:` are plausible bugs, used to
show that each property can fail; no specification refers to them.

### SignedDelivery

`disk` and `queue` are the two files, `mem` the configuration in memory, `pc`
the place in `enqueue` → `Push` → `Flush` or in re-enrollment, `item` the
envelope in hand. A file is replaced in one step (`WriteFile` to a temporary
file and rename), and every place where the code writes, sends or can return
an error is a step of its own, so that `Crash` can fall anywhere between.

* `Enqueue` advances the sequence and saves the configuration; `Push` then
  drops expired items and appends. `EnqueueSaveFails` and `PushFails` are the
  error returns: the sequence is spent all the same.
* `Send`, `Exchange`, `Pop` are a round of `Flush`. `AnswerLost`,
  `RequestFails`, `RequestTimesOut` are the three ways not to get an answer;
  after a timeout the request is in `late` and may be handled up to
  `RequestLife` later (`LateArrival`).
* `Verdict` is `verified()` in the order of the code: unknown device,
  signature, receipt, sequence, and then the endpoint's own validation.
  `Serve` commits what the code commits. It is one step because `verified()`
  locks the device row until the transaction ends.
* `Register` … `SaveReEnrolled` are the steps of `reEnrollIfCurrent`.
  A device id can be handed out again if no agent ever saved it: the set of
  ids is finite in the model, the server's are UUIDs.

Payloads are one of three kinds: accepted, refused by the endpoint's schema
(422, `WellFormed`), or encoded differently by the two sides so that the
signature fails (`Verifies`).
The INVALID_SIGNATURE event is not represented. Agent and server share a
clock; `RetentionAssumption` (receipts outlive queue, flush and stray
requests: 35 days against 30) is where a difference between clocks would show.

### EventLog and the two refinements

`EventLog` has four variables: the events the agent holds, those that lapsed,
those stored, and the last sequence of each device. `SignedDelivery` maps the
queue, the expired and the applied events and `last_sequence` to them
(`ImplementsEventLog`); a crash, a lost answer, a duplicate or a purge is a
stutter. `IngestTransactions` maps the same names for the sessions
(`IngestIsEventLog`, an action property because it has a condition), so that
taking a request for one step in `SignedDelivery` is justified by the session
model and not by assumption.

### IngestTransactions

One device. The agent sends one request at a time and may stop waiting for it
(`GiveUp`), after which the session goes on and the retry is another session.
A session is `SelectDevice` (locks the row), `Verify` (receipt, then sequence
against the row as read), `InsertReceipt` (waits for a writer, and takes a
committed receipt for a duplicate), then `Commit` or `Reject`; `SessionFails`
anywhere. `locks` is chosen at the start: PostgreSQL and CockroachDB at READ
COMMITTED, or SQLite, the default, where FOR UPDATE does nothing and only the
insert waits.

### AgentProcesses

The same channel for several processes, with `load` and `save` of the queue as
two steps, since the mutex of `Queue` is per process. A service that is asked
to stop finishes its cycle first (`StopRequested`, `ServiceEnds`), and is not
active for `systemctl is-active` and `sc query` in the meantime;
`launchctl print` answers for the job, so on macOS a service that does not run
may look as if it did. `kickstart -k` replaces a running service. The commands
run alone: the installers stop service and timer first. `Racing` says whether a
watchdog may run beside a service that starts or stops.

### CodexHome

Logs are reduced to the times of their last write and of their newest rate
limits, `config.toml` to missing, routed to this agent, or otherwise. A refresh
is `BeginRefresh`, one `Inspect` per home, then `Stay`, or `Switch` and
`SaveHome`; a heartbeat or a scan uses the home as it is then. The home is on
disk twice. `Scan` replaces `integrity.json` at the end of the scan
(`integrity.go:276`) and leaves the save of `config.json` in its `enqueue`
(`client.go:182`) to another `SaveHome`, so that the process can end, or the
save fail, in between. A heartbeat saves `config.json` and queues in one step,
because nothing else of the home is written with it; `HeartbeatUnsaved` is the
error return. The two five-minute caches are abstracted: once a process has refreshed, any later call
may or may not refresh again, and a quota may or may not be read again.
Heartbeats are in order and may lapse, which is what `EventLog` says of
them. `faults` counts crashes and five groups of failures and interventions;
the properties name the groups under which they do not hold.

### IntegrityScan

A hash is modelled by what is hashed, a file is looked at in one step, and
the two walks of `discoverLogs`, every file and the final save are separate.
`CodexCreate`, `CodexAppend`, `CodexArchive` are what the comments and tests
of the scan say of Codex. The first record of a log names its session, so
that two different logs differ from their first record on; `EmptyStart` says
whether a scan can see a log before that record is written.

### IntegrityChain

`Integrity` is scan, save and enqueue; `IntegrityUnqueued` stops after the
save. A hash is the tuple it is computed from. `Meddle` copies, deletes or
restores `integrity.json`. Posture and finding events are left out: their
keys are separate and no chain check reads them. Re-enrollment, which starts
a new device on the server, is not composed in.

### Reachability

A reconciler reads the clock, the devices, then one device at a time; a new
row is inserted when the session flushes, which is before its next query or
its commit, waits for another session that holds the same key, and fails if
the key is committed. An exception rolls back and, in the monitor task, ends
the task (`try`/`finally` without `except`).

### UsageReports

A completed response is one token, logged and exported. `IngestOTLP` handles
a batch whose answer may get lost, `OTelUsage` and `Usage` queue absolute
totals per day, `StoreUsage` is `usage()` up to its first commit and
`CompareSources` the rest. `last_otlp_at` is kept from the first commit
because sessions are made with `expire_on_commit=False`. Only the day of a
response and equality of totals matter, so one counter stands for five.
Old identities are pruned by every ingest, and an exporter is taken to give up
a record within the retention (`ExportWindow`).

The identity of a record is its time, trace, span and counts
(`otel.go:148`). `ident` gives a record with a usable `timeUnixNano` an identity
of its own: two responses with the same nanosecond, trace, span and counts are
taken not to exist. A record without one has an identity out of `Alike`, which
other responses may share, and `DayCounted` puts it on the day it arrives
(`otel.go:154`). `got` and `booked` are history: what the collector was sent,
and what it counted on which day.

## 3. Runs

Every run ends within three minutes on two cores. `CHECK_DEADLOCK FALSE` is set
except in `home_reports` and `home_unsaved`: it is our bounds that end a
behaviour, the system itself never stops. In these two there is always
something to do, and deadlock is checked.

| Run | Checks | Shows |
|---|---|---|
| `delivery_safety` | TypeOK, QueueShape, RetryIsNotReplay, FalseAlarmOnlyIfExpired, StoredInOrder, LogInv, NoSilentLoss, ImplementsEventLog | the channel is safe and implements `EventLog` under crashes, loss, late requests, expiry, purge and a reset, in any order |
| `delivery_live` | QueueDrains, RecoversFromReset | queued reports leave the queue, one that is refused for ever blocks the rest only until it expires; a lost device is enrolled again |
| `ingest_sessions` | TypeOK, AcknowledgedIsStoredOnce, RetryIsNotReplay, IngestIsEventLog | overlapping copies of a report, on both kinds of database |
| `watchdog_handover` | TypeOK, SequenceNeverReused, QueuedUntilReceived | sequence and queue are handed over through the files, with stops anywhere, on every platform |
| `scan_logs` | TypeOK, HonestNeverAccused, MoveKeepsId, CleanScanAccountsForAll | no false accusation, ids survive moves; a clean scan has seen every earlier record again |
| `chain_gaps` | TypeOK, GapIsRecorded, NoFalseGap | gaps within the retention are recorded, and only gaps |
| `reach_watched` | TypeOK, OneEventPerOutage, NoFalseOutage, EveryOutageIsReported | concurrent reconcilers, failures, restarts; with the dashboard or the cron job beside the monitor every outage is reported |
| `usage_reports` | CountedOnce, NeverOverstated, TotalsOnlyGrow, UsageArrives, MismatchIsFlagged | repeated exports, with and without a time, across midnight; two snapshots of a source do not overwrite each other in the wrong order; lost snapshots and skipped comparisons are made up for |
| `home_reports` | TypeOK, KnownLogsStayInView, TelemetryAlarmIsReal, QuotaOfReportedHome, HomeAlarmsFollowRestarts, UsersHomeIsReported, UnroutedIsReported | discovery beside Codex, with a crash and a failure at any step |
| `watchdog_race`, `reach_unattended`, `home_unsaved` | one property each, violated | see *Findings* |

Bounds, and why they suffice:

* `delivery_safety`: 3 events (one stored, one in doubt, one behind it), 2
  device ids, one reset, one stray request, time 5 with queue retention 2 and
  receipt retention 4, so items expire and receipts are purged while copies
  are still about. Receipt retention is exactly the sum that
  `RetentionAssumption` asks for.
* `delivery_live`: 2 events, accepted or refused (by the schema or for the
  signature), a reset, and time up to the retention; further heartbeats are the two actions of `MCSignedDelivery` that
  stand for the ones beyond the bound. A report that the server accepts is
  asked to leave whatever the time; behind a refused one only if the
  retention of both falls within the model's time.
* `ingest_sessions`: 4 reports, 2 of which may expire, and 3 sessions at a time:
  a request outlives its client, its retry is answered, and a later report
  arrives before the first one ends.
* `watchdog_handover`: 5 reports and 3 stops: each process reports, is
  stopped in the middle, and reports again.
* `scan_logs`: 2 logs, 2 records, 3 scans and 2 edits or deletions: two
  candidates for a move, and a change between any two steps of a scan. The
  properties about honest programs speak of the behaviours before the
  first edit.
* `chain_gaps`: 4 scans, 3 edits of the file, 2 state ids, retention 1.
* `reach_watched`: 2 devices and 2 reconcilers: enough for a wait, a unique
  violation and a deadlock; 2 heartbeats, one of each device or both of one, so
  that one can commit while a session holds an older reading. Failures and
  restarts share a bound of 2.
* `usage_reports`: 2 responses over 3 days, a retention and an export window of
  one day, and 2 reports under way: an older and a newer snapshot of one source,
  one of each, or one in the queue while another is between its commits.
  `Alike` has one identity, so each record has a time or not, and the two look
  alike if neither has one. One fault: a session log deleted, a report lost, or
  the server stopped. The sources differ for good after a deletion, or when
  the exporter has given up a record.
* `home_reports`: 2 homes, one of them given to the installer and the other
  with a `config.toml` of its own, 2 writes by Codex (two logs in one home, or
  one in each, in either order), one crash and one other fault (together they
  make the trace of `home_unsaved`, which has the same bounds), one heartbeat on
  its way, and a quota limit of one file so that the newest log can be without
  rate limits. Both homes come up as candidates, one of them twice.

Symmetry is used for devices, logs, state ids, contents and requests in runs
without liveness properties only. `delivery_live` fixes instead which device id
comes first (`LiveInit`), and responses are numbered in the order they are
completed.

Those liveness properties that say `[]<>` of a state where nothing is due mean
what `~>` would say: whatever falls due is settled.

Fairness:

* Agent (`MCSignedDelivery!Fairness`): the unit has `Restart=always` and `Run`
  loops for ever, so restart and the local steps happen; the clock goes on.
  Disk, network and server may fail at any time but not always: the steps that
  need them are strongly fair. Failures themselves are never forced.
* Reachability: time and transactions in progress go on. A session that waits
  for a key is served before sessions that ask later, hence strong fairness
  of its flush. A reconciler is begun again and again only if somebody does
  so: the monitor by its loop, as long as it is alive; the dashboard only in
  `WatchedSpec`.
* Usage: `Run` calls `OTelUsage` each round and `Usage` each interval; the
  server handles and finishes requests. Losses are never forced, except that
  a report the server refuses expires (what `QueueDrains` shows of the
  channel).
* Home: the service manager starts the agent, a refresh that has begun goes on,
  and queued heartbeats are stored. `BeginRefresh` and `Heartbeat` are strongly
  fair: every turn of `Run` sends a heartbeat, and the first call of a turn
  refreshes if the cache has expired, so that scans and heartbeats never keep a
  refresh out for good; the `Heartbeat` that refreshes goes on to send one, so
  that refreshes do not keep heartbeats out either.

## 4. Findings

Each is a run that expects a violation; `PROJECT.json` quotes the lines.

1. `watchdog_race`: the watchdog looks once whether the service runs. If it
   comes up while the watchdog reports, both sign with the same sequence. The
   same happens when the service is only about to stop: its manager no longer
   calls it active while `Run` finishes its cycle.
2. `reach_unattended`: an `IntegrityError`, from a dashboard request that
   commits first, ends the monitor task for good.
3. `home_unsaved`: the agent discovers another home and cannot save it
   (`client.go:86`). It goes on with that home in memory, and the next scan puts
   its logs in `integrity.json`. If the process now ends before `config.json`
   is saved, and Codex has meanwhile written a log in the former home, the next
   process stays there, and reports every log of the other home as
   `LOG_DELETED`. One failed save and one crash are enough, and without either
   of them it cannot happen (`KnownLogsStayInView`).

### Observations

The passing runs rest on conditions that the code does not always meet. Each
is a constant or a disjunct; changing it in the run reproduces the trace.

* `HomeWritable = FALSE` in `delivery_live` breaks `RecoversFromReset`. The
  unit that `installer/install.sh:120` writes has `ReadOnlyPaths` for the
  Codex home; re-enrollment has to rewrite `config.toml` there
  (`detect.go:69`) and returns at `client.go:151`, before `Clear` and `Save`,
  every time, leaving another device row behind. README.md:99: "Agent 1.5.0
  also recovers from an explicitly reset server database".
* `EmptyStart = TRUE` in `scan_logs` breaks `HonestNeverAccused` and
  `MoveKeepsId`. The checkpoint of an empty log is a prefix of any file, and
  the search at `integrity.go:217-226` takes the first match, so that an
  archived log can take the empty one's id and is itself reported deleted.
  README.md:163: "A valid move keeps its opaque ID."
* A record whose `timeUnixNano` is missing, zero or not a string is counted on
  the day it arrives (`otel.go:154`). If it is exported after midnight, or
  again because an answer was lost, that day gets a response too many and its
  own day one too few; `CountedOnce` and `NeverOverstated` say so (`MayCount`).
  Two of them with the same trace, span and counts are one to `otel.go:148`, and
  the second is not counted. With `Alike = {}` neither occurs.
* `PayloadDays = 1` in `usage_reports` breaks `UsageArrives`. `OTelUsage`
  (`otel.go:221`) sends every day the store has ever counted, nothing prunes
  `Days`, and `UsagePayload` (`schemas.py:65`) accepts 400 of them.
* `usage_reports` says nothing of false mismatches. A day is compared as soon
  as the classroom date has changed, with whatever snapshot of each source is
  stored (`services.py:146`); just after midnight one can be final and the other
  from before the last response, and the event stays. services.py:129-130:
  "Waiting for a completed calendar day also avoids comparing two in-flight
  daily snapshots."
* The condition of `IngestIsEventLog`: without row locks (SQLite, the default
  `DATABASE_URL`) a report that expires while a session still works on it can
  be committed after a later one and set `last_sequence` back.
* The condition `"logs"` of `KnownLogsStayInView`: a walk that fails, or a log
  that vanishes between the directory entry and its `Info`
  (`codexhome.go:87-90`, `:115`), makes the configured home invalid for that
  refresh. The agent then switches, and the next scan reports every known log as
  `LOG_DELETED`. codexhome.go:155: "A configured home that already contains
  logs stays pinned."
* `HomeAlarmsFollowRestarts` allows `CODEX_HOME_CHANGED` in the first heartbeat
  stored from a process, and the code can raise it there without cause: when
  the process that discovered the home ended after the save and before a
  heartbeat was stored, or when `configure-telemetry` moved the home during an
  upgrade, the next process has `homeAuto` unset (`client.go:81`).
  `server/tests/test_usage_integrity_otlp.py:128` tests the case within one
  process.
* The agent also switches to a home that has no logs but a `config.toml`, when
  the configured one has neither; README.md:85 speaks of a candidate with
  "real Codex JSONL data".
* The read-only Codex home of `install.sh:120` makes every `ConfigureTelemetry`
  of a switch fail, so that each heartbeat after one raises
  `TELEMETRY_CONFIG_CHANGED` (`UnroutedIsReported` is then always in force).
* A heartbeat without a quota leaves the server's row alone (`main.py:307`):
  after a switch it still shows the quota of the former home.
* `launchctl print` (`posture_other.go:53`) succeeds for a loaded job, so on
  macOS the watchdog does not restart a service that is loaded and dead.
* The last disjunct of `GapIsRecorded`: `purge_expired_telemetry`
  (`services.py:90`) deletes the last snapshot of a silent device too, and
  what follows is compared with nothing. docs/architecture.md:9: "The server
  remembers the last accepted chain point".
* `GapIsRecorded` asks for an event, not for one per gap: the key of a reset
  is the state id (`main.py:406`) and `add_security_event`
  (`services.py:50-52`) adds a key once, so a second return to an earlier
  state id adds nothing. README.md:165: such changes "become explicit audit
  events".

## 5. Proofs

Every safety invariant, action property and refinement that a passing run checks
is a theorem as well, for all values of the constants that the ASSUMEs of the
modules allow: any number of devices, requests, logs, homes, sessions and
faults, any bounds. Only liveness is left to TLC.

| Module | Theorem | States |
|---|---|---|
| `SignedDelivery_proofs` | `TypeCorrect`, `Invariance`, `LogInvariance` | `[]TypeOK`, `[]IInv`, `[]LogInv` |
| | `NoRetryIsReplay`, `QueueAlwaysSendable`, `StorageIsInOrder` | `[]RetryIsNotReplay`, `[]QueueShape`, `[]StoredInOrder` |
| | `FalseAlarmsAreExpired`, `NothingIsLostSilently` | `[]FalseAlarmOnlyIfExpired`, `NoSilentLoss` |
| | `ChannelImplementsEventLog` | `ImplementsEventLog` |
| `IngestTransactions_proofs` | `TypeCorrect`, `Invariance` | `[]TypeOK`, `[]IInv` |
| | `DuplicateIsSafe`, `ReplaysAreExpired` | `[]AcknowledgedIsStoredOnce`, `[]RetryIsNotReplay` |
| | `SessionsImplementEventLog` | `IngestIsEventLog` |
| `AgentProcesses_proofs` | `TypeCorrect` | `[]TypeOK` |
| | `Invariance`, `SequencesAreNeverReused`, `ReportsAreNotLost` | if `~Racing`: `[]IInv`, `[]SequenceNeverReused`, `[]QueuedUntilReceived` |
| `CodexHome_proofs` | `TypeCorrect`, `Invariance` | `[]TypeOK`, `[]IInv` |
| | `QuotaIsOfReportedHome`, `TelemetryAlarmsAreReal` | `[]QuotaOfReportedHome`, `[]TelemetryAlarmIsReal` |
| | `KnownLogsStay`, `AlarmsFollowRestarts` | `[]KnownLogsStayInView`, `HomeAlarmsFollowRestarts` |
| `IntegrityScan_proofs` | `TypeCorrect`, `ScanAccounts` | `[]TypeOK`, `[](TypeOK /\ ScanInStep /\ Accounted)` |
| | `CleanScansAccountForAll` | `CleanScanAccountsForAll` |
| | `Invariance`, `HonestIsNeverAccused`, `MovesKeepIds` | if `~EmptyStart`: `[]IInv`, `[]HonestNeverAccused`, `MoveKeepsId` |
| `IntegrityChain_proofs` | `TypeCorrect`, `Invariance` | `[]TypeOK`, `[]IInv` |
| | `GapsAreRecorded`, `NoGapIsFalse` | `[]GapIsRecorded`, `[]NoFalseGap` |
| `Reachability_proofs` | `TypeCorrect`, `Invariance` | `[]TypeOK`, `[]IInv` |
| | `OutagesAreReportedOnce`, `OutagesAreReal` | `[]OneEventPerOutage`, `[]NoFalseOutage` |
| `UsageReports_proofs` | `Invariance` | `[]IInv` |
| | `CountsAreOnce`, `RowsAreNeverOverstated`, `TotalsOnlyRise` | `[]CountedOnce`, `[]NeverOverstated`, `TotalsOnlyGrow` |

### Assumptions

The named ASSUMEs say what kind of value a constant is, except for these:

* `RetentionAssumption` (`SignedDelivery`): receipts outlive queue, flush and
  stray request; 35 days against 30 in the code.
* `UsageAssumption`: the exporter gives a record up within the time the
  collector remembers identities (`ExportWindow <= Retention`).
* `ReachabilityAssumption`: a device stops being online no later than it is
  late.

Two theorems carry a hypothesis of their own because the code does not always
meet it, and section 4 says what happens then. `~Racing`: the service manager
does not start or stop the service while a watchdog is at work (without it,
`watchdog_race`). `~EmptyStart`: no scan sees a log before its first record.
`TypeCorrect` of `AgentProcesses` and `IntegrityScan`, `ScanAccounts` and
`CleanScansAccountForAll` need neither.

### The inductive invariants

No property is inductive by itself. Each module ends with the parts of its
`IInv`; there is a lemma for each action or group of actions, and `Invariance`
puts them together.

**SignedDelivery.** A retry is safe because its receipt exists, the receipt
exists because it is young, it is young because the item in the queue is, and
the item is young because `Push` has just filtered the queue. `IInv` says this
in parts:

* `Identity`, `InHand`: memory, file and the envelope in hand agree on the
  device, and an envelope not yet queued is ahead of everything.
* `LateBehind`, `ServerBehind`: neither a stray request nor the server is
  ahead of the queue. When level with an item, the request is a copy of it and
  the server has stored it and has its receipt, unless the item is older
  than receipts get (`ReceiptOrOld`).
* `FlushWindow`: during the first exchange of a flush all items are younger
  than that (`now <= pushedAt + FlushTime`); later items of the same flush
  have never been sent.
* `FreshDevices`: a new device has no history and the old one is unknown.
* `History`: an id is one event, and a receipt stands for a stored one, so a
  "duplicate" answer may pop.

`NotReplayed` is the step where the ages meet. `LogInv` adds what becomes of a
request that nobody waits for any more (`StrayAnswerable`): its event is still
queued, or expired, or has a receipt young enough to outlive the request, or
its device is gone. With that every action is a step of `EventLog` or a
stutter: an accepted request, late or not, is `Store`, a push is `Submit`, a
`Pop` or `Clear` is `Release`.

**IngestTransactions.** What a session has read may be stale when it writes.
`InHand` says what each of its statements has found out and still knows, `Ahead`
that no row any session has read is at or past an item that is not stored,
`OneWriter` that one session writes at a time, by the row lock or else by the
unique receipt. `Committed` gives order of storage under the condition of
`IngestIsEventLog`.

**AgentProcesses.** `OneAtATime`: one process at a time is between two steps on
the files. `InStep`: whoever will use a sequence has the one in `config.json`.
`CopyIsCurrent`: a loaded queue is still the one on disk when it is written
back, and a popped item is its head and has been received.

**CodexHome.** `CacheIsOfHome`, `TelemetryIsOurs` and `BaselineHolds` tie quota
cache, `config.toml` and `integrity.json` to the home of the process and of
`config.json`, each under the faults its property names; the baseline stays
because no inspection of a home with logs comes out without any, and
`resolveCodexHome` keeps such a home. `SavedIsCurrent` is why a crash alone does
no harm: until a save fails, whoever scans has its home in `config.json`, so
that the process after a crash starts where `integrity.json` is. After a failed
save the process holds the baseline's home in memory, and only a crash can take
it away. `OneHomePerRun` compares the server's
row, the queued heartbeats and the next one, process by process. `MinIsFirst`
and `MaxIsNewest` give the existence of the minimum and the maximum, from the
well-foundedness of `<`.

**IntegrityScan.** `Accounted` holds in any case: while a scan has reported
nothing, each checkpoint it has ticked off is a prefix of a file it has looked
at. `Undisturbed` holds until the first edit: one path per log in
`integrity.json` (`OnePath`), every known log is found by one of the two walks
(`NoneMissed`), a log is ticked off exactly when looked at (`UsedWhenSeen`), and
ids and logs correspond over the old and the new state (`OneId`).

**IntegrityChain.** `LastAcceptedKept`: the latest snapshot is the report that
was accepted last, unless purged. `OneChain`: while nobody has touched the file
and nothing was lost, snapshot, queue and `integrity.json` continue one another.

**Reachability.** `AfterClock` is the point of the order in which a reconciler
reads: the clock first, then the devices, so whatever is newer than what it has
read was committed after its clock reading. `LastSeenIsNewest` ties
`last_seen` to the committed heartbeats, `RowIsNew` and the unique key give one
event per outage.

**UsageReports.** `CountsAreExact`: the count of a day is the number of responses
booked on it (`Booked`). None is booked twice, because an identity is pruned only
when the exporter has given up the responses it was booked for
(`PrunedTooOld`), and `BookedRight` says that a response is booked on a day that
its record allows, and skipped only if its like is booked. Of a batch that
looks alike the first is counted: `OneIsFirst` gives its existence, from the
well-foundedness of `<`. `BelowCeiling` bounds rows and queued
totals, `Rising` orders them: the totals of a day rise from the row through the
queue.

### What stays with TLC

* Liveness (`QueueDrains`, `RecoversFromReset`, `UsersHomeIsReported`,
  `UnroutedIsReported`, `EveryOutageIsReported`, `UsageArrives`,
  `MismatchIsFlagged`): fairness and ENABLED are beyond the prover.
* That the fairness of the `MC` modules is what the code justifies is argued in
  section 3, not checked.
* Induction over data and RECURSIVE operators would be out of reach as well; no
  module needs them.

Before it was proved, each `IInv` was checked by TLC with the constants of the
module's run, and that of `CodexHome` also with two faults beside the crash and
with two heartbeats on their way.
`delivery_safety` checks `LogInv` on every run, which contains `IInv`.

## 6. Not modelled

* Encoding: canonical JSON in Go and Python; only its failure. Which strings and
  numbers two encoders treat differently is a question about data, not states.
* Torn writes: no `fsync` precedes a rename. What a power failure leaves is up
  to the file system; the models replace files atomically.
* The rate limit: a window of 300 requests a minute in one process; a 429 is one
  of the failures a request can have in `SignedDelivery`.
* In `heartbeat()`: artifact hashes (a lookup in a list) and history sampling.
* In `integrity()`: posture and finding events, and a new device after
  re-enrollment.
* The text editing of `config.toml`, the `status` command, posture probes other
  than `ServiceRunning`, pages, migration, schema setup, installers: read-only,
  run once, or data.

## 7. Plan

Done: the components of section 2, the abstract channel and its two
refinements, and the proofs of section 5: no safety property is only
model-checked.

What could follow:

1. `IntegrityChain` with re-enrollment, which starts a new device and with it
   an empty chain on the server, and then `GapIsRecorded` per device.
2. The types of `UsageReports` in its runs, beside the theorem.
3. Lemmas for the liveness properties that need no ENABLED: that a step of
   `Pop`, `StoreUsage` or a reconciler, once taken, leads strictly closer to
   the goal.

There are nine runs that pass and three that do not. A new question about a
modelled component goes into the run that already reaches it.

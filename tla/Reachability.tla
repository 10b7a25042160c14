----------------------------- MODULE Reachability -----------------------------
(***************************************************************************)
(* Missing-heartbeat detection (server/app/services.py, device_state and   *)
(* reconcile_unreachable; server/app/main.py, monitor_unreachable, the     *)
(* dashboard, cron_reconcile and heartbeat).                               *)
(*                                                                         *)
(* Every reconciler runs the same transaction: read the clock, read all    *)
(* devices, and for each unreachable one look for the event of this        *)
(* incident and insert it if there is none.  The insert reaches the        *)
(* database when the session flushes, before the next query or the commit, *)
(* and there it meets the unique constraint (device_id, event_key): it     *)
(* waits for another transaction that has inserted the same key and fails  *)
(* when that key is committed.  A failure rolls the whole transaction back.*)
(* For a request that is a 500; the monitor task has no handler, so it     *)
(* ends and only a restart of the server brings it back.                   *)
(***************************************************************************)
EXTENDS Integers, FiniteSets

CONSTANTS
    Device,
    Reconciler,   \* the transactions that call reconcile_unreachable
    Monitor,      \* the background task among them
    Never,        \* last_seen of a device that has sent no heartbeat
    Online, Late, \* settings.online_seconds, late_seconds
    MaxTime, MaxBeats, MaxFaults   \* bounds of the model

ASSUME ReachabilityAssumption ==
    /\ Monitor \in Reconciler /\ Never \notin Nat
    /\ Online \in Nat /\ Late \in Nat /\ Online <= Late
    /\ MaxTime \in Nat /\ MaxBeats \in Nat /\ MaxFaults \in Nat

VARIABLES
    now,
    lastSeen,   \* devices.last_seen, as committed
    observed,   \* observed_now of a heartbeat request that has not committed
    events,     \* AGENT_UNREACHABLE rows: device, incident, clock and author
    task,       \* the transaction of each reconciler
    monitoring, \* is the monitor task alive?
    commits,    \* history: committed heartbeats [dev, seen, at]
    faults      \* database failures and server restarts so far

vars == <<now, lastSeen, observed, events, task, monitoring, commits, faults>>

Idle == [pc |-> "idle", clock |-> 0, view |-> [d \in Device |-> Never],
         todo |-> {}, row |-> {}, held |-> {}]

Init ==
    /\ now = 0
    /\ lastSeen = [d \in Device |-> Never] /\ observed = [d \in Device |-> Never]
    /\ events = {} /\ commits = {}
    /\ task = [r \in Reconciler |-> Idle] /\ monitoring = TRUE
    /\ faults = 0

-----------------------------------------------------------------------------
\* device_state of a last_seen at a clock reading.
DeviceState(seen, clock) ==
    CASE seen = Never           -> "UNKNOWN"
      [] seen # Never /\ clock - seen <= Online -> "ONLINE"
      [] seen # Never /\ Online < clock - seen /\ clock - seen <= Late -> "LATE"
      [] OTHER -> "UNREACHABLE"

\* The rows of one incident: the event_key is unreachable:{last_seen}.
SameKey(rows, row) == {e \in rows : e.dev = row.dev /\ e.incident = row.incident}

-----------------------------------------------------------------------------
(* Heartbeats *)

\* heartbeat(): observed_now is read ...
HeartbeatArrives(d) ==
    /\ observed[d] = Never
    /\ Cardinality(commits) + Cardinality({e \in Device : observed[e] # Never}) < MaxBeats
    /\ observed' = [observed EXCEPT ![d] = now]
    /\ UNCHANGED <<now, lastSeen, events, task, monitoring, commits, faults>>

\* ... and the request commits some time later.
HeartbeatCommits(d) ==
    /\ observed[d] # Never
    /\ lastSeen' = [lastSeen EXCEPT ![d] = observed[d]]
    /\ commits' = commits \cup {[dev |-> d, seen |-> observed[d], at |-> now]}
    /\ observed' = [observed EXCEPT ![d] = Never]
    /\ UNCHANGED <<now, events, task, monitoring, faults>>

-----------------------------------------------------------------------------
(* reconcile_unreachable, in the session of a reconciler *)

Running(r) == r = Monitor => monitoring

\* now = datetime.now(timezone.utc)
Clock(r) ==
    /\ Running(r) /\ task[r].pc = "idle"
    /\ task' = [task EXCEPT ![r].pc = "read", ![r].clock = now]
    /\ UNCHANGED <<now, lastSeen, observed, events, monitoring, commits, faults>>

\* db.scalars(select(Device)).all()
ReadDevices(r) ==
    /\ task[r].pc = "read"
    /\ task' = [task EXCEPT ![r].pc = "check", ![r].view = lastSeen, ![r].todo = Device]
    /\ UNCHANGED <<now, lastSeen, observed, events, monitoring, commits, faults>>

\* Mutant: the age is taken at the time of the check.
CheckDeviceLater(r, d) ==
    /\ task[r].pc = "check" /\ d \in task[r].todo /\ task[r].row = {}
    /\ LET t   == task[r]
           row == [dev |-> d, incident |-> t.view[d], at |-> now, by |-> r]
           new == /\ DeviceState(t.view[d], now) = "UNREACHABLE"
                  /\ SameKey(events \cup t.held, row) = {}
       IN  task' = [task EXCEPT ![r].todo = @ \ {d}, ![r].row = IF new THEN {row} ELSE {}]
    /\ UNCHANGED <<now, lastSeen, observed, events, monitoring, commits, faults>>

\* One round of the loop: the query for an existing event sees what is
\* committed and what this session has flushed; a new row waits for a flush.
CheckDevice(r, d) ==
    /\ task[r].pc = "check" /\ d \in task[r].todo /\ task[r].row = {}
    /\ LET t   == task[r]
           row == [dev |-> d, incident |-> t.view[d], at |-> t.clock, by |-> r]
           new == /\ DeviceState(t.view[d], t.clock) = "UNREACHABLE"
                  /\ SameKey(events \cup t.held, row) = {}
       IN  task' = [task EXCEPT ![r].todo = @ \ {d}, ![r].row = IF new THEN {row} ELSE {}]
    /\ UNCHANGED <<now, lastSeen, observed, events, monitoring, commits, faults>>

\* The transactions whose flushed rows hold the key that r wants to insert.
Holders(r) ==
    {q \in Reconciler \ {r} : \E row \in task[r].row : SameKey(task[q].held, row) # {}}

\* Mutant: no unique constraint on committed rows.
ConflictNever(r) == FALSE

Conflict(r) == \E row \in task[r].row : SameKey(events, row) # {}

\* The flush inserts the row: nobody holds its key and it is not committed.
Flush(r) ==
    /\ task[r].row # {} /\ Holders(r) = {} /\ ~Conflict(r)
    /\ task' = [task EXCEPT ![r].row = {}, ![r].held = @ \cup task[r].row]
    /\ UNCHANGED <<now, lastSeen, observed, events, monitoring, commits, faults>>

\* Mutant: the session is closed without a commit.
CommitForgotten(r) ==
    /\ task[r].pc = "check" /\ task[r].todo = {} /\ task[r].row = {}
    /\ task' = [task EXCEPT ![r] = Idle]
    /\ UNCHANGED <<now, lastSeen, observed, events, monitoring, commits, faults>>

Commit(r) ==
    /\ task[r].pc = "check" /\ task[r].todo = {} /\ task[r].row = {}
    /\ events' = events \cup task[r].held
    /\ task' = [task EXCEPT ![r] = Idle]
    /\ UNCHANGED <<now, lastSeen, observed, monitoring, commits, faults>>

\* Mutant: the failed session is left open.
RaiseUnrolled(r) ==
    /\ UNCHANGED task
    /\ monitoring' = (monitoring /\ r # Monitor)
    /\ UNCHANGED <<now, lastSeen, observed, events, commits>>

\* The exception leaves the session, which rolls back; it also ends the
\* monitor task, whose try has a finally and no except.
Raise(r) ==
    /\ task' = [task EXCEPT ![r] = Idle]
    /\ monitoring' = (monitoring /\ r # Monitor)
    /\ UNCHANGED <<now, lastSeen, observed, events, commits>>

\* IntegrityError on the unique constraint.
UniqueViolation(r) == task[r].row # {} /\ Conflict(r) /\ Raise(r) /\ UNCHANGED faults

\* Two sessions each wait for a key the other holds: the database ends one.
DeadlockVictim(r) == (\E q \in Holders(r) : r \in Holders(q)) /\ Raise(r) /\ UNCHANGED faults

\* The connection is lost, the pool is exhausted, the file is locked.
DatabaseFails(r) ==
    /\ task[r].pc # "idle" /\ faults < MaxFaults /\ faults' = faults + 1
    /\ Raise(r)

-----------------------------------------------------------------------------
\* lifespan starts a new monitor; open transactions and requests are gone.
ServerRestarts ==
    /\ faults < MaxFaults /\ faults' = faults + 1
    /\ task' = [r \in Reconciler |-> Idle] /\ monitoring' = TRUE
    /\ observed' = [d \in Device |-> Never]
    /\ UNCHANGED <<now, lastSeen, events, commits>>

Tick ==
    /\ now < MaxTime /\ now' = now + 1
    /\ UNCHANGED <<lastSeen, observed, events, task, monitoring, commits, faults>>

\* A reconciliation that has begun.
Proceed(r) ==
    \/ ReadDevices(r) \/ (\E d \in Device : CheckDevice(r, d))
    \/ Flush(r) \/ Commit(r) \/ UniqueViolation(r) \/ DeadlockVictim(r)

Next ==
    \/ \E d \in Device : HeartbeatArrives(d) \/ HeartbeatCommits(d)
    \/ \E r \in Reconciler : Clock(r) \/ Proceed(r) \/ DatabaseFails(r)
    \/ ServerRestarts \/ Tick

Spec == Init /\ [][Next]_vars

-----------------------------------------------------------------------------
(* Properties *)

Seen == Nat \cup {Never}
Row  == [dev : Device, incident : Nat, at : Nat, by : Reconciler]
Transaction == [pc : {"idle", "read", "check"}, clock : Nat, view : [Device -> Seen],
                todo : SUBSET Device, row : SUBSET Row, held : SUBSET Row]

\* What devices, sessions and rows hold, one row at most waiting for a flush;
\* the monitor runs only while it is alive.
TypeOK ==
    /\ now \in 0 .. MaxTime
    /\ lastSeen \in [Device -> Seen] /\ observed \in [Device -> Seen]
    /\ events \subseteq Row /\ commits \subseteq [dev : Device, seen : Nat, at : Nat]
    /\ task \in [Reconciler -> Transaction]
    /\ \A r \in Reconciler : \A e, f \in task[r].row : e = f
    /\ ~monitoring => task[Monitor] = Idle

(***************************************************************************)
(* One outage is one audit event, however many reconcilers detect it at    *)
(* the same time: committed rows and the rows that open transactions have  *)
(* flushed never share a device and an incident.                           *)
(***************************************************************************)
OneEventPerOutage ==
    LET inserted == events \cup UNION {task[r].held : r \in Reconciler}
    IN  \A e, f \in inserted : e.dev = f.dev /\ e.incident = f.incident => e = f

(***************************************************************************)
(* An outage is never reported on stale data: the device was last heard    *)
(* more than late_seconds before the clock reading of the transaction that *)
(* reports it, and no later heartbeat had been committed when that         *)
(* reading was taken, although heartbeats commit between the reading, the  *)
(* query, the insert and the commit.                                       *)
(***************************************************************************)
NoFalseOutage ==
    \A e \in events :
        /\ \E c \in commits : c.dev = e.dev /\ c.seen = e.incident
        /\ e.at > e.incident + Late
        /\ \A c \in commits : c.dev = e.dev /\ c.seen > e.incident => c.at >= e.at

\* Device d has been silent too long, and its outage has no event.
Unreported(d) ==
    /\ lastSeen[d] # Never /\ now > lastSeen[d] + Late
    /\ ~\E e \in events : e.dev = d /\ e.incident = lastSeen[d]

(***************************************************************************)
(* README.md:208, "The server naturally emits `AGENT_UNREACHABLE` after    *)
(* the heartbeat timeout": a device that stays silent past late_seconds    *)
(* gets its event, unless it comes back first.                             *)
(***************************************************************************)
EveryOutageIsReported == \A d \in Device : []<>~Unreported(d)

-----------------------------------------------------------------------------
(* The inductive invariant, in parts *)

\* The row that waits for a flush is not among those the session has flushed.
RowIsNew ==
    \A r \in Reconciler : \A row \in task[r].row : SameKey(task[r].held, row) = {}

\* What NoFalseOutage says of one row, committed or not.
Justified(e) ==
    /\ \E c \in commits : c.dev = e.dev /\ c.seen = e.incident
    /\ e.at > e.incident + Late
    /\ \A c \in commits : c.dev = e.dev /\ c.seen > e.incident => c.at >= e.at

\* last_seen is that of the newest committed heartbeat of a device, and a
\* request still open will not turn it back.
LastSeenIsNewest ==
    /\ \A c \in commits :
         /\ c.at <= now /\ c.seen <= now
         /\ lastSeen[c.dev] # Never /\ c.seen <= lastSeen[c.dev]
         /\ observed[c.dev] # Never => c.seen <= observed[c.dev]
    /\ \A d \in Device : lastSeen[d] # Never =>
         \E c \in commits : c.dev = d /\ c.seen = lastSeen[d]
    /\ \A d \in Device : observed[d] # Never => observed[d] <= now

\* What a session read is a committed heartbeat, and one that committed
\* later committed after the session had read the clock.
AfterClock(t) ==
    /\ t.clock <= now
    /\ t.pc = "check" =>
         \A d \in Device : t.view[d] # Never =>
            /\ \E c \in commits : c.dev = d /\ c.seen = t.view[d]
            /\ \A c \in commits : c.dev = d /\ c.seen > t.view[d] => c.at >= t.clock

ViewAfterClock == \A r \in Reconciler : AfterClock(task[r])

\* Rows on their way to the table are justified as well.
RowsJustified ==
    /\ \A e \in events : Justified(e) /\ e.at <= now
    /\ \A r \in Reconciler : \A e \in task[r].row \cup task[r].held : Justified(e) /\ e.at <= now

(***************************************************************************)
(* The inductive invariant behind OneEventPerOutage and NoFalseOutage:     *)
(* what a session may rely on between its clock reading, its query, its    *)
(* flushes and its commit, while heartbeats and other sessions commit.     *)
(***************************************************************************)
IInv ==
    /\ TypeOK /\ OneEventPerOutage /\ RowIsNew
    /\ LastSeenIsNewest /\ ViewAfterClock /\ RowsJustified
=============================================================================

-------------------------- MODULE Reachability_proofs --------------------------
(***************************************************************************)
(* Proofs about Reachability, for every set of devices and reconcilers,    *)
(* every pair of thresholds with online <= late, and every bound.          *)
(***************************************************************************)
EXTENDS Reachability, TLAPS

-----------------------------------------------------------------------------
(* Type correctness *)

\* A session with nothing begun.
LEMMA IdleType == Idle \in Transaction /\ Idle.clock = 0 /\ Idle.row = {} /\ Idle.held = {}
                  /\ Idle.pc = "idle"
<1>1. [d \in Device |-> Never] \in [Device -> Seen]
  BY DEF Seen
<1> QED
  BY <1>1 DEF Idle, Transaction

\* Only a device that was heard once, and more than late_seconds ago, is
\* unreachable.
LEMMA UnreachableIsLate ==
    ASSUME NEW seen \in Seen, NEW clock \in Nat, DeviceState(seen, clock) = "UNREACHABLE"
    PROVE  seen \in Nat /\ clock > seen + Late
<1>1. seen # Never
  BY DEF DeviceState
<1>2. seen \in Nat
  BY <1>1 DEF Seen
<1>3. ~(clock - seen <= Online) /\ ~(Online < clock - seen /\ clock - seen <= Late)
  BY <1>1 DEF DeviceState
<1> QED
  BY <1>2, <1>3, ReachabilityAssumption

\* What one round of the loop leaves: at most one row, of a device that was
\* late at the clock reading, with a key the session has not seen.
Checked(r, d, rows) ==
    /\ task' = [task EXCEPT ![r].todo = @ \ {d}, ![r].row = rows]
    /\ \A e, f \in rows : e = f
    /\ \A e \in rows :
         /\ e.dev = d /\ e.incident = task[r].view[d] /\ e.at = task[r].clock
         /\ e.incident \in Nat /\ e.at > e.incident + Late
         /\ SameKey(events \cup task[r].held, e) = {}

LEMMA CheckedRow ==
    ASSUME TypeOK, NEW r \in Reconciler, NEW d \in Device, CheckDevice(r, d)
    PROVE  \E rows \in SUBSET Row : Checked(r, d, rows)
<1> DEFINE t == task[r]
           row == [dev |-> d, incident |-> t.view[d], at |-> t.clock, by |-> r]
           new == /\ DeviceState(t.view[d], t.clock) = "UNREACHABLE"
                  /\ SameKey(events \cup t.held, row) = {}
           rows == IF new THEN {row} ELSE {}
<1>1. t.view[d] \in Seen /\ t.clock \in Nat
  BY DEF TypeOK, Transaction
<1>2. new => t.view[d] \in Nat /\ t.clock > t.view[d] + Late
  BY <1>1, UnreachableIsLate
<1>3. new => row \in Row
  BY <1>1, <1>2 DEF Row
<1>4. \A e, f \in rows : e = f
  OBVIOUS
<1>5. task' = [task EXCEPT ![r].todo = @ \ {d}, ![r].row = rows]
  BY DEF CheckDevice
<1>6. \A e \in rows : e = row /\ new
  OBVIOUS
<1>7. rows \in SUBSET Row
  BY <1>3
<1>8. row.dev = d /\ row.incident = t.view[d] /\ row.at = t.clock
  OBVIOUS
<1> HIDE DEF rows, row
<1> QED
  BY <1>2, <1>4, <1>5, <1>6, <1>7, <1>8 DEF Checked

\* Every step keeps the types.
LEMMA TypeStep == ASSUME TypeOK, [Next]_vars PROVE TypeOK'
<1> USE ReachabilityAssumption
<1>0. /\ now \in 0 .. MaxTime /\ now \in Nat /\ task \in [Reconciler -> Transaction]
      /\ \A r \in Reconciler : \A e, f \in task[r].row : e = f
  BY DEF TypeOK
<1>1. ASSUME NEW d \in Device, HeartbeatArrives(d) PROVE TypeOK'
  BY <1>0, <1>1 DEF HeartbeatArrives, TypeOK, Seen
<1>2. ASSUME NEW d \in Device, HeartbeatCommits(d) PROVE TypeOK'
  <2>1. observed[d] \in Nat
    BY <1>2 DEF HeartbeatCommits, TypeOK, Seen
  <2> QED
    BY <1>0, <1>2, <2>1 DEF HeartbeatCommits, TypeOK, Seen
<1>3. ASSUME NEW r \in Reconciler, NEW t \in Transaction, \A e, f \in t.row : e = f,
             task' = [task EXCEPT ![r] = t], r = Monitor /\ ~monitoring => t = Idle,
             events' \subseteq Row,
             UNCHANGED <<now, lastSeen, observed, commits, monitoring>>
      PROVE  TypeOK'
  BY <1>0, <1>3 DEF TypeOK
<1>4. ASSUME NEW r \in Reconciler, Clock(r) PROVE TypeOK'
  <2> DEFINE t == [task[r] EXCEPT !.pc = "read", !.clock = now]
  <2>1. t \in Transaction /\ t.row = task[r].row
    BY <1>0 DEF Transaction
  <2>2. task' = [task EXCEPT ![r] = t] /\ monitoring' = monitoring
        /\ (r = Monitor => monitoring) /\ UNCHANGED <<now, lastSeen, observed, commits, events>>
    BY <1>0, <1>4 DEF Clock, Running
  <2> QED
    BY <1>0, <1>3, <2>1, <2>2 DEF TypeOK
<1>5. ASSUME NEW r \in Reconciler, ReadDevices(r) PROVE TypeOK'
  <2> DEFINE t == [task[r] EXCEPT !.pc = "check", !.view = lastSeen, !.todo = Device]
  <2>0. lastSeen \in [Device -> Seen]
    BY <1>0 DEF TypeOK
  <2>1. t \in Transaction /\ t.row = task[r].row
    BY <1>0, <2>0 DEF Transaction
  <2>2. task' = [task EXCEPT ![r] = t] /\ UNCHANGED <<now, lastSeen, observed, commits, events, monitoring>>
    BY <1>0, <1>5 DEF ReadDevices
  <2>3. r = Monitor => monitoring
    BY <1>5, IdleType DEF ReadDevices, TypeOK
  <2> QED
    BY <1>0, <1>3, <2>1, <2>2, <2>3 DEF TypeOK
<1>6. ASSUME NEW r \in Reconciler, NEW d \in Device, CheckDevice(r, d) PROVE TypeOK'
  <2>0. PICK rows \in SUBSET Row : Checked(r, d, rows)
    BY <1>6, CheckedRow
  <2>1. /\ task' = [task EXCEPT ![r].todo = @ \ {d}, ![r].row = rows]
        /\ \A e, f \in rows : e = f
    BY <2>0 DEF Checked
  <2> DEFINE t == [task[r] EXCEPT !.todo = @ \ {d}, !.row = rows]
  <2>2. t \in Transaction /\ t.row = rows
    BY <1>0 DEF Transaction
  <2>3. task' = [task EXCEPT ![r] = t] /\ UNCHANGED <<now, lastSeen, observed, commits, events, monitoring>>
    BY <1>0, <1>6, <2>1 DEF CheckDevice
  <2>4. r = Monitor => monitoring
    BY <1>6, IdleType DEF CheckDevice, TypeOK
  <2> QED
    BY <1>0, <1>3, <2>1, <2>2, <2>3, <2>4 DEF TypeOK
<1>7. ASSUME NEW r \in Reconciler, Flush(r) PROVE TypeOK'
  <2> DEFINE t == [task[r] EXCEPT !.row = {}, !.held = @ \cup task[r].row]
  <2>1. t \in Transaction /\ t.row = {}
    BY <1>0 DEF Transaction
  <2>2. task' = [task EXCEPT ![r] = t] /\ UNCHANGED <<now, lastSeen, observed, commits, events, monitoring>>
    BY <1>0, <1>7 DEF Flush
  <2>3. r = Monitor => monitoring
    BY <1>7, IdleType DEF Flush, TypeOK
  <2> QED
    BY <1>0, <1>3, <2>1, <2>2, <2>3 DEF TypeOK
<1>8. ASSUME NEW r \in Reconciler, Commit(r) PROVE TypeOK'
  <2>1. events' \subseteq Row
    BY <1>0, <1>8 DEF Commit, TypeOK, Transaction
  <2> QED
    BY <1>0, <1>3, <1>8, <2>1, IdleType DEF Commit
<1>9. ASSUME NEW r \in Reconciler, Raise(r) PROVE TypeOK'
  <2>1. /\ task' \in [Reconciler -> Transaction] /\ task'[r] = Idle
        /\ \A q \in Reconciler \ {r} : task'[q] = task[q]
    BY <1>0, <1>9, IdleType DEF Raise
  <2>2. \A q \in Reconciler : \A e, f \in task'[q].row : e = f
    BY <1>0, <2>1, IdleType
  <2>3. ~monitoring' => task'[Monitor] = Idle
    BY <1>9, <2>1 DEF Raise, TypeOK
  <2> QED
    BY <1>9, <2>1, <2>2, <2>3 DEF Raise, TypeOK
<1>10. CASE ServerRestarts
  BY <1>0, <1>10, IdleType DEF ServerRestarts, TypeOK, Seen
<1>11. CASE Tick
  BY <1>0, <1>11 DEF Tick, TypeOK
<1>12. CASE UNCHANGED vars
  BY <1>12 DEF vars, TypeOK
<1> QED
  BY <1>1, <1>2, <1>4, <1>5, <1>6, <1>7, <1>8, <1>9, <1>10, <1>11, <1>12
     DEF Next, Proceed, UniqueViolation, DeadlockVictim, DatabaseFails

(***************************************************************************)
(* The columns, the sessions and the rows have their types in every        *)
(* reachable state, and a monitor task that has died leaves no session     *)
(* open.                                                                   *)
(***************************************************************************)
THEOREM TypeCorrect == Spec => []TypeOK
<1>1. Init => TypeOK
  BY IdleType, ReachabilityAssumption DEF Init, TypeOK, Seen
<1>2. TypeOK /\ [Next]_vars => TypeOK'
  BY TypeStep
<1> QED
  BY <1>1, <1>2, PTL DEF Spec
-----------------------------------------------------------------------------
(* One event per outage *)

Inserted == events \cup UNION {task[r].held : r \in Reconciler}

\* No two rows of a set have the same key.
UniqueKeys(rows) == \A e, f \in rows : e.dev = f.dev /\ e.incident = f.incident => e = f

\* Only a flush adds to the rows in the table, and it adds a key that nobody has.
LEMMA UniqueStep ==
    ASSUME IInv, TypeOK', [Next]_vars
    PROVE  OneEventPerOutage' /\ RowIsNew'
<1>0. /\ UniqueKeys(Inserted) /\ RowIsNew /\ task \in [Reconciler -> Transaction]
      /\ task' \in [Reconciler -> Transaction]
      /\ \A r \in Reconciler : \A e, f \in task[r].row : e = f
  BY DEF IInv, TypeOK, Transaction, OneEventPerOutage, UniqueKeys, Inserted
<1>1. ASSUME Inserted' \subseteq Inserted PROVE OneEventPerOutage'
  BY <1>0, <1>1 DEF OneEventPerOutage, UniqueKeys, Inserted
<1>2. CASE UNCHANGED <<events, task>>
  BY <1>0, <1>1, <1>2 DEF Inserted, RowIsNew
<1>3. ASSUME NEW r \in Reconciler, NEW t \in Transaction, task' = [task EXCEPT ![r] = t],
             t.held = task[r].held, UNCHANGED events,
             \A row \in t.row : SameKey(t.held, row) = {}
      PROVE  OneEventPerOutage' /\ RowIsNew'
  <2>1. \A q \in Reconciler : task'[q].held = task[q].held
    BY <1>0, <1>3
  <2> QED
    BY <1>0, <1>1, <1>3, <2>1, SMTT(30) DEF Inserted, RowIsNew
<1>4. ASSUME NEW r \in Reconciler, Clock(r) \/ ReadDevices(r)
      PROVE  OneEventPerOutage' /\ RowIsNew'
  <2>1. PICK t \in Transaction : task' = [task EXCEPT ![r] = t] /\ t.held = task[r].held
                                 /\ t.row = task[r].row
    <3>1. CASE Clock(r)
      <4> DEFINE t == [task[r] EXCEPT !.pc = "read", !.clock = now]
      <4>1. task' = [task EXCEPT ![r] = t] /\ t.held = task[r].held /\ t.row = task[r].row
        BY <1>0, <3>1 DEF Clock, Transaction
      <4>2. t \in Transaction
        BY <1>0, <4>1
      <4> QED
        BY <4>1, <4>2
    <3>2. CASE ReadDevices(r)
      <4> DEFINE t == [task[r] EXCEPT !.pc = "check", !.view = lastSeen, !.todo = Device]
      <4>1. task' = [task EXCEPT ![r] = t] /\ t.held = task[r].held /\ t.row = task[r].row
        BY <1>0, <3>2 DEF ReadDevices, Transaction
      <4>2. t \in Transaction
        BY <1>0, <4>1
      <4> QED
        BY <4>1, <4>2
    <3> QED
      BY <1>4, <3>1, <3>2
  <2>2. UNCHANGED events
    BY <1>4 DEF Clock, ReadDevices
  <2>3. \A row \in t.row : SameKey(t.held, row) = {}
    BY <1>0, <2>1 DEF RowIsNew
  <2> QED
    BY <1>3, <2>1, <2>2, <2>3
<1>5. ASSUME NEW r \in Reconciler, NEW d \in Device, CheckDevice(r, d)
      PROVE  OneEventPerOutage' /\ RowIsNew'
  <2>0. PICK rows \in SUBSET Row : Checked(r, d, rows)
    BY <1>5, CheckedRow DEF IInv
  <2>1. /\ task' = [task EXCEPT ![r].todo = @ \ {d}, ![r].row = rows]
        /\ \A e \in rows : SameKey(events \cup task[r].held, e) = {}
    BY <2>0 DEF Checked
  <2> DEFINE t == [task[r] EXCEPT !.todo = @ \ {d}, !.row = rows]
  <2>2. task' = [task EXCEPT ![r] = t] /\ t.held = task[r].held /\ t.row = rows
    BY <1>0, <2>1 DEF Transaction
  <2>3. t \in Transaction
    BY <1>0, <2>2
  <2>4. UNCHANGED events
    BY <1>5 DEF CheckDevice
  <2>5. \A e \in rows : SameKey(task[r].held, e) = {}
    BY <2>1 DEF SameKey
  <2> QED
    BY <1>3, <2>2, <2>3, <2>4, <2>5
<1>6. ASSUME NEW r \in Reconciler, Flush(r) PROVE OneEventPerOutage' /\ RowIsNew'
  <2> DEFINE t == [task[r] EXCEPT !.row = {}, !.held = @ \cup task[r].row]
  <2>1. /\ task' = [task EXCEPT ![r] = t] /\ t.row = {} /\ t.held = task[r].held \cup task[r].row
        /\ UNCHANGED events /\ Holders(r) = {} /\ ~Conflict(r)
    BY <1>0, <1>6 DEF Flush, Transaction
  <2>2. Inserted' \subseteq Inserted \cup task[r].row
    BY <1>0, <2>1 DEF Inserted
  <2>3. ASSUME NEW e \in Inserted, NEW f \in task[r].row, e.dev = f.dev, e.incident = f.incident
        PROVE  FALSE
    <3>1. CASE e \in events
      BY <2>1, <2>3, <3>1 DEF Conflict, SameKey
    <3>2. CASE e \in task[r].held
      BY <1>0, <2>3, <3>2 DEF RowIsNew, SameKey
    <3>3. ASSUME NEW q \in Reconciler \ {r}, e \in task[q].held PROVE FALSE
      BY <2>1, <2>3, <3>3 DEF Holders, SameKey
    <3> QED
      BY <3>1, <3>2, <3>3 DEF Inserted
  <2>4. \A e, f \in task[r].row : e = f
    BY <1>0
  <2>5. UniqueKeys(Inserted \cup task[r].row)
    BY <1>0, <2>3, <2>4 DEF UniqueKeys
  <2>6. OneEventPerOutage'
    BY <2>2, <2>5 DEF OneEventPerOutage, UniqueKeys, Inserted
  <2>7. RowIsNew'
    BY <1>0, <2>1 DEF RowIsNew
  <2> QED
    BY <2>6, <2>7
<1>7. ASSUME NEW r \in Reconciler, Commit(r) PROVE OneEventPerOutage' /\ RowIsNew'
  <2>1. task' = [task EXCEPT ![r] = Idle] /\ events' = events \cup task[r].held
    BY <1>7 DEF Commit
  <2>2. Inserted' \subseteq Inserted
    BY <1>0, <2>1, IdleType DEF Inserted
  <2> QED
    BY <1>0, <1>1, <2>1, <2>2, IdleType DEF RowIsNew
<1>8. ASSUME NEW r \in Reconciler, Raise(r) PROVE OneEventPerOutage' /\ RowIsNew'
  <2>1. task' = [task EXCEPT ![r] = Idle] /\ UNCHANGED events
    BY <1>8 DEF Raise
  <2>2. Inserted' \subseteq Inserted
    BY <1>0, <2>1, IdleType DEF Inserted
  <2> QED
    BY <1>0, <1>1, <2>1, <2>2, IdleType DEF RowIsNew
<1>9. CASE ServerRestarts
  <2>1. task' = [r \in Reconciler |-> Idle] /\ UNCHANGED events
    BY <1>9 DEF ServerRestarts
  <2>2. Inserted' \subseteq Inserted
    BY <2>1, IdleType DEF Inserted
  <2> QED
    BY <1>0, <1>1, <2>1, <2>2, IdleType DEF RowIsNew
<1> QED
  BY <1>2, <1>4, <1>5, <1>6, <1>7, <1>8, <1>9
     DEF Next, Proceed, UniqueViolation, DeadlockVictim, DatabaseFails, vars, Tick,
         HeartbeatArrives, HeartbeatCommits
-----------------------------------------------------------------------------
(* No outage on stale data *)

\* A heartbeat that commits is newer than what the device had, and too late
\* to contradict a row whose clock was read before.
LEMMA HeartbeatStep ==
    ASSUME IInv, TypeOK', NEW d \in Device, HeartbeatArrives(d) \/ HeartbeatCommits(d)
    PROVE  LastSeenIsNewest' /\ ViewAfterClock' /\ RowsJustified'
<1> USE ReachabilityAssumption
<1>0. /\ now \in Nat /\ now' = now /\ UNCHANGED <<events, task>>
      /\ lastSeen \in [Device -> Seen] /\ observed \in [Device -> Seen]
      /\ commits \subseteq [dev : Device, seen : Nat, at : Nat]
      /\ task \in [Reconciler -> Transaction] /\ events \subseteq Row
  BY DEF IInv, TypeOK, HeartbeatArrives, HeartbeatCommits
<1>1. CASE HeartbeatArrives(d)
  <2>1. /\ observed' = [observed EXCEPT ![d] = now] /\ UNCHANGED <<lastSeen, commits>>
    BY <1>1 DEF HeartbeatArrives
  <2>2. LastSeenIsNewest'
    BY <1>0, <2>1 DEF IInv, LastSeenIsNewest
  <2>3. ViewAfterClock' /\ RowsJustified'
    BY <1>0, <2>1 DEF IInv, ViewAfterClock, AfterClock, RowsJustified, Justified
  <2> QED
    BY <2>2, <2>3
<1>2. CASE HeartbeatCommits(d)
  <2> DEFINE new == [dev |-> d, seen |-> observed[d], at |-> now]
  <2>1. /\ observed[d] \in Nat /\ observed[d] # Never
        /\ lastSeen' = [lastSeen EXCEPT ![d] = observed[d]]
        /\ commits' = commits \cup {new} /\ observed' = [observed EXCEPT ![d] = Never]
    BY <1>0, <1>2 DEF HeartbeatCommits, Seen
  <2>2. new.dev = d /\ new.seen = observed[d] /\ new.at = now
    OBVIOUS
  <2> HIDE DEF new
  <2>3. LastSeenIsNewest'
    <3>1. ASSUME NEW c \in commits'
          PROVE  /\ c.at <= now /\ c.seen <= now
                 /\ lastSeen'[c.dev] # Never /\ c.seen <= lastSeen'[c.dev]
                 /\ observed'[c.dev] # Never => c.seen <= observed'[c.dev]
      <4>1. CASE c = new
        BY <1>0, <2>1, <2>2, <4>1 DEF IInv, LastSeenIsNewest
      <4>2. CASE c \in commits
        <5>1. c.dev \in Device
          BY <1>0, <4>2
        <5> QED
          BY <1>0, <2>1, <4>2, <5>1 DEF IInv, LastSeenIsNewest
      <4> QED
        BY <2>1, <4>1, <4>2
    <3>2. ASSUME NEW x \in Device, lastSeen'[x] # Never
          PROVE  \E c \in commits' : c.dev = x /\ c.seen = lastSeen'[x]
      <4>1. CASE x = d
        BY <1>0, <2>1, <2>2, <4>1
      <4>2. CASE x # d
        BY <1>0, <2>1, <3>2, <4>2 DEF IInv, LastSeenIsNewest
      <4> QED
        BY <4>1, <4>2
    <3>3. \A x \in Device : observed'[x] # Never => observed'[x] <= now
      BY <1>0, <2>1 DEF IInv, LastSeenIsNewest
    <3> QED
      BY <1>0, <3>1, <3>2, <3>3 DEF LastSeenIsNewest
  <2>4. ViewAfterClock'
    BY <1>0, <2>1, <2>2 DEF IInv, ViewAfterClock, AfterClock
  <2>5. \A e : Justified(e) /\ e.at <= now => Justified(e)'
    BY <1>0, <2>1, <2>2 DEF Justified
  <2>6. RowsJustified'
    BY <1>0, <2>5 DEF IInv, RowsJustified
  <2> QED
    BY <2>3, <2>4, <2>6
<1> QED
  BY <1>1, <1>2

\* Sessions only add rows that the view and the clock of a session justify.
LEMMA SessionStep ==
    ASSUME IInv, TypeOK', NEW r \in Reconciler,
           Clock(r) \/ ReadDevices(r) \/ (\E d \in Device : CheckDevice(r, d))
             \/ Flush(r) \/ Commit(r) \/ Raise(r)
    PROVE  LastSeenIsNewest' /\ ViewAfterClock' /\ RowsJustified'
<1> USE ReachabilityAssumption
<1>0. /\ now \in Nat /\ UNCHANGED <<now, lastSeen, observed, commits>>
      /\ lastSeen \in [Device -> Seen]
      /\ commits \subseteq [dev : Device, seen : Nat, at : Nat]
      /\ task \in [Reconciler -> Transaction] /\ events \subseteq Row
  <2>1. UNCHANGED <<now, lastSeen, observed, commits>>
    BY DEF Clock, ReadDevices, CheckDevice, Flush, Commit, Raise
  <2> QED
    BY <2>1 DEF IInv, TypeOK
<1>1. LastSeenIsNewest'
  BY <1>0 DEF IInv, LastSeenIsNewest
<1>2. \A e : Justified(e)' <=> Justified(e)
  BY <1>0 DEF Justified
<1>3. ASSUME NEW t, task' = [task EXCEPT ![r] = t], AfterClock(t),
             \A e \in t.row \cup t.held : Justified(e) /\ e.at <= now,
             events' \subseteq events \cup task[r].held
      PROVE  LastSeenIsNewest' /\ ViewAfterClock' /\ RowsJustified'
  <2>1. \A q \in Reconciler : task'[q] = IF q = r THEN t ELSE task[q]
    BY <1>0, <1>3
  <2>2. \A x : AfterClock(x)' <=> AfterClock(x)
    BY <1>0 DEF AfterClock
  <2>3. ViewAfterClock'
    BY <1>3, <2>1, <2>2 DEF IInv, ViewAfterClock
  <2>4. RowsJustified'
    BY <1>0, <1>2, <1>3, <2>1 DEF IInv, RowsJustified
  <2> QED
    BY <1>1, <2>3, <2>4
<1>4. CASE Clock(r)
  <2> DEFINE t == [task[r] EXCEPT !.pc = "read", !.clock = now]
  <2>1. /\ task' = [task EXCEPT ![r] = t] /\ UNCHANGED events
        /\ t.clock = now /\ t.pc = "read" /\ t.row = task[r].row /\ t.held = task[r].held
    BY <1>0, <1>4 DEF Clock, Transaction
  <2>2. \A e \in t.row \cup t.held : Justified(e) /\ e.at <= now
    BY <2>1 DEF IInv, RowsJustified
  <2>3. AfterClock(t)
    BY <1>0, <2>1 DEF AfterClock
  <2> HIDE DEF t
  <2> QED
    BY <1>3, <2>1, <2>2, <2>3
<1>5. CASE ReadDevices(r)
  <2> DEFINE t == [task[r] EXCEPT !.pc = "check", !.view = lastSeen, !.todo = Device]
  <2>1. /\ task' = [task EXCEPT ![r] = t] /\ UNCHANGED events
        /\ t.clock = task[r].clock /\ t.view = lastSeen
        /\ t.row = task[r].row /\ t.held = task[r].held
    BY <1>0, <1>5 DEF ReadDevices, Transaction
  <2>2. \A e \in t.row \cup t.held : Justified(e) /\ e.at <= now
    BY <2>1 DEF IInv, RowsJustified
  <2>3. ASSUME NEW d \in Device, lastSeen[d] # Never
        PROVE  /\ \E c \in commits : c.dev = d /\ c.seen = lastSeen[d]
               /\ \A c \in commits : c.dev = d /\ c.seen > lastSeen[d] => c.at >= t.clock
    <3>1. lastSeen[d] \in Nat
      BY <1>0, <2>3 DEF Seen
    <3>2. ASSUME NEW c \in commits, c.dev = d PROVE c.seen <= lastSeen[d] /\ c.seen \in Nat
      BY <1>0, <3>2 DEF IInv, LastSeenIsNewest
    <3>3. ASSUME NEW c \in commits, c.dev = d PROVE ~(c.seen > lastSeen[d])
      BY <3>1, <3>2, <3>3
    <3> QED
      BY <2>3, <3>3 DEF IInv, LastSeenIsNewest
  <2>4. AfterClock(t)
    BY <2>1, <2>3 DEF AfterClock, IInv, ViewAfterClock
  <2> HIDE DEF t
  <2> QED
    BY <1>3, <2>1, <2>2, <2>4
<1>6. ASSUME NEW d \in Device, CheckDevice(r, d)
      PROVE  LastSeenIsNewest' /\ ViewAfterClock' /\ RowsJustified'
  <2>1. PICK rows \in SUBSET Row : Checked(r, d, rows)
    BY <1>6, CheckedRow DEF IInv
  <2>2. task[r].pc = "check" /\ UNCHANGED events
    BY <1>6 DEF CheckDevice
  <2> DEFINE t == [task[r] EXCEPT !.todo = @ \ {d}, !.row = rows]
  <2>3. /\ task' = [task EXCEPT ![r] = t]
        /\ t.clock = task[r].clock /\ t.view = task[r].view /\ t.pc = task[r].pc
        /\ t.row = rows /\ t.held = task[r].held
    <3>1. task' = [task EXCEPT ![r].todo = @ \ {d}, ![r].row = rows]
      BY <2>1 DEF Checked
    <3> QED
      BY <1>0, <3>1 DEF Transaction
  <2>4. AfterClock(t)
    BY <2>3 DEF AfterClock, IInv, ViewAfterClock
  <2> HIDE DEF t
  <2>5. ASSUME NEW e \in rows PROVE Justified(e) /\ e.at <= now
    <3>1. /\ e.dev = d /\ e.incident = t.view[d] /\ e.at = t.clock
          /\ e.incident \in Nat /\ e.at > e.incident + Late
      BY <2>1, <2>3 DEF Checked
    <3>2. t.view[d] # Never
      BY <3>1
    <3> QED
      BY <2>2, <2>3, <2>4, <3>1, <3>2 DEF Justified, AfterClock
  <2>6. \A e \in t.row \cup t.held : Justified(e) /\ e.at <= now
    BY <2>3, <2>5 DEF IInv, RowsJustified
  <2> QED
    BY <1>3, <2>2, <2>3, <2>4, <2>6
<1>7. CASE Flush(r)
  <2> DEFINE t == [task[r] EXCEPT !.row = {}, !.held = @ \cup task[r].row]
  <2>1. /\ task' = [task EXCEPT ![r] = t] /\ UNCHANGED events
        /\ t.clock = task[r].clock /\ t.view = task[r].view /\ t.pc = task[r].pc
        /\ t.row = {} /\ t.held = task[r].held \cup task[r].row
    BY <1>0, <1>7 DEF Flush, Transaction
  <2>2. \A e \in t.row \cup t.held : Justified(e) /\ e.at <= now
    BY <2>1 DEF IInv, RowsJustified
  <2>3. AfterClock(t)
    BY <2>1 DEF AfterClock, IInv, ViewAfterClock
  <2> HIDE DEF t
  <2> QED
    BY <1>3, <2>1, <2>2, <2>3
<1>8. CASE Commit(r) \/ Raise(r)
  <2>1. task' = [task EXCEPT ![r] = Idle] /\ events' \subseteq events \cup task[r].held
    BY <1>8 DEF Commit, Raise
  <2>2. AfterClock(Idle)
    BY <1>0, IdleType DEF AfterClock
  <2>3. \A e \in Idle.row \cup Idle.held : Justified(e) /\ e.at <= now
    BY IdleType
  <2> QED
    BY <1>3, <2>1, <2>2, <2>3
<1> QED
  BY <1>4, <1>5, <1>6, <1>7, <1>8
-----------------------------------------------------------------------------
(* Theorems *)

\* Every step of a device, a session, the server and the clock preserves the
\* invariant.
LEMMA Inductive == ASSUME IInv, [Next]_vars PROVE IInv'
<1> USE ReachabilityAssumption
<1>0. TypeOK' /\ OneEventPerOutage' /\ RowIsNew'
  BY TypeStep, UniqueStep DEF IInv
<1>1. ASSUME NEW d \in Device, HeartbeatArrives(d) \/ HeartbeatCommits(d)
      PROVE  LastSeenIsNewest' /\ ViewAfterClock' /\ RowsJustified'
  BY <1>0, <1>1, HeartbeatStep
<1>2. ASSUME NEW r \in Reconciler, Clock(r) \/ Proceed(r) \/ DatabaseFails(r)
      PROVE  LastSeenIsNewest' /\ ViewAfterClock' /\ RowsJustified'
  BY <1>0, <1>2, SessionStep DEF Proceed, UniqueViolation, DeadlockVictim, DatabaseFails
<1>3. CASE ServerRestarts
  <2>1. /\ task' = [r \in Reconciler |-> Idle] /\ observed' = [d \in Device |-> Never]
        /\ UNCHANGED <<now, lastSeen, events, commits>> /\ now \in Nat
        /\ commits \subseteq [dev : Device, seen : Nat, at : Nat]
    BY <1>3 DEF ServerRestarts, IInv, TypeOK
  <2>2. LastSeenIsNewest'
    BY <2>1 DEF IInv, LastSeenIsNewest
  <2>3. ViewAfterClock'
    BY <2>1, IdleType DEF ViewAfterClock, AfterClock
  <2>4. RowsJustified'
    BY <2>1, IdleType DEF IInv, RowsJustified, Justified
  <2> QED
    BY <1>0, <2>2, <2>3, <2>4 DEF IInv
<1>4. CASE Tick
  <2>1. /\ now' = now + 1 /\ now \in Nat /\ UNCHANGED <<lastSeen, observed, events, task, commits>>
        /\ commits \subseteq [dev : Device, seen : Nat, at : Nat] /\ events \subseteq Row
        /\ observed \in [Device -> Seen] /\ task \in [Reconciler -> Transaction]
    BY <1>4 DEF Tick, IInv, TypeOK
  <2>2. LastSeenIsNewest'
    BY <2>1 DEF IInv, LastSeenIsNewest, Seen
  <2>3. ViewAfterClock'
    BY <2>1 DEF IInv, ViewAfterClock, AfterClock, Transaction
  <2>4. RowsJustified'
    <3>1. \A e \in Row : e.at \in Nat
      BY DEF Row
    <3>2. \A r \in Reconciler : task[r].row \cup task[r].held \subseteq Row
      BY <2>1 DEF Transaction
    <3>3. \A e : Justified(e)' <=> Justified(e)
      BY <2>1 DEF Justified
    <3> QED
      BY <2>1, <3>1, <3>2, <3>3 DEF IInv, RowsJustified
  <2> QED
    BY <1>0, <2>2, <2>3, <2>4 DEF IInv
<1>5. CASE UNCHANGED vars
  <2>1. LastSeenIsNewest' /\ ViewAfterClock'
    BY <1>5 DEF vars, IInv, LastSeenIsNewest, ViewAfterClock, AfterClock
  <2>2. RowsJustified'
    BY <1>5 DEF vars, IInv, RowsJustified, Justified
  <2> QED
    BY <1>0, <2>1, <2>2 DEF IInv
<1> QED
  BY <1>0, <1>1, <1>2, <1>3, <1>4, <1>5 DEF Next, IInv

(***************************************************************************)
(* The inductive invariant holds in every reachable state.                 *)
(***************************************************************************)
THEOREM Invariance == Spec => []IInv
<1>1. Init => IInv
  <2> SUFFICES ASSUME Init PROVE IInv
    OBVIOUS
  <2>1. TypeOK
    BY IdleType, ReachabilityAssumption DEF Init, TypeOK, Seen
  <2>2. OneEventPerOutage /\ RowIsNew
    BY IdleType DEF Init, OneEventPerOutage, RowIsNew
  <2>3. LastSeenIsNewest /\ ViewAfterClock /\ RowsJustified
    BY IdleType DEF Init, LastSeenIsNewest, ViewAfterClock, AfterClock, RowsJustified
  <2> QED
    BY <2>1, <2>2, <2>3 DEF IInv
<1>2. IInv /\ [Next]_vars => IInv'
  BY Inductive
<1> QED
  BY <1>1, <1>2, PTL DEF Spec

(***************************************************************************)
(* One outage is one AGENT_UNREACHABLE row, for any number of reconcilers  *)
(* that run at the same time, wait for one another, fail and are rolled    *)
(* back (services.py, reconcile_unreachable).                              *)
(***************************************************************************)
THEOREM OutagesAreReportedOnce == Spec => []OneEventPerOutage
<1>1. IInv => OneEventPerOutage
  BY DEF IInv
<1> QED
  BY <1>1, Invariance, PTL

(***************************************************************************)
(* No AGENT_UNREACHABLE row contradicts a heartbeat that was committed     *)
(* when the clock was read: the clock is read before the devices, so a row *)
(* the session reads late can only make it report less.                    *)
(***************************************************************************)
THEOREM OutagesAreReal == Spec => []NoFalseOutage
<1>1. IInv => NoFalseOutage
  BY DEF IInv, RowsJustified, Justified, NoFalseOutage
<1> QED
  BY <1>1, Invariance, PTL
=============================================================================

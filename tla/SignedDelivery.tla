--------------------------- MODULE SignedDelivery ---------------------------
(***************************************************************************)
(* The signed event channel between one agent (agent/codex-guard, package  *)
(* agent: enqueue, Flush, reEnrollIfCurrent; package queue; package        *)
(* config) and the server (server/app/main.py: verified, enroll;           *)
(* services.py: purge_expired_telemetry).                                  *)
(*                                                                         *)
(* The agent is one sequential process that may crash at any step.  Its    *)
(* durable state is config.json (disk) and queue.json (queue), each        *)
(* replaced atomically.  A request may be lost, its answer may be lost,    *)
(* and a request the agent has given up on may still reach the server.     *)
(* The server handles one envelope in one transaction: verified() locks    *)
(* the device row, so the transactions of one device do not interleave.    *)
(***************************************************************************)
EXTENDS Integers, Sequences, FiniteSets

CONSTANTS
    Device,          \* device ids the server can hand out
    Kind,            \* the kinds of payload the agent produces
    QueueRetention,  \* config RetentionDays: age at which Push drops an item
    ReceiptRetention,\* settings.receipt_retention_days
    FlushTime,       \* longest time from Push to the answer for the first item
    RequestLife,     \* how long an abandoned request may still arrive
    HomeWritable,    \* may the service write config.toml in the Codex home?
    NoEvent, NoDevice,
    MaxTime, MaxEvents, MaxResets, MaxLate   \* bounds of the model

(***************************************************************************)
(* "good" is accepted once; "invalid" fails the endpoint's own validation  *)
(* (422) after verified(); "unverifiable" is canonicalised differently by  *)
(* the two sides, so that its signature does not verify.                   *)
(***************************************************************************)
ASSUME KindAssumption == Kind \subseteq {"good", "invalid", "unverifiable"}

ASSUME TimeAssumption ==
    /\ QueueRetention \in Nat /\ ReceiptRetention \in Nat
    /\ FlushTime \in Nat /\ RequestLife \in Nat

(***************************************************************************)
(* docs/operations.md: receipts "outlive the agent's 30-day offline        *)
(* queue": 35 days against 30, and a flush or a stray request lasts far    *)
(* less than the five days between them.                                   *)
(***************************************************************************)
ASSUME RetentionAssumption ==
    ReceiptRetention >= QueueRetention + FlushTime + RequestLife

ASSUME BoundAssumption ==
    MaxTime \in Nat /\ MaxEvents \in Nat /\ MaxResets \in Nat /\ MaxLate \in Nat

ASSUME HomeAssumption == HomeWritable \in BOOLEAN

VARIABLES
    now,       \* the clock, shared by agent and server
    pc,        \* where the agent process is; "down" when it is not running
    mem,       \* Client.Config in memory: device id and next sequence
    disk,      \* the same two fields of config.json
    queue,     \* queue.json: the items, oldest first
    item,      \* the envelope in hand: signed by enqueue, or peeked by Flush
    newDev,    \* the device id register() returned, until it is saved
    pushedAt,  \* when the Push that precedes the current Flush ran
    first,     \* no item has been popped in the current Flush
    late,      \* requests the agent gave up on that may still arrive
    lastSeq,   \* devices: last_sequence of every registered device
    receipts,  \* processed_events: device, event id, received_at
    replays,   \* security_events of type REPLAY_ATTEMPT: the envelopes
    issued,    \* event ids drawn so far (randomID never repeats one)
    owned,     \* device ids config.json has ever held
    applied,   \* history: events whose payload the server has stored
    expired,   \* history: events Push has dropped for their age
    resets     \* database resets so far

clientVars == <<pc, mem, disk, queue, item, newDev, pushedAt, first>>
serverVars == <<lastSeq, receipts, replays, applied>>
ghostVars  == <<issued, owned, expired>>
envVars    == <<now, late, resets>>
vars == <<clientVars, serverVars, ghostVars, envVars>>

Config == [dev : Device, next : Nat]
Event  == [dev : Device, seq : Nat, id : Nat, kind : Kind, at : Nat]

\* The answers of verified() and of the endpoint behind it.
Verdicts == {"unknown", "badsig", "duplicate", "replayed", "rejected", "accepted"}
Flushing == {"peek", "wait"} \cup Verdicts
Steps    == {"down", "idle", "push", "telemetry", "clear", "save"} \cup Flushing

(***************************************************************************)
(* Enrolled and not started: Enroll has saved the configuration and the    *)
(* server knows the device.                                                *)
(***************************************************************************)
Init ==
    /\ now = 0 /\ pc = "down"
    /\ \E d \in Device :
         /\ disk = [dev |-> d, next |-> 1]
         /\ lastSeq = [x \in {d} |-> 0]
         /\ owned = {d}
    /\ mem = disk
    /\ queue = << >> /\ item = NoEvent /\ newDev = NoDevice
    /\ pushedAt = 0 /\ first = TRUE
    /\ late = {} /\ receipts = {} /\ replays = {}
    /\ issued = 0 /\ applied = {} /\ expired = {} /\ resets = 0

-----------------------------------------------------------------------------
(* The server *)

Registered == DOMAIN lastSeq

HasReceipt(e) == \E r \in receipts : r.dev = e.dev /\ r.id = e.id

\* The server rebuilds the signed message from its own encoding of the payload.
Verifies(e) == e.kind # "unverifiable"

\* The payload satisfies the schema of its endpoint.
WellFormed(e) == e.kind # "invalid"

\* Mutant: the sequence is checked before the receipt.
VerdictSequenceFirst(e) ==
    IF e.dev \notin Registered        THEN "unknown"
    ELSE IF ~Verifies(e)              THEN "badsig"
    ELSE IF e.seq <= lastSeq[e.dev]   THEN "replayed"
    ELSE IF HasReceipt(e)             THEN "duplicate"
    ELSE IF ~WellFormed(e)            THEN "rejected"
    ELSE                                   "accepted"

\* verified() and the payload check after it, in the order of the code.
Verdict(e) ==
    IF e.dev \notin Registered        THEN "unknown"
    ELSE IF ~Verifies(e)              THEN "badsig"
    ELSE IF HasReceipt(e)             THEN "duplicate"
    ELSE IF e.seq <= lastSeq[e.dev]   THEN "replayed"
    ELSE IF ~WellFormed(e)            THEN "rejected"
    ELSE                                   "accepted"

\* Mutant: last_sequence is not advanced.
ServeKeepsSequence(e) ==
    \/ /\ Verdict(e) = "accepted"
       /\ receipts' = receipts \cup {[dev |-> e.dev, id |-> e.id, at |-> now]}
       /\ applied'  = applied \cup {e}
       /\ UNCHANGED <<lastSeq, replays>>
    \/ /\ Verdict(e) # "accepted"
       /\ UNCHANGED serverVars

(***************************************************************************)
(* One request, one transaction.  Only "accepted" commits the receipt,     *)
(* the sequence and the payload; a 422 raised after verified() leaves the  *)
(* transaction uncommitted; "replayed" commits the security event.         *)
(***************************************************************************)
Serve(e) ==
    \/ /\ Verdict(e) = "accepted"
       /\ receipts' = receipts \cup {[dev |-> e.dev, id |-> e.id, at |-> now]}
       /\ lastSeq'  = [lastSeq EXCEPT ![e.dev] = e.seq]
       /\ applied'  = applied \cup {e}
       /\ UNCHANGED replays
    \/ /\ Verdict(e) = "replayed"
       /\ replays' = replays \cup {e}
       /\ UNCHANGED <<lastSeq, receipts, applied>>
    \/ /\ Verdict(e) \notin {"accepted", "replayed"}
       /\ UNCHANGED serverVars

\* A registration inserts a device row under an id no agent has ever saved.
AddDevice(d) ==
    /\ d \notin owned
    /\ lastSeq' = [x \in Registered \cup {d} |-> IF x = d THEN 0 ELSE lastSeq[x]]
    /\ UNCHANGED <<receipts, replays, applied>>

-----------------------------------------------------------------------------
(* The agent process *)

\* The operation in progress returns, with or without an error; its local
\* variables are gone.
Return ==
    /\ pc' = "idle" /\ item' = NoEvent /\ newDev' = NoDevice
    /\ pushedAt' = 0 /\ first' = TRUE

\* New: the configuration is read from the file.
Restart ==
    /\ pc = "down"
    /\ pc' = "idle" /\ mem' = disk
    /\ UNCHANGED <<disk, queue, item, newDev, pushedAt, first>>
    /\ UNCHANGED <<serverVars, ghostVars, envVars>>

\* refreshCodexHome has found another Codex home and saves the configuration.
SaveDiscoveredHome ==
    /\ pc = "idle"
    /\ disk' = mem
    /\ UNCHANGED <<pc, mem, queue, item, newDev, pushedAt, first>>
    /\ UNCHANGED <<serverVars, ghostVars, envVars>>

\* The envelope; Item.CreatedAt is only known when it is pushed.
Signed(k) == [dev |-> mem.dev, seq |-> mem.next, id |-> issued, kind |-> k, at |-> 0]

\* enqueue up to config.Save: the sequence is consumed before it is stored.
Sign ==
    /\ pc = "idle"
    /\ issued < MaxEvents
    /\ mem' = [mem EXCEPT !.next = mem.next + 1]
    /\ issued' = issued + 1

\* Mutant: the advanced sequence is not written to config.json.
EnqueueUnsaved(k) ==
    /\ Sign
    /\ item' = Signed(k)
    /\ pc' = "push"
    /\ UNCHANGED <<disk, queue, newDev, pushedAt, first>>
    /\ UNCHANGED <<serverVars, owned, expired, envVars>>

Enqueue(k) ==
    /\ Sign
    /\ disk' = mem'
    /\ item' = Signed(k)
    /\ pc' = "push"
    /\ UNCHANGED <<queue, newDev, pushedAt, first>>
    /\ UNCHANGED <<serverVars, owned, expired, envVars>>

EnqueueSaveFails ==
    /\ Sign
    /\ UNCHANGED <<pc, disk, queue, item, newDev, pushedAt, first>>
    /\ UNCHANGED <<serverVars, owned, expired, envVars>>

Stale(e) == e.at + QueueRetention <= now

(***************************************************************************)
(* Queue.Push.  Items are stored oldest first, so the items its loop drops *)
(* are the first n (QueueShape).                                           *)
(***************************************************************************)
Push ==
    /\ pc = "push"
    /\ \E n \in 0 .. Len(queue) :
         /\ \A i \in 1 .. Len(queue) : Stale(queue[i]) <=> i <= n
         /\ queue' = Append(SubSeq(queue, n + 1, Len(queue)), [item EXCEPT !.at = now])
         /\ expired' = expired \cup {queue[i] : i \in 1 .. n}
    /\ pushedAt' = now /\ first' = TRUE
    /\ pc' = "peek" /\ item' = NoEvent
    /\ UNCHANGED <<mem, disk, newDev>>
    /\ UNCHANGED <<serverVars, issued, owned, envVars>>

PushFails ==
    /\ pc = "push"
    /\ Return
    /\ UNCHANGED <<mem, disk, queue>>
    /\ UNCHANGED <<serverVars, ghostVars, envVars>>

\* Flush: Peek, and the request goes out; an empty queue ends the loop.
Send ==
    /\ pc = "peek" /\ queue # << >>
    /\ item' = Head(queue) /\ pc' = "wait"
    /\ UNCHANGED <<mem, disk, queue, newDev, pushedAt, first>>
    /\ UNCHANGED <<serverVars, ghostVars, envVars>>

FlushDone ==
    /\ pc = "peek" /\ queue = << >>
    /\ Return
    /\ UNCHANGED <<mem, disk, queue>>
    /\ UNCHANGED <<serverVars, ghostVars, envVars>>

\* The server handles the request and the agent reads the answer.
Exchange ==
    /\ pc = "wait"
    /\ Serve(item) /\ pc' = Verdict(item)
    /\ UNCHANGED <<mem, disk, queue, item, newDev, pushedAt, first>>
    /\ UNCHANGED <<ghostVars, envVars>>

\* The server handles the request, but the answer never comes.
AnswerLost ==
    /\ pc = "wait"
    /\ Serve(item) /\ Return
    /\ UNCHANGED <<mem, disk, queue>>
    /\ UNCHANGED <<ghostVars, envVars>>

\* No request arrives, or the answer is one that changes nothing (429, 5xx).
RequestFails ==
    /\ pc = "wait"
    /\ Return
    /\ UNCHANGED <<mem, disk, queue>>
    /\ UNCHANGED <<serverVars, ghostVars, envVars>>

Abandon(e) ==
    /\ Cardinality(late) < MaxLate
    /\ late' = late \cup {[ev |-> e, since |-> now]}

\* The 20 s timeout of the HTTP client fires while the request is on its way.
RequestTimesOut ==
    /\ pc = "wait"
    /\ Abandon(item) /\ Return
    /\ UNCHANGED <<mem, disk, queue>>
    /\ UNCHANGED <<serverVars, ghostVars, now, resets>>

\* Mutant: the answered item stays in the file.
PopKeepsItem ==
    /\ pc \in {"accepted", "duplicate"}
    /\ pc' = "peek" /\ item' = NoEvent /\ first' = FALSE
    /\ UNCHANGED <<mem, disk, queue, newDev, pushedAt>>
    /\ UNCHANGED <<serverVars, ghostVars, envVars>>

\* A 2xx answer: Pop and go on.
Pop ==
    /\ pc \in {"accepted", "duplicate"}
    /\ queue' = IF queue = << >> THEN queue ELSE Tail(queue)
    /\ pc' = "peek" /\ item' = NoEvent /\ first' = FALSE
    /\ UNCHANGED <<mem, disk, newDev, pushedAt>>
    /\ UNCHANGED <<serverVars, ghostVars, envVars>>

PopFails ==
    /\ pc \in {"accepted", "duplicate"}
    /\ Return
    /\ UNCHANGED <<mem, disk, queue>>
    /\ UNCHANGED <<serverVars, ghostVars, envVars>>

\* Mutant: a refused item is discarded so that the queue can go on.
RefusedDiscards ==
    /\ pc \in {"badsig", "replayed", "rejected"}
    /\ queue' = Tail(queue)
    /\ Return
    /\ UNCHANGED <<mem, disk>>
    /\ UNCHANGED <<serverVars, ghostVars, envVars>>

\* Any other status ends the flush and leaves the item at the head.
Refused ==
    /\ pc \in {"badsig", "replayed", "rejected"}
    /\ Return
    /\ UNCHANGED <<mem, disk, queue>>
    /\ UNCHANGED <<serverVars, ghostVars, envVars>>

-----------------------------------------------------------------------------
(* reEnrollIfCurrent, after 401 "unknown device" *)

\* Mutants: the answer's device id is not kept; the staleness test is inverted.
RegisterForgets(d) ==
    /\ pc = "unknown" /\ item.dev = mem.dev
    /\ AddDevice(d)
    /\ pc' = "telemetry" /\ item' = NoEvent
    /\ UNCHANGED <<newDev, mem, disk, queue, pushedAt, first>>
    /\ UNCHANGED <<ghostVars, envVars>>

RegisterIfNotCurrent(d) ==
    /\ pc = "unknown" /\ item.dev # mem.dev
    /\ AddDevice(d)
    /\ newDev' = d /\ pc' = "telemetry" /\ item' = NoEvent
    /\ UNCHANGED <<mem, disk, queue, pushedAt, first>>
    /\ UNCHANGED <<ghostVars, envVars>>

Register(d) ==
    /\ pc = "unknown" /\ item.dev = mem.dev
    /\ AddDevice(d)
    /\ newDev' = d /\ pc' = "telemetry" /\ item' = NoEvent
    /\ UNCHANGED <<mem, disk, queue, pushedAt, first>>
    /\ UNCHANGED <<ghostVars, envVars>>

\* The row is committed, the answer is lost: a device nobody will use.
RegisterAnswerLost(d) ==
    /\ pc = "unknown" /\ item.dev = mem.dev
    /\ AddDevice(d) /\ Return
    /\ UNCHANGED <<mem, disk, queue>>
    /\ UNCHANGED <<ghostVars, envVars>>

\* register fails, or the stale item is of an earlier device (return nil).
RegisterFails ==
    /\ pc = "unknown"
    /\ Return
    /\ UNCHANGED <<mem, disk, queue>>
    /\ UNCHANGED <<serverVars, ghostVars, envVars>>

ConfigureTelemetry ==
    /\ pc = "telemetry" /\ HomeWritable
    /\ pc' = "clear"
    /\ UNCHANGED <<mem, disk, queue, item, newDev, pushedAt, first>>
    /\ UNCHANGED <<serverVars, ghostVars, envVars>>

Clear ==
    /\ pc = "clear"
    /\ queue' = << >> /\ pc' = "save"
    /\ UNCHANGED <<mem, disk, item, newDev, pushedAt, first>>
    /\ UNCHANGED <<serverVars, ghostVars, envVars>>

SaveReEnrolled ==
    /\ pc = "save"
    /\ disk' = [dev |-> newDev, next |-> 1] /\ mem' = disk'
    /\ owned' = owned \cup {newDev}
    /\ Return
    /\ UNCHANGED queue
    /\ UNCHANGED <<serverVars, issued, expired, envVars>>

\* ConfigureTelemetry, Queue.Clear or config.Save returns an error.
ReEnrollFails ==
    /\ pc \in {"telemetry", "clear", "save"}
    /\ Return
    /\ UNCHANGED <<mem, disk, queue>>
    /\ UNCHANGED <<serverVars, ghostVars, envVars>>

-----------------------------------------------------------------------------
(* The environment *)

(***************************************************************************)
(* The process is killed, or `codex-guard once` ends.  What is not in a    *)
(* file is gone; a request on its way may still arrive.                    *)
(***************************************************************************)
Crash ==
    /\ pc # "down"
    /\ pc' = "down" /\ mem' = disk /\ item' = NoEvent /\ newDev' = NoDevice
    /\ pushedAt' = 0 /\ first' = TRUE
    /\ UNCHANGED late \/ (pc = "wait" /\ Abandon(item))
    /\ UNCHANGED <<disk, queue>>
    /\ UNCHANGED <<serverVars, ghostVars, now, resets>>

\* A request the agent has given up on reaches the server.
LateArrival(r) ==
    /\ Serve(r.ev)
    /\ late' = late \ {r}
    /\ UNCHANGED <<clientVars, ghostVars, now, resets>>

\* Mutant: receipts are kept no longer than the agent's queue.
PurgeAtQueueRetention ==
    /\ receipts' = {r \in receipts : r.at + QueueRetention > now}
    /\ UNCHANGED <<clientVars, ghostVars, envVars>>
    /\ UNCHANGED <<lastSeq, replays, applied>>

\* purge_expired_telemetry, from the reconcile cron job.
Purge ==
    /\ receipts' = {r \in receipts : r.at + ReceiptRetention >= now}
    /\ UNCHANGED <<clientVars, ghostVars, envVars>>
    /\ UNCHANGED <<lastSeq, replays, applied>>

\* The operator resets the database: every row is gone.
ResetDatabase ==
    /\ resets < MaxResets
    /\ resets' = resets + 1
    /\ lastSeq' = [d \in {} |-> 0] /\ receipts' = {} /\ replays' = {}
    /\ UNCHANGED <<clientVars, ghostVars, applied, now, late>>

(***************************************************************************)
(* Time passes.  The first item of a flush is answered within FlushTime of *)
(* the Push; a longer backlog may take as long as it takes.  A request     *)
(* that has been on its way for more than RequestLife is gone.             *)
(***************************************************************************)
Tick ==
    /\ now < MaxTime
    /\ pc \in Flushing /\ first => now < pushedAt + FlushTime
    /\ now' = now + 1
    /\ late' = {r \in late : r.since + RequestLife >= now'}
    /\ UNCHANGED <<clientVars, serverVars, ghostVars, resets>>

-----------------------------------------------------------------------------
Flush == Send \/ FlushDone \/ Exchange \/ AnswerLost \/ RequestFails
         \/ RequestTimesOut \/ Pop \/ PopFails \/ Refused

ReEnroll == \/ \E d \in Device : Register(d) \/ RegisterAnswerLost(d)
            \/ RegisterFails \/ ConfigureTelemetry \/ Clear
            \/ SaveReEnrolled \/ ReEnrollFails

Agent == \/ Restart \/ SaveDiscoveredHome
         \/ \E k \in Kind : Enqueue(k)
         \/ EnqueueSaveFails \/ Push \/ PushFails
         \/ Flush \/ ReEnroll

Environment == Crash \/ (\E r \in late : LateArrival(r))
               \/ Purge \/ ResetDatabase \/ Tick

Next == Agent \/ Environment

Spec == Init /\ [][Next]_vars

-----------------------------------------------------------------------------
(* Properties *)

Request == [ev : Event, since : Nat]
Receipt == [dev : Device, id : Nat, at : Nat]

(***************************************************************************)
(* Type invariant: the Go and SQL types of the state, and that an envelope *)
(* or a new device id is in hand exactly where the code uses one.          *)
(***************************************************************************)
TypeOK ==
    /\ now \in Nat /\ pc \in Steps
    /\ mem \in Config /\ disk \in Config
    /\ queue \in Seq(Event)
    /\ item \in Event \cup {NoEvent}
    /\ newDev \in Device \cup {NoDevice}
    /\ pc \in {"push", "wait"} \cup Verdicts => item \in Event
    /\ pc \in {"telemetry", "clear", "save"} => newDev \in Device
    /\ pushedAt \in Nat /\ first \in BOOLEAN
    /\ late \subseteq Request
    /\ Registered \subseteq Device /\ lastSeq \in [Registered -> Nat]
    /\ receipts \subseteq Receipt
    /\ replays \subseteq Event /\ applied \subseteq Event /\ expired \subseteq Event
    /\ issued \in Nat /\ owned \subseteq Device /\ resets \in Nat

(***************************************************************************)
(* What queue.json holds can always be sent by the process that next reads *)
(* it: every item was signed as the device config.json names, sequences    *)
(* and creation times grow from head to tail, and config.json never hands  *)
(* out again a sequence that is in the queue, whatever was lost in a crash *)
(* between config.Save, Queue.Push, Queue.Clear and the save after it.     *)
(***************************************************************************)
QueueShape ==
    \A i \in 1 .. Len(queue) :
        /\ queue[i].dev = disk.dev
        /\ queue[i].seq < disk.next
        /\ queue[i].at <= now
        /\ \A j \in 1 .. Len(queue) :
             i < j => queue[i].seq < queue[j].seq /\ queue[i].at <= queue[j].at

(***************************************************************************)
(* A retry is never taken for a replay: Flush never reads 409, however     *)
(* often its requests or answers were lost, delayed or repeated, and       *)
(* whatever receipts have been purged in the meantime.  A 409 would stay   *)
(* at the head of the queue and block every later report.                  *)
(***************************************************************************)
RetryIsNotReplay == pc # "replayed"

(***************************************************************************)
(* An honest agent raises REPLAY_ATTEMPT only for an event its own queue   *)
(* has dropped for its age while a request carrying it was still on its    *)
(* way.                                                                    *)
(***************************************************************************)
FalseAlarmOnlyIfExpired == replays \subseteq expired

\* The requests that can reach the server.
OnItsWay == {r.ev : r \in late} \cup (IF pc = "wait" THEN {item} ELSE {})

(***************************************************************************)
(* The server stores the reports of a device in the order they were signed *)
(* and none twice: any request that could arrive next and be accepted is   *)
(* newer than everything stored so far, though its receipt may be purged.  *)
(***************************************************************************)
StoredInOrder ==
    \A e \in OnItsWay : Verdict(e) = "accepted" =>
        \A f \in applied : f.dev = e.dev => f.seq < e.seq

Queued == {queue[i] : i \in 1 .. Len(queue)}

(***************************************************************************)
(* No silent loss: an event leaves queue.json only when the server has     *)
(* stored it, when it is past its retention, or when the server no longer  *)
(* knows its device (re-enrollment).  A duplicate answer pops an event     *)
(* too, so this needs every receipt to stand for a stored event.           *)
(***************************************************************************)
NoSilentLoss ==
    [][\A e \in Queued \ Queued' :
          e \in applied \/ e \in expired' \/ e.dev \notin Registered]_vars

(***************************************************************************)
(* The channel implements EventLog: whatever is lost, late, repeated,      *)
(* purged or cut off by a crash, each report is stored at most once and in *)
(* order, and the queue gives it up only for the reasons EventLog allows.  *)
(***************************************************************************)
Log == INSTANCE EventLog
       WITH held <- Queued, lapsed <- expired, stored <- applied, last <- lastSeq

ImplementsEventLog == Log!Spec

-----------------------------------------------------------------------------
(* The inductive invariant, in parts *)

\* Memory and file agree on the device; memory may be ahead in sequences.
Identity ==
    /\ mem.dev = disk.dev /\ disk.next <= mem.next
    /\ disk.dev \in owned

\* The envelope in hand: newer than everything, or the head of the queue.
InHand ==
    /\ pc = "push" =>
         /\ item.dev = disk.dev /\ item.seq < disk.next
         /\ \A i \in 1 .. Len(queue) : queue[i].seq < item.seq
         /\ \A r \in late : r.ev.dev = disk.dev => r.ev.seq < item.seq
         /\ disk.dev \in Registered => lastSeq[disk.dev] < item.seq
    /\ pc \in {"wait"} \cup Verdicts => queue # << >> /\ item = queue[1]

\* A stray request is never ahead of the queue, and level with it only as
\* another copy of the head.
LateBehind ==
    \A r \in late :
        /\ r.ev.dev \in owned
        /\ r.ev.dev = disk.dev =>
             /\ r.ev.seq < disk.next
             /\ \A i \in 1 .. Len(queue) :
                  /\ r.ev.seq <= queue[i].seq
                  /\ r.ev.seq = queue[i].seq => r.ev = queue[i]

ReceiptOrOld(e) ==
    \/ \E r \in receipts : r.dev = e.dev /\ r.id = e.id /\ r.at >= e.at
    \/ e.at + ReceiptRetention < now

\* Nor is the server: it is level with the queue only when it has stored the
\* head, and then it has the receipt unless the head is older than receipts.
ServerBehind ==
    disk.dev \in Registered =>
        /\ lastSeq[disk.dev] < disk.next
        /\ \A i \in 1 .. Len(queue) :
             /\ lastSeq[disk.dev] <= queue[i].seq
             /\ lastSeq[disk.dev] = queue[i].seq => ReceiptOrOld(queue[i])

\* A device no agent has used has no history; re-enrollment runs only
\* when the server has lost the current device.
FreshDevices ==
    /\ \A d \in Registered : d \notin owned => lastSeq[d] = 0
    /\ pc \in {"telemetry", "clear", "save"} => newDev \notin owned
    /\ pc \in {"unknown", "telemetry", "clear", "save"} => disk.dev \notin Registered
    /\ pc = "save" => queue = << >>

\* The first item of a flush is young enough for its receipt to exist;
\* the items after it have never been sent.
FlushWindow ==
    /\ pc \in Flushing /\ first =>
         /\ now <= pushedAt + FlushTime
         /\ \A i \in 1 .. Len(queue) : queue[i].at + QueueRetention >= pushedAt
    /\ pc \in {"peek", "wait"} /\ ~first =>
         \A i \in 1 .. Len(queue) :
            /\ disk.dev \in Registered => lastSeq[disk.dev] < queue[i].seq
            /\ \A r \in late : r.ev.dev = disk.dev => r.ev.seq < queue[i].seq

Known == Queued \cup applied \cup {r.ev : r \in late}

\* An event id stands for one event; a receipt for a stored one.
History ==
    /\ \A e \in Known : e.id < issued
    /\ \A e, f \in Known : e.id = f.id => e = f
    /\ pc = "push" => item.id < issued /\ \A e \in Known : e.id # item.id
    /\ \A r \in receipts : \E f \in applied : f.dev = r.dev /\ f.id = r.id
    /\ \A f \in applied :
         f.dev \in owned /\ (f.dev \in Registered => f.seq <= lastSeq[f.dev])
    /\ pc \in {"accepted", "duplicate"} => item \in applied

(***************************************************************************)
(* The inductive invariant behind QueueShape, RetryIsNotReplay,            *)
(* StoredInOrder and NoSilentLoss: how far the file, the memory, the       *)
(* queue, the stray requests and the server's tables can be apart, at      *)
(* every step of enqueue, Flush and reEnrollIfCurrent.                     *)
(***************************************************************************)
IInv ==
    /\ TypeOK /\ Identity /\ QueueShape /\ InHand /\ LateBehind
    /\ ServerBehind /\ FreshDevices /\ FlushWindow /\ History
    /\ RetryIsNotReplay

\* What the server finds for the request r: an event that has expired, a
\* device it does not know, an event still queued and not yet stored, or a
\* receipt that outlives the request.
Answerable(r) ==
    \/ r.ev \in expired
    \/ r.ev.dev \notin Registered
    \/ r.ev \in Queued /\ lastSeq[r.ev.dev] < r.ev.seq
    \/ \E m \in receipts : /\ m.dev = r.ev.dev /\ m.id = r.ev.id
                           /\ m.at + ReceiptRetention >= r.since + RequestLife

\* A request that was given up is young, and answerable when it arrives.
StrayAnswerable ==
    \A r \in late : /\ r.since <= now /\ now <= r.since + RequestLife
                    /\ Answerable(r)

(***************************************************************************)
(* The inductive invariant behind FalseAlarmOnlyIfExpired and the          *)
(* refinement of EventLog: what a stray request can do when it arrives.    *)
(***************************************************************************)
LogInv == IInv /\ StrayAnswerable /\ FalseAlarmOnlyIfExpired
=============================================================================

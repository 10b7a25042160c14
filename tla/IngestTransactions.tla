-------------------------- MODULE IngestTransactions --------------------------
(***************************************************************************)
(* The signed endpoints of the server as concurrent database transactions  *)
(* (server/app/main.py: verified and the endpoint behind it; db.py), for   *)
(* one device.  SignedDelivery takes a request for one step; here a        *)
(* request is a session of several statements that runs beside others of   *)
(* the same device: the agent sends one report at a time, but a request    *)
(* whose client timed out goes on, and its retries are handled next to it. *)
(*                                                                         *)
(* SELECT ... FOR UPDATE locks the device row until the transaction ends   *)
(* and reads the row as last committed (PostgreSQL and CockroachDB at READ *)
(* COMMITTED).  SQLite, the default database, has no row locks: there only *)
(* the insert of the receipt waits, for whoever else is writing.           *)
(* Receipts do not age here (SignedDelivery has the purge).                *)
(***************************************************************************)
EXTENDS Integers, FiniteSets, Sequences, SequencesExt

CONSTANTS
    Request,   \* requests the server can work on at the same time
    NoRequest, NoEvent,
    Kind,      \* "good", or "invalid" for the endpoint's own checks
    Locking,   \* the kinds of database: with row locks, without, or both
    MaxEvents, MaxExpired   \* bounds of the model

ASSUME IngestAssumption ==
    /\ NoRequest \notin Request /\ Kind \subseteq {"good", "invalid"}
    /\ Locking \subseteq BOOLEAN /\ MaxEvents \in Nat /\ MaxExpired \in Nat

VARIABLES
    locks,     \* does the database have row locks?
    queue,     \* the agent's queue.json
    waiting,   \* the request whose answer the agent waits for
    expired,   \* history: events the queue has dropped for their age
    issued,    \* events signed so far
    req,       \* the sessions: next statement, event, last_sequence as read
    lastSeq,   \* devices.last_sequence
    receipts,  \* processed_events
    replays,   \* REPLAY_ATTEMPT events
    stored     \* history: the events whose payload was committed, in order

agentVars  == <<queue, waiting, expired, issued>>
serverVars == <<lastSeq, receipts, replays, stored>>
vars == <<locks, agentVars, req, serverVars>>

Free == [pc |-> "free", ev |-> NoEvent, view |-> 0]

Init ==
    /\ locks \in Locking
    /\ queue = << >> /\ waiting = NoRequest /\ expired = {} /\ issued = 0
    /\ req = [r \in Request |-> Free]
    /\ lastSeq = 0 /\ receipts = {} /\ replays = {} /\ stored = << >>

-----------------------------------------------------------------------------
(* The agent *)

\* Mutant: several goroutines use the queue at the same time.
IdleAlways == TRUE

\* enqueue and Flush run one after the other.
Idle == waiting = NoRequest

\* enqueue and Push: the first n items are dropped for their age, the event
\* with the next sequence goes behind the others.
Enqueue(k, n) ==
    /\ Idle /\ issued < MaxEvents /\ issued' = issued + 1
    /\ n <= Len(queue) /\ Cardinality(expired) + n <= MaxExpired
    /\ expired' = expired \cup ToSet(SubSeq(queue, 1, n))
    /\ queue' = Append(SubSeq(queue, n + 1, Len(queue)),
                       [dev |-> "device", seq |-> issued + 1, kind |-> k])
    /\ UNCHANGED <<locks, waiting, req, serverVars>>

\* Flush: Peek and send.
Send(r) ==
    /\ Idle /\ queue # << >> /\ req[r] = Free
    /\ req' = [req EXCEPT ![r] = [pc |-> "select", ev |-> Head(queue), view |-> 0]]
    /\ waiting' = r
    /\ UNCHANGED <<locks, queue, expired, issued, serverVars>>

\* A success makes the agent pop the head of its queue.
Pop ==
    /\ waiting # NoRequest /\ req[waiting].pc = "ok"
    /\ queue' = Tail(queue)
    /\ waiting' = NoRequest /\ req' = [req EXCEPT ![waiting] = Free]
    /\ UNCHANGED <<locks, expired, issued, serverVars>>

\* The agent stops waiting: after 20 seconds, on an error, or Pop fails.  The
\* server goes on with a request it has not answered.
GiveUp ==
    /\ waiting # NoRequest /\ waiting' = NoRequest
    /\ req' = [req EXCEPT ![waiting] = IF @.pc \in {"ok", "error"} THEN Free ELSE @]
    /\ UNCHANGED <<locks, queue, expired, issued, serverVars>>

-----------------------------------------------------------------------------
(* The server *)

\* Session r ends; nobody reads the answer to a request that was given up.
Answer(r, pc) ==
    /\ req' = [req EXCEPT ![r] = IF waiting = r THEN [@ EXCEPT !.pc = pc] ELSE Free]
    /\ UNCHANGED <<locks, agentVars>>

Continue(r, pc) ==
    /\ req' = [req EXCEPT ![r].pc = pc]
    /\ UNCHANGED <<locks, agentVars>>

\* Sessions that have the device row, if rows are locked.
Holders == {r \in Request : locks /\ req[r].pc \in {"verify", "insert", "write"}}

Writers == {r \in Request : req[r].pc = "write"}

\* Mutant: the SELECT does not lock.
SelectDeviceUnlocked(r) ==
    /\ req[r].pc = "select"
    /\ req' = [req EXCEPT ![r].pc = "verify", ![r].view = lastSeq]
    /\ UNCHANGED <<locks, agentVars, serverVars>>

\* select(Device) ... with_for_update()
SelectDevice(r) ==
    /\ req[r].pc = "select" /\ Holders = {}
    /\ req' = [req EXCEPT ![r].pc = "verify", ![r].view = lastSeq]
    /\ UNCHANGED <<locks, agentVars, serverVars>>

\* Mutant: receipts are left to the unique constraint.
HasReceiptUnchecked(r) == FALSE

\* db.get(ProcessedEvent, ...)
HasReceipt(r) == req[r].ev \in receipts

\* The receipt is looked up, then the sequence is compared with the row as read.
Verify(r) ==
    /\ req[r].pc = "verify"
    /\ \/ HasReceipt(r) /\ Answer(r, "ok") /\ UNCHANGED serverVars
       \/ /\ ~HasReceipt(r) /\ req[r].ev.seq <= req[r].view
          /\ Answer(r, "error")
          /\ replays' = replays \cup {req[r].ev} /\ UNCHANGED <<lastSeq, receipts, stored>>
       \/ /\ ~HasReceipt(r) /\ req[r].ev.seq > req[r].view
          /\ Continue(r, "insert") /\ UNCHANGED serverVars

\* Mutant: no unique constraint on receipts.
TakenNever(r) == FALSE

Taken(r) == req[r].ev \in receipts

\* The flush waits for a session that is writing.  If that one has committed
\* the same receipt, IntegrityError: roll back, and answer as a duplicate.
InsertReceipt(r) ==
    /\ req[r].pc = "insert" /\ Writers = {}
    /\ IF Taken(r) THEN Answer(r, "ok") ELSE Continue(r, "write")
    /\ UNCHANGED serverVars

\* The endpoint refuses the payload (422): nothing is committed.
Reject(r) ==
    /\ req[r].pc = "write" /\ req[r].ev.kind = "invalid"
    /\ Answer(r, "error")
    /\ UNCHANGED serverVars

\* Receipt, last_sequence and payload become visible together.
Commit(r) ==
    /\ req[r].pc = "write" /\ req[r].ev.kind = "good"
    /\ receipts' = receipts \cup {req[r].ev}
    /\ lastSeq' = req[r].ev.seq
    /\ stored' = Append(stored, req[r].ev)
    /\ Answer(r, "ok")
    /\ UNCHANGED replays

\* The connection, the worker or the pool fails: the session is rolled back.
SessionFails(r) ==
    /\ req[r].pc \in {"select", "verify", "insert", "write"}
    /\ Answer(r, "error")
    /\ UNCHANGED serverVars

Next ==
    \/ \E k \in Kind, n \in 0 .. MaxExpired : Enqueue(k, n)
    \/ Pop \/ GiveUp
    \/ \E r \in Request : \/ Send(r) \/ SelectDevice(r) \/ Verify(r) \/ InsertReceipt(r)
                          \/ Reject(r) \/ Commit(r) \/ SessionFails(r)

Spec == Init /\ [][Next]_vars

-----------------------------------------------------------------------------
(* Properties *)

Event == [dev : {"device"}, seq : 1 .. MaxEvents, kind : Kind]

Session == [pc : {"select", "verify", "insert", "write", "ok", "error"},
            ev : Event, view : Nat]

\* The state of the sessions; only the waiting request carries the head.
TypeOK ==
    /\ locks \in BOOLEAN /\ waiting \in Request \cup {NoRequest}
    /\ queue \in Seq(Event) /\ stored \in Seq(Event)
    /\ expired \subseteq Event /\ receipts \subseteq Event /\ replays \subseteq Event
    /\ issued \in 0 .. MaxEvents /\ lastSeq \in 0 .. issued
    /\ req \in [Request -> Session \cup {Free}]
    /\ \A r \in Request : req[r].view \in 0 .. issued
    /\ waiting # NoRequest => queue # << >> /\ req[waiting].ev = Head(queue)
                              /\ req[waiting] # Free

(***************************************************************************)
(* main.py:272-273, "A concurrent retry won the unique receipt.  Its       *)
(* domain changes are in the same transaction, so treating this request as *)
(* duplicate is safe": a report the agent has popped without giving it up  *)
(* is stored, and no report is stored twice, on either kind of database,   *)
(* however the copies of a report overlap, fail or outlive their client.   *)
(***************************************************************************)
AcknowledgedIsStoredOnce ==
    /\ \A i, j \in DOMAIN stored : stored[i] = stored[j] => i = j
    /\ \A s \in 1 .. issued :
         \E e \in ToSet(queue) \cup expired \cup ToSet(stored) : e.seq = s

(***************************************************************************)
(* An overlapping retry is never recorded as a replay, unless its report   *)
(* had expired: the row is read before the receipt, so a session that sees *)
(* the sequence of a commit also sees its receipt.                         *)
(***************************************************************************)
RetryIsNotReplay == replays \subseteq expired

(***************************************************************************)
(* main.py:252-253, "This prevents two concurrent functions from accepting *)
(* out-of-order sequence numbers": with row locks every step of the        *)
(* sessions is a step of EventLog, which stores in order.  Without them    *)
(* the unique receipts still give that, until a report expires while a     *)
(* session is working on it.                                               *)
(***************************************************************************)
Log == INSTANCE EventLog
       WITH held <- ToSet(queue), lapsed <- expired, stored <- ToSet(stored),
            last <- [d \in {"device"} |-> lastSeq]

IngestIsEventLog == [][locks \/ expired' = {} => [Log!Next]_(Log!logVars)]_vars

-----------------------------------------------------------------------------
(* The inductive invariant, in parts *)

\* The queue is in the order of its sequences, all of them issued.
Ascending ==
    /\ \A i, j \in 1 .. Len(queue) : i < j => queue[i].seq < queue[j].seq
    /\ \A i \in 1 .. Len(queue) : queue[i].seq <= issued
    /\ \A e \in receipts : e.seq <= issued

\* The event of a session is at or before the head of the queue, was not lost
\* on the way, and has a receipt or none as its statements have found out.
InHand(t) ==
    t # Free =>
      /\ t.ev.seq <= issued /\ t.ev \in receipts \cup expired \cup ToSet(queue)
      /\ \A i \in 1 .. Len(queue) : t.ev.seq < queue[i].seq \/ t.ev = queue[i]
      /\ t.pc = "ok" => t.ev \in receipts
      /\ t.pc = "write" => t.ev \notin receipts
      /\ t.pc \in {"insert", "write"} => t.view < t.ev.seq

\* One session writes at a time; with row locks one session holds the row, and
\* what it has read is still there.
OneWriter ==
    /\ \A r, q \in Writers : r = q
    /\ \A r, q \in Holders : r = q
    /\ \A r \in Holders : req[r].view = lastSeq

\* What is queued and not stored is ahead of the row, and of the row as any
\* session has read it.
Ahead ==
    \A i \in 1 .. Len(queue) :
        queue[i] \notin receipts =>
            lastSeq < queue[i].seq /\ \A r \in Request : req[r].view < queue[i].seq

\* Receipt and payload are committed together, the sequence in order unless a
\* report can expire under a session without a lock.
Committed ==
    /\ receipts = ToSet(stored)
    /\ locks \/ expired = {} => \A e \in receipts : e.seq <= lastSeq

(***************************************************************************)
(* The inductive invariant behind AcknowledgedIsStoredOnce,                *)
(* RetryIsNotReplay and IngestIsEventLog.                                  *)
(***************************************************************************)
IInv ==
    /\ TypeOK /\ Ascending /\ (\A r \in Request : InHand(req[r])) /\ OneWriter /\ Ahead
    /\ Committed /\ AcknowledgedIsStoredOnce /\ RetryIsNotReplay
===============================================================================

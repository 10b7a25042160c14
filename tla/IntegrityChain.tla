---------------------------- MODULE IntegrityChain ----------------------------
(***************************************************************************)
(* The hash chain of integrity reports: integrity.json on the device       *)
(* (internal/agent/integrity.go), the signed channel, and the server's     *)
(* check of every report against the last snapshot it keeps                *)
(* (server/app/main.py, integrity) while the cron job purges old ones.     *)
(*                                                                         *)
(* The channel delivers in order and at most once (SignedDelivery,         *)
(* StoredInOrder); a report is lost when the agent stops after it has      *)
(* saved the new chain point and before the report is queued, or when it   *)
(* expires in the queue.                                                   *)
(*                                                                         *)
(* integrity() adds other events too: for the monitor's posture, for the   *)
(* findings of the scan and for a hash that does not match its document.   *)
(* Their keys are of other kinds, no chain check reads them, and the hash  *)
(* of an agent that runs this code always matches: they are left out.      *)
(***************************************************************************)
EXTENDS Integers, Sequences

CONSTANTS
    StateId,     \* random state ids, each drawn once
    Content,     \* what a scan can find: file metadata and findings
    Retention,   \* settings.integrity_retention_days
    Meddling,    \* does somebody delete integrity.json or put a copy back?
    MaxTime, MaxScans, MaxMeddles   \* bounds of the model

ASSUME ChainAssumption ==
    /\ Retention \in Nat /\ Meddling \in BOOLEAN
    /\ MaxTime \in Nat /\ MaxScans \in Nat /\ MaxMeddles \in Nat

VARIABLES
    now,
    local,     \* integrity.json: [sid, seq, hash], or NoState
    copies,    \* copies somebody has made of integrity.json
    drawn,     \* state ids already drawn
    queue,     \* integrity reports in queue.json, oldest first
    snaps,     \* integrity_snapshots of the device, in order of created_at
    events,    \* security_events of the device: [type, key]; keys are unique
    accepted,  \* history: the accepted reports and when
    lost,      \* history: has a report been lost?
    scans, meddles

agentVars  == <<local, drawn, scans>>
serverVars == <<snaps, events, accepted>>
vars == <<now, agentVars, copies, queue, serverVars, lost, meddles>>

NoHash == << >>

\* integrity.json does not exist: no chain point has sequence 0.
NoState == [sid |-> "none", seq |-> 0, hash |-> NoHash]

(***************************************************************************)
(* SHA-256 over the canonical document: a value that is equal exactly when *)
(* state id, sequence, previous hash and content are.                      *)
(***************************************************************************)
Hash(sid, seq, prev, content) == <<sid, seq, prev, content>>

Init ==
    /\ now = 0
    /\ local = NoState /\ copies = {} /\ drawn = {}
    /\ queue = << >> /\ snaps = << >> /\ events = {}
    /\ accepted = << >> /\ lost = FALSE
    /\ scans = 0 /\ meddles = 0

-----------------------------------------------------------------------------
(* The agent *)

\* loadIntegrityState: a missing file starts a new chain.
Loaded ==
    IF local = NoState
    THEN {[sid |-> s, seq |-> 0, hash |-> NoHash] : s \in StateId \ drawn}
    ELSE {local}

\* Mutant: the sequence is sent as it was loaded.
ReportNotAdvanced(state, c) ==
    [sid |-> state.sid, seq |-> state.seq, prev |-> state.hash,
     hash |-> Hash(state.sid, state.seq, state.hash, c)]

\* The next report of a chain: every scan that finds c advances it by one.
Report(state, c) ==
    [sid |-> state.sid, seq |-> state.seq + 1, prev |-> state.hash,
     hash |-> Hash(state.sid, state.seq + 1, state.hash, c)]

\* The end of ScanIntegrity: integrity.json holds the new chain point.
ScanIntegrity(r) ==
    /\ scans < MaxScans /\ scans' = scans + 1
    /\ local' = [sid |-> r.sid, seq |-> r.seq, hash |-> r.hash]
    /\ drawn' = drawn \cup {r.sid}

\* Integrity: scan, then enqueue.
Integrity ==
    /\ \E state \in Loaded, c \in Content :
         LET r == Report(state, c)
         IN  ScanIntegrity(r) /\ queue' = Append(queue, r)
    /\ UNCHANGED <<now, copies, serverVars, lost, meddles>>

\* The chain point is saved; the agent stops, or enqueue fails, before Push.
IntegrityUnqueued ==
    /\ \E state \in Loaded, c \in Content : ScanIntegrity(Report(state, c))
    /\ lost' = TRUE
    /\ UNCHANGED <<now, copies, queue, serverVars, meddles>>

\* Queue.Push and Flush drop reports past their retention, oldest first; how
\* old the oldest report is by the device's clock is left open.
ReportExpires ==
    /\ queue # << >>
    /\ queue' = Tail(queue) /\ lost' = TRUE
    /\ UNCHANGED <<now, agentVars, copies, serverVars, meddles>>

-----------------------------------------------------------------------------
(* The server *)

\* Mutant: the query orders by created_at, ascending.
PreviousOldest == IF snaps = << >> THEN {} ELSE {snaps[1]}

\* The latest retained snapshot, as a set of at most one.
Previous == IF snaps = << >> THEN {} ELSE {snaps[Len(snaps)]}

\* Mutant: the hash link is not compared.
DiscontinuityBySequence(r) ==
    UNION {IF p.sid # r.sid       THEN {[type |-> "RESET", key |-> <<r.sid>>]}
           ELSE IF r.seq <= p.seq THEN {[type |-> "ROLLBACK", key |-> <<r.sid, r.seq>>]}
           ELSE {} : p \in Previous}

\* The event a report deserves, by the order of the tests in integrity().
Discontinuity(r) ==
    UNION {IF p.sid # r.sid       THEN {[type |-> "RESET", key |-> <<r.sid>>]}
           ELSE IF r.seq <= p.seq THEN {[type |-> "ROLLBACK", key |-> <<r.sid, r.seq>>]}
           ELSE IF r.prev # p.hash THEN {[type |-> "BROKEN", key |-> r.hash]}
           ELSE {} : p \in Previous}

(***************************************************************************)
(* integrity(), one transaction: add_security_event inserts only a key it  *)
(* does not have; the snapshot becomes the new chain point.                *)
(***************************************************************************)
Ingest ==
    /\ queue # << >>
    /\ LET r == Head(queue)
       IN  /\ events' = events \cup Discontinuity(r)
           /\ snaps' = Append(snaps, [sid |-> r.sid, seq |-> r.seq, hash |-> r.hash, at |-> now])
           /\ accepted' = Append(accepted, [rep |-> r, at |-> now])
    /\ queue' = Tail(queue)
    /\ UNCHANGED <<now, agentVars, copies, lost, meddles>>

\* purge_expired_telemetry on integrity_snapshots: the oldest go first.
Purge ==
    /\ \E n \in 1 .. Len(snaps) :
         /\ \A i \in 1 .. Len(snaps) : snaps[i].at + Retention < now <=> i <= n
         /\ snaps' = SubSeq(snaps, n + 1, Len(snaps))
    /\ UNCHANGED <<now, agentVars, copies, queue, events, accepted, lost, meddles>>

-----------------------------------------------------------------------------
(* The machine *)

\* Somebody copies integrity.json, deletes it, or puts a copy back.
Meddle ==
    /\ Meddling /\ meddles < MaxMeddles /\ meddles' = meddles + 1
    /\ \/ local # NoState /\ copies' = copies \cup {local} /\ UNCHANGED local
       \/ local # NoState /\ local' = NoState /\ UNCHANGED copies
       \/ \E c \in copies : local' = c /\ UNCHANGED copies
    /\ UNCHANGED <<now, drawn, scans, queue, serverVars, lost>>

Tick ==
    /\ now < MaxTime /\ now' = now + 1
    /\ UNCHANGED <<agentVars, copies, queue, serverVars, lost, meddles>>

Next == Integrity \/ IntegrityUnqueued \/ ReportExpires \/ Ingest \/ Purge \/ Meddle \/ Tick

Spec == Init /\ [][Next]_vars

-----------------------------------------------------------------------------
(* Properties *)

IsSequence(s) == s \in Seq({s[i] : i \in DOMAIN s})

ChainPoint(p) ==
    /\ p.sid \in drawn /\ p.seq \in 1 .. scans
    /\ p.hash[1] = p.sid /\ p.hash[2] = p.seq

(***************************************************************************)
(* Every state id in use was drawn by loadIntegrityState, the sequence     *)
(* counts the scans behind it and the hash of a chain point is the hash of *)
(* its own state id and sequence, on the device, in the queue and among    *)
(* the snapshots.                                                          *)
(***************************************************************************)
TypeOK ==
    /\ now \in 0 .. MaxTime /\ scans \in 0 .. MaxScans /\ meddles \in 0 .. MaxMeddles
    /\ drawn \subseteq StateId /\ lost \in BOOLEAN
    /\ IsSequence(queue) /\ IsSequence(snaps) /\ IsSequence(accepted)
    /\ local # NoState => ChainPoint(local)
    /\ \A c \in copies : ChainPoint(c)
    /\ \A i \in DOMAIN queue : ChainPoint(queue[i])
    /\ \A i \in DOMAIN snaps : ChainPoint(snaps[i]) /\ snaps[i].at \in 0 .. now
    /\ \A i \in DOMAIN accepted : accepted[i].at \in 0 .. now

\* r2 is the report that follows r1 in an undisturbed chain.
Continues(r1, r2) == r2.sid = r1.sid /\ r2.seq > r1.seq /\ r2.prev = r1.hash

Recorded(r) ==
    \E e \in events : \/ e = [type |-> "RESET", key |-> <<r.sid>>]
                      \/ e = [type |-> "ROLLBACK", key |-> <<r.sid, r.seq>>]
                      \/ e = [type |-> "BROKEN", key |-> r.hash]

(***************************************************************************)
(* Between two accepted reports the chain is continuous or the audit log   *)
(* says what happened, whether a report was lost in a crash, expired in    *)
(* the queue, or integrity.json was deleted or put back; at the latest     *)
(* when the first of the two reports is older than the retention, the      *)
(* server has nothing left to compare with.                                *)
(***************************************************************************)
GapIsRecorded ==
    \A i \in 1 .. Len(accepted) - 1 :
        \/ Continues(accepted[i].rep, accepted[i + 1].rep)
        \/ Recorded(accepted[i + 1].rep)
        \/ accepted[i + 1].at > accepted[i].at + Retention

(***************************************************************************)
(* A device whose integrity.json nobody touches and that has lost no       *)
(* report is never said to have been reset, rolled back or broken, though  *)
(* its chain point may be purged and its reports arrive late and in bulk.  *)
(***************************************************************************)
NoFalseGap == ~lost /\ meddles = 0 => events = {}

-----------------------------------------------------------------------------
(* The inductive invariant, in parts *)

\* The report that was accepted last is the latest snapshot, unless that was
\* purged.
LastAcceptedKept ==
    accepted # << >> =>
        LET a == accepted[Len(accepted)]
        IN  \/ /\ snaps # << >>
               /\ snaps[Len(snaps)] = [sid |-> a.rep.sid, seq |-> a.rep.seq,
                                       hash |-> a.rep.hash, at |-> a.at]
            \/ snaps = << >> /\ a.at + Retention < now

\* Undisturbed, the latest snapshot, the queued reports and integrity.json are
\* one chain.
OneChain ==
    ~lost /\ meddles = 0 =>
        /\ \A i \in 1 .. Len(queue) - 1 : Continues(queue[i], queue[i + 1])
        /\ queue # << >> /\ snaps # << >> => Continues(snaps[Len(snaps)], queue[1])
        /\ LET last == IF queue # << >> THEN queue[Len(queue)] ELSE snaps[Len(snaps)]
           IN  queue # << >> \/ snaps # << >> =>
                 local = [sid |-> last.sid, seq |-> last.seq, hash |-> last.hash]

\* The inductive invariant behind GapIsRecorded and NoFalseGap.
IInv == TypeOK /\ LastAcceptedKept /\ OneChain /\ GapIsRecorded /\ NoFalseGap
=============================================================================

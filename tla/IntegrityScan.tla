---------------------------- MODULE IntegrityScan ----------------------------
(***************************************************************************)
(* The log integrity scan of the agent (internal/agent/integrity.go,       *)
(* ScanIntegrity) beside the program that writes the logs.                 *)
(*                                                                         *)
(* Codex creates a session log under sessions/, appends to it and moves it *)
(* to archived_sessions/.  The scan walks the two directories one after    *)
(* the other, then looks at one file at a time, archived files first       *)
(* (sort.Strings), and writes integrity.json at the end; Codex goes on     *)
(* writing in between.  A hash is modelled by what is hashed.  A file is   *)
(* looked at in one step: appending between its os.Stat and its reads does *)
(* not change the prefix that is read.                                     *)
(***************************************************************************)
EXTENDS Integers, Sequences, FiniteSets

CONSTANTS
    Log,          \* session logs; a log keeps its file name when it moves
    EmptyStart,   \* may a scan see a log before its first record?
    Tampering,    \* does somebody else edit the logs?
    MaxRecords, MaxScans, MaxTampers   \* bounds of the model

ASSUME IntegrityAssumption ==
    /\ EmptyStart \in BOOLEAN /\ Tampering \in BOOLEAN
    /\ MaxRecords \in Nat /\ MaxScans \in Nat /\ MaxTampers \in Nat

Path == {"sessions", "archived_sessions"} \X Log
Active(l)   == <<"sessions", l>>
Archived(l) == <<"archived_sessions", l>>
IsArchived(p) == p[1] = "archived_sessions"

\* A record: the first names its session, "r" is a later one, "t" is forged.
Record == Log \cup {"r", "t"}

IsPrefixOf(s, t) == Len(s) <= Len(t) /\ s = SubSeq(t, 1, Len(s))

VARIABLES
    files,     \* the disk: the contents of every existing log file
    state,     \* integrity.json, Files: path -> [id, data, archived]
    scanning,  \* where the scan is: "no", "walked", "files"
    todo,      \* paths found by discoverLogs and not yet looked at
    found,     \* paths found by discoverLogs
    next,      \* checkpoints of the files looked at
    used,      \* paths of state that are accounted for
    findings,  \* what the scan has reported: [type, id]
    ids,       \* opaque ids drawn so far
    scans, tampers   \* scans and edits so far

diskVars == <<files, tampers>>
scanVars == <<state, scanning, todo, found, next, used, findings, ids, scans>>
vars == <<diskVars, scanVars>>

Empty == [p \in {} |-> p]

Init ==
    /\ files = Empty /\ state = Empty /\ next = Empty
    /\ scanning = "no" /\ todo = {} /\ found = {} /\ used = {} /\ findings = {}
    /\ ids = 0 /\ scans = 0 /\ tampers = 0

Paths == DOMAIN files
Without(f, x) == [p \in DOMAIN f \ {x} |-> f[p]]
With(f, x, y) == [p \in DOMAIN f \cup {x} |-> IF p = x THEN y ELSE f[p]]

-----------------------------------------------------------------------------
(* Codex, as the scan's comments and tests describe it: append-only logs,  *)
(* archived by a move.                                                     *)

CodexCreate(l) ==
    /\ {Active(l), Archived(l)} \cap Paths = {}
    /\ {Active(l), Archived(l)} \cap DOMAIN state = {}
    /\ \E start \in {<<l>>} \cup (IF EmptyStart THEN {<< >>} ELSE {}) :
         files' = With(files, Active(l), start)
    /\ UNCHANGED <<tampers, scanVars>>

CodexAppend(l) ==
    /\ Active(l) \in Paths /\ Len(files[Active(l)]) < MaxRecords
    /\ LET data == files[Active(l)]
       IN  files' = With(files, Active(l), Append(data, IF data = << >> THEN l ELSE "r"))
    /\ UNCHANGED <<tampers, scanVars>>

CodexArchive(l) ==
    /\ Active(l) \in Paths /\ Archived(l) \notin Paths
    /\ files[Active(l)] # << >>
    /\ files' = With(Without(files, Active(l)), Archived(l), files[Active(l)])
    /\ UNCHANGED <<tampers, scanVars>>

\* Somebody else deletes a file, or gives it other contents.
Tamper ==
    /\ Tampering /\ tampers < MaxTampers
    /\ tampers' = tampers + 1
    /\ \E p \in Paths :
         \/ files' = Without(files, p)
         \/ \E n \in 0 .. Len(files[p]) - 1 :
              files' = With(files, p, SubSeq(files[p], 1, n))
         \/ \E n \in 1 .. Len(files[p]) :
              files' = With(files, p, [files[p] EXCEPT ![n] = "t"])
    /\ UNCHANGED scanVars

-----------------------------------------------------------------------------
(* ScanIntegrity *)

\* loadIntegrityState, and discoverLogs walks sessions/ first ...
WalkSessions ==
    /\ scanning = "no" /\ scans < MaxScans
    /\ scanning' = "walked" /\ scans' = scans + 1
    /\ found' = {p \in Paths : ~IsArchived(p)}
    /\ todo' = {} /\ next' = Empty /\ used' = {} /\ findings' = {}
    /\ UNCHANGED <<diskVars, state, ids>>

\* ... and archived_sessions/ after it: a log that moves in between is seen twice.
WalkArchived ==
    /\ scanning = "walked"
    /\ found' = found \cup {p \in Paths : IsArchived(p)}
    /\ todo' = found' /\ scanning' = "files"
    /\ UNCHANGED <<diskVars, state, next, used, findings, ids, scans>>

\* sort.Strings: every archived path comes before every active one.
Due(p) == p \in todo /\ (IsArchived(p) \/ \A q \in todo : ~IsArchived(q))

\* Mutant: the archived flag is not carried into the checkpoint.
CheckpointUnflagged(p, id) == [id |-> id, data |-> files[p], archived |-> FALSE]

Checkpoint(p, id) == [id |-> id, data |-> files[p], archived |-> IsArchived(p)]

\* Mutant: an archived log is compared by its size only.
ViolationsBySize(p, old) ==
    LET data == files[p]
        type == IF old.archived
                THEN IF Len(data) # Len(old.data) THEN {"ARCHIVED_LOG_MODIFIED"} ELSE {}
                ELSE IF Len(data) < Len(old.data) THEN {"LOG_TRUNCATED"}
                ELSE IF ~IsPrefixOf(old.data, data) THEN {"LOG_PREFIX_MODIFIED"} ELSE {}
    IN  {[type |-> t, id |-> old.id] : t \in type}

\* What is wrong with the file at p, given its checkpoint of the last scan.
Violations(p, old) ==
    LET data == files[p]
        type == IF old.archived
                THEN IF data # old.data THEN {"ARCHIVED_LOG_MODIFIED"} ELSE {}
                ELSE IF Len(data) < Len(old.data) THEN {"LOG_TRUNCATED"}
                ELSE IF ~IsPrefixOf(old.data, data) THEN {"LOG_PREFIX_MODIFIED"} ELSE {}
    IN  {[type |-> t, id |-> old.id] : t \in type}

Look(p) ==
    /\ scanning = "files" /\ Due(p) /\ p \in Paths
    /\ todo' = todo \ {p}
    /\ UNCHANGED <<diskVars, state, scanning, found, scans>>

\* A path of the last scan: append-only if active, immutable if archived.
CheckKnown(p) ==
    /\ Look(p) /\ p \in DOMAIN state
    /\ used' = used \cup {p}
    /\ next' = With(next, p, Checkpoint(p, state[p].id))
    /\ findings' = findings \cup Violations(p, state[p])
    /\ UNCHANGED ids

\* Mutant: only a log that has not grown since the last scan is recognised.
MoveSourcesUngrown(p) ==
    {q \in DOMAIN state : /\ q \notin used /\ ~state[q].archived
                          /\ state[q].data = files[p]}

\* The active checkpoints that a newly archived file could continue.
MoveSources(p) ==
    {q \in DOMAIN state : /\ q \notin used /\ ~state[q].archived
                          /\ IsPrefixOf(state[q].data, files[p])}

\* A new archived file takes the id of the first match in map order: any.
CheckMoved(p) ==
    /\ Look(p) /\ p \notin DOMAIN state /\ IsArchived(p)
    /\ \E q \in MoveSources(p) :
         /\ used' = used \cup {q}
         /\ next' = With(next, p, Checkpoint(p, state[q].id))
    /\ UNCHANGED <<findings, ids>>

\* Any other new file gets an id of its own.
CheckNew(p) ==
    /\ Look(p) /\ p \notin DOMAIN state
    /\ IsArchived(p) => MoveSources(p) = {}
    /\ next' = With(next, p, Checkpoint(p, ids))
    /\ ids' = ids + 1
    /\ UNCHANGED <<used, findings>>

\* Nothing of a scan that ends with an error is kept.
Abort ==
    /\ scanning' = "no" /\ found' = {} /\ todo' = {} /\ next' = Empty
    /\ used' = {} /\ findings' = {}
    /\ UNCHANGED <<diskVars, state, ids, scans>>

\* Mutant: a file that has gone is skipped.
FileGoneSkipped ==
    /\ scanning = "files"
    /\ \E p \in todo : Due(p) /\ p \notin Paths /\ todo' = todo \ {p}
    /\ UNCHANGED <<diskVars, state, scanning, found, next, used, findings, ids, scans>>

\* os.Stat fails: the file has gone since discoverLogs.
FileGone ==
    /\ scanning = "files"
    /\ \E p \in todo : Due(p) /\ p \notin Paths
    /\ Abort

Deleted == {[type |-> "LOG_DELETED", id |-> state[q].id] :
               q \in {q \in DOMAIN state : q \notin used /\ q \notin found}}

\* What is not accounted for is deleted; then integrity.json is written.
Finish ==
    /\ scanning = "files" /\ todo = {}
    /\ findings' = findings \cup Deleted
    /\ state' = next
    /\ scanning' = "no" /\ found' = {} /\ next' = Empty /\ used' = {}
    /\ UNCHANGED <<diskVars, todo, ids, scans>>

SaveFails == scanning = "files" /\ todo = {} /\ Abort

Codex == \E l \in Log : CodexCreate(l) \/ CodexAppend(l) \/ CodexArchive(l)

Scan == \/ WalkSessions \/ WalkArchived
        \/ \E p \in todo : CheckKnown(p) \/ CheckMoved(p) \/ CheckNew(p)
        \/ FileGone \/ Finish \/ SaveFails

Next == Codex \/ Tamper \/ Scan

Spec == Init /\ [][Next]_vars

-----------------------------------------------------------------------------
(* Properties *)

CheckpointFile == [id : Nat, data : Seq(Record), archived : BOOLEAN]
FindingTypes == {"ARCHIVED_LOG_MODIFIED", "LOG_TRUNCATED", "LOG_PREFIX_MODIFIED", "LOG_DELETED"}

(***************************************************************************)
(* Type invariant: the disk and the scan's maps; a checkpoint is filed     *)
(* under archived_sessions/ exactly when it says it is archived.           *)
(***************************************************************************)
TypeOK ==
    /\ Paths \subseteq Path /\ \A p \in Paths : files[p] \in Seq(Record)
    /\ \A m \in {state, next} : DOMAIN m \subseteq Path /\
         \A p \in DOMAIN m : m[p] \in CheckpointFile /\ (m[p].archived <=> IsArchived(p))
    /\ scanning \in {"no", "walked", "files"}
    /\ found \subseteq Path /\ todo \subseteq found /\ used \subseteq DOMAIN state
    /\ findings \subseteq [type : FindingTypes, id : Nat]
    /\ ids \in Nat /\ scans \in Nat /\ tampers \in Nat

(***************************************************************************)
(* A program that only appends to its logs and archives them is never      *)
(* accused, however its writes and moves fall between the steps of a scan  *)
(* (a log may move between the two walks, or after it was found).          *)
(***************************************************************************)
HonestNeverAccused == tampers = 0 => findings = {}

\* The ids that the checkpoints of m give to log l.
IdOf(m, l) == {m[p].id : p \in {Active(l), Archived(l)} \cap DOMAIN m}

(***************************************************************************)
(* README.md:163, "A valid move keeps its opaque ID": while nobody edits   *)
(* or deletes logs, no scan forgets a log, a log has one id, wherever it   *)
(* lies, and no two logs share one.                                        *)
(***************************************************************************)
MoveKeepsId ==
    [][\A l \in Log : tampers = 0 /\ IdOf(state, l) # {} =>
          /\ IdOf(state', l) = IdOf(state, l)
          /\ \A k \in Log \ {l} : IdOf(state', k) \cap IdOf(state', l) = {}]_vars

(***************************************************************************)
(* A clean scan accounts for everything the one before it had seen: when   *)
(* integrity.json is replaced and nothing is reported, every record known  *)
(* before is still on disk, at the front of some log, whatever was edited, *)
(* truncated, deleted or moved and when.                                   *)
(***************************************************************************)
CleanScanAccountsForAll ==
    [][state' # state /\ findings' = {} =>
          \A q \in DOMAIN state : \E p \in DOMAIN state' :
             IsPrefixOf(state[q].data, state'[p].data)]_vars

-----------------------------------------------------------------------------
(* The inductive invariant, in parts *)

LogOf(p) == p[2]

\* A scan begins with nothing, and has a checkpoint of exactly the files it
\* has looked at; a known path among them is accounted for.
ScanInStep ==
    /\ scanning # "files" => todo = {} /\ next = Empty /\ used = {}
    /\ scanning = "walked" => \A p \in found : ~IsArchived(p)
    /\ scanning = "files" =>
         DOMAIN next = found \ todo /\ DOMAIN next \cap DOMAIN state \subseteq used

\* As long as nothing is reported, what is accounted for is at the front of
\* a log that the scan has looked at.
Accounted ==
    findings = {} =>
        \A q \in used : \E p \in DOMAIN next : IsPrefixOf(state[q].data, next[p].data)

\* Unedited, a log has one file, which begins with the log's first record.
OwnFiles ==
    /\ \A p, q \in Paths : LogOf(p) = LogOf(q) => p = q
    /\ \A p \in Paths : files[p] # << >> /\ files[p][1] = LogOf(p)

\* What a checkpoint of p has recorded is still at the front of the log.
Backed(m) ==
    \A p \in DOMAIN m :
        /\ m[p].data # << >>
        /\ \E w \in Paths : /\ LogOf(w) = LogOf(p) /\ IsPrefixOf(m[p].data, files[w])
                            /\ IsArchived(p) => w = p /\ m[p].data = files[p]

\* integrity.json has one path of a log; an archived log that was found stays
\* where it is, and its active path is not looked at.
OnePath ==
    /\ \A p, q \in DOMAIN state : LogOf(p) = LogOf(q) => p = q
    /\ scanning = "files" =>
         \A p \in found : IsArchived(p) =>
             p \in Paths /\ \A q \in DOMAIN next : LogOf(p) = LogOf(q) => p = q

\* No log that integrity.json knows slips through between the two walks.
NoneMissed ==
    \A q \in DOMAIN state :
        /\ scanning = "walked" =>
             q \in found \/ \E w \in Paths : IsArchived(w) /\ LogOf(w) = LogOf(q)
        /\ scanning = "files" =>
             \E w \in found : LogOf(w) = LogOf(q) /\ (w = q \/ IsArchived(w))

\* A known log is accounted for when the scan has looked at it, not before.
UsedWhenSeen ==
    \A q \in DOMAIN state :
        q \in used <=> \E w \in DOMAIN next : LogOf(w) = LogOf(q)

\* One id for every log, over both maps.
OneId ==
    /\ \A m \in {state, next} : \A p \in DOMAIN m : m[p].id < ids
    /\ \A m, n \in {state, next} : \A p \in DOMAIN m, q \in DOMAIN n :
         m[p].id = n[q].id <=> LogOf(p) = LogOf(q)

\* What holds while only Codex has written to the logs.
Undisturbed ==
    /\ OwnFiles /\ Backed(state) /\ Backed(next)
    /\ OnePath /\ NoneMissed /\ UsedWhenSeen /\ OneId /\ findings = {}

\* The inductive invariant behind HonestNeverAccused, MoveKeepsId and
\* CleanScanAccountsForAll.
IInv == TypeOK /\ ScanInStep /\ Accounted /\ (tampers = 0 => Undisturbed)
=============================================================================

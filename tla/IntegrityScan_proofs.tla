------------------------- MODULE IntegrityScan_proofs -------------------------
(***************************************************************************)
(* Proofs about IntegrityScan, for any logs and any number of records,     *)
(* scans and edits: a clean scan accounts for every record known before,   *)
(* and a program that only appends and archives is never accused and keeps *)
(* the id of every log.                                                    *)
(***************************************************************************)
EXTENDS IntegrityScan, SequenceTheorems, TLAPS

-----------------------------------------------------------------------------
(* Contents: a hash over a prefix of a file *)

LEMMA Contents ==
    ASSUME NEW s \in Seq(Record)
    PROVE  /\ Len(s) \in Nat /\ (s = << >> <=> Len(s) = 0)
           /\ \A i \in 1 .. Len(s) : s[i] \in Record
  BY LenProperties, EmptySeq, ElementOfSeq

LEMMA Front ==
    ASSUME NEW s \in Seq(Record), NEW n \in Nat, n <= Len(s)
    PROVE  /\ SubSeq(s, 1, n) \in Seq(Record) /\ Len(SubSeq(s, 1, n)) = n
           /\ \A i \in 1 .. n : SubSeq(s, 1, n)[i] = s[i]
<1>1. Len(s) \in Nat /\ \A i \in 1 .. n : s[i] \in Record
  BY Contents
<1> QED
  BY <1>1, SubSeqProperties

\* A prefix, record by record.
LEMMA Prefix ==
    ASSUME NEW s \in Seq(Record), NEW t \in Seq(Record)
    PROVE  IsPrefixOf(s, t) <=> /\ Len(s) <= Len(t)
                                /\ \A i \in 1 .. Len(s) : s[i] = t[i]
<1>1. Len(s) \in Nat
  BY Contents
<1>2. ASSUME Len(s) <= Len(t)
      PROVE  s = SubSeq(t, 1, Len(s)) <=> \A i \in 1 .. Len(s) : s[i] = t[i]
  <2> DEFINE f == SubSeq(t, 1, Len(s))
  <2>1. /\ f \in Seq(Record) /\ Len(f) = Len(s)
        /\ \A i \in 1 .. Len(s) : f[i] = t[i]
    BY <1>1, <1>2, Front
  <2> HIDE DEF f
  <2>2. (\A i \in 1 .. Len(s) : s[i] = f[i]) => s = f
    BY <2>1, SeqEqual
  <2>3. s = f <=> \A i \in 1 .. Len(s) : s[i] = t[i]
    BY <2>1, <2>2
  <2> QED
    BY <2>3 DEF f
<1> QED
  BY <1>2 DEF IsPrefixOf

LEMMA PrefixOfItself == ASSUME NEW s \in Seq(Record) PROVE IsPrefixOf(s, s)
  BY Prefix, Contents

\* What was a prefix of a log still is when the log has grown.
LEMMA PrefixOfLonger ==
    ASSUME NEW s \in Seq(Record), NEW t \in Seq(Record), IsPrefixOf(s, t), NEW x \in Record
    PROVE  IsPrefixOf(s, Append(t, x))
<1>1. Len(s) \in Nat /\ Len(t) \in Nat /\ Len(s) <= Len(t) /\ \A i \in 1 .. Len(s) : s[i] = t[i]
  BY Contents, Prefix
<1> DEFINE u == Append(t, x)
<1>2. u \in Seq(Record) /\ Len(u) = Len(t) + 1 /\ \A i \in 1 .. Len(t) : u[i] = t[i]
  BY AppendProperties
<1> HIDE DEF u
<1>3. Len(s) <= Len(u) /\ \A i \in 1 .. Len(s) : s[i] = u[i]
  BY <1>1, <1>2
<1> QED
  BY <1>2, <1>3, Prefix DEF u

\* A log is known by its first record.
LEMMA PrefixFirst ==
    ASSUME NEW s \in Seq(Record), NEW t \in Seq(Record), IsPrefixOf(s, t), s # << >>
    PROVE  t # << >> /\ t[1] = s[1]
<1>1. Len(s) \in Nat /\ Len(t) \in Nat /\ Len(s) # 0 /\ (t = << >> <=> Len(t) = 0)
  BY Contents
<1>2. Len(s) <= Len(t) /\ \A i \in 1 .. Len(s) : s[i] = t[i]
  BY Prefix
<1>3. 1 \in 1 .. Len(s) /\ Len(t) # 0
  BY <1>1, <1>2
<1> QED
  BY <1>1, <1>2, <1>3

\* A record is appended to a log that has its first one.
LEMMA Grown ==
    ASSUME NEW t \in Seq(Record), t # << >>, NEW x \in Record
    PROVE  Append(t, x) \in Seq(Record) /\ Append(t, x) # << >> /\ Append(t, x)[1] = t[1]
<1>1. IsPrefixOf(t, Append(t, x))
  BY PrefixOfItself, PrefixOfLonger
<1>2. Append(t, x) \in Seq(Record)
  BY AppendProperties
<1> HIDE DEF IsPrefixOf
<1> QED
  BY <1>1, <1>2, PrefixFirst

LEMMA Forged ==
    ASSUME NEW t \in Seq(Record), NEW n \in 1 .. Len(t)
    PROVE  [t EXCEPT ![n] = "t"] \in Seq(Record)
<1>1. Len(t) \in Nat /\ t \in [1 .. Len(t) -> Record]
  BY LenProperties
<1>2. [t EXCEPT ![n] = "t"] \in [1 .. Len(t) -> Record]
  BY <1>1 DEF Record
<1> QED
  BY <1>1, <1>2, SeqDef

-----------------------------------------------------------------------------
(* Paths and maps *)

LEMMA PathParts ==
    ASSUME NEW p \in Path
    PROVE  /\ LogOf(p) \in Log
           /\ IsArchived(p) => p = Archived(LogOf(p))
           /\ ~IsArchived(p) => p = Active(LogOf(p))
  BY DEF Path, LogOf, IsArchived, Archived, Active

LEMMA PathOf ==
    ASSUME NEW l \in Log
    PROVE  /\ Active(l) \in Path /\ ~IsArchived(Active(l)) /\ LogOf(Active(l)) = l
           /\ Archived(l) \in Path /\ IsArchived(Archived(l)) /\ LogOf(Archived(l)) = l
  BY DEF Path, LogOf, IsArchived, Archived, Active

-----------------------------------------------------------------------------
(* Types *)

LogFiles(f) == DOMAIN f \subseteq Path /\ \A p \in DOMAIN f : f[p] \in Seq(Record)

Checkpoints(m) ==
    /\ DOMAIN m \subseteq Path
    /\ \A p \in DOMAIN m : m[p] \in CheckpointFile /\ (m[p].archived <=> IsArchived(p))

LEMMA TypeParts ==
    TypeOK <=> /\ LogFiles(files) /\ Checkpoints(state) /\ Checkpoints(next)
               /\ scanning \in {"no", "walked", "files"}
               /\ found \subseteq Path /\ todo \subseteq found /\ used \subseteq DOMAIN state
               /\ findings \subseteq [type : FindingTypes, id : Nat]
               /\ ids \in Nat /\ scans \in Nat /\ tampers \in Nat
  BY DEF TypeOK, LogFiles, Checkpoints, Paths

LEMMA FilesWith ==
    ASSUME NEW f, LogFiles(f), NEW x \in Path, NEW y \in Seq(Record)
    PROVE  LogFiles(With(f, x, y))
<1> DEFINE g == With(f, x, y)
<1>1. DOMAIN g = DOMAIN f \cup {x} /\ g[x] = y /\ \A p \in DOMAIN f : p # x => g[p] = f[p]
  BY DEF With
<1> HIDE DEF g
<1>2. LogFiles(g)
  BY <1>1 DEF LogFiles
<1> QED
  BY <1>2 DEF g

LEMMA FilesWithout == ASSUME NEW f, LogFiles(f), NEW x PROVE LogFiles(Without(f, x))
<1> DEFINE g == Without(f, x)
<1>1. DOMAIN g = DOMAIN f \ {x} /\ \A p \in DOMAIN f : p # x => g[p] = f[p]
  BY DEF Without
<1> HIDE DEF g
<1>2. LogFiles(g)
  BY <1>1 DEF LogFiles
<1> QED
  BY <1>2 DEF g

\* Codex writes whole records, and moves a file as it is.
LEMMA CodexTypes == ASSUME LogFiles(files), Codex PROVE LogFiles(files')
<1>1. PICK l \in Log : CodexCreate(l) \/ CodexAppend(l) \/ CodexArchive(l)
  BY DEF Codex
<1>2. CASE CodexCreate(l)
  <2>1. PICK start \in {<<l>>, << >>} : files' = With(files, Active(l), start)
    BY <1>2 DEF CodexCreate
  <2>2. start \in Seq(Record)
    <3>1. l \in Record
      BY DEF Record
    <3>2. <<l>> \in Seq(Record) /\ << >> \in Seq(Record)
      BY <3>1
    <3> QED
      BY <3>2
  <2> QED
    BY <2>1, <2>2, FilesWith, PathOf
<1>3. CASE CodexAppend(l)
  <2> DEFINE data == files[Active(l)]
             x == IF data = << >> THEN l ELSE "r"
  <2>1. files' = With(files, Active(l), Append(data, x)) /\ data \in Seq(Record)
    BY <1>3 DEF CodexAppend, LogFiles, Paths
  <2>2. x \in Record
    BY DEF Record
  <2>3. Append(data, x) \in Seq(Record)
    BY <2>1, <2>2, AppendProperties
  <2> QED
    BY <2>1, <2>3, FilesWith, PathOf
<1>4. CASE CodexArchive(l)
  <2>1. /\ files' = With(Without(files, Active(l)), Archived(l), files[Active(l)])
        /\ files[Active(l)] \in Seq(Record)
    BY <1>4 DEF CodexArchive, LogFiles, Paths
  <2> QED
    BY <2>1, FilesWith, FilesWithout, PathOf
<1> QED
  BY <1>1, <1>2, <1>3, <1>4

\* An edit leaves records, if any.
LEMMA TamperTypes == ASSUME LogFiles(files), Tamper PROVE LogFiles(files')
<1>1. PICK p \in Paths :
         \/ files' = Without(files, p)
         \/ \E n \in 0 .. Len(files[p]) - 1 : files' = With(files, p, SubSeq(files[p], 1, n))
         \/ \E n \in 1 .. Len(files[p]) : files' = With(files, p, [files[p] EXCEPT ![n] = "t"])
  BY DEF Tamper
<1>2. p \in Path /\ files[p] \in Seq(Record) /\ Len(files[p]) \in Nat
  BY Contents DEF LogFiles, Paths
<1>3. ASSUME NEW n \in 0 .. Len(files[p]) - 1, files' = With(files, p, SubSeq(files[p], 1, n))
      PROVE  LogFiles(files')
  <2>1. n \in Nat /\ n <= Len(files[p])
    BY <1>2
  <2> QED
    BY <1>2, <1>3, <2>1, Front, FilesWith
<1>4. ASSUME NEW n \in 1 .. Len(files[p]), files' = With(files, p, [files[p] EXCEPT ![n] = "t"])
      PROVE  LogFiles(files')
  BY <1>2, <1>4, Forged, FilesWith
<1> QED
  BY <1>1, <1>3, <1>4, FilesWithout

\* What is known of the file that is looked at.
LEMMA Looked ==
    ASSUME TypeOK, NEW p, Look(p)
    PROVE  /\ p \in Path /\ p \in Paths /\ p \in todo /\ p \in found /\ files[p] \in Seq(Record)
           /\ todo' = todo \ {p} /\ scanning = "files"
           /\ UNCHANGED <<files, tampers, state, scanning, found, scans>>
           /\ \A id \in Nat : /\ Checkpoint(p, id) \in CheckpointFile
                              /\ Checkpoint(p, id).archived <=> IsArchived(p)
                              /\ Checkpoint(p, id).data = files[p] /\ Checkpoint(p, id).id = id
<1>1. /\ p \in Paths /\ p \in todo /\ todo' = todo \ {p} /\ scanning = "files"
      /\ UNCHANGED <<files, tampers, state, scanning, found, scans>>
  BY DEF Look, Due, diskVars
<1>2. p \in Path /\ p \in found /\ files[p] \in Seq(Record)
  BY <1>1 DEF TypeOK
<1>3. IsArchived(p) \in BOOLEAN
  BY DEF IsArchived
<1> QED
  BY <1>1, <1>2, <1>3 DEF Checkpoint, CheckpointFile

LEMMA NextWith ==
    ASSUME TypeOK, NEW p, Look(p), NEW id \in Nat, next' = With(next, p, Checkpoint(p, id))
    PROVE  Checkpoints(next')
<1> DEFINE c == Checkpoint(p, id)
<1>1. Checkpoints(next)
  BY TypeParts
<1>2. p \in Path /\ c \in CheckpointFile /\ (c.archived <=> IsArchived(p))
  BY Looked
<1> HIDE DEF c
<1>3. /\ DOMAIN next' = DOMAIN next \cup {p} /\ next'[p] = c
      /\ \A q \in DOMAIN next : q # p => next'[q] = next[q]
  BY DEF c, With
<1> QED
  BY <1>1, <1>2, <1>3 DEF Checkpoints

LEMMA TypeStep == ASSUME TypeOK, [Next]_vars PROVE TypeOK'
<1>1. /\ LogFiles(files) /\ Checkpoints(state) /\ Checkpoints(next)
      /\ found \subseteq Path /\ todo \subseteq found /\ used \subseteq DOMAIN state
      /\ findings \subseteq [type : FindingTypes, id : Nat]
      /\ ids \in Nat /\ scans \in Nat /\ tampers \in Nat
  BY TypeParts
<1> DEFINE T == /\ LogFiles(files) /\ Checkpoints(state) /\ Checkpoints(next)
                /\ scanning \in {"no", "walked", "files"}
                /\ found \subseteq Path /\ todo \subseteq found /\ used \subseteq DOMAIN state
                /\ findings \subseteq [type : FindingTypes, id : Nat]
                /\ ids \in Nat /\ scans \in Nat /\ tampers \in Nat
<1>2. SUFFICES T'
  BY TypeParts, PTL
<1>3. Checkpoints(Empty) /\ DOMAIN Empty = {}
  BY DEF Checkpoints, Empty
<1>4. CASE Codex
  <2>1. LogFiles(files') /\ UNCHANGED <<tampers, scanVars>>
    BY <1>1, <1>4, CodexTypes DEF Codex, CodexCreate, CodexAppend, CodexArchive
  <2> QED
    BY <2>1, TypeParts DEF scanVars
<1>5. CASE Tamper
  <2>1. LogFiles(files') /\ tampers' = tampers + 1 /\ UNCHANGED scanVars
    BY <1>1, <1>5, TamperTypes DEF Tamper
  <2> QED
    BY <2>1, TypeParts DEF scanVars
<1>6. CASE WalkSessions
  BY <1>1, <1>3, <1>6 DEF WalkSessions, diskVars, Paths, LogFiles
<1>7. CASE WalkArchived
  BY <1>1, <1>7 DEF WalkArchived, diskVars, Paths, LogFiles
<1>8. ASSUME NEW p \in todo, CheckKnown(p) PROVE T'
  <2>1. Look(p) /\ p \in DOMAIN state /\ state[p].id \in Nat
    BY <1>1, <1>8 DEF CheckKnown, Checkpoints, CheckpointFile
  <2>2. Checkpoints(next')
    BY <1>8, <2>1, NextWith DEF CheckKnown
  <2>3. /\ todo' = todo \ {p} /\ scanning = "files"
        /\ UNCHANGED <<files, tampers, state, scanning, found, scans>>
    BY <2>1, Looked
  <2>4. used' = used \cup {p} /\ ids' = ids
        /\ findings' = findings \cup Violations(p, state[p])
    BY <1>8 DEF CheckKnown
  <2>5. Violations(p, state[p]) \subseteq [type : FindingTypes, id : Nat]
    BY <2>1 DEF Violations, FindingTypes
  <2> QED
    BY <1>1, <2>1, <2>2, <2>3, <2>4, <2>5
<1>9. ASSUME NEW p \in todo, CheckMoved(p) PROVE T'
  <2>1. PICK q \in MoveSources(p) : /\ used' = used \cup {q}
                                   /\ next' = With(next, p, Checkpoint(p, state[q].id))
    BY <1>9 DEF CheckMoved
  <2>2. Look(p) /\ q \in DOMAIN state /\ state[q].id \in Nat /\ UNCHANGED <<findings, ids>>
    BY <1>1, <1>9, <2>1 DEF CheckMoved, MoveSources, Checkpoints, CheckpointFile
  <2>3. Checkpoints(next')
    BY <2>1, <2>2, NextWith
  <2>4. /\ todo' = todo \ {p} /\ scanning = "files"
        /\ UNCHANGED <<files, tampers, state, scanning, found, scans>>
    BY <2>2, Looked
  <2> QED
    BY <1>1, <2>1, <2>2, <2>3, <2>4
<1>10. ASSUME NEW p \in todo, CheckNew(p) PROVE T'
  <2>1. Look(p) /\ UNCHANGED <<used, findings>> /\ ids' = ids + 1
    BY <1>10 DEF CheckNew
  <2>2. Checkpoints(next')
    BY <1>1, <1>10, <2>1, NextWith DEF CheckNew
  <2>3. /\ todo' = todo \ {p} /\ scanning = "files"
        /\ UNCHANGED <<files, tampers, state, scanning, found, scans>>
    BY <2>1, Looked
  <2> QED
    BY <1>1, <2>1, <2>2, <2>3
<1>11. CASE FileGone \/ SaveFails
  <2>1. Abort
    BY <1>11 DEF FileGone, SaveFails
  <2> QED
    BY <1>1, <1>3, <2>1 DEF Abort, diskVars
<1>12. CASE Finish
  <2>1. Deleted \subseteq [type : FindingTypes, id : Nat]
    BY <1>1 DEF Deleted, FindingTypes, Checkpoints, CheckpointFile
  <2> QED
    BY <1>1, <1>3, <1>12, <2>1 DEF Finish, diskVars
<1>13. CASE UNCHANGED vars
  BY <1>13, TypeParts DEF vars, diskVars, scanVars
<1> QED
  BY <1>4, <1>5, <1>6, <1>7, <1>8, <1>9, <1>10, <1>11, <1>12, <1>13 DEF Next, Scan

-----------------------------------------------------------------------------
(* What a scan accounts for, whoever has edited what *)

\* A file that is looked at gets the one checkpoint it did not have.
LEMMA Filed ==
    ASSUME TypeOK, ScanInStep, NEW p, Look(p), NEW id \in Nat,
           next' = With(next, p, Checkpoint(p, id))
    PROVE  /\ p \notin DOMAIN next /\ DOMAIN next' = DOMAIN next \cup {p}
           /\ DOMAIN next' = found' \ todo'
           /\ next'[p].data = files[p] /\ next'[p].id = id
           /\ \A q \in DOMAIN next : next'[q] = next[q]
<1> DEFINE c == Checkpoint(p, id)
<1>1. /\ p \in todo /\ p \in found /\ todo' = todo \ {p} /\ scanning = "files" /\ found' = found
      /\ c.data = files[p] /\ c.id = id
  BY Looked
<1>2. DOMAIN next = found \ todo
  BY <1>1 DEF ScanInStep
<1> HIDE DEF c
<1>3. /\ DOMAIN next' = DOMAIN next \cup {p} /\ next'[p] = c
      /\ \A q \in DOMAIN next : q # p => next'[q] = next[q]
  BY DEF c, With
<1> QED
  BY <1>1, <1>2, <1>3

LEMMA CheckedId ==
    ASSUME TypeOK, NEW p \in DOMAIN state PROVE state[p].id \in Nat /\ state[p].data \in Seq(Record)
  BY TypeParts DEF Checkpoints, CheckpointFile

LEMMA InStep == ASSUME TypeOK, ScanInStep, [Next]_vars PROVE ScanInStep'
<1>1. DOMAIN Empty = {}
  BY DEF Empty
<1>2. CASE Codex \/ Tamper \/ UNCHANGED vars
  <2>1. UNCHANGED scanVars
    BY <1>2 DEF Codex, CodexCreate, CodexAppend, CodexArchive, Tamper, vars
  <2> QED
    BY <2>1 DEF ScanInStep, scanVars
<1>3. CASE WalkSessions
  BY <1>3 DEF WalkSessions, ScanInStep
<1>4. CASE WalkArchived
  <2>1. scanning' = "files" /\ todo' = found' /\ next' = Empty
    BY <1>4 DEF WalkArchived, ScanInStep
  <2> QED
    BY <1>1, <2>1 DEF ScanInStep
<1>5. ASSUME NEW p \in todo, CheckKnown(p) PROVE ScanInStep'
  <2>1. Look(p) /\ p \in DOMAIN state /\ used' = used \cup {p}
        /\ next' = With(next, p, Checkpoint(p, state[p].id))
    BY <1>5 DEF CheckKnown
  <2>2. scanning' = "files" /\ scanning = "files" /\ state' = state
    BY <2>1, Looked
  <2>3. DOMAIN next' = DOMAIN next \cup {p} /\ DOMAIN next' = found' \ todo'
    BY <2>1, Filed, CheckedId
  <2> QED
    BY <2>1, <2>2, <2>3 DEF ScanInStep
<1>6. ASSUME NEW p \in todo, CheckMoved(p) PROVE ScanInStep'
  <2>1. PICK q \in MoveSources(p) : /\ used' = used \cup {q}
                                   /\ next' = With(next, p, Checkpoint(p, state[q].id))
    BY <1>6 DEF CheckMoved
  <2>2. Look(p) /\ p \notin DOMAIN state /\ q \in DOMAIN state
    BY <1>6 DEF CheckMoved, MoveSources
  <2>3. scanning' = "files" /\ scanning = "files" /\ state' = state
    BY <2>2, Looked
  <2>4. DOMAIN next' = DOMAIN next \cup {p} /\ DOMAIN next' = found' \ todo'
    BY <2>1, <2>2, Filed, CheckedId
  <2> QED
    BY <2>1, <2>2, <2>3, <2>4 DEF ScanInStep
<1>7. ASSUME NEW p \in todo, CheckNew(p) PROVE ScanInStep'
  <2>1. Look(p) /\ p \notin DOMAIN state /\ used' = used /\ ids \in Nat
        /\ next' = With(next, p, Checkpoint(p, ids))
    BY <1>7 DEF CheckNew, TypeOK
  <2>2. scanning' = "files" /\ scanning = "files" /\ state' = state
    BY <2>1, Looked
  <2>3. DOMAIN next' = DOMAIN next \cup {p} /\ DOMAIN next' = found' \ todo'
    BY <2>1, Filed
  <2> QED
    BY <2>1, <2>2, <2>3 DEF ScanInStep
<1>8. CASE FileGone \/ SaveFails
  BY <1>8 DEF FileGone, SaveFails, Abort, ScanInStep
<1>9. CASE Finish
  BY <1>9 DEF Finish, ScanInStep
<1> QED
  BY <1>2, <1>3, <1>4, <1>5, <1>6, <1>7, <1>8, <1>9 DEF Next, Scan

\* A known file with nothing wrong begins with what was recorded of it.
LEMMA NothingWrong ==
    ASSUME NEW p, NEW old, old.data \in Seq(Record), files[p] \in Seq(Record),
           Violations(p, old) = {}
    PROVE  IsPrefixOf(old.data, files[p])
<1>1. IF old.archived THEN files[p] = old.data ELSE IsPrefixOf(old.data, files[p])
  BY DEF Violations
<1> QED
  BY <1>1, PrefixOfItself

LEMMA AccountedStep ==
    ASSUME TypeOK, ScanInStep, Accounted, [Next]_vars PROVE Accounted'
<1>1. CASE Codex \/ Tamper \/ WalkArchived \/ UNCHANGED vars
  <2>1. UNCHANGED <<state, next, used, findings>>
    BY <1>1 DEF Codex, CodexCreate, CodexAppend, CodexArchive, Tamper, WalkArchived, vars, scanVars
  <2> QED
    BY <2>1 DEF Accounted
<1>2. CASE WalkSessions \/ FileGone \/ SaveFails \/ Finish
  <2>1. used' = {}
    BY <1>2 DEF WalkSessions, FileGone, SaveFails, Abort, Finish
  <2> QED
    BY <2>1 DEF Accounted
<1>3. ASSUME NEW p \in todo, CheckKnown(p) PROVE Accounted'
  <2>1. Look(p) /\ p \in DOMAIN state /\ used' = used \cup {p}
        /\ next' = With(next, p, Checkpoint(p, state[p].id))
        /\ findings' = findings \cup Violations(p, state[p])
    BY <1>3 DEF CheckKnown
  <2>2. state' = state /\ files[p] \in Seq(Record)
    BY <2>1, Looked
  <2>3. /\ DOMAIN next' = DOMAIN next \cup {p} /\ next'[p].data = files[p]
        /\ \A q \in DOMAIN next : next'[q] = next[q]
    BY <2>1, Filed, CheckedId
  <2>4. ASSUME findings' = {} PROVE findings = {} /\ IsPrefixOf(state[p].data, files[p])
    BY <2>1, <2>2, <2>4, CheckedId, NothingWrong
  <2> QED
    BY <2>1, <2>2, <2>3, <2>4 DEF Accounted
<1>4. ASSUME NEW p \in todo, CheckMoved(p) PROVE Accounted'
  <2>1. PICK q \in MoveSources(p) : /\ used' = used \cup {q}
                                   /\ next' = With(next, p, Checkpoint(p, state[q].id))
    BY <1>4 DEF CheckMoved
  <2>2. Look(p) /\ q \in DOMAIN state /\ IsPrefixOf(state[q].data, files[p]) /\ findings' = findings
    BY <1>4 DEF CheckMoved, MoveSources
  <2>3. state' = state
    BY <2>2, Looked
  <2>4. /\ DOMAIN next' = DOMAIN next \cup {p} /\ next'[p].data = files[p]
        /\ \A w \in DOMAIN next : next'[w] = next[w]
    BY <2>1, <2>2, Filed, CheckedId
  <2> QED
    BY <2>1, <2>2, <2>3, <2>4 DEF Accounted
<1>5. ASSUME NEW p \in todo, CheckNew(p) PROVE Accounted'
  <2>1. /\ Look(p) /\ UNCHANGED <<used, findings>> /\ ids \in Nat
        /\ next' = With(next, p, Checkpoint(p, ids))
    BY <1>5 DEF CheckNew, TypeOK
  <2>2. state' = state
    BY <2>1, Looked
  <2>3. /\ DOMAIN next' = DOMAIN next \cup {p}
        /\ \A q \in DOMAIN next : next'[q] = next[q]
    BY <2>1, Filed
  <2> QED
    BY <2>1, <2>2, <2>3 DEF Accounted
<1> QED
  BY <1>1, <1>2, <1>3, <1>4, <1>5 DEF Next, Scan

-----------------------------------------------------------------------------
(* Nobody edits the logs *)

\* Codex has moved or extended the file at w to v.
Follows(w, v) ==
    /\ LogOf(v) = LogOf(w)
    /\ IsArchived(w) => v = w /\ files'[w] = files[w]
    /\ \A s \in Seq(Record) : IsPrefixOf(s, files[w]) => IsPrefixOf(s, files'[v])

LEMMA Unmoved ==
    ASSUME NEW w \in Paths', files'[w] = files[w] PROVE Follows(w, w)
  BY DEF Follows

\* Whatever Codex does to a log, it remains one file that begins as before.
LEMMA CodexKeeps ==
    ASSUME TypeOK, OwnFiles, ~EmptyStart, Codex
    PROVE  OwnFiles' /\ \A w \in Paths : \E v \in Paths' : Follows(w, v)
<1>1. PICK l \in Log : CodexCreate(l) \/ CodexAppend(l) \/ CodexArchive(l)
  BY DEF Codex
<1>2. /\ Active(l) # Archived(l) /\ LogOf(Active(l)) = l /\ LogOf(Archived(l)) = l
      /\ ~IsArchived(Active(l)) /\ IsArchived(Archived(l))
  BY PathOf
<1>3. \A p \in Paths : /\ files[p] \in Seq(Record) /\ files[p] # << >> /\ files[p][1] = LogOf(p)
                       /\ LogOf(p) = l => p \in {Active(l), Archived(l)}
  BY PathParts DEF TypeOK, OwnFiles
<1>4. \A p, q \in Paths : LogOf(p) = LogOf(q) => p = q
  BY DEF OwnFiles
<1>5. CASE CodexCreate(l)
  <2>1. files' = With(files, Active(l), <<l>>)
    BY <1>5 DEF CodexCreate
  <2>2. Active(l) \notin Paths /\ \A p \in Paths : LogOf(p) # l
    BY <1>3, <1>5 DEF CodexCreate
  <2>3. /\ Paths' = Paths \cup {Active(l)} /\ files'[Active(l)] = <<l>>
        /\ \A p \in Paths : files'[p] = files[p]
    BY <2>1, <2>2 DEF With, Paths
  <2>4. <<l>> # << >> /\ <<l>>[1] = l
    OBVIOUS
  <2>5. OwnFiles'
    BY <1>2, <1>3, <1>4, <2>2, <2>3, <2>4 DEF OwnFiles
  <2> QED
    BY <2>3, <2>5, Unmoved
<1>6. CASE CodexAppend(l)
  <2> DEFINE data == files[Active(l)]
             more == Append(data, "r")
  <2>1. Active(l) \in Paths /\ data \in Seq(Record) /\ data # << >> /\ data[1] = l
    BY <1>2, <1>3, <1>6 DEF CodexAppend
  <2>2. files' = With(files, Active(l), more)
    BY <1>6, <2>1 DEF CodexAppend
  <2>3. /\ more \in Seq(Record) /\ more # << >> /\ more[1] = l
        /\ \A s \in Seq(Record) : IsPrefixOf(s, data) => IsPrefixOf(s, more)
    BY <2>1, Grown, PrefixOfLonger DEF Record
  <2> HIDE DEF more
  <2>4. /\ Paths' = Paths /\ files'[Active(l)] = more
        /\ \A p \in Paths : p # Active(l) => files'[p] = files[p]
    BY <2>1, <2>2 DEF With, Paths
  <2>5. OwnFiles'
    BY <1>2, <1>3, <1>4, <2>3, <2>4 DEF OwnFiles
  <2>6. Follows(Active(l), Active(l))
    BY <1>2, <2>3, <2>4 DEF Follows
  <2> QED
    BY <2>1, <2>4, <2>5, <2>6, Unmoved
<1>7. CASE CodexArchive(l)
  <2> DEFINE rest == Without(files, Active(l))
  <2>1. /\ Active(l) \in Paths /\ Archived(l) \notin Paths
        /\ files' = With(rest, Archived(l), files[Active(l)])
    BY <1>7 DEF CodexArchive
  <2>2. DOMAIN rest = Paths \ {Active(l)} /\ \A p \in Paths : p # Active(l) => rest[p] = files[p]
    BY DEF Without, Paths
  <2> HIDE DEF rest
  <2>3. /\ Paths' = (Paths \ {Active(l)}) \cup {Archived(l)}
        /\ files'[Archived(l)] = files[Active(l)]
        /\ \A p \in Paths : p # Active(l) => files'[p] = files[p]
    BY <2>1, <2>2 DEF With, Paths
  <2>4. OwnFiles'
    BY <1>2, <1>3, <1>4, <2>1, <2>3 DEF OwnFiles
  <2>5. Follows(Active(l), Archived(l))
    BY <1>2, <2>3 DEF Follows
  <2> QED
    BY <2>1, <2>3, <2>4, <2>5, Unmoved
<1> QED
  BY <1>1, <1>5, <1>6, <1>7

\* So what a checkpoint says of a log stays true.
LEMMA BackedStays ==
    ASSUME NEW m, Checkpoints(m), Backed(m), \A w \in Paths : \E v \in Paths' : Follows(w, v)
    PROVE  \A p \in DOMAIN m :
             /\ m[p].data # << >>
             /\ \E w \in Paths' : /\ LogOf(w) = LogOf(p) /\ IsPrefixOf(m[p].data, files'[w])
                                  /\ IsArchived(p) => w = p /\ m[p].data = files'[p]
<1> TAKE p \in DOMAIN m
<1>1. m[p].data # << >> /\ m[p].data \in Seq(Record)
  BY DEF Backed, Checkpoints, CheckpointFile
<1>2. PICK w \in Paths : /\ LogOf(w) = LogOf(p) /\ IsPrefixOf(m[p].data, files[w])
                         /\ IsArchived(p) => w = p /\ m[p].data = files[p]
  BY DEF Backed
<1>3. PICK v \in Paths' : Follows(w, v)
  BY <1>2
<1> QED
  BY <1>1, <1>2, <1>3 DEF Follows

LEMMA CodexStep ==
    ASSUME TypeOK, Undisturbed, ~EmptyStart, Codex PROVE Undisturbed'
<1>1. UNCHANGED scanVars
  BY DEF Codex, CodexCreate, CodexAppend, CodexArchive
<1>2. OwnFiles' /\ \A w \in Paths : \E v \in Paths' : Follows(w, v)
  BY CodexKeeps DEF Undisturbed
<1>3. Backed(state)' /\ Backed(next)'
  <2>1. Checkpoints(state) /\ Checkpoints(next) /\ Backed(state) /\ Backed(next)
    BY TypeParts DEF Undisturbed
  <2>2. state' = state /\ next' = next
    BY <1>1 DEF scanVars
  <2> QED
    BY <1>2, <2>1, <2>2, BackedStays DEF Backed
<1>4. \A w \in Paths : IsArchived(w) => w \in Paths'
  BY <1>2 DEF Follows
<1>5. OnePath' /\ NoneMissed'
  BY <1>1, <1>4 DEF Undisturbed, OnePath, NoneMissed, scanVars
<1>6. UsedWhenSeen' /\ OneId' /\ findings' = {}
  BY <1>1 DEF Undisturbed, UsedWhenSeen, OneId, scanVars
<1> QED
  BY <1>2, <1>3, <1>5, <1>6 DEF Undisturbed

LEMMA WalkStep ==
    ASSUME TypeOK, ScanInStep, Undisturbed, WalkSessions \/ WalkArchived PROVE Undisturbed'
<1>1. /\ OwnFiles /\ Backed(state) /\ Backed(next) /\ OnePath /\ NoneMissed
      /\ UsedWhenSeen /\ OneId /\ findings = {}
  BY DEF Undisturbed
<1>2. UNCHANGED <<files, state, ids>> /\ next' = Empty /\ used' = {} /\ DOMAIN Empty = {}
  BY DEF WalkSessions, WalkArchived, diskVars, ScanInStep, Empty
<1>3. OwnFiles' /\ Backed(state)' /\ Backed(next)' /\ findings' = {}
  <2>1. OwnFiles' /\ Backed(state)'
    BY <1>1, <1>2 DEF OwnFiles, Backed, Paths
  <2>2. Backed(next)'
    BY <1>2 DEF Backed
  <2>3. findings' = {}
    BY <1>1 DEF WalkSessions, WalkArchived
  <2> QED
    BY <2>1, <2>2, <2>3
<1>4. UsedWhenSeen'
  BY <1>2 DEF UsedWhenSeen
<1>5. OneId'
  BY <1>1, <1>2 DEF OneId
<1>6. CASE WalkSessions
  <2>1. scanning' = "walked" /\ found' = {p \in Paths : ~IsArchived(p)}
    BY <1>6 DEF WalkSessions
  <2>2. OnePath'
    BY <1>1, <1>2, <2>1 DEF OnePath
  <2>3. ASSUME NEW q \in DOMAIN state
        PROVE  q \in found' \/ \E w \in Paths : IsArchived(w) /\ LogOf(w) = LogOf(q)
    <3>1. PICK w \in Paths : LogOf(w) = LogOf(q) /\ (IsArchived(q) => w = q)
      BY <1>1 DEF Backed
    <3>2. w \in Path /\ q \in Path
      BY <3>1, TypeParts DEF LogFiles, Checkpoints, Paths
    <3>3. CASE ~IsArchived(w)
      <4>1. w = q
        BY <3>1, <3>2, <3>3, PathParts
      <4> QED
        BY <2>1, <3>1, <3>3, <4>1
    <3> QED
      BY <3>1, <3>3
  <2>4. NoneMissed'
    BY <1>2, <2>1, <2>3 DEF NoneMissed, Paths
  <2> QED
    BY <1>3, <1>4, <1>5, <2>2, <2>4 DEF Undisturbed
<1>7. CASE WalkArchived
  <2>1. /\ scanning = "walked" /\ scanning' = "files"
        /\ found' = found \cup {p \in Paths : IsArchived(p)}
    BY <1>7 DEF WalkArchived
  <2>2. \A p \in found' : IsArchived(p) => p \in Paths
    BY <2>1 DEF ScanInStep
  <2>3. OnePath'
    BY <1>1, <1>2, <2>1, <2>2 DEF OnePath, Paths
  <2>4. NoneMissed'
    BY <1>1, <1>2, <2>1 DEF NoneMissed
  <2> QED
    BY <1>3, <1>4, <1>5, <2>3, <2>4 DEF Undisturbed
<1> QED
  BY <1>6, <1>7

\* A log is looked at once in a scan, under one of its paths.
LEMMA FirstOfLog ==
    ASSUME TypeOK, ScanInStep, Undisturbed, NEW p, Look(p), NEW n \in DOMAIN next
    PROVE  LogOf(n) # LogOf(p)
<1> SUFFICES ASSUME LogOf(n) = LogOf(p) PROVE FALSE
  OBVIOUS
<1>1. p \in Path /\ p \in Paths /\ p \in found /\ p \in todo /\ scanning = "files"
  BY Looked
<1>2. n \in Path /\ n # p
  BY <1>1, TypeParts DEF Checkpoints, ScanInStep
<1>3. PICK w \in Paths : LogOf(w) = LogOf(n) /\ (IsArchived(n) => w = n)
  BY DEF Undisturbed, Backed
<1>4. w = p
  BY <1>1, <1>3 DEF Undisturbed, OwnFiles
<1>5. ~IsArchived(n)
  BY <1>2, <1>3, <1>4
<1>6. IsArchived(p)
  BY <1>1, <1>2, <1>5, PathParts
<1> QED
  BY <1>1, <1>2, <1>6 DEF Undisturbed, OnePath

\* The file that a known log now is: its checkpoint is at the front of it.
LEMMA KnownFile ==
    ASSUME TypeOK, Undisturbed, NEW p, Look(p), NEW q \in DOMAIN state, LogOf(q) = LogOf(p)
    PROVE  /\ state[q].data # << >> /\ IsPrefixOf(state[q].data, files[p])
           /\ IsArchived(q) => q = p /\ state[q].data = files[p]
<1>1. p \in Paths
  BY Looked
<1>2. PICK w \in Paths : /\ LogOf(w) = LogOf(q) /\ IsPrefixOf(state[q].data, files[w])
                         /\ IsArchived(q) => w = q /\ state[q].data = files[q]
  BY DEF Undisturbed, Backed
<1>3. w = p
  BY <1>1, <1>2 DEF Undisturbed, OwnFiles
<1>4. state[q].data # << >>
  BY DEF Undisturbed, Backed
<1> QED
  BY <1>2, <1>3, <1>4

\* What every look at a file keeps, whatever id the file gets.
LEMMA LookKeeps ==
    ASSUME TypeOK, ScanInStep, Undisturbed, NEW p, Look(p), NEW id \in Nat,
           next' = With(next, p, Checkpoint(p, id))
    PROVE  OwnFiles' /\ Backed(state)' /\ Backed(next)' /\ OnePath' /\ NoneMissed'
<1>1. /\ p \in Paths /\ p \in found /\ files[p] \in Seq(Record) /\ scanning = "files"
      /\ UNCHANGED <<files, state, scanning, found>>
  BY Looked
<1>2. /\ DOMAIN next' = DOMAIN next \cup {p} /\ next'[p].data = files[p]
      /\ \A q \in DOMAIN next : next'[q] = next[q]
  BY Filed
<1>3. OwnFiles' /\ Backed(state)' /\ NoneMissed'
  BY <1>1 DEF Undisturbed, OwnFiles, Backed, NoneMissed, Paths
<1>4. files[p] # << >> /\ IsPrefixOf(files[p], files[p])
  BY <1>1, PrefixOfItself DEF Undisturbed, OwnFiles
<1>5. Backed(next)'
  BY <1>1, <1>2, <1>4 DEF Undisturbed, Backed, Paths
<1>6. \A x \in found : IsArchived(x) => x \in Paths /\ (LogOf(x) = LogOf(p) => x = p)
  BY <1>1 DEF Undisturbed, OwnFiles, OnePath
<1>7. OnePath'
  BY <1>1, <1>2, <1>6 DEF Undisturbed, OnePath, Paths
<1> QED
  BY <1>3, <1>5, <1>7

\* The file takes over the id of its log's checkpoint, which is used for it.
LEMMA TakesOver ==
    ASSUME TypeOK, ScanInStep, Undisturbed, NEW p, Look(p),
           NEW q \in DOMAIN state, LogOf(q) = LogOf(p), used' = used \cup {q},
           next' = With(next, p, Checkpoint(p, state[q].id)), ids' = ids
    PROVE  UsedWhenSeen' /\ OneId'
<1>1. UNCHANGED state
  BY Looked
<1>2. /\ DOMAIN next' = DOMAIN next \cup {p} /\ next'[p].id = state[q].id
      /\ \A n \in DOMAIN next : next'[n] = next[n]
  BY CheckedId, Filed
<1>3. \A x \in DOMAIN state : LogOf(x) = LogOf(q) => x = q
  BY DEF Undisturbed, OnePath
<1>4. UsedWhenSeen'
  BY <1>1, <1>2, <1>3 DEF Undisturbed, UsedWhenSeen
<1>5. /\ \A x \in DOMAIN next : next[x].id < ids /\ (next[x].id = state[q].id <=> LogOf(x) = LogOf(p))
      /\ \A x \in DOMAIN state : state[x].id < ids /\ (state[x].id = state[q].id <=> LogOf(x) = LogOf(p))
  BY DEF Undisturbed, OneId
<1>6. OneId'
  BY <1>1, <1>2, <1>5 DEF Undisturbed, OneId
<1> QED
  BY <1>4, <1>6

LEMMA KnownStep ==
    ASSUME TypeOK, ScanInStep, Undisturbed, NEW p \in todo, CheckKnown(p) PROVE Undisturbed'
<1>1. /\ Look(p) /\ p \in DOMAIN state /\ used' = used \cup {p} /\ ids' = ids
      /\ next' = With(next, p, Checkpoint(p, state[p].id))
      /\ findings' = findings \cup Violations(p, state[p])
  BY DEF CheckKnown
<1>2. OwnFiles' /\ Backed(state)' /\ Backed(next)' /\ OnePath' /\ NoneMissed'
  BY <1>1, CheckedId, LookKeeps
<1>3. UsedWhenSeen' /\ OneId'
  BY <1>1, TakesOver
<1>4. Violations(p, state[p]) = {}
  <2>1. IsPrefixOf(state[p].data, files[p]) /\ (IsArchived(p) => state[p].data = files[p])
    BY <1>1, KnownFile
  <2>2. state[p].archived <=> IsArchived(p)
    BY <1>1, TypeParts DEF Checkpoints
  <2>3. Len(state[p].data) \in Nat /\ Len(files[p]) \in Nat
    BY <1>1, CheckedId, Looked, Contents
  <2>4. ~(Len(files[p]) < Len(state[p].data))
    BY <2>1, <2>3 DEF IsPrefixOf
  <2> QED
    BY <2>1, <2>2, <2>4 DEF Violations
<1>5. findings' = {}
  BY <1>1, <1>4 DEF Undisturbed
<1> QED
  BY <1>2, <1>3, <1>5 DEF Undisturbed

\* Only the log's own checkpoint can be taken for the one that has moved.
LEMMA MovedStep ==
    ASSUME TypeOK, ScanInStep, Undisturbed, NEW p \in todo, CheckMoved(p) PROVE Undisturbed'
<1>1. PICK q \in MoveSources(p) : /\ used' = used \cup {q}
                                 /\ next' = With(next, p, Checkpoint(p, state[q].id))
  BY DEF CheckMoved
<1>2. Look(p) /\ q \in DOMAIN state /\ UNCHANGED <<findings, ids>>
      /\ IsPrefixOf(state[q].data, files[p])
  BY <1>1 DEF CheckMoved, MoveSources
<1>3. LogOf(q) = LogOf(p)
  <2>1. /\ files[p] \in Seq(Record) /\ state[q].data \in Seq(Record) /\ p \in Paths
        /\ state[q].data # << >>
    BY <1>2, Looked, CheckedId DEF Undisturbed, Backed
  <2>2. files[p][1] = state[q].data[1]
    BY <1>2, <2>1, PrefixFirst
  <2>3. PICK w \in Paths : LogOf(w) = LogOf(q) /\ IsPrefixOf(state[q].data, files[w])
    BY <1>2 DEF Undisturbed, Backed
  <2>4. files[w] \in Seq(Record)
    BY TypeParts DEF LogFiles, Paths
  <2>5. files[w][1] = state[q].data[1]
    BY <2>1, <2>3, <2>4, PrefixFirst
  <2> QED
    BY <2>1, <2>2, <2>3, <2>5 DEF Undisturbed, OwnFiles
<1>4. OwnFiles' /\ Backed(state)' /\ Backed(next)' /\ OnePath' /\ NoneMissed'
  BY <1>1, <1>2, CheckedId, LookKeeps
<1>5. UsedWhenSeen' /\ OneId'
  BY <1>1, <1>2, <1>3, TakesOver
<1> QED
  BY <1>2, <1>4, <1>5 DEF Undisturbed

\* A log that gets a new id was not known.
LEMMA NewStep ==
    ASSUME TypeOK, ScanInStep, Undisturbed, NEW p \in todo, CheckNew(p) PROVE Undisturbed'
<1>1. /\ Look(p) /\ p \notin DOMAIN state /\ UNCHANGED <<used, findings>> /\ ids' = ids + 1
      /\ next' = With(next, p, Checkpoint(p, ids)) /\ ids \in Nat
  BY DEF CheckNew, TypeOK
<1>2. OwnFiles' /\ Backed(state)' /\ Backed(next)' /\ OnePath' /\ NoneMissed'
  BY <1>1, LookKeeps
<1>3. ASSUME NEW q \in DOMAIN state PROVE LogOf(q) # LogOf(p)
  <2> SUFFICES ASSUME LogOf(q) = LogOf(p) PROVE FALSE
    OBVIOUS
  <2>1. IsPrefixOf(state[q].data, files[p]) /\ (IsArchived(q) => q = p)
    BY <1>1, KnownFile
  <2>2. p \in Path /\ q \in Path /\ (state[q].archived <=> IsArchived(q))
    BY <1>1, Looked, TypeParts DEF Checkpoints
  <2>3. ~IsArchived(q) /\ IsArchived(p)
    BY <1>1, <2>1, <2>2, PathParts
  <2>4. q \in used
    BY <2>1, <2>2, <2>3 DEF CheckNew, MoveSources
  <2>5. PICK n \in DOMAIN next : LogOf(n) = LogOf(q)
    BY <2>4 DEF Undisturbed, UsedWhenSeen
  <2> QED
    BY <1>1, <2>5, FirstOfLog
<1>4. UNCHANGED state
  BY <1>1, Looked
<1>5. /\ DOMAIN next' = DOMAIN next \cup {p} /\ next'[p].id = ids
      /\ \A n \in DOMAIN next : next'[n] = next[n]
  BY <1>1, Filed
<1>6. UsedWhenSeen'
  BY <1>1, <1>3, <1>4, <1>5 DEF Undisturbed, UsedWhenSeen
<1>7. OneId'
  <2>1. \A n \in DOMAIN next : LogOf(n) # LogOf(p)
    BY <1>1, FirstOfLog
  <2>2. /\ \A n \in DOMAIN next : next[n].id \in Nat /\ next[n].id < ids
        /\ \A q \in DOMAIN state : state[q].id \in Nat /\ state[q].id < ids
    BY TypeParts DEF Undisturbed, OneId, Checkpoints, CheckpointFile
  <2>3. /\ \A n \in DOMAIN next : next[n].id # ids /\ next[n].id < ids'
        /\ \A q \in DOMAIN state : state[q].id # ids /\ state[q].id < ids'
        /\ ids < ids'
    BY <1>1, <2>2
  <2> QED
    BY <1>3, <1>4, <1>5, <2>1, <2>3 DEF Undisturbed, OneId
<1> QED
  BY <1>1, <1>2, <1>6, <1>7 DEF Undisturbed

\* Every log that was known has been found and looked at by the end.
LEMMA AllSeen ==
    ASSUME TypeOK, ScanInStep, Undisturbed, scanning = "files", todo = {}, NEW q \in DOMAIN state
    PROVE  q \in used /\ \E n \in DOMAIN next : LogOf(n) = LogOf(q)
<1>1. DOMAIN next = found
  BY DEF ScanInStep
<1>2. PICK w \in found : LogOf(w) = LogOf(q)
  BY DEF Undisturbed, NoneMissed
<1> QED
  BY <1>1, <1>2 DEF Undisturbed, UsedWhenSeen

LEMMA EndStep ==
    ASSUME TypeOK, ScanInStep, Undisturbed, FileGone \/ SaveFails \/ Finish PROVE Undisturbed'
<1>1. /\ OwnFiles /\ Backed(state) /\ Backed(next) /\ OnePath /\ OneId /\ findings = {}
  BY DEF Undisturbed
<1>2. /\ UNCHANGED <<files, ids>> /\ scanning' = "no" /\ next' = Empty /\ used' = {}
      /\ DOMAIN Empty = {} /\ (state' = state \/ (Finish /\ state' = next))
  BY DEF FileGone, SaveFails, Abort, Finish, diskVars, Empty
<1>3. OwnFiles' /\ Backed(state)' /\ Backed(next)'
  BY <1>1, <1>2 DEF OwnFiles, Backed, Paths
<1>4. UsedWhenSeen' /\ NoneMissed'
  BY <1>2 DEF UsedWhenSeen, NoneMissed
<1>5. OneId'
  BY <1>1, <1>2 DEF OneId
<1>6. OnePath'
  <2>1. ASSUME Finish, NEW p \in DOMAIN next, NEW q \in DOMAIN next, LogOf(p) = LogOf(q)
        PROVE  p = q
    <3>1. p \in found /\ q \in found /\ p \in Path /\ q \in Path
      BY <2>1, TypeParts DEF Finish, ScanInStep, Checkpoints
    <3>2. IsArchived(p) \/ IsArchived(q) => p = q
      BY <1>1, <2>1, <3>1 DEF OnePath, Finish
    <3> QED
      BY <2>1, <3>1, <3>2, PathParts
  <2> QED
    BY <1>1, <1>2, <2>1 DEF OnePath
<1>7. findings' = {}
  <2>1. CASE Finish
    <3>1. Deleted = {}
      BY <2>1, AllSeen DEF Deleted, Finish
    <3> QED
      BY <1>1, <2>1, <3>1 DEF Finish
  <2>2. CASE FileGone \/ SaveFails
    BY <2>2 DEF FileGone, SaveFails, Abort
  <2> QED
    BY <2>1, <2>2
<1> QED
  BY <1>3, <1>4, <1>5, <1>6, <1>7 DEF Undisturbed

-----------------------------------------------------------------------------
(* Results *)

LEMMA InitParts == Init => TypeOK /\ ScanInStep /\ Accounted /\ Undisturbed
<1> SUFFICES ASSUME Init PROVE TypeOK /\ ScanInStep /\ Accounted /\ Undisturbed
  OBVIOUS
<1>1. DOMAIN files = {} /\ DOMAIN state = {} /\ DOMAIN next = {} /\ Paths = {}
  BY DEF Init, Empty, Paths
<1>2. TypeOK
  BY <1>1 DEF Init, TypeOK
<1>3. ScanInStep /\ Accounted
  BY <1>1 DEF Init, ScanInStep, Accounted
<1>4. OwnFiles /\ Backed(state) /\ Backed(next) /\ OnePath /\ NoneMissed /\ UsedWhenSeen
  BY <1>1 DEF Init, OwnFiles, Backed, OnePath, NoneMissed, UsedWhenSeen
<1>5. OneId
  BY <1>1 DEF Init, OneId
<1> QED
  BY <1>2, <1>3, <1>4, <1>5 DEF Init, Undisturbed

LEMMA UndisturbedStep ==
    ASSUME TypeOK, ScanInStep, tampers = 0 => Undisturbed, ~EmptyStart, [Next]_vars
    PROVE  tampers' = 0 => Undisturbed'
<1>1. CASE Tamper
  BY <1>1 DEF Tamper, TypeOK
<1>2. ASSUME ~Tamper, tampers' = 0 PROVE Undisturbed'
  <2>1. tampers = 0
    BY <1>2, Looked DEF Next, Codex, CodexCreate, CodexAppend, CodexArchive, Scan, WalkSessions,
       WalkArchived, CheckKnown, CheckMoved, CheckNew, FileGone, SaveFails, Abort, Finish, vars, diskVars
  <2>2. Undisturbed
    BY <2>1
  <2>3. CASE UNCHANGED vars
    <3>1. UNCHANGED <<files, scanVars>>
      BY <2>3 DEF vars, diskVars
    <3> QED
      BY <2>2, <3>1 DEF Undisturbed, OwnFiles, Backed, OnePath, NoneMissed, UsedWhenSeen, OneId,
         Paths, scanVars
  <2> QED
    BY <1>2, <2>2, <2>3, CodexStep, WalkStep, KnownStep, MovedStep, NewStep, EndStep DEF Next, Scan
<1> QED
  BY <1>1, <1>2

\* The scan's maps are of the files and the ids it says, whoever edits.
THEOREM TypeCorrect == Spec => []TypeOK
<1>1. Init => TypeOK
  BY InitParts
<1>2. TypeOK /\ [Next]_vars => TypeOK'
  BY TypeStep
<1> QED
  BY <1>1, <1>2, PTL DEF Spec

\* What is accounted for without a finding is at the front of a log that was
\* looked at, whoever edits.
THEOREM ScanAccounts == Spec => [](TypeOK /\ ScanInStep /\ Accounted)
<1>1. Init => TypeOK /\ ScanInStep /\ Accounted
  BY InitParts
<1>2. TypeOK /\ ScanInStep /\ Accounted /\ [Next]_vars => (TypeOK /\ ScanInStep /\ Accounted)'
  BY TypeStep, InStep, AccountedStep
<1> QED
  BY <1>1, <1>2, PTL DEF Spec

(***************************************************************************)
(* When Finish replaces integrity.json and reports nothing, every record   *)
(* known before is at the front of some log of the new one: a path is      *)
(* either used or found, or it would be reported as LOG_DELETED.           *)
(***************************************************************************)
THEOREM CleanScansAccountForAll == Spec => CleanScanAccountsForAll
<1> DEFINE Known == \A q \in DOMAIN state : \E p \in DOMAIN state' :
                      IsPrefixOf(state[q].data, state'[p].data)
<1>1. ASSUME TypeOK, ScanInStep, Accounted, [Next]_vars, state' # state, findings' = {}
      PROVE  Known
  <2>1. Finish
    BY <1>1, Looked DEF Next, Codex, CodexCreate, CodexAppend, CodexArchive, Tamper, Scan,
       WalkSessions, WalkArchived, CheckKnown, CheckMoved, CheckNew, FileGone, SaveFails, Abort,
       vars, scanVars
  <2>2. findings = {} /\ Deleted = {} /\ state' = next /\ scanning = "files" /\ todo = {}
    BY <1>1, <2>1 DEF Finish
  <2>3. \A q \in DOMAIN state : q \in used
    BY <1>1, <2>2 DEF Deleted, ScanInStep
  <2> QED
    BY <1>1, <2>2, <2>3 DEF Accounted
<1>2. TypeOK /\ ScanInStep /\ Accounted /\ [Next]_vars
        => [state' # state /\ findings' = {} => Known]_vars
  BY <1>1
<1> QED
  BY <1>2, ScanAccounts, PTL DEF Spec, CleanScanAccountsForAll

\* Codex's own writes and moves keep files, checkpoints, walks and ids in
\* step, if a scan never sees a log before its first record.
THEOREM Invariance == ASSUME ~EmptyStart PROVE Spec => []IInv
<1>1. Init => IInv
  BY InitParts DEF IInv
<1>2. IInv /\ [Next]_vars => IInv'
  BY TypeStep, InStep, AccountedStep, UndisturbedStep DEF IInv
<1> QED
  BY <1>1, <1>2, PTL DEF Spec

\* A program that appends to its logs and archives them is never accused,
\* wherever its writes and moves fall between the steps of a scan.
THEOREM HonestIsNeverAccused == ASSUME ~EmptyStart PROVE Spec => []HonestNeverAccused
<1>1. IInv => HonestNeverAccused
  BY DEF IInv, Undisturbed, HonestNeverAccused
<1> QED
  BY <1>1, Invariance, PTL

\* And its logs keep their ids, each its own, over every move and scan.
THEOREM MovesKeepIds == ASSUME ~EmptyStart PROVE Spec => MoveKeepsId
<1> DEFINE Kept == \A l \in Log : tampers = 0 /\ IdOf(state, l) # {} =>
                     /\ IdOf(state', l) = IdOf(state, l)
                     /\ \A k \in Log \ {l} : IdOf(state', k) \cap IdOf(state', l) = {}
<1>1. ASSUME IInv, [Next]_vars PROVE Kept
  <2> SUFFICES ASSUME NEW l \in Log, tampers = 0, IdOf(state, l) # {}
               PROVE  /\ IdOf(state', l) = IdOf(state, l)
                      /\ \A k \in Log \ {l} : IdOf(state', k) \cap IdOf(state', l) = {}
    OBVIOUS
  <2>1. TypeOK /\ ScanInStep /\ Undisturbed
    BY <1>1 DEF IInv
  <2>2. state' = state \/ (Finish /\ state' = next)
    BY <1>1, <2>1, Looked DEF Next, Codex, CodexCreate, CodexAppend, CodexArchive, Tamper, Scan,
       WalkSessions, WalkArchived, CheckKnown, CheckMoved, CheckNew, FileGone, SaveFails, Abort,
       vars, scanVars, Finish
  <2>3. \A k \in Log : \A m \in {state, next} :
          IdOf(m, k) = {m[p].id : p \in {x \in DOMAIN m : LogOf(x) = k}}
    <3>1. \A m \in {state, next} : DOMAIN m \subseteq Path
      BY <2>1, TypeParts DEF Checkpoints
    <3>2. \A k \in Log : \A m \in {state, next} :
            {Active(k), Archived(k)} \cap DOMAIN m = {x \in DOMAIN m : LogOf(x) = k}
      BY <3>1, PathParts, PathOf
    <3> QED
      BY <3>2 DEF IdOf
  <2>4. \A m, n \in {state, next} : \A p \in DOMAIN m, q \in DOMAIN n :
          m[p].id = n[q].id <=> LogOf(p) = LogOf(q)
    BY <2>1 DEF Undisturbed, OneId
  <2>5. \A k \in Log \ {l} : IdOf(state', k) \cap IdOf(state', l) = {}
    BY <2>2, <2>3, <2>4
  <2>6. PICK q \in DOMAIN state : LogOf(q) = l
    BY <2>3
  <2>7. PICK m : m = state' /\ m \in {state, next}
    BY <2>2
  <2>8. \E p \in DOMAIN m : LogOf(p) = l
    BY <2>1, <2>2, <2>6, <2>7, AllSeen DEF Finish
  <2>9. IdOf(m, l) = {state[q].id} /\ IdOf(state, l) = {state[q].id}
    BY <2>3, <2>4, <2>6, <2>7, <2>8
  <2> QED
    BY <2>5, <2>7, <2>9
<1>2. IInv /\ [Next]_vars => [Kept]_vars
  BY <1>1
<1> QED
  BY <1>2, Invariance, PTL DEF Spec, MoveKeepsId
=============================================================================

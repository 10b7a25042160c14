------------------------- MODULE IntegrityChain_proofs -------------------------
(***************************************************************************)
(* Proofs about IntegrityChain, for any state ids, contents, retention and *)
(* number of scans: a gap in the chain of accepted reports is recorded     *)
(* while the server remembers, and an undisturbed device is never accused. *)
(***************************************************************************)
EXTENDS IntegrityChain, SequenceTheorems, TLAPS

-----------------------------------------------------------------------------
(* Sequences whose elements have no set of their own: hashes nest *)

LEMMA OverMore ==
    ASSUME NEW S, NEW T, S \subseteq T, NEW s \in Seq(S) PROVE s \in Seq(T)
<1>1. Len(s) \in Nat /\ s \in [1 .. Len(s) -> S]
  BY LenProperties
<1>2. s \in [1 .. Len(s) -> T]
  BY <1>1
<1> QED
  BY <1>1, <1>2, SeqDef

LEMMA OverItself == ASSUME NEW S, NEW s \in Seq(S) PROVE IsSequence(s)
<1>1. Len(s) \in Nat /\ s \in [1 .. Len(s) -> S] /\ DOMAIN s = 1 .. Len(s)
  BY LenProperties
<1>2. s \in [1 .. Len(s) -> {s[i] : i \in DOMAIN s}]
  BY <1>1
<1> QED
  BY <1>1, <1>2, SeqDef DEF IsSequence

LEMMA Positions ==
    ASSUME NEW s, IsSequence(s)
    PROVE  /\ Len(s) \in Nat /\ DOMAIN s = 1 .. Len(s) /\ (s = << >> <=> Len(s) = 0)
<1>1. s \in Seq({s[i] : i \in DOMAIN s})
  BY DEF IsSequence
<1> QED
  BY <1>1, LenProperties, EmptySeq

\* A report is queued, a snapshot or an accepted report is added.
LEMMA Appended ==
    ASSUME NEW s, IsSequence(s), NEW x
    PROVE  /\ IsSequence(Append(s, x)) /\ Len(Append(s, x)) = Len(s) + 1
           /\ Append(s, x)[Len(s) + 1] = x /\ Append(s, x) # << >>
           /\ \A i \in 1 .. Len(s) : Append(s, x)[i] = s[i]
<1> DEFINE S == {s[i] : i \in DOMAIN s} \cup {x}
<1>1. s \in Seq(S)
  BY OverMore DEF IsSequence
<1>2. x \in S
  OBVIOUS
<1> DEFINE a == Append(s, x)
<1> HIDE DEF S
<1>3. /\ a \in Seq(S) /\ a # << >> /\ Len(a) = Len(s) + 1 /\ a[Len(s) + 1] = x
      /\ \A i \in 1 .. Len(s) : a[i] = s[i]
  BY <1>1, <1>2, AppendProperties
<1> HIDE DEF a
<1>4. IsSequence(a)
  BY <1>3, OverItself
<1> QED
  BY <1>3, <1>4 DEF a

\* The oldest report leaves the queue.
LEMMA WithoutHead ==
    ASSUME NEW s, IsSequence(s), s # << >>
    PROVE  /\ IsSequence(Tail(s)) /\ Len(Tail(s)) = Len(s) - 1 /\ Head(s) = s[1]
           /\ \A i \in 1 .. Len(s) - 1 : Tail(s)[i] = s[i + 1]
<1> DEFINE S == {s[i] : i \in DOMAIN s}
<1>1. s \in Seq(S)
  BY DEF IsSequence
<1> HIDE DEF S
<1>2. /\ Tail(s) \in Seq(S) /\ Len(Tail(s)) = Len(s) - 1
      /\ \A i \in 1 .. Len(Tail(s)) : Tail(s)[i] = s[i + 1]
  BY <1>1, HeadTailProperties
<1>3. IsSequence(Tail(s))
  BY <1>2, OverItself
<1>4. Head(s) = s[1]
  BY <1>1
<1> QED
  BY <1>2, <1>3, <1>4

LEMMA Suffix ==
    ASSUME NEW S, NEW s \in Seq(S), NEW n \in Nat, n <= Len(s)
    PROVE  LET rest == SubSeq(s, n + 1, Len(s))
           IN  /\ rest \in Seq(S) /\ Len(rest) = Len(s) - n
               /\ \A i \in 1 .. Len(s) - n : rest[i] = s[n + i]
<1>1. Len(s) \in Nat /\ \A i \in 1 .. Len(s) : s[i] \in S
  BY LenProperties, ElementOfSeq
<1> QED
  BY <1>1, SubSeqProperties

\* The oldest snapshots are purged.
LEMMA WithoutFirst ==
    ASSUME NEW s, IsSequence(s), NEW n \in 1 .. Len(s)
    PROVE  LET rest == SubSeq(s, n + 1, Len(s))
           IN  /\ IsSequence(rest) /\ Len(rest) = Len(s) - n
               /\ \A i \in 1 .. Len(s) - n : rest[i] = s[n + i]
<1> DEFINE S == {s[i] : i \in DOMAIN s}
           rest == SubSeq(s, n + 1, Len(s))
<1>1. s \in Seq(S) /\ n \in Nat /\ n <= Len(s)
  BY Positions DEF IsSequence
<1> HIDE DEF S
<1>2. rest \in Seq(S) /\ Len(rest) = Len(s) - n /\ \A i \in 1 .. Len(s) - n : rest[i] = s[n + i]
  BY <1>1, Suffix
<1> HIDE DEF rest
<1>3. IsSequence(rest)
  BY <1>2, OverItself
<1> QED
  BY <1>2, <1>3 DEF rest

-----------------------------------------------------------------------------
(* Types *)

\* A scan has advanced the chain: from a point of it, or from a new state.
Advances(r) ==
    /\ scans' = scans + 1 /\ scans' \in 0 .. MaxScans /\ drawn' = drawn \cup {r.sid}
    /\ r.sid \in StateId /\ r.seq \in 1 .. scans' /\ r.hash[1] = r.sid /\ r.hash[2] = r.seq
    /\ local' = [sid |-> r.sid, seq |-> r.seq, hash |-> r.hash]
    /\ local # NoState => Continues(local, r)

LEMMA ScanAdvances ==
    ASSUME TypeOK, NEW state \in Loaded, NEW c \in Content, ScanIntegrity(Report(state, c))
    PROVE  Advances(Report(state, c))
<1> DEFINE r == Report(state, c)
<1>1. /\ scans \in Nat /\ scans < MaxScans /\ scans' = scans + 1 /\ MaxScans \in Nat
      /\ drawn' = drawn \cup {r.sid} /\ local' = [sid |-> r.sid, seq |-> r.seq, hash |-> r.hash]
  BY ChainAssumption DEF ScanIntegrity, TypeOK
<1>2. /\ r.sid = state.sid /\ r.seq = state.seq + 1 /\ r.prev = state.hash
      /\ r.hash[1] = r.sid /\ r.hash[2] = r.seq
  BY DEF Report, Hash
<1>3. /\ state.sid \in StateId /\ state.seq \in 0 .. scans /\ (local # NoState => state = local)
  BY DEF Loaded, TypeOK, ChainPoint
<1> HIDE DEF r
<1>4. local # NoState => Continues(local, r)
  BY <1>1, <1>2, <1>3 DEF Continues
<1> QED
  BY <1>1, <1>2, <1>3, <1>4 DEF Advances, r

\* Chain points stay chain points while scans and state ids are added.
LEMMA PointsStay ==
    ASSUME NEW p, ChainPoint(p), drawn \subseteq drawn', scans \in Nat, scans' \in Nat,
           scans <= scans'
    PROVE  ChainPoint(p)'
BY DEF ChainPoint

LEMMA TypeStep == ASSUME TypeOK, [Next]_vars PROVE TypeOK'
<1>1. /\ now \in Nat /\ now <= MaxTime /\ scans \in Nat /\ scans <= MaxScans
      /\ meddles \in Nat /\ meddles <= MaxMeddles /\ drawn \subseteq StateId /\ lost \in BOOLEAN
      /\ IsSequence(queue) /\ IsSequence(snaps) /\ IsSequence(accepted)
      /\ MaxTime \in Nat /\ MaxScans \in Nat /\ MaxMeddles \in Nat
      /\ local # NoState => ChainPoint(local)
      /\ \A c \in copies : ChainPoint(c)
      /\ \A i \in DOMAIN queue : ChainPoint(queue[i])
      /\ \A i \in DOMAIN snaps : ChainPoint(snaps[i]) /\ snaps[i].at \in 0 .. now
      /\ \A i \in DOMAIN accepted : accepted[i].at \in 0 .. now
  BY ChainAssumption DEF TypeOK
<1>2. /\ Len(queue) \in Nat /\ DOMAIN queue = 1 .. Len(queue)
      /\ Len(snaps) \in Nat /\ DOMAIN snaps = 1 .. Len(snaps)
      /\ Len(accepted) \in Nat /\ DOMAIN accepted = 1 .. Len(accepted)
  BY <1>1, Positions
<1>3. ASSUME NEW r, Advances(r), UNCHANGED <<now, copies, serverVars, meddles>>, lost' \in BOOLEAN,
             \/ queue' = Append(queue, r)
             \/ UNCHANGED queue
      PROVE  TypeOK'
  <2>1. /\ drawn \subseteq drawn' /\ scans' \in Nat /\ scans <= scans' /\ drawn' \subseteq StateId
        /\ scans' \in 0 .. MaxScans
    BY <1>1, <1>3 DEF Advances
  <2>2. \A p : ChainPoint(p) => ChainPoint(p)'
    BY <1>1, <2>1, PointsStay
  <2>3. ChainPoint(r)' /\ ChainPoint(local)'
    BY <1>3 DEF Advances, ChainPoint
  <2>4. IsSequence(queue') /\ \A i \in DOMAIN queue' : ChainPoint(queue[i])'
    <3>1. CASE queue' = Append(queue, r)
      <4>1. /\ IsSequence(queue') /\ Len(queue') = Len(queue) + 1 /\ queue'[Len(queue) + 1] = r
            /\ \A i \in 1 .. Len(queue) : queue'[i] = queue[i]
        BY <1>1, <3>1, Appended
      <4>2. DOMAIN queue' = 1 .. Len(queue')
        BY <4>1, Positions
      <4>3. ASSUME NEW i \in 1 .. Len(queue') PROVE ChainPoint(queue[i])'
        <5>1. i = Len(queue) + 1 \/ i \in 1 .. Len(queue)
          BY <1>2, <4>1
        <5>2. PICK p : p = queue'[i]
          OBVIOUS
        <5>3. ChainPoint(p)'
          BY <1>1, <1>2, <2>2, <2>3, <4>1, <5>1, <5>2
        <5> QED
          BY <5>2, <5>3 DEF ChainPoint
      <4> QED
        BY <4>1, <4>2, <4>3
    <3>2. CASE UNCHANGED queue
      BY <1>1, <2>2, <3>2 DEF ChainPoint
    <3> QED
      BY <1>3, <3>1, <3>2
  <2>5. \A i \in DOMAIN snaps' : ChainPoint(snaps[i])' /\ snaps'[i].at \in 0 .. now'
    BY <1>1, <1>3, <2>2 DEF serverVars, ChainPoint
  <2>6. \A c \in copies' : ChainPoint(c)'
    BY <1>1, <1>3, <2>2
  <2> QED
    BY <1>1, <1>3, <2>1, <2>3, <2>4, <2>5, <2>6 DEF TypeOK, serverVars
<1>4. CASE Integrity
  BY <1>1, <1>3, <1>4, ScanAdvances DEF Integrity
<1>5. CASE IntegrityUnqueued
  BY <1>1, <1>3, <1>5, ScanAdvances DEF IntegrityUnqueued
<1>6. ASSUME queue # << >>, queue' = Tail(queue)
      PROVE  IsSequence(queue') /\ \A i \in DOMAIN queue' : ChainPoint(queue'[i])
  <2>1. /\ IsSequence(queue') /\ Len(queue') = Len(queue) - 1
        /\ \A i \in 1 .. Len(queue) - 1 : queue'[i] = queue[i + 1]
    BY <1>1, <1>6, WithoutHead
  <2>2. DOMAIN queue' = 1 .. Len(queue')
    BY <2>1, Positions
  <2>3. \A i \in DOMAIN queue' : i + 1 \in DOMAIN queue /\ queue'[i] = queue[i + 1]
    BY <1>2, <2>1, <2>2
  <2> QED
    BY <1>1, <2>1, <2>3
<1>7. CASE ReportExpires
  <2>1. /\ IsSequence(queue') /\ \A i \in DOMAIN queue' : ChainPoint(queue'[i])
        /\ lost' = TRUE /\ UNCHANGED <<now, agentVars, copies, serverVars, meddles>>
    BY <1>6, <1>7 DEF ReportExpires
  <2> QED
    BY <1>1, <2>1 DEF TypeOK, ChainPoint, agentVars, serverVars
<1>8. CASE Ingest
  <2> DEFINE r == Head(queue)
             s == [sid |-> r.sid, seq |-> r.seq, hash |-> r.hash, at |-> now]
             b == [rep |-> r, at |-> now]
  <2>1. /\ queue # << >> /\ queue' = Tail(queue) /\ snaps' = Append(snaps, s)
        /\ accepted' = Append(accepted, b)
        /\ UNCHANGED <<now, agentVars, copies, lost, meddles>>
    BY <1>8 DEF Ingest
  <2>2. r = queue[1] /\ 1 \in DOMAIN queue
    BY <1>1, <1>2, <2>1, WithoutHead, Positions
  <2>3. ChainPoint(s) /\ s.at = now /\ b.at = now
    BY <1>1, <2>2 DEF ChainPoint
  <2> HIDE DEF s, b
  <2>4. /\ IsSequence(snaps') /\ Len(snaps') = Len(snaps) + 1 /\ snaps'[Len(snaps) + 1] = s
        /\ \A i \in 1 .. Len(snaps) : snaps'[i] = snaps[i]
    BY <1>1, <2>1, Appended
  <2>5. /\ DOMAIN snaps' = 1 .. Len(snaps) + 1
        /\ IsSequence(accepted') /\ DOMAIN accepted' = 1 .. Len(accepted) + 1
        /\ accepted'[Len(accepted) + 1] = b
        /\ \A i \in 1 .. Len(accepted) : accepted'[i] = accepted[i]
    BY <1>1, <2>1, <2>4, Positions, Appended
  <2>6. ASSUME NEW i \in DOMAIN snaps' PROVE ChainPoint(snaps'[i]) /\ snaps'[i].at \in 0 .. now
    <3>1. i = Len(snaps) + 1 \/ i \in 1 .. Len(snaps)
      BY <1>2, <2>5
    <3> QED
      BY <1>1, <1>2, <2>3, <2>4, <3>1
  <2>7. IsSequence(queue') /\ \A i \in DOMAIN queue' : ChainPoint(queue'[i])
    BY <1>6, <2>1
  <2>8. \A i \in DOMAIN accepted' : accepted'[i].at \in 0 .. now
    <3>1. \A i \in DOMAIN accepted' : i = Len(accepted) + 1 \/ i \in 1 .. Len(accepted)
      BY <1>2, <2>5
    <3> QED
      BY <1>1, <1>2, <2>3, <2>5, <3>1
  <2> QED
    BY <1>1, <2>1, <2>4, <2>5, <2>6, <2>7, <2>8 DEF TypeOK, ChainPoint, agentVars
<1>9. CASE Purge
  <2>1. PICK n \in 1 .. Len(snaps) : snaps' = SubSeq(snaps, n + 1, Len(snaps))
    BY <1>9 DEF Purge
  <2>2. /\ IsSequence(snaps') /\ Len(snaps') = Len(snaps) - n
        /\ \A i \in 1 .. Len(snaps) - n : snaps'[i] = snaps[n + i]
    BY <1>1, <2>1, WithoutFirst
  <2>3. DOMAIN snaps' = 1 .. Len(snaps')
    BY <2>2, Positions
  <2>0. n \in Nat /\ 1 <= n /\ n <= Len(snaps)
    BY <1>2
  <2>4. ASSUME NEW i \in DOMAIN snaps' PROVE n + i \in DOMAIN snaps /\ snaps'[i] = snaps[n + i]
    <3>1. i \in 1 .. Len(snaps) - n
      BY <2>2, <2>3
    <3>2. n + i \in 1 .. Len(snaps)
      BY <1>2, <2>0, <3>1
    <3> QED
      BY <1>2, <2>2, <3>1, <3>2
  <2>5. UNCHANGED <<now, agentVars, copies, queue, accepted, lost, meddles>>
    BY <1>9 DEF Purge
  <2> QED
    BY <1>1, <2>2, <2>4, <2>5 DEF TypeOK, ChainPoint, agentVars
<1>10. CASE Meddle
  <2>1. /\ meddles' \in 0 .. MaxMeddles /\ UNCHANGED <<now, drawn, scans, queue, serverVars, lost>>
    BY <1>1, <1>10 DEF Meddle
  <2>2. (local' # NoState => ChainPoint(local')) /\ \A c \in copies' : ChainPoint(c)
    BY <1>1, <1>10 DEF Meddle
  <2> QED
    BY <1>1, <2>1, <2>2 DEF TypeOK, ChainPoint, serverVars
<1>11. CASE Tick
  <2>1. now' \in 0 .. MaxTime /\ UNCHANGED <<agentVars, copies, queue, serverVars, lost, meddles>>
        /\ now' = now + 1
    BY <1>1, <1>11 DEF Tick
  <2>2. /\ \A i \in DOMAIN snaps : snaps[i].at \in 0 .. now'
        /\ \A i \in DOMAIN accepted : accepted[i].at \in 0 .. now'
    BY <1>1, <2>1
  <2> QED
    BY <1>1, <2>1, <2>2 DEF TypeOK, ChainPoint, agentVars, serverVars
<1>12. CASE UNCHANGED vars
  BY <1>1, <1>12 DEF vars, TypeOK, ChainPoint, agentVars, serverVars
<1> QED
  BY <1>4, <1>5, <1>7, <1>8, <1>9, <1>10, <1>11, <1>12 DEF Next

-----------------------------------------------------------------------------
(* The chain *)

\* The server's check: a report that does not continue the latest snapshot is
\* recorded, one that does raises nothing.
LEMMA Judged ==
    ASSUME NEW r, NEW p, Previous = {p}, r.seq \in Nat, p.seq \in Nat
    PROVE  /\ Continues(p, r) => Discontinuity(r) = {}
           /\ events' = events \cup Discontinuity(r) => Continues(p, r) \/ Recorded(r)'
<1>1. Discontinuity(r) =
        (IF p.sid # r.sid       THEN {[type |-> "RESET", key |-> <<r.sid>>]}
         ELSE IF r.seq <= p.seq THEN {[type |-> "ROLLBACK", key |-> <<r.sid, r.seq>>]}
         ELSE IF r.prev # p.hash THEN {[type |-> "BROKEN", key |-> r.hash]}
         ELSE {})
  BY DEF Discontinuity
<1>2. Continues(p, r) => Discontinuity(r) = {}
  BY <1>1 DEF Continues
<1>3. ASSUME events' = events \cup Discontinuity(r), ~Continues(p, r) PROVE Recorded(r)'
  <2>1. \/ [type |-> "RESET", key |-> <<r.sid>>] \in events'
        \/ [type |-> "ROLLBACK", key |-> <<r.sid, r.seq>>] \in events'
        \/ [type |-> "BROKEN", key |-> r.hash] \in events'
    BY <1>1, <1>3 DEF Continues
  <2> QED
    BY <2>1 DEF Recorded
<1> QED
  BY <1>2, <1>3

\* What the server accepts, in one step.
Accepts(r) ==
    /\ queue # << >> /\ r = queue[1] /\ r.seq \in Nat
    /\ events' = events \cup Discontinuity(r)
    /\ snaps' = Append(snaps, [sid |-> r.sid, seq |-> r.seq, hash |-> r.hash, at |-> now])
    /\ accepted' = Append(accepted, [rep |-> r, at |-> now])
    /\ queue' = Tail(queue) /\ UNCHANGED <<now, agentVars, copies, lost, meddles>>

LEMMA IngestAccepts == ASSUME TypeOK, Ingest PROVE \E r : Accepts(r)
<1>1. queue # << >> /\ IsSequence(queue) /\ 1 \in DOMAIN queue
  BY Positions DEF Ingest, TypeOK
<1>2. Head(queue) = queue[1] /\ queue[1].seq \in Nat
  BY <1>1, WithoutHead DEF TypeOK, ChainPoint
<1> QED
  BY <1>1, <1>2 DEF Ingest, Accepts

\* While the server has a snapshot, it is that of the report accepted last.
LEMMA KeptStep ==
    ASSUME TypeOK, LastAcceptedKept, GapIsRecorded, [Next]_vars
    PROVE  LastAcceptedKept' /\ GapIsRecorded'
<1>1. /\ now \in Nat /\ Retention \in Nat /\ IsSequence(snaps) /\ IsSequence(accepted)
      /\ Len(snaps) \in Nat /\ DOMAIN snaps = 1 .. Len(snaps) /\ (snaps = << >> <=> Len(snaps) = 0)
      /\ Len(accepted) \in Nat /\ (accepted = << >> <=> Len(accepted) = 0)
      /\ \A i \in DOMAIN snaps : snaps[i].at \in Nat
      /\ DOMAIN accepted = 1 .. Len(accepted)
      /\ \A i \in DOMAIN accepted : accepted[i].at \in Nat
  BY ChainAssumption, Positions DEF TypeOK
<1>2. ASSUME UNCHANGED accepted, events \subseteq events' PROVE GapIsRecorded'
  BY <1>2 DEF GapIsRecorded, Recorded, Continues
<1>3. CASE Ingest
  <2>1. PICK r : Accepts(r)
    BY <1>3, IngestAccepts
  <2> DEFINE s == [sid |-> r.sid, seq |-> r.seq, hash |-> r.hash, at |-> now]
             b == [rep |-> r, at |-> now]
  <2>2. /\ snaps' = Append(snaps, s) /\ accepted' = Append(accepted, b) /\ now' = now
        /\ events' = events \cup Discontinuity(r) /\ r.seq \in Nat
    BY <2>1 DEF Accepts
  <2>3. b.rep = r /\ b.at = now /\ s.sid = r.sid /\ s.seq = r.seq /\ s.hash = r.hash /\ s.at = now
    OBVIOUS
  <2>4. s = [sid |-> b.rep.sid, seq |-> b.rep.seq, hash |-> b.rep.hash, at |-> b.at]
    OBVIOUS
  <2> HIDE DEF s, b
  <2>5. /\ Len(snaps') = Len(snaps) + 1 /\ snaps'[Len(snaps) + 1] = s /\ snaps' # << >>
        /\ Len(accepted') = Len(accepted) + 1 /\ accepted'[Len(accepted) + 1] = b
        /\ \A i \in 1 .. Len(accepted) : accepted'[i] = accepted[i]
    BY <1>1, <2>2, Appended
  <2>6. LastAcceptedKept'
    BY <2>4, <2>5 DEF LastAcceptedKept
  <2>7. GapIsRecorded'
    <3> SUFFICES ASSUME NEW i \in 1 .. Len(accepted') - 1
                 PROVE  \/ Continues(accepted'[i].rep, accepted'[i + 1].rep)
                        \/ Recorded(accepted[i + 1].rep)'
                        \/ accepted'[i + 1].at > accepted'[i].at + Retention
      BY DEF GapIsRecorded, Continues, Recorded
    <3>1. CASE i = Len(accepted)
      <4> DEFINE a == accepted[Len(accepted)]
      <4>1. accepted # << >> /\ accepted'[i] = a /\ accepted'[i + 1] = b
        BY <1>1, <2>5, <3>1
      <4>2. CASE snaps = << >>
        <5>1. a.at + Retention < now
          BY <4>1, <4>2 DEF LastAcceptedKept
        <5> QED
          BY <2>3, <4>1, <5>1
      <4>3. CASE snaps # << >>
        <5> DEFINE p == snaps[Len(snaps)]
        <5>1. p.sid = a.rep.sid /\ p.seq = a.rep.seq /\ p.hash = a.rep.hash
          BY <4>1, <4>3 DEF LastAcceptedKept
        <5>2. Previous = {p} /\ p.seq \in Nat
          BY <1>1, <4>3 DEF Previous, TypeOK, ChainPoint
        <5> HIDE DEF p
        <5>3. Continues(p, r) \/ Recorded(r)'
          BY <2>2, <5>2, Judged
        <5> QED
          BY <2>3, <4>1, <5>1, <5>3 DEF Continues, Recorded
      <4> QED
        BY <4>2, <4>3
    <3>2. CASE i # Len(accepted)
      <4>0. i \in 1 .. Len(accepted) - 1 /\ i \in 1 .. Len(accepted) /\ i + 1 \in 1 .. Len(accepted)
        <5>1. Len(accepted) \in Nat /\ Len(accepted') = Len(accepted) + 1
          BY <1>1, <2>5
        <5> QED
          BY <3>2, <5>1
      <4>1. i \in 1 .. Len(accepted) - 1 /\ accepted'[i] = accepted[i]
            /\ accepted'[i + 1] = accepted[i + 1]
        BY <2>5, <4>0
      <4> QED
        BY <2>2, <4>1 DEF GapIsRecorded, Recorded
    <3> QED
      BY <3>1, <3>2
  <2> QED
    BY <2>6, <2>7
<1>4. CASE Purge
  <2>1. PICK n \in 1 .. Len(snaps) :
          /\ \A i \in 1 .. Len(snaps) : snaps[i].at + Retention < now <=> i <= n
          /\ snaps' = SubSeq(snaps, n + 1, Len(snaps))
    BY <1>4 DEF Purge
  <2>2. UNCHANGED <<now, events, accepted>>
    BY <1>4 DEF Purge
  <2>3. /\ Len(snaps') = Len(snaps) - n /\ IsSequence(snaps')
        /\ \A i \in 1 .. Len(snaps) - n : snaps'[i] = snaps[n + i]
    BY <1>1, <2>1, WithoutFirst
  <2>0. n \in Nat /\ n <= Len(snaps) /\ Len(snaps) \in Nat
    BY <1>1
  <2>4. snaps' = << >> <=> n = Len(snaps)
    <3>1. snaps' = << >> <=> Len(snaps') = 0
      BY <2>3, Positions
    <3>2. Len(snaps') = Len(snaps) - n
      BY <2>3
    <3>3. Len(snaps') = 0 <=> n = Len(snaps)
      BY <2>0, <3>2
    <3> QED
      BY <3>1, <3>3
  <2>5. LastAcceptedKept'
    <3> SUFFICES ASSUME accepted # << >> PROVE LastAcceptedKept'
      BY <2>2 DEF LastAcceptedKept
    <3>1. snaps # << >> /\ Len(snaps) \in DOMAIN snaps
      BY <1>1, <2>1
    <3>2. CASE n = Len(snaps)
      <4>1. snaps[Len(snaps)].at + Retention < now
        BY <1>1, <2>1, <3>1, <3>2
      <4>2. accepted[Len(accepted)].at + Retention < now
        BY <3>1, <4>1 DEF LastAcceptedKept
      <4> QED
        BY <2>2, <2>4, <3>2, <4>2 DEF LastAcceptedKept
    <3>3. CASE n # Len(snaps)
      <4>1. Len(snaps) - n \in 1 .. Len(snaps) - n /\ n + (Len(snaps) - n) = Len(snaps)
        BY <2>0, <3>3
      <4>2. snaps'[Len(snaps')] = snaps[Len(snaps)]
        BY <2>3, <4>1
      <4> QED
        BY <2>2, <2>4, <3>1, <3>3, <4>2 DEF LastAcceptedKept
    <3> QED
      BY <3>2, <3>3
  <2> QED
    BY <1>2, <2>2, <2>5
<1>5. ASSUME UNCHANGED <<snaps, accepted, events>>, now' = now \/ now' = now + 1
      PROVE  LastAcceptedKept' /\ GapIsRecorded'
  <2>1. ASSUME accepted # << >>, snaps = << >>
        PROVE  accepted[Len(accepted)].at + Retention < now'
    <3>1. accepted[Len(accepted)].at + Retention < now
      BY <2>1 DEF LastAcceptedKept
    <3>2. accepted[Len(accepted)].at \in Nat
      BY <1>1, <2>1
    <3> QED
      BY <1>1, <1>5, <3>1, <3>2
  <2>2. LastAcceptedKept'
    BY <1>5, <2>1 DEF LastAcceptedKept
  <2> QED
    BY <1>2, <1>5, <2>2
<1>6. CASE Integrity \/ IntegrityUnqueued \/ ReportExpires \/ Meddle \/ Tick \/ UNCHANGED vars
  BY <1>5, <1>6 DEF Integrity, IntegrityUnqueued, ReportExpires, Meddle, Tick, vars, serverVars
<1> QED
  BY <1>3, <1>4, <1>6 DEF Next

LEMMA Between ==
    ASSUME NEW n \in Nat, NEW i \in 1 .. n, i # n
    PROVE  i \in 1 .. n - 1 /\ i + 1 \in 1 .. n
OBVIOUS

\* An undisturbed device: each report that is accepted continues the one
\* before, so nothing is recorded.
LEMMA ChainStep ==
    ASSUME TypeOK, OneChain, NoFalseGap, [Next]_vars
    PROVE  OneChain' /\ NoFalseGap'
<1>1. /\ IsSequence(queue) /\ IsSequence(snaps)
      /\ Len(queue) \in Nat /\ DOMAIN queue = 1 .. Len(queue) /\ (queue = << >> <=> Len(queue) = 0)
      /\ Len(snaps) \in Nat /\ DOMAIN snaps = 1 .. Len(snaps) /\ (snaps = << >> <=> Len(snaps) = 0)
      /\ \A i \in DOMAIN queue : queue[i].seq \in Nat /\ queue[i].seq # 0
      /\ \A i \in DOMAIN snaps : snaps[i].seq \in Nat /\ snaps[i].seq # 0
      /\ meddles \in Nat
  BY Positions DEF TypeOK, ChainPoint
<1> DEFINE Clean  == ~lost /\ meddles = 0
           Front  == snaps[Len(snaps)]
           Back   == IF queue # << >> THEN queue[Len(queue)] ELSE snaps[Len(snaps)]
           File(p) == [sid |-> p.sid, seq |-> p.seq, hash |-> p.hash]
<1>2. Clean => /\ events = {}
               /\ \A i \in 1 .. Len(queue) - 1 : Continues(queue[i], queue[i + 1])
               /\ queue # << >> /\ snaps # << >> => Continues(snaps[Len(snaps)], queue[1])
               /\ queue # << >> \/ snaps # << >> => local = File(Back) /\ local # NoState
  <2>1. queue # << >> \/ snaps # << >> => Back.seq # 0
    BY <1>1
  <2>2. NoState.seq = 0 /\ File(Back).seq = Back.seq
    BY DEF NoState
  <2> QED
    BY <2>1, <2>2 DEF OneChain, NoFalseGap
<1>3. CASE Integrity
  <2>1. PICK state \in Loaded, c \in Content :
          ScanIntegrity(Report(state, c)) /\ queue' = Append(queue, Report(state, c))
    BY <1>3 DEF Integrity
  <2>2. PICK r : r = Report(state, c)
    OBVIOUS
  <2>3. /\ local' = File(r) /\ (local # NoState => Continues(local, r))
        /\ UNCHANGED <<serverVars, lost, meddles>> /\ queue' = Append(queue, r)
    BY <1>3, <2>1, <2>2, ScanAdvances DEF Advances, Integrity
  <2>4. /\ Len(queue') = Len(queue) + 1 /\ queue'[Len(queue) + 1] = r /\ queue' # << >>
        /\ \A i \in 1 .. Len(queue) : queue'[i] = queue[i]
    BY <1>1, <2>3, Appended
  <2>5. ASSUME Clean, queue # << >> \/ snaps # << >> PROVE Continues(Back, r)
    BY <1>2, <2>3, <2>5 DEF Continues
  <2>6. OneChain'
    <3> SUFFICES ASSUME Clean PROVE OneChain'
      BY <2>3 DEF OneChain
    <3>1. ASSUME NEW i \in 1 .. Len(queue') - 1 PROVE Continues(queue'[i], queue'[i + 1])
      <4>1. CASE i = Len(queue)
        <5>1. queue # << >> /\ Continues(queue[i], r)
          BY <1>1, <2>5, <4>1
        <5> QED
          BY <1>1, <2>4, <4>1, <5>1
      <4>2. CASE i # Len(queue)
        <5>1. Len(queue) \in Nat /\ i \in 1 .. Len(queue)
          BY <1>1, <2>4
        <5>2. i \in 1 .. Len(queue) - 1 /\ i + 1 \in 1 .. Len(queue)
          BY <4>2, <5>1, Between
        <5>3. Continues(queue[i], queue[i + 1])
          BY <1>2, <5>2
        <5> QED
          BY <2>4, <5>1, <5>2, <5>3
      <4> QED
        BY <4>1, <4>2
    <3>2. ASSUME snaps # << >> PROVE Continues(snaps[Len(snaps)], queue'[1])
      <4>1. CASE queue = << >>
        BY <1>1, <2>4, <2>5, <3>2, <4>1
      <4>2. CASE queue # << >>
        BY <1>1, <1>2, <2>4, <3>2, <4>2
      <4> QED
        BY <4>1, <4>2
    <3>3. queue'[Len(queue')] = r
      BY <2>4
    <3> QED
      BY <2>3, <2>4, <3>1, <3>2, <3>3 DEF OneChain, Continues, serverVars
  <2> QED
    BY <2>3, <2>6 DEF NoFalseGap, serverVars
<1>4. CASE IntegrityUnqueued \/ ReportExpires
  BY <1>4 DEF IntegrityUnqueued, ReportExpires, OneChain, NoFalseGap
<1>5. CASE Ingest
  <2>1. PICK r : Accepts(r)
    BY <1>5, IngestAccepts
  <2> DEFINE s == [sid |-> r.sid, seq |-> r.seq, hash |-> r.hash, at |-> now]
  <2>2. /\ queue # << >> /\ r = queue[1] /\ r.seq \in Nat /\ snaps' = Append(snaps, s)
        /\ events' = events \cup Discontinuity(r) /\ queue' = Tail(queue)
        /\ UNCHANGED <<local, lost, meddles>>
    BY <2>1 DEF Accepts, agentVars
  <2>3. s.sid = r.sid /\ s.seq = r.seq /\ s.hash = r.hash
    OBVIOUS
  <2> HIDE DEF s
  <2>4. Len(snaps') = Len(snaps) + 1 /\ snaps'[Len(snaps) + 1] = s /\ snaps' # << >>
    BY <1>1, <2>2, Appended
  <2>5. /\ Len(queue') = Len(queue) - 1 /\ IsSequence(queue')
        /\ \A i \in 1 .. Len(queue) - 1 : queue'[i] = queue[i + 1]
    BY <1>1, <2>2, WithoutHead
  <2>6. Len(queue') \in Nat /\ (queue' = << >> <=> Len(queue') = 0)
    BY <2>5, Positions
  <2>7. Clean => Discontinuity(r) = {}
    <3>1. CASE snaps = << >>
      BY <3>1 DEF Discontinuity, Previous
    <3>2. CASE snaps # << >>
      <4>1. Previous = {Front} /\ Front.seq \in Nat
        BY <1>1, <3>2 DEF Previous
      <4>2. Clean => Continues(Front, r)
        BY <1>2, <2>2, <3>2
      <4> HIDE DEF Front
      <4> QED
        BY <2>2, <4>1, <4>2, Judged
    <3> QED
      BY <3>1, <3>2
  <2>8. NoFalseGap'
    BY <1>2, <2>2, <2>7 DEF NoFalseGap
  <2>9. OneChain'
    <3> SUFFICES ASSUME Clean PROVE OneChain'
      BY <2>2 DEF OneChain
    <3>1. ASSUME NEW i \in 1 .. Len(queue') - 1 PROVE Continues(queue'[i], queue'[i + 1])
      <4>1. /\ i + 1 \in 1 .. Len(queue) - 1 /\ i \in 1 .. Len(queue) - 1
        BY <1>1, <2>5
      <4>2. queue'[i] = queue[i + 1] /\ queue'[i + 1] = queue[(i + 1) + 1]
        BY <2>5, <4>1
      <4> QED
        BY <1>2, <4>1, <4>2
    <3>2. ASSUME queue' # << >> PROVE Continues(s, queue'[1])
      <4>1. 1 \in 1 .. Len(queue) - 1
        BY <1>1, <2>5, <2>6, <3>2
      <4>2. queue'[1] = queue[1 + 1] /\ Continues(queue[1], queue[1 + 1])
        BY <1>2, <2>5, <4>1
      <4> QED
        BY <2>2, <2>3, <4>2 DEF Continues
    <3>3. ASSUME queue' = << >> PROVE local' = File(s)
      <4>1. Len(queue) = 1
        <5>1. Len(queue) \in Nat
          BY <1>1
        <5>2. Len(queue) - 1 = 0
          BY <2>5, <2>6, <3>3
        <5> QED
          BY <5>1, <5>2
      <4>2. local = File(queue[1])
        BY <1>2, <2>2, <4>1
      <4> QED
        BY <2>2, <2>3, <4>2
    <3>4. ASSUME queue' # << >> PROVE local' = File(queue'[Len(queue')])
      <4>1. Len(queue) - 1 \in 1 .. Len(queue) - 1 /\ (Len(queue) - 1) + 1 = Len(queue)
        BY <1>1, <2>5, <2>6, <3>4
      <4>2. queue'[Len(queue')] = queue[Len(queue)]
        BY <2>5, <4>1
      <4> QED
        BY <1>2, <2>2, <4>2
    <3>5. snaps'[Len(snaps')] = s
      BY <2>4
    <3> QED
      BY <2>4, <3>1, <3>2, <3>3, <3>4, <3>5 DEF OneChain, Continues
  <2> QED
    BY <2>8, <2>9
<1>6. CASE Purge
  <2>1. PICK n \in 1 .. Len(snaps) : snaps' = SubSeq(snaps, n + 1, Len(snaps))
    BY <1>6 DEF Purge
  <2>2. /\ Len(snaps') = Len(snaps) - n /\ IsSequence(snaps')
        /\ \A i \in 1 .. Len(snaps) - n : snaps'[i] = snaps[n + i]
    BY <1>1, <2>1, WithoutFirst
  <2>3. UNCHANGED <<local, queue, events, lost, meddles>>
    BY <1>6 DEF Purge, agentVars
  <2>4. n \in Nat /\ n <= Len(snaps) /\ Len(snaps) \in Nat
    BY <1>1
  <2>5. ASSUME snaps' # << >> PROVE snaps # << >> /\ snaps'[Len(snaps')] = snaps[Len(snaps)]
    <3>1. Len(snaps') # 0
      BY <2>2, <2>5, Positions
    <3>2. Len(snaps) - n # 0
      BY <2>2, <3>1
    <3>3. Len(snaps) - n \in 1 .. Len(snaps) - n /\ n + (Len(snaps) - n) = Len(snaps) /\ Len(snaps) # 0
      BY <2>4, <3>2
    <3> QED
      BY <1>1, <2>2, <3>3
  <2>6. OneChain'
    BY <2>3, <2>5 DEF OneChain, Continues
  <2> QED
    BY <2>3, <2>6 DEF NoFalseGap
<1>7. CASE Meddle
  <2>1. meddles' # 0
    BY <1>1, <1>7 DEF Meddle
  <2> QED
    BY <2>1 DEF OneChain, NoFalseGap
<1>8. CASE Tick \/ UNCHANGED vars
  <2>1. UNCHANGED <<local, queue, snaps, events, lost, meddles>>
    BY <1>8 DEF Tick, vars, agentVars, serverVars
  <2> QED
    BY <2>1 DEF OneChain, NoFalseGap, Continues
<1> QED
  BY <1>3, <1>4, <1>5, <1>6, <1>7, <1>8 DEF Next

-----------------------------------------------------------------------------
(* Results *)

\* integrity.json, the queue and the latest snapshot are one chain as long as
\* nothing disturbs them, and the server compares with what it accepted last.
THEOREM Invariance == Spec => []IInv
<1>1. Init => IInv
  <2> SUFFICES ASSUME Init PROVE IInv
    OBVIOUS
  <2>1. IsSequence(<< >>) /\ Len(<< >>) = 0
    <3> DEFINE e == << >>
    <3>1. e \in Seq({}) /\ Len(e) = 0
      BY EmptySeq
    <3> HIDE DEF e
    <3>2. IsSequence(e)
      BY <3>1, OverItself
    <3> QED
      BY <3>1, <3>2 DEF e
  <2>2. TypeOK
    <3>1. queue = << >> /\ snaps = << >> /\ accepted = << >>
      BY DEF Init
    <3>2. IsSequence(queue) /\ IsSequence(snaps) /\ IsSequence(accepted)
      BY <2>1, <3>1
    <3>3. Len(queue) = 0 /\ Len(snaps) = 0 /\ Len(accepted) = 0
      BY <2>1, <3>1
    <3>4. DOMAIN queue = {} /\ DOMAIN snaps = {} /\ DOMAIN accepted = {}
      BY <3>2, <3>3, Positions
    <3>5. now \in 0 .. MaxTime /\ scans \in 0 .. MaxScans /\ meddles \in 0 .. MaxMeddles
      BY ChainAssumption DEF Init
    <3>6. /\ drawn \subseteq StateId /\ lost \in BOOLEAN
          /\ local # NoState => ChainPoint(local)
          /\ \A c \in copies : ChainPoint(c)
      BY DEF Init
    <3> QED
      BY <3>2, <3>4, <3>5, <3>6 DEF TypeOK
  <2>3. LastAcceptedKept /\ OneChain /\ GapIsRecorded /\ NoFalseGap
    BY <2>1 DEF Init, LastAcceptedKept, OneChain, GapIsRecorded, NoFalseGap
  <2> QED
    BY <2>2, <2>3 DEF IInv
<1>2. IInv /\ [Next]_vars => IInv'
  BY TypeStep, KeptStep, ChainStep DEF IInv
<1> QED
  BY <1>1, <1>2, PTL DEF Spec

\* Every chain point in use is one that loadIntegrityState and Report made.
THEOREM TypeCorrect == Spec => []TypeOK
<1>1. IInv => TypeOK
  BY DEF IInv
<1> QED
  BY <1>1, Invariance, PTL

(***************************************************************************)
(* Between two reports that integrity() accepts one after the other, the   *)
(* chain is continuous or the audit log says what happened, unless the     *)
(* retention has taken the snapshot to compare with: after any number of   *)
(* scans, losses, expiries, restored copies and purges.                    *)
(***************************************************************************)
THEOREM GapsAreRecorded == Spec => []GapIsRecorded
<1>1. IInv => GapIsRecorded
  BY DEF IInv
<1> QED
  BY <1>1, Invariance, PTL

\* And nobody else is accused: an undisturbed chain raises no event.
THEOREM NoGapIsFalse == Spec => []NoFalseGap
<1>1. IInv => NoFalseGap
  BY DEF IInv
<1> QED
  BY <1>1, Invariance, PTL
=============================================================================

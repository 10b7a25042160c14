-------------------------- MODULE UsageReports_proofs --------------------------
(***************************************************************************)
(* Proofs about UsageReports, for any responses, days, retention, export   *)
(* window, faults and length of the queue: what the collector was sent is  *)
(* counted once, no row overstates a day, and totals do not fall.          *)
(***************************************************************************)
EXTENDS UsageReports, SequenceTheorems, FiniteSetTheorems, WellFoundedInduction, TLAPS

-----------------------------------------------------------------------------
(* The queue: reports have domains of their own *)

IsSequence(s) == s \in Seq({s[i] : i \in DOMAIN s})

LEMMA OverItself == ASSUME NEW S, NEW s \in Seq(S) PROVE IsSequence(s)
<1>1. Len(s) \in Nat /\ s \in [1 .. Len(s) -> S] /\ DOMAIN s = 1 .. Len(s)
  BY LenProperties
<1>2. s \in [1 .. Len(s) -> {s[i] : i \in DOMAIN s}]
  BY <1>1
<1> QED
  BY <1>1, <1>2, SeqDef DEF IsSequence

LEMMA Positions ==
    ASSUME NEW s, IsSequence(s)
    PROVE  Len(s) \in Nat /\ DOMAIN s = 1 .. Len(s) /\ (s = << >> <=> Len(s) = 0)
<1>1. s \in Seq({s[i] : i \in DOMAIN s})
  BY DEF IsSequence
<1> QED
  BY <1>1, LenProperties, EmptySeq

LEMMA Appended ==
    ASSUME NEW s, IsSequence(s), NEW x
    PROVE  /\ IsSequence(Append(s, x)) /\ DOMAIN Append(s, x) = 1 .. Len(s) + 1
           /\ Append(s, x)[Len(s) + 1] = x
           /\ \A i \in 1 .. Len(s) : Append(s, x)[i] = s[i]
<1> DEFINE S == {s[i] : i \in DOMAIN s} \cup {x}
           a == Append(s, x)
<1>1. Len(s) \in Nat /\ DOMAIN s = 1 .. Len(s) /\ s \in [1 .. Len(s) -> {s[i] : i \in DOMAIN s}]
  BY Positions, LenProperties DEF IsSequence
<1>2. s \in [1 .. Len(s) -> S] /\ x \in S
  BY <1>1
<1> HIDE DEF S
<1>3. s \in Seq(S)
  BY <1>1, <1>2, SeqDef
<1>4. a \in Seq(S) /\ Len(a) = Len(s) + 1 /\ a[Len(s) + 1] = x /\ \A i \in 1 .. Len(s) : a[i] = s[i]
  BY <1>2, <1>3, AppendProperties
<1> HIDE DEF a
<1>5. IsSequence(a) /\ DOMAIN a = 1 .. Len(s) + 1
  BY <1>4, OverItself, Positions
<1> QED
  BY <1>4, <1>5 DEF a

LEMMA WithoutHead ==
    ASSUME NEW s, IsSequence(s), s # << >>
    PROVE  /\ IsSequence(Tail(s)) /\ DOMAIN Tail(s) = 1 .. Len(s) - 1
           /\ Head(s) = s[1] /\ 1 \in DOMAIN s
           /\ \A i \in 1 .. Len(s) - 1 : Tail(s)[i] = s[i + 1]
<1> DEFINE S == {s[i] : i \in DOMAIN s}
           t == Tail(s)
<1>1. s \in Seq(S)
  BY DEF IsSequence
<1> HIDE DEF S
<1>2. t \in Seq(S) /\ Len(t) = Len(s) - 1 /\ \A i \in 1 .. Len(t) : t[i] = s[i + 1]
  BY <1>1, HeadTailProperties
<1> HIDE DEF t
<1>3. IsSequence(t) /\ DOMAIN t = 1 .. Len(s) - 1
  BY <1>2, OverItself, Positions
<1>4. Head(s) = s[1]
  BY <1>1
<1>5. 1 \in DOMAIN s
  <2>1. Len(s) \in Nat /\ Len(s) # 0 /\ DOMAIN s = 1 .. Len(s)
    BY Positions
  <2> QED
    BY <2>1
<1> QED
  BY <1>2, <1>3, <1>4, <1>5 DEF t

-----------------------------------------------------------------------------
(* Counting responses *)

LEMMA Countable ==
    ASSUME NEW S \in SUBSET Response
    PROVE  IsFiniteSet(S) /\ Cardinality(S) \in Nat
<1>1. IsFiniteSet(Response)
  BY UsageAssumption, FS_Interval DEF Response
<1> QED
  BY <1>1, FS_Subset, FS_CardinalityType

LEMMA MoreCounts ==
    ASSUME NEW T \in SUBSET Response, NEW S \in SUBSET T
    PROVE  Cardinality(S) <= Cardinality(T)
BY Countable, FS_Subset

LEMMA CountsAdd ==
    ASSUME NEW S \in SUBSET Response, NEW T \in SUBSET Response, S \cap T = {}
    PROVE  Cardinality(S \cup T) = Cardinality(S) + Cardinality(T)
<1>1. IsFiniteSet(S) /\ IsFiniteSet(T) /\ Cardinality(S) \in Nat /\ Cardinality(T) \in Nat
  BY Countable
<1>2. Cardinality(S \cup T) = Cardinality(S) + Cardinality(T) - Cardinality(S \cap T)
  BY <1>1, FS_Union
<1>3. Cardinality(S \cap T) = 0
  BY FS_EmptySet
<1> QED
  BY <1>1, <1>2, <1>3

\* Of responses that look alike, one comes first.
LEMMA OneIsFirst ==
    ASSUME NEW S \in SUBSET Nat, S # {}
    PROVE  \E x \in S : \A y \in S : x <= y
<1> DEFINE less == {p \in Nat \X Nat : p[1] < p[2]}
<1>1. IsWellFoundedOn(less, Nat)
  BY NatLessThanWellFounded DEF OpToRel
<1>2. PICK x \in S : \A y \in S : ~ (<<y, x>> \in less)
  BY <1>1, WFMin
<1>3. ASSUME NEW y \in S PROVE x <= y
  <2>1. ~ (<<y, x>> \in less) /\ x \in Nat /\ y \in Nat
    BY <1>2
  <2>2. ~ (y < x)
    BY <2>1
  <2> QED
    BY <2>1, <2>2
<1> QED
  BY <1>3

\* What happens later is not on an earlier day.
LEMMA DaysFollow ==
    ASSUME NEW a \in Nat, NEW b \in Nat, a <= b
    PROVE  DayOf(a) \in Nat /\ DayOf(b) \in Nat /\ DayOf(a) <= DayOf(b)
<1>1. PerDay \in Nat \ {0}
  BY UsageAssumption
<1> DEFINE x == a \div PerDay
           y == b \div PerDay
<1>2. x \in Nat /\ PerDay * x <= a
  BY <1>1
<1>3. y \in Nat /\ b < PerDay * (y + 1)
  BY <1>1
<1> HIDE DEF x, y
<1>4. PerDay * x < PerDay * (y + 1)
  <2>1. PICK m, n : m = PerDay * x /\ n = PerDay * (y + 1)
    OBVIOUS
  <2>2. m \in Nat /\ n \in Nat
    BY <1>1, <1>2, <1>3, <2>1
  <2>3. m <= a /\ b < n
    BY <1>2, <1>3, <2>1
  <2> QED
    BY <2>1, <2>2, <2>3
<1>5. x < y + 1
  BY <1>1, <1>2, <1>3, <1>4
<1> QED
  BY <1>2, <1>3, <1>5 DEF DayOf, x, y

-----------------------------------------------------------------------------
(* Types *)

\* Every report that the agent makes is one of totals of completed responses.
LEMMA MadeReports ==
    ASSUME TypeOK, CountsAreExact
    PROVE  /\ IsReport([source |-> "otel", totals |-> days])
           /\ IsReport([source |-> "local", totals |-> CollectUsage])
<1>1. \A d : Booked(d) \in SUBSET Response /\ On(logged, d) \in SUBSET Response
  BY DEF TypeOK, Completed, Booked, On
<1>2. \A d \in DOMAIN days : days[d] \in Nat
  BY <1>1, Countable DEF CountsAreExact
<1>3. \A d \in DOMAIN CollectUsage : CollectUsage[d] \in Nat
  BY <1>1, Countable DEF CollectUsage
<1> QED
  BY <1>2, <1>3 DEF IsReport, Source

LEMMA UpsertType ==
    ASSUME NEW row \in Nat \cup {NoRow}, NEW e, IsReport(e), NEW d
    PROVE  Upsert(row, e.totals, d) \in Nat \cup {NoRow}
  BY DEF Upsert, IsReport

LEMMA HeadReport ==
    ASSUME TypeOK, queue # << >>
    PROVE  /\ Head(queue) = queue[1] /\ 1 \in DOMAIN queue /\ IsReport(queue[1])
           /\ Len(queue) \in Nat /\ DOMAIN queue = 1 .. Len(queue)
           /\ IsSequence(Tail(queue)) /\ DOMAIN Tail(queue) = 1 .. Len(queue) - 1
           /\ \A i \in 1 .. Len(queue) - 1 : Tail(queue)[i] = queue[i + 1] /\ i + 1 \in DOMAIN queue
<1>1. IsSequence(queue)
  BY DEF TypeOK, IsSequence
<1>2. Len(queue) \in Nat /\ DOMAIN queue = 1 .. Len(queue)
  BY <1>1, Positions
<1>3. \A i \in 1 .. Len(queue) - 1 : i + 1 \in DOMAIN queue
  BY <1>2
<1>4. Head(queue) = queue[1] /\ 1 \in DOMAIN queue
  BY <1>1, WithoutHead
<1>5. IsReport(queue[1])
  BY <1>4 DEF TypeOK
<1> QED
  BY <1>1, <1>2, <1>3, <1>4, <1>5, WithoutHead

LEMMA TypeStep == ASSUME TypeOK, CountsAreExact, [Next]_vars PROVE TypeOK'
<1>1. /\ IsSequence(queue) /\ \A i \in DOMAIN queue : IsReport(queue[i])
      /\ made \in [Response -> Nat \cup {NoRow}] /\ now \in Nat /\ NoRow \notin Nat
      /\ \A r \in Completed : made[r] <= now
      /\ logged \subseteq Completed /\ unacked \subseteq Completed /\ got \subseteq Completed
      /\ ident \in [Response -> Response \cup Alike]
      /\ \A r \in Response : ident[r] \in {r} \cup Alike
      /\ DOMAIN booked \subseteq got /\ \A i \in DOMAIN seen : seen[i] \in Nat
      /\ rows \in [Source -> [Day -> Nat \cup {NoRow}]]
  BY UsageAssumption DEF TypeOK, IsSequence
<1>2. ASSUME NEW r \in Response, Complete(r) PROVE TypeOK'
  <2>1. /\ made[r] = NoRow /\ made' = [made EXCEPT ![r] = now]
        /\ logged' = logged \cup {r} /\ unacked' = unacked \cup {r}
        /\ UNCHANGED <<now, seen, got, booked, queue, rows>>
    BY <1>2 DEF Complete, serverVars
  <2>2. made' \in [Response -> Nat \cup {NoRow}] /\ made'[r] = now
        /\ \A q \in Response : q # r => made'[q] = made[q]
    BY <1>1, <2>1
  <2>3. Completed' = Completed \cup {r} /\ \A q \in Completed' : made'[q] <= now
    BY <1>1, <2>1, <2>2 DEF Completed
  <2>4. PICK i \in {r} \cup Alike : ident' = [ident EXCEPT ![r] = i]
    BY <1>2 DEF Complete
  <2>5. /\ ident' \in [Response -> Response \cup Alike]
        /\ \A q \in Response : ident'[q] \in {q} \cup Alike
    BY <1>1, <2>4
  <2> QED
    BY <1>1, <2>1, <2>2, <2>3, <2>5 DEF TypeOK, IsSequence
<1>3. ASSUME NEW r \in Response, DeleteLog(r) PROVE TypeOK'
  BY <1>1, <1>3 DEF DeleteLog, TypeOK, Completed, otelVars, serverVars
<1>4. ASSUME NEW batch \in SUBSET unacked, NEW answered \in BOOLEAN, IngestOTLP(batch, answered)
      PROVE  TypeOK'
  <2>1. /\ seen' = [i \in Kept \cup {ident[r] : r \in batch} |->
                       IF i \in Kept THEN seen[i] ELSE now]
        /\ got' = got \cup batch /\ unacked' \subseteq unacked
        /\ DOMAIN booked' = DOMAIN booked \cup Fresh(batch)
        /\ UNCHANGED <<now, made, ident, logged, queue, rows>>
    BY <1>4 DEF IngestOTLP, codexVars, serverVars
  <2>2. Kept \subseteq DOMAIN seen /\ Fresh(batch) \subseteq batch
    BY DEF Kept, Fresh
  <2>3. /\ DOMAIN booked' \subseteq got' /\ got' \subseteq Completed
        /\ \A i \in DOMAIN seen' : seen'[i] \in Nat
    BY <1>1, <2>1, <2>2
  <2> QED
    BY <1>1, <2>1, <2>3 DEF TypeOK, Completed, IsSequence
<1>5. ASSUME NEW e, IsReport(e), queue' = Append(queue, e),
             UNCHANGED <<now, codexVars, otelVars, serverVars, faults>>
      PROVE  TypeOK'
  <2>1. /\ IsSequence(queue') /\ DOMAIN queue' = 1 .. Len(queue) + 1 /\ queue'[Len(queue) + 1] = e
        /\ \A i \in 1 .. Len(queue) : queue'[i] = queue[i]
        /\ Len(queue) \in Nat /\ DOMAIN queue = 1 .. Len(queue)
    BY <1>1, <1>5, Appended, Positions
  <2>2. \A i \in DOMAIN queue' : i \in DOMAIN queue \/ i = Len(queue) + 1
    BY <2>1
  <2>3. \A i \in DOMAIN queue' : IsReport(queue'[i])
    BY <1>1, <1>5, <2>1, <2>2
  <2> QED
    BY <1>1, <1>5, <2>1, <2>3
       DEF TypeOK, Completed, IsSequence, codexVars, otelVars, serverVars
<1>6. CASE OTelUsage \/ Usage
  BY <1>5, <1>6, MadeReports DEF OTelUsage, Usage, Enqueue
<1>7. ASSUME queue # << >>, queue' = Tail(queue)
      PROVE  IsSequence(queue') /\ \A i \in DOMAIN queue' : IsReport(queue'[i])
  BY <1>1, <1>7, HeadReport
<1>8. CASE ReportLost
  <2>1. /\ IsSequence(queue') /\ \A i \in DOMAIN queue' : IsReport(queue'[i])
        /\ UNCHANGED <<now, made, ident, logged, unacked, seen, got, booked, rows>>
    BY <1>7, <1>8 DEF ReportLost, codexVars, otelVars, serverVars
  <2> QED
    BY <1>1, <2>1 DEF TypeOK, Completed, IsSequence
<1>9. CASE StoreUsage
  <2>1. /\ IsSequence(queue') /\ \A i \in DOMAIN queue' : IsReport(queue'[i])
        /\ UNCHANGED <<now, made, ident, logged, unacked, seen, got, booked>> /\ IsReport(queue[1])
        /\ rows' = [rows EXCEPT ![queue[1].source] =
                      [d \in Day |-> Upsert(@[d], queue[1].totals, d)]]
    BY <1>7, <1>9, HeadReport DEF StoreUsage, codexVars, otelVars
  <2>2. queue[1].source \in Source
    BY <2>1 DEF IsReport
  <2>3. [d \in Day |-> Upsert(rows[queue[1].source][d], queue[1].totals, d)]
           \in [Day -> Nat \cup {NoRow}]
    BY <1>1, <2>1, <2>2, UpsertType
  <2>4. rows' \in [Source -> [Day -> Nat \cup {NoRow}]]
    BY <1>1, <2>1, <2>2, <2>3
  <2> QED
    BY <1>1, <2>1, <2>4 DEF TypeOK, Completed, IsSequence
<1>10. CASE (\E c \in checks : CompareSources(c)) \/ ServerStops \/ Tick \/ UNCHANGED vars
  <2>1. /\ now' = now \/ now' = now + 1
        /\ UNCHANGED <<made, ident, logged, unacked, seen, got, booked, queue, rows>>
    BY <1>10 DEF CompareSources, ServerStops, Tick, vars, codexVars, otelVars, serverVars
  <2>2. now' \in Nat /\ \A r \in Completed : made[r] <= now'
    BY <1>1, <2>1 DEF Completed
  <2> QED
    BY <1>1, <2>1, <2>2 DEF TypeOK, Completed, IsSequence
<1> QED
  BY <1>2, <1>3, <1>4, <1>6, <1>8, <1>9, <1>10 DEF Next

-----------------------------------------------------------------------------
(* The collector counts once *)

\* What a batch adds to the books was not there, and what it does not add
\* looks like something that is.
Books(batch) ==
    /\ Fresh(batch) \cap DOMAIN booked = {} /\ Fresh(batch) \subseteq batch
    /\ DOMAIN booked' = DOMAIN booked \cup Fresh(batch)
    /\ \A r \in DOMAIN booked : booked'[r] = booked[r]
    /\ \A r \in Fresh(batch) : booked'[r] = DayCounted(r)
    /\ \A r \in batch : \E q \in DOMAIN booked' : ident[q] = ident[r]
    /\ batch \subseteq Completed /\ DOMAIN booked \subseteq Completed

LEMMA Ingested ==
    ASSUME TypeOK, PrunedTooOld, BookedRight,
           NEW batch \in SUBSET unacked, NEW answered \in BOOLEAN, IngestOTLP(batch, answered)
    PROVE  Books(batch)
<1>1. /\ now \in Nat /\ ExportWindow \in Nat /\ Retention \in Nat /\ ExportWindow <= Retention
      /\ unacked \subseteq Completed /\ DOMAIN booked \subseteq Completed
      /\ Completed \subseteq Response /\ \A r \in Completed : made[r] \in Nat /\ made[r] <= now
      /\ \A i \in DOMAIN seen : seen[i] \in Nat
  BY UsageAssumption DEF TypeOK, Completed
<1>2. /\ \A r \in batch : now <= made[r] + ExportWindow
      /\ booked' = [r \in DOMAIN booked \cup Fresh(batch) |->
                      IF r \in Fresh(batch) THEN DayCounted(r) ELSE booked[r]]
  BY DEF IngestOTLP
<1>3. ASSUME NEW r \in batch, r \in DOMAIN booked PROVE ident[r] \in Kept
  <2>1. now <= made[r] + ExportWindow /\ made[r] \in Nat
    BY <1>1, <1>2
  <2>2. ~(made[r] + ExportWindow < now)
    BY <1>1, <2>1
  <2>3. ident[r] \in DOMAIN seen /\ made[r] <= seen[ident[r]] /\ seen[ident[r]] \in Nat
    BY <1>1, <1>3, <2>2 DEF PrunedTooOld
  <2>4. seen[ident[r]] + Retention >= now
    BY <1>1, <2>1, <2>3
  <2> QED
    BY <2>3, <2>4 DEF Kept
<1>4. Fresh(batch) \subseteq batch /\ Fresh(batch) \cap DOMAIN booked = {}
  BY <1>3 DEF Fresh
<1>5. ASSUME NEW r \in batch PROVE \E q \in DOMAIN booked' : ident[q] = ident[r]
  <2>1. CASE ident[r] \in Kept
    <3>1. PICK q \in DOMAIN booked : ident[q] = ident[r]
      BY <2>1 DEF Kept, BookedRight
    <3> QED
      BY <1>2, <3>1
  <2>2. CASE ident[r] \notin Kept
    <3> DEFINE like == {q \in batch : ident[q] = ident[r]}
    <3>1. like \in SUBSET Nat /\ like # {}
      <4>1. r \in like
        OBVIOUS
      <4>2. \A q \in batch : q \in Response
        BY <1>1
      <4>3. \A q \in Response : q \in Nat
        BY DEF Response
      <4> QED
        BY <4>1, <4>2, <4>3
    <3>2. PICK q \in like : \A x \in like : q <= x
      BY <3>1, OneIsFirst
    <3>3. q \in Fresh(batch)
      BY <2>2, <3>2 DEF Fresh
    <3> QED
      BY <1>2, <3>2, <3>3
  <2> QED
    BY <2>1, <2>2
<1> QED
  BY <1>1, <1>2, <1>4, <1>5 DEF Books

\* The exporter has not given up what it sends.
LEMMA Exported ==
    ASSUME TypeOK, NEW batch \in SUBSET unacked, NEW answered \in BOOLEAN,
           IngestOTLP(batch, answered), NEW r \in batch
    PROVE  made[r] \in Nat /\ made[r] <= now /\ now <= made[r] + ExportWindow
BY UsageAssumption DEF TypeOK, Completed, IngestOTLP

LEMMA PrunedStep == ASSUME TypeOK, PrunedTooOld, BookedRight, [Next]_vars PROVE PrunedTooOld'
<1>1. /\ now \in Nat /\ ExportWindow \in Nat /\ Retention \in Nat /\ ExportWindow <= Retention
      /\ unacked \subseteq Completed /\ DOMAIN booked \subseteq Completed
      /\ \A r \in Completed : made[r] \in Nat /\ made[r] <= now
      /\ \A i \in DOMAIN seen : seen[i] \in Nat
  BY UsageAssumption DEF TypeOK, Completed
<1>2. ASSUME NEW r \in Response, Complete(r) PROVE PrunedTooOld'
  <2>1. /\ \A q \in DOMAIN booked : made'[q] = made[q] /\ ident'[q] = ident[q]
        /\ UNCHANGED <<now, seen, booked>>
    BY <1>1, <1>2 DEF Complete, Completed, TypeOK
  <2> QED
    BY <2>1 DEF PrunedTooOld
<1>3. ASSUME NEW batch \in SUBSET unacked, NEW answered \in BOOLEAN, IngestOTLP(batch, answered)
      PROVE  PrunedTooOld'
  <2>1. /\ seen' = [i \in Kept \cup {ident[r] : r \in batch} |->
                      IF i \in Kept THEN seen[i] ELSE now]
        /\ UNCHANGED <<now, made, ident>>
    BY <1>3 DEF IngestOTLP, codexVars
  <2>2. ASSUME NEW r \in DOMAIN booked'
        PROVE  \/ ident[r] \in DOMAIN seen' /\ made[r] <= seen'[ident[r]]
               \/ made[r] + ExportWindow < now
    <3>1. r \in DOMAIN booked \/ r \in Fresh(batch)
      <4>1. Books(batch)
        BY <1>3, Ingested
      <4> QED
        BY <2>2, <4>1 DEF Books
    <3>2. CASE r \in Fresh(batch)
      <4>1. r \in batch /\ ident[r] \notin Kept /\ made[r] <= now
        BY <1>3, <3>2, Exported DEF Fresh
      <4> QED
        BY <2>1, <4>1
    <3>3. CASE r \in DOMAIN booked
      <4>1. CASE made[r] + ExportWindow < now
        BY <4>1
      <4>2. CASE ident[r] \in DOMAIN seen /\ made[r] <= seen[ident[r]]
        <5>1. CASE ident[r] \in Kept
          BY <2>1, <4>2, <5>1
        <5>2. CASE ident[r] \notin Kept
          <6>1. ~(seen[ident[r]] + Retention >= now) /\ seen[ident[r]] \in Nat
            BY <1>1, <4>2, <5>2 DEF Kept
          <6>2. made[r] \in Nat
            BY <1>1, <3>3
          <6> QED
            BY <1>1, <4>2, <6>1, <6>2
        <5> QED
          BY <5>1, <5>2
      <4> QED
        BY <3>3, <4>1, <4>2 DEF PrunedTooOld
    <3> QED
      BY <3>1, <3>2, <3>3
  <2> QED
    BY <2>1, <2>2 DEF PrunedTooOld
<1>4. ASSUME UNCHANGED <<made, ident, seen, booked>>, now' = now \/ now' = now + 1
      PROVE  PrunedTooOld'
  <2>1. \A r \in DOMAIN booked : made[r] + ExportWindow < now => made[r] + ExportWindow < now'
    BY <1>1, <1>4
  <2> QED
    BY <1>4, <2>1 DEF PrunedTooOld
<1> QED
  BY <1>2, <1>3, <1>4
     DEF Next, DeleteLog, OTelUsage, Usage, Enqueue, ReportLost, StoreUsage, CompareSources,
         ServerStops, Tick, vars, codexVars, otelVars, serverVars

LEMMA BookedStep ==
    ASSUME TypeOK, PrunedTooOld, BookedRight, [Next]_vars PROVE BookedRight'
<1>1. /\ now \in Nat /\ ExportWindow \in Nat /\ got \subseteq Completed
      /\ DOMAIN booked \subseteq Completed /\ Completed \subseteq Response
  BY UsageAssumption DEF TypeOK, Completed
<1>2. ASSUME NEW r \in Response, Complete(r) PROVE BookedRight'
  <2>1. /\ \A q \in Completed : made'[q] = made[q] /\ ident'[q] = ident[q]
        /\ UNCHANGED <<days, seen, got, booked>>
    BY <1>1, <1>2 DEF Complete, Completed, TypeOK
  <2>2. \A q \in DOMAIN booked : MayCount("otel", q, booked[q])' <=> MayCount("otel", q, booked[q])
    BY <1>1, <2>1 DEF MayCount, Timed
  <2> QED
    BY <1>1, <2>1, <2>2 DEF BookedRight
<1>3. ASSUME NEW batch \in SUBSET unacked, NEW answered \in BOOLEAN, IngestOTLP(batch, answered)
      PROVE  BookedRight'
  <2>1. /\ DOMAIN booked' = DOMAIN booked \cup Fresh(batch) /\ Fresh(batch) \subseteq batch
        /\ \A r \in DOMAIN booked : booked'[r] = booked[r]
        /\ \A r \in Fresh(batch) : booked'[r] = DayCounted(r)
        /\ \A r \in batch : \E q \in DOMAIN booked' : ident[q] = ident[r]
    <3>1. Books(batch)
      BY <1>3, Ingested
    <3> QED
      BY <3>1 DEF Books
  <2>2. /\ DOMAIN seen' = Kept \cup {ident[r] : r \in batch} /\ got' = got \cup batch
        /\ DOMAIN days' = DOMAIN days \cup {DayCounted(r) : r \in Fresh(batch)}
        /\ UNCHANGED <<made, ident>>
    BY <1>3 DEF IngestOTLP, codexVars
  <2>3. ASSUME NEW r \in DOMAIN booked'
        PROVE  MayCount("otel", r, booked'[r]) /\ booked'[r] \in DOMAIN days'
    <3>1. CASE r \in DOMAIN booked
      BY <2>1, <2>2, <3>1 DEF BookedRight
    <3>2. CASE r \in Fresh(batch)
      <4>1. /\ made[r] \in Nat /\ made[r] <= now /\ now <= made[r] + ExportWindow
            /\ booked'[r] = DayCounted(r)
        BY <1>3, <2>1, <3>2, Exported
      <4>2. DayOf(made[r]) <= DayOf(now) /\ DayOf(now) <= DayOf(made[r] + ExportWindow)
        BY <1>1, <4>1, DaysFollow
      <4> QED
        BY <2>2, <3>2, <4>1, <4>2 DEF MayCount, DayCounted
    <3> QED
      BY <2>1, <2>3, <3>1, <3>2
  <2>4. \A i \in DOMAIN seen' : \E q \in DOMAIN booked' : ident[q] = i
    BY <2>1, <2>2 DEF BookedRight, Kept
  <2>5. \A r \in got' : \E q \in DOMAIN booked' : ident[q] = ident[r]
    BY <2>1, <2>2 DEF BookedRight
  <2>6. \A r : MayCount("otel", r, booked[r])' <=> MayCount("otel", r, booked'[r])
    BY <2>2 DEF MayCount, Timed
  <2> QED
    BY <2>2, <2>3, <2>4, <2>5, <2>6 DEF BookedRight
<1>4. ASSUME UNCHANGED <<made, ident, days, seen, got, booked>> PROVE BookedRight'
  BY <1>4 DEF BookedRight, MayCount, Timed
<1> QED
  BY <1>2, <1>3, <1>4
     DEF Next, DeleteLog, OTelUsage, Usage, Enqueue, ReportLost, StoreUsage, CompareSources,
         ServerStops, Tick, vars, codexVars, otelVars, serverVars

LEMMA CountsStep ==
    ASSUME TypeOK, PrunedTooOld, BookedRight, CountsAreExact, [Next]_vars PROVE CountsAreExact'
<1>1. ASSUME NEW batch \in SUBSET unacked, NEW answered \in BOOLEAN, IngestOTLP(batch, answered)
      PROVE  CountsAreExact'
  <2> DEFINE F == Fresh(batch)
             New(d) == {r \in F : DayCounted(r) = d}
             grown == DOMAIN days \cup {DayCounted(r) : r \in F}
  <2>1. /\ F \cap DOMAIN booked = {} /\ F \in SUBSET Response /\ DOMAIN booked \in SUBSET Response
        /\ DOMAIN booked' = DOMAIN booked \cup F
        /\ \A r \in DOMAIN booked : booked'[r] = booked[r]
        /\ \A r \in F : booked'[r] = DayCounted(r)
    <3>1. Books(batch)
      BY <1>1, Ingested
    <3> QED
      BY <3>1 DEF Books, Completed
  <2>2. days' = [d \in grown |-> (IF d \in DOMAIN days THEN days[d] ELSE 0) + Cardinality(New(d))]
    BY <1>1 DEF IngestOTLP
  <2> HIDE DEF F
  <2>3. ASSUME NEW d \in DOMAIN days' PROVE days'[d] = Cardinality(Booked(d)')
    <3>1. Booked(d)' = Booked(d) \cup New(d) /\ Booked(d) \cap New(d) = {}
      BY <2>1 DEF Booked
    <3>2. Booked(d) \in SUBSET Response /\ New(d) \in SUBSET Response
      BY <2>1 DEF Booked
    <3>3. Cardinality(Booked(d)') = Cardinality(Booked(d)) + Cardinality(New(d))
      BY <3>1, <3>2, CountsAdd
    <3>4. d \in DOMAIN days => days[d] = Cardinality(Booked(d))
      BY DEF CountsAreExact
    <3>5. d \notin DOMAIN days => Booked(d) = {}
      BY DEF BookedRight, Booked
    <3>6. d \notin DOMAIN days => Cardinality(Booked(d)) = 0
      BY <3>5, FS_EmptySet
    <3>7. days'[d] = (IF d \in DOMAIN days THEN days[d] ELSE 0) + Cardinality(New(d))
      BY <2>2, <2>3
    <3> HIDE DEF New
    <3> QED
      BY <3>3, <3>4, <3>6, <3>7
  <2> QED
    BY <2>3 DEF CountsAreExact
<1>2. ASSUME UNCHANGED <<days, booked>> PROVE CountsAreExact'
  BY <1>2 DEF CountsAreExact, Booked
<1> QED
  BY <1>1, <1>2
     DEF Next, Complete, DeleteLog, OTelUsage, Usage, Enqueue, ReportLost, StoreUsage,
         CompareSources, ServerStops, Tick, vars, codexVars, otelVars, serverVars

-----------------------------------------------------------------------------
(* Totals rise *)

\* What a source can say of a day grows; logs that are intact always were.
LEMMA CeilingGrows ==
    ASSUME TypeOK, PrunedTooOld, BookedRight, [Next]_vars, NEW s \in Source
    PROVE  /\ \A d : /\ Ceiling(s, d) \in Nat /\ Ceiling(s, d)' \in Nat
                     /\ Ceiling(s, d) <= Ceiling(s, d)'
           /\ Intact(s)' => Intact(s)
<1>1. /\ DOMAIN booked \subseteq Completed /\ logged \subseteq Completed /\ Completed \subseteq Response
      /\ unacked \subseteq Completed
  BY DEF TypeOK, Completed
<1> DEFINE Grows == /\ DOMAIN booked \subseteq DOMAIN booked' /\ DOMAIN booked' \subseteq Response
                    /\ \A r \in DOMAIN booked : booked'[r] = booked[r]
                    /\ Completed \subseteq Completed' /\ Completed' \subseteq Response
                    /\ \A r \in Completed : made'[r] = made[r]
                    /\ logged' = Completed' => logged = Completed
<1>2. Grows
  <2>1. ASSUME NEW r \in Response, Complete(r)
        PROVE  /\ booked' = booked /\ Completed' = Completed \cup {r} /\ r \notin Completed
               /\ logged' = logged \cup {r} /\ \A q \in Completed : made'[q] = made[q]
    <3>1. /\ made[r] = NoRow /\ made' = [made EXCEPT ![r] = now] /\ now # NoRow
          /\ DOMAIN made = Response
      BY <2>1, UsageAssumption DEF Complete, TypeOK
    <3> QED
      BY <2>1, <3>1 DEF Complete, Completed
  <2>2. ASSUME NEW r \in Response, DeleteLog(r)
        PROVE  UNCHANGED <<booked, made>> /\ logged' = logged \ {r} /\ r \in logged
    BY <2>2 DEF DeleteLog, otelVars
  <2>3. ASSUME NEW batch \in SUBSET unacked, NEW answered \in BOOLEAN, IngestOTLP(batch, answered)
        PROVE  /\ UNCHANGED <<made, logged>> /\ DOMAIN booked' \subseteq Completed
               /\ DOMAIN booked \subseteq DOMAIN booked'
               /\ \A r \in DOMAIN booked : booked'[r] = booked[r]
    <3>1. UNCHANGED <<made, logged>>
      BY <2>3 DEF IngestOTLP, codexVars
    <3>2. Books(batch)
      BY <2>3, Ingested
    <3> QED
      BY <3>1, <3>2 DEF Books
  <2>4. \/ \E r \in Response : Complete(r) \/ DeleteLog(r)
        \/ \E batch \in SUBSET unacked, answered \in BOOLEAN : IngestOTLP(batch, answered)
        \/ UNCHANGED <<made, logged, booked>>
    BY DEF Next, OTelUsage, Usage, Enqueue, ReportLost, StoreUsage, CompareSources,
           ServerStops, Tick, vars, codexVars, otelVars, serverVars
  <2>5. ASSUME NEW r \in Response, Complete(r) PROVE Grows
    BY <1>1, <2>1, <2>5
  <2>6. ASSUME NEW r \in Response, DeleteLog(r) PROVE Grows
    BY <1>1, <2>2, <2>6 DEF Completed
  <2>7. ASSUME NEW batch \in SUBSET unacked, NEW answered \in BOOLEAN, IngestOTLP(batch, answered)
        PROVE  Grows
    BY <1>1, <2>3, <2>7 DEF Completed
  <2>8. ASSUME UNCHANGED <<made, logged, booked>> PROVE Grows
    BY <1>1, <2>8 DEF Completed
  <2> QED
    BY <2>4, <2>5, <2>6, <2>7, <2>8
<1>3. ASSUME NEW d
      PROVE  /\ Ceiling(s, d) \in Nat /\ Ceiling(s, d)' \in Nat
             /\ Ceiling(s, d) <= Ceiling(s, d)'
  <2>1. PICK A, B : /\ A = (IF s = "otel" THEN Booked(d) ELSE On(Completed, d))
                    /\ B = (IF s = "otel" THEN Booked(d) ELSE On(Completed, d))'
    OBVIOUS
  <2>2. A \in SUBSET B /\ B \in SUBSET Response
    BY <1>1, <1>2, <2>1 DEF On, Booked
  <2>3. Cardinality(A) \in Nat /\ Cardinality(B) \in Nat /\ Cardinality(A) <= Cardinality(B)
    BY <2>2, Countable, MoreCounts
  <2> QED
    BY <2>1, <2>3 DEF Ceiling
<1> QED
  BY <1>2, <1>3 DEF Intact

\* A new report says all there is to say, as far as the source still has it.
LEMMA NewReports ==
    ASSUME TypeOK, CountsAreExact, OTelUsage \/ Usage
    PROVE  \E e : /\ queue' = Append(queue, e) /\ IsReport(e)
                  /\ UNCHANGED <<now, codexVars, otelVars, serverVars, faults>>
                  /\ \A d \in DOMAIN e.totals :
                       /\ e.totals[d] <= Ceiling(e.source, d)
                       /\ Intact(e.source) => e.totals[d] = Ceiling(e.source, d)
<1>1. CASE OTelUsage
  <2> DEFINE e == [source |-> "otel", totals |-> days]
  <2>1. /\ queue' = Append(queue, e) /\ IsReport(e)
        /\ UNCHANGED <<now, codexVars, otelVars, serverVars, faults>>
    BY <1>1, MadeReports DEF OTelUsage, Enqueue
  <2>2. \A d \in DOMAIN e.totals : e.totals[d] = Ceiling(e.source, d) /\ e.totals[d] \in Nat
    BY <2>1 DEF CountsAreExact, Ceiling, IsReport
  <2> HIDE DEF e
  <2>3. \A d \in DOMAIN e.totals : e.totals[d] <= Ceiling(e.source, d)
    BY <2>2
  <2> QED
    BY <2>1, <2>2, <2>3
<1>2. CASE Usage
  <2> DEFINE e == [source |-> "local", totals |-> CollectUsage]
  <2>1. /\ queue' = Append(queue, e) /\ IsReport(e)
        /\ UNCHANGED <<now, codexVars, otelVars, serverVars, faults>>
    BY <1>2, MadeReports DEF Usage, Enqueue
  <2>2. \A d : On(logged, d) \in SUBSET On(Completed, d) /\ On(Completed, d) \in SUBSET Response
    BY DEF TypeOK, Completed, On
  <2>3. ASSUME NEW d \in DOMAIN e.totals
        PROVE  /\ e.totals[d] <= Ceiling(e.source, d)
               /\ Intact(e.source) => e.totals[d] = Ceiling(e.source, d)
    <3>1. e.totals[d] = Cardinality(On(logged, d)) /\ e.source = "local"
      BY <2>3 DEF CollectUsage
    <3>2. Ceiling("local", d) = Cardinality(On(Completed, d))
      BY DEF Ceiling
    <3>3. Cardinality(On(logged, d)) <= Cardinality(On(Completed, d))
      BY <2>2, MoreCounts
    <3> QED
      BY <3>1, <3>2, <3>3 DEF Intact
  <2> HIDE DEF e
  <2> QED
    BY <2>1, <2>3
<1> QED
  BY <1>1, <1>2

LEMMA BelowStep ==
    ASSUME TypeOK, PrunedTooOld, BookedRight, CountsAreExact, BelowCeiling, [Next]_vars
    PROVE  BelowCeiling'
<1>1. \A s \in Source : \A d : /\ Ceiling(s, d) \in Nat /\ Ceiling(s, d)' \in Nat
                               /\ Ceiling(s, d) <= Ceiling(s, d)'
  BY CeilingGrows
<1>2. /\ \A i \in DOMAIN queue : IsReport(queue[i])
      /\ rows \in [Source -> [Day -> Nat \cup {NoRow}]]
  BY DEF TypeOK
<1> DEFINE Fair(e) == \A d \in DOMAIN e.totals : e.totals[d] <= Ceiling(e.source, d)'
<1>3. ASSUME NEW e, IsReport(e), \A d \in DOMAIN e.totals : e.totals[d] <= Ceiling(e.source, d)
      PROVE  Fair(e)
  BY <1>1, <1>3 DEF IsReport
<1> HIDE DEF Fair
<1>4. ASSUME NEW i \in DOMAIN queue, NEW e, e = queue[i] PROVE Fair(e)
  <2>1. IsReport(e) /\ \A d \in DOMAIN e.totals : e.totals[d] <= Ceiling(e.source, d)
    BY <1>2, <1>4 DEF BelowCeiling
  <2> QED
    BY <1>3, <2>1
<1>5. ASSUME NEW s \in Source, NEW d \in Day PROVE Total(rows[s][d]) <= Ceiling(s, d)'
  <2>1. Total(rows[s][d]) \in Nat /\ Total(rows[s][d]) <= Ceiling(s, d)
    BY <1>2 DEF Total, BelowCeiling
  <2> QED
    BY <1>1, <2>1
<1>6. ASSUME NEW i \in DOMAIN queue', NEW r, r = queue'[i] PROVE Fair(r)
  <2>1. CASE OTelUsage \/ Usage
    <3>1. PICK e : /\ queue' = Append(queue, e) /\ IsReport(e)
                   /\ \A d \in DOMAIN e.totals : e.totals[d] <= Ceiling(e.source, d)
      BY <2>1, NewReports
    <3>2. /\ DOMAIN queue' = 1 .. Len(queue) + 1 /\ queue'[Len(queue) + 1] = e
          /\ \A j \in 1 .. Len(queue) : queue'[j] = queue[j]
          /\ Len(queue) \in Nat /\ DOMAIN queue = 1 .. Len(queue)
      BY <3>1, Appended, Positions DEF TypeOK, IsSequence
    <3>3. Fair(e)
      BY <1>3, <3>1
    <3>4. (i \in DOMAIN queue /\ r = queue[i]) \/ r = e
      BY <1>6, <3>2
    <3> QED
      BY <1>4, <3>3, <3>4
  <2>2. CASE ReportLost \/ StoreUsage
    <3>1. queue # << >> /\ queue' = Tail(queue)
      BY <2>2 DEF ReportLost, StoreUsage
    <3>2. i + 1 \in DOMAIN queue /\ r = queue[i + 1]
      BY <1>6, <3>1, HeadReport
    <3> QED
      BY <1>4, <3>2
  <2>3. CASE UNCHANGED queue
    <3>1. i \in DOMAIN queue /\ r = queue[i]
      BY <1>6, <2>3
    <3> QED
      BY <1>4, <3>1
  <2> QED
    BY <2>1, <2>2, <2>3
       DEF Next, Complete, DeleteLog, IngestOTLP, CompareSources, ServerStops, Tick, vars
<1>7. \A s \in Source, d \in Day : Total(rows'[s][d]) <= Ceiling(s, d)'
  <2>1. CASE StoreUsage
    <3>1. /\ queue # << >>
          /\ rows' = [rows EXCEPT ![Head(queue).source] =
                        [d \in Day |-> Upsert(@[d], Head(queue).totals, d)]]
      BY <2>1 DEF StoreUsage
    <3>2. PICK e : e = queue[1] /\ e = Head(queue) /\ IsReport(e)
      BY <3>1, HeadReport
    <3>3. Fair(e)
      BY <1>4, <3>1, <3>2, HeadReport
    <3>4. ASSUME NEW s \in Source, NEW d \in Day PROVE Total(rows'[s][d]) <= Ceiling(s, d)'
      <4>1. CASE s = e.source /\ d \in DOMAIN e.totals
        <5>1. rows'[s][d] = e.totals[d] /\ e.totals[d] \in Nat
          BY <1>2, <3>1, <3>2, <4>1 DEF Upsert, IsReport
        <5>2. Total(rows'[s][d]) = e.totals[d]
          BY <5>1, UsageAssumption DEF Total
        <5> QED
          BY <3>3, <4>1, <5>2 DEF Fair
      <4>2. CASE ~(s = e.source /\ d \in DOMAIN e.totals)
        <5>1. rows'[s][d] = rows[s][d]
          BY <1>2, <3>1, <3>2, <4>2 DEF Upsert
        <5> QED
          BY <1>5, <5>1
      <4> QED
        BY <4>1, <4>2
    <3> QED
      BY <3>4
  <2>2. CASE UNCHANGED rows
    BY <1>5, <2>2
  <2> QED
    BY <2>1, <2>2
       DEF Next, Complete, DeleteLog, IngestOTLP, OTelUsage, Usage, Enqueue, ReportLost,
           CompareSources, ServerStops, Tick, vars, serverVars
<1>8. ASSUME NEW i \in DOMAIN queue', NEW d \in DOMAIN queue'[i].totals
      PROVE  (queue[i].totals[d] <= Ceiling(queue[i].source, d))'
  <2>1. PICK e : e = queue'[i]
    OBVIOUS
  <2>2. Fair(e)
    BY <1>6, <2>1
  <2>3. e.totals[d] <= Ceiling(e.source, d)'
    BY <1>8, <2>1, <2>2 DEF Fair
  <2>4. Ceiling(e.source, d)' = Ceiling(queue[i].source, d)'
    BY <2>1 DEF Ceiling
  <2> QED
    BY <2>1, <2>3, <2>4
<1> QED
  BY <1>7, <1>8 DEF BelowCeiling

\* The head of the queue is the next row of its source.
LEMMA RowStored ==
    ASSUME TypeOK, StoreUsage, NEW s \in Source, NEW d \in Day
    PROVE  rows'[s][d] = IF s = queue[1].source /\ d \in DOMAIN queue[1].totals
                         THEN queue[1].totals[d] ELSE rows[s][d]
<1>1. /\ queue # << >> /\ rows \in [Source -> [Day -> Nat \cup {NoRow}]]
      /\ rows' = [rows EXCEPT ![Head(queue).source] =
                    [x \in Day |-> Upsert(@[x], Head(queue).totals, x)]]
  BY DEF StoreUsage, TypeOK
<1>2. Head(queue) = queue[1] /\ queue[1].source \in Source
  BY <1>1, HeadReport DEF IsReport
<1> QED
  BY <1>1, <1>2 DEF Upsert

LEMMA RisingStep ==
    ASSUME TypeOK, PrunedTooOld, BookedRight, CountsAreExact, BelowCeiling, Rising,
           [Next]_vars
    PROVE  Rising'
<1>1. \A s \in Source : Intact(s)' => Intact(s)
  BY CeilingGrows
<1>2. /\ IsSequence(queue) /\ \A i \in DOMAIN queue : IsReport(queue[i])
      /\ Len(queue) \in Nat /\ DOMAIN queue = 1 .. Len(queue)
  BY Positions DEF TypeOK, IsSequence
<1>3. TypeOK'
  BY TypeStep
<1>4. SUFFICES ASSUME NEW i \in DOMAIN queue', NEW f, f = queue'[i], IsReport(f),
                      Intact(f.source)
               PROVE  AboveRow(f)' /\ \A j \in 1 .. i - 1 : Follows(queue'[j], f)
  <2>1. ASSUME NEW i \in DOMAIN queue', queue'[i].source = "otel" \/ logged' = Completed'
        PROVE  AboveRow(queue[i])' /\ \A j \in 1 .. i - 1 : Follows(queue'[j], queue'[i])
    <3>1. PICK f : f = queue'[i] /\ IsReport(f)
      BY <1>3 DEF TypeOK, IsReport
    <3>2. f.source \in Source /\ Intact(f.source)'
      BY <2>1, <3>1 DEF IsReport, Intact
    <3>3. Intact(f.source)
      BY <1>1, <3>2
    <3>4. AboveRow(f)' /\ \A j \in 1 .. i - 1 : Follows(queue'[j], f)
      BY <1>4, <3>1, <3>3
    <3> QED
      BY <3>1, <3>4 DEF AboveRow
  <2> QED
    BY <2>1 DEF Rising, Intact
<1>5. CASE OTelUsage \/ Usage
  <2>1. PICK e : /\ queue' = Append(queue, e) /\ IsReport(e)
                 /\ UNCHANGED <<now, codexVars, otelVars, serverVars, faults>>
                 /\ \A d \in DOMAIN e.totals :
                       Intact(e.source) => e.totals[d] = Ceiling(e.source, d)
    BY <1>5, NewReports
  <2>2. /\ DOMAIN queue' = 1 .. Len(queue) + 1 /\ queue'[Len(queue) + 1] = e
        /\ \A k \in 1 .. Len(queue) : queue'[k] = queue[k]
    BY <1>2, <2>1, Appended
  <2>3. rows' = rows
    BY <2>1 DEF serverVars
  <2>4. CASE i \in DOMAIN queue
    <3>1. queue[i] = f /\ \A j \in 1 .. i - 1 : queue'[j] = queue[j]
      BY <1>2, <1>4, <2>2, <2>4
    <3>2. AboveRow(f) /\ \A j \in 1 .. i - 1 : Follows(queue[j], f)
      BY <1>4, <2>4, <3>1 DEF Rising
    <3> QED
      BY <2>3, <3>1, <3>2 DEF AboveRow
  <2>5. CASE i = Len(queue) + 1
    <3>1. f = e /\ \A j \in 1 .. i - 1 : j \in DOMAIN queue /\ queue'[j] = queue[j]
      BY <1>2, <1>4, <2>2, <2>5
    <3>2. f.source \in Source /\ \A d \in DOMAIN f.totals : f.totals[d] = Ceiling(f.source, d)
      BY <1>4, <2>1, <3>1 DEF IsReport
    <3>3. AboveRow(f)
      BY <3>2 DEF BelowCeiling, AboveRow
    <3>4. ASSUME NEW j \in DOMAIN queue PROVE Follows(queue[j], f)
      BY <3>2 DEF BelowCeiling, Follows
    <3> QED
      BY <2>3, <3>1, <3>3, <3>4 DEF AboveRow
  <2> QED
    BY <1>2, <1>4, <2>2, <2>4, <2>5
<1>6. CASE ReportLost \/ StoreUsage
  <2>1. queue # << >> /\ queue' = Tail(queue)
    BY <1>6 DEF ReportLost, StoreUsage
  <2>2. i \in 1 .. Len(queue) - 1 /\ f = queue[i + 1] /\ i + 1 \in DOMAIN queue
    BY <1>4, <2>1, HeadReport
  <2>3. AboveRow(f) /\ \A j \in 1 .. (i + 1) - 1 : Follows(queue[j], f)
    BY <1>4, <2>2 DEF Rising
  <2>4. /\ 1 \in 1 .. (i + 1) - 1
        /\ \A j \in 1 .. i - 1 : j + 1 \in 1 .. (i + 1) - 1 /\ queue'[j] = queue[j + 1]
    <3>1. \A j \in 1 .. i - 1 : j \in 1 .. Len(queue) - 1 /\ j + 1 \in 1 .. (i + 1) - 1
      BY <1>2, <2>2
    <3>2. 1 \in 1 .. (i + 1) - 1
      BY <2>2
    <3> QED
      BY <2>1, <3>1, <3>2, HeadReport
  <2>5. PICK h : h = queue[1] /\ IsReport(h) /\ Follows(h, f)
    BY <2>1, <2>3, <2>4, HeadReport
  <2>6. ASSUME NEW d \in DOMAIN f.totals \cap Day
        PROVE  Total(rows'[f.source][d]) <= f.totals[d]
    <3>1. Total(rows[f.source][d]) <= f.totals[d]
      BY <2>3 DEF AboveRow
    <3>2. CASE StoreUsage
      <4>1. rows'[f.source][d] = IF f.source = h.source /\ d \in DOMAIN h.totals
                                 THEN h.totals[d] ELSE rows[f.source][d]
        BY <1>4, <2>5, <3>2, RowStored DEF IsReport
      <4>2. CASE f.source = h.source /\ d \in DOMAIN h.totals
        <5>1. Total(h.totals[d]) = h.totals[d]
          BY <2>5, <4>2, UsageAssumption DEF Total, IsReport
        <5>2. h.totals[d] <= f.totals[d]
          BY <2>5, <4>2 DEF Follows
        <5> QED
          BY <4>1, <4>2, <5>1, <5>2
      <4>3. CASE ~(f.source = h.source /\ d \in DOMAIN h.totals)
        BY <3>1, <4>1, <4>3
      <4> QED
        BY <4>2, <4>3
    <3>3. CASE ReportLost
      BY <3>1, <3>3 DEF ReportLost, serverVars
    <3> QED
      BY <1>6, <3>2, <3>3
  <2> QED
    BY <2>3, <2>4, <2>6 DEF AboveRow
<1>7. CASE UNCHANGED <<queue, rows>>
  <2>1. AboveRow(f) /\ \A j \in 1 .. i - 1 : Follows(queue[j], f)
    BY <1>4, <1>7 DEF Rising
  <2> QED
    BY <1>7, <2>1 DEF AboveRow
<1> QED
  BY <1>5, <1>6, <1>7
     DEF Next, Complete, DeleteLog, IngestOTLP, CompareSources, ServerStops, Tick, vars, serverVars

-----------------------------------------------------------------------------
(* Results *)

\* Identities and days of the collector, queued reports and rows fit together.
THEOREM Invariance == Spec => []IInv
<1>1. Init => IInv
  <2> SUFFICES ASSUME Init PROVE IInv
    OBVIOUS
  <2>1. /\ IsSequence(queue) /\ DOMAIN queue = {} /\ DOMAIN days = {} /\ DOMAIN seen = {}
        /\ DOMAIN booked = {}
    <3> DEFINE e == << >>
    <3>1. e \in Seq({}) /\ Len(e) = 0
      BY EmptySeq
    <3>2. DOMAIN e = {}
      OBVIOUS
    <3> HIDE DEF e
    <3>3. IsSequence(e)
      BY <3>1, OverItself
    <3> QED
      BY <3>2, <3>3 DEF Init, e
  <2>2. Completed = {}
    BY DEF Init, Completed
  <2>3. TypeOK
    <3>1. /\ rows \in [Source -> [Day -> Nat \cup {NoRow}]] /\ made \in [Response -> Nat \cup {NoRow}]
          /\ ident \in [Response -> Response \cup Alike]
          /\ \A r \in Response : ident[r] \in {r} \cup Alike
      BY DEF Init
    <3> QED
      BY <2>1, <2>2, <3>1, UsageAssumption DEF Init, TypeOK, IsSequence
  <2>4. PrunedTooOld /\ BookedRight /\ CountsAreExact /\ Rising
    BY <2>1 DEF Init, PrunedTooOld, BookedRight, CountsAreExact, Rising
  <2>5. \A s \in Source : \A d : Ceiling(s, d) = 0
    <3>1. \A d : Booked(d) = {} /\ On(Completed, d) = {}
      BY <2>1, <2>2 DEF Booked, On
    <3> QED
      BY <3>1, FS_EmptySet DEF Ceiling
  <2>6. BelowCeiling
    BY <2>1, <2>5 DEF Init, BelowCeiling, Total
  <2> QED
    BY <2>3, <2>4, <2>6 DEF IInv
<1>2. IInv /\ [Next]_vars => IInv'
  BY TypeStep, PrunedStep, BookedStep, CountsStep, BelowStep, RisingStep DEF IInv
<1> QED
  BY <1>1, <1>2, PTL DEF Spec

\* A response that the collector was sent is counted once, on its day, for
\* any pattern of lost answers: the retention of identities is no shorter
\* than the window in which an exporter repeats a record.  Without a time, it
\* is counted at most once, unless its like is counted for it.
THEOREM CountsAreOnce == Spec => []CountedOnce
<1>1. ASSUME IInv PROVE CountedOnce
  <2>1. ASSUME NEW d \in Day
        PROVE  (IF d \in DOMAIN days THEN days[d] ELSE 0) = Cardinality(Booked(d))
    <3>1. CASE d \in DOMAIN days
      BY <1>1, <3>1 DEF IInv, CountsAreExact
    <3>2. CASE d \notin DOMAIN days
      <4>1. Booked(d) = {}
        BY <1>1, <3>2 DEF IInv, BookedRight, Booked
      <4> QED
        BY <3>2, <4>1, FS_EmptySet
    <3> QED
      BY <3>1, <3>2
  <2>2. ASSUME NEW r \in got PROVE \E q \in DOMAIN booked : ident[q] = ident[r]
    BY <1>1 DEF IInv, BookedRight
  <2>3. ASSUME NEW r \in got, Timed(r)
        PROVE  r \in DOMAIN booked /\ booked[r] = DayOf(made[r])
    <3>1. PICK q \in DOMAIN booked : ident[q] = ident[r]
      BY <2>2, <2>3
    <3>2. q \in Response /\ r \in Response /\ ident[q] \in {q} \cup Alike /\ r \notin Alike
      <4>1. q \in Response /\ r \in Response /\ \A x \in Response : ident[x] \in {x} \cup Alike
        BY <1>1, <3>1 DEF IInv, TypeOK, Completed
      <4>2. r \in Nat
        BY <4>1 DEF Response
      <4> QED
        BY <4>1, <4>2, UsageAssumption
    <3>3. q = r
      BY <2>3, <3>1, <3>2 DEF Timed
    <3> QED
      BY <1>1, <2>3, <3>1, <3>3 DEF IInv, BookedRight, MayCount
  <2> QED
    BY <2>1, <2>2, <2>3 DEF CountedOnce
<1> QED
  BY <1>1, Invariance, PTL

\* No row claims more for a day than was completed on it, whichever of its
\* source's reports were lost or arrived late; the collector's may claim what
\* has no time for the days on which it was repeated.
THEOREM RowsAreNeverOverstated == Spec => []NeverOverstated
<1>1. ASSUME IInv PROVE NeverOverstated
  <2> DEFINE May(s, d) == {r \in Response : made[r] # NoRow /\ MayCount(s, r, d)}
  <2> SUFFICES ASSUME NEW s \in Source, NEW d \in Day
               PROVE  Total(rows[s][d]) <= Cardinality(May(s, d))
    BY DEF NeverOverstated
  <2>1. Total(rows[s][d]) <= Ceiling(s, d) /\ Total(rows[s][d]) \in Nat
    BY <1>1 DEF IInv, BelowCeiling, TypeOK, Total
  <2>2. PICK A : A = IF s = "otel" THEN Booked(d) ELSE On(Completed, d)
    OBVIOUS
  <2>3. A \in SUBSET May(s, d) /\ May(s, d) \in SUBSET Response
    <3>1. CASE s = "otel"
      BY <1>1, <2>2, <3>1 DEF IInv, TypeOK, BookedRight, Booked, Completed
    <3>2. CASE s = "local"
      BY <2>2, <3>2 DEF On, Completed, MayCount
    <3> QED
      BY <3>1, <3>2 DEF Source
  <2> HIDE DEF May
  <2>4. /\ Cardinality(A) <= Cardinality(May(s, d))
        /\ Cardinality(A) \in Nat /\ Cardinality(May(s, d)) \in Nat
    BY <2>3, MoreCounts, Countable
  <2>5. Ceiling(s, d) = Cardinality(A)
    BY <2>2 DEF Ceiling
  <2> QED
    BY <2>1, <2>4, <2>5
<1> QED
  BY <1>1, Invariance, PTL

\* A report that is stored never lowers a total of its source, as long as the
\* source itself has not lost any: whatever is lost or delayed, reports of one
\* source arrive in the order in which their totals were taken.
THEOREM TotalsOnlyRise == Spec => TotalsOnlyGrow
<1> DEFINE Grow == \A s \in Source :
                     (s = "otel" \/ logged = {r \in Response : made[r] # NoRow}) =>
                       \A d \in Day : Total(rows'[s][d]) >= Total(rows[s][d])
<1>1. ASSUME IInv, [Next]_vars PROVE Grow
  <2> SUFFICES ASSUME NEW s \in Source, Intact(s), NEW d \in Day
               PROVE  Total(rows'[s][d]) >= Total(rows[s][d])
    BY DEF Intact, Completed
  <2>1. Total(rows[s][d]) \in Nat
    BY <1>1 DEF IInv, TypeOK, Total
  <2>2. CASE StoreUsage
    <3>1. rows'[s][d] = IF s = queue[1].source /\ d \in DOMAIN queue[1].totals
                        THEN queue[1].totals[d] ELSE rows[s][d]
      BY <1>1, <2>2, RowStored DEF IInv
    <3>2. 1 \in DOMAIN queue /\ IsReport(queue[1])
      BY <1>1, <2>2, HeadReport DEF IInv, StoreUsage
    <3>3. CASE s = queue[1].source /\ d \in DOMAIN queue[1].totals
      <4>1. Total(rows[s][d]) <= queue[1].totals[d]
        BY <1>1, <3>2, <3>3 DEF IInv, Rising, AboveRow
      <4>2. Total(rows'[s][d]) = queue[1].totals[d] /\ queue[1].totals[d] \in Nat
        BY <3>1, <3>2, <3>3, UsageAssumption DEF Total, IsReport
      <4> QED
        BY <2>1, <4>1, <4>2
    <3>4. CASE ~(s = queue[1].source /\ d \in DOMAIN queue[1].totals)
      BY <2>1, <3>1, <3>4
    <3> QED
      BY <3>3, <3>4
  <2>3. CASE UNCHANGED rows
    BY <2>1, <2>3
  <2> QED
    BY <1>1, <2>2, <2>3
       DEF Next, Complete, DeleteLog, IngestOTLP, OTelUsage, Usage, Enqueue, ReportLost,
           CompareSources, ServerStops, Tick, vars, serverVars
<1>2. IInv /\ [Next]_vars => [Grow]_vars
  BY <1>1
<1> QED
  BY <1>2, Invariance, PTL DEF Spec, TotalsOnlyGrow
=============================================================================

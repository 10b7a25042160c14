----------------------------- MODULE UsageReports -----------------------------
(***************************************************************************)
(* Token usage from two sources (internal/agent/otel.go, usage.go) and its *)
(* reconciliation on the server (server/app/main.py, usage; services.py,   *)
(* maybe_usage_mismatch).                                                  *)
(*                                                                         *)
(* A completed response is one token, written to the session log and       *)
(* exported over OTLP to the agent's collector.  A record is identified by *)
(* its time, trace, span and counts; one without a usable time is counted  *)
(* on the day it arrives, and may look like that of another response.      *)
(* Both sources are sent as absolute totals per day; the channel is in     *)
(* order and at most once (SignedDelivery).  The server stores a report in *)
(* one transaction and compares the sources in a second one, which is lost *)
(* when the server stops in between: the agent's retry is then a           *)
(* duplicate.  The row lock of the device ends with the first commit, so   *)
(* reports of an agent that has timed out and retried can be stored while  *)
(* an older one still waits to be compared.                                *)
(***************************************************************************)
EXTENDS Integers, Sequences, FiniteSets

CONSTANTS
    MaxResponses,  \* completed responses
    Alike,         \* identities of records without a usable timeUnixNano
    NoRow,         \* the server has no row, the response does not exist yet
    PerDay,        \* ticks in a classroom day
    EnrolledAt,    \* devices.enrolled_at
    Retention,     \* config retention_days, in ticks
    ExportWindow,  \* how long the exporter retries a record
    PayloadDays,   \* max_length of UsagePayload.days
    MinTokens, Percent,   \* settings.mismatch_min_tokens, mismatch_percent
    MaxTime, MaxQueue, MaxOpen, MaxFaults   \* bounds of the model; MaxQueue is on
                   \* reports queued or being compared, MaxOpen on the latter

ASSUME UsageAssumption ==
    /\ MaxResponses \in Nat /\ PerDay \in Nat \ {0} /\ EnrolledAt \in Nat /\ NoRow \notin Nat
    /\ \A i \in Alike : i \notin Nat
    /\ Retention \in Nat /\ ExportWindow \in Nat /\ ExportWindow <= Retention
    /\ PayloadDays \in Nat /\ MinTokens \in Nat /\ Percent \in Nat
    /\ MaxTime \in Nat /\ MaxQueue \in Nat
    /\ MaxOpen \in Nat /\ MaxFaults \in Nat

\* Responses are numbered in the order they are completed.
Response == 1 .. MaxResponses

VARIABLES
    now,
    made,     \* when each response was completed, or NoRow
    ident,    \* the identity of its record: its own, or one of Alike
    logged,   \* responses in the session logs
    unacked,  \* responses whose export has not been acknowledged
    days,     \* otel-usage.json: tokens per day that has any
    seen,     \* otel-usage.json: identities counted and when
    queue,    \* usage reports in queue.json
    rows,     \* usage_reports: total per source and day, or NoRow
    lastOtel, \* devices.last_otlp_at, or NoRow
    checks,   \* requests between their two commits
    events,   \* days with a USAGE_SOURCE_MISMATCH event
    got,      \* history: responses the collector was sent
    booked,   \* history: those it has counted, and on which day
    faults    \* logs deleted, reports lost and server stops so far

codexVars  == <<made, ident, logged>>
otelVars   == <<unacked, days, seen, got, booked>>
serverVars == <<rows, lastOtel, checks, events>>
vars == <<now, codexVars, otelVars, queue, serverVars, faults>>

DayOf(t) == t \div PerDay
Day == 0 .. DayOf(MaxTime)
Source == {"local", "otel"}

Init ==
    /\ now = EnrolledAt
    /\ made = [r \in Response |-> NoRow] /\ ident = [r \in Response |-> r]
    /\ logged = {} /\ unacked = {}
    /\ days = << >> /\ seen = << >> /\ got = {} /\ booked = << >>
    /\ queue = << >>
    /\ rows = [s \in Source |-> [d \in Day |-> NoRow]]
    /\ lastOtel = NoRow /\ checks = {} /\ events = {}
    /\ faults = 0

Total(row) == IF row = NoRow THEN 0 ELSE row

-----------------------------------------------------------------------------
(* Codex and the exporter *)

Complete(r) ==
    /\ made[r] = NoRow /\ \A q \in 1 .. r - 1 : made[q] # NoRow
    /\ made' = [made EXCEPT ![r] = now]
    /\ \E i \in {r} \cup Alike : ident' = [ident EXCEPT ![r] = i]
    /\ logged' = logged \cup {r} /\ unacked' = unacked \cup {r}
    /\ UNCHANGED <<now, days, seen, got, booked, queue, serverVars, faults>>

\* A session log is removed, and with it what ccusage can count.
DeleteLog(r) ==
    /\ r \in logged /\ logged' = logged \ {r}
    /\ faults < MaxFaults /\ faults' = faults + 1
    /\ UNCHANGED <<now, made, ident, otelVars, queue, serverVars>>

\* The responses of S that were completed on day d.
On(S, d) == {r \in S : DayOf(made[r]) = d}

-----------------------------------------------------------------------------
(* The agent *)

\* Identities of seen that are not older than the retention.
Kept == {i \in DOMAIN seen : seen[i] + Retention >= now}

\* Mutant: identities are not looked up.
FreshAll(batch) == batch

\* The records whose identity is new; of those of a batch that look alike,
\* one.
Fresh(batch) ==
    {r \in batch : ident[r] \notin Kept /\ \A q \in batch : ident[q] = ident[r] => r <= q}

\* Does the record of r carry a usable time?
Timed(r) == ident[r] = r

\* Mutant: every record is counted on the day it arrives.
DayOfArrival(r) == DayOf(now)

DayCounted(r) == IF Timed(r) THEN DayOf(made[r]) ELSE DayOf(now)

\* ingestOTLP of a batch: old identities are pruned, a record with a new
\* identity is added to its day, and the store is saved.  The answer may not
\* reach the exporter, which then sends again.
IngestOTLP(batch, answered) ==
    LET fresh == Fresh(batch)
        grown == DOMAIN days \cup {DayCounted(r) : r \in fresh}
    IN  /\ batch # {} /\ \A r \in batch : r \in unacked /\ now <= made[r] + ExportWindow
        /\ days' = [d \in grown |-> (IF d \in DOMAIN days THEN days[d] ELSE 0)
                                       + Cardinality({r \in fresh : DayCounted(r) = d})]
        /\ seen' = [i \in Kept \cup {ident[r] : r \in batch} |-> IF i \in Kept THEN seen[i] ELSE now]
        /\ unacked' = IF answered THEN unacked \ batch ELSE unacked
        /\ got' = got \cup batch
        /\ booked' = [r \in DOMAIN booked \cup fresh |->
                         IF r \in fresh THEN DayCounted(r) ELSE booked[r]]
        /\ UNCHANGED <<now, codexVars, queue, serverVars, faults>>

\* Mutant: a report is put before those that wait.
EnqueueFirst(source, totals) ==
    /\ Len(queue) + Cardinality(checks) < MaxQueue
    /\ queue' = <<[source |-> source, totals |-> totals]>> \o queue
    /\ UNCHANGED <<now, codexVars, otelVars, serverVars, faults>>

Enqueue(source, totals) ==
    /\ Len(queue) + Cardinality(checks) < MaxQueue
    /\ queue' = Append(queue, [source |-> source, totals |-> totals])
    /\ UNCHANGED <<now, codexVars, otelVars, serverVars, faults>>

\* Mutant: only today's total is sent.
OTelUsageToday ==
    /\ DayOf(now) \in DOMAIN days
    /\ Enqueue("otel", [d \in {DayOf(now)} |-> days[d]])

\* OTelUsage: the whole store, unless it is empty.
OTelUsage == DOMAIN days # {} /\ Enqueue("otel", days)

\* CollectUsage: what ccusage counts in the logs from since to until.
CollectUsage ==
    LET since == DayOf(IF now < Retention THEN 0 ELSE now - Retention)
    IN  [d \in {x \in since .. DayOf(now) : On(logged, x) # {}} |-> Cardinality(On(logged, d))]

Usage == Enqueue("local", CollectUsage)

\* UsagePayload accepts so many days.
Fits(report) == Cardinality(DOMAIN report.totals) <= PayloadDays

\* A report is lost in a crash before it is queued, or expires; one that the
\* server refuses always does.
ReportLost ==
    /\ queue # << >> /\ queue' = Tail(queue)
    /\ IF Fits(Head(queue)) THEN faults < MaxFaults /\ faults' = faults + 1 ELSE UNCHANGED faults
    /\ UNCHANGED <<now, codexVars, otelVars, serverVars>>

-----------------------------------------------------------------------------
(* The server *)

\* Mutants: the totals of a report are added to the row; a day that is not in
\* the report loses its row.
UpsertAdds(row, totals, d) == IF d \in DOMAIN totals THEN Total(row) + totals[d] ELSE row
UpsertReplaces(row, totals, d) == IF d \in DOMAIN totals THEN totals[d] ELSE NoRow

\* The row of a day after a report: its absolute total, if it has one.
Upsert(row, totals, d) == IF d \in DOMAIN totals THEN totals[d] ELSE row

\* usage() up to its first commit.  A report with too many days is a 422: it
\* stays at the head of the queue.
StoreUsage ==
    /\ queue # << >> /\ Fits(Head(queue)) /\ Cardinality(checks) < MaxOpen
    /\ LET report == Head(queue)
           given  == DOMAIN report.totals
       IN  /\ rows' = [rows EXCEPT ![report.source] =
                          [d \in Day |-> Upsert(@[d], report.totals, d)]]
           /\ lastOtel' = IF report.source = "otel" /\ given # {} THEN now ELSE lastOtel
           /\ checks' = checks \cup {[days |-> given, otlp |-> lastOtel']}
    /\ queue' = Tail(queue)
    /\ UNCHANGED <<now, codexVars, otelVars, events, faults>>

\* maybe_usage_mismatch: is the day one to compare?
Comparable(d, otlp) ==
    /\ otlp # NoRow /\ otlp - EnrolledAt >= PerDay
    /\ DayOf(EnrolledAt) < d /\ d < DayOf(now)

Delta(a, b) == IF a < b THEN b - a ELSE a - b
Larger(a, b) == IF a < b THEN b ELSE a

\* maybe_usage_mismatch: do the sources differ by more than both thresholds?
Differ(d) ==
    LET local == Total(rows["local"][d])
        otel  == Total(rows["otel"][d])
    IN  /\ local # 0 /\ otel # 0
        /\ Delta(local, otel) >= MinTokens
        /\ Delta(local, otel) * 100 > Percent * Larger(local, otel)

\* Mutant: it is the day in progress that is compared.
FlaggedToday(c) == {d \in c.days : d = DayOf(now) /\ Comparable(d, c.otlp) /\ Differ(d)}

Flagged(c) == {d \in c.days : Comparable(d, c.otlp) /\ Differ(d)}

\* usage() from its first to its second commit.
CompareSources(c) ==
    /\ c \in checks
    /\ events' = events \cup Flagged(c)
    /\ checks' = checks \ {c}
    /\ UNCHANGED <<now, codexVars, otelVars, queue, rows, lastOtel, faults>>

\* The server stops between the commits of its requests.
ServerStops ==
    /\ checks # {} /\ faults < MaxFaults /\ faults' = faults + 1
    /\ checks' = {}
    /\ UNCHANGED <<now, codexVars, otelVars, queue, rows, lastOtel, events>>

Tick ==
    /\ now < MaxTime /\ now' = now + 1
    /\ UNCHANGED <<codexVars, otelVars, queue, serverVars, faults>>

Next ==
    \/ \E r \in Response : Complete(r) \/ DeleteLog(r)
    \/ \E batch \in SUBSET unacked, answered \in BOOLEAN : IngestOTLP(batch, answered)
    \/ OTelUsage \/ Usage \/ ReportLost
    \/ StoreUsage \/ (\E c \in checks : CompareSources(c)) \/ ServerStops
    \/ Tick

Spec == Init /\ [][Next]_vars

-----------------------------------------------------------------------------
(* Properties *)

\* The responses that the collector has counted on day d.
Booked(d) == {r \in DOMAIN booked : booked[r] = d}

(***************************************************************************)
(* Of the responses that the collector was sent, each one with a time is   *)
(* counted once, on the day it was completed, however often the exporter   *)
(* repeats it because an answer was lost, across midnight and while        *)
(* identities are pruned.  One without a time is counted at most once, and *)
(* not at all only when one that looks like it is.                         *)
(***************************************************************************)
CountedOnce ==
    /\ \A d \in Day : (IF d \in DOMAIN days THEN days[d] ELSE 0) = Cardinality(Booked(d))
    /\ \A r \in got : Timed(r) => r \in DOMAIN booked /\ booked[r] = DayOf(made[r])
    /\ \A r \in got : \E q \in DOMAIN booked : ident[q] = ident[r]

\* May the source count response r on day d?  Without a time, the collector
\* does so on any day that the exporter still repeats it.
MayCount(s, r, d) ==
    IF s = "local" \/ Timed(r) THEN DayOf(made[r]) = d
    ELSE DayOf(made[r]) <= d /\ d <= DayOf(made[r] + ExportWindow)

(***************************************************************************)
(* No source ever claims more usage for a day than there was, though       *)
(* reports are lost, repeated as absolute totals and applied late.  Only a *)
(* record without a time may be claimed for a later day than its own, one  *)
(* on which the exporter still repeated it.                                *)
(***************************************************************************)
NeverOverstated ==
    \A s \in Source, d \in Day :
        Total(rows[s][d]) <= Cardinality({r \in Response : made[r] # NoRow /\ MayCount(s, r, d)})

(***************************************************************************)
(* A report never lowers or erases a total the server has: an older        *)
(* snapshot does not overwrite a newer one, and a day that leaves the      *)
(* window of the local source keeps its last total.  Deleting logs may     *)
(* lower the totals of the local source, never the collector's.            *)
(***************************************************************************)
TotalsOnlyGrow ==
    [][\A s \in Source : (s = "otel" \/ logged = {r \in Response : made[r] # NoRow}) =>
          \A d \in Day : Total(rows'[s][d]) >= Total(rows[s][d])]_vars

(***************************************************************************)
(* Whenever the server's totals fall short of the collector's, they catch  *)
(* up on every day, though reports are lost on the way: the snapshots are  *)
(* absolute and OTelUsage repeats them all.                                *)
(***************************************************************************)
UsageArrives == []<>(\A d \in DOMAIN days : Total(rows["otel"][d]) = days[d])

(***************************************************************************)
(* Two sources that stay apart on a completed day are flagged, although    *)
(* the comparison of a report is skipped for good when the server stops    *)
(* between its two commits.                                                *)
(***************************************************************************)
MismatchIsFlagged ==
    []<>(\A d \in Day : Comparable(d, lastOtel) /\ Differ(d) => d \in events)

-----------------------------------------------------------------------------
(* The inductive invariant, in parts *)

Completed == {r \in Response : made[r] # NoRow}

IsReport(e) ==
    /\ e.source \in Source
    /\ \A d \in DOMAIN e.totals : e.totals[d] \in Nat

TypeOK ==
    /\ now \in Nat /\ made \in [Response -> Nat \cup {NoRow}]
    /\ \A r \in Completed : made[r] <= now
    /\ logged \subseteq Completed /\ unacked \subseteq Completed /\ got \subseteq Completed
    /\ ident \in [Response -> Response \cup Alike] /\ \A r \in Response : ident[r] \in {r} \cup Alike
    /\ DOMAIN booked \subseteq got /\ \A i \in DOMAIN seen : seen[i] \in Nat
    /\ rows \in [Source -> [Day -> Nat \cup {NoRow}]]
    /\ queue \in Seq({queue[i] : i \in DOMAIN queue})
    /\ \A i \in DOMAIN queue : IsReport(queue[i])

\* An identity that has been pruned, or soon may be, is of responses that the
\* exporter has given up.
PrunedTooOld ==
    \A r \in DOMAIN booked : \/ ident[r] \in DOMAIN seen /\ made[r] <= seen[ident[r]]
                             \/ made[r] + ExportWindow < now

\* Where a response that was counted, or only its like, is on the books.
BookedRight ==
    /\ \A r \in DOMAIN booked : MayCount("otel", r, booked[r]) /\ booked[r] \in DOMAIN days
    /\ \A i \in DOMAIN seen : \E q \in DOMAIN booked : ident[q] = i
    /\ \A r \in got : \E q \in DOMAIN booked : ident[q] = ident[r]

\* CountedOnce, of every day that is on the books.
CountsAreExact == \A d \in DOMAIN days : days[d] = Cardinality(Booked(d))

\* The most a report of the source can now say of day d.
Ceiling(s, d) ==
    IF s = "otel" THEN Cardinality(Booked(d)) ELSE Cardinality(On(Completed, d))

BelowCeiling ==
    /\ \A i \in DOMAIN queue : \A d \in DOMAIN queue[i].totals :
         queue[i].totals[d] <= Ceiling(queue[i].source, d)
    /\ \A s \in Source, d \in Day : Total(rows[s][d]) <= Ceiling(s, d)

\* No log has been deleted, or it does not matter to the source.
Intact(s) == s = "otel" \/ logged = Completed

\* The totals of report e are at least those of the row, of report f at least
\* those of e.
AboveRow(e) == \A d \in DOMAIN e.totals \cap Day : Total(rows[e.source][d]) <= e.totals[d]

Follows(e, f) ==
    e.source = f.source =>
        \A d \in DOMAIN e.totals \cap DOMAIN f.totals : e.totals[d] <= f.totals[d]

\* The totals of a day rise from the row through the queued reports.
Rising ==
    \A i \in DOMAIN queue : Intact(queue[i].source) =>
        AboveRow(queue[i]) /\ \A j \in 1 .. i - 1 : Follows(queue[j], queue[i])

\* The inductive invariant behind CountedOnce, NeverOverstated and
\* TotalsOnlyGrow.
IInv == TypeOK /\ PrunedTooOld /\ BookedRight /\ CountsAreExact /\ BelowCeiling /\ Rising
=============================================================================

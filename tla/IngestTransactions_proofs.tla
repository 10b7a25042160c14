----------------------- MODULE IngestTransactions_proofs -----------------------
(***************************************************************************)
(* Proofs about IngestTransactions: for any number of requests, events and *)
(* expired reports, on databases with row locks and without, overlapping   *)
(* copies of a report are stored once, are never taken for replays, and    *)
(* every step of the sessions is a step of EventLog.                       *)
(***************************************************************************)
EXTENDS IngestTransactions, SequenceTheorems, TLAPS

-----------------------------------------------------------------------------
(* The queue and the stored events as sequences *)

\* The elements of a sequence by their positions.
LEMMA Elements ==
    ASSUME NEW S, NEW s \in Seq(S)
    PROVE  /\ Len(s) \in Nat /\ DOMAIN s = 1 .. Len(s) /\ \A i \in 1 .. Len(s) : s[i] \in S
           /\ \A x : x \in ToSet(s) <=> \E i \in 1 .. Len(s) : s[i] = x
<1>1. Len(s) \in Nat /\ DOMAIN s = 1 .. Len(s)
  BY LenProperties
<1>2. \A i \in 1 .. Len(s) : s[i] \in S
  BY <1>1, ElementOfSeq
<1> QED
  BY <1>1, <1>2 DEF ToSet

\* Append: a commit, and the end of enqueue.
LEMMA Appended ==
    ASSUME NEW S, NEW s \in Seq(S), NEW x \in S
    PROVE  /\ Append(s, x) \in Seq(S) /\ Len(Append(s, x)) = Len(s) + 1
           /\ \A i \in 1 .. Len(s) : Append(s, x)[i] = s[i]
           /\ Append(s, x)[Len(s) + 1] = x /\ ToSet(Append(s, x)) = ToSet(s) \cup {x}
<1> DEFINE a == Append(s, x)
<1>1. /\ a \in Seq(S) /\ Len(a) = Len(s) + 1
      /\ \A i \in 1 .. Len(s) : a[i] = s[i]
      /\ a[Len(s) + 1] = x
  BY AppendProperties
<1> HIDE DEF a
<1>2. /\ Len(s) \in Nat /\ \A y : y \in ToSet(s) <=> \E i \in 1 .. Len(s) : s[i] = y
  BY Elements
<1>3. \A y : y \in ToSet(a) <=> \E i \in 1 .. Len(s) + 1 : a[i] = y
  BY <1>1, Elements
<1>4. ASSUME NEW y PROVE y \in ToSet(a) <=> y \in ToSet(s) \cup {x}
  <2>1. ASSUME y \in ToSet(a) PROVE y \in ToSet(s) \cup {x}
    <3>1. PICK i \in 1 .. Len(s) + 1 : a[i] = y
      BY <1>3, <2>1
    <3>2. CASE i = Len(s) + 1
      BY <1>1, <3>1, <3>2
    <3>3. CASE i # Len(s) + 1
      <4>1. i \in 1 .. Len(s)
        BY <1>2, <3>3
      <4> QED
        BY <1>1, <1>2, <3>1, <4>1
    <3> QED
      BY <3>2, <3>3
  <2>2. ASSUME y \in ToSet(s) PROVE y \in ToSet(a)
    <3>1. PICK i \in 1 .. Len(s) : s[i] = y
      BY <1>2, <2>2
    <3>2. i \in 1 .. Len(s) + 1 /\ a[i] = y
      BY <1>1, <1>2, <3>1
    <3> QED
      BY <1>3, <3>2
  <2>3. x \in ToSet(a)
    BY <1>1, <1>2, <1>3
  <2> QED
    BY <2>1, <2>2, <2>3
<1>5. ToSet(a) = ToSet(s) \cup {x}
  BY <1>4
<1> QED
  BY <1>1, <1>5 DEF a

\* A suffix: what Pop leaves (n = 1) and what enqueue keeps.
LEMMA Dropped ==
    ASSUME NEW S, NEW s \in Seq(S), NEW n \in Nat, n <= Len(s)
    PROVE  LET rest == SubSeq(s, n + 1, Len(s))
           IN  /\ rest \in Seq(S) /\ Len(rest) = Len(s) - n
               /\ \A i \in 1 .. Len(s) - n : rest[i] = s[n + i]
               /\ \A x : x \in ToSet(SubSeq(s, 1, n)) <=> \E i \in 1 .. n : s[i] = x
<1> DEFINE rest == SubSeq(s, n + 1, Len(s))
           cut  == SubSeq(s, 1, n)
<1>1. Len(s) \in Nat /\ \A i \in 1 .. Len(s) : s[i] \in S
  BY Elements
<1>2. rest \in Seq(S) /\ Len(rest) = Len(s) - n /\ \A i \in 1 .. Len(s) - n : rest[i] = s[n + i]
  BY <1>1, SubSeqProperties
<1>3. cut \in Seq(S) /\ Len(cut) = n /\ \A i \in 1 .. n : cut[i] = s[i]
  BY <1>1, SubSeqProperties
<1> HIDE DEF rest, cut
<1>4. \A x : x \in ToSet(cut) <=> \E i \in 1 .. n : cut[i] = x
  BY <1>3, Elements
<1>5. \A i \in 1 .. n : cut[i] = s[i]
  BY <1>3
<1> QED
  BY <1>2, <1>4, <1>5 DEF rest, cut

\* The head of a queue that is not empty.
LEMMA HeadAndTail ==
    ASSUME NEW S, NEW s \in Seq(S), s # << >>
    PROVE  /\ Len(s) \in Nat /\ 1 <= Len(s) /\ Head(s) = s[1] /\ s[1] \in S
           /\ Tail(s) \in Seq(S) /\ Len(Tail(s)) = Len(s) - 1
           /\ \A i \in 1 .. Len(s) - 1 : Tail(s)[i] = s[i + 1]
<1>1. Len(s) \in Nat /\ Len(s) >= 1
  BY EmptySeq, LenProperties
<1> QED
  BY <1>1, HeadTailProperties, TailIsSubSeq, ElementOfSeq

-----------------------------------------------------------------------------
(* Sessions *)

\* The invariant, position by position.
LEMMA Facts ==
    ASSUME IInv
    PROVE  /\ queue \in Seq(Event) /\ stored \in Seq(Event) /\ Len(queue) \in Nat
           /\ issued \in Nat /\ lastSeq \in Nat /\ lastSeq <= issued /\ issued <= MaxEvents
           /\ MaxEvents \in Nat
           /\ req \in [Request -> Session \cup {Free}]
           /\ \A i \in 1 .. Len(queue) : queue[i] \in Event /\ queue[i].seq \in Nat
                                         /\ queue[i].seq # 0
           /\ \A x : x \in ToSet(queue) <=> \E i \in 1 .. Len(queue) : queue[i] = x
           /\ \A e \in Event : e.seq \in Nat /\ e.seq # 0
           /\ Free \notin Session /\ Free.pc = "free" /\ Free.view = 0
           /\ \A r \in Request : req[r].view \in Nat /\ req[r].view <= issued
<1>1. /\ queue \in Seq(Event) /\ stored \in Seq(Event) /\ issued \in 0 .. MaxEvents
      /\ lastSeq \in 0 .. issued /\ req \in [Request -> Session \cup {Free}]
      /\ \A r \in Request : req[r].view \in 0 .. issued
  BY DEF IInv, TypeOK
<1>2. MaxEvents \in Nat
  BY IngestAssumption
<1>3. \A e \in Event : e.seq \in Nat /\ e.seq # 0
  BY <1>2 DEF Event
<1>4. /\ Len(queue) \in Nat /\ \A i \in 1 .. Len(queue) : queue[i] \in Event
      /\ \A x : x \in ToSet(queue) <=> \E i \in 1 .. Len(queue) : queue[i] = x
  BY <1>1, Elements
<1>5. Free.pc = "free" /\ Free.view = 0
  BY DEF Free
<1>6. Free \notin Session
  BY <1>5 DEF Session
<1> QED
  BY <1>1, <1>2, <1>3, <1>4, <1>5, <1>6

\* A session moves on and nothing is committed, whoever moves it: the agent
\* that sends or gives up, or the server.
LEMMA SessionStep ==
    ASSUME IInv, NEW r \in Request, NEW t \in Session \cup {Free},
           req' = [req EXCEPT ![r] = t],
           UNCHANGED <<locks, queue, expired, issued, lastSeq, receipts, stored>>,
           replays' \subseteq expired, InHand(t), t.view \in {0, lastSeq, req[r].view},
           waiting' \in Request \cup {NoRequest},
           waiting' # NoRequest => /\ queue # << >> /\ req'[waiting'].ev = Head(queue)
                                   /\ req'[waiting'] # Free,
           t.pc = "write" => Writers \subseteq {r},
           locks /\ t.pc \in {"verify", "insert", "write"} =>
               Holders \subseteq {r} /\ t.view = lastSeq
    PROVE  IInv'
<1>1. /\ TypeOK /\ Ascending /\ OneWriter /\ Ahead /\ Committed
      /\ AcknowledgedIsStoredOnce /\ RetryIsNotReplay
      /\ \A q \in Request : InHand(req[q])
  BY DEF IInv
<1>2. /\ req' \in [Request -> Session \cup {Free}] /\ req'[r] = t
      /\ \A q \in Request : q # r => req'[q] = req[q]
  BY Facts
<1>3. \A q \in Request : req'[q].view \in Nat /\ req'[q].view <= issued
  BY <1>2, Facts
<1>4. TypeOK'
  <2>1. replays' \subseteq Event
    BY <1>1 DEF TypeOK
  <2>2. \A q \in Request : req'[q].view \in 0 .. issued
    BY <1>3, Facts
  <2> QED
    BY <1>1, <1>2, <2>1, <2>2 DEF TypeOK
<1>5. Ascending'
  BY <1>1 DEF Ascending
<1>6. ASSUME NEW q \in Request PROVE InHand(req[q])'
  <2>1. InHand(req'[q])
    BY <1>1, <1>2
  <2> QED
    BY <2>1 DEF InHand
<1>7. OneWriter'
  <2>1. \A q \in Writers' : q \in Writers \/ q = r
    BY <1>2 DEF Writers
  <2>2. r \in Writers' => Writers \subseteq {r}
    BY <1>2 DEF Writers
  <2>3. \A q \in Holders' : q \in Holders \/ q = r
    BY <1>2 DEF Holders
  <2>4. r \in Holders' => Holders \subseteq {r} /\ req'[r].view = lastSeq
    BY <1>2 DEF Holders
  <2>5. \A q \in Holders' : q \in Request
    BY DEF Holders
  <2>6. \A p, q \in Writers' : p = q
    BY <1>1, <2>1, <2>2 DEF OneWriter
  <2>7. \A p, q \in Holders' : p = q
    BY <1>1, <2>3, <2>4 DEF OneWriter
  <2>8. \A q \in Holders' : req'[q].view = lastSeq
    BY <1>1, <1>2, <2>3, <2>4, <2>5 DEF OneWriter
  <2> QED
    BY <2>6, <2>7, <2>8 DEF OneWriter
<1>8. Ahead'
  <2> SUFFICES ASSUME NEW i \in 1 .. Len(queue), queue[i] \notin receipts
               PROVE  lastSeq < queue[i].seq /\ \A q \in Request : req'[q].view < queue[i].seq
    BY DEF Ahead
  <2>1. lastSeq < queue[i].seq /\ \A q \in Request : req[q].view < queue[i].seq
    BY <1>1 DEF Ahead
  <2> QED
    BY <1>2, <2>1, Facts
<1>9. Committed' /\ AcknowledgedIsStoredOnce' /\ RetryIsNotReplay'
  BY <1>1 DEF Committed, AcknowledgedIsStoredOnce, RetryIsNotReplay
<1> QED
  BY <1>4, <1>5, <1>6, <1>7, <1>8, <1>9 DEF IInv

\* The end of a session: its answer waits for the agent, or nobody does.
LEMMA Answered ==
    ASSUME IInv, NEW r \in Request, NEW pc \in {"ok", "error"}, req[r] # Free,
           pc = "ok" => req[r].ev \in receipts, Answer(r, pc),
           UNCHANGED <<lastSeq, receipts, stored>>, replays' \subseteq expired
    PROVE  IInv'
<1> DEFINE t == IF waiting = r THEN [req[r] EXCEPT !.pc = pc] ELSE Free
<1>1. req[r] \in Session /\ InHand(req[r])
  BY Facts DEF IInv
<1>2. /\ req' = [req EXCEPT ![r] = t]
      /\ UNCHANGED <<locks, queue, waiting, expired, issued, lastSeq, receipts, stored>>
  BY Facts DEF Answer, agentVars
<1>3. CASE waiting = r
  <2>1. /\ t \in Session /\ t.pc = pc /\ t.ev = req[r].ev /\ t.view = req[r].view
    BY <1>1, <1>3 DEF Session
  <2> HIDE DEF t
  <2>2. InHand(t)
    BY <1>1, <2>1 DEF InHand
  <2>3. req'[r] = t
    BY <1>2, Facts
  <2>4. queue # << >> /\ req[r].ev = Head(queue) /\ waiting' = r
    BY <1>2, <1>3, IngestAssumption DEF IInv, TypeOK
  <2> QED
    BY <1>2, <2>1, <2>2, <2>3, <2>4, Facts, SessionStep
<1>4. CASE waiting # r
  <2>1. req' = [req EXCEPT ![r] = Free] /\ InHand(Free)
    BY <1>2, <1>4 DEF InHand
  <2>2. /\ waiting' \in Request \cup {NoRequest}
        /\ waiting' # NoRequest => /\ queue # << >> /\ req'[waiting'].ev = Head(queue)
                                   /\ req'[waiting'] # Free
    BY <1>2, <1>4, <2>1, Facts DEF IInv, TypeOK
  <2>3. Free.view \in {0, lastSeq, req[r].view} /\ Free.pc = "free"
    BY DEF Free
  <2> QED
    BY <1>2, <2>1, <2>2, <2>3, SessionStep
<1> QED
  BY <1>3, <1>4

\* Flush sends the head of the queue, which is before all others.
LEMMA SendStep == ASSUME IInv, NEW r \in Request, Send(r) PROVE IInv'
<1> DEFINE t == [pc |-> "select", ev |-> Head(queue), view |-> 0]
<1>1. /\ req' = [req EXCEPT ![r] = t] /\ waiting' = r /\ queue # << >>
      /\ UNCHANGED <<locks, queue, expired, issued, lastSeq, receipts, replays, stored>>
  BY DEF Send, serverVars
<1>2. Head(queue) = queue[1] /\ 1 \in 1 .. Len(queue) /\ Head(queue) \in Event
  BY <1>1, Facts, HeadAndTail
<1>3. t \in Session /\ t.pc = "select" /\ t.ev = queue[1] /\ t.view = 0 /\ t.ev = Head(queue)
  BY <1>2 DEF Session
<1> HIDE DEF t
<1>4. InHand(t)
  <2>1. queue[1].seq <= issued /\ queue[1] \in ToSet(queue)
    BY <1>2, Facts DEF IInv, Ascending
  <2>2. \A i \in 1 .. Len(queue) : i = 1 \/ queue[1].seq < queue[i].seq
    BY <1>2, Facts DEF IInv, Ascending
  <2> QED
    BY <1>3, <2>1, <2>2 DEF InHand
<1>5. replays' \subseteq expired
  BY <1>1 DEF IInv, RetryIsNotReplay
<1>6. req'[r] = t /\ t # Free
  BY <1>1, <1>3, Facts
<1> QED
  BY <1>1, <1>3, <1>4, <1>5, <1>6, SessionStep

\* The agent gives up; a session that is not over goes on.
LEMMA GiveUpStep == ASSUME IInv, GiveUp PROVE IInv'
<1>1. /\ waiting \in Request /\ waiting' = NoRequest
      /\ req' = [req EXCEPT ![waiting] = IF req[waiting].pc \in {"ok", "error"} THEN Free
                                         ELSE req[waiting]]
      /\ UNCHANGED <<locks, queue, expired, issued, lastSeq, receipts, replays, stored>>
  BY Facts DEF GiveUp, serverVars, IInv, TypeOK
<1>2. PICK r \in Request : r = waiting
  BY <1>1
<1>3. replays' \subseteq expired
  BY <1>1 DEF IInv, RetryIsNotReplay
<1>4. CASE req[r].pc \in {"ok", "error"}
  <2>1. req' = [req EXCEPT ![r] = Free] /\ InHand(Free) /\ Free.view = 0 /\ Free.pc = "free"
    BY <1>1, <1>2, <1>4, Facts DEF InHand
  <2> QED
    BY <1>1, <1>3, <2>1, SessionStep
<1>5. CASE req[r].pc \notin {"ok", "error"}
  <2>1. req' = [req EXCEPT ![r] = req[r]] /\ req[r] \in Session \cup {Free} /\ InHand(req[r])
    BY <1>1, <1>2, <1>5, Facts DEF IInv
  <2>2. /\ req[r].pc = "write" => Writers \subseteq {r}
        /\ locks /\ req[r].pc \in {"verify", "insert", "write"} =>
               Holders \subseteq {r} /\ req[r].view = lastSeq
    BY DEF IInv, OneWriter, Writers, Holders
  <2> QED
    BY <1>1, <1>3, <2>1, <2>2, SessionStep
<1> QED
  BY <1>4, <1>5

\* A session that is not over goes on to its next statement.
LEMMA Continued ==
    ASSUME IInv, NEW r \in Request, NEW t \in Session, req' = [req EXCEPT ![r] = t],
           t.ev = req[r].ev, req[r] # Free, InHand(t), t.view \in {lastSeq, req[r].view},
           UNCHANGED <<locks, agentVars, serverVars>>,
           t.pc = "write" => Writers \subseteq {r},
           locks /\ t.pc \in {"verify", "insert", "write"} =>
               Holders \subseteq {r} /\ t.view = lastSeq
    PROVE  IInv'
<1>1. UNCHANGED <<locks, queue, waiting, expired, issued, lastSeq, receipts, replays, stored>>
      /\ replays' \subseteq expired
  BY DEF agentVars, serverVars, IInv, RetryIsNotReplay
<1>2. req'[r] = t /\ \A q \in Request : q # r => req'[q] = req[q]
  BY Facts
<1>3. /\ waiting' \in Request \cup {NoRequest}
      /\ waiting' # NoRequest => /\ queue # << >> /\ req'[waiting'].ev = Head(queue)
                                 /\ req'[waiting'] # Free
  BY <1>1, <1>2, Facts DEF IInv, TypeOK
<1> QED
  BY <1>1, <1>3, SessionStep

\* The row is read, and locked where rows can be.
LEMMA SelectStep == ASSUME IInv, NEW r \in Request, SelectDevice(r) PROVE IInv'
<1> DEFINE t == [req[r] EXCEPT !.pc = "verify", !.view = lastSeq]
<1>1. /\ req' = [req EXCEPT ![r] = t] /\ req[r].pc = "select" /\ Holders = {}
      /\ UNCHANGED <<locks, agentVars, serverVars>>
  BY Facts DEF SelectDevice
<1>2. req[r] \in Session /\ req[r] # Free /\ InHand(req[r])
  BY <1>1, Facts DEF IInv
<1>3. t \in Session /\ t.pc = "verify" /\ t.view = lastSeq /\ t.ev = req[r].ev
  BY <1>2, Facts DEF Session
<1> HIDE DEF t
<1>4. InHand(t)
  BY <1>2, <1>3 DEF InHand
<1> QED
  BY <1>1, <1>2, <1>3, <1>4, Continued

\* A session without a receipt that has read a sequence above its own is one
\* of an expired report: what is still queued is ahead of every row read.
LEMMA VerifyStep == ASSUME IInv, NEW r \in Request, Verify(r) PROVE IInv'
<1>1. req[r] \in Session /\ req[r] # Free /\ InHand(req[r]) /\ req[r].pc = "verify"
  BY Facts DEF Verify, IInv
<1>2. req[r].ev \in Event /\ req[r].ev.seq \in Nat /\ req[r].view \in Nat
  BY <1>1, Facts DEF Session
<1>3. CASE HasReceipt(r) /\ Answer(r, "ok") /\ UNCHANGED serverVars
  BY <1>1, <1>3, Answered DEF HasReceipt, serverVars, IInv, RetryIsNotReplay
<1>4. CASE /\ ~HasReceipt(r) /\ req[r].ev.seq <= req[r].view /\ Answer(r, "error")
           /\ replays' = replays \cup {req[r].ev} /\ UNCHANGED <<lastSeq, receipts, stored>>
  <2>1. req[r].ev \notin ToSet(queue)
    <3> SUFFICES ASSUME req[r].ev \in ToSet(queue) PROVE FALSE
      OBVIOUS
    <3>1. PICK i \in 1 .. Len(queue) : queue[i] = req[r].ev
      BY Facts
    <3>2. req[r].view < queue[i].seq
      BY <1>4, <3>1 DEF HasReceipt, IInv, Ahead
    <3> QED
      BY <1>2, <1>4, <3>1, <3>2
  <2>2. req[r].ev \in expired
    BY <1>1, <1>4, <2>1 DEF InHand, HasReceipt
  <2>3. replays' \subseteq expired
    BY <1>4, <2>2 DEF IInv, RetryIsNotReplay
  <2> QED
    BY <1>1, <1>4, <2>3, Answered
<1>5. CASE /\ ~HasReceipt(r) /\ req[r].ev.seq > req[r].view
           /\ Continue(r, "insert") /\ UNCHANGED serverVars
  <2> DEFINE t == [req[r] EXCEPT !.pc = "insert"]
  <2>1. req' = [req EXCEPT ![r] = t] /\ UNCHANGED <<locks, agentVars, serverVars>>
    BY <1>5, Facts DEF Continue
  <2>2. t \in Session /\ t.pc = "insert" /\ t.view = req[r].view /\ t.ev = req[r].ev
    BY <1>1 DEF Session
  <2> HIDE DEF t
  <2>3. InHand(t)
    BY <1>1, <1>2, <1>5, <2>2 DEF InHand
  <2>4. locks => Holders \subseteq {r} /\ t.view = lastSeq
    BY <1>1, <2>2 DEF IInv, OneWriter, Holders
  <2> QED
    BY <1>1, <2>1, <2>2, <2>3, <2>4, Continued
<1> QED
  BY <1>3, <1>4, <1>5 DEF Verify

\* The insert of the receipt waits for whoever writes, and then finds his.
LEMMA InsertStep == ASSUME IInv, NEW r \in Request, InsertReceipt(r) PROVE IInv'
<1>1. req[r] \in Session /\ req[r] # Free /\ InHand(req[r]) /\ req[r].pc = "insert"
      /\ Writers = {} /\ UNCHANGED serverVars
  BY Facts DEF InsertReceipt, IInv
<1>2. CASE Taken(r)
  BY <1>1, <1>2, Answered DEF InsertReceipt, Taken, serverVars, IInv, RetryIsNotReplay
<1>3. CASE ~Taken(r)
  <2> DEFINE t == [req[r] EXCEPT !.pc = "write"]
  <2>1. req' = [req EXCEPT ![r] = t] /\ UNCHANGED <<locks, agentVars, serverVars>>
    BY <1>1, <1>3, Facts DEF InsertReceipt, Continue
  <2>2. t \in Session /\ t.pc = "write" /\ t.view = req[r].view /\ t.ev = req[r].ev
    BY <1>1 DEF Session
  <2> HIDE DEF t
  <2>3. InHand(t)
    BY <1>1, <1>3, <2>2 DEF InHand, Taken
  <2>4. locks => Holders \subseteq {r} /\ t.view = lastSeq
    BY <1>1, <2>2 DEF IInv, OneWriter, Holders
  <2> QED
    BY <1>1, <2>1, <2>2, <2>3, <2>4, Continued
<1> QED
  BY <1>2, <1>3

-----------------------------------------------------------------------------
(* The commit and the agent's queue *)

\* What a writer is about to store: nobody has, its turn has come, and with
\* the row locked, or nothing expired, it is ahead of the row.
LEMMA WriterIsNext ==
    ASSUME IInv, NEW r \in Request, req[r].pc = "write"
    PROVE  /\ req[r] \in Session /\ req[r].ev \in Event /\ req[r].ev \notin receipts
           /\ req[r].ev \in expired \cup ToSet(queue) /\ req[r].ev.seq <= issued
           /\ locks \/ expired = {} => lastSeq < req[r].ev.seq
<1>1. req[r] \in Session /\ req[r] # Free
  BY Facts
<1>2. InHand(req[r]) /\ OneWriter /\ Ahead
  BY DEF IInv
<1>3. /\ req[r].ev \in Event /\ req[r].ev \notin receipts /\ req[r].view < req[r].ev.seq
      /\ req[r].ev \in expired \cup ToSet(queue) /\ req[r].ev.seq <= issued
  BY <1>1, <1>2 DEF InHand, Session
<1>4. ASSUME locks PROVE lastSeq < req[r].ev.seq
  <2>1. r \in Holders
    BY <1>4 DEF Holders
  <2> QED
    BY <1>2, <1>3, <2>1 DEF OneWriter
<1>5. ASSUME expired = {} PROVE lastSeq < req[r].ev.seq
  <2>1. PICK i \in 1 .. Len(queue) : queue[i] = req[r].ev
    BY <1>3, <1>5, Facts
  <2> QED
    BY <1>1, <1>2, <1>3, <2>1 DEF Ahead
<1> QED
  BY <1>1, <1>3, <1>4, <1>5

\* Receipt, sequence and payload of a report become visible together.
LEMMA CommitStep == ASSUME IInv, NEW r \in Request, Commit(r) PROVE IInv'
<1> DEFINE e == req[r].ev
           u == IF waiting = r THEN [req[r] EXCEPT !.pc = "ok"] ELSE Free
<1>1. /\ req[r].pc = "write" /\ receipts' = receipts \cup {e} /\ lastSeq' = e.seq
      /\ stored' = Append(stored, e) /\ req' = [req EXCEPT ![r] = u]
      /\ UNCHANGED <<locks, queue, waiting, expired, issued, replays>>
  BY DEF Commit, Answer, agentVars
<1>2. /\ TypeOK /\ Ascending /\ OneWriter /\ Ahead /\ Committed
      /\ AcknowledgedIsStoredOnce /\ RetryIsNotReplay
      /\ \A q \in Request : InHand(req[q])
  BY DEF IInv
<1>3. /\ req[r] \in Session /\ req[r] # Free /\ e \in Event /\ e \notin receipts
      /\ e.seq \in Nat /\ e.seq <= issued
      /\ locks \/ expired = {} => lastSeq < e.seq
  BY <1>1, WriterIsNext, Facts
<1>4. /\ u \in Session \cup {Free} /\ u.pc \in {"ok", "free"} /\ u.view \in {0, req[r].view}
      /\ u # Free => waiting = r /\ u.ev = e
      /\ waiting = r => u # Free /\ u.ev = e
  <2>1. CASE waiting = r
    <3> DEFINE v == [req[r] EXCEPT !.pc = "ok"]
    <3>1. v \in Session /\ v.pc = "ok" /\ v.view = req[r].view /\ v.ev = e
      BY <1>3 DEF Session
    <3>2. u = v
      BY <2>1
    <3> HIDE DEF v, u
    <3> QED
      BY <2>1, <3>1, <3>2, Facts
  <2>2. CASE waiting # r
    BY <2>2, Facts
  <2> QED
    BY <2>1, <2>2
<1> HIDE DEF u, e
<1>5. /\ req'[r] = u /\ \A q \in Request : q # r => req'[q] = req[q]
      /\ req' \in [Request -> Session \cup {Free}]
  BY <1>1, <1>4, Facts
<1>6. /\ stored' \in Seq(Event) /\ Len(stored') = Len(stored) + 1
      /\ stored'[Len(stored) + 1] = e /\ \A i \in 1 .. Len(stored) : stored'[i] = stored[i]
      /\ ToSet(stored') = ToSet(stored) \cup {e}
  BY <1>1, <1>3, Facts, Appended
<1>7. TypeOK'
  <2>1. lastSeq' \in 0 .. issued' /\ receipts' \subseteq Event
    BY <1>1, <1>2, <1>3, Facts DEF TypeOK
  <2>2. \A q \in Request : req'[q].view \in 0 .. issued'
    BY <1>1, <1>4, <1>5, Facts
  <2>3. waiting' # NoRequest => queue' # << >> /\ req'[waiting'].ev = Head(queue')
                                /\ req'[waiting'] # Free
    <3>1. CASE waiting = r
      BY <1>1, <1>2, <1>4, <1>5, <3>1, IngestAssumption DEF TypeOK, e
    <3>2. CASE waiting # r
      BY <1>1, <1>2, <1>5, <3>2 DEF TypeOK
    <3> QED
      BY <3>1, <3>2
  <2> QED
    BY <1>1, <1>2, <1>5, <1>6, <2>1, <2>2, <2>3 DEF TypeOK
<1>8. Ascending'
  BY <1>1, <1>2, <1>3 DEF Ascending
<1>9. \A i \in 1 .. Len(queue) : queue[i] = e \/ e.seq < queue[i].seq
  BY <1>2, <1>3 DEF InHand, e
<1>10. ASSUME NEW q \in Request PROVE InHand(req[q])'
  <2>1. CASE q = r
    <3>1. u # Free => u.pc = "ok"
      BY <1>4, Facts DEF Session
    <3> QED
      BY <1>1, <1>3, <1>4, <1>5, <1>9, <2>1, <3>1 DEF InHand
  <2>2. CASE q # r
    <3>1. InHand(req[q]) /\ req'[q] = req[q] /\ req[q].pc # "write"
      BY <1>1, <1>2, <1>5, <2>2 DEF OneWriter, Writers
    <3> QED
      BY <1>1, <3>1 DEF InHand
  <2> QED
    BY <2>1, <2>2
<1>11. OneWriter'
  <2>1. \A q \in Writers' : q \in Writers /\ q # r
    BY <1>4, <1>5 DEF Writers
  <2>2. \A q \in Holders' : q \in Holders /\ q # r
    BY <1>1, <1>4, <1>5 DEF Holders
  <2>3. r \in Writers /\ (locks => r \in Holders)
    BY <1>1 DEF Writers, Holders
  <2>4. Holders' = {}
    BY <1>2, <2>2, <2>3 DEF OneWriter, Holders
  <2> QED
    BY <1>2, <2>1, <2>4 DEF OneWriter
<1>12. Ahead'
  <2> SUFFICES ASSUME NEW i \in 1 .. Len(queue), queue[i] \notin receipts'
               PROVE  lastSeq' < queue[i].seq /\ \A q \in Request : req'[q].view < queue[i].seq
    BY <1>1 DEF Ahead
  <2>1. \A q \in Request : req[q].view < queue[i].seq
    BY <1>1, <1>2 DEF Ahead
  <2>2. e.seq < queue[i].seq
    BY <1>1, <1>9
  <2> QED
    BY <1>1, <1>4, <1>5, <2>1, <2>2, Facts
<1>13. Committed'
  <2>1. receipts' = ToSet(stored')
    BY <1>1, <1>2, <1>6 DEF Committed
  <2>2. ASSUME locks' \/ expired' = {}, NEW f \in receipts' PROVE f.seq <= lastSeq'
    <3>1. f = e \/ (f.seq <= lastSeq /\ f.seq \in Nat)
      BY <1>1, <1>2, <2>2, Facts DEF Committed, TypeOK
    <3> QED
      BY <1>1, <1>3, <2>2, <3>1, Facts
  <2> QED
    BY <2>1, <2>2 DEF Committed
<1>14. AcknowledgedIsStoredOnce'
  <2>0. stored \in Seq(Event)
    BY Facts
  <2>1. /\ Len(stored) \in Nat /\ DOMAIN stored = 1 .. Len(stored)
        /\ DOMAIN stored' = 1 .. Len(stored) + 1
        /\ \A x : x \in ToSet(stored) <=> \E i \in 1 .. Len(stored) : stored[i] = x
    BY <1>6, <2>0, Elements
  <2>2. \A i \in 1 .. Len(stored) : stored[i] # e
    BY <1>2, <1>3, <2>1 DEF Committed
  <2>3. ASSUME NEW i \in DOMAIN stored', NEW j \in DOMAIN stored', stored'[i] = stored'[j]
        PROVE  i = j
    <3>1. /\ i = Len(stored) + 1 \/ i \in 1 .. Len(stored)
          /\ j = Len(stored) + 1 \/ j \in 1 .. Len(stored)
      BY <2>1
    <3> QED
      BY <1>2, <1>6, <2>1, <2>2, <2>3, <3>1 DEF AcknowledgedIsStoredOnce
  <2>4. \A s \in 1 .. issued' : \E f \in ToSet(queue') \cup expired' \cup ToSet(stored') : f.seq = s
    BY <1>1, <1>2, <1>6 DEF AcknowledgedIsStoredOnce
  <2> QED
    BY <2>3, <2>4 DEF AcknowledgedIsStoredOnce
<1>15. RetryIsNotReplay'
  BY <1>1, <1>2 DEF RetryIsNotReplay
<1> QED
  BY <1>7, <1>8, <1>10, <1>11, <1>12, <1>13, <1>14, <1>15 DEF IInv

\* The agent pops the report it has an answer for: the server has stored it.
LEMMA PopStep == ASSUME IInv, Pop PROVE IInv'
<1>1. /\ waiting \in Request /\ req[waiting].pc = "ok" /\ waiting' = NoRequest
      /\ queue' = Tail(queue) /\ req' = [req EXCEPT ![waiting] = Free]
      /\ UNCHANGED <<locks, expired, issued, lastSeq, receipts, replays, stored>>
  BY DEF Pop, serverVars, IInv, TypeOK
<1>2. /\ TypeOK /\ Ascending /\ OneWriter /\ Ahead /\ Committed
      /\ AcknowledgedIsStoredOnce /\ RetryIsNotReplay
      /\ \A q \in Request : InHand(req[q])
  BY DEF IInv
<1>3. PICK r \in Request : r = waiting
  BY <1>1
<1>4. queue # << >> /\ req[r].ev = Head(queue) /\ req[r] # Free
  BY <1>2, <1>3, IngestAssumption DEF TypeOK
<1>5. /\ Len(queue) \in Nat /\ 1 <= Len(queue) /\ Head(queue) = queue[1]
      /\ queue' \in Seq(Event) /\ Len(queue') = Len(queue) - 1
      /\ \A i \in 1 .. Len(queue) - 1 : queue'[i] = queue[i + 1]
  BY <1>1, <1>4, Facts, HeadAndTail
<1>6. queue[1] \in receipts
  BY <1>1, <1>2, <1>3, <1>4, <1>5 DEF InHand
<1>7. /\ req'[r] = Free /\ \A q \in Request : q # r => req'[q] = req[q]
      /\ req' \in [Request -> Session \cup {Free}]
  BY <1>1, <1>3, Facts
<1>8. ASSUME NEW x \in ToSet(queue) PROVE x = queue[1] \/ x \in ToSet(queue')
  <2>1. PICK i \in 1 .. Len(queue) : queue[i] = x
    BY Facts
  <2>2. CASE i = 1
    BY <2>1, <2>2
  <2>3. CASE i # 1
    <3>1. i - 1 \in 1 .. Len(queue') /\ queue'[i - 1] = x
      BY <1>5, <2>1, <2>3
    <3> QED
      BY <1>5, <3>1, Elements
  <2> QED
    BY <2>2, <2>3
<1>9. \A i \in 1 .. Len(queue') : i + 1 \in 1 .. Len(queue) /\ queue'[i] = queue[i + 1]
  BY <1>5
<1>10. TypeOK'
  <2>1. \A q \in Request : req'[q].view \in 0 .. issued'
    BY <1>1, <1>7, Facts
  <2> QED
    BY <1>1, <1>2, <1>5, <1>7, <2>1 DEF TypeOK
<1>11. Ascending'
  <2>1. ASSUME NEW i \in 1 .. Len(queue'), NEW j \in 1 .. Len(queue'), i < j
        PROVE  queue'[i].seq < queue'[j].seq
    <3>1. i + 1 < j + 1
      BY <1>5, <2>1
    <3> QED
      BY <1>2, <1>9, <3>1 DEF Ascending
  <2> QED
    BY <1>1, <1>2, <1>9, <2>1 DEF Ascending
<1>12. ASSUME NEW q \in Request PROVE InHand(req[q])'
  <2>1. CASE q = r
    BY <1>7, <2>1 DEF InHand, Free
  <2>2. CASE q # r
    <3>1. InHand(req[q]) /\ req'[q] = req[q]
      BY <1>2, <1>7, <2>2
    <3>2. CASE req[q] = Free
      BY <3>1, <3>2 DEF InHand, Free
    <3>3. CASE req[q] # Free
      <4>1. req[q].ev \in receipts \cup expired \cup ToSet(queue')
        BY <1>6, <1>8, <3>1, <3>3 DEF InHand
      <4>2. \A i \in 1 .. Len(queue') : req[q].ev.seq < queue'[i].seq \/ req[q].ev = queue'[i]
        BY <1>9, <3>1, <3>3 DEF InHand
      <4> QED
        BY <1>1, <3>1, <3>3, <4>1, <4>2 DEF InHand
    <3> QED
      BY <3>2, <3>3
  <2> QED
    BY <2>1, <2>2
<1>13. OneWriter'
  <2>1. \A q \in Writers' : q \in Writers
    BY <1>7, Facts DEF Writers
  <2>2. \A q \in Holders' : q \in Holders /\ req'[q] = req[q]
    BY <1>1, <1>7, Facts DEF Holders
  <2> QED
    BY <1>1, <1>2, <2>1, <2>2 DEF OneWriter
<1>14. Ahead'
  <2> SUFFICES ASSUME NEW i \in 1 .. Len(queue'), queue'[i] \notin receipts
               PROVE  lastSeq < queue'[i].seq /\ \A q \in Request : req'[q].view < queue'[i].seq
    BY <1>1 DEF Ahead
  <2>1. lastSeq < queue'[i].seq /\ \A q \in Request : req[q].view < queue'[i].seq
    BY <1>2, <1>9 DEF Ahead
  <2>2. queue'[i].seq \in Nat /\ queue'[i].seq # 0
    BY <1>9, Facts
  <2>3. \A q \in Request : req'[q].view < queue'[i].seq
    <3>1. Free.view < queue'[i].seq
      BY <2>2, Facts DEF Free
    <3> QED
      BY <1>7, <2>1, <3>1
  <2> QED
    BY <2>1, <2>3
<1>15. Committed' /\ RetryIsNotReplay'
  BY <1>1, <1>2 DEF Committed, RetryIsNotReplay
<1>16. AcknowledgedIsStoredOnce'
  <2>1. ToSet(queue) \subseteq ToSet(queue') \cup ToSet(stored)
    BY <1>2, <1>6, <1>8 DEF Committed
  <2> QED
    BY <1>1, <1>2, <2>1 DEF AcknowledgedIsStoredOnce
<1> QED
  BY <1>10, <1>11, <1>12, <1>13, <1>14, <1>15, <1>16 DEF IInv

\* enqueue: the oldest reports lapse, the new one goes to the end.
Queues(e, n) ==
    /\ e \in Event /\ e.seq = issued + 1 /\ issued' = issued + 1 /\ waiting = NoRequest
    /\ n \in Nat /\ n <= Len(queue)
    /\ queue' \in Seq(Event) /\ Len(queue') = Len(queue) - n + 1
    /\ queue'[Len(queue) - n + 1] = e
    /\ \A i \in 1 .. Len(queue) - n : queue'[i] = queue[n + i]
    /\ \A x : x \in expired' <=> x \in expired \/ \E i \in 1 .. n : queue[i] = x
    /\ UNCHANGED <<locks, waiting, req, lastSeq, receipts, replays, stored>>

LEMMA EnqueueShape ==
    ASSUME IInv, NEW k \in Kind, NEW n \in 0 .. MaxExpired, Enqueue(k, n)
    PROVE  \E e : Queues(e, n)
<1> DEFINE rest == SubSeq(queue, n + 1, Len(queue))
           e == [dev |-> "device", seq |-> issued + 1, kind |-> k]
<1>1. /\ issued' = issued + 1 /\ waiting = NoRequest /\ n <= Len(queue) /\ issued < MaxEvents
      /\ expired' = expired \cup ToSet(SubSeq(queue, 1, n)) /\ queue' = Append(rest, e)
      /\ UNCHANGED <<locks, waiting, req, lastSeq, receipts, replays, stored>>
  BY DEF Enqueue, Idle, serverVars
<1>2. n \in Nat
  BY IngestAssumption
<1>3. e \in Event /\ e.seq = issued + 1
  BY <1>1, Facts DEF Event
<1>4. /\ rest \in Seq(Event) /\ Len(rest) = Len(queue) - n
      /\ \A i \in 1 .. Len(queue) - n : rest[i] = queue[n + i]
      /\ \A x : x \in ToSet(SubSeq(queue, 1, n)) <=> \E i \in 1 .. n : queue[i] = x
  <2>1. queue \in Seq(Event) /\ n \in Nat /\ n <= Len(queue)
    BY <1>1, <1>2, Facts
  <2> QED
    BY <2>1, Dropped, Zenon
<1> HIDE DEF rest, e
<1>5. /\ queue' \in Seq(Event) /\ Len(queue') = Len(rest) + 1 /\ queue'[Len(rest) + 1] = e
      /\ \A i \in 1 .. Len(rest) : queue'[i] = rest[i]
  BY <1>1, <1>3, <1>4, Appended
<1>6. \A x : x \in expired' <=> x \in expired \/ \E i \in 1 .. n : queue[i] = x
  BY <1>1, <1>4
<1> QED
  BY <1>1, <1>2, <1>3, <1>4, <1>5, <1>6 DEF Queues

\* Where an element of the queue is after enqueue, and where it comes from.
LEMMA EnqueuePlaces ==
    ASSUME IInv, NEW e, NEW n, Queues(e, n)
    PROVE  /\ \A i \in 1 .. Len(queue') :
                 \/ queue'[i] = e /\ i = Len(queue) - n + 1
                 \/ n + i \in 1 .. Len(queue) /\ queue'[i] = queue[n + i]
           /\ \A i \in 1 .. Len(queue) : queue[i] \in expired' \/ queue[i] \in ToSet(queue')
           /\ e \in ToSet(queue') /\ expired \subseteq expired'
<1>1. /\ Len(queue) \in Nat /\ n \in Nat /\ n <= Len(queue) /\ queue' \in Seq(Event)
      /\ Len(queue') = Len(queue) - n + 1 /\ queue'[Len(queue) - n + 1] = e
      /\ \A i \in 1 .. Len(queue) - n : queue'[i] = queue[n + i]
      /\ \A x : x \in expired' <=> x \in expired \/ \E i \in 1 .. n : queue[i] = x
  BY Facts DEF Queues
<1>2. \A x : x \in ToSet(queue') <=> \E i \in 1 .. Len(queue') : queue'[i] = x
  BY <1>1, Elements
<1>3. ASSUME NEW i \in 1 .. Len(queue')
      PROVE  \/ queue'[i] = e /\ i = Len(queue) - n + 1
             \/ n + i \in 1 .. Len(queue) /\ queue'[i] = queue[n + i]
  <2>1. i = Len(queue) - n + 1 \/ (i \in 1 .. Len(queue) - n /\ n + i \in 1 .. Len(queue))
    BY <1>1
  <2> QED
    BY <1>1, <2>1
<1>4. ASSUME NEW i \in 1 .. Len(queue) PROVE queue[i] \in expired' \/ queue[i] \in ToSet(queue')
  <2>1. CASE i <= n
    <3>1. i \in 1 .. n
      BY <1>1, <2>1
    <3> QED
      BY <1>1, <3>1
  <2>2. CASE n < i
    <3>1. i - n \in 1 .. Len(queue') /\ i - n \in 1 .. Len(queue) - n /\ n + (i - n) = i
      BY <1>1, <2>2
    <3>2. queue'[i - n] = queue[i]
      BY <1>1, <3>1
    <3> QED
      BY <1>2, <3>1, <3>2
  <2> QED
    BY <1>1, <2>1, <2>2
<1>5. e \in ToSet(queue')
  <2>1. Len(queue) - n + 1 \in 1 .. Len(queue')
    BY <1>1
  <2> QED
    BY <1>1, <1>2, <2>1
<1>6. expired \subseteq expired'
  BY <1>1
<1> QED
  BY <1>3, <1>4, <1>5, <1>6

LEMMA EnqueueStep == ASSUME IInv, NEW e, NEW n, Queues(e, n) PROVE IInv'
<1>1. /\ e \in Event /\ e.seq = issued + 1 /\ issued' = issued + 1 /\ waiting' = NoRequest
      /\ queue' \in Seq(Event) /\ Len(queue') = Len(queue) - n + 1 /\ n \in Nat /\ n <= Len(queue)
      /\ UNCHANGED <<locks, waiting, req, lastSeq, receipts, replays, stored>>
  BY DEF Queues
<1>2. /\ TypeOK /\ Ascending /\ OneWriter /\ Ahead /\ Committed
      /\ AcknowledgedIsStoredOnce /\ RetryIsNotReplay
      /\ \A q \in Request : InHand(req[q])
  BY DEF IInv
<1>3. /\ \A i \in 1 .. Len(queue') :
           \/ queue'[i] = e /\ i = Len(queue) - n + 1
           \/ n + i \in 1 .. Len(queue) /\ queue'[i] = queue[n + i]
      /\ \A i \in 1 .. Len(queue) : queue[i] \in expired' \/ queue[i] \in ToSet(queue')
      /\ e \in ToSet(queue') /\ expired \subseteq expired'
  BY EnqueuePlaces
<1>4. ASSUME NEW x \in ToSet(queue) PROVE x \in expired' \/ x \in ToSet(queue')
  BY <1>3, Facts
<1>5. TypeOK'
  <2>1. expired' \subseteq Event
    BY <1>2, Facts DEF Queues, TypeOK
  <2>2. issued' \in 0 .. MaxEvents
    BY <1>1, Facts DEF Event
  <2>3. lastSeq' \in 0 .. issued' /\ \A q \in Request : req'[q].view \in 0 .. issued'
    BY <1>1, Facts
  <2> QED
    BY <1>1, <1>2, <2>1, <2>2, <2>3 DEF TypeOK
<1>6. Ascending'
  <2>1. ASSUME NEW i \in 1 .. Len(queue'), NEW j \in 1 .. Len(queue'), i < j
        PROVE  queue'[i].seq < queue'[j].seq
    <3>1. n + i \in 1 .. Len(queue) /\ queue'[i] = queue[n + i]
      BY <1>1, <1>3, <2>1, Facts
    <3>2. queue[n + i].seq <= issued /\ queue[n + i].seq \in Nat
      BY <1>2, <3>1, Facts DEF Ascending
    <3>3. CASE queue'[j] = e
      BY <1>1, <3>1, <3>2, <3>3, Facts, SMTT(30)
    <3>4. CASE n + j \in 1 .. Len(queue) /\ queue'[j] = queue[n + j]
      <4>1. n + i < n + j
        BY <1>1, <2>1
      <4> QED
        BY <1>2, <3>1, <3>4, <4>1 DEF Ascending
    <3> QED
      BY <1>3, <3>3, <3>4
  <2>2. ASSUME NEW i \in 1 .. Len(queue') PROVE queue'[i].seq <= issued'
    <3>1. CASE queue'[i] = e
      BY <1>1, <3>1, Facts
    <3>2. CASE n + i \in 1 .. Len(queue) /\ queue'[i] = queue[n + i]
      <4>1. queue'[i].seq <= issued /\ queue'[i].seq \in Nat /\ issued \in Nat
        BY <1>2, <3>2, Facts DEF Ascending
      <4> QED
        BY <1>1, <4>1
    <3> QED
      BY <1>3, <3>1, <3>2
  <2>3. \A f \in receipts' : f.seq <= issued'
    BY <1>1, <1>2, Facts DEF Ascending, TypeOK
  <2> QED
    BY <2>1, <2>2, <2>3 DEF Ascending
<1>7. ASSUME NEW q \in Request PROVE InHand(req[q])'
  <2>1. InHand(req[q]) /\ req'[q] = req[q]
    BY <1>1, <1>2
  <2>2. CASE req[q] = Free
    BY <2>1, <2>2 DEF InHand, Free
  <2>3. CASE req[q] # Free
    <3>1. req[q].ev \in receipts \cup expired' \cup ToSet(queue')
      BY <1>3, <1>4, <2>1, <2>3 DEF InHand
    <3>2. req[q].ev.seq \in Nat /\ req[q].ev.seq <= issued
      BY <2>1, <2>3, Facts DEF InHand, Session
    <3>3. ASSUME NEW i \in 1 .. Len(queue')
          PROVE  req[q].ev.seq < queue'[i].seq \/ req[q].ev = queue'[i]
      <4>1. CASE queue'[i] = e
        BY <1>1, <3>2, <4>1, Facts
      <4>2. CASE n + i \in 1 .. Len(queue) /\ queue'[i] = queue[n + i]
        BY <2>1, <2>3, <4>2 DEF InHand
      <4> QED
        BY <1>3, <4>1, <4>2
    <3>4. req[q].ev.seq <= issued'
      BY <1>1, <3>2, Facts
    <3> QED
      BY <1>1, <2>1, <2>3, <3>1, <3>3, <3>4 DEF InHand
  <2> QED
    BY <2>2, <2>3
<1>8. OneWriter'
  BY <1>1, <1>2 DEF OneWriter, Writers, Holders
<1>9. Ahead'
  <2> SUFFICES ASSUME NEW i \in 1 .. Len(queue'), queue'[i] \notin receipts
               PROVE  lastSeq < queue'[i].seq /\ \A q \in Request : req[q].view < queue'[i].seq
    BY <1>1 DEF Ahead
  <2>1. CASE queue'[i] = e
    BY <1>1, <2>1, Facts
  <2>2. CASE n + i \in 1 .. Len(queue) /\ queue'[i] = queue[n + i]
    BY <1>2, <2>2 DEF Ahead
  <2> QED
    BY <1>3, <2>1, <2>2
<1>10. Committed' /\ RetryIsNotReplay'
  BY <1>1, <1>2, <1>3 DEF Committed, RetryIsNotReplay
<1>11. AcknowledgedIsStoredOnce'
  <2>1. ASSUME NEW s \in 1 .. issued'
        PROVE  \E f \in ToSet(queue') \cup expired' \cup ToSet(stored) : f.seq = s
    <3>1. CASE s = issued + 1
      BY <1>1, <1>3, <3>1
    <3>2. CASE s # issued + 1
      <4>1. s \in 1 .. issued
        BY <1>1, <3>2, Facts
      <4> QED
        BY <1>2, <1>3, <1>4, <4>1 DEF AcknowledgedIsStoredOnce
    <3> QED
      BY <3>1, <3>2
  <2> QED
    BY <1>1, <1>2, <2>1 DEF AcknowledgedIsStoredOnce
<1> QED
  BY <1>5, <1>6, <1>7, <1>8, <1>9, <1>10, <1>11 DEF IInv

-----------------------------------------------------------------------------
(* Results *)

(***************************************************************************)
(* Sessions of one device, on either kind of database, keep the invariant: *)
(* one writer at a time, receipts and payloads together, and the queue     *)
(* ahead of every sequence that a session has read.                        *)
(***************************************************************************)
THEOREM Invariance == Spec => []IInv
<1>1. Init => IInv
  <2> SUFFICES ASSUME Init PROVE IInv
    OBVIOUS
  <2>1. /\ queue \in Seq(Event) /\ stored \in Seq(Event) /\ queue = << >> /\ stored = << >>
        /\ Len(queue) = 0 /\ DOMAIN stored = {} /\ ToSet(stored) = {}
    BY EmptySeq DEF Init, ToSet
  <2>2. /\ \A r \in Request : req[r] = Free /\ req[r].pc = "free" /\ req[r].view = 0
        /\ req \in [Request -> Session \cup {Free}]
    BY DEF Init, Free
  <2>3. TypeOK
    BY <2>1, <2>2, IngestAssumption DEF Init, TypeOK
  <2>4. Ascending /\ Ahead /\ Committed /\ AcknowledgedIsStoredOnce /\ RetryIsNotReplay
    BY <2>1 DEF Init, Ascending, Ahead, Committed, AcknowledgedIsStoredOnce, RetryIsNotReplay
  <2>5. Writers = {} /\ Holders = {}
    BY <2>2 DEF Writers, Holders
  <2>6. OneWriter /\ \A r \in Request : InHand(req[r])
    BY <2>2, <2>5 DEF OneWriter, InHand
  <2> QED
    BY <2>3, <2>4, <2>6 DEF IInv
<1>2. IInv /\ [Next]_vars => IInv'
  <2> SUFFICES ASSUME IInv, [Next]_vars PROVE IInv'
    OBVIOUS
  <2>1. ASSUME NEW k \in Kind, NEW n \in 0 .. MaxExpired, Enqueue(k, n) PROVE IInv'
    BY <2>1, EnqueueShape, EnqueueStep
  <2>2. CASE Pop
    BY <2>2, PopStep
  <2>3. CASE GiveUp
    BY <2>3, GiveUpStep
  <2>4. ASSUME NEW r \in Request,
               Send(r) \/ SelectDevice(r) \/ Verify(r) \/ InsertReceipt(r) \/ Commit(r)
        PROVE  IInv'
    BY <2>4, SendStep, SelectStep, VerifyStep, InsertStep, CommitStep
  <2>5. ASSUME NEW r \in Request, Reject(r) \/ SessionFails(r) PROVE IInv'
    <3>1. Answer(r, "error") /\ UNCHANGED serverVars /\ req[r].pc # "free"
      BY <2>5 DEF Reject, SessionFails
    <3>2. req[r] # Free /\ UNCHANGED <<lastSeq, receipts, stored>> /\ replays' \subseteq expired
      BY <3>1, Facts DEF serverVars, IInv, RetryIsNotReplay
    <3> QED
      BY <3>1, <3>2, Answered
  <2>6. CASE UNCHANGED vars
    BY <2>6 DEF vars, agentVars, serverVars, IInv, TypeOK, Ascending, InHand, OneWriter, Ahead,
                Committed, AcknowledgedIsStoredOnce, RetryIsNotReplay, Writers, Holders
  <2> QED
    BY <2>1, <2>2, <2>3, <2>4, <2>5, <2>6 DEF Next
<1> QED
  BY <1>1, <1>2, PTL DEF Spec

\* The waiting request is a session that carries the head of the queue.
THEOREM TypeCorrect == Spec => []TypeOK
<1>1. IInv => TypeOK
  BY DEF IInv
<1> QED
  BY <1>1, Invariance, PTL

(***************************************************************************)
(* main.py:272-273: treating the loser of the race for a receipt as a      *)
(* duplicate is safe, for any number of overlapping copies of a report.    *)
(***************************************************************************)
THEOREM DuplicateIsSafe == Spec => []AcknowledgedIsStoredOnce
<1>1. IInv => AcknowledgedIsStoredOnce
  BY DEF IInv
<1> QED
  BY <1>1, Invariance, PTL

\* verified() records a replay only for a report that had expired.
THEOREM ReplaysAreExpired == Spec => []RetryIsNotReplay
<1>1. IInv => RetryIsNotReplay
  BY DEF IInv
<1> QED
  BY <1>1, Invariance, PTL

\* Every step of agent and sessions is one of EventLog, or none.
LEMMA StepOfLog ==
    ASSUME IInv, [Next]_vars, locks \/ expired' = {}
    PROVE  [Log!Next]_(Log!logVars)
<1>1. ASSUME UNCHANGED <<queue, expired, stored, lastSeq>> PROVE [Log!Next]_(Log!logVars)
  BY <1>1 DEF Log!logVars
<1>2. ASSUME NEW k \in Kind, NEW n \in 0 .. MaxExpired, Enqueue(k, n) PROVE Log!Next
  <2>1. PICK e : Queues(e, n)
    BY <1>2, EnqueueShape
  <2>2. /\ e.seq = issued + 1 /\ queue' \in Seq(Event) /\ n \in Nat /\ n <= Len(queue)
        /\ \A x : x \in expired' <=> x \in expired \/ \E i \in 1 .. n : queue[i] = x
        /\ UNCHANGED <<lastSeq, stored>>
    BY <2>1 DEF Queues
  <2>3. /\ \A i \in 1 .. Len(queue') :
             \/ queue'[i] = e /\ i = Len(queue) - n + 1
             \/ n + i \in 1 .. Len(queue) /\ queue'[i] = queue[n + i]
        /\ \A i \in 1 .. Len(queue) : queue[i] \in expired' \/ queue[i] \in ToSet(queue')
        /\ e \in ToSet(queue')
    BY <2>1, EnqueuePlaces
  <2>4. \A x : x \in ToSet(queue') <=> \E i \in 1 .. Len(queue') : queue'[i] = x
    BY <2>2, Elements
  <2>5. /\ \A i \in 1 .. Len(queue) : queue[i].seq <= issued /\ queue[i].seq \in Nat
        /\ \A i, j \in 1 .. Len(queue) : i < j => queue[i].seq < queue[j].seq
        /\ \A f \in ToSet(stored) : f.seq <= issued
    BY Facts DEF IInv, Ascending, Committed
  <2>6. e \notin ToSet(queue) \cup ToSet(stored)
    <3>1. ~(e.seq <= issued)
      BY <2>2, Facts
    <3> QED
      BY <2>5, <3>1, Facts
  <2>7. \A x \in ToSet(queue') : x = e \/ x \in ToSet(queue)
    BY <2>3, <2>4, Facts
  <2>8. ASSUME NEW i \in 1 .. n PROVE queue[i] \in ToSet(queue) \ ToSet(queue')
    <3>1. i \in 1 .. Len(queue) /\ queue[i] \in ToSet(queue)
      BY <2>2, Facts
    <3>2. ASSUME NEW j \in 1 .. Len(queue') PROVE queue'[j] # queue[i]
      <4>1. CASE queue'[j] = e
        BY <2>6, <3>1, <4>1
      <4>2. CASE n + j \in 1 .. Len(queue) /\ queue'[j] = queue[n + j]
        <5>1. i < n + j
          BY <2>2
        <5>2. queue[i].seq < queue[n + j].seq
          BY <2>5, <3>1, <4>2, <5>1
        <5> QED
          BY <2>5, <3>1, <4>2, <5>2
      <4> QED
        BY <2>3, <4>1, <4>2
    <3> QED
      BY <2>4, <3>1, <3>2
  <2>9. ASSUME NEW x \in ToSet(queue) \ ToSet(queue') PROVE \E i \in 1 .. n : queue[i] = x
    <3>1. PICK i \in 1 .. Len(queue) : queue[i] = x
      BY Facts
    <3>2. CASE i \in 1 .. n
      BY <3>1, <3>2
    <3>3. CASE i \notin 1 .. n
      <4>1. i - n \in 1 .. Len(queue) - n /\ n + (i - n) = i
        BY <2>2, <3>3, Facts
      <4>2. queue'[i - n] = x /\ i - n \in 1 .. Len(queue')
        BY <2>1, <2>2, <3>1, <4>1, Facts, SMTT(30) DEF Queues
      <4> QED
        BY <2>4, <4>2
    <3> QED
      BY <3>2, <3>3
  <2>10. expired' = expired \cup (ToSet(queue) \ ToSet(queue'))
    BY <2>2, <2>8, <2>9
  <2>11. ToSet(queue') = (ToSet(queue) \ (ToSet(queue) \ ToSet(queue'))) \cup {e}
    BY <2>3, <2>7
  <2>12. Log!Submit(e, ToSet(queue) \ ToSet(queue'))
    BY <2>2, <2>6, <2>10, <2>11 DEF Log!Submit
  <2> QED
    BY <2>3, <2>12 DEF Log!Next
<1>3. CASE Pop
  <2>1. /\ waiting \in Request /\ waiting # NoRequest /\ req[waiting].pc = "ok"
        /\ queue' = Tail(queue) /\ UNCHANGED <<expired, stored, lastSeq>>
    BY <1>3 DEF Pop, serverVars, IInv, TypeOK
  <2>2. queue # << >> /\ req[waiting].ev = Head(queue) /\ req[waiting] # Free
    BY <2>1 DEF IInv, TypeOK
  <2>3. Head(queue) \in ToSet(stored)
    BY <2>1, <2>2 DEF IInv, InHand, Committed
  <2>4. /\ Len(queue) \in Nat /\ 1 <= Len(queue) /\ Head(queue) = queue[1]
        /\ queue' \in Seq(Event) /\ Len(queue') = Len(queue) - 1
        /\ \A i \in 1 .. Len(queue) - 1 : queue'[i] = queue[i + 1]
    BY <2>1, <2>2, Facts, HeadAndTail
  <2>5. \A x : x \in ToSet(queue') <=> \E i \in 1 .. Len(queue') : queue'[i] = x
    BY <2>4, Elements
  <2>6. ToSet(queue') \subseteq ToSet(queue)
    <3>1. \A i \in 1 .. Len(queue') : i + 1 \in 1 .. Len(queue) /\ queue'[i] = queue[i + 1]
      BY <2>4
    <3> QED
      BY <2>5, <3>1, Facts
  <2>7. ASSUME NEW x \in ToSet(queue) \ ToSet(queue') PROVE x \in ToSet(stored)
    <3>1. PICK i \in 1 .. Len(queue) : queue[i] = x
      BY Facts
    <3>2. CASE i = 1
      BY <2>3, <2>4, <3>1, <3>2
    <3>3. CASE i # 1
      <4>1. i - 1 \in 1 .. Len(queue') /\ queue'[i - 1] = x
        BY <2>4, <3>1, <3>3
      <4> QED
        BY <2>5, <4>1
    <3> QED
      BY <3>2, <3>3
  <2>8. Log!Release(ToSet(queue) \ ToSet(queue'))
    BY <2>1, <2>6, <2>7 DEF Log!Release
  <2> QED
    BY <2>8 DEF Log!Next
<1>4. ASSUME NEW r \in Request, Commit(r) PROVE Log!Next
  <2> DEFINE e == req[r].ev
  <2>1. /\ req[r].pc = "write" /\ lastSeq' = e.seq /\ stored' = Append(stored, e)
        /\ UNCHANGED <<queue, expired>>
    BY <1>4 DEF Commit, Answer, agentVars
  <2>2. /\ e \in Event /\ e \notin receipts /\ e \in expired \cup ToSet(queue)
        /\ lastSeq < e.seq
    BY <2>1, WriterIsNext
  <2> HIDE DEF e
  <2>3. ToSet(stored') = ToSet(stored) \cup {e} /\ receipts = ToSet(stored)
    BY <2>1, <2>2, Facts, Appended DEF IInv, Committed
  <2>4. ASSUME NEW f \in ToSet(stored) PROVE f.seq < e.seq
    <3>1. f.seq <= lastSeq /\ f.seq \in Nat
      BY <2>1, <2>3, Facts DEF IInv, Committed, TypeOK
    <3> QED
      BY <2>2, <3>1, Facts
  <2>5. e.dev = "device" /\ e.seq \in Nat
    BY <2>2, Facts DEF Event
  <2>6. [d \in {"device"} |-> lastSeq'] = [[d \in {"device"} |-> lastSeq] EXCEPT !["device"] = e.seq]
    BY <2>1
  <2>7. Log!Store(e)
    BY <2>1, <2>2, <2>3, <2>4, <2>5, <2>6 DEF Log!Store
  <2> QED
    BY <2>3, <2>7 DEF Log!Next
<1>5. CASE GiveUp
  BY <1>1, <1>5 DEF GiveUp, serverVars
<1>6. ASSUME NEW r \in Request,
             \/ Send(r) \/ SelectDevice(r) \/ Verify(r) \/ InsertReceipt(r)
             \/ Reject(r) \/ SessionFails(r)
      PROVE  [Log!Next]_(Log!logVars)
  <2>1. UNCHANGED <<queue, expired, stored, lastSeq>>
    BY <1>6 DEF Send, SelectDevice, Verify, InsertReceipt, Reject, SessionFails, Answer, Continue,
                agentVars, serverVars
  <2> QED
    BY <1>1, <2>1
<1>7. CASE UNCHANGED vars
  BY <1>1, <1>7 DEF vars, agentVars, serverVars
<1> QED
  BY <1>2, <1>3, <1>4, <1>5, <1>6, <1>7 DEF Next

(***************************************************************************)
(* main.py:252-253: with row locks, and without them until a report        *)
(* expires, the concurrent sessions store what EventLog stores, in order.  *)
(***************************************************************************)
THEOREM SessionsImplementEventLog == Spec => IngestIsEventLog
<1>1. IInv /\ [Next]_vars => [locks \/ expired' = {} => [Log!Next]_(Log!logVars)]_vars
  BY StepOfLog
<1> QED
  BY <1>1, Invariance, PTL DEF Spec, IngestIsEventLog
=============================================================================

------------------------ MODULE SignedDelivery_proofs ------------------------
(***************************************************************************)
(* Proofs about SignedDelivery, for every set of devices, every retention  *)
(* with ReceiptRetention >= QueueRetention + FlushTime + RequestLife, and  *)
(* every bound: nothing is lost in silence, REPLAY_ATTEMPT is raised only  *)
(* for events the agent's own queue has dropped, and the channel           *)
(* implements EventLog.                                                    *)
(***************************************************************************)
EXTENDS SignedDelivery, SequenceTheorems, TLAPS

(***************************************************************************)
(* What Push writes: the items after the first n, in order, then the new   *)
(* one (queue.go:66-74).                                                   *)
(***************************************************************************)
LEMMA PushedQueue ==
    ASSUME NEW q \in Seq(Event), NEW n \in 0 .. Len(q), NEW e \in Event
    PROVE  LET p == Append(SubSeq(q, n + 1, Len(q)), e)
           IN  /\ p \in Seq(Event)
               /\ Len(p) = Len(q) - n + 1
               /\ \A i \in 1 .. Len(q) - n : p[i] = q[n + i]
               /\ p[Len(q) - n + 1] = e
<1> DEFINE s == SubSeq(q, n + 1, Len(q))
<1>1. Len(q) \in Nat
  BY LenProperties
<1>2. /\ s \in Seq(Event) /\ Len(s) = Len(q) - n
      /\ \A i \in 1 .. Len(q) - n : s[i] = q[n + i]
  <2>1. CASE n = Len(q)
    BY <1>1, <2>1, SubSeqProperties, SMTT(20)
  <2>2. CASE n < Len(q)
    BY <1>1, <2>2, SubSeqProperties, SMTT(20)
  <2> QED
    BY <1>1, <2>1, <2>2
<1> HIDE DEF s
<1>3. /\ Append(s, e) \in Seq(Event) /\ Len(Append(s, e)) = Len(s) + 1
      /\ Append(s, e)[Len(s) + 1] = e
      /\ \A i \in 1 .. Len(s) : Append(s, e)[i] = s[i]
  BY <1>2, AppendProperties
<1> QED
  BY <1>1, <1>2, <1>3 DEF s

(***************************************************************************)
(* What Pop leaves: everything but the head, in order (queue.go:85-93).    *)
(***************************************************************************)
LEMMA PoppedQueue ==
    ASSUME NEW q \in Seq(Event), q # << >>
    PROVE  /\ Tail(q) \in Seq(Event)
           /\ Len(q) \in Nat /\ Len(q) >= 1
           /\ Len(Tail(q)) = Len(q) - 1
           /\ \A i \in 1 .. Len(q) - 1 : Tail(q)[i] = q[i + 1]
           /\ Head(q) = q[1] /\ Head(q) \in Event
<1>1. Len(q) \in Nat /\ Len(q) >= 1
  BY EmptySeq, LenProperties
<1> QED
  BY <1>1, HeadTailProperties, TailIsSubSeq, ElementOfSeq
-----------------------------------------------------------------------------
(* Type correctness *)

\* verified() gives one of its answers.
LEMMA VerdictType == ASSUME NEW e PROVE Verdict(e) \in Verdicts
BY DEF Verdict, Verdicts

\* The server's tables keep their types, whatever request is handled.
LEMMA ServeType ==
    ASSUME TypeOK, NEW e \in Event, Serve(e)
    PROVE  /\ Registered' = Registered /\ lastSeq' \in [Registered -> Nat]
           /\ receipts' \subseteq Receipt
           /\ replays' \subseteq Event /\ applied' \subseteq Event
<1>1. Verdict(e) = "accepted" => e.dev \in Registered
  BY DEF Verdict
<1> QED
  BY <1>1 DEF TypeOK, Serve, Registered, Receipt, Event, serverVars

\* Every step keeps the types.
LEMMA TypeStep == ASSUME TypeOK, [Next]_vars PROVE TypeOK'
<1> USE DEF clientVars, serverVars, ghostVars, envVars
<1>1. CASE Restart
  BY <1>1 DEF Restart, TypeOK, Registered, Steps, Verdicts
<1>2. CASE SaveDiscoveredHome
  BY <1>2 DEF SaveDiscoveredHome, TypeOK, Registered
<1>3. ASSUME NEW k \in Kind, Enqueue(k) PROVE TypeOK'
  <2>1. mem' \in Config /\ disk' \in Config /\ issued' \in Nat
    <3>1. mem \in Config /\ issued \in Nat
      BY DEF TypeOK
    <3>2. mem' = [mem EXCEPT !.next = mem.next + 1] /\ disk' = mem' /\ issued' = issued + 1
      BY <1>3 DEF Enqueue, Sign
    <3> QED
      BY <3>1, <3>2 DEF Config
  <2>2. item' \in Event
    BY <1>3 DEF Enqueue, Signed, Config, Event, TypeOK
  <2> QED
    BY <1>3, <2>1, <2>2 DEF Enqueue, TypeOK, Registered, Steps, Verdicts
<1>4. CASE EnqueueSaveFails
  BY <1>4 DEF EnqueueSaveFails, Sign, Config, TypeOK, Registered, Verdicts
<1>5. CASE Push
  <2>1. PICK n \in 0 .. Len(queue) :
          /\ queue' = Append(SubSeq(queue, n + 1, Len(queue)), [item EXCEPT !.at = now])
          /\ expired' = expired \cup {queue[i] : i \in 1 .. n}
    BY <1>5 DEF Push
  <2>2. [item EXCEPT !.at = now] \in Event
    BY <1>5 DEF Push, TypeOK, Event
  <2>3. queue' \in Seq(Event)
    BY <2>1, <2>2, PushedQueue DEF TypeOK
  <2>4. expired' \subseteq Event
    BY <2>1, ElementOfSeq, LenProperties DEF TypeOK
  <2> QED
    BY <1>5, <2>3, <2>4 DEF Push, TypeOK, Registered, Steps, Flushing, Verdicts
<1>6. CASE PushFails \/ FlushDone \/ RequestFails \/ PopFails \/ Refused
           \/ RegisterFails \/ ReEnrollFails
  <2>1. Return /\ UNCHANGED <<mem, disk, queue, serverVars, ghostVars, envVars>>
    BY <1>6 DEF PushFails, FlushDone, RequestFails, PopFails, Refused, RegisterFails,
                ReEnrollFails
  <2> QED
    BY <2>1 DEF Return, TypeOK, Registered, Steps, Verdicts
<1>7. CASE Send
  <2>1. Head(queue) \in Event
    BY <1>7, PoppedQueue DEF Send, TypeOK
  <2> QED
    BY <1>7, <2>1 DEF Send, TypeOK, Registered, Steps, Flushing, Verdicts
<1>8. CASE Exchange
  <2>1. item \in Event
    BY <1>8 DEF Exchange, TypeOK
  <2>2. pc' \in Verdicts
    BY <1>8, VerdictType DEF Exchange
  <2> QED
    BY <1>8, <2>1, <2>2, ServeType DEF Exchange, TypeOK, Steps, Flushing, Verdicts
<1>9. CASE AnswerLost
  <2>1. item \in Event
    BY <1>9 DEF AnswerLost, TypeOK
  <2> QED
    BY <1>9, <2>1, ServeType DEF AnswerLost, Return, TypeOK, Steps, Verdicts
<1>10. CASE RequestTimesOut
  BY <1>10 DEF RequestTimesOut, Abandon, Request, Return, TypeOK, Registered, Steps, Verdicts
<1>11. CASE Pop
  <2>1. queue' \in Seq(Event)
    BY <1>11, PoppedQueue DEF Pop, TypeOK
  <2> QED
    BY <1>11, <2>1 DEF Pop, TypeOK, Registered, Steps, Flushing, Verdicts
<1>12. ASSUME NEW d \in Device, Register(d) PROVE TypeOK'
  BY <1>12 DEF Register, AddDevice, TypeOK, Registered, Steps, Verdicts
<1>13. ASSUME NEW d \in Device, RegisterAnswerLost(d) PROVE TypeOK'
  BY <1>13 DEF RegisterAnswerLost, AddDevice, Return, TypeOK, Registered, Steps, Verdicts
<1>14. CASE ConfigureTelemetry
  BY <1>14 DEF ConfigureTelemetry, TypeOK, Registered, Steps, Verdicts
<1>15. CASE Clear
  BY <1>15, EmptySeq DEF Clear, TypeOK, Registered, Steps, Verdicts
<1>16. CASE SaveReEnrolled
  BY <1>16 DEF SaveReEnrolled, Return, Config, TypeOK, Registered, Steps, Verdicts
<1>17. CASE Crash
  BY <1>17 DEF Crash, Abandon, Request, TypeOK, Registered, Steps, Verdicts
<1>18. ASSUME NEW r \in late, LateArrival(r) PROVE TypeOK'
  <2>1. r.ev \in Event
    BY DEF TypeOK, Request
  <2> QED
    BY <1>18, <2>1, ServeType DEF LateArrival, TypeOK
<1>19. CASE Purge
  BY <1>19 DEF Purge, TypeOK, Registered
<1>20. CASE ResetDatabase
  BY <1>20 DEF ResetDatabase, TypeOK, Registered
<1>21. CASE Tick
  BY <1>21 DEF Tick, TypeOK, Registered
<1>22. CASE UNCHANGED vars
  BY <1>22 DEF vars, TypeOK, Registered
<1> QED
  BY <1>1, <1>2, <1>3, <1>4, <1>5, <1>6, <1>7, <1>8, <1>9, <1>10, <1>11, <1>12, <1>13,
     <1>14, <1>15, <1>16, <1>17, <1>18, <1>19, <1>20, <1>21, <1>22
     DEF Next, Agent, Environment, Flush, ReEnroll

(***************************************************************************)
(* The Go and SQL types of the state, and an envelope or a device id in    *)
(* hand wherever the code dereferences one, in every reachable state.      *)
(***************************************************************************)
THEOREM TypeCorrect == Spec => []TypeOK
<1>1. Init => TypeOK
  BY EmptySeq DEF Init, TypeOK, Config, Steps, Flushing, Verdicts, Registered
<1>2. TypeOK /\ [Next]_vars => TypeOK'
  BY TypeStep
<1> QED
  BY <1>1, <1>2, PTL DEF Spec
-----------------------------------------------------------------------------
(* The inductive invariant *)

\* A request the server may handle next: not ahead of the queue.
Behind(e) ==
    /\ e \in Event /\ e \in Known /\ e.dev \in owned
    /\ e.dev = disk.dev =>
         /\ e.seq < disk.next
         /\ \A i \in 1 .. Len(queue) :
              e.seq <= queue[i].seq /\ (e.seq = queue[i].seq => e = queue[i])

\* The item Flush has sent is such a request.
LEMMA ItemBehind ==
    ASSUME IInv, pc = "wait" PROVE Behind(item) /\ item.dev = disk.dev
<1>1. /\ queue \in Seq(Event) /\ Len(queue) \in Nat /\ Len(queue) >= 1
      /\ queue[1] \in Event /\ item = queue[1]
  BY PoppedQueue DEF IInv, TypeOK, InHand
<1>2. item \in Known
  BY <1>1 DEF Known, Queued
<1>3. \A i \in 1 .. Len(queue) : queue[1].seq <= queue[i].seq
                                /\ (queue[1].seq = queue[i].seq => i = 1)
  <2> SUFFICES ASSUME NEW i \in 1 .. Len(queue)
               PROVE  queue[1].seq <= queue[i].seq /\ (queue[1].seq = queue[i].seq => i = 1)
    OBVIOUS
  <2>1. queue[1].seq \in Nat /\ queue[i].seq \in Nat
    <3>1. queue[i] \in Event
      BY <1>1, ElementOfSeq
    <3> QED
      BY <1>1, <3>1 DEF Event
  <2>2. 1 < i => queue[1].seq < queue[i].seq
    BY <1>1 DEF IInv, QueueShape
  <2> QED
    BY <2>1, <2>2
<1> QED
  BY <1>1, <1>2, <1>3 DEF Behind, IInv, Identity, QueueShape

\* So is every request the agent has given up on.
LEMMA LateIsBehind ==
    ASSUME IInv, NEW r \in late PROVE Behind(r.ev)
BY DEF IInv, TypeOK, Request, LateBehind, Behind, Known

\* The facts about the server's tables that handling a request preserves.
LEMMA ServeBehind ==
    ASSUME IInv, NEW e, Behind(e), Serve(e),
           UNCHANGED <<disk, queue, now, owned>>
    PROVE  /\ ServerBehind'
           /\ \A d \in Registered' : d \notin owned' => lastSeq'[d] = 0
           /\ applied \subseteq applied' /\ applied' \subseteq applied \cup {e}
           /\ \A r \in receipts' : \E f \in applied' : f.dev = r.dev /\ f.id = r.id
           /\ \A f \in applied' :
                f.dev \in owned' /\ (f.dev \in Registered' => f.seq <= lastSeq'[f.dev])
           /\ \A d \in Registered : d # e.dev => lastSeq'[d] = lastSeq[d]
           /\ e.dev \in Registered => lastSeq'[e.dev] \in {lastSeq[e.dev], e.seq}
           /\ Registered' = Registered
<1> USE DEF Registered
<1>1. e \in Event /\ e.dev \in owned /\ Registered' = Registered
  BY ServeType DEF Behind, IInv
<1>2. CASE Verdict(e) # "accepted"
  <2>1. UNCHANGED <<lastSeq, receipts, applied>>
    BY <1>2 DEF Serve, serverVars
  <2> QED
    BY <1>1, <2>1 DEF IInv, ServerBehind, ReceiptOrOld, FreshDevices, History
<1>3. CASE Verdict(e) = "accepted"
  <2>1. /\ e.dev \in Registered /\ ~(e.seq <= lastSeq[e.dev])
        /\ receipts' = receipts \cup {[dev |-> e.dev, id |-> e.id, at |-> now]}
        /\ lastSeq'  = [lastSeq EXCEPT ![e.dev] = e.seq]
        /\ applied'  = applied \cup {e}
    BY <1>3 DEF Serve, Verdict
  <2>2. /\ e.seq \in Nat /\ now \in Nat /\ lastSeq \in [Registered -> Nat]
        /\ queue \in Seq(Event) /\ Len(queue) \in Nat /\ applied \subseteq Event
    BY <1>1, LenProperties DEF IInv, TypeOK, Event
  <2>3. ServerBehind'
    <3>1. CASE e.dev # disk.dev
      BY <1>1, <2>1, <2>2, <3>1 DEF IInv, ServerBehind, ReceiptOrOld
    <3>2. CASE e.dev = disk.dev
      <4> SUFFICES ASSUME disk.dev \in Registered
                   PROVE  /\ lastSeq'[disk.dev] < disk.next
                          /\ \A i \in 1 .. Len(queue) :
                               /\ lastSeq'[disk.dev] <= queue[i].seq
                               /\ lastSeq'[disk.dev] = queue[i].seq => ReceiptOrOld(queue[i])'
        BY <1>1 DEF ServerBehind, ReceiptOrOld
      <4>1. lastSeq'[disk.dev] = e.seq
        BY <2>1, <2>2, <3>2
      <4>2. ASSUME NEW i \in 1 .. Len(queue), e = queue[i] PROVE ReceiptOrOld(queue[i])'
        <5>1. e.at <= now /\ e.at \in Nat
          BY <1>1, <4>2 DEF IInv, QueueShape, Event
        <5> DEFINE m == [dev |-> e.dev, id |-> e.id, at |-> now]
        <5>2. m \in receipts' /\ m.dev = e.dev /\ m.id = e.id /\ m.at >= e.at
          BY <2>1, <2>2, <5>1
        <5>3. \E x \in receipts' : x.dev = e.dev /\ x.id = e.id /\ x.at >= e.at
          BY <5>2
        <5> QED
          BY <4>2, <5>3 DEF ReceiptOrOld
      <4> QED
        BY <3>2, <4>1, <4>2 DEF Behind
    <3> QED
      BY <3>1, <3>2
  <2>4. \A f \in applied' :
           f.dev \in owned' /\ (f.dev \in Registered' => f.seq <= lastSeq'[f.dev])
    <3> SUFFICES ASSUME NEW f \in applied'
                 PROVE f.dev \in owned /\ (f.dev \in Registered => f.seq <= lastSeq'[f.dev])
      BY <1>1
    <3>1. CASE f = e
      BY <1>1, <2>1, <2>2, <3>1
    <3>2. CASE f \in applied
      <4>1. f.seq \in Nat /\ f.dev \in owned /\ (f.dev \in Registered => f.seq <= lastSeq[f.dev])
        BY <2>2, <3>2 DEF IInv, History, Event
      <4> QED
        BY <2>1, <2>2, <4>1
    <3> QED
      BY <2>1, <3>1, <3>2
  <2>5. \A d \in Registered' : d \notin owned' => lastSeq'[d] = 0
    BY <1>1, <2>1, <2>2 DEF IInv, FreshDevices
  <2>6. \A r \in receipts' : \E f \in applied' : f.dev = r.dev /\ f.id = r.id
    BY <2>1 DEF IInv, History
  <2> QED
    BY <1>1, <2>1, <2>2, <2>3, <2>4, <2>5, <2>6
<1> QED
  BY <1>2, <1>3

\* An operation that ends with nothing but its local variables changed.
LEMMA ReturnStep ==
    ASSUME IInv, TypeOK', Return,
           UNCHANGED <<mem, disk, queue, serverVars, ghostVars, envVars>>
    PROVE  IInv'
<1> USE DEF Return, serverVars, ghostVars, envVars, Registered, Flushing, Verdicts
<1>1. Identity' /\ QueueShape' /\ RetryIsNotReplay'
  BY DEF IInv, Identity, QueueShape, RetryIsNotReplay
<1>2. InHand' /\ LateBehind'
  BY DEF IInv, InHand, LateBehind
<1>3. ServerBehind' /\ FreshDevices' /\ FlushWindow'
  BY DEF IInv, ServerBehind, ReceiptOrOld, FreshDevices, FlushWindow
<1>4. History'
  BY DEF IInv, History, Known, Queued
<1> QED
  BY <1>1, <1>2, <1>3, <1>4 DEF IInv

\* Starting, and saving the file again: memory and file come to agree.
LEMMA ConfigStep ==
    ASSUME IInv, TypeOK', Restart \/ SaveDiscoveredHome
    PROVE  IInv'
<1> USE DEF Restart, SaveDiscoveredHome, serverVars, ghostVars, envVars, Registered,
            Flushing, Verdicts
<1>0. /\ disk \in Config /\ mem \in Config /\ disk' \in Config
      /\ disk'.dev = disk.dev /\ disk.next <= disk'.next /\ disk'.next <= mem'.next
      /\ mem'.dev = mem.dev /\ queue' = queue /\ item' = item /\ newDev' = newDev
      /\ pc \in {"idle", "down"} /\ pc' = "idle"
      /\ UNCHANGED <<serverVars, ghostVars, envVars>>
  BY DEF IInv, TypeOK, Config, Identity
<1>1. Identity' /\ RetryIsNotReplay'
  BY <1>0 DEF IInv, Identity, RetryIsNotReplay
<1>2. QueueShape'
  <2> SUFFICES ASSUME NEW i \in 1 .. Len(queue) PROVE queue[i].seq < disk'.next
    BY <1>0 DEF IInv, QueueShape
  <2>1. queue[i].seq < disk.next /\ queue[i] \in Event
    BY ElementOfSeq DEF IInv, TypeOK, QueueShape
  <2> QED
    BY <1>0, <2>1 DEF Config, Event
<1>3. InHand' /\ FlushWindow'
  BY <1>0 DEF InHand, FlushWindow
<1>4. LateBehind'
  <2> SUFFICES ASSUME NEW r \in late, r.ev.dev = disk.dev PROVE r.ev.seq < disk'.next
    BY <1>0 DEF IInv, LateBehind
  <2>1. r.ev.seq < disk.next /\ r.ev.seq \in Nat
    BY DEF IInv, TypeOK, LateBehind, Request, Event
  <2> QED
    BY <1>0, <2>1 DEF Config
<1>5. ServerBehind'
  <2>1. disk.dev \in Registered => lastSeq[disk.dev] \in Nat
    BY DEF IInv, TypeOK
  <2> QED
    BY <1>0, <2>1 DEF IInv, ServerBehind, ReceiptOrOld, Config
<1>6. FreshDevices'
  BY <1>0 DEF IInv, FreshDevices
<1>7. History'
  BY <1>0 DEF IInv, History, Known, Queued
<1> QED
  BY <1>1, <1>2, <1>3, <1>4, <1>5, <1>6, <1>7 DEF IInv

\* enqueue before the Push: the sequence is used once, stored or not.
LEMMA EnqueueStep ==
    ASSUME IInv, TypeOK', (\E k \in Kind : Enqueue(k)) \/ EnqueueSaveFails
    PROVE  IInv'
<1> USE DEF serverVars, ghostVars, envVars, Registered, Flushing, Verdicts
<1>0. /\ mem.dev = disk.dev /\ mem.next \in Nat /\ disk.next \in Nat /\ disk.next <= mem.next
      /\ issued \in Nat /\ queue \in Seq(Event) /\ Len(queue) \in Nat
      /\ \A i \in 1 .. Len(queue) : queue[i].seq \in Nat
      /\ \A r \in late : r.ev.seq \in Nat
      /\ disk.dev \in Registered => lastSeq[disk.dev] \in Nat
      /\ \A e \in Known : e.id \in Nat
  <2>1. \A i \in 1 .. Len(queue) : queue[i] \in Event
    BY ElementOfSeq DEF IInv, TypeOK
  <2>2. Known \subseteq Event
    BY <2>1 DEF Known, Queued, IInv, TypeOK, Request
  <2> QED
    BY <2>1, <2>2, LenProperties DEF IInv, TypeOK, Config, Event, Identity, Request
<1>1. /\ mem' = [mem EXCEPT !.next = mem.next + 1] /\ pc = "idle" /\ issued' = issued + 1
      /\ UNCHANGED <<queue, newDev, pushedAt, first, serverVars, owned, expired, envVars>>
      /\ \/ pc' = pc /\ disk' = disk /\ item' = item
         \/ \E k \in Kind : pc' = "push" /\ disk' = mem' /\ item' = Signed(k)
  BY DEF Enqueue, EnqueueSaveFails, Sign
<1>2. /\ mem'.dev = disk.dev /\ mem'.next = mem.next + 1
      /\ disk'.dev = disk.dev /\ disk'.next \in {disk.next, mem.next + 1}
  <2>1. mem \in Config
    BY DEF IInv, TypeOK
  <2>2. mem'.dev = mem.dev /\ mem'.next = mem.next + 1
    BY <1>1, <2>1 DEF Config
  <2> QED
    BY <1>0, <1>1, <2>2
<1>3. pc' = "push" => /\ item'.dev = disk.dev /\ item'.seq = mem.next
                      /\ item'.id = issued /\ disk'.next = mem.next + 1
  <2> SUFFICES ASSUME pc' = "push"
               PROVE  /\ item'.dev = disk.dev /\ item'.seq = mem.next
                      /\ item'.id = issued /\ disk'.next = mem.next + 1
    OBVIOUS
  <2>1. PICK k \in Kind : disk' = mem' /\ item' = Signed(k)
    BY <1>1
  <2>2. disk'.next = mem.next + 1
    BY <1>2, <2>1
  <2>3. item'.dev = mem.dev /\ item'.seq = mem.next /\ item'.id = issued
    BY <2>1 DEF Signed
  <2> QED
    BY <1>0, <2>2, <2>3
<1>4. pc' \in {"idle", "push"}
  BY <1>1
<1>5. Identity' /\ RetryIsNotReplay'
  BY <1>0, <1>1, <1>2, <1>4 DEF IInv, Identity, RetryIsNotReplay
<1>6. QueueShape'
  <2>1. ASSUME NEW i \in 1 .. Len(queue) PROVE queue[i].dev = disk'.dev /\ queue[i].seq < disk'.next
    BY <1>0, <1>2 DEF IInv, QueueShape
  <2> QED
    BY <1>1, <2>1 DEF IInv, QueueShape
<1>7. LateBehind'
  <2>1. ASSUME NEW r \in late, r.ev.dev = disk.dev PROVE r.ev.seq < disk'.next
    BY <1>0, <1>2, <2>1 DEF IInv, LateBehind
  <2> QED
    BY <1>1, <1>2, <2>1 DEF IInv, LateBehind
<1>8. ServerBehind'
  BY <1>0, <1>1, <1>2 DEF IInv, ServerBehind, ReceiptOrOld
<1>9. InHand'
  <2> SUFFICES ASSUME pc' = "push"
               PROVE  /\ item'.dev = disk'.dev /\ item'.seq < disk'.next
                      /\ \A i \in 1 .. Len(queue) : queue[i].seq < item'.seq
                      /\ \A r \in late : r.ev.dev = disk.dev => r.ev.seq < item'.seq
                      /\ disk.dev \in Registered => lastSeq[disk.dev] < item'.seq
    BY <1>1, <1>2, <1>4 DEF InHand
  <2>1. \A i \in 1 .. Len(queue) : queue[i].seq < mem.next
    BY <1>0 DEF IInv, QueueShape
  <2>2. \A r \in late : r.ev.dev = disk.dev => r.ev.seq < mem.next
    BY <1>0 DEF IInv, LateBehind
  <2>3. disk.dev \in Registered => lastSeq[disk.dev] < mem.next
    BY <1>0 DEF IInv, ServerBehind
  <2> QED
    BY <1>0, <1>2, <1>3, <2>1, <2>2, <2>3
<1>10. FreshDevices' /\ FlushWindow'
  BY <1>1, <1>2, <1>4 DEF IInv, FreshDevices, FlushWindow
<1>11. History'
  <2>1. Known' = Known
    BY <1>1 DEF Known, Queued
  <2> QED
    BY <1>0, <1>1, <1>3, <1>4, <2>1 DEF IInv, History
<1> QED
  BY <1>5, <1>6, <1>7, <1>8, <1>9, <1>10, <1>11 DEF IInv

\* Queue.Push: expired items go, the new one is last.
LEMMA PushStep ==
    ASSUME IInv, TypeOK', Push
    PROVE  IInv'
<1> USE DEF serverVars, ghostVars, envVars, Registered, Flushing, Verdicts
<1> DEFINE new == [item EXCEPT !.at = now]
<1>1. PICK n \in 0 .. Len(queue) :
        /\ \A i \in 1 .. Len(queue) : Stale(queue[i]) <=> i <= n
        /\ queue' = Append(SubSeq(queue, n + 1, Len(queue)), new)
  BY DEF Push
<1>2. /\ queue \in Seq(Event) /\ Len(queue) \in Nat /\ item \in Event /\ now \in Nat
      /\ disk \in Config
      /\ \A i \in 1 .. Len(queue) : queue[i] \in Event
  BY ElementOfSeq, LenProperties DEF Push, IInv, TypeOK
<1>3. /\ new \in Event /\ new.dev = item.dev /\ new.seq = item.seq /\ new.id = item.id
      /\ new.at = now
  BY <1>2 DEF Event
<1> HIDE DEF new
<1>4. /\ Len(queue') = Len(queue) - n + 1
      /\ \A i \in 1 .. Len(queue) - n : queue'[i] = queue[n + i]
      /\ queue'[Len(queue) - n + 1] = new
  BY <1>1, <1>2, <1>3, PushedQueue
<1>5. \A i \in 1 .. Len(queue') : \/ i <= Len(queue) - n /\ n + i \in 1 .. Len(queue)
                                     /\ queue'[i] = queue[n + i]
                                  \/ i = Len(queue) - n + 1 /\ queue'[i] = new
  BY <1>1, <1>2, <1>4
<1>6. /\ item.dev = disk.dev /\ item.seq < disk.next
      /\ \A i \in 1 .. Len(queue) : queue[i].seq < item.seq
      /\ \A r \in late : r.ev.dev = disk.dev => r.ev.seq < item.seq
      /\ disk.dev \in Registered => lastSeq[disk.dev] < item.seq
      /\ item.id < issued /\ \A e \in Known : e.id # item.id
  BY DEF Push, IInv, InHand, History
<1>7. /\ pc' = "peek" /\ first' = TRUE /\ pushedAt' = now
      /\ UNCHANGED <<mem, disk, newDev, serverVars, issued, owned, envVars>>
  BY DEF Push
<1>8. Identity' /\ RetryIsNotReplay' /\ InHand' /\ FreshDevices'
  BY <1>7 DEF IInv, Identity, RetryIsNotReplay, InHand, FreshDevices
<1>9. QueueShape'
  <2>1. ASSUME NEW i \in 1 .. Len(queue')
        PROVE  queue'[i].dev = disk.dev /\ queue'[i].seq < disk.next /\ queue'[i].at <= now
    BY <1>2, <1>3, <1>5, <1>6 DEF IInv, QueueShape
  <2>2. ASSUME NEW i \in 1 .. Len(queue'), NEW j \in 1 .. Len(queue'), i < j
        PROVE  queue'[i].seq < queue'[j].seq /\ queue'[i].at <= queue'[j].at
    <3>1. n + i \in 1 .. Len(queue) /\ queue'[i] = queue[n + i]
      BY <1>1, <1>2, <1>4, <1>5, <2>2
    <3>2. CASE j <= Len(queue) - n
      <4>1. n + j \in 1 .. Len(queue) /\ queue'[j] = queue[n + j] /\ n + i < n + j
        BY <1>1, <1>2, <1>4, <2>2, <3>2
      <4> QED
        BY <3>1, <4>1 DEF IInv, QueueShape
    <3>3. CASE queue'[j] = new
      BY <1>3, <1>6, <3>1, <3>3 DEF IInv, QueueShape
    <3> QED
      BY <1>5, <3>2, <3>3
  <2> QED
    BY <1>7, <2>1, <2>2 DEF QueueShape
<1>10. LateBehind'
  <2> SUFFICES ASSUME NEW r \in late, r.ev.dev = disk.dev, NEW i \in 1 .. Len(queue')
               PROVE  r.ev.seq <= queue'[i].seq /\ (r.ev.seq = queue'[i].seq => r.ev = queue'[i])
    BY <1>7 DEF IInv, LateBehind
  <2>1. r.ev.seq \in Nat /\ item.seq \in Nat
    BY <1>2 DEF IInv, TypeOK, Request, Event
  <2> QED
    BY <1>3, <1>5, <1>6, <2>1 DEF IInv, LateBehind
<1>11. ServerBehind'
  <2> SUFFICES ASSUME disk.dev \in Registered, NEW i \in 1 .. Len(queue')
               PROVE  /\ lastSeq[disk.dev] <= queue'[i].seq
                      /\ lastSeq[disk.dev] = queue'[i].seq => ReceiptOrOld(queue'[i])
    BY <1>7 DEF IInv, ServerBehind, ReceiptOrOld
  <2>1. lastSeq[disk.dev] \in Nat /\ item.seq \in Nat
    BY <1>2 DEF IInv, TypeOK, Event
  <2> QED
    BY <1>3, <1>5, <1>6, <2>1 DEF IInv, ServerBehind
<1>12. FlushWindow'
  <2>1. ASSUME NEW i \in 1 .. Len(queue') PROVE queue'[i].at + QueueRetention >= now
    <3>1. CASE queue'[i] = new
      BY <1>2, <1>3, <3>1, TimeAssumption
    <3>2. CASE n + i \in 1 .. Len(queue) /\ queue'[i] = queue[n + i]
      <4>1. ~(n + i <= n)
        BY <1>1
      <4>2. queue[n + i].at \in Nat
        BY <1>2, <3>2 DEF Event
      <4> QED
        BY <1>1, <1>2, <3>2, <4>1, <4>2, TimeAssumption, SMTT(30) DEF Stale
    <3> QED
      BY <1>5, <3>1, <3>2
  <2> QED
    BY <1>2, <1>7, <2>1, TimeAssumption DEF FlushWindow
<1>13. History'
  <2>1. Known' \subseteq Known \cup {new}
    BY <1>5, <1>7 DEF Known, Queued
  <2> QED
    BY <1>3, <1>6, <1>7, <2>1 DEF IInv, History
<1> QED
  BY <1>8, <1>9, <1>10, <1>11, <1>12, <1>13 DEF IInv

\* Flush takes the head of the queue.
LEMMA SendStep ==
    ASSUME IInv, TypeOK', Send
    PROVE  IInv'
<1> USE DEF Send, serverVars, ghostVars, envVars, Registered, Flushing, Verdicts
<1>1. item' = queue[1]
  BY PoppedQueue DEF IInv, TypeOK
<1>2. Identity' /\ QueueShape' /\ RetryIsNotReplay' /\ InHand' /\ LateBehind'
  BY <1>1 DEF IInv, Identity, QueueShape, RetryIsNotReplay, InHand, LateBehind
<1>3. ServerBehind' /\ FreshDevices' /\ FlushWindow'
  BY DEF IInv, ServerBehind, ReceiptOrOld, FreshDevices, FlushWindow
<1>4. History'
  BY DEF IInv, History, Known, Queued
<1> QED
  BY <1>2, <1>3, <1>4 DEF IInv

(***************************************************************************)
(* The heart of the argument: the request Flush waits for is not answered  *)
(* 409.  If the server is level with the head it has stored the head, and  *)
(* the head is too young for its receipt to be purged.                     *)
(***************************************************************************)
LEMMA NotReplayed ==
    ASSUME IInv, pc = "wait" PROVE Verdict(item) # "replayed"
<1> USE DEF Registered
<1> SUFFICES ASSUME item.dev \in Registered, item.seq <= lastSeq[item.dev]
             PROVE  HasReceipt(item)
  BY DEF Verdict
<1>1. /\ queue \in Seq(Event) /\ Len(queue) \in Nat /\ Len(queue) >= 1
      /\ item = queue[1] /\ item \in Event /\ item.dev = disk.dev
  BY PoppedQueue DEF IInv, TypeOK, InHand, QueueShape
<1>2. /\ lastSeq[item.dev] \in Nat /\ item.seq \in Nat /\ item.at \in Nat
      /\ now \in Nat /\ pushedAt \in Nat
  BY <1>1 DEF IInv, TypeOK, Event
<1>3. lastSeq[item.dev] <= item.seq /\ (lastSeq[item.dev] = item.seq => ReceiptOrOld(item))
  BY <1>1 DEF IInv, ServerBehind
<1>4. ReceiptOrOld(item)
  BY <1>2, <1>3
<1>5. first
  <2>1. ~first => lastSeq[item.dev] < item.seq
    BY <1>1 DEF IInv, FlushWindow
  <2> QED
    BY <1>2, <2>1
<1>6. now <= pushedAt + FlushTime /\ item.at + QueueRetention >= pushedAt
  BY <1>1, <1>5 DEF IInv, FlushWindow, Flushing
<1>7. ~(item.at + ReceiptRetention < now)
  BY <1>2, <1>6, TimeAssumption, RetentionAssumption
<1> QED
  BY <1>4, <1>7 DEF ReceiptOrOld, HasReceipt

\* The server handles the request of the flush, answered or not.
LEMMA ExchangeStep ==
    ASSUME IInv, TypeOK', Exchange \/ AnswerLost
    PROVE  IInv'
<1> USE DEF serverVars, ghostVars, envVars, Registered
<1>0. /\ pc = "wait" /\ Serve(item)
      /\ UNCHANGED <<mem, disk, queue, ghostVars, envVars>>
      /\ \/ pc' = Verdict(item) /\ UNCHANGED <<item, newDev, pushedAt, first>>
         \/ pc' = "idle"
  BY DEF Exchange, AnswerLost, Return
<1>1. Behind(item) /\ item.dev = disk.dev /\ item \in Event /\ queue # << >> /\ item = queue[1]
  BY <1>0, ItemBehind DEF IInv, InHand, TypeOK
<1>2. /\ ServerBehind'
      /\ \A d \in Registered' : d \notin owned' => lastSeq'[d] = 0
      /\ applied \subseteq applied' /\ applied' \subseteq applied \cup {item}
      /\ \A r \in receipts' : \E f \in applied' : f.dev = r.dev /\ f.id = r.id
      /\ \A f \in applied' :
           f.dev \in owned' /\ (f.dev \in Registered' => f.seq <= lastSeq'[f.dev])
      /\ Registered' = Registered
  BY <1>0, <1>1, ServeBehind
<1>3. pc' \in Verdicts \cup {"idle"} /\ pc' # "replayed"
  BY <1>0, VerdictType, NotReplayed DEF Verdicts
<1>4. Identity' /\ QueueShape' /\ RetryIsNotReplay' /\ LateBehind'
  BY <1>0, <1>3 DEF IInv, Identity, QueueShape, RetryIsNotReplay, LateBehind
<1>5. InHand'
  BY <1>0, <1>1, <1>3 DEF InHand, Verdicts
<1>6. FreshDevices'
  <2>1. pc' = "unknown" => disk.dev \notin Registered
    BY <1>0, <1>1 DEF Verdict
  <2> QED
    BY <1>0, <1>2, <1>3, <2>1 DEF FreshDevices, Verdicts
<1>7. FlushWindow'
  BY <1>0, <1>3 DEF IInv, FlushWindow, Verdicts, Flushing
<1>8. History'
  <2>1. Known' \subseteq Known
    BY <1>0, <1>1, <1>2 DEF Known, Queued, Behind
  <2>2. pc' \in {"accepted", "duplicate"} => item' \in applied'
    <3>1. CASE pc' = "accepted"
      BY <1>0, <3>1 DEF Serve
    <3>2. CASE pc' = "duplicate"
      <4>1. HasReceipt(item)
        BY <1>0, <3>2 DEF Verdict
      <4>2. PICK f \in applied : f.dev = item.dev /\ f.id = item.id
        BY <4>1 DEF HasReceipt, IInv, History
      <4>3. f = item
        BY <1>1, <4>2 DEF Behind, Known, IInv, History
      <4> QED
        BY <1>0, <1>2, <3>2, <4>3
    <3> QED
      BY <3>1, <3>2
  <2> QED
    BY <1>0, <1>2, <1>3, <2>1, <2>2 DEF IInv, History, Verdicts
<1> QED
  BY <1>2, <1>4, <1>5, <1>6, <1>7, <1>8 DEF IInv

\* A request given up on is another copy of the head.
LEMMA AbandonStep ==
    ASSUME IInv, TypeOK', RequestTimesOut \/ Crash
    PROVE  IInv'
<1> USE DEF serverVars, ghostVars, envVars, Registered, Flushing, Verdicts
<1>0. /\ pc' \in {"idle", "down"} /\ mem' \in {mem, disk}
      /\ UNCHANGED <<disk, queue, serverVars, ghostVars, now, resets>>
      /\ late' = late \/ (pc = "wait" /\ late' = late \cup {[ev |-> item, since |-> now]})
  BY DEF RequestTimesOut, Crash, Abandon, Return
<1>1. \A r \in late' : Behind(r.ev)
  BY <1>0, ItemBehind, LateIsBehind
<1>2. Identity' /\ QueueShape' /\ RetryIsNotReplay' /\ InHand'
  BY <1>0 DEF IInv, TypeOK, Config, Identity, QueueShape, RetryIsNotReplay, InHand
<1>3. LateBehind'
  BY <1>0, <1>1 DEF LateBehind, Behind
<1>4. ServerBehind' /\ FreshDevices' /\ FlushWindow'
  BY <1>0 DEF IInv, ServerBehind, ReceiptOrOld, FreshDevices, FlushWindow
<1>5. History'
  <2>1. Known' \subseteq Known
    BY <1>0, <1>1 DEF Known, Queued, Behind
  <2> QED
    BY <1>0, <2>1 DEF IInv, History
<1> QED
  BY <1>2, <1>3, <1>4, <1>5 DEF IInv

\* Queue.Pop: what is left has never been sent.
LEMMA PopStep ==
    ASSUME IInv, TypeOK', Pop
    PROVE  IInv'
<1> USE DEF serverVars, ghostVars, envVars, Registered, Flushing, Verdicts
<1>1. /\ queue \in Seq(Event) /\ queue # << >> /\ queue' = Tail(queue)
      /\ pc' = "peek" /\ ~first'
      /\ UNCHANGED <<mem, disk, newDev, pushedAt, serverVars, ghostVars, envVars>>
  BY DEF Pop, IInv, TypeOK, InHand
<1>2. /\ Len(queue) \in Nat /\ Len(queue) >= 1 /\ Len(queue') = Len(queue) - 1
      /\ \A i \in 1 .. Len(queue') : queue'[i] = queue[i + 1] /\ i + 1 \in 1 .. Len(queue)
  BY <1>1, PoppedQueue
<1>3. \A i \in 1 .. Len(queue) : queue[i] \in Event
  BY <1>1, ElementOfSeq
<1>4. Identity' /\ RetryIsNotReplay' /\ InHand' /\ FreshDevices'
  BY <1>1 DEF IInv, Identity, RetryIsNotReplay, InHand, FreshDevices
<1>5. QueueShape'
  <2>1. ASSUME NEW i \in 1 .. Len(queue')
        PROVE  /\ queue'[i].dev = disk.dev /\ queue'[i].seq < disk.next /\ queue'[i].at <= now
               /\ \A j \in 1 .. Len(queue') :
                    i < j => queue'[i].seq < queue'[j].seq /\ queue'[i].at <= queue'[j].at
    BY <1>2, SMTT(30) DEF IInv, QueueShape
  <2> QED
    BY <1>1, <2>1 DEF QueueShape
<1>6. LateBehind'
  BY <1>1, <1>2 DEF IInv, LateBehind
<1>7. ServerBehind'
  BY <1>1, <1>2 DEF IInv, ServerBehind, ReceiptOrOld
<1>8. FlushWindow'
  <2> SUFFICES ASSUME NEW i \in 1 .. Len(queue')
               PROVE  /\ disk.dev \in Registered => lastSeq[disk.dev] < queue'[i].seq
                      /\ \A r \in late : r.ev.dev = disk.dev => r.ev.seq < queue'[i].seq
    BY <1>1 DEF FlushWindow
  <2>1. queue[1].seq < queue'[i].seq /\ queue[1].seq \in Nat /\ queue'[i].seq \in Nat
    <3>1. queue[1] \in Event /\ queue'[i] \in Event
      BY <1>2, <1>3
    <3>2. queue[1].seq < queue[i + 1].seq
      BY <1>2 DEF IInv, QueueShape
    <3> QED
      BY <1>2, <3>1, <3>2 DEF Event
  <2>2. disk.dev \in Registered => lastSeq[disk.dev] <= queue[1].seq /\ lastSeq[disk.dev] \in Nat
    BY <1>2, SMTT(30) DEF IInv, ServerBehind, TypeOK
  <2>3. \A r \in late : r.ev.dev = disk.dev => r.ev.seq <= queue[1].seq /\ r.ev.seq \in Nat
    <3>1. \A r \in late : r.ev.dev = disk.dev => r.ev.seq <= queue[1].seq
      BY <1>2 DEF IInv, LateBehind
    <3>2. \A r \in late : r.ev \in Event
      BY DEF IInv, TypeOK, Request
    <3> QED
      BY <3>1, <3>2 DEF Event
  <2> QED
    BY <2>1, <2>2, <2>3
<1>9. History'
  <2>1. Known' \subseteq Known
    BY <1>1, <1>2 DEF Known, Queued
  <2> QED
    BY <1>1, <2>1 DEF IInv, History
<1> QED
  BY <1>4, <1>5, <1>6, <1>7, <1>8, <1>9 DEF IInv

\* Re-enrollment up to Queue.Clear: a device row nobody else uses is added.
LEMMA ReEnrollStep ==
    ASSUME IInv, TypeOK',
           \/ \E d \in Device : Register(d) \/ RegisterAnswerLost(d)
           \/ ConfigureTelemetry \/ Clear
    PROVE  IInv'
<1> USE DEF serverVars, ghostVars, envVars, Registered, Flushing, Verdicts
<1>0. /\ pc \in {"unknown", "telemetry", "clear"}
      /\ pc' \in {"idle", "telemetry", "clear", "save"}
      /\ UNCHANGED <<mem, disk, ghostVars, envVars, receipts, replays, applied>>
      /\ queue' = queue \/ queue' = << >>
      /\ pc' = "save" => queue' = << >>
  BY DEF Register, RegisterAnswerLost, ConfigureTelemetry, Clear, AddDevice, Return
<1>1. disk.dev \notin Registered /\ disk.dev \in owned
  BY <1>0 DEF IInv, FreshDevices, Identity
<1>2. /\ \A d \in Registered' : d \in owned => d \in Registered /\ lastSeq'[d] = lastSeq[d]
      /\ \A d \in Registered' : d \notin owned => lastSeq'[d] = 0
  <2>1. CASE \E d \in Device : Register(d) \/ RegisterAnswerLost(d)
    <3>1. PICK d \in Device : AddDevice(d)
      BY <2>1 DEF Register, RegisterAnswerLost
    <3> QED
      BY <3>1 DEF AddDevice, IInv, FreshDevices
  <2>2. CASE ConfigureTelemetry \/ Clear
    BY <2>2 DEF ConfigureTelemetry, Clear, IInv, FreshDevices
  <2> QED
    BY <2>1, <2>2
<1>3. pc' \in {"telemetry", "clear", "save"} => newDev' \notin owned
  BY DEF Register, RegisterAnswerLost, ConfigureTelemetry, Clear, AddDevice, Return,
         IInv, FreshDevices
<1>4. disk'.dev \notin Registered'
  BY <1>0, <1>1, <1>2
<1>5. Identity' /\ RetryIsNotReplay' /\ InHand' /\ FlushWindow' /\ ServerBehind'
  BY <1>0, <1>4 DEF IInv, Identity, RetryIsNotReplay, InHand, FlushWindow, ServerBehind
<1>6. FreshDevices'
  BY <1>0, <1>2, <1>3, <1>4 DEF FreshDevices
<1>7. QueueShape' /\ LateBehind' /\ Known' \subseteq Known
  <2>1. CASE queue' = queue
    BY <1>0, <2>1 DEF IInv, QueueShape, LateBehind, Known, Queued
  <2>2. CASE queue' = << >>
    <3>1. 1 .. Len(queue') = {}
      BY <2>2, EmptySeq
    <3> QED
      BY <1>0, <3>1 DEF IInv, QueueShape, LateBehind, Known, Queued
  <2> QED
    BY <1>0, <2>1, <2>2
<1>8. History'
  BY <1>0, <1>2, <1>7 DEF IInv, History
<1> QED
  BY <1>5, <1>6, <1>7, <1>8 DEF IInv

\* The new device is saved: nothing on its way carries its name.
LEMMA SaveReEnrolledStep ==
    ASSUME IInv, TypeOK', SaveReEnrolled
    PROVE  IInv'
<1> USE DEF serverVars, ghostVars, envVars, Registered, Flushing, Verdicts
<1>0. /\ queue = << >> /\ queue' = << >> /\ pc' = "idle" /\ newDev \notin owned
      /\ disk' = [dev |-> newDev, next |-> 1] /\ mem' = disk' /\ owned' = owned \cup {newDev}
      /\ UNCHANGED <<serverVars, issued, expired, envVars>>
  BY DEF SaveReEnrolled, Return, IInv, FreshDevices
<1>1. 1 .. Len(queue') = {}
  BY <1>0, EmptySeq
<1>2. Identity' /\ RetryIsNotReplay' /\ InHand' /\ FlushWindow' /\ QueueShape' /\ FreshDevices'
  BY <1>0, <1>1 DEF IInv, Identity, RetryIsNotReplay, InHand, FlushWindow, QueueShape, FreshDevices
<1>3. LateBehind' /\ ServerBehind'
  BY <1>0, <1>1 DEF IInv, LateBehind, ServerBehind, FreshDevices
<1>4. Known' = Known
  BY <1>0 DEF Known, Queued
<1>5. History'
  BY <1>0, <1>4 DEF IInv, History
<1> QED
  BY <1>2, <1>3, <1>5 DEF IInv

\* A stray request arrives.
LEMMA LateArrivalStep ==
    ASSUME IInv, TypeOK', NEW r \in late, LateArrival(r)
    PROVE  IInv'
<1> USE DEF clientVars, ghostVars, Registered
<1>0. /\ Serve(r.ev) /\ late' = late \ {r}
      /\ UNCHANGED <<clientVars, ghostVars, now, resets>>
  BY DEF LateArrival
<1>1. Behind(r.ev) /\ r.ev \in Event
  BY LateIsBehind DEF Behind
<1>2. /\ ServerBehind'
      /\ \A d \in Registered' : d \notin owned' => lastSeq'[d] = 0
      /\ applied \subseteq applied' /\ applied' \subseteq applied \cup {r.ev}
      /\ \A x \in receipts' : \E f \in applied' : f.dev = x.dev /\ f.id = x.id
      /\ \A f \in applied' :
           f.dev \in owned' /\ (f.dev \in Registered' => f.seq <= lastSeq'[f.dev])
      /\ \A d \in Registered : d # r.ev.dev => lastSeq'[d] = lastSeq[d]
      /\ r.ev.dev \in Registered => lastSeq'[r.ev.dev] \in {lastSeq[r.ev.dev], r.ev.seq}
      /\ Registered' = Registered
  BY <1>0, <1>1, ServeBehind
<1>3. Identity' /\ QueueShape' /\ RetryIsNotReplay' /\ LateBehind' /\ FreshDevices'
  BY <1>0, <1>2 DEF IInv, Identity, QueueShape, RetryIsNotReplay, LateBehind, FreshDevices
<1>4. InHand'
  BY <1>0, <1>2 DEF IInv, InHand
<1>5. FlushWindow'
  BY <1>0, <1>2 DEF IInv, FlushWindow
<1>6. History'
  <2>1. Known' \subseteq Known
    BY <1>0, <1>1, <1>2 DEF Known, Queued, Behind
  <2> QED
    BY <1>0, <1>2, <2>1 DEF IInv, History
<1> QED
  BY <1>2, <1>3, <1>4, <1>5, <1>6 DEF IInv

\* The receipt of an item younger than ReceiptRetention survives the purge.
LEMMA PurgeStep ==
    ASSUME IInv, TypeOK', Purge
    PROVE  IInv'
<1> USE DEF clientVars, ghostVars, envVars, Registered
<1>0. /\ receipts' = {r \in receipts : r.at + ReceiptRetention >= now}
      /\ UNCHANGED <<clientVars, ghostVars, envVars, lastSeq, replays, applied>>
  BY DEF Purge
<1>1. ASSUME NEW e \in Event, ReceiptOrOld(e) PROVE ReceiptOrOld(e)'
  <2>1. CASE e.at + ReceiptRetention < now
    BY <1>0, <2>1 DEF ReceiptOrOld
  <2>2. CASE ~(e.at + ReceiptRetention < now)
    <3>1. PICK r \in receipts : r.dev = e.dev /\ r.id = e.id /\ r.at >= e.at
      BY <1>1, <2>2 DEF ReceiptOrOld
    <3>2. r.at \in Nat /\ e.at \in Nat /\ now \in Nat
      BY DEF IInv, TypeOK, Receipt, Event
    <3>3. r.at + ReceiptRetention >= now
      BY <2>2, <3>1, <3>2, TimeAssumption
    <3> QED
      BY <1>0, <3>1, <3>3 DEF ReceiptOrOld
  <2> QED
    BY <2>1, <2>2
<1>2. \A i \in 1 .. Len(queue) : queue[i] \in Event
  BY ElementOfSeq DEF IInv, TypeOK
<1>3. ServerBehind'
  BY <1>0, <1>1, <1>2 DEF IInv, ServerBehind
<1>4. Identity' /\ QueueShape' /\ RetryIsNotReplay' /\ LateBehind' /\ FreshDevices'
      /\ InHand' /\ FlushWindow'
  BY <1>0 DEF IInv, Identity, QueueShape, RetryIsNotReplay, LateBehind, FreshDevices,
              InHand, FlushWindow
<1>5. History'
  BY <1>0 DEF IInv, History, Known, Queued
<1> QED
  BY <1>3, <1>4, <1>5 DEF IInv

\* After a reset there is nothing the queue could be compared with.
LEMMA ResetStep ==
    ASSUME IInv, TypeOK', ResetDatabase
    PROVE  IInv'
<1> USE DEF ResetDatabase, clientVars, ghostVars, Registered
<1>1. Identity' /\ QueueShape' /\ RetryIsNotReplay' /\ LateBehind' /\ FreshDevices'
      /\ InHand' /\ FlushWindow' /\ ServerBehind'
  BY DEF IInv, Identity, QueueShape, RetryIsNotReplay, LateBehind, FreshDevices,
         InHand, FlushWindow, ServerBehind
<1>2. History'
  BY DEF IInv, History, Known, Queued
<1> QED
  BY <1>1, <1>2 DEF IInv

\* Time passes; the flush keeps to its window.
LEMMA TickStep ==
    ASSUME IInv, TypeOK', Tick
    PROVE  IInv'
<1> USE DEF clientVars, serverVars, ghostVars, Registered
<1>0. /\ now' = now + 1 /\ now \in Nat /\ pushedAt \in Nat /\ late' \subseteq late
      /\ pc \in Flushing /\ first => now < pushedAt + FlushTime
      /\ UNCHANGED <<clientVars, serverVars, ghostVars, resets>>
  BY DEF Tick, IInv, TypeOK
<1>1. \A i \in 1 .. Len(queue) : queue[i].at \in Nat
  <2>1. \A i \in 1 .. Len(queue) : queue[i] \in Event
    BY ElementOfSeq DEF IInv, TypeOK
  <2> QED
    BY <2>1 DEF Event
<1>2. QueueShape'
  BY <1>0, <1>1 DEF IInv, QueueShape
<1>3. ServerBehind'
  BY <1>0, <1>1, TimeAssumption DEF IInv, ServerBehind, ReceiptOrOld
<1>4. FlushWindow'
  BY <1>0, TimeAssumption DEF IInv, FlushWindow
<1>5. Identity' /\ RetryIsNotReplay' /\ LateBehind' /\ FreshDevices' /\ InHand'
  BY <1>0 DEF IInv, Identity, RetryIsNotReplay, LateBehind, FreshDevices, InHand
<1>6. History'
  <2>1. Known' \subseteq Known
    BY <1>0 DEF Known, Queued
  <2> QED
    BY <1>0, <2>1 DEF IInv, History
<1> QED
  BY <1>2, <1>3, <1>4, <1>5, <1>6 DEF IInv
-----------------------------------------------------------------------------
(* Theorems *)

(***************************************************************************)
(* Every step of the agent, the server and the environment preserves the   *)
(* invariant: one case per action.                                         *)
(***************************************************************************)
LEMMA Inductive == ASSUME IInv, [Next]_vars PROVE IInv'
<1>0. TypeOK'
  BY TypeStep DEF IInv
<1>1. CASE Restart \/ SaveDiscoveredHome
  BY <1>0, <1>1, ConfigStep
<1>2. CASE (\E k \in Kind : Enqueue(k)) \/ EnqueueSaveFails
  BY <1>0, <1>2, EnqueueStep
<1>3. CASE Push
  BY <1>0, <1>3, PushStep
<1>4. CASE PushFails \/ FlushDone \/ RequestFails \/ PopFails \/ Refused
           \/ RegisterFails \/ ReEnrollFails
  <2>1. Return /\ UNCHANGED <<mem, disk, queue, serverVars, ghostVars, envVars>>
    BY <1>4 DEF PushFails, FlushDone, RequestFails, PopFails, Refused, RegisterFails,
                ReEnrollFails
  <2> QED
    BY <1>0, <2>1, ReturnStep
<1>5. CASE Send
  BY <1>0, <1>5, SendStep
<1>6. CASE Exchange \/ AnswerLost
  BY <1>0, <1>6, ExchangeStep
<1>7. CASE RequestTimesOut \/ Crash
  BY <1>0, <1>7, AbandonStep
<1>8. CASE Pop
  BY <1>0, <1>8, PopStep
<1>9. CASE \/ \E d \in Device : Register(d) \/ RegisterAnswerLost(d)
           \/ ConfigureTelemetry \/ Clear
  BY <1>0, <1>9, ReEnrollStep
<1>10. CASE SaveReEnrolled
  BY <1>0, <1>10, SaveReEnrolledStep
<1>11. CASE \E r \in late : LateArrival(r)
  BY <1>0, <1>11, LateArrivalStep
<1>12. CASE Purge
  BY <1>0, <1>12, PurgeStep
<1>13. CASE ResetDatabase
  BY <1>0, <1>13, ResetStep
<1>14. CASE Tick
  BY <1>0, <1>14, TickStep
<1>15. CASE UNCHANGED vars
  <2> USE <1>15 DEF vars, clientVars, serverVars, ghostVars, envVars, Registered
  <2>1. Identity' /\ QueueShape' /\ RetryIsNotReplay' /\ LateBehind' /\ FreshDevices'
        /\ InHand' /\ FlushWindow' /\ ServerBehind'
    BY DEF IInv, Identity, QueueShape, RetryIsNotReplay, LateBehind, FreshDevices,
           InHand, FlushWindow, ServerBehind, ReceiptOrOld
  <2>2. History'
    BY DEF IInv, History, Known, Queued
  <2> QED
    BY <1>0, <2>1, <2>2 DEF IInv
<1> QED
  BY <1>1, <1>2, <1>3, <1>4, <1>5, <1>6, <1>7, <1>8, <1>9, <1>10, <1>11, <1>12, <1>13,
     <1>14, <1>15 DEF Next, Agent, Environment, Flush, ReEnroll

(***************************************************************************)
(* The inductive invariant holds in every reachable state.                 *)
(***************************************************************************)
THEOREM Invariance == Spec => []IInv
<1>1. Init => IInv
  <2> SUFFICES ASSUME Init PROVE IInv
    OBVIOUS
  <2> USE DEF Init, Registered, Flushing, Verdicts
  <2>0. TypeOK
    BY EmptySeq DEF TypeOK, Config, Steps
  <2>1. 1 .. Len(queue) = {}
    BY EmptySeq
  <2>2. Identity /\ QueueShape /\ RetryIsNotReplay /\ LateBehind /\ FreshDevices
        /\ InHand /\ FlushWindow /\ ServerBehind
    BY <2>1 DEF Identity, QueueShape, RetryIsNotReplay, LateBehind, FreshDevices,
                InHand, FlushWindow, ServerBehind
  <2>3. History
    BY <2>1 DEF History, Known, Queued
  <2> QED
    BY <2>0, <2>2, <2>3 DEF IInv
<1>2. IInv /\ [Next]_vars => IInv'
  BY Inductive
<1> QED
  BY <1>1, <1>2, PTL DEF Spec

(***************************************************************************)
(* Flush never reads 409 "replayed sequence" for an event of its own       *)
(* queue: lost, late and repeated requests, crashes between any two steps  *)
(* and the purge of receipts never make the server take a retry for a      *)
(* replay, as long as receipts outlive the queue by the length of a flush. *)
(***************************************************************************)
THEOREM NoRetryIsReplay == Spec => []RetryIsNotReplay
<1>1. IInv => RetryIsNotReplay
  BY DEF IInv
<1> QED
  BY <1>1, Invariance, PTL

(***************************************************************************)
(* queue.json is always in signing order, of the current device, and below *)
(* the sequence config.json will hand out next.                            *)
(***************************************************************************)
THEOREM QueueAlwaysSendable == Spec => []QueueShape
<1>1. IInv => QueueShape
  BY DEF IInv
<1> QED
  BY <1>1, Invariance, PTL

(***************************************************************************)
(* The server stores no report twice and none out of order, even when the  *)
(* receipt that would recognise it has been purged.                        *)
(***************************************************************************)
THEOREM StorageIsInOrder == Spec => []StoredInOrder
<1>1. IInv => StoredInOrder
  <2> SUFFICES ASSUME IInv, NEW e \in OnItsWay, Verdict(e) = "accepted",
                      NEW f \in applied, f.dev = e.dev
               PROVE  f.seq < e.seq
    BY DEF StoredInOrder
  <2>1. e \in Event
    BY DEF IInv, TypeOK, OnItsWay, Request
  <2>2. f \in Event /\ lastSeq \in [Registered -> Nat]
    BY DEF IInv, TypeOK
  <2>3. e.dev \in Registered /\ ~(e.seq <= lastSeq[e.dev])
    BY DEF Verdict
  <2>4. f.seq <= lastSeq[e.dev]
    BY <2>3 DEF IInv, History
  <2> QED
    BY <2>1, <2>2, <2>3, <2>4 DEF Event
<1> QED
  BY <1>1, Invariance, PTL

(***************************************************************************)
(* No event leaves queue.json unless the server has stored it, it is past  *)
(* its retention, or the server has lost the device.                       *)
(***************************************************************************)
THEOREM NothingIsLostSilently == Spec => NoSilentLoss
<1> DEFINE Step == \A e \in Queued \ Queued' :
                      e \in applied \/ e \in expired' \/ e.dev \notin Registered
<1>1. IInv /\ [Next]_vars => [Step]_vars
  <2> SUFFICES ASSUME IInv, [Next]_vars, NEW e \in Queued, e \notin Queued'
               PROVE  e \in applied \/ e \in expired' \/ e.dev \notin Registered
    OBVIOUS
  <2>1. CASE queue' = queue
    BY <2>1 DEF Queued
  <2>2. CASE Push
    <3>1. PICK n \in 0 .. Len(queue) :
            /\ queue' = Append(SubSeq(queue, n + 1, Len(queue)), [item EXCEPT !.at = now])
            /\ expired' = expired \cup {queue[i] : i \in 1 .. n}
      BY <2>2 DEF Push
    <3>2. PICK i \in 1 .. Len(queue) : e = queue[i]
      BY DEF Queued
    <3>3. CASE i <= n
      BY <3>1, <3>2, <3>3
    <3>4. CASE i > n
      <4>1. [item EXCEPT !.at = now] \in Event /\ queue \in Seq(Event) /\ Len(queue) \in Nat
        <5>1. item \in Event /\ now \in Nat /\ queue \in Seq(Event)
          BY <2>2 DEF Push, IInv, TypeOK
        <5> QED
          BY <5>1, LenProperties DEF Event
      <4>2. /\ Len(queue') = Len(queue) - n + 1
            /\ \A j \in 1 .. Len(queue) - n : queue'[j] = queue[n + j]
        BY <3>1, <4>1, PushedQueue
      <4>3. i - n \in 1 .. Len(queue) - n /\ n + (i - n) = i
        BY <3>1, <3>2, <3>4, <4>1
      <4>4. queue'[i - n] = e /\ i - n \in 1 .. Len(queue')
        BY <3>2, <4>1, <4>2, <4>3
      <4> QED
        BY <4>4 DEF Queued
    <3> QED
      BY <3>1, <3>3, <3>4
  <2>3. CASE Pop
    <3>1. /\ queue \in Seq(Event) /\ queue # << >> /\ queue' = Tail(queue)
          /\ item = queue[1] /\ item \in applied
      BY <2>3 DEF Pop, IInv, TypeOK, InHand, Verdicts, History
    <3>2. /\ Len(queue) \in Nat /\ Len(queue') = Len(queue) - 1
          /\ \A i \in 1 .. Len(queue) - 1 : queue'[i] = queue[i + 1]
      BY <3>1, PoppedQueue
    <3>3. PICK i \in 1 .. Len(queue) : e = queue[i]
      BY DEF Queued
    <3>4. CASE i = 1
      BY <3>1, <3>3, <3>4
    <3>5. CASE i > 1
      <4>1. i - 1 \in 1 .. Len(queue') /\ queue'[i - 1] = queue[(i - 1) + 1] /\ (i - 1) + 1 = i
        BY <3>2, <3>3, <3>5
      <4> QED
        BY <3>3, <4>1 DEF Queued
    <3> QED
      BY <3>3, <3>4, <3>5
  <2>4. CASE Clear
    BY <2>4 DEF Clear, IInv, FreshDevices, QueueShape, Queued
  <2> QED
    BY <2>1, <2>2, <2>3, <2>4
       DEF Next, Agent, Environment, Flush, ReEnroll, vars, clientVars, serverVars, ghostVars,
           envVars, Restart, SaveDiscoveredHome, Enqueue, EnqueueSaveFails, PushFails, Send,
           FlushDone, Exchange, AnswerLost, RequestFails, RequestTimesOut, PopFails, Refused,
           Register, RegisterAnswerLost, RegisterFails, ConfigureTelemetry, SaveReEnrolled,
           ReEnrollFails, Crash, LateArrival, Purge, ResetDatabase, Tick
<1> QED
  BY <1>1, Invariance, PTL DEF Spec, NoSilentLoss

-----------------------------------------------------------------------------
(* What becomes of a stray request *)

\* A request the server handles leaves every stray request answerable: an
\* accepted one leaves a receipt from now, and none overtakes the queue.
LEMMA ServeAnswerable ==
    ASSUME LogInv, NEW e, Behind(e), Serve(e),
           UNCHANGED <<disk, queue, now, owned, expired>>, NEW r \in late
    PROVE  Answerable(r)'
<1> USE DEF Registered
<1>1. /\ IInv /\ e \in Event /\ r \in Request /\ r.ev \in Event /\ r.since \in Nat
      /\ r.since <= now /\ now \in Nat /\ Answerable(r) /\ Registered' = Registered
  BY ServeType DEF LogInv, IInv, TypeOK, Request, StrayAnswerable, Behind
<1>2. CASE Verdict(e) # "accepted"
  <2>1. UNCHANGED <<lastSeq, receipts>>
    BY <1>2 DEF Serve, serverVars
  <2> QED
    BY <1>1, <2>1 DEF Answerable, Queued
<1>3. CASE Verdict(e) = "accepted"
  <2>1. /\ e.dev \in Registered
        /\ receipts' = receipts \cup {[dev |-> e.dev, id |-> e.id, at |-> now]}
        /\ lastSeq'  = [lastSeq EXCEPT ![e.dev] = e.seq]
        /\ lastSeq \in [Registered -> Nat]
    BY <1>1, <1>3 DEF Serve, Verdict, IInv, TypeOK
  <2>2. CASE r.ev \in expired \/ r.ev.dev \notin Registered
    BY <1>1, <2>2 DEF Answerable
  <2>3. CASE \E m \in receipts : /\ m.dev = r.ev.dev /\ m.id = r.ev.id
                                 /\ m.at + ReceiptRetention >= r.since + RequestLife
    BY <2>1, <2>3 DEF Answerable
  <2>4. CASE r.ev \in Queued /\ r.ev.dev \in Registered /\ lastSeq[r.ev.dev] < r.ev.seq
    <3>1. PICK i \in 1 .. Len(queue) : r.ev = queue[i]
      BY <2>4 DEF Queued
    <3>2. r.ev.dev = disk.dev
      BY <1>1, <3>1 DEF IInv, QueueShape
    <3>3. CASE e.dev # r.ev.dev
      <4>1. lastSeq'[r.ev.dev] = lastSeq[r.ev.dev]
        BY <2>1, <2>4, <3>3
      <4> QED
        BY <2>4, <4>1 DEF Answerable, Queued
    <3>4. CASE e.dev = r.ev.dev
      <4>1. e.seq <= r.ev.seq /\ (e.seq = r.ev.seq => e = r.ev)
        BY <3>1, <3>2, <3>4 DEF Behind
      <4>2. lastSeq'[r.ev.dev] = e.seq /\ e.seq \in Nat /\ r.ev.seq \in Nat
        BY <1>1, <2>1, <3>4 DEF Event
      <4>3. CASE e.seq < r.ev.seq
        BY <2>4, <4>2, <4>3 DEF Answerable, Queued
      <4>4. CASE e = r.ev
        <5> DEFINE m == [dev |-> e.dev, id |-> e.id, at |-> now]
        <5>1. m \in receipts' /\ m.dev = r.ev.dev /\ m.id = r.ev.id
          BY <2>1, <4>4
        <5>2. m.at + ReceiptRetention >= r.since + RequestLife
          BY <1>1, TimeAssumption, RetentionAssumption
        <5> QED
          BY <5>1, <5>2 DEF Answerable
      <4> QED
        BY <4>1, <4>2, <4>3, <4>4
    <3> QED
      BY <3>3, <3>4
  <2> QED
    BY <1>1, <2>2, <2>3, <2>4 DEF Answerable
<1> QED
  BY <1>2, <1>3

\* An answerable request is refused as a replay only if its event has expired.
LEMMA ReplayIsExpired ==
    ASSUME IInv, NEW r \in late, Answerable(r), Verdict(r.ev) = "replayed"
    PROVE  r.ev \in expired
<1>1. /\ r.ev.dev \in Registered /\ ~HasReceipt(r.ev) /\ r.ev.seq <= lastSeq[r.ev.dev]
  BY DEF Verdict
<1>2. r.ev.seq \in Nat /\ lastSeq[r.ev.dev] \in Nat
  BY <1>1 DEF IInv, TypeOK, Request, Event
<1> QED
  BY <1>1, <1>2 DEF Answerable, HasReceipt

\* The item in hand is answerable for as long as a request may live: the
\* server has not stored it, or has a receipt young enough.
LEMMA AbandonedAnswerable ==
    ASSUME IInv, pc = "wait"
    PROVE  Answerable([ev |-> item, since |-> now])
<1> USE DEF Registered
<1> SUFFICES ASSUME item.dev \in Registered
             PROVE  \/ item \in Queued /\ lastSeq[item.dev] < item.seq
                    \/ \E m \in receipts :
                         /\ m.dev = item.dev /\ m.id = item.id
                         /\ m.at + ReceiptRetention >= now + RequestLife
  BY DEF Answerable
<1>1. /\ queue \in Seq(Event) /\ Len(queue) \in Nat /\ Len(queue) >= 1
      /\ item = queue[1] /\ item \in Event /\ item.dev = disk.dev
  BY PoppedQueue DEF IInv, TypeOK, InHand, QueueShape
<1>2. /\ lastSeq[item.dev] \in Nat /\ item.seq \in Nat /\ item.at \in Nat
      /\ now \in Nat /\ pushedAt \in Nat
  BY <1>1 DEF IInv, TypeOK, Event
<1>3. item \in Queued
  BY <1>1 DEF Queued
<1>4. CASE lastSeq[item.dev] < item.seq
  BY <1>3, <1>4
<1>5. CASE ~(lastSeq[item.dev] < item.seq)
  <2>1. lastSeq[item.dev] <= item.seq /\ (lastSeq[item.dev] = item.seq => ReceiptOrOld(item))
    BY <1>1 DEF IInv, ServerBehind
  <2>2. ReceiptOrOld(item)
    BY <1>2, <1>5, <2>1
  <2>3. first
    BY <1>1, <1>5 DEF IInv, FlushWindow
  <2>4. now <= pushedAt + FlushTime /\ item.at + QueueRetention >= pushedAt
    BY <1>1, <2>3 DEF IInv, FlushWindow, Flushing
  <2>5. ~(item.at + ReceiptRetention < now)
    BY <1>2, <2>4, TimeAssumption, RetentionAssumption
  <2>6. PICK m \in receipts : m.dev = item.dev /\ m.id = item.id /\ m.at >= item.at
    BY <2>2, <2>5 DEF ReceiptOrOld
  <2>7. m.at \in Nat
    BY DEF IInv, TypeOK, Receipt
  <2>8. m.at + ReceiptRetention >= now + RequestLife
    BY <1>2, <2>4, <2>6, <2>7, TimeAssumption, RetentionAssumption
  <2> QED
    BY <2>6, <2>8
<1> QED
  BY <1>4, <1>5
-----------------------------------------------------------------------------
(* What Push and Pop do to the set of queued events *)

\* Push adds one new event, and what leaves the queue has expired.
LEMMA PushedEvents ==
    ASSUME IInv, Push
    PROVE  \E e : /\ e \notin Queued \cup applied
                  /\ Queued' = (Queued \cap Queued') \cup {e}
                  /\ expired' = expired \cup (Queued \ Queued')
<1>1. PICK n \in 0 .. Len(queue) :
        /\ queue' = Append(SubSeq(queue, n + 1, Len(queue)), [item EXCEPT !.at = now])
        /\ expired' = expired \cup {queue[i] : i \in 1 .. n}
  BY DEF Push
<1> DEFINE new == [item EXCEPT !.at = now]
           kept == {queue[i] : i \in n + 1 .. Len(queue)}
<1>2. /\ pc = "push" /\ item \in Event /\ now \in Nat
      /\ queue \in Seq(Event) /\ Len(queue) \in Nat
  BY LenProperties DEF Push, IInv, TypeOK
<1>3. new \in Event /\ new.id = item.id
  BY <1>2 DEF Event
<1>4. new \notin Known
  BY <1>2, <1>3 DEF IInv, History
<1> HIDE DEF new
<1>5. /\ Len(queue') = Len(queue) - n + 1
      /\ \A i \in 1 .. Len(queue) - n : queue'[i] = queue[n + i]
      /\ queue'[Len(queue) - n + 1] = new
  BY <1>1, <1>2, <1>3, PushedQueue DEF new
<1>6. Queued' = kept \cup {new}
  <2>1. ASSUME NEW j \in 1 .. Len(queue') PROVE queue'[j] \in kept \cup {new}
    <3>1. CASE j = Len(queue) - n + 1
      BY <1>5, <3>1
    <3>2. CASE j # Len(queue) - n + 1
      <4>1. j \in 1 .. Len(queue) - n /\ n + j \in n + 1 .. Len(queue)
        BY <1>1, <1>2, <1>5, <3>2
      <4> QED
        BY <1>5, <4>1
    <3> QED
      BY <3>1, <3>2
  <2>2. ASSUME NEW i \in n + 1 .. Len(queue) PROVE queue[i] \in Queued'
    <3>1. i - n \in 1 .. Len(queue) - n /\ n + (i - n) = i /\ i - n \in 1 .. Len(queue')
      BY <1>1, <1>2, <1>5
    <3> QED
      BY <1>5, <3>1 DEF Queued
  <2>3. new \in Queued'
    <3>1. Len(queue) - n + 1 \in 1 .. Len(queue')
      BY <1>1, <1>2, <1>5
    <3> QED
      BY <1>5, <3>1 DEF Queued
  <2> QED
    BY <2>1, <2>2, <2>3 DEF Queued
<1>7. ASSUME NEW i \in 1 .. n, NEW j \in n + 1 .. Len(queue) PROVE queue[i] # queue[j]
  <2>1. i \in 1 .. Len(queue) /\ j \in 1 .. Len(queue) /\ i < j
    BY <1>1, <1>2
  <2>2. queue[i].seq < queue[j].seq
    BY <2>1 DEF IInv, QueueShape
  <2>3. queue[i].seq \in Nat /\ queue[j].seq \in Nat
    <3>1. queue[i] \in Event /\ queue[j] \in Event
      BY <1>2, <2>1, ElementOfSeq
    <3> QED
      BY <3>1 DEF Event
  <2> QED
    BY <2>2, <2>3
<1>8. {queue[i] : i \in 1 .. n} \cup kept = Queued
  BY <1>1, <1>2 DEF Queued
<1>9. {queue[i] : i \in 1 .. n} \cap kept = {}
  BY <1>7
<1>10. new \notin Queued \cup applied
  BY <1>4 DEF Known
<1> HIDE DEF kept
<1> QED
  BY <1>1, <1>6, <1>8, <1>9, <1>10

\* Pop removes only an event the server has stored.
LEMMA PoppedEvents ==
    ASSUME IInv, Pop
    PROVE  Queued' \subseteq Queued /\ Queued \ Queued' \subseteq applied
<1>1. /\ queue \in Seq(Event) /\ queue # << >> /\ queue' = Tail(queue)
      /\ item = queue[1] /\ item \in applied
  BY DEF Pop, IInv, TypeOK, InHand, Verdicts, History
<1>2. /\ Len(queue) \in Nat /\ Len(queue) >= 1 /\ Len(queue') = Len(queue) - 1
      /\ \A i \in 1 .. Len(queue) - 1 : queue'[i] = queue[i + 1]
  BY <1>1, PoppedQueue
<1>3. ASSUME NEW i \in 1 .. Len(queue') PROVE queue'[i] \in Queued
  <2>1. i + 1 \in 1 .. Len(queue)
    BY <1>2
  <2> QED
    BY <1>2, <2>1 DEF Queued
<1>4. ASSUME NEW i \in 1 .. Len(queue), i # 1 PROVE queue[i] \in Queued'
  <2>1. i - 1 \in 1 .. Len(queue') /\ (i - 1) + 1 = i
    BY <1>2, <1>4
  <2> QED
    BY <1>2, <2>1 DEF Queued
<1> QED
  BY <1>1, <1>3, <1>4 DEF Queued

-----------------------------------------------------------------------------
(* The invariant behind the refinement *)

\* The requests given up stay young and answerable.
LEMMA StrayStep ==
    ASSUME LogInv, [Next]_vars
    PROVE  StrayAnswerable'
<1> USE DEF clientVars, serverVars, ghostVars, envVars, Registered
<1>0. /\ IInv /\ StrayAnswerable /\ now \in Nat /\ late \subseteq Request
      /\ \A r \in late : r.since \in Nat /\ r.ev \in Event /\ r.ev.dev \in owned
  BY DEF LogInv, IInv, TypeOK, Request, LateBehind
<1>1. CASE UNCHANGED <<queue, expired, lastSeq, receipts, late, now>>
  BY <1>0, <1>1 DEF StrayAnswerable, Answerable, Queued
<1>2. CASE Push
  <2>1. Queued \ Queued' \subseteq expired' /\ expired \subseteq expired'
        /\ UNCHANGED <<lastSeq, receipts, late, now>>
    BY <1>0, <1>2, PushedEvents DEF Push
  <2> QED
    BY <1>0, <2>1 DEF StrayAnswerable, Answerable
<1>3. CASE Exchange \/ AnswerLost
  <2>1. Serve(item) /\ Behind(item) /\ UNCHANGED <<disk, queue, now, owned, expired, late>>
    BY <1>0, <1>3, ItemBehind DEF Exchange, AnswerLost
  <2>2. \A r \in late : Answerable(r)'
    BY <2>1, ServeAnswerable
  <2> QED
    BY <1>0, <2>1, <2>2 DEF StrayAnswerable
<1>4. CASE RequestTimesOut \/ Crash
  <2> DEFINE new == [ev |-> item, since |-> now]
  <2>1. /\ late' = late \/ (pc = "wait" /\ late' = late \cup {new})
        /\ UNCHANGED <<queue, expired, lastSeq, receipts, now>>
    BY <1>4 DEF RequestTimesOut, Crash, Abandon
  <2>2. pc = "wait" => Answerable(new) /\ new.since = now
    BY <1>0, AbandonedAnswerable
  <2>3. now <= now + RequestLife
    BY <1>0, TimeAssumption
  <2>4. \A r : Answerable(r) => Answerable(r)'
    BY <2>1 DEF Answerable, Queued
  <2> HIDE DEF new
  <2> QED
    BY <1>0, <2>1, <2>2, <2>3, <2>4 DEF StrayAnswerable
<1>5. CASE Pop
  <2>1. /\ Queued \ Queued' \subseteq applied
        /\ UNCHANGED <<expired, lastSeq, receipts, late, now>>
    BY <1>0, <1>5, PoppedEvents DEF Pop
  <2>2. ASSUME NEW r \in late PROVE Answerable(r)'
    <3>1. r.ev \in applied /\ r.ev.dev \in Registered => ~(lastSeq[r.ev.dev] < r.ev.seq)
      <4>1. r.ev \in applied /\ r.ev.dev \in Registered =>
              r.ev.seq <= lastSeq[r.ev.dev] /\ r.ev.seq \in Nat /\ lastSeq[r.ev.dev] \in Nat
        BY <1>0 DEF IInv, TypeOK, History, Event
      <4> QED
        BY <4>1
    <3> QED
      BY <1>0, <2>1, <3>1 DEF StrayAnswerable, Answerable
  <2> QED
    BY <1>0, <2>1, <2>2 DEF StrayAnswerable
<1>6. ASSUME NEW d \in Device, Register(d) \/ RegisterAnswerLost(d) PROVE StrayAnswerable'
  <2>1. /\ d \notin owned /\ UNCHANGED <<queue, expired, receipts, late, now>>
        /\ lastSeq' = [x \in Registered \cup {d} |-> IF x = d THEN 0 ELSE lastSeq[x]]
    BY <1>6 DEF Register, RegisterAnswerLost, AddDevice
  <2> QED
    BY <1>0, <2>1 DEF StrayAnswerable, Answerable, Queued
<1>7. CASE Clear
  <2>1. disk.dev \notin Registered /\ UNCHANGED <<expired, lastSeq, receipts, late, now>>
    BY <1>0, <1>7 DEF Clear, IInv, FreshDevices
  <2>2. \A e \in Queued : e.dev \notin Registered
    BY <1>0, <2>1 DEF IInv, QueueShape, Queued
  <2> QED
    BY <1>0, <2>1, <2>2 DEF StrayAnswerable, Answerable
<1>8. ASSUME NEW r \in late, LateArrival(r) PROVE StrayAnswerable'
  <2>1. /\ Serve(r.ev) /\ Behind(r.ev) /\ late' \subseteq late
        /\ UNCHANGED <<disk, queue, now, owned, expired>>
    BY <1>0, <1>8, LateIsBehind DEF LateArrival
  <2>2. \A x \in late : Answerable(x)'
    BY <2>1, ServeAnswerable
  <2> QED
    BY <1>0, <2>1, <2>2 DEF StrayAnswerable
<1>9. CASE Purge
  <2>1. /\ receipts' = {m \in receipts : m.at + ReceiptRetention >= now}
        /\ UNCHANGED <<queue, expired, lastSeq, late, now>>
    BY <1>9 DEF Purge
  <2>2. ASSUME NEW r \in late PROVE Answerable(r)'
    <3>1. CASE \E m \in receipts : /\ m.dev = r.ev.dev /\ m.id = r.ev.id
                                   /\ m.at + ReceiptRetention >= r.since + RequestLife
      <4>1. PICK m \in receipts : /\ m.dev = r.ev.dev /\ m.id = r.ev.id
                                  /\ m.at + ReceiptRetention >= r.since + RequestLife
        BY <3>1
      <4>2. m.at \in Nat /\ r.since \in Nat /\ now <= r.since + RequestLife
        BY <1>0 DEF IInv, TypeOK, Receipt, StrayAnswerable
      <4>3. m.at + ReceiptRetention >= now
        BY <1>0, <4>1, <4>2, TimeAssumption
      <4> QED
        BY <2>1, <4>1, <4>3 DEF Answerable
    <3> QED
      BY <1>0, <2>1, <3>1 DEF StrayAnswerable, Answerable, Queued
  <2> QED
    BY <1>0, <2>1, <2>2 DEF StrayAnswerable
<1>10. CASE ResetDatabase
  BY <1>0, <1>10 DEF ResetDatabase, StrayAnswerable, Answerable
<1>11. CASE Tick
  <2>1. /\ now' = now + 1 /\ late' = {r \in late : r.since + RequestLife >= now'}
        /\ UNCHANGED <<queue, expired, lastSeq, receipts>>
    BY <1>11 DEF Tick
  <2>2. \A r \in late : Answerable(r)'
    BY <1>0, <2>1 DEF StrayAnswerable, Answerable, Queued
  <2>3. \A r \in late' : r.since <= now' /\ now' <= r.since + RequestLife
    BY <1>0, <2>1, TimeAssumption DEF StrayAnswerable
  <2> QED
    BY <2>1, <2>2, <2>3 DEF StrayAnswerable
<1> QED
  BY <1>1, <1>2, <1>3, <1>4, <1>5, <1>6, <1>7, <1>8, <1>9, <1>10, <1>11
     DEF Next, Agent, Environment, Flush, ReEnroll, vars, Restart, SaveDiscoveredHome,
         Enqueue, EnqueueSaveFails, PushFails, Send, FlushDone, RequestFails, PopFails,
         Refused, RegisterFails, ConfigureTelemetry, SaveReEnrolled, ReEnrollFails

\* Serving records REPLAY_ATTEMPT only for expired events.
LEMMA FalseAlarmStep ==
    ASSUME LogInv, [Next]_vars
    PROVE  FalseAlarmOnlyIfExpired'
<1> USE DEF clientVars, serverVars, ghostVars, envVars
<1>0. IInv /\ StrayAnswerable /\ replays \subseteq expired
  BY DEF LogInv, FalseAlarmOnlyIfExpired
<1>1. CASE Exchange \/ AnswerLost
  <2>1. Serve(item) /\ Verdict(item) # "replayed" /\ UNCHANGED expired
    BY <1>0, <1>1, NotReplayed DEF Exchange, AnswerLost
  <2>2. replays' = replays
    BY <2>1 DEF Serve
  <2> QED
    BY <1>0, <2>1, <2>2 DEF FalseAlarmOnlyIfExpired
<1>2. ASSUME NEW r \in late, LateArrival(r) PROVE FalseAlarmOnlyIfExpired'
  <2>1. Serve(r.ev) /\ UNCHANGED expired
    BY <1>2 DEF LateArrival
  <2>2. CASE Verdict(r.ev) = "replayed"
    <3>1. r.ev \in expired
      BY <1>0, <2>2, ReplayIsExpired DEF StrayAnswerable
    <3>2. replays' = replays \cup {r.ev}
      BY <2>1, <2>2 DEF Serve
    <3> QED
      BY <1>0, <2>1, <3>1, <3>2 DEF FalseAlarmOnlyIfExpired
  <2>3. CASE Verdict(r.ev) # "replayed"
    <3>1. replays' = replays
      BY <2>1, <2>3 DEF Serve
    <3> QED
      BY <1>0, <2>1, <3>1 DEF FalseAlarmOnlyIfExpired
  <2> QED
    BY <2>2, <2>3
<1>3. CASE Push
  BY <1>0, <1>3, PushedEvents DEF Push, FalseAlarmOnlyIfExpired
<1>4. CASE ResetDatabase
  BY <1>4 DEF ResetDatabase, FalseAlarmOnlyIfExpired
<1>5. CASE UNCHANGED <<replays, expired>>
  BY <1>0, <1>5 DEF FalseAlarmOnlyIfExpired
<1> QED
  BY <1>1, <1>2, <1>3, <1>4, <1>5
     DEF Next, Agent, Environment, Flush, ReEnroll, vars, Restart, SaveDiscoveredHome,
         Enqueue, EnqueueSaveFails, PushFails, Send, FlushDone, RequestFails,
         RequestTimesOut, Pop, PopFails, Refused, Register, RegisterAnswerLost, AddDevice,
         RegisterFails, ConfigureTelemetry, Clear, SaveReEnrolled, ReEnrollFails, Crash,
         Purge, Tick

(***************************************************************************)
(* The invariant of the channel together with what a stray request can     *)
(* still do to the server's tables holds in every reachable state.         *)
(***************************************************************************)
THEOREM LogInvariance == Spec => []LogInv
<1>1. Init => StrayAnswerable /\ FalseAlarmOnlyIfExpired
  BY DEF Init, StrayAnswerable, FalseAlarmOnlyIfExpired
<1>2. LogInv /\ [Next]_vars => StrayAnswerable' /\ FalseAlarmOnlyIfExpired'
  BY StrayStep, FalseAlarmStep
<1> QED
  BY <1>1, <1>2, Invariance, PTL DEF Spec, LogInv

(***************************************************************************)
(* The security event REPLAY_ATTEMPT (main.py, verified) is never recorded *)
(* against an honest agent but for an event its queue had dropped for age  *)
(* while a request carrying it was still on its way.                       *)
(***************************************************************************)
THEOREM FalseAlarmsAreExpired == Spec => []FalseAlarmOnlyIfExpired
<1>1. LogInv => FalseAlarmOnlyIfExpired
  BY DEF LogInv
<1> QED
  BY <1>1, LogInvariance, PTL
-----------------------------------------------------------------------------
(* Refinement *)

\* A request the server handles stores a held or lapsed event, in order, or
\* leaves the log alone.
LEMMA ServeRefines ==
    ASSUME IInv, NEW e \in Event, Serve(e),
           Verdict(e) = "accepted" => e \in Queued \cup expired,
           UNCHANGED <<queue, expired>>
    PROVE  [Log!Next]_(Log!logVars)
<1>1. UNCHANGED <<Queued, expired>>
  BY DEF Queued
<1>2. CASE Verdict(e) # "accepted"
  <2>1. UNCHANGED <<applied, lastSeq>>
    BY <1>2 DEF Serve, serverVars
  <2> QED
    BY <1>1, <2>1 DEF Log!logVars
<1>3. CASE Verdict(e) = "accepted"
  <2>1. /\ e.dev \in Registered /\ ~(e.seq <= lastSeq[e.dev])
        /\ lastSeq' = [lastSeq EXCEPT ![e.dev] = e.seq] /\ applied' = applied \cup {e}
    BY <1>3 DEF Serve, Verdict
  <2>2. e.seq \in Nat /\ lastSeq[e.dev] \in Nat /\ lastSeq[e.dev] < e.seq
    <3>1. e.seq \in Nat /\ lastSeq[e.dev] \in Nat
      BY <2>1 DEF IInv, TypeOK, Event
    <3> QED
      BY <2>1, <3>1
  <2>3. ASSUME NEW f \in applied, f.dev = e.dev PROVE f.seq < e.seq
    <3>1. f.seq \in Nat /\ f.seq <= lastSeq[e.dev]
      BY <2>1, <2>3 DEF IInv, TypeOK, History, Event
    <3> QED
      BY <2>2, <3>1
  <2>4. e \notin applied
    BY <2>2, <2>3
  <2>5. Log!Store(e)
    BY <1>1, <1>3, <2>1, <2>2, <2>3, <2>4 DEF Log!Store, Registered
  <2> QED
    BY <2>1, <2>5 DEF Log!Next
<1> QED
  BY <1>2, <1>3

\* Every step of the channel is a step of the log, or none at all.
LEMMA StepRefines ==
    ASSUME LogInv, [Next]_vars
    PROVE  [Log!Next]_(Log!logVars)
<1> USE DEF clientVars, serverVars, ghostVars, envVars
<1>0. IInv /\ StrayAnswerable
  BY DEF LogInv
<1>1. CASE UNCHANGED <<queue, expired, applied, lastSeq>>
  BY <1>1 DEF Log!logVars, Queued
<1>2. CASE Push
  <2>1. PICK e : /\ e \notin Queued \cup applied
                 /\ Queued' = (Queued \cap Queued') \cup {e}
                 /\ expired' = expired \cup (Queued \ Queued')
    BY <1>0, <1>2, PushedEvents
  <2>2. UNCHANGED <<applied, lastSeq>>
    BY <1>2 DEF Push
  <2>3. Log!Submit(e, Queued \ Queued') /\ e \in Queued'
    BY <2>1, <2>2 DEF Log!Submit
  <2> QED
    BY <2>3 DEF Log!Next
<1>3. CASE Exchange \/ AnswerLost
  <2>1. Serve(item) /\ pc = "wait" /\ UNCHANGED <<queue, expired>>
    BY <1>3 DEF Exchange, AnswerLost
  <2>2. item \in Event /\ item \in Queued
    <3>1. queue \in Seq(Event) /\ queue # << >> /\ item = queue[1] /\ item \in Event
      BY <1>0, <2>1 DEF IInv, TypeOK, InHand
    <3>2. 1 \in 1 .. Len(queue)
      BY <3>1, PoppedQueue
    <3> QED
      BY <3>1, <3>2 DEF Queued
  <2> QED
    BY <1>0, <2>1, <2>2, ServeRefines
<1>4. ASSUME NEW r \in late, LateArrival(r) PROVE [Log!Next]_(Log!logVars)
  <2>1. Serve(r.ev) /\ UNCHANGED <<queue, expired>> /\ r.ev \in Event /\ Answerable(r)
    BY <1>0, <1>4 DEF LateArrival, IInv, TypeOK, Request, StrayAnswerable
  <2>2. Verdict(r.ev) = "accepted" => r.ev \in Queued \cup expired
    BY <2>1 DEF Verdict, Answerable, HasReceipt
  <2> QED
    BY <1>0, <2>1, <2>2, ServeRefines
<1>5. CASE Pop
  <2>1. Queued' \subseteq Queued /\ Queued \ Queued' \subseteq applied
    BY <1>0, <1>5, PoppedEvents
  <2>2. UNCHANGED <<expired, applied, lastSeq>>
    BY <1>5 DEF Pop
  <2>3. Log!Release(Queued \ Queued')
    BY <2>1, <2>2 DEF Log!Release
  <2> QED
    BY <2>3 DEF Log!Next
<1>6. CASE Clear
  <2>1. disk.dev \notin Registered /\ Queued' = {} /\ UNCHANGED <<expired, applied, lastSeq>>
    <3>1. queue' = << >> /\ 1 .. Len(queue') = {}
      BY <1>6, EmptySeq DEF Clear
    <3> QED
      BY <1>0, <1>6, <3>1 DEF Clear, IInv, FreshDevices, Queued
  <2>2. \A e \in Queued : e.dev \notin Registered
    BY <1>0, <2>1 DEF IInv, QueueShape, Queued
  <2>3. Log!Release(Queued \ Queued')
    BY <2>1, <2>2 DEF Log!Release, Registered
  <2> QED
    BY <2>3 DEF Log!Next
<1>7. ASSUME NEW d \in Device, Register(d) \/ RegisterAnswerLost(d)
      PROVE  [Log!Next]_(Log!logVars)
  <2>1. /\ d \notin owned /\ UNCHANGED <<queue, expired, applied>>
        /\ lastSeq' = [x \in Registered \cup {d} |-> IF x = d THEN 0 ELSE lastSeq[x]]
    BY <1>7 DEF Register, RegisterAnswerLost, AddDevice
  <2>2. UNCHANGED Queued
    BY <2>1 DEF Queued
  <2>3. CASE d \in Registered
    <3>1. lastSeq[d] = 0 /\ lastSeq \in [Registered -> Nat]
      BY <1>0, <2>1, <2>3 DEF IInv, TypeOK, FreshDevices
    <3>2. lastSeq' = lastSeq
      BY <2>1, <2>3, <3>1
    <3> QED
      BY <2>1, <2>2, <3>2 DEF Log!logVars
  <2>4. CASE d \notin Registered
    <3>1. \A e \in Queued \cup applied : e.dev # d
      BY <1>0, <2>1 DEF IInv, Identity, QueueShape, History, Queued
    <3>2. Log!NewDevice(d) /\ d \in DOMAIN lastSeq'
      BY <2>1, <2>2, <2>4, <3>1 DEF Log!NewDevice, Registered
    <3> QED
      BY <3>2 DEF Log!Next
  <2> QED
    BY <2>3, <2>4
<1>8. CASE ResetDatabase
  <2>1. Log!Forget
    BY <1>8 DEF ResetDatabase, Log!Forget, Queued
  <2> QED
    BY <2>1 DEF Log!Next
<1> QED
  BY <1>1, <1>2, <1>3, <1>4, <1>5, <1>6, <1>7, <1>8
     DEF Next, Agent, Environment, Flush, ReEnroll, vars, Restart, SaveDiscoveredHome,
         Enqueue, EnqueueSaveFails, PushFails, Send, FlushDone, RequestFails,
         RequestTimesOut, PopFails, Refused, RegisterFails, ConfigureTelemetry,
         SaveReEnrolled, ReEnrollFails, Crash, Purge, Tick

(***************************************************************************)
(* The agent's queue, its retries and its crashes, the lossy network and   *)
(* the server's tables together implement EventLog: each report is stored  *)
(* at most once, after the earlier reports of its device, and the queue    *)
(* gives it up only when it is stored, has lapsed, or its device is gone.  *)
(***************************************************************************)
THEOREM ChannelImplementsEventLog == Spec => ImplementsEventLog
<1>1. Init => Log!Init
  <2> SUFFICES ASSUME Init PROVE Log!Init
    OBVIOUS
  <2>1. Queued = {}
    <3>1. queue = << >> /\ 1 .. Len(queue) = {}
      BY EmptySeq DEF Init
    <3> QED
      BY <3>1 DEF Queued
  <2> QED
    BY <2>1 DEF Init, Log!Init
<1>2. LogInv /\ [Next]_vars => [Log!Next]_(Log!logVars)
  BY StepRefines
<1> QED
  BY <1>1, <1>2, LogInvariance, PTL DEF Spec, ImplementsEventLog, Log!Spec
=============================================================================

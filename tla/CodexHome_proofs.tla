-------------------------- MODULE CodexHome_proofs --------------------------
(***************************************************************************)
(* Proofs about CodexHome, for every set of homes, every list of           *)
(* candidates, every quota limit and every bound: the types, the home that *)
(* a quota, a baseline and an alarm are of, and that the agent raises no   *)
(* telemetry alarm by its own work.                                        *)
(***************************************************************************)
EXTENDS CodexHome, SequenceTheorems, WellFoundedInduction, TLAPS

-----------------------------------------------------------------------------
(* The newest, the first *)

\* Min of FiniteSetsExt, which is a CHOOSE, on sets of natural numbers.
LEMMA MinIsFirst ==
    ASSUME NEW S \in SUBSET Nat, S # {}
    PROVE  Min(S) \in S /\ \A y \in S : Min(S) <= y
<1> DEFINE less == {p \in Nat \X Nat : p[1] < p[2]}
<1>0. IsWellFoundedOn(less, Nat)
  BY NatLessThanWellFounded DEF OpToRel
<1>1. PICK x \in S : \A y \in S : ~ (<<y, x>> \in less)
  BY <1>0, WFMin
<1>2. ASSUME NEW y \in S PROVE x <= y
  <2>1. ~ (<<y, x>> \in less) /\ x \in Nat /\ y \in Nat
    BY <1>1
  <2>2. ~ (y < x)
    BY <2>1
  <2> QED
    BY <2>1, <2>2
<1> QED
  BY <1>2 DEF Min

\* Max of FiniteSetsExt on a set of times.
LEMMA MaxIsNewest ==
    ASSUME NEW n \in Nat, NEW S \in SUBSET (0 .. n), S # {}
    PROVE  Max(S) \in S /\ \A y \in S : Max(S) >= y
<1> DEFINE T == {n - x : x \in S}
<1>1. T \in SUBSET Nat /\ T # {}
  <2>1. ASSUME NEW x \in S PROVE n - x \in Nat
    <3>1. x \in 0 .. n
      OBVIOUS
    <3> QED
      BY <3>1
  <2>2. T # {}
    OBVIOUS
  <2> QED
    BY <2>1, <2>2
<1>2. PICK t \in T : \A y \in T : t <= y
  BY <1>1, MinIsFirst
<1>3. PICK x \in S : t = n - x
  OBVIOUS
<1>4. ASSUME NEW y \in S PROVE x >= y
  <2>1. n - x <= n - y /\ x \in 0 .. n /\ y \in 0 .. n
    BY <1>2, <1>3
  <2> QED
    BY <2>1
<1> QED
  BY <1>4 DEF Max

-----------------------------------------------------------------------------
(* Candidates, inspections and quotas *)

\* The candidates of a process at home h, the home itself first.
LEMMA OrderType ==
    ASSUME NEW h \in Home, NEW order, order = <<h>> \o Candidates
    PROVE  /\ order \in Seq(Home) /\ DOMAIN order = 1 .. Len(order) /\ 1 \in DOMAIN order
           /\ order[1] = h /\ \A k \in DOMAIN order : order[k] \in Home
<1>1. Candidates \in Seq(Home)
  BY HomeAssumption DEF HomeAssumption, Candidates
<1>2. order \in Seq(Home)
  BY <1>1
<1>3. order[1] = h /\ Len(order) = 1 + Len(Candidates)
  BY <1>1
<1> HIDE DEF Candidates
<1>4. DOMAIN order = 1 .. Len(order) /\ Len(order) \in Nat /\ Len(order) >= 1
  BY <1>1, <1>2, <1>3
<1>5. \A k \in DOMAIN order : order[k] \in Home
  BY <1>2, <1>4
<1> QED
  BY <1>2, <1>3, <1>4, <1>5

\* The choice is one of the candidates, and a home with logs stays.
LEMMA ResolvedHome ==
    ASSUME NEW h \in Home, NEW seen \in [Home -> {Unseen, Invalid} \cup Time]
    PROVE  Resolve(h, seen) \in Home /\ (seen[h] > 0 => Resolve(h, seen) = h)
<1> DEFINE order == <<h>> \o Candidates
           valid == {k \in DOMAIN order : seen[order[k]] >= 0}
           times == {seen[order[k]] : k \in valid}
           best  == Max(times)
           newest == {k \in valid : seen[order[k]] = best}
<1>1. /\ order \in Seq(Home) /\ DOMAIN order = 1 .. Len(order) /\ 1 \in DOMAIN order
      /\ order[1] = h /\ \A k \in DOMAIN order : order[k] \in Home
  BY OrderType
<1>2. Resolve(h, seen) = IF valid = {} \/ seen[h] > 0 THEN h ELSE order[Min(newest)]
  BY DEF Resolve
<1> HIDE DEF order
<1>3. CASE valid = {} \/ seen[h] > 0
  BY <1>2, <1>3
<1>4. CASE ~(valid = {} \/ seen[h] > 0)
  <2>1. ASSUME NEW k \in valid PROVE seen[order[k]] \in 0 .. MaxWrites
    <3>1. seen[order[k]] \in {Unseen, Invalid} \cup Time /\ seen[order[k]] >= 0
      BY <1>1
    <3> QED
      BY <3>1 DEF Unseen, Invalid, Time
  <2>2. times \in SUBSET (0 .. MaxWrites) /\ times # {}
    BY <1>4, <2>1
  <2>3. best \in times
    BY <2>2, MaxIsNewest, HomeAssumption DEF HomeAssumption
  <2>4. newest # {}
    BY <2>3
  <2>5. newest \in SUBSET Nat /\ newest \subseteq DOMAIN order
    BY <1>1
  <2> HIDE DEF newest
  <2>6. Min(newest) \in DOMAIN order
    BY <2>4, <2>5, MinIsFirst
  <2> QED
    BY <1>1, <1>2, <1>4, <2>6
<1> QED
  BY <1>3, <1>4

\* An inspection never takes a home with logs for one without.
LEMMA InspectionType ==
    ASSUME TypeOK, NEW h \in Home
    PROVE  /\ Inspection(h) \in {Invalid} \cup Time
           /\ logs[h] # {} => Inspection(h) > 0
<1>1. logs[h] \in SUBSET [mod : Time \ {0}, rate : Time] /\ MaxWrites \in Nat
  BY HomeAssumption DEF TypeOK, HomeAssumption
<1>2. CASE logs[h] # {}
  <2> DEFINE mods == {f.mod : f \in logs[h]}
  <2>1. mods \in SUBSET (0 .. MaxWrites) /\ mods # {} /\ 0 \notin mods
    BY <1>1, <1>2 DEF Time
  <2> HIDE DEF mods
  <2>2. Max(mods) \in mods
    BY <1>1, <2>1, MaxIsNewest
  <2>3. Max(mods) \in Time /\ Max(mods) > 0
    <3>1. Max(mods) \in 0 .. MaxWrites /\ Max(mods) # 0
      BY <2>1, <2>2
    <3> QED
      BY <1>1, <3>1 DEF Time
  <2> QED
    BY <1>2, <2>3 DEF Inspection, mods
<1>3. CASE logs[h] = {}
  BY <1>1, <1>3 DEF Inspection, Time
<1> QED
  BY <1>2, <1>3

\* What every home shows to `codex-guard configure-telemetry`.
LEMMA InspectionsType ==
    ASSUME TypeOK
    PROVE  [g \in Home |-> Inspection(g)] \in [Home -> {Unseen, Invalid} \cup Time]
BY InspectionType

\* A quota read in a home is of that home.
LEMMA QuotasType ==
    ASSUME TypeOK, CacheIsOfHome, mem.home \in Home, NEW q \in Quotas
    PROVE  q \in Quota /\ q.home \in {mem.home, NoHome}
<1> DEFINE rates == {f.rate : f \in QuotaFiles(mem.home)} \cup {0}
<1>1. logs[mem.home] \in SUBSET [mod : Time \ {0}, rate : Time] /\ MaxWrites \in Nat
  BY HomeAssumption DEF TypeOK, HomeAssumption
<1>2. QuotaFiles(mem.home) \subseteq logs[mem.home]
  BY DEF QuotaFiles
<1>3. rates \in SUBSET (0 .. MaxWrites) /\ rates # {}
  BY <1>1, <1>2 DEF Time
<1> HIDE DEF rates
<1>4. Max(rates) \in Time
  BY <1>1, <1>3, MaxIsNewest DEF Time
<1>5. CASE q = mem.quota
  BY <1>5 DEF TypeOK, Process, CacheIsOfHome
<1>6. CASE q = LatestQuota(mem.home) /\ q # NoQuota
  <2>1. q = [home |-> mem.home, at |-> Max(rates)] /\ Max(rates) # 0
    BY <1>6 DEF LatestQuota, rates
  <2> QED
    BY <1>4, <2>1 DEF Quota
<1> QED
  BY <1>5, <1>6 DEF Quotas

-----------------------------------------------------------------------------
(* Faults *)

\* What has happened stays on record.
LEMMA SufferedIsOnRecord ==
    ASSUME TypeOK, NEW f \in Fault, Suffer(f)
    PROVE  /\ faults' \in [Fault -> Nat]
           /\ \A g \in Fault \ {f} : faults'[g] = faults[g]
           /\ faults'[f] = faults[f] + 1
<1>1. faults \in [Fault -> Nat] /\ faults' = [faults EXCEPT ![f] = @ + 1]
  BY DEF TypeOK, Suffer
<1>2. faults[f] + 1 \in Nat
  BY <1>1
<1> QED
  BY <1>1, <1>2

LEMMA SufferedHappened ==
    ASSUME TypeOK, NEW f \in Fault, Suffer(f), NEW kinds \in SUBSET Fault
    PROVE  /\ Happened(kinds) => Happened(kinds)'
           /\ f \in kinds => Happened(kinds)'
<1>1. /\ faults' \in [Fault -> Nat] /\ faults'[f] = faults[f] + 1
      /\ \A g \in Fault \ {f} : faults'[g] = faults[g]
  BY SufferedIsOnRecord
<1>2. faults \in [Fault -> Nat]
  BY DEF TypeOK
<1>3. faults'[f] > 0
  BY <1>1, <1>2
<1>4. \A g \in Fault : faults[g] > 0 => faults'[g] > 0
  BY <1>1, <1>3
<1> QED
  BY <1>3, <1>4 DEF Happened

LEMMA NothingHappened ==
    ASSUME UNCHANGED faults, NEW kinds
    PROVE  Happened(kinds)' <=> Happened(kinds)
BY DEF Happened

\* The run of a process is the number of the crashes before it.
LEMMA OtherFaultsLeaveTheRun ==
    ASSUME TypeOK, NEW f \in Fault \ {"crash"}, Suffer(f)
    PROVE  faults'["crash"] = faults["crash"]
BY SufferedIsOnRecord DEF Fault

-----------------------------------------------------------------------------
(* Types *)

LEMMA InitType ==
    ASSUME Init PROVE TypeOK
<1> USE HomeAssumption DEF HomeAssumption, Init
<1>1. /\ logs \in [Home -> SUBSET [mod : Time \ {0}, rate : Time]] /\ writes \in Time
      /\ toml \in [Home -> {"none", "ours", "other"}] /\ disk \in Home
  BY DEF Time
<1>2. mem \in Process /\ mem = Down /\ mem.pc = "down"
  BY DEF Process, Down, Quota
<1>3. found \in [Home -> {Unseen, Invalid} \cup Time] /\ found = NoneFound
  BY DEF NoneFound
<1>4. queue \in Seq(Message) /\ Len(queue) <= MaxQueue
  BY DEF Message
<1>5. srv \in Row
  BY DEF Row, NewRow, Quota
<1>6. baseline \in Home \cup {NoHome} /\ accused \in BOOLEAN /\ faults \in [Fault -> Nat]
  OBVIOUS
<1> QED
  BY <1>1, <1>2, <1>3, <1>4, <1>5, <1>6 DEF TypeOK

LEMMA CodexWritesType ==
    ASSUME TypeOK, NEW h \in Home, CodexWrites(h)
    PROVE  TypeOK'
<1>1. writes < MaxWrites /\ writes' = writes + 1
  BY DEF CodexWrites
<1>2. writes' \in Time /\ writes' # 0 /\ 0 \in Time
  BY <1>1, HomeAssumption DEF TypeOK, Time, HomeAssumption
<1>3. PICK old \in logs[h] \cup {[mod |-> 0, rate |-> 0]}, rated \in BOOLEAN :
        logs' = [logs EXCEPT ![h] = (@ \ {old}) \cup
                    {[mod |-> writes', rate |-> IF rated THEN writes' ELSE old.rate]}]
  BY DEF CodexWrites
<1>4. logs \in [Home -> SUBSET [mod : Time \ {0}, rate : Time]]
  BY DEF TypeOK
<1>5. old.rate \in Time
  BY <1>2, <1>4
<1>6. [mod |-> writes', rate |-> IF rated THEN writes' ELSE old.rate] \in [mod : Time \ {0}, rate : Time]
  BY <1>2, <1>5
<1>7. logs' \in [Home -> SUBSET [mod : Time \ {0}, rate : Time]]
  BY <1>3, <1>4, <1>6
<1>8. UNCHANGED <<toml, agentVars, queue, srv, faults>>
  BY DEF CodexWrites
<1> QED
  BY <1>2, <1>7, <1>8 DEF TypeOK, agentVars, NoneFound

\* What befalls the disk from outside.
LEMMA DiskType ==
    ASSUME TypeOK, NEW h \in Home, LogDeleted(h) \/ TomlEdited(h) \/ HomeEdited(h)
    PROVE  TypeOK'
<1> USE DEF Fault
<1>1. CASE LogDeleted(h)
  <2>1. UNCHANGED <<toml, writes, agentVars, queue, srv>> /\ faults' \in [Fault -> Nat]
    BY <1>1, SufferedIsOnRecord DEF LogDeleted
  <2>2. logs' \in [Home -> SUBSET [mod : Time \ {0}, rate : Time]]
    BY <1>1 DEF LogDeleted, TypeOK
  <2> QED
    BY <2>1, <2>2 DEF TypeOK, agentVars, NoneFound
<1>2. CASE TomlEdited(h)
  <2>1. UNCHANGED <<logs, writes, agentVars, queue, srv>> /\ faults' \in [Fault -> Nat]
    BY <1>2, SufferedIsOnRecord DEF TomlEdited
  <2>2. toml' \in [Home -> {"none", "ours", "other"}]
    BY <1>2 DEF TomlEdited, TypeOK
  <2> QED
    BY <2>1, <2>2 DEF TypeOK, agentVars, NoneFound
<1>3. CASE HomeEdited(h)
  <2>1. /\ UNCHANGED <<diskVars, mem, found, baseline, accused, queue, srv>>
        /\ faults' \in [Fault -> Nat] /\ disk' \in Home
    BY <1>3, SufferedIsOnRecord DEF HomeEdited
  <2> QED
    BY <2>1 DEF TypeOK, diskVars, NoneFound
<1> QED
  BY <1>1, <1>2, <1>3

LEMMA StartType ==
    ASSUME TypeOK, Start PROVE TypeOK'
<1>1. /\ mem.pc = "down" /\ mem' = [Down EXCEPT !.pc = "idle", !.home = disk]
      /\ UNCHANGED <<diskVars, disk, found, baseline, accused, queue, srv, faults>>
  BY DEF Start
<1>2. disk \in Home /\ found = NoneFound
  BY <1>1 DEF TypeOK
<1>3. mem' \in Process /\ mem'.pc = "idle" /\ mem'.home = disk
  BY <1>1, <1>2 DEF Process, Down, Quota
<1> QED
  BY <1>1, <1>2, <1>3 DEF TypeOK, diskVars, NoneFound

LEMMA CrashType ==
    ASSUME TypeOK, Crash PROVE TypeOK'
<1>1. /\ mem' = Down /\ found' = NoneFound
      /\ UNCHANGED <<diskVars, disk, baseline, accused, queue, srv>>
      /\ faults' \in [Fault -> Nat]
  BY SufferedIsOnRecord DEF Crash, Fault
<1>2. Down \in Process /\ Down.pc = "down"
  BY DEF Process, Down, Quota
<1>3. found' \in [Home -> {Unseen, Invalid} \cup Time]
  BY <1>1 DEF NoneFound
<1> QED
  BY <1>1, <1>2, <1>3 DEF TypeOK, diskVars, NoneFound

\* The next home to inspect: the process's own comes first.
LEMMA NextToInspect ==
    ASSUME mem.home \in Home, Unchecked # {},
           NEW h, h = (<<mem.home>> \o Candidates)[Min(Unchecked)]
    PROVE  h \in Home /\ (found[mem.home] = Unseen => h = mem.home)
<1> DEFINE order == <<mem.home>> \o Candidates
<1>1. /\ DOMAIN order = 1 .. Len(order) /\ 1 \in DOMAIN order
      /\ order[1] = mem.home /\ \A k \in DOMAIN order : order[k] \in Home
  BY OrderType
<1>2. Unchecked = {k \in DOMAIN order : found[order[k]] = Unseen} /\ h = order[Min(Unchecked)]
  BY DEF Unchecked
<1> HIDE DEF order
<1>3. Unchecked \in SUBSET Nat
  BY <1>1, <1>2
<1>4. Min(Unchecked) \in Unchecked /\ \A y \in Unchecked : Min(Unchecked) <= y
  BY <1>3, MinIsFirst
<1>5. found[mem.home] = Unseen => Min(Unchecked) = 1
  <2> SUFFICES ASSUME found[mem.home] = Unseen PROVE Min(Unchecked) = 1
    OBVIOUS
  <2>1. 1 \in Unchecked
    BY <1>1, <1>2
  <2>2. Min(Unchecked) <= 1 /\ Min(Unchecked) \in 1 .. Len(order)
    BY <1>1, <1>2, <1>4, <2>1
  <2> QED
    BY <2>2
<1> QED
  BY <1>1, <1>2, <1>4, <1>5

\* When all are inspected, so is the process's own.
LEMMA AllInspected ==
    ASSUME mem.home \in Home, Unchecked = {} PROVE found[mem.home] # Unseen
<1> DEFINE order == <<mem.home>> \o Candidates
<1>1. 1 \in DOMAIN order /\ order[1] = mem.home
  BY OrderType
<1>2. Unchecked = {k \in DOMAIN order : found[order[k]] = Unseen}
  BY DEF Unchecked
<1> QED
  BY <1>1, <1>2

LEMMA RunningIsAtHome ==
    ASSUME TypeOK, mem.pc # "down" PROVE mem.home \in Home
BY DEF TypeOK

LEMMA BeginRefreshType ==
    ASSUME TypeOK, BeginRefresh PROVE TypeOK'
<1>1. /\ mem.pc = "idle" /\ mem' = [mem EXCEPT !.pc = "walk", !.checked = TRUE]
      /\ UNCHANGED <<diskVars, disk, found, baseline, accused, queue, srv, faults>>
  BY DEF BeginRefresh
<1>2. found = NoneFound /\ mem.home \in Home /\ mem \in Process
  BY <1>1 DEF TypeOK
<1>3. mem' \in Process /\ mem'.pc = "walk" /\ mem'.home = mem.home
  BY <1>1, <1>2 DEF Process
<1> QED
  BY <1>1, <1>2, <1>3 DEF TypeOK, diskVars, NoneFound

\* What one inspection finds, the walk failing or not.
LEMMA InspectedHome ==
    ASSUME TypeOK, Inspect
    PROVE  \E h \in Home, r \in {Invalid} \cup Time :
             /\ found' = [found EXCEPT ![h] = r]
             /\ found[mem.home] = Unseen => h = mem.home
             /\ \/ UNCHANGED faults /\ (logs[h] # {} => r > 0)
                \/ Suffer("logs")
<1>1. mem.pc = "walk" /\ Unchecked # {} /\ mem.home \in Home
  BY RunningIsAtHome DEF Inspect
<1> DEFINE h == (<<mem.home>> \o Candidates)[Min(Unchecked)]
<1>2. h \in Home /\ (found[mem.home] = Unseen => h = mem.home)
  BY <1>1, NextToInspect
<1>3. \/ found' = [found EXCEPT ![h] = Inspection(h)] /\ UNCHANGED faults
      \/ /\ Suffer("logs")
         /\ \E r \in {Invalid, IF toml[h] # "none" THEN 0 ELSE Invalid} :
              found' = [found EXCEPT ![h] = r]
  BY DEF Inspect
<1> HIDE DEF h
<1>4. CASE found' = [found EXCEPT ![h] = Inspection(h)] /\ UNCHANGED faults
  BY <1>2, <1>4, InspectionType
<1>5. CASE /\ Suffer("logs")
           /\ \E r \in {Invalid, IF toml[h] # "none" THEN 0 ELSE Invalid} :
                found' = [found EXCEPT ![h] = r]
  <2>1. PICK r \in {Invalid, 0} : found' = [found EXCEPT ![h] = r]
    BY <1>5
  <2>2. r \in {Invalid} \cup Time
    BY <2>1, HomeAssumption DEF HomeAssumption, Time
  <2> QED
    BY <1>2, <1>5, <2>1, <2>2
<1> QED
  BY <1>3, <1>4, <1>5

LEMMA InspectType ==
    ASSUME TypeOK, Inspect PROVE TypeOK'
<1>1. PICK h \in Home, r \in {Invalid} \cup Time :
        /\ found' = [found EXCEPT ![h] = r]
        /\ found[mem.home] = Unseen => h = mem.home
        /\ UNCHANGED faults \/ Suffer("logs")
  BY InspectedHome
<1>2. faults' \in [Fault -> Nat]
  <2>1. CASE UNCHANGED faults
    BY <2>1 DEF TypeOK
  <2>2. CASE Suffer("logs")
    BY <2>2, SufferedIsOnRecord DEF Fault
  <2> QED
    BY <1>1, <2>1, <2>2
<1>3. mem.pc = "walk" /\ UNCHANGED <<diskVars, disk, mem, baseline, accused, queue, srv>>
  BY DEF Inspect
<1>4. found' \in [Home -> {Unseen, Invalid} \cup Time] /\ mem.home \in Home
  BY <1>1, <1>3 DEF TypeOK
<1>5. r # Unseen
  BY <1>1 DEF Unseen, Invalid, Time
<1>6. found'[mem.home] # Unseen
  BY <1>1, <1>4, <1>5 DEF TypeOK
<1> QED
  BY <1>2, <1>3, <1>4, <1>6 DEF TypeOK, diskVars, NoneFound

\* The outcome of a refresh.
LEMMA ResolvedChoice ==
    ASSUME TypeOK, Resolved
    PROVE  /\ mem.home \in Home /\ Resolve(mem.home, found) \in Home
           /\ found[mem.home] > 0 => Resolve(mem.home, found) = mem.home
           /\ found[mem.home] # Unseen
<1>1. mem.pc = "walk" /\ Unchecked = {} /\ mem.home \in Home
  BY RunningIsAtHome DEF Resolved
<1>2. found \in [Home -> {Unseen, Invalid} \cup Time]
  BY DEF TypeOK
<1> QED
  BY <1>1, <1>2, ResolvedHome, AllInspected

LEMMA StayType ==
    ASSUME TypeOK, Stay PROVE TypeOK'
<1>1. /\ mem.home \in Home /\ mem' = [mem EXCEPT !.pc = "idle"] /\ found' = NoneFound
      /\ UNCHANGED <<diskVars, disk, baseline, accused, queue, srv, faults>>
  BY ResolvedChoice DEF Stay
<1>2. mem' \in Process /\ mem'.pc = "idle" /\ mem'.home \in Home
  BY <1>1 DEF TypeOK, Process
<1>3. found' \in [Home -> {Unseen, Invalid} \cup Time]
  BY <1>1 DEF NoneFound
<1> QED
  BY <1>1, <1>2, <1>3 DEF TypeOK, diskVars, NoneFound

\* Where a switch leads.
LEMMA SwitchedTo ==
    ASSUME TypeOK, Switch
    PROVE  \E h \in Home :
             /\ h = Resolve(mem.home, found) /\ h # mem.home
             /\ \/ toml' = [toml EXCEPT ![h] = "ours"] /\ UNCHANGED faults
                \/ Suffer("toml") /\ UNCHANGED toml
             /\ mem' \in Process /\ mem'.pc = "save" /\ mem'.home = h
             /\ mem'.auto = TRUE /\ mem'.quota = NoQuota /\ found' = NoneFound
             /\ UNCHANGED <<logs, writes, disk, baseline, accused, queue, srv>>
<1> DEFINE h == Resolve(mem.home, found)
<1>1. h \in Home
  BY ResolvedChoice DEF Switch
<1>2. /\ h # mem.home
      /\ \/ toml' = [toml EXCEPT ![h] = "ours"] /\ UNCHANGED faults
         \/ Suffer("toml") /\ UNCHANGED toml
      /\ mem' = [mem EXCEPT !.pc = "save", !.home = h, !.auto = TRUE, !.quota = NoQuota]
      /\ found' = NoneFound
      /\ UNCHANGED <<logs, writes, disk, baseline, accused, queue, srv>>
  BY DEF Switch, Switched, Routed
<1> HIDE DEF h
<1>3. mem \in Process
  BY DEF TypeOK
<1>4. /\ mem' \in Process /\ mem'.pc = "save" /\ mem'.home = h
      /\ mem'.auto = TRUE /\ mem'.quota = NoQuota
  BY <1>1, <1>2, <1>3 DEF Process, Quota
<1> QED
  BY <1>1, <1>2, <1>4 DEF h

LEMMA SwitchType ==
    ASSUME TypeOK, Switch PROVE TypeOK'
<1>1. PICK h \in Home :
        /\ \/ toml' = [toml EXCEPT ![h] = "ours"] /\ UNCHANGED faults
           \/ Suffer("toml") /\ UNCHANGED toml
        /\ mem' \in Process /\ mem'.pc = "save" /\ mem'.home = h /\ found' = NoneFound
        /\ UNCHANGED <<logs, writes, disk, baseline, accused, queue, srv>>
  BY SwitchedTo
<1>2. toml' \in [Home -> {"none", "ours", "other"}] /\ faults' \in [Fault -> Nat]
  BY <1>1, SufferedIsOnRecord DEF TypeOK, Fault
<1>3. found' \in [Home -> {Unseen, Invalid} \cup Time]
  BY <1>1 DEF NoneFound
<1> QED
  BY <1>1, <1>2, <1>3 DEF TypeOK, NoneFound

LEMMA SaveHomeType ==
    ASSUME TypeOK, SaveHome PROVE TypeOK'
<1>1. /\ mem.pc = "save" /\ mem' = [mem EXCEPT !.pc = "idle"]
      /\ UNCHANGED <<diskVars, found, baseline, accused, queue, srv>>
  BY DEF SaveHome
<1>2. mem.home \in Home /\ mem \in Process /\ found = NoneFound
  BY <1>1 DEF TypeOK
<1>3. mem' \in Process /\ mem'.pc = "idle" /\ mem'.home = mem.home
  BY <1>1, <1>2 DEF Process
<1>4. disk' \in Home /\ faults' \in [Fault -> Nat]
  BY <1>2, SufferedIsOnRecord DEF SaveHome, TypeOK, Fault
<1> QED
  BY <1>1, <1>2, <1>3, <1>4 DEF TypeOK, diskVars, NoneFound

\* Where configure-telemetry leads: a saved home with logs stays.
LEMMA ConfiguredTo ==
    ASSUME TypeOK, ConfigureTool
    PROVE  \E h \in Home :
             /\ logs[disk] # {} => h = disk
             /\ toml' = [toml EXCEPT ![h] = "ours"] /\ disk' \in {disk, h}
<1> DEFINE seen == [g \in Home |-> Inspection(g)]
           h == Resolve(disk, seen)
<1>1. seen \in [Home -> {Unseen, Invalid} \cup Time] /\ disk \in Home
  BY InspectionsType DEF TypeOK
<1>2. h \in Home /\ (seen[disk] > 0 => h = disk)
  BY <1>1, ResolvedHome
<1>3. logs[disk] # {} => seen[disk] > 0
  BY <1>1, InspectionType
<1>4. toml' = [toml EXCEPT ![h] = "ours"] /\ disk' \in {disk, h}
  BY DEF ConfigureTool, Routed
<1> HIDE DEF h, seen
<1> QED
  BY <1>2, <1>3, <1>4

LEMMA ConfigureToolType ==
    ASSUME TypeOK, ConfigureTool PROVE TypeOK'
<1>1. PICK h \in Home : toml' = [toml EXCEPT ![h] = "ours"] /\ disk' \in {disk, h}
  BY ConfiguredTo
<1>2. /\ UNCHANGED <<logs, writes, mem, found, baseline, accused, queue, srv>>
      /\ faults' \in [Fault -> Nat]
  BY SufferedIsOnRecord DEF ConfigureTool, Fault
<1> QED
  BY <1>1, <1>2 DEF TypeOK, NoneFound

LEMMA ScanType ==
    ASSUME TypeOK, Scan PROVE TypeOK'
<1>1. /\ mem.home \in Home /\ mem.pc = "idle" /\ mem' = [mem EXCEPT !.pc = "save"]
      /\ baseline' = IF logs[mem.home] # {} THEN mem.home ELSE NoHome
      /\ accused' = (accused \/ baseline \notin {NoHome, mem.home})
      /\ UNCHANGED <<diskVars, disk, found, queue, srv, faults>>
  BY RunningIsAtHome DEF Scan, HomeKnown
<1>2. baseline' \in Home \cup {NoHome} /\ accused' \in BOOLEAN
  BY <1>1 DEF TypeOK
<1>3. mem' \in Process /\ mem'.pc = "save" /\ mem'.home = mem.home /\ found = NoneFound
  BY <1>1 DEF TypeOK, Process
<1> QED
  BY <1>1, <1>2, <1>3 DEF TypeOK, diskVars, NoneFound

\* The quota is cached, whatever becomes of the heartbeat.
LEMMA UnsavedCache ==
    ASSUME TypeOK, CacheIsOfHome, HeartbeatUnsaved
    PROVE  /\ mem' \in Process /\ mem'.pc = "idle" /\ mem.pc = "idle" /\ mem'.home = mem.home
           /\ mem.home \in Home /\ mem'.quota.home \in {mem.home, NoHome}
<1>1. mem.pc = "idle" /\ mem.home \in Home
  BY RunningIsAtHome DEF HeartbeatUnsaved, HomeKnown
<1>2. PICK q \in Quotas : mem' = [mem EXCEPT !.quota = q]
  BY DEF HeartbeatUnsaved
<1>3. q \in Quota /\ q.home \in {mem.home, NoHome}
  BY <1>1, QuotasType
<1>4. mem \in Process
  BY DEF TypeOK
<1> QED
  BY <1>1, <1>2, <1>3, <1>4 DEF Process

LEMMA HeartbeatUnsavedType ==
    ASSUME TypeOK, CacheIsOfHome, HeartbeatUnsaved PROVE TypeOK'
<1>1. /\ mem' \in Process /\ mem'.pc = "idle" /\ mem.pc = "idle" /\ mem'.home = mem.home
      /\ mem.home \in Home
  BY UnsavedCache
<1>2. UNCHANGED <<diskVars, disk, found, baseline, accused, queue, srv>> /\ faults' \in [Fault -> Nat]
  BY SufferedIsOnRecord DEF HeartbeatUnsaved, Fault
<1> QED
  BY <1>1, <1>2 DEF TypeOK, diskVars, NoneFound

\* What a heartbeat says.
LEMMA SentHeartbeat ==
    ASSUME TypeOK, CacheIsOfHome, Heartbeat
    PROVE  \E q \in Quota, m \in Message :
             /\ mem.pc = "idle" /\ mem.home \in Home /\ q.home \in {mem.home, NoHome}
             /\ m = [home |-> mem.home, auto |-> mem.auto, quota |-> q,
                     config |-> TelemetryStatus(mem.home), run |-> faults["crash"]]
             /\ mem' = [mem EXCEPT !.quota = q] /\ queue' = Append(queue, m)
             /\ Len(queue) < MaxQueue
<1>1. mem.pc = "idle" /\ mem.home \in Home
  BY RunningIsAtHome DEF Heartbeat, HomeKnown
<1>2. PICK q \in Quotas :
        /\ mem' = [mem EXCEPT !.quota = q]
        /\ queue' = Append(queue, [home |-> mem.home, auto |-> mem.auto, quota |-> q,
                       config |-> TelemetryStatus(mem.home), run |-> faults["crash"]])
  BY DEF Heartbeat
<1>3. q \in Quota /\ q.home \in {mem.home, NoHome}
  BY <1>1, QuotasType
<1> DEFINE m == [home |-> mem.home, auto |-> mem.auto, quota |-> q,
                 config |-> TelemetryStatus(mem.home), run |-> faults["crash"]]
<1>4. TelemetryStatus(mem.home) \in [fp : Fingerprint, ok : BOOLEAN]
  BY <1>1 DEF TypeOK, TelemetryStatus, Fingerprint
<1>5. mem.auto \in BOOLEAN /\ faults["crash"] \in Nat
  BY DEF TypeOK, Process, Fault
<1>6. m \in Message
  BY <1>1, <1>3, <1>4, <1>5 DEF Message
<1>7. Len(queue) < MaxQueue
  BY DEF Heartbeat
<1>8. queue' = Append(queue, m)
  BY <1>2
<1> QED
  BY <1>1, <1>2, <1>3, <1>6, <1>7, <1>8

LEMMA HeartbeatType ==
    ASSUME TypeOK, CacheIsOfHome, Heartbeat PROVE TypeOK'
<1>1. PICK q \in Quota, m \in Message :
        /\ mem.pc = "idle" /\ mem.home \in Home
        /\ mem' = [mem EXCEPT !.quota = q] /\ queue' = Append(queue, m)
        /\ Len(queue) < MaxQueue
  BY SentHeartbeat
<1>2. /\ disk' = mem.home
      /\ UNCHANGED <<diskVars, found, baseline, accused, srv, faults>>
  BY DEF Heartbeat
<1>3. mem' \in Process /\ mem'.pc = "idle" /\ mem'.home = mem.home /\ found = NoneFound
  BY <1>1 DEF TypeOK, Process
<1>4. queue \in Seq(Message) /\ MaxQueue \in Nat
  BY HomeAssumption DEF TypeOK, HomeAssumption
<1>5. queue' \in Seq(Message) /\ Len(queue') <= MaxQueue
  BY <1>1, <1>4
<1> QED
  BY <1>1, <1>2, <1>3, <1>5 DEF TypeOK, diskVars, NoneFound

\* The rest of the queue.
LEMMA TakenFromQueue ==
    ASSUME TypeOK, queue # << >>, queue' = Tail(queue)
    PROVE  /\ queue' \in Seq(Message) /\ Len(queue') <= MaxQueue
           /\ Head(queue) \in Message /\ Head(queue) = queue[1] /\ 1 \in DOMAIN queue
           /\ \A i \in DOMAIN queue' : i \in Nat /\ i + 1 \in DOMAIN queue /\ queue'[i] = queue[i + 1]
<1>1. queue \in Seq(Message) /\ MaxQueue \in Nat /\ Len(queue) <= MaxQueue /\ Len(queue) \in Nat
  BY HomeAssumption DEF TypeOK, HomeAssumption
<1>2. queue' \in Seq(Message) /\ Len(queue') = Len(queue) - 1
  BY <1>1
<1>3. Head(queue) \in Message /\ Head(queue) = queue[1] /\ 1 \in DOMAIN queue
  BY <1>1
<1>4. ASSUME NEW i \in DOMAIN queue'
      PROVE  i \in Nat /\ i + 1 \in DOMAIN queue /\ queue'[i] = queue[i + 1]
  <2>1. i \in 1 .. Len(queue) - 1
    BY <1>2
  <2> QED
    BY <1>1, <2>1
<1> QED
  BY <1>1, <1>2, <1>3, <1>4

LEMMA StoreType ==
    ASSUME TypeOK, Store PROVE TypeOK'
<1>1. queue # << >> /\ queue' = Tail(queue) /\ UNCHANGED <<diskVars, agentVars, faults>>
  BY DEF Store
<1>2. queue' \in Seq(Message) /\ Len(queue') <= MaxQueue /\ Head(queue) \in Message
  BY <1>1, TakenFromQueue
<1> DEFINE p == Head(queue)
<1>3. srv' = [home |-> p.home, fp |-> p.config.fp, run |-> p.run, raised |-> Events(p),
              quota |-> IF p.quota # NoQuota THEN p.quota ELSE srv.quota]
  BY DEF Store
<1>4. Events(p) \in SUBSET {"CODEX_HOME_CHANGED", "TELEMETRY_CONFIG_CHANGED"}
  BY DEF Events
<1>5. /\ p.home \in Home /\ p.config.fp \in Fingerprint /\ p.run \in Nat /\ p.quota \in Quota
      /\ srv.quota \in Quota
  BY <1>2 DEF Message, TypeOK, Row
<1> HIDE DEF p
<1>6. srv' \in Row
  BY <1>3, <1>4, <1>5 DEF Row
<1> QED
  BY <1>1, <1>2, <1>6 DEF TypeOK, diskVars, agentVars, NoneFound

LEMMA LapseType ==
    ASSUME TypeOK, Lapse PROVE TypeOK'
<1>1. /\ queue # << >> /\ queue' = Tail(queue) /\ UNCHANGED <<diskVars, agentVars, srv>>
      /\ faults' \in [Fault -> Nat]
  BY SufferedIsOnRecord DEF Lapse, Fault
<1>2. queue' \in Seq(Message) /\ Len(queue') <= MaxQueue
  BY <1>1, TakenFromQueue
<1> QED
  BY <1>1, <1>2 DEF TypeOK, diskVars, agentVars, NoneFound

LEMMA ReEnrollType ==
    ASSUME TypeOK, ReEnroll PROVE TypeOK'
<1>1. /\ mem.pc = "idle" /\ srv' = NewRow /\ queue' = << >> /\ disk' = mem.home
      /\ UNCHANGED <<logs, writes, mem, found, baseline, accused>>
      /\ faults' \in [Fault -> Nat] /\ mem.home \in Home
  BY SufferedIsOnRecord, RunningIsAtHome DEF ReEnroll, Fault
<1>2. toml' \in [Home -> {"none", "ours", "other"}]
  BY DEF ReEnroll, TypeOK
<1>3. srv' \in Row
  BY <1>1 DEF NewRow, Row, Quota
<1>4. queue' \in Seq(Message) /\ Len(queue') <= MaxQueue
  BY <1>1, HomeAssumption DEF HomeAssumption
<1> QED
  BY <1>1, <1>2, <1>3, <1>4 DEF TypeOK, NoneFound

LEMMA NextType ==
    ASSUME TypeOK, CacheIsOfHome, Next PROVE TypeOK'
BY CodexWritesType, DiskType, StartType, CrashType, BeginRefreshType, InspectType, StayType,
   SwitchType, SaveHomeType, ConfigureToolType, ScanType, HeartbeatType, HeartbeatUnsavedType,
   StoreType, LapseType, ReEnrollType DEF Next, Refresh

-----------------------------------------------------------------------------
(* The quota is of the home that the heartbeat names *)

LEMMA QuotaSent ==
    ASSUME TypeOK, CacheIsOfHome, QuotaOfReportedHome, Heartbeat
    PROVE  CacheIsOfHome' /\ QuotaOfReportedHome'
<1>1. PICK q \in Quota, m \in Message :
        /\ q.home \in {mem.home, NoHome} /\ m.home = mem.home /\ m.quota = q
        /\ mem' = [mem EXCEPT !.quota = q] /\ queue' = Append(queue, m)
  BY SentHeartbeat
<1>2. mem \in Process /\ queue \in Seq(Message)
  BY DEF TypeOK
<1>3. mem'.home = mem.home /\ mem'.quota = q
  BY <1>1, <1>2 DEF Process
<1>4. ASSUME NEW i \in DOMAIN queue' PROVE queue'[i].quota.home \in {queue'[i].home, NoHome}
  <2>1. (i \in DOMAIN queue /\ queue'[i] = queue[i]) \/ queue'[i] = m
    BY <1>1, <1>2
  <2>2. CASE i \in DOMAIN queue /\ queue'[i] = queue[i]
    BY <2>2 DEF QuotaOfReportedHome
  <2>3. CASE queue'[i] = m
    BY <1>1, <2>3
  <2> QED
    BY <2>1, <2>2, <2>3
<1> QED
  BY <1>1, <1>3, <1>4 DEF CacheIsOfHome, QuotaOfReportedHome

LEMMA QuotaTaken ==
    ASSUME TypeOK, QuotaOfReportedHome, queue # << >>, queue' = Tail(queue)
    PROVE  QuotaOfReportedHome'
<1>1. ASSUME NEW i \in DOMAIN queue' PROVE queue'[i].quota.home \in {queue'[i].home, NoHome}
  BY TakenFromQueue DEF QuotaOfReportedHome
<1> QED
  BY <1>1 DEF QuotaOfReportedHome

LEMMA NextQuota ==
    ASSUME TypeOK, CacheIsOfHome, QuotaOfReportedHome, Next
    PROVE  CacheIsOfHome' /\ QuotaOfReportedHome'
<1>1. ASSUME UNCHANGED <<mem, queue>> PROVE CacheIsOfHome' /\ QuotaOfReportedHome'
  BY <1>1 DEF CacheIsOfHome, QuotaOfReportedHome
<1>2. mem \in Process
  BY DEF TypeOK
<1>3. CASE \E h \in Home : CodexWrites(h) \/ LogDeleted(h) \/ TomlEdited(h) \/ HomeEdited(h)
  BY <1>1, <1>3 DEF CodexWrites, LogDeleted, TomlEdited, HomeEdited, agentVars
<1>4. CASE Start
  <2>1. mem' = [Down EXCEPT !.pc = "idle", !.home = disk] /\ UNCHANGED queue
    BY <1>4 DEF Start
  <2>2. mem'.quota.home = NoHome
    BY <2>1 DEF Down, NoQuota
  <2> QED
    BY <2>1, <2>2 DEF CacheIsOfHome, QuotaOfReportedHome
<1>5. CASE Crash
  <2>1. mem' = Down /\ UNCHANGED queue
    BY <1>5 DEF Crash
  <2>2. mem'.quota.home = NoHome
    BY <2>1 DEF Down, NoQuota
  <2> QED
    BY <2>1, <2>2 DEF CacheIsOfHome, QuotaOfReportedHome
<1>6. CASE Inspect
  BY <1>1, <1>6 DEF Inspect
<1>7. CASE BeginRefresh \/ Stay \/ SaveHome \/ Scan
  <2>1. /\ mem' \in {[mem EXCEPT !.pc = "walk", !.checked = TRUE], [mem EXCEPT !.pc = "idle"],
                     [mem EXCEPT !.pc = "save"]}
        /\ UNCHANGED queue
    BY <1>7 DEF BeginRefresh, Stay, SaveHome, Scan
  <2>2. mem'.home = mem.home /\ mem'.quota = mem.quota
    BY <1>2, <2>1 DEF Process
  <2> QED
    BY <2>1, <2>2 DEF CacheIsOfHome, QuotaOfReportedHome
<1>8. CASE Switch
  <2>1. mem'.quota = NoQuota /\ UNCHANGED queue
    BY <1>8, SwitchedTo
  <2>2. mem'.quota.home = NoHome
    BY <2>1 DEF NoQuota
  <2> QED
    BY <2>1, <2>2 DEF CacheIsOfHome, QuotaOfReportedHome
<1>9. CASE ConfigureTool
  BY <1>1, <1>9 DEF ConfigureTool
<1>10. CASE Heartbeat
  BY <1>10, QuotaSent
<1>11. CASE Store \/ Lapse
  <2>1. queue # << >> /\ queue' = Tail(queue) /\ UNCHANGED mem
    BY <1>11 DEF Store, Lapse, agentVars
  <2> QED
    BY <2>1, QuotaTaken DEF CacheIsOfHome
<1>12. CASE ReEnroll
  BY <1>12 DEF ReEnroll, CacheIsOfHome, QuotaOfReportedHome
<1>13. CASE HeartbeatUnsaved
  BY <1>13, UnsavedCache DEF HeartbeatUnsaved, CacheIsOfHome, QuotaOfReportedHome
<1> QED
  BY <1>3, <1>4, <1>5, <1>6, <1>7, <1>8, <1>9, <1>10, <1>11, <1>12, <1>13 DEF Next, Refresh

-----------------------------------------------------------------------------
(* The logs that integrity.json knows stay in view *)

\* Every step leaves on record what has happened.
LEMMA RecordGrows ==
    ASSUME TypeOK, Next, NEW kinds \in SUBSET Fault, Happened(kinds)
    PROVE  Happened(kinds)'
<1>1. UNCHANGED faults \/ \E f \in Fault : Suffer(f)
  BY DEF Next, Refresh, CodexWrites, LogDeleted, TomlEdited, HomeEdited, Start, Crash,
         BeginRefresh, Inspect, Stay, Switch, SaveHome, ConfigureTool, Scan, Heartbeat,
         HeartbeatUnsaved, Store, Lapse, ReEnroll, Fault, agentVars
<1> QED
  BY <1>1, SufferedHappened, NothingHappened

\* As long as every save succeeds, config.json names the home of the process.
LEMMA NextSaved ==
    ASSUME TypeOK, CacheIsOfHome, SavedIsCurrent, Next
    PROVE  SavedIsCurrent'
<1> DEFINE Excused == Happened({"home", "save"})
<1> SUFFICES ASSUME ~Excused', mem'.pc \in {"idle", "walk"}
             PROVE  disk' = mem'.home
  BY DEF SavedIsCurrent
<1>1. ~Excused
  BY RecordGrows DEF Fault
<1>2. ~Suffer("home") /\ ~Suffer("save")
  BY SufferedHappened DEF Fault
<1>3. mem.pc \in {"idle", "walk"} => disk = mem.home
  BY <1>1 DEF SavedIsCurrent
<1> HIDE DEF Excused
<1>4. mem \in Process
  BY DEF TypeOK
<1>5. CASE Start
  BY <1>5 DEF Start, Down
<1>6. CASE Crash \/ Switch \/ Scan
  <2>1. CASE Crash
    BY <2>1 DEF Crash, Down
  <2>2. CASE Switch
    BY <2>2, SwitchedTo
  <2>3. CASE Scan
    BY <1>4, <2>3 DEF Scan, Process
  <2> QED
    BY <1>6, <2>1, <2>2, <2>3
<1>7. CASE BeginRefresh \/ Stay
  <2>1. /\ mem.pc \in {"idle", "walk"} /\ UNCHANGED disk
        /\ mem' \in {[mem EXCEPT !.pc = "walk", !.checked = TRUE], [mem EXCEPT !.pc = "idle"]}
    BY <1>7 DEF BeginRefresh, Stay, Resolved
  <2>2. mem'.home = mem.home
    BY <1>4, <2>1 DEF Process
  <2> QED
    BY <1>3, <2>1, <2>2
<1>8. CASE SaveHome \/ Heartbeat
  <2>1. mem'.home = mem.home /\ disk' = mem.home
    BY <1>2, <1>4, <1>8 DEF SaveHome, Heartbeat, Process
  <2> QED
    BY <2>1
<1>9. CASE ConfigureTool
  BY <1>9 DEF ConfigureTool
<1>10. CASE ReEnroll
  BY <1>10 DEF ReEnroll
<1>11. CASE \/ \E h \in Home : CodexWrites(h) \/ LogDeleted(h) \/ TomlEdited(h) \/ HomeEdited(h)
            \/ Inspect \/ Store \/ Lapse \/ HeartbeatUnsaved
  <2>1. UNCHANGED <<disk, mem>>
    BY <1>2, <1>11 DEF CodexWrites, LogDeleted, TomlEdited, HomeEdited, Inspect, Store, Lapse,
         HeartbeatUnsaved, agentVars
  <2> QED
    BY <1>3, <2>1
<1> QED
  BY <1>5, <1>6, <1>7, <1>8, <1>9, <1>10, <1>11 DEF Next, Refresh

LEMMA NextBaseline ==
    ASSUME TypeOK, CacheIsOfHome, SavedIsCurrent, BaselineHolds, KnownLogsStayInView, Next
    PROVE  BaselineHolds' /\ KnownLogsStayInView'
<1> DEFINE Lost == Happened({"logs", "home"})
           Unsaved == Happened({"save"})
           Ended == Happened({"crash"})
<1>1. (Lost => Lost') /\ (Unsaved => Unsaved') /\ (Ended => Ended')
  <2>1. {"logs", "home"} \in SUBSET Fault /\ {"save"} \in SUBSET Fault /\ {"crash"} \in SUBSET Fault
    BY DEF Fault
  <2>2. Lost => Lost'
    BY <2>1, RecordGrows
  <2>3. Unsaved => Unsaved'
    BY <2>1, RecordGrows
  <2>4. Ended => Ended'
    BY <2>1, RecordGrows
  <2> QED
    BY <2>2, <2>3, <2>4
<1>2. /\ Suffer("logs") => Lost'
      /\ Suffer("home") => Lost'
      /\ Suffer("save") => Unsaved'
      /\ Crash => Ended'
  <2>1. Suffer("logs") => Lost'
    BY SufferedHappened DEF Fault
  <2>2. Suffer("home") => Lost'
    BY SufferedHappened DEF Fault
  <2>3. Suffer("save") => Unsaved'
    BY SufferedHappened DEF Fault
  <2>4. Suffer("crash") => Ended'
    BY SufferedHappened DEF Fault
  <2>5. Crash => Suffer("crash")
    BY DEF Crash
  <2> QED
    BY <2>1, <2>2, <2>3, <2>4, <2>5
<1>3. /\ baseline # NoHome /\ mem.pc = "down" => Ended
      /\ baseline # NoHome /\ ~Lost /\ ~(Unsaved /\ Ended) =>
            /\ logs[baseline] # {} /\ (mem.pc # "down" => mem.home = baseline)
            /\ ~Unsaved => disk = baseline
            /\ found[baseline] # Unseen => found[baseline] > 0
      /\ accused => Lost \/ (Unsaved /\ Ended)
  BY DEF BaselineHolds, KnownLogsStayInView
<1>4. ~Lost /\ ~Unsaved /\ mem.pc = "idle" => disk = mem.home
  BY DEF SavedIsCurrent, Happened
<1>5. baseline # NoHome => baseline \in Home
  BY DEF TypeOK
<1> SUFFICES /\ baseline' # NoHome /\ mem'.pc = "down" => Ended'
             /\ ~Lost' /\ ~(Unsaved' /\ Ended') =>
                  /\ ~accused'
                  /\ baseline' # NoHome =>
                       /\ logs'[baseline'] # {} /\ (mem'.pc # "down" => mem'.home = baseline')
                       /\ ~Unsaved' => disk' = baseline'
                       /\ found'[baseline'] # Unseen => found'[baseline'] > 0
  BY DEF BaselineHolds, KnownLogsStayInView
<1> HIDE DEF Lost, Unsaved, Ended
<1>6. CASE Scan
  <2>1. /\ mem.home \in Home /\ mem.pc = "idle" /\ found = NoneFound /\ disk' = disk
        /\ baseline' = IF logs[mem.home] # {} THEN mem.home ELSE NoHome
        /\ accused' = (accused \/ baseline \notin {NoHome, mem.home})
        /\ UNCHANGED <<logs, found>> /\ mem'.pc = "save" /\ mem'.home = mem.home
    BY <1>6, RunningIsAtHome DEF Scan, HomeKnown, TypeOK, Process, diskVars
  <2>2. found'[mem.home] = Unseen
    BY <2>1 DEF NoneFound
  <2> QED
    BY <1>1, <1>3, <1>4, <2>1, <2>2
<1>7. ASSUME ~Scan PROVE UNCHANGED <<baseline, accused>>
  BY <1>7 DEF Next, Refresh, CodexWrites, LogDeleted, TomlEdited, HomeEdited, Start, Crash,
         BeginRefresh, Inspect, Stay, Switch, SaveHome, ConfigureTool, Heartbeat,
         HeartbeatUnsaved, Store, Lapse, ReEnroll, agentVars
<1>8. CASE ~Scan /\ (baseline = NoHome \/ Lost' \/ (Unsaved' /\ Ended'))
  <2>1. CASE Crash
    BY <1>1, <1>2, <1>3, <1>7, <1>8, <2>1 DEF Crash
  <2>2. CASE ~Crash
    <3>1. mem'.pc = "down" => mem.pc = "down"
      BY <1>8, <2>2, SwitchedTo, UnsavedCache
         DEF Next, Refresh, CodexWrites, LogDeleted, TomlEdited, HomeEdited, Start, BeginRefresh,
         Inspect, Stay, SaveHome, ConfigureTool, Heartbeat, Store, Lapse, ReEnroll, agentVars,
         TypeOK, Process, Down, HomeKnown
    <3> QED
      BY <1>1, <1>3, <1>7, <1>8, <3>1
  <2> QED
    BY <2>1, <2>2
<1>9. CASE ~Scan /\ baseline # NoHome /\ ~Lost' /\ ~(Unsaved' /\ Ended')
  <2>1. /\ UNCHANGED <<baseline, accused>> /\ ~accused /\ ~Lost /\ ~(Unsaved /\ Ended)
        /\ baseline \in Home /\ logs[baseline] # {} /\ (mem.pc # "down" => mem.home = baseline)
        /\ ~Unsaved => disk = baseline
        /\ found[baseline] # Unseen => found[baseline] > 0
        /\ ~Suffer("logs") /\ ~Suffer("home") /\ (mem.pc = "down" => Ended /\ disk = baseline)
        /\ ~Unsaved' => ~Unsaved
    BY <1>1, <1>2, <1>3, <1>5, <1>7, <1>9
  <2> DEFINE Kept == /\ logs'[baseline] # {} /\ (mem'.pc # "down" => mem'.home = baseline)
                     /\ ~Unsaved' => disk' = baseline
                     /\ found'[baseline] # Unseen => found'[baseline] > 0
                     /\ mem'.pc = "down" => Ended'
  <2> SUFFICES Kept
    BY <2>1
  <2>2. CASE \E h \in Home : CodexWrites(h)
    <3>1. PICK h, old, new : h \in Home /\ logs' = [logs EXCEPT ![h] = (@ \ {old}) \cup {new}]
      BY <2>2 DEF CodexWrites
    <3>2. logs'[baseline] # {}
      BY <2>1, <3>1 DEF TypeOK
    <3> QED
      BY <1>1, <2>1, <2>2, <3>2 DEF CodexWrites, agentVars
  <2>3. CASE \E h \in Home : LogDeleted(h) \/ TomlEdited(h) \/ HomeEdited(h)
    BY <1>1, <2>1, <2>3 DEF LogDeleted, TomlEdited, HomeEdited, agentVars
  <2>4. CASE Start
    BY <1>1, <2>1, <2>4 DEF Start, Down, diskVars
  <2>5. CASE Crash
    BY <1>2, <2>1, <2>5 DEF Crash, Down, NoneFound, diskVars
  <2>6. CASE BeginRefresh
    <3>1. mem'.home = mem.home /\ mem'.pc = "walk" /\ mem.pc = "idle"
      BY <2>6 DEF BeginRefresh, TypeOK, Process
    <3> QED
      BY <2>1, <2>6, <3>1 DEF BeginRefresh, diskVars
  <2>7. CASE Inspect
    <3>1. PICK h \in Home, r \in {Invalid} \cup Time :
            found' = [found EXCEPT ![h] = r] /\ (logs[h] # {} => r > 0)
      BY <2>1, <2>7, InspectedHome
    <3>2. found'[baseline] # Unseen => found'[baseline] > 0
      BY <2>1, <3>1 DEF TypeOK
    <3> QED
      BY <2>1, <2>7, <3>2 DEF Inspect, diskVars
  <2>8. CASE Stay
    <3>1. mem'.home = mem.home /\ mem'.pc = "idle" /\ mem.pc = "walk" /\ found'[baseline] = Unseen
      BY <2>1, <2>8 DEF Stay, Resolved, TypeOK, Process, NoneFound
    <3> QED
      BY <2>1, <2>8, <3>1 DEF Stay, diskVars
  <2>9. CASE Switch
    <3>1. Resolved /\ Resolve(mem.home, found) # mem.home /\ mem.pc = "walk"
      BY <2>9 DEF Switch, Resolved
    <3>2. found[mem.home] > 0
      BY <2>1, <3>1, ResolvedChoice
    <3> QED
      BY <3>1, <3>2, ResolvedChoice
  <2>10. CASE SaveHome
    <3>1. /\ mem'.home = mem.home /\ mem'.pc = "idle" /\ mem.pc = "save" /\ disk' \in {disk, mem.home}
      BY <2>10 DEF SaveHome, TypeOK, Process
    <3> QED
      BY <2>1, <2>10, <3>1 DEF SaveHome, diskVars
  <2>11. CASE ConfigureTool
    <3>1. disk' = disk /\ mem' = mem
      BY <2>1, <2>11, ConfiguredTo DEF ConfigureTool
    <3> QED
      BY <1>1, <2>1, <2>11, <3>1 DEF ConfigureTool
  <2>12. CASE Heartbeat
    <3>1. mem'.home = mem.home /\ mem'.pc = "idle" /\ mem.pc = "idle" /\ disk' = mem.home
      BY <2>12 DEF Heartbeat, HomeKnown, TypeOK, Process
    <3> QED
      BY <2>1, <2>12, <3>1 DEF Heartbeat, diskVars
  <2>13. CASE HeartbeatUnsaved
    <3>1. mem'.home = mem.home /\ mem'.pc = "idle" /\ mem.pc = "idle"
      BY <2>13, UnsavedCache
    <3> QED
      BY <2>1, <2>13, <3>1 DEF HeartbeatUnsaved, diskVars
  <2>14. CASE Store \/ Lapse
    BY <1>1, <2>1, <2>14 DEF Store, Lapse, agentVars, diskVars
  <2>15. CASE ReEnroll
    BY <2>1, <2>15 DEF ReEnroll
  <2> QED
    BY <1>9, <2>2, <2>3, <2>4, <2>5, <2>6, <2>7, <2>8, <2>9, <2>10, <2>11, <2>12, <2>13, <2>14, <2>15
       DEF Next, Refresh
<1> QED
  BY <1>6, <1>8, <1>9

-----------------------------------------------------------------------------
(* The agent raises no telemetry alarm itself *)

LEMMA NextTelemetry ==
    ASSUME TypeOK, CacheIsOfHome, TelemetryIsOurs, TelemetryAlarmIsReal, Next
    PROVE  TelemetryIsOurs' /\ TelemetryAlarmIsReal'
<1> DEFINE Excused == Happened({"toml", "home"})
           Ours == [fp |-> "ours", ok |-> TRUE]
           Alarm == "TELEMETRY_CONFIG_CHANGED"
           AllOurs == \A i \in DOMAIN queue : queue[i].config = Ours
           Homes == toml[disk] = "ours" /\ (mem.pc # "down" => toml[mem.home] = "ours")
           Told == srv.fp \in {"", "ours"} /\ Alarm \notin srv.raised
<1> SUFFICES ASSUME ~Excused'
             PROVE  Homes' /\ AllOurs' /\ Told'
  BY DEF TelemetryIsOurs, TelemetryAlarmIsReal
<1>1. ~Excused
  BY RecordGrows DEF Fault
<1>2. ~Suffer("toml") /\ ~Suffer("home")
  BY SufferedHappened DEF Fault
<1>3. Homes /\ AllOurs /\ Told
  BY <1>1 DEF TelemetryIsOurs, TelemetryAlarmIsReal
<1> HIDE DEF Excused
<1>4. disk \in Home /\ toml \in [Home -> {"none", "ours", "other"}] /\ mem \in Process
  BY DEF TypeOK
<1>5. CASE \E h \in Home : CodexWrites(h) \/ LogDeleted(h) \/ TomlEdited(h) \/ HomeEdited(h)
  BY <1>2, <1>3, <1>5 DEF CodexWrites, LogDeleted, TomlEdited, HomeEdited, agentVars
<1>6. CASE Start
  <2>1. mem'.home = disk /\ UNCHANGED <<toml, disk, queue, srv>>
    BY <1>6 DEF Start, Down, diskVars
  <2> QED
    BY <1>3, <2>1
<1>7. CASE Crash
  BY <1>3, <1>7 DEF Crash, Down, diskVars
<1>8. CASE BeginRefresh \/ Stay
  <2>1. mem'.home = mem.home /\ mem.pc # "down" /\ UNCHANGED <<toml, disk, queue, srv>>
    BY <1>4, <1>8 DEF BeginRefresh, Stay, Resolved, diskVars, Process
  <2> QED
    BY <1>3, <2>1
<1>9. CASE Inspect
  BY <1>3, <1>9 DEF Inspect, diskVars
<1>10. CASE Switch
  <2>1. PICK h \in Home :
          toml' = [toml EXCEPT ![h] = "ours"] /\ mem'.home = h /\ UNCHANGED <<disk, queue, srv>>
    BY <1>2, <1>10, SwitchedTo
  <2>2. toml'[disk] = "ours" /\ toml'[h] = "ours"
    BY <1>3, <1>4, <2>1
  <2> QED
    BY <1>3, <2>1, <2>2
<1>11. CASE SaveHome
  <2>1. /\ mem'.home = mem.home /\ mem.pc # "down" /\ disk' \in {disk, mem.home}
        /\ UNCHANGED <<toml, queue, srv>>
    BY <1>4, <1>11 DEF SaveHome, diskVars, Process
  <2> QED
    BY <1>3, <2>1
<1>12. CASE ConfigureTool
  <2>1. PICK h \in Home : toml' = [toml EXCEPT ![h] = "ours"] /\ disk' \in {disk, h}
    BY <1>12, ConfiguredTo
  <2>2. mem.pc = "down" /\ UNCHANGED <<mem, queue, srv>>
    BY <1>12 DEF ConfigureTool
  <2>3. toml'[disk'] = "ours"
    BY <1>3, <1>4, <2>1
  <2> QED
    BY <1>3, <2>2, <2>3
<1>13. CASE Scan \/ HeartbeatUnsaved
  <2>1. mem'.home = mem.home /\ mem.pc # "down" /\ UNCHANGED <<toml, disk, queue, srv>>
    BY <1>4, <1>13, UnsavedCache DEF Scan, HeartbeatUnsaved, HomeKnown, diskVars, Process
  <2> QED
    BY <1>3, <2>1
<1>14. CASE Heartbeat
  <2>1. PICK q \in Quota, m \in Message :
          /\ mem.pc = "idle" /\ m.config = TelemetryStatus(mem.home)
          /\ mem' = [mem EXCEPT !.quota = q] /\ queue' = Append(queue, m)
    BY <1>14, SentHeartbeat
  <2>2. disk' = mem.home /\ UNCHANGED <<toml, srv>> /\ mem'.home = mem.home
    BY <1>4, <1>14, <2>1 DEF Heartbeat, diskVars, Process
  <2>3. m.config = Ours
    BY <1>3, <2>1 DEF TelemetryStatus
  <2>4. AllOurs'
    <3> SUFFICES ASSUME NEW i \in DOMAIN queue' PROVE queue'[i].config = Ours
      OBVIOUS
    <3>1. (i \in DOMAIN queue /\ queue'[i] = queue[i]) \/ queue'[i] = m
      BY <2>1 DEF TypeOK
    <3> QED
      BY <1>3, <2>3, <3>1
  <2> QED
    BY <1>3, <2>1, <2>2, <2>4
<1>15. CASE Store
  <2>1. queue # << >> /\ queue' = Tail(queue) /\ UNCHANGED <<toml, disk, mem>>
    BY <1>15 DEF Store, agentVars, diskVars
  <2>2. AllOurs' /\ Head(queue).config = Ours
    BY <1>3, <2>1, TakenFromQueue
  <2>3. PICK p : p = Head(queue)
    OBVIOUS
  <2>4. p.config.fp = "ours" /\ p.config.ok = TRUE
    BY <2>2, <2>3
  <2>5. srv'.fp = p.config.fp /\ srv'.raised = Events(p)
    BY <1>15, <2>3 DEF Store
  <2>6. srv.fp \in {"", p.config.fp}
    BY <1>3, <2>4
  <2>7. Alarm \notin Events(p)
    BY <2>4, <2>6 DEF Events
  <2>8. Told'
    BY <2>4, <2>5, <2>7
  <2> QED
    BY <1>3, <2>1, <2>2, <2>8
<1>16. CASE Lapse
  <2>1. /\ queue # << >> /\ queue' = Tail(queue) /\ UNCHANGED <<toml, disk, mem, srv>>
    BY <1>16 DEF Lapse, agentVars, diskVars
  <2>2. AllOurs'
    BY <1>3, <2>1, TakenFromQueue
  <2> QED
    BY <1>3, <2>1, <2>2
<1>17. CASE ReEnroll
  <2>1. /\ mem.home \in Home /\ srv' = NewRow /\ queue' = << >> /\ disk' = mem.home /\ mem' = mem
        /\ toml' = [h \in Home |-> IF h = mem.home THEN "ours"
                                   ELSE IF toml[h] = "ours" THEN "other" ELSE toml[h]]
    BY <1>17, RunningIsAtHome DEF ReEnroll
  <2>2. toml'[mem.home] = "ours"
    BY <2>1
  <2>3. Told'
    BY <2>1 DEF NewRow
  <2>4. AllOurs'
    BY <2>1
  <2> QED
    BY <2>1, <2>2, <2>3, <2>4
<1> QED
  BY <1>5, <1>6, <1>7, <1>8, <1>9, <1>10, <1>11, <1>12, <1>13, <1>14, <1>15, <1>16, <1>17
     DEF Next, Refresh

-----------------------------------------------------------------------------
(* One home in every run that never switches *)

\* Whatever preceded the next heartbeat precedes the one after this step.
LEMMA StillPrecedes ==
    ASSUME TypeOK, Next, NEW p, p.run \in Int, Precedes(p)
    PROVE  Precedes(p)'
<1>1. mem \in Process /\ faults \in [Fault -> Nat]
  BY DEF TypeOK
<1>2. ASSUME faults'["crash"] = faults["crash"], mem'.pc = "down" <=> mem.pc = "down",
             mem'.home = mem.home, mem'.auto = mem.auto
      PROVE  Precedes(p)'
  BY <1>2 DEF Precedes, Agrees, Upcoming
<1>3. CASE Start
  <2>1. p.run < faults["crash"] /\ faults["crash"] \in Int /\ UNCHANGED faults
    BY <1>1, <1>3 DEF Start, Precedes, Fault
  <2>2. mem'.pc = "idle"
    BY <1>3 DEF Start, Down
  <2> QED
    BY <2>1, <2>2 DEF Precedes, Agrees, Upcoming
<1>4. CASE Crash
  <2>1. /\ mem.pc # "down" /\ mem' = Down /\ faults["crash"] \in Int
        /\ faults'["crash"] = faults["crash"] + 1
    BY <1>1, <1>4, SufferedIsOnRecord DEF Crash, Fault
  <2>2. p.run <= faults["crash"] /\ mem'.pc = "down"
    BY <2>1 DEF Precedes, Down
  <2> QED
    BY <2>1, <2>2 DEF Precedes
<1>5. CASE Switch
  <2>1. mem'.pc = "save" /\ mem'.auto = TRUE /\ mem.pc # "down"
    BY <1>5, SwitchedTo DEF Switch, Resolved
  <2>2. faults'["crash"] = faults["crash"]
    BY <1>5, SwitchedTo, OtherFaultsLeaveTheRun DEF Fault
  <2>3. p.run <= faults["crash"]
    BY <2>1 DEF Precedes
  <2> QED
    BY <2>1, <2>2, <2>3 DEF Precedes, Agrees, Upcoming
<1>6. CASE /\ UNCHANGED faults
              \/ \E f \in Fault \ {"crash"} : Suffer(f)
           /\ \/ UNCHANGED mem
              \/ mem.pc = "idle" /\ mem' = [mem EXCEPT !.pc = "walk", !.checked = TRUE]
              \/ mem.pc \in {"walk", "save"} /\ mem' = [mem EXCEPT !.pc = "idle"]
              \/ mem.pc = "idle" /\ mem' = [mem EXCEPT !.pc = "save"]
              \/ mem.pc = "idle" /\ \E q \in Quotas : mem' = [mem EXCEPT !.quota = q]
  <2>1. faults'["crash"] = faults["crash"]
    BY <1>6, OtherFaultsLeaveTheRun
  <2>2. (mem'.pc = "down" <=> mem.pc = "down") /\ mem'.home = mem.home /\ mem'.auto = mem.auto
    BY <1>1, <1>6 DEF Process
  <2> QED
    BY <1>2, <2>1, <2>2
<1>7. CASE \E h \in Home : CodexWrites(h) \/ LogDeleted(h) \/ TomlEdited(h) \/ HomeEdited(h)
  BY <1>6, <1>7 DEF CodexWrites, LogDeleted, TomlEdited, HomeEdited, agentVars, Fault
<1>8. CASE BeginRefresh \/ Inspect \/ Stay \/ SaveHome
  <2>1. CASE BeginRefresh
    BY <1>6, <2>1 DEF BeginRefresh
  <2>2. CASE Inspect
    BY <1>6, <2>2 DEF Inspect, Fault
  <2>3. CASE Stay
    BY <1>6, <2>3 DEF Stay, Resolved
  <2>4. CASE SaveHome
    BY <1>6, <2>4 DEF SaveHome, Fault
  <2> QED
    BY <1>8, <2>1, <2>2, <2>3, <2>4
<1>9. CASE ConfigureTool \/ Store \/ Lapse \/ ReEnroll
  BY <1>6, <1>9 DEF ConfigureTool, Store, Lapse, ReEnroll, agentVars, Fault
<1>10. CASE Scan \/ Heartbeat \/ HeartbeatUnsaved
  <2>1. CASE Scan
    BY <1>6, <2>1 DEF Scan, HomeKnown
  <2>2. CASE Heartbeat
    BY <1>6, <2>2 DEF Heartbeat, HomeKnown
  <2>3. CASE HeartbeatUnsaved
    BY <1>6, <2>3 DEF HeartbeatUnsaved, HomeKnown, Fault
  <2> QED
    BY <1>10, <2>1, <2>2, <2>3
<1> QED
  BY <1>3, <1>4, <1>5, <1>7, <1>8, <1>9, <1>10 DEF Next, Refresh

LEMMA NextOneHome ==
    ASSUME TypeOK, CacheIsOfHome, OneHomePerRun, Next
    PROVE  OneHomePerRun'
<1>1. /\ srv.run \in Int /\ queue \in Seq(Message)
      /\ \A i \in DOMAIN queue : queue[i] \in Message /\ queue[i].run \in Int
      /\ faults["crash"] \in Nat
  <2>1. srv.run \in Nat \cup {-1} /\ queue \in Seq(Message) /\ faults["crash"] \in Nat
    BY DEF TypeOK, Row, Fault
  <2>2. ASSUME NEW i \in DOMAIN queue PROVE queue[i] \in Message /\ queue[i].run \in Int
    <3>1. queue[i] \in Message
      BY <2>1
    <3> QED
      BY <3>1 DEF Message
  <2> QED
    BY <2>1, <2>2
<1>2. /\ Precedes(srv)
      /\ \A i \in DOMAIN queue :
           /\ Agrees(srv, queue[i]) /\ Precedes(queue[i])
           /\ \A j \in 1 .. i - 1 : Agrees(queue[j], queue[i])
  BY DEF OneHomePerRun
<1>3. PICK row : row = srv
  OBVIOUS
<1>4. row.run \in Int /\ Precedes(row)
  BY <1>1, <1>2, <1>3
<1>5. Precedes(row)'
  BY <1>4, StillPrecedes
<1>6. ASSUME NEW i \in DOMAIN queue, NEW m, m = queue[i] PROVE Precedes(m)'
  BY <1>1, <1>2, <1>6, StillPrecedes
<1>7. CASE UNCHANGED <<srv, queue>>
  <2>1. Precedes(srv)'
    <3>1. srv' = row
      BY <1>3, <1>7
    <3> QED
      BY <1>5, <3>1 DEF Precedes, Upcoming
  <2>2. ASSUME NEW i \in DOMAIN queue' PROVE Precedes(queue[i])'
    <3>1. PICK m : m = queue[i]
      OBVIOUS
    <3>2. Precedes(m)' /\ queue'[i] = m
      BY <1>6, <1>7, <2>2, <3>1
    <3> QED
      BY <3>2 DEF Precedes, Upcoming
  <2> QED
    BY <1>2, <1>7, <2>1, <2>2 DEF OneHomePerRun
<1>8. CASE Heartbeat
  <2>1. PICK q \in Quota, m \in Message :
          /\ mem.pc = "idle"
          /\ m = [home |-> mem.home, auto |-> mem.auto, quota |-> q,
                  config |-> TelemetryStatus(mem.home), run |-> faults["crash"]]
          /\ mem' = [mem EXCEPT !.quota = q] /\ queue' = Append(queue, m)
    BY <1>8, SentHeartbeat
  <2>2. UNCHANGED <<srv, faults>>
    BY <1>8 DEF Heartbeat
  <2>3. ASSUME NEW p, Precedes(p) PROVE Agrees(p, m)
    BY <2>1, <2>3 DEF Precedes, Agrees, Upcoming
  <2>4. Precedes(m)'
    <3>1. mem'.pc = "idle" /\ mem'.home = mem.home
      BY <2>1 DEF TypeOK, Process
    <3> QED
      BY <1>1, <2>1, <2>2, <3>1 DEF Precedes, Agrees, Upcoming
  <2>5. Precedes(srv)'
    <3>1. srv' = row
      BY <1>3, <2>2
    <3> QED
      BY <1>5, <3>1 DEF Precedes, Upcoming
  <2>6. ASSUME NEW i \in DOMAIN queue'
        PROVE  /\ i \in Nat /\ \A j \in 1 .. i - 1 : j \in DOMAIN queue /\ queue'[j] = queue[j]
               /\ (i \in DOMAIN queue /\ queue'[i] = queue[i]) \/ queue'[i] = m
    <3>1. i \in 1 .. Len(queue) + 1 /\ Len(queue) \in Nat
      BY <1>1, <2>1
    <3> QED
      BY <1>1, <2>1, <3>1
  <2>7. ASSUME NEW i \in DOMAIN queue'
        PROVE  /\ Agrees(srv, queue[i])' /\ Precedes(queue[i])'
               /\ \A j \in 1 .. i - 1 : Agrees(queue[j], queue[i])'
    <3>1. CASE queue'[i] = m
      <4>1. Precedes(queue[i])'
        BY <2>4, <3>1 DEF Precedes, Upcoming
      <4>2. Agrees(srv, m) /\ \A j \in 1 .. i - 1 : Agrees(queue[j], m)
        BY <1>2, <2>3, <2>6
      <4> QED
        BY <2>2, <2>6, <3>1, <4>1, <4>2 DEF Agrees
    <3>2. CASE i \in DOMAIN queue /\ queue'[i] = queue[i]
      <4>1. PICK e : e = queue[i]
        OBVIOUS
      <4>2. Precedes(e)' /\ queue'[i] = e
        BY <1>6, <3>2, <4>1
      <4>3. Precedes(queue[i])'
        BY <4>2 DEF Precedes, Upcoming
      <4> QED
        BY <1>2, <2>2, <2>6, <3>2, <4>3 DEF Agrees
    <3> QED
      BY <2>6, <3>1, <3>2
  <2> QED
    BY <2>5, <2>7 DEF OneHomePerRun
<1>9. ASSUME queue # << >>, queue' = Tail(queue), NEW i \in DOMAIN queue'
      PROVE  /\ Precedes(queue[i])' /\ i \in Nat /\ queue'[i] = queue[i + 1] /\ i + 1 \in DOMAIN queue
             /\ \A j \in 1 .. i - 1 : Agrees(queue[j], queue[i])'
  <2>1. \A j \in DOMAIN queue' : j \in Nat /\ j + 1 \in DOMAIN queue /\ queue'[j] = queue[j + 1]
    BY <1>9, TakenFromQueue
  <2>2. PICK e : e = queue[i + 1]
    OBVIOUS
  <2>3. Precedes(e)' /\ queue'[i] = e
    BY <1>6, <1>9, <2>1, <2>2
  <2>4. Precedes(queue[i])'
    BY <2>3 DEF Precedes, Upcoming
  <2>5. ASSUME NEW j \in 1 .. i - 1 PROVE Agrees(queue[j], queue[i])'
    <3>1. queue' \in Seq(Message)
      BY <1>9, TakenFromQueue
    <3>2. i \in 1 .. Len(queue') /\ Len(queue') \in Nat
      BY <1>9, <3>1
    <3>3. j \in 1 .. Len(queue')
      BY <2>5, <3>2
    <3>4. j \in DOMAIN queue' /\ j + 1 \in 1 .. (i + 1) - 1
      BY <2>5, <3>1, <3>2, <3>3
    <3>5. Agrees(queue[j + 1], queue[i + 1])
      BY <1>2, <1>9, <2>1, <3>4
    <3>6. queue'[j] = queue[j + 1] /\ queue'[i] = queue[i + 1]
      BY <1>9, <2>1, <3>4
    <3> QED
      BY <3>5, <3>6 DEF Agrees
  <2> QED
    BY <1>9, <2>1, <2>4, <2>5
<1>10. CASE Store
  <2>1. queue # << >> /\ queue' = Tail(queue) /\ srv'.home = Head(queue).home /\ srv'.run = Head(queue).run
    BY <1>10 DEF Store
  <2>2. Head(queue) = queue[1] /\ 1 \in DOMAIN queue
    BY <2>1, TakenFromQueue
  <2>3. PICK p : p = queue[1]
    OBVIOUS
  <2>4. Precedes(p)' /\ srv'.home = p.home /\ srv'.run = p.run
    BY <1>6, <2>1, <2>2, <2>3
  <2>5. Precedes(srv)'
    BY <2>4 DEF Precedes, Agrees, Upcoming
  <2>6. ASSUME NEW i \in DOMAIN queue' PROVE Agrees(srv, queue[i])'
    <3>1. i \in Nat /\ i + 1 \in DOMAIN queue /\ queue'[i] = queue[i + 1]
      BY <1>9, <2>1, <2>6
    <3>2. i >= 1
      BY <2>1, <2>6, TakenFromQueue
    <3>3. 1 \in 1 .. (i + 1) - 1
      BY <3>1, <3>2
    <3>4. Agrees(p, queue[i + 1])
      BY <1>2, <2>3, <3>1, <3>3
    <3> QED
      BY <2>4, <3>1, <3>4 DEF Agrees
  <2> QED
    BY <1>9, <2>1, <2>5, <2>6 DEF OneHomePerRun
<1>11. CASE Lapse
  <2>1. queue # << >> /\ queue' = Tail(queue) /\ srv' = srv
    BY <1>11 DEF Lapse
  <2>2. Precedes(srv)'
    BY <1>3, <1>5, <2>1 DEF Precedes, Upcoming
  <2>3. ASSUME NEW i \in DOMAIN queue' PROVE Agrees(srv, queue[i])'
    <3>1. i + 1 \in DOMAIN queue /\ queue'[i] = queue[i + 1]
      BY <1>9, <2>1, <2>3
    <3>2. Agrees(srv, queue[i + 1])
      BY <1>2, <3>1
    <3> QED
      BY <2>1, <3>1, <3>2 DEF Agrees
  <2> QED
    BY <1>9, <2>1, <2>2, <2>3 DEF OneHomePerRun
<1>12. CASE ReEnroll
  <2>1. /\ srv' = NewRow /\ queue' = << >> /\ mem' = mem /\ mem.pc # "down"
        /\ faults'["crash"] = faults["crash"]
    BY <1>12, OtherFaultsLeaveTheRun DEF ReEnroll, Fault
  <2>2. Precedes(srv)'
    <3>1. srv'.run = -1 /\ mem'.pc # "down" /\ faults'["crash"] \in Nat
      BY <1>1, <2>1 DEF NewRow
    <3>2. srv'.run <= faults'["crash"] /\ srv'.run # faults'["crash"]
      BY <3>1
    <3> QED
      BY <3>1, <3>2 DEF Precedes, Agrees, Upcoming
  <2> QED
    BY <2>1, <2>2 DEF OneHomePerRun
<1> QED
  BY <1>7, <1>8, <1>10, <1>11, <1>12
     DEF Next, Refresh, CodexWrites, LogDeleted, TomlEdited, HomeEdited, Start, Crash, BeginRefresh,
         Inspect, Stay, Switch, SaveHome, ConfigureTool, Scan, HeartbeatUnsaved, agentVars

-----------------------------------------------------------------------------
(* The theorems *)

LEMMA InitInv ==
    ASSUME Init PROVE IInv
<1>1. TypeOK
  BY InitType
<1>2. CacheIsOfHome /\ QuotaOfReportedHome
  BY DEF Init, Down, NoQuota, CacheIsOfHome, QuotaOfReportedHome
<1>3. TelemetryIsOurs /\ TelemetryAlarmIsReal
  <2>1. toml[disk] = "ours"
    BY HomeAssumption DEF Init, HomeAssumption
  <2>2. mem.pc = "down" /\ queue = << >> /\ srv.fp = "" /\ srv.raised = {}
    BY DEF Init, Down, NewRow
  <2>3. \A i \in DOMAIN queue : queue[i].config = [fp |-> "ours", ok |-> TRUE]
    <3>1. queue = << >>
      BY DEF Init
    <3> QED
      BY <3>1
  <2>4. TelemetryAlarmIsReal
    BY <2>2 DEF TelemetryAlarmIsReal
  <2>5. TelemetryIsOurs
    BY <2>1, <2>2, <2>3, Zenon DEF TelemetryIsOurs
  <2> QED
    BY <2>4, <2>5
<1>4. SavedIsCurrent /\ BaselineHolds /\ KnownLogsStayInView
  BY DEF Init, Down, SavedIsCurrent, BaselineHolds, KnownLogsStayInView
<1>5. OneHomePerRun
  <2>1. mem.pc = "down" /\ queue = << >> /\ srv.run = -1 /\ faults["crash"] = 0
    BY DEF Init, Down, NewRow, Fault
  <2> QED
    BY <2>1 DEF OneHomePerRun, Precedes
<1> QED
  BY <1>1, <1>2, <1>3, <1>4, <1>5 DEF IInv

LEMMA StutterInv ==
    ASSUME IInv, UNCHANGED vars PROVE IInv'
<1>1. UNCHANGED <<logs, toml, writes, disk, mem, found, baseline, accused, queue, srv, faults>>
  BY DEF vars, diskVars, agentVars
<1>2. TypeOK'
  BY <1>1 DEF IInv, TypeOK, NoneFound
<1>3. CacheIsOfHome' /\ QuotaOfReportedHome'
  BY <1>1 DEF IInv, CacheIsOfHome, QuotaOfReportedHome
<1>4. TelemetryIsOurs' /\ TelemetryAlarmIsReal'
  BY <1>1 DEF IInv, TelemetryIsOurs, TelemetryAlarmIsReal, Happened
<1>5. SavedIsCurrent' /\ BaselineHolds' /\ KnownLogsStayInView'
  BY <1>1 DEF IInv, SavedIsCurrent, BaselineHolds, KnownLogsStayInView, Happened
<1>6. OneHomePerRun'
  BY <1>1 DEF IInv, OneHomePerRun, Precedes, Agrees, Upcoming
<1> QED
  BY <1>2, <1>3, <1>4, <1>5, <1>6 DEF IInv

(***************************************************************************)
(* The inductive invariant: the types, the origin of the quota cache, the  *)
(* settings the agent itself has written, the home that config.json and    *)
(* integrity.json are of, and the one home of a process that has not       *)
(* switched.                                                               *)
(***************************************************************************)
THEOREM Invariance == Spec => []IInv
<1>1. Init => IInv
  BY InitInv
<1>2. IInv /\ [Next]_vars => IInv'
  <2> SUFFICES ASSUME IInv, [Next]_vars PROVE IInv'
    OBVIOUS
  <2>1. CASE Next
    <3>1. /\ TypeOK /\ CacheIsOfHome /\ QuotaOfReportedHome /\ TelemetryIsOurs
          /\ TelemetryAlarmIsReal /\ SavedIsCurrent /\ BaselineHolds /\ KnownLogsStayInView
          /\ OneHomePerRun
      BY DEF IInv
    <3>2. TypeOK'
      BY <2>1, <3>1, NextType
    <3>3. CacheIsOfHome' /\ QuotaOfReportedHome'
      BY <2>1, <3>1, NextQuota
    <3>4. TelemetryIsOurs' /\ TelemetryAlarmIsReal'
      BY <2>1, <3>1, NextTelemetry
    <3>5. SavedIsCurrent' /\ BaselineHolds' /\ KnownLogsStayInView'
      BY <2>1, <3>1, NextSaved, NextBaseline
    <3>6. OneHomePerRun'
      BY <2>1, <3>1, NextOneHome
    <3> QED
      BY <3>2, <3>3, <3>4, <3>5, <3>6 DEF IInv
  <2>2. CASE UNCHANGED vars
    BY <2>2, StutterInv
  <2> QED
    BY <2>1, <2>2
<1> QED
  BY <1>1, <1>2, PTL DEF Spec

(***************************************************************************)
(* Every variable keeps its type; an agent that runs is at a home, and     *)
(* holds inspections, of that home first, only during a refresh.           *)
(***************************************************************************)
THEOREM TypeCorrect == Spec => []TypeOK
<1>1. IInv => TypeOK
  BY DEF IInv
<1> QED
  BY <1>1, Invariance, PTL

(***************************************************************************)
(* The quota of a heartbeat was read in the home that the heartbeat names. *)
(***************************************************************************)
THEOREM QuotaIsOfReportedHome == Spec => []QuotaOfReportedHome
<1>1. IInv => QuotaOfReportedHome
  BY DEF IInv
<1> QED
  BY <1>1, Invariance, PTL

(***************************************************************************)
(* TELEMETRY_CONFIG_CHANGED means an edit by hand, or a home that the      *)
(* agent may not write to.                                                 *)
(***************************************************************************)
THEOREM TelemetryAlarmsAreReal == Spec => []TelemetryAlarmIsReal
<1>1. IInv => TelemetryAlarmIsReal
  BY DEF IInv
<1> QED
  BY <1>1, Invariance, PTL

(***************************************************************************)
(* No scan looks for the logs of one home in another, unless a log is      *)
(* deleted, a walk fails, somebody edits the home in config.json, or a     *)
(* failed save of config.json and the end of a process come together.      *)
(***************************************************************************)
THEOREM KnownLogsStay == Spec => []KnownLogsStayInView
<1>1. IInv => KnownLogsStayInView
  BY DEF IInv
<1> QED
  BY <1>1, Invariance, PTL

(***************************************************************************)
(* CODEX_HOME_CHANGED is raised only by the first heartbeat that is stored *)
(* from a process.                                                         *)
(***************************************************************************)
THEOREM AlarmsFollowRestarts == Spec => HomeAlarmsFollowRestarts
<1>1. ASSUME IInv, [Next]_vars, srv' # srv, "CODEX_HOME_CHANGED" \in srv'.raised
      PROVE  srv'.run # srv.run
  <2>1. CASE Store
    <3>1. queue # << >> /\ queue' = Tail(queue) /\ TypeOK /\ OneHomePerRun
      BY <1>1, <2>1 DEF Store, IInv
    <3>2. Head(queue) = queue[1] /\ 1 \in DOMAIN queue
      BY <3>1, TakenFromQueue
    <3>3. PICK p : p = queue[1]
      OBVIOUS
    <3>4. srv'.run = p.run /\ srv'.raised = Events(p)
      BY <2>1, <3>2, <3>3 DEF Store
    <3>5. srv.home # p.home /\ ~p.auto
      BY <1>1, <3>4 DEF Events
    <3>6. Agrees(srv, p)
      BY <3>1, <3>2, <3>3 DEF OneHomePerRun
    <3> QED
      BY <3>4, <3>5, <3>6 DEF Agrees
  <2>2. CASE ReEnroll
    BY <1>1, <2>2 DEF ReEnroll, NewRow
  <2>3. CASE ~Store /\ ~ReEnroll
    BY <1>1, <2>3 DEF Next, Refresh, CodexWrites, LogDeleted, TomlEdited, HomeEdited, Start, Crash,
         BeginRefresh, Inspect, Stay, Switch, SaveHome, ConfigureTool, Scan, Heartbeat,
         HeartbeatUnsaved, Lapse, vars
  <2> QED
    BY <2>1, <2>2, <2>3
<1>2. IInv /\ [Next]_vars =>
        [srv' # srv /\ "CODEX_HOME_CHANGED" \in srv'.raised => srv'.run # srv.run]_vars
  BY <1>1
<1> QED
  BY <1>2, Invariance, PTL DEF Spec, HomeAlarmsFollowRestarts
=============================================================================

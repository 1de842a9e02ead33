-------------------------- MODULE ChartCacheProofs --------------------------
(***************************************************************************)
(* Proofs about the chart cache for any number of requests, repositories   *)
(* and charts, and with any number of crashes.                             *)
(***************************************************************************)
EXTENDS ChartProperties, TLAPS

-----------------------------------------------------------------------------
(***************************************************************************)
(* Type correctness.                                                       *)
(***************************************************************************)
LEMMA RepoOrderFact ==
  /\ Len(RepoOrder) \in Nat
  /\ \A i \in 1..Len(RepoOrder) : RepoOrder[i] \in Repos
  /\ DOMAIN RepoOrder = 1..Len(RepoOrder)
  /\ Configured \subseteq Repos
  BY ChartAssumption DEF Configured

LEMMA MainProcess == Main \in Processes /\ Requests \subseteq Processes
  BY DEF Processes

LEMMA GotoType ==
  ASSUME TypeOK, NEW p \in Processes, NEW s \in Pcs, Goto(p, s)
  PROVE  pc' \in [Processes -> Pcs]
  BY DEF Goto, TypeOK

LEMMA FailType ==
  ASSUME TypeOK, NEW p \in Processes, Fail(p)
  PROVE  /\ pc' \in [Processes -> Pcs]
         /\ result' \in [Processes -> {"none", "served", "failed", "dropped"}]
         /\ broker' \in {"down", "starting", "up", "exited"}
  BY DEF Fail, Goto, TypeOK, Pcs

LEMMA CurrentType ==
  ASSUME TypeOK, NEW p \in Processes, next[p] <= Len(RepoOrder)
  PROVE  Current(p) \in Repos
  BY RepoOrderFact DEF TypeOK, Current

\* A write of the repositories file that fails.
LEMMA SpoilFact ==
  ASSUME NEW p \in Processes, NEW from, NEW to, SpoilRepoFile(p, from, to)
  PROVE  /\ Fail(p) /\ pc[p] \in {from, to} /\ Unwritable
         /\ \/ repofile' = repofile /\ (pc[p] = from \/ repofile.state = "whole")
            \/ repofile' = [state |-> "cut", repos |-> {}]
  BY DEF SpoilRepoFile, LeftBy

LEMMA AddRepoType ==
  ASSUME TypeOK, NextInRange, NEW p \in Processes, AddRepo(p)
  PROVE  TypeOK' /\ NextInRange'
  <1> USE RepoOrderFact, MainProcess DEF TypeOK, NextInRange
  <1>1. CASE TruncateIndex(p)
    <2>1. next[p] <= Len(RepoOrder) /\ Current(p) \in Repos
      BY <1>1, CurrentType DEF TruncateIndex
    <2>2. CASE index' = [index EXCEPT ![Current(p)] = "torn"] /\ Goto(p, "index")
               /\ UNCHANGED <<result, broker>>
      BY <1>1, <2>1, <2>2 DEF TruncateIndex, Goto, Pcs, States
    <2>3. CASE Fail(p) /\ UNCHANGED index
      <3>1. pc' = [pc EXCEPT ![p] = "done"]
        BY <2>3 DEF Fail, Goto
      <3> QED
        BY <1>1, <2>3, <3>1, FailType DEF TruncateIndex
    <2> QED
      BY <1>1, <2>2, <2>3 DEF TruncateIndex
  <1>2. CASE FillIndex(p)
    <2>1. Current(p) \in Repos
      BY <1>2, CurrentType DEF FillIndex
    <2>2. CASE index' = [index EXCEPT ![Current(p)] = "whole"] /\ Goto(p, "stat")
               /\ UNCHANGED <<result, broker>>
      BY <1>2, <2>1, <2>2 DEF FillIndex, Goto, Pcs, States
    <2>3. CASE Fail(p) /\ \E s \in LeftBy(index[Current(p)]) :
                            index' = [index EXCEPT ![Current(p)] = s]
      <3>1. pc' = [pc EXCEPT ![p] = "done"]
        BY <2>3 DEF Fail, Goto
      <3>2. index' \in [Repos -> States]
        BY <2>1, <2>3 DEF LeftBy, States
      <3> QED
        BY <1>2, <2>3, <3>1, <3>2, FailType DEF FillIndex
    <2> QED
      BY <1>2, <2>2, <2>3 DEF FillIndex
  <1>s. ASSUME NEW from, NEW to, SpoilRepoFile(p, from, to),
               UNCHANGED <<index, archive, want, next, seen, place, served, crashes>>
        PROVE  TypeOK' /\ NextInRange'
    <2>1. pc' = [pc EXCEPT ![p] = "done"]
      BY <1>s DEF SpoilRepoFile, Fail, Goto
    <2>2. repofile' \in [state : States, repos : SUBSET Repos]
      BY <1>s, SpoilFact DEF States
    <2> QED
      BY <1>s, <2>1, <2>2, FailType DEF SpoilRepoFile
  <1>3. CASE StatRepoFile(p)
    BY <1>3 DEF StatRepoFile, Goto, Pcs, fileVars
  <1>4. CASE AddRepoFile(p)
    <2>1. CASE TruncateRepoFile(p, "create", "fillNew") /\ UNCHANGED <<result, broker>>
      BY <1>4, <2>1 DEF AddRepoFile, TruncateRepoFile, Goto, Pcs, States
    <2>2. CASE pc[p] = "fillNew" /\ FillRepoFile({Current(p)}) /\ Goto(p, "read")
               /\ UNCHANGED <<result, broker>>
      <3>1. Current(p) \in Repos
        BY <2>2, CurrentType
      <3>2. repofile' \in [state : States, repos : SUBSET Repos]
        BY <2>2, <3>1 DEF FillRepoFile, States
      <3> QED
        BY <1>4, <2>2, <3>2 DEF AddRepoFile, Goto, Pcs
    <2> QED
      BY <1>4, <1>s, <2>1, <2>2 DEF AddRepoFile
  <1>5. CASE LoadRepoFile(p)
    BY <1>5, FailType DEF LoadRepoFile, Goto, Fail, Pcs, fileVars
  <1>6. CASE UpdateRepoFile(p)
    <2>1. CASE TruncateRepoFile(p, "update", "fillOld") /\ UNCHANGED <<next, result, broker>>
      BY <1>6, <2>1 DEF UpdateRepoFile, TruncateRepoFile, Goto, Pcs, States
    <2>2. CASE /\ pc[p] = "fillOld" /\ FillRepoFile(seen[p] \cup {Current(p)})
               /\ next' = [next EXCEPT ![p] = @ + 1] /\ Goto(p, "repos")
               /\ UNCHANGED <<result, broker>>
      <3>1. Current(p) \in Repos /\ next[p] <= Len(RepoOrder)
        BY <2>2, CurrentType
      <3>2. repofile' \in [state : States, repos : SUBSET Repos]
        BY <2>2, <3>1 DEF FillRepoFile, States
      <3>3. next' \in [Processes -> 1..(Len(RepoOrder) + 1)]
        BY <2>2, <3>1
      <3> QED
        BY <1>6, <2>2, <3>2, <3>3 DEF UpdateRepoFile, Goto, Pcs
    <2> QED
      BY <1>6, <1>s, <2>1, <2>2 DEF UpdateRepoFile
  <1> QED
    BY <1>1, <1>2, <1>3, <1>4, <1>5, <1>6 DEF AddRepo

\* A step to FAIL that touches nothing but the archive.
LEMMA FailStep ==
  ASSUME TypeOK, NextInRange, NEW p \in Processes, Fail(p),
         archive' \in [Files -> [state : States, repo : Repos \cup {None}]],
         UNCHANGED <<repofile, index, want, next, seen, place, served, crashes>>
  PROVE  TypeOK' /\ NextInRange'
  <1>1. pc' = [pc EXCEPT ![p] = "done"]
    BY DEF Fail, Goto
  <1>2. NextInRange'
    BY <1>1 DEF NextInRange, TypeOK
  <1>3. TypeOK'
    BY FailType DEF TypeOK
  <1> QED
    BY <1>2, <1>3

\* A step to a place of getChart.
LEMMA GotoStep ==
  ASSUME TypeOK, NextInRange, NEW p \in Processes,
         NEW s \in {"find", "repos", "url", "resolve", "get", "fill", "load", "done"},
         Goto(p, s),
         archive' \in [Files -> [state : States, repo : Repos \cup {None}]],
         place' \in [Processes -> Places],
         UNCHANGED <<repofile, index, want, next, seen, result, served, broker, crashes>>
  PROVE  TypeOK' /\ NextInRange'
  <1>1. pc' = [pc EXCEPT ![p] = s]
    BY DEF Goto
  <1>2. NextInRange'
    BY <1>1 DEF NextInRange, TypeOK
  <1>3. TypeOK'
    BY GotoType DEF TypeOK, Pcs
  <1> QED
    BY <1>2, <1>3

LEMMA FoundFact ==
  ASSUME NEW w, w.repo \in Configured, NEW f \in Found(w)
  PROVE  f \in Files /\ f \in Offers[w.repo] /\ f.name = w.name
  BY RepoOrderFact, ChartAssumption DEF Found

\* A file that is loaded and is no archive is the offline path of the service,
\* and contains what the service names.
LEMMA OfflineFact ==
  ASSUME PlacesAsked, NEW p \in Requests, pc[p] = "load", place[p] \notin Files
  PROVE  /\ place[p] = want[p].path /\ want[p].path # None
         /\ Mentions[place[p]] = [name |-> want[p].name, ver |-> want[p].ver]
         /\ Mentions[place[p]] \in Files
  <1> DEFINE w == want[p]
             f == [name |-> w.name, ver |-> w.ver]
  <1>1. w \in Wants /\ f \in ArchiveNames
    BY ChartAssumption DEF PlacesAsked, PlaceAsked, Open, AllWants, ArchiveNames
  <1>2. place[p] = LocalFile(w) /\ Exists(place[p])
    BY FoundFact DEF PlacesAsked, PlaceAsked
  <1>3. place[p] \in Shipped /\ place[p] \in Paths
    BY <1>2, ChartAssumption DEF Exists
  <1>4. place[p] # f
    BY <1>1, <1>3, ChartAssumption
  <1>5. w.path # None /\ Mentions[w.path] = f /\ place[p] = w.path
    BY <1>2, <1>4 DEF LocalFile
  <1> QED
    BY <1>1, <1>3, <1>5, ChartAssumption

LEMMA GetChartType ==
  ASSUME TypeOK, NextInRange, PlacesAsked, NEW p \in Processes, GetChart(p),
         p = Main => pc[Main] \notin {"find", "url", "resolve", "get", "fill", "load"}
  PROVE  TypeOK' /\ NextInRange'
  <1>0. /\ archive \in [Files -> [state : States, repo : Repos \cup {None}]]
        /\ place \in [Processes -> Places]
    BY DEF TypeOK
  <1>1. CASE FindChart(p)
    <2>1. ASSUME Exists(LocalFile(want[p])) PROVE LocalFile(want[p]) \in Places
      BY <2>1, ChartAssumption DEF Exists, Places
    <2>2. place' \in [Processes -> Places]
      BY <1>0, <1>1, <2>1 DEF FindChart
    <2> QED
      BY <1>0, <1>1, <2>2, GotoStep DEF FindChart, fileVars
  <1>2. CASE ReposDone(p)
    BY <1>0, <1>2, GotoStep DEF ReposDone, fileVars
  <1>3. CASE FindURL(p)
    <2>1. CASE /\ want[p].repo \in Configured
               /\ \E f \in Found(want[p]) : place' = [place EXCEPT ![p] = f]
               /\ Goto(p, "resolve") /\ UNCHANGED <<result, broker>>
      <3>1. place' \in [Processes -> Places]
        BY <1>0, <2>1, FoundFact DEF Places
      <3> QED
        BY <1>0, <1>3, <2>1, <3>1, GotoStep DEF FindURL, fileVars
    <2>2. CASE Fail(p) /\ UNCHANGED place
      BY <1>0, <1>3, <2>2, FailStep DEF FindURL, fileVars
    <2> QED
      BY <1>3, <2>1, <2>2 DEF FindURL
  <1>4. CASE ResolveChartVersion(p)
    <2>1. CASE Fail(p)
      BY <1>0, <1>4, <2>1, FailStep DEF ResolveChartVersion, fileVars
    <2>2. CASE Goto(p, "get") /\ UNCHANGED <<result, broker>>
      BY <1>0, <1>4, <2>2, GotoStep DEF ResolveChartVersion, fileVars
    <2> QED
      BY <1>4, <2>1, <2>2 DEF ResolveChartVersion
  <1>5. CASE TruncateArchive(p)
    <2>1. place[p] \in Files
      BY <1>5, FoundFact DEF TruncateArchive, PlacesAsked, PlaceAsked, Processes
    <2>2. archive' \in [Files -> [state : States, repo : Repos \cup {None}]]
      BY <1>0, <1>5, <2>1 DEF TruncateArchive, States
    <2>3. CASE Fail(p)
      BY <1>5, <2>2, <2>3, FailStep DEF TruncateArchive
    <2>4. CASE Goto(p, "fill") /\ UNCHANGED <<result, broker>>
      BY <1>0, <1>5, <2>2, <2>4, GotoStep DEF TruncateArchive
    <2> QED
      BY <1>5, <2>3, <2>4 DEF TruncateArchive
  <1>6. CASE FillArchive(p)
    <2>1. place[p] \in Files /\ want[p].repo \in Repos
      BY <1>6, FoundFact, RepoOrderFact DEF FillArchive, PlacesAsked, PlaceAsked, Processes
    <2>2. archive' \in [Files -> [state : States, repo : Repos \cup {None}]]
      BY <1>0, <1>6, <2>1 DEF FillArchive, States, LeftBy
    <2>3. CASE Fail(p)
      BY <1>6, <2>2, <2>3, FailStep DEF FillArchive
    <2>4. CASE Goto(p, "load") /\ UNCHANGED <<result, broker>>
      BY <1>0, <1>6, <2>2, <2>4, GotoStep DEF FillArchive
    <2> QED
      BY <1>6, <2>3, <2>4 DEF FillArchive
  <1>7. CASE LoadChart(p)
    <2>1. CASE Fail(p) /\ UNCHANGED served
      BY <1>0, <1>7, <2>1, FailStep DEF LoadChart, fileVars
    <2>2. CASE /\ served' = [served EXCEPT ![p] =
                     IF place[p] \in Files THEN [repo |-> archive[place[p]].repo, file |-> place[p]]
                     ELSE [repo |-> None, file |-> Mentions[place[p]]]]
               /\ Goto(p, "done") /\ result' = [result EXCEPT ![p] = "served"]
               /\ UNCHANGED broker
      <3>1. ASSUME place[p] \notin Files PROVE Mentions[place[p]] \in Files
        BY <1>7, <3>1, OfflineFact DEF LoadChart, Processes
      <3>2. served' \in [Processes -> [repo : Repos \cup {None}, file : Files \cup {NoFile}]]
        BY <1>0, <2>2, <3>1 DEF TypeOK
      <3>3. pc' = [pc EXCEPT ![p] = "done"]
        BY <2>2 DEF Goto
      <3>4. TypeOK'
        BY <1>7, <2>2, <3>2, GotoType DEF LoadChart, Pcs, fileVars, TypeOK
      <3>5. NextInRange'
        BY <1>7, <3>3 DEF LoadChart, NextInRange, TypeOK
      <3> QED
        BY <3>4, <3>5
    <2> QED
      BY <1>7, <2>1, <2>2 DEF LoadChart
  <1> QED
    BY <1>1, <1>2, <1>3, <1>4, <1>5, <1>6, <1>7 DEF GetChart

LEMMA MainPlace ==
  ASSUME StartUpAlone
  PROVE  pc[Main] \notin {"find", "url", "resolve", "get", "fill", "load"}
  BY DEF StartUpAlone, Open

LEMMA ReceiveType ==
  ASSUME TypeOK, NextInRange, NEW p \in Requests, Receive(p)
  PROVE  TypeOK' /\ NextInRange'
  <1>1. PICK w \in Wants : want' = [want EXCEPT ![p] = w]
    BY DEF Receive
  <1>2. want' \in [Processes -> AllWants \cup {NoWant}]
    BY <1>1, ChartAssumption, MainProcess DEF TypeOK
  <1>3. pc' = [pc EXCEPT ![p] = "find"]
    BY DEF Receive, Goto
  <1>4. NextInRange'
    BY <1>3, MainProcess DEF Receive, NextInRange, TypeOK
  <1>5. TypeOK'
    BY <1>2, GotoType, MainProcess DEF Receive, TypeOK, Pcs, fileVars
  <1> QED
    BY <1>4, <1>5

LEMMA BrokerType ==
  ASSUME TypeOK, NextInRange, StartUpAlone, Start \/ Serve \/ Crash
  PROVE  TypeOK' /\ NextInRange'
  <1>1. CASE Start
    <2>1. next' \in [Processes -> 1..(Len(RepoOrder) + 1)]
      BY <1>1, RepoOrderFact, MainProcess DEF Start, TypeOK
    <2>2. PICK s \in {"repos", "done"} : pc' = [pc EXCEPT ![Main] = s]
      BY <1>1 DEF Start, Goto
    <2>3. NextInRange'
      BY <1>1, <2>2, MainProcess DEF Start, NextInRange, TypeOK
    <2>4. TypeOK'
      BY <1>1, <2>1, <2>2, MainProcess DEF Start, TypeOK, fileVars, Pcs
    <2> QED
      BY <2>3, <2>4
  <1>2. CASE Serve
    <2>1. pc' = [pc EXCEPT ![Main] = "done"]
      BY <1>2 DEF Serve, Goto
    <2>2. NextInRange'
      BY <1>2, <2>1, MainProcess DEF Serve, NextInRange, TypeOK
    <2>3. TypeOK'
      BY <1>2, <2>1, MainProcess DEF Serve, TypeOK, fileVars, Pcs
    <2> QED
      BY <2>2, <2>3
  <1>3. CASE Crash
    <2>1. pc' \in [Processes -> Pcs] /\ NextInRange'
      BY <1>3 DEF Crash, NextInRange, TypeOK, Pcs
    <2>2. crashes' \in 0..MaxCrashes
      BY <1>3, ChartAssumption DEF Crash, TypeOK
    <2>3. result' \in [Processes -> {"none", "served", "failed", "dropped"}]
      BY <1>3 DEF Crash, TypeOK
    <2> QED
      BY <1>3, <2>1, <2>2, <2>3 DEF Crash, TypeOK, fileVars
  <1> QED
    BY <1>1, <1>2, <1>3

-----------------------------------------------------------------------------
(***************************************************************************)
(* Start-up and requests never run side by side.                           *)
(***************************************************************************)
StartPcs == {"repos", "index", "stat", "create", "fillNew", "read", "update", "fillOld"}

\* A step of a process moves that process only; it ends at "done" when it fails.
LEMMA AddRepoShape ==
  ASSUME NEW p \in Processes, AddRepo(p)
  PROVE  /\ pc[p] \in StartPcs
         /\ \/ Fail(p)
            \/ broker' = broker /\ \E s \in StartPcs : pc' = [pc EXCEPT ![p] = s]
  BY DEF AddRepo, TruncateIndex, FillIndex, StatRepoFile, AddRepoFile, LoadRepoFile,
         UpdateRepoFile, TruncateRepoFile, SpoilRepoFile, Goto, StartPcs

GetPcs == {"repos", "url", "resolve", "get", "fill", "load", "done"}

LEMMA GetChartShape ==
  ASSUME NEW p \in Processes, GetChart(p)
  PROVE  /\ pc[p] \in {"find", "repos", "url", "resolve", "get", "fill", "load"}
         /\ pc[p] = "repos" => p # Main
         /\ \/ Fail(p)
            \/ broker' = broker /\ \E s \in GetPcs : pc' = [pc EXCEPT ![p] = s]
  BY DEF GetChart, FindChart, ReposDone, FindURL, ResolveChartVersion, TruncateArchive,
         FillArchive, LoadChart, Goto, GetPcs

LEMMA FailShape ==
  ASSUME NEW p \in Processes, Fail(p)
  PROVE  /\ pc' = [pc EXCEPT ![p] = "done"]
         /\ p # Main => broker' = broker
         /\ p = Main => broker' = IF ForceRemoteRepo THEN "exited" ELSE "up"
  BY DEF Fail, Goto

LEMMA StartUpAloneStep ==
  ASSUME TypeOK, StartUpAlone, Next
  PROVE  StartUpAlone'
  <1> USE MainProcess, ChartAssumption DEF StartUpAlone, Open, TypeOK
  <1>1. ASSUME NEW p \in Processes, AddRepo(p)
        PROVE  StartUpAlone'
    BY <1>1, AddRepoShape, FailShape DEF StartPcs, Processes
  <1>2. ASSUME NEW p \in Processes, GetChart(p)
        PROVE  StartUpAlone'
    <2>1. p # Main
      BY <1>2, GetChartShape
    <2> QED
      BY <1>2, <2>1, GetChartShape, FailShape DEF Processes, GetPcs
  <1>3. ASSUME NEW p \in Requests, Receive(p)
        PROVE  StartUpAlone'
    BY <1>3 DEF Receive, Goto
  <1>4. CASE Start
    BY <1>4 DEF Start, Goto
  <1>5. CASE Serve
    BY <1>5 DEF Serve, Goto
  <1>6. CASE Crash
    BY <1>6 DEF Crash
  <1>7. CASE Finished
    BY <1>7 DEF Finished, vars
  <1> QED
    BY <1>1, <1>2, <1>3, <1>4, <1>5, <1>6, <1>7 DEF Next

-----------------------------------------------------------------------------
(***************************************************************************)
(* The repositories file: what start-up has been through stays listed.     *)
(***************************************************************************)
LEMMA ListedFact ==
  ASSUME TypeOK
  PROVE  /\ next[Main] = 1 => Listed = {}
         /\ next[Main] > Len(RepoOrder) => Configured \subseteq Listed
         /\ next[Main] <= Len(RepoOrder) /\ next'[Main] = next[Main] + 1
              => Listed' \subseteq Listed \cup {Current(Main)}
         /\ next'[Main] = next[Main] => Listed' = Listed
  BY RepoOrderFact, MainProcess DEF TypeOK, Listed, Configured, Current

LEMMA NothingCreated ==
  ASSUME ListedSoFar, ForceRemoteRepo, broker = "up", NEW p \in Requests
  PROVE  pc[p] \notin {"create", "fillNew"}
  BY DEF ListedSoFar

LEMMA ListedSoFarAdd ==
  ASSUME TypeOK, NextInRange, StartUpAlone, ListedSoFar, NEW p \in Processes, AddRepo(p),
         ForceRemoteRepo, StartUpAlone'
  PROVE  ListedSoFar'
  <1> USE MainProcess, ListedFact DEF TypeOK, ListedSoFar
  <1>0. p = Main => broker = "starting"
    BY AddRepoShape DEF StartUpAlone, Open, StartPcs
  <1>a. p # Main => broker = "up" /\ p \in Requests
    BY AddRepoShape DEF StartUpAlone, Open, StartPcs, Processes
  <1>1. CASE Fail(p) /\ UNCHANGED <<next, seen>>
             /\ (repofile' = repofile \/ repofile'.state = "cut")
    <2>1. p = Main => broker' = "exited"
      BY <1>1, FailShape
    <2>2. p # Main => broker' = "up"
      BY <1>1, <1>a, FailShape
    <2>3. pc' = [pc EXCEPT ![p] = "done"]
      BY <1>1, FailShape
    <2> QED
      BY <1>1, <2>1, <2>2, <2>3, <1>a
  <1>2. CASE TruncateIndex(p)
    <2>1. CASE Fail(p) /\ UNCHANGED index
      BY <1>1, <1>2, <2>1 DEF TruncateIndex
    <2>2. CASE Goto(p, "index") /\ UNCHANGED <<result, broker>>
      <3>1. pc' = [pc EXCEPT ![p] = "index"]
        BY <2>2 DEF Goto
      <3> QED
        BY <1>0, <1>a, <1>2, <2>2, <3>1 DEF TruncateIndex
    <2> QED
      BY <1>2, <2>1, <2>2 DEF TruncateIndex
  <1>3. CASE FillIndex(p)
    <2>1. CASE Goto(p, "stat") /\ UNCHANGED <<result, broker>>
      BY <1>0, <1>a, <1>3, <2>1 DEF FillIndex, Goto
    <2>2. CASE Fail(p)
      BY <1>1, <1>3, <2>2 DEF FillIndex
    <2> QED
      BY <1>3, <2>1, <2>2 DEF FillIndex
  <1>s. ASSUME NEW from, NEW to, SpoilRepoFile(p, from, to), UNCHANGED <<next, seen>>
        PROVE  ListedSoFar'
    BY <1>1, <1>s, SpoilFact
  <1>4. CASE StatRepoFile(p)
    <2>1. /\ UNCHANGED <<repofile, next, seen, broker>>
          /\ pc' = [pc EXCEPT ![p] = IF repofile.state = "absent" THEN "create" ELSE "read"]
      BY <1>4 DEF StatRepoFile, Goto, fileVars
    <2>2. CASE repofile.state = "absent"
      BY <1>0, <1>a, <2>1, <2>2
    <2>3. CASE repofile.state # "absent"
      <3>1. pc' = [pc EXCEPT ![p] = "read"]
        BY <2>1, <2>3
      <3> QED
        BY <1>0, <1>a, <2>1, <3>1
    <2> QED
      BY <2>2, <2>3
  <1>5. CASE AddRepoFile(p)
    <2>0. pc[p] \in {"create", "fillNew"}
      BY <1>5, SpoilFact DEF AddRepoFile, TruncateRepoFile
    <2>s. CASE SpoilRepoFile(p, "create", "fillNew")
      BY <1>5, <1>s, <2>s DEF AddRepoFile
    <2> SUFFICES ASSUME ~SpoilRepoFile(p, "create", "fillNew") PROVE ListedSoFar'
      BY <2>s
    <2>a. p = Main
      BY <1>a, <2>0, NothingCreated
    <2>b. broker = "starting" /\ pc[Main] \in {"create", "fillNew"}
      BY <1>0, <2>0, <2>a
    <2>1. p = Main /\ next[Main] = 1
      BY <2>a, <2>b
    <2>2. Listed = {} /\ Listed' = {}
      BY <1>5, <2>1 DEF AddRepoFile
    <2>3. repofile'.state # "absent" /\ pc'[Main] \notin {"update", "fillOld"}
      BY <1>5, <2>1 DEF AddRepoFile, TruncateRepoFile, FillRepoFile, Goto
    <2>4. broker' = "starting"
      BY <1>0, <1>5, <2>1 DEF AddRepoFile
    <2>5. next'[Main] = 1
      BY <1>5, <2>1 DEF AddRepoFile
    <2> QED
      BY <2>2, <2>3, <2>4, <2>5
  <1>6. CASE LoadRepoFile(p)
    <2>1. CASE Fail(p) /\ UNCHANGED seen
      BY <1>1, <1>6, <2>1 DEF LoadRepoFile, fileVars
    <2>2. CASE /\ repofile.state = "whole"
               /\ seen' = [seen EXCEPT ![p] = repofile.repos]
               /\ Goto(p, "update") /\ UNCHANGED <<result, broker>>
      BY <1>0, <1>a, <1>6, <2>2 DEF LoadRepoFile, Goto, fileVars
    <2> QED
      BY <1>6, <2>1, <2>2 DEF LoadRepoFile
  <1>7. CASE UpdateRepoFile(p)
    <2>1. CASE TruncateRepoFile(p, "update", "fillOld") /\ UNCHANGED <<next, result, broker>>
      <3>1. pc' = [pc EXCEPT ![p] = "fillOld"] /\ pc[p] = "update"
            /\ repofile' = [state |-> "torn", repos |-> {}]
        BY <2>1 DEF TruncateRepoFile, Goto
      <3> QED
        BY <1>0, <1>a, <1>7, <2>1, <3>1 DEF UpdateRepoFile
    <2>2. CASE /\ pc[p] = "fillOld" /\ FillRepoFile(seen[p] \cup {Current(p)})
               /\ next' = [next EXCEPT ![p] = @ + 1] /\ Goto(p, "repos")
               /\ UNCHANGED <<result, broker>>
      <3>1. pc' = [pc EXCEPT ![p] = "repos"] /\ broker' = broker /\ seen' = seen
        BY <1>7, <2>2 DEF UpdateRepoFile, Goto
      <3>2. /\ repofile'.state # "absent"
            /\ repofile'.state = "whole" => seen[p] \cup {Current(p)} \subseteq repofile'.repos
        BY <2>2 DEF FillRepoFile
      <3>3. CASE p = Main
        <4>1. next[Main] <= Len(RepoOrder) /\ next'[Main] = next[Main] + 1
          BY <2>2, <3>3 DEF NextInRange
        <4>2. Listed' \subseteq Listed \cup {Current(Main)}
          BY <4>1
        <4>3. Listed \subseteq seen[Main]
          BY <1>0, <2>2, <3>3
        <4> QED
          BY <1>0, <3>1, <3>2, <3>3, <4>2, <4>3
      <3>4. CASE p # Main
        <4>1. Configured \subseteq seen[p]
          BY <1>a, <2>2, <3>4
        <4> QED
          BY <1>a, <3>1, <3>2, <3>4, <4>1
      <3> QED
        BY <3>3, <3>4
    <2> QED
      BY <1>7, <1>s, <2>1, <2>2 DEF UpdateRepoFile
  <1> QED
    BY <1>2, <1>3, <1>4, <1>5, <1>6, <1>7 DEF AddRepo

LEMMA ListedSoFarStep ==
  ASSUME TypeOK, NextInRange, StartUpAlone, ListedSoFar, Next
  PROVE  ListedSoFar'
  <1> SUFFICES ASSUME ForceRemoteRepo
               PROVE  ListedSoFar'
    BY DEF ListedSoFar
  <1> USE MainProcess, ListedFact, StartUpAloneStep
  <1>1. ASSUME NEW p \in Processes, AddRepo(p)
        PROVE  ListedSoFar'
    BY <1>1, ListedSoFarAdd
  <1>2. ASSUME NEW p \in Processes, GetChart(p)
        PROVE  ListedSoFar'
    <2>1. p # Main /\ broker = "up" /\ broker' = "up"
      BY <1>2, GetChartShape, FailShape, MainPlace DEF StartUpAlone, Open, Processes
    <2>2. UNCHANGED <<repofile, next, seen>>
      BY <1>2 DEF GetChart, FindChart, ReposDone, FindURL, ResolveChartVersion,
                  TruncateArchive, FillArchive, LoadChart, fileVars
    <2>3. \E s \in GetPcs : pc' = [pc EXCEPT ![p] = s]
      BY <1>2, GetChartShape, FailShape DEF GetPcs
    <2> QED
      BY <2>1, <2>2, <2>3 DEF ListedSoFar, TypeOK, GetPcs
  <1>3. ASSUME NEW p \in Requests, Receive(p)
        PROVE  ListedSoFar'
    BY <1>3 DEF Receive, Goto, ListedSoFar, TypeOK, fileVars
  <1>4. CASE Start
    <2>1. next'[Main] = 1 /\ pc'[Main] \in {"repos", "done"} /\ broker' # "up"
      BY <1>4 DEF Start, Goto, TypeOK
    <2>2. Listed' = {}
      BY <2>1 DEF Listed
    <2> QED
      BY <2>1, <2>2 DEF ListedSoFar
  <1>5. CASE Serve
    <2>1. /\ broker = "starting" /\ next[Main] > Len(RepoOrder)
          /\ UNCHANGED <<repofile, next, seen>> /\ broker' # "starting"
          /\ pc' = [pc EXCEPT ![Main] = "done"]
      BY <1>5 DEF Serve, StartUpAlone, Open, Goto, fileVars
    <2>2. ~ \E q \in Requests : pc[q] \in {"create", "fillNew", "update", "fillOld"}
      BY <2>1 DEF StartUpAlone, Open
    <2>3. RepoOrder # <<>>
      BY <2>1 DEF StartUpAlone
    <2>4. Len(RepoOrder) # 0
      BY <2>3, ChartAssumption
    <2>5. next[Main] # 1
      BY <2>1, <2>4, RepoOrderFact DEF TypeOK
    <2>6. Configured \subseteq Listed
      BY <2>1
    <2> QED
      BY <2>1, <2>2, <2>5, <2>6 DEF ListedSoFar, TypeOK
  <1>6. CASE Crash
    BY <1>6 DEF Crash, ListedSoFar
  <1>7. CASE Finished
    BY <1>7 DEF Finished, vars, ListedSoFar, Listed
  <1> QED
    BY <1>1, <1>2, <1>3, <1>4, <1>5, <1>6, <1>7 DEF Next

-----------------------------------------------------------------------------
(***************************************************************************)
(* The archives, and what a request loads.                                 *)
(***************************************************************************)
LEMMA ArchivesOfferedStep ==
  ASSUME TypeOK, StartUpAlone, ArchivesOffered, PlacesAsked, Next
  PROVE  ArchivesOffered'
  <1>1. CASE UNCHANGED archive
    BY <1>1 DEF ArchivesOffered
  <1>2. ASSUME NEW p \in Processes, TruncateArchive(p)
        PROVE  ArchivesOffered'
    <2>1. CASE archive' = [archive EXCEPT ![place[p]] = [state |-> "torn", repo |-> None]]
      BY <2>1 DEF ArchivesOffered, TypeOK
    <2> QED
      BY <1>1, <1>2, <2>1 DEF TruncateArchive
  <1>3. ASSUME NEW p \in Processes, FillArchive(p)
        PROVE  ArchivesOffered'
    <2>1. p \in Requests
      BY <1>3, MainPlace DEF FillArchive, Processes
    <2>2. want[p].repo \in Repos /\ place[p] \in Files /\ place[p] \in Offers[want[p].repo]
      BY <1>3, <2>1, FoundFact, RepoOrderFact DEF FillArchive, PlacesAsked, PlaceAsked
    <2>3. ASSUME NEW s \in {"whole", "cut"},
                 archive' = [archive EXCEPT ![place[p]] = [state |-> s, repo |-> want[p].repo]]
          PROVE  ArchivesOffered'
      BY <2>2, <2>3 DEF ArchivesOffered, TypeOK
    <2>4. CASE archive' = [archive EXCEPT ![place[p]] = [state |-> "torn", repo |-> None]]
      BY <2>4 DEF ArchivesOffered, TypeOK
    <2> QED
      BY <1>1, <1>3, <2>3, <2>4 DEF FillArchive, LeftBy
  <1> QED
    BY <1>1, <1>2, <1>3
       DEF Next, AddRepo, GetChart, TruncateIndex, FillIndex, StatRepoFile, AddRepoFile,
           LoadRepoFile, UpdateRepoFile, FindChart, ReposDone, FindURL, ResolveChartVersion,
           LoadChart, Receive, Start, Serve, Crash, Finished, fileVars, vars

\* An archive that exists stays.
LEMMA ArchiveStays ==
  ASSUME TypeOK, Next, NEW f \in Files, archive[f].state # "absent"
  PROVE  archive'[f].state # "absent"
  <1>1. CASE UNCHANGED archive
    BY <1>1
  <1>2. ASSUME NEW p \in Processes, TruncateArchive(p)
        PROVE  archive'[f].state # "absent"
    <2>1. \/ archive' = archive
          \/ archive' = [archive EXCEPT ![place[p]] = [state |-> "torn", repo |-> None]]
      BY <1>2 DEF TruncateArchive
    <2>2. f \in DOMAIN archive
      BY DEF TypeOK
    <2> QED
      BY <2>1, <2>2
  <1>3. ASSUME NEW p \in Processes, FillArchive(p)
        PROVE  archive'[f].state # "absent"
    <2>1. \/ archive' = archive
          \/ \E s \in {"whole", "cut"} :
               archive' = [archive EXCEPT ![place[p]] = [state |-> s, repo |-> want[p].repo]]
          \/ archive' = [archive EXCEPT ![place[p]] = [state |-> "torn", repo |-> None]]
      BY <1>3 DEF FillArchive, LeftBy
    <2>2. f \in DOMAIN archive
      BY DEF TypeOK
    <2> QED
      BY <2>1, <2>2
  <1> QED
    BY <1>1, <1>2, <1>3
       DEF Next, AddRepo, GetChart, TruncateIndex, FillIndex, StatRepoFile, AddRepoFile,
           LoadRepoFile, UpdateRepoFile, FindChart, ReposDone, FindURL, ResolveChartVersion,
           LoadChart, Receive, Start, Serve, Crash, Finished, fileVars, vars

LEMMA ExistsStays ==
  ASSUME TypeOK, Next, NEW f, Exists(f)
  PROVE  Exists(f)'
  BY ArchiveStays DEF Exists

\* A step that leaves a request's place and wants alone, and either its pc or
\* takes it to a place without a file.
LEMMA PlaceKept ==
  ASSUME TypeOK, Next, NEW p \in Requests, PlaceAsked(p),
         want'[p] = want[p], place'[p] = place[p],
         \/ pc'[p] = pc[p] /\ result'[p] = result[p]
         \/ pc'[p] = "done"
         \/ Open(p) /\ pc'[p] \in StartPcs \cup {"url"}
  PROVE  PlaceAsked(p)'
  <1>1. CASE pc'[p] = pc[p] /\ result'[p] = result[p]
    BY <1>1, ExistsStays DEF PlaceAsked, Open
  <1>2. CASE pc'[p] = "done"
    BY <1>2 DEF PlaceAsked, Open
  <1>3. CASE Open(p) /\ pc'[p] \in StartPcs \cup {"url"}
    BY <1>3 DEF PlaceAsked, Open, StartPcs
  <1> QED
    BY <1>1, <1>2, <1>3

LEMMA PlacesAskedAdd ==
  ASSUME TypeOK, PlacesAsked, Next, NEW q \in Processes, AddRepo(q)
  PROVE  PlacesAsked'
  <1>1. UNCHANGED <<want, place>>
    BY DEF AddRepo, TruncateIndex, FillIndex, StatRepoFile, AddRepoFile, LoadRepoFile,
           UpdateRepoFile, fileVars
  <1>2. \/ Fail(q)
        \/ result' = result /\ \E s \in StartPcs : pc' = [pc EXCEPT ![q] = s]
    BY DEF AddRepo, TruncateIndex, FillIndex, StatRepoFile, AddRepoFile, LoadRepoFile,
           UpdateRepoFile, TruncateRepoFile, SpoilRepoFile, Goto, StartPcs
  <1>3. ASSUME NEW p \in Requests
        PROVE  PlaceAsked(p)'
    <2>1. CASE p # q
      BY <1>1, <1>2, <2>1, PlaceKept, MainProcess DEF PlacesAsked, Fail, Goto, TypeOK
    <2>2. CASE p = q
      <3>1. Open(p)
        BY <2>2, AddRepoShape DEF Open, StartPcs
      <3>2. pc'[p] = "done" \/ pc'[p] \in StartPcs
        BY <1>2, <2>2 DEF Fail, Goto, TypeOK
      <3> QED
        BY <1>1, <3>1, <3>2, PlaceKept DEF PlacesAsked
    <2> QED
      BY <2>1, <2>2
  <1> QED
    BY <1>3 DEF PlacesAsked

LEMMA PlacesAskedGet ==
  ASSUME TypeOK, PlacesAsked, Next, NEW q \in Requests, GetChart(q)
  PROVE  PlacesAsked'
  <1> USE MainProcess
  <1>0. want' = want
    BY DEF GetChart, FindChart, ReposDone, FindURL, ResolveChartVersion, TruncateArchive,
           FillArchive, LoadChart
  <1>1. /\ place' = place \/ \E f : place' = [place EXCEPT ![q] = f]
        /\ \E s : pc' = [pc EXCEPT ![q] = s]
        /\ result' = result \/ \E r : result' = [result EXCEPT ![q] = r]
    BY DEF GetChart, FindChart, ReposDone, FindURL, ResolveChartVersion, TruncateArchive,
           FillArchive, LoadChart, Fail, Goto
  <1>2. ASSUME NEW p \in Requests, p # q
        PROVE  PlaceAsked(p)'
    BY <1>0, <1>1, <1>2, PlaceKept DEF PlacesAsked, TypeOK
  <1>3. Open(q) /\ PlaceAsked(q) /\ want[q] \in Wants
    BY GetChartShape DEF Open, PlacesAsked, PlaceAsked
  <1>4. PlaceAsked(q)'
    <2>1. CASE pc'[q] = "done"
      BY <2>1 DEF PlaceAsked, Open
    <2>2. CASE FindChart(q) /\ pc'[q] # "done"
      BY <1>0, <1>3, <2>2, ExistsStays DEF FindChart, PlaceAsked, Goto, TypeOK, Open
    <2>3. CASE ReposDone(q)
      BY <1>0, <1>3, <2>3 DEF ReposDone, PlaceAsked, Goto, TypeOK, Open
    <2>4. CASE FindURL(q) /\ pc'[q] # "done"
      BY <1>0, <1>3, <2>4 DEF FindURL, PlaceAsked, Goto, TypeOK, Open, Fail, Found
    <2>5. CASE ResolveChartVersion(q) /\ pc'[q] # "done"
      BY <1>0, <1>3, <2>5 DEF ResolveChartVersion, PlaceAsked, Goto, TypeOK, Open, Fail, Found
    <2>6. CASE TruncateArchive(q) /\ pc'[q] # "done"
      BY <1>0, <1>3, <2>6 DEF TruncateArchive, PlaceAsked, Goto, TypeOK, Open, Fail, Found
    <2>7. CASE FillArchive(q) /\ pc'[q] # "done"
      BY <1>0, <1>3, <2>7 DEF FillArchive, PlaceAsked, Goto, TypeOK, Open, Fail, Found
    <2>8. CASE LoadChart(q)
      BY <2>1, <2>8 DEF LoadChart, Goto, Fail, TypeOK
    <2> QED
      BY <2>1, <2>2, <2>3, <2>4, <2>5, <2>6, <2>7, <2>8 DEF GetChart
  <1> QED
    BY <1>2, <1>4 DEF PlacesAsked

LEMMA PlacesAskedStep ==
  ASSUME TypeOK, StartUpAlone, PlacesAsked, Next
  PROVE  PlacesAsked'
  <1> USE MainProcess
  <1>1. ASSUME NEW p \in Processes, AddRepo(p)
        PROVE  PlacesAsked'
    BY <1>1, PlacesAskedAdd
  <1>2. ASSUME NEW p \in Processes, GetChart(p)
        PROVE  PlacesAsked'
    BY <1>2, PlacesAskedGet, GetChartShape, MainPlace DEF Processes
  <1>3. ASSUME NEW q \in Requests, Receive(q)
        PROVE  PlacesAsked'
    <2>1. /\ pc' = [pc EXCEPT ![q] = "find"] /\ UNCHANGED <<place, result>>
          /\ \E w \in Wants : want' = [want EXCEPT ![q] = w]
      BY <1>3 DEF Receive, Goto
    <2>2. ASSUME NEW p \in Requests, p # q
          PROVE  PlaceAsked(p)'
      BY <2>1, <2>2, PlaceKept DEF PlacesAsked, TypeOK
    <2>3. PlaceAsked(q)'
      BY <2>1 DEF PlaceAsked, TypeOK
    <2> QED
      BY <2>2, <2>3 DEF PlacesAsked
  <1>4. CASE Start \/ Serve
    <2>1. /\ \E s : pc' = [pc EXCEPT ![Main] = s]
          /\ UNCHANGED <<want, place>>
          /\ result' = result \/ result' = [result EXCEPT ![Main] = "none"]
      BY <1>4 DEF Start, Serve, Goto
    <2>2. ASSUME NEW p \in Requests
          PROVE  PlaceAsked(p)'
      BY <2>1, PlaceKept, ChartAssumption DEF PlacesAsked, TypeOK
    <2> QED
      BY <2>2 DEF PlacesAsked
  <1>5. CASE Crash
    <2>1. ASSUME NEW p \in Requests
          PROVE  PlaceAsked(p)'
      BY <1>5, PlaceKept DEF Crash, PlacesAsked, TypeOK
    <2> QED
      BY <2>1 DEF PlacesAsked
  <1>6. CASE Finished
    <2>1. ASSUME NEW p \in Requests
          PROVE  PlaceAsked(p)'
      BY <1>6, PlaceKept DEF Finished, vars, PlacesAsked
    <2> QED
      BY <2>1 DEF PlacesAsked
  <1> QED
    BY <1>1, <1>2, <1>3, <1>4, <1>5, <1>6 DEF Next

-----------------------------------------------------------------------------
(***************************************************************************)
(* The theorems.                                                           *)
(***************************************************************************)
\* What holds of every instance, own chart names or not.
Base == TypeOK /\ NextInRange /\ StartUpAlone /\ ListedSoFar /\ ArchivesOffered /\ PlacesAsked

LEMMA BaseInit ==
  ASSUME Init
  PROVE  Base
  <1>1. TypeOK
    BY RepoOrderFact, ChartAssumption
       DEF Init, TypeOK, States, Pcs, Places, NoChart
  <1>2. NextInRange /\ StartUpAlone
    BY MainProcess DEF Init, NextInRange, StartUpAlone, Open
  <1>3. ListedSoFar /\ ArchivesOffered
    BY DEF Init, ListedSoFar, ArchivesOffered
  <1>4. PlacesAsked
    BY MainProcess DEF Init, PlacesAsked, PlaceAsked, Open
  <1> QED
    BY <1>1, <1>2, <1>3, <1>4 DEF Base

LEMMA BaseStep ==
  ASSUME Base, [Next]_vars
  PROVE  Base'
  <1> USE DEF Base
  <1>1. CASE Next
    <2>1. TypeOK' /\ NextInRange'
      <3>1. ASSUME NEW p \in Processes, AddRepo(p) \/ GetChart(p)
            PROVE  TypeOK' /\ NextInRange'
        BY <3>1, AddRepoType, GetChartType, MainPlace
      <3>2. ASSUME NEW p \in Requests, Receive(p)
            PROVE  TypeOK' /\ NextInRange'
        BY <3>2, ReceiveType
      <3>3. CASE Finished
        BY <3>3 DEF Finished, vars, TypeOK, NextInRange
      <3> QED
        BY <1>1, <3>1, <3>2, <3>3, BrokerType DEF Next
    <2>2. StartUpAlone' /\ ListedSoFar'
      BY <1>1, StartUpAloneStep, ListedSoFarStep
    <2>3. ArchivesOffered' /\ PlacesAsked'
      BY <1>1, ArchivesOfferedStep, PlacesAskedStep
    <2> QED
      BY <2>1, <2>2, <2>3
  <1>2. CASE UNCHANGED vars
    <2>1. TypeOK' /\ NextInRange'
      BY <1>2 DEF vars, TypeOK, NextInRange
    <2>2. StartUpAlone' /\ ListedSoFar'
      BY <1>2 DEF vars, StartUpAlone, Open, ListedSoFar, Listed
    <2>3. ArchivesOffered' /\ PlacesAsked'
      BY <1>2 DEF vars, ArchivesOffered, PlacesAsked, PlaceAsked, Open, Exists
    <2> QED
      BY <2>1, <2>2, <2>3
  <1> QED
    BY <1>1, <1>2

\* Every variable of the Helm home and the broker has the values its files and
\* its state can have.
THEOREM ChartTypes == Spec => []TypeOK
  <1>1. Base => TypeOK
    BY DEF Base
  <1> QED
    BY <1>1, BaseInit, BaseStep, PTL DEF Spec

\* A broker that serves and must have every configured repository
\* (force_remote_repo) keeps every one of them in its repositories file,
\* whatever requests rewrite the file side by side (repo.go updateRepoFile).
THEOREM ForcedListed == Spec => []ForcedReposListed
  <1>1. Base => ForcedReposListed
    BY DEF Base, ListedSoFar, ForcedReposListed
  <1> QED
    BY <1>1, BaseInit, BaseStep, PTL DEF Spec

LEMMA ServedInit ==
  ASSUME Init
  PROVE  ServedAsAsked
  BY MainProcess DEF Init, ServedAsAsked

\* What LoadChart serves.
LEMMA ServedLoad ==
  ASSUME OwnCharts, Base, NEW p \in Requests, LoadChart(p), result'[p] = "served"
  PROVE  AsAsked(served'[p], want[p])
  <1> DEFINE f == place[p]
             w == want[p]
  <1> USE MainProcess DEF Base
  <1>1. ~ Fail(p)
    BY DEF Fail, TypeOK
  <1>2. /\ served'[p] = IF f \in Files THEN [repo |-> archive[f].repo, file |-> f]
                        ELSE [repo |-> None, file |-> Mentions[f]]
        /\ f \in Files => archive[f].state = "whole"
        /\ pc[p] = "load"
    BY <1>1 DEF LoadChart, TypeOK
  <1>3. w \in Wants /\ w \in AllWants
    BY <1>2, ChartAssumption DEF PlacesAsked, PlaceAsked, Open
  <1>4. \/ w.repo \in Configured /\ f \in Found(w)
        \/ f = LocalFile(w) /\ Exists(f)
    BY <1>2 DEF PlacesAsked, PlaceAsked
  <1>5. CASE f \in Files
    <2>1. /\ served'[p].file = f /\ served'[p].repo = archive[f].repo
          /\ archive[f].repo \in Repos /\ f \in Offers[archive[f].repo]
      BY <1>2, <1>5 DEF ArchivesOffered
    <2>2. /\ f.name = w.name
          /\ w.ver # None => f.ver = w.ver
          /\ w.ver = None => f \in Found(w)
      <3>1. CASE f \in Found(w)
        BY <3>1 DEF Found
      <3>2. CASE f = LocalFile(w)
        <4>1. f = [name |-> w.name, ver |-> w.ver]
          BY <1>3, <1>5, <3>2, ChartAssumption DEF LocalFile, AllWants, ArchiveNames, Files
        <4>2. w.ver # None
          BY <1>5, <4>1, ChartAssumption DEF Files
        <4> QED
          BY <4>1, <4>2
      <3> QED
        BY <1>4, <3>1, <3>2
    <2>3. w.repo # None => archive[f].repo = w.repo
      BY <1>3, <2>1, <2>2 DEF OwnCharts
    <2> QED
      BY <2>1, <2>2, <2>3 DEF AsAsked
  <1>6. CASE f \notin Files
    <2>1. /\ served'[p].file = [name |-> w.name, ver |-> w.ver]
          /\ w.path # None /\ served'[p].file \in Files
      BY <1>2, <1>6, OfflineFact
    <2>2. w.ver # None
      BY <2>1, ChartAssumption DEF Files
    <2> QED
      BY <2>1, <2>2 DEF AsAsked
  <1> QED
    BY <1>5, <1>6

\* No other step serves a chart, or changes what was wanted of one.
LEMMA ServedKept ==
  ASSUME Base, Next, NEW p \in Requests, result'[p] = "served", ~ LoadChart(p)
  PROVE  result[p] = "served" /\ served'[p] = served[p] /\ want'[p] = want[p]
  <1> USE MainProcess, ChartAssumption DEF Base, TypeOK
  <1>1. ASSUME NEW q \in Processes, AddRepo(q)
        PROVE  result' = result \/ Fail(q)
    BY <1>1 DEF AddRepo, TruncateIndex, FillIndex, StatRepoFile, AddRepoFile, LoadRepoFile,
               UpdateRepoFile, SpoilRepoFile, fileVars
  <1>2. ASSUME NEW q \in Processes, AddRepo(q)
        PROVE  served' = served /\ want' = want
    BY <1>2 DEF AddRepo, TruncateIndex, FillIndex, StatRepoFile, AddRepoFile, LoadRepoFile,
               UpdateRepoFile, fileVars
  <1>3. ASSUME NEW q \in Processes, GetChart(q), ~ LoadChart(q)
        PROVE  (result' = result \/ Fail(q)) /\ served' = served /\ want' = want
    BY <1>3 DEF GetChart, FindChart, ReposDone, FindURL, ResolveChartVersion,
               TruncateArchive, FillArchive, fileVars
  <1>4. ASSUME NEW q \in Processes, Fail(q)
        PROVE  result' = [result EXCEPT ![q] = "failed"]
    BY <1>4 DEF Fail
  <1>5. ASSUME NEW q \in Processes, LoadChart(q)
        PROVE  /\ q # p
               /\ want' = want /\ served'[p] = served[p] /\ result'[p] = result[p]
    <2>1. q # p
      BY <1>5
    <2>2. want' = want /\ served'[p] = served[p] /\ result'[p] = result[p]
      BY <1>5, <2>1 DEF LoadChart, Fail
    <2> QED
      BY <2>1, <2>2
  <1>6. ASSUME NEW q \in Processes, AddRepo(q) \/ GetChart(q)
        PROVE  result[p] = "served" /\ served'[p] = served[p] /\ want'[p] = want[p]
    <2>1. CASE LoadChart(q)
      BY <1>5, <2>1
    <2>2. CASE ~ LoadChart(q)
      BY <1>1, <1>2, <1>3, <1>4, <1>6, <2>2
    <2> QED
      BY <2>1, <2>2
  <1>7. ASSUME NEW q \in Requests, Receive(q)
        PROVE  result[p] = "served" /\ served'[p] = served[p] /\ want'[p] = want[p]
    <2>1. result' = result /\ served' = served /\ \E w : want' = [want EXCEPT ![q] = w]
      BY <1>7 DEF Receive
    <2>2. p # q
      BY <1>7, <2>1 DEF Receive, PlacesAsked, PlaceAsked
    <2> QED
      BY <2>1, <2>2
  <1>8. CASE Start \/ Serve \/ Crash \/ Finished
    BY <1>8 DEF Start, Serve, Crash, Finished, vars
  <1> QED
    BY <1>6, <1>7, <1>8 DEF Next

LEMMA ServedStep ==
  ASSUME OwnCharts, Base, ServedAsAsked, [Next]_vars
  PROVE  ServedAsAsked'
  <1>1. ASSUME NEW p \in Requests, result'[p] = "served"
        PROVE  AsAsked(served'[p], want'[p])
    <2>1. CASE LoadChart(p)
      <3>1. AsAsked(served'[p], want[p]) /\ want' = want
        BY <1>1, <2>1, ServedLoad DEF LoadChart
      <3> QED
        BY <3>1
    <2>2. CASE Next /\ ~ LoadChart(p)
      <3>1. result[p] = "served" /\ served'[p] = served[p] /\ want'[p] = want[p]
        BY <1>1, <2>2, ServedKept
      <3> QED
        BY <3>1 DEF ServedAsAsked
    <2>3. CASE UNCHANGED vars
      BY <1>1, <2>3 DEF ServedAsAsked, vars
    <2> QED
      BY <2>1, <2>2, <2>3
  <1>2. ASSUME NEW p \in Requests, result'[p] = "served"
        PROVE  AsAsked(served[p], want[p])'
    BY <1>1, <1>2 DEF AsAsked, Found
  <1> QED
    BY <1>2 DEF ServedAsAsked

\* A request is served the chart its service names, as long as no repository
\* offers a chart under a name that is another one's (chart.go getChart).
THEOREM ServedCharts ==
  ASSUME OwnCharts
  PROVE  Spec => []ServedAsAsked
  <1>1. Init => Base /\ ServedAsAsked
    BY BaseInit, ServedInit
  <1>2. Base /\ ServedAsAsked /\ [Next]_vars => (Base /\ ServedAsAsked)'
    BY BaseStep, ServedStep
  <1> QED
    BY <1>1, <1>2, PTL DEF Spec

-----------------------------------------------------------------------------
(***************************************************************************)
(* Without crashes a torn file is being written.                           *)
(***************************************************************************)
LEMMA CurrentConfigured ==
  ASSUME TypeOK, NextInRange, NEW p \in Processes,
         pc[p] \in {"index", "stat", "create", "fillNew", "read", "update", "fillOld"}
  PROVE  Current(p) \in Configured
  BY RepoOrderFact DEF TypeOK, NextInRange, Current, Configured

LEMMA RepoFileOwnAdd ==
  ASSUME Base, RepoFileOwn, NEW p \in Processes, AddRepo(p)
  PROVE  RepoFileOwn'
  <1> USE MainProcess DEF Base, TypeOK, RepoFileOwn
  <1>0. /\ p = Main => broker = "starting"
        /\ p # Main => broker = "up" /\ pc[Main] \notin {"fillNew", "fillOld"}
    BY AddRepoShape DEF StartUpAlone, Open, StartPcs, Processes
  <1>1. CASE UNCHANGED <<repofile, seen>>
             /\ \E s \in {"index", "stat", "create", "read", "done"} : pc' = [pc EXCEPT ![p] = s]
    BY <1>1
  <1>2. CASE TruncateIndex(p) \/ FillIndex(p) \/ StatRepoFile(p)
    <2>1. UNCHANGED <<repofile, seen>>
      BY <1>2 DEF TruncateIndex, FillIndex, StatRepoFile, fileVars
    <2>2. \E s \in {"index", "stat", "create", "read", "done"} : pc' = [pc EXCEPT ![p] = s]
      BY <1>2, FailShape DEF TruncateIndex, FillIndex, StatRepoFile, Goto
    <2> QED
      BY <1>1, <2>1, <2>2
  <1>3. CASE LoadRepoFile(p)
    <2>1. CASE Fail(p) /\ UNCHANGED seen
      BY <1>1, <1>3, <2>1, FailShape DEF LoadRepoFile, fileVars
    <2>2. CASE /\ seen' = [seen EXCEPT ![p] = repofile.repos] /\ Goto(p, "update")
      <3>1. pc' = [pc EXCEPT ![p] = "update"] /\ repofile' = repofile
        BY <1>3, <2>2 DEF LoadRepoFile, Goto, fileVars
      <3> QED
        BY <2>2, <3>1
    <2> QED
      BY <1>3, <2>1, <2>2 DEF LoadRepoFile
  <1>4. CASE \/ TruncateRepoFile(p, "create", "fillNew")
             \/ TruncateRepoFile(p, "update", "fillOld")
    <2>1. /\ repofile' = [state |-> "torn", repos |-> {}] /\ seen' = seen
          /\ pc[p] \in {"create", "update"}
          /\ \/ pc' = [pc EXCEPT ![p] = "fillNew"]
             \/ pc[p] = "update" /\ pc' = [pc EXCEPT ![p] = "fillOld"]
      BY <1>4 DEF AddRepo, TruncateRepoFile, Goto, TruncateIndex, FillIndex, StatRepoFile,
                  AddRepoFile, LoadRepoFile, UpdateRepoFile
    <2> QED
      BY <2>1
  <1>5. ASSUME NEW repos, FillRepoFile(repos), repos \subseteq Configured, seen' = seen,
               NEW s \in {"read", "repos"}, pc' = [pc EXCEPT ![p] = s]
        PROVE  RepoFileOwn'
    <2>1. /\ repofile'.repos \subseteq Configured
          /\ repofile'.state # "whole" => repofile'.repos = {}
      BY <1>5 DEF FillRepoFile
    <2>2. pc'[Main] \notin {"fillNew", "fillOld"}
      BY <1>0, <1>5
    <2> QED
      BY <1>5, <2>1, <2>2
  <1>6. CASE AddRepoFile(p) \/ UpdateRepoFile(p)
    <2>1. CASE pc[p] = "fillNew" /\ FillRepoFile({Current(p)}) /\ Goto(p, "read")
      <3>1. {Current(p)} \subseteq Configured
        BY <2>1, CurrentConfigured
      <3>2. pc' = [pc EXCEPT ![p] = "read"] /\ seen' = seen
        BY <1>6, <2>1 DEF Goto, AddRepoFile, UpdateRepoFile
      <3> QED
        BY <1>5, <2>1, <3>1, <3>2
    <2>2. CASE pc[p] = "fillOld" /\ FillRepoFile(seen[p] \cup {Current(p)}) /\ Goto(p, "repos")
      <3>1. seen[p] \cup {Current(p)} \subseteq Configured
        BY <2>2, CurrentConfigured
      <3>2. pc' = [pc EXCEPT ![p] = "repos"] /\ seen' = seen
        BY <1>6, <2>2 DEF Goto, AddRepoFile, UpdateRepoFile
      <3> QED
        BY <1>5, <2>2, <3>1, <3>2
    <2>3. ASSUME NEW from, NEW to, SpoilRepoFile(p, from, to)
          PROVE  RepoFileOwn'
      <3>1. pc' = [pc EXCEPT ![p] = "done"] /\ seen' = seen
        BY <1>6, <2>3, SpoilFact, FailShape DEF AddRepoFile, UpdateRepoFile
      <3>2. repofile' = repofile \/ repofile' = [state |-> "cut", repos |-> {}]
        BY <2>3, SpoilFact
      <3>3. pc'[Main] \notin {"fillNew", "fillOld"}
        BY <1>0, <3>1
      <3> QED
        BY <3>1, <3>2, <3>3
    <2> QED
      BY <1>4, <1>6, <2>1, <2>2, <2>3 DEF AddRepoFile, UpdateRepoFile
  <1> QED
    BY <1>2, <1>3, <1>6 DEF AddRepo

LEMMA RepoFileOwnInit == Init => RepoFileOwn
  BY MainProcess DEF Init, RepoFileOwn

LEMMA RepoFileOwnStep ==
  ASSUME Base, RepoFileOwn, [Next]_vars
  PROVE  RepoFileOwn'
  <1>1. CASE /\ UNCHANGED <<repofile, seen>>
             /\ \A p \in Processes :
                  pc'[p] \in {"update", "fillNew", "fillOld"} => pc'[p] = pc[p]
    BY <1>1, MainProcess DEF RepoFileOwn
  <1>2. ASSUME NEW p \in Processes, GetChart(p)
        PROVE  RepoFileOwn'
    <2>1. UNCHANGED <<repofile, seen>>
      BY <1>2 DEF GetChart, FindChart, ReposDone, FindURL, ResolveChartVersion,
                  TruncateArchive, FillArchive, LoadChart, fileVars
    <2>2. \E s \in GetPcs : pc' = [pc EXCEPT ![p] = s]
      BY <1>2, GetChartShape, FailShape DEF GetPcs
    <2> QED
      BY <1>1, <2>1, <2>2 DEF GetPcs, Base, TypeOK
  <1>3. ASSUME NEW p \in Requests, Receive(p)
        PROVE  RepoFileOwn'
    BY <1>1, <1>3, MainProcess DEF Receive, Goto, Base, TypeOK, fileVars
  <1>4. CASE Start \/ Serve \/ Crash \/ UNCHANGED vars
    BY <1>1, <1>4, MainProcess DEF Start, Serve, Crash, vars, Goto, Base, TypeOK, fileVars
  <1> QED
    BY <1>2, <1>3, <1>4, RepoFileOwnAdd DEF Next, Finished

\* Who writes goes on to write unless it is the one that moves.
LEMMA WriterStays ==
  ASSUME TypeOK, NEW q \in Processes, NEW s, pc' = [pc EXCEPT ![q] = s]
  PROVE  \A p \in Processes \ {q} : pc'[p] = pc[p]
  BY DEF TypeOK

LEMMA RepoFileWrittenAdd ==
  ASSUME Base, RepoFileOwn, ForceRemoteRepo, RepoFileWritten,
         NEW q \in Processes, AddRepo(q)
  PROVE  RepoFileWritten'
  <1> USE MainProcess DEF Base
  <1>1. CASE UNCHANGED repofile /\ pc[q] \notin {"fillNew", "fillOld"}
    <2>1. \E s : pc' = [pc EXCEPT ![q] = s]
      BY AddRepoShape, FailShape
    <2> QED
      BY <1>1, <2>1, WriterStays DEF RepoFileWritten, WritesRepoFile
  <1>2. CASE TruncateIndex(q) \/ FillIndex(q) \/ StatRepoFile(q) \/ LoadRepoFile(q)
    BY <1>1, <1>2 DEF TruncateIndex, FillIndex, StatRepoFile, LoadRepoFile, fileVars
  <1>3. CASE TruncateRepoFile(q, "create", "fillNew") \/ TruncateRepoFile(q, "update", "fillOld")
    BY <1>3 DEF TruncateRepoFile, Goto, TypeOK, RepoFileWritten, WritesRepoFile
  <1>4. ASSUME NEW repos, FillRepoFile(repos), pc[q] \in {"fillNew", "fillOld"},
               repos = seen[q] \cup {Current(q)} \/ pc[q] = "fillNew",
               pc[q] = "fillOld" => repos = seen[q] \cup {Current(q)}
        PROVE  repofile'.state = "whole"
    <2>1. CASE q = Main
      BY <1>4, <2>1 DEF FillRepoFile, RepoFileOwn
    <2>2. CASE q # Main
      <3>1. q \in Requests /\ broker = "up"
        BY <1>4, <2>2 DEF StartUpAlone, Open, Processes
      <3>2. /\ pc[q] = "fillOld" /\ Configured \subseteq seen[q]
            /\ repofile.state = "whole" => Configured \subseteq repofile.repos
        BY <1>4, <3>1 DEF ListedSoFar
      <3>3. repos = Configured
        BY <1>4, <3>2, CurrentConfigured DEF RepoFileOwn
      <3>4. repofile.state = "whole" => repofile.repos = Configured
        BY <3>2 DEF RepoFileOwn
      <3> QED
        BY <1>4, <3>3, <3>4 DEF FillRepoFile
    <2> QED
      BY <2>1, <2>2
  <1>s. ASSUME SpoilRepoFile(q, "create", "fillNew") \/ SpoilRepoFile(q, "update", "fillOld")
        PROVE  RepoFileWritten'
    <2>1. \/ UNCHANGED repofile /\ pc[q] \notin {"fillNew", "fillOld"}
          \/ repofile'.state # "torn"
      BY <1>s, SpoilFact
    <2> QED
      BY <1>1, <2>1 DEF RepoFileWritten
  <1>5. CASE AddRepoFile(q)
    BY <1>3, <1>4, <1>5, <1>s DEF AddRepoFile, RepoFileWritten
  <1>6. CASE UpdateRepoFile(q)
    BY <1>3, <1>4, <1>6, <1>s DEF UpdateRepoFile, RepoFileWritten
  <1> QED
    BY <1>2, <1>5, <1>6 DEF AddRepo

LEMMA IndexWrittenAdd ==
  ASSUME Base, NEW r \in Repos, IndexWritten(r), NEW q \in Processes, AddRepo(q)
  PROVE  IndexWritten(r)'
  <1> USE DEF Base, TypeOK
  <1>0. \E s : pc' = [pc EXCEPT ![q] = s]
    BY AddRepoShape, FailShape
  <1>1. CASE UNCHANGED index /\ pc[q] # "index" /\ \A p \in Processes \ {q} : next'[p] = next[p]
    BY <1>0, <1>1, WriterStays DEF IndexWritten, WritesIndex, Current
  <1>2. CASE TruncateIndex(q)
    <2>1. CASE index' = [index EXCEPT ![Current(q)] = "torn"] /\ Goto(q, "index")
      <3>1. next' = next /\ pc' = [pc EXCEPT ![q] = "index"] /\ pc[q] = "repos"
        BY <1>2, <2>1 DEF TruncateIndex, Goto
      <3>2. CASE r = Current(q)
        BY <3>1, <3>2 DEF IndexWritten, WritesIndex, Current
      <3>3. CASE r # Current(q)
        <4>1. index'[r] = index[r]
          BY <2>1, <3>3
        <4> QED
          BY <3>1, <4>1 DEF IndexWritten, WritesIndex, Current
      <3> QED
        BY <3>2, <3>3
    <2> QED
      BY <1>1, <1>2, <2>1 DEF TruncateIndex
  <1>3. CASE FillIndex(q)
    <2>1. /\ next' = next
          /\ \E s : pc' = [pc EXCEPT ![q] = s]
          /\ \E s \in {"whole", "cut"} : index' = [index EXCEPT ![Current(q)] = s]
      BY <1>0, <1>3 DEF FillIndex, LeftBy
    <2>2. CASE r = Current(q)
      BY <2>1, <2>2 DEF IndexWritten
    <2>3. CASE r # Current(q)
      <3>1. index'[r] = index[r]
        BY <2>1, <2>3
      <3> QED
        BY <2>1, <2>3, <3>1 DEF IndexWritten, WritesIndex, Current
    <2> QED
      BY <2>2, <2>3
  <1>4. CASE StatRepoFile(q) \/ AddRepoFile(q) \/ LoadRepoFile(q) \/ UpdateRepoFile(q)
    BY <1>1, <1>4 DEF StatRepoFile, AddRepoFile, LoadRepoFile, UpdateRepoFile,
                      TruncateRepoFile, SpoilRepoFile, fileVars
  <1> QED
    BY <1>2, <1>3, <1>4 DEF AddRepo

LEMMA ArchiveWrittenGet ==
  ASSUME Base, OwnCharts, NEW f \in Files, ArchiveWritten(f),
         NEW q \in Requests, GetChart(q)
  PROVE  ArchiveWritten(f)'
  <1> USE MainProcess DEF Base, TypeOK
  <1>0. \E s : pc' = [pc EXCEPT ![q] = s]
    BY GetChartShape, FailShape
  <1>1. CASE /\ archive'[f] = archive[f]
             /\ pc[q] # "fill" \/ place[q] # f
             /\ \A p \in Processes \ {q} : place'[p] = place[p]
    BY <1>0, <1>1, WriterStays DEF ArchiveWritten, WritesArchive
  <1>2. CASE TruncateArchive(q)
    <2>1. CASE archive' = [archive EXCEPT ![place[q]] = [state |-> "torn", repo |-> None]]
               /\ Goto(q, "fill")
      <3>1. CASE f = place[q]
        BY <1>2, <2>1, <3>1 DEF TruncateArchive, Goto, ArchiveWritten, WritesArchive
      <3>2. CASE f # place[q]
        BY <1>1, <1>2, <2>1, <3>2 DEF TruncateArchive
      <3> QED
        BY <3>1, <3>2
    <2> QED
      BY <1>1, <1>2, <2>1 DEF TruncateArchive
  <1>3. CASE FillArchive(q)
    <2> DEFINE g == place[q]
               w == want[q]
    <2>1. g \in Files /\ g \in Offers[w.repo] /\ w.repo \in Repos /\ g.name = w.name
          /\ w \in Wants /\ place' = place
      BY <1>3, FoundFact, RepoOrderFact DEF FillArchive, PlacesAsked, PlaceAsked, Open
    <2>2. ASSUME NEW s \in {"whole", "cut"},
                 archive' = [archive EXCEPT ![g] = [state |-> s, repo |-> w.repo]]
          PROVE  ArchiveWritten(f)'
      <3>1. CASE f = g
        BY <2>2, <3>1 DEF ArchiveWritten
      <3>2. CASE f # g
        BY <1>1, <2>1, <2>2, <3>2
      <3> QED
        BY <3>1, <3>2
    <2>4. CASE archive[g].state = "whole" /\ archive' = archive
      <3>1. CASE f = g
        BY <2>4, <3>1 DEF ArchiveWritten
      <3>2. CASE f # g
        BY <1>1, <2>1, <2>4, <3>2
      <3> QED
        BY <3>1, <3>2
    <2>3. CASE archive[g].state \in {"whole", "cut"} /\ archive[g].repo # w.repo
      <3>1. archive[g].repo \in Repos /\ g \in Offers[archive[g].repo]
        BY <2>1, <2>3 DEF ArchivesOffered
      <3>2. w.repo # None
        BY <2>1, ChartAssumption
      <3> QED
        BY <2>1, <2>3, <3>1, <3>2 DEF OwnCharts
    <2> QED
      BY <1>3, <2>2, <2>3, <2>4 DEF FillArchive, LeftBy
  <1>4. CASE FindChart(q) \/ ReposDone(q) \/ FindURL(q) \/ ResolveChartVersion(q) \/ LoadChart(q)
    <2>1. archive' = archive /\ pc[q] # "fill"
      BY <1>4 DEF FindChart, ReposDone, FindURL, ResolveChartVersion, LoadChart, fileVars
    <2>2. place' = place \/ \E g : place' = [place EXCEPT ![q] = g]
      BY <1>4 DEF FindChart, ReposDone, FindURL, ResolveChartVersion, LoadChart
    <2> QED
      BY <1>1, <2>1, <2>2
  <1> QED
    BY <1>2, <1>3, <1>4 DEF GetChart

\* A step that writes nothing, and moves nobody who writes.
LEMMA NothingWritten ==
  ASSUME Base, TornOnlyWhileWritten, UNCHANGED fileVars,
         \A p \in Processes :
           pc[p] \in {"index", "fillNew", "fillOld", "fill"} =>
             pc'[p] = pc[p] /\ next'[p] = next[p] /\ place'[p] = place[p]
  PROVE  TornOnlyWhileWritten'
  <1>1. RepoFileWritten'
    BY DEF TornOnlyWhileWritten, fileVars, RepoFileWritten, WritesRepoFile
  <1>2. ASSUME NEW r \in Repos
        PROVE  IndexWritten(r)'
    BY DEF TornOnlyWhileWritten, fileVars, IndexWritten, WritesIndex, Current
  <1>3. ASSUME NEW f \in Files
        PROVE  ArchiveWritten(f)'
    BY DEF TornOnlyWhileWritten, fileVars, ArchiveWritten, WritesArchive
  <1> QED
    BY <1>1, <1>2, <1>3 DEF TornOnlyWhileWritten

LEMMA TornInit == Init => TornOnlyWhileWritten
  BY DEF Init, TornOnlyWhileWritten, RepoFileWritten, IndexWritten, ArchiveWritten

LEMMA TornStep ==
  ASSUME MaxCrashes = 0, ForceRemoteRepo, OwnCharts,
         Base, RepoFileOwn, TornOnlyWhileWritten, [Next]_vars
  PROVE  TornOnlyWhileWritten'
  <1> USE MainProcess
  <1>1. ASSUME NEW q \in Processes, AddRepo(q)
        PROVE  TornOnlyWhileWritten'
    <2>1. RepoFileWritten'
      BY <1>1, RepoFileWrittenAdd DEF TornOnlyWhileWritten
    <2>2. ASSUME NEW r \in Repos
          PROVE  IndexWritten(r)'
      BY <1>1, IndexWrittenAdd DEF TornOnlyWhileWritten
    <2>3. ASSUME NEW f \in Files
          PROVE  ArchiveWritten(f)'
      <3>1. archive' = archive /\ place' = place /\ pc[q] # "fill"
        BY <1>1 DEF AddRepo, TruncateIndex, FillIndex, StatRepoFile, AddRepoFile,
                    LoadRepoFile, UpdateRepoFile, TruncateRepoFile, SpoilRepoFile, fileVars
      <3>2. \E s : pc' = [pc EXCEPT ![q] = s]
        BY <1>1, AddRepoShape, FailShape
      <3> QED
        BY <3>1, <3>2, WriterStays
           DEF TornOnlyWhileWritten, ArchiveWritten, WritesArchive, Base
    <2> QED
      BY <2>1, <2>2, <2>3 DEF TornOnlyWhileWritten
  <1>2. ASSUME NEW q \in Processes, GetChart(q)
        PROVE  TornOnlyWhileWritten'
    <2>1. q \in Requests
      BY <1>2, GetChartShape, MainPlace DEF Base, Processes
    <2>2. UNCHANGED <<repofile, index, next>> /\ pc[q] \notin {"index", "fillNew", "fillOld"}
      BY <1>2 DEF GetChart, FindChart, ReposDone, FindURL, ResolveChartVersion,
                  TruncateArchive, FillArchive, LoadChart, fileVars
    <2>3. \E s : pc' = [pc EXCEPT ![q] = s]
      BY <1>2, GetChartShape, FailShape
    <2>4. RepoFileWritten'
      BY <2>2, <2>3, WriterStays DEF Base, TornOnlyWhileWritten, RepoFileWritten, WritesRepoFile
    <2>5. ASSUME NEW r \in Repos
          PROVE  IndexWritten(r)'
      BY <2>2, <2>3, WriterStays
         DEF Base, TornOnlyWhileWritten, IndexWritten, WritesIndex, Current
    <2>6. ASSUME NEW f \in Files
          PROVE  ArchiveWritten(f)'
      BY <1>2, <2>1, ArchiveWrittenGet DEF TornOnlyWhileWritten
    <2> QED
      BY <2>4, <2>5, <2>6 DEF TornOnlyWhileWritten
  <1>3. ASSUME NEW q \in Requests, Receive(q)
        PROVE  TornOnlyWhileWritten'
    BY <1>3, NothingWritten DEF Receive, Goto, Base, TypeOK
  <1>4. CASE Start
    <2>1. pc[Main] \notin {"index", "fillNew", "fillOld", "fill"}
      BY <1>4 DEF Start, Base, StartUpAlone, Open
    <2> QED
      BY <1>4, <2>1, NothingWritten DEF Start, Goto, Base, TypeOK
  <1>5. CASE Serve
    BY <1>5, NothingWritten DEF Serve, Goto, Base, TypeOK
  <1>6. CASE Crash
    BY <1>6, ChartAssumption DEF Crash, Base, TypeOK
  <1>7. CASE UNCHANGED vars
    BY <1>7, NothingWritten DEF vars, fileVars
  <1> QED
    BY <1>1, <1>2, <1>3, <1>4, <1>5, <1>6, <1>7 DEF Next, Finished

\* Without crashes, a broker that must have its repositories and whose charts
\* have names of their own leaves no file half-written but by a write that
\* itself fails: every other error on the way (chartrepo.go DownloadIndexFile,
\* repo.go addRepo, chart_downloader.go DownloadTo) comes before a file is
\* emptied, and no two writers of a file write different things.
THEOREM TornFilesWritten ==
  ASSUME MaxCrashes = 0, ForceRemoteRepo, OwnCharts
  PROVE  Spec => []TornOnlyWhileWritten
  <1>1. Init => Base /\ RepoFileOwn /\ TornOnlyWhileWritten
    BY TornInit, RepoFileOwnInit, BaseInit
  <1>2. Base /\ RepoFileOwn /\ TornOnlyWhileWritten /\ [Next]_vars
        => (Base /\ RepoFileOwn /\ TornOnlyWhileWritten)'
    BY BaseStep, RepoFileOwnStep, TornStep
  <1> QED
    BY <1>1, <1>2, PTL DEF Spec

-----------------------------------------------------------------------------
(***************************************************************************)
(* What a process has refreshed, and why a request fails.                  *)
(***************************************************************************)
WritePcs == {"index", "stat", "create", "fillNew", "read", "update", "fillOld"}

FetchPcs == {"url", "resolve", "get", "fill"}

\* An index, and an archive, that is there stays there.
LEMMA FilesStay ==
  ASSUME TypeOK, Next
  PROVE  /\ \A r \in Repos : index[r] # "absent" => index'[r] # "absent"
         /\ \A f \in Files : archive[f].state # "absent" => archive'[f].state # "absent"
  <1>1. \A r \in Repos : index[r] # "absent" => index'[r] # "absent"
    BY DEF TypeOK, Next, AddRepo, GetChart, TruncateIndex, FillIndex, StatRepoFile, AddRepoFile,
           LoadRepoFile, UpdateRepoFile, FindChart, ReposDone, FindURL, ResolveChartVersion,
           TruncateArchive, FillArchive, LoadChart, Receive, Start, Serve, Crash, Finished,
           LeftBy, fileVars, vars
  <1> QED
    BY <1>1, ArchiveStays

\* A process that stands still, or that leaves its repositories behind.
LEMMA RefreshedKept ==
  ASSUME Base, Next, NEW p \in Processes, Refreshed(p), next'[p] = next[p],
         \/ pc'[p] = pc[p] /\ place'[p] = place[p]
         \/ pc'[p] \in {"idle", "find", "done", "repos"}
         \/ pc[p] \in WritePcs /\ pc'[p] \in WritePcs
  PROVE  Refreshed(p)'
  <1>1. \A i \in 1..(next[p] - 1) : RepoOrder[i] \in Repos
    BY RepoOrderFact DEF Base, TypeOK
  <1>2. pc[p] \in WritePcs => Current(p) \in Repos
    BY CurrentConfigured, RepoOrderFact DEF Base, WritePcs
  <1>3. Current(p)' = Current(p)
    BY DEF Current
  <1> QED
    BY <1>1, <1>2, <1>3, FilesStay DEF Refreshed, WritePcs, Base

LEMMA RefreshedAdd ==
  ASSUME Base, Next, NEW p \in Processes, Refreshed(p), AddRepo(p)
  PROVE  Refreshed(p)'
  <1> USE DEF Base
  <1>1. CASE next'[p] = next[p] /\ pc[p] \in WritePcs /\ pc'[p] \in WritePcs
    BY <1>1, RefreshedKept
  <1>2. CASE next'[p] = next[p] /\ pc'[p] \in {"done", "repos"}
    BY <1>2, RefreshedKept
  <1>3. CASE TruncateIndex(p)
    <2>1. CASE Fail(p)
      BY <1>2, <1>3, <2>1 DEF TruncateIndex, Fail, Goto, TypeOK
    <2>2. CASE index' = [index EXCEPT ![Current(p)] = "torn"] /\ Goto(p, "index")
      <3>1. pc'[p] = "index" /\ next' = next /\ pc[p] = "repos"
        BY <1>3, <2>2 DEF TruncateIndex, Goto, TypeOK
      <3>2. \A i \in 1..(next[p] - 1) : RepoOrder[i] \in Repos
        BY RepoOrderFact DEF TypeOK
      <3>3. Current(p) \in Repos /\ Current(p)' = Current(p)
        BY <1>3, <3>1, CurrentType DEF TruncateIndex, Current
      <3>4. index'[Current(p)] # "absent"
        BY <2>2, <3>3 DEF TypeOK
      <3> QED
        BY <3>1, <3>2, <3>3, <3>4, FilesStay DEF Refreshed
    <2> QED
      BY <1>3, <2>1, <2>2 DEF TruncateIndex
  <1>4. CASE FillIndex(p) \/ StatRepoFile(p) \/ AddRepoFile(p)
    BY <1>1, <1>2, <1>4 DEF FillIndex, StatRepoFile, AddRepoFile, TruncateRepoFile, SpoilRepoFile,
       Fail, Goto, TypeOK, WritePcs
  <1>5. CASE LoadRepoFile(p)
    BY <1>1, <1>2, <1>5 DEF LoadRepoFile, Fail, Goto, TypeOK, WritePcs
  <1>6. CASE UpdateRepoFile(p)
    <2>3. CASE SpoilRepoFile(p, "update", "fillOld") /\ UNCHANGED next
      BY <1>2, <2>3 DEF SpoilRepoFile, Fail, Goto, TypeOK
    <2>1. CASE TruncateRepoFile(p, "update", "fillOld") /\ UNCHANGED next
      BY <1>1, <2>1 DEF TruncateRepoFile, Goto, TypeOK, WritePcs
    <2>2. CASE pc[p] = "fillOld" /\ next' = [next EXCEPT ![p] = @ + 1] /\ Goto(p, "repos")
      <3>1. next'[p] = next[p] + 1 /\ next[p] \in Nat /\ next[p] >= 1 /\ pc'[p] = "repos"
        BY <2>2, RepoOrderFact DEF Goto, TypeOK
      <3>2. \A i \in 1..next[p] : RepoOrder[i] \in Repos
        BY <2>2, RepoOrderFact DEF TypeOK, NextInRange
      <3>3. \A i \in 1..next[p] : index[RepoOrder[i]] # "absent"
        BY <2>2, <3>1 DEF Refreshed, Current
      <3> QED
        BY <3>1, <3>2, <3>3, FilesStay DEF Refreshed
    <2> QED
      BY <1>6, <2>1, <2>2, <2>3 DEF UpdateRepoFile
  <1> QED
    BY <1>3, <1>4, <1>5, <1>6 DEF AddRepo

LEMMA RefreshedGet ==
  ASSUME Base, Next, NEW p \in Requests, Refreshed(p), GetChart(p)
  PROVE  Refreshed(p)'
  <1> USE MainProcess DEF Base
  <1>1. next' = next
    BY DEF GetChart, FindChart, ReposDone, FindURL, ResolveChartVersion, TruncateArchive,
           FillArchive, LoadChart
  <1>2. \A i \in 1..(next[p] - 1) : index'[RepoOrder[i]] # "absent"
    <2>1. \A i \in 1..(next[p] - 1) : RepoOrder[i] \in Repos
      BY RepoOrderFact DEF TypeOK
    <2> QED
      BY <2>1, FilesStay DEF Refreshed
  <1>3. CASE pc'[p] \in {"repos", "done"}
    BY <1>1, <1>3, RefreshedKept
  <1>4. CASE FindChart(p) /\ pc'[p] = "load"
    BY <1>1, <1>2, <1>4, ChartAssumption, FilesStay
       DEF FindChart, Exists, Goto, TypeOK, Refreshed, ArchiveNames, Files
  <1>5. CASE ReposDone(p)
    BY <1>1, <1>2, <1>5 DEF ReposDone, Goto, TypeOK, Refreshed
  <1>6. CASE (FindURL(p) \/ ResolveChartVersion(p)) /\ pc'[p] \in {"resolve", "get"}
    BY <1>1, <1>2, <1>6 DEF FindURL, ResolveChartVersion, TypeOK, Refreshed
  <1>7. CASE TruncateArchive(p) /\ pc'[p] = "fill"
    BY <1>1, <1>2, <1>7 DEF TruncateArchive, Fail, Goto, TypeOK, Refreshed
  <1>8. CASE FillArchive(p) /\ pc'[p] = "load"
    BY <1>1, <1>2, <1>8, FilesStay DEF FillArchive, TypeOK, Refreshed
  <1> QED
    BY <1>3, <1>4, <1>5, <1>6, <1>7, <1>8
       DEF GetChart, FindChart, FindURL, ResolveChartVersion, TruncateArchive, FillArchive,
           LoadChart, Fail, Goto, TypeOK

LEMMA RefreshedStep ==
  ASSUME Base, NEW p \in Processes, Refreshed(p), [Next]_vars
  PROVE  Refreshed(p)'
  <1> USE MainProcess DEF Base, TypeOK
  <1>1. ASSUME NEW q \in Processes, AddRepo(q)
        PROVE  Refreshed(p)'
    <2>1. CASE p = q
      BY <1>1, <2>1, RefreshedAdd DEF Next
    <2>2. CASE p # q
      <3>1. pc'[p] = pc[p]
        BY <1>1, <2>2, AddRepoShape, FailShape
      <3>2. place' = place /\ next'[p] = next[p]
        BY <1>1, <2>2 DEF AddRepo, TruncateIndex, FillIndex, StatRepoFile, AddRepoFile,
               LoadRepoFile, UpdateRepoFile
      <3> QED
        BY <1>1, <3>1, <3>2, RefreshedKept DEF Next
    <2> QED
      BY <2>1, <2>2
  <1>2. ASSUME NEW q \in Processes, GetChart(q)
        PROVE  Refreshed(p)'
    <2>1. q \in Requests
      BY <1>2, GetChartShape, MainPlace DEF Processes
    <2>2. CASE p = q
      BY <1>2, <2>1, <2>2, RefreshedGet DEF Next
    <2>3. CASE p # q
      <3>1. pc'[p] = pc[p]
        BY <1>2, <2>3, GetChartShape, FailShape
      <3>2. next' = next /\ place'[p] = place[p]
        BY <1>2, <2>3 DEF GetChart, FindChart, ReposDone, FindURL, ResolveChartVersion,
               TruncateArchive, FillArchive, LoadChart
      <3> QED
        BY <1>2, <3>1, <3>2, RefreshedKept DEF Next
    <2> QED
      BY <2>2, <2>3
  <1>3. ASSUME NEW q \in Requests, Receive(q)
        PROVE  Refreshed(p)'
    BY <1>3, RefreshedKept DEF Receive, Goto, Next
  <1>4. CASE Start
    <2>1. CASE p # Main
      BY <1>4, <2>1, RefreshedKept DEF Start, Goto, Next
    <2>2. CASE p = Main
      <3>1. next'[p] = 1 /\ pc'[p] \in {"repos", "done"}
        BY <1>4, <2>2 DEF Start, Goto
      <3> QED
        BY <3>1 DEF Refreshed
    <2> QED
      BY <2>1, <2>2
  <1>5. CASE Serve
    BY <1>5, RefreshedKept DEF Serve, Goto, Next
  <1>6. CASE Crash
    BY <1>6, RefreshedKept DEF Crash, Next
  <1>7. CASE UNCHANGED vars
    BY <1>7 DEF vars, Refreshed, Current
  <1> QED
    BY <1>1, <1>2, <1>3, <1>4, <1>5, <1>6, <1>7 DEF Next, Finished

LEMMA RefreshedInit == Init => \A p \in Processes : Refreshed(p)
  BY DEF Init, Refreshed

LEMMA RefreshedNext ==
  ASSUME Base, \A p \in Processes : Refreshed(p), [Next]_vars
  PROVE  (\A p \in Processes : Refreshed(p))'
  BY RefreshedStep

\* The whole invariant of the chart cache: who is at work while start-up is,
\* what the repositories file lists, what an archive holds, what a request is
\* about to load, and what it has refreshed before.
THEOREM ChartsInductive ==
  ASSUME OwnCharts
  PROVE  Spec => []IInv
  <1> DEFINE All == \A p \in Processes : Refreshed(p)
             Inv == Base /\ RepoFileOwn /\ ServedAsAsked /\ All
  <1>1. Init => Inv
    BY BaseInit, RepoFileOwnInit, ServedInit, RefreshedInit
  <1>2. Inv /\ [Next]_vars => Inv'
    BY BaseStep, RepoFileOwnStep, ServedStep, RefreshedNext
  <1>3. Inv => IInv
    BY DEF Base, IInv
  <1> QED
    BY <1>1, <1>2, <1>3, PTL DEF Spec

-----------------------------------------------------------------------------
\* Only the request itself fails it.
LEMMA OwnFailure ==
  ASSUME Base, NEW p \in Requests, [Next]_vars, result[p] = "none", result'[p] = "failed"
  PROVE  Fail(p) /\ (AddRepo(p) \/ GetChart(p))
  <1> USE MainProcess, ChartAssumption DEF Base, TypeOK
  <1>1. ASSUME NEW q \in Processes, AddRepo(q)
        PROVE  Fail(q) \/ result' = result
    BY <1>1 DEF AddRepo, TruncateIndex, FillIndex, StatRepoFile, AddRepoFile, LoadRepoFile,
               UpdateRepoFile, SpoilRepoFile
  <1>2. ASSUME NEW q \in Processes, GetChart(q)
        PROVE  Fail(q) \/ result'[p] \in {result[p], "served"}
    BY <1>2 DEF GetChart, FindChart, ReposDone, FindURL, ResolveChartVersion, TruncateArchive,
               FillArchive, LoadChart
  <1>3. ASSUME NEW q \in Processes, Fail(q)
        PROVE  q = p
    BY <1>3 DEF Fail
  <1>4. ~(\E q \in Requests : Receive(q)) /\ ~Start /\ ~Serve /\ ~Crash /\ ~Finished
        /\ ~UNCHANGED vars
    BY DEF Receive, Start, Serve, Crash, Finished, vars
  <1> QED
    BY <1>1, <1>2, <1>3, <1>4 DEF Next

LEMMA FailsStep ==
  ASSUME MaxCrashes = 0, ForceRemoteRepo, OwnCharts, Base, RepoFileOwn, TornOnlyWhileWritten,
         [Next]_vars, NEW p \in Requests, Refreshed(p),
         result[p] = "none", result'[p] = "failed",
         want[p].repo \in Configured \ Signed, Found(want[p]) # {}
  PROVE  \/ Unreachable /\ AsksRepo(p)
         \/ Unwritable /\ WritesFile(p)
         \/ BeforeCut(p) \/ BesideWriter(p)
  <1> USE MainProcess DEF Base
  <1>1. Fail(p) /\ (AddRepo(p) \/ GetChart(p))
    BY OwnFailure
  <1>2. pc'[p] = "done" /\ broker = "up"
    BY <1>1, AddRepoShape, GetChartShape DEF Fail, Goto, TypeOK, StartUpAlone, Open, StartPcs
  <1>3. ASSUME repofile.state # "whole", pc[p] \in {"read", "resolve"}
        PROVE  BeforeCut(p) \/ BesideWriter(p)
    <2>1. repofile.state \in {"torn", "cut"}
      BY <1>2, <1>3 DEF ListedSoFar, TypeOK, States
    <2>2. CASE repofile.state = "cut"
      BY <1>3, <2>2 DEF BeforeCut
    <2> QED
      BY <1>3, <2>1, <2>2 DEF TornOnlyWhileWritten, RepoFileWritten, WritesRepoFile, BesideWriter
  <1>4. ASSUME NEW r \in repofile.repos, index[r] # "whole", pc[p] = "resolve"
        PROVE  BeforeCut(p) \/ BesideWriter(p)
    <2>1. r \in Configured /\ r \in Repos
      BY RepoOrderFact DEF RepoFileOwn
    <2>2. index[r] # "absent"
      <3>1. PICK i \in 1..Len(RepoOrder) : r = RepoOrder[i]
        BY <2>1, RepoOrderFact DEF Configured
      <3>2. i \in 1..(next[p] - 1)
        BY <1>4, RepoOrderFact DEF Refreshed, TypeOK
      <3> QED
        BY <3>1, <3>2 DEF Refreshed
    <2>3. index[r] \in {"torn", "cut"}
      BY <1>4, <2>1, <2>2 DEF TypeOK, States
    <2>4. CASE index[r] = "cut"
      BY <1>4, <2>1, <2>4 DEF BeforeCut
    <2> QED
      BY <1>4, <2>1, <2>3, <2>4 DEF TornOnlyWhileWritten, IndexWritten, WritesIndex, BesideWriter
  <1>5. CASE AddRepo(p)
    BY <1>2, <1>3, <1>5 DEF AddRepo, TruncateIndex, FillIndex, StatRepoFile, AddRepoFile,
       LoadRepoFile, UpdateRepoFile, TruncateRepoFile, SpoilRepoFile, Goto, TypeOK, AsksRepo, WritesFile
  <1>6. CASE FindChart(p) \/ ReposDone(p) \/ FindURL(p) \/ TruncateArchive(p)
    BY <1>1, <1>2, <1>6
       DEF FindChart, ReposDone, FindURL, TruncateArchive, Goto, TypeOK, AsksRepo, WritesFile
  <1>7. CASE ResolveChartVersion(p)
    <2>1. pc[p] = "resolve" /\ (repofile.state # "whole" \/ \E r \in repofile.repos : index[r] # "whole")
      BY <1>2, <1>7 DEF ResolveChartVersion, Goto, TypeOK
    <2>2. repofile.repos \subseteq Repos
      BY DEF TypeOK
    <2> QED
      BY <1>3, <1>4, <2>1, <2>2
  <1>8. CASE FillArchive(p)
    BY <1>2, <1>8 DEF FillArchive, Goto, TypeOK, WritesFile
  <1>9. CASE LoadChart(p)
    <2>1. pc[p] = "load" /\ place[p] \in Files /\ archive[place[p]].state # "whole"
      BY <1>9 DEF LoadChart, TypeOK
    <2>2. archive[place[p]].state \in {"torn", "cut"}
      BY <2>1 DEF Refreshed, TypeOK, States
    <2>3. CASE archive[place[p]].state = "cut"
      BY <2>1, <2>3 DEF BeforeCut
    <2> QED
      BY <2>1, <2>2, <2>3 DEF TornOnlyWhileWritten, ArchiveWritten, WritesArchive, BesideWriter
  <1> QED
    BY <1>1, <1>5, <1>6, <1>7, <1>8, <1>9 DEF GetChart

\* Without crashes, a broker that must have its repositories and whose charts
\* have names of their own fails a request for a chart that is offered only at a
\* repository that does not answer, at a write that fails or what one has left,
\* or at a file that another process is writing at that moment (getChart, every
\* error return).
THEOREM FailuresExplained ==
  ASSUME MaxCrashes = 0, ForceRemoteRepo, OwnCharts
  PROVE  Spec => FailsOnlyBesideWriter
  <1> DEFINE All == \A p \in Processes : Refreshed(p)
             Inv == Base /\ RepoFileOwn /\ TornOnlyWhileWritten /\ All
             Step == \A p \in Requests :
               /\ result[p] = "none" /\ result'[p] = "failed"
               /\ want[p].repo \in Configured \ Signed /\ Found(want[p]) # {}
               => \/ Unreachable /\ AsksRepo(p)
                  \/ Unwritable /\ WritesFile(p)
                  \/ BeforeCut(p) \/ BesideWriter(p)
  <1>1. Init => Inv
    BY BaseInit, RepoFileOwnInit, RefreshedInit, TornInit
  <1>2. Inv /\ [Next]_vars => Inv'
    BY BaseStep, RepoFileOwnStep, TornStep, RefreshedNext
  <1>3. Inv /\ [Next]_vars => [Step]_vars
    BY FailsStep, MainProcess
  <1> QED
    BY <1>1, <1>2, <1>3, PTL DEF Spec, FailsOnlyBesideWriter

-----------------------------------------------------------------------------
(***************************************************************************)
(* An archive that is whole.                                               *)
(***************************************************************************)
\* Who empties or fills an archive may download it.
LEMMA WriterDownloads ==
  ASSUME Base, NEW p \in Requests, pc[p] \in {"get", "fill"}, NEW f \in Files, place[p] = f
  PROVE  MayDownload(p, f)
  BY DEF Base, PlacesAsked, PlaceAsked, Found, MayDownload

LEMMA SettledArchive ==
  ASSUME Base, Next, NEW f \in Files, Settled(f)
  PROVE  archive'[f] = archive[f]
  <1> USE MainProcess DEF Base, TypeOK
  <1>1. ASSUME NEW q \in Processes, TruncateArchive(q) \/ FillArchive(q)
        PROVE  archive'[f] = archive[f]
    <2>1. q \in Requests
      BY <1>1, GetChartShape, MainPlace DEF GetChart, Processes
    <2>2. place[q] # f
      BY <1>1, <2>1, WriterDownloads DEF TruncateArchive, FillArchive, Settled
    <2> QED
      BY <1>1, <2>2 DEF TruncateArchive, FillArchive
  <1> QED
    BY <1>1 DEF Next, AddRepo, GetChart, TruncateIndex, FillIndex, StatRepoFile, AddRepoFile,
       LoadRepoFile, UpdateRepoFile, FindChart, ReposDone, FindURL, ResolveChartVersion,
       LoadChart, Receive, Start, Serve, Crash, Finished, fileVars, vars

LEMMA SettledFound ==
  ASSUME Base, Next, NEW f \in Files, Settled(f), NEW p \in Requests, LocalFile(want[p]) = f
  PROVE  ~MayDownload(p, f)'
  <1> USE MainProcess DEF Base, TypeOK
  <1> DEFINE Downloads == {"repos", "index", "stat", "create", "fillNew", "read", "update",
                           "fillOld", "url", "resolve", "get", "fill"}
  <1>1. CASE want'[p] = want[p] /\ pc'[p] = pc[p]
    BY <1>1 DEF Settled, MayDownload
  <1>2. CASE pc'[p] \notin Downloads
    BY <1>2 DEF MayDownload
  <1>3. CASE want'[p] = want[p] /\ pc[p] \in Downloads
    BY <1>3 DEF Settled, MayDownload
  <1>4. CASE AddRepo(p) \/ GetChart(p)
    <2>1. want' = want
      BY <1>4 DEF AddRepo, GetChart, TruncateIndex, FillIndex, StatRepoFile, AddRepoFile,
         LoadRepoFile, UpdateRepoFile, FindChart, ReposDone, FindURL, ResolveChartVersion,
         TruncateArchive, FillArchive, LoadChart
    <2>2. CASE FindChart(p)
      <3>1. Exists(f)
        BY DEF Exists, Settled
      <3> QED
        BY <1>2, <2>2, <3>1 DEF FindChart, Goto
    <2>3. CASE LoadChart(p)
      BY <1>2, <2>3 DEF LoadChart, Fail, Goto
    <2>4. CASE pc[p] \in Downloads
      BY <1>3, <2>1, <2>4
    <2> QED
      BY <1>4, <2>2, <2>3, <2>4, AddRepoShape
         DEF StartPcs, GetChart, ReposDone, FindURL, ResolveChartVersion, TruncateArchive, FillArchive
  <1>5. ASSUME NEW q \in Processes \ {p}, AddRepo(q) \/ GetChart(q)
        PROVE  ~MayDownload(p, f)'
    <2>1. want' = want
      BY <1>5 DEF AddRepo, GetChart, TruncateIndex, FillIndex, StatRepoFile, AddRepoFile,
         LoadRepoFile, UpdateRepoFile, FindChart, ReposDone, FindURL, ResolveChartVersion,
         TruncateArchive, FillArchive, LoadChart
    <2>2. q \in Processes /\ \E s : pc' = [pc EXCEPT ![q] = s]
      BY <1>5, AddRepoShape, GetChartShape, FailShape
    <2>3. pc'[p] = pc[p]
      BY <1>5, <2>2
    <2> QED
      BY <1>1, <2>1, <2>3
  <1>6. ASSUME NEW q \in Requests, Receive(q)
        PROVE  ~MayDownload(p, f)'
    <2>1. CASE q = p
      BY <1>2, <1>6, <2>1 DEF Receive, Goto
    <2>2. CASE q # p
      BY <1>1, <1>6, <2>2 DEF Receive, Goto
    <2> QED
      BY <2>1, <2>2
  <1>7. CASE Start \/ Serve
    BY <1>1, <1>7, ChartAssumption DEF Start, Serve, Goto
  <1>8. CASE Crash
    BY <1>1, <1>2, <1>8 DEF Crash
  <1>9. CASE Finished
    BY <1>1, <1>9 DEF Finished, vars
  <1> QED
    BY <1>4, <1>5, <1>6, <1>7, <1>8, <1>9 DEF Next

\* An archive that is whole, and that nobody is about to download, stays as it
\* is through crashes and whatever is requested, and requests that look for it
\* find it (findChartWithPath before addrepo and writeChart).
THEOREM SettledArchives == Spec => SettledStays
  <1> DEFINE Step == \A f \in Files : Settled(f) =>
               /\ archive'[f] = archive[f]
               /\ \A p \in Requests : LocalFile(want[p]) = f => ~MayDownload(p, f)'
  <1>1. Base /\ [Next]_vars => [Step]_vars
    BY SettledArchive, SettledFound
  <1> QED
    BY <1>1, BaseInit, BaseStep, PTL DEF Spec, SettledStays
=============================================================================

----------------------------- MODULE ChartCache -----------------------------
(***************************************************************************)
(* Where charts come from (pkg/helm/chart.go, pkg/helm/repo.go) and how    *)
(* the broker comes up (main.go, helm.NewClient, HelmBroker.Run).          *)
(*                                                                         *)
(* Three kinds of files under the Helm home are shared by all requests and *)
(* by start-up, without a lock: the repositories file, one cached index    *)
(* per repository and the archive of charts.  ioutil.WriteFile empties a   *)
(* file before it fills it, so every write is two steps, and between them  *)
(* another process reads, or a crash leaves, a torn file.  A write that     *)
(* fails, on a full disk, leaves a cut one.                                *)
(***************************************************************************)
EXTENDS Integers, Sequences

CONSTANTS Requests,         \* who needs a chart: provisions and updates
          Main,             \* the start-up of the broker
          Repos,            \* chart repositories
          RepoOrder,        \* those the configuration lists, in its order
          Charts, Versions, \* chart names and versions (numbers)
          None,             \* no repository, no version, no path
          Offers,           \* what a repository's index lists
          Signed,           \* repositories with a provenance file beside each chart
          Paths,            \* offline paths of the catalogue
          Mentions,         \* the archive name a path contains, or None
          Shipped,          \* the paths that exist
          Wants,            \* the charts a request may need
          ForceRemoteRepo,  \* force_remote_repo
          Faults,           \* subset of {"unreachable", "startup", "write"}
          MaxCrashes        \* bound on the crashes of the broker

Files == [name : Charts, ver : Versions]

\* What a want may look for: without a version, no archive has that name.
ArchiveNames == [name : Charts, ver : Versions \cup {None}]

Processes == Requests \cup {Main}

Configured == {RepoOrder[i] : i \in DOMAIN RepoOrder}

AllWants == [repo : Repos \cup {None}, name : Charts, ver : Versions \cup {None},
             path : Paths \cup {None}]

ASSUME ChartAssumption ==
  /\ Main \notin Requests
  /\ None \notin Repos /\ None \notin Versions /\ None \notin Paths
  /\ None \notin ArchiveNames /\ Paths \cap ArchiveNames = {}
  /\ Versions \subseteq Int
  /\ RepoOrder \in Seq(Repos)
  /\ Offers \in [Repos -> SUBSET Files]
  /\ Signed \subseteq Repos /\ Shipped \subseteq Paths
  /\ Mentions \in [Paths -> Files \cup {None}]
  /\ Wants \subseteq AllWants
  /\ ForceRemoteRepo \in BOOLEAN /\ MaxCrashes \in Nat

\* A cut file is as unreadable as a torn one; nobody is filling it any more.
States == {"absent", "torn", "cut", "whole"}

NoWant == [repo |-> None, name |-> None, ver |-> None, path |-> None]

NoFile == [name |-> None, ver |-> None]

Places == Files \cup Paths \cup {NoFile}

NoChart == [repo |-> None, file |-> NoFile]

Pcs == {"idle", "find", "repos", "index", "stat", "create", "fillNew", "read",
        "update", "fillOld", "url", "resolve", "get", "fill", "load", "done"}

VARIABLES repofile,  \* the repositories file: its state and the repositories it lists
          index,     \* the cached index of a repository
          archive,   \* the archive: the state of a file and the repository it came from
          pc,        \* where a process is
          want,      \* the chart a request needs
          next,      \* the next repository of addrepo's loop
          seen,      \* the repositories a process read from the repositories file
          place,     \* the file a request loads
          result,    \* "none", "served", "failed" or "dropped"
          served,    \* the chart it was served
          broker,    \* "down", "starting", "up" or "exited"
          crashes    \* crashes so far

fileVars == <<repofile, index, archive>>

vars == <<repofile, index, archive, pc, want, next, seen, place, result, served,
          broker, crashes>>

TypeOK ==
  /\ repofile \in [state : States, repos : SUBSET Repos]
  /\ index \in [Repos -> States]
  /\ archive \in [Files -> [state : States, repo : Repos \cup {None}]]
  /\ pc \in [Processes -> Pcs]
  /\ want \in [Processes -> AllWants \cup {NoWant}]
  /\ next \in [Processes -> 1..(Len(RepoOrder) + 1)]
  /\ seen \in [Processes -> SUBSET Repos]
  /\ place \in [Processes -> Places]
  /\ result \in [Processes -> {"none", "served", "failed", "dropped"}]
  /\ served \in [Processes -> [repo : Repos \cup {None}, file : Files \cup {NoFile}]]
  /\ broker \in {"down", "starting", "up", "exited"}
  /\ crashes \in 0..MaxCrashes

Init ==
  /\ repofile = [state |-> "absent", repos |-> {}]
  /\ index = [r \in Repos |-> "absent"]
  /\ archive = [f \in Files |-> [state |-> "absent", repo |-> None]]
  /\ pc = [p \in Processes |-> "idle"]
  /\ want = [p \in Processes |-> NoWant]
  /\ next = [p \in Processes |-> 1]
  /\ seen = [p \in Processes |-> {}]
  /\ place = [p \in Processes |-> NoFile]
  /\ result = [p \in Processes |-> "none"]
  /\ served = [p \in Processes |-> NoChart]
  /\ broker = "down"
  /\ crashes = 0

-----------------------------------------------------------------------------
Open(p) == pc[p] \notin {"idle", "done"}

Goto(p, step) == pc' = [pc EXCEPT ![p] = step]

Unreachable == "unreachable" \in Faults

Unwritable == "write" \in Faults

\* The repository addrepo is at.
Current(p) == RepoOrder[next[p]]

\* Mutant of Fail: a repository that cannot be refreshed always ends start-up.
FailStrict(p) ==
  /\ Goto(p, "done")
  /\ result' = [result EXCEPT ![p] = "failed"]
  /\ broker' = IF p = Main THEN "exited" ELSE broker

\* An error ends a request, and start-up only when repositories are forced:
\* else NewClient logs it and goes on.
Fail(p) ==
  /\ Goto(p, "done")
  /\ result' = [result EXCEPT ![p] = "failed"]
  /\ broker' = IF p # Main THEN broker ELSE IF ForceRemoteRepo THEN "exited" ELSE "up"

-----------------------------------------------------------------------------
(***************************************************************************)
(* addrepo, for every configured repository in turn.                       *)
(***************************************************************************)
\* DownloadIndexFile: the answer is parsed before the cached index is emptied.
TruncateIndex(p) ==
  /\ pc[p] = "repos" /\ next[p] <= Len(RepoOrder)
  /\ \/ /\ index' = [index EXCEPT ![Current(p)] = "torn"]
        /\ Goto(p, "index") /\ UNCHANGED <<result, broker>>
     \/ (Unreachable \/ Unwritable) /\ Fail(p) /\ UNCHANGED index
  /\ UNCHANGED <<repofile, archive, want, next, seen, place, served, crashes>>

\* What a write that fails may leave: what another process has written in full
\* meanwhile, or nothing whole.
LeftBy(state) == {"cut"} \cup ({"whole"} \cap {state})

FillIndex(p) ==
  /\ pc[p] = "index"
  /\ \/ /\ index' = [index EXCEPT ![Current(p)] = "whole"]
        /\ Goto(p, "stat") /\ UNCHANGED <<result, broker>>
     \/ /\ Unwritable /\ Fail(p)
        /\ \E s \in LeftBy(index[Current(p)]) : index' = [index EXCEPT ![Current(p)] = s]
  /\ UNCHANGED <<repofile, archive, want, next, seen, place, served, crashes>>

\* Mutant of StatRepoFile: a missing file is not created.
StatIgnored(p) ==
  /\ pc[p] = "stat"
  /\ Goto(p, "read")
  /\ UNCHANGED <<fileVars, want, next, seen, place, result, served, broker, crashes>>

StatRepoFile(p) ==
  /\ pc[p] = "stat"
  /\ Goto(p, IF repofile.state = "absent" THEN "create" ELSE "read")
  /\ UNCHANGED <<fileVars, want, next, seen, place, result, served, broker, crashes>>

\* WriteFile of the repositories file: emptied, then filled.  A longer list that
\* another process put there meanwhile shines through; lists are prefixes of one
\* another, so that the outcome is the longer list, or garbled by a different
\* time stamp.
TruncateRepoFile(p, from, to) ==
  /\ pc[p] = from
  /\ repofile' = [state |-> "torn", repos |-> {}]
  /\ Goto(p, to)

FillRepoFile(repos) ==
  \/ repofile' = [state |-> "whole", repos |-> repos \cup repofile.repos]
  \/ /\ repofile.state = "whole" /\ repofile.repos # repos
     /\ repofile' = [state |-> "torn", repos |-> {}]

\* The file cannot be opened, or not be filled; it is smaller than a block, of
\* which a full disk takes nothing.
SpoilRepoFile(p, from, to) ==
  /\ Unwritable /\ Fail(p)
  /\ \/ pc[p] = from /\ UNCHANGED repofile
     \/ /\ pc[p] = to
        /\ \E s \in LeftBy(repofile.state) :
             repofile' = IF s = "whole" THEN repofile ELSE [state |-> s, repos |-> {}]

\* addRepoFile: a new file that lists this repository only.
AddRepoFile(p) ==
  /\ \/ TruncateRepoFile(p, "create", "fillNew") /\ UNCHANGED <<result, broker>>
     \/ /\ pc[p] = "fillNew" /\ FillRepoFile({Current(p)})
        /\ Goto(p, "read") /\ UNCHANGED <<result, broker>>
     \/ SpoilRepoFile(p, "create", "fillNew")
  /\ UNCHANGED <<index, archive, want, next, seen, place, served, crashes>>

\* updateRepoFile: an empty file has no API version, which is an error.
LoadRepoFile(p) ==
  /\ pc[p] = "read"
  /\ \/ /\ repofile.state = "whole"
        /\ seen' = [seen EXCEPT ![p] = repofile.repos]
        /\ Goto(p, "update") /\ UNCHANGED <<result, broker>>
     \/ repofile.state # "whole" /\ Fail(p) /\ UNCHANGED seen
  /\ UNCHANGED <<fileVars, want, next, place, served, crashes>>

\* Mutant of UpdateRepoFile: the new entry replaces all others.
ReplaceRepoFile(p) ==
  /\ \/ TruncateRepoFile(p, "update", "fillOld") /\ UNCHANGED next
     \/ /\ pc[p] = "fillOld" /\ FillRepoFile({Current(p)})
        /\ next' = [next EXCEPT ![p] = @ + 1]
        /\ Goto(p, "repos")
  /\ UNCHANGED <<index, archive, want, seen, place, result, served, broker, crashes>>

UpdateRepoFile(p) ==
  /\ \/ TruncateRepoFile(p, "update", "fillOld") /\ UNCHANGED <<next, result, broker>>
     \/ /\ pc[p] = "fillOld" /\ FillRepoFile(seen[p] \cup {Current(p)})
        /\ next' = [next EXCEPT ![p] = @ + 1]
        /\ Goto(p, "repos") /\ UNCHANGED <<result, broker>>
     \/ SpoilRepoFile(p, "update", "fillOld") /\ UNCHANGED next
  /\ UNCHANGED <<index, archive, want, seen, place, served, crashes>>

-----------------------------------------------------------------------------
(***************************************************************************)
(* getChart                                                                *)
(***************************************************************************)
\* Mutant of LocalFile: the path of the catalogue is trusted as it is.
LocalPath(w) == IF w.path # None THEN w.path ELSE [name |-> w.name, ver |-> w.ver]

\* findChartWithPath: the path of the catalogue counts when it contains the
\* archive name, else the archive is searched; neither knows the repository.
LocalFile(w) ==
  IF w.path # None /\ Mentions[w.path] = [name |-> w.name, ver |-> w.ver] THEN w.path
  ELSE [name |-> w.name, ver |-> w.ver]

\* Mutant of Exists: the file is not looked for.
ExistsUnchecked(f) == TRUE

\* os.Stat: a torn file exists.
Exists(f) == f \in Shipped \/ (f \in Files /\ archive[f].state # "absent")

Receive(p) ==
  /\ broker = "up" /\ pc[p] = "idle"
  /\ \E w \in Wants : want' = [want EXCEPT ![p] = w]
  /\ Goto(p, "find")
  /\ UNCHANGED <<fileVars, next, seen, place, result, served, broker, crashes>>

\* Mutant of FindChart: the repositories are always asked.
FindRemote(p) ==
  /\ pc[p] = "find"
  /\ Goto(p, "repos") /\ UNCHANGED place
  /\ UNCHANGED <<fileVars, want, next, seen, result, served, broker, crashes>>

FindChart(p) ==
  LET f == LocalFile(want[p]) IN
  /\ pc[p] = "find"
  /\ \/ Exists(f) /\ place' = [place EXCEPT ![p] = f] /\ Goto(p, "load")
     \/ ~Exists(f) /\ Goto(p, "repos") /\ UNCHANGED place
  /\ UNCHANGED <<fileVars, want, next, seen, result, served, broker, crashes>>

ReposDone(p) ==
  /\ pc[p] = "repos" /\ next[p] > Len(RepoOrder) /\ p # Main
  /\ Goto(p, "url")
  /\ UNCHANGED <<fileVars, want, next, seen, place, result, served, broker, crashes>>

\* repo.FindChartInRepoURL: the version asked for, or the newest one.
Found(w) ==
  {f \in Offers[w.repo] :
     /\ f.name = w.name
     /\ \/ f.ver = w.ver
        \/ w.ver = None /\ \A g \in Offers[w.repo] : g.name = w.name => g.ver <= f.ver}

\* Mutant of FindURL: the search ends at the first repository.
FindFirstURL(p) ==
  /\ pc[p] = "url"
  /\ \/ /\ want[p].repo = RepoOrder[1]
        /\ \E f \in Found(want[p]) : place' = [place EXCEPT ![p] = f]
        /\ Goto(p, "resolve") /\ UNCHANGED <<result, broker>>
     \/ want[p].repo # RepoOrder[1] /\ Fail(p) /\ UNCHANGED place
  /\ UNCHANGED <<fileVars, want, next, seen, served, crashes>>

\* writeChart: a name without a repository, a repository that is not
\* configured and a chart its index does not list are errors.
FindURL(p) ==
  /\ pc[p] = "url"
  /\ \/ /\ want[p].repo \in Configured
        /\ \E f \in Found(want[p]) : place' = [place EXCEPT ![p] = f]
        /\ Goto(p, "resolve") /\ UNCHANGED <<result, broker>>
     \/ /\ \/ want[p].repo \notin Configured \/ Unreachable
           \/ want[p].repo \in Configured /\ Found(want[p]) = {}
        /\ Fail(p) /\ UNCHANGED place
  /\ UNCHANGED <<fileVars, want, next, seen, served, crashes>>

\* ResolveChartVersion loads the repositories file and scans the indexes of
\* the repositories it lists, up to the one that has the chart; a torn index
\* may parse, as an empty one.
ResolveChartVersion(p) ==
  /\ pc[p] = "resolve"
  /\ \/ repofile.state = "whole" /\ Goto(p, "get") /\ UNCHANGED <<result, broker>>
     \/ /\ \/ repofile.state # "whole"
           \/ \E r \in repofile.repos : index[r] # "whole"
        /\ Fail(p)
  /\ UNCHANGED <<fileVars, want, next, seen, place, served, crashes>>

\* Mutant of TruncateArchive: the file is emptied before the chart is fetched.
StreamArchive(p) ==
  /\ pc[p] = "get"
  /\ archive' = [archive EXCEPT ![place[p]] = [state |-> "torn", repo |-> None]]
  /\ \/ Goto(p, "fill") /\ UNCHANGED <<result, broker>>
     \/ Unreachable /\ Fail(p)
  /\ UNCHANGED <<repofile, index, want, next, seen, place, served, crashes>>

\* DownloadTo fetches the whole chart before it writes the archive.
TruncateArchive(p) ==
  /\ pc[p] = "get"
  /\ \/ /\ archive' = [archive EXCEPT ![place[p]] = [state |-> "torn", repo |-> None]]
        /\ Goto(p, "fill") /\ UNCHANGED <<result, broker>>
     \/ (Unreachable \/ Unwritable) /\ Fail(p) /\ UNCHANGED archive
  /\ UNCHANGED <<repofile, index, want, next, seen, place, served, crashes>>

\* A chart of another repository a slower writer put there shines through when
\* it is longer.  A provenance file is checked against an empty keyring.
FillArchive(p) ==
  LET f == place[p]
      r == want[p].repo IN
  /\ pc[p] = "fill"
  /\ \/ /\ \/ archive' = [archive EXCEPT ![f] = [state |-> "whole", repo |-> r]]
           \/ /\ archive[f].state \in {"whole", "cut"} /\ archive[f].repo # r
              /\ archive' = [archive EXCEPT ![f] = [state |-> "torn", repo |-> None]]
        /\ \/ r \notin Signed /\ Goto(p, "load") /\ UNCHANGED <<result, broker>>
           \/ r \in Signed /\ Fail(p)
     \/ /\ Unwritable /\ Fail(p)
        /\ \E s \in LeftBy(archive[f].state) :
             archive' = IF s = "whole" THEN archive
                        ELSE [archive EXCEPT ![f] = [state |-> s, repo |-> r]]
  /\ UNCHANGED <<repofile, index, want, next, seen, place, served, crashes>>

\* Mutant of LoadChart: an archive is served as it is.
LoadTorn(p) ==
  LET f == place[p] IN
  /\ pc[p] = "load"
  /\ served' = [served EXCEPT ![p] =
       IF f \in Files THEN [repo |-> archive[f].repo, file |-> f]
       ELSE [repo |-> None, file |-> Mentions[f]]]
  /\ Goto(p, "done")
  /\ result' = [result EXCEPT ![p] = "served"]
  /\ UNCHANGED <<fileVars, want, next, seen, place, broker, crashes>>

\* loadChart: a torn archive is an error, and stays where it is.
LoadChart(p) ==
  LET f == place[p] IN
  /\ pc[p] = "load"
  /\ \/ /\ f \in Files /\ archive[f].state # "whole"
        /\ Fail(p) /\ UNCHANGED served
     \/ /\ served' = [served EXCEPT ![p] =
             IF f \in Files THEN [repo |-> archive[f].repo, file |-> f]
             ELSE [repo |-> None, file |-> Mentions[f]]]
        /\ f \in Files => archive[f].state = "whole"
        /\ Goto(p, "done")
        /\ result' = [result EXCEPT ![p] = "served"]
        /\ UNCHANGED broker
  /\ UNCHANGED <<fileVars, want, next, seen, place, crashes>>

-----------------------------------------------------------------------------
(***************************************************************************)
(* Start-up, and a crash anywhere: files stay as they are.                 *)
(***************************************************************************)
\* LoadConfig and Validate: the file cannot be read or parsed, or lacks the log
\* level, the user, the password or the DNS suffix.
ConfigRefused == "startup" \in Faults

\* A configuration or catalogue that does not parse ends the program, no
\* repositories at all count as an error of initRepos.
Start ==
  /\ broker \in {"down", "exited"}
  /\ \/ RepoOrder # <<>> /\ broker' = "starting" /\ Goto(Main, "repos")
     \/ /\ RepoOrder = <<>> /\ Goto(Main, "done")
        /\ broker' = IF ForceRemoteRepo THEN "exited" ELSE "up"
     \/ ConfigRefused /\ broker' = "exited" /\ Goto(Main, "done")
  /\ next' = [next EXCEPT ![Main] = 1]
  /\ result' = [result EXCEPT ![Main] = "none"]
  /\ UNCHANGED <<fileVars, want, seen, place, served, crashes>>

\* Run returns at once when NewClient could not reach the cluster.
Serve ==
  /\ pc[Main] = "repos" /\ next[Main] > Len(RepoOrder)
  /\ Goto(Main, "done")
  /\ \/ broker' = "up"
     \/ "startup" \in Faults /\ broker' = "exited"
  /\ UNCHANGED <<fileVars, want, next, seen, place, result, served, crashes>>

Crash ==
  /\ broker \in {"starting", "up"} /\ crashes < MaxCrashes
  /\ crashes' = crashes + 1
  /\ broker' = "down"
  /\ pc' = [p \in Processes |-> IF Open(p) THEN "done" ELSE pc[p]]
  /\ result' = [p \in Processes |-> IF Open(p) THEN "dropped" ELSE result[p]]
  /\ UNCHANGED <<fileVars, want, next, seen, place, served>>

AddRepo(p) ==
  \/ TruncateIndex(p) \/ FillIndex(p) \/ StatRepoFile(p)
  \/ AddRepoFile(p) \/ LoadRepoFile(p) \/ UpdateRepoFile(p)

GetChart(p) ==
  \/ FindChart(p) \/ ReposDone(p) \/ FindURL(p) \/ ResolveChartVersion(p)
  \/ TruncateArchive(p) \/ FillArchive(p) \/ LoadChart(p)

Finished == /\ \A p \in Requests : pc[p] = "done"
            /\ broker = "up"
            /\ UNCHANGED vars

Next ==
  \/ \E p \in Processes : AddRepo(p) \/ GetChart(p)
  \/ \E p \in Requests : Receive(p)
  \/ Start \/ Serve \/ Crash \/ Finished

Spec == Init /\ [][Next]_vars

\* The Go scheduler runs every goroutine; somebody starts the broker again.
Fairness == /\ \A p \in Processes : WF_vars(AddRepo(p) \/ GetChart(p))
            /\ WF_vars(Start) /\ WF_vars(Serve)

FairSpec == Spec /\ Fairness
=============================================================================

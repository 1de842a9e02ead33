--------------------------- MODULE ChartProperties ---------------------------
(***************************************************************************)
(* What requests and restarts may count on when they share the files of    *)
(* the Helm home.                                                          *)
(***************************************************************************)
EXTENDS ChartCache

\* p has emptied a file and not filled it yet.
WritesRepoFile(p) == pc[p] \in {"fillNew", "fillOld"}

WritesArchive(p, f) == pc[p] = "fill" /\ place[p] = f

WritesIndex(p, r) == pc[p] = "index" /\ Current(p) = r

(***************************************************************************)
(* Without crashes.                                                        *)
(***************************************************************************)
RepoFileWritten == repofile.state = "torn" => \E p \in Processes : WritesRepoFile(p)

IndexWritten(r) == index[r] = "torn" => \E p \in Processes : WritesIndex(p, r)

ArchiveWritten(f) == archive[f].state = "torn" => \E p \in Processes : WritesArchive(p, f)

\* A file that has been emptied is being written, or else the last write to it
\* failed: no other error of a request or of start-up on the way
\* (DownloadIndexFile, addRepoFile, DownloadTo) costs the Helm home a file,
\* however the writes of several requests interleave.
TornOnlyWhileWritten ==
  /\ RepoFileWritten
  /\ \A r \in Repos : IndexWritten(r)
  /\ \A f \in Files : ArchiveWritten(f)

\* Another process has emptied a file p may need and not filled it yet.
BesideWriter(p) ==
  \E q \in Processes \ {p} :
    WritesRepoFile(q) \/ (\E r \in Repos : WritesIndex(q, r)) \/ WritesArchive(q, place[p])

\* p is about to read a file that a failed write has left.
BeforeCut(p) ==
  \/ pc[p] \in {"read", "resolve"} /\ repofile.state = "cut"
  \/ pc[p] = "resolve" /\ \E r \in Repos : index[r] = "cut"
  \/ pc[p] = "load" /\ place[p] \in Files /\ archive[place[p]].state = "cut"

\* Where a repository is asked, and where a file is emptied or filled.
AsksRepo(p) == pc[p] \in {"repos", "url", "get"}

WritesFile(p) ==
  pc[p] \in {"repos", "index", "create", "fillNew", "update", "fillOld", "get", "fill"}

\* A request whose chart is offered, without a provenance file, fails only at a
\* repository that does not answer, at a write of its own that fails or a file
\* that such a write has left, or beside another process that is writing a file
\* at that moment.
FailsOnlyBesideWriter ==
  [][\A p \in Requests :
       /\ result[p] = "none" /\ result'[p] = "failed"
       /\ want[p].repo \in Configured \ Signed /\ Found(want[p]) # {}
       => \/ Unreachable /\ AsksRepo(p)
          \/ Unwritable /\ WritesFile(p)
          \/ BeforeCut(p) \/ BesideWriter(p)]_vars

\* Once an archive is whole and no request is about to download it, no request
\* touches it again, and those that look for it in the archive load it without
\* the repositories.  (A request whose offline path does not exist looks for
\* that path, and downloads the chart each time.)
MayDownload(p, f) ==
  /\ pc[p] \in {"repos", "index", "stat", "create", "fillNew", "read", "update", "fillOld",
                "url", "resolve", "get", "fill"}
  /\ want[p].name = f.name
  /\ want[p].ver \in {f.ver, None}

Settled(f) ==
  archive[f].state = "whole" /\ \A p \in Requests : ~MayDownload(p, f)

SettledStays ==
  [][\A f \in Files : Settled(f) =>
       /\ archive'[f] = archive[f]
       /\ \A p \in Requests : LocalFile(want[p]) = f => ~MayDownload(p, f)']_vars

(***************************************************************************)
(* Crashes or not.                                                         *)
(***************************************************************************)
\* A request is served the chart, the version and the repository its service
\* names; without a version, the newest one of the repository.
AsAsked(chart, w) ==
  /\ chart.file.name = w.name
  /\ w.ver # None => chart.file.ver = w.ver
  /\ w.ver = None => chart.file \in Found(w)
  /\ w.path = None /\ w.repo # None => chart.repo = w.repo

ServedAsAsked ==
  \A p \in Requests : result[p] = "served" => AsAsked(served[p], want[p])

\* With force_remote_repo, a broker that serves has every configured repository
\* in its repositories file, and no request takes one out.
ForcedReposListed ==
  ForceRemoteRepo /\ broker = "up" /\ repofile.state = "whole"
    => Configured \subseteq repofile.repos

\* Why ForcedReposListed holds, as an inductive invariant: start-up and requests
\* never run side by side; what start-up has been through is listed, and once
\* the broker is up everybody who writes the file has read a complete list.
StartUpAlone ==
  /\ \A p \in Requests : Open(p) => broker = "up"
  /\ Open(Main) => broker = "starting"
  /\ broker = "starting" => /\ RepoOrder # <<>>
                            /\ pc[Main] \in {"repos", "index", "stat", "create", "fillNew", "read",
                                             "update", "fillOld"}

\* Who is at a repository has not gone through all of them.
NextInRange ==
  \A p \in Processes :
    pc[p] \in {"index", "stat", "create", "fillNew", "read", "update", "fillOld"}
      => next[p] <= Len(RepoOrder)

Listed == {RepoOrder[i] : i \in 1..(next[Main] - 1)}

ListedSoFar ==
  ForceRemoteRepo =>
    /\ broker = "starting" =>
         /\ repofile.state = "whole" => Listed \subseteq repofile.repos
         /\ pc[Main] \in {"update", "fillOld"} => Listed \subseteq seen[Main]
         /\ repofile.state = "absent" => next[Main] = 1
         /\ pc[Main] \in {"create", "fillNew"} => next[Main] = 1
    /\ broker = "up" =>
         /\ repofile.state # "absent"
         /\ repofile.state = "whole" => Configured \subseteq repofile.repos
         /\ \A p \in Requests :
              /\ pc[p] \notin {"create", "fillNew"}
              /\ pc[p] \in {"update", "fillOld"} => Configured \subseteq seen[p]

\* The repositories file lists configured repositories only, and start-up, which
\* writes it alone, finds it empty when it fills it.
RepoFileOwn ==
  /\ repofile.repos \subseteq Configured
  /\ repofile.state # "whole" => repofile.repos = {}
  /\ \A p \in Processes : pc[p] \in {"update", "fillOld"} => seen[p] \subseteq Configured
  /\ pc[Main] \in {"fillNew", "fillOld"} => repofile.state = "torn"

\* Why ServedAsAsked holds: an archive is what its repository offers under that
\* name, and a request downloads, or loads, only what it asked for.
ArchivesOffered ==
  \A f \in Files : archive[f].state \in {"whole", "cut"} =>
    archive[f].repo \in Repos /\ f \in Offers[archive[f].repo]

PlaceAsked(p) ==
  /\ pc[p] = "idle" => result[p] = "none"
  /\ Open(p) => want[p] \in Wants
  /\ pc[p] \in {"resolve", "get", "fill"} =>
       want[p].repo \in Configured /\ place[p] \in Found(want[p])
  /\ pc[p] = "load" =>
       \/ want[p].repo \in Configured /\ place[p] \in Found(want[p])
       \/ place[p] = LocalFile(want[p]) /\ Exists(place[p])

PlacesAsked == \A p \in Requests : PlaceAsked(p)

\* No repository offers a chart under a name a service asks another one for.
OwnCharts ==
  \A w \in Wants : \A r \in Repos : \A f \in Offers[r] :
    w.repo # None /\ f.name = w.name => r = w.repo

\* Why FailsOnlyBesideWriter holds: a process has refreshed the index of every
\* repository it has gone through, a request those of all of them before it asks
\* for its chart, and what it fills or loads is there.
Refreshed(p) ==
  /\ \A i \in 1..(next[p] - 1) : index[RepoOrder[i]] # "absent"
  /\ pc[p] \in {"index", "stat", "create", "fillNew", "read", "update", "fillOld"} =>
       index[Current(p)] # "absent"
  /\ pc[p] \in {"url", "resolve", "get", "fill"} => next[p] > Len(RepoOrder)
  /\ pc[p] \in {"fill", "load"} /\ place[p] \in Files => archive[place[p]].state # "absent"

IInv == TypeOK /\ NextInRange /\ StartUpAlone /\ ListedSoFar /\ RepoFileOwn
        /\ ArchivesOffered /\ PlacesAsked /\ ServedAsAsked
        /\ \A p \in Processes : Refreshed(p)

(***************************************************************************)
(* Progress.                                                               *)
(***************************************************************************)
\* Without force_remote_repo the broker comes up in the end and stays up,
\* whatever the repositories are like and whatever torn files a crash has left,
\* as long as somebody starts it again.
StaysUp == <>[](broker = "up")
=============================================================================

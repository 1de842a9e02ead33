-------------------------- MODULE BrokerProperties --------------------------
(***************************************************************************)
(* What the broker promises: to the platform, through its answers, and to  *)
(* the cluster, through the releases and objects it leaves behind.         *)
(***************************************************************************)
EXTENDS HelmBroker

Answered(r, kind, codes) == req[r].kind = kind /\ reply[r] \in codes

\* r is answered by this step, and how.
Answers(r, kind, codes) ==
  req[r].kind = kind /\ reply[r] = "none" /\ reply'[r] \in codes

\* Tiller has begun to carry out a deprovision of the release name.
Uninstalled(n) ==
  \E c \in Callers : /\ op[c].kind = "uninstall" /\ op[c].step # "prepare"
                     /\ op[c].name = n

Busy(n) == \E c \in Callers : Running(c) /\ op[c].name = n

(***************************************************************************)
(* Whatever the platform sends in whatever order, and whatever breaks.     *)
(***************************************************************************)
\* A provision answered 201 leaves a release with its objects in the cluster
\* for as long as no deprovision of that name reaches Tiller: no error on the
\* way from Tiller through client.InstallRelease and release.Install to the
\* handler turns into a 201.
AckedProvisionHasRelease ==
  \A r \in Requests :
    Answered(r, "provision", {"201"}) /\ ~Uninstalled(Name(r))
      => Revisions(Name(r)) # {} /\ objects[Name(r)] # None

\* Why AckedProvisionHasRelease holds, as an inductive invariant: a handler and
\* its call belong together; a handler that has answered is done; an install
\* has a record, and then objects, from the step on that makes them, unless a
\* deprovision took them away.
Matches(r) ==
  /\ pc[r] \in {"idle", "exists", "status"} => op[r] = NoOp
  /\ op[r].kind # "none" => /\ req[r].kind # "none" /\ op[r].name = Name(r)
                            /\ op[r].kind = "install" <=> req[r].kind = "provision"
  /\ reply[r] # "none" => pc[r] = "done"
  /\ Answered(r, "provision", {"201"}) =>
       op[r].kind = "install" /\ op[r].step = "replied" /\ op[r].ok

CallMatchesRequest == \A r \in Requests : Matches(r)

\* The call c took, or is past, one of these steps, and no deprovision came.
Past(c, steps) == /\ \/ op[c].step \in steps
                     \/ op[c].step = "replied" /\ op[c].ok
                  /\ ~Uninstalled(op[c].name)

LeavesTraces(c) ==
  op[c].kind = "install" =>
    /\ op[c].step \in {"supersede", "record", "apply"} => op[c].ver \in Versions
    /\ Past(c, {"apply", "wait", "finish"}) => Revisions(op[c].name) # {}
    /\ Past(c, {"wait", "finish"}) => objects[op[c].name] # None

InstallLeavesTraces == \A c \in Callers : LeavesTraces(c)

IInv == TypeOK /\ CallMatchesRequest /\ InstallLeavesTraces

\* Updates, binds, unbinds and polls never take a release away: once a name
\* has a record it has one until a deprovision reaches Tiller.
OnlyDeprovisionRemoves ==
  [][\A n \in Names : Revisions(n) # {} /\ Revisions(n)' = {} => Uninstalled(n)]_vars

(***************************************************************************)
(* When the platform sends an instance one request at a time and no        *)
(* connection breaks during a call.                                        *)
(***************************************************************************)
\* What these properties are for: requests one at a time, instances with
\* release names of their own, calls that come back, deletions that work.
SerialUse ==
  /\ Serial
  /\ \A i, j \in Instances : getName[i] = getName[j] => i = j
  /\ Faults \cap {"unreachable", "lost", "tillerRestart", "brokerRestart"} = {}
  /\ "delete" \notin KubeFaults

\* At most one call is at work on a release name, for its request is open.
OneAtATime ==
  /\ \A r, q \in Requests : Open(r) /\ Open(q) /\ req[r].inst = req[q].inst => r = q
  /\ \A r \in Requests : Running(r) => pc[r] = "await"
  /\ \A r \in Requests : op[r].kind # "none" =>
       (op[r].kind = "uninstall" <=> req[r].kind = "deprovision")

\* What an install, an update and an uninstall find and leave at each step: an
\* install starts from nothing, an update keeps the one deployed revision until
\* its own takes over, an uninstall removes every revision there is.
InstallAlone(c) ==
  LET n == op[c].name IN
  /\ op[c].step \notin {"supersede", "recordOld"}
  /\ op[c].step \in {"prepare", "history", "record"} => Revisions(n) = {}
  /\ op[c].step \in {"record", "apply", "wait", "finish", "recordFailed"} =>
       op[c].ver = 1 /\ op[c].old = 0 /\ 1 \in Versions
  /\ op[c].step \in {"apply", "wait", "finish", "recordFailed"} =>
       Revisions(n) = {1} /\ DeployedRevisions(n) = {}

UpdateAlone(c) ==
  LET n == op[c].name IN
  /\ op[c].step \in {"last", "record", "apply", "wait", "recordOld", "recordFailed", "supersede"} =>
       DeployedRevisions(n) = {op[c].old}
  /\ op[c].step \in {"apply", "wait", "recordOld", "recordFailed", "supersede", "finish"} =>
       op[c].ver \in Revisions(n) /\ op[c].ver # op[c].old
  /\ op[c].step = "record" => op[c].ver \in Versions
  /\ op[c].step = "finish" => DeployedRevisions(n) = {}

UninstallAlone(c) ==
  LET n == op[c].name IN
  /\ op[c].step # "wait"
  /\ op[c].step \in {"deleting", "remove"} => op[c].seen = Revisions(n) /\ op[c].ver \in op[c].seen
  /\ op[c].step \in {"removed", "purge"} =>
       op[c].seen = Revisions(n) /\ Revisions(n) # {} /\ objects[n] = None
  /\ op[c].step = "replied" /\ op[c].ok /\ pc[c] = "await" => Revisions(n) = {}

WorksAlone(c) ==
  /\ op[c].kind = "install" => InstallAlone(c)
  /\ op[c].kind = "update" => UpdateAlone(c)
  /\ op[c].kind = "uninstall" => UninstallAlone(c)

\* The install of c has ended well.
Installed(c, n) ==
  op[c].kind = "install" /\ op[c].step = "replied" /\ op[c].ok /\ op[c].name = n

\* A release of a name in serial use: one deployed revision at most, no objects
\* without a record; once installed and until a deprovision comes, a deployed
\* revision, or an update about to make one, and no second install.
InOrder(n) ==
  /\ \A v, w \in DeployedRevisions(n) : v = w
  /\ Revisions(n) = {} => objects[n] = None
  /\ \A c \in Callers : Installed(c, n) /\ ~Uninstalled(n) =>
       /\ \/ DeployedRevisions(n) # {}
          \/ \E d \in Callers : At(d, "update", "finish") /\ op[d].name = n
       /\ \A d \in Callers : Installed(d, n) => d = c

SerialOrder ==
  /\ IInv /\ OneAtATime
  /\ \A c \in Callers : WorksAlone(c)
  /\ \A n \in Names : InOrder(n)

\* What a call knows of the objects and the records: from the step on that
\* applies them the objects have its values, and its request has waited for
\* them unless it accepts incomplete; an update without parameters has the
\* values of the deployed revision, and its own revision is the latest, pending
\* while the hooks may still fail.
CallValues(c) ==
  LET n == op[c].name IN
  /\ Running(c) /\ ~req[c].async => op[c].wait
  /\ At(c, "install", "apply") => objects[n] = None
  /\ op[c].step \in {"wait", "supersede", "finish"} => objects[n] = op[c].cfg
  /\ op[c].kind = "install" /\ pc[c] = "await" /\ ~req[c].async
       /\ (op[c].step = "finish" \/ (op[c].step = "replied" /\ op[c].ok)) => ready[n]
  /\ op[c].kind = "update" =>
       /\ req[c].kind = "update"
       /\ op[c].step \in {"last", "record", "apply", "wait", "recordOld", "recordFailed", "supersede"}
            => op[c].ocfg = store[n][op[c].old].cfg
       /\ UserParams(c) = None /\ op[c].step = "prepare" => op[c].cfg = EmptyConfig
       /\ UserParams(c) = None /\ Running(c) /\ op[c].step # "prepare" => op[c].cfg = op[c].ocfg
       /\ op[c].step = "record" => \A w \in Revisions(n) : w < op[c].ver
       /\ op[c].step \in {"apply", "wait", "recordOld", "recordFailed", "supersede", "finish"}
            => IsLatest(n, op[c].ver)
       /\ op[c].step \in {"apply", "wait", "supersede"}
            => store[n][op[c].ver].status = "PENDING_UPGRADE"

\* A call is between its first write and its last.
Writing(c) == op[c].step \in {"apply", "wait", "recordOld", "recordFailed", "supersede",
                              "finish", "remove", "removed", "purge"}

\* Revision v is what an install or an update that ended in error left behind: it
\* is marked failed, or still pending where a hook of the chart failed.
EndedInError(n) ==
  \E c \in Callers : /\ op[c].kind \in {"install", "update"} /\ op[c].name = n
                     /\ op[c].step = "replied" /\ ~op[c].ok

LeftByFailure(n, v) ==
  store[n][v].status \in {"FAILED", "PENDING_UPGRADE"} /\ EndedInError(n)

\* The latest revision was left by a failure, or is deployed and the objects have
\* its values.
LatestSettled(n) ==
  \A v \in Versions : IsLatest(n, v) =>
    \/ LeftByFailure(n, v)
    \/ store[n][v].status = "DEPLOYED" /\ store[n][v].cfg = objects[n]

\* So it is between calls.
Settled(n) == (\A c \in Callers : Writing(c) => op[c].name # n) => LatestSettled(n)

\* A bind reads values of the revision whose status it has read.
ReadsLatest(r) == pc[r] = "values" => IsLatest(Name(r), creds[r].rev) /\ req[r].kind = "bind"

SerialInv ==
  /\ SerialOrder
  /\ \A c \in Callers : CallValues(c)
  /\ \A n \in Names : Settled(n)
  /\ \A r \in Requests : ReadsLatest(r)

\* Two provisions of one release name are never both answered 201, unless it
\* was deprovisioned: Exists answers the second one 409, and the name check
\* of Tiller stops it when Exists failed.
OneCreation ==
  \A r, q \in Requests :
    /\ r # q
    /\ Answered(r, "provision", {"201"}) /\ Answered(q, "provision", {"201"})
    /\ Name(r) = Name(q)
    => Uninstalled(Name(r))

\* No objects stay in the cluster under a name that has no release, where no
\* later deprovision could find them (Exists answers 410).
NoOrphans ==
  \A n \in Names : ~Busy(n) /\ Revisions(n) = {} => objects[n] = None

\* Tiller never has two deployed revisions of a name: the lookup of
\* client.getRelease and the next upgrade count on a single one.
SingleDeployed ==
  \A n \in Names : Cardinality(DeployedRevisions(n)) <= 1

\* A provisioned instance stays upgradable: whatever happened to the updates
\* since, it has a deployed revision when nothing is in progress.
StaysUpgradable ==
  \A r \in Requests :
    Answered(r, "provision", {"201"}) /\ ~Uninstalled(Name(r)) /\ ~Busy(Name(r))
      => DeployedRevisions(Name(r)) # {}

\* When a deprovision is answered 200 or 410, neither a record nor an object
\* of the instance is left.
DeprovisionLeavesNothing ==
  [][\A r \in Requests :
       Answers(r, "deprovision", {"200", "410"})
         => Revisions(Name(r))' = {} /\ objects'[Name(r)] = None]_vars

\* A provision that does not accept incomplete is answered 201 only once the
\* workloads are ready (InstallWait).
SyncProvisionReady ==
  [][\A r \in Requests :
       Answers(r, "provision", {"201"}) /\ ~req[r].async => ready[Name(r)]]_vars

\* The credentials of a binding are made of the values the running objects
\* were given, and of the same revision as the addresses beside them, unless
\* the latest revision is one that a failed install or update left behind.
BindMatchesObjects ==
  [][\A r \in Requests : \A v \in Versions :
       Answers(r, "bind", {"201"}) /\ IsLatest(Name(r), v) =>
         \/ LeftByFailure(Name(r), v)
         \/ creds'[r] = [rev |-> v, cfg |-> objects[Name(r)]]]_vars

\* A poll answers "failed" only when an install or an update of the release has
\* ended in error or its workloads are not available, and "succeeded" only for a
\* deployed one.
PollIsTruthful ==
  [][\A r \in Requests : \A v \in Versions :
       /\ Answers(r, "lastop", {"failed"}) /\ IsLatest(Name(r), v) =>
            \/ LeftByFailure(Name(r), v)
            \/ store[Name(r)][v].status = "DEPLOYED" /\ ~ready[Name(r)]
       /\ Answers(r, "lastop", {"succeeded"}) /\ IsLatest(Name(r), v) =>
            store[Name(r)][v].status = "DEPLOYED"]_vars

(***************************************************************************)
(* What documents and comments say and the code does not do; OneCreation,  *)
(* too, once updates can fail in the cluster.                              *)
(***************************************************************************)
\* An update is answered 200 only when its parameters have reached the objects.
UpdateAckApplied ==
  [][\A r \in Requests :
       Answers(r, "update", {"200"}) /\ UserParams(r) # None
         => objects[Name(r)] # None /\ objects[Name(r)].user = UserParams(r)]_vars

\* An update without parameters keeps the values of the running objects, the
\* generated passwords and those of the plan among them, or takes them back to
\* the deployed revision when an update failed before.
ValuesKept ==
  [][\A n \in Names :
       objects[n] # None /\ objects'[n] # None /\ objects'[n] # objects[n] =>
         \/ \E r \in Requests : /\ Open(r) /\ Name(r) = n
                               /\ req[r].kind = "update" /\ UserParams(r) # None
         \/ \E v \in DeployedRevisions(n) : objects'[n] = store[n][v].cfg]_vars

\* A poll answers "succeeded" only when the workloads are available.
SucceededMeansAvailable ==
  [][\A r \in Requests :
       Answers(r, "lastop", {"succeeded"}) => ready[Name(r)]]_vars

(***************************************************************************)
(* Progress.                                                               *)
(***************************************************************************)
\* Every request is answered, with two exceptions, for no timeout is set: one
\* that does not accept incomplete stays open while its workloads are not
\* ready, and any request stays open at a hook of the chart whose job does not
\* end.
WaitsForWorkloads(r) ==
  ~req[r].async /\ pc[r] = "await" /\ op[r].step = "wait" /\ ~ready[Name(r)]

WaitsForHook(r) == pc[r] = "await" /\ AtHook(r)

AnsweredOrWaiting ==
  \A r \in Requests : []<>(Open(r) => WaitsForWorkloads(r) \/ WaitsForHook(r))

=============================================================================

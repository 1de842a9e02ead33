------------------------------- MODULE Tiller -------------------------------
(***************************************************************************)
(* The release server the broker drives (Tiller, Helm v2), as far as helmi *)
(* uses it: InstallRelease, UpdateRelease and UninstallRelease with the    *)
(* options of pkg/helm/options.go, and the reads behind ReleaseStatus,     *)
(* ReleaseContent and ListReleases.                                        *)
(*                                                                         *)
(* Tiller takes no lock per release: every call is a sequence of storage   *)
(* and cluster requests, and the calls of several callers interleave       *)
(* between any two of them.  Each step below is one such request.          *)
(*                                                                         *)
(* The objects of a release are one unit, named after the release, so that *)
(* two revisions of a release manage the same objects.                     *)
(***************************************************************************)
EXTENDS Integers

CONSTANTS Names,       \* release names
          Callers,     \* who may have a call in progress: one call per caller
          Plans,       \* service plans whose chart values end up in a release
          Params,      \* parameters a user may send
          None,        \* no plan, no parameters, no generated values, no objects
          MaxVersion,  \* bound on the revisions of a release name
          KubeFaults   \* which cluster requests may fail: a subset of {"render",
                       \* "create", "update", "delete", "hook"}

Versions == 1..MaxVersion

\* What a release was configured with: who generated its random values (the
\* passwords of the chart-values template), which plan and which parameters.
Config == [gen : Callers \cup {None}, plan : Plans \cup {None}, user : Params \cup {None}]

EmptyConfig == [gen |-> None, plan |-> None, user |-> None]

ASSUME TillerAssumption == /\ MaxVersion \in Nat
                           /\ None \notin Config
                           /\ None \notin Callers
                           /\ None \notin Plans
                           /\ None \notin Params

Statuses == {"PENDING_INSTALL", "PENDING_UPGRADE", "DEPLOYED", "SUPERSEDED",
             "FAILED", "DELETING"}

NoRecord == [status |-> "ABSENT", cfg |-> EmptyConfig]

Records == [status : Statuses, cfg : Config] \cup {NoRecord}

OpKinds == {"install", "update", "uninstall"}

OpSteps == {"prepare", "history", "last", "supersede", "record", "apply", "wait",
            "recordOld", "recordFailed", "finish", "deleting", "remove", "removed",
            "purge", "replied"}

NoOp == [kind |-> "none", step |-> "idle"]

Calls == [kind : OpKinds, name : Names, wait : BOOLEAN, cfg : Config, step : OpSteps,
          ver : 0..MaxVersion, old : 0..MaxVersion, ocfg : Config,
          seen : SUBSET Versions, ok : BOOLEAN]

Ops == Calls \cup {NoOp}

VARIABLES store,    \* the ConfigMaps: a record, or NoRecord, per name and revision
          objects,  \* the cluster objects of a release name: their values, or None
          ready,    \* whether those objects have all their replicas available
          op        \* the call each caller has in progress, and the last one it had

tillerVars == <<store, objects, ready, op>>

TillerTypeOK ==
  /\ store \in [Names -> [Versions -> Records]]
  /\ objects \in [Names -> Config \cup {None}]
  /\ ready \in [Names -> BOOLEAN]
  /\ op \in [Callers -> Ops]

Has(n, v) == store[n][v].status # "ABSENT"

Revisions(n) == {v \in Versions : Has(n, v)}

IsLatest(n, v) == v \in Revisions(n) /\ \A w \in Revisions(n) : w <= v

DeployedRevisions(n) == {v \in Versions : store[n][v].status = "DEPLOYED"}

\* What ListReleases returns for the statuses of listOpts: every revision but
\* the superseded ones.
ListedRevisions(n) == {v \in Revisions(n) : store[n][v].status # "SUPERSEDED"}

Running(c) == op[c].step \notin {"idle", "replied"}

\* Storage.Create and Storage.Update: the first needs a free key, the second a
\* used one; recordRelease only logs when that fails.
Created(n, v, rec) == IF Has(n, v) THEN store ELSE [store EXCEPT ![n][v] = rec]

Updated(n, v, rec) == IF Has(n, v) THEN [store EXCEPT ![n][v] = rec] ELSE store

Call(kind, n, wait, cfg) ==
  [kind |-> kind, name |-> n, wait |-> wait, cfg |-> cfg, step |-> "prepare",
   ver |-> 0, old |-> 0, ocfg |-> EmptyConfig, seen |-> {}, ok |-> FALSE]

TillerInit ==
  /\ store = [n \in Names |-> [v \in Versions |-> NoRecord]]
  /\ objects = [n \in Names |-> None]
  /\ ready = [n \in Names |-> FALSE]
  /\ op = [c \in Callers |-> NoOp]

-----------------------------------------------------------------------------
At(c, kind, step) == op[c].kind = kind /\ op[c].step = step

Goto(c, step) == op' = [op EXCEPT ![c].step = step]

\* Nothing of a call is left but its kind, its name and how it ended.
Ended(o, ok) ==
  [o EXCEPT !.step = "replied", !.ok = ok, !.wait = FALSE, !.cfg = EmptyConfig,
            !.ver = 0, !.old = 0, !.ocfg = EmptyConfig, !.seen = {}]

Reply(c, ok) == op' = [op EXCEPT ![c] = Ended(op[c], ok)]

AfterWait(c) == IF op[c].kind = "install" THEN "finish" ELSE "supersede"

AfterApply(c) == IF op[c].wait THEN "wait" ELSE AfterWait(c)

\* An error is recorded in the revision that was being replaced, if there is
\* one, and then in the new one.
OnError(c) == IF op[c].old = 0 THEN "recordFailed" ELSE "recordOld"

\* The cluster brings the objects of n to the values of c; workloads whose
\* values change are restarted.
Applied(c, n) ==
  /\ objects' = [objects EXCEPT ![n] = op[c].cfg]
  /\ ready' = [ready EXCEPT ![n] = @ /\ objects[n] = op[c].cfg]

\* helmi leaves the hooks of a chart enabled: Tiller runs them before and after
\* the work of each call.  A hook fails when its objects cannot be created or
\* its job does not succeed; options.go sets no timeout, so that the call waits
\* as long as the job runs.
HookFails == "hook" \in KubeFaults

AtHook(c) == HookFails /\ \/ At(c, "install", "history")   \* pre-install
                          \/ At(c, "install", "finish")    \* post-install
                          \/ At(c, "update", "apply")      \* pre-upgrade
                          \/ At(c, "update", "supersede")  \* post-upgrade
                          \/ At(c, "uninstall", "deleting") \* pre-delete
                          \/ At(c, "uninstall", "removed") \* post-delete

(***************************************************************************)
(* InstallRelease                                                          *)
(***************************************************************************)
\* Mutant of InUse: a deployed latest revision does not keep the name either.
InUseUnlessDeployed(n) ==
  \E v \in Versions : IsLatest(n, v) /\ store[n][v].status \notin {"FAILED", "DEPLOYED"}

\* uniqName: with ReuseName, a name is free when it has no history or its
\* latest revision failed.  (DELETED is never stored: deleteOpts purges.)
InUse(n) == \E v \in Versions : IsLatest(n, v) /\ store[n][v].status # "FAILED"

PrepareInstall(c) ==
  /\ At(c, "install", "prepare")
  /\ \/ InUse(op[c].name) /\ Reply(c, FALSE)
     \/ ~InUse(op[c].name) /\ Goto(c, "history")
     \/ ~InUse(op[c].name) /\ "render" \in KubeFaults /\ Reply(c, FALSE)
  /\ UNCHANGED <<store, objects, ready>>

\* performRelease looks the history up again, after the pre-install hooks: any
\* record left there, of whatever status, makes this a replacement.
InstallHistory(c) ==
  LET n == op[c].name IN
  /\ At(c, "install", "history")
  /\ \/ /\ Revisions(n) = {} /\ MaxVersion > 0
        /\ op' = [op EXCEPT ![c].step = "record", ![c].ver = 1, ![c].old = 0]
     \/ \E v \in Versions :
          /\ IsLatest(n, v) /\ v < MaxVersion
          /\ op' = [op EXCEPT ![c].step = "supersede", ![c].ver = v + 1, ![c].old = v,
                              ![c].ocfg = store[n][v].cfg]
     \/ HookFails /\ Reply(c, FALSE)
  /\ UNCHANGED <<store, objects, ready>>

InstallSupersede(c) ==
  /\ At(c, "install", "supersede")
  /\ store' = Updated(op[c].name, op[c].old, [status |-> "SUPERSEDED", cfg |-> op[c].ocfg])
  /\ Goto(c, "record")
  /\ UNCHANGED <<objects, ready>>

InstallRecord(c) ==
  /\ At(c, "install", "record")
  /\ store' = Created(op[c].name, op[c].ver, [status |-> "PENDING_INSTALL", cfg |-> op[c].cfg])
  /\ Goto(c, "apply")
  /\ UNCHANGED <<objects, ready>>

\* Create needs every object to be new, Update (the replacement) creates or
\* patches; a request that fails midway may have been applied or not.
InstallApply(c) ==
  LET n == op[c].name
      clash == op[c].old = 0 /\ objects[n] # None
      fault == IF op[c].old = 0 THEN "create" ELSE "update" IN
  /\ At(c, "install", "apply")
  /\ \/ ~clash /\ Applied(c, n) /\ Goto(c, AfterApply(c))
     \/ ~clash /\ fault \in KubeFaults /\ Applied(c, n) /\ Goto(c, OnError(c))
     \/ /\ clash \/ fault \in KubeFaults
        /\ Goto(c, OnError(c))
        /\ UNCHANGED <<objects, ready>>
  /\ UNCHANGED store

\* waitForResources polls the objects it created, with no time limit
\* (installOpts and updateOpts set none), and fails when they are gone.
WaitForResources(c) ==
  LET n == op[c].name IN
  /\ op[c].step = "wait"
  /\ \/ ready[n] /\ Goto(c, AfterWait(c))
     \/ objects[n] = None /\ Goto(c, OnError(c))
  /\ UNCHANGED <<store, objects, ready>>

InstallRecordOld(c) ==
  /\ At(c, "install", "recordOld")
  /\ store' = Updated(op[c].name, op[c].old, [status |-> "SUPERSEDED", cfg |-> op[c].ocfg])
  /\ Goto(c, "recordFailed")
  /\ UNCHANGED <<objects, ready>>

\* Mutant of InstallFailed: the failed revision is dropped instead of recorded.
InstallForgotten(c) ==
  /\ At(c, "install", "recordFailed")
  /\ store' = [store EXCEPT ![op[c].name] =
                 [v \in Versions |-> IF v = op[c].ver THEN NoRecord ELSE @[v]]]
  /\ Reply(c, FALSE)
  /\ UNCHANGED <<objects, ready>>

InstallFailed(c) ==
  /\ At(c, "install", "recordFailed")
  /\ store' = Updated(op[c].name, op[c].ver, [status |-> "FAILED", cfg |-> op[c].cfg])
  /\ Reply(c, FALSE)
  /\ UNCHANGED <<objects, ready>>

\* The record may have been purged meanwhile: that is only logged.
InstallDone(c) ==
  /\ At(c, "install", "finish")
  /\ \/ /\ store' = Updated(op[c].name, op[c].ver, [status |-> "DEPLOYED", cfg |-> op[c].cfg])
        /\ Reply(c, TRUE)
     \/ HookFails /\ Goto(c, "recordFailed") /\ UNCHANGED store
  /\ UNCHANGED <<objects, ready>>

\* Mutant of ReuseValues: the values of the request, whatever was there.
ReuseNothing(sent, current) == sent

(***************************************************************************)
(* UpdateRelease                                                           *)
(***************************************************************************)
\* reuseValues: no values sent means the values of the deployed revision; any
\* value sent replaces all of them.
ReuseValues(sent, current) == IF sent = EmptyConfig THEN current ELSE sent

PrepareUpdate(c) ==
  LET n == op[c].name IN
  /\ At(c, "update", "prepare")
  /\ \/ DeployedRevisions(n) = {} /\ Reply(c, FALSE)
     \/ \E d \in DeployedRevisions(n) :
          op' = [op EXCEPT ![c].step = "last", ![c].old = d, ![c].ocfg = store[n][d].cfg,
                           ![c].cfg = ReuseValues(op[c].cfg, store[n][d].cfg)]
  /\ UNCHANGED <<store, objects, ready>>

\* prepareUpdate reads the last revision apart from the deployed one: another
\* update may have come in between.
UpdateRevision(c) ==
  LET n == op[c].name IN
  /\ At(c, "update", "last")
  /\ \/ Revisions(n) = {} /\ Reply(c, FALSE)
     \/ "render" \in KubeFaults /\ Reply(c, FALSE)
     \/ \E v \in Versions :
          /\ IsLatest(n, v) /\ v < MaxVersion
          /\ op' = [op EXCEPT ![c].step = "record", ![c].ver = v + 1]
  /\ UNCHANGED <<store, objects, ready>>

UpdateRecord(c) ==
  LET n == op[c].name IN
  /\ At(c, "update", "record")
  /\ \/ Has(n, op[c].ver) /\ Reply(c, FALSE) /\ UNCHANGED store
     \/ /\ ~Has(n, op[c].ver)
        /\ store' = Created(n, op[c].ver, [status |-> "PENDING_UPGRADE", cfg |-> op[c].cfg])
        /\ Goto(c, "apply")
  /\ UNCHANGED <<objects, ready>>

\* A hook that fails, before or after, ends the call where it is: the pending
\* revision stays the latest one, beside the deployed one.
UpdateApply(c) ==
  LET n == op[c].name IN
  /\ At(c, "update", "apply")
  /\ \/ Applied(c, n) /\ Goto(c, AfterApply(c))
     \/ HookFails /\ Reply(c, FALSE) /\ UNCHANGED <<objects, ready>>
     \/ "update" \in KubeFaults /\ Applied(c, n) /\ Goto(c, OnError(c))
     \/ "update" \in KubeFaults /\ Goto(c, OnError(c)) /\ UNCHANGED <<objects, ready>>
  /\ UNCHANGED store

\* Mutant of UpdateRecordOld: the original revision is superseded all the same.
UpdateSupersedesOld(c) ==
  /\ At(c, "update", "recordOld")
  /\ store' = Updated(op[c].name, op[c].old, [status |-> "SUPERSEDED", cfg |-> op[c].ocfg])
  /\ Goto(c, "recordFailed")
  /\ UNCHANGED <<objects, ready>>

\* The original revision is written back as it was read: deployed.
UpdateRecordOld(c) ==
  /\ At(c, "update", "recordOld")
  /\ store' = Updated(op[c].name, op[c].old, [status |-> "DEPLOYED", cfg |-> op[c].ocfg])
  /\ Goto(c, "recordFailed")
  /\ UNCHANGED <<objects, ready>>

UpdateFailed(c) ==
  /\ At(c, "update", "recordFailed")
  /\ store' = Updated(op[c].name, op[c].ver, [status |-> "FAILED", cfg |-> op[c].cfg])
  /\ Reply(c, FALSE)
  /\ UNCHANGED <<objects, ready>>

\* Mutant of UpdateSupersede: the original revision stays deployed.
UpdateKeepsOriginal(c) ==
  /\ At(c, "update", "supersede")
  /\ Goto(c, "finish")
  /\ UNCHANGED <<store, objects, ready>>

UpdateSupersede(c) ==
  /\ At(c, "update", "supersede")
  /\ \/ /\ store' = Updated(op[c].name, op[c].old, [status |-> "SUPERSEDED", cfg |-> op[c].ocfg])
        /\ Goto(c, "finish")
     \/ HookFails /\ Reply(c, FALSE) /\ UNCHANGED store
  /\ UNCHANGED <<objects, ready>>

\* Unlike an install, an update whose record is gone is an error.
UpdateDone(c) ==
  /\ At(c, "update", "finish")
  /\ store' = Updated(op[c].name, op[c].ver, [status |-> "DEPLOYED", cfg |-> op[c].cfg])
  /\ Reply(c, Has(op[c].name, op[c].ver))
  /\ UNCHANGED <<objects, ready>>

(***************************************************************************)
(* UninstallRelease, with Purge                                            *)
(***************************************************************************)
UninstallHistory(c) ==
  LET n == op[c].name IN
  /\ At(c, "uninstall", "prepare")
  /\ \/ Revisions(n) = {} /\ Reply(c, FALSE)
     \/ \E v \in Versions :
          /\ IsLatest(n, v)
          /\ op' = [op EXCEPT ![c].step = "deleting", ![c].ver = v,
                              ![c].ocfg = store[n][v].cfg, ![c].seen = Revisions(n)]
  /\ UNCHANGED <<store, objects, ready>>

\* A failing pre-delete hook comes before DELETING is stored.
UninstallDeleting(c) ==
  /\ At(c, "uninstall", "deleting")
  /\ \/ /\ store' = Updated(op[c].name, op[c].ver, [status |-> "DELETING", cfg |-> op[c].ocfg])
        /\ Goto(c, "remove")
     \/ HookFails /\ Reply(c, FALSE) /\ UNCHANGED store
  /\ UNCHANGED <<objects, ready>>

\* Mutant of UninstallRemove: the objects are left where they are.
UninstallRecordsOnly(c) ==
  /\ At(c, "uninstall", "remove")
  /\ Goto(c, "removed")
  /\ UNCHANGED <<store, objects, ready>>

\* The errors of the deletions are collected, and dropped when purging.
UninstallRemove(c) ==
  LET n == op[c].name IN
  /\ At(c, "uninstall", "remove")
  /\ \/ /\ objects' = [objects EXCEPT ![n] = None]
        /\ ready' = [ready EXCEPT ![n] = FALSE]
     \/ "delete" \in KubeFaults /\ UNCHANGED <<objects, ready>>
  /\ Goto(c, "removed")
  /\ UNCHANGED store

\* So is the error of a post-delete hook.
UninstallHooked(c) ==
  /\ At(c, "uninstall", "removed")
  /\ Goto(c, "purge")
  /\ UNCHANGED <<store, objects, ready>>

\* purgeReleases removes the revisions it read, oldest first, one request
\* each, and stops at the first one that is gone.
UninstallPurge(c) ==
  LET n == op[c].name IN
  /\ At(c, "uninstall", "purge")
  /\ \E v \in op[c].seen :
       /\ \A w \in op[c].seen : v <= w
       /\ \/ /\ Has(n, v)
             /\ store' = [store EXCEPT ![n][v] = NoRecord]
             /\ IF op[c].seen = {v} THEN Reply(c, TRUE)
                ELSE op' = [op EXCEPT ![c].seen = @ \ {v}]
          \/ ~Has(n, v) /\ Reply(c, FALSE) /\ UNCHANGED store
  /\ UNCHANGED <<objects, ready>>

-----------------------------------------------------------------------------
(***************************************************************************)
(* The cluster, and a restart of the Tiller pod: the calls in progress are *)
(* gone and their callers see a broken connection; storage and objects     *)
(* stay as they are.                                                       *)
(***************************************************************************)
BecomeReady(n) ==
  /\ objects[n] # None /\ ~ready[n]
  /\ ready' = [ready EXCEPT ![n] = TRUE]
  /\ UNCHANGED <<store, objects, op>>

TillerRestart ==
  /\ \E c \in Callers : Running(c)
  /\ op' = [c \in Callers |-> IF Running(c) THEN Ended(op[c], FALSE) ELSE op[c]]
  /\ UNCHANGED <<store, objects, ready>>

InstallStep(c) ==
  \/ PrepareInstall(c) \/ InstallHistory(c) \/ InstallSupersede(c) \/ InstallRecord(c)
  \/ InstallApply(c) \/ InstallRecordOld(c) \/ InstallFailed(c) \/ InstallDone(c)

UpdateStep(c) ==
  \/ PrepareUpdate(c) \/ UpdateRevision(c) \/ UpdateRecord(c) \/ UpdateApply(c)
  \/ UpdateRecordOld(c) \/ UpdateFailed(c) \/ UpdateSupersede(c) \/ UpdateDone(c)

UninstallStep(c) ==
  \/ UninstallHistory(c) \/ UninstallDeleting(c) \/ UninstallRemove(c) \/ UninstallHooked(c)
  \/ UninstallPurge(c)

TillerStep(c) == InstallStep(c) \/ UpdateStep(c) \/ UninstallStep(c) \/ WaitForResources(c)
=============================================================================

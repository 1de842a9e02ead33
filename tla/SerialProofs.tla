---------------------------- MODULE SerialProofs ----------------------------
(***************************************************************************)
(* Instances in serial use: one creation, one deployed revision, an        *)
(* upgradable release, nothing left behind.  For any number of requests    *)
(* and instances, provided each has a release name of its own, requests    *)
(* for one come one at a time, and calls come back (SerialUse).            *)
(***************************************************************************)
EXTENDS HelmBrokerProofs, FiniteSetTheorems

-----------------------------------------------------------------------------
(***************************************************************************)
(* Writing a record.                                                       *)
(***************************************************************************)
\* Revision v of n becomes rec, and nothing else changes.
Writes(n, v, rec) ==
  /\ \A w \in Versions : store'[n][w] = IF w = v THEN rec ELSE store[n][w]
  /\ \A m \in Names \ {n} : store'[m] = store[m]

LEMMA ExceptWrites ==
  ASSUME TypeOK, NEW n \in Names, NEW v \in Versions, NEW rec,
         store' = [store EXCEPT ![n][v] = rec]
  PROVE  Writes(n, v, rec)
  BY DEF TypeOK, TillerTypeOK, Writes

LEMMA UpdatedWrites ==
  ASSUME TypeOK, NEW n \in Names, NEW v \in Revisions(n), NEW rec, store' = Updated(n, v, rec)
  PROVE  Writes(n, v, rec)
<1>1. v \in Versions /\ store' = [store EXCEPT ![n][v] = rec]
  BY DEF Revisions, Updated
<1> QED
  BY <1>1, ExceptWrites

LEMMA CreatedWrites ==
  ASSUME TypeOK, NEW n \in Names, NEW v \in Versions, v \notin Revisions(n), NEW rec,
         store' = Created(n, v, rec)
  PROVE  Writes(n, v, rec)
<1>1. store' = [store EXCEPT ![n][v] = rec]
  BY DEF Revisions, Created
<1> QED
  BY <1>1, ExceptWrites

LEMMA WrittenSets ==
  ASSUME NEW n \in Names, NEW v \in Versions, NEW rec, Writes(n, v, rec)
  PROVE  /\ rec.status # "ABSENT" => Revisions(n)' = Revisions(n) \cup {v}
         /\ rec.status = "ABSENT" => Revisions(n)' = Revisions(n) \ {v}
         /\ rec.status = "DEPLOYED" => DeployedRevisions(n)' = DeployedRevisions(n) \cup {v}
         /\ rec.status # "DEPLOYED" => DeployedRevisions(n)' = DeployedRevisions(n) \ {v}
  BY DEF Writes, Revisions, DeployedRevisions, Has

LEMMA DeployedAreRevisions ==
  ASSUME NEW n
  PROVE  DeployedRevisions(n) \subseteq Revisions(n) /\ Revisions(n) \subseteq Versions
  BY DEF DeployedRevisions, Revisions, Has

LEMMA SameSets ==
  ASSUME NEW n, store'[n] = store[n]
  PROVE  Revisions(n)' = Revisions(n) /\ DeployedRevisions(n)' = DeployedRevisions(n)
  BY DEF DeployedRevisions, Revisions, Has

-----------------------------------------------------------------------------
(***************************************************************************)
(* A call stays with its own release name.                                 *)
(***************************************************************************)
LEMMA OtherNamesKept ==
  ASSUME TypeOK, NEW n, NEW v, NEW rec, NEW m \in Names \ {n}
  PROVE  /\ [store EXCEPT ![n][v] = rec][m] = store[m]
         /\ Updated(n, v, rec)[m] = store[m]
         /\ Created(n, v, rec)[m] = store[m]
<1>1. [store EXCEPT ![n][v] = rec][m] = store[m]
  BY DEF TypeOK, TillerTypeOK
<1> QED
  BY <1>1 DEF Updated, Created

LEMMA OwnName ==
  ASSUME TypeOK, NEW c \in Callers, TillerStep(c), NEW m \in Names \ {op[c].name}
  PROVE  store'[m] = store[m] /\ objects'[m] = objects[m]
<1> DEFINE n == op[c].name
           Rec(st, cfg) == [status |-> st, cfg |-> cfg]
           StoreKept == store'[m] = store[m]
           ObjectsKept == objects'[m] = objects[m]
<1>1. ASSUME NEW v, NEW st, NEW cfg,
             store' = Updated(n, v, Rec(st, cfg)) \/ store' = Created(n, v, Rec(st, cfg))
      PROVE  StoreKept
  BY <1>1, OtherNamesKept
<1>2. UNCHANGED store => StoreKept
  OBVIOUS
<1>3. UninstallPurge(c) => StoreKept
  <2> SUFFICES ASSUME UninstallPurge(c) PROVE StoreKept
    OBVIOUS
  <2>1. PICK v : store' = store \/ store' = [store EXCEPT ![n][v] = NoRecord]
    BY DEF UninstallPurge
  <2> QED
    BY <2>1 DEF TypeOK, TillerTypeOK
<1>4. Applied(c, n) => ObjectsKept
  BY DEF Applied, TypeOK, TillerTypeOK
<1>5. UninstallRemove(c) => ObjectsKept
  BY DEF UninstallRemove, TypeOK, TillerTypeOK
<1>6. UNCHANGED objects => ObjectsKept
  OBVIOUS
<1> HIDE DEF StoreKept, ObjectsKept
<1>7. CASE InstallStep(c) \/ WaitForResources(c)
  BY <1>1, <1>2, <1>4, <1>6, <1>7
  DEF InstallStep, PrepareInstall, InstallHistory, InstallSupersede, InstallRecord,
      InstallApply, InstallRecordOld, InstallFailed, InstallDone, WaitForResources,
      StoreKept, ObjectsKept
<1>8. CASE UpdateStep(c)
  BY <1>1, <1>2, <1>4, <1>6, <1>8
  DEF UpdateStep, PrepareUpdate, UpdateRevision, UpdateRecord, UpdateApply,
      UpdateRecordOld, UpdateFailed, UpdateSupersede, UpdateDone, StoreKept, ObjectsKept
<1>9. CASE UninstallStep(c)
  <2>1. StoreKept
    BY <1>1, <1>2, <1>3, <1>9
    DEF UninstallStep, UninstallHistory, UninstallDeleting, UninstallRemove, UninstallHooked
  <2>2. ObjectsKept
    BY <1>5, <1>6, <1>9
    DEF UninstallStep, UninstallHistory, UninstallDeleting, UninstallHooked, UninstallPurge
  <2> QED
    BY <2>1, <2>2 DEF StoreKept, ObjectsKept
<1> QED
  BY <1>7, <1>8, <1>9 DEF TillerStep

\* Two requests that are open, or two calls that run, under one name are one.
LEMMA OpenAlone ==
  ASSUME SerialUse, IInv, OneAtATime, NEW r \in Requests, NEW q \in Requests,
         Open(r), Open(q), req[r].kind # "none", req[q].kind # "none", Name(r) = Name(q)
  PROVE  r = q
<1>1. req[r].inst \in Instances /\ req[q].inst \in Instances
  BY NameType DEF IInv, RequestShapes
<1>2. req[r].inst = req[q].inst
  BY <1>1 DEF SerialUse, Name
<1> QED
  BY <1>2 DEF OneAtATime

LEMMA RunningCall ==
  ASSUME IInv, OneAtATime, NEW c \in Callers, Running(c)
  PROVE  /\ op[c] \in Calls /\ op[c].name \in Names /\ op[c].kind # "none"
         /\ op[c].name = Name(c) /\ req[c].kind # "none" /\ Open(c) /\ pc[c] = "await"
<1>1. op[c] \in Calls
  BY NoOpFact DEF IInv, TypeOK, TillerTypeOK, Ops, Running
<1>2. op[c].kind # "none" /\ op[c].name \in Names
  BY <1>1 DEF Calls, OpKinds
<1> QED
  BY <1>1, <1>2 DEF IInv, CallMatchesRequest, Matches, OneAtATime, Open, Requests

LEMMA RunsAlone ==
  ASSUME SerialUse, IInv, OneAtATime, NEW c \in Callers, NEW d \in Callers,
         Running(c), Running(d), op[c].name = op[d].name
  PROVE  c = d
  BY RunningCall, OpenAlone DEF Requests

LEMMA StepRuns ==
  ASSUME TypeOK, NEW c \in Callers, TillerStep(c)
  PROVE  Running(c) /\ op[c].kind \in OpKinds
<1>1. op[c] \in Calls /\ op[c].step # "replied"
  BY OneCall
<1> QED
  BY <1>1 DEF Running, Calls, OpSteps

-----------------------------------------------------------------------------
(***************************************************************************)
(* The steps of a call that is alone with its release.                     *)
(***************************************************************************)
LEMMA GotoFields ==
  ASSUME TypeOK, NEW c \in Callers, op[c] \in Calls, NEW s, Goto(c, s)
  PROVE  /\ op'[c].step = s /\ op'[c].kind = op[c].kind /\ op'[c].name = op[c].name
         /\ op'[c].ver = op[c].ver /\ op'[c].old = op[c].old /\ op'[c].seen = op[c].seen
         /\ op'[c].cfg = op[c].cfg /\ op'[c].ocfg = op[c].ocfg /\ op'[c].wait = op[c].wait
  BY DEF TypeOK, TillerTypeOK, Goto, Calls

LEMMA ReplyFields ==
  ASSUME TypeOK, NEW c \in Callers, op[c] \in Calls, NEW ok \in BOOLEAN, Reply(c, ok)
  PROVE  /\ op'[c].step = "replied" /\ op'[c].ok = ok
         /\ op'[c].kind = op[c].kind /\ op'[c].name = op[c].name
  BY EndedType DEF TypeOK, TillerTypeOK, Reply

LEMMA LatestIsRevision ==
  ASSUME NEW n, NEW v, IsLatest(n, v)
  PROVE  v \in Revisions(n)
  BY DEF IsLatest

\* The steps there are for each kind of call.
LEMMA InstallSteps ==
  ASSUME NEW c \in Callers, TillerStep(c), op[c].kind = "install", InstallAlone(c)
  PROVE  \/ PrepareInstall(c) \/ InstallHistory(c) \/ InstallRecord(c) \/ InstallApply(c)
         \/ WaitForResources(c) \/ InstallFailed(c) \/ InstallDone(c)
<1>1. op[c].step \notin {"supersede", "recordOld"}
  BY DEF InstallAlone
<1> QED
  BY <1>1 DEF TillerStep, InstallStep, PrepareInstall, InstallHistory, InstallSupersede, InstallRecord,
     InstallApply, InstallRecordOld, InstallFailed, InstallDone, UpdateStep, PrepareUpdate,
     UpdateRevision, UpdateRecord, UpdateApply, UpdateRecordOld, UpdateFailed, UpdateSupersede,
     UpdateDone, UninstallStep, UninstallHistory, UninstallDeleting, UninstallRemove, UninstallHooked,
     UninstallPurge, WaitForResources, At

LEMMA UpdateSteps ==
  ASSUME NEW c \in Callers, TillerStep(c), op[c].kind = "update"
  PROVE  \/ PrepareUpdate(c) \/ UpdateRevision(c) \/ UpdateRecord(c) \/ UpdateApply(c)
         \/ WaitForResources(c) \/ UpdateRecordOld(c) \/ UpdateFailed(c) \/ UpdateSupersede(c)
         \/ UpdateDone(c)
  BY DEF TillerStep, InstallStep, PrepareInstall, InstallHistory, InstallSupersede, InstallRecord,
     InstallApply, InstallRecordOld, InstallFailed, InstallDone, UpdateStep, PrepareUpdate,
     UpdateRevision, UpdateRecord, UpdateApply, UpdateRecordOld, UpdateFailed, UpdateSupersede,
     UpdateDone, UninstallStep, UninstallHistory, UninstallDeleting, UninstallRemove, UninstallHooked,
     UninstallPurge, WaitForResources, At

LEMMA UninstallSteps ==
  ASSUME NEW c \in Callers, TillerStep(c), op[c].kind = "uninstall", UninstallAlone(c)
  PROVE  \/ UninstallHistory(c) \/ UninstallDeleting(c) \/ UninstallRemove(c)
         \/ UninstallHooked(c) \/ UninstallPurge(c)
<1>1. op[c].step # "wait"
  BY DEF UninstallAlone
<1> QED
  BY <1>1 DEF TillerStep, InstallStep, PrepareInstall, InstallHistory, InstallSupersede, InstallRecord,
     InstallApply, InstallRecordOld, InstallFailed, InstallDone, UpdateStep, PrepareUpdate,
     UpdateRevision, UpdateRecord, UpdateApply, UpdateRecordOld, UpdateFailed, UpdateSupersede,
     UpdateDone, UninstallStep, UninstallHistory, UninstallDeleting, UninstallRemove, UninstallHooked,
     UninstallPurge, WaitForResources, At

LEMMA OwnInstall ==
  ASSUME TypeOK, NEW c \in Callers, TillerStep(c), op[c].kind = "install", InstallAlone(c),
         NEW n, n = op[c].name, InOrder(n)
  PROVE  /\ InstallAlone(c)' /\ DeployedRevisions(n) = {}
         /\ \A v, w \in DeployedRevisions(n)' : v = w
         /\ Revisions(n)' = {} => objects'[n] = None
         /\ Installed(c, n)' => DeployedRevisions(n)' # {}
<1> DEFINE After(step) == /\ op'[c].step = step /\ op'[c].kind = "install"
                          /\ op'[c].name = n /\ op'[c].ver = 1 /\ op'[c].old = 0
           Ended2(ok) == /\ op'[c].step = "replied" /\ op'[c].ok = ok
                         /\ op'[c].kind = "install" /\ op'[c].name = n
           Goal == /\ InstallAlone(c)' /\ DeployedRevisions(n) = {}
                   /\ \A v, w \in DeployedRevisions(n)' : v = w
                   /\ Revisions(n)' = {} => objects'[n] = None
                   /\ Installed(c, n)' => DeployedRevisions(n)' # {}
<1>1. op[c] \in Calls /\ n \in Names /\ op[c].step \in OpSteps
  BY OneCall DEF Calls
<1>2. /\ Revisions(n) = {} => objects[n] = None /\ DeployedRevisions(n) = {}
      /\ DeployedRevisions(n) \subseteq Revisions(n)
  BY DeployedAreRevisions DEF InOrder
<1>3. UNCHANGED store => Revisions(n)' = Revisions(n) /\ DeployedRevisions(n)' = DeployedRevisions(n)
  BY SameSets
<1>4. \A s : Goto(c, s) => /\ op'[c].step = s /\ op'[c].kind = "install" /\ op'[c].name = n
                           /\ op'[c].ver = op[c].ver /\ op'[c].old = op[c].old
  BY <1>1, GotoFields
<1>5. \A ok \in BOOLEAN : Reply(c, ok) => Ended2(ok)
  BY <1>1, ReplyFields
<1>6. /\ op[c].step \in {"record", "apply", "wait", "finish", "recordFailed"} =>
           op[c].ver = 1 /\ op[c].old = 0 /\ 1 \in Versions
      /\ op[c].step \in {"apply", "wait", "finish", "recordFailed"} =>
           Revisions(n) = {1} /\ DeployedRevisions(n) = {}
      /\ op[c].step \in {"prepare", "history", "record"} => Revisions(n) = {}
      /\ op[c].step \notin {"supersede", "recordOld"}
  BY DEF InstallAlone
<1>7. CASE PrepareInstall(c)
  <2>1. Revisions(n) = {} /\ UNCHANGED <<store, objects>>
    BY <1>6, <1>7 DEF PrepareInstall, At
  <2>2. /\ op'[c].kind = "install" /\ op'[c].name = n
        /\ op'[c].step = "history" \/ (op'[c].step = "replied" /\ op'[c].ok = FALSE)
    BY <1>4, <1>5, <1>7 DEF PrepareInstall
  <2>3. Revisions(n)' = {} /\ DeployedRevisions(n)' = {} /\ objects'[n] = None
    BY <1>2, <1>3, <2>1
  <2> QED
    BY <1>2, <2>1, <2>2, <2>3 DEF InstallAlone, Installed
<1>8. CASE InstallHistory(c)
  <2>1. Revisions(n) = {} /\ UNCHANGED <<store, objects>>
    BY <1>6, <1>8 DEF InstallHistory, At
  <2>2. \/ MaxVersion > 0 /\ op' = [op EXCEPT ![c].step = "record", ![c].ver = 1, ![c].old = 0]
        \/ Reply(c, FALSE)
    BY <1>8, <2>1, LatestIsRevision DEF InstallHistory
  <2>3. ASSUME MaxVersion > 0,
               op' = [op EXCEPT ![c].step = "record", ![c].ver = 1, ![c].old = 0]
        PROVE  After("record") /\ 1 \in Versions
    BY <1>1, <2>3, TillerAssumption DEF TypeOK, TillerTypeOK, Calls, Versions
  <2>4. (After("record") /\ 1 \in Versions) \/ Ended2(FALSE)
    BY <1>5, <2>2, <2>3
  <2>5. Revisions(n)' = {} /\ DeployedRevisions(n)' = {} /\ objects'[n] = None
    BY <1>2, <1>3, <2>1
  <2> QED
    BY <1>2, <2>1, <2>4, <2>5 DEF InstallAlone, Installed
<1>9. CASE InstallRecord(c)
  <2> DEFINE rec == [status |-> "PENDING_INSTALL", cfg |-> op[c].cfg]
  <2>1. /\ Revisions(n) = {} /\ op[c].ver = 1 /\ op[c].old = 0 /\ 1 \in Versions
        /\ store' = Created(n, 1, rec) /\ Goto(c, "apply")
    BY <1>6, <1>9 DEF InstallRecord, At
  <2>2. Writes(n, 1, rec)
    BY <1>1, <2>1, CreatedWrites
  <2>3. rec.status = "PENDING_INSTALL"
    OBVIOUS
  <2> HIDE DEF rec
  <2>4. Revisions(n)' = {1} /\ DeployedRevisions(n)' = {}
    BY <1>1, <1>2, <2>1, <2>2, <2>3, WrittenSets
  <2>5. After("apply")
    BY <1>4, <2>1
  <2> QED
    BY <1>2, <2>1, <2>4, <2>5 DEF InstallAlone, Installed
<1>10. CASE InstallApply(c) \/ WaitForResources(c)
  <2>1. /\ op[c].step \in {"apply", "wait"} /\ UNCHANGED store
        /\ \E s \in {AfterApply(c), AfterWait(c), OnError(c)} : Goto(c, s)
    BY <1>10 DEF InstallApply, WaitForResources, At
  <2>2. /\ Revisions(n) = {1} /\ DeployedRevisions(n) = {} /\ op[c].ver = 1 /\ op[c].old = 0
        /\ 1 \in Versions
    BY <1>6, <2>1
  <2>3. After("wait") \/ After("finish") \/ After("recordFailed")
    BY <1>4, <2>1, <2>2 DEF AfterApply, AfterWait, OnError
  <2> QED
    BY <1>3, <2>1, <2>2, <2>3 DEF InstallAlone, Installed
<1>11. CASE InstallFailed(c)
  <2> DEFINE rec == [status |-> "FAILED", cfg |-> op[c].cfg]
  <2>1. /\ Revisions(n) = {1} /\ DeployedRevisions(n) = {} /\ 1 \in Versions
        /\ store' = Updated(n, 1, rec) /\ Reply(c, FALSE)
    BY <1>6, <1>11 DEF InstallFailed, At
  <2>2. Writes(n, 1, rec)
    BY <1>1, <2>1, UpdatedWrites
  <2>3. rec.status = "FAILED"
    OBVIOUS
  <2> HIDE DEF rec
  <2>4. Revisions(n)' = {1} /\ DeployedRevisions(n)' = {}
    BY <1>1, <2>1, <2>2, <2>3, WrittenSets
  <2>5. Ended2(FALSE)
    BY <1>5, <2>1
  <2> QED
    BY <2>1, <2>4, <2>5 DEF InstallAlone, Installed
<1>12. CASE InstallDone(c)
  <2> DEFINE rec == [status |-> "DEPLOYED", cfg |-> op[c].cfg]
  <2>1. /\ Revisions(n) = {1} /\ DeployedRevisions(n) = {} /\ 1 \in Versions
        /\ op[c].ver = 1 /\ op[c].old = 0
        /\ \/ store' = Updated(n, 1, rec) /\ Reply(c, TRUE)
           \/ Goto(c, "recordFailed") /\ UNCHANGED store
    BY <1>6, <1>12 DEF InstallDone, At
  <2>2. CASE Goto(c, "recordFailed") /\ UNCHANGED store
    <3>1. After("recordFailed")
      BY <1>4, <2>1, <2>2
    <3> QED
      BY <1>3, <2>1, <2>2, <3>1 DEF InstallAlone, Installed
  <2>3. CASE store' = Updated(n, 1, rec) /\ Reply(c, TRUE)
    <3>1. Writes(n, 1, rec)
      BY <1>1, <2>1, <2>3, UpdatedWrites
    <3>2. rec.status = "DEPLOYED"
      OBVIOUS
    <3> HIDE DEF rec
    <3>3. Revisions(n)' = {1} /\ DeployedRevisions(n)' = {1}
      BY <1>1, <2>1, <3>1, <3>2, WrittenSets
    <3>4. Ended2(TRUE)
      BY <1>5, <2>3
    <3> QED
      BY <2>1, <3>3, <3>4 DEF InstallAlone, Installed
  <2> QED
    BY <2>1, <2>2, <2>3
<1> QED
  BY <1>7, <1>8, <1>9, <1>10, <1>11, <1>12, InstallSteps

\* An update that fails leaves the deployed revision as it was.
LEMMA OwnUpdate ==
  ASSUME TypeOK, NEW c \in Callers, TillerStep(c), op[c].kind = "update", UpdateAlone(c),
         NEW n, n = op[c].name, InOrder(n)
  PROVE  /\ UpdateAlone(c)'
         /\ \A v, w \in DeployedRevisions(n)' : v = w
         /\ Revisions(n)' = {} => objects'[n] = None
         /\ DeployedRevisions(n) # {} \/ op[c].step = "finish" =>
              DeployedRevisions(n)' # {} \/ At(c, "update", "finish")'
<1> DEFINE After(step) == /\ op'[c].step = step /\ op'[c].kind = "update" /\ op'[c].name = n
                          /\ op'[c].ver = op[c].ver /\ op'[c].old = op[c].old
           Replied == op'[c].step = "replied" /\ op'[c].kind = "update" /\ op'[c].name = n
           Goal == /\ UpdateAlone(c)'
                   /\ \A v, w \in DeployedRevisions(n)' : v = w
                   /\ Revisions(n)' = {} => objects'[n] = None
                   /\ DeployedRevisions(n) # {} \/ op[c].step = "finish" =>
                        DeployedRevisions(n)' # {} \/ At(c, "update", "finish")'
<1>1. op[c] \in Calls /\ n \in Names /\ op[c].step \in OpSteps
  BY OneCall DEF Calls
<1>2. /\ Revisions(n) = {} => objects[n] = None
      /\ DeployedRevisions(n) \subseteq Revisions(n) /\ Revisions(n) \subseteq Versions
      /\ \A v, w \in DeployedRevisions(n) : v = w
  BY DeployedAreRevisions DEF InOrder
<1>3. UNCHANGED store => Revisions(n)' = Revisions(n) /\ DeployedRevisions(n)' = DeployedRevisions(n)
  BY SameSets
<1>4. \A s : Goto(c, s) => After(s)
  BY <1>1, GotoFields
<1>5. \A ok \in BOOLEAN : Reply(c, ok) => Replied
  BY <1>1, ReplyFields
<1>6. /\ op[c].step \in {"last", "record", "apply", "wait", "recordOld", "recordFailed", "supersede"} =>
           DeployedRevisions(n) = {op[c].old}
      /\ op[c].step \in {"apply", "wait", "recordOld", "recordFailed", "supersede", "finish"} =>
           op[c].ver \in Revisions(n) /\ op[c].ver # op[c].old
      /\ op[c].step = "record" => op[c].ver \in Versions
      /\ op[c].step = "finish" => DeployedRevisions(n) = {}
  BY DEF UpdateAlone
\* A step that writes nothing and ends the call, or leaves it where the same holds.
<1>7. ASSUME UNCHANGED <<store, objects>>, Replied, op[c].step # "finish"
      PROVE  Goal
  BY <1>2, <1>3, <1>7 DEF UpdateAlone
<1>8. CASE PrepareUpdate(c)
  <2>1. UNCHANGED <<store, objects>> /\ op[c].step = "prepare"
    BY <1>8 DEF PrepareUpdate, At
  <2>2. ASSUME NEW d \in DeployedRevisions(n),
               op' = [op EXCEPT ![c].step = "last", ![c].old = d, ![c].ocfg = store[n][d].cfg,
                                ![c].cfg = ReuseValues(op[c].cfg, store[n][d].cfg)]
        PROVE  Goal
    <3>1. op'[c].step = "last" /\ op'[c].kind = "update" /\ op'[c].name = n /\ op'[c].old = d
      BY <1>1, <2>2 DEF TypeOK, TillerTypeOK, Calls
    <3>2. DeployedRevisions(n) = {d}
      BY <1>2
    <3> QED
      BY <1>2, <1>3, <2>1, <3>1, <3>2 DEF UpdateAlone
  <2> QED
    BY <1>5, <1>7, <1>8, <2>1, <2>2 DEF PrepareUpdate
<1>9. CASE UpdateRevision(c)
  <2>1. UNCHANGED <<store, objects>> /\ op[c].step = "last"
    BY <1>9 DEF UpdateRevision, At
  <2>2. ASSUME NEW v \in Versions, v < MaxVersion,
               op' = [op EXCEPT ![c].step = "record", ![c].ver = v + 1]
        PROVE  Goal
    <3>1. /\ op'[c].step = "record" /\ op'[c].kind = "update" /\ op'[c].name = n
          /\ op'[c].old = op[c].old /\ op'[c].ver = v + 1
      BY <1>1, <2>2 DEF TypeOK, TillerTypeOK, Calls
    <3>2. v + 1 \in Versions
      BY <2>2, TillerAssumption DEF Versions
    <3> QED
      BY <1>2, <1>3, <1>6, <2>1, <3>1, <3>2 DEF UpdateAlone
  <2> QED
    BY <1>5, <1>7, <1>9, <2>1, <2>2 DEF UpdateRevision
<1>10. CASE UpdateRecord(c)
  <2> DEFINE rec == [status |-> "PENDING_UPGRADE", cfg |-> op[c].cfg]
  <2>1. op[c].step = "record" /\ op[c].ver \in Versions /\ UNCHANGED objects
    BY <1>6, <1>10 DEF UpdateRecord, At
  <2>2. ASSUME ~Has(n, op[c].ver), store' = Created(n, op[c].ver, rec), Goto(c, "apply")
        PROVE  Goal
    <3>1. op[c].ver \notin Revisions(n)
      BY <2>2 DEF Revisions
    <3>2. Writes(n, op[c].ver, rec)
      BY <1>1, <2>1, <2>2, <3>1, CreatedWrites
    <3>3. rec.status = "PENDING_UPGRADE"
      OBVIOUS
    <3> HIDE DEF rec
    <3>4. /\ Revisions(n)' = Revisions(n) \cup {op[c].ver}
          /\ DeployedRevisions(n)' = DeployedRevisions(n) \ {op[c].ver}
      BY <1>1, <2>1, <3>2, <3>3, WrittenSets
    <3>5. After("apply") /\ DeployedRevisions(n) = {op[c].old} /\ op[c].ver # op[c].old
      BY <1>2, <1>4, <1>6, <2>1, <2>2, <3>1
    <3> QED
      BY <1>2, <2>1, <3>4, <3>5 DEF UpdateAlone
  <2> QED
    BY <1>5, <1>7, <1>10, <2>1, <2>2 DEF UpdateRecord
<1>11. CASE UpdateApply(c) \/ WaitForResources(c)
  <2>1. /\ op[c].step \in {"apply", "wait"} /\ UNCHANGED store
        /\ \/ \E s \in {AfterApply(c), AfterWait(c), OnError(c)} : Goto(c, s)
           \/ Reply(c, FALSE) /\ UNCHANGED objects
    BY <1>11 DEF UpdateApply, WaitForResources, At
  <2>2. CASE Reply(c, FALSE) /\ UNCHANGED objects
    BY <1>5, <1>7, <2>1, <2>2
  <2>3. CASE \E s \in {AfterApply(c), AfterWait(c), OnError(c)} : Goto(c, s)
    <3>1. After("wait") \/ After("supersede") \/ After("recordOld") \/ After("recordFailed")
      BY <1>4, <2>1, <2>3 DEF AfterApply, AfterWait, OnError
    <3>2. /\ DeployedRevisions(n) = {op[c].old} /\ op[c].ver \in Revisions(n)
          /\ op[c].ver # op[c].old
      BY <1>6, <2>1
    <3> QED
      BY <1>2, <1>3, <2>1, <3>1, <3>2 DEF UpdateAlone
  <2> QED
    BY <2>1, <2>2, <2>3
\* The writes after the objects were brought to the new values, or were not.
<1>12. ASSUME NEW v \in Revisions(n), NEW st, NEW cfg, st \in Statuses,
              store' = Updated(n, v, [status |-> st, cfg |-> cfg])
       PROVE  /\ Revisions(n)' = Revisions(n)
              /\ st = "DEPLOYED" => DeployedRevisions(n)' = DeployedRevisions(n) \cup {v}
              /\ st # "DEPLOYED" => DeployedRevisions(n)' = DeployedRevisions(n) \ {v}
  <2> DEFINE rec == [status |-> st, cfg |-> cfg]
  <2>1. Writes(n, v, rec)
    BY <1>1, <1>12, UpdatedWrites
  <2>2. rec.status = st /\ st # "ABSENT"
    BY <1>12 DEF Statuses
  <2> HIDE DEF rec
  <2>3. v \in Versions /\ Revisions(n) \cup {v} = Revisions(n)
    BY <1>2
  <2>4. Revisions(n)' = Revisions(n) \cup {v}
    BY <1>1, <2>1, <2>2, <2>3, WrittenSets
  <2>5. st = "DEPLOYED" => DeployedRevisions(n)' = DeployedRevisions(n) \cup {v}
    BY <1>1, <2>1, <2>2, <2>3, WrittenSets
  <2>6. st # "DEPLOYED" => DeployedRevisions(n)' = DeployedRevisions(n) \ {v}
    BY <1>1, <2>1, <2>2, <2>3, WrittenSets
  <2> QED
    BY <2>3, <2>4, <2>5, <2>6
<1>13. {"DEPLOYED", "FAILED", "SUPERSEDED"} \subseteq Statuses
  BY DEF Statuses
<1>14. CASE UpdateRecordOld(c)
  <2>1. /\ op[c].step = "recordOld" /\ UNCHANGED objects /\ After("recordFailed")
        /\ store' = Updated(n, op[c].old, [status |-> "DEPLOYED", cfg |-> op[c].ocfg])
    BY <1>4, <1>14 DEF UpdateRecordOld, At
  <2>2. /\ DeployedRevisions(n) = {op[c].old} /\ op[c].ver \in Revisions(n)
        /\ op[c].ver # op[c].old
    BY <1>6, <2>1
  <2>3. Revisions(n)' = Revisions(n) /\ DeployedRevisions(n)' = {op[c].old}
    BY <1>2, <1>12, <1>13, <2>1, <2>2
  <2> QED
    BY <2>1, <2>2, <2>3 DEF UpdateAlone
<1>15. CASE UpdateFailed(c)
  <2>1. /\ op[c].step = "recordFailed" /\ UNCHANGED objects /\ Replied
        /\ store' = Updated(n, op[c].ver, [status |-> "FAILED", cfg |-> op[c].cfg])
    BY <1>5, <1>15 DEF UpdateFailed, At
  <2>2. /\ DeployedRevisions(n) = {op[c].old} /\ op[c].ver \in Revisions(n)
        /\ op[c].ver # op[c].old
    BY <1>6, <2>1
  <2>3. Revisions(n)' = Revisions(n) /\ DeployedRevisions(n)' = {op[c].old}
    BY <1>12, <1>13, <2>1, <2>2
  <2> QED
    BY <2>1, <2>2, <2>3 DEF UpdateAlone
<1>16. CASE UpdateSupersede(c)
  <2>1. op[c].step = "supersede" /\ UNCHANGED objects
    BY <1>16 DEF UpdateSupersede, At
  <2>2. /\ DeployedRevisions(n) = {op[c].old} /\ op[c].ver \in Revisions(n)
        /\ op[c].ver # op[c].old
    BY <1>6, <2>1
  <2>3. CASE Reply(c, FALSE) /\ UNCHANGED store
    BY <1>5, <1>7, <2>1, <2>3
  <2>4. CASE /\ store' = Updated(n, op[c].old, [status |-> "SUPERSEDED", cfg |-> op[c].ocfg])
             /\ Goto(c, "finish")
    <3>1. After("finish")
      BY <1>4, <2>4
    <3>2. Revisions(n)' = Revisions(n) /\ DeployedRevisions(n)' = {}
      BY <1>2, <1>12, <1>13, <2>2, <2>4
    <3> QED
      BY <2>1, <2>2, <3>1, <3>2 DEF UpdateAlone, At
  <2> QED
    BY <1>16, <2>3, <2>4 DEF UpdateSupersede
<1>17. CASE UpdateDone(c)
  <2>1. /\ op[c].step = "finish" /\ UNCHANGED objects
        /\ Reply(c, Has(n, op[c].ver))
        /\ store' = Updated(n, op[c].ver, [status |-> "DEPLOYED", cfg |-> op[c].cfg])
    BY <1>17 DEF UpdateDone, At
  <2>2. DeployedRevisions(n) = {} /\ op[c].ver \in Revisions(n)
    BY <1>6, <2>1
  <2>3. Revisions(n)' = Revisions(n) /\ DeployedRevisions(n)' = {op[c].ver}
    BY <1>12, <1>13, <2>1, <2>2
  <2>4. Replied
    BY <1>5, <2>1 DEF Has
  <2> QED
    BY <2>1, <2>2, <2>3, <2>4 DEF UpdateAlone
<1> QED
  BY <1>8, <1>9, <1>10, <1>11, <1>14, <1>15, <1>16, <1>17, UpdateSteps

\* An uninstall removes every revision, for none is added meanwhile.
LEMMA OwnUninstall ==
  ASSUME SerialUse, TypeOK, NEW c \in Callers, TillerStep(c), op[c].kind = "uninstall",
         UninstallAlone(c), NEW n, n = op[c].name, InOrder(n), UNCHANGED pc
  PROVE  /\ UninstallAlone(c)'
         /\ \A v, w \in DeployedRevisions(n)' : v = w
         /\ Revisions(n)' = {} => objects'[n] = None
<1> DEFINE Replied == op'[c].step = "replied" /\ op'[c].kind = "uninstall" /\ op'[c].name = n
           Goal == /\ UninstallAlone(c)'
                   /\ \A v, w \in DeployedRevisions(n)' : v = w
                   /\ Revisions(n)' = {} => objects'[n] = None
<1>1. op[c] \in Calls /\ n \in Names /\ op[c].step \in OpSteps
  BY OneCall DEF Calls
<1>2. /\ Revisions(n) = {} => objects[n] = None
      /\ DeployedRevisions(n) \subseteq Revisions(n) /\ Revisions(n) \subseteq Versions
      /\ \A v, w \in DeployedRevisions(n) : v = w
  BY DeployedAreRevisions DEF InOrder
<1>3. UNCHANGED store => Revisions(n)' = Revisions(n) /\ DeployedRevisions(n)' = DeployedRevisions(n)
  BY SameSets
<1>4. \A s : Goto(c, s) => /\ op'[c].step = s /\ op'[c].kind = "uninstall" /\ op'[c].name = n
                           /\ op'[c].ver = op[c].ver /\ op'[c].seen = op[c].seen
  BY <1>1, GotoFields
<1>5. \A ok \in BOOLEAN : Reply(c, ok) => Replied /\ op'[c].ok = ok
  BY <1>1, ReplyFields
<1>6. /\ op[c].step \in {"deleting", "remove"} => op[c].seen = Revisions(n) /\ op[c].ver \in op[c].seen
      /\ op[c].step \in {"removed", "purge"} =>
           op[c].seen = Revisions(n) /\ Revisions(n) # {} /\ objects[n] = None
  BY DEF UninstallAlone
<1>7. CASE UninstallHistory(c)
  <2>1. UNCHANGED <<store, objects>>
    BY <1>7 DEF UninstallHistory
  <2>2. ASSUME NEW v \in Versions, IsLatest(n, v),
               op' = [op EXCEPT ![c].step = "deleting", ![c].ver = v,
                                ![c].ocfg = store[n][v].cfg, ![c].seen = Revisions(n)]
        PROVE  Goal
    <3>1. /\ op'[c].step = "deleting" /\ op'[c].kind = "uninstall" /\ op'[c].name = n
          /\ op'[c].ver = v /\ op'[c].seen = Revisions(n)
      BY <1>1, <2>2 DEF TypeOK, TillerTypeOK, Calls
    <3>2. v \in Revisions(n)
      BY <2>2, LatestIsRevision
    <3>3. Revisions(n)' = Revisions(n) /\ DeployedRevisions(n)' = DeployedRevisions(n)
      BY <1>3, <2>1
    <3>4. UninstallAlone(c)'
      BY <3>1, <3>2, <3>3 DEF UninstallAlone
    <3> QED
      BY <1>2, <2>1, <3>3, <3>4
  <2>3. ASSUME Revisions(n) = {}, Replied
        PROVE  Goal
    BY <1>2, <1>3, <2>1, <2>3 DEF UninstallAlone
  <2> QED
    BY <1>5, <1>7, <2>2, <2>3 DEF UninstallHistory
<1>8. CASE UninstallDeleting(c)
  <2> DEFINE rec == [status |-> "DELETING", cfg |-> op[c].ocfg]
  <2>1. /\ op[c].seen = Revisions(n) /\ op[c].ver \in op[c].seen /\ UNCHANGED objects
        /\ \/ store' = Updated(n, op[c].ver, rec) /\ Goto(c, "remove")
           \/ Reply(c, FALSE) /\ UNCHANGED store
    BY <1>6, <1>8 DEF UninstallDeleting, At
  <2>2. CASE Reply(c, FALSE) /\ UNCHANGED store
    BY <1>2, <1>3, <1>5, <2>1, <2>2 DEF UninstallAlone
  <2>3. CASE store' = Updated(n, op[c].ver, rec) /\ Goto(c, "remove")
    <3>1. Writes(n, op[c].ver, rec) /\ op[c].ver \in Versions
      BY <1>1, <1>2, <2>1, <2>3, UpdatedWrites
    <3>2. rec.status = "DELETING"
      OBVIOUS
    <3> HIDE DEF rec
    <3>3. /\ Revisions(n)' = Revisions(n)
          /\ DeployedRevisions(n)' = DeployedRevisions(n) \ {op[c].ver}
      BY <1>1, <2>1, <3>1, <3>2, WrittenSets
    <3>4. /\ op'[c].step = "remove" /\ op'[c].kind = "uninstall" /\ op'[c].name = n
          /\ op'[c].ver = op[c].ver /\ op'[c].seen = op[c].seen
      BY <1>4, <2>3
    <3> QED
      BY <1>2, <2>1, <3>3, <3>4 DEF UninstallAlone
  <2> QED
    BY <2>1, <2>2, <2>3
<1>9. CASE UninstallRemove(c)
  <2>1. /\ op[c].seen = Revisions(n) /\ op[c].ver \in op[c].seen
        /\ UNCHANGED store /\ Goto(c, "removed")
    BY <1>6, <1>9 DEF UninstallRemove, At
  <2>2. objects'[n] = None
    BY <1>1, <1>9 DEF UninstallRemove, SerialUse, TypeOK, TillerTypeOK
  <2>3. /\ op'[c].step = "removed" /\ op'[c].kind = "uninstall" /\ op'[c].name = n
        /\ op'[c].seen = op[c].seen
    BY <1>4, <2>1
  <2> QED
    BY <1>2, <1>3, <2>1, <2>2, <2>3 DEF UninstallAlone
<1>11. CASE UninstallHooked(c)
  <2>1. /\ op[c].seen = Revisions(n) /\ Revisions(n) # {} /\ objects[n] = None
        /\ UNCHANGED <<store, objects>> /\ Goto(c, "purge")
    BY <1>6, <1>11 DEF UninstallHooked, At
  <2>2. /\ op'[c].step = "purge" /\ op'[c].kind = "uninstall" /\ op'[c].name = n
        /\ op'[c].seen = op[c].seen
    BY <1>4, <2>1
  <2> QED
    BY <1>2, <1>3, <2>1, <2>2 DEF UninstallAlone
<1>10. CASE UninstallPurge(c)
  <2>1. op[c].seen = Revisions(n) /\ objects[n] = None /\ UNCHANGED objects
    BY <1>6, <1>10 DEF UninstallPurge, At
  <2>2. PICK v \in Revisions(n) :
          /\ store' = [store EXCEPT ![n][v] = NoRecord]
          /\ IF op[c].seen = {v} THEN Reply(c, TRUE)
             ELSE op' = [op EXCEPT ![c].seen = @ \ {v}]
    BY <1>10, <2>1 DEF UninstallPurge, Revisions
  <2>3. Writes(n, v, NoRecord) /\ v \in Versions
    BY <1>1, <1>2, <2>2, ExceptWrites
  <2>4. NoRecord.status = "ABSENT"
    BY DEF NoRecord
  <2>5. /\ Revisions(n)' = Revisions(n) \ {v}
        /\ DeployedRevisions(n)' = DeployedRevisions(n) \ {v}
    BY <1>1, <2>3, <2>4, WrittenSets
  <2>6. CASE op[c].seen = {v}
    <3>1. Replied
      BY <1>5, <2>2, <2>6
    <3>2. Revisions(n) = {v}
      BY <2>1, <2>6
    <3>3. Revisions(n)' = {} /\ DeployedRevisions(n)' = {}
      BY <1>2, <2>5, <3>2
    <3> QED
      BY <2>1, <3>1, <3>3 DEF UninstallAlone
  <2>7. CASE op[c].seen # {v}
    <3>1. /\ op'[c].step = op[c].step /\ op'[c].kind = "uninstall" /\ op'[c].name = n
          /\ op'[c].seen = op[c].seen \ {v}
      BY <1>1, <2>2, <2>7 DEF TypeOK, TillerTypeOK, Calls
    <3>2. op[c].step = "purge"
      BY <1>10 DEF UninstallPurge, At
    <3> QED
      BY <1>2, <2>1, <2>2, <2>5, <2>7, <3>1, <3>2 DEF UninstallAlone
  <2> QED
    BY <2>6, <2>7
<1> QED
  BY <1>7, <1>8, <1>9, <1>10, <1>11, UninstallSteps

-----------------------------------------------------------------------------
(***************************************************************************)
(* Every step keeps the invariant.                                         *)
(***************************************************************************)
LEMMA OthersAlone ==
  ASSUME SerialUse, SerialOrder, NEW c \in Callers, TillerStep(c), UNCHANGED brokerVars,
         NEW d \in Callers \ {c}
  PROVE  WorksAlone(d)'
<1> DEFINE m == op[d].name
<1>1. TypeOK /\ IInv /\ OneAtATime /\ WorksAlone(d) /\ pc'[d] = pc[d]
  BY DEF SerialOrder, IInv, brokerVars
<1>2. op'[d] = op[d] /\ Running(c)
  BY <1>1, OneCall, StepRuns
<1>3. CASE op[d].kind = "none"
  BY <1>2, <1>3 DEF WorksAlone
<1>4. CASE op[d].kind # "none" /\ m # op[c].name
  <2>1. m \in Names
    BY <1>1, <1>4, CallFact DEF TypeOK, TillerTypeOK, Calls
  <2>2. store'[m] = store[m] /\ objects'[m] = objects[m]
    BY <1>1, <1>4, <2>1, OwnName
  <2>3. Revisions(m)' = Revisions(m) /\ DeployedRevisions(m)' = DeployedRevisions(m)
    BY <1>2, <2>2 DEF Revisions, DeployedRevisions, Has
  <2> QED
    BY <1>1, <1>2, <2>2, <2>3 DEF WorksAlone, InstallAlone, UpdateAlone, UninstallAlone
<1>5. CASE op[d].kind # "none" /\ m = op[c].name
  <2>1. ~Running(d)
    BY <1>1, <1>2, <1>5, RunsAlone
  <2>2. pc[d] # "await"
    <3> SUFFICES ASSUME pc[d] = "await" PROVE FALSE
      OBVIOUS
    <3>1. Open(d) /\ req[d].kind # "none" /\ Name(d) = m
      BY <1>1, <1>5 DEF Open, IInv, CallMatchesRequest, Matches, Requests
    <3>2. Open(c) /\ req[c].kind # "none" /\ Name(c) = m
      BY <1>1, <1>2, <1>5, RunningCall
    <3> QED
      BY <1>1, <3>1, <3>2, OpenAlone DEF Requests
  <2>3. op[d].step \in {"idle", "replied"}
    BY <2>1 DEF Running
  <2> QED
    BY <1>1, <1>2, <2>2, <2>3 DEF WorksAlone, InstallAlone, UpdateAlone, UninstallAlone
<1> QED
  BY <1>3, <1>4, <1>5

LEMMA OthersInOrder ==
  ASSUME SerialUse, SerialOrder, [Next]_vars, NEW c \in Callers, TillerStep(c),
         NEW m \in Names \ {op[c].name}
  PROVE  InOrder(m)'
<1>1. TypeOK /\ CallMatchesRequest /\ InOrder(m)
  BY DEF SerialOrder, IInv
<1>2. /\ \A d \in Callers \ {c} : op'[d] = op[d]
      /\ op'[c].name = op[c].name
  BY <1>1, OneCall
<1>3. store'[m] = store[m] /\ objects'[m] = objects[m]
  BY <1>1, OwnName
<1>4. Revisions(m)' = Revisions(m) /\ DeployedRevisions(m)' = DeployedRevisions(m)
  BY <1>3, SameSets
<1>5. /\ \A d \in Callers : Installed(d, m)' <=> Installed(d, m)
      /\ \A d \in Callers : (At(d, "update", "finish") /\ op[d].name = m)'
                              <=> At(d, "update", "finish") /\ op[d].name = m
  BY <1>2 DEF Installed, At
<1>6. Uninstalled(m) => Uninstalled(m)'
  BY <1>1, UninstalledStays
<1> QED
  BY <1>1, <1>3, <1>4, <1>5, <1>6 DEF InOrder

\* Nobody else is about to finish an update of the name.
LEMMA OwnInOrder ==
  ASSUME SerialUse, SerialOrder, [Next]_vars, NEW c \in Callers, TillerStep(c),
         UNCHANGED brokerVars, NEW n, n = op[c].name
  PROVE  InOrder(n)' /\ WorksAlone(c)'
<1>n. n = op[c].name
  OBVIOUS
<1> DEFINE Finishing == \E d \in Callers : At(d, "update", "finish") /\ op[d].name = n
<1>1. /\ TypeOK /\ IInv /\ OneAtATime /\ CallMatchesRequest /\ WorksAlone(c) /\ UNCHANGED pc
      /\ n \in Names /\ InOrder(n)
  BY <1>n, OneCall DEF SerialOrder, IInv, brokerVars, Calls
<1>2. /\ \A d \in Callers \ {c} : op'[d] = op[d]
      /\ op'[c].kind = op[c].kind /\ op'[c].name = n /\ op'[c].step # "prepare"
  BY <1>1, <1>n, OneCall
<1>3. Running(c) /\ op[c].kind \in OpKinds
  BY <1>1, StepRuns
<1>4. Uninstalled(n) => Uninstalled(n)'
  BY <1>1, UninstalledStays
<1>5. \A d \in Callers : At(d, "update", "finish") /\ op[d].name = n => d = c
  BY <1>1, <1>n, <1>3, RunsAlone DEF At, Running
<1>6. \A d \in Callers \ {c} : Installed(d, n)' <=> Installed(d, n)
  BY <1>2 DEF Installed
<1>7. ~Installed(c, n)
  BY <1>3 DEF Installed, Running
<1>8. CASE op[c].kind = "install"
  <2>1. InstallAlone(c)
    BY <1>1, <1>8 DEF WorksAlone
  <2>2. /\ InstallAlone(c)' /\ DeployedRevisions(n) = {}
        /\ \A v, w \in DeployedRevisions(n)' : v = w
        /\ Revisions(n)' = {} => objects'[n] = None
        /\ Installed(c, n)' => DeployedRevisions(n)' # {}
    BY <1>1, <1>n, <1>8, <2>1, OwnInstall
  <2>3. ~Finishing
    BY <1>5, <1>8 DEF At
  <2>4. ASSUME NEW d \in Callers, Installed(d, n) PROVE Uninstalled(n)
    BY <1>1, <2>2, <2>3, <2>4 DEF InOrder
  <2>5. ASSUME NEW d \in Callers, Installed(d, n)', ~Uninstalled(n)'
        PROVE  /\ DeployedRevisions(n)' # {}
               /\ \A e \in Callers : Installed(e, n)' => e = d
    <3>1. \A e \in Callers : Installed(e, n)' => e = c
      BY <1>4, <1>6, <2>4, <2>5
    <3> QED
      BY <2>2, <2>5, <3>1
  <2>6. InOrder(n)'
    BY <2>2, <2>5 DEF InOrder
  <2> QED
    BY <1>n, <1>2, <1>8, <2>2, <2>6 DEF WorksAlone
<1>9. CASE op[c].kind = "update"
  <2>1. UpdateAlone(c)
    BY <1>1, <1>9 DEF WorksAlone
  <2>2. /\ UpdateAlone(c)'
        /\ \A v, w \in DeployedRevisions(n)' : v = w
        /\ Revisions(n)' = {} => objects'[n] = None
        /\ DeployedRevisions(n) # {} \/ op[c].step = "finish" =>
             DeployedRevisions(n)' # {} \/ At(c, "update", "finish")'
    BY <1>1, <1>n, <1>9, <2>1, OwnUpdate
  <2>3. Finishing => op[c].step = "finish"
    BY <1>5 DEF At
  <2>4. \A d \in Callers : Installed(d, n)' <=> Installed(d, n)
    BY <1>2, <1>6, <1>9 DEF Installed
  <2>5. ASSUME NEW d \in Callers, Installed(d, n)', ~Uninstalled(n)'
        PROVE  /\ DeployedRevisions(n)' # {} \/ Finishing'
               /\ \A e \in Callers : Installed(e, n)' => e = d
    <3>1. /\ DeployedRevisions(n) # {} \/ Finishing
          /\ \A e \in Callers : Installed(e, n) => e = d
      BY <1>1, <1>4, <2>4, <2>5 DEF InOrder
    <3>2. DeployedRevisions(n)' # {} \/ (At(c, "update", "finish")' /\ op'[c].name = n)
      BY <1>2, <2>2, <2>3, <3>1
    <3> QED
      BY <2>4, <3>1, <3>2
  <2>6. InOrder(n)'
    BY <2>2, <2>5 DEF InOrder
  <2> QED
    BY <1>n, <1>2, <1>9, <2>2, <2>6 DEF WorksAlone
<1>10. CASE op[c].kind = "uninstall"
  <2>1. UninstallAlone(c)
    BY <1>1, <1>10 DEF WorksAlone
  <2>2. /\ UninstallAlone(c)'
        /\ \A v, w \in DeployedRevisions(n)' : v = w
        /\ Revisions(n)' = {} => objects'[n] = None
    BY <1>1, <1>n, <1>10, <2>1, OwnUninstall
  <2>3. Uninstalled(n)'
    BY <1>2, <1>10 DEF Uninstalled
  <2>4. InOrder(n)'
    BY <2>2, <2>3 DEF InOrder
  <2> QED
    BY <1>n, <1>2, <1>10, <2>2, <2>4 DEF WorksAlone
<1> QED
  BY <1>3, <1>8, <1>9, <1>10 DEF OpKinds

LEMMA TillerKeepsSerial ==
  ASSUME SerialUse, SerialOrder, [Next]_vars, NEW c \in Callers, TillerStep(c),
         UNCHANGED brokerVars
  PROVE  /\ OneAtATime'
         /\ \A d \in Callers : WorksAlone(d)'
         /\ \A n \in Names : InOrder(n)'
<1>1. TypeOK /\ IInv /\ OneAtATime /\ UNCHANGED <<req, pc>>
  BY DEF SerialOrder, IInv, brokerVars
<1>2. \A d \in Callers \ {c} : op'[d] = op[d]
  BY <1>1, OneCall
<1>3. op'[c].kind = op[c].kind /\ Running(c)
  BY <1>1, OneCall, StepRuns
<1>4. OneAtATime'
  BY <1>1, <1>2, <1>3 DEF OneAtATime, Open, Running, Requests
<1>5. ASSUME NEW d \in Callers PROVE WorksAlone(d)'
  <2>1. CASE d = c
    BY <2>1, OwnInOrder
  <2>2. CASE d # c
    BY <2>2, OthersAlone
  <2> QED
    BY <2>1, <2>2
<1>6. ASSUME NEW n \in Names PROVE InOrder(n)'
  <2>1. CASE n = op[c].name
    BY <2>1, OwnInOrder
  <2>2. CASE n # op[c].name
    BY <2>2, OthersInOrder
  <2> QED
    BY <2>1, <2>2
<1> QED
  BY <1>4, <1>5, <1>6

\* The steps of the broker in serial use: a request is received, a handler
\* sends its call or moves on, and none of them touches a release.
HandlerMoves(r) ==
  /\ \A q \in Requests \ {r} : pc'[q] = pc[q]
  /\ Open(r) /\ pc'[r] \notin {"await", "idle"}
  /\ ~(pc[r] = "await" /\ op[r].step # "replied")
  /\ UNCHANGED <<store, objects, op, req>>

HandlerSends(r, kind, cfg) ==
  /\ Send(r, kind, cfg) /\ pc[r] = "exists" /\ kind \in OpKinds
  /\ kind = "install" => Revisions(Name(r)) = {}
  /\ kind = "update" => req[r].kind = "update" /\ cfg = UpdateValues(r)
  /\ kind = "uninstall" <=> req[r].kind = "deprovision"
  /\ UNCHANGED <<req, creds>>

LEMMA AnswerMoves ==
  ASSUME TypeOK, NEW r \in Requests, NEW s \in {"done", "list", "values", "gone"},
         Proceed(r, s)
  PROVE  /\ \A q \in Requests \ {r} : pc'[q] = pc[q]
         /\ pc'[r] \notin {"await", "idle"}
  BY DEF TypeOK, Proceed

LEMMA SerialHandler ==
  ASSUME SerialUse, TypeOK, NEW r \in Requests, Handler(r)
  PROVE  HandlerMoves(r) \/ \E kind, cfg : HandlerSends(r, kind, cfg)
<1> DEFINE Moved == \E s \in {"done", "list", "values", "gone"} : Proceed(r, s)
           Calm == UNCHANGED <<store, objects, op, req>>
<1>1. ~Unreachable
  BY DEF SerialUse, Unreachable
<1>2. ASSUME Moved, Calm, Open(r), ~(pc[r] = "await" /\ op[r].step # "replied")
      PROVE  HandlerMoves(r)
  BY <1>2, AnswerMoves DEF HandlerMoves
<1>3. \A code : Answer(r, code) => Moved
  BY DEF Answer
<1> HIDE DEF Moved
<1>4. CASE Provision(r)
  <2>1. CASE \E code : Answer(r, code) /\ UNCHANGED tillerVars
    BY <1>2, <1>3, <1>4, <2>1 DEF Provision, Is, Open, tillerVars
  <2>2. ASSUME NEW cfg, Send(r, "install", cfg), ~Exists(r)
        PROVE  HandlerSends(r, "install", cfg)
    BY <1>4, <2>2 DEF HandlerSends, Provision, Is, OpKinds, Exists
  <2>3. \/ \E code : Answer(r, code) /\ UNCHANGED tillerVars
        \/ \E cfg : Send(r, "install", cfg) /\ ~Exists(r)
    BY <1>1, <1>4 DEF Provision
  <2> QED
    BY <2>1, <2>2, <2>3
<1>5. CASE Update(r)
  <2>1. CASE \E code : Answer(r, code) /\ UNCHANGED tillerVars
    BY <1>2, <1>3, <1>5, <2>1 DEF Update, Is, Open, tillerVars
  <2>2. ASSUME Send(r, "update", UpdateValues(r))
        PROVE  HandlerSends(r, "update", UpdateValues(r))
    BY <1>5, <2>2 DEF HandlerSends, Update, Is, OpKinds
  <2> QED
    BY <1>5, <2>1, <2>2 DEF Update
<1>6. CASE Deprovision(r)
  <2>1. CASE \E code : Answer(r, code) /\ UNCHANGED tillerVars
    BY <1>2, <1>3, <1>6, <2>1 DEF Deprovision, Is, Open, tillerVars
  <2>2. ASSUME Send(r, "uninstall", EmptyConfig)
        PROVE  HandlerSends(r, "uninstall", EmptyConfig)
    BY <1>6, <2>2 DEF HandlerSends, Deprovision, Is, OpKinds
  <2> QED
    BY <1>6, <2>1, <2>2 DEF Deprovision
<1>7. CASE Return(r)
  <2>1. Moved
    BY <1>3, <1>7 DEF Return, Failed, Moved
  <2>2. Calm /\ pc[r] = "await" /\ op[r].step = "replied"
    BY <1>7 DEF Return, tillerVars
  <2> QED
    BY <1>2, <2>1, <2>2 DEF Open
<1>8. CASE GetRelease(r) \/ BindStatus(r) \/ BindValues(r) \/ Unbind(r) \/ LastOperation(r)
           \/ LastOperationError(r)
  <2>1. Moved
    BY <1>3, <1>8 DEF GetRelease, BindStatus, BindValues, Unbind, LastOperation,
       LastOperationError, Moved
  <2>2. Calm /\ pc[r] \in {"list", "status", "values", "exists", "gone"}
    BY <1>8 DEF GetRelease, BindStatus, BindValues, Unbind, LastOperation,
       LastOperationError, Is, tillerVars
  <2> QED
    BY <1>2, <2>1, <2>2 DEF Open
<1> QED
  BY <1>4, <1>5, <1>6, <1>7, <1>8 DEF Handler

LEMMA SerialSteps ==
  ASSUME SerialUse, TypeOK, [Next]_vars
  PROVE  \/ \E c \in Callers : TillerStep(c) /\ UNCHANGED brokerVars
         \/ \E r \in Requests : HandlerMoves(r) \/ \E kind, cfg : HandlerSends(r, kind, cfg)
         \/ \E r \in Requests : Receive(r)
         \/ UNCHANGED <<store, objects, op, req, pc>>
<1>1. /\ "unreachable" \notin Faults /\ "lost" \notin Faults
      /\ "tillerRestart" \notin Faults /\ "brokerRestart" \notin Faults
  BY DEF SerialUse
<1>2. ~BrokerRestart /\ \A r \in Requests : ~BreakConnection(r)
  BY <1>1 DEF BrokerRestart, BreakConnection, Unreachable
<1>3. ASSUME NEW n \in Names, BecomeReady(n), UNCHANGED brokerVars
      PROVE  UNCHANGED <<store, objects, op, req, pc>>
  BY <1>3 DEF BecomeReady, brokerVars
<1>4. Finished \/ UNCHANGED vars => UNCHANGED <<store, objects, op, req, pc>>
  BY DEF Finished, vars, tillerVars, brokerVars
<1> QED
  BY <1>1, <1>2, <1>3, <1>4, SerialHandler DEF Next

\* No call is at work on the release of a request that has not sent one.
LEMMA SendFindsNobody ==
  ASSUME SerialUse, IInv, OneAtATime, NEW r \in Requests, pc[r] = "exists", req[r].kind # "none",
         NEW c \in Callers, Running(c)
  PROVE  op[c].name # Name(r)
<1>1. Open(c) /\ req[c].kind # "none" /\ Name(c) = op[c].name /\ pc[c] = "await"
  BY RunningCall
<1>2. Open(r)
  BY DEF Open
<1> QED
  BY <1>1, <1>2, OpenAlone DEF Requests

LEMMA SendKeepsSerial ==
  ASSUME SerialUse, SerialOrder, IInv', NEW r \in Requests, NEW kind, NEW cfg,
         HandlerSends(r, kind, cfg)
  PROVE  /\ OneAtATime'
         /\ \A d \in Callers : WorksAlone(d)'
         /\ \A n \in Names : InOrder(n)'
<1>1. TypeOK /\ IInv /\ OneAtATime /\ CallMatchesRequest /\ Requests = Callers
  BY DEF SerialOrder, IInv, Requests
<1>2. op[r] = NoOp /\ pc[r] = "exists" /\ UNCHANGED <<store, objects, req>>
  BY <1>1 DEF CallMatchesRequest, Matches, HandlerSends, Send
<1>3. /\ op'[r] = Call(kind, Name(r), ~req[r].async, cfg)
      /\ \A d \in Callers \ {r} : op'[d] = op[d]
      /\ pc'[r] = "await" /\ \A q \in Requests \ {r} : pc'[q] = pc[q]
  BY <1>1 DEF HandlerSends, Send, Proceed, TypeOK, TillerTypeOK
<1>4. op'[r].kind = kind /\ op'[r].step = "prepare" /\ op'[r].name = Name(r)
  BY <1>3 DEF Call
<1>5. \A n : Revisions(n)' = Revisions(n) /\ DeployedRevisions(n)' = DeployedRevisions(n)
  BY <1>2 DEF Revisions, DeployedRevisions, Has
<1>6. OneAtATime'
  <2>1. \A q \in Requests : Open(q)' <=> Open(q)
    BY <1>2, <1>3 DEF Open
  <2>2. \A q \in Requests : Running(q)' => pc'[q] = "await"
    BY <1>1, <1>3 DEF OneAtATime, Running
  <2>3. \A q \in Requests : op'[q].kind # "none" =>
          (op'[q].kind = "uninstall" <=> req'[q].kind = "deprovision")
    BY <1>1, <1>2, <1>3, <1>4 DEF OneAtATime, HandlerSends
  <2> QED
    BY <1>1, <1>2, <2>1, <2>2, <2>3 DEF OneAtATime
<1>7. ASSUME NEW d \in Callers PROVE WorksAlone(d)'
  <2>1. CASE d = r
    <3>1. kind = "install" => Revisions(Name(r)) = {}
      BY DEF HandlerSends
    <3> QED
      BY <1>4, <1>5, <2>1, <3>1 DEF WorksAlone, InstallAlone, UpdateAlone, UninstallAlone
  <2>2. CASE d # r
    <3>1. WorksAlone(d) /\ op'[d] = op[d] /\ pc'[d] = pc[d]
      BY <1>1, <1>3, <2>2 DEF SerialOrder
    <3> QED
      BY <1>2, <1>5, <3>1 DEF WorksAlone, InstallAlone, UpdateAlone, UninstallAlone
  <2> QED
    BY <2>1, <2>2
<1>8. ASSUME NEW n \in Names PROVE InOrder(n)'
  <2>1. \A d \in Callers : Installed(d, n)' <=> Installed(d, n)
    BY <1>2, <1>3, <1>4, NoOpFact DEF Installed
  <2>2. \A d \in Callers : (At(d, "update", "finish") /\ op[d].name = n)'
                             <=> At(d, "update", "finish") /\ op[d].name = n
    BY <1>2, <1>3, <1>4, NoOpFact DEF At
  <2>3. Uninstalled(n)' <=> Uninstalled(n)
    BY <1>2, <1>3, <1>4, NoOpFact DEF Uninstalled
  <2> QED
    BY <1>2, <1>5, <2>1, <2>2, <2>3 DEF InOrder, SerialOrder
<1> QED
  BY <1>6, <1>7, <1>8

LEMMA BrokerKeepsSerial ==
  ASSUME SerialUse, SerialOrder,
         \/ \E r \in Requests : HandlerMoves(r) \/ Receive(r)
         \/ UNCHANGED <<store, objects, op, req, pc>>
  PROVE  /\ OneAtATime'
         /\ \A d \in Callers : WorksAlone(d)'
         /\ \A n \in Names : InOrder(n)'
<1>1. TypeOK /\ IInv /\ OneAtATime /\ CallMatchesRequest /\ Requests = Callers
  BY DEF SerialOrder, IInv, Requests
<1>2. UNCHANGED <<store, objects, op>>
  BY DEF HandlerMoves, Receive, tillerVars
<1>3. \A q \in Requests : pc'[q] = "await" => pc[q] = "await"
  BY <1>1 DEF HandlerMoves, Receive, Proceed, FirstStep, TypeOK
<1>4. \A q \in Requests : Running(q) => pc'[q] = pc[q]
  BY <1>1 DEF HandlerMoves, Receive, Proceed, TypeOK, OneAtATime, Running
<1>5. \A n : Revisions(n)' = Revisions(n) /\ DeployedRevisions(n)' = DeployedRevisions(n)
  BY <1>2 DEF Revisions, DeployedRevisions, Has
<1>6. ASSUME NEW d \in Callers PROVE WorksAlone(d)'
  BY <1>1, <1>2, <1>3, <1>5 DEF SerialOrder, WorksAlone, InstallAlone, UpdateAlone, UninstallAlone
<1>7. ASSUME NEW n \in Names PROVE InOrder(n)'
  BY <1>2, <1>5 DEF SerialOrder, InOrder, Installed, Uninstalled, At
<1>8. \A q \in Requests : Running(q)' => pc'[q] = "await"
  BY <1>1, <1>2, <1>4 DEF OneAtATime, Running
<1>9. CASE (\E r \in Requests : HandlerMoves(r)) \/ UNCHANGED <<store, objects, op, req, pc>>
  <2>1. \A q \in Requests : Open(q)' => Open(q)
    BY <1>9 DEF HandlerMoves, Open
  <2>2. UNCHANGED req
    BY <1>9 DEF HandlerMoves
  <2> QED
    BY <1>1, <1>2, <1>6, <1>7, <1>8, <2>1, <2>2 DEF OneAtATime
<1>10. ASSUME NEW r \in Requests, Receive(r) PROVE OneAtATime'
  <2>1. PICK s \in Shapes :
          /\ \A q \in Requests : Open(q) => req[q].inst # s.inst
          /\ req' = [req EXCEPT ![r] = s] /\ Proceed(r, FirstStep(s.kind))
    BY <1>10 DEF Receive, SerialUse
  <2>2. /\ req'[r] = s /\ op[r] = NoOp
        /\ \A q \in Requests \ {r} : req'[q] = req[q] /\ pc'[q] = pc[q]
    BY <1>1, <1>10, <2>1 DEF TypeOK, Proceed, Receive, CallMatchesRequest, Matches
  <2>3. \A q \in Requests \ {r} : Open(q)' <=> Open(q)
    BY <2>2 DEF Open
  <2>4. \A q, t \in Requests : Open(q)' /\ Open(t)' /\ req'[q].inst = req'[t].inst => q = t
    BY <1>1, <2>1, <2>2, <2>3 DEF OneAtATime
  <2>5. \A q \in Requests : op'[q].kind # "none" =>
          (op'[q].kind = "uninstall" <=> req'[q].kind = "deprovision")
    BY <1>1, <1>2, <2>2, NoOpFact DEF OneAtATime
  <2> QED
    BY <1>8, <2>4, <2>5 DEF OneAtATime
<1> QED
  BY <1>6, <1>7, <1>9, <1>10

LEMMA OrderInit == Init => SerialOrder
<1> SUFFICES ASSUME Init PROVE SerialOrder
  OBVIOUS
<1>1. IInv /\ \A c \in Callers : op[c] = NoOp
  BY InitIInv DEF Init, TillerInit
<1>2. OneAtATime
  BY <1>1, NoOpFact DEF Init, OneAtATime, Open, Running, Requests
<1>3. \A c \in Callers : WorksAlone(c)
  BY <1>1, NoOpFact DEF WorksAlone
<1>4. ASSUME NEW n \in Names PROVE InOrder(n)
  <2>1. DeployedRevisions(n) = {} /\ objects[n] = None
    BY DEF Init, TillerInit, DeployedRevisions, NoRecord
  <2>2. \A c \in Callers : ~Installed(c, n)
    BY <1>1, NoOpFact DEF Installed
  <2> QED
    BY <2>1, <2>2 DEF InOrder
<1> QED
  BY <1>1, <1>2, <1>3, <1>4 DEF SerialOrder

LEMMA OrderNext ==
  ASSUME SerialUse, SerialOrder, [Next]_vars
  PROVE  SerialOrder'
<1>1. IInv /\ IInv' /\ TypeOK
  BY NextIInv DEF SerialOrder, IInv
<1> DEFINE Goal == /\ OneAtATime'
                   /\ \A d \in Callers : WorksAlone(d)'
                   /\ \A n \in Names : InOrder(n)'
<1>2. ASSUME NEW c \in Callers, TillerStep(c), UNCHANGED brokerVars PROVE Goal
  BY <1>2, TillerKeepsSerial
<1>3. ASSUME NEW r \in Requests, NEW kind, NEW cfg, HandlerSends(r, kind, cfg) PROVE Goal
  BY <1>1, <1>3, SendKeepsSerial
<1>4. ASSUME \/ \E r \in Requests : HandlerMoves(r) \/ Receive(r)
             \/ UNCHANGED <<store, objects, op, req, pc>>
      PROVE  Goal
  BY <1>4, BrokerKeepsSerial
<1> HIDE DEF Goal
<1>5. Goal
  BY <1>1, <1>2, <1>3, <1>4, SerialSteps
<1> QED
  BY <1>1, <1>5 DEF Goal, SerialOrder

\* In serial use, requests and calls stay one to a release, each call finds
\* what its steps count on, and every release is in order.
THEOREM SerialOrdered == ASSUME SerialUse PROVE Spec => []SerialOrder
<1>1. SerialOrder /\ [Next]_vars => SerialOrder'
  BY OrderNext
<1> QED
  BY <1>1, OrderInit, PTL DEF Spec

-----------------------------------------------------------------------------
(***************************************************************************)
(* What follows from it.                                                   *)
(***************************************************************************)
LEMMA CreatedInstalled ==
  ASSUME IInv, NEW r \in Requests, Answered(r, "provision", {"201"})
  PROVE  Name(r) \in Names /\ Installed(r, Name(r))
<1>1. /\ op[r].kind = "install" /\ op[r].step = "replied" /\ op[r].ok /\ op[r].name = Name(r)
      /\ op \in [Callers -> Ops] /\ r \in Callers
  BY DEF IInv, CallMatchesRequest, Matches, TypeOK, TillerTypeOK, Requests
<1>2. Name(r) \in Names
  BY <1>1, CallFact DEF Calls
<1> QED
  BY <1>1, <1>2 DEF Installed

LEMMA SerialSingle == SerialOrder => SingleDeployed
<1> SUFFICES ASSUME SerialOrder, NEW n \in Names
             PROVE  Cardinality(DeployedRevisions(n)) <= 1
  BY DEF SingleDeployed
<1>1. \A v, w \in DeployedRevisions(n) : v = w
  BY DEF SerialOrder, InOrder
<1>2. CASE DeployedRevisions(n) = {}
  BY <1>2, FS_EmptySet
<1>3. ASSUME NEW v \in DeployedRevisions(n)
      PROVE  Cardinality(DeployedRevisions(n)) <= 1
  <2>1. DeployedRevisions(n) = {v}
    BY <1>1
  <2> QED
    BY <2>1, FS_Singleton
<1> QED
  BY <1>2, <1>3

LEMMA SerialNoOrphans == SerialOrder => NoOrphans
  BY DEF SerialOrder, InOrder, NoOrphans

LEMMA SerialOneCreation == SerialOrder => OneCreation
<1> SUFFICES ASSUME SerialOrder, NEW r \in Requests, NEW q \in Requests, r # q,
                    Answered(r, "provision", {"201"}), Answered(q, "provision", {"201"}),
                    Name(r) = Name(q)
             PROVE  Uninstalled(Name(r))
  BY DEF OneCreation
<1>1. Name(r) \in Names /\ Installed(r, Name(r)) /\ Installed(q, Name(r))
  BY CreatedInstalled DEF SerialOrder
<1> QED
  BY <1>1 DEF SerialOrder, InOrder, Requests

LEMMA SerialUpgradable == SerialOrder => StaysUpgradable
<1> SUFFICES ASSUME SerialOrder, NEW r \in Requests, Answered(r, "provision", {"201"}),
                    ~Uninstalled(Name(r)), ~Busy(Name(r))
             PROVE  DeployedRevisions(Name(r)) # {}
  BY DEF StaysUpgradable
<1>1. Name(r) \in Names /\ Installed(r, Name(r)) /\ r \in Callers
  BY CreatedInstalled DEF SerialOrder, Requests
<1>2. \A d \in Callers : ~(At(d, "update", "finish") /\ op[d].name = Name(r))
  BY DEF Busy, Running, At
<1> QED
  BY <1>1, <1>2 DEF SerialOrder, InOrder

\* Tiller never has two deployed revisions of a release: no failed update, no
\* deprovision and no new provision after one adds a second (Tiller's
\* performUpdate and recordRelease).
THEOREM OneDeployed == ASSUME SerialUse PROVE Spec => []SingleDeployed
<1>1. Spec => []SerialOrder
  BY SerialOrdered
<1> QED
  BY <1>1, SerialSingle, PTL

\* No objects are left under a name without a release (UninstallRelease purges
\* after it has removed them).
THEOREM NothingOrphaned == ASSUME SerialUse PROVE Spec => []NoOrphans
<1>1. Spec => []SerialOrder
  BY SerialOrdered
<1> QED
  BY <1>1, SerialNoOrphans, PTL

\* An instance is created once until it is deprovisioned (Provision's 409).
THEOREM CreatedOnce == ASSUME SerialUse PROVE Spec => []OneCreation
<1>1. Spec => []SerialOrder
  BY SerialOrdered
<1> QED
  BY <1>1, SerialOneCreation, PTL

\* An instance stays upgradable through failed updates (performUpdate writes
\* the original revision back as deployed).
THEOREM Upgradable == ASSUME SerialUse PROVE Spec => []StaysUpgradable
<1>1. Spec => []SerialOrder
  BY SerialOrdered
<1> QED
  BY <1>1, SerialUpgradable, PTL

\* An answer 200 or 410 to a deprovision comes from a handler that saw no
\* release, or whose call has ended and left none.
LEMMA RemovedAtAnswer ==
  ASSUME SerialUse, SerialOrder, [Next]_vars, NEW r \in Requests,
         Answers(r, "deprovision", {"200", "410"})
  PROVE  Revisions(Name(r))' = {} /\ objects'[Name(r)] = None
<1>1. TypeOK /\ IInv /\ OneAtATime /\ Requests = Callers
  BY DEF SerialOrder, IInv, Requests
<1>2. req[r].kind = "deprovision" /\ reply[r] = "none" /\ reply'[r] \in {"200", "410"}
  BY DEF Answers
<1>3. Name(r) \in Names
  BY <1>1, <1>2, NameType
<1>4. InOrder(Name(r))
  BY <1>3 DEF SerialOrder
<1>5. ~Unreachable /\ ~BrokerRestart
  BY DEF SerialUse, Unreachable, BrokerRestart
<1>6. \A q \in Requests : Handler(q) \/ Receive(q) \/ BreakConnection(q) => q = r
  BY <1>2, OtherHandlers, <1>1
<1>7. Deprovision(r) \/ Return(r)
  <2>1. Handler(r)
    <3>1. ~(UNCHANGED reply)
      BY <1>2
    <3>2. ~Receive(r) /\ ~BreakConnection(r)
      BY <3>1, <1>5 DEF Receive, BreakConnection, SerialUse
    <3> QED
      BY <1>5, <1>6, <3>1, <3>2 DEF Next, Finished, vars, brokerVars
  <2> QED
    BY <1>2, <2>1 DEF Handler, Provision, Update, GetRelease, BindStatus, BindValues, Unbind,
       LastOperation, LastOperationError, Is
<1>8. CASE Deprovision(r)
  <2>1. Revisions(Name(r)) = {} /\ UNCHANGED <<store, objects, req>>
    BY <1>2, <1>5, <1>8 DEF Deprovision, Send, Exists, tillerVars
  <2> QED
    BY <1>4, <2>1 DEF InOrder, Revisions, Has, Name
<1>9. CASE Return(r)
  <2>1. pc[r] = "await" /\ op[r].step = "replied" /\ UNCHANGED <<store, objects, req>>
    BY <1>9 DEF Return, tillerVars
  <2>2. op[r].kind # "none" /\ op[r].name = Name(r)
    BY <1>1, <2>1, NoOpFact DEF IInv, TypeOK, TillerTypeOK, Ops, Calls, OpKinds,
       CallMatchesRequest, Matches
  <2>3. op[r].kind = "uninstall"
    BY <1>1, <1>2, <2>2 DEF OneAtATime
  <2>5. op[r].ok
    BY <1>1, <1>2, <1>9 DEF Return, Failed, Answer, Proceed, TypeOK
  <2>4. Revisions(Name(r)) = {}
    BY <1>1, <2>1, <2>2, <2>3, <2>5 DEF SerialOrder, WorksAlone, UninstallAlone
  <2> QED
    BY <1>4, <2>1, <2>4 DEF InOrder, Revisions, Has, Name
<1> QED
  BY <1>7, <1>8, <1>9

\* A deprovision answered 200 or 410 has left neither records nor objects.
THEOREM NothingLeft == ASSUME SerialUse PROVE Spec => DeprovisionLeavesNothing
<1>1. Spec => []SerialOrder
  BY SerialOrdered
<1>2. SerialOrder /\ [Next]_vars =>
        [\A r \in Requests :
           Answers(r, "deprovision", {"200", "410"})
             => Revisions(Name(r))' = {} /\ objects'[Name(r)] = None]_vars
  BY RemovedAtAnswer
<1> QED
  BY <1>1, <1>2, PTL DEF Spec, DeprovisionLeavesNothing
=============================================================================

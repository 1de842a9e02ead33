-------------------------- MODULE RefinementProofs --------------------------
(***************************************************************************)
(* The broker on top of Tiller implements OSBInstance in serial use: every *)
(* step is one of the life of an instance as the platform sees it, or none *)
(* of them.  For any number of requests, instances and revisions.          *)
(***************************************************************************)
EXTENDS SettledProofs, Lifecycle

-----------------------------------------------------------------------------
(***************************************************************************)
(* How a call ends.                                                        *)
(***************************************************************************)
LEMMA InstallEnds ==
  ASSUME TypeOK, NEW c \in Callers, TillerStep(c), op[c].kind = "install", InstallAlone(c),
         NEW n, n = op[c].name, InOrder(n), op'[c].step = "replied"
  PROVE  /\ op'[c].ok <=> DeployedRevisions(n)' # {}
         /\ IF op[c].step \in {"prepare", "history"} THEN UNCHANGED store
            ELSE Revisions(n)' # {}
<1>1. op[c] \in Calls /\ n \in Names
  BY OneCall DEF Calls
<1>2. DeployedRevisions(n) = {} /\ (Installed(c, n)' => DeployedRevisions(n)' # {})
  BY OwnInstall
<1>3. \A s : Goto(c, s) => op'[c].step = s
  BY <1>1, GotoFields
<1>4. \A ok \in BOOLEAN : Reply(c, ok) => op'[c].ok = ok
  BY <1>1, ReplyFields
<1>5. op'[c].kind = "install" /\ op'[c].name = n
  BY OneCall
<1>6. /\ op[c].step \in {"finish", "recordFailed"} => op[c].ver = 1 /\ 1 \in Versions
      /\ op[c].step \in {"finish", "recordFailed"} => Revisions(n) = {1}
      /\ op[c].step = "history" => Revisions(n) = {}
  BY DEF InstallAlone
<1>7. CASE PrepareInstall(c)
  <2>1. op[c].step = "prepare" /\ UNCHANGED store /\ op'[c].ok = FALSE
    BY <1>3, <1>4, <1>7 DEF PrepareInstall, At
  <2>2. DeployedRevisions(n)' = {}
    BY <1>2, <2>1 DEF DeployedRevisions
  <2> QED
    BY <2>1, <2>2
<1>8. CASE InstallFailed(c)
  <2> DEFINE rec == [status |-> "FAILED", cfg |-> op[c].cfg]
  <2>1. /\ Revisions(n) = {1} /\ 1 \in Versions /\ op[c].step = "recordFailed"
        /\ store' = Updated(n, 1, rec) /\ op'[c].ok = FALSE
    BY <1>4, <1>6, <1>8 DEF InstallFailed, At
  <2>2. Writes(n, 1, rec)
    BY <1>1, <2>1, UpdatedWrites
  <2>3. rec.status = "FAILED"
    OBVIOUS
  <2> HIDE DEF rec
  <2>4. Revisions(n)' = {1} /\ DeployedRevisions(n)' = {}
    BY <1>1, <1>2, <2>1, <2>2, <2>3, WrittenSets
  <2> QED
    BY <2>1, <2>4
<1>9. CASE InstallDone(c)
  <2> DEFINE rec == [status |-> "DEPLOYED", cfg |-> op[c].cfg]
  <2>1. /\ Revisions(n) = {1} /\ 1 \in Versions /\ op[c].step = "finish"
        /\ store' = Updated(n, 1, rec) /\ op'[c].ok = TRUE
    BY <1>3, <1>4, <1>6, <1>9 DEF InstallDone, At
  <2>2. Writes(n, 1, rec)
    BY <1>1, <2>1, UpdatedWrites
  <2>3. rec.status = "DEPLOYED"
    OBVIOUS
  <2> HIDE DEF rec
  <2>4. Revisions(n)' = {1} /\ DeployedRevisions(n)' = {1}
    BY <1>1, <1>2, <2>1, <2>2, <2>3, WrittenSets
  <2> QED
    BY <2>1, <2>4
<1>10. CASE InstallHistory(c)
  <2>1. ASSUME op' = [op EXCEPT ![c].step = "record", ![c].ver = 1, ![c].old = 0] PROVE FALSE
    <3>1. op'[c].step = "record"
      BY <1>1, <2>1 DEF TypeOK, TillerTypeOK, Calls
    <3> QED
      BY <3>1
  <2>2. op[c].step = "history" /\ UNCHANGED store /\ op'[c].ok = FALSE
    BY <1>4, <1>6, <1>10, <2>1, LatestIsRevision DEF InstallHistory, At
  <2>3. DeployedRevisions(n)' = {}
    BY <1>2, <2>2 DEF DeployedRevisions
  <2> QED
    BY <2>2, <2>3
<1>11. ~InstallRecord(c) /\ ~InstallApply(c) /\ ~WaitForResources(c)
  BY <1>3 DEF InstallRecord, InstallApply, WaitForResources, AfterApply, AfterWait, OnError
<1> QED
  BY <1>7, <1>8, <1>9, <1>10, <1>11, InstallSteps

LEMMA UpdateEnds ==
  ASSUME TypeOK, NEW c \in Callers, TillerStep(c), op[c].kind = "update", UpdateAlone(c),
         NEW n, n = op[c].name, InOrder(n), op'[c].step = "replied"
  PROVE  /\ op'[c].ok => Revisions(n)' # {}
         /\ IF op[c].step = "prepare" THEN UNCHANGED store ELSE DeployedRevisions(n)' # {}
<1>1. op[c] \in Calls /\ n \in Names
  BY OneCall DEF Calls
<1>2. /\ DeployedRevisions(n) # {} \/ op[c].step = "finish" => DeployedRevisions(n)' # {}
      /\ DeployedRevisions(n)' \subseteq Revisions(n)'
  <2>1. DeployedRevisions(n)' \subseteq Revisions(n)'
    BY DEF DeployedRevisions, Revisions, Has
  <2> QED
    BY <2>1, OwnUpdate DEF At
<1>3. \A s : Goto(c, s) => op'[c].step = s
  BY <1>1, GotoFields
<1>4. \A ok \in BOOLEAN : Reply(c, ok) => op'[c].ok = ok
  BY <1>1, ReplyFields
<1>5. CASE op[c].step = "prepare"
  <2>1. PrepareUpdate(c)
    BY <1>5, UpdateSteps DEF UpdateRevision, UpdateRecord, UpdateApply, WaitForResources,
       UpdateRecordOld, UpdateFailed, UpdateSupersede, UpdateDone, At
  <2>2. ASSUME NEW d,
               op' = [op EXCEPT ![c].step = "last", ![c].old = d, ![c].ocfg = store[n][d].cfg,
                                ![c].cfg = ReuseValues(op[c].cfg, store[n][d].cfg)]
        PROVE  op'[c].step = "last"
    BY <1>1, <2>2 DEF TypeOK, TillerTypeOK, Calls
  <2> QED
    BY <1>4, <1>5, <2>1, <2>2 DEF PrepareUpdate
<1>6. CASE op[c].step # "prepare"
  <2>1. DeployedRevisions(n) # {} \/ op[c].step = "finish"
    BY <1>1, <1>6, UpdateSteps DEF UpdateAlone, PrepareUpdate, UpdateRevision, UpdateRecord,
       UpdateApply, WaitForResources, UpdateRecordOld, UpdateFailed, UpdateSupersede, UpdateDone, At
  <2> QED
    BY <1>2, <1>6, <2>1
<1> QED
  BY <1>5, <1>6

LEMMA UninstallEnds ==
  ASSUME TypeOK, NEW c \in Callers, TillerStep(c), op[c].kind = "uninstall", UninstallAlone(c),
         NEW n, n = op[c].name, op[c].step = "prepare" => Revisions(n) # {},
         op'[c].step = "replied"
  PROVE  /\ op[c].step # "prepare"
         /\ IF op[c].step = "deleting" THEN ~op'[c].ok /\ UNCHANGED store /\ Revisions(n)' # {}
            ELSE op'[c].ok
<1>1. op[c] \in Calls /\ n \in Names
  BY OneCall DEF Calls
<1>2. \A s : Goto(c, s) => op'[c].step = s
  BY <1>1, GotoFields
<1>3. \A ok \in BOOLEAN : Reply(c, ok) => op'[c].ok = ok
  BY <1>1, ReplyFields
<1>4. ~UninstallHistory(c)
  <2> SUFFICES ASSUME UninstallHistory(c) PROVE FALSE
    OBVIOUS
  <2>1. PICK v : op' = [op EXCEPT ![c].step = "deleting", ![c].ver = v,
                                  ![c].ocfg = store[n][v].cfg, ![c].seen = Revisions(n)]
    BY DEF UninstallHistory, At
  <2>2. op'[c].step = "deleting"
    BY <1>1, <2>1 DEF TypeOK, TillerTypeOK, Calls
  <2> QED
    BY <2>2
<1>5. CASE UninstallDeleting(c)
  <2>1. op[c].step = "deleting" /\ Reply(c, FALSE) /\ UNCHANGED store
    BY <1>2, <1>5 DEF UninstallDeleting, At
  <2>2. Revisions(n) # {}
    BY <2>1 DEF UninstallAlone
  <2> QED
    BY <1>3, <2>1, <2>2, SameSets
<1>6. CASE UninstallPurge(c)
  <2>1. op[c].step = "purge" /\ op[c].seen = Revisions(n)
    BY <1>6 DEF UninstallPurge, At, UninstallAlone
  <2>2. PICK v \in Revisions(n) :
          IF op[c].seen = {v} THEN Reply(c, TRUE) ELSE op' = [op EXCEPT ![c].seen = @ \ {v}]
    BY <1>6, <2>1 DEF UninstallPurge, Revisions
  <2>3. op[c].seen # {v} => op'[c].step = "purge"
    BY <1>1, <2>1, <2>2 DEF TypeOK, TillerTypeOK, Calls
  <2> QED
    BY <1>3, <2>1, <2>2, <2>3
<1> QED
  BY <1>2, <1>4, <1>5, <1>6, UninstallSteps DEF UninstallRemove, UninstallHooked

\* A call is at work on its release from the step after its first look, and
\* after its first hooks, until it ends; before, it writes nothing.
LEMMA WorkBegins ==
  ASSUME TypeOK, NEW c \in Callers, TillerStep(c)
  PROVE  /\ op'[c].step \in {"history", "deleting"} => op[c].step = "prepare" /\ UNCHANGED store
         /\ /\ op[c].step \in {"prepare", "history", "deleting"}
            /\ op'[c].step \in {"history", "deleting", "replied"}
            => UNCHANGED store
<1>1. op[c] \in Calls
  BY OneCall
<1>2. \A s : Goto(c, s) => op'[c].step = s
  BY <1>1, GotoFields
<1>3. \A ok \in BOOLEAN : Reply(c, ok) => op'[c].step = "replied"
  BY <1>1, ReplyFields
<1>4. CASE PrepareInstall(c) \/ PrepareUpdate(c) \/ UninstallHistory(c)
  BY <1>4 DEF PrepareInstall, PrepareUpdate, UninstallHistory, At
<1>5. CASE InstallHistory(c)
  <2> DEFINE n == op[c].name
             Fresh == op' = [op EXCEPT ![c].step = "record", ![c].ver = 1, ![c].old = 0]
             After(v) == op' = [op EXCEPT ![c].step = "supersede", ![c].ver = v + 1, ![c].old = v,
                                         ![c].ocfg = store[n][v].cfg]
  <2>1. Fresh => op'[c].step = "record"
    BY <1>1 DEF TypeOK, TillerTypeOK, Calls
  <2>2. ASSUME NEW v, After(v) PROVE op'[c].step = "supersede"
    BY <1>1, <2>2 DEF TypeOK, TillerTypeOK, Calls
  <2>3. /\ op[c].step = "history" /\ UNCHANGED store
        /\ Fresh \/ (\E v \in Versions : After(v)) \/ Reply(c, FALSE)
    BY <1>5 DEF InstallHistory, At
  <2> HIDE DEF Fresh, After
  <2> QED
    BY <1>3, <2>1, <2>2, <2>3
<1>6. CASE UninstallDeleting(c)
  BY <1>2, <1>3, <1>6 DEF UninstallDeleting, At
<1>7. CASE UpdateRevision(c)
  <2>1. ASSUME NEW v, op' = [op EXCEPT ![c].step = "record", ![c].ver = v]
        PROVE  op'[c].step = "record"
    BY <1>1, <2>1 DEF TypeOK, TillerTypeOK, Calls
  <2> QED
    BY <1>3, <1>7, <2>1 DEF UpdateRevision, At
<1>8. CASE UninstallPurge(c)
  <2>1. ASSUME NEW v, op' = [op EXCEPT ![c].seen = @ \ {v}] PROVE op'[c].step = op[c].step
    BY <1>1, <2>1 DEF TypeOK, TillerTypeOK, Calls
  <2> QED
    BY <1>3, <1>8, <2>1 DEF UninstallPurge, At
<1>9. CASE \/ InstallSupersede(c) \/ InstallRecord(c) \/ InstallApply(c) \/ InstallRecordOld(c)
           \/ InstallFailed(c) \/ InstallDone(c) \/ WaitForResources(c)
  BY <1>2, <1>3, <1>9 DEF InstallSupersede, InstallRecord, InstallApply, InstallRecordOld,
     InstallFailed, InstallDone, WaitForResources, AfterApply, AfterWait, OnError, At
<1>10. CASE \/ UpdateRecord(c) \/ UpdateApply(c) \/ UpdateRecordOld(c) \/ UpdateFailed(c)
            \/ UpdateSupersede(c) \/ UninstallRemove(c) \/ UninstallHooked(c)
  BY <1>2, <1>3, <1>10 DEF UpdateRecord, UpdateApply, UpdateRecordOld, UpdateFailed,
     UpdateSupersede, UninstallRemove, UninstallHooked, AfterApply, AfterWait, OnError, At
<1>11. CASE UpdateDone(c)
  BY <1>3, <1>11 DEF UpdateDone, At, Has
<1> QED
  BY <1>4, <1>5, <1>6, <1>7, <1>8, <1>9, <1>10, <1>11
  DEF TillerStep, InstallStep, UpdateStep, UninstallStep

-----------------------------------------------------------------------------
(***************************************************************************)
(* Every step keeps it.                                                    *)
(***************************************************************************)
LEMMA SameEnds ==
  ASSUME UNCHANGED store, NEW q \in Callers, EndsAsFound(q), UNCHANGED <<op[q], pc[q], req[q]>>
  PROVE  EndsAsFound(q)'
<1>1. \A n : Revisions(n)' = Revisions(n) /\ DeployedRevisions(n)' = DeployedRevisions(n)
  BY DEF Revisions, DeployedRevisions, Has
<1>2. Name(q)' = Name(q)
  BY DEF Name
<1> QED
  BY <1>1, <1>2 DEF EndsAsFound, At

LEMMA HandlerEnds ==
  ASSUME SerialUse, LifecycleInv, NEW r \in Requests, Handler(r), NEW q \in Callers
  PROVE  EndsAsFound(q)'
<1>1. /\ TypeOK /\ Requests = Callers /\ EndsAsFound(q) /\ ~Unreachable
      /\ pc \in [Requests -> {"idle", "exists", "await", "list", "status", "values", "gone", "done"}]
      /\ op \in [Callers -> Ops]
  BY DEF LifecycleInv, SerialInv, SerialOrder, IInv, Requests, SerialUse, Unreachable,
     TypeOK, TillerTypeOK
<1>2. UNCHANGED store
  BY DEF Handler, Provision, Update, Deprovision, Send, Return, GetRelease, BindStatus,
     BindValues, Unbind, LastOperation, LastOperationError, tillerVars
<1>3. CASE q # r
  BY <1>1, <1>2, <1>3, OtherHandlers, SameEnds
<1>4. CASE q = r
  <2> SUFFICES EndsAsFound(r)'
    BY <1>4
  <2>1. pc'[r] \notin {"await", "list", "gone"} => EndsAsFound(r)'
    BY DEF EndsAsFound
  <2>2. \A code : Answer(r, code) => pc'[r] = "done"
    BY <1>1 DEF Answer, Proceed
  <2>3. \A kind, cfg : Send(r, kind, cfg) =>
          pc'[r] = "await" /\ op'[r].step = "prepare" /\ op'[r].kind = kind /\ op'[r].name = Name(r)
    BY <1>1 DEF Send, Proceed, Call
  <2>4. ASSUME NEW kind, NEW cfg, Send(r, kind, cfg), kind # "uninstall" PROVE EndsAsFound(r)'
    BY <2>3, <2>4 DEF EndsAsFound, At
  <2>5. CASE Provision(r) \/ Update(r)
    BY <2>1, <2>2, <2>4, <2>5 DEF Provision, Update
  <2>6. CASE Deprovision(r)
    <3>1. ASSUME Exists(r), Send(r, "uninstall", EmptyConfig) PROVE EndsAsFound(r)'
      <4>1. (Revisions(op[r].name) # {})'
        BY <1>2, <2>3, <3>1 DEF Exists, Revisions, Has
      <4> QED
        BY <2>3, <3>1, <4>1 DEF EndsAsFound, At
    <3> QED
      BY <1>1, <2>1, <2>2, <2>6, <3>1 DEF Deprovision
  <2>7. CASE Return(r)
    <3>1. op'[r].step = "replied" /\ req'[r].kind = req[r].kind
      BY <2>7 DEF Return, tillerVars
    <3>2. pc'[r] = "done" \/ (pc'[r] = "list" /\ req[r].kind = "update")
      BY <1>1, <2>2, <2>7 DEF Return, Failed, Proceed
    <3> QED
      BY <2>1, <3>1, <3>2 DEF EndsAsFound
  <2>8. CASE LastOperation(r)
    <3>1. \/ pc'[r] = "done"
          \/ pc'[r] = "gone" /\ ~Exists(r)
      BY <1>1, <2>2, <2>8 DEF LastOperation, Proceed
    <3>2. req[r].kind = "lastop" /\ UNCHANGED req
      BY <2>8 DEF LastOperation, Is
    <3> QED
      BY <1>2, <2>1, <3>1, <3>2 DEF EndsAsFound, Exists, Revisions, Has, Name
  <2>9. CASE GetRelease(r) \/ BindStatus(r) \/ BindValues(r) \/ Unbind(r) \/ LastOperationError(r)
    <3>1. pc'[r] \in {"done", "values"}
      BY <1>1, <2>2, <2>9 DEF GetRelease, BindStatus, BindValues, Unbind, LastOperationError, Proceed
    <3> QED
      BY <2>1, <3>1
  <2> QED
    BY <1>4, <2>5, <2>6, <2>7, <2>8, <2>9 DEF Handler
<1> QED
  BY <1>3, <1>4

LEMMA TillerEnds ==
  ASSUME SerialUse, LifecycleInv, [Next]_vars, NEW c \in Callers, TillerStep(c),
         UNCHANGED brokerVars, NEW q \in Callers
  PROVE  EndsAsFound(q)'
<1>1. /\ TypeOK /\ IInv /\ OneAtATime /\ SerialOrder /\ EndsAsFound(q) /\ Requests = Callers
      /\ UNCHANGED <<req, pc>>
  BY DEF LifecycleInv, SerialInv, SerialOrder, IInv, brokerVars, Requests
<1>2. Running(c) /\ op[c].kind \in OpKinds /\ pc[c] = "await"
  BY <1>1, StepRuns, RunningCall
<1>3. ASSUME q # c, NEW m, m = Name(q) PROVE EndsAsFound(q)'
  <2>1. UNCHANGED <<op[q], pc[q], req[q]>> /\ Name(q)' = m
    BY <1>1, <1>3, OneCall DEF Name
  <2>2. CASE pc[q] \notin {"await", "list", "gone"}
    BY <2>1, <2>2 DEF EndsAsFound
  <2>3. CASE pc[q] \in {"await", "list", "gone"}
    <3>1. Open(q) /\ Open(c) /\ req[c].kind # "none" /\ Name(c) = op[c].name
      BY <1>1, <1>2, <2>3, RunningCall DEF Open
    <3>2. req[q].kind # "none" => m # op[c].name /\ m \in Names
      BY <1>1, <1>3, <3>1, OpenAlone, NameType
    <3>3. req[q].kind # "none" => store'[m] = store[m]
      BY <1>1, <3>2, OwnName
    <3>4. req[q].kind # "none" =>
            Revisions(m)' = Revisions(m) /\ DeployedRevisions(m)' = DeployedRevisions(m)
      BY <3>3 DEF Revisions, DeployedRevisions, Has
    <3>5. op[q].kind # "none" => req[q].kind # "none" /\ op[q].name = m
      BY <1>1, <1>3 DEF IInv, CallMatchesRequest, Matches
    <3> QED
      BY <1>1, <1>3, <2>1, <3>4, <3>5 DEF EndsAsFound, At
  <2> QED
    BY <2>2, <2>3
<1>4. ASSUME q = c, NEW n, n = op[c].name PROVE EndsAsFound(q)'
  <2> SUFFICES EndsAsFound(c)'
    BY <1>4
  <2>1. /\ op'[c].kind = op[c].kind /\ op'[c].name = n /\ op'[c].step # "prepare"
        /\ pc'[c] = "await" /\ n \in Names
    BY <1>1, <1>2, <1>4, OneCall DEF Calls
  <2>2. InOrder(n) /\ WorksAlone(c) /\ EndsAsFound(c)
    BY <1>1, <1>4, <2>1 DEF SerialOrder
  <2>3. CASE op[c].kind = "install"
    <3>1. op'[c].step = "replied" => (op'[c].ok <=> DeployedRevisions(n)' # {})
      BY <1>1, <1>4, <2>2, <2>3, InstallEnds DEF WorksAlone
    <3> QED
      BY <2>1, <2>3, <3>1 DEF EndsAsFound, At
  <2>4. CASE op[c].kind = "update"
    <3>1. op'[c].step = "replied" /\ op'[c].ok => Revisions(n)' # {}
      BY <1>1, <1>4, <2>2, <2>4, UpdateEnds DEF WorksAlone
    <3> QED
      BY <2>1, <2>4, <3>1 DEF EndsAsFound, At
  <2>5. CASE op[c].kind = "uninstall"
    <3>1. op[c].step = "prepare" => Revisions(n) # {}
      BY <1>2, <1>4, <2>2, <2>5 DEF EndsAsFound, At
    <3>2. op'[c].step = "replied" /\ ~op'[c].ok => Revisions(n)' # {}
      BY <1>1, <1>4, <2>2, <2>5, <3>1, UninstallEnds DEF WorksAlone
    <3>3. op'[c].step = "replied" /\ op'[c].ok => Revisions(n)' = {}
      <4>1. WorksAlone(c)'
        BY <1>1, OwnInOrder
      <4> QED
        BY <2>1, <2>5, <4>1 DEF WorksAlone, UninstallAlone
    <3> QED
      BY <2>1, <2>5, <3>2, <3>3 DEF EndsAsFound, At
  <2> QED
    BY <1>2, <2>3, <2>4, <2>5 DEF OpKinds
<1> QED
  BY <1>3, <1>4

LEMMA EndsInit == Init => LifecycleInv
<1> SUFFICES ASSUME Init PROVE LifecycleInv
  OBVIOUS
<1>1. \A c \in Callers : EndsAsFound(c)
  BY DEF Init, EndsAsFound, Requests
<1> QED
  BY <1>1, SettledInit DEF LifecycleInv

LEMMA EndsNext ==
  ASSUME SerialUse, LifecycleInv, [Next]_vars
  PROVE  LifecycleInv'
<1>1. SerialInv /\ SerialInv' /\ TypeOK /\ Requests = Callers
  BY SettledNext DEF LifecycleInv, SerialInv, SerialOrder, IInv, Requests
<1>2. ASSUME NEW q \in Callers PROVE EndsAsFound(q)'
  <2>1. EndsAsFound(q)
    BY DEF LifecycleInv
  <2>2. ASSUME NEW r \in Requests, Handler(r) PROVE EndsAsFound(q)'
    BY <2>2, HandlerEnds
  <2>3. ASSUME NEW r \in Requests, Receive(r) PROVE EndsAsFound(q)'
    <3>1. UNCHANGED store
      BY <2>3 DEF Receive, tillerVars
    <3>2. CASE q # r
      BY <1>1, <2>1, <2>3, <3>1, <3>2, OtherHandlers, SameEnds
    <3>3. CASE q = r
      <4>1. pc'[r] \in {"status", "exists"}
        BY <1>1, <2>3 DEF Receive, Proceed, FirstStep, TypeOK
      <4> QED
        BY <3>3, <4>1 DEF EndsAsFound
    <3> QED
      BY <3>2, <3>3
  <2>4. ASSUME NEW c \in Callers, TillerStep(c), UNCHANGED brokerVars PROVE EndsAsFound(q)'
    BY <2>4, TillerEnds
  <2>5. ASSUME UNCHANGED <<store, op, pc, req>> PROVE EndsAsFound(q)'
    BY <2>1, <2>5, SameEnds
  <2>6. ~BrokerRestart /\ (\A r \in Requests : ~BreakConnection(r)) /\ "tillerRestart" \notin Faults
    BY DEF SerialUse, BrokerRestart, BreakConnection, Unreachable
  <2>7. (\E n \in Names : BecomeReady(n) /\ UNCHANGED brokerVars) \/ Finished \/ UNCHANGED vars
          => UNCHANGED <<store, op, pc, req>>
    BY DEF BecomeReady, Finished, vars, brokerVars, tillerVars
  <2> QED
    BY <2>2, <2>3, <2>4, <2>5, <2>6, <2>7 DEF Next
<1> QED
  BY <1>1, <1>2 DEF LifecycleInv

\* In serial use a call ends as the records say and the handlers go by it.
THEOREM LifecycleInductive == ASSUME SerialUse PROVE Spec => []LifecycleInv
<1>1. LifecycleInv /\ [Next]_vars => LifecycleInv'
  BY EndsNext
<1> QED
  BY <1>1, EndsInit, PTL DEF Spec

-----------------------------------------------------------------------------
(***************************************************************************)
(* The life of an instance, step by step.                                  *)
(***************************************************************************)
LEMMA AskedRequest ==
  ASSUME TypeOK, NEW r \in Requests, req[r].kind # "none"
  PROVE  /\ req[r].inst \in Instances /\ req[r].kind \in Kinds /\ Name(r) = getName[req[r].inst]
         /\ AskedOf(r) = [kind |-> req[r].kind, inst |-> req[r].inst]
  BY DEF TypeOK, RequestShapes, AskedOf, NoRequest, Name

LEMMA AskedKept == ASSUME UNCHANGED req PROVE \A r : AskedOf(r)' = AskedOf(r)
  BY DEF AskedOf

LEMMA SamePhase ==
  ASSUME NEW i \in Instances, store'[getName[i]] = store[getName[i]],
         \A k : WorkedOn(i, k)' <=> WorkedOn(i, k)
  PROVE  PhaseOf(i)' = PhaseOf(i)
<1>1. /\ Revisions(getName[i])' = Revisions(getName[i])
      /\ DeployedRevisions(getName[i])' = DeployedRevisions(getName[i])
  BY DEF Revisions, DeployedRevisions, Has
<1> QED
  BY <1>1 DEF PhaseOf

\* The instance of a call is worked on by that call alone.
LEMMA OwnPhase ==
  ASSUME SerialUse, SerialOrder, NEW c \in Callers, TillerStep(c), NEW i \in Instances,
         getName[i] = op[c].name
  PROVE  /\ \A k : WorkedOn(i, k) <=> Working(c) /\ op[c].kind = k
         /\ \A k : WorkedOn(i, k)' <=> Working(c)' /\ op[c].kind = k
<1>1. TypeOK /\ IInv /\ OneAtATime /\ Requests = Callers
  BY DEF SerialOrder, IInv, Requests
<1>2. /\ Running(c) /\ op'[c].kind = op[c].kind /\ op'[c].name = op[c].name
      /\ \A d \in Callers \ {c} : op'[d] = op[d]
  BY <1>1, StepRuns, OneCall
<1>3. \A d \in Callers : Running(d) /\ op[d].name = op[c].name => d = c
  BY <1>1, <1>2, RunsAlone
<1>4. \A d \in Callers : Working(d) /\ op[d].name = op[c].name => d = c
  BY <1>3 DEF Working
<1>5. \A d \in Callers : Working(d)' /\ op'[d].name = op[c].name => d = c
  BY <1>2, <1>3 DEF Working, Running
<1> QED
  BY <1>1, <1>2, <1>4, <1>5 DEF WorkedOn

LEMMA OtherPhases ==
  ASSUME SerialUse, SerialOrder, NEW c \in Callers, TillerStep(c), NEW i \in Instances,
         getName[i] # op[c].name
  PROVE  PhaseOf(i)' = PhaseOf(i)
<1>1. TypeOK /\ Requests = Callers /\ getName[i] \in Names
  BY BrokerAssumption DEF SerialOrder, IInv, Requests
<1>2. op'[c].name = op[c].name /\ \A d \in Callers \ {c} : op'[d] = op[d]
  BY <1>1, OneCall
<1>3. \A k : WorkedOn(i, k)' <=> WorkedOn(i, k)
  BY <1>1, <1>2 DEF WorkedOn, Working, Running
<1> QED
  BY <1>1, <1>3, OwnName, SamePhase

LEMMA OtherStages ==
  ASSUME TypeOK, NEW c \in Callers, TillerStep(c), UNCHANGED brokerVars, NEW r \in Requests \ {c}
  PROVE  StageOf(r)' = StageOf(r)
<1>1. op'[r] = op[r] /\ pc'[r] = pc[r]
  BY OneCall DEF Requests, brokerVars
<1> QED
  BY <1>1 DEF StageOf, Working, Running

LEMMA WorkFact ==
  /\ DOMAIN OSB!Work = {"provision", "update", "deprovision"}
  /\ OSB!Work["provision"].from = {"absent"} /\ OSB!Work["provision"].by = "creating"
  /\ OSB!Work["provision"].to = {"there", "leftover"}
  /\ OSB!Work["update"].from = {"there"} /\ OSB!Work["update"].by = "changing"
  /\ OSB!Work["update"].to = {"there"}
  /\ OSB!Work["deprovision"].from = {"there", "leftover"}
  /\ OSB!Work["deprovision"].by = "removing" /\ OSB!Work["deprovision"].to = {"absent"}
  BY DEF OSB!Work

\* The step of Tiller after its first look and its first hooks begins the work on
\* a release, the last one ends it.
LEMMA TillerSimulates ==
  ASSUME SerialUse, LifecycleInv, [Next]_vars, NEW c \in Callers, TillerStep(c),
         UNCHANGED brokerVars, NEW i, i = req[c].inst, NEW n, n = op[c].name,
         NEW kind, kind = op[c].kind
  PROVE  OSB!Next \/ UNCHANGED OSB!vars
<1>1. /\ SerialOrder /\ TypeOK /\ IInv /\ OneAtATime /\ Requests = Callers
      /\ UNCHANGED <<req, pc, reply>> /\ EndsAsFound(c) /\ Matches(c) /\ CallValues(c)
      /\ WorksAlone(c) /\ WorksAlone(c)'
  BY OwnInOrder DEF LifecycleInv, SerialInv, SerialOrder, IInv, brokerVars, Requests,
     CallMatchesRequest
<1>2. /\ Running(c) /\ kind \in OpKinds /\ pc[c] = "await" /\ n \in Names /\ n = Name(c)
      /\ req[c].kind # "none" /\ op[c] \in Calls /\ InOrder(n)
  BY <1>1, StepRuns, RunningCall DEF SerialOrder
<1>3. /\ i \in Instances /\ getName[i] = n /\ req[c].kind \in Kinds
      /\ AskedOf(c) = [kind |-> req[c].kind, inst |-> i]
  BY <1>1, <1>2, AskedRequest
<1>4. /\ kind = "install" <=> req[c].kind = "provision"
      /\ kind = "uninstall" <=> req[c].kind = "deprovision"
      /\ kind = "update" <=> req[c].kind = "update"
  <2>1. kind # "none"
    BY <1>2 DEF OpKinds
  <2>2. kind = "update" => req[c].kind = "update"
    BY <1>1 DEF CallValues
  <2>3. kind = "install" <=> req[c].kind = "provision"
    BY <1>1, <2>1 DEF Matches
  <2>4. kind = "uninstall" <=> req[c].kind = "deprovision"
    BY <1>1, <2>1 DEF OneAtATime
  <2> QED
    BY <1>2, <2>2, <2>3, <2>4 DEF OpKinds
<1>5. /\ \A r : AskedOf(r)' = AskedOf(r)
      /\ \A r \in Requests \ {c} : StageOf(r)' = StageOf(r)
      /\ \A j \in Instances \ {i} : PhaseOf(j)' = PhaseOf(j)
  <2>1. \A j \in Instances \ {i} : getName[j] # n
    BY <1>3 DEF SerialUse
  <2> QED
    BY <1>1, <2>1, AskedKept, OtherStages, OtherPhases
<1>6. /\ \A k : WorkedOn(i, k) <=> Working(c) /\ kind = k
      /\ \A k : WorkedOn(i, k)' <=> Working(c)' /\ kind = k
  BY <1>1, <1>3, OwnPhase
<1>7. /\ op'[c].step # "prepare" /\ op'[c].kind = kind /\ op'[c].name = n
      /\ Working(c)' <=> op'[c].step \notin {"history", "deleting", "replied"}
      /\ Working(c) <=> op[c].step \notin {"prepare", "history", "deleting"}
      /\ StageOf(c) = IF Working(c) THEN "working" ELSE "asked"
      /\ StageOf(c)' = IF Working(c)' THEN "working"
                       ELSE IF op'[c].step = "replied" THEN "over" ELSE "asked"
  <2>1. op'[c].step # "prepare" /\ op'[c].kind = kind /\ op'[c].name = n
    BY <1>1, OneCall
  <2>2. op'[c] \in Calls
    BY <1>1, <1>2, <2>1, NextType, NoOpFact DEF TypeOK, TillerTypeOK, Ops, OpKinds
  <2>3. op'[c].step \in OpSteps /\ pc'[c] = "await"
    BY <1>1, <1>2, <2>2 DEF Calls
  <2>4. Working(c)' <=> op'[c].step \notin {"history", "deleting", "replied"}
    BY <2>1, <2>3 DEF Working, Running, OpSteps
  <2>5. Working(c) <=> op[c].step \notin {"prepare", "history", "deleting"}
    BY <1>2 DEF Working
  <2>6. op[c].step # "replied"
    BY <1>1, OneCall
  <2> QED
    BY <1>2, <2>1, <2>3, <2>4, <2>5, <2>6 DEF StageOf
<1>8. CASE Working(c) /\ Working(c)'
  <2>1. PhaseOf(i)' = PhaseOf(i)
    BY <1>2, <1>6, <1>8 DEF PhaseOf, OpKinds
  <2>2. StageOf(c)' = StageOf(c)
    BY <1>7, <1>8
  <2> QED
    BY <1>1, <1>5, <2>1, <2>2 DEF OSB!vars
<1>9. ~Working(c) => PhaseOf(i) = IF Revisions(n) = {} THEN "absent"
                                  ELSE IF DeployedRevisions(n) # {} THEN "there" ELSE "leftover"
  BY <1>3, <1>6 DEF PhaseOf
<1>10. ~Working(c)' => PhaseOf(i)' = IF Revisions(n)' = {} THEN "absent"
                                     ELSE IF DeployedRevisions(n)' # {} THEN "there" ELSE "leftover"
  BY <1>3, <1>6 DEF PhaseOf
<1>11. CASE ~Working(c) /\ Working(c)'
  <2> DEFINE k == req[c].kind
  <2>1. op[c].step \in {"prepare", "history", "deleting"} /\ op'[c].step # "replied"
    BY <1>7, <1>11
  <2>2. /\ kind = "install" => Revisions(n) = {}
        /\ kind = "update" => DeployedRevisions(n) # {} /\ Revisions(n) # {}
        /\ kind = "uninstall" => Revisions(n) # {}
    <3>1. kind = "install" => Revisions(n) = {}
      <4> SUFFICES ASSUME kind = "install" PROVE Revisions(n) = {}
        OBVIOUS
      <4>1. op[c].step # "deleting"
        BY <1>1, InstallSteps DEF WorksAlone, PrepareInstall, InstallHistory, InstallRecord,
           InstallApply, WaitForResources, InstallFailed, InstallDone, At
      <4> QED
        BY <1>1, <2>1, <4>1 DEF WorksAlone, InstallAlone
    <3>2. kind = "update" => DeployedRevisions(n) # {}
      <4> SUFFICES ASSUME kind = "update" PROVE DeployedRevisions(n) # {}
        OBVIOUS
      <4>1. PrepareUpdate(c)
        BY <2>1, UpdateSteps DEF UpdateRevision, UpdateRecord, UpdateApply, WaitForResources,
           UpdateRecordOld, UpdateFailed, UpdateSupersede, UpdateDone, At
      <4>2. ~Reply(c, FALSE)
        BY <1>1, <1>2, <2>1, ReplyFields
      <4> QED
        BY <4>1, <4>2 DEF PrepareUpdate
    <3>3. kind = "uninstall" => Revisions(n) # {}
      <4> SUFFICES ASSUME kind = "uninstall" PROVE Revisions(n) # {}
        OBVIOUS
      <4>1. op[c].step # "history"
        BY <1>1, UninstallSteps DEF WorksAlone, UninstallHistory, UninstallDeleting,
           UninstallRemove, UninstallHooked, UninstallPurge, At
      <4> QED
        BY <1>1, <1>2, <2>1, <4>1 DEF EndsAsFound, At, WorksAlone, UninstallAlone
    <3> QED
      BY <3>1, <3>2, <3>3, DeployedAreRevisions
  <2>3. k \in DOMAIN OSB!Work /\ PhaseOf(i) \in OSB!Work[k].from /\ PhaseOf(i)' = OSB!Work[k].by
    BY <1>2, <1>4, <1>6, <1>9, <1>11, <2>2, WorkFact DEF PhaseOf, OpKinds
  <2>4. StageOf(c) = "asked" /\ StageOf(c)' = "working"
    BY <1>7, <1>11
  <2> HIDE DEF k
  <2>5. AskedOf(c).kind = k /\ AskedOf(c).inst = i
    BY <1>3 DEF k
  <2>6. OSB!Begin(c)
    BY <1>1, <1>3, <1>5, <2>3, <2>4, <2>5 DEF OSB!Begin, OSB!Phase
  <2> QED
    BY <1>1, <2>6 DEF OSB!Next
<1>12. CASE ~Working(c) /\ ~Working(c)'
  <2>1. /\ op[c].step \in {"prepare", "history", "deleting"}
        /\ op'[c].step \in {"history", "deleting", "replied"}
    BY <1>7, <1>12
  <2>2. UNCHANGED store
    BY <1>1, <2>1, WorkBegins
  <2>3. PhaseOf(i)' = PhaseOf(i)
    BY <1>9, <1>10, <1>12, <2>2, SameSets
  <2>4. \A j \in Instances : PhaseOf(j)' = PhaseOf(j)
    BY <1>5, <2>3
  <2>5. /\ [j \in Instances |-> PhaseOf(j)]' = [j \in Instances |-> PhaseOf(j)]
        /\ [r \in Requests |-> AskedOf(r)]' = [r \in Requests |-> AskedOf(r)]
    BY <1>5, <2>4
  <2>6. CASE op'[c].step # "replied"
    <3>1. StageOf(c)' = StageOf(c)
      BY <1>7, <1>12, <2>6
    <3> QED
      BY <1>1, <1>5, <2>5, <3>1 DEF OSB!vars
  <2>7. CASE op'[c].step = "replied"
    <3>1. StageOf(c) = "asked" /\ StageOf(c)' = "over"
      BY <1>7, <1>12, <2>7
    <3>2. AskedOf(c).kind \in DOMAIN OSB!Work
      BY <1>2, <1>3, <1>4, WorkFact DEF OpKinds
    <3>3. [r \in Requests |-> StageOf(r)]' = [[r \in Requests |-> StageOf(r)] EXCEPT ![c] = "over"]
      BY <1>5, <3>1
    <3>4. OSB!Refuse(c)
      BY <1>1, <2>5, <3>1, <3>2, <3>3 DEF OSB!Refuse
    <3> QED
      BY <1>1, <3>4 DEF OSB!Next
  <2> QED
    BY <2>6, <2>7
<1>13. CASE Working(c) /\ ~Working(c)'
  <2> DEFINE k == req[c].kind
  <2>1. op[c].step \notin {"prepare", "history", "deleting"} /\ op'[c].step = "replied"
    BY <1>1, <1>7, <1>13, WorkBegins
  <2>2. /\ kind = "install" => Revisions(n)' # {}
        /\ kind = "update" => DeployedRevisions(n)' # {} /\ Revisions(n)' # {}
        /\ kind = "uninstall" => Revisions(n)' = {}
    <3>1. kind = "install" => Revisions(n)' # {}
      BY <1>1, <1>2, <2>1, InstallEnds DEF WorksAlone
    <3>2. kind = "update" => DeployedRevisions(n)' # {}
      BY <1>1, <1>2, <2>1, UpdateEnds DEF WorksAlone
    <3>3. kind = "uninstall" => Revisions(n)' = {}
      <4>1. kind = "uninstall" => op'[c].ok
        BY <1>1, <1>2, <2>1, UninstallEnds DEF WorksAlone
      <4> QED
        BY <1>1, <1>2, <1>7, <2>1, <4>1 DEF WorksAlone, UninstallAlone
    <3>4. DeployedRevisions(n)' \subseteq Revisions(n)'
      BY DEF DeployedRevisions, Revisions, Has
    <3> QED
      BY <3>1, <3>2, <3>3, <3>4
  <2>3. PhaseOf(i)' \in OSB!Work[k].to
    BY <1>2, <1>4, <1>10, <1>13, <2>2, WorkFact DEF OpKinds
  <2>4. StageOf(c) = "working" /\ StageOf(c)' = "over"
    BY <1>7, <1>13, <2>1
  <2> HIDE DEF k
  <2>5. AskedOf(c).kind = k /\ AskedOf(c).inst = i
    BY <1>3 DEF k
  <2>6. OSB!End(c)
    BY <1>1, <1>3, <1>5, <2>3, <2>4, <2>5 DEF OSB!End
  <2> QED
    BY <1>1, <2>6 DEF OSB!Next
<1> QED
  BY <1>8, <1>11, <1>12, <1>13

\* The phase of an instance whose request has no call at work.
LEMMA CalmPhase ==
  ASSUME SerialUse, SerialOrder, NEW r \in Requests, Open(r), ~Running(r), req[r].kind # "none"
  PROVE  PhaseOf(req[r].inst) = IF Revisions(Name(r)) = {} THEN "absent"
                                ELSE IF DeployedRevisions(Name(r)) # {} THEN "there" ELSE "leftover"
<1>1. IInv /\ OneAtATime /\ Requests = Callers
  BY DEF SerialOrder, Requests
<1>2. ASSUME NEW d \in Requests, Working(d), op[d].name = Name(r) PROVE FALSE
  <2>1. Running(d) /\ Open(d) /\ req[d].kind # "none" /\ Name(d) = op[d].name
    BY <1>1, <1>2, RunningCall DEF Working
  <2>2. d = r
    BY <1>1, <1>2, <2>1, OpenAlone
  <2> QED
    BY <2>1, <2>2
<1>3. \A k : ~WorkedOn(req[r].inst, k)
  BY <1>2 DEF WorkedOn, Name
<1> QED
  BY <1>3 DEF PhaseOf, Name

LEMMA SamePhases == ASSUME UNCHANGED <<store, op>> PROVE \A i \in Instances : PhaseOf(i)' = PhaseOf(i)
  BY SamePhase DEF WorkedOn, Working, Running

LEMMA AnswerSimulates ==
  ASSUME SerialUse, SerialOrder, NEW r \in Requests, NEW code, Answer(r, code),
         UNCHANGED <<store, op, req>>, Open(r), ~Running(r), req[r].kind # "none",
         code \in OSB!Codes(req[r].kind, StageOf(r), PhaseOf(req[r].inst))
  PROVE  OSB!Answer(r)
<1>1. TypeOK
  BY DEF SerialOrder, IInv
<1>2. /\ req[r].inst \in Instances
      /\ AskedOf(r).kind = req[r].kind /\ AskedOf(r).inst = req[r].inst
  BY <1>1, AskedRequest
<1>3. /\ pc'[r] = "done" /\ \A q \in Requests \ {r} : pc'[q] = pc[q]
      /\ reply' = [reply EXCEPT ![r] = code]
  BY <1>1 DEF Answer, Proceed, TypeOK
<1>4. StageOf(r) \in {"asked", "over"} /\ StageOf(r)' = "answered"
  <2>1. ~Working(r) /\ ~Working(r)'
    BY DEF Working, Running
  <2> QED
    BY <1>3, <2>1 DEF StageOf, Open
<1>5. \A q \in Requests \ {r} : StageOf(q)' = StageOf(q)
  BY <1>3 DEF StageOf, Working, Running
<1>6. [q \in Requests |-> StageOf(q)]' = [[q \in Requests |-> StageOf(q)] EXCEPT ![r] = "answered"]
  BY <1>4, <1>5
<1>7. /\ [i \in Instances |-> PhaseOf(i)]' = [i \in Instances |-> PhaseOf(i)]
      /\ [q \in Requests |-> AskedOf(q)]' = [q \in Requests |-> AskedOf(q)]
  BY AskedKept, SamePhases
<1> QED
  BY <1>2, <1>3, <1>4, <1>6, <1>7 DEF OSB!Answer, OSB!Phase

LEMMA MoveStutters ==
  ASSUME TypeOK, NEW r \in Requests, NEW s \in {"list", "values", "gone"}, Proceed(r, s),
         Open(r), UNCHANGED <<store, op, req, reply>>
  PROVE  UNCHANGED OSB!vars
<1>1. pc'[r] = s /\ \A q \in Requests \ {r} : pc'[q] = pc[q]
  BY DEF Proceed, TypeOK
<1>2. \A q \in Requests : StageOf(q)' = StageOf(q)
  BY <1>1 DEF StageOf, Working, Running, Open
<1> QED
  BY <1>2, AskedKept, SamePhases DEF OSB!vars

LEMMA SendStutters ==
  ASSUME TypeOK, NEW r \in Requests, NEW kind, NEW cfg, Send(r, kind, cfg), op[r] = NoOp,
         Open(r), UNCHANGED req
  PROVE  UNCHANGED OSB!vars
<1>1. /\ pc'[r] = "await" /\ \A q \in Requests \ {r} : pc'[q] = pc[q] /\ op'[q] = op[q]
      /\ op'[r].step = "prepare" /\ UNCHANGED <<store, reply>>
  BY DEF Send, Proceed, TypeOK, TillerTypeOK, Requests, Call
<1>2. ~Working(r) /\ ~Working(r)' /\ StageOf(r) = "asked" /\ StageOf(r)' = "asked"
  BY <1>1, NoOpFact DEF StageOf, Working, Running, Open
<1>3. \A q \in Requests : StageOf(q)' = StageOf(q)
  BY <1>1, <1>2 DEF StageOf, Working, Running
<1>4. \A i \in Instances : \A k : WorkedOn(i, k)' <=> WorkedOn(i, k)
  BY <1>1, <1>2 DEF WorkedOn, Working, Running
<1>5. \A i \in Instances : PhaseOf(i)' = PhaseOf(i)
  BY <1>1, <1>4, SamePhase
<1> QED
  BY <1>1, <1>3, <1>5, AskedKept DEF OSB!vars

LEMMA ReceiveSimulates ==
  ASSUME SerialUse, SerialOrder, NEW r \in Requests, Receive(r)
  PROVE  OSB!Ask(r)
<1>1. TypeOK /\ CallMatchesRequest /\ UNCHANGED <<store, op, reply>> /\ pc[r] = "idle"
  BY DEF SerialOrder, IInv, Receive, tillerVars
<1>2. PICK s \in Shapes : /\ \A q \in Requests : Open(q) => req[q].inst # s.inst
                          /\ req' = [req EXCEPT ![r] = s] /\ Proceed(r, FirstStep(s.kind))
  BY DEF Receive, SerialUse
<1>3. s.kind \in Kinds /\ s.inst \in Instances
  BY BrokerAssumption DEF RequestShapes
<1>4. /\ req'[r] = s /\ pc'[r] \in {"status", "exists"}
      /\ \A q \in Requests \ {r} : req'[q] = req[q] /\ pc'[q] = pc[q]
  BY <1>1, <1>2 DEF TypeOK, Proceed, FirstStep
<1>5. op[r] = NoOp
  BY <1>1 DEF CallMatchesRequest, Matches
<1>6. StageOf(r) = "idle" /\ StageOf(r)' = "asked"
  BY <1>1, <1>4, <1>5, NoOpFact DEF StageOf, Working, Running
<1>7. \A q \in Requests \ {r} : StageOf(q)' = StageOf(q) /\ AskedOf(q)' = AskedOf(q)
  BY <1>1, <1>4 DEF StageOf, Working, Running, AskedOf
<1>8. AskedOf(r)' = [kind |-> s.kind, inst |-> s.inst]
  BY <1>3, <1>4 DEF AskedOf, NoRequest, Kinds
<1>9. \A q \in Requests : StageOf(q) \notin {"idle", "answered"} => AskedOf(q).inst # s.inst
  <2> SUFFICES ASSUME NEW q \in Requests, StageOf(q) \notin {"idle", "answered"}
               PROVE  AskedOf(q).inst # s.inst
    OBVIOUS
  <2>1. Open(q)
    BY <1>1 DEF StageOf, Open, SerialOrder, OneAtATime, Working
  <2>2. req[q].inst # s.inst
    BY <1>2, <2>1
  <2> QED
    BY <2>2 DEF AskedOf
<1>10. /\ [q \in Requests |-> StageOf(q)]' = [[q \in Requests |-> StageOf(q)] EXCEPT ![r] = "asked"]
       /\ [q \in Requests |-> AskedOf(q)]'
            = [[q \in Requests |-> AskedOf(q)] EXCEPT ![r] = [kind |-> s.kind, inst |-> s.inst]]
  BY <1>6, <1>7, <1>8
<1>11. [i \in Instances |-> PhaseOf(i)]' = [i \in Instances |-> PhaseOf(i)]
  BY <1>1, SamePhases
<1>12. s.kind \in OSB!Kinds
  BY <1>3 DEF Kinds, OSB!Kinds
<1> QED
  BY <1>1, <1>3, <1>6, <1>9, <1>10, <1>11, <1>12 DEF OSB!Ask, OSB!Open

\* A handler answers what came of its call, or what it found.
LEMMA HandlerSimulates ==
  ASSUME SerialUse, LifecycleInv, NEW r \in Requests, Handler(r), NEW n, n = Name(r)
  PROVE  OSB!Next \/ UNCHANGED OSB!vars
<1> DEFINE ph == PhaseOf(req[r].inst)
           Allowed(code) == code \in OSB!Codes(req[r].kind, StageOf(r), ph)
           Goal == OSB!Next \/ UNCHANGED OSB!vars
<1>1. /\ SerialOrder /\ TypeOK /\ IInv /\ OneAtATime /\ Requests = Callers /\ ~Unreachable
      /\ EndsAsFound(r) /\ Matches(r) /\ op[r] \in Ops /\ \A m \in Names : Settled(m)
  BY DEF LifecycleInv, SerialInv, SerialOrder, IInv, Requests, CallMatchesRequest, TypeOK,
     TillerTypeOK, SerialUse, Unreachable
<1>2. Open(r)
  BY DEF Handler, Provision, Update, Deprovision, Return, GetRelease, BindStatus, BindValues,
     Unbind, LastOperation, LastOperationError, Is, Open
<1>3. ~Running(r)
  BY <1>1 DEF OneAtATime, Running, Handler, Provision, Update, Deprovision, Return, GetRelease,
     BindStatus, BindValues, Unbind, LastOperation, LastOperationError, Is
<1>4. req[r].kind # "none"
  BY <1>1, NoOpFact DEF Handler, Provision, Update, Deprovision, Return, GetRelease, BindStatus,
     BindValues, Unbind, LastOperation, LastOperationError, Is, Matches, Ops, Calls, OpKinds
<1>5. ph = IF Revisions(n) = {} THEN "absent"
           ELSE IF DeployedRevisions(n) # {} THEN "there" ELSE "leftover"
  BY <1>1, <1>2, <1>3, <1>4, CalmPhase
<1>6. DeployedRevisions(n) \subseteq Revisions(n)
  BY DeployedAreRevisions
<1>7. StageOf(r) = IF op[r].step = "replied" THEN "over" ELSE "asked"
  BY <1>2, <1>3 DEF StageOf, Working, Open
<1>8. ASSUME NEW code, Answer(r, code), UNCHANGED <<store, op, req>>, Allowed(code)
      PROVE  Goal
  BY <1>1, <1>2, <1>3, <1>4, <1>8, AnswerSimulates DEF OSB!Next
<1>9. ASSUME NEW s \in {"list", "values", "gone"}, Proceed(r, s),
             UNCHANGED <<store, op, req, reply>>
      PROVE  Goal
  BY <1>1, <1>2, <1>9, MoveStutters
<1>10. ASSUME NEW kind, NEW cfg, Send(r, kind, cfg), pc[r] = "exists", UNCHANGED req
       PROVE  Goal
  BY <1>1, <1>2, <1>10, SendStutters DEF Matches
<1>11. Exists(r) <=> Revisions(n) # {}
  BY <1>1 DEF Exists
<1>12. \A v : IsLatest(n, v) => Revisions(n) # {}
  BY LatestIsRevision
<1>13. pc[r] = "exists" => StageOf(r) = "asked"
  BY <1>1, <1>7, NoOpFact DEF Matches
<1> SUFFICES Goal
  OBVIOUS
<1> HIDE DEF Goal, ph
<1>14. CASE Provision(r)
  <2>1. Exists(r) => Allowed("409")
    BY <1>5, <1>11, <1>13, <1>14 DEF Provision, Is, OSB!Codes
  <2>2. ~Exists(r) => Allowed("500")
    BY <1>5, <1>11, <1>13, <1>14 DEF Provision, Is, OSB!Codes
  <2> HIDE DEF Allowed
  <2> QED
    BY <1>1, <1>8, <1>10, <1>14, <2>1, <2>2 DEF Provision, Is, tillerVars
<1>15. CASE Update(r)
  <2>1. Allowed("500")
    BY <1>13, <1>15 DEF Update, Is, OSB!Codes
  <2> HIDE DEF Allowed
  <2> QED
    BY <1>8, <1>10, <1>15, <2>1 DEF Update, Is, tillerVars
<1>16. CASE Deprovision(r)
  <2>1. ~Exists(r) => Allowed("410")
    BY <1>5, <1>11, <1>13, <1>16 DEF Deprovision, Is, OSB!Codes
  <2> HIDE DEF Allowed
  <2> QED
    BY <1>8, <1>10, <1>16, <2>1 DEF Deprovision, Is, tillerVars
<1>17. CASE Return(r)
  <2>1. pc[r] = "await" /\ op[r].step = "replied" /\ StageOf(r) = "over"
    BY <1>7, <1>17 DEF Return
  <2>2. op[r].kind \in OpKinds /\ op[r].name = n
    <3>1. op[r].kind \in OpKinds
      BY <1>1, <2>1, NoOpFact DEF Ops, Calls
    <3> QED
      BY <1>1, <3>1 DEF OpKinds, Matches
  <2>3. /\ op[r].kind = "install" <=> req[r].kind = "provision"
        /\ op[r].kind = "uninstall" <=> req[r].kind = "deprovision"
        /\ op[r].kind = "update" <=> req[r].kind = "update"
    <3>1. CallValues(r)
      BY <1>1 DEF LifecycleInv, SerialInv
    <3>2. op[r].kind = "update" => req[r].kind = "update"
      BY <3>1 DEF CallValues
    <3> QED
      BY <1>1, <2>2, <3>2 DEF OpKinds, Matches, OneAtATime
  <2>4. /\ op[r].kind = "install" => (op[r].ok <=> DeployedRevisions(n) # {})
        /\ op[r].kind = "update" /\ op[r].ok => Revisions(n) # {}
        /\ op[r].kind = "uninstall" => (op[r].ok <=> Revisions(n) = {})
    BY <1>1, <2>1, <2>2 DEF EndsAsFound
  <2>5. UNCHANGED <<store, op, req>>
    BY <1>17 DEF Return, tillerVars
  <2>6. CASE req[r].kind = "provision"
    <3>1. op[r].ok => Allowed("201")
      BY <1>5, <1>6, <2>1, <2>3, <2>4, <2>6 DEF OSB!Codes
    <3>2. ~op[r].ok => Allowed("500")
      BY <1>5, <1>6, <2>1, <2>3, <2>4, <2>6 DEF OSB!Codes
    <3> HIDE DEF Allowed
    <3> QED
      BY <1>8, <1>17, <2>5, <2>6, <3>1, <3>2 DEF Return, Failed
  <2>7. CASE req[r].kind = "update"
    <3>1. op[r].ok => Allowed("200")
      BY <1>5, <1>6, <2>1, <2>3, <2>4, <2>7 DEF OSB!Codes
    <3> HIDE DEF Allowed
    <3> QED
      BY <1>8, <1>9, <1>17, <2>5, <2>7, <3>1 DEF Return, Failed
  <2>8. CASE req[r].kind = "deprovision"
    <3>1. op[r].ok => Allowed("200")
      BY <1>5, <1>6, <2>1, <2>3, <2>4, <2>8 DEF OSB!Codes
    <3>2. ~op[r].ok => Allowed("500")
      BY <1>5, <1>6, <2>1, <2>3, <2>4, <2>8 DEF OSB!Codes
    <3> HIDE DEF Allowed
    <3> QED
      BY <1>8, <1>17, <2>5, <2>8, <3>1, <3>2 DEF Return, Failed
  <2> QED
    BY <2>2, <2>3, <2>6, <2>7, <2>8 DEF OpKinds
<1>18. CASE GetRelease(r)
  <2>1. req[r].kind = "update" /\ StageOf(r) = "over"
    BY <1>1, <1>7, <1>18 DEF GetRelease, Is, EndsAsFound
  <2>2. Allowed("500")
    BY <2>1 DEF OSB!Codes
  <2>3. Cardinality(ListedRevisions(n)) = 1 => Allowed("200")
    <3>1. Revisions(n) = {} => Cardinality(ListedRevisions(n)) = 0
      BY FS_EmptySet DEF ListedRevisions
    <3> QED
      BY <1>5, <2>1, <3>1 DEF OSB!Codes
  <2> HIDE DEF Allowed
  <2> QED
    BY <1>8, <1>18, <2>2, <2>3 DEF GetRelease, tillerVars
<1>19. CASE BindStatus(r) \/ BindValues(r)
  <2>1. req[r].kind = "bind" /\ UNCHANGED <<store, op, req>>
    BY <1>19 DEF BindStatus, BindValues, Is, tillerVars
  <2>2. Allowed("500") /\ (Revisions(n) # {} => Allowed("201"))
    BY <1>5, <2>1 DEF OSB!Codes
  <2> HIDE DEF Allowed
  <2> QED
    BY <1>8, <1>9, <1>11, <1>12, <1>19, <2>1, <2>2 DEF BindStatus, BindValues
<1>20. CASE Unbind(r)
  <2>1. Allowed("200")
    BY <1>20 DEF Unbind, Is, OSB!Codes
  <2> HIDE DEF Allowed
  <2> QED
    BY <1>1, <1>8, <1>20, <2>1 DEF Unbind, tillerVars
<1>21. CASE LastOperation(r)
  <2>1. req[r].kind = "lastop" /\ pc[r] = "status" /\ UNCHANGED <<store, op, req>>
    BY <1>21 DEF LastOperation, Is, tillerVars
  <2>2. ASSUME NEW v \in Versions, NEW timedOut \in BOOLEAN, IsLatest(n, v),
               Answer(r, State(n, v, timedOut))
        PROVE  Goal
    <3>1. LatestSettled(n)
      <4>1. n \in Names
        BY <1>1, <1>4, NameType
      <4> QED
        BY <1>1, <1>2, <1>4, <2>1, <4>1, ReadIsSettled
    <3>2. store[n][v].status \in {"FAILED", "PENDING_UPGRADE", "DEPLOYED"}
      BY <2>2, <3>1 DEF LatestSettled, LeftByFailure
    <3>3. State(n, v, timedOut) \in {"failed", "succeeded", "in progress"}
      BY <3>2 DEF State, IsFailed, IsAvailable, IsDeployed, IsDeleted, IsDeleting
    <3>4. DeployedRevisions(n) = {} => State(n, v, timedOut) = "failed"
      BY <3>2 DEF State, IsFailed, DeployedRevisions
    <3>5. Allowed(State(n, v, timedOut))
      BY <1>5, <1>12, <2>1, <2>2, <3>3, <3>4 DEF OSB!Codes
    <3> HIDE DEF Allowed
    <3> QED
      BY <1>8, <2>1, <2>2, <3>5
  <2> QED
    BY <1>9, <1>21, <2>1, <2>2 DEF LastOperation
<1>22. CASE LastOperationError(r)
  <2>1. Revisions(n) = {} /\ req[r].kind = "lastop"
    BY <1>1, <1>22 DEF LastOperationError, Is, EndsAsFound
  <2>2. Allowed("410")
    BY <1>5, <2>1 DEF OSB!Codes
  <2> HIDE DEF Allowed
  <2> QED
    BY <1>1, <1>8, <1>11, <1>22, <2>1, <2>2 DEF LastOperationError, tillerVars
<1> QED
  BY <1>14, <1>15, <1>16, <1>17, <1>18, <1>19, <1>20, <1>21, <1>22 DEF Handler

LEMMA InitSimulates == Init => OSB!Init
<1> SUFFICES ASSUME Init PROVE OSB!Init
  OBVIOUS
<1>1. \A r \in Requests : StageOf(r) = "idle" /\ AskedOf(r) = NoRequest /\ ~Working(r)
  <2>1. \A r \in Requests : op[r] = NoOp /\ pc[r] = "idle" /\ req[r] = NoRequest
    BY DEF Init, TillerInit, Requests
  <2> QED
    BY <2>1, NoOpFact DEF StageOf, AskedOf, Working, Running
<1>2. \A i \in Instances : PhaseOf(i) = "absent"
  <2>1. \A i \in Instances : Revisions(getName[i]) = {}
    BY BrokerAssumption DEF Init, TillerInit, Revisions, Has, NoRecord
  <2>2. \A i, k : ~WorkedOn(i, k)
    BY <1>1 DEF WorkedOn
  <2> QED
    BY <2>1, <2>2 DEF PhaseOf
<1>3. reply = [r \in Requests |-> "none"]
  BY DEF Init
<1>4. OSB!NoRequest = NoRequest
  BY DEF OSB!NoRequest, NoRequest
<1> QED
  BY <1>1, <1>2, <1>3, <1>4 DEF OSB!Init

LEMMA NextSimulates ==
  ASSUME SerialUse, LifecycleInv, [Next]_vars
  PROVE  [OSB!Next]_(OSB!vars)
<1> DEFINE Goal == OSB!Next \/ UNCHANGED OSB!vars
<1> SUFFICES Goal
  OBVIOUS
<1>1. SerialOrder /\ Requests = Callers
  BY DEF LifecycleInv, SerialInv, Requests
<1>2. ASSUME NEW r \in Requests, Handler(r) PROVE Goal
  <2> DEFINE n == Name(r)
  <2>1. n = Name(r)
    OBVIOUS
  <2> HIDE DEF n
  <2> QED
    BY <1>2, <2>1, HandlerSimulates
<1>3. ASSUME NEW r \in Requests, Receive(r) PROVE Goal
  BY <1>1, <1>3, ReceiveSimulates DEF OSB!Next
<1>4. ASSUME NEW c \in Callers, TillerStep(c), UNCHANGED brokerVars PROVE Goal
  <2> DEFINE i == req[c].inst
             n == op[c].name
             kind == op[c].kind
  <2>1. i = req[c].inst /\ n = op[c].name /\ kind = op[c].kind
    OBVIOUS
  <2> HIDE DEF i, n, kind
  <2> QED
    BY <1>4, <2>1, TillerSimulates
<1>5. ASSUME UNCHANGED <<store, op, pc, req, reply>> PROVE Goal
  <2>1. \A r \in Requests : StageOf(r)' = StageOf(r)
    BY <1>5 DEF StageOf, Working, Running
  <2> QED
    BY <1>5, <2>1, AskedKept, SamePhases DEF OSB!vars
<1>6. ~BrokerRestart /\ (\A r \in Requests : ~BreakConnection(r)) /\ "tillerRestart" \notin Faults
  BY DEF SerialUse, BrokerRestart, BreakConnection, Unreachable
<1>7. (\E n \in Names : BecomeReady(n) /\ UNCHANGED brokerVars) \/ Finished \/ UNCHANGED vars
        => UNCHANGED <<store, op, pc, req, reply>>
  BY DEF BecomeReady, Finished, vars, brokerVars, tillerVars
<1> HIDE DEF Goal
<1> QED
  BY <1>2, <1>3, <1>4, <1>5, <1>6, <1>7 DEF Next

\* In serial use the broker on top of Tiller implements the life of an instance:
\* its handlers and Tiller's steps begin, end and answer what the platform asked
\* for, or change nothing the platform can see.
THEOREM ImplementsLifecycle == ASSUME SerialUse PROVE Spec => ImplementsOSB
<1>1. LifecycleInv /\ [Next]_vars => [OSB!Next]_(OSB!vars)
  BY NextSimulates
<1> QED
  BY <1>1, InitSimulates, LifecycleInductive, PTL DEF Spec, ImplementsOSB, OSB!Spec
=============================================================================

-------------------------- MODULE HelmBrokerProofs --------------------------
(***************************************************************************)
(* Proofs about the broker for any number of requests, instances, release  *)
(* names and revisions, and with every fault allowed: types, the inductive *)
(* invariant, a provision answered 201 has a release and objects until a   *)
(* deprovision reaches Tiller, and only a deprovision takes a release away.*)
(***************************************************************************)
EXTENDS BrokerProperties, TLAPS

-----------------------------------------------------------------------------
(***************************************************************************)
(* Type correctness.                                                       *)
(***************************************************************************)
LEMMA NoOpFact == NoOp.kind = "none" /\ NoOp.step = "idle"
  BY DEF NoOp

\* Only calls have a kind, so only calls take Tiller's steps.
LEMMA CallFact ==
  ASSUME op \in [Callers -> Ops], NEW c \in Callers, op[c].kind # "none"
  PROVE  op[c] \in Calls
  BY NoOpFact DEF Ops

LEMMA EndedType ==
  ASSUME NEW o \in Calls, NEW ok \in BOOLEAN
  PROVE  /\ Ended(o, ok) \in Calls
         /\ Ended(o, ok).kind = o.kind /\ Ended(o, ok).name = o.name
         /\ Ended(o, ok).step = "replied" /\ Ended(o, ok).ok = ok
  <1>1. EmptyConfig \in Config
    BY DEF EmptyConfig, Config
  <1>2. 0 \in 0..MaxVersion /\ {} \in SUBSET Versions /\ "replied" \in OpSteps
    BY TillerAssumption DEF OpSteps
  <1> QED
    BY <1>1, <1>2 DEF Ended, Calls

LEMMA GotoType ==
  ASSUME op \in [Callers -> Ops], NEW c \in Callers, op[c].kind # "none",
         NEW s \in OpSteps, Goto(c, s)
  PROVE  op' \in [Callers -> Ops]
  BY CallFact DEF Goto, Ops, Calls

LEMMA ReplyType ==
  ASSUME op \in [Callers -> Ops], NEW c \in Callers, op[c].kind # "none",
         NEW ok \in BOOLEAN, Reply(c, ok)
  PROVE  op' \in [Callers -> Ops]
  BY CallFact, EndedType DEF Reply, Ops

\* Writing a record keeps the store a store.
LEMMA StoreType ==
  ASSUME store \in [Names -> [Versions -> Records]],
         NEW n \in Names, NEW v, NEW rec \in Records
  PROVE  /\ [store EXCEPT ![n][v] = rec] \in [Names -> [Versions -> Records]]
         /\ Updated(n, v, rec) \in [Names -> [Versions -> Records]]
         /\ Created(n, v, rec) \in [Names -> [Versions -> Records]]
  BY DEF Updated, Created

LEMMA RecordType ==
  ASSUME NEW st \in Statuses, NEW cfg \in Config
  PROVE  [status |-> st, cfg |-> cfg] \in Records
  BY DEF Records

LEMMA VersionFact ==
  MaxVersion \in Nat /\ Versions \subseteq 0..MaxVersion /\ EmptyConfig \in Config
  BY TillerAssumption DEF Versions, EmptyConfig, Config

LEMMA InstallType ==
  ASSUME TillerTypeOK, NEW c \in Callers, InstallStep(c)
  PROVE  TillerTypeOK'
  <1> DEFINE n == op[c].name
  <1>1. op[c] \in Calls /\ op[c].kind # "none" /\ n \in Names
    <2>1. op[c].kind = "install"
      BY DEF InstallStep, PrepareInstall, InstallHistory, InstallSupersede, InstallRecord,
             InstallApply, InstallRecordOld, InstallFailed, InstallDone, At
    <2> QED
      BY <2>1, CallFact DEF TillerTypeOK, Calls
  <1>2. CASE PrepareInstall(c)
    BY <1>1, <1>2, GotoType, ReplyType DEF PrepareInstall, TillerTypeOK, OpSteps
  <1>3. CASE InstallHistory(c)
    <2>1. CASE op' = [op EXCEPT ![c].step = "record", ![c].ver = 1, ![c].old = 0] /\ MaxVersion > 0
      <3>1. 0 \in 0..MaxVersion /\ 1 \in 0..MaxVersion /\ "record" \in OpSteps
        BY <2>1, VersionFact DEF OpSteps
      <3> QED
        BY <1>1, <1>3, <2>1, <3>1 DEF InstallHistory, TillerTypeOK, Ops, Calls
    <2>2. ASSUME NEW v \in Versions, v < MaxVersion,
                 op' = [op EXCEPT ![c].step = "supersede", ![c].ver = v + 1, ![c].old = v,
                                  ![c].ocfg = store[n][v].cfg]
          PROVE  TillerTypeOK'
      <3>1. v \in 0..MaxVersion /\ v + 1 \in 0..MaxVersion /\ "supersede" \in OpSteps
        BY <2>2, VersionFact DEF OpSteps, Versions
      <3>2. store[n][v].cfg \in Config
        BY <1>1, VersionFact DEF TillerTypeOK, Records, NoRecord
      <3> QED
        BY <1>1, <1>3, <2>2, <3>1, <3>2 DEF InstallHistory, TillerTypeOK, Ops, Calls
    <2>3. CASE Reply(c, FALSE)
      BY <1>1, <1>3, <2>3, ReplyType DEF InstallHistory, TillerTypeOK
    <2> QED
      BY <1>3, <2>1, <2>2, <2>3 DEF InstallHistory
  <1>4. CASE InstallSupersede(c)
    <2>1. [status |-> "SUPERSEDED", cfg |-> op[c].ocfg] \in Records
      BY <1>1, RecordType DEF Statuses, Calls
    <2> QED
      BY <1>1, <1>4, <2>1, StoreType, GotoType DEF InstallSupersede, TillerTypeOK, OpSteps
  <1>5. CASE InstallRecord(c)
    <2>1. [status |-> "PENDING_INSTALL", cfg |-> op[c].cfg] \in Records
      BY <1>1, RecordType DEF Statuses, Calls
    <2> QED
      BY <1>1, <1>5, <2>1, StoreType, GotoType DEF InstallRecord, TillerTypeOK, OpSteps
  <1>6. CASE InstallApply(c)
    <2>1. AfterApply(c) \in OpSteps /\ OnError(c) \in OpSteps
      BY DEF AfterApply, AfterWait, OnError, OpSteps
    <2>2. Applied(c, n) => /\ objects' \in [Names -> Config \cup {None}]
                          /\ ready' \in [Names -> BOOLEAN]
      BY <1>1 DEF Applied, TillerTypeOK, Calls
    <2>3. op' \in [Callers -> Ops]
      BY <1>1, <1>6, <2>1, GotoType DEF InstallApply, TillerTypeOK
    <2> QED
      BY <1>6, <2>2, <2>3 DEF InstallApply, TillerTypeOK
  <1>7. CASE InstallFailed(c)
    <2>1. [status |-> "FAILED", cfg |-> op[c].cfg] \in Records
      BY <1>1, RecordType DEF Statuses, Calls
    <2> QED
      BY <1>1, <1>7, <2>1, StoreType, ReplyType DEF InstallFailed, TillerTypeOK
  <1>8. CASE InstallDone(c)
    <2>1. [status |-> "DEPLOYED", cfg |-> op[c].cfg] \in Records
      BY <1>1, RecordType DEF Statuses, Calls
    <2>2. Updated(n, op[c].ver, [status |-> "DEPLOYED", cfg |-> op[c].cfg])
            \in [Names -> [Versions -> Records]]
      BY <1>1, <2>1, StoreType DEF TillerTypeOK
    <2>3. store' \in [Names -> [Versions -> Records]]
      BY <1>8, <2>2 DEF InstallDone, TillerTypeOK
    <2>4. op' \in [Callers -> Ops]
      BY <1>1, <1>8, GotoType, ReplyType DEF InstallDone, TillerTypeOK, OpSteps
    <2> QED
      BY <1>8, <2>3, <2>4 DEF InstallDone, TillerTypeOK
  <1>9. CASE InstallRecordOld(c)
    <2>1. [status |-> "SUPERSEDED", cfg |-> op[c].ocfg] \in Records
      BY <1>1, RecordType DEF Statuses, Calls
    <2> QED
      BY <1>1, <1>9, <2>1, StoreType, GotoType DEF InstallRecordOld, TillerTypeOK, OpSteps
  <1> QED
    BY <1>2, <1>3, <1>4, <1>5, <1>6, <1>7, <1>8, <1>9 DEF InstallStep

LEMMA UpdateType ==
  ASSUME TillerTypeOK, NEW c \in Callers, UpdateStep(c)
  PROVE  TillerTypeOK'
  <1> DEFINE n == op[c].name
  <1>1. op[c] \in Calls /\ op[c].kind # "none" /\ n \in Names
    <2>1. op[c].kind = "update"
      BY DEF UpdateStep, PrepareUpdate, UpdateRevision, UpdateRecord, UpdateApply,
             UpdateRecordOld, UpdateFailed,
             UpdateSupersede, UpdateDone, At
    <2> QED
      BY <2>1, CallFact DEF TillerTypeOK, Calls
  <1>2. CASE PrepareUpdate(c)
    <2>1. CASE Reply(c, FALSE)
      BY <1>1, <1>2, <2>1, ReplyType DEF PrepareUpdate, TillerTypeOK
    <2>2. ASSUME NEW d \in DeployedRevisions(n),
                 op' = [op EXCEPT ![c].step = "last", ![c].old = d, ![c].ocfg = store[n][d].cfg,
                                  ![c].cfg = ReuseValues(op[c].cfg, store[n][d].cfg)]
          PROVE  TillerTypeOK'
      <3>1. d \in 0..MaxVersion /\ "last" \in OpSteps
        BY <2>2, VersionFact DEF OpSteps, Versions, DeployedRevisions
      <3>2. store[n][d].cfg \in Config
        BY <1>1, VersionFact DEF TillerTypeOK, Records, NoRecord, DeployedRevisions
      <3>3. ReuseValues(op[c].cfg, store[n][d].cfg) \in Config
        BY <1>1, <3>2 DEF ReuseValues, Calls
      <3> QED
        BY <1>1, <1>2, <2>2, <3>1, <3>2, <3>3 DEF PrepareUpdate, TillerTypeOK, Ops, Calls
    <2> QED
      BY <1>2, <2>1, <2>2 DEF PrepareUpdate
  <1>3. CASE UpdateRecord(c)
    <2>1. [status |-> "PENDING_UPGRADE", cfg |-> op[c].cfg] \in Records
      BY <1>1, RecordType DEF Statuses, Calls
    <2> QED
      <3> DEFINE created ==
                   Created(n, op[c].ver, [status |-> "PENDING_UPGRADE", cfg |-> op[c].cfg])
      <3>1. store' \in [Names -> [Versions -> Records]]
        <4>1. created \in [Names -> [Versions -> Records]]
          BY <1>1, <2>1, StoreType DEF TillerTypeOK
        <4>2. store' = store \/ store' = created
          BY <1>3 DEF UpdateRecord
        <4> QED
          BY <4>1, <4>2 DEF TillerTypeOK
      <3>2. op' \in [Callers -> Ops]
        BY <1>1, <1>3, GotoType, ReplyType DEF UpdateRecord, TillerTypeOK, OpSteps
      <3> QED
        BY <1>3, <3>1, <3>2 DEF UpdateRecord, TillerTypeOK
  <1>4. CASE UpdateApply(c)
    <2>1. AfterApply(c) \in OpSteps /\ OnError(c) \in OpSteps
      BY DEF AfterApply, AfterWait, OnError, OpSteps
    <2>2. Applied(c, n) => /\ objects' \in [Names -> Config \cup {None}]
                          /\ ready' \in [Names -> BOOLEAN]
      BY <1>1 DEF Applied, TillerTypeOK, Calls
    <2>3. op' \in [Callers -> Ops]
      BY <1>1, <1>4, <2>1, GotoType, ReplyType DEF UpdateApply, TillerTypeOK
    <2> QED
      BY <1>4, <2>2, <2>3 DEF UpdateApply, TillerTypeOK
  <1>5. CASE UpdateFailed(c)
    <2>1. [status |-> "FAILED", cfg |-> op[c].cfg] \in Records
      BY <1>1, RecordType DEF Statuses, Calls
    <2> QED
      BY <1>1, <1>5, <2>1, StoreType, ReplyType DEF UpdateFailed, TillerTypeOK
  <1>6. CASE UpdateSupersede(c)
    <2>1. [status |-> "SUPERSEDED", cfg |-> op[c].ocfg] \in Records
      BY <1>1, RecordType DEF Statuses, Calls
    <2>2. Updated(n, op[c].old, [status |-> "SUPERSEDED", cfg |-> op[c].ocfg])
            \in [Names -> [Versions -> Records]]
      BY <1>1, <2>1, StoreType DEF TillerTypeOK
    <2>3. store' \in [Names -> [Versions -> Records]]
      BY <1>6, <2>2 DEF UpdateSupersede, TillerTypeOK
    <2>4. op' \in [Callers -> Ops]
      BY <1>1, <1>6, GotoType, ReplyType DEF UpdateSupersede, TillerTypeOK, OpSteps
    <2> QED
      BY <1>6, <2>3, <2>4 DEF UpdateSupersede, TillerTypeOK
  <1>7. CASE UpdateDone(c)
    <2>1. [status |-> "DEPLOYED", cfg |-> op[c].cfg] \in Records
      BY <1>1, RecordType DEF Statuses, Calls
    <2>2. store' \in [Names -> [Versions -> Records]]
      BY <1>1, <1>7, <2>1, StoreType DEF UpdateDone, TillerTypeOK
    <2>3. op' \in [Callers -> Ops]
      <3>1. Has(n, op[c].ver) \in BOOLEAN
        BY DEF Has
      <3> QED
        BY <1>1, <1>7, <3>1, ReplyType DEF UpdateDone, TillerTypeOK
    <2> QED
      BY <1>7, <2>2, <2>3 DEF UpdateDone, TillerTypeOK
  <1>8. CASE UpdateRevision(c)
    <2>1. CASE Reply(c, FALSE)
      BY <1>1, <1>8, <2>1, ReplyType DEF UpdateRevision, TillerTypeOK
    <2>2. ASSUME NEW v \in Versions, v < MaxVersion,
                 op' = [op EXCEPT ![c].step = "record", ![c].ver = v + 1]
          PROVE  TillerTypeOK'
      <3>1. v + 1 \in 0..MaxVersion /\ "record" \in OpSteps
        BY <2>2, VersionFact DEF OpSteps, Versions
      <3> QED
        BY <1>1, <1>8, <2>2, <3>1 DEF UpdateRevision, TillerTypeOK, Ops, Calls
    <2> QED
      BY <1>8, <2>1, <2>2 DEF UpdateRevision
  <1>9. CASE UpdateRecordOld(c)
    <2>1. [status |-> "DEPLOYED", cfg |-> op[c].ocfg] \in Records
      BY <1>1, RecordType DEF Statuses, Calls
    <2> QED
      BY <1>1, <1>9, <2>1, StoreType, GotoType DEF UpdateRecordOld, TillerTypeOK, OpSteps
  <1> QED
    BY <1>2, <1>3, <1>4, <1>5, <1>6, <1>7, <1>8, <1>9 DEF UpdateStep

LEMMA UninstallType ==
  ASSUME TillerTypeOK, NEW c \in Callers, UninstallStep(c)
  PROVE  TillerTypeOK'
  <1> DEFINE n == op[c].name
  <1>1. op[c] \in Calls /\ op[c].kind # "none" /\ n \in Names
    <2>1. op[c].kind = "uninstall"
      BY DEF UninstallStep, UninstallHistory, UninstallDeleting, UninstallRemove, UninstallHooked,
             UninstallPurge, At
    <2> QED
      BY <2>1, CallFact DEF TillerTypeOK, Calls
  <1>2. CASE UninstallHistory(c)
    <2>1. CASE Reply(c, FALSE)
      BY <1>1, <1>2, <2>1, ReplyType DEF UninstallHistory, TillerTypeOK
    <2>2. ASSUME NEW v \in Versions,
                 op' = [op EXCEPT ![c].step = "deleting", ![c].ver = v,
                                  ![c].ocfg = store[n][v].cfg, ![c].seen = Revisions(n)]
          PROVE  TillerTypeOK'
      <3>1. v \in 0..MaxVersion /\ "deleting" \in OpSteps
        BY VersionFact DEF OpSteps
      <3>2. store[n][v].cfg \in Config /\ Revisions(n) \in SUBSET Versions
        BY <1>1, VersionFact DEF TillerTypeOK, Records, NoRecord, Revisions
      <3> QED
        BY <1>1, <1>2, <2>2, <3>1, <3>2 DEF UninstallHistory, TillerTypeOK, Ops, Calls
    <2> QED
      BY <1>2, <2>1, <2>2 DEF UninstallHistory
  <1>3. CASE UninstallDeleting(c)
    <2>1. [status |-> "DELETING", cfg |-> op[c].ocfg] \in Records
      BY <1>1, RecordType DEF Statuses, Calls
    <2>2. Updated(n, op[c].ver, [status |-> "DELETING", cfg |-> op[c].ocfg])
            \in [Names -> [Versions -> Records]]
      BY <1>1, <2>1, StoreType DEF TillerTypeOK
    <2>3. store' \in [Names -> [Versions -> Records]]
      BY <1>3, <2>2 DEF UninstallDeleting, TillerTypeOK
    <2>4. op' \in [Callers -> Ops]
      BY <1>1, <1>3, GotoType, ReplyType DEF UninstallDeleting, TillerTypeOK, OpSteps
    <2> QED
      BY <1>3, <2>3, <2>4 DEF UninstallDeleting, TillerTypeOK
  <1>4. CASE UninstallRemove(c)
    BY <1>1, <1>4, GotoType DEF UninstallRemove, TillerTypeOK, OpSteps
  <1>5. CASE UninstallPurge(c)
    <2>1. NoRecord \in Records
      BY DEF Records
    <2>2. store' \in [Names -> [Versions -> Records]]
      <3>1. PICK v : store' = store \/ store' = [store EXCEPT ![n][v] = NoRecord]
        BY <1>5 DEF UninstallPurge
      <3>2. [store EXCEPT ![n][v] = NoRecord] \in [Names -> [Versions -> Records]]
        BY <1>1, <2>1, StoreType DEF TillerTypeOK
      <3>3. store \in [Names -> [Versions -> Records]]
        BY DEF TillerTypeOK
      <3> QED
        BY <3>1, <3>2, <3>3
    <2>3. ASSUME NEW v, op' = [op EXCEPT ![c].seen = @ \ {v}]
          PROVE  op' \in [Callers -> Ops]
      <3>1. op[c].seen \ {v} \in SUBSET Versions
        BY <1>1 DEF Calls
      <3> QED
        BY <1>1, <2>3, <3>1 DEF TillerTypeOK, Ops, Calls
    <2>4. op' \in [Callers -> Ops]
      BY <1>1, <1>5, <2>3, ReplyType DEF UninstallPurge, TillerTypeOK
    <2> QED
      BY <1>5, <2>2, <2>4 DEF UninstallPurge, TillerTypeOK
  <1>6. CASE UninstallHooked(c)
    BY <1>1, <1>6, GotoType DEF UninstallHooked, TillerTypeOK, OpSteps
  <1> QED
    BY <1>2, <1>3, <1>4, <1>5, <1>6 DEF UninstallStep

LEMMA WaitType ==
  ASSUME TillerTypeOK, NEW c \in Callers, WaitForResources(c)
  PROVE  TillerTypeOK'
  <1>1. op[c].kind # "none"
    <2>1. op[c] \in Ops /\ op[c].step = "wait"
      BY DEF TillerTypeOK, WaitForResources
    <2> QED
      BY <2>1, NoOpFact DEF Ops, Calls, OpKinds
  <1>2. AfterWait(c) \in OpSteps /\ OnError(c) \in OpSteps
    BY DEF AfterWait, OnError, OpSteps
  <1> QED
    BY <1>1, <1>2, GotoType DEF WaitForResources, TillerTypeOK

LEMMA TillerType ==
  ASSUME TillerTypeOK, NEW c \in Callers, TillerStep(c)
  PROVE  TillerTypeOK'
  BY InstallType, UpdateType, UninstallType, WaitType DEF TillerStep

LEMMA RestartType ==
  ASSUME TillerTypeOK, TillerRestart
  PROVE  TillerTypeOK'
  <1>1. ASSUME NEW c \in Callers, Running(c)
        PROVE  Ended(op[c], FALSE) \in Ops
    <2>1. op[c] \in Calls
      BY <1>1, NoOpFact DEF TillerTypeOK, Ops, Running
    <2> QED
      BY <2>1, EndedType DEF Ops
  <1> QED
    BY <1>1 DEF TillerRestart, TillerTypeOK

\* The release name of a request that has been received.
LEMMA NameType ==
  ASSUME TypeOK, NEW r \in Requests, req[r].kind # "none"
  PROVE  req[r] \in RequestShapes /\ Name(r) \in Names
  <1>1. req[r] \in RequestShapes
    BY DEF TypeOK, NoRequest
  <1> QED
    BY <1>1, BrokerAssumption DEF RequestShapes, Name

LEMMA SendType ==
  ASSUME TypeOK, NEW r \in Requests, req[r].kind # "none", NEW kind \in OpKinds,
         NEW cfg \in Config, Send(r, kind, cfg), UNCHANGED <<req, creds>>
  PROVE  TypeOK'
  <1>1. Call(kind, Name(r), ~req[r].async, cfg) \in Ops
    <2>1. Name(r) \in Names /\ req[r].async \in BOOLEAN
      BY NameType DEF RequestShapes
    <2>2. 0 \in 0..MaxVersion /\ {} \in SUBSET Versions /\ "prepare" \in OpSteps
          /\ EmptyConfig \in Config
      BY VersionFact DEF OpSteps
    <2> QED
      BY <2>1, <2>2 DEF Call, Calls, Ops
  <1> QED
    BY <1>1 DEF Send, Proceed, TypeOK, TillerTypeOK, Requests

LEMMA AnswerType ==
  ASSUME TypeOK, NEW r \in Requests, NEW code \in Replies, Answer(r, code),
         UNCHANGED <<tillerVars, req, creds>>
  PROVE  TypeOK'
  BY DEF Answer, Proceed, TypeOK, TillerTypeOK, tillerVars

LEMMA HandlerType ==
  ASSUME TypeOK, NEW r \in Requests, Handler(r)
  PROVE  TypeOK'
  <1>1. UserParams(r) \in Params \cup {None} \/ req[r].kind = "none"
    BY NameType DEF UserParams, RequestShapes
  <1>2. CASE Provision(r)
    <2>1. req[r].kind # "none" /\ UNCHANGED <<req, creds>>
      BY <1>2 DEF Provision, Is
    <2>2. InstallValues(r) \subseteq Config
      BY <1>1, <2>1, NameType, VersionFact DEF InstallValues, Config, RequestShapes, Requests
    <2>3. CASE \E cfg \in InstallValues(r) : Send(r, "install", cfg)
      BY <2>1, <2>2, <2>3, SendType DEF OpKinds
    <2>4. CASE UNCHANGED tillerVars /\ (Answer(r, "409") \/ Answer(r, "500"))
      BY <2>1, <2>4, AnswerType DEF Replies
    <2> QED
      BY <1>2, <2>3, <2>4 DEF Provision
  <1>3. CASE Update(r)
    <2>1. req[r].kind # "none" /\ UNCHANGED <<req, creds>>
      BY <1>3 DEF Update, Is
    <2>2. UpdateValues(r) \in Config
      BY <1>1, <2>1 DEF UpdateValues, Config
    <2>3. CASE Send(r, "update", UpdateValues(r))
      BY <2>1, <2>2, <2>3, SendType DEF OpKinds
    <2>4. CASE UNCHANGED tillerVars /\ Answer(r, "500")
      BY <2>1, <2>4, AnswerType DEF Replies
    <2> QED
      BY <1>3, <2>3, <2>4 DEF Update
  <1>4. CASE Deprovision(r)
    <2>1. req[r].kind # "none" /\ UNCHANGED <<req, creds>>
      BY <1>4 DEF Deprovision, Is
    <2>2. CASE Send(r, "uninstall", EmptyConfig)
      BY <2>1, <2>2, SendType, VersionFact DEF OpKinds
    <2>3. CASE UNCHANGED tillerVars /\ Answer(r, "410")
      BY <2>1, <2>3, AnswerType DEF Replies
    <2> QED
      BY <1>4, <2>2, <2>3 DEF Deprovision
  <1>5. CASE Return(r)
    BY <1>5, AnswerType DEF Return, Failed, Replies, Proceed, TypeOK, TillerTypeOK, tillerVars
  <1>6. CASE GetRelease(r)
    BY <1>6, AnswerType DEF GetRelease, Replies
  <1>7. CASE BindStatus(r)
    <2>1. Versions \subseteq 0..MaxVersion
      BY VersionFact
    <2> QED
      BY <1>7, <2>1 DEF BindStatus, Answer, Proceed, Replies, TypeOK, TillerTypeOK, tillerVars
  <1>8. CASE BindValues(r)
    <2>1. \A v \in Versions : store[Name(r)][v].cfg \in Config
      BY <1>8, NameType, VersionFact DEF BindValues, Is, TypeOK, TillerTypeOK, Records, NoRecord
    <2>2. /\ pc' \in [Requests -> {"idle", "exists", "await", "list", "status", "values",
                                   "gone", "done"}]
          /\ reply' \in [Requests -> Replies]
          /\ UNCHANGED <<tillerVars, req>>
      BY <1>8 DEF BindValues, Answer, Proceed, Replies, TypeOK
    <2>3. creds' \in [Requests -> [rev : 0..MaxVersion, cfg : Config \cup {None}]]
      <3>1. CASE UNCHANGED creds
        BY <3>1 DEF TypeOK
      <3>2. CASE \E v \in Versions : creds' = [creds EXCEPT ![r].cfg = store[Name(r)][v].cfg]
        <4>1. PICK v \in Versions : creds' = [creds EXCEPT ![r].cfg = store[Name(r)][v].cfg]
          BY <3>2
        <4> DEFINE cfg == store[Name(r)][v].cfg
        <4>2. cfg \in Config
          BY <2>1
        <4> HIDE DEF cfg
        <4>3. creds' = [creds EXCEPT ![r].cfg = cfg]
          BY <4>1 DEF cfg
        <4> QED
          BY <4>2, <4>3 DEF TypeOK
      <3> QED
        BY <1>8, <3>1, <3>2 DEF BindValues
    <2> QED
      BY <2>2, <2>3 DEF TypeOK, TillerTypeOK, tillerVars
  <1>9. CASE Unbind(r)
    BY <1>9, AnswerType DEF Unbind, Replies
  <1>10. CASE LastOperation(r)
    <2>1. \A n, v, timedOut : State(n, v, timedOut) \in Replies
      BY DEF State, Replies
    <2> QED
      BY <1>10, <2>1, AnswerType
      DEF LastOperation, Proceed, TypeOK, TillerTypeOK, tillerVars
  <1>11. CASE LastOperationError(r)
    BY <1>11, AnswerType DEF LastOperationError, Replies
  <1> QED
    BY <1>2, <1>3, <1>4, <1>5, <1>6, <1>7, <1>8, <1>9, <1>10, <1>11 DEF Handler

LEMMA InitType == Init => TypeOK
  <1>1. NoOp \in Ops /\ NoRecord \in Records
    BY DEF Ops, Records
  <1>2. NoCredentials \in [rev : 0..MaxVersion, cfg : Config \cup {None}]
    BY TillerAssumption DEF NoCredentials
  <1> QED
    BY <1>1, <1>2 DEF Init, TillerInit, TypeOK, TillerTypeOK, Replies, Requests

LEMMA NextType == TypeOK /\ [Next]_vars => TypeOK'
  <1> SUFFICES ASSUME TypeOK, [Next]_vars PROVE TypeOK'
    OBVIOUS
  <1>1. ASSUME NEW r \in Requests, Receive(r) PROVE TypeOK'
    BY <1>1, BrokerAssumption
    DEF Receive, FirstStep, Proceed, TypeOK, TillerTypeOK, tillerVars, Requests
  <1>2. ASSUME NEW r \in Requests, Handler(r) PROVE TypeOK'
    BY <1>2, HandlerType
  <1>3. ASSUME NEW r \in Requests, BreakConnection(r) PROVE TypeOK'
    <2>1. op' \in [Callers -> Ops]
      BY <1>3 DEF BreakConnection, TypeOK, TillerTypeOK, Ops
    <2> QED
      BY <1>3, <2>1
      DEF BreakConnection, Failed, Answer, Proceed, Replies, TypeOK, TillerTypeOK
  <1>4. CASE BrokerRestart
    BY <1>4 DEF BrokerRestart, TypeOK, TillerTypeOK, tillerVars, Replies
  <1>5. ASSUME TillerTypeOK', UNCHANGED brokerVars PROVE TypeOK'
    BY <1>5 DEF TypeOK, brokerVars
  <1>6. ASSUME NEW c \in Callers, TillerStep(c), UNCHANGED brokerVars PROVE TypeOK'
    BY <1>5, <1>6, TillerType DEF TypeOK
  <1>7. ASSUME NEW n \in Names, BecomeReady(n), UNCHANGED brokerVars PROVE TypeOK'
    BY <1>5, <1>7 DEF BecomeReady, TypeOK, TillerTypeOK
  <1>8. CASE TillerRestart /\ UNCHANGED brokerVars
    BY <1>5, <1>8, RestartType DEF TypeOK
  <1>9. CASE UNCHANGED vars
    BY <1>9 DEF vars, tillerVars, brokerVars, TypeOK, TillerTypeOK
  <1> QED
    BY <1>1, <1>2, <1>3, <1>4, <1>6, <1>7, <1>8, <1>9 DEF Next, Finished

\* Every variable stays in its type, whatever requests arrive and whatever
\* breaks: in particular every handler answers with a code OSB knows.
THEOREM TypeCorrect == Spec => []TypeOK
  <1> QED
    BY InitType, NextType, PTL DEF Spec

-----------------------------------------------------------------------------
(***************************************************************************)
(* What a step leaves alone.                                               *)
(***************************************************************************)
\* A step of Tiller is a step of one call, which keeps its kind and its name
\* and is past its first step afterwards.
LEMMA OneCall ==
  ASSUME TypeOK, NEW c \in Callers, TillerStep(c)
  PROVE  /\ op[c] \in Calls /\ op[c].step # "replied"
         /\ \A d \in Callers \ {c} : op'[d] = op[d]
         /\ op'[c].kind = op[c].kind /\ op'[c].name = op[c].name
         /\ op'[c].step # "prepare"
  <1> DEFINE Kept == /\ \A d \in Callers \ {c} : op'[d] = op[d]
                     /\ op'[c].kind = op[c].kind /\ op'[c].name = op[c].name
                     /\ op'[c].step # "prepare"
  <1>1. op[c].kind # "none" /\ op[c].step # "replied"
    <2>1. CASE WaitForResources(c)
      BY <2>1, NoOpFact DEF WaitForResources, TypeOK, TillerTypeOK, Ops, Calls, OpKinds
    <2> QED
      BY <2>1 DEF TillerStep, InstallStep, UpdateStep, UninstallStep, At,
         PrepareInstall, InstallHistory, InstallSupersede, InstallRecord, InstallApply,
         InstallRecordOld, InstallFailed, InstallDone, PrepareUpdate, UpdateRevision,
         UpdateRecord, UpdateApply, UpdateRecordOld, UpdateFailed, UpdateSupersede, UpdateDone,
         UninstallHistory, UninstallDeleting, UninstallRemove, UninstallHooked, UninstallPurge
  <1>2. op \in [Callers -> Ops] /\ op[c] \in Calls
    BY <1>1, CallFact DEF TypeOK, TillerTypeOK
  <1>3. ASSUME NEW s, s # "prepare", Goto(c, s)
        PROVE  Kept
    BY <1>2, <1>3 DEF Goto, Calls
  <1>4. ASSUME NEW ok \in BOOLEAN, Reply(c, ok)
        PROVE  Kept
    BY <1>2, <1>4, EndedType DEF Reply
  <1>5. AfterWait(c) # "prepare" /\ AfterApply(c) # "prepare" /\ OnError(c) # "prepare"
    BY DEF AfterWait, AfterApply, OnError
  <1> HIDE DEF Kept
  <1>6. ASSUME InstallStep(c) PROVE Kept
    <2>1. CASE InstallHistory(c)
      <3>1. CASE op' = [op EXCEPT ![c].step = "record", ![c].ver = 1, ![c].old = 0]
        BY <1>2, <3>1 DEF Kept, Calls
      <3>2. ASSUME NEW v \in Versions,
                   op' = [op EXCEPT ![c].step = "supersede", ![c].ver = v + 1, ![c].old = v,
                                    ![c].ocfg = store[op[c].name][v].cfg]
            PROVE  Kept
        BY <1>2, <3>2 DEF Kept, Calls
      <3> QED
        BY <1>4, <2>1, <3>1, <3>2 DEF InstallHistory
    <2> QED
      BY <1>3, <1>4, <1>5, <1>6, <2>1
      DEF InstallStep, PrepareInstall, InstallSupersede, InstallRecord, InstallApply,
          InstallRecordOld, InstallFailed, InstallDone
  <1>7. ASSUME UpdateStep(c) PROVE Kept
    <2>1. CASE PrepareUpdate(c)
      <3>1. ASSUME NEW d,
                   op' = [op EXCEPT ![c].step = "last", ![c].old = d,
                                    ![c].ocfg = store[op[c].name][d].cfg,
                                    ![c].cfg = ReuseValues(op[c].cfg, store[op[c].name][d].cfg)]
            PROVE  Kept
        BY <1>2, <3>1 DEF Kept, Calls
      <3> QED
        BY <1>4, <2>1, <3>1 DEF PrepareUpdate
    <2>2. CASE UpdateDone(c)
      <3>1. Has(op[c].name, op[c].ver) \in BOOLEAN
        BY DEF Has
      <3> QED
        BY <1>4, <2>2, <3>1 DEF UpdateDone
    <2>3. CASE UpdateRevision(c)
      <3>1. ASSUME NEW v, op' = [op EXCEPT ![c].step = "record", ![c].ver = v + 1]
            PROVE  Kept
        BY <1>2, <3>1 DEF Kept, Calls
      <3> QED
        BY <1>4, <2>3, <3>1 DEF UpdateRevision
    <2> QED
      BY <1>3, <1>4, <1>5, <1>7, <2>1, <2>2, <2>3
      DEF UpdateStep, UpdateRecord, UpdateApply, UpdateRecordOld, UpdateFailed, UpdateSupersede
  <1>8. ASSUME UninstallStep(c) PROVE Kept
    <2>1. CASE UninstallHistory(c)
      <3>1. ASSUME NEW v,
                   op' = [op EXCEPT ![c].step = "deleting", ![c].ver = v,
                                    ![c].ocfg = store[op[c].name][v].cfg,
                                    ![c].seen = Revisions(op[c].name)]
            PROVE  Kept
        BY <1>2, <3>1 DEF Kept, Calls
      <3> QED
        BY <1>4, <2>1, <3>1 DEF UninstallHistory
    <2>2. CASE UninstallPurge(c)
      <3>1. ASSUME NEW v, op' = [op EXCEPT ![c].seen = @ \ {v}], op[c].step = "purge"
            PROVE  Kept
        BY <1>2, <3>1 DEF Kept, Calls
      <3> QED
        BY <1>4, <2>2, <3>1 DEF UninstallPurge, At
    <2> QED
      BY <1>3, <1>4, <1>8, <2>1, <2>2
      DEF UninstallStep, UninstallDeleting, UninstallRemove, UninstallHooked
  <1>9. ASSUME WaitForResources(c) PROVE Kept
    BY <1>3, <1>5, <1>9 DEF WaitForResources
  <1> QED
    BY <1>1, <1>2, <1>6, <1>7, <1>8, <1>9 DEF TillerStep, Kept

\* The other actions leave the storage and the objects alone, and of the calls
\* only start one, drop one that Tiller has not begun, or end them.
LEMMA OtherSteps ==
  ASSUME TypeOK, [Next]_vars
  PROVE  \/ \E c \in Callers : TillerStep(c) /\ UNCHANGED brokerVars
         \/ /\ UNCHANGED <<store, objects>>
            /\ \/ UNCHANGED op
               \/ TillerRestart /\ UNCHANGED brokerVars
               \/ \E r \in Requests, kind \in OpKinds, cfg \in Config :
                    /\ Send(r, kind, cfg) /\ pc[r] = "exists"
                    /\ kind = "install" <=> req[r].kind = "provision"
                    /\ req[r].kind # "none"
                    /\ UNCHANGED <<req, creds>>
               \/ \E r \in Requests : /\ BreakConnection(r)
                                      /\ op[r].step = "prepare"
                                      /\ op' = [op EXCEPT ![r] = NoOp]
  <1> DEFINE Quiet == UNCHANGED <<store, objects, op>>
             Sent == \E r \in Requests, kind \in OpKinds, cfg \in Config :
                       /\ Send(r, kind, cfg) /\ pc[r] = "exists"
                       /\ kind = "install" <=> req[r].kind = "provision"
                       /\ req[r].kind # "none"
                       /\ UNCHANGED <<req, creds>>
  <1>1. ASSUME NEW r \in Requests, Handler(r) PROVE Quiet \/ Sent
    <2>1. ASSUME Provision(r) PROVE Quiet \/ Sent
      <3>1. ASSUME NEW cfg \in InstallValues(r), Send(r, "install", cfg) PROVE Sent
        <4>1. cfg \in Config
          <5>1. req[r].kind # "none"
            BY <2>1 DEF Provision, Is
          <5> QED
            BY <3>1, <5>1, NameType, VersionFact
            DEF InstallValues, UserParams, Config, RequestShapes, Requests
        <4>2. "install" \in OpKinds /\ pc[r] = "exists" /\ req[r].kind = "provision"
              /\ UNCHANGED <<req, creds>>
          BY <2>1 DEF Provision, Is, OpKinds
        <4> QED
          BY <3>1, <4>1, <4>2
      <3> QED
        BY <2>1, <3>1 DEF Provision, tillerVars
    <2>2. ASSUME Update(r) PROVE Quiet \/ Sent
      <3>1. ASSUME Send(r, "update", UpdateValues(r)) PROVE Sent
        <4>1. "update" \in OpKinds /\ pc[r] = "exists" /\ req[r].kind = "update"
              /\ UNCHANGED <<req, creds>>
          BY <2>2 DEF Update, Is, OpKinds
        <4>2. UpdateValues(r) \in Config
          BY <4>1, NameType DEF UpdateValues, UserParams, Config, RequestShapes
        <4> QED
          BY <3>1, <4>1, <4>2
      <3> QED
        BY <2>2, <3>1 DEF Update, tillerVars
    <2>3. ASSUME Deprovision(r) PROVE Quiet \/ Sent
      <3>1. ASSUME Send(r, "uninstall", EmptyConfig) PROVE Sent
        <4>1. "uninstall" \in OpKinds /\ pc[r] = "exists" /\ req[r].kind = "deprovision"
              /\ UNCHANGED <<req, creds>>
          BY <2>3 DEF Deprovision, Is, OpKinds
        <4> QED
          BY <3>1, <4>1, VersionFact
      <3> QED
        BY <2>3, <3>1 DEF Deprovision, tillerVars
    <2> HIDE DEF Sent
    <2> QED
      BY <1>1, <2>1, <2>2, <2>3
      DEF Handler, Return, GetRelease, BindStatus, BindValues, Unbind, LastOperation,
          LastOperationError, tillerVars
  <1>2. ASSUME NEW r \in Requests, BreakConnection(r)
        PROVE  Quiet \/ /\ UNCHANGED <<store, objects>> /\ op[r].step = "prepare"
                        /\ op' = [op EXCEPT ![r] = NoOp]
    BY <1>2 DEF BreakConnection
  <1>3. ASSUME NEW r \in Requests, Receive(r) PROVE Quiet
    BY <1>3 DEF Receive, tillerVars
  <1>4. ASSUME NEW n \in Names, BecomeReady(n) PROVE Quiet
    BY <1>4 DEF BecomeReady
  <1>5. ASSUME BrokerRestart \/ Finished \/ UNCHANGED vars PROVE Quiet
    BY <1>5 DEF BrokerRestart, Finished, vars, tillerVars
  <1>6. Sent => UNCHANGED <<store, objects>>
    BY DEF Send
  <1>7. TillerRestart => UNCHANGED <<store, objects>>
    BY DEF TillerRestart
  <1> HIDE DEF Sent
  <1>8. \/ \E c \in Callers : TillerStep(c) /\ UNCHANGED brokerVars
        \/ TillerRestart /\ UNCHANGED brokerVars
        \/ Quiet \/ Sent
        \/ \E r \in Requests : /\ BreakConnection(r) /\ UNCHANGED <<store, objects>>
                               /\ op[r].step = "prepare"
                               /\ op' = [op EXCEPT ![r] = NoOp]
    BY <1>1, <1>2, <1>3, <1>4, <1>5 DEF Next
  <1> QED
    BY <1>6, <1>7, <1>8 DEF Sent

\* A call that is past its first step is never forgotten.
LEMMA UninstalledStays ==
  ASSUME TypeOK, CallMatchesRequest, [Next]_vars, NEW n, Uninstalled(n)
  PROVE  Uninstalled(n)'
  <1>1. PICK d \in Callers : /\ op[d].kind = "uninstall" /\ op[d].step # "prepare"
                             /\ op[d].name = n
    BY DEF Uninstalled
  <1> SUFFICES /\ op'[d].kind = "uninstall" /\ op'[d].step # "prepare" /\ op'[d].name = n
    BY DEF Uninstalled
  <1>2. op \in [Callers -> Ops]
    BY DEF TypeOK, TillerTypeOK
  <1>3. CASE \E c \in Callers : TillerStep(c)
    <2>1. PICK c \in Callers : TillerStep(c)
      BY <1>3
    <2> QED
      BY <1>1, <2>1, OneCall
  <1>4. CASE UNCHANGED op
    BY <1>1, <1>4
  <1>5. CASE TillerRestart
    <2>1. op'[d] = op[d] \/ op'[d] = Ended(op[d], FALSE)
      BY <1>5 DEF TillerRestart
    <2>2. op[d] \in Calls
      BY <1>1, <1>2, CallFact
    <2>3. /\ Ended(op[d], FALSE).kind = op[d].kind /\ Ended(op[d], FALSE).name = op[d].name
          /\ Ended(op[d], FALSE).step = "replied"
      BY <2>2, EndedType
    <2> QED
      BY <1>1, <2>1, <2>3
  <1>6. ASSUME NEW r \in Requests, NEW kind, NEW cfg, Send(r, kind, cfg), pc[r] = "exists"
        PROVE  op'[d] = op[d]
    <2>1. op[r] = NoOp
      BY <1>6 DEF CallMatchesRequest, Matches
    <2>2. d # r
      BY <1>1, <2>1, NoOpFact
    <2> QED
      BY <1>2, <1>6, <2>2 DEF Send, Requests
  <1>7. ASSUME NEW r \in Requests, op[r].step = "prepare", op' = [op EXCEPT ![r] = NoOp]
        PROVE  op'[d] = op[d]
    BY <1>1, <1>2, <1>7 DEF Requests
  <1> QED
    BY <1>1, <1>3, <1>4, <1>5, <1>6, <1>7, OtherSteps

\* Rewriting a record leaves every record where it is.
LEMMA WriteKeeps ==
  ASSUME store \in [Names -> [Versions -> Records]],
         NEW n \in Names, NEW v, NEW rec, rec.status # "ABSENT",
         NEW m \in Names, NEW w \in Versions, Has(m, w)
  PROVE  /\ [store EXCEPT ![n][v] = rec][m][w].status # "ABSENT"
         /\ Updated(n, v, rec)[m][w].status # "ABSENT"
         /\ Created(n, v, rec)[m][w].status # "ABSENT"
  <1>1. [store EXCEPT ![n][v] = rec][m][w].status # "ABSENT"
    BY DEF Has
  <1> QED
    BY <1>1 DEF Updated, Created, Has

\* Only the purge of an uninstall removes a record, and only an uninstall
\* removes objects.
LEMMA ReleaseStays ==
  ASSUME TypeOK, [Next]_vars, NEW m \in Names, NEW w \in Versions,
         Has(m, w), ~Uninstalled(m)
  PROVE  Has(m, w)'
  <1> DEFINE Rec(st, cfg) == [status |-> st, cfg |-> cfg]
             Kept == store'[m][w].status # "ABSENT"
  <1>1. store \in [Names -> [Versions -> Records]]
    BY DEF TypeOK, TillerTypeOK
  <1>2. ASSUME UNCHANGED store PROVE Kept
    BY <1>2 DEF Has
  <1>3. \A st, cfg : st # "ABSENT" => Rec(st, cfg).status # "ABSENT"
    OBVIOUS
  <1>4. ASSUME NEW c \in Callers, TillerStep(c) PROVE Kept
    <2> DEFINE n == op[c].name
    <2>1. n \in Names
      BY <1>4, OneCall DEF Calls
    <2>2. ASSUME NEW v, NEW st, st # "ABSENT", NEW cfg,
                 store' = Updated(n, v, Rec(st, cfg)) \/ store' = Created(n, v, Rec(st, cfg))
          PROVE  Kept
      <3> DEFINE rec == Rec(st, cfg)
      <3>1. rec.status # "ABSENT"
        BY <1>3, <2>2
      <3> HIDE DEF rec
      <3>2. store' = Updated(n, v, rec) \/ store' = Created(n, v, rec)
        BY <2>2 DEF rec
      <3> QED
        BY <1>1, <2>1, <3>1, <3>2, WriteKeeps
    <2> HIDE DEF Kept
    <2>3. CASE InstallStep(c) \/ WaitForResources(c)
      BY <1>2, <2>2, <2>3
      DEF InstallStep, PrepareInstall, InstallHistory, InstallSupersede, InstallRecord,
          InstallApply, InstallRecordOld, InstallFailed, InstallDone, WaitForResources
    <2>4. CASE UpdateStep(c)
      BY <1>2, <2>2, <2>4
      DEF UpdateStep, PrepareUpdate, UpdateRevision, UpdateRecord, UpdateApply,
          UpdateRecordOld, UpdateFailed, UpdateSupersede, UpdateDone
    <2>5. CASE UninstallStep(c)
      <3>1. ASSUME UninstallPurge(c) PROVE Kept
        <4>1. Uninstalled(n)
          BY <3>1 DEF UninstallPurge, At, Uninstalled
        <4>2. m # n
          BY <4>1
        <4>3. PICK v : store' = store \/ store' = [store EXCEPT ![n][v] = NoRecord]
          BY <3>1 DEF UninstallPurge
        <4> QED
          BY <1>1, <2>1, <4>2, <4>3 DEF Kept, Has
      <3> QED
        BY <1>2, <2>2, <2>5, <3>1
        DEF UninstallStep, UninstallHistory, UninstallDeleting, UninstallRemove,
            UninstallHooked
    <2> QED
      BY <1>4, <2>3, <2>4, <2>5 DEF TillerStep
  <1> QED
    BY <1>2, <1>4, OtherSteps DEF Has

LEMMA ObjectsStay ==
  ASSUME TypeOK, [Next]_vars, NEW m \in Names, objects[m] # None, ~Uninstalled(m)
  PROVE  objects'[m] # None
  <1>1. CASE UNCHANGED objects
    BY <1>1
  <1>2. ASSUME NEW c \in Callers, TillerStep(c) PROVE objects'[m] # None
    <2> DEFINE n == op[c].name
    <2>1. n \in Names /\ op[c].cfg \in Config /\ None \notin Config
      BY <1>2, OneCall, TillerAssumption DEF Calls
    <2>2. Applied(c, n) => objects'[m] # None
      BY <2>1 DEF Applied, TypeOK, TillerTypeOK
    <2>3. UninstallRemove(c) => objects'[m] # None
      <3> SUFFICES ASSUME UninstallRemove(c) PROVE objects'[m] # None
        OBVIOUS
      <3>1. Uninstalled(n)
        BY DEF UninstallRemove, At, Uninstalled
      <3>2. m # n
        BY <3>1
      <3> QED
        BY <2>1, <3>2 DEF UninstallRemove, TypeOK, TillerTypeOK
    <2>4. UNCHANGED objects => objects'[m] # None
      OBVIOUS
    <2> QED
      BY <1>2, <2>2, <2>3, <2>4
      DEF TillerStep, InstallStep, UpdateStep, UninstallStep, PrepareInstall, InstallHistory,
          InstallSupersede, InstallRecord, InstallApply, InstallRecordOld, InstallFailed,
          InstallDone, WaitForResources, PrepareUpdate, UpdateRevision, UpdateRecord,
          UpdateApply, UpdateRecordOld, UpdateFailed, UpdateSupersede, UpdateDone,
          UninstallHistory, UninstallDeleting, UninstallHooked, UninstallPurge
  <1> QED
    BY <1>1, <1>2, OtherSteps

LEMMA RevisionsStay ==
  ASSUME TypeOK, [Next]_vars, NEW m \in Names, Revisions(m) # {}, ~Uninstalled(m)
  PROVE  Revisions(m)' # {}
  <1>1. PICK w \in Versions : Has(m, w)
    BY DEF Revisions
  <1>2. Has(m, w)'
    BY <1>1, ReleaseStays
  <1> QED
    BY <1>2 DEF Revisions

\* However requests interleave and whatever fails, only a deprovision that has
\* reached Tiller takes the last record of a release away.
THEOREM DeprovisionOnly == Spec => OnlyDeprovisionRemoves
  <1>1. TypeOK /\ [Next]_vars =>
          [\A n \in Names : Revisions(n) # {} /\ Revisions(n)' = {} => Uninstalled(n)]_vars
    BY RevisionsStay
  <1> QED
    BY <1>1, TypeCorrect, PTL DEF Spec, OnlyDeprovisionRemoves

-----------------------------------------------------------------------------
(***************************************************************************)
(* The inductive invariant.                                                *)
(***************************************************************************)
\* A handler answers, waits or goes on, and its call is its own.
LEMMA HandlerMatches ==
  ASSUME TypeOK, CallMatchesRequest, NEW r \in Requests, Handler(r)
  PROVE  Matches(r)'
  <1> DEFINE Answer1(code) == pc'[r] = "done" /\ reply'[r] = code
             Alone == UNCHANGED <<op, req>>
  <1>1. /\ pc \in [Requests -> {"idle", "exists", "await", "list", "status", "values",
                                "gone", "done"}]
        /\ reply \in [Requests -> Replies] /\ op \in [Callers -> Ops]
    BY DEF TypeOK, TillerTypeOK
  <1>2. Matches(r)
    BY DEF CallMatchesRequest
  <1>3. ASSUME NEW code, Answer(r, code) PROVE Answer1(code)
    BY <1>1, <1>3 DEF Answer, Proceed
  <1>4. ASSUME NEW code, Answer1(code), Alone, code # "201" \/ req[r].kind # "provision"
        PROVE  Matches(r)'
    BY <1>2, <1>4 DEF Matches, Answered, Name
  <1>5. ASSUME NEW step, Proceed(r, step), step \notin {"idle", "exists", "status"},
               UNCHANGED reply, Alone, pc[r] # "done"
        PROVE  Matches(r)'
    BY <1>1, <1>2, <1>5 DEF Proceed, Matches, Answered, Name
  <1>6. ASSUME NEW kind \in OpKinds, NEW cfg, Send(r, kind, cfg), UNCHANGED req,
               pc[r] = "exists", req[r].kind # "none",
               kind = "install" <=> req[r].kind = "provision"
        PROVE  Matches(r)'
    <2>1. reply[r] = "none" /\ reply' = reply
      BY <1>2, <1>6 DEF Matches, Send
    <2>2. pc'[r] = "await"
      BY <1>1, <1>6 DEF Send, Proceed
    <2>3. op'[r].kind = kind /\ op'[r].name = Name(r)
      BY <1>1, <1>6 DEF Send, Call, Requests
    <2> QED
      BY <1>6, <2>1, <2>2, <2>3 DEF Matches, Answered, Name
  <1> HIDE DEF Answer1
  <1>7. CASE Provision(r)
    <2>1. pc[r] = "exists" /\ req[r].kind = "provision" /\ UNCHANGED req
      BY <1>7 DEF Provision, Is
    <2>2. CASE UNCHANGED tillerVars /\ (Answer(r, "409") \/ Answer(r, "500"))
      BY <1>3, <1>4, <2>1, <2>2 DEF tillerVars
    <2>3. ASSUME NEW cfg, Send(r, "install", cfg) PROVE Matches(r)'
      BY <1>6, <2>1, <2>3 DEF OpKinds
    <2> QED
      BY <1>7, <2>2, <2>3 DEF Provision
  <1>8. CASE Update(r)
    <2>1. pc[r] = "exists" /\ req[r].kind = "update" /\ UNCHANGED req
      BY <1>8 DEF Update, Is
    <2>2. CASE UNCHANGED tillerVars /\ Answer(r, "500")
      BY <1>3, <1>4, <2>1, <2>2 DEF tillerVars
    <2>3. CASE Send(r, "update", UpdateValues(r))
      BY <1>6, <2>1, <2>3 DEF OpKinds
    <2> QED
      BY <1>8, <2>2, <2>3 DEF Update
  <1>9. CASE Deprovision(r)
    <2>1. pc[r] = "exists" /\ req[r].kind = "deprovision" /\ UNCHANGED req
      BY <1>9 DEF Deprovision, Is
    <2>2. CASE UNCHANGED tillerVars /\ Answer(r, "410")
      BY <1>3, <1>4, <2>1, <2>2 DEF tillerVars
    <2>3. CASE Send(r, "uninstall", EmptyConfig)
      BY <1>6, <2>1, <2>3 DEF OpKinds
    <2> QED
      BY <1>9, <2>2, <2>3 DEF Deprovision
  <1>10. CASE Return(r)
    <2>1. Alone /\ op[r].step = "replied" /\ pc[r] # "done"
      BY <1>10 DEF Return, tillerVars
    <2>2. CASE op[r].ok /\ req[r].kind = "provision" /\ Answer(r, "201")
      <3>1. op[r].kind # "none"
        <4>1. op[r] \in Ops /\ op[r] # NoOp
          BY <1>1, <2>1, NoOpFact DEF Requests
        <4> QED
          BY <4>1 DEF Ops, Calls, OpKinds
      <3>2. pc'[r] = "done" /\ reply'[r] = "201"
        BY <1>3, <2>2 DEF Answer1
      <3> QED
        BY <1>2, <2>1, <2>2, <3>1, <3>2 DEF Matches, Answered, Name
    <2>3. CASE req[r].kind # "provision" /\ Answer(r, "200")
      BY <1>3, <1>4, <2>1, <2>3
    <2>4. CASE Failed(r)
      BY <1>3, <1>4, <1>5, <2>1, <2>4 DEF Failed
    <2> QED
      BY <1>10, <2>2, <2>3, <2>4 DEF Return
  <1>11. CASE GetRelease(r)
    BY <1>3, <1>4, <1>11 DEF GetRelease, tillerVars
  <1>12. CASE BindStatus(r)
    BY <1>3, <1>4, <1>5, <1>12 DEF BindStatus, Is, tillerVars
  <1>13. CASE BindValues(r)
    BY <1>3, <1>4, <1>13 DEF BindValues, Is, tillerVars
  <1>14. CASE Unbind(r)
    BY <1>3, <1>4, <1>14 DEF Unbind, tillerVars
  <1>15. CASE LastOperation(r)
    BY <1>3, <1>4, <1>5, <1>15 DEF LastOperation, Is, tillerVars
  <1>16. CASE LastOperationError(r)
    BY <1>3, <1>4, <1>16 DEF LastOperationError, tillerVars
  <1> QED
    BY <1>7, <1>8, <1>9, <1>10, <1>11, <1>12, <1>13, <1>14, <1>15, <1>16 DEF Handler

\* A step of one handler is none of another.
LEMMA OtherHandlers ==
  ASSUME TypeOK, NEW q \in Requests, Handler(q) \/ Receive(q) \/ BreakConnection(q),
         NEW r \in Requests \ {q}
  PROVE  UNCHANGED <<req[r], pc[r], reply[r], op[r]>>
  <1>1. /\ req \in [Requests -> RequestShapes \cup {NoRequest}]
        /\ pc \in [Requests -> {"idle", "exists", "await", "list", "status", "values",
                                "gone", "done"}]
        /\ reply \in [Requests -> Replies] /\ op \in [Callers -> Ops] /\ Requests = Callers
    BY DEF TypeOK, TillerTypeOK, Requests
  <1>2. \A code : Answer(q, code) => UNCHANGED <<pc[r], reply[r]>>
    BY <1>1 DEF Answer, Proceed
  <1>3. \A step : Proceed(q, step) => UNCHANGED pc[r]
    BY <1>1 DEF Proceed
  <1>4. \A kind, cfg : Send(q, kind, cfg) => UNCHANGED <<pc[r], reply[r], op[r]>>
    BY <1>1, <1>3 DEF Send
  <1>5. CASE Handler(q)
    BY <1>2, <1>3, <1>4, <1>5
    DEF Handler, Provision, Update, Deprovision, Return, Failed, GetRelease, BindStatus,
        BindValues, Unbind, LastOperation, LastOperationError, tillerVars
  <1>6. CASE Receive(q)
    BY <1>1, <1>3, <1>6 DEF Receive, tillerVars
  <1>7. CASE BreakConnection(q)
    BY <1>1, <1>2, <1>3, <1>7 DEF BreakConnection, Failed
  <1> QED
    BY <1>5, <1>6, <1>7

LEMMA MatchesStep ==
  ASSUME TypeOK, CallMatchesRequest, [Next]_vars
  PROVE  CallMatchesRequest'
  <1> SUFFICES ASSUME NEW r \in Requests PROVE Matches(r)'
    BY DEF CallMatchesRequest
  <1>1. /\ req \in [Requests -> RequestShapes \cup {NoRequest}]
        /\ pc \in [Requests -> {"idle", "exists", "await", "list", "status", "values",
                                "gone", "done"}]
        /\ reply \in [Requests -> Replies] /\ op \in [Callers -> Ops] /\ Requests = Callers
    BY DEF TypeOK, TillerTypeOK, Requests
  <1>2. Matches(r)
    BY DEF CallMatchesRequest
  <1>3. CASE UNCHANGED <<req[r], pc[r], reply[r], op[r]>>
    BY <1>2, <1>3 DEF Matches, Answered, Name
  <1>4. ASSUME NEW q \in Requests, Handler(q) \/ Receive(q) \/ BreakConnection(q), q # r
        PROVE  Matches(r)'
    BY <1>3, <1>4, OtherHandlers
  <1>5. CASE Handler(r)
    BY <1>5, HandlerMatches
  <1>6. CASE Receive(r)
    <2>1. PICK s \in Shapes : /\ pc[r] = "idle" /\ req' = [req EXCEPT ![r] = s]
                              /\ Proceed(r, FirstStep(s.kind)) /\ UNCHANGED <<op, reply>>
      BY <1>6 DEF Receive, tillerVars
    <2>2. op'[r] = NoOp /\ reply'[r] = "none"
      BY <1>2, <2>1 DEF Matches
    <2> QED
      BY <2>2, NoOpFact DEF Matches, Answered
  <1>7. CASE BreakConnection(r)
    <2>1. pc[r] = "await" /\ UNCHANGED req /\ (op'[r] = op[r] \/ op'[r] = NoOp)
      BY <1>1, <1>7 DEF BreakConnection
    <2>2. \/ pc'[r] = "done" /\ reply'[r] = "500"
          \/ pc'[r] = "list" /\ reply'[r] = reply[r]
      BY <1>1, <1>7 DEF BreakConnection, Failed, Answer, Proceed
    <2> QED
      BY <1>2, <2>1, <2>2, NoOpFact DEF Matches, Answered, Name
  <1>8. CASE BrokerRestart
    <2>1. UNCHANGED <<req, op>>
      BY <1>8 DEF BrokerRestart, tillerVars
    <2>2. \/ pc'[r] = pc[r] /\ reply'[r] = reply[r]
          \/ pc'[r] = "done" /\ reply'[r] = "dropped"
      BY <1>8 DEF BrokerRestart
    <2> QED
      BY <1>2, <2>1, <2>2 DEF Matches, Answered, Name
  <1>9. ASSUME NEW c \in Callers, TillerStep(c), UNCHANGED brokerVars PROVE Matches(r)'
    <2>1. CASE c # r
      BY <1>1, <1>3, <1>9, <2>1, OneCall DEF brokerVars
    <2>2. CASE c = r
      <3>1. op[r].kind # "none" /\ op[r].step # "replied"
        BY <1>9, <2>2, OneCall DEF Calls, OpKinds
      <3>2. op'[r].kind = op[r].kind /\ op'[r].name = op[r].name
        BY <1>9, <2>2, OneCall
      <3> QED
        BY <1>2, <1>9, <3>1, <3>2, NoOpFact DEF Matches, Answered, Name, brokerVars
    <2> QED
      BY <2>1, <2>2
  <1>10. CASE TillerRestart /\ UNCHANGED brokerVars
    <2>1. CASE ~Running(r)
      <3>1. op'[r] = op[r]
        BY <1>1, <1>10, <2>1 DEF TillerRestart
      <3> QED
        BY <1>3, <1>10, <3>1 DEF brokerVars
    <2>2. CASE Running(r)
      <3>1. op'[r] = Ended(op[r], FALSE) /\ op[r].step # "replied" /\ op[r] \in Calls
        BY <1>1, <1>10, <2>2, NoOpFact DEF TillerRestart, Running, Ops
      <3>2. op'[r].kind = op[r].kind /\ op'[r].name = op[r].name /\ op[r] # NoOp
            /\ op[r].kind # "none"
        BY <3>1, EndedType, NoOpFact DEF Calls, OpKinds
      <3> QED
        BY <1>2, <1>10, <3>1, <3>2 DEF Matches, Answered, Name, brokerVars
    <2> QED
      BY <2>1, <2>2
  <1>11. CASE UNCHANGED <<req, pc, reply, op>>
    BY <1>3, <1>11
  <1> QED
    BY <1>4, <1>5, <1>6, <1>7, <1>8, <1>9, <1>10, <1>11
    DEF Next, Finished, BecomeReady, vars, tillerVars, brokerVars

\* The traces of a call survive the steps of the others.
LEMMA TracesStay ==
  ASSUME TypeOK, CallMatchesRequest, [Next]_vars, NEW c \in Callers, LeavesTraces(c),
         UNCHANGED op[c]
  PROVE  LeavesTraces(c)'
  <1>1. CASE op[c].kind # "install"
    BY <1>1 DEF LeavesTraces
  <1>2. CASE op[c].kind = "install"
    <2>1. op[c].name \in Names
      BY <1>2, CallFact DEF TypeOK, TillerTypeOK, Calls
    <2>2. \A steps : Past(c, steps)' => Past(c, steps)
      BY UninstalledStays DEF Past
    <2>3. ASSUME Past(c, {"apply", "wait", "finish"})'
          PROVE  (Revisions(op[c].name) # {})'
      BY <1>2, <2>1, <2>2, <2>3, RevisionsStay DEF LeavesTraces, Past
    <2>4. ASSUME Past(c, {"wait", "finish"})'
          PROVE  (objects[op[c].name] # None)'
      BY <1>2, <2>1, <2>2, <2>4, ObjectsStay DEF LeavesTraces, Past
    <2>5. op'[c].step \in {"supersede", "record", "apply"} => op'[c].ver \in Versions
      BY <1>2 DEF LeavesTraces
    <2> QED
      BY <2>3, <2>4, <2>5 DEF LeavesTraces
  <1> QED
    BY <1>1, <1>2

\* A record that has been written is a revision.
LEMMA CreatedHas ==
  ASSUME store \in [Names -> [Versions -> Records]],
         NEW n \in Names, NEW v \in Versions, NEW rec, rec.status # "ABSENT"
  PROVE  Created(n, v, rec)[n][v].status # "ABSENT"
  BY DEF Created, Has

\* An install makes its record before it applies, and has objects before it
\* waits or finishes.
LEMMA OwnTraces ==
  ASSUME TypeOK, CallMatchesRequest, NEW c \in Callers, LeavesTraces(c),
         TillerStep(c), UNCHANGED brokerVars
  PROVE  LeavesTraces(c)'
  <1>n. PICK n : n = op[c].name
    OBVIOUS
  <1> DEFINE Has2 == (Revisions(n) # {})'
             Objects2 == objects'[n] # None
  <1>1. /\ op[c] \in Calls /\ n \in Names /\ op[c].step # "replied"
        /\ op'[c].kind = op[c].kind /\ op'[c].name = n
    BY <1>n, OneCall DEF Calls
  <1>2. op \in [Callers -> Ops] /\ store \in [Names -> [Versions -> Records]]
    BY DEF TypeOK, TillerTypeOK
  <1>3. [Next]_vars
    BY DEF Next
  <1>4. Uninstalled(n) => Uninstalled(n)'
    BY <1>3, UninstalledStays
  <1>5. Revisions(n) # {} => Has2 \/ Uninstalled(n)
    BY <1>1, <1>3, RevisionsStay
  <1>6. objects[n] # None => Objects2 \/ Uninstalled(n)
    BY <1>1, <1>3, ObjectsStay
  <1>7. CASE op[c].kind # "install"
    BY <1>1, <1>7 DEF LeavesTraces
  <1>8. CASE op[c].kind = "install"
    <2> DEFINE Next2(step) == op'[c].step = step
               Failed2 == op'[c].step = "replied" /\ ~op'[c].ok
    <2>1. ASSUME NEW s, Goto(c, s) PROVE Next2(s) /\ op'[c].ver = op[c].ver
      BY <1>1, <1>2, <2>1 DEF Goto, Calls
    <2>2. ASSUME Reply(c, FALSE) PROVE Failed2
      BY <1>1, <1>2, <2>2, EndedType DEF Reply
    <2>3. Failed2 => LeavesTraces(c)'
      BY DEF LeavesTraces, Past
    <2>4. Next2("history") \/ Next2("recordOld") \/ Next2("recordFailed") => LeavesTraces(c)'
      BY DEF LeavesTraces, Past
    <2>5. (Next2("supersede") \/ Next2("record")) /\ op'[c].ver \in Versions => LeavesTraces(c)'
      BY DEF LeavesTraces, Past
    <2>6. Next2("apply") /\ op'[c].ver \in Versions /\ Has2 => LeavesTraces(c)'
      BY <1>1, <1>n DEF LeavesTraces, Past
    <2>7. /\ Next2("wait") \/ Next2("finish") \/ Next2("replied")
          /\ Has2 \/ Uninstalled(n)'
          /\ Objects2 \/ Uninstalled(n)'
          => LeavesTraces(c)'
      BY <1>1 DEF LeavesTraces, Past
    <2> HIDE DEF Next2, Failed2, Has2, Objects2
    <2>8. CASE PrepareInstall(c)
      BY <2>1, <2>2, <2>3, <2>4, <2>8 DEF PrepareInstall
    <2>9. CASE InstallHistory(c)
      <3>1. CASE Reply(c, FALSE)
        BY <2>2, <2>3, <3>1
      <3>2. ASSUME ~Reply(c, FALSE)
            PROVE  (Next2("record") \/ Next2("supersede")) /\ op'[c].ver \in Versions
        <4>1. CASE /\ op' = [op EXCEPT ![c].step = "record", ![c].ver = 1, ![c].old = 0]
                   /\ MaxVersion > 0
          <5>1. 1 \in Versions
            BY <4>1, VersionFact DEF Versions
          <5> QED
            BY <1>1, <1>2, <4>1, <5>1 DEF Next2, Calls
        <4>2. ASSUME NEW v \in Versions, v < MaxVersion,
                     op' = [op EXCEPT ![c].step = "supersede", ![c].ver = v + 1, ![c].old = v,
                                      ![c].ocfg = store[n][v].cfg]
              PROVE  Next2("supersede") /\ op'[c].ver \in Versions
          <5>1. v + 1 \in Versions
            BY <4>2, VersionFact DEF Versions
          <5> QED
            BY <1>1, <1>2, <4>2, <5>1 DEF Next2, Calls
        <4> QED
          BY <1>n, <2>9, <3>2, <4>1, <4>2 DEF InstallHistory
      <3> QED
        BY <2>5, <3>1, <3>2
    <2>10. CASE InstallSupersede(c)
      BY <1>8, <2>1, <2>5, <2>10 DEF InstallSupersede, At, LeavesTraces
    <2>11. CASE InstallRecord(c)
      <3>1. Has2
        <4> DEFINE rec == [status |-> "PENDING_INSTALL", cfg |-> op[c].cfg]
        <4>1. rec.status # "ABSENT" /\ op[c].ver \in Versions
          BY <1>8, <2>11 DEF InstallRecord, At, LeavesTraces
        <4> HIDE DEF rec
        <4>2. store' = Created(n, op[c].ver, rec)
          BY <1>n, <2>11 DEF InstallRecord, rec
        <4>3. store'[n][op[c].ver].status # "ABSENT"
          BY <1>1, <1>2, <4>1, <4>2, CreatedHas
        <4> QED
          BY <4>1, <4>3 DEF Has2, Revisions, Has
      <3>2. Next2("apply") /\ op'[c].ver \in Versions
        BY <1>8, <2>1, <2>11 DEF InstallRecord, At, LeavesTraces
      <3> QED
        BY <2>6, <3>1, <3>2
    <2>12. CASE InstallApply(c)
      <3>1. Has2 \/ Uninstalled(n)'
        <4>1. Revisions(n) # {} \/ Uninstalled(n)
          BY <1>n, <1>8, <2>12 DEF InstallApply, At, LeavesTraces, Past
        <4> QED
          BY <1>4, <1>5, <4>1
      <3>2. Applied(c, n) => Objects2
        <4>1. op[c].cfg # None
          BY <1>1, TillerAssumption DEF Calls
        <4> QED
          BY <1>1, <4>1 DEF Applied, TypeOK, TillerTypeOK, Objects2
      <3>3. AfterApply(c) \in {"wait", "finish"}
        BY <1>8 DEF AfterApply, AfterWait
      <3>4. CASE Applied(c, n) /\ Goto(c, AfterApply(c))
        BY <2>1, <2>7, <3>1, <3>2, <3>3, <3>4
      <3>5. CASE Goto(c, OnError(c))
        BY <2>1, <2>4, <3>5 DEF OnError
      <3> QED
        BY <1>n, <2>12, <3>4, <3>5 DEF InstallApply
    <2>13. CASE WaitForResources(c)
      <3>1. (Has2 \/ Uninstalled(n)') /\ (Objects2 \/ Uninstalled(n)')
        <4>1. /\ Revisions(n) # {} \/ Uninstalled(n)
              /\ objects[n] # None \/ Uninstalled(n)
          BY <1>n, <1>8, <2>13 DEF WaitForResources, LeavesTraces, Past
        <4> QED
          BY <1>4, <1>5, <1>6, <4>1
      <3>2. Next2("finish") \/ Next2("recordOld") \/ Next2("recordFailed")
        BY <1>8, <2>1, <2>13 DEF WaitForResources, AfterWait, OnError
      <3> QED
        BY <2>4, <2>7, <3>1, <3>2
    <2>14. CASE InstallFailed(c)
      BY <2>2, <2>3, <2>14 DEF InstallFailed
    <2>15. CASE InstallDone(c)
      <3>0. CASE Goto(c, "recordFailed")
        BY <2>1, <2>4, <3>0
      <3>1. (Has2 \/ Uninstalled(n)') /\ (Objects2 \/ Uninstalled(n)')
        <4>1. /\ Revisions(n) # {} \/ Uninstalled(n)
              /\ objects[n] # None \/ Uninstalled(n)
          BY <1>n, <1>8, <2>15 DEF InstallDone, At, LeavesTraces, Past
        <4> QED
          BY <1>4, <1>5, <1>6, <4>1
      <3>2. CASE Reply(c, TRUE)
        <4>1. Next2("replied")
          BY <1>1, <1>2, <3>2, EndedType DEF Reply, Next2
        <4> QED
          BY <2>7, <3>1, <4>1
      <3> QED
        BY <2>15, <3>0, <3>2 DEF InstallDone
    <2>16. CASE InstallRecordOld(c)
      BY <2>1, <2>4, <2>16 DEF InstallRecordOld
    <2>17. ~UpdateStep(c) /\ ~UninstallStep(c)
      BY <1>8 DEF UpdateStep, UninstallStep, At, PrepareUpdate, UpdateRevision, UpdateRecord,
         UpdateApply, UpdateRecordOld, UpdateFailed, UpdateSupersede, UpdateDone,
         UninstallHistory, UninstallDeleting, UninstallRemove, UninstallHooked, UninstallPurge
    <2> QED
      BY <2>8, <2>9, <2>10, <2>11, <2>12, <2>13, <2>14, <2>15, <2>16, <2>17
      DEF TillerStep, InstallStep
  <1> QED
    BY <1>7, <1>8

LEMMA TracesStep ==
  ASSUME TypeOK, CallMatchesRequest, InstallLeavesTraces, [Next]_vars
  PROVE  InstallLeavesTraces'
  <1> SUFFICES ASSUME NEW c \in Callers PROVE LeavesTraces(c)'
    BY DEF InstallLeavesTraces
  <1>1. LeavesTraces(c) /\ op \in [Callers -> Ops]
    BY DEF InstallLeavesTraces, TypeOK, TillerTypeOK
  <1>2. CASE UNCHANGED op[c]
    BY <1>1, <1>2, TracesStay
  <1>3. ASSUME NEW d \in Callers, TillerStep(d), UNCHANGED brokerVars PROVE LeavesTraces(c)'
    BY <1>1, <1>2, <1>3, OwnTraces, OneCall
  <1>4. CASE TillerRestart
    <2>1. CASE Running(c)
      <3>1. op'[c] = Ended(op[c], FALSE) /\ op[c] \in Calls
        BY <1>1, <1>4, <2>1, NoOpFact DEF TillerRestart, Running, Ops
      <3> QED
        BY <3>1, EndedType DEF LeavesTraces, Past
    <2> QED
      BY <1>1, <1>2, <1>4, <2>1 DEF TillerRestart
  <1>5. ASSUME NEW r \in Requests, NEW kind, NEW cfg, Send(r, kind, cfg)
        PROVE  LeavesTraces(c)'
    <2>1. CASE c = r
      BY <1>1, <1>5, <2>1 DEF Send, Call, LeavesTraces, Past
    <2> QED
      BY <1>1, <1>2, <1>5, <2>1 DEF Send, Requests
  <1>6. ASSUME NEW r \in Requests, op' = [op EXCEPT ![r] = NoOp] PROVE LeavesTraces(c)'
    <2>1. CASE c = r
      BY <1>1, <1>6, <2>1, NoOpFact DEF LeavesTraces
    <2> QED
      BY <1>1, <1>2, <1>6, <2>1 DEF Requests
  <1>7. CASE UNCHANGED op
    BY <1>2, <1>7
  <1> QED
    BY <1>3, <1>4, <1>5, <1>6, <1>7, OtherSteps

LEMMA InitIInv == Init => IInv
  <1> SUFFICES ASSUME Init PROVE IInv
    OBVIOUS
  <1>1. \A c \in Callers : op[c] = NoOp
    BY DEF Init, TillerInit
  <1>2. CallMatchesRequest
    BY <1>1, NoOpFact DEF Init, CallMatchesRequest, Matches, Answered, Requests
  <1>3. InstallLeavesTraces
    BY <1>1, NoOpFact DEF InstallLeavesTraces, LeavesTraces
  <1> QED
    BY <1>2, <1>3, InitType DEF IInv

LEMMA NextIInv == IInv /\ [Next]_vars => IInv'
  BY NextType, MatchesStep, TracesStep DEF IInv

\* A handler and its Tiller call belong together, and an install that has come
\* past its record and its objects finds them there until a deprovision.
THEOREM Inductive == Spec => []IInv
  BY InitIInv, NextIInv, PTL DEF Spec

LEMMA AckedFollows == IInv => AckedProvisionHasRelease
  <1> SUFFICES ASSUME IInv, NEW r \in Requests, Answered(r, "provision", {"201"}),
                      ~Uninstalled(Name(r))
               PROVE  Revisions(Name(r)) # {} /\ objects[Name(r)] # None
    BY DEF AckedProvisionHasRelease
  <1>1. op[r].kind = "install" /\ op[r].step = "replied" /\ op[r].ok /\ op[r].name = Name(r)
    BY DEF IInv, CallMatchesRequest, Matches
  <1>2. LeavesTraces(r)
    BY DEF IInv, InstallLeavesTraces, Requests
  <1> QED
    BY <1>1, <1>2 DEF LeavesTraces, Past

\* No concurrency and no fault makes the broker answer 201 to a provision whose
\* release or objects are not there, unless they were deprovisioned.
THEOREM AckedProvision == Spec => []AckedProvisionHasRelease
  BY Inductive, AckedFollows, PTL
=============================================================================

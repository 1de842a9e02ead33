---------------------------- MODULE SettledProofs ----------------------------
(***************************************************************************)
(* What instances in serial use find: the latest revision, the objects and *)
(* the readiness behind a binding, a poll, an update without parameters    *)
(* and a provision that waits.  For any number of requests and instances   *)
(* under SerialUse.                                                        *)
(***************************************************************************)
EXTENDS SerialProofs

-----------------------------------------------------------------------------
(***************************************************************************)
(* The latest revision.                                                    *)
(***************************************************************************)
LEMMA OneLatest ==
  ASSUME NEW n, NEW v, NEW w, IsLatest(n, v), IsLatest(n, w)
  PROVE  v = w
<1>1. v \in Int /\ w \in Int /\ v <= w /\ w <= v
  BY TillerAssumption DEF IsLatest, Revisions, Versions
<1> QED
  BY <1>1

\* The write that ends a call leaves the release settled.
LEMMA WriteSettles ==
  ASSUME NEW n \in Names, NEW v \in Versions, NEW rec, Writes(n, v, rec), IsLatest(n, v)',
         \/ rec.status = "FAILED" /\ EndedInError(n)'
         \/ rec.status = "DEPLOYED" /\ rec.cfg = objects'[n]
  PROVE  LatestSettled(n)'
<1>1. \A w : IsLatest(n, w)' => w = v
  <2>1. \A w, u : IsLatest(n, w) /\ IsLatest(n, u) => w = u
    BY OneLatest
  <2>2. (\A w, u : IsLatest(n, w) /\ IsLatest(n, u) => w = u)'
    <3>1. \A w \in Versions : w \in Int
      BY TillerAssumption DEF Versions
    <3> QED
      BY <3>1 DEF IsLatest, Revisions
  <2> QED
    BY <2>2
<1>2. store'[n][v] = rec
  BY DEF Writes
<1> QED
  BY <1>1, <1>2 DEF LatestSettled, LeftByFailure

\* Tiller does not forget that a call ended in error.
LEMMA ErrorStays ==
  ASSUME TypeOK, NEW c \in Callers, TillerStep(c), NEW n, EndedInError(n)
  PROVE  EndedInError(n)'
  BY OneCall DEF EndedInError

LEMMA WritingRuns == ASSUME NEW c, Writing(c) PROVE Running(c)
  BY DEF Writing, Running

\* Nothing is being written where the call that runs does not write.
LEMMA CalmIsSettled ==
  ASSUME SerialUse, SerialOrder, NEW c \in Callers, Running(c), ~Writing(c),
         NEW n, n = op[c].name, Settled(n)
  PROVE  LatestSettled(n)
<1>1. IInv /\ OneAtATime
  BY DEF SerialOrder
<1>2. ASSUME NEW d \in Callers, Writing(d), op[d].name = n PROVE FALSE
  BY <1>1, <1>2, WritingRuns, RunsAlone
<1> QED
  BY <1>2 DEF Settled

\* Nor where a request that has sent no call is open.
LEMMA ReadIsSettled ==
  ASSUME SerialUse, SerialOrder, NEW r \in Requests, Open(r), pc[r] # "await",
         req[r].kind # "none", Settled(Name(r))
  PROVE  LatestSettled(Name(r))
<1>1. IInv /\ OneAtATime
  BY DEF SerialOrder
<1>2. ASSUME NEW d \in Callers, Writing(d), op[d].name = Name(r) PROVE FALSE
  <2>1. op[d].name = Name(d) /\ req[d].kind # "none" /\ Open(d) /\ pc[d] = "await"
    BY <1>1, <1>2, WritingRuns, RunningCall
  <2>2. d = r
    BY <1>1, <1>2, <2>1, OpenAlone DEF Requests
  <2> QED
    BY <2>1, <2>2
<1> QED
  BY <1>2 DEF Settled

-----------------------------------------------------------------------------
(***************************************************************************)
(* The steps of a call, and what it knows.                                 *)
(***************************************************************************)
LEMMA SameSettled ==
  ASSUME NEW n, store'[n] = store[n], objects'[n] = objects[n], LatestSettled(n),
         EndedInError(n) => EndedInError(n)'
  PROVE  LatestSettled(n)'
  BY DEF LatestSettled, LeftByFailure, IsLatest, Revisions, Has

LEMMA InstallKnows ==
  ASSUME SerialUse, TypeOK, NEW c \in Callers, TillerStep(c), op[c].kind = "install",
         UNCHANGED brokerVars, InstallAlone(c), CallValues(c), NEW n, n = op[c].name,
         InOrder(n), ~Writing(c) => LatestSettled(n)
  PROVE  CallValues(c)' /\ (Writing(c)' \/ LatestSettled(n)')
<1> DEFINE After(step) == /\ op'[c].step = step /\ op'[c].kind = "install" /\ op'[c].name = n
                          /\ op'[c].cfg = op[c].cfg /\ op'[c].wait = op[c].wait
           Ended2(ok) == /\ op'[c].step = "replied" /\ op'[c].ok = ok
                         /\ op'[c].kind = "install" /\ op'[c].name = n
           Goal == CallValues(c)' /\ (Writing(c)' \/ LatestSettled(n)')
<1>1. op[c] \in Calls /\ n \in Names /\ Running(c) /\ UNCHANGED <<req, pc>>
  BY OneCall, StepRuns DEF Calls, brokerVars
<1>2. \A s : Goto(c, s) => After(s)
  BY <1>1, GotoFields
<1>3. \A ok \in BOOLEAN : Reply(c, ok) => Ended2(ok)
  BY <1>1, ReplyFields
<1>4. /\ op[c].step \in {"record", "apply", "wait", "finish", "recordFailed"} =>
           op[c].ver = 1 /\ op[c].old = 0 /\ 1 \in Versions
      /\ op[c].step \in {"apply", "wait", "finish", "recordFailed"} => Revisions(n) = {1}
      /\ op[c].step \in {"prepare", "history", "record"} => Revisions(n) = {}
  BY DEF InstallAlone
<1>5. /\ ~req[c].async => op[c].wait
      /\ op[c].step = "apply" => objects[n] = None
      /\ op[c].step \in {"wait", "supersede", "finish"} => objects[n] = op[c].cfg
      /\ pc[c] = "await" /\ ~req[c].async /\ op[c].step = "finish" => ready[n]
  BY <1>1 DEF CallValues, At
<1>6. UNCHANGED <<store, objects>> /\ LatestSettled(n) => LatestSettled(n)'
  BY SameSettled, ErrorStays
\* An install that is not yet at its objects, or has failed.
<1>7. ASSUME \/ After("history") \/ After("record") \/ After("recordFailed")
             \/ Ended2(FALSE)
      PROVE  CallValues(c)'
  BY <1>1, <1>5, <1>7 DEF CallValues, At, Running
<1>8. CASE PrepareInstall(c)
  <2>1. LatestSettled(n)'
    BY <1>6, <1>8 DEF PrepareInstall, At, Writing
  <2>2. After("history") \/ Ended2(FALSE)
    BY <1>2, <1>3, <1>8 DEF PrepareInstall
  <2> QED
    BY <1>7, <2>1, <2>2
<1>9. CASE InstallHistory(c)
  <2>1. LatestSettled(n)'
    BY <1>6, <1>9 DEF InstallHistory, At, Writing
  <2>2. \/ op' = [op EXCEPT ![c].step = "record", ![c].ver = 1, ![c].old = 0]
        \/ Reply(c, FALSE)
    BY <1>4, <1>9, LatestIsRevision DEF InstallHistory, At
  <2>3. ASSUME op' = [op EXCEPT ![c].step = "record", ![c].ver = 1, ![c].old = 0]
        PROVE  After("record")
    BY <1>1, <2>3 DEF TypeOK, TillerTypeOK, Calls
  <2>4. After("record") \/ Ended2(FALSE)
    BY <1>3, <2>2, <2>3
  <2> QED
    BY <1>7, <2>1, <2>4
<1>10. CASE InstallRecord(c)
  <2>1. After("apply") /\ Revisions(n) = {} /\ UNCHANGED objects
    BY <1>2, <1>4, <1>10 DEF InstallRecord, At
  <2>2. objects'[n] = None
    BY <2>1 DEF InOrder
  <2> QED
    BY <1>1, <1>5, <2>1, <2>2 DEF CallValues, At, Running, Writing
<1>11. CASE InstallApply(c)
  <2>1. objects[n] = None /\ op[c].old = 0
    BY <1>4, <1>5, <1>11 DEF InstallApply, At
  <2>2. CASE Goto(c, "recordFailed")
    BY <1>2, <1>7, <2>2 DEF Writing
  <2>3. CASE Applied(c, n) /\ Goto(c, AfterApply(c))
    <3>1. objects'[n] = op[c].cfg
      BY <1>1, <2>3 DEF Applied, TypeOK, TillerTypeOK
    <3>2. After("wait") \/ (After("finish") /\ ~op[c].wait)
      BY <1>2, <2>3 DEF AfterApply, AfterWait
    <3> QED
      BY <1>1, <1>5, <3>1, <3>2 DEF CallValues, At, Running, Writing
  <2> QED
    BY <1>11, <2>1, <2>2, <2>3 DEF InstallApply, OnError
<1>12. CASE WaitForResources(c)
  <2>1. op[c].step = "wait" /\ op[c].old = 0 /\ UNCHANGED <<objects, ready>>
    BY <1>4, <1>12 DEF WaitForResources
  <2>2. CASE Goto(c, "recordFailed")
    BY <1>2, <1>7, <2>2 DEF Writing
  <2>3. CASE ready[n] /\ Goto(c, "finish")
    BY <1>1, <1>2, <1>5, <2>1, <2>3 DEF CallValues, At, Running, Writing
  <2> QED
    BY <1>12, <2>1, <2>2, <2>3 DEF WaitForResources, AfterWait, OnError
<1>13. ASSUME NEW rec, rec.status # "ABSENT", Writes(n, 1, rec), Revisions(n) = {1}, 1 \in Versions
       PROVE  IsLatest(n, 1)'
  <2>1. Revisions(n)' = {1}
    BY <1>1, <1>13, WrittenSets
  <2> QED
    BY <2>1 DEF IsLatest
<1>14. CASE InstallFailed(c)
  <2> DEFINE rec == [status |-> "FAILED", cfg |-> op[c].cfg]
  <2>1. /\ Revisions(n) = {1} /\ 1 \in Versions
        /\ store' = Updated(n, 1, rec) /\ Reply(c, FALSE)
    BY <1>4, <1>14 DEF InstallFailed, At
  <2>2. Writes(n, 1, rec)
    BY <1>1, <2>1, UpdatedWrites
  <2>3. rec.status = "FAILED"
    OBVIOUS
  <2> HIDE DEF rec
  <2>4. Ended2(FALSE)
    BY <1>3, <2>1
  <2>5. EndedInError(n)'
    BY <2>4 DEF EndedInError
  <2>6. LatestSettled(n)'
    BY <1>1, <1>13, <2>1, <2>2, <2>3, <2>5, WriteSettles
  <2> QED
    BY <1>7, <2>4, <2>6
<1>15. CASE InstallDone(c)
  <2> DEFINE rec == [status |-> "DEPLOYED", cfg |-> op[c].cfg]
  <2>1. /\ Revisions(n) = {1} /\ 1 \in Versions /\ UNCHANGED <<objects, ready>>
        /\ op[c].step = "finish"
        /\ \/ store' = Updated(n, 1, rec) /\ Reply(c, TRUE)
           \/ Goto(c, "recordFailed")
    BY <1>4, <1>15 DEF InstallDone, At
  <2>2. CASE Goto(c, "recordFailed")
    BY <1>2, <1>7, <2>2 DEF Writing
  <2>3. CASE store' = Updated(n, 1, rec) /\ Reply(c, TRUE)
    <3>1. Writes(n, 1, rec)
      BY <1>1, <2>1, <2>3, UpdatedWrites
    <3>2. rec.status = "DEPLOYED" /\ rec.cfg = objects'[n]
      BY <1>5, <2>1
    <3> HIDE DEF rec
    <3>3. LatestSettled(n)'
      BY <1>1, <1>13, <2>1, <3>1, <3>2, WriteSettles
    <3>4. Ended2(TRUE)
      BY <1>3, <2>3
    <3> QED
      BY <1>1, <1>5, <2>1, <3>3, <3>4 DEF CallValues, At, Running
  <2> QED
    BY <2>1, <2>2, <2>3
<1> QED
  BY <1>8, <1>9, <1>10, <1>11, <1>12, <1>14, <1>15, InstallSteps

\* The deployed revision keeps its values until the update supersedes it.
LEMMA UpdateKnows ==
  ASSUME SerialUse, TypeOK, NEW c \in Callers, TillerStep(c), op[c].kind = "update",
         UNCHANGED brokerVars, UpdateAlone(c), CallValues(c), NEW n, n = op[c].name,
         InOrder(n), ~Writing(c) => LatestSettled(n)
  PROVE  CallValues(c)' /\ (Writing(c)' \/ LatestSettled(n)')
<1> DEFINE After(step) == /\ op'[c].step = step /\ op'[c].kind = "update" /\ op'[c].name = n
                          /\ op'[c].ver = op[c].ver /\ op'[c].old = op[c].old
                          /\ op'[c].cfg = op[c].cfg /\ op'[c].ocfg = op[c].ocfg
                          /\ op'[c].wait = op[c].wait
           Replied == op'[c].step = "replied" /\ op'[c].kind = "update" /\ op'[c].name = n
           Goal == CallValues(c)' /\ (Writing(c)' \/ LatestSettled(n)')
<1>1. /\ op[c] \in Calls /\ n \in Names /\ Running(c) /\ UNCHANGED <<req, pc>>
      /\ UserParams(c)' = UserParams(c)
  BY OneCall, StepRuns DEF Calls, brokerVars, UserParams
<1>2. \A s : Goto(c, s) => After(s)
  BY <1>1, GotoFields
<1>3. \A ok \in BOOLEAN : Reply(c, ok) => Replied /\ op'[c].ok = ok
  BY <1>1, ReplyFields
<1>4. /\ op[c].step \in {"last", "record", "apply", "wait", "recordOld", "recordFailed", "supersede"} =>
           DeployedRevisions(n) = {op[c].old}
      /\ op[c].step \in {"apply", "wait", "recordOld", "recordFailed", "supersede", "finish"} =>
           op[c].ver \in Revisions(n) /\ op[c].ver # op[c].old
      /\ op[c].step = "record" => op[c].ver \in Versions
  BY DEF UpdateAlone
<1>5. /\ ~req[c].async => op[c].wait
      /\ op[c].step \in {"wait", "supersede", "finish"} => objects[n] = op[c].cfg
      /\ req[c].kind = "update"
      /\ op[c].step \in {"last", "record", "apply", "wait", "recordOld", "recordFailed", "supersede"}
           => op[c].ocfg = store[n][op[c].old].cfg
      /\ UserParams(c) = None /\ op[c].step = "prepare" => op[c].cfg = EmptyConfig
      /\ UserParams(c) = None /\ op[c].step # "prepare" => op[c].cfg = op[c].ocfg
      /\ op[c].step = "record" => \A w \in Revisions(n) : w < op[c].ver
      /\ op[c].step \in {"apply", "wait", "recordOld", "recordFailed", "supersede", "finish"}
           => IsLatest(n, op[c].ver)
      /\ op[c].step \in {"apply", "wait", "supersede"}
           => store[n][op[c].ver].status = "PENDING_UPGRADE"
  BY <1>1 DEF CallValues
<1>6. UNCHANGED <<store, objects>> /\ LatestSettled(n) => LatestSettled(n)'
  BY SameSettled, ErrorStays
<1>7. DeployedRevisions(n) \subseteq Revisions(n) /\ Revisions(n) \subseteq Versions
  BY DeployedAreRevisions
<1>8. Replied => CallValues(c)'
  BY <1>1, <1>5 DEF CallValues, At, Running
<1>9. ASSUME UNCHANGED <<store, objects>>, Replied, op[c].step \in {"prepare", "last", "record"}
      PROVE  Goal
  BY <1>6, <1>8, <1>9 DEF Writing
\* A step of the call between its first write and its last.
<1>10. ASSUME NEW s \in {"wait", "supersede", "finish", "recordOld", "recordFailed"}, After(s),
              op[c].step \in {"apply", "wait", "recordOld", "recordFailed", "supersede"},
              IsLatest(n, op[c].ver)',
              s # "finish" => op[c].ocfg = store'[n][op[c].old].cfg,
              s \in {"wait", "supersede", "finish"} => objects'[n] = op[c].cfg,
              s \in {"wait", "supersede"} => store'[n][op[c].ver].status = "PENDING_UPGRADE"
       PROVE  Goal
  BY <1>1, <1>5, <1>10 DEF CallValues, At, Running, Writing
\* A hook fails: the pending revision stays the latest one.
<1>20. ASSUME UNCHANGED store, Reply(c, FALSE), op[c].step \in {"apply", "supersede"}
       PROVE  Goal
  <2>1. Replied /\ EndedInError(n)'
    BY <1>3, <1>20 DEF EndedInError
  <2>2. ASSUME NEW v \in Versions, IsLatest(n, v)' PROVE store'[n][v].status = "PENDING_UPGRADE"
    <3>1. IsLatest(n, v) /\ IsLatest(n, op[c].ver)
      BY <1>5, <1>20, <2>2 DEF IsLatest, Revisions, Has
    <3>2. v = op[c].ver
      BY <3>1, OneLatest
    <3> QED
      BY <1>5, <1>20, <3>2
  <2> QED
    BY <1>8, <2>1, <2>2 DEF LatestSettled, LeftByFailure
<1>11. CASE PrepareUpdate(c)
  <2>1. UNCHANGED <<store, objects>> /\ op[c].step = "prepare" /\ LatestSettled(n)'
    BY <1>6, <1>11 DEF PrepareUpdate, At, Writing
  <2>2. ASSUME NEW d \in DeployedRevisions(n),
               op' = [op EXCEPT ![c].step = "last", ![c].old = d, ![c].ocfg = store[n][d].cfg,
                                ![c].cfg = ReuseValues(op[c].cfg, store[n][d].cfg)]
        PROVE  Goal
    <3>1. /\ op'[c].step = "last" /\ op'[c].kind = "update" /\ op'[c].name = n /\ op'[c].old = d
          /\ op'[c].ocfg = store[n][d].cfg /\ op'[c].wait = op[c].wait
          /\ op'[c].cfg = ReuseValues(op[c].cfg, store[n][d].cfg)
      BY <1>1, <2>2 DEF TypeOK, TillerTypeOK, Calls
    <3>2. UserParams(c) = None => op'[c].cfg = op'[c].ocfg
      BY <1>5, <2>1, <3>1 DEF ReuseValues
    <3> QED
      BY <1>1, <1>5, <2>1, <3>1, <3>2 DEF CallValues, At, Running
  <2> QED
    BY <1>3, <1>9, <1>11, <2>1, <2>2 DEF PrepareUpdate
<1>12. CASE UpdateRevision(c)
  <2>1. UNCHANGED <<store, objects>> /\ op[c].step = "last" /\ LatestSettled(n)'
    BY <1>6, <1>12 DEF UpdateRevision, At, Writing
  <2>2. ASSUME NEW v \in Versions, IsLatest(n, v),
               op' = [op EXCEPT ![c].step = "record", ![c].ver = v + 1]
        PROVE  Goal
    <3>1. /\ op'[c].step = "record" /\ op'[c].kind = "update" /\ op'[c].name = n
          /\ op'[c].old = op[c].old /\ op'[c].ver = v + 1 /\ op'[c].wait = op[c].wait
          /\ op'[c].cfg = op[c].cfg /\ op'[c].ocfg = op[c].ocfg
      BY <1>1, <2>2 DEF TypeOK, TillerTypeOK, Calls
    <3>2. \A w \in Revisions(n) : w < v + 1
      BY <1>7, <2>2, TillerAssumption DEF IsLatest, Versions
    <3>3. Revisions(n)' = Revisions(n)
      BY <2>1, SameSets
    <3> QED
      BY <1>1, <1>5, <2>1, <3>1, <3>2, <3>3 DEF CallValues, At, Running
  <2> QED
    BY <1>3, <1>9, <1>12, <2>1, <2>2 DEF UpdateRevision
<1>13. CASE UpdateRecord(c)
  <2> DEFINE rec == [status |-> "PENDING_UPGRADE", cfg |-> op[c].cfg]
  <2>1. op[c].step = "record" /\ op[c].ver \in Versions /\ UNCHANGED objects
    BY <1>4, <1>13 DEF UpdateRecord, At
  <2>2. ASSUME ~Has(n, op[c].ver), store' = Created(n, op[c].ver, rec), Goto(c, "apply")
        PROVE  Goal
    <3>1. op[c].ver \notin Revisions(n)
      BY <2>2 DEF Revisions
    <3>2. Writes(n, op[c].ver, rec)
      BY <1>1, <2>1, <2>2, <3>1, CreatedWrites
    <3>3. rec.status = "PENDING_UPGRADE"
      OBVIOUS
    <3> HIDE DEF rec
    <3>4. Revisions(n)' = Revisions(n) \cup {op[c].ver}
      BY <1>1, <2>1, <3>2, <3>3, WrittenSets
    <3>5. IsLatest(n, op[c].ver)'
      <4>1. op[c].ver <= op[c].ver /\ \A w \in Revisions(n) : w <= op[c].ver
        BY <1>5, <1>7, <2>1, TillerAssumption DEF Versions
      <4> QED
        BY <1>2, <2>2, <3>4, <4>1 DEF IsLatest
    <3>6. op[c].old \in Versions /\ op[c].old # op[c].ver
      BY <1>4, <1>7, <2>1, <3>1
    <3>7. store'[n][op[c].old].cfg = op[c].ocfg
      BY <1>5, <2>1, <3>2, <3>6 DEF Writes
    <3>8. store'[n][op[c].ver].status = "PENDING_UPGRADE"
      BY <2>1, <3>2, <3>3 DEF Writes
    <3> QED
      BY <1>1, <1>2, <1>5, <2>1, <2>2, <3>5, <3>7, <3>8 DEF CallValues, At, Running, Writing
  <2> QED
    BY <1>3, <1>9, <1>13, <2>1, <2>2 DEF UpdateRecord
<1>14. CASE UpdateApply(c) \/ WaitForResources(c)
  <2>1. op[c].step \in {"apply", "wait"} /\ UNCHANGED store
    BY <1>14 DEF UpdateApply, WaitForResources, At
  <2>6. CASE op[c].step = "apply" /\ Reply(c, FALSE)
    BY <1>20, <2>1, <2>6
  <2>2. ASSUME NEW s, Goto(c, s)
        PROVE  /\ IsLatest(n, op[c].ver)' /\ op[c].ocfg = store'[n][op[c].old].cfg
               /\ store'[n][op[c].ver].status = "PENDING_UPGRADE"
    <3>1. op'[c].ver = op[c].ver
      BY <1>2, <2>2
    <3> QED
      BY <1>5, <2>1, <3>1 DEF IsLatest, Revisions, Has
  <2>3. CASE Goto(c, OnError(c))
    BY <1>2, <1>10, <2>1, <2>2, <2>3 DEF OnError
  <2>4. CASE Applied(c, n) /\ Goto(c, AfterApply(c))
    <3>1. objects'[n] = op[c].cfg
      BY <1>1, <2>4 DEF Applied, TypeOK, TillerTypeOK
    <3> QED
      BY <1>2, <1>10, <2>1, <2>2, <2>4, <3>1 DEF AfterApply, AfterWait
  <2>5. CASE op[c].step = "wait" /\ UNCHANGED objects /\ Goto(c, "supersede")
    BY <1>2, <1>5, <1>10, <2>1, <2>2, <2>5
  <2> QED
    BY <1>14, <2>3, <2>4, <2>5, <2>6 DEF UpdateApply, WaitForResources, AfterWait, At
\* The writes of an existing revision.
<1>15. ASSUME NEW v \in Revisions(n), NEW rec, store' = Updated(n, v, rec), rec.status # "ABSENT",
              NEW u, IsLatest(n, u)
       PROVE  IsLatest(n, u)' /\ Writes(n, v, rec) /\ v \in Versions
  <2>1. Writes(n, v, rec) /\ v \in Versions
    BY <1>1, <1>7, <1>15, UpdatedWrites
  <2>2. Revisions(n)' = Revisions(n)
    BY <1>1, <1>15, <2>1, WrittenSets
  <2> QED
    BY <1>15, <2>1, <2>2 DEF IsLatest
<1>16. CASE UpdateRecordOld(c)
  <2> DEFINE rec == [status |-> "DEPLOYED", cfg |-> op[c].ocfg]
             u == op[c].ver
  <2>1. /\ op[c].step = "recordOld" /\ UNCHANGED objects /\ After("recordFailed")
        /\ store' = Updated(n, op[c].old, rec)
    BY <1>2, <1>16 DEF UpdateRecordOld, At
  <2>2. op[c].old \in Revisions(n) /\ IsLatest(n, u)
    BY <1>4, <1>5, <1>7, <2>1
  <2>3. rec.status = "DEPLOYED" /\ rec.cfg = op[c].ocfg
    OBVIOUS
  <2> HIDE DEF rec
  <2>4. Writes(n, op[c].old, rec) /\ op[c].old \in Versions
    BY <1>15, <2>1, <2>2, <2>3
  <2>5. IsLatest(n, op[c].ver)'
    <3>1. ASSUME NEW x, x = u PROVE IsLatest(n, x)'
      BY <1>15, <2>1, <2>2, <2>3, <3>1
    <3> QED
      BY <2>1, <3>1 DEF IsLatest
  <2>6. store'[n][op[c].old].cfg = op[c].ocfg
    BY <2>3, <2>4 DEF Writes
  <2> QED
    BY <1>10, <2>1, <2>5, <2>6
<1>17. CASE UpdateFailed(c)
  <2> DEFINE rec == [status |-> "FAILED", cfg |-> op[c].cfg]
  <2>1. /\ op[c].step = "recordFailed" /\ Replied
        /\ store' = Updated(n, op[c].ver, rec)
    BY <1>3, <1>17 DEF UpdateFailed, At
  <2>2. rec.status = "FAILED"
    OBVIOUS
  <2> HIDE DEF rec
  <2>4. EndedInError(n)'
    BY <1>3, <1>17 DEF UpdateFailed, EndedInError
  <2>3. ASSUME NEW v, v = op[c].ver PROVE LatestSettled(n)'
    <3>1. v \in Revisions(n) /\ IsLatest(n, v)
      BY <1>4, <1>5, <2>1, <2>3
    <3>2. IsLatest(n, v)' /\ Writes(n, v, rec) /\ v \in Versions
      BY <1>15, <2>1, <2>2, <2>3, <3>1
    <3> QED
      BY <1>1, <2>2, <2>4, <3>2, WriteSettles
  <2> QED
    BY <1>8, <2>1, <2>3
<1>18. CASE UpdateSupersede(c)
  <2> DEFINE rec == [status |-> "SUPERSEDED", cfg |-> op[c].ocfg]
             u == op[c].ver
  <2>1. /\ op[c].step = "supersede" /\ UNCHANGED objects
        /\ \/ store' = Updated(n, op[c].old, rec) /\ Goto(c, "finish")
           \/ Reply(c, FALSE) /\ UNCHANGED store
    BY <1>18 DEF UpdateSupersede, At
  <2>2. op[c].old \in Revisions(n) /\ IsLatest(n, u) /\ objects'[n] = op[c].cfg
    BY <1>4, <1>5, <1>7, <2>1
  <2>3. rec.status = "SUPERSEDED"
    OBVIOUS
  <2> HIDE DEF rec
  <2>4. CASE Reply(c, FALSE) /\ UNCHANGED store
    BY <1>20, <2>1, <2>4
  <2>5. CASE store' = Updated(n, op[c].old, rec) /\ Goto(c, "finish")
    <3>1. After("finish")
      BY <1>2, <2>5
    <3>2. IsLatest(n, op[c].ver)'
      <4>1. ASSUME NEW x, x = u PROVE IsLatest(n, x)'
        BY <1>15, <2>2, <2>3, <2>5, <4>1
      <4> QED
        BY <3>1, <4>1 DEF IsLatest
    <3> QED
      BY <1>10, <2>1, <2>2, <3>1, <3>2
  <2> QED
    BY <2>1, <2>4, <2>5
<1>19. CASE UpdateDone(c)
  <2> DEFINE rec == [status |-> "DEPLOYED", cfg |-> op[c].cfg]
  <2>1. /\ op[c].step = "finish" /\ Replied /\ UNCHANGED objects
        /\ store' = Updated(n, op[c].ver, rec)
    BY <1>3, <1>19 DEF UpdateDone, At, Has
  <2>2. rec.status = "DEPLOYED" /\ rec.cfg = objects'[n]
    BY <1>5, <2>1
  <2> HIDE DEF rec
  <2>3. ASSUME NEW v, v = op[c].ver PROVE LatestSettled(n)'
    <3>1. v \in Revisions(n) /\ IsLatest(n, v)
      BY <1>4, <1>5, <2>1, <2>3
    <3>2. IsLatest(n, v)' /\ Writes(n, v, rec) /\ v \in Versions
      BY <1>15, <2>1, <2>2, <2>3, <3>1
    <3> QED
      BY <1>1, <2>2, <3>2, WriteSettles
  <2> QED
    BY <1>8, <2>1, <2>3
<1> QED
  BY <1>11, <1>12, <1>13, <1>14, <1>16, <1>17, <1>18, <1>19, UpdateSteps

LEMMA UninstallKnows ==
  ASSUME SerialUse, TypeOK, NEW c \in Callers, TillerStep(c), op[c].kind = "uninstall",
         UNCHANGED brokerVars, UninstallAlone(c), UninstallAlone(c)', pc[c] = "await",
         CallValues(c), NEW n, n = op[c].name, ~Writing(c) => LatestSettled(n)
  PROVE  CallValues(c)' /\ (Writing(c)' \/ LatestSettled(n)')
<1>1. /\ op[c] \in Calls /\ n \in Names /\ Running(c) /\ UNCHANGED <<req, pc>>
  BY OneCall, StepRuns DEF Calls, brokerVars
<1>2. \A s : Goto(c, s) => /\ op'[c].step = s /\ op'[c].kind = "uninstall" /\ op'[c].name = n
                           /\ op'[c].wait = op[c].wait
  BY <1>1, GotoFields
<1>3. \A ok \in BOOLEAN : Reply(c, ok) => /\ op'[c].step = "replied" /\ op'[c].kind = "uninstall"
                                          /\ op'[c].name = n /\ op'[c].ok = ok
  BY <1>1, ReplyFields
<1>4. ASSUME op'[c].step \in {"deleting", "remove", "removed", "purge"}, op'[c].kind = "uninstall",
             op'[c].wait = op[c].wait
      PROVE  CallValues(c)'
  BY <1>1, <1>4 DEF CallValues, At, Running
<1>5. ASSUME op'[c].step = "replied", op'[c].kind = "uninstall", op'[c].name = n
      PROVE  CallValues(c)' /\ (op'[c].ok => LatestSettled(n)')
  <2>1. op'[c].ok => Revisions(n)' = {}
    BY <1>1, <1>5 DEF UninstallAlone
  <2> QED
    BY <1>5, <2>1 DEF CallValues, At, Running, LatestSettled, IsLatest
<1>6. CASE UninstallHistory(c)
  <2>1. LatestSettled(n)'
    BY <1>6, SameSettled, ErrorStays DEF UninstallHistory, At, Writing
  <2>2. ASSUME NEW v,
               op' = [op EXCEPT ![c].step = "deleting", ![c].ver = v,
                                ![c].ocfg = store[n][v].cfg, ![c].seen = Revisions(n)]
        PROVE  op'[c].step = "deleting" /\ op'[c].kind = "uninstall" /\ op'[c].wait = op[c].wait
    BY <1>1, <2>2 DEF TypeOK, TillerTypeOK, Calls
  <2> QED
    BY <1>3, <1>4, <1>5, <1>6, <2>1, <2>2 DEF UninstallHistory
<1>7. CASE UninstallRemove(c) \/ UninstallHooked(c)
  BY <1>2, <1>4, <1>7 DEF UninstallRemove, UninstallHooked, Writing
<1>9. CASE UninstallDeleting(c)
  <2>1. CASE Goto(c, "remove")
    BY <1>2, <1>4, <2>1 DEF Writing
  <2>2. CASE Reply(c, FALSE) /\ UNCHANGED store
    <3>1. LatestSettled(n)'
      BY <1>9, <2>2, SameSettled, ErrorStays DEF UninstallDeleting, At, Writing
    <3> QED
      BY <1>3, <1>5, <2>2, <3>1
  <2> QED
    BY <1>9, <2>1, <2>2 DEF UninstallDeleting
<1>8. CASE UninstallPurge(c)
  <2>1. \/ Reply(c, TRUE)
        \/ \E v : op' = [op EXCEPT ![c].seen = @ \ {v}]
    <3>1. op[c].seen = Revisions(n)
      BY <1>8 DEF UninstallPurge, At, UninstallAlone
    <3> QED
      BY <1>8, <3>1 DEF UninstallPurge, Revisions
  <2>2. ASSUME NEW v, op' = [op EXCEPT ![c].seen = @ \ {v}]
        PROVE  op'[c].step = "purge" /\ op'[c].kind = "uninstall" /\ op'[c].wait = op[c].wait
    BY <1>1, <1>8, <2>2 DEF TypeOK, TillerTypeOK, Calls, UninstallPurge, At
  <2> QED
    BY <1>3, <1>4, <1>5, <2>1, <2>2 DEF Writing
<1> QED
  BY <1>6, <1>7, <1>8, <1>9, UninstallSteps

-----------------------------------------------------------------------------
(***************************************************************************)
(* Every step keeps the invariant.                                         *)
(***************************************************************************)
\* A step of one call and what the others know, and read.
LEMMA OwnReady ==
  ASSUME TypeOK, NEW c \in Callers, TillerStep(c), NEW m \in Names \ {op[c].name}
  PROVE  ready'[m] = ready[m]
<1>1. Applied(c, op[c].name) => ready'[m] = ready[m]
  BY DEF Applied, TypeOK, TillerTypeOK
<1>2. UninstallRemove(c) => ready'[m] = ready[m]
  BY DEF UninstallRemove, TypeOK, TillerTypeOK
<1> QED
  BY <1>1, <1>2
  DEF TillerStep, InstallStep, PrepareInstall, InstallHistory, InstallSupersede, InstallRecord,
      InstallApply, InstallRecordOld, InstallFailed, InstallDone, WaitForResources,
      UpdateStep, PrepareUpdate, UpdateRevision, UpdateRecord, UpdateApply, UpdateRecordOld,
      UpdateFailed, UpdateSupersede, UpdateDone, UninstallStep, UninstallHistory,
      UninstallDeleting, UninstallHooked, UninstallPurge

LEMMA OthersKnow ==
  ASSUME SerialUse, SerialInv, NEW c \in Callers, TillerStep(c), UNCHANGED brokerVars,
         NEW d \in Callers \ {c}
  PROVE  CallValues(d)'
<1> DEFINE m == op[d].name
<1>1. /\ TypeOK /\ IInv /\ OneAtATime /\ CallValues(d) /\ pc'[d] = pc[d] /\ req' = req
      /\ UserParams(d)' = UserParams(d)
  BY DEF SerialInv, SerialOrder, IInv, brokerVars, UserParams
<1>2. op'[d] = op[d] /\ Running(c)
  BY <1>1, OneCall, StepRuns
<1>3. CASE op[d].kind = "none"
  <2>1. op[d].step = "idle"
    BY <1>1, <1>3, NoOpFact DEF TypeOK, TillerTypeOK, Ops, Calls, OpKinds
  <2> QED
    BY <1>2, <1>3, <2>1 DEF CallValues, At, Running
<1>4. CASE op[d].kind # "none" /\ m # op[c].name
  <2>1. m \in Names
    BY <1>1, <1>4, CallFact DEF TypeOK, TillerTypeOK, Calls
  <2>2. store'[m] = store[m] /\ objects'[m] = objects[m] /\ ready'[m] = ready[m]
    BY <1>1, <1>4, <2>1, OwnName, OwnReady
  <2>3. Revisions(m)' = Revisions(m)
    BY <1>2, <2>2 DEF Revisions, Has
  <2> QED
    BY <1>1, <1>2, <2>2, <2>3 DEF CallValues, At, Running, IsLatest
<1>5. CASE op[d].kind # "none" /\ m = op[c].name
  <2>1. ~Running(d)
    BY <1>1, <1>2, <1>5, RunsAlone
  <2>2. pc[d] # "await"
    <3> SUFFICES ASSUME pc[d] = "await" PROVE FALSE
      OBVIOUS
    <3>1. Open(d) /\ req[d].kind # "none" /\ Name(d) = m
      BY <1>1, <1>5 DEF Open, IInv, CallMatchesRequest, Matches, Requests
    <3>2. Open(c) /\ req[c].kind # "none" /\ Name(c) = m
      BY <1>1, <1>2, <1>5, RunningCall
    <3> QED
      BY <1>1, <3>1, <3>2, OpenAlone DEF Requests
  <2>3. op[d].step \in {"idle", "replied"}
    BY <2>1 DEF Running
  <2> QED
    BY <1>1, <1>2, <2>2, <2>3 DEF CallValues, At, Running
<1> QED
  BY <1>3, <1>4, <1>5

LEMMA OwnKnows ==
  ASSUME SerialUse, SerialInv, [Next]_vars, NEW c \in Callers, TillerStep(c),
         UNCHANGED brokerVars, NEW n, n = op[c].name
  PROVE  CallValues(c)' /\ (Writing(c)' \/ LatestSettled(n)')
<1>n. n = op[c].name
  OBVIOUS
<1>1. /\ SerialOrder /\ TypeOK /\ IInv /\ OneAtATime /\ CallValues(c) /\ WorksAlone(c)
      /\ n \in Names /\ InOrder(n) /\ Settled(n)
  BY <1>n, OneCall DEF SerialInv, SerialOrder, IInv, Calls
<1>2. Running(c) /\ op[c].kind \in OpKinds /\ pc[c] = "await"
  BY <1>1, StepRuns, RunningCall
<1>3. ~Writing(c) => LatestSettled(n)
  BY <1>n, <1>1, <1>2, CalmIsSettled
<1>4. CASE op[c].kind = "install"
  BY <1>n, <1>1, <1>3, <1>4, InstallKnows DEF WorksAlone
<1>5. CASE op[c].kind = "update"
  BY <1>n, <1>1, <1>3, <1>5, UpdateKnows DEF WorksAlone
<1>6. CASE op[c].kind = "uninstall"
  <2>1. WorksAlone(c)' /\ op'[c].kind = op[c].kind
    BY <1>n, <1>1, OwnInOrder, OneCall
  <2>2. UninstallAlone(c) /\ UninstallAlone(c)'
    BY <1>1, <1>6, <2>1 DEF WorksAlone
  <2> QED
    BY <1>n, <1>1, <1>2, <1>3, <1>6, <2>2, UninstallKnows
<1> QED
  BY <1>2, <1>4, <1>5, <1>6 DEF OpKinds

LEMMA TillerKeepsSettled ==
  ASSUME SerialUse, SerialInv, [Next]_vars, NEW c \in Callers, TillerStep(c),
         UNCHANGED brokerVars
  PROVE  /\ \A d \in Callers : CallValues(d)'
         /\ \A n \in Names : Settled(n)'
         /\ \A r \in Requests : ReadsLatest(r)'
<1>1. /\ TypeOK /\ IInv /\ OneAtATime /\ UNCHANGED <<req, pc, creds>>
      /\ Requests = Callers
  BY DEF SerialInv, SerialOrder, IInv, brokerVars, Requests
<1>2. \A d \in Callers \ {c} : op'[d] = op[d]
  BY <1>1, OneCall
<1>3. op'[c].name = op[c].name /\ op[c].name \in Names /\ Running(c)
  BY <1>1, OneCall, StepRuns DEF Calls
<1>4. ASSUME NEW d \in Callers PROVE CallValues(d)'
  BY OthersKnow, OwnKnows
<1>5. ASSUME NEW n \in Names PROVE Settled(n)'
  <2>1. CASE n = op[c].name
    <3>1. Writing(c)' \/ LatestSettled(n)'
      BY <2>1, OwnKnows
    <3> QED
      BY <1>3, <2>1, <3>1 DEF Settled
  <2>2. CASE n # op[c].name
    <3>1. store'[n] = store[n] /\ objects'[n] = objects[n]
      BY <1>1, <2>2, OwnName
    <3>2. \A d \in Callers : Writing(d)' /\ op'[d].name = n <=> Writing(d) /\ op[d].name = n
      BY <1>2, <1>3, <2>2 DEF Writing
    <3>3. Settled(n)
      BY DEF SerialInv
    <3>4. EndedInError(n) => EndedInError(n)'
      BY <1>1, ErrorStays
    <3> QED
      BY <3>1, <3>2, <3>3, <3>4, SameSettled DEF Settled
  <2> QED
    BY <2>1, <2>2
<1>6. ASSUME NEW r \in Requests PROVE ReadsLatest(r)'
  <2> SUFFICES ASSUME pc[r] = "values" PROVE ReadsLatest(r)'
    BY <1>1 DEF ReadsLatest
  <2>1. IsLatest(Name(r), creds[r].rev) /\ req[r].kind = "bind"
    BY DEF SerialInv, ReadsLatest
  <2>2. Name(r) # op[c].name
    <3>1. Open(c) /\ req[c].kind # "none" /\ Name(c) = op[c].name /\ pc[c] = "await"
      BY <1>1, <1>3, RunningCall
    <3>2. Open(r)
      BY DEF Open
    <3> QED
      BY <1>1, <2>1, <3>1, <3>2, OpenAlone
  <2>3. Name(r) \in Names
    BY <1>1, <2>1, NameType
  <2>4. store'[Name(r)] = store[Name(r)]
    BY <1>1, <2>2, <2>3, OwnName
  <2> QED
    BY <1>1, <2>1, <2>4 DEF ReadsLatest, IsLatest, Revisions, Has, Name
<1> QED
  BY <1>4, <1>5, <1>6

\* Outside Tiller's steps workloads only become ready, and a bind gets to the
\* values with the latest revision.
LEMMA HandlerReads ==
  ASSUME TypeOK, NEW q \in Requests, Handler(q)
  PROVE  /\ ready' = ready
         /\ \A r \in Requests : pc'[r] = "values" =>
              BindStatus(r) \/ (pc[r] = "values" /\ creds'[r] = creds[r])
<1> DEFINE Ready == ready' = ready
           Reads == \A r \in Requests : pc'[r] = "values" =>
                      BindStatus(r) \/ (pc[r] = "values" /\ creds'[r] = creds[r])
<1>1. ASSUME NEW s \in {"done", "list", "gone", "await"}, Proceed(q, s),
             \A r \in Requests \ {q} : creds'[r] = creds[r]
      PROVE  Reads
  BY <1>1 DEF Proceed, TypeOK
<1>2. ASSUME BindStatus(q) PROVE Reads /\ Ready
  <2>1. \A r \in Requests \ {q} : pc'[r] = pc[r] /\ creds'[r] = creds[r]
    BY <1>2 DEF BindStatus, Answer, Proceed, TypeOK
  <2> QED
    BY <1>2, <2>1 DEF BindStatus, tillerVars
<1>3. ASSUME BindValues(q) PROVE Reads /\ Ready
  <2>1. \A r \in Requests \ {q} : creds'[r] = creds[r]
    BY <1>3 DEF BindValues, TypeOK
  <2> QED
    BY <1>1, <1>3, <2>1 DEF BindValues, Answer, tillerVars
<1>4. ASSUME \/ Provision(q) \/ Update(q) \/ Deprovision(q) \/ Return(q) \/ GetRelease(q)
             \/ Unbind(q) \/ LastOperation(q) \/ LastOperationError(q)
      PROVE  Reads /\ Ready
  <2>1. Ready /\ UNCHANGED creds
    BY <1>4 DEF Provision, Update, Deprovision, Send, Return, GetRelease, Unbind, LastOperation,
       LastOperationError, tillerVars
  <2>2. \E s \in {"done", "list", "gone", "await"} : Proceed(q, s)
    BY <1>4 DEF Provision, Update, Deprovision, Send, Return, Failed, GetRelease, Unbind,
       LastOperation, LastOperationError, Answer
  <2> QED
    BY <1>1, <2>1, <2>2
<1> QED
  BY <1>2, <1>3, <1>4 DEF Handler

LEMMA BrokerReads ==
  ASSUME SerialUse, TypeOK, [Next]_vars
  PROVE  \/ \E c \in Callers : TillerStep(c) /\ UNCHANGED brokerVars
         \/ /\ \A n \in Names : ready[n] => ready'[n]
            /\ \A r \in Requests : pc'[r] = "values" =>
                 BindStatus(r) \/ (pc[r] = "values" /\ creds'[r] = creds[r])
<1> DEFINE Goal == /\ \A n \in Names : ready[n] => ready'[n]
                   /\ \A r \in Requests : pc'[r] = "values" =>
                        BindStatus(r) \/ (pc[r] = "values" /\ creds'[r] = creds[r])
<1>1. ASSUME NEW q \in Requests, Handler(q) PROVE Goal
  BY <1>1, HandlerReads
<1>2. ASSUME NEW q \in Requests, Receive(q) PROVE Goal
  BY <1>2 DEF Receive, Proceed, FirstStep, TypeOK, tillerVars
<1>3. ASSUME NEW n \in Names, BecomeReady(n), UNCHANGED brokerVars PROVE Goal
  BY <1>3 DEF BecomeReady, TypeOK, TillerTypeOK, brokerVars
<1>4. Finished \/ UNCHANGED vars => Goal
  BY DEF Finished, vars, tillerVars, brokerVars
<1>5. ~BrokerRestart /\ (\A r \in Requests : ~BreakConnection(r)) /\ "tillerRestart" \notin Faults
  BY DEF SerialUse, BrokerRestart, BreakConnection, Unreachable
<1> HIDE DEF Goal
<1>6. Goal \/ \E c \in Callers : TillerStep(c) /\ UNCHANGED brokerVars
  BY <1>1, <1>2, <1>3, <1>4, <1>5 DEF Next
<1> QED
  BY <1>6 DEF Goal

LEMMA SendKeepsSettled ==
  ASSUME SerialUse, SerialInv, NEW r \in Requests, NEW kind, NEW cfg, HandlerSends(r, kind, cfg)
  PROVE  /\ \A d \in Callers : CallValues(d)'
         /\ \A n \in Names : Settled(n)'
<1>1. TypeOK /\ CallMatchesRequest /\ Requests = Callers
  BY DEF SerialInv, SerialOrder, IInv, Requests
<1>2. op[r] = NoOp /\ UNCHANGED <<store, objects, ready, req>>
  BY <1>1 DEF CallMatchesRequest, Matches, HandlerSends, Send
<1>3. /\ op'[r] = Call(kind, Name(r), ~req[r].async, cfg)
      /\ \A d \in Callers \ {r} : op'[d] = op[d]
      /\ \A q \in Requests \ {r} : pc'[q] = pc[q]
  BY <1>1 DEF HandlerSends, Send, Proceed, TypeOK, TillerTypeOK
<1>4. op'[r].kind = kind /\ op'[r].step = "prepare" /\ op'[r].wait = ~req[r].async
      /\ op'[r].cfg = cfg
  BY <1>3 DEF Call
<1>5. \A d \in Callers : UserParams(d)' = UserParams(d)
  BY <1>2 DEF UserParams
<1>6. CallValues(r)'
  <2>1. kind = "update" => req[r].kind = "update" /\ cfg = UpdateValues(r)
    BY DEF HandlerSends
  <2>2. UserParams(r) = None => UpdateValues(r) = EmptyConfig
    BY DEF UpdateValues, EmptyConfig
  <2> QED
    BY <1>1, <1>2, <1>4, <1>5, <2>1, <2>2 DEF CallValues, At, Running
<1>7. ASSUME NEW d \in Callers \ {r} PROVE CallValues(d)'
  <2>1. CallValues(d) /\ op'[d] = op[d] /\ pc'[d] = pc[d]
    BY <1>1, <1>3 DEF SerialInv
  <2> QED
    BY <1>2, <1>5, <2>1 DEF CallValues, At, Running, IsLatest, Revisions, Has
<1>8. ASSUME NEW n \in Names PROVE Settled(n)'
  <2>1. \A d \in Callers : Writing(d)' /\ op'[d].name = n <=> Writing(d) /\ op[d].name = n
    BY <1>2, <1>3, <1>4, NoOpFact DEF Writing
  <2>2. Settled(n)
    BY DEF SerialInv
  <2>3. EndedInError(n) => EndedInError(n)'
    BY <1>2, <1>3, NoOpFact DEF EndedInError
  <2> QED
    BY <1>2, <2>1, <2>2, <2>3, SameSettled DEF Settled
<1> QED
  BY <1>6, <1>7, <1>8

LEMMA BrokerKeepsSettled ==
  ASSUME SerialUse, SerialInv, \A n \in Names : ready[n] => ready'[n],
         \/ \E r \in Requests : HandlerMoves(r) \/ Receive(r)
         \/ UNCHANGED <<store, objects, op, req, pc>>
  PROVE  /\ \A d \in Callers : CallValues(d)'
         /\ \A n \in Names : Settled(n)'
<1>1. TypeOK /\ IInv /\ OneAtATime /\ CallMatchesRequest /\ Requests = Callers
  BY DEF SerialInv, SerialOrder, IInv, Requests
<1>2. UNCHANGED <<store, objects, op>>
  BY DEF HandlerMoves, Receive, tillerVars
<1>3. \A q \in Requests : pc'[q] = "await" => pc[q] = "await"
  BY <1>1 DEF HandlerMoves, Receive, Proceed, FirstStep, TypeOK
<1>4. \A q \in Requests : op[q].kind # "none" => req'[q] = req[q]
  <2>1. ASSUME NEW r \in Requests, Receive(r), NEW q \in Requests, op[q].kind # "none"
        PROVE  req'[q] = req[q]
    <3>1. q # r
      BY <1>1, <2>1, NoOpFact DEF Receive, CallMatchesRequest, Matches
    <3> QED
      BY <1>1, <2>1, <3>1 DEF Receive, TypeOK
  <2> QED
    BY <2>1 DEF HandlerMoves
<1>5. ASSUME NEW d \in Callers PROVE CallValues(d)'
  <2>1. CallValues(d)
    BY DEF SerialInv
  <2>2. CASE op[d].kind = "none"
    <3>1. op[d].step = "idle"
      BY <1>1, <2>2, NoOpFact DEF TypeOK, TillerTypeOK, Ops, Calls, OpKinds
    <3> QED
      BY <1>2, <2>2, <3>1 DEF CallValues, At, Running
  <2>3. CASE op[d].kind # "none"
    <3>1. op[d].name \in Names /\ req'[d] = req[d]
      BY <1>1, <1>4, <2>3, CallFact DEF TypeOK, TillerTypeOK, Calls
    <3>2. UserParams(d)' = UserParams(d)
      BY <3>1 DEF UserParams
    <3>3. ready[op[d].name] => ready'[op[d].name]
      BY <3>1
    <3> QED
      BY <1>1, <1>2, <1>3, <2>1, <3>1, <3>2, <3>3
      DEF CallValues, At, Running, IsLatest, Revisions, Has
  <2> QED
    BY <2>2, <2>3
<1>6. ASSUME NEW n \in Names PROVE Settled(n)'
  <2>1. Settled(n)
    BY DEF SerialInv
  <2> QED
    BY <1>2, <2>1, SameSettled DEF Settled, Writing, EndedInError
<1> QED
  BY <1>5, <1>6

\* The status that a bind reads is that of the latest revision; nobody writes
\* before it has read the values.
LEMMA ReadsKept ==
  ASSUME TypeOK, NEW r \in Requests, pc'[r] = "values", UNCHANGED store, UNCHANGED req[r],
         ReadsLatest(r),
         BindStatus(r) \/ (pc[r] = "values" /\ creds'[r] = creds[r])
  PROVE  ReadsLatest(r)'
<1>1. CASE BindStatus(r)
  <2>1. req[r].kind = "bind" /\ pc'[r] # "done"
    BY <1>1 DEF BindStatus, Is
  <2>2. PICK v \in Versions : IsLatest(Name(r), v) /\ creds' = [creds EXCEPT ![r].rev = v]
    BY <1>1, <2>1 DEF BindStatus, Answer, Proceed, TypeOK
  <2>3. creds'[r].rev = v
    BY <2>2 DEF TypeOK
  <2> QED
    BY <2>1, <2>2, <2>3 DEF ReadsLatest, IsLatest, Revisions, Has, Name
<1>2. CASE pc[r] = "values" /\ creds'[r] = creds[r]
  BY <1>2 DEF ReadsLatest, IsLatest, Revisions, Has, Name
<1> QED
  BY <1>1, <1>2

LEMMA SettledInit == Init => SerialInv
<1> SUFFICES ASSUME Init PROVE SerialInv
  OBVIOUS
<1>1. SerialOrder
  BY OrderInit
<1>2. ASSUME NEW c \in Callers PROVE CallValues(c)
  BY NoOpFact DEF Init, TillerInit, CallValues, At, Running
<1>3. ASSUME NEW n \in Names PROVE Settled(n)
  <2>1. Revisions(n) = {}
    BY DEF Init, TillerInit, Revisions, Has, NoRecord
  <2> QED
    BY <2>1 DEF Settled, LatestSettled, IsLatest
<1>4. ASSUME NEW r \in Requests PROVE ReadsLatest(r)
  BY DEF Init, ReadsLatest
<1> QED
  BY <1>1, <1>2, <1>3, <1>4 DEF SerialInv

LEMMA SettledNext ==
  ASSUME SerialUse, SerialInv, [Next]_vars
  PROVE  SerialInv'
<1>1. SerialOrder /\ TypeOK /\ SerialOrder'
  BY OrderNext DEF SerialInv, SerialOrder, IInv
<1> DEFINE Known == \A d \in Callers : CallValues(d)'
           Calm == \A n \in Names : Settled(n)'
           Read == \A r \in Requests : ReadsLatest(r)'
<1>2. CASE \E c \in Callers : TillerStep(c) /\ UNCHANGED brokerVars
  <2>1. Known /\ Calm /\ Read
    BY <1>2, TillerKeepsSettled
  <2> QED
    BY <1>1, <2>1 DEF SerialInv
<1>3. CASE ~(\E c \in Callers : TillerStep(c) /\ UNCHANGED brokerVars)
  <2>1. /\ \A n \in Names : ready[n] => ready'[n]
        /\ \A r \in Requests : pc'[r] = "values" =>
             BindStatus(r) \/ (pc[r] = "values" /\ creds'[r] = creds[r])
    BY <1>1, <1>3, BrokerReads
  <2>2. \/ \E r \in Requests : HandlerMoves(r) \/ \E kind, cfg : HandlerSends(r, kind, cfg)
        \/ \E r \in Requests : Receive(r)
        \/ UNCHANGED <<store, objects, op, req, pc>>
    BY <1>1, <1>3, SerialSteps
  <2>3. Known /\ Calm
    <3>1. CASE \E r \in Requests : \E kind, cfg : HandlerSends(r, kind, cfg)
      BY <3>1, SendKeepsSettled
    <3>2. CASE \/ \E r \in Requests : HandlerMoves(r) \/ Receive(r)
               \/ UNCHANGED <<store, objects, op, req, pc>>
      BY <2>1, <3>2, BrokerKeepsSettled
    <3> HIDE DEF Known, Calm
    <3> QED
      BY <2>2, <3>1, <3>2
  <2>4. Read
    <3> SUFFICES ASSUME NEW r \in Requests, pc'[r] = "values" PROVE ReadsLatest(r)'
      BY DEF ReadsLatest
    <3>1. UNCHANGED store
      BY <2>2 DEF HandlerMoves, HandlerSends, Send, Receive, tillerVars
    <3>2. UNCHANGED req[r]
      BY <1>1, <2>2 DEF HandlerMoves, HandlerSends, Receive, Proceed, FirstStep, TypeOK
    <3>3. ReadsLatest(r)
      BY DEF SerialInv
    <3> QED
      BY <1>1, <2>1, <3>1, <3>2, <3>3, ReadsKept
  <2> QED
    BY <1>1, <2>3, <2>4 DEF SerialInv
<1> QED
  BY <1>2, <1>3

\* In serial use the objects have the values of the latest revision between
\* calls, unless a failed call left it; each call knows the revision and the values it
\* works with; a bind reads one revision.
THEOREM SerialInductive == ASSUME SerialUse PROVE Spec => []SerialInv
<1>1. SerialInv /\ [Next]_vars => SerialInv'
  BY SettledNext
<1> QED
  BY <1>1, SettledInit, PTL DEF Spec

-----------------------------------------------------------------------------
(***************************************************************************)
(* What follows from it.                                                   *)
(***************************************************************************)
LEMMA AnswersAreHandled ==
  ASSUME SerialUse, TypeOK, [Next]_vars, NEW r \in Requests, reply'[r] # reply[r]
  PROVE  Handler(r)
<1>1. ~Unreachable /\ ~BrokerRestart /\ \A q \in Requests : ~BreakConnection(q)
  BY DEF SerialUse, Unreachable, BrokerRestart, BreakConnection
<1>2. \A q \in Requests : Handler(q) \/ Receive(q) => q = r
  BY OtherHandlers
<1>3. ~Receive(r)
  BY DEF Receive
<1> QED
  BY <1>1, <1>2, <1>3 DEF Next, Finished, vars, brokerVars

LEMMA ReadyAtAnswer ==
  ASSUME SerialUse, SerialInv, [Next]_vars, NEW r \in Requests,
         Answers(r, "provision", {"201"}), ~req[r].async
  PROVE  ready[Name(r)]
<1>1. /\ TypeOK /\ IInv /\ Requests = Callers /\ CallValues(r) /\ Matches(r)
      /\ op[r] \in Ops
  BY DEF SerialInv, SerialOrder, IInv, Requests, CallMatchesRequest, TypeOK, TillerTypeOK
<1>2. req[r].kind = "provision" /\ reply[r] = "none" /\ reply'[r] = "201"
  BY DEF Answers
<1>3. Handler(r)
  BY <1>1, <1>2, AnswersAreHandled
<1>4. Return(r)
  <2>1. ~Provision(r)
    BY <1>1, <1>2 DEF Provision, Answer, Send, TypeOK
  <2> QED
    BY <1>2, <1>3, <2>1 DEF Handler, Update, Deprovision, GetRelease, BindStatus, BindValues,
       Unbind, LastOperation, LastOperationError, Is
<1>5. pc[r] = "await" /\ op[r].step = "replied" /\ op[r].ok
  BY <1>1, <1>2, <1>4 DEF Return, Failed, Answer, TypeOK
<1>6. op[r].kind = "install" /\ op[r].name = Name(r)
  <2>1. op[r].kind # "none"
    BY <1>1, <1>5, NoOpFact DEF Ops, Calls, OpKinds
  <2> QED
    BY <1>1, <1>2, <2>1 DEF Matches
<1> QED
  BY <1>1, <1>5, <1>6 DEF CallValues

LEMMA BoundToObjects ==
  ASSUME SerialUse, "template" \notin Faults, SerialInv, [Next]_vars,
         NEW r \in Requests, NEW v \in Versions, Answers(r, "bind", {"201"}),
         IsLatest(Name(r), v), ~LeftByFailure(Name(r), v)
  PROVE  creds'[r] = [rev |-> v, cfg |-> objects[Name(r)]]
<1>1. TypeOK /\ IInv /\ SerialOrder /\ ReadsLatest(r)
  BY DEF SerialInv, SerialOrder, IInv
<1>2. req[r].kind = "bind" /\ reply[r] = "none" /\ reply'[r] = "201"
  BY DEF Answers
<1>3. Handler(r)
  BY <1>1, <1>2, AnswersAreHandled
<1>4. BindValues(r)
  <2>1. ~Return(r)
    BY <1>1, <1>2 DEF Return, Failed, Answer, TypeOK
  <2>2. ~BindStatus(r)
    BY <1>1, <1>2 DEF BindStatus, Answer, TypeOK
  <2> QED
    BY <1>2, <1>3, <2>1, <2>2 DEF Handler, Provision, Update, Deprovision, GetRelease, Unbind,
       LastOperation, LastOperationError, Is
<1>5. pc[r] = "values"
  BY <1>4 DEF BindValues, Is
<1>6. creds[r].rev = v
  BY <1>1, <1>5, OneLatest DEF ReadsLatest
<1>7. LatestSettled(Name(r))
  <2>1. Name(r) \in Names
    BY <1>1, <1>2, NameType
  <2> QED
    BY <1>1, <1>2, <1>5, <2>1, ReadIsSettled DEF SerialInv, Open
<1>8. store[Name(r)][v].cfg = objects[Name(r)]
  BY <1>7 DEF LatestSettled
<1>9. PICK w \in Versions : /\ IsLatest(Name(r), w)
                            /\ creds' = [creds EXCEPT ![r].cfg = store[Name(r)][w].cfg]
  BY <1>1, <1>2, <1>4 DEF BindValues, Answer, TypeOK
<1>10. w = v
  BY <1>9, OneLatest
<1>11. creds[r] \in [rev : 0..MaxVersion, cfg : Config \cup {None}]
  BY <1>1 DEF TypeOK
<1>12. creds'[r] = [creds[r] EXCEPT !.cfg = objects[Name(r)]]
  BY <1>1, <1>8, <1>9, <1>10 DEF TypeOK
<1> QED
  BY <1>6, <1>11, <1>12

LEMMA PolledTruly ==
  ASSUME SerialUse, SerialInv, [Next]_vars, NEW r \in Requests, NEW v \in Versions,
         NEW code \in {"failed", "succeeded"}, Answers(r, "lastop", {code}),
         IsLatest(Name(r), v)
  PROVE  /\ code = "failed" => \/ LeftByFailure(Name(r), v)
                               \/ store[Name(r)][v].status = "DEPLOYED" /\ ~ready[Name(r)]
         /\ code = "succeeded" => store[Name(r)][v].status = "DEPLOYED"
<1>1. TypeOK /\ IInv /\ SerialOrder
  BY DEF SerialInv, SerialOrder, IInv
<1>2. req[r].kind = "lastop" /\ reply[r] = "none" /\ reply'[r] = code
  BY DEF Answers
<1>3. Handler(r)
  BY <1>1, <1>2, AnswersAreHandled
<1>4. LastOperation(r)
  <2>1. ~Return(r) /\ ~LastOperationError(r)
    BY <1>1, <1>2 DEF Return, Failed, LastOperationError, Answer, TypeOK
  <2> QED
    BY <1>2, <1>3, <2>1 DEF Handler, Provision, Update, Deprovision, GetRelease, Unbind,
       BindStatus, BindValues, Is
<1>5. PICK w \in Versions, timedOut \in BOOLEAN :
        IsLatest(Name(r), w) /\ Answer(r, State(Name(r), w, timedOut))
  BY <1>2, <1>4 DEF LastOperation
<1>6. w = v /\ State(Name(r), v, timedOut) = code
  BY <1>1, <1>2, <1>5, OneLatest DEF Answer, TypeOK
<1>7. LatestSettled(Name(r))
  <2>1. Name(r) \in Names
    BY <1>1, <1>2, NameType
  <2>2. Open(r) /\ pc[r] # "await"
    BY <1>4 DEF LastOperation, Is, Open
  <2> QED
    BY <1>1, <1>2, <2>1, <2>2, ReadIsSettled DEF SerialInv
<1>8. LeftByFailure(Name(r), v) \/ store[Name(r)][v].status = "DEPLOYED"
  BY <1>7 DEF LatestSettled
<1>9. LeftByFailure(Name(r), v) => store[Name(r)][v].status \in {"FAILED", "PENDING_UPGRADE"}
  BY DEF LeftByFailure
<1> QED
  BY <1>6, <1>8, <1>9 DEF State, IsFailed, IsAvailable, IsDeployed, IsDeleted, IsDeleting

LEMMA OnlyStepsApply ==
  ASSUME SerialUse, TypeOK, [Next]_vars, NEW n \in Names, objects'[n] # objects[n],
         objects'[n] # None
  PROVE  \E c \in Callers : /\ InstallApply(c) \/ UpdateApply(c)
                            /\ UNCHANGED brokerVars
                            /\ op[c].name = n /\ objects'[n] = op[c].cfg
<1>1. \A q \in Requests : Handler(q) => UNCHANGED objects
  BY DEF Handler, Provision, Update, Deprovision, Send, Return, GetRelease, BindStatus,
     BindValues, Unbind, LastOperation, LastOperationError, tillerVars
<1>2. PICK c \in Callers : TillerStep(c) /\ UNCHANGED brokerVars
  <2>1. ~(UNCHANGED objects)
    OBVIOUS
  <2> QED
    BY <1>1, <2>1 DEF Next, Receive, BreakConnection, BrokerRestart, BecomeReady, TillerRestart,
       Finished, vars, tillerVars
<1>3. n = op[c].name
  BY <1>2, OwnName
<1>4. InstallApply(c) \/ UpdateApply(c)
  <2>1. ~UninstallRemove(c)
    BY <1>3 DEF UninstallRemove, TypeOK, TillerTypeOK
  <2> QED
    BY <1>2, <2>1 DEF TillerStep, InstallStep, PrepareInstall, InstallHistory, InstallSupersede,
       InstallRecord, InstallRecordOld, InstallFailed, InstallDone, WaitForResources,
       UpdateStep, PrepareUpdate, UpdateRevision, UpdateRecord, UpdateRecordOld,
       UpdateFailed, UpdateSupersede, UpdateDone, UninstallStep, UninstallHistory,
       UninstallDeleting, UninstallHooked, UninstallPurge
<1>5. objects'[n] = op[c].cfg
  BY <1>3, <1>4 DEF InstallApply, UpdateApply, Applied, TypeOK, TillerTypeOK
<1> QED
  BY <1>2, <1>3, <1>4, <1>5

LEMMA KeptOrSent ==
  ASSUME SerialUse, SerialInv, [Next]_vars, NEW n \in Names,
         objects[n] # None, objects'[n] # None, objects'[n] # objects[n]
  PROVE  \/ \E r \in Requests : /\ Open(r) /\ Name(r) = n
                               /\ req[r].kind = "update" /\ UserParams(r) # None
         \/ \E v \in DeployedRevisions(n) : objects'[n] = store[n][v].cfg
<1>1. TypeOK /\ IInv /\ OneAtATime
  BY DEF SerialInv, SerialOrder, IInv
<1>2. PICK c \in Callers : /\ InstallApply(c) \/ UpdateApply(c)
                           /\ op[c].name = n /\ objects'[n] = op[c].cfg
  BY <1>1, OnlyStepsApply
<1>3. CallValues(c) /\ WorksAlone(c) /\ c \in Requests
  BY DEF SerialInv, SerialOrder, Requests
<1>4. UpdateApply(c) /\ op[c].kind = "update" /\ op[c].step = "apply"
  BY <1>2, <1>3 DEF InstallApply, UpdateApply, At, CallValues
<1>5. Running(c)
  BY <1>4 DEF Running
<1>6. Open(c) /\ Name(c) = n /\ req[c].kind = "update"
  BY <1>1, <1>2, <1>3, <1>4, <1>5, RunningCall DEF CallValues
<1>7. op[c].old \in DeployedRevisions(n) /\ op[c].ocfg = store[n][op[c].old].cfg
  BY <1>2, <1>3, <1>4 DEF WorksAlone, UpdateAlone, CallValues
<1>8. UserParams(c) = None => op[c].cfg = op[c].ocfg
  BY <1>3, <1>4, <1>5 DEF CallValues
<1> QED
  BY <1>2, <1>3, <1>6, <1>7, <1>8

\* A provision that waits is answered 201 when the workloads are ready (the
\* wait of InstallRelease, client.InstallRelease with InstallWait).
THEOREM ReadyWhenCreated == ASSUME SerialUse PROVE Spec => SyncProvisionReady
<1>1. Spec => []SerialInv
  BY SerialInductive
<1>2. SerialInv /\ [Next]_vars =>
        [\A r \in Requests :
           Answers(r, "provision", {"201"}) /\ ~req[r].async => ready[Name(r)]]_vars
  BY ReadyAtAnswer
<1> QED
  BY <1>1, <1>2, PTL DEF Spec, SyncProvisionReady

\* A binding has the values of the running objects and the addresses of the
\* same revision, unless a failed install or update left the latest revision or
\* the credentials template fails (Bind reads the status and the values in two
\* requests).
THEOREM BindingsMatch ==
  ASSUME SerialUse, "template" \notin Faults PROVE Spec => BindMatchesObjects
<1>1. Spec => []SerialInv
  BY SerialInductive
<1>2. SerialInv /\ [Next]_vars =>
        [\A r \in Requests : \A v \in Versions :
           Answers(r, "bind", {"201"}) /\ IsLatest(Name(r), v) =>
             \/ LeftByFailure(Name(r), v)
             \/ creds'[r] = [rev |-> v, cfg |-> objects[Name(r)]]]_vars
  BY BoundToObjects
<1> QED
  BY <1>1, <1>2, PTL DEF Spec, BindMatchesObjects

\* A poll between calls answers "failed" and "succeeded" truly (LastOperation
\* and the state of release.Status).
THEOREM PollsAreTrue == ASSUME SerialUse PROVE Spec => PollIsTruthful
<1>1. Spec => []SerialInv
  BY SerialInductive
<1>2. SerialInv /\ [Next]_vars =>
        [\A r \in Requests : \A v \in Versions :
           /\ Answers(r, "lastop", {"failed"}) /\ IsLatest(Name(r), v) =>
                \/ LeftByFailure(Name(r), v)
                \/ store[Name(r)][v].status = "DEPLOYED" /\ ~ready[Name(r)]
           /\ Answers(r, "lastop", {"succeeded"}) /\ IsLatest(Name(r), v) =>
                store[Name(r)][v].status = "DEPLOYED"]_vars
  BY PolledTruly
<1> QED
  BY <1>1, <1>2, PTL DEF Spec, PollIsTruthful

\* An update without parameters keeps the values of the deployed revision,
\* the generated passwords among them (Tiller's reuseValues).
THEOREM PasswordsKept == ASSUME SerialUse PROVE Spec => ValuesKept
<1>1. Spec => []SerialInv
  BY SerialInductive
<1>2. SerialInv /\ [Next]_vars =>
        [\A n \in Names :
           objects[n] # None /\ objects'[n] # None /\ objects'[n] # objects[n] =>
             \/ \E r \in Requests : /\ Open(r) /\ Name(r) = n
                                   /\ req[r].kind = "update" /\ UserParams(r) # None
             \/ \E v \in DeployedRevisions(n) : objects'[n] = store[n][v].cfg]_vars
  BY KeptOrSent
<1> QED
  BY <1>1, <1>2, PTL DEF Spec, ValuesKept
=============================================================================

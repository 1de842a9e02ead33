----------------------------- MODULE HelmBroker -----------------------------
(***************************************************************************)
(* The service broker (pkg/broker, pkg/release, pkg/helm) on top of        *)
(* Tiller.  brokerapi runs every HTTP request in a goroutine of its own:   *)
(* each request is a process that walks through its handler, one step per  *)
(* call to Tiller or Kubernetes, and no lock orders two requests.  The     *)
(* broker keeps no state of its own, so a restart only drops the requests  *)
(* that are open.                                                          *)
(***************************************************************************)
EXTENDS Tiller, FiniteSets

CONSTANTS Instances,             \* OSB service instance IDs
          getName,               \* release.getName: the release name of an instance
          ChartPlans,            \* plans (None: of another service) that lead to a chart name
          AllowProvisionParams,  \* service_config.allow_user_provision_parameters
          AllowBindParams,       \* service_config.allow_user_bind_parameters
          Shapes,                \* the requests the platform may send
          Serial,                \* whether it sends an instance one request at a time
          Faults                 \* what may go wrong around the broker

Requests == Callers

Kinds == {"provision", "update", "deprovision", "bind", "unbind", "lastop"}

\* body: whether RawParameters and RawContext are JSON objects of strings.
RequestShapes ==
  [kind : Kinds, inst : Instances, async : BOOLEAN, plan : Plans \cup {None},
   params : Params \cup {None}, body : {"ok", "badParams", "badContext"}]

FaultKinds == {"unreachable",    \* Tiller cannot be reached: the call has no effect
               "lost",           \* the connection breaks during the call
               "chart",          \* the chart cannot be found, downloaded or loaded
               "values",         \* the chart-values template fails
               "nodes",          \* kubectl.GetNodes fails
               "template",       \* the credentials template fails
               "tillerRestart", "brokerRestart"}

ASSUME BrokerAssumption ==
  /\ getName \in [Instances -> Names]
  /\ ChartPlans \subseteq Plans \cup {None}
  /\ AllowProvisionParams \in BOOLEAN /\ AllowBindParams \in BOOLEAN
  /\ Shapes \subseteq RequestShapes
  /\ Serial \in BOOLEAN
  /\ Faults \subseteq FaultKinds

NoRequest == [kind |-> "none"]

Replies == {"none", "200", "201", "409", "410", "500", "dropped",
            "succeeded", "failed", "in progress", ""}

NoCredentials == [rev |-> 0, cfg |-> None]

VARIABLES req,    \* the request a handler serves
          pc,     \* where the handler is
          reply,  \* what it answered
          creds   \* a Bind's credentials: the revision whose status gave the
                  \* addresses, and the values (None: null credentials)

brokerVars == <<req, pc, reply, creds>>

vars == <<tillerVars, brokerVars>>

TypeOK ==
  /\ TillerTypeOK
  /\ req \in [Requests -> RequestShapes \cup {NoRequest}]
  /\ pc \in [Requests -> {"idle", "exists", "await", "list", "status", "values", "gone", "done"}]
  /\ reply \in [Requests -> Replies]
  /\ creds \in [Requests -> [rev : 0..MaxVersion, cfg : Config \cup {None}]]

Init ==
  /\ TillerInit
  /\ req = [r \in Requests |-> NoRequest]
  /\ pc = [r \in Requests |-> "idle"]
  /\ reply = [r \in Requests |-> "none"]
  /\ creds = [r \in Requests |-> NoCredentials]

-----------------------------------------------------------------------------
Open(r) == pc[r] \notin {"idle", "done"}

Is(r, kind, step) == req[r].kind = kind /\ pc[r] = step

Name(r) == getName[req[r].inst]

\* Mutant of Exists: only a deployed latest revision counts.
ExistsDeployed(r) ==
  \E v \in Versions : IsLatest(Name(r), v) /\ store[Name(r)][v].status = "DEPLOYED"

\* client.ExistRelease asks for the status of the latest revision; "not found"
\* is the answer false, any other error is an error.
Exists(r) == Revisions(Name(r)) # {}

Unreachable == "unreachable" \in Faults

Proceed(r, step) == pc' = [pc EXCEPT ![r] = step]

Answer(r, code) == /\ Proceed(r, "done")
                   /\ reply' = [reply EXCEPT ![r] = code]

\* Mutants of Send: wait taken from accepts_incomplete as it is; always wait.
SendInverted(r, kind, cfg) ==
  /\ op' = [op EXCEPT ![r] = Call(kind, Name(r), req[r].async, cfg)]
  /\ Proceed(r, "await")
  /\ UNCHANGED <<store, objects, ready, reply>>

SendWaiting(r, kind, cfg) ==
  /\ op' = [op EXCEPT ![r] = Call(kind, Name(r), TRUE, cfg)]
  /\ Proceed(r, "await")
  /\ UNCHANGED <<store, objects, ready, reply>>

\* One request to Tiller that changes releases; its answer comes later.
Send(r, kind, cfg) ==
  /\ op' = [op EXCEPT ![r] = Call(kind, Name(r), ~req[r].async, cfg)]
  /\ Proceed(r, "await")
  /\ UNCHANGED <<store, objects, ready, reply>>

\* provisionParameters and updateParameters both obey the provision flag.
UserParams(r) == IF AllowProvisionParams THEN req[r].params ELSE None

Invalid(r) == \/ req[r].body = "badParams" /\ AllowProvisionParams
              \/ req[r].body = "badContext"
              \/ req[r].plan \notin ChartPlans

\* getChartValues: the template's values (random ones among them), the plan's
\* and the user's.  Install logs an error and goes on without any.
InstallValues(r) ==
  {[gen |-> r, plan |-> req[r].plan, user |-> UserParams(r)]} \cup
  IF "values" \in Faults THEN {EmptyConfig} ELSE {}

\* release.Update sends the parameters of the request and nothing else.
UpdateValues(r) == [gen |-> None, plan |-> None, user |-> UserParams(r)]

FirstStep(kind) == IF kind \in {"bind", "lastop"} THEN "status" ELSE "exists"

Receive(r) ==
  /\ pc[r] = "idle"
  /\ \E s \in Shapes :
       /\ Serial => \A q \in Requests : Open(q) => req[q].inst # s.inst
       /\ req' = [req EXCEPT ![r] = s]
       /\ Proceed(r, FirstStep(s.kind))
  /\ UNCHANGED <<tillerVars, reply, creds>>

\* An error of Exists does not stop a provision: it goes on to install.
Provision(r) ==
  /\ Is(r, "provision", "exists")
  /\ \/ Exists(r) /\ Answer(r, "409") /\ UNCHANGED tillerVars
     \/ /\ ~Exists(r) \/ Unreachable
        /\ Invalid(r) \/ "chart" \in Faults
        /\ Answer(r, "500") /\ UNCHANGED tillerVars
     \/ /\ ~Exists(r) \/ Unreachable
        /\ ~Invalid(r)
        /\ \E cfg \in InstallValues(r) : Send(r, "install", cfg)
  /\ UNCHANGED <<req, creds>>

Update(r) ==
  /\ Is(r, "update", "exists")
  /\ \/ /\ Invalid(r) \/ ~Exists(r) \/ Unreachable \/ "chart" \in Faults
        /\ Answer(r, "500") /\ UNCHANGED tillerVars
     \/ ~Invalid(r) /\ Exists(r) /\ Send(r, "update", UpdateValues(r))
  /\ UNCHANGED <<req, creds>>

\* Mutant of Deprovision: answered without waiting for Tiller.
DeprovisionAtOnce(r) ==
  /\ Is(r, "deprovision", "exists")
  /\ \/ ~Exists(r) /\ Answer(r, "410") /\ UNCHANGED tillerVars
     \/ /\ Exists(r)
        /\ op' = [op EXCEPT ![r] = Call("uninstall", Name(r), FALSE, EmptyConfig)]
        /\ Answer(r, "200")
        /\ UNCHANGED <<store, objects, ready>>
  /\ UNCHANGED <<req, creds>>

Deprovision(r) ==
  /\ Is(r, "deprovision", "exists")
  /\ \/ ~Exists(r) /\ Answer(r, "410") /\ UNCHANGED tillerVars
     \/ /\ Exists(r) \/ Unreachable
        /\ Send(r, "uninstall", EmptyConfig)
  /\ UNCHANGED <<req, creds>>

\* Mutants of Failed: the error of an install is swallowed as that of an update
\* is; any error of an uninstall is taken for "not found".
FailedSwallowed(r) == IF req[r].kind = "update" THEN Proceed(r, "list") /\ UNCHANGED reply
                      ELSE Answer(r, IF req[r].kind = "provision" THEN "201" ELSE "500")

FailedGone(r) == IF req[r].kind = "update" THEN Proceed(r, "list") /\ UNCHANGED reply
                 ELSE Answer(r, IF req[r].kind = "deprovision" THEN "410" ELSE "500")

\* What a handler does with an error of the call it awaits: UpdateRelease has
\* no response then, and looks the release up instead of returning the error.
Failed(r) == IF req[r].kind = "update" THEN Proceed(r, "list") /\ UNCHANGED reply
             ELSE Answer(r, "500")

Return(r) ==
  /\ pc[r] = "await" /\ op[r].step = "replied"
  /\ IF op[r].ok THEN Answer(r, IF req[r].kind = "provision" THEN "201" ELSE "200")
     ELSE Failed(r)
  /\ UNCHANGED <<tillerVars, req, creds>>

\* The call never reached Tiller, or its answer never reaches the broker.
BreakConnection(r) ==
  /\ pc[r] = "await"
  /\ \/ Unreachable /\ op[r].step = "prepare" /\ op' = [op EXCEPT ![r] = NoOp]
     \/ "lost" \in Faults /\ UNCHANGED op
  /\ Failed(r)
  /\ UNCHANGED <<store, objects, ready, req, creds>>

\* The rest of UpdateRelease: exactly one listed revision is a success.
GetRelease(r) ==
  /\ Is(r, "update", "list")
  /\ \/ Cardinality(ListedRevisions(Name(r))) = 1 /\ Answer(r, "200")
     \/ Cardinality(ListedRevisions(Name(r))) # 1 /\ Answer(r, "500")
     \/ Unreachable /\ Answer(r, "500")
  /\ UNCHANGED <<tillerVars, req, creds>>

\* Bind reads the status, then the nodes and the values of the latest revision.
BindStatus(r) ==
  /\ Is(r, "bind", "status")
  /\ \/ /\ \/ ~Exists(r) \/ Unreachable
           \/ req[r].body = "badParams" /\ AllowBindParams
        /\ Answer(r, "500") /\ UNCHANGED creds
     \/ /\ ~(req[r].body = "badParams" /\ AllowBindParams)
        /\ \E v \in Versions : /\ IsLatest(Name(r), v)
                               /\ creds' = [creds EXCEPT ![r].rev = v]
        /\ Proceed(r, "values") /\ UNCHANGED reply
  /\ UNCHANGED <<tillerVars, req>>

\* Mutant of BindValues: the values of the first revision.
BindFirstValues(r) ==
  /\ Is(r, "bind", "values")
  /\ \E v \in Versions : /\ v \in Revisions(Name(r)) /\ \A w \in Revisions(Name(r)) : v <= w
                         /\ creds' = [creds EXCEPT ![r].cfg = store[Name(r)][v].cfg]
  /\ Answer(r, "201")
  /\ UNCHANGED <<tillerVars, req>>

\* An error of UserCredentials is logged: the binding has null credentials.
BindValues(r) ==
  /\ Is(r, "bind", "values")
  /\ \/ /\ ~Exists(r) \/ Unreachable \/ "nodes" \in Faults
        /\ Answer(r, "500") /\ UNCHANGED creds
     \/ /\ \E v \in Versions : /\ IsLatest(Name(r), v)
                               /\ creds' = [creds EXCEPT ![r].cfg = store[Name(r)][v].cfg]
        /\ Answer(r, "201")
     \/ /\ Exists(r) /\ "template" \in Faults
        /\ Answer(r, "201") /\ UNCHANGED creds
  /\ UNCHANGED <<tillerVars, req>>

\* Unbind looks for the release and ignores what it finds.
Unbind(r) ==
  /\ Is(r, "unbind", "exists")
  /\ \/ Answer(r, "200")
     \/ Unreachable /\ Answer(r, "500")
  /\ UNCHANGED <<tillerVars, req, creds>>

\* release.GetStatus of revision v of n: Tiller reports no resources for a
\* failed release, and missing resources count no replicas.  The deadline of
\* convertByteToStatus may have passed or not.
IsAvailable(n, v) == objects[n] = None \/ ready[n] \/ store[n][v].status = "FAILED"

\* Mutant of IsFailed: only workloads that are late count.
IsLate(n, v, timedOut) == timedOut /\ ~IsAvailable(n, v)

IsFailed(n, v, timedOut) == \/ store[n][v].status \notin {"DEPLOYED", "DELETING"}
                            \/ timedOut /\ ~IsAvailable(n, v)

IsDeployed(n, v) == store[n][v].status = "DEPLOYED"

IsDeleting(n, v) == store[n][v].status = "DELETING"

IsDeleted(n, v) == IsDeployed(n, v)

\* Mutant of State: Helm's own status word.
HelmStatus(n, v, timedOut) == store[n][v].status

State(n, v, timedOut) ==
  IF IsFailed(n, v, timedOut) THEN "failed"
  ELSE IF IsAvailable(n, v) \/ IsDeleted(n, v) THEN "succeeded"
  ELSE IF (IsDeployed(n, v) /\ ~IsAvailable(n, v)) \/ IsDeleting(n, v) THEN "in progress"
  ELSE ""

LastOperation(r) ==
  /\ Is(r, "lastop", "status")
  /\ \/ /\ ~Exists(r) \/ Unreachable
        /\ Proceed(r, "gone") /\ UNCHANGED reply
     \/ \E v \in Versions, timedOut \in BOOLEAN :
          /\ IsLatest(Name(r), v)
          /\ Answer(r, State(Name(r), v, timedOut))
  /\ UNCHANGED <<tillerVars, req, creds>>

\* After an error, a second look decides between "gone" and the error.
LastOperationError(r) ==
  /\ Is(r, "lastop", "gone")
  /\ \/ ~Exists(r) /\ Answer(r, "410")
     \/ (Exists(r) \/ Unreachable) /\ Answer(r, "500")
  /\ UNCHANGED <<tillerVars, req, creds>>

\* Open requests are dropped; what Tiller has begun goes on.
BrokerRestart ==
  /\ "brokerRestart" \in Faults /\ \E r \in Requests : Open(r)
  /\ pc' = [r \in Requests |-> IF Open(r) THEN "done" ELSE pc[r]]
  /\ reply' = [r \in Requests |-> IF Open(r) THEN "dropped" ELSE reply[r]]
  /\ UNCHANGED <<tillerVars, req, creds>>

Handler(r) ==
  \/ Provision(r) \/ Update(r) \/ Deprovision(r) \/ Return(r) \/ GetRelease(r)
  \/ BindStatus(r) \/ BindValues(r) \/ Unbind(r)
  \/ LastOperation(r) \/ LastOperationError(r)

\* All requests are answered and Tiller has nothing left to do.
Finished ==
  /\ \A r \in Requests : pc[r] = "done" /\ ~Running(r)
  /\ UNCHANGED vars

Next ==
  \/ \E r \in Requests : Receive(r) \/ Handler(r) \/ BreakConnection(r)
  \/ BrokerRestart
  \/ \E c \in Callers : TillerStep(c) /\ UNCHANGED brokerVars
  \/ \E n \in Names : BecomeReady(n) /\ UNCHANGED brokerVars
  \/ "tillerRestart" \in Faults /\ TillerRestart /\ UNCHANGED brokerVars
  \/ Finished

Spec == Init /\ [][Next]_vars

\* The Go scheduler runs every handler and Tiller runs every call; nothing
\* promises that a platform sends requests, that something breaks, that the
\* hooks of a chart end, or that workloads ever become ready.
Fairness ==
  /\ \A r \in Requests : WF_vars(Handler(r))
  /\ \A c \in Callers : WF_vars(~AtHook(c) /\ TillerStep(c) /\ UNCHANGED brokerVars)

FairSpec == Spec /\ Fairness
=============================================================================

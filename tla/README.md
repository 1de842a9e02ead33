# A TLA+ development of helmi

helmi is an Open Service Broker (OSB): a platform (Cloud Foundry, Kubernetes'
service catalog) asks it for service instances and bindings, and helmi turns each
instance into a Helm release, through Tiller, the release server of Helm v2.
Everything helmi knows about an instance is the release Tiller has for it. What
makes it correct is therefore how its handlers' steps, the steps of Tiller and
what happens in the cluster fit together when requests overlap, calls fail, and
things are not ready yet. That is the core of this development. Around it, the
files of the Helm home that all requests share, the catalogue, and the
credentials a binding hands out have models of their own.

## 1. Inventory

| Component | Source | State | Operations |
|---|---|---|---|
| OSB handlers | `pkg/broker/broker.go` | none of its own; open requests | Provision, Update, Deprovision, Bind, Unbind, LastOperation, Services |
| Release operations | `pkg/release/release.go` | none | Install, Update, Exists, Delete, GetStatus, GetCredentials, getName |
| Helm client | `pkg/helm/client.go`, `options.go` | the tunnel to Tiller, made once | ExistRelease, InstallRelease, UpdateRelease, DeleteRelease, GetStatus, getRelease |
| Status conversion | `pkg/helm/status.go` | none | convertByteToStatus and the parsing of Tiller's resource tables |
| Tiller | `vendor/k8s.io/helm/pkg/{tiller,storage,kube}` | ConfigMaps, one per revision | InstallRelease, UpdateRelease, UninstallRelease, status, content, list |
| Cluster | as seen through `pkg/kube` of Tiller | objects, readiness of workloads | create, update, delete, becoming ready |
| Chart retrieval | `pkg/helm/chart.go`, `repo.go` | archive directory, repositories file | getChart, download, add a repository |
| Catalog and credentials | `pkg/catalog/catalog.go` | service definitions, read once | Parse, GetService, GetServicePlan, ChartValues, UserCredentials |
| Start-up and configuration | `main.go`, `config.go`, `pkg/config` | configuration | LoadConfig, NewClient, Run, liveness |
| Kubernetes client | `pkg/kubectl/kubectl.go` | none | GetNodes |
| Parameter store | `pkg/db/db.go` | etcd | nothing calls it |
| Tools and helpers | `pkg/detecthelm`, `pkg/utils`, `kubecmd` | none | stand-alone programs, conversions |

How they interact. The HTTP server runs every request in a goroutine. A handler
makes one to three synchronous calls to Tiller (gRPC through a port-forward);
no lock orders two requests, not even two for the same instance, and helmi
stores nothing between two calls. Tiller runs each call in a goroutine as well,
takes no lock per release (this version has none) and
carries a call out as a sequence of requests to the ConfigMap storage and to
the cluster.

What is hard here:

* **check, then act**: existence is one call and the change another; Tiller
  checks the name, reads the history and writes the record in three requests;
* **errors that change nothing**: the error of `Exists` is ignored by Provision,
  the error of an update by `UpdateRelease`, the errors of deletions by a purge;
* **partial failure**: an update that fails leaves two live revisions, one that
  fails at a hook of the chart leaves the new one pending, a broken connection
  leaves a call that goes on without its caller, a restart of Tiller leaves a
  revision pending, a write that fails leaves a cut file;
* **reads put together from several calls**: a binding's addresses and its
  passwords come from different requests;
* **shared files without a lock**: the repositories file, the cached indexes and
  the archives are rewritten in place by every request that misses a chart;
  `ioutil.WriteFile` empties a file before it fills it, and another request, or
  the next start after a crash, meets the empty one;
* **waiting without limit**: `Wait` is set and no timeout, and the job of a hook
  is waited for as long as it runs;
* **state read back from a printed table**: what helmi knows of workloads and
  services it parses from text that Tiller prints for people, in columns of
  limited width and in the order of a Go map.

What makes each component correct:

* handlers: a 201 for a provision means a release; an instance is created once;
  200 or 410 for a deprovision means nothing is left; a poll tells the truth;
  each request is answered;
* release operations and Helm client: an error of Tiller is an error of the
  operation; credentials match what runs;
* Tiller: one deployed revision per name; an instance can be updated whatever
  happened to earlier updates; no objects without a release to find them by;
* status conversion: available, failed and timed out as the replicas say;
* chart retrieval: what is loaded is a complete archive of the chart asked for,
  no error but that of a write leaves a file behind that cannot be read, and
  once an archive is there it is not downloaded again;
* catalog: the directory is taken whole or not at all, and a request works with
  one service and one of its plans;
* credentials: address and port make one endpoint of the cluster, as far as the
  printed status has the address, and bindings of one state of the cluster agree;
* start-up: a broker that serves has the repositories it was told to insist on,
  and one that need not insist comes up whatever it finds.

The hazards, each at its line, with the properties that cover it or the reason
none does, are listed in `PROJECT.json`.

## 2. Modules

| Module | What it is |
|---|---|
| `Tiller` | Tiller's storage, the objects of the cluster, and the three changing calls, one action per request |
| `HelmBroker` | EXTENDS `Tiller`: the handlers as processes, what may break, `Spec`, `FairSpec` |
| `BrokerProperties` | EXTENDS `HelmBroker`: every property, and the inductive invariant |
| `MCHelmBroker` | the instances for TLC: release names and sets of requests |
| `OSBInstance` | the abstract life of an instance: what a platform that sends one request at a time may count on |
| `Lifecycle` | EXTENDS `BrokerProperties`: the refinement mapping from the broker on Tiller to `OSBInstance`, and the last part of the serial invariant |
| `ChartCache` | start-up and `getChart`: repositories file, cached indexes and archives, write by write, with crashes |
| `ChartProperties` | EXTENDS `ChartCache`: its properties and its inductive invariant |
| `MCChartCache` | repositories, charts and wants for TLC |
| `Credentials`, `MCCredentials` | what a binding says of addresses and ports; small releases and clusters |
| `Catalog`, `MCCatalog` | the catalogue directory and the lookups in it; small directories |
| `ReleaseStatus` | what Tiller prints of a release's resources, and the loop that reads it back |
| `MCReleaseStatus` | small releases for TLC |
| `HelmBrokerProofs` | type correctness, the inductive invariant, and the two properties proved from it |
| `ChartCacheProofs` | type correctness, the inductive invariant and the safety properties of the chart cache |
| `SerialProofs` | the order of serial use, and the properties of releases that follow |
| `SettledProofs` | values and readiness in serial use: bindings, polls, updates, waiting provisions |
| `RefinementProofs` | the broker on Tiller implements `OSBInstance` in serial use |
| `CatalogProofs` | type correctness and the two properties of the catalogue |
| `CredentialsProofs` | type correctness of the answers of a bind, and the three properties of credentials |
| `ReleaseStatusProofs` | the reading of a status, line by line, and its properties |

### Tiller

| TLA+ | Code |
|---|---|
| `store[n][v]` | the ConfigMap of revision `v` of release `n`: its status and configuration, or `NoRecord` |
| `objects[n]` | the Kubernetes objects of release `n`: the values they were given, or `None` |
| `ready[n]` | all replicas of those objects are available |
| `op[c]` | the call of caller `c`: its kind, the step it is at, the revisions it chose and read |
| `PrepareInstall` ... `InstallDone` | `prepareRelease`/`uniqName`, then `performRelease`: history, superseding a replaced revision, recording, creating or updating objects, waiting, recording the end |
| `PrepareUpdate` ... `UpdateDone` | `prepareUpdate` (deployed revision, last revision, rendering), `performUpdate`, `UpdateRelease` |
| `UninstallHistory` ... `UninstallPurge` | `UninstallRelease` with `Purge`: the latest revision is marked, the objects removed, then the revisions one by one |
| `HookFails`, `AtHook` | `execHook` before and after the work of each call, as part of the step before which, or after which, it runs |
| `WaitForResources` | `kube.Client.waitForResources`, with no deadline |
| `BecomeReady`, `TillerRestart` | the cluster, and the end of every call in progress |

Each action is one request to the storage or the cluster, so calls interleave
as they can in Tiller. Two release rules are worth knowing: with `ReuseName`, a
name is free again when its latest revision is FAILED; and a failed update
writes the original revision back as DEPLOYED beside the new FAILED one.

Hooks. helmi's options (`options.go`) never disable them, so the hooks of a chart
run, and one that fails ("hook" in `KubeFaults`) ends each call in a way of its
own:

| Hook | What is left | Action |
|---|---|---|
| pre-install | nothing: an error, no record | `InstallHistory` |
| post-install | the objects, and a FAILED record | `InstallDone` |
| pre-upgrade | the new revision PENDING_UPGRADE and the latest, its values never applied, the old one DEPLOYED | `UpdateApply` |
| post-upgrade | the same, with the new values applied | `UpdateSupersede` |
| pre-delete | everything as it was, before DELETING is stored | `UninstallDeleting` |
| post-delete | nothing: the error is dropped, as those of the deletions are | `UninstallHooked` |

### HelmBroker

| TLA+ | Code |
|---|---|
| `req[r]` | the request of handler `r`: kind, instance, accepts_incomplete, plan, parameters, whether its body parses |
| `pc[r]` | where the handler is: before its existence check, awaiting a call, ... , done |
| `reply[r]` | the answer: an HTTP status, or the state a poll returns |
| `creds[r]` | what a binding is made of: the revision its addresses come from, and the values its passwords come from |
| `Provision`, `Update`, `Deprovision` | the existence check of the handler and of `release`, the early returns, and sending the call (`Send`: `Wait` is the negation of accepts_incomplete) |
| `Return`, `BreakConnection`, `GetRelease` | the answer or the loss of it, through `client.go` and `release.go` to the handler; `GetRelease` is the lookup `UpdateRelease` does in place of an error |
| `BindStatus`, `BindValues`, `Unbind` | the handlers of bindings |
| `LastOperation`, `LastOperationError` | polls; `State` is the chain of tests over the flags of `release.Status` |
| `Receive`, `BrokerRestart` | the platform, and the loss of every open request |

`Faults` names what may go wrong around the broker and `KubeFaults` which
cluster requests may fail; each run says which of them happen in it.

### ReleaseStatus

A module of its own: the reading of a status is sequential code with no state
outside it. `release` is what is really there, a sequence of groups (one per API
version and kind, in the random order of the Go map Tiller ranges over). `group`
and `row` say which line the scanner reads next, `col` the columns learned,
`status` the sums and lists so far. `LineAt`, `HasHeader` and `RowAfter` are the
printing by Tiller and the alignment by `formatResources`: a group has a title
(row -1), a header (row 0) unless the group before is of the same kind, a row for
each object, and a blank line; offsets become cell numbers, and an empty cell
moves the rest of its row to the left. `ExternalIP` is the printed address:
Tiller asks for no wide tables, so that of a load balancer is cut to 16 bytes, of
which the last three are dots (`Cut` says which addresses are too wide and what
is left of each; two may be cut to the same). Ports are read into maps, in which
the last node port of a port stays (`NodePortsIn`).
`ScanBlank` and `ScanLine` are an iteration of the loop of
`convertByteToStatus`, `Finish` is what follows the loop. The properties compare
the status with the release it came from. `HelmBroker` uses the result as one
bit (`IsAvailable`), so what `UnavailableIsSeen` has to except, it does not see.

### OSBInstance and Lifecycle

`OSBInstance` knows neither releases nor Tiller. An instance is absent, being
created, there, changing, being removed, or a leftover of a provision that
failed; a request is asked, at work, over and answered. `Work` says from which
phases a request may start and where it may end, `Codes` which answers are
possible at which stage and phase. `Lifecycle` maps the broker to it:

| abstract | concrete |
|---|---|
| `phase[i]` | the kind of the call that is `working` on it (`creating`, `changing`, `removing`), else: no record is `absent`, a DEPLOYED revision is `there`, any other is `leftover` |
| `stage[r]` | the handler's `pc` and the step of its call: `working` once Tiller no longer refuses the call: an install past its name check and pre-install hooks, an update past its look at the deployed revision, an uninstall past its pre-delete hooks; `over` when Tiller has replied |
| `asked[r]`, `answer[r]` | the kind and instance of `req[r]`, and `reply[r]` |

A whole call to Tiller, some ten requests to storage and cluster, is then
`Begin`, stuttering, and `End`; a call refused before its first change is
`Refuse`, a deprovision at a pre-delete hook among them: it is answered 500, and
the instance is as it was. An update that fails at a hook ends where an update may
end, with the instance there. `ImplementsOSB` is `OSB!Spec`, checked as a property of the run
`serial` and proved in `RefinementProofs`.

### ChartCache

| TLA+ | Code |
|---|---|
| `repofile` | `repositories.yaml`: absent, torn (emptied, or garbled), cut (left by a write that failed) or whole, and the repositories it lists |
| `index[r]`, `archive[f]` | `<repo>-index.yaml` in the cache; `<chart>-<version>.tgz` in the archive and the repository it came from |
| `pc[p]`, `next[p]`, `seen[p]` | a request or start-up (`Main`): where it is, the repository the loop of `initRepos`/`getRepos` is at, the list `updateRepoFile` read |
| `TruncateIndex` ... `UpdateRepoFile` | `addrepo` with `DownloadIndexFile`, `addRepoFile`, `updateRepoFile`; each `WriteFile` is two steps, and either may fail |
| `FindChart`, `FindURL`, `ResolveChartVersion`, `TruncateArchive`, `FillArchive`, `LoadChart` | `getChart`: `findChartWithPath`, `writeChart`, the downloader, `loadChart` |
| `Start`, `Fail`, `Serve`, `Crash` | `main`, the outcome of an error in `NewClient`, `Run`, and the end of the process anywhere |

A repositories file that two requests write at the same time may come out as
either list, as the longer one, or garbled; charts are names and versions, and
what a repository offers is a constant.

A write fails ("write" in `Faults`, a full disk) when the file cannot be opened,
which changes nothing, or after it was emptied: then `ioutil.WriteFile` returns the
error and the file stays as it is, `cut`, with nobody to fill it (`LeftBy`; what
another process has written in full meanwhile stays whole). A cut file is read as a
torn one is: an error, for every request until one writes it anew. That happens to
an index, to an archive only through a service whose offline path does not exist,
and to the repositories file never. The repositories file is smaller than a
block, so a full disk takes nothing of it.

### Credentials and Catalog

`Credentials` is the second half of a bind: `ReadStatus`, `ReadNodes`, then
`UserCredentials` from what was read, while `Balance` and `ReplaceNodes` change
the cluster. The status has the addresses as Tiller prints them (`Printed`, the
part of `ExternalIP` that matters here): cut, or `<pending>`. The properties compare
with the services that are in the cluster. `Port`, `extractAddress` and `extractHAAddress` follow
`catalog.go`; where the code ranges over a map, they are sets of possible
results. `domain` and `dns` are the environment: `DOMAIN`, and whether
`CLUSTER_DNS` is set, without which one `ClusterIP` service takes the
high-availability address of all others away (`NeedsDns`). `Catalog` reads a directory file by file (`ParseFile` is the function
given to `filepath.Walk`), then looks services and plans up as the handlers do:
twice, each time ranging over a map and comparing IDs without case.

### Abstractions

* The objects of a release are one unit: they are created, changed and removed
  together. A creation that fails midway may have been applied or not.
* Values are a record of three parts: who generated the random ones, the plan's
  and the user's. How the parts are merged is not modelled.
* The three models around the broker are not composed with it: `HelmBroker` sees
  a chart that cannot be had (fault "chart"), a node list that fails ("nodes"),
  a plan that is not the service's (`None`), and nothing else of them. They share
  no state with it: files and catalogue never depend on releases.
* An index or archive is torn or whole; its bytes, checksums and the repository's
  own changes are not modelled. The Helm home outlives a crash; the chart under
  `chart/` mounts no volume for it, so there a new container starts with none.
* Errors of the ConfigMap storage itself do not happen; a missing or an already
  used key does, and has the effect it has in the code.
* A status read takes the record and the cluster at one instant; in Tiller they
  are two reads. Likewise the node list of a binding and the values it reads.
* `getName` is a function the run chooses; the proofs hold for each one,
  injective or not. Namespaces are not modelled.
* helmi asks for no dry runs, rollback or tests, so they are left out. The
  objects of hooks, and those that a chart marks `helm.sh/resource-policy: keep`,
  are outside `objects`: Tiller does not remove them with the release.
* A provision for an unknown service or plan never reaches the broker's handler,
  for brokerapi answers it with 400; with other requests it does, and they are
  those of a plan of another service (`None` as the plan) as far as the handler
  looks at it.
* A load balancer keeps the address it has been given, and `spec.externalIPs` are
  left out. A status has the kinds whose tables helmi tells apart; the list of
  missing objects at its end has none of the columns (`Other`), and the
  tables of daemon sets and replica sets have those of deployments and stateful
  sets.
* `Finished` lets the system stop when every request is done, so that TLC's
  deadlock check finds every other place where nothing can go on.

## 3. What is checked

One release name, one instance, one plan and one user parameter in all runs of
the broker.
Requests are consumed, each handler serves one, and `MaxVersion` equals the
number of requests: each request makes at most one revision, so the bound on
revisions never excludes a behaviour.

| Run | Instance | Shows |
|---|---|---|
| `serial` | 4 requests of any kind, one at a time; missing charts, templates and node lists that fail; rendering, creating, updating and hooks fail | the life of an instance: `LifecycleInv` (inductive), `OneCreation`, `NoOrphans`, `SingleDeployed`, `StaysUpgradable`, `DeprovisionLeavesNothing`, `SyncProvisionReady`, `BindMatchesObjects`, `PollIsTruthful`, `ValuesKept`, and the refinement `ImplementsOSB` |
| `unreachable` | the same, any call may find Tiller out of reach; rendering, creating and hooks fail | `OneCreation`, `NoOrphans`, `DeprovisionLeavesNothing` in spite of failed existence checks |
| `concurrent` | 3 provisions, updates and deprovisions at once; lost connections, Tiller unreachable and restarted; failing updates and hooks | `IInv` (inductive), `AckedProvisionHasRelease`, `OnlyDeprovisionRemoves` |
| `answered` | 2 requests of any kind and shape at once, every fault, fair scheduling | `AnsweredOrWaiting` |
| `failed_update` | 3 requests one at a time, Tiller unreachable, failing updates | `OneCreation` is violated |
| `refused_update` | 2 requests one at a time, rendering fails | `UpdateAckApplied` is violated |
| `early_success` | 2 requests one at a time, nothing fails | `SucceededMeansAvailable` is violated |
| `status` | releases of up to 2 groups of 1 or 2 objects, and of 3 groups of one object each | `NeverPanics`, `UnavailableIsSeen`, `AvailableNeverFails`, `ServicesKept`, `IngressesKept` |
| `charts` | 3 requests for 8 kinds of charts at once, an offline path that does not exist among them, 2 repositories that may not answer, one with provenance files, writes that fail; `force_remote_repo` | `IInv` (inductive), `ServedAsAsked`, `ForcedReposListed`, `TornOnlyWhileWritten`, `SettledStays`, `FailsOnlyBesideWriter` |
| `crashes` | 2 requests, 2 crashes anywhere, repositories that may not answer, writes that fail; no `force_remote_repo`; fair scheduling | `IInv`, `StaysUp` |
| `credentials` | 2 binds, releases of up to 2 services of every type in either order, 3 clusters, load balancers that get an address, printed whole or cut, with and without `DOMAIN` and `CLUSTER_DNS` | `EndpointServed`, `HaComplete`, `BindingsAgree` |
| `catalog` | every directory of up to 2 files with 3 IDs, two of them equal but for case; 2 requests | `WholeDirectory`, `LookedUpTogether` |

Why the bounds are enough. Four serial requests hold provision, failed update,
update, and a bind, poll or deprovision after them, and provision, deprovision,
provision, bind. Three concurrent ones hold two provisions racing with a
deprovision, or a provision, an update and a deprovision: every pair of calls
with a third to observe or disturb it. Two requests with every fault hold every
way a request can be cut off, because what a handler waits for is its own call
and the readiness of the objects, which one other request can remove. Requests
are interchangeable (a request only marks the values it generated) and the runs with
invariants use that as a symmetry; the run with a liveness property does not.

For `status`: the columns learned from a table last to its blank line and a
header depends on the group before, so three groups hold every pair of
neighbours with a third that may restore a header; two objects in a group hold
rows with and without a header above them. Sizes are zero, too few, not ready,
enough and too many replicas. One service has a port twice, with two node ports;
a load balancer has no address, a short one, or one of two that are cut to the
same text.

For `charts`: two repositories make a list that can be complete, half or empty,
and three requests hold two writers of one file with a third process reading
it. For `crashes`: the second crash may meet what the first one left.
For `credentials` and `catalog`: two services are enough for one that is first,
one that is discovered and one that is neither, two files for an ID that is
taken twice, two bindings for a comparison.

What "one at a time" means. `Serial` holds back a request for an instance while
another one is open, as a platform that serialises operations does. A call that
outlives its request (a lost connection, a restart of the broker) is not held
back; the serial runs have no such fault, the concurrent run has.

Where a property is checked without a fault, or with an exception, the code
does not have it otherwise. `NoOrphans` fails when deletions fail (a purge drops their errors),
`StaysUpgradable` when Tiller restarts in mid-update, `SingleDeployed` when two
updates overlap, `OneCreation` in `failed_update`. `BindMatchesObjects` and
`PollIsTruthful` except a latest revision that a failed call left behind
(`LeftByFailure`), marked FAILED, or still PENDING_UPGRADE where a hook of the
chart failed: a binding then has values that the objects never got, or got
without the platform being told, and polls go on answering "failed" although the
release runs. Availability
is a sum over the release, so `UnavailableIsSeen` excepts a surplus of replicas,
kinds without an AVAILABLE column and two API versions of one kind: with any of
these a status can look available when it is not. `IngressesKept` says nothing
of the port once an ingress has an address: it is 0 then, for the port is read
in the ADDRESS column, where it stands only while there is no address.

* `ValuesKept` is about updates without parameters. `release.Update` sends the
  request's parameters only, and Tiller takes the old values over only when
  there are none: one parameter is enough to lose the generated passwords and
  the plan's values, although the update names no plan (the specification,
  `docs/Open Service Broker API 2.12.md:509`, has the plan unchanged then).
* `StaysUp` is checked without `force_remote_repo`. With it, one crash between
  emptying and filling `repositories.yaml` keeps the broker from ever coming up
  on that Helm home: the empty file exists, so it is not created anew, and
  loading it is an error, `ErrRepoOutOfDate`, whose recovered file
  `updateRepoFile` does not save.
* `TornOnlyWhileWritten` is checked without crashes, after which a torn archive
  stays where it is and every later request for that chart fails. It does not
  say that errors leave all files whole: one that a failed write has emptied is
  `cut`, not torn, and has the same effect on later requests for ever.
* `ServedAsAsked` holds when no two repositories offer a chart under a name that
  a service asks for (`OwnCharts`): the archive is searched by name and version
  alone, so otherwise a service may be given the other repository's chart.
* `FailsOnlyBesideWriter` excepts charts with a provenance file: the check runs
  against an empty keyring and fails, after the archive was written, so the
  first request fails and the next one loads it. It also excepts the steps that
  ask a repository or write a file, where these may fail, and those that read
  what a failed write has left (`BeforeCut`).
* `ServicesKept`, `EndpointServed` and `HaComplete` except an address that is not
  printed whole: a load balancer's host name, or its two addresses, end in `...`
  in the status and so in the binding, and before there is an address the binding
  has `<pending>`. Nothing can be reached there.
* `EndpointServed` and `BindingsAgree` name the releases they are about: the
  address is taken from the last service that contains the discovery name, the
  port from the first of all, and of several ports Go's map order chooses one.
  `HaComplete` is about brokers without a `DOMAIN`: the repository's
  `README.md:194` has it replace the IPs of connection strings, and
  `extractHAAddress` does not look at it.
* `LookedUpTogether` is about catalogues whose IDs differ in more than case;
  nothing in the code makes sure that they do.
* Every run gives each instance a release name of its own. `getName` keeps 14
  characters of an ID, and with a shared name a deprovision of one instance
  removes the other.

### Fairness

`FairSpec` assumes that a handler that can take a step takes one (the Go
scheduler) and that Tiller carries its calls on, except where a call is at a
hook (`AtHook`). Nothing is assumed of the platform, of faults, of workloads, which
may never become ready, or of the job of a hook, which may never end. A handler
that does not accept incomplete is then open for ever, since neither helmi nor
its options set a timeout, and so is any handler whose call is at such a hook:
`execHook` is given the same timeout, 0, with which `watch.Until` waits for ever.
`AnsweredOrWaiting` says that these are the only ways for a request to stay
unanswered.

For the chart cache, `FairSpec` assumes that every goroutine runs on and that
somebody starts the broker again when it is down or has ended, as Kubernetes
does. Crashes are not fair and their number is bounded (`MaxCrashes`): a broker
that crashes for ever need not stay up. Requests are never assumed to come.

### Disagreements between code and documents

1. **A live instance is created again** (`failed_update`). After a failed
   update the latest revision is FAILED and Tiller re-grants the name. A
   provision normally meets 409 in the handler; but `if exist && err == nil`
   goes on when the check itself failed, and the release is replaced with newly
   generated values and answered 201.
2. **A refused update is answered 200** (`refused_update`). `UpdateRelease`
   drops the error of Tiller when a lookup finds exactly one listed revision.
3. **A poll succeeds early** (`early_success`). `IsDeleted` is filled from
   `IsDeployed`, so every deployed release has "succeeded", available or not.

## 4. What is proved

### The broker

The theorems hold for every set of requests, instances, release names, plans
and parameters, every `getName`, every `Shapes`, any set of faults, and every
bound on revisions. The assumptions are `TillerAssumption` (the bound is a
number, `None` is none of the other values) and `BrokerAssumption` (the
constants have their types); neither says anything about the instances.

| Theorem | Statement |
|---|---|
| `TypeCorrect` | `Spec => []TypeOK` |
| `Inductive` | `Spec => []IInv` |
| `AckedProvision` | `Spec => []AckedProvisionHasRelease` |
| `DeprovisionOnly` | `Spec => OnlyDeprovisionRemoves` |

`AckedProvisionHasRelease` is not inductive: when an install's last step answers
"ok", nothing in the property says that its record was ever written. `IInv`
adds

* `CallMatchesRequest`: a call belongs to the request of its handler, has its
  release name, and is an install exactly when the request is a provision; a
  handler that answered is done, and a 201 stands for a call that ended well;
* `InstallLeavesTraces`: an install at or past its apply step has a record, past
  the apply step it has objects, unless a deprovision has reached Tiller.

The argument. Only `UninstallPurge` removes records and only `UninstallRemove`
removes objects (`ReleaseStays`, `ObjectsStay`, `RevisionsStay`), and once a
deprovision has reached Tiller that fact stays (`UninstalledStays`): a call's
kind and name outlive it. So what an install left behind is there until then
(`TracesStay`), whoever else is at work; what its own steps add is `OwnTraces`.
A step of one caller leaves every other call alone except for a restart, which
ends it with an error (`OneCall`, `OtherSteps`); handlers touch only their own
request (`HandlerMatches`, `OtherHandlers`). `IInv` and `OnlyDeprovisionRemoves`
are also checked by TLC in `concurrent`.

### Serial use

`SerialUse` is what the run `serial` assumes, as a formula: requests for an
instance come one at a time (`Serial`), instances have release names of their
own, no call is lost, unreachable or cut off by a restart, and deletions work.
Everything else may fail, hooks included, and there may be any number of instances
and requests.

| Theorem | Statement, each under `SerialUse` |
|---|---|
| `SerialOrdered` | `Spec => []SerialOrder` |
| `OneDeployed` | `Spec => []SingleDeployed` |
| `NothingOrphaned` | `Spec => []NoOrphans` |
| `CreatedOnce` | `Spec => []OneCreation` |
| `Upgradable` | `Spec => []StaysUpgradable` |
| `NothingLeft` | `Spec => DeprovisionLeavesNothing` |
| `SerialInductive` | `Spec => []SerialInv` |
| `ReadyWhenCreated` | `Spec => SyncProvisionReady` |
| `BindingsMatch` | `Spec => BindMatchesObjects`, with a credentials template that does not fail; a latest revision that a failed call left is excepted |
| `PollsAreTrue` | `Spec => PollIsTruthful` |
| `PasswordsKept` | `Spec => ValuesKept` |
| `LifecycleInductive` | `Spec => []LifecycleInv` |
| `ImplementsLifecycle` | `Spec => ImplementsOSB` |

None of the properties is inductive: each depends on how far the call at work
has come. The invariant is built in three layers, each inductive with those
before it.

`SerialOrder` is about releases and their records. It has three parts beside
`IInv`:

* `OneAtATime`: two open requests for one instance are one, and a running call
  is awaited by its handler. So at most one call is at work on a release
  (`RunsAlone`), although neither helmi nor Tiller has a lock;
* `WorksAlone`: what each step of that call finds. An install starts from no
  revision (the handler has just seen none), so it never replaces one; an update
  keeps the one deployed revision until it supersedes it, and its own revision
  is another one; an uninstall has read every revision there is;
* `InOrder`, of a release: one deployed revision at most, no objects without a
  record, and once installed and not deprovisioned, a deployed revision or an
  update in its last step.

A step of a call changes its own release only (`OwnName`), so the calls on other
releases keep their facts (`OthersAlone`, `OthersInOrder`); what it does to its
own is followed through `OwnInstall`, `OwnUpdate` and `OwnUninstall`, one step
per request to the storage. Handlers touch no release (`SerialHandler`).

`SerialInv` adds the values. What an answer tells about them was read some steps
before, so the invariant has to say of every step in between what is still true:

* `CallValues`: what a call knows of objects and records. From the step on that
  applies them, the objects have its values, and those of an update without
  parameters are the values of the deployed revision it has read; its own
  revision is the latest, and pending as long as a hook may still fail; a request
  that waits has been shown readiness;
* `Settled`: between the writes of calls, the latest revision is deployed with the
  values the objects have, or was left by an install or update that ended in error
  (`LeftByFailure`): FAILED, or PENDING_UPGRADE where a hook failed. It is what a
  bind and a poll find; while a call writes it does not hold, and `WriteSettles`
  restores it. A deprovision that ends at a pre-delete hook has written nothing;
* `ReadsLatest`: a bind that has read the status reads the values of the same
  revision, because no update comes between (`ReadIsSettled`).

`LifecycleInv` adds `EndsAsFound`, what the answers are chosen by: an install
has ended well exactly when it left a deployed revision, an update that ended
well left a record, an uninstall found what it was sent for and has not failed.

`NextSimulates` then maps each step to one of `OSBInstance` or to a stutter.
Tiller's steps are split by whether the call is at work before and after
(`TillerSimulates`: `Refuse`, `Begin`, `End` or a stutter); only its own call
counts for the phase of its instance (`OwnPhase`), the other instances keep
theirs (`OtherPhases`). A handler answers, asks Tiller for more or sends its call
(`AnswerSimulates`, `MoveStutters`, `SendStutters`); `HandlerSimulates` shows
that each answer is one of `Codes`, from `EndsAsFound` and, for polls, `Settled`.

### The chart cache

The theorems hold for any number of requests, repositories, charts, versions
and paths, whatever the repositories offer and the services ask for, and for
any faults. `ChartAssumption` gives the constants their types.

| Theorem | Statement |
|---|---|
| `ChartTypes` | `Spec => []TypeOK` |
| `ForcedListed` | `Spec => []ForcedReposListed` |
| `ServedCharts` | `OwnCharts` implies `Spec => []ServedAsAsked` |
| `ChartsInductive` | `OwnCharts` implies `Spec => []IInv` |
| `TornFilesWritten` | `MaxCrashes = 0`, `ForceRemoteRepo` and `OwnCharts` imply `Spec => []TornOnlyWhileWritten` |
| `FailuresExplained` | `MaxCrashes = 0`, `ForceRemoteRepo` and `OwnCharts` imply `Spec => FailsOnlyBesideWriter` |
| `SettledArchives` | `Spec => SettledStays` |

None of the safety properties is inductive. The argument:

* start-up and requests never overlap (`StartUpAlone`): requests are received
  only once `Run` serves, and a crash ends them all;
* while start-up is at its n-th repository, a whole repositories file lists the
  first n-1, and so does what it has read of it (`ListedSoFar`). With
  `force_remote_repo` the broker is up only after the last one, so from then on
  every list that a request reads, and writes back, is complete. The file is
  there by then, so no request writes the short list of `addRepoFile`;
* a request downloads what `FindChartInRepoURL` found for it, or loads a file
  that exists under the name its service gives (`PlacesAsked`), and an archive
  is what its repository offers under that name (`ArchivesOffered`). With
  `OwnCharts` only one repository can have been asked for it;
* hence writers of one archive write the same chart, and writers of the
  repositories file write the same list (`RepoFileOwn`, `ListedSoFar`): no
  filling garbles what another has filled, and a torn file has a writer: it is
  filled, or cut by a write that fails. All other errors on the way come before a
  file is emptied, which is what `TornOnlyWhileWritten` would show up if it
  changed;
* a request fails at one of its returns, all its own (`OwnFailure`). Those that
  read a file need it absent or torn. It is not absent: the request has refreshed
  the index of every repository before it asks for its chart, and an archive it
  loads is one it has filled or found (`Refreshed`). If it is cut, a write has
  failed (`BeforeCut`). A torn file has a writer, who is not the request, since that
  is at another step. So what is left is another process between emptying and
  filling a file that the two share (`BesideWriter`), a repository that does not
  answer, a write of its own that fails, or a chart nobody offers;
* an archive is written only by a request that was about to download it
  (`WriterDownloads`), and one that finds it whole under the name it looks for
  never gets there. This needs no assumption, and crashes do not matter.

The three assumptions of `TornFilesWritten` and `FailuresExplained` are needed:
TLC finds torn files after a crash, with different charts of one name, and with
lists of different length when requests add what start-up could not.

### The catalogue

The theorems hold for directories of any length, services with any number of
plans, any IDs and requests. `CatalogAssumption` says that a directory is a
sequence of files and that plans are a sequence.

| Theorem | Statement |
|---|---|
| `CatalogTypes` | `Spec => []TypeOK` |
| `DirectoryWhole` | `Spec => []WholeDirectory` |
| `TogetherFound` | `Spec => []LookedUpTogether` |

`ReadSoFar` says of the files before the one at hand what `WholeDirectory` says
of all of them; a file that takes an ID is itself the later file for the service
that had it. For `LookedUpTogether`, a request comes only once the walk has
ended (`AskedInService`), so both of its lookups range over the same map;
`FoundAsAsked` keeps what the first one found, and `PlansFoundOwn` says that
with IDs of their own the second one can only find a plan of that service.

### Credentials

The theorems hold for any number of binds, services, ports and nodes, and for
every order in which Go may range over a map. `CredentialsAssumption` says what
Kubernetes guarantees of the data: a release is a sequence of services, all
ports of a `NodePort` service have a node port and none of a `ClusterIP` service
has one, and an address in a node's list is one; and that what the printer leaves
of an address it cuts is not itself an address a load balancer may get.

| Theorem | Statement |
|---|---|
| `CredentialsTypes` | `Spec => []TypeOK` |
| `EndpointsServed` | `Spec => []EndpointServed` |
| `HaCompleted` | `Spec => []HaComplete` |
| `BindingsAgreed` | `Spec => []BindingsAgree` |

The temporal part is `Rendered`: what a bind read does not change after its last
read, whatever `Balance` and `ReplaceNodes` do to the cluster, and its answer is
the functions of the credentials on what it read; and `Holds`: the services in that
status are still those of the cluster, name by name, type by type and port by port,
with the same address where the status has it whole, since a load balancer keeps
the one it has (`Readdressed`, `StillServed`). The rest is about the
functions. `Min` and `Max` of a set of indexes are in the set (`MinOf`, `MaxOf`,
from the well-foundedness of `<`), so the first or last node that has an address
is a node and has one (`FirstOfNodes`, `LastOfNodes`, `AddressKept`); a port that
is found among the targets of the first service is the one asked for, in the map
its type is looked up in first (`PortServed`), hence an endpoint with the address
of the same service (`AddressServed`, `EndpointOf`). Two bindings that read the
same differ only by map order; a map read at one key, or with one key, leaves
none (`PortAgreed`).

### The status

The theorems hold for releases of any number of groups, in any order, with any
number of objects of any size. `ReleasesAssumption` says what a release is:
groups are not empty, replicas are numbers and those available are there, ports
are numbers.

| Theorem | Statement |
|---|---|
| `StatusTypes` | `Spec => []TypeOK` |
| `StatusNeverPanics` | `Spec => []NeverPanics` |
| `UnavailableSeen` | `Spec => []UnavailableIsSeen` |
| `AvailableNeverFailed` | `Spec => []AvailableNeverFails` |
| `ServicesRead` | `Spec => []ServicesKept` |
| `IngressesRead` | `Spec => []IngressesKept` |

The key is `Known`, in `Position`: at every line, the columns known are those of
the header above it in the same group, or none. From it, each line is read as
what it is (`LineScanned`): a title or a header adds nothing (`NothingRead`), a
row without a header is no row of any table (`NoRow`), a row below its header is
one of that table only (`RowOfTable`), long enough for what is read of it
(`RowNotShort`), and adds its object (`RowAdds`, from `WorkloadRow`, `ServiceRow`
and `IngressRow`). An ingress without an address is why this is not obvious: its
row is a cell shorter than its header, and is read up to the third cell only.
Had the columns outlived their blank line, a row of another table could be
shorter than they ask for, which is what the mutant of `NeverPanics` shows.

On this rest four statements about what has been read so far, each inductive.
`Balanced`: with all replicas available, the totals are as well, for every row
that counts adds at least as many as it asks for, and the rows that do not count
add nothing. `Measured`: without a surplus, the total of those available is at
most that of those desired, and below it once an object that lacks replicas is
among the rows read (`Past`); no later row can make up for it. `ServicesListed`
and `IngressesListed`: the list has an entry for each object read, as `SameService`
and `SameIngress` say: a load balancer's address whole where the printer has room
for it (`PrintedWhole`), and cut short otherwise. A kind in one version has a
header (`HeaderOfOne`), so all its rows count (`OwnRow`). At the end all have been
read (`AllRead`). No total is ever computed as a sum over the release, so no
induction over data is needed: the loop's own steps are the induction.

### Only model-checked

`OneCreation`, `NoOrphans` and `DeprovisionLeavesNothing` where requests of
serial use also fail to reach Tiller (`unreachable`), and `AnsweredOrWaiting` and
`StaysUp`, because liveness under fairness is out of the prover's reach. Every
other property of a passing run is stated by a theorem.

## 5. Not modelled

* The parameter store (`pkg/db`: nothing calls it) and the stand-alone tools.
* Authentication and the liveness endpoint: a wrapper and a constant answer, no
  state. The liveness endpoint answers 200 whatever the tunnel to Tiller is like.
* The tunnel itself, made once by `NewClient`: a Tiller out of reach is a fault
  of single calls ("unreachable"), not one that stays.
* What the templates of a service file contain, and how their values are merged.
* Rollback, tests and dry runs of Tiller, which helmi does not ask for, the objects
  of hooks (only whether a hook ends, and how, is modelled), and errors of its
  ConfigMap storage.
* Namespaces, and a panic in a handler (an instance ID shorter than 14
  characters, a binding whose service has left the catalogue), which the HTTP
  server recovers from.

Next: `ChartCache` composed with `Provision`, so that a release records which
chart it was made from; the serial properties where calls may fail to reach
Tiller, with the part of `SerialUse` they can do without.

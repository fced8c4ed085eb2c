# A specification of teleport-operator

teleport-operator registers Cluster API clusters with Teleport. For every
`Cluster` it keeps a Secret with a node join token, a ConfigMap with the values
(and kube join token) of the `teleport-kube-agent` chart, and a reference to
that ConfigMap in the chart's Flux HelmRelease or Giant Swarm App; with
`--tbot` also a ConfigMap, a reference and a kubeconfig Secret for the Machine ID
bot. When the Cluster is deleted it takes all of this away again.

This directory holds TLA+ modules translated from the Go code, TLC runs on small
instances, and TLAPS proofs for all instances.

## The system

| Part | Source | State | Operations |
|---|---|---|---|
| Reconciler | `internal/controller/cluster_controller.go` | workqueue, the Teleport client and identity in memory | `Reconcile`: one request at a time, every 5 minutes and on every Cluster event |
| Join tokens | `teleport/token.go` | provision tokens in the Teleport auth server, labelled with the register name | `GenerateToken`, `IsTokenValid`, `DeleteToken` |
| Secrets | `teleport/secret.go` | `<c>-teleport-join-token`, `teleport-<c>-kubeconfig` (written by tbot) | get, create, update, delete |
| ConfigMaps | `teleport/configmap.go` | `<c>-<app>-config`, `teleport-tbot-<c>-config` | get, create, update, delete, parse |
| Values, names, roles, versions | `key/key.go` | none | pure functions |
| Config managers | `teleport/app_manager.go` | reference lists in HelmReleases and Apps; the bot's list is shared by all clusters | detect, `EnsureConfig`, `DeleteConfig`, chart version lookup |
| Finalizer | `teleport/finalizer.go` | finalizers list of the Cluster, shared with other controllers | add, remove |
| Client and identity | `teleport/client.go`, `teleport/teleport.go`, `config/identity.go` | client, identity and when it was read | connect, reconnect after 20 minutes, read user values |
| Start | `main.go`, `config/config.go` | the operator's configuration and `--tbot` | read once per process |

The parts share no memory but the reconciler's; they meet in the Kubernetes API
and in Teleport, where users, Flux, app-operator, tbot and token expiry act at
the same time. Four things make that hard:

* typed objects are read through a cache that may be behind, even behind the
  operator's own writes; HelmReleases are unstructured and read live;
* every call may fail and the process may be killed between any two calls, with
  a token minted and not yet published, say;
* values read at the start of a Reconcile (roles, chart version, Cluster) are
  used many calls later;
* some writes carry a resourceVersion (ConfigMap, App, HelmRelease), some do not
  (Secret, finalizer patch).

What makes each part correct: published tokens belong to the cluster and roles
they are published for, and a good one is not thrown away; no call goes through
a missing client; the finalizer covers whatever has been published and leaves
the finalizers of others alone; the bot is never pointed at a missing ConfigMap,
clusters do not lose each other's references nor users theirs; an upgrade of the
chart never takes the agent its values; and, left alone, a cluster ends up
registered or gone. The hazards
behind these are listed with their lines in `PROJECT.json`.

## Modules

* **KubeAgentValues**: register names, roles, versions and the values document.
  The YAML is a record of the flat and the nested block; rendering and parsing
  keep what each does (which block appears, which is read back, when the version
  override is dropped). A version is a record with semver's ordering, including
  pre-releases and strings that do not parse.
* **JoinTokens**: tokens as a sequence (a UUID is a position, so names are never
  reused), validity and labels.
* **ClusterReconciler**: the state and actions. `pc` names the API call that comes
  next, `loc` holds Reconcile's locals; each call is one action, so anything may
  happen between two calls. Actions have the names of the functions; `Delete`
  and `Register` collect the two branches of Reconcile. Locals are forgotten
  when the code no longer uses them, which keeps states few.
* **Registration**: what the operator promises about a Cluster and its objects,
  without tokens, caches or calls: claim it, make objects, take them away, let
  go. **RegistrationRefinement** maps ClusterReconciler onto it.
* **ValuesRollout**: an upgrade of the agent's chart, composed from
  KubeAgentValues: the operator looks up the version in one step and writes the
  values in a later one, while users ask for other versions, charts are
  published, and Flux or the app platform renders the chart with the values it
  finds and reports what it installed. Which chart reads which block, which
  Teleport each chart bundles (`BundledAt`) and which Teleport is newer comes from
  the order of the histories given as constants,
  not from the operator's comparisons, so these are checked against it. A
  behaviour is `orderly` when users only upgrade and start without values left
  by an earlier operator; `AgentKeepsValues` is about these, while
  `RolloutCompletes` covers downgrades and leftover flat values too.
* **ReferenceList**: what the config managers promise about the lists of
  references. **AppConfigManager** is `app_manager.go` call by call on a resource
  name that may be a HelmRelease, an App or both, with the lists as sequences,
  nil and empty apart, entries of users in them (for the same ConfigMap too, where
  `Doubles` says so), and edits by users between any two calls; it implements
  ReferenceList. **Filtering** is the loop both take an entry out with, a recursive
  function of the position rather than `SelectSeq`, whose definition the prover
  does not expand.
* **MCReconciler**, **MCRollout**, **MCAppConfig**: constants for TLC.
* The theorems: **ClusterReconcilerProofs** (types, the client),
  **PublishedTokensProofs** and **TokensKeptProofs** (tokens), **FinalizerProofs**,
  **ReferencesProofs** (the bot's and the agents' references) and
  **RegistrationProofs** (the refinement) are about ClusterReconciler;
  **ValuesRolloutProofs** and **AppConfigManagerProofs** about their modules.

How code and model correspond, beyond names:

* An error return and `RequeueAfter` are both `Requeue`: the request is in the
  queue again. Back-off and the five minutes are not timed.
* `Fails` is any call that returns an error without effect. A call that took
  effect and whose answer was lost is `Restart` right after it as far as the
  objects are concerned.
* `Read(cached, live)` is a cached read. With `"lag"` in `Env` Secrets,
  ConfigMaps and the bot's ConfigMaps are read from caches that `SyncObjects`
  brings up to date; with `"applag"` Apps are, with `SyncApps`. Without, the live
  object answers. Clusters are always read from the cache (`SyncCluster`). The
  user values and the kubeconfig Secret are read live: the operator does not
  write the former, so a late read is the same as a late change, and deletes the
  latter only with its Cluster.
* A resourceVersion is compared by value: an Update succeeds if the object still
  equals what was read. `Get` and `Update` inside `EnsureConfig`, `DeleteConfig` and
  `CreateConfigMap` are one step, as are the two Gets of the manager detection
  and of the version lookup; a change between them is a conflict, that is, an
  error.
* `AddFinalizer` and `RemoveFinalizer` are merge patches without resourceVersion
  (`PatchFinalizers`): the whole list of the Cluster that was read, with or
  without the operator's own. The API server refuses a list that adds a
  finalizer to an object being deleted. A Cluster that is gone is an error, too:
  `client.IgnoreNotFound` is applied to what cluster-api's `patch.Helper` returns, an
  aggregate of errors, in which it does not recognise the NotFound; so `Reconcile`
  stops there.
* A Cluster stands for a namespace and a name; `NameOf` is its name. Secret,
  values ConfigMap and agent release are in the Cluster's namespace; the register
  name, the label of the tokens and the bot's objects are made from the name
  only, so two Clusters may share them.
* `config` is the operator's ConfigMap together with `--tbot`; a restart may bring
  another proxy address, teleportVersion or flag. `managementClusterName` and
  `appName`, which `config.go` reads at each start as well, are taken to stay the same:
  with another one the operator would look for its objects under other names.
* tbot (`TbotWritesKubeconfig`) is taken to write a kubeconfig only while its
  ConfigMap and the reference exist. A tbot that has not reloaded yet could write
  the Secret once more after `DeleteKubeconfigSecret`; the kubeconfig part of
  `FinalizerDroppedClean` rests on this not happening.
* The auth server refuses to delete a token it no longer has.
* `lastAssignedRoles` is left out: only tests read it.

`Env` says which parts of the environment are switched on in an instance.
`MaxDisturbances` bounds failures, restarts, expiries, removals and other changes
by outsiders (`Disturb`), `MaxTokens` the tokens ever minted; past it `GenerateToken`
returns an error.

## Runs

| Run | Instance | Shows |
|---|---|---|
| Core | one cluster, no releases, every fault and outside change, re-creation included, caches lag, 2 disturbances, 4 tokens | `TypeOK`, `PublishedTokensFit`, `TeleportClientUsable`, `FinalizerGuards`, `FinalizerDroppedClean`, `ConfigMapTokenKept`, `ImplementsRegistration` |
| Converge | one cluster, re-creation, another controller's finalizer coming and going, no lag, 2 disturbances, 6 tokens | `RegistrationConverges`, `DeletionCompletes`, `OtherFinalizersKept` |
| Rollout | the management cluster, HelmReleases, both layouts, restarts with an older Teleport and no bot or a newer one and `--tbot` | `RegistrationConverges`, `BotConverges` |
| Bot | `--tbot`, HelmReleases, failures, restarts, lag, release changes | `TbotReferencesBacked`, `FinalizerDroppedClean`, `ImplementsRegistration` |
| SharedList | two clusters, `--tbot`, Apps read through a lagging cache | `ReferencesKept` |
| TwoClusters | two clusters of one name, `--tbot`, HelmReleases deployed, either may be deleted at any time, user values become unreadable once | `RegistrationConverges`, `BotConverges` |
| Upgrade | 4 charts around 0.11.0 (one pre-release, one later with a newer Teleport), 4 Teleport versions around the one 0.11.0 bundles and one that does not parse, HelmRelease and App, downgrades, values left flat, 2 changes | `OverrideAtLeastFloor`, `AgentKeepsValues`, `RolloutCompletes` |
| References | two clusters, HelmRelease and App, lists of up to 3 entries, 2 edits or failures | `DeletedStaysDeleted`, `ImplementsReferenceList`, `ReferencesConverge` |
| Deregister, StaleApp, BotReinstalled, LaterBundle | smallest instances that show them | the findings below |

Bounds. Two disturbances let a second fault meet the recovery from the first:
an expiry after a crash, a removal after a failed write, a foreign finalizer that
comes and goes. Four tokens are the two of a registration and one replacement of
each; Converge has six, so that the bound on tokens never decides whether a
cluster converges (two disturbances cost at most two more, a re-creation two),
and TwoClusters seven; Bot has three, one mint that is lost, as tokens do not
matter to the bot; a bound that is hit would show there as a cluster that does
not converge. One cluster suffices for what is keyed by cluster name; the shared
list, the shared worker and the shared name have runs with two. Identities rotate in Core only: a rotation changes the
session and nothing a cluster converges to. In Upgrade two changes are an upgrade
and a restart with another teleportVersion in either order; the charts are a flat
one, the pre-release that may read either layout, and two nested ones, so every
comparison meets both sides and its edge. In References two changes are enough for
the release read at the Get to be replaced by another before the Update. Deadlock
is not checked where the last Cluster may go: then the operator has nothing to do.

Fairness (`FairSpec`). `WF(Continue)`: a Reconcile under way goes on, calls return.
`SF(GetCluster(c))` for every cluster: the workqueue hands out its requests in
turn, so one that is queued again and again is taken; strong, because the
single worker is busy in between. `WF` of the three `Sync` actions: watches
deliver. Nothing is assumed of users, Flux, tbot or failures; failures stop
because disturbances are bounded. TwoClusters assumes the same, but starts when all
releases are deployed and leaves out user values with apps (`DeployedFairSpec`), to
keep two clusters within reach. ValuesRollout assumes that the
operator reconciles (every five minutes), and that Flux or the app platform
renders the release and reports it at its own interval; AppConfigManager that
calls return, watches deliver and Reconcile comes back to every cluster, strong
because the worker may be with another one.

What convergence leaves out is written in the properties: objects Reconcile cannot
read (`Unreadable`) are an error at every attempt and nobody but a user repairs
them, which the runs allow to happen. They do not hold up a deletion.

### Refinements

`ImplementsRegistration`: with the caches, tokens and calls left out, every step of
the reconciler and its environment is one of `Registration`'s: the finalizer is set
before an object appears, dropped only when none is left, and a Cluster goes only
without it; one created again under the same name starts without finalizer and
objects. The bot's ConfigMap counts where `--tbot` is never off (Bot).

`ImplementsReferenceList`: for both kinds, whatever happens between Get and Update,
the lists change only by the operator's exact entry appended or taken out, or by
someone else; nothing is lost, doubled or moved.

### Where the code does something else than it says

* **Deregister** (`DeregistrationRemovesTokens`): `DeleteToken` returns after the
  first token with the cluster's label; a registered cluster has at least two.
* **StaleApp** (`AppReferencesRemoved`): a Cluster deleted right after
  `EnsureConfig`: `DeleteConfig` reads the App from the cache, does not see the
  reference, makes no update that could conflict, and the finalizer goes.
* **BotReinstalled** (`TbotConfigured`): once the kubeconfig Secret exists neither
  the bot's ConfigMap nor its reference is ensured again.
* **LaterBundle** (`NoDowngrade`): `ResolveNestedTeleportVersionOverride` compares the
  override with the Teleport that v0.11.0 bundles, whatever nested chart is deployed.
  A later chart that bundles a newer one is told to run the older. What the code does
  guarantee is `OverrideAtLeastFloor`: never older than what v0.11.0 bundles.

Four smaller observations have no run of their own. The Secret that is judged comes
from the manager's cache and `UpdateSecret` carries no resourceVersion: after a token
expired and was replaced, a Reconcile that still finds the old one in the cache
replaces the new one as well. No property says that a good node token is kept; the
ConfigMap's is (`ConfigMapTokenKept`), because its update is conditional. `AddFinalizer` sends the whole
finalizers list of a Cluster that may be stale, so it can take off or bring back
another controller's finalizer; the removal cannot (`OtherFinalizersKept`). The
version that `GetTeleportKubeAgentVersion` calls deployed is, for an App, the one
asked for. And `DeleteConfig` on a HelmRelease without `valuesFrom` compares nil with
an empty slice, finds them different and makes an update.

## Proofs

Every invariant, every action property and both refinements that the passing runs
check are theorems too; only the liveness properties are not. A theorem holds for
any clusters, names, versions and configurations, any bounds and any `Env`, except
for the hypotheses named with it. The assumptions behind all of them:
`AbsentAssumption`, `ConstantsAssumption`, `RolloutAssumption` and `ManagerAssumption`
give the constants their types; `AbsentIsNoObject`, `AbsentIsNoRegObject`,
`AbsentIsNoDocument` and `AbsentIsNoList` say that nil is no object, document or list;
`HistoryAssumption` is explained below. TLC evaluates them in the runs, and it has
checked the inductive invariants on the instances of the runs.

### ClusterReconciler

* `TypesHold`: `Spec => []TypeOK`. `TypeOK` is not inductive, because a ConfigMap is
  rendered from `loc.token`; `LocalsAssigned` adds that the token is there where it
  is used. Lemmas say what each operator returns, then one lemma per part of
  `Next` goes through its actions.
* `ClientIsUsable`: `Spec => []TeleportClientUsable`. `ClientInv` adds why: a fresh
  identity implies a connected client. `NewClient` sets both; a failure clears
  the client only where the identity is not fresh.
* `TokensFit`: `Spec => []PublishedTokensFit`. What is written comes from the
  locals, those from stale caches, and an update takes the register name out of
  the ConfigMap it read. `FitInv` demands that caches and locals fit as well.
  Tokens never change label or roles (`TokensStep`), so what fits goes on fitting
  (`FitsStable`); `SecretStep`, `ConfigMapStep`, `CacheStep` and `LocalsStep` say what
  one step may do, and `FitStep` puts them together. `ValidFits` is where
  `IsTokenValid` matters: same length and containment make the roles equal.
* `KubeTokensKept`: `Spec => ConfigMapTokenKept`. `SpentInv`: past the check, the token
  in the ConfigMap at hand is no good any more or is the one that will be written, and
  a token that is no good never becomes good (`SpentStays`); `HeldInv` says where the
  ConfigMap is at hand. The update only holds if the object is still the one read,
  so nothing else is needed. The update of the Secret is not conditional, and the same
  does not hold of it.
* `OthersAreKept`: `Spec => OtherFinalizersKept`. `BranchInv` ties the position in
  Reconcile to the Cluster it has read; `ListInv` says that a copy of a Cluster that
  is being deleted and still has the operator's finalizer lists at least the
  finalizers the live one has, because the API server lets no one add any.
* `DroppedClean`: `Spec => FinalizerDroppedClean`. `CleanupInv`: what the deletion
  branch has deleted on the way is still gone, since nobody else makes it and the
  worker is busy with this request.
* `GuardsAlways`: `Spec => []FinalizerGuards`, if `BotOwned`. `ClaimInv`: a copy of a
  Cluster that stays and has the finalizer, in the cache or at hand, is right about it
  however stale it is, and once the register branch is past `AddFinalizer` the live
  Cluster has it. A finalizer is only dropped by a Reconcile that read the Cluster as
  being deleted, and then the cache cannot show one that stays and has it; that needs
  `ListInv`. `BotOwned` is that `--tbot` is on in every process or in none, and if on,
  that names are not shared: a process without the flag drops the finalizer and leaves
  the bot's ConfigMap, and with shared names it may be another Cluster's.
* `ReferencesAreKept`: `Spec => ReferencesKept`, if `"recreate"` is not in `Env`. From
  `BranchInv` and `LifeInv` (a copy of a Cluster that is gone or being deleted is never
  contradicted by a later one): only the deletion branch takes a reference out, and it
  is entered for a Cluster that is being deleted in truth.
* `BotReferencesBacked`: `Spec => []TbotReferencesBacked`, if `OneKind` and
  `BotReadable`. `BackedInv` adds that the ConfigMap is there when the reference is
  about to be made; `StaleInv` that a ConfigMap only the cache still shows belongs to
  a Cluster that will not be registered again. `OneKind`: releases are of one kind
  that is read live; otherwise `DeleteConfig` may not see the release that has the
  reference (StaleApp). `BotReadable`: no lag, or neither re-creation nor shared names.
* `RegistrationImplemented`: `Spec => ImplementsRegistration`, if `PartsOwned` (where the
  bot's ConfigMap is one of the parts, names are not shared). `ClaimInv` gives the guard
  of `Publish`, `ListInv` that a Cluster let go is being deleted, and `CleanupInv` that
  nothing is left of it.

The hypothesis `"recreate" \notin Env` of `ReferencesAreKept`, and in `BotReadable`, is
that no Cluster is created under the name of one that is gone while an old copy is
still cached or at hand. Without it a copy that is being deleted makes `Reconcile`
deregister the new Cluster: with `"recreate"` added to SharedList, TLC finds
`ReferencesKept` violated in this way. The new Cluster gets its references back when
it is reconciled next. The other theorems do not need the hypothesis.

### ValuesRollout

`HistoryAssumption` relates the histories to the operator's two thresholds: every
chart older than `NestedFrom` is below 0.11.0, every Teleport older than the one that
`NestedFrom` bundles below 18.7.6, charts from `NestedFrom` on read the nested block only, every
teleportVersion that parses is in the history, and a version that names no one
chart does not parse (`0.11`, which semver completes and Flux takes for a range, is
therefore not covered). What charts later than `NestedFrom` bundle is left open.

* `FloorHolds`: `Spec => []OverrideAtLeastFloor`. `OverrideInv`: the override of a nested
  block was at or above the floor when it was written (`ResolvedIsNotOlder`), whatever
  teleportVersion came later, and nested charts read that block. It says nothing of a
  downgrade against a later chart, which the code does not prevent (LaterBundle).
* `ValuesAreKept`: `Spec => AgentKeepsValues`. `UpgradeInv`: while charts are only
  upgraded, the installed chart, the reported one and the one looked up are never
  ahead of the one asked for. A flat block is dropped only for a nested chart
  (`NestedIsNew`), and from then on no chart that reads it can be asked for
  (`TargetStep`).

### AppConfigManager

* `DeletedForGood`: `Spec => []DeletedStaysDeleted`. `CallInv`: no call is for a cluster
  that is forgotten; a call that did not find the HelmRelease may meet one later, but
  only one in which the operator has no entry yet (`NoReference`).
* `ReferenceListImplemented`: `Spec => ImplementsReferenceList`. An update writes what
  was computed from the list that is still there (`WriteStep`), and other people's
  edits leave the sequence of the operator's entries as it is (`EditsType`).

Both need to know what the loop of `removeValuesReference` computes: which entries it
leaves (`FilterHas`), that they stay in order, and that two lists are filtered one
after the other (`FilterConcat`). These are proved by induction. The library's
induction theorems take an operator as a parameter and cannot be used, but the least
element of a set can (`WFMin`): `NatSetInduction` and `SeqSetInduction` state induction
for the set of numbers, or of lists, that have the property.

### Only model-checked

`RegistrationConverges`, `BotConverges`, `DeletionCompletes`, `RolloutCompletes` and
`ReferencesConverge`: liveness under fairness is out of the prover's reach. The
properties of the five runs that expect a violation do not hold.

## Not modelled

* The Helm chart and the test helpers: no behaviour of the operator.
* Metrics, probes, leader election (off by default, one replica) and the exits of
  `main`: a process that does not come up does nothing.
* Logging, `lastAssignedRoles`, and the text of YAML documents, the bot's included.
* Times: the five minutes, the twenty of the identity and the 720 hours of a token
  are events that may happen at any time.

## Plan

All modules, runs and theorems that were planned are there. What would say more:
`ReferencesAreKept` with re-creation, stated for Clusters whose copies are not of a
predecessor; `DeletedStaysDeleted` for Apps whose cache is up to date; a restart with
another `managementClusterName` or `appName`, with what it leaves under the old names;
and the step from `ClusterReconciler`'s lists as sets to the sequences of
`AppConfigManager`.

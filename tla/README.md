# A verification project for yaho

yaho is a pair of Kubernetes operators for helm. The *manager* process
(`yaho operator run`) mirrors helm repositories and charts into configmaps; the
*agent* process (`yaho agent run`) installs, upgrades and removes helm releases
from those configmaps and from values kept in custom resources. This directory
holds TLA+ models of both, the TLC runs that check them, and proofs checked by
TLAPS. Everything is modelled from the Go code; docs and tests are used only for
what the authors expect of it.

## 1. The system

| component | code | state it keeps | operations |
|---|---|---|---|
| Release controller | `controllers/agent/release_controller.go` | finalizer, reconcile label, condition `synced` and revision of a Release | `Reconcile`, `handleFinalizer`, `syncStatus`, event filter |
| internal/release | `internal/release` | helm's release records | `New`, `Update`, `upgrade`, `RemoveRelease`, `valuesChanged` |
| Values controller | `controllers/agent/values_controller.go` | condition and label of other objects (Releases) | `Reconcile`: mark and poke every release that uses the values |
| Values collection | `internal/values/collect.go` | annotation `releases` of a Values object | `getRefList`, `collectValues`, `updateValuesAnnotations` |
| Values merge | `internal/values/values.go`, `internal/utils/config.go` | none (goroutines and channels) | `ManageValues`, `manageStruct`, `MergeMaps`, `MergeUntypedMaps` |
| ReleaseGroup controller | `controllers/agent/releasegroup_controller.go` | finalizer of the group, Release objects | `Reconcile` with two goroutines, `deployRelease`, `removeRelease` |
| Repository controller | `controllers/manager/repo_controller.go`, `internal/repository` | finalizer, condition and chart count; index configmaps; Chart objects | `Reconcile`, `createIndexConfigmaps`, pruning, `deployChart`, `syncStatus` |
| Chart controller | `controllers/manager/chart_controller.go`, `internal/chart`, `internal/chartversion` | labels and condition of a Chart; configmaps of its versions; Charts it depends on | `Reconcile`, `New`, `Prepare`, `ManageSubResources`, `createOrUpdateSubChart`, `syncStatus` |
| RepoGroup controller | `controllers/manager/repogroup_controller.go` | Repository objects | `Reconcile` with two goroutines, `deployRepo`, `removeRepo` |
| Config, REST client | `internal/utils/restclient.go`, `internal/release/options.go` | none | flags and service account of helm calls |
| Processes | `internal/cmd` | none | which controllers run, with how many workers |

How they interact. There is no shared memory between controllers: they meet in
objects of the apiserver. A write of an object is an event that puts its key in
the work queue of the controller watching it; a key is with one worker at most,
and an event that arrives meanwhile queues it again. All clients are uncached,
so a read sees the last write, but a worker keeps the object it has read for the
whole reconciliation: an `Update` from an old copy is refused by the apiserver, a
merge `Patch` is not. The values controller talks to the release controller by
two writes to the Release (status, then label); group and repository controllers
create and delete the objects of the release and chart controllers; the manager
hands charts to the agent through configmaps.

What is hard here: workers acting on copies that have become old; two writes of
which one fails; errors that are only logged; return paths that come back only
if their own write makes an event; processes that die between two calls;
goroutines that count messages; configmaps that can never be corrected because
they are immutable. `PROJECT.json` lists each of these hazards at its line with
the properties aimed at it. What makes the components correct:

- Release: a helm release never outlives its object; nothing is forgotten;
  status tells the truth; changed values, version or deletion take effect.
- Values: an edit reaches every release that uses the object.
- ReleaseGroup: the releases of a group are the listed ones; no goroutine leaks.
- Repository and Chart: indexes and configmaps follow the helm repository and
  are complete; charts not listed go; nothing waits for ever.
- Values merge: every value a release refers to is found where its references
  put it, whatever the schedule; references without a cycle are resolved.
- RepoGroup: its Repositories are the listed ones, with the listed spec; a deleted
  group leaves nothing.
- Hand-over: a release made when its charts are ready is installed whole.

## 2. Modules

| module | models |
|---|---|
| `AgentState` | Release and Values objects, helm's records, queues, workers; users, restart |
| `ReleaseReconciler`, `ValuesReconciler` | the actions of the two controllers |
| `Agent` | their composition, fairness and properties |
| `ReleaseLifecycle` | abstract: what the release controller promises about one release |
| `ValuesMaps` | maps of values as trees of paths, `MergeMaps` and `MergeUntypedMaps` place by place |
| `NestedMaps` | the same two as the recursions on nested maps that the code has, to compare with |
| `ValuesResolution` | `ManageValues`, `parse` and `manageStruct` with their goroutines, channels and timers (the mutex `parse` locks is a new one for each goroutine and excludes nobody); what is collected is a parameter |
| `ValuesReferences` | collecting references between Values objects, which gives this parameter its value; what becomes of values along the paths of keys |
| `ReleaseGroupReconciler` | the release group controller with its two goroutines |
| `ManagerState` | Repository, Charts, configmaps, the helm repository, collector; users, restart |
| `RepoReconciler`, `ChartReconciler` | the actions of the manager's controllers |
| `Manager` | their composition, fairness and properties |
| `RepoGroupReconciler` | the repository group controller, with the repository controller and the collector reduced to what they do to a Repository |
| `Delivery` | `Manager` composed with an agent that loads a chart and its dependencies from the configmaps, call by call, and installs them |
| `MCAgent`, `MCValuesResolution`, `MCReleaseGroup`, `MCManager`, `MCRepoGroup`, `MCDelivery` | constants for TLC |
| `AgentProofs`, `SettledProofs`, `StalenessProofs` | theorems about `Agent`, each module building on the one before |
| `GroupProofs`, `RepoGroupProofs` | theorems about `ReleaseGroupReconciler` and `RepoGroupReconciler` |
| `ValuesProofs` | theorems about `ValuesResolution` |
| `ManagerProofs`, `DeliveryProofs` | theorems about `Manager` and, building on them, about `Delivery` |

One action is one call to the apiserver, to helm or to a repository together
with the Go code up to the next call; an action's name says which. A worker is a
record with a program counter, the object it read and whether that is still the
current one (`fresh`): this stands for the comparison of resourceVersions. A call
that can fail has a disjunct guarded by `Fault(kind)`, bounded by `MaxFaults`;
`Faults` says which kinds a run explores. Helm operations are two steps, so that
a restart or another worker can come between. Writes by users are bounded by
`MaxEdits`. The map in `PROJECT.json` gives the lines behind every definition.

Abstractions. *Agent*: the content of a Values object is a number, and a release
carries the number it was deployed with for each reference, so no two
references overlap (`ValuesResolution` is about those that do); chart and index
are loaded by one call (`Delivery` takes it apart); Release and helm release have
the same name; Values objects exist from the start (a missing one is a failing
read); users never drop the last reference, because helm then keeps the old
configuration. *Values*: the objects are read once and do not change during a
round; in the run the map of an object has two levels; the first entry that
`Filter` returns for an object and the order of a map's keys are any; a goroutine
reads its path of keys in one step; the Go stack is a bound (`MaxStack`), and the
depth guard is 1 instead of 10. *Groups*: the release controller is reduced
to adopting a Release and letting it go, the repository controller to adopting a
Repository, writing its status and letting it go. *Manager*: one Repository; a
configmap is `full`, `hollow` (less than the archive has) or missing; versions
are exact, not ranges; an `Update` with a version just read is one step with its
read. The manager's model reads stored configmaps when a version is prepared, the
code a moment earlier (`chartversion.New`); the steps in between are reads of its
own. *Delivery*: one release, without values of its own; a round that fails is
begun again from the start; a release once installed is not loaded again, since
`Update` compares values only; dependencies have none of their own.

## 3. Runs

| run | bounds | question |
|---|---|---|
| `agent_core` | 1 release, 2 values, 2 workers, 2 edits, 1 failing chart lookup, helm call or call on a Values object, 1 restart | types, ownership, truthful revision, nothing forgotten, values get through, refinement of `ReleaseLifecycle`; deletions complete, releases settle |
| `agent_faults` | 2 releases on 1 values object, 4 edits, 1 failing lookup, write or read | what can be lost with failing writes; truthful revision; helm only on behalf of the object |
| `values_core` | all small graphs of references between 3 Values objects (chains, forks, diamonds, cycles, missing targets), and with a fourth object or key a chain beyond the depth, objects with three and four references, a datum where another object has a map, and a name without an object; depth 1; 1 early timer | what the values of a release are made of, what is lost or misplaced and when, crashes, goroutines left behind, references resolve |
| `group_core` | 2 groups, 2 releases, 3 edits, 1 failure, 1 restart | nothing unlisted stays, a listed release is missing in known ways only, no goroutine is left, deletion completes |
| `manager_core` | 2 charts (one needs the other), 1 version, 2 configmaps per version, 2 edits, 1 failing download, configmap or Chart call or a restart | types, the repository is never forgotten, configmaps are complete unless interrupted |
| `manager_liveness` | the same without failures | charts are served, indexes follow, unlisted charts go |
| `repogroup_core` | 2 groups, 1 repository, 2 specs, 4 edits, 1 failure, 1 restart | nothing unlisted stays, the listed spec is missing in known ways only, deleted groups leave nothing |
| `delivery_core` | 1 release of a chart that needs another, both made by users or as dependencies, 3 edits | when a release is installed with less than its charts contain |
| `agent_lost_update` | no failure, 3 edits | violated: `ValuesApplied` |
| `agent_failed_install` | one failing helm call | violated: `SyncedIsDeployed` |
| `agent_version` | no failure, 2 edits | violated: `SyncedHasVersion` |
| `manager_stuck` | no failure, 1 edit | violated: `VersionsServed` |

Why the bounds are enough for what is asked: an anomaly between two controllers
needs one writer, one worker with an old copy, and one event in between; two
edits or an edit and a failure suffice, and most runs allow one more. Two releases
on one Values object are needed for the annotation race and the loop over it;
two groups for a name claimed twice; two charts for the index loop (which stops
after one) and for dependencies; empty and full helm repositories both occur
initially, so that publishing a version is a step too. Releases that already
carry a group's label are initial states of the group's runs (labelled by hand,
or left by a failed Delete): three edits then reach a worker that finalizes a
group from an old copy of its list. A RepoGroup that is created, deleted and
created again while another one lists the same repository takes four edits.
Three Values objects are enough for a chain of two references, a diamond and a
cycle that leaves the first object out; three references in one object are what
it takes to block a goroutine, and four to overwrite a path of keys in an object
that nobody refers to. A chain of four objects is longer than what depth 1
collects. Dropping any one of the exceptions in `LostOnlyIfForked`,
`MisplacedOnlyIfForked` and `OwnValuesKept` makes the run fail, so each of them
occurs. An object under two keys of one other object, whose path grows by two keys
at once, occurs too; that such a path overwrites an earlier one in place takes a
chain longer than the run has (`Fits` and `Written` model it all the same). In `delivery_core` three edits are the Repository
and two Charts, or the Repository, the application's Chart and the removal of
either. A Repository that lists both charts (two edits) was checked to satisfy
the same properties, but takes too long for a run beside the others.

What the four violations say of the code:

- **Lost values edit.** The values controller skips a release that is not
  synced at that moment, also one that is being reconciled with values read
  before the edit. Nothing brings the edit back. `StaleOnlyIfMissed` says what
  does hold: nothing is lost but by that skip or by an overwritten annotation.
- **Failed install reported as success.** The retry finds helm's failed revision
  with equal values and reports `all up to date`.
- **Chart version ignored.** Only values are compared with the deployed revision.
- **Dependency deadlock.** A chart whose dependency exists at another version
  fails before the step that would ask the dependency for the right one.

What passing properties say between the lines. Each names ways in which what the
docs promise does not hold. That there are no others is shown within the bounds of
the run, and for every value of the constants where section 4 has a theorem:

- `MissingOnlyIfPassed`: a release put on a group's list while an object of its
  name is terminating counts as present and is not created afterwards.
- `HollowOnlyIfInterrupted`: a version whose configmaps were written in part (a
  restart, a failed create, a chart deleted and created again while the
  collector works) is completed from that part, for good, since configmaps are
  immutable.
- `CyclesCrash`: collecting stops at a depth, merging does not; a cycle of
  references within that depth ends the process.
- `LostOnlyIfForked`: what is below a reference is found where the keys put it,
  but for five ways of losing it. An object with several references contributes
  the one whose goroutine is first, and so does one that is reached, and collected,
  several times; a path of two different keys is not found
  again by `MergeUntypedMaps`; an object beyond the depth that is collected is not
  there at all; a datum in one object and a map in another replace each other; and
  an object can be missing, which is left to `OwnValuesKept`.
- `MisplacedOnlyIfForked`: values turn up where no reference puts them when paths
  of keys share an array: below an object that is itself referred to and has
  several references, or in any object with four, whose last iteration overwrites
  the path of the third.
- `LeakOnlyIfThree`: a goroutine stays blocked in an object with three references.
- `ArrivalDecides`: of two objects with the same key the schedule decides which
  one is installed.
- `OwnValuesKept`: what a release can rely on is its objects' own values at the
  top: at the place of each there is this value or another object's datum for the
  same place. Not so where one object has a map and another a datum, and for
  objects that a release names but which are left out, since a reference of
  theirs, or of one named before, leads nowhere and ends collecting.
- `SpecUnlessMissed`: the update of a Repository that loses to a status written
  just before is not repeated; a Repository of an earlier group of the same name
  is taken for present and then collected.
- `ReadyMeansWhole`: a release is installed with whatever part of its charts is
  stored, and stays so. A dependency that cannot be loaded is left out without an
  error. The success of the application's Chart is not enough, because the Chart
  of the library may be created between its two looks at dependencies; only when
  both have succeeded is the release whole.

Every property of a passing run has a mutant: a plausible bug in a mapped
definition (kept beside it, marked *Mutant*) under which TLC finds it violated.

Fairness. Workers are goroutines that never stop taking keys, and controller
timers fire: weak fairness of each worker's steps. Work queues are first in,
first out, so each chart is taken time and again (`SF` of `StartChart`). Go
starts every iteration over a map at a random entry, so each index is the first
one written infinitely often (`SF` of `WriteIndex`); without this `IndexFollows`
does not hold, since a round ends at its first update. The garbage collector is
weakly fair. In `ValuesResolution` something happens as long as any goroutine can
go on, or the timer of `ManageValues` has to fire because nobody is left to send:
one `WF` of any step that is not an early timer, which is a fault. `RepoGroupReconciler` asks for its worker (one `WF`, its two goroutines only
hand over what is listed) and the collector. Nothing is asked of users, of
failures, or (in the models of groups) of the controller of the grouped objects.
`Delivery` has safety properties only, under `DeliverySpec`.

## 4. Proofs

TLAPS checks the theorems below for every value of the constants that satisfies
the `ASSUME`s of the module (bounds are natural numbers, failure kinds are known
ones; `Chart` is finite, since a Repository's status counts charts; the
chart of `Delivery` depends on charts without dependencies). Those of
`ValuesResolution` say that a map `spec.refs` is finite, that what is collected
are the references of the objects found within `MaxDepth` steps
(`CollectedIsNear`), that collecting goes on up to the first object from which a
reference leads nowhere (`UsableUnlessBroken`), that the map of an object is a tree
(`ContentIsTree`), and that the stack has room for at least as many calls as there
are objects (`StackHasRoom`; Go's is 1 GB); TLC evaluates them with the collecting
of `ValuesReferences`. TLC finds the inductive invariants true on the
bounds of the component's runs, but for what exists by a quantifier in those of
the values (the set of maps, the order in which objects returned): that is only
proved.

| theorem | states | further assumption |
|---|---|---|
| `TypeCorrect`, `GroupTypeCorrect`, `RepoGroupTypeCorrect`, `ManagerTypeCorrect`, `DeliveryTypeCorrect`, `ValuesTypeCorrect` | the type invariants, which include what a worker has in hand in each phase | none |
| `OwnedAlways`, `LifecycleImplemented` | `Owned`; every step of the agent is one of `ReleaseLifecycle` or a stutter | lookups of helm releases do not fail |
| `HelmOnlyOnBehalfAlways` | `HelmOnlyOnBehalf` | none |
| `ReportedRevisionAlways`, `ForgottenOnlyIfMarkedAlways` | `ReportedRevision`, `ForgottenOnlyIfMarked` | none |
| `NeverForgottenAlways` | `NeverForgotten` | writes of status and label do not fail |
| `StaleOnlyIfMissedAlways` | `StaleOnlyIfMissed` | none |
| `NoStrayAlways`, `MissingOnlyIfPassedAlways`, `NoGoroutineLeftAlways`, `GroupTakesListedAlways` | `NoStray`, `MissingOnlyIfPassed`, `NoGoroutineLeft`, `GroupTakesListed` | none |
| `NoStrayRepoAlways`, `SpecUnlessMissedAlways` | `NoStrayRepo`, `SpecUnlessMissed` | none |
| `RepoNotForgottenAlways` | `RepoNotForgotten` | writes of a worker's own object do not fail |
| `HollowOnlyIfInterruptedAlways` | `HollowOnlyIfInterrupted` | none |
| `ManagerMirrored` | the hand-over refines the manager: `DeliverySpec => Spec` | none |
| `TemplatesComeWithFilesAlways`, `ReadyMeansWholeAlways` | `TemplatesComeWithFiles`, `ReadyMeansWhole` | none |
| `LeakOnlyIfThreeAlways` | `LeakOnlyIfThree` | none |
| `CyclesCrashAlways` | `CyclesCrash` | none |
| `OwnValuesKeptAlways` | `OwnValuesKept` | none |

The assumptions about calls restrict the kinds of failing calls a behaviour may have,
and each is needed: `RemoveRelease` treats any failing lookup as "already gone",
so that an install outlives its object; a release marked `valueschange` whose
label then cannot be written is not brought back by anything; and a Repository
whose finalizer or status cannot be written may return without an error. The
theorems without one hold whatever fails; where the property speaks of rounds
without a failure it says so itself (`faults = 0`, `Interrupted`).

**The agent.** `AgentProofs` has a lemma for each control-flow operator, then one
for each group of actions. `Owned` is not inductive, because an install begins
long after the object was read. `OwnershipInv` adds what the worker knows: an
old copy shows a finalizer only if the object still has it (`Holds`), and only a
worker past the right checks is at a given call (`AtCall`): at helm with the
finalizer seen, at the drop of the finalizer with nothing installed. A key has
one worker and nobody else drops the finalizer, so the invariant is kept. Only
its parts about installed releases need reliable lookups; the rest gives
`HelmOnlyOnBehalf` without. In the refinement, steps map to `Adopt`,
`NextRevision`, `AskDeletion`, `Uninstall`, `LetGo`, or to stuttering.

`SettleInv` of `SettledProofs` follows a release until it comes to rest. What a
worker knows of helm's record when it reports a success is still so when it is
done, as nobody else calls helm for that key (`Knows`). The object it holds is
the one in the apiserver, unless the release is queued again; the exception is
the mark of the values worker, which the event filter holds back, and then that
worker is about to set the label (`Tracks`). A release at rest is therefore
reported truthfully, and settled or marked (`AtRest`).

`StaleInv` of `StalenessProofs` follows a reference from the moment a worker
has loaded it: from then on the annotation names the release, so an edit the
release has not seen is queued, or in the hands of a values worker that still
has to visit it (`Coming`), and that visit queues the release, queues the edit
again, or passes over the release and records it. An attempt to prove the
property as first stated failed for a good reason: with three releases on one
Values object, the second may overwrite the name of the first in the annotation
and the third, which read the annotation before, restore it; an edit in between
is lost although the name is there in the end. TLC finds that behaviour too (3
releases, 3 workers, 4 edits). The history variable `skipped`
now also records a name when it is overwritten (`Overwritten`), and the theorem
is about that.

**The groups.** Both properties of `GroupProofs` and `RepoGroupProofs` speak of
groups that have been served; in the middle of a round neither holds. `RoundInv`
says what does: the copy a worker has is the group, unless the group is queued
again (`CopyInv`), and whatever is not as the group lists it is still in the
hands of the worker, to be listed, sent, deleted or written (`StrayInv`,
`ListedInv`, `SpecInv`, `FinalizeInv`). When the worker is idle and the group is
not queued, the properties are what is left of it. Users keep it because each
of their writes queues the group, and the others because what they take away is
recorded (`passed`, `missed`). `FeedInv` says that each goroutine which still has
something to send is there, which is `NoGoroutineLeft`.

**The manager.** `ManagerInv` adds to the types that the copy of a chart, as far
as the collector is concerned, is the chart as long as it is fresh (`CopyInv`),
and that a worker which deploys has loaded every part (`ChartBusy`). The
Repository is not forgotten because a worker whose copy is stale has its key
queued (`RemembersInv`), and a fresh copy makes the write that brings the key
back succeed. `WholeInv` says when configmaps are complete: those of a chart that
was not deleted are not waiting for the collector (`Unclaimed`), and unless the
chart was interrupted the configmaps of a version are all there or all missing,
but for the one version in work, whose missing parts the worker has (`WholeChart`);
so a round that finds one of them loads the whole chart.

**The hand-over.** `DeliveryProofs` uses the manager's invariants through
`ManagerMirrored`: a step of the loader stutters for the manager, so that all that
is proved of the manager holds of the composition. For
`TemplatesComeWithFiles`, files once read have their templates read too or still
in the cluster (`PairedInv`). For `ReadyMeansWhole` the chain is: the index of a
chart only grows while the Repository stays (`IndexInv`); labels stay (`LabelInv`);
a round on its way to a success has found all versions in the index and has
filled the configmaps of those it has done (`RoundInv`); so a version a success
stands for is labelled, in the index and full, and stays so (`SureInv`); so a
loader that began after all charts were ready finds everything in each phase it
goes through (`LoaderInv`). While proving this, what the loader has read was
keyed by chart version (by chart alone, two versions of one chart were mixed up),
and `TemplatesComeWithFiles` was found to hold whatever fails or restarts; it now
excepts deleted charts only.

**Values.** The theorems of `ValuesProofs` hold for any collecting that satisfies
the assumptions, since it is a parameter of `ValuesResolution`: so its recursive
operators stay out of the proofs. The recursions of the two merges stay out because
`ValuesMaps` says of each place of the result where its value comes from. The
invariant is stated of a set that contains the maps that are around; for the first
two theorems there is some such set (`Consistent`), and each step goes from one to
another that has the merges as well (`Yields`). `ResolutionInv` follows a frame of `manageStruct`: it
has a goroutine for each reference its loop has come to, and a map in its channel
only if one of them has sent it (`FrameOK`); frames below the top are in the
middle of their loop (`StackOK`). A frame that returns with a map therefore has a
goroutine that has sent, and of the rest all but one block, which is
`LeakOnlyIfThree`. Each map sent is received or in the channel (`CountInv`), so
that the last one is received when every goroutine has sent. `Carried` follows
the values of an object from its goroutine, whose bottom frame is that object,
through its own map, the channel and the result.

For `CyclesCrashAlways`, `CycleInv` says in which order objects returned: a frame
returns only when its loop has passed every reference (`Passed`), and the frame
above it is the reference at hand (`Shape`). So what an object refers to returned
before it did, and ranks given in the order of the returns fall along every
reference (`Ranked`). When all goroutines have returned, every object near the
names has (`NearReturned`, from the first object of a path that has not), and a
cycle would have a rank below itself (`NoCycle`). A full stack is a path longer
than there are objects; by the pigeonhole principle one object is on it twice,
and the part between is a cycle within the depth (`FullStack`).

`OwnValuesKeptAlways` needs to know the maps. `Made` is the set of the trees whose
value at each place is one that some object has for this place, at the top or
below reference keys (`Held`). An object's own map is one of them, so is what
`transformToMap` puts under a path of keys, the dropped keys included (`PutMade`),
and so is a merge of two (`MergeMade`): if the merge has a place it has all above,
since where the maps differ on the way the same side is taken on the whole way. At
a place that is `Clear` every object that has something has a datum, and maps all
the way down; there the two maps do not differ before the last key, so the merge
has the place if one of them has (`MergeKeeps`). With `Carried` this gives the
property. Without the restriction to clear places it is false, as TLC shows: of a
datum and a map `MergeMaps` keeps one, and the values below the other are gone.
What is not proved is that the place by place definitions are the recursions of
the code, which is induction over maps: TLC compares them on all pairs of a set of
maps up to four levels deep and all paths of up to five keys (`MergesAreTheSame`,
`PutsAreTheSame` in `MCValuesResolution`).

**Only model-checked.** All liveness (`ENABLED` and fairness are outside this
prover's reach), the four violations, and of the values `LostOnlyIfForked`,
`MisplacedOnlyIfForked` and `ArrivalDecides`: the first two speak of the paths of
keys along a graph of references, a recursive operator, and what it computes for
every input is induction over data; the third repeats what `MergeMaps` does to the
first two levels that the run has.

## 5. Not modelled

Config objects and the REST client (read only, rebuilt on every round), command
line, probes and leader election, credentials (a missing auth secret makes
`repository.New` return nil, which `Update` dereferences: the manager crashes at
once, nothing to explore) and the text of configmaps (default values that are not
JSON panic, `configmaps.go:58`), semver ranges, bundled archives and the index
update they cause, dependency conditions, several repositories or namespaces,
reflection in `Filter`, deep copies and other generated code.

## 6. Plan

*Done*: the agent (`Agent`, `ReleaseLifecycle`), groups, the manager, values
(`ValuesResolution`), the repository group, the hand-over (`Delivery`), and proofs
of the safety properties the runs check of them, as far as they are in the
prover's reach. Left, in order of what matters to users of the operators:

1. Abstract specifications: what a group promises (listed = existing) for the
   two group controllers; an index and a version store for `Manager`.
2. A Repository and a parent chart that ask one dependency for different
   versions, and versions that are ranges.
3. Releases whose helm release has another name, or is shared.

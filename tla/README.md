# Sextant: a TLA+ verification project

Sextant is a fleet-management console: a git repository holds the configuration
of every device, people change it through gated writes and change requests, and
a rollout engine carries a new revision to the devices wave by wave. Around these
two sit the services that make a fleet work: enrolment and imaging, the gate and
build runner, check-ins and remote actions, credentials, elevation, compliance,
access and personal data. This directory holds TLA+ models of the parts that keep
state, TLC configurations that check them on small instances, and proofs that
TLAPS checks for every instance.

## The system's parts

| Part | State | Operations | Talks to |
|---|---|---|---|
| Rollout decision engine (`internal/domain/rollout`) | none (pure); the run record `State` | `Decide` and the ring gates | called by the rollout service |
| Rollout service (`internal/app/rollout.go`, `autorollout.go`) | run record in a file of the state directory; a mutex; a memory of the last risk hold | `StartWith`, `Tick`, `FollowHead`, `maybeAutoStart`, `Cancel`, `Approve`, `Pause`, `Resume` | config service (pins), git refs (ring branches), convergence source, gate runner (release builds) |
| Config service (`internal/app/config.go`) | main's working tree, in-memory snapshot, write lock | `Apply`, `SyncLoop`, `WithWriteLock` | git adapter, gate |
| Change flow (`internal/app/change.go`, `internal/domain/change`) | change records, `cr/<id>` branches, worktrees | open, edit, submit, merge, abandon, `Reconcile` | config service's lock, gate, git, delivery hook |
| Fleet document (`internal/domain/fleet`) | groups, devices, lifecycle, wave plan, pins | mutations applied by `Apply` | read by everyone |
| Device generator (`nix/generator.nix`) | none | `ringBranchFor`: which branch a device follows | devices |
| Observed plane (`internal/app/inventory.go`, `internal/adapters/postgres`) | last report per device | check-in; the convergence query | rollout service |
| Leader election and workers (`adapters/postgres/leader.go`, `cmd/sextant/capabilities.go`) | a session advisory lock; which workers run where | `LeaderLoop`, `leadOnce`, ping, stand-down | starts the rollout ticker and the watcher |
| Upstream watcher (`app/upstream.go`) | the revision last seen; `core-<rev>` changes | `CheckOnce` | opens and submits changes |
| Gate runner (`cmd/gate-runner`, `adapters/gate`, `adapters/nix`) | one clone, one scratch worktree, an evaluation lock | `/validate` | asked by every gated write and submit |
| Release builds (`cmd/gate-runner/build.go`, `adapters/nix/release.go`) | a job table in memory; the binary cache | start, poll, cancel | asked by the rollout before it promotes |
| Binary-cache authorisation (`cmd/gate-runner/main.go`, `api/device_auth.go`) | remembered verdicts | a fetch | asks the console about a credential |
| Enrolment (`http/web/enroll.go`, `app/enrolment_rings.go`) | none of its own | enrol a batch, move covering rings, dispatch | document, ring branches, image jobs |
| Image jobs and stations (`domain/imaging`, `app/imaging.go`, `api/station.go`) | a job per device, sealed keys | dispatch, claim, report, escrow, advance | stations, device check-ins |
| Remote actions and agent (`api/checkin.go`, `agent/src`, `deploy/nixos/actd.nix`) | the armed intent; files and memory on the device | arm, beat, execute, acknowledge | document, console |
| Device credentials (`app/device_cred.go`, `app/retention.go`) | tokens `device-<tag>`, check-in rows | issue, revoke, two sweeps | follows the document |
| Elevation (`domain/elevation`, `app/elevation.go`) | a row per request | raise, poll, decide, retention | devices and operators |
| Identity, sessions, tokens (`adapters/oidc`, `adapters/ldap`, `app/token.go`, `app/directory_cache.go`) | cookies, the token table, a directory cache | login, mint, revoke, `Authenticate`, warm | document (roles), directory |
| Fleet mutations and resolver (`domain/fleet`, `nix/resolve.nix`, `http/web`, `http/api`) | the document; a memo of verdicts | every mutation, `Resolve`, sampling, the gate's radius | config service |
| Compliance and notifications (`app/compliance.go`, `domain/incident`, `app/inventory.go`) | status rows, event log, revision caches | check-in, incidents, the page | document, clone |
| Personal data (`app/erasure.go`, `app/retention.go`, `adapters/postgres`) | a person's rows in nine tables, device assignments | preview, erase, sweep | document, stores |
| Catalogue and rendering, discovery and evidence, mail and sealing, platform, `sxctl`, simulator | see `PROJECT.json` | not modelled | |

What makes it hard: one tick is a sequence of gated commits, forced pushes and a
store write, any of which may fail or be the last thing the process does; the
engine's own commits move the `main` that auto-flow watches; operators press
buttons while a tick runs; devices disappear, break and are enrolled mid-run;
several services write one git working tree under a lock that they drop at
different moments. Beyond git, almost nothing is a transaction: handlers read,
decide and write in separate statements; a document commit is followed by a second
write elsewhere that may fail; the runner's jobs die with its process; agent and
console talk over replies that get lost; leadership can be gone before its holder
knows; caches outlive what they cache. `PROJECT.json` lists these hazards at the lines where they
bite, with the properties that cover them.

## Modules

| Module | What it is |
|---|---|
| `RolloutEngine` | The ring gates, the run record and `Decide` as operators, in the source's order and with its names. |
| `Rollout` | The rollout service over the fleet document, the ring branches and the devices. |
| `MCRollout` | Small fleets and plans for TLC. |
| `RolloutProofs` | TLAPS proofs about `Rollout`: types, and the gates between waves. |
| `RolloutBranchProofs` | TLAPS proofs about `Rollout`: the branches, the pins, the cohorts and auto-flow's two brakes. |
| `Ledger` | Abstract specification: what the configuration plane promises about main on the remote. |
| `ConfigPlane` | The write transaction, the sync loop and outside commits over a clone and a remote. |
| `ChangeFlow` | Change requests on top of `ConfigPlane`: they share main, the write lock and the gate. |
| `MCChange` | Items, bad combinations and authors for TLC. |
| `ChangeProofs` | TLAPS proofs about `ChangeFlow`, the refinement of `Ledger` among them. |
| `GateRunner` | The remote gate: client, admission, shared clone and worktree, batched evaluation. |
| `ReleaseBuild` | Build before promote: job table, slot, worktree, chunks of build and copy, cancel, restart. |
| `CacheAuth` | Who may fetch from the binary cache, and for how long after a revocation. |
| `RunnerProofs` | TLAPS proofs about the three above. |
| `Workers` | Leader election, the workers it gates, and the upstream watcher step by step. |
| `EnrolmentRings` | Batch enrolment and the ring moves it makes beside edits and a promoting rollout. |
| `ImageJobs` | One image job: station, device and operator over one row. |
| `RemoteActions` | Intents, the agent's beat, the root executor, and what they hand over. |
| `DeviceProofs` | TLAPS proofs about `ImageJobs`, `RemoteActions`, `Workers` and `EnrolmentRings`. |
| `FleetDoc` | The document, its mutations, both resolvers, shapes and build inputs, as operators. |
| `FleetWrites` | The handlers that write the document, the gate's sample and the verdict memo. |
| `DocProofs` | TLAPS proofs about `FleetDoc` and `FleetWrites`: the document stays sound under every write. |
| `Credentials` | Credentials and check-in rows behind the document, and the sweeps. |
| `Elevation` | Requests, polls, and decisions that are a read and a later write. |
| `CredentialProofs` | TLAPS proofs about `Credentials`, `Elevation` and `Access`. |
| `Access` | Login, session, tokens, the directory cache, roles at the time of the call. |
| `Compliance` | Check-ins, the events they raise, and the page assembled from several reads. |
| `PersonalData` | Preview, erasure, report and retention of one person's data. |
| `RecordProofs` | TLAPS proofs about `Compliance` and `PersonalData`. |
| `MCServices` | All of these but the proofs, composed, with the instance for TLC. |

`Rollout` EXTENDS `RolloutEngine`; `ChangeFlow` EXTENDS `ConfigPlane`, which
INSTANCEs `Ledger` with `published <- remote`. The two halves meet in reality at
main: to `Rollout` the configuration plane is the one step that appends a
commit; to `ChangeFlow` the rollout's pins are structural writes. `FleetWrites`,
`Access` and `Compliance` EXTEND `FleetDoc`: they resolve, judge and prune by the
same document operators.

### How `Rollout` corresponds to the code

*State.* `log` is main's history; a revision is a position in it and `head` its
length. A commit's kind keeps what auto-flow reads off a commit: made by a
person (`edit`), by a person with the high-risk marker (`risky`), or by the
console itself (`machine`). `plan`, `groupPin`, `devPin` and `life` are
`fleet.json` at head. `localRef` and `remoteRef` are the `rings/<group>`
branches in the console's clone and on the remote. `obs` is what each device
last reported: a revision, and whether the report is healthy, broken, past the
online window (`quiet`) or past the absent window. `run` is the stored record.
`tick` is the stack of a `Tick` call between two side effects; its `pc` is also
the service mutex. `delivery` and `auto` are a merge's hook and an auto-start
that have been decided and not yet reached `StartWith`. `enrol` is a station
enrolment at work. `base`, `proven`, `emptied` and `placed` are history variables
that properties refer to; no guard reads them.

*Atomicity.* Every commit (`PinGroup`, `ReleaseDevice`), every branch move
(`MoveRef`) and the store write (`PutTick`) of a tick is a step, in the order of
the code. A tick whose only side effect is the store write is one step. All of
`StartWith`, `Cancel`, `Approve`, `Pause`, `Resume` and `FollowHead` take the
mutex, so they wait for `Unlocked`; they read and write the record once and are
one step each. `FollowHead` pushes several branches under the mutex; only its
failure in the middle is told apart. `maybeAutoStart` reads without the lock, so
its check (`AutoCheck`) and its start (`AutoStart`) are two steps.

*The second writer.* `EnsureRingsContain` moves ring branches too, and takes neither the
mutex nor the pin with it. `Enrol` is the commit of `postEnrollBatch`,
`EnsureRingsContain` the head and the document it then reads, `AdvanceRing` one group's
set and push, `RefuseRing` the guard over the ring's members (its comparison is in
`EnrolmentRings`; here it may refuse or not), `DispatchImage` the image job. They
interleave with every step of a tick and with every state of a run. Set and push are one
step: `SetRef` writes the local branch and `PushRef` sends whatever the local branch is
then, so however the two pairs mix, the remote branch ends where one of the pairs, run
last, would have put it. `placed` remembers where an enrolment put a remote branch since
the service last moved it; it is what the branch properties exempt, and nothing more.
One enrolment is at work at a time; two of them are the subject of `EnrolmentRings`.

*Devices.* `Offered` is what the device's branch holds. `Adopted` is what the device
makes of it: comin deploys only descendants of what runs, so a branch that moves back
changes nothing on a device that is past it (`enrolment_rings.go:19`, `imaging.go:144`).

*One process.* `RolloutService` has a mutex, a clone and a record of its own in each
process: the record is a file of the state directory (`adapters/state/state.go:191`).
A button pressed on another replica neither waits for this replica's tick nor reads or
writes its record. The model is of one replica, which is what the chart deploys
(`values.yaml:16`); what several replicas do is under *Disagreements*.

*Failure.* `TickFails` ends a tick at any of its writes with an error; a push
that fails has already set the local branch. `Crash` loses the process's memory.
A failed release build halts the run (`TickBuildFailed`); a build still under way
holds the promotion and is a stuttering step.

*Abstractions.* Time is counted in abstract units and advances only while a soak
clock runs. Percentages are computed as in the source. The convergence query's
tenant, phases and error texts reduce to `ok` and `broken`. `autoFlowLogDepth`
(200 commits) is beyond the bounds and left out. A device's branch is read from
the document at head, while a device evaluates the document at the revision it
runs. Plans in the MC module use the single-group form of a wave; scoped runs use
the multi-group form. `SetRolloutPlan` refuses a group that occurs twice, so
"some wave of the group" and "the first wave of the group" are the same wave.
An enrolment swept by `ReapAbandonedEnrolments` becomes `removed`; which enrolments
are stale is left open. `Members` of a group are its devices through nested groups, so
the ancestry walk of `EnsureRingsContain` is membership.

### How `ConfigPlane` and `ChangeFlow` correspond to the code

*State.* A tip of main, of a change branch or of a worktree is the set of
*items* (edits, files) that it contains: merging is union, a hard reset replaces
the set, and a push is a fast-forward exactly when the remote's set is contained
in the local one. `Bad` holds the combinations that do not evaluate, so that two
changes may be fine apart and broken together. `remote`, `local` and `snapshot`
are main on the remote, main in the console's clone and the document readers are
served. `tx` is the transaction under way and `tx.pc` is `writeMu`; `mu` is the
mutex of the change service with the merge that holds it. `status` is the stored
record, `branch` what is committed on `cr/<id>`, `tree` what the worktree's files
contain, `job` a submit that is waiting for its gate. `acked`, `proof`, `saved`
and `landed` are history variables.

*Atomicity.* `Apply` is a step per sync, gated commit and push attempt, all under
`writeMu`. `Submit` is three steps: `beginSubmit` and `finishSubmit` under the
mutex, the verdict between them without it. `Merge` is a step for the merge
commit, one for the gate's verdict with the store write of `merged`, one for
clean-up and reload, one for the push; `writeMu` is released before the last.
Opening, editing and abandoning hold the mutex throughout and are one step; the
partial outcomes of an edit (file written, not committed; committed, not stored)
and of an abandon (branch gone, not stored) are alternatives of that step.

*Failure.* `FaultKinds` names what may fail: a commit in a worktree, a store
write, a clean-up, a reset, a push (before or after it landed) and a crash.
`Crash` is the crash and the restart after it: `Reconcile` runs before the
console serves anything.

*Abstractions.* The repository has a remote. The gate is the in-process one, an
exact verdict on the tree it is given, which may also refuse or not answer; the
remote runner's queue is not modelled. A textual merge conflict aborts the merge
and changes nothing, so it is a stuttering step. Titles, comments, reviewers and
diffs are left out. Other replicas and engineers append to the remote and never
force-push; their own checks keep it evaluating. `ApplyStructural` skips the gate
because its callers only write what no configuration depends on; this is the
assumption `StructuralAssumption`.

### How the services correspond to the code

Each of these modules names the source files it models in its header. The
conventions are shared: an action is a handler or the part of one between two
places where another actor can get in (a store call, a commit, a request, a lock);
a store call that may fail is an alternative of its action, counted by a fault
bound; a variable commented *history* or *bound* is read by properties and bounds,
never by a guard that stands for code.

*GateRunner.* `main` and `clone` are the tracked branch at its remote and in the
runner, `scratch` is the commit in the one worktree, `gate` each request as client
and handler see it, `ev` the evaluation under way with its workers. Admission
(`sem`), the wait for `gateMu`, fetch, checkout, the batches and the answer are
steps of `HandlerStep`; a client may give up at any of them. Overlay files are a
candidate's identity; which host fails to evaluate on which base is a constant. A client
that leaves ends the wait for admission only: `mu.Lock` is not context-aware. A git merge
that was cut off is answered like a conflict (`unmerged`).

*ReleaseBuild.* `builds`, `cancels` and `job` are the job table, the stop switches
and the goroutines; `cached` is the binary cache, and `told` what the rollout last
heard. A job is queue, checkout, one build and one copy per chunk, clean-up. The
runner may restart: everything but `cached` and `trees` is gone.

*CacheAuth.* A fetch, the question to the console and the use of its answer are
three steps; revocation, rotation and sweeping are one (`CredentialEnds`), because the console
stops accepting the credential at once in each case.

*Workers.* `lead`, `session` and `advisory` are the loop, the database session and
the lock; a session can die without the replica knowing. `ticker` and `watch` are
the workers; the watcher is joined before the lock is given up, the ticker is not.
The watcher's steps are the ones of `CheckOnce`, each with its failure; `cores` and
`coreBranch` are the change records and branches it leaves behind.

*EnrolmentRings.* `docs` is main revision by revision, `ring` and `localRing` the
branches. A batch of enrolments commits, takes the head, reads the documents of
the rings, sets and pushes each, and dispatches, all without the rollout's lock; a
promotion pins and pushes in two steps beside it.

*ImageJobs.* One job row. `decided` holds, per reporter, the transition it has read
its way to and not written; the write counts only over the status it read. A lost
reply after a write that counted is one of the faults, a credential that an operator
issues by hand another. `machine.sent` is what the install report carries: a recovery
key and a host key are both optional to the endpoint.

*RemoteActions.* `agent` is the agent's memory and the beat under way, `disk` the
state directory, `spool` what waits for the executor, `console` what was stored. A
reboot takes the spool and the memory and keeps the disk. A bundle has a number and may
be incomplete: `gzip` streams into the file the agent reads, so its beginning
(`collectDiagnostics`) and its end (`actdDiagnostics`) are two steps, and the executor
does nothing else in between.

*FleetDoc, FleetWrites.* One setting key stands for all, because resolution is per
key. A mutation maps a document to the set of documents it may produce, none when
the code returns an error. `Resolve` and `nixResolve` are two translations, of
`resolve.go` and of `resolve.nix`, compared in every reachable document. A write
takes its radius (the affected hosts) from the document before or after the last
other write, since handlers compute it before the lock; `memo` is the verdict cache.

*Credentials.* `tails` are second steps of lifecycle handlers that have committed the
document and not yet issued or revoked. Both sweeps read tags first, delete later.

*Elevation.* `deciding` is a row an operator has read, decided and not yet put.

*Access.* Cookies, tokens and the cache carry hours; `left` and `deleted` record when
the identity provider let go of the person or the directory lost a group. A call's
authentication is split at the directory query.

*Compliance.* `published` and `fetched` are how much of main the forge and the
clone have, `beat` the check-ins under way, `board` a page being assembled read by read.
The page's own document, which gives it the list of devices and is read before the
incidents' one, is not kept apart; a device retired between the two is listed as fine.

*PersonalData.* A person's rows per table, old or new for retention; the erasure's
statements and clearing commits are steps. `Searched` are the tables the erasure deletes
from, `PassedOver` the other places that name a person. `IdOf` is what a row names the
person by and `AskedBy` what the statements look for; the identifiers are taken to be
different strings.

## Runs

| Run | Instance | Shows |
|---|---|---|
| `rollout_staged` | gated two-wave ladder, 2 devices, all three origins, 2 starts, 1 fault, 1 human commit | waves spaced by soak, manual gate respected |
| `rollout_capped` | office in cohorts of one, one flaky device, one provisional device that may be scanned again, 1 human commit, no fault | cohort cap, release in tag order, between ticks a branch is on its pin or where an enrolment put it |
| `rollout_settles` | pinned fleet, office then test, an enrolment into the second wave, 1 fault, fairness | a promoted wave is really offered, later waves do not move, a stopped run is still, all but for the enrolment; every run completes, halts, is stopped, waits for a sign-off or was overtaken |
| `rollout_autoflow` | two plain waves in both orders, pinned fleet, 2 human commits (edit or risky), auto-flow only | risk brake; damping |
| `change_flow` | two changes, one direct write, one outside commit, one fault of any kind but a failed commit, fairness | ledger promise; ready means proved; saved edits are merged; submits end |
| `dirty_worktree` | two changes, a structural write, an outside commit, two faults (commits and store writes), four eyes | what is merged stays inside what was proved |
| `services` | every service above on its own small instance, faults and clients that give up included, fairness | 22 properties, below |
| `cap_second_run` | as `rollout_capped`, all devices active, a second run, no fault | **violated**: `CohortCap` |
| `late_device` | capped office, device 2 enrolled late, fairness | **violated**: `RunSettles` |
| `stopped_run_replaced` | delivery after a merge | **violated**: `StoppedRunKept` |
| `lost_merge` | two changes, the sync loop, no fault at all | **violated**: `LandedIsPublished` |
| `lost_edit` | two changes, one failed commit | **violated**: `SavedEditsMerged` |

*Why the bounds are enough.* Two waves are the least for an order of waves, two
starts the least for one run to follow another, one fault the least for a
partial failure plus its retry, two devices the least for a cohort and its widening
with the second one arriving late. An enrolment moves pinned branches only, so
`rollout_settles` starts with a pinned fleet, and the enrolment may come before, in or
after either wave; `rollout_staged` has every kind of start and no enrolment, with which
it outgrows five minutes; in `rollout_capped` it meets the pin of the run itself. `MaxTime`
reaches the sum of the soaks that hold back a wave or a cohort. `Targets`
bounds the revisions an operator may name; two are the least for an older and a
newer one. Expediting shortens a soak in `rollout_staged` (the scoped wave's) and
lengthens one of zero in `rollout_settles`. For changes, two are the least
for one to be merged between another's proof and its merge, and one outside
commit makes a push lose the race once; giving up after the last retry ends the
transaction exactly like any other refusal. Deadlock is not checked: a finished
run with a used-up environment, or changes that are all settled, may stop.

*Fairness.* `FairSpec` assumes that the ticker keeps calling `Tick` and that a
tick under way goes on (weak fairness of `Tick`: `Run` is a loop over a ticker,
and the number of faults is bounded), that time passes, and that every device
keeps checking in healthy. Nothing is assumed about operators.

`ChangeFlow`'s `FairSpec` assumes that a transaction and a merge under way go on
(every git and gate call of theirs has a timeout), that a gate answers or times
out, and, strongly, that a submit with its verdict gets the mutex in the end: a
Go mutex hands itself to a waiter that has starved for a millisecond. No fairness
is assumed of people, of the sync loop or of other writers.

`ServicesSpec` assumes weak fairness of what the code goes on doing by itself: a
request's handler (its git and nix calls run under a timeout), a build's goroutine,
the leader loop and the upstream watcher (loops over a ticker; the number of faults
is bounded). Clients, operators, devices and stations may stop at any time.

### What `services` shows

The services share no variable, so a behaviour of all of them is an interleaving
of one behaviour of each, and every property speaks of one. `MCServices` therefore
lets a behaviour choose the component it shows and leaves the others in an initial
state; the composition has the sum of the components' states and not their product.

| Property | What it says |
|---|---|
| `AnswersAreTrue`, `RequestsAnswered` | A pass is about this candidate on a base no older than main was when asked, every host of it; a rejection names a real reason, or a merge or evaluation that was cut off; every request is answered or given up. |
| `DoneIsPublished`, `BuildSettles` | A release reported done is in the cache host by host; no entry stays `building` without a job. |
| `CacheStaleness` | A revoked credential opens the cache for less than one lifetime and one timeout. |
| `WorkersExclusive`, `WatcherCatchesUp` | Two replicas work at once only in the windows the election leaves; the watcher gets past every upstream revision, also one whose branch a crash left without a record. |
| `QuietAdvance`, `DispatchedIsKnown` | A ring moved by an enrolment serves every member the pinned revision knew the shape it was soaked with; a dispatched device exists in every ring that covers it. Both up to the races named at the property. |
| `StatusIsEarned` | A job's status is earned by this install: the keys its report carried escrowed, its credential accepted unless an operator issued another, Secure Boot seen enforcing where the TPM2 is sealed. |
| `RebootOnce`, `HandedOver` | One armed reboot is one reboot; a minted recovery key is never lost on the way, nor the latest bundle unless an upload crossed its collection. |
| `TwinsAgree` | `resolve.nix` resolves as `resolve.go` does except where the console lists both the collision and the inert priority; the waves previewed are the waves started. |
| `NothingDangles` | No sequence of writes leaves a binding, filter, member, grant or one-group wave naming nothing. |
| `EveryBuildProved` | After a write no active device is built from inputs nobody evaluated. |
| `SweepSparesFleet` | A sweep takes nothing from a device that was in the document all along. |
| `VerdictStands` | No grant after "expired"; two verdicts only from two operators at once. |
| `RightsExpire`, `DeletedGroupsDie` | Rights taken away die within session plus token, a deleted group's within the cache's lifetime. |
| `WipeToldOnce`, `BoardIsTrue` | A wipe outcome is told once unless statements crossed; the page neither cries wolf nor hides a device. |
| `ErasureIsHonest` | What still names the person, in the tables the erasure searches and on devices, was written after the erasure passed, or the report says it stays. |

*Bounds.* Two of everything that can get in each other's way: two gate requests of
two hosts and two variants each with two workers and chunks of three, so that an
evaluation has a full and a partial batch; two releases of one revision sharing a
worktree; two replicas; two upstream revisions, so that one arrives while the other
is being staged; two enrolments that reach one serial under two names; two
intents armed one after the other, in seven orders in which one outcome meets
another, and two bundles, so that one is collected while the other is uploaded;
an install report with both keys or with neither; two operators for one request; two
check-ins at once; two fetches. The
fleet documents start empty, bare or mixed (a nested group, an enforced scope, a
provisional and a retired device, two conflicting policies and filters) and see
any two of the handlers' writes: the properties compare neighbouring documents. Windows
are the least numbers for which "within" and "past" both happen.

### What the violated runs show

* `cap_second_run`: release marks are device pins in the document, `releaseCohort` is
  the only code that writes them, and nothing clears them when a run ends. The next
  run counts the marked devices as released: moving the branch hands them its target
  all at once, and another cohort is released on top. After one completed run of a
  capped wave every device is marked and the cap has no effect. With one run and one
  fault instead (`MaxStarts = 1`, `MaxFaults = 1`) TLC finds the same within a run:
  `releaseCohort` commits its marks before the branch push and the store write, and when
  one of these fails the next tick's promotion counts the first cohort and releases another.
* `late_device`: `releaseCohort` takes `active[released:next]`. When a device with
  a lower tag becomes active after the first cohort, that slice starts inside the
  released set: a released device is "released" again, nothing changes, and the
  wave widens for ever.
* `stopped_run_replaced`: `StartWith` refuses only over an *active* run, so the
  delivery of a merged change replaces a paused or halted one.
* `lost_merge`: `Merge` releases `writeMu` before it pushes. A beat of `SyncLoop`
  (or an `Apply`) in between resets the clone's main to the remote, the merge
  commit is gone, and the push of the unchanged main succeeds: the change is
  recorded `merged`, its branch is deleted and its delivery starts, but it is on
  no main.
* `lost_edit`: `applyTx` writes `fleet.json` before it commits. When the commit
  fails, the worktree keeps the edit; saving it again yields the same bytes, is
  taken for a no-op and reported as saved, and the merge lacks it. This is also
  why `ReadyIsProved` is checked and proved only without failed commits, and
  `ReadyWithinProof` with them.

## Proofs

Every theorem holds for every fleet, plan, set of actors, window and bound that
satisfies the named assumptions of the component's module. These are weak: plans are
non-empty and fit the record, their waves name groups and share none
(`SetRolloutPlan`), groups and finitely many devices exist, times are natural numbers, the
sentinels `none` and the like are not actors, the tokens asked for have a longest
lifetime, only rings cover a device, the online window is no longer than the inactive
one, the console starts from a document whose references hold, and requests name slugs and
well-formed scopes. TLC evaluates them on every run. Each proof is an induction over the steps; what
follows names the strengthening each needed and why the property alone is not
inductive.

**The rollout** (`RolloutProofs`, `RolloutBranchProofs`)

* `TypeCorrect`: `Spec => []TypeOK`. A tick under way indexes the run's waves with
  the run's current wave, so `TypeInv` adds that a tick under way belongs to an
  active run that still has a wave.
* `WavesSpacedAlways`, `ApprovalAlways`. The gates are evaluated when a run
  *advances*; the properties are about the later store write that records the
  *promotion*. `WavesInv` carries the gate's outcome across: `WaveInv` says that
  every wave before the current one has been waited for and signed off, that no
  later wave is promoted, and that a convergence is never recorded before its
  promotion; `TickInv` says the same of the time a promotion under way will record.
* `PromotedAlwaysOffered`, `LaterWavesAlwaysHeld`. A promotion is a list of pushes,
  then the store write. `MoveInv` says what a tick knows half way: only a promotion
  pins and moves, the groups still to be dealt with are the current wave's, and those
  of them it has moved stand on the target or where an enrolment has put them since
  (`Placed`). That `placed` never excuses too much is part of the properties themselves:
  the branch must stand on the very revision an enrolment gave it, and every move by the
  service takes the excuse away. `BranchAdvances` says of the enrolment's steps once what
  each of these proofs needs of them.
* `StoppedAlwaysStill`: `Spec => StoppedMeansStill`, an action property: a tick that
  may still push belongs to an active run, and an enrolment's step moves one group of
  its list to the revision it read.
* `PinAlwaysMatchesBranch`: `Spec => [](faults = 0 => PinMatchesBranch)`, with
  enrolments. With
  failures it is false, and the code does not claim it: a tick that fails between the
  pin and the push leaves a pin ahead of its branch until the retry. `PinOrBranch`:
  the two differ only inside the promotion that writes the one and then moves the other.
* `RiskBrakeHolds`: the pins never pass a risky commit when only auto-flow starts
  runs. `RiskInv`: wherever a revision waits to become a pin (the pins, a start that
  auto-flow has decided, the run's record) its history is harmless, and since main only
  grows it stays so. Hypothesis: a fleet that starts pinned does not start pinned to a risky commit.
* `ReleasedAlwaysPrefix`: `DisjointCaps => (Spec /\ [][JoinsLast]_vars => []ReleasedIsPrefix)`,
  with failed writes, crashes, plan edits and any number of runs. `releaseCohort` computes a
  batch once and commits it device by device, so `PrefixInv` speaks of the marks in the
  document together with what is left of the batch: both are for capped groups of the
  device (`MarkedMembers`), and the marks, with the rest of the batch behind them, stay a
  prefix (`MarkedPrefix`, `BatchPrefix`). `JoinsLast`: a device that becomes active has
  just enrolled, with a tag above its group's active ones; `late_device` shows what a lower
  tag does, and a released device that is retired and reactivated has the same effect.
  `DisjointCaps`: a device has one mark, so a second capped group would take the first one's.
* `CohortAlwaysCapped`: `Spec /\ [][Undisturbed]_vars => []CohortCap`. The cap is about
  the devices no healthy and soaked cohort contained yet, and the gate that proves a cohort
  is passed before the release of the next, which is a commit per device. `CapInv`
  therefore counts the batch as well: what is released or still in the batch, and not
  proven, fits in the cap (`CapCount`); no device of a capped wave is marked before its
  promotion picks a cohort (`CapAhead`); the batch belongs to the current wave, and a
  wave that widens is a promoted one (`CapTick`); capped waves share no group (`CapWaves`). `Undisturbed` excludes a fault inside a tick
  (the retried promotion above), marks that an earlier run left (`cap_second_run`), a plan edited under a
  run (it changes what counts as released), and a released device that left and comes back (a mark
  nobody proved joins a full cohort). Devices still break, doze, disappear, enrol and retire.
* `AutoAlwaysCarriesWork`: `Origins = {"autoflow"} => (Spec => AutoRunsCarryWork)`, an
  action property, with failures, unpins and plan edits. The check reads without the lock
  and the start comes later, and the baseline it counts from is read off the pins. `WorkInv`:
  a decided start finds the record as the check left it, with a person's commit above the
  completed target (`AutoPending`); and as long as nobody has committed above a run's
  target, the plan is still the run's and every wave it promoted is pinned to that target
  (`RunIsPlan`): unpinning and re-planning are themselves commits by a person. An
  operator who may start runs could complete one between the check and the start, hence
  the hypothesis.

**The configuration plane** (`ChangeProofs`)

* `FlowTypeCorrect`: `Spec => []TypeOK`, including that the write lock is held by a
  merge exactly in its locked part. `JobInv`: a submit with a verdict to come belongs
  to a change that is still `building` and has a worktree, and the change of a merge
  under way keeps its status.
* `PromiseKept`: `Spec => KeepsPromise`, the refinement of `Ledger`: main on the
  remote only grows, always evaluates and contains every acknowledged write. The
  clone may hold a merge that was never proved (a refused merge whose reset
  failed, a crash before the gate), so "main in the clone evaluates" is no
  invariant. `PushInv` says it of the moments that matter: after a sync until
  the push of a transaction, and from a merge's verdict until its push. Steps of
  the plane and of the flow map to `Publish` or a stutter.
* `ReadyAlwaysProved`: without failed commits, `Spec => []ReadyIsProved`. `AllProved`
  adds that a worktree is clean or absent and that an accepted verdict is about what
  is on the branch. `ReadyAlwaysWithin`: `Spec => []ReadyWithinProof` with any
  failure; `AllWithin` weakens "clean" to "contains what is committed".
* `SavedEditsAlwaysMerged`: without failed commits, `Spec => []SavedEditsMerged`.
  `AllKept`: what was reported as saved is on the branch for as long as there is one;
  `MergeHolds`: while a merge holds both locks main contains its branch. The run `lost_edit` is the case left out.

**The runner** (`RunnerProofs`)

* `AnswersAlwaysTrue`: `GateSpec => []AnswersAreTrue`. All requests share the clone and
  the worktree. `Held`: the handler between lock and answer holds `gateMu`, and a dead
  context is explained by a failure or a client that has gone; `Staged`: it works on a
  version of main no older than its question; `Evaluated`: a host that was asked for
  evaluates, or the queue or a worker still owes it. An answer "does not merge" is true of
  a base the request met, or goes back to a merge that was cut off.
* `DoneAlwaysPublished`: `ReleaseSpec => []DoneIsPublished`. It rests on
  `BatchesCover`, a lemma about `chunk.go`'s arithmetic: the chunks leave no host out,
  the shorter last one included. `JobInv`: the chunks a goroutine has passed are in the
  cache and survive other jobs, cancels and restarts; `DoneInv`: an entry is done only
  after the last chunk.
* `CacheNeverStale`: `CacheSpec => []CacheStaleness`. The property speaks of the last
  fetch that was let through; the invariant follows the evidence behind it.
  `EndsAreTimely` ties a credential's end to its being live, `AnswersAreFresh` says a
  "yes" under way was true no earlier than its question was put, and `EntriesExpire`
  bounds how long an entry outlives its credential.

**Leadership and enrolment** (`DeviceProofs`)

* `WorkersAlwaysExclusive`: `WorkerSpec => []WorkersExclusive`. `LockIsSession` is what
  the database promises of an advisory lock, `WatchedIsLed` what the code adds.
* `AdvanceAlwaysQuiet`, `DispatchAlwaysKnown`: two action properties of one invariant.
  `PinsBehind`: no revision but the first pins a ring to itself, so the guard never
  passes over a ring because its pin "is" the enrolment commit. `Informed`: a handler
  nobody came between took its snapshot of the very revision it read, and its device is
  there. `Moved`: the rings it is done with serve that revision, and the one it is
  about to push passed the guard and still stands on that revision in the clone.
  `QuietAdvance` compares with the *pinned* revision, as the guard does. Compared with
  where the branch happens to stand it is false for longer histories: an enrolment
  that was raced may have left the branch elsewhere, and a later one takes it back.

**Devices** (`DeviceProofs`)

* `NothingLostOnTheWay`: `ActionSpec => []HandedOver`. The device deletes its key on the
  console's word; `KeyTravels`: the key in a beat is the minted one, and a beat
  answered as sealed has left it with the console. `BundleTravels`: unless an upload
  crosses a collection, what the agent has read is what the file holds and nothing is
  writing it, and a file being written is still there when it is complete.
* `RebootsOnlyOnce`: `ActionSpec => []RebootOnce`. The property counts; `RoundInv` says
  that once the credit is spent no further reboot can come of the same order: the
  reboot has left its stamp on the disk (`RebootDone`), or the outcome is recorded,
  held for the next beat or in the one under way (`RebootTold`).
* `StatusAlwaysEarned`: `ImageSpec => []StatusIsEarned`. A transition is read in one
  step and written in another. `DecisionInv` says what each reporter may have decided
  and not written, `StationInv` that each step of the station rests on the ones before,
  `ShownInv` that a check-in decided past the install belongs to the install on the
  disk, unless a dispatch has overtaken it.

**The fleet document** (`DocProofs`)

* `NothingEverDangles`: `DocSpec => []NothingDangles`. The invariant is `DocInv`: the
  committed document and the one the holder of the write lock is about to commit are both
  `Intact`, that is `Sound` (every part names what the document holds) and a `Forest`.
  `NothingDangles` alone is not inductive: it says that walks up from a group end, which
  nothing keeps true of a group about to be moved. `Forest` says that groups have depths
  that grow from parent to child, and then `Ancestry` shows that a walk visits no group
  twice and ends at a root. Adding a group puts it below its parent (`ForestGrows`),
  removing one needs it childless (`ForestShrinks`), and moving one takes new depths for
  all that moves with it (`ForestMoves`), which exist because `SetGroupParent` refuses a
  parent below the group. There is one lemma per mutation, and `ViewSound` for the
  document narrowed to one reader. Induction over a sequence or a walk goes through
  `Inductive`, with a set of numbers in the place of the predicate.

**How long rights last** (`CredentialProofs`)

* `SweepsSpareFleet`: `CredentialSpec => SweepSparesFleet`, an action property.
  `SweepInv`: a tag that never left the document since a sweep's read was in that
  read, what the sweep is to delete was not, and the cutoff only ages.
* `VerdictsStand`: `ElevationSpec => VerdictStands`. `RowsInOrder` (a decision under
  way is about a request no younger than the stored one), `ExpiredIsOver` (after
  "expired", the row and every decision under way are too old) and `OneVerdict`
  (unless two operators overlapped, at most one decision is under way, and only while
  nothing was told).
* `RightsAlwaysExpire`: `AccessSpec => RightsExpire`. Three snapshots lie one inside the
  other, and `AgeInv` bounds each by the one outside it: what a session remembers was
  not left before it was opened (`SessionAge`), what a token took over from a session
  (or from break-glass, which is in no group) not before that session (`TokenAge`), and
  a call that waits for the directory holds what its token named when it verified
  (`CallAge`). The second needs that a call which came in with a token mints nothing.
* `DeletedGroupsAlwaysDie`: `AccessSpec => DeletedGroupsDie`. `AnswerInv`: what an answer
  lists was there when its query went out, and a refusal is remembered; it says so of a
  call's answer, of the warmer's, and of the cache entry, whose stamp the warmer puts up
  to one query after its reading (`CacheAnswer`).

**What the console says** (`RecordProofs`)

* `ErasureAlwaysHonest`: `PersonSpec => []ErasureIsHonest`. `Passed`: behind the
  statement under way, what still names the person was written since; `Foreseen`: what
  an undisturbed preview counted is removed or still to be removed; `Reported`: a report
  is on show only while no erasure runs.
* `WipeAlwaysToldOnce`: `ComplianceSpec => []WipeToldOnce`. The inductive form counts
  the check-ins that will tell as told already:
  `wipesTold + Cardinality(Untold) <= turns + overlaps`.
* `BoardAlwaysTrue`: `ComplianceSpec => []BoardIsTrue`. `PageInv` says what the reads
  so far have in common: one row, judged on the day it was read, and a revision that was
  held stays held; `RepoInv`: the clone only trails main. The incidents are computed, not stored: lemmas about the operators
  (`WhenKinds`, `DetectKinds`, `PageAgrees`) say which kinds a device's status gives.

**Only model-checked**, and why:

* `RunSettles`, `SubmitEnds`, `RequestsAnswered`, `BuildSettles`, `WatcherCatchesUp`:
  liveness under fairness, out of TLAPS's reach.
* `TwinsAgree`, `EveryBuildProved`: each compares two computations over the whole
  document (the resolver and its nix twin, the preview and the start; a shape and what a
  host is built from). They are written with folds that take an operator as an argument,
  whose defining facts the installed provers cannot instantiate.

## Disagreements met while modelling

Besides the five violated runs, the code and its own words differ in places that the
models follow the code on. The ones that matter most:

* An erasure report claims to hold everything that still names the person
  (`app/erasure.go:15`, `docs/compliance/processing-register.md:98`). API tokens
  (`migrations/0002_tokens.sql:9`), the reader of a device secret (`0012`) and the writer
  of the forge identity (`0018`) name a person and are neither erased nor reported.
  Decisions about other people's requests are meant to be reported
  (`app/erasure.go:144`), but `ErasePersonalData` never counts them, and the preview,
  which does, looks for the login name (`adapters/postgres/erasure.go:49`) where
  `web/elevation.go:88` wrote the subject. `ErasureIsHonest` is about the tables that are
  searched; with these tables in it, it is violated by one write and one erasure. An
  erasure that failed half-way shows only its error, and a second one reports only what
  it removes itself.
* ADR 0011 says "The rollout engine is the **only writer** of ring branches", and so do
  `adapters/git/git.go:398` and the comment in `FollowHead` ("every ring branch belongs
  to the engine"). `EnsureRingsContain` is a second one, and asks neither the mutex nor
  the run. Moving a branch and not the pin, it leaves the two different until the next
  promotion. In a run: a promoted branch it moves is off the target, the convergence query
  compares with the target (`adapters/postgres/postgres.go:403`), and the wave never
  converges; a branch of a later wave is handed main as it is, ahead of the staging; a
  branch may end behind a promotion, when the enrolment read its head before it; and a
  high-risk commit below the enrolment reaches the ring without auto-flow's brake
  (`RiskBrake` is about pins). The guard keeps the configuration of the ring's members
  the same, so what moves is the revision and not what the members run.
* ADR 0011 says a re-targeted rollout "may legitimately move one backwards". Devices run
  comin, which refuses what is not a descendant, so such a run waits for devices that
  stay where they are. Devices of a count-capped wave follow main until they are released
  (`nix/generator.nix:108`), so they too may be past the target when their turn comes.
  `RunSettles` calls both overtaken; nothing in the service notices.
* With several replicas the rollout is not one. `docs/1.0-fit-gap.md:272` calls several
  replicas ready and `cmd/sextant/capabilities.go:470` says that "the app scales to N
  replicas"; `capabilities.go:447` speaks of a "shared store". The record is a file per
  replica (`adapters/state/state.go:191`; its header promises a Postgres adapter for this,
  and there is none), and the chart then demands that the state directory is not shared
  (`deploy/helm/templates/deployment.yaml:22`). So Pause pressed on a replica that does
  not lead finds no run, against `rollout.go:779` ("nothing promotes, widens or moves
  branches until Resume"); Start there makes a second run that only its own tick buttons
  move until it leads; and a change of leader loses the run. Change records and the
  watcher's memory are per replica in the same way; `Workers` takes them as shared, which
  is what the election's comments assume.
* `mergeConflict` says that a verdict about the change and a failure of the runner "must
  not share an exit" (`cmd/gate-runner/main.go:380`); every failed `git merge`, a timeout
  or a full disk included, leaves through it as a 422 (`main.go:425`). `AnswersAreTrue`
  lists it as the one untrue answer.
* `domain/imaging/provision.go:9` says done "IS the verification": Secure Boot observed
  enforcing. `Advance` is content with the executor's word that it enrolled the keys when
  no TPM2 unlock follows (not wanted, or no chip). `api/station.go:305` says an install
  without a recorded host key must not be declared done; a report without one passes.
* `agent/src/main.rs:84` says "retry, never loss" of a bundle, `client.rs:97` "never a lost
  bundle". `gzip` writes into the file that the agent reads (`actd.nix:256`): a beat in
  between uploads a part and removes the rest, a bundle collected between a read and its
  clearing is removed unread, and a second collection truncates the first.
* `resolve.nix:183` still breaks ties by the priority that ADR 0026 removed from
  `chain.go`; `resolve.nix:1` says the two can never drift. The conflict list
  (`conflicts.go:34`) names the first declared as the winner although an enforcing
  loser takes effect.
* `app/elevation.go:144` says a second decision is refused; two operators who both read
  the request undecided both write.
* `adapters/postgres/postgres.go:110` says its statement makes the change of
  acknowledgement race-free; two check-ins at once can both report it.
* A structural write records the keys it did not evaluate in the verdict memo
  (`app/config.go:404`) that `app/verdicts.go:28` says holds only proved ones.
* `app/enrolment_rings.go:68` says an error means that nothing was moved; an error after
  an earlier ring was pushed leaves that ring moved. A batch that reuses a record under
  another name dispatches a tag the fleet does not have (`http/web/enroll.go:226`).
* `unconfigureHardware` (`hardware_config.go:103`) deletes a model's policy whatever else
  binds it; a device's pin may name a revision that is gone; `ringBranchFor` reads
  `r.group` of every ring, which a ring in the multi-group form does not have.
* The credential sweep can delete what an enrolment issued after the sweep's read; issuing a
  credential checks the device's state before a concurrent retirement commits.
* The upstream watcher names a change after the revision it saw and locks the one that
  is current when it runs.
* An image job's write pins the status and not the dispatch: a check-in that was
  under way when the job was dispatched again can complete it (`app/imaging.go:152`).
* `RemoveGroup` says that a rollout ring blocks the removal of its group "so nothing
  dangles" (`domain/fleet/device.go:284`), but compares the name only with `ring.Group`
  (`device.go:321`). A wave that lists its groups, as those of a derived ladder do, can
  lose one: store a ladder, remove an empty group of it, and the stored plan keeps the name.
* `domain/fleet/model.go:423` says that exactly one of a wave's `group` and `groups` is
  set. Neither the API (`api/fleet_ops.go:168`) nor `SetRolloutPlan` (`mutate.go:149`)
  checks it: of a wave with both, only `groups` is looked at, and a `group` that names
  nothing is stored. The instance of `services` stores such a plan. `NothingDangles`
  therefore speaks of waves without `groups`.
* A token's lifetime has no upper bound where comments speak of thirty days
  (`app/token.go:26`); a directory with more than 500 groups makes the ones past the cut
  look deleted (`adapters/ldap/ldap.go:95`).
* The compliance page counts info incidents as warnings (`web/compliance.go:74`) and shows
  every device as fine when the incidents cannot be read (`web/compliance.go:47`).

## Plan

Modelled first, because everything else relies on them: the rollout, then the
configuration plane with the change flow; then the services around them. What is
left, in this order:

1. A proof of `TwinsAgree`, with the folds of the resolvers as recursive functions.
2. Several replicas of the rollout, each with its record, mutex and clone.
3. The remote gate in place of `ConfigPlane`'s exact verdict.

## Not modelled

* The setting catalogue (`http/web/catalog.go`) and the assembly of view structs and
  templates: tables and layout, no state. Form parsing is modelled as far as it
  decides which mutation runs.
* `sxctl`, the fleet simulator, the platform package (environment, health, logging,
  metrics, server start): clients, tools and start-up.
* Sealing, password hashing, the OIDC exchange, mail and the forge's identity: the
  models use only whether they succeed.
* Discovery of unknown machines and the audit export: single statements without a
  protocol.
* Hardware facts, posture and utilisation history beyond what incidents read.
* The nix evaluation itself: whether a host evaluates is a constant of the models.

`PROJECT.json` gives status and reason per component.

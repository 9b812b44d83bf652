# LocalPlane: TLA+ models

LocalPlane is a self-hosted control plane for one host. A FastAPI backend with an
SQLite store plans and records *Runs*; an unprivileged agent on the host observes it
and holds connection guards; a privileged helper makes the one privileged write (an
interface MTU); Docker and systemd are reached through their own daemons. What
LocalPlane promises an operator is about the moment a Run writes to the host: that it
was authorised once, on evidence that still held; that nobody else writes to the same
target meanwhile; that it does not cut the operator off; that the record never claims
more than is known; and that a crash, a timeout or a lost connection leaves either a
proven state or an admitted unknown. The models cover that path and what it rests on.
Paths below are relative to `src/localplane/` of the repository.

## Inventory

| Component | State | Operations | What is hard |
|---|---|---|---|
| Change engine (`backend/changes.py`, `runs.py`, `domain/{runs,changes}.py`) | Run and Change rows, confirmations, overrides, checkpoints, write locks | create, confirm, override, cancel, apply, settle_interrupted | requests on worker threads interleave between transactions; crash between marker and outcome; late landings |
| Connection guard (`changes.py`, `operations.py`, `agent/guard.py`) | `run_guards`; the agent's in-memory registry and timers | arm, abandon, hold, keep, lapse, release, settle_interrupted_guards; arm, disarm, status, fire, evict | two processes that may die separately; a timer racing a request; a bounded registry |
| Recovery hold (`changes.py`, migration 0009) | `change_recovery_attempts`, recovery grants, the kept lock | recovery_confirm, recovery_retry, recovery_resolve, settle_interrupted_recovery | retry against resolution; a grant per dispatch; original messages still on their way |
| Privileged helper (`helper/`, `ipc.py`) | attempt memory, netlink sequence counter | set_interface_mtu | a threading server without a lock; check and write are two exchanges; a bounded memory |
| Planning, policy, protection (`domain/{policy,protection,self_impact,management_path,systemd_lifecycle}.py`, the planners) | none; the evidence they read is dated | plan, assess, re-plan at every step | evidence from several readings, each of its own age |
| Management, intent, findings (`management.py`, `domain/{intent,findings,reconciliation}.py`) | managed objects, intent versions, findings | adopt, revise, release, evaluate | versions against observations; overlapping requests |
| Observation ingest (`ingest.py`) | objects, observations, sweeps | ingest_*_sweep | late and partial sweeps |
| Provenance (`domain/provenance.py`, providers, collector) | none | read, claim, decide ownership | a silent provider is not a denial |
| Runtime owner (`agent/docker_runtime_owner.py`, `docker_direct_attestation.py`) | none; pinned processes | correlate | several reads of a host that moves; pid reuse |
| Service jobs (`agent/providers/systemd.py`, `systemd_operations.py`) | job watch | dispatch, await, prove | whose job ended; what an unheard call did |
| Effect graph (`agent/providers/systemd.py`) | work queue | observe_effect_graph | limits, aliases, owning up to a cut |
| Authentication (`auth.py`, `auth_cli.py`) | secret file, in-memory sessions | init, sign in, sign out, expire | file creation races; clock readings that wait for a lock |
| Executors (`operations.py`, `container_operations.py`, `systemd_operations.py`) | none | correlate, mutate, observe, prove | reading an unheard call |
| Durable store (`backend/db/`) | all tables | CHECKs, triggers, unique indexes | a refused row is an exception in the middle of a handler |
| API, console, configuration (`backend/api/`, `web/`, `config.py`, `tls.py`) | none of its own | routing, presentation | — |

The backend calls the agent, and the agent the helper, over Unix sockets with one JSON
line per request and a timeout per call (`ipc.py call`). A call fails in two ways that
matter: it never left (`dispatched = False`, proof that nothing happened) or it left
and no answer can be trusted (`write_unknown`). Apart from messages the processes share
nothing; within the backend, requests share the store and nothing else.

`PROJECT.json` lists the components with what is modelled of each, every hazard at its
line with the properties about it, and the source lines of every definition.

## Modules

| Module | Models | Rests on |
|---|---|---|
| `Lifecycle` | the vocabularies, `host_effect_for`, `outcome_on_recovery`, and the CHECKs of `runs` and `changes` | |
| `ChangeEngine` | unguarded Runs from confirmation to ending and settlement | `Lifecycle` |
| `ChangePromise` | abstract: what the engine promises about a Run | |
| `ChangeRefinement` | the mapping from the engine's rows to the promise | `ChangeEngine`, `ChangePromise` |
| `GuardedChange` | guarded Runs: backend, agent registry, helper | `Lifecycle` |
| `RecoveryHold` | what follows `recovery_required` | `Lifecycle` |
| `MtuHelper` | the helper's threads and its client | |
| `Gates` | management path, protection, self-impact, eligibility, policy, the planners: pure operators | |
| `Planning` | one Run from create to dispatch under moving, ageing evidence | `Gates` |
| `Provenance` | from a daemon's answer to a claim of ownership: pure operators | |
| `Estate` | sweeps, adoption, revision, release and findings of one interface | `Provenance` |
| `RuntimeOwner` | the correlation of a connection with the unit that runs it | |
| `ServiceJob` | one service job through executor, agent and systemd | |
| `EffectGraph` | the bounded walk over a unit's relations | |
| `Sessions` | the secret file and the session store | |
| `ChangeEngineProofs` | theorems about `ChangeEngine`, and that it implements `ChangePromise` | `ChangeRefinement` |
| `GuardedChangeProofs`, `RecoveryHoldProofs`, `MtuHelperProofs`, `EstateProofs`, `ServiceJobProofs` | theorems about the module of that name | that module |
| `PlanningProofs` | theorems about what a request is judged on: `Planning` and `EffectGraph` | both |
| `ConnectionProofs` | theorems about who is behind a connection: `RuntimeOwner` and `Sessions` | both |

Each `MC...` module gives the constants of the runs. Where one module of proofs extends
two models, the specification of one has a name of its own: `WalkSpec` of `EffectGraph`,
`OwnerSpec` of `RuntimeOwner`.

**One step is one commit.** Every `with self._db.transaction()` and every `_step` is
one action, every call to another process is a send and a later answer, and every
reading is an action of its own. Between them anything may happen. `pc` says where a
handler stands; what it holds in memory is lost in a crash, the rows are not. Operators
labelled "Faulty variant" are plausible bugs that the properties are shown to catch; no
specification uses them.

**ChangeEngine.** `state`, `effect` are the Run row; `result`, `mutation`,
`verification`, `rollback`, `restored` the Change row, with the dispatch marker and the
outcome in one variable; `conf`, `override`, `checkpoint`, `lock` their tables. `host`
is the truth, `observed` the newest stored observation, `call` and `undo` the two
messages, which land at any time after they were sent. Values are `before`, `desired`,
`other`. `Acquire` … `Finish` follow `apply` commit by commit. `StoreAccepts` and
`StoreRefuses` are the CHECKs: a transaction that violates one raises, and leaves the
lock. A field Run has a checkpoint and is rolled back; an action has neither. Planning
is `PlanStands` together with a refusal that may come at any time: which refusals come,
and on what evidence, is `Planning`'s subject. `ConcurrentApplies` says whether clients
apply one Run twice at the same time; the code does not prevent it.

**ChangePromise** knows only what a Run has *told* the operator (open, in flight,
nothing changed, done, undone, a person is needed), what was *asked* of the host, and
who *owns* the target. `ChangeRefinement` maps `told` to the Change row while it is in
flight and to the Run's state otherwise, `asked` to the message `call`, `owner` to
`lock`. `KeepsPromise` says every step of the engine, crash and settlement included, is
a step of the promise or none. It is stated for clients that do not apply one Run twice
at once. The promise about an undone Run is about the reading: a write nobody answered
may land after it, and `ChangePromise` says so by allowing `sent`.

**GuardedChange** starts where `_arm_guard` inserts its row (`Begin`). `mail` holds
requests the agent has not served: they survive their sender's timeout and death.
`guard` and `verdict` are the registry and are forgotten by `AgentRestart`; a settled
guard is also forgotten by `Evict`, after which `status` says lost. `firing` holds the
registry lock. `Boot` is `settle_interrupted_guards`, followed by `settle_interrupted`,
as in `app.py`.

**RecoveryHold** starts in any state a Change can end `recovery_required` in, field or
action, with the original apply and restoration possibly still on their way. For an
action that has to be proved against a baseline (a restart) the target is a counter of
starts.

**MtuHelper** takes apart what the other three treat as one step. There, the helper's
comparison and its write are atomic; here they are two exchanges with the kernel
(`Interpret`, `Mutate`), and `self._sequence += 1` is a load and a store. `Memory` is
`ATTEMPT_MEMORY`; one makes eviction happen. Calls of one attempt overlap as they like;
the history `earlier` records which calls were over when another began. The module
docstring's "at most once" (`OneDispatchPerAttempt`) does not hold of calls that overlap;
what holds of the others is `DispatchedAgainOnlyIfForgotten`.

**Gates and Planning.** Addresses are named by the connection reached over them, routes
by the interface they leave on, and a digest is the canonical plan itself, so equal
digests mean equal plans. A request has a verdict about its own connection, observes
what the operation needs and plans; each of these is a step of `Planning`, and routes,
addresses, stances, owners, capabilities and service wiring change between them. An apply
is four commits: the last comparison (`Compare`), the confirmation and the override spent
in one transaction (`Consume`), the preparation that may fail (`Unprepared`) and the
boundary (`Cross`), which sends what was published and compares nothing.
`Scenes` are where a behaviour may begin: one of the three kinds of operation with an
estate already observed, so that the bounds are spent on what happens next.

**Estate.** A refresh is the handshake transaction, the look at the links, the round of
the providers and one storing transaction. "Newest" is by `observed_at` and then by
rowid, as the store orders it, so a sweep that looked earlier may be stored later.
`Provenance` turns answers into claims; a provider that was not reached makes gaps.
`standing` is a history: who has claimed a relation and has not answered otherwise since.

**RuntimeOwner** has every read of `correlate` as a step, on a host whose processes carry
a generation the code cannot see; `together` records whether what was read was true at
once. `eligible` are the containers `_runtime_candidate` may accept (host networking, a
well-formed start time); the rest are passed over, the accepted one among them. The
accepted socket's cgroup is a container's own or `inner`, one below it, which comes and
goes by itself, so that both relations of `_cgroup_relation` occur. Processes are taken
not to migrate between cgroups. **ServiceJob** has the executor, the agent's dispatch with
its bounded signal buffer, and systemd with other clients and replaceable managers. A job
is enqueued (`Accept`) before its path is sent (`AnswerCall`); a manager that goes in
between makes the bus answer with an error; and whatever the dispatch returns, the watch
or the connection may fail to close and its exception answers instead (`Result`,
`Unclosed`). **EffectGraph** picks
any small graph, aliases and peculiarities in `WalkInit` and walks it. **Sessions** has two
runs of `init` over the file system and request threads that read the clock before they
take the store's lock.

## Runs

| Run | Instance | Shows |
|---|---|---|
| `Engine` | a field Run and an action with an override, 1 target, 2 requests, 1 crash, 1 outside change | records are truthful, authority is spent once, the lock covers the window, endings and outcomes stand, an idle lock lies before the boundary or is a hold; the engine implements `ChangePromise` |
| `EngineLive` | 1 field Run with override, 2 requests, 2 crashes, 1 change | a crossed Change ends |
| `GuardOne` | 1 Run, 1 keeper, 1 crash, 1 agent restart, 1 change, eviction | kept stays kept, only proof releases, no write without a confirmed guard, records are truthful, a crossed change ends or is held |
| `Hold` | field or action, 2 requests, 2 attempts, 2 grants, 1 crash, 1 change | the hold is released once and finally, a grant per dispatch, attempts are truthful and served |
| `HelperRepeats` | 3 calls: an attempt, its repeat, a reversal; memory of 1; 1 change | answers are truthful; a call that overlaps no other of its attempt repeats a write only when the memory lost it |
| `Planning` | 2 interfaces, 2 connections, 3 kinds of operation, clock to 4, 1 move, evidence fresh for 1 | an ordinary apply spares the operator's path, a guarded one is on it; a service job spares the console |
| `Estate` | 2 refreshers, 2 operators, 2 values, clock to 2, 3 refreshes, 3 requests | findings mirror the newest observation, endings say why, a released object is quiet, a conflict has an owner and closes only on that owner's answer, revisions are serial, adoption rests on what was captured |
| `RuntimeOwner` | 4 pids, 2 containers, any of them candidates, 3 events | what a resolved answer says was all true at one instant; it names the accepted container where that is a candidate |
| `ServiceJob` | 3 verbs, buffer of 1, 2 jobs per manager, 2 managers, 3 executions | written means our job was done; not written errs only where the manager or the closing failed; a verified restart came after ours was accepted |
| `EffectGraph` | 3 names, every graph of at most 2 relations, limits that cut and limits that do not | a complete graph is closed and names what could start a stopped unit again |
| `Sessions` | 2 inits, 2 requests, lifetime 1, clock to 2, 2 sessions, 1 reset | a printed secret stands; a refused token stays refused |

Two requests suffice for every race of the engine, the hold and the estate, since each
is between one handler and one interfering step; two Runs on one target are what the
lock is about; one crash reaches every commit, and `EngineLive` uses two so that
settlement itself is interrupted. One outside change makes any one reading or
precondition wrong. Three refreshes make a late one overtake another after an adoption.
In `Planning` the clock passes the age at which every kind of evidence expires. In
`RuntimeOwner` three events suffice for a death, a start with the same pid and one more
change between two reads. A buffer, a memory or a limit of one makes the bound bite.
Bounds are constants named `Max...`. Deadlock is not checked where the system may rest
for ever: a Run held for an operator who never comes, a hold nobody resolves, a request
answered, a walk finished. Symmetry is over threads.

One run TLC refutes, and `findings` quotes the sentence the code does not keep:
in `EngineSecondApply` the refusal of a second apply of a Run deletes the first one's
lock, and two Runs are in flight on one target.

## Sentences of the repository that do not hold

Each of these is stated in its module as a definition beside the property that does hold
and is checked. None is part of a run; put into the `.cfg` named in place of its
properties, TLC refutes each within a minute.

| Definition (`.cfg`) | Sentence | Behaviour | What is checked instead |
|---|---|---|---|
| `OneDispatchPerAttempt` (`HelperRepeats`) | "An attempt is dispatched at most once" (`helper/service.py:12`) | the memory is looked up before the write (152) and stored after it (171), without a lock: a repeat that arrives while its attempt is under way finds nothing, and both write | `DispatchedAgainOnlyIfForgotten`, of calls that overlap no other of their attempt |
| `NotWrittenIsProof` (`ServiceJob`) | "becomes `not_written`, which is a proof" (`systemd.py:1401`; also 1476) | the manager enqueues the job and is replaced before it replies, and the bus's error counts as a refusal (1475); or the call is answered by nothing intelligible, `write_unknown` is returned inside the `with`, and closing the watch fails, whose exception finds no job path (1496-1513) | `NotWrittenErrsOnlyUnanswered`: only in these two ways |
| `DispatchesWhatStands` (`Planning`) | "every one is re-read and re-checked: a plan whose inputs moved is *stale*" (`changes.py:508`) | a release or a revision, which take no notice of the Run's lock, comes after the last comparison (532) and before the boundary (550) | the three properties of `Planning`, across the same interleavings |
| `ConflictsCloseOnNewestReading` (`Estate`) | a conflict closes "only when the provider that claimed the object was consulted again" (`management.py:991`) | two sweeps overlap; the round asked first is stored last, and closes the conflict the other had opened | `ConflictsCloseOnAnswer`: an answer there has to be |
| `ClaimantsKeepTheConflict` (`Estate`) | "A provider that could not be read this time proves nothing: the finding stays open" (`management.py:992`) | two providers claim one relation; the one on record withdraws in a round in which the other cannot be read | `ConflictsHaveAnOwner`, `ConflictsCloseOnAnswer`, of the one on record |

## Further disagreements the models reach

These are behaviours of the modules, found while looking for the properties above. No
checked property contradicts them; each is something a reader of the code might take to
be excluded.

*Guard.* The timer runs from the arming (`changes.py:553`) and may run out before the
write lands; the Run is then held with nothing to undo it, against the comment at
546-548. A crash inside `_keep` between the guard's settlement (690) and the Run's
ending leaves a guarded Run with a settled guard, which startup (818) does not look at.
A guard may fire whose arming was never confirmed, and migration 0010 (line 659) has no
row for it. The second of two keeps moves an ended Run back to `rolling_back`
(`changes.py:716`, against `domain/runs.py:167`). A guard whose change never landed
undoes an equal value set by somebody else (`operations.py:579`).

*Engine.* Under concurrent applies a stale step moves a Run that crossed the boundary
back to `awaiting_confirmation` (`domain/runs.py:99`), and if the store then refuses a
row the Change stays in flight until a restart. An action can be cancelled after its
confirmation was consumed (`runs.py:612`). A Run that ended `rolled_back` after an
unanswered write may still see it land.

*Hold.* `_recovery_plan_now` accepts only acknowledgement, which service operations do
not use, so their retry is always refused (`changes.py:2399`).

*Helper.* Two writers can both pass the check, and a value set after the check is written
over (`helper/mtu.py:290`).

*Estate.* An ownership conflict closes on a provider's `ok` although its outcome for this
object was a gap (`management.py` near 1054). Provider evidence of a sweep that looked earlier and
is stored later is attached with the sweep's own time; an older inventory received later
is the latest. A conflict keeps the intent it was opened under through a revision. A
garbled `nmcli` answer is an answer without devices.

*Planning.* A route lookup is stamped when its answer arrives, so its real age may exceed
its stated one by the client's deadline. An interface index may be reused between two
observations.

*Service jobs.* After `write_unknown`, the proof of a restart in a resolution compares
with the baseline of the plan and accepts a restart that came before the dispatch
(`systemd_operations.py` near 503 and 547, used at `changes.py` 2070-2101).

*Runtime owner.* Where the accepted container is no candidate (`docker_runtime_owner.py`
line 807) and dies, the record Docker still has of another one may give a process id that
some process of the accepted container has by now; the answer then names that other one.

*Others.* An attestation changed and changed back between two reads is not noticed. If
`fsync` fails after a backend loaded the secret, the file goes and the backend serves a
secret no file holds. Two concurrent sign-ins leave a session no cookie names.

## Fairness

`EngineLive` and `GuardOne` assume that a started handler takes its next step (every
agent call has a timeout and every transaction is short), that the service manager
restarts a dead backend, that its startup settlement proceeds, and that a timer thread
that is due runs. Nothing is assumed of clients, of operators, of the agent answering or
of the helper carrying a request out, and the host may move. The other specifications
state no fairness: their properties are safety. Of recovery attempts, the safety half of
liveness is checked (`InFlightIsServed`: an attempt in flight has a handler or a boot
that will settle it).

## Proofs

The theorems hold for every value of the constants: any sets of Runs, targets, threads
and calls, any number of crashes, restarts, repeats and outside changes. They rest on
the named assumption of each module (the bounds are naturals, the sentinels are not
members of the sets they stand outside of, `Estate`'s sightings are records of the two
controlled fields, `Planning`'s scenes begin after time zero with every local address on
an interface), and two further hypotheses are written into the theorems that
need them. The properties in the table were checked with TLC before they were proved.

| Module | Theorem | States |
|---|---|---|
| `ChangeEngineProofs` | `TypeCorrect` | `TypeOK` |
| | `AuthorityIsSpentOnce` | `OneDispatchPerAuthority`, concurrent applies included |
| | `RecordsAreTruthful`, `OutcomesStand` | `OutcomeIsTruthful`, `RecordedOutcomeStands` |
| | `LockIsHeld`, `MutationIsExclusive`, `FailuresAreHarmless` | `LockCoversWindow`, `ExclusiveMutation`, `FailureTouchedNothing` † |
| | `EndingsAreFinal`, `NoLockIsForgotten` | `EndedStaysEnded`, `IdleLockIsBeforeBoundary` † |
| | `EngineKeepsPromise` | `KeepsPromise`: the refinement of `ChangePromise` † |
| `GuardedChangeProofs` | `TypesHold` | `TypeOK` |
| | `KeptIsNeverTakenBack`, `GuardRecordsAreTruthful` | `KeptStaysKept`, `RecordsAreTruthful` |
| | `EveryWriteIsGuarded`, `OnlyProofReleasesGuard` | `WriteNeedsConfirmedGuard`, `OnlyProofReleases` |
| `RecoveryHoldProofs` | `HoldIsAlwaysReleasedOnce`, `ReleaseIsAlwaysFinal` | `HoldIsReleasedOnce`, `ReleaseIsFinal` |
| | `AttemptsAreAlwaysTruthful`, `InFlightIsAlwaysServed`, `GrantPerDispatchAlways` | `AttemptsAreTruthful`, `InFlightIsServed`, `GrantPerDispatch` |
| | `HoldTypeCorrect` | `TypeOK` |
| `MtuHelperProofs` | `AnswersAreAlwaysTruthful` | `AnswersAreTruthful` |
| | `LoneRepeatIsDispatchedOnlyIfForgotten` | `DispatchedAgainOnlyIfForgotten` |
| `EstateProofs` | `FindingsAlwaysMirrorTheHost`, `ReleasedIsAlwaysQuiet`, `ConflictsAlwaysHaveAnOwner` | `FindingsMirrorTheHost`, `ReleasedIsQuiet`, `ConflictsHaveAnOwner` |
| | `RevisionsAreAlwaysSerial`, `AdoptionAlwaysStands`, `ConflictsAlwaysCloseOnAnswer`, `EndingsAreAlwaysTrue` | `RevisionsAreSerial`, `AdoptionStands`, `ConflictsCloseOnAnswer`, `EndingsAreTrue` |
| `ServiceJobProofs` | `WrittenWasAlwaysDone`, `NotWrittenErrsOnlyThere`, `VerifiedRestartIsAlwaysOurs` | `WrittenWasDone`, `NotWrittenErrsOnlyUnanswered`, `VerifiedRestartIsOurs` |
| `PlanningProofs` | `OrdinaryApplyAlwaysSparesThePath` | `OrdinaryApplySparesThePath` |
| | `GuardedApplyIsAlwaysOnThePath`, `ServiceAlwaysSparesTheConsole` | `GuardedApplyIsOnThePath`, `ServiceSparesTheConsole` |
| | `CompleteIsAlwaysClosed`, `CompleteAlwaysNamesReactivators` | `CompleteIsClosed`, `CompleteNamesReactivators` |
| | `CompleteOnAnyHost` | both, from any graph, aliases and units, not only those `WalkInit` draws ‡ |
| `ConnectionProofs` | `ResolvedAlwaysHeldTogether`, `ResolvedAlwaysNamesTheContainer` | `ResolvedHeldTogether`, `ResolvedNamesTheContainer` |
| | `AnnouncedSecretAlwaysStands`, `RefusedIsForgotten` | `AnnouncedSecretStands`, `RefusedStaysRefused` |

† under `ConcurrentApplies = FALSE`; without it `EngineSecondApply` is a counterexample.
‡ for `AnyHost`: a canonical id is its own canonical id, and the verb is one of the three.

**ChangeEngine.** `TypeInv` adds to `TypeOK` that a working handler serves a Run and
holds an answer fit for where it stands. `AuthInv` says that a handler past the
consumption is the *only* one past it for its Run (`OneOwner`), that its Run's
confirmation is spent (`OwnerSpent`), and, for each place in the handler, what the rows
and the message may say (`Stage`, `Ledger`), with a statement about Runs no handler owns
(`Quiescent`). Without `OneOwner`, "sent at most once" is not inductive: two handlers
could each be about to send. `WindowInv` adds that a handler under the lock really holds
it (`AppliersHold`) and that rows and place agree, which needs †. `EndInv` adds that Run
and Change rows end together, that a lock is its own target's, and that a handler past
the marker stands where its recorded outcome puts it. From it the store accepts every
ending `_finish` writes, so each step of the engine is one of `ChangePromise` or none,
which is proved action by action.

**GuardedChange.** `Discipline` rests on three ideas. A Run asks for its guard once, and
the request has one form, so a guard that was released or has fired is never armed again
(`Registry`, `Letters`). While a settler serves a Run its apply is over (`Serves`,
`Alone`), so the two never write the same row. What a handler was told of a guard stays
true until it is recorded (`Heard`), because a released guard cannot fire and a verdict
does not change; only the registry's memory of it may go. `KeptStaysKept` alone is not
inductive: it needs that the keeper about to record `succeeded` holds the answer of a
disarm that took effect.

**RecoveryHold.** A handler at work owns its attempt alone (`Owns`), knows what its
attempt's record says where it stands (`Stages`), the record fits the message
(`Records`), and the lock is held exactly until one attempt's outcome releases it, after
which nothing is under way (`HoldFits`). `GrantPerDispatch` counts: each dispatch adds
one attempt to a finite set and one to `spent` in the same transaction. `TypeOK` needs
more than types: a handler's last answer may be the helper's or a reading's, and where
one is recorded as a reading it has to be one (`Judged`).

**MtuHelper.** `Truth` follows the result of a thread, the memory and the answer.
`Once` says that a thread past the lookup that overlaps no other of its attempt has an
attempt the memory does not hold, that an attempt carried out and answered is in the
memory or was pushed out by others, and that a call that was over stays so.

**Estate.** A managed object has been seen and its intent in force is the last version;
each evaluation levels every field with the observation and the intent it is given
(`EvaluateLevels`), and each transaction that changes either ends with one. For
conflicts, the first of a set of claims belongs to a daemon, because a source speaks only
for itself (`SourceOwn`); for adoption, the same lemma turns "nothing blocks" into "no
provider claims". Two readings of one request are needed only for `RevisionsAreSerial`:
the version checked in the transaction is the one superseded. A conflict that closes in a
sweep does so with no claim left and its owner's answer (`AnswerCloses`), which is what
takes the owner out of the history `standing`.

**ServiceJob.** A manager numbers its jobs upwards; the call was accepted exactly if its
answer is a job, or was to be one when the manager went, of the watched manager or a
later one, under a number no later job of that manager has (`Accepted`); a dispatch that
says `not_written` has no such answer, unless closing failed (`Order`); and what the watch holds came from that manager
while it was there (`WatchFits`). So a signal with our number is about our job.

**Planning.** The properties compare what is dispatched with what the host *was*, several
steps and some ageing earlier, and rest on a chain. A stored lookup was true of the routes no longer before its stamp than an
answer may take (`LookupInv`, and `LookupsInv` for one still under way), and the history
`routed` only grows (`RouteInv`). So the path of a verdict is in the history a request
carries, and the context it plans with is the one observed of the host it carries or is
not effect-complete (`RequestInv`). What remains is about the gates alone, and is proved
for any evidence: `PlannedMtu`, `PlannedContainer` and `PlannedService` say what a planner
puts into a plan, `PlanEligibility` how blockers decide the eligibility, `MtuBlockers`
that no blocker means another path and the path blocker means this one, `OnlyMtuGuarded`
that nothing else can be guarded, and `ServiceBlockers` with `WholeContext` which units a
service job may reach. What the last comparison establishes by these has to last through
two more commits to the boundary: `GateInv` says that the verdict and the context the
request carries still fit the plan, and that the override it needed was given for it.

**RuntimeOwner.** No generation is given out again later (`HostInv`), so a process met twice
under one id and generation was there all the time between (`Outlived`). From that the daemon
stands from its pin to the last look at it (`PeerInv`). Every match is
a process that was pinned in the accepted cgroup or the one above (`Fits`), so while the
accepted cgroup keeps its identity and the process lives, the container runs and all of
it holds at once; that part asks nothing of the candidates. `MatchInv` says beside that
that the accepted container, where it may be a candidate, is still to be looked at, is
being looked at, or is among the matches: so when there is exactly one match, it is that
container's (`HeldInv`). The argument uses the pinned daemon, the look at its unit, the
identity of the cgroup, the match's own pin and the count of matches.

**EffectGraph.** While the walk has nothing to own up to, every reference of a visited
unit was followed or is still to be (`FollowedEdges`), and every piece of work ever queued was
done or is waiting (`Done`). At the end nothing is waiting, so visited is closed. Whether
a reference is dropped is the only thing limits decide, and then there is a gap.

**Sessions.** The run of `init` that created the file owns it until it fails; the store
holds no token that was refused, and numbers are not given out twice.

Proving changed the models where they could not be reasoned about. The arms of
`GuardedChange`'s `AfterReport` overlapped, which leaves a TLA+ `CASE` open, and are now a
chain of conditions in the source's order. `RuntimeOwner` numbers generations from one
and lets Docker learn only of the container that started. `Planning`'s contexts take the
time of their look as a parameter.

Model-checked only: `CrossedEnds` and `CrossedSettles` (liveness: the prover does
neither fairness nor `ENABLED`).

## Not modelled

Digests, wording, timestamps and transcripts. Schema migrations and read-only queries.
Relationship projection and the absence of whole container and unit inventories.
Identity derivation (hashing). Parsing of netlink, D-Bus and HTTP data; logs, statistics
and storage reading, which keep no state. Wire framing. Origin and cookie-security
checks. The HTTP API's views and the console, which present records. Configuration, TLS
and serving. The product of `RecoveryHold` and the agent's guard registry, which is out
of TLC's reach. Changes of units during an effect-graph walk, for which the code claims
no more than its deadline. `PROJECT.json` gives the reason for each.

## Plan

Done: the modules above, the refinement, and a theorem for every safety property of the
passing runs. Left: the product of the hold and the guard registry,
for which a smaller abstraction of the agent would be needed, and the container
executor's correlation, of which only the answers are modelled. Liveness stays with TLC.

# claudebox: a TLA+ verification project

claudebox runs coding agents in containers. A host **daemon** registers
workspaces, spawns one container per session (or several sessions in one), and
proxies a browser to them; inside each container an API server keeps a
**registry of sessions**, and each session drives an agent runtime whose events
a **pipeline** deduplicates, appends to a log and broadcasts. Everything is
Python asyncio: between two awaits nothing interleaves, across an await
anything may. That is how the modules cut the code into actions.

All source paths below are relative to `src/` of the repository.

## 1. Inventory

| Component (source) | State | Operations | What makes it correct |
|---|---|---|---|
| Container registry (`claudebox_daemon/domain/containers/service.py`) | `_containers`, `_freshly_adopted`, `_spawning`, the reconcile in flight and `_written_during_sync` | create, update, stop, kill, remove, reap, `sync_state` | A listing several awaits old never undoes a newer write; a container in use is never reaped; an unreachable one is |
| Health monitor (`domain/health.py`) | the poll under way, `failure_count` | probe, crash verdict, recovery, reap | A verdict is applied only to the entry it was about; only a probe takes a crash back |
| Daemon sessions (`domain/sessions/service.py`) | per-session locks, resume flights | create, resume, fork (own, shared, reused container), side threads | One container per session; a failed operation removes what it spawned |
| Session registry of a container (`claudebox_container_api/session.py`) | `_entries`, `_primary_id`, a lock | start, stop, promote, auto-stop, shutdown | No service runs without an entry; the primary resolves; a promoted member is not auto-stopped |
| Single flights (`claudebox/core/concurrency.py`) | the job per key, its callers | run, release | One job per key; cancelled only when nobody waits |
| Event pipeline and log (`agent_session/orchestration/pipeline.py`, `persistence.py`) | `_initialized`, `_buffer`, `_seen_nested_keys`, the log file | inject, process, initialise, append, stop | Every event reaches the log before a subscriber, each subagent event once, none is missed |
| Orchestrated session (`orchestration/session.py`) | the pipeline, repair lock, subscribers, turn-complete task | start, stop, restart, send, subscribe, repair | One consumer reads the runtime's stream |
| Broadcaster (`core/broadcaster.py`) | subscriber queues | subscribe, broadcast, replay | A replay and the broadcasts after it leave no gap |
| Session record (`orchestration/projection.py`, `claudebox/session/repository.py`) | the summary in memory, `_dirty`, `_save_timer`, `session.json` | fold an event, save debounced or at once, flush, load, update a field of the daemon's | Fields owned by the daemon survive a save; each event is counted once, and reaches the disk |
| Turn tracker, task monitors (`orchestration/`) | turn ids, tail offsets | fold an event, tail, reattach | Turns survive a resume; a tail resumes where it stopped |
| Workspace loads (`domain/service.py`, `domain/config.py`) | the registry file and the object read from it, `_workspaces`, `_loads` | lookup, listing, register, deregister, load, evict | One running service per workspace, of its own directory; what is evicted stays out |
| Registry file, executors, io (`domain/executors.py`, `core/io.py`) | the JSON file, pools | save, load, append | The last state wins; a torn tail is not read |
| Spawn socket, boards, UI state, serving, watchdog | see PROJECT.json | | |
| Session stream of a tab (`claudebox_frontend/src/context/EventsContext.jsx`, `utils/eventsReducer.js`, `utils/replaySlice.js`, `managers/SSEConnectionManager.js`) | connection, replay queue, batch, transcript and turns | connect, drop, retry, replay, drain, batch, reconnect, close | The transcript is what the connection sent, in its order, whatever is reset when; it catches up |
| Runtimes, conversion, CLI, the rest of the frontend | see PROJECT.json | | |

**Interactions.** The daemon session service calls the container registry,
whose entries the monitor also writes; the session service posts session starts
over HTTP to the container's session registry, and the monitor reads that
registry's report back. A session of the container owns a pipeline; the
pipeline's events go to the log and through the broadcaster to the
subscribers, and are folded into the session's record, `session.json`, which the
daemon writes too. A turn's end makes a session stop its own registry entry.

**What is hard.** Listings, probes and runtime calls whose answers are applied
after the entry changed; operations cancelled between two awaits while their
threads run on; objects that an operation still holds after the registry
replaced them; tasks that stop an id and not an object; a lock that one of two
writers does not take; a file that two processes read, change and write back. `PROJECT.json` lists each hazard at its line.

## 2. Modules

| Module | Models | Composition |
|---|---|---|
| `ContainerRegistry` | the container registry and the health monitor, over an external runtime and external session APIs; create/resume/fork as far as they touch it | theorems in `ContainerRegistryProofs` |
| `SessionRegistry` | one container's keyed sessions | `SessionRegistryProofs` |
| `KeyedSingleFlight` | the shared resumes | proved in `SessionResumeProofs` |
| `SessionResume` | resuming and forking sessions over several containers | extends `KeyedSingleFlight`, whose jobs are its resumes; `MCSessionResume`, `SessionResumeProofs` |
| `EventDelivery` | abstract: what a session's stream promises | |
| `EventPipeline` | the pipeline, its log and its subscribers | implements `EventDelivery`; `MCEventPipeline`, `EventPipelineProofs` |
| `ConsumerRepair` | which pipeline consumes a session's stream, over repairs, restarts and the registry's stop | `MCConsumerRepair`, `ConsumerRepairProofs` |
| `StreamView` | a tab's transcript of the session it addresses, over the session's log and broadcasts | `StreamViewProofs` |
| `WorkspaceLoads` | the daemon's workspaces: registry, services, loads in flight | `WorkspaceLoadsProofs` |
| `SessionRecord` | a session's `session.json` and its writers | `MCSessionRecord`, `SessionRecordProofs` |

### ContainerRegistry

An entry of `reg` is a `Container`: status, whether its port is known, owner
(`session_id`), `members`, the live set last reported, failures, and whether its
startup budget has passed (`aged`, for comparisons with `created_at`).
`fresh`, `spawning` and `sync.written` are `_freshly_adopted`, `_spawning` and
`_written_during_sync`. A reconcile is four steps (`SyncStart`, `SyncList`, then
port lookups, `SyncApply`, then the save, `SyncDone`), because writes may fall
before, between and after them.

Python operations keep the object they looked up. Rather than modelling object
identity, `stale` names the references (a stop or kill, the probe under way, the
list a poll still walks, a spawner) whose object the registry has replaced or
dropped; a write through such a reference changes nothing in `reg`. What a stale
object's fields are is then unknown, so its reader may go either way.

A stop is `StopBegins`, the runtime call (`SignalLands` or `SignalFails`) and
`StopEnds`; a removal goes on with `RemoveLands`/`RemoveFails` and `RemoveEnds`.
The same actions serve a client, the monitor's reap and the cleanup of a failed
spawn; an actor is in one call at a time.

`Mint`, `Launch`, `SpawnFails`, `Register` and the `Holder` actions are `create`
and the session operation around it. `podman run` may still start its process
after the caller was cancelled: `abandoned`. `SaveFails` is a create that ends
after it registered the entry and before its caller knows the id: the claim of a
create without a session is nobody's then (`forgotten`, section 3), and
`UnreachableIsReaped` leaves such a container out. `Joins` and `Rehomes` are the other
writers of an entry, a shared and a reusing fork (and a side thread's resume);
the session start they post is served later by the container (`ApiStarts`) or
fails.

`PollTimesOut` is the poller's cancellation, possible at any point; the runtime
call it cuts off runs on in its thread, so its effect may still come.

Abstractions: ports are known or not; the workspace loop of `_poll` is one
workspace; a flight's completion and the monitor's resumption are one step;
failures saturate at `MaxFailures`; `_adopt` is `SessionResume`'s, and the
registry's file is left to a later module (section 7).

### SessionRegistry

`entries`, `primary`, `lock` are the Python fields; `Service` keeps of a
`SessionService` whether its turn-complete callback is wired (`auto`), already
scheduled (`sched`) and whether its connect failed. `due` and `ending` are the
tasks a turn's end creates, before and inside their `stop_session`. `leaked` is
a history variable: services that still run though an entry was built over
theirs. `SessionService.start` awaits nothing that yields, so building and
registering is one step (`Builds`), and it may raise.

### KeyedSingleFlight

`flights` maps a key to a job; a job counts its callers. A settled job's done
callback (`Releases`) runs in a later turn of the loop than its end
(`Finishes`), and a cancelled job may still finish normally.

### SessionResume

A flight's job is `_resume_primary`, and its steps are conjoined with the flight's:
`Resumes` starts it, `Ends` settles it, every other step leaves `vars` alone
(theorem `Implements`). `task` says where each resume and each fork's container
phase stands, `lock` who holds each of `_session_locks`. `TakesLock` to `AdoptsOther`
are `_resume_primary` and `_adopt` up to the start or the spawn; `ForkWaits` to
`ForkPosts` are `fork` from where the child's record is on disk; `Launches` to
`Completes` are what `_resume_primary` spawns and `_start_session_in` starts; then
every way out of them. A container is a process (`proc`), the primary session of the API in it
(`primary`), the session starts posted and not yet served (`posts`, which outlive
the caller that gave up waiting) and its registry entry (`status`, `owner`).

The registry's own writers are there as single steps (`Listed`, `Probes`,
`GivesUp`, `Deletes` with `Stopped` and `Removed`): what a listing or a probe does
when its answer is stale is `ContainerRegistry`'s subject. Two histories name what
the code does not promise:

- `doubted`: containers that the monitor gave up, that are being stopped, that a
  fork took over, or that a start was posted to by somebody who left. Their
  process may live on with a session in it while nobody finds it for that session
  (`find_by_session` takes STARTING and RUNNING only).
- `unguarded`: sessions spawned for without a lookup that found nothing. These are
  the child of a fork that still waits for its source's lock (finding
  `ForkTwice`), and a session whose container reported another one:
  `_adopt` then answers no, and `_resume_primary` spawns without looking again.

`OneHome` says that these are all: two containers have one session only if one of
the two is doubted or the session unguarded. A resume's own listing can flip a
container that is being stopped from STOPPING back to RUNNING, so it may return
one about to be removed; such a container is doubted.

Abstractions: members and side threads are left out (a container has its primary
only); object identity and a reconcile's stages are `ContainerRegistry`'s; starting
the primary in a container is one step; a lock that is free is taken
without yielding, as asyncio's is; processes that `podman run` starts after its
caller was cancelled, and the reaping of ownerless containers, are
`ContainerRegistry`'s.

### EventPipeline and EventDelivery

`phase` is `_initialized` and where the initialiser stands; `worker` the event
each task is in `_process_event` with. An append is a write, a flush
(one flush takes along what others wrote) and the broadcast. `Rebuilds` is
`_ensure_pipeline_alive`'s replacement over the same log and subscribers: it may
cut appends off whose bytes did or did not reach the file. `EventDelivery` says
what a subscriber may rely on: an event is on disk before anyone is told, an
attached subscriber has been told of everything published. Subscribers that
attached while a pipeline over a non-empty log was initialising are excluded by
the refinement mapping (`early`), because for them the promise fails: they are
replayed the buffer and none of the history (section 3).

Abstractions: logs and views are sets, so order and duplicates are not
expressed; the old pipeline's stop and the new one's construction are one step.

### ConsumerRepair

A pipeline is created, starting (initialising, if it resumes), running, dead, or
dead with its stream lost. `at` says where each send and the registry's stop stands.
A send that finds the pipeline dead takes the repair lock, looks again (`Locks`), and
stops the dead one, builds a replacement (`Replaces`) and starts it (`Replaced`,
`ReplacementFails`), or restarts the session if the stream was lost. Every send that is
not refused then comes to `_ensure_stream_healthy` (`Proceeds`), which may restart the
session, and does not take the lock; nor does the registry's stop (`RegistryStops`).
`stop` is cut at its awaits: the session's own start is cancelled (`CancelsStart`), the
pipeline that is there is told to stop (`StopsPipeline`), whichever is there when it has
is dropped (`DropsPipeline`), the runtime is disconnected (`RegistryStopped`, or a
restart's `RestartStarts`). It does not undo a start that is still initialising, which
is what `Runs` and `Replaced` say. The history `torn` holds the pipelines that a stop or
restart without the lock took out of `_event_pipeline`: a repair's replacement that is
torn off goes on to start and to run, and is not the session's any more.

Abstractions: a restart's `start` does not raise; the registry stops a session once,
because it builds a new `SessionService` for each start, and no send comes to a
session it is stopping; the id a replacement resumes is known when its pipeline or,
through the projection, any other has one (`CanResume`).

### StreamView

`log` and `sent` are the session's side: an event is appended, then broadcast.
A connection is described by what it attached with (`snap` events on disk, `base`
already broadcast) and by how many messages the tab has received of what it
sends: the mark `replay_started`, the log, the mark `replay_ended`, then the
broadcasts. `replayBuffer`, `replayScheduled`, `replayServerDone`, `isReplaying`,
`eventBuffer` and `batchTimeout` are the refs of `EventsProvider`; `posted` counts
the port messages under way, which a reset cannot take back. `events`,
`grouping` and `replayReplace` are the reducer's `events`, `turns` with the
grouping state, and `_replayReplace`. An event's data is its kind and its
place in the log; kinds are what `replaySliceEnd` and `appendTurns` tell apart
(`KindIn`), and `AppendEach` is the step of the fold that `AppendTurns` is.

Abstractions: the effect of `useSSE` that reopens the connection under a new URL
is taken with the caller that changed the address; a retry, a second or more
away, comes after a batch's 50 ms; a log opens with a user's message; flags,
indexes and nested events are left out of the transcript.

### WorkspaceLoads

`saved` is the registry file, `config` the `workspaces` list of every
`DaemonConfig` object and `current` the one `_daemon_config` is: a lookup that
finds nothing and every listing read the file into a new object, while the
threads of a registration or a removal go on with the one they caught. A
load is `repairing` (the marker, in a thread), `repaired`, `starting`, then
`done` or `failed` until its callbacks run (`Finishes`). A service remembers
whether its directory was there when it was built (`available`) and whether its
sessions are those below that directory (`own`); a directory without a marker
of its own belongs to the workspace around it.

A request's `pc` says where it stands: `marked` (register: the marker is
written), `removing`, `saving`, `changed` (the registry is written),
`awaiting`/`evicting`/`stopping` (inside `_evict`), `waiting` (for a load),
`walking` (a listing between two loads).

Abstractions: two names that collide, a save that fails, the daemon's own start
and stop and the sub-services of a workspace are left out; a lookup or a listing
is cancelled only while it waits, where cancelling makes a difference.

### SessionRecord

`disk` is `session.json`. A `Projection` is an object: `mem`, `dirty` and `timer` are
its `_value`, `_dirty` and `_save_timer`, `due` a task of its `_async_save` that has not
run, and `cur` is the one the session has. Each start (`Starts`), and each repair of a
consumer in a session that goes on (`Rebuilds`), builds another (`Inits`,
`_handle_init`) from the record on disk, or from the log if there is no record. The one
before is neither flushed nor stopped: its timer fires, and its writes land, as before
(`Fires`, `Dispatches`, `Lands`). An object's name is used again once it has no timer and
no write left.

`op` says what each actor is doing with the record: a thread of the pool or the
container's loop saves (`_write`: `Reads`, `Merges`, `Dumps`, `Lands`) or only refreshes
the daemon's fields (`Reads`, `Merges`), the loop's promotion and the daemon amend
(`SessionRepository.update`: `Reads`, `Lands`). The steps of the loop's own write are
apart because the pool and the daemon go on during them; the loop itself does
nothing else (`LoopFree`). `Lands` is the rename, so a reader sees a whole record, and
for an event the `schedule_save` after it.

An event is appended to the log over awaits (`Appends`, `pipeline.py:575`), is then
`pending`, and its handler folds it after its broadcast (`Folds`, `session.py:1217`).
In between its task may be cancelled by a stop or by a repair's stop of the task
monitors, or its handler may raise (`Cut`): the log has the event then and no summary
will count it.

Of a record the model keeps how many events its summary counts (`turns`, `None` in a
record that only the daemon has written, which the projection does not take for the
session's) and which changes of the daemon's fields it holds (`marks`). Four histories:

- `owed`: the events on the log that a summary should count once their handlers have
  folded them (`Counted` are those folded). A crash, a `Cut`, and a projection replaced
  before its counts were on disk take from it what they cost, because the code counts
  it nowhere.
- `landed`: the changes of the daemon's fields that reached the disk.
- `crossed`: a write landed while another was under way that had read or dumped before
  it, and will take it back. No lock spans the two processes, or the loop and the pool,
  so the code does not prevent that; finding `LastWord` is one such crossing that a
  comment says cannot matter.
- `stale`: the last save on disk is a replaced projection's. What it lacks of the
  current summary reaches the disk with that one's next save only.

The properties say that nothing else loses anything. What is excused is what the code
does lose, section 3 lists it, and each excuse is set by one step of the model: a write
that is crossed, an `Inits` over unsaved counts, a `Cut`, a crash.

Abstractions: which fields an event changes, failed writes, throwaway projections and
the record a fork seeds are left out; the daemon updates one session at a time.

## 3. Runs

| Run | Checks | Bounds |
|---|---|---|
| `RegistrySessions` | `TypeOK`, `ReapHitsOnlyUnreachable`, `CrashVerdictOutranksListing`; liveness `UnreachableIsReaped`, `StoppingEnds`, `OwnersSettle` | 1 container id, 2 sessions, 2 failures, no client |
| `RegistryRequests` | `ListingDropsOnlyGone`, `StopOutlivesStaleAnswers` | 1 id, 1 session, 1 client, 1 failure |
| `SessionRegistry` | `TypeOK`, `NoServiceLeaked`, `PrimaryResolves`, `PromotionHolds`; liveness `StartsAreAnswered` | 2 primaries, 2 members, 2 requests |
| `KeyedSingleFlight` | `TypeOK`, `OneRunPerKey`, `NoCallerCancelled`; liveness `CallersReturn` | 2 keys, 3 callers, 3 jobs |
| `SessionResume` | `ResumeTypeOK`, `OneHome`, `ResumedServes` | 2 sessions, one made by the fork, 2 callers, 2 resumes, 2 containers; one mishap (`OneMishap`) |
| `EventPipeline` | `TypeOK`, `NoEventMissed`, `SourcesNotMixed`, `Delivers` (refinement); liveness `EventsArrive` | 2 plain events, 1 nested with 2 copies, 2 tasks, 1 subscriber, a log that is empty or holds one plain and one nested event |
| `ConsumerRepair` | `TypeOK`, `RepairsDoNotOverlap` | 4 pipelines, 2 sends and the registry's stop |
| `WorkspaceLoads` | `TypeOK`, `StaleViewsAreEvicted`, `NoServiceLeaked`; liveness `RequestsAnswered`, `ReturnedDirectoriesServed` | 1 workspace inside another, which may vanish, 2 clients, 1 listing, 4 registry objects |
| `StreamView` | `TypeOK`, `TranscriptFollowsStream`, `ReplayGroupsAsWhole`; liveness `TranscriptCatchesUp` | 2 sessions, 4 kinds, 4 events written, slices of 2, 1 retry, 2 connections opened or lost |
| `SessionRecord` | `TypeOK`, `MarksSurvive`, `CountsKept`; liveness `EventsReachDisk` | 2 projections at once, 1 rename, 1 promotion, 2 threads, 2 events, a log that is empty or holds an event without a record; nothing follows a crossed write (`Uncrossed`) |

One container id is enough for what the registry's properties say: each is about
one entry, entries share only the listing and the monitor's walk, and two sessions
are what a fork and its source need. What needs two ids at once is
`SessionResume`'s: there two containers are what a session must not have, and two
resumes with a fork between them are the fewest that contend for one lock. Its
constraint leaves out what follows two mishaps: a container that is down or doubted
(with two of them `OneHome` is vacuous), a child unguarded, a resume that is shared
(`KeyedSingleFlight` has these in full). Jobs, callers and containers are
interchangeable, and so are `ConsumerRepair`'s sends and its pipelines but the first.
Two sends are a repair and another repair, or a restart, across it; four pipelines are
the session's first and three replacements or restarts. For `SessionRecord` two
projections are the session's and one that was replaced with its saves to come; a
crossed write excuses all three properties for good, so what follows one is not
explored. The
theorems remove these bounds for the safety properties.
`KeyedSingleFlight`, `SessionResume` and `ConsumerRepair` turn off deadlock
checking: their jobs, containers and pipelines are finite in number, and a run that
used them all stops.
`SessionRegistry` does too, because it stops after its shutdown.

Runs that find the code and its documentation to disagree (`PROJECT.json`,
`findings`, has the quotes):

| Run | Claim | What happens |
|---|---|---|
| `ForkTwice` | resume and fork's container phase are serialised per session | a fork waiting for its source's lock has its child on disk already: a resume of the child spawns for it, and the fork spawns again |
| `LastWord` | an older snapshot in flight never has the last word | an immediate save cancels the debounced one that was to follow it, and the older write lands last |

Two more are stated in their modules and have no run. `OneConsumer`
(`ConsumerRepair`; `session.py:779` says an unguarded check "lets two concurrent sends
build two consumers"): the session's own first start is not under the repair lock, so
a send that comes while it initialises finds the pipeline not alive and builds another,
and the first then runs as well. Nor are the restart of `_ensure_stream_healthy`
(`session.py:860`) and the registry's stop: one that comes while a replacement is
starting drops it from the session, and the replacement then runs beside the pipeline
that the restart builds, or after the session has stopped (`torn`). `DeregisteredStaysOut` (`WorkspaceLoads`;
`claudebox_daemon/domain/service.py:133`, "Remove a workspace from config and evict it
from the map"): a listing walks the registry it read before a removal and loads the
workspace again after its eviction. Checked as invariants, the first under
`ConsumerRepair.cfg`'s constants and the second with two workspaces, one client and a
listing, TLC finds both violated.

More were met and have no run. A rename or promotion that lands while a save is
between reading the daemon's fields and writing is taken back by it (`projection.py:328`
refreshes them before each save, which narrows the window), and an update that copied
the summary before a save puts the older one back (`session/repository.py:113`); both
are `crossed` in `SessionRecord`. A repair of the consumer builds a new `Projection` from
the record (`session.py:1118`) without flushing the old one or cancelling its timer: counts
not saved yet drop out of the running summary, and the old one's save may later land over
the new one's (`stale`). A stop that cancels an event's task between its append and its fold
(`pipeline.py:575`) leaves it in the log and in no summary, since a record on disk is not
replayed (`Cut`). `ARCHITECTURE.md:947` says `/api/stream` "replays
persisted history"; a subscriber that attaches while a resumed pipeline
initialises gets the buffer only (`pipeline.py:207`). A tab that drops and restores its
connection is meant to read the conversation once; one attached between an event's
append and its broadcast is sent that event twice (`pipeline.py:575`). A spawn's claim
is meant to be dropped once its operation has settled; a create that fails or is
cancelled while its entry is saved leaves it (`containers/service.py:342`), and a
container created without a session is then never reaped. `claudebox_daemon/domain/sessions/service.py:112` says
`members` keeps stopped threads for ever; a create that takes over an adopted entry
keeps its fresh mark, and the first probe rewrites the list with the live set.
`containers/service.py:437` drives a container "through STOPPING -> STOPPED"; a
reconcile that begins in between puts RUNNING back. A fork that reuses its source's
container writes the owner before the container is told (`sessions/service.py:991`);
a probe answered in between reverts it until the next poll, which `OwnersSettle` bounds. `config.py:103` saves the
object a registration or a removal caught, as a whole: a reload in between, and the
change saved first is lost with the second (two workspaces are enough). `claudebox_container_api/session.py:27`
says "Exactly one entry is primary"; a primary start that fails after stopping the old
one leaves members without any. The same comment says the
primary is "fixed at the first start, never reassigned by a later one", while
`start(primary=True)` (line 83) replaces it. `core/concurrency.py:47` says a call
joins "the run already under way"; `KeyedSingleFlight.run` has no `done()` check,
so a call between a job's end and its callback is handed the finished result.

Each module keeps, next to the definition it would replace, the plausible slips
its properties are there for (comments that begin "Slip"); each property fails
under the slip listed for it in `PROJECT.json`.

## 4. Fairness

- `ContainerRegistry`: every task of the loop is run on and the poller polls for
  the daemon's whole life (weak fairness per task step). The runtime, the
  network and the poll's timeout may fail any number of times, but not for ever:
  `<>[][~Faults]_vars`. A step counts as a fault only if no undisturbed step has
  the same effect. Without that assumption, an orphan need never be reaped, and the
  code does not claim it would be. No fairness on requests, forks or exits.
- `SessionRegistry`: services' stops end and created tasks run; the lock is
  asyncio's, which wakes its waiters in order, hence strong fairness of taking it.
- `KeyedSingleFlight`: jobs end, callbacks run, callers are woken.
- `StreamView`: while a message can be sent or handled, one is (weak fairness of
  their union, enough because the log is finite). Nothing is asked of
  connections or callers: `TranscriptCatchesUp` speaks of a connection that holds.
- `WorkspaceLoads`: tasks of the loop and threads of the pool go on, so every build
  ends or fails and every request goes on. Nothing is asked of requests or
  directories; `ReturnedDirectoriesServed` assumes that directories and the registry
  settle, that listings come again and that loads do not fail for ever.
- `SessionRecord`: threads and loops go on (weak fairness of each actor's write), and
  a loop takes its timers and tasks in turn, however busy it is kept: strong fairness of
  `Fires` and `Dispatches`, for each projection. Nothing is asked of events, updates,
  stops, starts or repairs.
- `EventPipeline`: the initialiser and the tasks go on, and an initialisation that
  is tried again and again succeeds (strong fairness of `Opened`). Appends may
  fail and consumers die at any time; `lost` keeps what that took.

## 5. Proofs

`tlapm` proves, for every value of the constants under the named assumptions
(ids, sessions, clients and `None` are distinct; `MaxFailures` is positive;
history is deduplicated; the flusher is a task; there is a projection; the registry is no send; callers of a single flight are
finite in number; no session is started as primary and as member in one container;
a fork's child is a session, a resume is not):

- **`ContainerRegistryProofs`**: `Typing` (`TypeOK`), `Reaping`
  (`ReapHitsOnlyUnreachable`), `ListingDrops`, `StopsLast`, `CrashVerdictsStand`
  (the action properties), and `ClaimsEnd`.
- **`EventPipelineProofs`**: `Typing`, `Delivering` (`NoEventMissed`),
  `Deduplication` (`SourcesNotMixed`), `Refinement` (the pipeline implements
  `EventDelivery`), `PromiseKept` (what `EventDelivery` promises, `Complete`, follows
  from its own steps and so holds of the pipeline) and `Accounting`.

- **`SessionRegistryProofs`**: `Typing`, `NoneLeaks` (`NoServiceLeaked`),
  `Resolution` (`PrimaryResolves`), `Promotion` (`PromotionHolds`), `Unseating`
  (`OnlyStartsUnseat`: a stop or an auto-stop that ends late does not) and `Settling`.
- **`SessionResumeProofs`**: of the single flight, `SingleFlight` (`OneRunPerKey`),
  `LeavingIsPrivate` (`NoCallerCancelled`) and `NoneRunsUnwanted` (a job nobody waits
  for is cancelled); of the resumes, `Implements` (every step is one of the single
  flight's, or leaves it alone), `ResumeTyping`, `HomeAlone` (`OneHome`), `Serving`
  (`ResumedServes`) and `LocksFree`, for any number of sessions, resumes, forks and
  containers.
- **`StreamViewProofs`**: `TypeCorrect`, `FollowsStream`
  (`TranscriptFollowsStream`), `GroupsAsWhole` (`ReplayGroupsAsWhole`) and `WakesUp`,
  for any sessions, slice sizes and bounds.
- **`WorkspaceLoadsProofs`**: `Typing`, `StaleEvicted` (`StaleViewsAreEvicted`) and
  `NoneLeaks` (`NoServiceLeaked`), for finitely many requests and more registry
  objects than requests.
- **`SessionRecordProofs`**: `Typing`, `MarksKept` (`MarksSurvive`), `Counting`
  (`CountsKept`), `Remembering` and `LastFlush`, for any renames, promotions, threads,
  projections and number of events.
- **`ConsumerRepairProofs`**: `Typing` and `OneRepairAtATime`
  (`RepairsDoNotOverlap`), for any number of sends and pipelines, whenever the session is
  stopped or restarted outside the lock.

Some of these state no property of a run. Each is the part of a liveness property, or
of the absence of a deadlock, that needs no fairness: there is always something that
will bring the matter on, and fairness is only asked to let it. They are defined where
they are proved.

| Theorem | States | Behind |
|---|---|---|
| `Accounting` | `NoneStranded`: an event handed to the pipeline, or its other copy, is broadcast, with a task or in a buffer still to be flushed, unless a failed append or a replaced consumer took it along | `EventsArrive` |
| `Remembering`, `LastFlush` | `NoneForgotten`: while a record is behind the summary, no write was crossed and none of a replaced projection's was the last, its save is scheduled or under way; `StopsSaved`: under the same conditions the record of a stopped session whose saves are over has all that was folded | `EventsReachDisk` |
| `WakesUp` | `NoWakeupMissed`: while the replay queue has something to give, or a replay that has arrived is to be ended, a drain is under way | `TranscriptCatchesUp` |
| `Settling` | `SettlesOnce`: a start under the lock waits for one task and one stop, which do not come a second time | `StartsAreAnswered` |
| `ClaimsEnd` | `ClaimsInCharge`: each claim that keeps the monitor off a container has an operation under way that is to drop it, but for the forgotten ones of section 3 | `UnreachableIsReaped` |
| `LocksFree` | `NoLockCycle`: no circle of resumes and forks waits for its own locks | (`SessionResume` has no liveness run) |

Hardly any of these is inductive by itself. For the registry the invariant `IInv` adds:

- `RefsHold`: an operation whose reference is not stale finds its entry
  registered. Without it a stop's end could write where there is nothing.
- `UnlaunchedUnknown`: before `podman run` nobody knows the id.
- `ListedAbsent`, `ListedStopped`: what a listing saw and nobody has written
  since still holds, or a stop is about to mark it. This is what
  `_written_during_sync` is for and carries the two listing theorems.
- `ClaimsCover`, `HeldOwned`: until an owner is recorded the claim covers the
  container, afterwards the owner does. Together with the guard of
  `reap_orphan` they give `Reaping`.
- `ReapsAreThePolls`: the monitor is inside a call only during its reap.

`ClaimsLimited` is for `ClaimsEnd`: a create that named its session gave its claim up
when it registered, so only a spawn in one of the listed phases has one.

For the pipeline, `AppendsLand` (what is past its flush is on disk, what is
published is logged), `QuietUntilOpen` (nothing is being appended before the
pipeline is open), `ClaimsHold` (every copy logged, pending or being written
has its key claimed by its source) and `ViewsAttached`. `ClaimsAccounted` (a claim is
of an event that is accounted for) is what `NoneStranded` needs where an event is
dropped in favour of its other copy.

For the session registry, `PrimaryAlone` (of the sessions started as primary only
the primary has an entry, and none while one is being replaced), `RequestsFit`
and `MembersEnd` (stops and auto-stops in flight are of members, so none can
unseat the primary) and `ShutdownAlone`. For the single flight, `Counted` (a
flight's count is the number of callers waiting for it, from the library's facts
about cardinality), `RunsHoldKeys` and `FlightsJoinable`. For the repair,
`StartsAwaited` (a replacement is starting only while the send that built it waits for
it under the lock), `FoundDead` (until the lock's holder has built its own, the only
replacements that consume are torn off), `OwnTask` and `ReplacementsStart` (a cancelled
task takes no replacement along, and no task starts one). A stop or a restart outside
the lock keeps `FoundDead` because all it takes from the session goes to `torn`.

For the resumes, everything is about the containers nobody doubted. `Sound`: such a
container keeps the owner it was registered with, and runs that session or none.
`Placed`: a task that spawns does so where no such container was to be found, and
one past its registration holds the container that is its session's. `Pending`: at most
one start is posted there, and somebody waits for it. `LocksHeld` and `LocksOwed` tie
the phases to the locks, so that two tasks in these phases are never about one
session; `Homes` (no two such containers are found for a guarded session) then
follows at the one step that could break it, `Registers`. `Unmade` says why a fork
need not look: a child whose fork has not got its locks has no container, unless it is
unguarded. For `LocksFree`, the forks have a rank each, the order in which they began
(`Begun`): a fork has a source that was there before it, and takes that one's lock
first. Only forks wait for a lock while they have one, so a chain of such waits goes
from source to child and ranks grow along it.

For the tab, `ReplayQueues` (the queue is empty and the mark consumed unless a
replay is on, and the batch empty while one is), `BatchDue` and `FreshLink` (a
connection that attaches finds no batch of the one before it).

`ReplayGroupsAsWhole` is about what `appendTurns` computes from a batch, event after
event. It folds the batch, by a recursive function, so three things are proved of it first: it takes a concatenation in
two goes (`AppendTurnsConcat`), it does not depend on what was appended to the log since
(`AppendEachSame`), and outside a run of the same kind it leaves nothing pending. The
prover has no induction over data; the lemmas get theirs from the least index at which a
fold would differ, which the library's theorem on the well-founded order of the naturals
provides (`LeastOfMany`, `Induction`). `SliceEnds` says that `replaySliceEnd` ends a
slice outside a run, or with the last of the replay. The second invariant, `GInv`, then
carries it through the drains: what is queued is of the log (`QueuesLogged`,
`LogAhead`), the replay ends with all that was on disk shown (`ReplayShown`), and up to
there the turns are those of one pass, with nothing pending between slices
(`GroupedSoFar`). `DrainDue` is the part for `WakesUp`.

For the workspaces, `BuildsAlone` (a build is on only where no service runs),
`StoredViews` and `BuiltViews` (a service of another directory, in the map or
being built, has the registration that wrote the marker still before its
eviction: it must wait for the build) and `RequestsFormed`.

For the record, `Objects` (whatever is saved has counts, and the loop saves the
session's own projection) holds throughout, and the rest as long as no write was crossed.
`MarksHeld`: whoever holds the daemon's fields, on the way to memory or to the disk, holds
all that landed, which projection it saves notwithstanding. `CountsHeld`: the session's
summary counts what it should (`Counted`), no save of it more than that, and an update
under way copies the counts on disk. `SaveAhead`: the latest is on disk, or a save of it
is coming (`Coming`) or due, or a replaced projection's landed over it; and behind a save
of an older summary there is another one. It is what `Inits` needs, which reads the
summary back from the disk: either the disk has it, or what is unsaved is written off.
`Scheduled` (a projection that is dirty has its timer or its task) holds even without
those assumptions and turns `SaveAhead` into `NoneForgotten`.

Each proof has one step per action and, where several actions disturb a
conjunct in the same way, a lemma for the effect they share (`EntryChanges`,
`CallsMove`, `SyncMoves`, `ListingApplied`, ...).

Every invariant and every action property that a passing run checks is proved, and so
is the refinement. Only model-checked: the liveness properties (fairness and ENABLED are
beyond the prover), whose parts without fairness are in the table above, and the two
violations of section 3, which are counterexamples.

## 6. What is not modelled

See `components` in `PROJECT.json` for each part and its reason. In short: text
analysis (conversion, shell classification, ticket parsing), adapters over
external SDKs, the CLI's terminal handling and the frontend's rendering are left
out: their inputs are strings and their steps sequential, so a bounded check says little
of them. The registry file, turn ids, background tasks, the spawn
socket, boards and UI state keep state that can be modelled and are not yet (section 7).

## 7. Plan

1. `ContainerRegistry`, `SessionRegistry`, `KeyedSingleFlight`, `EventPipeline`
   over `EventDelivery`, `ConsumerRepair`, and the proofs of their safety: done.
2. `DurableRegistry`: the registry file, saves on a pool and a daemon restart
   over `ContainerRegistry`; `io`'s atomic writes and torn tails. Property: after a restart
   every container in use resolves, or is reaped.
3. `SessionResume`: done. Left of the daemon's sessions: a member's start in a shared
   container against its primary's resume.
4. `_ensure_stream_healthy`, restart and stop without a lock: done in `ConsumerRepair`
   as far as the pipelines go. Left: which runtime each of them reads, and the stall
   watchdog.
5. `SessionRecord` (session.json written by two processes): done. `TurnTracker`,
   `AsyncTasks` (offsets and reattachment): left.
6. `WorkspaceLoads` and `StreamView`: done. Left: `SpawnDepth`, serving and watchdog,
   boards, UI state.
7. The safety of each module above is proved, and what its liveness leans on; liveness
   itself stays with TLC.

------------------------- MODULE ContainerRegistry -------------------------
(***************************************************************************)
(* One workspace's container registry in the claudebox daemon:             *)
(* ContainerService (domain/containers/service.py) and the HealthMonitor   *)
(* (domain/health.py) that probes its entries, over a container runtime    *)
(* and per-container session APIs that are external to them.               *)
(*                                                                         *)
(* The daemon is one asyncio loop, so the code between two awaits is one   *)
(* action.  Everything a listing, a runtime call or a probe learned is     *)
(* applied in a later action than the one that learned it.                 *)
(*                                                                         *)
(* An operation keeps the Container object it looked up, while the entry   *)
(* of that id may be replaced or dropped meanwhile.  `stale' holds the     *)
(* references that no longer are the registered object; what is written    *)
(* through one of them is invisible in the registry.                       *)
(***************************************************************************)
EXTENDS Naturals, FiniteSets

CONSTANTS
    Id,           \* container ids: the bound on how many are ever minted
    Session,      \* session ids
    Client,       \* requests that stop or delete a container by its id
    Monitor,      \* the health monitor's task
    None,         \* Python's None
    MaxFailures   \* CONTAINER_HEALTH_MAX_FAILURES

ASSUME ActorsDistinct == /\ Monitor \notin Client \cup Id
                         /\ Client \cap Id = {}
ASSUME NoneIsNoId == None \notin Id \cup Session
ASSUME MaxFailuresPositive == MaxFailures \in Nat \ {0}

VARIABLES
    rt,        \* the runtime's process of each id; "stopped" was ended by a
               \* stop or kill whose caller waits for it or was answered
    api,       \* the session registry inside each running container
    posts,     \* session starts posted to a container and not yet served
    reg,       \* _containers
    fresh,     \* _freshly_adopted
    spawning,  \* _spawning
    spawn,     \* the create/resume/fork operation that minted each id
    sync,      \* the reconcile in flight and _written_during_sync
    op,        \* the stop, kill or remove each actor is inside
    mon,       \* the monitor's poll
    stale      \* references to objects the registry no longer holds

vars == <<rt, api, posts, reg, fresh, spawning, spawn, sync, op, mon, stale>>
external == <<rt, api, posts>>

-----------------------------------------------------------------------------
Status  == {"starting", "running", "stopping", "crashed", "stopped"}
Live    == {"starting", "running"}              \* what find_by_session matches
Probed  == {"starting", "running", "crashed"}
Process == {"absent", "running", "exited", "stopped"}
Actor   == Client \cup {Monitor} \cup Id        \* an id acts for its spawner
Ref     == Actor \cup ({"poll", "spawn"} \X Id)
Owner   == Session \cup {None}

Entry == [status : Status, port : BOOLEAN, owner : Owner,
          members : SUBSET Session, live : SUBSET Session,
          failures : 0..MaxFailures, aged : BOOLEAN]

ASSUME NoneIsNoEntry == None \notin Entry
ASSUME RefsDistinct == Actor \cap ({"poll", "spawn"} \X Id) = {}

Report == [primary : Owner, live : SUBSET Session]
Post == [id : Id, sid : Session, primary : BOOLEAN]
Spawner == [pc : {"unminted", "launching", "abandoned", "launched", "held", "started",
                  "minted", "cleaning", "forgotten", "settled"}, owner : Owner]
Listing == [pc : {"idle", "listing", "listed", "saving"},
            seen : [Id -> {"absent", "running", "exited"}], written : SUBSET Id]
Call == [pc : {"none", "signalling", "signalled", "removing", "removed"},
         id : Id \cup {None}, then : BOOLEAN]
Polling == [pc : {"idle", "syncing", "polling", "probing", "answered", "deciding", "reaping"},
            todo : SUBSET Id, cur : Id \cup {None}, before : Status, answer : Report]

NoSession == [primary |-> None, live |-> {}]

NewEntry(status, port, owner) ==
    [status |-> status, port |-> port, owner |-> owner, members |-> {},
     live |-> {}, failures |-> 0, aged |-> FALSE]

Idle == [pc |-> "none", id |-> None, then |-> FALSE]
NoSync == [pc |-> "idle", seen |-> [id \in Id |-> "absent"], written |-> {}]
NoPoll == [pc |-> "idle", todo |-> {}, cur |-> None, before |-> "stopped",
           answer |-> NoSession]

Init ==
    /\ rt = [id \in Id |-> "absent"]
    /\ api = [id \in Id |-> NoSession]
    /\ posts = {}
    /\ reg = [id \in Id |-> None]
    /\ fresh = {}
    /\ spawning = {}
    /\ spawn = [id \in Id |-> [pc |-> "unminted", owner |-> None]]
    /\ sync = NoSync
    /\ op = [a \in Actor |-> Idle]
    /\ mon = NoPoll
    /\ stale = {}

-----------------------------------------------------------------------------
(* Helpers.                                                                *)

Registered(id) == reg[id] # None
StatusIn(id, S) == Registered(id) /\ reg[id].status \in S

\* Slip: a write is not told to the listing in flight.
MarkedNever(s, id) == s

\* _mark_written: only while a listing is between its start and its apply.
Marked(s, id) ==
    IF s.pc \in {"listing", "listed"}
    THEN [s EXCEPT !.written = @ \cup {id}]
    ELSE s

\* Every reference an operation holds on an object of the ids in D.
RefsTo(D) ==
    {a \in Actor : op[a].id \in D /\ op[a].pc \in {"signalling", "signalled"}}
    \cup ({"poll"} \X (D \cap (mon.todo \cup {mon.cur})))
    \cup {<<"spawn", id>> : id \in {d \in D : spawn[d].pc \in {"held", "started", "minted"}}}

\* The operation that minted the id is not settled.
InFlight(id) == spawn[id].pc \in {"launching", "launched", "held", "started",
                                  "minted", "cleaning"}

\* The session is named nowhere yet: a freshly minted id.
Unused(s) ==
    /\ \A id \in Id :
        /\ spawn[id].owner # s
        /\ api[id].primary # s /\ s \notin api[id].live
        /\ Registered(id) => reg[id].owner # s /\ s \notin reg[id].members
    /\ \A p \in posts : p.sid # s

\* find_by_session, as owner: what decides whether a resume spawns.
OwnerFound(id, s) == StatusIn(id, Live) /\ reg[id].owner = s

\* Slip: the claim is not looked at.
ReapableUnclaimed(id) ==
    /\ Registered(id)
    /\ reg[id].owner = None
    /\ reg[id].members = {} /\ reg[id].live = {}
    /\ reg[id].status \in {"running", "stopped"} /\ reg[id].aged

\* reap_orphan's guard.
Reapable(id) ==
    /\ Registered(id)
    /\ id \notin spawning
    /\ reg[id].owner = None
    /\ reg[id].members = {}
    /\ reg[id].live = {}
    /\ reg[id].status \in {"running", "stopped"}
    /\ reg[id].aged

-----------------------------------------------------------------------------
(* The runtime and the containers' APIs, as the daemon sees them.          *)

\* A process ends by itself; also the late effect of a call nobody awaits.
RuntimeExits(id) ==
    /\ rt[id] = "running"
    /\ rt' = [rt EXCEPT ![id] = "exited"]
    /\ api' = [api EXCEPT ![id] = NoSession]
    /\ UNCHANGED <<posts, reg, fresh, spawning, spawn, sync, op, mon, stale>>

\* A dead container is removed by hand, or by a removal nobody awaits.
RuntimePrunes(id) ==
    /\ rt[id] \in {"exited", "stopped"}
    /\ rt' = [rt EXCEPT ![id] = "absent"]
    /\ UNCHANGED <<api, posts, reg, fresh, spawning, spawn, sync, op, mon, stale>>

\* A container's sessions once it has served a start: a primary one replaces.
Served(r, s, primary) ==
    IF primary THEN [primary |-> s, live |-> (r.live \ {r.primary}) \cup {s}]
    ELSE [primary |-> r.primary, live |-> r.live \cup {s}]

ApiStarts(p) ==
    /\ p \in posts
    /\ rt[p.id] = "running"
    /\ posts' = posts \ {p}
    /\ api' = [api EXCEPT ![p.id] = Served(@, p.sid, p.primary)]
    /\ UNCHANGED <<rt, reg, fresh, spawning, spawn, sync, op, mon, stale>>

PostFails(p) ==
    /\ p \in posts
    /\ posts' = posts \ {p}
    /\ UNCHANGED <<rt, api, reg, fresh, spawning, spawn, sync, op, mon, stale>>

\* A member stops itself once its turn is complete.
ApiMemberEnds(id, s) ==
    /\ s \in api[id].live \ {api[id].primary}
    /\ api' = [api EXCEPT ![id].live = @ \ {s}]
    /\ UNCHANGED <<rt, posts, reg, fresh, spawning, spawn, sync, op, mon, stale>>

\* The startup budget of an entry's object runs out.
Ages(id) ==
    /\ Registered(id)
    /\ ~reg[id].aged
    /\ reg' = [reg EXCEPT ![id].aged = TRUE]
    /\ UNCHANGED <<external, fresh, spawning, spawn, sync, op, mon, stale>>

-----------------------------------------------------------------------------
(* sync_state: one reconcile at a time, shared by whoever asks meanwhile.  *)

\* The monitor, awaiting the flight, goes on to probe what it then lists.
Resumed(m) ==
    IF m.pc = "syncing"
    THEN [m EXCEPT !.pc = "polling", !.todo = {id \in Id : Registered(id)}]
    ELSE m

SyncStart ==
    /\ sync.pc = "idle"
    /\ sync' = [NoSync EXCEPT !.pc = "listing"]
    /\ UNCHANGED <<external, reg, fresh, spawning, spawn, op, mon, stale>>

\* The runtime's listing is taken; port lookups still follow it.
SyncList ==
    /\ sync.pc = "listing"
    /\ sync' = [sync EXCEPT !.pc = "listed",
                  !.seen = [id \in Id |-> IF rt[id] \in {"absent", "running"}
                                          THEN rt[id] ELSE "exited"]]
    /\ UNCHANGED <<external, reg, fresh, spawning, spawn, op, mon, stale>>

SyncListFails ==
    /\ sync.pc = "listing"
    /\ sync' = NoSync
    /\ mon' = Resumed(mon)
    /\ UNCHANGED <<external, reg, fresh, spawning, spawn, op, stale>>

\* Slips: a listing overrules the probe; a listing never ends a stop.
ReconciledAlive(id) == IF sync.seen[id] = "running" THEN "running" ELSE "stopped"
ReconciledUnlessStopping(id) ==
    IF StatusIn(id, {"stopping"}) \/ (StatusIn(id, {"crashed"}) /\ sync.seen[id] = "running")
    THEN reg[id].status
    ELSE IF sync.seen[id] = "running" THEN "running" ELSE "stopped"

\* The status a listing leaves an entry with.
Reconciled(id) ==
    IF Registered(id) /\ reg[id].status = "crashed" /\ sync.seen[id] = "running"
    THEN "crashed"
    ELSE IF sync.seen[id] = "running" THEN "running" ELSE "stopped"

\* _apply_observation, for the port lookups that succeeded.
Observed(id, ported) ==
    LET known == IF Registered(id) THEN reg[id] ELSE NewEntry("running", FALSE, None)
        status == Reconciled(id)
    IN  [known EXCEPT !.status = status,
                      !.port = @ \/ (status = "running" /\ id \in ported)]

Running == {id \in Id : sync.seen[id] = "running"}

SyncApplies(ported) ==
    /\ sync.pc = "listed"
    /\ LET open == Id \ sync.written
           lost == {id \in open : Registered(id) /\ sync.seen[id] = "absent"}
           listed == {id \in open : sync.seen[id] # "absent"}
       IN  /\ reg' = [id \in Id |-> IF id \in lost THEN None
                                    ELSE IF id \in listed THEN Observed(id, ported)
                                    ELSE reg[id]]
           /\ fresh' = (fresh \cup {id \in listed : ~Registered(id)}) \ lost
           /\ stale' = stale \cup RefsTo(lost)
    /\ sync' = [NoSync EXCEPT !.pc = "saving"]
    /\ UNCHANGED <<external, spawning, spawn, op, mon>>

SyncApply == \E ported \in SUBSET Running : SyncApplies(ported)

\* save() is done: the flight settles.
SyncDone ==
    /\ sync.pc = "saving"
    /\ sync' = NoSync
    /\ mon' = Resumed(mon)
    /\ UNCHANGED <<external, reg, fresh, spawning, spawn, op, stale>>

-----------------------------------------------------------------------------
(* stop_container, kill_container and remove: actor a acts on container id, *)
(* `then' says whether a removal follows.                                  *)

\* _signal_to_stopped up to the runtime call; an id not registered raises.
StopBegins(a, id, then, refs) ==
    /\ op[a].pc = "none"
    /\ IF Registered(id)
       THEN /\ reg' = [reg EXCEPT ![id].status = "stopping"]
            /\ op' = [op EXCEPT ![a] = [pc |-> "signalling", id |-> id, then |-> then]]
            /\ sync' = Marked(sync, id)
       ELSE UNCHANGED <<reg, op, sync>>
    /\ stale' = refs \ {a}

SignalLands(a) ==
    /\ op[a].pc = "signalling"
    /\ op' = [op EXCEPT ![a].pc = "signalled"]
    /\ rt' = [rt EXCEPT ![op[a].id] = IF @ = "running" THEN "stopped" ELSE @]
    /\ api' = [api EXCEPT ![op[a].id] = NoSession]
    /\ UNCHANGED <<posts, reg, fresh, spawning, spawn, sync, mon, stale>>

SignalFails(a) ==
    /\ op[a].pc = "signalling"
    /\ op' = [op EXCEPT ![a].pc = "signalled"]
    /\ UNCHANGED <<external, reg, fresh, spawning, spawn, sync, mon, stale>>

\* The rest of _signal_to_stopped, whatever the call answered; remove looks
\* the id up again and raises when it is gone.
StopEnds(a) ==
    /\ op[a].pc = "signalled"
    /\ LET id == op[a].id
       IN  /\ reg' = IF a \in stale THEN reg ELSE [reg EXCEPT ![id].status = "stopped"]
           /\ sync' = Marked(sync, id)
           /\ op' = [op EXCEPT ![a] = IF op[a].then /\ Registered(id)
                                      THEN [op[a] EXCEPT !.pc = "removing"] ELSE Idle]
    /\ stale' = stale \ {a}
    /\ UNCHANGED <<external, fresh, spawning, spawn, mon>>

RemoveLands(a) ==
    /\ op[a].pc = "removing"
    /\ op' = [op EXCEPT ![a].pc = "removed"]
    /\ rt' = [rt EXCEPT ![op[a].id] = "absent"]
    /\ api' = [api EXCEPT ![op[a].id] = NoSession]
    /\ UNCHANGED <<posts, reg, fresh, spawning, spawn, sync, mon, stale>>

RemoveFails(a) ==
    /\ op[a].pc = "removing"
    /\ op' = [op EXCEPT ![a].pc = "removed"]
    /\ UNCHANGED <<external, reg, fresh, spawning, spawn, sync, mon, stale>>

\* remove pops the id, whichever object it holds by now.
RemoveEnds(a) ==
    /\ op[a].pc = "removed"
    /\ LET id == op[a].id
       IN  /\ reg' = [reg EXCEPT ![id] = None]
           /\ fresh' = fresh \ {id}
           /\ sync' = Marked(sync, id)
           /\ stale' = (stale \cup (IF Registered(id) THEN RefsTo({id}) ELSE {})) \ {a}
    /\ op' = [op EXCEPT ![a] = Idle]
    /\ UNCHANGED <<external, spawning, spawn, mon>>

ClientStops(c, id, then) ==
    /\ Registered(id)
    /\ StopBegins(c, id, then, stale)
    /\ UNCHANGED <<external, fresh, spawning, spawn, mon>>

-----------------------------------------------------------------------------
(* create, and the session operation that holds what it spawned.           *)

\* A create names no session yet; a resume or fork names one nobody serves,
\* under that session's lock.
Mint(id, s) ==
    /\ spawn[id].pc = "unminted"
    /\ s # None => \A other \in Id : /\ ~OwnerFound(other, s)
                                     /\ spawn[other].owner = s => ~InFlight(other)
    /\ spawning' = spawning \cup {id}
    /\ spawn' = [spawn EXCEPT ![id] = [pc |-> "launching", owner |-> s]]
    /\ UNCHANGED <<external, reg, fresh, sync, op, mon, stale>>

\* podman run starts the process; with its caller gone it still may.
Launch(id) ==
    /\ spawn[id].pc \in {"launching", "abandoned"}
    /\ rt' = [rt EXCEPT ![id] = "running"]
    /\ spawn' = [spawn EXCEPT ![id].pc = IF @ = "launching" THEN "launched" ELSE "settled"]
    /\ UNCHANGED <<api, posts, reg, fresh, spawning, sync, op, mon, stale>>

\* Slip: the claim outlives the failed spawn.
SpawnFailsClaimed(id) ==
    /\ spawn[id].pc \in {"launching", "launched"}
    /\ spawn' = [spawn EXCEPT ![id].pc = IF @ = "launching" THEN "abandoned" ELSE "settled"]
    /\ UNCHANGED <<external, reg, fresh, spawning, sync, op, mon, stale>>

\* podman run raises, or the caller is cancelled inside _start_container.
SpawnFails(id) ==
    /\ spawn[id].pc \in {"launching", "launched"}
    /\ spawning' = spawning \ {id}
    /\ spawn' = [spawn EXCEPT ![id].pc = IF @ = "launching" THEN "abandoned" ELSE "settled"]
    /\ UNCHANGED <<external, reg, fresh, sync, op, mon, stale>>

\* The rest of create: a new object takes the id, over an adopted one too.
Register(id) ==
    /\ spawn[id].pc = "launched"
    /\ \E port \in BOOLEAN :
        reg' = [reg EXCEPT ![id] = NewEntry("starting", port, spawn[id].owner)]
    /\ sync' = Marked(sync, id)
    /\ spawning' = IF spawn[id].owner # None THEN spawning \ {id} ELSE spawning
    /\ spawn' = [spawn EXCEPT ![id].pc = "held"]
    /\ stale' = IF Registered(id) THEN stale \cup RefsTo({id}) ELSE stale
    /\ UNCHANGED <<external, fresh, op, mon>>

\* Saving what create registered fails, or its caller is cancelled there: no
\* cleanup is in charge yet, and the claim of a create that names no session
\* is forgotten.
SaveFails(id) ==
    /\ spawn[id].pc = "held"
    /\ spawn' = [spawn EXCEPT ![id].pc = IF spawn[id].owner = None THEN "forgotten"
                                                                  ELSE "settled"]
    /\ stale' = stale \ {<<"spawn", id>>}
    /\ UNCHANGED <<external, reg, fresh, spawning, sync, op, mon>>

\* The spawner posts the session's start and is answered its id: one the
\* container mints for a create.
HolderStarts(id, s) ==
    /\ spawn[id].pc = "held"
    /\ rt[id] = "running"
    /\ IF spawn[id].owner = None THEN Unused(s) ELSE s = spawn[id].owner
    /\ api' = [api EXCEPT ![id] = [primary |-> s, live |-> {s}]]
    /\ spawn' = [spawn EXCEPT ![id] =
                   [pc |-> IF @.owner = None THEN "minted" ELSE "started", owner |-> s]]
    /\ UNCHANGED <<rt, posts, reg, fresh, spawning, sync, op, mon, stale>>

\* SessionService.create records the answered owner and drops the claim.
HolderSettles(id) ==
    /\ spawn[id].pc \in {"started", "minted"}
    /\ reg' = IF spawn[id].pc = "minted" /\ <<"spawn", id>> \notin stale
              THEN [reg EXCEPT ![id].owner = spawn[id].owner]
              ELSE reg
    /\ spawning' = spawning \ {id}
    /\ spawn' = [spawn EXCEPT ![id].pc = "settled"]
    /\ stale' = stale \ {<<"spawn", id>>}
    /\ UNCHANGED <<external, fresh, sync, op, mon>>

\* Anything past the spawn fails: the operation stops and removes what it
\* spawned.
HolderFails(id) ==
    /\ spawn[id].pc \in {"held", "started", "minted"}
    /\ spawn' = [spawn EXCEPT ![id].pc = "cleaning"]
    /\ StopBegins(id, id, TRUE, stale \ {<<"spawn", id>>})
    /\ UNCHANGED <<external, fresh, spawning, mon>>

\* The shielded cleanup has ended, and the claim goes in the finally.
HolderLeaves(id) ==
    /\ spawn[id].pc = "cleaning"
    /\ op[id].pc = "none"
    /\ spawn' = [spawn EXCEPT ![id].pc = "settled"]
    /\ spawning' = spawning \ {id}
    /\ UNCHANGED <<external, reg, fresh, sync, op, mon, stale>>

-----------------------------------------------------------------------------
(* The other writers of an entry: forks and side threads, each under the   *)
(* source session's lock until its start has been answered.                *)

Addressable(id) ==
    /\ StatusIn(id, Live)
    /\ reg[id].owner # None
    /\ ~InFlight(id)
    /\ \A p \in posts : p.id # id

\* fork(share_container) and a side thread's resume: the child is a member.
Joins(id, s) ==
    /\ Addressable(id)
    /\ Unused(s) \/ s \in reg[id].members
    /\ reg' = [reg EXCEPT ![id].members = @ \cup {s}]
    /\ posts' = posts \cup {[id |-> id, sid |-> s, primary |-> FALSE]}
    /\ UNCHANGED <<rt, api, fresh, spawning, spawn, sync, op, mon, stale>>

\* fork(reuse_container): the container changes hands, then is told.
Rehomes(id, s) ==
    /\ Addressable(id)
    /\ Unused(s)
    /\ reg' = [reg EXCEPT ![id].owner = s]
    /\ posts' = posts \cup {[id |-> id, sid |-> s, primary |-> TRUE]}
    /\ UNCHANGED <<rt, api, fresh, spawning, spawn, sync, op, mon, stale>>

-----------------------------------------------------------------------------
(* HealthMonitor._poll: reconcile, list, then probe one entry at a time.   *)

PollBegins ==
    /\ mon.pc = "idle"
    /\ mon' = [mon EXCEPT !.pc = "syncing"]
    /\ sync' = IF sync.pc = "idle" THEN [NoSync EXCEPT !.pc = "listing"] ELSE sync
    /\ UNCHANGED <<external, reg, fresh, spawning, spawn, op, stale>>

\* The polled object is no longer the registered one: its fields are unknown.
Orphaned(id) == <<"poll", id>> \in stale
Turned(id) == [mon EXCEPT !.todo = @ \ {id}, !.cur = id]
Onward(m) == [m EXCEPT !.pc = "polling", !.cur = None, !.before = "stopped",
                      !.answer = NoSession]

\* Neither stopped nor to be probed.
PollPasses(id) ==
    /\ mon.pc = "polling" /\ id \in mon.todo
    /\ \/ Orphaned(id)
       \/ StatusIn(id, {"stopping"})
       \/ StatusIn(id, Probed) /\ ~reg[id].port
    /\ mon' = [mon EXCEPT !.todo = @ \ {id}]
    /\ stale' = stale \ {<<"poll", id>>}
    /\ UNCHANGED <<external, reg, fresh, spawning, spawn, sync, op>>

PollProbes(id) ==
    /\ mon.pc = "polling" /\ id \in mon.todo
    /\ Orphaned(id) \/ (StatusIn(id, Probed) /\ reg[id].port)
    /\ mon' = [Turned(id) EXCEPT !.pc = "probing",
                 !.before = IF Orphaned(id) THEN "stopped" ELSE reg[id].status]
    /\ UNCHANGED <<external, reg, fresh, spawning, spawn, sync, op, stale>>

\* reap_orphan: a running process is killed first; both end in a removal.
ReapOrSkip(id) ==
    /\ IF Reapable(id)
       THEN LET kills == reg[id].status = "running"
            IN  /\ op' = [op EXCEPT ![Monitor] =
                            [pc |-> IF kills THEN "signalling" ELSE "removing",
                             id |-> id, then |-> TRUE]]
                /\ reg' = IF kills THEN [reg EXCEPT ![id].status = "stopping"] ELSE reg
                /\ sync' = Marked(sync, id)
                /\ mon' = [Onward(mon) EXCEPT !.pc = "reaping", !.todo = @ \ {id}]
       ELSE /\ mon' = [Onward(mon) EXCEPT !.todo = @ \ {id}]
            /\ UNCHANGED <<op, reg, sync>>
    /\ stale' = stale \ {<<"poll", id>>}
    /\ UNCHANGED <<external, fresh, spawning, spawn>>

PollFindsStopped(id) ==
    /\ mon.pc = "polling" /\ id \in mon.todo
    /\ Orphaned(id) \/ StatusIn(id, {"stopped"})
    /\ ReapOrSkip(id)

ProbeAnswered ==
    /\ mon.pc = "probing"
    /\ rt[mon.cur] = "running"
    /\ mon' = [mon EXCEPT !.pc = "answered", !.answer = api[mon.cur]]
    /\ UNCHANGED <<external, reg, fresh, spawning, spawn, sync, op, stale>>

\* Slip: the status is not compared again after the await.
MootNever == FALSE

\* A verdict counts only if the status did not change while it was awaited.
Moot == ~Orphaned(mon.cur) /\ reg[mon.cur].status # mon.before

\* The except branch of _probe_container.
ProbeFails ==
    /\ mon.pc = "probing"
    /\ LET id == mon.cur
           e == reg[id]
           count == IF e.failures < MaxFailures THEN e.failures + 1 ELSE MaxFailures
           crashed == count = MaxFailures /\ e.aged
       IN  /\ IF Orphaned(id) \/ Moot
              THEN reg' = reg /\ sync' \in (IF Moot THEN {sync} ELSE {sync, Marked(sync, id)})
              ELSE /\ reg' = [reg EXCEPT ![id] =
                                IF crashed
                                THEN [e EXCEPT !.failures = count, !.status = "crashed",
                                               !.live = {}]
                                ELSE [e EXCEPT !.failures = count]]
                   /\ sync' = IF crashed /\ e.status # "crashed" THEN Marked(sync, id) ELSE sync
           /\ stale' = stale \ {<<"poll", id>>}
    /\ mon' = Onward(mon)
    /\ UNCHANGED <<external, fresh, spawning, spawn, op>>

\* Slip: the primary is put among the members of an adopted entry.
ToldWithPrimary(e, r, adopted) ==
    LET primary == IF r.primary # None THEN r.primary ELSE e.owner
    IN  [e EXCEPT !.status = "running", !.failures = 0, !.owner = primary, !.live = r.live,
                  !.members = IF adopted THEN r.live \cup {primary} ELSE @]

\* Slip: whose container it is was settled at its start.
ToldOwnerKept(e, r, adopted) ==
    [e EXCEPT !.status = "running", !.failures = 0, !.live = r.live,
              !.members = IF adopted THEN r.live \ {r.primary, e.owner} ELSE @]

\* What a report makes of an entry.
Told(e, r, adopted) ==
    LET primary == IF r.primary # None THEN r.primary ELSE e.owner
    IN  [e EXCEPT !.status = "running", !.failures = 0, !.owner = primary, !.live = r.live,
                  !.members = IF adopted THEN r.live \ {primary} ELSE @]

Empty(r) == r.primary = None /\ r.live = {}

\* A report that came too late: whatever it says is of another container.
ProbeDiscarded ==
    /\ mon.pc = "answered"
    /\ Moot \/ Orphaned(mon.cur)
    /\ mon' = Onward(mon)
    /\ stale' = stale \ {<<"poll", mon.cur>>}
    /\ UNCHANGED <<external, reg, fresh, spawning, spawn, sync, op>>

\* The else branch of _probe_container, up to the reap.
ProbeApplies ==
    /\ mon.pc = "answered"
    /\ ~Moot
    /\ LET id == mon.cur
           r == mon.answer
       IN  /\ fresh' = fresh \ {id}
           /\ IF Orphaned(id)
              THEN reg' = reg /\ sync' \in {sync, Marked(sync, id)}
              ELSE /\ reg' = [reg EXCEPT ![id] = Told(@, r, id \in fresh)]
                   /\ sync' = IF mon.before = "running" THEN sync ELSE Marked(sync, id)
           /\ IF Empty(r)
              THEN mon' = [mon EXCEPT !.pc = "deciding"] /\ stale' = stale
              ELSE mon' = Onward(mon) /\ stale' = stale \ {<<"poll", id>>}
    /\ UNCHANGED <<external, spawning, spawn, op>>

\* After update has saved: the reap looks at the entry as it is by now.
ProbeDecides ==
    /\ mon.pc = "deciding"
    /\ ReapOrSkip(mon.cur)

\* A removal that found the id gone raises, which abandons the poll.
ReapEnds ==
    /\ mon.pc = "reaping"
    /\ op[Monitor].pc = "none"
    /\ \/ mon' = Onward(mon) /\ stale' = stale
       \/ mon' = NoPoll /\ stale' = stale \ ({"poll"} \X Id)
    /\ UNCHANGED <<external, reg, fresh, spawning, spawn, sync, op>>

PollEnds ==
    /\ mon.pc = "polling"
    /\ mon.todo = {}
    /\ mon' = NoPoll
    /\ UNCHANGED <<external, reg, fresh, spawning, spawn, sync, op, stale>>

\* AsyncPoller bounds a poll: it is cancelled wherever it stands, and what
\* its kill did, or will do, is an exit nobody is told of.
PollTimesOut ==
    /\ mon.pc # "idle"
    /\ mon' = NoPoll
    /\ op' = [op EXCEPT ![Monitor] = Idle]
    /\ rt' = [id \in Id |-> IF rt[id] = "stopped" /\ op[Monitor].id = id
                            THEN "exited" ELSE rt[id]]
    /\ stale' = stale \ ({Monitor} \cup ({"poll"} \X Id))
    /\ UNCHANGED <<api, posts, reg, fresh, spawning, spawn, sync>>

-----------------------------------------------------------------------------
Environment ==
    \/ \E id \in Id : RuntimeExits(id) \/ RuntimePrunes(id) \/ Ages(id)
    \/ \E p \in posts : ApiStarts(p) \/ PostFails(p)
    \/ \E id \in Id, s \in Session : ApiMemberEnds(id, s)

Reconcile == SyncStart \/ SyncList \/ SyncListFails \/ SyncApply \/ SyncDone

Operate ==
    \/ \E a \in Actor : SignalLands(a) \/ SignalFails(a) \/ StopEnds(a)
                        \/ RemoveLands(a) \/ RemoveFails(a) \/ RemoveEnds(a)
    \/ \E c \in Client, id \in Id, then \in BOOLEAN : ClientStops(c, id, then)

Spawn ==
    \/ \E id \in Id, s \in Owner : Mint(id, s)
    \/ \E id \in Id, s \in Session : HolderStarts(id, s)
    \/ \E id \in Id : Launch(id) \/ SpawnFails(id) \/ Register(id) \/ SaveFails(id)
                      \/ HolderSettles(id)
                      \/ HolderFails(id) \/ HolderLeaves(id)

Assign == \E id \in Id, s \in Session : Joins(id, s) \/ Rehomes(id, s)

Poll ==
    \/ PollBegins \/ PollEnds \/ PollTimesOut
    \/ \E id \in Id : PollPasses(id) \/ PollProbes(id) \/ PollFindsStopped(id)
    \/ ProbeAnswered \/ ProbeFails \/ ProbeDiscarded \/ ProbeApplies \/ ProbeDecides
    \/ ReapEnds

Next == Environment \/ Reconcile \/ Operate \/ Spawn \/ Assign \/ Poll

Spec == Init /\ [][Next]_vars

(* Fairness.  The poller loops for the daemon's whole life and every other *)
(* task is run on by the event loop, so each step of theirs is weakly      *)
(* fair, as is the passing of a startup budget.  Runtime calls, listings,  *)
(* port lookups, probes and polls may fail or time out any number of times *)
(* but not forever; nothing makes requests, forks or exits happen.  A step *)
(* that is also one of an undisturbed poll or call is no fault.            *)
Faults ==
    \/ SyncListFails
    \/ PollTimesOut /\ ~PollEnds /\ ~ReapEnds
    \/ sync.pc = "listed" /\ SyncApply /\ ~SyncApplies(Running)
    \/ mon.pc = "probing" /\ rt[mon.cur] = "running" /\ ProbeFails
    \/ \E a \in Actor : \/ SignalFails(a) /\ ~SignalLands(a)
                        \/ RemoveFails(a) /\ ~RemoveLands(a)

Fairness ==
    /\ WF_vars(SyncList) /\ WF_vars(SyncApply) /\ WF_vars(SyncDone)
    /\ \A a \in Actor : /\ WF_vars(SignalLands(a) \/ StopEnds(a))
                        /\ WF_vars(RemoveLands(a) \/ RemoveEnds(a))
    /\ \A id \in Id : /\ WF_vars(Ages(id))
                      /\ WF_vars(PollPasses(id) \/ PollProbes(id) \/ PollFindsStopped(id))
    /\ WF_vars(PollBegins) /\ WF_vars(PollEnds) /\ WF_vars(ReapEnds)
    /\ WF_vars(ProbeAnswered \/ ProbeFails)
    /\ WF_vars(ProbeApplies \/ ProbeDiscarded \/ ProbeDecides)

FairSpec == Spec /\ Fairness /\ <>[][~Faults]_vars

-----------------------------------------------------------------------------
(* Type invariant: what every variable ranges over.                        *)
TypeOK ==
    /\ rt \in [Id -> Process]
    /\ api \in [Id -> Report]
    /\ posts \subseteq Post
    /\ reg \in [Id -> Entry \cup {None}]
    /\ fresh \subseteq Id
    /\ spawning \subseteq Id
    /\ spawn \in [Id -> Spawner]
    /\ sync \in Listing
    /\ op \in [Actor -> Call]
    /\ mon \in Polling
    /\ stale \subseteq Ref

(* A listing, however late it is applied, drops only entries whose         *)
(* container is really gone: a create that registered after the listing    *)
(* was taken is not lost (_apply_observation and _mark_written).           *)
ListingDropsOnlyGone ==
    [][SyncApply => \A id \in Id : Registered(id) /\ reg'[id] = None => rt[id] = "absent"]_vars

\* No stop, kill or remove is under way on the container.
Undisturbed(id) == \A a \in Actor : op[a].id # id

(* Once a stop has ended a container and every call on it is over, no      *)
(* listing or probe answer still in flight makes its entry live again.     *)
StopOutlivesStaleAnswers ==
    [][\A id \in Id :
        /\ Registered(id) /\ reg[id].status = "stopped"
        /\ rt[id] = "stopped" /\ Undisturbed(id)
        /\ ~Register(id)
        => reg'[id] = None \/ reg'[id].status \in {"stopping", "stopped"}]_vars

\* A create, resume or fork counts on the container it minted.  One that
\* named its session loses that hold when its entry is removed from under it.
CountedOn(id) ==
    \/ spawn[id].pc \in {"launching", "launched", "minted"}
    \/ spawn[id].pc = "held" /\ spawn[id].owner = None
    \/ spawn[id].pc \in {"held", "started"} /\ <<"spawn", id>> \notin stale

(* While a reap is under way its container has no owner and no members,    *)
(* and no operation counts on it: the claim taken before podman run covers *)
(* a container that a listing adopted meanwhile (reap_orphan).             *)
ReapHitsOnlyUnreachable ==
    \A id \in Id :
        op[Monitor].id = id =>
            /\ ~CountedOn(id)
            /\ Registered(id) => reg[id].owner = None /\ reg[id].members = {}

(* A crashed verdict is the health probe's: a listing that still sees the  *)
(* process running does not take it back, only a later answer does.        *)
CrashVerdictOutranksListing ==
    [][\A id \in Id :
        StatusIn(id, {"crashed"}) /\ reg'[id] # None /\ reg'[id].status \in Live
        => Register(id) \/ (ProbeApplies /\ mon.cur = id)]_vars

\* A running container that no session, start or operation can reach.
Unreachable(id) ==
    /\ rt[id] = "running"
    /\ api[id] = NoSession
    /\ ~InFlight(id) /\ spawn[id].pc # "forgotten"
    /\ \A p \in posts : p.id # id
    /\ Registered(id) => reg[id].owner = None /\ reg[id].members = {}

(* No container stays up unreachable for ever: a spawn whose caller went   *)
(* away in the middle leaves one, and the monitor reaps it, but for one    *)
(* whose claim was forgotten.                                              *)
UnreachableIsReaped == \A id \in Id : []<>~Unreachable(id)

(* The registry does not name another owner for ever than the session the  *)
(* container runs: a fork that took it over and could not start, or an     *)
(* answer that a fork overtook, is corrected by the probes.                *)
Misnamed(id) ==
    /\ StatusIn(id, Live) /\ rt[id] = "running"
    /\ api[id].primary \notin {None, reg[id].owner}
OwnersSettle == \A id \in Id : []<>~Misnamed(id)

(* No entry stays in STOPPING for ever, even when the poll that stopped it *)
(* was cancelled before the runtime answered.                              *)
StoppingEnds == \A id \in Id : []<>~StatusIn(id, {"stopping"})

=============================================================================

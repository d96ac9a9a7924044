--------------------------- MODULE WorkspaceLoads ---------------------------
(***************************************************************************)
(* The daemon's workspaces (DaemonService, DaemonConfig, WorkspaceService): *)
(* the registry file and the objects read from it, the services built for  *)
(* registered directories, one load in flight per workspace, and requests  *)
(* that look up, register, deregister and list.                            *)
(*                                                                         *)
(* Between two awaits of the loop nothing interleaves; _register and       *)
(* deregister_workspace run in threads of a pool, a step at a time, on the *)
(* config object that is current when they look (_register) or that was    *)
(* when they were submitted (deregister_workspace).                        *)
(*                                                                         *)
(* A directory may vanish and return; below it a marker of its own may be  *)
(* missing, and then a service built for it reads its sessions from the    *)
(* workspace around it.                                                    *)
(***************************************************************************)
EXTENDS Naturals, Sequences, FiniteSets, SequencesExt

CONSTANTS
    Workspace,
    Detachable,    \* those whose directory may vanish
    Nested,        \* those inside another, which may have no marker of their own
    Client,        \* requests that look up, register and deregister
    Lister,        \* requests that list
    Object,        \* DaemonConfig objects
    None

Request == Client \cup Lister

ASSUME LoadsAssumption ==
    /\ None \notin Workspace \cup Object
    /\ Detachable \subseteq Workspace /\ Nested \subseteq Workspace
    /\ Client \cap Lister = {}
    /\ IsFiniteSet(Request) /\ IsFiniteSet(Object)
    /\ Cardinality(Object) > Cardinality(Request)

VARIABLES
    saved,         \* the registry file
    config,        \* DaemonConfig.workspaces, per object
    current,       \* the object _daemon_config is
    directory,     \* whether a workspace's directory exists
    marker,        \* whether it has a marker of its own
    workspaces,    \* _workspaces
    loads,         \* _loads: how far a build is, and the service it has built
    req            \* the requests

registry == <<saved, config, current>>
disk == <<directory, marker>>
services == <<workspaces, loads>>
vars == <<registry, disk, services, req>>

\* A service remembers whether its directory was there when it was built,
\* and whether its sessions are those below that directory.
Service == [available : BOOLEAN, own : BOOLEAN]

NoLoad == [stage |-> "none", svc |-> None]
Idle == [does |-> "nothing", pc |-> "idle", ws |-> None, obj |-> None,
         marked |-> FALSE, at |-> 0]

Init ==
    /\ saved \in UNION {[1..n -> Workspace] : n \in 0..Cardinality(Workspace)}
    /\ \A i, j \in 1..Len(saved) : saved[i] = saved[j] => i = j
    /\ current = CHOOSE o \in Object : TRUE
    /\ config = [o \in Object |-> IF o = current THEN saved ELSE <<>>]
    /\ directory = [w \in Workspace |-> TRUE]
    /\ marker \in [Workspace -> BOOLEAN]
    /\ \A w \in Workspace \ Nested : marker[w]
    /\ workspaces = [w \in Workspace |-> None]
    /\ loads = [w \in Workspace |-> NoLoad]
    /\ req = [r \in Request |-> Idle]

-----------------------------------------------------------------------------
(* _load_workspace                                                         *)

\* Slip: a service whose directory vanished is rebuilt, too.
IsCurrentMirrors(svc, w) == svc.available = directory[w]

\* Slip: what was built unavailable is kept.
IsCurrentAlways(svc, w) == TRUE

\* Stale: built while the directory was missing, and it has come back.
IsCurrent(svc, w) == svc.available \/ ~directory[w]

Loading(w) == loads[w].stage \in {"repairing", "repaired", "starting"}
Loaded(w) == loads[w].stage \in {"done", "failed"}

\* It answers at once, from the load that has ended or the cached service.
Answered(w, map) ==
    \/ Loaded(w)
    \/ loads[w].stage = "none" /\ map[w] # None /\ IsCurrent(map[w], w)

\* It joins the load in flight or starts one.
Joined(w) ==
    IF Loading(w) THEN loads ELSE [loads EXCEPT ![w] = [stage |-> "repairing", svc |-> None]]

Waits(r, w) == [req[r] EXCEPT !.pc = "waiting", !.ws = w, !.obj = None, !.marked = FALSE]

LoadWorkspace(r, w, map) ==
    IF Answered(w, map)
    THEN req' = [req EXCEPT ![r] = Idle] /\ loads' = loads
    ELSE req' = [req EXCEPT ![r] = Waits(r, w)] /\ loads' = Joined(w)

-----------------------------------------------------------------------------
(* _build_workspace and _finish_load                                       *)

\* _repair_marker, in a thread; the marker may not be writable.
Repairs(w) ==
    /\ loads[w].stage = "repairing"
    /\ loads' = [loads EXCEPT ![w].stage = "repaired"]
    /\ \/ directory[w] /\ marker' = [marker EXCEPT ![w] = TRUE]
       \/ marker' = marker
    /\ UNCHANGED <<registry, directory, workspaces, req>>

Stored(w, svc) ==
    /\ workspaces' = [workspaces EXCEPT ![w] = svc]
    /\ loads' = [loads EXCEPT ![w] = [stage |-> "done", svc |-> None]]

\* WorkspaceService.__init__; a service without a directory has nothing to
\* start.
Constructs(w) ==
    /\ loads[w].stage = "repaired"
    /\ LET svc == [available |-> directory[w], own |-> directory[w] /\ marker[w]]
       IN  IF directory[w]
           THEN /\ loads' = [loads EXCEPT ![w] = [stage |-> "starting", svc |-> svc]]
                /\ UNCHANGED workspaces
           ELSE Stored(w, svc)
    /\ UNCHANGED <<registry, disk, req>>

Starts(w) ==
    /\ loads[w].stage = "starting"
    /\ Stored(w, loads[w].svc)
    /\ UNCHANGED <<registry, disk, req>>

\* Its configuration does not parse, or a sub-service does not start.
LoadFails(w) ==
    /\ loads[w].stage \in {"repaired", "starting"}
    /\ loads' = [loads EXCEPT ![w] = [stage |-> "failed", svc |-> None]]
    /\ UNCHANGED <<registry, disk, workspaces, req>>

\* Whoever waited goes on: a lookup and a registration are answered.
Woken(w) ==
    [r \in Request |->
        IF req[r].ws # w THEN req[r]
        ELSE CASE req[r].pc = "waiting" /\ req[r].does = "sync" ->
                     [req[r] EXCEPT !.pc = "walking", !.ws = None]
               [] req[r].pc = "waiting" /\ req[r].does # "sync" -> Idle
               [] req[r].pc = "awaiting" -> [req[r] EXCEPT !.pc = "evicting"]
               [] OTHER -> req[r]]

\* Slip: those who await an eviction are not told.
FinishesForCallers(w) ==
    /\ Loaded(w)
    /\ loads' = [loads EXCEPT ![w] = NoLoad]
    /\ req' = [r \in Request |-> IF req[r].pc = "waiting" THEN Woken(w)[r] ELSE req[r]]
    /\ UNCHANGED <<registry, disk, workspaces>>

\* Slip: a load that failed stays where it is.
FinishesStored(w) ==
    /\ loads[w].stage = "done"
    /\ loads' = [loads EXCEPT ![w] = NoLoad]
    /\ req' = Woken(w)
    /\ UNCHANGED <<registry, disk, workspaces>>

\* The done callbacks: _finish_load's, then the shields'.
Finishes(w) ==
    /\ Loaded(w)
    /\ loads' = [loads EXCEPT ![w] = NoLoad]
    /\ req' = Woken(w)
    /\ UNCHANGED <<registry, disk, workspaces>>

-----------------------------------------------------------------------------
(* DaemonConfig: an object that no request holds is garbage.               *)

Held == {req[r].obj : r \in Request}
Fresh == IF current \notin Held THEN current ELSE CHOOSE o \in Object : o \notin Held
Reloaded ==
    [o \in Object |->
        CASE o = Fresh -> saved
          [] o # Fresh /\ o \in Held -> config[o]
          [] OTHER -> <<>>]

Reload == config' = Reloaded /\ current' = Fresh /\ saved' = saved

-----------------------------------------------------------------------------
(* Lookups and listings                                                    *)

\* get_workspace, unless the service cached is current and none is loading:
\* only a lookup that finds no service reads the registry again.
Gets(r, w) ==
    /\ req[r] = Idle
    /\ IF workspaces[w] = None THEN Reload ELSE UNCHANGED registry
    /\ Contains(config'[current'], w)
    /\ workspaces[w] # None => loads[w].stage # "none" \/ ~IsCurrent(workspaces[w], w)
    /\ LET asked == [req EXCEPT ![r] = [Idle EXCEPT !.does = "get", !.pc = "waiting", !.ws = w]]
       IN  IF Answered(w, workspaces)
           THEN req' = req /\ loads' = loads
           ELSE req' = asked /\ loads' = Joined(w)
    /\ UNCHANGED <<disk, workspaces>>

\* A workspace not registered is read for, too, and not found.
GetFails(r, w) ==
    /\ req[r] = Idle
    /\ workspaces[w] = None
    /\ Reload
    /\ ~Contains(config'[current'], w)
    /\ UNCHANGED <<disk, services, req>>

\* _sync_state goes through the list of the object it read, as that list is
\* when it comes to an index.
Walk(r, obj, from) ==
    LET list == config'[obj]
        due == {i \in (from + 1)..Len(list) : ~Answered(list[i], workspaces)}
    IN  IF due = {}
        THEN req' = [req EXCEPT ![r] = Idle] /\ loads' = loads
        ELSE \E i \in due :
                /\ \A j \in due : i <= j
                /\ req' = [req EXCEPT ![r] = [Idle EXCEPT !.does = "sync", !.pc = "waiting",
                                               !.ws = list[i], !.obj = obj, !.at = i]]
                /\ loads' = Joined(list[i])

Syncs(r) ==
    /\ req[r] = Idle
    /\ Reload
    /\ Walk(r, current', 0)
    /\ UNCHANGED <<disk, workspaces>>

Walks(r) ==
    /\ req[r].pc = "walking"
    /\ UNCHANGED registry
    /\ Walk(r, req[r].obj, req[r].at)
    /\ UNCHANGED <<disk, workspaces>>

\* Whoever asked goes away; a load is shielded and goes on.
Leaves(r) ==
    /\ req[r].pc \in {"waiting", "walking"} /\ req[r].does \in {"get", "sync"}
    /\ req' = [req EXCEPT ![r] = Idle]
    /\ UNCHANGED <<registry, disk, services>>

-----------------------------------------------------------------------------
(* _evict                                                                  *)

\* The service leaves the map, and is stopped if it runs; then, or at once,
\* a registration loads it anew.
Pop(r) ==
    LET w == req[r].ws
        svc == workspaces[w]
    IN  /\ workspaces' = [workspaces EXCEPT ![w] = None]
        /\ IF svc # None /\ svc.available
           THEN req' = [req EXCEPT ![r].pc = "stopping"] /\ loads' = loads
           ELSE IF req[r].does = "register"
                THEN LoadWorkspace(r, w, [workspaces EXCEPT ![w] = None])
                ELSE req' = [req EXCEPT ![r] = Idle] /\ loads' = loads

\* Slip: the load in flight is not awaited.
EvictsAtOnce(r) ==
    /\ req[r].pc = "changed" /\ (req[r].does = "register" => req[r].marked)
    /\ Pop(r)
    /\ UNCHANGED <<registry, disk>>

\* It awaits the one load in flight, if there is one.
Evicts(r) ==
    /\ req[r].pc = "changed" /\ (req[r].does = "register" => req[r].marked)
    /\ IF Loading(req[r].ws)
       THEN /\ req' = [req EXCEPT ![r].pc = "awaiting"]
            /\ UNCHANGED services
       ELSE Pop(r)
    /\ UNCHANGED <<registry, disk>>

EvictsAfterLoad(r) ==
    /\ req[r].pc = "evicting"
    /\ Pop(r)
    /\ UNCHANGED <<registry, disk>>

Stops(r) ==
    /\ req[r].pc = "stopping"
    /\ IF req[r].does = "register"
       THEN LoadWorkspace(r, req[r].ws, workspaces)
       ELSE req' = [req EXCEPT ![r] = Idle] /\ loads' = loads
    /\ UNCHANGED <<registry, disk, workspaces>>

-----------------------------------------------------------------------------
(* register_workspace and deregister_workspace                             *)

\* _marked_directory.
Marks(r, w) ==
    /\ req[r] = Idle
    /\ directory[w]
    /\ req' = [req EXCEPT ![r] = [Idle EXCEPT !.does = "register", !.pc = "marked", !.ws = w,
                                  !.marked = ~marker[w]]]
    /\ marker' = [marker EXCEPT ![w] = TRUE]
    /\ UNCHANGED <<registry, directory, services>>

\* find_workspace and register_workspace, on the object current then.
Appends(r) ==
    /\ req[r].pc = "marked"
    /\ LET w == req[r].ws
       IN  IF Contains(config[current], w)
           THEN /\ req' = [req EXCEPT ![r].pc = "changed"]
                /\ UNCHANGED config
           ELSE /\ req' = [req EXCEPT ![r].pc = "saving", ![r].obj = current]
                /\ config' = [config EXCEPT ![current] = Append(@, w)]
    /\ UNCHANGED <<saved, current, disk, services>>

\* save: the object's list as it is once the file is locked.
Saves(r) ==
    /\ req[r].pc = "saving"
    /\ saved' = config[req[r].obj]
    /\ req' = [req EXCEPT ![r].pc = "changed", ![r].obj = None]
    /\ UNCHANGED <<config, current, disk, services>>

\* A registration that marked nothing evicts nothing.
Registers(r) ==
    /\ req[r].pc = "changed" /\ req[r].does = "register" /\ ~req[r].marked
    /\ LoadWorkspace(r, req[r].ws, workspaces)
    /\ UNCHANGED <<registry, disk, workspaces>>

Deregisters(r, w) ==
    /\ req[r] = Idle
    /\ req' = [req EXCEPT ![r] = [Idle EXCEPT !.does = "deregister", !.pc = "removing",
                                  !.ws = w, !.obj = current]]
    /\ UNCHANGED <<registry, disk, services>>

Removes(r) ==
    /\ req[r].pc = "removing"
    /\ LET w == req[r].ws
           obj == req[r].obj
       IN  \/ \E i \in 1..Len(config[obj]) :
                 /\ config[obj][i] = w
                 /\ config' = [config EXCEPT ![obj] = RemoveAt(@, i)]
                 /\ req' = [req EXCEPT ![r].pc = "saving"]
           \/ /\ ~Contains(config[obj], w)
              /\ config' = config
              /\ req' = [req EXCEPT ![r] = Idle]
    /\ UNCHANGED <<saved, current, disk, services>>

-----------------------------------------------------------------------------
(* The directory: an unmounted volume, a renamed parent.                   *)
Vanishes(w) ==
    /\ directory[w] /\ directory' = [directory EXCEPT ![w] = FALSE]
    /\ UNCHANGED <<registry, marker, services, req>>

Reappears(w) ==
    /\ ~directory[w] /\ directory' = [directory EXCEPT ![w] = TRUE]
    /\ UNCHANGED <<registry, marker, services, req>>

-----------------------------------------------------------------------------
Builds(w) == Repairs(w) \/ Constructs(w) \/ Starts(w) \/ LoadFails(w) \/ Finishes(w)

GoesOn(r) ==
    \/ Walks(r) \/ Evicts(r) \/ EvictsAfterLoad(r) \/ Stops(r)
    \/ Appends(r) \/ Saves(r) \/ Registers(r) \/ Removes(r)

Next ==
    \/ \E w \in Workspace : Builds(w)
    \/ \E w \in Detachable : Vanishes(w) \/ Reappears(w)
    \/ \E r \in Request : GoesOn(r) \/ Leaves(r)
    \/ \E r \in Lister : Syncs(r)
    \/ \E r \in Client, w \in Workspace :
           Gets(r, w) \/ GetFails(r, w) \/ Marks(r, w) \/ Deregisters(r, w)

Spec == Init /\ [][Next]_vars

\* Fairness: tasks of the loop and threads of the pool go on.  Nothing is
\* asked of those who ask, nor of directories.
FairSpec ==
    /\ Spec
    /\ \A w \in Workspace : WF_vars(Builds(w))
    /\ \A r \in Request : WF_vars(GoesOn(r))

-----------------------------------------------------------------------------
TypeOK ==
    /\ saved \in Seq(Workspace)
    /\ config \in [Object -> Seq(Workspace)]
    /\ current \in Object
    /\ directory \in [Workspace -> BOOLEAN] /\ marker \in [Workspace -> BOOLEAN]
    /\ workspaces \in [Workspace -> Service \cup {None}]
    /\ loads \in [Workspace ->
                    [stage : {"none", "repairing", "repaired", "starting", "done", "failed"},
                     svc : Service \cup {None}]]
    /\ req \in [Request ->
                  [does : {"nothing", "get", "sync", "register", "deregister"},
                   pc : {"idle", "waiting", "walking", "marked", "removing", "saving",
                         "changed", "awaiting", "evicting", "stopping"},
                   ws : Workspace \cup {None}, obj : Object \cup {None},
                   marked : BOOLEAN, at : Nat]]
    /\ \A r \in Request :
        req[r].pc \in {"waiting", "awaiting"} => loads[req[r].ws].stage # "none"

(* A running service leaves the map only to be stopped: no load is stored  *)
(* over it, whatever is evicted, registered or rebuilt meanwhile           *)
(* (_load_workspace, _evict).                                              *)
NoServiceLeaked ==
    [][\A w \in Workspace :
        /\ workspaces[w] # None /\ workspaces[w].available
        /\ workspaces'[w] # workspaces[w]
        => \E r \in Request : req'[r].pc = "stopping" /\ req'[r].ws = w]_vars

(* "A service built before the marker existed reads its sessions from      *)
(* another directory": it is in the map only as long as the registration   *)
(* that wrote the marker has not evicted it (register_workspace).          *)
StaleViewsAreEvicted ==
    \A w \in Workspace :
        /\ workspaces[w] # None /\ workspaces[w].available /\ ~workspaces[w].own
        /\ marker[w]
        => \E r \in Request : req[r].marked /\ req[r].ws = w

(* Every lookup, registration, removal and listing is answered, whoever    *)
(* else asks and whatever load fails meanwhile.                            *)
RequestsAnswered == \A r \in Request : []<>(req[r] = Idle)

(* Once the registry and the directories stay as they are, listings bring  *)
(* the service of a directory that had come back into the map, if loads do *)
(* not keep failing (_sync_state).                                         *)
Settled == UNCHANGED <<saved, disk>> /\ \A w \in Workspace : ~LoadFails(w)
Listed == \E r \in Lister : Syncs(r)
ReturnedDirectoriesServed ==
    <>[][Settled]_vars /\ WF_vars(Listed) =>
        \A w \in Workspace :
            <>[](directory[w] /\ Contains(saved, w))
            => []<>(workspaces[w] # None /\ workspaces[w].available)

-----------------------------------------------------------------------------
(* "Remove a workspace from config and evict it from the map": with        *)
(* nothing under way, only registered workspaces have a service.           *)
DeregisteredStaysOut ==
    (\A r \in Request : req[r] = Idle) /\ (\A w \in Workspace : loads[w] = NoLoad) =>
        \A w \in Workspace : workspaces[w] # None => Contains(saved, w)

=============================================================================

------------------------ MODULE WorkspaceLoadsProofs ------------------------
(***************************************************************************)
(* Proofs about WorkspaceLoads, for any workspaces, requests and listings. *)
(***************************************************************************)
EXTENDS WorkspaceLoads, TLAPS, SequenceTheorems, FunctionTheorems, FiniteSetTheorems

-----------------------------------------------------------------------------
(* The strengthening.                                                      *)

ReqType ==
    [does : {"nothing", "get", "sync", "register", "deregister"},
     pc : {"idle", "waiting", "walking", "marked", "removing", "saving",
           "changed", "awaiting", "evicting", "stopping"},
     ws : Workspace \cup {None}, obj : Object \cup {None},
     marked : BOOLEAN, at : Nat]

LoadType ==
    [stage : {"none", "repairing", "repaired", "starting", "done", "failed"},
     svc : Service \cup {None}]

Typed ==
    /\ saved \in Seq(Workspace) /\ config \in [Object -> Seq(Workspace)]
    /\ current \in Object
    /\ directory \in [Workspace -> BOOLEAN] /\ marker \in [Workspace -> BOOLEAN]
    /\ workspaces \in [Workspace -> Service \cup {None}]
    /\ loads \in [Workspace -> LoadType]
    /\ req \in [Request -> ReqType]

\* Whoever waits for a load has one to wait for.
Awaited ==
    \A r \in Request :
        req[r].pc \in {"waiting", "awaiting"} => loads[req[r].ws].stage # "none"

\* What a request under way is about.
Formed(q) ==
    /\ q.pc \notin {"idle", "walking"} => q.ws \in Workspace
    /\ q.pc \in {"removing", "saving", "walking"} => q.obj \in Object
    /\ q.pc = "waiting" /\ q.does = "sync" => q.obj \in Object
    /\ q.pc \in {"marked", "removing", "saving", "changed", "awaiting", "evicting", "stopping"}
           => q.does \in {"register", "deregister"}
    /\ q.marked => q.pc \in {"marked", "saving", "changed", "awaiting", "evicting", "stopping"}
RequestsFormed == \A r \in Request : Formed(req[r])

Running(w) == workspaces[w] # None /\ workspaces[w].available

\* A build is on only where no service runs.
BuildsAlone == \A w \in Workspace : Loading(w) => ~Running(w)

\* A registration that has marked the directory and has yet to evict.
Evictor(w, pcs) == \E r \in Request : req[r].marked /\ req[r].ws = w /\ req[r].pc \in pcs
Pending == {"marked", "saving", "changed", "awaiting"}

\* A service that reads another directory although a marker is there has its
\* eviction ahead: stored, or about to be.
StoredViews ==
    \A w \in Workspace :
        Running(w) /\ ~workspaces[w].own /\ marker[w] => Evictor(w, Pending \cup {"evicting"})
BuiltViews ==
    \A w \in Workspace :
        loads[w].stage = "starting" /\ ~loads[w].svc.own /\ marker[w] => Evictor(w, Pending)

IInv == /\ Typed /\ Awaited /\ RequestsFormed
        /\ BuildsAlone /\ StoredViews /\ BuiltViews

LEMMA TypeSplits == TypeOK <=> Typed /\ Awaited
  BY DEF TypeOK, Typed, Awaited, ReqType, LoadType

-----------------------------------------------------------------------------
(* Sequences and objects.                                                  *)

LEMMA AppendType ==
    ASSUME NEW s \in Seq(Workspace), NEW w \in Workspace
    PROVE  Append(s, w) \in Seq(Workspace)
  OBVIOUS

LEMMA RemoveType ==
    ASSUME NEW s \in Seq(Workspace), NEW i \in 1..Len(s)
    PROVE  RemoveAt(s, i) \in Seq(Workspace)
<1>1. \A k \in 1..Len(s) : s[k] \in Workspace
  OBVIOUS
<1>2. SubSeq(s, 1, i - 1) \in Seq(Workspace)
  BY <1>1, SubSeqProperties
<1>3. SubSeq(s, i + 1, Len(s)) \in Seq(Workspace)
  BY <1>1, SubSeqProperties
<1>4. QED
  BY <1>2, <1>3, ConcatProperties DEF RemoveAt

\* There are more objects than requests to hold them.
LEMMA FreshObject ==
    ASSUME Typed PROVE Fresh \in Object
<1> DEFINE f == [r \in Request |-> req[r].obj]
<1>1. f \in Surjection(Request, Held)
  BY DEF Surjection, Held
<1>2. IsFiniteSet(Held) /\ Cardinality(Held) <= Cardinality(Request)
  BY <1>1, FS_Surjection, LoadsAssumption
<1>3. SUFFICES ASSUME \A o \in Object : o \in Held PROVE FALSE
  BY DEF Fresh, Typed
<1>4. Object \in SUBSET Held
  BY <1>3
<1>5. Cardinality(Object) <= Cardinality(Held)
  BY <1>2, <1>4, FS_Subset
<1>6. /\ Cardinality(Object) \in Nat /\ Cardinality(Request) \in Nat
      /\ Cardinality(Held) \in Nat
  BY <1>2, FS_CardinalityType, LoadsAssumption
<1>7. QED
  BY <1>2, <1>5, <1>6, LoadsAssumption

\* Reading the registry keeps what its variables may be.
LEMMA ReloadType ==
    ASSUME Typed, Reload
    PROVE  /\ saved' \in Seq(Workspace) /\ config' \in [Object -> Seq(Workspace)]
           /\ current' \in Object
<1>1. <<>> \in Seq(Workspace)
  OBVIOUS
<1>2. \A o \in Object : config[o] \in Seq(Workspace) /\ saved \in Seq(Workspace)
  BY DEF Typed
<1>3. Reloaded \in [Object -> Seq(Workspace)]
  BY <1>1, <1>2 DEF Reloaded
<1>4. QED
  BY <1>2, <1>3, FreshObject DEF Reload, Typed

-----------------------------------------------------------------------------
(* One request moves on.                                                   *)

Moves(r, q) == q \in ReqType /\ Formed(q) /\ req' = [req EXCEPT ![r] = q]

LEMMA MovesReq ==
    ASSUME Typed, RequestsFormed, NEW r \in Request, NEW q, Moves(r, q)
    PROVE  /\ req' \in [Request -> ReqType] /\ req'[r] = q
           /\ \A s \in Request \ {r} : req'[s] = req[s]
           /\ RequestsFormed'
<1>1. /\ req' \in [Request -> ReqType] /\ req'[r] = q
      /\ \A s \in Request \ {r} : req'[s] = req[s]
  BY DEF Moves, Typed
<1>2. \A s \in Request : Formed(req'[s])
  BY <1>1 DEF Moves, RequestsFormed
<1>3. QED
  BY <1>1, <1>2 DEF RequestsFormed

\* Another one's eviction, ahead or under way, stays.
LEMMA EvictorStays ==
    ASSUME NEW r \in Request, NEW w, NEW pcs, Evictor(w, pcs),
           \A s \in Request \ {r} : req'[s] = req[s],
           req[r].marked /\ req[r].ws = w /\ req[r].pc \in pcs
               => req'[r].marked /\ req'[r].ws = w /\ req'[r].pc \in pcs
    PROVE  Evictor(w, pcs)'
<1>1. PICK s \in Request : req[s].marked /\ req[s].ws = w /\ req[s].pc \in pcs
  BY DEF Evictor
<1>2. req'[s].marked /\ req'[s].ws = w /\ req'[s].pc \in pcs
  BY <1>1
<1>3. QED
  BY <1>2 DEF Evictor

\* ... with the registry, and nothing else.
LEMMA RequestStep ==
    ASSUME IInv, NEW r \in Request, NEW q, Moves(r, q),
           saved' \in Seq(Workspace), config' \in [Object -> Seq(Workspace)],
           current' \in Object,
           UNCHANGED <<disk, services>>,
           q.pc \in {"waiting", "awaiting"} => loads[q.ws].stage # "none",
           req[r].marked => q.marked /\ q.ws = req[r].ws /\ q.pc \in Pending
    PROVE  IInv'
<1>1. /\ req' \in [Request -> ReqType] /\ req'[r] = q
      /\ \A s \in Request \ {r} : req'[s] = req[s]
      /\ RequestsFormed'
  BY MovesReq DEF IInv
<1>2. UNCHANGED <<directory, marker, workspaces, loads>>
  BY DEF disk, services
<1>3. Typed'
  BY <1>1, <1>2 DEF IInv, Typed
<1>4. Awaited'
  BY <1>1, <1>2 DEF IInv, Awaited
<1>5. BuildsAlone'
  BY <1>2 DEF IInv, BuildsAlone, Loading, Running
<1>6. \A w \in Workspace :
        /\ Evictor(w, Pending) => Evictor(w, Pending)'
        /\ Evictor(w, Pending \cup {"evicting"}) => Evictor(w, Pending \cup {"evicting"})'
  BY <1>1, EvictorStays
<1>7. StoredViews'
  <2>1. SUFFICES ASSUME NEW w \in Workspace, Running(w)', ~workspaces'[w].own, marker'[w]
                 PROVE  Evictor(w, Pending \cup {"evicting"})'
    BY DEF StoredViews, Pending
  <2>2. Running(w) /\ ~workspaces[w].own /\ marker[w]
    BY <1>2, <2>1 DEF Running
  <2>3. QED
    BY <1>6, <2>2 DEF IInv, StoredViews
<1>8. BuiltViews'
  <2>1. SUFFICES ASSUME NEW w \in Workspace,
                        loads'[w].stage = "starting", ~loads'[w].svc.own, marker'[w]
                 PROVE  Evictor(w, Pending)'
    BY DEF BuiltViews, Pending
  <2>2. QED
    BY <1>2, <1>6, <2>1 DEF IInv, BuiltViews
<1>9. QED
  BY <1>1, <1>3, <1>4, <1>5, <1>7, <1>8 DEF IInv

-----------------------------------------------------------------------------
(* One request loads, after it has evicted or without.                     *)

\* _load_workspace of w has answered, joined or started a load.
Asks(w) ==
    \/ loads' = loads
    \/ /\ ~Loading(w) /\ (workspaces'[w] # None => ~workspaces'[w].available)
       /\ loads' = [loads EXCEPT ![w] = [stage |-> "repairing", svc |-> None]]

LEMMA JoinedAsks ==
    ASSUME Typed, NEW w \in Workspace, ~Answered(w, workspaces'), loads' = Joined(w),
           UNCHANGED directory, workspaces'[w] \in Service \cup {None}
    PROVE  Asks(w) /\ loads'[w].stage # "none"
<1>1. loads[w] \in LoadType
  BY DEF Typed
<1>2. CASE Loading(w)
  BY <1>2 DEF Joined, Asks, Loading
<1>3. CASE ~Loading(w)
  <2>1. loads[w].stage = "none"
    BY <1>1, <1>3 DEF Answered, Loading, Loaded, LoadType
  <2>2. workspaces'[w] # None => ~workspaces'[w].available
    BY <2>1 DEF Answered, IsCurrent
  <2>3. loads' = [loads EXCEPT ![w] = [stage |-> "repairing", svc |-> None]]
    BY <1>3 DEF Joined
  <2>4. loads'[w] = [stage |-> "repairing", svc |-> None]
    BY <2>3 DEF Typed
  <2>5. QED
    BY <1>3, <2>2, <2>3, <2>4 DEF Asks
<1>4. QED
  BY <1>2, <1>3

LEMMA AskStep ==
    ASSUME IInv, NEW r \in Request, NEW w \in Workspace, NEW q, Moves(r, q), Asks(w),
           saved' \in Seq(Workspace), config' \in [Object -> Seq(Workspace)],
           current' \in Object,
           UNCHANGED disk,
           workspaces' \in {workspaces, [workspaces EXCEPT ![w] = None]},
           q.pc \in {"waiting", "awaiting"} => loads'[q.ws].stage # "none",
           req[r].marked /\ req[r].pc \in Pending \cup {"evicting"} =>
               req[r].ws = w /\ workspaces'[w] = None,
           req[r].marked /\ req[r].pc \in Pending => loads[w].stage # "starting"
    PROVE  IInv'
<1>1. /\ req' \in [Request -> ReqType] /\ req'[r] = q
      /\ \A s \in Request \ {r} : req'[s] = req[s]
      /\ RequestsFormed'
  BY MovesReq DEF IInv
<1>2. UNCHANGED <<directory, marker>>
  BY DEF disk
<1>3. /\ loads \in [Workspace -> LoadType]
      /\ [stage |-> "repairing", svc |-> None] \in LoadType
  BY DEF IInv, Typed, LoadType
<1>4. /\ loads' \in [Workspace -> LoadType]
      /\ \A v \in Workspace : loads'[v] # loads[v] =>
            /\ v = w /\ loads'[v].stage = "repairing"
            /\ workspaces'[w] # None => ~workspaces'[w].available
  BY <1>3 DEF Asks
<1>5. /\ workspaces' \in [Workspace -> Service \cup {None}]
      /\ \A v \in Workspace : workspaces'[v] # workspaces[v] => workspaces'[v] = None
  BY DEF IInv, Typed
<1>6. Typed'
  BY <1>1, <1>2, <1>4, <1>5 DEF IInv, Typed
<1>7. Awaited'
  <2>1. SUFFICES ASSUME NEW s \in Request, req'[s].pc \in {"waiting", "awaiting"}
                 PROVE  loads'[req'[s].ws].stage # "none"
    BY DEF Awaited
  <2>2. CASE s = r
    BY <1>1, <2>1, <2>2
  <2>3. CASE s # r
    <3>1. req[s].ws \in Workspace /\ loads[req[s].ws].stage # "none" /\ req'[s] = req[s]
      BY <1>1, <2>1, <2>3 DEF IInv, Awaited, RequestsFormed, Formed
    <3>2. QED
      BY <1>4, <3>1
  <2>4. QED
    BY <2>2, <2>3
<1>8. BuildsAlone'
  BY <1>4, <1>5 DEF IInv, BuildsAlone, Loading, Running
<1>9. StoredViews'
  <2>1. SUFFICES ASSUME NEW v \in Workspace, Running(v)', ~workspaces'[v].own, marker'[v]
                 PROVE  Evictor(v, Pending \cup {"evicting"})'
    BY DEF StoredViews, Pending
  <2>2. Running(v) /\ ~workspaces[v].own /\ marker[v] /\ workspaces'[v] # None
    BY <1>2, <1>5, <2>1 DEF Running
  <2>3. Evictor(v, Pending \cup {"evicting"})
    BY <2>2 DEF IInv, StoredViews
  <2>4. ~(req[r].marked /\ req[r].ws = v /\ req[r].pc \in Pending \cup {"evicting"})
    BY <2>2
  <2>5. QED
    BY <1>1, <2>3, <2>4, EvictorStays
<1>10. BuiltViews'
  <2>1. SUFFICES ASSUME NEW v \in Workspace,
                        loads'[v].stage = "starting", ~loads'[v].svc.own, marker'[v]
                 PROVE  Evictor(v, Pending)'
    BY DEF BuiltViews, Pending
  <2>2. loads'[v] = loads[v]
    BY <1>4, <2>1
  <2>3. Evictor(v, Pending)
    BY <1>2, <2>1, <2>2 DEF IInv, BuiltViews
  <2>4. ~(req[r].marked /\ req[r].ws = v /\ req[r].pc \in Pending)
    BY <2>1, <2>2
  <2>5. QED
    BY <1>1, <2>3, <2>4, EvictorStays
<1>11. QED
  BY <1>1, <1>6, <1>7, <1>8, <1>9, <1>10 DEF IInv

-----------------------------------------------------------------------------
(* The requests.                                                           *)

LEMMA IdleFormed == Idle \in ReqType /\ Formed(Idle) /\ ~Idle.marked /\ Idle.pc = "idle"
  BY DEF Idle, ReqType, Formed

\* An answer, or a request that waits for the load it has.
LEMMA LoadSteps ==
    ASSUME IInv, NEW r \in Request, NEW w \in Workspace, req[r].ws = w,
           req[r].does \in {"register", "deregister"},
           req[r].marked /\ req[r].pc \in Pending => loads[w].stage # "starting",
           req[r].marked /\ req[r].pc \in Pending \cup {"evicting"} => workspaces'[w] = None,
           workspaces' \in {workspaces, [workspaces EXCEPT ![w] = None]},
           LoadWorkspace(r, w, workspaces'),
           UNCHANGED <<registry, disk>>
    PROVE  IInv'
<1>1. UNCHANGED <<saved, config, current, directory>>
  BY DEF registry, disk
<1>2. req[r] \in ReqType /\ workspaces'[w] \in Service \cup {None}
  BY DEF IInv, Typed
<1>3. ASSUME Answered(w, workspaces') PROVE IInv'
  <2>1. Moves(r, Idle) /\ Asks(w)
    BY <1>3, IdleFormed DEF LoadWorkspace, Moves, Asks
  <2>2. QED
    BY <1>1, <2>1, IdleFormed, AskStep DEF IInv, Typed
<1>4. ASSUME ~Answered(w, workspaces') PROVE IInv'
  <2>1. Asks(w) /\ loads'[w].stage # "none"
    BY <1>1, <1>2, <1>4, JoinedAsks DEF LoadWorkspace, IInv
  <2>2. /\ Waits(r, w) \in ReqType /\ Waits(r, w).ws = w /\ Waits(r, w).pc = "waiting"
        /\ ~Waits(r, w).marked /\ Waits(r, w).does = req[r].does
    BY <1>2 DEF Waits, ReqType
  <2>3. Moves(r, Waits(r, w))
    BY <1>4, <2>2 DEF LoadWorkspace, Moves, Formed
  <2>4. QED
    BY <1>1, <2>1, <2>2, <2>3, AskStep DEF IInv, Typed
<1>5. QED
  BY <1>3, <1>4

LEMMA PopStep ==
    ASSUME IInv, NEW r \in Request, req[r].ws \in Workspace,
           req[r].does \in {"register", "deregister"},
           req[r].pc \in {"changed", "evicting"},
           req[r].pc = "changed" => ~Loading(req[r].ws),
           Pop(r), UNCHANGED <<registry, disk>>
    PROVE  IInv'
<1> DEFINE w == req[r].ws
           svc == workspaces[w]
<1>1. UNCHANGED <<saved, config, current, directory>>
  BY DEF registry, disk
<1>2. workspaces' = [workspaces EXCEPT ![w] = None] /\ workspaces'[w] = None
  BY DEF Pop, IInv, Typed
<1>3. req[r].marked /\ req[r].pc \in Pending => loads[w].stage # "starting"
  BY DEF Loading, Pending
<1>4. ASSUME svc # None, svc.available PROVE IInv'
  <2> DEFINE q == [req[r] EXCEPT !.pc = "stopping"]
  <2>1. q \in ReqType /\ q.pc = "stopping" /\ q.ws = w
    BY DEF IInv, Typed, ReqType
  <2>2. Moves(r, q) /\ Asks(w)
    BY <1>4, <2>1 DEF Pop, Moves, Asks, Formed
  <2>3. QED
    BY <1>1, <1>2, <1>3, <2>1, <2>2, AskStep DEF IInv, Typed
<1>5. ASSUME ~(svc # None /\ svc.available), req[r].does = "register" PROVE IInv'
  <2>1. LoadWorkspace(r, w, workspaces')
    BY <1>2, <1>5 DEF Pop
  <2>2. QED
    BY <1>2, <1>3, <1>5, <2>1, LoadSteps
<1>6. ASSUME ~(svc # None /\ svc.available), req[r].does # "register" PROVE IInv'
  <2>1. Moves(r, Idle) /\ Asks(w)
    BY <1>6, IdleFormed DEF Pop, Moves, Asks
  <2>2. QED
    BY <1>1, <1>2, <1>3, <2>1, IdleFormed, AskStep DEF IInv, Typed
<1>7. QED
  BY <1>4, <1>5, <1>6

\* A request that is not about to evict asks for a workspace, or is answered.
LEMMA PlainAsk ==
    ASSUME IInv, NEW r \in Request, NEW w \in Workspace, NEW q, ~req[r].marked,
           q \in ReqType, Formed(q), q.pc = "waiting", q.ws = w,
           saved' \in Seq(Workspace), config' \in [Object -> Seq(Workspace)],
           current' \in Object, UNCHANGED <<disk, workspaces>>,
           ~Answered(w, workspaces), loads' = Joined(w), req' = [req EXCEPT ![r] = q]
    PROVE  IInv'
<1>1. workspaces' = workspaces /\ workspaces'[w] \in Service \cup {None} /\ directory' = directory
  BY DEF IInv, Typed, disk
<1>2. Asks(w) /\ loads'[w].stage # "none"
  BY <1>1, JoinedAsks DEF IInv
<1>3. Moves(r, q)
  BY DEF Moves
<1>4. QED
  BY <1>1, <1>2, <1>3, AskStep

LEMMA PlainAnswer ==
    ASSUME IInv, NEW r \in Request, ~req[r].marked,
           saved' \in Seq(Workspace), config' \in [Object -> Seq(Workspace)],
           current' \in Object, UNCHANGED <<disk, services>>,
           req' = [req EXCEPT ![r] = Idle]
    PROVE  IInv'
  BY IdleFormed, RequestStep DEF Moves

LEMMA IdlePlain == ASSUME NEW r \in Request, req[r] = Idle PROVE ~req[r].marked
  BY DEF Idle

LEMMA UnchangedTypes ==
    ASSUME Typed, UNCHANGED registry
    PROVE  /\ saved' \in Seq(Workspace) /\ config' \in [Object -> Seq(Workspace)]
           /\ current' \in Object
  BY DEF Typed, registry

LEMMA GetsStep == ASSUME IInv, NEW r \in Request, NEW w \in Workspace, Gets(r, w) PROVE IInv'
<1>1. /\ saved' \in Seq(Workspace) /\ config' \in [Object -> Seq(Workspace)]
      /\ current' \in Object
  BY ReloadType, UnchangedTypes DEF Gets, IInv
<1>2. ~req[r].marked /\ UNCHANGED <<disk, workspaces>>
  BY IdlePlain DEF Gets
<1>3. ASSUME Answered(w, workspaces) PROVE IInv'
  <2>1. req' = [req EXCEPT ![r] = Idle]
    BY <1>3 DEF Gets, IInv, Typed
  <2>2. UNCHANGED <<disk, services>>
    BY <1>3 DEF Gets, services
  <2>3. QED
    BY <1>1, <1>2, <2>1, <2>2, PlainAnswer
<1>4. ASSUME ~Answered(w, workspaces) PROVE IInv'
  <2> DEFINE q == [Idle EXCEPT !.does = "get", !.pc = "waiting", !.ws = w]
  <2>1. q \in ReqType /\ q.pc = "waiting" /\ q.ws = w /\ q.does = "get" /\ ~q.marked
    BY DEF Idle, ReqType
  <2>2. Formed(q)
    BY <2>1 DEF Formed
  <2>3. loads' = Joined(w) /\ req' = [req EXCEPT ![r] = q]
    BY <1>4 DEF Gets
  <2>4. QED
    BY <1>1, <1>2, <1>4, <2>1, <2>2, <2>3, PlainAsk
<1>5. QED
  BY <1>3, <1>4

LEMMA GetFailsStep ==
    ASSUME IInv, NEW r \in Request, NEW w \in Workspace, GetFails(r, w) PROVE IInv'
<1>1. req' = [req EXCEPT ![r] = Idle]
  BY DEF GetFails, IInv, Typed
<1>2. UNCHANGED <<disk, services>> /\ Reload /\ ~req[r].marked
  BY IdlePlain DEF GetFails
<1>3. QED
  BY <1>1, <1>2, ReloadType, PlainAnswer DEF IInv

LEMMA WalkStep ==
    ASSUME IInv, NEW r \in Request, NEW obj \in Object, NEW from \in Nat, ~req[r].marked,
           saved' \in Seq(Workspace), config' \in [Object -> Seq(Workspace)],
           current' \in Object, UNCHANGED <<disk, workspaces>>, Walk(r, obj, from)
    PROVE  IInv'
<1> DEFINE list == config'[obj]
           due == {i \in (from + 1)..Len(list) : ~Answered(list[i], workspaces)}
<1>1. ASSUME due = {} PROVE IInv'
  <2>1. req' = [req EXCEPT ![r] = Idle] /\ UNCHANGED <<disk, services>>
    BY <1>1 DEF Walk, services
  <2>2. QED
    BY <2>1, PlainAnswer
<1>2. ASSUME due # {} PROVE IInv'
  <2>1. PICK i \in due :
          /\ req' = [req EXCEPT ![r] = [Idle EXCEPT !.does = "sync", !.pc = "waiting",
                                          !.ws = list[i], !.obj = obj, !.at = i]]
          /\ loads' = Joined(list[i])
    BY <1>2 DEF Walk
  <2> DEFINE w == list[i]
             q == [Idle EXCEPT !.does = "sync", !.pc = "waiting", !.ws = w, !.obj = obj, !.at = i]
  <2>2. list \in Seq(Workspace) /\ i \in 1..Len(list) /\ i \in Nat
    OBVIOUS
  <2>3. w \in Workspace /\ ~Answered(w, workspaces)
    BY <2>2
  <2>4. /\ q \in ReqType /\ q.pc = "waiting" /\ q.ws = w /\ q.obj = obj /\ q.does = "sync"
        /\ ~q.marked
    BY <2>2, <2>3 DEF Idle, ReqType
  <2>5. Formed(q)
    BY <2>3, <2>4 DEF Formed
  <2> HIDE DEF q
  <2>6. loads' = Joined(w) /\ req' = [req EXCEPT ![r] = q]
    BY <2>1 DEF q
  <2> HIDE DEF w
  <2>7. QED
    BY <2>3, <2>4, <2>5, <2>6, PlainAsk
<1>3. QED
  BY <1>1, <1>2

LEMMA SyncsStep == ASSUME IInv, NEW r \in Request, Syncs(r) PROVE IInv'
<1>1. /\ saved' \in Seq(Workspace) /\ config' \in [Object -> Seq(Workspace)]
      /\ current' \in Object
  BY ReloadType DEF Syncs, IInv
<1>2. ~req[r].marked /\ UNCHANGED <<disk, workspaces>> /\ Walk(r, current', 0)
  BY IdlePlain DEF Syncs
<1>3. \E obj \in Object : obj = current' /\ Walk(r, obj, 0)
  BY <1>1, <1>2
<1>4. QED
  BY <1>1, <1>2, <1>3, WalkStep

LEMMA WalksStep == ASSUME IInv, NEW r \in Request, Walks(r) PROVE IInv'
<1>1. UNCHANGED registry /\ UNCHANGED <<disk, workspaces>> /\ Walk(r, req[r].obj, req[r].at)
  BY DEF Walks
<1>2. Formed(req[r]) /\ req[r] \in ReqType /\ req[r].pc = "walking"
  BY DEF Walks, IInv, Typed, RequestsFormed
<1>3. req[r].obj \in Object /\ req[r].at \in Nat /\ ~req[r].marked
  BY <1>2 DEF Formed, ReqType
<1>4. QED
  BY <1>1, <1>3, UnchangedTypes, WalkStep DEF IInv

LEMMA LeavesStep == ASSUME IInv, NEW r \in Request, Leaves(r) PROVE IInv'
<1>1. Formed(req[r]) /\ req[r].pc \in {"waiting", "walking"}
  BY DEF Leaves, IInv, RequestsFormed
<1>2. ~req[r].marked
  BY <1>1 DEF Formed
<1>3. QED
  BY <1>2, UnchangedTypes, PlainAnswer DEF Leaves, IInv

-----------------------------------------------------------------------------
(* Evictions, registrations and removals.                                  *)

LEMMA ReqFormed ==
    ASSUME IInv, NEW r \in Request PROVE req[r] \in ReqType /\ Formed(req[r])
  BY DEF IInv, Typed, RequestsFormed

LEMMA EvictsStep == ASSUME IInv, NEW r \in Request, Evicts(r) PROVE IInv'
<1>1. /\ req[r] \in ReqType /\ req[r].pc = "changed" /\ req[r].ws \in Workspace
      /\ req[r].does \in {"register", "deregister"}
  BY ReqFormed DEF Evicts, Formed
<1>2. UNCHANGED <<registry, disk>>
  BY DEF Evicts
<1>3. ASSUME Loading(req[r].ws) PROVE IInv'
  <2> DEFINE q == [req[r] EXCEPT !.pc = "awaiting"]
  <2>1. q \in ReqType /\ q.pc = "awaiting" /\ q.ws = req[r].ws /\ q.does = req[r].does
        /\ q.marked = req[r].marked
    BY <1>1 DEF ReqType
  <2>2. Moves(r, q) /\ UNCHANGED services
    BY <1>1, <1>3, <2>1 DEF Evicts, Moves, Formed
  <2>3. loads[q.ws].stage # "none"
    BY <1>3, <2>1 DEF Loading
  <2>4. QED
    BY <1>2, <2>1, <2>2, <2>3, UnchangedTypes, RequestStep DEF IInv, Pending
<1>4. ASSUME ~Loading(req[r].ws) PROVE IInv'
  BY <1>1, <1>2, <1>4, PopStep DEF Evicts
<1>5. QED
  BY <1>3, <1>4

LEMMA EvictsAfterLoadStep ==
    ASSUME IInv, NEW r \in Request, EvictsAfterLoad(r) PROVE IInv'
<1>1. /\ req[r].pc = "evicting" /\ req[r].ws \in Workspace
      /\ req[r].does \in {"register", "deregister"}
  BY ReqFormed DEF EvictsAfterLoad, Formed
<1>2. QED
  BY <1>1, PopStep DEF EvictsAfterLoad

LEMMA StopsStep == ASSUME IInv, NEW r \in Request, Stops(r) PROVE IInv'
<1>1. /\ req[r].pc = "stopping" /\ req[r].ws \in Workspace
      /\ req[r].does \in {"register", "deregister"}
  BY ReqFormed DEF Stops, Formed
<1>2. UNCHANGED <<registry, disk>> /\ workspaces' = workspaces
  BY DEF Stops
<1>3. req[r].pc \notin Pending \cup {"evicting"}
  BY <1>1 DEF Pending
<1>4. ASSUME req[r].does = "register" PROVE IInv'
  <2>1. LoadWorkspace(r, req[r].ws, workspaces')
    BY <1>2, <1>4 DEF Stops
  <2>2. QED
    BY <1>1, <1>2, <1>3, <2>1, LoadSteps
<1>5. ASSUME req[r].does # "register" PROVE IInv'
  <2>1. Moves(r, Idle) /\ Asks(req[r].ws)
    BY <1>5, IdleFormed DEF Stops, Moves, Asks
  <2>2. QED
    BY <1>1, <1>2, <1>3, <2>1, IdleFormed, UnchangedTypes, AskStep DEF IInv
<1>6. QED
  BY <1>4, <1>5

LEMMA RegistersStep == ASSUME IInv, NEW r \in Request, Registers(r) PROVE IInv'
<1>1. /\ req[r].ws \in Workspace /\ req[r].does \in {"register", "deregister"}
      /\ ~req[r].marked
  BY ReqFormed DEF Registers, Formed
<1>2. UNCHANGED <<registry, disk>> /\ workspaces' = workspaces
      /\ LoadWorkspace(r, req[r].ws, workspaces')
  BY DEF Registers
<1>3. QED
  BY <1>1, <1>2, LoadSteps

LEMMA AppendsStep == ASSUME IInv, NEW r \in Request, Appends(r) PROVE IInv'
<1> DEFINE w == req[r].ws
<1>1. /\ req[r] \in ReqType /\ req[r].pc = "marked" /\ w \in Workspace
      /\ req[r].does \in {"register", "deregister"}
  BY ReqFormed DEF Appends, Formed
<1>2. UNCHANGED <<disk, services>> /\ saved' \in Seq(Workspace) /\ current' \in Object
  BY DEF Appends, IInv, Typed
<1>3. ASSUME Contains(config[current], w) PROVE IInv'
  <2> DEFINE q == [req[r] EXCEPT !.pc = "changed"]
  <2>1. q \in ReqType /\ q.pc = "changed" /\ q.ws = w /\ q.does = req[r].does
        /\ q.marked = req[r].marked
    BY <1>1 DEF ReqType
  <2>2. Moves(r, q) /\ config' \in [Object -> Seq(Workspace)]
    BY <1>1, <1>3, <2>1 DEF Appends, Moves, Formed, IInv, Typed
  <2>3. QED
    BY <1>2, <2>1, <2>2, RequestStep DEF Pending
<1>4. ASSUME ~Contains(config[current], w) PROVE IInv'
  <2> DEFINE q == [req[r] EXCEPT !.pc = "saving", !.obj = current]
  <2>1. current \in Object
    BY DEF IInv, Typed
  <2>2. q \in ReqType /\ q.pc = "saving" /\ q.ws = w /\ q.does = req[r].does
        /\ q.marked = req[r].marked /\ q.obj = current
    BY <1>1, <2>1 DEF ReqType
  <2>3. req' = [req EXCEPT ![r] = q]
    BY <1>4 DEF Appends, IInv, Typed
  <2>4. Moves(r, q)
    BY <1>1, <2>1, <2>2, <2>3 DEF Moves, Formed
  <2>5. config' \in [Object -> Seq(Workspace)]
    <3>1. config \in [Object -> Seq(Workspace)] /\ config[current] \in Seq(Workspace)
      BY <2>1 DEF IInv, Typed
    <3>2. Append(config[current], w) \in Seq(Workspace)
      BY <1>1, <3>1, AppendType
    <3>3. config' = [config EXCEPT ![current] = Append(@, w)]
      BY <1>4 DEF Appends
    <3>4. QED
      BY <2>1, <3>1, <3>2, <3>3
  <2>6. QED
    BY <1>2, <2>2, <2>4, <2>5, RequestStep DEF Pending
<1>5. QED
  BY <1>3, <1>4

LEMMA SavesStep == ASSUME IInv, NEW r \in Request, Saves(r) PROVE IInv'
<1> DEFINE q == [req[r] EXCEPT !.pc = "changed", !.obj = None]
<1>1. /\ req[r] \in ReqType /\ req[r].pc = "saving" /\ req[r].ws \in Workspace
      /\ req[r].obj \in Object /\ req[r].does \in {"register", "deregister"}
  BY ReqFormed DEF Saves, Formed
<1>2. q \in ReqType /\ q.pc = "changed" /\ q.ws = req[r].ws /\ q.does = req[r].does
      /\ q.marked = req[r].marked
  BY <1>1 DEF ReqType
<1>3. req' = [req EXCEPT ![r] = q]
  BY DEF Saves, IInv, Typed
<1>4. Moves(r, q)
  BY <1>1, <1>2, <1>3 DEF Moves, Formed
<1>5. /\ UNCHANGED <<disk, services>> /\ saved' \in Seq(Workspace)
      /\ config' \in [Object -> Seq(Workspace)] /\ current' \in Object
  BY <1>1 DEF Saves, IInv, Typed
<1>6. QED
  BY <1>2, <1>4, <1>5, RequestStep DEF Pending

LEMMA DeregistersStep ==
    ASSUME IInv, NEW r \in Request, NEW w \in Workspace, Deregisters(r, w) PROVE IInv'
<1> DEFINE q == [Idle EXCEPT !.does = "deregister", !.pc = "removing",
                              !.ws = w, !.obj = current]
<1>1. current \in Object
  BY DEF IInv, Typed
<1>2. q \in ReqType /\ q.pc = "removing" /\ q.ws = w /\ q.does = "deregister"
      /\ q.obj = current /\ ~q.marked
  BY <1>1 DEF Idle, ReqType
<1>3. Moves(r, q)
  BY <1>1, <1>2 DEF Deregisters, Moves, Formed
<1>4. ~req[r].marked /\ UNCHANGED <<registry, disk, services>>
  BY IdlePlain DEF Deregisters
<1>5. QED
  BY <1>2, <1>3, <1>4, UnchangedTypes, RequestStep DEF IInv

LEMMA RemovesStep == ASSUME IInv, NEW r \in Request, Removes(r) PROVE IInv'
<1> DEFINE w == req[r].ws
           obj == req[r].obj
           q == [req[r] EXCEPT !.pc = "saving"]
<1>1. /\ req[r] \in ReqType /\ req[r].pc = "removing" /\ w \in Workspace
      /\ obj \in Object /\ req[r].does \in {"register", "deregister"} /\ ~req[r].marked
  BY ReqFormed DEF Removes, Formed
<1>2. UNCHANGED <<disk, services>> /\ saved' \in Seq(Workspace) /\ current' \in Object
  BY DEF Removes, IInv, Typed
<1>3. ASSUME NEW i \in 1..Len(config[obj]), config' = [config EXCEPT ![obj] = RemoveAt(@, i)],
             req' = [req EXCEPT ![r].pc = "saving"]
      PROVE  IInv'
  <2>1. q \in ReqType /\ q.pc = "saving" /\ q.ws = w /\ q.does = req[r].does
        /\ q.marked = req[r].marked /\ q.obj = obj
    BY <1>1 DEF ReqType
  <2>2. req' = [req EXCEPT ![r] = q]
    BY <1>3
  <2>3. Moves(r, q)
    BY <1>1, <2>1, <2>2 DEF Moves, Formed
  <2>4. config \in [Object -> Seq(Workspace)] /\ config[obj] \in Seq(Workspace)
    BY <1>1 DEF IInv, Typed
  <2>5. RemoveAt(config[obj], i) \in Seq(Workspace)
    BY <2>4, RemoveType
  <2>6. config' \in [Object -> Seq(Workspace)]
    BY <1>3, <2>4, <2>5
  <2>7. QED
    BY <1>1, <1>2, <2>1, <2>3, <2>6, RequestStep
<1>4. ASSUME config' = config, req' = [req EXCEPT ![r] = Idle] PROVE IInv'
  BY <1>1, <1>2, <1>4, PlainAnswer DEF IInv, Typed
<1>5. QED
  BY <1>3, <1>4 DEF Removes

-----------------------------------------------------------------------------
(* The directories and the loads.                                          *)

LEMMA DirectoryStep ==
    ASSUME IInv, NEW w \in Workspace, Vanishes(w) \/ Reappears(w) PROVE IInv'
<1>1. UNCHANGED <<saved, config, current, marker, workspaces, loads, req>>
  BY DEF Vanishes, Reappears, registry, services
<1>2. directory' \in [Workspace -> BOOLEAN]
  BY DEF Vanishes, Reappears, IInv, Typed
<1>3. Typed' /\ Awaited' /\ RequestsFormed'
  BY <1>1, <1>2 DEF IInv, Typed, Awaited, RequestsFormed
<1>4. BuildsAlone' /\ StoredViews' /\ BuiltViews'
  BY <1>1 DEF IInv, BuildsAlone, StoredViews, BuiltViews, Running, Loading, Evictor, Pending
<1>5. QED
  BY <1>3, <1>4 DEF IInv

\* One build goes on: it comes to l, the map holds s and the marker is b.
LEMMA BuildStep ==
    ASSUME IInv, NEW w \in Workspace, NEW l \in LoadType, NEW s \in Service \cup {None},
           NEW b \in BOOLEAN, l.stage # "none",
           loads' = [loads EXCEPT ![w] = l], workspaces' = [workspaces EXCEPT ![w] = s],
           marker' = [marker EXCEPT ![w] = b], UNCHANGED <<registry, directory, req>>,
           l.stage \in {"repairing", "repaired", "starting"} => ~(s # None /\ s.available),
           s # None /\ s.available /\ ~s.own /\ b => Evictor(w, Pending \cup {"evicting"}),
           l.stage = "starting" /\ ~l.svc.own /\ b => Evictor(w, Pending)
    PROVE  IInv'
<1>1. /\ UNCHANGED <<saved, config, current, directory, req>>
      /\ loads' \in [Workspace -> LoadType] /\ workspaces' \in [Workspace -> Service \cup {None}]
      /\ marker' \in [Workspace -> BOOLEAN]
  BY DEF IInv, Typed, registry
<1>2. /\ loads'[w] = l /\ workspaces'[w] = s /\ marker'[w] = b
      /\ \A v \in Workspace \ {w} :
            loads'[v] = loads[v] /\ workspaces'[v] = workspaces[v] /\ marker'[v] = marker[v]
  BY DEF IInv, Typed
<1>3. Typed' /\ RequestsFormed'
  BY <1>1 DEF IInv, Typed, RequestsFormed
<1>4. Awaited'
  <2>1. SUFFICES ASSUME NEW r \in Request, req[r].pc \in {"waiting", "awaiting"}
                 PROVE  loads'[req[r].ws].stage # "none"
    BY <1>1 DEF Awaited
  <2>2. req[r].ws \in Workspace /\ loads[req[r].ws].stage # "none"
    BY <2>1, ReqFormed DEF IInv, Awaited, Formed
  <2>3. QED
    BY <1>2, <2>2
<1>5. BuildsAlone'
  <2>1. SUFFICES ASSUME NEW v \in Workspace, Loading(v)', Running(v)' PROVE FALSE
    BY DEF BuildsAlone
  <2>2. v # w
    BY <1>2, <2>1 DEF Loading, Running
  <2>3. Loading(v) /\ Running(v)
    BY <1>2, <2>1, <2>2 DEF Loading, Running
  <2>4. QED
    BY <2>3 DEF IInv, BuildsAlone
<1>6. ASSUME NEW v \in Workspace, NEW pcs, Evictor(v, pcs) PROVE Evictor(v, pcs)'
  BY <1>1, <1>6 DEF Evictor
<1>7. StoredViews'
  <2>1. SUFFICES ASSUME NEW v \in Workspace, Running(v)', ~workspaces'[v].own, marker'[v]
                 PROVE  Evictor(v, Pending \cup {"evicting"})'
    BY DEF StoredViews, Pending
  <2>2. Evictor(v, Pending \cup {"evicting"})
    <3>1. CASE v = w
      BY <1>2, <2>1, <3>1 DEF Running
    <3>2. CASE v # w
      BY <1>2, <2>1, <3>2 DEF IInv, StoredViews, Running
    <3>3. QED
      BY <3>1, <3>2
  <2>3. QED
    BY <1>6, <2>2
<1>8. BuiltViews'
  <2>1. SUFFICES ASSUME NEW v \in Workspace,
                        loads'[v].stage = "starting", ~loads'[v].svc.own, marker'[v]
                 PROVE  Evictor(v, Pending)'
    BY DEF BuiltViews, Pending
  <2>2. Evictor(v, Pending)
    <3>1. CASE v = w
      BY <1>2, <2>1, <3>1
    <3>2. CASE v # w
      BY <1>2, <2>1, <3>2 DEF IInv, BuiltViews
    <3>3. QED
      BY <3>1, <3>2
  <2>3. QED
    BY <1>6, <2>2
<1>9. QED
  BY <1>3, <1>4, <1>5, <1>7, <1>8 DEF IInv

\* What a build leaves alone, as BuildStep names it.
LEMMA Unmoved ==
    ASSUME IInv, NEW w \in Workspace
    PROVE  /\ workspaces = [workspaces EXCEPT ![w] = workspaces[w]]
           /\ marker = [marker EXCEPT ![w] = marker[w]]
           /\ workspaces[w] \in Service \cup {None} /\ marker[w] \in BOOLEAN
           /\ directory[w] \in BOOLEAN /\ loads[w] \in LoadType
           /\ Running(w) /\ ~workspaces[w].own /\ marker[w]
                => Evictor(w, Pending \cup {"evicting"})
           /\ Loading(w) => ~(workspaces[w] # None /\ workspaces[w].available)
<1>1. /\ workspaces = [workspaces EXCEPT ![w] = workspaces[w]]
      /\ marker = [marker EXCEPT ![w] = marker[w]]
      /\ workspaces[w] \in Service \cup {None} /\ marker[w] \in BOOLEAN
      /\ directory[w] \in BOOLEAN /\ loads[w] \in LoadType
  BY DEF IInv, Typed
<1>2. /\ Running(w) /\ ~workspaces[w].own /\ marker[w]
            => Evictor(w, Pending \cup {"evicting"})
      /\ Loading(w) => ~(workspaces[w] # None /\ workspaces[w].available)
  BY DEF IInv, StoredViews, BuildsAlone, Running
<1>3. QED
  BY <1>1, <1>2

LEMMA RepairsStep == ASSUME IInv, NEW w \in Workspace, Repairs(w) PROVE IInv'
<1> DEFINE l == [loads[w] EXCEPT !.stage = "repaired"]
<1>1. l \in LoadType /\ l.stage = "repaired" /\ loads' = [loads EXCEPT ![w] = l]
  BY Unmoved DEF Repairs, LoadType
<1>2. ~(workspaces[w] # None /\ workspaces[w].available)
  BY Unmoved DEF Repairs, Loading
<1>3. PICK b \in BOOLEAN : marker' = [marker EXCEPT ![w] = b]
  BY Unmoved DEF Repairs
<1>4. UNCHANGED <<registry, directory, req>> /\ workspaces' = [workspaces EXCEPT ![w] = workspaces[w]]
  BY Unmoved DEF Repairs
<1> HIDE DEF l
<1>5. QED
  BY <1>1, <1>2, <1>3, <1>4, Unmoved, BuildStep

LEMMA StoredStep ==
    ASSUME IInv, NEW w \in Workspace, NEW svc \in Service \cup {None},
           Stored(w, svc), UNCHANGED <<registry, disk, req>>,
           svc # None /\ svc.available /\ ~svc.own /\ marker[w] => Evictor(w, Pending)
    PROVE  IInv'
<1> DEFINE l == [stage |-> "done", svc |-> None]
<1>1. l \in LoadType /\ l.stage = "done"
  BY DEF LoadType
<1>2. /\ loads' = [loads EXCEPT ![w] = l] /\ workspaces' = [workspaces EXCEPT ![w] = svc]
      /\ marker' = [marker EXCEPT ![w] = marker[w]] /\ UNCHANGED <<registry, directory, req>>
  BY Unmoved DEF Stored, disk
<1>3. svc # None /\ svc.available /\ ~svc.own /\ marker[w] => Evictor(w, Pending \cup {"evicting"})
  BY DEF Evictor
<1> HIDE DEF l
<1>4. QED
  BY <1>1, <1>2, <1>3, Unmoved, BuildStep

LEMMA ConstructsStep == ASSUME IInv, NEW w \in Workspace, Constructs(w) PROVE IInv'
<1> DEFINE svc == [available |-> directory[w], own |-> directory[w] /\ marker[w]]
           l == [stage |-> "starting", svc |-> svc]
<1>1. svc \in Service
  BY Unmoved DEF Service
<1>2. ASSUME directory[w] PROVE IInv'
  <2>1. l \in LoadType /\ l.stage = "starting" /\ (l.svc.own <=> marker[w])
    BY <1>1, <1>2 DEF LoadType
  <2>2. /\ loads' = [loads EXCEPT ![w] = l] /\ workspaces' = [workspaces EXCEPT ![w] = workspaces[w]]
        /\ marker' = [marker EXCEPT ![w] = marker[w]] /\ UNCHANGED <<registry, directory, req>>
    BY <1>2, Unmoved DEF Constructs, disk
  <2>3. ~(workspaces[w] # None /\ workspaces[w].available)
    BY Unmoved DEF Constructs, Loading
  <2> HIDE DEF l
  <2>4. QED
    BY <2>1, <2>2, <2>3, Unmoved, BuildStep
<1>3. ASSUME ~directory[w] PROVE IInv'
  <2>1. Stored(w, svc) /\ UNCHANGED <<registry, disk, req>> /\ ~svc.available
    BY <1>3 DEF Constructs
  <2>2. QED
    BY <1>1, <2>1, StoredStep
<1>4. QED
  BY <1>2, <1>3

LEMMA StartsStep == ASSUME IInv, NEW w \in Workspace, Starts(w) PROVE IInv'
<1>1. loads[w].stage = "starting" /\ loads[w].svc \in Service \cup {None}
  BY Unmoved DEF Starts, LoadType
<1>2. ~loads[w].svc.own /\ marker[w] => Evictor(w, Pending)
  BY <1>1 DEF IInv, BuiltViews
<1>3. Stored(w, loads[w].svc) /\ UNCHANGED <<registry, disk, req>>
  BY DEF Starts
<1>4. QED
  BY <1>1, <1>2, <1>3, StoredStep

LEMMA LoadFailsStep == ASSUME IInv, NEW w \in Workspace, LoadFails(w) PROVE IInv'
<1> DEFINE l == [stage |-> "failed", svc |-> None]
<1>1. l \in LoadType /\ l.stage = "failed"
  BY DEF LoadType
<1>2. /\ loads' = [loads EXCEPT ![w] = l] /\ workspaces' = [workspaces EXCEPT ![w] = workspaces[w]]
      /\ marker' = [marker EXCEPT ![w] = marker[w]] /\ UNCHANGED <<registry, directory, req>>
  BY Unmoved DEF LoadFails, disk
<1> HIDE DEF l
<1>3. QED
  BY <1>1, <1>2, Unmoved, BuildStep DEF Running

\* What a request is told when a load has ended.
LEMMA WokenRequest ==
    ASSUME IInv, NEW w \in Workspace, NEW r \in Request
    PROVE  /\ Woken(w)[r] \in ReqType /\ Formed(Woken(w)[r])
           /\ Woken(w)[r].pc \in {"waiting", "awaiting"} =>
                 Woken(w)[r] = req[r] /\ req[r].ws # w
           /\ req[r].ws # w => Woken(w)[r] = req[r]
           /\ req[r].marked /\ req[r].pc \in Pending \cup {"evicting"} =>
                 /\ Woken(w)[r].marked /\ Woken(w)[r].ws = req[r].ws
                 /\ Woken(w)[r].pc \in Pending \cup {"evicting"}
<1>1. req[r] \in ReqType /\ Formed(req[r])
  BY ReqFormed
<1>2. CASE req[r].ws # w
  <2>1. Woken(w)[r] = req[r]
    BY <1>2 DEF Woken
  <2>2. QED
    BY <1>1, <1>2, <2>1
<1>3. CASE req[r].ws = w /\ req[r].pc = "waiting" /\ req[r].does = "sync"
  <2> DEFINE q == [req[r] EXCEPT !.pc = "walking", !.ws = None]
  <2>1. Woken(w)[r] = q
    BY <1>3 DEF Woken
  <2>2. q \in ReqType /\ q.pc = "walking" /\ q.obj = req[r].obj /\ q.marked = req[r].marked
    BY <1>1 DEF ReqType
  <2>3. req[r].obj \in Object /\ ~req[r].marked
    BY <1>1, <1>3 DEF Formed
  <2>4. QED
    BY <1>3, <2>1, <2>2, <2>3 DEF Formed
<1>4. CASE req[r].ws = w /\ req[r].pc = "waiting" /\ req[r].does # "sync"
  <2>1. Woken(w)[r] = Idle
    BY <1>4 DEF Woken
  <2>2. ~req[r].marked
    BY <1>1, <1>4 DEF Formed
  <2>3. QED
    BY <1>4, <2>1, <2>2, IdleFormed
<1>5. CASE req[r].ws = w /\ req[r].pc = "awaiting"
  <2> DEFINE q == [req[r] EXCEPT !.pc = "evicting"]
  <2>1. Woken(w)[r] = q
    BY <1>5 DEF Woken
  <2>2. /\ q \in ReqType /\ q.pc = "evicting" /\ q.ws = w /\ q.does = req[r].does
        /\ q.marked = req[r].marked
    BY <1>1, <1>5 DEF ReqType
  <2>3. QED
    BY <1>1, <1>5, <2>1, <2>2 DEF Formed
<1>6. CASE req[r].ws = w /\ req[r].pc \notin {"waiting", "awaiting"}
  <2>1. Woken(w)[r] = req[r]
    BY <1>6 DEF Woken
  <2>2. QED
    BY <1>1, <1>6, <2>1
<1>7. QED
  BY <1>2, <1>3, <1>4, <1>5, <1>6

LEMMA FinishesStep == ASSUME IInv, NEW w \in Workspace, Finishes(w) PROVE IInv'
<1>1. UNCHANGED <<saved, config, current, directory, marker, workspaces>>
  BY DEF Finishes, registry, disk
<1>2. NoLoad \in LoadType /\ NoLoad.stage = "none"
  BY DEF NoLoad, LoadType
<1>3. /\ loads' \in [Workspace -> LoadType] /\ loads'[w] = NoLoad
      /\ \A v \in Workspace \ {w} : loads'[v] = loads[v]
  BY <1>2 DEF Finishes, IInv, Typed
<1>4. \A r \in Request : req'[r] = Woken(w)[r]
  BY DEF Finishes
<1>5. \A r \in Request : req'[r] \in ReqType /\ Formed(req'[r])
  BY <1>4, WokenRequest
<1>6. \E f : req' = [r \in Request |-> f[r]]
  <2> DEFINE end(r) ==
               IF req[r].ws # w THEN req[r]
               ELSE CASE req[r].pc = "waiting" /\ req[r].does = "sync" ->
                            [req[r] EXCEPT !.pc = "walking", !.ws = None]
                      [] req[r].pc = "waiting" /\ req[r].does # "sync" -> Idle
                      [] req[r].pc = "awaiting" -> [req[r] EXCEPT !.pc = "evicting"]
                      [] OTHER -> req[r]
  <2>1. req' = [r \in Request |-> end(r)]
    BY DEF Finishes, Woken
  <2> HIDE DEF end
  <2>2. req' = [r \in Request |-> req'[r]]
    BY <2>1
  <2>3. QED
    BY <2>2
<1>7. req' \in [Request -> ReqType]
  BY <1>5, <1>6
<1>8. Typed' /\ RequestsFormed'
  BY <1>1, <1>3, <1>5, <1>7 DEF IInv, Typed, RequestsFormed
<1>9. Awaited'
  <2>1. SUFFICES ASSUME NEW r \in Request, req'[r].pc \in {"waiting", "awaiting"}
                 PROVE  loads'[req'[r].ws].stage # "none"
    BY DEF Awaited
  <2>2. req'[r] = req[r] /\ req[r].ws # w
    BY <1>4, <2>1, WokenRequest
  <2>3. req[r].ws \in Workspace /\ loads[req[r].ws].stage # "none"
    BY <2>1, <2>2, ReqFormed DEF IInv, Awaited, Formed
  <2>4. QED
    BY <1>3, <2>2, <2>3
<1>10. BuildsAlone'
  <2>1. SUFFICES ASSUME NEW v \in Workspace, Loading(v)', Running(v)' PROVE FALSE
    BY DEF BuildsAlone
  <2>2. Loading(v) /\ Running(v)
    BY <1>1, <1>2, <1>3, <2>1 DEF Loading, Running
  <2>3. QED
    BY <2>2 DEF IInv, BuildsAlone
<1>11. StoredViews'
  <2>1. SUFFICES ASSUME NEW v \in Workspace, Running(v)', ~workspaces'[v].own, marker'[v]
                 PROVE  Evictor(v, Pending \cup {"evicting"})'
    BY DEF StoredViews, Pending
  <2>2. PICK r \in Request : req[r].marked /\ req[r].ws = v /\ req[r].pc \in Pending \cup {"evicting"}
    BY <1>1, <2>1 DEF IInv, StoredViews, Running, Evictor
  <2>3. /\ req'[r].marked /\ req'[r].ws = v /\ req'[r].pc \in Pending \cup {"evicting"}
    BY <1>4, <2>2, WokenRequest
  <2>4. QED
    BY <2>3 DEF Evictor, Pending
<1>12. BuiltViews'
  <2>1. SUFFICES ASSUME NEW v \in Workspace,
                        loads'[v].stage = "starting", ~loads'[v].svc.own, marker'[v]
                 PROVE  Evictor(v, Pending)'
    BY DEF BuiltViews, Pending
  <2>2. v # w /\ loads'[v] = loads[v]
    BY <1>2, <1>3, <2>1
  <2>3. PICK r \in Request : req[r].marked /\ req[r].ws = v /\ req[r].pc \in Pending
    BY <1>1, <2>1, <2>2 DEF IInv, BuiltViews, Evictor
  <2>4. req'[r] = req[r]
    BY <1>4, <2>2, <2>3, WokenRequest
  <2>5. QED
    BY <2>3, <2>4 DEF Evictor, Pending
<1>13. QED
  BY <1>8, <1>9, <1>10, <1>11, <1>12 DEF IInv

LEMMA MarksStep ==
    ASSUME IInv, NEW r \in Request, NEW w \in Workspace, Marks(r, w) PROVE IInv'
<1> DEFINE q == [Idle EXCEPT !.does = "register", !.pc = "marked", !.ws = w,
                              !.marked = ~marker[w]]
<1>1. /\ q \in ReqType /\ q.pc = "marked" /\ q.ws = w /\ q.does = "register"
      /\ (q.marked <=> ~marker[w])
  BY Unmoved DEF Idle, ReqType
<1>2. Moves(r, q)
  BY <1>1 DEF Marks, Moves, Formed
<1>3. /\ req' \in [Request -> ReqType] /\ req'[r] = q
      /\ \A s \in Request \ {r} : req'[s] = req[s]
      /\ RequestsFormed'
  BY <1>2, MovesReq DEF IInv
<1>4. ~req[r].marked /\ req[r].pc = "idle"
  BY IdleFormed DEF Marks
<1>5. UNCHANGED <<saved, config, current, directory, workspaces, loads>>
  BY DEF Marks, registry, services
<1>6. /\ marker' \in [Workspace -> BOOLEAN] /\ marker'[w]
      /\ \A v \in Workspace \ {w} : marker'[v] = marker[v]
  BY DEF Marks, IInv, Typed
<1>7. Typed'
  BY <1>3, <1>5, <1>6 DEF IInv, Typed
<1>8. Awaited'
  BY <1>1, <1>3, <1>5 DEF IInv, Awaited
<1>9. BuildsAlone'
  BY <1>5 DEF IInv, BuildsAlone, Loading, Running
<1>10. \A v, pcs : Evictor(v, pcs) => Evictor(v, pcs)'
  BY <1>3, <1>4, EvictorStays
<1>11. ~marker[w] => Evictor(w, Pending)' /\ Evictor(w, Pending \cup {"evicting"})'
  BY <1>1, <1>3 DEF Evictor, Pending
<1>12. StoredViews'
  <2>1. SUFFICES ASSUME NEW v \in Workspace, Running(v)', ~workspaces'[v].own, marker'[v]
                 PROVE  Evictor(v, Pending \cup {"evicting"})'
    BY DEF StoredViews, Pending
  <2>2. CASE v = w /\ ~marker[w]
    BY <1>11, <2>2
  <2>3. CASE marker[v]
    BY <1>5, <1>10, <2>1, <2>3 DEF IInv, StoredViews, Running
  <2>4. QED
    BY <1>6, <2>1, <2>2, <2>3
<1>13. BuiltViews'
  <2>1. SUFFICES ASSUME NEW v \in Workspace,
                        loads'[v].stage = "starting", ~loads'[v].svc.own, marker'[v]
                 PROVE  Evictor(v, Pending)'
    BY DEF BuiltViews, Pending
  <2>2. CASE v = w /\ ~marker[w]
    BY <1>11, <2>2
  <2>3. CASE marker[v]
    BY <1>5, <1>10, <2>1, <2>3 DEF IInv, BuiltViews
  <2>4. QED
    BY <1>6, <2>1, <2>2, <2>3
<1>14. QED
  BY <1>3, <1>7, <1>8, <1>9, <1>12, <1>13 DEF IInv

-----------------------------------------------------------------------------
(* The theorems.                                                           *)

LEMMA InitHolds == ASSUME Init PROVE IInv
<1>1. current \in Object /\ saved \in Seq(Workspace)
  <2>1. \E o : o \in Object
    <3>1. /\ IsFiniteSet(Object) /\ Cardinality(Object) > Cardinality(Request)
          /\ IsFiniteSet(Request)
      BY LoadsAssumption
    <3>2. Cardinality(Object) \in Nat /\ Cardinality(Request) \in Nat
      BY <3>1, FS_CardinalityType
    <3>3. Object # {}
      BY <3>1, <3>2, FS_EmptySet
    <3>4. QED
      BY <3>3
  <2>2. PICK n \in 0..Cardinality(Workspace) : saved \in [1..n -> Workspace]
    BY DEF Init
  <2>3. QED
    BY <2>1, <2>2 DEF Init
<1>2. config \in [Object -> Seq(Workspace)]
  <2>1. <<>> \in Seq(Workspace)
    OBVIOUS
  <2>2. QED
    BY <1>1, <2>1 DEF Init
<1>3. NoLoad \in LoadType /\ NoLoad.stage = "none"
  BY DEF NoLoad, LoadType
<1>4. Typed
  BY <1>1, <1>2, <1>3, IdleFormed DEF Init, Typed
<1>5. Awaited /\ RequestsFormed
  BY IdleFormed DEF Init, Awaited, RequestsFormed
<1>6. BuildsAlone /\ StoredViews /\ BuiltViews
  BY <1>3 DEF Init, BuildsAlone, StoredViews, BuiltViews, Loading, Running
<1>7. QED
  BY <1>4, <1>5, <1>6 DEF IInv

LEMMA Stutters == ASSUME IInv, UNCHANGED vars PROVE IInv'
  BY DEF vars, registry, disk, services, IInv, Typed, Awaited, RequestsFormed, BuildsAlone,
         StoredViews, BuiltViews, Loading, Running, Evictor, Pending

\* The steps of Next.
LEMMA Steps ==
    ASSUME IInv, [Next]_vars PROVE IInv'
<1>1. ASSUME NEW w \in Workspace, Builds(w) PROVE IInv'
  BY <1>1, RepairsStep, ConstructsStep, StartsStep, LoadFailsStep, FinishesStep DEF Builds
<1>2. ASSUME NEW w \in Detachable, Vanishes(w) \/ Reappears(w) PROVE IInv'
  BY <1>2, DirectoryStep, LoadsAssumption
<1>3. ASSUME NEW r \in Request, GoesOn(r) PROVE IInv'
  BY <1>3, WalksStep, EvictsStep, EvictsAfterLoadStep, StopsStep, AppendsStep, SavesStep,
     RegistersStep, RemovesStep DEF GoesOn
<1>4. ASSUME NEW r \in Request, Leaves(r) \/ Syncs(r) PROVE IInv'
  BY <1>4, LeavesStep, SyncsStep
<1>5. ASSUME NEW r \in Request, NEW w \in Workspace,
             Gets(r, w) \/ GetFails(r, w) \/ Marks(r, w) \/ Deregisters(r, w)
      PROVE  IInv'
  BY <1>5, GetsStep, GetFailsStep, MarksStep, DeregistersStep
<1>6. Client \subseteq Request /\ Lister \subseteq Request
  BY DEF Request
<1>7. CASE Next
  BY <1>1, <1>2, <1>3, <1>4, <1>5, <1>6, <1>7 DEF Next
<1>8. QED
  BY <1>7, Stutters

\* Nothing the requests, builds and directories do breaks the strengthening.
THEOREM Invariance == Spec => []IInv
  BY InitHolds, Steps, PTL DEF Spec

\* The service and load maps, the registry, its objects and the requests keep
\* to their types, and whoever waits for a load has one to wait for.
THEOREM Typing == Spec => []TypeOK
<1>1. IInv => TypeOK
  BY TypeSplits DEF IInv
<1>2. QED
  BY <1>1, Invariance, PTL

\* A service that runs on another directory's sessions although the marker is
\* there is in the map only while the registration that wrote the marker has
\* not evicted it (register_workspace, _evict).
THEOREM StaleEvicted == Spec => []StaleViewsAreEvicted
<1>1. IInv => StaleViewsAreEvicted
  <2>1. SUFFICES ASSUME IInv, NEW w \in Workspace, Running(w), ~workspaces[w].own, marker[w]
                 PROVE  \E r \in Request : req[r].marked /\ req[r].ws = w
    BY DEF StaleViewsAreEvicted, Running
  <2>2. QED
    BY <2>1 DEF IInv, StoredViews, Evictor
<1>2. QED
  BY <1>1, Invariance, PTL

Stopped(w) == \E r \in Request : req'[r].pc = "stopping" /\ req'[r].ws = w

LEMMA BuildsKeepRunning ==
    ASSUME IInv, NEW v \in Workspace, Builds(v), NEW w \in Workspace, Running(w)
    PROVE  workspaces'[w] = workspaces[w]
<1>1. Loading(v) => v # w
  BY DEF IInv, BuildsAlone
<1>2. CASE Repairs(v) \/ LoadFails(v) \/ Finishes(v)
  BY <1>2 DEF Repairs, LoadFails, Finishes
<1>3. CASE Starts(v)
  BY <1>1, <1>3 DEF Starts, Stored, Loading, IInv, Typed
<1>4. CASE Constructs(v)
  <2>1. v # w
    BY <1>1, <1>4 DEF Constructs, Loading
  <2>2. CASE directory[v]
    BY <1>4, <2>2 DEF Constructs
  <2>3. CASE ~directory[v]
    BY <1>4, <2>1, <2>3 DEF Constructs, Stored, IInv, Typed
  <2>4. QED
    BY <2>2, <2>3
<1>5. QED
  BY <1>2, <1>3, <1>4 DEF Builds

LEMMA PopStops ==
    ASSUME IInv, NEW r \in Request, Pop(r), NEW w \in Workspace, Running(w),
           workspaces'[w] # workspaces[w]
    PROVE  Stopped(w)
<1>1. w = req[r].ws
  BY DEF Pop, IInv, Typed
<1>2. req' = [req EXCEPT ![r].pc = "stopping"]
  BY <1>1 DEF Pop, Running
<1>3. req'[r].pc = "stopping" /\ req'[r].ws = w
  BY <1>1, <1>2 DEF IInv, Typed, ReqType
<1>4. QED
  BY <1>3 DEF Stopped

LEMMA StepsLeakNothing ==
    ASSUME IInv, [Next]_vars, NEW w \in Workspace, Running(w), workspaces'[w] # workspaces[w]
    PROVE  Stopped(w)
<1>1. ~UNCHANGED workspaces
  OBVIOUS
<1>2. ASSUME NEW v \in Workspace, Builds(v) PROVE FALSE
  BY <1>2, BuildsKeepRunning
<1>3. ASSUME NEW v, Vanishes(v) \/ Reappears(v) PROVE FALSE
  BY <1>1, <1>3 DEF Vanishes, Reappears, services
<1>4. ASSUME NEW r \in Request, GoesOn(r) PROVE Stopped(w)
  <2>1. CASE Evicts(r)
    BY <1>1, <2>1, PopStops DEF Evicts, services
  <2>2. CASE EvictsAfterLoad(r)
    BY <2>2, PopStops DEF EvictsAfterLoad
  <2>3. CASE Walks(r) \/ Stops(r) \/ Appends(r) \/ Saves(r) \/ Registers(r) \/ Removes(r)
    BY <1>1, <2>3 DEF Walks, Stops, Appends, Saves, Registers, Removes, services
  <2>4. QED
    BY <1>4, <2>1, <2>2, <2>3 DEF GoesOn
<1>5. ASSUME NEW r, NEW v,
             \/ Leaves(r) \/ Syncs(r) \/ Gets(r, v) \/ GetFails(r, v) \/ Marks(r, v)
             \/ Deregisters(r, v)
      PROVE  FALSE
  BY <1>1, <1>5 DEF Leaves, Syncs, Gets, GetFails, Marks, Deregisters, services
<1>6. CASE Next
  BY <1>2, <1>3, <1>4, <1>5, <1>6 DEF Next
<1>7. CASE UNCHANGED vars
  BY <1>1, <1>7 DEF vars, services
<1>8. QED
  BY <1>6, <1>7

\* A running service leaves the map only to be stopped: no load is stored over
\* it, whatever is evicted, registered or rebuilt meanwhile.
THEOREM NoneLeaks == Spec => NoServiceLeaked
<1>1. IInv /\ [Next]_vars =>
        [\A w \in Workspace :
            /\ workspaces[w] # None /\ workspaces[w].available
            /\ workspaces'[w] # workspaces[w]
            => \E r \in Request : req'[r].pc = "stopping" /\ req'[r].ws = w]_vars
  BY StepsLeakNothing DEF Stopped, Running
<1>2. QED
  BY <1>1, Invariance, PTL DEF Spec, NoServiceLeaked

=============================================================================

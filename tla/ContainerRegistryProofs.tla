---------------------- MODULE ContainerRegistryProofs ----------------------
(***************************************************************************)
(* Proofs about ContainerRegistry, for any number of containers, sessions  *)
(* and clients.                                                            *)
(***************************************************************************)
EXTENDS ContainerRegistry, TLAPS

(* An operation that still holds the registered object finds it: a stop or *)
(* kill, the probe under way, and the spawner of a container.              *)
CallsHold ==
    \A a \in Actor :
        /\ op[a].pc # "none" => op[a].id \in Id
        /\ op[a].pc \in {"signalling", "signalled"} /\ a \notin stale => Registered(op[a].id)

ProbeHolds ==
    /\ mon.pc \in {"probing", "answered", "deciding"} => mon.cur \in Id
    /\ mon.pc \in {"probing", "answered"} /\ ~Orphaned(mon.cur)
       => Registered(mon.cur) /\ mon.before \in Probed

SpawnersHold ==
    \A id \in Id :
        spawn[id].pc \in {"held", "started", "minted"} /\ <<"spawn", id>> \notin stale
        => Registered(id)

RefsHold == CallsHold /\ ProbeHolds /\ SpawnersHold

(* Before podman run is through, the id is unknown to everybody.           *)
Prelaunch == {"unminted", "launching", "abandoned"}
UnlaunchedUnknown ==
    \A id \in Id :
        spawn[id].pc \in Prelaunch =>
            /\ rt[id] = "absent" /\ ~Registered(id)
            /\ sync.pc = "listed" => sync.seen[id] = "absent"

(* What a listing took for absent, and nobody has written since, is.       *)
ListedAbsent ==
    \A id \in Id :
        /\ sync.pc = "listed" /\ id \notin sync.written
        /\ Registered(id) /\ sync.seen[id] = "absent"
        => rt[id] = "absent"

(* A process that was stopped after the listing has a stop that is yet to  *)
(* mark it.                                                                *)
ListedStopped ==
    \A id \in Id :
        /\ sync.pc = "listed" /\ id \notin sync.written
        /\ sync.seen[id] = "running" /\ rt[id] = "stopped"
        => \E a \in Actor : op[a].id = id /\ op[a].pc = "signalled"

(* Until a session is recorded as a container's owner, the claim covers it. *)
ClaimsCover ==
    \A id \in Id :
        /\ spawn[id].pc \in {"launching", "launched", "minted"} => id \in spawning
        /\ spawn[id].pc = "held" /\ spawn[id].owner = None => id \in spawning
        /\ spawn[id].pc = "started" => spawn[id].owner # None

(* After that, the entry's owner does, while the spawner's entry is there. *)
HeldOwned ==
    \A id \in Id :
        /\ spawn[id].pc \in {"held", "started"} /\ spawn[id].owner # None
        /\ <<"spawn", id>> \notin stale
        => Registered(id) /\ reg[id].owner # None

(* The monitor stops or removes a container only while it reaps it.        *)
ReapsAreThePolls ==
    op[Monitor].id # None =>
        /\ mon.pc = "reaping" /\ op[Monitor].pc # "none"
        /\ \A id \in Id : op[Monitor].id = id => spawn[id].pc \notin Prelaunch

-----------------------------------------------------------------------------
(* Type correctness.                                                       *)

LEMMA MarkedType == ASSUME NEW s \in Listing, NEW id \in Id PROVE Marked(s, id) \in Listing
BY DEF Listing, Marked

LEMMA ConstantTypes ==
    /\ NoSession \in Report /\ NoSync \in Listing /\ NoPoll \in Polling /\ Idle \in Call
    /\ \A status \in Status, port \in BOOLEAN, owner \in Owner :
          NewEntry(status, port, owner) \in Entry
BY MaxFailuresPositive
DEF NoSession, NoSync, NoPoll, Idle, NewEntry, Report, Listing, Polling, Call, Entry, Owner,
    Status

LEMMA OnwardType ==
    ASSUME NEW m \in Polling PROVE Onward(m) \in Polling /\ Resumed(m) \in Polling
BY DEF Onward, Resumed, Polling, Status, NoSession, Report, Owner

LEMMA OnwardPastType ==
    ASSUME NEW m \in Polling, NEW id \in Id
    PROVE  /\ [Onward(m) EXCEPT !.todo = @ \ {id}] \in Polling
           /\ [Onward(m) EXCEPT !.pc = "reaping", !.todo = @ \ {id}] \in Polling
BY OnwardType DEF Polling

LEMMA RefsType ==
    ASSUME TypeOK, NEW D \in SUBSET Id PROVE RefsTo(D) \subseteq Ref
BY DEF TypeOK, RefsTo, Ref

LEMMA TypeEnvironment == ASSUME TypeOK, Environment PROVE TypeOK'
<1> USE DEF TypeOK
<1>1. ASSUME NEW id \in Id, RuntimeExits(id) \/ RuntimePrunes(id) PROVE TypeOK'
  BY <1>1, ConstantTypes DEF RuntimeExits, RuntimePrunes, Process
<1>2. ASSUME NEW id \in Id, Ages(id) PROVE TypeOK'
  <2>1. reg[id] \in Entry
    BY <1>2 DEF Ages, Registered
  <2>2. [reg[id] EXCEPT !.aged = TRUE] \in Entry
    BY <2>1 DEF Entry
  <2>3. reg' \in [Id -> Entry \cup {None}]
    BY <1>2, <2>2 DEF Ages
  <2>4. QED
    BY <1>2, <2>3 DEF Ages, external
<1>3. ASSUME NEW p \in posts, ApiStarts(p) \/ PostFails(p) PROVE TypeOK'
  <2>1. p.id \in Id /\ p.sid \in Session
    BY DEF Post
  <2>2. api' \in [Id -> Report]
    <3>1. Served(api[p.id], p.sid, p.primary) \in Report
      BY <2>1 DEF Served, Report, Owner
    <3>2. QED
      BY <1>3, <2>1, <3>1 DEF ApiStarts, PostFails
  <2>3. QED
    BY <1>3, <2>2 DEF ApiStarts, PostFails
<1>4. ASSUME NEW id \in Id, NEW s \in Session, ApiMemberEnds(id, s) PROVE TypeOK'
  <2>1. api' \in [Id -> Report]
    BY <1>4 DEF ApiMemberEnds, Report
  <2>2. QED
    BY <1>4, <2>1 DEF ApiMemberEnds
<1>5. QED
  BY <1>1, <1>2, <1>3, <1>4 DEF Environment

\* What the operations make of an entry is an entry.
LEMMA EntryType ==
    ASSUME NEW e \in Entry
    PROVE  /\ \A status \in Status : [e EXCEPT !.status = status] \in Entry
           /\ \A s \in Owner : [e EXCEPT !.owner = s] \in Entry
           /\ \A S \in SUBSET Session : [e EXCEPT !.members = S] \in Entry
           /\ \A n \in 0..MaxFailures : /\ [e EXCEPT !.failures = n] \in Entry
                                        /\ [e EXCEPT !.failures = n, !.status = "crashed",
                                                     !.live = {}] \in Entry
BY DEF Entry, Status

LEMMA ToldType ==
    ASSUME NEW e \in Entry, NEW r \in Report, NEW adopted
    PROVE  Told(e, r, adopted) \in Entry
<1> DEFINE primary == IF r.primary # None THEN r.primary ELSE e.owner
           members == IF adopted THEN r.live \ {primary} ELSE e.members
<1>1. /\ primary \in Owner /\ members \in SUBSET Session /\ r.live \in SUBSET Session
      /\ 0 \in 0..MaxFailures /\ "running" \in Status
  BY MaxFailuresPositive DEF Entry, Report, Status
<1>2. Told(e, r, adopted) = [e EXCEPT !.status = "running", !.failures = 0, !.owner = primary,
                                      !.live = r.live, !.members = members]
  BY DEF Told
<1> HIDE DEF primary, members
<1>3. QED
  BY <1>1, <1>2 DEF Entry

LEMMA CallType ==
    ASSUME NEW c \in Call
    PROVE  \A pc \in {"none", "signalling", "signalled", "removing", "removed"} :
              [c EXCEPT !.pc = pc] \in Call
BY DEF Call

LEMMA ObservedType ==
    ASSUME TypeOK, NEW id \in Id, NEW ported
    PROVE  Observed(id, ported) \in Entry
<1> DEFINE known == IF Registered(id) THEN reg[id] ELSE NewEntry("running", FALSE, None)
           status == Reconciled(id)
           port == known.port \/ (status = "running" /\ id \in ported)
<1>1. known \in Entry
  BY ConstantTypes DEF TypeOK, Registered, Status, Owner
<1>2. status \in Status
  BY DEF Reconciled, Status
<1>3. known.port \in BOOLEAN /\ port \in BOOLEAN
  BY <1>1 DEF Entry
<1>4. Observed(id, ported) = [known EXCEPT !.status = status, !.port = port]
  BY DEF Observed
<1> HIDE DEF known, status, port
<1>5. QED
  BY <1>1, <1>2, <1>3, <1>4 DEF Entry

LEMMA TypeReconcile == ASSUME TypeOK, Reconcile PROVE TypeOK'
<1> USE DEF TypeOK
<1>1. CASE SyncStart \/ SyncList
  <2>1. CASE SyncStart
    <3>1. [NoSync EXCEPT !.pc = "listing"] \in Listing
      BY DEF NoSync, Listing
    <3>2. QED
      BY <2>1, <3>1 DEF SyncStart, external
  <2>2. CASE SyncList
    <3> DEFINE seen == [id \in Id |-> IF rt[id] \in {"absent", "running"}
                                      THEN rt[id] ELSE "exited"]
    <3>1. seen \in [Id -> {"absent", "running", "exited"}]
      OBVIOUS
    <3>2. sync' = [sync EXCEPT !.pc = "listed", !.seen = seen]
      BY <2>2 DEF SyncList
    <3> HIDE DEF seen
    <3>3. sync' \in Listing
      BY <3>1, <3>2 DEF Listing
    <3>4. QED
      BY <2>2, <3>3 DEF SyncList, external
  <2>3. QED
    BY <1>1, <2>1, <2>2
<1>2. CASE SyncListFails \/ SyncDone
  BY <1>2, ConstantTypes, OnwardType DEF SyncListFails, SyncDone, external
<1>3. ASSUME NEW ported \in SUBSET Running, SyncApplies(ported) PROVE TypeOK'
  <2>1. sync' \in Listing
    BY <1>3, ConstantTypes DEF SyncApplies, Listing
  <2>2. reg' \in [Id -> Entry \cup {None}]
    BY <1>3, ObservedType DEF SyncApplies
  <2>3. fresh' \subseteq Id
    BY <1>3 DEF SyncApplies
  <2>4. stale' \subseteq Ref
    BY <1>3, RefsType DEF SyncApplies
  <2>5. QED
    BY <1>3, <2>1, <2>2, <2>3, <2>4 DEF SyncApplies, external
<1>4. QED
  BY <1>1, <1>2, <1>3 DEF Reconcile, SyncApply

LEMMA StopBeginsType ==
    ASSUME TypeOK, NEW a \in Actor, NEW id \in Id, NEW then \in BOOLEAN, NEW refs \in SUBSET Ref,
           StopBegins(a, id, then, refs)
    PROVE  /\ reg' \in [Id -> Entry \cup {None}] /\ op' \in [Actor -> Call]
           /\ sync' \in Listing /\ stale' \subseteq Ref
<1> USE DEF TypeOK
<1>1. stale' \subseteq Ref
  BY DEF StopBegins
<1>2. CASE Registered(id)
  <2>1. [reg[id] EXCEPT !.status = "stopping"] \in Entry
    BY <1>2, EntryType DEF Registered, Status
  <2>2. [pc |-> "signalling", id |-> id, then |-> then] \in Call
    BY DEF Call
  <2>3. reg' \in [Id -> Entry \cup {None}] /\ op' \in [Actor -> Call]
    BY <1>2, <2>1, <2>2 DEF StopBegins
  <2>4. sync' \in Listing
    BY <1>2, MarkedType DEF StopBegins
  <2>5. QED
    BY <1>1, <2>3, <2>4
<1>3. CASE ~Registered(id)
  BY <1>1, <1>3 DEF StopBegins
<1>4. QED
  BY <1>2, <1>3

LEMMA TypeOperate == ASSUME TypeOK, RefsHold, Operate PROVE TypeOK'
<1> USE DEF TypeOK
<1>1. ASSUME NEW a \in Actor, SignalLands(a) \/ RemoveLands(a) \/ SignalFails(a) \/ RemoveFails(a)
      PROVE  TypeOK'
  <2>1. [op[a] EXCEPT !.pc = "signalled"] \in Call /\ [op[a] EXCEPT !.pc = "removed"] \in Call
    BY CallType
  <2>2. op' \in [Actor -> Call]
    BY <1>1, <2>1 DEF SignalLands, RemoveLands, SignalFails, RemoveFails
  <2>3. rt' \in [Id -> Process] /\ api' \in [Id -> Report]
    BY <1>1, ConstantTypes DEF SignalLands, RemoveLands, SignalFails, RemoveFails, Process,
                               external
  <2>4. QED
    BY <1>1, <2>2, <2>3 DEF SignalLands, RemoveLands, SignalFails, RemoveFails, external
<1>2. ASSUME NEW a \in Actor, StopEnds(a) PROVE TypeOK'
  <2>1. op[a].id \in Id
    BY <1>2 DEF StopEnds, RefsHold, CallsHold
  <2>2. a \notin stale => reg[op[a].id] \in Entry
    BY <1>2, <2>1 DEF StopEnds, RefsHold, CallsHold, Registered
  <2>3. reg' \in [Id -> Entry \cup {None}]
    BY <1>2, <2>1, <2>2, EntryType DEF StopEnds, Status
  <2>4. op' \in [Actor -> Call]
    BY <1>2, CallType, ConstantTypes DEF StopEnds
  <2>5. QED
    BY <1>2, <2>1, <2>3, <2>4, MarkedType DEF StopEnds, external
<1>3. ASSUME NEW a \in Actor, RemoveEnds(a) PROVE TypeOK'
  <2>1. op[a].id \in Id
    BY <1>3 DEF RemoveEnds, RefsHold, CallsHold
  <2>2. stale' \subseteq Ref
    BY <1>3, <2>1, RefsType DEF RemoveEnds
  <2>3. QED
    BY <1>3, <2>1, <2>2, MarkedType, ConstantTypes DEF RemoveEnds, external
<1>4. ASSUME NEW c \in Client, NEW id \in Id, NEW then \in BOOLEAN, ClientStops(c, id, then)
      PROVE  TypeOK'
  <2>1. c \in Actor
    BY DEF Actor
  <2>2. QED
    BY <1>4, <2>1, StopBeginsType DEF ClientStops, external
<1>5. QED
  BY <1>1, <1>2, <1>3, <1>4 DEF Operate

LEMMA SpawnerType ==
    ASSUME NEW c \in Spawner
    PROVE  \A pc \in {"launched", "abandoned", "held", "cleaning", "forgotten", "settled"} :
              [c EXCEPT !.pc = pc] \in Spawner
BY DEF Spawner

LEMMA TypeSpawn == ASSUME TypeOK, RefsHold, Spawn PROVE TypeOK'
<1> USE DEF TypeOK
<1>1. ASSUME NEW id \in Id, NEW s \in Owner, Mint(id, s) PROVE TypeOK'
  <2>1. [pc |-> "launching", owner |-> s] \in Spawner
    BY DEF Spawner
  <2>2. QED
    BY <1>1, <2>1 DEF Mint, external
<1>2. ASSUME NEW id \in Id, Launch(id) PROVE TypeOK'
  <2>1. [spawn[id] EXCEPT !.pc = "launched"] \in Spawner
        /\ [spawn[id] EXCEPT !.pc = "settled"] \in Spawner
    BY SpawnerType
  <2>2. QED
    BY <1>2, <2>1 DEF Launch, Process
<1>3. ASSUME NEW id \in Id, SpawnFails(id) PROVE TypeOK'
  <2>1. [spawn[id] EXCEPT !.pc = "abandoned"] \in Spawner
        /\ [spawn[id] EXCEPT !.pc = "settled"] \in Spawner
    BY SpawnerType
  <2>2. QED
    BY <1>3, <2>1 DEF SpawnFails, external
<1>4. ASSUME NEW id \in Id, Register(id) PROVE TypeOK'
  <2>1. spawn[id].owner \in Owner
    BY DEF Spawner
  <2>2. \A port \in BOOLEAN : NewEntry("starting", port, spawn[id].owner) \in Entry
    BY <2>1, ConstantTypes DEF Status
  <2>3. [spawn[id] EXCEPT !.pc = "held"] \in Spawner
    BY SpawnerType
  <2>4. reg' \in [Id -> Entry \cup {None}]
    BY <1>4, <2>2 DEF Register
  <2>5. stale' \subseteq Ref
    BY <1>4, RefsType DEF Register
  <2>6. QED
    BY <1>4, <2>3, <2>4, <2>5, MarkedType DEF Register, external
<1>5. ASSUME NEW id \in Id, NEW s \in Session, HolderStarts(id, s) PROVE TypeOK'
  <2>1. [primary |-> s, live |-> {s}] \in Report
    BY DEF Report, Owner
  <2>2. \A pc \in {"minted", "started"} : [pc |-> pc, owner |-> s] \in Spawner
    BY DEF Spawner, Owner
  <2>3. QED
    BY <1>5, <2>1, <2>2 DEF HolderStarts
<1>6. ASSUME NEW id \in Id, HolderSettles(id) PROVE TypeOK'
  <2>1. spawn[id].owner \in Owner
    BY DEF Spawner
  <2>2. [spawn[id] EXCEPT !.pc = "settled"] \in Spawner
    BY SpawnerType
  <2>3. CASE spawn[id].pc = "minted" /\ <<"spawn", id>> \notin stale
    <3>1. reg[id] \in Entry
      BY <2>3 DEF RefsHold, SpawnersHold, Registered
    <3>2. [reg[id] EXCEPT !.owner = spawn[id].owner] \in Entry
      BY <2>1, <3>1, EntryType
    <3>3. QED
      BY <1>6, <2>2, <2>3, <3>2 DEF HolderSettles, external
  <2>4. CASE ~(spawn[id].pc = "minted" /\ <<"spawn", id>> \notin stale)
    BY <1>6, <2>2, <2>4 DEF HolderSettles, external
  <2>5. QED
    BY <2>3, <2>4
<1>7. ASSUME NEW id \in Id, HolderFails(id) PROVE TypeOK'
  <2>1. id \in Actor
    BY DEF Actor
  <2>2. [spawn[id] EXCEPT !.pc = "cleaning"] \in Spawner
    BY SpawnerType
  <2>3. stale \ {<<"spawn", id>>} \in SUBSET Ref
    OBVIOUS
  <2>4. QED
    BY <1>7, <2>1, <2>2, <2>3, StopBeginsType DEF HolderFails, external
<1>8. ASSUME NEW id \in Id, HolderLeaves(id) PROVE TypeOK'
  <2>1. [spawn[id] EXCEPT !.pc = "settled"] \in Spawner
    BY SpawnerType
  <2>2. QED
    BY <1>8, <2>1 DEF HolderLeaves, external
<1>9. ASSUME NEW id \in Id, SaveFails(id) PROVE TypeOK'
  <2>1. [spawn[id] EXCEPT !.pc = "forgotten"] \in Spawner
        /\ [spawn[id] EXCEPT !.pc = "settled"] \in Spawner
    BY SpawnerType
  <2>2. \/ spawn' = [spawn EXCEPT ![id] = [spawn[id] EXCEPT !.pc = "forgotten"]]
        \/ spawn' = [spawn EXCEPT ![id] = [spawn[id] EXCEPT !.pc = "settled"]]
    BY <1>9 DEF SaveFails
  <2>3. QED
    BY <1>9, <2>1, <2>2 DEF SaveFails, external
<1>10. QED
  BY <1>1, <1>2, <1>3, <1>4, <1>5, <1>6, <1>7, <1>8, <1>9 DEF Spawn

LEMMA TypeAssign == ASSUME TypeOK, Assign PROVE TypeOK'
<1> USE DEF TypeOK
<1>1. ASSUME NEW id \in Id, NEW s \in Session, Joins(id, s) \/ Rehomes(id, s) PROVE TypeOK'
  <2>1. reg[id] \in Entry
    BY <1>1 DEF Joins, Rehomes, Addressable, StatusIn, Registered
  <2>2. reg[id].members \cup {s} \in SUBSET Session /\ s \in Owner
    BY <2>1 DEF Entry, Owner
  <2>3. /\ [reg[id] EXCEPT !.members = reg[id].members \cup {s}] \in Entry
        /\ [reg[id] EXCEPT !.owner = s] \in Entry
    BY <2>1, <2>2, EntryType
  <2>4. \A primary \in BOOLEAN : [id |-> id, sid |-> s, primary |-> primary] \in Post
    BY DEF Post
  <2>5. QED
    BY <1>1, <2>3, <2>4 DEF Joins, Rehomes
<1>2. QED
  BY <1>1 DEF Assign

LEMMA ReapOrSkipType ==
    ASSUME TypeOK, NEW id \in Id, ReapOrSkip(id)
    PROVE  TypeOK'
<1> USE DEF TypeOK
<1>1. /\ [Onward(mon) EXCEPT !.todo = @ \ {id}] \in Polling
      /\ [Onward(mon) EXCEPT !.pc = "reaping", !.todo = @ \ {id}] \in Polling
  BY OnwardPastType
<1>2. CASE Reapable(id)
  <2>1. reg[id] \in Entry
    BY <1>2 DEF Reapable, Registered
  <2>2. [reg[id] EXCEPT !.status = "stopping"] \in Entry
    BY <2>1, EntryType DEF Status
  <2>3. \A pc \in {"signalling", "removing"} : [pc |-> pc, id |-> id, then |-> TRUE] \in Call
    BY DEF Call
  <2>4. op' \in [Actor -> Call]
    BY <1>2, <2>3 DEF ReapOrSkip
  <2>5. reg' \in [Id -> Entry \cup {None}]
    BY <1>2, <2>2 DEF ReapOrSkip
  <2>6. QED
    BY <1>1, <1>2, <2>4, <2>5, MarkedType DEF ReapOrSkip, external
<1>3. CASE ~Reapable(id)
  BY <1>1, <1>3 DEF ReapOrSkip, external
<1>4. QED
  BY <1>2, <1>3

LEMMA TypePoll == ASSUME TypeOK, RefsHold, Poll PROVE TypeOK'
<1> USE DEF TypeOK
<1>1. CASE PollBegins
  <2>1. [NoSync EXCEPT !.pc = "listing"] \in Listing
    BY DEF NoSync, Listing
  <2>2. [mon EXCEPT !.pc = "syncing"] \in Polling
    BY DEF Polling
  <2>3. QED
    BY <1>1, <2>1, <2>2 DEF PollBegins, external
<1>2. CASE PollEnds \/ ReapEnds
  BY <1>2, ConstantTypes, OnwardType DEF PollEnds, ReapEnds, external
<1>3. CASE PollTimesOut
  <2>1. rt' \in [Id -> Process] /\ op' \in [Actor -> Call]
    BY <1>3, ConstantTypes DEF PollTimesOut, Process
  <2>2. QED
    BY <1>3, <2>1, ConstantTypes DEF PollTimesOut
<1>4. ASSUME NEW id \in Id, PollPasses(id) PROVE TypeOK'
  <2>1. mon' \in Polling
    BY <1>4 DEF PollPasses, Polling
  <2>2. QED
    BY <1>4, <2>1 DEF PollPasses, external
<1>5. ASSUME NEW id \in Id, PollProbes(id) PROVE TypeOK'
  <2>1. ~Orphaned(id) => reg[id].status \in Status
    BY <1>5 DEF PollProbes, StatusIn, Probed, Status
  <2>2. mon' \in Polling
    BY <1>5, <2>1 DEF PollProbes, Turned, Polling, Status
  <2>3. QED
    BY <1>5, <2>2 DEF PollProbes, external
<1>6. ASSUME NEW id \in Id, PollFindsStopped(id) PROVE TypeOK'
  BY <1>6, ReapOrSkipType DEF PollFindsStopped
<1>7. CASE ProbeDecides
  BY <1>7, ReapOrSkipType DEF ProbeDecides, RefsHold, ProbeHolds
<1>8. CASE ProbeAnswered
  <2>1. mon.cur \in Id
    BY <1>8 DEF ProbeAnswered, RefsHold, ProbeHolds
  <2>2. mon' \in Polling
    BY <1>8, <2>1 DEF ProbeAnswered, Polling
  <2>3. QED
    BY <1>8, <2>2 DEF ProbeAnswered, external
<1>9. CASE ProbeDiscarded
  BY <1>9, OnwardType DEF ProbeDiscarded, RefsHold, ProbeHolds, external
<1>10. CASE ProbeFails
  <2> DEFINE id == mon.cur
             count == IF reg[id].failures < MaxFailures THEN reg[id].failures + 1
                      ELSE MaxFailures
  <2>1. id \in Id /\ Onward(mon) \in Polling
    BY <1>10, OnwardType DEF ProbeFails, RefsHold, ProbeHolds
  <2>2. ~Orphaned(id) => reg[id] \in Entry
    BY <1>10, <2>1 DEF ProbeFails, RefsHold, ProbeHolds, Registered
  <2>3. reg[id] \in Entry => count \in 0..MaxFailures
    BY MaxFailuresPositive DEF Entry
  <2>4. reg[id] \in Entry =>
          /\ [reg[id] EXCEPT !.failures = count] \in Entry
          /\ [reg[id] EXCEPT !.failures = count, !.status = "crashed", !.live = {}] \in Entry
    BY <2>3, EntryType
  <2>5. reg' \in [Id -> Entry \cup {None}]
    BY <1>10, <2>1, <2>2, <2>4 DEF ProbeFails
  <2>6. sync' \in Listing
    BY <1>10, <2>1, MarkedType DEF ProbeFails
  <2>7. stale' \subseteq Ref /\ mon' \in Polling
    BY <1>10, <2>1 DEF ProbeFails
  <2>8. QED
    BY <1>10, <2>5, <2>6, <2>7 DEF ProbeFails, external
<1>11. CASE ProbeApplies
  <2> DEFINE id == mon.cur
  <2>1. id \in Id /\ Onward(mon) \in Polling /\ mon.answer \in Report
    BY <1>11, OnwardType DEF ProbeApplies, RefsHold, ProbeHolds, Polling
  <2>2. ~Orphaned(id) => reg[id] \in Entry
    BY <1>11, <2>1 DEF ProbeApplies, RefsHold, ProbeHolds, Registered
  <2>3. ~Orphaned(id) => Told(reg[id], mon.answer, id \in fresh) \in Entry
    BY <2>1, <2>2, ToldType
  <2>4. reg' \in [Id -> Entry \cup {None}]
    BY <1>11, <2>1, <2>3 DEF ProbeApplies
  <2>5. sync' \in Listing
    BY <1>11, <2>1, MarkedType DEF ProbeApplies
  <2>6. [mon EXCEPT !.pc = "deciding"] \in Polling
    BY DEF Polling
  <2>7. stale' \subseteq Ref /\ mon' \in Polling
    BY <1>11, <2>1, <2>6 DEF ProbeApplies
  <2>8. QED
    BY <1>11, <2>4, <2>5, <2>7 DEF ProbeApplies, external
<1>12. QED
  BY <1>1, <1>2, <1>3, <1>4, <1>5, <1>6, <1>7, <1>8, <1>9, <1>10, <1>11 DEF Poll

-----------------------------------------------------------------------------
(* How an entry changes.                                                   *)

\* Only these steps change an entry, and this is what they make of it.
Kept(id) ==
    /\ Registered(id) /\ reg'[id] \in Entry
    /\ reg'[id].owner = reg[id].owner /\ reg'[id].members = reg[id].members
    /\ \/ reg'[id].status \in {reg[id].status, "stopping", "stopped"}
       \/ reg'[id].status = "crashed" /\ reg[id].status \in Probed
Settled(id) ==
    /\ HolderSettles(id) /\ spawn[id].pc = "minted" /\ Registered(id)
    /\ reg'[id] \in Entry
    /\ reg'[id].owner = spawn[id].owner /\ reg'[id].status = reg[id].status
Assigned(id) ==
    /\ Registered(id) /\ reg[id].owner # None
    /\ reg'[id] \in Entry
    /\ reg'[id].owner # None /\ reg'[id].status = reg[id].status
Answered(id) ==
    /\ ProbeApplies /\ mon.cur = id /\ ~Orphaned(id) /\ Registered(id)
    /\ reg[id].status \in Probed /\ reg'[id] \in Entry
    /\ reg[id].owner # None => reg'[id].owner # None

LEMMA StopBeginsKeeps ==
    ASSUME TypeOK, NEW a, NEW id \in Id, NEW then, NEW refs, StopBegins(a, id, then, refs),
           NEW other \in Id, reg'[other] # reg[other]
    PROVE  Kept(other)
<1>1. Registered(id) /\ other = id /\ reg[id] \in Entry
  BY DEF TypeOK, StopBegins, Registered
<1>2. reg'[id] = [reg[id] EXCEPT !.status = "stopping"]
  BY <1>1 DEF StopBegins, TypeOK
<1>3. QED
  BY <1>1, <1>2 DEF Kept, Entry, Status

LEMMA ReapKeeps ==
    ASSUME TypeOK, NEW id \in Id, ReapOrSkip(id), NEW other \in Id, reg'[other] # reg[other]
    PROVE  Kept(other)
<1>1. Registered(id) /\ other = id /\ reg[id] \in Entry
  BY DEF TypeOK, ReapOrSkip, Reapable, Registered
<1>2. reg'[id] = [reg[id] EXCEPT !.status = "stopping"]
  BY <1>1 DEF ReapOrSkip, TypeOK
<1>3. QED
  BY <1>1, <1>2 DEF Kept, Entry, Status

LEMMA EntryChanges ==
    ASSUME TypeOK, RefsHold, [Next]_vars, NEW id \in Id, reg'[id] # reg[id]
    PROVE  \/ Kept(id) \/ SyncApply
           \/ \E a \in Actor : RemoveEnds(a) /\ op[a].id = id
           \/ Register(id) \/ Settled(id) \/ Assigned(id) \/ Answered(id)
<1>1. CASE Environment
  <2>1. Ages(id) /\ Registered(id) /\ reg[id] \in Entry
    BY <1>1 DEF Environment, RuntimeExits, RuntimePrunes, Ages, ApiStarts, PostFails,
                ApiMemberEnds, TypeOK, Registered
  <2>2. reg'[id] = [reg[id] EXCEPT !.aged = TRUE]
    BY <2>1 DEF Ages, TypeOK
  <2>3. /\ reg'[id] \in Entry /\ reg'[id].owner = reg[id].owner
        /\ reg'[id].members = reg[id].members /\ reg'[id].status = reg[id].status
    BY <2>1, <2>2 DEF Entry
  <2>4. QED
    BY <2>1, <2>3 DEF Kept
<1>2. CASE Reconcile
  BY <1>2 DEF Reconcile, SyncStart, SyncList, SyncListFails, SyncDone
<1>3. CASE Operate
  <2>1. ASSUME NEW a \in Actor, StopEnds(a) PROVE Kept(id)
    <3>1. op[a].id = id /\ reg[id] \in Entry
      BY <2>1 DEF StopEnds, TypeOK, RefsHold, CallsHold, Registered
    <3>2. reg'[id] = [reg[id] EXCEPT !.status = "stopped"]
      BY <2>1, <3>1 DEF StopEnds, TypeOK
    <3>3. QED
      BY <3>1, <3>2, NoneIsNoEntry DEF Kept, Entry, Registered, Status
  <2>2. ASSUME NEW a \in Actor, RemoveEnds(a) PROVE op[a].id = id
    BY <2>2 DEF RemoveEnds, TypeOK
  <2>3. QED
    BY <1>3, <2>1, <2>2, StopBeginsKeeps
    DEF Operate, SignalLands, SignalFails, RemoveLands, RemoveFails, ClientStops
<1>4. CASE Spawn
  <2>1. ASSUME NEW i \in Id, HolderSettles(i) PROVE Settled(id)
    <3>1. i = id /\ spawn[id].pc = "minted" /\ reg[id] \in Entry /\ Registered(id)
      BY <2>1 DEF HolderSettles, TypeOK, RefsHold, SpawnersHold, Registered
    <3>2. reg'[id] = [reg[id] EXCEPT !.owner = spawn[id].owner]
      BY <2>1, <3>1 DEF HolderSettles, TypeOK
    <3>3. spawn[id].owner \in Owner
      BY DEF TypeOK, Spawner
    <3>4. QED
      BY <2>1, <3>1, <3>2, <3>3 DEF Settled, Entry
  <2>2. ASSUME NEW i \in Id, Register(i) PROVE Register(id)
    BY <2>2 DEF Register, TypeOK
  <2>3. QED
    BY <1>4, <2>1, <2>2, StopBeginsKeeps
    DEF Spawn, Mint, Launch, SpawnFails, SaveFails, HolderStarts, HolderFails, HolderLeaves
<1>5. CASE Assign
  <2>1. ASSUME NEW i \in Id, NEW s \in Session, Joins(i, s) PROVE Assigned(id)
    <3>1. i = id /\ reg[id] \in Entry /\ reg[id].owner # None /\ Registered(id)
      BY <2>1 DEF Joins, Addressable, StatusIn, TypeOK, Registered
    <3>2. reg'[id] = [reg[id] EXCEPT !.members = reg[id].members \cup {s}]
      BY <2>1, <3>1 DEF Joins, TypeOK
    <3>3. QED
      BY <3>1, <3>2 DEF Assigned, Entry
  <2>2. ASSUME NEW i \in Id, NEW s \in Session, Rehomes(i, s) PROVE Assigned(id)
    <3>1. i = id /\ reg[id] \in Entry /\ reg[id].owner # None /\ Registered(id)
      BY <2>2 DEF Rehomes, Addressable, StatusIn, TypeOK, Registered
    <3>2. reg'[id] = [reg[id] EXCEPT !.owner = s]
      BY <2>2, <3>1 DEF Rehomes, TypeOK
    <3>3. QED
      BY <3>1, <3>2, NoneIsNoId DEF Assigned, Entry, Owner
  <2>3. QED
    BY <1>5, <2>1, <2>2 DEF Assign
<1>6. CASE Poll
  <2>1. CASE ProbeFails
    <3>1. /\ mon.cur = id /\ ~Orphaned(id) /\ reg[id] \in Entry
          /\ reg[id].status \in Probed
      BY <2>1 DEF ProbeFails, Moot, TypeOK, RefsHold, ProbeHolds, Registered
    <3> DEFINE count == IF reg[id].failures < MaxFailures THEN reg[id].failures + 1
                        ELSE MaxFailures
    <3>2. count \in 0..MaxFailures
      BY <3>1, MaxFailuresPositive DEF Entry
    <3>3. \/ reg'[id] = [reg[id] EXCEPT !.failures = count, !.status = "crashed", !.live = {}]
          \/ reg'[id] = [reg[id] EXCEPT !.failures = count]
      BY <2>1, <3>1 DEF ProbeFails, TypeOK
    <3> HIDE DEF count
    <3>4. QED
      BY <3>1, <3>2, <3>3, NoneIsNoEntry DEF Kept, Entry, Registered, Status
  <2>2. CASE ProbeApplies
    <3>1. /\ mon.cur = id /\ ~Orphaned(id) /\ reg[id] \in Entry /\ Registered(id)
          /\ reg[id].status \in Probed
      BY <2>2 DEF ProbeApplies, Moot, TypeOK, RefsHold, ProbeHolds, Registered
    <3>2. mon.answer \in Report
      BY DEF TypeOK, Polling
    <3>3. reg'[id] = Told(reg[id], mon.answer, id \in fresh)
      BY <2>2, <3>1 DEF ProbeApplies, TypeOK
    <3>4. reg'[id] \in Entry
      BY <3>1, <3>2, <3>3, ToldType
    <3>5. reg'[id].owner = IF mon.answer.primary # None THEN mon.answer.primary
                           ELSE reg[id].owner
      BY <3>1, <3>3 DEF Told, Entry
    <3>6. QED
      BY <2>2, <3>1, <3>4, <3>5 DEF Answered
  <2>3. ASSUME NEW i \in Id, PollFindsStopped(i) PROVE Kept(id)
    BY <2>3, ReapKeeps DEF PollFindsStopped
  <2>4. CASE ProbeDecides
    BY <2>4, ReapKeeps DEF ProbeDecides, RefsHold, ProbeHolds
  <2>5. QED
    BY <1>6, <2>1, <2>2, <2>3, <2>4
    DEF Poll, PollBegins, PollPasses, PollProbes, ProbeAnswered, ProbeDiscarded, ReapEnds,
        PollEnds, PollTimesOut
<1>7. QED
  BY <1>1, <1>2, <1>3, <1>4, <1>5, <1>6 DEF Next, vars

\* Whoever still holds the object of an id that goes is told so.
LEMMA Dropped ==
    ASSUME TypeOK, RefsHold, [Next]_vars, NEW id \in Id, Registered(id), ~Registered(id)'
    PROVE  RefsTo({id}) \subseteq stale'
<1>1. reg'[id] = None /\ reg'[id] # reg[id] /\ reg'[id] \notin Entry
  BY NoneIsNoEntry DEF Registered
<1>2. ~Register(id)
  BY <1>1, ConstantTypes DEF Register, TypeOK, Spawner, Status
<1>3. ASSUME NEW ported, SyncApplies(ported) PROVE RefsTo({id}) \subseteq stale'
  <2>1. Observed(id, ported) \in Entry
    BY ObservedType
  <2> DEFINE lost == {i \in Id \ sync.written : Registered(i) /\ sync.seen[i] = "absent"}
  <2>2. id \in lost
    BY <1>1, <1>3, <2>1, NoneIsNoEntry DEF SyncApplies, Registered
  <2>3. RefsTo({id}) \subseteq RefsTo(lost)
    BY <2>2 DEF RefsTo
  <2>4. QED
    BY <1>3, <2>3 DEF SyncApplies
<1>4. ASSUME NEW a \in Actor, RemoveEnds(a), op[a].id = id PROVE RefsTo({id}) \subseteq stale'
  <2>1. a \notin RefsTo({id})
    BY <1>4, RefsDistinct DEF RefsTo, RemoveEnds
  <2>2. QED
    BY <1>4, <2>1 DEF RemoveEnds
<1>5. QED
  BY <1>1, <1>2, <1>3, <1>4, EntryChanges DEF Kept, Settled, Assigned, Answered, SyncApply

-----------------------------------------------------------------------------
(* RefsHold is kept.                                                       *)

\* An actor goes on with its call, or ends it, and remembers a lost object ...
Goes(a) ==
    /\ op'[a].pc # "none" => op[a].pc # "none" /\ op'[a].id = op[a].id
    /\ op'[a].pc \in {"signalling", "signalled"}
       => op[a].pc \in {"signalling", "signalled"} /\ (a \in stale => a \in stale')
\* ... or begins one on an entry it has just looked up.
Begins(a) ==
    /\ op[a].pc = "none" \/ (a = Monitor /\ mon.pc # "reaping")
    /\ \E id \in Id : op'[a].id = id /\ Registered(id) /\ Registered(id)'

LEMMA StopBeginsCalls ==
    ASSUME TypeOK, NEW a \in Actor, NEW id \in Id, NEW then, NEW refs \in SUBSET Ref,
           refs \cap Actor = stale \cap Actor,
           StopBegins(a, id, then, refs), NEW b \in Actor
    PROVE  Goes(b) \/ Begins(b)
<1>1. CASE Registered(id)
  <2>1. reg[id] \in Entry /\ reg'[id] = [reg[id] EXCEPT !.status = "stopping"]
    BY <1>1 DEF StopBegins, TypeOK, Registered
  <2>2. [reg[id] EXCEPT !.status = "stopping"] \in Entry
    BY <2>1, EntryType DEF Status
  <2>3. Registered(id)'
    BY <2>1, <2>2, NoneIsNoEntry DEF StopBegins, TypeOK, Registered
  <2>4. CASE b = a
    BY <1>1, <2>3, <2>4 DEF StopBegins, Begins, TypeOK
  <2>5. CASE b # a
    BY <1>1, <2>5 DEF StopBegins, Goes, TypeOK
  <2>6. QED
    BY <2>4, <2>5
<1>2. CASE ~Registered(id)
  <2>1. op' = op /\ (b = a => op[b].pc = "none") /\ (b # a => (b \in stale => b \in stale'))
    BY <1>2 DEF StopBegins
  <2>2. QED
    BY <2>1 DEF Goes
<1>3. QED
  BY <1>1, <1>2

LEMMA ReapCalls ==
    ASSUME TypeOK, NEW id \in Id, ReapOrSkip(id), mon.pc # "reaping", NEW b \in Actor
    PROVE  Goes(b) \/ Begins(b)
<1>1. b \in stale => b \in stale'
  BY RefsDistinct DEF ReapOrSkip
<1>2. CASE Reapable(id)
  <2>1. reg[id] \in Entry
    BY <1>2 DEF Reapable, Registered, TypeOK
  <2>2. reg'[id] = [reg[id] EXCEPT !.status = "stopping"] \/ reg'[id] = reg[id]
    BY <1>2 DEF ReapOrSkip, TypeOK
  <2>3. Registered(id) /\ Registered(id)'
    BY <2>1, <2>2, EntryType, NoneIsNoEntry DEF Registered, Status
  <2>4. CASE b = Monitor
    <3>1. op'[b].id = id
      BY <1>2, <2>4 DEF ReapOrSkip, TypeOK
    <3>2. QED
      BY <2>3, <2>4, <3>1 DEF Begins
  <2>5. CASE b # Monitor
    BY <1>1, <1>2, <2>5 DEF ReapOrSkip, Goes, TypeOK
  <2>6. QED
    BY <2>4, <2>5
<1>3. CASE ~Reapable(id)
  BY <1>1, <1>3 DEF ReapOrSkip, Goes
<1>4. QED
  BY <1>2, <1>3

LEMMA CallsMove ==
    ASSUME TypeOK, RefsHold, [Next]_vars, NEW b \in Actor
    PROVE  Goes(b) \/ Begins(b)
<1>1. CASE op' = op /\ (b \in stale => b \in stale')
  BY <1>1 DEF Goes
<1>2. CASE Environment \/ Assign \/ UNCHANGED vars
  BY <1>1, <1>2
  DEF Environment, RuntimeExits, RuntimePrunes, Ages, ApiStarts, PostFails, ApiMemberEnds,
      Assign, Joins, Rehomes, vars
<1>3. CASE Reconcile
  BY <1>1, <1>3 DEF Reconcile, SyncStart, SyncList, SyncListFails, SyncApply, SyncApplies,
                    SyncDone
<1>4. CASE Operate
  <2>1. ASSUME NEW a \in Actor, SignalLands(a) \/ SignalFails(a) \/ StopEnds(a)
                                \/ RemoveLands(a) \/ RemoveFails(a) \/ RemoveEnds(a)
        PROVE  Goes(b)
    <3>1. CASE b = a
      BY <2>1, <3>1
      DEF SignalLands, SignalFails, StopEnds, RemoveLands, RemoveFails, RemoveEnds, Goes,
          TypeOK, Call, Idle
    <3>2. CASE b # a
      BY <2>1, <3>2
      DEF SignalLands, SignalFails, StopEnds, RemoveLands, RemoveFails, RemoveEnds, Goes,
          TypeOK
    <3>3. QED
      BY <3>1, <3>2
  <2>2. ASSUME NEW c \in Client, NEW id \in Id, NEW then \in BOOLEAN, ClientStops(c, id, then)
        PROVE  Goes(b) \/ Begins(b)
    <3>1. c \in Actor /\ stale \in SUBSET Ref
      BY DEF Actor, TypeOK
    <3>2. QED
      BY <2>2, <3>1, StopBeginsCalls DEF ClientStops
  <2>3. QED
    BY <1>4, <2>1, <2>2 DEF Operate
<1>5. CASE Spawn
  <2>1. ASSUME NEW id \in Id, HolderFails(id) PROVE Goes(b) \/ Begins(b)
    <3>1. /\ id \in Actor /\ stale \ {<<"spawn", id>>} \in SUBSET Ref
          /\ (stale \ {<<"spawn", id>>}) \cap Actor = stale \cap Actor
      BY RefsDistinct DEF Actor, TypeOK
    <3>2. QED
      BY <2>1, <3>1, StopBeginsCalls DEF HolderFails
  <2>2. ASSUME NEW id \in Id, HolderSettles(id) \/ SaveFails(id) \/ Register(id) PROVE Goes(b)
    BY <1>1, <2>2, RefsDistinct DEF HolderSettles, SaveFails, Register, Goes
  <2>3. QED
    BY <1>1, <1>5, <2>1, <2>2
    DEF Spawn, Mint, Launch, SpawnFails, HolderStarts, HolderLeaves
<1>6. CASE Poll
  <2>1. ASSUME NEW id \in Id, PollFindsStopped(id) PROVE Goes(b) \/ Begins(b)
    BY <2>1, ReapCalls DEF PollFindsStopped
  <2>2. CASE ProbeDecides
    BY <2>2, ReapCalls DEF ProbeDecides, RefsHold, ProbeHolds
  <2>3. CASE PollTimesOut
    BY <2>3, RefsDistinct DEF PollTimesOut, Goes, TypeOK, Idle
  <2>4. CASE ProbeFails \/ ProbeDiscarded \/ ProbeApplies
    <3>1. mon.cur \in Id
      BY <2>4 DEF ProbeFails, ProbeDiscarded, ProbeApplies, RefsHold, ProbeHolds
    <3>2. b # <<"poll", mon.cur>>
      BY <3>1, RefsDistinct
    <3>3. QED
      BY <1>1, <2>4, <3>2 DEF ProbeFails, ProbeDiscarded, ProbeApplies
  <2>5. ASSUME NEW id \in Id, PollPasses(id) \/ PollProbes(id) PROVE Goes(b)
    BY <1>1, <2>5, RefsDistinct DEF PollPasses, PollProbes, Goes
  <2>6. CASE ReapEnds \/ PollBegins \/ PollEnds \/ ProbeAnswered
    BY <1>1, <2>6, RefsDistinct DEF ReapEnds, PollBegins, PollEnds, ProbeAnswered
  <2>7. QED
    BY <1>6, <2>1, <2>2, <2>3, <2>4, <2>5, <2>6 DEF Poll
<1>7. QED
  BY <1>2, <1>3, <1>4, <1>5, <1>6 DEF Next

LEMMA CallsStep == ASSUME TypeOK, RefsHold, [Next]_vars PROVE CallsHold'
<1>1. SUFFICES ASSUME NEW a \in Actor
               PROVE  /\ op'[a].pc # "none" => op'[a].id \in Id
                      /\ op'[a].pc \in {"signalling", "signalled"} /\ a \notin stale'
                         => reg'[op'[a].id] # None
  BY DEF CallsHold, Registered
<1>2. CASE Begins(a)
  BY <1>2 DEF Begins, Registered
<1>3. CASE Goes(a)
  <2>1. op'[a].pc # "none" => op'[a].id \in Id
    BY <1>3 DEF Goes, RefsHold, CallsHold
  <2>2. ASSUME op'[a].pc \in {"signalling", "signalled"}, a \notin stale'
        PROVE  reg'[op'[a].id] # None
    <3>1. /\ op[a].pc \in {"signalling", "signalled"} /\ a \notin stale
          /\ op'[a].id = op[a].id /\ op[a].id \in Id
      BY <1>3, <2>2 DEF Goes, RefsHold, CallsHold
    <3>2. PICK id \in Id : id = op[a].id
      BY <3>1
    <3>3. Registered(id) /\ a \in RefsTo({id})
      BY <3>1, <3>2 DEF RefsHold, CallsHold, RefsTo
    <3>4. Registered(id)'
      BY <2>2, <3>3, Dropped
    <3>5. QED
      BY <3>1, <3>2, <3>4 DEF Registered
  <2>3. QED
    BY <2>1, <2>2
<1>4. QED
  BY <1>2, <1>3, CallsMove

\* The monitor goes on with its probe, or begins one on an entry it sees.
LEMMA ProbeStep == ASSUME TypeOK, RefsHold, [Next]_vars PROVE ProbeHolds'
<1>1. CASE mon' = mon /\ \A id \in Id : <<"poll", id>> \in stale => <<"poll", id>> \in stale'
  <2>1. mon.pc \in {"probing", "answered", "deciding"} => mon.cur \in Id
    BY DEF RefsHold, ProbeHolds
  <2>2. ASSUME mon.pc \in {"probing", "answered"}, <<"poll", mon.cur>> \notin stale'
        PROVE  reg'[mon.cur] # None /\ mon.before \in Probed
    <3>1. PICK id \in Id : id = mon.cur
      BY <2>1, <2>2
    <3>2. Registered(id) /\ mon.before \in Probed
      BY <1>1, <2>2, <3>1 DEF RefsHold, ProbeHolds, Orphaned
    <3>3. <<"poll", id>> \in RefsTo({id})
      BY <3>1 DEF RefsTo
    <3>4. Registered(id)'
      BY <2>2, <3>1, <3>2, <3>3, Dropped
    <3>5. QED
      BY <3>1, <3>2, <3>4 DEF Registered
  <2>3. QED
    BY <1>1, <2>1, <2>2 DEF ProbeHolds, Orphaned, Registered
<1>2. CASE mon'.pc \notin {"probing", "answered", "deciding"}
  BY <1>2 DEF ProbeHolds
<1>3. CASE Environment \/ Assign \/ UNCHANGED vars
  BY <1>1, <1>3
  DEF Environment, RuntimeExits, RuntimePrunes, Ages, ApiStarts, PostFails, ApiMemberEnds,
      Assign, Joins, Rehomes, vars
<1>4. CASE Reconcile
  <2>1. CASE SyncStart \/ SyncList \/ SyncApply
    BY <1>1, <2>1 DEF SyncStart, SyncList, SyncApply, SyncApplies
  <2>2. CASE SyncListFails \/ SyncDone
    <3>1. mon' = mon \/ mon' = [mon EXCEPT !.pc = "polling",
                                           !.todo = {id \in Id : Registered(id)}]
      BY <2>2 DEF SyncListFails, SyncDone, Resumed
    <3>2. mon' = mon \/ mon'.pc = "polling"
      BY <3>1 DEF TypeOK, Polling
    <3>3. stale' = stale
      BY <2>2 DEF SyncListFails, SyncDone
    <3>4. QED
      BY <1>1, <1>2, <3>2, <3>3
  <2>3. QED
    BY <1>4, <2>1, <2>2 DEF Reconcile
<1>5. CASE Operate
  <2>1. \A a \in Actor, id \in Id : a # <<"poll", id>>
    BY RefsDistinct
  <2>2. \A c \in Client : c \in Actor
    BY DEF Actor
  <2>3. QED
    BY <1>1, <1>5, <2>1, <2>2
    DEF Operate, SignalLands, SignalFails, StopEnds, RemoveLands, RemoveFails, RemoveEnds,
        ClientStops, StopBegins
<1>6. CASE Spawn
  <2>1. \A i, id \in Id : i # <<"poll", id>>
    BY RefsDistinct DEF Actor
  <2>2. QED
    BY <1>1, <1>6, <2>1
    DEF Spawn, Mint, Launch, SpawnFails, SaveFails, Register, HolderStarts, HolderSettles, HolderFails,
        HolderLeaves, StopBegins
<1>7. CASE Poll
  <2>1. ASSUME NEW id \in Id, PollProbes(id) PROVE ProbeHolds'
    <3>1. /\ mon'.pc = "probing" /\ mon'.cur = id /\ stale' = stale /\ reg' = reg
          /\ ~Orphaned(id) => mon'.before = reg[id].status
      BY <2>1 DEF PollProbes, Turned, TypeOK, Polling
    <3>2. ~Orphaned(id) => Registered(id) /\ reg[id].status \in Probed
      BY <2>1 DEF PollProbes, StatusIn
    <3>3. QED
      BY <3>1, <3>2 DEF ProbeHolds, Orphaned, Registered
  <2>2. CASE ProbeAnswered
    <3>1. /\ mon'.pc = "answered" /\ mon'.cur = mon.cur /\ mon'.before = mon.before
          /\ mon.pc = "probing" /\ stale' = stale /\ reg' = reg
      BY <2>2 DEF ProbeAnswered, TypeOK, Polling
    <3>2. QED
      BY <3>1 DEF RefsHold, ProbeHolds, Orphaned, Registered
  <2>3. CASE ProbeApplies
    <3>1. \/ mon'.pc = "deciding" /\ mon'.cur = mon.cur /\ mon.pc = "answered"
          \/ mon'.pc = "polling"
      BY <2>3 DEF ProbeApplies, Onward, TypeOK, Polling
    <3>2. QED
      BY <1>2, <3>1 DEF RefsHold, ProbeHolds
  <2>4. ASSUME NEW id \in Id, ReapOrSkip(id) PROVE ProbeHolds'
    <3>1. mon'.pc \in {"reaping", "polling"}
      BY <2>4 DEF ReapOrSkip, Onward, TypeOK, Polling
    <3>2. QED
      BY <1>2, <3>1
  <2>5. CASE ProbeFails \/ ProbeDiscarded \/ ReapEnds \/ PollEnds \/ PollTimesOut \/ PollBegins
    <3>1. Onward(mon).pc = "polling"
      BY DEF Onward, TypeOK, Polling
    <3>2. NoPoll.pc = "idle" /\ [mon EXCEPT !.pc = "syncing"].pc = "syncing"
      BY DEF NoPoll, TypeOK, Polling
    <3>3. mon'.pc \in {"polling", "idle", "syncing"}
      BY <2>5, <3>1, <3>2
      DEF ProbeFails, ProbeDiscarded, ReapEnds, PollEnds, PollTimesOut, PollBegins
    <3>4. QED
      BY <1>2, <3>3
  <2>6. ASSUME NEW id \in Id, PollPasses(id) PROVE ProbeHolds'
    <3>1. mon'.pc = "polling"
      BY <2>6 DEF PollPasses, TypeOK, Polling
    <3>2. QED
      BY <1>2, <3>1
  <2>7. QED
    BY <1>7, <2>1, <2>2, <2>3, <2>4, <2>5, <2>6
    DEF Poll, PollFindsStopped, ProbeDecides, RefsHold, ProbeHolds
<1>8. QED
  BY <1>3, <1>4, <1>5, <1>6, <1>7 DEF Next

\* A spawner comes to hold its container's object by registering it.
Holding == {"held", "started", "minted"}

LEMMA SpawnMoves ==
    ASSUME TypeOK, RefsHold, [Next]_vars, NEW id \in Id, spawn'[id].pc \in Holding
    PROVE  \/ Register(id)
           \/ /\ spawn[id].pc \in Holding
              /\ <<"spawn", id>> \in stale => <<"spawn", id>> \in stale'
<1> USE DEF Holding
<1>1. CASE spawn' = spawn /\ (<<"spawn", id>> \in stale => <<"spawn", id>> \in stale')
  BY <1>1
<1>2. CASE Environment \/ Assign \/ UNCHANGED vars
  BY <1>1, <1>2
  DEF Environment, RuntimeExits, RuntimePrunes, Ages, ApiStarts, PostFails, ApiMemberEnds,
      Assign, Joins, Rehomes, vars
<1>3. CASE Reconcile
  BY <1>1, <1>3 DEF Reconcile, SyncStart, SyncList, SyncListFails, SyncApply, SyncApplies,
                    SyncDone
<1>4. CASE Operate
  <2>1. \A a \in Actor : a # <<"spawn", id>>
    BY RefsDistinct
  <2>2. \A c \in Client : c \in Actor
    BY DEF Actor
  <2>3. QED
    BY <1>1, <1>4, <2>1, <2>2
    DEF Operate, SignalLands, SignalFails, StopEnds, RemoveLands, RemoveFails, RemoveEnds,
        ClientStops, StopBegins
<1>5. CASE Spawn
  <2>1. \A i \in Id : i # <<"spawn", id>>
    BY RefsDistinct DEF Actor
  <2> DEFINE Goal == \/ Register(id)
                     \/ /\ spawn[id].pc \in Holding
                        /\ <<"spawn", id>> \in stale => <<"spawn", id>> \in stale'
  <2>2. ASSUME NEW i \in Id, NEW s \in Owner, Mint(i, s) PROVE Goal
    BY <2>2 DEF Mint, TypeOK
  <2>3. ASSUME NEW i \in Id, Launch(i) \/ SpawnFails(i) \/ HolderLeaves(i) PROVE Goal
    BY <2>3 DEF Launch, SpawnFails, HolderLeaves, TypeOK, Spawner
  <2>9. ASSUME NEW i \in Id, SaveFails(i) PROVE Goal
    <3>1. i # id => spawn'[id] = spawn[id] /\ (<<"spawn", id>> \in stale => <<"spawn", id>> \in stale')
      BY <2>9 DEF SaveFails, TypeOK
    <3>2. i = id => spawn'[id].pc \in {"forgotten", "settled"}
      BY <2>9 DEF SaveFails, TypeOK, Spawner
    <3>3. QED
      BY <1>1, <3>1, <3>2 DEF Holding
  <2>4. ASSUME NEW i \in Id, Register(i) PROVE Goal
    BY <2>4 DEF Register, TypeOK
  <2>5. ASSUME NEW i \in Id, NEW s \in Session, HolderStarts(i, s) PROVE Goal
    BY <2>5 DEF HolderStarts, TypeOK
  <2>6. ASSUME NEW i \in Id, HolderSettles(i) PROVE Goal
    BY <2>6 DEF HolderSettles, TypeOK, Spawner
  <2>7. ASSUME NEW i \in Id, HolderFails(i) PROVE Goal
    BY <2>1, <2>7 DEF HolderFails, StopBegins, TypeOK, Spawner
  <2>8. QED
    BY <1>5, <2>2, <2>3, <2>4, <2>5, <2>6, <2>7, <2>9 DEF Spawn
<1>6. CASE Poll
  <2>1. Monitor # <<"spawn", id>>
    BY RefsDistinct DEF Actor
  <2>2. QED
    BY <1>1, <1>6, <2>1
    DEF Poll, PollBegins, PollPasses, PollProbes, PollFindsStopped, ReapOrSkip, ProbeAnswered,
        ProbeFails, ProbeDiscarded, ProbeApplies, ProbeDecides, ReapEnds, PollEnds, PollTimesOut
<1>7. QED
  BY <1>2, <1>3, <1>4, <1>5, <1>6 DEF Next

LEMMA SpawnersStep == ASSUME TypeOK, RefsHold, [Next]_vars PROVE SpawnersHold'
<1>1. SUFFICES ASSUME NEW id \in Id, spawn'[id].pc \in Holding, <<"spawn", id>> \notin stale'
               PROVE  Registered(id)'
  BY DEF SpawnersHold, Holding
<1>2. CASE Register(id)
  <2>1. reg'[id] \in Entry
    BY <1>2, ConstantTypes DEF Register, TypeOK, Spawner, Status
  <2>2. QED
    BY <2>1, NoneIsNoEntry DEF Registered
<1>3. CASE spawn[id].pc \in Holding /\ <<"spawn", id>> \notin stale
  <2>1. Registered(id) /\ <<"spawn", id>> \in RefsTo({id})
    BY <1>3 DEF RefsHold, SpawnersHold, RefsTo, Holding
  <2>2. QED
    BY <1>1, <2>1, Dropped
<1>4. QED
  BY <1>1, <1>2, <1>3, SpawnMoves

LEMMA TypeStep ==
    ASSUME TypeOK, RefsHold, [Next]_vars PROVE TypeOK' /\ RefsHold'
<1>1. TypeOK'
  <2>1. CASE UNCHANGED vars
    BY <2>1 DEF vars, TypeOK
  <2>2. QED
    BY <2>1, TypeEnvironment, TypeReconcile, TypeOperate, TypeSpawn, TypeAssign, TypePoll
    DEF Next
<1>2. QED
  BY <1>1, CallsStep, ProbeStep, SpawnersStep DEF RefsHold

LEMMA TypeInit == ASSUME Init PROVE TypeOK /\ RefsHold
<1> USE DEF Init
<1>1. TypeOK
  BY ConstantTypes DEF TypeOK, Process, Spawner, Owner
<1>2. RefsHold
  BY DEF RefsHold, CallsHold, ProbeHolds, SpawnersHold, Idle, NoPoll
<1>3. QED
  BY <1>1, <1>2

(* Every variable of the registry stays in its type, which takes that an   *)
(* operation never writes through an object that is no longer there.       *)
THEOREM Typing == Spec => []TypeOK
<1>1. Init => TypeOK /\ RefsHold
  BY TypeInit
<1>2. TypeOK /\ RefsHold /\ [Next]_vars => (TypeOK /\ RefsHold)'
  BY TypeStep
<1>3. QED
  BY <1>1, <1>2, PTL DEF Spec

-----------------------------------------------------------------------------
(* A listing and what happens until it is applied.                         *)

\* A listing is taken, or what was written since is kept track of.
LEMMA SyncMoves ==
    ASSUME TypeOK, RefsHold, [Next]_vars, sync'.pc = "listed"
    PROVE  \/ SyncList
           \/ /\ sync.pc = "listed" /\ sync'.seen = sync.seen
              /\ sync.written \subseteq sync'.written
<1> DEFINE Goal == \/ SyncList
                   \/ /\ sync.pc = "listed" /\ sync'.seen = sync.seen
                      /\ sync.written \subseteq sync'.written
<1>1. ASSUME sync' = sync \/ \E id \in Id : sync' = Marked(sync, id) PROVE Goal
  BY <1>1 DEF Marked, TypeOK, Listing
<1>2. CASE Environment \/ Assign \/ UNCHANGED vars
  BY <1>1, <1>2
  DEF Environment, RuntimeExits, RuntimePrunes, Ages, ApiStarts, PostFails, ApiMemberEnds,
      Assign, Joins, Rehomes, vars
<1>3. CASE Reconcile
  <2>1. NoSync.pc # "listed" /\ [NoSync EXCEPT !.pc = "listing"].pc # "listed"
        /\ [NoSync EXCEPT !.pc = "saving"].pc # "listed"
    BY DEF NoSync
  <2>2. QED
    BY <1>3, <2>1 DEF Reconcile, SyncStart, SyncListFails, SyncApply, SyncApplies, SyncDone
<1>4. CASE Operate
  <2>1. \A a \in Actor : op[a].pc # "none" => op[a].id \in Id
    BY DEF RefsHold, CallsHold
  <2>2. QED
    BY <1>1, <1>4, <2>1
    DEF Operate, SignalLands, SignalFails, StopEnds, RemoveLands, RemoveFails, RemoveEnds,
        ClientStops, StopBegins
<1>5. CASE Spawn
  BY <1>1, <1>5
  DEF Spawn, Mint, Launch, SpawnFails, SaveFails, Register, HolderStarts, HolderSettles, HolderFails,
      HolderLeaves, StopBegins
<1>6. CASE Poll
  <2>1. CASE PollBegins
    BY <1>1, <2>1 DEF PollBegins, NoSync
  <2>2. ASSUME NEW id \in Id, ReapOrSkip(id) PROVE Goal
    BY <1>1, <2>2 DEF ReapOrSkip
  <2>3. CASE ProbeFails \/ ProbeApplies \/ ProbeDecides
    <3>1. mon.cur \in Id
      BY <2>3 DEF ProbeFails, ProbeApplies, ProbeDecides, RefsHold, ProbeHolds
    <3>2. QED
      BY <1>1, <2>2, <2>3, <3>1 DEF ProbeFails, ProbeApplies, ProbeDecides
  <2>4. QED
    BY <1>1, <1>6, <2>1, <2>2, <2>3
    DEF Poll, PollPasses, PollProbes, PollFindsStopped, ProbeAnswered, ProbeDiscarded,
        ReapEnds, PollEnds, PollTimesOut
<1>7. QED
  BY <1>2, <1>3, <1>4, <1>5, <1>6 DEF Next

\* A container's process is started, stopped or ends.
LEMMA ProcessMoves ==
    ASSUME TypeOK, RefsHold, [Next]_vars, NEW id \in Id, rt'[id] # rt[id]
    PROVE  \/ Launch(id)
           \/ rt[id] # "absent" /\ rt'[id] \in {"exited", "absent"}
           \/ rt[id] = "running" /\ \E a \in Actor : SignalLands(a) /\ op[a].id = id
<1> DEFINE Goal == \/ Launch(id)
                   \/ rt[id] # "absent" /\ rt'[id] \in {"exited", "absent"}
                   \/ rt[id] = "running" /\ \E a \in Actor : SignalLands(a) /\ op[a].id = id
<1>1. CASE Environment
  BY <1>1 DEF Environment, RuntimeExits, RuntimePrunes, Ages, ApiStarts, PostFails,
              ApiMemberEnds, TypeOK, external
<1>2. CASE Operate
  <2>1. ASSUME NEW a \in Actor, SignalLands(a) PROVE Goal
    BY <2>1 DEF SignalLands, TypeOK
  <2>2. ASSUME NEW a \in Actor, RemoveLands(a) PROVE Goal
    BY <2>2 DEF RemoveLands, TypeOK
  <2>3. QED
    BY <1>2, <2>1, <2>2
    DEF Operate, SignalFails, StopEnds, RemoveFails, RemoveEnds, ClientStops, external
<1>3. CASE Spawn
  <2>1. ASSUME NEW i \in Id, Launch(i) PROVE Goal
    BY <2>1 DEF Launch, TypeOK
  <2>2. QED
    BY <1>3, <2>1
    DEF Spawn, Mint, SpawnFails, SaveFails, Register, HolderStarts, HolderSettles, HolderFails,
        HolderLeaves, external
<1>4. CASE Poll
  <2>1. CASE PollTimesOut
    BY <2>1 DEF PollTimesOut
  <2>2. QED
    BY <1>4, <2>1
    DEF Poll, PollBegins, PollPasses, PollProbes, PollFindsStopped, ReapOrSkip, ProbeAnswered,
        ProbeFails, ProbeDiscarded, ProbeApplies, ProbeDecides, ReapEnds, PollEnds, external
<1>5. QED
  BY <1>1, <1>2, <1>3, <1>4
  DEF Next, vars, Reconcile, SyncStart, SyncList, SyncListFails, SyncApply, SyncApplies,
      SyncDone, Assign, Joins, Rehomes, external

\* An entry appears by its create or by a listing that saw the container.
LEMMA Appears ==
    ASSUME TypeOK, RefsHold, [Next]_vars, NEW id \in Id, ~Registered(id), Registered(id)'
    PROVE  \/ Register(id)
           \/ SyncApply /\ sync.pc = "listed" /\ sync.seen[id] # "absent"
<1>1. ASSUME NEW ported \in SUBSET Running, SyncApplies(ported)
      PROVE  sync.pc = "listed" /\ sync.seen[id] # "absent"
  BY <1>1 DEF SyncApplies, Registered, TypeOK
<1>2. CASE SyncApply
  BY <1>1, <1>2 DEF SyncApply
<1>3. ASSUME NEW a \in Actor, RemoveEnds(a), op[a].id = id PROVE FALSE
  BY <1>3 DEF RemoveEnds, Registered, TypeOK
<1>4. reg'[id] # reg[id]
  BY DEF Registered
<1>5. QED
  BY <1>2, <1>3, <1>4, EntryChanges DEF Kept, Settled, Assigned, Answered

\* An id leaves Prelaunch by its launch and is never back.
LEMMA PrelaunchMoves ==
    ASSUME TypeOK, [Next]_vars, NEW id \in Id, spawn'[id].pc \in Prelaunch
    PROVE  spawn[id].pc \in Prelaunch /\ ~Launch(id) /\ ~Register(id)
<1> USE DEF Prelaunch
<1>1. ~Launch(id) /\ ~Register(id)
  BY DEF Launch, Register, TypeOK, Spawner
<1>2. CASE spawn'[id] = spawn[id]
  BY <1>1, <1>2
<1>3. CASE Spawn
  <2>1. ASSUME NEW s \in Owner, Mint(id, s) PROVE spawn[id].pc \in Prelaunch
    BY <2>1 DEF Mint
  <2>2. CASE SpawnFails(id)
    BY <1>1, <2>2 DEF SpawnFails, TypeOK, Spawner
  <2>3. ASSUME SaveFails(id) \/ HolderSettles(id) \/ HolderFails(id) \/ HolderLeaves(id)
        PROVE  FALSE
    <3>1. \/ spawn' = [spawn EXCEPT ![id].pc = "settled"]
          \/ spawn' = [spawn EXCEPT ![id].pc = "cleaning"]
          \/ spawn' = [spawn EXCEPT ![id].pc = "forgotten"]
      BY <2>3 DEF SaveFails, HolderSettles, HolderFails, HolderLeaves
    <3>2. QED
      BY <3>1 DEF TypeOK, Spawner
  <2>4. ASSUME NEW s \in Session, HolderStarts(id, s) PROVE FALSE
    BY <2>4 DEF HolderStarts, TypeOK
  <2>5. ASSUME NEW i \in Id \ {id}, NEW s \in Owner,
               Mint(i, s) \/ HolderStarts(i, s) \/ Launch(i) \/ SpawnFails(i) \/ Register(i)
               \/ SaveFails(i) \/ HolderSettles(i) \/ HolderFails(i) \/ HolderLeaves(i)
        PROVE  spawn'[id] = spawn[id]
    BY <2>5 DEF Mint, Launch, SpawnFails, SaveFails, Register, HolderStarts, HolderSettles, HolderFails,
                HolderLeaves, TypeOK
  <2>6. QED
    BY <1>1, <1>2, <1>3, <2>1, <2>2, <2>3, <2>4, <2>5 DEF Spawn, Owner
<1>4. QED
  BY <1>2, <1>3
  DEF Next, vars, Environment, RuntimeExits, RuntimePrunes, Ages, ApiStarts, PostFails,
      ApiMemberEnds, Reconcile, SyncStart, SyncList, SyncListFails, SyncApply, SyncApplies,
      SyncDone, Operate, SignalLands, SignalFails, StopEnds, RemoveLands, RemoveFails,
      RemoveEnds, ClientStops, Assign, Joins, Rehomes, Poll, PollBegins, PollPasses,
      PollProbes, PollFindsStopped, ReapOrSkip, ProbeAnswered, ProbeFails, ProbeDiscarded,
      ProbeApplies, ProbeDecides, ReapEnds, PollEnds, PollTimesOut

LEMMA UnlaunchedStep ==
    ASSUME TypeOK, RefsHold, UnlaunchedUnknown, [Next]_vars PROVE UnlaunchedUnknown'
<1>1. SUFFICES ASSUME NEW id \in Id, spawn'[id].pc \in Prelaunch
               PROVE  /\ rt'[id] = "absent" /\ ~Registered(id)'
                      /\ sync'.pc = "listed" => sync'.seen[id] = "absent"
  BY DEF UnlaunchedUnknown, Registered
<1>2. /\ spawn[id].pc \in Prelaunch /\ ~Launch(id) /\ ~Register(id)
      /\ rt[id] = "absent" /\ ~Registered(id)
      /\ sync.pc = "listed" => sync.seen[id] = "absent"
  BY <1>1, PrelaunchMoves DEF UnlaunchedUnknown
<1>3. rt'[id] = "absent"
  BY <1>2, ProcessMoves
<1>4. ~Registered(id)'
  BY <1>2, Appears
<1>5. SyncList => sync'.seen[id] = "absent"
  BY <1>2 DEF SyncList, TypeOK, Listing
<1>6. QED
  BY <1>2, <1>3, <1>4, <1>5, SyncMoves

LEMMA ListedAbsentStep ==
    ASSUME TypeOK, RefsHold, UnlaunchedUnknown, ListedAbsent, [Next]_vars
    PROVE  ListedAbsent'
<1>1. SUFFICES ASSUME NEW id \in Id, sync'.pc = "listed", id \notin sync'.written,
                      Registered(id)', sync'.seen[id] = "absent"
               PROVE  rt'[id] = "absent"
  BY DEF ListedAbsent, Registered
<1>2. CASE SyncList
  BY <1>1, <1>2 DEF SyncList, TypeOK, Listing, external
<1>3. CASE /\ sync.pc = "listed" /\ sync'.seen = sync.seen
           /\ sync.written \subseteq sync'.written
  <2>1. ~Register(id)
    BY <1>1, <1>3 DEF Register, Marked, TypeOK, Listing
  <2>2. ~SyncApply
    BY <1>1, <1>3 DEF SyncApply, SyncApplies, NoSync
  <2>3. Registered(id)
    BY <1>1, <2>1, <2>2, Appears
  <2>4. rt[id] = "absent"
    BY <1>1, <1>3, <2>3 DEF ListedAbsent
  <2>5. ~Launch(id)
    BY <2>3 DEF Launch, UnlaunchedUnknown, Prelaunch
  <2>6. QED
    BY <2>4, <2>5, ProcessMoves
<1>4. QED
  BY <1>1, <1>2, <1>3, SyncMoves

\* A call that has reached its process stays until it marks the id.
LEMMA SignalledMoves ==
    ASSUME TypeOK, RefsHold, ReapsAreThePolls, [Next]_vars,
           NEW a \in Actor, op[a].pc = "signalled", sync.pc = "listed", NEW id \in Id,
           op[a].id = id, id \notin sync'.written, sync'.pc = "listed", rt'[id] = "stopped"
    PROVE  op'[a] = op[a]
<1>1. CASE op' = op
  BY <1>1
<1>2. CASE Operate
  <2>1. ASSUME NEW b \in Actor, SignalLands(b) \/ SignalFails(b) \/ RemoveLands(b)
                                \/ RemoveFails(b) \/ RemoveEnds(b)
        PROVE  op'[a] = op[a]
    BY <2>1 DEF SignalLands, SignalFails, RemoveLands, RemoveFails, RemoveEnds, TypeOK
  <2>2. ASSUME NEW b \in Actor, StopEnds(b) PROVE op'[a] = op[a]
    BY <2>2 DEF StopEnds, Marked, TypeOK, Listing
  <2>3. ASSUME NEW c \in Client, NEW i \in Id, NEW then \in BOOLEAN, ClientStops(c, i, then)
        PROVE  op'[a] = op[a]
    BY <2>3 DEF ClientStops, StopBegins, TypeOK
  <2>4. QED
    BY <1>2, <2>1, <2>2, <2>3 DEF Operate
<1>3. CASE Spawn
  <2>1. ASSUME NEW i \in Id, HolderFails(i) PROVE op'[a] = op[a]
    BY <2>1 DEF HolderFails, StopBegins, TypeOK
  <2>2. QED
    BY <1>1, <1>3, <2>1
    DEF Spawn, Mint, Launch, SpawnFails, SaveFails, Register, HolderStarts, HolderSettles, HolderLeaves
<1>4. CASE Poll
  <2>1. a = Monitor => mon.pc = "reaping"
    BY NoneIsNoId DEF ReapsAreThePolls
  <2>2. ASSUME NEW i \in Id, ReapOrSkip(i), mon.pc # "reaping" PROVE op'[a] = op[a]
    BY <2>1, <2>2 DEF ReapOrSkip, TypeOK
  <2>3. CASE PollTimesOut
    <3>1. a # Monitor
      BY <2>3 DEF PollTimesOut, TypeOK
    <3>2. QED
      BY <2>3, <3>1 DEF PollTimesOut, TypeOK
  <2>4. QED
    BY <1>1, <1>4, <2>2, <2>3
    DEF Poll, PollBegins, PollPasses, PollProbes, PollFindsStopped, ProbeAnswered, ProbeFails,
        ProbeDiscarded, ProbeApplies, ProbeDecides, ReapEnds, PollEnds, RefsHold, ProbeHolds
<1>5. QED
  BY <1>1, <1>2, <1>3, <1>4
  DEF Next, vars, Environment, RuntimeExits, RuntimePrunes, Ages, ApiStarts, PostFails,
      ApiMemberEnds, Reconcile, SyncStart, SyncList, SyncListFails, SyncApply, SyncApplies,
      SyncDone, Assign, Joins, Rehomes

LEMMA ListedStoppedStep ==
    ASSUME TypeOK, RefsHold, ReapsAreThePolls, ListedStopped, [Next]_vars
    PROVE  ListedStopped'
<1>1. SUFFICES ASSUME NEW id \in Id, sync'.pc = "listed", id \notin sync'.written,
                      sync'.seen[id] = "running", rt'[id] = "stopped"
               PROVE  \E a \in Actor : op'[a].id = id /\ op'[a].pc = "signalled"
  BY DEF ListedStopped
<1>2. CASE SyncList
  BY <1>1, <1>2 DEF SyncList, TypeOK, Listing, external
<1>3. CASE /\ sync.pc = "listed" /\ sync'.seen = sync.seen
           /\ sync.written \subseteq sync'.written
  <2>1. CASE rt[id] = "stopped"
    <3>1. PICK a \in Actor : op[a].id = id /\ op[a].pc = "signalled"
      BY <1>1, <1>3, <2>1 DEF ListedStopped
    <3>2. op'[a] = op[a]
      BY <1>1, <1>3, <3>1, SignalledMoves
    <3>3. QED
      BY <3>1, <3>2
  <2>2. CASE rt[id] # "stopped"
    <3>1. ~Launch(id)
      BY <1>1 DEF Launch, TypeOK
    <3>2. PICK a \in Actor : SignalLands(a) /\ op[a].id = id
      BY <1>1, <2>2, <3>1, ProcessMoves
    <3>3. op'[a].id = id /\ op'[a].pc = "signalled"
      BY <3>2 DEF SignalLands, TypeOK, Call
    <3>4. QED
      BY <3>3
  <2>3. QED
    BY <2>1, <2>2
<1>4. QED
  BY <1>1, <1>2, <1>3, SyncMoves

-----------------------------------------------------------------------------
(* Claims, owners and reaps.                                               *)

\* What a spawn becomes, and how its claim goes.
SpawnStays(id) == spawn'[id] = spawn[id] /\ (id \in spawning => id \in spawning')
SpawnBegins(id) == spawn[id].pc = "unminted" /\ spawn'[id].pc = "launching"
                   /\ id \in spawning'
SpawnLaunches(id) ==
    /\ spawn[id].pc = "launching" /\ spawn'[id].pc = "launched"
    /\ spawn'[id].owner = spawn[id].owner /\ spawning' = spawning
SpawnRegisters(id) ==
    /\ Register(id) /\ spawn[id].pc = "launched" /\ spawn'[id].pc = "held"
    /\ spawn'[id].owner = spawn[id].owner
    /\ spawn[id].owner = None => spawning' = spawning
SpawnAnswered(id) ==
    /\ spawn[id].pc = "held" /\ spawning' = spawning /\ spawn'[id].owner \in Session
    /\ spawn'[id].pc = IF spawn[id].owner = None THEN "minted" ELSE "started"
SpawnOver(id) == spawn'[id].pc \in {"abandoned", "cleaning", "forgotten", "settled"}

LEMMA ClaimMoves ==
    ASSUME TypeOK, [Next]_vars, NEW id \in Id
    PROVE  \/ SpawnStays(id) \/ SpawnBegins(id) \/ SpawnLaunches(id) \/ SpawnRegisters(id)
           \/ SpawnAnswered(id) \/ SpawnOver(id)
<1> DEFINE Goal ==
      \/ SpawnStays(id) \/ SpawnBegins(id) \/ SpawnLaunches(id) \/ SpawnRegisters(id)
      \/ SpawnAnswered(id) \/ SpawnOver(id)
<1>1. CASE spawn' = spawn /\ spawning' = spawning
  BY <1>1 DEF SpawnStays
<1>2. CASE Spawn
  <2>1. ASSUME NEW i \in Id \ {id}, NEW s \in Owner,
               Mint(i, s) \/ HolderStarts(i, s) \/ Launch(i) \/ SpawnFails(i) \/ Register(i)
               \/ SaveFails(i) \/ HolderSettles(i) \/ HolderFails(i) \/ HolderLeaves(i)
        PROVE  Goal
    BY <2>1 DEF Mint, Launch, SpawnFails, SaveFails, Register, HolderStarts, HolderSettles, HolderFails,
                HolderLeaves, TypeOK, SpawnStays
  <2>2. ASSUME NEW s \in Owner, Mint(id, s) PROVE SpawnBegins(id)
    BY <2>2 DEF Mint, TypeOK, SpawnBegins
  <2>3. ASSUME Launch(id) PROVE SpawnLaunches(id) \/ SpawnOver(id)
    <3>1. /\ spawning' = spawning /\ spawn'[id].owner = spawn[id].owner
          /\ spawn'[id].pc = IF spawn[id].pc = "launching" THEN "launched" ELSE "settled"
      BY <2>3 DEF Launch, TypeOK, Spawner
    <3>2. QED
      BY <3>1 DEF SpawnLaunches, SpawnOver
  <2>4. ASSUME SpawnFails(id) PROVE SpawnOver(id)
    <3>1. spawn'[id].pc = IF spawn[id].pc = "launching" THEN "abandoned" ELSE "settled"
      BY <2>4 DEF SpawnFails, TypeOK, Spawner
    <3>2. QED
      BY <3>1 DEF SpawnOver
  <2>5. ASSUME Register(id) PROVE SpawnRegisters(id)
    <3>1. spawn[id].pc = "launched" /\ spawn' = [spawn EXCEPT ![id].pc = "held"]
      BY <2>5 DEF Register
    <3>2. spawn'[id].pc = "held" /\ spawn'[id].owner = spawn[id].owner
      BY <3>1 DEF TypeOK, Spawner
    <3>3. spawn[id].owner = None => spawning' = spawning
      BY <2>5 DEF Register
    <3>4. QED
      BY <2>5, <3>1, <3>2, <3>3 DEF SpawnRegisters
  <2>6. ASSUME NEW s \in Session, HolderStarts(id, s) PROVE SpawnAnswered(id)
    <3>1. spawn'[id] = [pc |-> IF spawn[id].owner = None THEN "minted" ELSE "started",
                        owner |-> s]
      BY <2>6 DEF HolderStarts, TypeOK
    <3>2. spawn[id].pc = "held" /\ spawning' = spawning
      BY <2>6 DEF HolderStarts
    <3>3. QED
      BY <3>1, <3>2 DEF SpawnAnswered
  <2>7. ASSUME SaveFails(id) \/ HolderSettles(id) \/ HolderFails(id) \/ HolderLeaves(id)
        PROVE  SpawnOver(id)
    <3>1. \/ spawn' = [spawn EXCEPT ![id].pc = "settled"]
          \/ spawn' = [spawn EXCEPT ![id].pc = "cleaning"]
          \/ spawn' = [spawn EXCEPT ![id].pc = "forgotten"]
      BY <2>7 DEF SaveFails, HolderSettles, HolderFails, HolderLeaves
    <3>2. spawn'[id].pc \in {"settled", "cleaning", "forgotten"}
      BY <3>1 DEF TypeOK, Spawner
    <3>3. QED
      BY <3>2 DEF SpawnOver
  <2>8. QED
    BY <1>2, <2>1, <2>2, <2>3, <2>4, <2>5, <2>6, <2>7 DEF Spawn, Owner
<1>3. QED
  BY <1>1, <1>2
  DEF Next, vars, Environment, RuntimeExits, RuntimePrunes, Ages, ApiStarts, PostFails,
      ApiMemberEnds, Reconcile, SyncStart, SyncList, SyncListFails, SyncApply, SyncApplies,
      SyncDone, Operate, SignalLands, SignalFails, StopEnds, RemoveLands, RemoveFails,
      RemoveEnds, ClientStops, Assign, Joins, Rehomes, Poll, PollBegins, PollPasses,
      PollProbes, PollFindsStopped, ReapOrSkip, ProbeAnswered, ProbeFails, ProbeDiscarded,
      ProbeApplies, ProbeDecides, ReapEnds, PollEnds, PollTimesOut

LEMMA ClaimsStep == ASSUME TypeOK, ClaimsCover, [Next]_vars PROVE ClaimsCover'
<1>1. SUFFICES ASSUME NEW id \in Id
               PROVE  /\ spawn'[id].pc \in {"launching", "launched", "minted"} => id \in spawning'
                      /\ spawn'[id].pc = "held" /\ spawn'[id].owner = None => id \in spawning'
                      /\ spawn'[id].pc = "started" => spawn'[id].owner # None
  BY DEF ClaimsCover
<1>2. QED
  BY ClaimMoves, NoneIsNoId
  DEF ClaimsCover, SpawnStays, SpawnBegins, SpawnLaunches, SpawnRegisters, SpawnAnswered,
      SpawnOver

\* A listing leaves an entry's owner and members.
LEMMA ObservedKeeps ==
    ASSUME TypeOK, NEW id \in Id, NEW ported
    PROVE  /\ Registered(id) => /\ Observed(id, ported).owner = reg[id].owner
                                /\ Observed(id, ported).members = reg[id].members
           /\ ~Registered(id) => /\ Observed(id, ported).owner = None
                                 /\ Observed(id, ported).members = {}
           /\ Observed(id, ported).status = Reconciled(id)
<1> DEFINE known == IF Registered(id) THEN reg[id] ELSE NewEntry("running", FALSE, None)
           port == known.port \/ (Reconciled(id) = "running" /\ id \in ported)
<1>1. known \in Entry
  BY ConstantTypes DEF TypeOK, Registered, Status, Owner
<1>2. Observed(id, ported) = [known EXCEPT !.status = Reconciled(id), !.port = port]
  BY DEF Observed
<1>3. known.owner = (IF Registered(id) THEN reg[id].owner ELSE None)
      /\ known.members = (IF Registered(id) THEN reg[id].members ELSE {})
  BY DEF NewEntry
<1> HIDE DEF known, port
<1>4. /\ Observed(id, ported).owner = known.owner
      /\ Observed(id, ported).members = known.members
      /\ Observed(id, ported).status = Reconciled(id)
  BY <1>1, <1>2 DEF Entry
<1>5. QED
  BY <1>3, <1>4

LEMMA SyncKeeps ==
    ASSUME TypeOK, SyncApply, NEW id \in Id, Registered(id)'
    PROVE  /\ Registered(id) => reg'[id].owner = reg[id].owner
                                /\ reg'[id].members = reg[id].members
           /\ ~Registered(id) => reg'[id].owner = None /\ reg'[id].members = {}
<1>1. PICK ported \in SUBSET Running : SyncApplies(ported)
  BY DEF SyncApply
<1>2. reg'[id] \in {None, reg[id], Observed(id, ported)}
  BY <1>1 DEF SyncApplies
<1>3. QED
  BY <1>2, ObservedKeeps DEF Registered

LEMMA HeldOwnedStep ==
    ASSUME TypeOK, RefsHold, HeldOwned, [Next]_vars PROVE HeldOwned'
<1>1. SUFFICES ASSUME NEW id \in Id, spawn'[id].pc \in {"held", "started"},
                      spawn'[id].owner # None, <<"spawn", id>> \notin stale'
               PROVE  Registered(id)' /\ reg'[id].owner # None
  BY DEF HeldOwned
<1>2. Registered(id)'
  BY <1>1, SpawnersStep DEF SpawnersHold
<1>3. CASE Register(id)
  <2>1. PICK port \in BOOLEAN : reg'[id] = NewEntry("starting", port, spawn[id].owner)
    BY <1>3 DEF Register, TypeOK
  <2>2. spawn'[id].owner = spawn[id].owner
    BY <1>3 DEF Register, TypeOK, Spawner
  <2>3. QED
    BY <1>1, <1>2, <2>1, <2>2 DEF NewEntry
<1>4. CASE ~Register(id)
  <2>1. <<"spawn", id>> \notin stale
    BY <1>1, <1>4, SpawnMoves DEF Holding
  <2>2. spawn[id].pc \in {"held", "started"} /\ spawn[id].owner # None
    BY <1>1, <1>4, ClaimMoves
    DEF SpawnStays, SpawnBegins, SpawnLaunches, SpawnRegisters, SpawnAnswered, SpawnOver
  <2>3. Registered(id) /\ reg[id].owner # None
    BY <2>1, <2>2 DEF HeldOwned
  <2>4. ~Settled(id)
    BY <2>2 DEF Settled
  <2>5. ASSUME NEW a \in Actor, RemoveEnds(a), op[a].id = id PROVE FALSE
    BY <1>2, <2>5 DEF RemoveEnds, Registered, TypeOK
  <2>6. SyncApply => reg'[id].owner # None
    BY <1>2, <2>3, SyncKeeps
  <2>7. QED
    BY <1>2, <1>4, <2>3, <2>4, <2>5, <2>6, EntryChanges DEF Kept, Assigned, Answered
<1>5. QED
  BY <1>3, <1>4

\* The monitor's call goes on while the poll waits for it, or begins.
MonitorGoesOn ==
    /\ op'[Monitor].id = op[Monitor].id /\ mon' = mon
    /\ op'[Monitor].pc # "none"

LEMMA MonitorMoves ==
    ASSUME TypeOK, RefsHold, ReapsAreThePolls, [Next]_vars, op'[Monitor].id # None
    PROVE  \/ op[Monitor].id # None /\ MonitorGoesOn
           \/ \E id \in Id : ReapOrSkip(id) /\ Reapable(id)
<1> DEFINE Goal == \/ op[Monitor].id # None /\ MonitorGoesOn
                   \/ \E id \in Id : ReapOrSkip(id) /\ Reapable(id)
<1>1. Monitor \in Actor
  BY DEF Actor
<1>2. CASE op'[Monitor] = op[Monitor] /\ (mon' = mon \/ mon.pc # "reaping")
  BY <1>2 DEF MonitorGoesOn, ReapsAreThePolls
<1>3. CASE Operate
  <2>1. ASSUME NEW a \in Actor, SignalLands(a) \/ SignalFails(a) \/ StopEnds(a)
                                \/ RemoveLands(a) \/ RemoveFails(a) \/ RemoveEnds(a)
        PROVE  Goal
    <3>1. CASE a = Monitor
      <4>1. /\ op'[Monitor].id = op[Monitor].id /\ mon' = mon
            /\ op'[Monitor].pc # "none"
        BY <1>1, <2>1, <3>1
        DEF SignalLands, SignalFails, StopEnds, RemoveLands, RemoveFails, RemoveEnds, TypeOK,
            Call, Idle
      <4>2. QED
        BY <4>1 DEF MonitorGoesOn
    <3>2. CASE a # Monitor
      <4>1. op'[Monitor] = op[Monitor] /\ mon' = mon
        BY <1>1, <2>1, <3>2
        DEF SignalLands, SignalFails, StopEnds, RemoveLands, RemoveFails, RemoveEnds, TypeOK
      <4>2. QED
        BY <1>2, <4>1
    <3>3. QED
      BY <3>1, <3>2
  <2>2. ASSUME NEW c \in Client, NEW id \in Id, NEW then \in BOOLEAN, ClientStops(c, id, then)
        PROVE  op'[Monitor] = op[Monitor] /\ mon' = mon
    BY <1>1, <2>2, ActorsDistinct DEF ClientStops, StopBegins, TypeOK
  <2>3. QED
    BY <1>2, <1>3, <2>1, <2>2 DEF Operate
<1>4. CASE Spawn
  <2>1. ASSUME NEW id \in Id, HolderFails(id) PROVE op'[Monitor] = op[Monitor] /\ mon' = mon
    BY <1>1, <2>1, ActorsDistinct DEF HolderFails, StopBegins, TypeOK
  <2>2. QED
    BY <1>2, <1>4, <2>1
    DEF Spawn, Mint, Launch, SpawnFails, SaveFails, Register, HolderStarts, HolderSettles, HolderLeaves
<1>5. CASE Poll
  <2>1. ASSUME NEW id \in Id, ReapOrSkip(id), mon.pc # "reaping" PROVE Goal
    BY <1>2, <2>1 DEF ReapOrSkip
  <2>2. CASE PollTimesOut
    BY <1>1, <2>2 DEF PollTimesOut, TypeOK, Idle
  <2>3. CASE ReapEnds
    <3>1. op[Monitor].pc = "none" /\ op' = op
      BY <2>3 DEF ReapEnds
    <3>2. QED
      BY <3>1 DEF ReapsAreThePolls
  <2>4. QED
    BY <1>2, <1>5, <2>1, <2>2, <2>3
    DEF Poll, PollBegins, PollPasses, PollProbes, PollFindsStopped, ProbeAnswered, ProbeFails,
        ProbeDiscarded, ProbeApplies, ProbeDecides, PollEnds, RefsHold, ProbeHolds
<1>6. CASE Reconcile
  <2>1. op' = op /\ (mon' = mon \/ mon' = Resumed(mon))
    BY <1>6 DEF Reconcile, SyncStart, SyncList, SyncListFails, SyncApply, SyncApplies, SyncDone
  <2>2. QED
    BY <1>2, <2>1 DEF Resumed
<1>7. QED
  BY <1>2, <1>3, <1>4, <1>5, <1>6
  DEF Next, vars, Environment, RuntimeExits, RuntimePrunes, Ages, ApiStarts, PostFails,
      ApiMemberEnds, Assign, Joins, Rehomes

\* A reap begins on an entry that nothing refers to.
LEMMA ReapBegins ==
    ASSUME TypeOK, NEW id \in Id, ReapOrSkip(id), Reapable(id)
    PROVE  /\ op'[Monitor].id = id /\ op'[Monitor].pc # "none" /\ mon'.pc = "reaping"
           /\ Registered(id) /\ Registered(id)'
           /\ reg[id].owner = None /\ reg'[id].owner = None /\ reg'[id].members = {}
           /\ spawn' = spawn /\ id \notin spawning
           /\ <<"spawn", id>> \in stale => <<"spawn", id>> \in stale'
<1>1. Monitor \in Actor
  BY DEF Actor
<1>2. reg[id] \in Entry /\ reg[id].owner = None /\ reg[id].members = {} /\ id \notin spawning
      /\ Registered(id)
  BY DEF Reapable, Registered, TypeOK
<1>3. reg'[id] = [reg[id] EXCEPT !.status = "stopping"] \/ reg'[id] = reg[id]
  BY DEF ReapOrSkip, TypeOK
<1>4. reg'[id] \in Entry /\ reg'[id].owner = None /\ reg'[id].members = {}
  BY <1>2, <1>3 DEF Entry, Status
<1>5. Registered(id)'
  BY <1>4, NoneIsNoEntry DEF Registered
<1>6. op'[Monitor].id = id /\ op'[Monitor].pc # "none"
  BY <1>1 DEF ReapOrSkip, TypeOK
<1>7. mon'.pc = "reaping"
  <2>1. Onward(mon) \in Polling
    BY OnwardType DEF TypeOK
  <2>2. mon' = [Onward(mon) EXCEPT !.pc = "reaping", !.todo = @ \ {id}]
    BY DEF ReapOrSkip
  <2>3. QED
    BY <2>1, <2>2 DEF Polling
<1>8. spawn' = spawn /\ (<<"spawn", id>> \in stale => <<"spawn", id>> \in stale')
  BY DEF ReapOrSkip
<1>9. QED
  BY <1>2, <1>4, <1>5, <1>6, <1>7, <1>8

LEMMA ReapsStep ==
    ASSUME TypeOK, RefsHold, UnlaunchedUnknown, ReapsAreThePolls, [Next]_vars
    PROVE  ReapsAreThePolls'
<1>1. SUFFICES ASSUME op'[Monitor].id # None
               PROVE  /\ mon'.pc = "reaping" /\ op'[Monitor].pc # "none"
                      /\ \A id \in Id : op'[Monitor].id = id => spawn'[id].pc \notin Prelaunch
  BY DEF ReapsAreThePolls
<1>2. CASE op[Monitor].id # None /\ MonitorGoesOn
  BY <1>2, PrelaunchMoves DEF MonitorGoesOn, ReapsAreThePolls
<1>3. ASSUME NEW id \in Id, ReapOrSkip(id), Reapable(id)
      PROVE  /\ mon'.pc = "reaping" /\ op'[Monitor].pc # "none" /\ op'[Monitor].id = id
             /\ spawn'[id].pc \notin Prelaunch
  BY <1>3, ReapBegins DEF UnlaunchedUnknown
<1>4. QED
  BY <1>1, <1>2, <1>3, MonitorMoves

LEMMA ReapHitsStep ==
    ASSUME TypeOK, RefsHold, UnlaunchedUnknown, ClaimsCover, HeldOwned, ReapsAreThePolls,
           ReapHitsOnlyUnreachable, [Next]_vars
    PROVE  ReapHitsOnlyUnreachable'
<1>1. SUFFICES ASSUME NEW id \in Id, op'[Monitor].id = id
               PROVE  /\ ~CountedOn(id)'
                      /\ Registered(id)' => reg'[id].owner = None /\ reg'[id].members = {}
  BY DEF ReapHitsOnlyUnreachable
<1>2. op'[Monitor].id # None
  BY <1>1, NoneIsNoId
<1>3. CASE op[Monitor].id # None /\ MonitorGoesOn
  <2>1. op[Monitor].id = id /\ mon.pc = "reaping" /\ spawn[id].pc \notin Prelaunch
    BY <1>1, <1>3 DEF MonitorGoesOn, ReapsAreThePolls
  <2>2. /\ ~CountedOn(id)
        /\ Registered(id) => reg[id].owner = None /\ reg[id].members = {}
    BY <2>1 DEF ReapHitsOnlyUnreachable
  <2>3. ~Register(id) /\ ~Settled(id)
    BY <2>2 DEF Register, Settled, CountedOn
  <2>4. ~CountedOn(id)'
    <3>1. \/ SpawnStays(id) \/ SpawnBegins(id) \/ SpawnLaunches(id) \/ SpawnAnswered(id)
          \/ SpawnOver(id)
      BY <2>3, ClaimMoves DEF SpawnRegisters
    <3>2. ~SpawnBegins(id)
      BY <2>1, <2>2 DEF SpawnBegins, CountedOn, Prelaunch
    <3>3. ~SpawnLaunches(id)
      BY <2>2 DEF SpawnLaunches, CountedOn
    <3>4. spawn'[id].pc \in Holding =>
              spawn[id].pc \in Holding /\ (<<"spawn", id>> \in stale => <<"spawn", id>> \in stale')
      BY <2>3, SpawnMoves
    <3>5. QED
      BY <2>2, <3>1, <3>2, <3>3, <3>4
      DEF CountedOn, Holding, SpawnStays, SpawnAnswered, SpawnOver
  <2>5. Registered(id)' => reg'[id].owner = None /\ reg'[id].members = {}
    <3>1. CASE reg'[id] = reg[id]
      BY <2>2, <3>1 DEF Registered
    <3>2. CASE SyncApply
      BY <2>2, <3>2, SyncKeeps
    <3>3. ASSUME NEW a \in Actor, RemoveEnds(a), op[a].id = id PROVE ~Registered(id)'
      BY <3>3 DEF RemoveEnds, Registered, TypeOK
    <3>4. ~Assigned(id) /\ ~Answered(id)
      BY <2>1, <2>2 DEF Assigned, Answered, ProbeApplies
    <3>5. Kept(id) => reg'[id].owner = None /\ reg'[id].members = {}
      BY <2>2 DEF Kept
    <3>6. QED
      BY <2>3, <3>1, <3>2, <3>3, <3>4, <3>5, EntryChanges
  <2>6. QED
    BY <2>4, <2>5
<1>4. ASSUME NEW i \in Id, ReapOrSkip(i), Reapable(i)
      PROVE  /\ ~CountedOn(id)'
             /\ Registered(id)' => reg'[id].owner = None /\ reg'[id].members = {}
  <2>1. i = id
    BY <1>1, <1>4, ReapBegins
  <2>2. /\ Registered(id) /\ reg[id].owner = None /\ spawn' = spawn /\ id \notin spawning
        /\ reg'[id].owner = None /\ reg'[id].members = {}
        /\ <<"spawn", id>> \in stale => <<"spawn", id>> \in stale'
    BY <1>4, <2>1, ReapBegins
  <2>3. ~CountedOn(id)
    BY <2>2 DEF CountedOn, ClaimsCover, HeldOwned
  <2>4. ~CountedOn(id)'
    BY <2>2, <2>3 DEF CountedOn
  <2>5. QED
    BY <2>2, <2>4
<1>5. QED
  BY <1>2, <1>3, <1>4, MonitorMoves

-----------------------------------------------------------------------------
(* The inductive invariant and what it gives.                              *)

IInv ==
    /\ TypeOK /\ RefsHold /\ UnlaunchedUnknown /\ ListedAbsent /\ ListedStopped
    /\ ClaimsCover /\ HeldOwned /\ ReapsAreThePolls /\ ReapHitsOnlyUnreachable

LEMMA InitIInv == ASSUME Init PROVE IInv
<1>1. TypeOK /\ RefsHold
  BY TypeInit
<1>2. UnlaunchedUnknown /\ ListedAbsent /\ ListedStopped
  BY DEF Init, UnlaunchedUnknown, ListedAbsent, ListedStopped, Registered, NoSync
<1>3. ClaimsCover /\ HeldOwned
  BY DEF Init, ClaimsCover, HeldOwned
<1>4. op[Monitor].id = None
  BY DEF Init, Idle, Actor
<1>5. QED
  BY <1>1, <1>2, <1>3, <1>4, NoneIsNoId DEF IInv, ReapsAreThePolls, ReapHitsOnlyUnreachable

LEMMA StepIInv == ASSUME IInv, [Next]_vars PROVE IInv'
BY TypeStep, UnlaunchedStep, ListedAbsentStep, ListedStoppedStep, ClaimsStep, HeldOwnedStep,
   ReapsStep, ReapHitsStep
DEF IInv

THEOREM Invariance == Spec => []IInv
<1>1. Init => IInv
  BY InitIInv
<1>2. IInv /\ [Next]_vars => IInv'
  BY StepIInv
<1>3. QED
  BY <1>1, <1>2, PTL DEF Spec

(* The monitor reaps only what nobody owns, is a member of, or is still    *)
(* bringing up, whichever way its decisions interleave with spawns,        *)
(* listings, probes, forks and stops.                                      *)
THEOREM Reaping == Spec => []ReapHitsOnlyUnreachable
<1>1. IInv => ReapHitsOnlyUnreachable
  BY DEF IInv
<1>2. QED
  BY <1>1, Invariance, PTL

\* What applying a listing makes of an entry.
LEMMA ListingApplied ==
    ASSUME TypeOK, NEW id \in Id, SyncApply, Registered(id), reg'[id] # reg[id]
    PROVE  /\ sync.pc = "listed" /\ id \notin sync.written
           /\ \/ sync.seen[id] = "absent" /\ reg'[id] = None
              \/ reg'[id].status = Reconciled(id) /\ reg'[id] # None
<1>1. PICK ported \in SUBSET Running : SyncApplies(ported)
  BY DEF SyncApply
<1>2. /\ sync.pc = "listed" /\ id \notin sync.written
      /\ \/ sync.seen[id] = "absent" /\ reg'[id] = None
         \/ reg'[id] = Observed(id, ported)
  BY <1>1 DEF SyncApplies, TypeOK
<1>3. QED
  BY <1>2, ObservedType, ObservedKeeps, NoneIsNoEntry

(* A listing drops only entries whose container is gone when it is         *)
(* applied, however long it was under way.                                 *)
THEOREM ListingDrops == Spec => ListingDropsOnlyGone
<1>1. IInv /\ [Next]_vars
      => [SyncApply => \A id \in Id : Registered(id) /\ reg'[id] = None => rt[id] = "absent"]_vars
  <2>1. ASSUME IInv, SyncApply, NEW id \in Id, Registered(id), reg'[id] = None
        PROVE  rt[id] = "absent"
    BY <2>1, ListingApplied DEF IInv, ListedAbsent, Registered
  <2>2. QED
    BY <2>1
<1>2. QED
  BY <1>1, Invariance, PTL DEF Spec, ListingDropsOnlyGone

(* A stop that is over is not undone by a listing or an answer that was    *)
(* under way.                                                              *)
THEOREM StopsLast == Spec => StopOutlivesStaleAnswers
<1> DEFINE Lasts ==
      \A id \in Id :
        /\ Registered(id) /\ reg[id].status = "stopped"
        /\ rt[id] = "stopped" /\ Undisturbed(id)
        /\ ~Register(id)
        => reg'[id] = None \/ reg'[id].status \in {"stopping", "stopped"}
<1>1. IInv /\ [Next]_vars => [Lasts]_vars
  <2>1. ASSUME IInv, [Next]_vars, NEW id \in Id,
               Registered(id), reg[id].status = "stopped", rt[id] = "stopped",
               Undisturbed(id), ~Register(id), reg'[id] # reg[id]
        PROVE  reg'[id] = None \/ reg'[id].status \in {"stopping", "stopped"}
    <3>1. CASE SyncApply
      <4>1. CASE sync.seen[id] = "running"
        BY <2>1, <3>1, <4>1, ListingApplied DEF IInv, ListedStopped, Undisturbed
      <4>2. CASE sync.seen[id] # "running"
        <5>1. Reconciled(id) = "stopped"
          BY <4>2 DEF Reconciled
        <5>2. QED
          BY <2>1, <3>1, <5>1, ListingApplied DEF IInv
      <4>3. QED
        BY <4>1, <4>2
    <3>2. ASSUME NEW a \in Actor, RemoveEnds(a), op[a].id = id PROVE FALSE
      BY <2>1, <3>2 DEF Undisturbed
    <3>3. Kept(id) => reg'[id].status \in {"stopping", "stopped"}
      BY <2>1 DEF Kept, Probed
    <3>4. Settled(id) \/ Assigned(id) => reg'[id].status = "stopped"
      BY <2>1 DEF Settled, Assigned
    <3>5. ~Answered(id)
      BY <2>1 DEF Answered, Probed
    <3>6. QED
      BY <2>1, <3>1, <3>2, <3>3, <3>4, <3>5, EntryChanges DEF IInv
  <2>2. QED
    BY <2>1
<1>2. QED
  BY <1>1, Invariance, PTL DEF Spec, StopOutlivesStaleAnswers

(* Only an answer takes a crashed verdict back.                            *)
THEOREM CrashVerdictsStand == Spec => CrashVerdictOutranksListing
<1> DEFINE Stands ==
      \A id \in Id :
        StatusIn(id, {"crashed"}) /\ reg'[id] # None /\ reg'[id].status \in Live
        => Register(id) \/ (ProbeApplies /\ mon.cur = id)
<1>1. IInv /\ [Next]_vars => [Stands]_vars
  <2>1. ASSUME IInv, [Next]_vars, NEW id \in Id,
               StatusIn(id, {"crashed"}), reg'[id] # None, reg'[id].status \in Live
        PROVE  Register(id) \/ (ProbeApplies /\ mon.cur = id)
    <3>1. Registered(id) /\ reg[id].status = "crashed" /\ reg'[id] # reg[id]
      BY <2>1 DEF StatusIn, Live
    <3>2. Reconciled(id) \notin Live
      BY <3>1 DEF Reconciled, Live
    <3>3. ~SyncApply
      BY <2>1, <3>1, <3>2, ListingApplied DEF IInv
    <3>4. ASSUME NEW a \in Actor, RemoveEnds(a), op[a].id = id PROVE FALSE
      BY <2>1, <3>4 DEF RemoveEnds, IInv, TypeOK
    <3>5. ~Kept(id) /\ ~Settled(id) /\ ~Assigned(id)
      BY <2>1, <3>1 DEF Kept, Settled, Assigned, Live
    <3>6. QED
      BY <2>1, <3>1, <3>3, <3>4, <3>5, EntryChanges DEF IInv, Answered
  <2>2. QED
    BY <2>1
<1>2. QED
  BY <1>1, Invariance, PTL DEF Spec, CrashVerdictOutranksListing

-----------------------------------------------------------------------------
(* Claims do not outlive the spawns they cover.                            *)

(* A claim keeps the monitor's hands off a container, so each has an       *)
(* operation under way that is to drop it, whichever step of a spawn fails *)
(* or is cancelled and whatever is adopted, stopped or removed meanwhile;  *)
(* only a create whose save failed leaves its own behind (create,          *)
(* SessionService.create, reap_orphan).                                    *)
ClaimsInCharge == \A id \in spawning : InFlight(id) \/ spawn[id].pc = "forgotten"

\* A spawn that may have its claim: one that named its session drops it early.
Claiming(s) ==
    \/ s.pc \in {"launching", "launched", "minted", "cleaning", "forgotten"}
    \/ s.pc = "held" /\ s.owner = None

ClaimsLimited == \A id \in spawning : Claiming(spawn[id])

LEMMA ClaimsLimitedStep ==
    ASSUME TypeOK, ClaimsLimited, [Next]_vars PROVE ClaimsLimited'
<1> SUFFICES ASSUME NEW id \in spawning' PROVE Claiming(spawn'[id])
  BY DEF ClaimsLimited
<1>1. CASE spawn' = spawn /\ spawning' = spawning
  BY <1>1 DEF ClaimsLimited
<1>2. CASE Spawn
  <2>1. ASSUME NEW i \in Id \ {id}, NEW s \in Owner,
               Mint(i, s) \/ HolderStarts(i, s) \/ Launch(i) \/ SpawnFails(i) \/ Register(i)
               \/ SaveFails(i) \/ HolderSettles(i) \/ HolderFails(i) \/ HolderLeaves(i)
        PROVE  Claiming(spawn'[id])
    <3>1. spawn'[id] = spawn[id] /\ id \in spawning
      BY <2>1 DEF Mint, Launch, SpawnFails, SaveFails, Register, HolderStarts, HolderSettles,
         HolderFails, HolderLeaves, TypeOK
    <3>2. QED
      BY <3>1 DEF ClaimsLimited
  <2>2. ASSUME id \in Id, NEW s \in Owner, Mint(id, s) PROVE Claiming(spawn'[id])
    BY <2>2 DEF Mint, TypeOK, Claiming
  <2>3. ASSUME id \in Id, Launch(id) \/ HolderFails(id) PROVE Claiming(spawn'[id])
    <3>1. \/ spawn[id].pc = "launching" /\ spawn' = [spawn EXCEPT ![id].pc = "launched"]
          \/ spawn[id].pc = "abandoned" /\ id \in spawning
          \/ spawn' = [spawn EXCEPT ![id].pc = "cleaning"]
      BY <2>3 DEF Launch, HolderFails
    <3>2. spawn'[id].pc \in {"launched", "cleaning"} \/ (spawn[id].pc = "abandoned" /\ id \in spawning)
      BY <2>3, <3>1 DEF TypeOK, Spawner
    <3>3. QED
      BY <3>2 DEF ClaimsLimited, Claiming
  <2>4. ASSUME SpawnFails(id) \/ HolderSettles(id) \/ HolderLeaves(id) PROVE FALSE
    BY <2>4 DEF SpawnFails, HolderSettles, HolderLeaves
  <2>5. ASSUME id \in Id, Register(id) \/ SaveFails(id) PROVE Claiming(spawn'[id])
    <3>1. \/ spawn[id].owner = None /\ spawn' = [spawn EXCEPT ![id].pc = "held"]
          \/ spawn[id].owner = None /\ spawn' = [spawn EXCEPT ![id].pc = "forgotten"]
          \/ spawn[id].pc = "held" /\ spawn[id].owner # None /\ id \in spawning
      BY <2>5 DEF Register, SaveFails
    <3>2. \/ spawn'[id].pc \in {"held", "forgotten"} /\ spawn'[id].owner = None
          \/ ~Claiming(spawn[id]) /\ id \in spawning
      BY <2>5, <3>1 DEF TypeOK, Spawner, Claiming
    <3>3. QED
      BY <3>2 DEF ClaimsLimited, Claiming
  <2>6. ASSUME id \in Id, NEW s \in Session, HolderStarts(id, s) PROVE Claiming(spawn'[id])
    <3>1. spawn'[id] = [pc |-> IF spawn[id].owner = None THEN "minted" ELSE "started",
                        owner |-> s]
      BY <2>6 DEF HolderStarts, TypeOK
    <3>2. spawn[id].pc = "held" /\ id \in spawning
      BY <2>6 DEF HolderStarts
    <3>3. spawn[id].owner = None
      BY <3>2 DEF ClaimsLimited, Claiming
    <3>4. QED
      BY <3>1, <3>3 DEF Claiming
  <2>7. QED
    BY <1>2, <2>1, <2>2, <2>3, <2>4, <2>5, <2>6 DEF Spawn, Owner
<1>3. QED
  BY <1>1, <1>2
  DEF Next, vars, Environment, RuntimeExits, RuntimePrunes, Ages, ApiStarts, PostFails,
      ApiMemberEnds, Reconcile, SyncStart, SyncList, SyncListFails, SyncApply, SyncApplies,
      SyncDone, Operate, SignalLands, SignalFails, StopEnds, RemoveLands, RemoveFails,
      RemoveEnds, ClientStops, Assign, Joins, Rehomes, Poll, PollBegins, PollPasses,
      PollProbes, PollFindsStopped, ReapOrSkip, ProbeAnswered, ProbeFails, ProbeDiscarded,
      ProbeApplies, ProbeDecides, ReapEnds, PollEnds, PollTimesOut

\* No claim is left behind but that of a create whose save failed.
THEOREM ClaimsEnd == Spec => []ClaimsInCharge
<1>1. Init => ClaimsLimited
  BY DEF Init, ClaimsLimited
<1>2. IInv /\ ClaimsLimited /\ [Next]_vars => ClaimsLimited'
  BY ClaimsLimitedStep DEF IInv
<1>3. ClaimsLimited => ClaimsInCharge
  BY DEF ClaimsLimited, Claiming, ClaimsInCharge, InFlight
<1>4. QED
  BY <1>1, <1>2, <1>3, Invariance, PTL DEF Spec

=============================================================================

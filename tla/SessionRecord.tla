--------------------------- MODULE SessionRecord ---------------------------
(***************************************************************************)
(* A session's record, session.json, and those who write it: the           *)
(* container's Projection (orchestration/projection.py), which folds the   *)
(* session's events into a summary and saves it debounced on a pool of     *)
(* threads or at once in the event loop, the container's promotion and the *)
(* daemon's updates, which read the record, merge fields of their own and  *)
(* write it back (SessionRepository.update).  No lock spans the two        *)
(* processes, or the loop and the pool: a write is a rename over the file, *)
(* and what it writes was read some steps before.                          *)
(*                                                                         *)
(* Each start of the session, and each repair of its consumer, builds a    *)
(* Projection anew from what is on disk.  The one it replaces keeps its    *)
(* timer and its writes, and nothing flushes it.                           *)
(*                                                                         *)
(* Of a record the model keeps how many of the session's events the        *)
(* summary counts (its turns, cost and duration are such counts) and which *)
(* changes of the daemon-owned fields it holds (a rename, the promotion).  *)
(***************************************************************************)
EXTENDS Naturals

CONSTANTS
    Rename,      \* the daemon's changes of the fields it owns, each made once
    Promotion,   \* the container's, by promote_session
    Proj,        \* the Projection objects alive at once
    Pool,        \* threads of the container's executor
    Loop,        \* the container's event loop
    Daemon,      \* the daemon's event loop
    None,
    MaxEvents    \* bound on the session's events

Actor == Pool \cup {Loop, Daemon}
Mark == Rename \cup Promotion

ASSUME ActorsDiffer == Loop # Daemon /\ Loop \notin Pool /\ Daemon \notin Pool
ASSUME NoneIsNoMark == None \notin Mark \cup Proj \cup Nat
ASSUME SomeProjection == Proj # {}
ASSUME EventsBounded == MaxEvents \in Nat

VARIABLES
    disk,    \* session.json
    mem,     \* each projection's _value
    dirty,   \* its _dirty
    timer,   \* its _save_timer is set
    due,     \* the timer's _async_save is scheduled and has not run
    cur,     \* the session's _projection
    state,   \* the session: stopped, running, in its last flush
    op,      \* what each actor is doing with the record
    events,  \* in events.jsonl
    pending, \* those appended whose handler has not folded them yet
    owed,    \* those a summary should have counted once they are folded
    landed,  \* the changes of daemon-owned fields that reached the disk
    crossed, \* a write landed across another's, to its loss
    stale    \* the last save on disk is a replaced projection's

\* What a projection keeps, and how much of it is its own session's.
projection == <<mem, dirty, timer, due, cur, stale>>
counts == <<events, pending, owed>>
vars == <<disk, projection, state, op, counts, landed, crossed>>

Record == [turns : Nat \cup {None}, marks : SUBSET Mark]
Unwritten == [turns |-> None, marks |-> {}]

Idle == [kind |-> "none", pc |-> "none", data |-> Unwritten, mark |-> None, proj |-> None]
Doing(kind, p) ==
    [kind |-> kind, pc |-> "reads", data |-> Unwritten, mark |-> None, proj |-> p]
Amending(m) ==
    [kind |-> "amend", pc |-> "reads", data |-> Unwritten, mark |-> m, proj |-> None]

IsIdle(w) == op[w].kind = "none"
LoopFree == IsIdle(Loop)

Init ==
    /\ disk = Unwritten
    /\ mem = [p \in Proj |-> Unwritten]
    /\ dirty = [p \in Proj |-> FALSE] /\ timer = dirty /\ due = dirty
    /\ cur = CHOOSE p \in Proj : TRUE
    /\ state = "stopped"
    /\ op = [w \in Actor |-> Idle]
    /\ events \in 0..1   \* 1: a log whose record is gone
    /\ pending = 0
    /\ owed = events
    /\ landed = {}
    /\ crossed = FALSE /\ stale = FALSE

-----------------------------------------------------------------------------
(* One file operation, step by step: _write and _refresh_daemon_fields of  *)
(* the projection, SessionRepository.update.                               *)

Saves(w) == op[w].kind \in {"fold", "store", "pool", "flush"}

\* It holds what it read of the daemon-owned fields ...
HoldsMarks(w) == op[w].pc \in {"merges", "dumps", "replaces"}
\* ... or a record to be written.
HoldsRecord(w) == op[w].pc = "replaces"

Reads(w) ==
    /\ op[w].pc = "reads"
    /\ op' = [op EXCEPT ![w] = IF @.kind = "amend"
                    THEN [@ EXCEPT !.data = disk, !.pc = "replaces"]
                    ELSE [@ EXCEPT !.data.marks = disk.marks, !.pc = "merges"]]
    /\ UNCHANGED <<disk, projection, state, counts, landed, crossed>>

\* Slip: a save does not take the daemon's fields from the disk first.
MergesNothing(w) ==
    /\ op[w].pc = "merges"
    /\ op' = [op EXCEPT ![w] = IF Saves(w) THEN [@ EXCEPT !.data = Unwritten, !.pc = "dumps"]
                                          ELSE Idle]
    /\ UNCHANGED <<disk, projection, state, counts, landed, crossed>>

\* The daemon-owned fields go into memory, which every save shares.
Merges(w) ==
    /\ op[w].pc = "merges"
    /\ mem' = [mem EXCEPT ![op[w].proj].marks = op[w].data.marks]
    /\ op' = [op EXCEPT ![w] = IF Saves(w) THEN [@ EXCEPT !.data = Unwritten, !.pc = "dumps"]
                                          ELSE Idle]
    /\ UNCHANGED <<disk, dirty, timer, due, cur, stale, state, counts, landed, crossed>>

Dumps(w) ==
    /\ op[w].pc = "dumps"
    /\ op' = [op EXCEPT ![w] = [@ EXCEPT !.data = mem[op[w].proj], !.pc = "replaces"]]
    /\ UNCHANGED <<disk, projection, state, counts, landed, crossed>>

\* As w's write lands, another's is under way that will take it back: one
\* that does not know w's change of a daemon-owned field, an update that
\* copied the summary before, or a save of what the summary was before,
\* unless w's is the one of an event, which a debounced save follows.
Crosses(w) ==
    \E v \in Actor \ {w} :
        \/ op[w].kind = "amend" /\ HoldsMarks(v)
        \/ Saves(w) /\ op[v].kind = "amend" /\ HoldsRecord(v)
        \/ /\ Saves(w) /\ op[w].kind # "fold"
           /\ Saves(v) /\ HoldsRecord(v)
           /\ op[v].proj = op[w].proj /\ op[v].data.turns < op[w].data.turns

Replaces(w) ==
    /\ op[w].pc = "replaces"
    /\ crossed' = (crossed \/ Crosses(w))
    /\ IF op[w].kind = "amend"
       THEN /\ disk' = [op[w].data EXCEPT !.marks = @ \cup {op[w].mark}]
            /\ landed' = landed \cup {op[w].mark}
            /\ stale' = stale
       ELSE disk' = op[w].data /\ landed' = landed /\ stale' = (op[w].proj # cur)
    /\ op' = [op EXCEPT ![w] = Idle]
    /\ UNCHANGED <<mem, due, cur, state, counts>>

\* Slip: an event whose save is over is not saved again.
LandsForGood(w) == Replaces(w) /\ UNCHANGED <<dirty, timer>>

\* os.replace.  The handler of an event then schedules a save.
Lands(w) ==
    /\ Replaces(w)
    /\ IF op[w].kind = "fold"
       THEN /\ dirty' = [dirty EXCEPT ![op[w].proj] = TRUE]
            /\ timer' = [timer EXCEPT ![op[w].proj] = TRUE]
       ELSE UNCHANGED <<dirty, timer>>

Works(w) == Reads(w) \/ Merges(w) \/ Dumps(w) \/ Lands(w)

-----------------------------------------------------------------------------
(* The session in its container                                            *)

\* Slip: any record counts as the session's.
IsSessionAny == disk # Unwritten
\* A record the daemon alone has written is not yet the session's.
IsSession == disk.turns # None

\* A name no timer and no write still goes by.
Fresh(p) ==
    /\ ~dirty[p] /\ ~timer[p] /\ ~due[p]
    /\ \A w \in Actor : op[w].proj # p

\* What the record lacks of the summary, or has of another's.
Unsaved == stale \/ dirty[cur] \/ \E w \in Actor : Saves(w) /\ op[w].proj = cur

\* _handle_init: a projection is built from the record, or folded anew from
\* the log and saved.  The one before is neither flushed nor stopped: what
\* it had not saved is counted by none.
Inits(p) ==
    /\ LoopFree /\ Fresh(p) /\ (Fresh(cur) => p = cur)
    /\ cur' = p
    /\ IF IsSession
       THEN mem' = [mem EXCEPT ![p] = disk] /\ op' = op
       ELSE /\ mem' = [mem EXCEPT ![p] = [turns |-> events, marks |-> {}]]
            /\ op' = [op EXCEPT ![Loop] = Doing("store", p)]
    /\ owed' = IF IsSession /\ Unsaved THEN disk.turns + pending ELSE owed
    /\ stale' = FALSE
    /\ UNCHANGED <<disk, dirty, timer, due, events, pending, landed, crossed>>

Starts(p) == state = "stopped" /\ state' = "running" /\ Inits(p)

\* _ensure_pipeline_alive: a consumer that died is replaced, in a session
\* that goes on.
Rebuilds(p) == state # "stopped" /\ state' = state /\ Inits(p)

\* _process_event: an event is appended to the log, over awaits ...
Appends ==
    /\ LoopFree /\ state # "stopped"
    /\ events < MaxEvents
    /\ events' = events + 1 /\ pending' = pending + 1 /\ owed' = owed + 1
    /\ UNCHANGED <<disk, projection, state, op, landed, crossed>>

\* ... and the task that did is cancelled by a stop, or fails, before it has
\* folded it: the log keeps it, and no summary counts it ...
Cut ==
    /\ LoopFree /\ pending > 0
    /\ pending' = pending - 1 /\ owed' = owed - 1
    /\ UNCHANGED <<disk, projection, state, op, events, landed, crossed>>

\* Slip: an event only marks the summary changed.
FoldsUnscheduled(saves) ==
    /\ LoopFree /\ state # "stopped"
    /\ pending > 0 /\ pending' = pending - 1
    /\ mem' = [mem EXCEPT ![cur].turns = @ + 1]
    /\ dirty' = [dirty EXCEPT ![cur] = ~saves]
    /\ timer' = [timer EXCEPT ![cur] = @ /\ ~saves]
    /\ op' = IF saves THEN [op EXCEPT ![Loop] = Doing("fold", cur)] ELSE op
    /\ UNCHANGED <<disk, due, cur, stale, state, events, owed, landed, crossed>>

\* ... or _handle_event folds it, after its broadcast: saved at once if it
\* changes the session's activity, and a debounced save scheduled.
Folds(saves) ==
    /\ LoopFree /\ state # "stopped"
    /\ pending > 0 /\ pending' = pending - 1
    /\ mem' = [mem EXCEPT ![cur].turns = @ + 1]
    /\ dirty' = [dirty EXCEPT ![cur] = ~saves]
    /\ timer' = [timer EXCEPT ![cur] = ~saves]
    /\ op' = IF saves THEN [op EXCEPT ![Loop] = Doing("fold", cur)] ELSE op
    /\ UNCHANGED <<disk, due, cur, stale, state, events, owed, landed, crossed>>

\* update_fields: a title, the context's use, a prompt; saved at once.
Stores ==
    /\ LoopFree /\ state # "stopped"
    /\ dirty' = [dirty EXCEPT ![cur] = FALSE]
    /\ timer' = [timer EXCEPT ![cur] = FALSE]
    /\ op' = [op EXCEPT ![Loop] = Doing("store", cur)]
    /\ UNCHANGED <<disk, mem, due, cur, stale, state, counts, landed, crossed>>

\* The summary is asked for (value, _may_need_user).
Refreshes ==
    /\ LoopFree /\ state # "stopped"
    /\ op' = [op EXCEPT ![Loop] = Doing("refresh", cur)]
    /\ UNCHANGED <<disk, projection, state, counts, landed, crossed>>

\* promote_session, running or not; without a record it is refused.
Promotes(m) ==
    /\ LoopFree /\ disk # Unwritten
    /\ m \notin landed
    /\ op' = [op EXCEPT ![Loop] = Amending(m)]
    /\ UNCHANGED <<disk, projection, state, counts, landed, crossed>>

\* SAVE_DEBOUNCE_SECONDS after the last change, whether the session still
\* goes by this projection or not.
Fires(p) ==
    /\ LoopFree /\ timer[p]
    /\ timer' = [timer EXCEPT ![p] = FALSE]
    /\ due' = [due EXCEPT ![p] = TRUE]
    /\ UNCHANGED <<disk, mem, dirty, cur, stale, state, op, counts, landed, crossed>>

Dispatched(t, kind, p) ==
    /\ IsIdle(t)
    /\ op' = [op EXCEPT ![t] = Doing(kind, p)]

\* _async_save: clean from the moment the write is handed to the pool.
Dispatches(p, t) ==
    /\ LoopFree /\ due[p]
    /\ due' = [due EXCEPT ![p] = FALSE]
    /\ dirty' = [dirty EXCEPT ![p] = FALSE]
    /\ IF dirty[p] THEN Dispatched(t, "pool", p) ELSE op' = op
    /\ UNCHANGED <<disk, mem, timer, cur, stale, state, counts, landed, crossed>>

\* stop, its consumer cancelled: the last flush ...
Stops(t) ==
    /\ LoopFree /\ state = "running"
    /\ timer' = [timer EXCEPT ![cur] = FALSE]
    /\ dirty' = [dirty EXCEPT ![cur] = FALSE]
    /\ IF dirty[cur] THEN Dispatched(t, "flush", cur) /\ state' = "flushing"
                     ELSE op' = op /\ state' = "stopped"
    /\ UNCHANGED <<disk, mem, due, cur, stale, counts, landed, crossed>>

\* ... is awaited.
Stopped ==
    /\ LoopFree /\ state = "flushing"
    /\ \A t \in Pool : op[t].kind # "flush"
    /\ state' = "stopped"
    /\ UNCHANGED <<disk, projection, op, counts, landed, crossed>>

\* The container dies: what its summary had not saved is lost to it.  A log
\* without a record is folded anew.
Crashes ==
    /\ state' = "stopped"
    /\ op' = [w \in Actor |-> IF w = Daemon THEN op[w] ELSE Idle]
    /\ mem' = [p \in Proj |-> Unwritten]
    /\ dirty' = [p \in Proj |-> FALSE] /\ timer' = dirty' /\ due' = dirty'
    /\ pending' = 0
    /\ owed' = IF IsSession THEN disk.turns ELSE events
    /\ stale' = FALSE
    /\ UNCHANGED <<disk, cur, events, landed, crossed>>

-----------------------------------------------------------------------------
(* The daemon: a rename, a bundle, a lineage (update and                   *)
(* _record_daemon_fields)                                                  *)

Updates(m) ==
    /\ IsIdle(Daemon)
    /\ m \notin landed
    /\ op' = [op EXCEPT ![Daemon] = Amending(m)]
    /\ UNCHANGED <<disk, projection, state, counts, landed, crossed>>

-----------------------------------------------------------------------------
Next ==
    \/ \E w \in Actor : Works(w)
    \/ \E p \in Proj : Starts(p) \/ Rebuilds(p) \/ Fires(p)
    \/ Appends \/ Cut \/ Stores \/ Refreshes \/ Stopped \/ Crashes
    \/ \E saves \in BOOLEAN : Folds(saves)
    \/ \E t \in Pool : Stops(t) \/ \E p \in Proj : Dispatches(p, t)
    \/ \E m \in Promotion : Promotes(m)
    \/ \E m \in Rename : Updates(m)

Spec == Init /\ [][Next]_vars

\* Threads and loops run; a loop takes its timers and tasks in turn, however
\* busy it is kept.
Fairness ==
    /\ \A w \in Actor : WF_vars(Works(w))
    /\ \A p \in Proj : SF_vars(Fires(p)) /\ SF_vars(\E t \in Pool : Dispatches(p, t))

FairSpec == Spec /\ Fairness

-----------------------------------------------------------------------------
Operation ==
    [kind : {"none", "refresh", "fold", "store", "pool", "flush", "amend"},
     pc : {"none", "reads", "merges", "dumps", "replaces"},
     data : Record, mark : Mark \cup {None}, proj : Proj \cup {None}]

\* The loop works for the session, the pool on what is handed to it, the
\* daemon only amends; only an amendment goes without the merge, and without
\* a projection.
Fits(w, o) ==
    /\ w = Loop => o.kind \in {"none", "refresh", "fold", "store", "amend"}
    /\ w = Daemon => o.kind \in {"none", "amend"}
    /\ w \in Pool => o.kind \in {"none", "pool", "flush"}
    /\ o.kind = "none" <=> o.pc = "none"
    /\ o.kind = "amend" => o.pc \in {"reads", "replaces"} /\ o.mark \in Mark
    /\ o.kind = "refresh" => o.pc \in {"reads", "merges"}
    /\ o.kind \in {"none", "amend"} <=> o.proj = None

(* Shape, each actor at its own operations; and a session that runs has a  *)
(* summary to count in.                                                    *)
TypeOK ==
    /\ disk \in Record
    /\ mem \in [Proj -> Record]
    /\ dirty \in [Proj -> BOOLEAN] /\ timer \in [Proj -> BOOLEAN] /\ due \in [Proj -> BOOLEAN]
    /\ cur \in Proj
    /\ state \in {"stopped", "running", "flushing"}
    /\ op \in [Actor -> Operation]
    /\ \A w \in Actor : Fits(w, op[w])
    /\ events \in Nat /\ pending \in Nat /\ owed \in Nat
    /\ pending <= owed
    /\ state # "stopped" => mem[cur].turns \in Nat
    /\ landed \subseteq Mark
    /\ crossed \in BOOLEAN /\ stale \in BOOLEAN

(* A change of a daemon-owned field, once on disk, stays: the container    *)
(* reads it back before each save it makes of a summary that never knew    *)
(* it, a replaced projection's saves included.  Only a write that landed   *)
(* across another's can have taken it back (_refresh_daemon_fields).       *)
MarksSurvive == ~crossed => disk.marks = landed

\* The events that a summary has counted, or should have.
Counted == owed - pending

(* The running summary counts each event of the session once, over stops,  *)
(* restarts, repairs and replays: only a crash, a crossed write, a handler *)
(* cut off between the log and the summary, or a projection replaced with  *)
(* counts unsaved costs it any (_handle_init, _async_save, flush).         *)
CountsKept == ~crossed /\ state # "stopped" => mem[cur].turns = Counted

(* What the summary counts reaches the disk, though saves are put off,     *)
(* cancelled and overtaken, unless it is lost as above, or a replaced      *)
(* projection's save lands over it (schedule_save).                        *)
EventsReachDisk ==
    \A n \in 1..MaxEvents :
        state = "running" /\ disk.turns # None /\ Counted = n
            ~> crossed \/ stale \/ Counted < n \/ (disk.turns # None /\ disk.turns >= n)

-----------------------------------------------------------------------------
(* "an older snapshot a debounced write already had in flight never has    *)
(* the last word": with every write over and none to come, the record is   *)
(* the summary.                                                            *)
LatestHasLastWord ==
    state = "running" /\ ~dirty[cur] /\ (\A w \in Actor : IsIdle(w))
        => disk.turns = mem[cur].turns

=============================================================================

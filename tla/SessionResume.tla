--------------------------- MODULE SessionResume ---------------------------
(***************************************************************************)
(* Resuming and forking sessions (SessionService of the claudebox daemon,  *)
(* domain/sessions/service.py) over the single flight of resumes: which    *)
(* container a session ends up in.  A flight's job is _resume_primary, so  *)
(* every step is a step of KeyedSingleFlight or leaves its state alone.    *)
(*                                                                         *)
(* A resume's job and a fork's container phase hold their sessions' locks  *)
(* over awaits of minutes.  Around them the registry's own writers go on   *)
(* (ContainerRegistry has them in full): a listing, the monitor's probe    *)
(* and verdict, a deletion, a process that exits.                          *)
(***************************************************************************)
EXTENDS KeyedSingleFlight, Sequences

CONSTANTS
    Container,   \* the bound on how many are ever launched
    Child        \* the sessions a fork may make

ASSUME ChildrenAreSessions == Child \subseteq Key
ASSUME JobsAreNoSessions == Job \cap Key = {}
ASSUME NoneIsNoContainer == None \notin Container

VARIABLES
    lock,       \* _session_locks: who holds each
    task,       \* where each resume and each fork stands
    proc,       \* the process of each container
    primary,    \* the primary session of the API in it
    posts,      \* session starts posted to it and not served yet
    status,     \* its registry entry's status, or "none"
    owner,      \* its registry entry's session_id
    ending,     \* the stop and removal of it under way
    doubted,    \* history: containers given up, stopped, rehomed, or left
                \* with a start pending
    unguarded   \* history: sessions that may be spawned for without a lookup
                \* that found nothing

taskVars  == <<lock, task>>
inside    == <<proc, primary, posts>>
registry  == <<status, owner>>
histories == <<doubted, unguarded>>
resumeVars == <<vars, taskVars, inside, registry, ending, histories>>

-----------------------------------------------------------------------------
Task == Job \cup Child
Live == {"starting", "running"}
Probed == Live \cup {"crashed"}

Unbegun == [pc |-> "unborn", from |-> None, box |-> None, answer |-> None]
Over == [Unbegun EXCEPT !.pc = "over"]

ResumeInit ==
    /\ Init
    /\ lock = [k \in Key |-> None]
    /\ task = [t \in Task |-> Unbegun]
    /\ proc = [c \in Container |-> "absent"]
    /\ primary = [c \in Container |-> None]
    /\ posts = [c \in Container |-> <<>>]
    /\ status = [c \in Container |-> "none"]
    /\ owner = [c \in Container |-> None]
    /\ ending = [c \in Container |-> "none"]
    /\ doubted = {}
    /\ unguarded = {}

\* The session a task puts into a container.
Of(t) == IF t \in Job THEN job[t].key ELSE t

\* A task at one of its awaits, and not cancelled there.
At(t, P) == task[t].pc \in P /\ (t \in Job => job[t].state = "running")

\* find_by_session, as owner.
Found(c, s) == status[c] \in Live /\ owner[c] = s

Moved(t, pc) == [task EXCEPT ![t].pc = pc]

\* What a POST to the container leaves there: nothing when nobody listens.
Posted(c, t) == IF proc[c] = "up" THEN [posts EXCEPT ![c] = Append(@, t)] ELSE posts

\* Slip: a fork lets go of its child's lock only.
UnlockedOwn(t) == [k \in Key |-> IF lock[k] = t /\ k = Of(t) THEN None ELSE lock[k]]

\* The end of `async with'.
Unlocked(t) == [k \in Key |-> IF lock[k] = t THEN None ELSE lock[k]]

\* A task ends, and a job settles its flight.
Ends(t) ==
    /\ task' = [task EXCEPT ![t] = Over]
    /\ lock' = Unlocked(t)
    /\ IF t \in Job THEN Finishes(t) ELSE UNCHANGED vars

-----------------------------------------------------------------------------
(* Callers of resume.                                                      *)

\* A fork's child can be resumed once its session.json is written.
Resumes(c, k, j) ==
    /\ k \in Child => task[k].pc # "unborn"
    /\ Starts(c, k, j)
    /\ task' = Moved(j, "locking")
    /\ UNCHANGED <<lock, inside, registry, ending, histories>>

CallerMoves(c) ==
    /\ (\E k \in Key : Joins(c, k)) \/ Returns(c) \/ Leaves(c) \/ Abandons(c)
    /\ UNCHANGED <<taskVars, inside, registry, ending, histories>>

JobReleases(j) ==
    /\ Releases(j)
    /\ UNCHANGED <<taskVars, inside, registry, ending, histories>>

-----------------------------------------------------------------------------
(* _resume_primary.                                                        *)

TakesLock(j) ==
    /\ At(j, {"locking"})
    /\ lock[Of(j)] = None
    /\ lock' = [lock EXCEPT ![Of(j)] = j]
    /\ task' = Moved(j, "finding")
    /\ unguarded' = IF Of(j) \in Child /\ task[Of(j)].pc \in {"locking", "locked"}
                    THEN unguarded \cup {Of(j)}
                    ELSE unguarded
    /\ UNCHANGED <<vars, inside, registry, ending, doubted>>

\* Slip: the container found is handed out without asking it.
FindsUnasked(j, c) ==
    /\ At(j, {"finding"})
    /\ Found(c, Of(j))
    /\ task' = [task EXCEPT ![j].pc = "served", ![j].box = c]
    /\ UNCHANGED <<vars, lock, inside, registry, ending, histories>>

\* find_by_session(sync=True): the listing is a step of the registry's, which
\* may fail; the lookup is this one.
Finds(j, c) ==
    /\ At(j, {"finding"})
    /\ Found(c, Of(j))
    /\ task' = [task EXCEPT ![j].pc = "asking", ![j].box = c]
    /\ UNCHANGED <<vars, lock, inside, registry, ending, histories>>

FindsNone(j) ==
    /\ At(j, {"finding"})
    /\ \A c \in Container : ~Found(c, Of(j))
    /\ task' = Moved(j, "creating")
    /\ UNCHANGED <<vars, lock, inside, registry, ending, histories>>

\* _adopt: the container's health report is taken here, and read later.
Reports(j) ==
    /\ At(j, {"asking"})
    /\ proc[task[j].box] = "up"
    /\ task' = [task EXCEPT ![j].pc = "answered", ![j].answer = primary[task[j].box]]
    /\ UNCHANGED <<vars, lock, inside, registry, ending, histories>>

\* It runs the session: the job returns it.
Adopts(j) ==
    /\ At(j, {"answered"})
    /\ task[j].answer = Of(j)
    /\ Ends(j)
    /\ UNCHANGED <<inside, registry, ending, histories>>

\* It runs nothing and is the session's: start it there.
AdoptsIdle(j) ==
    /\ At(j, {"answered"})
    /\ task[j].answer = None /\ owner[task[j].box] = Of(j)
    /\ task' = Moved(j, "starting")
    /\ posts' = Posted(task[j].box, j)
    /\ UNCHANGED <<vars, lock, proc, primary, registry, ending, histories>>

\* It runs another session, or is no longer this one's: record what it said,
\* and spawn a container without looking for another.
AdoptsOther(j) ==
    /\ At(j, {"answered"})
    /\ task[j].answer # Of(j)
    /\ task[j].answer = None => owner[task[j].box] # Of(j)
    /\ owner' = [owner EXCEPT ![task[j].box] = task[j].answer]
    /\ task' = [task EXCEPT ![j] = [Unbegun EXCEPT !.pc = "creating"]]
    /\ unguarded' = unguarded \cup {Of(j)}
    /\ UNCHANGED <<vars, lock, inside, status, ending, doubted>>

-----------------------------------------------------------------------------
(* fork, from where its child's record is written.                         *)

\* A lock that is free is taken without yielding, so a fork waits only for
\* its source's, and then for its child's, when they are held.
ForkWaits(k, s) ==
    /\ task[k].pc = "unborn" /\ s # k
    /\ s \in Child => task[s].pc # "unborn"
    /\ lock[s] # None
    /\ task' = [task EXCEPT ![k].pc = "locking", ![k].from = s]
    /\ UNCHANGED <<vars, lock, inside, registry, ending, histories>>

ForkWaitsOn(k) ==
    /\ At(k, {"locking"})
    /\ lock[task[k].from] = None /\ lock[k] # None
    /\ lock' = [lock EXCEPT ![task[k].from] = k]
    /\ task' = Moved(k, "locked")
    /\ UNCHANGED <<vars, inside, registry, ending, histories>>

Enters(k, s) ==
    \/ /\ task[k].pc = "unborn" /\ s # k
       /\ s \in Child => task[s].pc # "unborn"
       /\ lock[s] = None
    \/ At(k, {"locking"}) /\ s = task[k].from /\ lock[s] = None /\ lock[k] = None
    \/ At(k, {"locked"}) /\ s = task[k].from /\ lock[k] = None

\* Slip: only the source is locked.
SourceLocked(k, s) == [lock EXCEPT ![s] = k]

BothLocked(k, s) == [lock EXCEPT ![s] = k, ![k] = k]

\* The child gets a container of its own ...
ForkSpawns(k, s) ==
    /\ Enters(k, s)
    /\ lock' = BothLocked(k, s)
    /\ task' = [task EXCEPT ![k].pc = "creating", ![k].from = s]
    /\ UNCHANGED <<vars, inside, registry, ending, histories>>

\* ... or takes over its source's (reuse_container) ...
ForkReuses(k, s, c) ==
    /\ Enters(k, s)
    /\ Found(c, s)
    /\ lock' = BothLocked(k, s)
    /\ owner' = [owner EXCEPT ![c] = k]
    /\ task' = [task EXCEPT ![k] = [@ EXCEPT !.pc = "rehomed", !.from = s, !.box = c]]
    /\ doubted' = doubted \cup {c}
    /\ UNCHANGED <<vars, inside, status, ending, unguarded>>

\* ... if there is one.
ForkFindsNone(k, s) ==
    /\ Enters(k, s)
    /\ \A c \in Container : ~Found(c, s)
    /\ Ends(k)
    /\ UNCHANGED <<inside, registry, ending, histories>>

ForkPosts(k) ==
    /\ At(k, {"rehomed"})
    /\ task' = Moved(k, "starting")
    /\ posts' = Posted(task[k].box, k)
    /\ UNCHANGED <<vars, lock, proc, primary, registry, ending, histories>>

-----------------------------------------------------------------------------
(* A spawn, of a resume or a fork.                                         *)

Launches(t, c) ==
    /\ At(t, {"creating"})
    /\ proc[c] = "absent"
    /\ proc' = [proc EXCEPT ![c] = "up"]
    /\ task' = [task EXCEPT ![t].pc = "launched", ![t].box = c]
    /\ UNCHANGED <<vars, lock, primary, posts, registry, ending, histories>>

\* create: the entry, over one a listing may have adopted; then its save.
Registers(t) ==
    /\ At(t, {"launched"})
    /\ status' = [status EXCEPT ![task[t].box] = "starting"]
    /\ owner' = [owner EXCEPT ![task[t].box] = Of(t)]
    /\ task' = Moved(t, "saving")
    /\ UNCHANGED <<vars, lock, inside, ending, histories>>

Saved(t) ==
    /\ At(t, {"saving"})
    /\ task' = Moved(t, "waiting")
    /\ UNCHANGED <<vars, lock, inside, registry, ending, histories>>

\* _wait_for_health has its answer: post the session's start.
Opens(t) ==
    /\ At(t, {"waiting"})
    /\ proc[task[t].box] = "up"
    /\ task' = Moved(t, "opening")
    /\ posts' = Posted(task[t].box, t)
    /\ UNCHANGED <<vars, lock, proc, primary, registry, ending, histories>>

\* The broadcasts after a start that was answered, and the return.
Completes(t) ==
    /\ At(t, {"served"})
    /\ Ends(t)
    /\ UNCHANGED <<inside, registry, ending, histories>>

-----------------------------------------------------------------------------
(* Failures and cancellation.                                              *)

\* A stop with a removal, up to its first await.
BeginsEnding(c) ==
    IF status[c] = "none" \/ ending[c] # "none"
    THEN UNCHANGED <<status, ending, doubted>>
    ELSE /\ status' = [status EXCEPT ![c] = "stopping"]
         /\ ending' = [ending EXCEPT ![c] = "stopping"]
         /\ doubted' = doubted \cup {c}

\* Where an exception passes without any cleanup.
Bare == {"finding", "asking", "creating", "saving", "rehomed"}

Fails(t) ==
    /\ At(t, Bare)
    /\ Ends(t)
    /\ UNCHANGED <<inside, registry, ending, histories>>

\* The start is refused or not answered in time; it may still be served.
StartFails(t) ==
    /\ At(t, {"starting"})
    /\ Ends(t)
    /\ doubted' = doubted \cup {task[t].box}
    /\ UNCHANGED <<inside, registry, ending, unguarded>>

\* Past the spawn, _cleanup_spawned_container comes first.
SpawnFails(t) ==
    /\ At(t, {"waiting", "opening"})
    /\ BeginsEnding(task[t].box)
    /\ task' = Moved(t, "cleaning")
    /\ UNCHANGED <<vars, lock, inside, owner, unguarded>>

\* A job whose last caller left, or a fork whose client went away.
Cancelled(t) == t \in Job => job[t].state = "cancelling"

\* A cleanup that an error began is let go of: it goes on by itself.
CancelEnds(t) ==
    /\ Cancelled(t)
    /\ task[t].pc \in Bare \cup {"locking", "locked", "answered", "launched", "starting",
                                 "served", "cleaning"}
    /\ Ends(t)
    /\ t \in Job => job'[t].state = "cancelled"
    /\ doubted' = IF task[t].pc = "starting" THEN doubted \cup {task[t].box} ELSE doubted
    /\ UNCHANGED <<inside, registry, ending, unguarded>>

CancelCleans(t) ==
    /\ Cancelled(t)
    /\ task[t].pc \in {"waiting", "opening"}
    /\ BeginsEnding(task[t].box)
    /\ task' = Moved(t, "unwinding")
    /\ UNCHANGED <<vars, lock, inside, owner, unguarded>>

\* The cleanup was awaited to its end.
Cleaned(t) ==
    /\ At(t, {"cleaning"}) \/ task[t].pc = "unwinding"
    /\ ending[task[t].box] = "none"
    /\ Ends(t)
    /\ task[t].pc = "unwinding" /\ t \in Job => job'[t].state = "cancelled"
    /\ UNCHANGED <<inside, registry, ending, histories>>

-----------------------------------------------------------------------------
(* stop_container and remove: of a cleanup, or of a client's deletion.     *)

Deletes(c) ==
    /\ status[c] # "none" /\ ending[c] = "none"
    /\ BeginsEnding(c)
    /\ UNCHANGED <<vars, taskVars, inside, owner, unguarded>>

Down(c) ==
    /\ primary' = [primary EXCEPT ![c] = None]
    /\ posts' = [posts EXCEPT ![c] = <<>>]

\* The runtime's stop returns, or fails, and the entry is written all the same.
Stopped(c) ==
    /\ ending[c] = "stopping"
    /\ \/ proc[c] = "up" /\ proc' = [proc EXCEPT ![c] = "down"] /\ Down(c)
       \/ UNCHANGED inside
    /\ status' = [status EXCEPT ![c] = "stopped"]
    /\ ending' = [ending EXCEPT ![c] = "removing"]
    /\ UNCHANGED <<vars, taskVars, owner, histories>>

Removed(c) ==
    /\ ending[c] = "removing"
    /\ \/ proc' = [proc EXCEPT ![c] = "gone"] /\ Down(c)
       \/ UNCHANGED inside
    /\ status' = [status EXCEPT ![c] = "none"]
    /\ ending' = [ending EXCEPT ![c] = "none"]
    /\ UNCHANGED <<vars, taskVars, owner, histories>>

-----------------------------------------------------------------------------
(* The container, and what the registry learns of it.                      *)

\* SessionRegistry.start of the oldest start posted, in place of the primary
\* there is.  Whoever still waits is told, ...
Serves(c) ==
    /\ posts[c] # <<>>
    /\ LET t == Head(posts[c]) IN
        /\ primary' = [primary EXCEPT ![c] = Of(t)]
        /\ task' = IF At(t, {"starting", "opening"}) THEN Moved(t, "served") ELSE task
    /\ posts' = [posts EXCEPT ![c] = Tail(@)]
    /\ UNCHANGED <<vars, lock, proc, registry, ending, histories>>

\* ... or the start raises, with the old primary stopped.
Refuses(c) ==
    /\ posts[c] # <<>>
    /\ primary' = [primary EXCEPT ![c] = None]
    /\ posts' = [posts EXCEPT ![c] = Tail(@)]
    /\ UNCHANGED <<vars, taskVars, proc, registry, ending, histories>>

Exits(c) ==
    /\ proc[c] = "up"
    /\ proc' = [proc EXCEPT ![c] = "down"]
    /\ Down(c)
    /\ UNCHANGED <<vars, taskVars, registry, ending, histories>>

\* _apply_observation, for one entry: adopted or refreshed, ...
Listed(c) ==
    /\ proc[c] \in {"up", "down"}
    /\ ~(status[c] = "crashed" /\ proc[c] = "up")
    /\ status' = [status EXCEPT ![c] = IF proc[c] = "up" THEN "running" ELSE "stopped"]
    /\ owner' = [owner EXCEPT ![c] = IF status[c] = "none" THEN None ELSE @]
    /\ UNCHANGED <<vars, taskVars, inside, ending, histories>>

\* ... or dropped.
Unlisted(c) ==
    /\ proc[c] = "gone"
    /\ status' = [status EXCEPT ![c] = "none"]
    /\ UNCHANGED <<vars, taskVars, inside, owner, ending, histories>>

\* The monitor's verdict after enough probes failed.
GivesUp(c) ==
    /\ status[c] \in Live
    /\ status' = [status EXCEPT ![c] = "crashed"]
    /\ doubted' = doubted \cup {c}
    /\ UNCHANGED <<vars, taskVars, inside, owner, ending, unguarded>>

\* A probe that is answered: the session reported becomes the entry's.
Probes(c) ==
    /\ status[c] \in Probed /\ proc[c] = "up"
    /\ status' = [status EXCEPT ![c] = "running"]
    /\ owner' = [owner EXCEPT ![c] = IF primary[c] = None THEN @ ELSE primary[c]]
    /\ UNCHANGED <<vars, taskVars, inside, ending, histories>>

-----------------------------------------------------------------------------
Resuming(j) ==
    \/ TakesLock(j) \/ FindsNone(j) \/ Reports(j)
    \/ \E c \in Container : Finds(j, c)
    \/ Adopts(j) \/ AdoptsIdle(j) \/ AdoptsOther(j)

Forking(k, s) ==
    \/ ForkWaits(k, s) \/ ForkSpawns(k, s) \/ ForkFindsNone(k, s)
    \/ \E c \in Container : ForkReuses(k, s, c)

Spawning(t) ==
    \/ \E c \in Container : Launches(t, c)
    \/ Registers(t) \/ Saved(t) \/ Opens(t) \/ Completes(t)

Unwinding(t) ==
    \/ Fails(t) \/ StartFails(t) \/ SpawnFails(t)
    \/ CancelEnds(t) \/ CancelCleans(t) \/ Cleaned(t)

Around(c) ==
    \/ Deletes(c) \/ Stopped(c) \/ Removed(c)
    \/ Serves(c) \/ Refuses(c) \/ Exits(c)
    \/ Listed(c) \/ Unlisted(c) \/ GivesUp(c) \/ Probes(c)

ResumeNext ==
    \/ \E c \in Caller, k \in Key, j \in Job : Resumes(c, k, j)
    \/ \E c \in Caller : CallerMoves(c)
    \/ \E j \in Job : JobReleases(j) \/ Resuming(j)
    \/ \E k \in Child : ForkWaitsOn(k) \/ ForkPosts(k) \/ \E s \in Key : Forking(k, s)
    \/ \E t \in Task : Spawning(t) \/ Unwinding(t)
    \/ \E c \in Container : Around(c)

ResumeSpec == ResumeInit /\ [][ResumeNext]_resumeVars

-----------------------------------------------------------------------------
Phase == {"unborn", "locking", "finding", "asking", "answered", "starting", "locked",
          "rehomed", "creating", "launched", "saving", "waiting", "opening", "served",
          "cleaning", "unwinding", "over"}

(* Types; and a lock is held by a task under way, for its session or, by a *)
(* fork, for its source.                                                   *)
ResumeTypeOK ==
    /\ TypeOK
    /\ lock \in [Key -> Task \cup {None}]
    /\ task \in [Task -> [pc : Phase, from : Key \cup {None}, box : Container \cup {None},
                          answer : Key \cup {None}]]
    /\ proc \in [Container -> {"absent", "up", "down", "gone"}]
    /\ primary \in [Container -> Key \cup {None}]
    /\ posts \in [Container -> Seq(Task)]
    /\ status \in [Container -> {"none", "starting", "running", "stopping", "stopped",
                                 "crashed"}]
    /\ owner \in [Container -> Key \cup {None}]
    /\ ending \in [Container -> {"none", "stopping", "removing"}]
    /\ doubted \subseteq Container /\ unguarded \subseteq Key
    /\ \A k \in Key : lock[k] # None =>
        /\ task[lock[k]].pc \notin {"unborn", "locking", "over"}
        /\ k \in {Of(lock[k]), task[lock[k]].from}

(* A session has two containers, in the registry or by what runs in them,  *)
(* only where one was given up, stopped, rehomed or left with a start      *)
(* pending: resumes and forks never each spawn one (_session_lock, the     *)
(* single flight, find_by_session's STARTING).                             *)
Holds(c, s) == Found(c, s) \/ primary[c] = s
OneHome ==
    \A c, d \in Container, s \in Key \ unguarded :
        Holds(c, s) /\ Holds(d, s) /\ c # d => {c, d} \cap doubted # {}

(* The container a resume returns runs the session, unless it exited or    *)
(* was doubted meanwhile (_adopt, _start_session_in).                      *)
Returned(j) ==
    /\ task[j].pc \in {"answered", "served"} /\ task'[j].pc = "over"
    /\ job'[j].state = "done"
ResumedServes ==
    [][\A j \in Job :
        Returned(j) /\ task[j].box \notin doubted /\ proc[task[j].box] = "up"
        => primary[task[j].box] = Of(j)]_resumeVars

-----------------------------------------------------------------------------
(* The same for the sessions a fork made: "its session.json is listable,   *)
(* so a resume of it may arrive mid-spawn".                                *)
OneHomeEach ==
    \A c, d \in Container, s \in Child :
        Holds(c, s) /\ Holds(d, s) /\ c # d => {c, d} \cap doubted # {}

=============================================================================

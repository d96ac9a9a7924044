--------------------------- MODULE ConsumerRepair ---------------------------
(***************************************************************************)
(* Which pipeline consumes a session's runtime stream: SessionService's    *)
(* start, stop and restart, and its repair of a dead consumer before a     *)
(* send (_ensure_pipeline_alive, orchestration/session.py), over the       *)
(* lifecycle of an EventPipeline (start, _run, stop, is_alive in           *)
(* pipeline.py).                                                           *)
(*                                                                         *)
(* A pipeline reports alive only once its start has set it running.  The   *)
(* session's own pipeline is started by a task; a replacement is started   *)
(* by the send that builds it, under _pipeline_repair_lock.  The lock      *)
(* keeps repairs apart, and nothing else: a send that finds the runtime's  *)
(* reader finished restarts the session without it                         *)
(* (_ensure_stream_healthy), and so does the registry stop the session.    *)
(***************************************************************************)
EXTENDS FiniteSets

CONSTANTS
    Pipe,      \* the pipelines ever built: the bound on repairs and restarts
    First,     \* the one the session starts with
    Send,      \* requests
    Registry,  \* the container's session registry
    None

Caller == Send \cup {Registry}

ASSUME FirstIsPipe == First \in Pipe
ASSUME RegistryIsNoSend == Registry \notin Send
ASSUME NoneIsNoPipe == None \notin Pipe \cup Caller

VARIABLES
    pipe,     \* pc, whether it is to resume, knows its session id, is a repair's
    current,  \* _event_pipeline
    task,     \* _pipeline_task: the pipeline it starts
    client,   \* _sdk_client is set
    lock,     \* the send holding _pipeline_repair_lock
    at,       \* where each send, and the registry's stop, stands
    built,    \* the replacement each send starts
    torn      \* pipelines a stop or restart outside the lock took from the session

vars == <<pipe, current, task, client, lock, at, built, torn>>

Pipeline == [pc : {"unbuilt", "created", "starting", "running", "dead", "lost"},
             named : BOOLEAN, resumed : BOOLEAN, repair : BOOLEAN]
Unbuilt == [pc |-> "unbuilt", named |-> FALSE, resumed |-> FALSE, repair |-> FALSE]
Own(resumed) == [Unbuilt EXCEPT !.pc = "created", !.resumed = resumed]
Replacement == [Unbuilt EXCEPT !.pc = "starting", !.named = TRUE, !.repair = TRUE]

Init ==
    /\ \E resumed \in BOOLEAN :
        pipe = [p \in Pipe |-> IF p = First THEN Own(resumed) ELSE Unbuilt]
    /\ current = First /\ task = First
    /\ client = TRUE
    /\ lock = None
    /\ at = [c \in Caller |-> "idle"]
    /\ built = [r \in Send |-> None]
    /\ torn = {}

Alive(p) == pipe[p].pc = "running"
Consumes(p) == pipe[p].pc \in {"starting", "running"}

-----------------------------------------------------------------------------
(* EventPipeline                                                           *)

\* start, up to its first await: a resumed pipeline knows its session id.
Starts(p) ==
    /\ pipe[p].pc = "created"
    /\ pipe' = [pipe EXCEPT ![p].pc = IF pipe[p].resumed THEN "starting" ELSE "running",
                            ![p].named = pipe[p].resumed, ![p].resumed = FALSE]
    /\ UNCHANGED <<current, task, client, lock, at, built, torn>>

\* Initialised: start sets it running, whatever happened to it meanwhile.
Runs(p) ==
    /\ pipe[p].pc = "starting" /\ ~pipe[p].repair
    /\ pipe' = [pipe EXCEPT ![p].pc = "running"]
    /\ UNCHANGED <<current, task, client, lock, at, built, torn>>

StartFails(p) ==
    /\ pipe[p].pc = "starting" /\ ~pipe[p].repair
    /\ pipe' = [pipe EXCEPT ![p].pc = "dead"]
    /\ UNCHANGED <<current, task, client, lock, at, built, torn>>

\* The agent announces a new session.
Announced(p) ==
    /\ Alive(p) /\ ~pipe[p].named
    /\ pipe' = [pipe EXCEPT ![p].named = TRUE]
    /\ UNCHANGED <<current, task, client, lock, at, built, torn>>

\* The loop ends on its own, or because the stream did.
Ends(p) ==
    /\ Alive(p)
    /\ \E pc \in {"dead", "lost"} : pipe' = [pipe EXCEPT ![p].pc = pc]
    /\ UNCHANGED <<current, task, client, lock, at, built, torn>>

-----------------------------------------------------------------------------
(* send: _ensure_pipeline_alive                                            *)

NothingToRepair == current = None \/ (current # None /\ Alive(current))

Goes(c, pc) == at' = [at EXCEPT ![c] = pc]

\* On to _ensure_stream_healthy: done, or the runtime's reader has finished
\* and the session is restarted, outside the lock.
Proceeds(r) == Goes(r, "idle") \/ (client /\ Goes(r, "cancels"))

\* The registry no longer resolves a session it stops.
Arrives(r) ==
    /\ at[r] = "idle" /\ at[Registry] = "idle"
    /\ IF NothingToRepair THEN Proceeds(r) ELSE Goes(r, "queued")
    /\ UNCHANGED <<pipe, current, task, client, lock, built, torn>>

\* Slip: the repair is not guarded.
LockFreeAlways == TRUE
LockFree == lock = None

\* The pipeline's own session id, or else the projection's, which another
\* pipeline may have set.
CanResume == pipe[current].named \/ \E p \in Pipe : pipe[p].named

\* Under the lock: checked again, then restarted, given up or stopped.
Locks(r) ==
    /\ at[r] = "queued"
    /\ LockFree
    /\ \/ NothingToRepair /\ Proceeds(r) /\ lock' = lock
       \/ /\ ~NothingToRepair
          /\ \/ pipe[current].pc = "lost" /\ Goes(r, "cancels") /\ lock' = r
             \/ pipe[current].pc # "lost" /\ CanResume /\ Goes(r, "stopping") /\ lock' = r
             \/ /\ pipe[current].pc # "lost" /\ ~pipe[current].named
                /\ Proceeds(r) /\ lock' = lock
    /\ UNCHANGED <<pipe, current, task, client, built, torn>>

\* The dead pipeline's stop is over: a new one is assigned, over whichever
\* is there now, and started.
Replaces(r, p) ==
    /\ at[r] = "stopping"
    /\ pipe[p].pc = "unbuilt"
    /\ pipe' = [pipe EXCEPT ![p] = Replacement]
    /\ current' = p
    /\ built' = [built EXCEPT ![r] = p]
    /\ Goes(r, "starting")
    /\ UNCHANGED <<task, client, lock, torn>>

\* Its start has returned ...
Replaced(r) ==
    /\ at[r] = "starting"
    /\ pipe' = [pipe EXCEPT ![built[r]].pc = "running"]
    /\ lock' = None
    /\ Proceeds(r)
    /\ built' = [built EXCEPT ![r] = None]
    /\ UNCHANGED <<current, task, client, torn>>

\* Slip: the lock is kept when the start raised.
ReplacementFailsLocked(r) ==
    /\ at[r] = "starting"
    /\ pipe' = [pipe EXCEPT ![built[r]].pc = "dead"]
    /\ Goes(r, "idle")
    /\ built' = [built EXCEPT ![r] = None]
    /\ UNCHANGED <<current, task, client, lock, torn>>

\* ... or raised, which fails the send.
ReplacementFails(r) ==
    /\ at[r] = "starting"
    /\ pipe' = [pipe EXCEPT ![built[r]].pc = "dead"]
    /\ lock' = None
    /\ Goes(r, "idle")
    /\ built' = [built EXCEPT ![r] = None]
    /\ UNCHANGED <<current, task, client, torn>>

-----------------------------------------------------------------------------
(* stop and restart: of the send that repairs, under the lock, or of a     *)
(* send that found the reader finished or of the registry, outside it.     *)

StopPc == {"cancels", "drops", "closes", "disconnects"}
CallerPc == {"idle", "queued", "stopping", "starting", "over"} \cup StopPc

\* What c's stop or start takes from the session while outside the lock.
Torn(c) == IF lock = c \/ current = None THEN torn ELSE torn \cup {current}

RegistryStops ==
    /\ at[Registry] = "idle"
    /\ Goes(Registry, "cancels")
    /\ UNCHANGED <<pipe, current, task, client, lock, built, torn>>

\* The watchdog and the title are off: the session's own start is cancelled.
CancelsStart(c) ==
    /\ at[c] = "cancels"
    /\ pipe' = [p \in Pipe |-> IF p = task /\ pipe[p].pc \in {"created", "starting"}
                               THEN [pipe[p] EXCEPT !.pc = "dead"] ELSE pipe[p]]
    /\ Goes(c, "drops")
    /\ UNCHANGED <<current, task, client, lock, built, torn>>

\* Its task is dropped, and the pipeline there is now is told to stop,
\* which does not undo a start.
StopsPipeline(c) ==
    /\ at[c] = "drops"
    /\ task' = None
    /\ pipe' = [p \in Pipe |-> IF p = current /\ Alive(p)
                               THEN [pipe[p] EXCEPT !.pc = "dead"] ELSE pipe[p]]
    /\ Goes(c, IF current = None THEN "disconnects" ELSE "closes")
    /\ UNCHANGED <<current, client, lock, built, torn>>

\* Once it has, whichever pipeline is there is dropped.
DropsPipeline(c) ==
    /\ at[c] = "closes"
    /\ current' = None
    /\ torn' = Torn(c)
    /\ Goes(c, "disconnects")
    /\ UNCHANGED <<pipe, task, client, lock, built>>

\* The runtime is disconnected: the registry's stop is over ...
RegistryStopped ==
    /\ at[Registry] = "disconnects"
    /\ client' = FALSE
    /\ Goes(Registry, "over")
    /\ UNCHANGED <<pipe, current, task, lock, built, torn>>

\* ... and a restart goes on with start, which builds a pipeline and the
\* task that is to start it, over what is there.
RestartStarts(r, p) ==
    /\ at[r] = "disconnects"
    /\ pipe[p].pc = "unbuilt"
    /\ \E resumed \in BOOLEAN : pipe' = [pipe EXCEPT ![p] = Own(resumed)]
    /\ current' = p /\ task' = p /\ client' = TRUE
    /\ torn' = Torn(r)
    /\ lock' = IF lock = r THEN None ELSE lock
    /\ Goes(r, "idle")
    /\ UNCHANGED built

Stops(c) == CancelsStart(c) \/ StopsPipeline(c) \/ DropsPipeline(c)

Next ==
    \/ \E p \in Pipe : Starts(p) \/ Runs(p) \/ StartFails(p) \/ Announced(p) \/ Ends(p)
    \/ \E r \in Send : \/ Arrives(r) \/ Locks(r) \/ Replaced(r) \/ ReplacementFails(r)
                       \/ \E p \in Pipe : Replaces(r, p) \/ RestartStarts(r, p)
    \/ RegistryStops \/ RegistryStopped
    \/ \E c \in Caller : Stops(c)

Spec == Init /\ [][Next]_vars

-----------------------------------------------------------------------------
(* Shape; and the lock is held by a send in a repair or in the restart     *)
(* that takes its place, and by every send in a repair.                    *)
TypeOK ==
    /\ pipe \in [Pipe -> Pipeline]
    /\ current \in Pipe \cup {None}
    /\ task \in Pipe \cup {None}
    /\ client \in BOOLEAN
    /\ lock \in Send \cup {None}
    /\ at \in [Caller -> CallerPc]
    /\ at[Registry] \in {"idle", "over"} \cup StopPc
    /\ built \in [Send -> Pipe \cup {None}]
    /\ torn \subseteq Pipe
    /\ \A r \in Send :
        /\ at[r] \in {"stopping", "starting"} => lock = r
        /\ lock = r => at[r] \in {"stopping", "starting"} \cup StopPc
        /\ built[r] # None <=> at[r] = "starting"

(* However many sends find the consumer dead, repairs build no second      *)
(* consumer (the re-check under _pipeline_repair_lock): one replacement at *)
(* a time is being started, and one that starts or runs is the session's   *)
(* current pipeline, unless a stop or a restart that does not take the     *)
(* lock tore it off (stop, _ensure_stream_healthy).                        *)
RepairsDoNotOverlap ==
    /\ \A p, q \in Pipe :
        /\ pipe[p].repair /\ pipe[p].pc = "starting"
        /\ pipe[q].repair /\ pipe[q].pc = "starting"
        => p = q
    /\ \A p \in Pipe : pipe[p].repair /\ Consumes(p) => p = current \/ p \in torn

-----------------------------------------------------------------------------
(* "an unguarded check lets two concurrent sends build two consumers" is   *)
(* what the guard is for: the stream has one consumer.  No run checks it:  *)
(* the session's own start and the unguarded restarts break it.            *)
OneConsumer == \A p, q \in Pipe : Alive(p) /\ Alive(q) => p = q

=============================================================================

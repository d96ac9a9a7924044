--------------------------- MODULE EventPipeline ---------------------------
(***************************************************************************)
(* One session's event pipeline (orchestration/pipeline.py), the log it    *)
(* appends to (persistence.py) and the subscribers it is broadcast to      *)
(* (SessionService.subscribe, core/broadcaster.py).                        *)
(*                                                                         *)
(* Several tasks hand events to _process_event: the message loop, injected *)
(* events, the monitors of background tasks, and whoever initialises the   *)
(* pipeline, which flushes what was buffered until then.  An append awaits *)
(* its write and then its flush, so all of them interleave.  A consumer    *)
(* that died is replaced over the same log and the same subscribers.       *)
(*                                                                         *)
(* `published', `lost' and `early' are history variables.                  *)
(***************************************************************************)
EXTENDS Naturals, Sequences

CONSTANTS
    Plain,        \* events with no parent tool use
    Nested,       \* dedup keys of subagent events, each seen live and tailed
    History,      \* the events an earlier run may have left on disk
    Worker,       \* the tasks that process events
    Flusher,      \* the one among them that initialises the pipeline
    Subscriber

Source == {"live", "tailed"}
Event == (Plain \X {"live"}) \cup (Nested \X Source)

ASSUME FlusherWorks == Flusher \in Worker
ASSUME HistoryIsDeduped ==
    /\ History \subseteq Event
    /\ \A k \in Nested : ~(<<k, "live">> \in History /\ <<k, "tailed">> \in History)
ASSUME KeysDistinct == Plain \cap Nested = {}

VARIABLES
    phase,        \* _initialized, and whether its initialiser is flushing
    buffer,       \* _buffer
    seen,         \* _seen_nested_keys
    worker,       \* the event each task is inside _process_event with
    pending,      \* written to the log file and not flushed
    log,          \* what reading the log file yields
    attached,     \* _subscribers
    view,         \* what the queue of each was given
    made,         \* events handed to the pipeline, or on disk at its start
    published,    \* events broadcast, or on disk when the session started
    lost,         \* events whose append raised, or left behind in the buffer
    early         \* subscribers replayed no history: attached while a
                  \* pipeline over a log that is not empty was initialising

vars == <<phase, buffer, seen, worker, pending, log, attached, view, made, published,
          lost, early>>
listeners == <<attached, view, early>>

Initialized == phase \in {"flushing", "ready"}
Free == [pc |-> "idle"]
Busy(pc, e) == [pc |-> pc, ev |-> e]
Key(e) == e[1]
IsNested(e) == e[1] \in Nested

BufferSet == {buffer[i] : i \in 1..Len(buffer)}

\* Slip: a resumed pipeline starts with no claims.
SeededNothing(disk) == [k \in Nested |-> "none"]

\* The source that claimed each key, as the events on disk tell.
Seeded(disk) ==
    [k \in Nested |-> IF <<k, "live">> \in disk THEN "live"
                      ELSE IF <<k, "tailed">> \in disk THEN "tailed" ELSE "none"]

Init ==
    /\ phase = "new"
    /\ buffer = <<>>
    /\ seen = [k \in Nested |-> "none"]
    /\ worker = [w \in Worker |-> Free]
    /\ pending = {}
    /\ log \in {{}, History}
    /\ attached = {}
    /\ view = [s \in Subscriber |-> {}]
    /\ made = log
    /\ published = log
    /\ lost = {}
    /\ early = {}

-----------------------------------------------------------------------------
(* Initialisation: by start on a resume, by the agent's system_init, or on *)
(* demand; _init_lock lets one of them do it.                              *)

Opens ==
    /\ phase = "new"
    /\ phase' = "opening"
    /\ seen' = [k \in Nested |-> IF seen[k] # "none" THEN seen[k] ELSE Seeded(log)[k]]
    /\ UNCHANGED <<buffer, worker, pending, log, made, published, lost, listeners>>

\* Slip: the buffer is not flushed.
OpenedUnflushed ==
    /\ phase = "opening"
    /\ phase' = "ready"
    /\ UNCHANGED <<buffer, seen, worker, pending, log, made, published, lost, listeners>>

\* The log is open and on_init has returned ...
Opened ==
    /\ phase = "opening"
    /\ phase' = "flushing"
    /\ UNCHANGED <<buffer, seen, worker, pending, log, made, published, lost, listeners>>

\* ... or one of them raised, and a later initialisation tries again.
OpenFails ==
    /\ phase = "opening"
    /\ phase' = "new"
    /\ UNCHANGED <<buffer, seen, worker, pending, log, made, published, lost, listeners>>

-----------------------------------------------------------------------------
(* _process_event, once initialised: a nested event is dropped when the    *)
(* other source claimed its key.                                           *)
Processes(w, e) ==
    LET k == Key(e)
        taken == IsNested(e) /\ seen[k] \notin {"none", e[2]}
    IN  /\ worker' = IF taken THEN worker ELSE [worker EXCEPT ![w] = Busy("writing", e)]
        /\ seen' = IF IsNested(e) /\ ~taken THEN [seen EXCEPT ![k] = e[2]] ELSE seen

\* A task hands the pipeline a new event.
Emits(w, e) ==
    /\ w = Flusher => phase # "flushing"
    /\ worker[w] = Free
    /\ e \notin made
    /\ made' = made \cup {e}
    /\ IF Initialized
       THEN Processes(w, e) /\ buffer' = buffer
       ELSE buffer' = Append(buffer, e) /\ UNCHANGED <<worker, seen>>
    /\ UNCHANGED <<phase, pending, log, published, lost, listeners>>

\* The initialiser takes the next buffered event.
Unbuffers ==
    /\ phase = "flushing"
    /\ worker[Flusher] = Free
    /\ buffer # <<>>
    /\ Processes(Flusher, Head(buffer))
    /\ buffer' = Tail(buffer)
    /\ UNCHANGED <<phase, pending, log, made, published, lost, listeners>>

Unbuffered ==
    /\ phase = "flushing"
    /\ worker[Flusher] = Free
    /\ buffer = <<>>
    /\ phase' = "ready"
    /\ UNCHANGED <<buffer, seen, worker, pending, log, made, published, lost, listeners>>

-----------------------------------------------------------------------------
(* EventLog.append, then _handle_event's broadcast.                        *)

\* Slip: the write is not flushed before the broadcast.
WritesUnflushed(w) ==
    /\ worker[w].pc = "writing"
    /\ pending' = pending \cup {worker[w].ev}
    /\ worker' = [worker EXCEPT ![w].pc = "publishing"]
    /\ UNCHANGED <<phase, buffer, seen, log, made, published, lost, listeners>>

Writes(w) ==
    /\ worker[w].pc = "writing"
    /\ pending' = pending \cup {worker[w].ev}
    /\ worker' = [worker EXCEPT ![w].pc = "flushing"]
    /\ UNCHANGED <<phase, buffer, seen, log, made, published, lost, listeners>>

\* One flush takes along whatever else was written.
Flushes(w) ==
    /\ worker[w].pc = "flushing"
    /\ log' = log \cup pending
    /\ pending' = {}
    /\ worker' = [worker EXCEPT ![w].pc = "publishing"]
    /\ UNCHANGED <<phase, buffer, seen, made, published, lost, listeners>>

Publishes(w) ==
    /\ worker[w].pc = "publishing"
    /\ published' = published \cup {worker[w].ev}
    /\ view' = [s \in Subscriber |-> IF s \in attached THEN view[s] \cup {worker[w].ev}
                                      ELSE view[s]]
    /\ worker' = [worker EXCEPT ![w] = Free]
    /\ UNCHANGED <<phase, buffer, seen, pending, log, made, lost, attached, early>>

\* The disk refuses.  An initialiser that is flushing the buffer leaves the
\* rest of it behind.
AppendFails(w) ==
    /\ worker[w].pc \in {"writing", "flushing"}
    /\ worker' = [worker EXCEPT ![w] = Free]
    /\ IF w = Flusher /\ phase = "flushing"
       THEN phase' = "ready" /\ lost' = lost \cup {worker[w].ev} \cup BufferSet
       ELSE phase' = phase /\ lost' = lost \cup {worker[w].ev}
    /\ UNCHANGED <<buffer, seen, pending, log, made, published, listeners>>

-----------------------------------------------------------------------------
(* _ensure_pipeline_alive: the dead consumer is stopped, which closes its  *)
(* log under any append still in flight, and a new one reads the log.      *)
Rebuilds ==
    /\ phase # "new"
    /\ \E flushed \in {{}, pending} :
        /\ log' = log \cup flushed
        /\ seen' = Seeded(log')
    /\ pending' = {}
    /\ phase' = "opening"
    /\ buffer' = <<>>
    /\ LET cut == {w \in Worker : worker[w].pc \in {"writing", "flushing"}}
       IN  /\ worker' = [w \in Worker |-> IF w \in cut THEN Free ELSE worker[w]]
           /\ lost' = lost \cup BufferSet \cup {worker[w].ev : w \in cut}
    /\ UNCHANGED <<made, published, listeners>>

-----------------------------------------------------------------------------
(* SessionService.subscribe: the queue is registered and filled with what  *)
(* get_events returns, without an await that yields in between.            *)

\* get_events.  Slip: it reads the buffer until the flush is over.
ReplayOnceReady == IF phase = "ready" THEN log ELSE BufferSet
Replay == IF Initialized THEN log ELSE BufferSet

\* Slip: a queue is registered only with an initialised pipeline.
SubscribesOnceReady(s) ==
    /\ s \notin attached
    /\ attached' = IF Initialized THEN attached \cup {s} ELSE attached
    /\ view' = [view EXCEPT ![s] = Replay]
    /\ early' = IF ~Initialized /\ log # {} THEN early \cup {s} ELSE early
    /\ UNCHANGED <<phase, buffer, seen, worker, pending, log, made, published, lost>>

Subscribes(s) ==
    /\ s \notin attached
    /\ attached' = attached \cup {s}
    /\ view' = [view EXCEPT ![s] = Replay]
    /\ early' = IF ~Initialized /\ log # {} THEN early \cup {s} ELSE early
    /\ UNCHANGED <<phase, buffer, seen, worker, pending, log, made, published, lost>>

Unsubscribes(s) ==
    /\ s \in attached
    /\ attached' = attached \ {s}
    /\ view' = [view EXCEPT ![s] = {}]
    /\ early' = early \ {s}
    /\ UNCHANGED <<phase, buffer, seen, worker, pending, log, made, published, lost>>

Next ==
    \/ Opens \/ Opened \/ OpenFails \/ Unbuffers \/ Unbuffered \/ Rebuilds
    \/ \E w \in Worker : \/ Writes(w) \/ Flushes(w) \/ Publishes(w) \/ AppendFails(w)
                         \/ \E e \in Event : Emits(w, e)
    \/ \E s \in Subscriber : Subscribes(s) \/ Unsubscribes(s)

Spec == Init /\ [][Next]_vars

\* Fairness: the loop runs its tasks on, and the session is initialised in
\* the end: the agent announces it, or a failed connect reports itself, and
\* an initialisation that raised is tried again and not refused for ever.
FairSpec ==
    /\ Spec
    /\ WF_vars(Opens) /\ SF_vars(Opened) /\ WF_vars(Unbuffers) /\ WF_vars(Unbuffered)
    /\ \A w \in Worker : WF_vars(Writes(w) \/ Flushes(w) \/ Publishes(w))

-----------------------------------------------------------------------------
TypeOK ==
    /\ phase \in {"new", "opening", "flushing", "ready"}
    /\ buffer \in Seq(Event)
    /\ seen \in [Nested -> Source \cup {"none"}]
    /\ worker \in [Worker -> {Free} \cup [pc : {"writing", "flushing", "publishing"}, ev : Event]]
    /\ pending \subseteq Event /\ log \subseteq Event /\ made \subseteq Event
    /\ published \subseteq Event /\ lost \subseteq Event
    /\ attached \subseteq Subscriber /\ early \subseteq attached
    /\ view \in [Subscriber -> SUBSET Event]

(* A subscriber that was replayed from an initialised pipeline, or while   *)
(* there was nothing to replay, has been given every event broadcast so    *)
(* far: those of the buffer, of a flush under way, and of a consumer that  *)
(* has been replaced (subscribe, get_events).                              *)
NoEventMissed == \A s \in attached \ early : published \subseteq view[s]

(* The log never holds both copies of a subagent's event, across a resume  *)
(* or a replaced consumer too (_process_event, _seen_nested_keys).         *)
SourcesNotMixed ==
    \A k \in Nested : ~(<<k, "live">> \in log /\ <<k, "tailed">> \in log)

(* Every event handed to the pipeline is broadcast in the end, or its      *)
(* other copy is, unless an append that failed or a consumer that was      *)
(* replaced took it along: none stays behind in the buffer                 *)
(* (_initialize_storage).                                                  *)
Other(e) == <<e[1], IF e[2] = "live" THEN "tailed" ELSE "live">>
EventsArrive ==
    \A e \in Event : e \in made ~> \E copy \in {e, Other(e)} : copy \in published \cup lost

(* For the subscribers that were replayed the history, the pipeline keeps  *)
(* what EventDelivery promises.                                            *)
Delivery == INSTANCE EventDelivery WITH
    attached <- attached \ early,
    view <- [s \in Subscriber |-> IF s \in early THEN {} ELSE view[s]]
Delivers == Delivery!Spec

=============================================================================

--------------------------- MODULE EventDelivery ---------------------------
(***************************************************************************)
(* What a session's event stream promises, whatever the pipeline does to   *)
(* keep it: an event is on disk before anyone is told of it, and whoever   *)
(* is attached has been told of every event published so far, by the       *)
(* replay it attached with or by a broadcast since.                        *)
(***************************************************************************)
CONSTANTS
    Event,
    Subscriber

VARIABLES
    log,          \* events on disk
    published,    \* events broadcast, or on disk when the session started
    attached,     \* subscribers
    view          \* what each of them has been sent

vars == <<log, published, attached, view>>

Init ==
    /\ log \subseteq Event
    /\ published = log
    /\ attached = {}
    /\ view = [s \in Subscriber |-> {}]

Persist(E) ==
    /\ log' = log \cup E
    /\ UNCHANGED <<published, attached, view>>

Publish(e) ==
    /\ e \in log
    /\ published' = published \cup {e}
    /\ view' = [s \in Subscriber |-> IF s \in attached THEN view[s] \cup {e} ELSE view[s]]
    /\ UNCHANGED <<log, attached>>

\* A replay holds all that is on disk, and may hold what is not there yet.
Attach(s) ==
    /\ s \notin attached
    /\ attached' = attached \cup {s}
    /\ \E replay \in SUBSET Event :
        /\ log \subseteq replay
        /\ view' = [view EXCEPT ![s] = replay]
    /\ UNCHANGED <<log, published>>

Detach(s) ==
    /\ attached' = attached \ {s}
    /\ view' = [view EXCEPT ![s] = {}]
    /\ UNCHANGED <<log, published>>

Next ==
    \/ \E E \in SUBSET Event : Persist(E)
    \/ \E e \in Event : Publish(e)
    \/ \E s \in Subscriber : Attach(s) \/ Detach(s)

Spec == Init /\ [][Next]_vars

(* Nobody attached misses a published event, and all of those are on disk. *)
Complete ==
    /\ published \subseteq log
    /\ \A s \in attached : published \subseteq view[s]

=============================================================================

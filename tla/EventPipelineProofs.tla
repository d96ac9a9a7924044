------------------------ MODULE EventPipelineProofs ------------------------
(***************************************************************************)
(* Proofs about EventPipeline, for every set of events, tasks and          *)
(* subscribers.                                                            *)
(***************************************************************************)
EXTENDS EventPipeline, TLAPS

\* An event names a key and the source it came from.
LEMMA EventShape == ASSUME NEW e \in Event PROVE e[2] \in Source
BY DEF Event, Source

\* _process_event moves only the task and the key's claim.
LEMMA ProcessesType ==
    ASSUME TypeOK, NEW w \in Worker, NEW e \in Event, Processes(w, e)
    PROVE  /\ worker' \in [Worker -> {Free} \cup [pc : {"writing", "flushing", "publishing"},
                                                 ev : Event]]
           /\ seen' \in [Nested -> Source \cup {"none"}]
BY EventShape DEF TypeOK, Processes, Key, IsNested, Busy

\* The keys of a log are claimed by sources.
LEMMA SeededType == ASSUME NEW disk PROVE Seeded(disk) \in [Nested -> Source \cup {"none"}]
BY DEF Seeded, Source

LEMMA BufferedType == ASSUME TypeOK PROVE BufferSet \subseteq Event
BY DEF TypeOK, BufferSet

(* Every step keeps every variable of the pipeline in its type.            *)
LEMMA TypeStep == ASSUME TypeOK, [Next]_vars PROVE TypeOK'
<1> USE DEF TypeOK
<1>1. CASE Opens
  BY <1>1, SeededType DEF Opens, listeners
<1>2. CASE Opened \/ OpenFails
  BY <1>2 DEF Opened, OpenFails, listeners
<1>3. CASE Unbuffers
  <2>1. /\ buffer \in Seq(Event) /\ buffer # <<>>
        /\ Head(buffer) \in Event /\ Tail(buffer) \in Seq(Event)
    BY <1>3 DEF Unbuffers
  <2>2. QED
    BY <1>3, <2>1, ProcessesType, FlusherWorks DEF Unbuffers, listeners
<1>4. CASE Unbuffered
  BY <1>4 DEF Unbuffered, listeners
<1>5. CASE Rebuilds
  <2>1. /\ seen' \in [Nested -> Source \cup {"none"}]
        /\ log' \subseteq Event
    BY <1>5, SeededType DEF Rebuilds
  <2> DEFINE cut == {w \in Worker : worker[w].pc \in {"writing", "flushing"}}
  <2>2. \A w \in cut : worker[w].ev \in Event
    BY DEF Free
  <2>3. /\ lost' \subseteq Event
        /\ worker' \in [Worker -> {Free} \cup [pc : {"writing", "flushing", "publishing"},
                                              ev : Event]]
    BY <1>5, <2>2, BufferedType DEF Rebuilds
  <2>4. /\ buffer' \in Seq(Event) /\ pending' = {}
        /\ phase' = "opening"
        /\ UNCHANGED <<made, published, attached, view, early>>
    BY <1>5 DEF Rebuilds, listeners
  <2>5. QED
    BY <2>1, <2>3, <2>4
<1>6. ASSUME NEW w \in Worker, NEW e \in Event, Emits(w, e) PROVE TypeOK'
  <2>1. CASE Initialized
    BY <1>6, <2>1, ProcessesType DEF Emits, listeners
  <2>2. CASE ~Initialized
    BY <1>6, <2>2 DEF Emits, listeners
  <2>3. QED
    BY <2>1, <2>2
<1>7. ASSUME NEW w \in Worker, Writes(w) \/ Flushes(w) \/ Publishes(w) \/ AppendFails(w)
      PROVE TypeOK'
  <2>1. worker[w] # Free /\ worker[w].ev \in Event
    BY <1>7 DEF Writes, Flushes, Publishes, AppendFails, Free
  <2>2. CASE Writes(w)
    BY <2>1, <2>2 DEF Writes, listeners
  <2>3. CASE Flushes(w)
    BY <2>1, <2>3 DEF Flushes, listeners
  <2>4. CASE Publishes(w)
    BY <2>1, <2>4 DEF Publishes
  <2>5. CASE AppendFails(w)
    BY <2>1, <2>5, BufferedType DEF AppendFails, listeners
  <2>6. QED
    BY <1>7, <2>2, <2>3, <2>4, <2>5
<1>8. ASSUME NEW s \in Subscriber, Subscribes(s) \/ Unsubscribes(s) PROVE TypeOK'
  BY <1>8 DEF Subscribes, Replay, Unsubscribes, BufferSet, Initialized
<1>9. CASE UNCHANGED vars
  BY <1>9 DEF vars
<1>10. QED
  BY <1>1, <1>2, <1>3, <1>4, <1>5, <1>6, <1>7, <1>8, <1>9 DEF Next

-----------------------------------------------------------------------------
(* The inductive invariant.                                                *)

\* An append that was written is in the file or on its way there, and one
\* that was flushed is in the file; nothing is broadcast before.
AppendsLand ==
    /\ \A w \in Worker :
        /\ worker[w].pc = "flushing" => worker[w].ev \in pending \cup log
        /\ worker[w].pc = "publishing" => worker[w].ev \in log
    /\ published \subseteq log

\* Nothing is written by a pipeline that is not initialised.
QuietUntilOpen ==
    ~Initialized => /\ pending = {}
                    /\ \A w \in Worker : worker[w].pc \notin {"writing", "flushing"}

\* A nested event in the file, or on its way there, claimed its key; before
\* the log is read its claims may not be known.
Claimed(e) ==
    IsNested(e) => seen[Key(e)] = e[2] \/ (phase = "new" /\ seen[Key(e)] = "none")
ClaimsHold ==
    /\ \A e \in log \cup pending : Claimed(e)
    /\ \A w \in Worker : worker[w].pc \in {"writing", "flushing"} => Claimed(worker[w].ev)

\* Only a subscriber has been sent anything.
ViewsAttached == \A s \in Subscriber \ attached : view[s] = {}

IInv == /\ TypeOK /\ AppendsLand /\ QuietUntilOpen /\ ClaimsHold /\ ViewsAttached
        /\ SourcesNotMixed /\ NoEventMissed

\* Both of a task's ways into _process_event leave these alone.
LEMMA ProcessesFrame ==
    ASSUME TypeOK, NEW w \in Worker, NEW e \in Event, Processes(w, e)
    PROVE  \A v \in Worker : worker'[v] = worker[v] \/ worker'[v] = Busy("writing", e)
<1>1. worker' = worker \/ worker' = [worker EXCEPT ![w] = Busy("writing", e)]
  BY DEF Processes
<1>2. QED
  BY <1>1 DEF TypeOK

\* Nothing is broadcast that is not in the file.
LEMMA AppendsLandStep == ASSUME TypeOK, AppendsLand, [Next]_vars PROVE AppendsLand'
<1> USE DEF AppendsLand
<1>1. CASE Opens \/ Opened \/ OpenFails \/ Unbuffered
  BY <1>1 DEF Opens, Opened, OpenFails, Unbuffered
<1>2. ASSUME NEW w \in Worker, NEW e \in Event, Processes(w, e),
             UNCHANGED <<pending, log, published>>
      PROVE  AppendsLand'
  <2>1. \A v \in Worker : worker'[v] = worker[v] \/ worker'[v] = Busy("writing", e)
    BY <1>2, ProcessesFrame
  <2>2. Busy("writing", e).pc = "writing"
    BY DEF Busy
  <2>3. QED
    BY <1>2, <2>1, <2>2
<1>3. CASE Unbuffers
  <2>1. Head(buffer) \in Event
    BY <1>3 DEF TypeOK, Unbuffers
  <2>2. QED
    BY <1>2, <1>3, <2>1, FlusherWorks DEF Unbuffers
<1>4. ASSUME NEW w \in Worker, NEW e \in Event, Emits(w, e) PROVE AppendsLand'
  <2>1. CASE Initialized
    BY <1>2, <1>4, <2>1 DEF Emits
  <2>2. CASE ~Initialized
    BY <1>4, <2>2 DEF Emits
  <2>3. QED
    BY <2>1, <2>2
<1>5. ASSUME NEW w \in Worker, Writes(w) PROVE AppendsLand'
  BY <1>5 DEF TypeOK, Writes
<1>6. ASSUME NEW w \in Worker, Flushes(w) PROVE AppendsLand'
  BY <1>6 DEF TypeOK, Flushes
<1>7. ASSUME NEW w \in Worker, Publishes(w) \/ AppendFails(w) PROVE AppendsLand'
  <2>1. CASE Publishes(w)
    BY <2>1 DEF TypeOK, Publishes, Free
  <2>2. CASE AppendFails(w)
    BY <2>2 DEF TypeOK, AppendFails, Free
  <2>3. QED
    BY <1>7, <2>1, <2>2
<1>8. CASE Rebuilds
  BY <1>8 DEF TypeOK, Rebuilds, Free
<1>9. ASSUME NEW s \in Subscriber, Subscribes(s) \/ Unsubscribes(s) PROVE AppendsLand'
  BY <1>9 DEF Subscribes, Unsubscribes
<1>10. CASE UNCHANGED vars
  BY <1>10 DEF vars
<1>11. QED
  BY <1>1, <1>3, <1>4, <1>5, <1>6, <1>7, <1>8, <1>9, <1>10 DEF Next

\* Nothing is written before the log is open.
LEMMA QuietStep == ASSUME TypeOK, QuietUntilOpen, [Next]_vars PROVE QuietUntilOpen'
<1> USE DEF QuietUntilOpen, Initialized
<1>1. CASE Opens \/ Opened \/ OpenFails \/ Unbuffered \/ Unbuffers
  BY <1>1 DEF Opens, Opened, OpenFails, Unbuffered, Unbuffers
<1>2. ASSUME NEW w \in Worker, NEW e \in Event, Emits(w, e) PROVE QuietUntilOpen'
  BY <1>2 DEF Emits
<1>3. ASSUME NEW w \in Worker, Writes(w) \/ Flushes(w) \/ Publishes(w) \/ AppendFails(w)
      PROVE  QuietUntilOpen'
  <2>1. CASE Writes(w)
    BY <2>1 DEF TypeOK, Writes
  <2>2. CASE Flushes(w)
    BY <2>2 DEF TypeOK, Flushes
  <2>3. CASE Publishes(w)
    BY <2>3 DEF TypeOK, Publishes, Free
  <2>4. CASE AppendFails(w)
    BY <2>4 DEF TypeOK, AppendFails, Free
  <2>5. QED
    BY <1>3, <2>1, <2>2, <2>3, <2>4
<1>4. CASE Rebuilds
  BY <1>4 DEF TypeOK, Rebuilds, Free
<1>5. ASSUME NEW s \in Subscriber, Subscribes(s) \/ Unsubscribes(s) PROVE QuietUntilOpen'
  BY <1>5 DEF Subscribes, Unsubscribes
<1>6. CASE UNCHANGED vars
  BY <1>6 DEF vars
<1>7. QED
  BY <1>1, <1>2, <1>3, <1>4, <1>5, <1>6 DEF Next

\* Seeding reads the claims off a log that holds one copy of each event.
LEMMA SeededClaims ==
    ASSUME NEW D, D \subseteq Event,
           \A k \in Nested : ~(<<k, "live">> \in D /\ <<k, "tailed">> \in D),
           NEW e \in D, IsNested(e)
    PROVE  Seeded(D)[Key(e)] = e[2]
<1>1. PICK k \in Nested, src \in Source : e = <<k, src>>
  BY KeysDistinct DEF Event, IsNested
<1>2. QED
  BY <1>1 DEF Seeded, Key, Source

\* Copies that keep to one claim per key are not mixed.
LEMMA ClaimsSeparate ==
    ASSUME NEW D, NEW claim, \A e \in D : IsNested(e) => claim[Key(e)] = e[2]
    PROVE  \A k \in Nested : ~(<<k, "live">> \in D /\ <<k, "tailed">> \in D)
<1>1. SUFFICES ASSUME NEW k \in Nested, <<k, "live">> \in D, <<k, "tailed">> \in D
               PROVE  FALSE
  OBVIOUS
<1>2. claim[k] = "live" /\ claim[k] = "tailed"
  BY <1>1 DEF IsNested, Key
<1>3. QED
  BY <1>2

\* Once the log has been read, every copy written keeps to its key's claim.
LEMMA ClaimsKnown ==
    ASSUME ClaimsHold, phase # "new"
    PROVE  \A e \in log \cup pending : IsNested(e) => seen[Key(e)] = e[2]
BY DEF ClaimsHold, Claimed

\* _process_event takes a claim over from nobody.
LEMMA ProcessesClaims ==
    ASSUME TypeOK, ClaimsHold, phase # "new", NEW w \in Worker, NEW e \in Event,
           Processes(w, e), UNCHANGED <<phase, log, pending>>
    PROVE  ClaimsHold'
<1>1. \A f \in Event : Claimed(f) => Claimed(f)'
  <2>1. \A k \in Nested : seen[k] \in Source => seen'[k] = seen[k]
    BY DEF Processes, TypeOK, Source, Key, IsNested
  <2>2. QED
    BY <2>1, EventShape DEF Claimed, Key, IsNested
<1>2. worker'[w] = Busy("writing", e) => Claimed(e)' \/ worker'[w] = worker[w]
  BY DEF Processes, TypeOK, Claimed, Key, IsNested, Busy
<1>3. \A v \in Worker : \/ worker'[v] = worker[v]
                        \/ worker'[v] = Busy("writing", e) /\ v = w
  BY DEF Processes, TypeOK
<1>4. Busy("writing", e).ev = e
  BY DEF Busy
<1>5. \A v \in Worker : worker[v].pc \in {"writing", "flushing"} => worker[v].ev \in Event
  BY DEF TypeOK, Free
<1>6. log \cup pending \subseteq Event
  BY DEF TypeOK
<1>7. QED
  BY <1>1, <1>2, <1>3, <1>4, <1>5, <1>6 DEF ClaimsHold

\* The steps that write or read the log keep every copy with its claim.
LEMMA ClaimsStep ==
    ASSUME TypeOK, QuietUntilOpen, ClaimsHold, SourcesNotMixed, [Next]_vars
    PROVE  ClaimsHold'
<1>1. CASE Opens
  <2>1. /\ pending = {} /\ \A w \in Worker : worker[w].pc \notin {"writing", "flushing"}
        /\ UNCHANGED <<log, pending, worker>> /\ phase' = "opening"
    BY <1>1 DEF Opens, QuietUntilOpen, Initialized
  <2>2. ASSUME NEW e \in log, IsNested(e) PROVE seen'[Key(e)] = e[2]
    <3>1. Key(e) \in Nested
      BY <2>2 DEF Key, IsNested
    <3>2. Seeded(log)[Key(e)] = e[2]
      BY <2>2, SeededClaims DEF TypeOK, SourcesNotMixed
    <3>3. seen[Key(e)] = e[2] \/ seen[Key(e)] = "none"
      BY <2>2 DEF ClaimsHold, Claimed
    <3>4. QED
      BY <1>1, <3>1, <3>2, <3>3 DEF Opens
  <2>3. QED
    BY <2>1, <2>2 DEF ClaimsHold, Claimed, IsNested, Key
<1>2. CASE Opened \/ OpenFails \/ Unbuffered
  <2>1. /\ UNCHANGED <<log, pending, worker, seen>> /\ phase # "new"
    BY <1>2 DEF Opened, OpenFails, Unbuffered
  <2>2. QED
    BY <2>1 DEF ClaimsHold, Claimed, IsNested, Key
<1>3. CASE Unbuffers
  <2>1. Head(buffer) \in Event
    BY <1>3 DEF TypeOK, Unbuffers
  <2>2. QED
    BY <1>3, <2>1, FlusherWorks, ProcessesClaims DEF Unbuffers
<1>4. ASSUME NEW w \in Worker, NEW e \in Event, Emits(w, e) PROVE ClaimsHold'
  <2>1. CASE Initialized
    BY <1>4, <2>1, ProcessesClaims DEF Emits, Initialized
  <2>2. CASE ~Initialized
    BY <1>4, <2>2 DEF Emits, ClaimsHold, Claimed, IsNested, Key
  <2>3. QED
    BY <2>1, <2>2
<1>5. ASSUME NEW w \in Worker, Writes(w) PROVE ClaimsHold'
  <2>1. /\ \A v \in Worker : worker'[v].pc \in {"writing", "flushing"} =>
               worker[v].pc \in {"writing", "flushing"} /\ worker'[v].ev = worker[v].ev
        /\ worker[w].pc = "writing"
    BY <1>5 DEF TypeOK, Writes
  <2>2. QED
    BY <1>5, <2>1 DEF Writes, ClaimsHold, Claimed, IsNested, Key
<1>6. ASSUME NEW w \in Worker, Flushes(w) \/ Publishes(w) \/ AppendFails(w)
      PROVE  ClaimsHold'
  <2>1. /\ \A v \in Worker : worker'[v].pc \in {"writing", "flushing"} =>
               worker[v].pc \in {"writing", "flushing"} /\ worker'[v].ev = worker[v].ev
    BY <1>6 DEF TypeOK, Flushes, Publishes, AppendFails, Free
  <2>2. /\ log' \cup pending' = log \cup pending /\ seen' = seen
        /\ phase' = "new" <=> phase = "new"
    BY <1>6 DEF Flushes, Publishes, AppendFails
  <2>3. QED
    BY <2>1, <2>2 DEF ClaimsHold, Claimed, IsNested, Key
<1>7. CASE Rebuilds
  <2>1. PICK flushed \in {{}, pending} : log' = log \cup flushed /\ seen' = Seeded(log')
    BY <1>7 DEF Rebuilds
  <2>2. \A w \in Worker : worker'[w].pc \notin {"writing", "flushing"}
    BY <1>7 DEF TypeOK, Rebuilds, Free
  <2>3. log' \subseteq log \cup pending /\ log' \subseteq Event
    BY <2>1 DEF TypeOK
  <2>4. \A e \in log' : IsNested(e) => seen[Key(e)] = e[2]
    BY <1>7, <2>3, ClaimsKnown DEF Rebuilds
  <2>5. \A k \in Nested : ~(<<k, "live">> \in log' /\ <<k, "tailed">> \in log')
    BY <2>4, ClaimsSeparate
  <2>6. \A e \in log' : IsNested(e) => seen'[Key(e)] = e[2]
    BY <2>1, <2>3, <2>5, SeededClaims
  <2>7. pending' = {}
    BY <1>7 DEF Rebuilds
  <2>8. QED
    BY <2>2, <2>6, <2>7 DEF ClaimsHold, Claimed, IsNested, Key
<1>8. ASSUME NEW s \in Subscriber, Subscribes(s) \/ Unsubscribes(s) PROVE ClaimsHold'
  BY <1>8 DEF Subscribes, Unsubscribes, ClaimsHold, Claimed, IsNested, Key
<1>9. CASE UNCHANGED vars
  BY <1>9 DEF vars, ClaimsHold, Claimed, IsNested, Key
<1>10. QED
  BY <1>1, <1>2, <1>3, <1>4, <1>5, <1>6, <1>7, <1>8, <1>9 DEF Next

\* What a step adds to the file was claimed before it.
LEMMA MixStep ==
    ASSUME TypeOK, QuietUntilOpen, ClaimsHold, SourcesNotMixed, [Next]_vars
    PROVE  SourcesNotMixed'
<1>1. CASE log' = log
  BY <1>1 DEF SourcesNotMixed
<1>2. CASE log' # log
  <2>1. \/ Rebuilds
        \/ \E w \in Worker : Flushes(w)
    BY <1>2 DEF Next, vars, Opens, Opened, OpenFails, Unbuffers, Unbuffered, Emits, Writes,
                Publishes, AppendFails, Subscribes, Unsubscribes
  <2>2. phase # "new"
    BY <2>1 DEF Rebuilds, Flushes, QuietUntilOpen, Initialized
  <2>3. log' \subseteq log \cup pending
    BY <2>1 DEF Rebuilds, Flushes
  <2>4. \A e \in log' : IsNested(e) => seen[Key(e)] = e[2]
    BY <2>2, <2>3, ClaimsKnown
  <2>5. QED
    BY <2>4, ClaimsSeparate DEF SourcesNotMixed
<1>3. QED
  BY <1>1, <1>2

\* Only a broadcast publishes, and it reaches whoever is attached; whoever
\* attaches to an open log reads all that was broadcast from it.
LEMMA DeliveryStep ==
    ASSUME TypeOK, AppendsLand, ViewsAttached, NoEventMissed, [Next]_vars
    PROVE  ViewsAttached' /\ NoEventMissed'
<1> USE DEF ViewsAttached, NoEventMissed
<1>1. CASE UNCHANGED <<published, attached, view, early>>
  BY <1>1
<1>2. ASSUME NEW w \in Worker, Publishes(w) PROVE ViewsAttached' /\ NoEventMissed'
  BY <1>2 DEF TypeOK, Publishes
<1>3. ASSUME NEW s \in Subscriber, Subscribes(s) PROVE ViewsAttached' /\ NoEventMissed'
  BY <1>3 DEF TypeOK, Subscribes, Replay, AppendsLand
<1>4. ASSUME NEW s \in Subscriber, Unsubscribes(s) PROVE ViewsAttached' /\ NoEventMissed'
  BY <1>4 DEF TypeOK, Unsubscribes
<1>5. QED
  BY <1>1, <1>2, <1>3, <1>4
  DEF Next, vars, listeners, Opens, Opened, OpenFails, Unbuffers, Unbuffered, Rebuilds,
      Emits, Writes, Flushes, AppendFails

LEMMA InitIInv == ASSUME Init PROVE IInv
<1> USE DEF Init
<1>1. TypeOK
  BY HistoryIsDeduped DEF TypeOK, Source
<1>2. AppendsLand /\ QuietUntilOpen /\ ViewsAttached /\ NoEventMissed
  BY DEF AppendsLand, QuietUntilOpen, ViewsAttached, NoEventMissed, Free
<1>3. ClaimsHold
  BY HistoryIsDeduped DEF ClaimsHold, Claimed, Key, IsNested, Free
<1>4. SourcesNotMixed
  BY HistoryIsDeduped DEF SourcesNotMixed
<1>5. QED
  BY <1>1, <1>2, <1>3, <1>4 DEF IInv

LEMMA StepIInv == ASSUME IInv, [Next]_vars PROVE IInv'
BY TypeStep, AppendsLandStep, QuietStep, ClaimsStep, MixStep, DeliveryStep DEF IInv

(* The invariant is one.                                                   *)
THEOREM Invariance == Spec => []IInv
<1>1. Init => IInv
  BY InitIInv
<1>2. IInv /\ [Next]_vars => IInv'
  BY StepIInv
<1>3. QED
  BY <1>1, <1>2, PTL DEF Spec

(* The pipeline's variables stay in their types.                           *)
THEOREM Typing == Spec => []TypeOK
<1>1. IInv => TypeOK
  BY DEF IInv
<1>2. QED
  BY <1>1, Invariance, PTL

(* A subscriber that was replayed the history has been given every event   *)
(* broadcast so far, whatever buffering, flushing or replacement of the    *)
(* consumer went on meanwhile.                                             *)
THEOREM Delivering == Spec => []NoEventMissed
<1>1. IInv => NoEventMissed
  BY DEF IInv
<1>2. QED
  BY <1>1, Invariance, PTL

(* The log never holds both copies of a subagent's event.                  *)
THEOREM Deduplication == Spec => []SourcesNotMixed
<1>1. IInv => SourcesNotMixed
  BY DEF IInv
<1>2. QED
  BY <1>1, Invariance, PTL

-----------------------------------------------------------------------------
(* The pipeline implements EventDelivery.                                  *)

\* What EventDelivery sees of a subscriber's queue.
Sent == [s \in Subscriber |-> IF s \in early THEN {} ELSE view[s]]

LEMMA InitRefines == ASSUME Init PROVE Delivery!Init
BY HistoryIsDeduped DEF Init, Delivery!Init

LEMMA StepRefines == ASSUME IInv, [Next]_vars PROVE [Delivery!Next]_Delivery!vars
<1> USE DEF IInv
<1>1. CASE UNCHANGED <<log, published, attached, view, early>>
  BY <1>1 DEF Delivery!vars
<1>2. ASSUME NEW w \in Worker, Flushes(w) PROVE Delivery!Next
  <2>1. Delivery!Persist(pending)
    BY <1>2 DEF Flushes, listeners, Delivery!Persist
  <2>2. QED
    BY <2>1 DEF TypeOK, Delivery!Next
<1>3. CASE Rebuilds
  <2>1. PICK flushed \in {{}, pending} : log' = log \cup flushed
    BY <1>3 DEF Rebuilds
  <2>2. Delivery!Persist(flushed)
    BY <1>3, <2>1 DEF Rebuilds, listeners, Delivery!Persist
  <2>3. QED
    BY <2>2 DEF TypeOK, Delivery!Next
<1>4. ASSUME NEW w \in Worker, Publishes(w) PROVE Delivery!Next
  <2>1. PICK e \in Event : e = worker[w].ev /\ e \in log
    BY <1>4 DEF Publishes, AppendsLand, TypeOK
  <2>2. Delivery!Publish(e)
    BY <1>4, <2>1 DEF Publishes, TypeOK, Delivery!Publish
  <2>3. QED
    BY <2>1, <2>2 DEF Delivery!Next
<1>5. ASSUME NEW s \in Subscriber, Subscribes(s) PROVE [Delivery!Next]_Delivery!vars
  <2>1. s \notin attached /\ s \notin early /\ view[s] = {}
    BY <1>5 DEF Subscribes, TypeOK, ViewsAttached
  <2>2. CASE s \in early'
    <3>1. attached' \ early' = attached \ early
      BY <1>5, <2>1, <2>2 DEF Subscribes
    <3>2. Sent' = Sent
      BY <1>5, <2>1, <2>2 DEF Subscribes, TypeOK, Sent
    <3>3. QED
      BY <1>5, <3>1, <3>2 DEF Subscribes, Sent, Delivery!vars
  <2>3. CASE s \notin early'
    <3>1. early' = early /\ (Initialized \/ log = {})
      BY <1>5, <2>3 DEF Subscribes
    <3>2. view'[s] \in SUBSET Event /\ log \subseteq view'[s]
      BY <1>5, <3>1, TypeStep DEF Subscribes, Replay, BufferSet, Initialized, TypeOK
    <3>3. attached' \ early' = (attached \ early) \cup {s}
      BY <1>5, <2>1, <3>1 DEF Subscribes
    <3>4. Sent' = [Sent EXCEPT ![s] = view'[s]]
      BY <1>5, <2>1, <3>1 DEF Subscribes, TypeOK, Sent
    <3>5. Delivery!Attach(s)
      BY <1>5, <2>1, <3>2, <3>3, <3>4 DEF Subscribes, Sent, Delivery!Attach
    <3>6. QED
      BY <3>5 DEF Delivery!Next
  <2>4. QED
    BY <2>2, <2>3
<1>6. ASSUME NEW s \in Subscriber, Unsubscribes(s) PROVE Delivery!Next
  <2>1. attached' \ early' = (attached \ early) \ {s}
    BY <1>6 DEF Unsubscribes
  <2>2. Sent' = [Sent EXCEPT ![s] = {}]
    BY <1>6 DEF Unsubscribes, TypeOK, Sent
  <2>3. Delivery!Detach(s)
    BY <1>6, <2>1, <2>2 DEF Unsubscribes, Sent, Delivery!Detach
  <2>4. QED
    BY <2>3 DEF Delivery!Next
<1>7. QED
  BY <1>1, <1>2, <1>3, <1>4, <1>5, <1>6
  DEF Next, vars, listeners, Opens, Opened, OpenFails, Unbuffers, Unbuffered, Emits, Writes,
      AppendFails

(* Every run of the pipeline is a run of EventDelivery: it appends before  *)
(* it broadcasts, and replays what it has appended.                        *)
THEOREM Refinement == Spec => Delivers
<1>1. Init => Delivery!Init
  BY InitRefines
<1>2. IInv /\ [Next]_vars => [Delivery!Next]_Delivery!vars
  BY StepRefines
<1>3. QED
  BY <1>1, <1>2, Invariance, PTL DEF Spec, Delivers, Delivery!Spec

(* What EventDelivery promises follows from its steps alone ...            *)
LEMMA PromiseStep ==
    ASSUME Delivery!Complete, attached \ early \subseteq Subscriber,
           [Delivery!Next]_Delivery!vars
    PROVE  Delivery!Complete' /\ (attached \ early \subseteq Subscriber)'
<1> USE DEF Delivery!Complete
<1>1. ASSUME NEW E \in SUBSET Event, Delivery!Persist(E)
      PROVE  Delivery!Complete' /\ (attached \ early \subseteq Subscriber)'
  BY <1>1 DEF Delivery!Persist
<1>2. ASSUME NEW e \in Event, Delivery!Publish(e)
      PROVE  Delivery!Complete' /\ (attached \ early \subseteq Subscriber)'
  BY <1>2 DEF Delivery!Publish
<1>3. ASSUME NEW s \in Subscriber, Delivery!Attach(s)
      PROVE  Delivery!Complete' /\ (attached \ early \subseteq Subscriber)'
  BY <1>3 DEF Delivery!Attach
<1>4. ASSUME NEW s \in Subscriber, Delivery!Detach(s)
      PROVE  Delivery!Complete' /\ (attached \ early \subseteq Subscriber)'
  BY <1>4 DEF Delivery!Detach
<1>5. CASE UNCHANGED Delivery!vars
  BY <1>5 DEF Delivery!vars
<1>6. QED
  BY <1>1, <1>2, <1>3, <1>4, <1>5 DEF Delivery!Next

THEOREM Promise == Delivers => []Delivery!Complete
<1>1. Delivery!Init => Delivery!Complete /\ attached \ early \subseteq Subscriber
  BY DEF Delivery!Init, Delivery!Complete
<1>2. QED
  BY <1>1, PromiseStep, PTL DEF Delivers, Delivery!Spec

(* ... and so the pipeline keeps it: no event is broadcast before it is on *)
(* disk, and none is broadcast that someone replayed the history misses.   *)
THEOREM PromiseKept == Spec => []Delivery!Complete
BY Refinement, Promise, PTL

-----------------------------------------------------------------------------
(* Why every event arrives: there is always something that has it in hand. *)

\* With a task, in a buffer still to be flushed, or past both.
Held == {worker[w].ev : w \in {v \in Worker : worker[v] # Free}}
Waiting == IF phase = "ready" THEN {} ELSE BufferSet
Accounted == published \cup lost \cup Held \cup Waiting

(* No event is stranded: one handed to the pipeline, or the copy of it     *)
(* that the other source read, is broadcast, with a task that processes    *)
(* it, or in a buffer whose flush is still to come, unless a failed append *)
(* or a replaced consumer took it along (_process_event,                   *)
(* _initialize_storage).  This is what EventsArrive leans on.              *)
NoneStranded == \A e \in made : e \in Accounted \/ Other(e) \in Accounted

\* A claim is of an event that is accounted for, and so is what is written.
ClaimsAccounted ==
    /\ log \cup pending \subseteq Accounted
    /\ \A k \in Nested : seen[k] # "none" => <<k, seen[k]>> \in Accounted

\* An event dropped in favour of its other copy finds that accounted for.
LEMMA TakenOther ==
    ASSUME TypeOK, ClaimsAccounted, NEW e \in Event,
           IsNested(e), seen[Key(e)] \notin {"none", e[2]}
    PROVE  Other(e) \in Accounted /\ Other(e) # e
<1>1. Key(e) = e[1] /\ e[1] \in Nested /\ e[2] \in Source /\ e = <<e[1], e[2]>>
  BY EventShape DEF Key, IsNested, Event
<1>2. seen[e[1]] \in Source \ {e[2]}
  BY <1>1 DEF TypeOK
<1>3. Other(e) = <<e[1], seen[e[1]]>>
  BY <1>1, <1>2 DEF Other, Source
<1>4. QED
  BY <1>1, <1>2, <1>3 DEF ClaimsAccounted

\* Nothing accounted for is let go, and what is new is accounted for.
LEMMA AccountsKept ==
    ASSUME ClaimsAccounted, NoneStranded, Accounted \subseteq Accounted',
           log' \cup pending' \subseteq Accounted',
           \A k \in Nested :
              seen'[k] # "none" => seen'[k] = seen[k] \/ <<k, seen'[k]>> \in Accounted',
           \A e \in made' : e \in made \/ e \in Accounted' \/ Other(e) \in Accounted'
    PROVE  ClaimsAccounted' /\ NoneStranded'
BY DEF ClaimsAccounted, NoneStranded

\* A task moves on with its event, or leaves with it.
LEMMA HeldMoves ==
    ASSUME TypeOK, NEW w \in Worker, NEW new, worker' = [worker EXCEPT ![w] = new]
    PROVE  /\ new # Free => new.ev \in Held'
           /\ \A e \in Held : e \in Held' \/ (worker[w] # Free /\ e = worker[w].ev)
           /\ worker[w] = Free => Held \subseteq Held'
<1>1. worker'[w] = new /\ \A v \in Worker \ {w} : worker'[v] = worker[v]
  BY DEF TypeOK
<1>2. new # Free => new.ev \in Held'
  BY <1>1 DEF Held
<1>3. ASSUME NEW e \in Held, worker[w] = Free \/ e # worker[w].ev PROVE e \in Held'
  <2>1. PICK v \in Worker : worker[v] # Free /\ worker[v].ev = e
    BY DEF Held
  <2>2. v # w
    BY <1>3, <2>1
  <2>3. worker'[v] # Free /\ worker'[v].ev = e
    BY <1>1, <2>1, <2>2
  <2>4. QED
    BY <2>3 DEF Held
<1>4. \A e \in Held : e \in Held' \/ (worker[w] # Free /\ e = worker[w].ev)
  BY <1>3
<1>5. QED
  BY <1>2, <1>3, <1>4

LEMMA AccountsStep ==
    ASSUME IInv, ClaimsAccounted, NoneStranded, [Next]_vars
    PROVE  ClaimsAccounted' /\ NoneStranded'
<1>1. TypeOK /\ log \cup pending \subseteq Accounted
  BY DEF IInv, ClaimsAccounted
<1>2. CASE Opens \/ Opened \/ OpenFails
  <2>1. /\ UNCHANGED <<buffer, worker, pending, log, made, published, lost>>
        /\ phase # "ready" /\ phase' # "ready"
    BY <1>2 DEF Opens, Opened, OpenFails
  <2>2. Accounted' = Accounted
    BY <2>1 DEF Accounted, Held, Waiting, BufferSet
  <2>3. ASSUME NEW k \in Nested, seen'[k] # "none"
        PROVE  seen'[k] = seen[k] \/ <<k, seen'[k]>> \in log
    BY <1>2, <2>3 DEF Opens, Opened, OpenFails, Seeded
  <2>4. QED
    BY <1>1, <2>1, <2>2, <2>3, AccountsKept
<1>3. ASSUME NEW w \in Worker, NEW e \in Event, Processes(w, e), worker[w] = Free,
             UNCHANGED <<phase, pending, log, published, lost>>,
             BufferSet \subseteq BufferSet' \cup {e},
             made' \subseteq made \cup {e},
             e \in Waiting => Claimed(e) \/ e \notin log \cup pending
      PROVE  ClaimsAccounted' /\ NoneStranded'
  <2> DEFINE taken == IsNested(e) /\ seen[Key(e)] \notin {"none", e[2]}
  <2>1. CASE ~taken
    <3>1. worker' = [worker EXCEPT ![w] = Busy("writing", e)]
      BY <1>3, <2>1 DEF Processes
    <3>2. e \in Held' /\ Held \subseteq Held'
      <4>1. Busy("writing", e) # Free /\ Busy("writing", e).ev = e
        BY DEF Busy, Free
      <4>2. QED
        BY <1>1, <1>3, <3>1, <4>1, HeldMoves
    <3>3. Accounted \subseteq Accounted' /\ e \in Accounted'
      BY <1>3, <3>2 DEF Accounted, Waiting
    <3>4. ASSUME NEW k \in Nested, seen'[k] # "none"
          PROVE  seen'[k] = seen[k] \/ <<k, seen'[k]>> = e
      BY <1>1, <1>3, <2>1, <3>4, EventShape DEF Processes, IsNested, Key, Event, TypeOK
    <3>5. QED
      BY <1>1, <1>3, <3>3, <3>4, AccountsKept
  <2>2. CASE taken
    <3>1. worker' = worker /\ seen' = seen
      BY <2>2, <1>3 DEF Processes
    <3>2. Accounted \subseteq Accounted' \cup {e}
      BY <1>3, <3>1 DEF Accounted, Held, Waiting
    <3>3. Other(e) \in Accounted'
      BY <1>1, <2>2, <3>2, TakenOther
    <3>4. \A k \in Nested : <<k, seen[k]>> # e
      BY <2>2 DEF Key
    <3>5. e \in log \cup pending => e \in Accounted'
      <4>1. ASSUME e \in log \cup pending PROVE ~(e \in Waiting)
        BY <1>3, <2>2, <4>1 DEF Claimed
      <4>2. QED
        BY <1>1, <1>3, <3>1, <4>1 DEF Accounted, Held
    <3>6. \A f \in made : f \in Accounted' \/ Other(f) \in Accounted'
      <4> SUFFICES ASSUME NEW f \in made, f \notin Accounted', Other(f) \notin Accounted'
                   PROVE  FALSE
        OBVIOUS
      <4>1. f = e \/ Other(f) = e
        BY <3>2 DEF NoneStranded
      <4>2. Other(f) = e => f = Other(e)
        BY <1>1, EventShape DEF TypeOK, Other, Source, Event
      <4>3. QED
        BY <3>3, <4>1, <4>2
    <3>7. QED
      BY <1>1, <1>3, <3>1, <3>2, <3>3, <3>4, <3>5, <3>6 DEF ClaimsAccounted, NoneStranded
  <2>3. QED
    BY <2>1, <2>2
<1>4. CASE Unbuffers
  <2>1. /\ buffer \in Seq(Event) /\ buffer # <<>> /\ Head(buffer) \in Event
        /\ BufferSet \subseteq BufferSet' \cup {Head(buffer)}
    <3>1. buffer \in Seq(Event) /\ buffer # <<>> /\ buffer' = Tail(buffer)
      BY <1>1, <1>4 DEF Unbuffers, TypeOK
    <3>2. Head(buffer) = buffer[1] /\ Head(buffer) \in Event /\ Len(buffer) \in Nat \ {0}
      BY <3>1
    <3>3. Len(Tail(buffer)) = Len(buffer) - 1
          /\ \A j \in 1..(Len(buffer) - 1) : Tail(buffer)[j] = buffer[j + 1]
      BY <3>1
    <3>4. ASSUME NEW j \in 1..Len(buffer), j # 1 PROVE buffer[j] \in BufferSet'
      <4>1. j - 1 \in 1..(Len(buffer) - 1) /\ j - 1 + 1 = j
        BY <3>2, <3>4
      <4>2. Tail(buffer)[j - 1] = buffer[j]
        BY <3>3, <4>1
      <4>3. QED
        BY <3>1, <3>3, <4>1, <4>2 DEF BufferSet
    <3>5. QED
      BY <3>1, <3>2, <3>4 DEF BufferSet
  <2>2. ASSUME Head(buffer) \in log \cup pending PROVE Claimed(Head(buffer))
    BY <2>2 DEF IInv, ClaimsHold
  <2>3. QED
    BY <1>3, <1>4, <2>1, <2>2, FlusherWorks DEF Unbuffers
<1>5. ASSUME NEW w \in Worker, NEW e \in Event, Emits(w, e)
      PROVE  ClaimsAccounted' /\ NoneStranded'
  <2>1. CASE Initialized
    <3>1. ASSUME e \in log \cup pending PROVE Claimed(e)
      BY <3>1 DEF IInv, ClaimsHold
    <3>2. QED
      BY <1>3, <1>5, <2>1, <3>1 DEF Emits, BufferSet
  <2>2. CASE ~Initialized
    <3>1. /\ UNCHANGED <<phase, seen, worker, pending, log, published, lost>> /\ phase # "ready"
          /\ made' = made \cup {e} /\ buffer' = Append(buffer, e) /\ buffer \in Seq(Event)
      BY <1>1, <1>5, <2>2 DEF Emits, Initialized, TypeOK
    <3>2. BufferSet' = BufferSet \cup {e}
      <4>1. /\ Len(Append(buffer, e)) = Len(buffer) + 1 /\ Len(buffer) \in Nat
            /\ \A j \in 1..Len(buffer) : Append(buffer, e)[j] = buffer[j]
            /\ Append(buffer, e)[Len(buffer) + 1] = e
        BY <3>1
      <4>2. \A j \in 1..(Len(buffer) + 1) : j \in 1..Len(buffer) \/ j = Len(buffer) + 1
        BY <4>1
      <4>3. /\ 1..Len(buffer) \subseteq 1..(Len(buffer) + 1)
            /\ Len(buffer) + 1 \in 1..(Len(buffer) + 1)
        BY <4>1
      <4>4. QED
        BY <3>1, <4>1, <4>2, <4>3 DEF BufferSet
    <3>3. Accounted \subseteq Accounted' /\ e \in Accounted'
      BY <3>1, <3>2 DEF Accounted, Held, Waiting
    <3>4. QED
      BY <1>1, <3>1, <3>3, AccountsKept
  <2>3. QED
    BY <2>1, <2>2
<1>6. CASE Unbuffered
  <2>1. /\ UNCHANGED <<buffer, seen, worker, pending, log, made, published, lost>>
        /\ BufferSet = {}
    BY <1>6 DEF Unbuffered, BufferSet
  <2>2. Accounted \subseteq Accounted'
    BY <2>1 DEF Accounted, Held, Waiting
  <2>3. QED
    BY <1>1, <2>1, <2>2, AccountsKept
<1>7. ASSUME NEW w \in Worker, Writes(w) \/ Flushes(w)
      PROVE  ClaimsAccounted' /\ NoneStranded'
  <2>1. /\ UNCHANGED <<phase, buffer, seen, made, published, lost>>
        /\ worker[w] # Free
        /\ \/ worker' = [worker EXCEPT ![w].pc = "flushing"]
           \/ worker' = [worker EXCEPT ![w].pc = "publishing"]
        /\ log' \cup pending' \subseteq log \cup pending \cup {worker[w].ev}
    BY <1>7 DEF Writes, Flushes, Free
  <2>2. PICK new : /\ worker' = [worker EXCEPT ![w] = new]
                   /\ new # Free /\ new.ev = worker[w].ev
    <3>1. worker[w] \in [pc : {"writing", "flushing", "publishing"}, ev : Event]
      BY <1>1, <2>1 DEF TypeOK
    <3>2. ASSUME NEW pc
          PROVE  /\ [worker[w] EXCEPT !.pc = pc] # Free
                 /\ [worker[w] EXCEPT !.pc = pc].ev = worker[w].ev
      BY <3>1 DEF Free
    <3>3. QED
      BY <2>1, <3>2
  <2>3. Held \subseteq Held' /\ worker[w].ev \in Held
    BY <1>1, <2>1, <2>2, HeldMoves DEF Held
  <2>4. Accounted \subseteq Accounted'
    BY <2>1, <2>3 DEF Accounted, Waiting, BufferSet
  <2>5. worker[w].ev \in Accounted
    BY <2>3 DEF Accounted
  <2>6. QED
    BY <1>1, <2>1, <2>4, <2>5, AccountsKept
<1>8. ASSUME NEW w \in Worker, Publishes(w) \/ AppendFails(w)
      PROVE  ClaimsAccounted' /\ NoneStranded'
  <2>1. /\ UNCHANGED <<buffer, seen, pending, made>> /\ log' = log
        /\ worker' = [worker EXCEPT ![w] = Free]
        /\ published \subseteq published' /\ lost \subseteq lost'
        /\ worker[w].ev \in published' \cup lost'
        /\ phase' = phase \/ (phase' = "ready" /\ BufferSet \subseteq lost')
    BY <1>8 DEF Publishes, AppendFails
  <2>2. \A e \in Held : e \in Held' \/ e = worker[w].ev
    BY <1>1, <2>1, HeldMoves
  <2>3. Accounted \subseteq Accounted'
    BY <2>1, <2>2 DEF Accounted, Waiting, BufferSet
  <2>4. QED
    BY <1>1, <2>1, <2>3, AccountsKept
<1>9. CASE Rebuilds
  <2> DEFINE cut == {w \in Worker : worker[w].pc \in {"writing", "flushing"}}
  <2>1. /\ worker' = [w \in Worker |-> IF w \in cut THEN Free ELSE worker[w]]
        /\ lost' = lost \cup BufferSet \cup {worker[w].ev : w \in cut}
        /\ UNCHANGED <<made, published>>
        /\ log' \subseteq log \cup pending /\ pending' = {} /\ seen' = Seeded(log')
    BY <1>9 DEF Rebuilds
  <2>2. \A e \in Held : e \in Held' \/ e \in lost'
    BY <2>1 DEF Held
  <2>3. Accounted \subseteq Accounted'
    BY <2>1, <2>2 DEF Accounted, Waiting
  <2>4. \A k \in Nested : seen'[k] # "none" => <<k, seen'[k]>> \in log'
    BY <2>1 DEF Seeded
  <2>5. QED
    BY <1>1, <2>1, <2>3, <2>4, AccountsKept
<1>10. ASSUME NEW s \in Subscriber, Subscribes(s) \/ Unsubscribes(s)
       PROVE  ClaimsAccounted' /\ NoneStranded'
  <2>1. UNCHANGED <<phase, buffer, seen, worker, pending, log, made, published, lost>>
    BY <1>10 DEF Subscribes, Unsubscribes
  <2>2. Accounted' = Accounted
    BY <2>1 DEF Accounted, Held, Waiting, BufferSet
  <2>3. QED
    BY <1>1, <2>1, <2>2, AccountsKept
<1>11. CASE UNCHANGED vars
  <2>1. UNCHANGED <<phase, buffer, seen, worker, pending, log, made, published, lost>>
    BY <1>11 DEF vars
  <2>2. Accounted' = Accounted
    BY <2>1 DEF Accounted, Held, Waiting, BufferSet
  <2>3. QED
    BY <1>1, <2>1, <2>2, AccountsKept
<1>12. QED
  BY <1>2, <1>4, <1>5, <1>6, <1>7, <1>8, <1>9, <1>10, <1>11 DEF Next

\* Whatever is handed to the pipeline has someone to bring it further.
THEOREM Accounting == Spec => []NoneStranded
<1>1. Init => ClaimsAccounted /\ NoneStranded
  BY DEF Init, ClaimsAccounted, NoneStranded, Accounted
<1>2. QED
  BY <1>1, Invariance, AccountsStep, PTL DEF Spec

=============================================================================

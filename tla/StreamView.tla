----------------------------- MODULE StreamView -----------------------------
(***************************************************************************)
(* A tab's transcript of the session it addresses (EventsContext, its      *)
(* reducer, SSEConnectionManager).  A connection sends the log as it is on *)
(* disk between two marks, then what is broadcast from there on; the tab   *)
(* queues a replay and drains it in slices, batches live events, and       *)
(* replaces the transcript by the replay of every new connection.          *)
(*                                                                         *)
(* The tab runs one handler at a time: a message of the stream, a message  *)
(* of its own port, a timer, or a caller of reconnectSSE and the others.   *)
(* The url effect is taken with the caller that changed the address: the   *)
(* connection reopened in between is taken to be closed before it answers. *)
(*                                                                         *)
(* MaxLog and MaxMoves bound the events written, and the connections       *)
(* opened by a caller, given up by one or lost once they were open.        *)
(***************************************************************************)
EXTENDS Integers, Sequences, FiniteSetsExt

CONSTANTS
    Session,
    Kind,          \* of event, among human, assistant, context, start, boundary, result
    SliceSize,     \* REPLAY_DRAIN_SLICE_SIZE
    MaxAttempts,   \* RECONNECT_MAX_ATTEMPTS
    MaxLog,
    MaxMoves

None == "none"

ASSUME StreamAssumption ==
    /\ None \notin Session
    /\ Kind \subseteq {"human", "assistant", "context", "start", "boundary", "result"}
    /\ SliceSize \in Nat \ {0} /\ MaxAttempts \in Nat
    /\ MaxLog \in Nat /\ MaxMoves \in Nat

VARIABLES
    log,           \* per session, the kinds of the events on disk
    sent,          \* how many of them have been broadcast
    address,       \* the session the tab streams
    link,          \* its connection: status, what it attached with, messages received
    attempt,       \* reconnects tried since it was last open
    moves,         \* what MaxMoves bounds, so far
    isReplaying,
    replayServerDone,
    replayBuffer,
    replayScheduled,
    posted,        \* port messages under way
    eventBuffer,
    batchTimeout,  \* whether the flush of eventBuffer is due
    events,        \* the transcript, in the order it was read
    grouping,      \* its turns, and whether a compaction run is open
    replayReplace  \* the mark: the next slice replaces the transcript

server == <<log, sent>>
connection == <<address, link, attempt, moves>>
queues == <<isReplaying, replayServerDone, replayBuffer, replayScheduled, posted,
            eventBuffer, batchTimeout>>
transcript == <<events, grouping, replayReplace>>
vars == <<server, connection, queues, transcript>>

KindIn(kinds, e) == kinds[e[1]][e[2]]
KindOf(e) == KindIn(log, e)

-----------------------------------------------------------------------------
(* appendTurns: a compaction run waits for the event that tells its turn;  *)
(* what is left of it at the end of a batch joins the current turn.        *)

NoGrouping == [turns |-> <<>>, open |-> FALSE]

Placed(g) ==
    IF g.pending = <<>> THEN g
    ELSE [turns |-> [g.turns EXCEPT ![Len(g.turns)] = @ \o g.pending],
          open |-> FALSE, pending |-> <<>>]

AppendTurn(kinds, g, e) ==
    LET kind == KindIn(kinds, e)
    IN  CASE kind = "result" -> g
          [] kind = "human" -> [g EXCEPT !.turns = Append(@, <<e>>)]
          [] kind \in {"start", "boundary"} \/ (kind = "context" /\ g.open) ->
                [g EXCEPT !.pending = Append(@, e), !.open = @ \/ kind = "start"]
          [] OTHER -> LET p == Placed(g)
                      IN  [p EXCEPT !.turns[Len(p.turns)] = Append(@, e)]

\* The grouping after each of the first n events of a batch.
AppendEach(kinds, g, batch) ==
    LET after[n \in 0..Len(batch)] ==
            IF n = 0 THEN g ELSE AppendTurn(kinds, after[n - 1], batch[n])
    IN  after

Unplaced(g) == [turns |-> g.turns, open |-> g.open, pending |-> <<>>]

AppendTurns(kinds, g, batch) ==
    LET whole == Placed(AppendEach(kinds, Unplaced(g), batch)[Len(batch)])
    IN  [turns |-> whole.turns, open |-> whole.open]

-----------------------------------------------------------------------------
(* replaySliceEnd: how many of the queued events the next slice takes.  A  *)
(* slice ends outside a compaction run, or with the event that closes it.  *)

OpensCompactionRun(e) == KindOf(e) \in {"start", "boundary"}
ClosesCompactionRun(e) == KindOf(e) = "assistant"

Least(a, b) == IF a <= b THEN a ELSE b

\* The openers among the first n that no closer among them follows.
OpenRun(buffer, n) ==
    {i \in 1..n : /\ OpensCompactionRun(buffer[i])
                  /\ \A j \in (i + 1)..n : ~ClosesCompactionRun(buffer[j])}

\* Slip: a slice ends where its size says.
SliceAnywhere(buffer, serverDone) == Least(SliceSize, Len(buffer))

\* Slip: a run the session ends in is held back with the server done, too.
SliceHoldsTail(buffer, serverDone) ==
    LET desired == Least(SliceSize, Len(buffer))
        opened == OpenRun(buffer, desired)
        closers == {i \in (desired + 1)..Len(buffer) : ClosesCompactionRun(buffer[i])}
    IN  CASE opened = {} -> desired
          [] opened # {} /\ closers # {} -> Min(closers)
          [] OTHER -> Min(opened) - 1

ReplaySliceEnd(buffer, serverDone) ==
    LET desired == Least(SliceSize, Len(buffer))
        opened == OpenRun(buffer, desired)
        closers == {i \in (desired + 1)..Len(buffer) : ClosesCompactionRun(buffer[i])}
    IN  CASE opened = {} -> desired
          [] opened # {} /\ closers # {} -> Min(closers)
          [] opened # {} /\ closers = {} /\ serverDone -> Len(buffer)
          [] OTHER -> Min(opened) - 1

-----------------------------------------------------------------------------
(* What a connection sends: attached when the log had snap events on disk  *)
(* and base of them had been broadcast, it sends a mark, the snap events,  *)
(* another mark, and what is broadcast after the base.                     *)

NoLink == [status |-> "none", snap |-> 0, base |-> 0, got |-> 0]

Span(s, from, to) == [i \in 1..(to - from) |-> <<s, from + i>>]

\* The events among the messages received.
Streamed(s, l) ==
    Span(s, 0, Least(l.got - 1, l.snap)) \o Span(s, l.base, l.base + l.got - l.snap - 2)

Available == link.snap + 2 + (sent[address] - link.base)

Init ==
    /\ log = [s \in Session |-> <<>>]
    /\ sent = [s \in Session |-> 0]
    /\ address = None /\ link = NoLink /\ attempt = 0 /\ moves = 0
    /\ isReplaying = FALSE /\ replayServerDone = FALSE
    /\ replayBuffer = <<>> /\ eventBuffer = <<>>
    /\ replayScheduled = FALSE /\ posted = 0 /\ batchTimeout = FALSE
    /\ events = <<>> /\ grouping = NoGrouping /\ replayReplace = FALSE

-----------------------------------------------------------------------------
(* The session: an event reaches the disk, then is broadcast               *)
(* (EventPipeline._process_event).  A session opens with a user's message. *)

Written == MapThenSumSet(LAMBDA s : Len(log[s]), Session)

Persists(s, kind) ==
    /\ sent[s] = Len(log[s])
    /\ Written < MaxLog
    /\ log[s] = <<>> => kind = "human"
    /\ log' = [log EXCEPT ![s] = Append(@, kind)]
    /\ UNCHANGED <<sent, connection, queues, transcript>>

Broadcasts(s) ==
    /\ sent[s] < Len(log[s])
    /\ sent' = [sent EXCEPT ![s] = @ + 1]
    /\ UNCHANGED <<log, connection, queues, transcript>>

-----------------------------------------------------------------------------
(* SSEConnectionManager                                                    *)

Linked(status) == [link EXCEPT !.status = status]

\* The server attaches the connection, and it opens: the replay is what is
\* on disk, read without a yield after the queue was registered.
Connects ==
    /\ link.status = "connecting"
    /\ link' = [status |-> "connected", snap |-> Len(log[address]),
                base |-> sent[address], got |-> 0]
    /\ attempt' = 0
    /\ UNCHANGED <<server, address, moves, queues, transcript>>

\* Slip: an attempt too many.
FailsOnceMore ==
    /\ \/ link.status = "connecting" /\ moves' = moves
       \/ link.status = "connected" /\ moves < MaxMoves /\ moves' = moves + 1
    /\ IF attempt > MaxAttempts
       THEN link' = Linked("error") /\ attempt' = attempt
       ELSE link' = Linked("reconnecting") /\ attempt' = attempt + 1
    /\ UNCHANGED <<server, address, queues, transcript>>

\* onerror: another attempt, until they are exhausted.
Fails ==
    /\ \/ link.status = "connecting" /\ moves' = moves
       \/ link.status = "connected" /\ moves < MaxMoves /\ moves' = moves + 1
    /\ IF attempt >= MaxAttempts
       THEN link' = Linked("error") /\ attempt' = attempt
       ELSE link' = Linked("reconnecting") /\ attempt' = attempt + 1
    /\ UNCHANGED <<server, address, queues, transcript>>

\* The reconnect timer, set a second or more ago: a flush due 50 ms after an
\* event of the connection lost has happened.
Retries ==
    /\ link.status = "reconnecting"
    /\ ~batchTimeout
    /\ link' = Linked("connecting")
    /\ UNCHANGED <<server, address, attempt, moves, queues, transcript>>

-----------------------------------------------------------------------------
(* The callers: reconnectSSE to the session addressed (a reload, a         *)
(* recovery) or, in one block with setAddress, to another; disconnectSSE;  *)
(* closeSSE.                                                               *)

\* Slip: the flush is cancelled and its events are kept.
ResetKeepsBatch ==
    /\ isReplaying' = FALSE /\ replayServerDone' = FALSE
    /\ replayBuffer' = <<>> /\ eventBuffer' = eventBuffer
    /\ replayScheduled' = FALSE /\ batchTimeout' = FALSE
    /\ posted' = posted

ResetEventBuffers ==
    /\ isReplaying' = FALSE /\ replayServerDone' = FALSE
    /\ replayBuffer' = <<>> /\ eventBuffer' = <<>>
    /\ replayScheduled' = FALSE /\ batchTimeout' = FALSE
    /\ posted' = posted

\* REPLAY_ABANDONED: the transcript stays until the new replay is there.
Reconnects(s) ==
    /\ moves < MaxMoves /\ moves' = moves + 1
    /\ address' = s
    /\ link' = [NoLink EXCEPT !.status = "connecting"]
    /\ attempt' = 0
    /\ ResetEventBuffers
    /\ replayReplace' = TRUE
    /\ UNCHANGED <<server, events, grouping>>

\* CLEAR_EVENTS.
ClearEvents ==
    /\ events' = <<>> /\ grouping' = NoGrouping /\ replayReplace' = FALSE
    /\ ResetEventBuffers

Disconnects ==
    /\ address # None
    /\ moves < MaxMoves /\ moves' = moves + 1
    /\ link' = [NoLink EXCEPT !.status = "disconnected"]
    /\ ClearEvents
    /\ UNCHANGED <<server, address, attempt>>

Closes ==
    /\ address # None
    /\ moves < MaxMoves /\ moves' = moves + 1
    /\ address' = None /\ link' = NoLink
    /\ ClearEvents
    /\ UNCHANGED <<server, attempt>>

-----------------------------------------------------------------------------
(* onMessage                                                               *)

Receives ==
    /\ link.status = "connected"
    /\ link.got < Available
    /\ link' = [link EXCEPT !.got = @ + 1]
    /\ UNCHANGED <<server, address, attempt, moves>>

\* The event in the message received.
Event == <<address, IF link.got <= link.snap THEN link.got
                    ELSE link.base + link.got - link.snap - 1>>

\* scheduleReplayDrain: one port message at a time.
ScheduleReplayDrain(already) ==
    /\ replayScheduled' = TRUE
    /\ posted' = IF replayScheduled THEN already ELSE already + 1

ReplayStarted ==
    /\ Receives /\ link.got = 0
    /\ isReplaying' = TRUE /\ replayServerDone' = FALSE
    /\ replayBuffer' = <<>>
    /\ replayReplace' = TRUE
    /\ UNCHANGED <<replayScheduled, posted, eventBuffer, batchTimeout, events, grouping>>

\* Live events left in the batch go behind the replay.
ReplayEnded ==
    /\ Receives /\ link.got = link.snap + 1
    /\ replayServerDone' = TRUE
    /\ replayBuffer' = replayBuffer \o eventBuffer
    /\ eventBuffer' = <<>>
    /\ ScheduleReplayDrain(posted)
    /\ UNCHANGED <<isReplaying, batchTimeout, transcript>>

\* While a replay drains, live events queue behind it.
Queues ==
    /\ Receives /\ link.got \notin {0, link.snap + 1}
    /\ isReplaying
    /\ replayBuffer' = Append(replayBuffer, Event)
    /\ ScheduleReplayDrain(posted)
    /\ UNCHANGED <<isReplaying, replayServerDone, eventBuffer, batchTimeout, transcript>>

\* flushBatch onto a transcript, kept or replaced.
Folds(keep, batch) ==
    /\ events' = (IF keep THEN events ELSE <<>>) \o batch
    /\ grouping' = AppendTurns(log, IF keep THEN grouping ELSE NoGrouping, batch)

\* A live event waits for the batch, and the end of a turn flushes it.
Batches ==
    /\ Receives /\ link.got \notin {0, link.snap + 1}
    /\ ~isReplaying
    /\ IF KindOf(Event) = "result"
       THEN /\ Folds(TRUE, Append(eventBuffer, Event))
            /\ eventBuffer' = <<>> /\ batchTimeout' = FALSE
       ELSE /\ eventBuffer' = Append(eventBuffer, Event) /\ batchTimeout' = TRUE
            /\ UNCHANGED <<events, grouping>>
    /\ UNCHANGED <<isReplaying, replayServerDone, replayBuffer, replayScheduled, posted,
                   replayReplace>>

FlushesBatch ==
    /\ batchTimeout /\ batchTimeout' = FALSE
    /\ Folds(TRUE, eventBuffer)
    /\ eventBuffer' = <<>>
    /\ UNCHANGED <<server, connection, isReplaying, replayServerDone, replayBuffer,
                   replayScheduled, posted, replayReplace>>

-----------------------------------------------------------------------------
(* drainReplaySlice, on a port message: a reset may have come in between,  *)
(* and another message with it.                                            *)

\* REPLAY_SLICE: the first slice under the mark replaces the transcript.
ReplaySlice(batch) ==
    IF batch = <<>> THEN UNCHANGED transcript
    ELSE Folds(~replayReplace, batch) /\ replayReplace' = FALSE

\* ... and REPLAY_ENDED, when the queue has run out and the server is done:
\* an empty replay finds the mark still set.
ReplaySliceAndEnd(batch) ==
    IF batch = <<>> /\ replayReplace
    THEN events' = <<>> /\ grouping' = NoGrouping /\ replayReplace' = FALSE
    ELSE ReplaySlice(batch)

DrainsReplaySlice ==
    /\ posted > 0
    /\ \E take \in 0..Len(replayBuffer) :
        LET batch == SubSeq(replayBuffer, 1, take)
            rest == SubSeq(replayBuffer, take + 1, Len(replayBuffer))
            held == take = 0 /\ rest # <<>>
            ended == rest = <<>> /\ replayServerDone
        IN  /\ take = ReplaySliceEnd(replayBuffer, replayServerDone)
            /\ replayBuffer' = rest
            /\ IF rest # <<>> /\ ~held
               THEN replayScheduled' = TRUE /\ posted' = posted
               ELSE replayScheduled' = FALSE /\ posted' = posted - 1
            /\ isReplaying' = (isReplaying /\ ~ended)
            /\ IF ended THEN ReplaySliceAndEnd(batch) ELSE ReplaySlice(batch)
    /\ UNCHANGED <<server, connection, replayServerDone, eventBuffer, batchTimeout>>

-----------------------------------------------------------------------------
Next ==
    \/ \E s \in Session : \/ \E kind \in Kind : Persists(s, kind)
                          \/ Broadcasts(s) \/ Reconnects(s)
    \/ Connects \/ Fails \/ Retries \/ Disconnects \/ Closes
    \/ ReplayStarted \/ ReplayEnded \/ Queues \/ Batches
    \/ FlushesBatch \/ DrainsReplaySlice

Spec == Init /\ [][Next]_vars

\* Fairness: as long as there is a message to send or one to handle, one of
\* them is, which is enough with finitely many.  Nothing is asked of
\* connections, nor of callers.
Runs ==
    \/ \E s \in Session : Broadcasts(s)
    \/ ReplayStarted \/ ReplayEnded \/ Queues \/ Batches
    \/ FlushesBatch \/ DrainsReplaySlice
FairSpec == Spec /\ WF_vars(Runs)

-----------------------------------------------------------------------------
EventId == Session \X Nat

TypeOK ==
    /\ log \in [Session -> Seq(Kind)]
    /\ sent \in [Session -> Nat]
    /\ address \in Session \cup {None}
    /\ link \in [status : {"none", "connecting", "connected", "reconnecting",
                           "error", "disconnected"},
                 snap : Nat, base : Nat, got : Nat]
    /\ attempt \in 0..MaxAttempts /\ moves \in 0..MaxMoves
    /\ isReplaying \in BOOLEAN /\ replayServerDone \in BOOLEAN
    /\ replayBuffer \in Seq(EventId) /\ eventBuffer \in Seq(EventId)
    /\ replayScheduled \in BOOLEAN /\ posted \in Nat
    /\ batchTimeout \in BOOLEAN
    /\ events \in Seq(EventId)
    /\ replayReplace \in BOOLEAN

(* From the first mark of a connection on, what it has sent is there once, *)
(* in its order, and nothing else is: in the transcript, the replay queue  *)
(* and the batch, one behind the other; while the mark is set, nothing of  *)
(* it is in the transcript yet (onMessage, drainReplaySlice, the reset).   *)
TranscriptFollowsStream ==
    link.got > 0 =>
        (IF replayReplace THEN <<>> ELSE events) \o replayBuffer \o eventBuffer
            = Streamed(address, link)

(* However it is sliced, a replay is grouped into the turns it would have  *)
(* as one batch: no slice cuts a compaction run off from the turn that     *)
(* follows it (replaySliceEnd, appendTurns).                               *)
ReplayGroupsAsWhole ==
    link.got > 0 /\ ~replayReplace /\ Len(events) <= link.snap =>
        grouping.turns = AppendTurns(log, NoGrouping, events).turns

(* A tab whose connection holds has, in the end, everything broadcast in   *)
(* its transcript, and the replay has ended.                               *)
Shown == /\ link.status = "connected"
         /\ ~isReplaying /\ ~replayReplace
         /\ events = Streamed(address, [link EXCEPT !.got = Available])
TranscriptCatchesUp == <>[](link.status = "connected") => <>[]Shown

=============================================================================

-------------------------- MODULE SessionRegistry --------------------------
(***************************************************************************)
(* The keyed sessions sharing one container: SessionRegistry of the        *)
(* container API (claudebox_container_api/session.py), and of each         *)
(* SessionService only what the registry turns on - its turn-complete      *)
(* disposition and its connect failure.                                    *)
(*                                                                         *)
(* The registry's awaits are the lock, a service's stop and the settling   *)
(* of a disposition; SessionService.start never yields.  Stops take no     *)
(* lock, so they interleave with a start that holds it.                    *)
(***************************************************************************)
EXTENDS Naturals, FiniteSets

CONSTANTS
    Primaries,  \* session ids started with primary=True
    Members,    \* session ids started with primary=False
    Request,    \* HTTP requests in flight: the bound on concurrency
    None

Session == Primaries \cup Members

ASSUME NoneIsNoSession == None \notin Session \cup Request
ASSUME NoneIsNoSet == \A D \in SUBSET Session : None # D
\* A primary start is for a newly minted id, or a resume's first in a new
\* container.
ASSUME PrimariesAreNoMembers == Primaries \cap Members = {}

VARIABLES
    entries,   \* _entries: id -> the running service, or None
    primary,   \* _primary_id
    lock,      \* the request holding _lock, or None
    req,       \* start and stop requests
    due,       \* ids whose turn-complete task is created and has not run
    ending,    \* ids a turn-complete task is stopping
    promoted,  \* ids whose record says is_promoted
    leaked,    \* ids of running services that no entry refers to
    down       \* stop_all: ids it has still to stop, or None before it

vars == <<entries, primary, lock, req, due, ending, promoted, leaked, down>>

Service == [auto : BOOLEAN,    \* on_turn_complete is wired
            sched : BOOLEAN,   \* _turn_complete_scheduled
            failed : BOOLEAN]  \* connect_failed
Free == [pc |-> "idle", sid |-> None, primary |-> FALSE]

ASSUME NoneIsNoService == None \notin Service

Init ==
    /\ entries = [s \in Session |-> None]
    /\ primary = None
    /\ lock = None
    /\ req = [r \in Request |-> Free]
    /\ due = {} /\ ending = {} /\ promoted = {} /\ leaked = {}
    /\ down = None

Has(s) == entries[s] # None
Without(s) == [entries EXCEPT ![s] = None]

Unseat(s) == IF primary = s THEN None ELSE primary

-----------------------------------------------------------------------------
(* start                                                                   *)

\* The primary start that finds a primary running stops it first.
\* Slip: it does so only for another session's.
ReplacesOther(r) ==
    req[r].primary /\ primary # None /\ primary # req[r].sid /\ Has(primary)
Replaces(r) == req[r].primary /\ primary # None /\ Has(primary)

\* Whether a service stops itself at the end of its turn.
\* Slip: the record of the promotion is not read.
DisposedUnread(s, p) == ~p
Disposed(s, p) == ~p /\ s \notin promoted

\* A member joins a container that has its primary; see SessionService.fork.
StartArrives(r, s, p) ==
    /\ down = None
    /\ req[r].pc = "idle"
    /\ IF p THEN s \in Primaries ELSE s \in Members /\ primary # None
    /\ req' = [req EXCEPT ![r] = [pc |-> "waiting", sid |-> s, primary |-> p]]
    /\ UNCHANGED <<entries, primary, lock, due, ending, promoted, leaked, down>>

\* The rest of start, once nothing more is awaited: the service is built over
\* `kept' and registered, or its start raises and nothing is.
Builds(r, kept, seat) ==
    LET s == req[r].sid
        p == req[r].primary
    IN  /\ \/ /\ entries' = [kept EXCEPT ![s] =
                               [auto |-> Disposed(s, p), sched |-> FALSE, failed |-> FALSE]]
              /\ primary' = IF p THEN s ELSE seat
              /\ leaked' = IF kept[s] # None THEN leaked \cup {s} ELSE leaked
           \/ entries' = kept /\ primary' = seat /\ leaked' = leaked
        /\ lock' = None
        /\ req' = [req EXCEPT ![r] = Free]

\* A member start that finds its id running hands back that entry.
Returns(r) ==
    /\ lock' = None
    /\ req' = [req EXCEPT ![r] = Free]
    /\ UNCHANGED <<entries, primary, leaked>>

StartLocks(r) ==
    /\ req[r].pc = "waiting"
    /\ lock = None
    /\ LET s == req[r].sid
           joins == ~req[r].primary /\ Has(s)
       IN  \/ /\ joins /\ entries[s].sched
              /\ lock' = r
              /\ req' = [req EXCEPT ![r].pc = "settling"]
              /\ UNCHANGED <<entries, primary, leaked>>
           \/ joins /\ ~entries[s].sched /\ Returns(r)
           \/ ~req[r].primary /\ ~Has(s) /\ Builds(r, entries, primary)
           \/ /\ Replaces(r)
              /\ entries' = Without(primary)
              /\ lock' = r
              /\ req' = [req EXCEPT ![r].pc = "replacing"]
              /\ UNCHANGED <<primary, leaked>>
           \/ req[r].primary /\ ~Replaces(r) /\ Builds(r, entries, None)
    /\ UNCHANGED <<due, ending, promoted, down>>

\* The disposition in flight is over; the entry may be gone with it.
StartSettles(r) ==
    /\ req[r].pc = "settling"
    /\ req[r].sid \notin due \cup ending
    /\ IF Has(req[r].sid) THEN Returns(r) ELSE Builds(r, entries, primary)
    /\ UNCHANGED <<due, ending, promoted, down>>

\* Slip: a start given up here keeps the lock.
StartReplacesLocked(r) ==
    /\ req[r].pc = "replacing"
    /\ req' = [req EXCEPT ![r] = Free]
    /\ UNCHANGED <<entries, primary, lock, due, ending, promoted, leaked, down>>

\* The replaced primary has stopped.
StartReplaces(r) ==
    /\ req[r].pc = "replacing"
    /\ Builds(r, entries, None)
    /\ UNCHANGED <<due, ending, promoted, down>>

-----------------------------------------------------------------------------
(* stop_session, promote_session, and a member's own turn-complete         *)

\* Slip: the primary can be stopped too.
StoppablePrimary(s) == Has(s)
Stoppable(s) == Has(s) /\ s # primary

StopArrives(r, s) ==
    /\ down = None
    /\ req[r].pc = "idle"
    /\ Stoppable(s)
    /\ entries' = Without(s)
    /\ req' = [req EXCEPT ![r] = [pc |-> "stopping", sid |-> s, primary |-> FALSE]]
    /\ UNCHANGED <<primary, lock, due, ending, promoted, leaked, down>>

\* _stop_entry after svc.stop().
StopEnds(r) ==
    /\ req[r].pc = "stopping"
    /\ primary' = Unseat(req[r].sid)
    /\ req' = [req EXCEPT ![r] = Free]
    /\ UNCHANGED <<entries, lock, due, ending, promoted, leaked, down>>

\* A result, an error or a lost stream ends the turn of a service.
TurnEnds(s) ==
    /\ Has(s) /\ entries[s].auto /\ ~entries[s].sched
    /\ s \notin due \cup ending
    /\ entries' = [entries EXCEPT ![s].sched = TRUE]
    /\ due' = due \cup {s}
    /\ UNCHANGED <<primary, lock, req, ending, promoted, leaked, down>>

\* Slip: the stop waits for the start lock.
DueRunsLocked(s) ==
    /\ s \in due /\ lock = None
    /\ due' = due \ {s}
    /\ IF Stoppable(s)
       THEN entries' = Without(s) /\ ending' = ending \cup {s}
       ELSE UNCHANGED <<entries, ending>>
    /\ UNCHANGED <<primary, lock, req, promoted, leaked, down>>

\* The task stops the id, not the service it was created by; an id that is
\* gone or primary is refused.
DueRuns(s) ==
    /\ s \in due
    /\ due' = due \ {s}
    /\ IF Stoppable(s)
       THEN entries' = Without(s) /\ ending' = ending \cup {s}
       ELSE UNCHANGED <<entries, ending>>
    /\ UNCHANGED <<primary, lock, req, promoted, leaked, down>>

EndingEnds(s) ==
    /\ s \in ending
    /\ ending' = ending \ {s}
    /\ primary' = Unseat(s)
    /\ UNCHANGED <<entries, lock, req, due, promoted, leaked, down>>

\* The record first, then the running entry.
Promote(s) ==
    /\ down = None
    /\ s \in Members
    /\ promoted' = promoted \cup {s}
    /\ entries' = IF Has(s) THEN [entries EXCEPT ![s].auto = FALSE] ELSE entries
    /\ UNCHANGED <<primary, lock, req, due, ending, leaked, down>>

ConnectFails(s) ==
    /\ Has(s) /\ ~entries[s].failed
    /\ entries' = [entries EXCEPT ![s].failed = TRUE]
    /\ UNCHANGED <<primary, lock, req, due, ending, promoted, leaked, down>>

-----------------------------------------------------------------------------
(* stop_all, once the server has no request left                           *)

ShutdownBegins ==
    /\ down = None
    /\ \A r \in Request : req[r].pc = "idle"
    /\ down' = {s \in Session : Has(s)}
    /\ UNCHANGED <<entries, primary, lock, req, due, ending, promoted, leaked>>

ShutdownStops(s) ==
    /\ down # None
    /\ s \in down
    /\ down' = down \ {s}
    /\ entries' = Without(s)
    /\ primary' = IF down' = {} THEN None ELSE Unseat(s)
    /\ UNCHANGED <<lock, req, due, ending, promoted, leaked>>

Next ==
    \/ \E r \in Request, s \in Session, p \in BOOLEAN : StartArrives(r, s, p)
    \/ \E r \in Request : StartLocks(r) \/ StartSettles(r) \/ StartReplaces(r) \/ StopEnds(r)
    \/ \E r \in Request, s \in Session : StopArrives(r, s)
    \/ \E s \in Session : TurnEnds(s) \/ DueRuns(s) \/ EndingEnds(s) \/ Promote(s)
                          \/ ConnectFails(s) \/ ShutdownStops(s)
    \/ ShutdownBegins

Spec == Init /\ [][Next]_vars

\* Fairness: every task the loop holds is run on, and a service's stop ends.
\* The lock is asyncio's, which wakes its waiters in turn, hence strong.
FairSpec ==
    /\ Spec
    /\ \A r \in Request : /\ SF_vars(StartLocks(r))
                          /\ WF_vars(StartSettles(r)) /\ WF_vars(StartReplaces(r))
                          /\ WF_vars(StopEnds(r))
    /\ \A s \in Session : WF_vars(DueRuns(s)) /\ WF_vars(EndingEnds(s))

-----------------------------------------------------------------------------
(* Type invariant, with the lock held by exactly the start that is past it. *)
TypeOK ==
    /\ entries \in [Session -> Service \cup {None}]
    /\ primary \in Session \cup {None}
    /\ lock \in Request \cup {None}
    /\ req \in [Request -> [pc : {"idle", "waiting", "settling", "replacing", "stopping"},
                            sid : Session \cup {None}, primary : BOOLEAN]]
    /\ due \subseteq Session /\ ending \subseteq Session
    /\ promoted \subseteq Session /\ leaked \subseteq Session
    /\ down \in (SUBSET Session) \cup {None}
    /\ \A r \in Request : req[r].pc \in {"settling", "replacing"} <=> lock = r

(* No service runs on without an entry: replacing the primary stops it     *)
(* first, and a member start never builds over a running id (start).       *)
NoServiceLeaked == leaked = {}

(* Only a primary start or the shutdown unseats the primary: a session     *)
(* stop or an auto-stop that ends late does not (_stop_entry after its     *)
(* await).                                                                 *)
OnlyStartsUnseat ==
    [][primary # None /\ primary' = None
        => down # None \/ \E r \in Request : StartLocks(r) \/ StartReplaces(r)]_vars

(* Whenever no start is replacing it, the primary's id resolves to a       *)
(* running entry (get, and /api/health's session_id).                      *)
PrimaryResolves ==
    primary # None /\ down = None /\ (\A r \in Request : req[r].pc # "replacing")
        => Has(primary)

(* A promoted member is not stopped by an answer that came after its       *)
(* promotion, whether it ran when promoted or joined later (the record).   *)
PromotionHolds ==
    \A s \in promoted : Has(s) => ~entries[s].auto

(* Every start is answered: the one that settles a disposition under the   *)
(* lock never waits on a stop that needs the lock.                         *)
StartsAreAnswered ==
    \A r \in Request : req[r].pc \in {"waiting", "settling", "replacing"} ~> req[r].pc = "idle"

=============================================================================

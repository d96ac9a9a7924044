------------------------- MODULE KeyedSingleFlight -------------------------
(***************************************************************************)
(* KeyedSingleFlight (claudebox/core/concurrency.py): concurrent calls for *)
(* one key share one job, which is cancelled once every caller has left.   *)
(* Session resumes run under it, so what is shared or cancelled here is a  *)
(* container spawn with its cleanup.                                       *)
(*                                                                         *)
(* A task that finishes runs its done callback in a later turn of the      *)
(* loop, and a cancelled task goes on until it has unwound: both windows   *)
(* are steps of their own.                                                 *)
(***************************************************************************)
EXTENDS Naturals, FiniteSets

CONSTANTS
    Key,
    Caller,
    Job,    \* the jobs ever started: the bound on a run's length
    None

ASSUME NoneIsNoJob == None \notin Job \cup Key
ASSUME CallersFinite == IsFiniteSet(Caller)

VARIABLES
    flights,   \* _flights
    job,       \* every task, and what its _Flight counts
    waiting    \* the job each caller awaits, or None

vars == <<flights, job, waiting>>

Unborn == [state |-> "unborn", key |-> None, callers |-> 0, hooked |-> FALSE]

Init ==
    /\ flights = [k \in Key |-> None]
    /\ job = [j \in Job |-> Unborn]
    /\ waiting = [c \in Caller |-> None]

Settled(j) == job[j].state \in {"done", "cancelled"}

\* Slip: whichever flight the key holds by then.
ReleasedByKey(j) == [flights EXCEPT ![job[j].key] = None]

\* _release: only while the key is still this flight's.
Released(j) == [k \in Key |-> IF flights[k] = j THEN None ELSE flights[k]]

\* run: start a job for the key, or join the one registered.
Starts(c, k, j) ==
    /\ waiting[c] = None
    /\ flights[k] = None
    /\ job[j].state = "unborn"
    /\ job' = [job EXCEPT ![j] = [state |-> "running", key |-> k, callers |-> 1,
                                  hooked |-> TRUE]]
    /\ flights' = [flights EXCEPT ![k] = j]
    /\ waiting' = [waiting EXCEPT ![c] = j]

\* Slip: the joiner is not counted.
JoinsUncounted(c, k) ==
    /\ waiting[c] = None
    /\ flights[k] # None
    /\ waiting' = [waiting EXCEPT ![c] = flights[k]]
    /\ UNCHANGED <<flights, job>>

Joins(c, k) ==
    /\ waiting[c] = None
    /\ flights[k] # None
    /\ job' = [job EXCEPT ![flights[k]].callers = @ + 1]
    /\ waiting' = [waiting EXCEPT ![c] = flights[k]]
    /\ UNCHANGED flights

\* Whether a caller that leaves is the last.  Slip: one too early.
LastButOne(c) == job[waiting[c]].callers <= 2
Last(c) == job[waiting[c]].callers = 1

\* The finally of run.  A caller comes back with the job's result ...
Drops(c) ==
    /\ job' = [job EXCEPT ![waiting[c]].callers = @ - 1]
    /\ waiting' = [waiting EXCEPT ![c] = None]
    /\ UNCHANGED flights

\* Slip: a caller is woken through the registry.
ReturnsRegistered(c) ==
    /\ waiting[c] # None
    /\ Settled(waiting[c]) /\ flights[job[waiting[c]].key] = waiting[c]
    /\ Drops(c)

Returns(c) ==
    /\ waiting[c] # None
    /\ Settled(waiting[c])
    /\ Drops(c)

\* ... or is cancelled while others still wait for it.
Leaves(c) ==
    /\ waiting[c] # None
    /\ ~Settled(waiting[c])
    /\ ~Last(c)
    /\ Drops(c)

\* The last caller of a job still under way is itself cancelled: the key is
\* free at once and the job is told to unwind.
Abandons(c) ==
    /\ waiting[c] # None
    /\ ~Settled(waiting[c])
    /\ Last(c)
    /\ job' = [job EXCEPT ![waiting[c]].callers = 0, ![waiting[c]].state = "cancelling"]
    /\ flights' = Released(waiting[c])
    /\ waiting' = [waiting EXCEPT ![c] = None]

\* The job returns or raises; cancelled, it may also still get to its end.
Finishes(j) ==
    /\ job[j].state \in {"running", "cancelling"}
    /\ \E end \in (IF job[j].state = "running" THEN {"done"} ELSE {"done", "cancelled"}) :
        job' = [job EXCEPT ![j].state = end]
    /\ UNCHANGED <<flights, waiting>>

\* The done callback.
Releases(j) ==
    /\ Settled(j)
    /\ job[j].hooked
    /\ flights' = Released(j)
    /\ job' = [job EXCEPT ![j].hooked = FALSE]
    /\ UNCHANGED waiting

Next ==
    \/ \E c \in Caller, k \in Key, j \in Job : Starts(c, k, j)
    \/ \E c \in Caller, k \in Key : Joins(c, k)
    \/ \E c \in Caller : Returns(c) \/ Leaves(c) \/ Abandons(c)
    \/ \E j \in Job : Finishes(j) \/ Releases(j)

Spec == Init /\ [][Next]_vars

\* Fairness: the loop runs callbacks and wakes callers, and jobs end.
FairSpec ==
    /\ Spec
    /\ \A j \in Job : WF_vars(Finishes(j)) /\ WF_vars(Releases(j))
    /\ \A c \in Caller : WF_vars(Returns(c))

-----------------------------------------------------------------------------
TypeOK ==
    /\ flights \in [Key -> Job \cup {None}]
    /\ job \in [Job -> [state : {"unborn", "running", "cancelling", "done", "cancelled"},
                        key : Key \cup {None}, callers : Nat, hooked : BOOLEAN]]
    /\ waiting \in [Caller -> Job \cup {None}]

(* A key runs one job at a time, but for cancelled ones still unwinding:   *)
(* two callers of one key never each spawn (run, _release).                *)
OneRunPerKey ==
    \A i, j \in Job :
        /\ job[i].state = "running" /\ job[j].state = "running"
        /\ job[i].key = job[j].key
        => i = j

(* Nobody awaits a job that another caller's leaving cancelled.            *)
NoCallerCancelled ==
    \A c \in Caller :
        waiting[c] # None => job[waiting[c]].state \in {"running", "done"}

(* A job under way that was not cancelled has somebody waiting for it.     *)
RunsAreWanted ==
    \A j \in Job : job[j].state = "running" => \E c \in Caller : waiting[c] = j

(* Every caller comes back.                                                *)
CallersReturn == \A c \in Caller : waiting[c] # None ~> waiting[c] = None

=============================================================================

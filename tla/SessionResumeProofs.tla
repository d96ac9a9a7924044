------------------------ MODULE SessionResumeProofs ------------------------
(***************************************************************************)
(* Proofs about SessionResume: every step is one of the single flight or   *)
(* leaves it alone, and no session gets two containers but where one was   *)
(* given up, stopped, rehomed or left with a start pending.                *)
(*                                                                         *)
(* The argument is about the containers nobody doubted: such a container   *)
(* keeps the one owner it was registered with, and whatever is posted to   *)
(* it or runs in it is that session.  A second one could only be spawned   *)
(* under the lock that the first was made under, after a lookup that would *)
(* have found it.                                                          *)
(*                                                                         *)
(* First the single flight the resumes share: a key never runs two jobs,   *)
(* a caller's leaving disturbs no other's wait, and a job nobody waits for *)
(* is cancelled.                                                           *)
(***************************************************************************)
EXTENDS SessionResume, FiniteSetTheorems, TLAPS

-----------------------------------------------------------------------------
(* The single flight's inductive invariant, for every set of keys and jobs *)
(* and every finite set of callers.                                        *)

Waiters(j) == {c \in Caller : waiting[c] = j}

\* A job that was not cancelled holds its key until its callback has run.
RunsHoldKeys ==
    \A j \in Job : job[j].state = "running" =>
        job[j].key \in Key /\ flights[job[j].key] = j

\* What a key holds was started for it and was not cancelled.
FlightsJoinable ==
    \A k \in Key : flights[k] # None =>
        /\ job[flights[k]].key = k
        /\ job[flights[k]].state \in {"running", "done"}

\* A job counts exactly those who wait for it.
Counted == \A j \in Job : job[j].callers = Cardinality(Waiters(j))

IInv ==
    /\ TypeOK
    /\ RunsHoldKeys
    /\ FlightsJoinable
    /\ NoCallerCancelled
    /\ Counted
    /\ RunsAreWanted

-----------------------------------------------------------------------------
(* Lemmas.                                                                 *)

LEMMA WaitersFinite ==
    ASSUME NEW j PROVE IsFiniteSet(Waiters(j)) /\ Cardinality(Waiters(j)) \in Nat
<1>1. Waiters(j) \subseteq Caller
  BY DEF Waiters
<1>2. QED
  BY <1>1, CallersFinite, FS_Subset, FS_CardinalityType

\* A caller that begins to wait is one more for its job alone.
LEMMA WaiterAdded ==
    ASSUME TypeOK, NEW c \in Caller, NEW j \in Job, waiting[c] = None,
           waiting' = [waiting EXCEPT ![c] = j]
    PROVE  /\ Cardinality(Waiters(j))' = Cardinality(Waiters(j)) + 1
           /\ \A i \in Job \ {j} : Waiters(i)' = Waiters(i)
<1>1. Waiters(j)' = Waiters(j) \cup {c} /\ c \notin Waiters(j)
  BY NoneIsNoJob DEF TypeOK, Waiters
<1>2. \A i \in Job \ {j} : Waiters(i)' = Waiters(i)
  BY NoneIsNoJob DEF TypeOK, Waiters
<1>3. IsFiniteSet(Waiters(j))
  BY WaitersFinite
<1>4. Cardinality(Waiters(j) \cup {c}) = Cardinality(Waiters(j)) + 1
  BY <1>1, <1>3, FS_AddElement
<1>5. QED
  BY <1>1, <1>2, <1>4

\* A caller that comes back is one fewer for its job alone.
LEMMA WaiterDropped ==
    ASSUME TypeOK, NEW c \in Caller, NEW j \in Job, waiting[c] = j,
           waiting' = [waiting EXCEPT ![c] = None]
    PROVE  /\ Cardinality(Waiters(j))' = Cardinality(Waiters(j)) - 1
           /\ Waiters(j)' = Waiters(j) \ {c}
           /\ \A i \in Job \ {j} : Waiters(i)' = Waiters(i)
<1>1. c \in Waiters(j) /\ Waiters(j)' = Waiters(j) \ {c}
  BY NoneIsNoJob DEF TypeOK, Waiters
<1>2. \A i \in Job \ {j} : Waiters(i)' = Waiters(i)
  BY NoneIsNoJob DEF TypeOK, Waiters
<1>3. QED
  BY <1>1, <1>2, WaitersFinite, FS_RemoveElement

\* The one that is the last waits alone.
LEMMA LastAlone ==
    ASSUME TypeOK, Counted, NEW c \in Caller, waiting[c] # None, Last(c),
           NEW d \in Caller, waiting[d] = waiting[c]
    PROVE  d = c
<1>1. waiting[c] \in Job /\ Cardinality(Waiters(waiting[c])) = 1
  BY DEF TypeOK, Counted, Last
<1>2. PICK x : Waiters(waiting[c]) = {x}
  BY <1>1, WaitersFinite, FS_Singleton
<1>3. QED
  BY <1>2 DEF Waiters

-----------------------------------------------------------------------------
(* The invariant holds at first, and every step keeps it.                  *)

LEMMA InitHolds == Init => IInv
<1> SUFFICES ASSUME Init PROVE IInv
  OBVIOUS
<1>1. \A j \in Job : Waiters(j) = {}
  BY NoneIsNoJob DEF Init, Waiters
<1>2. Counted
  BY <1>1, FS_EmptySet DEF Init, Unborn, Counted
<1>3. QED
  BY <1>2 DEF Init, Unborn, IInv, TypeOK, RunsHoldKeys, FlightsJoinable, NoCallerCancelled,
     RunsAreWanted

LEMMA StartsKeeps ==
    ASSUME IInv, NEW c \in Caller, NEW k \in Key, NEW j \in Job, Starts(c, k, j)
    PROVE  IInv'
<1> USE DEF IInv
<1>1. TypeOK'
  BY DEF TypeOK, Starts
<1>2. Waiters(j) = {}
  BY NoneIsNoJob DEF NoCallerCancelled, Waiters, Starts, TypeOK
<1>3. Counted'
  <2>1. /\ Cardinality(Waiters(j)') = 1
        /\ \A i \in Job \ {j} : Waiters(i)' = Waiters(i)
    <3>1. Cardinality(Waiters(j)) = 0
      BY <1>2, FS_EmptySet
    <3>2. waiting[c] = None /\ waiting' = [waiting EXCEPT ![c] = j]
      BY DEF Starts
    <3>3. Cardinality(Waiters(j)') = Cardinality(Waiters(j)) + 1
      BY <3>2, WaiterAdded
    <3>4. \A i \in Job \ {j} : Waiters(i)' = Waiters(i)
      BY <3>2, WaiterAdded
    <3>5. QED
      BY <3>1, <3>3, <3>4
  <2>2. /\ job'[j].callers = 1
        /\ \A i \in Job \ {j} : job'[i] = job[i]
    BY DEF Starts, TypeOK
  <2>3. QED
    BY <2>1, <2>2 DEF Counted
<1>4. RunsHoldKeys'
  BY NoneIsNoJob DEF RunsHoldKeys, Starts, TypeOK
<1>5. FlightsJoinable'
  BY NoneIsNoJob DEF FlightsJoinable, Starts, TypeOK
<1>6. NoCallerCancelled'
  BY NoneIsNoJob DEF NoCallerCancelled, Starts, TypeOK
<1>7. RunsAreWanted'
  BY NoneIsNoJob DEF RunsAreWanted, Starts, TypeOK
<1>8. QED
  BY <1>1, <1>3, <1>4, <1>5, <1>6, <1>7

LEMMA JoinsKeeps ==
    ASSUME IInv, NEW c \in Caller, NEW k \in Key, Joins(c, k)
    PROVE  IInv'
<1> USE DEF IInv
<1>1. PICK j \in Job : j = flights[k] /\ job[j].state \in {"running", "done"}
  BY DEF Joins, TypeOK, FlightsJoinable
<1>2. /\ job' = [job EXCEPT ![j].callers = @ + 1]
      /\ waiting' = [waiting EXCEPT ![c] = j]
      /\ flights' = flights /\ waiting[c] = None
  BY <1>1 DEF Joins
<1>3. TypeOK'
  BY <1>1, <1>2 DEF TypeOK
<1>4. Counted'
  <2>1. /\ Cardinality(Waiters(j)') = Cardinality(Waiters(j)) + 1
        /\ \A i \in Job \ {j} : Waiters(i)' = Waiters(i)
    BY <1>2, WaiterAdded
  <2>2. /\ job'[j].callers = job[j].callers + 1
        /\ \A i \in Job \ {j} : job'[i] = job[i]
    BY <1>2 DEF TypeOK
  <2>3. QED
    BY <2>1, <2>2 DEF Counted
<1>5. RunsHoldKeys' /\ FlightsJoinable'
  BY <1>1, <1>2 DEF RunsHoldKeys, FlightsJoinable, TypeOK
<1>6. NoCallerCancelled'
  BY <1>1, <1>2 DEF NoCallerCancelled, TypeOK
<1>7. RunsAreWanted'
  BY <1>1, <1>2, NoneIsNoJob DEF RunsAreWanted, TypeOK
<1>8. QED
  BY <1>3, <1>4, <1>5, <1>6, <1>7

\* A caller that comes back leaves a running job only to others.
LEMMA DropsKeeps ==
    ASSUME IInv, NEW c \in Caller, NEW j \in Job, waiting[c] = j, Drops(c),
           job[j].state = "running" => ~Last(c)
    PROVE  IInv'
<1> USE DEF IInv
<1>1. /\ job' = [job EXCEPT ![j].callers = @ - 1]
      /\ waiting' = [waiting EXCEPT ![c] = None]
      /\ flights' = flights
  BY DEF Drops
<1>2. /\ c \in Waiters(j)
      /\ Cardinality(Waiters(j)) \in Nat /\ Cardinality(Waiters(j)) # 0
      /\ job[j].callers = Cardinality(Waiters(j))
  BY WaitersFinite, FS_EmptySet DEF Waiters, Counted
<1>3. TypeOK'
  BY <1>1, <1>2 DEF TypeOK
<1>4. Counted'
  <2>1. /\ Cardinality(Waiters(j)') = Cardinality(Waiters(j)) - 1
        /\ \A i \in Job \ {j} : Waiters(i)' = Waiters(i)
    BY <1>1, WaiterDropped
  <2>2. /\ job'[j].callers = job[j].callers - 1
        /\ \A i \in Job \ {j} : job'[i] = job[i]
    BY <1>1 DEF TypeOK
  <2>3. QED
    BY <2>1, <2>2 DEF Counted
<1>5. RunsHoldKeys' /\ FlightsJoinable'
  BY <1>1, NoneIsNoJob DEF RunsHoldKeys, FlightsJoinable, TypeOK
<1>6. NoCallerCancelled'
  BY <1>1, NoneIsNoJob DEF NoCallerCancelled, TypeOK
<1>7. RunsAreWanted'
  <2> SUFFICES ASSUME NEW i \in Job, job'[i].state = "running"
               PROVE  \E d \in Caller : waiting'[d] = i
    BY DEF RunsAreWanted
  <2>1. job[i].state = "running"
    BY <1>1 DEF TypeOK
  <2>2. PICK d \in Caller : waiting[d] = i
    BY <2>1 DEF RunsAreWanted
  <2>3. CASE i # j
    BY <1>1, <2>2, <2>3 DEF TypeOK
  <2>4. CASE i = j
    <3>1. Cardinality(Waiters(j)) # 1
      BY <1>2, <2>1, <2>4 DEF Last
    <3>2. PICK e \in Waiters(j) : e # c
      <4>1. Waiters(j) # {c}
        BY <3>1, FS_Singleton
      <4>2. QED
        BY <1>2, <4>1
    <3>3. QED
      BY <1>1, <2>4, <3>2 DEF Waiters, TypeOK
  <2>5. QED
    BY <2>3, <2>4
<1>8. QED
  BY <1>3, <1>4, <1>5, <1>6, <1>7

LEMMA AbandonsKeeps ==
    ASSUME IInv, NEW c \in Caller, Abandons(c)
    PROVE  IInv'
<1> USE DEF IInv
<1>1. PICK j \in Job : waiting[c] = j
  BY DEF Abandons, TypeOK
<1>2. /\ job' = [job EXCEPT ![j].callers = 0, ![j].state = "cancelling"]
      /\ flights' = [k \in Key |-> IF flights[k] = j THEN None ELSE flights[k]]
      /\ waiting' = [waiting EXCEPT ![c] = None]
      /\ Last(c) /\ job[j].callers = 1
  BY <1>1 DEF Abandons, Released, Last
<1>3. \A d \in Caller : waiting[d] = j => d = c
  BY <1>1, <1>2, NoneIsNoJob, LastAlone
<1>4. TypeOK'
  <2>1. PICK was \in [state : {"unborn", "running", "cancelling", "done", "cancelled"},
                      key : Key \cup {None}, callers : Nat, hooked : BOOLEAN] : was = job[j]
    BY DEF TypeOK
  <2>2. job' = [job EXCEPT ![j] = [was EXCEPT !.callers = 0, !.state = "cancelling"]]
    BY <1>2, <2>1 DEF TypeOK
  <2>3. [was EXCEPT !.callers = 0, !.state = "cancelling"]
          \in [state : {"unborn", "running", "cancelling", "done", "cancelled"},
              key : Key \cup {None}, callers : Nat, hooked : BOOLEAN]
    OBVIOUS
  <2>4. flights' \in [Key -> Job \cup {None}] /\ waiting' \in [Caller -> Job \cup {None}]
    BY <1>2 DEF TypeOK
  <2>5. QED
    BY <2>2, <2>3, <2>4 DEF TypeOK
<1>5. Counted'
  <2>1. /\ Cardinality(Waiters(j)') = Cardinality(Waiters(j)) - 1
        /\ \A i \in Job \ {j} : Waiters(i)' = Waiters(i)
    BY <1>1, <1>2, WaiterDropped
  <2>2. /\ job'[j].callers = 0 /\ job[j].callers = 1
        /\ \A i \in Job \ {j} : job'[i] = job[i]
    BY <1>2 DEF TypeOK
  <2>3. QED
    BY <2>1, <2>2 DEF Counted
<1>6. RunsHoldKeys'
  BY <1>1, <1>2, NoneIsNoJob DEF RunsHoldKeys, TypeOK
<1>7. FlightsJoinable'
  BY <1>1, <1>2, NoneIsNoJob DEF FlightsJoinable, TypeOK
<1>8. NoCallerCancelled'
  BY <1>1, <1>2, <1>3, NoneIsNoJob DEF NoCallerCancelled, TypeOK
<1>9. RunsAreWanted'
  BY <1>1, <1>2, NoneIsNoJob DEF RunsAreWanted, TypeOK
<1>10. QED
  BY <1>4, <1>5, <1>6, <1>7, <1>8, <1>9

LEMMA FinishesKeeps ==
    ASSUME IInv, NEW j \in Job, Finishes(j)
    PROVE  IInv'
<1> USE DEF IInv
<1>1. PICK end \in {"done", "cancelled"} :
        /\ job' = [job EXCEPT ![j].state = end]
        /\ job[j].state \in {"running", "cancelling"}
        /\ job[j].state = "running" => end = "done"
        /\ UNCHANGED <<flights, waiting>>
  BY DEF Finishes
<1>2. TypeOK'
  BY <1>1 DEF TypeOK
<1>3. Counted'
  BY <1>1 DEF Counted, Waiters, TypeOK
<1>4. RunsHoldKeys' /\ FlightsJoinable' /\ NoCallerCancelled' /\ RunsAreWanted'
  BY <1>1, NoneIsNoJob DEF RunsHoldKeys, FlightsJoinable, NoCallerCancelled, RunsAreWanted,
     TypeOK
<1>5. QED
  BY <1>2, <1>3, <1>4

LEMMA ReleasesKeeps ==
    ASSUME IInv, NEW j \in Job, Releases(j)
    PROVE  IInv'
<1> USE DEF IInv
<1>1. /\ job' = [job EXCEPT ![j].hooked = FALSE]
      /\ flights' = [k \in Key |-> IF flights[k] = j THEN None ELSE flights[k]]
      /\ job[j].state # "running" /\ waiting' = waiting
  BY DEF Releases, Released, Settled
<1>2. TypeOK'
  BY <1>1 DEF TypeOK
<1>3. Counted'
  BY <1>1 DEF Counted, Waiters, TypeOK
<1>4. RunsHoldKeys' /\ FlightsJoinable' /\ NoCallerCancelled' /\ RunsAreWanted'
  BY <1>1, NoneIsNoJob DEF RunsHoldKeys, FlightsJoinable, NoCallerCancelled, RunsAreWanted,
     TypeOK
<1>5. QED
  BY <1>2, <1>3, <1>4

LEMMA StepHolds == IInv /\ [Next]_vars => IInv'
<1> SUFFICES ASSUME IInv, [Next]_vars PROVE IInv'
  OBVIOUS
<1>1. ASSUME NEW c \in Caller, Returns(c) PROVE IInv'
  BY <1>1, DropsKeeps DEF Returns, Settled, IInv, TypeOK
<1>2. ASSUME NEW c \in Caller, Leaves(c) PROVE IInv'
  BY <1>2, DropsKeeps DEF Leaves, IInv, TypeOK
<1>3. CASE UNCHANGED vars
  BY <1>3 DEF vars, IInv, TypeOK, RunsHoldKeys, FlightsJoinable, NoCallerCancelled, Counted,
     Waiters, RunsAreWanted
<1>4. QED
  BY <1>1, <1>2, <1>3, StartsKeeps, JoinsKeeps, AbandonsKeeps, FinishesKeeps, ReleasesKeeps
  DEF Next

(* Every reachable state satisfies the invariant.                          *)
THEOREM Invariance == Spec => []IInv
BY InitHolds, StepHolds, PTL DEF Spec

-----------------------------------------------------------------------------
(* What run promises its callers.                                          *)

(* Every variable keeps its type, counts of callers included.             *)
THEOREM Typing == Spec => []TypeOK
<1>1. IInv => TypeOK
  BY DEF IInv
<1>2. QED
  BY <1>1, Invariance, PTL

(* A key's callers share one job: a second one runs only after the first   *)
(* was cancelled (KeyedSingleFlight.run).                                  *)
THEOREM SingleFlight == Spec => []OneRunPerKey
<1>1. IInv => OneRunPerKey
  BY DEF IInv, RunsHoldKeys, OneRunPerKey
<1>2. QED
  BY <1>1, Invariance, PTL

(* A caller's leaving never cancels a job somebody else awaits (the        *)
(* finally of run: the count is exact).                                    *)
THEOREM LeavingIsPrivate == Spec => []NoCallerCancelled
<1>1. IInv => NoCallerCancelled
  BY DEF IInv
<1>2. QED
  BY <1>1, Invariance, PTL

(* A job nobody waits for any more is told to stop.                        *)
THEOREM NoneRunsUnwanted == Spec => []RunsAreWanted
<1>1. IInv => RunsAreWanted
  BY DEF IInv
<1>2. QED
  BY <1>1, Invariance, PTL

-----------------------------------------------------------------------------
(***************************************************************************)
(* The resumes and forks above it.                                         *)
(***************************************************************************)

\* Phases under the lock of the task's session, and those before it.
Seated == {"finding", "asking", "answered", "starting", "rehomed", "creating", "launched",
           "saving", "waiting", "opening", "served", "cleaning", "unwinding"}
Ahead == {"unborn", "locking", "locked"}

\* Phases with a container: all, with it registered, with a start posted there.
Boxed == Seated \ {"finding", "creating"}
Owned == {"asking", "answered", "starting", "saving", "waiting", "opening", "served"}
Posting == {"starting", "opening"}

Standing == [pc : Phase, from : Key \cup {None}, box : Container \cup {None},
             answer : Key \cup {None}]

Types ==
    /\ lock \in [Key -> Task \cup {None}]
    /\ task \in [Task -> Standing]
    /\ proc \in [Container -> {"absent", "up", "down", "gone"}]
    /\ primary \in [Container -> Key \cup {None}]
    /\ posts \in [Container -> Seq(Task)]
    /\ status \in [Container -> {"none", "starting", "running", "stopping", "stopped",
                                 "crashed"}]
    /\ owner \in [Container -> Key \cup {None}]
    /\ ending \in [Container -> {"none", "stopping", "removing"}]
    /\ doubted \subseteq Container /\ unguarded \subseteq Key

\* A flight's job and the resume it runs end together.
Phases ==
    \A j \in Job :
        /\ job[j].state = "unborn" <=> task[j].pc = "unborn"
        /\ job[j].state \in {"done", "cancelled"} <=> task[j].pc = "over"
        /\ task[j].pc # "unborn" => job[j].key \in Key
        /\ task[j].from = None
        /\ task[j].pc \notin {"locked", "rehomed"}

LocksHeld == \A t \in Task : task[t].pc \in Seated => lock[Of(t)] = t

LocksOwed ==
    \A k \in Key, t \in Task : lock[k] = t =>
        /\ task[t].pc \notin {"unborn", "locking", "over"}
        /\ k \in {Of(t), task[t].from}

\* A fork that has its source's lock; and nobody forks what is not there yet.
Sources ==
    \A k \in Child :
        /\ task[k].pc \in {"locking", "locked"} => task[k].from \in Key
        /\ task[k].pc = "locked" => lock[task[k].from] = k
        /\ task[k].from \in Child => task[task[k].from].pc # "unborn"

\* Nothing runs in a process that is not up, and nobody knows of one not yet
\* launched.
Blank ==
    \A c \in Container :
        /\ proc[c] # "up" => primary[c] = None /\ posts[c] = <<>>
        /\ proc[c] = "absent" => status[c] = "none" /\ owner[c] = None /\ ending[c] = "none"

\* A container nobody doubted.
Sound ==
    \A c \in Container \ doubted :
        /\ ending[c] = "none" /\ proc[c] # "gone"
        /\ status[c] \in {"none", "starting", "running", "stopped"}
        /\ status[c] = "none" => owner[c] = None
        /\ status[c] = "stopped" => proc[c] = "down"
        /\ primary[c] \in {None, owner[c]}

\* A task's container: it has the owner that the task means and runs what it
\* was last said to, and a task spawns only where none was to be found.
Placed(t) ==
    LET box == task[t].box IN
    /\ task[t].pc \in Boxed => box \in Container /\ proc[box] # "absent"
    /\ box \notin doubted =>
        /\ task[t].pc \in Owned => owner[box] = Of(t)
        /\ task[t].pc = "launched" => owner[box] = None
        /\ task[t].pc # "rehomed"
        /\ task[t].pc = "answered" => task[t].answer \in {None, Of(t)}
        /\ \/ task[t].pc = "answered" /\ task[t].answer = Of(t)
           \/ task[t].pc = "served"
           => (proc[box] = "up" => primary[box] = Of(t))
    /\ task[t].pc \in {"creating", "launched"} /\ Of(t) \notin unguarded =>
        \A c \in Container \ doubted : ~Found(c, Of(t))

TasksPlaced == \A t \in Task : Placed(t)

LaunchedApart ==
    \A t, u \in Task :
        /\ task[t].pc = "launched" /\ task[u].pc = "launched"
        /\ task[t].box = task[u].box
        => t = u

\* Such a container has at most one start posted, and somebody waits for it.
Pending ==
    /\ \A c \in Container \ doubted :
        posts[c] # <<>> =>
            \E t \in Task : /\ posts[c] = <<t>>
                            /\ task[t].pc \in Posting /\ task[t].box = c
    /\ \A c \in Container : \A i \in 1..Len(posts[c]) :
        /\ task[posts[c][i]].pc \in Posting \cup {"served", "cleaning", "unwinding", "over"}
        /\ task[posts[c][i]].pc \in Posting => task[posts[c][i]].box = c

\* A child whose fork has not begun has none, and is resumed only unguarded.
Unmade ==
    \A k \in Child :
        /\ task[k].pc = "unborn" => \A j \in Job : job[j].key = k => task[j].pc = "unborn"
        /\ task[k].pc \in Ahead /\ k \notin unguarded =>
            /\ \A c \in Container \ doubted : owner[c] # k
            /\ \A j \in Job : job[j].key = k => task[j].pc \in {"unborn", "locking", "over"}

Homes ==
    \A c, d \in Container \ doubted, s \in Key \ unguarded :
        Found(c, s) /\ Found(d, s) => c = d

ResumeInv ==
    /\ Types /\ Phases /\ LocksHeld /\ LocksOwed /\ Sources
    /\ Blank /\ Sound /\ TasksPlaced /\ LaunchedApart /\ Pending
    /\ Unmade /\ Homes

-----------------------------------------------------------------------------
(* What the steps share.                                                   *)

LEMMA MoveTyped ==
    ASSUME Types, NEW t \in Task, NEW pc \in Phase
    PROVE  [task EXCEPT ![t].pc = pc] \in [Task -> Standing]
<1>1. PICK was \in Standing : was = task[t]
  BY DEF Types
<1>2. [was EXCEPT !.pc = pc] \in Standing
  BY DEF Standing
<1>3. [task EXCEPT ![t].pc = pc]
        = [task EXCEPT ![t] = [was EXCEPT !.pc = pc]]
  BY <1>1 DEF Types
<1>4. QED
  BY <1>2, <1>3 DEF Types

LEMMA MoveToTyped ==
    ASSUME Types, NEW t \in Task, NEW pc \in Phase, NEW box \in Container \cup {None}
    PROVE  [task EXCEPT ![t].pc = pc, ![t].box = box] \in [Task -> Standing]
<1>1. PICK was \in Standing : was = task[t]
  BY DEF Types
<1>2. [was EXCEPT !.pc = pc, !.box = box] \in Standing
  BY DEF Standing
<1>3. [task EXCEPT ![t].pc = pc, ![t].box = box]
        = [task EXCEPT ![t] = [was EXCEPT !.pc = pc, !.box = box]]
  BY <1>1 DEF Types
<1>4. QED
  BY <1>2, <1>3 DEF Types

LEMMA AnswerTyped ==
    ASSUME Types, NEW t \in Task, NEW pc \in Phase, NEW key \in Key \cup {None}
    PROVE  [task EXCEPT ![t].pc = pc, ![t].answer = key] \in [Task -> Standing]
<1>1. PICK was \in Standing : was = task[t]
  BY DEF Types
<1>2. [was EXCEPT !.pc = pc, !.answer = key] \in Standing
  BY DEF Standing
<1>3. [task EXCEPT ![t].pc = pc, ![t].answer = key]
        = [task EXCEPT ![t] = [was EXCEPT !.pc = pc, !.answer = key]]
  BY <1>1 DEF Types
<1>4. QED
  BY <1>2, <1>3 DEF Types

LEMMA LeaveTyped ==
    ASSUME Types, NEW t \in Task, NEW pc \in Phase, NEW key \in Key \cup {None}
    PROVE  [task EXCEPT ![t].pc = pc, ![t].from = key] \in [Task -> Standing]
<1>1. PICK was \in Standing : was = task[t]
  BY DEF Types
<1>2. [was EXCEPT !.pc = pc, !.from = key] \in Standing
  BY DEF Standing
<1>3. [task EXCEPT ![t].pc = pc, ![t].from = key]
        = [task EXCEPT ![t] = [was EXCEPT !.pc = pc, !.from = key]]
  BY <1>1 DEF Types
<1>4. QED
  BY <1>2, <1>3 DEF Types

LEMMA SeatedKeys ==
    ASSUME TypeOK, ResumeInv, NEW t \in Task, task[t].pc # "unborn"
    PROVE  Of(t) \in Key /\ Of(t) # None
BY NoneIsNoJob, ChildrenAreSessions DEF ResumeInv, Phases, Task, Of

LEMMA SeatedAlone ==
    ASSUME ResumeInv, NEW t \in Task, NEW u \in Task,
           task[t].pc \in Seated, task[u].pc \in Seated, Of(t) = Of(u)
    PROVE  t = u
BY DEF ResumeInv, LocksHeld

\* A task moves, and no container changes but doubted ones.
LEMMA Moves ==
    ASSUME TypeOK, ResumeInv, NEW t \in Task,
           UNCHANGED inside, doubted \subseteq doubted', unguarded \subseteq unguarded',
           \A c \in Container :
               \/ status'[c] = status[c] /\ owner'[c] = owner[c] /\ ending'[c] = ending[c]
               \/ c \in doubted' /\ proc[c] # "absent",
           \A u \in Task \ {t} : task'[u] = task[u] /\ Of(u)' = Of(u),
           Placed(t)',
           task'[t].pc \notin Posting \cup {"launched"},
           \/ task'[t].pc \in {"over", "cleaning", "unwinding"}
              /\ (task[t].pc \in Posting => task[t].box \in doubted')
           \/ task[t].pc \in Ahead \cup {"finding", "asking", "answered", "saving"}
    PROVE  Blank' /\ Sound' /\ TasksPlaced' /\ LaunchedApart' /\ Pending' /\ Homes'
<1> USE DEF ResumeInv
<1>1. Blank'
  BY DEF Blank, inside
<1>2. Sound'
  BY DEF Sound, inside
<1>3. ASSUME NEW u \in Task \ {t} PROVE Placed(u)'
  <2>1. Placed(u) /\ task'[u] = task[u] /\ Of(u)' = Of(u)
    BY <1>3 DEF TasksPlaced
  <2>2. QED
    BY <2>1 DEF Placed, Found, inside, Boxed, Seated, Owned
<1>4. LaunchedApart'
  BY DEF LaunchedApart
<1>5. Pending'
  <2>1. ASSUME NEW c \in Container \ doubted', posts[c] # <<>>
        PROVE  \E u \in Task : /\ posts[c] = <<u>>
                               /\ task'[u].pc \in Posting /\ task'[u].box = c
    BY <2>1 DEF Pending, Posting, Ahead
  <2>2. ASSUME NEW c \in Container, NEW i \in 1..Len(posts[c])
        PROVE  /\ task'[posts[c][i]].pc
                      \in Posting \cup {"served", "cleaning", "unwinding", "over"}
               /\ task'[posts[c][i]].pc \in Posting => task'[posts[c][i]].box = c
    <3>1. posts[c][i] \in Task
      BY <2>2 DEF Types
    <3>2. QED
      BY <2>2, <3>1 DEF Pending, Posting, Ahead
  <2>3. QED
    BY <2>1, <2>2 DEF Pending, inside
<1>6. Homes'
  BY DEF Homes, Found
<1>7. QED
  BY <1>1, <1>2, <1>3, <1>4, <1>5, <1>6 DEF TasksPlaced

\* A task under its lock moves on under it.
LEMMA UnderLock ==
    ASSUME TypeOK, ResumeInv, NEW t \in Task, UNCHANGED <<vars, lock>>,
           doubted \subseteq doubted', unguarded \subseteq unguarded',
           \A c \in Container \ doubted' : owner'[c] \in {owner[c], Of(t)},
           \A u \in Task \ {t} : task'[u] = task[u],
           task[t].pc \in Seated, task'[t].pc \in Seated \ {"rehomed"},
           task'[t].from = task[t].from
    PROVE  /\ \A u \in Task : Of(u)' = Of(u)
           /\ Phases' /\ LocksHeld' /\ LocksOwed' /\ Sources' /\ Unmade'
<1> USE DEF ResumeInv
<1>1. \A u \in Task : Of(u)' = Of(u)
  BY DEF vars, Of
<1>2. Phases'
  BY DEF Phases, vars, Task, Seated
<1>3. LocksHeld'
  BY <1>1 DEF LocksHeld
<1>4. LocksOwed'
  BY <1>1, NoneIsNoJob DEF LocksOwed, Types, Seated
<1>5. Unmade'
  <2>1. \A j \in Job : job'[j] = job[j]
    BY DEF vars
  <2>2. ASSUME NEW k \in Child, task'[k].pc \in Ahead, k \notin unguarded'
        PROVE  Of(t) # k /\ k # t
    BY <2>2, ChildrenAreSessions DEF Unmade, Ahead, Seated, Of, Task
  <2>3. ASSUME NEW k \in Child, task'[k].pc \in Ahead, k \notin unguarded'
        PROVE  /\ \A c \in Container \ doubted' : owner'[c] # k
               /\ \A j \in Job : job[j].key = k => task'[j].pc \in {"unborn", "locking", "over"}
    BY <2>2, <2>3 DEF Unmade, Task, Of
  <2>4. ASSUME NEW k \in Child, task'[k].pc = "unborn", NEW j \in Job, job[j].key = k
        PROVE  task'[j].pc = "unborn"
    BY <2>1, <2>4 DEF Unmade, Task, Seated
  <2>5. QED
    BY <2>1, <2>3, <2>4 DEF Unmade
<1>6. Sources'
  BY DEF Sources, Seated, Task
<1>7. QED
  BY <1>1, <1>2, <1>3, <1>4, <1>5, <1>6

LEMMA EndsKeeps ==
    ASSUME TypeOK, ResumeInv, NEW t \in Task, Ends(t), task[t].pc # "over",
           UNCHANGED <<inside, registry, ending, unguarded>>,
           doubted \subseteq doubted', doubted' \subseteq Container,
           task[t].pc \in Posting => task[t].box \in doubted'
    PROVE  ResumeInv'
<1> USE DEF ResumeInv
<1>1. /\ task' = [task EXCEPT ![t] = Over]
      /\ lock' = [k \in Key |-> IF lock[k] = t THEN None ELSE lock[k]]
      /\ t \in Job => \E end \in {"done", "cancelled"} :
                        job' = [job EXCEPT ![t].state = end]
      /\ t \notin Job => job' = job
  BY DEF Ends, Unlocked, Finishes, vars
<1>2. /\ task'[t] = Over
      /\ \A u \in Task \ {t} : task'[u] = task[u]
  BY <1>1 DEF Types
<1>3. /\ \A j \in Job : job'[j].key = job[j].key /\ (j # t => job'[j] = job[j])
      /\ t \in Job => job'[t].state \in {"done", "cancelled"}
  BY <1>1 DEF TypeOK
<1>4. \A u \in Task : Of(u)' = Of(u)
  BY <1>3 DEF Of
<1>5. Types'
  <2>1. Over \in Standing
    BY DEF Over, Unbegun, Phase, Standing
  <2>2. task' \in [Task -> Standing]
    BY <1>1, <2>1 DEF Types
  <2>3. lock' \in [Key -> Task \cup {None}] /\ unguarded' \subseteq Key
    BY <1>1 DEF Types
  <2>4. QED
    BY <2>2, <2>3 DEF Types, inside, registry
<1>6. Phases'
  BY <1>1, <1>2, <1>3 DEF Phases, Task, Over, Unbegun, Finishes, Ends
<1>7. LocksHeld'
  BY <1>1, <1>2, <1>4, SeatedAlone, SeatedKeys DEF LocksHeld, Over, Unbegun, Seated
<1>8. LocksOwed'
  <2>1. \A u \in Task : u # None
    BY NoneIsNoJob, ChildrenAreSessions DEF Task
  <2>2. \A k \in Key : \A u \in Task : lock'[k] = u => lock[k] = u /\ u # t
    BY <1>1, <2>1
  <2>3. QED
    BY <1>2, <1>4, <2>2 DEF LocksOwed
<1>9. Placed(t)'
  BY <1>2 DEF Placed, Boxed, Seated, Owned, Over, Unbegun
<1>10. Blank' /\ Sound' /\ TasksPlaced' /\ LaunchedApart' /\ Pending' /\ Homes'
  <2>1. task'[t].pc = "over"
    BY <1>2 DEF Over, Unbegun
  <2>2. \A c \in Container :
            status'[c] = status[c] /\ owner'[c] = owner[c] /\ ending'[c] = ending[c]
    BY DEF registry
  <2>3. QED
    BY <1>2, <1>4, <1>9, <2>1, <2>2, Moves DEF Posting
<1>11. Unmade'
  <2>1. task'[t].pc = "over"
    BY <1>2 DEF Over, Unbegun
  <2>2. ASSUME NEW k \in Child, task'[k].pc \in Ahead, k \notin unguarded'
        PROVE  /\ \A c \in Container \ doubted' : owner'[c] # k
               /\ \A j \in Job : job'[j].key = k => task'[j].pc \in {"unborn", "locking", "over"}
    BY <1>2, <1>3, <2>1, <2>2 DEF Unmade, Ahead, Task, registry
  <2>3. ASSUME NEW k \in Child, task'[k].pc = "unborn", NEW j \in Job, job'[j].key = k
        PROVE  task'[j].pc = "unborn"
    <3>1. job[j].key = k /\ task[k].pc = "unborn"
      BY <1>2, <1>3, <2>1, <2>3 DEF Task
    <3>2. task[j].pc = "unborn" /\ (j = t => job[j].state \in {"running", "cancelling"})
      BY <3>1 DEF Unmade, Ends, Finishes
    <3>3. QED
      BY <1>2, <2>3, <3>2 DEF Phases, Task
  <2>4. QED
    BY <2>2, <2>3 DEF Unmade
<1>12. Sources'
  <2>1. task'[t].pc = "over" /\ task'[t].from = None
    BY <1>2 DEF Over, Unbegun
  <2>2. ASSUME NEW k \in Child, k # t, lock[task[k].from] = k, task[k].from \in Key
        PROVE  lock'[task[k].from] = k
    BY <1>1, <2>2
  <2>3. QED
    BY <1>2, <2>1, <2>2, NoneIsNoJob, ChildrenAreSessions DEF Sources, Task
<1>13. QED
  BY <1>5, <1>6, <1>7, <1>8, <1>10, <1>11, <1>12

-----------------------------------------------------------------------------
(* Callers, and a resume up to its container.                              *)

LEMMA ResumesKeeps ==
    ASSUME TypeOK, ResumeInv, NEW c \in Caller, NEW k \in Key, NEW j \in Job, Resumes(c, k, j)
    PROVE  ResumeInv'
<1> USE DEF ResumeInv
<1>1. /\ job[j].state = "unborn" /\ task[j].pc = "unborn"
      /\ job' = [job EXCEPT ![j] = [state |-> "running", key |-> k, callers |-> 1,
                                    hooked |-> TRUE]]
      /\ task' = [task EXCEPT ![j].pc = "locking"]
      /\ UNCHANGED <<lock, inside, registry, ending, histories>>
  BY DEF Resumes, Starts, Moved, Phases
<1>2. /\ task'[j].pc = "locking" /\ task'[j].box = task[j].box /\ task'[j].from = task[j].from
      /\ \A u \in Task \ {j} : task'[u] = task[u]
      /\ job'[j].key = k /\ job'[j].state = "running"
      /\ \A i \in Job \ {j} : job'[i] = job[i]
  BY <1>1 DEF Types, TypeOK, Task
<1>3. \A u \in Task \ {j} : Of(u)' = Of(u)
  BY <1>2 DEF Of
<1>4. Types'
  <2>1. task' \in [Task -> Standing]
    BY <1>1, MoveTyped DEF Phase, Task
  <2>2. QED
    BY <1>1, <2>1 DEF Types, inside, registry, histories
<1>5. Phases'
  BY <1>2 DEF Phases, Task
<1>6. LocksHeld'
  BY <1>1, <1>2, <1>3 DEF LocksHeld, Seated
<1>7. LocksOwed'
  <2>1. \A i \in Key : lock[i] # j
    BY <1>1 DEF LocksOwed, Task
  <2>2. QED
    BY <1>1, <1>2, <1>3, <2>1 DEF LocksOwed, Types
<1>8. Placed(j)'
  BY <1>2 DEF Placed, Boxed, Seated, Owned
<1>9. Blank' /\ Sound' /\ TasksPlaced' /\ LaunchedApart' /\ Pending' /\ Homes'
  BY <1>1, <1>2, <1>3, <1>8, Moves DEF Task, Posting, Ahead, registry, histories
<1>10. Unmade'
  <2>1. k \in Child => task[k].pc # "unborn"
    BY DEF Resumes
  <2>2. \A i \in Child : task'[i].pc = task[i].pc
    BY <1>2, JobsAreNoSessions, ChildrenAreSessions DEF Task
  <2>3. \A c1 \in Container : owner'[c1] = owner[c1]
    BY <1>1 DEF registry
  <2>4. QED
    BY <1>1, <1>2, <2>1, <2>2, <2>3 DEF Unmade, histories, Task
<1>11. Sources'
  BY <1>1, <1>2, JobsAreNoSessions, ChildrenAreSessions DEF Sources, Task
<1>12. QED
  BY <1>4, <1>5, <1>6, <1>7, <1>9, <1>10, <1>11

\* Callers that join, leave or return, and callbacks, change no phase.
LEMMA FlightKeeps ==
    ASSUME TypeOK, ResumeInv,
           UNCHANGED <<taskVars, inside, registry, ending, histories>>,
           \A j \in Job : /\ job'[j].key = job[j].key
                          /\ \/ job'[j].state = job[j].state
                             \/ {job[j].state, job'[j].state} \subseteq {"running", "cancelling"}
    PROVE  ResumeInv'
<1> USE DEF ResumeInv, taskVars, inside, registry, histories
<1>1. \A u \in Task : Of(u)' = Of(u)
  BY DEF Of
<1>2. Types' /\ Blank' /\ Sound' /\ LaunchedApart' /\ Pending'
  BY DEF Types, Blank, Sound, LaunchedApart, Pending
<1>3. Phases'
  BY DEF Phases
<1>4. LocksHeld'
  BY <1>1 DEF LocksHeld
<1>5. LocksOwed'
  BY <1>1 DEF LocksOwed, Types
<1>6. TasksPlaced'
  BY <1>1 DEF TasksPlaced, Placed, Found
<1>7. Unmade'
  BY DEF Unmade
<1>8. Homes'
  BY DEF Homes, Found
<1>9. Sources'
  BY DEF Sources
<1>10. QED
  BY <1>2, <1>3, <1>4, <1>5, <1>6, <1>7, <1>8, <1>9

LEMMA CallersKeep ==
    ASSUME TypeOK, ResumeInv, NEW c \in Caller, CallerMoves(c)
    PROVE  ResumeInv'
<1>1. UNCHANGED <<taskVars, inside, registry, ending, histories>>
  BY DEF CallerMoves
<1>2. ASSUME NEW k \in Key, Joins(c, k)
      PROVE  \A j \in Job : job'[j].key = job[j].key /\ job'[j].state = job[j].state
  BY <1>2 DEF Joins, TypeOK
<1>3. ASSUME Drops(c), waiting[c] # None
      PROVE  \A j \in Job : job'[j].key = job[j].key /\ job'[j].state = job[j].state
  BY <1>3 DEF Drops, TypeOK
<1>4. ASSUME Abandons(c)
      PROVE  \A j \in Job : /\ job'[j].key = job[j].key
                            /\ \/ job'[j].state = job[j].state
                               \/ {job[j].state, job'[j].state} \subseteq {"running", "cancelling"}
  <2>1. PICK i \in Job : waiting[c] = i
    BY <1>4 DEF Abandons, TypeOK
  <2>2. job' = [job EXCEPT ![i].callers = 0, ![i].state = "cancelling"]
    BY <1>4, <2>1 DEF Abandons
  <2>3. job[i].state \in {"running", "cancelling"}
    BY <1>4, <2>1 DEF Abandons, Settled, TypeOK
  <2>4. QED
    BY <2>2, <2>3 DEF TypeOK
<1>5. CASE \E k \in Key : Joins(c, k)
  BY <1>1, <1>2, <1>5, FlightKeeps
<1>6. CASE Returns(c) \/ Leaves(c)
  <2>1. Drops(c) /\ waiting[c] # None
    BY <1>6 DEF Returns, Leaves
  <2>2. QED
    BY <1>1, <1>3, <2>1, FlightKeeps
<1>7. CASE Abandons(c)
  BY <1>1, <1>4, <1>7, FlightKeeps
<1>8. QED
  BY <1>5, <1>6, <1>7 DEF CallerMoves

LEMMA CallbacksKeep ==
    ASSUME TypeOK, ResumeInv, NEW j \in Job, JobReleases(j)
    PROVE  ResumeInv'
<1>1. \A i \in Job : job'[i].key = job[i].key /\ job'[i].state = job[i].state
  BY DEF JobReleases, Releases, TypeOK
<1>2. UNCHANGED <<taskVars, inside, registry, ending, histories>>
  BY DEF JobReleases
<1>3. QED
  BY <1>1, <1>2, FlightKeeps

LEMMA TakesLockKeeps ==
    ASSUME TypeOK, ResumeInv, NEW j \in Job, TakesLock(j)
    PROVE  ResumeInv'
<1> USE DEF ResumeInv
<1>1. /\ task[j].pc = "locking" /\ lock[Of(j)] = None /\ Of(j) \in Key
      /\ task' = [task EXCEPT ![j].pc = "finding"]
      /\ lock' = [lock EXCEPT ![Of(j)] = j]
      /\ Of(j) \in Child /\ task[Of(j)].pc \in {"locking", "locked"} => Of(j) \in unguarded'
      /\ unguarded \subseteq unguarded' /\ unguarded' \subseteq Key
      /\ UNCHANGED <<vars, inside, registry, ending, doubted>>
  BY SeatedKeys DEF TakesLock, At, Moved, Task, Types
<1>2. /\ task'[j].pc = "finding" /\ task'[j].box = task[j].box /\ task'[j].from = task[j].from
      /\ \A u \in Task \ {j} : task'[u] = task[u]
  BY <1>1 DEF Types, Task
<1>3. \A u \in Task : Of(u)' = Of(u)
  BY <1>1 DEF vars, Of
<1>4. Types'
  <2>1. j \in Task
    BY DEF Task
  <2>2. [task EXCEPT ![j].pc = "finding"] \in [Task -> Standing]
    BY <2>1, MoveTyped DEF Phase
  <2>3. lock' \in [Key -> Task \cup {None}]
    BY <1>1 DEF Types, Task
  <2>4. QED
    BY <1>1, <2>2, <2>3 DEF Types, inside, registry
<1>5. Phases'
  BY <1>1, <1>2 DEF Phases, vars, Task
<1>6. LocksHeld'
  BY <1>1, <1>2, <1>3, NoneIsNoJob, ChildrenAreSessions DEF LocksHeld, Types, Task
<1>7. LocksOwed'
  BY <1>1, <1>2, <1>3 DEF LocksOwed, Types
<1>8. Placed(j)'
  BY <1>2 DEF Placed, Boxed, Seated, Owned
<1>9. Blank' /\ Sound' /\ TasksPlaced' /\ LaunchedApart' /\ Pending' /\ Homes'
  BY <1>1, <1>2, <1>3, <1>8, Moves DEF Task, Posting, Ahead, registry
<1>10. Unmade'
  <2>1. \A i \in Job : job'[i] = job[i]
    BY <1>1 DEF vars
  <2>2. \A i \in Child : task'[i].pc = task[i].pc
    BY <1>2, JobsAreNoSessions, ChildrenAreSessions DEF Task
  <2>3. ASSUME NEW k \in Child, task[k].pc \in Ahead, k \notin unguarded'
        PROVE  Of(j) # k
    BY <1>1, <2>3 DEF Unmade, Ahead, Of
  <2>4. \A c1 \in Container : owner'[c1] = owner[c1]
    BY <1>1 DEF registry
  <2>5. ASSUME NEW k \in Child, task'[k].pc \in Ahead, k \notin unguarded'
        PROVE  /\ \A c \in Container \ doubted' : owner'[c] # k
               /\ \A i \in Job : job'[i].key = k => task'[i].pc \in {"unborn", "locking", "over"}
    BY <1>1, <1>2, <2>1, <2>2, <2>3, <2>4, <2>5 DEF Unmade, Task, Of
  <2>6. ASSUME NEW k \in Child, task'[k].pc = "unborn", NEW i \in Job, job'[i].key = k
        PROVE  task'[i].pc = "unborn"
    BY <1>1, <1>2, <2>1, <2>2, <2>6 DEF Unmade, Task
  <2>7. QED
    BY <2>5, <2>6 DEF Unmade
<1>11. Sources'
  <2>1. \A i \in Child : task'[i] = task[i]
    BY <1>2, JobsAreNoSessions, ChildrenAreSessions DEF Task
  <2>2. \A i \in Child : i # None
    BY NoneIsNoJob, ChildrenAreSessions
  <2>3. QED
    BY <1>1, <2>1, <2>2 DEF Sources, Types
<1>12. QED
  BY <1>4, <1>5, <1>6, <1>7, <1>9, <1>10, <1>11

LEMMA FindsKeeps ==
    ASSUME TypeOK, ResumeInv, NEW j \in Job, NEW c \in Container, Finds(j, c)
    PROVE  ResumeInv'
<1> USE DEF ResumeInv
<1>1. /\ task[j].pc = "finding" /\ Found(c, Of(j))
      /\ task' = [task EXCEPT ![j].pc = "asking", ![j].box = c]
      /\ UNCHANGED <<vars, lock, inside, registry, ending, histories>>
  BY DEF Finds, At
<1>2. /\ task'[j].pc = "asking" /\ task'[j].box = c /\ task'[j].from = task[j].from
      /\ \A u \in Task \ {j} : task'[u] = task[u]
  BY <1>1 DEF Types, Task
<1>3. Types'
  <2>1. [task EXCEPT ![j].pc = "asking", ![j].box = c] \in [Task -> Standing]
    BY MoveToTyped DEF Phase, Task
  <2>2. QED
    BY <1>1, <2>1 DEF Types, inside, registry, histories
<1>4. (\A u \in Task : Of(u)' = Of(u))
      /\ Phases' /\ LocksHeld' /\ LocksOwed' /\ Sources' /\ Unmade'
  BY <1>1, <1>2, UnderLock DEF Task, Seated, registry, histories
<1>5. Placed(j)'
  <2>1. proc[c] # "absent" /\ owner[c] = Of(j)
    BY <1>1 DEF Found, Live, Blank
  <2>2. QED
    BY <1>1, <1>2, <1>4, <2>1 DEF Placed, Task, inside, registry
<1>6. Blank' /\ Sound' /\ TasksPlaced' /\ LaunchedApart' /\ Pending' /\ Homes'
  BY <1>1, <1>2, <1>4, <1>5, Moves DEF Task, Posting, Ahead, registry, histories
<1>7. QED
  BY <1>3, <1>4, <1>6

LEMMA FindsNoneKeeps ==
    ASSUME TypeOK, ResumeInv, NEW j \in Job, FindsNone(j)
    PROVE  ResumeInv'
<1> USE DEF ResumeInv
<1>1. /\ task[j].pc = "finding" /\ \A c \in Container : ~Found(c, Of(j))
      /\ task' = [task EXCEPT ![j].pc = "creating"]
      /\ UNCHANGED <<vars, lock, inside, registry, ending, histories>>
  BY DEF FindsNone, At, Moved
<1>2. /\ task'[j].pc = "creating" /\ task'[j].from = task[j].from
      /\ \A u \in Task \ {j} : task'[u] = task[u]
  BY <1>1 DEF Types, Task
<1>3. Types'
  <2>1. task' \in [Task -> Standing]
    BY <1>1, MoveTyped DEF Phase, Task
  <2>2. QED
    BY <1>1, <2>1 DEF Types, inside, registry, histories
<1>4. (\A u \in Task : Of(u)' = Of(u))
      /\ Phases' /\ LocksHeld' /\ LocksOwed' /\ Sources' /\ Unmade'
  BY <1>1, <1>2, UnderLock DEF Task, Seated, registry, histories
<1>5. Placed(j)'
  BY <1>1, <1>2, <1>4 DEF Placed, Found, Boxed, Seated, Owned, Task, registry
<1>6. Blank' /\ Sound' /\ TasksPlaced' /\ LaunchedApart' /\ Pending' /\ Homes'
  BY <1>1, <1>2, <1>4, <1>5, Moves DEF Task, Posting, Ahead, registry, histories
<1>7. QED
  BY <1>3, <1>4, <1>6

LEMMA ReportsKeeps ==
    ASSUME TypeOK, ResumeInv, NEW j \in Job, Reports(j)
    PROVE  ResumeInv'
<1> USE DEF ResumeInv
<1>1. /\ task[j].pc = "asking" /\ task[j].box \in Container
      /\ task' = [task EXCEPT ![j].pc = "answered", ![j].answer = primary[task[j].box]]
      /\ UNCHANGED <<vars, lock, inside, registry, ending, histories>>
  BY DEF Reports, At, TasksPlaced, Placed, Boxed, Seated, Task
<1>2. /\ task'[j].pc = "answered" /\ task'[j].from = task[j].from
      /\ task'[j].box = task[j].box /\ task'[j].answer = primary[task[j].box]
      /\ \A u \in Task \ {j} : task'[u] = task[u]
  BY <1>1 DEF Types, Task
<1>3. Types'
  <2>1. primary[task[j].box] \in Key \cup {None}
    BY <1>1 DEF Types
  <2>2. [task EXCEPT ![j].pc = "answered", ![j].answer = primary[task[j].box]]
          \in [Task -> Standing]
    BY <2>1, AnswerTyped DEF Phase, Task
  <2>3. QED
    BY <1>1, <2>2 DEF Types, inside, registry, histories
<1>4. (\A u \in Task : Of(u)' = Of(u))
      /\ Phases' /\ LocksHeld' /\ LocksOwed' /\ Sources' /\ Unmade'
  BY <1>1, <1>2, UnderLock DEF Task, Seated, registry, histories
<1>5. Placed(j)'
  <2>1. Placed(j) /\ j \in Task
    BY DEF TasksPlaced, Task
  <2>2. task[j].box \notin doubted =>
            owner[task[j].box] = Of(j) /\ primary[task[j].box] \in {None, Of(j)}
    BY <1>1, <2>1 DEF Placed, Sound, Owned
  <2>3. QED
    BY <1>1, <1>2, <1>4, <2>1, <2>2
    DEF Placed, Boxed, Seated, Owned, inside, registry, histories
<1>6. Blank' /\ Sound' /\ TasksPlaced' /\ LaunchedApart' /\ Pending' /\ Homes'
  BY <1>1, <1>2, <1>4, <1>5, Moves DEF Task, Posting, Ahead, registry, histories
<1>7. QED
  BY <1>3, <1>4, <1>6

LEMMA AdoptsOtherKeeps ==
    ASSUME TypeOK, ResumeInv, NEW j \in Job, AdoptsOther(j)
    PROVE  ResumeInv'
<1> USE DEF ResumeInv
<1>1. /\ task[j].pc = "answered" /\ task[j].answer # Of(j)
      /\ task[j].answer = None => owner[task[j].box] # Of(j)
      /\ task' = [task EXCEPT ![j] = [Unbegun EXCEPT !.pc = "creating"]]
      /\ owner' = [owner EXCEPT ![task[j].box] = task[j].answer]
      /\ unguarded' = unguarded \cup {Of(j)}
      /\ UNCHANGED <<vars, lock, inside, status, ending, doubted>>
  BY DEF AdoptsOther, At
<1>2. /\ task'[j].pc = "creating" /\ task'[j].from = None /\ task[j].from = None
      /\ \A u \in Task \ {j} : task'[u] = task[u]
  BY <1>1 DEF Types, Task, Unbegun, Phases
<1>3. Of(j) \in Key /\ Of(j) # None
  BY <1>1, SeatedKeys DEF Task
<1>4. Types'
  <2>1. [Unbegun EXCEPT !.pc = "creating"] \in Standing
    BY DEF Unbegun, Phase, Standing
  <2>2. task' \in [Task -> Standing]
    BY <1>1, <2>1 DEF Types
  <2>3. task[j].answer \in Key \cup {None}
    BY DEF Types, Task, Standing
  <2>4. owner' \in [Container -> Key \cup {None}] /\ unguarded' \subseteq Key
    BY <1>1, <1>3, <2>3 DEF Types
  <2>5. QED
    BY <1>1, <2>2, <2>4 DEF Types, inside
<1>5. task[j].box \in doubted /\ proc[task[j].box] # "absent"
  <2>1. Placed(j)
    BY DEF TasksPlaced, Task
  <2>2. QED
    BY <1>1, <1>3, <2>1 DEF Placed, Boxed, Seated, Owned
<1>6. \A c \in Container : c = task[j].box \/ owner'[c] = owner[c]
  BY <1>1 DEF Types
<1>7. (\A u \in Task : Of(u)' = Of(u))
      /\ Phases' /\ LocksHeld' /\ LocksOwed' /\ Sources' /\ Unmade'
  BY <1>1, <1>2, <1>5, <1>6, UnderLock DEF Task, Seated
<1>8. Placed(j)'
  BY <1>1, <1>2, <1>7 DEF Placed, Boxed, Seated, Owned, Task
<1>9. Blank' /\ Sound' /\ TasksPlaced' /\ LaunchedApart' /\ Pending' /\ Homes'
  BY <1>1, <1>2, <1>5, <1>6, <1>7, <1>8, Moves DEF Task, Posting, Ahead
<1>10. QED
  BY <1>4, <1>7, <1>9

\* What an operation ends by.
LEMMA OverKeeps ==
    ASSUME TypeOK, ResumeInv, NEW t \in Task, NEW s \in Key,
           \/ t \in Job /\ Adopts(t)
           \/ t \in Child /\ ForkFindsNone(t, s)
           \/ Completes(t) \/ Fails(t) \/ StartFails(t) \/ CancelEnds(t) \/ Cleaned(t)
    PROVE  ResumeInv'
<1> USE DEF ResumeInv
<1>1. Ends(t) /\ UNCHANGED <<inside, registry, ending, unguarded>> /\ task[t].pc # "over"
  BY DEF Adopts, ForkFindsNone, Completes, Fails, StartFails, CancelEnds, Cleaned, At, Enters,
     Bare, histories
<1>2. task[t].pc \in Posting => doubted' = doubted \cup {task[t].box}
  BY DEF Adopts, ForkFindsNone, Completes, Fails, StartFails, CancelEnds, Cleaned, At, Enters,
     Bare, Posting
<1>3. \/ doubted' = doubted
      \/ task[t].pc = "starting" /\ doubted' = doubted \cup {task[t].box}
  <2>1. CASE CancelEnds(t)
    <3>1. doubted' = IF task[t].pc = "starting" THEN doubted \cup {task[t].box} ELSE doubted
      BY <2>1 DEF CancelEnds
    <3>2. QED
      BY <3>1
  <2>2. CASE StartFails(t)
    BY <2>2 DEF StartFails, At
  <2>3. CASE ~CancelEnds(t) /\ ~StartFails(t)
    <3>1. UNCHANGED histories
      BY <2>3 DEF Adopts, ForkFindsNone, Completes, Fails, Cleaned
    <3>2. QED
      BY <3>1 DEF histories
  <2>4. QED
    BY <2>1, <2>2, <2>3
<1>4. task[t].pc = "starting" => task[t].box \in Container
  BY DEF TasksPlaced, Placed, Boxed, Seated
<1>5. doubted \subseteq doubted' /\ doubted' \subseteq Container
  BY <1>3, <1>4 DEF Types
<1>6. QED
  BY <1>1, <1>2, <1>5, EndsKeeps

-----------------------------------------------------------------------------
(* A fork up to its container.                                             *)

LEMMA ForkWaitsKeeps ==
    ASSUME TypeOK, ResumeInv, NEW k \in Child, NEW s \in Key, ForkWaits(k, s)
    PROVE  ResumeInv'
<1> USE DEF ResumeInv
<1>1. /\ task[k].pc = "unborn"
      /\ s \in Child => task[s].pc # "unborn"
      /\ task' = [task EXCEPT ![k].pc = "locking", ![k].from = s]
      /\ UNCHANGED <<vars, lock, inside, registry, ending, histories>>
      /\ k \in Task /\ k \notin Job
  BY JobsAreNoSessions, ChildrenAreSessions DEF ForkWaits, Task
<1>2. /\ task'[k].pc = "locking" /\ task'[k].from = s
      /\ \A u \in Task \ {k} : task'[u] = task[u]
  BY <1>1 DEF Types
<1>3. \A u \in Task : Of(u)' = Of(u)
  BY <1>1 DEF vars, Of
<1>4. Types'
  <2>1. [task EXCEPT ![k].pc = "locking", ![k].from = s] \in [Task -> Standing]
    BY <1>1, LeaveTyped DEF Phase
  <2>2. QED
    BY <1>1, <2>1 DEF Types, inside, registry, histories
<1>5. Phases'
  BY <1>1, <1>2 DEF Phases, vars, Task
<1>6. LocksHeld'
  BY <1>1, <1>2, <1>3 DEF LocksHeld, Seated
<1>7. LocksOwed'
  <2>1. \A i \in Key : lock[i] # k
    BY <1>1, NoneIsNoJob, ChildrenAreSessions DEF LocksOwed
  <2>2. QED
    BY <1>1, <1>2, <1>3, <2>1 DEF LocksOwed, Types
<1>8. Sources'
  <2>1. \A i \in Child \ {k} : task'[i] = task[i] /\ task[i].from # k
    BY <1>1, <1>2 DEF Sources, Task
  <2>2. k # s /\ s \in Child => task'[s].pc # "unborn"
    BY <1>1, <1>2 DEF Task
  <2>3. ASSUME NEW i \in Child, i # k, task[i].from \in Child
        PROVE  task'[task[i].from].pc # "unborn"
    BY <1>2, <2>1, <2>3 DEF Sources, Task
  <2>4. QED
    BY <1>1, <1>2, <2>1, <2>2, <2>3 DEF Sources
<1>9. Placed(k)'
  BY <1>2 DEF Placed, Boxed, Seated, Owned
<1>10. Blank' /\ Sound' /\ TasksPlaced' /\ LaunchedApart' /\ Pending' /\ Homes'
  BY <1>1, <1>2, <1>3, <1>9, Moves DEF Posting, Ahead, registry, histories
<1>11. Unmade'
  <2>1. \A j \in Job : task'[j] = task[j] /\ job'[j] = job[j]
    BY <1>1, <1>2 DEF Task, vars
  <2>2. \A c \in Container : owner'[c] = owner[c]
    BY <1>1 DEF registry
  <2>3. \A i \in Child : task'[i].pc = task[i].pc \/ i = k
    BY <1>2 DEF Task
  <2>4. ASSUME NEW i \in Child, task'[i].pc \in Ahead, i \notin unguarded'
        PROVE  /\ \A c \in Container \ doubted' : owner'[c] # i
               /\ \A j \in Job : job'[j].key = i => task'[j].pc \in {"unborn", "locking", "over"}
    <3>1. task[i].pc \in Ahead /\ i \notin unguarded /\ doubted' = doubted
      BY <1>1, <2>3, <2>4 DEF Ahead, histories
    <3>2. \A c \in Container \ doubted' : owner'[c] # i
      BY <2>2, <3>1 DEF Unmade
    <3>3. QED
      BY <2>1, <3>1, <3>2 DEF Unmade
  <2>5. ASSUME NEW i \in Child, task'[i].pc = "unborn", NEW j \in Job, job'[j].key = i
        PROVE  task'[j].pc = "unborn"
    BY <1>2, <2>1, <2>3, <2>5 DEF Unmade
  <2>6. QED
    BY <2>4, <2>5 DEF Unmade
<1>12. QED
  BY <1>4, <1>5, <1>6, <1>7, <1>8, <1>10, <1>11

LEMMA ForkWaitsOnKeeps ==
    ASSUME TypeOK, ResumeInv, NEW k \in Child, ForkWaitsOn(k)
    PROVE  ResumeInv'
<1> USE DEF ResumeInv
<1>1. /\ task[k].pc = "locking" /\ lock[task[k].from] = None
      /\ task' = [task EXCEPT ![k].pc = "locked"]
      /\ lock' = [lock EXCEPT ![task[k].from] = k]
      /\ UNCHANGED <<vars, inside, registry, ending, histories>>
      /\ k \in Task /\ k \notin Job /\ k # None
  BY JobsAreNoSessions, ChildrenAreSessions, NoneIsNoJob DEF ForkWaitsOn, At, Moved, Task
<1>2. /\ task'[k].pc = "locked" /\ task'[k].from = task[k].from
      /\ \A u \in Task \ {k} : task'[u] = task[u]
  BY <1>1 DEF Types
<1>3. \A u \in Task : Of(u)' = Of(u)
  BY <1>1 DEF vars, Of
<1>4. Types'
  <2>1. [task EXCEPT ![k].pc = "locked"] \in [Task -> Standing]
    BY <1>1, MoveTyped DEF Phase
  <2>2. lock' \in [Key -> Task \cup {None}]
    BY <1>1 DEF Types
  <2>3. QED
    BY <1>1, <2>1, <2>2 DEF Types, inside, registry, histories
<1>5. Phases'
  BY <1>1, <1>2 DEF Phases, vars, Task
<1>6. LocksHeld'
  <2>1. \A u \in Task : u # None
    BY NoneIsNoJob, ChildrenAreSessions DEF Task
  <2>2. QED
    BY <1>1, <1>2, <1>3, <2>1 DEF LocksHeld, Seated, Types
<1>7. LocksOwed'
  BY <1>1, <1>2, <1>3 DEF LocksOwed, Types
<1>8. Sources'
  <2>1. task[k].from \in Key
    BY <1>1 DEF Sources
  <2>2. \A i \in Child \ {k} : task'[i] = task[i] /\ i # None
    BY <1>2, NoneIsNoJob, ChildrenAreSessions DEF Task
  <2>3. ASSUME NEW i \in Child, task'[i].from \in Child
        PROVE  task'[task'[i].from].pc # "unborn"
    BY <1>1, <1>2, <2>2, <2>3 DEF Sources, Task
  <2>4. ASSUME NEW i \in Child, task'[i].pc = "locked"
        PROVE  lock'[task'[i].from] = i
    BY <1>1, <1>2, <2>1, <2>2, <2>4 DEF Sources, Types
  <2>5. QED
    BY <1>2, <2>1, <2>2, <2>3, <2>4 DEF Sources
<1>9. Placed(k)'
  BY <1>2 DEF Placed, Boxed, Seated, Owned
<1>10. Blank' /\ Sound' /\ TasksPlaced' /\ LaunchedApart' /\ Pending' /\ Homes'
  BY <1>1, <1>2, <1>3, <1>9, Moves DEF Posting, Ahead, registry, histories
<1>11. Unmade'
  <2>1. \A j \in Job : task'[j] = task[j] /\ job'[j] = job[j]
    BY <1>1, <1>2 DEF Task, vars
  <2>2. \A c \in Container : owner'[c] = owner[c]
    BY <1>1 DEF registry
  <2>3. QED
    BY <1>1, <1>2, <2>1, <2>2 DEF Unmade, Ahead, Task, histories
<1>12. QED
  BY <1>4, <1>5, <1>6, <1>7, <1>8, <1>10, <1>11

\* Entering, a fork finds its child's lock free, and its source's free or its own.
LEMMA EntersFree ==
    ASSUME TypeOK, ResumeInv, NEW k \in Child, NEW s \in Key, Enters(k, s)
    PROVE  /\ lock[k] = None /\ lock[s] \in {None, k}
           /\ task[k].pc \in Ahead
           /\ s \in Child => task[s].pc # "unborn"
<1> USE DEF ResumeInv
<1>1. ASSUME task[k].pc = "unborn" PROVE lock[k] = None
  <2>1. ASSUME NEW u \in Task, u = lock[k] PROVE FALSE
    <3>1. k \in {Of(u), task[u].from} /\ task[u].pc # "unborn" /\ k \in Key /\ u # None
      BY <2>1, NoneIsNoJob, ChildrenAreSessions DEF LocksOwed, Task
    <3>2. CASE u \in Child
      BY <1>1, <3>1, <3>2, ChildrenAreSessions, JobsAreNoSessions DEF Sources, Of
    <3>3. CASE u \in Job
      BY <1>1, <3>1, <3>3, NoneIsNoJob DEF Unmade, Phases, Of
    <3>4. QED
      BY <2>1, <3>2, <3>3 DEF Task
  <2>2. QED
    BY <2>1, ChildrenAreSessions DEF Types
<1>2. QED
  BY <1>1 DEF Enters, At, Ahead, Sources

LEMMA EntersKeeps ==
    ASSUME TypeOK, ResumeInv, NEW k \in Child, NEW s \in Key, Enters(k, s),
           lock' = BothLocked(k, s), UNCHANGED <<vars, unguarded>>,
           doubted \subseteq doubted',
           \A c \in Container \ doubted' : owner'[c] = owner[c],
           task'[k].pc \in {"creating", "rehomed"}, task'[k].from = s,
           \A u \in Task \ {k} : task'[u] = task[u]
    PROVE  /\ \A u \in Task : Of(u)' = Of(u)
           /\ Phases' /\ LocksHeld' /\ LocksOwed' /\ Sources' /\ Unmade'
<1> USE DEF ResumeInv
<1>1. /\ lock[k] = None /\ lock[s] \in {None, k} /\ task[k].pc \in Ahead
      /\ s \in Child => task[s].pc # "unborn"
      /\ \A i \in Key : lock'[i] = IF i \in {s, k} THEN k ELSE lock[i]
  <2>1. k \in Key
    BY ChildrenAreSessions
  <2>2. \A i \in Key : lock'[i] = IF i \in {s, k} THEN k ELSE lock[i]
    BY <2>1 DEF BothLocked, Types
  <2>3. QED
    BY <2>2, EntersFree
<1>2. \A u \in Task : Of(u)' = Of(u)
  BY DEF vars, Of
<1>3. k \in Key /\ k \in Task /\ k \notin Job /\ Of(k) = k
  BY JobsAreNoSessions, ChildrenAreSessions DEF Task, Of
<1>4. Phases'
  BY <1>3 DEF Phases, vars, Task
<1>5. LocksHeld'
  <2>1. ASSUME NEW u \in Task, u # k, task[u].pc \in Seated PROVE lock'[Of(u)] = u
    <3>1. lock[Of(u)] = u /\ u # None /\ Of(u) \in Key
      BY <2>1, SeatedKeys, NoneIsNoJob, ChildrenAreSessions DEF LocksHeld, Task, Seated
    <3>2. Of(u) \notin {s, k}
      BY <1>1, <2>1, <3>1
    <3>3. QED
      BY <1>1, <3>1, <3>2
  <2>2. lock'[Of(k)] = k
    BY <1>1, <1>3
  <2>3. QED
    BY <1>2, <2>1, <2>2 DEF LocksHeld
<1>6. LocksOwed'
  <2>1. ASSUME NEW i \in Key, NEW u \in Task, lock'[i] = u
        PROVE  /\ task'[u].pc \notin {"unborn", "locking", "over"}
               /\ i \in {Of(u)', task'[u].from}
    <3>1. CASE i \in {s, k}
      <4>1. u = k
        BY <1>1, <2>1, <3>1
      <4>2. QED
        BY <1>2, <1>3, <3>1, <4>1
    <3>2. CASE i \notin {s, k}
      <4>1. lock[i] = u
        BY <1>1, <2>1, <3>2
      <4>2. u # k
        BY <1>1, <1>3, <3>2, <4>1 DEF LocksOwed, Ahead, Enters, At
      <4>3. QED
        BY <1>2, <4>1, <4>2 DEF LocksOwed
    <3>3. QED
      BY <3>1, <3>2
  <2>2. QED
    BY <2>1 DEF LocksOwed
<1>7. Sources'
  <2>1. \A i \in Child \ {k} : task'[i] = task[i] /\ i # None
    BY NoneIsNoJob, ChildrenAreSessions DEF Task
  <2>2. ASSUME NEW i \in Child, i # k, task'[i].pc = "locked"
        PROVE  lock'[task'[i].from] = i
    <3>1. lock[task[i].from] = i /\ task[i].from \in Key
      BY <2>1, <2>2 DEF Sources
    <3>2. task[i].from \notin {s, k}
      BY <1>1, <2>1, <2>2, <3>1
    <3>3. QED
      BY <1>1, <2>1, <2>2, <3>1, <3>2
  <2>3. ASSUME NEW i \in Child, i # k, task[i].from \in Child
        PROVE  task'[task[i].from].pc # "unborn"
    BY <2>1, <2>3 DEF Sources
  <2>4. s \in Child => task'[s].pc # "unborn"
    BY <1>1, <2>1
  <2>5. QED
    BY <2>1, <2>2, <2>3, <2>4 DEF Sources
<1>8. Unmade'
  <2>1. \A j \in Job : task'[j] = task[j] /\ job'[j] = job[j]
    BY <1>3 DEF Task, vars
  <2>2. \A i \in Child : task'[i].pc \in Ahead => i # k
    BY DEF Ahead
  <2>3. \A i \in Child \ {k} : task'[i] = task[i]
    BY DEF Task
  <2>4. ASSUME NEW i \in Child, task'[i].pc \in Ahead, i \notin unguarded'
        PROVE  /\ \A c \in Container \ doubted' : owner'[c] # i
               /\ \A j \in Job : job'[j].key = i => task'[j].pc \in {"unborn", "locking", "over"}
    BY <2>1, <2>2, <2>3, <2>4 DEF Unmade
  <2>5. ASSUME NEW i \in Child, task'[i].pc = "unborn", NEW j \in Job, job'[j].key = i
        PROVE  task'[j].pc = "unborn"
    BY <2>1, <2>2, <2>3, <2>5 DEF Unmade, Ahead
  <2>6. QED
    BY <2>4, <2>5 DEF Unmade
<1>9. QED
  BY <1>2, <1>4, <1>5, <1>6, <1>7, <1>8

LEMMA ForkSpawnsKeeps ==
    ASSUME TypeOK, ResumeInv, NEW k \in Child, NEW s \in Key, ForkSpawns(k, s)
    PROVE  ResumeInv'
<1> USE DEF ResumeInv
<1>1. /\ Enters(k, s) /\ lock' = BothLocked(k, s)
      /\ task' = [task EXCEPT ![k].pc = "creating", ![k].from = s]
      /\ UNCHANGED <<vars, inside, registry, ending, histories>>
      /\ k \in Task /\ Of(k) = k /\ k \in Key
  BY JobsAreNoSessions, ChildrenAreSessions DEF ForkSpawns, Task, Of
<1>2. /\ task'[k].pc = "creating" /\ task'[k].from = s
      /\ \A u \in Task \ {k} : task'[u] = task[u]
  BY <1>1 DEF Types
<1>3. task[k].pc \in Ahead
  BY <1>1, EntersFree
<1>4. Types'
  <2>1. [task EXCEPT ![k].pc = "creating", ![k].from = s] \in [Task -> Standing]
    BY <1>1, LeaveTyped DEF Phase
  <2>2. lock' \in [Key -> Task \cup {None}]
    BY <1>1 DEF Types, BothLocked
  <2>3. QED
    BY <1>1, <2>1, <2>2 DEF Types, inside, registry, histories
<1>5. (\A u \in Task : Of(u)' = Of(u))
      /\ Phases' /\ LocksHeld' /\ LocksOwed' /\ Sources' /\ Unmade'
  BY <1>1, <1>2, EntersKeeps DEF registry, histories
<1>6. Placed(k)'
  <2>1. k \notin unguarded => \A c \in Container \ doubted : owner[c] # k
    BY <1>3 DEF Unmade
  <2>2. QED
    BY <1>1, <1>2, <1>5, <2>1 DEF Placed, Found, Boxed, Seated, Owned, registry, histories
<1>7. Blank' /\ Sound' /\ TasksPlaced' /\ LaunchedApart' /\ Pending' /\ Homes'
  BY <1>1, <1>2, <1>3, <1>5, <1>6, Moves DEF Posting, registry, histories
<1>8. QED
  BY <1>4, <1>5, <1>7

LEMMA ForkReusesKeeps ==
    ASSUME TypeOK, ResumeInv, NEW k \in Child, NEW s \in Key, NEW c \in Container,
           ForkReuses(k, s, c)
    PROVE  ResumeInv'
<1> USE DEF ResumeInv
<1>1. /\ Enters(k, s) /\ lock' = BothLocked(k, s) /\ Found(c, s)
      /\ task' = [task EXCEPT ![k] = [@ EXCEPT !.pc = "rehomed", !.from = s, !.box = c]]
      /\ owner' = [owner EXCEPT ![c] = k] /\ doubted' = doubted \cup {c}
      /\ UNCHANGED <<vars, inside, status, ending, unguarded>>
      /\ k \in Task /\ Of(k) = k /\ k \in Key
  BY JobsAreNoSessions, ChildrenAreSessions DEF ForkReuses, Task, Of
<1>2. /\ task'[k].pc = "rehomed" /\ task'[k].from = s /\ task'[k].box = c
      /\ \A u \in Task \ {k} : task'[u] = task[u]
  BY <1>1 DEF Types, Standing
<1>3. task[k].pc \in Ahead
  BY <1>1, EntersFree
<1>4. Types'
  <2>1. PICK was \in Standing : was = task[k]
    BY <1>1 DEF Types
  <2>2. [was EXCEPT !.pc = "rehomed", !.from = s, !.box = c] \in Standing
    BY DEF Standing, Phase
  <2>3. task' \in [Task -> Standing]
    BY <1>1, <2>1, <2>2 DEF Types
  <2>4. lock' \in [Key -> Task \cup {None}]
    BY <1>1 DEF Types, BothLocked
  <2>5. owner' \in [Container -> Key \cup {None}] /\ doubted' \subseteq Container
    BY <1>1 DEF Types
  <2>6. QED
    BY <1>1, <2>3, <2>4, <2>5 DEF Types, inside
<1>5. \A d \in Container : d = c \/ owner'[d] = owner[d]
  BY <1>1 DEF Types
<1>6. (\A u \in Task : Of(u)' = Of(u))
      /\ Phases' /\ LocksHeld' /\ LocksOwed' /\ Sources' /\ Unmade'
  BY <1>1, <1>2, <1>5, EntersKeeps
<1>7. proc[c] # "absent"
  BY <1>1 DEF Found, Live, Blank
<1>8. Placed(k)'
  BY <1>1, <1>2, <1>7 DEF Placed, inside, Owned
<1>9. Blank' /\ Sound' /\ TasksPlaced' /\ LaunchedApart' /\ Pending' /\ Homes'
  BY <1>1, <1>2, <1>3, <1>5, <1>6, <1>7, <1>8, Moves DEF Posting
<1>10. QED
  BY <1>4, <1>6, <1>9

-----------------------------------------------------------------------------
(* Starts posted, and spawns.                                              *)

LEMMA PostsKeep ==
    ASSUME TypeOK, ResumeInv, NEW t \in Task,
           task[t].pc \in {"answered", "rehomed", "waiting"},
           NEW pc \in Posting, task' = Moved(t, pc), posts' = Posted(task[t].box, t),
           task[t].box \notin doubted => owner[task[t].box] = Of(t),
           UNCHANGED <<vars, lock, proc, primary, registry, ending, histories>>
    PROVE  ResumeInv'
<1> USE DEF ResumeInv
<1> DEFINE box == task[t].box
<1>1. box \in Container /\ proc[box] # "absent"
  BY DEF TasksPlaced, Placed, Boxed, Seated
<1>2. task' = [task EXCEPT ![t].pc = pc]
  BY DEF Moved
<1>3. /\ task'[t].pc = pc /\ task'[t].from = task[t].from
      /\ task'[t].box = box /\ task'[t].answer = task[t].answer
      /\ \A u \in Task \ {t} : task'[u] = task[u]
  BY <1>2 DEF Types, Standing
<1>4. /\ \A c \in Container \ {box} : posts'[c] = posts[c]
      /\ posts'[box] = IF proc[box] = "up" THEN Append(posts[box], t) ELSE posts[box]
  BY <1>1 DEF Posted, Types
<1>5. Types'
  <2>1. [task EXCEPT ![t].pc = pc] \in [Task -> Standing]
    BY MoveTyped DEF Phase, Posting
  <2>2. posts' \in [Container -> Seq(Task)]
    <3>1. Append(posts[box], t) \in Seq(Task)
      BY <1>1 DEF Types
    <3>2. QED
      BY <1>1, <3>1 DEF Posted, Types
  <2>3. QED
    BY <1>2, <2>1, <2>2 DEF Types, registry, histories
<1>6. (\A u \in Task : Of(u)' = Of(u))
      /\ Phases' /\ LocksHeld' /\ LocksOwed' /\ Sources' /\ Unmade'
  BY <1>3, UnderLock DEF Seated, Posting, registry, histories
<1>7. Blank'
  BY <1>1, <1>4 DEF Blank, registry
<1>8. Sound'
  BY DEF Sound, registry, histories
<1>9. TasksPlaced'
  <2>1. ASSUME NEW u \in Task \ {t} PROVE Placed(u)'
    BY <1>3, <1>6, <2>1 DEF TasksPlaced, Placed, Found, registry, histories
  <2>2. Placed(t)'
    <3>1. box \notin doubted => task[t].pc # "rehomed"
      BY DEF TasksPlaced, Placed
    <3>2. QED
      BY <1>1, <1>3, <1>6 DEF Placed, Posting, registry, histories
  <2>3. QED
    BY <2>1, <2>2 DEF TasksPlaced
<1>10. LaunchedApart'
  BY <1>3 DEF LaunchedApart, Posting
<1>11. Pending'
  <2>1. box \notin doubted => posts[box] = <<>>
    <3>1. ASSUME box \notin doubted, posts[box] # <<>> PROVE FALSE
      <4>1. PICK u \in Task : task[u].pc \in Posting /\ task[u].box = box
        BY <1>1, <3>1 DEF Pending
      <4>2. Of(u) = Of(t)
        BY <3>1, <4>1 DEF TasksPlaced, Placed, Owned, Posting
      <4>3. QED
        BY <4>1, <4>2, SeatedAlone DEF Seated, Posting
    <3>2. QED
      BY <3>1
  <2>2. ASSUME NEW c \in Container \ doubted, posts'[c] # <<>>
        PROVE  \E u \in Task : /\ posts'[c] = <<u>>
                               /\ task'[u].pc \in Posting /\ task'[u].box = c
    <3>1. CASE c = box
      <4>1. Append(<<>>, t) = <<t>>
        OBVIOUS
      <4>2. posts'[c] = <<t>>
        BY <1>4, <2>1, <2>2, <3>1, <4>1
      <4>3. QED
        BY <1>3, <3>1, <4>2
    <3>2. CASE c # box
      BY <1>3, <1>4, <2>2, <3>2 DEF Pending, Posting
    <3>3. QED
      BY <3>1, <3>2
  <2>3. ASSUME NEW c \in Container, NEW i \in 1..Len(posts'[c])
        PROVE  /\ task'[posts'[c][i]].pc
                      \in Posting \cup {"served", "cleaning", "unwinding", "over"}
               /\ task'[posts'[c][i]].pc \in Posting => task'[posts'[c][i]].box = c
    <3>1. \/ c = box /\ posts'[c][i] = t
          \/ i \in 1..Len(posts[c]) /\ posts'[c][i] = posts[c][i] /\ posts[c][i] \in Task
      <4>1. posts[c] \in Seq(Task)
        BY DEF Types
      <4>2. posts'[c] = posts[c] \/ (c = box /\ posts'[c] = Append(posts[c], t))
        BY <1>4
      <4>3. CASE posts'[c] = posts[c]
        BY <2>3, <4>1, <4>3
      <4>4. CASE c = box /\ posts'[c] = Append(posts[c], t)
        BY <2>3, <4>1, <4>4
      <4>5. QED
        BY <4>2, <4>3, <4>4
    <3>2. QED
      BY <1>3, <3>1 DEF Pending, Posting
  <2>4. QED
    BY <2>2, <2>3 DEF Pending, histories
<1>12. Homes'
  BY DEF Homes, Found, registry, histories
<1>13. QED
  BY <1>5, <1>6, <1>7, <1>8, <1>9, <1>10, <1>11, <1>12

LEMMA PostingKeeps ==
    ASSUME TypeOK, ResumeInv, NEW t \in Task,
           \/ t \in Job /\ AdoptsIdle(t)
           \/ t \in Child /\ ForkPosts(t)
           \/ Opens(t)
    PROVE  ResumeInv'
<1>1. Placed(t)
  BY DEF ResumeInv, TasksPlaced
<1>2. CASE t \in Job /\ AdoptsIdle(t)
  BY <1>2, PostsKeep DEF AdoptsIdle, At, Posting
<1>3. CASE t \in Child /\ ForkPosts(t)
  <2>1. task[t].pc = "rehomed" /\ task[t].box \in doubted
    BY <1>1, <1>3 DEF ForkPosts, At, Placed
  <2>2. QED
    BY <1>3, <2>1, PostsKeep DEF ForkPosts, Posting
<1>4. CASE Opens(t)
  <2>1. task[t].pc = "waiting" /\ (task[t].box \notin doubted => owner[task[t].box] = Of(t))
    BY <1>1, <1>4 DEF Opens, At, Placed, Owned
  <2>2. QED
    BY <1>4, <2>1, PostsKeep DEF Opens, Posting
<1>5. QED
  BY <1>2, <1>3, <1>4

LEMMA LaunchesKeeps ==
    ASSUME TypeOK, ResumeInv, NEW t \in Task, NEW c \in Container, Launches(t, c)
    PROVE  ResumeInv'
<1> USE DEF ResumeInv
<1>1. /\ task[t].pc = "creating" /\ proc[c] = "absent"
      /\ proc' = [proc EXCEPT ![c] = "up"]
      /\ task' = [task EXCEPT ![t].pc = "launched", ![t].box = c]
      /\ UNCHANGED <<vars, lock, primary, posts, registry, ending, histories>>
  BY DEF Launches, At
<1>2. /\ task'[t].pc = "launched" /\ task'[t].from = task[t].from /\ task'[t].box = c
      /\ \A u \in Task \ {t} : task'[u] = task[u]
  BY <1>1 DEF Types, Standing
<1>3. proc'[c] = "up" /\ \A d \in Container \ {c} : proc'[d] = proc[d]
  BY <1>1 DEF Types
<1>4. Types'
  <2>1. [task EXCEPT ![t].pc = "launched", ![t].box = c] \in [Task -> Standing]
    BY MoveToTyped DEF Phase
  <2>2. proc' \in [Container -> {"absent", "up", "down", "gone"}]
    BY <1>1 DEF Types
  <2>3. QED
    BY <1>1, <2>1, <2>2 DEF Types, registry, histories
<1>5. (\A u \in Task : Of(u)' = Of(u))
      /\ Phases' /\ LocksHeld' /\ LocksOwed' /\ Sources' /\ Unmade'
  BY <1>1, <1>2, UnderLock DEF Seated, registry, histories
<1>6. status[c] = "none" /\ owner[c] = None /\ primary[c] = None /\ posts[c] = <<>>
  BY <1>1 DEF Blank
<1>7. Blank'
  BY <1>1, <1>3 DEF Blank, registry
<1>8. Sound'
  BY <1>1, <1>3, <1>6 DEF Sound, registry, histories
<1>9. TasksPlaced'
  <2>1. ASSUME NEW u \in Task \ {t} PROVE Placed(u)'
    <3>1. task[u].pc \in Boxed => task[u].box # c
      BY <1>1, <2>1 DEF TasksPlaced, Placed
    <3>2. Placed(u) /\ task'[u] = task[u] /\ Of(u)' = Of(u)
      BY <1>2, <1>5, <2>1 DEF TasksPlaced
    <3>3. QED
      BY <1>1, <1>3, <3>1, <3>2 DEF Placed, Found, Boxed, Seated, Owned, registry, histories
  <2>2. Placed(t)'
    BY <1>1, <1>2, <1>3, <1>5, <1>6 DEF TasksPlaced, Placed, Found, Owned, registry, histories
  <2>3. QED
    BY <2>1, <2>2 DEF TasksPlaced
<1>10. LaunchedApart'
  <2>1. ASSUME NEW u \in Task \ {t}, task[u].pc = "launched" PROVE task[u].box # c
    BY <1>1, <2>1 DEF TasksPlaced, Placed, Boxed, Seated
  <2>2. QED
    BY <1>2, <2>1 DEF LaunchedApart
<1>11. Pending'
  <2>1. ASSUME NEW d \in Container \ doubted, posts[d] # <<>>
        PROVE  \E u \in Task : /\ posts[d] = <<u>>
                               /\ task'[u].pc \in Posting /\ task'[u].box = d
    <3>1. PICK u \in Task : /\ posts[d] = <<u>>
                            /\ task[u].pc \in Posting /\ task[u].box = d
      BY <2>1 DEF Pending
    <3>2. u # t
      BY <1>1, <3>1 DEF Posting
    <3>3. QED
      BY <1>2, <3>1, <3>2
  <2>2. ASSUME NEW d \in Container, NEW i \in 1..Len(posts[d])
        PROVE  task'[posts[d][i]] = task[posts[d][i]]
    <3>1. posts[d][i] \in Task
      BY <2>2 DEF Types
    <3>2. QED
      BY <1>1, <1>2, <2>2, <3>1 DEF Pending, Posting
  <2>3. QED
    <3>1. posts' = posts /\ doubted' = doubted
      BY <1>1 DEF histories
    <3>2. QED
      BY <2>1, <2>2, <3>1 DEF Pending
<1>12. Homes'
  BY <1>1 DEF Homes, Found, registry, histories
<1>13. QED
  BY <1>4, <1>5, <1>7, <1>8, <1>9, <1>10, <1>11, <1>12

LEMMA RegistersKeeps ==
    ASSUME TypeOK, ResumeInv, NEW t \in Task, Registers(t)
    PROVE  ResumeInv'
<1> USE DEF ResumeInv
<1> DEFINE box == task[t].box
<1>1. /\ task[t].pc = "launched"
      /\ task' = [task EXCEPT ![t].pc = "saving"]
      /\ status' = [status EXCEPT ![box] = "starting"]
      /\ owner' = [owner EXCEPT ![box] = Of(t)]
      /\ UNCHANGED <<vars, lock, inside, ending, histories>>
  BY DEF Registers, At, Moved
<1>2. /\ task'[t].pc = "saving" /\ task'[t].from = task[t].from /\ task'[t].box = box
      /\ \A u \in Task \ {t} : task'[u] = task[u]
  BY <1>1 DEF Types, Standing
<1>3. /\ box \in Container /\ proc[box] # "absent" /\ Of(t) \in Key /\ Of(t) # None
      /\ box \notin doubted => owner[box] = None
  BY <1>1, SeatedKeys DEF TasksPlaced, Placed, Boxed, Seated
<1>4. /\ status'[box] = "starting" /\ owner'[box] = Of(t)
      /\ \A c \in Container \ {box} : status'[c] = status[c] /\ owner'[c] = owner[c]
  BY <1>1, <1>3 DEF Types
<1>5. Types'
  <2>1. [task EXCEPT ![t].pc = "saving"] \in [Task -> Standing]
    BY MoveTyped DEF Phase
  <2>2. /\ status' \in [Container -> {"none", "starting", "running", "stopping", "stopped",
                                      "crashed"}]
        /\ owner' \in [Container -> Key \cup {None}]
    BY <1>1, <1>3 DEF Types
  <2>3. QED
    BY <1>1, <2>1, <2>2 DEF Types, inside, histories
<1>6. (\A u \in Task : Of(u)' = Of(u))
      /\ Phases' /\ LocksHeld' /\ LocksOwed' /\ Sources' /\ Unmade'
  <2>1. \A c \in Container \ doubted' : owner'[c] \in {owner[c], Of(t)}
    BY <1>4
  <2>2. doubted' = doubted /\ unguarded' = unguarded
    BY <1>1 DEF histories
  <2>3. task[t].pc \in Seated /\ task'[t].pc \in Seated \ {"rehomed"}
    BY <1>1, <1>2 DEF Seated
  <2>4. QED
    BY <1>1, <1>2, <2>1, <2>2, <2>3, UnderLock
<1>7. Blank'
  BY <1>1, <1>3, <1>4 DEF Blank, inside
<1>8. Sound'
  BY <1>1, <1>3, <1>4 DEF Sound, inside, histories
<1>9. TasksPlaced'
  <2>1. ASSUME NEW u \in Task \ {t}, task[u].pc \in Owned \cup {"launched"},
               task[u].box \notin doubted
        PROVE  task[u].box # box
    <3>1. task[u].pc = "launched" => task[u].box # box
      BY <1>1, <2>1 DEF LaunchedApart
    <3>2. task[u].pc \in Owned => Of(u) # None /\ owner[task[u].box] = Of(u)
      BY <2>1, SeatedKeys DEF TasksPlaced, Placed, Owned
    <3>3. QED
      BY <1>3, <2>1, <3>1, <3>2
  <2>2. ASSUME NEW u \in Task \ {t}, task[u].pc \in {"creating", "launched"}
        PROVE  Of(u) # Of(t)
    BY <1>1, <2>2, SeatedAlone DEF Seated
  <2>3. ASSUME NEW u \in Task \ {t} PROVE Placed(u)'
    <3>1. Placed(u) /\ task'[u] = task[u] /\ Of(u)' = Of(u)
      BY <1>2, <1>6, <2>3 DEF TasksPlaced
    <3>2. task[u].pc \in Owned \cup {"launched"} => task[u].box \in Container
      BY <3>1 DEF Placed, Boxed, Seated, Owned
    <3>3. UNCHANGED <<proc, primary, doubted, unguarded>>
      BY <1>1 DEF inside, histories
    <3>4. task[u].pc \in {"creating", "launched"} /\ Of(u) \notin unguarded =>
              \A c \in Container \ doubted : ~Found(c, Of(u))'
      BY <1>4, <2>2, <2>3, <3>1 DEF Placed, Found
    <3>5. QED
      BY <1>4, <2>1, <2>3, <3>1, <3>2, <3>3, <3>4 DEF Placed, Boxed, Seated, Owned, Found
  <2>4. Placed(t)'
    BY <1>1, <1>2, <1>3, <1>4, <1>6 DEF Placed, inside
  <2>5. QED
    BY <2>3, <2>4 DEF TasksPlaced
<1>10. LaunchedApart'
  BY <1>2 DEF LaunchedApart
<1>11. Pending'
  <2>1. ASSUME NEW d \in Container \ doubted, posts[d] # <<>>
        PROVE  \E u \in Task : /\ posts[d] = <<u>>
                               /\ task'[u].pc \in Posting /\ task'[u].box = d
    <3>1. PICK u \in Task : /\ posts[d] = <<u>>
                            /\ task[u].pc \in Posting /\ task[u].box = d
      BY <2>1 DEF Pending
    <3>2. u # t
      BY <1>1, <3>1 DEF Posting
    <3>3. QED
      BY <1>2, <3>1, <3>2
  <2>2. ASSUME NEW d \in Container, NEW i \in 1..Len(posts[d])
        PROVE  task'[posts[d][i]] = task[posts[d][i]]
    <3>1. posts[d][i] \in Task
      BY <2>2 DEF Types
    <3>2. QED
      BY <1>1, <1>2, <2>2, <3>1 DEF Pending, Posting
  <2>3. posts' = posts /\ doubted' = doubted
    BY <1>1 DEF inside, histories
  <2>4. QED
    BY <2>1, <2>2, <2>3 DEF Pending
<1>12. Homes'
  <2>1. ASSUME Of(t) \notin unguarded
        PROVE  \A c \in Container \ doubted : ~Found(c, Of(t))
    BY <1>1, <2>1 DEF TasksPlaced, Placed
  <2>2. ASSUME NEW c \in Container \ doubted', NEW d \in Container \ doubted',
               NEW s \in Key \ unguarded', Found(c, s)', Found(d, s)'
        PROVE  c = d
    <3>1. doubted' = doubted /\ unguarded' = unguarded
      BY <1>1 DEF histories
    <3>2. (c = box \/ Found(c, s)) /\ (d = box \/ Found(d, s))
      BY <1>4, <2>2 DEF Found
    <3>3. c = box \/ d = box => s = Of(t)
      BY <1>4, <2>2 DEF Found
    <3>4. QED
      BY <2>1, <2>2, <3>1, <3>2, <3>3 DEF Homes
  <2>3. QED
    BY <2>2 DEF Homes
<1>13. QED
  BY <1>5, <1>6, <1>7, <1>8, <1>9, <1>10, <1>11, <1>12

LEMMA SavedKeeps ==
    ASSUME TypeOK, ResumeInv, NEW t \in Task, Saved(t)
    PROVE  ResumeInv'
<1> USE DEF ResumeInv
<1>1. /\ task[t].pc = "saving"
      /\ task' = [task EXCEPT ![t].pc = "waiting"]
      /\ UNCHANGED <<vars, lock, inside, registry, ending, histories>>
  BY DEF Saved, At, Moved
<1>2. /\ task'[t].pc = "waiting" /\ task'[t].from = task[t].from /\ task'[t].box = task[t].box
      /\ \A u \in Task \ {t} : task'[u] = task[u]
  BY <1>1 DEF Types, Standing
<1>3. Types'
  <2>1. [task EXCEPT ![t].pc = "waiting"] \in [Task -> Standing]
    BY MoveTyped DEF Phase
  <2>2. QED
    BY <1>1, <2>1 DEF Types, inside, registry, histories
<1>4. (\A u \in Task : Of(u)' = Of(u))
      /\ Phases' /\ LocksHeld' /\ LocksOwed' /\ Sources' /\ Unmade'
  BY <1>1, <1>2, UnderLock DEF Seated, registry, histories
<1>5. Placed(t)'
  BY <1>1, <1>2, <1>4 DEF TasksPlaced, Placed, Boxed, Seated, Owned, inside, registry, histories
<1>6. Blank' /\ Sound' /\ TasksPlaced' /\ LaunchedApart' /\ Pending' /\ Homes'
  BY <1>1, <1>2, <1>4, <1>5, Moves DEF Posting, Ahead, registry, histories
<1>7. QED
  BY <1>3, <1>4, <1>6

\* A cleanup begins: the container is registered, so its stop begins too.
LEMMA CleanupsKeep ==
    ASSUME TypeOK, ResumeInv, NEW t \in Task, SpawnFails(t) \/ CancelCleans(t)
    PROVE  ResumeInv'
<1> USE DEF ResumeInv
<1> DEFINE box == task[t].box
<1>1. PICK pc \in {"cleaning", "unwinding"} : task' = [task EXCEPT ![t].pc = pc]
  BY DEF SpawnFails, CancelCleans, Moved
<1>2. /\ task[t].pc \in {"waiting", "opening"} /\ BeginsEnding(box)
      /\ UNCHANGED <<vars, lock, inside, owner, unguarded>>
  BY DEF SpawnFails, CancelCleans, At
<1>3. /\ task'[t].pc = pc /\ task'[t].from = task[t].from /\ task'[t].box = box
      /\ \A u \in Task \ {t} : task'[u] = task[u]
  BY <1>1 DEF Types, Standing
<1>4. box \in Container /\ proc[box] # "absent"
  BY <1>2 DEF TasksPlaced, Placed, Boxed, Seated
<1>5. /\ box \in doubted' /\ doubted \subseteq doubted' /\ doubted' \subseteq Container
      /\ \A c \in Container \ {box} : status'[c] = status[c] /\ ending'[c] = ending[c]
      /\ status' \in [Container -> {"none", "starting", "running", "stopping", "stopped",
                                    "crashed"}]
      /\ ending' \in [Container -> {"none", "stopping", "removing"}]
  <2>1. CASE status[box] = "none" \/ ending[box] # "none"
    <3>1. UNCHANGED <<status, ending, doubted>>
      BY <1>2, <2>1 DEF BeginsEnding
    <3>2. box \notin doubted => owner[box] = Of(t) /\ Of(t) # None
      BY <1>2, SeatedKeys DEF TasksPlaced, Placed, Owned
    <3>3. box \in doubted
      BY <1>4, <2>1, <3>2 DEF Sound
    <3>4. QED
      BY <3>1, <3>3 DEF Types
  <2>2. CASE ~(status[box] = "none" \/ ending[box] # "none")
    <3>1. /\ status' = [status EXCEPT ![box] = "stopping"]
          /\ ending' = [ending EXCEPT ![box] = "stopping"]
          /\ doubted' = doubted \cup {box}
      BY <1>2, <2>2 DEF BeginsEnding
    <3>2. QED
      BY <1>4, <3>1 DEF Types
  <2>3. QED
    BY <2>1, <2>2
<1>6. Types'
  <2>1. [task EXCEPT ![t].pc = pc] \in [Task -> Standing]
    BY MoveTyped DEF Phase
  <2>2. QED
    BY <1>1, <1>2, <1>5, <2>1 DEF Types, inside
<1>7. (\A u \in Task : Of(u)' = Of(u))
      /\ Phases' /\ LocksHeld' /\ LocksOwed' /\ Sources' /\ Unmade'
  BY <1>2, <1>3, <1>5, UnderLock DEF Seated
<1>8. Placed(t)'
  BY <1>2, <1>3, <1>4, <1>5 DEF Placed, inside, Owned
<1>9. Blank' /\ Sound' /\ TasksPlaced' /\ LaunchedApart' /\ Pending' /\ Homes'
  BY <1>2, <1>3, <1>4, <1>5, <1>7, <1>8, Moves DEF Posting
<1>10. QED
  BY <1>6, <1>7, <1>9

-----------------------------------------------------------------------------
(* Containers, and what the registry learns of them.                       *)

\* A container changes and no task does: what has to hold of it while nobody
\* has doubted it.
LEMMA Turns ==
    ASSUME TypeOK, ResumeInv, NEW c \in Container, Types',
           UNCHANGED <<vars, taskVars, unguarded>>, doubted \subseteq doubted',
           proc[c] # "absent", proc'[c] # "absent",
           proc'[c] # "up" => primary'[c] = None /\ posts'[c] = <<>>,
           \A i \in 1..Len(posts'[c]) : \E m \in 1..Len(posts[c]) : posts'[c][i] = posts[c][m],
           \A d \in Container \ {c} :
               /\ proc'[d] = proc[d] /\ primary'[d] = primary[d] /\ posts'[d] = posts[d]
               /\ status'[d] = status[d] /\ owner'[d] = owner[d] /\ ending'[d] = ending[d],
           c \notin doubted' =>
               /\ ending'[c] = "none" /\ proc'[c] # "gone" /\ owner'[c] = owner[c]
               /\ status'[c] \in {"none", "starting", "running", "stopped"}
               /\ status'[c] = "none" => status[c] = "none"
               /\ status'[c] = "stopped" => proc'[c] = "down"
               /\ status[c] = "stopped" => status'[c] = "stopped"
               /\ primary'[c] \in {None, owner[c]}
               /\ posts'[c] \in {<<>>, posts[c]}
               /\ \A u \in Task :
                    /\ task[u].box = c /\ proc'[c] = "up"
                    /\ \/ task[u].pc = "answered" /\ task[u].answer = Of(u)
                       \/ task[u].pc = "served"
                    => proc[c] = "up" /\ primary'[c] = primary[c]
    PROVE  ResumeInv'
<1> USE DEF ResumeInv
<1>1. \A u \in Task : Of(u)' = Of(u) /\ task'[u] = task[u]
  BY DEF vars, taskVars, Of
<1>2. Phases' /\ Sources' /\ LaunchedApart'
  BY DEF Phases, Sources, LaunchedApart, vars, taskVars
<1>3. LocksHeld'
  BY <1>1 DEF LocksHeld, taskVars
<1>4. LocksOwed'
  BY <1>1 DEF LocksOwed, taskVars
<1>5. \A d \in Container \ doubted' : owner'[d] = owner[d]
  OBVIOUS
<1>6. Unmade'
  BY <1>1, <1>5, ChildrenAreSessions DEF Unmade, Task, vars
<1>7. Blank'
  BY DEF Blank
<1>8. Sound'
  BY DEF Sound
<1>9. ASSUME NEW d \in Container \ doubted', NEW s \in Key, Found(d, s)' PROVE Found(d, s)
  <2>1. owner[d] = s /\ s # None
    BY <1>5, <1>9, NoneIsNoJob DEF Found
  <2>2. d \notin doubted
    OBVIOUS
  <2>3. status[d] # "none" /\ status[d] \in {"none", "starting", "running", "stopped"}
    BY <2>1, <2>2 DEF Sound
  <2>4. status[d] # "stopped"
    BY <1>9 DEF Found, Live
  <2>5. QED
    BY <2>1, <2>3, <2>4 DEF Found, Live
<1>10. Homes'
  BY <1>9 DEF Homes
<1>11. ASSUME NEW u \in Task PROVE Placed(u)'
  <2>1. Placed(u)
    BY DEF TasksPlaced
  <2>2. task[u].pc \in {"creating", "launched"} => Of(u) \in Key
    BY SeatedKeys
  <2>3. task[u].pc \in {"creating", "launched"} /\ Of(u) \notin unguarded =>
            \A d \in Container \ doubted' : ~Found(d, Of(u))'
    BY <1>1, <1>9, <2>1, <2>2 DEF Placed
  <2>4. task[u].pc \in Boxed => proc'[task[u].box] # "absent"
    BY <2>1 DEF Placed
  <2>5. QED
    BY <1>1, <1>5, <2>1, <2>3, <2>4 DEF Placed, Boxed, Seated, Owned, Found
<1>12. Pending'
  <2>1. ASSUME NEW d \in Container \ doubted', posts'[d] # <<>>
        PROVE  \E u \in Task : /\ posts'[d] = <<u>>
                               /\ task'[u].pc \in Posting /\ task'[u].box = d
    <3>1. posts'[d] = posts[d]
      BY <2>1
    <3>2. QED
      BY <1>1, <2>1, <3>1 DEF Pending
  <2>2. ASSUME NEW d \in Container, NEW i \in 1..Len(posts'[d])
        PROVE  /\ task'[posts'[d][i]].pc
                      \in Posting \cup {"served", "cleaning", "unwinding", "over"}
               /\ task'[posts'[d][i]].pc \in Posting => task'[posts'[d][i]].box = d
    <3>1. PICK m \in 1..Len(posts[d]) : posts'[d][i] = posts[d][m]
      BY <2>2
    <3>2. posts[d][m] \in Task
      BY DEF Types
    <3>3. QED
      BY <1>1, <3>1, <3>2 DEF Pending
  <2>3. QED
    BY <2>1, <2>2 DEF Pending
<1>13. QED
  BY <1>2, <1>3, <1>4, <1>6, <1>7, <1>8, <1>10, <1>11, <1>12 DEF TasksPlaced

\* A stop and a removal, the monitor's verdict and a listing without it.
LEMMA DoubtedTurns ==
    ASSUME TypeOK, ResumeInv, NEW c \in Container,
           Deletes(c) \/ Stopped(c) \/ Removed(c) \/ GivesUp(c) \/ Unlisted(c)
    PROVE  ResumeInv'
<1> USE DEF ResumeInv
<1>1. /\ UNCHANGED <<vars, taskVars, owner, unguarded>>
      /\ doubted \subseteq doubted' /\ doubted' \subseteq Container
  BY DEF Deletes, BeginsEnding, Stopped, Removed, GivesUp, Unlisted, histories, Types
<1>2. c \in doubted'
  BY DEF Deletes, BeginsEnding, Stopped, Removed, GivesUp, Unlisted, histories, Sound
<1>3. proc[c] # "absent"
  BY DEF Deletes, BeginsEnding, Stopped, Removed, GivesUp, Unlisted, Blank, Live
<1>4. \/ UNCHANGED inside
      \/ proc' \in {[proc EXCEPT ![c] = "down"], [proc EXCEPT ![c] = "gone"]} /\ Down(c)
  BY DEF Deletes, Stopped, Removed, GivesUp, Unlisted
<1>5. /\ proc'[c] # "absent"
      /\ proc'[c] # "up" => primary'[c] = None /\ posts'[c] = <<>>
      /\ posts'[c] \in {posts[c], <<>>}
      /\ \A d \in Container \ {c} :
            proc'[d] = proc[d] /\ primary'[d] = primary[d] /\ posts'[d] = posts[d]
      /\ proc' \in [Container -> {"absent", "up", "down", "gone"}]
      /\ primary' \in [Container -> Key \cup {None}]
      /\ posts' \in [Container -> Seq(Task)]
  <2>1. CASE UNCHANGED inside
    BY <1>3, <2>1 DEF Types, inside, Blank
  <2>2. CASE /\ proc' \in {[proc EXCEPT ![c] = "down"], [proc EXCEPT ![c] = "gone"]}
             /\ Down(c)
    <3>1. PICK end \in {"down", "gone"} : proc' = [proc EXCEPT ![c] = end]
      BY <2>2
    <3>2. /\ primary' = [primary EXCEPT ![c] = None]
          /\ posts' = [posts EXCEPT ![c] = <<>>]
      BY <2>2 DEF Down
    <3>3. <<>> \in Seq(Task)
      OBVIOUS
    <3>4. QED
      BY <3>1, <3>2, <3>3 DEF Types
  <2>3. QED
    BY <1>4, <2>1, <2>2
<1>6. /\ \E st \in {"none", "stopping", "stopped", "crashed"} :
            status' = [status EXCEPT ![c] = st]
      /\ \/ ending' = ending
         \/ \E e \in {"none", "stopping", "removing"} : ending' = [ending EXCEPT ![c] = e]
  BY DEF Deletes, BeginsEnding, Stopped, Removed, GivesUp, Unlisted
<1>7. /\ \A d \in Container \ {c} : status'[d] = status[d] /\ ending'[d] = ending[d]
      /\ status' \in [Container -> {"none", "starting", "running", "stopping", "stopped",
                                    "crashed"}]
      /\ ending' \in [Container -> {"none", "stopping", "removing"}]
  BY <1>6 DEF Types
<1>8. Types'
  BY <1>1, <1>5, <1>7 DEF Types, taskVars
<1>9. \A i \in 1..Len(posts'[c]) : \E m \in 1..Len(posts[c]) : posts'[c][i] = posts[c][m]
  BY <1>5
<1>10. QED
  BY <1>1, <1>2, <1>3, <1>5, <1>7, <1>8, <1>9, Turns

LEMMA ExitsKeeps ==
    ASSUME TypeOK, ResumeInv, NEW c \in Container, Exits(c)
    PROVE  ResumeInv'
<1> USE DEF ResumeInv
<1>1. /\ proc[c] = "up" /\ proc' = [proc EXCEPT ![c] = "down"]
      /\ primary' = [primary EXCEPT ![c] = None] /\ posts' = [posts EXCEPT ![c] = <<>>]
      /\ UNCHANGED <<vars, taskVars, registry, ending, histories>>
  BY DEF Exits, Down
<1>2. /\ proc'[c] = "down" /\ primary'[c] = None /\ posts'[c] = <<>>
      /\ \A d \in Container \ {c} :
            proc'[d] = proc[d] /\ primary'[d] = primary[d] /\ posts'[d] = posts[d]
  BY <1>1 DEF Types
<1>3. Types'
  BY <1>1 DEF Types, taskVars, registry, histories
<1>4. QED
  BY <1>1, <1>2, <1>3, Turns DEF Sound, registry, histories

LEMMA ListedKeeps ==
    ASSUME TypeOK, ResumeInv, NEW c \in Container, Listed(c)
    PROVE  ResumeInv'
<1> USE DEF ResumeInv
<1>1. /\ proc[c] \in {"up", "down"}
      /\ status' = [status EXCEPT ![c] = IF proc[c] = "up" THEN "running" ELSE "stopped"]
      /\ owner' = [owner EXCEPT ![c] = IF status[c] = "none" THEN None ELSE @]
      /\ UNCHANGED <<vars, taskVars, inside, ending, histories>>
  BY DEF Listed
<1>2. /\ status'[c] = IF proc[c] = "up" THEN "running" ELSE "stopped"
      /\ \A d \in Container \ {c} : status'[d] = status[d] /\ owner'[d] = owner[d]
      /\ c \notin doubted => owner'[c] = owner[c]
  BY <1>1 DEF Types, Sound
<1>3. Types'
  BY <1>1 DEF Types, taskVars, inside, histories
<1>4. proc[c] # "up" => primary[c] = None /\ posts[c] = <<>>
  BY DEF Blank
<1>5. UNCHANGED <<vars, taskVars, proc, primary, posts, ending, doubted, unguarded>>
  BY <1>1 DEF inside, histories
<1>6. QED
  BY <1>1, <1>2, <1>3, <1>4, <1>5, Turns DEF Sound

LEMMA ProbesKeeps ==
    ASSUME TypeOK, ResumeInv, NEW c \in Container, Probes(c)
    PROVE  ResumeInv'
<1> USE DEF ResumeInv
<1>1. /\ proc[c] = "up" /\ status[c] \in {"starting", "running", "crashed"}
      /\ status' = [status EXCEPT ![c] = "running"]
      /\ owner' = [owner EXCEPT ![c] = IF primary[c] = None THEN @ ELSE primary[c]]
  BY DEF Probes, Probed, Live
<1>2. UNCHANGED <<vars, taskVars, proc, primary, posts, ending, doubted, unguarded>>
  BY DEF Probes, inside, histories
<1>3. /\ status'[c] = "running"
      /\ \A d \in Container \ {c} : status'[d] = status[d] /\ owner'[d] = owner[d]
      /\ c \notin doubted => owner'[c] = owner[c]
  BY <1>1 DEF Types, Sound
<1>4. Types'
  BY <1>1, <1>2 DEF Types, taskVars
<1>5. QED
  BY <1>1, <1>2, <1>3, <1>4, Turns DEF Sound

\* The start at the head of a container's posts: in one nobody doubted, the
\* owner's own, alone, and nobody else is about to hand the container out.
LEMMA Heads ==
    ASSUME TypeOK, ResumeInv, NEW c \in Container, posts[c] # <<>>
    PROVE  /\ Head(posts[c]) \in Task /\ proc[c] = "up" /\ Of(Head(posts[c])) \in Key
           /\ task[Head(posts[c])].pc \in Posting => task[Head(posts[c])].box = c
           /\ c \notin doubted =>
                /\ posts[c] = <<Head(posts[c])>> /\ task[Head(posts[c])].pc \in Posting
                /\ owner[c] = Of(Head(posts[c]))
                /\ \A u \in Task :
                     task[u].box = c /\ task[u].pc \in Owned => u = Head(posts[c])
<1> USE DEF ResumeInv
<1> DEFINE t == Head(posts[c])
<1>1. posts[c] \in Seq(Task) /\ 1 \in 1..Len(posts[c]) /\ t = posts[c][1] /\ t \in Task
  BY DEF Types
<1>2. proc[c] = "up"
  BY DEF Blank
<1>3. /\ task[t].pc \in Posting \cup {"served", "cleaning", "unwinding", "over"}
      /\ task[t].pc \in Posting => task[t].box = c
  BY <1>1 DEF Pending
<1>4. Of(t) \in Key
  BY <1>1, <1>3, SeatedKeys DEF Posting
<1>5. ASSUME c \notin doubted
      PROVE  /\ posts[c] = <<t>> /\ task[t].pc \in Posting /\ owner[c] = Of(t)
             /\ \A u \in Task : task[u].box = c /\ task[u].pc \in Owned => u = t
  <2>1. PICK w \in Task : posts[c] = <<w>> /\ task[w].pc \in Posting /\ task[w].box = c
    BY <1>5 DEF Pending
  <2>2. w = t
    BY <2>1
  <2>3. owner[c] = Of(t)
    BY <1>5, <2>1, <2>2 DEF TasksPlaced, Placed, Owned, Posting
  <2>4. ASSUME NEW u \in Task, task[u].box = c, task[u].pc \in Owned PROVE u = t
    <3>1. owner[c] = Of(u)
      BY <1>5, <2>4 DEF TasksPlaced, Placed
    <3>2. QED
      BY <1>1, <2>1, <2>2, <2>3, <2>4, <3>1, SeatedAlone DEF Seated, Owned, Posting
  <2>5. QED
    BY <2>1, <2>2, <2>3, <2>4
<1>6. QED
  BY <1>1, <1>2, <1>3, <1>4, <1>5

\* What is left of the posts is a part of what was there.
LEMMA Tails ==
    ASSUME Types, NEW c \in Container, posts[c] # <<>>
    PROVE  /\ [posts EXCEPT ![c] = Tail(@)] \in [Container -> Seq(Task)]
           /\ \A i \in 1..Len(Tail(posts[c])) :
                \E m \in 1..Len(posts[c]) : Tail(posts[c])[i] = posts[c][m]
<1>1. posts[c] \in Seq(Task)
  BY DEF Types
<1>2. /\ Tail(posts[c]) \in Seq(Task)
      /\ \A i \in 1..Len(Tail(posts[c])) :
            i + 1 \in 1..Len(posts[c]) /\ Tail(posts[c])[i] = posts[c][i + 1]
  <2>1. ASSUME NEW seq \in Seq(Task), seq # <<>>
        PROVE  Tail(seq) \in Seq(Task) /\ Len(Tail(seq)) = Len(seq) - 1
    BY <2>1
  <2>2. ASSUME NEW seq \in Seq(Task), seq # <<>>, NEW i \in 1..Len(Tail(seq))
        PROVE  i + 1 \in 1..Len(seq) /\ Tail(seq)[i] = seq[i + 1]
    BY <2>1, <2>2
  <2>3. QED
    BY <1>1, <2>1, <2>2
<1>3. QED
  BY <1>2 DEF Types

\* A start nobody waits for any more, or one that is refused.
LEMMA HeadTurns ==
    ASSUME TypeOK, ResumeInv, NEW c \in Container, posts[c] # <<>>,
           UNCHANGED <<vars, taskVars, proc, registry, ending, histories>>,
           posts' = [posts EXCEPT ![c] = Tail(@)],
           \/ primary' = [primary EXCEPT ![c] = None]
           \/ primary' = [primary EXCEPT ![c] = Of(Head(posts[c]))]
    PROVE  ResumeInv'
<1> USE DEF ResumeInv
<1>1. Head(posts[c]) \in Task /\ proc[c] = "up" /\ Of(Head(posts[c])) \in Key
  BY Heads
<1>2. /\ primary' \in [Container -> Key \cup {None}]
      /\ primary'[c] \in {None, Of(Head(posts[c]))}
      /\ posts' \in [Container -> Seq(Task)] /\ posts'[c] = Tail(posts[c])
      /\ \A d \in Container \ {c} : primary'[d] = primary[d] /\ posts'[d] = posts[d]
  <2>1. Types
    OBVIOUS
  <2>2. posts' \in [Container -> Seq(Task)]
    BY <2>1, Tails
  <2>3. /\ posts'[c] = Tail(posts[c])
        /\ \A d \in Container \ {c} : posts'[d] = posts[d]
    BY <2>1 DEF Types
  <2>4. PICK key \in {None, Of(Head(posts[c]))} : primary' = [primary EXCEPT ![c] = key]
    OBVIOUS
  <2>5. key \in Key \cup {None}
    BY <1>1, <2>4
  <2>6. /\ primary' \in [Container -> Key \cup {None}] /\ primary'[c] = key
        /\ \A d \in Container \ {c} : primary'[d] = primary[d]
    BY <2>1, <2>4, <2>5 DEF Types
  <2>7. QED
    BY <2>2, <2>3, <2>4, <2>6
<1>3. Types'
  BY <1>2 DEF Types, taskVars, registry, histories
<1>4. \A i \in 1..Len(posts'[c]) : \E m \in 1..Len(posts[c]) : posts'[c][i] = posts[c][m]
  BY <1>2, Tails
<1>5. ASSUME c \notin doubted
      PROVE  /\ primary'[c] \in {None, owner[c]} /\ posts'[c] = <<>>
             /\ \A u \in Task : task[u].box = c => task[u].pc \notin {"answered", "served"}
  <2>1. /\ posts[c] = <<Head(posts[c])>> /\ owner[c] = Of(Head(posts[c]))
        /\ task[Head(posts[c])].pc \in Posting
        /\ \A u \in Task : task[u].box = c /\ task[u].pc \in Owned => u = Head(posts[c])
    BY <1>5, Heads
  <2>2. \A u : Tail(<<u>>) = <<>>
    OBVIOUS
  <2>3. Tail(posts[c]) = <<>>
    BY <2>1, <2>2
  <2>4. QED
    BY <1>2, <2>1, <2>3 DEF Owned, Posting
<1>6. UNCHANGED <<vars, taskVars, proc, status, owner, ending, doubted, unguarded>>
  BY DEF registry, histories
<1>7. QED
  BY <1>1, <1>2, <1>3, <1>4, <1>5, <1>6, Turns DEF Sound

LEMMA RefusesKeeps ==
    ASSUME TypeOK, ResumeInv, NEW c \in Container, Refuses(c)
    PROVE  ResumeInv'
BY HeadTurns DEF Refuses

LEMMA ServesKeeps ==
    ASSUME TypeOK, ResumeInv, NEW c \in Container, Serves(c)
    PROVE  ResumeInv'
<1> USE DEF ResumeInv
<1>1. PICK t \in Task :
      /\ posts[c] # <<>> /\ t = Head(posts[c])
      /\ primary' = [primary EXCEPT ![c] = Of(t)] /\ posts' = [posts EXCEPT ![c] = Tail(@)]
      /\ UNCHANGED <<vars, lock, proc, registry, ending, histories>>
  BY Heads DEF Serves
<1>2. CASE ~At(t, {"starting", "opening"})
  BY <1>1, <1>2, HeadTurns DEF Serves, taskVars
<1>3. CASE At(t, {"starting", "opening"})
  <2>1. /\ t \in Task /\ proc[c] = "up" /\ Of(t) \in Key
        /\ task[t].pc \in Posting /\ task[t].box = c
        /\ c \notin doubted =>
             /\ posts[c] = <<t>> /\ owner[c] = Of(t)
             /\ \A u \in Task : task[u].box = c /\ task[u].pc \in Owned => u = t
    BY <1>1, <1>3, Heads DEF At, Posting
  <2>2. task' = [task EXCEPT ![t].pc = "served"]
    BY <1>1, <1>3 DEF Serves, Moved
  <2>3. /\ task'[t].pc = "served" /\ task'[t].from = task[t].from /\ task'[t].box = c
        /\ \A u \in Task \ {t} : task'[u] = task[u]
    BY <2>1, <2>2 DEF Types, Standing
  <2>4. /\ primary' \in [Container -> Key \cup {None}] /\ primary'[c] = Of(t)
        /\ posts' \in [Container -> Seq(Task)] /\ posts'[c] = Tail(posts[c])
        /\ \A d \in Container \ {c} : primary'[d] = primary[d] /\ posts'[d] = posts[d]
    BY <1>1, <2>1, Tails DEF Types
  <2>5. Types'
    <3>1. [task EXCEPT ![t].pc = "served"] \in [Task -> Standing]
      BY <2>1, MoveTyped DEF Phase
    <3>2. QED
      BY <1>1, <2>2, <2>4, <3>1 DEF Types, registry, histories
  <2>6. (\A u \in Task : Of(u)' = Of(u))
        /\ Phases' /\ LocksHeld' /\ LocksOwed' /\ Sources' /\ Unmade'
    <3>1. task[t].pc \in Seated /\ task'[t].pc \in Seated \ {"rehomed"}
      BY <2>1, <2>3 DEF Seated, Posting
    <3>2. UNCHANGED <<vars, lock, owner, doubted, unguarded>>
      BY <1>1 DEF registry, histories
    <3>3. QED
      BY <2>1, <2>3, <3>1, <3>2, UnderLock
  <2>7. Blank'
    BY <1>1, <2>1, <2>4 DEF Blank, registry
  <2>8. Sound'
    BY <1>1, <2>1, <2>4 DEF Sound, registry, histories
  <2>9. ASSUME NEW u \in Task \ {t} PROVE Placed(u)'
    <3>1. Placed(u) /\ task'[u] = task[u] /\ Of(u)' = Of(u)
      BY <2>3, <2>6 DEF TasksPlaced
    <3>2. c \notin doubted => ~(task[u].box = c /\ task[u].pc \in {"answered", "served"})
      BY <2>1 DEF Owned
    <3>3. UNCHANGED <<proc, status, owner, doubted, unguarded>>
      BY <1>1 DEF registry, histories
    <3>4. QED
      BY <2>4, <3>1, <3>2, <3>3 DEF Placed, Found, Boxed, Seated
  <2>10. Placed(t)'
    BY <1>1, <2>1, <2>3, <2>4, <2>6 DEF Placed, registry, histories
  <2>11. LaunchedApart'
    BY <2>3 DEF LaunchedApart
  <2>12. Pending'
    <3>1. c \notin doubted => posts'[c] = <<>>
      <4>1. \A u : Tail(<<u>>) = <<>>
        OBVIOUS
      <4>2. ASSUME c \notin doubted PROVE Tail(posts[c]) = <<>>
        BY <2>1, <4>1, <4>2
      <4>3. QED
        BY <2>4, <4>2
    <3>2. ASSUME NEW d \in Container \ doubted, posts'[d] # <<>>
          PROVE  \E u \in Task : /\ posts'[d] = <<u>>
                                 /\ task'[u].pc \in Posting /\ task'[u].box = d
      <4>1. d # c /\ posts'[d] = posts[d]
        BY <2>4, <3>1, <3>2
      <4>2. PICK u \in Task : posts[d] = <<u>> /\ task[u].pc \in Posting /\ task[u].box = d
        BY <3>2, <4>1 DEF Pending
      <4>3. u # t
        BY <2>1, <4>1, <4>2
      <4>4. QED
        BY <2>3, <4>1, <4>2, <4>3
    <3>3. ASSUME NEW d \in Container, NEW i \in 1..Len(posts'[d])
          PROVE  /\ task'[posts'[d][i]].pc
                        \in Posting \cup {"served", "cleaning", "unwinding", "over"}
                 /\ task'[posts'[d][i]].pc \in Posting => task'[posts'[d][i]].box = d
      <4>1. PICK m \in 1..Len(posts[d]) : posts'[d][i] = posts[d][m]
        BY <1>1, <2>4, <3>3, Tails
      <4>2. posts[d][m] \in Task
        BY DEF Types
      <4>3. QED
        BY <2>3, <4>1, <4>2 DEF Pending, Posting
    <3>4. QED
      BY <1>1, <3>2, <3>3 DEF Pending, histories
  <2>13. Homes'
    BY <1>1 DEF Homes, Found, registry, histories
  <2>14. QED
    BY <2>5, <2>6, <2>7, <2>8, <2>9, <2>10, <2>11, <2>12, <2>13 DEF TasksPlaced
<1>4. QED
  BY <1>2, <1>3

-----------------------------------------------------------------------------
(* The invariant, and the single flight below.                             *)

LEMMA ResumeStarts == ResumeInit => ResumeInv
<1> SUFFICES ASSUME ResumeInit PROVE ResumeInv
  OBVIOUS
<1> USE DEF ResumeInit
<1>1. \A t \in Task : task[t] = Unbegun
  OBVIOUS
<1>2. \A j \in Job : job[j].state = "unborn" /\ job[j].key = None
  BY DEF Init, Unborn
<1>3. Types
  <2>1. Unbegun \in Standing
    BY DEF Unbegun, Phase, Standing
  <2>2. <<>> \in Seq(Task)
    OBVIOUS
  <2>3. QED
    BY <2>1, <2>2 DEF Types
<1>4. Phases
  BY <1>1, <1>2 DEF Phases, Unbegun, Task
<1>5. LocksHeld /\ LaunchedApart
  BY <1>1 DEF LocksHeld, LaunchedApart, Unbegun, Seated
<1>6. LocksOwed
  BY NoneIsNoJob, ChildrenAreSessions DEF LocksOwed, Task
<1>7. Sources
  BY <1>1, NoneIsNoJob, ChildrenAreSessions DEF Sources, Task, Unbegun
<1>8. Blank /\ Sound
  BY DEF Blank, Sound
<1>9. TasksPlaced
  BY <1>1 DEF TasksPlaced, Placed, Unbegun, Boxed, Seated, Owned
<1>10. Pending
  BY DEF Pending
<1>11. Unmade
  BY <1>1, NoneIsNoJob, ChildrenAreSessions DEF Unmade, Unbegun, Task
<1>12. Homes
  BY DEF Homes, Found, Live
<1>13. QED
  BY <1>3, <1>4, <1>5, <1>6, <1>7, <1>8, <1>9, <1>10, <1>11, <1>12 DEF ResumeInv

LEMMA ResumeSteps == TypeOK /\ ResumeInv /\ [ResumeNext]_resumeVars => ResumeInv'
<1> SUFFICES ASSUME TypeOK, ResumeInv, [ResumeNext]_resumeVars PROVE ResumeInv'
  OBVIOUS
<1>1. CASE \E c \in Caller, k \in Key, j \in Job : Resumes(c, k, j)
  BY <1>1, ResumesKeeps
<1>2. CASE \E c \in Caller : CallerMoves(c)
  BY <1>2, CallersKeep
<1>3. ASSUME NEW j \in Job, JobReleases(j) \/ Resuming(j) PROVE ResumeInv'
  <2>1. j \in Task
    BY DEF Task
  <2>2. CASE Adopts(j)
    <3>1. Of(j) \in Key
      BY <2>1, <2>2, SeatedKeys DEF Adopts, At
    <3>2. QED
      BY <2>1, <2>2, <3>1, OverKeeps
  <2>3. CASE ~Adopts(j)
    BY <1>3, <2>1, <2>3, CallbacksKeep, TakesLockKeeps, FindsNoneKeeps, ReportsKeeps, FindsKeeps,
       PostingKeeps, AdoptsOtherKeeps DEF Resuming
  <2>4. QED
    BY <2>2, <2>3
<1>4. ASSUME NEW k \in Child,
             ForkWaitsOn(k) \/ ForkPosts(k) \/ (\E s \in Key : Forking(k, s))
      PROVE  ResumeInv'
  <2>1. k \in Task
    BY DEF Task
  <2>2. QED
    BY <1>4, <2>1, ForkWaitsOnKeeps, PostingKeeps, ForkWaitsKeeps, ForkSpawnsKeeps, OverKeeps,
       ForkReusesKeeps DEF Forking
<1>5. ASSUME NEW t \in Task, Spawning(t) \/ Unwinding(t) PROVE ResumeInv'
  <2>1. CASE Completes(t) \/ Fails(t) \/ StartFails(t) \/ CancelEnds(t) \/ Cleaned(t)
    <3>1. task[t].pc # "unborn"
      BY <2>1 DEF Completes, Fails, StartFails, CancelEnds, Cleaned, At, Bare
    <3>2. Of(t) \in Key
      BY <3>1, SeatedKeys
    <3>3. QED
      BY <2>1, <3>2, OverKeeps
  <2>2. CASE SpawnFails(t) \/ CancelCleans(t)
    BY <2>2, CleanupsKeep
  <2>3. CASE (\E c \in Container : Launches(t, c)) \/ Registers(t) \/ Saved(t) \/ Opens(t)
    BY <2>3, LaunchesKeeps, RegistersKeeps, SavedKeeps, PostingKeeps
  <2>4. QED
    BY <1>5, <2>1, <2>2, <2>3 DEF Spawning, Unwinding
<1>6. ASSUME NEW c \in Container, Around(c) PROVE ResumeInv'
  BY <1>6, DoubtedTurns, ServesKeeps, RefusesKeeps, ExitsKeeps, ListedKeeps, ProbesKeeps
  DEF Around
<1>7. CASE UNCHANGED resumeVars
  BY <1>7, FlightKeeps DEF resumeVars, vars
<1>8. QED
  BY <1>1, <1>2, <1>3, <1>4, <1>5, <1>6, <1>7 DEF ResumeNext

\* What a step does to the flights: one of their own steps, or nothing.
LEMMA FlightSteps == [ResumeNext]_resumeVars => [Next]_vars
<1> SUFFICES ASSUME [ResumeNext]_resumeVars PROVE [Next]_vars
  OBVIOUS
<1>1. CASE \E c \in Caller, k \in Key, j \in Job : Resumes(c, k, j)
  BY <1>1 DEF Resumes, Next
<1>2. CASE \E c \in Caller : CallerMoves(c)
  BY <1>2 DEF CallerMoves, Next
<1>3. ASSUME NEW t \in Task, Ends(t) PROVE [Next]_vars
  BY <1>3 DEF Ends, Next
<1>4. ASSUME NEW j \in Job, JobReleases(j) \/ Resuming(j) PROVE [Next]_vars
  BY <1>3, <1>4 DEF JobReleases, Resuming, TakesLock, FindsNone, Reports, Finds, Adopts,
     AdoptsIdle, AdoptsOther, Task, Next
<1>5. ASSUME NEW k \in Child,
             ForkWaitsOn(k) \/ ForkPosts(k) \/ (\E s \in Key : Forking(k, s))
      PROVE  [Next]_vars
  BY <1>3, <1>5 DEF ForkWaitsOn, ForkPosts, Forking, ForkWaits, ForkSpawns, ForkFindsNone,
     ForkReuses, Task
<1>6. ASSUME NEW t \in Task, Spawning(t) \/ Unwinding(t) PROVE [Next]_vars
  BY <1>3, <1>6 DEF Spawning, Launches, Registers, Saved, Opens, Completes,
     Unwinding, Fails, StartFails, SpawnFails, CancelEnds, CancelCleans, Cleaned
<1>7. ASSUME NEW c \in Container, Around(c) PROVE [Next]_vars
  BY <1>7 DEF Around, Deletes, Stopped, Removed, Serves, Refuses, Exits, Listed, Unlisted,
     GivesUp, Probes
<1>8. CASE UNCHANGED resumeVars
  BY <1>8 DEF resumeVars
<1>9. QED
  BY <1>1, <1>2, <1>4, <1>5, <1>6, <1>7, <1>8 DEF ResumeNext

(* Resumes share jobs as KeyedSingleFlight says: whatever a resume, a fork *)
(* or the registry does is a step of it, or leaves it alone.               *)
THEOREM Implements == ResumeSpec => Spec
<1>1. ResumeInit => Init
  BY DEF ResumeInit
<1>2. QED
  BY <1>1, FlightSteps, PTL DEF ResumeSpec, Spec

(* Every reachable state satisfies the invariant.                          *)
THEOREM ResumeInvariance == ResumeSpec => [](TypeOK /\ ResumeInv)
<1>1. ResumeSpec => []TypeOK
  BY Implements, Typing, PTL
<1>2. QED
  BY <1>1, ResumeStarts, ResumeSteps, PTL DEF ResumeSpec

-----------------------------------------------------------------------------
(* What the daemon promises of a session's container.                      *)

(* Types; and whoever holds a session's lock is a task under way, for that *)
(* session or forking it (_session_lock).                                  *)
THEOREM ResumeTyping == ResumeSpec => []ResumeTypeOK
<1>1. ASSUME TypeOK, ResumeInv PROVE ResumeTypeOK
  <2>1. Types /\ LocksOwed
    BY <1>1 DEF ResumeInv
  <2>2. ASSUME NEW k \in Key, lock[k] # None
        PROVE  /\ task[lock[k]].pc \notin {"unborn", "locking", "over"}
               /\ k \in {Of(lock[k]), task[lock[k]].from}
    BY <2>1, <2>2 DEF Types, LocksOwed
  <2>3. QED
    BY <1>1, <2>1, <2>2 DEF ResumeTypeOK, Types, Standing
<1>2. QED
  BY <1>1, ResumeInvariance, PTL

(* A session has two containers only where one was given up, stopped,      *)
(* rehomed or left with a start pending (resume, fork).                    *)
THEOREM HomeAlone == ResumeSpec => []OneHome
<1>1. ASSUME ResumeInv PROVE OneHome
  <2>1. ASSUME NEW c \in Container \ doubted, NEW s \in Key, Holds(c, s) PROVE Found(c, s)
    <3>1. CASE primary[c] = s
      <4>1. owner[c] = s /\ s # None
        BY <1>1, <3>1, NoneIsNoJob DEF ResumeInv, Sound
      <4>2. proc[c] = "up"
        BY <1>1, <3>1, <4>1 DEF ResumeInv, Types, Blank
      <4>3. QED
        BY <1>1, <4>1, <4>2 DEF ResumeInv, Sound, Found, Live
    <3>2. QED
      BY <2>1, <3>1 DEF Holds
  <2>2. QED
    BY <1>1, <2>1 DEF OneHome, ResumeInv, Homes
<1>2. QED
  BY <1>1, ResumeInvariance, PTL

\* Which ends are returns.
LEMMA ReturnsServed ==
    ASSUME TypeOK, ResumeInv, ResumeNext, NEW j \in Job, Returned(j)
    PROVE  (task[j].pc = "answered" /\ task[j].answer = Of(j)) \/ task[j].pc = "served"
<1>1. /\ task[j].pc \in {"answered", "served"} /\ task'[j].pc = "over" /\ j \in Task
      /\ job'[j].state = "done" /\ task \in [Task -> Standing]
  BY DEF Returned, Task, ResumeInv, Types
<1>2. ASSUME task' = task PROVE FALSE
  BY <1>1, <1>2
<1>3. ASSUME NEW t \in Task, NEW pc, task' = Moved(t, pc), pc # "over" PROVE FALSE
  BY <1>1, <1>3 DEF Moved
<1>4. ASSUME NEW t \in Task, Ends(t) PROVE t = j
  BY <1>1, <1>4 DEF Ends
<1>5. CASE \E c \in Caller, k \in Key, i \in Job : Resumes(c, k, i)
  BY <1>3, <1>5 DEF Resumes, Task
<1>6. CASE \E c \in Caller : CallerMoves(c)
  BY <1>2, <1>6 DEF CallerMoves, taskVars
<1>7. ASSUME NEW i \in Job, JobReleases(i) \/ Resuming(i)
      PROVE  task[j].pc = "answered" /\ task[j].answer = Of(j)
  <2>1. i \in Task
    BY DEF Task
  <2>2. CASE Adopts(i)
    BY <1>4, <2>1, <2>2 DEF Adopts, At
  <2>3. CASE JobReleases(i)
    BY <1>2, <2>3 DEF JobReleases, taskVars
  <2>4. CASE TakesLock(i) \/ FindsNone(i) \/ AdoptsIdle(i)
    BY <1>3, <2>1, <2>4 DEF TakesLock, FindsNone, AdoptsIdle
  <2>5. CASE Reports(i) \/ (\E c \in Container : Finds(i, c)) \/ AdoptsOther(i)
    <3>1. CASE i = j
      BY <1>1, <2>1, <2>5, <3>1 DEF Reports, Finds, AdoptsOther, At, Unbegun
    <3>2. CASE i # j
      <4>1. task'[j] = task[j]
        BY <1>1, <2>1, <2>5, <3>2 DEF Reports, Finds, AdoptsOther
      <4>2. QED
        BY <1>1, <4>1
    <3>3. QED
      BY <3>1, <3>2
  <2>6. QED
    BY <1>7, <2>2, <2>3, <2>4, <2>5 DEF Resuming
<1>8. ASSUME NEW k \in Child,
             ForkWaitsOn(k) \/ ForkPosts(k) \/ (\E s \in Key : Forking(k, s))
      PROVE  FALSE
  <2>1. k \in Task /\ k # j
    BY ChildrenAreSessions, JobsAreNoSessions DEF Task
  <2>2. task'[j] = task[j]
    BY <1>1, <1>8, <2>1 DEF ForkWaitsOn, ForkPosts, Forking, ForkWaits, ForkSpawns, ForkFindsNone,
       ForkReuses, Ends, Moved
  <2>3. QED
    BY <1>1, <2>2
<1>9. ASSUME NEW t \in Task, Spawning(t) \/ Unwinding(t) PROVE task[j].pc = "served"
  <2>1. CASE \E c \in Container : Launches(t, c)
    BY <1>1, <2>1 DEF Launches
  <2>2. CASE Registers(t) \/ Saved(t) \/ Opens(t) \/ SpawnFails(t) \/ CancelCleans(t)
    BY <1>3, <2>2 DEF Registers, Saved, Opens, SpawnFails, CancelCleans
  <2>3. CASE Completes(t)
    BY <1>4, <2>3 DEF Completes, At
  <2>4. CASE Fails(t) \/ StartFails(t) \/ Cleaned(t)
    BY <1>1, <1>4, <2>4 DEF Fails, StartFails, Cleaned, At, Bare
  <2>5. CASE CancelEnds(t)
    BY <1>1, <1>4, <2>5 DEF CancelEnds
  <2>6. QED
    BY <1>9, <2>1, <2>2, <2>3, <2>4, <2>5 DEF Spawning, Unwinding
<1>10. ASSUME NEW c \in Container, Around(c) PROVE FALSE
  <2>1. CASE Serves(c)
    <3>1. Head(posts[c]) \in Task
      BY <2>1, Heads DEF Serves
    <3>2. QED
      BY <1>2, <1>3, <2>1, <3>1 DEF Serves
  <2>2. CASE ~Serves(c)
    BY <1>2, <1>10, <2>2 DEF Around, Deletes, Stopped, Removed, Refuses, Exits, Listed, Unlisted,
       GivesUp, Probes, taskVars
  <2>3. QED
    BY <2>1, <2>2
<1>11. QED
  BY <1>5, <1>6, <1>7, <1>8, <1>9, <1>10 DEF ResumeNext

(* The container a resume returns runs the session, unless it exited or    *)
(* was doubted meanwhile (_adopt, _start_session_in).                      *)
THEOREM Serving == ResumeSpec => ResumedServes
<1>1. ASSUME TypeOK, ResumeInv, [ResumeNext]_resumeVars, NEW j \in Job, Returned(j),
             task[j].box \notin doubted, proc[task[j].box] = "up"
      PROVE  primary[task[j].box] = Of(j)
  <2>1. ResumeNext
    BY <1>1 DEF Returned, resumeVars, taskVars
  <2>2. (task[j].pc = "answered" /\ task[j].answer = Of(j)) \/ task[j].pc = "served"
    BY <1>1, <2>1, ReturnsServed
  <2>3. QED
    BY <1>1, <2>2 DEF ResumeInv, TasksPlaced, Placed, Task
<1>2. TypeOK /\ ResumeInv /\ [ResumeNext]_resumeVars =>
      [\A j \in Job :
         Returned(j) /\ task[j].box \notin doubted /\ proc[task[j].box] = "up"
         => primary[task[j].box] = Of(j)]_resumeVars
  BY <1>1
<1>3. QED
  BY <1>2, ResumeInvariance, PTL DEF ResumeSpec, ResumedServes

-----------------------------------------------------------------------------
(* Why the locks are let go of: forks wait for one while holding another.  *)

\* Who waits at the lock of a session, and who has it.
AtLock(t) == task[t].pc \in {"locking", "locked"}
Sought(t) == IF t \in Child /\ task[t].pc = "locking" THEN task[t].from ELSE Of(t)
Awaits(t, u) == AtLock(t) /\ lock[Sought(t)] = u

(* Waiting for one another leads somewhere: those who wait for a lock held *)
(* by one that waits itself can be ranked, so no circle of resumes and     *)
(* forks ever waits for its own locks, however long a line of forks of     *)
(* forks grows (fork takes the source's lock, then the child's).           *)
NoLockCycle ==
    \E rank \in [Task -> Nat] :
        \A t, u \in Task : Awaits(t, u) /\ AtLock(u) => rank[t] < rank[u]

\* Forks can be ranked by when they began.
Begun(rank) ==
    \A k \in Child : task[k].from \in Child => rank[task[k].from] < rank[k]

\* A fork that waits for its child's lock does not have it.
ForksApart == \A k \in Child : task[k].pc = "locked" => lock[k] # k

Ranked == ForksApart /\ \E rank \in [Child -> Nat] : Begun(rank)

\* A fork gets its source when it begins, from among the sessions there are,
\* and takes only that one's lock before its own.
LEMMA SourceChosen ==
    ASSUME TypeOK, ResumeInv, [ResumeNext]_resumeVars, NEW k \in Child
    PROVE  /\ \/ task'[k].from \in {task[k].from, None}
              \/ /\ task[k].pc = "unborn" /\ task'[k].from \in Key
                 /\ task'[k].from \in Child => task[task'[k].from].pc # "unborn"
           /\ task'[k].pc = "locked" /\ lock'[k] = k =>
                 (task[k].pc = "locked" /\ lock[k] = k) \/ task[k].from = k
<1> DEFINE Chosen ==
             \/ task'[k].from \in {task[k].from, None}
             \/ /\ task[k].pc = "unborn" /\ task'[k].from \in Key
                /\ task'[k].from \in Child => task[task'[k].from].pc # "unborn"
           Apart ==
             task'[k].pc = "locked" /\ lock'[k] = k =>
                (task[k].pc = "locked" /\ lock[k] = k) \/ task[k].from = k
<1> SUFFICES Chosen /\ Apart
  OBVIOUS
<1>1. /\ task \in [Task -> Standing] /\ lock \in [Key -> Task \cup {None}]
      /\ k \in Task /\ k \in Key /\ k \notin Job /\ k # None
  BY NoneIsNoJob, ChildrenAreSessions, JobsAreNoSessions DEF ResumeInv, Types, Task
<1>2. CASE UNCHANGED taskVars
  BY <1>2 DEF taskVars
<1>3. ASSUME NEW t \in Task, NEW pc \in Phase \ {"locked"}, UNCHANGED lock,
             \/ task' = Moved(t, pc)
             \/ \E c \in Container : task' = [task EXCEPT ![t].pc = pc, ![t].box = c]
      PROVE  Chosen /\ Apart
  BY <1>1, <1>3 DEF Moved, Standing
<1>4. ASSUME NEW t \in Task, Ends(t) PROVE Chosen /\ Apart
  BY <1>1, <1>4 DEF Ends, Over, Unbegun, Unlocked
<1>5. ASSUME NEW c \in Caller, NEW s \in Key, NEW j \in Job, Resumes(c, s, j)
      PROVE  Chosen /\ Apart
  BY <1>3, <1>5 DEF Resumes, Phase, Task
<1>6. ASSUME NEW j \in Job, Resuming(j) PROVE Chosen /\ Apart
  <2>1. CASE TakesLock(j)
    BY <1>1, <2>1 DEF TakesLock, Moved, Task
  <2>2. CASE Reports(j)
    BY <1>1, <2>2 DEF Reports, Task
  <2>3. CASE AdoptsOther(j)
    BY <1>1, <2>3 DEF AdoptsOther, Unbegun, Task
  <2>4. CASE FindsNone(j) \/ AdoptsIdle(j)
    <3>1. /\ task' = Moved(j, "creating") \/ task' = Moved(j, "starting")
          /\ UNCHANGED lock /\ j \in Task
      BY <2>4 DEF FindsNone, AdoptsIdle, Task
    <3>2. QED
      BY <1>3, <3>1 DEF Phase
  <2>5. CASE \E c \in Container : Finds(j, c)
    <3>1. /\ \E c \in Container : task' = [task EXCEPT ![j].pc = "asking", ![j].box = c]
          /\ UNCHANGED lock /\ j \in Task
      BY <2>5 DEF Finds, Task
    <3>2. QED
      BY <1>3, <3>1 DEF Phase
  <2>6. CASE Adopts(j)
    BY <1>4, <2>6 DEF Adopts, Task
  <2>7. QED
    BY <1>6, <2>1, <2>2, <2>3, <2>4, <2>5, <2>6 DEF Resuming
<1>7. ASSUME NEW f \in Child, NEW s \in Key, Forking(f, s) PROVE Chosen /\ Apart
  <2>1. s # f => s \in Key
    OBVIOUS
  <2>2. CASE ForkFindsNone(f, s)
    BY <1>4, <2>2 DEF ForkFindsNone, Task
  <2>3. CASE ForkWaits(f, s)
    BY <1>1, <2>3 DEF ForkWaits, Standing, Task
  <2>4. CASE ForkSpawns(f, s) \/ \E c \in Container : ForkReuses(f, s, c)
    <3>1. /\ \A u \in Task \ {f} : task'[u] = task[u]
          /\ task'[f].pc # "locked" /\ task'[f].from = s
      <4>1. f \in Task /\ task[f] \in Standing
        BY <1>1 DEF Task
      <4>2. CASE ForkSpawns(f, s)
        BY <1>1, <4>1, <4>2 DEF ForkSpawns, Standing
      <4>3. ASSUME NEW c \in Container, ForkReuses(f, s, c)
            PROVE  /\ \A u \in Task \ {f} : task'[u] = task[u]
                   /\ task'[f].pc # "locked" /\ task'[f].from = s
        BY <1>1, <4>1, <4>3 DEF ForkReuses, Standing
      <4>4. QED
        BY <2>4, <4>2, <4>3
    <3>2. lock' = [lock EXCEPT ![s] = f, ![f] = f] /\ Enters(f, s)
      BY <2>4 DEF ForkSpawns, ForkReuses, BothLocked
    <3>3. \/ s = task[f].from
          \/ task[f].pc = "unborn" /\ (s \in Child => task[s].pc # "unborn")
      BY <3>2 DEF Enters, At
    <3>4. QED
      BY <1>1, <3>1, <3>2, <3>3
  <2>5. QED
    BY <1>7, <2>2, <2>3, <2>4 DEF Forking
<1>8. ASSUME NEW f \in Child, ForkWaitsOn(f) \/ ForkPosts(f) PROVE Chosen /\ Apart
  <2>1. CASE ForkPosts(f)
    BY <1>3, <2>1 DEF ForkPosts, Phase, Task
  <2>2. CASE ForkWaitsOn(f)
    <3>1. lock[f] # f /\ task[f].from \in Key
      BY <1>8, <2>2, ChildrenAreSessions DEF ForkWaitsOn, At, ResumeInv, LocksOwed, Sources, Task
    <3>2. QED
      BY <1>1, <2>2, <3>1 DEF ForkWaitsOn, Moved, Standing, Task
  <2>3. QED
    BY <1>8, <2>1, <2>2
<1>9. ASSUME NEW t \in Task, Spawning(t) \/ Unwinding(t) PROVE Chosen /\ Apart
  <2>1. CASE Spawning(t)
    <3>1. CASE \E c \in Container : Launches(t, c)
      <4>1. /\ \E c \in Container : task' = [task EXCEPT ![t].pc = "launched", ![t].box = c]
            /\ UNCHANGED lock
        BY <3>1 DEF Launches
      <4>2. QED
        BY <1>3, <4>1 DEF Phase
    <3>2. CASE Registers(t) \/ Saved(t) \/ Opens(t)
      BY <1>3, <3>2 DEF Registers, Saved, Opens, Phase
    <3>3. CASE Completes(t)
      BY <1>4, <3>3 DEF Completes
    <3>4. QED
      BY <2>1, <3>1, <3>2, <3>3 DEF Spawning
  <2>2. CASE SpawnFails(t) \/ CancelCleans(t)
    BY <1>3, <2>2 DEF SpawnFails, CancelCleans, Phase
  <2>3. CASE Fails(t) \/ StartFails(t) \/ CancelEnds(t) \/ Cleaned(t)
    BY <1>4, <2>3 DEF Fails, StartFails, CancelEnds, Cleaned
  <2>4. QED
    BY <1>9, <2>1, <2>2, <2>3 DEF Unwinding
<1>10. ASSUME NEW c \in Container, Around(c) PROVE Chosen /\ Apart
  <2>1. CASE Serves(c)
    <3>1. posts[c] \in Seq(Task) /\ posts[c] # <<>>
      BY <2>1 DEF Serves, ResumeInv, Types
    <3>2. Head(posts[c]) \in Task
      BY <3>1
    <3>3. QED
      BY <1>2, <1>3, <2>1, <3>2 DEF Serves, taskVars, Phase
  <2>2. CASE ~Serves(c)
    BY <1>2, <1>10, <2>2
    DEF Around, Deletes, Stopped, Removed, Refuses, Exits, Listed, Unlisted, GivesUp, Probes
  <2>3. QED
    BY <2>1, <2>2
<1>11. ASSUME \/ \E c \in Caller : CallerMoves(c)
              \/ \E j \in Job : JobReleases(j)
              \/ UNCHANGED resumeVars
       PROVE  Chosen /\ Apart
  BY <1>2, <1>11 DEF CallerMoves, JobReleases, resumeVars
<1>12. QED
  BY <1>5, <1>6, <1>7, <1>8, <1>9, <1>10, <1>11 DEF ResumeNext

LEMMA RankedStep ==
    ASSUME TypeOK, ResumeInv, Ranked, [ResumeNext]_resumeVars
    PROVE  Ranked'
<1>1. PICK rank \in [Child -> Nat] : Begun(rank)
  BY DEF Ranked
<1>2. ForksApart'
  BY <1>1, SourceChosen DEF Ranked, ForksApart, Begun
<1> DEFINE Begins(k) == task[k].pc = "unborn" /\ task'[k].from \in Child
                        /\ task[task'[k].from].pc # "unborn"
           grown == [k \in Child |-> IF Begins(k) THEN rank[task'[k].from] + 1 ELSE rank[k]]
<1>3. grown \in [Child -> Nat]
  OBVIOUS
<1>4. ASSUME NEW k \in Child, task'[k].from \in Child
      PROVE  grown[task'[k].from] < grown[k]
  <2> DEFINE s == task'[k].from
  <2>1. task[s].pc # "unborn" /\ (Begins(k) \/ task'[k].from = task[k].from)
    BY <1>4, SourceChosen, NoneIsNoJob, ChildrenAreSessions DEF ResumeInv, Sources
  <2>2. grown[s] = rank[s] /\ rank[s] \in Nat /\ rank[k] \in Nat
    BY <1>4, <2>1
  <2>3. CASE Begins(k)
    BY <2>2, <2>3
  <2>4. CASE ~Begins(k)
    BY <1>1, <1>4, <2>1, <2>2, <2>4 DEF Begun
  <2>5. QED
    BY <2>3, <2>4
<1>5. \E later \in [Child -> Nat] :
         \A k \in Child : task'[k].from \in Child => later[task'[k].from] < later[k]
  <2> HIDE DEF grown
  <2>1. QED
    BY <1>3, <1>4
<1>6. QED
  BY <1>2, <1>5 DEF Ranked, Begun

\* No circle of resumes and forks waits for its own locks.
THEOREM LocksFree == ResumeSpec => []NoLockCycle
<1>1. ResumeInit => Ranked
  <2> SUFFICES ASSUME ResumeInit PROVE Ranked
    OBVIOUS
  <2>1. \A k \in Child : task[k].from = None /\ task[k].pc = "unborn"
    BY DEF ResumeInit, Unbegun, Task
  <2>2. [k \in Child |-> 0] \in [Child -> Nat]
    OBVIOUS
  <2>3. Begun([k \in Child |-> 0])
    BY <2>1, NoneIsNoJob, ChildrenAreSessions DEF Begun
  <2>4. QED
    BY <2>1, <2>2, <2>3 DEF Ranked, ForksApart
<1>2. ASSUME TypeOK, ResumeInv, Ranked PROVE NoLockCycle
  <2>1. PICK rank \in [Child -> Nat] : Begun(rank)
    BY <1>2 DEF Ranked
  <2> DEFINE line == [t \in Task |-> IF task[t].pc = "locked" THEN rank[t] + 1 ELSE 0]
  <2>2. ASSUME NEW t \in Task, task[t].pc = "locked" PROVE t \in Child /\ Of(t) = t
    BY <1>2, <2>2, ChildrenAreSessions, JobsAreNoSessions DEF ResumeInv, Phases, Task, Of
  <2>3. line \in [Task -> Nat]
    BY <2>2
  <2>4. ASSUME NEW t \in Task, NEW u \in Task, Awaits(t, u), AtLock(u)
        PROVE  line[t] < line[u]
    <3>1. Sought(t) \in Key
      BY <1>2, <2>4, NoneIsNoJob, ChildrenAreSessions
      DEF Awaits, AtLock, Sought, Of, ResumeInv, Phases, Sources, Task
    <3>2. task[u].pc = "locked" /\ u \in Child /\ Sought(t) \in {u, task[u].from}
      BY <1>2, <2>2, <2>4, <3>1 DEF Awaits, AtLock, ResumeInv, LocksOwed
    <3>3. CASE task[t].pc # "locked"
      BY <3>2, <3>3
    <3>4. CASE task[t].pc = "locked"
      <4>1. t \in Child /\ Sought(t) = t /\ lock[t] = u
        BY <2>2, <2>4, <3>4 DEF Sought, Awaits
      <4>2. u # t
        BY <1>2, <3>4, <4>1 DEF Ranked, ForksApart
      <4>3. task[u].from = t
        BY <3>2, <4>1, <4>2
      <4>4. rank[t] < rank[u] /\ rank[t] \in Nat /\ rank[u] \in Nat
        BY <2>1, <3>2, <4>1, <4>3 DEF Begun
      <4>5. QED
        BY <3>2, <3>4, <4>4
    <3>5. QED
      BY <3>3, <3>4
  <2>5. QED
    BY <2>3, <2>4 DEF NoLockCycle
<1>3. QED
  BY <1>1, <1>2, RankedStep, ResumeInvariance, PTL DEF ResumeSpec

=============================================================================

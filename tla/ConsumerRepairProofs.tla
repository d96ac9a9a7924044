------------------------ MODULE ConsumerRepairProofs ------------------------
(***************************************************************************)
(* Proofs about ConsumerRepair, for every set of pipelines and sends.      *)
(***************************************************************************)
EXTENDS ConsumerRepair, TLAPS

-----------------------------------------------------------------------------
(* The inductive invariant.                                                *)

Starting(p) == pipe[p].repair /\ pipe[p].pc = "starting"
Replacing(p) == pipe[p].repair /\ Consumes(p)

\* A replacement is starting only while the send that built it, which holds
\* the lock, waits for it; and it does not end otherwise.
StartsAwaited ==
    /\ \A p \in Pipe : Starting(p) => \E r \in Send : at[r] = "starting" /\ built[r] = p
    /\ \A r \in Send : at[r] = "starting" => built[r] \in Pipe /\ Starting(built[r])

\* What the session's task starts is its own.
OwnTask == task # None => ~pipe[task].repair /\ pipe[task].pc # "unbuilt"

\* A replacement is never to be started by a task of its own.
ReplacementsStart == \A p \in Pipe : pipe[p].repair => pipe[p].pc # "created"

\* Until the lock's holder has built a replacement there is none that starts
\* or runs, but for those torn off.
FoundDead ==
    \A r \in Send : lock = r /\ at[r] # "starting" =>
        \A p \in Pipe : Replacing(p) => p \in torn

IInv ==
    /\ TypeOK
    /\ RepairsDoNotOverlap
    /\ StartsAwaited
    /\ OwnTask
    /\ ReplacementsStart
    /\ FoundDead

-----------------------------------------------------------------------------
(* Types.                                                                  *)

LEMMA Records ==
    /\ Unbuilt \in Pipeline /\ Replacement \in Pipeline
    /\ \A resumed \in BOOLEAN : Own(resumed) \in Pipeline
BY DEF Unbuilt, Replacement, Own, Pipeline

LEMMA Actors ==
    /\ Registry \in Caller /\ Registry \notin Send /\ Send \subseteq Caller
    /\ \A c \in Caller : c # Registry => c \in Send
    /\ \A r \in Send : r # None
BY RegistryIsNoSend, NoneIsNoPipe DEF Caller

\* One pipeline changes.
LEMMA PipeStep ==
    ASSUME TypeOK, NEW p \in Pipe, NEW new \in Pipeline, pipe' = [pipe EXCEPT ![p] = new]
    PROVE  /\ pipe' \in [Pipe -> Pipeline]
           /\ pipe'[p] = new /\ \A q \in Pipe \ {p} : pipe'[q] = pipe[q]
BY DEF TypeOK

\* One caller goes on.
LEMMA CallerStep ==
    ASSUME TypeOK, NEW c \in Caller, NEW pc \in CallerPc, Goes(c, pc)
    PROVE  /\ at' \in [Caller -> CallerPc]
           /\ at'[c] = pc /\ \A d \in Caller \ {c} : at'[d] = at[d]
BY DEF TypeOK, Goes

LEMMA InitHolds == Init => IInv
<1> SUFFICES ASSUME Init PROVE IInv
  OBVIOUS
<1>1. PICK resumed \in BOOLEAN :
        pipe = [p \in Pipe |-> IF p = First THEN Own(resumed) ELSE Unbuilt]
  BY DEF Init
<1>2. /\ pipe \in [Pipe -> Pipeline]
      /\ \A p \in Pipe : ~pipe[p].repair
      /\ pipe[First].pc = "created"
  BY <1>1, Records, FirstIsPipe DEF Own, Unbuilt
<1>3. TypeOK
  <2>1. at \in [Caller -> CallerPc] /\ \A c \in Caller : at[c] = "idle"
    BY DEF Init, CallerPc
  <2>2. \A r \in Send : built[r] = None
    BY DEF Init
  <2>3. QED
    BY <1>2, <2>1, <2>2, FirstIsPipe, Actors DEF Init, TypeOK
<1>4. QED
  BY <1>2, <1>3, FirstIsPipe, Actors
  DEF Init, IInv, RepairsDoNotOverlap, StartsAwaited, OwnTask, ReplacementsStart, FoundDead,
      Starting, Replacing

-----------------------------------------------------------------------------
(* Each step keeps the invariant.                                          *)

\* A step that makes no replacement, and moves none but out of running.
LEMMA Undisturbed ==
    ASSUME IInv, TypeOK', OwnTask',
           \A p \in Pipe : /\ pipe'[p].repair = pipe[p].repair
                           /\ pipe[p].repair => \/ pipe'[p].pc = pipe[p].pc
                                                \/ /\ pipe[p].pc = "running"
                                                   /\ pipe'[p].pc \in {"dead", "lost"},
           torn \subseteq torn', current \in torn' \cup {current', None},
           \A r \in Send : at'[r] = "starting" <=> at[r] = "starting",
           \A r \in Send : lock' = r =>
               \/ lock = r
               \/ \A p \in Pipe : Replacing(p) => p \in torn',
           built' = built
    PROVE  IInv'
<1>1. \A p \in Pipe : (Starting(p)' <=> Starting(p)) /\ (Replacing(p)' => Replacing(p))
  BY DEF Starting, Replacing, Consumes
<1>2. RepairsDoNotOverlap'
  <2>1. \A p, q \in Pipe : Starting(p)' /\ Starting(q)' => p = q
    BY <1>1 DEF IInv, RepairsDoNotOverlap, Starting
  <2>2. \A p \in Pipe : Replacing(p)' => p = current' \/ p \in torn'
    BY <1>1, NoneIsNoPipe DEF IInv, RepairsDoNotOverlap, Replacing
  <2>3. QED
    BY <2>1, <2>2 DEF RepairsDoNotOverlap, Starting, Replacing
<1>3. StartsAwaited'
  BY <1>1 DEF IInv, StartsAwaited
<1>4. ReplacementsStart'
  BY DEF IInv, ReplacementsStart, Consumes
<1>5. FoundDead'
  BY <1>1 DEF IInv, FoundDead
<1>6. QED
  BY <1>2, <1>3, <1>4, <1>5 DEF IInv

\* A step of a pipeline's own.
LEMMA PipeMoves ==
    ASSUME IInv, NEW p \in Pipe,
           Starts(p) \/ Runs(p) \/ StartFails(p) \/ Announced(p) \/ Ends(p)
    PROVE  IInv'
<1>1. pipe[p] \in Pipeline /\ TypeOK
  BY DEF IInv, TypeOK
<1>2. PICK new \in Pipeline :
        /\ pipe' = [pipe EXCEPT ![p] = new]
        /\ new.repair = pipe[p].repair /\ new.pc # "unbuilt"
        /\ pipe[p].repair => new.pc = pipe[p].pc \/ (pipe[p].pc = "running"
                                                     /\ new.pc \in {"dead", "lost"})
  <2>1. CASE Starts(p)
    <3> DEFINE new == [pipe[p] EXCEPT !.pc = IF pipe[p].resumed THEN "starting" ELSE "running",
                                      !.named = pipe[p].resumed, !.resumed = FALSE]
    <3>1. new \in Pipeline /\ ~pipe[p].repair
      BY <1>1, <2>1 DEF IInv, ReplacementsStart, Starts, Pipeline
    <3>2. pipe' = [pipe EXCEPT ![p] = new]
      BY <2>1 DEF Starts
    <3>3. QED
      BY <1>1, <3>1, <3>2 DEF Pipeline
  <2>2. CASE Runs(p) \/ StartFails(p)
    <3>1. PICK pc \in {"running", "dead"} : pipe' = [pipe EXCEPT ![p].pc = pc]
      BY <2>2 DEF Runs, StartFails
    <3>2. [pipe[p] EXCEPT !.pc = pc] \in Pipeline
      BY <1>1 DEF Pipeline
    <3>3. ~pipe[p].repair
      BY <2>2 DEF Runs, StartFails
    <3>4. QED
      BY <1>1, <3>1, <3>2, <3>3 DEF Pipeline
  <2>3. CASE Announced(p)
    <3>1. [pipe[p] EXCEPT !.named = TRUE] \in Pipeline
      BY <1>1 DEF Pipeline
    <3>2. QED
      BY <1>1, <2>3, <3>1 DEF Pipeline, Announced, Alive
  <2>4. CASE Ends(p)
    <3>1. PICK pc \in {"dead", "lost"} : pipe' = [pipe EXCEPT ![p].pc = pc]
      BY <2>4 DEF Ends
    <3>2. [pipe[p] EXCEPT !.pc = pc] \in Pipeline
      BY <1>1 DEF Pipeline
    <3>3. QED
      BY <1>1, <2>4, <3>1, <3>2 DEF Pipeline, Ends, Alive
  <2>5. QED
    BY <2>1, <2>2, <2>3, <2>4
<1>3. UNCHANGED <<current, task, client, lock, at, built, torn>>
  BY DEF Starts, Runs, StartFails, Announced, Ends
<1>4. pipe' \in [Pipe -> Pipeline] /\ pipe'[p] = new /\ \A q \in Pipe \ {p} : pipe'[q] = pipe[q]
  BY <1>1, <1>2, PipeStep
<1>5. TypeOK'
  BY <1>1, <1>3, <1>4 DEF TypeOK
<1>6. OwnTask'
  BY <1>1, <1>2, <1>3, <1>4 DEF IInv, OwnTask, TypeOK
<1>7. \A q \in Pipe : /\ pipe'[q].repair = pipe[q].repair
                      /\ pipe[q].repair => \/ pipe'[q].pc = pipe[q].pc
                                           \/ /\ pipe[q].pc = "running"
                                              /\ pipe'[q].pc \in {"dead", "lost"}
  BY <1>2, <1>4
<1>8. QED
  BY <1>3, <1>5, <1>6, <1>7, Undisturbed

\* Where a send goes on to.
LEMMA ProceedsTo ==
    ASSUME NEW r, Proceeds(r)
    PROVE  \E pc \in {"idle", "cancels"} : Goes(r, pc)
BY DEF Proceeds

LEMMA ArrivesKeeps == ASSUME IInv, NEW r \in Send, Arrives(r) PROVE IInv'
<1>1. PICK pc \in {"idle", "queued", "cancels"} : Goes(r, pc)
  BY ProceedsTo DEF Arrives
<1>2. at' \in [Caller -> CallerPc] /\ at'[r] = pc /\ \A d \in Caller \ {r} : at'[d] = at[d]
  BY <1>1, CallerStep, Actors DEF IInv, CallerPc, StopPc
<1>3. lock # r /\ at[r] = "idle"
  BY DEF Arrives, IInv, TypeOK, StopPc
<1>4. TypeOK'
  BY <1>2, <1>3, Actors DEF Arrives, IInv, TypeOK
<1>5. OwnTask'
  BY DEF Arrives, IInv, OwnTask
<1>6. QED
  BY <1>2, <1>3, <1>4, <1>5, Undisturbed, Actors DEF Arrives

LEMMA LocksKeeps == ASSUME IInv, NEW r \in Send, Locks(r) PROVE IInv'
<1>1. /\ at[r] = "queued" /\ lock = None
      /\ UNCHANGED <<pipe, current, task, client, built, torn>>
  BY DEF Locks, LockFree
<1>2. /\ \A q \in Send : at[q] # "starting"
      /\ \A p \in Pipe : ~Starting(p)
  BY <1>1, Actors DEF IInv, TypeOK, StartsAwaited
<1>3. \/ lock' = None /\ \E pc \in {"idle", "cancels"} : Goes(r, pc)
      \/ /\ lock' = r /\ ~NothingToRepair
         /\ \E pc \in {"cancels", "stopping"} : Goes(r, pc)
  BY <1>1, ProceedsTo DEF Locks
<1>4. PICK pc \in {"idle", "cancels", "stopping"} : Goes(r, pc) /\ (pc = "stopping" => lock' = r)
                                                    /\ (lock' = r => pc # "idle")
  BY <1>3, Actors
<1>5. at' \in [Caller -> CallerPc] /\ at'[r] = pc /\ \A d \in Caller \ {r} : at'[d] = at[d]
  BY <1>4, CallerStep, Actors DEF IInv, CallerPc, StopPc
<1>6. TypeOK'
  BY <1>1, <1>2, <1>3, <1>4, <1>5, Actors DEF IInv, TypeOK, StopPc
<1>7. OwnTask'
  BY <1>1 DEF IInv, OwnTask
<1>8. ASSUME lock' = r PROVE \A p \in Pipe : Replacing(p) => p \in torn'
  <2>1. current \in Pipe /\ ~Alive(current)
    BY <1>3, <1>8, Actors DEF IInv, TypeOK, NothingToRepair
  <2>2. ~Replacing(current)
    BY <1>2, <2>1 DEF Replacing, Starting, Consumes, Alive
  <2>3. QED
    BY <1>1, <2>2 DEF IInv, RepairsDoNotOverlap, Replacing
<1>9. QED
  BY <1>1, <1>2, <1>3, <1>5, <1>6, <1>7, <1>8, Undisturbed, Actors

\* The send that holds the lock begins what it has built.
LEMMA ReplacesKeeps ==
    ASSUME IInv, NEW r \in Send, NEW p \in Pipe, Replaces(r, p)
    PROVE  IInv'
<1>1. /\ at[r] = "stopping" /\ lock = r /\ pipe[p].pc = "unbuilt"
      /\ pipe' = [pipe EXCEPT ![p] = Replacement] /\ current' = p
      /\ built' = [built EXCEPT ![r] = p] /\ Goes(r, "starting")
      /\ UNCHANGED <<task, client, lock, torn>>
  BY DEF Replaces, IInv, TypeOK
<1>2. pipe' \in [Pipe -> Pipeline] /\ pipe'[p] = Replacement
      /\ \A q \in Pipe \ {p} : pipe'[q] = pipe[q]
  BY <1>1, PipeStep, Records DEF IInv
<1>3. at' \in [Caller -> CallerPc] /\ at'[r] = "starting"
      /\ \A d \in Caller \ {r} : at'[d] = at[d]
  BY <1>1, CallerStep, Actors DEF IInv, CallerPc
<1>4. built' \in [Send -> Pipe \cup {None}] /\ built'[r] = p
      /\ \A q \in Send \ {r} : built'[q] = built[q]
  BY <1>1 DEF IInv, TypeOK
<1>5. \A q \in Send \ {r} : at[q] # "starting" /\ at'[q] # "starting"
  BY <1>1, <1>3, Actors DEF IInv, TypeOK
<1>6. TypeOK'
  BY <1>1, <1>2, <1>3, <1>4, <1>5, NoneIsNoPipe, Actors DEF IInv, TypeOK
<1>7. \A q \in Pipe : ~Starting(q) /\ (Replacing(q) => q \in torn)
  BY <1>1, <1>5 DEF IInv, StartsAwaited, FoundDead
<1>8. \A q \in Pipe \ {p} : (Starting(q)' <=> Starting(q)) /\ (Replacing(q)' <=> Replacing(q))
  BY <1>2 DEF Starting, Replacing, Consumes
<1>9. Starting(p)'
  BY <1>2 DEF Starting, Replacement, Unbuilt
<1>10. RepairsDoNotOverlap'
  <2>1. \A q \in Pipe : (Starting(q)' => q = p) /\ (Replacing(q)' => q = p \/ q \in torn)
    BY <1>7, <1>8
  <2>2. QED
    BY <1>1, <2>1 DEF RepairsDoNotOverlap, Starting, Replacing
<1>11. StartsAwaited'
  BY <1>3, <1>4, <1>5, <1>7, <1>8, <1>9 DEF StartsAwaited
<1>12. OwnTask' /\ ReplacementsStart'
  BY <1>1, <1>2 DEF IInv, TypeOK, OwnTask, ReplacementsStart, Replacement, Unbuilt
<1>13. FoundDead'
  BY <1>1, <1>3 DEF FoundDead
<1>14. QED
  BY <1>6, <1>10, <1>11, <1>12, <1>13 DEF IInv

\* The replacement's start has returned, or raised.
LEMMA ReplacedKeeps ==
    ASSUME IInv, NEW r \in Send, Replaced(r) \/ ReplacementFails(r)
    PROVE  IInv'
<1>1. /\ at[r] = "starting" /\ lock = r /\ lock' = None
      /\ built' = [built EXCEPT ![r] = None]
      /\ UNCHANGED <<current, task, client, torn>>
  BY DEF Replaced, ReplacementFails, IInv, TypeOK
<1>2. PICK pc \in {"idle", "cancels"} : Goes(r, pc)
  BY ProceedsTo DEF Replaced, ReplacementFails
<1>3. PICK b \in Pipe : b = built[r] /\ Starting(b)
  BY <1>1 DEF IInv, StartsAwaited
<1>4. PICK new \in Pipeline : /\ pipe' = [pipe EXCEPT ![b] = new]
                              /\ new.repair /\ new.pc \in {"running", "dead"}
  <2>1. PICK npc \in {"running", "dead"} : pipe' = [pipe EXCEPT ![b].pc = npc]
    BY <1>3 DEF Replaced, ReplacementFails
  <2>2. [pipe[b] EXCEPT !.pc = npc] \in Pipeline
    BY DEF IInv, TypeOK, Pipeline
  <2>3. pipe[b] \in Pipeline /\ pipe[b].repair
    BY <1>3 DEF Starting, IInv, TypeOK
  <2>4. QED
    BY <2>1, <2>2, <2>3 DEF Pipeline
<1>5. pipe' \in [Pipe -> Pipeline] /\ pipe'[b] = new /\ \A q \in Pipe \ {b} : pipe'[q] = pipe[q]
  BY <1>4, PipeStep DEF IInv
<1>6. at' \in [Caller -> CallerPc] /\ at'[r] = pc /\ \A d \in Caller \ {r} : at'[d] = at[d]
  BY <1>2, CallerStep, Actors DEF IInv, CallerPc, StopPc
<1>7. built' \in [Send -> Pipe \cup {None}] /\ built'[r] = None
      /\ \A q \in Send \ {r} : built'[q] = built[q]
  BY <1>1 DEF IInv, TypeOK
<1>8. \A q \in Send \ {r} : at'[q] \notin {"starting", "stopping"}
  BY <1>1, <1>6, Actors DEF IInv, TypeOK
<1>9. TypeOK'
  BY <1>1, <1>5, <1>6, <1>7, <1>8, Actors DEF IInv, TypeOK
<1>10. \A q \in Pipe : ~Starting(q)'
  <2>1. \A q \in Pipe \ {b} : ~Starting(q)
    BY <1>3 DEF IInv, RepairsDoNotOverlap, Starting
  <2>2. QED
    BY <1>4, <1>5, <2>1 DEF Starting
<1>11. \A q \in Pipe : Replacing(q)' => Replacing(q)
  BY <1>3, <1>5 DEF Starting, Replacing, Consumes
<1>12. RepairsDoNotOverlap'
  BY <1>1, <1>10, <1>11 DEF IInv, RepairsDoNotOverlap, Starting, Replacing
<1>13. StartsAwaited'
  BY <1>6, <1>8, <1>10 DEF StartsAwaited
<1>14. OwnTask' /\ ReplacementsStart'
  BY <1>1, <1>3, <1>4, <1>5 DEF IInv, TypeOK, OwnTask, ReplacementsStart, Starting
<1>15. FoundDead'
  BY <1>1, Actors DEF FoundDead
<1>16. QED
  BY <1>9, <1>12, <1>13, <1>14, <1>15 DEF IInv

\* The steps of a stop: none moves the lock, a repair or a replacement's start.
LEMMA StopsKeeps == ASSUME IInv, NEW c \in Caller, Stops(c) PROVE IInv'
<1>1. /\ at[c] \in StopPc /\ UNCHANGED <<client, lock, built>>
      /\ \E pc \in StopPc : Goes(c, pc)
  BY DEF Stops, CancelsStart, StopsPipeline, DropsPipeline, StopPc
<1>2. PICK pc \in StopPc : Goes(c, pc)
  BY <1>1
<1>3. at' \in [Caller -> CallerPc] /\ at'[c] = pc /\ \A d \in Caller \ {c} : at'[d] = at[d]
  BY <1>2, CallerStep DEF IInv, CallerPc
<1>4. \A p \in Pipe : \/ pipe'[p] = pipe[p]
                      \/ /\ pipe'[p] = [pipe[p] EXCEPT !.pc = "dead"]
                         /\ Alive(p) \/ ~pipe[p].repair
  BY NoneIsNoPipe DEF Stops, CancelsStart, StopsPipeline, DropsPipeline, IInv, TypeOK, OwnTask
<1>5. /\ pipe' \in [Pipe -> Pipeline]
      /\ \A p \in Pipe : /\ pipe'[p].repair = pipe[p].repair
                         /\ pipe[p].pc # "unbuilt" => pipe'[p].pc # "unbuilt"
  <2>1. \A p \in Pipe : pipe[p] \in Pipeline
    BY DEF IInv, TypeOK
  <2>2. \A p \in Pipe : [pipe[p] EXCEPT !.pc = "dead"] \in Pipeline
    BY <2>1 DEF Pipeline
  <2>3. \A p \in Pipe : pipe'[p] \in Pipeline
    BY <1>4, <2>1, <2>2
  <2>4. pipe' = [p \in Pipe |-> pipe'[p]]
    BY DEF Stops, CancelsStart, StopsPipeline, DropsPipeline, IInv, TypeOK
  <2>5. \A p \in Pipe : /\ pipe'[p].repair = pipe[p].repair
                        /\ pipe[p].pc # "unbuilt" => pipe'[p].pc # "unbuilt"
    BY <1>4, <2>1 DEF Pipeline
  <2>6. QED
    BY <2>3, <2>4, <2>5
<1>6. \/ UNCHANGED <<current, torn>>
      \/ current' = None /\ torn' = Torn(c)
  BY DEF Stops, CancelsStart, StopsPipeline, DropsPipeline
<1>7. task' \in {task, None}
  BY DEF Stops, CancelsStart, StopsPipeline, DropsPipeline
<1>8. /\ current' \in Pipe \cup {None} /\ torn \subseteq torn' /\ torn' \subseteq Pipe
      /\ lock # c => current \in torn' \cup {current', None}
  BY <1>6 DEF IInv, TypeOK, Torn
<1>9. TypeOK'
  BY <1>1, <1>3, <1>5, <1>7, <1>8, Actors DEF IInv, TypeOK, StopPc
<1>10. OwnTask'
  <2>1. ASSUME task' # None PROVE task' = task /\ task \in Pipe
    BY <1>7, <2>1 DEF IInv, TypeOK
  <2>2. QED
    BY <1>5, <2>1 DEF IInv, OwnTask
<1>11. \A p \in Pipe : (Starting(p)' <=> Starting(p)) /\ (Replacing(p)' => Replacing(p))
  BY <1>4, <1>5 DEF Starting, Replacing, Consumes, Alive, Pipeline, IInv, TypeOK
<1>12. at[c] # "starting" /\ at'[c] # "starting"
  BY <1>1, <1>3 DEF StopPc
<1>13. RepairsDoNotOverlap'
  <2>1. \A p, q \in Pipe : Starting(p)' /\ Starting(q)' => p = q
    BY <1>11 DEF IInv, RepairsDoNotOverlap, Starting
  <2>2. CASE lock # c
    <3>1. \A p \in Pipe : Replacing(p)' => p = current' \/ p \in torn'
      BY <1>8, <1>11, <2>2, NoneIsNoPipe DEF IInv, RepairsDoNotOverlap, Replacing
    <3>2. QED
      BY <2>1, <3>1 DEF RepairsDoNotOverlap, Starting, Replacing
  <2>3. CASE lock = c
    <3>1. c \in Send /\ c # None
      BY <2>3, Actors, NoneIsNoPipe DEF IInv, TypeOK
    <3>2. \A p \in Pipe : Replacing(p)' => p \in torn'
      BY <1>8, <1>11, <1>12, <2>3, <3>1 DEF IInv, FoundDead
    <3>3. QED
      BY <2>1, <3>2 DEF RepairsDoNotOverlap, Starting, Replacing
  <2>4. QED
    BY <2>2, <2>3
<1>14. StartsAwaited'
  BY <1>1, <1>3, <1>11, <1>12, Actors DEF IInv, StartsAwaited
<1>15. ReplacementsStart'
  BY <1>4, <1>5 DEF IInv, ReplacementsStart, TypeOK, Pipeline
<1>16. FoundDead'
  BY <1>1, <1>3, <1>8, <1>11, <1>12, Actors DEF IInv, FoundDead
<1>17. QED
  BY <1>9, <1>10, <1>13, <1>14, <1>15, <1>16 DEF IInv

LEMMA RegistryKeeps == ASSUME IInv, RegistryStops \/ RegistryStopped PROVE IInv'
<1>1. PICK pc \in {"cancels", "over"} : Goes(Registry, pc)
  BY DEF RegistryStops, RegistryStopped
<1>2. at' \in [Caller -> CallerPc] /\ at'[Registry] = pc
      /\ \A r \in Send : at'[r] = at[r]
  BY <1>1, CallerStep, Actors DEF IInv, CallerPc, StopPc
<1>3. UNCHANGED <<pipe, current, task, lock, built, torn>> /\ client' \in BOOLEAN
  BY DEF RegistryStops, RegistryStopped, IInv, TypeOK
<1>4. TypeOK'
  BY <1>2, <1>3 DEF IInv, TypeOK, StopPc
<1>5. OwnTask'
  BY <1>3 DEF IInv, OwnTask
<1>6. QED
  BY <1>2, <1>3, <1>4, <1>5, Undisturbed

\* A restart's start.
LEMMA RestartStartsKeeps ==
    ASSUME IInv, NEW r \in Send, NEW p \in Pipe, RestartStarts(r, p)
    PROVE  IInv'
<1>1. /\ at[r] = "disconnects" /\ pipe[p].pc = "unbuilt" /\ current' = p /\ task' = p
      /\ client' = TRUE /\ torn' = Torn(r) /\ lock' = IF lock = r THEN None ELSE lock
      /\ Goes(r, "idle") /\ built' = built
  BY DEF RestartStarts
<1>2. PICK resumed \in BOOLEAN : pipe' = [pipe EXCEPT ![p] = Own(resumed)]
  BY DEF RestartStarts
<1>3. pipe' \in [Pipe -> Pipeline] /\ pipe'[p] = Own(resumed)
      /\ \A q \in Pipe \ {p} : pipe'[q] = pipe[q]
  BY <1>2, PipeStep, Records DEF IInv
<1>4. at' \in [Caller -> CallerPc] /\ at'[r] = "idle" /\ \A d \in Caller \ {r} : at'[d] = at[d]
  BY <1>1, CallerStep, Actors DEF IInv, CallerPc
<1>5. torn \subseteq torn' /\ torn' \subseteq Pipe /\ (lock # r => current \in torn' \cup {None})
  BY <1>1 DEF IInv, TypeOK, Torn
<1>6. TypeOK'
  BY <1>1, <1>3, <1>4, <1>5, Actors DEF IInv, TypeOK, StopPc
<1>7. pipe'[p].pc = "created" /\ ~pipe'[p].repair
  BY <1>3 DEF Own, Unbuilt
<1>8. \A q \in Pipe : Starting(q)' \/ Replacing(q)' => q # p
  BY <1>7 DEF Starting, Replacing
<1>9. \A q \in Pipe : (Starting(q)' <=> Starting(q)) /\ (Replacing(q)' => Replacing(q))
  BY <1>1, <1>3, <1>8 DEF Starting, Replacing, Consumes
<1>10. RepairsDoNotOverlap'
  <2>1. \A q, s \in Pipe : Starting(q)' /\ Starting(s)' => q = s
    BY <1>9 DEF IInv, RepairsDoNotOverlap, Starting
  <2>2. CASE lock # r
    <3>1. \A q \in Pipe : Replacing(q)' => q \in torn'
      BY <1>5, <1>9, <2>2, NoneIsNoPipe DEF IInv, RepairsDoNotOverlap, Replacing
    <3>2. QED
      BY <2>1, <3>1 DEF RepairsDoNotOverlap, Starting, Replacing
  <2>3. CASE lock = r
    <3>1. \A q \in Pipe : Replacing(q)' => q \in torn'
      BY <1>1, <1>5, <1>9, <2>3 DEF IInv, FoundDead
    <3>2. QED
      BY <2>1, <3>1 DEF RepairsDoNotOverlap, Starting, Replacing
  <2>4. QED
    BY <2>2, <2>3
<1>11. StartsAwaited'
  BY <1>1, <1>4, <1>9, Actors DEF IInv, StartsAwaited
<1>12. OwnTask' /\ ReplacementsStart'
  BY <1>1, <1>3, <1>7 DEF IInv, OwnTask, ReplacementsStart
<1>13. FoundDead'
  BY <1>1, <1>4, <1>5, <1>9, Actors DEF IInv, FoundDead
<1>14. QED
  BY <1>6, <1>10, <1>11, <1>12, <1>13 DEF IInv

LEMMA StepHolds == IInv /\ [Next]_vars => IInv'
<1> SUFFICES ASSUME IInv, [Next]_vars PROVE IInv'
  OBVIOUS
<1>1. CASE UNCHANGED vars
  <2>1. TypeOK' /\ OwnTask'
    BY <1>1 DEF vars, IInv, TypeOK, OwnTask
  <2>2. QED
    BY <1>1, <2>1, Undisturbed DEF vars
<1>2. QED
  BY <1>1, PipeMoves, ArrivesKeeps, LocksKeeps, ReplacesKeeps, ReplacedKeeps, StopsKeeps,
     RegistryKeeps, RestartStartsKeeps
  DEF Next

(* Every reachable state satisfies the invariant.                          *)
THEOREM Invariance == Spec => []IInv
BY InitHolds, StepHolds, PTL DEF Spec

(* Repairs build no second consumer, however many sends repair and however *)
(* the session is stopped and restarted meanwhile: only a stop or restart  *)
(* outside the lock parts a replacement from its session                   *)
(* (_ensure_pipeline_alive under _pipeline_repair_lock).                   *)
THEOREM OneRepairAtATime == Spec => []RepairsDoNotOverlap
<1>1. IInv => RepairsDoNotOverlap
  BY DEF IInv
<1>2. QED
  BY <1>1, Invariance, PTL

(* Every variable keeps its type, and the lock is held by a send in a      *)
(* repair or in the restart that takes its place.                          *)
THEOREM Typing == Spec => []TypeOK
<1>1. IInv => TypeOK
  BY DEF IInv
<1>2. QED
  BY <1>1, Invariance, PTL

=============================================================================

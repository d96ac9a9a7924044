------------------------ MODULE SessionRecordProofs ------------------------
(***************************************************************************)
(* Proofs about SessionRecord, for any changes, any pool of threads, any   *)
(* projections and any number of events: what the record keeps of the      *)
(* daemon's fields and of the session's counts.                            *)
(***************************************************************************)
EXTENDS SessionRecord, TLAPS

\* A save of the session's own projection, which holds all that is counted or
\* has yet to take it.
Own(w) == Saves(w) /\ op[w].proj = cur
Coming(w) == Own(w) /\ (HoldsRecord(w) => op[w].data.turns = Counted)

\* What is saved is a summary, and the loop saves the session's own.
Objects ==
    /\ \A p \in Proj : dirty[p] => mem[p].turns \in Nat
    /\ \A w \in Actor : Saves(w) =>
        /\ mem[op[w].proj].turns \in Nat
        /\ HoldsRecord(w) => op[w].data.turns \in Nat
    /\ Saves(Loop) => op[Loop].proj = cur

\* Whoever holds the daemon's fields, on the way to memory or to disk, holds
\* all that landed.
MarksHeld ==
    /\ disk.marks = landed
    /\ \A w \in Actor :
        /\ op[w].pc \in {"merges", "replaces"} => op[w].data.marks = landed
        /\ op[w].pc = "dumps" => mem[op[w].proj].marks = landed

\* The summary counts what it should, and no save more; an update copies the
\* counts on disk; what the loop writes is the latest; and a session without
\* a record has only its log.
CountsHeld ==
    /\ mem[cur].turns # None => mem[cur].turns = Counted
    /\ \A w \in Actor :
        /\ op[w].kind = "amend" /\ HoldsRecord(w) => op[w].data.turns = disk.turns
        /\ Own(w) /\ HoldsRecord(w) => op[w].data.turns <= Counted
    /\ Saves(Loop) => Coming(Loop)
    /\ disk.turns = None =>
        /\ pending = 0 /\ owed = events
        /\ state = "stopped" \/ op[Loop].kind = "store"

\* The latest is on disk or will be, or was there: the disk has it, or a save
\* of it is coming or due, or there is nothing but the log to start from, or
\* a replaced projection wrote over it; and a save of an older summary has
\* another one, or a due one, behind it.
SaveAhead ==
    /\ \/ stale
       \/ disk.turns = Counted
       \/ dirty[cur]
       \/ \E w \in Actor : Coming(w)
       \/ disk.turns = None /\ state = "stopped"
    /\ \A w \in Actor : Own(w) /\ ~Coming(w) => dirty[cur] \/ \E v \in Actor : Coming(v)

Held == MarksHeld /\ CountsHeld /\ SaveAhead
IInv == TypeOK /\ Objects /\ (~crossed => Held)

-----------------------------------------------------------------------------
(* Types.                                                                  *)

Kinds == {"none", "refresh", "fold", "store", "pool", "flush", "amend"}

LEMMA Records ==
    /\ Unwritten \in Record
    /\ Idle \in Operation
    /\ \A kind \in Kinds, p \in Proj : Doing(kind, p) \in Operation
    /\ \A m \in Mark : Amending(m) \in Operation
BY DEF Unwritten, Record, Idle, Operation, Doing, Amending, Kinds

LEMMA ActorTypes ==
    /\ Loop \in Actor /\ Daemon \in Actor /\ Pool \subseteq Actor
    /\ \A w \in Actor : w = Loop \/ w = Daemon \/ w \in Pool
BY DEF Actor

\* An operation's fields, one at a time.
LEMMA OpFields ==
    ASSUME TypeOK, NEW w \in Actor
    PROVE  /\ op[w] \in Operation /\ Fits(w, op[w])
           /\ op[w].kind \in Kinds
           /\ op[w].pc \in {"none", "reads", "merges", "dumps", "replaces"}
           /\ op[w].data \in Record
           /\ op[w].mark \in Mark \cup {None}
           /\ op[w].proj \in Proj \cup {None}
           /\ op[w].kind \notin {"none", "amend"} => op[w].proj \in Proj
<1>1. op[w] \in Operation /\ Fits(w, op[w])
  BY DEF TypeOK
<1>2. QED
  BY <1>1 DEF Operation, Fits, Kinds

LEMMA CountedTyped == ASSUME TypeOK PROVE Counted \in Nat /\ Counted = owed - pending
BY DEF TypeOK, Counted

\* What one actor does leaves the others as they are.
LEMMA OpStep ==
    ASSUME TypeOK, NEW w \in Actor, NEW new \in Operation, Fits(w, new),
           op' = [op EXCEPT ![w] = new]
    PROVE  /\ op' \in [Actor -> Operation]
           /\ \A v \in Actor : Fits(v, op'[v])
           /\ op'[w] = new /\ \A v \in Actor \ {w} : op'[v] = op[v]
<1>1. op \in [Actor -> Operation] /\ \A v \in Actor : Fits(v, op[v])
  BY DEF TypeOK
<1>2. op'[w] = new /\ \A v \in Actor \ {w} : op'[v] = op[v]
  BY <1>1
<1>3. QED
  BY <1>1, <1>2

\* An actor takes up an operation.
LEMMA Begins ==
    ASSUME TypeOK, NEW w \in Actor, NEW p \in Proj,
           NEW kind \in {"refresh", "fold", "store", "pool", "flush"},
           kind \in {"refresh", "fold", "store"} => w = Loop,
           kind \in {"pool", "flush"} => w \in Pool,
           op' = [op EXCEPT ![w] = Doing(kind, p)]
    PROVE  /\ op' \in [Actor -> Operation]
           /\ \A v \in Actor : Fits(v, op'[v])
           /\ op'[w] = Doing(kind, p) /\ \A v \in Actor \ {w} : op'[v] = op[v]
<1>1. Doing(kind, p) \in Operation
  BY Records DEF Kinds
<1>2. Fits(w, Doing(kind, p))
  BY ActorsDiffer, NoneIsNoMark DEF Fits, Doing
<1>3. QED
  BY <1>1, <1>2, OpStep

LEMMA BeginsAmending ==
    ASSUME TypeOK, NEW w \in {Loop, Daemon}, NEW m \in Mark,
           op' = [op EXCEPT ![w] = Amending(m)]
    PROVE  /\ op' \in [Actor -> Operation]
           /\ \A v \in Actor : Fits(v, op'[v])
           /\ op'[w] = Amending(m) /\ \A v \in Actor \ {w} : op'[v] = op[v]
<1>1. Amending(m) \in Operation /\ w \in Actor
  BY Records, ActorTypes
<1>2. Fits(w, Amending(m))
  BY ActorsDiffer DEF Fits, Amending
<1>3. QED
  BY <1>1, <1>2, OpStep

-----------------------------------------------------------------------------
(* The steps of a file operation.                                          *)

LEMMA InitHolds == Init => IInv
<1> SUFFICES ASSUME Init PROVE IInv
  OBVIOUS
<1>1. \A w \in Actor : op[w] = Idle
  BY DEF Init
<1>2. op \in [Actor -> Operation] /\ \A w \in Actor : Fits(w, op[w])
  BY <1>1, Records DEF Init, Fits, Idle
<1>3. events \in Nat /\ owed \in Nat /\ pending \in Nat /\ pending <= owed
  BY DEF Init
<1>4. cur \in Proj
  BY SomeProjection DEF Init
<1>5. mem \in [Proj -> Record] /\ dirty \in [Proj -> BOOLEAN]
      /\ timer \in [Proj -> BOOLEAN] /\ due \in [Proj -> BOOLEAN]
  BY Records DEF Init
<1>6. TypeOK
  BY <1>2, <1>3, <1>4, <1>5, Records DEF Init, TypeOK
<1>7. \A w \in Actor : ~Saves(w) /\ op[w].pc = "none" /\ op[w].kind = "none"
  BY <1>1 DEF Saves, Idle
<1>8. Objects
  BY <1>7, ActorTypes DEF Init, Objects
<1>9. Held
  BY <1>4, <1>7, ActorTypes
  DEF Init, Held, MarksHeld, CountsHeld, SaveAhead, Own, Coming, HoldsRecord, Unwritten
<1>10. QED
  BY <1>6, <1>8, <1>9 DEF IInv

LEMMA ReadsKeeps == ASSUME IInv, NEW w \in Actor, Reads(w) PROVE IInv'
<1> DEFINE new == IF op[w].kind = "amend"
                    THEN [op[w] EXCEPT !.data = disk, !.pc = "replaces"]
                    ELSE [op[w] EXCEPT !.data.marks = disk.marks, !.pc = "merges"]
<1>1. op' = [op EXCEPT ![w] = new] /\ TypeOK /\ disk \in Record
  BY DEF Reads, IInv, TypeOK
<1>2. op[w].data \in Record /\ op[w] \in Operation
  BY <1>1, OpFields
<1>3. /\ new.kind = op[w].kind /\ new.proj = op[w].proj /\ new.mark = op[w].mark
      /\ new.data.marks = disk.marks
      /\ op[w].kind = "amend" => new.pc = "replaces" /\ new.data = disk
      /\ op[w].kind # "amend" => new.pc = "merges"
      /\ new \in Operation
  BY <1>1, <1>2 DEF Operation, Record
<1>4. Fits(w, new)
  BY <1>1, <1>3, OpFields DEF Reads, Fits
<1>5. /\ op' \in [Actor -> Operation] /\ \A v \in Actor : Fits(v, op'[v])
      /\ op'[w] = new /\ \A v \in Actor \ {w} : op'[v] = op[v]
  BY <1>1, <1>3, <1>4, OpStep
<1> HIDE DEF new
<1>6. TypeOK'
  BY <1>1, <1>5 DEF TypeOK, Reads, projection, counts
<1>7. Counted' = Counted /\ cur' = cur
  BY DEF Counted, Reads, projection, counts
<1>8. \A v \in Actor : /\ op'[v].kind = op[v].kind /\ op'[v].proj = op[v].proj
                       /\ Saves(v) => (HoldsRecord(v)' <=> HoldsRecord(v))
                       /\ Saves(v) /\ HoldsRecord(v) => op'[v].data.turns = op[v].data.turns
  BY <1>3, <1>5 DEF HoldsRecord, Saves, Reads
<1>9. \A v \in Actor : /\ Saves(v)' <=> Saves(v)
                       /\ Own(v)' <=> Own(v)
                       /\ Coming(v)' <=> Coming(v)
  BY <1>7, <1>8 DEF Saves, Own, Coming
<1>10. Objects'
  BY <1>8, <1>9, ActorTypes DEF IInv, Objects, Reads, projection
<1>11. ASSUME ~crossed' PROVE Held'
  <2>1. MarksHeld /\ CountsHeld /\ SaveAhead
    BY <1>11 DEF IInv, Held, Reads
  <2>2. MarksHeld'
    BY <1>3, <1>5, <2>1 DEF MarksHeld, Reads, projection
  <2>3. ASSUME NEW v \in Actor
        PROVE  /\ op'[v].kind = "amend" /\ HoldsRecord(v)' => op'[v].data.turns = disk.turns
               /\ Own(v)' /\ HoldsRecord(v)' => op'[v].data.turns <= Counted
    <3>1. CASE v = w
      BY <3>1, <1>3, <1>5, <1>8, <1>9, <2>1 DEF CountsHeld, HoldsRecord, Own, Saves
    <3>2. CASE v # w
      BY <3>2, <1>5, <1>9, <2>1 DEF CountsHeld, HoldsRecord
    <3>3. QED
      BY <3>1, <3>2
  <2>4. CountsHeld'
    BY <1>7, <1>8, <1>9, <2>1, <2>3, ActorTypes DEF CountsHeld, Reads, projection, counts
  <2>5. SaveAhead'
    BY <1>7, <1>9, <2>1 DEF SaveAhead, Reads, projection
  <2>6. QED
    BY <2>2, <2>4, <2>5 DEF Held
<1>12. QED
  BY <1>6, <1>10, <1>11 DEF IInv

LEMMA MergesKeeps == ASSUME IInv, NEW w \in Actor, Merges(w) PROVE IInv'
<1> DEFINE new == IF Saves(w) THEN [op[w] EXCEPT !.data = Unwritten, !.pc = "dumps"] ELSE Idle
<1>1. op' = [op EXCEPT ![w] = new] /\ TypeOK
  BY DEF Merges, IInv
<1>2. op[w] \in Operation /\ op[w].proj \in Proj /\ op[w].kind \notin {"none", "amend"}
      /\ op[w].data \in Record
  BY <1>1, OpFields DEF Merges, Fits
<1>3. /\ Saves(w) => new.kind = op[w].kind /\ new.proj = op[w].proj /\ new.pc = "dumps"
      /\ ~Saves(w) => new = Idle
      /\ new \in Operation
  BY <1>2, Records DEF Operation
<1>4. Fits(w, new)
  BY <1>1, <1>3, OpFields DEF Fits, Saves, Idle
<1>5. /\ op' \in [Actor -> Operation] /\ \A v \in Actor : Fits(v, op'[v])
      /\ op'[w] = new /\ \A v \in Actor \ {w} : op'[v] = op[v]
  BY <1>1, <1>3, <1>4, OpStep
<1> HIDE DEF new
<1>6. /\ mem' \in [Proj -> Record] /\ cur \in Proj
      /\ \A p \in Proj : mem'[p].turns = mem[p].turns
      /\ mem'[op[w].proj].marks = op[w].data.marks
      /\ \A p \in Proj : p # op[w].proj => mem'[p] = mem[p]
  BY <1>1, <1>2 DEF Merges, TypeOK, Record
<1>7. TypeOK'
  BY <1>1, <1>5, <1>6 DEF TypeOK, Merges, counts
<1>8. Counted' = Counted /\ cur' = cur
  BY DEF Counted, Merges, counts
<1>9. \A v \in Actor : /\ Saves(v)' <=> Saves(v)
                       /\ HoldsRecord(v)' <=> HoldsRecord(v)
                       /\ Saves(v) => op'[v].kind = op[v].kind /\ op'[v].proj = op[v].proj
                       /\ HoldsRecord(v) => op'[v] = op[v]
  BY <1>3, <1>5 DEF Saves, HoldsRecord, Merges, Idle
<1>10. \A v \in Actor : (Own(v)' <=> Own(v)) /\ (Coming(v)' <=> Coming(v))
  BY <1>8, <1>9 DEF Own, Coming
<1>11. Objects'
  <2>1. \A v \in Actor : Saves(v) => op[v].proj \in Proj
    BY <1>1, OpFields DEF Saves
  <2>2. ASSUME NEW v \in Actor, Saves(v)'
        PROVE  /\ mem'[op'[v].proj].turns \in Nat
               /\ HoldsRecord(v)' => op'[v].data.turns \in Nat
    BY <1>6, <1>9, <2>1, <2>2 DEF IInv, Objects
  <2>3. \A p \in Proj : dirty'[p] => mem'[p].turns \in Nat
    BY <1>6 DEF IInv, Objects, Merges
  <2>4. Saves(Loop)' => op'[Loop].proj = cur'
    BY <1>8, <1>9, ActorTypes DEF IInv, Objects
  <2>5. QED
    BY <2>2, <2>3, <2>4 DEF Objects
<1>12. ASSUME ~crossed' PROVE Held'
  <2>1. MarksHeld /\ CountsHeld /\ SaveAhead
    BY <1>12 DEF IInv, Held, Merges
  <2>2. op[w].data.marks = landed
    BY <2>1 DEF MarksHeld, Merges
  <2>3. MarksHeld'
    <3>1. ASSUME NEW v \in Actor, op'[v].pc = "dumps" PROVE mem'[op'[v].proj].marks = landed
      <4>1. CASE v = w
        BY <4>1, <3>1, <1>3, <1>5, <1>6, <2>2 DEF Idle
      <4>2. CASE v # w
        <5>1. op'[v] = op[v] /\ op[v].proj \in Proj /\ mem[op[v].proj].marks = landed
          BY <4>2, <3>1, <1>1, <1>5, <2>1, OpFields DEF MarksHeld, Fits
        <5>2. QED
          BY <5>1, <1>6, <2>2
      <4>3. QED
        BY <4>1, <4>2
    <3>2. ASSUME NEW v \in Actor, op'[v].pc \in {"merges", "replaces"}
          PROVE  op'[v].data.marks = landed
      BY <3>2, <1>3, <1>5, <2>1 DEF MarksHeld, Idle
    <3>3. QED
      BY <2>1, <3>1, <3>2 DEF MarksHeld, Merges
  <2>4. \A v \in Actor : op'[v].kind = "amend" => op'[v] = op[v]
    BY <1>2, <1>3, <1>5 DEF Idle
  <2>5. op'[Loop].kind = "store" <=> op[Loop].kind = "store"
    BY <1>3, <1>5, ActorTypes DEF Saves, Idle
  <2>9. ASSUME NEW v \in Actor
        PROVE  /\ op'[v].kind = "amend" /\ HoldsRecord(v)' => op'[v].data.turns = disk.turns
               /\ Own(v)' /\ HoldsRecord(v)' => op'[v].data.turns <= Counted
    BY <1>9, <1>10, <2>1, <2>4 DEF CountsHeld
  <2>10. mem'[cur].turns = mem[cur].turns
    BY <1>6
  <2>6. CountsHeld'
    BY <1>8, <1>9, <1>10, <2>1, <2>5, <2>9, <2>10, ActorTypes DEF CountsHeld, Merges, counts
  <2>7. SaveAhead'
    BY <1>8, <1>10, <2>1 DEF SaveAhead, Merges
  <2>8. QED
    BY <2>3, <2>6, <2>7 DEF Held
<1>13. QED
  BY <1>7, <1>11, <1>12 DEF IInv

LEMMA DumpsKeeps == ASSUME IInv, NEW w \in Actor, Dumps(w) PROVE IInv'
<1> DEFINE new == [op[w] EXCEPT !.data = mem[op[w].proj], !.pc = "replaces"]
<1>1. op' = [op EXCEPT ![w] = new] /\ TypeOK
  BY DEF Dumps, IInv
<1>2. op[w] \in Operation /\ op[w].proj \in Proj /\ Saves(w) /\ mem[op[w].proj] \in Record
  BY <1>1, OpFields DEF Dumps, Fits, Saves, Kinds, TypeOK
<1>3. /\ new.kind = op[w].kind /\ new.proj = op[w].proj /\ new.pc = "replaces"
      /\ new.data = mem[op[w].proj] /\ new \in Operation
  BY <1>2 DEF Operation
<1>4. Fits(w, new)
  BY <1>1, <1>2, <1>3, OpFields DEF Fits, Saves
<1>5. /\ op' \in [Actor -> Operation] /\ \A v \in Actor : Fits(v, op'[v])
      /\ op'[w] = new /\ \A v \in Actor \ {w} : op'[v] = op[v]
  BY <1>1, <1>3, <1>4, OpStep
<1> HIDE DEF new
<1>6. TypeOK'
  BY <1>1, <1>5 DEF TypeOK, Dumps, projection, counts
<1>7. Counted' = Counted /\ cur' = cur /\ Counted \in Nat
  BY <1>1, CountedTyped DEF Counted, Dumps, projection, counts
<1>8. \A v \in Actor : /\ op'[v].kind = op[v].kind /\ op'[v].proj = op[v].proj
                       /\ Saves(v)' <=> Saves(v)
                       /\ Own(v)' <=> Own(v)
  BY <1>3, <1>5, <1>7 DEF Saves, Own
<1>9. Objects'
  BY <1>2, <1>3, <1>5, <1>8, ActorTypes DEF IInv, Objects, Dumps, projection, HoldsRecord
<1>10. ASSUME ~crossed' PROVE Held'
  <2>1. MarksHeld /\ CountsHeld /\ SaveAhead
    BY <1>10 DEF IInv, Held, Dumps
  <2>2. mem[op[w].proj].marks = landed
    BY <2>1 DEF MarksHeld, Dumps
  <2>3. Own(w) => mem[op[w].proj].turns = Counted
    BY <1>2, <2>1, NoneIsNoMark DEF CountsHeld, Own, IInv, Objects
  <2>4. MarksHeld'
    BY <1>3, <1>5, <2>1, <2>2 DEF MarksHeld, Dumps, projection
  <2>5. \A v \in Actor : Coming(v)' <=> Coming(v)
    BY <1>3, <1>5, <1>7, <1>8, <2>3 DEF Coming, HoldsRecord, Dumps
  <2>6. ASSUME NEW v \in Actor
        PROVE  /\ op'[v].kind = "amend" /\ HoldsRecord(v)' => op'[v].data.turns = disk.turns
               /\ Own(v)' /\ HoldsRecord(v)' => op'[v].data.turns <= Counted
    <3>1. CASE v = w
      BY <3>1, <1>2, <1>3, <1>5, <1>7, <1>8, <2>3 DEF Saves
    <3>2. CASE v # w
      BY <3>2, <1>5, <1>8, <2>1 DEF CountsHeld, HoldsRecord
    <3>3. QED
      BY <3>1, <3>2
  <2>7. CountsHeld'
    BY <1>7, <1>8, <2>1, <2>5, <2>6, ActorTypes DEF CountsHeld, Dumps, projection, counts
  <2>8. SaveAhead'
    BY <1>7, <1>8, <2>1, <2>5 DEF SaveAhead, Dumps, projection
  <2>9. QED
    BY <2>4, <2>7, <2>8 DEF Held
<1>11. QED
  BY <1>6, <1>9, <1>10 DEF IInv

LEMMA LandsTyped == ASSUME TypeOK, NEW w \in Actor, Lands(w) PROVE TypeOK'
<1>1. disk' \in Record /\ landed' \subseteq Mark
  BY OpFields DEF TypeOK, Lands, Replaces, Record, Fits
<1>2. crossed' \in BOOLEAN /\ stale' \in BOOLEAN
  BY DEF TypeOK, Lands, Replaces
<1>3. dirty' \in [Proj -> BOOLEAN] /\ timer' \in [Proj -> BOOLEAN]
  BY DEF TypeOK, Lands
<1>4. Fits(w, Idle)
  BY ActorTypes DEF Fits, Idle
<1>5. op' = [op EXCEPT ![w] = Idle]
  BY DEF Lands, Replaces
<1>6. op' \in [Actor -> Operation] /\ \A v \in Actor : Fits(v, op'[v])
  BY <1>4, <1>5, OpStep, Records
<1>7. QED
  BY <1>1, <1>2, <1>3, <1>6 DEF TypeOK, Lands, Replaces, counts

LEMMA LandsKeeps == ASSUME IInv, NEW w \in Actor, Lands(w) PROVE IInv'
<1>1. TypeOK /\ TypeOK'
  BY LandsTyped DEF IInv
<1>2. /\ \A v \in Actor \ {w} : op'[v] = op[v]
      /\ op'[w].kind = "none" /\ op'[w].pc = "none"
  BY <1>1 DEF Lands, Replaces, TypeOK, Idle
<1>3. op[w].kind = "amend" \/ Saves(w)
  BY OpFields, <1>1 DEF Lands, Replaces, Fits, Saves, Kinds
<1>4. Counted' = Counted /\ cur' = cur /\ mem' = mem /\ Counted \in Nat
  BY <1>1, CountedTyped DEF Counted, Lands, Replaces, counts
<1>5. /\ \A v \in Actor \ {w} : /\ Saves(v)' <=> Saves(v)
                                /\ HoldsRecord(v)' <=> HoldsRecord(v)
                                /\ Own(v)' <=> Own(v)
                                /\ Coming(v)' <=> Coming(v)
      /\ ~Saves(w)' /\ ~HoldsRecord(w)' /\ ~Own(w)' /\ ~Coming(w)'
  BY <1>2, <1>4 DEF Saves, Own, Coming, HoldsRecord
<1>6. \A p \in Proj : dirty'[p] <=> dirty[p] \/ (op[w].kind = "fold" /\ p = op[w].proj)
  BY <1>1 DEF Lands, TypeOK
<1>7. Objects'
  BY <1>2, <1>4, <1>5, <1>6, ActorTypes DEF IInv, Objects, Saves
<1>8. ASSUME ~crossed' PROVE Held'
  <2>1. MarksHeld /\ CountsHeld /\ SaveAhead /\ ~Crosses(w)
    BY <1>8 DEF IInv, Held, Lands, Replaces
  <2>2. dirty[cur] => dirty'[cur]
    BY <1>1, <1>6 DEF TypeOK
  <2>3. CASE op[w].kind = "amend"
    <3>1. ~Saves(w) /\ ~Own(w) /\ ~Coming(w)
      BY <2>3 DEF Saves, Own, Coming
    <3>2. \A v \in Actor \ {w} : ~HoldsMarks(v)
      BY <2>1, <2>3 DEF Crosses
    <3>3. /\ op[w].data.marks = landed /\ op[w].data.turns = disk.turns
          /\ op[w].data \in Record
      BY <2>1, <2>3, <1>1, OpFields DEF MarksHeld, CountsHeld, Lands, Replaces, HoldsRecord
    <3>4. disk'.turns = disk.turns /\ disk'.marks = landed' /\ stale' = stale
      BY <3>3, <2>3 DEF Lands, Replaces, Record
    <3>5. MarksHeld'
      BY <3>2, <3>4, <1>2 DEF MarksHeld, HoldsMarks
    <3>6. op'[Loop].kind = "store" <=> op[Loop].kind = "store"
      BY <1>2, <2>3, ActorTypes
    <3>7. CountsHeld'
      BY <1>2, <1>4, <1>5, <2>1, <3>4, <3>6, ActorTypes
      DEF CountsHeld, Lands, Replaces, counts
    <3>8. SaveAhead'
      BY <1>4, <1>5, <2>1, <2>2, <3>1, <3>4 DEF SaveAhead, Lands, Replaces
    <3>9. QED
      BY <3>5, <3>7, <3>8 DEF Held
  <2>4. CASE Saves(w)
    <3>1. \A v \in Actor \ {w} : op[v].kind = "amend" => ~HoldsRecord(v)
      BY <2>1, <2>4 DEF Crosses
    <3>2. /\ disk' = op[w].data /\ landed' = landed /\ stale' = (op[w].proj # cur)
          /\ op[w].data.marks = landed /\ HoldsRecord(w) /\ op[w].data.turns \in Nat
      BY <2>1, <2>4 DEF MarksHeld, Lands, Replaces, Saves, HoldsRecord, IInv, Objects
    <3>3. MarksHeld'
      BY <1>2, <1>4, <2>1, <3>2 DEF MarksHeld
    <3>4. CountsHeld'
      BY <1>2, <1>4, <1>5, <2>1, <3>1, <3>2, NoneIsNoMark, ActorTypes DEF CountsHeld
    <3>5. CASE ~Own(w)
      <4>1. stale' /\ ~Coming(w)
        BY <2>4, <3>2, <3>5 DEF Own, Coming
      <4>2. SaveAhead'
        BY <1>4, <1>5, <2>1, <2>2, <3>5, <4>1 DEF SaveAhead
      <4>3. QED
        BY <3>3, <3>4, <4>2 DEF Held
    <3>6. CASE Own(w) /\ op[w].kind = "fold"
      <4>1. dirty'[cur]
        BY <1>1, <1>6, <3>6 DEF Own, TypeOK
      <4>2. QED
        BY <4>1, <1>4, <3>3, <3>4 DEF Held, SaveAhead
    <3>7. CASE Own(w) /\ op[w].kind # "fold" /\ Coming(w)
      <4>1. disk'.turns = Counted
        BY <3>2, <3>7 DEF Coming
      <4>2. ASSUME NEW v \in Actor \ {w}, Own(v) PROVE Coming(v)
        <5>1. HoldsRecord(v) => ~(op[v].data.turns < Counted)
          BY <2>1, <3>2, <3>7, <4>1, <4>2 DEF Crosses, Own
        <5>2. HoldsRecord(v) => op[v].data.turns <= Counted /\ op[v].data.turns \in Nat
          BY <2>1, <4>2 DEF CountsHeld, IInv, Objects, Own
        <5>3. QED
          BY <1>4, <4>2, <5>1, <5>2 DEF Coming
      <4>3. SaveAhead'
        BY <1>4, <1>5, <4>1, <4>2 DEF SaveAhead
      <4>4. QED
        BY <3>3, <3>4, <4>3 DEF Held
    <3>8. CASE Own(w) /\ ~Coming(w)
      <4>1. dirty[cur] \/ \E v \in Actor \ {w} : Coming(v)
        BY <2>1, <3>8 DEF SaveAhead
      <4>2. dirty'[cur] \/ \E v \in Actor : Coming(v)'
        BY <1>5, <2>2, <4>1
      <4>3. SaveAhead'
        BY <1>4, <4>2 DEF SaveAhead
      <4>4. QED
        BY <3>3, <3>4, <4>3 DEF Held
    <3>9. QED
      BY <3>5, <3>6, <3>7, <3>8
  <2>5. QED
    BY <1>3, <2>3, <2>4
<1>9. QED
  BY <1>1, <1>7, <1>8 DEF IInv

-----------------------------------------------------------------------------
(* The session's and the daemon's steps.                                   *)

\* Nothing is saved, at most something else is taken up.
LEMMA Quiet ==
    ASSUME IInv, TypeOK', UNCHANGED <<disk, mem, dirty, cur, stale, landed, crossed>>,
           Counted' = Counted,
           \A w \in Actor :
               \/ op'[w] = op[w]
               \/ IsIdle(w) /\ op'[w].kind \in {"refresh", "amend"} /\ op'[w].pc = "reads",
           ~crossed /\ Held =>
               \/ disk.turns # None
               \/ pending' = pending /\ owed' = owed /\ events' = events,
           state' = state \/ state' = "stopped"
    PROVE  IInv'
<1>1. \A w \in Actor : /\ (Saves(w)' <=> Saves(w)) /\ (Own(w)' <=> Own(w))
                       /\ (Coming(w)' <=> Coming(w))
                       /\ HoldsRecord(w)' => op'[w] = op[w]
                       /\ Saves(w) \/ HoldsRecord(w) => op'[w] = op[w]
                       /\ op[w].kind = "store" => op'[w] = op[w]
                       /\ op'[w].pc \in {"merges", "dumps", "replaces"} => op'[w] = op[w]
  <2> SUFFICES ASSUME NEW w \in Actor
               PROVE  /\ (Saves(w)' <=> Saves(w)) /\ (Own(w)' <=> Own(w))
                      /\ (Coming(w)' <=> Coming(w))
                      /\ HoldsRecord(w)' => op'[w] = op[w]
                      /\ Saves(w) \/ HoldsRecord(w) => op'[w] = op[w]
                      /\ op[w].kind = "store" => op'[w] = op[w]
                      /\ op'[w].pc \in {"merges", "dumps", "replaces"} => op'[w] = op[w]
    OBVIOUS
  <2>1. CASE op'[w] = op[w]
    BY <2>1 DEF Saves, Own, Coming, HoldsRecord
  <2>2. CASE IsIdle(w) /\ op'[w].kind \in {"refresh", "amend"} /\ op'[w].pc = "reads"
    <3>1. op[w].pc = "none" /\ op[w].kind = "none"
      BY <2>2, OpFields DEF IInv, IsIdle, Fits
    <3>2. QED
      BY <2>2, <3>1 DEF Saves, Own, Coming, HoldsRecord
  <2>3. QED
    BY <2>1, <2>2
<1>2. Objects'
  <2>1. Objects
    BY DEF IInv
  <2>2. ASSUME NEW w \in Actor, Saves(w)'
        PROVE  op'[w] = op[w] /\ Saves(w) /\ (HoldsRecord(w)' <=> HoldsRecord(w))
    BY <1>1, <2>2 DEF HoldsRecord
  <2>3. QED
    BY <2>1, <2>2, ActorTypes DEF Objects
<1>3. ASSUME ~crossed' PROVE Held'
  <2>1. MarksHeld /\ CountsHeld /\ SaveAhead /\ Held
    BY <1>3 DEF IInv, Held
  <2>2. MarksHeld'
    BY <1>1, <2>1 DEF MarksHeld
  <2>6. ASSUME NEW w \in Actor
        PROVE  /\ op'[w].kind = "amend" /\ HoldsRecord(w)' => op'[w].data.turns = disk.turns
               /\ Own(w)' /\ HoldsRecord(w)' => op'[w].data.turns <= Counted
    BY <1>1, <2>1 DEF CountsHeld, HoldsRecord
  <2>7. disk.turns = None =>
          /\ pending' = 0 /\ owed' = events'
          /\ state' = "stopped" \/ op'[Loop].kind = "store"
    BY <1>1, <1>3, <2>1, ActorTypes DEF CountsHeld
  <2>3. CountsHeld'
    BY <1>1, <2>1, <2>6, <2>7, ActorTypes DEF CountsHeld
  <2>4. SaveAhead'
    BY <1>1, <2>1 DEF SaveAhead
  <2>5. QED
    BY <2>2, <2>3, <2>4 DEF Held
<1>4. QED
  BY <1>2, <1>3 DEF IInv

LEMMA RefreshesKeeps == ASSUME IInv, Refreshes PROVE IInv'
<1>1. TypeOK /\ cur \in Proj /\ IsIdle(Loop)
  BY DEF IInv, TypeOK, Refreshes, LoopFree
<1>2. /\ op' \in [Actor -> Operation] /\ \A v \in Actor : Fits(v, op'[v])
      /\ op'[Loop] = Doing("refresh", cur) /\ \A v \in Actor \ {Loop} : op'[v] = op[v]
  BY <1>1, Begins, ActorTypes DEF Refreshes
<1>3. TypeOK'
  BY <1>1, <1>2 DEF Refreshes, TypeOK, projection, counts
<1>4. QED
  BY <1>1, <1>2, <1>3, Quiet DEF Refreshes, Doing, projection, counts, Counted

LEMMA AmendsKeeps ==
    ASSUME IInv, NEW w \in {Loop, Daemon}, NEW m \in Mark, IsIdle(w),
           op' = [op EXCEPT ![w] = Amending(m)],
           UNCHANGED <<disk, projection, state, counts, landed, crossed>>
    PROVE  IInv'
<1>1. TypeOK
  BY DEF IInv
<1>2. /\ op' \in [Actor -> Operation] /\ \A v \in Actor : Fits(v, op'[v])
      /\ op'[w] = Amending(m) /\ \A v \in Actor \ {w} : op'[v] = op[v]
  BY <1>1, BeginsAmending
<1>3. TypeOK'
  BY <1>1, <1>2 DEF TypeOK, projection, counts
<1>4. QED
  BY <1>1, <1>2, <1>3, Quiet DEF Amending, projection, counts, Counted

LEMMA PromotesKeeps == ASSUME IInv, NEW m \in Promotion, Promotes(m) PROVE IInv'
BY AmendsKeeps DEF Promotes, LoopFree, Mark

LEMMA UpdatesKeeps == ASSUME IInv, NEW m \in Rename, Updates(m) PROVE IInv'
BY AmendsKeeps DEF Updates, Mark

LEMMA AppendsKeeps == ASSUME IInv, Appends PROVE IInv'
<1>1. TypeOK /\ TypeOK'
  BY DEF IInv, TypeOK, Appends, projection
<1>2. Counted' = Counted
  BY <1>1 DEF TypeOK, Appends, Counted
<1>3. ~crossed /\ Held => disk.turns # None
  BY DEF Held, CountsHeld, Appends, LoopFree, IsIdle
<1>4. QED
  BY <1>1, <1>2, <1>3, Quiet DEF Appends, projection

LEMMA CutKeeps == ASSUME IInv, Cut PROVE IInv'
<1>1. TypeOK /\ TypeOK'
  BY DEF IInv, TypeOK, Cut, projection
<1>2. Counted' = Counted
  BY <1>1 DEF TypeOK, Cut, Counted
<1>3. ~crossed /\ Held => disk.turns # None
  BY DEF Held, CountsHeld, Cut
<1>4. QED
  BY <1>1, <1>2, <1>3, Quiet DEF Cut, projection

LEMMA FiresKeeps == ASSUME IInv, NEW p \in Proj, Fires(p) PROVE IInv'
<1>1. TypeOK'
  BY DEF IInv, TypeOK, Fires, counts
<1>2. QED
  BY <1>1, Quiet DEF Fires, counts, Counted

LEMMA StoppedKeeps == ASSUME IInv, Stopped PROVE IInv'
<1>1. TypeOK'
  BY DEF IInv, TypeOK, Stopped, projection, counts
<1>2. QED
  BY <1>1, Quiet DEF Stopped, projection, counts, Counted

\* A save of the summary begins, and leaves it clean.
LEMMA Begun ==
    ASSUME IInv, NEW w \in Actor, NEW p \in Proj, NEW kind \in {"store", "pool", "flush"},
           IsIdle(w), op' = [op EXCEPT ![w] = Doing(kind, p)],
           kind = "store" => w = Loop /\ p = cur,
           kind # "store" => w \in Pool,
           dirty' = [dirty EXCEPT ![p] = FALSE], mem[p].turns \in Nat,
           UNCHANGED <<disk, mem, cur, stale, counts, landed, crossed>>,
           state' = state \/ (state = "running" /\ LoopFree)
    PROVE  /\ op' \in [Actor -> Operation] /\ \A v \in Actor : Fits(v, op'[v])
           /\ Objects' /\ (~crossed' => Held')
<1>1. TypeOK /\ op[w].kind = "none" /\ op[w].pc = "none"
  BY OpFields DEF IInv, IsIdle, Fits
<1>2. /\ op' \in [Actor -> Operation] /\ \A v \in Actor : Fits(v, op'[v])
      /\ op'[w] = Doing(kind, p) /\ \A v \in Actor \ {w} : op'[v] = op[v]
  BY <1>1, Begins
<1>3. Counted' = Counted
  BY DEF Counted, counts
<1>4. /\ \A v \in Actor \ {w} : /\ (Saves(v)' <=> Saves(v)) /\ (Own(v)' <=> Own(v))
                                /\ (Coming(v)' <=> Coming(v))
                                /\ (HoldsRecord(v)' <=> HoldsRecord(v))
      /\ Saves(w)' /\ ~HoldsRecord(w)' /\ op'[w].proj = p /\ op'[w].pc = "reads"
      /\ op'[w].kind = kind
      /\ ~Saves(w) /\ ~Own(w) /\ ~Coming(w)
      /\ p = cur => Own(w)' /\ Coming(w)'
  BY <1>1, <1>2, <1>3 DEF Saves, Own, Coming, HoldsRecord, Doing
<1>5. \A q \in Proj : dirty'[q] => dirty[q]
  BY <1>1 DEF TypeOK
<1>6. Objects'
  BY <1>2, <1>4, <1>5, ActorsDiffer, ActorTypes DEF IInv, Objects
<1>7. ASSUME ~crossed' PROVE Held'
  <2>1. MarksHeld /\ CountsHeld /\ SaveAhead
    BY <1>7 DEF IInv, Held
  <2>2. MarksHeld'
    BY <1>2, <1>4, <2>1 DEF MarksHeld
  <2>3. ASSUME NEW v \in Actor
        PROVE  /\ op'[v].kind = "amend" /\ HoldsRecord(v)' => op'[v].data.turns = disk.turns
               /\ Own(v)' /\ HoldsRecord(v)' => op'[v].data.turns <= Counted
    BY <1>2, <1>4, <2>1 DEF CountsHeld
  <2>4. Saves(Loop)' => Coming(Loop)'
    BY <1>4, <2>1, ActorTypes, ActorsDiffer DEF CountsHeld
  <2>5. disk.turns = None => state' = "stopped" \/ op'[Loop].kind = "store"
    BY <1>1, <1>2, <2>1, ActorTypes DEF CountsHeld, LoopFree, IsIdle
  <2>6. CountsHeld'
    BY <1>3, <2>1, <2>3, <2>4, <2>5 DEF CountsHeld, counts
  <2>7. CASE p = cur
    BY <1>4, <2>2, <2>6, <2>7 DEF SaveAhead, Held
  <2>8. CASE p # cur
    <3>1. dirty'[cur] = dirty[cur]
      BY <1>1, <2>8 DEF TypeOK
    <3>2. ~Own(w)'
      BY <1>4, <2>8 DEF Own
    <3>3. disk.turns = None /\ state = "stopped" => state' = "stopped"
      OBVIOUS
    <3>4. SaveAhead'
      BY <1>3, <1>4, <2>1, <3>1, <3>2, <3>3 DEF SaveAhead
    <3>5. QED
      BY <2>2, <2>6, <3>4 DEF Held
  <2>9. QED
    BY <2>7, <2>8
<1>8. QED
  BY <1>2, <1>6, <1>7

LEMMA StoresKeeps == ASSUME IInv, Stores PROVE IInv'
<1>1. TypeOK /\ IsIdle(Loop) /\ cur \in Proj /\ mem[cur].turns \in Nat
  BY DEF IInv, Stores, LoopFree, TypeOK
<1>2. /\ op' \in [Actor -> Operation] /\ \A v \in Actor : Fits(v, op'[v])
      /\ Objects' /\ (~crossed' => Held')
  BY <1>1, Begun, ActorTypes DEF Stores
<1>3. TypeOK'
  BY <1>1, <1>2 DEF Stores, TypeOK, counts
<1>4. QED
  BY <1>2, <1>3 DEF IInv

LEMMA DispatchesKeeps ==
    ASSUME IInv, NEW p \in Proj, NEW t \in Pool, Dispatches(p, t) PROVE IInv'
<1>1. TypeOK /\ t \in Actor
  BY ActorTypes DEF IInv
<1>2. CASE dirty[p]
  <2>1. IsIdle(t) /\ op' = [op EXCEPT ![t] = Doing("pool", p)] /\ mem[p].turns \in Nat
    BY <1>2 DEF Dispatches, Dispatched, IInv, Objects
  <2>2. /\ op' \in [Actor -> Operation] /\ \A v \in Actor : Fits(v, op'[v])
        /\ Objects' /\ (~crossed' => Held')
    BY <1>1, <2>1, Begun DEF Dispatches
  <2>3. TypeOK'
    BY <1>1, <2>2 DEF Dispatches, TypeOK, counts
  <2>4. QED
    BY <2>2, <2>3 DEF IInv
<1>3. CASE ~dirty[p]
  <2>1. dirty' = dirty /\ op' = op
    BY <1>1, <1>3 DEF Dispatches, TypeOK
  <2>2. TypeOK'
    BY <1>1, <2>1 DEF Dispatches, TypeOK, counts
  <2>3. QED
    BY <2>1, <2>2, Quiet DEF Dispatches, counts, Counted
<1>4. QED
  BY <1>2, <1>3

LEMMA StopsKeeps == ASSUME IInv, NEW t \in Pool, Stops(t) PROVE IInv'
<1>1. TypeOK /\ t \in Actor /\ cur \in Proj /\ state = "running" /\ LoopFree
  BY ActorTypes DEF IInv, Stops, TypeOK
<1>2. CASE dirty[cur]
  <2>1. IsIdle(t) /\ op' = [op EXCEPT ![t] = Doing("flush", cur)] /\ mem[cur].turns \in Nat
    BY <1>1, <1>2 DEF Stops, Dispatched, TypeOK
  <2>2. /\ op' \in [Actor -> Operation] /\ \A v \in Actor : Fits(v, op'[v])
        /\ Objects' /\ (~crossed' => Held')
    BY <1>1, <2>1, Begun DEF Stops
  <2>3. TypeOK'
    BY <1>1, <1>2, <2>2 DEF Stops, TypeOK, counts
  <2>4. QED
    BY <2>2, <2>3 DEF IInv
<1>3. CASE ~dirty[cur]
  <2>1. dirty' = dirty /\ op' = op /\ state' = "stopped"
    BY <1>1, <1>3 DEF Stops, TypeOK
  <2>2. TypeOK'
    BY <1>1, <2>1 DEF Stops, TypeOK, counts
  <2>3. QED
    BY <2>1, <2>2, Quiet DEF Stops, counts, Counted
<1>4. QED
  BY <1>2, <1>3

LEMMA FoldsKeeps == ASSUME IInv, NEW saves \in BOOLEAN, Folds(saves) PROVE IInv'
<1>1. /\ TypeOK /\ op[Loop].kind = "none" /\ op[Loop].pc = "none"
      /\ cur \in Proj /\ mem[cur].turns \in Nat
  BY OpFields, ActorTypes DEF IInv, Folds, LoopFree, IsIdle, TypeOK, Fits
<1>2. /\ mem' \in [Proj -> Record]
      /\ mem'[cur].turns = mem[cur].turns + 1
      /\ \A p \in Proj : mem'[p].marks = mem[p].marks
      /\ \A p \in Proj : mem[p].turns \in Nat => mem'[p].turns \in Nat
  BY <1>1 DEF Folds, TypeOK, Record
<1>3. /\ op' \in [Actor -> Operation] /\ \A v \in Actor : Fits(v, op'[v])
      /\ \A v \in Actor \ {Loop} : op'[v] = op[v]
      /\ IF saves THEN op'[Loop] = Doing("fold", cur) ELSE op'[Loop] = op[Loop]
  <2>1. CASE saves
    BY <1>1, <2>1, Begins, ActorTypes DEF Folds
  <2>2. CASE ~saves
    BY <1>1, <2>2 DEF Folds, TypeOK
  <2>3. QED
    BY <2>1, <2>2
<1>4. /\ dirty' \in [Proj -> BOOLEAN] /\ timer' \in [Proj -> BOOLEAN]
      /\ dirty'[cur] = ~saves /\ \A p \in Proj : dirty'[p] => dirty[p] \/ p = cur
  BY <1>1 DEF Folds, TypeOK
<1>5. pending' \in Nat /\ pending' <= owed /\ Counted' = Counted + 1 /\ Counted \in Nat
  BY <1>1 DEF Folds, TypeOK, Counted
<1>6. mem'[cur].turns \in Nat
  BY <1>1, <1>2
<1>7. TypeOK'
  BY <1>1, <1>2, <1>3, <1>4, <1>5, <1>6 DEF Folds, TypeOK
<1>8. /\ \A v \in Actor \ {Loop} : /\ (Saves(v)' <=> Saves(v)) /\ (Own(v)' <=> Own(v))
                                   /\ (HoldsRecord(v)' <=> HoldsRecord(v))
      /\ ~Saves(Loop) /\ ~HoldsRecord(Loop)' /\ (Saves(Loop)' <=> saves)
      /\ saves => Own(Loop)' /\ Coming(Loop)' /\ op'[Loop].proj = cur
      /\ op'[Loop].kind \in {"none", "fold"} /\ op'[Loop].pc \in {"none", "reads"}
  BY <1>1, <1>3 DEF Folds, Saves, Own, Coming, HoldsRecord, Doing
<1>9. Objects'
  <2>1. \A v \in Actor : Saves(v) => op[v].proj \in Proj
    BY <1>1, OpFields DEF Saves
  <2>2. \A p \in Proj : dirty'[p] => mem'[p].turns \in Nat
    BY <1>1, <1>2, <1>4 DEF IInv, Objects
  <2>3. ASSUME NEW v \in Actor, Saves(v)'
        PROVE  /\ mem'[op'[v].proj].turns \in Nat
               /\ HoldsRecord(v)' => op'[v].data.turns \in Nat
    BY <1>1, <1>2, <1>3, <1>6, <1>8, <2>1, <2>3 DEF IInv, Objects
  <2>4. QED
    BY <1>8, <2>2, <2>3 DEF Objects, Folds
<1>10. ASSUME ~crossed' PROVE Held'
  <2>1. MarksHeld /\ CountsHeld /\ SaveAhead
    BY <1>10 DEF IInv, Held, Folds
  <2>2. MarksHeld'
    <3>1. \A v \in Actor : op[v].pc = "dumps" => op[v].proj \in Proj
      BY <1>1, OpFields DEF Fits
    <3>2. QED
      BY <1>2, <1>3, <1>8, <2>1, <3>1 DEF MarksHeld, Folds
  <2>3. mem'[cur].turns = Counted'
    BY <1>1, <1>2, <1>5, <2>1, NoneIsNoMark DEF CountsHeld
  <2>4. ASSUME NEW v \in Actor
        PROVE  /\ op'[v].kind = "amend" /\ HoldsRecord(v)' => op'[v].data.turns = disk.turns
               /\ Own(v)' /\ HoldsRecord(v)' => op'[v].data.turns <= Counted'
    <3>1. Own(v) /\ HoldsRecord(v) => op[v].data.turns \in Nat /\ op[v].data.turns <= Counted
      BY <2>1 DEF CountsHeld, IInv, Objects, Own
    <3>2. QED
      BY <1>3, <1>5, <1>8, <2>1, <3>1 DEF CountsHeld
  <2>5. disk.turns # None
    BY <2>1 DEF CountsHeld, Folds
  <2>6. CountsHeld'
    BY <1>8, <2>3, <2>4, <2>5 DEF CountsHeld, Folds
  <2>7. dirty'[cur] \/ Coming(Loop)'
    BY <1>4, <1>8
  <2>8. SaveAhead'
    BY <2>7, ActorTypes DEF SaveAhead, Folds
  <2>9. QED
    BY <2>2, <2>6, <2>8 DEF Held
<1>11. QED
  BY <1>7, <1>9, <1>10 DEF IInv

\* A projection is built anew, and nobody else's is touched.
LEMMA InitsKeeps ==
    ASSUME IInv, NEW p \in Proj, Inits(p), state' \in {"running", "flushing"}
    PROVE  IInv'
<1>1. /\ TypeOK /\ op[Loop].kind = "none" /\ op[Loop].pc = "none"
      /\ ~dirty[p] /\ \A w \in Actor : op[w].proj # p
  BY OpFields, ActorTypes DEF IInv, Inits, Fresh, LoopFree, IsIdle, Fits
<1>2. /\ mem' \in [Proj -> Record] /\ mem'[p].turns \in Nat
      /\ mem'[p].turns = IF IsSession THEN disk.turns ELSE events
      /\ \A q \in Proj \ {p} : mem'[q] = mem[q]
  <2>1. CASE IsSession
    BY <1>1, <2>1 DEF Inits, TypeOK, IsSession, Record
  <2>2. CASE ~IsSession
    <3> DEFINE folded == [turns |-> events, marks |-> {}]
    <3>1. folded \in Record /\ folded.turns = events /\ events \in Nat
      BY <1>1 DEF TypeOK, Record
    <3>2. mem' = [mem EXCEPT ![p] = folded] /\ mem \in [Proj -> Record]
      BY <1>1, <2>2 DEF Inits, TypeOK
    <3> HIDE DEF folded
    <3>3. QED
      BY <2>2, <3>1, <3>2
  <2>3. QED
    BY <2>1, <2>2
<1>3. /\ op' \in [Actor -> Operation] /\ \A v \in Actor : Fits(v, op'[v])
      /\ \A v \in Actor \ {Loop} : op'[v] = op[v]
      /\ IF IsSession THEN op'[Loop] = op[Loop] ELSE op'[Loop] = Doing("store", p)
  <2>1. CASE IsSession
    BY <1>1, <2>1 DEF Inits, TypeOK
  <2>2. CASE ~IsSession
    BY <1>1, <2>2, Begins, ActorTypes DEF Inits
  <2>3. QED
    BY <2>1, <2>2
<1>4. owed' \in Nat /\ pending <= owed'
  BY <1>1 DEF Inits, TypeOK, IsSession, Record
<1>5. TypeOK'
  BY <1>1, <1>2, <1>3, <1>4 DEF Inits, TypeOK
<1>6. cur' = p /\ stale' = FALSE /\ UNCHANGED <<disk, dirty, events, pending, landed, crossed>>
  BY DEF Inits
<1>7. /\ \A v \in Actor \ {Loop} : /\ (Saves(v)' <=> Saves(v)) /\ ~Own(v)'
                                   /\ (HoldsRecord(v)' <=> HoldsRecord(v))
      /\ ~Saves(Loop) /\ ~HoldsRecord(Loop)' /\ (Saves(Loop)' <=> ~IsSession)
      /\ ~IsSession => Own(Loop)' /\ Coming(Loop)' /\ op'[Loop].proj = p
      /\ op'[Loop].kind \in {"none", "store"} /\ op'[Loop].pc \in {"none", "reads"}
      /\ ~IsSession => op'[Loop].kind = "store"
  BY <1>1, <1>3, <1>6 DEF Saves, Own, Coming, HoldsRecord, Doing
<1>8. Objects'
  <2>1. \A v \in Actor : Saves(v) => op[v].proj \in Proj \ {p}
    BY <1>1, OpFields DEF Saves
  <2>2. \A q \in Proj : dirty'[q] => mem'[q].turns \in Nat
    BY <1>1, <1>2, <1>6 DEF IInv, Objects
  <2>3. ASSUME NEW v \in Actor, Saves(v)'
        PROVE  /\ mem'[op'[v].proj].turns \in Nat
               /\ HoldsRecord(v)' => op'[v].data.turns \in Nat
    BY <1>2, <1>3, <1>7, <2>1, <2>3 DEF IInv, Objects
  <2>4. QED
    BY <1>6, <1>7, <2>2, <2>3 DEF Objects
<1>9. ASSUME ~crossed' PROVE Held'
  <2>1. MarksHeld /\ CountsHeld /\ SaveAhead
    BY <1>6, <1>9 DEF IInv, Held
  <2>2. MarksHeld'
    <3>1. \A v \in Actor : op[v].pc = "dumps" => op[v].proj \in Proj \ {p}
      BY <1>1, OpFields DEF Fits
    <3>2. QED
      BY <1>2, <1>3, <1>6, <1>7, <2>1, <3>1 DEF MarksHeld
  <2>3. IsSession /\ Unsaved => Counted' = disk.turns
    BY <1>1, <1>6 DEF Inits, Counted, TypeOK, IsSession, Record
  <2>4. IsSession /\ ~Unsaved => Counted' = disk.turns
    <3>1. ASSUME ~Unsaved PROVE ~stale /\ ~dirty[cur] /\ \A w \in Actor : ~Coming(w)
      BY <3>1 DEF Unsaved, Coming, Own
    <3>2. ASSUME ~Unsaved PROVE Counted' = Counted
      BY <3>2, <1>6 DEF Inits, Counted
    <3>3. QED
      BY <2>1, <3>1, <3>2 DEF SaveAhead, IsSession
  <2>5. ~IsSession => Counted' = events /\ pending' = 0 /\ owed' = events
    BY <1>1, <1>6, <2>1 DEF Inits, Counted, IsSession, CountsHeld, TypeOK
  <2>6. mem'[p].turns = Counted'
    BY <1>2, <2>3, <2>4, <2>5
  <2>7. disk.turns = None => ~IsSession
    BY DEF IsSession
  <2>8. CountsHeld'
    <3>1. ASSUME NEW v \in Actor
          PROVE  /\ op'[v].kind = "amend" /\ HoldsRecord(v)' => op'[v].data.turns = disk.turns
                 /\ ~(Own(v)' /\ HoldsRecord(v)')
      BY <1>3, <1>7, <2>1 DEF CountsHeld
    <3>2. QED
      BY <1>6, <1>7, <2>5, <2>6, <2>7, <3>1 DEF CountsHeld
  <2>9. disk'.turns = Counted' \/ Coming(Loop)'
    BY <1>6, <1>7, <2>3, <2>4
  <2>10. \A v \in Actor : Own(v)' => Coming(v)'
    BY <1>7 DEF Own
  <2>11. SaveAhead'
    BY <2>9, <2>10, ActorTypes DEF SaveAhead
  <2>12. QED
    BY <2>2, <2>8, <2>11 DEF Held
<1>10. QED
  BY <1>5, <1>8, <1>9 DEF IInv

LEMMA CrashesKeeps == ASSUME IInv, Crashes PROVE IInv'
<1>1. TypeOK
  BY DEF IInv
<1>2. /\ \A w \in Actor : op'[w] = IF w = Daemon THEN op[w] ELSE Idle
      /\ op' \in [Actor -> Operation]
  BY <1>1, Records DEF Crashes, TypeOK
<1>3. \A w \in Actor : Fits(w, op'[w])
  BY <1>1, <1>2, OpFields DEF Fits, Idle
<1>10. owed' \in Nat /\ pending' \in Nat /\ pending' = 0 /\ pending' <= owed' /\ Counted' = owed'
  BY <1>1 DEF Crashes, TypeOK, IsSession, Record, Counted
<1>4. /\ mem' \in [Proj -> Record]
      /\ dirty' \in [Proj -> BOOLEAN] /\ timer' \in [Proj -> BOOLEAN]
      /\ due' \in [Proj -> BOOLEAN]
  BY <1>1, Records DEF Crashes, TypeOK
<1>5. TypeOK'
  BY <1>1, <1>2, <1>3, <1>4, <1>10 DEF Crashes, TypeOK
<1>6. \A w \in Actor : /\ ~Saves(w)' /\ ~Own(w)'
                       /\ op'[w].pc # "dumps"
                       /\ op'[w].pc # "none" => op'[w] = op[w]
  BY <1>1, <1>2, OpFields DEF Saves, Own, Idle, Fits
<1>7. Objects'
  BY <1>6, ActorTypes DEF Objects, Crashes
<1>8. ASSUME ~crossed' PROVE Held'
  <2>1. MarksHeld /\ CountsHeld
    BY <1>8 DEF IInv, Held, Crashes
  <2>2. MarksHeld'
    BY <1>6, <2>1 DEF MarksHeld, Crashes
  <2>4. mem'[cur'].turns = None
    BY <1>1 DEF Crashes, Unwritten, TypeOK
  <2>5. ASSUME NEW v \in Actor
        PROVE  op'[v].kind = "amend" /\ HoldsRecord(v)' => op'[v].data.turns = disk.turns
    BY <1>6, <2>1 DEF CountsHeld, HoldsRecord
  <2>6. CountsHeld'
    BY <1>6, <1>10, <2>4, <2>5, ActorTypes DEF CountsHeld, Crashes, IsSession
  <2>7. SaveAhead'
    BY <1>6, <1>10 DEF SaveAhead, Crashes, IsSession
  <2>8. QED
    BY <2>2, <2>6, <2>7 DEF Held
<1>9. QED
  BY <1>5, <1>7, <1>8 DEF IInv

LEMMA StepHolds == IInv /\ [Next]_vars => IInv'
<1> SUFFICES ASSUME IInv, [Next]_vars PROVE IInv'
  OBVIOUS
<1>1. ASSUME NEW w \in Actor, Works(w) PROVE IInv'
  BY <1>1, ReadsKeeps, MergesKeeps, DumpsKeeps, LandsKeeps DEF Works
<1>2. ASSUME NEW p \in Proj, Starts(p) \/ Rebuilds(p) PROVE IInv'
  BY <1>2, InitsKeeps DEF Starts, Rebuilds, IInv, TypeOK
<1>3. CASE UNCHANGED vars
  <2>1. TypeOK'
    BY <1>3 DEF IInv, vars, projection, counts, TypeOK
  <2>2. QED
    BY <1>3, <2>1, Quiet DEF vars, projection, counts, Counted
<1>4. QED
  BY <1>1, <1>2, <1>3, StoresKeeps, RefreshesKeeps, AppendsKeeps, CutKeeps, FiresKeeps,
     StoppedKeeps, CrashesKeeps, FoldsKeeps, DispatchesKeeps, StopsKeeps, PromotesKeeps,
     UpdatesKeeps
  DEF Next

(* Every reachable state satisfies the invariant.                          *)
THEOREM Invariance == Spec => []IInv
BY InitHolds, StepHolds, PTL DEF Spec

-----------------------------------------------------------------------------
(* What the record keeps.                                                  *)

(* Every variable keeps its type, and each actor keeps to its operations.  *)
THEOREM Typing == Spec => []TypeOK
<1>1. IInv => TypeOK
  BY DEF IInv
<1>2. QED
  BY <1>1, Invariance, PTL

(* A rename or a promotion on disk is lost only to a write that landed     *)
(* across another's, however many projections save the record              *)
(* (Projection._write, SessionRepository.update).                          *)
THEOREM MarksKept == Spec => []MarksSurvive
<1>1. IInv => MarksSurvive
  BY DEF IInv, Held, MarksHeld, MarksSurvive
<1>2. QED
  BY <1>1, Invariance, PTL

(* The summary of a session counts once each event whose handler came to   *)
(* fold it, whatever is stopped, flushed, repaired and started again       *)
(* meanwhile, but for what a projection replaced or a crash had not saved  *)
(* (schedule_save, flush, _handle_init).                                   *)
THEOREM Counting == Spec => []CountsKept
<1>1. IInv => CountsKept
  BY NoneIsNoMark DEF IInv, TypeOK, Held, CountsHeld, CountsKept
<1>2. QED
  BY <1>1, Invariance, PTL

-----------------------------------------------------------------------------
(* Why what the summary counts reaches the disk: as long as it has not, a  *)
(* save of it is under way, due, or behind a timer that runs.              *)

\* Changed since the last save means that another is scheduled.
Scheduled == \A p \in Proj : dirty[p] => timer[p] \/ due[p]

LEMMA ScheduledKeeps == TypeOK /\ Scheduled /\ [Next]_vars => Scheduled'
<1> SUFFICES ASSUME TypeOK, Scheduled, [Next]_vars, NEW p \in Proj, dirty'[p]
             PROVE  timer'[p] \/ due'[p]
  BY DEF Scheduled
<1>1. /\ dirty \in [Proj -> BOOLEAN] /\ timer \in [Proj -> BOOLEAN] /\ due \in [Proj -> BOOLEAN]
      /\ dirty[p] => timer[p] \/ due[p]
  BY DEF TypeOK, Scheduled
<1>2. ASSUME NEW w \in Actor, Works(w) PROVE timer'[p] \/ due'[p]
  <2>1. CASE Lands(w)
    BY <1>1, <2>1 DEF Lands, Replaces
  <2>2. CASE Reads(w) \/ Merges(w) \/ Dumps(w)
    BY <1>1, <2>2 DEF Reads, Merges, Dumps, projection
  <2>3. QED
    BY <1>2, <2>1, <2>2 DEF Works
<1>3. ASSUME NEW q \in Proj, Starts(q) \/ Rebuilds(q) \/ Fires(q) PROVE timer'[p] \/ due'[p]
  BY <1>1, <1>3 DEF Starts, Rebuilds, Inits, Fires
<1>4. CASE Appends \/ Cut \/ Stores \/ Refreshes \/ Stopped \/ Crashes
  BY <1>1, <1>4 DEF Appends, Cut, Stores, Refreshes, Stopped, Crashes, projection
<1>5. ASSUME NEW saves \in BOOLEAN, Folds(saves) PROVE timer'[p] \/ due'[p]
  BY <1>1, <1>5 DEF Folds
<1>6. ASSUME NEW t \in Pool, NEW q \in Proj, Dispatches(q, t) \/ Stops(t)
      PROVE  timer'[p] \/ due'[p]
  BY <1>1, <1>6 DEF Dispatches, Stops
<1>7. ASSUME NEW m \in Mark, Promotes(m) \/ Updates(m) PROVE timer'[p] \/ due'[p]
  BY <1>1, <1>7 DEF Promotes, Updates, projection
<1>8. CASE UNCHANGED vars
  BY <1>1, <1>8 DEF vars, projection
<1>9. ASSUME NEW t \in Pool, Stops(t) PROVE timer'[p] \/ due'[p]
  BY <1>1, <1>9 DEF Stops
<1>10. QED
  BY <1>2, <1>3, <1>4, <1>5, <1>6, <1>7, <1>8, <1>9 DEF Next, Mark

\* The latest, on its way.
OnItsWay == (dirty[cur] /\ (timer[cur] \/ due[cur])) \/ \E w \in Actor : Coming(w)

\* A record behind the summary of its session.
Behind == disk.turns # Counted /\ (disk.turns = None => state # "stopped")

(* No event is forgotten that a handler folded: as long as a record is     *)
(* behind the session's summary, and no write was crossed and none of a    *)
(* replaced projection's landed last, the save of the latest is scheduled  *)
(* or under way, however often saves were put off, cancelled or overtaken  *)
(* (schedule_save, save, _async_save, flush).  This is what                *)
(* EventsReachDisk leans on.                                               *)
NoneForgotten == ~crossed /\ ~stale /\ Behind => OnItsWay

\* While a record is behind, a save of what it lacks is ahead.
THEOREM Remembering == Spec => []NoneForgotten
<1>1. Init => Scheduled
  BY DEF Init, Scheduled
<1>2. IInv /\ Scheduled => NoneForgotten
  BY DEF IInv, TypeOK, Held, SaveAhead, Scheduled, NoneForgotten, Behind, OnItsWay
<1>3. QED
  BY <1>1, <1>2, Typing, Invariance, ScheduledKeeps, PTL DEF Spec

(* A session that has stopped, its writes over, no handler having folded   *)
(* an event once the flush was under way and no replaced projection having *)
(* written last, has in its record every event a handler folded: the last  *)
(* flush is needed only if something had changed, and is not overtaken by  *)
(* a save already handed to the pool (stop, flush).                        *)
StopsSaved ==
    state = "stopped" /\ (\A w \in Actor : ~Saves(w)) /\ ~dirty[cur]
        /\ ~crossed /\ ~stale /\ disk.turns # None
        => disk.turns = Counted

\* What a stopped session owes its record is in it.
THEOREM LastFlush == Spec => []StopsSaved
<1>1. IInv => StopsSaved
  BY DEF IInv, Held, SaveAhead, Own, Coming, StopsSaved
<1>2. QED
  BY <1>1, Invariance, PTL

=============================================================================

----------------------- MODULE SessionRegistryProofs -----------------------
(***************************************************************************)
(* Proofs about SessionRegistry, for every set of sessions and requests.   *)
(***************************************************************************)
EXTENDS SessionRegistry, TLAPS

-----------------------------------------------------------------------------
(* The inductive invariant.                                                *)

\* What a request is about, by where it stands.
RequestsFit ==
    \A r \in Request :
        /\ req[r].pc # "idle" => req[r].sid \in Session
        /\ req[r].pc = "waiting" =>
             IF req[r].primary THEN req[r].sid \in Primaries ELSE req[r].sid \in Members
        /\ req[r].pc = "settling" => ~req[r].primary /\ req[r].sid \in Members
        /\ req[r].pc = "replacing" => req[r].primary /\ req[r].sid \in Primaries
        /\ req[r].pc = "stopping" => req[r].sid \in Members

\* Only a member is stopped by a request or by its own turn.
MembersEnd ==
    /\ due \cup ending \subseteq Members
    /\ \A s \in Session : Has(s) /\ entries[s].auto => s \in Members

\* Of the sessions started as primary at most the primary has an entry, and
\* none has while one is being replaced.
PrimaryAlone ==
    /\ primary \in Primaries \cup {None}
    /\ \A s \in Primaries : Has(s) => s = primary
    /\ (\E r \in Request : req[r].pc = "replacing") => \A s \in Primaries : ~Has(s)

\* The shutdown has no request beside it and a list of all it has to stop.
ShutdownAlone ==
    down # None =>
        /\ \A r \in Request : req[r].pc = "idle"
        /\ \A s \in Session : Has(s) => s \in down

IInv ==
    /\ TypeOK
    /\ RequestsFit
    /\ MembersEnd
    /\ PrimaryAlone
    /\ ShutdownAlone
    /\ NoServiceLeaked
    /\ PrimaryResolves
    /\ PromotionHolds

-----------------------------------------------------------------------------
(* Lemmas.                                                                 *)

LEMMA InitHolds == Init => IInv
<1> SUFFICES ASSUME Init PROVE IInv
  OBVIOUS
<1>1. TypeOK
  BY NoneIsNoSession DEF Init, TypeOK, Free
<1>2. \A s \in Session : ~Has(s)
  BY DEF Init, Has
<1>3. \A r \in Request : req[r].pc = "idle"
  BY DEF Init, Free
<1>4. QED
  BY <1>1, <1>2, <1>3
  DEF Init, IInv, RequestsFit, MembersEnd, PrimaryAlone, ShutdownAlone, NoServiceLeaked,
      PrimaryResolves, PromotionHolds, Session

LEMMA StartArrivesKeeps ==
    ASSUME IInv, NEW r \in Request, NEW s \in Session, NEW p \in BOOLEAN, StartArrives(r, s, p)
    PROVE  IInv'
<1> USE NoneIsNoSession, NoneIsNoSet DEF IInv, StartArrives
<1>1. TypeOK'
  BY DEF TypeOK
<1>2. RequestsFit' /\ PrimaryAlone'
  BY DEF TypeOK, RequestsFit, PrimaryAlone, Has
<1>3. QED
  BY <1>1, <1>2
  DEF TypeOK, MembersEnd, ShutdownAlone, NoServiceLeaked, PrimaryResolves, PromotionHolds, Has

\* An entry that is put, or put back changed, takes none away.
LEMMA EntryPut ==
    ASSUME TypeOK, NEW s \in Session, NEW new \in Service,
           entries' = [entries EXCEPT ![s] = new]
    PROVE  /\ entries' \in [Session -> Service \cup {None}]
           /\ entries'[s] = new /\ new # None
           /\ \A t \in Session : t # s => entries'[t] = entries[t]
BY NoneIsNoService DEF TypeOK

\* What a start that is served leaves behind.
LEMMA BuildsKeeps ==
    ASSUME IInv, NEW r \in Request, NEW seat,
           req[r].pc \in {"waiting", "settling", "replacing"},
           lock \in {None, r},
           Builds(r, entries, seat),
           UNCHANGED <<due, ending, promoted, down>>,
           ~Has(req[r].sid),
           IF req[r].primary
           THEN seat = None /\ \A s \in Primaries : ~Has(s)
           ELSE seat = primary
    PROVE  IInv'
<1> USE NoneIsNoSession, NoneIsNoSet, NoneIsNoService DEF IInv
<1>1. PICK s \in Session : /\ s = req[r].sid
                           /\ req[r].primary => s \in Primaries
                           /\ ~req[r].primary => s \in Members
  BY DEF RequestsFit
<1>2. PICK new \in Service :
        /\ new = [auto |-> Disposed(s, req[r].primary), sched |-> FALSE, failed |-> FALSE]
        /\ new.auto => ~req[r].primary /\ s \notin promoted
  <2> DEFINE n == [auto |-> Disposed(s, req[r].primary), sched |-> FALSE, failed |-> FALSE]
  <2>1. n \in Service /\ (n.auto => ~req[r].primary /\ s \notin promoted)
    BY DEF Service, Disposed, TypeOK
  <2>2. QED
    BY <2>1
<1>3. down = None
  BY DEF ShutdownAlone
<1>4. /\ lock' = None
      /\ req' = [req EXCEPT ![r] = Free]
      /\ \/ /\ entries' = [entries EXCEPT ![s] = new]
            /\ primary' = IF req[r].primary THEN s ELSE primary
         \/ entries' = entries /\ primary' = IF req[r].primary THEN None ELSE primary
      /\ leaked' = {}
  BY <1>1, <1>2 DEF Builds, Has, NoServiceLeaked
<1>5. \A q \in Request \ {r} : req[q].pc \notin {"settling", "replacing"}
  BY DEF TypeOK
<1>6. req' \in [Request -> [pc : {"idle", "waiting", "settling", "replacing", "stopping"},
                            sid : Session \cup {None}, primary : BOOLEAN]]
      /\ req'[r] = Free /\ \A q \in Request \ {r} : req'[q] = req[q]
  BY <1>4 DEF TypeOK, Free
<1>7. \A q \in Request : req'[q].pc \notin {"settling", "replacing"}
  BY <1>5, <1>6 DEF Free
<1>8. /\ entries' \in [Session -> Service \cup {None}]
      /\ \A t \in Session : entries'[t] = entries[t] \/ (t = s /\ entries'[t] = new)
      /\ \A t \in Session : Has(t) => Has(t)'
  <2>2. CASE entries' = [entries EXCEPT ![s] = new]
    <3>1. /\ entries' \in [Session -> Service \cup {None}]
          /\ entries'[s] = new /\ new # None
          /\ \A t \in Session : t # s => entries'[t] = entries[t]
      BY <1>1, <1>2, <2>2, EntryPut
    <3>2. QED
      BY <3>1 DEF Has
  <2>3. CASE entries' = entries
    BY <2>3 DEF Has, TypeOK
  <2>4. QED
    BY <1>4, <2>2, <2>3
<1>9. primary' \in Session \cup {None}
  BY <1>1, <1>4 DEF TypeOK
<1>10. TypeOK'
  BY <1>4, <1>6, <1>7, <1>8, <1>9 DEF TypeOK
<1>11. RequestsFit'
  BY <1>6 DEF RequestsFit, Free
<1>12. MembersEnd'
  BY <1>1, <1>2, <1>8 DEF MembersEnd, Has
<1>13. PrimaryAlone'
  BY <1>1, <1>4, <1>7, PrimariesAreNoMembers DEF PrimaryAlone, Has, TypeOK, Session
<1>14. PrimaryResolves'
  <2>1. CASE req[r].primary
    <3>1. CASE primary' = s /\ entries' = [entries EXCEPT ![s] = new]
      <4>1. Has(s)'
        BY <1>1, <1>2, <3>1, EntryPut DEF Has
      <4>2. QED
        BY <3>1, <4>1 DEF PrimaryResolves
    <3>2. CASE primary' = None
      BY <3>2 DEF PrimaryResolves
    <3>3. QED
      BY <1>4, <2>1, <3>1, <3>2
  <2>2. CASE ~req[r].primary
    <3>1. primary' = primary /\ (primary # None => Has(primary))
      BY <1>3, <1>4, <1>5, <2>2 DEF PrimaryResolves, RequestsFit
    <3>2. QED
      BY <1>8, <3>1 DEF PrimaryResolves, TypeOK
  <2>3. QED
    BY <2>1, <2>2
<1>15. PromotionHolds'
  <2> SUFFICES ASSUME NEW t \in promoted, entries'[t] # None PROVE ~entries'[t].auto
    BY DEF PromotionHolds, Has
  <2>1. t \in Session
    BY DEF TypeOK
  <2>2. QED
    BY <1>2, <1>8, <2>1 DEF PromotionHolds, Has
<1>16. QED
  BY <1>3, <1>4, <1>10, <1>11, <1>12, <1>13, <1>14, <1>15 DEF ShutdownAlone, NoServiceLeaked

LEMMA ReturnsKeeps ==
    ASSUME IInv, NEW r \in Request,
           req[r].pc \in {"waiting", "settling"}, lock \in {None, r},
           Returns(r), UNCHANGED <<due, ending, promoted, down>>
    PROVE  IInv'
<1> USE NoneIsNoSession, NoneIsNoSet DEF IInv, Returns
<1>1. req'[r] = Free /\ \A q \in Request \ {r} : req'[q] = req[q]
  BY DEF TypeOK
<1>2. TypeOK'
  BY <1>1 DEF TypeOK, Free
<1>3. RequestsFit' /\ PrimaryAlone' /\ ShutdownAlone'
  BY <1>1 DEF RequestsFit, PrimaryAlone, ShutdownAlone, Has, Free
<1>4. PrimaryResolves'
  BY <1>1 DEF PrimaryResolves, Has, TypeOK
<1>5. QED
  BY <1>2, <1>3, <1>4 DEF MembersEnd, NoServiceLeaked, PromotionHolds, Has

LEMMA StartLocksKeeps ==
    ASSUME IInv, NEW r \in Request, StartLocks(r)
    PROVE  IInv'
<1> USE NoneIsNoSession, NoneIsNoSet DEF IInv
<1>1. /\ req[r].pc = "waiting" /\ lock = None
      /\ UNCHANGED <<due, ending, promoted, down>>
  BY DEF StartLocks
<1>2. /\ req[r].sid \in Session /\ down = None
      /\ req[r].primary => req[r].sid \in Primaries
      /\ ~req[r].primary => req[r].sid \in Members
  BY <1>1 DEF RequestsFit, ShutdownAlone
<1>3. \A q \in Request : req[q].pc \notin {"settling", "replacing"}
  BY <1>1 DEF TypeOK
<1>4. CASE /\ ~req[r].primary
           /\ lock' = r
           /\ req' = [req EXCEPT ![r].pc = "settling"]
           /\ UNCHANGED <<entries, primary, leaked>>
  <2>1. TypeOK'
    BY <1>1, <1>3, <1>4 DEF TypeOK
  <2>2. RequestsFit' /\ PrimaryAlone' /\ PrimaryResolves'
    BY <1>1, <1>2, <1>3, <1>4 DEF RequestsFit, PrimaryAlone, PrimaryResolves, TypeOK, Has
  <2>3. QED
    BY <1>1, <1>2, <1>4, <2>1, <2>2
    DEF MembersEnd, ShutdownAlone, NoServiceLeaked, PromotionHolds, Has
<1>5. CASE Returns(r)
  BY <1>1, <1>5, ReturnsKeeps
<1>6. CASE ~req[r].primary /\ ~Has(req[r].sid) /\ Builds(r, entries, primary)
  BY <1>1, <1>6, BuildsKeeps
<1>7. CASE /\ Replaces(r)
           /\ entries' = Without(primary)
           /\ lock' = r
           /\ req' = [req EXCEPT ![r].pc = "replacing"]
           /\ UNCHANGED <<primary, leaked>>
  <2>1. req[r].primary /\ primary \in Session
    BY <1>7 DEF Replaces, TypeOK
  <2>2. /\ entries' \in [Session -> Service \cup {None}]
        /\ entries'[primary] = None
        /\ \A s \in Session : s # primary => entries'[s] = entries[s]
    BY <1>7, <2>1 DEF Without, TypeOK
  <2>3. TypeOK'
    BY <1>1, <1>3, <1>7, <2>2 DEF TypeOK
  <2>4. \A s \in Primaries : entries'[s] = None
    BY <2>2 DEF PrimaryAlone, Has, Session
  <2>5. RequestsFit'
    BY <1>2, <1>7, <2>1 DEF RequestsFit, TypeOK
  <2>6. PrimaryAlone'
    BY <1>7, <2>4 DEF PrimaryAlone, Has
  <2>7. MembersEnd' /\ PromotionHolds'
    BY <1>1, <2>2, <2>3 DEF MembersEnd, PromotionHolds, Has, TypeOK
  <2>8. PrimaryResolves'
    BY <1>7 DEF PrimaryResolves, TypeOK
  <2>9. QED
    BY <1>1, <1>2, <1>7, <2>3, <2>5, <2>6, <2>7, <2>8 DEF ShutdownAlone, NoServiceLeaked
<1>8. CASE req[r].primary /\ ~Replaces(r) /\ Builds(r, entries, None)
  <2>1. \A s \in Primaries : ~Has(s)
    BY <1>8, NoneIsNoSession DEF Replaces, PrimaryAlone, Session
  <2>2. QED
    BY <1>1, <1>2, <1>8, <2>1, BuildsKeeps
<1>9. QED
  BY <1>4, <1>5, <1>6, <1>7, <1>8 DEF StartLocks

LEMMA StartSettlesKeeps ==
    ASSUME IInv, NEW r \in Request, StartSettles(r)
    PROVE  IInv'
<1>1. /\ req[r].pc = "settling" /\ lock = r /\ ~req[r].primary
      /\ UNCHANGED <<due, ending, promoted, down>>
  BY DEF IInv, StartSettles, TypeOK, RequestsFit
<1>2. CASE Returns(r)
  BY <1>1, <1>2, ReturnsKeeps
<1>3. CASE ~Has(req[r].sid) /\ Builds(r, entries, primary)
  BY <1>1, <1>3, BuildsKeeps
<1>4. QED
  BY <1>2, <1>3 DEF StartSettles

LEMMA StartReplacesKeeps ==
    ASSUME IInv, NEW r \in Request, StartReplaces(r)
    PROVE  IInv'
<1>1. /\ req[r].pc = "replacing" /\ lock = r /\ req[r].primary
      /\ req[r].sid \in Primaries
      /\ Builds(r, entries, None)
      /\ UNCHANGED <<due, ending, promoted, down>>
  BY DEF IInv, StartReplaces, TypeOK, RequestsFit
<1>2. \A s \in Primaries : ~Has(s)
  BY <1>1 DEF IInv, PrimaryAlone
<1>3. QED
  BY <1>1, <1>2, BuildsKeeps

\* A member's entry goes; the primary and the starts stay as they are.
LEMMA MemberGoes ==
    ASSUME IInv, NEW s \in Members, entries' = Without(s),
           UNCHANGED <<primary, promoted, leaked>>
    PROVE  /\ entries' \in [Session -> Service \cup {None}]
           /\ \A t \in Session : Has(t)' => Has(t) /\ entries'[t] = entries[t]
           /\ \A t \in Primaries : Has(t)' <=> Has(t)
           /\ PromotionHolds'
<1>1. /\ entries' \in [Session -> Service \cup {None}]
      /\ entries'[s] = None
      /\ \A t \in Session : t # s => entries'[t] = entries[t]
  BY DEF IInv, TypeOK, Without, Session
<1>2. \A t \in Session : Has(t)' => Has(t) /\ entries'[t] = entries[t]
  BY <1>1 DEF Has
<1>3. \A t \in Primaries : Has(t)' <=> Has(t)
  BY <1>1, PrimariesAreNoMembers DEF Has, Session
<1>4. PromotionHolds'
  BY <1>2 DEF IInv, TypeOK, PromotionHolds
<1>5. QED
  BY <1>1, <1>2, <1>3, <1>4

LEMMA StoppableMember ==
    ASSUME IInv, NEW s \in Session, Stoppable(s)
    PROVE  s \in Members
BY DEF IInv, PrimaryAlone, Stoppable, Session

LEMMA StopArrivesKeeps ==
    ASSUME IInv, NEW r \in Request, NEW s \in Session, StopArrives(r, s)
    PROVE  IInv'
<1> USE NoneIsNoSession, NoneIsNoSet DEF IInv
<1>1. s \in Members
  BY StoppableMember DEF StopArrives
<1>2. /\ entries' = Without(s)
      /\ req' = [req EXCEPT ![r] = [pc |-> "stopping", sid |-> s, primary |-> FALSE]]
      /\ req[r].pc = "idle" /\ down = None
      /\ UNCHANGED <<primary, lock, due, ending, promoted, leaked, down>>
  BY DEF StopArrives
<1>3. /\ entries' \in [Session -> Service \cup {None}]
      /\ \A t \in Session : Has(t)' => Has(t) /\ entries'[t] = entries[t]
      /\ \A t \in Primaries : Has(t)' <=> Has(t)
      /\ PromotionHolds'
  BY <1>1, <1>2, MemberGoes
<1>4. TypeOK'
  BY <1>2, <1>3 DEF TypeOK
<1>5. RequestsFit'
  BY <1>1, <1>2 DEF RequestsFit, TypeOK, Session
<1>6. \A q \in Request : req'[q].pc = "replacing" <=> req[q].pc = "replacing"
  BY <1>2 DEF TypeOK
<1>7. PrimaryAlone' /\ PrimaryResolves'
  BY <1>2, <1>3, <1>6 DEF PrimaryAlone, PrimaryResolves
<1>8. MembersEnd'
  BY <1>2, <1>3 DEF MembersEnd
<1>9. QED
  BY <1>2, <1>3, <1>4, <1>5, <1>7, <1>8 DEF ShutdownAlone, NoServiceLeaked

LEMMA StopEndsKeeps ==
    ASSUME IInv, NEW r \in Request, StopEnds(r)
    PROVE  IInv' /\ primary' = primary
<1> USE NoneIsNoSession, NoneIsNoSet DEF IInv
<1>1. /\ req[r].pc = "stopping"
      /\ req' = [req EXCEPT ![r] = Free]
      /\ UNCHANGED <<entries, lock, due, ending, promoted, leaked, down>>
  BY DEF StopEnds
<1>2. primary' = primary
  BY PrimariesAreNoMembers DEF StopEnds, Unseat, RequestsFit, PrimaryAlone
<1>3. TypeOK'
  BY <1>1, <1>2 DEF TypeOK, Free
<1>4. RequestsFit' /\ PrimaryAlone' /\ PrimaryResolves' /\ ShutdownAlone'
  BY <1>1, <1>2
  DEF RequestsFit, PrimaryAlone, PrimaryResolves, ShutdownAlone, TypeOK, Free, Has
<1>5. QED
  BY <1>1, <1>2, <1>3, <1>4 DEF MembersEnd, NoServiceLeaked, PromotionHolds, Has

LEMMA DueRunsKeeps ==
    ASSUME IInv, NEW s \in Session, DueRuns(s)
    PROVE  IInv'
<1> USE NoneIsNoSession, NoneIsNoSet DEF IInv
<1>1. s \in Members /\ due' = due \ {s}
      /\ UNCHANGED <<primary, lock, req, promoted, leaked, down>>
  BY DEF DueRuns, MembersEnd
<1>2. CASE UNCHANGED <<entries, ending>>
  BY <1>1, <1>2
  DEF TypeOK, RequestsFit, MembersEnd, PrimaryAlone, ShutdownAlone, NoServiceLeaked,
      PrimaryResolves, PromotionHolds, Has
<1>3. CASE entries' = Without(s) /\ ending' = ending \cup {s}
  <2>1. /\ entries' \in [Session -> Service \cup {None}]
        /\ \A t \in Session : Has(t)' => Has(t) /\ entries'[t] = entries[t]
        /\ \A t \in Primaries : Has(t)' <=> Has(t)
        /\ PromotionHolds'
    BY <1>1, <1>3, MemberGoes
  <2>2. TypeOK'
    BY <1>1, <1>3, <2>1 DEF TypeOK, Session
  <2>3. MembersEnd'
    BY <1>1, <1>3, <2>1 DEF MembersEnd
  <2>4. RequestsFit' /\ PrimaryAlone' /\ PrimaryResolves' /\ ShutdownAlone'
    BY <1>1, <2>1 DEF RequestsFit, PrimaryAlone, PrimaryResolves, ShutdownAlone
  <2>5. QED
    BY <1>1, <2>1, <2>2, <2>3, <2>4 DEF NoServiceLeaked
<1>4. QED
  BY <1>2, <1>3 DEF DueRuns

LEMMA EndingEndsKeeps ==
    ASSUME IInv, NEW s \in Session, EndingEnds(s)
    PROVE  IInv' /\ primary' = primary
<1>1. primary' = primary
  BY PrimariesAreNoMembers, NoneIsNoSession
  DEF IInv, EndingEnds, Unseat, MembersEnd, PrimaryAlone
<1>2. QED
  BY <1>1
  DEF EndingEnds, IInv, TypeOK, RequestsFit, MembersEnd, PrimaryAlone, ShutdownAlone,
      NoServiceLeaked, PrimaryResolves, PromotionHolds, Has

\* An entry is marked: no entry appears or goes, and none becomes disposable.
LEMMA Marking ==
    ASSUME IInv,
           entries' \in [Session -> Service \cup {None}],
           \A t \in Session : Has(t)' <=> Has(t),
           \A t \in Session : Has(t) /\ entries'[t].auto => entries[t].auto,
           promoted' \subseteq Session,
           \A t \in promoted' \ promoted : Has(t) => ~entries'[t].auto,
           due' \subseteq Members,
           UNCHANGED <<primary, lock, req, ending, leaked, down>>
    PROVE  IInv'
<1> USE DEF IInv
<1>1. TypeOK'
  BY DEF TypeOK, Session
<1>2. RequestsFit' /\ ShutdownAlone'
  BY DEF RequestsFit, ShutdownAlone
<1>3. PrimaryAlone'
  BY DEF PrimaryAlone, Session
<1>4. PrimaryResolves'
  BY DEF PrimaryResolves, TypeOK
<1>5. MembersEnd'
  BY DEF MembersEnd, TypeOK
<1>6. PromotionHolds'
  <2> SUFFICES ASSUME NEW t \in promoted', Has(t)' PROVE ~entries'[t].auto
    BY DEF PromotionHolds
  <2>1. t \in Session /\ Has(t)
    OBVIOUS
  <2>2. CASE t \in promoted
    BY <2>1, <2>2 DEF PromotionHolds
  <2>3. CASE t \notin promoted
    BY <2>1, <2>3
  <2>4. QED
    BY <2>2, <2>3
<1>7. QED
  BY <1>1, <1>2, <1>3, <1>4, <1>5, <1>6 DEF NoServiceLeaked

LEMMA TurnEndsKeeps ==
    ASSUME IInv, NEW s \in Session, TurnEnds(s)
    PROVE  IInv'
<1>1. /\ Has(s) /\ entries[s] \in Service /\ s \in Members
      /\ due' \subseteq Members
  BY DEF IInv, TypeOK, MembersEnd, TurnEnds, Has
<1>2. PICK new \in Service : /\ new = [entries[s] EXCEPT !.sched = TRUE]
                             /\ new.auto = entries[s].auto
  <2>1. /\ [entries[s] EXCEPT !.sched = TRUE] \in Service
        /\ [entries[s] EXCEPT !.sched = TRUE].auto = entries[s].auto
    BY <1>1 DEF Service
  <2>2. QED
    BY <2>1
<1>3. /\ entries' \in [Session -> Service \cup {None}]
      /\ entries'[s] = new /\ new # None
      /\ \A t \in Session : t # s => entries'[t] = entries[t]
  BY <1>2, EntryPut DEF IInv, TurnEnds
<1>4. QED
  BY <1>1, <1>2, <1>3, Marking DEF IInv, TypeOK, TurnEnds, Has

LEMMA ConnectFailsKeeps ==
    ASSUME IInv, NEW s \in Session, ConnectFails(s)
    PROVE  IInv'
<1>1. Has(s) /\ entries[s] \in Service
  BY DEF IInv, TypeOK, ConnectFails, Has
<1>2. PICK new \in Service : /\ new = [entries[s] EXCEPT !.failed = TRUE]
                             /\ new.auto = entries[s].auto
  <2>1. /\ [entries[s] EXCEPT !.failed = TRUE] \in Service
        /\ [entries[s] EXCEPT !.failed = TRUE].auto = entries[s].auto
    BY <1>1 DEF Service
  <2>2. QED
    BY <2>1
<1>3. /\ entries' \in [Session -> Service \cup {None}]
      /\ entries'[s] = new /\ new # None
      /\ \A t \in Session : t # s => entries'[t] = entries[t]
  BY <1>2, EntryPut DEF IInv, ConnectFails
<1>4. QED
  BY <1>1, <1>2, <1>3, Marking DEF IInv, TypeOK, MembersEnd, ConnectFails, Has

LEMMA PromoteKeeps ==
    ASSUME IInv, NEW s \in Session, Promote(s)
    PROVE  IInv'
<1>1. CASE ~Has(s)
  BY <1>1, Marking DEF IInv, TypeOK, MembersEnd, Promote, Has
<1>2. CASE Has(s)
  <2>1. entries[s] \in Service
    BY <1>2 DEF IInv, TypeOK, Has
  <2>2. PICK new \in Service : /\ new = [entries[s] EXCEPT !.auto = FALSE]
                               /\ ~new.auto
    <3>1. /\ [entries[s] EXCEPT !.auto = FALSE] \in Service
          /\ ~[entries[s] EXCEPT !.auto = FALSE].auto
      BY <2>1 DEF Service
    <3>2. QED
      BY <3>1
  <2>3. /\ entries' \in [Session -> Service \cup {None}]
        /\ entries'[s] = new /\ new # None
        /\ \A t \in Session : t # s => entries'[t] = entries[t]
    BY <1>2, <2>2, EntryPut DEF IInv, Promote
  <2>4. QED
    BY <1>2, <2>2, <2>3, Marking DEF IInv, TypeOK, MembersEnd, Promote, Has
<1>3. QED
  BY <1>1, <1>2

LEMMA ShutdownBeginsKeeps == ASSUME IInv, ShutdownBegins PROVE IInv'
BY NoneIsNoSession, NoneIsNoSet
DEF ShutdownBegins, IInv, TypeOK, RequestsFit, MembersEnd, PrimaryAlone, ShutdownAlone,
    NoServiceLeaked, PrimaryResolves, PromotionHolds, Has

LEMMA ShutdownStopsKeeps ==
    ASSUME IInv, NEW s \in Session, ShutdownStops(s)
    PROVE  IInv'
<1> USE NoneIsNoSession, NoneIsNoSet DEF IInv
<1>1. /\ down # None /\ s \in down /\ down' = down \ {s} /\ down' # None
      /\ primary' = IF down' = {} THEN None ELSE Unseat(s)
      /\ UNCHANGED <<lock, req, due, ending, promoted, leaked>>
  BY DEF ShutdownStops, TypeOK
<1>2. /\ entries' \in [Session -> Service \cup {None}]
      /\ entries'[s] = None
      /\ \A t \in Session : t # s => entries'[t] = entries[t]
  BY DEF ShutdownStops, Without, TypeOK
<1>3. TypeOK'
  BY <1>1, <1>2 DEF TypeOK, Unseat
<1>4. \A t \in Session : Has(t)' => Has(t) /\ t # s /\ t \in down'
  BY <1>1, <1>2 DEF ShutdownAlone, Has
<1>5. PrimaryAlone'
  BY <1>1, <1>4 DEF PrimaryAlone, ShutdownAlone, Unseat, Session
<1>6. MembersEnd' /\ PromotionHolds'
  BY <1>1, <1>2 DEF MembersEnd, PromotionHolds, Has, TypeOK
<1>7. RequestsFit' /\ ShutdownAlone' /\ PrimaryResolves'
  BY <1>1, <1>4 DEF RequestsFit, ShutdownAlone, PrimaryResolves
<1>8. QED
  BY <1>1, <1>3, <1>5, <1>6, <1>7 DEF NoServiceLeaked

LEMMA StepHolds == IInv /\ [Next]_vars => IInv'
<1> SUFFICES ASSUME IInv, [Next]_vars PROVE IInv'
  OBVIOUS
<1>1. CASE UNCHANGED vars
  BY <1>1
  DEF vars, IInv, TypeOK, RequestsFit, MembersEnd, PrimaryAlone, ShutdownAlone,
      NoServiceLeaked, PrimaryResolves, PromotionHolds, Has
<1>2. QED
  BY <1>1, StartArrivesKeeps, StartLocksKeeps, StartSettlesKeeps, StartReplacesKeeps,
     StopArrivesKeeps, StopEndsKeeps, TurnEndsKeeps, DueRunsKeeps, EndingEndsKeeps,
     PromoteKeeps, ConnectFailsKeeps, ShutdownStopsKeeps, ShutdownBeginsKeeps
  DEF Next

(* Every reachable state satisfies the invariant.                          *)
THEOREM Invariance == Spec => []IInv
BY InitHolds, StepHolds, PTL DEF Spec

-----------------------------------------------------------------------------
(* What the registry promises.                                             *)

(* Every variable keeps its type, and the lock is held by exactly the      *)
(* start that is past it.                                                  *)
THEOREM Typing == Spec => []TypeOK
<1>1. IInv => TypeOK
  BY DEF IInv
<1>2. QED
  BY <1>1, Invariance, PTL

(* start never registers a service over one that runs, so none is left     *)
(* running that nobody can stop.                                           *)
THEOREM NoneLeaks == Spec => []NoServiceLeaked
<1>1. IInv => NoServiceLeaked
  BY DEF IInv
<1>2. QED
  BY <1>1, Invariance, PTL

(* The primary's id resolves to a running service whenever no start is     *)
(* replacing it (get, /api/health).                                        *)
THEOREM Resolution == Spec => []PrimaryResolves
<1>1. IInv => PrimaryResolves
  BY DEF IInv
<1>2. QED
  BY <1>1, Invariance, PTL

(* No member that is recorded as promoted stops itself (promote_session    *)
(* against a start that reads the record).                                 *)
THEOREM Promotion == Spec => []PromotionHolds
<1>1. IInv => PromotionHolds
  BY DEF IInv
<1>2. QED
  BY <1>1, Invariance, PTL

(* A stop that ends late unseats no primary (_stop_entry after its await). *)
THEOREM Unseating == Spec => OnlyStartsUnseat
<1> DEFINE Guarded == primary # None /\ primary' = None
                        => down # None \/ \E r \in Request : StartLocks(r) \/ StartReplaces(r)
<1>1. ASSUME IInv, [Next]_vars PROVE Guarded
  <2>1. ASSUME NEW r \in Request, StartSettles(r) PROVE primary' = primary
    BY <1>1, <2>1 DEF StartSettles, Returns, Builds, IInv, RequestsFit
  <2>2. ASSUME NEW s \in Session, ShutdownStops(s) PROVE down # None
    BY <2>2 DEF ShutdownStops
  <2>3. CASE UNCHANGED vars
    BY <2>3 DEF vars
  <2>4. QED
    BY <1>1, <2>1, <2>2, <2>3, StopEndsKeeps, EndingEndsKeeps
    DEF Next, StartArrives, StopArrives, TurnEnds, DueRuns, Promote, ConnectFails,
        ShutdownBegins
<1>2. IInv /\ [Next]_vars => [Guarded]_vars
  BY <1>1
<1>3. QED
  BY <1>2, Invariance, PTL DEF Spec, OnlyStartsUnseat

-----------------------------------------------------------------------------
(* Why a start that settles is answered: the disposition it waits for is   *)
(* the last of its id, as long as it holds the lock.                       *)

\* The entry a start settles on has its disposition scheduled.
SettlesOnScheduled ==
    \A r \in Request :
        req[r].pc = "settling" /\ Has(req[r].sid) => entries[req[r].sid].sched

\* No entry appears, and none has its disposition unscheduled.
LEMMA SchedKept ==
    ASSUME SettlesOnScheduled,
           \A t \in Session : Has(t)' => Has(t) /\ (entries[t].sched => entries'[t].sched),
           \A r \in Request : req'[r].pc = "settling" => req'[r] = req[r],
           \A r \in Request : req[r].pc = "settling" => req[r].sid \in Session
    PROVE  SettlesOnScheduled'
BY DEF SettlesOnScheduled, Has

\* A start that is answered settles no more, and was alone to.
LEMMA BuildsSettled ==
    ASSUME TypeOK, NEW r \in Request, lock \in {None, r}, req' = [req EXCEPT ![r] = Free]
    PROVE  SettlesOnScheduled'
<1>1. \A q \in Request : q # r => req'[q] = req[q] /\ req[q].pc # "settling"
  BY NoneIsNoSession DEF TypeOK
<1>2. req'[r].pc # "settling"
  BY DEF TypeOK, Free
<1>3. QED
  BY <1>1, <1>2 DEF SettlesOnScheduled

LEMMA SettlesStep == IInv /\ SettlesOnScheduled /\ [Next]_vars => SettlesOnScheduled'
<1> SUFFICES ASSUME IInv, SettlesOnScheduled, [Next]_vars PROVE SettlesOnScheduled'
  OBVIOUS
<1>1. TypeOK /\ \A r \in Request : req[r].pc = "settling" => req[r].sid \in Session
  BY DEF IInv, RequestsFit
<1>2. ASSUME NEW r \in Request, NEW s \in Session, NEW p \in BOOLEAN, StartArrives(r, s, p)
      PROVE  SettlesOnScheduled'
  <2>1. \A q \in Request : req'[q].pc = "settling" => req'[q] = req[q]
    BY <1>1, <1>2 DEF StartArrives, TypeOK
  <2>2. QED
    BY <1>1, <1>2, <2>1, SchedKept DEF StartArrives, Has
<1>3. ASSUME NEW r \in Request, StartLocks(r) PROVE SettlesOnScheduled'
  <2>1. lock = None /\ \A q \in Request : req[q].pc # "settling"
    BY <1>1, <1>3, NoneIsNoSession DEF StartLocks, TypeOK
  <2>2. CASE req' = [req EXCEPT ![r] = Free]
    BY <1>1, <2>1, <2>2, BuildsSettled
  <2>3. CASE /\ req' = [req EXCEPT ![r].pc = "settling"]
             /\ entries[req[r].sid].sched
             /\ entries' = entries
    BY <1>1, <2>1, <2>3 DEF SettlesOnScheduled, TypeOK
  <2>4. CASE req' = [req EXCEPT ![r].pc = "replacing"]
    BY <1>1, <2>1, <2>4 DEF SettlesOnScheduled, TypeOK
  <2>5. QED
    BY <1>3, <2>2, <2>3, <2>4 DEF StartLocks, Returns, Builds
<1>4. ASSUME NEW r \in Request, StartSettles(r) \/ StartReplaces(r) PROVE SettlesOnScheduled'
  <2>1. lock = r /\ req' = [req EXCEPT ![r] = Free]
    BY <1>1, <1>4 DEF StartSettles, StartReplaces, Returns, Builds, TypeOK
  <2>2. QED
    BY <1>1, <2>1, BuildsSettled
<1>5. ASSUME NEW r \in Request, StopEnds(r) PROVE SettlesOnScheduled'
  <2>1. \A q \in Request : req'[q].pc = "settling" => req'[q] = req[q]
    BY <1>1, <1>5 DEF StopEnds, TypeOK, Free
  <2>2. QED
    BY <1>1, <1>5, <2>1, SchedKept DEF StopEnds, Has
<1>6. ASSUME NEW r \in Request, NEW s \in Session, StopArrives(r, s) PROVE SettlesOnScheduled'
  <2>1. \A q \in Request : req'[q].pc = "settling" => req'[q] = req[q]
    BY <1>1, <1>6 DEF StopArrives, TypeOK
  <2>2. \A t \in Session :
            Has(t)' => Has(t) /\ (entries[t].sched => entries'[t].sched)
    BY <1>1, <1>6 DEF StopArrives, Without, Has, TypeOK
  <2>3. QED
    BY <1>1, <2>1, <2>2, SchedKept
<1>7. ASSUME NEW s \in Session,
             TurnEnds(s) \/ DueRuns(s) \/ Promote(s) \/ ConnectFails(s) \/ ShutdownStops(s)
      PROVE  SettlesOnScheduled'
  <2>1. entries \in [Session -> Service \cup {None}] /\ (Has(s) => entries[s] \in Service)
    BY <1>1 DEF TypeOK, Has
  <2>2. \A t \in Session : Has(t)' => Has(t) /\ (entries[t].sched => entries'[t].sched)
    <3>1. CASE entries' = entries \/ entries' = Without(s)
      BY <2>1, <3>1 DEF Without, Has
    <3>2. CASE Has(s) /\ entries' = [entries EXCEPT ![s].sched = TRUE]
      BY <2>1, <3>2 DEF Has, Service
    <3>3. CASE Has(s) /\ entries' = [entries EXCEPT ![s].auto = FALSE]
      BY <2>1, <3>3 DEF Has, Service
    <3>4. CASE Has(s) /\ entries' = [entries EXCEPT ![s].failed = TRUE]
      BY <2>1, <3>4 DEF Has, Service
    <3>5. QED
      BY <1>7, <3>1, <3>2, <3>3, <3>4
      DEF TurnEnds, DueRuns, Promote, ConnectFails, ShutdownStops
  <2>3. req' = req
    BY <1>7 DEF TurnEnds, DueRuns, Promote, ConnectFails, ShutdownStops
  <2>4. QED
    BY <1>1, <2>2, <2>3, SchedKept
<1>8. ASSUME NEW s \in Session, EndingEnds(s) PROVE SettlesOnScheduled'
  BY <1>1, <1>8, SchedKept DEF EndingEnds, Has
<1>9. ASSUME ShutdownBegins \/ UNCHANGED vars PROVE SettlesOnScheduled'
  BY <1>1, <1>9, SchedKept DEF ShutdownBegins, vars, Has
<1>10. QED
  BY <1>2, <1>3, <1>4, <1>5, <1>6, <1>7, <1>8, <1>9 DEF Next

(* A start waits for one disposition: while it settles, the task of that   *)
(* id is run and its stop ends, and neither comes a second time            *)
(* (settle_disposition under the lock).                                    *)
SettlesOnce ==
    [][\A r \in Request :
        req[r].pc = "settling" /\ req'[r].pc = "settling" =>
            /\ req'[r].sid = req[r].sid
            /\ req[r].sid \in due' => req[r].sid \in due
            /\ req[r].sid \in ending' => req[r].sid \in due \cup ending]_vars

\* No second disposition comes in while a start settles on the first.
THEOREM Settling == Spec => SettlesOnce
<1> DEFINE Once ==
        \A r \in Request :
            req[r].pc = "settling" /\ req'[r].pc = "settling" =>
                /\ req'[r].sid = req[r].sid
                /\ req[r].sid \in due' => req[r].sid \in due
                /\ req[r].sid \in ending' => req[r].sid \in due \cup ending
<1>1. Init => SettlesOnScheduled
  BY DEF Init, Free, SettlesOnScheduled
<1>2. ASSUME IInv, SettlesOnScheduled, [Next]_vars PROVE Once
  <2> SUFFICES ASSUME NEW r \in Request, req[r].pc = "settling", req'[r].pc = "settling"
               PROVE  /\ req'[r].sid = req[r].sid
                      /\ req[r].sid \in due' => req[r].sid \in due
                      /\ req[r].sid \in ending' => req[r].sid \in due \cup ending
    OBVIOUS
  <2>1. TypeOK /\ req[r].sid \in Session /\ lock = r
    BY <1>2 DEF IInv, TypeOK, RequestsFit, Session
  <2>2. req'[r].sid = req[r].sid
    <3>1. ASSUME NEW q \in Request,
                 StartLocks(q) \/ StartSettles(q) \/ StartReplaces(q) \/ StopEnds(q)
                    \/ \E s \in Session : StopArrives(q, s) \/ \E p \in BOOLEAN : StartArrives(q, s, p)
          PROVE  \A o \in Request \ {q} : req'[o] = req[o]
      BY <2>1, <3>1
      DEF StartLocks, StartSettles, StartReplaces, StopEnds, StopArrives, StartArrives,
          Returns, Builds, TypeOK
    <3>2. ~StartLocks(r) /\ ~StopEnds(r) /\ (StartSettles(r) \/ StartReplaces(r) => FALSE)
      BY <2>1, NoneIsNoSession
      DEF StartLocks, StartSettles, StartReplaces, StopEnds, Returns, Builds, TypeOK, Free
    <3>3. ASSUME NEW s \in Session
          PROVE  ~StopArrives(r, s) /\ \A p \in BOOLEAN : ~StartArrives(r, s, p)
      BY DEF StopArrives, StartArrives
    <3>4. req'[r] = req[r]
      BY <1>2, <3>1, <3>2, <3>3
      DEF Next, TurnEnds, DueRuns, EndingEnds, Promote, ConnectFails, ShutdownStops,
          ShutdownBegins, vars
    <3>5. QED
      BY <3>4
  <2>3. ASSUME NEW s \in Session, TurnEnds(s) PROVE s # req[r].sid
    BY <1>2, <2>3 DEF TurnEnds, SettlesOnScheduled
  <2>4. due' \subseteq due \/ \E s \in Session : TurnEnds(s)
    BY <1>2
    DEF Next, StartArrives, StartLocks, StartSettles, StartReplaces, StopEnds, StopArrives,
        DueRuns, EndingEnds, Promote, ConnectFails, ShutdownStops, ShutdownBegins, vars
  <2>5. ending' \subseteq ending \cup due
    BY <1>2
    DEF Next, StartArrives, StartLocks, StartSettles, StartReplaces, StopEnds, StopArrives,
        TurnEnds, DueRuns, EndingEnds, Promote, ConnectFails, ShutdownStops, ShutdownBegins,
        vars
  <2>6. req[r].sid \in due' => req[r].sid \in due
    BY <2>3, <2>4 DEF TurnEnds
  <2>7. QED
    BY <2>2, <2>5, <2>6
<1>3. IInv /\ SettlesOnScheduled /\ [Next]_vars => [Once]_vars
  BY <1>2
<1>4. QED
  BY <1>1, <1>3, Invariance, SettlesStep, PTL DEF Spec, SettlesOnce

=============================================================================

--------------------------- MODULE ClientOpenProofs ---------------------------
(***************************************************************************)
(* Proofs about Client::open and about the two parts it is made of, for    *)
(* any threads, floors, defaults of the engine, collections, views, options *)
(* and policies: the floors of FloorLimits, the pass of RepairPass, and    *)
(* their composition in ClientOpen.                                        *)
(***************************************************************************)
EXTENDS ClientOpen, TLAPS

-----------------------------------------------------------------------------
(***************************************************************************)
(* FloorLimits.  FloorInv is the inductive invariant: it says, for every   *)
(* step of a move and of an open, how far the two knobs have got from the  *)
(* pair last decided.                                                      *)
(***************************************************************************)

\* The steps taken under FloorMoves.
Inside == {"read", "first", "second", "putback"}

\* The pairs that a caller, or MongoDB, means by one decision.
WholePairs == {EngineOwn} \cup {FloorCommands(f) : f \in Floors}

FloorTypeOK ==
    /\ client \in Clients
    /\ knobs \in ReportedFloors
    /\ recorded \in {{}, {EngineOwn}}
    /\ pc \in [Actors -> {"idle", "lock"} \cup Inside]
    /\ floor \in [Actors -> Requests]
    /\ before \in [Actors -> ReportedFloors]
    /\ decided \in WholePairs
    /\ unknown \in BOOLEAN

\* FloorMoves has one holder, and the holder is inside.
LockInv == \A a \in Actors : pc[a] \in Inside <=> holder = {a}

HolderInv == holder = {} \/ \E a \in Actors : holder = {a}

\* Who may be at work when.
PlaceInv ==
    /\ pc[Opener] # "putback"
    /\ pc[Opener] = "idle" <=> client # "opening"
    /\ \A t \in Threads : pc[t] # "idle" => client = "open" /\ floor[t] # {}

\* The defaults are recorded before anything moves.
RecordedInv ==
    recorded = {} => /\ knobs = EngineOwn
                     /\ client \in {"none", "opening"}
                     /\ pc[Opener] \notin {"first", "second"}

\* How far the open has got.
OpenInv ==
    client = "opening" =>
        /\ decided = Asked(floor[Opener])
        /\ ~unknown
        /\ pc[Opener] = "second" => knobs.indexBuild = decided.indexBuild

\* How far a move has got: the first knob may be on its way, the second is not.
MoveInv ==
    \A t \in Threads :
        /\ pc[t] \in {"read", "first"} /\ ~unknown => knobs = decided
        /\ pc[t] \in {"first", "second", "putback"} /\ ~unknown => before[t] = decided
        /\ pc[t] \in {"second", "putback"} /\ ~unknown =>
              knobs.querySpilling = decided.querySpilling
        /\ pc[t] \in {"second", "putback"} =>
              knobs.indexBuild = Asked(floor[t]).indexBuild

FloorInv ==
    /\ FloorTypeOK /\ LockInv /\ HolderInv /\ PlaceInv /\ RecordedInv
    /\ OpenInv /\ MoveInv /\ FloorAsDecided /\ ReportsWholePairs

-----------------------------------------------------------------------------
(* What a decision comes to *)

\* One floor in the Option asked for is the pair of that floor's commands.
LEMMA AskedFloor ==
    ASSUME NEW f
    PROVE  Asked({f}) = FloorCommands(f)
BY DEF Asked

\* Whatever an open or a mover asks for is a whole pair.
LEMMA AskedWhole ==
    ASSUME NEW r \in Requests
    PROVE  Asked(r) \in WholePairs
<1>1. CASE r = {}
    BY <1>1 DEF Asked, WholePairs
<1>2. ASSUME NEW f \in Floors, r = {f}
      PROVE  Asked(r) \in WholePairs
    BY <1>2, AskedFloor DEF WholePairs
<1> QED
    BY <1>1, <1>2 DEF Requests

\* Every decision is a pair of integers.
LEMMA WholePairsReported == WholePairs \subseteq ReportedFloors
<1>1. EngineOwn \in ReportedFloors
    BY FloorAssumption DEF EngineOwn, ReportedFloors
<1>2. ASSUME NEW f \in Floors
      PROVE  FloorCommands(f) \in ReportedFloors
    BY FloorAssumption DEF FloorCommands, ReportedFloors, Floors
<1> QED
    BY <1>1, <1>2 DEF WholePairs

\* Once the defaults are recorded, an open sends what it decided.
LEMMA SendsDecided ==
    ASSUME FloorInv, recorded # {}
    PROVE  ToSend = Asked(floor[Opener])
BY DEF FloorInv, FloorTypeOK, ToSend, Asked

\* The pair an actor is moving to is one of integers.
LEMMA GoalTyped ==
    ASSUME FloorInv, NEW a \in Actors
    PROVE  Asked(floor[a]) \in WholePairs /\ Asked(floor[a]) \in ReportedFloors
BY AskedWhole, WholePairsReported DEF FloorInv, FloorTypeOK

\* What letting go of FloorMoves leaves: nobody inside, and everybody else
\* where they were.
Released(a) ==
    /\ LockInv' /\ HolderInv' /\ MoveInv'
    /\ pc' \in [Actors -> {"idle", "lock"} \cup Inside]
    /\ floor' \in [Actors -> Requests]
    /\ before' \in [Actors -> ReportedFloors]
    /\ \A b \in Actors \ {a} : pc'[b] = pc[b] /\ floor'[b] = floor[b]
    /\ pc'[a] = "idle" /\ holder' = {}

\* Only the holder was inside.
LEMMA ReleaseInv ==
    ASSUME FloorInv, NEW a \in Actors, pc[a] \in Inside, Release(a)
    PROVE  Released(a)
<1>1. \A b \in Actors : pc[b] \in Inside => b = a
    BY DEF FloorInv, LockInv
<1>2. EngineOwn \in ReportedFloors
    BY WholePairsReported DEF WholePairs
<1>3. /\ pc' \in [Actors -> {"idle", "lock"} \cup Inside]
      /\ floor' \in [Actors -> Requests]
      /\ before' \in [Actors -> ReportedFloors]
      /\ \A b \in Actors \ {a} : pc'[b] = pc[b] /\ floor'[b] = floor[b]
      /\ pc'[a] = "idle" /\ holder' = {}
    BY <1>2 DEF FloorInv, FloorTypeOK, Release, Requests
<1>4. \A b \in Actors : pc'[b] \notin Inside
    BY <1>1, <1>3 DEF Inside
<1>5. LockInv' /\ HolderInv' /\ MoveInv'
    BY <1>3, <1>4 DEF LockInv, HolderInv, MoveInv, Inside, Actors
<1> QED
    BY <1>3, <1>5 DEF Released

-----------------------------------------------------------------------------
(* Every step keeps FloorInv *)

\* Before anything has happened the knobs are MongoDB's own.
LEMMA FloorInitInv == FloorInit => FloorInv
BY Zenon, FloorAssumption, WholePairsReported
   DEF FloorInit, FloorInv, FloorTypeOK, LockInv, HolderInv, PlaceInv, RecordedInv, OpenInv,
       MoveInv, FloorAsDecided, ReportsWholePairs, Actors, Clients, Inside, WholePairs, Requests

\* An open decides its pair and asks for the lock.
LEMMA BeginEstablishInv ==
    ASSUME FloorInv, NEW r \in Requests, BeginEstablish(r)
    PROVE  FloorInv'
BY Zenon, FloorAssumption, AskedWhole
   DEF FloorInv, FloorTypeOK, LockInv, HolderInv, PlaceInv, RecordedInv, OpenInv, MoveInv,
       FloorAsDecided, ReportsWholePairs, Actors, Clients, Inside, BeginEstablish

\* Whoever takes the lock finds the knobs as decided.
LEMMA LockStepInv ==
    ASSUME FloorInv, NEW a \in Actors, Lock(a)
    PROVE  FloorInv'
BY FloorAssumption
   DEF FloorInv, FloorTypeOK, LockInv, HolderInv, PlaceInv, RecordedInv, OpenInv, MoveInv,
       FloorAsDecided, ReportsWholePairs, Actors, Clients, Inside, Lock

\* What the first open reads is MongoDB's own.
LEMMA DefaultsInv ==
    ASSUME FloorInv, Defaults
    PROVE  FloorInv'
BY FloorAssumption
   DEF FloorInv, FloorTypeOK, LockInv, HolderInv, PlaceInv, RecordedInv, OpenInv, MoveInv,
       FloorAsDecided, ReportsWholePairs, Actors, Clients, Inside, Defaults, Recorded, Read

\* An open that fails leaves no client, and so nothing to promise.
LEMMA AbandonInv ==
    ASSUME FloorInv, pc[Opener] \in Inside, Abandon
    PROVE  FloorInv'
<1>1. Released(Opener)
    BY ReleaseInv DEF Abandon, Inside, Actors
<1>2. FloorTypeOK'
    BY <1>1, WholePairsReported
       DEF FloorInv, FloorTypeOK, Released, Abandon, Clients, ReportedFloors
<1>3. PlaceInv' /\ RecordedInv' /\ OpenInv'
    BY <1>1, FloorAssumption
       DEF FloorInv, PlaceInv, RecordedInv, OpenInv, Released, Abandon, Actors, Inside
<1>4. FloorAsDecided' /\ ReportsWholePairs'
    BY <1>1, WholePairsReported
       DEF FloorInv, FloorTypeOK, LockInv, PlaceInv, RecordedInv, OpenInv,
       MoveInv, FloorAsDecided, ReportsWholePairs, Abandon, Inside, Actors, ReportedFloors
<1> QED
    BY <1>1, <1>2, <1>3, <1>4 DEF FloorInv, Released

\* The first knob of the open's decision.
LEMMA SendFirstInv ==
    ASSUME FloorInv, SendFirst
    PROVE  FloorInv'
BY FloorAssumption, SendsDecided, WholePairsReported
   DEF FloorInv, FloorTypeOK, LockInv, HolderInv, PlaceInv, RecordedInv, OpenInv, MoveInv,
       FloorAsDecided, ReportsWholePairs, Actors, Clients, Inside, SendFirst, ReportedFloors

\* The second one completes it.
LEMMA SendSecondInv ==
    ASSUME FloorInv, SendSecond
    PROVE  FloorInv'
<1>0. /\ ToSend = Asked(floor[Opener])
      /\ Asked(floor[Opener]) \in ReportedFloors
    BY SendsDecided, GoalTyped DEF FloorInv, RecordedInv, SendSecond, Actors
<1>1. Released(Opener)
    BY ReleaseInv DEF SendSecond, Inside, Actors
<1>2. FloorTypeOK'
    BY <1>1, <1>0, WholePairsReported
       DEF FloorInv, FloorTypeOK, Released, SendSecond, Clients, ReportedFloors
<1>3. PlaceInv' /\ RecordedInv' /\ OpenInv'
    BY <1>1, FloorAssumption
       DEF FloorInv, PlaceInv, RecordedInv, OpenInv, Released, SendSecond, Actors,
           Inside
<1>4. FloorAsDecided' /\ ReportsWholePairs'
    BY <1>1, <1>0, WholePairsReported
       DEF FloorInv, FloorTypeOK, LockInv, PlaceInv, RecordedInv, OpenInv,
       MoveInv, FloorAsDecided, ReportsWholePairs, SendSecond, Inside, Actors, ReportedFloors
<1> QED
    BY <1>1, <1>2, <1>3, <1>4 DEF FloorInv, Released

\* The client is handed over as the open left it.
LEMMA HandOverInv ==
    ASSUME FloorInv, HandOver
    PROVE  FloorInv'
BY DEF FloorInv, FloorTypeOK, LockInv, HolderInv, PlaceInv, RecordedInv, OpenInv, MoveInv,
       FloorAsDecided, ReportsWholePairs, Actors, Clients, Inside, HandOver

\* A thread that asks for the lock has a floor in hand.
LEMMA SetFreeDiskFloorInv ==
    ASSUME FloorInv, NEW t \in Threads, NEW f \in Floors, SetFreeDiskFloor(t, f)
    PROVE  FloorInv'
BY FloorAssumption
   DEF FloorInv, FloorTypeOK, LockInv, HolderInv, PlaceInv, RecordedInv, OpenInv, MoveInv,
       FloorAsDecided, ReportsWholePairs, Actors, Clients, Inside, SetFreeDiskFloor, Requests

\* A mover reads what was decided.
LEMMA ReadBeforeInv ==
    ASSUME FloorInv, NEW t \in Threads, ReadBefore(t)
    PROVE  FloorInv'
BY FloorAssumption
   DEF FloorInv, FloorTypeOK, LockInv, HolderInv, PlaceInv, RecordedInv, OpenInv, MoveInv,
       FloorAsDecided, ReportsWholePairs, Actors, Clients, Inside, ReadBefore, Read

\* The first knob leaves the pair half moved, inside the lock.
LEMMA MoveIndexBuildInv ==
    ASSUME FloorInv, NEW t \in Threads, MoveIndexBuild(t)
    PROVE  FloorInv'
<1>1. Asked(floor[t]) \in ReportedFloors
    BY GoalTyped DEF Actors
<1>2. knobs' \in ReportedFloors
    BY <1>1 DEF FloorInv, FloorTypeOK, MoveIndexBuild, ReportedFloors
<1>3. knobs'.indexBuild = Asked(floor[t]).indexBuild /\ knobs'.querySpilling = knobs.querySpilling
    BY DEF FloorInv, FloorTypeOK, MoveIndexBuild, ReportedFloors
<1>4. holder = {t} /\ t # Opener
    BY FloorAssumption DEF FloorInv, LockInv, MoveIndexBuild, Actors, Inside
<1>5. FloorTypeOK' /\ LockInv' /\ HolderInv'
    BY <1>2, <1>4 DEF FloorInv, FloorTypeOK, LockInv, HolderInv, MoveIndexBuild, Inside
<1>6. PlaceInv' /\ RecordedInv' /\ OpenInv'
    BY <1>4
       DEF FloorInv, FloorTypeOK, PlaceInv, RecordedInv, OpenInv, MoveIndexBuild, Actors
<1>7. \A u \in Threads \ {t} : pc[u] \notin Inside /\ pc'[u] = pc[u]
    BY <1>4 DEF FloorInv, FloorTypeOK, LockInv, MoveIndexBuild, Actors
<1>8. MoveInv'
    BY <1>3, <1>7 DEF FloorInv, FloorTypeOK, MoveInv, MoveIndexBuild, Inside, Actors
<1>9. FloorAsDecided' /\ ReportsWholePairs'
    BY <1>4 DEF FloorInv, FloorAsDecided, ReportsWholePairs, MoveIndexBuild
<1> QED
    BY <1>5, <1>6, <1>8, <1>9 DEF FloorInv

\* A refusal before that has moved nothing.
LEMMA MoveRefusedInv ==
    ASSUME FloorInv, NEW t \in Threads, MoveRefused(t)
    PROVE  FloorInv'
<1>1. Released(t)
    BY ReleaseInv DEF MoveRefused, Inside, Actors
<1>2. FloorTypeOK'
    BY <1>1, WholePairsReported
       DEF FloorInv, FloorTypeOK, Released, MoveRefused, Clients, ReportedFloors
<1>3. PlaceInv' /\ RecordedInv' /\ OpenInv'
    BY <1>1, FloorAssumption
       DEF FloorInv, PlaceInv, RecordedInv, OpenInv, Released, MoveRefused, Actors,
           Inside
<1>4. FloorAsDecided' /\ ReportsWholePairs'
    BY <1>1, WholePairsReported
       DEF FloorInv, FloorTypeOK, LockInv, PlaceInv, RecordedInv, OpenInv,
       MoveInv, FloorAsDecided, ReportsWholePairs, MoveRefused, Inside, Actors, ReportedFloors
<1> QED
    BY <1>1, <1>2, <1>3, <1>4 DEF FloorInv, Released

\* The second knob completes the move, and the pair is the one decided.
LEMMA MoveQuerySpillingInv ==
    ASSUME FloorInv, NEW t \in Threads, MoveQuerySpilling(t)
    PROVE  FloorInv'
<1>0. Asked(floor[t]) \in WholePairs /\ Asked(floor[t]) \in ReportedFloors
    BY GoalTyped DEF Actors
<1>1. Released(t)
    BY ReleaseInv DEF MoveQuerySpilling, Inside, Actors
<1>2. FloorTypeOK'
    BY Zenon, <1>1, <1>0, WholePairsReported
       DEF FloorInv, FloorTypeOK, Released, MoveQuerySpilling, Clients, ReportedFloors
<1>3. PlaceInv' /\ RecordedInv' /\ OpenInv'
    BY <1>1, FloorAssumption
       DEF FloorInv, PlaceInv, RecordedInv, OpenInv, Released, MoveQuerySpilling,
           Actors, Inside
<1>4. FloorAsDecided' /\ ReportsWholePairs'
    BY <1>1, <1>0, WholePairsReported
       DEF FloorInv, FloorTypeOK, LockInv, PlaceInv, RecordedInv, OpenInv,
       MoveInv, FloorAsDecided, ReportsWholePairs, MoveQuerySpilling, Inside, Actors, ReportedFloors
<1> QED
    BY <1>1, <1>2, <1>3, <1>4 DEF FloorInv, Released

\* A refusal of the second knob leads to putting the first one back.
LEMMA MoveSpillingRefusedInv ==
    ASSUME FloorInv, NEW t \in Threads, MoveSpillingRefused(t)
    PROVE  FloorInv'
BY FloorAssumption
   DEF FloorInv, FloorTypeOK, LockInv, HolderInv, PlaceInv, RecordedInv, OpenInv, MoveInv,
       FloorAsDecided, ReportsWholePairs, Actors, Clients, Inside, MoveSpillingRefused

\* Put back, the pair is the one decided before.
LEMMA PutBackInv ==
    ASSUME FloorInv, NEW t \in Threads, PutBack(t)
    PROVE  FloorInv'
<1>1. Released(t)
    BY ReleaseInv DEF PutBack, Inside, Actors
<1>2. FloorTypeOK'
    BY <1>1, WholePairsReported
       DEF FloorInv, FloorTypeOK, Released, PutBack, Clients, ReportedFloors
<1>3. PlaceInv' /\ RecordedInv' /\ OpenInv'
    BY <1>1, FloorAssumption
       DEF FloorInv, PlaceInv, RecordedInv, OpenInv, Released, PutBack, Actors, Inside
<1>4. FloorAsDecided' /\ ReportsWholePairs'
    BY <1>1, WholePairsReported
       DEF FloorInv, FloorTypeOK, LockInv, PlaceInv, RecordedInv, OpenInv,
       MoveInv, FloorAsDecided, ReportsWholePairs, PutBack, Inside, Actors, ReportedFloors
<1> QED
    BY <1>1, <1>2, <1>3, <1>4 DEF FloorInv, Released

\* Not put back, the floors are said to be unknown.
LEMMA PutBackRefusedInv ==
    ASSUME FloorInv, NEW t \in Threads, PutBackRefused(t)
    PROVE  FloorInv'
<1>1. Released(t)
    BY ReleaseInv DEF PutBackRefused, Inside, Actors
<1>2. FloorTypeOK'
    BY <1>1, WholePairsReported
       DEF FloorInv, FloorTypeOK, Released, PutBackRefused, Clients, ReportedFloors
<1>3. PlaceInv' /\ RecordedInv' /\ OpenInv'
    BY <1>1, FloorAssumption
       DEF FloorInv, PlaceInv, RecordedInv, OpenInv, Released, PutBackRefused, Actors,
           Inside
<1>4. FloorAsDecided' /\ ReportsWholePairs'
    BY <1>1, WholePairsReported
       DEF FloorInv, FloorTypeOK, LockInv, PlaceInv, RecordedInv, OpenInv,
       MoveInv, FloorAsDecided, ReportsWholePairs, PutBackRefused, Inside, Actors, ReportedFloors
<1> QED
    BY <1>1, <1>2, <1>3, <1>4 DEF FloorInv, Released

\* A panic between the two knobs leaves the floors unknown, any other as they were.
LEMMA PanicInv ==
    ASSUME FloorInv, NEW t \in Threads, Panic(t)
    PROVE  FloorInv'
<1>1. Released(t)
    BY ReleaseInv DEF Panic, Inside, Actors
<1>2. FloorTypeOK'
    BY <1>1, WholePairsReported
       DEF FloorInv, FloorTypeOK, Released, Panic, Clients, ReportedFloors
<1>3. PlaceInv' /\ RecordedInv' /\ OpenInv'
    BY <1>1, FloorAssumption
       DEF FloorInv, PlaceInv, RecordedInv, OpenInv, Released, Panic, Actors, Inside
<1>4. FloorAsDecided' /\ ReportsWholePairs'
    BY Zenon, <1>1, WholePairsReported
       DEF FloorInv, FloorTypeOK, LockInv, PlaceInv, RecordedInv, OpenInv,
       MoveInv, FloorAsDecided, ReportsWholePairs, Panic, Inside, Actors, ReportedFloors
<1> QED
    BY <1>1, <1>2, <1>3, <1>4 DEF FloorInv, Released

\* A read finds nobody inside, and so a pair that was decided.
LEMMA FreeDiskFloorsInv ==
    ASSUME FloorInv, NEW t \in Threads, FreeDiskFloors(t)
    PROVE  FloorInv'
BY FloorAssumption
   DEF FloorInv, FloorTypeOK, LockInv, HolderInv, PlaceInv, RecordedInv, OpenInv, MoveInv,
       FloorAsDecided, ReportsWholePairs, Actors, Clients, Inside, FreeDiskFloors, Read, WholePairs

\* A close moves neither knob.
LEMMA CloseClientInv ==
    ASSUME FloorInv, CloseClient
    PROVE  FloorInv'
BY DEF FloorInv, FloorTypeOK, LockInv, HolderInv, PlaceInv, RecordedInv, OpenInv, MoveInv,
       FloorAsDecided, ReportsWholePairs, Actors, Clients, Inside, CloseClient

\* A new process starts on MongoDB's own floors.
LEMMA NewProcessInv ==
    ASSUME FloorInv, NewProcess
    PROVE  FloorInv'
BY Zenon, FloorAssumption, WholePairsReported
   DEF FloorInv, FloorTypeOK, LockInv, HolderInv, PlaceInv, RecordedInv, OpenInv, MoveInv,
       FloorAsDecided, ReportsWholePairs, Actors, Clients, Inside, NewProcess, Requests, WholePairs

\* FloorInv is inductive.
LEMMA FloorNextInv == FloorInv /\ [FloorNext]_floorVars => FloorInv'
<1> SUFFICES ASSUME FloorInv, [FloorNext]_floorVars
             PROVE  FloorInv'
    OBVIOUS
<1>1. ASSUME NEW r \in Requests, BeginEstablish(r) PROVE FloorInv'
    BY <1>1, BeginEstablishInv
<1>2. CASE Establish
    <2>1. CASE Lock(Opener)
        BY <2>1, LockStepInv DEF Actors
    <2>2. CASE DefaultsUnread \/ SendRefused
        BY <2>2, AbandonInv DEF DefaultsUnread, SendRefused, Inside
    <2> QED
        BY <1>2, <2>1, <2>2, DefaultsInv, SendFirstInv, SendSecondInv DEF Establish
<1>3. ASSUME NEW t \in Threads, Mover(t) PROVE FloorInv'
    <2>1. CASE Lock(t)
        BY <2>1, LockStepInv DEF Actors
    <2>2. ASSUME NEW f \in Floors, SetFreeDiskFloor(t, f) PROVE FloorInv'
        BY <2>2, SetFreeDiskFloorInv
    <2> QED
        BY <1>3, <2>1, <2>2, ReadBeforeInv, MoveRefusedInv, MoveIndexBuildInv,
           MoveQuerySpillingInv, MoveSpillingRefusedInv, PutBackInv, PutBackRefusedInv,
           PanicInv, FreeDiskFloorsInv DEF Mover
<1>4. CASE HandOver \/ CloseClient \/ NewProcess
    BY <1>4, HandOverInv, CloseClientInv, NewProcessInv
<1>5. CASE UNCHANGED floorVars
    BY <1>5 DEF floorVars, FloorInv, FloorTypeOK, LockInv, HolderInv, PlaceInv, RecordedInv,
       OpenInv, MoveInv, FloorAsDecided, ReportsWholePairs
<1> QED
    BY <1>1, <1>2, <1>3, <1>4, <1>5 DEF FloorNext

-----------------------------------------------------------------------------
\* For any number of threads and any floors: with nobody inside FloorMoves an
\* open engine runs on the pair last decided, whatever was refused on the way.
THEOREM FloorStaysDecided == FloorSpec => []FloorAsDecided
<1>1. FloorInv => FloorAsDecided
    BY DEF FloorInv
<1> QED
    BY <1>1, FloorInitInv, FloorNextInv, PTL DEF FloorSpec

\* free_disk_floors never answers half a move.
THEOREM ReportsAreWhole == FloorSpec => []ReportsWholePairs
<1>1. FloorInv => ReportsWholePairs
    BY DEF FloorInv
<1> QED
    BY <1>1, FloorInitInv, FloorNextInv, PTL DEF FloorSpec

-----------------------------------------------------------------------------
(***************************************************************************)
(* RepairPass.  RepairInv is the inductive invariant: it says, for each    *)
(* stage of the pass, which collections may still be damaged and what the  *)
(* log has said about those that were changed.                             *)
(***************************************************************************)

Idle     == {"none", "asked", "due", "list", "serving"}
Visiting == {"repair", "announce", "confirm"}
Stages   == Idle \cup {"sweep", "done"} \cup Visiting \cup Recording

RepairTypeOK ==
    /\ wiredTiger \in BOOLEAN
    /\ present \subseteq Collections
    /\ damage \in [Collections -> {"sound", "damaged", "residual"}]
    /\ stage \in Stages
    /\ todo \subseteq present
    /\ complete \in BOOLEAN

\* Only what the directory holds is damaged, and it holds nothing before the
\* storage engine's files are there.
DirectoryInv ==
    /\ \A c \in Collections \ present : damage[c] = "sound"
    /\ ~ wiredTiger => present = {}
    /\ stage \notin {"none", "asked"} => wiredTiger
    /\ loaded \subseteq present
    /\ origin = "Fresh" /\ stage \notin {"none", "serving"} => present = {}

\* A visit is of one collection, which is in the sweep's list until it ends.
VisitInv ==
    /\ stage \in Visiting => \E c \in todo : at = {c}
    /\ stage \in {"announce", "confirm"} => \A c \in at : damage[c] # "damaged"
    /\ stage = "announce" =>
         \E r \in repaired : /\ repaired = {r}
                /\ \A c \in at : \A e \in {"moved", "deleted"} :
                     <<c, e>> \in effects => <<c, e>> \in Effects(c, r)
    /\ stage \in Visiting => \A c \in at : Said(c, "damage")

\* While nothing has withheld the marker, what is left to visit is all that may
\* be damaged, or damaged for good and not yet reported.
SweepInv ==
    stage \in {"sweep"} \cup Visiting /\ complete =>
        \A c \in present \ todo :
            damage[c] # "damaged" /\ (damage[c] = "residual" => Said(c, "residual"))

\* The pass is about to record only what it may.
RecordInv ==
    stage \in Recording => \A c \in present : damage[c] # "damaged"

\* Nothing was moved outside of a pass, or of a collection yet to be repaired.
EffectsInv ==
    /\ stage \in Idle => effects = {}
    /\ \A c \in todo : stage \in {"sweep", "repair"} \/ c \notin at =>
         \A e \in {"moved", "deleted"} : <<c, e>> \notin effects

RepairInv ==
    /\ RepairTypeOK /\ DirectoryInv /\ VisitInv /\ SweepInv /\ RecordInv /\ EffectsInv
    /\ MarkerMeansVisited /\ NothingMovesSilently

-----------------------------------------------------------------------------
(* What the engine's replies say *)

\* A check that calls a collection sound is right, and one that finished
\* calls a damaged collection damaged.
LEMMA ReplyTrue ==
    ASSUME NEW c \in Collections, NEW reply \in Validate(c)
    PROVE  /\ Health(reply) \in {"Sound", "Damaged", "Inconclusive"}
           /\ Health(reply) = "Sound" => damage[c] = "sound"
           /\ damage[c] # "sound" /\ Health(reply) # "Inconclusive" => Health(reply) = "Damaged"
<1>1. reply.threw \in BOOLEAN
    BY DEF Validate, Replies
<1>2. CASE reply.threw
    BY <1>2 DEF Health
<1>3. CASE ~ reply.threw
    BY <1>3 DEF Health, Validate, Unremarkable
<1> QED
    BY <1>1, <1>2, <1>3

\* A library that lists the directory lists all of it.
LEMMA ListsAll ==
    ASSUME present \subseteq Collections, CatalogTrusted
    PROVE  Namespaces = present
BY RepairAssumption DEF CatalogTrusted, Namespaces, Entries, IsCollection


\* Without the storage engine's files the directory holds nothing.
LEMMA AskOriginInv ==
    ASSUME RepairInv, AskOrigin
    PROVE  RepairInv'
BY DEF RepairInv, RepairTypeOK, DirectoryInv, VisitInv, SweepInv, RecordInv, EffectsInv,
       MarkerMeansVisited, NothingMovesSilently, Said, Idle, Visiting, Recording, Stages,
       AskOrigin, directoryVars, ghostVars, Origin

\* The files are there from here on.
LEMMA EngineStartsInv ==
    ASSUME RepairInv, EngineStarts
    PROVE  RepairInv'
BY DEF RepairInv, RepairTypeOK, DirectoryInv, VisitInv, SweepInv, RecordInv, EffectsInv,
       MarkerMeansVisited, NothingMovesSilently, Said, Idle, Visiting, Recording, Stages,
       EngineStarts, ghostVars

\* A failed start leaves the collections alone.
LEMMA EngineFailsInv ==
    ASSUME RepairInv, EngineFails
    PROVE  RepairInv'
BY Zenon DEF RepairInv, RepairTypeOK, DirectoryInv, VisitInv, SweepInv, RecordInv, EffectsInv,
       MarkerMeansVisited, NothingMovesSilently, Said, Idle, Visiting, Recording, Stages,
       EngineFails, ghostVars

\* A fresh directory is marked at once, any other is listed first.
LEMMA RunInv ==
    ASSUME RepairInv, Run
    PROVE  RepairInv'
BY DEF RepairInv, RepairTypeOK, DirectoryInv, VisitInv, SweepInv, RecordInv, EffectsInv,
       MarkerMeansVisited, NothingMovesSilently, Said, Idle, Visiting, Recording, Stages, Run,
       directoryVars, processVars, ghostVars, AfterRun

\* What is trusted is all there is.
LEMMA ListInv ==
    ASSUME RepairInv, List
    PROVE  RepairInv'
<1>0. CatalogTrusted => Namespaces = present
    BY ListsAll DEF RepairInv, RepairTypeOK
<1>1. RepairTypeOK' /\ DirectoryInv'
    <2>1. CatalogTrusted \in BOOLEAN
        BY DEF CatalogTrusted
    <2> QED
        BY <1>0, <2>1 DEF RepairInv, RepairTypeOK, DirectoryInv, Idle, Stages, List,
            directoryVars, processVars
<1>2. VisitInv'
    BY <1>0
       DEF RepairInv, RepairTypeOK, VisitInv, EffectsInv, Said, Idle, Visiting,
           Recording, Stages, List, directoryVars, processVars, ghostVars
<1>3. SweepInv' /\ RecordInv'
    BY <1>0
       DEF RepairInv, RepairTypeOK, VisitInv, SweepInv, RecordInv, Said, Idle,
           Visiting, Recording, Stages, List, directoryVars, processVars, ghostVars
<1>4. EffectsInv'
    BY <1>0
       DEF RepairInv, RepairTypeOK, VisitInv, EffectsInv, Idle, Visiting, Recording,
           Stages, List, directoryVars, processVars, ghostVars
<1>5. MarkerMeansVisited'
    BY <1>0
       DEF RepairInv, RepairTypeOK, DirectoryInv, MarkerMeansVisited, RecordInv, Idle,
           Visiting, Recording, Stages, List, directoryVars, processVars, ghostVars
<1>6. NothingMovesSilently'
    BY <1>0
       DEF RepairInv, RepairTypeOK, VisitInv, SweepInv, EffectsInv,
           NothingMovesSilently, Said, Idle, Visiting, Recording, Stages, List,
           directoryVars, processVars, ghostVars
<1> QED
    BY <1>1, <1>2, <1>3, <1>4, <1>5, <1>6 DEF RepairInv

\* Nothing listed, nothing recorded.
LEMMA ListFailsInv ==
    ASSUME RepairInv, ListFails
    PROVE  RepairInv'
BY DEF RepairInv, RepairTypeOK, DirectoryInv, VisitInv, SweepInv, RecordInv, EffectsInv,
       MarkerMeansVisited, NothingMovesSilently, Said, Idle, Visiting, Recording, Stages,
       ListFails, directoryVars, processVars, ghostVars

\* A collection is passed over only if it is sound; a damaged one is named before its repair.
LEMMA VisitAnsweredInv ==
    ASSUME RepairInv, NEW c \in todo, NEW reply \in Validate(c), VisitAnswered(c, reply)
    PROVE  RepairInv'
<1>1. RepairTypeOK' /\ DirectoryInv'
    BY Zenon, ReplyTrue
       DEF RepairInv, RepairTypeOK, DirectoryInv, VisitInv, Idle, Visiting, Recording,
           Stages, VisitAnswered, directoryVars, processVars, Leave
<1>2. VisitInv'
    BY ReplyTrue
       DEF RepairInv, RepairTypeOK, VisitInv, EffectsInv, Said, Idle, Visiting,
           Recording, Stages, VisitAnswered, directoryVars, processVars, Leave
<1>3. SweepInv' /\ RecordInv'
    <2>1. c \in Collections
        BY DEF RepairInv, RepairTypeOK
    <2>2. Health(reply) = "Sound" => damage[c] = "sound"
        BY <2>1, ReplyTrue
    <2>3. SweepInv'
        BY Zenon, <2>1, <2>2
           DEF RepairInv, RepairTypeOK, SweepInv, Visiting, Said, VisitAnswered, Leave,
            directoryVars
    <2>4. RecordInv'
        BY DEF RecordInv, Recording, VisitAnswered, Leave
    <2> QED
        BY <2>3, <2>4
<1>4. EffectsInv'
    BY ReplyTrue
       DEF RepairInv, RepairTypeOK, VisitInv, EffectsInv, Idle, Visiting, Recording,
           Stages, VisitAnswered, directoryVars, processVars, Leave
<1>5. MarkerMeansVisited'
    BY ReplyTrue
       DEF RepairInv, RepairTypeOK, DirectoryInv, MarkerMeansVisited, RecordInv, Idle,
           Visiting, Recording, Stages, VisitAnswered, directoryVars, processVars, Leave
<1>6. NothingMovesSilently'
    BY ReplyTrue
       DEF RepairInv, RepairTypeOK, VisitInv, SweepInv, EffectsInv,
           NothingMovesSilently, Said, Idle, Visiting, Recording, Stages, VisitAnswered,
           directoryVars, processVars, Leave
<1> QED
    BY <1>1, <1>2, <1>3, <1>4, <1>5, <1>6 DEF RepairInv

\* A visit that was refused withholds the marker.
LEMMA VisitRefusedInv ==
    ASSUME RepairInv, VisitRefused
    PROVE  RepairInv'
<1>1. RepairTypeOK' /\ DirectoryInv'
    BY DEF RepairInv, RepairTypeOK, DirectoryInv, VisitInv, Idle, Visiting, Recording,
           Stages, VisitRefused, directoryVars, processVars, ghostVars, Leave
<1>2. VisitInv'
    BY DEF RepairInv, RepairTypeOK, VisitInv, EffectsInv, Said, Idle, Visiting,
           Recording, Stages, VisitRefused, directoryVars, processVars, ghostVars, Leave
<1>3. SweepInv' /\ RecordInv'
    BY Zenon DEF RepairInv, RepairTypeOK, VisitInv, SweepInv, RecordInv, Said, Idle, Visiting,
           Recording, Stages, VisitRefused, directoryVars, processVars, ghostVars, Leave
<1>4. EffectsInv'
    BY DEF RepairInv, RepairTypeOK, VisitInv, EffectsInv, Idle, Visiting, Recording,
           Stages, VisitRefused, directoryVars, processVars, ghostVars, Leave
<1>5. MarkerMeansVisited'
    BY DEF RepairInv, RepairTypeOK, DirectoryInv, MarkerMeansVisited, RecordInv, Idle,
           Visiting, Recording, Stages, VisitRefused, directoryVars, processVars, ghostVars,
           Leave
<1>6. NothingMovesSilently'
    BY DEF RepairInv, RepairTypeOK, VisitInv, SweepInv, EffectsInv,
           NothingMovesSilently, Said, Idle, Visiting, Recording, Stages, VisitRefused,
           directoryVars, processVars, ghostVars, Leave
<1> QED
    BY <1>1, <1>2, <1>3, <1>4, <1>5, <1>6 DEF RepairInv

\* A repair leaves the collection sound, or damaged for good.
LEMMA RepairStepInv ==
    ASSUME RepairInv, Repair
    PROVE  RepairInv'
<1>1. RepairTypeOK' /\ DirectoryInv'
    BY DEF RepairInv, RepairTypeOK, DirectoryInv, VisitInv, Idle, Visiting, Recording,
           Stages, Repair, processVars, RepairsOf, Repairs
<1>2. VisitInv'
    BY DEF RepairInv, RepairTypeOK, VisitInv, EffectsInv, Said, Idle, Visiting,
           Recording, Stages, Repair, processVars, RepairsOf, Repairs
<1>3. SweepInv' /\ RecordInv'
    BY DEF RepairInv, RepairTypeOK, VisitInv, SweepInv, RecordInv, Said, Idle, Visiting,
           Recording, Stages, Repair, processVars, RepairsOf, Repairs
<1>4. EffectsInv'
    <2>1. PICK c \in at : \E r \in RepairsOf(c) : effects' = effects \cup Effects(c, r)
        BY DEF Repair
    <2>2. \A k, e : <<k, e>> \in effects' => k = c \/ <<k, e>> \in effects
        BY <2>1 DEF Effects
    <2> QED
        BY <2>1, <2>2 DEF RepairInv, EffectsInv, Idle, Repair
<1>5. MarkerMeansVisited'
    BY DEF RepairInv, RepairTypeOK, DirectoryInv, MarkerMeansVisited, RecordInv, Idle,
           Visiting, Recording, Stages, Repair, processVars, RepairsOf, Repairs
<1>6. NothingMovesSilently'
    <2>1. PICK c \in at : \E r \in RepairsOf(c) : effects' = effects \cup Effects(c, r)
        BY DEF Repair
    <2>2. \A k, e : <<k, e>> \in effects' => k = c \/ <<k, e>> \in effects
        BY <2>1 DEF Effects
    <2>3. Said(c, "damage")
        BY <2>1 DEF RepairInv, VisitInv, Visiting, Repair
    <2> QED
        BY <2>1, <2>2, <2>3 DEF RepairInv, NothingMovesSilently, Said, Recording, Repair
<1> QED
    BY <1>1, <1>2, <1>3, <1>4, <1>5, <1>6 DEF RepairInv

\* A repair that failed half way withholds the marker and is remembered as lost.
LEMMA RepairFailsInv ==
    ASSUME RepairInv, RepairFails
    PROVE  RepairInv'
<1>1. RepairTypeOK' /\ DirectoryInv'
    BY DEF RepairInv, RepairTypeOK, DirectoryInv, VisitInv, Idle, Visiting, Recording,
           Stages, RepairFails, processVars, RepairsOf, Repairs, Leave
<1>2. VisitInv'
    BY DEF RepairInv, RepairTypeOK, VisitInv, EffectsInv, Said, Idle, Visiting,
           Recording, Stages, RepairFails, processVars, RepairsOf, Repairs, Leave
<1>3. SweepInv' /\ RecordInv'
    BY Zenon DEF RepairInv, RepairTypeOK, VisitInv, SweepInv, RecordInv, Said, Idle, Visiting,
           Recording, Stages, RepairFails, processVars, RepairsOf, Repairs, Leave
<1>4. EffectsInv'
    <2>1. PICK c \in at : /\ \E r \in RepairsOf(c) : effects' = effects \cup Effects(c, r)
                          /\ Leave(c, FALSE)
        BY Zenon DEF RepairFails
    <2>2. \A k, e : <<k, e>> \in effects' => k = c \/ <<k, e>> \in effects
        BY <2>1 DEF Effects
    <2> QED
        BY <2>1, <2>2
           DEF RepairInv, RepairTypeOK, VisitInv, EffectsInv, Idle, Visiting,
               RepairFails, Leave
<1>5. MarkerMeansVisited'
    BY DEF RepairInv, RepairTypeOK, DirectoryInv, MarkerMeansVisited, RecordInv, Idle,
           Visiting, Recording, Stages, RepairFails, processVars, RepairsOf, Repairs, Leave
<1>6. NothingMovesSilently'
    <2>1. PICK c \in at : /\ \E r \in RepairsOf(c) : effects' = effects \cup Effects(c, r)
                          /\ lost' = lost \cup {c}
                          /\ Leave(c, FALSE)
        BY Zenon DEF RepairFails
    <2>2. \A k, e : <<k, e>> \in effects' => k = c \/ <<k, e>> \in effects
        BY <2>1 DEF Effects
    <2>3. Said(c, "damage") /\ said' = said
        BY Zenon DEF RepairInv, VisitInv, Visiting, RepairFails
    <2> QED
        BY <2>1, <2>2, <2>3
           DEF RepairInv, NothingMovesSilently, Said, Recording, RepairFails, Leave
<1> QED
    BY <1>1, <1>2, <1>3, <1>4, <1>5, <1>6 DEF RepairInv

\* Everything the reply counted is said.
LEMMA AnnounceInv ==
    ASSUME RepairInv, Announce
    PROVE  RepairInv'
<1>1. RepairTypeOK' /\ DirectoryInv'
    BY DEF RepairInv, RepairTypeOK, DirectoryInv, VisitInv, Idle, Visiting, Recording,
           Stages, Announce, directoryVars, processVars, Announcements
<1>2. VisitInv'
    BY DEF RepairInv, RepairTypeOK, VisitInv, EffectsInv, Said, Idle, Visiting,
           Recording, Stages, Announce, directoryVars, processVars, Announcements
<1>3. SweepInv' /\ RecordInv'
    BY DEF RepairInv, RepairTypeOK, VisitInv, SweepInv, RecordInv, Said, Idle, Visiting,
           Recording, Stages, Announce, directoryVars, processVars, Announcements
<1>4. EffectsInv'
    BY DEF RepairInv, RepairTypeOK, VisitInv, EffectsInv, Idle, Visiting, Recording,
           Stages, Announce, directoryVars, processVars, Announcements
<1>5. MarkerMeansVisited'
    BY DEF RepairInv, RepairTypeOK, DirectoryInv, MarkerMeansVisited, RecordInv, Idle,
           Visiting, Recording, Stages, Announce, directoryVars, processVars, Announcements
<1>6. NothingMovesSilently'
    <2>1. PICK c \in todo : at = {c}
        BY DEF RepairInv, VisitInv, Visiting, Announce
    <2>2. PICK r : /\ repaired = {r}
                   /\ \A e \in {"moved", "deleted"} :
                        <<c, e>> \in effects => <<c, e>> \in Effects(c, r)
        BY ZenonT(30), <2>1 DEF RepairInv, VisitInv, Announce
    <2>3. said' = said \cup Announcements(c, r)
        BY <2>1, <2>2 DEF Announce
    <2>4. \A e \in {"moved", "deleted"} : <<c, e>> \in effects => <<c, e>> \in said'
        BY <2>2, <2>3 DEF Announcements
    <2>5. <<c, "moved">> \in Effects(c, r) =>
             <<c, "moved_to">> \in said' \/ <<c, "no_destination">> \in said'
        BY <2>3 DEF Announcements, Effects
    <2> QED
        BY Zenon, <2>1, <2>2, <2>3, <2>4, <2>5
           DEF RepairInv, NothingMovesSilently, Said, Recording, Announce
<1> QED
    BY <1>1, <1>2, <1>3, <1>4, <1>5, <1>6 DEF RepairInv

\* A collection damaged for good is reported before it counts as visited.
LEMMA ConfirmInv ==
    ASSUME RepairInv, Confirm
    PROVE  RepairInv'
<1>1. RepairTypeOK' /\ DirectoryInv'
    BY Zenon, ReplyTrue
       DEF RepairInv, RepairTypeOK, DirectoryInv, VisitInv, Idle, Visiting, Recording,
           Stages, Confirm, directoryVars, processVars, ConfirmAnswered, Leave
<1>2. VisitInv'
    BY ReplyTrue
       DEF RepairInv, RepairTypeOK, VisitInv, EffectsInv, Said, Idle, Visiting,
           Recording, Stages, Confirm, directoryVars, processVars, ConfirmAnswered, Leave
<1>3. SweepInv' /\ RecordInv'
    BY Zenon, ReplyTrue
       DEF RepairInv, RepairTypeOK, VisitInv, SweepInv, RecordInv, Said, Idle,
           Visiting, Recording, Stages, Confirm, directoryVars, processVars,
           ConfirmAnswered, Leave
<1>4. EffectsInv'
    BY Zenon, ReplyTrue
       DEF RepairInv, RepairTypeOK, VisitInv, EffectsInv, Idle, Visiting, Recording,
           Stages, Confirm, directoryVars, processVars, ConfirmAnswered, Leave
<1>5. MarkerMeansVisited'
    BY Zenon, ReplyTrue
       DEF RepairInv, RepairTypeOK, DirectoryInv, MarkerMeansVisited, RecordInv, Idle,
           Visiting, Recording, Stages, Confirm, directoryVars, processVars,
           ConfirmAnswered, Leave
<1>6. NothingMovesSilently'
    BY ReplyTrue
       DEF RepairInv, RepairTypeOK, VisitInv, SweepInv, EffectsInv,
           NothingMovesSilently, Said, Idle, Visiting, Recording, Stages, Confirm,
           directoryVars, processVars, ConfirmAnswered, Leave
<1> QED
    BY <1>1, <1>2, <1>3, <1>4, <1>5, <1>6 DEF RepairInv

\* A confirmation that was refused withholds the marker.
LEMMA ConfirmRefusedInv ==
    ASSUME RepairInv, ConfirmRefused
    PROVE  RepairInv'
<1>1. RepairTypeOK' /\ DirectoryInv'
    BY DEF RepairInv, RepairTypeOK, DirectoryInv, VisitInv, Idle, Visiting, Recording,
           Stages, ConfirmRefused, directoryVars, processVars, ghostVars, Leave
<1>2. VisitInv'
    BY DEF RepairInv, RepairTypeOK, VisitInv, EffectsInv, Said, Idle, Visiting,
           Recording, Stages, ConfirmRefused, directoryVars, processVars, ghostVars, Leave
<1>3. SweepInv' /\ RecordInv'
    BY Zenon DEF RepairInv, RepairTypeOK, VisitInv, SweepInv, RecordInv, Said, Idle, Visiting,
           Recording, Stages, ConfirmRefused, directoryVars, processVars, ghostVars, Leave
<1>4. EffectsInv'
    BY DEF RepairInv, RepairTypeOK, VisitInv, EffectsInv, Idle, Visiting, Recording,
           Stages, ConfirmRefused, directoryVars, processVars, ghostVars, Leave
<1>5. MarkerMeansVisited'
    BY DEF RepairInv, RepairTypeOK, DirectoryInv, MarkerMeansVisited, RecordInv, Idle,
           Visiting, Recording, Stages, ConfirmRefused, directoryVars, processVars, ghostVars,
           Leave
<1>6. NothingMovesSilently'
    BY DEF RepairInv, RepairTypeOK, VisitInv, SweepInv, EffectsInv,
           NothingMovesSilently, Said, Idle, Visiting, Recording, Stages, ConfirmRefused,
           directoryVars, processVars, ghostVars, Leave
<1> QED
    BY <1>1, <1>2, <1>3, <1>4, <1>5, <1>6 DEF RepairInv

\* Nothing is left to visit.
LEMMA SweepEndsInv ==
    ASSUME RepairInv, SweepEnds
    PROVE  RepairInv'
<1>1. RepairTypeOK' /\ DirectoryInv'
    BY DEF RepairInv, RepairTypeOK, DirectoryInv, VisitInv, Idle, Visiting, Recording,
           Stages, SweepEnds, directoryVars, processVars, ghostVars
<1>2. VisitInv'
    BY DEF RepairInv, RepairTypeOK, VisitInv, EffectsInv, Said, Idle, Visiting,
           Recording, Stages, SweepEnds, directoryVars, processVars, ghostVars
<1>3. SweepInv' /\ RecordInv'
    BY Zenon DEF RepairInv, RepairTypeOK, VisitInv, SweepInv, RecordInv, Said, Idle, Visiting,
           Recording, Stages, SweepEnds, directoryVars, processVars, ghostVars
<1>4. EffectsInv'
    BY DEF RepairInv, RepairTypeOK, VisitInv, EffectsInv, Idle, Visiting, Recording,
           Stages, SweepEnds, directoryVars, processVars, ghostVars
<1>5. MarkerMeansVisited'
    BY DEF RepairInv, RepairTypeOK, DirectoryInv, MarkerMeansVisited, RecordInv, Idle,
           Visiting, Recording, Stages, SweepEnds, directoryVars, processVars, ghostVars
<1>6. NothingMovesSilently'
    BY Zenon DEF RepairInv, RepairTypeOK, VisitInv, SweepInv, EffectsInv,
           NothingMovesSilently, Said, Idle, Visiting, Recording, Stages, SweepEnds,
           directoryVars, processVars, ghostVars
<1> QED
    BY <1>1, <1>2, <1>3, <1>4, <1>5, <1>6 DEF RepairInv

\* The marker's temporary file changes nothing yet.
LEMMA CreatePartialInv ==
    ASSUME RepairInv, CreatePartial
    PROVE  RepairInv'
BY DEF RepairInv, RepairTypeOK, DirectoryInv, VisitInv, SweepInv, RecordInv, EffectsInv,
       MarkerMeansVisited, NothingMovesSilently, Said, Idle, Visiting, Recording, Stages,
       CreatePartial, MarkerStep, processVars, ghostVars

\* Nor does its content.
LEMMA WritePartialInv ==
    ASSUME RepairInv, WritePartial
    PROVE  RepairInv'
BY DEF RepairInv, RepairTypeOK, DirectoryInv, VisitInv, SweepInv, RecordInv, EffectsInv,
       MarkerMeansVisited, NothingMovesSilently, Said, Idle, Visiting, Recording, Stages,
       WritePartial, MarkerStep, processVars, ghostVars

\* The rename records what RecordInv says.
LEMMA RenamePartialInv ==
    ASSUME RepairInv, RenamePartial
    PROVE  RepairInv'
BY Zenon DEF RepairInv, RepairTypeOK, DirectoryInv, VisitInv, SweepInv, RecordInv, EffectsInv,
       MarkerMeansVisited, NothingMovesSilently, Said, Idle, Visiting, Recording, Stages,
       RenamePartial, MarkerStep, processVars, ghostVars

\* A failure to record leaves the marker as it was.
LEMMA RecordFailsInv ==
    ASSUME RepairInv, RecordFails
    PROVE  RepairInv'
BY DEF RepairInv, RepairTypeOK, DirectoryInv, VisitInv, SweepInv, RecordInv, EffectsInv,
       MarkerMeansVisited, NothingMovesSilently, Said, Idle, Visiting, Recording, Stages,
       RecordFails, MarkerStep, processVars, ghostVars

\* The pass's own state goes with it.
LEMMA PassEndsInv ==
    ASSUME RepairInv, PassEnds
    PROVE  RepairInv'
BY Zenon DEF RepairInv, RepairTypeOK, DirectoryInv, VisitInv, SweepInv, RecordInv, EffectsInv,
       MarkerMeansVisited, NothingMovesSilently, Said, Idle, Visiting, Recording, Stages,
       PassEnds, directoryVars, processVars

\* A new collection is sound.
LEMMA CreateCollectionInv ==
    ASSUME RepairInv, NEW c \in Collections, CreateCollection(c)
    PROVE  RepairInv'
<1>1. RepairTypeOK' /\ DirectoryInv'
    <2>1. stage = "serving" /\ stage' = stage /\ present' = present \cup {c}
        BY DEF CreateCollection, passVars
    <2>2. wiredTiger
        BY <2>1 DEF RepairInv, DirectoryInv
    <2> QED
        BY <2>1, <2>2
           DEF RepairInv, RepairTypeOK, DirectoryInv, CreateCollection, processVars,
               passVars
<1>2. VisitInv'
    BY DEF RepairInv, RepairTypeOK, VisitInv, EffectsInv, Said, Idle, Visiting,
           Recording, Stages, CreateCollection, processVars, passVars, ghostVars
<1>3. SweepInv' /\ RecordInv'
    BY DEF RepairInv, RepairTypeOK, VisitInv, SweepInv, RecordInv, Said, Idle, Visiting,
           Recording, Stages, CreateCollection, processVars, passVars, ghostVars
<1>4. EffectsInv'
    BY DEF RepairInv, RepairTypeOK, VisitInv, EffectsInv, Idle, Visiting, Recording,
           Stages, CreateCollection, processVars, passVars, ghostVars
<1>5. MarkerMeansVisited'
    BY DEF RepairInv, RepairTypeOK, DirectoryInv, MarkerMeansVisited, RecordInv, Idle,
           Visiting, Recording, Stages, CreateCollection, processVars, passVars, ghostVars
<1>6. NothingMovesSilently'
    BY Zenon DEF RepairInv, RepairTypeOK, VisitInv, SweepInv, EffectsInv,
           NothingMovesSilently, Said, Idle, Visiting, Recording, Stages, CreateCollection,
           processVars, passVars, ghostVars
<1> QED
    BY <1>1, <1>2, <1>3, <1>4, <1>5, <1>6 DEF RepairInv

\* What is damaged behind the marker is late.
LEMMA UnindexedWriteInv ==
    ASSUME RepairInv, NEW c \in Collections, UnindexedWrite(c)
    PROVE  RepairInv'
BY Zenon DEF RepairInv, RepairTypeOK, DirectoryInv, VisitInv, SweepInv, RecordInv, EffectsInv,
       MarkerMeansVisited, NothingMovesSilently, Said, Idle, Visiting, Recording, Stages,
       UnindexedWrite, processVars, passVars

\* A close leaves the directory as it is.
LEMMA CloseDirectoryInv ==
    ASSUME RepairInv, CloseDirectory
    PROVE  RepairInv'
BY Zenon DEF RepairInv, RepairTypeOK, DirectoryInv, VisitInv, SweepInv, RecordInv, EffectsInv,
       MarkerMeansVisited, NothingMovesSilently, Said, Idle, Visiting, Recording, Stages,
       CloseDirectory, directoryVars, processVars, ghostVars

\* So does an open that fails after the engine started.
LEMMA AbandonOpenInv ==
    ASSUME RepairInv, AbandonOpen
    PROVE  RepairInv'
BY DEF RepairInv, RepairTypeOK, DirectoryInv, VisitInv, SweepInv, RecordInv, EffectsInv,
       MarkerMeansVisited, NothingMovesSilently, Said, Idle, Visiting, Recording, Stages,
       AbandonOpen, directoryVars, processVars, ghostVars

\* A crash leaves the directory, and nothing of the pass.
LEMMA CrashInv ==
    ASSUME RepairInv, Crash
    PROVE  RepairInv'
BY Zenon DEF RepairInv, RepairTypeOK, DirectoryInv, VisitInv, SweepInv, RecordInv, EffectsInv,
       MarkerMeansVisited, NothingMovesSilently, Said, Idle, Visiting, Recording, Stages,
       Crash, directoryVars

\* Without a marker nothing is promised.
LEMMA MarkerLostInv ==
    ASSUME RepairInv, MarkerLost
    PROVE  RepairInv'
BY DEF RepairInv, RepairTypeOK, DirectoryInv, VisitInv, SweepInv, RecordInv, EffectsInv,
       MarkerMeansVisited, NothingMovesSilently, Said, Idle, Visiting, Recording, Stages,
       MarkerLost, processVars, passVars

\* RepairInv holds of a directory of an earlier build, and of none at all.
LEMMA RepairInitInv == RepairInit => RepairInv
BY Zenon DEF RepairInit, RepairInv, RepairTypeOK, DirectoryInv, VisitInv, SweepInv, RecordInv,
       EffectsInv, MarkerMeansVisited, NothingMovesSilently, Said, Idle, Visiting, Recording,
       Stages

\* RepairInv is inductive.
LEMMA RepairNextInv == RepairInv /\ [RepairNext]_repairVars => RepairInv'
<1> SUFFICES ASSUME RepairInv, [RepairNext]_repairVars
             PROVE  RepairInv'
    OBVIOUS
<1>1. CASE Opening
    BY <1>1, AskOriginInv, EngineStartsInv, EngineFailsInv, AbandonOpenInv DEF Opening
<1>2. CASE Pass
    <2>1. CASE Visit
        BY <2>1, VisitAnsweredInv DEF Visit
    <2> QED
        BY <1>2, <2>1, RunInv, ListInv, ListFailsInv, VisitRefusedInv, RepairStepInv, RepairFailsInv,
           AnnounceInv, ConfirmInv, ConfirmRefusedInv, SweepEndsInv, CreatePartialInv,
           WritePartialInv, RenamePartialInv, RecordFailsInv DEF Pass
<1>3. CASE Serving
    BY <1>3, CreateCollectionInv, UnindexedWriteInv DEF Serving
<1>4. CASE PassEnds \/ CloseDirectory \/ Crash \/ MarkerLost
    BY Zenon, <1>4, PassEndsInv, CloseDirectoryInv, CrashInv, MarkerLostInv
<1>5. CASE UNCHANGED repairVars
    BY <1>5 DEF repairVars, directoryVars, processVars, passVars, ghostVars, RepairInv,
        RepairTypeOK, DirectoryInv, VisitInv, SweepInv, RecordInv, EffectsInv,
        MarkerMeansVisited, NothingMovesSilently, Said
<1> QED
    BY <1>1, <1>2, <1>3, <1>4, <1>5 DEF RepairNext

-----------------------------------------------------------------------------
\* For any directory, wherever processes die and whatever the engine refuses,
\* no damage an earlier build left is behind a marker.
THEOREM MarkerIsEarned == RepairSpec => []MarkerMeansVisited
<1>1. RepairInv => MarkerMeansVisited
    BY DEF RepairInv
<1> QED
    BY <1>1, RepairInitInv, RepairNextInv, PTL DEF RepairSpec

\* No document of any collection moves or goes without the log saying so.
THEOREM RepairsAreAnnounced == RepairSpec => []NothingMovesSilently
<1>1. RepairInv => NothingMovesSilently
    BY DEF RepairInv
<1> QED
    BY <1>1, RepairInitInv, RepairNextInv, PTL DEF RepairSpec

-----------------------------------------------------------------------------
(***************************************************************************)
(* ClientOpen.  Every step of Client::open and of the life of the client is *)
(* a step of FloorLimits or leaves the floors alone, and the same for      *)
(* RepairPass, so what is proved of the parts holds of the whole.  OrderInv *)
(* ties the two together: where the pass is decides what the floors' client *)
(* may be doing.                                                           *)
(***************************************************************************)

\* How far the open is, as the floors and as the pass see it.
OrderInv ==
    /\ stage \in {"none", "asked"} => client = "none"
    /\ stage = "due" => client \in {"none", "opening", "established"}
    /\ stage \notin {"none", "asked", "due", "serving"} => client = "established"
    /\ stage = "serving" => client = "open"

\* Until other threads can reach the client, only the opener moves the floors.
AloneInv == client = "established" => ~unknown

\* The engine and the sessions were opened for the request in progress.
AskedInv ==
    /\ \A q \in request : /\ q.vector \in AcceptedVectors
                          /\ q.policy \in AcceptedPolicies
                          /\ q.floor \in Requests
    /\ \A e \in engine : \E q \in request : e = ToFfi(EngineOptionsOf(q.vector))
    /\ \A s \in sessions : \E q \in request : s \in PolicyOf(q.policy)

\* What one open leaves behind is gone before the next begins.
ForgottenInv ==
    /\ stage \in {"none", "asked"} \/ client \in {"established", "open"} => engine = {}
    /\ client # "opening" => sessions = {}

CompositionInv ==
    FloorInv /\ RepairInv /\ OrderInv /\ AloneInv /\ AskedInv /\ ForgottenInv

-----------------------------------------------------------------------------
(* The conversions *)

\* ToFfi undoes open_options: an accepted vector reaches the engine as it was
\* read, and inside the ranges of its settings.
LEMMA SlotsReachEngine ==
    ASSUME NEW vector \in AcceptedVectors
    PROVE  LET e == ToFfi(EngineOptionsOf(vector))
           IN  /\ e = ReadSlots(vector)
               /\ Unset(e[1]) \/ e[1] \in 1..MaxCacheMebibytes
               /\ Unset(e[2]) \/ e[2] \in MinJournalKibibytes..MaxJournalKibibytes
               /\ Unset(e[3]) \/ e[3] \in {1, 2}
<1> DEFINE slots == ReadSlots(vector)
           options == EngineOptionsOf(vector)
           e == ToFfi(options)
<1>1. slots \in [1..3 -> Int]
    BY OpenAssumption DEF AcceptedVectors, ReadSlots, SLOTS
<1>2. /\ SizeAccepted(slots[1], CacheSize(slots[1]))
      /\ SizeAccepted(slots[2], JournalFileSize(slots[2]))
      /\ slots[3] \in 0..2
    BY DEF AcceptedVectors, SlotsAccepted
<1>3. e[1] = slots[1] /\ (Unset(e[1]) \/ e[1] \in 1..MaxCacheMebibytes)
    <2>1. CASE slots[1] = 0
        BY <2>1 DEF ToFfi, EngineOptionsOf, SlotIsUnset, Unset, None
    <2>2. CASE slots[1] # 0
        <3>1. CacheSize(slots[1]) = {slots[1]} /\ slots[1] \in 1..MaxCacheMebibytes
            BY <1>1, <1>2, <2>2, OptionsAssumption
               DEF SizeAccepted, SlotIsUnset, CacheSize, CheckRange, None
        <3>2. options.cache = {slots[1]}
            BY <2>2, <3>1 DEF EngineOptionsOf, SlotIsUnset
        <3> QED
            BY <3>1, <3>2 DEF ToFfi, None
    <2> QED
        BY Zenon, <2>1, <2>2
<1>4. e[2] = slots[2] /\ (Unset(e[2]) \/ e[2] \in MinJournalKibibytes..MaxJournalKibibytes)
    <2>1. CASE slots[2] = 0
        BY Zenon, <2>1 DEF ToFfi, EngineOptionsOf, SlotIsUnset, Unset, None
    <2>2. CASE slots[2] # 0
        <3>1. /\ JournalFileSize(slots[2]) = {slots[2]}
              /\ slots[2] \in MinJournalKibibytes..MaxJournalKibibytes
            BY <1>1, <1>2, <2>2, OptionsAssumption
               DEF SizeAccepted, SlotIsUnset, JournalFileSize, CheckRange, None
        <3>2. options.journal = {slots[2]}
            BY <2>2, <3>1 DEF EngineOptionsOf, SlotIsUnset
        <3> QED
            BY <3>1, <3>2 DEF ToFfi, None
    <2> QED
        BY Zenon, <2>1, <2>2
<1>5. e[3] = slots[3] /\ (Unset(e[3]) \/ e[3] \in {1, 2})
    <2>1. slots[3] \in {0, 1, 2}
        BY <1>2
    <2>2. options.preallocation = PreallocationRequested(slots[3])
        BY DEF EngineOptionsOf
    <2>3. CASE slots[3] = 0
        BY <2>2, <2>3 DEF ToFfi, PreallocationRequested, None, Unset
    <2>4. CASE slots[3] = 1
        <3>1. options.preallocation = {"Enabled"}
            BY <2>2, <2>4 DEF PreallocationRequested, Some
        <3> QED
            BY <2>4, <3>1 DEF ToFfi, PreallocationNative, None
    <2>5. CASE slots[3] = 2
        <3>1. options.preallocation = {"Disabled"}
            BY <2>2, <2>5 DEF PreallocationRequested, Some
        <3> QED
            BY <2>5, <3>1 DEF ToFfi, PreallocationNative, None
    <2> QED
        BY <2>1, <2>3, <2>4, <2>5
<1>6. e = slots
    <2>1. e = <<e[1], e[2], e[3]>>
        BY DEF ToFfi
    <2>2. slots = <<slots[1], slots[2], slots[3]>>
        BY <1>1
    <2> QED
        BY <1>3, <1>4, <1>5, <2>1, <2>2
<1> QED
    BY <1>3, <1>4, <1>5, <1>6

\* Every policy a constructor accepts is one the session pool can serve.
LEMMA PoliciesServable ==
    ASSUME NEW p \in AcceptedPolicies, NEW s \in PolicyOf(p)
    PROVE  /\ 1 <= s.min /\ s.min <= s.max /\ s.max <= MaxCount
           /\ (s.idle = None) <=> (s.min = s.max)
           /\ \A millis \in s.idle : millis > 0
<1>1. p \in [kind : {"unset", "count", "dynamic"}, min : Int, max : Int, millis : Nat]
    BY OpenAssumption DEF AcceptedPolicies
<1>2. CASE p.kind = "unset"
    BY <1>2, OptionsAssumption DEF PolicyOf, Some, None, ResolveConcurrency, Preallocated
<1>3. CASE p.kind = "count"
    <2>1. s = Preallocated(p.max) /\ 1 <= p.max /\ p.max <= MaxCount
        BY <1>3 DEF PolicyOf, FromCount, CheckRange
    <2> QED
        BY <1>1, <2>1 DEF Preallocated, None
<1>4. CASE p.kind = "dynamic"
    <2>1. /\ 1 <= p.max /\ p.max <= MaxCount
          /\ 1 <= p.min /\ p.min <= p.max
          /\ 1 <= SaturatedMillis(p.millis)
        BY <1>4 DEF PolicyOf, Dynamic, CheckRange, None
    <2>2. p.millis > 0
        BY <1>1, <2>1, OptionsAssumption DEF SaturatedMillis
    <2>3. s = IF p.min = p.max THEN Preallocated(p.min)
              ELSE [min |-> p.min, max |-> p.max, idle |-> {p.millis}]
        BY <1>4 DEF PolicyOf, Dynamic, Some, None
    <2> QED
        BY <1>1, <2>1, <2>2, <2>3 DEF Preallocated, None
<1> QED
    BY <1>1, <1>2, <1>3, <1>4

-----------------------------------------------------------------------------
(* Every step of the whole is a step of each part *)

\* For the floors.
LEMMA StepsOfFloors ==
    ASSUME AskedInv, [Next]_vars
    PROVE  [FloorNext]_floorVars
<1>1. CASE OpenSessions
    BY <1>1 DEF OpenSessions, FloorNext, AskedInv
<1>2. CASE EstablishFloor \/ EstablishFloorFails
    BY <1>2 DEF EstablishFloor, EstablishFloorFails, FloorNext
<1>3. CASE ReturnClient \/ Movers \/ Close \/ ProcessDies
    BY <1>3 DEF ReturnClient, Movers, Close, ProcessDies, FloorNext
<1>4. CASE UNCHANGED floorVars
    BY <1>4
<1>5. CASE \/ \E v \in AcceptedVectors : \E p \in AcceptedPolicies : \E r \in Requests :
                 BeginOpen(v, p, r)
           \/ OpenEngine \/ OpenEngineFails \/ OpenSessionsFails \/ RepairRun \/ UseClient
           \/ LoseMarker \/ UNCHANGED vars
    BY <1>5, <1>4 DEF BeginOpen, OpenEngine, OpenEngineFails, OpenSessionsFails, RepairRun,
        UseClient, LoseMarker, vars
<1> QED
    BY <1>1, <1>2, <1>3, <1>5 DEF Next

\* For the repair pass.
LEMMA StepsOfRepair ==
    ASSUME [Next]_vars
    PROVE  [RepairNext]_repairVars
<1>1. CASE \/ \E v \in AcceptedVectors : \E p \in AcceptedPolicies : \E r \in Requests :
                 BeginOpen(v, p, r)
           \/ OpenEngine \/ OpenEngineFails \/ OpenSessionsFails \/ EstablishFloorFails
    BY <1>1
       DEF BeginOpen, OpenEngine, OpenEngineFails, OpenSessionsFails,
           EstablishFloorFails,
        Opening, RepairNext
<1>2. CASE RepairRun \/ ReturnClient \/ UseClient \/ Close \/ ProcessDies \/ LoseMarker
    BY <1>2
       DEF RepairRun, ReturnClient, UseClient, Close, ProcessDies, LoseMarker,
           RepairNext
<1>3. CASE OpenSessions \/ EstablishFloor \/ Movers \/ UNCHANGED vars
    BY <1>3 DEF OpenSessions, EstablishFloor, Movers, vars
<1> QED
    BY <1>1, <1>2, <1>3 DEF Next

\* Where a step of the pass may lead.
LEMMA PassStages ==
    ASSUME Pass, stage \in Stages
    PROVE  /\ stage \notin {"none", "asked", "serving"}
           /\ stage' \notin {"none", "asked", "due", "serving"}
BY DEF Pass, Run, AfterRun, List, ListFails, Visit, VisitAnswered, VisitRefused, Leave,
       Repair,
    RepairFails, Announce, Confirm, ConfirmAnswered, ConfirmRefused, SweepEnds, CreatePartial,
    WritePartial, RenamePartial, RecordFails, MarkerStep

\* What the opener's steps do to the client.
LEMMA EstablishClient ==
    ASSUME FloorInv, Establish
    PROVE  /\ client = "opening" /\ client' \in {"none", "opening", "established"}
           /\ unknown' = unknown
BY FloorAssumption
   DEF Establish, Lock, Defaults, DefaultsUnread, SendFirst, SendSecond, SendRefused,
       Abandon, FloorInv, FloorTypeOK, PlaceInv, Actors

\* What a mover's steps do to it: nothing, and they need it open.
LEMMA MoverClient ==
    ASSUME FloorInv, NEW t \in Threads, Mover(t)
    PROVE  client = "open" /\ client' = client
BY DEF Mover, SetFreeDiskFloor, Lock, ReadBefore, MoveRefused, MoveIndexBuild,
       MoveQuerySpilling,
    MoveSpillingRefused, PutBack, PutBackRefused, Panic, FreeDiskFloors, FloorInv, PlaceInv

-----------------------------------------------------------------------------
(* The invariant *)

\* The order of the open is kept, and nobody else moves the floors during it.
LEMMA OrderKept ==
    ASSUME CompositionInv, [Next]_vars
    PROVE  OrderInv' /\ AloneInv'
<1>0. stage \in Stages
    BY DEF CompositionInv, RepairInv, RepairTypeOK
<1>1. CASE \E v \in AcceptedVectors : \E p \in AcceptedPolicies : \E r \in Requests :
             BeginOpen(v, p, r)
    BY <1>1 DEF CompositionInv, OrderInv, AloneInv, BeginOpen, AskOrigin, floorVars
<1>2. CASE OpenEngine \/ OpenEngineFails
    BY Zenon, <1>2
       DEF CompositionInv, OrderInv, AloneInv, OpenEngine, OpenEngineFails,
           EngineStarts, EngineFails, floorVars
<1>3. CASE OpenSessions
    BY <1>3
       DEF CompositionInv, OrderInv, AloneInv, OpenSessions, BeginEstablish,
           repairVars, passVars
<1>4. CASE OpenSessionsFails
    BY <1>4
       DEF CompositionInv, OrderInv, AloneInv, OpenSessionsFails, AbandonOpen,
           floorVars
<1>5. CASE EstablishFloor \/ EstablishFloorFails
    BY <1>5, EstablishClient
       DEF CompositionInv, OrderInv, AloneInv, FloorInv, OpenInv, EstablishFloor,
           EstablishFloorFails,
        AbandonOpen, repairVars, passVars
<1>6. CASE RepairRun
    BY <1>0, <1>6, PassStages DEF CompositionInv, OrderInv, AloneInv, RepairRun, floorVars
<1>7. CASE ReturnClient \/ Close
    BY <1>7
       DEF CompositionInv, OrderInv, AloneInv, ReturnClient, Close, HandOver, PassEnds,
           CloseClient, CloseDirectory
<1>8. CASE UseClient
    BY <1>8
       DEF CompositionInv, OrderInv, AloneInv, UseClient, Serving, CreateCollection,
           UnindexedWrite, passVars, floorVars
<1>9. CASE Movers
    BY <1>9, MoverClient
       DEF CompositionInv, OrderInv, AloneInv, Movers, repairVars, passVars
<1>10. CASE ProcessDies
    BY <1>10 DEF OrderInv, AloneInv, ProcessDies, NewProcess, Crash
<1>11. CASE LoseMarker \/ UNCHANGED vars
    BY <1>11
       DEF CompositionInv, OrderInv, AloneInv, LoseMarker, MarkerLost, vars, floorVars,
           repairVars, passVars
<1> QED
    BY <1>1, <1>2, <1>3, <1>4, <1>5, <1>6, <1>7, <1>8, <1>9, <1>10, <1>11 DEF Next

\* What was opened was opened for the request in progress.
LEMMA AskedKept ==
    ASSUME CompositionInv, [Next]_vars
    PROVE  AskedInv' /\ ForgottenInv'
<1>0. stage \in Stages
    BY DEF CompositionInv, RepairInv, RepairTypeOK
<1>1. ASSUME NEW v \in AcceptedVectors, NEW p \in AcceptedPolicies, NEW r \in Requests,
             BeginOpen(v, p, r)
      PROVE  AskedInv' /\ ForgottenInv'
    BY <1>1 DEF CompositionInv, AskedInv, ForgottenInv, BeginOpen, AskOrigin, floorVars
<1>2. CASE OpenEngine
    BY Zenon, <1>2 DEF CompositionInv, OrderInv, AskedInv, ForgottenInv, OpenEngine, EngineStarts,
        floorVars
<1>3. CASE OpenEngineFails
    BY <1>3
       DEF CompositionInv, OrderInv, AskedInv, ForgottenInv, OpenEngineFails,
           EngineFails,
        floorVars
<1>4. CASE OpenSessions
    BY <1>4
       DEF CompositionInv, AskedInv, ForgottenInv, OpenSessions, BeginEstablish,
           repairVars,
        passVars
<1>5. CASE OpenSessionsFails \/ EstablishFloor \/ EstablishFloorFails \/ ProcessDies
    BY <1>5
       DEF AskedInv, ForgottenInv, OpenSessionsFails, EstablishFloor,
           EstablishFloorFails,
        ProcessDies, Forget
<1>6. CASE RepairRun
    BY Zenon, <1>0, <1>6, PassStages
       DEF CompositionInv, OrderInv, AskedInv, ForgottenInv, RepairRun,
        openVars, floorVars
<1>7. CASE ReturnClient \/ Close
    BY Zenon, <1>7
       DEF CompositionInv, AskedInv, ForgottenInv, ReturnClient, Close, HandOver,
           PassEnds,
        CloseClient, CloseDirectory, openVars
<1>8. CASE UseClient
    BY <1>8
       DEF CompositionInv, AskedInv, ForgottenInv, UseClient, Serving,
           CreateCollection,
        UnindexedWrite, openVars, passVars, floorVars
<1>9. CASE Movers
    BY Zenon, <1>9, MoverClient
       DEF CompositionInv, AskedInv, ForgottenInv, Movers, openVars, repairVars,
        passVars
<1>10. CASE LoseMarker \/ UNCHANGED vars
    BY <1>10
       DEF CompositionInv, AskedInv, ForgottenInv, LoseMarker, MarkerLost, vars,
           openVars,
        floorVars, repairVars, passVars
<1> QED
    BY Zenon, <1>1, <1>2, <1>3, <1>4, <1>5, <1>6, <1>7, <1>8, <1>9, <1>10 DEF Next

\* CompositionInv holds at the start.
LEMMA CompositionInit == Init => CompositionInv
<1> SUFFICES ASSUME Init
             PROVE  CompositionInv
    OBVIOUS
<1>1. FloorInv /\ RepairInv
    BY FloorInitInv, RepairInitInv DEF Init
<1> QED
    BY <1>1 DEF Init, FloorInit, RepairInit, CompositionInv, OrderInv, AloneInv, AskedInv,
        ForgottenInv

\* And every step keeps it: the parts by their own proofs.
LEMMA CompositionNext == CompositionInv /\ [Next]_vars => CompositionInv'
<1> SUFFICES ASSUME CompositionInv, [Next]_vars
             PROVE  CompositionInv'
    OBVIOUS
<1>1. FloorInv'
    BY StepsOfFloors, FloorNextInv DEF CompositionInv
<1>2. RepairInv'
    BY StepsOfRepair, RepairNextInv DEF CompositionInv
<1> QED
    BY <1>1, <1>2, OrderKept, AskedKept DEF CompositionInv

\* The pass runs on the floors this open decided.
LEMMA PassFloors ==
    ASSUME CompositionInv, stage \notin {"none", "asked", "due", "serving"}
    PROVE  knobs = decided
<1>1. client = "established" /\ ~unknown
    BY DEF CompositionInv, OrderInv, AloneInv
<1>2. \A a \in Actors : pc[a] = "idle"
    BY <1>1 DEF CompositionInv, FloorInv, PlaceInv, Actors
<1>3. holder = {}
    BY Zenon, <1>2 DEF CompositionInv, FloorInv, LockInv, HolderInv, Inside
<1> QED
    BY <1>1, <1>3 DEF CompositionInv, FloorInv, FloorAsDecided

-----------------------------------------------------------------------------
\* Client::open of any accepted options starts the engine and the sessions on
\* what was asked for, and the repair pass on the floors this open decided.
THEOREM OpenIsAsAsked == Spec => []OpenGivesWhatWasAsked
<1>1. CompositionInv => OpenGivesWhatWasAsked
    <2> SUFFICES ASSUME CompositionInv
                 PROVE  OpenGivesWhatWasAsked
        OBVIOUS
    <2>1. ASSUME NEW e \in engine
          PROVE  \E q \in request :
                    /\ e = ReadSlots(q.vector)
                    /\ Unset(e[1]) \/ e[1] \in 1..MaxCacheMebibytes
                    /\ Unset(e[2]) \/ e[2] \in MinJournalKibibytes..MaxJournalKibibytes
                    /\ Unset(e[3]) \/ e[3] \in {1, 2}
        BY Zenon, SlotsReachEngine DEF CompositionInv, AskedInv
    <2>2. ASSUME NEW s \in sessions
          PROVE  /\ 1 <= s.min /\ s.min <= s.max /\ s.max <= MaxCount
                 /\ (s.idle = None) <=> (s.min = s.max)
                 /\ \A millis \in s.idle : millis > 0
        BY PoliciesServable DEF CompositionInv, AskedInv
    <2> QED
        BY <2>1, <2>2, PassFloors DEF OpenGivesWhatWasAsked
<1> QED
    BY <1>1, CompositionInit, CompositionNext, PTL DEF Spec

\* What holds of the floors and of the repair pass alone holds of the client
\* that runs both.
THEOREM PartsKeepTheirPromises ==
    Spec => [](FloorAsDecided /\ ReportsWholePairs /\ MarkerMeansVisited /\ NothingMovesSilently)
<1>1. CompositionInv => /\ FloorAsDecided /\ ReportsWholePairs
                        /\ MarkerMeansVisited /\ NothingMovesSilently
    BY DEF CompositionInv, FloorInv, RepairInv
<1> QED
    BY <1>1, CompositionInit, CompositionNext, PTL DEF Spec
================================================================================

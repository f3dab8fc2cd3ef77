---------------------------- MODULE FloorLimits ----------------------------
(***************************************************************************)
(* The free-disk floors of src/limits: two server parameters of the        *)
(* process that express one decision and take two commands to move.  Every *)
(* open establishes the pair (at_open.rs); threads that share the client   *)
(* move it or read it while it is open (process.rs, and its async face     *)
(* nonblocking/process.rs, whose jobs are not cancelled with the future).  *)
(* The engine may refuse any command.  A refused setParameter was not      *)
(* applied.                                                                *)
(***************************************************************************)
EXTENDS Integers

CONSTANTS
    Threads,            \* threads, or workers of the async client, that move or read the floors
    Opener,             \* the thread inside Client::open
    Mebibytes,          \* the floors callers name
    BytesPerMebibyte,
    OwnIndexBuild,      \* MongoDB's own floors, each in the unit of its knob
    OwnQuerySpilling

ASSUME FloorAssumption ==
    /\ Opener \notin Threads
    /\ Mebibytes \subseteq Nat
    /\ BytesPerMebibyte \in Nat \ {0}
    /\ OwnIndexBuild \in Int
    /\ OwnQuerySpilling \in Int

VARIABLES
    client,     \* the process's one client: "none", "opening", "established" or "open"
    knobs,      \* the two server parameters, which outlive the client
    recorded,   \* EngineFloorDefaults: nothing, or the pair read at the first open
    holder,     \* who holds FloorMoves: nobody, or one actor
    pc,         \* where each actor is
    floor,      \* the floor each actor is moving to; for the opener nothing is MongoDB's own
    before,     \* what a mover read, to put back
    decided,    \* the pair the last successful call announced
    unknown,    \* a failure said that the floors are ones nobody chose
    reported    \* the last pair free_disk_floors answered while they were known

floorVars == <<client, knobs, recorded, holder, pc, floor, before, decided, unknown, reported>>

Actors == Threads \cup {Opener}
Clients == {"none", "opening", "established", "open"}

\* FreeDiskFloor::from_mebibytes refuses zero.
Floors == {m \in Mebibytes : 1 <= m}

\* ReportedFloors: each count in the unit its own knob takes.
ReportedFloors == [indexBuild : Int, querySpilling : Int]
EngineOwn == [indexBuild |-> OwnIndexBuild, querySpilling |-> OwnQuerySpilling]

\* FreeDiskFloor::commands, as the pair of values the two commands carry.
FloorCommands(f) == [indexBuild |-> f, querySpilling |-> f * BytesPerMebibyte]

\* The pair an open that named the Option r leaves in force.
Asked(r) == IF r = {} THEN EngineOwn ELSE FloorCommands(CHOOSE f \in r : TRUE)

\* reported_floors, when the engine answers with both knobs.
Read == knobs

FloorInit ==
    /\ client = "none"
    /\ knobs = EngineOwn
    /\ recorded = {}
    /\ holder = {}
    /\ pc = [a \in Actors |-> "idle"]
    /\ floor = [a \in Actors |-> {}]
    /\ before = [a \in Actors |-> EngineOwn]
    /\ decided = EngineOwn
    /\ unknown = FALSE
    /\ reported = {}

-----------------------------------------------------------------------------
(* FloorMoves::one_at_a_time: taken by every mover, reader and open, and   *)
(* given back however the closure ends.                                    *)

Lock(a) ==
    /\ pc[a] = "lock"
    /\ holder = {}
    /\ holder' = {a}
    /\ pc' = [pc EXCEPT ![a] = "read"]
    /\ UNCHANGED <<client, knobs, recorded, floor, before, decided, unknown, reported>>

\* The closure returns or unwinds: its locals go with it.
Release(a) ==
    /\ holder' = {}
    /\ pc' = [pc EXCEPT ![a] = "idle"]
    /\ floor' = [floor EXCEPT ![a] = {}]
    /\ before' = [before EXCEPT ![a] = EngineOwn]

-----------------------------------------------------------------------------
(* at_open.rs: establish_free_disk_floor *)

\* The engine is up and its sessions are open: the floor asked for is next.
BeginEstablish(r) ==
    /\ client = "none"
    /\ client' = "opening"
    /\ pc' = [pc EXCEPT ![Opener] = "lock"]
    /\ floor' = [floor EXCEPT ![Opener] = r]
    /\ decided' = Asked(r)
    /\ unknown' = FALSE
    /\ UNCHANGED <<knobs, recorded, holder, before, reported>>

\* A failure fails the open: the client is dropped, the engine closes behind
\* it, and a floor half applied is not put back.
Abandon ==
    /\ client = "opening"
    /\ Release(Opener)
    /\ client' = "none"
    /\ UNCHANGED <<knobs, recorded, decided, unknown, reported>>

\* (Slip: the engine is asked again at every open, when an
\* earlier client has moved the floors.)
Recorded_EveryOpen == {Read}

\* EngineFloorDefaults::of: asked of the engine the first time only.
Recorded == IF recorded = {} THEN {Read} ELSE recorded

Defaults ==
    /\ client = "opening"
    /\ pc[Opener] = "read"
    /\ recorded' = Recorded
    /\ pc' = [pc EXCEPT ![Opener] = "first"]
    /\ UNCHANGED <<client, knobs, holder, floor, before, decided, unknown, reported>>

DefaultsUnread ==
    /\ pc[Opener] = "read"
    /\ recorded = {}
    /\ Abandon

\* The pair send() is handed: the caller's floor, or what was recorded.
ToSend ==
    IF floor[Opener] = {} THEN CHOOSE p \in recorded : TRUE ELSE Asked(floor[Opener])

SendFirst ==
    /\ client = "opening"
    /\ pc[Opener] = "first"
    /\ knobs' = [knobs EXCEPT !.indexBuild = ToSend.indexBuild]
    /\ pc' = [pc EXCEPT ![Opener] = "second"]
    /\ UNCHANGED <<client, recorded, holder, floor, before, decided, unknown, reported>>

SendSecond ==
    /\ client = "opening"
    /\ pc[Opener] = "second"
    /\ knobs' = [knobs EXCEPT !.querySpilling = ToSend.querySpilling]
    /\ Release(Opener)
    /\ client' = "established"
    /\ UNCHANGED <<recorded, decided, unknown, reported>>

SendRefused ==
    /\ pc[Opener] \in {"first", "second"}
    /\ Abandon

\* Client::open returns: other threads may reach the client from here on.
HandOver ==
    /\ client = "established"
    /\ client' = "open"
    /\ UNCHANGED <<knobs, recorded, holder, pc, floor, before, decided, unknown, reported>>

-----------------------------------------------------------------------------
(* process.rs: ProcessLimits *)

SetFreeDiskFloor(t, f) ==
    /\ client = "open"
    /\ pc[t] = "idle"
    /\ pc' = [pc EXCEPT ![t] = "lock"]
    /\ floor' = [floor EXCEPT ![t] = {f}]
    /\ UNCHANGED <<client, knobs, recorded, holder, before, decided, unknown, reported>>

ReadBefore(t) ==
    /\ pc[t] = "read"
    /\ before' = [before EXCEPT ![t] = Read]
    /\ pc' = [pc EXCEPT ![t] = "first"]
    /\ UNCHANGED <<client, knobs, recorded, holder, floor, decided, unknown, reported>>

MoveIndexBuild(t) ==
    /\ pc[t] = "first"
    /\ knobs' = [knobs EXCEPT !.indexBuild = Asked(floor[t]).indexBuild]
    /\ pc' = [pc EXCEPT ![t] = "second"]
    /\ UNCHANGED <<client, recorded, holder, floor, before, decided, unknown, reported>>

\* The read refused, or the first command: nothing has moved yet.
MoveRefused(t) ==
    /\ pc[t] \in {"read", "first"}
    /\ Release(t)
    /\ UNCHANGED <<client, knobs, recorded, decided, unknown, reported>>

MoveQuerySpilling(t) ==
    /\ pc[t] = "second"
    /\ knobs' = [knobs EXCEPT !.querySpilling = Asked(floor[t]).querySpilling]
    /\ Release(t)
    /\ decided' = Asked(floor[t])
    /\ unknown' = FALSE
    /\ UNCHANGED <<client, recorded, reported>>

MoveSpillingRefused(t) ==
    /\ pc[t] = "second"
    /\ pc' = [pc EXCEPT ![t] = "putback"]
    /\ UNCHANGED <<client, knobs, recorded, holder, floor, before, decided, unknown, reported>>

\* The call fails with the refusal it met, and the floors are as they were.
PutBack(t) ==
    /\ pc[t] = "putback"
    /\ knobs' = [knobs EXCEPT !.indexBuild = before[t].indexBuild]
    /\ Release(t)
    /\ UNCHANGED <<client, recorded, decided, unknown, reported>>

\* Error::FreeDiskFloorNotRestored.
PutBackRefused(t) ==
    /\ pc[t] = "putback"
    /\ Release(t)
    /\ unknown' = TRUE
    /\ UNCHANGED <<client, knobs, recorded, decided, reported>>

\* A panic under the lock: the lock is taken back rather than left poisoned,
\* and the pair stays where the panic found it.
Panic(t) ==
    /\ pc[t] \in {"read", "first", "second", "putback"}
    /\ Release(t)
    /\ unknown' = (unknown \/ pc[t] \in {"second", "putback"})
    /\ UNCHANGED <<client, knobs, recorded, decided, reported>>

\* (Slip: the read does not take FloorMoves.)
FreeDiskFloors_Unlocked(t) ==
    /\ client = "open"
    /\ pc[t] = "idle"
    /\ reported' = IF unknown THEN {} ELSE {Read}
    /\ UNCHANGED <<client, knobs, recorded, holder, pc, floor, before, decided, unknown>>

\* free_disk_floors: one command, under the lock a move holds.
FreeDiskFloors(t) ==
    /\ client = "open"
    /\ pc[t] = "idle"
    /\ holder = {}
    /\ reported' = IF unknown THEN {} ELSE {Read}
    /\ UNCHANGED <<client, knobs, recorded, holder, pc, floor, before, decided, unknown>>

-----------------------------------------------------------------------------
(* The life of the client and of the process *)

\* Closed or dropped: nothing borrows it any more, and the floors stay.
CloseClient ==
    /\ client = "open"
    /\ \A t \in Threads : pc[t] = "idle"
    /\ client' = "none"
    /\ reported' = {}
    /\ UNCHANGED <<knobs, recorded, holder, pc, floor, before, decided, unknown>>

\* The process dies, at any point, and a new one starts.
NewProcess ==
    /\ client' = "none"
    /\ knobs' = EngineOwn
    /\ recorded' = {}
    /\ holder' = {}
    /\ pc' = [a \in Actors |-> "idle"]
    /\ floor' = [a \in Actors |-> {}]
    /\ before' = [a \in Actors |-> EngineOwn]
    /\ decided' = EngineOwn
    /\ unknown' = FALSE
    /\ reported' = {}

Establish == Lock(Opener) \/ Defaults \/ DefaultsUnread \/ SendFirst \/ SendSecond \/ SendRefused

Mover(t) ==
    \/ \E f \in Floors : SetFreeDiskFloor(t, f)
    \/ Lock(t)
    \/ ReadBefore(t)
    \/ MoveRefused(t)
    \/ MoveIndexBuild(t)
    \/ MoveQuerySpilling(t)
    \/ MoveSpillingRefused(t)
    \/ PutBack(t)
    \/ PutBackRefused(t)
    \/ Panic(t)
    \/ FreeDiskFloors(t)

\* An open names no floor, or one of Floors.
Requests == {{}} \cup {{f} : f \in Floors}

FloorNext ==
    \/ \E r \in Requests : BeginEstablish(r)
    \/ Establish
    \/ HandOver
    \/ \E t \in Threads : Mover(t)
    \/ CloseClient
    \/ NewProcess

FloorSpec == FloorInit /\ [][FloorNext]_floorVars

-----------------------------------------------------------------------------
(* What the floors promise *)

\* Whenever nobody is inside FloorMoves, an engine that an open has finished
\* with runs on the pair the last successful call announced: the floor the
\* open named, MongoDB's own where it named none, or the last floor set.  A
\* move that failed left the pair as it was, unless it reported
\* FreeDiskFloorNotRestored (or panicked).  Neither a client closed earlier in
\* this process nor a half-finished open shows through.
FloorAsDecided ==
    (client \in {"established", "open"} /\ holder = {} /\ ~unknown) => knobs = decided

\* free_disk_floors answers MongoDB's own pair or one that a caller named,
\* never the pair a mover is half way through.
ReportsWholePairs ==
    reported \subseteq {EngineOwn} \cup {FloorCommands(f) : f \in Floors}

=============================================================================

--------------------------- MODULE WorkerPoolCounts ---------------------------
(***************************************************************************)
(* The inductive invariant of WorkerPool, for any jobs, threads, floor and *)
(* ceiling, and its proof for the threads: the one that opens the engine and *)
(* the workers.  WorkerPoolProofs has the rest of the proof and the theorems. *)
(*                                                                         *)
(* PoolInv speaks of the threads and tasks through how many of them are    *)
(* where, so that a step of one of them is a matter of counting: ThreadMoves *)
(* and CallerMoves say what a move does to every count, and each action is *)
(* arithmetic from there.                                                  *)
(***************************************************************************)
EXTENDS WorkerPool, FiniteSetTheorems, TLAPS

\* The states of the thread that opens the engine, and of a retirement.
OpenerStates == {"opening", "flooring", "floorSpawn", "reporting"}
Leaving      == {"deposit", "decrement", "last"}

\* How many threads and tasks are where.
nWorking  == Cardinality(In(ThreadStates \ {"absent", "opening"}))
nStaying  == Cardinality(In(ThreadStates \ ({"absent", "opening"} \cup Leaving)))
nComing   == Cardinality(In({"flooring", "floorSpawn", "reporting", "starting"}))
nFloor    == Cardinality(In({"floorSpawn"}))
nIdle     == Cardinality(In({"woken", "parked", "timed"}))
nReady    == Cardinality(In({"ready"}))
nWoken    == Cardinality(In({"woken"}))
nLeaving  == Cardinality(In({"deposit", "decrement"}))
nReserved == Cardinality(At({"notifySpawn", "spawning"}))
nNotify   == Cardinality(At({"notify", "notifySpawn"}))
nAnswers  == Cardinality(At({"deposit", "decrement"}))

CountsInv ==
  /\ pending = nReserved + nFloor + nComing
  /\ idle = nIdle
  /\ phase # "Closing" => alive = nWorking + nReserved + nFloor
  /\ phase = "Closing" => /\ Stops = nReserved + nFloor + nStaying
                          /\ remaining = Stops + nLeaving + nAnswers
  /\ nReserved <= alive

\* One thread opens the engine, and until it has reported nobody dispatches.
OpenerInv ==
  /\ \A t, u \in Threads :
       thread[t] \in OpenerStates /\ thread[u] \in OpenerStates => t = u
  /\ \A t \in Threads :
       /\ thread[t] \in OpenerStates => opened = "waiting"
       /\ thread[t] \in OpenerStates \ {"reporting"} => ~shared
       /\ thread[t] = "opening" => alive = 0 /\ floorLeft = Min - 1
       /\ thread[t] = "reporting" => floorLeft = 0
  /\ opened # "ok" => queue = <<>> /\ phase # "Closing"
  /\ opened = "waiting" => alive + floorLeft <= Min

\* Only a close queues stops, behind every job, and only a stop retires; what a
\* worker runs is a job.
StopsInv ==
  /\ phase # "Closing" =>
       /\ \A i \in 1..Len(queue) : queue[i] # Stop
       /\ \A t \in Threads : thread[t] \notin Leaving
       /\ \A j \in Jobs : caller[j] \notin Leaving
  /\ \A i, k \in 1..Len(queue) : queue[i] = Stop /\ i < k => queue[k] = Stop
  /\ \A t \in Threads : thread[t] = "running" => job[t] \in Jobs

CeilingInv ==
  /\ nWorking + nReserved + nFloor <= Max
  /\ phase # "Closing" => alive <= Max

\* What the open could not start is all the floor may lack, then and later.
FloorInv ==
  phase = "Open" =>
    /\ opened = "ok" => nWorking >= Min - short
    /\ opened = "waiting" /\ (\A t \in Threads : thread[t] # "opening") =>
         nWorking + floorLeft + nFloor >= Min - short

BurstInv ==
  phase = "Open" /\ shared /\ ~failures =>
    alive >= Max \/ Len(queue) <= idle + pending + nReady

WakeupInv ==
  Parked # {} /\ ender # "notify" => Len(queue) <= nNotify + nWoken

PoolInv == /\ TypeOK /\ CountsInv /\ OpenerInv /\ StopsInv /\ CeilingInv
           /\ FloorInv /\ BurstInv /\ WakeupInv

--------------------------------------------------------------------------------
(* Counting *)

\* One if x is in S, else nothing.
Has(S, x) == IF x \in S THEN 1 ELSE 0

\* Two sets that differ at most in d differ in size by d alone.
LEMMA CountMove ==
  ASSUME NEW A, NEW B, NEW d, IsFiniteSet(A), A \ {d} = B \ {d}
  PROVE  Cardinality(B) = Cardinality(A) - Has(A, d) + Has(B, d)
<1> DEFINE R == A \ {d}
<1>1. /\ IsFiniteSet(R) /\ Cardinality(A) \in Nat
      /\ Cardinality(R) = IF d \in A THEN Cardinality(A) - 1 ELSE Cardinality(A)
    BY FS_RemoveElement, FS_CardinalityType
<1>2. CASE d \in B
    <2>1. B = R \cup {d}
        BY <1>2
    <2>2. Cardinality(B) = Cardinality(R) + 1
        BY <1>1, <2>1, FS_AddElement
    <2> QED
        BY <1>1, <1>2, <2>2 DEF Has
<1>3. CASE d \notin B
    <2>1. B = R
        BY <1>3
    <2> QED
        BY <1>1, <1>3, <2>1 DEF Has
<1> QED
    BY <1>2, <1>3

CountsOK ==
  /\ nWorking \in Nat /\ nStaying \in Nat /\ nComing \in Nat /\ nFloor \in Nat
  /\ nIdle \in Nat /\ nReady \in Nat /\ nWoken \in Nat /\ nLeaving \in Nat
  /\ nReserved \in Nat /\ nNotify \in Nat /\ nAnswers \in Nat

\* The counts are natural numbers, before a step and after it.
LEMMA CountsTyped == CountsOK
<1>1. \A S : Cardinality(In(S)) \in Nat
    BY FiniteAssumption, FS_Subset, FS_CardinalityType DEF In
<1>2. \A S : Cardinality(At(S)) \in Nat
    BY FiniteAssumption, FS_Subset, FS_CardinalityType DEF At
<1> QED
    BY <1>1, <1>2
       DEF CountsOK, nWorking, nStaying, nComing, nFloor, nIdle, nReady, nWoken,
           nLeaving, nReserved, nNotify, nAnswers

\* CountsTyped of the state a step leads to.
LEMMA CountsTypedNext == CountsOK'
BY CountsTyped, PTL

\* What the move of one thread does to the counts.
Moved(a, b) ==
  /\ nWorking' = nWorking - Has(ThreadStates \ {"absent", "opening"}, a)
       + Has(ThreadStates \ {"absent", "opening"}, b)
  /\ nStaying' = nStaying
       - Has(ThreadStates \ ({"absent", "opening"} \cup Leaving), a)
       + Has(ThreadStates \ ({"absent", "opening"} \cup Leaving), b)
  /\ nComing' = nComing
       - Has({"flooring", "floorSpawn", "reporting", "starting"}, a)
       + Has({"flooring", "floorSpawn", "reporting", "starting"}, b)
  /\ nFloor' = nFloor - Has({"floorSpawn"}, a) + Has({"floorSpawn"}, b)
  /\ nIdle' = nIdle - Has({"woken", "parked", "timed"}, a)
       + Has({"woken", "parked", "timed"}, b)
  /\ nReady' = nReady - Has({"ready"}, a) + Has({"ready"}, b)
  /\ nWoken' = nWoken - Has({"woken"}, a) + Has({"woken"}, b)
  /\ nLeaving' = nLeaving - Has({"deposit", "decrement"}, a)
       + Has({"deposit", "decrement"}, b)

\* A thread goes from one state to another.
LEMMA ThreadMoves ==
  ASSUME TypeOK, NEW t \in Threads, NEW b, thread' = [thread EXCEPT ![t] = b]
  PROVE  Moved(thread[t], b)
<1>1. ASSUME NEW S
      PROVE  Cardinality(In(S))' = Cardinality(In(S)) - Has(S, thread[t]) + Has(S, b)
    <2>1. IsFiniteSet(In(S))
        BY FiniteAssumption, FS_Subset DEF In
    <2>2. In(S) \ {t} = In(S)' \ {t}
        BY DEF TypeOK, In
    <2>3. Cardinality(In(S)') = Cardinality(In(S)) - Has(In(S), t) + Has(In(S)', t)
        BY <2>1, <2>2, CountMove
    <2>4. Has(In(S), t) = Has(S, thread[t]) /\ Has(In(S)', t) = Has(S, b)
        BY DEF TypeOK, In, Has
    <2> QED
        BY <2>3, <2>4
<1> QED
    BY <1>1 DEF Moved, nWorking, nStaying, nComing, nFloor, nIdle, nReady, nWoken, nLeaving

\* What the move of one task does to them.
CallerMoved(a, b) ==
  /\ nReserved' = nReserved - Has({"notifySpawn", "spawning"}, a)
       + Has({"notifySpawn", "spawning"}, b)
  /\ nNotify' = nNotify - Has({"notify", "notifySpawn"}, a)
       + Has({"notify", "notifySpawn"}, b)
  /\ nAnswers' = nAnswers - Has({"deposit", "decrement"}, a)
       + Has({"deposit", "decrement"}, b)

\* A task goes from one state to another.
LEMMA CallerMoves ==
  ASSUME TypeOK, NEW j \in Jobs, NEW b, caller' = [caller EXCEPT ![j] = b]
  PROVE  CallerMoved(caller[j], b)
<1>1. ASSUME NEW S
      PROVE  Cardinality(At(S))' = Cardinality(At(S)) - Has(S, caller[j]) + Has(S, b)
    <2>1. IsFiniteSet(At(S))
        BY FiniteAssumption, FS_Subset DEF At
    <2>2. At(S) \ {j} = At(S)' \ {j}
        BY DEF TypeOK, At
    <2>3. Cardinality(At(S)') = Cardinality(At(S)) - Has(At(S), j) + Has(At(S)', j)
        BY <2>1, <2>2, CountMove
    <2>4. Has(At(S), j) = Has(S, caller[j]) /\ Has(At(S)', j) = Has(S, b)
        BY DEF TypeOK, At, Has
    <2> QED
        BY <2>3, <2>4
<1> QED
    BY <1>1 DEF CallerMoved, nReserved, nNotify, nAnswers

\* Whoever does not move is counted as before.
LEMMA ThreadsStay ==
  ASSUME UNCHANGED thread
  PROVE  UNCHANGED <<nWorking, nStaying, nComing, nFloor, nIdle, nReady, nWoken,
                     nLeaving, Parked>>
BY DEF nWorking, nStaying, nComing, nFloor, nIdle, nReady, nWoken, nLeaving, In, Parked

\* The same for the tasks.
LEMMA CallersStay ==
  ASSUME UNCHANGED caller
  PROVE  UNCHANGED <<nReserved, nNotify, nAnswers>>
BY DEF nReserved, nNotify, nAnswers, At

\* With no thread starting a floor worker, none is counted.
LEMMA NoFloor ==
  ASSUME \A t \in Threads : thread[t] # "floorSpawn"
  PROVE  nFloor = 0
<1>1. In({"floorSpawn"}) = {}
    BY DEF In
<1> QED
    BY <1>1, FS_EmptySet DEF nFloor

\* With nobody retiring, every worker stays.
LEMMA NobodyLeaves ==
  ASSUME TypeOK, \A t \in Threads : thread[t] \notin Leaving,
         \A j \in Jobs : caller[j] \notin Leaving
  PROVE  nStaying = nWorking /\ nLeaving = 0 /\ nAnswers = 0
<1>1. In(ThreadStates \ ({"absent", "opening"} \cup Leaving))
        = In(ThreadStates \ {"absent", "opening"})
    BY DEF In
<1>2. In({"deposit", "decrement"}) = {} /\ At({"deposit", "decrement"}) = {}
    BY DEF In, At, Leaving
<1> QED
    BY <1>1, <1>2, FS_EmptySet DEF nStaying, nWorking, nLeaving, nAnswers

--------------------------------------------------------------------------------
(* The stops in the queue *)

StopsIn(q) == {i \in 1..Len(q) : q[i] = Stop}

\* There are finitely many, and none exactly if no entry is one.
LEMMA StopsTyped ==
  ASSUME NEW q \in Seq(Jobs \cup {Stop})
  PROVE  /\ IsFiniteSet(StopsIn(q)) /\ Cardinality(StopsIn(q)) \in Nat
         /\ Cardinality(StopsIn(q)) = 0 <=> StopsIn(q) = {}
<1>1. IsFiniteSet(1..Len(q))
    BY FS_Interval
<1>2. IsFiniteSet(StopsIn(q))
    BY <1>1, FS_Subset DEF StopsIn
<1> QED
    BY <1>2, FS_CardinalityType, FS_EmptySet

\* Taking the head takes a stop exactly if it is one.
LEMMA StopsOfTail ==
  ASSUME NEW q \in Seq(Jobs \cup {Stop}), q # <<>>
  PROVE  Cardinality(StopsIn(Tail(q))) = Cardinality(StopsIn(q)) - Has({Stop}, Head(q))
<1> DEFINE A == StopsIn(q) \ {1}
           B == StopsIn(Tail(q))
           f == [i \in A |-> i - 1]
<1>1. IsFiniteSet(A) /\ Cardinality(A) = Cardinality(StopsIn(q)) - Has({Stop}, Head(q))
    <2>1. 1 \in StopsIn(q) <=> Head(q) = Stop
        BY DEF StopsIn
    <2> QED
        BY <2>1, StopsTyped, FS_RemoveElement DEF Has
<1>2. f \in Bijection(A, B)
    <2>1. \A i \in A : i - 1 \in B
        BY DEF StopsIn
    <2>2. \A k \in B : k + 1 \in A /\ f[k + 1] = k
        BY DEF StopsIn
    <2>3. \A i, k \in A : f[i] = f[k] => i = k
        BY DEF StopsIn
    <2> QED
        BY Zenon, <2>1, <2>2, <2>3 DEF Bijection, Injection, Surjection, IsInjective
<1>3. Cardinality(B) = Cardinality(A)
    BY <1>1, <1>2, FS_Bijection DEF ExistsBijection
<1> QED
    BY <1>1, <1>3

\* Taking a stop back off the end takes one.
LEMMA StopsOfFront ==
  ASSUME NEW q \in Seq(Jobs \cup {Stop}), q # <<>>, q[Len(q)] = Stop
  PROVE  Cardinality(StopsIn(SubSeq(q, 1, Len(q) - 1))) = Cardinality(StopsIn(q)) - 1
<1>1. Len(q) \in Nat \ {0}
    OBVIOUS
<1>2. StopsIn(SubSeq(q, 1, Len(q) - 1)) = StopsIn(q) \ {Len(q)}
    BY <1>1 DEF StopsIn
<1>3. Len(q) \in StopsIn(q)
    BY <1>1 DEF StopsIn
<1> QED
    BY <1>2, <1>3, StopsTyped, FS_RemoveElement

\* Behind jobs alone, n stops are n stops.
LEMMA StopsOfClose ==
  ASSUME NEW q \in Seq(Jobs \cup {Stop}), \A i \in 1..Len(q) : q[i] # Stop, NEW n \in Nat
  PROVE  Cardinality(StopsIn(q \o [i \in 1..n |-> Stop])) = n
<1> DEFINE s == [i \in 1..n |-> Stop]
<1>1. s \in Seq({Stop}) /\ Len(s) = n
    OBVIOUS
<1>2. /\ Len(q \o s) = Len(q) + n
      /\ \A i \in 1..(Len(q) + n) :
           (q \o s)[i] = IF i <= Len(q) THEN q[i] ELSE s[i - Len(q)]
    BY <1>1
<1>3. StopsIn(q \o s) = (Len(q) + 1)..(Len(q) + n)
    BY <1>1, <1>2 DEF StopsIn
<1> QED
    BY <1>3, FS_Interval

\* The numbers of the pool, all of them natural.
Numbers ==
  /\ alive \in Nat /\ pending \in Nat /\ idle \in Nat /\ floorLeft \in Nat
  /\ remaining \in Nat /\ short \in Nat /\ Len(queue) \in Nat /\ Stops \in Nat
  /\ Min \in Nat /\ Max \in Nat /\ 1 <= Min /\ Min <= Max
  /\ CountsOK /\ CountsOK'

\* They are.
LEMMA NumbersTyped ==
  ASSUME TypeOK
  PROVE  Numbers
<1>1. Stops \in Nat
    BY Zenon, StopsTyped DEF TypeOK, Stops, StopsIn
<1> QED
    BY <1>1, LimitsAssumption, CountsTyped, CountsTypedNext DEF TypeOK, Numbers

--------------------------------------------------------------------------------
(* The opening thread keeps the invariant *)

\* Nothing was counted for a thread that could not open the engine.
LEMMA OpenFailsInv ==
  ASSUME PoolInv, NEW t \in Threads, OpenFails(t)
  PROVE  PoolInv'
<1>1. TypeOK /\ Numbers
    BY NumbersTyped DEF PoolInv
<1>2. Moved("opening", "absent")
    BY Zenon, <1>1, ThreadMoves DEF OpenFails
<1>3. /\ UNCHANGED <<nWorking, nStaying, nComing, nFloor, nIdle, nReady, nWoken,
                     nLeaving>>
    BY <1>2, <1>1 DEF Numbers, CountsOK, Moved, Has
<1>4. UNCHANGED <<nReserved, nNotify, nAnswers>>
    BY CallersStay DEF OpenFails
<1>5. UNCHANGED Stops
    BY DEF Stops, OpenFails, poolVars
<1>6. TypeOK'
    BY <1>1 DEF TypeOK, ThreadStates, OpenFails, poolVars, closeVars, history
<1>7. CountsInv'
    BY <1>3, <1>4 DEF PoolInv, CountsInv, OpenerInv, OpenerStates, OpenFails, poolVars
<1>8. OpenerInv'
    BY DEF PoolInv, OpenerInv, TypeOK, OpenerStates, OpenFails, poolVars
<1>9. StopsInv'
    BY DEF PoolInv, StopsInv, Leaving, OpenFails, poolVars
<1>10. CeilingInv'
    BY <1>3, <1>4 DEF PoolInv, CeilingInv, OpenFails, poolVars
<1>11. FloorInv'
    BY DEF FloorInv, OpenFails
<1>12. BurstInv'
    BY DEF PoolInv, BurstInv, OpenerInv, OpenerStates, OpenFails, poolVars
<1>13. WakeupInv'
    BY <1>3, <1>4 DEF PoolInv, WakeupInv, Parked, OpenFails, poolVars, closeVars
<1> QED
    BY <1>6, <1>7, <1>8, <1>9, <1>10, <1>11, <1>12, <1>13 DEF PoolInv

\* The opener is the first worker counted.
LEMMA OpensInv ==
  ASSUME PoolInv, NEW t \in Threads, Opens(t)
  PROVE  PoolInv'
<1>1. TypeOK /\ Numbers
    BY NumbersTyped DEF PoolInv
<1>2. Moved("opening", "flooring")
    BY Zenon, <1>1, ThreadMoves DEF Opens, Reserved
<1>3. /\ nWorking' = nWorking + 1
      /\ nStaying' = nStaying + 1
      /\ nComing' = nComing + 1
      /\ UNCHANGED <<nFloor, nIdle, nReady, nWoken, nLeaving>>
    BY <1>2, <1>1 DEF Numbers, CountsOK, Moved, Has, ThreadStates, Leaving
<1>4. UNCHANGED <<nReserved, nNotify, nAnswers>>
    BY CallersStay DEF Opens, Reserved
<1>5. UNCHANGED Stops
    BY DEF Stops, Opens, Reserved, poolVars
<1>6. TypeOK'
    BY <1>1 DEF TypeOK, ThreadStates, Opens, Reserved, openVars, closeVars, history
<1>7. CountsInv'
    BY <1>1, <1>3, <1>4
       DEF PoolInv, CountsInv, OpenerInv, Numbers, CountsOK, OpenerStates, Opens,
           Reserved
<1>8. OpenerInv'
    BY <1>1 DEF PoolInv, OpenerInv, Numbers, TypeOK, OpenerStates, Opens, Reserved, openVars
<1>9. StopsInv'
    BY DEF PoolInv, StopsInv, Leaving, Opens
<1>10. CeilingInv'
    BY <1>1, <1>3, <1>4
       DEF PoolInv, CeilingInv, CountsInv, OpenerInv, Numbers, CountsOK, OpenerStates,
           Opens, Reserved
<1>11. FloorInv'
    BY <1>1, <1>3
       DEF PoolInv, FloorInv, OpenerInv, Numbers, CountsOK, Opens, openVars, history
<1>12. BurstInv'
    BY DEF PoolInv, BurstInv, OpenerInv, OpenerStates, Opens, poolVars
<1>13. WakeupInv'
    BY <1>3, <1>4 DEF PoolInv, WakeupInv, Parked, Opens, closeVars
<1> QED
    BY <1>6, <1>7, <1>8, <1>9, <1>10, <1>11, <1>12, <1>13 DEF PoolInv

\* A floor worker is reserved before it is started.
LEMMA ReserveFloorInv ==
  ASSUME PoolInv, NEW t \in Threads, ReserveFloor(t)
  PROVE  PoolInv'
<1>1. TypeOK /\ Numbers
    BY NumbersTyped DEF PoolInv
<1>2. Moved("flooring", "floorSpawn")
    BY Zenon, <1>1, ThreadMoves DEF ReserveFloor, Reserved
<1>3. /\ nFloor' = nFloor + 1
      /\ UNCHANGED <<nWorking, nStaying, nComing, nIdle, nReady, nWoken, nLeaving>>
    BY <1>2, <1>1 DEF Numbers, CountsOK, Moved, Has, ThreadStates, Leaving
<1>4. UNCHANGED <<nReserved, nNotify, nAnswers>>
    BY CallersStay DEF ReserveFloor, Reserved
<1>5. UNCHANGED Stops
    BY DEF Stops, ReserveFloor, Reserved, poolVars
<1>6. TypeOK'
    BY <1>1 DEF TypeOK, ThreadStates, ReserveFloor, Reserved, closeVars, history
<1>7. CountsInv'
    BY <1>1, <1>3, <1>4
       DEF PoolInv, CountsInv, OpenerInv, Numbers, CountsOK, OpenerStates, ReserveFloor,
           Reserved
<1>8. OpenerInv'
    BY <1>1 DEF PoolInv, OpenerInv, Numbers, OpenerStates, ReserveFloor, Reserved
<1>9. StopsInv'
    BY DEF PoolInv, StopsInv, TypeOK, Leaving, ReserveFloor
<1>10. CeilingInv'
    BY <1>1, <1>3, <1>4
       DEF PoolInv, CeilingInv, CountsInv, OpenerInv, Numbers, CountsOK, OpenerStates,
           ReserveFloor, Reserved
<1>11. FloorInv'
    BY <1>1, <1>3 DEF PoolInv, FloorInv, Numbers, CountsOK, ReserveFloor, history
<1>12. BurstInv'
    BY DEF PoolInv, BurstInv, OpenerInv, OpenerStates, ReserveFloor, Reserved
<1>13. WakeupInv'
    BY <1>3, <1>4 DEF PoolInv, WakeupInv, Parked, ReserveFloor, closeVars
<1> QED
    BY <1>6, <1>7, <1>8, <1>9, <1>10, <1>11, <1>12, <1>13 DEF PoolInv

\* A floor worker starts, or its reservation is taken back and the floor is short of it.
LEMMA SpawnFloorInv ==
  ASSUME PoolInv, NEW t \in Threads, SpawnFloor(t)
  PROVE  PoolInv'
<1>1. TypeOK /\ Numbers
    BY NumbersTyped DEF PoolInv
<1> DEFINE Starts == /\ nWorking' = nWorking + 1 /\ nStaying' = nStaying + 1
                     /\ nComing' = nComing + 1
                     /\ alive' = alive /\ pending' = pending /\ short' = short
           Lacks == /\ nWorking' = nWorking /\ nStaying' = nStaying /\ nComing' = nComing
                    /\ alive' = alive - 1 /\ pending' = pending - 1 /\ short' = short + 1
<1>2. /\ nFloor' = nFloor - 1
      /\ UNCHANGED <<nIdle, nReady, nWoken, nLeaving>>
      /\ Starts \/ Lacks
    <2>1. CASE thread' = [thread EXCEPT ![t] = "flooring"] /\ alive' = alive - 1
                 /\ pending' = pending - 1 /\ short' = short + 1
        <3>1. Moved("floorSpawn", "flooring")
            BY Zenon, <1>1, <2>1, ThreadMoves DEF SpawnFloor
        <3> QED
            BY <1>1, <2>1, <3>1 DEF Numbers, CountsOK, Moved, Has, ThreadStates, Leaving
    <2>2. ASSUME NEW u \in Threads, thread[u] = "absent", UNCHANGED <<alive,
                                                                      pending, short>>,
                 thread' = [thread EXCEPT ![t] = "flooring", ![u] = "starting"]
          PROVE  /\ nFloor' = nFloor - 1
                 /\ UNCHANGED <<nIdle, nReady, nWoken, nLeaving>>
                 /\ nWorking' = nWorking + 1 /\ nStaying' = nStaying + 1 /\ nComing' = nComing + 1
        <3>1. /\ thread[t] = "floorSpawn" /\ t # u /\ thread'[t] = "flooring"
              /\ thread'[u] = "starting"
              /\ \A x \in Threads \ {t, u} : thread'[x] = thread[x]
            BY <1>1, <2>2 DEF SpawnFloor, TypeOK
        <3>2. \A S : IsFiniteSet(In(S))
            BY FiniteAssumption, FS_Subset DEF In
        <3>3. ASSUME NEW S, "floorSpawn" \in S, "flooring" \in S, "starting" \in S, "absent" \notin S
              PROVE  Cardinality(In(S)') = Cardinality(In(S)) + 1
            <4>1. In(S) \ {u} = In(S)' \ {u} /\ u \notin In(S) /\ u \in In(S)'
                BY Zenon, <2>2, <3>1, <3>3 DEF In
            <4>2. Cardinality(In(S)') = Cardinality(In(S)) - Has(In(S), u) + Has(In(S)', u)
                BY <3>2, <4>1, CountMove
            <4>3. Cardinality(In(S)) \in Nat
                BY <3>2, FS_CardinalityType
            <4> QED
                BY <4>1, <4>2, <4>3 DEF Has
        <3>4. nWorking' = nWorking + 1 /\ nStaying' = nStaying + 1 /\ nComing' = nComing + 1
            BY <3>3 DEF nWorking, nStaying, nComing, ThreadStates, Leaving
        <3>5. nFloor' = nFloor - 1
            <4>1. /\ In({"floorSpawn"}) \ {t} = In({"floorSpawn"})' \ {t}
                  /\ t \in In({"floorSpawn"}) /\ t \notin In({"floorSpawn"})'
                BY Zenon, <2>2, <3>1 DEF In
            <4>2. Cardinality(In({"floorSpawn"})') = Cardinality(In({"floorSpawn"}))
                     - Has(In({"floorSpawn"}), t) + Has(In({"floorSpawn"})', t)
                BY <3>2, <4>1, CountMove
            <4>3. Cardinality(In({"floorSpawn"})) \in Nat
                BY <3>2, FS_CardinalityType
            <4>4. Cardinality(In({"floorSpawn"})') = Cardinality(In({"floorSpawn"})) - 1
                BY <4>1, <4>2, <4>3 DEF Has
            <4> QED
                BY <4>4 DEF nFloor
        <3>6. UNCHANGED <<nIdle, nReady, nWoken, nLeaving>>
            <4>1. ASSUME NEW S, {"floorSpawn", "flooring", "starting", "absent"} \cap S = {}
                  PROVE  In(S)' = In(S)
                BY Zenon, <2>2, <3>1, <4>1 DEF In
            <4> QED
                BY <4>1 DEF nIdle, nReady, nWoken, nLeaving
        <3> QED
            BY <3>4, <3>5, <3>6
    <2> QED
        BY <2>1, <2>2 DEF SpawnFloor
<1>3. UNCHANGED <<nReserved, nNotify, nAnswers>>
    BY CallersStay DEF SpawnFloor
<1>4. UNCHANGED <<Stops, idle, phase, shared, remaining>>
    BY DEF Stops, SpawnFloor, closeVars
<1>5. phase # "Closing"
    BY DEF PoolInv, OpenerInv, OpenerStates, SpawnFloor
<1>6. alive' \in Nat /\ pending' \in Nat /\ short' \in Nat
    BY <1>1, <1>2, <1>5 DEF PoolInv, CountsInv, Numbers, CountsOK
<1>20. TypeOK'
    BY <1>1, <1>6 DEF TypeOK, ThreadStates, SpawnFloor, openVars, closeVars
<1>21. CountsInv'
    <2>1. CASE Starts
        BY <1>1, <1>2, <1>3, <1>4, <2>1 DEF PoolInv, CountsInv, Numbers, CountsOK
    <2>2. CASE Lacks
        BY <1>1, <1>2, <1>3, <1>4, <1>5, <2>2 DEF PoolInv, CountsInv, Numbers, CountsOK
    <2> QED
        BY <1>2, <2>1, <2>2
<1>22. OpenerInv'
    BY <1>1
       DEF PoolInv, OpenerInv, Numbers, TypeOK, OpenerStates, SpawnFloor, openVars,
           closeVars
<1>23. StopsInv'
    BY DEF PoolInv, StopsInv, TypeOK, Leaving, SpawnFloor
<1>24. CeilingInv'
    <2>1. CASE Starts
        BY <1>1, <1>2, <1>3, <1>4, <2>1 DEF PoolInv, CeilingInv, Numbers, CountsOK
    <2>2. CASE Lacks
        BY <1>1, <1>2, <1>3, <1>4, <2>2 DEF PoolInv, CeilingInv, Numbers, CountsOK
    <2> QED
        BY <1>2, <2>1, <2>2
<1>25. FloorInv'
    BY <1>1, <1>2, <1>3
       DEF PoolInv, FloorInv, CountsInv, OpenerInv, Numbers, CountsOK, TypeOK,
           SpawnFloor, openVars, closeVars
<1>26. BurstInv'
    BY DEF PoolInv, BurstInv, OpenerInv, OpenerStates, SpawnFloor, openVars
<1>27. WakeupInv'
    BY <1>2, <1>3 DEF PoolInv, WakeupInv, Parked, TypeOK, SpawnFloor, closeVars
<1> QED
    BY <1>20, <1>21, <1>22, <1>23, <1>24, <1>25, <1>26, <1>27 DEF PoolInv

\* Nothing is queued before the handle is published.
LEMMA PublishInv ==
  ASSUME PoolInv, NEW t \in Threads, Publish(t)
  PROVE  PoolInv'
<1>1. TypeOK /\ Numbers
    BY NumbersTyped DEF PoolInv
<1>2. Moved("flooring", "reporting")
    BY Zenon, <1>1, ThreadMoves DEF Publish, PublishIf
<1>3. /\ UNCHANGED <<nWorking, nStaying, nComing, nFloor, nIdle, nReady, nWoken,
                     nLeaving>>
    BY <1>2, <1>1 DEF Numbers, CountsOK, Moved, Has, ThreadStates, Leaving
<1>4. UNCHANGED <<nReserved, nNotify, nAnswers>>
    BY CallersStay DEF Publish, PublishIf
<1>5. UNCHANGED Stops
    BY DEF Stops, Publish, PublishIf, poolVars
<1>6. TypeOK'
    BY <1>1 DEF TypeOK, ThreadStates, Publish, PublishIf, openVars, closeVars, history
<1>7. CountsInv'
    BY <1>3, <1>4 DEF PoolInv, CountsInv, OpenerInv, OpenerStates, Publish, PublishIf
<1>8. OpenerInv'
    BY DEF PoolInv, OpenerInv, TypeOK, OpenerStates, Publish, PublishIf, openVars
<1>9. StopsInv'
    BY DEF PoolInv, StopsInv, Leaving, Publish, PublishIf
<1>10. CeilingInv'
    BY <1>3, <1>4 DEF PoolInv, CeilingInv, Publish, PublishIf
<1>11. FloorInv'
    BY <1>3 DEF PoolInv, FloorInv, Publish, PublishIf, openVars, history
<1>12. BurstInv'
    BY <1>1, <1>3
       DEF PoolInv, BurstInv, OpenerInv, Numbers, CountsOK, OpenerStates, Publish,
           PublishIf
<1>13. WakeupInv'
    BY <1>3, <1>4 DEF PoolInv, WakeupInv, Parked, Publish, PublishIf, closeVars
<1> QED
    BY <1>6, <1>7, <1>8, <1>9, <1>10, <1>11, <1>12, <1>13 DEF PoolInv

\* Once reported, the floor stands but for what could not be started.
LEMMA ReportInv ==
  ASSUME PoolInv, NEW t \in Threads, Report(t)
  PROVE  PoolInv'
<1>1. TypeOK /\ Numbers
    BY NumbersTyped DEF PoolInv
<1>2. Moved("reporting", "starting")
    BY Zenon, <1>1, ThreadMoves DEF Report
<1>3. /\ UNCHANGED <<nWorking, nStaying, nComing, nFloor, nIdle, nReady, nWoken,
                     nLeaving>>
    BY <1>2, <1>1 DEF Numbers, CountsOK, Moved, Has, ThreadStates, Leaving
<1>4. UNCHANGED <<nReserved, nNotify, nAnswers>>
    BY CallersStay DEF Report
<1>5. UNCHANGED Stops
    BY DEF Stops, Report, poolVars
<1>6. TypeOK'
    BY <1>1 DEF TypeOK, ThreadStates, Report, poolVars, closeVars, history
<1>7. CountsInv'
    BY <1>3, <1>4 DEF PoolInv, CountsInv, OpenerInv, OpenerStates, Report, poolVars
<1>8. OpenerInv'
    BY Zenon DEF PoolInv, OpenerInv, TypeOK, OpenerStates, Report
<1>9. StopsInv'
    BY DEF PoolInv, StopsInv, Leaving, Report, poolVars
<1>10. CeilingInv'
    BY <1>3, <1>4 DEF PoolInv, CeilingInv, Report, poolVars
<1>11. FloorInv'
    <2>1. nFloor = 0
        <3>1. \A u \in Threads : thread[u] # "floorSpawn"
            BY DEF PoolInv, OpenerInv, OpenerStates, Report
        <3> QED
            BY <3>1, NoFloor
    <2>2. /\ thread[t] = "reporting" /\ opened = "waiting" /\ floorLeft = 0
          /\ \A u \in Threads : thread[u] # "opening"
        BY DEF PoolInv, OpenerInv, OpenerStates, Report
    <2> QED
        BY <1>1, <1>3, <2>1, <2>2
           DEF PoolInv, FloorInv, Numbers, CountsOK, Report, poolVars, history
<1>12. BurstInv'
    BY <1>1, <1>3
       DEF PoolInv, BurstInv, OpenerInv, Numbers, CountsOK, OpenerStates, Report,
           poolVars, closeVars
<1>13. WakeupInv'
    BY <1>3, <1>4 DEF PoolInv, WakeupInv, Parked, Report, poolVars, closeVars
<1> QED
    BY <1>6, <1>7, <1>8, <1>9, <1>10, <1>11, <1>12, <1>13 DEF PoolInv

--------------------------------------------------------------------------------
(* A worker between jobs keeps the invariant *)

\* A worker that arrives is no longer pending.
LEMMA ArriveInv ==
  ASSUME PoolInv, NEW t \in Threads, Arrive(t)
  PROVE  PoolInv'
<1>1. TypeOK /\ Numbers
    BY NumbersTyped DEF PoolInv
<1>2. Moved("starting", "ready")
    BY Zenon, <1>1, ThreadMoves DEF Arrive
<1>3. /\ nComing' = nComing - 1
      /\ nReady' = nReady + 1
      /\ UNCHANGED <<nWorking, nStaying, nFloor, nIdle, nWoken, nLeaving>>
    BY <1>2, <1>1 DEF Numbers, CountsOK, Moved, Has, ThreadStates, Leaving
<1>4. UNCHANGED <<nReserved, nNotify, nAnswers>>
    BY CallersStay DEF Arrive
<1>5. UNCHANGED Stops
    BY DEF Stops, Arrive, poolVars
<1>6. TypeOK'
    BY <1>1, <1>3
       DEF PoolInv, TypeOK, CountsInv, Numbers, CountsOK, ThreadStates, Arrive,
           openVars, closeVars, history
<1>7. CountsInv'
    BY <1>1, <1>3, <1>4, <1>5
       DEF PoolInv, CountsInv, OpenerInv, StopsInv, Numbers, CountsOK, Arrive, closeVars
<1>8. OpenerInv'
    BY DEF PoolInv, OpenerInv, OpenerStates, Arrive, openVars
<1>9. StopsInv'
    BY DEF PoolInv, StopsInv, TypeOK, Leaving, Arrive
<1>10. CeilingInv'
    BY <1>3, <1>4 DEF PoolInv, CeilingInv, Arrive
<1>11. FloorInv'
    BY <1>3 DEF PoolInv, FloorInv, Arrive, openVars, history
<1>12. BurstInv'
    BY <1>1, <1>3 DEF PoolInv, BurstInv, Numbers, CountsOK, Arrive, openVars, history
<1>13. WakeupInv'
    BY <1>3, <1>4 DEF PoolInv, WakeupInv, Parked, Arrive, closeVars
<1> QED
    BY <1>6, <1>7, <1>8, <1>9, <1>10, <1>11, <1>12, <1>13 DEF PoolInv

\* A worker takes what is at the head: a job, or the stop meant for one worker.
LEMMA TakeJobInv ==
  ASSUME PoolInv, NEW t \in Threads, TakeJob(t)
  PROVE  PoolInv'
<1>1. TypeOK /\ Numbers
    BY NumbersTyped DEF PoolInv
<1>2. /\ thread[t] \in {"ready", "woken"}
      /\ \/ Head(queue) = Stop /\ Moved(thread[t], "deposit")
         \/ Head(queue) # Stop /\ Moved(thread[t], "running")
    BY Zenon, <1>1, ThreadMoves DEF TakeJob, InLoop
<1>3. /\ nIdle' = nIdle - Has({"woken"}, thread[t])
      /\ nReady' = nReady - Has({"ready"}, thread[t])
      /\ nWoken' = nWoken - Has({"woken"}, thread[t])
      /\ nStaying' = nStaying - Has({Stop}, Head(queue))
      /\ nLeaving' = nLeaving + Has({Stop}, Head(queue))
      /\ UNCHANGED <<nWorking, nComing, nFloor>>
    <2>1. CASE Head(queue) = Stop /\ Moved(thread[t], "deposit")
        <3>1. Has({Stop}, Head(queue)) = 1
            BY <2>1 DEF Has
        <3>2. CASE thread[t] = "ready"
            BY <1>1, <2>1, <3>2 DEF Numbers, CountsOK, Moved, Has, ThreadStates, Leaving
        <3>3. CASE thread[t] = "woken"
            BY <1>1, <2>1, <3>3 DEF Numbers, CountsOK, Moved, Has, ThreadStates, Leaving
        <3> QED
            BY <1>2, <3>2, <3>3
    <2>2. CASE Head(queue) # Stop /\ Moved(thread[t], "running")
        <3>1. Has({Stop}, Head(queue)) = 0
            BY <2>2 DEF Has
        <3>2. CASE thread[t] = "ready"
            BY <1>1, <2>2, <3>2 DEF Numbers, CountsOK, Moved, Has, ThreadStates, Leaving
        <3>3. CASE thread[t] = "woken"
            BY <1>1, <2>2, <3>3 DEF Numbers, CountsOK, Moved, Has, ThreadStates, Leaving
        <3> QED
            BY <1>2, <3>2, <3>3
    <2> QED
        BY <1>2, <2>1, <2>2
<1>4. UNCHANGED <<nReserved, nNotify, nAnswers>>
    BY CallersStay DEF TakeJob
<1>5. Stops' = Stops - Has({Stop}, Head(queue))
    BY Zenon, <1>1, StopsOfTail DEF TypeOK, TakeJob, Stops, StopsIn
<1>6. /\ queue # <<>> /\ queue' \in Seq(Jobs \cup {Stop})
      /\ Len(queue') = Len(queue) - 1 /\ Head(queue) = queue[1] /\ 1 \in 1..Len(queue)
      /\ \A i \in 1..Len(queue') : queue'[i] = queue[i + 1] /\ i + 1 \in 1..Len(queue)
    BY <1>1 DEF TypeOK, TakeJob
<1>7. phase # "Closing" => Head(queue) # Stop
    BY <1>6 DEF PoolInv, StopsInv
<1>8. idle' = idle - Has({"woken"}, thread[t])
    BY <1>1, <1>2 DEF TakeJob, Counted, Has, Numbers
<1>9. UNCHANGED <<alive, pending, phase, shared, remaining, opened, failures,
                  floorLeft, short, ender>>
    BY DEF TakeJob, openVars, closeVars, history
<1>20. TypeOK'
    <2>1. idle' \in Nat
        BY <1>1, <1>3, <1>8 DEF PoolInv, CountsInv, Numbers, CountsOK
    <2>2. Head(queue) \in Jobs \cup {Stop}
        BY <1>1, <1>6 DEF TypeOK
    <2> QED
        BY <1>1, <1>6, <2>1, <2>2
           DEF TypeOK, ThreadStates, TakeJob, openVars, closeVars, history
<1>21. CountsInv'
    BY <1>1, <1>3, <1>4, <1>5, <1>8, <1>9 DEF PoolInv, CountsInv, Numbers, CountsOK, Has
<1>22. OpenerInv'
    BY <1>6, <1>9 DEF PoolInv, OpenerInv, TypeOK, OpenerStates, TakeJob
<1>23. StopsInv'
    <2>1. phase # "Closing" => /\ \A i \in 1..Len(queue') : queue'[i] # Stop
                               /\ \A u \in Threads : thread'[u] \notin Leaving
        BY <1>6, <1>7 DEF PoolInv, StopsInv, TypeOK, Leaving, TakeJob
    <2>2. ASSUME NEW i \in 1..Len(queue'), NEW k \in 1..Len(queue'), queue'[i] = Stop, i < k
          PROVE  queue'[k] = Stop
        <3>1. /\ queue[i + 1] = Stop /\ i + 1 < k + 1
              /\ i + 1 \in 1..Len(queue) /\ k + 1 \in 1..Len(queue)
            BY <1>6, <2>2
        <3> QED
            BY <1>6, <3>1 DEF PoolInv, StopsInv
    <2>3. \A u \in Threads : thread'[u] = "running" => job'[u] \in Jobs
        BY DEF PoolInv, StopsInv, TypeOK, TakeJob
    <2> QED
        BY <2>1, <2>3 DEF PoolInv, StopsInv, TakeJob
<1>24. CeilingInv'
    BY <1>3, <1>4, <1>9 DEF PoolInv, CeilingInv
<1>25. FloorInv'
    BY <1>2, <1>3, <1>9 DEF PoolInv, FloorInv, TypeOK, TakeJob
<1>26. BurstInv'
    <2>1. CASE thread[t] = "ready"
        BY <1>1, <1>3, <1>6, <1>8, <1>9, <2>1 DEF PoolInv, BurstInv, Numbers, CountsOK, Has
    <2>2. CASE thread[t] = "woken"
        BY <1>1, <1>3, <1>6, <1>8, <1>9, <2>2 DEF PoolInv, BurstInv, Numbers, CountsOK, Has
    <2> QED
        BY <1>2, <2>1, <2>2
<1>27. WakeupInv'
    <2>1. Parked' = Parked
        BY <1>1, <1>2 DEF Parked, TypeOK, TakeJob
    <2> QED
        BY <1>1, <1>3, <1>4, <1>6, <1>9, <2>1 DEF PoolInv, WakeupInv, Numbers, CountsOK, Has
<1> QED
    BY <1>20, <1>21, <1>22, <1>23, <1>24, <1>25, <1>26, <1>27 DEF PoolInv

\* A worker leaves only a pool above its floor, and is uncounted as it does.
LEMMA RetireInv ==
  ASSUME PoolInv, NEW t \in Threads, Retire(t)
  PROVE  PoolInv'
<1>1. TypeOK /\ Numbers
    BY NumbersTyped DEF PoolInv
<1>2. Moved(thread[t], "absent") /\ thread[t] \in {"ready", "woken"}
    BY Zenon, <1>1, ThreadMoves DEF Retire, MayRetire, Retired, InLoop, Counted, Sparable
<1>3. /\ nWorking' = nWorking - 1
      /\ nStaying' = nStaying - 1
      /\ nIdle' = nIdle - Has({"woken"}, thread[t])
      /\ nReady' = nReady - Has({"ready"}, thread[t])
      /\ nWoken' = nWoken - Has({"woken"}, thread[t])
      /\ UNCHANGED <<nComing, nFloor, nLeaving>>
    BY <1>2, <1>1 DEF Numbers, CountsOK, Moved, Has, ThreadStates, Leaving
<1>4. UNCHANGED <<nReserved, nNotify, nAnswers>>
    BY CallersStay DEF Retire, Retired
<1>5. UNCHANGED Stops
    BY Zenon DEF Stops, Retire, MayRetire, Retired
<1>6. TypeOK'
    BY <1>1, <1>3
       DEF PoolInv, TypeOK, CountsInv, Numbers, CountsOK, ThreadStates, Has, Retire,
           MayRetire, Retired, InLoop, Counted, Sparable, openVars, closeVars, history
<1>7. CountsInv'
    BY <1>1, <1>3, <1>4
       DEF PoolInv, CountsInv, Numbers, CountsOK, Has, OpenerStates, Retire, MayRetire,
           Retired, InLoop, Counted, Sparable
<1>8. OpenerInv'
    BY <1>1, <1>3
       DEF PoolInv, OpenerInv, CountsInv, Numbers, CountsOK, OpenerStates, Retire,
           Retired, Counted, openVars, history
<1>9. StopsInv'
    BY <1>3, <1>4, <1>5 DEF PoolInv, StopsInv, TypeOK, Leaving, Retire, Retired
<1>10. CeilingInv'
    BY <1>1, <1>3, <1>4 DEF PoolInv, CeilingInv, Numbers, CountsOK, Retire, Retired
<1>11. FloorInv'
    BY <1>1, <1>3
       DEF PoolInv, FloorInv, CountsInv, Numbers, CountsOK, Retire, MayRetire, Retired,
           Sparable, openVars, closeVars, history
<1>12. BurstInv'
    BY <1>1, <1>3
       DEF PoolInv, BurstInv, CountsInv, Numbers, CountsOK, Has, Retire, MayRetire,
           Retired, InLoop, Counted
<1>13. WakeupInv'
    BY <1>1, <1>3 DEF WakeupInv, Numbers, CountsOK, Retire, Retired
<1> QED
    BY <1>6, <1>7, <1>8, <1>9, <1>10, <1>11, <1>12, <1>13 DEF PoolInv

\* A worker waits only with nothing queued, and stays counted in idle.
LEMMA ParkInv ==
  ASSUME PoolInv, NEW t \in Threads, Park(t)
  PROVE  PoolInv'
<1>1. TypeOK /\ Numbers
    BY NumbersTyped DEF PoolInv
<1>2. /\ thread[t] \in {"ready", "woken"}
      /\ Moved(thread[t], "timed") \/ Moved(thread[t], "parked")
    BY <1>1, ThreadMoves DEF Park, ParkIf, InLoop
<1>3. /\ nIdle' = nIdle + Has({"ready"}, thread[t])
      /\ nReady' = nReady - Has({"ready"}, thread[t])
      /\ nWoken' = nWoken - Has({"woken"}, thread[t])
      /\ UNCHANGED <<nWorking, nStaying, nComing, nFloor, nLeaving>>
    <2>1. CASE thread[t] = "ready"
        BY <1>1, <1>2, <2>1 DEF Numbers, CountsOK, Moved, Has, ThreadStates, Leaving
    <2>2. CASE thread[t] = "woken"
        BY <1>1, <1>2, <2>2 DEF Numbers, CountsOK, Moved, Has, ThreadStates, Leaving
    <2> QED
        BY Zenon, <1>2, <2>1, <2>2
<1>4. UNCHANGED <<nReserved, nNotify, nAnswers>>
    BY CallersStay DEF Park, ParkIf
<1>5. UNCHANGED Stops
    BY DEF Stops, Park, ParkIf
<1>20. TypeOK'
    BY <1>1 DEF TypeOK, ThreadStates, Park, ParkIf, Counted, openVars, closeVars, history
<1>21. CountsInv'
    BY <1>3, <1>4, <1>5
       DEF PoolInv, CountsInv, Has, OpenerStates, Park, ParkIf, InLoop, Counted,
           openVars, closeVars, history
<1>22. OpenerInv'
    BY DEF PoolInv, OpenerInv, CountsOK, TypeOK, OpenerStates, Has, Park, ParkIf,
           InLoop, Counted, openVars, closeVars, history
<1>23. StopsInv'
    BY <1>2 DEF PoolInv, StopsInv, TypeOK, Leaving, Park, ParkIf, InLoop, Counted
<1>24. CeilingInv'
    BY <1>3, <1>4 DEF PoolInv, CeilingInv, Park, ParkIf
<1>25. FloorInv'
    BY <1>3
       DEF PoolInv, FloorInv, CountsOK, TypeOK, Has, OpenerStates, Park, ParkIf, InLoop,
           Counted, openVars, closeVars, history
<1>26. BurstInv'
    BY <1>1, <1>3 DEF BurstInv, Numbers, CountsOK, Park, ParkIf, Counted
<1>27. WakeupInv'
    BY <1>1, <1>3, <1>4
       DEF WakeupInv, Numbers, CountsOK, Has, Park, ParkIf, InLoop, Counted, openVars,
           closeVars, history
<1> QED
    BY <1>20, <1>21, <1>22, <1>23, <1>24, <1>25, <1>26, <1>27 DEF PoolInv

\* Time alone changes no count.
LEMMA ElapseInv ==
  ASSUME PoolInv, NEW t \in Threads, Elapse(t)
  PROVE  PoolInv'
<1>1. TypeOK /\ Numbers
    BY NumbersTyped DEF PoolInv
<1>2. UNCHANGED <<nWorking, nStaying, nComing, nFloor, nIdle, nReady, nWoken,
                  nLeaving, Parked>>
    BY ThreadsStay DEF Elapse, threadVars
<1>3. UNCHANGED <<nReserved, nNotify, nAnswers>>
    BY CallersStay DEF Elapse
<1>4. UNCHANGED Stops
    BY DEF Stops, Elapse, poolVars
<1>5. TypeOK'
    BY <1>1 DEF TypeOK, CountsOK, Elapse, poolVars, openVars, closeVars, history
<1>6. CountsInv'
    BY <1>2, <1>3, <1>4 DEF PoolInv, CountsInv, Numbers, Elapse, poolVars, closeVars
<1>7. OpenerInv'
    BY DEF PoolInv, OpenerInv, Elapse, poolVars, openVars
<1>8. StopsInv'
    BY <1>1 DEF PoolInv, StopsInv, Elapse, poolVars
<1>9. CeilingInv'
    BY <1>2, <1>3 DEF PoolInv, CeilingInv, Elapse, poolVars
<1>10. FloorInv'
    BY <1>2 DEF PoolInv, FloorInv, CountsOK, Elapse, poolVars, openVars, history
<1>11. BurstInv'
    BY <1>2 DEF PoolInv, BurstInv, Elapse, poolVars, history
<1>12. WakeupInv'
    BY <1>2, <1>3 DEF PoolInv, WakeupInv, Elapse, poolVars, closeVars
<1> QED
    BY <1>5, <1>6, <1>7, <1>8, <1>9, <1>10, <1>11, <1>12 DEF PoolInv

\* A worker that wakes stays counted in idle.
LEMMA TimedOutInv ==
  ASSUME PoolInv, NEW t \in Threads, TimedOut(t)
  PROVE  PoolInv'
<1>1. TypeOK /\ Numbers
    BY NumbersTyped DEF PoolInv
<1>2. Moved("timed", "woken")
    BY ZenonT(30), <1>1, ThreadMoves DEF TimedOut
<1>3. /\ nWoken' = nWoken + 1
      /\ UNCHANGED <<nWorking, nStaying, nComing, nFloor, nIdle, nReady, nLeaving>>
    BY <1>2, <1>1 DEF Numbers, CountsOK, Moved, Has, ThreadStates, Leaving
<1>4. UNCHANGED <<nReserved, nNotify, nAnswers>>
    BY CallersStay DEF TimedOut
<1>5. UNCHANGED Stops
    BY DEF Stops, TimedOut, poolVars
<1>6. TypeOK'
    BY <1>1 DEF TypeOK, ThreadStates, TimedOut, poolVars, openVars, closeVars, history
<1>7. CountsInv'
    BY <1>3, <1>4, <1>5 DEF PoolInv, CountsInv, TimedOut, poolVars, closeVars
<1>8. OpenerInv'
    BY DEF PoolInv, OpenerInv, OpenerStates, TimedOut, poolVars, openVars
<1>9. StopsInv'
    BY DEF PoolInv, StopsInv, Leaving, TimedOut, poolVars
<1>10. CeilingInv'
    BY Zenon, <1>3, <1>4 DEF PoolInv, CeilingInv, CountsInv, TimedOut, poolVars
<1>11. FloorInv'
    <2>1. (\A u \in Threads : thread'[u] # "opening") =>
            \A u \in Threads : thread[u] # "opening"
        BY Zenon, <1>1 DEF TimedOut, TypeOK
    <2>2. UNCHANGED <<phase, opened, floorLeft, short, nWorking, nFloor>>
        BY Zenon, <1>3 DEF TimedOut, poolVars, openVars, history
    <2> QED
        BY Zenon, <2>1, <2>2 DEF PoolInv, FloorInv
<1>12. BurstInv'
    BY <1>3 DEF PoolInv, BurstInv, TimedOut, poolVars, history
<1>13. WakeupInv'
    BY <1>1, <1>3, <1>4, <1>5
       DEF PoolInv, WakeupInv, Parked, Numbers, CountsOK, TimedOut, poolVars, closeVars
<1> QED
    BY <1>6, <1>7, <1>8, <1>9, <1>10, <1>11, <1>12, <1>13 DEF PoolInv

\* However it wakes.
LEMMA SpuriousWakeInv ==
  ASSUME PoolInv, NEW t \in Threads, SpuriousWake(t)
  PROVE  PoolInv'
<1>1. TypeOK /\ Numbers
    BY NumbersTyped DEF PoolInv
<1>2. Moved(thread[t], "woken") /\ thread[t] \in {"parked", "timed"}
    BY Zenon, <1>1, ThreadMoves DEF SpuriousWake, Parked
<1>3. /\ nWoken' = nWoken + 1
      /\ UNCHANGED <<nWorking, nStaying, nComing, nFloor, nIdle, nReady, nLeaving>>
    BY <1>2, <1>1 DEF Numbers, CountsOK, Moved, Has, ThreadStates, Leaving
<1>4. UNCHANGED <<nReserved, nNotify, nAnswers>>
    BY CallersStay DEF SpuriousWake, Parked
<1>5. UNCHANGED Stops
    BY DEF Stops, SpuriousWake, Parked, poolVars
<1>6. TypeOK'
    BY <1>1 DEF TypeOK, ThreadStates, SpuriousWake, poolVars, openVars, closeVars, history
<1>7. CountsInv'
    BY <1>3, <1>4, <1>5 DEF PoolInv, CountsInv, SpuriousWake, poolVars, closeVars
<1>8. OpenerInv'
    BY DEF PoolInv, OpenerInv, OpenerStates, SpuriousWake, poolVars, openVars
<1>9. StopsInv'
    BY DEF PoolInv, StopsInv, TypeOK, Leaving, SpuriousWake, poolVars
<1>10. CeilingInv'
    BY <1>3, <1>4 DEF PoolInv, CeilingInv, SpuriousWake, poolVars
<1>11. FloorInv'
    BY <1>3 DEF PoolInv, FloorInv, SpuriousWake, Parked, poolVars, openVars, history
<1>12. BurstInv'
    BY Zenon, <1>3 DEF PoolInv, BurstInv, SpuriousWake, poolVars, history
<1>13. WakeupInv'
    BY <1>1, <1>3, <1>4
       DEF PoolInv, WakeupInv, Numbers, CountsOK, TypeOK, SpuriousWake, poolVars,
           closeVars
<1> QED
    BY <1>6, <1>7, <1>8, <1>9, <1>10, <1>11, <1>12, <1>13 DEF PoolInv

\* A worker comes back for its next job.
LEMMA JobDoneInv ==
  ASSUME PoolInv, NEW t \in Threads, JobDone(t)
  PROVE  PoolInv'
<1>1. TypeOK /\ Numbers
    BY NumbersTyped DEF PoolInv
<1>2. Moved("running", "ready")
    BY ZenonT(30), <1>1, ThreadMoves DEF JobDone
<1>3. /\ nReady' = nReady + 1
      /\ UNCHANGED <<nWorking, nStaying, nComing, nFloor, nIdle, nWoken, nLeaving>>
    BY <1>2, <1>1 DEF Numbers, CountsOK, Moved, Has, ThreadStates, Leaving
<1>4. UNCHANGED <<nReserved, nNotify, nAnswers>>
    BY CallersStay DEF JobDone
<1>5. UNCHANGED Stops
    BY DEF Stops, JobDone, poolVars
<1>6. TypeOK'
    BY DEF PoolInv, TypeOK, StopsInv, ThreadStates, JobDone, poolVars, openVars, closeVars
<1>7. CountsInv'
    BY <1>3, <1>4, <1>5 DEF PoolInv, CountsInv, JobDone, poolVars, closeVars
<1>8. OpenerInv'
    BY DEF PoolInv, OpenerInv, OpenerStates, JobDone, poolVars, openVars
<1>9. StopsInv'
    BY DEF PoolInv, StopsInv, TypeOK, Leaving, JobDone, poolVars
<1>10. CeilingInv'
    BY <1>3, <1>4 DEF PoolInv, CeilingInv, JobDone, poolVars
<1>11. FloorInv'
    BY <1>3 DEF PoolInv, FloorInv, JobDone, poolVars, openVars
<1>12. BurstInv'
    BY <1>1, <1>3 DEF PoolInv, BurstInv, OpenerInv, Numbers, CountsOK, JobDone, poolVars
<1>13. WakeupInv'
    BY <1>3, <1>4 DEF PoolInv, WakeupInv, Parked, JobDone, poolVars, closeVars
<1> QED
    BY <1>6, <1>7, <1>8, <1>9, <1>10, <1>11, <1>12, <1>13 DEF PoolInv
================================================================================

--------------------------- MODULE WorkerPoolProofs ---------------------------
(***************************************************************************)
(* Proofs about WorkerPool.  The first half of the proof that PoolInv is   *)
(* inductive is in WorkerPoolCounts; here are the steps of the tasks, of   *)
(* the close and of the retirements, and what the invariant comes to.  The *)
(* last part is about who holds the engine: JobsInv, ServersInv and        *)
(* ClosedInv are inductive next to PoolInv.                                *)
(***************************************************************************)
EXTENDS WorkerPoolCounts

--------------------------------------------------------------------------------
(* A task inside Engine::dispatch keeps the invariant *)

\* A job is refused, or queued with a notification to come and, where the pool is
\* short, a reservation.
LEMMA DispatchInv ==
  ASSUME PoolInv, NEW j \in Jobs, Dispatch(j)
  PROVE  PoolInv'
<1>1. TypeOK /\ Numbers
    BY NumbersTyped DEF PoolInv
<1> DEFINE Refused == /\ phase # "Open" /\ queue' = queue
                      /\ alive' = alive /\ pending' = pending
                      /\ nReserved' = nReserved /\ nNotify' = nNotify
           Plain == /\ phase = "Open" /\ queue' = Append(queue, j) /\ ~(WantsWorker /\ shared)
                    /\ alive' = alive /\ pending' = pending
                    /\ nReserved' = nReserved /\ nNotify' = nNotify + 1
           Reserves == /\ phase = "Open" /\ queue' = Append(queue, j) /\ WantsWorker
                       /\ alive' = alive + 1 /\ pending' = pending + 1
                       /\ nReserved' = nReserved + 1 /\ nNotify' = nNotify + 1
<1>2. caller[j] = "new" /\ opened = "ok"
    BY DEF Dispatch, MayDispatch
<1>3. (Refused \/ Plain \/ Reserves) /\ nAnswers' = nAnswers
    <2>1. CASE phase # "Open"
        <3>1. CallerMoved("new", "refused")
            BY <1>1, <1>2, <2>1, CallerMoves DEF Dispatch
        <3> QED
            BY <1>1, <2>1, <3>1 DEF Numbers, CountsOK, CallerMoved, Has, Dispatch
    <2>2. CASE phase = "Open" /\ WantsWorker /\ shared
        <3>1. CallerMoved("new", "notifySpawn")
            BY Zenon, <1>1, <1>2, <2>2, CallerMoves DEF Dispatch
        <3> QED
            BY <1>1, <2>2, <3>1 DEF Numbers, CountsOK, CallerMoved, Has, Dispatch, Reserved
    <2>3. CASE phase = "Open" /\ ~(WantsWorker /\ shared)
        <3>1. CallerMoved("new", "notify")
            BY <1>1, <1>2, <2>3, CallerMoves DEF Dispatch
        <3> QED
            BY <1>1, <2>3, <3>1 DEF Numbers, CountsOK, CallerMoved, Has, Dispatch
    <2> QED
        BY <2>1, <2>2, <2>3
<1>4. UNCHANGED <<nWorking, nStaying, nComing, nFloor, nIdle, nReady, nWoken,
                  nLeaving, Parked>>
    BY ThreadsStay DEF Dispatch, threadVars
<1>5. UNCHANGED <<idle, phase, shared, remaining, opened, failures, floorLeft,
                  short, ender, thread>>
    BY DEF Dispatch, threadVars, openVars, closeVars, history
<1>6. phase = "Closing" => UNCHANGED Stops
    BY <1>3 DEF Stops
<1>7. queue' = Append(queue, j) =>
          /\ queue' \in Seq(Jobs \cup {Stop}) /\ Len(queue') = Len(queue) + 1
          /\ \A i \in 1..Len(queue') :
               queue'[i] = IF i <= Len(queue) THEN queue[i] ELSE j
    BY <1>1 DEF TypeOK
<1>20. TypeOK'
    <2>1. alive' \in Nat /\ pending' \in Nat /\ queue' \in Seq(Jobs \cup {Stop})
        BY <1>1, <1>3, <1>7 DEF TypeOK
    <2> QED
        BY <1>1, <2>1
           DEF TypeOK, CallerStates, Dispatch, threadVars, openVars, closeVars, history
<1>21. CountsInv'
    <2>1. CASE Refused
        BY <1>3, <1>4, <1>5, <1>6, <2>1 DEF PoolInv, CountsInv
    <2>2. CASE Plain
        BY <1>4, <1>5, <2>2 DEF PoolInv, CountsInv
    <2>3. CASE Reserves
        BY <1>1, <1>4, <1>5, <2>3 DEF PoolInv, CountsInv, Numbers, CountsOK
    <2> QED
        BY <1>3, <2>1, <2>2, <2>3
<1>22. OpenerInv'
    BY <1>2, <1>5 DEF PoolInv, OpenerInv, OpenerStates
<1>23. StopsInv'
    <2>1. /\ phase # "Closing" => \A i \in 1..Len(queue') : queue'[i] # Stop
          /\ \A i, k \in 1..Len(queue') : queue'[i] = Stop /\ i < k => queue'[k] = Stop
        <3>1. CASE UNCHANGED queue
            BY <3>1 DEF PoolInv, StopsInv
        <3>2. CASE phase = "Open" /\ queue' = Append(queue, j)
            <4>1. \A i \in 1..Len(queue') : queue'[i] # Stop
                BY <3>2, NamesAssumption DEF PoolInv, StopsInv
            <4> QED
                BY <4>1
        <3> QED
            BY <1>3, <3>1, <3>2
    <2>2. \A k \in Jobs : caller[k] \notin Leaving => caller'[k] \notin Leaving
        BY <1>1 DEF TypeOK, Leaving, Dispatch
    <2> QED
        BY <1>5, <2>1, <2>2 DEF PoolInv, StopsInv, Dispatch, threadVars
<1>24. CeilingInv'
    <2>1. CASE Refused
        BY <1>4, <1>5, <2>1 DEF PoolInv, CeilingInv
    <2>2. CASE Plain
        BY <1>4, <2>2 DEF PoolInv, CeilingInv
    <2>3. CASE Reserves
        BY <1>1, <1>4, <2>3
           DEF PoolInv, CeilingInv, CountsInv, Numbers, CountsOK, WantsWorker
    <2> QED
        BY <1>3, <2>1, <2>2, <2>3
<1>25. FloorInv'
    BY <1>4, <1>5 DEF PoolInv, FloorInv
<1>26. BurstInv'
    <2>1. CASE Refused
        BY <1>5, <2>1 DEF BurstInv
    <2>2. CASE Plain
        BY <1>1, <1>4, <1>5, <2>2 DEF PoolInv, BurstInv, Numbers, CountsOK, WantsWorker
    <2>3. CASE Reserves
        BY <1>1, <1>4, <1>5, <2>3 DEF PoolInv, BurstInv, Numbers, CountsOK
    <2> QED
        BY <1>3, <2>1, <2>2, <2>3
<1>27. WakeupInv'
    <2>1. CASE Refused
        BY <1>4, <1>5, <2>1 DEF PoolInv, WakeupInv
    <2>2. CASE Plain
        BY <1>1, <1>4, <1>5, <2>2 DEF PoolInv, WakeupInv, Numbers, CountsOK
    <2>3. CASE Reserves
        BY <1>1, <1>4, <1>5, <2>3 DEF PoolInv, WakeupInv, Numbers, CountsOK
    <2> QED
        BY <1>3, <2>1, <2>2, <2>3
<1> QED
    BY <1>20, <1>21, <1>22, <1>23, <1>24, <1>25, <1>26, <1>27 DEF PoolInv

\* Of the workers waiting one is woken, if any is.
LEMMA NotifyOneInv ==
  ASSUME PoolInv, NEW j \in Jobs, NotifyOne(j)
  PROVE  PoolInv'
<1>1. TypeOK /\ Numbers
    BY NumbersTyped DEF PoolInv
<1>2. /\ nNotify' = nNotify - 1
      /\ UNCHANGED <<nReserved, nAnswers>>
    <2>1. \/ caller[j] = "notify" /\ CallerMoved("notify", "queued")
          \/ caller[j] = "notifySpawn" /\ CallerMoved("notifySpawn", "spawning")
        BY Zenon, <1>1, CallerMoves DEF NotifyOne
    <2> QED
        BY <1>1, <2>1 DEF Numbers, CountsOK, CallerMoved, Has
<1>3. /\ nWoken' = nWoken + 1 \/ Parked' = {}
      /\ UNCHANGED <<nWorking, nStaying, nComing, nFloor, nIdle, nReady, nLeaving>>
    <2>1. ASSUME NEW t \in Parked, thread' = [thread EXCEPT ![t] = "woken"]
          PROVE  /\ nWoken' = nWoken + 1
                 /\ UNCHANGED <<nWorking, nStaying, nComing, nFloor, nIdle,
                                nReady, nLeaving>>
        <3>1. Moved(thread[t], "woken") /\ thread[t] \in {"parked", "timed"}
            BY Zenon, <1>1, <2>1, ThreadMoves DEF Parked
        <3> QED
            BY <1>1, <3>1 DEF Numbers, CountsOK, Moved, Has, ThreadStates, Leaving
    <2>2. CASE Parked = {} /\ UNCHANGED thread
        BY <2>2, ThreadsStay
    <2> QED
        BY <2>1, <2>2 DEF NotifyOne
<1>4. UNCHANGED Stops
    BY DEF Stops, NotifyOne, poolVars
<1>20. TypeOK'
    BY <1>1
       DEF TypeOK, ThreadStates, CallerStates, NotifyOne, Parked, poolVars, openVars,
           closeVars, history
<1>21. CountsInv'
    BY <1>2, <1>3, <1>4 DEF PoolInv, CountsInv, Numbers, NotifyOne, poolVars, closeVars
<1>22. OpenerInv'
    BY <1>2
       DEF PoolInv, OpenerInv, Numbers, CountsOK, TypeOK, OpenerStates, NotifyOne,
           Parked, poolVars, openVars, closeVars, history
<1>23. StopsInv'
    BY <1>2, <1>3 DEF PoolInv, StopsInv, TypeOK, Leaving, NotifyOne, Parked, poolVars
<1>24. CeilingInv'
    BY <1>2, <1>3 DEF PoolInv, CeilingInv, NotifyOne, poolVars
<1>25. FloorInv'
    BY <1>3
       DEF PoolInv, FloorInv, StopsInv, Numbers, CountsOK, TypeOK, OpenerStates,
           NotifyOne, Parked, poolVars, openVars, closeVars, history
<1>26. BurstInv'
    BY <1>3 DEF PoolInv, BurstInv, NotifyOne, poolVars, history
<1>27. WakeupInv'
    BY <1>1, <1>2, <1>3
       DEF PoolInv, WakeupInv, Parked, Numbers, CountsOK, NotifyOne, poolVars, closeVars
<1> QED
    BY <1>20, <1>21, <1>22, <1>23, <1>24, <1>25, <1>26, <1>27 DEF PoolInv

\* A reservation becomes a thread.
LEMMA SpawnInv ==
  ASSUME PoolInv, NEW j \in Jobs, Spawn(j)
  PROVE  PoolInv'
<1>1. TypeOK /\ Numbers
    BY NumbersTyped DEF PoolInv
<1>2. PICK u \in Threads : thread[u] = "absent" /\ thread' = [thread EXCEPT ![u] = "starting"]
    BY Zenon DEF Spawn
<1>3. Moved("absent", "starting")
    BY Zenon, <1>2, <1>1, ThreadMoves DEF Spawn
<1>4. /\ nWorking' = nWorking + 1
      /\ nStaying' = nStaying + 1
      /\ nComing' = nComing + 1
      /\ UNCHANGED <<nFloor, nIdle, nReady, nWoken, nLeaving>>
    BY <1>3, <1>1 DEF Numbers, CountsOK, Moved, Has, ThreadStates, Leaving
<1>5. CallerMoved("spawning", "letGo")
    BY Zenon, <1>1, CallerMoves DEF Spawn
<1>6. /\ nReserved' = nReserved - 1
      /\ UNCHANGED <<nNotify, nAnswers>>
    BY <1>5, <1>1 DEF Numbers, CountsOK, CallerMoved, Has
<1>7. UNCHANGED Stops
    BY DEF Stops, Spawn, poolVars
<1>8. TypeOK'
    BY <1>1
       DEF TypeOK, ThreadStates, CallerStates, Spawn, poolVars, openVars, closeVars,
           history
<1>9. CountsInv'
    BY <1>1, <1>4, <1>6, <1>7
       DEF PoolInv, CountsInv, OpenerInv, Numbers, CountsOK, Spawn, poolVars, closeVars
<1>10. OpenerInv'
    BY DEF PoolInv, OpenerInv, OpenerStates, Spawn, poolVars, openVars, closeVars
<1>11. StopsInv'
    BY <1>2, <1>4 DEF PoolInv, StopsInv, TypeOK, Leaving, Spawn, poolVars
<1>12. CeilingInv'
    BY <1>1, <1>4, <1>6 DEF PoolInv, CeilingInv, Numbers, CountsOK, Spawn, poolVars
<1>13. FloorInv'
    BY <1>1, <1>4
       DEF PoolInv, FloorInv, Numbers, CountsOK, Spawn, poolVars, openVars, closeVars,
           history
<1>14. BurstInv'
    BY <1>4 DEF PoolInv, BurstInv, Spawn, poolVars, openVars, closeVars, history
<1>15. WakeupInv'
    BY <1>4, <1>6 DEF PoolInv, WakeupInv, Parked, Spawn, poolVars, openVars, closeVars
<1> QED
    BY <1>8, <1>9, <1>10, <1>11, <1>12, <1>13, <1>14, <1>15 DEF PoolInv

\* A reservation is taken back; while closing, with the stop that was meant for it.
LEMMA SpawnFailsInv ==
  ASSUME PoolInv, NEW j \in Jobs, SpawnFails(j)
  PROVE  PoolInv'
<1>1. TypeOK /\ Numbers
    BY NumbersTyped DEF PoolInv
<1> DEFINE Answers == /\ phase = "Closing" /\ queue # <<>> /\ queue[Len(queue)] = Stop
                      /\ queue' = SubSeq(queue, 1, Len(queue) - 1)
                      /\ nAnswers' = nAnswers + 1 /\ Stops' = Stops - 1
           TakesBack == /\ phase # "Closing" /\ queue' = queue
                        /\ nAnswers' = nAnswers /\ Stops' = Stops
<1>2. /\ caller[j] = "spawning"
      /\ CallerMoved("spawning", "deposit") \/ CallerMoved("spawning", "letGo")
    BY <1>1, CallerMoves DEF SpawnFails, SpawnFailsIn
<1>3. nReserved' = nReserved - 1 /\ nNotify' = nNotify
    BY <1>1, <1>2 DEF Numbers, CountsOK, CallerMoved, Has
<1>4. phase = "Closing" => queue # <<>> /\ queue[Len(queue)] = Stop
    <2> SUFFICES ASSUME phase = "Closing"
                 PROVE  queue # <<>> /\ queue[Len(queue)] = Stop
        OBVIOUS
    <2>1. Stops # 0
        BY <1>1, <1>3 DEF PoolInv, CountsInv, Numbers, CountsOK
    <2>2. PICK i \in 1..Len(queue) : queue[i] = Stop
        BY Zenon, <1>1, <2>1, StopsTyped DEF TypeOK, Stops, StopsIn
    <2> QED
        BY <1>1, <2>2 DEF PoolInv, StopsInv, Numbers
<1>5. Answers \/ TakesBack
    <2>1. CASE phase = "Closing"
        <3>1. CallerMoved("spawning", "deposit") /\ queue' = SubSeq(queue, 1, Len(queue) - 1)
            BY Zenon, <1>1, <1>2, <1>4, <2>1, CallerMoves DEF SpawnFails, SpawnFailsIn
        <3>2. Stops' = Stops - 1
            BY <1>1, <1>4, <2>1, <3>1, StopsOfFront DEF TypeOK, Stops, StopsIn
        <3>3. nAnswers' = nAnswers + 1
            BY <1>1, <3>1 DEF Numbers, CountsOK, CallerMoved, Has
        <3> QED
            BY <1>4, <2>1, <3>1, <3>2, <3>3
    <2>2. CASE phase # "Closing"
        <3>1. CallerMoved("spawning", "letGo") /\ queue' = queue
            BY <1>1, <2>2, CallerMoves DEF SpawnFails, SpawnFailsIn
        <3>2. nAnswers' = nAnswers
            BY <1>1, <3>1 DEF Numbers, CountsOK, CallerMoved, Has
        <3> QED
            BY <2>2, <3>1, <3>2 DEF Stops
    <2> QED
        BY <2>1, <2>2
<1>6. UNCHANGED <<nWorking, nStaying, nComing, nFloor, nIdle, nReady, nWoken,
                  nLeaving, Parked>>
    BY ThreadsStay DEF SpawnFails, SpawnFailsIn, threadVars
<1>7. /\ alive' = alive - 1 /\ pending' = pending - 1 /\ failures'
      /\ UNCHANGED <<idle, phase, shared, remaining, opened, floorLeft, short,
                     ender, thread, job>>
    BY DEF SpawnFails, SpawnFailsIn, threadVars, openVars, closeVars
<1>8. /\ queue' \in Seq(Jobs \cup {Stop}) /\ Len(queue') <= Len(queue)
      /\ \A i \in 1..Len(queue') : queue'[i] = queue[i] /\ i \in 1..Len(queue)
    BY <1>1, <1>5 DEF TypeOK
<1>20. TypeOK'
    <2>1. alive' \in Nat /\ pending' \in Nat
        BY <1>1, <1>3, <1>7 DEF PoolInv, CountsInv, Numbers, CountsOK
    <2> QED
        BY <1>1, <2>1
           DEF TypeOK, CallerStates, SpawnFails, SpawnFailsIn, threadVars, openVars,
               closeVars
<1>21. CountsInv'
    <2>1. CASE Answers
        BY <1>1, <1>3, <1>6, <1>7, <2>1 DEF PoolInv, CountsInv, Numbers, CountsOK
    <2>2. CASE TakesBack
        BY <1>1, <1>3, <1>6, <1>7, <2>2 DEF PoolInv, CountsInv, Numbers, CountsOK
    <2> QED
        BY <1>5, <2>1, <2>2
<1>22. OpenerInv'
    <2>1. alive # 0
        BY <1>1, <1>3 DEF PoolInv, CountsInv, Numbers, CountsOK
    <2>2. queue = <<>> => queue' = queue
        BY <1>5
    <2> QED
        BY <1>1, <1>7, <2>1, <2>2 DEF PoolInv, OpenerInv, Numbers
<1>23. StopsInv'
    <2>1. phase # "Closing" => \A k \in Jobs : caller'[k] \notin Leaving
        BY DEF PoolInv, StopsInv, TypeOK, Leaving, SpawnFails, SpawnFailsIn
    <2> QED
        BY <1>7, <1>8, <2>1 DEF PoolInv, StopsInv, Numbers
<1>24. CeilingInv'
    BY <1>1, <1>3, <1>6, <1>7 DEF PoolInv, CeilingInv, Numbers, CountsOK
<1>25. FloorInv'
    BY <1>6, <1>7 DEF PoolInv, FloorInv
<1>26. BurstInv'
    BY <1>7 DEF BurstInv
<1>27. WakeupInv'
    <2>1. Len(queue') \in Nat
        BY <1>8
    <2> QED
        BY <1>1, <1>3, <1>6, <1>7, <1>8 DEF PoolInv, WakeupInv, Numbers, CountsOK
<1> QED
    BY <1>20, <1>21, <1>22, <1>23, <1>24, <1>25, <1>26, <1>27 DEF PoolInv

\* A handle let go is no matter of the counts.
LEMMA LetGoInv ==
  ASSUME PoolInv, NEW j \in Jobs, LetGo(j)
  PROVE  PoolInv'
<1>1. TypeOK /\ Numbers
    BY NumbersTyped DEF PoolInv
<1>2. UNCHANGED <<nWorking, nStaying, nComing, nFloor, nIdle, nReady, nWoken,
                  nLeaving, Parked>>
    BY ThreadsStay DEF LetGo, threadVars
<1>3. CallerMoved("letGo", "queued")
    BY Zenon, <1>1, CallerMoves DEF LetGo
<1>4. /\ UNCHANGED <<nReserved, nNotify, nAnswers>>
    BY <1>3, <1>1 DEF Numbers, CountsOK, CallerMoved, Has
<1>5. UNCHANGED Stops
    BY DEF Stops, LetGo, poolVars
<1>6. TypeOK'
    BY <1>1
       DEF TypeOK, CallerStates, LetGo, poolVars, threadVars, openVars, closeVars,
           history
<1>7. CountsInv'
    BY <1>2, <1>4, <1>5 DEF PoolInv, CountsInv, LetGo, poolVars, closeVars
<1>8. OpenerInv'
    BY DEF PoolInv, OpenerInv, LetGo, poolVars, threadVars, openVars
<1>9. StopsInv'
    BY DEF PoolInv, StopsInv, Leaving, LetGo, poolVars, threadVars
<1>10. CeilingInv'
    BY <1>2, <1>4 DEF PoolInv, CeilingInv, LetGo, poolVars
<1>11. FloorInv'
    BY <1>2 DEF PoolInv, FloorInv, LetGo, poolVars, threadVars, openVars, history
<1>12. BurstInv'
    BY <1>2 DEF PoolInv, BurstInv, LetGo, poolVars, history
<1>13. WakeupInv'
    BY <1>2, <1>4 DEF PoolInv, WakeupInv, LetGo, poolVars, closeVars
<1> QED
    BY <1>6, <1>7, <1>8, <1>9, <1>10, <1>11, <1>12, <1>13 DEF PoolInv

--------------------------------------------------------------------------------
(* The close and the retirements keep the invariant *)

\* A close queues as many stops as there are workers and reservations, behind the jobs.
LEMMA BeginCloseInv ==
  ASSUME PoolInv, BeginClose
  PROVE  PoolInv'
<1>1. TypeOK /\ Numbers
    BY NumbersTyped DEF PoolInv
<1>2. UNCHANGED <<nWorking, nStaying, nComing, nFloor, nIdle, nReady, nWoken,
                  nLeaving, Parked>>
    BY ThreadsStay DEF BeginClose, threadVars
<1>3. UNCHANGED <<nReserved, nNotify, nAnswers>>
    BY CallersStay DEF BeginClose
<1>4. /\ phase = "Open" /\ phase' = "Closing" /\ opened' = "ok" /\ ender' = "notify"
      /\ remaining' = alive
      /\ queue' = queue \o [i \in 1..alive |-> Stop]
      /\ UNCHANGED <<alive, pending, idle, thread, job, caller, opened, floorLeft>>
    BY DEF BeginClose, threadVars, openVars
<1>5. nStaying = nWorking /\ nLeaving = 0 /\ nAnswers = 0
    BY <1>1, <1>4, NobodyLeaves DEF PoolInv, StopsInv
<1>6. \A i \in 1..Len(queue) : queue[i] # Stop
    BY <1>4 DEF PoolInv, StopsInv
<1>7. Stops' = alive
    BY Zenon, <1>1, <1>4, <1>6, StopsOfClose DEF TypeOK, Stops, StopsIn
<1>8. /\ [i \in 1..alive |-> Stop] \in Seq(Jobs \cup {Stop})
      /\ Len([i \in 1..alive |-> Stop]) = alive
    BY <1>1 DEF Numbers
<1>9. /\ queue' \in Seq(Jobs \cup {Stop}) /\ Len(queue') = Len(queue) + alive
      /\ \A i \in 1..Len(queue') : queue'[i] = IF i <= Len(queue) THEN queue[i] ELSE Stop
    BY <1>1, <1>4, <1>8 DEF TypeOK
<1>20. TypeOK'
    BY Zenon, <1>1, <1>9 DEF TypeOK, BeginClose, threadVars, openVars, history
<1>21. CountsInv'
    BY <1>1, <1>2, <1>3, <1>4, <1>5, <1>7 DEF PoolInv, CountsInv, Numbers, CountsOK
<1>22. OpenerInv'
    BY <1>4 DEF PoolInv, OpenerInv, OpenerStates, BeginClose
<1>23. StopsInv'
    <2>1. \A i, k \in 1..Len(queue') : queue'[i] = Stop /\ i < k => queue'[k] = Stop
        BY <1>1, <1>6, <1>9 DEF Numbers
    <2> QED
        BY Zenon, <1>4, <2>1 DEF PoolInv, StopsInv
<1>24. CeilingInv'
    BY <1>2, <1>3, <1>4 DEF PoolInv, CeilingInv
<1>25. FloorInv'
    BY <1>4 DEF FloorInv
<1>26. BurstInv'
    BY <1>4 DEF BurstInv
<1>27. WakeupInv'
    BY <1>4 DEF WakeupInv
<1> QED
    BY <1>20, <1>21, <1>22, <1>23, <1>24, <1>25, <1>26, <1>27 DEF PoolInv

\* The last handle dropped changes no count.
LEMMA AbandonInv ==
  ASSUME PoolInv, Abandon
  PROVE  PoolInv'
<1>1. TypeOK /\ Numbers
    BY NumbersTyped DEF PoolInv
<1>2. UNCHANGED <<nWorking, nStaying, nComing, nFloor, nIdle, nReady, nWoken,
                  nLeaving, Parked>>
    BY ThreadsStay DEF Abandon, threadVars
<1>3. UNCHANGED <<nReserved, nNotify, nAnswers>>
    BY CallersStay DEF Abandon
<1>20. TypeOK'
    BY Zenon, <1>1, <1>2, <1>3
       DEF PoolInv, TypeOK, CountsInv, StopsInv, Numbers, CountsOK, ThreadStates,
           CallerStates, Has, Abandon, poolVars, threadVars, openVars, closeVars, history
<1>21. CountsInv'
    BY <1>2, <1>3 DEF PoolInv, CountsInv, Numbers, OpenerStates, Abandon
<1>22. OpenerInv'
    BY DEF PoolInv, OpenerInv, Abandon, threadVars, openVars, history
<1>23. StopsInv'
    BY DEF PoolInv, StopsInv, TypeOK, Abandon, threadVars
<1>24. CeilingInv'
    BY <1>2, <1>3 DEF PoolInv, CeilingInv, Abandon
<1>25. FloorInv'
    BY DEF FloorInv, Numbers, CountsOK, TypeOK, OpenerStates, Abandon
<1>26. BurstInv'
    BY DEF BurstInv, OpenerStates, Abandon
<1>27. WakeupInv'
    BY DEF WakeupInv, Abandon
<1> QED
    BY <1>20, <1>21, <1>22, <1>23, <1>24, <1>25, <1>26, <1>27 DEF PoolInv

\* All who wait are woken, and nobody is left to miss a job.
LEMMA NotifyAllInv ==
  ASSUME PoolInv, NotifyAll
  PROVE  PoolInv'
<1>1. TypeOK /\ Numbers
    BY NumbersTyped DEF PoolInv
<1>2. UNCHANGED <<nWorking, nStaying, nComing, nFloor, nIdle, nReady, nLeaving>> /\ Parked' = {}
    <2>1. \A u \in Threads :
             thread'[u] = IF thread[u] \in {"parked", "timed"} THEN "woken" ELSE thread[u]
        BY DEF NotifyAll, Parked
    <2>2. ASSUME NEW S, "woken" \in S <=> "parked" \in S, "woken" \in S <=> "timed" \in S
          PROVE  In(S)' = In(S)
        BY <2>1, <2>2 DEF In
    <2>3. /\ In(ThreadStates \ {"absent", "opening"})' = In(ThreadStates \ {"absent", "opening"})
          /\ In(ThreadStates \ ({"absent", "opening"} \cup Leaving))'
                = In(ThreadStates \ ({"absent", "opening"} \cup Leaving))
        BY <2>1 DEF In, ThreadStates, Leaving
    <2>4. UNCHANGED <<nComing, nFloor, nIdle, nReady, nLeaving>>
        BY <2>2 DEF nComing, nFloor, nIdle, nReady, nLeaving
    <2>5. Parked' = {}
        BY <2>1 DEF Parked
    <2> QED
        BY <2>3, <2>4, <2>5 DEF nWorking, nStaying
<1>3. UNCHANGED <<nReserved, nNotify, nAnswers>>
    BY CallersStay DEF NotifyAll
<1>4. UNCHANGED Stops
    BY DEF Stops, NotifyAll, poolVars
<1>20. TypeOK'
    BY <1>1 DEF TypeOK, ThreadStates, NotifyAll, poolVars, openVars, history
<1>21. CountsInv'
    BY <1>2, <1>3, <1>4
       DEF PoolInv, CountsInv, Numbers, CountsOK, NotifyAll, Parked, poolVars
<1>22. OpenerInv'
    BY DEF PoolInv, OpenerInv, OpenerStates, NotifyAll, Parked, poolVars, openVars, history
<1>23. StopsInv'
    BY <1>3 DEF PoolInv, StopsInv, TypeOK, Leaving, NotifyAll, Parked, poolVars
<1>24. CeilingInv'
    BY <1>2, <1>3 DEF PoolInv, CeilingInv, NotifyAll, Parked, poolVars
<1>25. FloorInv'
    BY <1>2
       DEF PoolInv, FloorInv, CountsOK, TypeOK, OpenerStates, NotifyAll, Parked,
           poolVars, openVars, history
<1>26. BurstInv'
    BY <1>2
       DEF PoolInv, BurstInv, OpenerStates, NotifyAll, Parked, poolVars, openVars,
           history
<1>27. WakeupInv'
    BY <1>2 DEF WakeupInv
<1> QED
    BY <1>20, <1>21, <1>22, <1>23, <1>24, <1>25, <1>26, <1>27 DEF PoolInv

\* Fewer workers still fit.
LEMMA FewerFit ==
  ASSUME NEW a \in Nat, NEW b \in Nat, NEW c \in Nat, NEW d \in Nat, NEW m \in Nat,
         b <= a, a + c + d <= m
  PROVE  b + c + d <= m
OBVIOUS

\* Once a close began, a retirement that keeps the balance of the rendezvous keeps
\* every count.
LEMMA BalanceKept ==
  ASSUME PoolInv, Numbers, phase = "Closing",
         UNCHANGED <<nStaying, nComing, nFloor, nIdle, nReady, nWoken, nReserved,
                     nNotify>>,
         UNCHANGED <<Stops, queue, alive, pending, idle, phase, ender, Parked>>,
         remaining' = Stops + nLeaving' + nAnswers',
         nWorking' <= nWorking
  PROVE  /\ CountsInv' /\ CeilingInv' /\ FloorInv' /\ BurstInv' /\ WakeupInv'
         /\ remaining' \in Nat
<1>1. CountsInv' /\ remaining' \in Nat
    <2>1. Stops \in Nat /\ nLeaving' \in Nat /\ nAnswers' \in Nat
        BY DEF Numbers, CountsOK
    <2> QED
        BY <2>1 DEF PoolInv, CountsInv
<1>2. CeilingInv'
    <2>1. nWorking' + nReserved + nFloor <= Max
        BY Zenon, FewerFit DEF PoolInv, CeilingInv, Numbers, CountsOK
    <2> QED
        BY <2>1 DEF CeilingInv
<1>3. FloorInv' /\ BurstInv'
    BY DEF FloorInv, BurstInv
<1>4. WakeupInv'
    BY DEF PoolInv, WakeupInv
<1> QED
    BY <1>1, <1>2, <1>3, <1>4

\* A worker that retires is waited for until it counts itself off.
LEMMA WorkerDepositInv ==
  ASSUME PoolInv, NEW t \in Threads, Deposit, ThreadGoes(t, "deposit", "decrement")
  PROVE  PoolInv'
<1>1. TypeOK /\ Numbers
    BY NumbersTyped DEF PoolInv
<1>2. phase = "Closing"
    BY DEF PoolInv, StopsInv, Leaving, ThreadGoes
<1>3. /\ nLeaving' = nLeaving /\ nWorking' <= nWorking
      /\ UNCHANGED <<nStaying, nComing, nFloor, nIdle, nReady, nWoken>>
    <2>1. Moved("deposit", "decrement")
        BY ZenonT(30), <1>1, ThreadMoves DEF ThreadGoes, ThreadStates
    <2> QED
        BY <1>1, <2>1 DEF Numbers, CountsOK, Moved, Has, ThreadStates, Leaving
<1>4. UNCHANGED <<nReserved, nNotify, nAnswers>>
    BY CallersStay DEF ThreadGoes
<1>5. UNCHANGED <<Stops, queue, alive, pending, idle, phase, ender, shared, job,
                  opened, floorLeft>>
    BY DEF Stops, Deposit, poolVars, openVars
<1>6. remaining' = Stops + nLeaving' + nAnswers'
    BY <1>1, <1>2, <1>3, <1>4 DEF PoolInv, CountsInv, Deposit, Numbers, CountsOK
<1>7. UNCHANGED Parked
    BY <1>1 DEF Parked, TypeOK, ThreadGoes
<1>8. /\ CountsInv' /\ CeilingInv' /\ FloorInv' /\ BurstInv' /\ WakeupInv'
      /\ remaining' \in Nat
    BY <1>1, <1>2, <1>3, <1>4, <1>5, <1>6, <1>7, BalanceKept DEF Numbers, CountsOK
<1>9. TypeOK'
    BY <1>1, <1>8 DEF TypeOK, ThreadStates, ThreadGoes, Deposit, poolVars, openVars, history
<1>10. OpenerInv' /\ StopsInv'
    BY <1>1, <1>2, <1>5 DEF PoolInv, OpenerInv, OpenerStates, StopsInv, TypeOK, ThreadGoes
<1> QED
    BY <1>8, <1>9, <1>10 DEF PoolInv

\* It counts itself off once.
LEMMA WorkerDecrementInv ==
  ASSUME PoolInv, NEW t \in Threads, Decrement, ThreadGoes(t, "decrement", AfterCount("absent"))
  PROVE  PoolInv'
<1>1. TypeOK /\ Numbers
    BY NumbersTyped DEF PoolInv
<1>2. phase = "Closing"
    BY Zenon DEF PoolInv, StopsInv, Leaving, ThreadGoes
<1>3. /\ nLeaving' = nLeaving - 1 /\ nWorking' <= nWorking
      /\ UNCHANGED <<nStaying, nComing, nFloor, nIdle, nReady, nWoken>>
    <2>1. Moved("decrement", "last") \/ Moved("decrement", "absent")
        BY ZenonT(30), <1>1, ThreadMoves DEF ThreadGoes, AfterCount, ThreadStates
    <2> QED
        BY <1>1, <2>1 DEF Numbers, CountsOK, Moved, Has, ThreadStates, Leaving
<1>4. UNCHANGED <<nReserved, nNotify, nAnswers>>
    BY CallersStay DEF ThreadGoes
<1>5. UNCHANGED <<Stops, queue, alive, pending, idle, phase, ender, shared, job,
                  opened, floorLeft>>
    BY DEF Stops, Decrement, poolVars, openVars
<1>6. remaining' = Stops + nLeaving' + nAnswers'
    BY <1>1, <1>2, <1>3, <1>4 DEF PoolInv, CountsInv, Decrement, Numbers, CountsOK
<1>7. UNCHANGED Parked
    BY Zenon, <1>1 DEF Parked, TypeOK, ThreadGoes, AfterCount
<1>8. /\ CountsInv' /\ CeilingInv' /\ FloorInv' /\ BurstInv' /\ WakeupInv'
      /\ remaining' \in Nat
    BY Zenon, <1>1, <1>2, <1>3, <1>4, <1>5, <1>6, <1>7, BalanceKept DEF Numbers, CountsOK
<1>9. TypeOK'
    BY Zenon, <1>1, <1>8
       DEF TypeOK, ThreadStates, ThreadGoes, AfterCount, Decrement, poolVars, openVars,
           history
<1>10. OpenerInv' /\ StopsInv'
    BY <1>1, <1>2, <1>5
       DEF PoolInv, OpenerInv, OpenerStates, StopsInv, TypeOK, ThreadGoes, AfterCount
<1> QED
    BY <1>8, <1>9, <1>10 DEF PoolInv

\* The last one is waited for by nobody.
LEMMA WorkerClosesInv ==
  ASSUME PoolInv, NEW t \in Threads, CloseEngine, ThreadGoes(t, "last", "absent")
  PROVE  PoolInv'
<1>1. TypeOK /\ Numbers
    BY NumbersTyped DEF PoolInv
<1>2. phase = "Closing"
    BY DEF PoolInv, StopsInv, Leaving, ThreadGoes
<1>3. /\ nLeaving' = nLeaving /\ nWorking' <= nWorking
      /\ UNCHANGED <<nStaying, nComing, nFloor, nIdle, nReady, nWoken>>
    <2>1. Moved("last", "absent")
        BY ZenonT(30), <1>1, ThreadMoves DEF ThreadGoes, ThreadStates
    <2> QED
        BY <1>1, <2>1 DEF Numbers, CountsOK, Moved, Has, ThreadStates, Leaving
<1>4. UNCHANGED <<nReserved, nNotify, nAnswers>>
    BY CallersStay DEF ThreadGoes
<1>5. UNCHANGED <<Stops, queue, alive, pending, idle, phase, ender, shared, job,
                  opened, floorLeft>>
    BY DEF Stops, CloseEngine, CloseEngineIf, poolVars, openVars
<1>6. remaining' = Stops + nLeaving' + nAnswers'
    BY <1>1, <1>2, <1>3, <1>4
       DEF PoolInv, CountsInv, CloseEngine, CloseEngineIf, Numbers, CountsOK
<1>7. UNCHANGED Parked
    BY <1>1 DEF Parked, TypeOK, ThreadGoes
<1>8. /\ CountsInv' /\ CeilingInv' /\ FloorInv' /\ BurstInv' /\ WakeupInv'
      /\ remaining' \in Nat
    BY Zenon, <1>1, <1>2, <1>3, <1>4, <1>5, <1>6, <1>7, BalanceKept DEF Numbers, CountsOK
<1>9. TypeOK'
    BY Zenon, <1>1, <1>8
       DEF TypeOK, ThreadStates, ThreadGoes, CloseEngine, CloseEngineIf, poolVars,
           openVars, history
<1>10. OpenerInv' /\ StopsInv'
    BY <1>1, <1>2, <1>5 DEF PoolInv, OpenerInv, OpenerStates, StopsInv, TypeOK, ThreadGoes
<1> QED
    BY <1>8, <1>9, <1>10 DEF PoolInv

\* The task whose worker never started retires in its place.
LEMMA TaskDepositInv ==
  ASSUME PoolInv, NEW j \in Jobs, Deposit, CallerGoes(j, "deposit", "decrement")
  PROVE  PoolInv'
<1>1. TypeOK /\ Numbers
    BY NumbersTyped DEF PoolInv
<1>2. phase = "Closing"
    BY DEF PoolInv, StopsInv, Leaving, CallerGoes
<1>3. nAnswers' = nAnswers /\ UNCHANGED <<nReserved, nNotify>>
    <2>1. CallerMoved("deposit", "decrement")
        BY Zenon, <1>1, CallerMoves DEF CallerGoes, ThreadStates
    <2> QED
        BY <1>1, <2>1 DEF Numbers, CountsOK, CallerMoved, Has, ThreadStates, Leaving
<1>4. UNCHANGED <<nWorking, nStaying, nComing, nFloor, nIdle, nReady, nWoken, nLeaving,
                 Parked>>
    BY ThreadsStay DEF CallerGoes
<1>5. UNCHANGED <<Stops, queue, alive, pending, idle, phase, ender, shared, job,
                  opened, floorLeft>>
    BY DEF Stops, Deposit, poolVars, openVars
<1>6. remaining' = Stops + nLeaving' + nAnswers'
    BY <1>1, <1>2, <1>3, <1>4 DEF PoolInv, CountsInv, Deposit, Numbers, CountsOK
<1>7. /\ CountsInv' /\ CeilingInv' /\ FloorInv' /\ BurstInv' /\ WakeupInv'
      /\ remaining' \in Nat
    BY <1>1, <1>2, <1>3, <1>4, <1>5, <1>6, BalanceKept DEF Numbers, CountsOK
<1>8. TypeOK'
    BY <1>1, <1>7 DEF TypeOK, CallerStates, CallerGoes, Deposit, poolVars, openVars, history
<1>9. OpenerInv' /\ StopsInv'
    BY <1>1, <1>2, <1>5 DEF PoolInv, OpenerInv, OpenerStates, StopsInv, TypeOK, CallerGoes
<1> QED
    BY <1>7, <1>8, <1>9 DEF PoolInv

\* It counts that worker off once.
LEMMA TaskDecrementInv ==
  ASSUME PoolInv, NEW j \in Jobs, Decrement, CallerGoes(j, "decrement", AfterCount("queued"))
  PROVE  PoolInv'
<1>1. TypeOK /\ Numbers
    BY NumbersTyped DEF PoolInv
<1>2. phase = "Closing"
    BY DEF PoolInv, StopsInv, Leaving, CallerGoes
<1>3. nAnswers' = nAnswers - 1 /\ UNCHANGED <<nReserved, nNotify>>
    <2>1. CallerMoved("decrement", "last") \/ CallerMoved("decrement", "queued")
        BY ZenonT(30), <1>1, CallerMoves DEF CallerGoes, AfterCount, ThreadStates
    <2> QED
        BY <1>1, <2>1 DEF Numbers, CountsOK, CallerMoved, Has, ThreadStates, Leaving
<1>4. UNCHANGED <<nWorking, nStaying, nComing, nFloor, nIdle, nReady, nWoken, nLeaving,
                 Parked>>
    BY ThreadsStay DEF CallerGoes
<1>5. UNCHANGED <<Stops, queue, alive, pending, idle, phase, ender, shared, job,
                  opened, floorLeft>>
    BY DEF Stops, Decrement, poolVars, openVars
<1>6. remaining' = Stops + nLeaving' + nAnswers'
    BY <1>1, <1>2, <1>3, <1>4 DEF PoolInv, CountsInv, Decrement, Numbers, CountsOK
<1>7. /\ CountsInv' /\ CeilingInv' /\ FloorInv' /\ BurstInv' /\ WakeupInv'
      /\ remaining' \in Nat
    BY <1>1, <1>2, <1>3, <1>4, <1>5, <1>6, BalanceKept DEF Numbers, CountsOK
<1>8. TypeOK'
    BY Zenon, <1>1, <1>7
       DEF TypeOK, CallerStates, CallerGoes, AfterCount, Decrement, poolVars, openVars,
           history
<1>9. OpenerInv' /\ StopsInv'
    BY <1>1, <1>2, <1>5
       DEF PoolInv, OpenerInv, OpenerStates, StopsInv, TypeOK, CallerGoes, AfterCount
<1> QED
    BY <1>7, <1>8, <1>9 DEF PoolInv

\* The task too may be the last.
LEMMA TaskClosesInv ==
  ASSUME PoolInv, NEW j \in Jobs, CloseEngine, CallerGoes(j, "last", "queued")
  PROVE  PoolInv'
<1>1. TypeOK /\ Numbers
    BY NumbersTyped DEF PoolInv
<1>2. phase = "Closing"
    BY Zenon DEF PoolInv, StopsInv, Leaving, CallerGoes
<1>3. nAnswers' = nAnswers /\ UNCHANGED <<nReserved, nNotify>>
    <2>1. CallerMoved("last", "queued")
        BY ZenonT(30), <1>1, CallerMoves DEF CallerGoes, ThreadStates
    <2> QED
        BY <1>1, <2>1 DEF Numbers, CountsOK, CallerMoved, Has, ThreadStates, Leaving
<1>4. UNCHANGED <<nWorking, nStaying, nComing, nFloor, nIdle, nReady, nWoken, nLeaving,
                 Parked>>
    BY ThreadsStay DEF CallerGoes
<1>5. UNCHANGED <<Stops, queue, alive, pending, idle, phase, ender, shared, job,
                  opened, floorLeft>>
    BY DEF Stops, CloseEngine, CloseEngineIf, poolVars, openVars
<1>6. remaining' = Stops + nLeaving' + nAnswers'
    BY Zenon, <1>1, <1>2, <1>3, <1>4
       DEF PoolInv, CountsInv, CloseEngine, CloseEngineIf, Numbers, CountsOK
<1>7. /\ CountsInv' /\ CeilingInv' /\ FloorInv' /\ BurstInv' /\ WakeupInv'
      /\ remaining' \in Nat
    BY <1>1, <1>2, <1>3, <1>4, <1>5, <1>6, BalanceKept DEF Numbers, CountsOK
<1>8. TypeOK'
    BY Zenon, <1>1, <1>7
       DEF TypeOK, CallerStates, CallerGoes, CloseEngine, CloseEngineIf, poolVars,
           openVars, history
<1>9. OpenerInv' /\ StopsInv'
    BY <1>1, <1>2, <1>5 DEF PoolInv, OpenerInv, OpenerStates, StopsInv, TypeOK, CallerGoes
<1> QED
    BY <1>7, <1>8, <1>9 DEF PoolInv

--------------------------------------------------------------------------------
(* The invariant *)

\* PoolInv holds as the first thread starts.
LEMMA PoolInitInv == Init => PoolInv
<1> SUFFICES ASSUME Init
             PROVE  PoolInv
    OBVIOUS
<1>1. PICK first \in Threads :
        thread = [t \in Threads |-> IF t = first THEN "opening" ELSE "absent"]
    BY DEF Init
<1>2. ASSUME NEW S, "opening" \notin S, "absent" \notin S
      PROVE  Cardinality(In(S)) = 0
    <2>1. In(S) = {}
        BY <1>1, <1>2 DEF In
    <2> QED
        BY <2>1, FS_EmptySet
<1>3. ASSUME NEW S, "new" \notin S
      PROVE  Cardinality(At(S)) = 0
    <2>1. At(S) = {}
        BY <1>3 DEF At, Init
    <2> QED
        BY <2>1, FS_EmptySet
<1>4. /\ nWorking = 0 /\ nStaying = 0 /\ nComing = 0 /\ nFloor = 0 /\ nIdle = 0 /\ nReady = 0
      /\ nWoken = 0 /\ nLeaving = 0 /\ nReserved = 0 /\ nNotify = 0 /\ nAnswers = 0
    BY <1>2, <1>3
       DEF nWorking, nStaying, nComing, nFloor, nIdle, nReady, nWoken, nLeaving,
           nReserved, nNotify, nAnswers
<1>5. TypeOK
    <2>1. thread \in [Threads -> ThreadStates]
        BY <1>1 DEF ThreadStates
    <2>2. caller \in [Jobs -> CallerStates]
        BY DEF Init, CallerStates
    <2>3. queue \in Seq(Jobs \cup {Stop}) /\ floorLeft \in Nat
        BY LimitsAssumption DEF Init
    <2> QED
        BY Zenon, <2>1, <2>2, <2>3 DEF Init, TypeOK
<1>6. OpenerInv /\ StopsInv
    BY LimitsAssumption DEF Init, OpenerInv, OpenerStates, StopsInv, Leaving
<1>7. CountsInv /\ CeilingInv /\ BurstInv
    BY <1>4, LimitsAssumption DEF Init, CountsInv, CeilingInv, BurstInv
<1>8. FloorInv
    BY <1>1 DEF Init, FloorInv
<1>9. WakeupInv
    BY <1>1 DEF WakeupInv, Parked
<1> QED
    BY <1>5, <1>6, <1>7, <1>8, <1>9 DEF PoolInv

\* PoolInv is inductive.
LEMMA PoolNextInv == PoolInv /\ [Next]_vars => PoolInv'
<1> SUFFICES ASSUME PoolInv, [Next]_vars
             PROVE  PoolInv'
    OBVIOUS
<1>1. ASSUME NEW t \in Threads, Opener(t)
      PROVE  PoolInv'
    BY <1>1, OpenFailsInv, OpensInv, ReserveFloorInv, SpawnFloorInv, PublishInv,
       ReportInv
       DEF Opener
<1>2. ASSUME NEW t \in Threads, Worker(t)
      PROVE  PoolInv'
    BY <1>2, ArriveInv, TakeJobInv, RetireInv, ParkInv, TimedOutInv, JobDoneInv,
       WorkerDepositInv, WorkerDecrementInv, WorkerClosesInv
       DEF Worker, RetireWorker
<1>3. ASSUME NEW j \in Jobs, Task(j)
      PROVE  PoolInv'
    BY Zenon, <1>3, NotifyOneInv, SpawnInv, SpawnFailsInv, LetGoInv, TaskDepositInv,
       TaskDecrementInv, TaskClosesInv
       DEF Task, RetireUnstarted
<1>4. CASE UNCHANGED vars
    <2>1. UNCHANGED <<thread, caller, queue>>
        BY <1>4 DEF vars, threadVars, poolVars
    <2>2. /\ UNCHANGED <<nWorking, nStaying, nComing, nFloor, nIdle, nReady,
                         nWoken, nLeaving, Parked>>
          /\ UNCHANGED <<nReserved, nNotify, nAnswers>>
          /\ UNCHANGED Stops
        BY <2>1, ThreadsStay, CallersStay DEF Stops
    <2> QED
        BY <1>4, <2>2
           DEF vars, poolVars, threadVars, openVars, closeVars, history, PoolInv,
               TypeOK, CountsInv, OpenerInv, StopsInv, CeilingInv, FloorInv, BurstInv,
               WakeupInv
<1>5. CASE Terminated
    BY <1>4, <1>5 DEF Terminated
<1> QED
    BY <1>1, <1>2, <1>3, <1>4, <1>5, ElapseInv, SpuriousWakeInv, DispatchInv,
       BeginCloseInv, AbandonInv, NotifyAllInv
       DEF Next

--------------------------------------------------------------------------------
(* What the pool promises *)

\* The counts of PoolInv are the ones the properties are stated in.
LEMMA PoolCounts ==
  /\ Reserving = nReserved + nFloor
  /\ Cardinality(Working) = nWorking
  /\ Cardinality(Working \ In({"deposit", "decrement", "last"})) = nStaying
  /\ Retiring = nLeaving + nAnswers
<1>1. Working \ In({"deposit", "decrement", "last"})
        = In(ThreadStates \ ({"absent", "opening"} \cup Leaving))
    BY DEF Working, In, Leaving
<1> QED
    BY <1>1
       DEF Reserving, Working, Retiring, nReserved, nFloor, nWorking, nStaying,
           nLeaving, nAnswers

\* PoolInv always holds.
LEMMA PoolAlways == Spec => []PoolInv
BY PoolInitInv, PoolNextInv, PTL DEF Spec

\* For any pool, `alive` and its kin count what they say, and a close waits for
\* exactly the workers it stops.
THEOREM PoolCountsExactly == Spec => []CountsExact
<1>1. PoolInv => CountsExact
    <2>1. ASSUME PoolInv
          PROVE  Stops \in Nat
        BY <2>1, NumbersTyped DEF PoolInv, Numbers
    <2> QED
        BY PoolCounts, CountsTyped
           DEF CountsOK, PoolInv, CountsInv, CountsExact, nComing, nIdle
<1> QED
    BY <1>1, PoolAlways, PTL

\* No burst, failure or close takes a pool past its ceiling.
THEOREM CeilingKept == Spec => []ThreadCeiling
<1>1. PoolInv => ThreadCeiling
    BY PoolCounts, CountsTyped DEF CountsOK, PoolInv, CeilingInv, ThreadCeiling
<1> QED
    BY <1>1, PoolAlways, PTL

\* A pool in use never falls below the floor it was opened with.
THEOREM FloorHolds == Spec => []FloorOfWorkers
<1>1. PoolInv => FloorOfWorkers
    BY PoolCounts DEF PoolInv, FloorInv, FloorOfWorkers
<1> QED
    BY <1>1, PoolAlways, PTL

\* No job waits behind busy workers that the ceiling has room to add to.
THEOREM BurstsAreServed == Spec => []BurstGetsWorkers
<1>1. PoolInv => BurstGetsWorkers
    BY DEF PoolInv, BurstInv, BurstGetsWorkers, nReady
<1> QED
    BY <1>1, PoolAlways, PTL

\* No queued job is left to sleeping workers.
THEOREM WakeupsArrive == Spec => []NoLostWakeup
<1>1. PoolInv => NoLostWakeup
    BY DEF PoolInv, WakeupInv, NoLostWakeup, nNotify, nWoken
<1> QED
    BY <1>1, PoolAlways, PTL

--------------------------------------------------------------------------------
(* The engine outlives its jobs *)

\* Workers that will yet come back to the queue, or are there.
Serving == {"starting", "ready", "woken", "parked", "timed", "running"}

\* An accepted job is queued, running or done.
JobsInv ==
  \A j \in Jobs : \/ caller[j] \in {"new", "refused"} \/ j \in served
                  \/ \E i \in 1..Len(queue) : queue[i] = j
                  \/ \E t \in Threads : thread[t] = "running" /\ job[t] = j

\* A pool in use has a worker to serve it, and one that is ending keeps one for
\* as long as jobs are queued.
ServersInv ==
  opened = "ok" /\ (phase = "Open" \/ \E i \in 1..Len(queue) : queue[i] # Stop)
    => \E t \in Threads : thread[t] \in Serving

\* After a close that succeeded nobody has a handle, and nobody to get one from.
ClosedInv ==
  reply = "ok" => /\ opened = "ok" /\ ThreadHandles = {} /\ CallerHandles = {}
                  /\ vault = 0 /\ ~shared

\* Steps that neither accept, take nor finish a job.
Quiet ==
  /\ UNCHANGED <<queue, served>>
  /\ \A t \in Threads : thread[t] = "running" =>
       thread'[t] = "running" /\ job'[t] = job[t]
  /\ \A j \in Jobs : caller[j] \in {"new", "refused"} => caller'[j] = caller[j]

\* Of the steps that change nothing of the jobs JobsInv speaks of.
LEMMA QuietJobs ==
  ASSUME JobsInv, Quiet
  PROVE  JobsInv'
BY DEF JobsInv, Quiet

\* Opening and starting the floor concern no job.
LEMMA OpenerQuiet ==
  ASSUME TypeOK, NEW t \in Threads, Opener(t)
  PROVE  Quiet
BY Zenon DEF Quiet, TypeOK, Opener, OpenFails, Opens, Reserved, ReserveFloor, SpawnFloor,
       Publish, PublishIf, Report, poolVars, history, threadVars, closeVars, openVars

\* Nor do a worker's waits and its retirement.
LEMMA WorkerQuiet ==
  ASSUME TypeOK, NEW t \in Threads,
         \/ Arrive(t) \/ Retire(t) \/ Park(t) \/ TimedOut(t) \/ RetireWorker(t)
         \/ Elapse(t) \/ SpuriousWake(t)
  PROVE  Quiet
<1>1. CASE Arrive(t) \/ TimedOut(t) \/ Elapse(t) \/ SpuriousWake(t)
    BY Zenon, <1>1 DEF Quiet, TypeOK, Arrive, TimedOut, Elapse, SpuriousWake, Parked, poolVars,
       history
<1>2. CASE Retire(t) \/ Park(t)
    BY Zenon, <1>2 DEF Quiet, TypeOK, Retire, MayRetire, Retired, Park, ParkIf, InLoop, history
<1>3. CASE RetireWorker(t)
    BY <1>3 DEF Quiet, TypeOK, RetireWorker, ThreadGoes, Deposit, Decrement, CloseEngine,
       CloseEngineIf, poolVars, history
<1> QED
    BY <1>1, <1>2, <1>3

\* Nor does what a task does once its job is queued.
LEMMA TaskQuiet ==
  ASSUME TypeOK, NEW j \in Jobs,
         NotifyOne(j) \/ Spawn(j) \/ LetGo(j) \/ RetireUnstarted(j)
  PROVE  Quiet
<1>1. CASE NotifyOne(j)
    BY Zenon, <1>1 DEF Quiet, TypeOK, NotifyOne, Parked, poolVars, history
<1>2. CASE Spawn(j) \/ LetGo(j)
    BY Zenon, <1>2 DEF Quiet, TypeOK, Spawn, LetGo, poolVars, threadVars, history
<1>3. CASE RetireUnstarted(j)
    BY <1>3 DEF Quiet, TypeOK, RetireUnstarted, CallerGoes, Deposit, Decrement,
       CloseEngine, CloseEngineIf, poolVars, history
<1> QED
    BY Zenon, <1>1, <1>2, <1>3

\* Nor do a drop and the wakeup of everybody.
LEMMA EndQuiet ==
  ASSUME Abandon \/ NotifyAll \/ UNCHANGED vars
  PROVE  Quiet
BY DEF Quiet, Abandon, NotifyAll, Parked, vars, poolVars, threadVars, history

\* What a worker takes it runs, and what it ran is served.
LEMMA TakeJobJobs ==
  ASSUME PoolInv, JobsInv, NEW t \in Threads, TakeJob(t)
  PROVE  JobsInv'
<1> SUFFICES ASSUME NEW j \in Jobs, caller[j] \notin {"new", "refused"}, j \notin served,
                    ~ \E u \in Threads : thread[u] = "running" /\ job[u] = j
             PROVE  \/ \E i \in 1..Len(queue') : queue'[i] = j
                    \/ \E u \in Threads : thread'[u] = "running" /\ job'[u] = j
    BY DEF JobsInv, TakeJob, InLoop, PoolInv, TypeOK, history
<1>1. PICK i \in 1..Len(queue) : queue[i] = j
    BY ZenonT(30) DEF JobsInv
<1>2. CASE i = 1
    <2>1. Head(queue) = j /\ j # Stop
        BY <1>1, <1>2, NamesAssumption DEF PoolInv, TypeOK
    <2>2. thread'[t] = "running" /\ job'[t] = j
        BY <2>1 DEF TakeJob, PoolInv, TypeOK
    <2> QED
        BY Zenon, <2>2
<1>3. CASE i # 1
    <2>1. i - 1 \in 1..Len(queue') /\ queue'[i - 1] = queue[i]
        BY <1>3 DEF TakeJob, PoolInv, TypeOK
    <2> QED
        BY <1>1, <2>1
<1> QED
    BY ZenonT(30), <1>2, <1>3

\* A job that ends, or panics, is served.
LEMMA JobDoneJobs ==
  ASSUME PoolInv, JobsInv, NEW t \in Threads, JobDone(t)
  PROVE  JobsInv'
BY Zenon DEF JobsInv, JobDone, PoolInv, TypeOK, poolVars

\* A job that is accepted is queued, behind what was.
LEMMA DispatchJobs ==
  ASSUME PoolInv, JobsInv, NEW j \in Jobs, Dispatch(j)
  PROVE  JobsInv'
<1>1. /\ queue' \in {queue, Append(queue, j)}
      /\ caller'[j] = "refused" \/ queue' = Append(queue, j)
      /\ UNCHANGED <<served, thread, job>>
      /\ \A k \in Jobs : k # j => caller'[k] = caller[k]
    BY DEF Dispatch, PoolInv, TypeOK, threadVars, history
<1>2. \A i \in 1..Len(queue) : i \in 1..Len(queue') /\ queue'[i] = queue[i]
    BY <1>1 DEF PoolInv, TypeOK
<1>3. queue' = Append(queue, j) => \E i \in 1..Len(queue') : queue'[i] = j
    BY DEF PoolInv, TypeOK
<1> QED
    BY <1>1, <1>2, <1>3 DEF JobsInv

\* A worker that cannot be started takes a Stop with it, never a job.
LEMMA SpawnFailsJobs ==
  ASSUME PoolInv, JobsInv, NEW j \in Jobs, SpawnFails(j)
  PROVE  JobsInv'
<1>1. /\ UNCHANGED <<served, thread, job>>
      /\ \A k \in Jobs : caller[k] \in {"new", "refused"} => caller'[k] = caller[k]
    BY DEF SpawnFails, SpawnFailsIn, PoolInv, TypeOK, threadVars
<1>2. \A i \in 1..Len(queue) : queue[i] # Stop =>
           i \in 1..Len(queue') /\ queue'[i] = queue[i]
    BY DEF SpawnFails, SpawnFailsIn, PoolInv, TypeOK
<1> QED
    BY <1>1, <1>2, NamesAssumption DEF JobsInv

\* The stops of a close are queued behind the jobs.
LEMMA BeginCloseJobs ==
  ASSUME PoolInv, JobsInv, BeginClose
  PROVE  JobsInv'
<1>1. UNCHANGED <<served, thread, job, caller>>
    BY DEF BeginClose, threadVars, history
<1>2. \A i \in 1..Len(queue) : i \in 1..Len(queue') /\ queue'[i] = queue[i]
    BY DEF BeginClose, PoolInv, TypeOK
<1> QED
    BY <1>1, <1>2 DEF JobsInv

\* Every step keeps JobsInv.
LEMMA JobsKept ==
  ASSUME PoolInv, JobsInv, [Next]_vars
  PROVE  JobsInv'
<1> TypeOK
    BY DEF PoolInv
<1>1. ASSUME NEW t \in Threads, Opener(t) \/ Worker(t) \/ Elapse(t) \/ SpuriousWake(t)
      PROVE  JobsInv'
    BY <1>1, OpenerQuiet, WorkerQuiet, QuietJobs, TakeJobJobs, JobDoneJobs DEF Worker
<1>2. ASSUME NEW j \in Jobs, Dispatch(j) \/ Task(j)
      PROVE  JobsInv'
    BY <1>2, TaskQuiet, QuietJobs, DispatchJobs, SpawnFailsJobs DEF Task
<1>3. CASE UNCHANGED vars
    BY <1>3, EndQuiet, QuietJobs
<1> QED
    BY <1>1, <1>2, <1>3, EndQuiet, QuietJobs, BeginCloseJobs DEF Next, Terminated

\* Steps after which nobody stopped serving and no more is asked of the workers.
Steady ==
  /\ \A t \in Threads : thread[t] \in Serving => thread'[t] \in Serving
  /\ opened' = "ok" => opened = "ok"
  /\ phase' = "Open" => phase = "Open"
  /\ \/ phase = "Open"
     \/ \A i \in 1..Len(queue') : queue'[i] # Stop =>
            \E k \in 1..Len(queue) : queue[k] # Stop

\* A steady step leaves whoever served serving.
LEMMA SteadyServers ==
  ASSUME ServersInv, Steady
  PROVE  ServersInv'
BY DEF ServersInv, Steady

\* The opening thread does not serve until it has reported.
LEMMA OpenerServers ==
  ASSUME PoolInv, ServersInv, NEW t \in Threads, Opener(t)
  PROVE  ServersInv'
<1>1. CASE Report(t)
    BY Zenon, <1>1 DEF ServersInv, Serving, Report, PoolInv, TypeOK
<1>2. CASE OpenFails(t) \/ Opens(t) \/ ReserveFloor(t) \/ Publish(t)
    BY Zenon, <1>2, SteadyServers
       DEF Steady, Serving, PoolInv, TypeOK, OpenFails, Opens, Reserved, ReserveFloor,
           Publish, PublishIf, poolVars, openVars
<1>3. CASE SpawnFloor(t)
    BY <1>3, SteadyServers DEF Steady, Serving, PoolInv, TypeOK, SpawnFloor, openVars
<1> QED
    BY Zenon, <1>1, <1>2, <1>3 DEF Opener

\* Idling, waking and finishing a job are all part of serving.
LEMMA WorkerServers ==
  ASSUME PoolInv, ServersInv, NEW t \in Threads,
         \/ Arrive(t) \/ Park(t) \/ TimedOut(t) \/ JobDone(t) \/ RetireWorker(t)
         \/ Elapse(t) \/ SpuriousWake(t)
  PROVE  ServersInv'
<1>1. CASE Arrive(t) \/ TimedOut(t) \/ JobDone(t) \/ Elapse(t) \/ SpuriousWake(t)
    BY Zenon, <1>1, SteadyServers
       DEF Steady, Serving, PoolInv, TypeOK, Arrive, TimedOut, JobDone, Elapse,
           SpuriousWake, poolVars, openVars
<1>2. CASE Park(t)
    BY Zenon, <1>2, SteadyServers DEF Steady, Serving, PoolInv, TypeOK, Park, ParkIf, openVars
<1>3. CASE RetireWorker(t)
    BY <1>3, SteadyServers
       DEF Steady, Serving, PoolInv, TypeOK, RetireWorker, ThreadGoes, Deposit, Decrement,
           CloseEngine, CloseEngineIf, poolVars, openVars
<1> QED
    BY Zenon, <1>1, <1>2, <1>3

\* A worker that takes a Stop leaves no job behind it; any other goes on.
LEMMA TakeJobServers ==
  ASSUME PoolInv, ServersInv, NEW t \in Threads, TakeJob(t)
  PROVE  ServersInv'
<1>1. CASE Head(queue) # Stop
    BY Zenon, <1>1 DEF ServersInv, Serving, TakeJob, PoolInv, TypeOK
<1>2. CASE Head(queue) = Stop
    <2>1. phase' = "Closing" /\ queue[1] = Stop
        BY <1>2 DEF PoolInv, TypeOK, StopsInv, TakeJob
    <2>2. ASSUME NEW i \in 1..Len(queue')
          PROVE  queue'[i] = Stop
        <3>1. i + 1 \in 1..Len(queue) /\ queue'[i] = queue[i + 1] /\ 1 \in 1..Len(queue)
            BY DEF PoolInv, TypeOK, TakeJob
        <3> QED
            BY <2>1, <3>1 DEF PoolInv, StopsInv
    <2> QED
        BY Zenon, <2>1, <2>2 DEF ServersInv
<1> QED
    BY <1>1, <1>2

\* The pool spares a worker only while more than the floor have arrived, and one
\* that was abandoned loses none before the queue is empty.
LEMMA RetireServers ==
  ASSUME PoolInv, PoolInv', ServersInv, NEW t \in Threads, Retire(t)
  PROVE  ServersInv'
<1>1. CASE phase = "Abandoned"
    BY <1>1 DEF ServersInv, Retire, Retired, MayRetire
<1>2. CASE phase # "Abandoned"
    <2>1. TypeOK /\ Numbers /\ thread[t] \in {"ready", "woken"}
        BY NumbersTyped DEF PoolInv, Retire, MayRetire, InLoop
    <2>2. Moved(thread[t], "absent")
        BY ZenonT(30), <2>1, ThreadMoves DEF Retire, Retired
    <2>3. nWorking' = nWorking - 1 /\ nComing' = nComing
        BY <2>1, <2>2 DEF Numbers, CountsOK, Moved, Has, ThreadStates
    <2>4. alive - pending > 1 /\ phase = "Open" /\ phase' = "Open"
        BY <1>2, LimitsAssumption
           DEF Retire, MayRetire, Retired, Sparable, PoolInv, TypeOK
    <2>5. nWorking - nComing > 1
        BY <2>1, <2>4 DEF PoolInv, CountsInv, Numbers, CountsOK
    <2>6. nWorking' # nComing'
        BY <2>1, <2>3, <2>5 DEF Numbers, CountsOK
    <2>7. PICK u \in Threads :
             /\ thread'[u] \in ThreadStates \ {"absent", "opening"}
             /\ thread'[u] \notin {"flooring", "floorSpawn", "reporting", "starting"}
        BY Zenon, <2>6 DEF nWorking, nComing, In, ThreadStates
    <2>8. thread'[u] \notin Leaving
        BY <2>4 DEF PoolInv, StopsInv
    <2> QED
        BY <2>7, <2>8 DEF ServersInv, Serving, ThreadStates, Leaving
<1> QED
    BY <1>1, <1>2

\* A task starts a worker at most, and takes a Stop from the queue at most.
LEMMA TaskServers ==
  ASSUME PoolInv, ServersInv, NEW j \in Jobs, Dispatch(j) \/ Task(j)
  PROVE  ServersInv'
<1>1. CASE Dispatch(j)
    BY Zenon, <1>1, SteadyServers DEF Steady, Dispatch, threadVars, openVars
<1>2. CASE NotifyOne(j)
    BY Zenon, <1>2, SteadyServers
       DEF Steady, Serving, PoolInv, TypeOK, NotifyOne, Parked, poolVars, openVars
<1>3. CASE Spawn(j) \/ LetGo(j)
    BY <1>3, SteadyServers
       DEF Steady, Serving, PoolInv, TypeOK, Spawn, LetGo, poolVars, threadVars, openVars
<1>4. CASE SpawnFails(j)
    <2>1. \A i \in 1..Len(queue') : i \in 1..Len(queue) /\ queue'[i] = queue[i]
        BY <1>4 DEF SpawnFails, SpawnFailsIn, PoolInv, TypeOK
    <2> QED
        BY Zenon, <1>4, <2>1, SteadyServers
           DEF Steady, SpawnFails, SpawnFailsIn, threadVars, openVars
<1>5. CASE RetireUnstarted(j)
    BY <1>5, SteadyServers
       DEF Steady, RetireUnstarted, CallerGoes, Deposit, Decrement, CloseEngine,
           CloseEngineIf, poolVars, openVars
<1> QED
    BY Zenon, <1>1, <1>2, <1>3, <1>4, <1>5 DEF Task

\* A close and a drop find the pool open, with a worker to serve what is queued.
LEMMA EndServers ==
  ASSUME PoolInv, ServersInv, BeginClose \/ Abandon \/ NotifyAll \/ UNCHANGED vars
  PROVE  ServersInv'
<1>1. CASE BeginClose \/ Abandon \/ UNCHANGED vars
    BY Zenon, <1>1, SteadyServers
       DEF Steady, BeginClose, Abandon, vars, poolVars, threadVars, openVars
<1>2. CASE NotifyAll
    BY <1>2, SteadyServers
       DEF Steady, Serving, PoolInv, TypeOK, NotifyAll, Parked, poolVars, openVars
<1> QED
    BY Zenon, <1>1, <1>2

\* Every step keeps ServersInv.
LEMMA ServersKept ==
  ASSUME PoolInv, PoolInv', ServersInv, [Next]_vars
  PROVE  ServersInv'
<1>1. ASSUME NEW t \in Threads, Opener(t) \/ Worker(t) \/ Elapse(t) \/ SpuriousWake(t)
      PROVE  ServersInv'
    BY <1>1, OpenerServers, WorkerServers, TakeJobServers, RetireServers DEF Worker
<1> QED
    BY <1>1, TaskServers, EndServers DEF Next, Terminated

\* Nobody has a handle exactly if Owners counts none.
LEMMA NoOwners ==
  ASSUME TypeOK
  PROVE  /\ Owners = 0 <=> /\ ThreadHandles = {} /\ CallerHandles = {}
                           /\ vault = 0 /\ ~shared
         /\ Owners = vault => ThreadHandles = {} /\ CallerHandles = {} /\ ~shared
<1>1. IsFiniteSet(ThreadHandles) /\ IsFiniteSet(CallerHandles)
    BY FiniteAssumption, FS_Subset DEF ThreadHandles, CallerHandles
<1>2. /\ Cardinality(ThreadHandles) \in Nat /\ Cardinality(CallerHandles) \in Nat
      /\ Cardinality(ThreadHandles) = 0 <=> ThreadHandles = {}
      /\ Cardinality(CallerHandles) = 0 <=> CallerHandles = {}
    BY <1>1, FS_CardinalityType, FS_EmptySet
<1>3. vault \in Nat /\ shared \in BOOLEAN
    BY DEF TypeOK
<1>4. CASE shared
    BY <1>2, <1>3, <1>4 DEF Owners
<1>5. CASE ~shared
    BY <1>2, <1>3, <1>5 DEF Owners
<1> QED
    BY <1>4, <1>5

\* Steps that neither answer a close nor give anybody a handle.
NoNewOwner ==
  /\ UNCHANGED <<reply, vault>>
  /\ opened = "ok" => opened' = "ok"
  /\ ~shared => ~shared'
  /\ ThreadHandles' \subseteq ThreadHandles
  /\ CallerHandles' \subseteq CallerHandles

\* Such a step leaves a closed engine closed.
LEMMA NoNewOwnerClosed ==
  ASSUME ClosedInv, NoNewOwner
  PROVE  ClosedInv'
BY DEF ClosedInv, NoNewOwner

\* The opening thread has reported before a close can be answered.
LEMMA OpenerClosed ==
  ASSUME PoolInv, ClosedInv, NEW t \in Threads, Opener(t)
  PROVE  ClosedInv'
<1>1. thread[t] \in OpenerStates
    BY DEF Opener, OpenFails, Opens, ReserveFloor, SpawnFloor, Publish, PublishIf,
           Report, OpenerStates
<1>2. reply # "ok"
    BY Zenon, <1>1 DEF PoolInv, OpenerInv, ClosedInv
<1>3. UNCHANGED reply
    BY DEF Opener, OpenFails, Opens, ReserveFloor, SpawnFloor, Publish, PublishIf,
           Report, closeVars
<1> QED
    BY Zenon, <1>2, <1>3 DEF ClosedInv

\* A worker had its handle when it started.
LEMMA WorkerClosed ==
  ASSUME PoolInv, ClosedInv, NEW t \in Threads,
         \/ Arrive(t) \/ TakeJob(t) \/ Retire(t) \/ Park(t) \/ TimedOut(t)
         \/ JobDone(t) \/ Elapse(t) \/ SpuriousWake(t)
  PROVE  ClosedInv'
<1>1. CASE Arrive(t) \/ JobDone(t)
    BY <1>1, NoNewOwnerClosed
       DEF NoNewOwner, ThreadHandles, CallerHandles, PoolInv, TypeOK, Arrive,
           JobDone, poolVars, openVars, closeVars
<1>2. CASE TimedOut(t) \/ Elapse(t) \/ SpuriousWake(t)
    BY <1>2, NoNewOwnerClosed
       DEF NoNewOwner, ThreadHandles, CallerHandles, PoolInv, TypeOK, TimedOut,
           Elapse, SpuriousWake, Parked, poolVars, openVars, closeVars
<1>3. CASE TakeJob(t) \/ Park(t)
    BY <1>3, NoNewOwnerClosed
       DEF NoNewOwner, ThreadHandles, CallerHandles, PoolInv, TypeOK, TakeJob, Park, ParkIf,
           InLoop, openVars, closeVars
<1>4. CASE Retire(t)
    BY <1>4, NoNewOwnerClosed
       DEF NoNewOwner, ThreadHandles, CallerHandles, PoolInv, TypeOK,
           Retire, MayRetire, Retired, InLoop, openVars, closeVars
<1> QED
    BY Zenon, <1>1, <1>2, <1>3, <1>4

\* Only a handle becomes two: a task without one can start nobody.
LEMMA TaskClosed ==
  ASSUME PoolInv, ClosedInv, NEW j \in Jobs,
         Dispatch(j) \/ NotifyOne(j) \/ Spawn(j) \/ SpawnFails(j) \/ LetGo(j)
  PROVE  ClosedInv'
<1>1. CASE Dispatch(j)
    BY Zenon, <1>1
       DEF ClosedInv, ThreadHandles, CallerHandles, PoolInv, TypeOK, Dispatch, threadVars,
           openVars, closeVars
<1>2. CASE NotifyOne(j)
    BY <1>2, NoNewOwnerClosed
       DEF NoNewOwner, ThreadHandles, CallerHandles, PoolInv, TypeOK, NotifyOne, Parked,
           poolVars, openVars, closeVars
<1>3. CASE Spawn(j) \/ SpawnFails(j) \/ LetGo(j)
    <2>1. j \in CallerHandles /\ UNCHANGED reply
        BY <1>3 DEF CallerHandles, Spawn, SpawnFails, SpawnFailsIn, LetGo, closeVars
    <2> QED
        BY Zenon, <2>1 DEF ClosedInv
<1> QED
    BY Zenon, <1>1, <1>2, <1>3

\* A retirement gives its own handle away; whoever answers Ok found no other.
LEMMA RetirementClosed ==
  ASSUME PoolInv, ClosedInv,
         \/ \E t \in Threads : RetireWorker(t)
         \/ \E j \in Jobs : RetireUnstarted(j)
  PROVE  ClosedInv'
<1>1. TypeOK
    BY DEF PoolInv
<1>2. CASE Deposit
    <2>1. ThreadHandles # {} \/ CallerHandles # {}
        BY <1>1, <1>2
           DEF ThreadHandles, CallerHandles, RetireWorker, RetireUnstarted, ThreadGoes,
               CallerGoes, Deposit, Decrement, CloseEngine, CloseEngineIf, TypeOK
    <2> QED
        BY Zenon, <1>2, <2>1 DEF ClosedInv, Deposit
<1>3. CASE Decrement
    <2>1. ThreadHandles' \subseteq ThreadHandles /\ CallerHandles' \subseteq CallerHandles
        BY <1>1, <1>3
           DEF ThreadHandles, CallerHandles, RetireWorker, RetireUnstarted, ThreadGoes,
               CallerGoes, AfterCount, TypeOK, Deposit, Decrement, CloseEngine,
               CloseEngineIf
    <2> QED
        BY Zenon, <1>3, <2>1, NoNewOwnerClosed DEF NoNewOwner, Decrement, poolVars, openVars
<1>4. CASE CloseEngine
    <2>1. ThreadHandles' \subseteq ThreadHandles /\ CallerHandles' \subseteq CallerHandles
        BY Zenon, <1>1, <1>4
           DEF ThreadHandles, CallerHandles, RetireWorker, RetireUnstarted, ThreadGoes,
               CallerGoes, AfterCount, TypeOK, Deposit, Decrement, CloseEngine,
               CloseEngineIf
    <2>2. opened = "ok"
        BY Zenon, <1>1, <1>4
           DEF PoolInv, OpenerInv, StopsInv, Leaving, RetireWorker, RetireUnstarted,
               ThreadGoes, CallerGoes
    <2> QED
        BY Zenon, <1>1, <1>4, <2>1, <2>2, NoOwners
           DEF ClosedInv, CloseEngine, CloseEngineIf, poolVars, openVars
<1> QED
    BY <1>2, <1>3, <1>4 DEF RetireWorker, RetireUnstarted

\* Closing, dropping and notifying share no handle.
LEMMA EndClosed ==
  ASSUME PoolInv, ClosedInv, BeginClose \/ Abandon \/ NotifyAll \/ UNCHANGED vars
  PROVE  ClosedInv'
<1>1. CASE BeginClose \/ Abandon \/ UNCHANGED vars
    BY <1>1, NoNewOwnerClosed
       DEF NoNewOwner, ThreadHandles, CallerHandles, BeginClose, Abandon, vars, poolVars,
           threadVars, openVars, closeVars
<1>2. CASE NotifyAll
    BY <1>2, NoNewOwnerClosed
       DEF NoNewOwner, ThreadHandles, CallerHandles, PoolInv, TypeOK, NotifyAll, Parked,
           poolVars, openVars
<1> QED
    BY <1>1, <1>2

\* Every step keeps ClosedInv.
LEMMA ClosedKept ==
  ASSUME PoolInv, ClosedInv, [Next]_vars
  PROVE  ClosedInv'
<1>1. ASSUME NEW t \in Threads, Opener(t) \/ Worker(t) \/ Elapse(t) \/ SpuriousWake(t)
      PROVE  ClosedInv'
    BY <1>1, OpenerClosed, WorkerClosed, RetirementClosed DEF Worker
<1>2. ASSUME NEW j \in Jobs, Dispatch(j) \/ Task(j)
      PROVE  ClosedInv'
    BY <1>2, TaskClosed, RetirementClosed DEF Task
<1> QED
    BY <1>1, <1>2, EndClosed DEF Next, Terminated

\* Jobs, servers and owners, always.
LEMMA OwnersAlways == Spec => [](PoolInv /\ JobsInv /\ ServersInv /\ ClosedInv)
<1>1. Init => JobsInv /\ ServersInv /\ ClosedInv
    BY DEF Init, JobsInv, ServersInv, ClosedInv
<1>2. PoolInv /\ PoolInv' /\ JobsInv /\ ServersInv /\ ClosedInv /\ [Next]_vars
        => JobsInv' /\ ServersInv' /\ ClosedInv'
    BY JobsKept, ServersKept, ClosedKept
<1> QED
    BY <1>1, <1>2, PoolAlways, PTL DEF Spec

\* Whatever ends the pool, its engine is let go of only when every job it took
\* has been run.
THEOREM JobsOutlived == Spec => []AcceptedJobsRun
<1>1. PoolInv /\ JobsInv /\ ServersInv => AcceptedJobsRun
    <2> SUFFICES ASSUME PoolInv, JobsInv, ServersInv, Owners = 0, NEW j \in Jobs,
                        caller[j] \notin {"new", "refused"}, j \notin served
                 PROVE  FALSE
        BY DEF AcceptedJobsRun
    <2>1. ThreadHandles = {}
        BY NoOwners DEF PoolInv
    <2>2. ~ \E t \in Threads : thread[t] \in Serving
        BY <2>1 DEF ThreadHandles, Serving
    <2>3. PICK i \in 1..Len(queue) : queue[i] = j
        BY <2>2 DEF JobsInv, Serving
    <2>4. queue # <<>> /\ queue[i] # Stop
        BY <2>3, NamesAssumption
    <2> QED
        BY <2>2, <2>4 DEF ServersInv, PoolInv, OpenerInv
<1> QED
    BY <1>1, OwnersAlways, PTL

\* An Ok from Engine::close means the engine is closed, whoever else was about.
THEOREM OkIsTheEnd == Spec => []OkMeansClosed
<1>1. PoolInv /\ ClosedInv => OkMeansClosed
    BY NoOwners DEF PoolInv, ClosedInv, OkMeansClosed
<1> QED
    BY <1>1, OwnersAlways, PTL
================================================================================

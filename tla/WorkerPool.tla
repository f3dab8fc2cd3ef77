------------------------------ MODULE WorkerPool ------------------------------
(***************************************************************************)
(* The worker threads behind the async client (src/nonblocking): a queue   *)
(* of jobs, a pool of threads that grows on dispatch and shrinks when      *)
(* idle, the rendezvous through which the last retiring worker closes the  *)
(* engine, and the silent end that dropping every handle comes to.         *)
(*                                                                         *)
(* One element of Jobs is one Engine::dispatch and the task that makes it. *)
(* Every critical section of the pool's mutex is one action; condition-    *)
(* variable notifications, thread starts and the steps of a retirement,    *)
(* which happen outside it, are actions of their own.                      *)
(*                                                                         *)
(* The engine is shared by Arc<BlockingClient> handles.  The model counts  *)
(* them: Owners is the strong count, and the engine is open while it is    *)
(* positive.                                                               *)
(***************************************************************************)
EXTENDS Integers, Sequences, FiniteSets

CONSTANTS Jobs,      \* calls of Engine::dispatch
          CursorJobs, \* those a Cursor makes through its own clone of the
                     \* Engine: getMore, and killCursors as it is dropped
          Threads,   \* thread identities; one may be used again once it ended
          Min, Max,  \* Concurrency
          Stop,      \* Job::Stop
          NoJob

\* Concurrency::from_count and ::dynamic refuse anything else (src/options.rs).
ASSUME LimitsAssumption == /\ Min \in Nat /\ Max \in Nat
                           /\ 1 <= Min /\ Min <= Max

ASSUME NamesAssumption == /\ Stop \notin Jobs /\ NoJob \notin Jobs
                          /\ Stop # NoJob
                          /\ CursorJobs \subseteq Jobs

ASSUME FiniteAssumption == IsFiniteSet(Jobs) /\ IsFiniteSet(Threads)

VARIABLES
  queue,      \* State::queue
  alive, pending, idle,   \* State's three counts
  phase,      \* State::phase
  shared,     \* State::client is Some
  thread,     \* where each worker thread is
  clock,      \* next_job's sparable_since: unset, counting, or timeout passed
  job,        \* the job each worker runs
  caller,     \* where each dispatching task is
  floorLeft,  \* floor workers the opening thread has yet to start
  opened,     \* what the open reported to its caller
  remaining,  \* Shutdown::remaining
  vault,      \* how many handles Shutdown::handles holds
  ender,      \* whoever closes the engine or drops its last handle
  reply,      \* what Engine::close answers
  served,     \* jobs a worker ran to their end
  short,      \* floor workers that could not be started
  failures    \* whether a worker a dispatch asked for could not be started

poolVars   == <<queue, alive, pending, idle, phase, shared>>
threadVars == <<thread, clock, job>>
openVars   == <<floorLeft, opened>>
closeVars  == <<remaining, vault, ender, reply>>
history    == <<served, short, failures>>
vars == <<poolVars, threadVars, caller, openVars, closeVars, history>>

ThreadStates == {"absent", "opening", "flooring", "floorSpawn", "reporting",
                 "starting", "ready", "woken", "parked", "timed", "running",
                 "deposit", "decrement", "last"}
CallerStates == {"new", "notify", "notifySpawn", "spawning", "letGo", "deposit",
                 "decrement", "last", "queued", "refused"}

\* Threads and tasks with an Arc<BlockingClient> of their own.  start_worker
\* clones its handle for the thread and holds the original until it returns.
ThreadHandles == {t \in Threads : thread[t] \notin
                    {"absent", "opening", "decrement", "last"}}
CallerHandles == {j \in Jobs : caller[j] \in
                    {"notifySpawn", "spawning", "letGo", "deposit"}}
Owners == Cardinality(ThreadHandles) + Cardinality(CallerHandles) + vault
            + (IF shared THEN 1 ELSE 0)

Parked == {t \in Threads : thread[t] \in {"parked", "timed"}}

\* A task inside Engine::dispatch borrows the handle; one that awaits an answer
\* may drop its future, and a detached one has nothing to await.
Dispatching == {j \in Jobs : caller[j] \notin
                  {"new", "queued", "refused"}}

--------------------------------------------------------------------------------
(* workers::start: the first thread opens the engine, then starts the floor *)

Init ==
  /\ queue = <<>> /\ alive = 0 /\ pending = 0 /\ idle = 0
  /\ phase = "Open" /\ shared = FALSE
  /\ \E first \in Threads :
       thread = [t \in Threads |-> IF t = first THEN "opening" ELSE "absent"]
  /\ clock = [t \in Threads |-> "unset"]
  /\ job = [t \in Threads |-> NoJob]
  /\ caller = [j \in Jobs |-> "new"]
  /\ floorLeft = Min - 1
  /\ opened = "waiting"
  /\ remaining = 0 /\ vault = 0 /\ ender = "present" /\ reply = "none"
  /\ served = {} /\ short = 0 /\ failures = FALSE

\* open_blocking failed: nothing was counted, and the thread ends.
OpenFails(t) ==
  /\ thread[t] = "opening"
  /\ thread' = [thread EXCEPT ![t] = "absent"]
  /\ opened' = "error"
  /\ UNCHANGED <<poolVars, clock, job, caller, floorLeft, closeVars, history>>

\* State::reserve, by whoever starts the worker next.
Reserved == alive' = alive + 1 /\ pending' = pending + 1

\* It succeeded: this thread counts itself as the first worker.
Opens(t) ==
  /\ thread[t] = "opening"
  /\ Reserved
  /\ thread' = [thread EXCEPT ![t] = "flooring"]
  /\ UNCHANGED <<queue, idle, phase, shared, clock, job, caller, openVars,
                 closeVars, history>>

ReserveFloor(t) ==
  /\ thread[t] = "flooring"
  /\ floorLeft > 0
  /\ Reserved
  /\ floorLeft' = floorLeft - 1
  /\ thread' = [thread EXCEPT ![t] = "floorSpawn"]
  /\ UNCHANGED <<queue, idle, phase, shared, clock, job, caller, opened,
                 closeVars, history>>

SpawnFloor(t) ==
  /\ thread[t] = "floorSpawn"
  /\ \/ \E u \in Threads :
          /\ thread[u] = "absent"
          /\ thread' = [thread EXCEPT ![t] = "flooring", ![u] = "starting"]
          /\ UNCHANGED <<alive, pending, short>>
     \/ /\ thread' = [thread EXCEPT ![t] = "flooring"]
        /\ alive' = alive - 1 /\ pending' = pending - 1
        /\ short' = short + 1
  /\ UNCHANGED <<queue, idle, phase, shared, clock, job, caller, openVars,
                 closeVars, served, failures>>

\* State::publish: ignored unless the pool is still open.
PublishIf(t, kept) ==
  /\ thread[t] = "flooring"
  /\ floorLeft = 0
  /\ shared' = kept
  /\ thread' = [thread EXCEPT ![t] = "reporting"]
  /\ UNCHANGED <<queue, alive, pending, idle, phase, clock, job, caller,
                 openVars, closeVars, history>>

\* (Slip: a pool nobody holds any more is given a handle to keep.)
Publish_Always(t) == PublishIf(t, TRUE)
Publish(t) == PublishIf(t, phase = "Open")

Report(t) ==
  /\ thread[t] = "reporting"
  /\ opened' = "ok"
  /\ thread' = [thread EXCEPT ![t] = "starting"]
  /\ UNCHANGED <<poolVars, clock, job, caller, floorLeft, closeVars, history>>

--------------------------------------------------------------------------------
(* Engine::dispatch and start_worker                                        *)

\* (Slips: an off-by-one at the ceiling; asking only whether nobody is free.)
WantsWorker_PastMax  == alive <= Max /\ Len(queue) + 1 > idle + pending
WantsWorker_AsksIdle == alive < Max /\ idle + pending = 0
\* State::wants_worker, with the job just queued.
WantsWorker == alive < Max /\ Len(queue) + 1 > idle + pending

\* A cursor exists once a find was answered, and may outlive the client; the
\* client itself is consumed by its close.
MayDispatch(j) ==
  /\ opened = "ok"
  /\ phase # "Abandoned"
  /\ IF j \in CursorJobs
     THEN \E f \in served \ CursorJobs : caller[f] = "queued"
     ELSE phase = "Open"

\* queue_job: refused once the pool is closing, else queued, and a worker
\* reserved for it if the pool is short of one.
Dispatch(j) ==
  /\ MayDispatch(j)
  /\ caller[j] = "new"
  /\ IF phase # "Open"
     THEN /\ caller' = [caller EXCEPT ![j] = "refused"]
          /\ UNCHANGED <<queue, alive, pending>>
     ELSE /\ queue' = Append(queue, j)
          /\ IF WantsWorker /\ shared
             THEN /\ Reserved
                  /\ caller' = [caller EXCEPT ![j] = "notifySpawn"]
             ELSE /\ caller' = [caller EXCEPT ![j] = "notify"]
                  /\ UNCHANGED <<alive, pending>>
  /\ UNCHANGED <<idle, phase, shared, threadVars, openVars, closeVars,
                 history>>

\* (Slip: the job is queued and nobody is told.)
NotifyOne_Nobody(j) ==
  /\ caller[j] \in {"notify", "notifySpawn"}
  /\ caller' = [caller EXCEPT ![j] =
                  IF caller[j] = "notify" THEN "queued" ELSE "spawning"]
  /\ UNCHANGED <<poolVars, threadVars, openVars, closeVars, history>>
\* queued.notify_one(): any one waiting worker.
NotifyOne(j) ==
  /\ caller[j] \in {"notify", "notifySpawn"}
  /\ caller' = [caller EXCEPT ![j] =
                  IF caller[j] = "notify" THEN "queued" ELSE "spawning"]
  /\ \/ \E t \in Parked : thread' = [thread EXCEPT ![t] = "woken"]
     \/ Parked = {} /\ UNCHANGED thread
  /\ UNCHANGED <<poolVars, clock, job, openVars, closeVars, history>>

Spawn(j) ==
  /\ caller[j] = "spawning"
  /\ \E t \in Threads :
       /\ thread[t] = "absent"
       /\ thread' = [thread EXCEPT ![t] = "starting"]
  /\ caller' = [caller EXCEPT ![j] = "letGo"]
  /\ UNCHANGED <<poolVars, clock, job, openVars, closeVars, history>>

\* State::spawn_failed: while closing, the Stop at the back of the queue is the
\* one meant for the worker that never came, and this task answers it.
SpawnFailsIn(j, closing) ==
  /\ caller[j] = "spawning"
  /\ alive' = alive - 1 /\ pending' = pending - 1
  /\ failures' = TRUE
  /\ IF phase = closing /\ queue # <<>> /\ queue[Len(queue)] = Stop
     THEN /\ queue' = SubSeq(queue, 1, Len(queue) - 1)
          /\ caller' = [caller EXCEPT ![j] = "deposit"]
     ELSE /\ caller' = [caller EXCEPT ![j] = "letGo"]
          /\ UNCHANGED queue
  /\ UNCHANGED <<idle, phase, shared, threadVars, openVars, closeVars,
                 served, short>>

\* (Slip: the Stop is never answered.)
SpawnFails_LeavesStop(j) == SpawnFailsIn(j, "never")
SpawnFails(j) == SpawnFailsIn(j, "Closing")

\* start_worker returns, and only now drops the handle it was given.
LetGo(j) ==
  /\ caller[j] = "letGo"
  /\ caller' = [caller EXCEPT ![j] = "queued"]
  /\ UNCHANGED <<poolVars, threadVars, openVars, closeVars, history>>

--------------------------------------------------------------------------------
(* serve and Pool::next_job                                                 *)

Arrive(t) ==
  /\ thread[t] = "starting"
  /\ pending' = pending - 1
  /\ thread' = [thread EXCEPT ![t] = "ready"]
  /\ UNCHANGED <<queue, alive, idle, phase, shared, clock, job, caller,
                 openVars, closeVars, history>>

\* The loop of next_job runs with this worker counted in idle: State::waiting
\* on the way in, already done when it comes back from a wait.
InLoop(t) == thread[t] \in {"ready", "woken"}
Counted(t) == idle + (IF thread[t] = "ready" THEN 1 ELSE 0)

TakeJob(t) ==
  /\ InLoop(t)
  /\ queue # <<>>
  /\ queue' = Tail(queue)
  /\ idle' = Counted(t) - 1
  /\ clock' = [clock EXCEPT ![t] = "unset"]
  /\ IF Head(queue) = Stop
     THEN /\ thread' = [thread EXCEPT ![t] = "deposit"]
          /\ UNCHANGED job
     ELSE /\ thread' = [thread EXCEPT ![t] = "running"]
          /\ job' = [job EXCEPT ![t] = Head(queue)]
  /\ UNCHANGED <<alive, pending, phase, shared, caller, openVars,
                 closeVars, history>>

\* (Slip: a worker still on its way counts towards the floor.)
Sparable_CountsPending == Min < Max /\ phase = "Open" /\ alive > Min
\* State::sparable, which a fixed pool never asks.
Sparable == Min < Max /\ phase = "Open" /\ alive - pending > Min

\* State::retired: uncounted and its handle dropped under one lock.
Retired(t, left) ==
  /\ idle' = Counted(t) - 1
  /\ alive' = left
  /\ clock' = [clock EXCEPT ![t] = "unset"]
  /\ thread' = [thread EXCEPT ![t] = "absent"]
  /\ UNCHANGED <<queue, pending, phase, shared, job, caller, openVars,
                 closeVars, history>>

MayRetire(t) ==
  /\ InLoop(t)
  /\ phase = "Abandoned" \/ (Sparable /\ clock[t] = "due")
\* (Slips: the worker stays in the count; it leaves with jobs still queued.)
Retire_Uncounted(t)  == MayRetire(t) /\ queue = <<>> /\ Retired(t, alive)
Retire_LeavesJobs(t) == MayRetire(t) /\ Retired(t, alive - 1)
Retire(t) == MayRetire(t) /\ queue = <<>> /\ Retired(t, alive - 1)

\* A worker the pool could spare waits out what is left of its timeout; any
\* other forgets it was counting and waits to be told.
ParkIf(t, sparable) ==
  /\ InLoop(t)
  /\ queue = <<>>
  /\ phase # "Abandoned"
  /\ idle' = Counted(t)
  /\ \/ /\ sparable
        /\ clock[t] # "due"
        /\ clock' = [clock EXCEPT ![t] = "counting"]
        /\ thread' = [thread EXCEPT ![t] = "timed"]
     \/ /\ ~sparable
        /\ clock' = [clock EXCEPT ![t] = "unset"]
        /\ thread' = [thread EXCEPT ![t] = "parked"]
  /\ UNCHANGED <<queue, alive, pending, phase, shared, job, caller, openVars,
                 closeVars, history>>

\* (Slip: a worker the pool could spare waits as if it were at the floor.)
Park_Untimed(t) == ParkIf(t, FALSE)
Park(t) == ParkIf(t, Sparable)

\* The timeout passes, whether or not the worker is in its timed wait.
Elapse(t) ==
  /\ clock[t] = "counting"
  /\ clock' = [clock EXCEPT ![t] = "due"]
  /\ UNCHANGED <<poolVars, thread, job, caller, openVars, closeVars,
                 history>>

TimedOut(t) ==
  /\ thread[t] = "timed"
  /\ clock[t] = "due"
  /\ thread' = [thread EXCEPT ![t] = "woken"]
  /\ UNCHANGED <<poolVars, clock, job, caller, openVars, closeVars,
                 history>>

SpuriousWake(t) ==
  /\ t \in Parked
  /\ thread' = [thread EXCEPT ![t] = "woken"]
  /\ UNCHANGED <<poolVars, clock, job, caller, openVars, closeVars,
                 history>>

\* The operation returns, or panics and is caught: the caller hears either way.
JobDone(t) ==
  /\ thread[t] = "running"
  /\ thread' = [thread EXCEPT ![t] = "ready"]
  /\ job' = [job EXCEPT ![t] = NoJob]
  /\ served' = served \cup {job[t]}
  /\ UNCHANGED <<poolVars, clock, caller, openVars, closeVars, short, failures>>

--------------------------------------------------------------------------------
(* Engine::close, Shutdown::retire, and Handle::drop                        *)

\* State::begin_close: one Stop per counted worker, on a rendezvous for as many.
\* With none alive it is refused and changes nothing.  Client::close takes the
\* client by value, so only cursors may be inside dispatch.
BeginClose ==
  /\ opened = "ok"
  /\ Dispatching \subseteq CursorJobs
  /\ alive > 0
  /\ phase = "Open"
  /\ ender = "present"
  /\ phase' = "Closing"
  /\ shared' = FALSE
  /\ remaining' = alive
  /\ queue' = queue \o [i \in 1..alive |-> Stop]
  /\ ender' = "notify"
  /\ UNCHANGED <<alive, pending, idle, threadVars, caller, openVars, vault,
                 reply, history>>

\* The last Engine is dropped, before the open reported or after, and no close
\* was called: State::abandon.
Abandon ==
  /\ phase = "Open"
  /\ ender = "present"
  /\ Dispatching = {}
  /\ phase' = "Abandoned"
  /\ shared' = FALSE
  /\ ender' = "notify"
  /\ UNCHANGED <<queue, alive, pending, idle, threadVars, caller, openVars,
                 remaining, vault, reply, history>>

\* queued.notify_all(), of either.
NotifyAll ==
  /\ ender = "notify"
  /\ ender' = "gone"
  /\ thread' = [t \in Threads |-> IF t \in Parked THEN "woken" ELSE thread[t]]
  /\ UNCHANGED <<poolVars, clock, job, caller, openVars, remaining, vault,
                 reply, history>>

\* Shutdown::retire, on a worker or on the task whose worker never started: the
\* handle goes into the vault ...
Deposit ==
  /\ vault' = vault + 1
  /\ UNCHANGED <<poolVars, clock, job, openVars, remaining, ender, reply,
                 history>>

\* ... before the count goes down ...
Decrement ==
  /\ remaining' = remaining - 1
  /\ UNCHANGED <<poolVars, clock, job, openVars, vault, ender, reply, history>>

\* ... and whoever counted last drops all handles but one and, if that is the
\* engine's sole owner (Arc::into_inner), closes the engine and passes its
\* result on; otherwise it answers Err(Closed).
CloseEngineIf(sole) ==
  /\ reply' \in IF sole THEN {"ok", "failed"} ELSE {"closed"}
  /\ vault' = 0
  /\ UNCHANGED <<poolVars, clock, job, openVars, remaining, ender, history>>

\* (Slip: the last to retire takes itself for the sole owner.)
CloseEngine_Unchecked == CloseEngineIf(TRUE)
CloseEngine == CloseEngineIf(Owners = vault)

ThreadGoes(t, from, to) ==
  /\ thread[t] = from
  /\ thread' = [thread EXCEPT ![t] = to]
  /\ UNCHANGED caller

CallerGoes(j, from, to) ==
  /\ caller[j] = from
  /\ caller' = [caller EXCEPT ![j] = to]
  /\ UNCHANGED thread

AfterCount(rest) == IF remaining = 1 THEN "last" ELSE rest

RetireWorker(t) ==
  \/ Deposit /\ ThreadGoes(t, "deposit", "decrement")
  \/ Decrement /\ ThreadGoes(t, "decrement", AfterCount("absent"))
  \/ CloseEngine /\ ThreadGoes(t, "last", "absent")

RetireUnstarted(j) ==
  \/ Deposit /\ CallerGoes(j, "deposit", "decrement")
  \/ Decrement /\ CallerGoes(j, "decrement", AfterCount("queued"))
  \/ CloseEngine /\ CallerGoes(j, "last", "queued")

\* Nothing is left to run: the engine closed, or never opened.
Terminated ==
  /\ ender = "gone"
  /\ \A t \in Threads : thread[t] = "absent"
  /\ Dispatching = {}
  /\ UNCHANGED vars

--------------------------------------------------------------------------------
Opener(t) == \/ OpenFails(t) \/ Opens(t) \/ ReserveFloor(t) \/ SpawnFloor(t)
             \/ Publish(t) \/ Report(t)
Task(j)   == \/ NotifyOne(j) \/ Spawn(j) \/ SpawnFails(j) \/ LetGo(j)
             \/ RetireUnstarted(j)
Worker(t) == \/ Arrive(t) \/ TakeJob(t) \/ Retire(t) \/ Park(t) \/ TimedOut(t)
             \/ JobDone(t) \/ RetireWorker(t)

Next ==
  \/ \E t \in Threads : Opener(t) \/ Worker(t) \/ Elapse(t) \/ SpuriousWake(t)
  \/ \E j \in Jobs : Dispatch(j) \/ Task(j)
  \/ BeginClose \/ Abandon \/ NotifyAll
  \/ Terminated

Spec == Init /\ [][Next]_vars

\* Threads and tasks that can run do, jobs end, and time passes.  Dispatching,
\* closing and dropping are the program's choices.
Fairness ==
  /\ \A t \in Threads : WF_vars(Opener(t) \/ Worker(t)) /\ WF_vars(Elapse(t))
  /\ \A j \in Jobs : WF_vars(Task(j))
  /\ WF_vars(NotifyAll)

FairSpec == Spec /\ Fairness

--------------------------------------------------------------------------------
(* Properties                                                               *)

\* The type of every variable: State, Shutdown and the threads' states.
TypeOK ==
  /\ queue \in Seq(Jobs \cup {Stop})
  /\ alive \in Nat /\ pending \in Nat /\ idle \in Nat
  /\ phase \in {"Open", "Closing", "Abandoned"}
  /\ shared \in BOOLEAN
  /\ thread \in [Threads -> ThreadStates]
  /\ clock \in [Threads -> {"unset", "counting", "due"}]
  /\ job \in [Threads -> Jobs \cup {NoJob}]
  /\ caller \in [Jobs -> CallerStates]
  /\ floorLeft \in Nat
  /\ opened \in {"waiting", "ok", "error"}
  /\ remaining \in Nat /\ vault \in Nat
  /\ ender \in {"present", "notify", "gone"}
  /\ reply \in {"none", "ok", "failed", "closed"}
  /\ served \in SUBSET Jobs
  /\ short \in Nat
  /\ failures \in BOOLEAN

In(states) == {t \in Threads : thread[t] \in states}
At(states) == {j \in Jobs : caller[j] \in states}

\* Threads that are workers, and reservations whose thread was not yet started.
Working   == In(ThreadStates \ {"absent", "opening"})
Reserving == Cardinality(At({"notifySpawn", "spawning"}))
               + Cardinality(In({"floorSpawn"}))
Stops     == Cardinality({i \in 1..Len(queue) : queue[i] = Stop})
Retiring  == Cardinality(In({"deposit", "decrement"}))
               + Cardinality(At({"deposit", "decrement"}))

\* `alive` is "exact while the pool is open" (state.rs), and once it is closing
\* the stops queued are exactly the workers left to take one and the rendezvous
\* waits for exactly those: no thread is stranded and no retirement is missing.
CountsExact ==
  /\ pending = Reserving + Cardinality(In({"flooring", "floorSpawn",
                                           "reporting", "starting"}))
  /\ idle = Cardinality(In({"woken", "parked", "timed"}))
  /\ phase # "Closing" => alive = Cardinality(Working) + Reserving
  /\ phase = "Closing" =>
       /\ Stops = Reserving + Cardinality(Working \
                                 In({"deposit", "decrement", "last"}))
       /\ remaining = Stops + Retiring

\* Never more worker threads, started or reserved, than Concurrency's ceiling:
\* each holds one session while it works.
ThreadCeiling == Cardinality(Working) + Reserving <= Max

\* A pool in use keeps its floor of workers, but for those the open itself could
\* not start: a reservation in flight never counts towards it (sparable).
FloorOfWorkers ==
  phase = "Open" /\ opened = "ok" => Cardinality(Working) >= Min - short

\* A burst is given workers: no job waits behind busy workers while the ceiling
\* leaves room, unless a thread could not be started (wants_worker, reserve).
BurstGetsWorkers ==
  phase = "Open" /\ shared /\ ~failures =>
    \/ alive >= Max
    \/ Len(queue) <= idle + pending + Cardinality(In({"ready"}))

\* No wakeup is lost: workers wait only for as long as every queued job has a
\* notification, or a worker already woken, on its way (dispatch, next_job).
NoLostWakeup ==
  Parked # {} /\ ender # "notify" =>
    Len(queue) <= Cardinality(At({"notify", "notifySpawn"}))
                    + Cardinality(In({"woken"}))

\* The engine outlives every job it accepted: once its last handle is gone each
\* one has been run, a detached killCursors included, closed or abandoned.
AcceptedJobsRun ==
  Owners = 0 => \A j \in Jobs : caller[j] \in {"new", "refused"} \/ j \in served

\* A close that answers Ok closed the engine: nobody owns it from then on.
OkMeansClosed == reply = "ok" => Owners = 0

\* shutdown.rs: a close that finds another owner is "unreachable while workers
\* are the only holders of engine handles, which they are".
WorkersAreSoleOwners == reply # "closed"

\* Every accepted job is run: none is left in the queue for ever.  (Dispatched,
\* closing and served are for good, so "infinitely often" is "leads to" here and
\* below, and TLC checks the four on one graph.)
EveryJobServed ==
  []<>(\A j \in Jobs : caller[j] \in {"new", "refused"} \/ j \in served)

\* A close is always answered.
CloseAnswered == []<>(phase = "Closing" => reply # "none")

\* However it ends, closed or abandoned, during the open or after, no thread and
\* no handle is left: the process can open a database again.
EngineEnds ==
  []<>(phase # "Open" => Owners = 0 /\ \A t \in Threads : thread[t] = "absent")

\* An elastic pool with nothing to do goes back to its floor of workers.
ShrinksToFloor ==
  []<>(phase = "Open" /\ opened = "ok" /\ Dispatching = {} /\ Min < Max
         => Cardinality(Working) <= Min)
================================================================================

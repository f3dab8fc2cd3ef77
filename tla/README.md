# embedded-mongo: TLA+ models and proofs

embedded-mongo runs the MongoDB engine inside the calling process. What is hard
to get right in it is not MongoDB but what stands around it: a pool of engine
sessions that grows and shrinks while callers come, go and cancel; a second pool
of worker threads that lets async tasks use the first; and a close that must
really close, because a process may have one engine at a time. Around these stand an
open of several steps each of which may fail, a repair pass that a crash may cut
short, cursors whose futures are dropped half way, handles that outlive their
process, and a build script that shares a cache with other builds. This directory
models those parts in TLA+, checks them with TLC and proves, with TLAPS, every safety
property that the passing runs check.

## The system and its parts

| Part | Source | Module |
| --- | --- | --- |
| Session pool: checkout, growth, hand-back, reaper, drop | `src/pool/sessions.rs`, `src/pool/reaper.rs` | `SessionPool`, `ReaperClock` |
| Command slot and interrupt | `src/pool/slot.rs`, `embedded-mongodb-sys/src/client.rs`, `native/engine_runtime.cpp` | `SessionPool` |
| What a client promises about one command | `src/client.rs` | `CommandService` (abstract) |
| Async worker pool: open, dispatch, growth, retirement, close | `src/nonblocking/*.rs` | `WorkerPool` |
| Opening a client, start to end | `src/client.rs` | `ClientOpen` (composition) |
| Options and session policies | `src/options.rs`, `embedded-mongodb-sys/src/options.rs`, `embedded-mongodb-android/src/options.rs` | `OpenOptions` |
| Free-disk floors | `src/limits/*.rs` | `FloorLimits` |
| Index repair pass and what it logs | `src/repair/*.rs` | `RepairPass` |
| Cursors and inserts | `src/find.rs`, `src/aggregate.rs`, `src/insert.rs`, `src/nonblocking/` | `CollectionApi` |
| Android handle registry | `embedded-mongodb-android/src/registry.rs`, `handle.rs` | `HandleRegistry` |
| Build script | `embedded-mongodb-sys/build*.rs`, `prebuilt.rs` | `EngineBuild` |
| Engine start-up, C ABI, wire codec, Kotlin client, Python and Node bindings | | not modelled, see below |

A blocking `Client` owns the runtime handle and a `SessionPool`. A command is
`SessionPool::run`: check a session out (a free one, else open one under the
ceiling, else wait), arm the caller's `CommandSlot` with an interrupt on that
session, run, disarm, give the session back. A reaper thread closes sessions idle
too long, down to the floor. An async `Client` puts a queue and worker threads in
front of a blocking one; every worker holds an `Arc` on it, and `close` makes the
workers retire through a rendezvous whose last member closes the engine.

`Client::open` is where the other parts meet: options are checked and converted,
the directory is asked whether it holds a database, the engine starts, the
sessions open, the floors are established and the repair pass runs before anybody
has the client. A cursor is a user of the worker pool (`CollectionApi` takes from
it that a queued job may be dropped, a running one interrupted, and that a close
runs what is queued first). The registry is a user of the blocking client. The
build script decides which engine all of this is linked to.

## SessionPool

One pool, its callers, its reaper and the thread that closes the client. The
state is `reaper.rs`'s `State` (`idle`, `open`, and which prefix of the free list
has passed the idle timeout, `stale`), per command its place in `run` (`pc`), its
session (`sess`), its slot and interrupt, and per session the engine operation on
it (`op`). A critical section is one action; what the code does after releasing
the lock (`notify_one`, `open_session`, destroying sessions) is an action of its
own, so every interleaving the lock allows is explored. Condition variables are
sets of waiting callers, notified as code notifies them, with spurious wakeups.
`Session::kill` hits whatever operation its session is running, or nothing when
there is none, as in `engine_runtime.cpp`. Ages are not in this module: `Age` lets
any longer prefix of the free list become stale. Each command is asked once. A
session name stands for a session while the engine has it, and is free again once
the session is destroyed.

`CommandService` is what a caller may rely on, without sessions, slots or
threads: at most `Max` commands run, one cancelled before it began never runs,
a cancel interrupts its own command or nothing. `ImplementsService` maps each
command's place in the pool to its status there.

`ReaperClock` keeps what `SessionPool` leaves out: each free session's age, the
order of the list, and the wait `State::reap` answers. `Tick` lets time pass while
the reaper's wait has not run out, as `wait_timeout` does.

## WorkerPool

The queue, `State`'s counters, the phase, every worker thread's place in
`serve`/`next_job`, every caller's place in `dispatch`/`start_worker`, the
`Shutdown` rendezvous, and where each `Arc` on the engine is: in a thread, with a
caller that is starting one, in `State::client`, or in the vault. Jobs are of two
kinds, because they come from owners with different lifetimes: `Client::close`
takes the client, so its jobs are dispatched before it, while a cursor has an
`Engine` clone and may dispatch at any time. A thread may fail to start. Idle time
is a two-valued clock per worker (running, elapsed). The close answers what the
engine's own close does, ok or not, or that somebody else still owns it.

## HandleRegistry

What Java threads do with the `long` they hold for a client: open one (the engine
refuses a second in the process), command it, close it. The registry's mutex is
held only within an action; an entry's `RwLock` is who is `running` on it
(shared) and who is `closing` it (exclusive). A reader may pass a waiting writer,
which the standard library's lock permits on some platforms. Ids are composed
from tag and sequence as `HandleId::from_parts` composes them, with a small
`LastSequence` for `2^32 - 1`, so that the ids do run out. `Restart` is the process
dying: what Java saved is quoted in the next. `process_tag` is random in the
code and collides with chance 2^-31; the model draws a new tag each time. A call
that misses the map answers an error and changes nothing, so it is no step.

## OpenOptions, FloorLimits, RepairPass, and ClientOpen over them

`OpenOptions` has no state: the JNI vector, the newtypes, the C struct and the
session policy as operators, with an `Option` or a `Result` a set of at most one
element. Widths and ranges are constants.

`FloorLimits` is two server parameters that mean one floor. An open reads the
engine's own pair once per process and then writes the pair it decided; threads
of the open client move the pair or read it, under the process-wide `FloorMoves`.
Each command is a step, and each may be refused: a move then puts the first
parameter back, and if that is refused too, or the mover panics, it says the
floors are unknown (`unknown`). The parameters outlive the client and end with the
process. A refused `setParameter` is taken not to have been applied. The async
calls are the same steps: their job is not cancelled with its future.

`RepairPass` is a directory (the storage engine's files, the collections, their
damage, the marker and its temporary file), a process on a library with or without
the fix, and the pass: origin, skip variable, marker, listing, validate, repair,
announce, validate again, and the marker by temporary file and rename. A crash is
possible between any two steps; the engine may refuse anything, throw half way
through a validation, or never answer a repair that changed the collection. What an
answered repair wrote is taken to be durable. An unfixed library lists nothing of
the collections it restored from disk, which is why the code trusts its answers
only so far.

`ClientOpen` extends all three, with their variables side by side and its actions
made of theirs: `Client::open` in the order of the code, its failure at each step
(which takes the engine down and leaves the parameters and the directory), the
open client, its close and the death of the process.

## CollectionApi

One `Cursor` at a time on one collection, blocking or async, and inserts. Actions
are the calls (`find`, `find_one`, `aggregate`, `next`, `close`, drop), the dropping
of a `find()` or `next()` future, and what the engine does: run the query, pin the
server cursor for a `getMore`, answer it or fail. A dropped future's job never
runs if it was queued; if it was running it is interrupted, perhaps too late, and
its answer is discarded. A kill of a pinned cursor takes effect when its `getMore`
ends. The engine's own cursor timeout is not modelled: what it alone reclaims is
`leaked`.

## EngineBuild

Target directories, each running the script when cargo finds that something it
watches is newer, over one checkout and one cache. Each step that reads or writes
a file, or asks git, is an action: the comparison of commits and of the work tree,
the glibc check, the digest of the cache entry, its removal, the download, its
verification and rename, the export check, the install into `OUT_DIR`. In between
the developer edits, commits or moves the pin, a release is published, an entry is
damaged, a download fails or arrives short or wrong, a build is killed, or one is
suspended for longer than the sweep of old temporaries allows. Libraries are told
apart by the inputs they were built from. Cargo's timestamp is taken before the
script starts, so a change while it runs makes it run again; this assumes that a file
which was damaged or renamed into place has a later modification time than the start
of a script that watches it.

Every question to git may go unanswered, and the code reads no answer as nothing to
report. In a partial clone the two that need the tree of `SOURCE_COMMIT` are silent
whenever the remote is out of reach; any other silence is a fault. The ghost `unseen`
records, for each directory's last script, which inputs (the tree, the pin) it did not
get to compare, or which changed behind the comparison where nothing watches them.

## Runs

| Run | Question | Result |
| --- | --- | --- |
| `session_pool` | ceiling, ownership, interrupts, wakeups, close, and the refinement of `CommandService`; every command returns, close ends, an idle pool shrinks to its floor | holds, 316,551 states |
| `reaper_clock` | what the reaper's walk closes and how long it then waits | holds, 6,207 states |
| `worker_pool` | counters, floor, ceiling, bursts, wakeups, the Stop rendezvous, no accepted job lost, Ok means closed; every job served, every close answered, the engine ends, the pool shrinks | holds, 370,781 states |
| `handle_registry` | what a handle names, commands against a close, who can still close the engine, that a close ends | holds, 58,302 states |
| `client_open` | the engine and the sessions run on what was asked; the floors are the pair last decided; a marker hides no damage; a repair moves nothing silently | holds, 473,366 states |
| `collection_api` | a cursor's end is the end, an Ok insert stored everything, no server cursor is left behind | holds, 228,880 states |
| `engine_build` | a finished build is linked to verified bytes that match its inputs and have its entry points | holds, 5,314,846 states |
| `floor_kept` | `reap`'s "down to a floor of `min` sessions open" | violated |
| `cancel_interrupts` | "Dropping the returned future interrupts the command" | violated |
| `sole_owners` | "workers are the only holders of engine handles" | violated |
| `moved_pin` | "The rev-list below still catches a moved pin" | violated |
| `cancel_loses_batch` | "Nothing is lost or corrupted by cancelling" | violated |

The five violated ones are disagreements between a comment and the code:

* **floor_kept.** `reap` takes what is spare from `State::open`, which counts
  reservations. One caller has the pool's only session when another reserves a
  second; the first gives its session back; the reaper counts two open, one of
  them spare, and closes the idle one; then the other's open fails and the pool is
  below its floor. It recovers when somebody next needs a session.
* **cancel_interrupts.** The slot is armed before the engine has made the
  operation context. A cancel in between marks the slot and kills nothing, and
  the command runs to completion.
* **sole_owners.** `start_worker` holds the handle it clones from until it
  returns. A cursor starting a worker while the client closes can still be there
  when the last worker retires: `Arc::into_inner` answers `None` and `close`
  reports an error for an engine that then closes when the cursor's task moves on.
* **moved_pin.** A partial clone without trees has `SOURCE_COMMIT` and not what it
  names. Out of reach of its remote, git can neither name the published pin nor walk
  `rev-list` over paths; the script takes both silences for "no reason to stop", and a
  checkout whose gitlink was moved goes on to link the release.
* **cancel_loses_batch.** A `next()` future dropped while its `getMore` runs discards
  a batch that the server's cursor has moved past. The `Cursor` keeps no mark of it: the
  following `next()` asks for what comes behind, and ends in `None` without it.

### Bounds

`session_pool`: three commands, two of them cancellable, floor 1, ceiling 2, three
session names. Three callers are one more than the ceiling, so somebody waits; two
cancellable ones let a cancel race another cancellable borrower of the same
session; two sessions against a floor of one let the reaper destroy one while the
other is used. `worker_pool`: two client jobs and a cursor job, floor 2,
ceiling 3, three threads: enough for a burst that starts a worker, one that
retires while another has not arrived, and a close with a spawn under way. Each is
one run of the fair specification, without symmetry, since TLC checks liveness only
so; what the larger pools would add to its safety is proved.
`handle_registry`: three threads (two commands that keep a third's close waiting),
three process tags of two ids each, five engine starts: enough to run out of ids,
to restart twice and to quote a dead process's handle. It may come to rest, since
nothing makes Java call, so deadlock is not checked there.
`client_open`: two threads that move the floors (one can read or lock while the
other is half way), floors 0 (refused), 1 and 2 MiB with engine defaults equal to
neither, two collections (one visited, one to go) and a view, ten option vectors
and sixteen policies on both sides of every bound. Any number of opens, crashes and
restarts: there is no counter to bound. `collection_api`: two documents in batches
of one, so a query takes a first batch, a `getMore` and an end; two cursor ids, so
one may be orphaned while the next is read. `engine_build`: two target directories
(one repairs what the other found corrupt), two trees, two pins, a host
for every answer the script tells apart (of the four kinds of checkout it does not
compare, which it treats alike, one), and two faults: the second makes it possible
to edit and commit, to commit while git leaves a question unanswered, or to damage an
entry and kill its repair. The last two may come
to rest: nothing makes a caller ask or a developer build.
`reaper_clock`: floor 2, ceiling 5, timeout 4 ticks. A command, a job and a close
happen once each. The symmetry of `client_open` and `engine_build` is over names that
are interchangeable: threads and collections, directories and pins.

### Fairness

Each thread's own next step is weakly fair, because the operating system runs it,
and so is the passing of time (`Age`, `Elapse`). A command the engine runs is
assumed to end. A wait on a condition variable is not fair in itself: a thread
in it moves when notified, and in a timed wait also when its time is up, which is
what lets the runs find a lost wakeup. In `CollectionApi` the workers
run what is queued and the engine ends what it runs, which `worker_pool`
shows of the former; in `HandleRegistry` a thread inside a call goes on. Nothing makes a caller ask,
cancel or close, and nothing makes a spurious wakeup happen. No strong fairness
is assumed: each command and job is asked once, so a waiter can be overtaken only
as often as there are others. With an endless stream of newcomers the code's
mutexes and condition variables, which are not first come first served, promise
a waiter nothing, and the runs do not say otherwise. The other modules state no
fairness: what is checked of them is safety.

## Proofs

`SessionPoolProofs` proves, for any finite set of commands, any set of sessions
and any floor and ceiling with `1 <= Min <= Max`, `Spec => []IInv` with

    IInv == TypeOK /\ HoldInv /\ OneOwner /\ Accounting /\ SlotInv /\ OpInv
            /\ InterruptsOwnCommand /\ NoLostWakeup /\ CloseInv /\ CloseIsReal
            /\ JoinIsPrompt

and from it each safety property of run `session_pool`. None of these is
inductive alone:

* the ceiling needs `Accounting`: `State::open` is exactly the free sessions, the
  held ones, the reservations and those the reaper has yet to count;
* an interrupt reaches only its own command because (`SlotInv`) a running slot's
  interrupt names the session its command holds, (`OneOwner`) no other command
  holds that session, and (`OpInv`) the engine operation on a session is its
  holder's;
* no wakeup is lost because the notifications and callers on their way always
  cover the free places, which uses `Accounting` again to say what a free place is;
* a close is real because (`CloseInv`) the closing thread runs only when no
  command is inside `run`, and the joined reaper has destroyed what it took.

Its last part proves `Spec => ImplementsService`: each step of the pool is one
step of `CommandService` or none. It needs one more fact, `OutcomeInv`, that a
finished slot has its outcome.

`ReaperClockProofs` proves the three properties of run `reaper_clock` for any floor,
ceiling and timeout. `State::reap`'s walk is a recursive function over the list, so
the proof gives what it has computed after each entry in closed form
(`EntryWalked`) and shows that the walk is that (`WalkComputed`): if they differed,
there would be a first entry at which they do (`LeastNumber`, from the
well-foundedness of `<`), and the entry before it leads to agreement. That the list
is sorted by age (`Sorted`), which `give_back` and the walk both keep, makes the
sessions that are due a prefix. `ClosedOnTime` needs `OnTimeInv` besides: above the
floor, the reaper's wait ends before any idle session is overdue, or the pool has not
been above its floor for a timeout yet.

`WorkerPoolCounts` and `WorkerPoolProofs` prove the seven safety properties of run
`worker_pool` for any finite sets of jobs and threads and any floor and ceiling, the
first five from

    PoolInv == TypeOK /\ CountsInv /\ OpenerInv /\ StopsInv /\ CeilingInv
               /\ FloorInv /\ BurstInv /\ WakeupInv

`CountsInv` is `CountsExact` in terms of eleven named counts, so that a step's effect
on the cardinalities is stated once (`ThreadMoves`, `CallerMoves`) and the rest is
arithmetic. It is not inductive by itself: `StopsInv` adds that nobody retires
before a close began and that the stops are the tail of the queue, so the one a
failed spawn takes back off the end is a stop and not a job; `OpenerInv` that there
is one opener, and that while there is one nothing is queued or closing. The
ceiling follows from `alive <= Max` while open, and after that from no worker being
added. `WorkerPoolCounts` has the invariant and the steps of the threads,
`WorkerPoolProofs` those of the callers and of the close, and the theorems.

The other two properties are about the end of the engine. `JobsInv` follows an accepted
job (queued, running or done) and `ServersInv` says that a queued one has a
worker that will come for it, whose handle keeps the engine up: hence
`AcceptedJobsRun`. That the worker that takes the last stop leaves no job behind
is `StopsInv` again. `ClosedInv` says that after a close that answered Ok no thread,
caller or vault has a handle, nor anything to clone one from: hence `OkMeansClosed`.

`HandleRegistryProofs` proves the registry's three safety properties for any
threads, processes and ids. `OwnerInv` is the heart of its invariant: the engine
that is up has exactly one owner, an entry of the map or a thread on its way in or
out. `CounterInv` says that the ids still to be given are none that were, which
rests on a lemma that an id determines its tag and sequence.

`ClientOpenProofs` first proves the two properties of each of `FloorLimits` and
`RepairPass` by itself. `FloorInv` says at each step of an open and of a move how far
the two parameters have got from the pair last decided; `LockInv` and `RecordedInv` are
what keeps a second mover, or an open after a refused one, from starting in between.
`RepairInv` says at each stage of the pass what may still be damaged: what is left
to visit (`SweepInv`) and, once the marker is being written, nothing (`RecordInv`).

Then it composes them. Every step of `ClientOpen` is a step of `FloorLimits` or
leaves its variables alone, and likewise of `RepairPass`, so both parts' promises
hold in the composition (`PartsKeepTheirPromises`); `OrderInv`, which says what the
floors' client may be doing at each stage of the pass, and the lemmas about the
conversions give `OpenIsAsAsked`.

`CollectionApiProofs` proves the two safety properties of run `collection_api` for
any documents, cursor ids and batch sizes. `CursorInv` relates three places, unless an
error was answered or a batch was lost with a dropped future: what the `Cursor` has
yielded and buffered is the beginning of the collection (`ReadInv`); a reply on its
way to it goes on from there (`Continues`); and a server cursor it can still ask stands
behind both (`PlaceInv`). `JobInv` says which of these there can be at once, so that
a kill, or a `getMore` that outlived its owner, never moves the cursor of another.
`DataInv` says that the collection has an `_id` once and that an insert which answered
Ok has each of its own there.

`EngineBuildProofs` proves the three properties of run `engine_build` for any
number of directories, hosts and faults. `BuildInv` says what a script that cargo
has no reason to run again knows at each of its steps; that every fault either
leaves this true, makes cargo run the script again, or makes the input unseen is the
argument. `StaleInv` is its part about freshness: past the comparison of commits, an
input that is not unseen is the published one in `HEAD`, and past `status` in the work
tree too.

The assumptions of the pools are their modules' `ASSUME`s, each of which `Concurrency`
guarantees by construction (`ReaperClock`'s floor is below its ceiling: other pools
have no reaper), and that an engine session is opened with a name not in use. Of the
other modules they are that the names used for different things differ, that ranges
and floors are numbers, that a batch holds at least one document, and
(`OpenAssumption`) that an option vector is one of integers; TLC evaluates each.

Only model-checked: the liveness properties (the prover has no rule for fairness
or `ENABLED`), which are the last three of `session_pool` and the last four of
`worker_pool`, `handle_registry`'s property that a close ends and `CursorsReclaimed`
of `collection_api`. The five disagreements are
counterexamples and need no proof.

## Seen on the way

What a property excepts, and why, is said at the property. These are the
exceptions a reader of the code may want to know of:

* `EndMeansAll` excepts a cursor that lost a batch to a dropped `next()`
  (`skipped`), the case of `cancel_loses_batch`. A dropped `find()` future never
  learns the id of the cursor it opened (`leaked`).
* An `insert_many` that answers an error may have stored some of its documents.
* A directory that an unfixed library creates is marked at once, so what that
  library damages there later is behind the marker (`late`).
* `PrebuiltMatchesInputs` excepts, input by input, what is `unseen`. The submodule's
  `HEAD` and the gitlink are compared and watched on no path, so a finished build
  survives a pin moved afterwards. A commit between `rev-list` and `status` shows in
  neither. A question git does not answer is not asked again.

## Not modelled

MongoDB itself: a command is answered, fails, or is interrupted. Engine start-up
(`native/engine_startup.cpp` and friends) and the C ABI carry no state the Rust
side shares between threads beyond what `SessionPool` has. The wire codec is a
pure function of bytes; a reference definition would repeat it byte for byte. The
Python and Node bindings forward to the two clients under a read-write lock of the
kind `HandleRegistry` models. The Kotlin client has the same cursor and floor calls
over the registry, with coroutine cancellation in place of dropped futures. The
JNI bridge's error codes, the build's log copying, the examples and the test fakes
have no state to get wrong. A panic inside a command is modelled only as far as
the pool's guards run on it; a poisoned lock is recovered by the code everywhere
and so has no effect. `patches/` changes MongoDB; `RepairPass` knows one of them as
the library with the fix.

## Plan

1. The Kotlin client's cursor flow, as a second face of `CollectionApi`.
2. A watch on the submodule's `HEAD` in `build.rs`, and a failed `rev-list` that stops
   the build, would let `PrebuiltMatchesInputs` drop two of its exceptions.

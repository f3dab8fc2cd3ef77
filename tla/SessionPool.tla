------------------------------ MODULE SessionPool ------------------------------
(***************************************************************************)
(* The elastic session pool of src/pool: callers check a session out, run  *)
(* one command on it and hand it back; a reaper thread closes sessions     *)
(* that stayed idle; the pool's drop joins the reaper before the engine is *)
(* closed.  One element of Commands is one call of SessionPool::run with   *)
(* its own CommandSlot, so it may be cancelled by another thread at any    *)
(* moment.                                                                 *)
(*                                                                         *)
(* Every critical section of the pool's mutex, and of a slot's mutex, is   *)
(* one atomic action; a condition-variable notification that the code      *)
(* issues after unlocking is an action of its own.                         *)
(*                                                                         *)
(* Time is abstracted to what the reaper asks of it: sessions are pushed   *)
(* with a non-decreasing `since`, so those idle for at least the timeout   *)
(* are a prefix of idle, of length stale.  Module ReaperClock checks that  *)
(* the code's walk over the entries agrees with that reading.              *)
(***************************************************************************)
EXTENDS Integers, Sequences, FiniteSets

CONSTANTS Commands,    \* calls of SessionPool::run
          Cancellable, \* those of run_command_cancellable; run_command's
                       \* own slot is never cancelled
          Sessions,    \* native sessions that may be opened
          Min, Max,    \* Concurrency: floor and ceiling of the pool
          NoSession,
          NoCommand

\* Concurrency::from_count and ::dynamic refuse anything else (src/options.rs).
ASSUME LimitsAssumption == /\ Min \in Nat /\ Max \in Nat
                           /\ 1 <= Min /\ Min <= Max

ASSUME NamesAssumption == /\ NoSession \notin Sessions
                          /\ NoCommand \notin Commands
                          /\ Cancellable \subseteq Commands

ASSUME FiniteAssumption == IsFiniteSet(Commands)

VARIABLES
  idle,       \* State::idle, least recently used first
  stale,      \* how many entries of idle have outstayed the timeout
  open,       \* State::open
  pc,         \* where each command's thread is
  sess,       \* the session a command's Checkout holds
  outcome,    \* what SessionPool::run answers
  slot,       \* CommandSlot: the state of each command's slot
  interrupt,  \* the session a Running slot's interrupt would kill
  op,         \* the operation attached to each native session
  killed,     \* commands whose operation was interrupted
  reaper,     \* where the reaper thread is
  dying,      \* the sessions the reaper took and has not destroyed
  reaped,     \* the count it will subtract from open
  phase       \* the life of the pool and of the runtime behind it

commandVars == <<sess, outcome>>
slotVars    == <<slot, interrupt, op, killed>>
reaperVars  == <<reaper, dying, reaped, phase>>
vars == <<idle, stale, open, pc, commandVars, slotVars, reaperVars>>

PCs == {"new", "checkout", "waiting", "opening", "unreserved", "holding",
        "armed", "running", "ended", "disarmed", "returned", "done"}
Outcomes == {"none", "answer", "refused", "error"}
Slots    == {"Waiting", "Running", "Finished", "Cancelled"}
Reapers  == {"absent", "scan", "waiting", "destroying", "counting", "gone"}
Phases   == {"open", "stopping", "joining", "joined", "dropped",
             "closed", "deferred"}

IdleSessions == {idle[i] : i \in 1..Len(idle)}
Held         == {sess[c] : c \in Commands} \ {NoSession}
Interrupts   == {interrupt[c] : c \in Commands} \ {NoSession}

\* Everything that keeps a SessionInner, and so the native session and the
\* runtime behind it, alive.
Live == IdleSessions \cup Held \cup Interrupts \cup dying

Waiting == {c \in Commands : pc[c] = "waiting"}
Quiet   == \A c \in Commands : pc[c] \in {"new", "done"}

--------------------------------------------------------------------------------
(* SessionPool::open: the floor is opened and, for an elastic pool whose    *)
(* thread could be started, the reaper begins its first scan.               *)

Init ==
  /\ idle \in {f \in [1..Min -> Sessions] :
                 \A i, j \in 1..Min : f[i] = f[j] => i = j}
  /\ stale = 0
  /\ open = Min
  /\ pc        = [c \in Commands |-> "new"]
  /\ sess      = [c \in Commands |-> NoSession]
  /\ outcome   = [c \in Commands |-> "none"]
  /\ slot      = [c \in Commands |-> "Waiting"]
  /\ interrupt = [c \in Commands |-> NoSession]
  /\ op        = [s \in Sessions |-> NoCommand]
  /\ killed = {}
  /\ reaper \in IF Min < Max THEN {"scan", "absent"} ELSE {"absent"}
  /\ dying = {}
  /\ reaped = 0
  /\ phase = "open"

--------------------------------------------------------------------------------
(* SessionPool::run and checkout                                            *)

Ask(c) ==
  /\ phase = "open"
  /\ pc[c] = "new"
  /\ pc' = [pc EXCEPT ![c] = "checkout"]
  /\ UNCHANGED <<idle, stale, open, commandVars, slotVars, reaperVars>>

\* State::take pops the most recently returned session.
Take(c) ==
  /\ pc[c] = "checkout"
  /\ idle # <<>>
  /\ idle' = SubSeq(idle, 1, Len(idle) - 1)
  /\ stale' = IF stale = Len(idle) THEN stale - 1 ELSE stale
  /\ sess' = [sess EXCEPT ![c] = idle[Len(idle)]]
  /\ pc' = [pc EXCEPT ![c] = "holding"]
  /\ UNCHANGED <<open, outcome, slotVars, reaperVars>>

\* The reservation is made before the lock is dropped for the open.
ReserveAs(c, counted) ==
  /\ pc[c] = "checkout"
  /\ idle = <<>>
  /\ open < Max
  /\ open' = counted
  /\ pc' = [pc EXCEPT ![c] = "opening"]
  /\ UNCHANGED <<idle, stale, commandVars, slotVars, reaperVars>>
\* (Slip: the reservation is forgotten.)
Reserve_Uncounted(c) == ReserveAs(c, open)
Reserve(c) == ReserveAs(c, open + 1)

Wait(c) ==
  /\ pc[c] = "checkout"
  /\ idle = <<>>
  /\ open >= Max
  /\ pc' = [pc EXCEPT ![c] = "waiting"]
  /\ UNCHANGED <<idle, stale, open, commandVars, slotVars, reaperVars>>

\* Condition variables may wake a waiter that nobody notified.
SpuriousWake(c) ==
  /\ pc[c] = "waiting"
  /\ pc' = [pc EXCEPT ![c] = "checkout"]
  /\ UNCHANGED <<idle, stale, open, commandVars, slotVars, reaperVars>>

\* grow: the engine opens the session the checkout reserved ...
Grow(c) ==
  /\ pc[c] = "opening"
  /\ \E s \in Sessions \ Live : sess' = [sess EXCEPT ![c] = s]
  /\ pc' = [pc EXCEPT ![c] = "holding"]
  /\ UNCHANGED <<idle, stale, open, outcome, slotVars, reaperVars>>

\* ... or refuses, and the reservation goes back before a waiter is told.
GrowFailsThen(c, next) ==
  /\ pc[c] = "opening"
  /\ open' = open - 1
  /\ outcome' = [outcome EXCEPT ![c] = "error"]
  /\ pc' = [pc EXCEPT ![c] = next]
  /\ UNCHANGED <<idle, stale, sess, slotVars, reaperVars>>
\* (Slip: no waiter is told.)
GrowFails_Silent(c) == GrowFailsThen(c, "done")
GrowFails(c) == GrowFailsThen(c, "unreserved")

\* returned.notify_one(), after the lock was released: any one waiter.
NotifyOne(c) ==
  /\ pc[c] \in {"unreserved", "returned"}
  /\ \/ \E w \in Waiting :
          pc' = [pc EXCEPT ![c] = "done", ![w] = "checkout"]
     \/ /\ Waiting = {}
        /\ pc' = [pc EXCEPT ![c] = "done"]
  /\ UNCHANGED <<idle, stale, open, commandVars, slotVars, reaperVars>>

--------------------------------------------------------------------------------
(* CommandSlot and the native session                                       *)

\* CommandSlot::start accepts the interrupt only from Waiting.
StartFrom(c, states) ==
  /\ pc[c] = "holding"
  /\ slot[c] \in states
  /\ slot' = [slot EXCEPT ![c] = "Running"]
  /\ interrupt' = [interrupt EXCEPT ![c] = sess[c]]
  /\ pc' = [pc EXCEPT ![c] = "armed"]
  /\ UNCHANGED <<idle, stale, open, commandVars, op, killed, reaperVars>>
\* (Slip: a cancelled slot is armed all the same.)
Start_Unasked(c) == StartFrom(c, {"Waiting", "Cancelled"})
Start(c) == StartFrom(c, {"Waiting"})

\* run answers None; the checkout is about to be dropped.
StartRefused(c) ==
  /\ pc[c] = "holding"
  /\ slot[c] # "Waiting"
  /\ outcome' = [outcome EXCEPT ![c] = "refused"]
  /\ pc' = [pc EXCEPT ![c] = "disarmed"]
  /\ UNCHANGED <<idle, stale, open, sess, slotVars, reaperVars>>

\* Session::runCommand binds the strand and makes an operation context.
Attach(c) ==
  /\ pc[c] = "armed"
  /\ op' = [op EXCEPT ![sess[c]] = c]
  /\ pc' = [pc EXCEPT ![c] = "running"]
  /\ UNCHANGED <<idle, stale, open, commandVars, slot, interrupt, killed,
                 reaperVars>>

\* A command the engine refuses before it makes an operation context.
Reject(c) ==
  /\ pc[c] = "armed"
  /\ outcome' = [outcome EXCEPT ![c] = "answer"]
  /\ pc' = [pc EXCEPT ![c] = "ended"]
  /\ UNCHANGED <<idle, stale, open, sess, slotVars, reaperVars>>

\* run_command returns, or unwinds: the operation detaches either way.
Finish(c) ==
  /\ pc[c] = "running"
  /\ op' = [op EXCEPT ![sess[c]] = NoCommand]
  /\ outcome' = [outcome EXCEPT ![c] = "answer"]
  /\ pc' = [pc EXCEPT ![c] = "ended"]
  /\ UNCHANGED <<idle, stale, open, sess, slot, interrupt, killed, reaperVars>>

\* (Slip: the session goes back with the slot still armed.)
Disarm_Forgotten(c) ==
  /\ pc[c] = "ended"
  /\ pc' = [pc EXCEPT ![c] = "disarmed"]
  /\ UNCHANGED <<idle, stale, open, commandVars, slotVars, reaperVars>>
\* Disarm::drop, which is CommandSlot::finish.
Disarm(c) ==
  /\ pc[c] = "ended"
  /\ slot' = IF slot[c] = "Running" THEN [slot EXCEPT ![c] = "Finished"]
                                    ELSE slot
  /\ interrupt' = [interrupt EXCEPT ![c] = NoSession]
  /\ pc' = [pc EXCEPT ![c] = "disarmed"]
  /\ UNCHANGED <<idle, stale, open, commandVars, op, killed, reaperVars>>

\* Checkout::drop, which is Idles::give_back up to its notification.
GiveBackThen(c, kept, next) ==
  /\ pc[c] = "disarmed"
  /\ idle' = Append(idle, sess[c])
  /\ sess' = [sess EXCEPT ![c] = kept]
  /\ pc' = [pc EXCEPT ![c] = next]
  /\ UNCHANGED <<stale, open, outcome, slotVars, reaperVars>>
\* (Slips: the checkout keeps the session; no waiter is told.)
GiveBack_Keeps(c)  == GiveBackThen(c, sess[c], "returned")
GiveBack_Silent(c) == GiveBackThen(c, NoSession, "done")
GiveBack(c) == GiveBackThen(c, NoSession, "returned")

\* Session::kill interrupts whatever operation is attached, if one is.
Kill(s) == IF op[s] = NoCommand THEN killed ELSE killed \cup {op[s]}

\* CommandSlot::cancel, on whichever thread stopped waiting for the answer.
Cancel(c) ==
  /\ c \in Cancellable
  /\ pc[c] # "new"
  /\ slot[c] # "Cancelled"
  /\ killed' = IF slot[c] = "Running" THEN Kill(interrupt[c]) ELSE killed
  /\ slot' = [slot EXCEPT ![c] = "Cancelled"]
  /\ interrupt' = [interrupt EXCEPT ![c] = NoSession]
  /\ UNCHANGED <<idle, stale, open, pc, commandVars, op, reaperVars>>

--------------------------------------------------------------------------------
(* The reaper thread                                                        *)

\* Time passes: one more session, the oldest still fresh, comes due.
Age ==
  /\ reaper \notin {"absent", "gone"}
  /\ stale < Len(idle)
  /\ stale' = stale + 1
  /\ UNCHANGED <<idle, open, pc, commandVars, slotVars, reaperVars>>

\* (Slip: an off-by-one at the floor.)
Spare_OffByOne == IF open > Min + 1 THEN open - Min - 1 ELSE 0
\* self.open.saturating_sub(min)
Spare == IF open > Min THEN open - Min ELSE 0

\* How many sessions State::reap takes: the stale ones the floor can spare.
Expired == IF Spare < stale THEN Spare ELSE stale

\* One turn of the loop that finds sessions to close: they leave idle under
\* the lock and are destroyed without it.
ReapCounting(now, later) ==
  /\ reaper = "scan"
  /\ phase = "open"
  /\ Expired > 0
  /\ dying' = {idle[i] : i \in 1..Expired}
  /\ reaped' = later
  /\ open' = open - now
  /\ idle' = SubSeq(idle, Expired + 1, Len(idle))
  /\ stale' = stale - Expired
  /\ reaper' = "destroying"
  /\ UNCHANGED <<pc, commandVars, slotVars, phase>>
\* (Slip: they leave the count while the engine still holds them.)
ReapSome_CountsEarly == ReapCounting(Expired, 0)
ReapSome == ReapCounting(0, Expired)

\* A turn that finds none waits on the closing condition variable.
ReapNone ==
  /\ reaper = "scan"
  /\ phase = "open"
  /\ Expired = 0
  /\ reaper' = "waiting"
  /\ UNCHANGED <<idle, stale, open, pc, commandVars, slotVars, dying, reaped,
                 phase>>

\* drop(expired), with the pool unlocked.
DestroyExpired ==
  /\ reaper = "destroying"
  /\ dying' = {}
  /\ reaper' = "counting"
  /\ UNCHANGED <<idle, stale, open, pc, commandVars, slotVars, reaped, phase>>

\* State::closed, and returned.notify_all() before the lock is released.
CountClosed ==
  /\ reaper = "counting"
  /\ open' = open - reaped
  /\ reaped' = 0
  /\ pc' = [c \in Commands |-> IF pc[c] = "waiting" THEN "checkout" ELSE pc[c]]
  /\ reaper' = "scan"
  /\ UNCHANGED <<idle, stale, commandVars, slotVars, dying, phase>>

\* The timed wait runs out, or wakes for no reason.
ReaperWakes ==
  /\ reaper = "waiting"
  /\ reaper' = "scan"
  /\ UNCHANGED <<idle, stale, open, pc, commandVars, slotVars, dying, reaped,
                 phase>>

\* state.closing is seen at the top of the loop.
ReaperExitsIf(cond) ==
  /\ reaper = "scan"
  /\ phase # "open"
  /\ cond
  /\ reaper' = "gone"
  /\ UNCHANGED <<idle, stale, open, pc, commandVars, slotVars, dying, reaped,
                 phase>>

\* (Slip: only on a turn that has nothing to close.)
ReaperExits_WhenIdle == ReaperExitsIf(Expired = 0)
ReaperExits == ReaperExitsIf(TRUE)

--------------------------------------------------------------------------------
(* Client::close: the pool is dropped, then the runtime is closed.  Both    *)
(* take the client by value, so no command is inside run.                   *)

\* SessionPool::drop and stop_reaping, up to its notification.
DropTo(next) ==
  /\ phase = "open"
  /\ Quiet
  /\ phase' = next
  /\ UNCHANGED <<idle, stale, open, pc, commandVars, slotVars, reaper, dying,
                 reaped>>
\* (Slip: the reaper is not joined.)
BeginDrop_NoJoin == DropTo("joined")
BeginDrop == DropTo(IF reaper = "absent" THEN "joined" ELSE "stopping")

\* closing.notify_all()
NotifyReaper(woken) ==
  /\ phase = "stopping"
  /\ phase' = "joining"
  /\ reaper' = IF reaper = "waiting" THEN woken ELSE reaper
  /\ UNCHANGED <<idle, stale, open, pc, commandVars, slotVars, dying, reaped>>
\* (Slip: the reaper is left to find out when its wait runs out.)
NotifyClosing_Nobody == NotifyReaper("waiting")
NotifyClosing == NotifyReaper("scan")

Join ==
  /\ phase = "joining"
  /\ reaper = "gone"
  /\ phase' = "joined"
  /\ UNCHANGED <<idle, stale, open, pc, commandVars, slotVars, reaper, dying,
                 reaped>>

\* The pool's fields drop, and every free session with them.
DropSessions ==
  /\ phase = "joined"
  /\ idle' = <<>>
  /\ stale' = 0
  /\ phase' = "dropped"
  /\ UNCHANGED <<open, pc, commandVars, slotVars, reaper, dying, reaped>>

\* NativeClient::close: a runtime something still shares is left to the last
\* holder, and the close answers Ok all the same.
CloseRuntime ==
  /\ phase = "dropped"
  /\ phase' = IF Live = {} THEN "closed" ELSE "deferred"
  /\ UNCHANGED <<idle, stale, open, pc, commandVars, slotVars, reaper, dying,
                 reaped>>

Terminated ==
  /\ phase \in {"closed", "deferred"}
  /\ UNCHANGED vars

--------------------------------------------------------------------------------
Checkout(c) == Take(c) \/ Reserve(c) \/ Wait(c)
Open(c)     == Grow(c) \/ GrowFails(c)
Arm(c)      == Start(c) \/ StartRefused(c)
Engine(c)   == Attach(c) \/ Reject(c) \/ Finish(c)
HandBack(c) == Disarm(c) \/ GiveBack(c) \/ NotifyOne(c)

\* What the thread of a command does once the command was asked for.
Thread(c) == Checkout(c) \/ Open(c) \/ Arm(c) \/ Engine(c) \/ HandBack(c)

Reaper == \/ ReapSome \/ ReapNone \/ DestroyExpired \/ CountClosed
          \/ ReaperWakes \/ ReaperExits

Closer == NotifyClosing \/ Join \/ DropSessions \/ CloseRuntime

Next ==
  \/ \E c \in Commands : Ask(c) \/ Thread(c) \/ SpuriousWake(c) \/ Cancel(c)
  \/ Age
  \/ Reaper
  \/ BeginDrop
  \/ Closer
  \/ Terminated

Spec == Init /\ [][Next]_vars

\* Every thread that can run does, commands end, and time passes.  Asking,
\* cancelling, waking for no reason and dropping the pool are the callers' and
\* the platform's choices.
Fairness ==
  /\ \A c \in Commands : WF_vars(Thread(c))
  /\ WF_vars(Reaper)
  /\ WF_vars(Age)
  /\ WF_vars(Closer)

FairSpec == Spec /\ Fairness

--------------------------------------------------------------------------------
(* Properties                                                               *)

\* The type of every variable: the shape of State, Slot and the threads' states.
TypeOK ==
  /\ idle \in Seq(Sessions)
  /\ stale \in 0..Len(idle)
  /\ open \in Nat
  /\ pc \in [Commands -> PCs]
  /\ sess \in [Commands -> Sessions \cup {NoSession}]
  /\ outcome \in [Commands -> Outcomes]
  /\ slot \in [Commands -> Slots]
  /\ interrupt \in [Commands -> Sessions \cup {NoSession}]
  /\ op \in [Sessions -> Commands \cup {NoCommand}]
  /\ killed \in SUBSET Commands
  /\ reaper \in Reapers
  /\ dying \in SUBSET Sessions
  /\ reaped \in Nat
  /\ phase \in Phases

Holders == {c \in Commands : sess[c] # NoSession}
Opening == {c \in Commands : pc[c] = "opening"}

\* The ceiling: never more than Max sessions exist in the engine, counting those
\* being opened and those the reaper has taken but not finished destroying.
\* reaper.rs keeps a session in `open` until it is gone for exactly this.
CeilingHolds == Cardinality(Live) + Cardinality(Opening) <= Max

\* A session is in one place only: one command holds it, or it is idle once, or
\* the reaper is destroying it.  run_command takes &mut self on this ground.
OneOwner ==
  /\ \A c, d \in Holders : sess[c] = sess[d] => c = d
  /\ \A i, j \in 1..Len(idle) : idle[i] = idle[j] => i = j
  /\ Held \cap IdleSessions = {}
  /\ (Held \cup IdleSessions) \cap dying = {}

\* "An interrupt must never land on the next command to borrow the session"
\* (pool/mod.rs): an operation is killed only if its own caller cancelled it.
InterruptsOwnCommand == \A c \in killed : slot[c] = "Cancelled"

\* No wakeup is lost: when callers wait although a session is free or may be
\* opened, enough notifications and running checkouts are under way to use all
\* of that room (checkout, give_back, grow and the reaper's notify_all).
Stirring == {c \in Commands : pc[c] \in {"checkout", "unreserved", "returned"}}
NoLostWakeup ==
  Waiting # {} => Len(idle) + (Max - open) <= Cardinality(Stirring)

\* Client::close really closes the engine: no session, and no interrupt in a
\* slot, still shares the runtime when the pool has been dropped.
CloseIsReal == phase # "deferred"

\* Dropping the pool does not sit out the idle timeout: once the reaper was
\* told, it is not in its timed wait (stop_reaping and the check in reap).
JoinIsPrompt == phase = "joining" => reaper # "waiting"

\* What SessionPool::run promises, without pool, reaper or locks.
Decided == [error |-> "failed", refused |-> "refused", answer |-> "answered"]
Status(c) ==
  IF outcome[c] # "none" THEN Decided[outcome[c]]
  ELSE IF pc[c] = "new" THEN "idle"
  ELSE IF pc[c] \in {"armed", "running"} THEN "running"
  ELSE "asked"
Service == INSTANCE CommandService
             WITH status      <- [c \in Commands |-> Status(c)],
                  cancelled   <- {c \in Commands : slot[c] = "Cancelled"},
                  interrupted <- killed
\* Every step of the pool is a step of that service: at most Max commands run,
\* a command cancelled before it began never does, and a cancel interrupts no
\* other command (SessionPool::run, CommandSlot).
ImplementsService == Service!Spec

\* Every command asked for is answered: no checkout waits for ever.  (Done and
\* closed are for good, so "infinitely often" is "leads to" here and below, and
\* TLC checks the three on one graph.)
EveryCommandReturns == []<>Quiet

\* Closing an idle client ends: the reaper sees `closing` and is joined.
CloseCompletes == []<>(phase \in {"open", "closed"})

\* An elastic pool left alone gives back what a burst made it open: it shrinks
\* to its floor (reap, Concurrency::dynamic).
ShrinksToFloor ==
  []<>(Quiet /\ reaper # "absent" /\ phase = "open" => open <= Min)

\* reaper.rs promises the reaper goes "down to a floor of `min` sessions open":
\* whenever no session is on its way, at least the floor is there.
FloorKept == phase = "open" /\ Opening = {} => Cardinality(Live) >= Min

\* engine.rs promises that dropping the future of a command "interrupts the
\* command rather than leaving it to run to completion".
CancelInterrupts ==
  \A c \in Commands :
    pc[c] = "running" /\ slot[c] = "Cancelled" => c \in killed
================================================================================

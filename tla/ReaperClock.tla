----------------------------- MODULE ReaperClock -----------------------------
(***************************************************************************)
(* The session reaper against a clock (src/pool/reaper.rs): State::reap    *)
(* walks the idle sessions with their ages and answers which to close and  *)
(* how long to wait, and the reaper thread waits exactly that long.        *)
(* SessionPool abstracts time to "a prefix of idle is stale"; this module  *)
(* keeps the ages, and checks that reading and the promises about time.    *)
(*                                                                         *)
(* Time is discrete and the reaper prompt: no tick passes while it has     *)
(* something to do.  Ages beyond the timeout are all alike to the code, so *)
(* they stop at Timeout + 1.                                               *)
(***************************************************************************)
EXTENDS Integers, Sequences

CONSTANTS Min, Max, Timeout

\* Concurrency::dynamic: room above the floor and a timeout that is not zero.
ASSUME ElasticAssumption == /\ Min \in Nat /\ Max \in Nat /\ Timeout \in Nat
                            /\ 1 <= Min /\ Min < Max /\ 1 <= Timeout

VARIABLES
  ages,     \* how long each idle session has waited, least recently used first
  busy,     \* sessions checked out
  opening,  \* reservations whose session is being opened
  open,     \* State::open
  wait,     \* what is left of the reaper's timed wait
  surplus   \* how long the pool has been above its floor without a break

clockVars == <<ages, busy, opening, open, wait, surplus>>

AgeCap == Timeout + 1
Later(n) == IF n < AgeCap THEN n + 1 ELSE AgeCap
Lesser(m, n) == IF m < n THEN m ELSE n

\* (Slips: a session coming due does not shorten the wait; one the floor cannot
\* spare does.)
WaitAfter_Whole(before, waited) == before.wait
WaitAfter_AnyEntry(before, waited) == Lesser(before.wait, Timeout - waited)
\* What keeping an entry makes of the wait.
WaitAfter(before, waited) ==
  IF before.spare > 0 THEN Lesser(before.wait, Timeout - waited)
                      ELSE before.wait

\* One entry of the walk: closed, or kept and waited for.
ReapEntry(before, waited) ==
  IF before.spare > 0 /\ waited >= Timeout
  THEN [before EXCEPT !.spare = @ - 1, !.expired = @ + 1]
  ELSE [before EXCEPT !.kept = Append(@, waited),
                      !.wait = WaitAfter(before, waited)]

\* State::reap, entry by entry: what is left to spare, the entries taken and
\* kept so far, and the wait.
ReapWalk(spare) ==
  LET walk[i \in 0..Len(ages)] ==
        IF i = 0
        THEN [spare |-> spare, expired |-> 0, kept |-> <<>>, wait |-> Timeout]
        ELSE ReapEntry(walk[i - 1], ages[i])
  IN walk[Len(ages)]

Spare == IF open > Min THEN open - Min ELSE 0

\* With nothing to spare, or nothing idle, the walk is skipped.
Reaped ==
  IF Spare = 0 \/ ages = <<>>
  THEN [spare |-> Spare, expired |-> 0, kept |-> ages, wait |-> Timeout]
  ELSE ReapWalk(Spare)

--------------------------------------------------------------------------------
Init ==
  /\ ages = [i \in 1..Min |-> 0]
  /\ busy = 0 /\ opening = 0
  /\ open = Min
  /\ wait = 0
  /\ surplus = 0

\* The surplus ends the moment the pool is at its floor.
Recount == surplus' = IF open' > Min THEN surplus ELSE 0

\* State::take.
Take ==
  /\ ages # <<>>
  /\ ages' = SubSeq(ages, 1, Len(ages) - 1)
  /\ busy' = busy + 1
  /\ UNCHANGED <<opening, open, wait, surplus>>

\* checkout's reservation, and grow's two ends.
Reserve ==
  /\ ages = <<>>
  /\ open < Max
  /\ open' = open + 1 /\ opening' = opening + 1
  /\ Recount
  /\ UNCHANGED <<ages, busy, wait>>

Grow ==
  /\ opening > 0
  /\ opening' = opening - 1 /\ busy' = busy + 1
  /\ UNCHANGED <<ages, open, wait, surplus>>

GrowFails ==
  /\ opening > 0
  /\ opening' = opening - 1 /\ open' = open - 1
  /\ Recount
  /\ UNCHANGED <<ages, busy, wait>>

\* Idles::give_back stamps the session while it holds the lock.
GiveBackInto(idle) ==
  /\ busy > 0
  /\ busy' = busy - 1
  /\ ages' = idle
  /\ UNCHANGED <<opening, open, wait, surplus>>
\* (Slip: the session goes to the wrong end.)
GiveBack_AtFront == GiveBackInto(<<0>> \o ages)
GiveBack == GiveBackInto(Append(ages, 0))

\* One turn of the reaper's loop: after closing something it asks again at once,
\* after closing nothing it waits as long as reap answered.  A wait may end
\* early, for no reason.
Reap ==
  /\ ages' = Reaped.kept
  /\ open' = open - Reaped.expired
  /\ wait' = IF Reaped.expired > 0 THEN 0 ELSE Reaped.wait
  /\ Recount
  /\ UNCHANGED <<busy, opening>>

Tick ==
  /\ wait > 0
  /\ wait' = wait - 1
  /\ ages' = [i \in 1..Len(ages) |-> Later(ages[i])]
  /\ surplus' = IF open > Min THEN Later(surplus) ELSE 0
  /\ UNCHANGED <<busy, opening, open>>

Next == Take \/ Reserve \/ Grow \/ GrowFails \/ GiveBack \/ Reap \/ Tick

Spec == Init /\ [][Next]_clockVars

--------------------------------------------------------------------------------
Ripe == {i \in 1..Len(ages) : ages[i] >= Timeout}

\* What SessionPool assumes of the walk: the sessions idle for the timeout come
\* first, the walk closes as many of them as the floor can spare, oldest first,
\* and keeps all others in order (State::reap, Idles::give_back).
WalkTakesOldest ==
  \E ripe \in 0..Len(ages) :
    /\ Ripe = 1..ripe
    /\ Reaped.expired = Lesser(Spare, ripe)
    /\ Reaped.kept = SubSeq(ages, Reaped.expired + 1, Len(ages))

\* "The answered wait is never zero" (reap): the reaper does not spin.
WaitNeverZero == Reaped.wait > 0

\* A session is closed on time: once the pool has been above its floor for more
\* than one timeout, none stays idle for longer than the timeout.
ClosedOnTime ==
  surplus > Timeout => \A i \in 1..Len(ages) : ages[i] <= Timeout
================================================================================

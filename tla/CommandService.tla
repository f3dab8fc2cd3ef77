---------------------------- MODULE CommandService ----------------------------
(***************************************************************************)
(* What a client promises the callers of run_command_cancellable, with no  *)
(* sessions, pool, locks or threads: at most Max commands run at a time, a *)
(* command cancelled before it began is never run, and a cancel interrupts *)
(* its own command or nothing.                                             *)
(***************************************************************************)
EXTENDS Integers, FiniteSets

CONSTANTS Commands, Max

VARIABLES status,       \* how far each command has got
          cancelled,    \* commands their callers stopped waiting for
          interrupted   \* commands the engine was told to stop

serviceVars == <<status, cancelled, interrupted>>

Running == {c \in Commands : status[c] = "running"}

Init ==
  /\ status = [c \in Commands |-> "idle"]
  /\ cancelled = {}
  /\ interrupted = {}

Become(c, from, to) ==
  /\ status[c] = from
  /\ status' = [status EXCEPT ![c] = to]
  /\ UNCHANGED <<cancelled, interrupted>>

Ask(c) == Become(c, "idle", "asked")

Begin(c) ==
  /\ c \notin cancelled
  /\ Cardinality(Running) < Max
  /\ Become(c, "asked", "running")

Refuse(c) == c \in cancelled /\ Become(c, "asked", "refused")

Fail(c) == Become(c, "asked", "failed")

Answer(c) == Become(c, "running", "answered")

Cancel(c) ==
  /\ status[c] # "idle"
  /\ cancelled' = cancelled \cup {c}
  /\ \/ UNCHANGED interrupted
     \/ c \in Running /\ interrupted' = interrupted \cup {c}
  /\ UNCHANGED status

Next == \E c \in Commands :
  Ask(c) \/ Begin(c) \/ Refuse(c) \/ Fail(c) \/ Answer(c) \/ Cancel(c)

Spec == Init /\ [][Next]_serviceVars
================================================================================

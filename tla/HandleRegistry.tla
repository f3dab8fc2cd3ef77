---------------------------- MODULE HandleRegistry ----------------------------
(***************************************************************************)
(* The Android binding's registry of open clients                          *)
(* (embedded-mongodb-android/src/registry.rs, handle.rs).  A Java thread   *)
(* holds a client only as a long; every call looks the long up, and a      *)
(* close takes the entry out of the map, then the entry's lock, then the   *)
(* client out of the entry.                                                *)
(*                                                                         *)
(* A client is numbered by the open that made it, and its registry entry   *)
(* goes by the same number.  The process may die at any point; what Java   *)
(* saved of its handles is quoted in the next process.  A call that misses *)
(* the map only answers an error, so it is no action here.                 *)
(***************************************************************************)
EXTENDS Integers, FiniteSets, Functions

CONSTANTS
  Threads,       \* Java threads
  Tags,          \* what process_tag can draw: TAG_MASK values in the code
  LastSequence,  \* the widest sequence: 2^32 - 1 in the code
  MaxOpens       \* bound: engine starts in a behaviour, over all processes

ASSUME RegistryAssumption == /\ Tags \subseteq Nat \ {0}
                             /\ LastSequence \in Nat \ {0}
                             /\ MaxOpens \in Nat

VARIABLES
  counter,  \* Counter: where the next id comes from
  entries,  \* State::entries, from an id to the entry it names
  taken,    \* the entries whose client a close has taken out
  runtime,  \* the client whose engine holds the process's one runtime
  opens,    \* the clients opened so far, in all processes
  pc,       \* where each thread is
  quoted,   \* the handle its call quotes
  at,       \* the entry, or the client, it has in hand
  drawn,    \* the tags of this process and the ones before it
  issued    \* the handles Java has been given, and for which client

vars == <<counter, entries, taken, runtime, opens, pc, quoted, at, drawn, issued>>
threadVars == <<pc, quoted, at>>

NoClient == 0
Clients == 1..MaxOpens
Unstarted == [state |-> "Unstarted", tag |-> 0, sequence |-> 1]
Places == {"idle", "opening", "inserting", "reading", "running", "writing", "closing"}

\* HandleId::from_parts: the tag in the high bits, the sequence in the low ones.
FromParts(tag, sequence) == tag * (LastSequence + 1) + sequence

Handles == {FromParts(tag, n) : tag \in Tags, n \in 1..LastSequence}

--------------------------------------------------------------------------------
Init ==
  /\ counter = Unstarted
  /\ entries = <<>>
  /\ taken = {} /\ runtime = NoClient /\ opens = 0
  /\ pc = [t \in Threads |-> "idle"]
  /\ quoted = [t \in Threads |-> 0]
  /\ at = [t \in Threads |-> NoClient]
  /\ drawn = {} /\ issued = {}

\* A thread's call moves on, or returns.
Goes(t, place) == pc' = [pc EXCEPT ![t] = place] /\ UNCHANGED <<quoted, at>>
Returns(t) == /\ pc' = [pc EXCEPT ![t] = "idle"]
              /\ quoted' = [quoted EXCEPT ![t] = 0]
              /\ at' = [at EXCEPT ![t] = NoClient]

\* Client::new: the runtime refuses a second one in the process.
Open(t) ==
  /\ pc[t] = "idle" /\ runtime = NoClient /\ opens < MaxOpens
  /\ opens' = opens + 1 /\ runtime' = opens + 1
  /\ pc' = [pc EXCEPT ![t] = "opening"]
  /\ at' = [at EXCEPT ![t] = opens + 1]
  /\ UNCHANGED <<counter, entries, taken, quoted, drawn, issued>>

\* The engine does not start, and its constructor cleans up after itself.
OpenFails(t) ==
  /\ pc[t] = "opening"
  /\ runtime' = NoClient
  /\ Returns(t)
  /\ UNCHANGED <<counter, entries, taken, opens, drawn, issued>>

Opened(t) ==
  /\ pc[t] = "opening"
  /\ Goes(t, "inserting")
  /\ UNCHANGED <<counter, entries, taken, runtime, opens, drawn, issued>>

\* (Slip: every process counts from the same tag.)
ProcessTag_Fixed(tag) == tag = CHOOSE any \in Tags : TRUE
\* The draw repeats no earlier process's tag.
ProcessTag(tag) == tag \in Tags \ drawn

\* The id Counter::take_next gives, and the tag it draws for the first one.
NextParts(tag, sequence) ==
  /\ \/ counter.state = "Unstarted" /\ ProcessTag(tag) /\ sequence = 1
     \/ counter.state = "Next" /\ tag = counter.tag /\ sequence = counter.sequence
  /\ drawn' = drawn \cup {tag}

\* Counter::take_next with an id to give.
TakeNext(tag, sequence) ==
  /\ NextParts(tag, sequence)
  /\ counter' = IF sequence < LastSequence
                THEN [state |-> "Next", tag |-> tag, sequence |-> sequence + 1]
                ELSE [counter EXCEPT !.state = "Spent"]

\* Registry::insert.
Insert(t) ==
  /\ pc[t] = "inserting"
  /\ \E tag \in Tags, sequence \in 1..LastSequence :
       LET id == FromParts(tag, sequence) IN
       /\ TakeNext(tag, sequence)
       /\ entries' = [i \in DOMAIN entries \cup {id} |->
                        IF i = id THEN at[t] ELSE entries[i]]
       /\ issued' = issued \cup {<<id, at[t]>>}
  /\ Returns(t)
  /\ UNCHANGED <<taken, runtime, opens>>

\* (Slip: the client is left to nobody.)
Spent_Forgets(t) ==
  /\ pc[t] = "inserting" /\ counter.state = "Spent"
  /\ Returns(t)
  /\ UNCHANGED <<counter, entries, taken, runtime, opens, drawn, issued>>
\* Registry::insert with no id left: spent shuts the client down, with the
\* registry unlocked.
Spent(t) ==
  /\ pc[t] = "inserting" /\ counter.state = "Spent"
  /\ Goes(t, "closing")
  /\ UNCHANGED <<counter, entries, taken, runtime, opens, drawn, issued>>

--------------------------------------------------------------------------------
\* Registry::lookup, for a command on the handle id.
Lookup(t, id) ==
  /\ pc[t] = "idle" /\ id \in DOMAIN entries
  /\ pc' = [pc EXCEPT ![t] = "reading"]
  /\ quoted' = [quoted EXCEPT ![t] = id]
  /\ at' = [at EXCEPT ![t] = entries[id]]
  /\ UNCHANGED <<counter, entries, taken, runtime, opens, drawn, issued>>

\* Who holds an entry's RwLock.
Readers(e) == {t \in Threads : pc[t] = "running" /\ at[t] = e}
Writers(e) == {t \in Threads : pc[t] = "closing" /\ at[t] = e}

\* (Slip: a command does not ask whether the client is still there.)
Read_Unchecked(t) ==
  /\ pc[t] = "reading" /\ Writers(at[t]) = {}
  /\ Goes(t, "running")
  /\ UNCHANGED <<counter, entries, taken, runtime, opens, drawn, issued>>
\* Entry::read: the shared lock, and a client that may be gone by now.
Read(t) ==
  /\ pc[t] = "reading" /\ Writers(at[t]) = {}
  /\ IF at[t] \in taken THEN Returns(t) ELSE Goes(t, "running")
  /\ UNCHANGED <<counter, entries, taken, runtime, opens, drawn, issued>>

\* The engine answers the command, and the shared lock is released.
Answered(t) ==
  /\ pc[t] = "running"
  /\ Returns(t)
  /\ UNCHANGED <<counter, entries, taken, runtime, opens, drawn, issued>>

\* (Slip: the entry stays in the map while the close waits for its lock.)
Remove_Later(t, id) ==
  /\ pc[t] = "idle" /\ id \in DOMAIN entries
  /\ UNCHANGED entries
  /\ pc' = [pc EXCEPT ![t] = "writing"]
  /\ quoted' = [quoted EXCEPT ![t] = id]
  /\ at' = [at EXCEPT ![t] = entries[id]]
  /\ UNCHANGED <<counter, taken, runtime, opens, drawn, issued>>
\* Registry::close takes the entry out of the map.
Remove(t, id) ==
  /\ pc[t] = "idle" /\ id \in DOMAIN entries
  /\ entries' = Restrict(entries, DOMAIN entries \ {id})
  /\ pc' = [pc EXCEPT ![t] = "writing"]
  /\ quoted' = [quoted EXCEPT ![t] = id]
  /\ at' = [at EXCEPT ![t] = entries[id]]
  /\ UNCHANGED <<counter, taken, runtime, opens, drawn, issued>>

\* Entry::write, which waits for the commands in flight, and the take.
Write(t) ==
  /\ pc[t] = "writing" /\ Readers(at[t]) = {} /\ Writers(at[t]) = {}
  /\ taken' = taken \cup {at[t]}
  /\ IF at[t] \in taken THEN Returns(t) ELSE Goes(t, "closing")
  /\ UNCHANGED <<counter, entries, runtime, opens, drawn, issued>>

\* Client::close, under the exclusive lock; it frees the runtime whether or not
\* it answers a failure.
Closed(t) ==
  /\ pc[t] = "closing"
  /\ runtime' = NoClient
  /\ Returns(t)
  /\ UNCHANGED <<counter, entries, taken, opens, drawn, issued>>

\* Android kills the process.  Only what Java saved of it is left.
Restart ==
  /\ Tags \ drawn # {} /\ opens > 0
  /\ counter' = Unstarted /\ entries' = <<>>
  /\ taken' = {} /\ runtime' = NoClient
  /\ pc' = [t \in Threads |-> "idle"]
  /\ quoted' = [t \in Threads |-> 0]
  /\ at' = [t \in Threads |-> NoClient]
  /\ UNCHANGED <<opens, drawn, issued>>

--------------------------------------------------------------------------------
\* What a call does on its own once it has begun.
Proceeds(t) == \/ OpenFails(t) \/ Opened(t) \/ Insert(t) \/ Spent(t)
               \/ Read(t) \/ Answered(t)
               \/ Write(t) \/ Closed(t)

\* Java may quote any handle it was ever given; whatever else it quotes misses.
Calls(t) == \/ Open(t)
            \/ \E h \in issued : Lookup(t, h[1]) \/ Remove(t, h[1])

Next == \/ \E t \in Threads : Calls(t) \/ Proceeds(t)
        \/ Restart

Spec == Init /\ [][Next]_vars /\ \A t \in Threads : WF_vars(Proceeds(t))

--------------------------------------------------------------------------------
\* Every id in the map is one HandleId::new would accept and the counter made.
TypeOK ==
  /\ counter.state \in {"Unstarted", "Next", "Spent"}
  /\ counter.sequence \in 1..LastSequence
  /\ DOMAIN entries \subseteq Handles
  /\ \A id \in DOMAIN entries : entries[id] \in Clients
  /\ taken \subseteq Clients /\ runtime \in Clients \cup {NoClient}
  /\ opens \in 0..MaxOpens
  /\ pc \in [Threads -> Places]
  /\ quoted \in [Threads -> Handles \cup {0}]
  /\ at \in [Threads -> Clients \cup {NoClient}]
  /\ drawn \subseteq Tags
  /\ issued \subseteq Handles \X Clients

\* A handle names one client for ever, in the process that issued it and in every
\* later one: Registry::insert says a stale id can never name a client that
\* happens to be open now, and HandleId says so across a restart.
HandleNamesOneClient ==
  /\ \A h, k \in issued : h[1] = k[1] => h = k
  /\ \A t \in Threads : pc[t] = "running" => <<quoted[t], at[t]>> \in issued

\* A command runs only on an engine that is up: not on one that a close, begun
\* after the command had looked its handle up, is shutting down or has shut down
\* (Registry::run_command and Registry::close).
RunsOnLiveEngine ==
  \A t \in Threads : pc[t] = "running" => runtime = at[t] /\ Writers(at[t]) = {}

\* The engine that holds the process's one runtime can still be closed: a handle
\* in the map names it, or a thread on its way has it in hand.  Otherwise no
\* client could ever be opened in this process again (Registry::insert, spent).
EngineHasAnOwner ==
  runtime # NoClient =>
    \/ \E id \in DOMAIN entries : entries[id] = runtime
    \/ \E t \in Threads : /\ pc[t] \in {"opening", "inserting", "writing", "closing"}
                          /\ at[t] = runtime

\* A close ends, however many threads keep sending commands on the handle:
\* taking the entry out of the map first leaves only the ones that had looked it
\* up to wait for (Registry::close).
CloseReturns == \A t \in Threads : pc[t] = "writing" ~> pc[t] = "idle"
================================================================================

----------------------------- MODULE ClientOpen -----------------------------
(***************************************************************************)
(* Client::open of src/client.rs, start to end, and the life of the client *)
(* after it: the options are checked and converted (OpenOptions), the      *)
(* directory is asked about, the engine starts, the sessions open, the     *)
(* free-disk floors are established (FloorLimits), the repair pass runs    *)
(* (RepairPass), and only then is the client handed out.  A step of the    *)
(* open that fails takes the engine down again; the floors of the process  *)
(* and the files of the directory outlive it.                              *)
(***************************************************************************)
EXTENDS OpenOptions, FloorLimits, RepairPass

CONSTANTS
    Vectors,   \* the option vectors callers hand over, of any length
    Policies   \* the session policies callers ask for, accepted or not

\* A vector is of jlongs; a policy names the constructor it came from.
ASSUME OpenAssumption ==
    /\ Vectors \subseteq Seq(Int)
    /\ Policies \subseteq [kind : {"unset", "count", "dynamic"}, min : Int, max : Int, millis : Nat]

VARIABLES
    request,   \* what the open in progress was asked for: nothing, or one request
    engine,    \* the C struct the native open was handed
    sessions   \* the policy the session pool was opened with
               \* (all three until the sessions are open: nothing reads them later)

openVars == <<request, engine, sessions>>
vars == <<openVars, floorVars, repairVars>>

\* Concurrency: the constructor the caller used decides which policies exist.
PolicyOf(p) ==
    CASE p.kind = "unset" -> Some(ResolveConcurrency(None))
      [] p.kind = "count" -> FromCount(p.max)
      [] p.kind = "dynamic" -> Dynamic(p.min, p.max, p.millis)

Forget == request' = {} /\ engine' = {} /\ sessions' = {}

Init == FloorInit /\ RepairInit /\ request = {} /\ engine = {} /\ sessions = {}

-----------------------------------------------------------------------------

\* Options out of range never become an OpenOptions.
AcceptedVectors == {v \in Vectors : SlotsAccepted(v)}
AcceptedPolicies == {p \in Policies : PolicyOf(p) # None}

\* One open at a time: a process has one runtime, and a second open is refused.
BeginOpen(vector, policy, r) ==
    /\ client = "none"
    /\ AskOrigin
    /\ request' = {[vector |-> vector, policy |-> policy, floor |-> r]}
    /\ UNCHANGED <<engine, sessions, floorVars>>

\* NativeClient::open_with_options.
OpenEngine ==
    /\ EngineStarts
    /\ engine' = {ToFfi(EngineOptionsOf(q.vector)) : q \in request}
    /\ UNCHANGED <<request, sessions, floorVars>>

OpenEngineFails ==
    /\ EngineFails
    /\ request' = {}
    /\ UNCHANGED <<engine, sessions, floorVars>>

\* SessionPool::open, which everything after it sends its commands through.
OpenSessions ==
    /\ stage = "due"
    /\ \E q \in request :
         /\ sessions' = PolicyOf(q.policy)
         /\ BeginEstablish(q.floor)
    /\ UNCHANGED <<request, engine, repairVars>>

OpenSessionsFails ==
    /\ client = "none"
    /\ AbandonOpen
    /\ Forget
    /\ UNCHANGED floorVars

EstablishFloor ==
    /\ stage = "due"
    /\ Establish
    /\ client' # "none"
    /\ Forget
    /\ UNCHANGED repairVars

EstablishFloorFails ==
    /\ Establish
    /\ client' = "none"
    /\ AbandonOpen
    /\ Forget

\* repair::run, which no failure of its own keeps from returning.
RepairRun ==
    /\ client = "established"
    /\ Pass
    /\ UNCHANGED <<openVars, floorVars>>

ReturnClient == HandOver /\ PassEnds /\ UNCHANGED openVars

-----------------------------------------------------------------------------

UseClient ==
    /\ client = "open"
    /\ Serving
    /\ UNCHANGED <<openVars, floorVars>>

Movers ==
    /\ \E t \in Threads : Mover(t)
    /\ UNCHANGED <<openVars, repairVars>>

\* close(self), or the drop.
Close == CloseClient /\ CloseDirectory /\ UNCHANGED openVars

ProcessDies ==
    /\ NewProcess
    /\ Crash
    /\ Forget

LoseMarker == MarkerLost /\ client = "none" /\ UNCHANGED <<openVars, floorVars>>

Next ==
    \/ \E v \in AcceptedVectors : \E p \in AcceptedPolicies : \E r \in Requests : BeginOpen(v, p, r)
    \/ OpenEngine
    \/ OpenEngineFails
    \/ OpenSessions
    \/ OpenSessionsFails
    \/ EstablishFloor
    \/ EstablishFloorFails
    \/ RepairRun
    \/ ReturnClient
    \/ UseClient
    \/ Movers
    \/ Close
    \/ ProcessDies
    \/ LoseMarker

Spec == Init /\ [][Next]_vars

-----------------------------------------------------------------------------
(* What the composition promises *)

Unset(value) == value = 0

\* What the caller asked for is what is in force.  The engine starts on exactly
\* the numbers of the caller's vector, slots this build does not know left out
\* and slots it was not given unset, each inside the range of its setting; the
\* session pool opens on a policy it can serve, with a reaper exactly when
\* there is room above its floor; and the repair pass, which builds indexes,
\* runs on the free-disk floors this open decided, not an earlier client's.
OpenGivesWhatWasAsked ==
    /\ \A e \in engine : \E q \in request :
         /\ e = ReadSlots(q.vector)
         /\ Unset(e[1]) \/ e[1] \in 1..MaxCacheMebibytes
         /\ Unset(e[2]) \/ e[2] \in MinJournalKibibytes..MaxJournalKibibytes
         /\ Unset(e[3]) \/ e[3] \in {1, 2}
    /\ \A s \in sessions :
         /\ 1 <= s.min /\ s.min <= s.max /\ s.max <= MaxCount
         /\ (s.idle = None) <=> (s.min = s.max)
         /\ \A millis \in s.idle : millis > 0
    /\ stage \notin {"none", "asked", "due", "serving"} => knobs = decided

=============================================================================

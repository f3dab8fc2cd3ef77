----------------------------- MODULE RepairPass -----------------------------
(***************************************************************************)
(* The one-time index repair of src/repair: before the engine starts the   *)
(* open asks whether the directory already holds a database (origin.rs);   *)
(* once it is up, a directory without a marker is listed (commands.rs),    *)
(* each collection is validated, repaired and validated again (mod.rs,     *)
(* report.rs), what happened is logged (announce.rs), and a pass that      *)
(* reached every collection leaves the marker behind (marker.rs).          *)
(*                                                                         *)
(* The process may die between any two steps.  The engine is external: it  *)
(* may refuse any command, its validate may throw half way, and its repair *)
(* may be cut short after it changed the collection.  What a repair that   *)
(* was answered wrote is taken to be durable.                              *)
(***************************************************************************)
EXTENDS FiniteSets, Naturals

CONSTANTS
    Collections,  \* the namespaces the directory may hold
    Views,        \* entries of listCollections that are views
    EnvValues     \* values of the skip variable, trimmed and in lower case

ASSUME RepairAssumption == Collections \cap Views = {}

VARIABLES
    \* the directory
    wiredTiger,   \* the file WiredTiger exists
    present,      \* the collections the directory holds
    damage,       \* "sound", "damaged", or "residual": damaged beyond the engine's repair
    marker,       \* Marker::state
    partial,      \* the temporary file: "none", "begun" or "whole"
    \* the process
    library,      \* the native library it is linked with, from before or after the fix
    origin,       \* what the open found before it started the engine
    loaded,       \* collections an unfixed library loaded from disk, with no index catalog
    \* the pass
    stage, todo, at, complete, repaired,
    \* what happened, for the properties
    effects,      \* <<c, e>>: the pass moved or deleted documents of c
    said,         \* <<c, w>>: a WARN record about c
    lost,         \* collections whose repair was never answered
    late          \* collections an unfixed library damaged after the directory was marked

directoryVars == <<wiredTiger, present, damage, marker, partial>>
processVars == <<library, origin, loaded>>
passVars == <<stage, todo, at, complete, repaired>>
ghostVars == <<effects, said, lost, late>>
repairVars == <<directoryVars, processVars, passVars, ghostVars>>

Libraries == {"fixed", "unfixed"}
Recording == {"create", "write", "rename"}

\* A directory of an earlier build, which knew no marker, or none at all.
RepairInit ==
    /\ wiredTiger \in BOOLEAN
    /\ present \in IF wiredTiger THEN SUBSET Collections ELSE {{}}
    /\ damage \in [Collections -> {"sound", "damaged"}]
    /\ \A c \in Collections \ present : damage[c] = "sound"
    /\ marker = "Missing"
    /\ partial = "none"
    /\ library \in Libraries
    /\ origin = "Fresh"
    /\ loaded = {}
    /\ stage = "none"
    /\ todo = {} /\ at = {} /\ complete = FALSE /\ repaired = {}
    /\ effects = {} /\ said = {} /\ lost = {} /\ late = {}

-----------------------------------------------------------------------------
(* Before the pass: Client::open *)

Origin == IF wiredTiger THEN "PreExisting" ELSE "Fresh"

AskOrigin ==
    /\ stage = "none"
    /\ origin' = Origin
    /\ stage' = "asked"
    /\ UNCHANGED <<directoryVars, library, loaded, todo, at, complete, repaired, ghostVars>>

EngineStarts ==
    /\ stage = "asked"
    /\ wiredTiger' = TRUE
    /\ loaded' = IF library = "unfixed" THEN present ELSE {}
    /\ stage' = "due"
    /\ UNCHANGED <<present, damage, marker, partial, library, origin, todo, at, complete,
                   repaired, ghostVars>>

\* A start that fails may already have created the storage engine's files.
EngineFails ==
    /\ stage = "asked"
    /\ wiredTiger' \in {wiredTiger, TRUE}
    /\ stage' = "none"
    /\ origin' = "Fresh"
    /\ UNCHANGED <<present, damage, marker, partial, library, loaded, todo, at, complete,
                   repaired, ghostVars>>

-----------------------------------------------------------------------------
(* mod.rs: run *)

\* skip_requested: a closed set of values, and nothing else.
SkipValues == {"1", "true", "yes", "on"}
SkipRequested(value) == value \in SkipValues

AfterRun(value) ==
    CASE SkipRequested(value) -> "done"
      [] marker = "Recorded" -> "done"
      [] origin = "Fresh" -> "create"
      [] OTHER -> "list"

Run ==
    /\ stage = "due"
    /\ \E value \in EnvValues : stage' = AfterRun(value)
    /\ UNCHANGED <<directoryVars, processVars, todo, at, complete, repaired, ghostVars>>

-----------------------------------------------------------------------------
(* commands.rs: namespaces and collections *)

\* What listCollections answers, over all databases.  An unfixed library
\* lists nothing of a database it restored from disk.
Entries == IF library = "unfixed" \/ present = {} THEN {} ELSE present \cup Views

\* is_collection: all but the views.
IsCollection(entry) == entry \notin Views

Namespaces == {e \in Entries : IsCollection(e)}

\* (Slip: an empty catalog is one with nothing to check.)
CatalogTrusted_Always == TRUE

\* pass: databases without one collection are an unfixed library's answer.
CatalogTrusted == ~(present # {} /\ Namespaces = {})

List ==
    /\ stage = "list"
    /\ stage' = IF CatalogTrusted THEN "sweep" ELSE "done"
    /\ todo' = IF CatalogTrusted THEN Namespaces ELSE {}
    /\ complete' = CatalogTrusted
    /\ UNCHANGED <<directoryVars, processVars, at, repaired, ghostVars>>

\* One refused listing, or an entry without a name, ends the pass.
ListFails ==
    /\ stage = "list"
    /\ stage' = "done"
    /\ UNCHANGED <<directoryVars, processVars, todo, at, complete, repaired, ghostVars>>

-----------------------------------------------------------------------------
(* report.rs: what a validate reply says *)

\* "absent" is a valid field that is missing or no bool; errors and missing
\* say whether the two arrays hold anything.
Replies == [valid : {"true", "false", "absent"}, errors : BOOLEAN, missing : BOOLEAN,
            threw : BOOLEAN]

\* Health::parse.
Health(reply) ==
    CASE reply.threw -> "Inconclusive"
      [] ~reply.threw /\ reply.valid = "true" /\ ~reply.errors /\ ~reply.missing -> "Sound"
      [] OTHER -> "Damaged"

Unremarkable(reply) == reply.valid = "true" /\ ~reply.errors /\ ~reply.missing

\* validate, as the engine answers it.  A scan that threw has no errors and
\* says valid: true; one that finished never calls a damaged collection sound.
Validate(c) ==
    {r \in Replies : IF r.threw THEN Unremarkable(r)
                     ELSE damage[c] # "sound" => ~Unremarkable(r)}

-----------------------------------------------------------------------------
(* mod.rs: sweep and visit *)

\* The visit is over; Err withholds the marker and the sweep goes on.
Leave(c, ok) ==
    /\ todo' = todo \ {c}
    /\ at' = {}
    /\ complete' = (complete /\ ok)
    /\ repaired' = {}
    /\ stage' = "sweep"

\* The first check of a collection, and announce_damage.
VisitAnswered(c, reply) ==
    /\ stage = "sweep"
    /\ c \in todo
    /\ \/ /\ Health(reply) = "Damaged"
          /\ at' = {c}
          /\ said' = said \cup {<<c, "damage">>}
          /\ stage' = "repair"
          /\ UNCHANGED <<todo, complete, repaired>>
       \/ /\ Health(reply) # "Damaged"
          /\ Leave(c, Health(reply) = "Sound")
          /\ UNCHANGED said
    /\ UNCHANGED <<directoryVars, processVars, effects, lost, late>>

Visit == \E c \in todo : \E reply \in Validate(c) : VisitAnswered(c, reply)

VisitRefused ==
    /\ stage = "sweep"
    /\ \E c \in todo : Leave(c, FALSE)
    /\ UNCHANGED <<directoryVars, processVars, ghostVars>>

\* What validate {repair: true} may do to a collection: fix it or not, evict
\* duplicates, delete unreadable records.  Repaired::parse reads it off the
\* reply; uuid says whether the collection's UUID was readable in it.
Repairs(c) ==
    [damage : IF damage[c] = "sound" THEN {"sound"} ELSE {"sound", "residual"},
     moved : BOOLEAN, deleted : BOOLEAN, uuid : BOOLEAN]

Effects(c, r) ==
    {<<c, e>> : e \in {x \in {"moved", "deleted"} :
                         IF x = "moved" THEN r.moved ELSE r.deleted}}

\* A sound collection is left as it is.
RepairsOf(c) == {r \in Repairs(c) : damage[c] = "sound" => ~r.moved /\ ~r.deleted}

Repair ==
    /\ stage = "repair"
    /\ \E c \in at : \E r \in RepairsOf(c) :
         /\ damage' = [damage EXCEPT ![c] = r.damage]
         /\ effects' = effects \cup Effects(c, r)
         /\ repaired' = {r}
    /\ stage' = "announce"
    /\ UNCHANGED <<wiredTiger, present, marker, partial, processVars, todo, at, complete,
                   said, lost, late>>

\* The command fails, possibly after it did part of its work.
RepairFails ==
    /\ stage = "repair"
    /\ \E c \in at :
         /\ \E r \in RepairsOf(c) :
              /\ damage' \in {damage, [damage EXCEPT ![c] = r.damage]}
              /\ effects' = effects \cup Effects(c, r)
         /\ lost' = lost \cup {c}
         /\ Leave(c, FALSE)
    /\ UNCHANGED <<wiredTiger, present, marker, partial, processVars, said, late>>

\* (Slip: no record of its own for a destination that
\* cannot be named.)
Announcements_NamedOnly(c, r) ==
    Effects(c, r) \cup {<<c, w>> : w \in {x \in {"moved_to"} : r.moved /\ r.uuid}}

\* announce.rs: announce_repair, announce_deletions and
\* announce_missing_destination, for what the reply counted.
Announcements(c, r) ==
    Effects(c, r) \cup
    {<<c, w>> : w \in IF ~r.moved THEN {}
                      ELSE IF r.uuid THEN {"moved_to"} ELSE {"no_destination"}}

Announce ==
    /\ stage = "announce"
    /\ \E c \in at : \E r \in repaired : said' = said \cup Announcements(c, r)
    /\ stage' = "confirm"
    /\ UNCHANGED <<directoryVars, processVars, todo, at, complete, repaired, effects, lost, late>>

\* The second check, and announce_residual_damage.  A collection that is
\* still damaged has been reported, and counts as visited.
ConfirmAnswered(c, reply) ==
    /\ said' = said \cup {<<c, "residual">> : x \in {h \in {"Damaged"} : h = Health(reply)}}
    /\ Leave(c, Health(reply) # "Inconclusive")

Confirm ==
    /\ stage = "confirm"
    /\ \E c \in at : \E reply \in Validate(c) : ConfirmAnswered(c, reply)
    /\ UNCHANGED <<directoryVars, processVars, effects, lost, late>>

ConfirmRefused ==
    /\ stage = "confirm"
    /\ \E c \in at : Leave(c, FALSE)
    /\ UNCHANGED <<directoryVars, processVars, ghostVars>>

SweepEnds ==
    /\ stage = "sweep"
    /\ todo = {}
    /\ stage' = IF complete THEN "create" ELSE "done"
    /\ UNCHANGED <<directoryVars, processVars, todo, at, complete, repaired, ghostVars>>

-----------------------------------------------------------------------------
(* marker.rs: record, through a temporary file *)

MarkerStep(from, to, file, state) ==
    /\ stage = from
    /\ stage' = to
    /\ partial' = file
    /\ marker' = state
    /\ UNCHANGED <<wiredTiger, present, damage, processVars, todo, at, complete, repaired,
                   ghostVars>>

CreatePartial == MarkerStep("create", "write", "begun", marker)
WritePartial == MarkerStep("write", "rename", "whole", marker)
RenamePartial == MarkerStep("rename", "done", "none", "Recorded")

\* A failed write takes its file back, if it can; a failed rename leaves it.
\* Either way the open goes on without the marker.
RecordFails ==
    \/ MarkerStep("create", "done", partial, marker)
    \/ MarkerStep("create", "done", "none", marker)
    \/ MarkerStep("write", "done", "none", marker)
    \/ MarkerStep("write", "done", "begun", marker)
    \/ MarkerStep("rename", "done", "whole", marker)

-----------------------------------------------------------------------------
(* The client is handed out, used, closed; the process dies *)

PassEnds ==
    /\ stage = "done"
    /\ stage' = "serving"
    /\ todo' = {} /\ at' = {} /\ complete' = FALSE /\ repaired' = {}
    /\ effects' = {} /\ said' = {} /\ lost' = {}
    /\ UNCHANGED <<directoryVars, processVars, late>>

CreateCollection(c) ==
    /\ stage = "serving"
    /\ c \notin present
    /\ present' = present \cup {c}
    /\ UNCHANGED <<wiredTiger, damage, marker, partial, processVars, passVars, ghostVars>>

\* A write through an unfixed library, to a collection it loaded from disk,
\* goes into no index.
UnindexedWrite(c) ==
    /\ stage = "serving"
    /\ c \in loaded
    /\ damage' = [damage EXCEPT ![c] = "damaged"]
    /\ late' = IF marker = "Recorded" THEN late \cup {c} ELSE late
    /\ UNCHANGED <<wiredTiger, present, marker, partial, processVars, passVars, effects, said, lost>>

CloseDirectory ==
    /\ stage = "serving"
    /\ stage' = "none"
    /\ origin' = "Fresh"
    /\ loaded' = {}
    /\ UNCHANGED <<directoryVars, library, todo, at, complete, repaired, ghostVars>>

\* An open that fails after the engine started takes the engine down again.
AbandonOpen ==
    /\ stage = "due"
    /\ stage' = "none"
    /\ origin' = "Fresh"
    /\ loaded' = {}
    /\ UNCHANGED <<directoryVars, library, todo, at, complete, repaired, ghostVars>>

\* The process dies at any point; the next one may be linked differently.
Crash ==
    /\ stage' = "none"
    /\ library' \in Libraries
    /\ origin' = "Fresh"
    /\ loaded' = {}
    /\ todo' = {} /\ at' = {} /\ complete' = FALSE /\ repaired' = {}
    /\ effects' = {} /\ said' = {} /\ lost' = {}
    /\ UNCHANGED <<directoryVars, late>>

\* The marker goes: a power loss undid the rename, or somebody deleted it.
MarkerLost ==
    /\ stage = "none"
    /\ marker = "Recorded"
    /\ marker' = "Missing"
    /\ late' = {}
    /\ UNCHANGED <<wiredTiger, present, damage, partial, processVars, passVars, effects, said, lost>>

Opening == AskOrigin \/ EngineStarts \/ EngineFails \/ AbandonOpen

Pass == \/ Run \/ List \/ ListFails \/ Visit \/ VisitRefused \/ Repair \/ RepairFails
        \/ Announce \/ Confirm \/ ConfirmRefused \/ SweepEnds
        \/ CreatePartial \/ WritePartial \/ RenamePartial \/ RecordFails

Serving == \E c \in Collections : CreateCollection(c) \/ UnindexedWrite(c)

RepairNext == Opening \/ Pass \/ PassEnds \/ Serving \/ CloseDirectory \/ Crash \/ MarkerLost

RepairSpec == RepairInit /\ [][RepairNext]_repairVars

-----------------------------------------------------------------------------
(* What the pass promises *)

\* A marker means that every collection was looked at: nothing an earlier
\* build damaged is left unrepaired and unreported behind it, whatever the
\* engine refused, wherever a process died, and whichever library the pass ran
\* on.  Only what an unfixed library damages after the marker is behind it.
MarkerMeansVisited ==
    marker = "Recorded" => \A c \in present : damage[c] = "damaged" => c \in late

Said(c, w) == <<c, w>> \in said

\* Documents never move or go silently: the collection was named before the
\* repair ran, and unless the repair was never answered the log says what
\* became of them and, for moved ones, where they are or that nobody can tell.
\* A collection still damaged when the directory is marked has been reported.
NothingMovesSilently ==
    /\ \A c \in Collections : \A e \in {"moved", "deleted"} :
         <<c, e>> \in effects =>
           /\ Said(c, "damage")
           /\ \/ c \in lost
              \/ stage = "announce" /\ c \in at
              \/ Said(c, e) /\ (e = "moved" => Said(c, "moved_to") \/ Said(c, "no_destination"))
    /\ stage \in Recording =>
         \A c \in present : damage[c] = "residual" => Said(c, "residual")

=============================================================================

----------------------------- MODULE EngineBuild -----------------------------
(***************************************************************************)
(* embedded-mongodb-sys/build.rs and its modules: how a cargo build comes  *)
(* by the native engine.  Every target directory runs the script on its    *)
(* own, at any time, against one checkout and one content-addressed cache. *)
(* Nothing is locked.  Between any two steps the developer edits, commits  *)
(* or moves the engine pin, a release is published, the disk damages a     *)
(* cache entry, a build is killed, a machine is suspended for a day.       *)
(*                                                                         *)
(* The bytes of a library are told apart by the inputs it was built from.  *)
(* A file is missing, whole, short (not the manifest's size) or wrong (the *)
(* size, not the digest).  Cargo, git and the downloaders are external.    *)
(***************************************************************************)
EXTENDS Naturals, FiniteSets

CONSTANTS
    Dirs,       \* target directories, each with its OUT_DIR
    Trees,      \* contents of ARTIFACT_PATHS
    Pins,       \* revisions of the mongo submodule
    Declares,   \* the entry points the header of each tree declares
    Hosts,      \* the machines, targets and clones to build on
    Faults      \* bound on what the developer and the machine do in between

ASSUME BuildAssumption ==
    /\ Declares \in [Trees -> SUBSET UNION {Declares[t] : t \in Trees}]
    /\ Faults \in Nat

VARIABLES
    host,        \* the machine, the target and the kind of clone
    checkout,    \* HEAD's inputs, the work tree's, the submodule's HEAD, commits since the release
    manifest,    \* prebuilt.rs: the inputs the published library was built from
    environment, \* the variables of the next cargo invocation
    cache,       \* the cache entry of every library there can be
    pc,          \* where each script is
    used,        \* the environment each script was started in
    library,     \* the inputs of the library each script is after
    temporary,   \* each download's file
    old,         \* the downloads not written to for a day
    outDir,      \* what OUT_DIR holds: nothing, a link to the library, or a copy of it
    changed,     \* cargo: something the script watches is newer than its start
    unseen,      \* the inputs each script's comparison has not seen as they are now
    faults

checkoutVars == <<host, checkout, manifest, environment>>
scriptVars == <<pc, used, library, temporary, old, outDir, unseen>>
vars == <<checkoutVars, scriptVars, cache, changed, faults>>

Inputs == [tree : Trees, pin : Pins]
Files == {"missing", "whole", "short", "wrong"}
Froms == {"directory", "source", "prebuilt"}
Running == {"compare", "status", "glibc", "verify", "drop", "fetch", "check", "rename",
            "file", "exports", "install", "bridge", "bazel"}
Absent == "absent"

Init ==
    /\ host \in Hosts
    /\ \E i \in Inputs, s \in Pins \cup {Absent} :
          /\ manifest = i
          /\ checkout = [git |-> host.git, head |-> i, work |-> i.tree, since |-> FALSE,
                         submodule |-> IF s = Absent THEN Absent ELSE i.pin]
    /\ environment = [from |-> "prebuilt", offline |-> FALSE]
    /\ cache = [i \in Inputs |-> "missing"]
    /\ pc = [d \in Dirs |-> "idle"]
    /\ used = [d \in Dirs |-> environment]
    /\ library = [d \in Dirs |-> manifest]
    /\ temporary = [d \in Dirs |-> "missing"]
    /\ old = {}
    /\ outDir = [d \in Dirs |-> "nothing"]
    /\ changed = [d \in Dirs |-> FALSE]
    /\ unseen = [d \in Dirs |-> {}]
    /\ faults = 0

(***************************************************************************)
(* Cargo.  A script that failed, or that never ran, is run by the next     *)
(* build; one that succeeded is run again when a path it watches is newer  *)
(* than the run's start, or a variable it watches has another value.       *)
(***************************************************************************)
NeedsRun(d) ==
    \/ pc[d] \in {"idle", "failed"}
    \/ pc[d] = "done" /\ (changed[d] \/ used[d] # environment)

\* The cache entry of i was replaced, damaged or removed: newer for who
\* watches it.  Cargo compares modification times; assumed is that a damaged
\* or renamed file has one later than the start of a script that watches it.
Touched(i) ==
    [d \in Dirs |-> changed[d] \/ (used[d].from = "prebuilt" /\ library[d] = i)]

\* native, patches and prebuilt.rs are watched on every resolution path.
WatchedByAll == [d \in Dirs |-> TRUE]

\* One step of d's script that leaves the checkout and the cache alone.
Goto(d, step) ==
    /\ pc' = [pc EXCEPT ![d] = step]
    /\ UNCHANGED <<checkoutVars, used, library, temporary, old, outDir, unseen,
                   cache, changed, faults>>

\* main, to the head of resolve: the directory outranks the source build,
\* which outranks the prebuilt; a target nothing is published for is refused.
Start(d) ==
    /\ NeedsRun(d)
    /\ used' = [used EXCEPT ![d] = environment]
    /\ library' = [library EXCEPT ![d] = manifest]
    /\ changed' = [changed EXCEPT ![d] = FALSE]
    /\ unseen' = [unseen EXCEPT ![d] = {}]
    /\ pc' = [pc EXCEPT ![d] = CASE environment.from = "directory" -> "file"
                                 [] environment.from = "source" -> "bazel"
                                 [] environment.from = "prebuilt" ->
                                      IF host.published THEN "compare" ELSE "failed"]
    /\ UNCHANGED <<checkoutVars, temporary, old, outDir, cache, faults>>

(***************************************************************************)
(* build_freshness.rs                                                      *)
(***************************************************************************)
\* No history of ours, or git declining to answer about it.
NotCompared == {"none", "unreadable", "elsewhere", "foreign"}

\* What git is asked before the work tree: whether this is a clone that holds
\* SOURCE_COMMIT, the two pins, and the commits since.
Questions == {"history", "local", "published", "commits"}

\* A partial clone has SOURCE_COMMIT without its tree: what needs the tree is
\* answered only when git reaches the remote.
NeedsRemote == IF checkout.git = "partial" THEN {"published", "commits"} ELSE {}

\* git answers all but these: for want of the remote, or because it failed.
Silent(questions) ==
    /\ questions \subseteq NeedsRemote \/ faults < Faults
    /\ faults' = IF questions \subseteq NeedsRemote THEN faults ELSE faults + 1

\* The submodule's own HEAD when it is checked out, the gitlink otherwise.
LocalPin == IF checkout.submodule # Absent THEN checkout.submodule ELSE checkout.head.pin

\* The pins are compared when there are two.
PinMoved(d, silent) ==
    silent \cap {"local", "published"} = {} /\ LocalPin # library[d].pin

\* (Slip: asked from the package's directory, where the paths name nothing.)
CommitsSince_NoPaths(d, silent) == FALSE

\* rev-list SOURCE_COMMIT..HEAD, over ARTIFACT_PATHS and the gitlink: no
\* answer is no reason either.
CommitsSince(d, silent) ==
    "commits" \notin silent /\ (checkout.since \/ manifest # library[d])

\* The inputs that were not compared when these questions had no answer.
Missed(silent) ==
    IF "commits" \in silent THEN {"tree", "pin"} ELSE {i \in {"pin"} : silent # {}}

\* check_not_stale, up to its question about the work tree.
CompareCommits(d) ==
    /\ pc[d] = "compare"
    /\ \E silent \in SUBSET Questions :
          LET compared == checkout.git \notin NotCompared /\ "history" \notin silent IN
          /\ Silent(silent)
          /\ pc' = [pc EXCEPT ![d] =
                      CASE ~ compared -> "glibc"
                        [] compared /\ checkout.git = "shallow" -> "failed"
                        [] OTHER -> IF PinMoved(d, silent) \/ CommitsSince(d, silent)
                                    THEN "failed" ELSE "status"]
          /\ unseen' = [unseen EXCEPT ![d] = IF compared THEN Missed(silent) ELSE {"tree", "pin"}]
    /\ UNCHANGED <<checkoutVars, used, library, temporary, old, outDir, cache, changed>>

\* git status over ARTIFACT_PATHS, the submodule's dirt left out.
CompareWorkTree(d) ==
    /\ pc[d] = "status"
    /\ \E silent \in SUBSET {"status"} :
          /\ Silent(silent)
          /\ pc' = [pc EXCEPT ![d] = IF silent = {} /\ checkout.work # checkout.head.tree
                                     THEN "failed" ELSE "glibc"]
          /\ unseen' = [unseen EXCEPT ![d] = IF silent = {} THEN @ ELSE @ \cup {"tree"}]
    /\ UNCHANGED <<checkoutVars, used, library, temporary, old, outDir, cache, changed>>

\* check_glibc_floor
CheckGlibcFloor(d) ==
    /\ pc[d] = "glibc"
    /\ Goto(d, IF host.glibc = "old" THEN "failed" ELSE "verify")

(***************************************************************************)
(* build_cache.rs and build_download.rs                                    *)
(***************************************************************************)
SizeMatches(file) == file \in {"whole", "wrong"}

\* sha256 of the file against the manifest's.
DigestMatches(file) == file = "whole"

\* (Slip: the size is all that is looked at.)
Verified_Size(file) == SizeMatches(file)

\* verify: the size, which costs nothing, then the digest.
Verified(file) == SizeMatches(file) /\ DigestMatches(file)

\* fetch_prebuilt looks at the entry first.
VerifyEntry(d) ==
    LET file == cache[library[d]] IN
    /\ pc[d] = "verify"
    /\ Goto(d, CASE Verified(file) -> "file"
                 [] file = "missing" -> IF used[d].offline THEN "failed" ELSE "fetch"
                 [] OTHER -> "drop")

\* An entry that did not verify is removed, whatever it is by now.
DropEntry(d) ==
    /\ pc[d] = "drop"
    /\ cache' = [cache EXCEPT ![library[d]] = "missing"]
    /\ changed' = Touched(library[d])
    /\ pc' = [pc EXCEPT ![d] = IF used[d].offline THEN "failed" ELSE "fetch"]
    /\ UNCHANGED <<checkoutVars, used, library, temporary, old, outDir, unseen, faults>>

\* sweep_stale_temporaries: a download not written to for a day is removed,
\* its build alive or not.
Swept == [d \in Dirs |-> IF d \in old THEN "missing" ELSE temporary[d]]

\* fetch: a downloader fails, or it succeeds and may still have left less
\* than the asset, or an asset that was replaced.
Fetched == IF faults < Faults THEN Files ELSE {"whole"}

\* The sweep, then the download into a file of its own, which is removed
\* when the downloader fails.
Fetch(d) ==
    /\ pc[d] = "fetch"
    /\ \E file \in Fetched :
          /\ pc' = [pc EXCEPT ![d] = IF file = "missing" THEN "failed" ELSE "check"]
          /\ temporary' = [Swept EXCEPT ![d] = file]
          /\ faults' = IF file = "whole" THEN faults ELSE faults + 1
    /\ old' = {}
    /\ UNCHANGED <<checkoutVars, used, library, outDir, unseen, cache, changed>>

\* verify of the download: truncated, wrong bytes and vanished all end the
\* build with the file removed.
CheckDownload(d) ==
    /\ pc[d] = "check"
    /\ pc' = [pc EXCEPT ![d] = IF Verified(temporary[d]) THEN "rename" ELSE "failed"]
    /\ temporary' = [temporary EXCEPT ![d] = IF Verified(@) THEN @ ELSE "missing"]
    /\ old' = IF Verified(temporary[d]) THEN old ELSE old \ {d}
    /\ UNCHANGED <<checkoutVars, used, library, outDir, unseen, cache, changed, faults>>

\* The rename puts the download in place of whatever the entry is.
RenameDownload(d) ==
    /\ pc[d] = "rename"
    /\ temporary[d] # "missing"
    /\ cache' = [cache EXCEPT ![library[d]] = temporary[d]]
    /\ changed' = Touched(library[d])
    /\ temporary' = [temporary EXCEPT ![d] = "missing"]
    /\ old' = old \ {d}
    /\ pc' = [pc EXCEPT ![d] = "file"]
    /\ UNCHANGED <<checkoutVars, used, library, outDir, unseen, faults>>

\* It fails, the file swept or the directory refusing: an entry another
\* build installed will do.
RenameFails(d) ==
    /\ pc[d] = "rename"
    /\ temporary[d] = "missing" \/ faults < Faults
    /\ faults' = IF temporary[d] = "missing" THEN faults ELSE faults + 1
    /\ temporary' = [temporary EXCEPT ![d] = "missing"]
    /\ old' = old \ {d}
    /\ pc' = [pc EXCEPT ![d] = IF Verified(cache[library[d]]) THEN "file" ELSE "failed"]
    /\ UNCHANGED <<checkoutVars, used, library, outDir, unseen, cache, changed>>

(***************************************************************************)
(* build_native.rs, build_android.rs and build_logging.rs                  *)
(***************************************************************************)
\* AndroidNdk::detect: an architecture it has, an NDK, an API level from 21
\* and a clang for both.
NdkDetected == host.os = "android" => host.ndk /\ host.api >= 21

\* build_native: the submodule, the job count and the NDK are looked at
\* first; the rest is Bazel's, which builds what the work tree holds by then.
BazelBuilds(d) ==
    /\ pc[d] = "bazel"
    /\ checkout.submodule # Absent /\ host.jobs > 0 /\ NdkDetected
    /\ library' = [library EXCEPT ![d] = [tree |-> checkout.work, pin |-> checkout.submodule]]
    /\ pc' = [pc EXCEPT ![d] = "file"]
    /\ UNCHANGED <<checkoutVars, used, temporary, old, outDir, unseen, cache, changed, faults>>

BazelFails(d) ==
    /\ pc[d] = "bazel"
    /\ Goto(d, "failed")

(***************************************************************************)
(* The rest of main: the library is a file, exports what the header asks   *)
(* for, is installed, and the bridge is compiled against it.               *)
(***************************************************************************)
\* What Bazel made is there; the cache may have lost what was verified.
LibraryThere(d) ==
    CASE used[d].from = "prebuilt" -> cache[library[d]] # "missing"
      [] used[d].from = "directory" -> host.supplied
      [] used[d].from = "source" -> TRUE

\* native_library.is_file() and canonicalize()
LibraryIsFile(d) ==
    /\ pc[d] = "file"
    /\ Goto(d, IF LibraryThere(d) THEN "exports" ELSE "failed")

\* declared_entry_points of the header beside the script.
Expected == Declares[checkout.work]

\* The names the library holds.
Exports(d) ==
    IF used[d].from = "directory" THEN host.exports ELSE Declares[library[d].tree]

\* (Slip: the two sets are compared the other way round.)
ExportsAccepted_Swapped(exported) ==
    Expected \cap exported = {} \/ exported \subseteq Expected

\* check_exports against the work tree's header.  Not one name found means
\* that the file's names cannot be read.
ExportsAccepted(exported) ==
    Expected \cap exported = {} \/ Expected \subseteq exported

\* Of an entry damaged since it was verified any names may be left.
CheckExports(d) ==
    LET damaged == used[d].from = "prebuilt" /\ cache[library[d]] # "whole" IN
    /\ pc[d] = "exports"
    /\ \E exported \in IF damaged THEN SUBSET Exports(d) ELSE {Exports(d)} :
          Goto(d, IF LibraryThere(d) /\ ExportsAccepted(exported) THEN "install" ELSE "failed")

\* install: a link, or on macOS a copy, which needs the tools of a Mac.
Install(d) ==
    /\ pc[d] = "install"
    /\ LET copied == IF used[d].from = "prebuilt" THEN cache[library[d]] ELSE "whole"
           fails == host.os = "macos" /\ (~ host.apple \/ copied = "missing") IN
       /\ outDir' = [outDir EXCEPT ![d] = IF fails THEN "nothing"
                                          ELSE IF host.os = "macos" THEN copied ELSE "link"]
       /\ pc' = [pc EXCEPT ![d] = IF fails THEN "failed" ELSE "bridge"]
    /\ UNCHANGED <<checkoutVars, used, library, temporary, old, unseen, cache, changed, faults>>

\* The cxx bridge compiles, or the script ends there.
CompileBridge(d) ==
    /\ pc[d] = "bridge"
    /\ Goto(d, "done")

BridgeFails(d) ==
    /\ pc[d] = "bridge"
    /\ faults < Faults
    /\ pc' = [pc EXCEPT ![d] = "failed"]
    /\ faults' = faults + 1
    /\ UNCHANGED <<checkoutVars, used, library, temporary, old, outDir, unseen, cache, changed>>

Script(d) ==
    \/ Start(d) \/ CompareCommits(d) \/ CompareWorkTree(d) \/ CheckGlibcFloor(d)
    \/ VerifyEntry(d) \/ DropEntry(d) \/ Fetch(d) \/ CheckDownload(d)
    \/ RenameDownload(d) \/ RenameFails(d)
    \/ BazelBuilds(d) \/ BazelFails(d)
    \/ LibraryIsFile(d) \/ CheckExports(d) \/ Install(d) \/ CompileBridge(d) \/ BridgeFails(d)

(***************************************************************************)
(* What happens in between.                                                *)
(***************************************************************************)
Fault ==
    /\ faults < Faults
    /\ faults' = faults + 1

\* An edit to patches, native, build_native.rs or build_android.rs.
Edit ==
    /\ Fault
    /\ \E t \in Trees \ {checkout.work} : checkout' = [checkout EXCEPT !.work = t]
    /\ changed' = WatchedByAll
    /\ UNCHANGED <<host, manifest, environment, scriptVars, cache>>

\* The files stay as they are: cargo sees nothing.
Commit ==
    /\ Fault
    /\ checkout.work # checkout.head.tree
    /\ checkout' = [checkout EXCEPT !.head.tree = checkout.work, !.since = TRUE]
    /\ unseen' = [d \in Dirs |-> unseen[d] \cup {i \in {"tree"} : pc[d] = "status"}]
    /\ UNCHANGED <<host, manifest, environment, pc, used, library, temporary, old, outDir,
                   cache, changed>>

\* The script is past check_not_stale's questions about commits and pins.
Compared(d) == used[d].from = "prebuilt" /\ pc[d] \notin {"idle", "failed", "compare"}

\* The pin is not watched either: a commit that moves it, and a checkout of
\* another revision in the submodule.
MovePin ==
    /\ Fault
    /\ \/ \E p \in Pins \ {checkout.head.pin} :
             checkout' = [checkout EXCEPT !.head.pin = p, !.since = TRUE]
       \/ /\ checkout.submodule # Absent
          /\ \E p \in Pins \ {checkout.submodule} : checkout' = [checkout EXCEPT !.submodule = p]
    /\ unseen' = [d \in Dirs |-> unseen[d] \cup {i \in {"pin"} : Compared(d)}]
    /\ UNCHANGED <<host, manifest, environment, pc, used, library, temporary, old, outDir,
                   cache, changed>>

\* git fetch --unshallow
Unshallow ==
    /\ checkout.git = "shallow"
    /\ checkout' = [checkout EXCEPT !.git = "clone"]
    /\ UNCHANGED <<host, manifest, environment, scriptVars, cache, changed, faults>>

\* The native workflow builds HEAD and commits the manifest, which is pulled.
Publish ==
    /\ checkout.since
    /\ manifest' = checkout.head
    /\ checkout' = [checkout EXCEPT !.since = FALSE]
    /\ changed' = WatchedByAll
    /\ UNCHANGED <<host, environment, scriptVars, cache, faults>>

ChangeEnvironment ==
    /\ Fault
    /\ environment' \in [from : Froms, offline : BOOLEAN] \ {environment}
    /\ UNCHANGED <<host, checkout, manifest, scriptVars, cache, changed>>

\* A full disk, a power cut or a hand in the cache.
Damage ==
    /\ Fault
    /\ \E i \in Inputs :
          /\ cache[i] # "missing"
          /\ \E file \in Files \ {"whole", cache[i]} : cache' = [cache EXCEPT ![i] = file]
          /\ changed' = Touched(i)
    /\ UNCHANGED <<checkoutVars, scriptVars>>

\* The build is killed; the file it was downloading to is nobody's now.
Kill(d) ==
    /\ Fault
    /\ pc[d] \in Running
    /\ pc' = [pc EXCEPT ![d] = "failed"]
    /\ temporary' = [temporary EXCEPT ![d] = "missing"]
    /\ old' = old \ {d}
    /\ UNCHANGED <<checkoutVars, used, library, outDir, unseen, cache, changed>>

\* The machine was suspended for a day.
DayPasses ==
    /\ Fault
    /\ old' = {d \in Dirs : temporary[d] # "missing"}
    /\ UNCHANGED <<checkoutVars, pc, used, library, temporary, outDir, unseen, cache, changed>>

Next ==
    \/ \E d \in Dirs : Script(d) \/ Kill(d)
    \/ Edit \/ Commit \/ MovePin \/ Unshallow \/ Publish
    \/ ChangeEnvironment \/ Damage \/ DayPasses

Spec == Init /\ [][Next]_vars

(***************************************************************************)
(* Properties.                                                             *)
(***************************************************************************)
\* Cargo has nothing to run again and links what OUT_DIR holds.
Settled(d) == pc[d] = "done" /\ ~ NeedsRun(d)

LinkedFile(d) == IF outDir[d] = "link" THEN cache[library[d]] ELSE outDir[d]

\* A build that cargo takes for finished links, byte for byte, the library
\* the manifest of this checkout names: whatever another build did to the
\* shared cache meanwhile - removing as corrupt an entry that had just been
\* repaired, sweeping a download in flight, renaming over the entry - and
\* whatever the disk did to the entry since (build_download.rs, build_cache.rs).
LinkedBytesVerified ==
    \A d \in Dirs : Settled(d) /\ used[d].from = "prebuilt" =>
        library[d] = manifest /\ LinkedFile(d) = "whole"

\* A finished build is not linked to a library published before the native
\* inputs it finds now: the watches of main bring the script back for an edit,
\* and check_not_stale compares the commits, the pins and the work tree
\* (build.rs, build_freshness.rs).  Excepted, input by input, is what the
\* comparison has not seen (unseen): all of it where there is no history of
\* ours; what git left unanswered; an edit committed after rev-list was asked
\* and before status was; and a pin moved since, which is not watched.
PrebuiltMatchesInputs ==
    \A d \in Dirs : Settled(d) /\ used[d].from = "prebuilt" =>
        /\ "tree" \notin unseen[d] => checkout.work = library[d].tree
        /\ "pin" \notin unseen[d] => {checkout.head.pin, LocalPin} = {library[d].pin}

\* The comment on published_pin: where a partial clone cannot name the pin of
\* the release, "the rev-list below still catches a moved pin", so that no
\* script gets past the commits with one.  rev-list needs the same missing
\* tree, and its silence is not a reason to stop (build_freshness.rs).
MovedPinCaught ==
    [][\A d \in Dirs : pc[d] = "compare" /\ pc'[d] = "status" =>
          checkout.head.pin = library[d].pin]_vars

\* Where there is no history to compare, and on every other resolution path,
\* a finished build links a library that has every entry point the header
\* declares now, or none that can be read (build_exports.rs).
EntryPointsLinked ==
    \A d \in Dirs : Settled(d) =>
        Expected \subseteq Exports(d) \/ Expected \cap Exports(d) = {}

=============================================================================

-------------------------- MODULE EngineBuildProofs --------------------------
(***************************************************************************)
(* Proofs about EngineBuild for any number of target directories building  *)
(* at once, any inputs and any number of faults.  BuildInv is the          *)
(* inductive invariant: it says what a script that cargo has no reason to  *)
(* run again knows at each of its steps.                                   *)
(***************************************************************************)
EXTENDS EngineBuild, TLAPS

Checked  == {"glibc", "verify", "drop", "fetch", "check", "rename"}
Resolved == {"file", "exports", "install", "bridge", "done"}
Steps    == {"idle", "failed", "compare", "status", "bazel"} \cup Checked \cup Resolved

Checkouts == [git : {host.git, "clone"}, head : Inputs, work : Trees, since : BOOLEAN,
              submodule : Pins \cup {Absent}]

BuildTypeOK ==
    /\ checkout \in Checkouts
    /\ manifest \in Inputs
    /\ environment \in [from : Froms, offline : BOOLEAN]
    /\ cache \in [Inputs -> Files]
    /\ pc \in [Dirs -> Steps]
    /\ used \in [Dirs -> [from : Froms, offline : BOOLEAN]]
    /\ library \in [Dirs -> Inputs]
    /\ temporary \in [Dirs -> Files]
    /\ outDir \in [Dirs -> {"nothing", "link"} \cup Files]
    /\ changed \in [Dirs -> BOOLEAN]
    /\ unseen \in [Dirs -> SUBSET {"tree", "pin"}]

\* With no commit since the release, HEAD is what was published.
SinceInv == ~ checkout.since => checkout.head = manifest

\* Each resolution path has steps of its own.
PathInv(d) ==
    /\ pc[d] = "bazel" => used[d].from = "source"
    /\ pc[d] \in {"compare", "status"} \cup Checked => used[d].from = "prebuilt"

\* A script on the prebuilt path that nothing it watches has overtaken.
Undisturbed(d) ==
    pc[d] \notin {"idle", "failed"} /\ used[d].from = "prebuilt" /\ ~ changed[d]

\* It is after this manifest's library; past the download that is in the
\* cache, whole, and past the install OUT_DIR holds a link to it or a copy.
CacheInv(d) ==
    Undisturbed(d) =>
        /\ library[d] = manifest
        /\ pc[d] \in Resolved => cache[library[d]] = "whole"
        /\ pc[d] \in {"bridge", "done"} => outDir[d] \in {"link", "whole"}

\* Of the inputs it has seen: it found no commit since the release, no other
\* pin, then no edit.
StaleInv(d) ==
    Undisturbed(d) =>
        /\ "tree" \notin unseen[d] =>
              /\ pc[d] = "status" => checkout.head.tree = library[d].tree
              /\ pc[d] \in Checked \cup Resolved => checkout.work = library[d].tree
        /\ "pin" \notin unseen[d] /\ pc[d] \in {"status"} \cup Checked \cup Resolved =>
              checkout.head.pin = library[d].pin /\ LocalPin = library[d].pin

\* Past check_exports the header has not changed since.
ExportsInv(d) ==
    pc[d] \in {"install", "bridge", "done"} /\ ~ changed[d] => ExportsAccepted(Exports(d))

DirInv(d) == PathInv(d) /\ CacheInv(d) /\ StaleInv(d) /\ ExportsInv(d)

BuildInv == BuildTypeOK /\ SinceInv /\ \A d \in Dirs : DirInv(d)

-----------------------------------------------------------------------------
\* Before any build, HEAD is what was published and no script has run.
LEMMA BuildInitInv == Init => BuildInv
BY DEF Init, BuildInv, BuildTypeOK, Checkouts, SinceInv, DirInv, PathInv, Undisturbed,
       CacheInv, StaleInv, LocalPin, ExportsInv, Checked, Resolved, Steps, Inputs, Files, Froms

(***************************************************************************)
(* A script's step that leaves the checkout and the cache as they are is   *)
(* the concern of its own directory only.                                  *)
(***************************************************************************)
Private(d, step) ==
    /\ step \in Steps
    /\ pc' = [pc EXCEPT ![d] = step]
    /\ temporary' \in [Dirs -> Files]
    /\ outDir' \in [Dirs -> {"nothing", "link"} \cup Files]
    /\ unseen' \in [Dirs -> SUBSET {"tree", "pin"}]
    /\ \A e \in Dirs \ {d} : outDir'[e] = outDir[e] /\ unseen'[e] = unseen[e]
    /\ UNCHANGED <<checkoutVars, used, library, cache, changed>>

\* Of the others' invariants it changes nothing.
LEMMA PrivateInv ==
    ASSUME BuildInv, NEW d \in Dirs, NEW step, Private(d, step), DirInv(d)'
    PROVE  BuildInv'
<1>1. BuildTypeOK' /\ SinceInv'
    BY DEF BuildInv, BuildTypeOK, Checkouts, SinceInv, Private, checkoutVars
<1>2. ASSUME NEW e \in Dirs \ {d} PROVE DirInv(e)'
    <2>1. pc'[e] = pc[e] /\ outDir'[e] = outDir[e] /\ unseen'[e] = unseen[e]
        BY DEF BuildInv, BuildTypeOK, Checkouts, Private
    <2> QED
        BY <2>1
           DEF BuildInv, DirInv, PathInv, Undisturbed, CacheInv, StaleInv, LocalPin,
               ExportsInv, Exports,
            ExportsAccepted, Expected, Private, checkoutVars
<1> QED
    BY <1>1, <1>2 DEF BuildInv

\* A script that fails, or is killed, has nothing left to promise.
LEMMA FailedInv ==
    ASSUME BuildInv, NEW d \in Dirs, Private(d, "failed")
    PROVE  BuildInv'
<1>1. DirInv(d)'
    BY DEF BuildInv, BuildTypeOK, Checkouts, DirInv, PathInv, Undisturbed, CacheInv,
           StaleInv, LocalPin, ExportsInv, Checked, Resolved, Steps, Private
<1> QED
    BY <1>1, PrivateInv

\* Goto is such a step, and not one of the comparison's.
LEMMA GotoPrivate ==
    ASSUME BuildInv, NEW d \in Dirs, NEW step \in Steps, Goto(d, step)
    PROVE  Private(d, step) /\ unseen' = unseen
BY DEF BuildInv, BuildTypeOK, Checkouts, Goto, Private

(***************************************************************************)
(* The script                                                              *)
(***************************************************************************)
\* Cargo takes note of everything that changes from here on.
LEMMA StartInv ==
    ASSUME BuildInv, NEW d \in Dirs, Start(d)
    PROVE  BuildInv'
<1>1. BuildTypeOK' /\ SinceInv'
    BY DEF BuildInv, BuildTypeOK, Checkouts, SinceInv, Start, checkoutVars, Checked,
           Resolved, Steps, Froms
<1>2. DirInv(d)'
    BY DEF BuildInv, BuildTypeOK, Checkouts, DirInv, PathInv, Undisturbed, CacheInv,
           StaleInv, LocalPin, ExportsInv, Checked, Resolved, Steps, Start, checkoutVars, Froms
<1>3. ASSUME NEW e \in Dirs \ {d} PROVE DirInv(e)'
    <2>1. /\ pc'[e] = pc[e] /\ used'[e] = used[e] /\ library'[e] = library[e]
          /\ changed'[e] = changed[e] /\ unseen'[e] = unseen[e]
        BY DEF BuildInv, BuildTypeOK, Checkouts, Start
    <2> QED
        BY <2>1
           DEF BuildInv, DirInv, PathInv, Undisturbed, CacheInv, StaleInv, LocalPin,
               ExportsInv, Exports, ExportsAccepted, Expected, Start, checkoutVars
<1> QED
    BY <1>1, <1>2, <1>3 DEF BuildInv

\* No commit since the release, as far as git answered: HEAD is what this
\* script is after, and so is the pin.
LEMMA CompareCommitsInv ==
    ASSUME BuildInv, NEW d \in Dirs, CompareCommits(d)
    PROVE  BuildInv'
<1> DEFINE compared(silent) == checkout.git \notin NotCompared /\ "history" \notin silent
<1>1. PICK silent \in SUBSET Questions :
         /\ pc' = [pc EXCEPT ![d] =
                     CASE ~ compared(silent) -> "glibc"
                       [] compared(silent) /\ checkout.git = "shallow" -> "failed"
                       [] OTHER -> IF PinMoved(d, silent) \/ CommitsSince(d, silent)
                                   THEN "failed" ELSE "status"]
         /\ unseen' = [unseen EXCEPT ![d] = IF compared(silent) THEN Missed(silent)
                                            ELSE {"tree", "pin"}]
    BY Zenon DEF CompareCommits
<1>2. unseen' \in [Dirs -> SUBSET {"tree", "pin"}]
    BY <1>1 DEF BuildInv, BuildTypeOK, Missed
<1>3. ASSUME NEW step \in Steps, pc' = [pc EXCEPT ![d] = step] PROVE Private(d, step)
    BY <1>1, <1>2, <1>3 DEF BuildInv, BuildTypeOK, CompareCommits, Private
<1>4. used[d].from = "prebuilt" /\ pc[d] = "compare"
    BY DEF BuildInv, DirInv, PathInv, CompareCommits
<1>5. CASE ~ compared(silent)
    <2>1. Private(d, "glibc")
        BY <1>1, <1>3, <1>5 DEF Checked, Steps
    <2>2. unseen'[d] = {"tree", "pin"}
        BY <1>1, <1>5 DEF BuildInv, BuildTypeOK
    <2>3. DirInv(d)'
        BY <1>4, <2>1, <2>2
           DEF BuildInv, BuildTypeOK, DirInv, PathInv, Undisturbed, CacheInv, StaleInv,
               LocalPin, ExportsInv, Checked, Resolved, Steps, Private, checkoutVars
    <2> QED
        BY <2>1, <2>3, PrivateInv
<1>6. CASE compared(silent) /\ pc' = [pc EXCEPT ![d] = "failed"]
    BY <1>3, <1>6, FailedInv DEF Steps
<1>7. CASE compared(silent) /\ pc' # [pc EXCEPT ![d] = "failed"]
    <2>1. /\ ~ PinMoved(d, silent) /\ ~ CommitsSince(d, silent)
          /\ pc' = [pc EXCEPT ![d] = "status"]
        BY <1>1, <1>7
    <2>2. Private(d, "status")
        BY <1>3, <2>1 DEF Steps
    <2>3. unseen'[d] = Missed(silent)
        BY <1>1, <1>7 DEF BuildInv, BuildTypeOK
    <2>4. "tree" \notin unseen'[d] => checkout.head = library[d]
        BY <2>1, <2>3 DEF BuildInv, SinceInv, CommitsSince, Missed
    <2>5. "pin" \notin unseen'[d] => checkout.head = library[d] /\ LocalPin = library[d].pin
        BY <2>1, <2>3 DEF BuildInv, SinceInv, CommitsSince, PinMoved, Missed
    <2>6. DirInv(d)'
        BY <1>4, <2>2, <2>4, <2>5
           DEF BuildInv, BuildTypeOK, DirInv, PathInv, Undisturbed, CacheInv, StaleInv,
               LocalPin, ExportsInv, Checked, Resolved, Steps, Private, checkoutVars
    <2> QED
        BY <2>2, <2>6, PrivateInv
<1> QED
    BY <1>5, <1>6, <1>7

\* No edit either, unless git did not say: the work tree is what this script
\* is after.
LEMMA CompareWorkTreeInv ==
    ASSUME BuildInv, NEW d \in Dirs, CompareWorkTree(d)
    PROVE  BuildInv'
<1>1. PICK silent \in SUBSET {"status"} :
         /\ pc' = [pc EXCEPT ![d] = IF silent = {} /\ checkout.work # checkout.head.tree
                                    THEN "failed" ELSE "glibc"]
         /\ unseen' = [unseen EXCEPT ![d] = IF silent = {} THEN @ ELSE @ \cup {"tree"}]
    BY Zenon DEF CompareWorkTree
<1>2. unseen' \in [Dirs -> SUBSET {"tree", "pin"}]
    BY <1>1 DEF BuildInv, BuildTypeOK
<1>3. ASSUME NEW step \in Steps, pc' = [pc EXCEPT ![d] = step] PROVE Private(d, step)
    BY <1>1, <1>2, <1>3 DEF BuildInv, BuildTypeOK, CompareWorkTree, Private
<1>4. CASE pc' = [pc EXCEPT ![d] = "failed"]
    BY <1>3, <1>4, FailedInv DEF Steps
<1>5. CASE pc' = [pc EXCEPT ![d] = "glibc"] /\ (silent = {} => checkout.work = checkout.head.tree)
    <2>1. Private(d, "glibc")
        BY <1>3, <1>5 DEF Checked, Steps
    <2>2. /\ unseen[d] \subseteq unseen'[d]
          /\ "tree" \notin unseen'[d] => checkout.work = checkout.head.tree
        BY <1>1, <1>5 DEF BuildInv, BuildTypeOK
    <2>3. DirInv(d)'
        BY <2>1, <2>2
           DEF BuildInv, BuildTypeOK, DirInv, PathInv, Undisturbed, CacheInv, StaleInv,
               LocalPin, ExportsInv, Checked, Resolved, Steps, Private, checkoutVars,
               CompareWorkTree
    <2> QED
        BY <2>1, <2>3, PrivateInv
<1> QED
    BY <1>1, <1>4, <1>5

\* A host whose glibc will do goes on.
LEMMA CheckGlibcFloorInv ==
    ASSUME BuildInv, NEW d \in Dirs, CheckGlibcFloor(d)
    PROVE  BuildInv'
<1>1. CASE Goto(d, "failed")
    BY <1>1, GotoPrivate, FailedInv DEF Checked, Resolved, Steps
<1>2. CASE Goto(d, "verify")
    <2>1. Private(d, "verify") /\ unseen' = unseen
        BY <1>2, GotoPrivate DEF Checked, Resolved, Steps
    <2>2. DirInv(d)'
        BY <2>1
           DEF BuildInv, BuildTypeOK, Checkouts, DirInv, PathInv, Undisturbed, CacheInv,
               StaleInv, LocalPin, ExportsInv, Checked, Resolved, Steps, Private,
               checkoutVars, CheckGlibcFloor
    <2> QED
        BY <2>1, <2>2, PrivateInv
<1> QED
    BY <1>1, <1>2 DEF CheckGlibcFloor

\* An entry that verifies is whole.
LEMMA VerifyEntryInv ==
    ASSUME BuildInv, NEW d \in Dirs, VerifyEntry(d)
    PROVE  BuildInv'
<1>1. CASE Verified(cache[library[d]])
    <2>1. Private(d, "file") /\ unseen' = unseen
        BY <1>1, GotoPrivate
           DEF VerifyEntry, Verified, SizeMatches, Checked, Resolved, Steps
    <2>2. DirInv(d)'
        BY <1>1, <2>1
           DEF BuildInv, BuildTypeOK, Checkouts, DirInv, PathInv, Undisturbed, CacheInv,
               StaleInv, LocalPin, ExportsInv, Checked, Resolved, Steps, Private,
               checkoutVars, VerifyEntry,
            Verified, DigestMatches
    <2> QED
        BY <2>1, <2>2, PrivateInv
<1>2. ASSUME NEW step \in {"fetch", "drop"}, Goto(d, step) PROVE BuildInv'
    <2>1. Private(d, step) /\ unseen' = unseen
        BY <1>2, GotoPrivate DEF Checked, Resolved, Steps
    <2>2. DirInv(d)'
        BY <1>2, <2>1
           DEF BuildInv, BuildTypeOK, Checkouts, DirInv, PathInv, Undisturbed, CacheInv,
               StaleInv, LocalPin, ExportsInv, Checked, Resolved, Steps, Private,
               checkoutVars, VerifyEntry
    <2> QED
        BY <2>1, <2>2, PrivateInv
<1>3. CASE Goto(d, "failed")
    BY <1>3, GotoPrivate, FailedInv DEF Checked, Resolved, Steps
<1> QED
    BY <1>1, <1>2, <1>3 DEF VerifyEntry

\* The sweep and the download are files of no concern to the entry.
LEMMA FetchInv ==
    ASSUME BuildInv, NEW d \in Dirs, Fetch(d)
    PROVE  BuildInv'
<1>0. pc[d] = "fetch"
    BY DEF Fetch
<1>1. PICK file \in Files :
         /\ pc' = [pc EXCEPT ![d] = IF file = "missing" THEN "failed" ELSE "check"]
         /\ temporary' = [Swept EXCEPT ![d] = file]
    BY Zenon DEF Fetch, Fetched, Files
<1>2. temporary' \in [Dirs -> Files]
    BY <1>1 DEF BuildInv, BuildTypeOK, Checkouts, Swept, Files
<1>3. CASE file = "missing"
    <2>1. Private(d, "failed")
        BY <1>1, <1>2, <1>3
           DEF BuildInv, BuildTypeOK, Checkouts, Fetch, Private, Checked, Resolved, Steps
    <2> QED
        BY <2>1, FailedInv
<1>4. CASE file # "missing"
    <2>1. Private(d, "check") /\ unseen' = unseen
        BY <1>1, <1>2, <1>4
           DEF BuildInv, BuildTypeOK, Checkouts, Fetch, Private, Checked, Resolved, Steps
    <2>2. DirInv(d)'
        BY <1>0, <2>1
           DEF BuildInv, BuildTypeOK, Checkouts, DirInv, PathInv, Undisturbed, CacheInv,
               StaleInv, LocalPin, ExportsInv, Checked, Resolved, Steps, Private,
               checkoutVars
    <2> QED
        BY <2>1, <2>2, PrivateInv
<1> QED
    BY <1>3, <1>4

\* Nor is the verification of the download.
LEMMA CheckDownloadInv ==
    ASSUME BuildInv, NEW d \in Dirs, CheckDownload(d)
    PROVE  BuildInv'
<1>1. temporary' \in [Dirs -> Files]
    BY DEF BuildInv, BuildTypeOK, Checkouts, CheckDownload, Files
<1>2. CASE ~ Verified(temporary[d])
    <2>1. Private(d, "failed")
        BY <1>1, <1>2
           DEF BuildInv, BuildTypeOK, Checkouts, CheckDownload, Private, Checked,
               Resolved, Steps
    <2> QED
        BY <2>1, FailedInv
<1>3. CASE Verified(temporary[d])
    <2>1. Private(d, "rename")
        BY <1>1, <1>3
           DEF BuildInv, BuildTypeOK, Checkouts, CheckDownload, Private, Checked,
               Resolved, Steps
    <2>2. DirInv(d)'
        BY <2>1
           DEF BuildInv, BuildTypeOK, Checkouts, DirInv, PathInv, Undisturbed, CacheInv,
               StaleInv, LocalPin, ExportsInv, Checked, Resolved, Steps, Private,
               checkoutVars, CheckDownload
    <2> QED
        BY <2>1, <2>2, PrivateInv
<1> QED
    BY <1>2, <1>3

\* After a rename that failed only an entry that verifies is used.
LEMMA RenameFailsInv ==
    ASSUME BuildInv, NEW d \in Dirs, RenameFails(d)
    PROVE  BuildInv'
<1>1. temporary' \in [Dirs -> Files]
    BY DEF BuildInv, BuildTypeOK, Checkouts, RenameFails, Files
<1>2. CASE ~ Verified(cache[library[d]])
    <2>1. Private(d, "failed")
        BY <1>1, <1>2
           DEF BuildInv, BuildTypeOK, Checkouts, RenameFails, Private, Checked, Resolved,
               Steps
    <2> QED
        BY <2>1, FailedInv
<1>3. CASE Verified(cache[library[d]])
    <2>1. Private(d, "file")
        BY <1>1, <1>3
           DEF BuildInv, BuildTypeOK, Checkouts, RenameFails, Private, Checked, Resolved,
               Steps
    <2>2. DirInv(d)'
        BY <1>3, <2>1
           DEF BuildInv, BuildTypeOK, Checkouts, DirInv, PathInv, Undisturbed, CacheInv,
               StaleInv, LocalPin, ExportsInv, Checked, Resolved, Steps, Private,
               checkoutVars, RenameFails,
            Verified, DigestMatches
    <2> QED
        BY <2>1, <2>2, PrivateInv
<1> QED
    BY <1>2, <1>3

(***************************************************************************)
(* A change of a cache entry makes cargo run again every script that is    *)
(* after it; the entries of the others stay as they are.                   *)
(***************************************************************************)
\* Touched and the entry keep their types.
LEMMA TouchedType ==
    ASSUME BuildInv, NEW i \in Inputs, NEW file \in Files,
           cache' = [cache EXCEPT ![i] = file], changed' = Touched(i)
    PROVE  changed' \in [Dirs -> BOOLEAN] /\ cache' \in [Inputs -> Files]
BY DEF BuildInv, BuildTypeOK, Checkouts, Touched

\* The others, when nothing but the entry i changes for them.
LEMMA TouchedInv ==
    ASSUME BuildInv, NEW i \in Inputs, NEW file \in Files, NEW e \in Dirs,
           cache' = [cache EXCEPT ![i] = file], changed' = Touched(i),
           pc'[e] = pc[e], UNCHANGED <<checkoutVars, used, library, outDir, unseen>>
    PROVE  DirInv(e)'
<1>1. changed'[e] = (changed[e] \/ (used[e].from = "prebuilt" /\ library[e] = i))
    BY DEF Touched
<1>2. changed[e] => changed'[e]
    BY Zenon, <1>1
<1>3. ~ changed'[e] /\ used[e].from = "prebuilt" => cache'[library[e]] = cache[library[e]]
    BY Zenon, <1>1 DEF BuildInv, BuildTypeOK, Checkouts
<1> QED
    BY <1>2, <1>3
       DEF BuildInv, DirInv, PathInv, Undisturbed, CacheInv, StaleInv, LocalPin,
           ExportsInv, Exports, ExportsAccepted, Expected, checkoutVars

\* An entry removed late was of use to others that verified it meanwhile.
LEMMA DropEntryInv ==
    ASSUME BuildInv, NEW d \in Dirs, DropEntry(d)
    PROVE  BuildInv'
<1>1. library[d] \in Inputs /\ "missing" \in Files
    BY DEF BuildInv, BuildTypeOK, Checkouts, Files
<1>2. BuildTypeOK' /\ SinceInv'
    BY Zenon, <1>1, TouchedType
       DEF BuildInv, BuildTypeOK, Checkouts, SinceInv, DropEntry, checkoutVars, Checked,
           Resolved, Steps
<1>3. ASSUME NEW e \in Dirs \ {d} PROVE DirInv(e)'
    <2>1. pc'[e] = pc[e]
        BY DEF BuildInv, BuildTypeOK, Checkouts, DropEntry
    <2> QED
        BY Zenon, <1>1, <2>1, TouchedInv DEF DropEntry
<1>4. DirInv(d)'
    BY DEF BuildInv, BuildTypeOK, Checkouts, DirInv, PathInv, Undisturbed, CacheInv,
           StaleInv, LocalPin, ExportsInv, Checked, Resolved, Steps, DropEntry, checkoutVars,
           Touched
<1> QED
    BY <1>2, <1>3, <1>4 DEF BuildInv

\* So was one renamed over, by the very script that downloaded it included:
\* cargo runs that one again.
LEMMA RenameDownloadInv ==
    ASSUME BuildInv, NEW d \in Dirs, RenameDownload(d)
    PROVE  BuildInv'
<1>1. library[d] \in Inputs /\ temporary[d] \in Files
    BY DEF BuildInv, BuildTypeOK, Checkouts
<1>2. BuildTypeOK' /\ SinceInv'
    BY Zenon, <1>1, TouchedType
       DEF BuildInv, BuildTypeOK, Checkouts, SinceInv, RenameDownload, checkoutVars,
           Checked, Resolved, Steps, Files
<1>3. ASSUME NEW e \in Dirs \ {d} PROVE DirInv(e)'
    <2>1. pc'[e] = pc[e]
        BY DEF BuildInv, BuildTypeOK, Checkouts, RenameDownload
    <2> QED
        BY Zenon, <1>1, <2>1, TouchedInv DEF RenameDownload
<1>4. DirInv(d)'
    <2>1. changed'[d] = TRUE
        BY Zenon DEF BuildInv, DirInv, PathInv, RenameDownload, Touched, Checked, Resolved, Steps
    <2> QED
        BY <2>1
           DEF BuildInv, BuildTypeOK, Checkouts, DirInv, PathInv, Undisturbed, CacheInv,
               StaleInv, LocalPin, ExportsInv, Checked, Resolved, Steps, RenameDownload,
               checkoutVars
<1> QED
    BY <1>2, <1>3, <1>4 DEF BuildInv

\* What the disk does to an entry is a change like any other.
LEMMA DamageInv ==
    ASSUME BuildInv, Damage
    PROVE  BuildInv'
<1>1. PICK i \in Inputs, file \in Files :
         cache' = [cache EXCEPT ![i] = file] /\ changed' = Touched(i)
    BY Zenon DEF Damage
<1>2. BuildTypeOK' /\ SinceInv'
    BY Zenon, <1>1, TouchedType
       DEF BuildInv, BuildTypeOK, Checkouts, SinceInv, Damage, checkoutVars, scriptVars
<1>3. ASSUME NEW e \in Dirs PROVE DirInv(e)'
    BY Zenon, <1>1, TouchedInv DEF Damage, scriptVars
<1> QED
    BY <1>2, <1>3 DEF BuildInv

(***************************************************************************)
(* Bazel, and the rest of main                                             *)
(***************************************************************************)
\* What Bazel built is on a path of its own.
LEMMA BazelBuildsInv ==
    ASSUME BuildInv, NEW d \in Dirs, BazelBuilds(d)
    PROVE  BuildInv'
<1>1. used[d].from = "source"
    BY DEF BuildInv, DirInv, PathInv, BazelBuilds
<1>2. BuildTypeOK' /\ SinceInv'
    BY DEF BuildInv, BuildTypeOK, Checkouts, SinceInv, BazelBuilds, checkoutVars, Inputs,
           Checked, Resolved, Steps
<1>3. DirInv(d)'
    BY <1>1
       DEF BuildInv, BuildTypeOK, Checkouts, DirInv, PathInv, Undisturbed, CacheInv,
           StaleInv, LocalPin, ExportsInv, Checked, Resolved, Steps, BazelBuilds,
           checkoutVars
<1>4. ASSUME NEW e \in Dirs \ {d} PROVE DirInv(e)'
    <2>1. pc'[e] = pc[e] /\ library'[e] = library[e]
        BY DEF BuildInv, BuildTypeOK, Checkouts, BazelBuilds
    <2> QED
        BY <2>1
           DEF BuildInv, DirInv, PathInv, Undisturbed, CacheInv, StaleInv, LocalPin,
               ExportsInv, Exports, ExportsAccepted, Expected, BazelBuilds, checkoutVars
<1> QED
    BY <1>2, <1>3, <1>4 DEF BuildInv

\* Bazel failing fails the build.
LEMMA BazelFailsInv ==
    ASSUME BuildInv, NEW d \in Dirs, BazelFails(d)
    PROVE  BuildInv'
BY GotoPrivate, FailedInv DEF BazelFails, Checked, Resolved, Steps

\* A library that is there goes on to its exports.
LEMMA LibraryIsFileInv ==
    ASSUME BuildInv, NEW d \in Dirs, LibraryIsFile(d)
    PROVE  BuildInv'
<1>1. CASE Goto(d, "failed")
    BY <1>1, GotoPrivate, FailedInv DEF Checked, Resolved, Steps
<1>2. CASE Goto(d, "exports")
    <2>1. Private(d, "exports") /\ unseen' = unseen
        BY <1>2, GotoPrivate DEF Checked, Resolved, Steps
    <2>2. DirInv(d)'
        BY <2>1
           DEF BuildInv, BuildTypeOK, Checkouts, DirInv, PathInv, Undisturbed, CacheInv,
               StaleInv, LocalPin, ExportsInv, Checked, Resolved, Steps, Private,
               checkoutVars, LibraryIsFile
    <2> QED
        BY <2>1, <2>2, PrivateInv
<1> QED
    BY <1>1, <1>2 DEF LibraryIsFile

\* Names read from a damaged entry may pass, and cargo runs that script again.
LEMMA CheckExportsInv ==
    ASSUME BuildInv, NEW d \in Dirs, CheckExports(d)
    PROVE  BuildInv'
<1>1. CASE Goto(d, "failed")
    BY <1>1, GotoPrivate, FailedInv DEF Checked, Resolved, Steps
<1>2. CASE Goto(d, "install") /\ (~ changed[d] => ExportsAccepted(Exports(d)))
    <2>1. Private(d, "install") /\ unseen' = unseen
        BY <1>2, GotoPrivate DEF Checked, Resolved, Steps
    <2>2. ~ changed'[d] => ExportsAccepted(Exports(d))'
        BY <1>2, <2>1 DEF Private, checkoutVars, ExportsAccepted, Exports, Expected
    <2>3. DirInv(d)'
        BY <2>1, <2>2
           DEF BuildInv, BuildTypeOK, Checkouts, DirInv, PathInv, Undisturbed, CacheInv,
               StaleInv, LocalPin, ExportsInv, Checked, Resolved, Steps, Private,
               checkoutVars, CheckExports
    <2> QED
        BY <2>1, <2>3, PrivateInv
<1>3. used[d].from = "prebuilt" /\ cache[library[d]] # "whole" => changed[d]
    BY DEF BuildInv, DirInv, CacheInv, Undisturbed, CheckExports, Checked, Resolved, Steps
<1> QED
    BY <1>1, <1>2, <1>3 DEF CheckExports

\* A link, or a copy of an entry that is whole.
LEMMA InstallInv ==
    ASSUME BuildInv, NEW d \in Dirs, Install(d)
    PROVE  BuildInv'
<1>1. /\ outDir' \in [Dirs -> {"nothing", "link"} \cup Files]
      /\ \A e \in Dirs \ {d} : outDir'[e] = outDir[e]
    BY DEF BuildInv, BuildTypeOK, Checkouts, Install, Files
<1>2. CASE pc' = [pc EXCEPT ![d] = "failed"]
    <2>1. Private(d, "failed")
        BY Zenon, <1>1, <1>2
           DEF BuildInv, BuildTypeOK, Checkouts, Install, Private, Checked, Resolved,
               Steps
    <2> QED
        BY <2>1, FailedInv
<1>3. CASE pc' = [pc EXCEPT ![d] = "bridge"]
    <2>1. Private(d, "bridge")
        BY Zenon, <1>1, <1>3
           DEF BuildInv, BuildTypeOK, Checkouts, Install, Private, Checked, Resolved,
               Steps
    <2>2. used[d].from = "prebuilt" => outDir'[d] \in {"link", cache[library[d]]}
        BY <1>3 DEF BuildInv, BuildTypeOK, Checkouts, Install
    <2>3. ExportsInv(d)'
        BY <2>1
           DEF BuildInv, DirInv, ExportsInv, ExportsAccepted, Exports, Expected, Private,
            checkoutVars, Install
    <2>4. DirInv(d)'
        BY <2>1, <2>2, <2>3
           DEF BuildInv, BuildTypeOK, Checkouts, DirInv, PathInv, Undisturbed, CacheInv,
               StaleInv, LocalPin, Checked, Resolved, Steps, Private, checkoutVars, Install
    <2> QED
        BY <2>1, <2>4, PrivateInv
<1> QED
    BY Zenon, <1>2, <1>3 DEF Install

\* The bridge compiles: the script is done, and knows what it knew.
LEMMA CompileBridgeInv ==
    ASSUME BuildInv, NEW d \in Dirs, CompileBridge(d)
    PROVE  BuildInv'
<1>1. Private(d, "done") /\ unseen' = unseen
    BY GotoPrivate DEF CompileBridge, Checked, Resolved, Steps
<1>2. ExportsInv(d)'
    BY <1>1 DEF BuildInv, DirInv, ExportsInv, ExportsAccepted, Exports, Expected, Private,
        checkoutVars, CompileBridge
<1>3. pc[d] = "bridge" /\ pc'[d] = "done" /\ outDir'[d] = outDir[d]
    BY DEF BuildInv, BuildTypeOK, Checkouts, CompileBridge, Goto
<1>4. DirInv(d)'
    BY <1>1, <1>2, <1>3
       DEF BuildInv, DirInv, PathInv, Undisturbed, CacheInv, StaleInv, LocalPin,
           Checked, Resolved, Steps, Private, checkoutVars
<1> QED
    BY <1>1, <1>4, PrivateInv

\* A bridge that does not compile, and a build that is killed.
LEMMA EndedInv ==
    ASSUME BuildInv, NEW d \in Dirs, BridgeFails(d) \/ Kill(d)
    PROVE  BuildInv'
<1>1. Private(d, "failed")
    BY DEF BuildInv, BuildTypeOK, Checkouts, BridgeFails, Kill, Private, Checked,
           Resolved, Steps, Files
<1> QED
    BY <1>1, FailedInv

(***************************************************************************)
(* What happens in between                                                 *)
(***************************************************************************)
\* An edit and a release are watched by every script.
LEMMA WatchedInv ==
    ASSUME BuildInv, Edit \/ Publish
    PROVE  BuildInv'
<1>1. BuildTypeOK' /\ SinceInv'
    BY ZenonT(30) DEF BuildInv, BuildTypeOK, Checkouts, SinceInv, Edit, Publish, WatchedByAll,
           scriptVars
<1>2. ASSUME NEW e \in Dirs PROVE DirInv(e)'
    <2>1. changed'[e] = TRUE
        BY DEF Edit, Publish, WatchedByAll
    <2>2. checkout'.git = checkout.git
        BY DEF BuildInv, BuildTypeOK, Checkouts, Edit, Publish
    <2> QED
        BY <2>1, <2>2
           DEF BuildInv, DirInv, PathInv, Undisturbed, CacheInv, StaleInv, LocalPin,
               ExportsInv, Edit, Publish, scriptVars
<1> QED
    BY <1>1, <1>2 DEF BuildInv

\* A commit leaves the work tree as it is; whom it overtakes has not seen it.
LEMMA CommitInv ==
    ASSUME BuildInv, Commit
    PROVE  BuildInv'
<1>1. /\ checkout'.git = checkout.git /\ checkout'.work = checkout.work
      /\ checkout'.since = TRUE
    BY DEF BuildInv, BuildTypeOK, Checkouts, Commit
<1>2. checkout' \in Checkouts
    BY Zenon DEF BuildInv, BuildTypeOK, Checkouts, Commit, Inputs
<1>3. BuildTypeOK' /\ SinceInv'
    BY <1>1, <1>2 DEF BuildInv, BuildTypeOK, Checkouts, SinceInv, Commit
<1>4. ASSUME NEW e \in Dirs PROVE DirInv(e)'
    <2>1. /\ checkout'.head.pin = checkout.head.pin
          /\ checkout'.submodule = checkout.submodule
        BY DEF BuildInv, BuildTypeOK, Checkouts, Inputs, Commit
    <2>2. unseen[e] \subseteq unseen'[e] /\ (pc[e] = "status" => "tree" \in unseen'[e])
        BY DEF Commit
    <2> QED
        BY <1>1, <2>1, <2>2
           DEF BuildInv, DirInv, PathInv, Undisturbed, CacheInv, StaleInv, LocalPin,
               ExportsInv, Exports, ExportsAccepted, Expected, Commit
<1> QED
    BY <1>3, <1>4 DEF BuildInv

\* The pin is no part of the trees, and who compared it has not seen this one.
LEMMA MovePinInv ==
    ASSUME BuildInv, MovePin
    PROVE  BuildInv'
<1> DEFINE TreesKept ==
              /\ checkout' \in Checkouts
              /\ checkout'.git = checkout.git /\ checkout'.work = checkout.work
              /\ checkout'.head.tree = checkout.head.tree
              /\ ~ checkout'.since => ~ checkout.since /\ checkout'.head = checkout.head
<1>1. ASSUME NEW p \in Pins, checkout' = [checkout EXCEPT !.head.pin = p, !.since = TRUE]
      PROVE  TreesKept
    BY ZenonT(30), <1>1 DEF BuildInv, BuildTypeOK, Checkouts, Inputs
<1>2. ASSUME NEW p \in Pins, checkout' = [checkout EXCEPT !.submodule = p]
      PROVE  TreesKept
    BY <1>2 DEF BuildInv, BuildTypeOK, Checkouts, Checkouts
<1>3. TreesKept
    BY Zenon, <1>1, <1>2 DEF MovePin
<1>4. BuildTypeOK' /\ SinceInv'
    BY ZenonT(30), <1>3 DEF BuildInv, BuildTypeOK, Checkouts, SinceInv, MovePin, scriptVars
<1>5. ASSUME NEW e \in Dirs PROVE DirInv(e)'
    <2>1. /\ unseen[e] \subseteq unseen'[e]
          /\ Compared(e) => "pin" \in unseen'[e]
        BY DEF MovePin
    <2> QED
        BY <1>3, <2>1
           DEF BuildInv, DirInv, PathInv, Undisturbed, CacheInv, StaleInv, LocalPin, Compared,
               Checked, Resolved, ExportsInv, Exports, ExportsAccepted, Expected, MovePin
<1> QED
    BY <1>4, <1>5 DEF BuildInv

\* History that arrives is no news to a script that is past the comparison.
LEMMA UnshallowInv ==
    ASSUME BuildInv, Unshallow
    PROVE  BuildInv'
<1>1. /\ checkout.git = "shallow" /\ checkout'.git = "clone"
      /\ checkout'.work = checkout.work /\ checkout'.head = checkout.head
      /\ checkout'.since = checkout.since
    BY DEF BuildInv, BuildTypeOK, Checkouts, Unshallow
<1>2. BuildTypeOK' /\ SinceInv'
    BY <1>1 DEF BuildInv, BuildTypeOK, Checkouts, SinceInv, Unshallow, scriptVars
<1>3. ASSUME NEW e \in Dirs PROVE DirInv(e)'
    BY <1>1
       DEF BuildInv, DirInv, PathInv, Undisturbed, CacheInv, StaleInv, LocalPin,
           ExportsInv, Exports, ExportsAccepted, Expected, Unshallow, scriptVars
<1> QED
    BY <1>2, <1>3 DEF BuildInv

\* What concerns no script that is running.
LEMMA IdleInv ==
    ASSUME BuildInv, ChangeEnvironment \/ DayPasses \/ UNCHANGED vars
    PROVE  BuildInv'
<1>1. UNCHANGED <<host, checkout, manifest, cache, pc, used, library, temporary, outDir,
                  changed, unseen>>
    BY DEF ChangeEnvironment, DayPasses, vars, checkoutVars, scriptVars
<1>2. environment' \in [from : Froms, offline : BOOLEAN]
    BY DEF BuildInv, BuildTypeOK, Checkouts, ChangeEnvironment, DayPasses, vars,
           checkoutVars
<1>3. BuildTypeOK' /\ SinceInv'
    BY <1>1, <1>2 DEF BuildInv, BuildTypeOK, Checkouts, SinceInv
<1>4. ASSUME NEW e \in Dirs PROVE DirInv(e)'
    BY <1>1
       DEF BuildInv, DirInv, PathInv, Undisturbed, CacheInv, StaleInv, LocalPin,
           ExportsInv, Exports, ExportsAccepted, Expected
<1> QED
    BY <1>3, <1>4 DEF BuildInv

\* BuildInv is inductive.
LEMMA BuildNextInv == BuildInv /\ [Next]_vars => BuildInv'
<1> SUFFICES ASSUME BuildInv, [Next]_vars
             PROVE  BuildInv'
    OBVIOUS
<1>1. ASSUME NEW d \in Dirs, Script(d) \/ Kill(d) PROVE BuildInv'
    BY <1>1, StartInv, CompareCommitsInv, CompareWorkTreeInv, CheckGlibcFloorInv,
       VerifyEntryInv, DropEntryInv, FetchInv, CheckDownloadInv, RenameDownloadInv,
       RenameFailsInv, BazelBuildsInv, BazelFailsInv, LibraryIsFileInv, CheckExportsInv,
       InstallInv, CompileBridgeInv, EndedInv DEF Script
<1> QED
    BY <1>1, WatchedInv, CommitInv, MovePinInv, UnshallowInv, DamageInv, IdleInv DEF Next

-----------------------------------------------------------------------------
\* However many builds share the cache, and whatever is done to it, a build
\* that cargo takes for finished links the verified library of this manifest.
THEOREM LinksVerifiedBytes == Spec => []LinkedBytesVerified
<1>1. BuildInv => LinkedBytesVerified
    BY DEF BuildInv, DirInv, CacheInv, Undisturbed, LinkedBytesVerified, Settled, NeedsRun,
        LinkedFile, Resolved
<1> QED
    BY <1>1, BuildInitInv, BuildNextInv, PTL DEF Spec

\* A finished build is linked to the library of the work tree and of the pin
\* it finds, as far as its comparison has seen them.
THEOREM PrebuiltIsNotStale == Spec => []PrebuiltMatchesInputs
<1>1. BuildInv => PrebuiltMatchesInputs
    BY DEF BuildInv, DirInv, StaleInv, Undisturbed, PrebuiltMatchesInputs, Settled,
           NeedsRun, Resolved
<1> QED
    BY <1>1, BuildInitInv, BuildNextInv, PTL DEF Spec

\* On every path the linked library has the entry points the header declares.
THEOREM LinksEntryPoints == Spec => []EntryPointsLinked
<1>1. BuildInv => EntryPointsLinked
    BY DEF BuildInv, DirInv, ExportsInv, ExportsAccepted, EntryPointsLinked, Settled,
           NeedsRun
<1> QED
    BY <1>1, BuildInitInv, BuildNextInv, PTL DEF Spec

=============================================================================

---------------------------- MODULE MCEngineBuild ----------------------------
(***************************************************************************)
(* EngineBuild for TLC: two trees, the later of which declares one entry   *)
(* point more, and one host for every answer the script tells apart.       *)
(***************************************************************************)
EXTENDS EngineBuild, TLC

MCTrees == {1, 2}
MCDeclares == [t \in MCTrees |-> IF t = 1 THEN {"open"} ELSE {"open", "open_with_options"}]

\* A Linux clone with everything in place.
Usual == [git |-> "clone", published |-> TRUE, glibc |-> "enough", os |-> "linux",
          apple |-> FALSE, jobs |-> 8, ndk |-> TRUE, api |-> 28,
          supplied |-> TRUE, exports |-> {"open"}]

\* Of the checkouts that are not compared, all treated alike, one.
MCHosts ==
    {Usual}
        \cup {[Usual EXCEPT !.git = g] : g \in {"foreign", "shallow", "partial"}}
        \cup {[Usual EXCEPT !.published = FALSE, !.supplied = FALSE],
              [Usual EXCEPT !.glibc = "old", !.jobs = 0],
              [Usual EXCEPT !.os = "macos", !.apple = TRUE, !.exports = {}],
              [Usual EXCEPT !.os = "macos"],
              [Usual EXCEPT !.os = "android", !.api = 20]}

\* A clone made with --filter=tree:0.
PartialClone == {[Usual EXCEPT !.git = "partial"]}

Symmetry == Permutations(Dirs) \cup Permutations(Pins)

=============================================================================

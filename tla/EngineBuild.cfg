SPECIFICATION Spec

CONSTANTS
    Dirs = {d1, d2}
    Trees <- MCTrees
    Pins = {p1, p2}
    Declares <- MCDeclares
    Hosts <- MCHosts
    Faults = 2

SYMMETRY Symmetry

INVARIANTS
    LinkedBytesVerified
    PrebuiltMatchesInputs
    EntryPointsLinked

CHECK_DEADLOCK FALSE

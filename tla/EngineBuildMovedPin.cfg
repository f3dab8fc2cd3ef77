SPECIFICATION Spec

CONSTANTS
    Dirs = {d1, d2}
    Trees <- MCTrees
    Pins = {p1, p2}
    Declares <- MCDeclares
    Hosts <- PartialClone
    Faults = 1

PROPERTY MovedPinCaught

CHECK_DEADLOCK FALSE

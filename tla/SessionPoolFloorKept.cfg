SPECIFICATION Spec
CONSTANTS
  Commands = {c1, c2}
  Cancellable = {c1}
  Sessions = {s1, s2}
  Min = 1
  Max = 2
  NoSession = NoSession
  NoCommand = NoCommand
INVARIANT FloorKept

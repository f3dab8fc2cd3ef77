SPECIFICATION FairSpec
CONSTANTS
  Commands = {c1, c2, c3}
  Cancellable = {c1, c2}
  Sessions = {s1, s2, s3}
  Min = 1
  Max = 2
  NoSession = NoSession
  NoCommand = NoCommand
INVARIANTS TypeOK CeilingHolds OneOwner InterruptsOwnCommand NoLostWakeup CloseIsReal JoinIsPrompt
PROPERTIES ImplementsService EveryCommandReturns CloseCompletes ShrinksToFloor

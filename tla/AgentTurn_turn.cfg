\* Three steps after one earlier exchange, with every kind of reply and failure.
SPECIFICATION AgentSpec
CONSTANTS
  None = None
  History <- OneExchange
  Replies <- ThreeSteps
  MaxSteps = 3
  MaxTransport = 1
  MaxOverflow = 2
  MaxProgress = 1
  MaxRecovery = 1
  KeepRounds = 1
  KeepLatest = 2
  CompactTail = 2
  RecoveryTail = 2
  KeepRecent = 1
  Reductions <- ReductionKinds
INVARIANTS PayloadIsReplaySafe PromptsAreKept EarlierStepsAreDurable WorkIsAccounted ReplayIsSafe
PROPERTIES StoppedTurnsDoNotAct EveryStepNearsTheEnd

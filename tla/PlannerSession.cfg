CONSTANTS
  NumWorkers = 2
  StartupConcurrency = 1
  MaxFaults = 1
SPECIFICATION Spec
INVARIANTS RetiredBeforeOutcome AcceptedIsComplete Lockstep StartupBounded ReplayNeedsFault CancellationWins
PROPERTIES HostDecides EverythingEnds

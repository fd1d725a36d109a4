SPECIFICATION FairSpec
CONSTANTS
  Jobs = {j1}
  Handlers = {h1, h2}
  MaxWorkers = 1
  MaxPages = 2
  MaxRestarts = 1
  MaxOutages = 1
CHECK_DEADLOCK FALSE
INVARIANTS
  DoneMeansAttached
  PollReportsTheLiving
PROPERTIES
  ImplementsLifecycle
  NeverSpins

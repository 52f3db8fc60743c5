SPECIFICATION Spec
CONSTANTS
  s1 = s1  m1 = m1  m2 = m2  m3 = m3
  session = session  main = main  none = none
  Lanes = {session, main}
  Commands = {s1, m1, m2, m3}
  LaneOf <- MCLaneOf
  ConfiguredLanes = {main}
  ConcurrencyInputs = {0, 2}
  Waiters = {w1}
  MaxGeneration = 1
  NoCommand = none
SYMMETRY MCSymmetry
INVARIANT TypeOK
INVARIANT NoStuckLane
INVARIANT ActiveAreRunning
INVARIANT NoForgottenWaiter
INVARIANT DrainedMeansFinished
PROPERTY ImplementsLaneScheduler

CONSTANTS
  MaxRexmt = 12
  RTTMIN = 1000
  RTTMAX = 3000
  InitRtt = 1500000
  Samples <- MCSamples
  MaxInt = 2147483647
  MaxRounds = 6
SPECIFICATION Spec
INVARIANTS
  EstimateSound
  TimerSoundBeforeLastTwo
  GivesUpLate
CHECK_DEADLOCK FALSE

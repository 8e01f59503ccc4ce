SPECIFICATION FairSpec
CONSTANTS
  MaxPid = 3
  Sigs <- MCSigs
  Acts <- MCActs
  ActSigs = {14}
  Masks = {}
  Calls = {"fork", "vfork", "exec", "exit", "wait4", "kill", "nanosleep", "pause", "alarm", "sigaction"}
  WaitPids <- MCWaitPids
  KillPids <- MCKillPids
  KillSigs = {9}
  Codes = {0}
  MaxFrames = 1
ACTION_CONSTRAINT Fits
PROPERTIES EveryoneRuns VforkReturns KillKills WaitReturns PauseEnds

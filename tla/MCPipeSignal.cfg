SPECIFICATION PipeSpec
CONSTANTS
  MaxPid = 2
  Sigs <- MCSigs
  Acts <- MCRestarts
  ActSigs = {10}
  Masks <- MCMasks
  Calls = {"fork", "exit", "pipe", "read", "write", "pselect", "ppolltimed", "select", "kill", "sigaction", "sigprocmask"}
  WaitPids <- MCWaitPids
  KillPids <- MCKillPids
  KillSigs = {10}
  Codes = {0}
  MaxFrames = 1
  MaxFd = 2
  MaxFiles = 2
  MaxPipes = 1
  PipeSize = 2
  Sizes = {3}
  Fifo = {}
  CloseOnExec = {FALSE}
INVARIANTS PipeSleepersWait WaitMaskEnds NoSleepThroughSignal OnlyFullRingMissed

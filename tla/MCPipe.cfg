SPECIFICATION PipeSpec
CONSTANTS
  MaxPid = 3
  Sigs <- MCSigs
  Acts <- MCActs
  ActSigs = {}
  Masks <- MCMasks
  Calls = {"fork", "exec", "exit", "pipe", "close", "read", "write", "poll", "dup", "dup3", "openfifo"}
  WaitPids <- MCWaitPids
  KillPids <- MCKillPids
  KillSigs = {10}
  Codes = {0}
  MaxFrames = 1
  MaxFd = 2
  MaxFiles = 3
  MaxPipes = 2
  PipeSize = 2
  Sizes = {1, 3}
  Fifo = {0, 2}
  CloseOnExec = {TRUE, FALSE}
ACTION_CONSTRAINT Fits
INVARIANTS PipeTypeOK CountsExact PipeSleepersWait BlockedOnOpenPipe PollSleepersWait

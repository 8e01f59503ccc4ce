SPECIFICATION PipeSpec
CONSTANTS
  MaxPid = 2
  Sigs <- MCSigs
  Acts <- MCActs
  ActSigs = {}
  Masks <- MCMasks
  Calls = {"fork", "exit", "pipe", "write", "poll"}
  WaitPids <- MCWaitPids
  KillPids <- MCKillPids
  KillSigs = {10}
  Codes = {0}
  MaxFrames = 1
  MaxFd = 2
  MaxFiles = 2
  MaxPipes = 1
  PipeSize = 2
  Sizes = {1, 3}
  Fifo = {}
  CloseOnExec = {FALSE}
INVARIANTS DeadlockIsReal

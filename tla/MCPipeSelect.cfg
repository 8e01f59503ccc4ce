SPECIFICATION PipeSpec
CONSTANTS
  MaxPid = 2
  Sigs <- MCSigs
  Acts <- MCRestarts
  ActSigs = {10}
  Masks <- MCMasks
  Calls = {"fork", "pipe", "select", "kill", "sigaction"}
  WaitPids <- MCWaitPids
  KillPids <- MCKillPids
  KillSigs = {10}
  Codes = {0}
  MaxFrames = 1
  MaxFd = 2
  MaxFiles = 2
  MaxPipes = 1
  PipeSize = 2
  Sizes = {1, 3}
  Fifo = {}
  CloseOnExec = {FALSE}
INVARIANTS SelectKeepsAsking

SPECIFICATION MCSpec
CONSTANTS
  MaxPid = 2
  Sigs <- MCSigs
  Acts <- MCActs
  ActSigs = {10, 17}
  Masks = {{}, {9, 10}}
  Calls = {"fork", "exec", "wait4", "sigsuspend", "sigprocmask", "kill", "sigaction"}
  WaitPids <- MCWaitPids
  KillPids = {1}
  KillSigs = {10, 17}
  Codes = {0}
  MaxFrames = 2
INVARIANTS TypeOK MaskRestored
PROPERTIES RestartMatchesHandler

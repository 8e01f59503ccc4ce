SPECIFICATION Spec
CONSTANTS
  MaxPid = 3
  Sigs <- MCSigs
  Acts = {}
  ActSigs = {}
  Masks = {}
  Calls = {"fork", "vfork", "exec", "exit", "wait4", "waitnohang", "badpointer", "kill", "yield", "setpgid", "fault"}
  WaitPids <- MCTreeWaits
  KillPids <- MCTreeKills
  KillSigs = {9}
  Codes = {0}
  MaxFrames = 0
INVARIANTS ParentLive VforkHeld VforkHolder NoMissedChild
PROPERTIES ImplementsLife

SPECIFICATION RecoverySpec
CONSTANTS
  Accounts = {a1}
  NoKey = none
  MaxKey = 2
  Main = a1
  NoPass = nopass
  Typed = typed
  Device = device
INVARIANT NothingElseIsLoaded

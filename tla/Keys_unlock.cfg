SPECIFICATION UnlockSpec
CONSTANTS
  Accounts = {a1, a2}
  NoKey = none
  MaxKey = 1
  Main = a1
  NoPass = nopass
  Typed = typed
  Device = device
INVARIANT KeysInv LockedStaysLocked LoadedKeyIsPublished KeyIsKept

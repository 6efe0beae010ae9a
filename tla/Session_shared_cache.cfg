CONSTANTS
  Methods = {sign_event}
  SignEvent = sign_event
  Kinds = {k1}
  SignOne = k1
  AnyKind = any
  Accounts = {a1, a2}
  PubKeys = {p1}
  PairingIds = {i1, i2}
  ClientSecrets = {}
  NoKey = nokey
  RequestIds = {r1}
  NoId = noid
  Replayer = replayer
  Pairer = pairer
  NoWorker = noworker
  MaxDeferred = 0
  Requests <- SignRequests
SPECIFICATION WorkerSpec
INVARIANT AnswersStayWithTheirAccount

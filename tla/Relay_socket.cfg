SPECIFICATION SocketSpec
CONSTANTS
  Relays = {r1}
  Events = {e1}
  Challenges = {c1, c2}
  NoChallenge = none
  FirstChallenge = c1
  MaxPending = 1
  MaxAuthAttempts = 2
  AccountQueue = 1
  RelayQueue = 1
  MaxPublish = 2
INVARIANT RelayInv RetriedOnce AcceptedForItsChallenge
PROPERTY RefusalStaysShown DeafLineIsDropped ChallengeResumes Reconnects

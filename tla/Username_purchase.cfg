SPECIFICATION UsernameSpec
CONSTANTS
  Names = {n1, n2}
  NoName = noname
  Mints = {m1, m2}
  PayMint = m1
  Prices = {0, 1}
  Fees = {0, 1}
  Ops = {o1, o2}
  NoOp = noop
INVARIANT SentTokenIsJournalled UsernameInv
PROPERTY EscrowSpec
SYMMETRY NameSymmetry

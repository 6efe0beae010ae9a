SPECIFICATION PaymentSpec
CONSTANTS
  Accounts = {a1}
  Mints = {m1}
  AnyMint = any
  Invoices = {inv}
  Token = token
  Handles = {h1, h2}
  NoHandle = none
  Tasks = {t1, t2}
  NoTask = notask
  Amounts = {1}
  QuoteLife = 1
  SendLife = 1
  MaxReviews = 2
  MaxEpoch = 1
  MaxNow = 2
  Conns = {c1, c2}
  Requests <- AllRequests
  NoJob = nojob
  MaxConns = 2
  MaxAge = 2
  Skew = 0
  Retain = 2
  RateWindow = 1
  RateLimit = 2
  PromptLife = 1
SYMMETRY NwcSymmetry
INVARIANT ClaimIsNotCancelled

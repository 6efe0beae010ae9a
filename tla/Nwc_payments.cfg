SPECIFICATION PaymentSpec
CONSTANTS
  Accounts = {a1}
  Mints = {m1}
  AnyMint = any
  Invoices = {inv}
  Token = token
  Handles = {h1, h2}
  NoHandle = none
  Tasks = {t1, t2}
  NoTask = notask
  Amounts = {1}
  QuoteLife = 1
  SendLife = 1
  MaxReviews = 2
  MaxEpoch = 1
  MaxNow = 1
  Conns = {c1, c2}
  Requests <- AllRequests
  NoJob = nojob
  MaxConns = 2
  MaxAge = 1
  Skew = 1
  Retain = 2
  RateWindow = 1
  RateLimit = 1
  PromptLife = 1
SYMMETRY NwcSymmetry
INVARIANT NwcInv EachInvoicePaidOnce AnsweredIsNeverPaid
PROPERTY NoSpendAfterRevoke AdmittedOnce LedgerSpec

SPECIFICATION SpendSpec
CONSTANTS
  Accounts = {a1}
  Mints = {m1, m2}
  AnyMint = any
  Invoices = {inv}
  Token = token
  Handles = {h1, h2}
  NoHandle = none
  Tasks = {t1, t2}
  NoTask = notask
  Amounts = {1, 2}
  QuoteLife = 1
  SendLife = 1
  MaxReviews = 1
  MaxEpoch = 1
  MaxNow = 1
SYMMETRY WalletSymmetry
INVARIANT WalletInv ReviewPaysOnce PaidAsReviewed
PROPERTY RegisterSpec

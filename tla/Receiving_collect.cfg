SPECIFICATION CollectSpec
CONSTANTS
  Slots = {s1}
  NoSlot = noslot
  Quotes = {q1, q2}
  NoQuote = noquote
  SlotOf <- OneSlot
  Silent = {q1}
  Doublings = 2
  MaxDelay = 2
INVARIANT ReceivingTypeOK
PROPERTY BackoffIsKept PaidIsCollected

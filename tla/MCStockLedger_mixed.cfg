SPECIFICATION FairSpec
CONSTANTS
  r1 = r1  r2 = r2  r3 = r3
  Requests = {r1, r2, r3}
  shop = shop  store = store  annex = annex  key = key  usedKey = usedKey
  Cells = {shop, store, annex}
  Known = {shop, store}
  Stocked = {shop}
  Opening <- OpeningStock
  Keys = {key, usedKey}
  TakenKeys = {usedKey}
  NoKey = NoKey
  Nobody = Nobody
  Elsewhere = Elsewhere
  Commands <- AllCommands
  Workloads <- MixedOrKeyed
INVARIANTS SequentialChain KeyRecordsEffect RetryAfterSuccess
PROPERTIES RefinesLedger EveryRequestEnds

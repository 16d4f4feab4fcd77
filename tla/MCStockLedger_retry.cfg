SPECIFICATION Spec
CONSTANTS
  r1 = r1  r2 = r2  r3 = r3
  Requests = {r1, r2}
  shop = shop  store = store  annex = annex  key = key  usedKey = usedKey
  Cells = {shop, store, annex}
  Known = {shop, store}
  Stocked = {shop}
  Opening <- OpeningStock
  Keys = {key, usedKey}
  TakenKeys = {}
  NoKey = NoKey
  Nobody = Nobody
  Elsewhere = Elsewhere
  Commands <- AllCommands
  Workloads <- RetriedReceive
INVARIANT KeyedOnce

SPECIFICATION FairSpec
CONSTANTS
  r1 = r1  r2 = r2  r3 = r3  shop = shop  boss = boss  clerk = clerk
  guest = guest  key = key
  north = north  south = south  sales = sales
  Requests = {r1, r2, r3}
  NoRequest = NoRequest
  Users = {boss, clerk, guest}
  Keys = {key}
  NoKey = NoKey
  Shops = {shop}
  Branches = {north, south}
  NoBranch = NoBranch
  Capabilities = {sales}
  NoCapability = NoCapability
  Permissions <- TwoCodes
  Needs <- NeedsOne
  Scenes <- Meetings
INVARIANTS TypeOK DecisionIsDated RevokedStaysOut RepeatedInviteIsOne OwnersHoldAll WithdrawalIsFinal
PROPERTY EveryRequestEnds

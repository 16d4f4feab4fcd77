SPECIFICATION FairSpec
CONSTANTS
  r1 = r1  r2 = r2  r3 = r3
  quote = quote  draft = draft  other = other  sold = sold  gift = gift
  tea = tea  jam = jam  key = key
  Requests = {r1, r2, r3}
  Existing = {quote, draft, other, sold, gift}
  Products = {tea, jam}
  Keys = {key}
  Elsewhere = Elsewhere
  NoDoc = NoDoc  NoKey = NoKey  Nobody = Nobody
  Workloads <- Sales
  OpeningDocs <- Shop
  OpeningStock <- Shelf
  OpeningBook <- Books
  LastDay = 2
INVARIANTS TypeOK OnceIfSequential LostOnlyToOverlap NumbersDense ReportMatchesBooks ClosedDayMissesOne
PROPERTIES RefinesBook EveryRequestEnds

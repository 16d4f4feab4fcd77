SPECIFICATION Spec
CONSTANTS
  r1 = r1  r2 = r2  r3 = r3  r4 = r4
  planned = planned  open = open  part = part  free = free
  half = half  rest = rest  whole = whole  both = both  gift = gift  first = first
  tea = tea  jam = jam  key = key
  Requests = {r1, r2, r3, r4}
  Existing = {planned, open, part, free, half, rest, whole, both, gift, first}
  Products = {tea, jam}
  Keys = {key}
  Elsewhere = Elsewhere
  NoOrder = NoOrder  NoReceipt = NoReceipt  NoKey = NoKey  Nobody = Nobody
  Workloads <- CancelAndReceive
  OpeningOrders <- Orders
  OpeningReceived <- Received
  OpeningReceipts <- Receipts
  OpeningStock <- Shelf
  OpeningJournals <- Books
INVARIANT CancelledHasNoGoods

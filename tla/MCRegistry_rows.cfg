SPECIFICATION FairSpec
CONSTANTS
  r1 = r1  r2 = r2  r3 = r3
  party = party  link = link  tea = tea  config = config
  ann = ann  dan = dan  hours = hours  early = early  late = late
  mail = mail  phone = phone  slug = slug  key = key  key2 = key2
  Requests = {r1, r2, r3}
  Existing = {party, link, tea, config}
  Opening <- Start
  Values = {ann, dan, hours, early, late, mail, phone, slug}
  Unset = Unset
  Keys = {key, key2}
  NoKey = NoKey  Nobody = Nobody  Elsewhere = Elsewhere
  Workloads <- Days
INVARIANTS TypeOK NoChangeLost TrailBreaksOnlyByOverlap WholeOrNothing TwiceOnlyIfOverlapped
PROPERTY EveryRequestEnds

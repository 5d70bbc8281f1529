SPECIFICATION SerialSpec
CONSTANTS
  Absent = Absent
  NotNumber = NotNumber
  Infinite = Infinite
  NoModel = NoModel
  Malformed = Malformed
  None = None
  NoImage = NoImage
  t1 = t1
  t2 = t2
  d1 = d1
  d2 = d2
  Devices = {d1, d2}
  Threads = {t1, t2}
  Requests <- AllRequests
INVARIANTS SuccessMeansMyImage ImageCarriesItsUnit
PROPERTY BuildsOneUnitAtATime

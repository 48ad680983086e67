SPECIFICATION FairSpec
CONSTANTS
  Queue = queue
  Direct = {d1, d2}
  Client = {c1, c2, c3, c4, c5}
  NoClient = NoClient
  MaxChange = 3
  MaxFault = 1
INVARIANTS TypeOK SentOnce NoneLeftOpen
PROPERTIES LinkFollows

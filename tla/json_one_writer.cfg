SPECIFICATION OneAtATimeSpec
CONSTANTS
  w1 = w1
  w2 = w2
  g = g
  t = t
  u = u
  x = x
  KG = KG
  Unset = Unset
  Blank = Blank
  Torn = Torn
  Workers <- TwoWorkers
  Agents <- OneAgent
  Triples <- TwoTriples
  Texts <- OneText
  MaxDay = 2
  MaxItems = 2
INVARIANT Readable
PROPERTY IsLedger
PROPERTY PastSettled
SYMMETRY BothSymmetries

SPECIFICATION JsonSpec
CONSTANTS
  w1 = w1
  w2 = w2
  g = g
  t = t
  u = u
  x = x
  KG = KG
  Unset = Unset
  Blank = Blank
  Torn = Torn
  Workers <- TwoWorkers
  Agents <- OneAgent
  Triples <- OneTriple
  Texts <- OneText
  MaxDay = 1
  MaxItems = 2
PROPERTY NothingLost

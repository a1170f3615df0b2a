\* Handoff is run with other types after one that stopped half-way.
SPECIFICATION Spec
CONSTANTS
  o1 = o1  o2 = o2  pdf = pdf  md = md  p1 = p1  p2 = p2  h1 = h1  h2 = h2  k1 = k1  k2 = k2  w1 = w1  w2 = w2
  Captures = {1, 2}
  Objects = {o1}
  Extensions = {pdf, md}
  ObjectOf <- SameBytes
  NameOf <- OtherNames
  Verified = {1, 2}
  HandoffTypes <- EitherType
  AcceptTypes = {pdf, md}
  Pages = {p1}
  Handers = {h1}
  Pickers = {k1, k2}
  Writers = {}
  MaxDigests = 2
  MaxDeletions = 1
  MaxStops = 1
  None = None
INVARIANT OneSourcePath

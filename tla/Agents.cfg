SPECIFICATION AgentSideSpec
CONSTANTS
  s1 = s1
  s2 = s2
  p1 = p1
  p2 = p2
  c1 = c1
  c2 = c2
  u1 = u1
  u2 = u2
  e1 = e1
  o1 = o1
  o2 = o2
  Socket = {s1, s2}
  Row = {p1, p2}
  Camera = {c1, c2}
  Upload = {u1, u2}
  Enrol = {e1}
  Offer = {o1, o2}
  Agent = {s1, s2}
  None = None
  NoFrame = NoFrame
INVARIANTS
  OnlineAccounted
PROPERTIES
  PresenceKept
  AgentComesOnline
  LostRowSwept
  PresenceReturns
  FrameShown
  MetaKept
  OfferSettles
CHECK_DEADLOCK FALSE

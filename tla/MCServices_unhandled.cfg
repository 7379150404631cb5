SPECIFICATION FairSpec
CONSTANTS
  p1 = p1  p2 = p2  n0 = n0  n1 = n1  n2 = n2
  Program = {p1, p2}
  Serving = {p1}
  Manager = Manager
  Name = {n0, n1}
  Title = n0
  Joined <- NoService
  Calls <- MessageCalls
  OwnCalls = FALSE
  NSpots = 2
PROPERTY ObjectFreedAgain

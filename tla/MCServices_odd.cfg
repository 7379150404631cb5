SPECIFICATION FairSpec
CONSTANTS
  p1 = p1  p2 = p2  n0 = n0  n1 = n1  n2 = n2
  Program = {p1, p2}
  Serving = {p1}
  Manager = Manager
  Name = {n0, n1, n2}
  Title = n0
  Joined <- OddName
  Calls <- OddCalls
  OwnCalls = FALSE
  NSpots = 2
CHECK_DEADLOCK FALSE
PROPERTY EveryRequestAnswered

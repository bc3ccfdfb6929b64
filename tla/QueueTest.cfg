CONSTANTS
  main = main
  p1 = p1
  p2 = p2
  t1 = t1
  t2 = t2
  t3 = t3
  Owner = main
  Putters <- TwoPutters
  Takers <- ThreeTakers
  Capacities <- FewAndMany
  Unlimited = 20
  Times = 1
  MaxPuts = 3
SPECIFICATION FairSpec
INVARIANT NobodySleepsOnWork
PROPERTIES ImplementsQueue Joins

SPECIFICATION InfoSpec
CONSTANTS
  Clients = {c1, c2, c3}
  Prime = prime
  Upstreams = {u1, u2}
  Attempts = 2
  Nothing = Nothing
PROPERTIES
  FreshCacheIsNotRefetched
  EveryDescribeIsAnswered

\* Two processes with different keys share one file and crash at any moment; a request of one of
\* their clients goes over the wire.
SPECIFICATION ClientSpec
CONSTANTS
  Process = {p1, p2}
  ClientsOf <- Apart
  MaxAuths = 2
  Client = {c1, c2, c3}
  p1 = p1  p2 = p2  c1 = c1  c2 = c2  c3 = c3
  k1 = k1  k2 = k2  prod = prod  staging = staging
  KeyOf <- Keys
  RealmOf <- Realms
  Production = prod
  NoAuth = NoAuth
  Unlabelled = Unlabelled
  Unreadable = Unreadable
  Missing = Missing
  Torn = Torn
  HostOf <- Hosts
  AlsoAllowed <- Options
  Unset = Unset
  Url <- Urls
  MaxRedirects = 2
  NoUrl = NoUrl
INVARIANTS OwnAuthOnly FlushedIsPersisted ExchangesEndTruly
CHECK_DEADLOCK FALSE

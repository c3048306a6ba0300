\* Two requests, one retry, up to two reauthorizations.
SPECIFICATION FairRetrySpec
CONSTANTS
  r1 = r1  r2 = r2
  Request = {r1, r2}
  Kinds <- KindChoices
  MaxRetries = 1
  MaxRefresh = 2
INVARIANT AppliedAtMostOnce
PROPERTIES TokensAdvance Settles
CHECK_DEADLOCK FALSE

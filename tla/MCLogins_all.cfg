\* Every login against every answer, interval, redirect and list of providers within the bounds.
CONSTANTS
  CookieNames = {session, route}
  MaxCookies = 2
  Intervals = {0, 1, 3}
  Lifetimes = {0, 3}
  Default = 2
  DefaultLifetime = 7
  Increment = 2
  MaxCall = 2
  MaxPrompt = 2
  MaxSlow = 2
  Codes = {c1, c2}
  MaxRequests = 3
  Letters = {a}
  MaxName = 2
  MaxProviders = 2
SPECIFICATION FairSpec
INVARIANTS
  ClaimsNeedSecondFactor
  SecretsWiped
  FirstCodeRedeemed
  LookupIsExact
PROPERTIES
  StepsCarryTheSession
  PollsInTime
  LoginsEnd
CHECK_DEADLOCK FALSE

SPECIFICATION FairSpec
CONSTANTS
  Hosts = {"home", "www", "other"}
  Home = "home"
  Subdomains <- OneSubdomain
  Cookies = {"c1"}
  RedirectLimit = 2
  MaxHops = 2
  Pooled = 1
  Requests <- SomeRequests
INVARIANTS BodiesClosed SentFromStart AttemptsApart NothingLeft HeadersStay
PROPERTY TimeoutReturns
CHECK_DEADLOCK FALSE

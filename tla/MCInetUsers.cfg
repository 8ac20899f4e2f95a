CONSTANTS
  n1 = n1
  n2 = n2
  u1 = u1
  u2 = u2
  u3 = u3
  web1 = web1
  web2 = web2
  dns1 = dns1
  echo = echo
  Networks = {n1, n2}
  Users = {u1, u2, u3}
  Servers = {web1, web2, dns1, echo}
  AS <- Where
  profileNumber <- Fixed
  Offer <- Offered
  ConfigFile <- Configured
  Attempts = 4
  Half = 2
  RequestsPerSession = {1, 2}
  MaxPongs = 1
  Top = Top
  NONE = NONE
SPECIFICATION FairSpec
INVARIANTS TypeOK TargetServesProfile Locality SearchSucceeds
PROPERTIES PingsSent UserGoesOn
CHECK_DEADLOCK FALSE

SPECIFICATION Spec
CONSTANTS
  Auth = auth  Listed = listed  Sub = sub  Blocked = blocked  Elsewhere = elsewhere
  Macs = {m1, m2}
  Trusted = {m2}
  Router = router
  Hosts = {router, auth, listed, sub, blocked, elsewhere}
  Ports = {"web", "dns", "mail"}
  ServerHosts = {auth}
  Anywhere = anywhere
  Within <- Domains
  Resolves <- Addresses
  Configs <- TwoConfigs
  Gone = gone
  MaxOpened = 1
INVARIANTS StartsClean  

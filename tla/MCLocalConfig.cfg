SPECIFICATION Spec
CONSTANTS
  r1 = r1
  r2 = r2
  owner = owner
  other = other
  home = home
  shiny = shiny
  nobody = nobody
  Requests = {r1, r2}
  Locations <- MCLocations
  Names <- MCNames
  Owner = owner
  Special = {home}
  HomeUser = home
  Nobody = nobody
  Global <- MCGlobal
  Contents <- MCContents
  MaxTouches = 1
  MaxReloads = 1
INVARIANTS
  Inv
  RestartTakesEffect
CHECK_DEADLOCK FALSE

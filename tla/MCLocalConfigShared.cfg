SPECIFICATION Spec
CONSTANTS
  r1 = r1
  r2 = r2
  owner = owner
  other = other
  home = home
  shiny = shiny
  nobody = nobody
  Requests = {r1, r2}
  Locations <- MCAppDir
  Names <- MCNames
  Owner = owner
  Special = {home}
  HomeUser = home
  Nobody = nobody
  Global <- MCGlobal
  Contents <- MCContentsShort
  MaxTouches = 0
  MaxReloads = 0
INVARIANTS
  KeysStay
CHECK_DEADLOCK FALSE

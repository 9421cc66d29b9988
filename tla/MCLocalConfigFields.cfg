SPECIFICATION Spec
CONSTANTS
  r1 = r1
  r2 = r2
  owner = owner
  other = other
  home = home
  shiny = shiny
  nobody = nobody
  Requests = {r1, r2}
  Locations <- MCSiteDir
  Names <- MCNames
  Owner = owner
  Special = {home}
  HomeUser = home
  Nobody = nobody
  Global <- MCGlobal
  Contents <- MCContentsPartial
  MaxTouches = 0
  MaxReloads = 0
INVARIANTS
  OnlyWhatIsFound
CHECK_DEADLOCK FALSE

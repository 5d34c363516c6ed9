SPECIFICATION Spec
CONSTANTS
  Screen = {"home", "settings"}
  Empty = "empty"
  View = {"list", "menu", "signout"}
  Shows <- MCShows
  Clickable = {"list", "menu", "signout"}
  TextInput = {}
  Denied = {"signout"}
  NoView = "none"
  Points = 1
  Under <- MCUnder
  MaxDrops = 1
INVARIANTS
  DeathIsNoticed
PROPERTIES
  BackAfterGrid
  StartsAgainOnlyWhenStuck
  TapsRunOut
  LeftAppIsBroughtBack
CHECK_DEADLOCK FALSE

\* The evidence the activation check reads goes stale while capture is on, and the server reloads.
SPECIFICATION FairSpec
CONSTANTS
  Calls = {c1}
  Workers = {w1}
  MaxEdits = 2
PROPERTIES ReloadedIsActivated
CHECK_DEADLOCK FALSE

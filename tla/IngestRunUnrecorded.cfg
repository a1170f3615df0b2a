\* The run ends between the page and its ledger row; another source has the same name.
SPECIFICATION Spec
CONSTANTS
  c1 = c1
  c2 = c2
  Contents = {c1, c2}
  slugA = slugA
  slugB = slugB
  Sources = {1, 2}
  Slugs = {slugA}
  Slug <- SharedSlug
  MaxAttempts = 1
  Edits <- AnyEdit
  AgentPhases = {"idle"}
  DeletePhases <- Phases
  MaxProfile = 1
  MaxChanges = 0
  MaxFaults = 1
  Gone = Gone
PROPERTIES PageKeepsItsSource

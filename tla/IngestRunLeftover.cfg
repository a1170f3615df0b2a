\* The run ends between the new ledger row and the removal of the old page.
SPECIFICATION FairSpec
CONSTANTS
  c1 = c1
  c2 = c2
  Contents = {c1, c2}
  slugA = slugA
  slugB = slugB
  Sources = {1}
  Slugs = {slugA, slugB}
  Slug <- ContentSlug
  MaxAttempts = 1
  Edits <- AnyEdit
  AgentPhases = {"idle"}
  DeletePhases <- IdleOnly
  MaxProfile = 1
  MaxChanges = 1
  MaxFaults = 1
  Gone = Gone
PROPERTIES OnePagePerSource

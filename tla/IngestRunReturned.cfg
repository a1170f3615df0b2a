\* An archived source returns with its content and is removed again.
SPECIFICATION FairSpec
CONSTANTS
  c1 = c1
  c2 = c2
  Contents = {c1, c2}
  slugA = slugA
  slugB = slugB
  Sources = {1, 2}
  Slugs = {slugA}
  Slug <- SharedSlug
  MaxAttempts = 1
  Edits <- Returns
  AgentPhases = {"idle"}
  DeletePhases <- Phases
  MaxProfile = 1
  MaxChanges = 3
  MaxFaults = 0
  Gone = Gone
PROPERTIES OrphansAreArchived

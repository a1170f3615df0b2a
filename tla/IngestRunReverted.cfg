\* The source goes back to its recorded content after a failed index write.
SPECIFICATION FairSpec
CONSTANTS
  c1 = c1
  c2 = c2
  Contents = {c1, c2}
  slugA = slugA
  slugB = slugB
  Sources = {1}
  Slugs = {slugA}
  Slug <- SharedSlug
  MaxAttempts = 1
  Edits <- AnyEdit
  AgentPhases = {"idle"}
  DeletePhases <- Phases
  MaxProfile = 1
  MaxChanges = 2
  MaxFaults = 1
  Gone = Gone
PROPERTIES Converges

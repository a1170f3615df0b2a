\* Another model is configured after the attempts ran out.
SPECIFICATION Spec
CONSTANTS
  c1 = c1
  c2 = c2
  Contents = {c1, c2}
  slugA = slugA
  slugB = slugB
  Sources = {1}
  Slugs = {slugA}
  Slug <- SharedSlug
  MaxAttempts = 1
  Edits <- AnyEdit
  AgentPhases = {"idle"}
  DeletePhases <- Phases
  MaxProfile = 2
  MaxChanges = 1
  MaxFaults = 0
  Gone = Gone
PROPERTIES TransientIsRetried

\* Agents write pages while a run is digesting.
SPECIFICATION Spec
CONSTANTS
  c1 = c1
  c2 = c2
  Contents = {c1, c2}
  slugA = slugA
  slugB = slugB
  Sources = {1}
  Slugs = {slugA}
  Slug <- SharedSlug
  MaxAttempts = 1
  Edits <- AnyEdit
  AgentPhases <- Phases
  DeletePhases <- Phases
  MaxProfile = 1
  MaxChanges = 2
  MaxFaults = 0
  Gone = Gone
PROPERTIES EvidenceIsCarried

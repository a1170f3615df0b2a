\* A page name that changes with the content; every edit, two profiles, nothing fails.
SPECIFICATION FairSpec
CONSTANTS
  c1 = c1
  c2 = c2
  Contents = {c1, c2}
  slugA = slugA
  slugB = slugB
  Sources = {1}
  Slugs = {slugA, slugB}
  Slug <- ContentSlug
  MaxAttempts = 2
  Edits <- AnyEdit
  AgentPhases = {"idle"}
  DeletePhases <- IdleOnly
  MaxProfile = 2
  MaxChanges = 4
  MaxFaults = 0
  Gone = Gone
PROPERTIES EvidenceIsCarried OnePagePerSource Converges

\* Edits that never return to an earlier content; one failure or kill.
SPECIFICATION FairSpec
CONSTANTS
  c1 = c1
  c2 = c2
  Contents = {c1, c2}
  slugA = slugA
  slugB = slugB
  Sources = {1, 2}
  Slugs = {slugA}
  Slug <- SharedSlug
  MaxAttempts = 1
  Edits <- NewContents
  AgentPhases = {"idle"}
  DeletePhases <- Phases
  MaxProfile = 2
  MaxChanges = 2
  MaxFaults = 1
  Gone = Gone
INVARIANTS PagesAreOwned
PROPERTIES NoPageIsLost EvidenceIsCarried Converges OrphansAreArchived

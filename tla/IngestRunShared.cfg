\* Two sources whose names give one page name; failures, kills, and a source that comes back.
SPECIFICATION Spec
CONSTANTS
  c1 = c1
  c2 = c2
  Contents = {c1, c2}
  slugA = slugA
  slugB = slugB
  Sources = {1, 2}
  Slugs = {slugA}
  Slug <- SharedSlug
  MaxAttempts = 1
  Edits <- Comings
  AgentPhases = {}
  DeletePhases <- Phases
  MaxProfile = 1
  MaxChanges = 3
  MaxFaults = 1
  Gone = Gone
INVARIANTS TypeOK OneSuccess PagesAreOwned PagesAgree AttemptsBounded
PROPERTIES NoPageIsLost

\* One page captured by hand, downloaded, and imported as a fetched file, all
\* the same bytes; two callers, one of them cut once, and deletions of the page.
SPECIFICATION FairSpec
CONSTANTS
  Callers = {c1, c2}
  page = page  text = text  derived = derived  key1 = key1
  Bytes = {page, text, derived}
  Requests <- OneCapture
  Recovered <- OneCapture
  Imports <- OneImport
  Bases = {b1}
  Remote = {page}
  TextOf <- TextOfPage
  Deletable = {page}
  NoText = NoText  NoCapture = NoCapture  NoBasis = NoBasis  NoKey = NoKey
  MaxRedirects = 1
  MaxFetches = 1
  MaxStops = 1
INVARIANTS SuccessIsWhole DerivedHasSource ExtractionByCapture
CHECK_DEADLOCK FALSE
PROPERTIES RepetitionCompletes

CONSTANTS
  LastPage = 2
  Contents <- MCContents
  Tags <- MCTags
  AvrTags <- MCAvrTags
  TagIn <- MCTagIn
  Machine = "m1"
  Images <- MCImages
  Files <- MCFiles
  Options <- MCOptions
  Torn = Torn
  Outside = Outside
  MaxFaults = 2
SPECIFICATION LiveSpec
INVARIANTS
  RunsWholeImages
  VerifiedIsFlashed
PROPERTIES
  KeepsBootloader
  Recovers

SPECIFICATION LiveSpec
CONSTANTS
  Commands <- SomeCommands
  BlockWords = 2
  MaxGiveUps = 2
INVARIANTS
  NoContention
  OkMeansDone
PROPERTIES
  CarriesOutWhatIsAsked
  LetsGo
  Recovers

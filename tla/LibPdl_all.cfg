SPECIFICATION FairSpec
CONSTANTS
  Databases <- AllDatabases
  Rooms = {"whole", "cut"}
  Values = {"nl", "us"}
  EnvDir = "game"
  ExeDirs <- Parents
  Ids = {"id"}
  MaxEdits = 2
PROPERTIES
  
  OneHome
  DefaultsGiveWay

SPECIFICATION FairSpec
CONSTANTS
  game = game
  shell = shell
  Port = {game, shell}
  NoPort = NoPort
  Automounter = shell
  Asks <- MCAsks
  MayAskAgain = {shell}
  MayMakeTable = {shell}
  MayFocus = {game}
  MayClose = {game}
  Frames <- MCFrames
  QueueDefault = 1
  QueuePermitted = 2
INVARIANTS
  MessagesAccounted
  NotesKept
PROPERTIES
  EventuallyTold

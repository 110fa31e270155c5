SPECIFICATION FairSpec
CONSTANTS
  Conns <- TwoConns
  Scenes <- SomeScenes
  MaxOut = 3
  PipeRoom = 2
  SockRoom = 2
  EchoSize = 2
  MaxHups <- SomeHups
INVARIANTS
  LogSoonFresh
  OneAnswer
  ReplyWhole
  BodyWhole
PROPERTIES
  AllEnd

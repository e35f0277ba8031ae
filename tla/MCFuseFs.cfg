SPECIFICATION MCSpec
CONSTANTS
  Names <- MCNames
  Priv = "priv"
  NodesDir = "nodes"
  Plugins <- MCPlugins
  PluginOffset = 6
  PeerMessages <- MCPeerMessages
  PeerCounts = {0, 2}
  Offsets = {0, 1}
  Sizes = {0, 1}
  MaxInode = 12
  MaxCount = 2
  MaxPeer = 1
  Word = 16
  KeyField = 3
  MaxMessageSize = 8
  Frames <- MCFrames
CHECK_DEADLOCK FALSE
INVARIANTS NodeidsResolve AnswersAreOwn FramesReadBack
PROPERTIES RequestsAreAnswered

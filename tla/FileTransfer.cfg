SPECIFICATION FairSpec
CONSTANTS
  big = big
  small = small
  gone = gone
  path = path
  tools = tools
  None = None
  Names = {big, small, gone, path}
  Files = {big, small, path}
  LsNames = {}
  PathNames = {path}
  Size <- MCSizeOf
  Ends = {"nl", "data"}
  Room = 5
  Faults = {{}, {"signal", "dir", "stat", "sendfile", "disk"}}
  MaxCommands = 4
INVARIANTS TransferInv SavedRight
PROPERTIES GetGetsFile CommandEnds
CHECK_DEADLOCK FALSE

SPECIFICATION Spec
CONSTANTS
  big = big
  small = small
  gone = gone
  path = path
  tools = tools
  None = None
  Names = {big, small}
  Files = {big, small}
  LsNames = {tools}
  PathNames = {path}
  Size <- MCSizeOf
  Ends = {"nl", "data", "digit"}
  Room = 5
  Faults = {{}}
  MaxCommands = 3
PROPERTY GetGetsFile
CHECK_DEADLOCK FALSE

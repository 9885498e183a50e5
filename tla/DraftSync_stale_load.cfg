\* One getDrafts, and what the user types while it waits.
CONSTANTS
  Channels = {a, b}
  MaxTyped = 2
  MaxOthers = 0
  MaxCommands = 0
  MaxLoads = 1
  MaxUnderway = 1
SPECIFICATION Spec
PROPERTY OnlyLatestKept

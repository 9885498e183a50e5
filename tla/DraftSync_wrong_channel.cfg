\* One text and one command are enough.
CONSTANTS
  Channels = {a, b}
  MaxTyped = 1
  MaxOthers = 0
  MaxCommands = 1
  MaxLoads = 0
  MaxUnderway = 1
SPECIFICATION Spec
INVARIANT EditorFollowsChannel

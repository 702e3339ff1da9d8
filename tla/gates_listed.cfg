SPECIFICATION Spec
CONSTANTS
  local = local
  push = push
  delete = delete
  NoFile = NoFile
  NoAction = NoAction
  DefaultText <- MCDefault
  p1 = p1
  p2 = p2
  Proc = {p1, p2}
  Action = {local, push, delete}
  UserTexts <- OwnTexts
  MaxCommands = 2
  MaxEdits = 0
  MaxKills = 1
INVARIANTS
  GatesAreListed
CHECK_DEADLOCK FALSE

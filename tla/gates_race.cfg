SPECIFICATION Spec
CONSTANTS
  local = local
  push = push
  delete = delete
  NoFile = NoFile
  NoAction = NoAction
  DefaultText <- MCDefault
  p1 = p1
  p2 = p2
  Proc = {p1, p2}
  Action = {local, push, delete}
  UserTexts <- OwnTexts
  MaxCommands = 3
  MaxEdits = 1
  MaxKills = 1
INVARIANTS
  TypeOK
  UneditedIsStrict
  EmptyWhileWritten
  LoneAnswerIsCurrent
  ReaderIsFaithful
CHECK_DEADLOCK FALSE

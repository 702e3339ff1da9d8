SPECIFICATION Spec
CONSTANTS
  p1 = p1
  p2 = p2
  push = push
  delete = delete
  commit = commit
  mutate = mutate
  local = local
  Proc = {p1, p2}
  Remote = {push}
  Destructive = {delete}
  Gated = {commit, mutate}
  Listed = {mutate}
  Unknown = {local}
  NoType = "-"
  Path = {"plan", "schema", "verdict", "log", "receipt", "adapter", "markdown"}
  Plan = "plan"
  Schema = "schema"
  Verdict = "verdict"
  Log = "log"
  Receipt = "receipt"
  Adapter = "adapter"
  Markdown = "markdown"
  Named = {"plan"}
  Editable = {"plan"}
  UserItems <- MCUserItems
  NoFile = NoFile
  DocLines = 2
  MaxCommands = 3
  MaxEdits = 1
  MaxKills = 1
INVARIANTS
  TypeOK
  PassIsReviewable
  OwnPlanIsAccepted
  EmptyWhileOpen
  ReceiptIsInLog
SYMMETRY
  Either
PROPERTY
  LogOnlyGrows
CHECK_DEADLOCK FALSE

SPECIFICATION Spec
CONSTANTS
  Replicas = {a, b}
  Chats = {c1}
  MaxDeploys = 1
PROPERTIES HistoryKept

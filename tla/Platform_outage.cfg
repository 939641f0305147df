SPECIFICATION FairSpec
CONSTANTS
  Replicas = {a, b, c}
  Chats = {c1}
  MaxDeploys = 1
INVARIANTS TypeOK TablesWhenAllServe AdminWhenServing
PROPERTIES RecoversAfterOutage

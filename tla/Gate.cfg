CONSTANTS
  b1 = b1
  b2 = b2
  chat = chat
  owner = owner
  serve = serve
  Builds = {b1, b2}
  Calls = {chat, owner}
  Chats = {chat}
  Process <- OneProcess
  Serve = serve
  None = None
  MaxOwnerCommits = 2
  MaxContinuations = 1
  MaxLosses = 1
SPECIFICATION MCSpec
CHECK_DEADLOCK FALSE
INVARIANTS
  OnlyVerifiedMerges
  
PROPERTIES
  TargetOnlyGrows
  

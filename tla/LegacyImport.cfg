CONSTANTS
  a1 = a1
  a2 = a2
  u1 = u1
  u2 = u2
  card = card
  png = png
  chat = chat
  NoAccount = NoAccount
  Account = {a1, a2}
  User = {u1, u2}
  Job = {j1, j2}
  Admins = {a2}
  Wanted = {TRUE}
  Limit = 2
  MaxBots = 2
  MaxCodes = 2
  MaxBinds = 2
  MaxUpserts = 1
  Card = {card, png}
  Canonical = {card}
  Chat = {chat}
  Owner <- Files
  Tokens = {a1}
  Allowed <- Lists
  MaxRuns = 2
  MaxWork = 5
  MaxLines = 4
SYMMETRY JobSymmetry
SPECIFICATION Spec
INVARIANTS
  BoundToOwner
  ImportedOnce
  TranscriptKept
PROPERTY
  CodeRedeemedOnce
CHECK_DEADLOCK FALSE

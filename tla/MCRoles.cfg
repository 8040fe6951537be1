\* One asset; a user and a contract pass the two roles around; every open call ends.
CONSTANTS
  Token = {t1}
  EOA = {u1}
  Contract = {c1}
  Bnft = bnft
  Underlying = underlying
  NoAddr = noaddr
  Operator = {c1}
  Granter = {c1}
  Admin = {u1, c1}
  MaxIds = 1
  MaxDepth = 2
SPECIFICATION FairSpec
INVARIANTS HookClosed
PROPERTIES RenouncedForever GuardReleased

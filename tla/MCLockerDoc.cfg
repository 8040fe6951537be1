\* The comment on setFlashLoanLocking against the code.
CONSTANTS
  Token = {t1, t2}
  EOA = {u1}
  Contract = {c1}
  Bnft = bnft
  Underlying = underlying
  NoAddr = noaddr
  Operator = {c1}
  Granter = {c1}
  Admin = {c1}
  MaxIds = 1
  MaxDepth = 2
SPECIFICATION Spec
INVARIANTS LockerBorrowsAnyOfMinter

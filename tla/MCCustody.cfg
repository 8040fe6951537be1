\* Two assets, a user, a wallet contract and an admin contract; the user may
\* approve the wallet and lock for it.
CONSTANTS
  Token = {t1, t2}
  EOA = {u1}
  Contract = {c1, c2}
  Bnft = bnft
  Underlying = underlying
  NoAddr = noaddr
  Operator = {c1}
  Granter = {u1}
  Admin = {c2}
  MaxIds = 2
  MaxDepth = 2
SPECIFICATION Spec
INVARIANTS TypeOK Custody MinterIffBound LoanFreezesDeeds LentWithConsent
PROPERTIES RedeemedToMinter ImplementsVault

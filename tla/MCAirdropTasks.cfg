\* Two tokens, of one ERC-20 and of two ERC-1155 kinds, the operator and another
\* user; a failed read and one thing that others do, or two of either.
CONSTANTS
  Token = {3, 4}
  User = {u1, u2}
  Bnft = bnft
  Deployer = u1
  TokenType = {"erc20", "erc721", "erc1155"}
  IdLists <- MCIds
  MaxEvents = 2
\* The events are used up and no task is started.
CHECK_DEADLOCK FALSE
SPECIFICATION Spec
INVARIANTS TypeOK NobodyMissed PairedWithOwner ListedPrizesMoved OwnerListed
PROPERTIES RunEnds

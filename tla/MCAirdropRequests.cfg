\* Two airdrops over the one ERC-721 prize there is, which a user who won it may
\* send back; two coordinators that both number their requests 1, 2; three requests.
CONSTANTS
  User = {u1}
  Nft = {n1}
  Prize1155 = {}
  Asset721 = {x1}
  Asset1155 = {}
  Coordinator = {v1, v2}
  Dist = dist
  NoClaim = noclaim
  ClaimType = {1, 3}
  RequestId = {1, 2}
  MaxAirdrop = 2
  MaxRequest = 3
  MaxList = 1
  Supply = 0
SPECIFICATION Spec
INVARIANTS PaidOnce
PROPERTIES DrawnByOwnWords

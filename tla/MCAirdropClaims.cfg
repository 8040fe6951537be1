\* One ERC-721 and one ERC-1155 collection with two prizes of one unit each; two
\* users, two NFTs; every claim type; one coordinator, one request.
CONSTANTS
  User = {u1, u2}
  Nft = {n1, n2}
  Prize1155 = {p1, p2}
  Asset721 = {x1}
  Asset1155 = {y1}
  Coordinator = {v1}
  Dist = dist
  NoClaim = noclaim
  ClaimType = {1, 2, 3}
  RequestId = {1}
  MaxAirdrop = 1
  MaxRequest = 1
  MaxList = 2
  Supply = 1
SPECIFICATION Spec
INVARIANTS TypeOK PaidOnce
PROPERTIES AllOrNothing

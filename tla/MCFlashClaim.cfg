\* Flash claims: a user and a user's contract, an NFT bound by each pool, two
\* prizes, two receivers, two implementations.
CONSTANTS
  t1 = t1
  t2 = t2
  c = c
  Token = {t1, t2}
  User = {u, c}
  Contract = {c}
  LendPool = lendPool
  StakeManager = stakeManager
  Registry = registry
  Bnft = bnft
  Collection = collection
  Project = project
  Prize = {p1, p2}
  Receiver = {r1, r2}
  Implementation = {i1, i2}
  VERSION <- OwnVersion
  Claims <- TwoPayments
  MaxIds = 2
  Listable = {project, bnft, collection}
  Operators = {bnft}
  Grants <- OneOfEach
  Holders = {c}
  Recipients = {r1, r2}
  Heirs = {u}
  MaxEvents = 1
  NoAddr = noAddr
SPECIFICATION Spec
INVARIANTS TypeOK LocksTransient PrizesReachUser BorrowedStays
SYMMETRY Alike

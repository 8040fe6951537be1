\* Two punks, a user and a contract that may bind for others.
CONSTANTS
  Punk = {p1, p2}
  User = {u1, c1}
  Contract = {c1}
  Gateway = gateway
  Proxy = proxy
  Wrapper = wrapper
  Vault = vault
  Anyone = anyone
  NoAddr = noaddr
SPECIFICATION Spec
INVARIANTS TypeOK Backed ExchangeCompletes ReturnedToDepositor NothingLeftBehind

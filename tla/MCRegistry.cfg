\* Two collections, two implementations and an address without code in their place,
\* an owner that is a contract, an outsider, a custom symbol.
CONSTANTS
  Asset = {a1, a2}
  Account = {c1, u1}
  Admin = {c1}
  Impl = {i1, i2, i3}
  Code = {a1, a2, i1, i2, c1}
  NoAddr = noaddr
  Symbol = {s1}
  NoSymbol = nosymbol
  DelegateRegistry = {d1}
  MaxDepth = 2
\* Once both collections are bound and the owners are gone nothing is left to do.
CHECK_DEADLOCK FALSE
SPECIFICATION Spec
INVARIANTS TypeOK OneBnftPerAsset ImplsInStep
PROPERTIES RenouncedFreezes

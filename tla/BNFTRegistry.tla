--------------------------- MODULE BNFTRegistry ---------------------------
(***************************************************************************)
(* The registry (src/contracts/protocol/BNFTRegistry.sol) and the bNFT     *)
(* proxies it creates and administers.  Anybody may create the bNFT of a   *)
(* collection; the owner chooses implementations.  An upgrade may carry a  *)
(* call that the proxy runs in its new implementation: code that hands     *)
(* control to contracts, the registry's owner among them, before the       *)
(* registry has recorded the upgrade.                                      *)
(***************************************************************************)
EXTENDS Integers, Sequences, FiniteSets

CONSTANTS Asset,            \* addresses given as underlying collection
          Account,          \* callers
          Admin,            \* accounts the roles are handed to
          Impl,             \* addresses given as bNFT implementation
          Code,             \* the addresses above that are contracts
          NoAddr,           \* address(0)
          Symbol,           \* custom symbols
          NoSymbol,         \* the empty string: no custom symbol
          DelegateRegistry, \* delegate cash contracts the owner may configure
          MaxDepth          \* bound: nested upgrade calls

ASSUME NoAddrFresh == NoAddr \notin Asset \cup Account \cup Impl \cup Code
ASSUME AdminsAreAccounts == Admin \subseteq Account
ASSUME DepthIsNat == MaxDepth \in Nat

VARIABLES bNftProxys,      \* asset -> its proxy, 0 if none
          bNftImpls,       \* asset -> implementation on record, NoAddr if none
          bNftAssetLists,  \* assets in the order of creation
          bNftGenericImpl,
          customSymbols,   \* asset -> symbol, NoSymbol if none
          owner,           \* of the registry (OwnableUpgradeable)
          claimAdmin,      \* _claimAdmin
          delegateCash,    \* _delegateCashContract and _delegateCashContractV2
          status,          \* _status, the reentrancy guard
          bNFT,            \* the proxies this registry deployed; a proxy is its index
          stack            \* upgrade calls in progress, the innermost last

records  == <<bNftProxys, bNftImpls, bNftAssetLists>>
roles    == <<owner, claimAdmin>>
settings == <<bNftGenericImpl, customSymbols, delegateCash>>
vars     == <<records, settings, roles, status, bNFT, stack>>

NotEntered == 0
Entered    == 1

\* What a proxy stores that the registry gave it or may change.
Bnfts == [ underlying : Asset,
           impl       : Impl,
           owner      : Admin \cup {NoAddr},
           claimAdmin : Admin,
           symbol     : Symbol \cup {NoSymbol} ]

\* Everything a reverted call gives back.
World == [ proxys  |-> bNftProxys,
           impls   |-> bNftImpls,
           list    |-> bNftAssetLists,
           generic |-> bNftGenericImpl,
           symbols |-> customSymbols,
           owner   |-> owner,
           admin   |-> claimAdmin,
           cash    |-> delegateCash,
           status  |-> status,
           bNFT    |-> bNFT ]

Worlds == [ proxys  : [Asset -> Nat],
            impls   : [Asset -> Impl \cup {NoAddr}],
            list    : Seq(Asset),
            generic : Impl,
            symbols : [Asset -> Symbol \cup {NoSymbol}],
            owner   : Admin \cup {NoAddr},
            admin   : Admin,
            cash    : [{"V1", "V2"} -> DelegateRegistry \cup {NoAddr}],
            status  : {NotEntered, Entered},
            bNFT    : Seq(Bnfts) ]

Frames == [asset : Asset, impl : Impl, saved : Worlds]

\* The deployer is owner and claim admin; the implementation is any address but zero.
Init == /\ bNftProxys = [a \in Asset |-> 0]
        /\ bNftImpls = [a \in Asset |-> NoAddr]
        /\ bNftAssetLists = <<>>
        /\ bNftGenericImpl \in Impl
        /\ customSymbols = [a \in Asset |-> NoSymbol]
        /\ owner \in Admin
        /\ claimAdmin = owner
        /\ delegateCash = [v \in {"V1", "V2"} |-> NoAddr]
        /\ status = NotEntered
        /\ bNFT = <<>>
        /\ stack = <<>>
-----------------------------------------------------------------------------
Top == stack[Len(stack)]

\* In the middle of a transaction only contracts call.
Sender == IF stack = <<>> THEN Account ELSE Account \cap Code

\* Mutant: the modifier is missing.
NonReentrantMissing == TRUE
NonReentrant == status # Entered

RequireAddressIsERC721(asset) == asset # NoAddr /\ asset \in Code

\* Mutant: the check for a bNFT of the same collection is missing.
AssetFreeMissing(asset) == TRUE
AssetFree(asset) == bNftProxys[asset] = 0

\* Mutant: the creator of the bNFT becomes its owner.
NewBnftOfCreator(sender, asset, impl) ==
    [underlying |-> asset, impl |-> impl, owner |-> sender,
     claimAdmin |-> claimAdmin, symbol |-> customSymbols[asset]]
\* The proxy as initialize leaves it.
NewBnft(sender, asset, impl) ==
    [underlying |-> asset, impl |-> impl, owner |-> owner,
     claimAdmin |-> claimAdmin, symbol |-> customSymbols[asset]]

\* Deploys the proxy and records it; the deployment fails if impl has no code.
CreateProxyAndInitWithImpl(sender, asset, impl) ==
    /\ impl \in Code
    /\ bNFT' = Append(bNFT, NewBnft(sender, asset, impl))
    /\ bNftProxys' = [bNftProxys EXCEPT ![asset] = Len(bNFT) + 1]
    /\ bNftImpls' = [bNftImpls EXCEPT ![asset] = impl]
    /\ bNftAssetLists' = Append(bNftAssetLists, asset)
    /\ status' = NotEntered
    /\ UNCHANGED <<settings, roles, stack>>

CreateBNFT(sender, asset) ==
    /\ NonReentrant
    /\ RequireAddressIsERC721(asset)
    /\ AssetFree(asset)
    /\ CreateProxyAndInitWithImpl(sender, asset, bNftGenericImpl)

CreateBNFTWithImpl(sender, asset, impl) ==
    /\ NonReentrant
    /\ sender = owner
    /\ RequireAddressIsERC721(asset)
    /\ AssetFree(asset)
    /\ CreateProxyAndInitWithImpl(sender, asset, impl)

SetBNFTGenericImpl(sender, impl) ==
    /\ NonReentrant
    /\ sender = owner
    /\ bNftGenericImpl' = impl
    /\ status' = NotEntered
    /\ UNCHANGED <<records, customSymbols, delegateCash, roles, bNFT, stack>>
-----------------------------------------------------------------------------
(* Upgrades. *)

\* Mutant: anybody upgrades.
AnybodyUpgrades(sender) == sender \in Account
MayUpgrade(sender) == sender = owner

\* The proxies of the assets after upgradeTo.
Upgraded(assets, impl) ==
    [p \in 1..Len(bNFT) |-> IF \E a \in assets : bNftProxys[a] = p
                               THEN [bNFT[p] EXCEPT !.impl = impl]
                               ELSE bNFT[p]]

Recorded(assets, impl) == [a \in Asset |-> IF a \in assets THEN impl ELSE bNftImpls[a]]

\* upgradeTo for every asset, or for none: one that has no bNFT fails them all.
UpgradeTo(assets, impl) ==
    /\ impl \in Code
    /\ \A a \in assets : bNftProxys[a] # 0
    /\ bNFT' = Upgraded(assets, impl)
    /\ bNftImpls' = Recorded(assets, impl)
    /\ status' = NotEntered
    /\ UNCHANGED <<bNftProxys, bNftAssetLists, settings, roles, stack>>

\* upgradeBNFTWithImpl without call data.
UpgradeBNFTWithImpl(sender, asset, impl) ==
    /\ NonReentrant
    /\ MayUpgrade(sender)
    /\ UpgradeTo({asset}, impl)

BatchUpgradeBNFT(sender, assets) ==
    /\ NonReentrant
    /\ MayUpgrade(sender)
    /\ assets # {}
    /\ UpgradeTo(assets, bNftGenericImpl)

\* An empty registry is upgraded with no effect, whatever the implementation is.
BatchUpgradeAllBNFT(sender) ==
    /\ NonReentrant
    /\ MayUpgrade(sender)
    /\ IF bNftAssetLists = <<>>
         THEN status' = NotEntered /\ UNCHANGED <<records, settings, roles, bNFT, stack>>
         ELSE UpgradeTo({bNftAssetLists[i] : i \in 1..Len(bNftAssetLists)}, bNftGenericImpl)

\* upgradeBNFTWithImpl with call data: the proxy switches, then runs the call.
UpgradeAndCall(sender, asset, impl) ==
    /\ NonReentrant
    /\ MayUpgrade(sender)
    /\ bNftProxys[asset] # 0
    /\ impl \in Code
    /\ Len(stack) < MaxDepth
    /\ bNFT' = Upgraded({asset}, impl)
    /\ status' = Entered
    /\ stack' = Append(stack, [asset |-> asset, impl |-> impl, saved |-> World])
    /\ UNCHANGED <<records, settings, roles>>

\* The call returns and the registry records the implementation.
UpgradeReturns ==
    /\ stack # <<>>
    /\ bNftImpls' = [bNftImpls EXCEPT ![Top.asset] = Top.impl]
    /\ status' = NotEntered
    /\ stack' = SubSeq(stack, 1, Len(stack) - 1)
    /\ UNCHANGED <<bNftProxys, bNftAssetLists, settings, roles, bNFT>>

UpgradeReverts ==
    /\ stack # <<>>
    /\ stack' = SubSeq(stack, 1, Len(stack) - 1)
    /\ LET w == Top.saved IN
         /\ bNftProxys' = w.proxys
         /\ bNftImpls' = w.impls
         /\ bNftAssetLists' = w.list
         /\ bNftGenericImpl' = w.generic
         /\ customSymbols' = w.symbols
         /\ owner' = w.owner
         /\ claimAdmin' = w.admin
         /\ delegateCash' = w.cash
         /\ status' = w.status
         /\ bNFT' = w.bNFT
-----------------------------------------------------------------------------
(* Settings and roles. *)

AddCustomeSymbols(sender, asset, symbol) ==
    /\ NonReentrant
    /\ sender = owner
    /\ customSymbols' = [customSymbols EXCEPT ![asset] = symbol]
    /\ status' = NotEntered
    /\ UNCHANGED <<records, bNftGenericImpl, delegateCash, roles, bNFT, stack>>

\* The functions below carry no guard.
SetDelegateCashContract(sender, version, registry) ==
    /\ sender = owner
    /\ delegateCash' = [delegateCash EXCEPT ![version] = registry]
    /\ UNCHANGED <<records, bNftGenericImpl, customSymbols, roles, status, bNFT, stack>>

SetClaimAdmin(sender, newAdmin) ==
    /\ sender = owner
    /\ claimAdmin' = newAdmin
    /\ UNCHANGED <<records, settings, owner, status, bNFT, stack>>

TransferOwnership(sender, newOwner) ==
    /\ sender = owner
    /\ owner' = newOwner
    /\ UNCHANGED <<records, settings, claimAdmin, status, bNFT, stack>>

RenounceOwnership(sender) ==
    /\ sender = owner
    /\ owner' = NoAddr
    /\ UNCHANGED <<records, settings, claimAdmin, status, bNFT, stack>>

\* Roles of one bNFT, which its own owner hands on or renounces.
SetBnftOwner(sender, p, newOwner) ==
    /\ sender = bNFT[p].owner
    /\ bNFT' = [bNFT EXCEPT ![p].owner = newOwner]
    /\ UNCHANGED <<records, settings, roles, status, stack>>

SetBnftClaimAdmin(sender, p, newAdmin) ==
    /\ sender = bNFT[p].owner
    /\ bNFT' = [bNFT EXCEPT ![p].claimAdmin = newAdmin]
    /\ UNCHANGED <<records, settings, roles, status, stack>>
-----------------------------------------------------------------------------
Create(sender) ==
    \E a \in Asset : \/ CreateBNFT(sender, a)
                     \/ \E i \in Impl : CreateBNFTWithImpl(sender, a, i)

Upgrade(sender) ==
    \/ \E a \in Asset, i \in Impl :
         UpgradeBNFTWithImpl(sender, a, i) \/ UpgradeAndCall(sender, a, i)
    \/ \E assets \in SUBSET Asset : BatchUpgradeBNFT(sender, assets)
    \/ BatchUpgradeAllBNFT(sender)

Configure(sender) ==
    \/ \E i \in Impl : SetBNFTGenericImpl(sender, i)
    \/ \E a \in Asset, s \in Symbol \cup {NoSymbol} : AddCustomeSymbols(sender, a, s)
    \/ \E v \in {"V1", "V2"}, r \in DelegateRegistry : SetDelegateCashContract(sender, v, r)

HandOn(sender) ==
    \/ \E a \in Admin : TransferOwnership(sender, a) \/ SetClaimAdmin(sender, a)
    \/ RenounceOwnership(sender)
    \/ \E p \in 1..Len(bNFT) :
         \/ \E a \in Admin \cup {NoAddr} : SetBnftOwner(sender, p, a)
         \/ \E a \in Admin : SetBnftClaimAdmin(sender, p, a)

Next == \/ \E sender \in Sender : Create(sender) \/ Upgrade(sender) \/ Configure(sender) \/ HandOn(sender)
        \/ UpgradeReturns
        \/ UpgradeReverts

Spec == Init /\ [][Next]_vars
-----------------------------------------------------------------------------
(* Properties. *)

\* Every variable has its type.  Creating a bNFT, which anybody may do, makes
\* nobody an owner or claim admin: these are accounts an owner chose, or none
\* (the init parameters, BNFTRegistry.sol:265-273).
TypeOK ==
    /\ World \in Worlds
    /\ stack \in Seq(Frames)

\* The proxy map and the list of assets say the same, and each collection has
\* one bNFT: its i-th entry is the i-th proxy, which binds that collection
\* (createBNFT and createBNFTWithImpl, BNFTRegistry.sol:106-143, 245-255).
OneBnftPerAsset ==
    /\ Len(bNftAssetLists) = Len(bNFT)
    /\ \A i \in 1..Len(bNFT) :
         /\ bNftProxys[bNftAssetLists[i]] = i
         /\ bNFT[i].underlying = bNftAssetLists[i]
    /\ \A a \in Asset : bNftProxys[a] # 0 =>
         \E i \in 1..Len(bNFT) : bNftAssetLists[i] = a

\* getBNFTAddresses tells the implementation a proxy really has, except for an
\* asset whose upgrade call is running: there the call may come back to the
\* registry's owner, and only the guard keeps a second upgrade out, after
\* which the first would record its stale implementation (BNFTRegistry.sol:166-172).
ImplsInStep ==
    \A a \in Asset :
        bNftProxys[a] # 0 /\ (\A d \in 1..Len(stack) : stack[d].asset # a) =>
            bNFT[bNftProxys[a]].impl = bNftImpls[a]

\* What the chain will remember: the state before the outermost open call.
Committed == IF stack = <<>> THEN World ELSE stack[1].saved

\* A renounced registry is frozen: no owner ever again, no change of its claim
\* admin or generic implementation, and no bNFT changes its code, although
\* anybody can still create one (OwnableUpgradeable; BNFTRegistry.sol:106, 148-189).
RenouncedFreezes == [][
    Committed.owner = NoAddr =>
        /\ Committed'.owner = NoAddr
        /\ Committed'.admin = Committed.admin
        /\ Committed'.generic = Committed.generic
        /\ \A p \in 1..Len(Committed.bNFT) : Committed'.bNFT[p].impl = Committed.bNFT[p].impl ]_vars
=============================================================================

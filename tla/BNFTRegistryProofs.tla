------------------------- MODULE BNFTRegistryProofs -------------------------
(***************************************************************************)
(* Safety of the registry for every set of collections, accounts and       *)
(* implementations.  The invariant has two layers: the upgrade call in     *)
(* progress (Control), and the registry's records against its proxies      *)
(* (Book), which hold of the state a revert would restore as well.         *)
(***************************************************************************)
EXTENDS BNFTRegistry, StackLemmas

\* The only upgrade call in progress, if there is one.
Frame == stack[1]
Idle == stack = <<>>

\* The guard is up exactly during an upgrade call, which is the only one.
Guarded ==
    /\ Len(stack) <= 1
    /\ status = Entered <=> ~Idle
    /\ ~Idle => Frame.saved.status = NotEntered

Control == TypeOK /\ Guarded

\* The list of assets, the proxy map and the proxies agree.
ListSound(proxys, list, b) ==
    /\ Len(list) = Len(b)
    /\ \A i \in 1..Len(b) : proxys[list[i]] = i /\ b[i].underlying = list[i]
    /\ \A a \in Asset : proxys[a] # 0 => \E i \in 1..Len(b) : list[i] = a

\* The proxies of the assets run the implementations on record.
InStep(proxys, impls, b, assets) == \A a \in assets : proxys[a] # 0 => b[proxys[a]].impl = impls[a]

Book ==
    /\ ListSound(bNftProxys, bNftAssetLists, bNFT)
    /\ InStep(bNftProxys, bNftImpls, bNFT, {a \in Asset : Idle \/ a # Frame.asset})
    /\ ~Idle =>
         /\ bNftProxys[Frame.asset] # 0
         /\ bNFT[bNftProxys[Frame.asset]].impl = Frame.impl
         /\ ListSound(Frame.saved.proxys, Frame.saved.list, Frame.saved.bNFT)
         /\ InStep(Frame.saved.proxys, Frame.saved.impls, Frame.saved.bNFT, Asset)
-----------------------------------------------------------------------------
(* Fields and frames. *)

\* The type of the state, field by field.
LEMMA WorldFields ==
    World \in Worlds <=>
      /\ bNftProxys \in [Asset -> Nat]
      /\ bNftImpls \in [Asset -> Impl \cup {NoAddr}]
      /\ bNftAssetLists \in Seq(Asset)
      /\ bNftGenericImpl \in Impl
      /\ customSymbols \in [Asset -> Symbol \cup {NoSymbol}]
      /\ owner \in Admin \cup {NoAddr}
      /\ claimAdmin \in Admin
      /\ delegateCash \in [{"V1", "V2"} -> DelegateRegistry \cup {NoAddr}]
      /\ status \in {NotEntered, Entered}
      /\ bNFT \in Seq(Bnfts)
  BY DEF World, Worlds

\* With the guard down no upgrade call is in progress.
LEMMA GuardDown ==
    ASSUME Control, NonReentrant
    PROVE  Idle /\ status = NotEntered
  BY WorldFields DEF Control, TypeOK, Guarded, NonReentrant, Idle, NotEntered, Entered

\* An upgrade call in progress is the only one.
LEMMA OpenCall ==
    ASSUME Control, ~Idle
    PROVE  Len(stack) = 1 /\ Top = Frame /\ Frame \in Frames /\ status = Entered
  BY EmptyOrOne DEF Control, TypeOK, Guarded, Idle, Top, Frame

\* Control is kept by a step that keeps the types and leaves the call alone.
LEMMA ControlFrame ==
    ASSUME Control, (World \in Worlds)', UNCHANGED <<stack, status>>
    PROVE  Control'
  BY DEF Control, TypeOK, Guarded, Idle, Frame

\* The new length and entries of an array that one entry is appended to.
LEMMA AppendFacts ==
    ASSUME NEW S, NEW s \in Seq(S), NEW e \in S
    PROVE  /\ Append(s, e) \in Seq(S)
           /\ Len(Append(s, e)) = Len(s) + 1
           /\ Len(s) \in Nat
           /\ \A i \in 1..Len(s) : Append(s, e)[i] = s[i]
           /\ Append(s, e)[Len(s) + 1] = e
  OBVIOUS

\* Upgraded proxies are the old ones but for their implementation.
LEMMA UpgradedFacts ==
    ASSUME Control, NEW assets \in SUBSET Asset, NEW impl \in Impl
    PROVE  /\ Upgraded(assets, impl) \in Seq(Bnfts)
           /\ Len(Upgraded(assets, impl)) = Len(bNFT)
           /\ \A p \in 1..Len(bNFT) :
                /\ Upgraded(assets, impl)[p].underlying = bNFT[p].underlying
                /\ (\E a \in assets : bNftProxys[a] = p) => Upgraded(assets, impl)[p].impl = impl
                /\ (\A a \in assets : bNftProxys[a] # p) => Upgraded(assets, impl)[p] = bNFT[p]
  <1>1. bNFT \in Seq(Bnfts) /\ Len(bNFT) \in Nat
    BY WorldFields, LenProperties DEF Control, TypeOK
  <1>2. \A p \in 1..Len(bNFT) : bNFT[p] \in Bnfts
    BY <1>1, ElementOfSeq
  <1>3. \A p \in 1..Len(bNFT) :
           /\ [bNFT[p] EXCEPT !.impl = impl] \in Bnfts
           /\ [bNFT[p] EXCEPT !.impl = impl].impl = impl
           /\ [bNFT[p] EXCEPT !.impl = impl].underlying = bNFT[p].underlying
    BY <1>2 DEF Bnfts
  <1>4. Upgraded(assets, impl) \in [1..Len(bNFT) -> Bnfts]
    BY <1>2, <1>3 DEF Upgraded
  <1>5. Upgraded(assets, impl) \in Seq(Bnfts) /\ Len(Upgraded(assets, impl)) = Len(bNFT)
    BY <1>1, <1>4
  <1> QED
    BY <1>3, <1>5 DEF Upgraded

\* Giving a bNFT's role to somebody else changes nothing the registry relies on.
LEMMA BnftRoleFacts ==
    ASSUME Control, NEW p \in 1..Len(bNFT), NEW a \in Admin \cup {NoAddr}, NEW b,
           \/ b = [bNFT EXCEPT ![p].owner = a]
           \/ a # NoAddr /\ b = [bNFT EXCEPT ![p].claimAdmin = a]
    PROVE  /\ b \in Seq(Bnfts)
           /\ Len(b) = Len(bNFT)
           /\ \A q \in 1..Len(bNFT) : b[q].underlying = bNFT[q].underlying /\ b[q].impl = bNFT[q].impl
  <1>1. bNFT \in Seq(Bnfts) /\ bNFT[p] \in Bnfts
    BY WorldFields, ElementOfSeq DEF Control, TypeOK
  <1> DEFINE x == [bNFT[p] EXCEPT !.owner = a]
             y == [bNFT[p] EXCEPT !.claimAdmin = a]
  <1>2. x \in Bnfts /\ x.underlying = bNFT[p].underlying /\ x.impl = bNFT[p].impl
    BY <1>1 DEF Bnfts
  <1>3. a # NoAddr => y \in Bnfts /\ y.underlying = bNFT[p].underlying /\ y.impl = bNFT[p].impl
    BY <1>1 DEF Bnfts
  <1>4. b = [bNFT EXCEPT ![p] = x] \/ (a # NoAddr /\ b = [bNFT EXCEPT ![p] = y])
    OBVIOUS
  <1> HIDE DEF x, y
  <1>5. PICK e \in Bnfts : /\ b = [bNFT EXCEPT ![p] = e]
                           /\ e.underlying = bNFT[p].underlying /\ e.impl = bNFT[p].impl
    BY <1>2, <1>3, <1>4
  <1> QED
    BY <1>1, <1>5, ExceptSeq

\* The record of a new proxy.
LEMMA NewBnftFacts ==
    ASSUME Control, NEW sender, NEW a \in Asset, NEW impl \in Impl
    PROVE  LET e == NewBnft(sender, a, impl) IN e \in Bnfts /\ e.underlying = a /\ e.impl = impl
  BY WorldFields DEF Control, TypeOK, NewBnft, Bnfts
-----------------------------------------------------------------------------
(* Control: types and the reentrancy guard, action by action. *)

LEMMA ControlCreate ==
    ASSUME Control, NEW sender, NEW a \in Asset, NEW impl \in Impl, NonReentrant,
           CreateProxyAndInitWithImpl(sender, a, impl)
    PROVE  Control'
  <1>1. bNFT' \in Seq(Bnfts) /\ Len(bNFT) \in Nat
    BY WorldFields, NewBnftFacts, AppendFacts DEF Control, TypeOK, CreateProxyAndInitWithImpl
  <1>2. bNftAssetLists' \in Seq(Asset)
    BY WorldFields, AppendFacts DEF Control, TypeOK, CreateProxyAndInitWithImpl
  <1>3. bNftProxys' \in [Asset -> Nat] /\ bNftImpls' \in [Asset -> Impl \cup {NoAddr}]
    BY <1>1, WorldFields DEF Control, TypeOK, CreateProxyAndInitWithImpl
  <1>4. (World \in Worlds)'
    BY <1>1, <1>2, <1>3, WorldFields
       DEF CreateProxyAndInitWithImpl, settings, roles, Control, TypeOK, World, Worlds
  <1> QED
    BY <1>4, GuardDown, ControlFrame DEF CreateProxyAndInitWithImpl

LEMMA ControlUpgradeTo ==
    ASSUME Control, NonReentrant, NEW assets \in SUBSET Asset, NEW impl \in Impl, UpgradeTo(assets, impl)
    PROVE  Control'
  <1>1. bNFT' \in Seq(Bnfts)
    BY UpgradedFacts DEF UpgradeTo
  <1>2. bNftImpls' \in [Asset -> Impl \cup {NoAddr}]
    BY WorldFields DEF UpgradeTo, Recorded, Control, TypeOK
  <1>3. (World \in Worlds)'
    BY <1>1, <1>2, WorldFields DEF UpgradeTo, settings, roles, Control, TypeOK, World, Worlds
  <1> QED
    BY <1>3, GuardDown, ControlFrame DEF UpgradeTo

\* An upgrade call opens the one frame, which keeps the state at the call.
LEMMA Opens ==
    ASSUME Control, NEW sender, NEW a \in Asset, NEW impl \in Impl, UpgradeAndCall(sender, a, impl)
    PROVE  /\ Idle /\ ~Idle' /\ Len(stack') = 1
           /\ stack' \in Seq(Frames)
           /\ Frame' = [asset |-> a, impl |-> impl, saved |-> World]
           /\ World.status = NotEntered
  <1> DEFINE f == [asset |-> a, impl |-> impl, saved |-> World]
  <1>1. Idle /\ World.status = NotEntered
    BY GuardDown DEF UpgradeAndCall, World
  <1>2. f \in Frames
    BY DEF Frames, Control, TypeOK
  <1>3. stack' = Append(<<>>, f)
    BY <1>1 DEF UpgradeAndCall, Idle
  <1> HIDE DEF f
  <1>4. stack' \in Seq(Frames) /\ Len(stack') = 1 /\ stack' # <<>> /\ stack'[1] = f
    BY <1>2, <1>3, PushOne
  <1> QED
    BY <1>1, <1>4 DEF Idle, Frame, f

LEMMA ControlUpgradeAndCall ==
    ASSUME Control, NEW sender, NEW a \in Asset, NEW impl \in Impl, UpgradeAndCall(sender, a, impl)
    PROVE  Control'
  <1>1. bNFT' \in Seq(Bnfts)
    BY UpgradedFacts DEF UpgradeAndCall
  <1>2. (World \in Worlds)'
    BY <1>1, WorldFields DEF UpgradeAndCall, records, settings, roles, Control, TypeOK, World, Worlds
  <1>3. Frame'.saved.status = NotEntered
    <2>1. Frame'.saved = World
      BY Opens
    <2> QED
      BY <2>1, Opens
  <1>4. ~Idle' /\ Len(stack') = 1 /\ stack' \in Seq(Frames) /\ status' = Entered
    BY Opens DEF UpgradeAndCall
  <1> QED
    BY <1>2, <1>3, <1>4 DEF Control, TypeOK, Guarded

\* An upgrade call that ends leaves none.
LEMMA Closes ==
    ASSUME Control, UpgradeReturns \/ UpgradeReverts
    PROVE  /\ ~Idle /\ Idle' /\ stack' \in Seq(Frames) /\ Len(stack') = 0
           /\ Top = Frame /\ Frame \in Frames
  BY OpenCall, PopOne DEF UpgradeReturns, UpgradeReverts, Control, TypeOK, Idle

LEMMA ControlUpgradeReturns ==
    ASSUME Control, UpgradeReturns
    PROVE  Control'
  <1>1. bNftImpls' \in [Asset -> Impl \cup {NoAddr}]
    BY Closes, WorldFields DEF UpgradeReturns, Frames, Control, TypeOK
  <1>2. (World \in Worlds)'
    BY <1>1, WorldFields DEF UpgradeReturns, settings, roles, Control, TypeOK, World, Worlds
  <1> QED
    BY <1>2, Closes DEF UpgradeReturns, Control, TypeOK, Guarded, NotEntered, Entered

LEMMA ControlUpgradeReverts ==
    ASSUME Control, UpgradeReverts
    PROVE  Control'
  <1>1. Frame.saved \in Worlds /\ Frame.saved.status = NotEntered
    BY Closes DEF Frames, Control, Guarded
  <1>2. (World \in Worlds)' /\ status' = NotEntered
    BY <1>1, Closes DEF UpgradeReverts, World, Worlds
  <1> QED
    BY <1>2, Closes DEF Control, TypeOK, Guarded, NotEntered, Entered

LEMMA ControlConfigure ==
    ASSUME Control, NEW sender, Configure(sender)
    PROVE  Control'
  <1>1. ASSUME NEW i \in Impl, SetBNFTGenericImpl(sender, i) PROVE Control'
    <2>1. (World \in Worlds)'
      BY <1>1, WorldFields
         DEF SetBNFTGenericImpl, records, roles, Control, TypeOK, World, Worlds
    <2> QED
      BY <1>1, <2>1, GuardDown, ControlFrame DEF SetBNFTGenericImpl
  <1>2. ASSUME NEW a \in Asset, NEW s \in Symbol \cup {NoSymbol}, AddCustomeSymbols(sender, a, s) PROVE Control'
    <2>1. (World \in Worlds)'
      BY <1>2, WorldFields
         DEF AddCustomeSymbols, records, roles, Control, TypeOK, World, Worlds
    <2> QED
      BY <1>2, <2>1, GuardDown, ControlFrame DEF AddCustomeSymbols
  <1>3. ASSUME NEW v \in {"V1", "V2"}, NEW r \in DelegateRegistry, SetDelegateCashContract(sender, v, r)
        PROVE  Control'
    <2>1. (World \in Worlds)'
      BY <1>3, WorldFields
         DEF SetDelegateCashContract, records, roles, Control, TypeOK, World, Worlds
    <2> QED
      BY <1>3, <2>1, ControlFrame DEF SetDelegateCashContract
  <1> QED
    BY <1>1, <1>2, <1>3 DEF Configure

LEMMA ControlHandOn ==
    ASSUME Control, NEW sender, HandOn(sender)
    PROVE  Control'
  <1>1. bNFT' \in Seq(Bnfts)
    BY WorldFields, BnftRoleFacts, NoAddrFresh, AdminsAreAccounts
       DEF HandOn, TransferOwnership, SetClaimAdmin, RenounceOwnership, SetBnftOwner, SetBnftClaimAdmin,
           Control, TypeOK
  <1>2. (World \in Worlds)'
    BY <1>1, WorldFields
       DEF HandOn, TransferOwnership, SetClaimAdmin, RenounceOwnership, SetBnftOwner, SetBnftClaimAdmin,
           records, settings, roles, Control, TypeOK, World, Worlds
  <1> QED
    BY <1>2, ControlFrame
       DEF HandOn, TransferOwnership, SetClaimAdmin, RenounceOwnership, SetBnftOwner, SetBnftClaimAdmin

\* Types, and the guard: at most one upgrade call is in progress, exactly while
\* the guard is up.
THEOREM ControlInvariant == Spec => []Control
  <1>1. Init => Control
    <2> SUFFICES ASSUME Init PROVE Control
      OBVIOUS
    <2>1. World \in Worlds
      BY WorldFields DEF Init
    <2> QED
      BY <2>1 DEF Init, Control, TypeOK, Guarded, Idle, NotEntered, Entered
  <1>2. Control /\ [Next]_vars => Control'
    <2> SUFFICES ASSUME Control, [Next]_vars PROVE Control'
      OBVIOUS
    <2>1. ASSUME NEW sender \in Sender, Create(sender) PROVE Control'
      BY <2>1, ControlCreate, WorldFields
         DEF Create, CreateBNFT, CreateBNFTWithImpl, Control, TypeOK
    <2>2. ASSUME NEW sender \in Sender, Upgrade(sender) PROVE Control'
      <3>1. bNftGenericImpl \in Impl /\ bNftAssetLists \in Seq(Asset)
        BY WorldFields DEF Control, TypeOK
      <3>2. {bNftAssetLists[i] : i \in 1..Len(bNftAssetLists)} \in SUBSET Asset
        BY <3>1, ElementOfSeq
      <3>3. ASSUME NEW a \in Asset, NEW i \in Impl, UpgradeBNFTWithImpl(sender, a, i) PROVE Control'
        BY <3>3, ControlUpgradeTo DEF UpgradeBNFTWithImpl
      <3>4. ASSUME NEW assets \in SUBSET Asset, BatchUpgradeBNFT(sender, assets) PROVE Control'
        BY <3>1, <3>4, ControlUpgradeTo DEF BatchUpgradeBNFT
      <3>5. ASSUME BatchUpgradeAllBNFT(sender) PROVE Control'
        <4>1. CASE bNftAssetLists = <<>>
          <5>1. UNCHANGED <<World, stack>> /\ status' = NotEntered
            BY <3>5, <4>1, GuardDown DEF BatchUpgradeAllBNFT, World, records, settings, roles
          <5>2. (World \in Worlds)'
            BY <5>1 DEF Control, TypeOK
          <5>3. status = NotEntered
            BY <3>5, GuardDown DEF BatchUpgradeAllBNFT
          <5> QED
            BY <5>1, <5>2, <5>3, ControlFrame
        <4> QED
          BY <3>1, <3>2, <3>5, <4>1, ControlUpgradeTo DEF BatchUpgradeAllBNFT
      <3> QED
        BY <2>2, <3>3, <3>4, <3>5, ControlUpgradeAndCall DEF Upgrade
    <2>3. CASE UNCHANGED vars
      BY <2>3 DEF vars, records, settings, roles, Control, TypeOK, Guarded, Idle, Frame, World
    <2> QED
      BY <2>1, <2>2, <2>3, ControlConfigure, ControlHandOn, ControlUpgradeReturns, ControlUpgradeReverts
         DEF Next
  <1> QED
    BY <1>1, <1>2, PTL DEF Spec

\* Every variable keeps its type, and no role goes to anybody but the accounts
\* the owners chose.
THEOREM TypeCorrect == Spec => []TypeOK
  <1>1. Control => TypeOK
    BY DEF Control
  <1> QED
    BY <1>1, ControlInvariant, PTL
-----------------------------------------------------------------------------
(* Book: the records against the proxies. *)

\* A proxy on record is the entry of its asset, so two assets never share one.
LEMMA ProxyOf ==
    ASSUME NEW proxys, NEW list, NEW b, ListSound(proxys, list, b), NEW a \in Asset, proxys[a] # 0
    PROVE  proxys[a] \in 1..Len(b) /\ list[proxys[a]] = a
  BY DEF ListSound

\* A new asset at the end of the list, its proxy at the end of the proxies.
LEMMA ListAppend ==
    ASSUME NEW proxys \in [Asset -> Nat], NEW list \in Seq(Asset), NEW b \in Seq(Bnfts),
           ListSound(proxys, list, b),
           NEW a \in Asset, proxys[a] = 0, NEW e \in Bnfts, e.underlying = a
    PROVE  ListSound([proxys EXCEPT ![a] = Len(b) + 1], Append(list, a), Append(b, e))
  <1> DEFINE px == [proxys EXCEPT ![a] = Len(b) + 1]
             l == Append(list, a)
             c == Append(b, e)
  <1>1. Len(l) = Len(b) + 1 /\ Len(c) = Len(b) + 1 /\ Len(b) \in Nat
    BY AppendFacts DEF ListSound
  <1>2. ASSUME NEW i \in 1..Len(b)
        PROVE  list[i] \in Asset /\ list[i] # a /\ l[i] = list[i] /\ c[i] = b[i]
    BY <1>2, AppendFacts, ElementOfSeq DEF ListSound
  <1>3. l[Len(b) + 1] = a /\ c[Len(b) + 1] = e
    BY AppendFacts DEF ListSound
  <1>4. \A x \in Asset : px[x] = IF x = a THEN Len(b) + 1 ELSE proxys[x]
    OBVIOUS
  <1> HIDE DEF px, l, c
  <1>5. ASSUME NEW i \in 1..Len(c) PROVE px[l[i]] = i /\ c[i].underlying = l[i]
    <2>1. CASE i \in 1..Len(b)
      BY <1>2, <1>4, <2>1 DEF ListSound
    <2>2. CASE i = Len(b) + 1
      BY <1>3, <1>4, <2>2
    <2> QED
      BY <1>1, <1>5, <2>1, <2>2
  <1>6. ASSUME NEW x \in Asset, px[x] # 0 PROVE \E i \in 1..Len(c) : l[i] = x
    <2>1. CASE x = a
      BY <1>1, <1>3, <2>1
    <2>2. CASE x # a
      <3>1. PICK i \in 1..Len(b) : list[i] = x
        BY <1>4, <1>6, <2>2 DEF ListSound
      <3> QED
        BY <1>1, <1>2, <3>1
    <2> QED
      BY <2>1, <2>2
  <1>7. ListSound(px, l, c)
    BY <1>1, <1>5, <1>6 DEF ListSound
  <1> QED
    BY <1>7 DEF px, l, c

\* Only what a proxy binds matters to the list.
LEMMA ListSame ==
    ASSUME NEW proxys, NEW list, NEW b, NEW c, ListSound(proxys, list, b), Len(c) = Len(b),
           \A i \in 1..Len(b) : c[i].underlying = b[i].underlying
    PROVE  ListSound(proxys, list, c)
  BY DEF ListSound

\* Only which code a proxy runs matters to the implementations on record.
LEMMA InStepSame ==
    ASSUME NEW proxys, NEW list, NEW impls, NEW b, NEW c, NEW assets \in SUBSET Asset,
           ListSound(proxys, list, b), InStep(proxys, impls, b, assets),
           \A i \in 1..Len(b) : c[i].impl = b[i].impl
    PROVE  InStep(proxys, impls, c, assets)
  BY ProxyOf DEF InStep

\* A step that leaves the records and the upgrade call alone keeps the book, if
\* every proxy still binds the same asset and runs the same code.
LEMMA BookFrame ==
    ASSUME Control, Book, UNCHANGED <<records, stack>>, Len(bNFT') = Len(bNFT),
           \A i \in 1..Len(bNFT) : bNFT'[i].underlying = bNFT[i].underlying /\ bNFT'[i].impl = bNFT[i].impl
    PROVE  Book'
  <1>1. ListSound(bNftProxys, bNftAssetLists, bNFT')
    BY ListSame DEF Book
  <1> DEFINE assets == {a \in Asset : Idle \/ a # Frame.asset}
  <1>2. InStep(bNftProxys, bNftImpls, bNFT', assets)
    BY InStepSame DEF Book
  <1>3. ~Idle => Frame.asset \in Asset
    BY OpenCall DEF Frames
  <1>4. ~Idle => bNFT'[bNftProxys[Frame.asset]].impl = Frame.impl
    BY <1>3, ProxyOf DEF Book
  <1>5. /\ bNftProxys' = bNftProxys /\ bNftImpls' = bNftImpls /\ bNftAssetLists' = bNftAssetLists
        /\ Idle' = Idle /\ Frame' = Frame
    BY DEF records, Idle, Frame
  <1> QED
    BY <1>1, <1>2, <1>4, <1>5 DEF Book

\* With no upgrade call in progress the book is about the present state alone.
LEMMA BookIdle ==
    ASSUME Idle
    PROVE  Book <=> /\ ListSound(bNftProxys, bNftAssetLists, bNFT)
                    /\ InStep(bNftProxys, bNftImpls, bNFT, Asset)
  BY DEF Book, InStep

LEMMA BookIdleNext ==
    ASSUME Idle', ListSound(bNftProxys, bNftAssetLists, bNFT)',
           InStep(bNftProxys', bNftImpls', bNFT', Asset)
    PROVE  Book'
  BY DEF Book, InStep

LEMMA BookCreate ==
    ASSUME Control, Book, NonReentrant, NEW sender, NEW a \in Asset, NEW impl \in Impl, AssetFree(a),
           CreateProxyAndInitWithImpl(sender, a, impl)
    PROVE  Book'
  <1> DEFINE e == NewBnft(sender, a, impl)
  <1>1. Idle /\ Idle'
    BY GuardDown DEF CreateProxyAndInitWithImpl, Idle
  <1>2. ListSound(bNftProxys, bNftAssetLists, bNFT) /\ InStep(bNftProxys, bNftImpls, bNFT, Asset)
    BY <1>1, BookIdle
  <1>3. e \in Bnfts /\ e.underlying = a /\ e.impl = impl
    BY NewBnftFacts
  <1>4. /\ bNFT \in Seq(Bnfts) /\ bNftAssetLists \in Seq(Asset)
        /\ bNftProxys \in [Asset -> Nat] /\ bNftImpls \in [Asset -> Impl \cup {NoAddr}]
    BY WorldFields DEF Control, TypeOK
  <1>5. /\ bNFT' = Append(bNFT, e)
        /\ bNftProxys' = [bNftProxys EXCEPT ![a] = Len(bNFT) + 1]
        /\ bNftImpls' = [bNftImpls EXCEPT ![a] = impl]
        /\ bNftAssetLists' = Append(bNftAssetLists, a)
    BY DEF CreateProxyAndInitWithImpl
  <1> HIDE DEF e
  <1>6. ListSound(bNftProxys, bNftAssetLists, bNFT)'
    BY <1>2, <1>3, <1>4, <1>5, ListAppend DEF AssetFree
  <1>7. InStep(bNftProxys', bNftImpls', bNFT', Asset)
    <2> SUFFICES ASSUME NEW x \in Asset, bNftProxys'[x] # 0
                 PROVE  bNFT'[bNftProxys'[x]].impl = bNftImpls'[x]
      BY DEF InStep
    <2>1. CASE x = a
      BY <1>3, <1>4, <1>5, <2>1, AppendFacts
    <2>2. CASE x # a
      <3>1. bNftProxys'[x] = bNftProxys[x] /\ bNftImpls'[x] = bNftImpls[x]
        BY <1>4, <1>5, <2>2
      <3>2. bNftProxys[x] \in 1..Len(bNFT)
        BY <1>2, <3>1, ProxyOf
      <3>3. bNFT'[bNftProxys[x]] = bNFT[bNftProxys[x]]
        BY <1>3, <1>4, <1>5, <3>2, AppendFacts
      <3> QED
        BY <1>2, <3>1, <3>3 DEF InStep
    <2> QED
      BY <2>1, <2>2
  <1> QED
    BY <1>1, <1>6, <1>7, BookIdleNext

\* Upgraded proxies still bind what they bound, the ones of the assets run the
\* new code, and the others run what they ran.
LEMMA UpgradedBook ==
    ASSUME Control, ListSound(bNftProxys, bNftAssetLists, bNFT),
           NEW assets \in SUBSET Asset, NEW impl \in Impl
    PROVE  LET b == Upgraded(assets, impl) IN
           /\ ListSound(bNftProxys, bNftAssetLists, b)
           /\ InStep(bNftProxys, [a \in Asset |-> impl], b, assets)
           /\ \A a \in Asset \ assets : bNftProxys[a] # 0 => b[bNftProxys[a]] = bNFT[bNftProxys[a]]
  <1> DEFINE b == Upgraded(assets, impl)
  <1>0. /\ Len(b) = Len(bNFT)
        /\ \A p \in 1..Len(bNFT) :
             /\ b[p].underlying = bNFT[p].underlying
             /\ (\E a \in assets : bNftProxys[a] = p) => b[p].impl = impl
             /\ (\A a \in assets : bNftProxys[a] # p) => b[p] = bNFT[p]
    BY UpgradedFacts
  <1> HIDE DEF b
  <1>1. ListSound(bNftProxys, bNftAssetLists, b)
    BY <1>0, ListSame
  <1>2. ASSUME NEW a \in assets, bNftProxys[a] # 0 PROVE b[bNftProxys[a]].impl = impl
    <2>1. bNftProxys[a] \in 1..Len(bNFT)
      BY <1>2, ProxyOf
    <2> QED
      BY <1>0, <2>1
  <1>3. ASSUME NEW a \in Asset \ assets, bNftProxys[a] # 0
        PROVE  b[bNftProxys[a]] = bNFT[bNftProxys[a]]
    <2>1. bNftProxys[a] \in 1..Len(bNFT) /\ bNftAssetLists[bNftProxys[a]] = a
      BY <1>3, ProxyOf
    <2>2. \A x \in assets : bNftProxys[x] # bNftProxys[a]
      BY <1>3, <2>1, ProxyOf
    <2> QED
      BY <1>0, <2>1, <2>2
  <1> QED
    BY <1>1, <1>2, <1>3 DEF InStep, b

LEMMA BookUpgradeTo ==
    ASSUME Control, Book, NonReentrant, NEW assets \in SUBSET Asset, NEW impl \in Impl,
           UpgradeTo(assets, impl)
    PROVE  Book'
  <1>1. Idle /\ Idle'
    BY GuardDown DEF UpgradeTo, Idle
  <1>2. ListSound(bNftProxys, bNftAssetLists, bNFT) /\ InStep(bNftProxys, bNftImpls, bNFT, Asset)
    BY <1>1, BookIdle
  <1>3. /\ bNFT' = Upgraded(assets, impl) /\ bNftImpls' = Recorded(assets, impl)
        /\ bNftProxys' = bNftProxys /\ bNftAssetLists' = bNftAssetLists
    BY DEF UpgradeTo
  <1>4. /\ ListSound(bNftProxys, bNftAssetLists, bNFT')
        /\ InStep(bNftProxys, [a \in Asset |-> impl], bNFT', assets)
        /\ \A a \in Asset \ assets : bNftProxys[a] # 0 => bNFT'[bNftProxys[a]] = bNFT[bNftProxys[a]]
    BY <1>2, <1>3, UpgradedBook
  <1>5. InStep(bNftProxys', bNftImpls', bNFT', Asset)
    BY <1>2, <1>3, <1>4 DEF InStep, Recorded
  <1> QED
    BY <1>1, <1>3, <1>4, <1>5, BookIdleNext

LEMMA BookUpgradeAndCall ==
    ASSUME Control, Book, NEW sender, NEW a \in Asset, NEW impl \in Impl, UpgradeAndCall(sender, a, impl)
    PROVE  Book'
  <1>1. /\ Idle /\ ~Idle' /\ Frame' = [asset |-> a, impl |-> impl, saved |-> World]
    BY Opens
  <1>2. /\ Frame'.asset = a /\ Frame'.impl = impl
        /\ Frame'.saved.proxys = bNftProxys /\ Frame'.saved.list = bNftAssetLists
        /\ Frame'.saved.impls = bNftImpls /\ Frame'.saved.bNFT = bNFT
    BY <1>1 DEF World
  <1>3. ListSound(bNftProxys, bNftAssetLists, bNFT) /\ InStep(bNftProxys, bNftImpls, bNFT, Asset)
    BY <1>1, BookIdle
  <1>4. /\ bNFT' = Upgraded({a}, impl) /\ bNftProxys[a] # 0
        /\ bNftProxys' = bNftProxys /\ bNftAssetLists' = bNftAssetLists /\ bNftImpls' = bNftImpls
    BY DEF UpgradeAndCall, records
  <1>5. /\ ListSound(bNftProxys, bNftAssetLists, bNFT')
        /\ InStep(bNftProxys, [x \in Asset |-> impl], bNFT', {a})
        /\ \A x \in Asset \ {a} : bNftProxys[x] # 0 => bNFT'[bNftProxys[x]] = bNFT[bNftProxys[x]]
    BY <1>3, <1>4, UpgradedBook
  <1>6. InStep(bNftProxys, bNftImpls, bNFT', Asset \ {a})
    BY <1>3, <1>5 DEF InStep
  <1> QED
    BY <1>1, <1>2, <1>3, <1>4, <1>5, <1>6 DEF Book, InStep

LEMMA BookUpgradeReturns ==
    ASSUME Control, Book, UpgradeReturns
    PROVE  Book'
  <1>1. ~Idle /\ Idle' /\ Top = Frame /\ Frame.asset \in Asset
    BY Closes DEF Frames
  <1>2. /\ bNftImpls' = [bNftImpls EXCEPT ![Frame.asset] = Frame.impl]
        /\ bNftProxys' = bNftProxys /\ bNftAssetLists' = bNftAssetLists /\ bNFT' = bNFT
    BY <1>1 DEF UpgradeReturns
  <1>3. bNftImpls \in [Asset -> Impl \cup {NoAddr}]
    BY WorldFields DEF Control, TypeOK
  <1>4. InStep(bNftProxys, bNftImpls', bNFT, Asset)
    BY <1>1, <1>2, <1>3 DEF Book, InStep
  <1> QED
    BY <1>1, <1>2, <1>4, BookIdleNext DEF Book

LEMMA BookUpgradeReverts ==
    ASSUME Control, Book, UpgradeReverts
    PROVE  Book'
  <1>1. ~Idle /\ Idle' /\ Top = Frame
    BY Closes
  <1>2. /\ bNftImpls' = Frame.saved.impls /\ bNftProxys' = Frame.saved.proxys
        /\ bNftAssetLists' = Frame.saved.list /\ bNFT' = Frame.saved.bNFT
    BY <1>1 DEF UpgradeReverts
  <1> QED
    BY <1>1, <1>2, BookIdleNext DEF Book

\* In every reachable state the records agree with the proxies.
THEOREM BookInvariant == Spec => []Book
  <1>1. Init => Book
    BY DEF Init, Book, ListSound, InStep, Idle
  <1>2. Control /\ Book /\ [Next]_vars => Book'
    <2> SUFFICES ASSUME Control, Book, [Next]_vars PROVE Book'
      OBVIOUS
    <2>1. ASSUME NEW sender \in Sender, Create(sender) PROVE Book'
      BY <2>1, BookCreate, WorldFields DEF Create, CreateBNFT, CreateBNFTWithImpl, Control, TypeOK
    <2>2. ASSUME NEW sender \in Sender, Upgrade(sender) PROVE Book'
      <3>1. bNftGenericImpl \in Impl /\ bNftAssetLists \in Seq(Asset)
        BY WorldFields DEF Control, TypeOK
      <3>2. {bNftAssetLists[i] : i \in 1..Len(bNftAssetLists)} \in SUBSET Asset
        BY <3>1, ElementOfSeq
      <3>3. ASSUME NEW a \in Asset, NEW i \in Impl, UpgradeBNFTWithImpl(sender, a, i) PROVE Book'
        BY <3>3, BookUpgradeTo DEF UpgradeBNFTWithImpl
      <3>4. ASSUME NEW assets \in SUBSET Asset, BatchUpgradeBNFT(sender, assets) PROVE Book'
        BY <3>1, <3>4, BookUpgradeTo DEF BatchUpgradeBNFT
      <3>5. ASSUME BatchUpgradeAllBNFT(sender) PROVE Book'
        <4>1. CASE bNftAssetLists = <<>>
          BY <3>5, <4>1, BookFrame DEF BatchUpgradeAllBNFT
        <4> QED
          BY <3>1, <3>2, <3>5, <4>1, BookUpgradeTo DEF BatchUpgradeAllBNFT
      <3> QED
        BY <2>2, <3>3, <3>4, <3>5, BookUpgradeAndCall DEF Upgrade
    <2>3. ASSUME NEW sender \in Sender, Configure(sender) PROVE Book'
      BY <2>3, BookFrame
         DEF Configure, SetBNFTGenericImpl, AddCustomeSymbols, SetDelegateCashContract
    <2>4. ASSUME NEW sender \in Sender, HandOn(sender) PROVE Book'
      BY <2>4, BookFrame, BnftRoleFacts, NoAddrFresh, AdminsAreAccounts
         DEF HandOn, TransferOwnership, SetClaimAdmin, RenounceOwnership, SetBnftOwner, SetBnftClaimAdmin
    <2>5. CASE UNCHANGED vars
      BY <2>5, BookFrame DEF vars
    <2> QED
      BY <2>1, <2>2, <2>3, <2>4, <2>5, BookUpgradeReturns, BookUpgradeReverts DEF Next
  <1> QED
    BY <1>1, <1>2, ControlInvariant, PTL DEF Spec

\* Each collection has one bNFT, and list, map and proxies name the same ones
\* (BNFTRegistry.sol:106-143, 245-255).
THEOREM OneBnftPerAssetCorrect == Spec => []OneBnftPerAsset
  <1>1. Book => OneBnftPerAsset
    BY DEF Book, ListSound, OneBnftPerAsset
  <1> QED
    BY <1>1, BookInvariant, PTL

\* The implementation on record is the one the proxy runs, but for the asset
\* whose upgrade call is in progress (BNFTRegistry.sol:148-189).
THEOREM ImplsInStepCorrect == Spec => []ImplsInStep
  <1>1. Control /\ Book => ImplsInStep
    <2> SUFFICES ASSUME Control, Book PROVE ImplsInStep
      OBVIOUS
    <2>1. ~Idle => Len(stack) = 1
      BY OpenCall
    <2>2. Idle => Len(stack) = 0
      BY DEF Idle
    <2> QED
      BY <2>1, <2>2 DEF Book, InStep, ImplsInStep, Frame
  <1> QED
    BY <1>1, ControlInvariant, BookInvariant, PTL
-----------------------------------------------------------------------------
(* A renounced registry. *)

\* Only an owner opens an upgrade call, so the state it would revert to has one.
OwnerOpened == ~Idle => Frame.saved.owner # NoAddr

LEMMA SenderIsAccount == Sender \subseteq Account
  BY DEF Sender

LEMMA OwnerOpenedInvariant == Spec => []OwnerOpened
  <1>1. Init => OwnerOpened
    BY DEF Init, OwnerOpened, Idle
  <1>2. Control /\ OwnerOpened /\ [Next]_vars => OwnerOpened'
    <2> SUFFICES ASSUME Control, OwnerOpened, [Next]_vars PROVE OwnerOpened'
      OBVIOUS
    <2>1. CASE UNCHANGED stack
      BY <2>1 DEF OwnerOpened, Idle, Frame
    <2>2. ASSUME NEW sender \in Sender, NEW a \in Asset, NEW i \in Impl, UpgradeAndCall(sender, a, i)
          PROVE  OwnerOpened'
      <3>1. Frame'.saved.owner = owner
        BY <2>2, Opens DEF World
      <3>2. owner # NoAddr
        BY <2>2, SenderIsAccount, NoAddrFresh DEF UpgradeAndCall, MayUpgrade
      <3> QED
        BY <3>1, <3>2 DEF OwnerOpened
    <2>3. CASE UpgradeReturns \/ UpgradeReverts
      BY <2>3, Closes DEF OwnerOpened
    <2>4. ASSUME NEW sender \in Sender, Create(sender) \/ Configure(sender) \/ HandOn(sender)
          PROVE  UNCHANGED stack
      BY <2>4 DEF Create, CreateBNFT, CreateBNFTWithImpl, CreateProxyAndInitWithImpl,
                  Configure, SetBNFTGenericImpl, AddCustomeSymbols, SetDelegateCashContract,
                  HandOn, TransferOwnership, SetClaimAdmin, RenounceOwnership, SetBnftOwner, SetBnftClaimAdmin
    <2>5. ASSUME NEW sender \in Sender, Upgrade(sender)
          PROVE  OwnerOpened'
      BY <2>1, <2>2, <2>5
         DEF Upgrade, UpgradeBNFTWithImpl, BatchUpgradeBNFT, BatchUpgradeAllBNFT, UpgradeTo
    <2> QED
      BY <2>1, <2>3, <2>4, <2>5 DEF Next, vars
  <1> QED
    BY <1>1, <1>2, ControlInvariant, PTL DEF Spec

\* What a renounced registry keeps, from one state of the chain to the next.
Frozen(w, v) ==
    w.owner = NoAddr =>
        /\ v.owner = NoAddr
        /\ v.admin = w.admin
        /\ v.generic = w.generic
        /\ \A p \in 1..Len(w.bNFT) : v.bNFT[p].impl = w.bNFT[p].impl

\* Without an owner a step outside an upgrade call changes no code and no role.
LEMMA FrozenIdle ==
    ASSUME Control, owner = NoAddr, NEW sender \in Sender,
           Create(sender) \/ Upgrade(sender) \/ Configure(sender) \/ HandOn(sender)
    PROVE  /\ UNCHANGED <<owner, claimAdmin, bNftGenericImpl, stack>>
           /\ \A p \in 1..Len(bNFT) : bNFT'[p].impl = bNFT[p].impl
  <1>1. sender # owner /\ ~MayUpgrade(sender)
    BY SenderIsAccount, NoAddrFresh DEF MayUpgrade
  <1>2. CASE Create(sender)
    <2>1. PICK a \in Asset : CreateBNFT(sender, a)
      BY <1>1, <1>2 DEF Create, CreateBNFTWithImpl
    <2>2. bNFT' = Append(bNFT, NewBnft(sender, a, bNftGenericImpl))
      BY <2>1 DEF CreateBNFT, CreateProxyAndInitWithImpl
    <2>3. \A p \in 1..Len(bNFT) : bNFT'[p] = bNFT[p]
      BY <2>2, WorldFields, NewBnftFacts, AppendFacts DEF Control, TypeOK
    <2> QED
      BY <2>1, <2>3 DEF CreateBNFT, CreateProxyAndInitWithImpl, settings, roles
  <1>3. ~Upgrade(sender)
    BY <1>1 DEF Upgrade, UpgradeBNFTWithImpl, UpgradeAndCall, BatchUpgradeBNFT, BatchUpgradeAllBNFT
  <1>4. ~Configure(sender)
    BY <1>1 DEF Configure, SetBNFTGenericImpl, AddCustomeSymbols, SetDelegateCashContract
  <1>5. CASE HandOn(sender)
    <2>1. PICK p \in 1..Len(bNFT) : \/ \E a \in Admin \cup {NoAddr} : SetBnftOwner(sender, p, a)
                                    \/ \E a \in Admin : SetBnftClaimAdmin(sender, p, a)
      BY <1>1, <1>5 DEF HandOn, TransferOwnership, SetClaimAdmin, RenounceOwnership
    <2>2. \A q \in 1..Len(bNFT) : bNFT'[q].impl = bNFT[q].impl
      BY <2>1, BnftRoleFacts, NoAddrFresh, AdminsAreAccounts DEF SetBnftOwner, SetBnftClaimAdmin
    <2> QED
      BY <2>1, <2>2 DEF SetBnftOwner, SetBnftClaimAdmin, settings, roles
  <1> QED
    BY <1>2, <1>3, <1>4, <1>5

\* A renounced registry is frozen, also when it is renounced by a contract that
\* an upgrade call has called (BNFTRegistry.sol:106, 148-189).
THEOREM RenouncedFreezesCorrect == Spec => RenouncedFreezes
  <1>1. Control /\ OwnerOpened /\ [Next]_vars => Frozen(Committed, Committed')
    <2> SUFFICES ASSUME Control, OwnerOpened, [Next]_vars, Committed.owner = NoAddr
                 PROVE  Frozen(Committed, Committed')
      BY DEF Frozen
    <2>1. Idle /\ Committed = World /\ owner = NoAddr
      BY DEF OwnerOpened, Committed, Idle, Frame, World
    <2>2. ASSUME UNCHANGED <<owner, claimAdmin, bNftGenericImpl, stack>>,
                 \A p \in 1..Len(bNFT) : bNFT'[p].impl = bNFT[p].impl
          PROVE  Frozen(Committed, Committed')
      <3>1. Committed' = World'
        BY <2>1, <2>2 DEF Committed, Idle
      <3> QED
        BY <2>1, <2>2, <3>1 DEF Frozen, World
    <2>3. ASSUME NEW sender \in Sender,
                 Create(sender) \/ Upgrade(sender) \/ Configure(sender) \/ HandOn(sender)
          PROVE  Frozen(Committed, Committed')
      BY <2>1, <2>2, <2>3, FrozenIdle
    <2>4. ~(UpgradeReturns \/ UpgradeReverts)
      BY <2>1 DEF UpgradeReturns, UpgradeReverts, Idle
    <2>5. CASE UNCHANGED vars
      BY <2>2, <2>5 DEF vars, settings, roles
    <2> QED
      BY <2>3, <2>4, <2>5 DEF Next
  <1>2. Control /\ OwnerOpened /\ [Next]_vars =>
          [Committed.owner = NoAddr =>
             /\ Committed'.owner = NoAddr
             /\ Committed'.admin = Committed.admin
             /\ Committed'.generic = Committed.generic
             /\ \A p \in 1..Len(Committed.bNFT) :
                  Committed'.bNFT[p].impl = Committed.bNFT[p].impl]_vars
    BY <1>1 DEF Frozen
  <1> QED
    BY <1>2, ControlInvariant, OwnerOpenedInvariant, PTL DEF Spec, RenouncedFreezes
=============================================================================

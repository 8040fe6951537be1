-------------------------- MODULE FlashClaimProofs --------------------------
(***************************************************************************)
(* Theorems about FlashClaim, for any number of NFTs, users, receivers and *)
(* prizes, and lists of any length.  The invariant speaks of worlds, so    *)
(* that the state a loan would revert to is covered by the same words as   *)
(* the present one.                                                        *)
(***************************************************************************)
EXTENDS FlashClaim, FiniteSetTheorems, TLAPS

\* A user's receiver is the user's, unless given away.
OwnReceivers(w) ==
    \A u \in User : w.users[u] # NoAddr /\ w.users[u] \notin w.handedOn => w.owners[w.users[u]] = u

\* PrizesReachUser of a world; a receiver given away holds nothing of anybody.
Reached(w) ==
    \A p \in Prize : w.earned[p] # NoAddr =>
        \/ w.prizes[p] = w.earned[p]
        \/ /\ w.prizes[p] \in Receiver
           /\ w.prizes[p] \notin w.handedOn
           /\ w.owners[w.prizes[p]] = w.earned[p]

\* An address without code has no owner.
Undeployed(w) == \A r \in Receiver : w.logic[r] = NoAddr => w.owners[r] = NoAddr

\* Who has approved the bNFT for all its NFTs has approved somebody for all.
Opened(w) == w.forAll \subseteq w.opened

Sound(w) == OwnReceivers(w) /\ Reached(w) /\ Undeployed(w) /\ Opened(w)

\* Outside a loan the registry has no lock in a pool.
NoLock(locks) == \A m \in Pool, t \in Token : Registry \notin locks[m][t]

\* An NFT of the loan that moved has lost its approval, and the receiver could
\* not give it again.
ApprovalLost ==
    \/ {Bnft, Collection} \cap common # {}
    \/ tx.receiver \in opened
    \/ moved \cap Set(tx.ids) \cap approved = {}

\* What a loan relies on: it can be undone, its receiver is the caller's and
\* pays the caller, and what moved has lost its approval.
InLoan ==
    ~Idle =>
        /\ tx \in Loans
        /\ Books(tx.saved) /\ Sound(tx.saved) /\ NoLock(tx.saved.lockings)
        /\ logic[tx.receiver] # NoAddr
        /\ tx.receiver \notin handedOn => receiverOwner[tx.receiver] = tx.caller /\ tx.target = tx.caller
        /\ ApprovalLost

IInv == TypeOK /\ Sound(World) /\ LocksTransient /\ InLoan /\ BorrowedStays

USE DEF deeds, receivers, approvals, nfts, prizes, owners, setup

-----------------------------------------------------------------------------
LEMMA Initially == Init => IInv
<1>1. ASSUME Init PROVE World \in Worlds
  <2>1. nftOwner \in [Token -> User]
    BY <1>1, InputsAreAddresses DEF Init
  <2> QED BY <1>1, <2>1 DEF Init, World, Worlds, Pool
<1>2. ASSUME Init PROVE Books(World) /\ Sound(World)
  BY <1>2 DEF Init, World, Books, Sound, OwnReceivers, Reached, Undeployed, Opened
<1>3. ASSUME Init PROVE TypeOK
  BY <1>1, <1>2, <1>3 DEF Init, TypeOK, NoTx
<1>4. ASSUME Init PROVE LocksTransient /\ InLoan /\ BorrowedStays
  BY <1>4 DEF Init, LocksTransient, InLoan, BorrowedStays, Idle, At, NoTx, Pool
<1> QED BY <1>2, <1>3, <1>4 DEF IInv

-----------------------------------------------------------------------------
(* Starting a loan, and undoing it.                                         *)

\* The registry's locks are locks.
LEMMA LocksTyped ==
  ASSUME NEW ids, TypeOK
  PROVE  /\ LockedFor(ids) \in [User \cup Pool -> [Token -> SUBSET (User \cup {Registry})]]
         /\ UnlockedFor(ids) \in [User \cup Pool -> [Token -> SUBSET (User \cup {Registry})]]
<1>1. lockings \in [User \cup Pool -> [Token -> SUBSET (User \cup {Registry})]]
  BY DEF TypeOK, World, Worlds
<1> QED BY <1>1 DEF LockedFor, UnlockedFor

LEMMA BeginKeeps ==
  ASSUME IInv, Idle, NEW operator \in User \cup {Registry}, NEW u \in User, NEW r \in Receiver,
         NEW ids \in Ids, NEW claim \in Claims, logic[r] # NoAddr,
         r \notin handedOn => receiverOwner[r] = u,
         lockings' \in [User \cup Pool -> [Token -> SUBSET (User \cup {Registry})]],
         \A m \in Pool, t \in Token :
            Registry \in lockings'[m][t] => operator = Registry /\ t \in Set(ids) /\ minters[t] = m,
         Begin(operator, u, r, ids, claim)
  PROVE  IInv'
<1> DEFINE loan == [pc |-> "call", operator |-> operator, caller |-> u, receiver |-> r, ids |-> ids,
                    claim |-> claim, left |-> 0, target |-> receiverOwner[r],
                    saved |-> World]
<1>1. tx' = loan /\ ~Idle'
  BY DEF Begin, targetOwner, Idle
<1>2. World \in Worlds /\ Books(World) /\ Sound(World)
  BY DEF IInv, TypeOK
<1>3. claim \in Seq(Payments) /\ receiverOwner[r] \in User \cup {NoAddr}
  BY <1>2, PaymentsOfPrizes DEF Payments, World, Worlds
<1>4. loan \in Loans
  BY <1>2, <1>3 DEF Loans
<1>5. Set(ids) \subseteq Token
  BY DEF Set, Ids
<1>6. World' \in Worlds
  BY <1>2, <1>5 DEF Begin, World, Worlds
<1>7. Books(World)' /\ Sound(World)'
  BY <1>2 DEF Begin, World, Books, Sound, OwnReceivers, Reached, Undeployed, Opened
<1>8. TypeOK'
  BY <1>1, <1>4, <1>6, <1>7 DEF IInv, TypeOK, Begin
<1>9. LocksTransient'
  BY <1>1 DEF LocksTransient, At, Begin
<1>10. NoLock(World.lockings)
  BY DEF IInv, LocksTransient, NoLock, World, Idle
<1>11. InLoan'
  <2>1. tx' \in Loans /\ tx'.saved = World /\ tx'.receiver = r /\ tx'.caller = u
        /\ tx'.target = receiverOwner[r]
    BY <1>1, <1>4
  <2>2. Books(tx'.saved) /\ Sound(tx'.saved) /\ NoLock(tx'.saved.lockings)
    BY <1>2, <1>10, <2>1
  <2>3. UNCHANGED <<logic, handedOn, receiverOwner>>
    BY DEF Begin
  <2>4. ApprovalLost'
    BY DEF Begin, ApprovalLost
  <2> QED BY <2>1, <2>2, <2>3, <2>4 DEF InLoan
<1>12. BorrowedStays'
  BY <1>1 DEF BorrowedStays, At
<1> QED BY <1>7, <1>8, <1>9, <1>11, <1>12 DEF IInv

LEMMA RegistryLoanKeeps ==
  ASSUME IInv, NEW u \in User, NEW ids \in Ids, NEW claim \in Claims, flashLoan(u, ids, claim)
  PROVE  IInv'
<1> DEFINE r == userReceiversV3[u]
<1>1. r \in Receiver /\ getUserReceiver(u) = r
  BY DEF flashLoan, getUserReceiver, IInv, TypeOK, World, Worlds
<1>2. r \in allReceiversV3 /\ logic[r] # NoAddr
  BY <1>1, AddressesDistinct DEF IInv, TypeOK, World, Books
<1>3. r \notin handedOn => receiverOwner[r] = u
  BY <1>1, AddressesDistinct DEF IInv, Sound, OwnReceivers, World
<1>4. lockings' \in [User \cup Pool -> [Token -> SUBSET (User \cup {Registry})]]
  BY LocksTyped DEF flashLoan, IInv
<1>5. \A m \in Pool, t \in Token : Registry \in lockings'[m][t] => t \in Set(ids) /\ minters[t] = m
  BY DEF flashLoan, LockedFor, Pooled, IInv, LocksTransient, TypeOK, World, Worlds, Idle
<1> QED BY <1>1, <1>2, <1>3, <1>4, <1>5, BeginKeeps DEF flashLoan

LEMMA OwnLoanKeeps ==
  ASSUME IInv, NEW u \in User, NEW r \in Receiver, NEW ids \in Ids, NEW claim \in Claims,
         FlashLoanOf(u, r, ids, claim)
  PROVE  IInv'
<1>1. receiverOwner[r] = u
  BY AddressesDistinct DEF FlashLoanOf, Begin, ValidInitiator
<1>2. lockings' \in [User \cup Pool -> [Token -> SUBSET (User \cup {Registry})]]
  BY DEF FlashLoanOf, IInv, TypeOK, World, Worlds
<1>3. \A m \in Pool, t \in Token : Registry \notin lockings'[m][t]
  BY DEF FlashLoanOf, IInv, LocksTransient, Idle
<1> QED BY <1>1, <1>2, <1>3, BeginKeeps DEF FlashLoanOf

LEMMA RevertKeeps ==
  ASSUME IInv, ~Idle, Revert
  PROVE  IInv'
<1>1. tx.saved \in Worlds /\ Books(tx.saved) /\ Sound(tx.saved) /\ NoLock(tx.saved.lockings)
  BY DEF IInv, InLoan, Loans
<1>2. World' = tx.saved
  BY <1>1 DEF Revert, World, Worlds
<1>3. tx' = NoTx /\ Idle'
  BY DEF Revert, Idle, NoTx
<1>4. TypeOK'
  BY <1>1, <1>2, <1>3 DEF IInv, TypeOK, Revert
<1>5. LocksTransient'
  BY <1>1 DEF Revert, LocksTransient, NoLock
<1>6. InLoan' /\ BorrowedStays'
  BY <1>3 DEF InLoan, BorrowedStays, At, NoTx, Idle
<1>7. Sound(World)'
  BY <1>1, <1>2 DEF Sound, OwnReceivers, Reached, Undeployed, Opened, World
<1> QED BY <1>4, <1>5, <1>6, <1>7 DEF IInv

-----------------------------------------------------------------------------
(* The steps of a loan.                                                     *)

\* What the project pays goes to a receiver that is the user's.
LEMMA ProjectPaysKeeps ==
  ASSUME World \in Worlds, Sound(World), NEW u \in User, NEW r \in Receiver,
         r \notin handedOn => receiverOwner[r] = u,
         ProjectPays(u, r),
         UNCHANGED <<nfts, lockings, receivers, owners>>
  PROVE  World' \in Worlds /\ Sound(World)'
<1>1. PICK S \in SUBSET {p \in Prize : prizeOwner[p] = Project} :
        /\ prizeOwner' = [p \in Prize |-> IF p \in S THEN r ELSE prizeOwner[p]]
        /\ earned' = [p \in Prize |-> IF p \in S /\ r \notin handedOn THEN u ELSE earned[p]]
  BY DEF ProjectPays
<1>2. World' \in Worlds
  BY <1>1 DEF World, Worlds
<1>3. OwnReceivers(World)' /\ Undeployed(World)' /\ Opened(World)'
  BY DEF Sound, OwnReceivers, Undeployed, Opened, World
<1>4. Reached(World)'
  <2> SUFFICES ASSUME NEW p \in Prize, earned'[p] # NoAddr
               PROVE  \/ prizeOwner'[p] = earned'[p]
                      \/ /\ prizeOwner'[p] \in Receiver
                         /\ prizeOwner'[p] \notin handedOn
                         /\ receiverOwner[prizeOwner'[p]] = earned'[p]
    BY DEF Reached, World
  <2>1. CASE p \notin S
    BY <1>1, <2>1 DEF Sound, Reached, World
  <2>2. CASE p \in S /\ r \notin handedOn
    BY <1>1, <2>2
  <2>3. CASE p \in S /\ r \in handedOn
    BY <1>1, <2>3, AddressesDistinct DEF Sound, Reached, World, Worlds
  <2> QED BY <2>1, <2>2, <2>3
<1> QED BY <1>2, <1>3, <1>4 DEF Sound

\* A step on the NFTs and their approvals: within a loan, none is approved anew
\* unless the bNFT or the collection is listed, and what moves is not approved.
NftsRight ==
    /\ moved' \subseteq Token
    /\ opened \subseteq opened'
    /\ Idle => UNCHANGED moved
    /\ ~Idle => \/ {Bnft, Collection} \cap common # {}
                \/ approved' \subseteq approved /\ (moved' \ moved) \cap approved' = {}

\* It keeps the worlds.
LEMMA NftsKeep ==
  ASSUME World \in Worlds, Books(World), Sound(World),
         nftOwner' \in [Token -> User \cup Receiver \cup {Bnft}],
         approved' \subseteq Token, opened' \subseteq Receiver, forAll' \subseteq opened',
         UNCHANGED <<lockings, receivers, owners, prizes>>
  PROVE  World' \in Worlds /\ Books(World)' /\ Sound(World)'
<1>1. World' \in Worlds
  BY DEF World, Worlds
<1>2. Books(World)' /\ Sound(World)'
  BY DEF World, Books, Sound, OwnReceivers, Reached, Undeployed, Opened
<1> QED BY <1>1, <1>2

LEMMA MovesKeeps ==
  ASSUME IInv, NEW t \in Token, NEW to \in User \cup Receiver, Moves(t, to),
         UNCHANGED <<lockings, receivers, owners, prizes>>
  PROVE  World' \in Worlds /\ Books(World)' /\ Sound(World)' /\ NftsRight
<1>1. World \in Worlds /\ Books(World) /\ Sound(World) /\ moved \subseteq Token
  BY DEF IInv, TypeOK
<1>2. /\ nftOwner' \in [Token -> User \cup Receiver \cup {Bnft}]
      /\ approved' \subseteq Token /\ opened' \subseteq Receiver /\ forAll' \subseteq opened'
  BY <1>1 DEF Moves, World, Worlds, Sound, Opened
<1>3. NftsRight
  BY <1>1 DEF Moves, NftsRight
<1> QED BY <1>1, <1>2, <1>3, NftsKeep

LEMMA ApprovesKeeps ==
  ASSUME IInv, NEW t \in Token, NEW op, op \in common \/ Collection \in common, Approves(op, t),
         UNCHANGED <<lockings, receivers, owners, prizes>>
  PROVE  World' \in Worlds /\ Books(World)' /\ Sound(World)' /\ NftsRight
<1>1. World \in Worlds /\ Books(World) /\ Sound(World) /\ moved \subseteq Token
  BY DEF IInv, TypeOK
<1>2. /\ nftOwner' \in [Token -> User \cup Receiver \cup {Bnft}]
      /\ approved' \subseteq Token /\ opened' \subseteq Receiver /\ forAll' \subseteq opened'
  BY <1>1 DEF Approves, World, Worlds, Sound, Opened
<1>3. NftsRight
  BY <1>1 DEF Approves, NftsRight
<1> QED BY <1>1, <1>2, <1>3, NftsKeep

LEMMA ApprovesForAllKeeps ==
  ASSUME IInv, NEW r \in Receiver, NEW op, NEW flag \in BOOLEAN, ApprovesForAll(r, op, flag),
         UNCHANGED <<lockings, receivers, owners, prizes>>
  PROVE  World' \in Worlds /\ Books(World)' /\ Sound(World)' /\ NftsRight
<1>1. World \in Worlds /\ Books(World) /\ Sound(World) /\ moved \subseteq Token
  BY DEF IInv, TypeOK
<1>2. forAll \subseteq opened /\ opened \subseteq Receiver
  BY <1>1 DEF World, Worlds, Sound, Opened
<1>3. opened' \subseteq Receiver /\ forAll' \subseteq opened'
  BY <1>2 DEF ApprovesForAll
<1>4. nftOwner' \in [Token -> User \cup Receiver \cup {Bnft}] /\ approved' \subseteq Token
  BY <1>1 DEF ApprovesForAll, World, Worlds
<1>5. NftsRight
  BY <1>1 DEF ApprovesForAll, NftsRight
<1> QED BY <1>1, <1>3, <1>4, <1>5, NftsKeep

\* A listed contract called by a receiver: the project, or the collection.
LEMMA CallListedKeeps ==
  ASSUME IInv, NEW u \in User, NEW r \in Receiver,
         r \notin handedOn => receiverOwner[r] = u,
         CallListed(u, r), UNCHANGED <<lockings, receivers, owners>>
  PROVE  World' \in Worlds /\ Books(World)' /\ Sound(World)' /\ NftsRight
<1>1. World \in Worlds /\ Books(World) /\ Sound(World) /\ moved \subseteq Token
  BY DEF IInv, TypeOK
<1>2. CASE ProjectPays(u, r) /\ UNCHANGED nfts
  <2>1. World' \in Worlds /\ Sound(World)'
    BY <1>1, <1>2, ProjectPaysKeeps
  <2>2. Books(World)'
    BY <1>1 DEF Books, World
  <2>3. NftsRight
    BY <1>1, <1>2 DEF NftsRight
  <2> QED BY <2>1, <2>2, <2>3
<1>3. CASE UNCHANGED prizes /\ \E op \in Operators, flag \in BOOLEAN : ApprovesForAll(r, op, flag)
  BY <1>3, ApprovesForAllKeeps
<1>4. CASE UNCHANGED prizes /\ \E t \in Token, to \in Recipients : Moves(t, to)
  BY <1>4, MovesKeeps, InputsAreAddresses
<1>5. CASE /\ Collection \in common /\ UNCHANGED prizes
           /\ \E t \in Token, op \in Operators : Approves(op, t)
  BY <1>5, ApprovesKeeps
<1> QED BY <1>2, <1>3, <1>4, <1>5 DEF CallListed

\* Within a loan such a step loses no more than it must.
LEMMA LossesStay ==
  ASSUME IInv, ~Idle, NftsRight, common' = common, tx'.receiver = tx.receiver, tx'.ids = tx.ids
  PROVE  ApprovalLost'
BY DEF IInv, InLoan, NftsRight, ApprovalLost

\* What a step inside a loan need not look at again.
LEMMA LoanGoesOn ==
  ASSUME IInv, ~Idle, tx' \in Loans, NEW x \in {"call", "pay", "control", "done"},
         tx'.pc = x, x # "done",
         tx'.operator = tx.operator, tx'.caller = tx.caller, tx'.receiver = tx.receiver,
         tx'.ids = tx.ids, tx'.target = tx.target, tx'.saved = tx.saved,
         ~At("done"),
         World' \in Worlds, Sound(World)', NftsRight,
         UNCHANGED <<deeds, lockings, setup, receivers, owners>>
  PROVE  IInv'
<1>1. Books(World)'
  BY DEF IInv, TypeOK, Books, World
<1>2. ~Idle' /\ ~At("done")'
  BY DEF Idle, At
<1>3. TypeOK'
  BY <1>1, <1>2 DEF IInv, TypeOK, NftsRight
<1>4. LocksTransient'
  BY <1>2 DEF IInv, LocksTransient
<1>5. InLoan'
  BY LossesStay DEF IInv, InLoan
<1> QED BY <1>2, <1>3, <1>4, <1>5 DEF IInv, BorrowedStays

LEMMA CallContractKeeps == IInv /\ CallContract => IInv'
<1> SUFFICES ASSUME IInv, CallContract PROVE IInv'
  OBVIOUS
<1>1. ~Idle /\ ~At("done") /\ tx \in Loans
  BY DEF CallContract, At, Idle, IInv, InLoan
<1>2. tx' = [tx EXCEPT !.pc = "pay"] /\ tx' \in Loans
  BY <1>1 DEF CallContract, GoTo, Loans
<1>3. World' \in Worlds /\ Sound(World)' /\ NftsRight
  BY <1>1, CallListedKeeps DEF CallContract, IInv, InLoan, Loans
<1> QED BY <1>1, <1>2, <1>3, LoanGoesOn DEF CallContract, Loans

LEMMA ControlEndsKeeps == IInv /\ ControlEnds => IInv'
<1> SUFFICES ASSUME IInv, ControlEnds PROVE IInv'
  OBVIOUS
<1>1. ~Idle /\ ~At("done") /\ tx \in Loans
  BY DEF ControlEnds, At, Idle, IInv, InLoan
<1>2. tx' = [tx EXCEPT !.pc = "pay"] /\ tx' \in Loans
  BY <1>1 DEF ControlEnds, GoTo, Loans
<1>3. World' \in Worlds /\ Sound(World)'
  BY DEF ControlEnds, IInv, TypeOK, World, Sound, OwnReceivers, Reached, Undeployed, Opened
<1>4. NftsRight
  BY DEF ControlEnds, IInv, TypeOK, NftsRight
<1> QED BY <1>1, <1>2, <1>3, <1>4, LoanGoesOn DEF ControlEnds, Loans

\* Prizes of the receiver go to the owner read at the start of the loan.
LEMMA PayOutKeeps ==
  ASSUME IInv, ~Idle, NEW S \in SUBSET Here, PayOut(S),
         UNCHANGED <<nfts, lockings, receivers, owners, earned>>
  PROVE  World' \in Worlds /\ Sound(World)'
<1>1. World \in Worlds /\ tx.target \in User /\ tx.receiver \in Receiver
  BY DEF IInv, TypeOK, InLoan, Loans, PayOut
<1>2. prizeOwner' = [p \in Prize |-> IF p \in S THEN tx.target ELSE prizeOwner[p]]
  BY DEF PayOut
<1>3. World' \in Worlds
  BY <1>1, <1>2 DEF World, Worlds
<1>4. OwnReceivers(World)' /\ Undeployed(World)' /\ Opened(World)'
  BY DEF IInv, Sound, OwnReceivers, Undeployed, Opened, World
<1>5. Reached(World)'
  <2> SUFFICES ASSUME NEW p \in Prize, earned[p] # NoAddr
               PROVE  \/ prizeOwner'[p] = earned[p]
                      \/ /\ prizeOwner'[p] \in Receiver
                         /\ prizeOwner'[p] \notin handedOn
                         /\ receiverOwner[prizeOwner'[p]] = earned[p]
    BY DEF Reached, World
  <2>1. CASE p \notin S
    BY <1>2, <2>1 DEF IInv, Sound, Reached, World
  <2>2. CASE p \in S
    <3>1. prizeOwner[p] = tx.receiver
      BY <2>2 DEF Here
    <3>2. earned[p] \in User
      BY <1>1 DEF World, Worlds
    <3>3. tx.receiver \notin handedOn /\ receiverOwner[tx.receiver] = earned[p]
      BY <1>1, <3>1, <3>2, AddressesDistinct DEF IInv, Sound, Reached, World
    <3>4. earned[p] = tx.target
      BY <3>3 DEF IInv, InLoan
    <3> QED BY <1>2, <2>2, <3>4
  <2> QED BY <2>1, <2>2
<1> QED BY <1>3, <1>4, <1>5 DEF Sound

LEMMA HereIsFinite == Cardinality(Here) \in Nat /\ (Here # {} => Cardinality(Here) - 1 \in Nat)
<1>1. IsFiniteSet(Here)
  BY PaymentsOfPrizes, FS_Subset DEF Here
<1>2. Cardinality(Here) \in Nat /\ (Here # {} => Cardinality(Here) # 0)
  BY <1>1, FS_CardinalityType, FS_EmptySet
<1> QED BY <1>2

LEMMA PayKeeps == IInv /\ Pay => IInv'
<1> SUFFICES ASSUME IInv, Pay PROVE IInv'
  OBVIOUS
<1>1. ~Idle /\ ~At("done") /\ tx \in Loans
  BY DEF Pay, At, Idle, IInv, InLoan
<1>2. tx.claim \in Seq(Payments) /\ Tail(tx.claim) \in Seq(Payments) /\ tx.left \in Nat
  BY <1>1 DEF Loans, Pay
<1>3. UNCHANGED <<nfts, deeds, lockings, setup, receivers, owners, earned>>
  BY DEF Pay
<1> DEFINE Same == World' \in Worlds /\ Sound(World)' /\ NftsRight
<1>0. NftsRight
  BY <1>3 DEF IInv, TypeOK, NftsRight
<1>4. ASSUME NEW S \in SUBSET Here, NEW claim \in Seq(Payments), NEW left \in Nat,
             PayOut(S), After(claim, left)
      PROVE  IInv'
  <2>1. PICK x \in {"control", "pay"} : tx' = [tx EXCEPT !.claim = claim, !.left = left, !.pc = x]
    BY <1>4 DEF After
  <2>2. tx' \in Loans
    BY <1>1, <1>4, <2>1 DEF Loans
  <2>3. Same
    BY <1>0, <1>1, <1>3, <1>4, PayOutKeeps
  <2> QED BY <1>1, <1>3, <2>1, <2>2, <2>3, LoanGoesOn DEF Loans
<1>5. ASSUME tx' = [tx EXCEPT !.claim = Tail(tx.claim)], UNCHANGED prizeOwner
      PROVE  IInv'
  <2>1. tx' \in Loans /\ tx'.pc = "pay"
    BY <1>1, <1>2, <1>5 DEF Loans, Pay, At
  <2>2. Same
    BY <1>0, <1>3, <1>5 DEF IInv, TypeOK, World, Sound, OwnReceivers, Reached, Undeployed, Opened
  <2> QED BY <1>1, <1>3, <1>5, <2>1, <2>2, LoanGoesOn DEF Loans
<1>6. \/ PayOut(Here) /\ After(Tail(tx.claim), 0)
      \/ tx' = [tx EXCEPT !.claim = Tail(tx.claim)] /\ UNCHANGED prizeOwner
      \/ Here # {} /\ \E p \in Here :
            PayOut({p}) /\ After(IF Cardinality(Here) = 1 THEN Tail(tx.claim) ELSE tx.claim,
                                 Cardinality(Here) - 1)
      \/ tx.left > 0 /\ \E p \in Here :
            PayOut({p}) /\ After(IF tx.left = 1 THEN Tail(tx.claim) ELSE tx.claim, tx.left - 1)
      \/ \E p \in Here : PayOut({p}) /\ After(Tail(tx.claim), 0)
  BY DEF Pay
<1>7. CASE PayOut(Here) /\ After(Tail(tx.claim), 0)
  BY <1>2, <1>4, <1>7
<1>8. CASE tx' = [tx EXCEPT !.claim = Tail(tx.claim)] /\ UNCHANGED prizeOwner
  BY <1>5, <1>8
<1>9. CASE Here # {} /\ \E p \in Here :
            PayOut({p}) /\ After(IF Cardinality(Here) = 1 THEN Tail(tx.claim) ELSE tx.claim,
                                 Cardinality(Here) - 1)
  <2>1. PICK p \in Here :
            PayOut({p}) /\ After(IF Cardinality(Here) = 1 THEN Tail(tx.claim) ELSE tx.claim,
                                 Cardinality(Here) - 1)
    BY <1>9
  <2>2. Cardinality(Here) - 1 \in Nat
    BY <1>9, HereIsFinite
  <2>3. (IF Cardinality(Here) = 1 THEN Tail(tx.claim) ELSE tx.claim) \in Seq(Payments)
    BY <1>2
  <2>4. {p} \in SUBSET Here
    BY <2>1
  <2> QED BY <1>4, <2>1, <2>2, <2>3, <2>4
<1>10. CASE tx.left > 0 /\ \E p \in Here :
            PayOut({p}) /\ After(IF tx.left = 1 THEN Tail(tx.claim) ELSE tx.claim, tx.left - 1)
  <2>1. PICK p \in Here :
            PayOut({p}) /\ After(IF tx.left = 1 THEN Tail(tx.claim) ELSE tx.claim, tx.left - 1)
    BY <1>10
  <2>2. tx.left - 1 \in Nat
    BY <1>2, <1>10
  <2>3. (IF tx.left = 1 THEN Tail(tx.claim) ELSE tx.claim) \in Seq(Payments)
    BY <1>2
  <2>4. {p} \in SUBSET Here
    BY <2>1
  <2> QED BY <1>4, <2>1, <2>2, <2>3, <2>4
<1>11. CASE \E p \in Here : PayOut({p}) /\ After(Tail(tx.claim), 0)
  <2>1. PICK p \in Here : PayOut({p}) /\ After(Tail(tx.claim), 0)
    BY <1>11
  <2>2. {p} \in SUBSET Here
    BY <2>1
  <2> QED BY <1>2, <1>4, <2>1, <2>2
<1> QED BY <1>6, <1>7, <1>8, <1>9, <1>10, <1>11

LEMMA TakeBackKeeps == IInv /\ TakeBack => IInv'
<1> SUFFICES ASSUME IInv, TakeBack PROVE IInv'
  OBVIOUS
<1>1. ~Idle /\ ~At("done") /\ tx \in Loans
  BY DEF TakeBack, At, Idle, IInv, InLoan
<1>2. tx' = [tx EXCEPT !.pc = "done"] /\ tx' \in Loans
  BY <1>1 DEF TakeBack, GoTo, Loans
<1>3. ~Idle' /\ At("done")'
  BY <1>2, <1>1 DEF Idle, At, Loans
<1>4. World' \in Worlds
  BY LocksTyped DEF TakeBack, IInv, TypeOK, World, Worlds
<1>5. Books(World)' /\ Sound(World)'
  BY DEF TakeBack, IInv, TypeOK, World, Books, Sound, OwnReceivers, Reached, Undeployed, Opened
<1>6. TypeOK'
  BY <1>2, <1>3, <1>4, <1>5 DEF IInv, TypeOK, TakeBack
<1>7. NoLock(lockings')
  <2> SUFFICES ASSUME NEW m \in Pool, NEW t \in Token PROVE Registry \notin lockings'[m][t]
    BY DEF NoLock
  <2>1. lockings \in [User \cup Pool -> [Token -> SUBSET (User \cup {Registry})]]
    BY DEF IInv, TypeOK, World, Worlds
  <2>2. Registry \in lockings[m][t] => tx.operator = Registry /\ Pooled(m, t, tx.ids)
    BY DEF IInv, LocksTransient, Pooled
  <2>3. CASE tx.operator = Registry
    BY <2>1, <2>2, <2>3 DEF TakeBack, UnlockedFor
  <2>4. CASE tx.operator # Registry
    BY <2>2, <2>4 DEF TakeBack
  <2> QED BY <2>3, <2>4
<1>8. LocksTransient'
  BY <1>7 DEF LocksTransient, NoLock
<1>9. InLoan'
  <2>1. ApprovalLost'
    BY <1>1, <1>2 DEF ApprovalLost, IInv, InLoan, TakeBack, Loans
  <2> QED BY <1>1, <1>2, <1>3, <2>1 DEF InLoan, IInv, TakeBack, Loans
<1>10. BorrowedStays'
  <2>1. tx.receiver \in forAll => tx.receiver \in opened
    BY DEF IInv, Sound, Opened, World
  <2> QED BY <1>1, <1>2, <2>1 DEF BorrowedStays, IInv, InLoan, ApprovalLost, TakeBack, ApprovedBack, Loans
<1> QED BY <1>5, <1>6, <1>8, <1>9, <1>10 DEF IInv

LEMMA DoneKeeps == IInv /\ Done => IInv'
<1> SUFFICES ASSUME IInv, Done PROVE IInv'
  OBVIOUS
<1>1. World' \in Worlds /\ Books(World)' /\ Sound(World)'
  BY DEF Done, IInv, TypeOK, World, Books, Sound, OwnReceivers, Reached, Undeployed, Opened
<1>2. TypeOK'
  BY <1>1 DEF Done, IInv, TypeOK, NoTx
<1>3. LocksTransient'
  BY DEF Done, IInv, LocksTransient
<1>4. InLoan' /\ BorrowedStays'
  BY DEF Done, InLoan, BorrowedStays, Idle, At, NoTx
<1> QED BY <1>1, <1>2, <1>3, <1>4 DEF IInv

-----------------------------------------------------------------------------
(* Everybody else.                                                          *)

\* A step outside the loan's own: the worlds are right after it, what a loan
\* relies on is left alone, and an NFT that moves loses its approval.
LEMMA AsideKeeps ==
  ASSUME IInv, Idle \/ At("control"),
         World' \in Worlds, Books(World)', Sound(World)',
         bnftOwner' \in [Token -> User \cup {NoAddr}],
         minters' \in [Token -> User \cup Pool \cup {NoAddr}],
         receiverV3Implemention' \in Implementation,
         \A m \in Pool, t \in Token : Registry \in lockings'[m][t] => Registry \in lockings[m][t],
         tx' = tx, NftsRight,
         ~Idle => /\ UNCHANGED <<minters, common>>
                  /\ logic'[tx.receiver] = logic[tx.receiver]
                  /\ tx.receiver \notin handedOn' =>
                        /\ tx.receiver \notin handedOn
                        /\ receiverOwner'[tx.receiver] = receiverOwner[tx.receiver]
  PROVE  IInv'
<1>1. tx' = tx /\ Idle' = Idle
  BY DEF Idle
<1>2. TypeOK'
  BY <1>1 DEF IInv, TypeOK, NftsRight
<1>3. CASE Idle
  <2>1. LocksTransient'
    BY <1>3 DEF IInv, LocksTransient
  <2>2. InLoan' /\ BorrowedStays'
    BY <1>1, <1>3 DEF InLoan, BorrowedStays, Idle, At
  <2> QED BY <1>2, <2>1, <2>2 DEF IInv
<1>4. CASE ~Idle
  <2>1. tx \in Loans /\ At("control")
    BY <1>4 DEF IInv, InLoan
  <2>2. LocksTransient'
    BY <1>1, <1>4, <2>1 DEF IInv, LocksTransient, At
  <2>3. Books(tx'.saved) /\ Sound(tx'.saved) /\ NoLock(tx'.saved.lockings)
    BY <1>1, <1>4 DEF IInv, InLoan
  <2>4. ApprovalLost'
    BY <1>1, <1>4, LossesStay
  <2>5. InLoan'
    BY <1>1, <1>4, <2>3, <2>4 DEF IInv, InLoan
  <2>6. BorrowedStays'
    BY <1>1, <2>1 DEF BorrowedStays, At
  <2> QED BY <1>2, <2>2, <2>5, <2>6 DEF IInv
<1> QED BY <1>3, <1>4

\* Most leave the NFTs alone.
LEMMA NftsAlone ==
  ASSUME IInv, UNCHANGED nfts
  PROVE  NftsRight
BY DEF IInv, TypeOK, NftsRight

LEMMA DeedsKeep ==
  ASSUME IInv, NEW u \in User, NEW t \in Token, NEW m \in User \cup Pool,
         Deposit(u, t, m) \/ Redeem(u, t)
  PROVE  IInv'
<1>1. Idle /\ tx' = tx /\ UNCHANGED <<approvals, moved, lockings, setup, receivers, owners, prizes>>
  BY DEF Deposit, Redeem
<1>2. World' \in Worlds
  BY DEF Deposit, Redeem, IInv, TypeOK, World, Worlds
<1>3. Books(World)' /\ Sound(World)'
  BY <1>1 DEF IInv, TypeOK, World, Books, Sound, OwnReceivers, Reached, Undeployed, Opened
<1>4. /\ bnftOwner' \in [Token -> User \cup {NoAddr}]
      /\ minters' \in [Token -> User \cup Pool \cup {NoAddr}]
      /\ receiverV3Implemention' \in Implementation
  BY DEF Deposit, Redeem, IInv, TypeOK
<1>5. NftsRight
  BY <1>1 DEF IInv, TypeOK, NftsRight
<1> QED BY <1>1, <1>2, <1>3, <1>4, <1>5, AsideKeeps

LEMMA SetLockingKeeps ==
  ASSUME IInv, NEW a \in User, NEW g \in Grants, NEW locked \in BOOLEAN,
         SetLocking(a, g[1], g[2], g[3], locked)
  PROVE  IInv'
<1> DEFINE m == g[1]  t == g[2]  op == g[3]
<1>1. m \in User \cup Pool /\ t \in Token /\ op \in User \cup {Registry}
  BY InputsAreAddresses
<1>2. /\ lockings' = [lockings EXCEPT ![m][t] = IF locked THEN @ \cup {op} ELSE @ \ {op}]
      /\ UNCHANGED <<nfts, deeds, setup, receivers, owners, prizes, tx>>
      /\ Idle \/ At("control")
      /\ m = a \/ (m \in Pool /\ op = a)
  BY DEF SetLocking, Free
<1>3. World' \in Worlds
  BY <1>1, <1>2 DEF IInv, TypeOK, World, Worlds
<1>4. Books(World)' /\ Sound(World)'
  BY <1>2 DEF IInv, TypeOK, World, Books, Sound, OwnReceivers, Reached, Undeployed, Opened
<1>5. ASSUME NEW n \in Pool, NEW x \in Token, Registry \in lockings'[n][x]
      PROVE  Registry \in lockings[n][x]
  <2>1. lockings \in [User \cup Pool -> [Token -> SUBSET (User \cup {Registry})]]
    BY DEF IInv, TypeOK, World, Worlds
  <2>2. CASE n = m /\ x = t
    <3>1. op = a /\ Registry # a
      BY <1>2, <2>2, AddressesDistinct
    <3>2. lockings'[n][x] = IF locked THEN lockings[n][x] \cup {op} ELSE lockings[n][x] \ {op}
      BY <1>1, <1>2, <2>1, <2>2
    <3> QED BY <1>5, <3>1, <3>2
  <2>3. CASE ~(n = m /\ x = t)
    BY <1>1, <1>2, <1>5, <2>1, <2>3
  <2> QED BY <2>2, <2>3
<1> QED BY <1>2, <1>3, <1>4, <1>5, NftsAlone, AsideKeeps DEF IInv, TypeOK

LEMMA CreateReceiverKeeps ==
  ASSUME IInv, NEW u \in User, createReceiver(u)
  PROVE  IInv'
<1>1. PICK r \in Receiver :
         /\ logic[r] = NoAddr
         /\ logic' = [logic EXCEPT ![r] = receiverV3Implemention]
         /\ receiverOwner' = [receiverOwner EXCEPT ![r] = u]
         /\ userReceiversV3' = [userReceiversV3 EXCEPT ![u] = r]
         /\ allReceiversV3' = (allReceiversV3 \ {userReceiversV3[u]}) \cup {r}
  BY DEF createReceiver, Replaced
<1>2. /\ UNCHANGED <<nfts, deeds, lockings, setup, handedOn, prizes, tx>>
      /\ Idle \/ At("control")
  BY DEF createReceiver, Free
<1>3. World \in Worlds /\ Books(World) /\ Sound(World) /\ receiverV3Implemention \in Implementation
  BY DEF IInv, TypeOK
<1>4. World' \in Worlds
  BY <1>1, <1>2, <1>3 DEF World, Worlds
<1>5. r # NoAddr /\ receiverV3Implemention # NoAddr
  BY <1>3, AddressesDistinct, NoImplementation
<1>6. \A v \in User : userReceiversV3[v] # r
  BY <1>1, <1>3, <1>5 DEF Books, World
<1>7. Books(World)'
  <2>1. /\ logic \in [Receiver -> Implementation \cup {NoAddr}]
        /\ userReceiversV3 \in [User -> Receiver \cup {NoAddr}]
        /\ allReceiversV3 \subseteq Receiver
    BY <1>3 DEF World, Worlds
  <2>2. allReceiversV3 = {userReceiversV3[v] : v \in User} \ {NoAddr}
    BY <1>3 DEF Books, World
  <2>3. \A v, w \in User : userReceiversV3[v] = userReceiversV3[w] /\ userReceiversV3[v] # NoAddr => v = w
    BY <1>3 DEF Books, World
  <2>4. allReceiversV3' = {userReceiversV3'[v] : v \in User} \ {NoAddr}
    BY <1>1, <1>5, <1>6, <2>1, <2>2, <2>3
  <2>5. \A v, w \in User : userReceiversV3'[v] = userReceiversV3'[w] /\ userReceiversV3'[v] # NoAddr => v = w
    BY <1>1, <1>6, <2>1, <2>3
  <2>6. \A x \in allReceiversV3 : logic[x] # NoAddr
    BY <1>3 DEF Books, World
  <2>7. \A x \in allReceiversV3' : logic'[x] # NoAddr
    BY <1>1, <1>5, <2>1, <2>6
  <2> QED BY <2>4, <2>5, <2>7 DEF Books, World
<1>8. Sound(World)'
  <2>1. /\ receiverOwner \in [Receiver -> User \cup {NoAddr}]
        /\ userReceiversV3 \in [User -> Receiver \cup {NoAddr}]
        /\ logic \in [Receiver -> Implementation \cup {NoAddr}]
        /\ earned \in [Prize -> User \cup {NoAddr}]
    BY <1>3 DEF World, Worlds
  <2>2. OwnReceivers(World)'
    BY <1>1, <1>2, <1>3, <1>6, <2>1 DEF Sound, OwnReceivers, World
  <2>3. receiverOwner[r] = NoAddr
    BY <1>1, <1>3 DEF Sound, Undeployed, World
  <2>4. Reached(World)'
    BY <1>1, <1>2, <1>3, <2>1, <2>3 DEF Sound, Reached, World
  <2>5. Undeployed(World)'
    BY <1>1, <1>3, <1>5, <2>1 DEF Sound, Undeployed, World
  <2>6. Opened(World)'
    BY <1>2, <1>3 DEF Sound, Opened, World
  <2> QED BY <2>2, <2>4, <2>5, <2>6 DEF Sound
<1>9. ~Idle => /\ tx.receiver # r /\ logic'[tx.receiver] = logic[tx.receiver]
               /\ receiverOwner'[tx.receiver] = receiverOwner[tx.receiver]
  <2> SUFFICES ASSUME ~Idle PROVE /\ tx.receiver # r /\ logic'[tx.receiver] = logic[tx.receiver]
               /\ receiverOwner'[tx.receiver] = receiverOwner[tx.receiver]
    OBVIOUS
  <2>1. tx.receiver \in Receiver /\ logic[tx.receiver] # NoAddr
    BY DEF IInv, InLoan, Loans
  <2>2. /\ receiverOwner \in [Receiver -> User \cup {NoAddr}]
        /\ logic \in [Receiver -> Implementation \cup {NoAddr}]
    BY <1>3 DEF World, Worlds
  <2> QED BY <1>1, <2>1, <2>2
<1>10. /\ bnftOwner' \in [Token -> User \cup {NoAddr}]
       /\ minters' \in [Token -> User \cup Pool \cup {NoAddr}]
       /\ receiverV3Implemention' \in Implementation
  BY <1>2 DEF IInv, TypeOK
<1> QED BY <1>2, <1>4, <1>7, <1>8, <1>9, <1>10, NftsAlone, AsideKeeps

LEMMA SetupKeeps ==
  ASSUME IInv, Idle, tx' = tx,
         receiverV3Implemention' \in Implementation,
         UNCHANGED <<nfts, deeds, lockings, receivers, owners, prizes>>
  PROVE  IInv'
<1>1. World' = World
  BY DEF World
<1>2. World' \in Worlds /\ Books(World)' /\ Sound(World)'
  BY <1>1 DEF IInv, TypeOK, Books, Sound, OwnReceivers, Reached, Undeployed, Opened, World
<1> QED BY <1>2, NftsAlone, AsideKeeps DEF IInv, TypeOK

LEMMA NftMovesKeep ==
  ASSUME IInv, NEW u \in User, NEW t \in Token, NEW to \in User \cup Receiver,
         Free(u), Moves(t, to),
         UNCHANGED <<deeds, lockings, setup, receivers, owners, prizes, tx>>
  PROVE  IInv'
<1>1. World' \in Worlds /\ Books(World)' /\ Sound(World)' /\ NftsRight
  BY MovesKeeps
<1> QED BY <1>1, AsideKeeps DEF IInv, TypeOK, Free

LEMMA ApproveKeeps ==
  ASSUME IInv, NEW u \in User, NEW r \in Receiver, NEW t \in Token, NEW op,
         approveERC721(u, r, t, op)
  PROVE  IInv'
<1>1. World' \in Worlds /\ Books(World)' /\ Sound(World)' /\ NftsRight
  BY ApprovesKeeps DEF approveERC721
<1>2. UNCHANGED <<deeds, lockings, setup, receivers, owners, prizes, tx>> /\ Free(u)
  BY DEF approveERC721, Owned
<1> QED BY <1>1, <1>2, AsideKeeps DEF IInv, TypeOK, Free

LEMMA ApproveForAllKeeps ==
  ASSUME IInv, NEW u \in User, NEW r \in Receiver, NEW op, NEW flag \in BOOLEAN,
         approveERC721ForAll(u, r, op, flag)
  PROVE  IInv'
<1>1. World' \in Worlds /\ Books(World)' /\ Sound(World)' /\ NftsRight
  BY ApprovesForAllKeeps DEF approveERC721ForAll
<1>2. UNCHANGED <<deeds, lockings, setup, receivers, owners, prizes, tx>> /\ Free(u)
  BY DEF approveERC721ForAll, Owned
<1> QED BY <1>1, <1>2, AsideKeeps DEF IInv, TypeOK, Free

LEMMA CallMethodKeeps ==
  ASSUME IInv, NEW u \in User, NEW r \in Receiver, callMethod(u, r)
  PROVE  IInv'
<1>1. World' \in Worlds /\ Books(World)' /\ Sound(World)' /\ NftsRight
  BY CallListedKeeps DEF callMethod, Owned
<1>2. UNCHANGED <<deeds, lockings, setup, receivers, owners, tx>> /\ Free(u)
  BY DEF callMethod, Owned
<1> QED BY <1>1, <1>2, AsideKeeps DEF IInv, TypeOK, Free

LEMMA PrizeStepsKeep ==
  ASSUME IInv, NEW u \in User,
         \/ \E p \in Prize, to \in Recipients : SendPrize(u, p, to)
         \/ \E p \in Prize, r \in Receiver : TransferPrize(u, r, p)
  PROVE  IInv'
<1>1. /\ Free(u) /\ UNCHANGED <<nfts, deeds, lockings, setup, receivers, owners, tx>>
  BY DEF SendPrize, TransferPrize, Owned
<1>2. World \in Worlds /\ Sound(World)
  BY DEF IInv, TypeOK
<1>3. World' \in Worlds /\ Sound(World)'
  <2>1. ASSUME NEW p \in Prize, NEW to \in Recipients, SendPrize(u, p, to)
        PROVE  World' \in Worlds /\ Sound(World)'
    BY <1>1, <1>2, <2>1, InputsAreAddresses
       DEF SendPrize, World, Worlds, Sound, OwnReceivers, Reached, Undeployed, Opened
  <2>2. ASSUME NEW p \in Prize, NEW r \in Receiver, TransferPrize(u, r, p)
        PROVE  World' \in Worlds /\ Sound(World)'
    <3>1. World' \in Worlds
      BY <1>1, <1>2, <2>2 DEF TransferPrize, World, Worlds
    <3>2. OwnReceivers(World)' /\ Undeployed(World)' /\ Opened(World)'
      BY <1>1, <1>2 DEF Sound, OwnReceivers, Undeployed, Opened, World
    <3>3. earned[p] # NoAddr => earned[p] = u
      BY <1>2, <2>2, AddressesDistinct DEF TransferPrize, Owned, Sound, Reached, World, Worlds
    <3>4. Reached(World)'
      BY <1>1, <1>2, <2>2, <3>3 DEF TransferPrize, Sound, Reached, World, Worlds
    <3> QED BY <3>1, <3>2, <3>4 DEF Sound
  <2> QED BY <2>1, <2>2
<1>4. Books(World)'
  BY <1>1 DEF IInv, TypeOK, Books, World
<1> QED BY <1>1, <1>3, <1>4, NftsAlone, AsideKeeps DEF IInv, TypeOK, Free

LEMMA HandOnKeeps ==
  ASSUME IInv, NEW u \in User, NEW r \in Receiver, NEW to \in Heirs, HandOn(u, r, to)
  PROVE  IInv'
<1>1. /\ Free(u) /\ receiverOwner[r] = u
      /\ receiverOwner' = [receiverOwner EXCEPT ![r] = to]
      /\ handedOn' = handedOn \cup {r}
      /\ earned' = [p \in Prize |-> IF prizeOwner[p] = r THEN NoAddr ELSE earned[p]]
      /\ UNCHANGED <<nfts, deeds, lockings, setup, receivers, prizeOwner, tx>>
  BY DEF HandOn, Owned
<1>2. World \in Worlds /\ Sound(World) /\ to \in User \cup {NoAddr}
  BY InputsAreAddresses DEF IInv, TypeOK
<1>3. World' \in Worlds
  BY <1>1, <1>2 DEF World, Worlds
<1>4. Books(World)'
  BY <1>1 DEF IInv, TypeOK, Books, World
<1>5. receiverOwner \in [Receiver -> User \cup {NoAddr}] /\ userReceiversV3 \in [User -> Receiver \cup {NoAddr}]
  BY <1>2 DEF World, Worlds
<1>6. OwnReceivers(World)'
  BY <1>1, <1>2, <1>5 DEF Sound, OwnReceivers, World
<1>7. Reached(World)'
  BY <1>1, <1>2, <1>5 DEF Sound, Reached, World
<1>8. Undeployed(World)'
  BY <1>1, <1>2, <1>5, AddressesDistinct DEF Sound, Undeployed, World
<1>9. Opened(World)'
  BY <1>1, <1>2 DEF Sound, Opened, World
<1>10. ~Idle => tx.receiver \in Receiver
  BY DEF IInv, InLoan, Loans
<1>11. tx.receiver \notin handedOn' /\ ~Idle =>
          tx.receiver \notin handedOn /\ receiverOwner'[tx.receiver] = receiverOwner[tx.receiver]
  BY <1>1, <1>5, <1>10
<1> QED BY <1>1, <1>3, <1>4, <1>6, <1>7, <1>8, <1>9, <1>11, NftsAlone, AsideKeeps DEF IInv, TypeOK, Free, Sound

-----------------------------------------------------------------------------
LEMMA Inductive == IInv /\ [Next]_vars => IInv'
<1> SUFFICES ASSUME IInv, [Next]_vars PROVE IInv'
  OBVIOUS
<1>1. CASE LoanStep
  BY <1>1, CallContractKeeps, PayKeeps, ControlEndsKeeps, TakeBackKeeps, DoneKeeps DEF LoanStep
<1>2. CASE ~Idle /\ Revert
  BY <1>2, RevertKeeps
<1>3. ASSUME NEW i \in Implementation, setReceiverV3Implemention(i) PROVE IInv'
  BY <1>3, SetupKeeps DEF setReceiverV3Implemention
<1>4. ASSUME NEW x \in Listable, NEW flag \in BOOLEAN, setAirdropCommonAddressWhiteList(x, flag)
      PROVE  IInv'
  BY <1>4, SetupKeeps DEF setAirdropCommonAddressWhiteList, IInv, TypeOK
<1>5. ASSUME NEW u \in User, createReceiver(u) PROVE IInv'
  BY <1>5, CreateReceiverKeeps
<1>6. ASSUME NEW u \in User, NEW ids \in Ids, NEW claim \in Claims,
             flashLoan(u, ids, claim) \/ \E r \in Receiver : FlashLoanOf(u, r, ids, claim)
      PROVE  IInv'
  BY <1>6, RegistryLoanKeeps, OwnLoanKeeps
<1>7. ASSUME NEW u \in User, NEW g \in Grants, Deposit(u, g[2], g[1]) PROVE IInv'
  BY <1>7, DeedsKeep, InputsAreAddresses
<1>8. ASSUME NEW u \in User, NEW g \in Grants, NEW locked \in BOOLEAN,
             SetLocking(u, g[1], g[2], g[3], locked)
      PROVE  IInv'
  BY <1>8, SetLockingKeeps
<1>9. ASSUME NEW u \in User, NEW t \in Token, Redeem(u, t) PROVE IInv'
  BY <1>9, DeedsKeep
<1>10. ASSUME NEW u \in User, NEW t \in Token, NEW to \in Recipients, SendNft(u, t, to) PROVE IInv'
  BY <1>10, NftMovesKeep, InputsAreAddresses DEF SendNft
<1>11. ASSUME NEW u \in User, NEW p \in Prize, NEW to \in Recipients, SendPrize(u, p, to) PROVE IInv'
  BY <1>11, PrizeStepsKeep
<1>12. ASSUME NEW u \in User, NEW r \in Receiver, NEW p \in Prize, TransferPrize(u, r, p) PROVE IInv'
  BY <1>12, PrizeStepsKeep
<1>13. ASSUME NEW u \in User, NEW r \in Receiver, callMethod(u, r) PROVE IInv'
  BY <1>13, CallMethodKeeps
<1>14. ASSUME NEW u \in User, NEW r \in Receiver, NEW to \in Heirs, HandOn(u, r, to) PROVE IInv'
  BY <1>14, HandOnKeeps
<1>15. ASSUME NEW u \in User, NEW r \in Receiver, NEW t \in Token, transferERC721(u, r, t) PROVE IInv'
  BY <1>15, NftMovesKeep DEF transferERC721, Owned
<1>16. ASSUME NEW u \in User, NEW r \in Receiver, NEW t \in Token, NEW op \in Operators,
              approveERC721(u, r, t, op)
       PROVE  IInv'
  BY <1>16, ApproveKeeps
<1>17. ASSUME NEW u \in User, NEW r \in Receiver, NEW op \in Operators, NEW flag \in BOOLEAN,
              approveERC721ForAll(u, r, op, flag)
       PROVE  IInv'
  BY <1>17, ApproveForAllKeeps
<1>18. CASE UNCHANGED vars
  BY <1>18 DEF vars, IInv, TypeOK, World, Books, Sound, OwnReceivers, Reached, Undeployed, Opened,
               LocksTransient, InLoan, ApprovalLost, BorrowedStays, Idle, At
<1> QED BY <1>1, <1>2, <1>3, <1>4, <1>5, <1>6, <1>7, <1>8, <1>9, <1>10, <1>11, <1>12, <1>13,
           <1>14, <1>15, <1>16, <1>17, <1>18 DEF Next

\* The invariant holds in every reachable state.
THEOREM Invariance == Spec => []IInv
BY Initially, Inductive, PTL DEF Spec

\* Types and the registry's books (UserFlashclaimRegistryV3.sol:240-253).
THEOREM TypeCorrect == Spec => []TypeOK
<1>1. IInv => TypeOK
  BY DEF IInv
<1> QED BY <1>1, Invariance, PTL

\* The registry is a locker in a pool only within its own loan of the NFT
\* (UserFlashclaimRegistryV3.sol:147-172).
THEOREM LocksAreTransient == Spec => []LocksTransient
<1>1. IInv => LocksTransient
  BY DEF IInv
<1> QED BY <1>1, Invariance, PTL

\* What was paid for a user's loan stays within the user's reach
\* (AirdropFlashLoanReceiverV3.sol:137-187).
THEOREM PrizesStayInReach == Spec => []PrizesReachUser
<1>1. IInv => PrizesReachUser
  BY DEF IInv, Sound, Reached, PrizesReachUser, World
<1> QED BY <1>1, Invariance, PTL

\* In a loan that succeeds the NFTs never left the receiver, unless the bNFT or
\* the collection is listed or the receiver has approved somebody for all its
\* NFTs (AirdropFlashLoanReceiverV3.sol:121-124, 231-251, BNFT.sol:281-286).
THEOREM BorrowedNeverLeave == Spec => []BorrowedStays
<1>1. IInv => BorrowedStays
  BY DEF IInv
<1> QED BY <1>1, Invariance, PTL
=============================================================================

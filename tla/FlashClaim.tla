----------------------------- MODULE FlashClaim -----------------------------
(***************************************************************************)
(* Flash claims: UserFlashclaimRegistryV3.sol lends a user its bound NFTs  *)
(* through BNFT.flashLoan, to the receiver the user owns                   *)
(* (AirdropFlashLoanReceiverV3.sol), which collects an airdrop with them   *)
(* and passes the prizes on.  For NFTs bound by the lend pool or the stake *)
(* manager the registry is made a locker for the length of the call.  A    *)
(* transaction runs step by step; a payment to a contract hands it control *)
(* while the NFTs are still out.                                           *)
(***************************************************************************)
EXTENDS Integers, Sequences, FiniteSets

CONSTANTS Token,          \* ids of the underlying collection
          User,           \* accounts that hold NFTs, receivers and prizes
          Contract,       \* those of them with code
          LendPool, StakeManager,
          Registry,       \* UserFlashclaimRegistryV3
          Bnft,
          Collection,     \* the contract of the underlying collection
          Project,        \* an airdrop contract, which holds the prizes
          Prize,          \* what the project may pay
          Receiver,       \* bound: addresses clones are deployed at
          Implementation, \* implementations of the receiver
          VERSION,        \* the VERSION of each
          Claims,         \* bound: lists of payments a claim asks for
          MaxIds,         \* bound: NFTs of one loan
          Listable,       \* bound: addresses that come and go on the common list
          Operators,      \* bound: whom receivers approve
          Grants,         \* bound: minters, ids and the lockers explored for them
          Holders,        \* bound: who has the NFTs at first
          Recipients,     \* bound: who is sent NFTs and prizes
          Heirs,          \* bound: who is given a receiver
          MaxEvents,      \* bound: how often users and the owner change what is set up
          NoAddr          \* address(0)

Pool == {LendPool, StakeManager}

ASSUME ContractsAreUsers == Contract \subseteq User
ASSUME AddressesDistinct ==
    /\ Pool \cap User = {} /\ Registry \notin User \cup Pool
    /\ {Bnft, Collection, Project, NoAddr} \cap (User \cup Pool \cup Receiver \cup {Registry}) = {}
    /\ Receiver \cap (User \cup Pool \cup {Registry}) = {}
    /\ Project # NoAddr /\ Collection # Bnft
ASSUME InputsAreAddresses ==
    /\ Grants \subseteq (User \cup Pool) \X Token \X (User \cup {Registry})
    /\ Holders \subseteq User /\ Recipients \subseteq User \cup Receiver /\ Heirs \subseteq User \cup {NoAddr}
ASSUME PaymentsOfPrizes == IsFiniteSet(Prize) /\ Claims \subseteq Seq({"all", "each", "none"} \cup Prize)
ASSUME NoImplementation == NoAddr \notin Implementation

VARIABLES nftOwner,               \* ownerOf in the underlying collection
          approved,               \* NFTs at a receiver that the bNFT is approved for
          forAll,                 \* receivers that approved the bNFT for all their NFTs
          bnftOwner, minters,     \* the bound tokens
          lockings,               \* _flashLoanOperatorLockings: minter -> id -> lockers
          receiverV3Implemention,
          userReceiversV3,
          allReceiversV3,
          logic,                  \* implementation of each deployed receiver
          receiverOwner,          \* owner() of each
          common,                 \* _airdropCommonAddressWhiteList
          prizeOwner,
          tx,                     \* the transaction under way
          events,                 \* how often what was set up has changed
          moved,                  \* history: NFTs moved, by other than the bNFT, in this loan
          opened,                 \* history: receivers that approved anybody for all their NFTs
          earned,                 \* history: whose loan a prize was paid for, until it is given away
          handedOn                \* history: receivers their users gave away

deeds     == <<bnftOwner, minters>>
receivers == <<userReceiversV3, allReceiversV3, logic>>
approvals == <<approved, forAll, opened>>
nfts      == <<nftOwner, approvals, moved>>
prizes    == <<prizeOwner, earned>>
owners    == <<receiverOwner, handedOn>>
setup     == <<receiverV3Implemention, common>>
vars      == <<nfts, deeds, lockings, setup, receivers, owners, prizes, events, tx>>

\* A payment asked for: "all" that is there at once (types 1 and 3), "each" (2),
\* one prize (4), or "none" (5).
Payments == {"all", "each", "none"} \cup Prize
Ids      == UNION {[1..n -> Token] : n \in 0..MaxIds}
Set(s)   == {s[i] : i \in DOMAIN s}

\* What a revert gives back; the guard of the bNFT keeps the deeds.
World == [nfts |-> nftOwner, approved |-> approved, forAll |-> forAll, opened |-> opened,
          lockings |-> lockings,
          users |-> userReceiversV3, all |-> allReceiversV3, logic |-> logic,
          owners |-> receiverOwner, handedOn |-> handedOn, prizes |-> prizeOwner, earned |-> earned]

NoTx == [pc |-> "idle"]
Idle == tx.pc = "idle"
At(pc) == tx.pc = pc
GoTo(pc) == tx' = [tx EXCEPT !.pc = pc]

Init == /\ nftOwner \in [Token -> Holders]
        /\ approved = {} /\ forAll = {} /\ opened = {} /\ moved = {}
        /\ bnftOwner = [t \in Token |-> NoAddr]
        /\ minters = [t \in Token |-> NoAddr]
        /\ lockings = [m \in User \cup Pool |-> [t \in Token |-> {}]]
        /\ receiverV3Implemention \in Implementation
        /\ userReceiversV3 = [u \in User |-> NoAddr]
        /\ allReceiversV3 = {}
        /\ logic = [r \in Receiver |-> NoAddr]
        /\ receiverOwner = [r \in Receiver |-> NoAddr]
        /\ common = {}
        /\ prizeOwner = [p \in Prize |-> Project]
        /\ tx = NoTx
        /\ events = 0
        /\ earned = [p \in Prize |-> NoAddr]
        /\ handedOn = {}
-----------------------------------------------------------------------------
(* A loan, through the registry or by the bNFT's own flashLoan.             *)

getUserReceiver(u) ==
    LET r == userReceiversV3[u]
    IN  IF r # NoAddr /\ VERSION[logic[r]] # VERSION[receiverV3Implemention] THEN NoAddr ELSE r

\* What the registry has a pool lock, and what it unlocks afterwards; the pool
\* does it in its own name.
Pooled(m, t, ids) == t \in Set(ids) /\ m \in Pool /\ m = minters[t]
LockedFor(ids) ==
    [m \in DOMAIN lockings |-> [t \in Token |->
        IF Pooled(m, t, ids) THEN lockings[m][t] \cup {Registry} ELSE lockings[m][t]]]
\* Mutant: the stake manager's are forgotten.
LendPoolUnlocked(ids) ==
    [m \in DOMAIN lockings |-> [t \in Token |->
        IF Pooled(m, t, ids) /\ m = LendPool THEN lockings[m][t] \ {Registry} ELSE lockings[m][t]]]
UnlockedFor(ids) ==
    [m \in DOMAIN lockings |-> [t \in Token |->
        IF Pooled(m, t, ids) THEN lockings[m][t] \ {Registry} ELSE lockings[m][t]]]

MayBorrow(operator, t) ==
    /\ minters[t] # NoAddr
    /\ LET lockers == lockings'[minters[t]][t]
       IN  IF lockers # {} THEN operator \in lockers ELSE operator = bnftOwner[t]

ValidInitiator(operator, r) == operator = receiverOwner[r] \/ operator = Registry

\* Mutant: the prizes go to the initiator.
InitiatorIsTarget(operator, r) == operator
targetOwner(operator, r) == receiverOwner[r]

\* BNFT.flashLoan's checks and transfers - a repeated id is not there twice -
\* and executeOperation up to the call of the contract named, which must be
\* listed; the project's prizes are with the project.  None of it hands out
\* control; what is refused changes nothing.
Begin(operator, u, r, ids, claim) ==
    /\ ids # <<>>
    /\ \A t \in Set(ids) : MayBorrow(operator, t)
    /\ Cardinality(Set(ids)) = Len(ids)
    /\ ValidInitiator(operator, r)
    /\ claim # <<>> => Project \in common
    /\ nftOwner' = [t \in Token |-> IF t \in Set(ids) THEN r ELSE nftOwner[t]]
    /\ approved' = approved \cup Set(ids)
    /\ moved' = {}
    /\ tx' = [pc |-> "call", operator |-> operator, caller |-> u, receiver |-> r, ids |-> ids,
              claim |-> claim, left |-> 0, target |-> targetOwner(operator, r),
              saved |-> World]
    /\ UNCHANGED <<forAll, opened, deeds, setup, receivers, owners, prizes, events>>

\* UserFlashclaimRegistryV3.flashLoan.  The lists of the collection, which may
\* refuse any claim, are left out.
flashLoan(u, ids, claim) ==
    /\ Idle
    /\ getUserReceiver(u) # NoAddr
    /\ \A t \in Set(ids) : bnftOwner[t] = u /\ lockings[minters[t]][t] # {}
    /\ lockings' = LockedFor(ids)
    /\ Begin(Registry, u, getUserReceiver(u), ids, claim)

\* BNFT.flashLoan by the bound token's owner or a locker.
FlashLoanOf(u, r, ids, claim) ==
    /\ Idle
    /\ logic[r] # NoAddr
    /\ UNCHANGED lockings
    /\ Begin(u, u, r, ids, claim)

Revert ==
    /\ LET w == tx.saved
       IN  /\ nftOwner' = w.nfts
           /\ approved' = w.approved /\ forAll' = w.forAll /\ opened' = w.opened
           /\ lockings' = w.lockings
           /\ userReceiversV3' = w.users /\ allReceiversV3' = w.all /\ logic' = w.logic
           /\ receiverOwner' = w.owners /\ handedOn' = w.handedOn
           /\ prizeOwner' = w.prizes /\ earned' = w.earned
    /\ tx' = NoTx /\ moved' = {}
    /\ UNCHANGED <<deeds, setup, events>>

\* The project pays some of its prizes, or none, to receiver r for user u.
ProjectPays(u, r) ==
    \E S \in SUBSET {p \in Prize : prizeOwner[p] = Project} :
        /\ prizeOwner' = [p \in Prize |-> IF p \in S THEN r ELSE prizeOwner[p]]
        /\ earned' = [p \in Prize |-> IF p \in S /\ r \notin handedOn THEN u ELSE earned[p]]

\* An NFT leaves its holder's hands, and loses its approval.
Moves(t, to) ==
    /\ nftOwner' = [nftOwner EXCEPT ![t] = to]
    /\ approved' = approved \ {t}
    /\ moved' = IF Idle THEN moved ELSE moved \cup {t}
    /\ UNCHANGED <<forAll, opened>>

Approves(operator, t) ==
    /\ approved' = IF operator = Bnft THEN approved \cup {t} ELSE approved \ {t}
    /\ UNCHANGED <<nftOwner, forAll, opened, moved>>

\* setApprovalForAll in the collection, by receiver r.
ApprovesForAll(r, operator, flag) ==
    /\ forAll' = IF operator # Bnft THEN forAll ELSE IF flag THEN forAll \cup {r} ELSE forAll \ {r}
    /\ opened' = IF flag THEN opened \cup {r} ELSE opened
    /\ UNCHANGED <<nftOwner, approved, moved>>

\* Receiver r calls a listed contract for user u: the project, or the collection
\* in the name of a holder.
CallListed(u, r) ==
    \/ /\ Project \in common
       /\ ProjectPays(u, r)
       /\ UNCHANGED nfts
    \/ /\ Collection \in common
       /\ \/ \E operator \in Operators, flag \in BOOLEAN : ApprovesForAll(r, operator, flag)
          \/ \E t \in {x \in Token : nftOwner[x] = r} :
                \/ \E to \in Recipients : Moves(t, to)
                \/ \E operator \in Operators : Approves(operator, t)
       /\ UNCHANGED prizes

CallContract ==
    /\ At("call")
    /\ CallListed(tx.caller, tx.receiver)
    /\ GoTo("pay")
    /\ UNCHANGED <<deeds, lockings, setup, receivers, owners, events>>

Here == {p \in Prize : prizeOwner[p] = tx.receiver}

\* safeTransferFrom to the owner read at the start, who gets control if it is a contract.
PayOut(S) ==
    /\ tx.target # NoAddr
    /\ prizeOwner' = [p \in Prize |-> IF p \in S THEN tx.target ELSE prizeOwner[p]]
After(claim, left) ==
    tx' = [tx EXCEPT !.claim = claim, !.left = left,
                     !.pc = IF tx.target \in Contract THEN "control" ELSE "pay"]

\* The loop over the payments (lines 138-184): the balance is read once per entry.
Pay ==
    /\ At("pay") /\ tx.claim # <<>>
    /\ LET entry == Head(tx.claim)
           rest  == Tail(tx.claim)
       IN  \/ /\ entry = "all" /\ PayOut(Here) /\ After(rest, 0)
           \/ /\ entry = "each" /\ tx.left = 0
              /\ IF Here = {} THEN tx' = [tx EXCEPT !.claim = rest] /\ UNCHANGED prizeOwner
                 ELSE \E p \in Here : /\ PayOut({p})
                                      /\ After(IF Cardinality(Here) = 1 THEN rest ELSE tx.claim,
                                               Cardinality(Here) - 1)
           \/ /\ entry = "each" /\ tx.left > 0
              /\ \E p \in Here : PayOut({p}) /\ After(IF tx.left = 1 THEN rest ELSE tx.claim, tx.left - 1)
           \/ /\ entry \in Here /\ PayOut({entry}) /\ After(rest, 0)
           \/ /\ entry = "none" /\ tx' = [tx EXCEPT !.claim = rest] /\ UNCHANGED prizeOwner
    /\ UNCHANGED <<nfts, deeds, lockings, setup, receivers, owners, earned, events>>

ControlEnds ==
    /\ At("control")
    /\ GoTo("pay")
    /\ UNCHANGED <<nfts, deeds, lockings, setup, receivers, owners, prizes, events>>

\* Mutant: executeOperation approves the bNFT for all tokens, not for those lent.
ApprovedForAll == TRUE
ApprovedBack == Set(tx.ids) \subseteq approved \/ tx.receiver \in forAll
\* executeOperation is over: the bNFT takes back what it lent, then the registry
\* has its locks cleared.
TakeBack ==
    /\ At("pay") /\ tx.claim = <<>>
    /\ \A t \in Set(tx.ids) : nftOwner[t] = tx.receiver
    /\ ApprovedBack
    /\ nftOwner' = [t \in Token |-> IF t \in Set(tx.ids) THEN Bnft ELSE nftOwner[t]]
    /\ approved' = approved \ Set(tx.ids)
    /\ lockings' = IF tx.operator = Registry THEN UnlockedFor(tx.ids) ELSE lockings
    /\ GoTo("done")
    /\ UNCHANGED <<forAll, opened, moved, deeds, setup, receivers, owners, prizes, events>>

Done ==
    /\ At("done")
    /\ tx' = NoTx /\ moved' = {}
    /\ UNCHANGED <<nftOwner, approvals, deeds, lockings, setup, receivers, owners, prizes, events>>

LoanStep == CallContract \/ Pay \/ ControlEnds \/ TakeBack \/ Done
-----------------------------------------------------------------------------
(* Everybody else: between transactions, and contracts that are paid.       *)

Counted == events < MaxEvents /\ events' = events + 1

Free(a) == Idle \/ (At("control") /\ a \in Contract)

\* createLoan, stake, or BNFT.mint for oneself.
Deposit(u, t, m) ==
    /\ Idle
    /\ m \in Pool \cup {u}
    /\ nftOwner[t] = u /\ bnftOwner[t] = NoAddr
    /\ nftOwner' = [nftOwner EXCEPT ![t] = Bnft]
    /\ bnftOwner' = [bnftOwner EXCEPT ![t] = u]
    /\ minters' = [minters EXCEPT ![t] = m]
    /\ UNCHANGED <<approvals, moved, lockings, setup, receivers, owners, prizes, events, tx>>

\* deleteLoan, unstake (the doubles ask nobody who he is), or BNFT.burn.
Redeem(u, t) ==
    /\ Counted
    /\ Idle
    /\ minters[t] \in Pool \cup {u}
    /\ nftOwner' = [nftOwner EXCEPT ![t] = u]
    /\ bnftOwner' = [bnftOwner EXCEPT ![t] = NoAddr]
    /\ minters' = [minters EXCEPT ![t] = NoAddr]
    /\ UNCHANGED <<approvals, moved, lockings, setup, receivers, owners, prizes, tx>>

\* BNFT.setFlashLoanLocking, which has no guard: a user for its own tokens, or a
\* pool for whoever asks it.
SetLocking(a, m, t, operator, locked) ==
    /\ IF locked THEN UNCHANGED events ELSE Counted
    /\ Free(a)
    /\ m = a \/ (m \in Pool /\ operator = a)
    /\ lockings' = [lockings EXCEPT ![m][t] = IF locked THEN @ \cup {operator} ELSE @ \ {operator}]
    /\ UNCHANGED <<nfts, deeds, setup, receivers, owners, prizes, tx>>

\* Mutant: a replaced receiver stays in the registry's books.
KeepOld(u) == {}
Replaced(u) == {userReceiversV3[u]}
\* Not within a loan of the registry, which is guarded.
createReceiver(u) ==
    /\ Free(u)
    /\ ~Idle => tx.operator # Registry
    /\ getUserReceiver(u) = NoAddr
    /\ \E r \in Receiver :
         /\ logic[r] = NoAddr
         /\ logic' = [logic EXCEPT ![r] = receiverV3Implemention]
         /\ receiverOwner' = [receiverOwner EXCEPT ![r] = u]
         /\ userReceiversV3' = [userReceiversV3 EXCEPT ![u] = r]
         /\ allReceiversV3' = (allReceiversV3 \ Replaced(u)) \cup {r}
    /\ UNCHANGED <<nfts, deeds, lockings, setup, handedOn, prizes, events, tx>>

setReceiverV3Implemention(i) ==
    /\ Counted
    /\ Idle
    /\ receiverV3Implemention' = i
    /\ UNCHANGED <<nfts, deeds, lockings, common, receivers, owners, prizes, tx>>

setAirdropCommonAddressWhiteList(x, flag) ==
    /\ Idle
    /\ common' = IF flag THEN common \cup {x} ELSE common \ {x}
    /\ UNCHANGED <<nfts, deeds, lockings, receiverV3Implemention, receivers, owners, prizes, events, tx>>

SendNft(u, t, to) ==
    /\ Counted
    /\ Free(u)
    /\ nftOwner[t] = u
    /\ Moves(t, to)
    /\ UNCHANGED <<deeds, lockings, setup, receivers, owners, prizes, tx>>

SendPrize(u, p, to) ==
    /\ Counted
    /\ Free(u)
    /\ prizeOwner[p] = u
    /\ prizeOwner' = [prizeOwner EXCEPT ![p] = to]
    /\ earned' = [earned EXCEPT ![p] = NoAddr]
    /\ UNCHANGED <<nfts, deeds, lockings, setup, receivers, owners, tx>>

\* The functions of a receiver that only its owner may call.
Owned(u, r) == Free(u) /\ receiverOwner[r] = u

transferERC721(u, r, t) ==
    /\ Owned(u, r)
    /\ nftOwner[t] = r
    /\ Moves(t, u)
    /\ UNCHANGED <<deeds, lockings, setup, receivers, owners, prizes, events, tx>>

\* transferERC20 and transferERC1155, too.
TransferPrize(u, r, p) ==
    /\ Owned(u, r)
    /\ prizeOwner[p] = r
    /\ prizeOwner' = [prizeOwner EXCEPT ![p] = u]
    /\ UNCHANGED <<nfts, deeds, lockings, setup, receivers, owners, earned, events, tx>>

approveERC721(u, r, t, operator) ==
    /\ Counted
    /\ Owned(u, r)
    /\ operator \in common
    /\ nftOwner[t] = r
    /\ Approves(operator, t)
    /\ UNCHANGED <<deeds, lockings, setup, receivers, owners, prizes, tx>>

\* It outlives every transfer of an NFT, and the operator's place on the list.
approveERC721ForAll(u, r, operator, flag) ==
    /\ Counted
    /\ Owned(u, r)
    /\ operator \in common
    /\ ApprovesForAll(r, operator, flag)
    /\ UNCHANGED <<deeds, lockings, setup, receivers, owners, prizes, tx>>

callMethod(u, r) ==
    /\ Counted
    /\ Owned(u, r)
    /\ CallListed(u, r)
    /\ UNCHANGED <<deeds, lockings, setup, receivers, owners, tx>>

\* Ownable, inherited by the receiver: transferOwnership and renounceOwnership.
HandOn(u, r, to) ==
    /\ Counted
    /\ Owned(u, r)
    /\ receiverOwner' = [receiverOwner EXCEPT ![r] = to]
    /\ handedOn' = handedOn \cup {r}
    /\ earned' = [p \in Prize |-> IF prizeOwner[p] = r THEN NoAddr ELSE earned[p]]
    /\ UNCHANGED <<nfts, deeds, lockings, setup, receivers, prizeOwner, tx>>

Next ==
    \/ LoanStep
    \/ ~Idle /\ ~At("done") /\ Revert
    \/ \E i \in Implementation : setReceiverV3Implemention(i)
    \/ \E x \in Listable, flag \in BOOLEAN : setAirdropCommonAddressWhiteList(x, flag)
    \/ \E u \in User :
          \/ createReceiver(u)
          \/ \E ids \in Ids, claim \in Claims :
                flashLoan(u, ids, claim) \/ \E r \in Receiver : FlashLoanOf(u, r, ids, claim)
          \/ \E g \in Grants : Deposit(u, g[2], g[1])
          \/ \E g \in Grants, locked \in BOOLEAN : SetLocking(u, g[1], g[2], g[3], locked)
          \/ \E t \in Token :
                \/ Redeem(u, t)
                \/ \E to \in Recipients : SendNft(u, t, to)
          \/ \E p \in Prize, to \in Recipients : SendPrize(u, p, to)
          \/ \E r \in Receiver :
                \/ callMethod(u, r)
                \/ \E to \in Heirs : HandOn(u, r, to)
                \/ \E p \in Prize : TransferPrize(u, r, p)
                \/ \E op \in Operators, flag \in BOOLEAN : approveERC721ForAll(u, r, op, flag)
                \/ \E t \in Token :
                      transferERC721(u, r, t) \/ \E op \in Operators : approveERC721(u, r, t, op)

Spec == Init /\ [][Next]_vars
-----------------------------------------------------------------------------
(* Properties.                                                              *)

Worlds == [nfts : [Token -> User \cup Receiver \cup {Bnft}], approved : SUBSET Token,
           forAll : SUBSET Receiver, opened : SUBSET Receiver,
           lockings : [User \cup Pool -> [Token -> SUBSET (User \cup {Registry})]],
           users : [User -> Receiver \cup {NoAddr}], all : SUBSET Receiver,
           logic : [Receiver -> Implementation \cup {NoAddr}],
           owners : [Receiver -> User \cup {NoAddr}], handedOn : SUBSET Receiver,
           prizes : [Prize -> User \cup Receiver \cup {Project}], earned : [Prize -> User \cup {NoAddr}]]

Loans == [pc : {"call", "pay", "control", "done"}, operator : User \cup {Registry}, caller : User,
          receiver : Receiver, ids : Ids, claim : Seq(Payments), left : Nat, target : User \cup {NoAddr},
          saved : Worlds]

\* The registry's two books: each user's receiver is one that was deployed and
\* no other user's, and allReceiversV3 holds exactly these (lines 240-253).
Books(w) ==
    /\ w.all = {w.users[u] : u \in User} \ {NoAddr}
    /\ \A u, v \in User : w.users[u] = w.users[v] /\ w.users[u] # NoAddr => u = v
    /\ \A r \in w.all : w.logic[r] # NoAddr

\* Types, and the registry's books.
TypeOK ==
    /\ World \in Worlds
    /\ Books(World)
    /\ bnftOwner \in [Token -> User \cup {NoAddr}]
    /\ minters \in [Token -> User \cup Pool \cup {NoAddr}]
    /\ receiverV3Implemention \in Implementation
    /\ tx = NoTx \/ tx \in Loans
    /\ moved \subseteq Token /\ (Idle => moved = {})

\* The registry is a locker of a pooled NFT only within its own loan of that
\* NFT, whatever the user's contract does in between and however the loan ends
\* (UserFlashclaimRegistryV3.sol:147-172).
LocksTransient ==
    \A m \in Pool, t \in Token :
        Registry \in lockings[m][t] =>
            /\ ~Idle /\ ~At("done")
            /\ tx.operator = Registry
            /\ t \in Set(tx.ids) /\ minters[t] = m

\* A prize paid for a user's loan is with the user or in a receiver the user
\* can take it out of, a replaced one included, until the user gives it or the
\* receiver away (AirdropFlashLoanReceiverV3.sol:137-187, UserFlashclaimRegistryV3.sol:200-209).
PrizesReachUser ==
    \A p \in Prize : earned[p] # NoAddr =>
        \/ prizeOwner[p] = earned[p]
        \/ prizeOwner[p] \in Receiver /\ receiverOwner[prizeOwner[p]] = earned[p]

\* In a loan that succeeds the NFTs never left the receiver, although its owner
\* has control before they are returned and may take them: the approval of line
\* 123 is gone then.  It can be given again while the bNFT or the collection is
\* on the common list (lines 194-208, 231-240); and an approval for all, once
\* given by the receiver to anybody, survives the transfers, and the listing, too
\* (AirdropFlashLoanReceiverV3.sol:121-124, 242-251).
BorrowedStays ==
    At("done") =>
        \/ moved \cap Set(tx.ids) = {}
        \/ {Bnft, Collection} \cap common # {}
        \/ tx.receiver \in opened
=============================================================================

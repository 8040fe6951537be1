-------------------------------- MODULE BNFT --------------------------------
(***************************************************************************)
(* The bNFT contract (src/contracts/protocol/BNFT.sol) over the ledger of  *)
(* its underlying ERC-721 collection.                                      *)
(*                                                                         *)
(* A transaction runs alone, but a function that calls another contract    *)
(* hands it control, and that contract may call the bNFT again, move       *)
(* assets, or make the whole call revert.  `stack' holds the calls of the  *)
(* bNFT that have handed out control and have not come back; each frame    *)
(* keeps the state found at its entry, which a revert restores.  While the *)
(* stack is empty any account may start a transaction; while it is not     *)
(* only contracts run.                                                     *)
(***************************************************************************)
EXTENDS Integers, Sequences, FiniteSets

CONSTANTS Token,       \* ids of the underlying collection
          EOA,         \* accounts without code
          Contract,    \* accounts with code: receivers, airdrops, wallets
          Bnft,        \* the address of this contract
          Underlying,  \* the address of the underlying collection
          NoAddr,      \* address(0)
          Operator,    \* accounts that may be approved or locked as flash loan operator
          Granter,     \* accounts whose approvals and lockings are explored
          Admin,       \* accounts that may become owner or claim admin
          MaxIds,      \* bound: length of a flash loan's id list
          MaxDepth     \* bound: nested calls that hold control

Account == EOA \cup Contract

ASSUME AddressesDistinct ==
    /\ EOA \cap Contract = {}
    /\ Bnft # Underlying /\ Bnft # NoAddr /\ Underlying # NoAddr
    /\ {Bnft, Underlying, NoAddr} \cap Account = {}
ASSUME InputsAreAccounts ==
    Operator \subseteq Account /\ Granter \subseteq Account /\ Admin \subseteq Account
ASSUME NoAddrIsNoDeed == NoAddr \notin [minter : Account, owner : Account]
ASSUME BoundsAreNat == MaxIds \in Nat /\ MaxDepth \in Nat

VARIABLES nftOwner,                   \* ownerOf in the underlying collection
          bnftOwner,                  \* ownerOf of the bNFT, NoAddr if not minted
          minters,                    \* _minters
          status,                     \* _status, the reentrancy guard
          flashLoanOperatorApprovals, \* minter -> operators it approved
          flashLoanOperatorLockings,  \* minter -> token -> operators it locked
          owner,                      \* _owner
          claimAdmin,                 \* _claimAdmin
          isIgnoreCheckSenderOnRecv,  \* _isIgnoreCheckSenderOnRecv
          stack                       \* open calls, the innermost last

deeds  == <<bnftOwner, minters>>
grants == <<flashLoanOperatorApprovals, flashLoanOperatorLockings>>
roles  == <<owner, claimAdmin>>
vars   == <<nftOwner, deeds, status, grants, roles, isIgnoreCheckSenderOnRecv, stack>>

NotEntered == 0
Entered    == 1

Ids == UNION {[1..n -> Token] : n \in 1..MaxIds}

\* Everything a reverted call gives back.
World == [ nftOwner    |-> nftOwner,
           bnftOwner   |-> bnftOwner,
           minters     |-> minters,
           status      |-> status,
           approvals   |-> flashLoanOperatorApprovals,
           lockings    |-> flashLoanOperatorLockings,
           owner       |-> owner,
           claimAdmin  |-> claimAdmin,
           ignoreCheck |-> isIgnoreCheckSenderOnRecv ]

Worlds == [ nftOwner    : [Token -> Account \cup {Bnft}],
            bnftOwner   : [Token -> Account \cup {NoAddr}],
            minters     : [Token -> Account \cup {NoAddr}],
            status      : {NotEntered, Entered},
            approvals   : [Account -> SUBSET Operator],
            lockings    : [Account -> [Token -> SUBSET Operator]],
            owner       : Admin \cup {NoAddr},
            claimAdmin  : Admin,
            ignoreCheck : BOOLEAN ]

Functions == {"burn", "flashLoan", "claimAirdrop", "executeAirdrop", "setENSName"}

Frames == [ fn     : Functions,
            caller : Account,
            callee : Contract,
            ids    : Ids \cup {<<>>},  \* of a flash loan
            sent   : 0..MaxIds,        \* how many of ids were moved to the receiver
            saved  : Worlds ]

Init == /\ nftOwner \in [Token -> Account]
        /\ bnftOwner = [t \in Token |-> NoAddr]
        /\ minters = [t \in Token |-> NoAddr]
        /\ status = NotEntered
        /\ flashLoanOperatorApprovals = [a \in Account |-> {}]
        /\ flashLoanOperatorLockings = [a \in Account |-> [t \in Token |-> {}]]
        /\ owner \in Admin
        /\ claimAdmin \in Admin
        /\ isIgnoreCheckSenderOnRecv = FALSE
        /\ stack = <<>>
-----------------------------------------------------------------------------
(* Calls, control and reverts. *)

Top == stack[Len(stack)]

\* Who may be msg.sender of the next call.
Sender == IF stack = <<>> THEN Account ELSE Contract

\* Mutant: the modifier is missing.
NonReentrantMissing == TRUE
NonReentrant == status # Entered

\* An external call out of a nonReentrant function.
HandOver(fn, caller, callee, ids) ==
    /\ Len(stack) < MaxDepth
    /\ status' = Entered
    /\ stack' = Append(stack, [fn |-> fn, caller |-> caller, callee |-> callee, ids |-> ids,
                               sent |-> IF ids = <<>> THEN 0 ELSE 1, saved |-> World])

\* Mutant: the guard is not released on the way out.
GiveBackLocked ==
    /\ stack' = SubSeq(stack, 1, Len(stack) - 1)
    /\ UNCHANGED status
\* The innermost call returns to the bNFT and its function ends.
GiveBack ==
    /\ stack' = SubSeq(stack, 1, Len(stack) - 1)
    /\ status' = NotEntered

\* The innermost call reverts: gas runs out, the callee reverts or answers
\* false, an approval is missing, the asset is not where it should be.
RevertCall ==
    /\ stack # <<>>
    /\ stack' = SubSeq(stack, 1, Len(stack) - 1)
    /\ LET w == Top.saved IN
         /\ nftOwner' = w.nftOwner
         /\ bnftOwner' = w.bnftOwner
         /\ minters' = w.minters
         /\ status' = w.status
         /\ flashLoanOperatorApprovals' = w.approvals
         /\ flashLoanOperatorLockings' = w.lockings
         /\ owner' = w.owner
         /\ claimAdmin' = w.claimAdmin
         /\ isIgnoreCheckSenderOnRecv' = w.ignoreCheck

\* onERC721Received and its ERC-1155 twins: whose tokens are taken.
AcceptsFrom(token) == isIgnoreCheckSenderOnRecv \/ token = Underlying
-----------------------------------------------------------------------------
(* Binding and redeeming. *)

\* Mutant: the contract itself is recorded as minter.
NewMinterIsThis(sender, to) == Bnft
NewMinter(sender, to) == sender

Mint(sender, to, id) ==
    /\ NonReentrant
    /\ sender \in EOA => to = sender
    /\ bnftOwner[id] = NoAddr
    /\ nftOwner[id] = sender
    /\ AcceptsFrom(Underlying)
    /\ bnftOwner' = [bnftOwner EXCEPT ![id] = to]
    /\ minters' = [minters EXCEPT ![id] = NewMinter(sender, to)]
    /\ nftOwner' = [nftOwner EXCEPT ![id] = Bnft]
    /\ status' = NotEntered
    /\ UNCHANGED <<grants, roles, isIgnoreCheckSenderOnRecv, stack>>

\* Mutant: the bNFT's owner burns.
OwnerMayBurn(sender, id) == bnftOwner[id] = sender
MayBurn(sender, id) == minters[id] = sender

\* Mutant: `delete _minters[tokenId]' is missing.
ClearDeedKeepMinter(id) ==
    /\ bnftOwner' = [bnftOwner EXCEPT ![id] = NoAddr]
    /\ UNCHANGED minters
ClearDeed(id) ==
    /\ bnftOwner' = [bnftOwner EXCEPT ![id] = NoAddr]
    /\ minters' = [minters EXCEPT ![id] = NoAddr]

\* A contract gets control in its onERC721Received; an EOA does not.
Burn(sender, id) ==
    /\ NonReentrant
    /\ bnftOwner[id] # NoAddr
    /\ MayBurn(sender, id)
    /\ nftOwner[id] = Bnft
    /\ ClearDeed(id)
    /\ nftOwner' = [nftOwner EXCEPT ![id] = sender]
    /\ \/ sender \in EOA /\ status' = NotEntered /\ UNCHANGED stack
       \/ sender \in Contract /\ HandOver("burn", sender, sender, <<>>)
    /\ UNCHANGED <<grants, roles, isIgnoreCheckSenderOnRecv>>
-----------------------------------------------------------------------------
(* Flash loans. *)

IsFlashLoanLocked(id, minter, operator) == operator \in flashLoanOperatorLockings[minter][id]

IsFlashLoanApprovedOrOwner(id, operator) ==
    operator = bnftOwner[id] \/ operator \in flashLoanOperatorApprovals[minters[id]]

\* Lockers, if the minter set any, are the only ones to borrow; without
\* lockers the bNFT's owner and the minter's approved operators are.
MayFlashLoan(caller, id) ==
    /\ minters[id] # NoAddr
    /\ IF flashLoanOperatorLockings[minters[id]][id] # {}
         THEN IsFlashLoanLocked(id, minters[id], caller)
         ELSE IsFlashLoanApprovedOrOwner(id, caller)

\* Mutant: the loop stops one short, so the last of several ids is unchecked.
AllButLastMayBorrow(caller, ids) ==
    \A i \in 1..Len(ids) : i < Len(ids) \/ Len(ids) = 1 => MayFlashLoan(caller, ids[i])
MayBorrowAll(caller, ids) == \A i \in 1..Len(ids) : MayFlashLoan(caller, ids[i])

\* The whole list is checked, then the first asset moves and its receiver gets
\* control.  A receiver without code never completes a loan.
FlashLoan(caller, receiver, ids) ==
    /\ NonReentrant
    /\ MayBorrowAll(caller, ids)
    /\ nftOwner[ids[1]] = Bnft
    /\ nftOwner' = [nftOwner EXCEPT ![ids[1]] = receiver]
    /\ HandOver("flashLoan", caller, receiver, ids)
    /\ UNCHANGED <<deeds, grants, roles, isIgnoreCheckSenderOnRecv>>

\* The next asset of the list moves to the receiver.
FlashLoanNext ==
    /\ stack # <<>>
    /\ Top.fn = "flashLoan" /\ Top.sent < Len(Top.ids)
    /\ LET id == Top.ids[Top.sent + 1] IN
         /\ nftOwner[id] = Bnft
         /\ nftOwner' = [nftOwner EXCEPT ![id] = Top.callee]
    /\ stack' = [stack EXCEPT ![Len(stack)].sent = @ + 1]
    /\ UNCHANGED <<deeds, status, grants, roles, isIgnoreCheckSenderOnRecv>>

\* Mutant: the loop that takes the assets back stops one short.
TakeBackAllButLast(f) ==
    /\ \A i \in 1..Len(f.ids) - 1 : nftOwner[f.ids[i]] = f.callee
    /\ nftOwner' = [t \in Token |-> IF \E i \in 1..Len(f.ids) - 1 : f.ids[i] = t THEN Bnft ELSE nftOwner[t]]
\* The receiver is asked for every asset of the list, one after the other: one
\* that it does not hold, or that is listed twice, fails the whole loan.
TakeBack(f) ==
    /\ \A i \in 1..Len(f.ids) : nftOwner[f.ids[i]] = f.callee
    /\ \A i, j \in 1..Len(f.ids) : f.ids[i] = f.ids[j] => i = j
    /\ nftOwner' = [t \in Token |-> IF \E i \in 1..Len(f.ids) : f.ids[i] = t THEN Bnft ELSE nftOwner[t]]

FlashLoanReturn ==
    /\ stack # <<>>
    /\ Top.fn = "flashLoan" /\ Top.sent = Len(Top.ids)
    /\ AcceptsFrom(Underlying)
    /\ TakeBack(Top)
    /\ GiveBack
    /\ UNCHANGED <<deeds, grants, roles, isIgnoreCheckSenderOnRecv>>

SetFlashLoanApproval(minter, operator, approved) ==
    /\ NonReentrant
    /\ flashLoanOperatorApprovals' =
         [flashLoanOperatorApprovals EXCEPT ![minter] = IF approved THEN @ \cup {operator} ELSE @ \ {operator}]
    /\ status' = NotEntered
    /\ UNCHANGED <<nftOwner, deeds, flashLoanOperatorLockings, roles, isIgnoreCheckSenderOnRecv, stack>>

\* Callable while a call is open: it carries no guard.
SetFlashLoanLocking(minter, id, operator, locked) ==
    /\ flashLoanOperatorLockings' =
         [flashLoanOperatorLockings EXCEPT ![minter][id] = IF locked THEN @ \cup {operator} ELSE @ \ {operator}]
    /\ UNCHANGED <<nftOwner, deeds, status, flashLoanOperatorApprovals, roles, isIgnoreCheckSenderOnRecv, stack>>
-----------------------------------------------------------------------------
(* Airdrops and administration. *)

\* Mutant: the check of the target is missing.
NotProtectedMissing(target) == TRUE
NotProtected(target) == target \notin {Underlying, Bnft}

\* The ledger after a call made in the bNFT's name: the collection obeys its
\* holder, any other contract has no power over the bNFT's assets.
AfterCallTo(target) ==
    IF target = Underlying
      THEN {[nftOwner EXCEPT ![id] = a] : id \in {t \in Token : nftOwner[t] = Bnft}, a \in Account}
      ELSE {nftOwner}

\* claimERC20Airdrop, claimERC721Airdrop and claimERC1155Airdrop: the claimed
\* token contract (or the recipient's hook) gets control.
ClaimAirdrop(sender, token, callee) ==
    /\ NonReentrant
    /\ sender = claimAdmin
    /\ NotProtected(token)
    /\ token \in Contract => callee = token
    /\ nftOwner' \in AfterCallTo(token)
    /\ HandOver("claimAirdrop", sender, callee, <<>>)
    /\ UNCHANGED <<deeds, grants, roles, isIgnoreCheckSenderOnRecv>>

\* An arbitrary call to the airdrop project; foreign tokens are taken meanwhile.
ExecuteAirdrop(sender, airdropContract, callee) ==
    /\ NonReentrant
    /\ sender = claimAdmin
    /\ NotProtected(airdropContract)
    /\ airdropContract \in Contract => callee = airdropContract
    /\ isIgnoreCheckSenderOnRecv' = TRUE
    /\ nftOwner' \in AfterCallTo(airdropContract)
    /\ HandOver("executeAirdrop", sender, callee, <<>>)
    /\ UNCHANGED <<deeds, grants, roles>>

SetENSName(sender, registrar) ==
    /\ NonReentrant
    /\ sender = owner
    /\ HandOver("setENSName", sender, registrar, <<>>)
    /\ UNCHANGED <<nftOwner, deeds, grants, roles, isIgnoreCheckSenderOnRecv>>

\* Mutant: the flag survives the airdrop.
FlagAfterSticky(fn) == isIgnoreCheckSenderOnRecv
FlagAfter(fn) == IF fn = "executeAirdrop" THEN FALSE ELSE isIgnoreCheckSenderOnRecv

\* Any call but a flash loan ends as soon as the callee returns.
CallReturn ==
    /\ stack # <<>>
    /\ Top.fn # "flashLoan"
    /\ isIgnoreCheckSenderOnRecv' = FlagAfter(Top.fn)
    /\ GiveBack
    /\ UNCHANGED <<nftOwner, deeds, grants, roles>>

\* The roles are not behind the reentrancy guard.
TransferOwnership(sender, newOwner) ==
    /\ sender = owner
    /\ owner' = newOwner
    /\ UNCHANGED <<nftOwner, deeds, status, grants, claimAdmin, isIgnoreCheckSenderOnRecv, stack>>

RenounceOwnership(sender) ==
    /\ sender = owner
    /\ owner' = NoAddr
    /\ UNCHANGED <<nftOwner, deeds, status, grants, claimAdmin, isIgnoreCheckSenderOnRecv, stack>>

\* Mutant: the claim admin may hand the role on.
AdminHandsOn(sender) == sender \in {owner, claimAdmin}
MaySetClaimAdmin(sender) == sender = owner

SetClaimAdmin(sender, newAdmin) ==
    /\ MaySetClaimAdmin(sender)
    /\ claimAdmin' = newAdmin
    /\ UNCHANGED <<nftOwner, deeds, status, grants, owner, isIgnoreCheckSenderOnRecv, stack>>

\* The underlying collection: a holder, or somebody it approved, moves an asset,
\* possibly to the bNFT itself.  Only the bNFT moves what the bNFT holds.
ExtTransfer(id, to) ==
    /\ nftOwner[id] # Bnft
    /\ nftOwner[id] # to
    /\ nftOwner' = [nftOwner EXCEPT ![id] = to]
    /\ UNCHANGED <<deeds, status, grants, roles, isIgnoreCheckSenderOnRecv, stack>>
-----------------------------------------------------------------------------
UserCall(sender) ==
    \E id \in Token :
        \/ \E to \in Account : Mint(sender, to, id)
        \/ Burn(sender, id)

LoanCall(sender) ==
    \/ \E receiver \in Contract, ids \in Ids : FlashLoan(sender, receiver, ids)
    \/ /\ sender \in Granter
       /\ \E operator \in Operator, on \in BOOLEAN :
            \/ SetFlashLoanApproval(sender, operator, on)
            \/ \E id \in Token : SetFlashLoanLocking(sender, id, operator, on)

AdminCall(sender) ==
    \/ \E target \in Contract \cup {Underlying}, callee \in Contract :
         ClaimAirdrop(sender, target, callee) \/ ExecuteAirdrop(sender, target, callee)
    \/ \E registrar \in Contract : SetENSName(sender, registrar)
    \/ \E a \in Admin : TransferOwnership(sender, a) \/ SetClaimAdmin(sender, a)
    \/ RenounceOwnership(sender)

CallEnds == FlashLoanReturn \/ CallReturn \/ RevertCall

Next == \/ \E sender \in Sender : UserCall(sender) \/ LoanCall(sender) \/ AdminCall(sender)
        \/ FlashLoanNext
        \/ CallEnds
        \/ \E id \in Token, to \in Account \cup {Bnft} : ExtTransfer(id, to)

Spec == Init /\ [][Next]_vars

\* Every call ends: gas is finite, so a callee returns or the call reverts.
FairSpec == Spec /\ WF_vars(CallEnds)
-----------------------------------------------------------------------------
(* Properties. *)

\* Every variable has its type.
TypeOK ==
    /\ World \in Worlds
    /\ stack \in Seq(Frames)

OnLoan(id) == \E d \in 1..Len(stack) :
    stack[d].fn = "flashLoan" /\ \E i \in 1..stack[d].sent : stack[d].ids[i] = id

\* The reentrancy guard (BNFT.sol:59-71) does what it is for: at most one
\* function has handed out control, and the guard is up exactly while one has.
Guarded ==
    /\ Len(stack) <= 1
    /\ status = Entered <=> stack # <<>>

\* A bNFT is backed: while it exists the asset is in the contract, or was
\* handed to the receiver of a flash loan that is still open (BNFT.sol:271-286).
Custody == \A id \in Token : bnftOwner[id] # NoAddr => nftOwner[id] = Bnft \/ OnLoan(id)

\* _exists and minterOf agree on every token: mint and burn write both ledgers
\* or none, also when their external call fails (BNFT.sol:211-216, 235-239).
MinterIffBound == \A id \in Token : bnftOwner[id] = NoAddr <=> minters[id] = NoAddr

\* The receive hook (BNFT.sol:528-578) takes tokens of other contracts only
\* while an airdrop is being executed.
HookClosed ==
    (\E c \in Contract : AcceptsFrom(c)) => \E d \in 1..Len(stack) : stack[d].fn = "executeAirdrop"

\* Whatever a borrower does with the assets, the bNFT's owner and the minter
\* stay who they were when the loan began (BNFT.sol:255, the CAUTION).
LoanFreezesDeeds ==
    \A d \in 1..Len(stack) : stack[d].fn = "flashLoan" =>
        /\ bnftOwner = stack[d].saved.bnftOwner
        /\ minters = stack[d].saved.minters

\* The minter of id let the caller of f borrow it, by the state at the call.
Consented(f, id) ==
    LET w == f.saved
        m == w.minters[id]
    IN  /\ m # NoAddr
        /\ \/ f.caller \in w.lockings[m][id]
           \/ /\ w.lockings[m][id] = {}
              /\ f.caller = w.bnftOwner[id] \/ f.caller \in w.approvals[m]

\* Every asset of an open loan was lent with its minter's consent: the caller
\* is one of the minter's lockers of that asset or, only if there are none, its
\* bNFT's owner or an operator the minter approved.
LentWithConsent ==
    \A d \in 1..Len(stack) : stack[d].fn = "flashLoan" =>
        \A i \in 1..Len(stack[d].ids) : Consented(stack[d], stack[d].ids[i])

\* A bNFT that ends hands its asset to the minter and to nobody else, the owner
\* of the bNFT included, in the very step that ends it (BNFT.sol:229-242).
RedeemedToMinter == [][
    \A id \in Token : minters[id] # NoAddr /\ minters'[id] = NoAddr => nftOwner'[id] = minters[id] ]_vars

\* What the chain will remember: the state before the outermost open call, if
\* there is one, since that call may yet revert.
Committed == IF stack = <<>> THEN World ELSE stack[1].saved

\* A renounced contract has no owner ever again and keeps its claim admin
\* (BNFT.sol:113-122), also when a callback renounces and then reverts.
RenouncedForever == [][
    Committed.owner = NoAddr =>
        Committed'.owner = NoAddr /\ Committed'.claimAdmin = Committed.claimAdmin ]_vars

\* The contract implements the vault: deeds and assets move together, and
\* nothing but a deed lets an asset out - one sent to the contract without mint
\* is out of reach for good, as BNFT.sol has no rescue function.
CommittedDeed ==
    [t \in Token |-> IF Committed.minters[t] = NoAddr THEN NoAddr
                     ELSE [minter |-> Committed.minters[t], owner |-> Committed.bnftOwner[t]]]

V == INSTANCE BoundVault WITH Vault <- Bnft, NoDeed <- NoAddr,
                              holder <- Committed.nftOwner, deed <- CommittedDeed
ImplementsVault == V!Spec

\* setFlashLoanLocking: "Operators can call {flashLoan} for any token minted by
\* the minter" (IBNFT.sol, the comment on setFlashLoanLocking).
LockerBorrowsAnyOfMinter ==
    \A m \in Account, operator \in Operator, t, id \in Token :
        operator \in flashLoanOperatorLockings[m][t] /\ minters[t] = m /\ minters[id] = m =>
            MayFlashLoan(operator, id)

\* The guard is always released: no callee can keep the contract locked.
GuardReleased == status = Entered ~> status = NotEntered
=============================================================================

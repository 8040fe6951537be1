----------------------------- MODULE BNFTProofs -----------------------------
(***************************************************************************)
(* Safety of the bNFT contract for every collection, every set of accounts *)
(* and every bound.  The inductive invariant is built in three layers:     *)
(* who is in control (Control), what the two ledgers say (Ledgers), and    *)
(* who asked for the open loan (LentWithConsent).  The second half shows   *)
(* that the contract implements the vault.                                 *)
(***************************************************************************)
EXTENDS BNFT, StackLemmas

\* The only open frame, if there is one.
Frame == stack[1]
Idle == stack = <<>>

\* The hook is open exactly for an airdrop, and a call starts from a state in
\* which neither the guard nor the hook is up.
FrameQuiet ==
    /\ isIgnoreCheckSenderOnRecv => ~Idle /\ Frame.fn = "executeAirdrop"
    /\ ~Idle => Frame.saved.status = NotEntered /\ ~Frame.saved.ignoreCheck

Control == TypeOK /\ Guarded /\ FrameQuiet
-----------------------------------------------------------------------------
(* Lists and fields. *)

\* Id lists are non-empty sequences within the bound.
LEMMA IdsAreLists ==
    ASSUME NEW ids \in Ids
    PROVE  /\ ids \in Seq(Token)
           /\ Len(ids) \in 1..MaxIds
           /\ ids # <<>>
           /\ \A i \in 1..Len(ids) : ids[i] \in Token
  <1>1. PICK n \in 1..MaxIds : ids \in [1..n -> Token]
    BY DEF Ids
  <1>2. ids \in Seq(Token) /\ Len(ids) = n
    BY <1>1, BoundsAreNat
  <1> QED
    BY <1>1, <1>2, BoundsAreNat

\* The type of the state, field by field.
LEMMA WorldFields ==
    World \in Worlds <=>
      /\ nftOwner \in [Token -> Account \cup {Bnft}]
      /\ bnftOwner \in [Token -> Account \cup {NoAddr}]
      /\ minters \in [Token -> Account \cup {NoAddr}]
      /\ status \in {NotEntered, Entered}
      /\ flashLoanOperatorApprovals \in [Account -> SUBSET Operator]
      /\ flashLoanOperatorLockings \in [Account -> [Token -> SUBSET Operator]]
      /\ owner \in Admin \cup {NoAddr}
      /\ claimAdmin \in Admin
      /\ isIgnoreCheckSenderOnRecv \in BOOLEAN
  BY DEF World, Worlds
-----------------------------------------------------------------------------
(* Control: types, the reentrancy guard and the receive hook. *)

\* With the guard down nothing is open and the hook is closed.
LEMMA GuardDown ==
    ASSUME Control, NonReentrant
    PROVE  Idle /\ status = NotEntered /\ ~isIgnoreCheckSenderOnRecv
  BY WorldFields DEF Control, TypeOK, Guarded, FrameQuiet, NonReentrant, Idle, NotEntered, Entered

\* An open call is the only one.
LEMMA OpenCall ==
    ASSUME Control, ~Idle
    PROVE  Len(stack) = 1 /\ Top = Frame /\ Frame \in Frames /\ status = Entered
  BY EmptyOrOne DEF Control, TypeOK, Guarded, Idle, Top, Frame

\* Handing over control opens the one frame that keeps the state at the call.
LEMMA Opens ==
    ASSUME Control, NonReentrant,
           NEW fn \in Functions, NEW caller \in Account, NEW callee \in Contract,
           NEW ids \in Ids \cup {<<>>}, HandOver(fn, caller, callee, ids)
    PROVE  /\ stack' \in Seq(Frames)
           /\ Len(stack') = 1
           /\ ~Idle'
           /\ Frame' = [fn |-> fn, caller |-> caller, callee |-> callee, ids |-> ids,
                        sent |-> IF ids = <<>> THEN 0 ELSE 1, saved |-> World]
           /\ status' = Entered
           /\ ~World.ignoreCheck /\ World.status = NotEntered
  <1> DEFINE f == [fn |-> fn, caller |-> caller, callee |-> callee, ids |-> ids,
                   sent |-> IF ids = <<>> THEN 0 ELSE 1, saved |-> World]
  <1>1. f.sent \in 0..MaxIds
    BY IdsAreLists, BoundsAreNat
  <1>2. f \in Frames
    BY <1>1 DEF Frames, Control, TypeOK
  <1>3. stack' = Append(<<>>, f)
    BY GuardDown DEF HandOver, Idle
  <1>4. ~World.ignoreCheck /\ World.status = NotEntered
    BY GuardDown DEF World
  <1> HIDE DEF f
  <1>5. stack' \in Seq(Frames) /\ Len(stack') = 1 /\ stack' # <<>> /\ stack'[1] = f
    BY <1>2, <1>3, PushOne
  <1> QED
    BY <1>4, <1>5 DEF HandOver, Idle, Frame, f

\* An open call that ends leaves none.
LEMMA Closes ==
    ASSUME Control, stack # <<>>, stack' = SubSeq(stack, 1, Len(stack) - 1)
    PROVE  Idle' /\ stack' \in Seq(Frames) /\ Len(stack') = 0
  BY OpenCall, PopOne DEF Control, TypeOK, Idle

\* A step that leaves the stack, the guard and the hook alone keeps Control if
\* it keeps the type of the state.
LEMMA ControlFrame ==
    ASSUME Control, (World \in Worlds)', UNCHANGED <<status, isIgnoreCheckSenderOnRecv, stack>>
    PROVE  Control'
  BY DEF Control, TypeOK, Guarded, FrameQuiet, Idle, Frame

LEMMA SenderIsAccount == Sender \subseteq Account
  BY DEF Sender, Account

LEMMA ControlUserCall ==
    ASSUME Control, NEW sender \in Sender, UserCall(sender)
    PROVE  Control'
  <1> USE SenderIsAccount, AddressesDistinct
  <1>1. PICK id \in Token : (\E to \in Account : Mint(sender, to, id)) \/ Burn(sender, id)
    BY DEF UserCall
  <1>2. ASSUME NEW to \in Account, Mint(sender, to, id) PROVE Control'
    <2>1. (World \in Worlds)'
      BY <1>2, WorldFields DEF Mint, NewMinter, grants, roles, Control, TypeOK, World, Worlds
    <2>2. UNCHANGED <<status, isIgnoreCheckSenderOnRecv, stack>>
      BY <1>2, GuardDown DEF Mint
    <2> QED
      BY <2>1, <2>2, ControlFrame
  <1>3. CASE Burn(sender, id)
    <2>1. Idle /\ status = NotEntered /\ ~isIgnoreCheckSenderOnRecv
      BY <1>3, GuardDown DEF Burn
    <2>2. (World \in Worlds)'
      BY <1>3, WorldFields DEF Burn, ClearDeed, HandOver, grants, roles, Control, TypeOK, World, Worlds
    <2>3. CASE sender \in EOA /\ status' = NotEntered /\ UNCHANGED stack
      BY <1>3, <2>1, <2>2, <2>3, ControlFrame DEF Burn
    <2>4. CASE sender \in Contract /\ HandOver("burn", sender, sender, <<>>)
      <3>1. ~Idle' /\ stack' \in Seq(Frames) /\ Len(stack') = 1 /\ status' = Entered
            /\ Frame'.saved.status = NotEntered /\ ~Frame'.saved.ignoreCheck
        BY <1>3, <2>4, Opens DEF Burn, Functions
      <3> QED
        BY <1>3, <2>1, <2>2, <3>1 DEF Burn, Control, TypeOK, Guarded, FrameQuiet, Idle
    <2> QED
      BY <1>3, <2>3, <2>4 DEF Burn
  <1> QED
    BY <1>1, <1>2, <1>3

LEMMA ControlLoanCall ==
    ASSUME Control, NEW sender \in Sender, LoanCall(sender)
    PROVE  Control'
  <1> USE SenderIsAccount, AddressesDistinct
  <1>1. ASSUME NEW receiver \in Contract, NEW ids \in Ids, FlashLoan(sender, receiver, ids)
        PROVE  Control'
    <2>1. ids[1] \in Token
      BY IdsAreLists
    <2>2. (World \in Worlds)'
      BY <1>1, <2>1, WorldFields
         DEF FlashLoan, HandOver, deeds, grants, roles, Account, Control, TypeOK, World, Worlds
    <2>3. ~isIgnoreCheckSenderOnRecv
      BY <1>1, GuardDown DEF FlashLoan
    <2>4. ~Idle' /\ stack' \in Seq(Frames) /\ Len(stack') = 1 /\ status' = Entered
          /\ Frame'.saved.status = NotEntered /\ ~Frame'.saved.ignoreCheck
      BY <1>1, Opens DEF FlashLoan, Functions
    <2> QED
      BY <1>1, <2>2, <2>3, <2>4 DEF FlashLoan, Control, TypeOK, Guarded, FrameQuiet, Idle
  <1>2. ASSUME NEW operator \in Operator, NEW on \in BOOLEAN,
               SetFlashLoanApproval(sender, operator, on)
        PROVE  Control'
    <2>1. (World \in Worlds)'
      BY <1>2, WorldFields DEF SetFlashLoanApproval, deeds, roles, Control, TypeOK, World, Worlds
    <2>2. UNCHANGED <<status, isIgnoreCheckSenderOnRecv, stack>>
      BY <1>2, GuardDown DEF SetFlashLoanApproval
    <2> QED
      BY <2>1, <2>2, ControlFrame
  <1>3. ASSUME NEW operator \in Operator, NEW on \in BOOLEAN, NEW id \in Token,
               SetFlashLoanLocking(sender, id, operator, on)
        PROVE  Control'
    <2>1. (World \in Worlds)'
      BY <1>3, WorldFields DEF SetFlashLoanLocking, deeds, roles, Control, TypeOK, World, Worlds
    <2> QED
      BY <1>3, <2>1, ControlFrame DEF SetFlashLoanLocking
  <1> QED
    BY <1>1, <1>2, <1>3 DEF LoanCall

LEMMA ControlAdminCall ==
    ASSUME Control, NEW sender \in Sender, AdminCall(sender)
    PROVE  Control'
  <1> USE SenderIsAccount, AddressesDistinct
  <1>1. ASSUME NEW target, NEW callee \in Contract, ClaimAirdrop(sender, target, callee)
        PROVE  Control'
    <2>1. nftOwner' = nftOwner
      BY <1>1 DEF ClaimAirdrop, NotProtected, AfterCallTo
    <2>2. (World \in Worlds)'
      BY <1>1, <2>1, WorldFields DEF ClaimAirdrop, HandOver, deeds, grants, roles, Control, TypeOK, World, Worlds
    <2>3. ~isIgnoreCheckSenderOnRecv
      BY <1>1, GuardDown DEF ClaimAirdrop
    <2>4. ~Idle' /\ stack' \in Seq(Frames) /\ Len(stack') = 1 /\ status' = Entered
          /\ Frame'.saved.status = NotEntered /\ ~Frame'.saved.ignoreCheck
      BY <1>1, Opens DEF ClaimAirdrop, Functions
    <2> QED
      BY <1>1, <2>2, <2>3, <2>4 DEF ClaimAirdrop, Control, TypeOK, Guarded, FrameQuiet, Idle
  <1>2. ASSUME NEW target, NEW callee \in Contract, ExecuteAirdrop(sender, target, callee)
        PROVE  Control'
    <2>1. nftOwner' = nftOwner
      BY <1>2 DEF ExecuteAirdrop, NotProtected, AfterCallTo
    <2>2. (World \in Worlds)'
      BY <1>2, <2>1, WorldFields DEF ExecuteAirdrop, HandOver, deeds, grants, roles, Control, TypeOK, World, Worlds
    <2>3. ~Idle' /\ stack' \in Seq(Frames) /\ Len(stack') = 1 /\ status' = Entered
          /\ Frame'.saved.status = NotEntered /\ ~Frame'.saved.ignoreCheck
          /\ Frame'.fn = "executeAirdrop"
      BY <1>2, Opens DEF ExecuteAirdrop, Functions
    <2> QED
      BY <1>2, <2>2, <2>3 DEF ExecuteAirdrop, Control, TypeOK, Guarded, FrameQuiet, Idle
  <1>3. ASSUME NEW registrar \in Contract, SetENSName(sender, registrar)
        PROVE  Control'
    <2>1. (World \in Worlds)'
      BY <1>3, WorldFields DEF SetENSName, HandOver, deeds, grants, roles, Control, TypeOK, World, Worlds
    <2>2. ~isIgnoreCheckSenderOnRecv
      BY <1>3, GuardDown DEF SetENSName
    <2>3. ~Idle' /\ stack' \in Seq(Frames) /\ Len(stack') = 1 /\ status' = Entered
          /\ Frame'.saved.status = NotEntered /\ ~Frame'.saved.ignoreCheck
      BY <1>3, Opens DEF SetENSName, Functions
    <2> QED
      BY <1>3, <2>1, <2>2, <2>3 DEF SetENSName, Control, TypeOK, Guarded, FrameQuiet, Idle
  <1>4. ASSUME NEW a \in Admin,
               TransferOwnership(sender, a) \/ SetClaimAdmin(sender, a) \/ RenounceOwnership(sender)
        PROVE  Control'
    <2>1. (World \in Worlds)'
      BY <1>4, WorldFields
         DEF TransferOwnership, SetClaimAdmin, RenounceOwnership, deeds, grants, Control, TypeOK, World, Worlds
    <2> QED
      BY <1>4, <2>1, ControlFrame DEF TransferOwnership, SetClaimAdmin, RenounceOwnership
  <1>5. Admin # {}
    BY WorldFields DEF Control, TypeOK
  <1> QED
    BY <1>1, <1>2, <1>3, <1>4, <1>5 DEF AdminCall

\* The next asset of an open loan: the frame only counts one more.
LEMMA LoanStep ==
    ASSUME Control, FlashLoanNext
    PROVE  LET id == Frame.ids[Frame.sent + 1] IN
           /\ ~Idle /\ Frame.fn = "flashLoan" /\ Frame.sent < Len(Frame.ids)
           /\ id \in Token /\ nftOwner[id] = Bnft
           /\ nftOwner' = [nftOwner EXCEPT ![id] = Frame.callee]
           /\ Frame' = [Frame EXCEPT !.sent = @ + 1]
           /\ Frame' \in Frames
           /\ Len(stack') = 1 /\ ~Idle'
           /\ stack' \in Seq(Frames)
  <1>1. /\ Len(stack) = 1 /\ Top = Frame /\ Frame \in Frames /\ ~Idle
        /\ Frame.fn = "flashLoan" /\ Frame.sent < Len(Frame.ids)
    BY OpenCall DEF FlashLoanNext, Idle
  <1>2. Frame.ids \in Ids
    <2>1. Frame.ids = <<>> => Len(Frame.ids) = 0
      OBVIOUS
    <2> QED
      BY <1>1, <2>1 DEF Frames
  <1>3. Frame.sent \in Nat /\ Frame.sent + 1 \in 1..Len(Frame.ids) /\ Len(Frame.ids) \in 1..MaxIds
    BY <1>1, <1>2, IdsAreLists, BoundsAreNat DEF Frames
  <1>4. Frame.ids[Frame.sent + 1] \in Token
    BY <1>2, <1>3, IdsAreLists
  <1> DEFINE f == [Frame EXCEPT !.sent = @ + 1]
  <1>5. f \in Frames
    BY <1>1, <1>3, BoundsAreNat DEF Frames
  <1>6. stack' = [stack EXCEPT ![1] = f]
    BY <1>1 DEF FlashLoanNext, Frame
  <1> HIDE DEF f
  <1>7. stack' \in Seq(Frames) /\ Len(stack') = 1 /\ stack'[1] = f
    BY <1>1, <1>5, <1>6, ReplaceOne DEF Control, TypeOK
  <1>8. ~Idle'
    BY <1>7, EmptySeq DEF Idle
  <1> QED
    BY <1>1, <1>4, <1>5, <1>7, <1>8 DEF FlashLoanNext, Frame, f

LEMMA ControlLoanNext ==
    ASSUME Control, FlashLoanNext
    PROVE  Control'
  <1>1. ~Idle /\ status = Entered /\ Frame \in Frames
    BY LoanStep, OpenCall
  <1>2. (World \in Worlds)'
    BY <1>1, LoanStep, WorldFields
       DEF FlashLoanNext, Frames, deeds, grants, roles, Account, Control, TypeOK, World, Worlds
  <1>3. Frame'.fn = Frame.fn /\ Frame'.saved = Frame.saved
    BY <1>1, LoanStep DEF Frames
  <1> QED
    BY <1>1, <1>2, <1>3, LoanStep DEF FlashLoanNext, Control, TypeOK, Guarded, FrameQuiet, Idle

LEMMA ControlCallEnds ==
    ASSUME Control, CallEnds
    PROVE  Control'
  <1>1. /\ Idle' /\ stack' \in Seq(Frames) /\ Len(stack') = 0
        /\ ~Idle /\ Top = Frame /\ Frame \in Frames
    BY Closes, OpenCall DEF CallEnds, FlashLoanReturn, CallReturn, RevertCall, GiveBack, Idle
  <1>2. CASE FlashLoanReturn
    <2>1. (World \in Worlds)'
      BY <1>2, WorldFields
         DEF FlashLoanReturn, TakeBack, GiveBack, deeds, grants, roles, Control, TypeOK, World, Worlds
    <2>2. ~isIgnoreCheckSenderOnRecv' /\ status' = NotEntered
      BY <1>1, <1>2 DEF FlashLoanReturn, GiveBack, Control, FrameQuiet
    <2> QED
      BY <1>1, <2>1, <2>2 DEF Control, TypeOK, Guarded, FrameQuiet, Idle, NotEntered, Entered
  <1>3. CASE CallReturn
    <2>1. (World \in Worlds)'
      BY <1>3, WorldFields
         DEF CallReturn, FlagAfter, GiveBack, deeds, grants, roles, Control, TypeOK, World, Worlds
    <2>2. ~isIgnoreCheckSenderOnRecv' /\ status' = NotEntered
      BY <1>1, <1>3 DEF CallReturn, FlagAfter, GiveBack, Control, FrameQuiet
    <2> QED
      BY <1>1, <2>1, <2>2 DEF Control, TypeOK, Guarded, FrameQuiet, Idle, NotEntered, Entered
  <1>4. CASE RevertCall
    <2>1. Frame.saved \in Worlds
      BY <1>1 DEF Frames
    <2>2. (World \in Worlds)'
      BY <1>1, <1>4, <2>1, WorldFields DEF RevertCall, World, Worlds
    <2>3. ~isIgnoreCheckSenderOnRecv' /\ status' = NotEntered
      BY <1>1, <1>4 DEF RevertCall, Control, FrameQuiet
    <2> QED
      BY <1>1, <2>2, <2>3 DEF Control, TypeOK, Guarded, FrameQuiet, Idle, NotEntered, Entered
  <1> QED
    BY <1>2, <1>3, <1>4 DEF CallEnds

\* Types, the guard and the hook hold of every reachable state.
THEOREM ControlInvariant == Spec => []Control
  <1>1. Init => Control
    <2> SUFFICES ASSUME Init PROVE Control
      OBVIOUS
    <2>1. nftOwner \in [Token -> Account \cup {Bnft}]
      BY DEF Init
    <2>2. bnftOwner \in [Token -> Account \cup {NoAddr}] /\ minters \in [Token -> Account \cup {NoAddr}]
      BY DEF Init
    <2>3. /\ flashLoanOperatorApprovals \in [Account -> SUBSET Operator]
          /\ flashLoanOperatorLockings \in [Account -> [Token -> SUBSET Operator]]
      BY DEF Init
    <2>4. World \in Worlds
      BY <2>1, <2>2, <2>3, WorldFields DEF Init
    <2>5. stack \in Seq(Frames) /\ Len(stack) = 0
      BY EmptySeq DEF Init
    <2> QED
      BY <2>4, <2>5 DEF Init, Control, TypeOK, Guarded, FrameQuiet, Idle, NotEntered, Entered
  <1>2. Control /\ [Next]_vars => Control'
    <2> SUFFICES ASSUME Control, [Next]_vars PROVE Control'
      OBVIOUS
    <2>1. CASE \E sender \in Sender : UserCall(sender) \/ LoanCall(sender) \/ AdminCall(sender)
      BY <2>1, ControlUserCall, ControlLoanCall, ControlAdminCall
    <2>2. CASE FlashLoanNext
      BY <2>2, ControlLoanNext
    <2>3. CASE CallEnds
      BY <2>3, ControlCallEnds
    <2>4. ASSUME NEW id \in Token, NEW to \in Account \cup {Bnft}, ExtTransfer(id, to)
          PROVE  Control'
      <3>1. (World \in Worlds)'
        BY <2>4, WorldFields DEF ExtTransfer, deeds, grants, roles, Control, TypeOK, World, Worlds
      <3> QED
        BY <2>4, <3>1, ControlFrame DEF ExtTransfer
    <2>5. CASE UNCHANGED vars
      <3>1. (World \in Worlds)'
        BY <2>5 DEF vars, deeds, grants, roles, Control, TypeOK, World
      <3> QED
        BY <2>5, <3>1, ControlFrame DEF vars
    <2> QED
      BY <2>1, <2>2, <2>3, <2>4, <2>5 DEF Next
  <1> QED
    BY <1>1, <1>2, PTL DEF Spec

\* Every variable has its type in every reachable state, for any collection,
\* any accounts and any bounds.
THEOREM TypeCorrect == Spec => []TypeOK
  BY ControlInvariant, PTL DEF Control

\* At most one function of the contract has handed out control, and the guard
\* is up exactly while one has (BNFT.sol:59-71).
THEOREM GuardCorrect == Spec => []Guarded
  BY ControlInvariant, PTL DEF Control

\* The receive hook is open to foreign tokens only during an airdrop.
THEOREM HookCorrect == Spec => []HookClosed
  <1>1. Control => HookClosed
    <2>1. Underlying \notin Contract
      BY AddressesDistinct DEF Account
    <2>2. Control /\ ~Idle => Len(stack) = 1
      BY OpenCall
    <2> QED
      BY <2>1, <2>2 DEF Control, FrameQuiet, HookClosed, AcceptsFrom, Frame
  <1> QED
    BY <1>1, ControlInvariant, PTL
-----------------------------------------------------------------------------
(* Ledgers: what the two ledgers say of each other, now and in the state that *)
(* a revert of the open call would restore.                                   *)

\* The state at the open call was one with nothing open: every bNFT backed,
\* both ledgers in step.
SavedSound ==
    ~Idle => \A id \in Token :
        /\ Frame.saved.bnftOwner[id] # NoAddr => Frame.saved.nftOwner[id] = Bnft
        /\ Frame.saved.bnftOwner[id] = NoAddr <=> Frame.saved.minters[id] = NoAddr

Ledgers == Custody /\ MinterIffBound /\ LoanFreezesDeeds /\ SavedSound

\* What the properties over all open calls say of the only one.
LEMMA OneFrame ==
    ASSUME Len(stack) = 1
    PROVE  /\ \A id \in Token :
                OnLoan(id) <=> Frame.fn = "flashLoan" /\ \E i \in 1..Frame.sent : Frame.ids[i] = id
           /\ LoanFreezesDeeds <=>
                (Frame.fn = "flashLoan" => bnftOwner = Frame.saved.bnftOwner /\ minters = Frame.saved.minters)
  BY DEF OnLoan, LoanFreezesDeeds, Frame

LEMMA OneFrameNext ==
    ASSUME Len(stack') = 1
    PROVE  /\ \A id \in Token :
                OnLoan(id)' <=> Frame'.fn = "flashLoan" /\ \E i \in 1..Frame'.sent : Frame'.ids[i] = id
           /\ LoanFreezesDeeds' <=>
                (Frame'.fn = "flashLoan" => bnftOwner' = Frame'.saved.bnftOwner /\ minters' = Frame'.saved.minters)
  BY DEF OnLoan, LoanFreezesDeeds, Frame

\* With nothing open every bNFT's asset is in the contract.
LEMMA IdleBacked ==
    ASSUME Control, Ledgers, Idle
    PROVE  \A id \in Token : bnftOwner[id] # NoAddr => nftOwner[id] = Bnft
  BY EmptySeq DEF Ledgers, Custody, OnLoan, Idle

\* A call that ends keeps the ledgers sound if every bNFT is then backed.
LEMMA LedgersClosed ==
    ASSUME Idle', Len(stack') = 0, MinterIffBound',
           \A id \in Token : bnftOwner'[id] # NoAddr => nftOwner'[id] = Bnft
    PROVE  Ledgers'
  BY DEF Ledgers, Custody, LoanFreezesDeeds, SavedSound

\* A call that opens without moving an asset or a deed keeps them sound.
LEMMA LedgersOpened ==
    ASSUME Control, Ledgers, Idle, Len(stack') = 1, Frame'.saved = World, UNCHANGED <<nftOwner, deeds>>
    PROVE  Ledgers'
  <1>1. Custody' /\ MinterIffBound' /\ SavedSound'
    BY IdleBacked DEF Ledgers, Custody, MinterIffBound, SavedSound, World, deeds
  <1>2. LoanFreezesDeeds'
    BY OneFrameNext DEF World, deeds
  <1> QED
    BY <1>1, <1>2 DEF Ledgers

LEMMA LedgersUserCall ==
    ASSUME Control, Ledgers, NEW sender \in Sender, UserCall(sender)
    PROVE  Ledgers'
  <1> USE SenderIsAccount, AddressesDistinct
  <1>1. PICK id \in Token : (\E to \in Account : Mint(sender, to, id)) \/ Burn(sender, id)
    BY DEF UserCall
  <1>2. Idle
    BY <1>1, GuardDown DEF Mint, Burn
  <1>3. \A t \in Token : bnftOwner[t] # NoAddr => nftOwner[t] = Bnft
    BY <1>2, IdleBacked
  <1>4. /\ nftOwner \in [Token -> Account \cup {Bnft}]
        /\ bnftOwner \in [Token -> Account \cup {NoAddr}]
        /\ minters \in [Token -> Account \cup {NoAddr}]
    BY WorldFields DEF Control, TypeOK
  <1>5. ASSUME NEW to \in Account, Mint(sender, to, id) PROVE Ledgers'
    <2>1. MinterIffBound' /\ \A t \in Token : bnftOwner'[t] # NoAddr => nftOwner'[t] = Bnft
      BY <1>3, <1>4, <1>5 DEF Mint, NewMinter, Ledgers, MinterIffBound
    <2> QED
      BY <1>2, <1>5, <2>1, LedgersClosed, EmptySeq DEF Mint, Idle
  <1>6. CASE Burn(sender, id)
    <2>1. MinterIffBound' /\ \A t \in Token : bnftOwner'[t] # NoAddr => nftOwner'[t] = Bnft
      BY <1>3, <1>4, <1>6 DEF Burn, ClearDeed, Ledgers, MinterIffBound
    <2>2. CASE UNCHANGED stack
      BY <1>2, <2>1, <2>2, LedgersClosed, EmptySeq DEF Idle
    <2>3. CASE sender \in Contract /\ HandOver("burn", sender, sender, <<>>)
      <3>1. Len(stack') = 1 /\ Frame'.fn = "burn" /\ Frame'.saved = World
        BY <1>6, <2>3, Opens DEF Burn, Functions
      <3>2. SavedSound'
        BY <1>3, <3>1 DEF SavedSound, Ledgers, MinterIffBound, World
      <3> QED
        BY <2>1, <3>1, <3>2, OneFrameNext DEF Ledgers, Custody
    <2> QED
      BY <1>6, <2>2, <2>3 DEF Burn
  <1> QED
    BY <1>1, <1>5, <1>6

LEMMA LedgersFlashLoan ==
    ASSUME Control, Ledgers, NEW sender \in Sender, NEW receiver \in Contract, NEW ids \in Ids,
           FlashLoan(sender, receiver, ids)
    PROVE  Ledgers'
  <1> USE SenderIsAccount
  <1>1. Idle
    BY GuardDown DEF FlashLoan
  <1>2. \A t \in Token : bnftOwner[t] # NoAddr => nftOwner[t] = Bnft
    BY <1>1, IdleBacked
  <1>3. /\ Len(stack') = 1 /\ Frame'.fn = "flashLoan" /\ Frame'.ids = ids
        /\ Frame'.sent = 1 /\ Frame'.saved = World
    BY Opens, IdsAreLists DEF FlashLoan, Functions
  <1>4. Custody'
    <2> SUFFICES ASSUME NEW t \in Token, bnftOwner'[t] # NoAddr PROVE nftOwner'[t] = Bnft \/ OnLoan(t)'
      BY DEF Custody
    <2>1. CASE t = ids[1]
      BY <1>3, <2>1, OneFrameNext
    <2>2. CASE t # ids[1]
      BY <1>2, <2>2 DEF FlashLoan, deeds
    <2> QED
      BY <2>1, <2>2
  <1>5. SavedSound' /\ MinterIffBound'
    BY <1>2, <1>3 DEF SavedSound, Ledgers, MinterIffBound, FlashLoan, World, deeds
  <1>6. LoanFreezesDeeds'
    BY <1>3, OneFrameNext DEF FlashLoan, World, deeds
  <1> QED
    BY <1>4, <1>5, <1>6 DEF Ledgers

LEMMA LedgersLoanCall ==
    ASSUME Control, Ledgers, NEW sender \in Sender, LoanCall(sender)
    PROVE  Ledgers'
  <1>1. ASSUME NEW receiver \in Contract, NEW ids \in Ids, FlashLoan(sender, receiver, ids)
        PROVE  Ledgers'
    BY <1>1, LedgersFlashLoan
  <1>2. ASSUME UNCHANGED <<nftOwner, deeds, stack>> PROVE Ledgers'
    BY <1>2 DEF Ledgers, Custody, OnLoan, MinterIffBound, LoanFreezesDeeds, SavedSound, Idle, Frame, deeds
  <1> QED
    BY <1>1, <1>2 DEF LoanCall, SetFlashLoanApproval, SetFlashLoanLocking

LEMMA LedgersAdminCall ==
    ASSUME Control, Ledgers, NEW sender \in Sender, AdminCall(sender)
    PROVE  Ledgers'
  <1> USE SenderIsAccount
  <1>1. ASSUME NEW target, NEW callee \in Contract, ClaimAirdrop(sender, target, callee)
        PROVE  Ledgers'
    <2>1. UNCHANGED <<nftOwner, deeds>>
      BY <1>1 DEF ClaimAirdrop, NotProtected, AfterCallTo
    <2>2. Idle /\ Len(stack') = 1 /\ Frame'.saved = World
      BY <1>1, GuardDown, Opens DEF ClaimAirdrop, Functions
    <2> QED
      BY <2>1, <2>2, LedgersOpened
  <1>2. ASSUME NEW target, NEW callee \in Contract, ExecuteAirdrop(sender, target, callee)
        PROVE  Ledgers'
    <2>1. UNCHANGED <<nftOwner, deeds>>
      BY <1>2 DEF ExecuteAirdrop, NotProtected, AfterCallTo
    <2>2. Idle /\ Len(stack') = 1 /\ Frame'.saved = World
      BY <1>2, GuardDown, Opens DEF ExecuteAirdrop, Functions
    <2> QED
      BY <2>1, <2>2, LedgersOpened
  <1>3. ASSUME NEW registrar \in Contract, SetENSName(sender, registrar)
        PROVE  Ledgers'
    <2>1. Idle /\ Len(stack') = 1 /\ Frame'.saved = World
      BY <1>3, GuardDown, Opens DEF SetENSName, Functions
    <2> QED
      BY <1>3, <2>1, LedgersOpened DEF SetENSName
  <1>4. ASSUME UNCHANGED <<nftOwner, deeds, stack>> PROVE Ledgers'
    BY <1>4 DEF Ledgers, Custody, OnLoan, MinterIffBound, LoanFreezesDeeds, SavedSound, Idle, Frame, deeds
  <1> QED
    BY <1>1, <1>2, <1>3, <1>4 DEF AdminCall, TransferOwnership, SetClaimAdmin, RenounceOwnership

LEMMA LedgersLoanNext ==
    ASSUME Control, Ledgers, FlashLoanNext
    PROVE  Ledgers'
  <1> DEFINE id == Frame.ids[Frame.sent + 1]
  <1>1. /\ Len(stack) = 1 /\ ~Idle /\ Len(stack') = 1 /\ ~Idle'
        /\ Frame \in Frames /\ Frame.fn = "flashLoan"
        /\ Frame' = [Frame EXCEPT !.sent = @ + 1]
        /\ nftOwner' = [nftOwner EXCEPT ![id] = Frame.callee]
    BY LoanStep, OpenCall
  <1>2. /\ Frame'.fn = Frame.fn /\ Frame'.saved = Frame.saved /\ Frame'.ids = Frame.ids
        /\ Frame'.sent = Frame.sent + 1 /\ Frame.sent \in Nat
    BY <1>1, BoundsAreNat DEF Frames
  <1>3. Custody'
    <2> SUFFICES ASSUME NEW t \in Token, bnftOwner'[t] # NoAddr PROVE nftOwner'[t] = Bnft \/ OnLoan(t)'
      BY DEF Custody
    <2>1. OnLoan(t)' <=> \E i \in 1..Frame.sent + 1 : Frame.ids[i] = t
      BY <1>1, <1>2, OneFrameNext
    <2>2. CASE t = id
      BY <1>2, <2>1, <2>2
    <2>3. CASE t # id
      <3>1. nftOwner'[t] = nftOwner[t]
        BY <1>1, <2>3
      <3>2. nftOwner[t] = Bnft \/ \E i \in 1..Frame.sent : Frame.ids[i] = t
        BY <1>1, OneFrame DEF Ledgers, Custody, FlashLoanNext, deeds
      <3> QED
        BY <1>2, <2>1, <3>1, <3>2
    <2> QED
      BY <2>2, <2>3
  <1>4. LoanFreezesDeeds'
    BY <1>1, <1>2, OneFrame, OneFrameNext DEF Ledgers, FlashLoanNext, deeds
  <1>5. MinterIffBound' /\ SavedSound'
    BY <1>1, <1>2 DEF Ledgers, MinterIffBound, SavedSound, FlashLoanNext, deeds
  <1> QED
    BY <1>3, <1>4, <1>5 DEF Ledgers

LEMMA LedgersCallEnds ==
    ASSUME Control, Ledgers, CallEnds
    PROVE  Ledgers'
  <1>1. /\ Idle' /\ Len(stack') = 0 /\ Len(stack) = 1
        /\ ~Idle /\ Top = Frame /\ Frame \in Frames
    BY Closes, OpenCall DEF CallEnds, FlashLoanReturn, CallReturn, RevertCall, GiveBack, Idle
  <1>2. CASE FlashLoanReturn
    <2>1. \A t \in Token : bnftOwner[t] # NoAddr =>
             nftOwner[t] = Bnft \/ \E i \in 1..Len(Frame.ids) : Frame.ids[i] = t
      BY <1>1, <1>2, OneFrame DEF FlashLoanReturn, Ledgers, Custody
    <2>2. \A t \in Token : bnftOwner'[t] # NoAddr => nftOwner'[t] = Bnft
      BY <1>1, <1>2, <2>1 DEF FlashLoanReturn, TakeBack, deeds
    <2> QED
      BY <1>1, <1>2, <2>2, LedgersClosed DEF FlashLoanReturn, deeds, Ledgers, MinterIffBound
  <1>3. CASE CallReturn
    <2>1. \A t \in Token : bnftOwner[t] # NoAddr => nftOwner[t] = Bnft
      BY <1>1, <1>3, OneFrame DEF CallReturn, Ledgers, Custody
    <2> QED
      BY <1>1, <1>3, <2>1, LedgersClosed DEF CallReturn, deeds, Ledgers, MinterIffBound
  <1>4. CASE RevertCall
    BY <1>1, <1>4, LedgersClosed DEF RevertCall, Ledgers, SavedSound, MinterIffBound
  <1> QED
    BY <1>2, <1>3, <1>4 DEF CallEnds

LEMMA LedgersExtTransfer ==
    ASSUME Control, Ledgers, NEW id \in Token, NEW to \in Account \cup {Bnft}, ExtTransfer(id, to)
    PROVE  Ledgers'
  <1>1. Custody'
    <2> SUFFICES ASSUME NEW t \in Token, bnftOwner'[t] # NoAddr PROVE nftOwner'[t] = Bnft \/ OnLoan(t)'
      BY DEF Custody
    <2>1. OnLoan(t)' <=> OnLoan(t)
      BY DEF ExtTransfer, OnLoan
    <2>2. nftOwner[t] = Bnft \/ OnLoan(t)
      BY DEF ExtTransfer, deeds, Ledgers, Custody
    <2> QED
      BY <2>1, <2>2, WorldFields DEF ExtTransfer, Control, TypeOK
  <1>2. MinterIffBound' /\ LoanFreezesDeeds' /\ SavedSound'
    BY DEF ExtTransfer, deeds, Ledgers, MinterIffBound, LoanFreezesDeeds, SavedSound, Idle, Frame
  <1> QED
    BY <1>1, <1>2 DEF Ledgers

\* The two ledgers agree in every reachable state.
THEOREM LedgersInvariant == Spec => []Ledgers
  <1>1. Init => Ledgers
    BY EmptySeq DEF Init, Ledgers, Custody, MinterIffBound, LoanFreezesDeeds, SavedSound, Idle
  <1>2. Control /\ Ledgers /\ [Next]_vars => Ledgers'
    <2> SUFFICES ASSUME Control, Ledgers, [Next]_vars PROVE Ledgers'
      OBVIOUS
    <2>1. CASE UNCHANGED vars
      BY <2>1 DEF vars, deeds, Ledgers, Custody, OnLoan, MinterIffBound, LoanFreezesDeeds, SavedSound, Idle, Frame
    <2> QED
      BY <2>1, LedgersUserCall, LedgersLoanCall, LedgersAdminCall, LedgersLoanNext, LedgersCallEnds,
         LedgersExtTransfer DEF Next
  <1> QED
    BY <1>1, <1>2, ControlInvariant, PTL DEF Spec

\* Every bNFT is backed by its asset, which is in the contract or with the
\* receiver of an open flash loan (BNFT.sol:202-287).
THEOREM CustodyCorrect == Spec => []Custody
  BY LedgersInvariant, PTL DEF Ledgers

\* _exists and minterOf agree, also after a failed call.
THEOREM MintersCorrect == Spec => []MinterIffBound
  BY LedgersInvariant, PTL DEF Ledgers

\* No borrower changes the owner or the minter of any bNFT.
THEOREM LoansFreezeDeeds == Spec => []LoanFreezesDeeds
  BY LedgersInvariant, PTL DEF Ledgers
-----------------------------------------------------------------------------
(* Consent: who asked for the open loan. *)

\* What LentWithConsent says of one call.
FrameConsented(f) == f.fn = "flashLoan" => \A i \in 1..Len(f.ids) : Consented(f, f.ids[i])

LEMMA ConsentOfFrame ==
    ASSUME Len(stack) = 1
    PROVE  LentWithConsent <=> FrameConsented(Frame)
  BY DEF LentWithConsent, FrameConsented, Frame

LEMMA ConsentOfFrameNext ==
    ASSUME Len(stack') = 1
    PROVE  LentWithConsent' <=> FrameConsented(Frame')
  BY DEF LentWithConsent, FrameConsented, Frame

LEMMA ConsentFlashLoan ==
    ASSUME Control, NEW sender \in Sender, NEW receiver \in Contract, NEW ids \in Ids,
           FlashLoan(sender, receiver, ids)
    PROVE  LentWithConsent'
  <1> USE SenderIsAccount
  <1>1. /\ Len(stack') = 1
        /\ Frame' = [fn |-> "flashLoan", caller |-> sender, callee |-> receiver, ids |-> ids,
                     sent |-> IF ids = <<>> THEN 0 ELSE 1, saved |-> World]
    BY Opens DEF FlashLoan, Functions
  <1>2. \A i \in 1..Len(ids) : MayFlashLoan(sender, ids[i])
    BY DEF FlashLoan, MayBorrowAll
  <1>3. \A i \in 1..Len(ids) : Consented(Frame', ids[i])
    BY <1>1, <1>2 DEF Consented, MayFlashLoan, IsFlashLoanLocked, IsFlashLoanApprovedOrOwner, World
  <1> QED
    BY <1>1, <1>3, ConsentOfFrameNext DEF FrameConsented

\* Every asset on loan was lent with the consent of its minter, as it stood
\* when the loan was asked for (BNFT.sol:260-268, 661-665).
THEOREM ConsentCorrect == Spec => []LentWithConsent
  <1>1. Init => LentWithConsent
    BY DEF Init, LentWithConsent
  <1>2. Control /\ LentWithConsent /\ [Next]_vars => LentWithConsent'
    <2> SUFFICES ASSUME Control, LentWithConsent, [Next]_vars PROVE LentWithConsent'
      OBVIOUS
    <2>1. ASSUME UNCHANGED stack PROVE LentWithConsent'
      BY <2>1 DEF LentWithConsent
    <2>2. ASSUME Len(stack') = 1, Frame'.fn # "flashLoan" PROVE LentWithConsent'
      BY <2>2, ConsentOfFrameNext DEF FrameConsented
    <2>3. ASSUME NEW sender \in Sender, UserCall(sender) PROVE LentWithConsent'
      <3>1. PICK id \in Token : (\E to \in Account : Mint(sender, to, id)) \/ Burn(sender, id)
        BY <2>3 DEF UserCall
      <3>2. CASE HandOver("burn", sender, sender, <<>>) /\ Burn(sender, id) /\ sender \in Contract
        BY <2>2, <3>2, Opens, SenderIsAccount DEF Burn, Functions
      <3> QED
        BY <2>1, <3>1, <3>2 DEF Mint, Burn
    <2>4. ASSUME NEW sender \in Sender, LoanCall(sender) PROVE LentWithConsent'
      BY <2>1, <2>4, ConsentFlashLoan DEF LoanCall, SetFlashLoanApproval, SetFlashLoanLocking
    <2>5. ASSUME NEW sender \in Sender, AdminCall(sender) PROVE LentWithConsent'
      <3>1. ASSUME NEW fn \in Functions \ {"flashLoan"}, NEW callee \in Contract, NonReentrant,
                   HandOver(fn, sender, callee, <<>>)
            PROVE  LentWithConsent'
        BY <2>2, <2>5, <3>1, Opens, SenderIsAccount
      <3> QED
        BY <2>1, <2>5, <3>1
           DEF AdminCall, ClaimAirdrop, ExecuteAirdrop, SetENSName, TransferOwnership, SetClaimAdmin,
               RenounceOwnership, Functions
    <2>6. CASE FlashLoanNext
      <3>1. /\ Len(stack) = 1 /\ Len(stack') = 1 /\ Frame \in Frames
            /\ Frame' = [Frame EXCEPT !.sent = @ + 1]
        BY <2>6, LoanStep, OpenCall
      <3>2. FrameConsented(Frame)
        BY <3>1, ConsentOfFrame
      <3>3. FrameConsented(Frame')
        BY <3>1, <3>2 DEF FrameConsented, Consented, Frames
      <3> QED
        BY <3>1, <3>3, ConsentOfFrameNext
    <2>7. CASE CallEnds
      <3>1. Len(stack') = 0
        BY <2>7, Closes DEF CallEnds, FlashLoanReturn, CallReturn, RevertCall, GiveBack
      <3> QED
        BY <3>1 DEF LentWithConsent
    <2> QED
      BY <2>1, <2>3, <2>4, <2>5, <2>6, <2>7 DEF Next, ExtTransfer, vars
  <1> QED
    BY <1>1, <1>2, ControlInvariant, PTL DEF Spec
-----------------------------------------------------------------------------
(***************************************************************************)
(* The bNFT contract implements the vault, and what a step of it may never *)
(* do, for every collection, every set of accounts and every bound.  The   *)
(* vault is seen through what the chain will remember (Committed), so the  *)
(* invariant relates the present state to the one the open call found:     *)
(* which deed and which assets that call has taken out (SinceCall), and    *)
(* who is in charge (RolesSinceCall).                                      *)
(***************************************************************************)

\* The deed of t and nothing else was cancelled since w.
OnlyBurned(w, t) ==
    /\ w.minters[t] # NoAddr
    /\ bnftOwner = [w.bnftOwner EXCEPT ![t] = NoAddr]
    /\ minters = [w.minters EXCEPT ![t] = NoAddr]

\* An open burn has cancelled one deed and let that asset go; any other open
\* call has left the deeds alone and let no asset go but those on loan.
SinceCall ==
    ~Idle => LET w == Frame.saved IN
        /\ Frame.fn = "burn" => \E t \in Token :
             /\ OnlyBurned(w, t)
             /\ \A u \in Token \ {t} : w.nftOwner[u] = Bnft => nftOwner[u] = Bnft
        /\ Frame.fn # "burn" =>
             /\ bnftOwner = w.bnftOwner /\ minters = w.minters
             /\ \A u \in Token : w.nftOwner[u] = Bnft => nftOwner[u] = Bnft \/ OnLoan(u)

\* A call that found the contract renounced leaves it so.
RolesSinceCall ==
    ~Idle /\ Frame.saved.owner = NoAddr => owner = NoAddr /\ claimAdmin = Frame.saved.claimAdmin

SinceSaved == SinceCall /\ RolesSinceCall
-----------------------------------------------------------------------------
(* The state at the open call and the present one. *)

LEMMA SinceClosed ==
    ASSUME Idle'
    PROVE  SinceSaved'
  BY DEF SinceSaved, SinceCall, RolesSinceCall

\* A call that opens without touching deeds, assets and roles.
LEMMA SinceOpened ==
    ASSUME Len(stack') = 1, Frame'.fn # "burn", Frame'.saved = World,
           UNCHANGED <<nftOwner, deeds, roles>>
    PROVE  SinceSaved'
  BY DEF SinceSaved, SinceCall, RolesSinceCall, World, deeds, roles

\* A step inside a call, or between calls, that neither touches deeds nor takes
\* an asset out of the contract.
LEMMA SinceInside ==
    ASSUME SinceCall, UNCHANGED <<deeds, stack>>,
           \A u \in Token : nftOwner[u] = Bnft => nftOwner'[u] = Bnft
    PROVE  SinceCall'
  BY DEF SinceCall, OnlyBurned, OnLoan, Idle, Frame, deeds

LEMMA SinceUserCall ==
    ASSUME Control, SinceSaved, NEW sender \in Sender, UserCall(sender)
    PROVE  SinceSaved'
  <1> USE SenderIsAccount, AddressesDistinct
  <1>1. PICK id \in Token : (\E to \in Account : Mint(sender, to, id)) \/ Burn(sender, id)
    BY DEF UserCall
  <1>2. Idle
    BY <1>1, GuardDown DEF Mint, Burn
  <1>3. CASE UNCHANGED stack
    BY <1>2, <1>3, SinceClosed DEF Idle
  <1>4. CASE Burn(sender, id) /\ sender \in Contract /\ HandOver("burn", sender, sender, <<>>)
    <2>1. Frame'.fn = "burn" /\ Frame'.saved = World
      BY <1>4, Opens DEF Burn, Functions
    <2>2. /\ nftOwner \in [Token -> Account \cup {Bnft}] /\ minters[id] = sender
      BY <1>4, WorldFields DEF Burn, MayBurn, Control, TypeOK
    <2>3. minters[id] # NoAddr
      BY <2>2
    <2>4. /\ bnftOwner' = [bnftOwner EXCEPT ![id] = NoAddr]
          /\ minters' = [minters EXCEPT ![id] = NoAddr]
          /\ nftOwner' = [nftOwner EXCEPT ![id] = sender]
          /\ UNCHANGED roles
      BY <1>4 DEF Burn, ClearDeed
    <2>5. SinceCall'
      <3>1. OnlyBurned(Frame.saved, id)'
        BY <2>1, <2>3, <2>4 DEF OnlyBurned, World
      <3>2. \A u \in Token \ {id} : Frame'.saved.nftOwner[u] = Bnft => nftOwner'[u] = Bnft
        BY <2>1, <2>2, <2>4 DEF World
      <3> QED
        BY <2>1, <3>1, <3>2 DEF SinceCall
    <2>6. RolesSinceCall'
      BY <2>1, <2>4 DEF RolesSinceCall, World, roles
    <2> QED
      BY <2>5, <2>6 DEF SinceSaved
  <1> QED
    BY <1>1, <1>3, <1>4 DEF Mint, Burn

LEMMA SinceLoanCall ==
    ASSUME Control, SinceSaved, NEW sender \in Sender, LoanCall(sender)
    PROVE  SinceSaved'
  <1> USE SenderIsAccount
  <1>1. ASSUME NEW receiver \in Contract, NEW ids \in Ids, FlashLoan(sender, receiver, ids)
        PROVE  SinceSaved'
    <2>1. /\ Len(stack') = 1 /\ Frame'.fn = "flashLoan" /\ Frame'.ids = ids
          /\ Frame'.sent = 1 /\ Frame'.saved = World
      BY <1>1, Opens, IdsAreLists DEF FlashLoan, Functions
    <2>2. nftOwner' = [nftOwner EXCEPT ![ids[1]] = receiver] /\ UNCHANGED <<deeds, roles>>
      BY <1>1 DEF FlashLoan
    <2>3. nftOwner \in [Token -> Account \cup {Bnft}]
      BY WorldFields DEF Control, TypeOK
    <2>4. \A u \in Token : nftOwner[u] = Bnft => nftOwner'[u] = Bnft \/ OnLoan(u)'
      <3> SUFFICES ASSUME NEW u \in Token, nftOwner[u] = Bnft PROVE nftOwner'[u] = Bnft \/ OnLoan(u)'
        OBVIOUS
      <3>1. CASE u = ids[1]
        BY <2>1, <3>1, OneFrameNext
      <3>2. CASE u # ids[1]
        BY <2>2, <2>3, <3>2
      <3> QED
        BY <3>1, <3>2
    <2>5. SinceCall'
      BY <2>1, <2>2, <2>4 DEF SinceCall, World, deeds
    <2>6. RolesSinceCall'
      BY <2>1, <2>2 DEF RolesSinceCall, World, roles
    <2> QED
      BY <2>5, <2>6 DEF SinceSaved
  <1>2. ASSUME UNCHANGED <<nftOwner, deeds, roles, stack>> PROVE SinceSaved'
    BY <1>2, SinceInside DEF SinceSaved, RolesSinceCall, Idle, Frame, roles
  <1> QED
    BY <1>1, <1>2 DEF LoanCall, SetFlashLoanApproval, SetFlashLoanLocking

LEMMA SinceAdminCall ==
    ASSUME Control, SinceSaved, NEW sender \in Sender, AdminCall(sender)
    PROVE  SinceSaved'
  <1> USE SenderIsAccount
  <1>1. ASSUME NEW target, NEW callee \in Contract,
               ClaimAirdrop(sender, target, callee) \/ ExecuteAirdrop(sender, target, callee)
        PROVE  SinceSaved'
    <2>1. UNCHANGED <<nftOwner, deeds, roles>>
      BY <1>1 DEF ClaimAirdrop, ExecuteAirdrop, NotProtected, AfterCallTo
    <2>2. Len(stack') = 1 /\ Frame'.saved = World /\ Frame'.fn # "burn"
      BY <1>1, Opens DEF ClaimAirdrop, ExecuteAirdrop, Functions
    <2> QED
      BY <2>1, <2>2, SinceOpened
  <1>2. ASSUME NEW registrar \in Contract, SetENSName(sender, registrar) PROVE SinceSaved'
    <2>1. Len(stack') = 1 /\ Frame'.saved = World /\ Frame'.fn # "burn"
      BY <1>2, Opens DEF SetENSName, Functions
    <2> QED
      BY <1>2, <2>1, SinceOpened DEF SetENSName
  <1>3. ASSUME NEW a \in Admin,
               TransferOwnership(sender, a) \/ SetClaimAdmin(sender, a) \/ RenounceOwnership(sender)
        PROVE  SinceSaved'
    <2>1. UNCHANGED <<nftOwner, deeds, stack>>
      BY <1>3 DEF TransferOwnership, SetClaimAdmin, RenounceOwnership
    <2>2. owner # NoAddr
      BY <1>3, AddressesDistinct DEF TransferOwnership, SetClaimAdmin, MaySetClaimAdmin, RenounceOwnership
    <2>3. RolesSinceCall'
      BY <2>1, <2>2 DEF SinceSaved, RolesSinceCall, Idle, Frame
    <2> QED
      BY <2>1, <2>3, SinceInside DEF SinceSaved
  <1>4. Admin # {}
    BY WorldFields DEF Control, TypeOK
  <1> QED
    BY <1>1, <1>2, <1>3, <1>4 DEF AdminCall

LEMMA SinceLoanNext ==
    ASSUME Control, SinceSaved, FlashLoanNext
    PROVE  SinceSaved'
  <1> DEFINE id == Frame.ids[Frame.sent + 1]
  <1>1. /\ Len(stack) = 1 /\ ~Idle /\ Len(stack') = 1 /\ ~Idle'
        /\ Frame \in Frames /\ Frame.fn = "flashLoan"
        /\ Frame' = [Frame EXCEPT !.sent = @ + 1]
        /\ nftOwner' = [nftOwner EXCEPT ![id] = Frame.callee]
    BY LoanStep, OpenCall
  <1>2. /\ Frame'.fn = "flashLoan" /\ Frame'.saved = Frame.saved /\ Frame'.ids = Frame.ids
        /\ Frame'.sent = Frame.sent + 1 /\ Frame.sent \in Nat
    BY <1>1, BoundsAreNat DEF Frames
  <1>3. ASSUME NEW u \in Token, Frame.saved.nftOwner[u] = Bnft PROVE nftOwner'[u] = Bnft \/ OnLoan(u)'
    <2>1. OnLoan(u)' <=> \E i \in 1..Frame.sent + 1 : Frame.ids[i] = u
      BY <1>1, <1>2, OneFrameNext
    <2>2. CASE u = id
      BY <1>2, <2>1, <2>2
    <2>3. CASE u # id
      <3>1. nftOwner'[u] = nftOwner[u]
        BY <1>1, <2>3
      <3>2. nftOwner[u] = Bnft \/ \E i \in 1..Frame.sent : Frame.ids[i] = u
        BY <1>1, <1>3, OneFrame DEF SinceSaved, SinceCall
      <3> QED
        BY <1>2, <2>1, <3>1, <3>2
    <2> QED
      BY <2>2, <2>3
  <1>4. SinceCall'
    BY <1>1, <1>2, <1>3 DEF SinceSaved, SinceCall, FlashLoanNext, deeds
  <1>5. RolesSinceCall'
    BY <1>1, <1>2 DEF SinceSaved, RolesSinceCall, FlashLoanNext, roles
  <1> QED
    BY <1>4, <1>5 DEF SinceSaved

LEMMA SinceExtTransfer ==
    ASSUME Control, SinceSaved, NEW id \in Token, NEW to \in Account \cup {Bnft}, ExtTransfer(id, to)
    PROVE  SinceSaved'
  <1>1. \A u \in Token : nftOwner[u] = Bnft => nftOwner'[u] = Bnft
    BY WorldFields DEF ExtTransfer, Control, TypeOK
  <1>2. RolesSinceCall'
    BY DEF ExtTransfer, SinceSaved, RolesSinceCall, Idle, Frame, roles
  <1> QED
    BY <1>1, <1>2, SinceInside DEF ExtTransfer, SinceSaved

\* The open call has done to deeds, assets and roles what SinceSaved says, in
\* every reachable state.
THEOREM SinceInvariant == Spec => []SinceSaved
  <1>1. Init => SinceSaved
    BY DEF Init, SinceSaved, SinceCall, RolesSinceCall, Idle
  <1>2. Control /\ SinceSaved /\ [Next]_vars => SinceSaved'
    <2> SUFFICES ASSUME Control, SinceSaved, [Next]_vars PROVE SinceSaved'
      OBVIOUS
    <2>1. CASE UNCHANGED vars
      BY <2>1, SinceInside DEF vars, SinceSaved, RolesSinceCall, Idle, Frame, roles
    <2>2. CASE CallEnds
      BY <2>2, Closes, SinceClosed DEF CallEnds, FlashLoanReturn, CallReturn, RevertCall, GiveBack
    <2> QED
      BY <2>1, <2>2, SinceUserCall, SinceLoanCall, SinceAdminCall, SinceLoanNext, SinceExtTransfer DEF Next
  <1> QED
    BY <1>1, <1>2, ControlInvariant, PTL DEF Spec
-----------------------------------------------------------------------------
(* What a step may never do. *)

\* A deed that ends hands its asset to the minter in that very step.
LEMMA RedeemStep ==
    ASSUME Control, SinceSaved, [Next]_vars, NEW id \in Token, minters[id] # NoAddr, minters'[id] = NoAddr
    PROVE  nftOwner'[id] = minters[id]
  <1> USE AddressesDistinct
  <1>1. ASSUME UNCHANGED minters PROVE FALSE
    BY <1>1
  <1>2. CASE \E sender \in Sender : UserCall(sender)
    <2>1. PICK sender \in Sender, t \in Token : (\E to \in Account : Mint(sender, to, t)) \/ Burn(sender, t)
      BY <1>2 DEF UserCall
    <2>2. /\ minters \in [Token -> Account \cup {NoAddr}] /\ nftOwner \in [Token -> Account \cup {Bnft}]
          /\ sender # NoAddr
      BY SenderIsAccount, WorldFields DEF Control, TypeOK
    <2>3. ASSUME NEW to \in Account, Mint(sender, to, t) PROVE FALSE
      BY <2>2, <2>3 DEF Mint, NewMinter
    <2>4. CASE Burn(sender, t)
      BY <2>2, <2>4 DEF Burn, MayBurn, ClearDeed
    <2> QED
      BY <2>1, <2>3, <2>4
  <1>3. CASE \E sender \in Sender : LoanCall(sender)
    BY <1>1, <1>3 DEF LoanCall, FlashLoan, SetFlashLoanApproval, SetFlashLoanLocking, deeds
  <1>4. CASE \E sender \in Sender : AdminCall(sender)
    BY <1>1, <1>4 DEF AdminCall, ClaimAirdrop, ExecuteAirdrop, SetENSName, TransferOwnership, SetClaimAdmin,
                      RenounceOwnership, deeds
  <1>5. CASE RevertCall
    <2>1. ~Idle /\ minters' = Frame.saved.minters /\ Frame.saved \in Worlds
      BY <1>5, OpenCall DEF RevertCall, Idle, Frames
    <2>2. Frame.saved.minters \in [Token -> Account \cup {NoAddr}]
      BY <2>1 DEF Worlds
    <2>3. Frame.saved.minters[id] # NoAddr
      BY <1>1, <2>1, <2>2 DEF SinceSaved, SinceCall, OnlyBurned
    <2> QED
      BY <2>1, <2>3
  <1>6. CASE FlashLoanNext \/ FlashLoanReturn \/ CallReturn
    BY <1>1, <1>6 DEF FlashLoanNext, FlashLoanReturn, CallReturn, deeds
  <1>7. CASE \E t \in Token, to \in Account \cup {Bnft} : ExtTransfer(t, to)
    BY <1>1, <1>7 DEF ExtTransfer, deeds
  <1>8. CASE UNCHANGED vars
    BY <1>1, <1>8 DEF vars, deeds
  <1> QED
    BY <1>2, <1>3, <1>4, <1>5, <1>6, <1>7, <1>8 DEF Next, CallEnds

RedeemedStep == \A id \in Token : minters[id] # NoAddr /\ minters'[id] = NoAddr => nftOwner'[id] = minters[id]

\* A bNFT that ends hands its asset to the minter and to nobody else
\* (BNFT.sol:229-242), for every instance.
THEOREM RedeemedCorrect == Spec => RedeemedToMinter
  <1>1. Control /\ SinceSaved /\ [Next]_vars => [RedeemedStep]_vars
    BY RedeemStep DEF RedeemedStep
  <1> QED
    BY <1>1, ControlInvariant, SinceInvariant, PTL DEF Spec, RedeemedToMinter, RedeemedStep

\* What the chain remembers changes only between calls and when a call ends well.
LEMMA CommittedFrame ==
    ASSUME Control, [Next]_vars
    PROVE  \/ Committed' = Committed
           \/ Idle /\ Idle' /\ Committed = World /\ Committed' = World'
           \/ /\ ~Idle /\ Idle' /\ Committed = Frame.saved /\ Committed' = World'
              /\ FlashLoanReturn \/ CallReturn
  <1>1. ASSUME UNCHANGED stack, Idle
        PROVE  Idle /\ Idle' /\ Committed = World /\ Committed' = World'
    BY <1>1 DEF Committed, Idle
  <1>2. ASSUME UNCHANGED stack, ~Idle
        PROVE  Committed' = Committed
    BY <1>2 DEF Committed, Idle
  <1>3. ASSUME NEW fn \in Functions, NEW caller \in Account, NEW callee \in Contract,
               NEW ids \in Ids \cup {<<>>}, NonReentrant, HandOver(fn, caller, callee, ids)
        PROVE  Committed' = Committed
    <2>1. Idle /\ ~Idle' /\ Frame'.saved = World
      BY <1>3, GuardDown, Opens
    <2> QED
      BY <2>1 DEF Committed, Idle, Frame
  <1>4. CASE \E sender \in Sender : UserCall(sender)
    <2>1. PICK sender \in Sender, t \in Token : (\E to \in Account : Mint(sender, to, t)) \/ Burn(sender, t)
      BY <1>4 DEF UserCall
    <2> QED
      BY <1>1, <1>2, <1>3, <2>1, SenderIsAccount DEF Mint, Burn, Functions
  <1>5. CASE \E sender \in Sender : LoanCall(sender)
    BY <1>1, <1>2, <1>3, <1>5, SenderIsAccount
       DEF LoanCall, FlashLoan, SetFlashLoanApproval, SetFlashLoanLocking, Functions
  <1>6. CASE \E sender \in Sender : AdminCall(sender)
    BY <1>1, <1>2, <1>3, <1>6, SenderIsAccount
       DEF AdminCall, ClaimAirdrop, ExecuteAirdrop, SetENSName, TransferOwnership, SetClaimAdmin,
           RenounceOwnership, Functions
  <1>7. CASE FlashLoanNext
    <2>1. ~Idle /\ ~Idle' /\ Frame \in Frames /\ Frame' = [Frame EXCEPT !.sent = @ + 1]
      BY <1>7, LoanStep, OpenCall
    <2>2. Frame'.saved = Frame.saved
      BY <2>1 DEF Frames
    <2> QED
      BY <2>1, <2>2 DEF Committed, Idle, Frame
  <1>8. CASE CallEnds
    <2>1. Idle' /\ ~Idle /\ Top = Frame /\ Frame \in Frames
      BY <1>8, Closes, OpenCall DEF CallEnds, FlashLoanReturn, CallReturn, RevertCall, GiveBack, Idle
    <2>2. Committed = Frame.saved /\ Committed' = World'
      BY <2>1 DEF Committed, Idle, Frame
    <2>3. CASE RevertCall
      <3>1. Frame.saved \in Worlds
        BY <2>1 DEF Frames
      <3>2. World' = Frame.saved
        BY <2>1, <2>3, <3>1 DEF RevertCall, World, Worlds
      <3> QED
        BY <2>2, <3>2
    <2> QED
      BY <1>8, <2>1, <2>2, <2>3 DEF CallEnds
  <1>9. CASE \E t \in Token, to \in Account \cup {Bnft} : ExtTransfer(t, to)
    BY <1>1, <1>2, <1>9 DEF ExtTransfer
  <1>10. CASE UNCHANGED vars
    BY <1>1, <1>2, <1>10 DEF vars
  <1> QED
    BY <1>4, <1>5, <1>6, <1>7, <1>8, <1>9, <1>10 DEF Next

\* Without an owner the roles stay as they are.
LEMMA NoOwnerNoChange ==
    ASSUME Control, [Next]_vars, owner = NoAddr, ~RevertCall
    PROVE  UNCHANGED roles
  <1> USE AddressesDistinct
  <1>1. CASE \E sender \in Sender : UserCall(sender)
    BY <1>1 DEF UserCall, Mint, Burn, roles
  <1>2. CASE \E sender \in Sender : LoanCall(sender)
    BY <1>2 DEF LoanCall, FlashLoan, SetFlashLoanApproval, SetFlashLoanLocking, roles
  <1>3. CASE \E sender \in Sender : AdminCall(sender)
    BY <1>3, SenderIsAccount
       DEF AdminCall, ClaimAirdrop, ExecuteAirdrop, SetENSName, TransferOwnership, SetClaimAdmin,
           MaySetClaimAdmin, RenounceOwnership, roles
  <1>4. CASE FlashLoanNext \/ CallEnds
    BY <1>4 DEF FlashLoanNext, CallEnds, FlashLoanReturn, CallReturn, roles
  <1>5. CASE \E t \in Token, to \in Account \cup {Bnft} : ExtTransfer(t, to)
    BY <1>5 DEF ExtTransfer, roles
  <1> QED
    BY <1>1, <1>2, <1>3, <1>4, <1>5 DEF Next, vars

RenouncedStep ==
    Committed.owner = NoAddr =>
        Committed'.owner = NoAddr /\ Committed'.claimAdmin = Committed.claimAdmin

\* A renounced contract never has an owner again and keeps its claim admin
\* (BNFT.sol:113-122), whatever callbacks do and whichever calls revert.
THEOREM RenouncedCorrect == Spec => RenouncedForever
  <1>1. Control /\ SinceSaved /\ [Next]_vars => [RenouncedStep]_vars
    <2> SUFFICES ASSUME Control, SinceSaved, [Next]_vars, Committed.owner = NoAddr
                 PROVE  Committed'.owner = NoAddr /\ Committed'.claimAdmin = Committed.claimAdmin
      BY DEF RenouncedStep
    <2>1. CASE Idle /\ Idle' /\ Committed = World /\ Committed' = World'
      <3>1. owner = NoAddr /\ ~RevertCall
        BY <2>1 DEF World, RevertCall, Idle
      <3>2. UNCHANGED roles
        BY <3>1, NoOwnerNoChange
      <3> QED
        BY <2>1, <3>1, <3>2 DEF World, roles
    <2>2. CASE /\ ~Idle /\ Idle' /\ Committed = Frame.saved /\ Committed' = World'
               /\ FlashLoanReturn \/ CallReturn
      <3>1. owner = NoAddr /\ claimAdmin = Frame.saved.claimAdmin
        BY <2>2 DEF SinceSaved, RolesSinceCall
      <3>2. UNCHANGED roles
        BY <2>2 DEF FlashLoanReturn, CallReturn
      <3> QED
        BY <2>2, <3>1, <3>2 DEF World, roles
    <2> QED
      BY <2>1, <2>2, CommittedFrame
  <1> QED
    BY <1>1, ControlInvariant, SinceInvariant, PTL DEF Spec, RenouncedForever, RenouncedStep
-----------------------------------------------------------------------------
(* The vault. *)

\* The remembered state, and the step's, have their type.
LEMMA CommittedTyped == Control => Committed \in Worlds
  <1> SUFFICES ASSUME Control, ~Idle PROVE Frame.saved \in Worlds
    BY DEF Committed, Control, TypeOK, Idle, Frame
  <1> QED
    BY OpenCall DEF Frames

\* What mint does to the vault.
LEMMA MintBinds ==
    ASSUME Control, Ledgers, Idle, Idle', NEW sender \in Account, NEW to \in Account, NEW id \in Token,
           Mint(sender, to, id)
    PROVE  V!Bind(id)
  <1> USE AddressesDistinct
  <1>1. Committed = World /\ Committed' = World'
    BY DEF Committed, Idle
  <1>2. /\ nftOwner \in [Token -> Account \cup {Bnft}]
        /\ bnftOwner \in [Token -> Account \cup {NoAddr}]
        /\ minters \in [Token -> Account \cup {NoAddr}]
    BY WorldFields DEF Control, TypeOK
  <1>3. /\ minters[id] = NoAddr /\ nftOwner[id] = sender /\ sender # Bnft /\ sender # NoAddr
        /\ bnftOwner' = [bnftOwner EXCEPT ![id] = to]
        /\ minters' = [minters EXCEPT ![id] = sender]
        /\ nftOwner' = [nftOwner EXCEPT ![id] = Bnft]
    BY DEF Mint, NewMinter, Ledgers, MinterIffBound
  <1>4. Committed.nftOwner = nftOwner /\ Committed'.nftOwner = nftOwner'
    BY <1>1 DEF World
  <1>5. CommittedDeed = [t \in Token |-> IF minters[t] = NoAddr THEN NoAddr
                                         ELSE [minter |-> minters[t], owner |-> bnftOwner[t]]]
    BY <1>1 DEF CommittedDeed, World
  <1>6. CommittedDeed' = [t \in Token |-> IF minters'[t] = NoAddr THEN NoAddr
                                          ELSE [minter |-> minters'[t], owner |-> bnftOwner'[t]]]
    BY <1>1 DEF CommittedDeed, World
  <1>7. CommittedDeed' = [CommittedDeed EXCEPT ![id] = [minter |-> sender, owner |-> to]]
    BY <1>2, <1>3, <1>5, <1>6
  <1>8. CommittedDeed[id] = NoAddr
    BY <1>3, <1>5
  <1> QED
    BY <1>3, <1>4, <1>7, <1>8 DEF V!Bind

\* A step that cancels the deed of t and keeps every other asset.
LEMMA Unbinds ==
    ASSUME Committed \in Worlds, Committed' \in Worlds, NEW t \in Token,
           Committed.minters[t] # NoAddr, Committed.bnftOwner[t] # NoAddr,
           Committed'.minters = [Committed.minters EXCEPT ![t] = NoAddr],
           Committed'.bnftOwner = [Committed.bnftOwner EXCEPT ![t] = NoAddr],
           \A u \in Token \ {t} : Committed.nftOwner[u] = Bnft => Committed'.nftOwner[u] = Bnft
    PROVE  V!Unbind(t)
  <1>1. /\ Committed.minters \in [Token -> Account \cup {NoAddr}]
        /\ Committed.bnftOwner \in [Token -> Account \cup {NoAddr}]
        /\ Committed'.nftOwner \in [Token -> Account \cup {Bnft}]
    BY DEF Worlds
  <1>2. CommittedDeed[t] # NoAddr
    <2>1. CommittedDeed[t] = [minter |-> Committed.minters[t], owner |-> Committed.bnftOwner[t]]
      BY DEF CommittedDeed
    <2>2. CommittedDeed[t] \in [minter : Account, owner : Account]
      BY <1>1, <2>1
    <2> QED
      BY <2>2, NoAddrIsNoDeed
  <1>3. CommittedDeed' = [CommittedDeed EXCEPT ![t] = NoAddr]
    BY <1>1 DEF CommittedDeed
  <1> QED
    BY <1>1, <1>2, <1>3 DEF V!Unbind, V!VaultKeeps

\* A step that leaves the deeds alone and takes no asset out of the vault.
LEMMA StaysOutside ==
    ASSUME Committed' \in Worlds,
           Committed'.minters = Committed.minters, Committed'.bnftOwner = Committed.bnftOwner,
           \A u \in Token : Committed.nftOwner[u] = Bnft => Committed'.nftOwner[u] = Bnft
    PROVE  V!Outside
  <1>1. Committed'.nftOwner \in [Token -> Account \cup {Bnft}]
    BY DEF Worlds
  <1>2. CommittedDeed' = CommittedDeed
    BY DEF CommittedDeed
  <1> QED
    BY <1>1, <1>2 DEF V!Outside, V!VaultKeeps

\* A transaction that hands out no control.
LEMMA BetweenCalls ==
    ASSUME Control, Control', Ledgers, [Next]_vars, Idle, Idle'
    PROVE  V!Next
  <1>1. Committed = World /\ Committed' = World' /\ Committed \in Worlds /\ Committed' \in Worlds
    BY CommittedTyped DEF Committed, Idle, Control, TypeOK
  <1>2. ASSUME UNCHANGED deeds, \A u \in Token : nftOwner[u] = Bnft => nftOwner'[u] = Bnft
        PROVE  V!Outside
    <2>1. UNCHANGED <<bnftOwner, minters>>
      BY <1>2 DEF deeds
    <2> QED
      BY <1>1, <1>2, <2>1, StaysOutside DEF World
  <1>3. ASSUME NEW sender \in Sender, UserCall(sender) PROVE \E t \in Token : V!Bind(t) \/ V!Unbind(t)
    <2>1. PICK id \in Token : (\E to \in Account : Mint(sender, to, id)) \/ Burn(sender, id)
      BY <1>3 DEF UserCall
    <2>2. CASE \E to \in Account : Mint(sender, to, id)
      BY <2>2, MintBinds, SenderIsAccount
    <2>3. CASE Burn(sender, id)
      <3>1. /\ nftOwner \in [Token -> Account \cup {Bnft}]
            /\ bnftOwner \in [Token -> Account \cup {NoAddr}]
            /\ minters \in [Token -> Account \cup {NoAddr}]
        BY WorldFields DEF Control, TypeOK
      <3>2. /\ bnftOwner[id] # NoAddr /\ minters[id] # NoAddr
            /\ bnftOwner' = [bnftOwner EXCEPT ![id] = NoAddr]
            /\ minters' = [minters EXCEPT ![id] = NoAddr]
            /\ nftOwner' = [nftOwner EXCEPT ![id] = sender]
        BY <2>3 DEF Burn, ClearDeed, Ledgers, MinterIffBound
      <3>3. \A u \in Token \ {id} : nftOwner[u] = Bnft => nftOwner'[u] = Bnft
        BY <3>1, <3>2
      <3>4. V!Unbind(id)
        BY <1>1, <3>2, <3>3, Unbinds DEF World
      <3> QED
        BY <3>4
    <2> QED
      BY <2>1, <2>2, <2>3
  <1>4. ASSUME NEW sender \in Sender, LoanCall(sender) PROVE V!Outside
    <2>1. ASSUME NEW receiver \in Contract, NEW ids \in Ids, FlashLoan(sender, receiver, ids) PROVE FALSE
      BY <2>1, Opens, SenderIsAccount DEF FlashLoan, Functions
    <2> QED
      BY <1>2, <1>4, <2>1 DEF LoanCall, SetFlashLoanApproval, SetFlashLoanLocking
  <1>5. ASSUME NEW sender \in Sender, AdminCall(sender) PROVE V!Outside
    <2>1. UNCHANGED <<nftOwner, deeds>>
      BY <1>5 DEF AdminCall, ClaimAirdrop, ExecuteAirdrop, NotProtected, AfterCallTo, SetENSName,
                  TransferOwnership, SetClaimAdmin, RenounceOwnership
    <2> QED
      BY <1>2, <2>1
  <1>6. ASSUME FlashLoanNext \/ CallEnds PROVE FALSE
    BY <1>6 DEF FlashLoanNext, CallEnds, FlashLoanReturn, CallReturn, RevertCall, Idle
  <1>7. ASSUME NEW id \in Token, NEW to \in Account \cup {Bnft}, ExtTransfer(id, to) PROVE V!Outside
    <2>1. \A u \in Token : nftOwner[u] = Bnft => nftOwner'[u] = Bnft
      BY <1>7, WorldFields DEF ExtTransfer, Control, TypeOK
    <2> QED
      BY <1>2, <1>7, <2>1 DEF ExtTransfer
  <1>8. CASE UNCHANGED vars
    BY <1>2, <1>8 DEF vars, V!Next
  <1> QED
    BY <1>3, <1>4, <1>5, <1>6, <1>7, <1>8 DEF Next, V!Next

\* A call that ends well, with everything done since it began.
LEMMA AcrossCall ==
    ASSUME Control, Control', SavedSound, SinceCall, FlashLoanReturn \/ CallReturn,
           ~Idle, Idle', Committed = Frame.saved, Committed' = World'
    PROVE  V!Next
  <1>1. /\ Committed \in Worlds /\ Committed' \in Worlds /\ Frame \in Frames
        /\ Len(stack) = 1 /\ Top = Frame
    BY CommittedTyped, OpenCall DEF Control, TypeOK
  <1>2. UNCHANGED <<bnftOwner, minters>>
    BY DEF FlashLoanReturn, CallReturn, deeds
  <1>3. CASE FlashLoanReturn
    <2>1. /\ Frame.fn = "flashLoan" /\ Frame.sent = Len(Frame.ids)
          /\ nftOwner' = [t \in Token |-> IF \E i \in 1..Len(Frame.ids) : Frame.ids[i] = t THEN Bnft
                                          ELSE nftOwner[t]]
      BY <1>1, <1>3 DEF FlashLoanReturn, TakeBack
    <2>2. /\ bnftOwner = Frame.saved.bnftOwner /\ minters = Frame.saved.minters
          /\ \A u \in Token : Frame.saved.nftOwner[u] = Bnft => nftOwner[u] = Bnft \/ OnLoan(u)
      BY <2>1 DEF SinceCall
    <2>3. \A u \in Token : Frame.saved.nftOwner[u] = Bnft => nftOwner'[u] = Bnft
      BY <1>1, <2>1, <2>2, OneFrame
    <2>4. V!Outside
      BY <1>1, <1>2, <2>2, <2>3, StaysOutside DEF World
    <2> QED
      BY <2>4 DEF V!Next
  <1>4. CASE CallReturn
    <2>1. Frame.fn # "flashLoan" /\ nftOwner' = nftOwner
      BY <1>1, <1>4 DEF CallReturn
    <2>2. CASE Frame.fn = "burn"
      <3>1. PICK t \in Token :
                 /\ OnlyBurned(Frame.saved, t)
                 /\ \A u \in Token \ {t} : Frame.saved.nftOwner[u] = Bnft => nftOwner[u] = Bnft
        BY <2>2 DEF SinceCall
      <3>2. Frame.saved.minters[t] # NoAddr /\ Frame.saved.bnftOwner[t] # NoAddr
        BY <3>1 DEF OnlyBurned, SavedSound
      <3>3. V!Unbind(t)
        BY <1>1, <1>2, <2>1, <3>1, <3>2, Unbinds DEF OnlyBurned, World
      <3> QED
        BY <3>3 DEF V!Next
    <2>3. CASE Frame.fn # "burn"
      <3>1. /\ bnftOwner = Frame.saved.bnftOwner /\ minters = Frame.saved.minters
            /\ \A u \in Token : Frame.saved.nftOwner[u] = Bnft => nftOwner[u] = Bnft \/ OnLoan(u)
        BY <2>3 DEF SinceCall
      <3>2. \A u \in Token : Frame.saved.nftOwner[u] = Bnft => nftOwner'[u] = Bnft
        BY <1>1, <2>1, <3>1, OneFrame
      <3>3. V!Outside
        BY <1>1, <1>2, <3>1, <3>2, StaysOutside DEF World
      <3> QED
        BY <3>3 DEF V!Next
    <2> QED
      BY <2>2, <2>3
  <1> QED
    BY <1>3, <1>4

\* The contract implements the vault: in what the chain remembers, an asset
\* enters against a deed and leaves only with it (BNFT.sol:202-287), for every
\* collection, every set of accounts and every bound.
THEOREM VaultImplemented == Spec => ImplementsVault
  <1>1. Init => V!Init
    <2> SUFFICES ASSUME Init PROVE V!Init
      OBVIOUS
    <2>1. Committed = World
      BY DEF Init, Committed
    <2>2. Committed.nftOwner = nftOwner /\ CommittedDeed = [t \in Token |-> NoAddr]
      BY <2>1 DEF Init, World, CommittedDeed
    <2> QED
      BY <2>2 DEF Init, V!Init
  <1>2. Control /\ Control' /\ Ledgers /\ SinceSaved /\ [Next]_vars => [V!Next]_(V!vars)
    <2> SUFFICES ASSUME Control, Control', Ledgers, SinceSaved, [Next]_vars PROVE [V!Next]_(V!vars)
      OBVIOUS
    <2>1. CASE Committed' = Committed
      <3>1. Committed'.nftOwner = Committed.nftOwner /\ CommittedDeed' = CommittedDeed
        BY <2>1 DEF CommittedDeed
      <3> QED
        BY <3>1 DEF V!vars
    <2>2. CASE Idle /\ Idle'
      BY <2>2, BetweenCalls
    <2>3. CASE /\ ~Idle /\ Idle' /\ Committed = Frame.saved /\ Committed' = World'
               /\ FlashLoanReturn \/ CallReturn
      BY <2>3, AcrossCall DEF Ledgers, SinceSaved
    <2> QED
      BY <2>1, <2>2, <2>3, CommittedFrame
  <1> QED
    BY <1>1, <1>2, ControlInvariant, LedgersInvariant, SinceInvariant, PTL DEF Spec, V!Spec, ImplementsVault
===============================================================================

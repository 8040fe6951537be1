----------------------- MODULE BoundPunkGatewayProofs -----------------------
(***************************************************************************)
(* Safety of the punk gateway for every set of punks and users.  The       *)
(* invariant says of a transaction under way which ledger holds its punk   *)
(* (Place), that it leaves the other punks alone (Others), and that the    *)
(* books a revert goes back to were sound (SavedSound).                    *)
(***************************************************************************)
EXTENDS BoundPunkGateway, TLAPS

\* Backed, and NothingLeftBehind, of any books.
Chain(b) ==
    \A p \in Punk :
        /\ b.wpunks[p] # NoAddr => b.punks[p] = Wrapper
        /\ b.bnfts[p] # NoAddr => b.wpunks[p] = Vault
        /\ b.bnfts[p] # NoAddr <=> b.minters[p] # NoAddr
OnlyGiven(b) ==
    \A p \in Punk : b.punks[p] \in {Gateway, Proxy} \/ b.wpunks[p] \in {Gateway, Proxy} <=> p \in given
Owed(b) == \A p \in Punk : b.minters[p] = Gateway => b.bnfts[p] = depositor[p]

SavedSound ==
    /\ ~Idle => Chain(tx.saved) /\ OnlyGiven(tx.saved)
    /\ ~Idle /\ tx.pc # "done" => Owed(tx.saved)

Same(b, q) == /\ punkIndexToAddress[q] = b.punks[q]
              /\ wpunkOwner[q] = b.wpunks[q]
              /\ bnftOwner[q] = b.bnfts[q]
              /\ minters[q] = b.minters[q]
Others == ~Idle => \A q \in Punk \ {tx.punk} : Same(tx.saved, q)

Wanted == IF tx.fn = "depositPunk" THEN MayDeposit(tx.caller, tx.punk) ELSE MayWithdraw(tx.caller, tx.punk)

\* Where the punk of the transaction is.
Place ==
    LET p == tx.punk
    IN  /\ tx.pc \in DepositPlaces => tx.fn = "depositPunk"
        /\ tx.pc \in WithdrawPlaces => tx.fn = "withdrawPunk"
        /\ tx.pc \in {"buyPunk", "burnBound"} => Saved = tx.saved
        /\ tx.pc \in {"buyPunk", "burnBound", "reverted"} => Same(tx.saved, p)
        /\ tx.pc \in {"toProxy", "mintWPunk", "mintBound", "burnWPunk", "sendPunk", "done"} => Wanted
        /\ tx.pc \in {"toProxy", "mintWPunk"} => wpunkOwner[p] = NoAddr
        /\ tx.pc = "toProxy" => punkIndexToAddress[p] = Gateway
        /\ tx.pc = "mintWPunk" => punkIndexToAddress[p] = Proxy
        /\ tx.pc \in {"toProxy", "mintWPunk", "mintBound", "burnWPunk", "sendPunk"} => bnftOwner[p] = NoAddr
        /\ tx.pc \in {"mintBound", "burnWPunk"} => wpunkOwner[p] = Gateway
        /\ tx.pc = "sendPunk" => punkIndexToAddress[p] = Gateway /\ wpunkOwner[p] = NoAddr
        /\ tx.pc = "done" /\ tx.fn = "depositPunk" => wpunkOwner[p] = Vault
        /\ tx.pc = "done" /\ tx.fn = "withdrawPunk" =>
              wpunkOwner[p] = NoAddr /\ punkIndexToAddress[p] = tx.caller
        /\ tx.pc # "idle" /\ tx.pc # "burnBound" /\ tx.pc # "reverted" /\ tx.fn = "withdrawPunk" =>
              depositor[p] = tx.caller

IInv == TypeOK /\ Backed /\ Owed(Saved) /\ NothingLeftBehind /\ ExchangeCompletes
        /\ SavedSound /\ Others /\ Place
-----------------------------------------------------------------------------
(* The type of the books, and the transaction under way.                    *)

LEMMA Fields ==
    Saved \in Books <=>
      /\ punkIndexToAddress \in [Punk -> Account]
      /\ offeredTo \in [Punk -> User \cup {Gateway, Anyone, NoAddr}]
      /\ wpunkOwner \in [Punk -> Account \cup {NoAddr}]
      /\ bnftOwner \in [Punk -> User \cup {NoAddr}]
      /\ minters \in [Punk -> User \cup {Gateway, NoAddr}]
  BY DEF Saved, Books

LEMMA OpenTx == ASSUME TypeOK, ~Idle PROVE tx \in Frames
  BY DEF TypeOK, Idle, NoTx

LEMMA NoneOpen == ASSUME TypeOK, Idle PROVE tx = NoTx
  BY DEF TypeOK, Idle, Frames, DepositPlaces, WithdrawPlaces

LEMMA NoTxIdle == NoTx.pc = "idle"
  BY DEF NoTx

\* What everybody else does only has to keep the ledgers sound.
LEMMA OutsideStep ==
    ASSUME IInv, Idle, tx' = tx, TypeOK', Backed', Owed(Saved)', NothingLeftBehind'
    PROVE  IInv'
  <1>1. tx'.pc = "idle"
    BY DEF Idle
  <1>2. ExchangeCompletes' /\ SavedSound' /\ Others' /\ Place'
    BY <1>1 DEF ExchangeCompletes, SavedSound, Others, Place, Idle, DepositPlaces, WithdrawPlaces
  <1> QED
    BY <1>2 DEF IInv

\* A transaction starts with the books it would go back to.
LEMMA EnterStep ==
    ASSUME IInv, NEW u \in User, NEW p \in Punk, depositPunk(u, p) \/ withdrawPunk(u, p)
    PROVE  IInv'
  <1> USE DEF IInv
  <1>1. /\ tx' \in Frames /\ tx'.punk = p /\ tx'.saved = Saved /\ Idle
        /\ \/ tx'.fn = "depositPunk" /\ tx'.pc = "buyPunk"
           \/ tx'.fn = "withdrawPunk" /\ tx'.pc = "burnBound"
    BY DEF depositPunk, withdrawPunk, Enter, Frames, TypeOK, DepositPlaces, WithdrawPlaces
  <1>2. UNCHANGED <<ledgers, paused, depositor, given>> /\ Saved' = Saved
    BY DEF depositPunk, withdrawPunk, Enter, Saved, ledgers
  <1>3. TypeOK' /\ Backed'
    BY <1>1, <1>2 DEF TypeOK, Backed, ledgers
  <1>4. Owed(Saved)' /\ NothingLeftBehind' /\ ExchangeCompletes'
    BY <1>1, <1>2 DEF Owed, NothingLeftBehind, ExchangeCompletes, Idle
  <1>5. SavedSound' /\ Others'
    BY <1>1, <1>2 DEF SavedSound, Others, Same, Chain, OnlyGiven, Owed, Backed, NothingLeftBehind,
                      AtGateway, Saved, ledgers
  <1>6. Place'
    BY <1>1, <1>2 DEF Place, Same, Saved, DepositPlaces, WithdrawPlaces, ledgers
  <1> QED
    BY <1>3, <1>4, <1>5, <1>6

\* A revert goes back to sound books, and happens only when it may.
LEMMA RevertStep ==
    ASSUME IInv, tx.pc \in DepositPlaces \cup WithdrawPlaces, paused \/ ~Wanted, Revert
    PROVE  IInv'
  <1> USE DEF IInv
  <1>1. ~Idle /\ tx.pc # "done" /\ tx \in Frames
    BY OpenTx DEF Idle, DepositPlaces, WithdrawPlaces
  <1>2. /\ tx'.pc = "reverted" /\ tx'.saved = tx.saved /\ tx'.punk = tx.punk
        /\ tx'.fn = tx.fn /\ tx'.caller = tx.caller /\ tx' \in Frames
        /\ UNCHANGED <<paused, given, depositor>>
    BY <1>1 DEF Revert, GoOn, Frames
  <1>3. Saved' = tx.saved
    BY <1>1 DEF Revert, Saved, Frames, Books
  <1>4. TypeOK'
    BY <1>1, <1>2, <1>3 DEF TypeOK, Frames
  <1>5. Backed' /\ Owed(Saved)' /\ NothingLeftBehind'
    BY <1>1, <1>2, <1>3 DEF SavedSound, Backed, Chain, Owed, NothingLeftBehind, Idle, Revert
  <1>6. ExchangeCompletes'
    BY <1>2 DEF ExchangeCompletes, Wanted, MayDeposit, MayWithdraw
  <1>7. SavedSound' /\ Others' /\ Place'
    BY <1>1, <1>2, <1>3 DEF SavedSound, Chain, OnlyGiven, Owed, Others, Place, Same, Idle, Revert,
                            DepositPlaces, WithdrawPlaces
  <1> QED
    BY <1>4, <1>5, <1>6, <1>7

\* A call that goes on disturbs the books of its own punk only.
OnlyAt(p) == \A q \in Punk \ {p} : /\ punkIndexToAddress'[q] = punkIndexToAddress[q]
                                   /\ wpunkOwner'[q] = wpunkOwner[q]
                                   /\ bnftOwner'[q] = bnftOwner[q]
                                   /\ minters'[q] = minters[q]
                                   /\ depositor'[q] = depositor[q]
BackedAt(p) ==
    /\ wpunkOwner[p] # NoAddr => punkIndexToAddress[p] = Wrapper
    /\ bnftOwner[p] # NoAddr => wpunkOwner[p] = Vault
    /\ bnftOwner[p] # NoAddr <=> minters[p] # NoAddr
OwedAt(p) == minters[p] = Gateway => bnftOwner[p] = depositor[p]

LEMMA GoOnStep ==
    ASSUME IInv, tx.pc \in DepositPlaces \cup WithdrawPlaces,
           NEW pc \in DepositPlaces \cup WithdrawPlaces \cup {"done"}, GoOn(pc),
           Saved' \in Books, depositor' \in [Punk -> User \cup {NoAddr}],
           pc # "done" => depositor' = depositor,
           OnlyAt(tx.punk), BackedAt(tx.punk)', OwedAt(tx.punk)', Place'
    PROVE  IInv'
  <1> USE DEF IInv
  <1>1. ~Idle /\ tx.pc # "done" /\ tx \in Frames
    BY OpenTx DEF Idle, DepositPlaces, WithdrawPlaces
  <1>2. /\ tx'.pc = pc /\ tx'.saved = tx.saved /\ tx'.punk = tx.punk
        /\ tx' \in Frames /\ UNCHANGED <<paused, given>> /\ ~Idle'
    BY <1>1 DEF GoOn, Frames, Idle, DepositPlaces, WithdrawPlaces
  <1>3. TypeOK'
    BY <1>2 DEF TypeOK
  <1>4. Backed' /\ Owed(Saved)'
    BY <1>1, <1>2 DEF Backed, BackedAt, Owed, OwedAt, OnlyAt, Saved
  <1>5. NothingLeftBehind' /\ ExchangeCompletes'
    BY <1>2 DEF NothingLeftBehind, ExchangeCompletes, DepositPlaces, WithdrawPlaces
  <1>6. SavedSound'
    BY <1>1, <1>2 DEF SavedSound, Chain, OnlyGiven, Owed
  <1>7. Others'
    BY <1>1, <1>2 DEF Others, Same, OnlyAt
  <1> QED
    BY <1>3, <1>4, <1>5, <1>6, <1>7

\* Everybody else moves a punk of a user, or a token of one.
LEMMA OutsideAt ==
    ASSUME IInv, Idle, tx' = tx, depositor' = depositor, paused' \in BOOLEAN, Saved' \in Books,
           NEW p \in Punk, OnlyAt(p), BackedAt(p)', OwedAt(p)',
           given' \subseteq Punk, given' \ {p} = given \ {p}, AtGateway(p)' <=> p \in given'
    PROVE  IInv'
  <1>1. TypeOK'
    BY DEF IInv, TypeOK
  <1>2. Backed' /\ Owed(Saved)'
    BY DEF IInv, Backed, BackedAt, Owed, OwedAt, OnlyAt, Saved
  <1>3. NothingLeftBehind'
    BY DEF IInv, NothingLeftBehind, AtGateway, OnlyAt
  <1> QED
    BY <1>1, <1>2, <1>3, OutsideStep
-----------------------------------------------------------------------------
(* The gateway's calls.                                                     *)

LEMMA Sites ==
    /\ User \cap Site = {} /\ NoAddr \notin User \cup Site
    /\ Gateway # Proxy /\ Gateway # Wrapper /\ Gateway # Vault
    /\ Proxy # Wrapper /\ Proxy # Vault /\ Wrapper # Vault
    /\ Gateway \in Site /\ Proxy \in Site /\ Wrapper \in Site /\ Vault \in Site
  BY AddressesDistinct DEF Site

LEMMA GoOnFields == ASSUME tx \in Frames, NEW pc, GoOn(pc)
                    PROVE  /\ tx'.pc = pc /\ tx'.fn = tx.fn /\ tx'.punk = tx.punk
                           /\ tx'.saved = tx.saved /\ tx'.caller = tx.caller
  BY DEF GoOn, Frames

LEMMA Running == ASSUME IInv, tx.pc # "idle"
                 PROVE  /\ tx \in Frames /\ tx.punk \in Punk /\ tx.caller \in User /\ tx.saved \in Books
                        /\ tx.fn \in {"depositPunk", "withdrawPunk"} /\ ~Idle
  BY OpenTx DEF IInv, Idle, Frames

\* A punk that may be deposited is nowhere in the wrapper, and one that may be
\* withdrawn is bound; neither was given to the gateway.
LEMMA WantedDeposit ==
    ASSUME IInv, ~Idle, tx.fn = "depositPunk", Wanted
    PROVE  /\ tx.saved.punks[tx.punk] = tx.caller /\ tx.saved.wpunks[tx.punk] = NoAddr
           /\ tx.saved.bnfts[tx.punk] = NoAddr /\ tx.punk \notin given
  BY Running, Sites DEF IInv, Idle, SavedSound, Chain, OnlyGiven, Wanted, MayDeposit

LEMMA WantedWithdraw ==
    ASSUME IInv, ~Idle, tx.fn = "withdrawPunk", Wanted
    PROVE  /\ tx.saved.punks[tx.punk] = Wrapper /\ tx.saved.wpunks[tx.punk] = Vault
           /\ tx.saved.bnfts[tx.punk] = tx.caller /\ tx.saved.minters[tx.punk] = Gateway
           /\ tx.punk \notin given
  BY Running, Sites DEF IInv, Idle, SavedSound, Chain, OnlyGiven, Wanted, MayWithdraw

LEMMA BuyPunkStep == ASSUME IInv, BuyPunk PROVE IInv'
  <1>1. tx.pc = "buyPunk" /\ tx.fn = "depositPunk" /\ Saved = tx.saved
    BY DEF BuyPunk, At, IInv, Place, DepositPlaces
  <1>2. tx \in Frames /\ tx.punk \in Punk /\ tx.caller \in User /\ ~Idle
    BY <1>1, Running
  <1>3. CASE CallerOwnsPunk /\ offeredTo[tx.punk] \in {Gateway, Anyone}
    <2>1. /\ punkIndexToAddress' = [punkIndexToAddress EXCEPT ![tx.punk] = Gateway]
          /\ offeredTo' = [offeredTo EXCEPT ![tx.punk] = NoAddr]
          /\ GoOn("toProxy") /\ UNCHANGED <<wpunkOwner, bnftOwner, minters, depositor>>
      BY <1>3 DEF BuyPunk, TransferPunk, AfterBuy
    <2>2. Wanted
      BY <1>1, <1>3 DEF Wanted, MayDeposit, CallerOwnsPunk, Saved
    <2>3. wpunkOwner[tx.punk] = NoAddr /\ bnftOwner[tx.punk] = NoAddr /\ minters[tx.punk] = NoAddr
      BY <1>1, <1>2, <2>2, WantedDeposit DEF Saved, IInv, Backed
    <2>4. Saved' \in Books
      BY <1>2, <2>1, Fields DEF IInv, TypeOK, Saved, Books, Account, Site
    <2>5. OnlyAt(tx.punk) /\ punkIndexToAddress'[tx.punk] = Gateway
      BY <1>2, <2>1, Fields DEF OnlyAt, IInv, TypeOK
    <2>6. BackedAt(tx.punk)' /\ OwedAt(tx.punk)' /\ Place'
      BY <1>1, <1>2, <2>1, <2>2, <2>3, <2>5, GoOnFields, Sites
         DEF BackedAt, OwedAt, Place, DepositPlaces, WithdrawPlaces, Wanted, MayDeposit
    <2> QED
      BY <1>1, <2>1, <2>4, <2>5, <2>6, GoOnStep DEF DepositPlaces, IInv, TypeOK
  <1>4. CASE ~(CallerOwnsPunk /\ offeredTo[tx.punk] \in {Gateway, Anyone})
    <2>1. Revert /\ ~Wanted
      BY <1>1, <1>4 DEF BuyPunk, Wanted, MayDeposit, CallerOwnsPunk, Saved
    <2> QED
      BY <1>1, <2>1, RevertStep DEF DepositPlaces
  <1> QED
    BY <1>3, <1>4

LEMMA TransferToProxyStep == ASSUME IInv, TransferToProxy PROVE IInv'
  <1>1. /\ tx.pc = "toProxy" /\ tx.fn = "depositPunk" /\ Wanted /\ punkIndexToAddress[tx.punk] = Gateway
        /\ wpunkOwner[tx.punk] = NoAddr /\ bnftOwner[tx.punk] = NoAddr
    BY DEF TransferToProxy, At, IInv, Place, DepositPlaces
  <1>2. tx \in Frames /\ tx.punk \in Punk /\ ~Idle /\ minters[tx.punk] = NoAddr
    BY <1>1, Running DEF IInv, Backed
  <1>3. /\ punkIndexToAddress' = [punkIndexToAddress EXCEPT ![tx.punk] = Proxy]
        /\ offeredTo' = [offeredTo EXCEPT ![tx.punk] = NoAddr]
        /\ GoOn("mintWPunk") /\ UNCHANGED <<wpunkOwner, bnftOwner, minters, depositor>>
    BY <1>1 DEF TransferToProxy, TransferPunk
  <1>4. Saved' \in Books
    BY <1>2, <1>3, Fields DEF IInv, TypeOK, Saved, Books, Account, Site
  <1>5. OnlyAt(tx.punk) /\ punkIndexToAddress'[tx.punk] = Proxy
    BY <1>2, <1>3, Fields DEF OnlyAt, IInv, TypeOK
  <1>6. BackedAt(tx.punk)' /\ OwedAt(tx.punk)' /\ Place'
    BY <1>1, <1>2, <1>3, <1>5, GoOnFields, Sites
       DEF BackedAt, OwedAt, Place, DepositPlaces, WithdrawPlaces, Wanted, MayDeposit
  <1> QED
    BY <1>1, <1>3, <1>4, <1>5, <1>6, GoOnStep DEF DepositPlaces, IInv, TypeOK

LEMMA MintWPunkStep == ASSUME IInv, MintWPunk PROVE IInv'
  <1>1. /\ tx.pc = "mintWPunk" /\ tx.fn = "depositPunk" /\ Wanted /\ punkIndexToAddress[tx.punk] = Proxy
        /\ wpunkOwner[tx.punk] = NoAddr /\ bnftOwner[tx.punk] = NoAddr
    BY DEF MintWPunk, At, IInv, Place, DepositPlaces
  <1>2. tx \in Frames /\ tx.punk \in Punk /\ ~Idle /\ minters[tx.punk] = NoAddr
    BY <1>1, Running DEF IInv, Backed
  <1>3. CASE ~paused
    <2>1. /\ punkIndexToAddress' = [punkIndexToAddress EXCEPT ![tx.punk] = Wrapper]
          /\ offeredTo' = [offeredTo EXCEPT ![tx.punk] = NoAddr]
          /\ wpunkOwner' = [wpunkOwner EXCEPT ![tx.punk] = Gateway]
          /\ GoOn("mintBound") /\ UNCHANGED <<bnftOwner, minters, depositor>>
      BY <1>1, <1>3 DEF MintWPunk, TransferPunk
    <2>2. Saved' \in Books
      BY <1>2, <2>1, Fields DEF IInv, TypeOK, Saved, Books, Account, Site
    <2>3. /\ OnlyAt(tx.punk) /\ punkIndexToAddress'[tx.punk] = Wrapper
          /\ wpunkOwner'[tx.punk] = Gateway
      BY <1>2, <2>1, Fields DEF OnlyAt, IInv, TypeOK
    <2>4. BackedAt(tx.punk)' /\ OwedAt(tx.punk)' /\ Place'
      BY <1>1, <1>2, <2>1, <2>3, GoOnFields, Sites
         DEF BackedAt, OwedAt, Place, DepositPlaces, WithdrawPlaces, Wanted, MayDeposit
    <2> QED
      BY <1>1, <2>1, <2>2, <2>3, <2>4, GoOnStep DEF DepositPlaces, IInv, TypeOK
  <1>4. CASE paused
    <2>1. Revert
      BY <1>4 DEF MintWPunk
    <2> QED
      BY <1>1, <1>4, <2>1, RevertStep DEF DepositPlaces
  <1> QED
    BY <1>3, <1>4

LEMMA MintBoundStep == ASSUME IInv, MintBound PROVE IInv'
  <1>1. /\ tx.pc = "mintBound" /\ tx.fn = "depositPunk" /\ Wanted
        /\ wpunkOwner[tx.punk] = Gateway /\ bnftOwner[tx.punk] = NoAddr
    BY DEF MintBound, At, IInv, Place, DepositPlaces
  <1>2. tx \in Frames /\ tx.punk \in Punk /\ tx.caller \in User /\ ~Idle
    BY <1>1, Running
  <1>3. punkOwner = tx.caller /\ tx.punk \notin given /\ punkIndexToAddress[tx.punk] = Wrapper
    BY <1>1, <1>2, WantedDeposit, Sites DEF punkOwner, IInv, Backed
  <1>4. /\ bnftOwner' = [bnftOwner EXCEPT ![tx.punk] = tx.caller]
        /\ minters' = [minters EXCEPT ![tx.punk] = Gateway]
        /\ wpunkOwner' = [wpunkOwner EXCEPT ![tx.punk] = Vault]
        /\ depositor' = [depositor EXCEPT ![tx.punk] = tx.caller]
        /\ GoOn("done") /\ UNCHANGED <<punkIndexToAddress, offeredTo>>
    BY <1>1, <1>3 DEF MintBound
  <1>5. Saved' \in Books /\ depositor' \in [Punk -> User \cup {NoAddr}]
    BY <1>2, <1>4, Fields DEF IInv, TypeOK, Saved, Books, Account, Site
  <1>6. /\ OnlyAt(tx.punk) /\ wpunkOwner'[tx.punk] = Vault /\ bnftOwner'[tx.punk] = tx.caller
        /\ minters'[tx.punk] = Gateway /\ depositor'[tx.punk] = tx.caller
    BY <1>2, <1>4, Fields DEF OnlyAt, IInv, TypeOK
  <1>7. BackedAt(tx.punk)' /\ OwedAt(tx.punk)' /\ Place'
    BY <1>1, <1>2, <1>3, <1>4, <1>6, GoOnFields, Sites
       DEF BackedAt, OwedAt, Place, DepositPlaces, WithdrawPlaces, Wanted, MayDeposit
  <1> QED
    BY <1>1, <1>4, <1>5, <1>6, <1>7, GoOnStep DEF DepositPlaces

LEMMA BurnBoundStep == ASSUME IInv, BurnBound PROVE IInv'
  <1>1. tx.pc = "burnBound" /\ tx.fn = "withdrawPunk" /\ Saved = tx.saved
    BY DEF BurnBound, At, IInv, Place, WithdrawPlaces
  <1>2. tx \in Frames /\ tx.punk \in Punk /\ tx.caller \in User /\ ~Idle
    BY <1>1, Running
  <1>3. CASE Wanted
    <2>1. /\ bnftOwner[tx.punk] = tx.caller /\ minters[tx.punk] = Gateway /\ wpunkOwner[tx.punk] = Vault
          /\ punkIndexToAddress[tx.punk] = Wrapper /\ depositor[tx.punk] = tx.caller
      BY <1>1, <1>2, <1>3, WantedWithdraw DEF Saved, IInv, Owed
    <2>2. /\ bnftOwner' = [bnftOwner EXCEPT ![tx.punk] = NoAddr]
          /\ minters' = [minters EXCEPT ![tx.punk] = NoAddr]
          /\ wpunkOwner' = [wpunkOwner EXCEPT ![tx.punk] = Gateway]
          /\ GoOn("burnWPunk") /\ UNCHANGED <<punkIndexToAddress, offeredTo, depositor>>
      BY <2>1 DEF BurnBound
    <2>3. Saved' \in Books
      BY <1>2, <2>2, Fields DEF IInv, TypeOK, Saved, Books, Account, Site
    <2>4. /\ OnlyAt(tx.punk) /\ wpunkOwner'[tx.punk] = Gateway /\ bnftOwner'[tx.punk] = NoAddr
          /\ minters'[tx.punk] = NoAddr
      BY <1>2, <2>2, Fields DEF OnlyAt, IInv, TypeOK
    <2>5. BackedAt(tx.punk)' /\ OwedAt(tx.punk)' /\ Place'
      BY <1>1, <1>2, <1>3, <2>1, <2>2, <2>4, GoOnFields, Sites
         DEF BackedAt, OwedAt, Place, DepositPlaces, WithdrawPlaces, Wanted, MayWithdraw
    <2> QED
      BY <1>1, <2>2, <2>3, <2>4, <2>5, GoOnStep DEF WithdrawPlaces, IInv, TypeOK
  <1>4. CASE ~Wanted
    <2>1. Revert
      BY <1>1, <1>4 DEF BurnBound, Wanted, MayWithdraw, Saved
    <2> QED
      BY <1>1, <1>4, <2>1, RevertStep DEF WithdrawPlaces
  <1> QED
    BY <1>3, <1>4

LEMMA BurnWPunkStep == ASSUME IInv, BurnWPunk PROVE IInv'
  <1>1. /\ tx.pc = "burnWPunk" /\ tx.fn = "withdrawPunk" /\ Wanted /\ depositor[tx.punk] = tx.caller
        /\ wpunkOwner[tx.punk] = Gateway /\ bnftOwner[tx.punk] = NoAddr
    BY DEF BurnWPunk, At, IInv, Place, WithdrawPlaces
  <1>2. tx \in Frames /\ tx.punk \in Punk /\ ~Idle
    BY <1>1, Running
  <1>3. minters[tx.punk] = NoAddr /\ punkIndexToAddress[tx.punk] = Wrapper
    BY <1>1, <1>2, Sites DEF IInv, Backed
  <1>4. CASE ~paused
    <2>1. /\ wpunkOwner' = [wpunkOwner EXCEPT ![tx.punk] = NoAddr]
          /\ punkIndexToAddress' = [punkIndexToAddress EXCEPT ![tx.punk] = Gateway]
          /\ offeredTo' = [offeredTo EXCEPT ![tx.punk] = NoAddr]
          /\ GoOn("sendPunk") /\ UNCHANGED <<bnftOwner, minters, depositor>>
      BY <1>1, <1>3, <1>4 DEF BurnWPunk, TransferPunk, AfterUnwrap
    <2>2. Saved' \in Books
      BY <1>2, <2>1, Fields DEF IInv, TypeOK, Saved, Books, Account, Site
    <2>3. OnlyAt(tx.punk) /\ wpunkOwner'[tx.punk] = NoAddr /\ punkIndexToAddress'[tx.punk] = Gateway
      BY <1>2, <2>1, Fields DEF OnlyAt, IInv, TypeOK
    <2>4. BackedAt(tx.punk)' /\ OwedAt(tx.punk)' /\ Place'
      BY <1>1, <1>2, <1>3, <2>1, <2>3, GoOnFields, Sites
         DEF BackedAt, OwedAt, Place, DepositPlaces, WithdrawPlaces, Wanted, MayWithdraw
    <2> QED
      BY <1>1, <2>1, <2>2, <2>3, <2>4, GoOnStep DEF WithdrawPlaces, IInv, TypeOK
  <1>5. CASE paused
    <2>1. Revert
      BY <1>5 DEF BurnWPunk
    <2> QED
      BY <1>1, <1>5, <2>1, RevertStep DEF WithdrawPlaces
  <1> QED
    BY <1>4, <1>5

LEMMA SendPunkStep == ASSUME IInv, SendPunk PROVE IInv'
  <1>1. /\ tx.pc = "sendPunk" /\ tx.fn = "withdrawPunk" /\ Wanted /\ depositor[tx.punk] = tx.caller
        /\ wpunkOwner[tx.punk] = NoAddr /\ bnftOwner[tx.punk] = NoAddr
        /\ punkIndexToAddress[tx.punk] = Gateway
    BY DEF SendPunk, At, IInv, Place, WithdrawPlaces
  <1>2. tx \in Frames /\ tx.punk \in Punk /\ tx.caller \in User /\ ~Idle /\ minters[tx.punk] = NoAddr
    BY <1>1, Running DEF IInv, Backed
  <1>3. /\ punkIndexToAddress' = [punkIndexToAddress EXCEPT ![tx.punk] = tx.caller]
        /\ offeredTo' = [offeredTo EXCEPT ![tx.punk] = NoAddr]
        /\ GoOn("done") /\ UNCHANGED <<wpunkOwner, bnftOwner, minters, depositor>>
    BY <1>1 DEF SendPunk, TransferPunk
  <1>4. Saved' \in Books
    BY <1>2, <1>3, Fields DEF IInv, TypeOK, Saved, Books, Account, Site
  <1>5. OnlyAt(tx.punk) /\ punkIndexToAddress'[tx.punk] = tx.caller
    BY <1>2, <1>3, Fields DEF OnlyAt, IInv, TypeOK
  <1>6. BackedAt(tx.punk)' /\ OwedAt(tx.punk)' /\ Place'
    BY <1>1, <1>2, <1>3, <1>5, GoOnFields, Sites
       DEF BackedAt, OwedAt, Place, DepositPlaces, WithdrawPlaces, Wanted, MayWithdraw
  <1> QED
    BY <1>1, <1>3, <1>4, <1>5, <1>6, GoOnStep DEF WithdrawPlaces, IInv, TypeOK

\* A transaction that ends leaves the gateway and its proxy as it found them.
LEMMA LeaveStep == ASSUME IInv, Leave PROVE IInv'
  <1>1. tx.pc \in {"done", "reverted"} /\ UNCHANGED <<ledgers, paused, depositor, given>>
    BY DEF Leave
  <1>2. tx' = NoTx /\ tx'.pc = "idle"
    BY NoTxIdle DEF Leave
  <1>3. tx \in Frames /\ tx.punk \in Punk /\ tx.caller \in User /\ ~Idle
        /\ tx.fn \in {"depositPunk", "withdrawPunk"}
    BY <1>1, Running
  <1>4. TypeOK' /\ Backed' /\ Owed(Saved)'
    BY <1>1, <1>2 DEF IInv, TypeOK, Backed, Owed, Saved, ledgers
  <1>5. NothingLeftBehind'
    <2>1. \A q \in Punk \ {tx.punk} : AtGateway(q) <=> q \in given
      BY <1>3 DEF IInv, Others, Same, SavedSound, OnlyGiven, AtGateway
    <2>2. AtGateway(tx.punk) <=> tx.punk \in given
      <3>1. CASE tx.pc = "reverted"
        BY <3>1, <1>3 DEF IInv, Place, Same, SavedSound, OnlyGiven, AtGateway
      <3>2. CASE tx.pc = "done" /\ tx.fn = "depositPunk"
        BY <3>2, <1>3, WantedDeposit, Sites DEF IInv, Place, Backed, AtGateway
      <3>3. CASE tx.pc = "done" /\ tx.fn = "withdrawPunk"
        BY <3>3, <1>3, WantedWithdraw, Sites DEF IInv, Place, AtGateway
      <3> QED
        BY <1>1, <1>3, <3>1, <3>2, <3>3
    <2> QED
      BY <1>1, <2>1, <2>2 DEF NothingLeftBehind, AtGateway, ledgers
  <1>6. ExchangeCompletes' /\ SavedSound' /\ Others' /\ Place'
    BY <1>2 DEF ExchangeCompletes, SavedSound, Others, Place, Idle, DepositPlaces, WithdrawPlaces
  <1> QED
    BY <1>4, <1>5, <1>6 DEF IInv
-----------------------------------------------------------------------------
(* Everybody else's.                                                        *)

LEMMA OfferStep ==
    ASSUME IInv, NEW u \in User, NEW p \in Punk, NEW to \in User \cup {Gateway, Anyone, NoAddr}, Offer(u, p, to)
    PROVE  IInv'
  <1>1. /\ offeredTo' = [offeredTo EXCEPT ![p] = to] /\ Idle
        /\ UNCHANGED <<punkIndexToAddress, wpunkOwner, bnftOwner, minters, paused, given, tx, depositor>>
    BY DEF Offer, Outside
  <1>2. Saved' \in Books
    BY <1>1, Fields DEF IInv, TypeOK, Saved, Books
  <1>3. OnlyAt(p) /\ BackedAt(p)' /\ OwedAt(p)' /\ (AtGateway(p)' <=> p \in given')
    BY <1>1 DEF OnlyAt, BackedAt, OwedAt, AtGateway, IInv, Backed, Owed, Saved, NothingLeftBehind
  <1> QED
    BY <1>1, <1>2, <1>3, OutsideAt DEF IInv, TypeOK

\* A punk that a user holds is not wrapped, and was not given away.
LEMMA InUsersHands ==
    ASSUME IInv, Idle, NEW p \in Punk, punkIndexToAddress[p] \in User
    PROVE  wpunkOwner[p] = NoAddr /\ bnftOwner[p] = NoAddr /\ minters[p] = NoAddr /\ p \notin given
  BY Sites DEF IInv, Backed, NothingLeftBehind, AtGateway

LEMMA PunkChangesHandsStep ==
    ASSUME IInv, NEW u \in User, NEW p \in Punk, NEW to \in Account, PunkChangesHands(u, p, to)
    PROVE  IInv'
  <1>1. /\ punkIndexToAddress' = [punkIndexToAddress EXCEPT ![p] = to]
        /\ offeredTo' = [offeredTo EXCEPT ![p] = NoAddr]
        /\ given' = IF to \in {Gateway, Proxy} THEN given \cup {p} ELSE given
        /\ punkIndexToAddress[p] \in User /\ Idle
        /\ UNCHANGED <<wpunkOwner, bnftOwner, minters, paused, tx, depositor>>
    BY DEF PunkChangesHands, TransferPunk, Given, Outside
  <1>2. wpunkOwner[p] = NoAddr /\ bnftOwner[p] = NoAddr /\ minters[p] = NoAddr /\ p \notin given
    BY <1>1, InUsersHands
  <1>3. Saved' \in Books
    BY <1>1, Fields DEF IInv, TypeOK, Saved, Books
  <1>4. OnlyAt(p) /\ punkIndexToAddress'[p] = to
    BY <1>1, Fields DEF OnlyAt, IInv, TypeOK
  <1>5. BackedAt(p)' /\ OwedAt(p)' /\ (AtGateway(p)' <=> p \in given')
    BY <1>1, <1>2, <1>4, Sites DEF BackedAt, OwedAt, AtGateway
  <1> QED
    BY <1>1, <1>3, <1>4, <1>5, OutsideAt DEF IInv, TypeOK

LEMMA WrapStep == ASSUME IInv, NEW u \in User, NEW p \in Punk, Wrap(u, p) PROVE IInv'
  <1>1. /\ punkIndexToAddress' = [punkIndexToAddress EXCEPT ![p] = Wrapper]
        /\ offeredTo' = [offeredTo EXCEPT ![p] = NoAddr]
        /\ wpunkOwner' = [wpunkOwner EXCEPT ![p] = u]
        /\ punkIndexToAddress[p] \in User /\ Idle
        /\ UNCHANGED <<bnftOwner, minters, paused, given, tx, depositor>>
    BY DEF Wrap, TransferPunk, Outside
  <1>2. bnftOwner[p] = NoAddr /\ minters[p] = NoAddr /\ p \notin given
    BY <1>1, InUsersHands
  <1>3. Saved' \in Books
    BY <1>1, Fields DEF IInv, TypeOK, Saved, Books, Account, Site
  <1>4. OnlyAt(p) /\ punkIndexToAddress'[p] = Wrapper /\ wpunkOwner'[p] = u
    BY <1>1, Fields DEF OnlyAt, IInv, TypeOK
  <1>5. BackedAt(p)' /\ OwedAt(p)' /\ (AtGateway(p)' <=> p \in given')
    BY <1>1, <1>2, <1>4, Sites DEF BackedAt, OwedAt, AtGateway
  <1> QED
    BY <1>1, <1>3, <1>4, <1>5, OutsideAt DEF IInv, TypeOK

\* A wrapped punk that a user holds is not bound, and was not given away.
LEMMA WrappedInUsersHands ==
    ASSUME IInv, Idle, NEW p \in Punk, wpunkOwner[p] \in User
    PROVE  /\ punkIndexToAddress[p] = Wrapper /\ bnftOwner[p] = NoAddr /\ minters[p] = NoAddr
           /\ p \notin given
  BY Sites DEF IInv, Backed, NothingLeftBehind, AtGateway

LEMMA UnwrapStep == ASSUME IInv, NEW u \in User, NEW p \in Punk, Unwrap(u, p) PROVE IInv'
  <1>1. /\ punkIndexToAddress' = [punkIndexToAddress EXCEPT ![p] = u]
        /\ offeredTo' = [offeredTo EXCEPT ![p] = NoAddr]
        /\ wpunkOwner' = [wpunkOwner EXCEPT ![p] = NoAddr]
        /\ wpunkOwner[p] \in User /\ Idle
        /\ UNCHANGED <<bnftOwner, minters, paused, given, tx, depositor>>
    BY DEF Unwrap, TransferPunk, Outside
  <1>2. bnftOwner[p] = NoAddr /\ minters[p] = NoAddr /\ p \notin given
    BY <1>1, WrappedInUsersHands
  <1>3. Saved' \in Books
    BY <1>1, Fields DEF IInv, TypeOK, Saved, Books, Account, Site
  <1>4. OnlyAt(p) /\ punkIndexToAddress'[p] = u /\ wpunkOwner'[p] = NoAddr
    BY <1>1, Fields DEF OnlyAt, IInv, TypeOK
  <1>5. BackedAt(p)' /\ OwedAt(p)' /\ (AtGateway(p)' <=> p \in given')
    BY <1>1, <1>2, <1>4, Sites DEF BackedAt, OwedAt, AtGateway
  <1> QED
    BY <1>1, <1>3, <1>4, <1>5, OutsideAt DEF IInv, TypeOK

LEMMA WPunkChangesHandsStep ==
    ASSUME IInv, NEW u \in User, NEW p \in Punk, NEW to \in Account, WPunkChangesHands(u, p, to)
    PROVE  IInv'
  <1>1. /\ wpunkOwner' = [wpunkOwner EXCEPT ![p] = to]
        /\ given' = IF to \in {Gateway, Proxy} THEN given \cup {p} ELSE given
        /\ wpunkOwner[p] \in User /\ Idle
        /\ UNCHANGED <<punkIndexToAddress, offeredTo, bnftOwner, minters, paused, tx, depositor>>
    BY DEF WPunkChangesHands, Given, Outside
  <1>2. /\ punkIndexToAddress[p] = Wrapper /\ bnftOwner[p] = NoAddr /\ minters[p] = NoAddr
        /\ p \notin given
    BY <1>1, WrappedInUsersHands
  <1>3. Saved' \in Books
    BY <1>1, Fields DEF IInv, TypeOK, Saved, Books
  <1>4. OnlyAt(p) /\ wpunkOwner'[p] = to
    BY <1>1, Fields DEF OnlyAt, IInv, TypeOK
  <1>5. BackedAt(p)' /\ OwedAt(p)' /\ (AtGateway(p)' <=> p \in given')
    BY <1>1, <1>2, <1>4, Sites DEF BackedAt, OwedAt, AtGateway
  <1> QED
    BY <1>1, <1>3, <1>4, <1>5, OutsideAt DEF IInv, TypeOK

LEMMA BindStep ==
    ASSUME IInv, NEW u \in User, NEW p \in Punk, NEW to \in User, Bind(u, p, to)
    PROVE  IInv'
  <1>1. /\ wpunkOwner' = [wpunkOwner EXCEPT ![p] = Vault]
        /\ bnftOwner' = [bnftOwner EXCEPT ![p] = to]
        /\ minters' = [minters EXCEPT ![p] = u]
        /\ wpunkOwner[p] \in User /\ Idle
        /\ UNCHANGED <<punkIndexToAddress, offeredTo, paused, given, tx, depositor>>
    BY DEF Bind, Outside
  <1>2. punkIndexToAddress[p] = Wrapper /\ p \notin given
    BY <1>1, WrappedInUsersHands
  <1>3. Saved' \in Books
    BY <1>1, Fields DEF IInv, TypeOK, Saved, Books, Account, Site
  <1>4. OnlyAt(p) /\ wpunkOwner'[p] = Vault /\ bnftOwner'[p] = to /\ minters'[p] = u
    BY <1>1, Fields DEF OnlyAt, IInv, TypeOK
  <1>5. BackedAt(p)' /\ OwedAt(p)' /\ (AtGateway(p)' <=> p \in given')
    BY <1>1, <1>2, <1>4, Sites DEF BackedAt, OwedAt, AtGateway
  <1> QED
    BY <1>1, <1>3, <1>4, <1>5, OutsideAt DEF IInv, TypeOK

LEMMA RedeemStep == ASSUME IInv, NEW u \in User, NEW p \in Punk, Redeem(u, p) PROVE IInv'
  <1>1. /\ wpunkOwner' = [wpunkOwner EXCEPT ![p] = u]
        /\ bnftOwner' = [bnftOwner EXCEPT ![p] = NoAddr]
        /\ minters' = [minters EXCEPT ![p] = NoAddr]
        /\ minters[p] = u /\ Idle
        /\ UNCHANGED <<punkIndexToAddress, offeredTo, paused, given, tx, depositor>>
    BY DEF Redeem, Outside
  <1>2. wpunkOwner[p] = Vault /\ punkIndexToAddress[p] = Wrapper
    BY <1>1, Sites DEF IInv, Backed
  <1>3. p \notin given
    BY <1>1, <1>2, Sites DEF IInv, NothingLeftBehind, AtGateway
  <1>4. Saved' \in Books
    BY <1>1, Fields DEF IInv, TypeOK, Saved, Books, Account
  <1>5. OnlyAt(p) /\ wpunkOwner'[p] = u /\ bnftOwner'[p] = NoAddr /\ minters'[p] = NoAddr
    BY <1>1, Fields DEF OnlyAt, IInv, TypeOK
  <1>6. BackedAt(p)' /\ OwedAt(p)' /\ (AtGateway(p)' <=> p \in given')
    BY <1>1, <1>2, <1>3, <1>5, Sites DEF BackedAt, OwedAt, AtGateway
  <1> QED
    BY <1>1, <1>4, <1>5, <1>6, OutsideAt DEF IInv, TypeOK

LEMMA PauseStep == ASSUME IInv, Pause PROVE IInv'
  <1>1. /\ paused' = ~paused /\ Idle
        /\ UNCHANGED <<punkIndexToAddress, offeredTo, wpunkOwner, bnftOwner, minters, given, tx, depositor>>
    BY DEF Pause, Outside, ledgers
  <1>2. paused' \in BOOLEAN
    BY <1>1
  <1>3. Saved' = Saved
    BY <1>1 DEF Saved
  <1>4. TypeOK'
    BY <1>1, <1>2, <1>3 DEF IInv, TypeOK
  <1>5. Backed' /\ Owed(Saved)' /\ NothingLeftBehind'
    BY <1>1, <1>3 DEF IInv, Backed, Owed, NothingLeftBehind, AtGateway, Idle
  <1> QED
    BY <1>1, <1>4, <1>5, OutsideStep
-----------------------------------------------------------------------------
(* The theorems.                                                            *)

LEMMA InitInv == Init => IInv
  <1> SUFFICES ASSUME Init PROVE IInv
    OBVIOUS
  <1>1. tx.pc = "idle" /\ tx = NoTx
    BY NoTxIdle DEF Init
  <1>2. Saved \in Books /\ Owed(Saved)
    BY Fields, Sites DEF Init, Account, Owed, Saved
  <1>3. TypeOK /\ Backed
    BY <1>1, <1>2 DEF Init, TypeOK, Backed
  <1>4. NothingLeftBehind
    BY Sites DEF Init, NothingLeftBehind, AtGateway
  <1>5. ExchangeCompletes /\ SavedSound /\ Others /\ Place
    BY <1>1 DEF ExchangeCompletes, SavedSound, Others, Place, Idle, DepositPlaces, WithdrawPlaces
  <1> QED
    BY <1>2, <1>3, <1>4, <1>5 DEF IInv

LEMMA NextInv == IInv /\ [Next]_vars => IInv'
  <1> SUFFICES ASSUME IInv, [Next]_vars PROVE IInv'
    OBVIOUS
  <1>1. CASE GatewayStep
    BY <1>1, BuyPunkStep, TransferToProxyStep, MintWPunkStep, MintBoundStep,
       BurnBoundStep, BurnWPunkStep, SendPunkStep, LeaveStep DEF GatewayStep
  <1>2. CASE Pause
    BY <1>2, PauseStep
  <1>3. ASSUME NEW u \in User, NEW p \in Punk, depositPunk(u, p) \/ withdrawPunk(u, p)
        PROVE  IInv'
    BY <1>3, EnterStep
  <1>4. ASSUME NEW u \in User, NEW p \in Punk, Wrap(u, p) \/ Unwrap(u, p) \/ Redeem(u, p)
        PROVE  IInv'
    BY <1>4, WrapStep, UnwrapStep, RedeemStep
  <1>5. ASSUME NEW u \in User, NEW p \in Punk, NEW to \in User \cup {Gateway, Anyone, NoAddr}, Offer(u, p, to)
        PROVE  IInv'
    BY <1>5, OfferStep
  <1>6. ASSUME NEW u \in User, NEW p \in Punk, NEW to \in Account,
               PunkChangesHands(u, p, to) \/ WPunkChangesHands(u, p, to)
        PROVE  IInv'
    BY <1>6, PunkChangesHandsStep, WPunkChangesHandsStep
  <1>7. ASSUME NEW u \in User, NEW p \in Punk, NEW to \in User, Bind(u, p, to)
        PROVE  IInv'
    BY <1>7, BindStep
  <1>8. CASE UNCHANGED vars
    <2>1. TypeOK' /\ Backed' /\ Owed(Saved)' /\ NothingLeftBehind'
      BY <1>8 DEF vars, ledgers, IInv, TypeOK, Backed, Owed, Saved, NothingLeftBehind, AtGateway, Idle
    <2>2. ExchangeCompletes' /\ SavedSound' /\ Others' /\ Place'
      BY <1>8 DEF vars, ledgers, IInv, ExchangeCompletes, SavedSound, Chain, OnlyGiven, Owed,
                  Others, Same, Place, Wanted, MayDeposit, MayWithdraw, Saved, Idle
    <2> QED
      BY <2>1, <2>2 DEF IInv
  <1> QED
    BY <1>1, <1>2, <1>3, <1>4, <1>5, <1>6, <1>7, <1>8 DEF Next

\* The invariant holds in every state of every run.
THEOREM Invariance == Spec => []IInv
  BY InitInv, NextInv, PTL DEF Spec

\* Types: bound tokens belong to users and are minted by users or the gateway.
THEOREM TypeCorrect == Spec => []TypeOK
  <1>1. IInv => TypeOK
    BY DEF IInv
  <1> QED
    BY <1>1, Invariance, PTL

\* A bound punk has its wrapped punk in the bNFT and a wrapped punk its punk in
\* the wrapper, inside transactions, too (BoundPunkGateway.sol:49-56, 69-75).
THEOREM AlwaysBacked == Spec => []Backed
  <1>1. IInv => Backed
    BY DEF IInv
  <1> QED
    BY <1>1, Invariance, PTL

\* No exchange by the right caller fails half way while the wrapper is not paused
\* (BoundPunkGateway.sol:43-78).
THEOREM ExchangesComplete == Spec => []ExchangeCompletes
  <1>1. IInv => ExchangeCompletes
    BY DEF IInv
  <1> QED
    BY <1>1, Invariance, PTL

\* The token of a punk bound through the gateway is its depositor's, and nobody
\* else withdraws the punk (BoundPunkGateway.sol:46, 56, 66).
THEOREM DepositorGetsItBack == Spec => []ReturnedToDepositor
  <1>1. IInv => ReturnedToDepositor
    BY DEF IInv, ReturnedToDepositor, Owed, Saved, Place
  <1> QED
    BY <1>1, Invariance, PTL

\* Between transactions the gateway and its proxy hold what was sent to them past
\* the two functions, and nothing else (BoundPunkGateway.sol:49-58, 69-77).
THEOREM NothingStays == Spec => []NothingLeftBehind
  <1>1. IInv => NothingLeftBehind
    BY DEF IInv
  <1> QED
    BY <1>1, Invariance, PTL
=============================================================================

-------------------------- MODULE BoundPunkGateway --------------------------
(***************************************************************************)
(* The gateway (src/contracts/misc/BoundPunkGateway.sol) that turns a      *)
(* CryptoPunk into a bound token in one transaction, and back.  A punk     *)
(* passes through four ledgers: the market, the proxy the wrapper keeps    *)
(* for the gateway, the wrapped punks, and the bNFT over these.  Each call *)
(* of a transaction is a step and may fail, which undoes them all; nothing *)
(* else runs in between, as none of these contracts calls a user.  The     *)
(* ledgers are open to everybody outside the gateway, too.                 *)
(***************************************************************************)
CONSTANTS Punk,
          User,      \* accounts that hold punks and call the gateway
          Contract,  \* those of them with code, which may bind for others
          Gateway,   \* BoundPunkGateway
          Proxy,     \* proxyInfo(gateway)
          Wrapper,   \* WrappedPunk
          Vault,     \* bnftWPunks
          Anyone,    \* an offer to whoever comes
          NoAddr     \* address(0)

Site == {Gateway, Proxy, Wrapper, Vault}

ASSUME ContractsAreUsers == Contract \subseteq User
ASSUME AddressesDistinct ==
    /\ Site \cap User = {} /\ NoAddr \notin User \cup Site /\ Anyone \notin User \cup Site \cup {NoAddr}
    /\ Gateway # Proxy /\ Gateway # Wrapper /\ Gateway # Vault
    /\ Proxy # Wrapper /\ Proxy # Vault /\ Wrapper # Vault

VARIABLES punkIndexToAddress, \* CryptoPunksMarket: owner of a punk
          offeredTo,          \* CryptoPunksMarket: who may buy it for nothing
          wpunkOwner,         \* WrappedPunk: ownerOf, or NoAddr
          paused,             \* WrappedPunk: mint and burn are
          bnftOwner,          \* bNFT: ownerOf, or NoAddr
          minters,            \* bNFT: minterOf, or NoAddr
          tx,                 \* the gateway transaction under way
          depositor,          \* history: who deposited a punk through the gateway last
          given               \* history: punks sent to the gateway past its functions

ledgers == <<punkIndexToAddress, offeredTo, wpunkOwner, bnftOwner, minters>>
vars    == <<ledgers, paused, tx, depositor, given>>

Account == User \cup Site
Saved == [punks |-> punkIndexToAddress, offers |-> offeredTo, wpunks |-> wpunkOwner,
          bnfts |-> bnftOwner, minters |-> minters]

NoTx == [fn |-> "none", caller |-> NoAddr, punk |-> NoAddr, pc |-> "idle", saved |-> NoAddr]
Idle == tx.pc = "idle"

\* A collection that is offered, and an empty wrapper.
Init == /\ punkIndexToAddress \in [Punk -> User]
        /\ offeredTo = [p \in Punk |-> NoAddr]
        /\ wpunkOwner = [p \in Punk |-> NoAddr]
        /\ paused = FALSE
        /\ bnftOwner = [p \in Punk |-> NoAddr]
        /\ minters = [p \in Punk |-> NoAddr]
        /\ tx = NoTx
        /\ depositor = [p \in Punk |-> NoAddr]
        /\ given = {}
-----------------------------------------------------------------------------
(* The functions of the gateway, call by call.                              *)

Enter(fn, u, p, pc) ==
    /\ Idle
    /\ tx' = [fn |-> fn, caller |-> u, punk |-> p, pc |-> pc, saved |-> Saved]
    /\ UNCHANGED <<ledgers, paused, depositor, given>>

At(pc) == tx.pc = pc
GoOn(pc) == tx' = [tx EXCEPT !.pc = pc] /\ UNCHANGED <<paused, given>>

\* A failed requirement, in the gateway or in a contract it calls.
Revert == /\ punkIndexToAddress' = tx.saved.punks
          /\ offeredTo' = tx.saved.offers
          /\ wpunkOwner' = tx.saved.wpunks
          /\ bnftOwner' = tx.saved.bnfts
          /\ minters' = tx.saved.minters
          /\ GoOn("reverted")
          /\ UNCHANGED depositor

\* CryptoPunksMarket.transferPunk by holder, which also ends an offer.
TransferPunk(holder, p, to) ==
    /\ punkIndexToAddress[p] = holder
    /\ punkIndexToAddress' = [punkIndexToAddress EXCEPT ![p] = to]
    /\ offeredTo' = [offeredTo EXCEPT ![p] = NoAddr]

\* Mutant: a punk offered to the gateway may be deposited by anyone.
AnyDepositor == TRUE
CallerOwnsPunk == punkIndexToAddress[tx.punk] = tx.caller

depositPunk(u, p) == Enter("depositPunk", u, p, "buyPunk")

\* Mutant: the punk is not passed on to the proxy.
ProxySkipped == "mintWPunk"
AfterBuy == "toProxy"
BuyPunk ==
    /\ At("buyPunk")
    /\ IF CallerOwnsPunk /\ offeredTo[tx.punk] \in {Gateway, Anyone}
       THEN /\ TransferPunk(punkIndexToAddress[tx.punk], tx.punk, Gateway)
            /\ GoOn(AfterBuy)
            /\ UNCHANGED <<wpunkOwner, bnftOwner, minters, depositor>>
       ELSE Revert

TransferToProxy ==
    /\ At("toProxy")
    /\ IF punkIndexToAddress[tx.punk] = Gateway
       THEN /\ TransferPunk(Gateway, tx.punk, Proxy)
            /\ GoOn("mintWPunk")
            /\ UNCHANGED <<wpunkOwner, bnftOwner, minters, depositor>>
       ELSE Revert

\* Mutant: the wrapper does not mind whether the proxy sent the punk.
MintWPunkUnchecked ==
    /\ At("mintWPunk")
    /\ IF ~paused /\ wpunkOwner[tx.punk] = NoAddr
       THEN /\ wpunkOwner' = [wpunkOwner EXCEPT ![tx.punk] = Gateway]
            /\ GoOn("mintBound")
            /\ UNCHANGED <<punkIndexToAddress, offeredTo, bnftOwner, minters, depositor>>
       ELSE Revert
\* WrappedPunk.mint has the proxy send the punk to the wrapper.
MintWPunk ==
    /\ At("mintWPunk")
    /\ IF ~paused /\ punkIndexToAddress[tx.punk] = Proxy /\ wpunkOwner[tx.punk] = NoAddr
       THEN /\ TransferPunk(Proxy, tx.punk, Wrapper)
            /\ wpunkOwner' = [wpunkOwner EXCEPT ![tx.punk] = Gateway]
            /\ GoOn("mintBound")
            /\ UNCHANGED <<bnftOwner, minters, depositor>>
       ELSE Revert

\* Mutant: the owner is read after the punk has moved.
OwnerByNow == punkIndexToAddress[tx.punk]
punkOwner == tx.saved.punks[tx.punk]
\* BNFT.mint by the gateway, which has approved the bNFT; the comparison of
\* owners that follows (lines 59-60) holds by what mint does.
MintBound ==
    /\ At("mintBound")
    /\ IF bnftOwner[tx.punk] = NoAddr /\ wpunkOwner[tx.punk] = Gateway
       THEN /\ bnftOwner' = [bnftOwner EXCEPT ![tx.punk] = punkOwner]
            /\ minters' = [minters EXCEPT ![tx.punk] = Gateway]
            /\ wpunkOwner' = [wpunkOwner EXCEPT ![tx.punk] = Vault]
            /\ GoOn("done")
            /\ depositor' = [depositor EXCEPT ![tx.punk] = tx.caller]
            /\ UNCHANGED <<punkIndexToAddress, offeredTo>>
       ELSE Revert

withdrawPunk(u, p) == Enter("withdrawPunk", u, p, "burnBound")

\* BNFT.burn takes the minter only, and sends the wrapped punk back to it.
BurnBound ==
    /\ At("burnBound")
    /\ IF bnftOwner[tx.punk] = tx.caller /\ minters[tx.punk] = Gateway /\ wpunkOwner[tx.punk] = Vault
       THEN /\ bnftOwner' = [bnftOwner EXCEPT ![tx.punk] = NoAddr]
            /\ minters' = [minters EXCEPT ![tx.punk] = NoAddr]
            /\ wpunkOwner' = [wpunkOwner EXCEPT ![tx.punk] = Gateway]
            /\ GoOn("burnWPunk")
            /\ UNCHANGED <<punkIndexToAddress, offeredTo, depositor>>
       ELSE Revert

\* Mutant: the punk is not sent on.
PunkKept == "done"
AfterUnwrap == "sendPunk"
BurnWPunk ==
    /\ At("burnWPunk")
    /\ IF ~paused /\ wpunkOwner[tx.punk] = Gateway /\ punkIndexToAddress[tx.punk] = Wrapper
       THEN /\ wpunkOwner' = [wpunkOwner EXCEPT ![tx.punk] = NoAddr]
            /\ TransferPunk(Wrapper, tx.punk, Gateway)
            /\ GoOn(AfterUnwrap)
            /\ UNCHANGED <<bnftOwner, minters, depositor>>
       ELSE Revert

\* The last transfer, and what is required after it (lines 76-77) holds by it.
SendPunk ==
    /\ At("sendPunk")
    /\ IF punkIndexToAddress[tx.punk] = Gateway
       THEN /\ TransferPunk(Gateway, tx.punk, tx.caller)
            /\ GoOn("done")
            /\ UNCHANGED <<wpunkOwner, bnftOwner, minters, depositor>>
       ELSE Revert

Leave ==
    /\ tx.pc \in {"done", "reverted"}
    /\ tx' = NoTx
    /\ UNCHANGED <<ledgers, paused, depositor, given>>

GatewayStep == BuyPunk \/ TransferToProxy \/ MintWPunk \/ MintBound
               \/ BurnBound \/ BurnWPunk \/ SendPunk \/ Leave
-----------------------------------------------------------------------------
(* Everybody else, between the gateway's transactions.                      *)

Outside == Idle /\ UNCHANGED <<tx, depositor>>
Given(p, to) == given' = IF to \in {Gateway, Proxy} THEN given \cup {p} ELSE given

Offer(u, p, to) ==
    /\ Outside
    /\ punkIndexToAddress[p] = u
    /\ offeredTo' = [offeredTo EXCEPT ![p] = to]
    /\ UNCHANGED <<punkIndexToAddress, wpunkOwner, bnftOwner, minters, paused, given>>

\* A sale or a gift on the market, to a contract of the protocol, too.
PunkChangesHands(u, p, to) ==
    /\ Outside
    /\ TransferPunk(u, p, to)
    /\ Given(p, to)
    /\ UNCHANGED <<wpunkOwner, bnftOwner, minters, paused>>

\* A user wraps a punk through a proxy of its own.
Wrap(u, p) ==
    /\ Outside
    /\ ~paused
    /\ wpunkOwner[p] = NoAddr
    /\ TransferPunk(u, p, Wrapper)
    /\ wpunkOwner' = [wpunkOwner EXCEPT ![p] = u]
    /\ UNCHANGED <<bnftOwner, minters, paused, given>>

Unwrap(u, p) ==
    /\ Outside
    /\ ~paused
    /\ wpunkOwner[p] = u
    /\ wpunkOwner' = [wpunkOwner EXCEPT ![p] = NoAddr]
    /\ TransferPunk(Wrapper, p, u)
    /\ UNCHANGED <<bnftOwner, minters, paused, given>>

WPunkChangesHands(u, p, to) ==
    /\ Outside
    /\ wpunkOwner[p] = u
    /\ wpunkOwner' = [wpunkOwner EXCEPT ![p] = to]
    /\ Given(p, to)
    /\ UNCHANGED <<punkIndexToAddress, offeredTo, bnftOwner, minters, paused>>

\* BNFT.mint and burn without the gateway: a contract may bind for another account.
Bind(u, p, to) ==
    /\ Outside
    /\ u \in Contract \/ to = u
    /\ bnftOwner[p] = NoAddr
    /\ wpunkOwner[p] = u
    /\ wpunkOwner' = [wpunkOwner EXCEPT ![p] = Vault]
    /\ bnftOwner' = [bnftOwner EXCEPT ![p] = to]
    /\ minters' = [minters EXCEPT ![p] = u]
    /\ UNCHANGED <<punkIndexToAddress, offeredTo, paused, given>>

Redeem(u, p) ==
    /\ Outside
    /\ minters[p] = u
    /\ wpunkOwner' = [wpunkOwner EXCEPT ![p] = u]
    /\ bnftOwner' = [bnftOwner EXCEPT ![p] = NoAddr]
    /\ minters' = [minters EXCEPT ![p] = NoAddr]
    /\ UNCHANGED <<punkIndexToAddress, offeredTo, paused, given>>

\* The wrapper's owner.
Pause == Outside /\ paused' = ~paused /\ UNCHANGED <<ledgers, given>>

Next == \/ GatewayStep
        \/ Pause
        \/ \E u \in User, p \in Punk :
              \/ depositPunk(u, p) \/ withdrawPunk(u, p)
              \/ Wrap(u, p) \/ Unwrap(u, p) \/ Redeem(u, p)
              \/ \E to \in User \cup {Gateway, Anyone, NoAddr} : Offer(u, p, to)
              \/ \E to \in Account : PunkChangesHands(u, p, to) \/ WPunkChangesHands(u, p, to)
              \/ \E to \in User : Bind(u, p, to)

Spec == Init /\ [][Next]_vars
-----------------------------------------------------------------------------
(* Properties.                                                              *)

Books == [punks : [Punk -> Account], offers : [Punk -> User \cup {Gateway, Anyone, NoAddr}],
          wpunks : [Punk -> Account \cup {NoAddr}], bnfts : [Punk -> User \cup {NoAddr}],
          minters : [Punk -> User \cup {Gateway, NoAddr}]]
DepositPlaces  == {"buyPunk", "toProxy", "mintWPunk", "mintBound"}
WithdrawPlaces == {"burnBound", "burnWPunk", "sendPunk"}
Frames == [fn : {"depositPunk", "withdrawPunk"}, caller : User, punk : Punk,
           pc : DepositPlaces \cup WithdrawPlaces \cup {"done", "reverted"}, saved : Books]

\* Types: bound tokens belong to users and are minted by users or the gateway.
TypeOK == /\ Saved \in Books
          /\ paused \in BOOLEAN
          /\ tx = NoTx \/ tx \in Frames
          /\ depositor \in [Punk -> User \cup {NoAddr}]
          /\ given \subseteq Punk

\* At every step of every transaction a bound punk has its wrapped punk in the
\* bNFT, and a wrapped punk its punk in the wrapper (BoundPunkGateway.sol:49-56,
\* 69-75, WrappedPunk.sol:54-77).
Backed ==
    \A p \in Punk :
        /\ wpunkOwner[p] # NoAddr => punkIndexToAddress[p] = Wrapper
        /\ bnftOwner[p] # NoAddr => wpunkOwner[p] = Vault
        /\ bnftOwner[p] # NoAddr <=> minters[p] # NoAddr

\* A deposit or a withdrawal that starts with the right caller never fails half
\* way: what each call needs, the ones before have left in place.  The only
\* exception is a paused wrapper (BoundPunkGateway.sol:43-78).
MayDeposit(u, p) ==
    /\ tx.saved.punks[p] = u
    /\ tx.saved.offers[p] \in {Gateway, Anyone}
MayWithdraw(u, p) ==
    /\ tx.saved.bnfts[p] = u
    /\ tx.saved.minters[p] = Gateway
ExchangeCompletes ==
    tx.pc = "reverted" /\ ~paused =>
        IF tx.fn = "depositPunk" THEN ~MayDeposit(tx.caller, tx.punk)
                                 ELSE ~MayWithdraw(tx.caller, tx.punk)

\* The bound token of a punk deposited through the gateway belongs to the account
\* that deposited it, until that account has the punk back (lines 46, 56, 66 and 75-77).
ReturnedToDepositor ==
    /\ \A p \in Punk : minters[p] = Gateway => bnftOwner[p] = depositor[p]
    /\ tx.fn = "withdrawPunk" /\ tx.pc = "done" =>
          punkIndexToAddress[tx.punk] = tx.caller /\ depositor[tx.punk] = tx.caller

\* Between transactions the gateway and its proxy hold exactly what was sent to
\* them past the two functions; no function gets that out again.
AtGateway(p) == punkIndexToAddress[p] \in {Gateway, Proxy} \/ wpunkOwner[p] \in {Gateway, Proxy}
NothingLeftBehind == Idle => \A p \in Punk : AtGateway(p) <=> p \in given
=============================================================================

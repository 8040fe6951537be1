# BoundNFT protocol in TLA+

A verification development for the BoundNFT protocol: the contracts under
`src/contracts` and the hardhat tasks under `src/tasks`, `src/helpers` and
`src/configs` that deploy and operate them. A user deposits an NFT in a *bNFT*
contract and gets a non-transferable *bound* token for it; the NFT can be lent
out for the length of one call (a flash loan), so that the depositor can still
collect airdrops.

## 1. The system

| Component | State | Operations | Talks to |
|---|---|---|---|
| `protocol/BNFT.sol`, one per collection | bound tokens and their owners, `_minters`, the reentrancy status, flash loan approvals (per minter) and lockings (per minter and token), owner, claim admin, the receive flag | `mint`, `burn`, `flashLoan`, `setFlashLoanApproval`, `setFlashLoanLocking`, `claimERC20/721/1155Airdrop`, `executeAirdrop`, `setENSName`, ownership, delegate cash, receive hooks | the underlying ERC-721, flash loan receivers, airdrop projects, ENS, delegation registries; called by users, lend pools, stake managers, the flash claim registry |
| `protocol/BNFTRegistry.sol` | proxies and implementations per asset, generic implementation, claim admin, delegate cash addresses | create, upgrade, batch upgrade, set | creates the BNFT proxies; read by everyone |
| `misc/UserFlashclaimRegistryV3.sol`, `AirdropFlashLoanReceiverV3.sol` | whitelists, one receiver per user and the set of all; owner and claim records of a receiver | `createReceiver`, `flashLoan`; `executeOperation`, `callMethod`, approvals and withdrawals | lend pool or stake manager (locks), BNFT (loan), airdrop project |
| V1 and V2 registries and receivers | the same, older | the same | the same |
| `misc/AirdropDistribution.sol` | airdrops, listed NFTs per user, claimed flags, VRF requests and words | create, list, clear, request words, `rawFulfillRandomWords`, `claimERC721/1155` | VRF coordinator, prize contracts, users' receive hooks |
| `misc/BoundPunkGateway.sol` | none of its own | `depositPunk`, `withdrawPunk` | CryptoPunks market, wrapped punks and their proxy, BNFT |
| deployment tasks: `tasks/full`, `dev`, `migrations`, `verifications`, with `helpers` and `configs` | the JSON file of deployed contracts (the *db*), the pool configuration edited by hand, the chain | deploy, record, verify, initialize, upgrade; migrations that run other tasks | a node, Etherscan |
| airdrop tasks: `tasks/misc/azuki-tiger.ts`, `clonex-egg.ts`, the distribution part of `full/airdrop.ts` | local variables of a run | scan owners and tokens, claim in a batch, list owners at the distribution | BNFT, collections, distribution |
| proxy and proxy admin, parameter encoder, delegate cash, mocks | | | |

What is hard here is control, not data. On the chain a transaction runs alone,
but every external call hands control to code the contract does not know: the
receiver of a loan, the `onERC721Received` of a minter or of a paid user, an
airdrop project. That code may call back into the protocol, move NFTs, change
lockings (`setFlashLoanLocking` carries no guard), and at the end decide whether
the call, with everything it did, is kept or reverted. Several accounts have
rights over one token: its owner, its minter (often another contract), the
minter's approved operators and the lockers. Off the chain a task is a sequence
of awaits over stores nothing keeps in step; it can be killed between any two and
is then run again, while others go on using the chain. `PROJECT.json` lists these
hazards at their lines.

What makes each component correct:

* BNFT: a bound token is always backed; both ledgers agree; only the minter
  redeems and gets the asset itself; loans come back whole or not at all, change
  no deed, and are made only with the minter's consent; the guard and the
  receive flag come down again.
* Flash claims: locks set for a loan are gone after it; the borrowed NFTs do not
  leave the receiver; the prizes end within the user's reach.
* AirdropDistribution: no NFT is paid twice; a claim pays for all its NFTs or
  for none; a random prize is drawn by the answer to the airdrop's own latest request.
* Registry: one proxy per asset, implementations in step with the proxies, roles
  only by choice of the one who has them.
* Punk gateway: a bound punk is backed through all ledgers, its depositor gets it
  back, and nothing stays with the gateway.
* Deployment: the db, the configuration and the chain agree where a task that
  completed relied on them; every task can be run again after a crash.
* Airdrop tasks: a scan nothing moves under misses nobody; nobody is paired with a
  stranger's token or listed before the prize has moved.

## 2. Modules

| Module | What it is |
|---|---|
| `BoundVault` | abstract specification: assets, deeds, and that an asset leaves the vault only with its deed |
| `BNFT`, `MCBNFT` | the bNFT contract over the ledger of its collection; its instances |
| `BNFTRegistry` | the registry with the proxies it deployed |
| `FlashClaim`, `MCFlashClaim` | registry V3, its receivers, the bNFT's lockings and loans, the two pools and an airdrop project, composed |
| `BoundPunkGateway` | the gateway over market, proxy, wrapper and bNFT |
| `AirdropDistribution` | the distribution contract with its coordinator and prize ledgers |
| `Deployment`, `MCDeployment` | deployment, upgrade and verification tasks over db, configuration and chain |
| `AirdropTasks`, `MCAirdropTasks` | the tasks that collect and distribute airdrops, over a chain that moves |
| `BNFTProofs`, `BNFTRegistryProofs`, `FlashClaimProofs`, `BoundPunkGatewayProofs`, `AirdropDistributionProofs`, `AirdropTasksProofs`, `DeploymentProofs` | theorems, checked by TLAPS |
| `StackLemmas` | facts about a call stack of at most one frame, for the first three of these |

### BNFT

Variables carry the names of the storage variables. `nftOwner` is `ownerOf` in
the underlying collection, which is external. `stack` holds the calls that have
handed out control; a frame records the function, the caller, the callee, the
ids and how many were sent, and the whole state at entry (`saved`).

* A function that calls nobody else is one action (`Mint`, `SetClaimAdmin`, ...).
  `Mint` has no callback: it uses `_mint`, and its transfer goes to the contract
  itself, whose hook is a view.
* A function that hands out control pushes a frame and sets the guard
  (`HandOver`): `FlashLoan`, `Burn` by a contract, `ClaimAirdrop`,
  `ExecuteAirdrop`, `SetENSName`. While a frame is open any contract may call any
  operation; an EOA cannot be `msg.sender` in the middle of a transaction.
* `FlashLoan` checks the whole list and sends the first asset,
  `FlashLoanNext` sends the next, `FlashLoanReturn` takes all back. `CallReturn`
  ends the other calls. `RevertCall` restores the saved state, at any moment.
* `ExtTransfer` is anybody moving an asset that the bNFT does not hold,
  by itself or by approval, possibly to the bNFT.
* `AfterCallTo` is what a call in the bNFT's name can do to the collection. With
  the checks of the code it never reaches the collection; it is what these checks
  are worth.

Abstractions: a token can be bound for any account, not for the bNFT itself;
approvals in the collection are not recorded (a pull that lacks one is a revert);
amounts and calldata are left out; a receiver without code cannot complete a loan
and is left out; the three claim functions are one action.

### BNFTRegistry

A proxy is its index in `bNFT`, in the order of deployment; its record holds what
`initialize` and the upgrades wrote, and what the bNFT's own owner may hand on.
Upgrades without call data and batches are one action. `UpgradeAndCall` switches
the proxy and opens a frame, because the call runs code of the new implementation;
`UpgradeReturns` records the implementation, `UpgradeReverts` restores the state.
In between contracts may call, the registry's owner if it is one, and the functions
outside the guard (roles, claim admin, delegate cash) succeed. What the call does to the
proxy's own tokens is left out. `Code` tells contracts from other addresses: assets and
implementations without code are refused where the code, or the proxy, refuses them.

### FlashClaim

Where `BNFT` lets a loan's receiver be any contract, this module fills in the one
the protocol ships. A transaction is `tx`: `Begin` is everything from the checks of
`BNFT.flashLoan` to the last line of `executeOperation` before the project is called,
as nothing in between hands out control - reached from the registry (`flashLoan`,
which has the pools lock the NFTs for it) or directly (`FlashLoanOf`). Then
`CallContract` (whatever listed contract the claim names: the project, which pays, or
the collection itself, in the receiver's name), one `Pay` per payment, `ControlEnds` after a payment to a contract,
`TakeBack` (the bNFT's last loop and the registry's unlocking) and `Done`; `Revert`
at any moment gives back the state at the start.

While a contract has been paid and not returned (`pc = "control"`) it may change
lockings, create a receiver (not inside the registry's own guarded `flashLoan`),
use every function of the receivers it owns and hand them on. Between transactions
users and pools bind and redeem, and the registry's owner exchanges the receiver's
implementation and the common whitelist. The pools are their doubles
`MockLendPoolLoan` and `MockStakeManager`: they set a lock for whoever asks, in the
asker's name. `approved` are the NFTs at a receiver that the bNFT may take back; any
transfer ends such an approval, which is what `BorrowedStays` rests on. `forAll` are
the receivers that have approved the bNFT for all their NFTs (`approveERC721ForAll`, or
`setApprovalForAll` called through `callMethod` or a claim); that approval ends with no
transfer, and not when the operator or the collection is taken off the common list.
History variables: `opened`, the receivers that ever approved anybody for all; `moved`,
the NFTs that left their holder's hands since the loan began; `earned`, for whose loan a
prize was paid; `handedOn`, the receivers that were given away.

Left out: the lists per collection (they can only refuse a claim, and a refused
claim changes nothing), Ether, ERC-20 amounts, approvals of prizes, claim records
(written, never read by the contracts), what an operator does with an approval of its
own, a receiver's calls of functions of the bNFT when that is listed, and flash loan
approvals and receivers of other kinds, which `BNFT` has.

### BoundPunkGateway

`depositPunk` and `withdrawPunk` run call by call (`BuyPunk`, `TransferToProxy`,
`MintWPunk`, `MintBound`; `BurnBound`, `BurnWPunk`, `SendPunk`), each of which fails
where the called contract's own requirement does; a failure restores `tx.saved`.
None of the contracts involved calls a user, so nothing runs in between. Outside
these transactions everybody uses market, wrapper and bNFT directly (`Offer`,
`PunkChangesHands`, `Wrap`, `Unwrap`, `WPunkChangesHands`, `Bind`, `Redeem`), and the
wrapper may be paused. `depositor` and `given` are history variables. The market's
bids and priced offers are left out: the gateway pays nothing.

### AirdropDistribution

Airdrops and requests are sequences, an airdrop's id is its index. A request has the id
its coordinator returned: `Fresh` assumes that a coordinator gives none twice, but two
coordinators number independently of each other, and the contract stores words under the
id alone. `RawFulfillRandomWords` asks what the code asks, that the caller is the
configured coordinator: it answers any request made of it, late, again or out of order,
over what is stored. `vrfAllRandomWords` records which request an id's words answer.
`claimERC721` and
`claimERC1155` are `Claim`, then one `PayNext` or `SkipNext` per listed NFT, then
`ClaimEnds`, or `ClaimReverts` with the state at the start. Between payments the
user may move prizes. A random prize is any prize the airdrop could draw. `awards`
is a history variable: who was paid for which NFT. Batches of the owner's
functions are taken one pair at a time: nothing can run between two pairs.
`CreateAirdrop` takes the token type from the asset.

### Deployment

The chain is the sequence of contracts the tasks sent, an address is its place
there, and `mined` tells how far it has got. A task is a script, a sequence of steps
composed the way the TypeScript functions call each other: `deployBNFTRegistry` is
`withSaveAndVerify` and the records around it, `bend_mainnet` is the scripts of the
tasks it runs by name. One action (`TaskStep`) takes the next step: load from the
db, read the configuration, deploy, wait, record, verify with its retries, or send a call.

A call of a contract (`upgrade`, `setBNFTGenericImpl`, `initialize`, `createBNFT`,
`upgradeBNFTWithImpl`) is `await waitForTx(await ...)`: `SendCall` appends it to `flying`
and sets `awaiting`, `MineCall` gives it its effect, or lets it revert, and lets the task go on.
All transactions are signed by the deployer and mined in the order of its nonces
(`after` is how many deployments precede a call). A call that reverts by what is mined
is refused when it is sent, as its gas cannot be estimated; one sent may still revert when
its turn comes. `Crash` kills a task between any two steps, between the send and the
mining of a call too: what it sent stays in flight, is mined while another task runs,
and `late` remembers that. Between tasks the operator starts any other one (`Start`),
edits the configuration (`EditConfig`) or transfers an owner, which may be in flight as
well. `OutsiderCreates` is `createBNFT` by anybody. Addresses of NFT collections on a
live network are there from the start; a local chain begins empty. Left out: signers
other than the deployer, the network `ganache` (which is none of the enum
`eEthereumNetwork`), gas, and the print and console tasks.

### AirdropTasks

The collection and its bNFT are enumerable ledgers in which the last token takes
the place of one that leaves, which is what makes reading by index hazardous. `p` is the
task under way with its local variables; `TaskStep` reads once, or sends one transaction
(`SendTx`) that `Mine` mines later, in the order sent. A read may fail (`FailOnce`), a
process be killed (`Crash`), with a transaction in flight too, and in between users
transfer, bind and redeem and the admin claims prizes (`Meanwhile`). A transaction that
would revert by what is mined may be refused at once or be mined and revert, as a node
may or may not count what is pending in its estimate. `disturbed` remembers that others
did something during the run, `late` that a transaction of a killed run was mined during
it, and `seen` who held what at some moment of it: a task that is not atomic can promise
no more than that. What users claim at the distribution is in `AirdropDistribution`.

## 3. Runs

| Run | Configuration | What it shows |
|---|---|---|
| `custody` | 2 assets, 1 EOA, 2 contracts (one of them admin), lists of up to 2 ids, repeated ids included; the user may approve one contract and lock for it | `TypeOK`, `Custody`, `MinterIffBound`, `LoanFreezesDeeds`, `LentWithConsent`, `RedeemedToMinter`; `ImplementsVault`: the committed state (the state before the outermost open call) behaves as `BoundVault` |
| `roles` | 1 asset, an EOA and a contract exchanging both roles, fair `CallEnds` | `HookClosed`, `RenouncedForever`, `GuardReleased` |
| `registry` | 2 collections, 2 implementations and an address without code, a contract as owner, an outsider, a custom symbol, a delegate cash contract | `OneBnftPerAsset`, `ImplsInStep`, `RenouncedFreezes`, and `TypeOK`, which says that creating a bNFT gives nobody a role |
| `flash_claim` | an EOA and a contract, an NFT for each pool, 2 prizes, 2 receivers, 2 versions, every kind of payment; project, bNFT and collection may each be put on the common list and taken off it, and approvals given one by one and for all | `LocksTransient`, `PrizesReachUser`, `BorrowedStays`, and `TypeOK` with the registry's two books |
| `punk_gateway` | 2 punks, an EOA and a contract | `Backed`, `ExchangeCompletes`, `ReturnedToDepositor`, `NothingLeftBehind`, `TypeOK` |
| `airdrop_claims` | 1 airdrop, 2 users, 2 NFTs, lists of up to 2, every claim type, an ERC-721 and an ERC-1155 collection, 2 prizes with one unit each | `PaidOnce`, `AllOrNothing`, `TypeOK` |
| `airdrop_requests` | 2 airdrops over one ERC-721 prize that comes back, 3 requests, 2 coordinators that both number from 1 | `DrawnByOwnWords`, `PaidOnce` |
| `deployment` | a migrated network (tasks without verification), a live one to be migrated (with), a local one; 2 collections; 1 fault | `DoneMeansServed`, `RegistryUsable`, `TokensServed`, `UpgradesKeepKind`, `TaskEnds`, and `TypeOK`, of which `RecordedIsMined` is a part: but for three ids the db names only what is mined |
| `airdrop_tasks` | 2 tokens, of two ERC-1155 kinds and one ERC-20 kind, the operator and a user, 2 events | `NobodyMissed`, `PairedWithOwner`, `ListedPrizesMoved`, `OwnerListed`, `RunEnds`, `TypeOK` |
| `locker_doc`, `registry_id_doc`, `migration_doc` | as small as the counterexample | three places where a text of the repository and the code disagree, see below |

Bounds. Two assets are enough to tell "this asset" from "another one", and two
ids to tell the first of a list from the rest and to repeat one. Two contracts let
a borrower pass an asset to an accomplice. `MaxDepth` is 2 although the guard
allows 1, so that a missing guard shows. The distribution has two runs: in
`airdrop_claims` lists are long enough to fail half way and can be refilled after a
clear, up to twice the number of users, with one airdrop and one request; in
`airdrop_requests` there is one user and one NFT, but a second airdrop over the same
prize, a request made again, and an id given by both coordinators, for which three requests
are needed. In `flash_claim`
`MaxEvents` is 1: what would only undo something (redeem, unlock, delist, send away,
hand on, a new implementation), and every approval by the receiver's owner, happens once, what sets it up freely; every hazard
listed needs one such event inside or before a loan, and a mutant shows that it is
reached. A claim has at most one payment there, which may be one to a contract; longer
lists are covered by the proofs. Its prizes are interchangeable (symmetry; the run has
no temporal property). `MaxContracts` bounds what a task may send, and is chosen for
each network so that every task of its list can complete; `MaxFaults` and the
`MaxEvents` of `airdrop_tasks` count crashes, failed reads and what others do.

Deadlock is not checked where the system may stop: in `registry` once every
collection is bound and the owners have renounced, in the runs of the tasks when the
operator has nothing left to run.

Fairness. `GuardReleased` uses weak fairness of `CallEnds`: gas is finite, so a call
returns or reverts. `TaskEnds` and `RunEnds` use weak fairness of `TaskStep` (a
process that is not killed goes on to its next await) and of `Mine` (a node mines
what it was sent, without which an awaited transaction would hang for ever). Nothing
else is fair: nobody has to claim, redeem or run a task.

Every property has a mutant in `PROJECT.json`: the definition it depends on,
changed as a bug would change it, for which TLC reports the property violated. The
mutated operators stand before the definitions they replace, under "Mutant".

## 4. Where the repository and the code disagree

* `interfaces/IBNFT.sol:129-130` says that an operator given to
  `setFlashLoanLocking` can borrow "any token minted by the minter"; the lock is for
  one token (`locker_doc`).
* `tasks/verifications/general.ts:62-63` verifies the "BNFT Registry proxy" from the id
  `BNFTRegistry` of the db, which `dev:deploy-new-implementation` leaves naming a bare
  implementation (`registry_id_doc`).
* `README.md:106` gives `bend:dev` as the migration of a local node; it runs a task
  that no file registers, and ends there (`migration_doc`).

Seen while modelling, without a run:

* `misc/AirdropDistribution.sol:103` calls claim type 2 random; it is 3, and claims of type
  2 succeed and pay nothing.
* Words are stored under the request's id alone (`AirdropDistribution.sol:167`). After
  `configureVRFCoordinator` the new coordinator may give an id that has words of the old
  one; an airdrop that requests under it draws by those until the answer comes.
  `DrawnByOwnWords` excepts exactly this.
* `configureERC1155` replaces the list of prize ids (line 279), and a fixed claim pays its
  first entry (line 367): NFTs listed before for a prize of another kind are then paid in the
  kind configured last. `dev:configure-airdrop-distribution` configures the kind of one
  NFT at a time. `ListedPrizesMoved` therefore says that the prizes are there, not what is paid.
* The approval that keeps a borrowed NFT in its receiver (`BorrowedStays`) is as good as the
  common whitelist: with the bNFT or the collection listed it can be renewed after the NFT was
  out of the receiver, and an approval for all given then stays for good.

## 5. Proofs

Everything here holds for every value of the constants, from the named assumptions
of the modules: that special addresses differ, that enumerated inputs are in range,
and that bounds are numbers.

`BNFTProofs` (`AddressesDistinct`, `InputsAreAccounts`, `BoundsAreNat`): `TypeOK`,
`HookClosed`, `Custody`, `MinterIffBound`, `LoanFreezesDeeds`, `LentWithConsent`.
The invariant has three layers.

1. `Control`: types, and `Guarded` - at most one frame, guard up exactly with a
   frame - receive flag only under an airdrop, and the saved state is one with guard
   and flag down. It yields `GuardDown` (behind the guard nothing is open) and
   `OpenCall` (an open call is the only one), on which everything else rests.
2. `Ledgers`: `Custody`, `MinterIffBound` and `LoanFreezesDeeds`, together with
   `SavedSound`, which says the same of the saved state, as a revert goes back to it.
3. `LentWithConsent`, over `Control`: the saved state of a loan is the state its
   permission was judged by, and a frame keeps caller, list and saved state.

`BNFTRegistryProofs` (`NoAddrFresh`, `AdminsAreAccounts`): `TypeOK`,
`OneBnftPerAsset`, `ImplsInStep`, `RenouncedFreezes`. `Control` is again types and
guard. `Book` says that list, map, proxies and recorded implementations agree, in
the present state but for the asset being upgraded, whose proxy runs the frame's
implementation, and in the saved state of an open call. `RenouncedFreezes` needs one
fact more, `OwnerOpened`: the saved state has an owner, so that nothing open can
return to a renounced registry.

`FlashClaimProofs` (`ContractsAreUsers`, `AddressesDistinct`, `InputsAreAddresses`,
`PaymentsOfPrizes`, `NoImplementation`): `TypeOK`, `LocksTransient`,
`PrizesReachUser`, `BorrowedStays`, for lists and claims of any length. `Sound` says of
a *world*, everything a revert gives back, that each user's receiver is the user's
unless handed on, that prizes are reached, and that an address without code has no
owner; it is kept of the present world and of `tx.saved`. `InLoan` relates the loan to
the present: its receiver is the caller's and pays the caller unless handed on, the
saved world has no lock of the registry, and an NFT that moved during the loan has
lost its approval (`ApprovalLost`) - so `TakeBack`, which needs all approvals, finds that
none did. Excepted are a listed bNFT or collection, and a receiver that approved somebody
for all: `Opened` keeps `forAll` within the receivers of which that is on record, in the
saved world too, since a revert takes such an approval back.

`BoundPunkGatewayProofs` (`ContractsAreUsers`, `AddressesDistinct`): `TypeOK`,
`Backed`, `ExchangeCompletes`, `ReturnedToDepositor`, `NothingLeftBehind`. `Place`
says for each point of the two functions which ledger holds the punk, `Others` that
the other punks are as they were, `SavedSound` that a revert goes back to sound books.

The second half of `BNFTProofs` (also `NoAddrIsNoDeed`: the null account is not a pair of
accounts, so no token without a deed looks like one with): `RedeemedToMinter`,
`RenouncedForever`, and `VaultImplemented`, that the contract implements `BoundVault`. The refinement looks at
`Committed`, the state the chain will remember: while a call is open that is the state
it saved. A step inside a call is therefore a stutter, and the step that ends the call
performs all the call did at once - which must be one step of the vault. `SinceSaved`
says that it is: an open burn has cancelled one deed and let that one asset go, any other
open call has left the deeds alone and let no asset go but those on loan
(`SinceCall`), and a call that found the contract renounced leaves it so
(`RolesSinceCall`). With `Control`, and `Ledgers` at both ends, every action then maps
to a step of the vault or to none.

`AirdropDistributionProofs` (`HoldersDistinct`, `TypesKnown`, `RequestIdsAreNotNone`,
`BoundsAreNat`, `NoClaimIsNone`): `TypeOK`, `PaidOnce`, `DrawnByOwnWords`, `AllOrNothing`.
`Sound` says of a world that its claimed flags are its payments, that an airdrop's request
id is that of the latest request made for it, and that the words under an id answer a
request of that id (`WordsSound`); it is kept of the present world and of the one an open
claim saved, to which a revert returns. `IdsFresh` says that two requests of one id were
made of different coordinators: with it, words under the id of the latest request that are
not its own are another coordinator's, which is all `DrawnByOwnWords` excepts. `Progress`
relates the present world and the saved one: the claim has paid for exactly the NFTs it has
been through, none of which had been paid for before, so a list that repeats an NFT cannot
be paid twice within one claim either. `AllOrNothing` follows at the claim's last step,
where what it has been through is the whole list.

`AirdropTasksProofs` (`TokenAssumption`, `UserAssumption`, `TokenTypeAssumption`,
`IdListsAssumption`): `TypeOK`, `PairedWithOwner`, `ListedPrizesMoved`, `OwnerListed`,
`NobodyMissed`. The first six hundred lines are about the enumerable ledger: that the swap with the last
token removes one token and repeats none. The invariant has seven parts: `Ledgers`
(every token once, with one holder), `Prizes` (only NFTs with a prize are listed),
`Places` (where a task can be, with which local variables), `Flying` (what was sent is
what a task sends, and the transaction a task waits for is the last one), `Pairing` and
`Configuring` (what the two tasks of the distribution hold in their local variables, true
of the chain as long as nothing disturbed them or was mined late), and `Accounts`, the one
that is not about types: for each kind of prize, those the distribution holds are at least
the NFTs listed for it, and with those of the transactions in flight and of the task at
work also the ones that are about to be listed. It counts sets (`PaidFor`, `Due`,
`DueNext`) and needs the theorems on cardinalities, as one unit stands for one NFT of the
kind and not for a certain one. That is why a run killed anywhere between claiming and
listing, and started again, stays covered.
`NobodyMissed` rests on `Scanning`, over that invariant: as long as nothing moves and one
read at most has failed, a scan has found, in order, the unclaimed tokens before its index,
and a token without an answer has a try left. An unclaimed token's place in what was found
is its rank among the unclaimed ones (`Ranks`), so that no filter has to be evaluated.

`DeploymentProofs` (`NftContractIdAssumption`, `BoundsAssumption`, `NetworksAssumption`,
`TasksAssumption`: the collections are a list of symbols, as the enum of `types.ts` is; the
bounds are numbers; networks, tasks and flags are ones there are): `TypeOK`,
`RecordedIsMined`, `RegistryUsable`, `DoneMeansServed`, `TokensServed`,
`UpgradesKeepKind`. A task is a script that the TypeScript puts together from functions, and
the migrations from other tasks, so it is proved about like a sequential program.

1. A *fact* says something of the task's variables, the db, the configuration and the
   chain: that `proxy` is a mined proxy of some kind, that the db has its address, that the
   proxy has the address in `impl` as its logic. Facts are data (`Known`, `Rec`, `Logic`,
   ...); `Holds` says what a fact means in a state. `Needs`, `Gives` and `Killed` say for
   each kind of step what must hold before it, what holds after it, and what it may
   spoil.
2. `Outline(P, s, Q)`: there are facts for every place of the script `s`, with `P` at the
   start and `Q` at the end. Outlines of two scripts make one of the scripts in sequence
   (`Then`), of the parts of a loop one of the loop (`Loop`); what no step spoils stays
   (`Framed`). With these each function and each task gets its outline, in the order of
   the source, and `ScriptOut` says that every task has one that ends with what the
   properties ask of it (`Enough`).
3. The invariant is `Inv`. `Stores`: types, `RecordedIsMined`, that a configured contract
   is of the kind it is configured as, and that every registry has a BNFT to give which is
   mined or was sent before it (`GoodContract`) - what a killed task leaves behind, and all
   the next task can start from. `Flights`: what each call in flight was sent with
   (`CallSound`), whoever sent it - an upgrade to an implementation of the proxy's kind that
   is not older than its logic, a generic implementation that is a BNFT. `Pending`: who waits
   for a call waits for that of its first step. `Program`: the script is empty
   just when nothing runs, and the room for contracts is enough for what it still sends.
   `Progress`: a task that runs, or is through, stands at a place of an outline whose facts
   hold. `RevertedWhy`: the reasons for which `full:deploy-bnft-tokens` reverts.
4. A call left in flight by a killed run may change what the running task has established.
   Some facts say so only until `disturbed` or `late`: what is bound, which generic
   implementation was read. Others are claimed once nothing of others can be in flight:
   transactions are mined in the order they are sent, so a task that has waited for a
   deployment of its own (`Fresh`, then `Save`) knows that what was sent before is mined, and
   that only its own call flies (`Alone`); `Newest` says of its implementation that no proxy
   runs, and no call asks for, a later one.
5. A step of the task takes the facts of its place to those of the next, the mining of the
   call it waits for included; steps of others (mining, a crash, an edit, a changed owner, a
   bNFT created by someone else) leave the facts of the running task true (`Survives`).

TLC cannot evaluate `Progress`, which ranges over all outlines; it checks the
properties. `Loop` is an induction along the list of collections; it is done without an
induction theorem, from the least element of a set of naturals (`Least`, by the
well-foundedness of finite sets).

Only model-checked: `GuardReleased`, `TaskEnds` and `RunEnds`, which are liveness under
fairness. Every safety property of the passing runs, and the refinement, is proved.

## 6. Plan

Done: `BNFT`, `BoundVault`, `BNFTRegistry`, `AirdropDistribution`, `FlashClaim`,
`BoundPunkGateway`, `Deployment`, `AirdropTasks`, and the proofs of section 5. What is
left, in this order:

1. `DelegateCash`: delegations through the V1 and V2 registries across burn and mint, and
   what a changed registry or delegate cash contract does to them; its proofs, in the manner
   of `BNFTProofs`.
2. The V1 and V2 receiver registries side by side with V3.

## 7. Not modelled

* Delegate cash (`BNFT.sol:419-526`): calls to an external registry that outlive the
  bound token, which the tests assert. Next of the plan.
* V1 and V2 registries and receivers: superseded by V3.
* Proxy and proxy admin (OpenZeppelin code), ABI encoding, token metadata, events, gas
  amounts. The Moonbirds nesting toggle calls the collection and changes nothing here.
* Of the tasks: verification of single bNFTs and claim contracts, minting and setting
  up mocks, printing, `dev:flashloan-airdrop`.

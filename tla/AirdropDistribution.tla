------------------------ MODULE AirdropDistribution ------------------------
(***************************************************************************)
(* The distribution of airdropped tokens to snapshot holders               *)
(* (src/contracts/misc/AirdropDistribution.sol): the owner creates         *)
(* airdrops, lists which user may claim for which NFT, asks the VRF        *)
(* coordinator for random words, and users claim.  A claim pays one prize  *)
(* per listed NFT; each payment calls the user, who may move what it got   *)
(* or make the whole claim revert.  Every function but the coordinator's   *)
(* answer is nonReentrant, so no other one runs while a claim is open.     *)
(***************************************************************************)
EXTENDS Integers, Sequences, FiniteSets

CONSTANTS User,        \* accounts that hold NFTs in the snapshot
          Nft,         \* ids of the NFTs, and of ERC-721 prizes
          Prize1155,   \* ids of ERC-1155 prizes
          Asset721,    \* airdropped ERC-721 collections
          Asset1155,   \* airdropped ERC-1155 contracts
          Coordinator, \* VRF coordinators the owner may configure
          Dist,        \* this contract, as a holder of prizes
          NoClaim,     \* "no claim is open"
          ClaimType,   \* the claim types explored, of FixedSame, FixedDiff and Random
          RequestId,   \* ids the coordinators give to requests
          MaxAirdrop,  \* bound: airdrops created
          MaxRequest,  \* bound: requests for random words
          MaxList,     \* bound: NFT ids listed for a user
          Supply       \* bound: units of each ERC-1155 prize held at first

FixedSame == 1
FixedDiff == 2
Random    == 3

Asset == Asset721 \cup Asset1155

ASSUME HoldersDistinct == Dist \notin User /\ Asset721 \cap Asset1155 = {}
ASSUME TypesKnown == ClaimType \subseteq {FixedSame, FixedDiff, Random}
ASSUME RequestIdsAreNotNone == RequestId \subseteq Nat \ {0}
ASSUME BoundsAreNat == {MaxAirdrop, MaxRequest, MaxList, Supply} \subseteq Nat

VARIABLES airdropDatas,      \* the airdrops in the order of their ids
          nftAirdropToIds,   \* asset -> id of its latest airdrop, 0 if none
          vrfCoordinator,
          vrfRequests,       \* the requests made: coordinator asked, airdrop, id returned
          vrfAllRandomWords, \* request id -> index of the request whose answer is stored, 0 if none
          prizeOwner,        \* ERC-721 asset -> prize -> its holder
          balance,           \* ERC-1155 asset -> prize -> units this contract holds
          awards,            \* history: airdrop -> NFT -> the users paid for it
          claim              \* the open claim: user, airdrop, next index, state at its start

pool == <<prizeOwner, balance>>
vrf  == <<vrfCoordinator, vrfRequests, vrfAllRandomWords>>
vars == <<airdropDatas, nftAirdropToIds, vrf, pool, awards, claim>>

\* Airdrops have the ids 1, 2, ...; lists are looked up by index.
Ids(s) == 1..Len(s)

Airdrops == [ asset : Asset, claimType : ClaimType, vrfRequestId : RequestId \cup {0},
              nftAllUsers : Seq(User), nftUserTokenIds : [User -> Seq(Nft)],
              nftTokenClaimeds : SUBSET Nft, erc1155AirdropTokenIds : Seq(Prize1155) ]

Worlds == [ airdropDatas : Seq(Airdrops),
            words        : [RequestId \cup {0} -> Nat],
            prizeOwner   : [Asset721 -> [Nft -> User \cup {Dist}]],
            balance      : [Asset1155 -> [Prize1155 -> 0..Supply]],
            awards       : Seq([Nft -> Seq(User)]) ]

Claims == [user : User, airdrop : Nat, next : Nat \ {0}, saved : Worlds]

ASSUME NoClaimIsNone == NoClaim \notin Claims

Init == /\ airdropDatas = <<>>
        /\ nftAirdropToIds = [x \in Asset |-> 0]
        /\ vrfCoordinator \in Coordinator
        /\ vrfRequests = <<>>
        /\ vrfAllRandomWords = [id \in RequestId \cup {0} |-> 0]
        /\ prizeOwner = [x \in Asset721 |-> [p \in Nft |-> Dist]]
        /\ balance = [x \in Asset1155 |-> [p \in Prize1155 |-> Supply]]
        /\ awards = <<>>
        /\ claim = NoClaim
-----------------------------------------------------------------------------
(* The owner. *)

NonReentrant == claim = NoClaim

\* The airdrop registry knows the bNFT of the asset's collection.
CreateAirdrop(asset, claimType) ==
    /\ NonReentrant
    /\ Len(airdropDatas) < MaxAirdrop
    /\ airdropDatas' = Append(airdropDatas,
         [ asset |-> asset, claimType |-> claimType, vrfRequestId |-> 0, nftAllUsers |-> <<>>,
           nftUserTokenIds |-> [u \in User |-> <<>>], nftTokenClaimeds |-> {},
           erc1155AirdropTokenIds |-> <<>> ])
    /\ nftAirdropToIds' = [nftAirdropToIds EXCEPT ![asset] = Len(airdropDatas) + 1]
    /\ awards' = Append(awards, [n \in Nft |-> <<>>])
    /\ UNCHANGED <<vrf, pool, claim>>

\* External: a coordinator gives no id twice, but knows nothing of the ids the
\* others gave.
Fresh(id) == \A r \in Ids(vrfRequests) :
                 vrfRequests[r].coordinator = vrfCoordinator => vrfRequests[r].id # id

\* Mutant: the id of the first request is kept.
FirstRequestId(d, id) == IF d.vrfRequestId = 0 THEN id ELSE d.vrfRequestId
NewRequestId(d, id) == id

\* A new request replaces an older one, answered or not.
RequestVRFRandomWords(a) ==
    /\ NonReentrant
    /\ airdropDatas[a].claimType = Random
    /\ Len(vrfRequests) < MaxRequest
    /\ \E id \in {i \in RequestId : Fresh(i)} :
         /\ vrfRequests' = Append(vrfRequests, [coordinator |-> vrfCoordinator, airdrop |-> a, id |-> id])
         /\ airdropDatas' = [airdropDatas EXCEPT ![a].vrfRequestId = NewRequestId(airdropDatas[a], id)]
    /\ UNCHANGED <<nftAirdropToIds, vrfCoordinator, vrfAllRandomWords, pool, awards, claim>>

ConfigureVRFCoordinator(c) ==
    /\ NonReentrant
    /\ vrfCoordinator' = c
    /\ UNCHANGED <<airdropDatas, nftAirdropToIds, vrfRequests, vrfAllRandomWords, pool, awards, claim>>

\* One pair of the batch.
ConfigureNftUserTokenIds(a, user, nft) ==
    /\ NonReentrant
    /\ LET d == airdropDatas[a] IN
         /\ Len(d.nftUserTokenIds[user]) < MaxList
         /\ airdropDatas' = [airdropDatas EXCEPT ![a] = [d EXCEPT
              !.nftUserTokenIds[user] = Append(@, nft),
              !.nftAllUsers = IF d.nftUserTokenIds[user] = <<>> THEN Append(@, user) ELSE @]]
         /\ Len(d.nftAllUsers) < 2 * Cardinality(User) \* bound: users listed again after a clear
    /\ UNCHANGED <<nftAirdropToIds, vrf, pool, awards, claim>>

\* Mutant: clearing a user also forgets what was claimed for its NFTs.
ClearedWithClaims(d, user) ==
    [d EXCEPT !.nftUserTokenIds[user] = <<>>,
              !.nftTokenClaimeds = @ \ {d.nftUserTokenIds[user][i] : i \in Ids(d.nftUserTokenIds[user])}]
Cleared(d, user) == [d EXCEPT !.nftUserTokenIds[user] = <<>>]

ClearNftUserTokenIds(a, user) ==
    /\ NonReentrant
    /\ airdropDatas' = [airdropDatas EXCEPT ![a] = Cleared(@, user)]
    /\ UNCHANGED <<nftAirdropToIds, vrf, pool, awards, claim>>

ConfigureERC1155(a, ids) ==
    /\ NonReentrant
    /\ airdropDatas[a].asset \in Asset1155
    /\ airdropDatas' = [airdropDatas EXCEPT ![a].erc1155AirdropTokenIds = ids]
    /\ UNCHANGED <<nftAirdropToIds, vrf, pool, awards, claim>>

\* The configured coordinator answers a request made of it, once or again, late
\* or out of order: all the code asks is who calls.  The words are stored under
\* the id alone, over what is there.  Not nonReentrant.
RawFulfillRandomWords(r) ==
    /\ vrfRequests[r].coordinator = vrfCoordinator
    /\ vrfAllRandomWords' = [vrfAllRandomWords EXCEPT ![vrfRequests[r].id] = r]
    /\ UNCHANGED <<airdropDatas, nftAirdropToIds, vrfCoordinator, vrfRequests, pool, awards, claim>>
-----------------------------------------------------------------------------
(* Claims. *)

\* Mutant: a request is enough, its words need not be there.
HasRequest(d) == d.vrfRequestId # 0
HasRandomWord(d) == d.vrfRequestId # 0 /\ vrfAllRandomWords[d.vrfRequestId] # 0

\* The prizes a claim may pay for nft; a random one is any that is left.  No
\* prize, no payment: the transfer, or the division by zero, reverts.
Payable721(d, nft) ==
    {p \in Nft : /\ prizeOwner[d.asset][p] = Dist
                 /\ \/ d.claimType = FixedSame /\ p = nft
                    \/ d.claimType = Random /\ HasRandomWord(d)}

Payable1155(d) ==
    {d.erc1155AirdropTokenIds[i] :
        i \in {j \in Ids(d.erc1155AirdropTokenIds) :
                 /\ balance[d.asset][d.erc1155AirdropTokenIds[j]] > 0
                 /\ \/ d.claimType = FixedSame /\ j = 1
                    \/ d.claimType = Random /\ HasRandomWord(d)}}

\* Everything a reverted claim gives back.
World == [airdropDatas |-> airdropDatas, words |-> vrfAllRandomWords, prizeOwner |-> prizeOwner,
          balance |-> balance, awards |-> awards]

\* claimERC721 or claimERC1155, by the type of the airdrop's token.
Claim(user, a) ==
    /\ NonReentrant
    /\ airdropDatas[a].nftUserTokenIds[user] # <<>>
    /\ claim' = [user |-> user, airdrop |-> a, next |-> 1, saved |-> World]
    /\ UNCHANGED <<airdropDatas, nftAirdropToIds, vrf, pool, awards>>

\* The state of the open claim.
\* Mutant: the data of the asset's latest airdrop.
DataOfLatest == airdropDatas[nftAirdropToIds[airdropDatas[claim.airdrop].asset]]
Data == airdropDatas[claim.airdrop]
List == Data.nftUserTokenIds[claim.user]
Open == claim # NoClaim

Unclaimed(nft) == nft \notin Data.nftTokenClaimeds

\* Mutant: the user, not the NFT, is marked.
MarkedUser(nft, prize) == Data.nftTokenClaimeds \cup {claim.user}
Marked(nft, prize) == Data.nftTokenClaimeds \cup {nft}

\* The NFT at the next index is marked and its prize sent to the user.
PayNext ==
    /\ Open /\ claim.next <= Len(List)
    /\ LET nft == List[claim.next]
           x   == Data.asset
       IN  /\ Unclaimed(nft)
           /\ \E p \in IF x \in Asset721 THEN Payable721(Data, nft) ELSE Payable1155(Data) :
                /\ airdropDatas' = [airdropDatas EXCEPT ![claim.airdrop].nftTokenClaimeds = Marked(nft, p)]
                /\ prizeOwner' = IF x \in Asset721 THEN [prizeOwner EXCEPT ![x][p] = claim.user] ELSE prizeOwner
                /\ balance' = IF x \in Asset1155 THEN [balance EXCEPT ![x][p] = @ - 1] ELSE balance
           /\ awards' = [awards EXCEPT ![claim.airdrop][nft] = Append(@, claim.user)]
    /\ claim' = [claim EXCEPT !.next = @ + 1]
    /\ UNCHANGED <<nftAirdropToIds, vrf>>

\* Mutant: a claimed NFT is passed over instead of failing the claim.
SkipClaimedToo == Data.claimType = FixedDiff \/ List[claim.next] \in Data.nftTokenClaimeds
Skips == Data.claimType = FixedDiff /\ Unclaimed(List[claim.next])

\* A type nothing is allocated for: the loop goes on to the next NFT.
SkipNext ==
    /\ Open /\ claim.next <= Len(List)
    /\ Skips
    /\ claim' = [claim EXCEPT !.next = @ + 1]
    /\ UNCHANGED <<airdropDatas, nftAirdropToIds, vrf, pool, awards>>

ClaimEnds ==
    /\ Open /\ claim.next > Len(List)
    /\ claim' = NoClaim
    /\ UNCHANGED <<airdropDatas, nftAirdropToIds, vrf, pool, awards>>

\* A require fails, a transfer fails or the user's receive hook reverts.
ClaimReverts ==
    /\ Open
    /\ LET w == claim.saved IN
         /\ airdropDatas' = w.airdropDatas
         /\ vrfAllRandomWords' = w.words
         /\ prizeOwner' = w.prizeOwner
         /\ balance' = w.balance
         /\ awards' = w.awards
    /\ claim' = NoClaim
    /\ UNCHANGED <<nftAirdropToIds, vrfCoordinator, vrfRequests>>

\* A user moves a prize it holds, possibly back to this contract.
PrizeMoves(x, p, to) ==
    /\ prizeOwner[x][p] \in User \ {to}
    /\ prizeOwner' = [prizeOwner EXCEPT ![x][p] = to]
    /\ UNCHANGED <<airdropDatas, nftAirdropToIds, vrf, balance, awards, claim>>

\* A unit of an ERC-1155 prize comes back.
PrizeReturns(x, p) ==
    /\ balance[x][p] < Supply
    /\ balance' = [balance EXCEPT ![x][p] = @ + 1]
    /\ UNCHANGED <<airdropDatas, nftAirdropToIds, vrf, prizeOwner, awards, claim>>
-----------------------------------------------------------------------------
OwnerCall(a) ==
    \/ RequestVRFRandomWords(a)
    \/ \E user \in User :
         \/ ClearNftUserTokenIds(a, user)
         \/ \E nft \in Nft : ConfigureNftUserTokenIds(a, user, nft)
    \/ \E ids \in {<<>>} \cup {<<p>> : p \in Prize1155} \cup (Prize1155 \X Prize1155) :
         ConfigureERC1155(a, ids)

Next ==
    \/ \E asset \in Asset, claimType \in ClaimType : CreateAirdrop(asset, claimType)
    \/ \E a \in Ids(airdropDatas) : OwnerCall(a) \/ \E user \in User : Claim(user, a)
    \/ \E c \in Coordinator : ConfigureVRFCoordinator(c)
    \/ \E r \in Ids(vrfRequests) : RawFulfillRandomWords(r)
    \/ PayNext \/ SkipNext \/ ClaimEnds \/ ClaimReverts
    \/ \E x \in Asset721, p \in Nft, to \in User \cup {Dist} : PrizeMoves(x, p, to)
    \/ \E x \in Asset1155, p \in Prize1155 : PrizeReturns(x, p)

Spec == Init /\ [][Next]_vars
-----------------------------------------------------------------------------
(* Properties. *)

\* Every variable has its type.
TypeOK ==
    /\ World \in Worlds
    /\ nftAirdropToIds \in [Asset -> 0..Len(airdropDatas)]
    /\ vrfCoordinator \in Coordinator
    /\ vrfRequests \in Seq([coordinator : Coordinator, airdrop : Ids(airdropDatas), id : RequestId])
    /\ \A id \in RequestId \cup {0} : vrfAllRandomWords[id] <= Len(vrfRequests)
    /\ Len(awards) = Len(airdropDatas)
    /\ claim \in Claims \cup {NoClaim}
    /\ Open => claim.airdrop \in Ids(airdropDatas)

\* No airdrop pays twice for an NFT, whoever is listed for it, however often,
\* and whatever is cleared and listed again in between; isNftTokenClaimed answers
\* exactly for the NFTs that were paid for, also after a claim that failed
\* half-way (lines 260-265, 318, 342-345).
PaidOnce ==
    \A a \in Ids(awards), n \in Nft :
        Len(awards[a][n]) = IF n \in airdropDatas[a].nftTokenClaimeds THEN 1 ELSE 0

\* What the chain will remember of the payments.
Committed == IF Open THEN claim.saved.awards ELSE awards

\* A claim pays for all NFTs listed for its user or for none (lines 316-346).
AllOrNothing == [][
    \A a \in Ids(Committed) : Committed'[a] # Committed[a] =>
        \E user \in User : LET l == airdropDatas[a].nftUserTokenIds[user] IN
            /\ \A i \in Ids(l) : Committed[a][l[i]] = <<>>
            /\ Committed'[a] = [n \in Nft |-> IF \E i \in Ids(l) : l[i] = n THEN <<user>> ELSE Committed[a][n]]
    ]_vars

\* The latest request made for an airdrop.
Latest(a, r) == /\ vrfRequests[r].airdrop = a
                /\ \A s \in Ids(vrfRequests) : vrfRequests[s].airdrop = a => s <= r

\* A random payment draws by the answer to the latest request made for its
\* airdrop: not by an older one that came late or was replaced, not by one made
\* for another airdrop, and not before there is one (lines 215-231, 417-422).
\* The one exception the code has: another coordinator, configured before or
\* since, gave the same id to a request, and its answer is stored there.
DrawnByOwnWords == [][
    \A a \in Ids(awards) :
        airdropDatas[a].claimType = Random /\ (\E n \in Nft : Len(awards'[a][n]) > Len(awards[a][n])) =>
            LET w == vrfAllRandomWords[airdropDatas[a].vrfRequestId]
            IN  /\ w # 0
                /\ \E r \in Ids(vrfRequests) :
                     /\ Latest(a, r)
                     /\ vrfRequests[w].id = vrfRequests[r].id
                     /\ w # r => vrfRequests[w].coordinator # vrfRequests[r].coordinator
    ]_vars
=============================================================================

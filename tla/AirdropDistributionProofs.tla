---------------------- MODULE AirdropDistributionProofs ----------------------
(***************************************************************************)
(* Safety of the airdrop distribution for all users, NFTs and airdrops and *)
(* every bound.  A reverted claim brings an old state back, so the         *)
(* inductive invariant says of the state a claim has saved what it says of *)
(* the present one (Sound), and how far the two have come apart (Progress).*)
(***************************************************************************)
EXTENDS AirdropDistribution, SequenceTheorems, TLAPS

\* What holds of airdrop a with data d, whose NFTs were paid for as in aw: the
\* request in force is the latest made for it, and its marks are its payments.
AirdropSound(a, d, aw) ==
    /\ d.vrfRequestId # 0 =>
         \E r \in Ids(vrfRequests) : Latest(a, r) /\ vrfRequests[r].id = d.vrfRequestId
    /\ \A n \in Nft : Len(aw[n]) = IF n \in d.nftTokenClaimeds THEN 1 ELSE 0

\* Words are stored under the id of the request they answer.
WordsSound(ws) ==
    \A id \in RequestId \cup {0} : ws[id] # 0 =>
        ws[id] \in Ids(vrfRequests) /\ vrfRequests[ws[id]].id = id

Sound(w) ==
    /\ Len(w.awards) = Len(w.airdropDatas)
    /\ WordsSound(w.words)
    /\ \A a \in Ids(w.airdropDatas) : AirdropSound(a, w.airdropDatas[a], w.awards[a])

\* No coordinator gave an id twice.
IdsFresh ==
    \A r, s \in Ids(vrfRequests) :
        vrfRequests[r].coordinator = vrfRequests[s].coordinator /\ vrfRequests[r].id = vrfRequests[s].id => r = s

\* The NFTs the open claim has been through.
Passed == {List[i] : i \in 1..(claim.next - 1)}

\* The payments of airdrop a, should the claim keep the ones it made so far.
PaidSoFar(a) ==
    IF a # claim.airdrop \/ Data.claimType = FixedDiff THEN claim.saved.awards[a]
    ELSE [n \in Nft |-> IF n \in Passed THEN <<claim.user>> ELSE claim.saved.awards[a][n]]

\* The open claim has paid for the NFTs it has been through, none of which had
\* been paid for before, and for nothing else.
Progress ==
    /\ Len(claim.saved.awards) = Len(awards)
    /\ claim.next <= Len(List) + 1
    /\ \A a \in Ids(awards) : awards[a] = PaidSoFar(a)
    /\ Data.claimType # FixedDiff => \A n \in Passed : claim.saved.awards[claim.airdrop][n] = <<>>

IInv ==
    /\ TypeOK
    /\ IdsFresh
    /\ Sound(World)
    /\ Open => Sound(claim.saved) /\ Progress
-----------------------------------------------------------------------------
(* Types. *)

\* The type of the state, field by field.
LEMMA WorldFields ==
    World \in Worlds <=>
      /\ airdropDatas \in Seq(Airdrops)
      /\ vrfAllRandomWords \in [RequestId \cup {0} -> Nat]
      /\ prizeOwner \in [Asset721 -> [Nft -> User \cup {Dist}]]
      /\ balance \in [Asset1155 -> [Prize1155 -> 0..Supply]]
      /\ awards \in Seq([Nft -> Seq(User)])
  BY DEF World, Worlds

\* What Sound says of the present state.
LEMMA SoundNow ==
    Sound(World) <=>
      /\ Len(awards) = Len(airdropDatas)
      /\ WordsSound(vrfAllRandomWords)
      /\ \A a \in Ids(airdropDatas) : AirdropSound(a, airdropDatas[a], awards[a])
  BY DEF Sound, World

LEMMA SoundNext ==
    Sound(World)' <=>
      /\ Len(awards') = Len(airdropDatas')
      /\ WordsSound(vrfAllRandomWords)'
      /\ \A a \in Ids(airdropDatas') :
           AirdropSound(a, airdropDatas[a], awards[a])'
  BY DEF Sound, World, AirdropSound, WordsSound, Latest, Ids

\* A sequence over a set is one over every larger set.
LEMMA SeqOfMore ==
    ASSUME NEW S, NEW T, S \subseteq T, NEW s \in Seq(S)
    PROVE  s \in Seq(T)
  <1>1. \A i \in 1..Len(s) : s[i] \in T
    BY ElementOfSeq
  <1>2. s \in [1..Len(s) -> T] /\ Len(s) \in Nat
    BY <1>1
  <1> QED
    BY <1>2

\* One airdrop's data is replaced.
LEMMA DataReplaced ==
    ASSUME NEW S, NEW s \in Seq(S), NEW a \in Ids(s), NEW d \in S
    PROVE  LET t == [s EXCEPT ![a] = d] IN
           /\ t \in Seq(S) /\ Len(t) = Len(s) /\ t[a] = d
           /\ \A b \in Ids(s) : b # a => t[b] = s[b]
  BY ExceptSeq DEF Ids

\* IdsFresh depends on the requests alone.
LEMMA FreshKept ==
    ASSUME IInv, UNCHANGED vrfRequests
    PROVE  IdsFresh'
  BY DEF IInv, IdsFresh, Ids

\* A step of the owner that changes the data of airdrop a but neither its
\* marks, its type nor its request keeps the invariant.
LEMMA OwnerStep ==
    ASSUME IInv, NonReentrant, NEW a \in Ids(airdropDatas), NEW d \in Airdrops,
           airdropDatas' = [airdropDatas EXCEPT ![a] = d],
           d.vrfRequestId = airdropDatas[a].vrfRequestId,
           d.nftTokenClaimeds = airdropDatas[a].nftTokenClaimeds,
           d.claimType = airdropDatas[a].claimType,
           UNCHANGED <<nftAirdropToIds, vrf, pool, awards, claim>>
    PROVE  IInv'
  <1>1. /\ airdropDatas' \in Seq(Airdrops) /\ Len(airdropDatas') = Len(airdropDatas)
        /\ airdropDatas'[a] = d
        /\ \A b \in Ids(airdropDatas) : b # a => airdropDatas'[b] = airdropDatas[b]
    BY DataReplaced, WorldFields DEF IInv, TypeOK
  <1>2. TypeOK'
    BY <1>1, WorldFields DEF IInv, TypeOK, World, Worlds, vrf, pool, NonReentrant, Open, Ids
  <1>3. Sound(World)'
    <2>1. \A b \in Ids(airdropDatas) : AirdropSound(b, airdropDatas[b], awards[b])'
      BY <1>1, SoundNow DEF IInv, AirdropSound, WordsSound, Latest, Ids, vrf
    <2> QED
      BY <1>1, <2>1, SoundNow, SoundNext DEF IInv, WordsSound, Ids, vrf
  <1> QED
    BY <1>2, <1>3, FreshKept DEF IInv, NonReentrant, Open, vrf
-----------------------------------------------------------------------------
(* The owner and the coordinator. *)

LEMMA ConfigureUserKeeps ==
    ASSUME IInv, NEW a \in Ids(airdropDatas), NEW user \in User, NEW nft \in Nft,
           ConfigureNftUserTokenIds(a, user, nft)
    PROVE  IInv'
  <1> DEFINE old == airdropDatas[a]
             l   == Append(old.nftUserTokenIds[user], nft)
             us  == IF old.nftUserTokenIds[user] = <<>> THEN Append(old.nftAllUsers, user) ELSE old.nftAllUsers
             d   == [old EXCEPT
                       !.nftUserTokenIds[user] = Append(@, nft),
                       !.nftAllUsers = IF old.nftUserTokenIds[user] = <<>> THEN Append(@, user) ELSE @]
  <1>1. old \in Airdrops /\ airdropDatas \in Seq(Airdrops)
    BY WorldFields DEF IInv, TypeOK, Ids
  <1>2. l \in Seq(Nft) /\ us \in Seq(User)
    BY <1>1 DEF Airdrops
  <1>3. d \in Airdrops
    BY <1>1, <1>2 DEF Airdrops
  <1>4. airdropDatas' = [airdropDatas EXCEPT ![a] = d]
    BY DEF ConfigureNftUserTokenIds
  <1>5. /\ d.vrfRequestId = old.vrfRequestId /\ d.claimType = old.claimType
        /\ d.nftTokenClaimeds = old.nftTokenClaimeds
    BY <1>1 DEF Airdrops
  <1> HIDE DEF d
  <1> QED
    BY <1>3, <1>4, <1>5, OwnerStep DEF ConfigureNftUserTokenIds

LEMMA ClearUserKeeps ==
    ASSUME IInv, NEW a \in Ids(airdropDatas), NEW user \in User, ClearNftUserTokenIds(a, user)
    PROVE  IInv'
  <1> DEFINE d == Cleared(airdropDatas[a], user)
  <1>1. airdropDatas[a] \in Airdrops
    BY WorldFields DEF IInv, TypeOK, Ids
  <1>2. /\ d \in Airdrops
        /\ d.vrfRequestId = airdropDatas[a].vrfRequestId /\ d.claimType = airdropDatas[a].claimType
        /\ d.nftTokenClaimeds = airdropDatas[a].nftTokenClaimeds
    <2>1. airdropDatas[a].nftUserTokenIds \in [User -> Seq(Nft)] /\ <<>> \in Seq(Nft)
      BY <1>1 DEF Airdrops
    <2>2. [airdropDatas[a].nftUserTokenIds EXCEPT ![user] = <<>>] \in [User -> Seq(Nft)]
      BY <2>1
    <2> QED
      BY <1>1, <2>2 DEF Cleared, Airdrops
  <1>3. airdropDatas' = [airdropDatas EXCEPT ![a] = d]
    BY DEF ClearNftUserTokenIds
  <1> HIDE DEF d
  <1> QED
    BY <1>2, <1>3, OwnerStep DEF ClearNftUserTokenIds

LEMMA ConfigureERC1155Keeps ==
    ASSUME IInv, NEW a \in Ids(airdropDatas), NEW ids \in Seq(Prize1155), ConfigureERC1155(a, ids)
    PROVE  IInv'
  <1> DEFINE d == [airdropDatas[a] EXCEPT !.erc1155AirdropTokenIds = ids]
  <1>1. airdropDatas[a] \in Airdrops
    BY WorldFields DEF IInv, TypeOK, Ids
  <1>2. /\ d \in Airdrops
        /\ d.vrfRequestId = airdropDatas[a].vrfRequestId /\ d.claimType = airdropDatas[a].claimType
        /\ d.nftTokenClaimeds = airdropDatas[a].nftTokenClaimeds
    BY <1>1 DEF Airdrops
  <1>3. airdropDatas' = [airdropDatas EXCEPT ![a] = d]
    BY DEF ConfigureERC1155
  <1> HIDE DEF d
  <1> QED
    BY <1>2, <1>3, OwnerStep DEF ConfigureERC1155

LEMMA CreateAirdropKeeps ==
    ASSUME IInv, NEW asset \in Asset, NEW claimType \in ClaimType, CreateAirdrop(asset, claimType)
    PROVE  IInv'
  <1> DEFINE n == Len(airdropDatas)
             d == [ asset |-> asset, claimType |-> claimType, vrfRequestId |-> 0, nftAllUsers |-> <<>>,
                    nftUserTokenIds |-> [u \in User |-> <<>>], nftTokenClaimeds |-> {},
                    erc1155AirdropTokenIds |-> <<>> ]
             aw == [m \in Nft |-> <<>>]
  <1>1. /\ airdropDatas \in Seq(Airdrops) /\ awards \in Seq([Nft -> Seq(User)]) /\ Len(awards) = n
    BY WorldFields DEF IInv, TypeOK
  <1>2. d \in Airdrops
    BY BoundsAreNat DEF Airdrops
  <1>3. aw \in [Nft -> Seq(User)]
    OBVIOUS
  <1>4. /\ airdropDatas' = Append(airdropDatas, d) /\ awards' = Append(awards, aw)
        /\ ~Open /\ ~Open'
        /\ UNCHANGED <<vrf, pool, claim>>
    BY DEF CreateAirdrop, NonReentrant, Open
  <1>5. AirdropSound(n + 1, d, aw)
    BY DEF AirdropSound, WordsSound, Latest
  <1> HIDE DEF d, aw
  <1>6. /\ airdropDatas' \in Seq(Airdrops) /\ awards' \in Seq([Nft -> Seq(User)])
        /\ Len(airdropDatas') = n + 1 /\ Len(awards') = n + 1
        /\ airdropDatas'[n + 1] = d /\ awards'[n + 1] = aw
        /\ \A b \in Ids(airdropDatas) : airdropDatas'[b] = airdropDatas[b] /\ awards'[b] = awards[b]
    BY <1>1, <1>2, <1>3, <1>4 DEF Ids
  <1>7. Ids(airdropDatas') = Ids(airdropDatas) \cup {n + 1} /\ n \in Nat
    BY <1>1, <1>6 DEF Ids
  <1>8. TypeOK'
    <2>1. nftAirdropToIds' \in [Asset -> 0..Len(airdropDatas')]
      BY <1>1, <1>6 DEF CreateAirdrop, IInv, TypeOK
    <2>2. vrfRequests' \in Seq([coordinator : Coordinator, airdrop : Ids(airdropDatas'), id : RequestId])
      <3> DEFINE R == [coordinator : Coordinator, airdrop : Ids(airdropDatas), id : RequestId]
      <3>1. R \subseteq R'
        BY <1>7
      <3>2. vrfRequests \in Seq(R) /\ vrfRequests' = vrfRequests
        BY <1>4 DEF IInv, TypeOK, vrf
      <3>3. vrfRequests \in Seq(R')
        <4> HIDE DEF R
        <4> QED BY <3>1, <3>2, SeqOfMore
      <3> QED
        BY <3>2, <3>3
    <2> QED
      BY <1>4, <1>6, <2>1, <2>2, WorldFields DEF IInv, TypeOK, World, Worlds, vrf, pool, Open, Ids
  <1>9. Sound(World)'
    <2>1. UNCHANGED <<vrfRequests, vrfAllRandomWords>>
      BY <1>4 DEF vrf
    <2>2. ASSUME NEW b \in Ids(airdropDatas)
          PROVE  AirdropSound(b, airdropDatas[b], awards[b])'
      <3>1. AirdropSound(b, airdropDatas[b], awards[b])
        BY SoundNow DEF IInv
      <3>2. airdropDatas'[b] = airdropDatas[b] /\ awards'[b] = awards[b]
        BY <1>6
      <3> QED
        BY <2>1, <3>1, <3>2 DEF AirdropSound, WordsSound, Latest
    <2>3. ASSUME NEW b \in {n + 1}
          PROVE  AirdropSound(b, airdropDatas[b], awards[b])'
      BY <1>5, <1>6, <2>1 DEF AirdropSound, WordsSound, Latest
    <2>4. WordsSound(vrfAllRandomWords)' /\ Len(awards') = Len(airdropDatas')
      BY <1>6, <2>1, SoundNow DEF IInv, WordsSound, Ids
    <2> QED
      BY <1>7, <2>2, <2>3, <2>4, SoundNext
  <1> QED
    BY <1>4, <1>8, <1>9, FreshKept DEF IInv, vrf

LEMMA RequestKeeps ==
    ASSUME IInv, NEW a \in Ids(airdropDatas), RequestVRFRandomWords(a)
    PROVE  IInv'
  <1> DEFINE n == Len(vrfRequests)
             R == [coordinator : Coordinator, airdrop : Ids(airdropDatas), id : RequestId]
  <1>1. PICK id \in RequestId :
           /\ Fresh(id)
           /\ vrfRequests' = Append(vrfRequests, [coordinator |-> vrfCoordinator, airdrop |-> a, id |-> id])
           /\ airdropDatas' = [airdropDatas EXCEPT ![a].vrfRequestId = id]
    BY DEF RequestVRFRandomWords, NewRequestId
  <1> DEFINE d == [airdropDatas[a] EXCEPT !.vrfRequestId = id]
             r == [coordinator |-> vrfCoordinator, airdrop |-> a, id |-> id]
  <1>2. /\ airdropDatas \in Seq(Airdrops) /\ airdropDatas[a] \in Airdrops
        /\ vrfRequests \in Seq(R) /\ r \in R /\ n \in Nat
    BY WorldFields DEF IInv, TypeOK, Ids
  <1>3. /\ d \in Airdrops /\ d.vrfRequestId = id
        /\ d.claimType = airdropDatas[a].claimType
        /\ d.nftTokenClaimeds = airdropDatas[a].nftTokenClaimeds
    BY <1>2 DEF Airdrops
  <1>4. /\ airdropDatas' = [airdropDatas EXCEPT ![a] = d] /\ vrfRequests' = Append(vrfRequests, r)
        /\ ~Open /\ ~Open'
        /\ UNCHANGED <<nftAirdropToIds, vrfCoordinator, vrfAllRandomWords, pool, awards, claim>>
    BY <1>1 DEF RequestVRFRandomWords, NonReentrant, Open
  <1>5. r.coordinator = vrfCoordinator /\ r.airdrop = a /\ r.id = id
    OBVIOUS
  <1> HIDE DEF d, r
  <1>6. /\ airdropDatas' \in Seq(Airdrops) /\ Len(airdropDatas') = Len(airdropDatas)
        /\ airdropDatas'[a] = d
        /\ \A b \in Ids(airdropDatas) : b # a => airdropDatas'[b] = airdropDatas[b]
    BY <1>2, <1>3, <1>4, DataReplaced
  <1>7. /\ vrfRequests' \in Seq(R) /\ Len(vrfRequests') = n + 1
        /\ vrfRequests'[n + 1] = r
        /\ \A i \in 1..n : vrfRequests'[i] = vrfRequests[i]
    BY <1>2, <1>4, AppendProperties
  <1>8. Ids(vrfRequests) = 1..n /\ Ids(vrfRequests') = 1..(n + 1)
    BY <1>7 DEF Ids
  <1>9. TypeOK'
    <2>1. \A i \in RequestId \cup {0} : vrfAllRandomWords'[i] <= Len(vrfRequests')
      BY <1>2, <1>4, <1>7, WorldFields DEF IInv, TypeOK
    <2>2. vrfRequests' \in Seq([coordinator : Coordinator, airdrop : Ids(airdropDatas'), id : RequestId])
      BY <1>6, <1>7 DEF Ids
    <2> QED
      BY <1>4, <1>6, <2>1, <2>2, WorldFields DEF IInv, TypeOK, World, Worlds, pool, Open, Ids
  <1>10. IdsFresh'
    <2>1. \A i \in 1..n : vrfRequests[i].coordinator = r.coordinator => vrfRequests[i].id # r.id
      BY <1>1, <1>5, <1>8 DEF Fresh
    <2>2. \A i, j \in 1..n : vrfRequests[i].coordinator = vrfRequests[j].coordinator
                            /\ vrfRequests[i].id = vrfRequests[j].id => i = j
      BY <1>8 DEF IInv, IdsFresh
    <2>3. ASSUME NEW i \in 1..(n + 1), NEW j \in 1..(n + 1),
                 vrfRequests'[i].coordinator = vrfRequests'[j].coordinator, vrfRequests'[i].id = vrfRequests'[j].id
          PROVE  i = j
      <3>1. \A k \in 1..(n + 1) : k \in 1..n \/ k = n + 1
        BY <1>2
      <3> QED
        BY <1>7, <2>1, <2>2, <2>3, <3>1
    <2> QED
      BY <1>8, <2>3 DEF IdsFresh
  <1>11. Sound(World)'
    <2>1. ASSUME NEW b \in Ids(airdropDatas)
          PROVE  AirdropSound(b, airdropDatas[b], awards[b])'
      <3>1. AirdropSound(b, airdropDatas[b], awards[b])
        BY SoundNow DEF IInv
      <3>2. /\ awards' = awards
            /\ airdropDatas'[b].nftTokenClaimeds = airdropDatas[b].nftTokenClaimeds
            /\ airdropDatas'[b].vrfRequestId = IF b = a THEN id ELSE airdropDatas[b].vrfRequestId
        BY <1>3, <1>4, <1>6
      <3>3. CASE b = a
        <4>1. PICK k \in 1..(n + 1) : k = n + 1
          BY <1>2
        <4>2. Latest(a, k)' /\ vrfRequests'[k].id = id
          BY <1>2, <1>5, <1>7, <1>8, <4>1 DEF Latest
        <4>3. k \in Ids(vrfRequests')
          BY <1>8, <4>1
        <4> QED
          BY <3>1, <3>2, <3>3, <4>2, <4>3 DEF AirdropSound
      <3>4. ASSUME b # a, NEW k \in Ids(vrfRequests), Latest(b, k), vrfRequests[k].id = airdropDatas[b].vrfRequestId
            PROVE  k \in Ids(vrfRequests') /\ Latest(b, k)' /\ vrfRequests'[k].id = airdropDatas[b].vrfRequestId
        <4>1. \A s \in 1..(n + 1) : s \in 1..n \/ s = n + 1
          BY <1>2
        <4> QED
          BY <1>2, <1>5, <1>7, <1>8, <3>4, <4>1 DEF Latest
      <3>5. CASE b # a
        BY <3>1, <3>2, <3>4, <3>5 DEF AirdropSound
      <3> QED
        BY <3>3, <3>5
    <2>2. WordsSound(vrfAllRandomWords)'
      BY <1>2, <1>4, <1>7, <1>8, SoundNow DEF IInv, WordsSound
    <2> QED
      BY <1>4, <1>6, <2>1, <2>2, SoundNow, SoundNext DEF IInv, Ids
  <1> QED
    BY <1>4, <1>9, <1>10, <1>11 DEF IInv

\* A step that leaves airdrops, requests, payments and the claim alone and
\* stores words under the id they answer keeps the invariant, also while a
\* claim is open.
LEMMA OutsideStep ==
    ASSUME IInv, TypeOK', WordsSound(vrfAllRandomWords)',
           UNCHANGED <<airdropDatas, vrfRequests, awards, claim>>
    PROVE  IInv'
  <1>1. \A a \in Ids(airdropDatas') : AirdropSound(a, airdropDatas[a], awards[a])'
    BY SoundNow DEF IInv, AirdropSound, Latest, Ids
  <1>2. Sound(World)'
    BY <1>1, SoundNow, SoundNext DEF IInv
  <1>3. Open => (Sound(claim.saved) /\ Progress)'
    BY DEF IInv, Sound, AirdropSound, WordsSound, Latest, Progress, PaidSoFar, Passed, List, Data, Ids
  <1> QED
    BY <1>2, <1>3, FreshKept DEF IInv, Open

\* In particular one that leaves the words alone, too.
LEMMA IdleStep ==
    ASSUME IInv, TypeOK', UNCHANGED <<airdropDatas, vrfRequests, vrfAllRandomWords, awards, claim>>
    PROVE  IInv'
  <1>1. WordsSound(vrfAllRandomWords)'
    BY SoundNow DEF IInv, WordsSound, Ids
  <1> QED
    BY <1>1, OutsideStep

LEMMA ConfigureVRFKeeps ==
    ASSUME IInv, NEW c \in Coordinator, ConfigureVRFCoordinator(c)
    PROVE  IInv'
  <1>1. TypeOK'
    BY WorldFields DEF ConfigureVRFCoordinator, IInv, TypeOK, World, Worlds, pool, Open, Ids
  <1> QED
    BY <1>1, IdleStep DEF ConfigureVRFCoordinator

LEMMA FulfillKeeps ==
    ASSUME IInv, NEW r \in Ids(vrfRequests), RawFulfillRandomWords(r)
    PROVE  IInv'
  <1> DEFINE id == vrfRequests[r].id
  <1>1. vrfAllRandomWords' = [vrfAllRandomWords EXCEPT ![id] = r]
    BY DEF RawFulfillRandomWords
  <1>2. /\ vrfAllRandomWords \in [RequestId \cup {0} -> Nat] /\ id \in RequestId
        /\ r \in Nat /\ r <= Len(vrfRequests) /\ UNCHANGED vrfRequests
    <2>1. vrfRequests[r] \in [coordinator : Coordinator, airdrop : Ids(airdropDatas), id : RequestId]
      BY ElementOfSeq DEF IInv, TypeOK, Ids
    <2>2. r \in Nat /\ r <= Len(vrfRequests)
      BY DEF IInv, TypeOK, Ids
    <2> QED
      BY <2>1, <2>2, WorldFields DEF IInv, TypeOK, RawFulfillRandomWords
  <1>3. /\ vrfAllRandomWords' \in [RequestId \cup {0} -> Nat]
        /\ \A i \in RequestId \cup {0} : vrfAllRandomWords'[i] = IF i = id THEN r ELSE vrfAllRandomWords[i]
    BY <1>1, <1>2
  <1>4. TypeOK'
    <2>1. \A i \in RequestId \cup {0} : vrfAllRandomWords'[i] <= Len(vrfRequests')
      BY <1>2, <1>3 DEF IInv, TypeOK
    <2> QED
      BY <1>3, <2>1, WorldFields DEF RawFulfillRandomWords, IInv, TypeOK, World, Worlds, pool, Open, Ids
  <1>5. WordsSound(vrfAllRandomWords)'
    BY <1>2, <1>3, SoundNow DEF IInv, WordsSound, Ids
  <1> QED
    BY <1>4, <1>5, OutsideStep DEF RawFulfillRandomWords

LEMMA PrizeMovesKeeps ==
    ASSUME IInv, NEW x \in Asset721, NEW p \in Nft, NEW to \in User \cup {Dist}, PrizeMoves(x, p, to)
    PROVE  IInv'
  <1>1. TypeOK'
    BY WorldFields DEF PrizeMoves, IInv, TypeOK, World, Worlds, vrf, Open, Ids
  <1> QED
    BY <1>1, IdleStep DEF PrizeMoves, vrf

LEMMA PrizeReturnsKeeps ==
    ASSUME IInv, NEW x \in Asset1155, NEW p \in Prize1155, PrizeReturns(x, p)
    PROVE  IInv'
  <1>1. balance' \in [Asset1155 -> [Prize1155 -> 0..Supply]]
    BY WorldFields, BoundsAreNat DEF PrizeReturns, IInv, TypeOK
  <1>2. TypeOK'
    BY <1>1, WorldFields DEF PrizeReturns, IInv, TypeOK, World, Worlds, vrf, Open, Ids
  <1> QED
    BY <1>2, IdleStep DEF PrizeReturns, vrf
-----------------------------------------------------------------------------
(* Claims. *)

\* The open claim and what it works on.
LEMMA OpenClaim ==
    ASSUME IInv, Open
    PROVE  /\ claim \in Claims /\ claim.user \in User /\ claim.next \in Nat \ {0} /\ claim.saved \in Worlds
           /\ claim.airdrop \in Ids(airdropDatas) /\ claim.airdrop \in Ids(awards)
           /\ Data \in Airdrops /\ List \in Seq(Nft)
           /\ awards[claim.airdrop] \in [Nft -> Seq(User)]
           /\ AirdropSound(claim.airdrop, Data, awards[claim.airdrop])
  <1>1. claim \in Claims
    BY DEF IInv, TypeOK, Open
  <1>2. /\ claim.user \in User /\ claim.next \in Nat \ {0} /\ claim.saved \in Worlds
    BY <1>1 DEF Claims
  <1>3. claim.airdrop \in Ids(airdropDatas) /\ claim.airdrop \in Ids(awards)
    BY DEF IInv, TypeOK, Ids
  <1>4. Data \in Airdrops /\ awards[claim.airdrop] \in [Nft -> Seq(User)]
    BY <1>3, WorldFields DEF IInv, TypeOK, Data, Ids
  <1>5. List \in Seq(Nft)
    BY <1>2, <1>4 DEF Airdrops, List
  <1>6. AirdropSound(claim.airdrop, Data, awards[claim.airdrop])
    BY <1>3, SoundNow DEF IInv, Data
  <1> QED
    BY <1>1, <1>2, <1>3, <1>4, <1>5, <1>6

\* The claim goes on to the next NFT.
LEMMA ClaimGoesOn ==
    ASSUME IInv, Open, claim' = [claim EXCEPT !.next = @ + 1]
    PROVE  /\ claim' \in Claims /\ Open'
           /\ claim'.user = claim.user /\ claim'.airdrop = claim.airdrop
           /\ claim'.saved = claim.saved /\ claim'.next = claim.next + 1
  <1>1. claim \in Claims
    BY OpenClaim
  <1>2. claim' \in Claims
    BY <1>1 DEF Claims
  <1> QED
    BY <1>1, <1>2, NoClaimIsNone DEF Claims, Open

LEMMA ClaimKeeps ==
    ASSUME IInv, NEW a \in Ids(airdropDatas), NEW user \in User, Claim(user, a)
    PROVE  IInv'
  <1>1. /\ claim' = [user |-> user, airdrop |-> a, next |-> 1, saved |-> World]
        /\ UNCHANGED <<airdropDatas, nftAirdropToIds, vrf, pool, awards>>
    BY DEF Claim
  <1>2. claim' \in Claims
    BY <1>1 DEF IInv, TypeOK, Claims, Ids
  <1>3. TypeOK'
    BY <1>1, <1>2, WorldFields DEF IInv, TypeOK, World, Worlds, vrf, pool, Open, Ids
  <1>4. Sound(World)' /\ Sound(claim.saved)'
    BY <1>1, SoundNow, SoundNext DEF IInv, Sound, World, AirdropSound, WordsSound, Latest, Ids, vrf
  <1>5. Progress'
    <2>1. Passed' = {}
      BY <1>1 DEF Passed
    <2>2. claim'.saved.awards = awards /\ awards' = awards
      BY <1>1 DEF World
    <2>3. List' = airdropDatas[a].nftUserTokenIds[user] /\ claim'.next = 1
      BY <1>1 DEF List, Data
    <2>4. airdropDatas[a].nftUserTokenIds[user] \in Seq(Nft)
      <3>1. airdropDatas[a] \in Airdrops
        BY WorldFields DEF IInv, TypeOK, Ids
      <3> QED
        BY <3>1 DEF Airdrops
    <2>5. \A b \in Ids(awards) : awards'[b] = PaidSoFar(b)'
      <3> SUFFICES ASSUME NEW b \in Ids(awards) PROVE awards[b] = PaidSoFar(b)'
        BY <2>2
      <3>1. awards[b] \in [Nft -> Seq(User)]
        BY WorldFields DEF IInv, TypeOK, Ids
      <3>2. awards[b] = [n \in Nft |-> IF n \in {} THEN <<claim'.user>> ELSE awards[b][n]]
        BY <3>1
      <3> QED
        BY <1>1, <2>1, <2>2, <3>2 DEF PaidSoFar
    <2>6. claim'.next <= Len(List') + 1
      BY <2>3, <2>4
    <2> QED
      BY <2>1, <2>2, <2>5, <2>6 DEF Progress, Ids
  <1> QED
    BY <1>1, <1>3, <1>4, <1>5, FreshKept DEF IInv, vrf

LEMMA SkipKeeps ==
    ASSUME IInv, SkipNext
    PROVE  IInv'
  <1>1. /\ Open /\ Data.claimType = FixedDiff /\ claim.next <= Len(List)
        /\ claim' = [claim EXCEPT !.next = @ + 1]
        /\ UNCHANGED <<airdropDatas, nftAirdropToIds, vrf, pool, awards>>
    BY DEF SkipNext, Skips
  <1>2. /\ claim' \in Claims /\ Open'
        /\ claim'.user = claim.user /\ claim'.airdrop = claim.airdrop
        /\ claim'.saved = claim.saved /\ claim'.next = claim.next + 1
        /\ claim.next \in Nat /\ List \in Seq(Nft)
    BY <1>1, ClaimGoesOn, OpenClaim
  <1>3. TypeOK'
    BY <1>1, <1>2, WorldFields DEF IInv, TypeOK, World, Worlds, vrf, pool, Open, Ids
  <1>4. Sound(World)'
    BY <1>1, SoundNow, SoundNext DEF IInv, AirdropSound, WordsSound, Latest, Ids, vrf
  <1>5. Sound(claim.saved)'
    BY <1>1, <1>2 DEF IInv, Sound, AirdropSound, WordsSound, Latest, Ids, vrf
  <1>6. Progress'
    <2>1. Data' = Data /\ List' = List
      BY <1>1, <1>2 DEF Data, List
    <2>2. \A b \in Ids(awards) : PaidSoFar(b)' = PaidSoFar(b)
      BY <1>1, <1>2, <2>1 DEF PaidSoFar
    <2> QED
      BY <1>1, <1>2, <2>1, <2>2 DEF IInv, Progress, Ids
  <1> QED
    BY <1>1, <1>3, <1>4, <1>5, <1>6, FreshKept DEF IInv, vrf

LEMMA ClaimEndsKeeps ==
    ASSUME IInv, ClaimEnds
    PROVE  IInv'
  <1>1. ~Open' /\ claim' = NoClaim /\ UNCHANGED <<airdropDatas, nftAirdropToIds, vrf, pool, awards>>
    BY DEF ClaimEnds, Open
  <1>2. TypeOK'
    BY <1>1, WorldFields DEF IInv, TypeOK, World, Worlds, vrf, pool, Ids
  <1>3. Sound(World)'
    BY <1>1, SoundNow, SoundNext DEF IInv, AirdropSound, WordsSound, Latest, Ids, vrf
  <1> QED
    BY <1>1, <1>2, <1>3, FreshKept DEF IInv, vrf

LEMMA ClaimRevertsKeeps ==
    ASSUME IInv, ClaimReverts
    PROVE  IInv'
  <1>1. /\ Open /\ ~Open' /\ claim' = NoClaim
        /\ World' = claim.saved
        /\ UNCHANGED <<nftAirdropToIds, vrfCoordinator, vrfRequests>>
    <2>1. claim.saved \in Worlds
      BY OpenClaim DEF ClaimReverts
    <2> QED
      BY <2>1 DEF ClaimReverts, Open, World, Worlds
  <1>2. (World \in Worlds)' /\ Sound(claim.saved)
    BY <1>1, OpenClaim DEF IInv
  <1>3. Sound(World)'
    <2>1. /\ airdropDatas' = claim.saved.airdropDatas /\ awards' = claim.saved.awards
          /\ vrfAllRandomWords' = claim.saved.words
      BY DEF ClaimReverts
    <2> QED
      BY <1>1, <1>2, <2>1, SoundNext DEF Sound, AirdropSound, WordsSound, Latest, Ids
  <1>4. Len(awards') = Len(airdropDatas') /\ Len(airdropDatas') = Len(airdropDatas)
    BY <1>1, <1>3, SoundNext, SoundNow DEF IInv, Progress, ClaimReverts
  <1>5. \A id \in RequestId \cup {0} : vrfAllRandomWords'[id] <= Len(vrfRequests')
    <2>1. WordsSound(vrfAllRandomWords)' /\ Len(vrfRequests') \in Nat
      BY <1>1, <1>3, SoundNext DEF IInv, TypeOK
    <2> QED
      BY <2>1 DEF WordsSound, Ids
  <1>6. TypeOK'
    BY <1>1, <1>2, <1>3, <1>4, <1>5, SoundNext DEF IInv, TypeOK, Ids
  <1> QED
    BY <1>1, <1>3, <1>6, FreshKept DEF IInv, vrf

\* What is paid for next: an NFT of the list that is not marked, for a prize
\* that is there, and for a random prize with the words that were asked for.
LEMMA Pays ==
    ASSUME IInv, PayNext
    PROVE  LET a   == claim.airdrop
               nft == List[claim.next]
               d   == [Data EXCEPT !.nftTokenClaimeds = @ \cup {nft}]
               aw  == [awards[a] EXCEPT ![nft] = <<claim.user>>]
           IN  /\ nft \in Nft /\ nft \notin Data.nftTokenClaimeds
               /\ awards[a][nft] = <<>>
               /\ Data.claimType # FixedDiff
               /\ Data.claimType = Random => HasRandomWord(Data)
               /\ d \in Airdrops /\ aw \in [Nft -> Seq(User)]
               /\ airdropDatas' = [airdropDatas EXCEPT ![a] = d]
               /\ awards' = [awards EXCEPT ![a] = aw]
               /\ prizeOwner' \in [Asset721 -> [Nft -> User \cup {Dist}]]
               /\ balance' \in [Asset1155 -> [Prize1155 -> 0..Supply]]
  <1> DEFINE a   == claim.airdrop
             nft == List[claim.next]
             x   == Data.asset
             d   == [Data EXCEPT !.nftTokenClaimeds = @ \cup {nft}]
             aw  == [awards[a] EXCEPT ![nft] = <<claim.user>>]
             Prizes == IF x \in Asset721 THEN Payable721(Data, nft) ELSE Payable1155(Data)
  <1>1. /\ Open /\ claim.next <= Len(List) /\ claim.next \in Nat \ {0} /\ List \in Seq(Nft)
        /\ claim.user \in User /\ Data \in Airdrops /\ a \in Ids(airdropDatas) /\ a \in Ids(awards)
        /\ awards[a] \in [Nft -> Seq(User)]
        /\ AirdropSound(a, Data, awards[a])
    BY OpenClaim DEF PayNext
  <1>2. nft \in Nft /\ nft \notin Data.nftTokenClaimeds
    BY <1>1 DEF PayNext, Unclaimed
  <1>3. awards[a][nft] = <<>>
    <2>1. Len(awards[a][nft]) = 0 /\ awards[a][nft] \in Seq(User)
      BY <1>1, <1>2 DEF AirdropSound, WordsSound, Latest
    <2> QED
      BY <2>1
  <1>4. PICK p \in Prizes :
             /\ airdropDatas' = [airdropDatas EXCEPT ![a].nftTokenClaimeds = Marked(nft, p)]
             /\ prizeOwner' = IF x \in Asset721 THEN [prizeOwner EXCEPT ![x][p] = claim.user] ELSE prizeOwner
             /\ balance' = IF x \in Asset1155 THEN [balance EXCEPT ![x][p] = @ - 1] ELSE balance
    BY DEF PayNext
  <1>5. Data.claimType # FixedDiff /\ (Data.claimType = Random => HasRandomWord(Data))
    BY <1>4 DEF Payable721, Payable1155, FixedSame, FixedDiff, Random
  <1>6. d \in Airdrops
    BY <1>1, <1>2 DEF Airdrops
  <1>7. aw \in [Nft -> Seq(User)]
    BY <1>1
  <1>8. airdropDatas' = [airdropDatas EXCEPT ![a] = d]
    BY <1>1, <1>4 DEF Marked, Data, Ids
  <1>9. awards' = [awards EXCEPT ![a] = aw]
    <2>1. awards' = [awards EXCEPT ![a][nft] = Append(@, claim.user)]
      BY DEF PayNext
    <2>2. Append(awards[a][nft], claim.user) = <<claim.user>>
      BY <1>3
    <2> QED
      BY <2>1, <2>2
  <1>10. prizeOwner' \in [Asset721 -> [Nft -> User \cup {Dist}]]
    <2>1. x \in Asset721 => p \in Nft
      BY <1>4 DEF Payable721
    <2> QED
      BY <1>1, <1>4, <2>1, WorldFields DEF IInv, TypeOK
  <1>11. balance' \in [Asset1155 -> [Prize1155 -> 0..Supply]]
    <2>1. x \in Asset1155 => p \in Prize1155 /\ balance[x][p] > 0
      <3>1. x \in Asset1155 => p \in Payable1155(Data)
        BY <1>4, HoldersDistinct
      <3>2. Data.erc1155AirdropTokenIds \in Seq(Prize1155)
        BY <1>1 DEF Airdrops
      <3> QED
        BY <3>1, <3>2 DEF Payable1155, Ids
    <2>2. balance \in [Asset1155 -> [Prize1155 -> 0..Supply]] /\ Supply \in Nat
      BY WorldFields, BoundsAreNat DEF IInv, TypeOK
    <2>3. x \in Asset1155 => balance[x][p] - 1 \in 0..Supply
      BY <2>1, <2>2
    <2> QED
      BY <1>4, <2>1, <2>2, <2>3
  <1> QED
    BY <1>2, <1>3, <1>5, <1>6, <1>7, <1>8, <1>9, <1>10, <1>11

LEMMA PayKeeps ==
    ASSUME IInv, PayNext
    PROVE  IInv'
  <1> DEFINE a   == claim.airdrop
             nft == List[claim.next]
             d   == [Data EXCEPT !.nftTokenClaimeds = @ \cup {nft}]
             aw  == [awards[a] EXCEPT ![nft] = <<claim.user>>]
  <1>1. /\ nft \in Nft /\ nft \notin Data.nftTokenClaimeds /\ awards[a][nft] = <<>>
        /\ Data.claimType # FixedDiff
        /\ Data.claimType = Random => HasRandomWord(Data)
        /\ d \in Airdrops /\ aw \in [Nft -> Seq(User)]
        /\ airdropDatas' = [airdropDatas EXCEPT ![a] = d]
        /\ awards' = [awards EXCEPT ![a] = aw]
    BY Pays
  <1>2. /\ Open /\ claim.next <= Len(List) /\ claim' = [claim EXCEPT !.next = @ + 1]
        /\ UNCHANGED <<nftAirdropToIds, vrf>>
    BY DEF PayNext
  <1>3. /\ claim' \in Claims /\ Open'
        /\ claim'.user = claim.user /\ claim'.airdrop = a
        /\ claim'.saved = claim.saved /\ claim'.next = claim.next + 1
    BY <1>2, ClaimGoesOn
  <1>4. /\ claim.next \in Nat \ {0} /\ List \in Seq(Nft) /\ Data \in Airdrops /\ claim.user \in User
        /\ awards[a] \in [Nft -> Seq(User)]
        /\ a \in Ids(airdropDatas) /\ a \in Ids(awards)
        /\ AirdropSound(a, Data, awards[a])
    BY <1>2, OpenClaim
  <1>5. /\ d.claimType = Data.claimType /\ d.vrfRequestId = Data.vrfRequestId
        /\ d.nftTokenClaimeds = Data.nftTokenClaimeds \cup {nft}
        /\ d.nftUserTokenIds = Data.nftUserTokenIds
    BY <1>4 DEF Airdrops
  <1>6. aw[nft] = <<claim.user>> /\ \A n \in Nft : n # nft => aw[n] = awards[a][n]
    BY <1>1, <1>4
  <1> HIDE DEF d, aw
  <1>7. /\ airdropDatas' \in Seq(Airdrops) /\ Len(airdropDatas') = Len(airdropDatas)
        /\ airdropDatas'[a] = d
        /\ \A b \in Ids(airdropDatas) : b # a => airdropDatas'[b] = airdropDatas[b]
    BY <1>1, <1>4, DataReplaced, WorldFields DEF IInv, TypeOK
  <1>8. /\ awards' \in Seq([Nft -> Seq(User)]) /\ Len(awards') = Len(awards)
        /\ awards'[a] = aw
        /\ \A b \in Ids(awards) : b # a => awards'[b] = awards[b]
    BY <1>1, <1>4, DataReplaced, WorldFields DEF IInv, TypeOK
  <1>9. TypeOK'
    BY <1>2, <1>3, <1>4, <1>7, <1>8, Pays, WorldFields DEF IInv, TypeOK, World, Worlds, vrf, Ids
  <1>10. Sound(World)'
    <2>1. UNCHANGED <<vrfRequests, vrfAllRandomWords>>
      BY <1>2 DEF vrf
    <2>2. ASSUME NEW b \in Ids(airdropDatas), b # a
          PROVE  AirdropSound(b, airdropDatas[b], awards[b])'
      <3>1. AirdropSound(b, airdropDatas[b], awards[b])
        BY SoundNow DEF IInv
      <3>2. airdropDatas'[b] = airdropDatas[b] /\ awards'[b] = awards[b]
        BY <1>7, <1>8, <2>2 DEF IInv, TypeOK, Ids
      <3> QED
        BY <2>1, <3>1, <3>2 DEF AirdropSound, WordsSound, Latest
    <2>3. ASSUME NEW b \in Ids(airdropDatas), b = a
          PROVE  AirdropSound(b, airdropDatas[b], awards[b])'
      <3>1. ASSUME NEW n \in Nft PROVE Len(aw[n]) = IF n \in d.nftTokenClaimeds THEN 1 ELSE 0
        <4>1. CASE n = nft
          <5>1. Len(<<claim.user>>) = 1
            OBVIOUS
          <5> QED
            BY <1>5, <1>6, <4>1, <5>1
        <4>2. CASE n # nft
          BY <1>4, <1>5, <1>6, <4>2 DEF AirdropSound, WordsSound, Latest
        <4> QED
          BY <4>1, <4>2
      <3>3. airdropDatas'[b] = d /\ awards'[b] = aw
        BY <1>7, <1>8, <2>3
      <3>4. d.vrfRequestId = Data.vrfRequestId /\ AirdropSound(a, Data, awards[a])
        BY <1>4, <1>5
      <3> QED
        BY <2>1, <2>3, <3>1, <3>3, <3>4 DEF AirdropSound, Latest
    <2>4. WordsSound(vrfAllRandomWords)' /\ Len(awards') = Len(airdropDatas')
      BY <1>7, <1>8, <2>1, SoundNow DEF IInv, WordsSound, Ids
    <2>5. \A b \in Ids(airdropDatas') : AirdropSound(b, airdropDatas[b], awards[b])'
      BY <1>7, <2>2, <2>3 DEF Ids
    <2> QED
      BY <2>4, <2>5, SoundNext
  <1>11. Sound(claim.saved)'
    BY <1>2, <1>3 DEF IInv, Sound, AirdropSound, WordsSound, Latest, Ids, vrf
  <1>12. Progress'
    <2>1. Data' = d
      BY <1>3, <1>7 DEF Data
    <2>2. List' = List
      BY <1>3, <1>5, <2>1 DEF List
    <2>3. Passed' = Passed \cup {nft}
      <3>1. 1..(claim'.next - 1) = (1..(claim.next - 1)) \cup {claim.next}
        BY <1>3, <1>4
      <3> QED
        BY <2>2, <3>1 DEF Passed
    <2>4. awards[a] = [n \in Nft |-> IF n \in Passed THEN <<claim.user>> ELSE claim.saved.awards[a][n]]
      BY <1>1, <1>2, <1>4 DEF IInv, Progress, PaidSoFar
    <2>5. nft \notin Passed /\ claim.saved.awards[a][nft] = <<>>
      <3>1. <<claim.user>> # <<>>
        OBVIOUS
      <3> QED
        BY <1>1, <2>4, <3>1
    <2>6. \A n \in Passed' : claim'.saved.awards[claim'.airdrop][n] = <<>>
      BY <1>1, <1>2, <1>3, <2>3, <2>5 DEF IInv, Progress
    <2>7. aw = [n \in Nft |-> IF n \in Passed' THEN <<claim'.user>> ELSE claim'.saved.awards[a][n]]
      BY <1>1, <1>3, <2>3, <2>4 DEF aw
    <2>8. ASSUME NEW b \in Ids(awards) PROVE awards'[b] = PaidSoFar(b)'
      <3>1. CASE b = a
        BY <1>1, <1>3, <1>5, <1>8, <2>1, <2>7, <3>1 DEF PaidSoFar
      <3>2. CASE b # a
        <4>1. awards[b] = claim.saved.awards[b]
          BY <1>2, <3>2 DEF IInv, Progress, PaidSoFar
        <4> QED
          BY <1>3, <1>8, <3>2, <4>1 DEF PaidSoFar
      <3> QED
        BY <3>1, <3>2
    <2>9. claim'.next <= Len(List') + 1
      BY <1>2, <1>3, <1>4, <2>2
    <2> QED
      BY <1>2, <1>3, <1>8, <2>6, <2>8, <2>9 DEF IInv, Progress, Ids
  <1> QED
    BY <1>2, <1>9, <1>10, <1>11, <1>12, FreshKept DEF IInv, vrf
-----------------------------------------------------------------------------
(* Theorems. *)

LEMMA Initially == Init => IInv
  <1> SUFFICES ASSUME Init PROVE IInv
    OBVIOUS
  <1>1. Len(airdropDatas) = 0 /\ Len(awards) = 0 /\ ~Open
    BY EmptySeq DEF Init, Open
  <1>2. Ids(airdropDatas) = {}
    BY <1>1 DEF Ids
  <1>3. TypeOK
    <2>1. nftAirdropToIds \in [Asset -> 0..Len(airdropDatas)]
      BY <1>1 DEF Init
    <2>2. balance \in [Asset1155 -> [Prize1155 -> 0..Supply]]
      BY BoundsAreNat DEF Init
    <2> QED
      BY <1>1, <2>1, <2>2, EmptySeq, WorldFields DEF Init, TypeOK, Ids, Open
  <1>4. Sound(World)
    BY <1>1, <1>2, SoundNow DEF Init, WordsSound
  <1>5. IdsFresh
    BY EmptySeq DEF Init, IdsFresh, Ids
  <1> QED
    BY <1>1, <1>3, <1>4, <1>5 DEF IInv

LEMMA Inductive == IInv /\ [Next]_vars => IInv'
  <1> SUFFICES ASSUME IInv, [Next]_vars PROVE IInv'
    OBVIOUS
  <1>1. ASSUME NEW a \in Ids(airdropDatas), OwnerCall(a) PROVE IInv'
    <2>1. ASSUME NEW ids \in {<<>>} \cup {<<p>> : p \in Prize1155} \cup (Prize1155 \X Prize1155)
          PROVE  ids \in Seq(Prize1155)
      <3>1. CASE ids = <<>>
        BY <3>1
      <3>2. ASSUME NEW p \in Prize1155, ids = <<p>> PROVE ids \in Seq(Prize1155)
        BY <3>2
      <3>3. ASSUME NEW p \in Prize1155, NEW q \in Prize1155, ids = <<p, q>> PROVE ids \in Seq(Prize1155)
        BY <3>3
      <3> QED
        BY <3>1, <3>2, <3>3
    <2> QED
      BY <1>1, <2>1, RequestKeeps, ClearUserKeeps, ConfigureUserKeeps, ConfigureERC1155Keeps DEF OwnerCall
  <1>2. CASE UNCHANGED vars
    <2>1. TypeOK'
      BY <1>2, WorldFields DEF vars, vrf, pool, IInv, TypeOK, World, Worlds, Open, Ids
    <2> QED
      BY <1>2, <2>1, IdleStep DEF vars, vrf
  <1> QED
    BY <1>1, <1>2, CreateAirdropKeeps, ClaimKeeps, ConfigureVRFKeeps, FulfillKeeps, PayKeeps, SkipKeeps,
       ClaimEndsKeeps, ClaimRevertsKeeps, PrizeMovesKeeps, PrizeReturnsKeeps DEF Next

THEOREM Invariance == Spec => []IInv
  BY Initially, Inductive, PTL DEF Spec

\* Every variable has its type in every reachable state, the state an open
\* claim has saved included, for any users, NFTs, prizes and bounds
\* (AirdropDistribution.sol:47-80).
THEOREM TypeCorrect == Spec => []TypeOK
  BY Invariance, PTL DEF IInv

\* No airdrop pays twice for an NFT, and isNftTokenClaimed answers exactly for
\* the NFTs that were paid for (AirdropDistribution.sol:260-265, 318, 340).
THEOREM PaidOnceCorrect == Spec => []PaidOnce
  <1>1. IInv => PaidOnce
    BY SoundNow DEF IInv, PaidOnce, AirdropSound, Ids
  <1> QED
    BY <1>1, Invariance, PTL

\* What one step does to the payments the chain will remember.
AllOrNothingStep ==
    \A a \in Ids(Committed) : Committed'[a] # Committed[a] =>
        \E user \in User : LET l == airdropDatas[a].nftUserTokenIds[user] IN
            /\ \A i \in Ids(l) : Committed[a][l[i]] = <<>>
            /\ Committed'[a] = [n \in Nft |-> IF \E i \in Ids(l) : l[i] = n THEN <<user>> ELSE Committed[a][n]]

\* Only a claim that ends well changes what is remembered, and by then it has
\* been through its whole list.
LEMMA EndPaysAll ==
    ASSUME IInv, ClaimEnds
    PROVE  AllOrNothingStep
  <1>1. Open /\ ~Open' /\ claim.next > Len(List) /\ awards' = awards
    BY DEF ClaimEnds, Open
  <1>2. Committed = claim.saved.awards /\ Committed' = awards /\ Len(Committed) = Len(awards)
    BY <1>1 DEF Committed, IInv, Progress
  <1>3. List \in Seq(Nft) /\ claim.next \in Nat \ {0} /\ claim.user \in User
    BY <1>1, OpenClaim
  <1>4. claim.next = Len(List) + 1
    BY <1>1, <1>3 DEF IInv, Progress
  <1>5. Passed = {List[i] : i \in Ids(List)}
    BY <1>3, <1>4 DEF Passed, Ids
  <1> SUFFICES ASSUME NEW a \in Ids(Committed), Committed'[a] # Committed[a]
               PROVE  \E user \in User : LET l == airdropDatas[a].nftUserTokenIds[user] IN
                        /\ \A i \in Ids(l) : Committed[a][l[i]] = <<>>
                        /\ Committed'[a] = [n \in Nft |-> IF \E i \in Ids(l) : l[i] = n THEN <<user>>
                                                          ELSE Committed[a][n]]
    BY DEF AllOrNothingStep
  <1>6. a \in Ids(awards) /\ awards[a] # claim.saved.awards[a]
    BY <1>2 DEF Ids
  <1>7. awards[a] = PaidSoFar(a)
    BY <1>1, <1>6 DEF IInv, Progress
  <1>8. a = claim.airdrop /\ Data.claimType # FixedDiff
    BY <1>6, <1>7 DEF PaidSoFar
  <1>9. List = airdropDatas[a].nftUserTokenIds[claim.user]
    BY <1>8 DEF List, Data
  <1>10. \A i \in Ids(List) : Committed[a][List[i]] = <<>>
    BY <1>1, <1>2, <1>5, <1>8 DEF IInv, Progress
  <1>11. Committed'[a] = [n \in Nft |-> IF \E i \in Ids(List) : List[i] = n THEN <<claim.user>>
                                        ELSE Committed[a][n]]
    BY <1>2, <1>5, <1>7, <1>8 DEF PaidSoFar
  <1> QED
    BY <1>3, <1>9, <1>10, <1>11

LEMMA AllOrNothingStepwise == IInv /\ IInv' /\ [Next]_vars => AllOrNothingStep \/ UNCHANGED vars
  <1> SUFFICES ASSUME IInv, Next PROVE AllOrNothingStep
    OBVIOUS
  <1>1. ASSUME Committed' = Committed PROVE AllOrNothingStep
    BY <1>1 DEF AllOrNothingStep
  <1>2. ASSUME UNCHANGED <<awards, claim>> PROVE AllOrNothingStep
    BY <1>1, <1>2 DEF Committed, Open
  <1>3. ASSUME NEW asset \in Asset, NEW claimType \in ClaimType, CreateAirdrop(asset, claimType)
        PROVE  AllOrNothingStep
    <2>1. Committed = awards /\ Committed' = Append(awards, [n \in Nft |-> <<>>])
      BY <1>3 DEF CreateAirdrop, NonReentrant, Committed, Open
    <2>2. \A a \in Ids(awards) : Append(awards, [n \in Nft |-> <<>>])[a] = awards[a]
      BY WorldFields DEF IInv, TypeOK, Ids
    <2> QED
      BY <2>1, <2>2 DEF AllOrNothingStep
  <1>4. ASSUME NEW a \in Ids(airdropDatas), NEW user \in User, Claim(user, a) PROVE AllOrNothingStep
    <2>1. Committed' = Committed
      <3>1. ~Open /\ awards' = awards
        BY <1>4 DEF Claim, NonReentrant, Open
      <3>2. claim'.saved.awards = awards
        BY <1>4 DEF Claim, World
      <3> QED
        BY <3>1, <3>2 DEF Committed
    <2> QED
      BY <1>1, <2>1
  <1>5. ASSUME PayNext \/ SkipNext PROVE AllOrNothingStep
    <2>1. Open /\ claim' = [claim EXCEPT !.next = @ + 1]
      BY <1>5 DEF PayNext, SkipNext
    <2>2. Committed' = Committed
      BY <2>1, ClaimGoesOn DEF Committed
    <2> QED
      BY <1>1, <2>2
  <1>6. CASE ClaimReverts
    <2>1. Committed' = Committed
      BY <1>6 DEF ClaimReverts, Committed, Open
    <2> QED
      BY <1>1, <2>1
  <1>7. ASSUME NEW a \in Ids(airdropDatas), OwnerCall(a) PROVE AllOrNothingStep
    BY <1>2, <1>7 DEF OwnerCall, RequestVRFRandomWords, ClearNftUserTokenIds, ConfigureNftUserTokenIds,
                      ConfigureERC1155
  <1>8. CASE \E c \in Coordinator : ConfigureVRFCoordinator(c)
    BY <1>2, <1>8 DEF ConfigureVRFCoordinator
  <1>9. CASE \E r \in Ids(vrfRequests) : RawFulfillRandomWords(r)
    BY <1>2, <1>9 DEF RawFulfillRandomWords
  <1>10. CASE \/ \E x \in Asset721, p \in Nft, to \in User \cup {Dist} : PrizeMoves(x, p, to)
              \/ \E x \in Asset1155, p \in Prize1155 : PrizeReturns(x, p)
    BY <1>2, <1>10 DEF PrizeMoves, PrizeReturns
  <1> QED
    BY <1>3, <1>4, <1>5, <1>6, <1>7, <1>8, <1>9, <1>10, EndPaysAll DEF Next

\* A claim pays for all NFTs listed for its user or for none, whatever the
\* user's hooks and the coordinator do in between
\* (AirdropDistribution.sol:316-346, 361-408).
THEOREM ClaimsAllOrNothing == Spec => AllOrNothing
  <1>1. IInv /\ [Next]_vars => [AllOrNothingStep]_vars
    BY Inductive, AllOrNothingStepwise DEF vars
  <1> QED
    BY <1>1, Invariance, PTL DEF Spec, AllOrNothing, AllOrNothingStep

\* What one step pays, and by which words.
DrawnStep ==
    \A a \in Ids(awards) :
        airdropDatas[a].claimType = Random /\ (\E n \in Nft : Len(awards'[a][n]) > Len(awards[a][n])) =>
            LET w == vrfAllRandomWords[airdropDatas[a].vrfRequestId]
            IN  /\ w # 0
                /\ \E r \in Ids(vrfRequests) :
                     /\ Latest(a, r)
                     /\ vrfRequests[w].id = vrfRequests[r].id
                     /\ w # r => vrfRequests[w].coordinator # vrfRequests[r].coordinator

\* A payment needs words under the id in force; they answer a request of that
\* id, and no coordinator gave it twice.
LEMMA PayDraws ==
    ASSUME IInv, PayNext
    PROVE  DrawnStep
  <1> SUFFICES ASSUME NEW a \in Ids(awards), airdropDatas[a].claimType = Random,
                      NEW n \in Nft, Len(awards'[a][n]) > Len(awards[a][n])
               PROVE  LET w == vrfAllRandomWords[airdropDatas[a].vrfRequestId]
                      IN  /\ w # 0
                          /\ \E r \in Ids(vrfRequests) :
                               /\ Latest(a, r)
                               /\ vrfRequests[w].id = vrfRequests[r].id
                               /\ w # r => vrfRequests[w].coordinator # vrfRequests[r].coordinator
    BY DEF DrawnStep
  <1> DEFINE id == airdropDatas[a].vrfRequestId
             w  == vrfAllRandomWords[id]
  <1>1. awards \in Seq([Nft -> Seq(User)]) /\ awards[a] \in [Nft -> Seq(User)]
    BY WorldFields DEF IInv, TypeOK, Ids
  <1>2. a = claim.airdrop
    <2>1. PICK f : awards' = [awards EXCEPT ![claim.airdrop] = f]
      BY Pays
    <2>2. a # claim.airdrop => awards'[a] = awards[a]
      BY <1>1, <2>1 DEF Ids
    <2>3. Len(awards[a][n]) \in Nat
      BY <1>1
    <2> QED
      BY <2>2, <2>3
  <1>3. HasRandomWord(Data) /\ Data = airdropDatas[a] /\ Data \in Airdrops
    BY <1>2, Pays, OpenClaim DEF Data, PayNext
  <1>4. id # 0 /\ w # 0 /\ id \in RequestId \cup {0}
    BY <1>3 DEF HasRandomWord, Airdrops
  <1>5. w \in Ids(vrfRequests) /\ vrfRequests[w].id = id
    BY <1>4, SoundNow DEF IInv, WordsSound
  <1>6. PICK r \in Ids(vrfRequests) : Latest(a, r) /\ vrfRequests[r].id = id
    BY <1>2, <1>3, <1>4, OpenClaim DEF PayNext, AirdropSound
  <1>7. w # r => vrfRequests[w].coordinator # vrfRequests[r].coordinator
    BY <1>5, <1>6 DEF IInv, IdsFresh
  <1> QED
    BY <1>4, <1>5, <1>6, <1>7

\* A claim that reverts gives payments back and makes none.
LEMMA RevertDraws ==
    ASSUME IInv, ClaimReverts
    PROVE  DrawnStep
  <1>1. Open /\ awards' = claim.saved.awards
    BY DEF ClaimReverts
  <1>2. ASSUME NEW a \in Ids(awards), NEW n \in Nft PROVE ~(Len(awards'[a][n]) > Len(awards[a][n]))
    <2>1. awards[a] = PaidSoFar(a) /\ Progress
      BY <1>1 DEF IInv, Progress
    <2>2. awards[a] \in [Nft -> Seq(User)] /\ Len(awards[a][n]) \in Nat
      BY WorldFields DEF IInv, TypeOK, Ids
    <2>3. CASE awards[a] = claim.saved.awards[a]
      BY <1>1, <2>2, <2>3
    <2>4. CASE awards[a] # claim.saved.awards[a]
      <3>1. /\ a = claim.airdrop /\ Data.claimType # FixedDiff
            /\ awards[a][n] = IF n \in Passed THEN <<claim.user>> ELSE claim.saved.awards[a][n]
        BY <2>1, <2>4 DEF PaidSoFar
      <3>2. n \in Passed => claim.saved.awards[a][n] = <<>>
        BY <2>1, <3>1 DEF Progress
      <3>3. CASE n \in Passed
        <4>1. Len(awards'[a][n]) = 0
          BY <1>1, <3>2, <3>3
        <4> QED
          BY <2>2, <4>1
      <3>4. CASE n \notin Passed
        BY <1>1, <2>2, <3>1, <3>4
      <3> QED
        BY <3>3, <3>4
    <2> QED
      BY <2>3, <2>4
  <1> QED
    BY <1>2 DEF DrawnStep

LEMMA DrawnStepwise == IInv /\ [Next]_vars => DrawnStep \/ UNCHANGED vars
  <1> SUFFICES ASSUME IInv, Next PROVE DrawnStep
    OBVIOUS
  <1>1. awards \in Seq([Nft -> Seq(User)])
    BY WorldFields DEF IInv, TypeOK
  <1>2. ASSUME \A a \in Ids(awards) : awards'[a] = awards[a] PROVE DrawnStep
    <2>1. \A a \in Ids(awards), n \in Nft : Len(awards[a][n]) \in Nat
      BY <1>1 DEF Ids
    <2> QED
      BY <1>2, <2>1 DEF DrawnStep
  <1>3. ASSUME UNCHANGED awards PROVE DrawnStep
    BY <1>2, <1>3
  <1>4. ASSUME NEW asset \in Asset, NEW claimType \in ClaimType, CreateAirdrop(asset, claimType)
        PROVE  DrawnStep
    <2>1. awards' = Append(awards, [n \in Nft |-> <<>>])
      BY <1>4 DEF CreateAirdrop
    <2>2. \A a \in Ids(awards) : awards'[a] = awards[a]
      BY <1>1, <2>1 DEF Ids
    <2> QED
      BY <1>2, <2>2
  <1>5. ASSUME NEW a \in Ids(airdropDatas), OwnerCall(a) \/ \E user \in User : Claim(user, a)
        PROVE  DrawnStep
    BY <1>3, <1>5 DEF OwnerCall, RequestVRFRandomWords, ClearNftUserTokenIds, ConfigureNftUserTokenIds,
                      ConfigureERC1155, Claim
  <1>6. ASSUME \/ \E c \in Coordinator : ConfigureVRFCoordinator(c)
               \/ \E r \in Ids(vrfRequests) : RawFulfillRandomWords(r)
               \/ SkipNext \/ ClaimEnds
        PROVE  DrawnStep
    BY <1>3, <1>6 DEF ConfigureVRFCoordinator, RawFulfillRandomWords, SkipNext, ClaimEnds
  <1>7. CASE \/ \E x \in Asset721, p \in Nft, to \in User \cup {Dist} : PrizeMoves(x, p, to)
             \/ \E x \in Asset1155, p \in Prize1155 : PrizeReturns(x, p)
    BY <1>3, <1>7 DEF PrizeMoves, PrizeReturns
  <1> QED
    BY <1>4, <1>5, <1>6, <1>7, PayDraws, RevertDraws DEF Next

\* A random payment draws by the answer to the latest request made for its
\* airdrop, unless two coordinators gave that id, whatever is requested again,
\* answered late or twice, or reverted (AirdropDistribution.sol:145-168,
\* 215-231, 417-422).
THEOREM DrawnByOwn == Spec => DrawnByOwnWords
  <1>1. IInv /\ [Next]_vars => [DrawnStep]_vars
    BY DrawnStepwise DEF vars
  <1> QED
    BY <1>1, Invariance, PTL DEF Spec, DrawnByOwnWords, DrawnStep
=============================================================================

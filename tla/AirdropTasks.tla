---------------------------- MODULE AirdropTasks ----------------------------
(***************************************************************************)
(* The hardhat tasks an operator collects and distributes airdrops with    *)
(* (src/tasks/misc, full/airdrop.ts, dev/mock_airdrop.ts).  A task reads   *)
(* the chain call by call while NFTs move, are bound and are redeemed; a   *)
(* read may fail; some failures are retried and then skipped, others end   *)
(* the task, which is then run again.  A transaction is sent in one step   *)
(* and mined in another, in the order of the operator's nonces: what a     *)
(* killed task sent is still mined.                                        *)
(*                                                                         *)
(* The collection and its bNFT are enumerable: the tokens of an owner are  *)
(* a sequence, a new one comes last, and the last takes the place of one   *)
(* that leaves.  The airdrop project gives one prize per NFT, once; prizes *)
(* are counted by kind: one kind for an ERC-20, one per NFT for an         *)
(* ERC-721, one per group of NFTs for an ERC-1155.                         *)
(***************************************************************************)
EXTENDS Integers, Sequences, FiniteSets, SequencesExt

CONSTANTS Token,         \* token ids
          User, Bnft,
          Deployer,      \* the user the tasks sign as
          TokenType,     \* kinds of prize: subset of {"erc20", "erc721", "erc1155"}
          IdLists,       \* the ids parameters the operator types
          MaxEvents      \* bound: failed reads, killed tasks and what others do

ASSUME TokenAssumption == Token \subseteq Nat /\ IsFiniteSet(Token)
ASSUME UserAssumption == Deployer \in User /\ Bnft \notin User
ASSUME TokenTypeAssumption == TokenType \subseteq {"erc20", "erc721", "erc1155"}
\* A parameter split at its commas has an id at least; the ids typed are the collection's.
ASSUME IdListsAssumption == IdLists \subseteq Seq(Token) \ {<<>>}

VARIABLES native,        \* [User \cup {Bnft} -> Seq(Token)]: the collection
          bnft,          \* [User -> Seq(Token)]: the bound tokens
          tokenType,     \* of the airdrop
          airdropped,    \* [Token -> {"no", "bnft", "owner"}]: where its prize went first
          purse,         \* prizes of each kind held by the bNFT and the distribution
          listed,        \* nftUserTokenIds of the airdrop
          erc1155Ids,    \* erc1155AirdropTokenIds of the airdrop
          flying,        \* transactions of the operator sent and not yet mined
          p,             \* the task: its name, place and local variables
          events,        \* how many of these there were
          strayed,       \* history: prizes were claimed for someone else
          seen           \* history: who held, or had bound, which token while the task ran

ledgers == <<native, bnft>>
prizes  == <<tokenType, airdropped, purse, listed, erc1155Ids, strayed>>
world   == <<ledgers, prizes>>
vars    == <<world, flying, p, events, seen>>

getERC1155TokenId(t) == (t % 3) + 1
Kinds == Token \cup 1..3
Kind(t) == CASE tokenType = "erc20" -> 1
             [] tokenType = "erc721" -> t
             [] tokenType = "erc1155" -> getERC1155TokenId(t)

Running == p.pc \notin {"idle", "done", "reverted", "thrown"}

\* ERC721Enumerable: the last token takes the place of the one that leaves.
Without(s, t) == LET i == CHOOSE j \in DOMAIN s : s[j] = t
                 IN  SubSeq([s EXCEPT ![i] = s[Len(s)]], 1, Len(s) - 1)
Moved(ledger, t, from, to) ==
    [[ledger EXCEPT ![from] = Without(@, t)] EXCEPT ![to] = Append(@, t)]

Has(ledger, h, t) == t \in ToSet(ledger[h])
Held(t)  == Has(native, Bnft, t)                    \* the bNFT holds the token
Deed(t)  == {u \in User : Has(bnft, u, t)}
Owners   == {o \in Token \X User : Has(native, o[2], o[1]) \/ Has(bnft, o[2], o[1])}

NoTask == [job |-> "none", pc |-> "idle", user |-> Deployer, num |-> 0, idx |-> 0, tries |-> 0,
           cur |-> 0, ids |-> <<>>, users |-> <<>>, scanned |-> FALSE, unclean |-> FALSE,
           errs |-> 0, disturbed |-> FALSE, late |-> FALSE]

\* Every token with a user, or bound for one; others' steps reach the other orders.
Init == /\ \E holder \in [Token -> User], bound \in SUBSET Token :
              /\ native = [h \in User \cup {Bnft} |->
                    SetToSeq(IF h = Bnft THEN bound ELSE {t \in Token \ bound : holder[t] = h})]
              /\ bnft = [u \in User |-> SetToSeq({t \in bound : holder[t] = u})]
        /\ tokenType \in TokenType
        /\ airdropped = [t \in Token |-> "no"]
        /\ purse = [h \in {"bnft", "dist"} |-> [k \in Kinds |-> 0]]
        /\ listed = [u \in User |-> <<>>]
        /\ erc1155Ids = {}
        /\ flying = <<>>
        /\ p = NoTask
        /\ events = 0
        /\ strayed = FALSE
        /\ seen = {}
-----------------------------------------------------------------------------
(* Reading the tokens of an owner one by one.                               *)

\* replace(" ", "") removes the first space only: of a list typed with a space
\* after every comma, the ids from the third on keep theirs.
Unclean(spaced, ids) == spaced /\ Len(ids) > 2

Begin(task) == /\ p = NoTask
               /\ p' = task
               /\ seen' = IF task.job = "azuki:distribution" THEN Owners ELSE {}
               /\ UNCHANGED <<world, flying, events>>

Scanned == CASE p.job = "azuki:claim-tiger" -> native[Bnft]
             [] p.job = "clonex:bnft-mint-egg" -> bnft[p.user]
             [] p.job = "clonex:native-mint-egg" -> native[p.user]
ScanJobs == {"azuki:claim-tiger", "clonex:bnft-mint-egg", "clonex:native-mint-egg"}

StartScan(job, u) ==
    Begin([NoTask EXCEPT !.job = job, !.pc = "balanceOf", !.user = u, !.scanned = TRUE])

\* The same tasks with a list of ids given.
StartWithIds(job, u, ids, spaced) ==
    Begin([NoTask EXCEPT !.job = job, !.pc = "send", !.user = u, !.ids = ids,
                         !.unclean = Unclean(spaced, ids)])

\* On to pc, or past the last of a loop; a failed read counts twice against the tries.
At(pc) == p.pc = pc
LoopPlaces == {"tokenOfOwnerByIndex", "canClaim", "ownerOf", "bnftOwnerOf"}
Tries == 3
\* Mutant: one round too many.
LoopPastEnd(rec, last, after) ==
    IF rec.tries > 0 THEN rec
    ELSE [rec EXCEPT !.idx = @ + 1, !.tries = Tries, !.pc = IF rec.idx = last THEN after ELSE @]
LoopStep(rec, last, after) ==
    IF rec.tries > 0 THEN rec
    ELSE [rec EXCEPT !.idx = @ + 1, !.tries = Tries, !.pc = IF rec.idx + 1 = last THEN after ELSE @]

EndTries(rec) == [rec EXCEPT !.tries = 0]

\* Mutant: a failure uses up all the tries.
FailForGood(rec) == [rec EXCEPT !.tries = 0, !.errs = @ + 1]
\* Mutant: a failure counts nothing.
FailUncounted(rec) == rec
FailOnce(rec) == [rec EXCEPT !.tries = @ - 2, !.errs = @ + 1]

Local == UNCHANGED <<world, flying, seen>>

ReadBalance ==
    /\ At("balanceOf")
    /\ p' = [p EXCEPT !.num = Len(Scanned), !.tries = Tries,
                      !.pc = IF Scanned = <<>> THEN "send" ELSE "tokenOfOwnerByIndex"]
    /\ UNCHANGED events /\ Local

\* The body of the loop fails: the index is past the end by now, or the read fails.
BodyFails == /\ p' = LoopStep([FailOnce(p) EXCEPT !.pc = "tokenOfOwnerByIndex"], p.num, "send")
             /\ Local
Event == events < MaxEvents /\ events' = events + 1

tokenOfOwnerByIndex ==
    /\ At("tokenOfOwnerByIndex")
    /\ \/ /\ p.idx < Len(Scanned)
          /\ p' = [p EXCEPT !.cur = Scanned[p.idx + 1], !.pc = "canClaim"]
          /\ UNCHANGED events /\ Local
       \/ p.idx >= Len(Scanned) /\ UNCHANGED events /\ BodyFails
       \/ Event /\ BodyFails

canClaim ==
    /\ At("canClaim")
    /\ \/ LET found == IF airdropped[p.cur] = "no" THEN Append(p.ids, p.cur) ELSE p.ids
          IN  /\ p' = LoopStep([EndTries(p) EXCEPT !.ids = found, !.pc = "tokenOfOwnerByIndex"],
                               p.num, "send")
              /\ UNCHANGED events /\ Local
       \/ Event /\ BodyFails

Ends(how) == p' = [p EXCEPT !.pc = how]

\* The airdrop project pays for NFTs the bNFT holds and it has not paid for, all or none.
ProjectPays(ids) ==
    /\ IsInjective(ids)
    /\ \A t \in ToSet(ids) : Held(t) /\ airdropped[t] = "no"
Paid(ids) ==
    /\ airdropped' = [t \in Token |-> IF t \in ToSet(ids) THEN "bnft" ELSE airdropped[t]]
    /\ purse' = [purse EXCEPT !["bnft"] = [k \in Kinds |->
                    @[k] + Cardinality({t \in ToSet(ids) : Kind(t) = k})]]
    /\ UNCHANGED <<ledgers, tokenType, listed, erc1155Ids, strayed>>

-----------------------------------------------------------------------------
(* Transactions of the tasks.                                               *)

MovePrizes(k, n, to) ==
    purse' = [purse EXCEPT !["bnft"][k] = @ - n, ![to][k] = @ + n]
SetListed(u, l) ==
    /\ listed' = [listed EXCEPT ![u] = l]
    /\ UNCHANGED <<ledgers, tokenType, airdropped, purse, erc1155Ids, strayed>>

\* Mutant: what was listed before stays.
NothingCleared(u) == SetListed(u, listed[u])
clearNftUserTokenIds(u) == SetListed(u, <<>>)
configureNftUserTokenIds(u, t) == SetListed(u, Append(listed[u], t))
configureERC1155(k) ==
    /\ erc1155Ids' = {k}
    /\ UNCHANGED <<ledgers, tokenType, airdropped, purse, listed, strayed>>
claimERCXXXAirdrop(k, n) ==
    /\ MovePrizes(k, n, "dist")
    /\ UNCHANGED <<ledgers, tokenType, airdropped, listed, erc1155Ids, strayed>>

Succeeds(t) == CASE t.fn = "executeAirdrop" -> ProjectPays(t.ids)
                 [] t.fn = "claimERCXXXAirdrop" -> t.num <= purse["bnft"][Kind(t.cur)]
                 [] OTHER -> TRUE
Effect(t) == CASE t.fn = "executeAirdrop" -> Paid(t.ids)
               [] t.fn = "claimERCXXXAirdrop" -> claimERCXXXAirdrop(Kind(t.cur), t.num)
               [] t.fn = "configureERC1155" -> configureERC1155(Kind(t.cur))
               [] t.fn = "clearNftUserTokenIds" -> clearNftUserTokenIds(t.user)
               [] t.fn = "configureNftUserTokenIds" -> configureNftUserTokenIds(t.user, t.cur)

\* Where the task goes on; a place is named for the transaction sent there.
GoesOn(fn) == CASE fn = "executeAirdrop" -> "done"
               [] fn = "claimERCXXXAirdrop" ->
                     IF tokenType = "erc1155" THEN "configureERC1155" ELSE "clearNftUserTokenIds"
               [] fn = "configureERC1155" -> "clearNftUserTokenIds"
               [] fn = "clearNftUserTokenIds" -> "configureNftUserTokenIds"
               [] fn = "configureNftUserTokenIds" -> "done"

\* Its gas is estimated first, which fails if it would revert by what is mined;
\* a node that counts what is pending may not see it.
SendTx(fn) ==
    /\ LET t == [fn |-> fn, user |-> p.user, cur |-> p.cur, num |-> p.num, ids |-> p.ids]
       IN  \/ Ends("wait") /\ flying' = Append(flying, t)
           \/ ~Succeeds(t) /\ Ends("reverted") /\ UNCHANGED flying
    /\ UNCHANGED <<world, events, seen>>

\* waitForTx, for what the task itself has sent; anything else comes from a task
\* that was killed.
Mine ==
    /\ flying # <<>>
    /\ flying' = Tail(flying)
    /\ LET t   == Head(flying)
           own == At("wait") /\ Len(flying) = 1
       IN  /\ IF Succeeds(t) THEN Effect(t) ELSE UNCHANGED world
           /\ p' = CASE own -> [p EXCEPT !.pc = IF Succeeds(t) THEN GoesOn(t.fn) ELSE "reverted"]
                      [] ~own /\ Running -> [p EXCEPT !.late = TRUE]
                      [] ~Running -> NoTask
           /\ seen' = IF p'.job = "azuki:distribution" THEN seen ELSE {}
    /\ UNCHANGED events

\* executeAirdrop, by the claim admin; the CloneX tasks print their call data.
Send ==
    /\ At("send") /\ p.job \in ScanJobs
    /\ IF ~p.unclean /\ p.job = "azuki:claim-tiger" THEN SendTx("executeAirdrop")
       ELSE Ends(IF p.unclean THEN "thrown" ELSE "done") /\ UNCHANGED events /\ Local
-----------------------------------------------------------------------------
(* azuki:distribution: the user of every id of a list.                      *)

StartDistribution(ids, spaced) ==
    Begin([NoTask EXCEPT !.job = "azuki:distribution", !.pc = "ownerOf", !.ids = ids,
                         !.num = Len(ids), !.tries = Tries, !.unclean = Unclean(spaced, ids)])

UserFound(u) ==
    /\ p' = LoopStep([EndTries(p) EXCEPT !.users = Append(@, u), !.pc = "ownerOf"], p.num, "check")
    /\ UNCHANGED events /\ Local
OwnerFails == /\ p' = LoopStep([FailOnce(p) EXCEPT !.pc = "ownerOf"], p.num, "check") /\ Local

ownerOf ==
    /\ At("ownerOf")
    /\ LET t == p.ids[p.idx + 1]
           broken == p.unclean /\ p.idx >= 2
       IN  \/ \E u \in User : ~broken /\ Has(native, u, t) /\ UserFound(u)
           \/ ~broken /\ Held(t) /\ p' = [p EXCEPT !.pc = "bnftOwnerOf"] /\ UNCHANGED events /\ Local
           \/ broken /\ UNCHANGED events /\ OwnerFails
           \/ Event /\ OwnerFails

bnftOwnerOf ==
    /\ At("bnftOwnerOf")
    /\ LET t == p.ids[p.idx + 1]
       IN  \/ \E u \in Deed(t) : UserFound(u)
           \/ Deed(t) = {} /\ UNCHANGED events /\ OwnerFails
           \/ Event /\ OwnerFails

\* Mutant: no comparison of the two lists.
AnyLength == TRUE
SameLength == Len(p.users) = Len(p.ids)
CheckUsers == /\ At("check")
              /\ Ends(IF SameLength THEN "done" ELSE "thrown")
              /\ UNCHANGED events /\ Local
-----------------------------------------------------------------------------
(* dev:configure-airdrop-distribution: the prize of one NFT is moved to the *)
(* distribution, where its owner is listed for it.                          *)

StartConfigure(t) ==
    Begin([NoTask EXCEPT !.job = "dev:configure-airdrop-distribution", !.pc = "airdrops", !.cur = t])

\* Mutant: an NFT without a prize goes through.
NoSnapshot == TRUE
IsAirdroped == airdropped[p.cur] # "no"
ReadAirdrops == /\ At("airdrops")
                /\ Ends(IF IsAirdroped THEN "bnftOwner" ELSE "bnftSnapshotAirdrop")
                /\ UNCHANGED events /\ Local

\* It always reverts: outside executeAirdrop the bNFT takes no ERC-721 but its own.
bnftSnapshotAirdrop == /\ At("bnftSnapshotAirdrop")
                       /\ Ends("reverted")
                       /\ UNCHANGED events /\ Local

ReadOwner == /\ At("bnftOwner")
             /\ IF Deed(p.cur) = {} THEN Ends("reverted")
                ELSE \E u \in Deed(p.cur) : p' = [p EXCEPT !.user = u, !.pc = "balance"]
             /\ UNCHANGED events /\ Local

AmountOf(k) == IF tokenType = "erc721" THEN 1 ELSE purse["bnft"][k]
ReadPrizeBalance ==
    /\ At("balance")
    /\ p' = [p EXCEPT !.num = AmountOf(Kind(p.cur)), !.pc = "claimERCXXXAirdrop"]
    /\ UNCHANGED events /\ Local

\* The claim, for ERC-1155 the kind, then the list of the owner.
Configure ==
    \E fn \in {"claimERCXXXAirdrop", "configureERC1155", "clearNftUserTokenIds", "configureNftUserTokenIds"} :
        At(fn) /\ SendTx(fn)

TaskStep == \/ ReadBalance \/ tokenOfOwnerByIndex \/ canClaim \/ Send
            \/ ownerOf \/ bnftOwnerOf \/ CheckUsers
            \/ ReadAirdrops \/ bnftSnapshotAirdrop \/ ReadOwner \/ ReadPrizeBalance \/ Configure

Exit == ~Running /\ p' = NoTask /\ seen' = {} /\ UNCHANGED <<world, flying, events>>

\* The process is killed, or a read without a retry fails.
Crash == Running /\ Event /\ p' = NoTask /\ seen' = {} /\ UNCHANGED <<world, flying>>
-----------------------------------------------------------------------------
(* Meanwhile: the users, the claim admin and other tasks.                   *)

Meanwhile ==
    /\ Event /\ UNCHANGED flying
    /\ p' = IF Running THEN [p EXCEPT !.disturbed = TRUE] ELSE NoTask
    /\ seen' = IF p'.job = "azuki:distribution" THEN seen \cup Owners' ELSE {}

\* A transfer, possibly of an unbound token to the bNFT itself.
Transfer(t, u, to) ==
    /\ Has(native, u, t) /\ u # to
    /\ native' = Moved(native, t, u, to)
    /\ UNCHANGED <<bnft, prizes>> /\ Meanwhile

Mint(t, u) ==
    /\ Has(native, u, t)
    /\ native' = Moved(native, t, u, Bnft)
    /\ bnft' = [bnft EXCEPT ![u] = Append(@, t)]
    /\ UNCHANGED prizes /\ Meanwhile

Burn(t, u) ==
    /\ Has(bnft, u, t)
    /\ native' = Moved(native, t, Bnft, u)
    /\ bnft' = [bnft EXCEPT ![u] = Without(@, t)]
    /\ UNCHANGED prizes /\ Meanwhile

\* executeAirdrop for one NFT, outside the tasks.
ExecuteAirdrop(t) == ProjectPays(<<t>>) /\ Paid(<<t>>) /\ Meanwhile

\* dev:apply-airdrop: the signer collects the prize of an NFT bound for it.
dev_apply_airdrop(t) ==
    /\ Held(t) /\ Deed(t) = {Deployer} /\ airdropped[t] = "no"
    /\ airdropped' = [airdropped EXCEPT ![t] = "owner"]
    /\ UNCHANGED <<ledgers, tokenType, purse, listed, erc1155Ids, strayed>> /\ Meanwhile

\* admin:claim-airdrop-*, which signs as the bNFT's owner and needs it to be the
\* claim admin too: prizes for any target.
admin_claim_airdrop(k) ==
    /\ purse["bnft"][k] > 0
    /\ purse' = [purse EXCEPT !["bnft"][k] = @ - 1]
    /\ strayed' = TRUE
    /\ UNCHANGED <<ledgers, tokenType, airdropped, listed, erc1155Ids>> /\ Meanwhile

Start == \/ StartScan("azuki:claim-tiger", Deployer)
         \/ \E job \in ScanJobs \ {"azuki:claim-tiger"}, u \in User : StartScan(job, u)
         \/ \E job \in ScanJobs, ids \in IdLists, spaced \in BOOLEAN : StartWithIds(job, Deployer, ids, spaced)
         \/ \E ids \in IdLists, spaced \in BOOLEAN : StartDistribution(ids, spaced)
         \/ \E t \in Token : StartConfigure(t)

Next == \/ TaskStep \/ Mine \/ Exit \/ Crash \/ Start
        \/ \E t \in Token, u \in User : \E to \in User \cup {Bnft} : Transfer(t, u, to)
        \/ \E t \in Token, u \in User : Mint(t, u) \/ Burn(t, u)
        \/ \E t \in Token : ExecuteAirdrop(t) \/ dev_apply_airdrop(t)
        \/ \E k \in Kinds : admin_claim_airdrop(k)

\* A process that is not killed goes on, and what is sent is mined.
Spec == Init /\ [][Next]_vars /\ WF_vars(TaskStep) /\ WF_vars(Mine)
-----------------------------------------------------------------------------
(* Properties.                                                              *)

\* Types; the loops stay within their bounds, both ledgers within each other.
TypeOK ==
    /\ native \in [User \cup {Bnft} -> Seq(Token)]
    /\ bnft \in [User -> Seq(Token)]
    /\ \A t \in Token : /\ Cardinality({h \in User \cup {Bnft} : Has(native, h, t)}) = 1
                        /\ Cardinality(Deed(t)) <= 1
                        /\ Deed(t) # {} => Held(t)
    /\ purse \in [{"bnft", "dist"} -> [Kinds -> Nat]]
    /\ listed \in [User -> Seq(Token)]
    /\ p.tries \in 0..Tries
    /\ p.pc \in LoopPlaces => p.idx < p.num

Configured(how) == p.job = "dev:configure-airdrop-distribution" /\ p.pc = how

\* A scan that nothing moves under finds exactly the unclaimed tokens of its
\* owner, each once and in their order, even if one of its reads fails
\* (azuki-tiger.ts:41-56, clonex-egg.ts:44-59 and 108-123).
NobodyMissed ==
    (/\ p.pc = "send" /\ p.scanned
     /\ ~p.disturbed /\ ~p.late /\ p.errs <= 1)
    => LET unclaimed == {i \in DOMAIN Scanned : airdropped[Scanned[i]] = "no"}
       IN  /\ Len(p.ids) = Cardinality(unclaimed)
           /\ \A i \in unclaimed :
                 p.ids[Cardinality({j \in unclaimed : j <= i})] = Scanned[i]

\* azuki:distribution prints its lists only if they pair every id with someone who
\* held the token, or had it bound, at some moment of the run (azuki-tiger.ts:96-116).
PairedWithOwner ==
    p.job = "azuki:distribution" /\ p.pc = "done" =>
        /\ Len(p.users) = Len(p.ids)
        /\ \A i \in DOMAIN p.ids : <<p.ids[i], p.users[i]>> \in seen

\* Whatever is killed and run again, mined late or claimed on a stale balance, no
\* NFT is listed before its prize, if it came through the bNFT, has moved to the
\* distribution: for every kind as many prizes have as NFTs are listed for it,
\* unless prizes were claimed for someone else (airdrop.ts:273-313).  What a
\* claim there pays is another matter: an ERC-1155 prize of the kind configured
\* last, whatever the NFT's.
ListedPrizesMoved ==
    \A k \in Kinds :
        LET due == {t \in Token : /\ Kind(t) = k /\ airdropped[t] # "owner"
                                  /\ \E u \in User : Has(listed, u, t)}
        IN  ~strayed => Cardinality(due) <= purse["dist"][k]

\* A configuration that completes leaves its NFT listed, alone, for whom it read as
\* the owner of the bound token, who still is unless others moved it, and has
\* the distribution pay in its kind (airdrop.ts:281-313).  Run again after a
\* crash, it reverts only for an NFT without a prize or a bound token; for an
\* ERC-721 prize that has left the bNFT already, whose owner it cannot list any
\* more (line 290); or if a transaction of a killed run is mined only under it.
OwnerListed ==
    /\ Configured("done") =>
          /\ listed[p.user] = <<p.cur>>
          /\ tokenType = "erc1155" => erc1155Ids = {Kind(p.cur)}
          /\ Deed(p.cur) = {p.user} \/ p.disturbed
    /\ Configured("reverted") /\ ~p.disturbed =>
          \/ airdropped[p.cur] = "no"
          \/ Deed(p.cur) = {}
          \/ tokenType = "erc721" /\ purse["bnft"][p.cur] = 0
          \/ p.late

\* Every run ends: the loops count their failures down (azuki-tiger.ts:42-55).
RunEnds == Running ~> ~Running
=============================================================================

------------------------- MODULE AirdropTasksProofs -------------------------
(***************************************************************************)
(* Safety of the airdrop tasks for any collection, any users, any lists    *)
(* and any number of failures.  The inductive invariant keeps the two      *)
(* ledgers apart, the prizes counted, and what a task holds in its local   *)
(* variables true of the chain as long as nothing disturbed it.            *)
(***************************************************************************)
EXTENDS AirdropTasks, FiniteSetTheorems, SequenceTheorems, TLAPS

\* Every token of a ledger is with one holder, once.
Sole(ledger, H) ==
    /\ ledger \in [H -> Seq(Token)]
    /\ \A h \in H : IsInjective(ledger[h])
    /\ \A t \in Token : \A g, h \in H : Has(ledger, g, t) /\ Has(ledger, h, t) => g = h

\* The bNFT holds every token that is bound.
Ledgers ==
    /\ Sole(native, User \cup {Bnft})
    /\ Sole(bnft, User)
    /\ \A t \in Token : \E h \in User \cup {Bnft} : Has(native, h, t)
    /\ \A t \in Token : \A u \in User : Has(bnft, u, t) => Held(t)

\* Only NFTs with a prize are listed.
Prizes ==
    /\ tokenType \in TokenType
    /\ airdropped \in [Token -> {"no", "bnft", "owner"}]
    /\ purse \in [{"bnft", "dist"} -> [Kinds -> Nat]]
    /\ listed \in [User -> Seq(Token)]
    /\ \A t \in Token : \A u \in User : Has(listed, u, t) => airdropped[t] # "no"

ScanPlaces      == {"balanceOf", "tokenOfOwnerByIndex", "canClaim"}
OwnerPlaces     == {"ownerOf", "bnftOwnerOf", "check"}
ToListPlaces    == {"configureERC1155", "clearNftUserTokenIds", "configureNftUserTokenIds"}
PrizePlaces     == {"bnftOwner", "balance", "claimERCXXXAirdrop"} \cup ToListPlaces
ConfigurePlaces == {"airdrops", "bnftSnapshotAirdrop"} \cup PrizePlaces

Jobs == {"none", "azuki:distribution", "dev:configure-airdrop-distribution"} \cup ScanJobs
Pcs  == {"idle", "send", "wait", "done", "reverted", "thrown"}
           \cup ScanPlaces \cup OwnerPlaces \cup ConfigurePlaces

Records == [job : Jobs, pc : Pcs, user : User, num : Nat, idx : Nat, tries : 0..Tries,
            cur : Nat, ids : Seq(Token), users : Seq(User), scanned : BOOLEAN, unclean : BOOLEAN,
            errs : Nat, disturbed : BOOLEAN, late : BOOLEAN]

\* Each place belongs to its tasks; the failures of an entry are counted down from three.
Places ==
    /\ p \in Records
    /\ p.pc \in ScanPlaces => p.job \in ScanJobs
    /\ p.pc = "balanceOf" => p.idx = 0
    /\ p.pc = "canClaim" => p.cur \in Token
    /\ p.pc \in OwnerPlaces => p.job = "azuki:distribution"
    /\ p.pc \in LoopPlaces => p.idx < p.num /\ p.tries \in {1, 3}
    /\ p.pc \in ConfigurePlaces => p.job = "dev:configure-airdrop-distribution"
    /\ p.pc \in PrizePlaces => airdropped[p.cur] # "no"

Fns == {"executeAirdrop", "claimERCXXXAirdrop"} \cup ToListPlaces
Txs == [fn : Fns, user : User, cur : Nat, num : Nat, ids : Seq(Token)]
Own == flying[Len(flying)]
OfConfigure(t) == t.fn # "executeAirdrop" => t.cur \in Token /\ airdropped[t.cur] # "no"

\* What a task waits for was sent last; what it sends after a transaction of its
\* own was mined is alone in flight.
Flying ==
    /\ flying \in Seq(Txs)
    /\ \A i \in 1..Len(flying) : OfConfigure(flying[i])
    /\ p.pc \in ToListPlaces => flying = <<>>
    /\ p.pc = "wait" =>
         /\ flying # <<>>
         /\ Own.user = p.user /\ Own.cur = p.cur /\ Own.num = p.num /\ Own.ids = p.ids
         /\ Own.fn = "executeAirdrop" => p.job \in ScanJobs
         /\ Own.fn # "executeAirdrop" => p.job = "dev:configure-airdrop-distribution"
         /\ Own.fn \in ToListPlaces => Len(flying) = 1

\* No more users are found than entries were looked at; as many, and they pair.
Pairing ==
    p.job = "azuki:distribution" =>
      /\ Owners \subseteq seen
      /\ p.num = Len(p.ids)
      /\ Len(p.users) <= p.idx /\ p.idx <= p.num
      /\ Len(p.users) = p.idx => \A i \in 1..p.idx : <<p.ids[i], p.users[i]>> \in seen
      /\ p.pc = "done" => Len(p.users) = p.num

\* The task sends the transaction, or has sent it and waits for it.
Sending(fn) == p.pc = fn \/ (p.pc = "wait" /\ Own.fn = fn)

\* The chain as a configuration that nothing disturbs has read it.
Configuring ==
    p.job = "dev:configure-airdrop-distribution" =>
      /\ p.cur \in Token
      /\ ~p.disturbed /\ ~p.late /\ p.pc = "bnftSnapshotAirdrop" => airdropped[p.cur] = "no"
      /\ Sending("configureNftUserTokenIds") => listed[p.user] = <<>>
      /\ tokenType = "erc1155" /\ (\/ Sending("clearNftUserTokenIds") \/ Sending("configureNftUserTokenIds")
                                   \/ p.pc = "done")
            => erc1155Ids = {Kind(p.cur)}
      /\ p.pc = "done" => listed[p.user] = <<p.cur>>
      /\ ~p.disturbed /\ p.pc \in {"balance", "claimERCXXXAirdrop", "wait", "done"} \cup ToListPlaces
            => p.user \in Deed(p.cur)
      /\ ~p.disturbed /\ ~p.late /\ Sending("claimERCXXXAirdrop") => p.num = AmountOf(Kind(p.cur))
      /\ ~p.disturbed /\ ~p.late /\ p.pc = "reverted" =>
            \/ airdropped[p.cur] = "no"
            \/ Deed(p.cur) = {}
            \/ tokenType = "erc721" /\ purse["bnft"][p.cur] = 0

\* The NFTs of a kind whose prizes came through the bNFT, those of them that are
\* listed, and those that a transaction in flight, or about to be sent, may list.
PaidFor(k) == {t \in Token : Kind(t) = k /\ airdropped[t] = "bnft"}
Due(k)     == {t \in Token : /\ Kind(t) = k /\ airdropped[t] # "owner"
                             /\ \E u \in User : Has(listed, u, t)}
MayList(t) == \/ p.pc \in ToListPlaces /\ p.cur = t
              \/ \E i \in 1..Len(flying) : flying[i].fn \in ToListPlaces /\ flying[i].cur = t
Coming(k)  == {t \in PaidFor(k) : MayList(t)}
DueNext(k) == Due(k) \cup Coming(k)

\* Bookkeeping of the prizes: what the distribution holds covers what is listed and
\* what may be; with what a configuration claims, also what it is to list.
Accounts ==
    ~strayed =>
        /\ \A k \in Kinds : Cardinality(PaidFor(k)) <= purse["bnft"][k] + purse["dist"][k]
        /\ \A k \in Kinds : Cardinality(DueNext(k)) <= purse["dist"][k]
        /\ \A k \in Kinds :
              Sending("claimERCXXXAirdrop") /\ p.cur \in PaidFor(k) =>
                 Cardinality(DueNext(k) \cup {p.cur}) <= purse["dist"][k] + p.num

IInv == Ledgers /\ Prizes /\ Places /\ Flying /\ Pairing /\ Configuring /\ Accounts
-----------------------------------------------------------------------------
(* The ledgers of the collection and of its bound tokens. *)

\* An element that is appended comes last, and once if it was not there.
LEMMA AppendIs ==
    ASSUME NEW S, NEW s \in Seq(S), NEW t \in S
    PROVE  /\ Append(s, t) \in Seq(S)
           /\ ToSet(Append(s, t)) = ToSet(s) \cup {t}
           /\ IsInjective(s) /\ t \notin ToSet(s) => IsInjective(Append(s, t))
  <1> DEFINE a == Append(s, t)
  <1>1. /\ a \in Seq(S) /\ Len(a) = Len(s) + 1 /\ a[Len(s) + 1] = t
        /\ \A i \in 1..Len(s) : a[i] = s[i]
    BY AppendProperties
  <1>2. DOMAIN a = DOMAIN s \cup {Len(s) + 1} /\ DOMAIN s = 1..Len(s) /\ Len(s) \in Nat
    BY <1>1
  <1>3. ToSet(a) = ToSet(s) \cup {t}
    BY <1>1, <1>2 DEF ToSet
  <1> HIDE DEF a
  <1>4. ASSUME IsInjective(s), t \notin ToSet(s), NEW i \in DOMAIN a, NEW j \in DOMAIN a, a[i] = a[j]
        PROVE  i = j
    BY <1>1, <1>2, <1>4 DEF IsInjective, ToSet
  <1>5. IsInjective(s) /\ t \notin ToSet(s) => IsInjective(a)
    BY <1>4 DEF IsInjective
  <1> QED
    BY <1>1, <1>3, <1>5 DEF a

\* The token that leaves an owner's list was there once, and the others stay.
LEMMA WithoutIs ==
    ASSUME NEW S, NEW s \in Seq(S), IsInjective(s), NEW t \in ToSet(s)
    PROVE  /\ Without(s, t) \in Seq(S)
           /\ IsInjective(Without(s, t))
           /\ ToSet(Without(s, t)) = ToSet(s) \ {t}
  <1> DEFINE i == CHOOSE j \in DOMAIN s : s[j] = t
             n == Len(s)
             e == [s EXCEPT ![i] = s[n]]
             w == Without(s, t)
  <1>1. i \in 1..n /\ s[i] = t /\ n \in Nat /\ DOMAIN s = 1..n
    BY DEF ToSet
  <1> HIDE DEF i
  <1>2. n \in 1..n /\ s[n] \in S
    BY <1>1, ElementOfSeq
  <1>3. /\ e \in Seq(S) /\ Len(e) = n
        /\ \A j \in 1..n : e[j] = IF j = i THEN s[n] ELSE s[j]
    BY <1>1, <1>2, ExceptSeq
  <1> HIDE DEF e
  <1>4. w = SubSeq(e, 1, n - 1)
    BY DEF Without, e, i
  <1>5. /\ w \in Seq(S) /\ DOMAIN w = 1..(n - 1)
        /\ \A j \in 1..(n - 1) : w[j] = e[j]
    BY <1>2, <1>3, <1>4
  <1> HIDE DEF w
  <1>6. \A j \in 1..(n - 1) : w[j] = IF j = i THEN s[n] ELSE s[j]
    BY <1>3, <1>5
  <1>7. IsInjective(w)
    BY <1>1, <1>2, <1>5, <1>6 DEF IsInjective
  <1>8. ToSet(w) \subseteq ToSet(s) \ {t}
    BY <1>1, <1>2, <1>5, <1>6 DEF ToSet, IsInjective
  <1>9. ASSUME NEW x \in ToSet(s) \ {t} PROVE x \in ToSet(w)
    <2> HIDE DEF n
    <2>1. PICK j \in 1..n : s[j] = x
      BY <1>1 DEF ToSet
    <2>2. j # i
      BY <1>1, <2>1
    <2>3. CASE j = n
      <3>1. i \in 1..(n - 1)
        BY <1>1, <2>2, <2>3
      <3>2. w[i] = x
        BY <1>6, <2>1, <2>3, <3>1
      <3> QED
        BY <1>5, <3>1, <3>2 DEF ToSet
    <2>4. CASE j # n
      <3>1. j \in 1..(n - 1)
        BY <1>1, <2>4
      <3>2. w[j] = x
        BY <1>6, <2>1, <2>2, <3>1
      <3> QED
        BY <1>5, <3>1, <3>2 DEF ToSet
    <2> QED
      BY <2>3, <2>4
  <1> QED
    BY <1>5, <1>7, <1>8, <1>9 DEF w

\* A transfer takes the token from one holder to the other and moves no other.
LEMMA MovedIs ==
    ASSUME NEW l, NEW H, Sole(l, H), NEW t \in Token, NEW from \in H, NEW to \in H,
           from # to, Has(l, from, t)
    PROVE  /\ Sole(Moved(l, t, from, to), H)
           /\ \A h \in H : \A x \in Token :
                Has(Moved(l, t, from, to), h, x) <=> IF x = t THEN h = to ELSE Has(l, h, x)
  <1> DEFINE m == Moved(l, t, from, to)
             w == Without(l[from], t)
             a == Append(l[to], t)
  <1>1. /\ l[from] \in Seq(Token) /\ l[to] \in Seq(Token)
        /\ IsInjective(l[from]) /\ IsInjective(l[to])
        /\ t \in ToSet(l[from]) /\ t \notin ToSet(l[to])
    BY DEF Sole, Has
  <1>2. w \in Seq(Token) /\ IsInjective(w) /\ ToSet(w) = ToSet(l[from]) \ {t}
    BY <1>1, WithoutIs
  <1>3. a \in Seq(Token) /\ IsInjective(a) /\ ToSet(a) = ToSet(l[to]) \cup {t}
    BY <1>1, AppendIs
  <1>4. m = [[l EXCEPT ![from] = w] EXCEPT ![to] = a]
    BY DEF Sole, Moved
  <1> HIDE DEF w, a, m
  <1>5. /\ m \in [H -> Seq(Token)]
        /\ \A h \in H : m[h] = IF h = to THEN a ELSE IF h = from THEN w ELSE l[h]
    BY <1>2, <1>3, <1>4 DEF Sole
  <1>6. \A h \in H : IsInjective(m[h])
    BY <1>2, <1>3, <1>5 DEF Sole
  <1>7. ASSUME NEW h \in H, NEW x \in Token
        PROVE  Has(m, h, x) <=> IF x = t THEN h = to ELSE Has(l, h, x)
    <2>1. CASE h = to
      BY <1>3, <1>5, <2>1 DEF Has
    <2>2. CASE h = from
      BY <1>2, <1>5, <2>2 DEF Has
    <2>3. CASE h # to /\ h # from
      BY <1>5, <2>3 DEF Has, Sole
    <2> QED
      BY <2>1, <2>2, <2>3
  <1>8. \A x \in Token : \A g, h \in H : Has(m, g, x) /\ Has(m, h, x) => g = h
    BY <1>7 DEF Sole
  <1> QED
    BY <1>5, <1>6, <1>7, <1>8 DEF Sole, m

\* A list as long as a set of tokens, each of its elements in the set and only once.
LEMMA InjectiveOnto ==
    ASSUME NEW S \in SUBSET Token, NEW f \in [1..Cardinality(S) -> S], IsInjective(f)
    PROVE  ToSet(f) = S
  <1>1. IsFiniteSet(S) /\ Cardinality(S) \in Nat
    BY TokenAssumption, FS_Subset, FS_CardinalityType
  <1>2. Cardinality(1..Cardinality(S)) = Cardinality(S)
    BY <1>1, FS_Interval
  <1>3. f \in Injection(1..Cardinality(S), S)
    BY DEF Injection
  <1>4. f \in Surjection(1..Cardinality(S), S)
    BY <1>1, <1>2, <1>3, FS_Injection
  <1> QED
    BY <1>4 DEF Surjection, ToSet

\* A list of a set's elements, each once, exists.
LEMMA SetToSeqIs ==
    ASSUME NEW S \in SUBSET Token
    PROVE  SetToSeq(S) \in Seq(Token) /\ IsInjective(SetToSeq(S)) /\ ToSet(SetToSeq(S)) = S
  <1> DEFINE n == Cardinality(S)
             f == SetToSeq(S)
  <1>1. IsFiniteSet(S) /\ n \in Nat /\ ExistsBijection(1..n, S)
    BY TokenAssumption, FS_Subset, FS_CardinalityType
  <1>2. \E b \in [1..n -> S] : IsInjective(b)
    BY <1>1 DEF ExistsBijection, Bijection, Injection
  <1>3. f \in [1..n -> S] /\ IsInjective(f)
    BY <1>2 DEF SetToSeq
  <1> HIDE DEF f
  <1>4. f \in Seq(Token)
    BY <1>1, <1>3
  <1> QED
    BY <1>3, <1>4, InjectiveOnto DEF f
-----------------------------------------------------------------------------
(* Steps that leave the chain alone, and steps of the others. *)

\* What was paid for can be counted.
LEMMA PaidForIs ==
    \A k : /\ IsFiniteSet(PaidFor(k)) /\ Cardinality(PaidFor(k)) \in Nat
           /\ Cardinality(PaidFor(k)') \in Nat
  <1>1. \A k : PaidFor(k) \in SUBSET Token /\ PaidFor(k)' \in SUBSET Token
    BY DEF PaidFor
  <1> QED
    BY <1>1, TokenAssumption, FS_Subset, FS_CardinalityType

\* What is due is what is paid for and listed.
LEMMA DueIs ==
    ASSUME Prizes
    PROVE  \A k \in Kinds : /\ Due(k) \subseteq PaidFor(k)
                            /\ IsFiniteSet(PaidFor(k)) /\ IsFiniteSet(Due(k))
                            /\ Cardinality(PaidFor(k)) \in Nat /\ Cardinality(Due(k)) \in Nat
                            /\ Cardinality(Due(k)) <= Cardinality(PaidFor(k))
  <1> SUFFICES ASSUME NEW k \in Kinds
               PROVE  /\ Due(k) \subseteq PaidFor(k)
                      /\ IsFiniteSet(PaidFor(k)) /\ IsFiniteSet(Due(k))
                      /\ Cardinality(PaidFor(k)) \in Nat /\ Cardinality(Due(k)) \in Nat
                      /\ Cardinality(Due(k)) <= Cardinality(PaidFor(k))
    OBVIOUS
  <1>1. Due(k) \subseteq PaidFor(k)
    BY DEF Due, PaidFor, Prizes
  <1> QED
    BY <1>1, PaidForIs, FS_Subset, FS_CardinalityType

\* The kinds of a token are among the kinds of prizes.
LEMMA KindIs ==
    ASSUME tokenType \in TokenType, NEW t \in Token
    PROVE  Kind(t) \in Kinds
  BY TokenAssumption, TokenTypeAssumption DEF Kind, Kinds, getERC1155TokenId

\* The record of no task.
LEMMA NoTaskIs ==
    /\ NoTask \in Records
    /\ NoTask.pc = "idle" /\ NoTask.job = "none"
  <1>1. <<>> \in Seq(Token) /\ <<>> \in Seq(User) /\ 0 \in 0..Tries
    BY DEF Tries
  <1>2. ASSUME NEW ids \in Seq(Token), ids = <<>>, NEW users \in Seq(User), users = <<>>
        PROVE  NoTask \in Records
    BY <1>1, <1>2, UserAssumption DEF NoTask, Records, Jobs, Pcs
  <1>3. NoTask.pc = "idle" /\ NoTask.job = "none"
    BY DEF NoTask
  <1> QED
    BY <1>1, <1>2, <1>3

\* A step that does not change the chain leaves everything said of it as it is.
\* A step that does not change the chain leaves everything said of it as it is.
LEMMA SameWorldIs ==
    ASSUME IInv, UNCHANGED world
    PROVE  /\ Ledgers' /\ Prizes'
           /\ UNCHANGED <<native, bnft, tokenType, airdropped, purse, listed, erc1155Ids, strayed, Owners>>
           /\ \A t : Kind(t)' = Kind(t) /\ Deed(t)' = Deed(t)
           /\ \A k : Due(k)' = Due(k) /\ PaidFor(k)' = PaidFor(k)
  <1>1. UNCHANGED <<native, bnft, tokenType, airdropped, purse, listed, erc1155Ids, strayed>>
    BY DEF world, ledgers, prizes
  <1>2. Ledgers'
    BY <1>1 DEF IInv, Ledgers, Sole, Has, Held
  <1>3. Prizes'
    BY <1>1 DEF IInv, Prizes, Has
  <1>4. /\ Owners' = Owners
        /\ \A t : Kind(t)' = Kind(t) /\ Deed(t)' = Deed(t)
    BY <1>1 DEF Kind, Deed, Owners, Has
  <1>5. \A k : Due(k)' = Due(k) /\ PaidFor(k)' = PaidFor(k)
    BY <1>1, <1>4 DEF Due, PaidFor, Has
  <1> QED
    BY <1>1, <1>2, <1>3, <1>4, <1>5

\* What is due or may be listed can be counted.
LEMMA DueNextIs ==
    \A k : /\ DueNext(k) \in SUBSET Token /\ IsFiniteSet(DueNext(k)) /\ Cardinality(DueNext(k)) \in Nat
           /\ DueNext(k)' \in SUBSET Token /\ IsFiniteSet(DueNext(k)') /\ Cardinality(DueNext(k)') \in Nat
  <1>1. \A k : DueNext(k) \in SUBSET Token /\ DueNext(k)' \in SUBSET Token
    BY DEF DueNext, Due, Coming, PaidFor
  <1> QED
    BY <1>1, TokenAssumption, FS_Subset, FS_CardinalityType

\* The accounts stay in order if nothing new is to be listed, the distribution
\* gives nothing away, and no claim is on its way that was not.
LEMMA AccountsKeep ==
    ASSUME IInv, Prizes', UNCHANGED tokenType,
           ~strayed' => /\ ~strayed
                        /\ \A k \in Kinds : Cardinality(PaidFor(k)') <= purse'["bnft"][k] + purse'["dist"][k],
           \A k \in Kinds : DueNext(k)' \subseteq DueNext(k) /\ purse'["dist"][k] >= purse["dist"][k],
           \A k \in Kinds : Sending("claimERCXXXAirdrop")' /\ p'.cur \in PaidFor(k)' =>
                /\ Sending("claimERCXXXAirdrop") /\ p'.cur = p.cur /\ p'.num = p.num /\ p.num \in Nat
                /\ p.cur \in PaidFor(k)
    PROVE  Accounts'
  <1> SUFFICES ASSUME ~strayed', NEW k \in Kinds
               PROVE  /\ Cardinality(PaidFor(k)') <= purse'["bnft"][k] + purse'["dist"][k]
                      /\ Cardinality(DueNext(k)') <= purse'["dist"][k]
                      /\ Sending("claimERCXXXAirdrop")' /\ p'.cur \in PaidFor(k)' =>
                            Cardinality(DueNext(k)' \cup {p'.cur}) <= purse'["dist"][k] + p'.num
    BY DEF Accounts
  <1>1. purse["dist"][k] \in Nat /\ purse'["dist"][k] \in Nat
    BY DEF IInv, Prizes
  <1>2. Cardinality(DueNext(k)) <= purse["dist"][k]
    BY DEF IInv, Accounts
  <1>3. /\ DueNext(k)' \subseteq DueNext(k) /\ IsFiniteSet(DueNext(k))
        /\ Cardinality(DueNext(k)) \in Nat /\ Cardinality(DueNext(k)') \in Nat
    BY DueNextIs
  <1>4. Cardinality(DueNext(k)') <= Cardinality(DueNext(k))
    BY <1>3, FS_Subset
  <1>5. ASSUME Sending("claimERCXXXAirdrop")', p'.cur \in PaidFor(k)'
        PROVE  Cardinality(DueNext(k)' \cup {p'.cur}) <= purse'["dist"][k] + p'.num
    <2>1. p'.cur = p.cur /\ p'.num = p.num /\ p.num \in Nat
      BY <1>5
    <2>2. Cardinality(DueNext(k) \cup {p.cur}) <= purse["dist"][k] + p.num
      BY <1>5 DEF IInv, Accounts
    <2>3. /\ IsFiniteSet(DueNext(k) \cup {p.cur}) /\ Cardinality(DueNext(k) \cup {p.cur}) \in Nat
      BY <1>3, FS_AddElement, FS_CardinalityType
    <2>4. /\ Cardinality(DueNext(k)' \cup {p.cur}) <= Cardinality(DueNext(k) \cup {p.cur})
          /\ Cardinality(DueNext(k)' \cup {p.cur}) \in Nat
      BY <1>3, <2>3, FS_Subset, FS_CardinalityType
    <2>5. purse'["dist"][k] >= purse["dist"][k]
      OBVIOUS
    <2> QED
      BY <1>1, <2>1, <2>2, <2>3, <2>4, <2>5
  <1>6. purse'["dist"][k] >= purse["dist"][k]
    OBVIOUS
  <1> QED
    BY <1>1, <1>2, <1>3, <1>4, <1>5, <1>6

\* The NFTs that may be listed, and that whose prize is being claimed, have one.
LEMMA MayListIs ==
    ASSUME IInv
    PROVE  /\ \A t : MayList(t) => t \in Token /\ airdropped[t] # "no"
           /\ Sending("claimERCXXXAirdrop") => p.cur \in Token /\ airdropped[p.cur] # "no"
           /\ p.pc \in ConfigurePlaces => p.cur \in Token
  <1>1. p.pc \in ConfigurePlaces => p.cur \in Token
    BY DEF IInv, Places, Configuring
  <1>2. p.pc \in PrizePlaces => p.cur \in Token /\ airdropped[p.cur] # "no"
    BY <1>1 DEF IInv, Places, ConfigurePlaces
  <1>3. \A i \in 1..Len(flying) : flying[i].fn # "executeAirdrop" =>
          flying[i].cur \in Token /\ airdropped[flying[i].cur] # "no"
    BY DEF IInv, Flying, OfConfigure
  <1>4. \A t : MayList(t) => t \in Token /\ airdropped[t] # "no"
    BY <1>2, <1>3 DEF MayList, ToListPlaces, PrizePlaces
  <1>5. ASSUME p.pc = "wait", Own.fn = "claimERCXXXAirdrop"
        PROVE  p.cur \in Token /\ airdropped[p.cur] # "no"
    <2>1. flying \in Seq(Txs) /\ flying # <<>> /\ Own.cur = p.cur
      BY <1>5 DEF IInv, Flying
    <2>2. Len(flying) \in 1..Len(flying)
      BY <2>1, EmptySeq
    <2> QED
      BY <1>3, <1>5, <2>1, <2>2 DEF Own
  <1> QED
    BY <1>1, <1>2, <1>4, <1>5 DEF Sending, PrizePlaces

\* A step of a task that changes neither the chain nor what is in flight, unless
\* nothing is any more, and does not take the task to where prizes move.
LEMMA SameWorldKeeps ==
    ASSUME IInv, UNCHANGED world, UNCHANGED flying \/ flying' = <<>>, Places', Pairing', Configuring',
           p'.pc \notin {"claimERCXXXAirdrop", "wait"} \cup ToListPlaces
    PROVE  IInv'
  <1>1. airdropped' = airdropped /\ \A k : Due(k)' = Due(k) /\ PaidFor(k)' = PaidFor(k)
    BY SameWorldIs
  <1>2. Flying'
    <2>1. CASE UNCHANGED flying
      BY <1>1, <2>1 DEF IInv, Flying, OfConfigure
    <2>2. CASE flying' = <<>>
      <3>1. flying' \in Seq(Txs) /\ 1..Len(flying') = {}
        BY <2>2
      <3> QED
        BY <2>2, <3>1 DEF Flying
    <2> QED
      BY <2>1, <2>2
  <1>3. \A t : MayList(t)' => MayList(t)
    <2>1. CASE UNCHANGED flying
      BY <2>1 DEF MayList
    <2>2. CASE flying' = <<>>
      <3>1. 1..Len(flying') = {}
        BY <2>2
      <3> QED
        BY <3>1 DEF MayList
    <2> QED
      BY <2>1, <2>2
  <1>4. \A k : DueNext(k)' \subseteq DueNext(k)
    BY <1>1, <1>3 DEF DueNext, Coming
  <1>5. Accounts'
    <2>1. ~Sending("claimERCXXXAirdrop")'
      BY DEF Sending
    <2>2. Prizes' /\ UNCHANGED <<purse, strayed, tokenType>>
      BY SameWorldIs
    <2>3. \A k \in Kinds : purse["dist"][k] >= purse["dist"][k]
      BY DEF IInv, Prizes
    <2>4. ~strayed => \A k \in Kinds : Cardinality(PaidFor(k)) <= purse["bnft"][k] + purse["dist"][k]
      BY DEF IInv, Accounts
    <2> QED
      BY <1>1, <1>4, <2>1, <2>2, <2>3, <2>4, AccountsKeep
  <1> QED
    BY <1>2, <1>5, SameWorldIs DEF IInv

\* Nothing is said of no task.
LEMMA NoTaskKeeps ==
    ASSUME p' = NoTask, IInv, \A t \in Token : airdropped[t] # "no" => airdropped'[t] = airdropped[t],
           flying' \in Seq(Txs), (\A i \in 1..Len(flying) : OfConfigure(flying[i]))'
    PROVE  Places' /\ Flying' /\ Pairing' /\ Configuring' /\ ~Sending("claimERCXXXAirdrop")'
  <1>1. p' \in Records /\ p'.pc = "idle" /\ p'.job = "none"
    BY NoTaskIs
  <1>2. Places' /\ Pairing' /\ Configuring' /\ ~Sending("claimERCXXXAirdrop")'
    BY <1>1 DEF Places, Pairing, Configuring, Sending, ScanPlaces, OwnerPlaces, LoopPlaces,
                ConfigurePlaces, PrizePlaces, ToListPlaces
  <1> QED
    BY <1>1, <1>2 DEF Flying, ToListPlaces

\* What another does disturbs the task that runs, or finds none: the ledgers and
\* the prizes stay in order, no prize that was given is given again, and the
\* distribution keeps what it has.
LEMMA MeanwhileKeeps ==
    ASSUME IInv, Meanwhile, Ledgers', Prizes', UNCHANGED <<tokenType, listed, erc1155Ids>>,
           \A t \in Token : airdropped[t] # "no" => airdropped'[t] = airdropped[t],
           ~strayed' => /\ ~strayed
                        /\ purse'["dist"] = purse["dist"]
                        /\ \A k \in Kinds : Cardinality(PaidFor(k)') <= purse'["bnft"][k] + purse'["dist"][k]
    PROVE  IInv'
  <1>1. p \in Records /\ p' \in Records
    <2>1. [p EXCEPT !.disturbed = TRUE] \in Records
      BY DEF IInv, Places, Records
    <2> QED
      BY <2>1, NoTaskIs DEF Meanwhile, IInv, Places
  <1>2. /\ flying' = flying /\ flying \in Seq(Txs) /\ Own' = Own
        /\ (\A i \in 1..Len(flying) : OfConfigure(flying[i]))'
    BY DEF Meanwhile, IInv, Flying, OfConfigure, Own
  <1>3. /\ Places' /\ Flying' /\ Pairing' /\ Configuring'
        /\ \A t : MayList(t)' => MayList(t)
        /\ Sending("claimERCXXXAirdrop")' => Sending("claimERCXXXAirdrop") /\ p'.cur = p.cur /\ p'.num = p.num
    <2>1. CASE ~Running
      <3>1. p' = NoTask
        BY <2>1 DEF Meanwhile
      <3>2. p'.pc \notin ToListPlaces
        BY <3>1, NoTaskIs DEF ToListPlaces
      <3> QED
        BY <1>2, <3>1, <3>2, NoTaskKeeps DEF MayList
    <2>2. CASE Running
      <3>1. p' = [p EXCEPT !.disturbed = TRUE]
        BY <2>2 DEF Meanwhile
      <3>2. /\ p'.pc = p.pc /\ p'.job = p.job /\ p'.cur = p.cur /\ p'.num = p.num /\ p'.user = p.user
            /\ p'.idx = p.idx /\ p'.tries = p.tries /\ p'.ids = p.ids /\ p'.users = p.users /\ p'.disturbed
        BY <1>1, <3>1 DEF Records
      <3>3. p.pc \in PrizePlaces => airdropped'[p.cur] # "no"
        BY MayListIs DEF IInv, Places, ConfigurePlaces
      <3>4. Places'
        BY <1>1, <3>2, <3>3 DEF IInv, Places
      <3>5. Flying'
        BY <1>2, <3>2 DEF IInv, Flying
      <3>6. Pairing'
        BY <2>2, <3>2 DEF Meanwhile, IInv, Pairing, Running
      <3>7. \A fn : Sending(fn)' <=> Sending(fn)
        BY <1>2, <3>2 DEF Sending
      <3>8. \A t : Kind(t)' = Kind(t)
        BY DEF Kind
      <3>9. Configuring'
        BY <2>2, <3>2, <3>7, <3>8 DEF IInv, Configuring, Running
      <3>10. \A t : MayList(t)' => MayList(t)
        BY <1>2, <3>2 DEF MayList
      <3> QED
        BY <3>2, <3>4, <3>5, <3>6, <3>7, <3>9, <3>10
    <2> QED
      BY <2>1, <2>2
  <1>4. \A t : Kind(t)' = Kind(t)
    BY DEF Kind
  <1>5. \A k : Due(k)' = Due(k)
    BY <1>4 DEF Due, Has, IInv, Prizes
  <1>6. \A k, t : t \in PaidFor(k)' /\ airdropped[t] # "no" => t \in PaidFor(k)
    BY <1>4 DEF PaidFor
  <1>7. \A k : DueNext(k)' \subseteq DueNext(k)
    BY <1>3, <1>5, <1>6, MayListIs DEF DueNext, Coming
  <1>8. p.num \in Nat
    BY <1>1 DEF Records
  <1>9. ~strayed' => \A k \in Kinds : purse'["dist"][k] >= purse["dist"][k]
    BY DEF IInv, Prizes
  <1>10. Accounts'
    <2>1. CASE strayed'
      BY <2>1 DEF Accounts
    <2>2. CASE ~strayed'
      BY <1>3, <1>6, <1>7, <1>8, <1>9, <2>2, MayListIs, AccountsKeep
    <2> QED
      BY <2>1, <2>2
  <1> QED
    BY <1>3, <1>10 DEF IInv
-----------------------------------------------------------------------------
(* The users, the claim admin and the airdrop project. *)

\* A step that only moves tokens keeps the prizes in order.
LEMMA PrizesStay ==
    ASSUME IInv, UNCHANGED prizes
    PROVE  /\ Prizes'
           /\ UNCHANGED <<tokenType, airdropped, purse, listed, erc1155Ids, strayed>>
           /\ ~strayed' => /\ ~strayed
                           /\ purse'["dist"] = purse["dist"]
                           /\ \A k \in Kinds : Cardinality(PaidFor(k)') <= purse'["bnft"][k] + purse'["dist"][k]
  <1>1. UNCHANGED <<tokenType, airdropped, purse, listed, erc1155Ids, strayed>>
    BY DEF prizes
  <1>2. Prizes'
    BY <1>1 DEF IInv, Prizes, Has
  <1>3. \A t : Kind(t)' = Kind(t)
    BY <1>1 DEF Kind
  <1>4. \A k : PaidFor(k)' = PaidFor(k)
    BY <1>1, <1>3 DEF PaidFor
  <1> QED
    BY <1>1, <1>2, <1>4 DEF IInv, Accounts

\* A step that only gives prizes leaves the ledgers as they are.
LEMMA LedgersStay ==
    ASSUME IInv, UNCHANGED ledgers
    PROVE  Ledgers'
  BY DEF ledgers, IInv, Ledgers, Sole, Has, Held

LEMMA TransferKeeps ==
    ASSUME IInv, NEW t \in Token, NEW u \in User, NEW to \in User \cup {Bnft}, Transfer(t, u, to)
    PROVE  IInv'
  <1>1. Sole(native, User \cup {Bnft}) /\ Has(native, u, t) /\ u # to
    BY DEF IInv, Ledgers, Transfer
  <1>2. /\ Sole(native', User \cup {Bnft})
        /\ \A h \in User \cup {Bnft} : \A x \in Token :
             Has(native', h, x) <=> IF x = t THEN h = to ELSE Has(native, h, x)
    BY <1>1, MovedIs DEF Transfer
  <1>3. \A v \in User : ~Has(bnft, v, t)
    BY <1>1, UserAssumption DEF IInv, Ledgers, Sole, Held
  <1>4. Ledgers'
    <2>1. bnft' = bnft
      BY DEF Transfer
    <2>2. \A x \in Token : \E h \in User \cup {Bnft} : Has(native', h, x)
      BY <1>2 DEF IInv, Ledgers
    <2>3. \A x \in Token : \A v \in User : Has(bnft, v, x) => Has(native', Bnft, x)
      BY <1>2, <1>3 DEF IInv, Ledgers, Held
    <2>4. Sole(native, User \cup {Bnft})' /\ Sole(bnft, User)'
      BY <1>2, <2>1 DEF IInv, Ledgers, Sole, Has
    <2> QED
      BY <2>1, <2>2, <2>3, <2>4 DEF Ledgers, Has, Held
  <1> QED
    BY <1>4, PrizesStay, MeanwhileKeeps DEF Transfer

LEMMA MintKeeps ==
    ASSUME IInv, NEW t \in Token, NEW u \in User, Mint(t, u)
    PROVE  IInv'
  <1>1. Sole(native, User \cup {Bnft}) /\ Has(native, u, t) /\ u # Bnft
    BY UserAssumption DEF IInv, Ledgers, Mint
  <1>2. /\ Sole(native', User \cup {Bnft})
        /\ \A h \in User \cup {Bnft} : \A x \in Token :
             Has(native', h, x) <=> IF x = t THEN h = Bnft ELSE Has(native, h, x)
    BY <1>1, MovedIs DEF Mint
  <1>3. \A v \in User : ~Has(bnft, v, t)
    BY <1>1 DEF IInv, Ledgers, Sole, Held
  <1>4. /\ bnft \in [User -> Seq(Token)] /\ bnft[u] \in Seq(Token) /\ IsInjective(bnft[u])
        /\ bnft' = [bnft EXCEPT ![u] = Append(bnft[u], t)]
    BY DEF IInv, Ledgers, Sole, Mint
  <1>5. /\ Append(bnft[u], t) \in Seq(Token) /\ IsInjective(Append(bnft[u], t))
        /\ ToSet(Append(bnft[u], t)) = ToSet(bnft[u]) \cup {t}
    BY <1>3, <1>4, AppendIs DEF Has
  <1>6. /\ bnft' \in [User -> Seq(Token)]
        /\ \A v \in User : IsInjective(bnft'[v])
        /\ \A v \in User, x \in Token : Has(bnft', v, x) <=> Has(bnft, v, x) \/ (v = u /\ x = t)
    BY <1>4, <1>5 DEF Has, IInv, Ledgers, Sole
  <1>7. Ledgers'
    <2>1. \A x \in Token : \E h \in User \cup {Bnft} : Has(native', h, x)
      BY <1>2 DEF IInv, Ledgers
    <2>2. \A x \in Token : \A v \in User : Has(bnft', v, x) => Has(native', Bnft, x)
      BY <1>2, <1>6 DEF IInv, Ledgers, Held
    <2>3. ASSUME NEW x \in Token, NEW v \in User, NEW w \in User, Has(bnft', v, x), Has(bnft', w, x)
          PROVE  v = w
      <3>1. CASE x = t
        BY <1>3, <1>6, <2>3, <3>1
      <3>2. CASE x # t
        BY <1>6, <2>3, <3>2 DEF IInv, Ledgers, Sole
      <3> QED
        BY <3>1, <3>2
    <2>4. Sole(native, User \cup {Bnft})' /\ Sole(bnft, User)'
      BY <1>2, <1>6, <2>3 DEF Sole, Has
    <2> QED
      BY <2>1, <2>2, <2>4 DEF Ledgers, Has, Held
  <1> QED
    BY <1>7, PrizesStay, MeanwhileKeeps DEF Mint

LEMMA BurnKeeps ==
    ASSUME IInv, NEW t \in Token, NEW u \in User, Burn(t, u)
    PROVE  IInv'
  <1>1. Sole(native, User \cup {Bnft}) /\ Has(native, Bnft, t) /\ u # Bnft
    BY UserAssumption DEF IInv, Ledgers, Burn, Held
  <1>2. /\ Sole(native', User \cup {Bnft})
        /\ \A h \in User \cup {Bnft} : \A x \in Token :
             Has(native', h, x) <=> IF x = t THEN h = u ELSE Has(native, h, x)
    BY <1>1, MovedIs DEF Burn
  <1>3. /\ bnft \in [User -> Seq(Token)] /\ bnft[u] \in Seq(Token) /\ IsInjective(bnft[u])
        /\ t \in ToSet(bnft[u]) /\ bnft' = [bnft EXCEPT ![u] = Without(bnft[u], t)]
    BY DEF IInv, Ledgers, Sole, Burn, Has
  <1>4. /\ Without(bnft[u], t) \in Seq(Token) /\ IsInjective(Without(bnft[u], t))
        /\ ToSet(Without(bnft[u], t)) = ToSet(bnft[u]) \ {t}
    BY <1>3, WithoutIs
  <1>5. /\ bnft' \in [User -> Seq(Token)]
        /\ \A v \in User : IsInjective(bnft'[v])
        /\ \A v \in User, x \in Token : Has(bnft', v, x) <=> Has(bnft, v, x) /\ ~(v = u /\ x = t)
    BY <1>3, <1>4 DEF Has, IInv, Ledgers, Sole
  <1>6. \A v \in User : ~Has(bnft', v, t)
    BY <1>3, <1>5 DEF IInv, Ledgers, Sole, Has
  <1>7. Ledgers'
    <2>1. \A x \in Token : \E h \in User \cup {Bnft} : Has(native', h, x)
      BY <1>2 DEF IInv, Ledgers
    <2>2. \A x \in Token : \A v \in User : Has(bnft', v, x) => Has(native', Bnft, x)
      BY <1>2, <1>5, <1>6 DEF IInv, Ledgers, Held
    <2>3. \A x \in Token : \A v, w \in User : Has(bnft', v, x) /\ Has(bnft', w, x) => v = w
      BY <1>5 DEF IInv, Ledgers, Sole
    <2>4. Sole(native, User \cup {Bnft})' /\ Sole(bnft, User)'
      BY <1>2, <1>5, <2>3 DEF Sole, Has
    <2> QED
      BY <2>1, <2>2, <2>4 DEF Ledgers, Has, Held
  <1> QED
    BY <1>7, PrizesStay, MeanwhileKeeps DEF Burn

\* The airdrop project pays for NFTs it has not paid for: the prizes of each kind
\* grow by the NFTs paid for.
LEMMA PaidIs ==
    ASSUME Prizes, NEW ids \in Seq(Token), ProjectPays(ids), Paid(ids)
    PROVE  /\ Prizes'
           /\ UNCHANGED <<ledgers, tokenType, listed, erc1155Ids, strayed>>
           /\ purse'["dist"] = purse["dist"]
           /\ \A t \in Token : airdropped[t] # "no" => airdropped'[t] = airdropped[t]
           /\ \A k \in Kinds : Cardinality(PaidFor(k)) <= purse["bnft"][k] + purse["dist"][k] =>
                                Cardinality(PaidFor(k)') <= purse'["bnft"][k] + purse'["dist"][k]
  <1> DEFINE new(k) == {t \in ToSet(ids) : Kind(t) = k}
  <1>1. ToSet(ids) \in SUBSET Token
    BY DEF ToSet
  <1>2. \A k : IsFiniteSet(new(k)) /\ Cardinality(new(k)) \in Nat
    BY <1>1, TokenAssumption, FS_Subset, FS_CardinalityType
  <1>3. UNCHANGED <<ledgers, tokenType, listed, erc1155Ids, strayed>>
    BY DEF Paid
  <1>4. /\ purse' \in [{"bnft", "dist"} -> [Kinds -> Nat]] /\ purse'["dist"] = purse["dist"]
        /\ \A k \in Kinds : purse'["bnft"][k] = purse["bnft"][k] + Cardinality(new(k))
    <2>1. purse' = [purse EXCEPT !["bnft"] = [k \in Kinds |-> purse["bnft"][k] + Cardinality(new(k))]]
      BY DEF Paid
    <2> HIDE DEF new
    <2>2. \A k \in Kinds : purse["bnft"][k] + Cardinality(new(k)) \in Nat
      BY <1>2 DEF Prizes
    <2> QED
      BY <2>1, <2>2 DEF Prizes
  <1>5. /\ airdropped' \in [Token -> {"no", "bnft", "owner"}]
        /\ \A t \in Token : airdropped'[t] = IF t \in ToSet(ids) THEN "bnft" ELSE airdropped[t]
        /\ \A t \in ToSet(ids) : airdropped[t] = "no"
    BY DEF Prizes, Paid, ProjectPays
  <1>6. \A t \in Token : airdropped[t] # "no" => airdropped'[t] = airdropped[t]
    BY <1>5
  <1>7. Prizes'
    BY <1>3, <1>4, <1>5 DEF Prizes, Has
  <1>8. \A t : Kind(t)' = Kind(t)
    BY <1>3 DEF Kind
  <1>9. ASSUME NEW k \in Kinds
        PROVE  /\ Cardinality(PaidFor(k)') \in Nat /\ Cardinality(PaidFor(k)) \in Nat
               /\ Cardinality(PaidFor(k)') <= Cardinality(PaidFor(k)) + Cardinality(new(k))
    <2>1. PaidFor(k)' = PaidFor(k) \cup new(k)
      BY <1>1, <1>5, <1>8 DEF PaidFor
    <2>2. IsFiniteSet(PaidFor(k)) /\ Cardinality(PaidFor(k)) \in Nat
      BY DueIs
    <2>3. /\ Cardinality(PaidFor(k) \cup new(k))
               = Cardinality(PaidFor(k)) + Cardinality(new(k)) - Cardinality(PaidFor(k) \cap new(k))
          /\ Cardinality(PaidFor(k) \cap new(k)) \in Nat
          /\ IsFiniteSet(PaidFor(k) \cup new(k))
      <3>1. IsFiniteSet(PaidFor(k) \cap new(k))
        BY <2>2, FS_Subset
      <3> QED
        BY <1>2, <2>2, <3>1, FS_Union, FS_CardinalityType
    <2>4. Cardinality(PaidFor(k)') \in Nat
      BY <2>1, <2>3, FS_CardinalityType
    <2> HIDE DEF new
    <2> QED
      BY <1>2, <2>1, <2>2, <2>3, <2>4
  <1>10. ASSUME NEW k \in Kinds, Cardinality(PaidFor(k)) <= purse["bnft"][k] + purse["dist"][k]
         PROVE  Cardinality(PaidFor(k)') <= purse'["bnft"][k] + purse'["dist"][k]
    <2>1. purse["bnft"][k] \in Nat /\ purse["dist"][k] \in Nat
      BY DEF Prizes
    <2> HIDE DEF new
    <2> QED
      BY <1>2, <1>4, <1>9, <1>10, <2>1
  <1> QED
    BY <1>3, <1>4, <1>6, <1>7, <1>10

LEMMA ExecuteAirdropKeeps ==
    ASSUME IInv, NEW t \in Token, ExecuteAirdrop(t)
    PROVE  IInv'
  <1>1. <<t>> \in Seq(Token) /\ ProjectPays(<<t>>) /\ Paid(<<t>>) /\ Meanwhile /\ Prizes
    BY DEF ExecuteAirdrop, IInv
  <1>2. /\ Prizes'
        /\ UNCHANGED <<ledgers, tokenType, listed, erc1155Ids, strayed>>
        /\ purse'["dist"] = purse["dist"]
        /\ \A x \in Token : airdropped[x] # "no" => airdropped'[x] = airdropped[x]
        /\ \A k \in Kinds : Cardinality(PaidFor(k)) <= purse["bnft"][k] + purse["dist"][k] =>
                             Cardinality(PaidFor(k)') <= purse'["bnft"][k] + purse'["dist"][k]
    BY <1>1, PaidIs
  <1> QED
    BY <1>1, <1>2, LedgersStay, MeanwhileKeeps DEF IInv, Accounts

LEMMA ApplyAirdropKeeps ==
    ASSUME IInv, NEW t \in Token, dev_apply_airdrop(t)
    PROVE  IInv'
  <1>1. /\ Meanwhile /\ airdropped[t] = "no" /\ airdropped' = [airdropped EXCEPT ![t] = "owner"]
        /\ UNCHANGED <<ledgers, tokenType, purse, listed, erc1155Ids, strayed>>
    BY DEF dev_apply_airdrop
  <1>2. /\ Prizes'
        /\ \A x \in Token : airdropped[x] # "no" => airdropped'[x] = airdropped[x]
    BY <1>1 DEF IInv, Prizes, Has
  <1>3. \A x : Kind(x)' = Kind(x)
    BY <1>1 DEF Kind
  <1>4. \A k : PaidFor(k)' = PaidFor(k)
    BY <1>1, <1>3 DEF PaidFor, IInv, Prizes
  <1> QED
    BY <1>1, <1>2, <1>4, LedgersStay, MeanwhileKeeps DEF IInv, Accounts

LEMMA AdminClaimKeeps ==
    ASSUME IInv, NEW k \in Kinds, admin_claim_airdrop(k)
    PROVE  IInv'
  <1>1. /\ Meanwhile /\ purse["bnft"][k] > 0 /\ purse' = [purse EXCEPT !["bnft"][k] = @ - 1] /\ strayed'
        /\ UNCHANGED <<ledgers, tokenType, airdropped, listed, erc1155Ids>>
    BY DEF admin_claim_airdrop
  <1>2. Prizes'
    <2>1. purse \in [{"bnft", "dist"} -> [Kinds -> Nat]] /\ purse["bnft"][k] \in Nat
      BY DEF IInv, Prizes
    <2>2. purse["bnft"][k] - 1 \in Nat
      BY <1>1, <2>1
    <2>3. purse' \in [{"bnft", "dist"} -> [Kinds -> Nat]]
      BY <1>1, <2>1, <2>2
    <2> QED
      BY <1>1, <2>3 DEF IInv, Prizes, Has
  <1> QED
    BY <1>1, <1>2, LedgersStay, MeanwhileKeeps
-----------------------------------------------------------------------------
(* Reading the tokens of an owner, and the users of a list. *)

Unstarted == [job : Jobs, pc : Pcs, user : User, num : Nat, idx : Nat, tries : {-1, 0, 1},
              cur : Nat, ids : Seq(Token), users : Seq(User), scanned : BOOLEAN, unclean : BOOLEAN,
              errs : Nat, disturbed : BOOLEAN, late : BOOLEAN]

\* The end of the body of a loop: another try, the next entry or past the last.
LEMMA LoopStepIs ==
    ASSUME NEW q \in Unstarted, q.idx < q.num, NEW after \in Pcs, NEW r, r = LoopStep(q, q.num, after)
    PROVE  /\ r \in Records
           /\ r.job = q.job /\ r.user = q.user /\ r.num = q.num /\ r.cur = q.cur
           /\ r.ids = q.ids /\ r.users = q.users /\ r.disturbed = q.disturbed /\ r.late = q.late
           /\ r.scanned = q.scanned /\ r.errs = q.errs
           /\ \/ q.tries = 1 /\ r.idx = q.idx /\ r.tries = 1 /\ r.pc = q.pc
              \/ q.tries # 1 /\ r.idx = q.idx + 1 /\ r.idx <= r.num /\ r.tries = 3
                 /\ ((r.idx < r.num /\ r.pc = q.pc) \/ (r.idx = r.num /\ r.pc = after))
  <1>1. CASE q.tries = 1
    <2>1. r = q
      BY <1>1 DEF LoopStep
    <2> QED
      BY <1>1, <2>1 DEF Unstarted, Records, Tries
  <1>2. CASE q.tries # 1
    <2>1. q.tries \in {-1, 0} /\ ~(q.tries > 0) /\ q.idx + 1 \in Nat /\ q.idx + 1 <= q.num
      BY <1>2 DEF Unstarted
    <2> DEFINE pc == IF q.idx + 1 = q.num THEN after ELSE q.pc
    <2>2. r = [q EXCEPT !.idx = @ + 1, !.tries = 3, !.pc = pc] /\ pc \in Pcs
      BY <2>1 DEF LoopStep, Tries, Unstarted
    <2> HIDE DEF pc
    <2>3. /\ r.idx = q.idx + 1 /\ r.tries = 3 /\ r.pc = pc
          /\ r.job = q.job /\ r.user = q.user /\ r.num = q.num /\ r.cur = q.cur
          /\ r.ids = q.ids /\ r.users = q.users /\ r.disturbed = q.disturbed /\ r.late = q.late
          /\ r.scanned = q.scanned /\ r.errs = q.errs
      BY <2>2 DEF Unstarted
    <2>4. r \in Records
      <3>1. 3 \in 0..Tries
        BY DEF Tries
      <3>2. q.idx + 1 \in Nat
        BY <2>1
      <3> QED
        BY <2>2, <3>1, <3>2 DEF Unstarted, Records
    <2>5. q.num \in Nat /\ q.idx \in Nat
      BY DEF Unstarted
    <2>6. r.num = q.num /\ r.idx <= r.num /\ (r.idx < r.num \/ r.idx = r.num)
      BY <2>1, <2>3, <2>5
    <2>7. (r.idx < r.num /\ r.pc = q.pc) \/ (r.idx = r.num /\ r.pc = after)
      <3>1. CASE q.idx + 1 = q.num
        BY <2>3, <2>6, <3>1 DEF pc
      <3>2. CASE q.idx + 1 # q.num
        BY <2>3, <2>6, <3>2 DEF pc
      <3> QED
        BY <3>1, <3>2
    <2> QED
      BY <1>2, <2>3, <2>4, <2>6, <2>7
  <1> QED
    BY <1>1, <1>2

\* A step within the scan of a task's tokens.
LEMMA ScanStepKeeps ==
    ASSUME IInv, UNCHANGED <<world, flying>>, p.job \in ScanJobs, p' \in Records, p'.job = p.job,
           \/ p'.pc \in {"tokenOfOwnerByIndex", "canClaim"} /\ p'.idx < p'.num /\ p'.tries \in {1, 3}
           \/ p'.pc \in {"send", "done", "reverted", "thrown"},
           p'.pc = "canClaim" => p'.cur \in Token
    PROVE  IInv'
  <1>1. Places'
    BY DEF Places, ScanPlaces, OwnerPlaces, LoopPlaces, ConfigurePlaces, PrizePlaces, ToListPlaces
  <1>2. Pairing' /\ Configuring'
    BY DEF Pairing, Configuring, ScanJobs
  <1> QED
    BY <1>1, <1>2, SameWorldKeeps DEF ToListPlaces

\* The tokens a scan reads are tokens.
LEMMA ScannedIs ==
    ASSUME IInv, p.job \in ScanJobs
    PROVE  Scanned \in Seq(Token)
  <1>1. /\ native \in [User \cup {Bnft} -> Seq(Token)] /\ bnft \in [User -> Seq(Token)] /\ p.user \in User
    BY DEF IInv, Ledgers, Sole, Places, Records
  <1> QED
    BY <1>1 DEF Scanned, ScanJobs

LEMMA ReadBalanceKeeps ==
    ASSUME IInv, ReadBalance
    PROVE  IInv'
  <1>1. p \in Records /\ p.job \in ScanJobs /\ p.pc = "balanceOf"
    BY DEF IInv, Places, ScanPlaces, ReadBalance, At
  <1> DEFINE n  == Len(Scanned)
             pc == IF Scanned = <<>> THEN "send" ELSE "tokenOfOwnerByIndex"
  <1>2. n \in Nat /\ (Scanned # <<>> => n > 0)
    BY <1>1, ScannedIs, EmptySeq
  <1>3. pc \in Pcs /\ 3 \in 0..Tries
    BY DEF Pcs, ScanPlaces, Tries
  <1>4. /\ p' = [p EXCEPT !.num = n, !.tries = 3, !.pc = pc]
        /\ UNCHANGED <<world, flying>>
    BY DEF ReadBalance, Local, Tries
  <1> HIDE DEF n
  <1>5. pc = "send" \/ (pc = "tokenOfOwnerByIndex" /\ n > 0)
    BY <1>2
  <1> HIDE DEF pc
  <1>6. p' \in Records
    BY <1>1, <1>2, <1>3, <1>4 DEF Records
  <1>7. p'.pc = pc /\ p'.job = p.job /\ p'.idx = p.idx /\ p'.num = n /\ p'.tries = 3
    BY <1>1, <1>4 DEF Records
  <1>8. p.idx = 0
    BY <1>1 DEF IInv, Places
  <1> QED
    BY <1>1, <1>4, <1>5, <1>6, <1>7, <1>8, ScanStepKeeps

\* The end of the body of a scan's loop keeps the invariant.
LEMMA ScanLoopKeeps ==
    ASSUME IInv, UNCHANGED <<world, flying>>, p.job \in ScanJobs, NEW q \in Unstarted, q.idx < q.num,
           q.job = p.job, q.pc = "tokenOfOwnerByIndex", p' = LoopStep(q, q.num, "send")
    PROVE  IInv'
  <1>1. "send" \in Pcs
    BY DEF Pcs
  <1>2. /\ p' \in Records /\ p'.job = q.job /\ p'.num = q.num
        /\ \/ q.tries = 1 /\ p'.idx = q.idx /\ p'.tries = 1 /\ p'.pc = q.pc
           \/ q.tries # 1 /\ p'.idx = q.idx + 1 /\ p'.idx <= p'.num /\ p'.tries = 3
              /\ ((p'.idx < p'.num /\ p'.pc = q.pc) \/ (p'.idx = p'.num /\ p'.pc = "send"))
    BY <1>1, LoopStepIs
  <1> QED
    BY <1>2, ScanStepKeeps

\* An entry that failed once more.
LEMMA FailOnceIs ==
    ASSUME p \in Records, p.tries \in {1, 3}, NEW pc \in Pcs, NEW q,
           q = [FailOnce(p) EXCEPT !.pc = pc]
    PROVE  /\ q \in Unstarted /\ q.pc = pc /\ q.job = p.job /\ q.idx = p.idx /\ q.num = p.num
           /\ q.ids = p.ids /\ q.users = p.users /\ q.user = p.user /\ q.cur = p.cur
           /\ q.disturbed = p.disturbed /\ q.late = p.late /\ q.scanned = p.scanned
           /\ q.errs = p.errs + 1 /\ q.tries = p.tries - 2
  <1>1. q = [p EXCEPT !.tries = p.tries - 2, !.errs = p.errs + 1, !.pc = pc]
    BY DEF FailOnce, Records
  <1>2. p.tries - 2 \in {-1, 0, 1} /\ p.errs + 1 \in Nat
    BY DEF Records
  <1> QED
    BY <1>1, <1>2 DEF Records, Unstarted

LEMMA BodyFailsKeeps ==
    ASSUME IInv, BodyFails, p.pc \in {"tokenOfOwnerByIndex", "canClaim"}
    PROVE  IInv'
  <1> DEFINE q == [FailOnce(p) EXCEPT !.pc = "tokenOfOwnerByIndex"]
  <1>1. p \in Records /\ p.job \in ScanJobs /\ p.idx < p.num /\ p.tries \in {1, 3}
    BY DEF IInv, Places, ScanPlaces, LoopPlaces
  <1>2. "tokenOfOwnerByIndex" \in Pcs
    BY DEF Pcs, ScanPlaces
  <1>3. /\ q \in Unstarted /\ q.pc = "tokenOfOwnerByIndex" /\ q.job = p.job
        /\ q.idx = p.idx /\ q.num = p.num
    BY <1>1, <1>2, FailOnceIs
  <1>4. p' = LoopStep(q, p.num, "send") /\ UNCHANGED <<world, flying>>
    BY DEF BodyFails, Local
  <1> HIDE DEF q
  <1> QED
    BY <1>1, <1>3, <1>4, ScanLoopKeeps

LEMMA TokenReadKeeps ==
    ASSUME IInv, tokenOfOwnerByIndex
    PROVE  IInv'
  <1>1. p \in Records /\ p.pc = "tokenOfOwnerByIndex" /\ p.job \in ScanJobs /\ p.idx < p.num /\ p.tries \in {1, 3}
    BY DEF IInv, Places, ScanPlaces, LoopPlaces, tokenOfOwnerByIndex, At
  <1>2. CASE BodyFails
    BY <1>1, <1>2, BodyFailsKeeps
  <1>3. CASE p.idx < Len(Scanned) /\ p' = [p EXCEPT !.cur = Scanned[p.idx + 1], !.pc = "canClaim"] /\ Local
    <2>1. Scanned[p.idx + 1] \in Token
      <3>1. Scanned \in Seq(Token) /\ p.idx \in Nat
        BY <1>1, ScannedIs DEF Records
      <3>2. p.idx + 1 \in 1..Len(Scanned)
        BY <1>3, <3>1
      <3> QED
        BY <3>1, <3>2, ElementOfSeq
    <2> DEFINE t == Scanned[p.idx + 1]
    <2>2. t \in Nat /\ "canClaim" \in Pcs
      BY <2>1, TokenAssumption DEF Pcs, ScanPlaces
    <2>3. p' = [p EXCEPT !.cur = t, !.pc = "canClaim"] /\ UNCHANGED <<world, flying>>
      BY <1>3 DEF Local
    <2> HIDE DEF t
    <2>4. p' \in Records
      BY <1>1, <2>2, <2>3 DEF Records
    <2>5. p'.pc = "canClaim" /\ p'.cur = t /\ p'.job = p.job /\ p'.idx = p.idx /\ p'.num = p.num
          /\ p'.tries = p.tries
      BY <1>1, <2>3 DEF Records
    <2> QED
      BY <1>1, <2>1, <2>3, <2>4, <2>5, ScanStepKeeps DEF t
  <1> QED
    BY <1>2, <1>3 DEF tokenOfOwnerByIndex

LEMMA CanClaimKeeps ==
    ASSUME IInv, canClaim
    PROVE  IInv'
  <1>1. /\ p \in Records /\ p.pc = "canClaim" /\ p.job \in ScanJobs /\ p.idx < p.num /\ p.tries \in {1, 3}
        /\ p.cur \in Token
    BY DEF IInv, Places, ScanPlaces, LoopPlaces, canClaim, At
  <1>2. CASE BodyFails
    BY <1>1, <1>2, BodyFailsKeeps
  <1> DEFINE found == IF airdropped[p.cur] = "no" THEN Append(p.ids, p.cur) ELSE p.ids
             q     == [EndTries(p) EXCEPT !.ids = found, !.pc = "tokenOfOwnerByIndex"]
  <1>3. CASE p' = LoopStep(q, p.num, "send") /\ Local
    <2>1. found \in Seq(Token) /\ "tokenOfOwnerByIndex" \in Pcs
      BY <1>1 DEF Records, Pcs, ScanPlaces
    <2> HIDE DEF found
    <2>2. q = [p EXCEPT !.tries = 0, !.ids = found, !.pc = "tokenOfOwnerByIndex"]
      BY <1>1 DEF EndTries, Records
    <2>3. q \in Unstarted /\ q.pc = "tokenOfOwnerByIndex" /\ q.job = p.job /\ q.idx = p.idx /\ q.num = p.num
      BY <1>1, <2>1, <2>2 DEF Records, Unstarted
    <2> HIDE DEF q
    <2> QED
      BY <1>1, <1>3, <2>3, ScanLoopKeeps DEF Local
  <1> QED
    BY <1>2, <1>3 DEF canClaim

\* A task that ends changes nothing but its place.
LEMMA EndsIs ==
    ASSUME p \in Records, NEW how \in Pcs, Ends(how)
    PROVE  /\ p' \in Records /\ p'.pc = how /\ p'.job = p.job /\ p'.user = p.user /\ p'.num = p.num
           /\ p'.idx = p.idx /\ p'.tries = p.tries /\ p'.cur = p.cur /\ p'.ids = p.ids
           /\ p'.users = p.users /\ p'.disturbed = p.disturbed /\ p'.late = p.late
           /\ p'.scanned = p.scanned /\ p'.errs = p.errs
  BY DEF Ends, Records

\* A transaction is sent from its place, or refused because it would revert.
LEMMA SendTxKeeps ==
    ASSUME IInv, NEW fn \in Fns, SendTx(fn),
           \/ fn = "executeAirdrop" /\ p.pc = "send" /\ p.job \in ScanJobs
           \/ fn # "executeAirdrop" /\ p.pc = fn
    PROVE  IInv'
  <1> DEFINE t == [fn |-> fn, user |-> p.user, cur |-> p.cur, num |-> p.num, ids |-> p.ids]
  <1>1. p \in Records /\ flying \in Seq(Txs) /\ \A i \in 1..Len(flying) : OfConfigure(flying[i])
    BY DEF IInv, Places, Flying
  <1>2. fn # "executeAirdrop" => fn \in PrizePlaces /\ fn \in ConfigurePlaces
    BY DEF Fns, PrizePlaces, ConfigurePlaces
  <1>3. p.job # "azuki:distribution" /\ OfConfigure(t) /\ (fn \in ToListPlaces => flying = <<>>)
        /\ (fn # "executeAirdrop" => p.job = "dev:configure-airdrop-distribution")
    <2>1. CASE fn = "executeAirdrop"
      BY <2>1 DEF OfConfigure, ScanJobs, ToListPlaces
    <2>2. CASE fn # "executeAirdrop"
      <3>1. /\ p.pc = fn /\ p.job = "dev:configure-airdrop-distribution" /\ airdropped[p.cur] # "no"
            /\ p.cur \in Token
        BY <1>2, <2>2, MayListIs DEF IInv, Places
      <3> QED
        BY <3>1 DEF IInv, Flying, OfConfigure
    <2> QED
      BY <2>1, <2>2
  <1>4. t \in Txs
    BY <1>1 DEF Records, Txs
  <1>5. UNCHANGED <<world, seen>>
    BY DEF SendTx
  <1>6. "wait" \in Pcs /\ "reverted" \in Pcs
    BY DEF Pcs
  <1>7. CASE Ends("wait") /\ flying' = Append(flying, t)
    <2>1. /\ p' \in Records /\ p'.pc = "wait" /\ p'.job = p.job /\ p'.user = p.user /\ p'.num = p.num
          /\ p'.cur = p.cur /\ p'.ids = p.ids /\ p'.disturbed = p.disturbed /\ p'.late = p.late
      BY <1>1, <1>6, <1>7, EndsIs
    <2>2. /\ flying' \in Seq(Txs) /\ Len(flying') = Len(flying) + 1 /\ Len(flying) \in Nat
          /\ flying'[Len(flying) + 1] = t
          /\ \A i \in 1..Len(flying) : flying'[i] = flying[i]
      BY <1>1, <1>4, <1>7, AppendProperties
    <2>3. Own' = t /\ flying' # <<>> /\ (fn \in ToListPlaces => Len(flying') = 1)
      <3>1. flying = <<>> => Len(flying) = 0
        OBVIOUS
      <3>2. flying' = <<>> => Len(flying') = 0
        OBVIOUS
      <3> QED
        BY <1>3, <2>2, <3>1, <3>2 DEF Own
    <2> HIDE DEF t
    <2>4. \A i \in 1..Len(flying') : i \in 1..Len(flying) \/ flying'[i] = t
      BY <2>2
    <2>5. t.fn = fn /\ t.user = p.user /\ t.cur = p.cur /\ t.num = p.num /\ t.ids = p.ids
      BY DEF t
    <2>6. Ledgers' /\ Prizes' /\ \A k : Due(k)' = Due(k) /\ PaidFor(k)' = PaidFor(k)
      BY <1>5, SameWorldIs
    <2>7. UNCHANGED <<tokenType, airdropped, purse, listed, erc1155Ids, strayed>>
          /\ \A x : Kind(x)' = Kind(x) /\ Deed(x)' = Deed(x)
      BY <1>5, SameWorldIs
    <2>8. Places'
      BY <2>1 DEF Places, ScanPlaces, OwnerPlaces, LoopPlaces, ConfigurePlaces, PrizePlaces, ToListPlaces
    <2>9. (\A i \in 1..Len(flying) : OfConfigure(flying[i]))'
      BY <1>1, <1>3, <2>2, <2>4, <2>7 DEF OfConfigure
    <2>10. Flying'
      BY <1>3, <2>1, <2>2, <2>3, <2>5, <2>9 DEF Flying, ToListPlaces
    <2>11. Pairing'
      BY <1>3, <2>1 DEF Pairing
    <2>12. ASSUME NEW x \in Fns, Sending(x)' PROVE x = fn /\ (fn # "executeAirdrop" => Sending(x))
      BY <2>1, <2>3, <2>5, <2>12 DEF Sending, Fns, ToListPlaces
    <2>13. Configuring'
      <3> SUFFICES ASSUME p.job = "dev:configure-airdrop-distribution" PROVE Configuring'
        BY <2>1 DEF Configuring
      <3>1. fn # "executeAirdrop" /\ p.pc = fn /\ fn \in {"claimERCXXXAirdrop"} \cup ToListPlaces
        BY DEF ScanJobs, Fns
      <3>2. p.cur \in Token /\ (~p.disturbed => p.user \in Deed(p.cur))
        BY <3>1 DEF IInv, Configuring
      <3>3. Sending("configureNftUserTokenIds")' => listed[p.user] = <<>>
        BY <2>12, <3>1 DEF IInv, Configuring, Fns, ToListPlaces
      <3>4. tokenType = "erc1155" /\ (Sending("clearNftUserTokenIds")' \/ Sending("configureNftUserTokenIds")')
               => erc1155Ids = {Kind(p.cur)}
        BY <2>12, <3>1 DEF IInv, Configuring, Fns, ToListPlaces
      <3>5. ~p.disturbed /\ ~p.late /\ Sending("claimERCXXXAirdrop")' => p.num = AmountOf(Kind(p.cur))
        BY <2>12, <3>1 DEF IInv, Configuring, Fns
      <3>6. AmountOf(Kind(p.cur))' = AmountOf(Kind(p.cur)) /\ Kind(p.cur)' = Kind(p.cur)
        BY <2>1, <2>7 DEF AmountOf
      <3> QED
        BY <2>1, <2>7, <3>2, <3>3, <3>4, <3>5, <3>6 DEF Configuring
    <2>14. \A x : MayList(x)' => MayList(x)
      <3> SUFFICES ASSUME NEW x, MayList(x)' PROVE MayList(x)
        OBVIOUS
      <3>1. PICK i \in 1..Len(flying') : flying'[i].fn \in ToListPlaces /\ flying'[i].cur = x
        BY <2>1 DEF MayList, ToListPlaces
      <3>2. CASE i \in 1..Len(flying)
        BY <2>2, <3>1, <3>2 DEF MayList
      <3>3. CASE flying'[i] = t
        BY <2>5, <3>1, <3>3 DEF MayList, ToListPlaces
      <3> QED
        BY <2>4, <3>2, <3>3
    <2>15. \A k : DueNext(k)' \subseteq DueNext(k)
      BY <2>6, <2>14 DEF DueNext, Coming
    <2>16. Accounts'
      <3>1. p.num \in Nat
        BY <1>1 DEF Records
      <3>2. Sending("claimERCXXXAirdrop")' => Sending("claimERCXXXAirdrop")
        BY <2>12 DEF Fns
      <3>3. \A k \in Kinds : purse["dist"][k] >= purse["dist"][k]
        BY DEF IInv, Prizes
      <3>4. ~strayed => \A k \in Kinds : Cardinality(PaidFor(k)) <= purse["bnft"][k] + purse["dist"][k]
        BY DEF IInv, Accounts
      <3> QED
        BY <2>1, <2>6, <2>7, <2>15, <3>1, <3>2, <3>3, <3>4, AccountsKeep
    <2> QED
      BY <2>6, <2>8, <2>10, <2>11, <2>13, <2>16 DEF IInv
  <1>8. CASE ~Succeeds(t) /\ Ends("reverted") /\ UNCHANGED flying
    <2>1. /\ p' \in Records /\ p'.pc = "reverted" /\ p'.job = p.job /\ p'.cur = p.cur
          /\ p'.disturbed = p.disturbed /\ p'.late = p.late
      BY <1>1, <1>6, <1>8, EndsIs
    <2>2. Places' /\ Pairing'
      BY <1>3, <2>1 DEF Places, Pairing, ScanPlaces, OwnerPlaces, LoopPlaces, ConfigurePlaces, PrizePlaces,
                        ToListPlaces
    <2>3. Configuring'
      <3> SUFFICES ASSUME p.job = "dev:configure-airdrop-distribution" PROVE Configuring'
        BY <2>1 DEF Configuring
      <3>1. fn # "executeAirdrop" /\ p.pc = fn /\ p.cur \in Token
        BY DEF ScanJobs, IInv, Configuring
      <3>2. fn = "claimERCXXXAirdrop" /\ ~(p.num <= purse["bnft"][Kind(p.cur)])
        BY <1>8, <3>1 DEF Succeeds, Fns
      <3>3. ~p.disturbed /\ ~p.late => tokenType = "erc721" /\ purse["bnft"][p.cur] = 0
        <4> DEFINE k == Kind(p.cur)
        <4>1. ~p.disturbed /\ ~p.late => p.num = AmountOf(k)
          BY <3>1, <3>2 DEF IInv, Configuring, Sending
        <4>2. k \in Kinds /\ purse["bnft"][k] \in Nat /\ p.num \in Nat
          BY <1>1, <3>1, KindIs DEF IInv, Prizes, Records
        <4>3. tokenType # "erc721" => AmountOf(k) = purse["bnft"][k]
          BY DEF AmountOf
        <4>4. tokenType = "erc721" => AmountOf(k) = 1 /\ k = p.cur
          BY DEF AmountOf, Kind
        <4>5. ~(p.num <= purse["bnft"][k])
          BY <3>2
        <4> HIDE DEF k
        <4> QED
          BY <4>1, <4>2, <4>3, <4>4, <4>5
      <3>4. UNCHANGED <<tokenType, airdropped, purse, listed, erc1155Ids>>
            /\ \A x : Kind(x)' = Kind(x) /\ Deed(x)' = Deed(x)
        BY <1>5, SameWorldIs
      <3> QED
        BY <2>1, <3>1, <3>3, <3>4 DEF Configuring, Sending, ToListPlaces
    <2> QED
      BY <1>5, <1>8, <2>1, <2>2, <2>3, SameWorldKeeps DEF ToListPlaces
  <1> QED
    BY <1>7, <1>8 DEF SendTx

LEMMA SendKeeps ==
    ASSUME IInv, Send
    PROVE  IInv'
  <1>1. p \in Records /\ p.pc = "send" /\ p.job \in ScanJobs
    BY DEF IInv, Places, Send, At
  <1>2. CASE SendTx("executeAirdrop")
    BY <1>1, <1>2, SendTxKeeps DEF Fns
  <1>3. CASE ~SendTx("executeAirdrop")
    <2>1. PICK how \in {"thrown", "done"} : Ends(how) /\ UNCHANGED <<world, flying>>
      BY <1>3 DEF Send, Local
    <2>2. how \in Pcs
      BY DEF Pcs
    <2>3. p' \in Records /\ p'.pc = how /\ p'.job = p.job
      BY <1>1, <2>1, <2>2, EndsIs
    <2> QED
      BY <1>1, <2>1, <2>3, ScanStepKeeps
  <1> QED
    BY <1>2, <1>3


\* The end of the body of the loop over a list: no user found for the entry, or
\* one who held the token at some moment of the run, or had it bound.
LEMMA OwnerLoopKeeps ==
    ASSUME IInv, Local, p.job = "azuki:distribution",
           NEW q \in Unstarted, q.idx < q.num, q.job = p.job, q.pc = "ownerOf",
           q.idx = p.idx, q.num = p.num, q.ids = p.ids,
           \/ q.users = p.users
           \/ q.tries = 0 /\ \E u \in User : q.users = Append(p.users, u) /\ <<p.ids[p.idx + 1], u>> \in seen,
           p' = LoopStep(q, q.num, "check")
    PROVE  IInv'
  <1>1. "check" \in Pcs
    BY DEF Pcs, OwnerPlaces
  <1>2. /\ p' \in Records /\ p'.job = q.job /\ p'.num = q.num /\ p'.ids = q.ids /\ p'.users = q.users
        /\ \/ q.tries = 1 /\ p'.idx = q.idx /\ p'.tries = 1 /\ p'.pc = q.pc
           \/ q.tries # 1 /\ p'.idx = q.idx + 1 /\ p'.idx <= p'.num /\ p'.tries = 3
              /\ ((p'.idx < p'.num /\ p'.pc = q.pc) \/ (p'.idx = p'.num /\ p'.pc = "check"))
    BY <1>1, LoopStepIs
  <1>3. Places'
    BY <1>2 DEF Places, ScanPlaces, OwnerPlaces, LoopPlaces, ConfigurePlaces, PrizePlaces, ToListPlaces
  <1>4. UNCHANGED <<world, flying>> /\ Owners' = Owners /\ seen' = seen
    BY DEF Local, world, ledgers, Owners, Has
  <1>5. /\ Owners \subseteq seen /\ p.num = Len(p.ids) /\ Len(p.users) <= p.idx /\ p.idx <= p.num
        /\ Len(p.users) = p.idx => \A i \in 1..p.idx : <<p.ids[i], p.users[i]>> \in seen
    BY DEF IInv, Pairing
  <1>6. p.idx \in Nat /\ p.users \in Seq(User) /\ Len(p.users) \in Nat
    BY DEF IInv, Places, Records
  <1>7. /\ Len(p'.users) <= p'.idx
        /\ Len(p'.users) = p'.idx => \A i \in 1..p'.idx : <<p'.ids[i], p'.users[i]>> \in seen
    <2>1. CASE q.users = p.users
      BY <1>2, <1>5, <1>6, <2>1
    <2>2. CASE q.tries = 0 /\ \E u \in User : q.users = Append(p.users, u) /\ <<p.ids[p.idx + 1], u>> \in seen
      <3>1. PICK u \in User : q.users = Append(p.users, u) /\ <<p.ids[p.idx + 1], u>> \in seen
        BY <2>2
      <3>2. /\ Len(p'.users) = Len(p.users) + 1 /\ p'.users[Len(p.users) + 1] = u
            /\ \A i \in 1..Len(p.users) : p'.users[i] = p.users[i]
        <4>1. p'.users = Append(p.users, u)
          BY <1>2, <3>1
        <4>2. /\ Len(Append(p.users, u)) = Len(p.users) + 1
              /\ Append(p.users, u)[Len(p.users) + 1] = u
              /\ \A i \in 1..Len(p.users) : Append(p.users, u)[i] = p.users[i]
          BY <1>6, AppendProperties
        <4> QED
          BY <4>1, <4>2
      <3>3. p'.idx = p.idx + 1 /\ p'.ids = p.ids
        BY <1>2, <2>2
      <3>4. Len(p'.users) <= p'.idx
        BY <1>5, <1>6, <3>2, <3>3
      <3>5. ASSUME Len(p'.users) = p'.idx, NEW i \in 1..p'.idx
            PROVE  <<p'.ids[i], p'.users[i]>> \in seen
        <4>1. Len(p.users) = p.idx
          BY <1>6, <3>2, <3>3, <3>5
        <4>2. CASE i = p.idx + 1
          BY <3>1, <3>2, <3>3, <4>1, <4>2
        <4>3. CASE i # p.idx + 1
          <5>1. i \in 1..p.idx
            BY <1>6, <3>3, <3>5, <4>3
          <5> QED
            BY <1>5, <3>2, <3>3, <4>1, <5>1
        <4> QED
          BY <4>2, <4>3
      <3> QED
        BY <3>4, <3>5
    <2> QED
      BY <2>1, <2>2
  <1>8. p'.pc # "done" /\ p'.num = Len(p'.ids) /\ p'.idx <= p'.num
    BY <1>2, <1>5
  <1>9. Pairing'
    BY <1>4, <1>5, <1>7, <1>8 DEF Pairing
  <1>10. Configuring' /\ p'.pc \notin {"claimERCXXXAirdrop", "wait"} \cup ToListPlaces
    BY <1>2 DEF Configuring, ToListPlaces
  <1> QED
    BY <1>3, <1>4, <1>9, <1>10, SameWorldKeeps

\* What holds where a user is looked up.
LEMMA AtOwner ==
    ASSUME IInv, p.pc \in {"ownerOf", "bnftOwnerOf"}
    PROVE  /\ p \in Records /\ p.job = "azuki:distribution" /\ p.idx < p.num /\ p.tries \in {1, 3}
           /\ p.ids[p.idx + 1] \in Token
           /\ "ownerOf" \in Pcs /\ "bnftOwnerOf" \in Pcs
  <1>1. p \in Records /\ p.job = "azuki:distribution" /\ p.idx < p.num /\ p.tries \in {1, 3}
    BY DEF IInv, Places, OwnerPlaces, LoopPlaces
  <1>2. p.ids \in Seq(Token) /\ p.idx \in Nat /\ p.num = Len(p.ids)
    BY <1>1 DEF IInv, Pairing, Records
  <1>3. p.idx + 1 \in 1..Len(p.ids)
    BY <1>1, <1>2
  <1>4. "ownerOf" \in Pcs /\ "bnftOwnerOf" \in Pcs
    BY DEF Pcs, OwnerPlaces
  <1> QED
    BY <1>1, <1>2, <1>3, <1>4, ElementOfSeq

LEMMA OwnerFailsKeeps ==
    ASSUME IInv, OwnerFails, p.pc \in {"ownerOf", "bnftOwnerOf"}
    PROVE  IInv'
  <1> DEFINE q == [FailOnce(p) EXCEPT !.pc = "ownerOf"]
  <1>1. p \in Records /\ p.job = "azuki:distribution" /\ p.idx < p.num /\ p.tries \in {1, 3} /\ "ownerOf" \in Pcs
    BY AtOwner
  <1>2. /\ q \in Unstarted /\ q.pc = "ownerOf" /\ q.job = p.job /\ q.idx = p.idx /\ q.num = p.num
        /\ q.ids = p.ids /\ q.users = p.users
    BY <1>1, FailOnceIs
  <1>3. p' = LoopStep(q, p.num, "check") /\ Local
    BY DEF OwnerFails
  <1> HIDE DEF q
  <1> QED
    BY <1>1, <1>2, <1>3, OwnerLoopKeeps

LEMMA UserFoundKeeps ==
    ASSUME IInv, NEW u \in User, UserFound(u), p.pc \in {"ownerOf", "bnftOwnerOf"},
           Has(native, u, p.ids[p.idx + 1]) \/ Has(bnft, u, p.ids[p.idx + 1])
    PROVE  IInv'
  <1> DEFINE us == Append(p.users, u)
             q  == [EndTries(p) EXCEPT !.users = us, !.pc = "ownerOf"]
  <1>1. /\ p \in Records /\ p.job = "azuki:distribution" /\ p.idx < p.num /\ "ownerOf" \in Pcs
        /\ p.ids[p.idx + 1] \in Token
    BY AtOwner
  <1>2. us \in Seq(User)
    BY <1>1 DEF Records
  <1>3. p' = LoopStep(q, p.num, "check") /\ Local
    BY <1>1 DEF UserFound, EndTries, Records
  <1>4. <<p.ids[p.idx + 1], u>> \in seen
    <2>1. <<p.ids[p.idx + 1], u>> \in Owners
      BY <1>1 DEF Owners
    <2> QED
      BY <1>1, <2>1 DEF IInv, Pairing
  <1>5. \E v \in User : us = Append(p.users, v) /\ <<p.ids[p.idx + 1], v>> \in seen
    BY <1>4
  <1> HIDE DEF us
  <1>6. q = [p EXCEPT !.tries = 0, !.users = us, !.pc = "ownerOf"]
    BY <1>1 DEF EndTries, Records
  <1>7. /\ q \in Unstarted /\ q.pc = "ownerOf" /\ q.job = p.job /\ q.idx = p.idx /\ q.num = p.num
        /\ q.ids = p.ids /\ q.users = us /\ q.tries = 0
    BY <1>1, <1>2, <1>6 DEF Records, Unstarted
  <1> HIDE DEF q
  <1> QED
    BY <1>1, <1>3, <1>5, <1>7, OwnerLoopKeeps

LEMMA OwnerOfKeeps ==
    ASSUME IInv, ownerOf
    PROVE  IInv'
  <1>1. p.pc = "ownerOf"
    BY DEF ownerOf, At
  <1>2. CASE \E u \in User : Has(native, u, p.ids[p.idx + 1]) /\ UserFound(u)
    BY <1>1, <1>2, UserFoundKeeps
  <1>3. CASE OwnerFails
    BY <1>1, <1>3, OwnerFailsKeeps
  <1>4. CASE p' = [p EXCEPT !.pc = "bnftOwnerOf"] /\ Local
    <2>1. p \in Records /\ p.job = "azuki:distribution" /\ p.idx < p.num /\ p.tries \in {1, 3} /\ "bnftOwnerOf" \in Pcs
      BY <1>1, AtOwner
    <2>2. /\ p' \in Records /\ p'.pc = "bnftOwnerOf" /\ p'.job = p.job /\ p'.num = p.num /\ p'.idx = p.idx
          /\ p'.tries = p.tries /\ p'.ids = p.ids /\ p'.users = p.users
      BY <1>4, <2>1, EndsIs DEF Ends
    <2>3. UNCHANGED <<world, flying>> /\ Owners' = Owners /\ seen' = seen
      BY <1>4 DEF Local, world, ledgers, Owners, Has
    <2>4. Places'
      BY <2>1, <2>2 DEF Places, ScanPlaces, OwnerPlaces, LoopPlaces, ConfigurePlaces, PrizePlaces, ToListPlaces
    <2>5. Pairing'
      BY <2>1, <2>2, <2>3 DEF Pairing, IInv
    <2>6. Configuring' /\ p'.pc \notin {"claimERCXXXAirdrop", "wait"} \cup ToListPlaces
      BY <2>1, <2>2 DEF Configuring, ToListPlaces
    <2> QED
      BY <2>3, <2>4, <2>5, <2>6, SameWorldKeeps
  <1> QED
    BY <1>2, <1>3, <1>4 DEF ownerOf

LEMMA BnftOwnerOfKeeps ==
    ASSUME IInv, bnftOwnerOf
    PROVE  IInv'
  <1>1. p.pc = "bnftOwnerOf"
    BY DEF bnftOwnerOf, At
  <1>2. CASE \E u \in Deed(p.ids[p.idx + 1]) : UserFound(u)
    BY <1>1, <1>2, UserFoundKeeps DEF Deed
  <1>3. CASE OwnerFails
    BY <1>1, <1>3, OwnerFailsKeeps
  <1> QED
    BY <1>2, <1>3 DEF bnftOwnerOf

LEMMA CheckUsersKeeps ==
    ASSUME IInv, CheckUsers
    PROVE  IInv'
  <1>1. p \in Records /\ p.job = "azuki:distribution" /\ p.pc = "check"
    BY DEF IInv, Places, OwnerPlaces, CheckUsers, At
  <1> DEFINE how == IF SameLength THEN "done" ELSE "thrown"
  <1>2. Ends(how) /\ Local /\ how \in Pcs /\ how \in {"done", "thrown"} /\ (how = "done" => SameLength)
    BY DEF CheckUsers, Pcs
  <1> HIDE DEF how
  <1>3. /\ p' \in Records /\ p'.pc = how /\ p'.job = p.job /\ p'.num = p.num /\ p'.idx = p.idx
        /\ p'.ids = p.ids /\ p'.users = p.users
    BY <1>1, <1>2, EndsIs
  <1>4. UNCHANGED <<world, flying>> /\ Owners' = Owners /\ seen' = seen
    BY <1>2 DEF Local, world, ledgers, Owners, Has
  <1>5. Places'
    BY <1>1, <1>2, <1>3 DEF Places, ScanPlaces, OwnerPlaces, LoopPlaces, ConfigurePlaces, PrizePlaces, ToListPlaces
  <1>6. Pairing'
    BY <1>1, <1>2, <1>3, <1>4 DEF Pairing, IInv, SameLength
  <1>7. Configuring' /\ p'.pc \notin {"claimERCXXXAirdrop", "wait"} \cup ToListPlaces
    BY <1>1, <1>2, <1>3 DEF Configuring, ToListPlaces
  <1> QED
    BY <1>4, <1>5, <1>6, <1>7, SameWorldKeeps
-----------------------------------------------------------------------------
(* Moving the prize of an NFT to the distribution and listing its owner. *)

\* What holds at a place of a configuration.
LEMMA AtConfigure ==
    ASSUME IInv, p.pc \in ConfigurePlaces
    PROVE  /\ p \in Records /\ p.job = "dev:configure-airdrop-distribution" /\ p.cur \in Token
           /\ Kind(p.cur) \in Kinds /\ Prizes /\ Ledgers /\ Accounts
           /\ ConfigurePlaces \subseteq Pcs /\ "reverted" \in Pcs /\ "done" \in Pcs
           /\ p.pc \in PrizePlaces => airdropped[p.cur] # "no"
  <1>1. p \in Records /\ p.job = "dev:configure-airdrop-distribution" /\ p.cur \in Token
    BY DEF IInv, Places, Configuring
  <1>2. ConfigurePlaces \subseteq Pcs /\ "reverted" \in Pcs /\ "done" \in Pcs
    BY DEF Pcs
  <1>3. Prizes /\ Ledgers /\ Accounts /\ (p.pc \in PrizePlaces => airdropped[p.cur] # "no")
    BY DEF IInv, Places
  <1> QED
    BY <1>1, <1>2, <1>3, KindIs DEF Prizes

\* Where a configuration goes next, its local variables are in their places.
LEMMA ConfigurePlace ==
    ASSUME p' \in Records, p'.job = "dev:configure-airdrop-distribution",
           p'.pc \in ConfigurePlaces \cup {"reverted", "done"},
           p'.pc \in PrizePlaces => airdropped'[p'.cur] # "no"
    PROVE  Places' /\ Pairing'
  <1>1. Places'
    BY DEF Places, ScanPlaces, OwnerPlaces, LoopPlaces, ConfigurePlaces, PrizePlaces, ToListPlaces
  <1> QED
    BY <1>1 DEF Pairing

LEMMA ReadAirdropsKeeps ==
    ASSUME IInv, ReadAirdrops
    PROVE  IInv'
  <1>1. p.pc = "airdrops" /\ p.pc \in ConfigurePlaces
    BY DEF ReadAirdrops, At, ConfigurePlaces
  <1> DEFINE how == IF IsAirdroped THEN "bnftOwner" ELSE "bnftSnapshotAirdrop"
  <1>2. /\ Ends(how) /\ UNCHANGED <<world, flying>>
        /\ \/ how = "bnftOwner" /\ airdropped[p.cur] # "no"
           \/ how = "bnftSnapshotAirdrop" /\ airdropped[p.cur] = "no"
    BY DEF ReadAirdrops, Local, IsAirdroped
  <1>3. how \in Pcs /\ how \in ConfigurePlaces
    BY <1>1, <1>2, AtConfigure DEF ConfigurePlaces, PrizePlaces
  <1> HIDE DEF how
  <1>4. p' \in Records /\ p'.pc = how /\ p'.job = p.job /\ p'.cur = p.cur
    BY <1>1, <1>2, <1>3, AtConfigure, EndsIs
  <1>5. UNCHANGED airdropped
    BY <1>2, SameWorldIs
  <1>6. Places' /\ Pairing'
    BY <1>1, <1>2, <1>3, <1>4, <1>5, AtConfigure, ConfigurePlace DEF PrizePlaces, ToListPlaces
  <1>7. Configuring'
    BY <1>1, <1>2, <1>4, <1>5, AtConfigure DEF Configuring, Sending, ToListPlaces
  <1> QED
    BY <1>2, <1>4, <1>6, <1>7, SameWorldKeeps DEF ToListPlaces

\* Sent for an NFT without a prize.
LEMMA SnapshotKeeps ==
    ASSUME IInv, bnftSnapshotAirdrop
    PROVE  IInv'
  <1>1. p.pc = "bnftSnapshotAirdrop" /\ p.pc \in ConfigurePlaces /\ UNCHANGED <<world, flying>>
        /\ Ends("reverted")
    BY DEF bnftSnapshotAirdrop, At, ConfigurePlaces, Local
  <1>2. p' \in Records /\ p'.pc = "reverted" /\ p'.job = p.job /\ p'.cur = p.cur
        /\ p'.disturbed = p.disturbed /\ p'.late = p.late
    BY <1>1, AtConfigure, EndsIs
  <1>3. Places' /\ Pairing'
    BY <1>1, <1>2, AtConfigure, ConfigurePlace DEF PrizePlaces, ToListPlaces
  <1>4. ~p.disturbed /\ ~p.late => airdropped[p.cur] = "no"
    BY <1>1, AtConfigure DEF IInv, Configuring
  <1>5. Configuring'
    BY <1>1, <1>2, <1>4, AtConfigure, SameWorldIs DEF Configuring, Sending, ToListPlaces
  <1> QED
    BY <1>1, <1>2, <1>3, <1>5, SameWorldKeeps DEF ToListPlaces

LEMMA ReadOwnerKeeps ==
    ASSUME IInv, ReadOwner
    PROVE  IInv'
  <1>1. /\ p.pc = "bnftOwner" /\ p.pc \in ConfigurePlaces /\ p.pc \in PrizePlaces
        /\ UNCHANGED <<world, flying>>
    BY DEF ReadOwner, At, ConfigurePlaces, PrizePlaces, Local
  <1>2. CASE Deed(p.cur) = {} /\ Ends("reverted")
    <2>1. p' \in Records /\ p'.pc = "reverted" /\ p'.job = p.job /\ p'.cur = p.cur
      BY <1>1, <1>2, AtConfigure, EndsIs
    <2>2. Places' /\ Pairing'
      BY <1>1, <2>1, AtConfigure, ConfigurePlace DEF PrizePlaces, ToListPlaces
    <2>3. Configuring'
      BY <1>1, <1>2, <2>1, AtConfigure, SameWorldIs DEF Configuring, Sending, ToListPlaces
    <2> QED
      BY <1>1, <2>1, <2>2, <2>3, SameWorldKeeps DEF ToListPlaces
  <1>3. CASE \E u \in Deed(p.cur) : p' = [p EXCEPT !.user = u, !.pc = "balance"]
    <2>1. PICK u \in Deed(p.cur) : p' = [p EXCEPT !.user = u, !.pc = "balance"]
      BY <1>3
    <2>2. u \in User /\ p \in Records /\ "balance" \in Pcs /\ "balance" \in ConfigurePlaces
      BY <1>1, AtConfigure DEF Deed, ConfigurePlaces, PrizePlaces
    <2>3. p' \in Records
      BY <2>1, <2>2 DEF Records
    <2>4. p'.pc = "balance" /\ p'.job = p.job /\ p'.cur = p.cur /\ p'.user = u
      BY <2>1, <2>2 DEF Records
    <2>5. Places' /\ Pairing'
      BY <1>1, <2>2, <2>3, <2>4, AtConfigure, ConfigurePlace, SameWorldIs
    <2>6. Configuring'
      BY <1>1, <2>4, AtConfigure, SameWorldIs DEF Configuring, Sending
    <2> QED
      BY <1>1, <2>4, <2>5, <2>6, SameWorldKeeps DEF ToListPlaces
  <1> QED
    BY <1>2, <1>3 DEF ReadOwner

LEMMA ReadPrizeBalanceKeeps ==
    ASSUME IInv, ReadPrizeBalance
    PROVE  IInv'
  <1> DEFINE k == Kind(p.cur)
             n == AmountOf(k)
  <1>1. /\ p.pc = "balance" /\ p.pc \in ConfigurePlaces /\ p.pc \in PrizePlaces
        /\ UNCHANGED <<world, flying>>
        /\ p' = [p EXCEPT !.num = n, !.pc = "claimERCXXXAirdrop"]
    BY DEF ReadPrizeBalance, At, ConfigurePlaces, PrizePlaces, Local
  <1>2. purse["bnft"][k] \in Nat /\ purse["dist"][k] \in Nat /\ n \in Nat
    BY <1>1, AtConfigure DEF Prizes, AmountOf
  <1> HIDE DEF n, k
  <1>3. "claimERCXXXAirdrop" \in Pcs /\ "claimERCXXXAirdrop" \in ConfigurePlaces
    BY <1>1, AtConfigure DEF ConfigurePlaces, PrizePlaces
  <1>4. p' \in Records
    BY <1>1, <1>2, <1>3, AtConfigure DEF Records
  <1>5. /\ p'.pc = "claimERCXXXAirdrop" /\ p'.num = n /\ p'.job = p.job /\ p'.cur = p.cur /\ p'.user = p.user
        /\ p'.disturbed = p.disturbed
    BY <1>1, AtConfigure DEF Records
  <1>6. Places' /\ Pairing'
    BY <1>1, <1>3, <1>4, <1>5, AtConfigure, ConfigurePlace, SameWorldIs
  <1>7. AmountOf(Kind(p.cur))' = n
    BY <1>1, <1>5, SameWorldIs DEF AmountOf, n, k
  <1>8. Configuring'
    <2>1. ~p.disturbed => p.user \in Deed(p.cur)
      BY <1>1, AtConfigure DEF IInv, Configuring
    <2> QED
      BY <1>1, <1>5, <1>7, <2>1, AtConfigure, SameWorldIs DEF Configuring, Sending, ToListPlaces
  <1>9. ASSUME ~strayed, NEW j \in Kinds, p.cur \in PaidFor(j)
        PROVE  Cardinality(DueNext(j) \cup {p.cur}) <= purse["dist"][j] + n
    <2> DEFINE D == DueNext(j) \cup {p.cur}
    <2>1. D \subseteq PaidFor(j) /\ j = k
      BY <1>1, <1>9, AtConfigure, DueIs DEF PaidFor, DueNext, Coming, k
    <2> HIDE DEF D
    <2>2. /\ IsFiniteSet(D) /\ Cardinality(D) \in Nat /\ Cardinality(PaidFor(k)) \in Nat
          /\ Cardinality(D) <= Cardinality(PaidFor(k))
      BY <2>1, PaidForIs, FS_Subset, FS_CardinalityType
    <2>3. CASE tokenType = "erc721"
      <3>1. D \subseteq {p.cur} /\ n = 1
        BY <2>1, <2>3 DEF PaidFor, Kind, k, n, AmountOf
      <3>2. Cardinality(D) <= 1
        <4>1. IsFiniteSet({p.cur}) /\ Cardinality({p.cur}) = 1
          BY FS_Singleton
        <4> QED
          BY <3>1, <4>1, FS_Subset
      <3>3. Cardinality(D) <= purse["dist"][j] + n
        BY <1>2, <2>1, <2>2, <3>1, <3>2
      <3> QED
        BY <3>3 DEF D
    <2>4. CASE tokenType # "erc721"
      <3>1. n = purse["bnft"][k]
        BY <2>4 DEF n, AmountOf
      <3>2. Cardinality(PaidFor(k)) <= purse["bnft"][k] + purse["dist"][k]
        BY <1>1, <1>9, AtConfigure DEF Accounts, k
      <3>3. Cardinality(D) <= purse["dist"][j] + n
        BY <1>2, <2>1, <2>2, <3>1, <3>2
      <3> QED
        BY <3>3 DEF D
    <2> QED
      BY <2>3, <2>4
  <1>10. \A j : DueNext(j)' = DueNext(j) /\ PaidFor(j)' = PaidFor(j)
    <2>1. \A t : MayList(t)' <=> MayList(t)
      BY <1>1, <1>5 DEF MayList, ToListPlaces
    <2> QED
      BY <1>1, <2>1, SameWorldIs DEF DueNext, Coming
  <1>11. UNCHANGED <<purse, strayed>>
    BY <1>1, SameWorldIs
  <1>12. Accounts'
    BY <1>5, <1>9, <1>10, <1>11 DEF IInv, Accounts
  <1>13. Flying'
    BY <1>1, <1>5, SameWorldIs DEF IInv, Flying, OfConfigure, ToListPlaces
  <1> QED
    BY <1>1, <1>6, <1>8, <1>12, <1>13, SameWorldIs DEF IInv

LEMMA ConfigureKeeps ==
    ASSUME IInv, Configure
    PROVE  IInv'
  <1>1. PICK fn \in {"claimERCXXXAirdrop", "configureERC1155", "clearNftUserTokenIds", "configureNftUserTokenIds"} :
          p.pc = fn /\ SendTx(fn)
    BY DEF Configure, At
  <1>2. fn \in Fns /\ fn # "executeAirdrop"
    BY DEF Fns, ToListPlaces
  <1> QED
    BY <1>1, <1>2, SendTxKeeps
-----------------------------------------------------------------------------
(* Transactions that are mined. *)

\* What a transaction does to the prizes and the lists.
LEMMA EffectIs ==
    ASSUME IInv, NEW t \in Txs, OfConfigure(t), Succeeds(t), Effect(t)
    PROVE  /\ Prizes' /\ UNCHANGED <<ledgers, tokenType, strayed>>
           /\ \A x \in Token : airdropped[x] # "no" => airdropped'[x] = airdropped[x]
           /\ ~strayed =>
                \A k \in Kinds : Cardinality(PaidFor(k)') <= purse'["bnft"][k] + purse'["dist"][k]
           /\ \A k \in Kinds : purse'["dist"][k] >= purse["dist"][k]
           /\ t.fn = "claimERCXXXAirdrop" =>
                purse'["dist"][Kind(t.cur)] = purse["dist"][Kind(t.cur)] + t.num
           /\ t.fn # "executeAirdrop" => airdropped' = airdropped
           /\ \A u \in User : \A x \in Token : Has(listed', u, x) =>
                Has(listed, u, x) \/ (t.fn = "configureNftUserTokenIds" /\ x = t.cur)
           /\ t.fn = "clearNftUserTokenIds" => listed'[t.user] = <<>>
           /\ t.fn = "configureNftUserTokenIds" => listed'[t.user] = Append(listed[t.user], t.cur)
           /\ erc1155Ids' = IF t.fn = "configureERC1155" THEN {Kind(t.cur)} ELSE erc1155Ids
  <1>1. /\ t.fn \in Fns /\ t.user \in User /\ t.num \in Nat /\ t.ids \in Seq(Token)
        /\ t.fn # "executeAirdrop" => t.cur \in Token /\ airdropped[t.cur] # "no" /\ Kind(t.cur) \in Kinds
    BY KindIs DEF Txs, OfConfigure, IInv, Prizes
  <1>2. /\ Prizes /\ purse \in [{"bnft", "dist"} -> [Kinds -> Nat]] /\ listed \in [User -> Seq(Token)]
        /\ ~strayed => \A k \in Kinds : Cardinality(PaidFor(k)) <= purse["bnft"][k] + purse["dist"][k]
    BY DEF IInv, Prizes, Accounts
  <1>3. ASSUME UNCHANGED <<tokenType, airdropped>> PROVE \A k : PaidFor(k)' = PaidFor(k)
    <2>1. \A x : Kind(x)' = Kind(x)
      BY <1>3 DEF Kind
    <2> QED
      BY <1>3, <2>1 DEF PaidFor
  <1>4. \A k \in Kinds : purse["dist"][k] \in Nat /\ purse["bnft"][k] \in Nat
    BY <1>2
  <1>5. CASE t.fn = "executeAirdrop"
    <2>1. ProjectPays(t.ids) /\ Paid(t.ids)
      BY <1>5 DEF Succeeds, Effect
    <2>2. /\ Prizes'
          /\ UNCHANGED <<ledgers, tokenType, listed, erc1155Ids, strayed>>
          /\ purse'["dist"] = purse["dist"]
          /\ \A x \in Token : airdropped[x] # "no" => airdropped'[x] = airdropped[x]
          /\ \A k \in Kinds : Cardinality(PaidFor(k)) <= purse["bnft"][k] + purse["dist"][k] =>
                               Cardinality(PaidFor(k)') <= purse'["bnft"][k] + purse'["dist"][k]
      BY <1>1, <1>2, <2>1, PaidIs
    <2>3. \A k \in Kinds : purse'["dist"][k] >= purse["dist"][k]
      BY <1>4, <2>2
    <2>4. \A u \in User : \A x \in Token : Has(listed', u, x) => Has(listed, u, x)
      BY <2>2 DEF Has
    <2> QED
      BY <1>2, <1>5, <2>2, <2>3, <2>4
  <1>6. CASE t.fn = "claimERCXXXAirdrop"
    <2> DEFINE k == Kind(t.cur)
               n == t.num
    <2>1. /\ n <= purse["bnft"][k] /\ purse' = [purse EXCEPT !["bnft"][k] = @ - n, !["dist"][k] = @ + n]
          /\ UNCHANGED <<ledgers, tokenType, airdropped, listed, erc1155Ids, strayed>>
      BY <1>6 DEF Succeeds, Effect, claimERCXXXAirdrop, MovePrizes
    <2>2. k \in Kinds /\ n \in Nat
      BY <1>1, <1>6
    <2> HIDE DEF k, n
    <2>3. purse["bnft"][k] - n \in Nat /\ purse["dist"][k] + n \in Nat
      BY <1>4, <2>1, <2>2
    <2>4. /\ purse' \in [{"bnft", "dist"} -> [Kinds -> Nat]]
          /\ purse'["dist"][k] = purse["dist"][k] + n
          /\ purse'["bnft"][k] = purse["bnft"][k] - n
          /\ \A j \in Kinds \ {k} : /\ purse'["dist"][j] = purse["dist"][j]
                                     /\ purse'["bnft"][j] = purse["bnft"][j]
      BY <1>2, <2>1, <2>2, <2>3
    <2>5. \A j \in Kinds : /\ purse'["dist"][j] >= purse["dist"][j]
                           /\ purse'["bnft"][j] + purse'["dist"][j] = purse["bnft"][j] + purse["dist"][j]
      <3> SUFFICES ASSUME NEW j \in Kinds
                   PROVE  /\ purse'["dist"][j] >= purse["dist"][j]
                          /\ purse'["bnft"][j] + purse'["dist"][j] = purse["bnft"][j] + purse["dist"][j]
        OBVIOUS
      <3>1. CASE j = k
        BY <1>4, <2>2, <2>4, <3>1
      <3>2. CASE j # k
        BY <1>4, <2>4, <3>2
      <3> QED
        BY <3>1, <3>2
    <2>6. Prizes' /\ (\A u \in User : \A x \in Token : Has(listed', u, x) => Has(listed, u, x))
      BY <1>2, <2>1, <2>4 DEF Prizes, Has
    <2>7. ~strayed => \A j \in Kinds : Cardinality(PaidFor(j)') <= purse'["bnft"][j] + purse'["dist"][j]
      BY <1>2, <1>3, <2>1, <2>5
    <2>8. purse'["dist"][Kind(t.cur)] = purse["dist"][Kind(t.cur)] + t.num
      BY <2>4 DEF k, n
    <2> QED
      BY <1>6, <2>1, <2>5, <2>6, <2>7, <2>8
  <1>7. CASE t.fn = "configureERC1155"
    <2>1. /\ UNCHANGED <<ledgers, tokenType, airdropped, purse, listed, strayed>>
          /\ erc1155Ids' = {Kind(t.cur)}
      BY <1>7 DEF Effect, configureERC1155
    <2>2. Prizes' /\ (\A u \in User : \A x \in Token : Has(listed', u, x) => Has(listed, u, x))
      BY <1>2, <2>1 DEF Prizes, Has
    <2> QED
      BY <1>2, <1>3, <1>4, <1>7, <2>1, <2>2
  <1>8. CASE t.fn \in {"clearNftUserTokenIds", "configureNftUserTokenIds"}
    <2> DEFINE l == IF t.fn = "clearNftUserTokenIds" THEN <<>> ELSE Append(listed[t.user], t.cur)
    <2>1. /\ UNCHANGED <<ledgers, tokenType, airdropped, purse, erc1155Ids, strayed>>
          /\ listed' = [listed EXCEPT ![t.user] = l]
      BY <1>8 DEF Effect, clearNftUserTokenIds, configureNftUserTokenIds, SetListed
    <2>2. t.cur \in Token /\ listed[t.user] \in Seq(Token)
      BY <1>1, <1>2, <1>8
    <2>3. /\ l \in Seq(Token)
          /\ \A x \in ToSet(l) : x \in ToSet(listed[t.user]) \/ (t.fn = "configureNftUserTokenIds" /\ x = t.cur)
      <3>1. CASE t.fn = "clearNftUserTokenIds"
        <4>1. l = <<>> /\ ToSet(<<>>) = {}
          BY <3>1 DEF ToSet
        <4> QED
          BY <4>1
      <3>2. CASE t.fn = "configureNftUserTokenIds"
        <4>1. l = Append(listed[t.user], t.cur)
          BY <3>2
        <4> HIDE DEF l
        <4> QED
          BY <2>2, <3>2, <4>1, AppendIs
      <3> QED
        BY <1>8, <3>1, <3>2
    <2>4. /\ t.fn = "clearNftUserTokenIds" => l = <<>>
          /\ t.fn = "configureNftUserTokenIds" => l = Append(listed[t.user], t.cur)
      OBVIOUS
    <2> HIDE DEF l
    <2>5. /\ listed' \in [User -> Seq(Token)] /\ listed'[t.user] = l
          /\ \A u \in User : \A x \in Token : Has(listed', u, x) =>
               Has(listed, u, x) \/ (t.fn = "configureNftUserTokenIds" /\ x = t.cur)
      BY <1>1, <1>2, <2>1, <2>3 DEF Has
    <2>6. Prizes'
      BY <1>1, <1>2, <2>1, <2>5 DEF Prizes, Has
    <2>7. t.fn # "configureERC1155" /\ t.fn # "executeAirdrop" /\ t.fn # "claimERCXXXAirdrop"
      BY <1>8
    <2>8. /\ ~strayed => \A k \in Kinds : Cardinality(PaidFor(k)') <= purse'["bnft"][k] + purse'["dist"][k]
          /\ \A k \in Kinds : purse'["dist"][k] >= purse["dist"][k]
      BY <1>2, <1>3, <1>4, <2>1
    <2>9. erc1155Ids' = IF t.fn = "configureERC1155" THEN {Kind(t.cur)} ELSE erc1155Ids
      BY <2>1, <2>7
    <2> QED
      BY <2>1, <2>4, <2>5, <2>6, <2>7, <2>8, <2>9
  <1> QED
    BY <1>1, <1>5, <1>6, <1>7, <1>8 DEF Fns, ToListPlaces

\* The first of what is in flight leaves it.
LEMMA HeadIs ==
    ASSUME IInv, flying # <<>>
    PROVE  /\ Len(flying) \in Nat /\ Len(flying) > 0
           /\ Head(flying) = flying[1] /\ Head(flying) \in Txs /\ OfConfigure(Head(flying))
           /\ Tail(flying) \in Seq(Txs) /\ Len(Tail(flying)) = Len(flying) - 1
           /\ \A i \in 1..Len(Tail(flying)) : i + 1 \in 1..Len(flying) /\ Tail(flying)[i] = flying[i + 1]
           /\ Len(flying) = 1 => Head(flying) = Own /\ Tail(flying) = <<>>
           /\ Len(flying) # 1 => Tail(flying) # <<>> /\ Tail(flying)[Len(Tail(flying))] = Own
  <1>1. flying \in Seq(Txs) /\ \A i \in 1..Len(flying) : OfConfigure(flying[i])
    BY DEF IInv, Flying
  <1>2. Len(flying) \in Nat /\ Len(flying) > 0 /\ 1 \in 1..Len(flying)
    BY <1>1, EmptySeq
  <1>3. /\ Head(flying) \in Txs /\ Tail(flying) \in Seq(Txs) /\ Len(Tail(flying)) = Len(flying) - 1
        /\ \A i \in 1..Len(Tail(flying)) : Tail(flying)[i] = flying[i + 1]
    BY <1>1, HeadTailProperties
  <1>4. Head(flying) = flying[1]
    BY <1>1
  <1>5. \A i \in 1..Len(Tail(flying)) : i + 1 \in 1..Len(flying)
    BY <1>2, <1>3
  <1>6. CASE Len(flying) = 1
    <2>1. Len(Tail(flying)) = 0
      BY <1>3, <1>6
    <2>2. Tail(flying) = <<>>
      BY <1>3, <2>1, EmptySeq
    <2> QED
      BY <1>1, <1>2, <1>3, <1>4, <1>5, <1>6, <2>2 DEF Own
  <1>7. CASE Len(flying) # 1
    <2>1. Len(Tail(flying)) \in 1..Len(Tail(flying)) /\ Len(Tail(flying)) + 1 = Len(flying)
      BY <1>2, <1>3, <1>7
    <2>2. Tail(flying)[Len(Tail(flying))] = flying[Len(flying)]
      BY <1>3, <2>1
    <2>3. Tail(flying) # <<>>
      <3> DEFINE s == Tail(flying)
      <3>1. Len(s) # 0
        BY <2>1
      <3> HIDE DEF s
      <3>2. s # <<>>
        BY <3>1
      <3> QED
        BY <3>2 DEF s
    <2> QED
      BY <1>1, <1>2, <1>3, <1>4, <1>5, <1>7, <2>2, <2>3 DEF Own
  <1> QED
    BY <1>6, <1>7
\* What is mined for a task that was killed changes nothing a running one has to
\* rely on: it is told that something was.
LEMMA LateKeeps ==
    ASSUME IInv, Mine, ~(At("wait") /\ Len(flying) = 1)
    PROVE  IInv'
  <1> DEFINE t == Head(flying)
  <1>1. flying # <<>> /\ flying' = Tail(flying)
    BY DEF Mine
  <1>2. t \in Txs /\ OfConfigure(t) /\ IF Succeeds(t) THEN Effect(t) ELSE UNCHANGED world
    BY <1>1, HeadIs DEF Mine
  <1>3. /\ p' = IF Running THEN [p EXCEPT !.late = TRUE] ELSE NoTask
        /\ p'.job = "azuki:distribution" => seen' = seen
    BY DEF Mine
  <1>4. t = flying[1] /\ 1 \in 1..Len(flying)
    BY <1>1, HeadIs
  <1> HIDE DEF t
  <1>5. /\ Prizes' /\ UNCHANGED <<ledgers, tokenType, strayed>>
        /\ \A x \in Token : airdropped[x] # "no" => airdropped'[x] = airdropped[x]
        /\ ~strayed =>
             \A k \in Kinds : Cardinality(PaidFor(k)') <= purse'["bnft"][k] + purse'["dist"][k]
        /\ \A k \in Kinds : purse'["dist"][k] >= purse["dist"][k]
        /\ \A u \in User : \A x \in Token : Has(listed', u, x) =>
             Has(listed, u, x) \/ (t.fn = "configureNftUserTokenIds" /\ x = t.cur)
    <2>1. CASE Succeeds(t)
      BY <1>2, <2>1, EffectIs
    <2>2. CASE ~Succeeds(t)
      <3>1. UNCHANGED world
        BY <1>2, <2>2
      <3>2. UNCHANGED <<ledgers, tokenType, strayed, airdropped, purse, listed>> /\ Prizes'
            /\ \A k : PaidFor(k)' = PaidFor(k)
        BY <3>1, SameWorldIs DEF world
      <3>3. \A k \in Kinds : purse["dist"][k] \in Nat
        BY DEF IInv, Prizes
      <3> QED
        BY <3>2, <3>3 DEF Has, IInv, Accounts
    <2> QED
      BY <2>1, <2>2
  <1>6. /\ Ledgers' /\ Owners' = Owners
        /\ \A x : Kind(x)' = Kind(x) /\ Deed(x)' = Deed(x)
    BY <1>5, LedgersStay DEF Owners, Kind, Deed, ledgers, Has
  <1>7. flying' \in Seq(Txs) /\ (\A i \in 1..Len(flying) : OfConfigure(flying[i]))'
    <2>1. \A i \in 1..Len(flying) : flying[i].fn # "executeAirdrop" =>
            flying[i].cur \in Token /\ airdropped[flying[i].cur] # "no"
      BY DEF IInv, Flying, OfConfigure
    <2>2. /\ flying' \in Seq(Txs)
          /\ \A i \in 1..Len(flying') : i + 1 \in 1..Len(flying) /\ flying'[i] = flying[i + 1]
      BY <1>1, HeadIs
    <2>3. \A i \in 1..Len(flying') : flying'[i].fn # "executeAirdrop" =>
            flying'[i].cur \in Token /\ airdropped[flying'[i].cur] # "no"
      BY <2>1, <2>2
    <2>4. \A i \in 1..Len(flying') : flying'[i].fn # "executeAirdrop" =>
            flying'[i].cur \in Token /\ airdropped'[flying'[i].cur] # "no"
      BY <1>5, <2>3
    <2> QED
      BY <2>2, <2>4 DEF OfConfigure
  <1>8. /\ Places' /\ Flying' /\ Pairing' /\ Configuring'
        /\ \A x : MayList(x)' => MayList(x)
        /\ Sending("claimERCXXXAirdrop")' => Sending("claimERCXXXAirdrop") /\ p'.cur = p.cur /\ p'.num = p.num
    <2>1. \A i \in 1..Len(flying') : i + 1 \in 1..Len(flying) /\ flying'[i] = flying[i + 1]
      BY <1>1, HeadIs
    <2>2. CASE ~Running
      <3>1. p' = NoTask
        BY <1>3, <2>2
      <3>2. p'.pc \notin ToListPlaces
        BY <3>1, NoTaskIs DEF ToListPlaces
      <3>3. Places' /\ Flying' /\ Pairing' /\ Configuring' /\ ~Sending("claimERCXXXAirdrop")'
        BY <1>5, <1>7, <3>1, NoTaskKeeps
      <3> QED
        BY <2>1, <3>2, <3>3 DEF MayList
    <2>3. CASE Running
      <3>1. p' = [p EXCEPT !.late = TRUE] /\ p \in Records
        BY <1>3, <2>3 DEF IInv, Places
      <3>2. /\ p'.pc = p.pc /\ p'.job = p.job /\ p'.cur = p.cur /\ p'.num = p.num /\ p'.user = p.user
            /\ p'.idx = p.idx /\ p'.tries = p.tries /\ p'.ids = p.ids /\ p'.users = p.users
            /\ p'.disturbed = p.disturbed /\ p'.late /\ p' \in Records
        BY <3>1 DEF Records
      <3>3. p.pc \in PrizePlaces => airdropped'[p.cur] # "no"
        BY <1>5, MayListIs DEF IInv, Places, ConfigurePlaces
      <3>4. Places'
        BY <3>2, <3>3 DEF IInv, Places
      <3>5. p.pc \notin ToListPlaces /\ (p.pc = "wait" => Own.fn \notin ToListPlaces)
        BY <1>1 DEF IInv, Flying, At
      <3>6. p.pc = "wait" => flying' # <<>> /\ Own' = Own
        BY <1>1, HeadIs DEF At, Own
      <3>7. Flying'
        BY <1>7, <3>2, <3>5, <3>6 DEF IInv, Flying
      <3>8. Pairing'
        BY <1>3, <1>6, <2>3, <3>2 DEF IInv, Pairing, Running
      <3>9. \A fn : Sending(fn)' <=> Sending(fn)
        BY <3>2, <3>6 DEF Sending
      <3>10. ~Sending("clearNftUserTokenIds") /\ ~Sending("configureNftUserTokenIds")
        BY <3>5 DEF Sending, ToListPlaces
      <3>11. Configuring'
        BY <1>6, <2>3, <3>2, <3>9, <3>10 DEF IInv, Configuring, Running
      <3>12. \A x : MayList(x)' => MayList(x)
        BY <2>1, <3>2 DEF MayList
      <3> QED
        BY <3>2, <3>4, <3>7, <3>8, <3>9, <3>11, <3>12
    <2> QED
      BY <2>2, <2>3
  <1>9. \A k, x : x \in PaidFor(k)' /\ airdropped[x] # "no" => x \in PaidFor(k)
    BY <1>5, <1>6 DEF PaidFor
  <1>10. ASSUME NEW k, NEW x \in DueNext(k)' PROVE x \in DueNext(k)
    <2>1. CASE x \in Coming(k)'
      BY <1>8, <1>9, <2>1, MayListIs DEF Coming, DueNext
    <2>2. CASE x \in Due(k)'
      <3>1. PICK u \in User : x \in Token /\ Kind(x) = k /\ airdropped'[x] # "owner" /\ Has(listed', u, x)
        BY <1>6, <2>2 DEF Due
      <3>2. CASE Has(listed, u, x)
        BY <1>5, <3>1, <3>2 DEF IInv, Prizes, Due, DueNext
      <3>3. CASE t.fn = "configureNftUserTokenIds" /\ x = t.cur
        <4>1. MayList(x) /\ airdropped[x] # "no"
          BY <1>2, <1>4, <3>3 DEF MayList, ToListPlaces, OfConfigure
        <4>2. airdropped[x] = "bnft"
          BY <1>5, <3>1, <4>1 DEF IInv, Prizes
        <4> QED
          BY <3>1, <4>1, <4>2 DEF DueNext, Coming, PaidFor
      <3> QED
        BY <1>5, <3>1, <3>2, <3>3
    <2> QED
      BY <1>10, <2>1, <2>2 DEF DueNext
  <1>11. p.num \in Nat
    BY DEF IInv, Places, Records
  <1>12. Accounts'
    BY <1>5, <1>8, <1>9, <1>10, <1>11, MayListIs, AccountsKeep
  <1> QED
    BY <1>5, <1>6, <1>8, <1>12 DEF IInv
\* The task's own transaction is mined, alone in flight: the task goes on with what
\* it did, or ends with it reverted.
LEMMA OwnKeeps ==
    ASSUME IInv, Mine, At("wait"), Len(flying) = 1
    PROVE  IInv'
  <1> DEFINE t == Head(flying)
  <1>1. flying # <<>> /\ flying' = <<>> /\ t = Own /\ t = flying[1] /\ t \in Txs /\ OfConfigure(t)
    <2>1. flying # <<>> /\ flying' = Tail(flying)
      BY DEF Mine
    <2> QED
      BY <2>1, HeadIs
  <1> HIDE DEF t
  <1>2. /\ p \in Records /\ p.pc = "wait"
        /\ t.user = p.user /\ t.cur = p.cur /\ t.num = p.num /\ t.fn \in Fns /\ p.num \in Nat
        /\ t.fn = "executeAirdrop" => p.job \in ScanJobs
        /\ t.fn # "executeAirdrop" => p.job = "dev:configure-airdrop-distribution" /\ p.cur \in Token
                                      /\ airdropped[p.cur] # "no" /\ Kind(p.cur) \in Kinds
    BY <1>1, KindIs DEF At, IInv, Places, Records, Prizes, Flying, Txs, OfConfigure
  <1>3. flying' \in Seq(Txs) /\ 1..Len(flying') = {}
    BY <1>1
  <1>4. \A x : t.fn = x => Sending(x)
    BY <1>1, <1>2 DEF Sending
  <1> DEFINE pc == IF Succeeds(t) THEN GoesOn(t.fn) ELSE "reverted"
  <1>5. p' = [p EXCEPT !.pc = pc]
    <2>1. /\ At("wait") /\ Len(flying) = 1
          /\ p' = CASE At("wait") /\ Len(flying) = 1 ->
                           [p EXCEPT !.pc = IF Succeeds(t) THEN GoesOn(t.fn) ELSE "reverted"]
                    [] ~(At("wait") /\ Len(flying) = 1) /\ Running -> [p EXCEPT !.late = TRUE]
                    [] ~Running -> NoTask
      BY Zenon DEF Mine, t
    <2>2. Running
      BY <2>1 DEF At, Running
    <2> QED
      BY <2>1, <2>2
  <1>6. /\ pc \in Pcs /\ pc \in {"done", "reverted"} \cup ToListPlaces
        /\ pc \in ToListPlaces => t.fn # "executeAirdrop"
    BY <1>2 DEF GoesOn, Pcs, ConfigurePlaces, PrizePlaces, ToListPlaces, Fns
  <1>7. pc # "reverted" => Succeeds(t) /\ pc = GoesOn(t.fn)
    OBVIOUS
  <1>8. ~Succeeds(t) => pc = "reverted"
    OBVIOUS
  <1> HIDE DEF pc
  <1>9. Ends(pc)
    BY <1>5 DEF Ends
  <1>10. /\ p' \in Records /\ p'.pc = pc /\ p'.job = p.job /\ p'.user = p.user /\ p'.num = p.num
         /\ p'.cur = p.cur /\ p'.disturbed = p.disturbed /\ p'.late = p.late
    BY <1>2, <1>6, <1>9, EndsIs
  <1>11. Pairing'
    BY <1>2, <1>10 DEF Pairing, ScanJobs
  <1>12. CASE ~Succeeds(t)
    <2>1. UNCHANGED world /\ p'.pc = "reverted"
      BY <1>8, <1>10, <1>12 DEF Mine, t
    <2>2. Places'
      BY <1>10, <2>1 DEF Places, ScanPlaces, OwnerPlaces, LoopPlaces, ConfigurePlaces, PrizePlaces, ToListPlaces
    <2>3. Configuring'
      <3> SUFFICES ASSUME p.job = "dev:configure-airdrop-distribution" PROVE Configuring'
        BY <1>10 DEF Configuring
      <3>1. t.fn = "claimERCXXXAirdrop" /\ ~(t.num <= purse["bnft"][Kind(t.cur)]) /\ p.cur \in Token
        BY <1>2, <1>12 DEF Succeeds, Fns, ToListPlaces, ScanJobs
      <3>2. ~p.disturbed /\ ~p.late => tokenType = "erc721" /\ purse["bnft"][p.cur] = 0
        <4> DEFINE k == Kind(p.cur)
        <4>1. ~p.disturbed /\ ~p.late => p.num = AmountOf(k)
          BY <1>4, <3>1 DEF IInv, Configuring
        <4>2. k \in Kinds /\ purse["bnft"][k] \in Nat
          BY <3>1, KindIs DEF IInv, Prizes
        <4>3. tokenType # "erc721" => AmountOf(k) = purse["bnft"][k]
          BY DEF AmountOf
        <4>4. tokenType = "erc721" => AmountOf(k) = 1 /\ k = p.cur
          BY DEF AmountOf, Kind
        <4>5. ~(p.num <= purse["bnft"][k])
          BY <1>2, <3>1
        <4> HIDE DEF k
        <4> QED
          BY <1>2, <4>1, <4>2, <4>3, <4>4, <4>5
      <3>3. UNCHANGED <<tokenType, airdropped, purse, listed, erc1155Ids>>
            /\ \A x : Kind(x)' = Kind(x) /\ Deed(x)' = Deed(x)
        BY <2>1, SameWorldIs
      <3> QED
        BY <1>10, <2>1, <3>1, <3>2, <3>3 DEF Configuring, Sending, ToListPlaces
    <2> QED
      BY <1>1, <1>11, <2>1, <2>2, <2>3, SameWorldKeeps DEF ToListPlaces
  <1>13. CASE Succeeds(t)
    <2>1. Effect(t) /\ pc = GoesOn(t.fn)
      <3>1. Effect(t)
        BY <1>13 DEF Mine, t
      <3> QED
        BY <1>13, <3>1 DEF pc
    <2>2. /\ Prizes' /\ UNCHANGED <<ledgers, tokenType, strayed>>
          /\ \A x \in Token : airdropped[x] # "no" => airdropped'[x] = airdropped[x]
          /\ ~strayed =>
               \A k \in Kinds : Cardinality(PaidFor(k)') <= purse'["bnft"][k] + purse'["dist"][k]
          /\ \A k \in Kinds : purse'["dist"][k] >= purse["dist"][k]
          /\ t.fn = "claimERCXXXAirdrop" =>
               purse'["dist"][Kind(p.cur)] = purse["dist"][Kind(p.cur)] + p.num
          /\ t.fn # "executeAirdrop" => airdropped' = airdropped
          /\ \A u \in User : \A x \in Token : Has(listed', u, x) =>
               Has(listed, u, x) \/ (t.fn = "configureNftUserTokenIds" /\ x = p.cur)
          /\ t.fn = "clearNftUserTokenIds" => listed'[p.user] = <<>>
          /\ t.fn = "configureNftUserTokenIds" => listed'[p.user] = Append(listed[p.user], p.cur)
          /\ erc1155Ids' = IF t.fn = "configureERC1155" THEN {Kind(p.cur)} ELSE erc1155Ids
      BY <1>1, <1>2, <1>13, <2>1, EffectIs
    <2>3. Ledgers' /\ \A x : Kind(x)' = Kind(x) /\ Deed(x)' = Deed(x)
      BY <2>2, LedgersStay DEF Kind, Deed, ledgers, Has
    <2>4. Places'
      BY <1>2, <1>6, <1>10, <2>2
         DEF Places, ScanPlaces, OwnerPlaces, LoopPlaces, ConfigurePlaces, PrizePlaces, ToListPlaces
    <2>5. Flying'
      BY <1>1, <1>3, <1>6, <1>10 DEF Flying, ToListPlaces
    <2>6. \A x : Sending(x)' => pc = x
      BY <1>6, <1>10 DEF Sending, ToListPlaces
    <2>7. pc # "reverted"
      BY <1>2, <2>1 DEF GoesOn, Fns, ToListPlaces
    <2>8. Configuring'
      <3> SUFFICES ASSUME p.job = "dev:configure-airdrop-distribution" PROVE Configuring'
        BY <1>10 DEF Configuring
      <3>1. t.fn # "executeAirdrop" /\ p.cur \in Token /\ (~p.disturbed => p.user \in Deed(p.cur))
        BY <1>2 DEF ScanJobs, IInv, Configuring
      <3>2. pc = "configureNftUserTokenIds" => listed'[p.user] = <<>>
        BY <1>2, <2>1, <2>2 DEF GoesOn, Fns, ToListPlaces
      <3>3. tokenType = "erc1155" /\ pc \in {"clearNftUserTokenIds", "configureNftUserTokenIds", "done"}
               => erc1155Ids' = {Kind(p.cur)}
        <4> SUFFICES ASSUME tokenType = "erc1155",
                            pc \in {"clearNftUserTokenIds", "configureNftUserTokenIds", "done"}
                     PROVE  erc1155Ids' = {Kind(p.cur)}
          OBVIOUS
        <4>1. t.fn \in ToListPlaces
          BY <1>2, <2>1, <3>1 DEF GoesOn, Fns, ToListPlaces
        <4>2. CASE t.fn = "configureERC1155"
          BY <2>2, <4>2
        <4>3. CASE t.fn # "configureERC1155"
          <5>1. erc1155Ids = {Kind(p.cur)}
            BY <1>4, <4>1, <4>3 DEF IInv, Configuring, ToListPlaces
          <5> QED
            BY <2>2, <4>3, <5>1
        <4> QED
          BY <4>2, <4>3
      <3>4. pc = "done" => listed'[p.user] = <<p.cur>>
        <4> SUFFICES ASSUME pc = "done" PROVE listed'[p.user] = <<p.cur>>
          OBVIOUS
        <4>1. t.fn = "configureNftUserTokenIds"
          BY <1>2, <2>1, <3>1 DEF GoesOn, Fns, ToListPlaces
        <4>2. listed[p.user] = <<>>
          BY <1>4, <4>1 DEF IInv, Configuring
        <4>3. Append(<<>>, p.cur) = <<p.cur>>
          OBVIOUS
        <4> QED
          BY <2>2, <4>1, <4>2, <4>3
      <3>5. pc # "claimERCXXXAirdrop" /\ pc # "bnftSnapshotAirdrop"
        BY <1>6 DEF ToListPlaces
      <3> QED
        BY <1>10, <2>2, <2>3, <2>6, <2>7, <3>1, <3>2, <3>3, <3>4, <3>5 DEF Configuring
    <2>9. \A x : MayList(x)' => pc \in ToListPlaces /\ x = p.cur
      BY <1>3, <1>10 DEF MayList
    <2>10. ~Sending("claimERCXXXAirdrop")'
      BY <1>6, <2>6 DEF ToListPlaces
    <2>11. \A k, x : x \in PaidFor(k)' /\ airdropped[x] # "no" => x \in PaidFor(k)
      BY <2>2, <2>3 DEF PaidFor
    <2>12. ASSUME NEW k, NEW x \in DueNext(k)'
           PROVE  x \in DueNext(k) \/ (t.fn \in {"claimERCXXXAirdrop"} /\ x = p.cur /\ p.cur \in PaidFor(k))
      <3>1. CASE x \in Coming(k)'
        <4>1. pc \in ToListPlaces /\ x = p.cur /\ x \in PaidFor(k)'
          BY <2>9, <3>1 DEF Coming
        <4>2. p.cur \in PaidFor(k) /\ t.fn # "executeAirdrop"
          BY <1>2, <1>6, <2>11, <4>1
        <4>3. CASE t.fn = "claimERCXXXAirdrop"
          BY <4>1, <4>2, <4>3
        <4>4. CASE t.fn \in ToListPlaces
          <5>1. MayList(p.cur)
            BY <1>1, <1>2, <4>4 DEF MayList
          <5> QED
            BY <4>1, <4>2, <5>1 DEF DueNext, Coming
        <4> QED
          BY <1>2, <4>2, <4>3, <4>4 DEF Fns
      <3>2. CASE x \in Due(k)'
        <4>1. PICK u \in User : x \in Token /\ Kind(x) = k /\ airdropped'[x] # "owner" /\ Has(listed', u, x)
          BY <2>3, <3>2 DEF Due
        <4>2. CASE Has(listed, u, x)
          BY <2>2, <4>1, <4>2 DEF IInv, Prizes, Due, DueNext
        <4>3. CASE t.fn = "configureNftUserTokenIds" /\ x = p.cur
          <5>1. MayList(x) /\ airdropped[x] # "no"
            BY <1>1, <1>2, <4>3 DEF MayList, ToListPlaces
          <5>2. airdropped[x] = "bnft"
            BY <2>2, <4>1, <5>1 DEF IInv, Prizes
          <5> QED
            BY <4>1, <5>1, <5>2 DEF DueNext, Coming, PaidFor
        <4> QED
          BY <2>2, <4>1, <4>2, <4>3
      <3> QED
        BY <2>12, <3>1, <3>2 DEF DueNext
    <2>13. CASE t.fn # "claimERCXXXAirdrop"
      <3>1. \A k \in Kinds : DueNext(k)' \subseteq DueNext(k)
        BY <2>12, <2>13
      <3>2. Accounts'
        BY <2>2, <2>10, <3>1, AccountsKeep
      <3> QED
        BY <1>11, <2>2, <2>3, <2>4, <2>5, <2>8, <3>2 DEF IInv
    <2>14. CASE t.fn = "claimERCXXXAirdrop"
      <3>1. ASSUME ~strayed, NEW k \in Kinds PROVE Cardinality(DueNext(k)') <= purse'["dist"][k]
        <4>1. /\ Cardinality(DueNext(k)) \in Nat /\ Cardinality(DueNext(k)') \in Nat
              /\ IsFiniteSet(DueNext(k)) /\ Cardinality(DueNext(k)) <= purse["dist"][k]
              /\ purse["dist"][k] \in Nat /\ purse'["dist"][k] \in Nat /\ purse'["dist"][k] >= purse["dist"][k]
          BY <2>2, <3>1, DueNextIs DEF IInv, Accounts, Prizes
        <4>2. CASE p.cur \in PaidFor(k)
          <5>1. Kind(p.cur) = k /\ DueNext(k)' \subseteq DueNext(k) \cup {p.cur}
            BY <2>12, <4>2 DEF PaidFor
          <5>2. Cardinality(DueNext(k) \cup {p.cur}) <= purse["dist"][k] + p.num
            BY <1>4, <2>14, <3>1, <4>2 DEF IInv, Accounts
          <5>3. IsFiniteSet(DueNext(k) \cup {p.cur}) /\ Cardinality(DueNext(k) \cup {p.cur}) \in Nat
            BY <4>1, FS_AddElement, FS_CardinalityType
          <5>4. Cardinality(DueNext(k)') <= Cardinality(DueNext(k) \cup {p.cur})
            BY <5>1, <5>3, FS_Subset
          <5>5. purse'["dist"][k] = purse["dist"][k] + p.num
            BY <2>2, <2>14, <5>1
          <5> QED
            BY <1>2, <4>1, <5>2, <5>3, <5>4, <5>5
        <4>3. CASE p.cur \notin PaidFor(k)
          <5>1. DueNext(k)' \subseteq DueNext(k)
            BY <2>12, <4>3
          <5>2. Cardinality(DueNext(k)') <= Cardinality(DueNext(k))
            BY <4>1, <5>1, FS_Subset
          <5> QED
            BY <4>1, <5>2
        <4> QED
          BY <4>2, <4>3
      <3>2. Accounts'
        BY <2>2, <2>10, <3>1 DEF Accounts
      <3> QED
        BY <1>11, <2>2, <2>3, <2>4, <2>5, <2>8, <3>2 DEF IInv
    <2> QED
      BY <2>13, <2>14
  <1> QED
    BY <1>12, <1>13

LEMMA MineKeeps ==
    ASSUME IInv, Mine
    PROVE  IInv'
  BY LateKeeps, OwnKeeps
-----------------------------------------------------------------------------
(* Tasks that start and end. *)

\* A task that starts finds the chain as it is.
LEMMA BeginIs ==
    ASSUME IInv, NEW t \in Records, Begin(t)
    PROVE  /\ UNCHANGED <<world, flying>> /\ p' = t
           /\ t.job = "azuki:distribution" => seen' = Owners
  BY DEF Begin

LEMMA StartScanKeeps ==
    ASSUME IInv, NEW job \in ScanJobs, NEW u \in User, StartScan(job, u)
    PROVE  IInv'
  <1> DEFINE t == [NoTask EXCEPT !.job = job, !.pc = "balanceOf", !.user = u, !.scanned = TRUE]
  <1>1. "balanceOf" \in Pcs /\ job \in Jobs
    BY DEF Pcs, ScanPlaces, Jobs
  <1>2. /\ t \in Records /\ t.pc = "balanceOf" /\ t.job = job /\ t.idx = 0
    <2>1. NoTask.idx = 0
      BY DEF NoTask
    <2> QED
      BY <1>1, <2>1, NoTaskIs DEF Records
  <1>3. Begin(t)
    BY DEF StartScan
  <1> HIDE DEF t
  <1>4. UNCHANGED <<world, flying>> /\ p' = t
    BY <1>2, <1>3, BeginIs
  <1>5. Places' /\ Pairing' /\ Configuring'
    BY <1>2, <1>4 DEF Places, Pairing, Configuring, ScanPlaces, OwnerPlaces, LoopPlaces, ConfigurePlaces,
                      PrizePlaces, ToListPlaces, ScanJobs, Sending
  <1> QED
    BY <1>2, <1>4, <1>5, SameWorldKeeps DEF ToListPlaces

LEMMA StartWithIdsKeeps ==
    ASSUME IInv, NEW job \in ScanJobs, NEW u \in User, NEW ids \in IdLists, NEW spaced \in BOOLEAN,
           StartWithIds(job, u, ids, spaced)
    PROVE  IInv'
  <1> DEFINE un == Unclean(spaced, ids)
             t  == [NoTask EXCEPT !.job = job, !.pc = "send", !.user = u, !.ids = ids, !.unclean = un]
  <1>1. "send" \in Pcs /\ job \in Jobs /\ ids \in Seq(Token) /\ un \in BOOLEAN
    BY IdListsAssumption DEF Pcs, Jobs, Unclean
  <1> HIDE DEF un
  <1>2. t \in Records /\ t.pc = "send" /\ t.job = job
    BY <1>1, NoTaskIs DEF Records
  <1>3. Begin(t)
    BY DEF StartWithIds, un
  <1> HIDE DEF t
  <1>4. UNCHANGED <<world, flying>> /\ p' = t
    BY <1>2, <1>3, BeginIs
  <1>5. Places' /\ Pairing' /\ Configuring'
    BY <1>2, <1>4 DEF Places, Pairing, Configuring, ScanPlaces, OwnerPlaces, LoopPlaces, ConfigurePlaces,
                      PrizePlaces, ToListPlaces, ScanJobs, Sending
  <1> QED
    BY <1>2, <1>4, <1>5, SameWorldKeeps DEF ToListPlaces

LEMMA StartDistributionKeeps ==
    ASSUME IInv, NEW ids \in IdLists, NEW spaced \in BOOLEAN, StartDistribution(ids, spaced)
    PROVE  IInv'
  <1> DEFINE un == Unclean(spaced, ids)
             n  == Len(ids)
             t  == [NoTask EXCEPT !.job = "azuki:distribution", !.pc = "ownerOf", !.ids = ids,
                                  !.num = n, !.tries = 3, !.unclean = un]
  <1>1. /\ "ownerOf" \in Pcs /\ "azuki:distribution" \in Jobs /\ ids \in Seq(Token) /\ un \in BOOLEAN
        /\ 3 \in 0..Tries
    BY IdListsAssumption DEF Pcs, OwnerPlaces, Jobs, Unclean, Tries
  <1>2. n \in Nat /\ n > 0
    BY <1>1, IdListsAssumption, EmptySeq
  <1>3. Begin(t)
    BY DEF StartDistribution, Tries
  <1> HIDE DEF un, n
  <1>4. t \in Records
    BY <1>1, <1>2, NoTaskIs DEF Records
  <1>5. /\ t.pc = "ownerOf" /\ t.job = "azuki:distribution" /\ t.idx = 0 /\ t.num = n
        /\ t.tries = 3 /\ t.ids = ids /\ t.users = <<>>
    <2>1. NoTask.idx = 0 /\ NoTask.users = <<>>
      BY DEF NoTask
    <2> QED
      BY <2>1, NoTaskIs DEF Records
  <1> HIDE DEF t
  <1>6. UNCHANGED <<world, flying>> /\ p' = t /\ seen' = Owners
    BY <1>3, <1>4, <1>5, BeginIs
  <1>7. Places'
    BY <1>2, <1>4, <1>5, <1>6 DEF Places, ScanPlaces, OwnerPlaces, LoopPlaces, ConfigurePlaces, PrizePlaces, ToListPlaces
  <1>8. Pairing'
    <2>1. Owners' = Owners /\ Len(<<>>) = 0 /\ 1..0 = {}
      BY <1>6, SameWorldIs
    <2> QED
      BY <1>2, <1>5, <1>6, <2>1 DEF Pairing, n
  <1>9. Configuring' /\ p'.pc \notin {"claimERCXXXAirdrop", "wait"} \cup ToListPlaces
    BY <1>5, <1>6 DEF Configuring, ToListPlaces
  <1> QED
    BY <1>6, <1>7, <1>8, <1>9, SameWorldKeeps

LEMMA StartConfigureKeeps ==
    ASSUME IInv, NEW x \in Token, StartConfigure(x)
    PROVE  IInv'
  <1> DEFINE t == [NoTask EXCEPT !.job = "dev:configure-airdrop-distribution", !.pc = "airdrops", !.cur = x]
  <1>1. "airdrops" \in Pcs /\ "dev:configure-airdrop-distribution" \in Jobs /\ x \in Nat
    BY TokenAssumption DEF Pcs, ConfigurePlaces, Jobs
  <1>2. t \in Records /\ t.pc = "airdrops" /\ t.job = "dev:configure-airdrop-distribution" /\ t.cur = x
    BY <1>1, NoTaskIs DEF Records
  <1>3. Begin(t)
    BY DEF StartConfigure
  <1> HIDE DEF t
  <1>4. UNCHANGED <<world, flying>> /\ p' = t
    BY <1>2, <1>3, BeginIs
  <1>5. Places' /\ Pairing' /\ Configuring'
    BY <1>2, <1>4 DEF Places, Pairing, Configuring, ScanPlaces, OwnerPlaces, LoopPlaces, ConfigurePlaces,
                      PrizePlaces, ToListPlaces, Sending
  <1> QED
    BY <1>2, <1>4, <1>5, SameWorldKeeps DEF ToListPlaces

LEMMA ExitKeeps ==
    ASSUME IInv, Exit \/ Crash
    PROVE  IInv'
  <1>1. p' = NoTask /\ UNCHANGED <<world, flying>>
    BY DEF Exit, Crash
  <1>2. Places' /\ Pairing' /\ Configuring'
    BY <1>1, NoTaskIs DEF Places, Pairing, Configuring, ScanPlaces, OwnerPlaces, LoopPlaces, ConfigurePlaces,
                          PrizePlaces, ToListPlaces
  <1> QED
    BY <1>1, <1>2, NoTaskIs, SameWorldKeeps DEF ToListPlaces
-----------------------------------------------------------------------------
(* The invariant and the properties. *)

\* Any arrangement of the tokens is in order, and no prize is given yet.
LEMMA InitHolds == Init => IInv
  <1> SUFFICES ASSUME Init PROVE IInv
    OBVIOUS
  <1>1. PICK holder \in [Token -> User], bound \in SUBSET Token :
          /\ native = [h \in User \cup {Bnft} |->
                SetToSeq(IF h = Bnft THEN bound ELSE {t \in Token \ bound : holder[t] = h})]
          /\ bnft = [u \in User |-> SetToSeq({t \in bound : holder[t] = u})]
    BY DEF Init
  <1> DEFINE free(h) == IF h = Bnft THEN bound ELSE {t \in Token \ bound : holder[t] = h}
             of(u)   == {t \in bound : holder[t] = u}
  <1>4. \A h : /\ SetToSeq(free(h)) \in Seq(Token) /\ IsInjective(SetToSeq(free(h)))
               /\ ToSet(SetToSeq(free(h))) = free(h)
    <2> SUFFICES ASSUME NEW h
                 PROVE  /\ SetToSeq(free(h)) \in Seq(Token) /\ IsInjective(SetToSeq(free(h)))
                        /\ ToSet(SetToSeq(free(h))) = free(h)
      OBVIOUS
    <2>1. free(h) \in SUBSET Token
      OBVIOUS
    <2> HIDE DEF free
    <2> QED
      BY <2>1, SetToSeqIs
  <1>5. \A u : /\ SetToSeq(of(u)) \in Seq(Token) /\ IsInjective(SetToSeq(of(u)))
               /\ ToSet(SetToSeq(of(u))) = of(u)
    <2> SUFFICES ASSUME NEW u
                 PROVE  /\ SetToSeq(of(u)) \in Seq(Token) /\ IsInjective(SetToSeq(of(u)))
                        /\ ToSet(SetToSeq(of(u))) = of(u)
      OBVIOUS
    <2>1. of(u) \in SUBSET Token
      OBVIOUS
    <2> HIDE DEF of
    <2> QED
      BY <2>1, SetToSeqIs
  <1>6. /\ native = [h \in User \cup {Bnft} |-> SetToSeq(free(h))]
        /\ bnft = [u \in User |-> SetToSeq(of(u))]
    BY <1>1
  <1>7. \A t : \A h \in User \cup {Bnft} :
          Has(native, h, t) <=> IF h = Bnft THEN t \in bound ELSE t \in free(h)
    BY <1>4, <1>6 DEF Has
  <1>8. \A t : \A u \in User : Has(bnft, u, t) <=> t \in of(u)
    BY <1>5, <1>6 DEF Has
  <1>9. /\ native \in [User \cup {Bnft} -> Seq(Token)]
        /\ \A h \in User \cup {Bnft} : IsInjective(native[h])
        /\ bnft \in [User -> Seq(Token)] /\ \A u \in User : IsInjective(bnft[u])
    <2> HIDE DEF free, of
    <2> QED
      BY <1>4, <1>5, <1>6
  <1>10. Ledgers
    <2>1. Sole(native, User \cup {Bnft})
      BY <1>7, <1>9 DEF Sole
    <2>2. Sole(bnft, User)
      BY <1>8, <1>9 DEF Sole
    <2>3. \A t \in Token : \E h \in User \cup {Bnft} : Has(native, h, t)
      <3> SUFFICES ASSUME NEW t \in Token PROVE \E h \in User \cup {Bnft} : Has(native, h, t)
        OBVIOUS
      <3>1. CASE t \in bound
        BY <1>7, <3>1
      <3>2. CASE t \notin bound
        <4>1. holder[t] \in User /\ holder[t] # Bnft
          BY UserAssumption
        <4> QED
          BY <1>7, <3>2, <4>1
      <3> QED
        BY <3>1, <3>2
    <2>4. \A t \in Token : \A u \in User : Has(bnft, u, t) => Held(t)
      BY <1>7, <1>8 DEF Held
    <2> QED
      BY <2>1, <2>2, <2>3, <2>4 DEF Ledgers
  <1>11. /\ tokenType \in TokenType /\ airdropped = [t \in Token |-> "no"]
         /\ purse = [h \in {"bnft", "dist"} |-> [k \in Kinds |-> 0]]
         /\ listed = [u \in User |-> <<>>] /\ p = NoTask /\ flying = <<>>
    BY DEF Init
  <1>12. \A u \in User : listed[u] = <<>> /\ ToSet(listed[u]) = {}
    BY <1>11 DEF ToSet
  <1>13. Prizes
    <2>1. airdropped \in [Token -> {"no", "bnft", "owner"}]
      BY <1>11
    <2>2. purse \in [{"bnft", "dist"} -> [Kinds -> Nat]]
      BY <1>11
    <2>3. listed \in [User -> Seq(Token)]
      BY <1>11, EmptySeq
    <2> QED
      BY <1>11, <1>12, <2>1, <2>2, <2>3 DEF Prizes, Has
  <1>14. Places /\ Pairing /\ Configuring
    BY <1>11, NoTaskIs DEF Places, Pairing, Configuring, ScanPlaces, OwnerPlaces, LoopPlaces, ConfigurePlaces,
                           PrizePlaces, ToListPlaces
  <1>15. flying \in Seq(Txs) /\ 1..Len(flying) = {}
    BY <1>11
  <1>16. p.pc \notin {"wait", "claimERCXXXAirdrop"} \cup ToListPlaces
    BY <1>11, NoTaskIs DEF ToListPlaces
  <1>17. Flying
    BY <1>15, <1>16 DEF Flying
  <1>18. Accounts
    <2>1. \A k : Cardinality(PaidFor(k)) = 0 /\ Cardinality(DueNext(k)) = 0
      <3>1. \A k : PaidFor(k) = {} /\ DueNext(k) = {}
        BY <1>11, <1>12 DEF PaidFor, Due, DueNext, Coming, Has
      <3>2. Cardinality({}) = 0
        BY FS_EmptySet
      <3> QED
        BY <3>1, <3>2
    <2>2. \A k \in Kinds : purse["bnft"][k] = 0 /\ purse["dist"][k] = 0
      BY <1>11
    <2>3. ~Sending("claimERCXXXAirdrop")
      BY <1>16 DEF Sending
    <2> QED
      BY <2>1, <2>2, <2>3 DEF Accounts
  <1> QED
    BY <1>10, <1>13, <1>14, <1>17, <1>18 DEF IInv

LEMMA Inductive ==
    ASSUME IInv, [Next]_vars
    PROVE  IInv'
  <1>1. CASE UNCHANGED vars
    <2>1. UNCHANGED <<world, flying, p, seen>> /\ Own' = Own
      BY <1>1 DEF vars, Own
    <2>2. UNCHANGED Owners
      BY <2>1, SameWorldIs
    <2>3. Places' /\ Pairing' /\ Configuring' /\ Flying'
      BY <2>1, <2>2, SameWorldIs DEF IInv, Places, Pairing, Configuring, Flying, OfConfigure, Sending, AmountOf
    <2>4. \A k : DueNext(k)' = DueNext(k)
      BY <2>1, SameWorldIs DEF DueNext, Coming, MayList
    <2>5. Accounts'
      BY <2>1, <2>4, SameWorldIs DEF IInv, Accounts, Sending
    <2> QED
      BY <2>1, <2>3, <2>5, SameWorldIs DEF IInv
  <1>2. CASE TaskStep
    <2>1. CASE ReadBalance \/ tokenOfOwnerByIndex \/ canClaim \/ Send
      BY <2>1, ReadBalanceKeeps, TokenReadKeeps, CanClaimKeeps, SendKeeps
    <2>2. CASE ownerOf \/ bnftOwnerOf \/ CheckUsers
      BY <2>2, OwnerOfKeeps, BnftOwnerOfKeeps, CheckUsersKeeps
    <2>3. CASE ReadAirdrops \/ bnftSnapshotAirdrop \/ ReadOwner \/ ReadPrizeBalance \/ Configure
      BY <2>3, ReadAirdropsKeeps, SnapshotKeeps, ReadOwnerKeeps, ReadPrizeBalanceKeeps, ConfigureKeeps
    <2> QED
      BY <1>2, <2>1, <2>2, <2>3 DEF TaskStep
  <1>3. CASE Exit \/ Crash \/ Mine
    BY <1>3, ExitKeeps, MineKeeps
  <1>4. CASE Start
    <2>1. CASE StartScan("azuki:claim-tiger", Deployer)
      BY <2>1, UserAssumption, StartScanKeeps DEF ScanJobs
    <2>2. CASE \E job \in ScanJobs \ {"azuki:claim-tiger"}, u \in User : StartScan(job, u)
      BY <2>2, StartScanKeeps
    <2>3. CASE \E job \in ScanJobs, ids \in IdLists, spaced \in BOOLEAN : StartWithIds(job, Deployer, ids, spaced)
      BY <2>3, UserAssumption, StartWithIdsKeeps
    <2>4. CASE \E ids \in IdLists, spaced \in BOOLEAN : StartDistribution(ids, spaced)
      BY <2>4, StartDistributionKeeps
    <2>5. CASE \E t \in Token : StartConfigure(t)
      BY <2>5, StartConfigureKeeps
    <2> QED
      BY <1>4, <2>1, <2>2, <2>3, <2>4, <2>5 DEF Start
  <1>5. CASE \E t \in Token, u \in User : \E to \in User \cup {Bnft} : Transfer(t, u, to)
    BY <1>5, TransferKeeps
  <1>6. CASE \E t \in Token, u \in User : Mint(t, u) \/ Burn(t, u)
    BY <1>6, MintKeeps, BurnKeeps
  <1>7. CASE \E t \in Token : ExecuteAirdrop(t) \/ dev_apply_airdrop(t)
    BY <1>7, ExecuteAirdropKeeps, ApplyAirdropKeeps
  <1>8. CASE \E k \in Kinds : admin_claim_airdrop(k)
    BY <1>8, AdminClaimKeeps
  <1> QED
    BY <1>1, <1>2, <1>3, <1>4, <1>5, <1>6, <1>7, <1>8 DEF Next

\* Everything IInv says of the chain and of the running task holds at any time.
THEOREM Invariance == Spec => []IInv
  BY InitHolds, Inductive, PTL DEF Spec

\* Both ledgers keep every token with one holder, bound tokens in the bNFT, and no
\* loop of a task runs past its end (TypeOK).
THEOREM TypeCorrect == Spec => []TypeOK
  <1>1. ASSUME IInv PROVE TypeOK
    <2>1. \A t \in Token : Cardinality({h \in User \cup {Bnft} : Has(native, h, t)}) = 1
      <3> SUFFICES ASSUME NEW t \in Token
                   PROVE  Cardinality({h \in User \cup {Bnft} : Has(native, h, t)}) = 1
        OBVIOUS
      <3>1. PICK g \in User \cup {Bnft} : Has(native, g, t)
        BY <1>1 DEF IInv, Ledgers
      <3>2. {h \in User \cup {Bnft} : Has(native, h, t)} = {g}
        BY <1>1, <3>1 DEF IInv, Ledgers, Sole
      <3> QED
        BY <3>2, FS_Singleton
    <2>2. \A t \in Token : Cardinality(Deed(t)) <= 1 /\ (Deed(t) # {} => Held(t))
      <3> SUFFICES ASSUME NEW t \in Token PROVE Cardinality(Deed(t)) <= 1 /\ (Deed(t) # {} => Held(t))
        OBVIOUS
      <3>1. CASE Deed(t) = {}
        BY <3>1, FS_EmptySet
      <3>2. CASE Deed(t) # {}
        <4>1. PICK u \in User : Has(bnft, u, t)
          BY <3>2 DEF Deed
        <4>2. Deed(t) = {u} /\ Held(t)
          BY <1>1, <4>1 DEF IInv, Ledgers, Sole, Deed
        <4> QED
          BY <4>2, FS_Singleton
      <3> QED
        BY <3>1, <3>2
    <2>3. /\ native \in [User \cup {Bnft} -> Seq(Token)] /\ bnft \in [User -> Seq(Token)]
          /\ purse \in [{"bnft", "dist"} -> [Kinds -> Nat]] /\ listed \in [User -> Seq(Token)]
      BY <1>1 DEF IInv, Ledgers, Sole, Prizes
    <2>4. p.tries \in 0..Tries /\ (p.pc \in LoopPlaces => p.idx < p.num)
      BY <1>1 DEF IInv, Places, Records
    <2> QED
      BY <2>1, <2>2, <2>3, <2>4 DEF TypeOK
  <1> QED
    BY <1>1, Invariance, PTL

\* azuki:distribution prints its lists only if they pair every id with someone who
\* held the token, or had it bound, during the run (azuki-tiger.ts:96-116).
THEOREM PairedCorrect == Spec => []PairedWithOwner
  <1>1. ASSUME IInv PROVE PairedWithOwner
    <2> SUFFICES ASSUME p.job = "azuki:distribution", p.pc = "done"
                 PROVE  /\ Len(p.users) = Len(p.ids)
                        /\ \A i \in DOMAIN p.ids : <<p.ids[i], p.users[i]>> \in seen
      BY DEF PairedWithOwner
    <2>1. /\ Len(p.users) = Len(p.ids) /\ p.num = Len(p.ids) /\ Len(p.users) <= p.idx /\ p.idx <= p.num
          /\ Len(p.users) = p.idx => \A i \in 1..p.idx : <<p.ids[i], p.users[i]>> \in seen
      BY <1>1 DEF IInv, Pairing
    <2>2. p.ids \in Seq(Token) /\ p.idx \in Nat
      BY <1>1 DEF IInv, Places, Records
    <2>3. DOMAIN p.ids = 1..p.idx /\ Len(p.users) = p.idx
      BY <2>1, <2>2
    <2> QED
      BY <2>1, <2>3
  <1> QED
    BY <1>1, Invariance, PTL

\* For every kind as many prizes have moved to the distribution as NFTs are listed
\* there whose prize came through the bNFT, unless prizes were claimed for someone
\* else, whatever task was killed and run again and whatever it had sent is mined
\* when (airdrop.ts:273-313).
THEOREM ListedMovedCorrect == Spec => []ListedPrizesMoved
  <1>1. ASSUME IInv PROVE ListedPrizesMoved
    <2> SUFFICES ASSUME NEW k \in Kinds, ~strayed
                 PROVE  Cardinality(Due(k)) <= purse["dist"][k]
      BY DEF ListedPrizesMoved, Due
    <2>1. IsFiniteSet(DueNext(k)) /\ Cardinality(DueNext(k)) \in Nat /\ Due(k) \subseteq DueNext(k)
      BY DueNextIs DEF DueNext
    <2>2. Cardinality(Due(k)) \in Nat /\ Cardinality(Due(k)) <= Cardinality(DueNext(k))
      BY <2>1, FS_Subset, FS_CardinalityType
    <2>3. Cardinality(DueNext(k)) <= purse["dist"][k] /\ purse["dist"][k] \in Nat
      BY <1>1 DEF IInv, Accounts, Prizes
    <2> QED
      BY <2>1, <2>2, <2>3
  <1> QED
    BY <1>1, Invariance, PTL

\* A configuration that completes leaves its NFT listed, alone, for whom it read as
\* the owner of the bound token, with its kind configured; run again after a crash,
\* it reverts only for an NFT without a prize or a bound token, for an ERC-721
\* prize that has left the bNFT, or if a transaction of the killed run is mined
\* only under it (airdrop.ts:281-313).
THEOREM OwnerListedCorrect == Spec => []OwnerListed
  <1>1. ASSUME IInv PROVE OwnerListed
    <2> SUFFICES ASSUME p.job = "dev:configure-airdrop-distribution"
                 PROVE  /\ p.pc = "done" =>
                              /\ listed[p.user] = <<p.cur>>
                              /\ tokenType = "erc1155" => erc1155Ids = {Kind(p.cur)}
                              /\ Deed(p.cur) = {p.user} \/ p.disturbed
                        /\ p.pc = "reverted" /\ ~p.disturbed =>
                              \/ airdropped[p.cur] = "no"
                              \/ Deed(p.cur) = {}
                              \/ tokenType = "erc721" /\ purse["bnft"][p.cur] = 0
                              \/ p.late
      BY DEF OwnerListed, Configured
    <2>1. p.pc = "done" /\ ~p.disturbed => p.user \in Deed(p.cur) /\ p.cur \in Token
      BY <1>1 DEF IInv, Configuring
    <2>2. p.pc = "done" /\ ~p.disturbed => Deed(p.cur) = {p.user}
      BY <1>1, <2>1 DEF IInv, Ledgers, Sole, Deed
    <2> QED
      BY <1>1, <2>2 DEF IInv, Configuring
  <1> QED
    BY <1>1, Invariance, PTL
-----------------------------------------------------------------------------
(* What a scan has found.                                                   *)

\* The indices below n of a scan's unclaimed tokens, which were found in order.
Unclaimed(n) == {i \in 1..n : airdropped[Scanned[i]] = "no"}
FoundUpTo(n) ==
    /\ Len(p.ids) = Cardinality(Unclaimed(n))
    /\ \A i \in Unclaimed(n) : p.ids[Cardinality({j \in Unclaimed(n) : j <= i})] = Scanned[i]

\* As long as nothing moves and one read at most has failed, a scan leaves out none
\* of the tokens it has been through: one failure leaves a try for the same token.
Scanning ==
    /\ p.scanned => p.job \in ScanJobs
    /\ p.scanned /\ ~p.disturbed /\ ~p.late /\ p.errs <= 1 =>
        /\ p.pc = "balanceOf" => p.ids = <<>> /\ p.errs = 0
        /\ p.pc \in {"tokenOfOwnerByIndex", "canClaim"} =>
              p.num = Len(Scanned) /\ (p.errs = 0 => p.tries = 3) /\ FoundUpTo(p.idx)
        /\ p.pc = "canClaim" => p.cur = Scanned[p.idx + 1]
        /\ p.pc = "send" => FoundUpTo(Len(Scanned))

\* An element of a set of indices has its rank in it, and a later index the last.
LEMMA Ranks ==
    ASSUME NEW n \in Nat, NEW U \in SUBSET (1..n)
    PROVE  /\ Cardinality(U) \in Nat
           /\ \A i \in U : Cardinality({j \in U : j <= i}) \in 1..Cardinality(U)
           /\ Cardinality(U \cup {n + 1}) = Cardinality(U) + 1
           /\ \A i \in U : {j \in U \cup {n + 1} : j <= i} = {j \in U : j <= i}
           /\ {j \in U \cup {n + 1} : j <= n + 1} = U \cup {n + 1}
  <1>1. IsFiniteSet(U) /\ Cardinality(U) \in Nat
    <2>1. IsFiniteSet(1..n)
      BY FS_Interval
    <2> QED
      BY <2>1, FS_Subset, FS_CardinalityType
  <1>2. \A i \in U : Cardinality({j \in U : j <= i}) \in 1..Cardinality(U)
    <2> SUFFICES ASSUME NEW i \in U PROVE Cardinality({j \in U : j <= i}) \in 1..Cardinality(U)
      OBVIOUS
    <2> DEFINE B == {j \in U : j <= i}
    <2>1. B \in SUBSET U /\ i \in B
      OBVIOUS
    <2> HIDE DEF B
    <2>2. IsFiniteSet(B) /\ Cardinality(B) \in Nat /\ Cardinality(B) <= Cardinality(U) /\ Cardinality(B) # 0
      BY <1>1, <2>1, FS_Subset, FS_CardinalityType, FS_EmptySet
    <2>3. Cardinality(B) \in 1..Cardinality(U)
      BY <1>1, <2>2
    <2> QED
      BY <2>3 DEF B
  <1>3. Cardinality(U \cup {n + 1}) = Cardinality(U) + 1
    <2>1. n + 1 \notin U
      OBVIOUS
    <2> QED
      BY <1>1, <2>1, FS_AddElement
  <1>4. \A i \in U : {j \in U \cup {n + 1} : j <= i} = {j \in U : j <= i}
    <2>1. \A i \in U : i <= n /\ i \in Nat
      OBVIOUS
    <2> QED
      BY <2>1
  <1>5. {j \in U \cup {n + 1} : j <= n + 1} = U \cup {n + 1}
    <2>1. n + 1 <= n + 1 /\ \A j \in U : j <= n + 1
      OBVIOUS
    <2> QED
      BY <2>1
  <1> QED
    BY <1>1, <1>2, <1>3, <1>4, <1>5

\* The token at the next index is found if it is unclaimed, and goes last.
LEMMA FoundNext ==
    ASSUME NEW n \in Nat, n + 1 \in 1..Len(Scanned), p.ids \in Seq(Token), Scanned[n + 1] \in Token, FoundUpTo(n),
           Scanned' = Scanned, airdropped' = airdropped,
           p'.ids = IF airdropped[Scanned[n + 1]] = "no" THEN Append(p.ids, Scanned[n + 1]) ELSE p.ids
    PROVE  FoundUpTo(n + 1)'
  <1> DEFINE U == Unclaimed(n)
             t == Scanned[n + 1]
  <1>1. U \in SUBSET (1..n)
    BY DEF Unclaimed
  <1>2. Unclaimed(n + 1)' = IF airdropped[t] = "no" THEN U \cup {n + 1} ELSE U
    <2>1. Unclaimed(n + 1)' = {i \in 1..(n + 1) : airdropped[Scanned[i]] = "no"}
      BY DEF Unclaimed
    <2>2. \A i : i \in 1..(n + 1) <=> i \in 1..n \/ i = n + 1
      OBVIOUS
    <2> QED
      BY <2>1, <2>2 DEF Unclaimed
  <1>3. CASE airdropped[t] # "no"
    BY <1>2, <1>3 DEF FoundUpTo
  <1>4. CASE airdropped[t] = "no"
    <2> DEFINE V == U \cup {n + 1}
    <2>1. /\ Cardinality(U) \in Nat /\ Cardinality(V) = Cardinality(U) + 1
          /\ \A i \in U : Cardinality({j \in U : j <= i}) \in 1..Cardinality(U)
          /\ \A i \in U : {j \in V : j <= i} = {j \in U : j <= i}
          /\ {j \in V : j <= n + 1} = V
      <3> HIDE DEF U
      <3> QED
        BY <1>1, Ranks
    <2>2. /\ Len(Append(p.ids, t)) = Len(p.ids) + 1
          /\ Append(p.ids, t)[Len(p.ids) + 1] = t
          /\ \A k \in 1..Len(p.ids) : Append(p.ids, t)[k] = p.ids[k]
      BY AppendProperties
    <2>3. /\ Len(p.ids) = Cardinality(U)
          /\ \A i \in U : p.ids[Cardinality({j \in U : j <= i})] = Scanned[i]
      BY DEF FoundUpTo
    <2>4. p'.ids = Append(p.ids, t) /\ Unclaimed(n + 1)' = V
      BY <1>2, <1>4
    <2>5. Len(p'.ids) = Cardinality(V)
      BY <2>1, <2>2, <2>3, <2>4
    <2>6. ASSUME NEW i \in V PROVE p'.ids[Cardinality({j \in V : j <= i})] = Scanned[i]
      <3>1. CASE i = n + 1
        BY <2>1, <2>2, <2>3, <2>4, <3>1
      <3>2. CASE i \in U
        <4> HIDE DEF U, V, t
        <4> QED
          BY <2>1, <2>2, <2>3, <2>4, <3>2
      <3> QED
        BY <2>6, <3>1, <3>2
    <2> HIDE DEF U, V, t
    <2>7. \A i \in V : p'.ids[Cardinality({j \in V : j <= i})] = Scanned'[i]
      BY <2>6
    <2> QED
      BY <2>4, <2>5, <2>7 DEF FoundUpTo
  <1> QED
    BY <1>3, <1>4

LEMMA FoundNothing ==
    ASSUME p.ids = <<>>
    PROVE  FoundUpTo(0)
  <1>1. Unclaimed(0) = {}
    BY DEF Unclaimed
  <1> QED
    BY <1>1, FS_EmptySet DEF FoundUpTo

\* A step that leaves the ledgers, the task and what was found as they are.
LEMMA ScanStays ==
    ASSUME UNCHANGED world, p'.job = p.job, p'.user = p.user
    PROVE  /\ Scanned' = Scanned /\ airdropped' = airdropped
           /\ \A n : p'.ids = p.ids /\ FoundUpTo(n) => FoundUpTo(n)'
  <1>1. Scanned' = Scanned /\ airdropped' = airdropped
    BY DEF Scanned, world, ledgers, prizes
  <1>2. \A n : Unclaimed(n)' = Unclaimed(n)
    BY <1>1 DEF Unclaimed
  <1> QED
    BY <1>1, <1>2 DEF FoundUpTo

\* A task that does not scan.
LEMMA NoScan ==
    ASSUME ~p'.scanned
    PROVE  Scanning'
  BY DEF Scanning

\* A task that is through with its scan.
LEMMA ScanOver ==
    ASSUME Scanning, p'.scanned = p.scanned, p'.job = p.job,
           p'.disturbed \/ p'.late \/ p'.pc \notin ScanPlaces \cup {"send"}
    PROVE  Scanning'
  BY DEF Scanning, ScanPlaces

LEMMA ReadBalanceScans ==
    ASSUME IInv, Scanning, ReadBalance
    PROVE  Scanning'
  <1>1. p \in Records /\ p.pc = "balanceOf" /\ p.job \in ScanJobs /\ p.idx = 0
    BY DEF IInv, Places, ScanPlaces, ReadBalance, At
  <1> DEFINE pc == IF Scanned = <<>> THEN "send" ELSE "tokenOfOwnerByIndex"
  <1>2. p' = [p EXCEPT !.num = Len(Scanned), !.tries = 3, !.pc = pc] /\ UNCHANGED world
    BY DEF ReadBalance, Local, Tries
  <1>3. pc = "tokenOfOwnerByIndex" \/ (pc = "send" /\ Len(Scanned) = 0)
    BY EmptySeq
  <1> HIDE DEF pc
  <1>4. /\ p'.pc = pc /\ p'.num = Len(Scanned) /\ p'.tries = 3 /\ p'.idx = 0 /\ p'.ids = p.ids
        /\ p'.job = p.job /\ p'.user = p.user /\ p'.scanned = p.scanned
        /\ p'.disturbed = p.disturbed /\ p'.late = p.late /\ p'.errs = p.errs
    BY <1>1, <1>2 DEF Records
  <1>5. Scanned' = Scanned /\ (p.ids = <<>> => FoundUpTo(0)')
    BY <1>2, <1>4, ScanStays, FoundNothing
  <1> QED
    BY <1>1, <1>3, <1>4, <1>5 DEF Scanning

\* The end of a body of a scan's loop: what was found is up to the next index, or
\* the read failed and is tried again.
LEMMA ScanLoopScans ==
    ASSUME IInv, Scanning, UNCHANGED world, p.job \in ScanJobs, NEW q \in Unstarted, q.idx < q.num,
           q.job = p.job, q.user = p.user, q.num = p.num, q.idx = p.idx, q.pc = "tokenOfOwnerByIndex",
           q.scanned = p.scanned, q.disturbed = p.disturbed, q.late = p.late, p' = LoopStep(q, q.num, "send"),
           p.scanned /\ ~p.disturbed /\ ~p.late /\ q.errs <= 1 =>
              /\ p.num = Len(Scanned)
              /\ q.tries = 1 => q.errs # 0 /\ FoundUpTo(p.idx) /\ q.ids = p.ids
              /\ q.tries # 1 => \A n : n = p.idx + 1 => FoundUpTo(n)'
    PROVE  Scanning'
  <1>1. "send" \in Pcs
    BY DEF Pcs
  <1>2. /\ p'.job = p.job /\ p'.user = p.user /\ p'.num = p.num /\ p'.ids = q.ids
        /\ p'.scanned = p.scanned /\ p'.disturbed = p.disturbed /\ p'.late = p.late /\ p'.errs = q.errs
        /\ \/ q.tries = 1 /\ p'.idx = p.idx /\ p'.tries = 1 /\ p'.pc = "tokenOfOwnerByIndex"
           \/ q.tries # 1 /\ p'.idx = p.idx + 1 /\ p'.tries = 3
              /\ (p'.pc = "tokenOfOwnerByIndex" \/ (p'.idx = p.num /\ p'.pc = "send"))
    BY <1>1, LoopStepIs
  <1>3. Scanned' = Scanned /\ \A n : p'.ids = p.ids /\ FoundUpTo(n) => FoundUpTo(n)'
    BY <1>2, ScanStays
  <1>4. ASSUME p.scanned, ~p.disturbed, ~p.late, q.errs <= 1
        PROVE  /\ p'.num = Len(Scanned) /\ Scanned' = Scanned
               /\ \A n : n = p'.idx => FoundUpTo(n)'
               /\ p'.errs = 0 => p'.tries = 3
               /\ p'.pc = "send" => p'.idx = Len(Scanned)
    <2>1. CASE q.tries = 1
      BY <1>2, <1>3, <1>4, <2>1
    <2>2. CASE q.tries # 1
      BY <1>2, <1>3, <1>4, <2>2
    <2> QED
      BY <2>1, <2>2
  <1>5. p'.pc \in {"tokenOfOwnerByIndex", "send"}
    BY <1>2
  <1>6. ASSUME NEW n, n = p'.idx, FoundUpTo(n)'
        PROVE  FoundUpTo(p.idx)'
    BY <1>6 DEF FoundUpTo, Unclaimed
  <1>7. ASSUME NEW n, n = p'.idx, FoundUpTo(n)', p'.idx = Len(Scanned)
        PROVE  FoundUpTo(Len(Scanned))'
    <2>1. n = Len(Scanned')
      BY <1>3, <1>7
    <2> QED
      BY <2>1, <1>7 DEF FoundUpTo, Unclaimed
  <1> QED
    BY <1>2, <1>3, <1>4, <1>5, <1>6, <1>7 DEF Scanning

LEMMA BodyFailsScans ==
    ASSUME IInv, Scanning, BodyFails, p.pc \in {"tokenOfOwnerByIndex", "canClaim"}
    PROVE  Scanning'
  <1> DEFINE q == [FailOnce(p) EXCEPT !.pc = "tokenOfOwnerByIndex"]
  <1>1. p \in Records /\ p.job \in ScanJobs /\ p.idx < p.num /\ p.tries \in {1, 3} /\ p.errs \in Nat
    BY DEF IInv, Places, ScanPlaces, LoopPlaces, Records
  <1>2. "tokenOfOwnerByIndex" \in Pcs
    BY DEF Pcs, ScanPlaces
  <1>3. /\ q \in Unstarted /\ q.pc = "tokenOfOwnerByIndex" /\ q.job = p.job
        /\ q.idx = p.idx /\ q.num = p.num /\ q.ids = p.ids /\ q.user = p.user
        /\ q.disturbed = p.disturbed /\ q.late = p.late /\ q.scanned = p.scanned
        /\ q.errs = p.errs + 1 /\ q.tries = p.tries - 2
    BY <1>1, <1>2, FailOnceIs
  <1>4. p' = LoopStep(q, p.num, "send") /\ UNCHANGED world
    BY DEF BodyFails, Local
  <1> HIDE DEF q
  <1>5. q.errs <= 1 => q.errs = 1 /\ p.errs = 0
    BY <1>1, <1>3
  <1>6. p.scanned /\ ~p.disturbed /\ ~p.late /\ q.errs <= 1 =>
          p.num = Len(Scanned) /\ q.tries = 1 /\ FoundUpTo(p.idx)
    BY <1>1, <1>3, <1>5 DEF Scanning
  <1> QED
    BY <1>1, <1>3, <1>4, <1>5, <1>6, ScanLoopScans

LEMMA TokenReadScans ==
    ASSUME IInv, Scanning, tokenOfOwnerByIndex
    PROVE  Scanning'
  <1>1. p \in Records /\ p.pc = "tokenOfOwnerByIndex"
    BY DEF IInv, Places, tokenOfOwnerByIndex, At
  <1>2. CASE BodyFails
    BY <1>1, <1>2, BodyFailsScans
  <1>3. CASE p' = [p EXCEPT !.cur = Scanned[p.idx + 1], !.pc = "canClaim"] /\ Local
    <2>1. /\ p'.pc = "canClaim" /\ p'.cur = Scanned[p.idx + 1] /\ p'.num = p.num /\ p'.tries = p.tries
          /\ p'.idx = p.idx /\ p'.ids = p.ids /\ p'.job = p.job /\ p'.user = p.user
          /\ p'.scanned = p.scanned /\ p'.disturbed = p.disturbed /\ p'.late = p.late /\ p'.errs = p.errs
      BY <1>1, <1>3 DEF Records
    <2>2. Scanned' = Scanned /\ \A n : FoundUpTo(n) => FoundUpTo(n)'
      BY <1>3, <2>1, ScanStays DEF Local
    <2>3. ASSUME FoundUpTo(p.idx)
          PROVE  FoundUpTo(p.idx)'
      <3>1. PICK n : n = p.idx
        OBVIOUS
      <3>2. FoundUpTo(n)' /\ n = p'.idx
        BY <2>1, <2>2, <2>3, <3>1
      <3> QED
        BY <3>2 DEF FoundUpTo, Unclaimed
    <2> QED
      BY <1>1, <2>1, <2>2, <2>3 DEF Scanning
  <1> QED
    BY <1>2, <1>3 DEF tokenOfOwnerByIndex

LEMMA CanClaimScans ==
    ASSUME IInv, Scanning, canClaim
    PROVE  Scanning'
  <1>1. /\ p \in Records /\ p.pc = "canClaim" /\ p.job \in ScanJobs /\ p.idx < p.num /\ p.tries \in {1, 3}
        /\ p.cur \in Token /\ p.idx \in Nat /\ p.ids \in Seq(Token)
    BY DEF IInv, Places, ScanPlaces, LoopPlaces, canClaim, At, Records
  <1>2. CASE BodyFails
    BY <1>1, <1>2, BodyFailsScans
  <1> DEFINE found == IF airdropped[p.cur] = "no" THEN Append(p.ids, p.cur) ELSE p.ids
             q     == [EndTries(p) EXCEPT !.ids = found, !.pc = "tokenOfOwnerByIndex"]
  <1>3. CASE p' = LoopStep(q, p.num, "send") /\ Local
    <2>1. found \in Seq(Token) /\ "tokenOfOwnerByIndex" \in Pcs /\ "send" \in Pcs
      BY <1>1 DEF Pcs, ScanPlaces
    <2>2. found = IF airdropped[p.cur] = "no" THEN Append(p.ids, p.cur) ELSE p.ids
      OBVIOUS
    <2> HIDE DEF found
    <2>3. q = [p EXCEPT !.tries = 0, !.ids = found, !.pc = "tokenOfOwnerByIndex"]
      BY <1>1 DEF EndTries, Records
    <2>4. /\ q \in Unstarted /\ q.pc = "tokenOfOwnerByIndex" /\ q.job = p.job /\ q.idx = p.idx
          /\ q.num = p.num /\ q.user = p.user /\ q.scanned = p.scanned /\ q.disturbed = p.disturbed /\ q.late = p.late
          /\ q.errs = p.errs /\ q.tries = 0 /\ q.ids = found
      BY <1>1, <2>1, <2>3 DEF Records, Unstarted
    <2> HIDE DEF q
    <2>5. UNCHANGED world /\ p'.ids = found /\ p'.job = p.job /\ p'.user = p.user
      BY <1>1, <1>3, <2>1, <2>4, LoopStepIs DEF Local
    <2>6. Scanned' = Scanned /\ airdropped' = airdropped
      BY <2>5, ScanStays
    <2>7. ASSUME p.scanned, ~p.disturbed, ~p.late, p.errs <= 1
          PROVE  p.num = Len(Scanned) /\ \A n : n = p.idx + 1 => FoundUpTo(n)'
      <3>1. p.num = Len(Scanned) /\ FoundUpTo(p.idx) /\ p.cur = Scanned[p.idx + 1]
        BY <1>1, <2>7 DEF Scanning
      <3>2. p.idx + 1 \in 1..Len(Scanned)
        BY <1>1, <3>1, ScannedIs
      <3>3. PICK m : m = p.idx
        OBVIOUS
      <3>4. m \in Nat /\ m + 1 \in 1..Len(Scanned) /\ Scanned[m + 1] = p.cur /\ FoundUpTo(m)
        BY <1>1, <3>1, <3>2, <3>3
      <3>5. FoundUpTo(m + 1)'
        BY <1>1, <2>2, <2>5, <2>6, <3>4, FoundNext
      <3> QED
        BY <3>1, <3>3, <3>5
    <2> QED
      BY <1>1, <1>3, <2>4, <2>5, <2>7, ScanLoopScans
  <1> QED
    BY <1>2, <1>3 DEF canClaim


\* The end of the body of a loop does not make a scan of another task.
LEMMA LoopStepScans ==
    ASSUME NEW q \in Unstarted, NEW last, NEW after \in Pcs
    PROVE  LoopStep(q, last, after).scanned = q.scanned
  BY DEF LoopStep, Unstarted

\* The steps of the tasks that do not scan.
LEMMA OwnerStepScans ==
    ASSUME IInv, Scanning, ownerOf \/ bnftOwnerOf \/ CheckUsers
    PROVE  Scanning'
  <1>1. /\ p \in Records /\ ~p.scanned /\ (p.pc # "check" => p.tries \in {1, 3})
        /\ "ownerOf" \in Pcs /\ "check" \in Pcs /\ "done" \in Pcs /\ "thrown" \in Pcs
    BY DEF IInv, Places, OwnerPlaces, LoopPlaces, ScanJobs, ownerOf, bnftOwnerOf, CheckUsers, At, Scanning, Pcs
  <1>2. ASSUME OwnerFails, p.tries \in {1, 3} PROVE ~p'.scanned
    <2>1. PICK q : q = [FailOnce(p) EXCEPT !.pc = "ownerOf"]
      OBVIOUS
    <2>2. q \in Unstarted /\ q.scanned = p.scanned
      BY <1>1, <1>2, <2>1, FailOnceIs
    <2> QED
      BY <1>1, <1>2, <2>1, <2>2, LoopStepScans DEF OwnerFails
  <1>3. ASSUME NEW u \in User, UserFound(u) PROVE ~p'.scanned
    <2>1. PICK q : q = [EndTries(p) EXCEPT !.users = Append(@, u), !.pc = "ownerOf"]
      OBVIOUS
    <2>2. q = [p EXCEPT !.tries = 0, !.users = Append(p.users, u), !.pc = "ownerOf"]
      BY <1>1, <2>1 DEF EndTries, Records
    <2>3. Append(p.users, u) \in Seq(User)
      BY <1>1 DEF Records
    <2>4. q \in Unstarted /\ q.scanned = p.scanned
      BY <1>1, <2>2, <2>3 DEF Records, Unstarted
    <2> QED
      BY <1>1, <1>3, <2>1, <2>4, LoopStepScans DEF UserFound
  <1>4. ASSUME p' = [p EXCEPT !.pc = "bnftOwnerOf"] PROVE ~p'.scanned
    BY <1>1, <1>4 DEF Records
  <1>5. CASE CheckUsers
    BY <1>1, <1>5, EndsIs, NoScan DEF CheckUsers
  <1>6. CASE ownerOf
    BY <1>1, <1>2, <1>3, <1>4, <1>6, NoScan DEF ownerOf, At
  <1>7. CASE bnftOwnerOf
    BY <1>1, <1>2, <1>3, <1>7, NoScan DEF bnftOwnerOf, At, Deed
  <1> QED
    BY <1>5, <1>6, <1>7

\* What is sent is sent past the scan.
LEMMA SendTxScans ==
    ASSUME IInv, Scanning, NEW fn, SendTx(fn)
    PROVE  Scanning'
  <1>1. p \in Records /\ (Ends("wait") \/ Ends("reverted"))
    BY DEF IInv, Places, SendTx
  <1>2. "wait" \in Pcs /\ "reverted" \in Pcs /\ "wait" \notin ScanPlaces \cup {"send"}
        /\ "reverted" \notin ScanPlaces \cup {"send"}
    BY DEF Pcs, ScanPlaces
  <1> QED
    BY <1>1, <1>2, EndsIs, ScanOver

LEMMA MineScans ==
    ASSUME IInv, Scanning, Mine
    PROVE  Scanning'
  <1>1. p \in Records /\ flying # <<>>
    BY DEF IInv, Places, Mine
  <1> DEFINE own == At("wait") /\ Len(flying) = 1
             t   == Head(flying)
  <1>2. p' = CASE own -> [p EXCEPT !.pc = IF Succeeds(t) THEN GoesOn(t.fn) ELSE "reverted"]
               [] ~own /\ Running -> [p EXCEPT !.late = TRUE]
               [] ~Running -> NoTask
    BY Zenon DEF Mine
  <1>3. own => Running
    BY DEF At, Running
  <1>4. t.fn \in Fns
    BY <1>1, HeadIs DEF Txs
  <1>5. GoesOn(t.fn) \in Pcs /\ GoesOn(t.fn) \notin ScanPlaces \cup {"send"}
        /\ "reverted" \in Pcs /\ "reverted" \notin ScanPlaces \cup {"send"}
    BY <1>4 DEF GoesOn, Fns, Pcs, ScanPlaces, ConfigurePlaces, PrizePlaces, ToListPlaces
  <1> HIDE DEF own, t
  <1>6. CASE own
    <2>1. PICK pc \in Pcs : Ends(pc) /\ pc \notin ScanPlaces \cup {"send"}
      BY <1>2, <1>3, <1>5, <1>6 DEF Ends
    <2> QED
      BY <1>1, <2>1, EndsIs, ScanOver
  <1>7. CASE ~own /\ Running
    <2>1. p' = [p EXCEPT !.late = TRUE]
      BY <1>2, <1>7
    <2>2. p'.late /\ p'.scanned = p.scanned /\ p'.job = p.job
      BY <1>1, <2>1 DEF Records
    <2> QED
      BY <2>2, ScanOver
  <1>8. CASE ~Running
    <2>1. p' = NoTask
      BY <1>2, <1>3, <1>8
    <2> QED
      BY <2>1, NoScan DEF NoTask
  <1> QED
    BY <1>6, <1>7, <1>8

LEMMA ConfigureStepScans ==
    ASSUME IInv, Scanning, ReadAirdrops \/ bnftSnapshotAirdrop \/ ReadOwner \/ ReadPrizeBalance \/ Configure
    PROVE  Scanning'
  <1>1. CASE Configure
    BY <1>1, SendTxScans DEF Configure
  <1>2. CASE ReadAirdrops \/ bnftSnapshotAirdrop \/ ReadOwner \/ ReadPrizeBalance
    <2>1. p \in Records /\ ~p.scanned
      BY <1>2 DEF IInv, Places, ConfigurePlaces, PrizePlaces, ScanJobs, ReadAirdrops, bnftSnapshotAirdrop,
                  ReadOwner, ReadPrizeBalance, At, Scanning
    <2>2. \A how : Ends(how) => ~p'.scanned
      BY <2>1 DEF Ends, Records
    <2>3. ~p'.scanned
      BY <1>2, <2>1, <2>2 DEF Records, ReadAirdrops, bnftSnapshotAirdrop, ReadOwner, ReadPrizeBalance
    <2> QED
      BY <2>3, NoScan
  <1> QED
    BY <1>1, <1>2

LEMMA StartScans ==
    ASSUME IInv, Scanning, Start
    PROVE  Scanning'
  <1>1. NoTask \in Records /\ ~NoTask.scanned /\ NoTask.ids = <<>> /\ NoTask.errs = 0
    BY NoTaskIs DEF NoTask
  <1>2. ASSUME NEW job \in ScanJobs, NEW u \in User, StartScan(job, u) PROVE Scanning'
    <2>1. p' = [NoTask EXCEPT !.job = job, !.pc = "balanceOf", !.user = u, !.scanned = TRUE]
      BY <1>2 DEF StartScan, Begin
    <2>2. p'.job = job /\ p'.pc = "balanceOf" /\ p'.ids = <<>> /\ p'.errs = 0
      BY <1>1, <2>1 DEF Records
    <2> QED
      BY <2>2 DEF Scanning
  <1>3. ASSUME NEW job, NEW u, NEW ids, NEW spaced, StartWithIds(job, u, ids, spaced) PROVE Scanning'
    <2>1. ~p'.scanned
      BY <1>1, <1>3 DEF StartWithIds, Begin, Records
    <2> QED
      BY <2>1, NoScan
  <1>4. ASSUME NEW ids, NEW spaced, StartDistribution(ids, spaced) PROVE Scanning'
    <2>1. ~p'.scanned
      BY <1>1, <1>4 DEF StartDistribution, Begin, Records
    <2> QED
      BY <2>1, NoScan
  <1>5. ASSUME NEW t, StartConfigure(t) PROVE Scanning'
    <2>1. ~p'.scanned
      BY <1>1, <1>5 DEF StartConfigure, Begin, Records
    <2> QED
      BY <2>1, NoScan
  <1>6. "azuki:claim-tiger" \in ScanJobs /\ Deployer \in User
    BY UserAssumption DEF ScanJobs
  <1> QED
    BY <1>2, <1>3, <1>4, <1>5, <1>6 DEF Start

\* What another does disturbs the scan, or finds no task.
LEMMA MeanwhileScans ==
    ASSUME IInv, Scanning, Meanwhile
    PROVE  Scanning'
  <1>1. p \in Records
    BY DEF IInv, Places
  <1>2. CASE Running
    <2>1. p' = [p EXCEPT !.disturbed = TRUE]
      BY <1>2 DEF Meanwhile
    <2>2. p'.disturbed /\ p'.scanned = p.scanned /\ p'.job = p.job
      BY <1>1, <2>1 DEF Records
    <2> QED
      BY <2>2, ScanOver
  <1>3. CASE ~Running
    BY <1>3, NoScan DEF Meanwhile, NoTask
  <1> QED
    BY <1>2, <1>3

LEMMA ScanningStep ==
    ASSUME IInv, Scanning, [Next]_vars
    PROVE  Scanning'
  <1>1. p \in Records
    BY DEF IInv, Places
  <1>2. CASE UNCHANGED vars
    <2>1. UNCHANGED <<world, p>>
      BY <1>2 DEF vars
    <2>2. Scanned' = Scanned /\ airdropped' = airdropped
      BY <2>1, ScanStays
    <2> QED
      BY <2>1, <2>2 DEF Scanning, FoundUpTo, Unclaimed
  <1>3. CASE Send
    <2>1. CASE SendTx("executeAirdrop")
      BY <2>1, SendTxScans
    <2>2. CASE ~SendTx("executeAirdrop")
      <3>1. PICK how \in {"thrown", "done"} : Ends(how)
        BY <1>3, <2>2 DEF Send
      <3>2. how \in Pcs /\ how \notin ScanPlaces \cup {"send"}
        BY DEF Pcs, ScanPlaces
      <3> QED
        BY <1>1, <3>1, <3>2, EndsIs, ScanOver
    <2> QED
      BY <2>1, <2>2
  <1>4. CASE Exit \/ Crash
    BY <1>4, NoScan DEF Exit, Crash, NoTask
  <1>5. CASE Mine
    BY <1>5, MineScans
  <1>6. CASE TaskStep
    BY <1>3, <1>6, ReadBalanceScans, TokenReadScans, CanClaimScans, OwnerStepScans, ConfigureStepScans DEF TaskStep
  <1>7. CASE Meanwhile
    BY <1>7, MeanwhileScans
  <1>8. ASSUME [Next]_vars
        PROVE  UNCHANGED vars \/ TaskStep \/ Exit \/ Crash \/ Mine \/ Start \/ Meanwhile
    BY <1>8 DEF Next, Transfer, Mint, Burn, ExecuteAirdrop, dev_apply_airdrop, admin_claim_airdrop
  <1> QED
    BY <1>2, <1>4, <1>5, <1>6, <1>7, <1>8, StartScans

\* A scan that nothing moves under ends with exactly the unclaimed tokens of its
\* owner, each once and in their order, even if one of its reads failed
\* (azuki-tiger.ts:41-56, clonex-egg.ts:44-59 and 108-123).
THEOREM ScansComplete == Spec => []NobodyMissed
  <1>1. Init => Scanning
    BY NoScan DEF Init, NoTask, Scanning
  <1>2. IInv /\ Scanning /\ [Next]_vars => Scanning'
    BY ScanningStep
  <1>3. IInv /\ Scanning => NobodyMissed
    <2> SUFFICES ASSUME IInv, Scanning, p.pc = "send", p.scanned, ~p.disturbed, ~p.late, p.errs <= 1
                 PROVE  LET unclaimed == {i \in DOMAIN Scanned : airdropped[Scanned[i]] = "no"}
                        IN  /\ Len(p.ids) = Cardinality(unclaimed)
                            /\ \A i \in unclaimed :
                                  p.ids[Cardinality({j \in unclaimed : j <= i})] = Scanned[i]
      BY DEF NobodyMissed
    <2>1. FoundUpTo(Len(Scanned)) /\ Scanned \in Seq(Token)
      BY ScannedIs DEF Scanning
    <2>2. DOMAIN Scanned = 1..Len(Scanned)
      BY <2>1
    <2> QED
      BY <2>1, <2>2 DEF FoundUpTo, Unclaimed
  <1> QED
    BY <1>1, <1>2, <1>3, Invariance, PTL DEF Spec
=====

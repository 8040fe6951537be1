-------------------------- MODULE DeploymentProofs --------------------------
(***************************************************************************)
(* Safety of the deployment tasks on any networks, with any collections,   *)
(* tasks, flags and bounds.  A task is a script, and what a script does is *)
(* proved as of a sequential program: by an outline that gives, for every  *)
(* place in it, facts about the task's variables, the db and the chain.    *)
(* Facts and outlines are data, so that the outline of a script can be put *)
(* together from those of its parts; the invariant is that the facts at    *)
(* the place where the running task stands hold.                           *)
(*                                                                         *)
(* First what outlines and the invariant are; then the outlines of single  *)
(* steps, of what they are put together to and of every task; then that a  *)
(* step of any actor takes the facts of one place to those of the next.    *)
(***************************************************************************)
EXTENDS Deployment, FiniteSetTheorems, SequenceTheorems, WellFoundedInduction, TLAPS

\* A fact is a tag, an id, kind or variable, and another variable or "none".
Fact(tag, a, b) == <<tag, a, b>>
Known(v)    == Fact("known", v, "none")       \* the variable names a contract
Mined(v)    == Fact("mined", v, "none")       \* ... that is mined
Impl(v, k)  == Fact("impl", v, k)             \* ... of this kind, not a proxy
Proxy(v, k) == Fact("proxy", v, k)            \* ... a proxy of this kind
Newest      == Fact("newest", "impl", "none") \* no proxy has a later logic than impl
Rec(id, v)  == Fact("rec", id, v)             \* the db has the variable's address
Conf(id, v) == Fact("conf", id, v)            \* so has the configuration
Logic(v, w) == Fact("logic", v, w)            \* w is the logic of the proxy v,
Admin(v, w) == Fact("admin", v, w)            \* its admin,
ArgOf(v, w) == Fact("arg", v, w)              \* what its initializer stored
Alone       == Fact("alone", "none", "none")  \* no call is in flight but the task's own
Fresh(v)    == Fact("fresh", v, "none")       \* the contract was sent after all the others
Read        == Fact("read", "registry", "generic") \* generic is what registry was set to
Seen(s)     == Fact("seen", s, "registry")    \* "bound" tells if registry has bound s
Served(s)   == Fact("served", s, "registry")  \* registry has bound s, to its generic implementation
Configured(id) == Fact("set", id, "none")     \* the id is configured
Unset(id)   == Fact("unset", id, "none")      \* ... or it is not
Other       == Fact("other", "none", "none")  \* the task is not full:deploy-bnft-tokens

AdminIds == {"ProxyAdmin", "ProxyAdminWithoutTimelock"}

\* The variables a step binds, the ids it writes to the db, and the kinds of
\* fact it may make untrue by what it does on the chain.
Binds(e) == CASE e.do \in {"load", "config", "send"} -> {e.var}
              [] e.do = "bNftGenericImpl" -> {"generic"}
              [] e.do = "getBNFTAddresses" -> {"bound"}
              [] OTHER -> {}
Writes(e) == IF e.do \in {"insert", "save"} THEN {e.id} ELSE {}
Upsets(e) == CASE e.do = "upgrade" -> {"logic"}
               [] e.do \in {"setBNFTGenericImpl", "initialize"} -> {"arg", "served", "read"}
               [] e.do \in {"getBNFTAddresses", "createOrUpgrade", "createMocked", "createBNFT"} -> {"seen"}
               [] OTHER -> {}

\* Some facts begin with an id or a symbol, the others with a variable.
Mentions(f, v) == \/ f[3] = v
                  \/ f[2] = v /\ f[1] \notin {"rec", "conf", "seen", "served"}
                  \/ f[1] = "seen" /\ v = "bound"
                  \/ f[1] = "newest" /\ v = "impl"
Killed(f, e) ==
    /\ f[1] \notin {"set", "unset", "other"}
    /\ \/ f[1] \in Upsets(e)
       \/ \E v \in Binds(e) : Mentions(f, v)
       \/ f[1] = "rec" /\ f[2] \in Writes(e)

\* What holds after a step.
SendGives(e) ==
    {Known(e.var), Fresh(e.var)}
    \cup (IF e.args.logic = "none" THEN {Impl(e.var, e.kind)}
          ELSE {Proxy(e.var, e.kind), Logic(e.var, e.args.logic)})
    \cup (IF e.args.logic = "none" /\ e.var = "impl" THEN {Newest} ELSE {})
    \cup (IF e.args.admin = "none" THEN {} ELSE {Admin(e.var, e.args.admin)})
    \cup (IF e.args.arg = "none" \/ e.args.logic = "none" THEN {} ELSE {ArgOf(e.var, e.args.arg)})
Gives(e) ==
    CASE e.do = "load" -> {Known(e.var), Rec(e.id, e.var)}
      [] e.do = "config" -> {Known(e.var), Mined(e.var), Conf(e.id, e.var)}
                            \cup (IF e.id \in AdminIds THEN {} ELSE {Proxy(e.var, e.id)})
      [] e.do = "send" -> SendGives(e)
      [] e.do = "insert" -> {Rec(e.id, e.var)}
      [] e.do = "save" -> {Rec(e.id, e.var), Mined(e.var), Alone}
      [] e.do = "upgrade" -> {Logic("proxy", "impl"), Admin("proxy", "admin")}
      [] e.do = "setBNFTGenericImpl" -> {ArgOf("proxy", "generic")}
      [] e.do = "initialize" -> {ArgOf("receiver", "registry")}
      [] e.do = "bNftGenericImpl" -> {Read}
      [] e.do = "getBNFTAddresses" -> {Seen(e.asset)}
      [] e.do = "createOrUpgrade" -> {Served(e.asset)}
      [] OTHER -> {}

\* What a step needs.
SendNeeds(e, P) ==
    /\ Other \in P
    /\ e.args.logic # "none" => e.args.logic = "impl" /\ {Known("impl"), Alone} \subseteq P
    /\ e.args.admin # "none" => Known(e.args.admin) \in P
    /\ e.args.arg # "none" => Known(e.args.arg) \in P
    /\ e.kind = "BNFTRegistry" /\ e.args.logic # "none" => e.args.arg # "none" /\ Impl(e.args.arg, "BNFT") \in P
    /\ e.var \notin {e.args.logic, e.args.admin, e.args.arg}
UpgradeNeeds(P) ==
    /\ {Other, Newest, Alone, Known("admin")} \subseteq P
    /\ \E k \in ConfigIds : Proxy("proxy", k) \in P /\ Impl("impl", k) \in P
\* registry is the registry that full:deploy-bnft-tokens serves.
Found(P) == \/ Conf("BNFTRegistry", "registry") \in P
            \/ {Unset("BNFTRegistry"), Rec("BNFTRegistry", "registry")} \subseteq P
Needs(e, P) ==
    /\ e.do = "load" => e.id \in Ids
    /\ e.do = "config" => e.id \in ConfigIds /\ Configured(e.id) \in P
    /\ e.do = "send" => SendNeeds(e, P)
    /\ e.do = "insert" => Known(e.var) \in P /\ (e.id \in EarlyIds \/ Mined(e.var) \in P)
    /\ e.do = "save" => {Known(e.var), Fresh(e.var)} \subseteq P
    /\ e.do = "upgrade" => UpgradeNeeds(P)
    /\ e.do = "setBNFTGenericImpl" => {Other, Proxy("proxy", "BNFTRegistry"), Impl("generic", "BNFT")} \subseteq P
    /\ e.do = "initialize" => {Other, Impl("receiver", "AirdropFlashLoanReceiverV2"), Known("registry")} \subseteq P
    /\ e.do \in {"bNftGenericImpl", "getBNFTAddresses"} => Known("registry") \in P
    /\ e.do = "createOrUpgrade" => /\ e.asset \in Symbols /\ Found(P)
                                   /\ {Seen(e.asset), Read} \subseteq P
    /\ e.do \in {"createMocked", "createBNFT"} => Other \in P

\* From a place with the facts P, a step that does not throw leads to one with Q.
Leads(e, P, Q) ==
    /\ Needs(e, P)
    /\ e.do \in {"throw", "exit"} \/ \A f \in Q : f \in Gives(e) \/ (f \in P /\ ~Killed(f, e))

\* There are facts for every place of the script, those in P at its start and
\* those in Q at its end.
Outline(P, s, Q) ==
    /\ \E S : s \in Seq(S)
    /\ \E A : /\ A[1] \subseteq P
              /\ Q \subseteq A[Len(s) + 1]
              /\ \A j \in 1..Len(s) : Leads(s[j], A[j], A[j + 1])
-----------------------------------------------------------------------------
(* What the tasks lead to.                                                  *)

\* A proxy under its id in the db, with the logic and admin it was given.
ServedFacts(id) ==
    {Known("proxy"), Mined("proxy"), Proxy("proxy", id), Rec(id, "proxy"),
     Logic("proxy", "impl"), Admin("proxy", "admin")}

\* What makes a completed task serve id.
DoneFacts(id, adminId) == ServedFacts(id) \cup {Rec(ImplId(id), "impl"), Rec(adminId, "admin")}

\* A registry also has the implementation it gives to bNFTs.
RegistryFacts == DoneFacts("BNFTRegistry", "ProxyAdmin") \cup {Rec("BNFT", "generic"), ArgOf("proxy", "generic")}

\* The receiver's registry, where the task is through.
ReceiverFacts == {Known("receiver"), Known("registry"), Rec("AirdropFlashLoanReceiverV2", "receiver"),
                  ArgOf("receiver", "registry")}

\* The registry that was found serves every collection.
TokensGoal(Q) == Found(Q) /\ \A s \in Symbols : Served(s) \in Q

\* What the facts at the end of a task must tell.
Enough(t, Q) ==
    /\ t \in {"full:deploy-bnft-registry", "dev:deploy-bnft-registry"} => RegistryFacts \subseteq Q
    /\ t = "full:deploy-boundpunk-gateway" => DoneFacts("BoundPunkGateway", "ProxyAdmin") \subseteq Q
    /\ t = "full:deploy-flashclaim-registry-v3" =>
          DoneFacts("UserFlashclaimRegistryV3", "ProxyAdminWithoutTimelock") \subseteq Q
    /\ t = "full:deploy-airdrop-distribution" =>
          DoneFacts("AirdropDistribution", "ProxyAdminWithoutTimelock") \subseteq Q
    /\ t = "full:deploy-flashclaim-receiver-v2" => ReceiverFacts \subseteq Q
    /\ t = "full:deploy-bnft-tokens" => TokensGoal(Q)
-----------------------------------------------------------------------------
(* What the facts say of a state.                                           *)

\* A variable names a contract that was sent; it holds this address.
Names(v) == v \in DOMAIN loc /\ loc[v] \in 1..Len(chain)
Same(v, a) == v \in DOMAIN loc /\ a = loc[v]
ImplIn(ch, a, k) == a \in 1..Len(ch) /\ ch[a].kind = k /\ ch[a].logic = 0
BoundTo(s, v) == Bound(loc[v], NftsAssets(s))

\* No call is in flight but the one the task awaits.
OwnOnly == IF awaiting THEN Len(flying) = 1 ELSE flying = <<>>

Holds(f) ==
    /\ f[1] \in {"known", "mined", "impl", "proxy", "logic", "admin", "arg", "read", "fresh"} => Names(f[2])
    /\ f[1] \in {"alone", "logic", "arg"} => OwnOnly
    /\ f[1] = "fresh" => awaiting \/ \A i \in 1..Len(flying) : flying[i].after < loc[f[2]]
    /\ f[1] = "mined" => loc[f[2]] <= mined
    /\ f[1] = "impl" => chain[loc[f[2]]].kind = f[3] /\ chain[loc[f[2]]].logic = 0
    /\ f[1] = "proxy" => chain[loc[f[2]]].kind = f[3] /\ chain[loc[f[2]]].logic # 0
    /\ f[1] = "newest" => /\ Names("impl")
                          /\ \A p \in 1..Len(chain) : chain[p].logic <= loc["impl"]
                          /\ \A i \in 1..Len(flying) : flying[i].fn = "upgrade" => flying[i].to <= loc["impl"]
    /\ f[1] = "rec" /\ f[2] \in Ids => Same(f[3], db[f[2]])
    /\ f[1] = "conf" => Same(f[3], config[f[2]]) /\ IsSet(f[2])
    /\ f[1] = "logic" => Same(f[3], chain[loc[f[2]]].logic)
    /\ f[1] = "admin" => Same(f[3], chain[loc[f[2]]].admin)
    /\ f[1] = "arg" => Same(f[3], chain[loc[f[2]]].arg)
    /\ f[1] = "read" => /\ f[3] \in DOMAIN loc
                        /\ late \/ Same(f[3], chain[loc[f[2]]].arg)
                        /\ chain[loc[f[2]]].kind = "BNFTRegistry" /\ chain[loc[f[2]]].logic # 0 =>
                              ImplIn(chain, loc[f[3]], "BNFT")
    /\ f[1] = "seen" => /\ Names(f[3]) /\ "bound" \in DOMAIN loc /\ SeenBound \in BOOLEAN
                        /\ SeenBound => BoundTo(f[2], f[3])
                        /\ disturbed \/ late \/ (BoundTo(f[2], f[3]) => SeenBound)
    /\ f[1] = "served" => /\ Names(f[3]) /\ BoundTo(f[2], f[3])
                          /\ \/ disturbed \/ late
                             \/ OwnOnly /\ chain[loc[f[3]]].bnfts[NftsAssets(f[2])] = chain[loc[f[3]]].arg
    /\ f[1] = "set" => IsSet(f[2])
    /\ f[1] = "unset" => ~IsSet(f[2])
    /\ f[1] = "other" => task # "full:deploy-bnft-tokens"
-----------------------------------------------------------------------------
(* The invariant.                                                           *)

\* The types of the chain.  S is whatever kinds there are.
Books == UNION {[D -> Nat] : D \in SUBSET Nat}
Contracts(S) == [kind : S, logic : Nat, admin : Nat, arg : Nat, ours : BOOLEAN, bnfts : Books]

\* A registry was initialized with, or set to, a BNFT; others bind nothing.
GoodContract(ch, m, c, r) ==
    /\ c.logic <= Len(ch)
    /\ IF c.kind = "BNFTRegistry" /\ c.logic # 0
       THEN /\ ImplIn(ch, c.arg, "BNFT") /\ (c.arg <= m \/ c.arg < r)
            /\ \A x \in DOMAIN c.bnfts : ImplIn(ch, c.bnfts[x], "BNFT") /\ c.bnfts[x] <= m
       ELSE DOMAIN c.bnfts = {}
Ledger == /\ \E S : chain \in Seq(Contracts(S))
          /\ mined \in 0..Len(chain)
          /\ \A r \in 1..Len(chain) : GoodContract(chain, mined, chain[r], r)

\* A contract configured under the id of a proxy is one.
ConfigSound == \A id \in ConfigIds \ AdminIds : IsSet(id) => chain[config[id]].kind = id /\ chain[config[id]].logic # 0

Stores ==
    /\ network \in Networks /\ key \in BOOLEAN /\ faults \in 0..MaxFaults
    /\ disturbed \in BOOLEAN /\ late \in BOOLEAN
    /\ Ledger
    /\ IsLive(network) => N <= mined
    /\ db \in [Ids -> 0..Len(chain)] /\ RecordedIsMined
    /\ config \in [ConfigIds -> 0..mined] /\ ConfigSound

\* What a call was sent with.
Calls == {"upgrade", "setBNFTGenericImpl", "initialize", "transferOwnership", "createBNFT", "upgradeBNFTWithImpl"}
CallSound(ch, c) ==
    /\ c.fn \in Calls /\ c.after \in 0..Len(ch)
    /\ c.fn = "upgrade" => /\ c.on \in 1..Len(ch) /\ ImplIn(ch, c.to, ch[c.on].kind)
                           /\ ch[c.on].logic \in 1..c.to /\ c.to <= c.after
    /\ c.fn = "setBNFTGenericImpl" => /\ c.on \in 1..Len(ch)
                                      /\ ch[c.on].kind = "BNFTRegistry" /\ ch[c.on].logic # 0
                                      /\ ImplIn(ch, c.to, "BNFT") /\ c.to <= c.after
    /\ c.fn = "initialize" => ImplIn(ch, c.on, "AirdropFlashLoanReceiverV2") /\ c.to \in 1..Len(ch)
    /\ c.fn = "transferOwnership" => c.on \in 1..Len(ch)
    /\ c.fn = "upgradeBNFTWithImpl" => /\ c.on \in 1..Len(ch)
                                       /\ ch[c.on].kind = "BNFTRegistry" /\ ch[c.on].logic # 0 =>
                                             ImplIn(ch, c.with, "BNFT") /\ c.with <= c.after

\* The calls in flight are mined in their turn; an upgrade is alone when it is sent.
Flights == /\ \E S : flying \in Seq(S)
           /\ \A i \in 1..Len(flying) : /\ CallSound(chain, flying[i])
                                        /\ mined <= flying[i].after
                                        /\ flying[i].fn = "upgrade" => i = 1

\* Who waits for a call waits for that of its first step.
Pending == /\ awaiting \in BOOLEAN
           /\ awaiting => /\ Running /\ Step.do \in CallSteps
                          /\ flying # <<>> /\ flying[Len(flying)] = StepCall

Program ==
    /\ status \in Statuses /\ (Running <=> steps # <<>>)
    /\ room \in 0..MaxContracts[network]
    /\ Running => Sends(steps) <= room

\* A task that runs, or is through, is at a place of an outline whose facts hold.
Progress ==
    status \in {"running", "done"} =>
        \E P, Q : (\A f \in P : Holds(f)) /\ Outline(P, steps, Q) /\ Enough(task, Q)

\* Why full:deploy-bnft-tokens reverts, unless something came in between.
TokensRegistry == IF IsSet("BNFTRegistry") THEN config["BNFTRegistry"] ELSE db["BNFTRegistry"]
RevertedWhy ==
    task = "full:deploy-bnft-tokens" /\ status = "reverted" =>
        \/ disturbed \/ late
        \/ ~IsProxy(TokensRegistry, "BNFTRegistry")
        \/ ~chain[TokensRegistry].ours
        \/ \E s \in Symbols : ~Is(NftsAssets(s), "Collection")

Inv == Stores /\ Flights /\ Pending /\ Program /\ Progress /\ RevertedWhy
-----------------------------------------------------------------------------
(* Induction, and sequences that are concatenated.                          *)

\* Every set of naturals that is not empty has a least element.
LEMMA Least ==
    ASSUME NEW T, T \subseteq Nat, T # {}
    PROVE  \E x \in T : \A y \in T : x <= y
  <1> DEFINE Below == {0..n : n \in T}
             R == StrictSubsetOrdering(Nat)
             F == FiniteSubsetsOf(Nat)
  <1>1. IsWellFoundedOn(R, F)
    BY FS_StrictSubsetOrderingWellFounded
  <1>2. Below \subseteq F
    <2> SUFFICES ASSUME NEW n \in T PROVE 0..n \in F
      OBVIOUS
    <2>1. IsFiniteSet(0..n)
      BY FS_Interval
    <2> QED
      BY <2>1 DEF FiniteSubsetsOf
  <1>3. Below # {}
    OBVIOUS
  <1>4. \E b \in Below : \A c \in Below : <<c, b>> \notin R
    <2> HIDE DEF R, F, Below
    <2> QED
      BY <1>1, <1>2, <1>3, WFMin
  <1>5. PICK x \in T : \A y \in T : <<0..y, 0..x>> \notin R
    BY <1>4
  <1>6. ASSUME NEW y \in T, y < x PROVE FALSE
    <2>1. 0..y \subseteq 0..x /\ 0..y # 0..x
      <3>1. x \in 0..x /\ x \notin 0..y
        BY <1>6
      <3> QED
        BY <3>1, <1>6
    <2>2. 0..y \in SUBSET Nat /\ 0..x \in SUBSET Nat
      OBVIOUS
    <2>3. <<0..y, 0..x>> \in R
      BY <2>1, <2>2 DEF StrictSubsetOrdering
    <2> QED
      BY <2>3, <1>5
  <1> QED
    BY <1>6

\* f is the sequence of the first parts of s put together.
Joins(f, s, n) == f = [i \in 1..n |-> IF i = 1 THEN s[i] ELSE f[i - 1] \o s[i]]

LEMMA JoinsExists ==
    ASSUME NEW s, NEW n \in Nat
    PROVE  \E f : Joins(f, s, n)
  <1> SUFFICES ASSUME ~\E f : Joins(f, s, n) PROVE FALSE
    OBVIOUS
  <1> DEFINE T == {m \in Nat : ~\E f : Joins(f, s, m)}
  <1>1. PICK m \in T : \A k \in T : m <= k
    <2>1. T # {} /\ T \subseteq Nat
      OBVIOUS
    <2> HIDE DEF T
    <2> QED
      BY <2>1, Least
  <1>2. m \in Nat /\ m # 0 /\ m - 1 \in Nat
    <2>1. Joins([i \in 1..0 |-> s[i]], s, 0)
      BY DEF Joins
    <2>2. m # 0
      BY <2>1, <1>1
    <2> QED
      BY <2>2, <1>1
  <1>3. PICK g : Joins(g, s, m - 1)
    BY <1>1, <1>2
  <1>4. Joins([i \in 1..m |-> IF i = 1 THEN s[i] ELSE IF i = m THEN g[m - 1] \o s[i] ELSE g[i]], s, m)
    <2> DEFINE f == [i \in 1..m |-> IF i = 1 THEN s[i] ELSE IF i = m THEN g[m - 1] \o s[i] ELSE g[i]]
    <2> HIDE DEF T
    <2>1. \A i \in 1..(m - 1) : f[i] = g[i]
      BY <1>2, <1>3 DEF Joins
    <2>2. \A i \in 1..m : f[i] = IF i = 1 THEN s[i] ELSE f[i - 1] \o s[i]
      <3> SUFFICES ASSUME NEW i \in 1..m, i # 1 PROVE f[i] = f[i - 1] \o s[i]
        OBVIOUS
      <3>1. i \in Nat /\ i - 1 \in 1..(m - 1) /\ f[i - 1] = g[i - 1]
        <4>1. i \in Nat /\ i - 1 \in 1..(m - 1)
          BY <1>2
        <4> QED
          BY <4>1, <2>1
      <3>2. CASE i = m
        BY <3>1, <3>2
      <3>3. CASE i # m
        <4>1. i \in 1..(m - 1)
          BY <1>2, <3>1, <3>3
        <4>2. f[i] = g[i]
          BY <4>1, <2>1
        <4>3. g[i] = g[i - 1] \o s[i]
          <5> HIDE DEF f
          <5> QED
            BY <4>1, <1>3 DEF Joins
        <4> QED
          BY <4>2, <4>3, <3>1
      <3> QED
        BY <3>2, <3>3
    <2> HIDE DEF f
    <2>3. f = [i \in 1..m |-> f[i]]
      BY DEF f
    <2> QED
      BY <2>2, <2>3 DEF Joins, f
  <1> QED
    BY <1>4

LEMMA JoinsUnique ==
    ASSUME NEW s, NEW n \in Nat, NEW f, NEW g, Joins(f, s, n), Joins(g, s, n)
    PROVE  f = g
  <1> SUFFICES ASSUME f # g PROVE FALSE
    OBVIOUS
  <1> DEFINE T == {i \in 1..n : f[i] # g[i]}
  <1>1. T # {} /\ T \subseteq Nat
    <2>1. f = [i \in 1..n |-> f[i]] /\ g = [i \in 1..n |-> g[i]]
      BY DEF Joins
    <2> QED
      BY <2>1
  <1>2. PICK i \in T : \A k \in T : i <= k
    <2> HIDE DEF T
    <2> QED
      BY <1>1, Least
  <1>3. f[i] = (IF i = 1 THEN s[i] ELSE f[i - 1] \o s[i]) /\ g[i] = (IF i = 1 THEN s[i] ELSE g[i - 1] \o s[i])
    BY DEF Joins
  <1>4. i # 1 /\ f[i - 1] = g[i - 1]
    BY <1>2, <1>3
  <1> QED
    BY <1>2, <1>3, <1>4

LEMMA FlattenJoins ==
    ASSUME NEW s, Len(s) \in Nat \ {0}, NEW f, Joins(f, s, Len(s))
    PROVE  FlattenSeq(s) = f[Len(s)]
  <1> DEFINE n == Len(s)
  <1>1. \A g : g = [i \in 1..n |-> IF i = 1 THEN s[i] ELSE g[i - 1] \o s[i]] => g = f
    <2> SUFFICES ASSUME NEW g, g = [i \in 1..n |-> IF i = 1 THEN s[i] ELSE g[i - 1] \o s[i]] PROVE g = f
      OBVIOUS
    <2>1. Joins(g, s, n)
      BY DEF Joins
    <2> QED
      BY <2>1, JoinsUnique
  <1>2. f = [i \in 1..n |-> IF i = 1 THEN s[i] ELSE f[i - 1] \o s[i]]
    BY DEF Joins
  <1> QED
    BY <1>1, <1>2 DEF FlattenSeq
-----------------------------------------------------------------------------
(* Outlines and their parts.                                                *)

LEMMA NeedsMore ==
    ASSUME NEW e, NEW P, NEW R, P \subseteq R, Needs(e, P)
    PROVE  Needs(e, R)
  <1>1. SendNeeds(e, P) => SendNeeds(e, R)
    BY DEF SendNeeds
  <1>2. UpgradeNeeds(P) => UpgradeNeeds(R)
    BY DEF UpgradeNeeds
  <1> QED
    BY <1>1, <1>2 DEF Needs, Found

LEMMA LeadsMore ==
    ASSUME NEW e, NEW P, NEW Q, NEW R, NEW T, Leads(e, P, Q), P \subseteq R, T \subseteq Q
    PROVE  Leads(e, R, T)
  <1>1. Needs(e, R)
    BY NeedsMore DEF Leads
  <1> QED
    BY <1>1 DEF Leads

LEMMA Weaken ==
    ASSUME NEW s, NEW P, NEW Q, NEW R, NEW T, Outline(P, s, Q), P \subseteq R, T \subseteq Q
    PROVE  Outline(R, s, T)
  BY DEF Outline

LEMMA Nothing ==
    ASSUME NEW P, NEW Q, Q \subseteq P
    PROVE  Outline(P, <<>>, Q)
  <1>1. <<>> \in Seq({})
    OBVIOUS
  <1> DEFINE A == [j \in 1..1 |-> P]
  <1>2. A[1] \subseteq P /\ Q \subseteq A[Len(<<>>) + 1] /\ \A j \in 1..Len(<<>>) : FALSE
    OBVIOUS
  <1> QED
    BY <1>1, <1>2 DEF Outline

LEMMA One ==
    ASSUME NEW e, NEW P, NEW Q, Leads(e, P, Q)
    PROVE  Outline(P, <<e>>, Q)
  <1> DEFINE A == [j \in 1..2 |-> IF j = 1 THEN P ELSE Q]
  <1>1. <<e>> \in Seq({e}) /\ Len(<<e>>) = 1 /\ <<e>>[1] = e
    OBVIOUS
  <1>2. A[1] \subseteq P /\ Q \subseteq A[Len(<<e>>) + 1] /\ \A j \in 1..Len(<<e>>) : Leads(<<e>>[j], A[j], A[j + 1])
    <2>1. A[1] = P /\ A[2] = Q /\ A[1 + 1] = Q
      OBVIOUS
    <2> QED
      BY <2>1, <1>1
  <1> QED
    BY <1>1, <1>2 DEF Outline

LEMMA Then ==
    ASSUME NEW s, NEW t, NEW P, NEW M, NEW Q, Outline(P, s, M), Outline(M, t, Q)
    PROVE  Outline(P, s \o t, Q)
  <1>1. PICK S : s \in Seq(S)
    BY DEF Outline
  <1>2. PICK T : t \in Seq(T)
    BY DEF Outline
  <1>3. PICK A : /\ A[1] \subseteq P /\ M \subseteq A[Len(s) + 1]
                 /\ \A j \in 1..Len(s) : Leads(s[j], A[j], A[j + 1])
    BY DEF Outline
  <1>4. PICK B : /\ B[1] \subseteq M /\ Q \subseteq B[Len(t) + 1]
                 /\ \A j \in 1..Len(t) : Leads(t[j], B[j], B[j + 1])
    BY DEF Outline
  <1> DEFINE c == s \o t
             C == [j \in 1..(Len(s) + Len(t) + 1) |-> IF j <= Len(s) THEN A[j] ELSE B[j - Len(s)]]
  <1>5. s \in Seq(S \cup T) /\ t \in Seq(S \cup T) /\ Len(s) \in Nat /\ Len(t) \in Nat
    BY <1>1, <1>2
  <1>6. /\ c \in Seq(S \cup T) /\ Len(c) = Len(s) + Len(t)
        /\ \A j \in 1..Len(s) : c[j] = s[j]
        /\ \A j \in 1..Len(t) : c[Len(s) + j] = t[j]
    BY <1>5
  <1>7. C[1] \subseteq P
    <2>1. CASE Len(s) = 0
      BY <2>1, <1>3, <1>4, <1>5
    <2>2. CASE Len(s) # 0
      BY <2>2, <1>3, <1>5
    <2> QED
      BY <2>1, <2>2
  <1>8. Q \subseteq C[Len(c) + 1]
    <2>1. C[Len(c) + 1] = B[Len(t) + 1]
      BY <1>5, <1>6
    <2> QED
      BY <2>1, <1>4
  <1>9. \A j \in 1..Len(c) : Leads(c[j], C[j], C[j + 1])
    <2> SUFFICES ASSUME NEW j \in 1..Len(c) PROVE Leads(c[j], C[j], C[j + 1])
      OBVIOUS
    <2>1. CASE j < Len(s)
      <3>1. C[j] = A[j] /\ C[j + 1] = A[j + 1] /\ c[j] = s[j] /\ j \in 1..Len(s)
        BY <2>1, <1>5, <1>6
      <3> QED
        BY <3>1, <1>3
    <2>2. CASE j = Len(s)
      <3>1. C[j] = A[j] /\ C[j + 1] = B[1] /\ c[j] = s[j] /\ j \in 1..Len(s)
        BY <2>2, <1>5, <1>6
      <3>2. Leads(s[j], A[j], A[j + 1]) /\ B[1] \subseteq A[j + 1]
        BY <3>1, <2>2, <1>3, <1>4
      <3> QED
        BY <3>1, <3>2, LeadsMore
    <2>3. CASE j > Len(s)
      <3>1. /\ j - Len(s) \in 1..Len(t) /\ C[j] = B[j - Len(s)] /\ C[j + 1] = B[j - Len(s) + 1]
            /\ c[j] = t[j - Len(s)]
        <4>1. j - Len(s) \in 1..Len(t) /\ j = Len(s) + (j - Len(s)) /\ (j + 1) - Len(s) = j - Len(s) + 1
          BY <2>3, <1>5, <1>6
        <4>2. C[j] = B[j - Len(s)] /\ C[j + 1] = B[(j + 1) - Len(s)]
          BY <2>3, <1>5, <1>6
        <4> QED
          BY <4>1, <4>2, <1>6
      <3> QED
        BY <3>1, <1>4
    <2> QED
      BY <2>1, <2>2, <2>3, <1>5
  <1> HIDE DEF c, C
  <1> QED
    BY <1>6, <1>7, <1>8, <1>9 DEF Outline, c

LEMMA Framed ==
    ASSUME NEW s, NEW P, NEW Q, NEW F, Outline(P, s, Q),
           \A j \in 1..Len(s) : \A f \in F : ~Killed(f, s[j])
    PROVE  Outline(P \cup F, s, Q \cup F)
  <1>1. PICK S : s \in Seq(S)
    BY DEF Outline
  <1>2. PICK A : /\ A[1] \subseteq P /\ Q \subseteq A[Len(s) + 1]
                 /\ \A j \in 1..Len(s) : Leads(s[j], A[j], A[j + 1])
    BY DEF Outline
  <1> DEFINE B == [j \in 1..(Len(s) + 1) |-> A[j] \cup F]
  <1>3. Len(s) \in Nat
    BY <1>1
  <1>4. \A j \in 1..Len(s) : Leads(s[j], B[j], B[j + 1])
    <2> SUFFICES ASSUME NEW j \in 1..Len(s) PROVE Leads(s[j], B[j], B[j + 1])
      OBVIOUS
    <2>0. B[j] = A[j] \cup F /\ B[j + 1] = A[j + 1] \cup F
      BY <1>3
    <2>1. Leads(s[j], A[j], A[j + 1])
      BY <1>2
    <2>2. Needs(s[j], A[j] \cup F)
      BY <2>1, NeedsMore DEF Leads
    <2> QED
      BY <2>0, <2>1, <2>2 DEF Leads
  <1>5. B[1] \subseteq P \cup F /\ Q \cup F \subseteq B[Len(s) + 1]
    BY <1>2, <1>3
  <1> HIDE DEF B
  <1> QED
    BY <1>1, <1>4, <1>5 DEF Outline

LEMMA First ==
    ASSUME NEW s, NEW P, NEW Q, Outline(P, s, Q), s # <<>>
    PROVE  /\ \E S : s \in Seq(S)
           /\ \E M : Leads(s[1], P, M) /\ Outline(M, Tail(s), Q)
  <1>1. PICK S : s \in Seq(S)
    BY DEF Outline
  <1>2. PICK A : /\ A[1] \subseteq P /\ Q \subseteq A[Len(s) + 1]
                 /\ \A j \in 1..Len(s) : Leads(s[j], A[j], A[j + 1])
    BY DEF Outline
  <1> DEFINE t == Tail(s)
             B == [j \in 1..Len(s) |-> A[j + 1]]
  <1>3. /\ Len(s) \in Nat \ {0} /\ t \in Seq(S) /\ Len(t) = Len(s) - 1
        /\ \A j \in 1..Len(t) : t[j] = s[j + 1]
    BY <1>1
  <1>4. B[1] = A[2] /\ Q \subseteq B[Len(t) + 1]
    BY <1>2, <1>3
  <1>5. \A j \in 1..Len(t) : Leads(t[j], B[j], B[j + 1])
    <2> SUFFICES ASSUME NEW j \in 1..Len(t) PROVE Leads(t[j], B[j], B[j + 1])
      OBVIOUS
    <2>1. j \in Nat /\ j + 1 \in 1..Len(s) /\ t[j] = s[j + 1] /\ B[j] = A[j + 1] /\ B[j + 1] = A[(j + 1) + 1]
      BY <1>3
    <2> QED
      BY <2>1, <1>2
  <1>6. Outline(A[2], t, Q)
    <2> HIDE DEF B, t
    <2> QED
      BY <1>3, <1>4, <1>5 DEF Outline
  <1>7. Leads(s[1], A[1], A[2])
    <2>1. 1 \in 1..Len(s) /\ 1 + 1 = 2
      BY <1>3
    <2> QED
      BY <2>1, <1>2
  <1>8. Leads(s[1], P, A[2])
    BY <1>2, <1>7, LeadsMore
  <1> QED
    BY <1>1, <1>6, <1>8

\* The parts of a script that a loop puts together: I is what holds after each.
LEMMA Loop ==
    ASSUME NEW s, NEW n \in Nat, DOMAIN s = 1..n, s = [i \in 1..n |-> s[i]], NEW I,
           \A i \in 1..n : Outline(I[i - 1], s[i], I[i])
    PROVE  Outline(I[0], FlattenSeq(s), I[n])
  <1>1. Len(s) = n
    OBVIOUS
  <1>2. CASE n = 0
    <2>1. FlattenSeq(s) = s /\ s = <<>>
      BY <1>1, <1>2 DEF FlattenSeq
    <2> QED
      BY <2>1, <1>2, Nothing
  <1>3. CASE n # 0
    <2>1. PICK f : Joins(f, s, n)
      BY JoinsExists
    <2>2. FlattenSeq(s) = f[n]
      BY <1>1, <1>3, <2>1, FlattenJoins
    <2> DEFINE T == {i \in 1..n : ~Outline(I[0], f[i], I[i])}
    <2>3. ASSUME NEW i \in 1..n, i = 1 \/ Outline(I[0], f[i - 1], I[i - 1])
          PROVE  Outline(I[0], f[i], I[i])
      <3>1. Outline(I[i - 1], s[i], I[i])
        OBVIOUS
      <3>2. CASE i = 1
        <4>1. f[i] = s[i] /\ i - 1 = 0
          BY <3>2, <2>1 DEF Joins
        <4> QED
          BY <3>1, <4>1
      <3>3. CASE i # 1
        <4>1. f[i] = f[i - 1] \o s[i]
          BY <3>3, <2>1 DEF Joins
        <4> QED
          BY <3>1, <3>3, <2>3, <4>1, Then
      <3> QED
        BY <3>2, <3>3
    <2>4. T = {}
      <3> SUFFICES ASSUME T # {} PROVE FALSE
        OBVIOUS
      <3>1. PICK i \in T : \A k \in T : i <= k
        <4>1. T \subseteq Nat
          OBVIOUS
        <4> HIDE DEF T
        <4> QED
          BY <4>1, Least
      <3>2. i \in 1..n /\ (i = 1 \/ (i - 1 \in 1..n /\ i - 1 \notin T))
        BY <3>1
      <3>3. i = 1 \/ Outline(I[0], f[i - 1], I[i - 1])
        BY <3>2
      <3> QED
        BY <3>1, <3>2, <3>3, <2>3
    <2> QED
      BY <1>3, <2>2, <2>4
  <1> QED
    BY <1>2, <1>3
-----------------------------------------------------------------------------
(* Outlines of single steps.  F is what is known already and stays.         *)

Untouched(F, vs, ids) ==
    \A f \in F : \/ f[1] \in {"set", "unset", "other"}
                 \/ /\ \A v \in vs : ~Mentions(f, v)
                    /\ ~(f[1] = "rec" /\ f[2] \in ids)

\* What the facts are told apart by.
LEMMA FactParts ==
    /\ \A v : Known(v)[1] = "known" /\ Known(v)[2] = v /\ Known(v)[3] = "none"
    /\ \A v : Mined(v)[1] = "mined" /\ Mined(v)[2] = v /\ Mined(v)[3] = "none"
    /\ \A v, k : Impl(v, k)[1] = "impl" /\ Impl(v, k)[2] = v /\ Impl(v, k)[3] = k
    /\ \A v, k : Proxy(v, k)[1] = "proxy" /\ Proxy(v, k)[2] = v /\ Proxy(v, k)[3] = k
    /\ Newest[1] = "newest" /\ Newest[2] = "impl" /\ Newest[3] = "none"
    /\ \A id, v : Rec(id, v)[1] = "rec" /\ Rec(id, v)[2] = id /\ Rec(id, v)[3] = v
    /\ \A id, v : Conf(id, v)[1] = "conf" /\ Conf(id, v)[2] = id /\ Conf(id, v)[3] = v
    /\ \A v, w : Logic(v, w)[1] = "logic" /\ Logic(v, w)[2] = v /\ Logic(v, w)[3] = w
    /\ \A v, w : Admin(v, w)[1] = "admin" /\ Admin(v, w)[2] = v /\ Admin(v, w)[3] = w
    /\ \A v, w : ArgOf(v, w)[1] = "arg" /\ ArgOf(v, w)[2] = v /\ ArgOf(v, w)[3] = w
    /\ Alone[1] = "alone" /\ Alone[2] = "none" /\ Alone[3] = "none"
    /\ \A v : Fresh(v)[1] = "fresh" /\ Fresh(v)[2] = v /\ Fresh(v)[3] = "none"
    /\ Read[1] = "read" /\ Read[2] = "registry" /\ Read[3] = "generic"
    /\ \A s : Seen(s)[1] = "seen" /\ Seen(s)[2] = s /\ Seen(s)[3] = "registry"
    /\ \A s : Served(s)[1] = "served" /\ Served(s)[2] = s /\ Served(s)[3] = "registry"
    /\ \A id : Configured(id)[1] = "set" /\ Configured(id)[2] = id /\ Configured(id)[3] = "none"
    /\ \A id : Unset(id)[1] = "unset" /\ Unset(id)[2] = id /\ Unset(id)[3] = "none"
    /\ Other[1] = "other"
  BY DEF Fact, Known, Mined, Impl, Proxy, Newest, Rec, Conf, Logic, Admin, ArgOf, Alone, Fresh, Read, Seen, Served,
         Configured, Unset, Other

LEMMA NoRec ==
    ASSUME NEW var, NEW kind, NEW f \in {Known(var), Fresh(var), Impl(var, kind), Newest}
    PROVE  f[1] # "rec"
  BY FactParts

LEMMA LoadOut ==
    ASSUME NEW F, NEW id \in Ids, NEW var, Untouched(F, {var}, {})
    PROVE  Outline(F, Load(id, var), F \cup {Known(var), Rec(id, var)})
  <1> DEFINE e == [do |-> "load", id |-> id, var |-> var]
  <1>1. Binds(e) = {var} /\ Writes(e) = {} /\ Upsets(e) = {}
    BY DEF Binds, Writes, Upsets
  <1>2. Gives(e) = {Known(var), Rec(id, var)} /\ Needs(e, F)
    BY DEF Gives, Needs
  <1>3. \A f \in F : ~Killed(f, e)
    BY <1>1 DEF Killed, Untouched
  <1> HIDE DEF e
  <1>4. Leads(e, F, F \cup {Known(var), Rec(id, var)})
    BY <1>2, <1>3 DEF Leads
  <1> QED
    BY <1>4, One DEF Load, e

LEMMA ConfigOut ==
    ASSUME NEW F, NEW id \in ConfigIds, NEW var, Untouched(F, {var}, {}), Configured(id) \in F
    PROVE  Outline(F, Config(id, var), F \cup {Known(var), Mined(var), Conf(id, var)}
                                         \cup (IF id \in AdminIds THEN {} ELSE {Proxy(var, id)}))
  <1> DEFINE e == [do |-> "config", id |-> id, var |-> var]
  <1>1. Binds(e) = {var} /\ Writes(e) = {} /\ Upsets(e) = {}
    BY DEF Binds, Writes, Upsets
  <1>2. /\ Gives(e) = {Known(var), Mined(var), Conf(id, var)}
                        \cup (IF id \in AdminIds THEN {} ELSE {Proxy(var, id)})
        /\ Needs(e, F)
    BY DEF Gives, Needs
  <1>3. \A f \in F : ~Killed(f, e)
    BY <1>1 DEF Killed, Untouched
  <1> HIDE DEF e
  <1>4. Leads(e, F, F \cup Gives(e))
    BY <1>2, <1>3 DEF Leads
  <1>5. F \cup Gives(e) = F \cup {Known(var), Mined(var), Conf(id, var)}
                            \cup (IF id \in AdminIds THEN {} ELSE {Proxy(var, id)})
    BY <1>2
  <1> QED
    BY <1>4, <1>5, One DEF Config, e

LEMMA InsertOut ==
    ASSUME NEW F, NEW id, NEW var, Untouched(F, {}, {id}), Known(var) \in F,
           id \in EarlyIds \/ Mined(var) \in F
    PROVE  Outline(F, Insert(id, var), F \cup {Rec(id, var)})
  <1> DEFINE e == [do |-> "insert", id |-> id, var |-> var]
  <1>1. Binds(e) = {} /\ Writes(e) = {id} /\ Upsets(e) = {}
    BY DEF Binds, Writes, Upsets
  <1>2. Gives(e) = {Rec(id, var)} /\ Needs(e, F)
    BY DEF Gives, Needs
  <1>3. \A f \in F : ~Killed(f, e)
    BY <1>1 DEF Killed, Untouched
  <1> HIDE DEF e
  <1>4. Leads(e, F, F \cup {Rec(id, var)})
    BY <1>2, <1>3 DEF Leads
  <1> QED
    BY <1>4, One DEF Insert, e

LEMMA SaveOut ==
    ASSUME NEW F, NEW id, NEW var, Untouched(F, {}, {id}), {Known(var), Fresh(var)} \subseteq F
    PROVE  Outline(F, Save(id, var), F \cup {Rec(id, var), Mined(var), Alone})
  <1> DEFINE e == [do |-> "save", id |-> id, var |-> var]
  <1>1. Binds(e) = {} /\ Writes(e) = {id} /\ Upsets(e) = {}
    BY DEF Binds, Writes, Upsets
  <1>2. Gives(e) = {Rec(id, var), Mined(var), Alone} /\ Needs(e, F)
    BY DEF Gives, Needs
  <1>3. \A f \in F : ~Killed(f, e)
    BY <1>1 DEF Killed, Untouched
  <1> HIDE DEF e
  <1>4. Leads(e, F, F \cup {Rec(id, var), Mined(var), Alone})
    BY <1>2, <1>3 DEF Leads
  <1> QED
    BY <1>4, One DEF Save, e

LEMMA VerifyOut ==
    ASSUME NEW F, NEW var, NEW times, NEW proxy
    PROVE  Outline(F, Attempt(var, times, proxy), F)
  <1> DEFINE e == [do |-> "verify", var |-> var, times |-> times, proxy |-> proxy]
  <1>1. Binds(e) = {} /\ Writes(e) = {} /\ Upsets(e) = {}
    BY DEF Binds, Writes, Upsets
  <1>2. Needs(e, F)
    BY DEF Needs
  <1>3. \A f \in F : ~Killed(f, e)
    BY <1>1 DEF Killed
  <1> HIDE DEF e
  <1>4. Leads(e, F, F)
    BY <1>2, <1>3 DEF Leads
  <1> QED
    BY <1>4, One DEF Attempt, e

LEMMA ThrowOut ==
    ASSUME NEW F, NEW Q, NEW how \in {"throw", "exit"}
    PROVE  Outline(F, Do(how), Q)
  <1> DEFINE e == [do |-> how]
  <1>1. Leads(e, F, Q)
    BY DEF Leads, Needs
  <1> HIDE DEF e
  <1> QED
    BY <1>1, One DEF Do, e

LEMMA SaveAndVerifyOut ==
    ASSUME NEW F, NEW id, NEW var, NEW verify \in BOOLEAN, Untouched(F, {}, {id}),
           {Known(var), Fresh(var)} \subseteq F
    PROVE  Outline(F, withSaveAndVerify(id, var, verify), F \cup {Rec(id, var), Mined(var), Alone})
  <1> DEFINE G == F \cup {Rec(id, var), Mined(var), Alone}
  <1>1. Outline(F, Save(id, var), G)
    BY SaveOut
  <1>2. Outline(G, verifyContract(var), G) /\ Outline(G, <<>>, G)
    BY VerifyOut, Nothing DEF verifyContract
  <1> HIDE DEF G
  <1> QED
    BY <1>1, <1>2, Then DEF withSaveAndVerify, G

\* An implementation, or any contract that is no proxy.
LEMMA PlainOut ==
    ASSUME NEW F, NEW kind, NEW args \in {Plain, WithRegistry}, NEW var, Untouched(F, {var}, {}),
           Other \in F, args = WithRegistry => Known("registry") \in F, var \notin {"none", "registry"}
    PROVE  Outline(F, Send(kind, args, var),
                   F \cup {Known(var), Fresh(var), Impl(var, kind)} \cup (IF var = "impl" THEN {Newest} ELSE {}))
  <1> DEFINE e == [do |-> "send", kind |-> kind, args |-> args, var |-> var]
             G == {Known(var), Fresh(var), Impl(var, kind)} \cup (IF var = "impl" THEN {Newest} ELSE {})
  <1>1. Binds(e) = {var} /\ Writes(e) = {} /\ Upsets(e) = {}
    BY DEF Binds, Writes, Upsets
  <1>2. args.logic = "none" /\ args.admin = "none" /\ args.arg \in {"none", "registry"} /\ (args.arg = "registry" => args = WithRegistry)
    <2>1. Plain.logic = "none" /\ Plain.admin = "none" /\ Plain.arg = "none"
      BY DEF Plain
    <2>2. WithRegistry.logic = "none" /\ WithRegistry.admin = "none" /\ WithRegistry.arg = "registry"
      BY DEF Plain, WithRegistry
    <2>3. CASE args = Plain
      BY <2>1, <2>3
    <2>4. CASE args = WithRegistry
      BY <2>2, <2>4
    <2> QED
      BY <2>3, <2>4
  <1>3. G \subseteq Gives(e)
    BY <1>2 DEF Gives, SendGives
  <1>4. Needs(e, F)
    BY <1>2 DEF Needs, SendNeeds
  <1>5. \A f \in F : ~Killed(f, e)
    BY <1>1 DEF Killed, Untouched
  <1> HIDE DEF e
  <1>6. Leads(e, F, F \cup G)
    BY <1>3, <1>4, <1>5 DEF Leads
  <1> QED
    BY <1>6, One DEF Send, e

LEMMA DeployOut ==
    ASSUME NEW F, NEW kind, NEW args \in {Plain, WithRegistry}, NEW id, NEW var, NEW verify \in BOOLEAN,
           Untouched(F, {var}, {id}),
           Other \in F, args = WithRegistry => Known("registry") \in F, var \notin {"none", "registry"}
    PROVE  Outline(F, DeployContract(kind, args, id, var, verify),
                   F \cup {Known(var), Fresh(var), Impl(var, kind), Rec(id, var), Mined(var), Alone}
                     \cup (IF var = "impl" THEN {Newest} ELSE {}))
  <1> DEFINE G == F \cup {Known(var), Fresh(var), Impl(var, kind)} \cup (IF var = "impl" THEN {Newest} ELSE {})
             H == F \cup {Known(var), Fresh(var), Impl(var, kind), Rec(id, var), Mined(var), Alone}
                     \cup (IF var = "impl" THEN {Newest} ELSE {})
  <1>1. Outline(F, Send(kind, args, var), G)
    <2>1. Untouched(F, {var}, {})
      BY DEF Untouched
    <2> QED
      BY <2>1, PlainOut
  <1>2. Outline(G, withSaveAndVerify(id, var, verify), G \cup {Rec(id, var), Mined(var), Alone})
    <2>1. Untouched(F, {}, {id})
      BY DEF Untouched
    <2>2. Untouched({Known(var), Fresh(var), Impl(var, kind)} \cup (IF var = "impl" THEN {Newest} ELSE {}), {}, {id})
      BY NoRec DEF Untouched
    <2>3. Untouched(G, {}, {id}) /\ {Known(var), Fresh(var)} \subseteq G
      BY <2>1, <2>2 DEF Untouched
    <2> HIDE DEF G
    <2> QED
      BY <2>3, SaveAndVerifyOut
  <1>3. G \cup {Rec(id, var), Mined(var), Alone} = H
    OBVIOUS
  <1> HIDE DEF G, H
  <1>4. Outline(F, DeployContract(kind, args, id, var, verify), H)
    BY <1>1, <1>2, <1>3, Then DEF DeployContract
  <1> QED
    BY <1>4 DEF H
-----------------------------------------------------------------------------
(* Implementations and their proxies.                                       *)

ImplFacts(kind) ==
    {Known("impl"), Fresh("impl"), Impl("impl", kind), Newest, Mined("impl"), Rec(ImplId(kind), "impl"), Alone}

LEMMA UnderProxyIdOut ==
    ASSUME NEW F, NEW kind \in {"BNFTRegistry", "BoundPunkGateway", "AirdropDistribution"},
           NEW verify \in BOOLEAN, Untouched(F, {"impl"}, {ImplId(kind), kind}), Other \in F
    PROVE  Outline(F, DeployUnderProxyId(kind, verify), F \cup ImplFacts(kind))
  <1> DEFINE G == F \cup {Known("impl"), Fresh("impl"), Impl("impl", kind), Newest}
             H == G \cup {Rec(ImplId(kind), "impl")}
  <1>1. Outline(F, Send(kind, Plain, "impl"), G)
    <2>1. Untouched(F, {"impl"}, {})
      BY DEF Untouched
    <2>2. Plain # WithRegistry
      BY DEF Plain, WithRegistry
    <2>3. Outline(F, Send(kind, Plain, "impl"),
                  F \cup {Known("impl"), Fresh("impl"), Impl("impl", kind)} \cup (IF "impl" = "impl" THEN {Newest} ELSE {}))
      BY <2>1, <2>2, PlainOut
    <2> QED
      BY <2>3, Weaken
  <1>2. ImplId(kind) \in EarlyIds /\ ImplId(kind) # kind
    BY DEF ImplId, EarlyIds
  <1>3. Outline(G, Insert(ImplId(kind), "impl"), H)
    <2>1. Untouched(G, {}, {ImplId(kind)})
      BY FactParts DEF Untouched
    <2> QED
      BY <2>1, <1>2, InsertOut
  <1>4. Outline(H, withSaveAndVerify(kind, "impl", verify), H \cup {Rec(kind, "impl"), Mined("impl"), Alone})
    <2>1. Untouched(H, {}, {kind})
      BY <1>2, FactParts DEF Untouched
    <2> HIDE DEF H
    <2>2. {Known("impl"), Fresh("impl")} \subseteq H
      BY DEF H
    <2> QED
      BY <2>1, <2>2, SaveAndVerifyOut
  <1>5. Outline(H, withSaveAndVerify(kind, "impl", verify), F \cup ImplFacts(kind))
    <2>1. F \cup ImplFacts(kind) \subseteq H \cup {Rec(kind, "impl"), Mined("impl"), Alone}
      BY DEF ImplFacts
    <2> QED
      BY <2>1, <1>4, Weaken
  <1> HIDE DEF G, H
  <1> QED
    BY <1>1, <1>3, <1>5, Then DEF DeployUnderProxyId

LEMMA FlashclaimImplOut ==
    ASSUME NEW F, NEW verify \in BOOLEAN, Other \in F,
           Untouched(F, {"impl"}, {"UserFlashclaimRegistryV3Impl", "UserFlashclaimRegistryV3"})
    PROVE  Outline(F, deployUserFlashclaimRegistryV3(verify), F \cup ImplFacts("UserFlashclaimRegistryV3"))
  <1> DEFINE kind == "UserFlashclaimRegistryV3"
             G == F \cup ImplFacts(kind)
  <1>1. ImplId(kind) = "UserFlashclaimRegistryV3Impl"
    BY DEF ImplId
  <1>2. Outline(F, DeployContract(kind, Plain, "UserFlashclaimRegistryV3Impl", "impl", verify), G)
    <2>1. Untouched(F, {"impl"}, {"UserFlashclaimRegistryV3Impl"})
      BY DEF Untouched
    <2>2. Plain # WithRegistry
      BY DEF Plain, WithRegistry
    <2>3. Outline(F, DeployContract(kind, Plain, "UserFlashclaimRegistryV3Impl", "impl", verify),
                  F \cup {Known("impl"), Fresh("impl"), Impl("impl", kind), Rec("UserFlashclaimRegistryV3Impl", "impl"),
                          Mined("impl"), Alone}
                    \cup (IF "impl" = "impl" THEN {Newest} ELSE {}))
      BY <2>1, <2>2, DeployOut
    <2> QED
      BY <2>3, <1>1, Weaken DEF ImplFacts
  <1>3. Outline(G, withSaveAndVerify(kind, "impl", verify), G \cup {Rec(kind, "impl"), Mined("impl"), Alone})
    <2>1. Untouched(G, {}, {kind})
      BY <1>1, FactParts DEF Untouched, ImplFacts
    <2> HIDE DEF G
    <2>2. {Known("impl"), Fresh("impl")} \subseteq G
      BY DEF G, ImplFacts
    <2> QED
      BY <2>1, <2>2, SaveAndVerifyOut
  <1>4. Outline(G, withSaveAndVerify(kind, "impl", verify), G)
    BY <1>3, Weaken
  <1> HIDE DEF G
  <1>5. Outline(F, deployUserFlashclaimRegistryV3(verify), G)
    BY <1>2, <1>4, Then DEF deployUserFlashclaimRegistryV3
  <1> QED
    BY <1>5 DEF G

LEMMA ProxyOut ==
    ASSUME NEW F, NEW id, NEW arg \in {"generic", "registry"}, NEW verify \in BOOLEAN,
           Untouched(F, {"proxy"}, {id}), 
           {Other, Alone, Known("impl"), Known("admin"), Known(arg)} \subseteq F,
           id = "BNFTRegistry" => Impl(arg, "BNFT") \in F
    PROVE  Outline(F, deployBNFTUpgradeableProxy(id, arg, verify),
                   F \cup ServedFacts(id) \cup {ArgOf("proxy", arg)})
  <1> DEFINE args == [logic |-> "impl", admin |-> "admin", arg |-> arg]
             e == [do |-> "send", kind |-> id, args |-> args, var |-> "proxy"]
             G == {Known("proxy"), Fresh("proxy"), Proxy("proxy", id), Logic("proxy", "impl"), Admin("proxy", "admin"),
                   ArgOf("proxy", arg)}
             H == F \cup G
  <1>1. Binds(e) = {"proxy"} /\ Writes(e) = {} /\ Upsets(e) = {}
    BY DEF Binds, Writes, Upsets
  <1>2. e.do = "send" /\ e.args.logic = "impl" /\ e.args.admin = "admin" /\ e.args.arg = arg /\ e.kind = id
        /\ e.var = "proxy"
    OBVIOUS
  <1>3. G \subseteq Gives(e)
    <2>1. Gives(e) = SendGives(e)
      BY <1>2 DEF Gives
    <2> HIDE DEF e
    <2> QED
      BY <2>1, <1>2 DEF SendGives
  <1>4. Needs(e, F)
    <2> HIDE DEF e
    <2>1. SendNeeds(e, F)
      BY <1>2 DEF SendNeeds
    <2> QED
      BY <2>1, <1>2 DEF Needs
  <1>5. \A f \in F : ~Killed(f, e)
    BY <1>1 DEF Killed, Untouched
  <1> HIDE DEF e
  <1>6. Leads(e, F, H)
    BY <1>3, <1>4, <1>5 DEF Leads
  <1>7. Outline(F, Send(id, args, "proxy"), H)
    BY <1>6, One DEF Send, e
  <1>8. Outline(H, withSaveAndVerify(id, "proxy", verify), H \cup {Rec(id, "proxy"), Mined("proxy"), Alone})
    <2>1. Untouched(H, {}, {id})
      BY FactParts DEF Untouched
    <2> HIDE DEF H
    <2>2. {Known("proxy"), Fresh("proxy")} \subseteq H
      BY DEF H
    <2> QED
      BY <2>1, <2>2, SaveAndVerifyOut
  <1>9. F \cup ServedFacts(id) \cup {ArgOf("proxy", arg)} \subseteq H \cup {Rec(id, "proxy"), Mined("proxy"), Alone}
    BY DEF ServedFacts
  <1> HIDE DEF H, args
  <1>10. Outline(H, withSaveAndVerify(id, "proxy", verify), F \cup ServedFacts(id) \cup {ArgOf("proxy", arg)})
    BY <1>8, <1>9, Weaken
  <1> QED
    BY <1>7, <1>10, Then DEF deployBNFTUpgradeableProxy, DeployContract, args

LEMMA UpgradeOut ==
    ASSUME NEW F, NEW id \in ConfigIds \ AdminIds, Untouched(F, {"proxy"}, {id}), Configured(id) \in F,
           \A f \in F : f[1] # "logic",
           {Other, Alone, Known("admin"), Newest, Impl("impl", id)} \subseteq F
    PROVE  Outline(F, UpgradeConfigured(id), F \cup ServedFacts(id))
  <1> DEFINE G == F \cup {Known("proxy"), Mined("proxy"), Proxy("proxy", id)}
             H == G \cup {Rec(id, "proxy")}
             e == [do |-> "upgrade"]
  <1>1. Outline(F, Config(id, "proxy"), G)
    <2>1. Untouched(F, {"proxy"}, {})
      BY DEF Untouched
    <2>2. Outline(F, Config(id, "proxy"), F \cup {Known("proxy"), Mined("proxy"), Conf(id, "proxy")}
                                              \cup (IF id \in AdminIds THEN {} ELSE {Proxy("proxy", id)}))
      BY <2>1, ConfigOut
    <2>3. G \subseteq F \cup {Known("proxy"), Mined("proxy"), Conf(id, "proxy")}
                        \cup (IF id \in AdminIds THEN {} ELSE {Proxy("proxy", id)})
      OBVIOUS
    <2> QED
      BY <2>2, <2>3, Weaken
  <1>2. Outline(G, Insert(id, "proxy"), H)
    <2>1. Untouched(G, {}, {id})
      BY FactParts DEF Untouched
    <2> QED
      BY <2>1, InsertOut
  <1>3. Binds(e) = {} /\ Writes(e) = {} /\ Upsets(e) = {"logic"} /\ Gives(e) = {Logic("proxy", "impl"), Admin("proxy", "admin")}
    BY DEF Binds, Writes, Upsets, Gives
  <1>4. Needs(e, H)
    BY DEF Needs, UpgradeNeeds
  <1>5. \A f \in H : ~Killed(f, e)
    <2>1. \A f \in H : f[1] # "logic"
      BY FactParts
    <2> QED
      BY <2>1, <1>3 DEF Killed
  <1>6. F \cup ServedFacts(id) = H \cup Gives(e)
    BY <1>3 DEF ServedFacts
  <1> HIDE DEF H, G, e
  <1>7. Leads(e, H, F \cup ServedFacts(id))
    BY <1>4, <1>5, <1>6 DEF Leads
  <1>8. Outline(H, Do("upgrade"), F \cup ServedFacts(id))
    BY <1>7, One DEF Do, e
  <1> QED
    BY <1>1, <1>2, <1>8, Then DEF UpgradeConfigured

LEMMA ServeOut ==
    ASSUME NEW F, NEW id \in ConfigIds \ AdminIds, NEW arg \in {"generic", "registry"}, NEW verify \in BOOLEAN,
           Untouched(F, {"proxy"}, {id}), IsSet(id) => Configured(id) \in F,
           \A f \in F : f[1] # "logic",
           {Other, Alone, Known("impl"), Known("admin"), Known(arg), Newest, Impl("impl", id)} \subseteq F,
           id = "BNFTRegistry" => Impl(arg, "BNFT") \in F
    PROVE  Outline(F, ProxyOrUpgrade(id, arg, verify),
                   F \cup ServedFacts(id) \cup (IF IsSet(id) THEN {} ELSE {ArgOf("proxy", arg)}))
  <1>1. CASE IsSet(id)
    BY <1>1, UpgradeOut DEF ProxyOrUpgrade
  <1>2. CASE ~IsSet(id)
    BY <1>2, ProxyOut DEF ProxyOrUpgrade
  <1> QED
    BY <1>1, <1>2
-----------------------------------------------------------------------------
(* Tasks that serve an id through a proxy.  L is what the configuration and *)
(* the name of the task say, which lasts.                                   *)

Lasts(L) == /\ \A f \in L : f[1] \in {"set", "unset", "other"}
            /\ \A id \in ConfigIds : (IF IsSet(id) THEN Configured(id) ELSE Unset(id)) \in L

LEMMA GatewayOut ==
    ASSUME NEW L, Lasts(L), Other \in L, NEW verify \in BOOLEAN
    PROVE  Outline(L, full_deploy_boundpunk_gateway(verify), L \cup DoneFacts("BoundPunkGateway", "ProxyAdmin"))
  <1> DEFINE id == "BoundPunkGateway"
             A == L \cup {Known("admin"), Rec("ProxyAdmin", "admin")}
             B == A \cup ImplFacts(id)
             C == B \cup {Known("registry")}
             Q == L \cup DoneFacts(id, "ProxyAdmin")
  <1>0. ImplId(id) = "BoundPunkGatewayImpl" /\ id \in ConfigIds \ AdminIds
        /\ {"ProxyAdmin", "BNFTRegistry"} \subseteq ConfigIds /\ "ProxyAdmin" \in Ids
    BY DEF ImplId, ConfigIds, AdminIds, Ids, eContractid
  <1>1. CASE ~IsLive(network) \/ ~IsSet("BNFTRegistry")
    BY <1>1, ThrowOut DEF full_deploy_boundpunk_gateway, Throw
  <1>2. CASE IsLive(network) /\ IsSet("BNFTRegistry")
    <2>1. Outline(L, Load("ProxyAdmin", "admin"), A)
      <3>1. Untouched(L, {"admin"}, {})
        BY DEF Untouched, Lasts
      <3> QED
        BY <3>1, <1>0, LoadOut
    <2>2. Outline(A, deployBoundPunkGateway(verify), B)
      <3>1. Untouched(A, {"impl"}, {ImplId(id), id})
        BY <1>0, FactParts DEF Untouched, Lasts, Mentions
      <3> HIDE DEF A
      <3>2. Other \in A
        BY DEF A
      <3> QED
        BY <3>1, <3>2, UnderProxyIdOut DEF deployBoundPunkGateway
    <2>3. Outline(B, Config("BNFTRegistry", "registry"), C)
      <3>1. Untouched(B, {"registry"}, {})
        BY <1>0, FactParts DEF Untouched, Lasts, Mentions, ImplFacts
      <3>2. Configured("BNFTRegistry") \in B
        BY <1>0, <1>2 DEF Lasts
      <3> HIDE DEF B
      <3>3. Outline(B, Config("BNFTRegistry", "registry"),
                    B \cup {Known("registry"), Mined("registry"), Conf("BNFTRegistry", "registry")}
                      \cup (IF "BNFTRegistry" \in AdminIds THEN {} ELSE {Proxy("registry", "BNFTRegistry")}))
        BY <3>1, <3>2, <1>0, ConfigOut
      <3> QED
        BY <3>3, Weaken
    <2>4. Outline(C, ProxyOrUpgrade(id, "registry", verify), Q)
      <3>1. Untouched(C, {"proxy"}, {id}) /\ \A f \in C : f[1] # "logic"
        BY <1>0, FactParts DEF Untouched, Lasts, Mentions, ImplFacts
      <3>2. IsSet(id) => Configured(id) \in C
        BY <1>0 DEF Lasts
      <3>3. {Other, Alone, Known("impl"), Known("admin"), Known("registry"), Newest, Impl("impl", id)} \subseteq C
        BY DEF ImplFacts
      <3>4. Q \subseteq C \cup ServedFacts(id)
        BY <1>0 DEF ImplFacts, DoneFacts
      <3> HIDE DEF C, Q
      <3>5. Outline(C, ProxyOrUpgrade(id, "registry", verify),
                    C \cup ServedFacts(id) \cup (IF IsSet(id) THEN {} ELSE {ArgOf("proxy", "registry")}))
        BY <3>1, <3>2, <3>3, <1>0, ServeOut
      <3> QED
        BY <3>4, <3>5, Weaken
    <2> HIDE DEF A, B, C, Q
    <2>5. Outline(L, Load("ProxyAdmin", "admin") \o deployBoundPunkGateway(verify) \o Config("BNFTRegistry", "registry"), C)
      BY <2>1, <2>2, <2>3, Then
    <2>6. Outline(L, full_deploy_boundpunk_gateway(verify), Q)
      BY <2>4, <2>5, <1>2, Then DEF full_deploy_boundpunk_gateway
    <2> QED
      BY <2>6 DEF Q
  <1> QED
    BY <1>1, <1>2

LEMMA DistributionOut ==
    ASSUME NEW L, Lasts(L), Other \in L, NEW verify \in BOOLEAN
    PROVE  Outline(L, full_deploy_airdrop_distribution(verify),
                   L \cup DoneFacts("AirdropDistribution", "ProxyAdminWithoutTimelock"))
  <1> DEFINE id == "AirdropDistribution"
             adminId == "ProxyAdminWithoutTimelock"
             A == L \cup {Known("admin"), Rec(adminId, "admin")}
             B == A \cup {Known("registry")}
             C == B \cup ImplFacts(id)
             Q == L \cup DoneFacts(id, adminId)
  <1>0. ImplId(id) = "AirdropDistributionImpl" /\ id \in ConfigIds \ AdminIds
        /\ adminId \in Ids /\ "BNFTRegistry" \in Ids
    BY DEF ImplId, ConfigIds, AdminIds, Ids, eContractid
  <1>1. Outline(L, Load(adminId, "admin"), A)
    <2>1. Untouched(L, {"admin"}, {})
      BY DEF Untouched, Lasts
    <2> QED
      BY <2>1, <1>0, LoadOut
  <1>2. Outline(A, Load("BNFTRegistry", "registry"), B)
    <2>1. Untouched(A, {"registry"}, {})
      BY FactParts DEF Untouched, Lasts, Mentions
    <2> HIDE DEF A
    <2>2. Outline(A, Load("BNFTRegistry", "registry"), A \cup {Known("registry"), Rec("BNFTRegistry", "registry")})
      BY <2>1, <1>0, LoadOut
    <2> QED
      BY <2>2, Weaken
  <1>3. Outline(B, deployAirdropDistribution(verify), C)
    <2>1. Untouched(B, {"impl"}, {ImplId(id), id})
      BY <1>0, FactParts DEF Untouched, Lasts, Mentions
    <2> HIDE DEF B
    <2>2. Other \in B
      BY DEF B, A
    <2> QED
      BY <2>1, <2>2, UnderProxyIdOut DEF deployAirdropDistribution
  <1>4. Outline(C, ProxyOrUpgrade(id, "registry", verify), Q)
    <2>1. Untouched(C, {"proxy"}, {id}) /\ \A f \in C : f[1] # "logic"
      BY <1>0, FactParts DEF Untouched, Lasts, Mentions, ImplFacts
    <2>2. IsSet(id) => Configured(id) \in C
      BY <1>0 DEF Lasts
    <2>3. {Other, Alone, Known("impl"), Known("admin"), Known("registry"), Newest, Impl("impl", id)} \subseteq C
      BY DEF ImplFacts
    <2>4. Q \subseteq C \cup ServedFacts(id)
      BY <1>0 DEF ImplFacts, DoneFacts
    <2> HIDE DEF C, Q
    <2>5. Outline(C, ProxyOrUpgrade(id, "registry", verify),
                  C \cup ServedFacts(id) \cup (IF IsSet(id) THEN {} ELSE {ArgOf("proxy", "registry")}))
      BY <2>1, <2>2, <2>3, <1>0, ServeOut
    <2> QED
      BY <2>4, <2>5, Weaken
  <1> HIDE DEF A, B, C, Q
  <1>5. Outline(L, Load(adminId, "admin") \o Load("BNFTRegistry", "registry") \o deployAirdropDistribution(verify), C)
    BY <1>1, <1>2, <1>3, Then
  <1>6. Outline(L, full_deploy_airdrop_distribution(verify), Q)
    BY <1>4, <1>5, Then DEF full_deploy_airdrop_distribution
  <1> QED
    BY <1>6 DEF Q

LEMMA FlashclaimV3Out ==
    ASSUME NEW L, Lasts(L), Other \in L, NEW verify \in BOOLEAN
    PROVE  Outline(L, full_deploy_flashclaim_registry_v3(verify),
                   L \cup DoneFacts("UserFlashclaimRegistryV3", "ProxyAdminWithoutTimelock"))
  <1> DEFINE id == "UserFlashclaimRegistryV3"
             adminId == "ProxyAdminWithoutTimelock"
             A == L \cup {Known("registry")}
             B == A \cup {Known("admin"), Rec(adminId, "admin")}
             C == B \cup ImplFacts(id)
             Q == L \cup DoneFacts(id, adminId)
             receiver == IF IsSet(id) THEN <<>> ELSE deployAirdropFlashLoanReceiverV3Impl(verify)
  <1>0. ImplId(id) = "UserFlashclaimRegistryV3Impl" /\ id \in ConfigIds \ AdminIds
        /\ adminId \in Ids /\ "BNFTRegistry" \in Ids
    BY DEF ImplId, ConfigIds, AdminIds, Ids, eContractid
  <1>1. Outline(L, Load("BNFTRegistry", "registry"), A)
    <2>1. Untouched(L, {"registry"}, {})
      BY DEF Untouched, Lasts
    <2>2. Outline(L, Load("BNFTRegistry", "registry"), L \cup {Known("registry"), Rec("BNFTRegistry", "registry")})
      BY <2>1, <1>0, LoadOut
    <2> QED
      BY <2>2, Weaken
  <1>2. Outline(A, Load(adminId, "admin"), B)
    <2>1. Untouched(A, {"admin"}, {})
      BY FactParts DEF Untouched, Lasts, Mentions
    <2> HIDE DEF A
    <2> QED
      BY <2>1, <1>0, LoadOut
  <1>3. Outline(B, deployUserFlashclaimRegistryV3(verify), C)
    <2>1. Untouched(B, {"impl"}, {"UserFlashclaimRegistryV3Impl", "UserFlashclaimRegistryV3"})
      BY <1>0, FactParts DEF Untouched, Lasts, Mentions
    <2> HIDE DEF B
    <2>2. Other \in B
      BY DEF A, B
    <2> QED
      BY <2>1, <2>2, FlashclaimImplOut
  <1>4. Outline(C, receiver, C)
    <2>1. CASE IsSet(id)
      BY <2>1, Nothing
    <2>2. CASE ~IsSet(id)
      <3>1. Untouched(C, {"receiver"}, {"AirdropFlashLoanReceiverV3Impl"})
        BY <1>0, FactParts DEF Untouched, Lasts, Mentions, ImplFacts
      <3>2. Plain # WithRegistry
        BY DEF Plain, WithRegistry
      <3> HIDE DEF C
      <3>3. Other \in C
        BY DEF A, B, C
      <3>4. Outline(C, deployAirdropFlashLoanReceiverV3Impl(verify),
                    C \cup {Known("receiver"), Fresh("receiver"), Impl("receiver", "AirdropFlashLoanReceiverV3"),
                            Rec("AirdropFlashLoanReceiverV3Impl", "receiver"), Mined("receiver"), Alone}
                      \cup (IF "receiver" = "impl" THEN {Newest} ELSE {}))
        BY <3>1, <3>2, <3>3, DeployOut DEF deployAirdropFlashLoanReceiverV3Impl
      <3>5. Outline(C, deployAirdropFlashLoanReceiverV3Impl(verify), C)
        BY <3>4, Weaken
      <3> QED
        BY <3>5, <2>2
    <2> QED
      BY <2>1, <2>2
  <1>5. Outline(C, ProxyOrUpgrade(id, "registry", verify), Q)
    <2>1. Untouched(C, {"proxy"}, {id}) /\ \A f \in C : f[1] # "logic"
      BY <1>0, FactParts DEF Untouched, Lasts, Mentions, ImplFacts
    <2>2. IsSet(id) => Configured(id) \in C
      BY <1>0 DEF Lasts
    <2>3. {Other, Alone, Known("impl"), Known("admin"), Known("registry"), Newest, Impl("impl", id)} \subseteq C
      BY DEF ImplFacts
    <2>4. Q \subseteq C \cup ServedFacts(id)
      BY <1>0 DEF ImplFacts, DoneFacts
    <2> HIDE DEF C, Q
    <2>5. Outline(C, ProxyOrUpgrade(id, "registry", verify),
                  C \cup ServedFacts(id) \cup (IF IsSet(id) THEN {} ELSE {ArgOf("proxy", "registry")}))
      BY <2>1, <2>2, <2>3, <1>0, ServeOut
    <2> QED
      BY <2>4, <2>5, Weaken
  <1> HIDE DEF A, B, C, Q, receiver
  <1>6. Outline(L, Load("BNFTRegistry", "registry") \o Load(adminId, "admin")
                     \o deployUserFlashclaimRegistryV3(verify) \o receiver, C)
    BY <1>1, <1>2, <1>3, <1>4, Then
  <1>7. Outline(L, full_deploy_flashclaim_registry_v3(verify), Q)
    BY <1>5, <1>6, Then DEF full_deploy_flashclaim_registry_v3, receiver
  <1> QED
    BY <1>7 DEF Q

\* A registry's implementation, and the one it gives to bNFTs.
GenericFacts == {Known("admin"), Rec("ProxyAdmin", "admin"), Known("generic"), Impl("generic", "BNFT"), Rec("BNFT", "generic")}

LEMMA RegistryImplsOut ==
    ASSUME NEW L, Lasts(L), Other \in L, NEW verify \in BOOLEAN
    PROVE  Outline(L, Load("ProxyAdmin", "admin") \o deployGenericBNFTImpl(verify) \o deployBNFTRegistry(verify),
                   L \cup GenericFacts \cup ImplFacts("BNFTRegistry"))
  <1> DEFINE A == L \cup {Known("admin"), Rec("ProxyAdmin", "admin")}
             B == L \cup GenericFacts
             C == B \cup ImplFacts("BNFTRegistry")
  <1>0. ImplId("BNFTRegistry") = "BNFTRegistryImpl" /\ "ProxyAdmin" \in Ids
    BY DEF ImplId, ConfigIds, Ids, eContractid
  <1>1. Outline(L, Load("ProxyAdmin", "admin"), A)
    <2>1. Untouched(L, {"admin"}, {})
      BY DEF Untouched, Lasts
    <2> QED
      BY <2>1, <1>0, LoadOut
  <1>2. Outline(A, deployGenericBNFTImpl(verify), B)
    <2>1. Untouched(A, {"generic"}, {"BNFT"})
      BY FactParts DEF Untouched, Lasts, Mentions
    <2>2. Plain # WithRegistry
      BY DEF Plain, WithRegistry
    <2>3. B \subseteq A \cup {Known("generic"), Fresh("generic"), Impl("generic", "BNFT"), Rec("BNFT", "generic"), Mined("generic"), Alone}
      BY DEF GenericFacts
    <2> HIDE DEF A, B
    <2>4. Other \in A
      BY DEF A
    <2>5. Outline(A, deployGenericBNFTImpl(verify),
                  A \cup {Known("generic"), Fresh("generic"), Impl("generic", "BNFT"), Rec("BNFT", "generic"), Mined("generic"), Alone}
                    \cup (IF "generic" = "impl" THEN {Newest} ELSE {}))
      BY <2>1, <2>2, <2>4, DeployOut DEF deployGenericBNFTImpl
    <2> QED
      BY <2>3, <2>5, Weaken
  <1>3. Outline(B, deployBNFTRegistry(verify), C)
    <2>1. Untouched(B, {"impl"}, {ImplId("BNFTRegistry"), "BNFTRegistry"})
      BY <1>0, FactParts DEF Untouched, Lasts, Mentions, GenericFacts
    <2> HIDE DEF B
    <2>2. Other \in B
      BY DEF B
    <2> QED
      BY <2>1, <2>2, UnderProxyIdOut DEF deployBNFTRegistry
  <1> HIDE DEF A, B, C
  <1>4. Outline(L, Load("ProxyAdmin", "admin") \o deployGenericBNFTImpl(verify) \o deployBNFTRegistry(verify), C)
    BY <1>1, <1>2, <1>3, Then
  <1> QED
    BY <1>4 DEF B, C

\* What the two tasks of the registry know before they come to its proxy.
LEMMA RegistryImplsDone ==
    ASSUME NEW L, Lasts(L), Other \in L
    PROVE  LET C == L \cup GenericFacts \cup ImplFacts("BNFTRegistry")
           IN  /\ Untouched(C, {"proxy"}, {"BNFTRegistry"})
               /\ \A f \in C : f[1] \notin {"logic", "arg", "served", "read"}
               /\ IsSet("BNFTRegistry") => Configured("BNFTRegistry") \in C
               /\ {Other, Alone, Known("impl"), Known("admin"), Known("generic"), Newest,
                   Impl("impl", "BNFTRegistry"), Impl("generic", "BNFT")} \subseteq C
               /\ L \cup RegistryFacts \subseteq C \cup ServedFacts("BNFTRegistry") \cup {ArgOf("proxy", "generic")}
               /\ "BNFTRegistry" \in ConfigIds \ AdminIds
  <1> DEFINE C == L \cup GenericFacts \cup ImplFacts("BNFTRegistry")
  <1>0. ImplId("BNFTRegistry") = "BNFTRegistryImpl" /\ "BNFTRegistry" \in ConfigIds \ AdminIds
    BY DEF ImplId, ConfigIds, AdminIds
  <1>1. Untouched(C, {"proxy"}, {"BNFTRegistry"})
    BY <1>0, FactParts DEF Untouched, Lasts, Mentions, GenericFacts, ImplFacts
  <1>2. \A f \in C : f[1] \notin {"logic", "arg", "served", "read"}
    BY <1>0, FactParts DEF Lasts, GenericFacts, ImplFacts
  <1>3. IsSet("BNFTRegistry") => Configured("BNFTRegistry") \in C
    BY <1>0 DEF Lasts
  <1>4. {Other, Alone, Known("impl"), Known("admin"), Known("generic"), Newest,
         Impl("impl", "BNFTRegistry"), Impl("generic", "BNFT")} \subseteq C
    BY DEF GenericFacts, ImplFacts
  <1>5. L \cup RegistryFacts \subseteq C \cup ServedFacts("BNFTRegistry") \cup {ArgOf("proxy", "generic")}
    BY <1>0 DEF RegistryFacts, DoneFacts, GenericFacts, ImplFacts
  <1> QED
    BY <1>0, <1>1, <1>2, <1>3, <1>4, <1>5

LEMMA DevRegistryOut ==
    ASSUME NEW L, Lasts(L), Other \in L, NEW verify \in BOOLEAN
    PROVE  Outline(L, dev_deploy_bnft_registry(verify), L \cup RegistryFacts)
  <1> DEFINE C == L \cup GenericFacts \cup ImplFacts("BNFTRegistry")
             Q == L \cup RegistryFacts
  <1>1. /\ Untouched(C, {"proxy"}, {"BNFTRegistry"})
        /\ {Other, Alone, Known("impl"), Known("admin"), Known("generic"), Impl("generic", "BNFT")} \subseteq C
        /\ Q \subseteq C \cup ServedFacts("BNFTRegistry") \cup {ArgOf("proxy", "generic")}
    BY RegistryImplsDone
  <1>2. Outline(L, Load("ProxyAdmin", "admin") \o deployGenericBNFTImpl(verify) \o deployBNFTRegistry(verify), C)
    BY RegistryImplsOut
  <1> HIDE DEF C, Q
  <1>3. Outline(C, deployBNFTUpgradeableProxy("BNFTRegistry", "generic", verify),
                C \cup ServedFacts("BNFTRegistry") \cup {ArgOf("proxy", "generic")})
    BY <1>1, ProxyOut
  <1>4. Outline(C, deployBNFTUpgradeableProxy("BNFTRegistry", "generic", verify), Q)
    BY <1>1, <1>3, Weaken
  <1>5. Outline(L, dev_deploy_bnft_registry(verify), Q)
    BY <1>2, <1>4, Then DEF dev_deploy_bnft_registry
  <1> QED
    BY <1>5 DEF Q

LEMMA SetGenericOut ==
    ASSUME NEW F, \A f \in F : f[1] \notin {"arg", "served", "read"},
           {Other, Proxy("proxy", "BNFTRegistry"), Impl("generic", "BNFT")} \subseteq F
    PROVE  Outline(F, Do("setBNFTGenericImpl"), F \cup {ArgOf("proxy", "generic")})
  <1> DEFINE e == [do |-> "setBNFTGenericImpl"]
  <1>1. Binds(e) = {} /\ Writes(e) = {} /\ Upsets(e) = {"arg", "served", "read"} /\ Gives(e) = {ArgOf("proxy", "generic")}
    BY DEF Binds, Writes, Upsets, Gives
  <1>2. Needs(e, F)
    BY DEF Needs
  <1>3. \A f \in F : ~Killed(f, e)
    BY <1>1 DEF Killed
  <1> HIDE DEF e
  <1>4. Leads(e, F, F \cup {ArgOf("proxy", "generic")})
    BY <1>1, <1>2, <1>3 DEF Leads
  <1> QED
    BY <1>4, One DEF Do, e

LEMMA RegistryOut ==
    ASSUME NEW L, Lasts(L), Other \in L, NEW verify \in BOOLEAN
    PROVE  Outline(L, full_deploy_bnft_registry(verify), L \cup RegistryFacts)
  <1> DEFINE id == "BNFTRegistry"
             C == L \cup GenericFacts \cup ImplFacts(id)
             D == C \cup ServedFacts(id)
             Q == L \cup RegistryFacts
             last == IF IsSet(id) THEN Do("setBNFTGenericImpl") ELSE <<>>
             E == D \cup (IF IsSet(id) THEN {} ELSE {ArgOf("proxy", "generic")})
  <1>1. /\ Untouched(C, {"proxy"}, {id})
        /\ \A f \in C : f[1] \notin {"logic", "arg", "served", "read"}
        /\ IsSet(id) => Configured(id) \in C
        /\ {Other, Alone, Known("impl"), Known("admin"), Known("generic"), Newest,
            Impl("impl", id), Impl("generic", "BNFT")} \subseteq C
        /\ Q \subseteq D \cup {ArgOf("proxy", "generic")}
        /\ id \in ConfigIds \ AdminIds
    BY RegistryImplsDone
  <1>2. Outline(L, Load("ProxyAdmin", "admin") \o deployGenericBNFTImpl(verify) \o deployBNFTRegistry(verify), C)
    BY RegistryImplsOut
  <1>3. \A f \in D : f[1] \notin {"arg", "served", "read"}
    BY <1>1, FactParts DEF ServedFacts
  <1> HIDE DEF C
  <1>4. Outline(C, ProxyOrUpgrade(id, "generic", verify), E)
    BY <1>1, ServeOut
  <1>5. Outline(E, last, Q)
    <2>1. CASE IsSet(id)
      <3>1. {Other, Proxy("proxy", "BNFTRegistry"), Impl("generic", "BNFT")} \subseteq D
        BY <1>1 DEF ServedFacts
      <3> HIDE DEF D, Q
      <3>2. Outline(D, Do("setBNFTGenericImpl"), D \cup {ArgOf("proxy", "generic")})
        BY <3>1, <1>3, SetGenericOut
      <3>3. E = D /\ last = Do("setBNFTGenericImpl")
        BY <2>1
      <3> QED
        BY <3>2, <3>3, <1>1, Weaken
    <2>2. CASE ~IsSet(id)
      <3>1. Q \subseteq E /\ last = <<>>
        BY <2>2, <1>1
      <3> QED
        BY <3>1, Nothing
    <2> QED
      BY <2>1, <2>2
  <1> HIDE DEF D, E, Q, last
  <1>6. Outline(L, full_deploy_bnft_registry(verify), Q)
    BY <1>2, <1>4, <1>5, Then DEF full_deploy_bnft_registry, last
  <1> QED
    BY <1>6 DEF Q
-----------------------------------------------------------------------------
(* The tasks of the tokens.                                                 *)

RegistryGoal(Q) == Known("registry") \in Q /\ Found(Q)

LEMMA RegistryFoundOut ==
    ASSUME NEW L, Lasts(L)
    PROVE  \E F : /\ Outline(L, RegistryOfConfigOrDb, L \cup F)
                  /\ RegistryGoal(L \cup F)
                  /\ \A f \in F : f[1] \in {"known", "conf", "rec"} /\ f[3] \in {"registry", "none"}
                                  /\ f[2] \in {"registry", "BNFTRegistry"}
  <1> DEFINE id == "BNFTRegistry"
  <1>0. id \in ConfigIds \ AdminIds /\ id \in Ids
    BY DEF ConfigIds, AdminIds, Ids, eContractid
  <1>1. CASE IsSet(id)
    <2> DEFINE F == {Known("registry"), Conf(id, "registry")}
    <2>1. Untouched(L, {"registry"}, {}) /\ Configured(id) \in L
      BY <1>0, <1>1 DEF Untouched, Lasts
    <2>2. Outline(L, Config(id, "registry"), L \cup {Known("registry"), Mined("registry"), Conf(id, "registry")}
                                              \cup (IF id \in AdminIds THEN {} ELSE {Proxy("registry", id)}))
      BY <2>1, <1>0, ConfigOut
    <2>3. Outline(L, Config(id, "registry"), L \cup F)
      BY <2>2, Weaken
    <2>4. RegistryGoal(L \cup F)
      BY DEF RegistryGoal, Found
    <2>5. \A f \in F : f[1] \in {"known", "conf", "rec"} /\ f[3] \in {"registry", "none"}
                        /\ f[2] \in {"registry", "BNFTRegistry"}
      BY FactParts
    <2> HIDE DEF F
    <2> QED
      BY <2>3, <2>4, <2>5, <1>1 DEF RegistryOfConfigOrDb
  <1>2. CASE ~IsSet(id)
    <2> DEFINE F == {Known("registry"), Rec(id, "registry")}
    <2>1. Untouched(L, {"registry"}, {}) /\ Unset(id) \in L
      BY <1>0, <1>2 DEF Untouched, Lasts
    <2>2. Outline(L, Load(id, "registry"), L \cup F)
      BY <2>1, <1>0, LoadOut
    <2>3. RegistryGoal(L \cup F)
      BY <2>1 DEF RegistryGoal, Found
    <2>4. \A f \in F : f[1] \in {"known", "conf", "rec"} /\ f[3] \in {"registry", "none"}
                        /\ f[2] \in {"registry", "BNFTRegistry"}
      BY FactParts
    <2> HIDE DEF F
    <2> QED
      BY <2>2, <2>3, <2>4, <1>2 DEF RegistryOfConfigOrDb
  <1> QED
    BY <1>1, <1>2

\* One round of full:deploy-bnft-tokens, after those for the symbols in D.
LEMMA TokenOut ==
    ASSUME NEW B, NEW D, NEW s \in Symbols, RegistryGoal(B), Read \in B,
           Untouched(B, {"bound"}, {}), \A f \in B : f[1] # "seen"
    PROVE  Outline(B \cup {Served(d) : d \in D},
                   ForAsset("getBNFTAddresses", s) \o ForAsset("createOrUpgrade", s),
                   B \cup {Served(d) : d \in D \cup {s}})
  <1> DEFINE F == B \cup {Served(d) : d \in D}
             G == F \cup {Seen(s)}
             H == B \cup {Served(d) : d \in D \cup {s}}
             look == [do |-> "getBNFTAddresses", asset |-> s]
             act == [do |-> "createOrUpgrade", asset |-> s]
  <1>1. Binds(look) = {"bound"} /\ Writes(look) = {} /\ Upsets(look) = {"seen"} /\ Gives(look) = {Seen(s)}
    BY DEF Binds, Writes, Upsets, Gives
  <1>2. Binds(act) = {} /\ Writes(act) = {} /\ Upsets(act) = {"seen"} /\ Gives(act) = {Served(s)}
    BY DEF Binds, Writes, Upsets, Gives
  <1>3. Untouched(F, {"bound"}, {}) /\ \A f \in F : f[1] # "seen"
    BY FactParts DEF Mentions, Untouched
  <1>4. Needs(look, F)
    BY DEF Needs, RegistryGoal
  <1>5. Needs(act, G)
    <2>1. Found(G)
      BY DEF RegistryGoal, Found
    <2> HIDE DEF F
    <2>2. Seen(s) \in G
      OBVIOUS
    <2>3. Read \in G
      BY DEF F
    <2>4. act.do = "createOrUpgrade" /\ act.asset = s
      OBVIOUS
    <2> HIDE DEF G, act
    <2> QED
      BY <2>1, <2>2, <2>3, <2>4 DEF Needs
  <1>6. H \subseteq F \cup {Served(s)}
    OBVIOUS
  <1> HIDE DEF F, H, look, act
  <1>7. Leads(look, F, G)
    BY <1>1, <1>3, <1>4 DEF Leads, Killed, Untouched
  <1>8. Leads(act, G, H)
    <2>1. ASSUME NEW f \in H PROVE f \in Gives(act) \/ (f \in G /\ ~Killed(f, act))
      <3>1. CASE f = Served(s)
        BY <3>1, <1>2
      <3>2. CASE f \in F
        BY <3>2, <1>2, <1>3 DEF Killed
      <3> QED
        BY <3>1, <3>2, <1>6
    <2> QED
      BY <2>1, <1>5 DEF Leads
  <1>9. Outline(F, ForAsset("getBNFTAddresses", s) \o ForAsset("createOrUpgrade", s), H)
    BY <1>7, <1>8, One, Then DEF ForAsset, look, act
  <1> QED
    BY <1>9 DEF F, H

LEMMA TokensOut ==
    ASSUME NEW L, Lasts(L)
    PROVE  \E Q : TokensGoal(Q) /\ L \subseteq Q /\ Outline(L, full_deploy_bnft_tokens, Q)
  <1>1. PICK F : /\ Outline(L, RegistryOfConfigOrDb, L \cup F)
                 /\ RegistryGoal(L \cup F)
                 /\ \A f \in F : f[1] \in {"known", "conf", "rec"} /\ f[3] \in {"registry", "none"}
                                 /\ f[2] \in {"registry", "BNFTRegistry"}
    BY RegistryFoundOut
  <1> DEFINE A == L \cup F
             B == A \cup {Read}
             e == [do |-> "bNftGenericImpl"]
             S(i) == {NftContractId[j] : j \in 1..i}
             I == [i \in 0..N |-> B \cup {Served(d) : d \in S(i)}]
             s == [i \in 1..N |-> ForAsset("getBNFTAddresses", NftContractId[i])
                                  \o ForAsset("createOrUpgrade", NftContractId[i])]
  <1>2. Binds(e) = {"generic"} /\ Writes(e) = {} /\ Upsets(e) = {} /\ Gives(e) = {Read}
    BY DEF Binds, Writes, Upsets, Gives
  <1>3. Needs(e, A)
    BY <1>1 DEF Needs, RegistryGoal
  <1>4. \A f \in A : ~Killed(f, e)
    BY <1>1, <1>2 DEF Killed, Lasts, Mentions
  <1>5. /\ RegistryGoal(B) /\ Read \in B
        /\ Untouched(B, {"bound"}, {}) /\ \A f \in B : f[1] # "seen"
    BY <1>1, FactParts DEF RegistryGoal, Found, Lasts, Mentions, Untouched
  <1>6. N \in Nat /\ Symbols = S(N)
    BY NftContractIdAssumption DEF N, Symbols, ToSet
  <1> HIDE DEF A, e
  <1>7. Outline(A, Do("bNftGenericImpl"), B)
    <2>1. Leads(e, A, B)
      BY <1>2, <1>3, <1>4 DEF Leads
    <2> QED
      BY <2>1, One DEF Do, e
  <1> HIDE DEF B
  <1>8. \A i \in 1..N : Outline(I[i - 1], s[i], I[i])
    <2> SUFFICES ASSUME NEW i \in 1..N PROVE Outline(I[i - 1], s[i], I[i])
      OBVIOUS
    <2>1. i - 1 \in 0..N /\ i \in 0..N
      BY <1>6
    <2>2. S(i) = S(i - 1) \cup {NftContractId[i]}
      BY <2>1, <1>6
    <2>3. s[i] = ForAsset("getBNFTAddresses", NftContractId[i]) \o ForAsset("createOrUpgrade", NftContractId[i])
      OBVIOUS
    <2>5. NftContractId[i] \in Symbols
      BY <1>6
    <2>4. I[i - 1] = B \cup {Served(d) : d \in S(i - 1)} /\ I[i] = B \cup {Served(d) : d \in S(i)}
      BY <2>1
    <2> HIDE DEF S, I, s
    <2> QED
      BY <2>2, <2>3, <2>4, <2>5, <1>5, TokenOut
  <1>9. Outline(I[0], FlattenSeq(s), I[N])
    <2>1. DOMAIN s = 1..N /\ s = [i \in 1..N |-> s[i]]
      OBVIOUS
    <2> HIDE DEF s, I
    <2> QED
      BY <2>1, <1>6, <1>8, Loop
  <1>10. B \subseteq I[0] /\ I[N] = B \cup {Served(d) : d \in Symbols}
    BY <1>6
  <1>11. Outline(B, TokensFromConfig, I[N])
    <2>1. I[0] = B
      BY <1>6
    <2> HIDE DEF I, s
    <2> QED
      BY <2>1, <1>9 DEF TokensFromConfig, s
  <1>12. TokensGoal(I[N]) /\ L \subseteq I[N]
    <2>1. Found(I[N])
      BY <1>5, <1>10 DEF RegistryGoal, Found
    <2>2. L \subseteq B
      BY DEF A, B
    <2> HIDE DEF I
    <2> QED
      BY <2>1, <2>2, <1>10 DEF TokensGoal
  <1> HIDE DEF I
  <1>13. Outline(L, RegistryOfConfigOrDb \o Do("bNftGenericImpl") \o TokensFromConfig, I[N])
    BY <1>1, <1>7, <1>11, Then DEF A
  <1> QED
    BY <1>12, <1>13 DEF full_deploy_bnft_tokens
-----------------------------------------------------------------------------
(* The other tasks, of which only what their steps need is shown.           *)

LEMMA LoadKeeps ==
    ASSUME NEW L, Lasts(L), NEW id \in Ids, NEW var
    PROVE  Outline(L, Load(id, var), L)
  <1>1. Untouched(L, {var}, {})
    BY DEF Untouched, Lasts
  <1>2. Outline(L, Load(id, var), L \cup {Known(var), Rec(id, var)})
    BY <1>1, LoadOut
  <1> QED
    BY <1>2, Weaken

LEMMA ConfigKeeps ==
    ASSUME NEW L, Lasts(L), NEW id \in ConfigIds, IsSet(id), NEW var
    PROVE  Outline(L, Config(id, var), L)
  <1>1. Untouched(L, {var}, {}) /\ Configured(id) \in L
    BY DEF Untouched, Lasts
  <1>2. Outline(L, Config(id, var), L \cup {Known(var), Mined(var), Conf(id, var)}
                                      \cup (IF id \in AdminIds THEN {} ELSE {Proxy(var, id)}))
    BY <1>1, ConfigOut
  <1> QED
    BY <1>2, Weaken

LEMMA DeployKeeps ==
    ASSUME NEW L, Lasts(L), Other \in L, NEW kind, NEW id, NEW var, NEW verify \in BOOLEAN,
           var \notin {"none", "registry"}
    PROVE  Outline(L, DeployContract(kind, Plain, id, var, verify), L)
  <1>1. Untouched(L, {var}, {id}) /\ Plain # WithRegistry
    BY DEF Untouched, Lasts, Plain, WithRegistry
  <1>2. Outline(L, DeployContract(kind, Plain, id, var, verify),
                L \cup {Known(var), Fresh(var), Impl(var, kind), Rec(id, var), Mined(var), Alone}
                  \cup (IF var = "impl" THEN {Newest} ELSE {}))
    BY <1>1, DeployOut
  <1> QED
    BY <1>2, Weaken

LEMMA DeployKnows ==
    ASSUME NEW L, Lasts(L), Other \in L, NEW kind, NEW id, NEW var, NEW verify \in BOOLEAN,
           var \notin {"none", "registry"}
    PROVE  Outline(L, DeployContract(kind, Plain, id, var, verify), L \cup {Known(var), Fresh(var)})
  <1>1. Untouched(L, {var}, {id}) /\ Plain # WithRegistry
    BY DEF Untouched, Lasts, Plain, WithRegistry
  <1>2. Outline(L, DeployContract(kind, Plain, id, var, verify),
                L \cup {Known(var), Fresh(var), Impl(var, kind), Rec(id, var), Mined(var), Alone}
                  \cup (IF var = "impl" THEN {Newest} ELSE {}))
    BY <1>1, DeployOut
  <1> QED
    BY <1>2, Weaken

LEMMA SaveKeeps ==
    ASSUME NEW L, Lasts(L), NEW id, NEW var
    PROVE  Outline(L \cup {Known(var), Fresh(var)}, Save(id, var), L)
  <1> DEFINE F == L \cup {Known(var), Fresh(var)}
  <1>1. Untouched(F, {}, {id}) /\ {Known(var), Fresh(var)} \subseteq F
    BY FactParts DEF Untouched, Lasts
  <1> HIDE DEF F
  <1>2. Outline(F, Save(id, var), F \cup {Rec(id, var), Mined(var), Alone})
    BY <1>1, SaveOut
  <1> QED
    BY <1>2, Weaken DEF F

\* A contract that is given the registry.
LEMMA WithRegistryKeeps ==
    ASSUME NEW L, Lasts(L), Other \in L, NEW kind, NEW id, NEW var, NEW verify \in BOOLEAN,
           var \notin {"none", "registry"}
    PROVE  Outline(L \cup {Known("registry")}, DeployContract(kind, WithRegistry, id, var, verify), L)
  <1> DEFINE F == L \cup {Known("registry")}
  <1>1. Untouched(F, {var}, {id})
    BY FactParts DEF Untouched, Lasts, Mentions
  <1> HIDE DEF F
  <1>2. Other \in F /\ Known("registry") \in F
    BY DEF F
  <1>3. Outline(F, DeployContract(kind, WithRegistry, id, var, verify),
                F \cup {Known(var), Fresh(var), Impl(var, kind), Rec(id, var), Mined(var), Alone}
                  \cup (IF var = "impl" THEN {Newest} ELSE {}))
    BY <1>1, <1>2, DeployOut
  <1> QED
    BY <1>3, Weaken DEF F

LEMMA LoadRegistryOut ==
    ASSUME NEW L, Lasts(L)
    PROVE  Outline(L, Load("BNFTRegistry", "registry"), L \cup {Known("registry")})
  <1>1. Untouched(L, {"registry"}, {}) /\ "BNFTRegistry" \in Ids
    BY DEF Untouched, Lasts, Ids, eContractid, ConfigIds
  <1>2. Outline(L, Load("BNFTRegistry", "registry"), L \cup {Known("registry"), Rec("BNFTRegistry", "registry")})
    BY <1>1, LoadOut
  <1> QED
    BY <1>2, Weaken

LEMMA AdminOut ==
    ASSUME NEW L, Lasts(L), Other \in L, NEW id \in AdminIds, NEW verify \in BOOLEAN
    PROVE  Outline(L, IF IsSet(id) THEN Config(id, "admin") \o Insert(id, "admin")
                      ELSE deployBNFTProxyAdmin(id, verify), L)
  <1>0. id \in ConfigIds
    BY DEF AdminIds, ConfigIds
  <1>1. CASE IsSet(id)
    <2> DEFINE F == L \cup {Known("admin"), Mined("admin")}
    <2>1. Untouched(L, {"admin"}, {}) /\ Configured(id) \in L
      BY <1>0, <1>1 DEF Untouched, Lasts
    <2>2. Outline(L, Config(id, "admin"), L \cup {Known("admin"), Mined("admin"), Conf(id, "admin")}
                                            \cup (IF id \in AdminIds THEN {} ELSE {Proxy("admin", id)}))
      BY <2>1, <1>0, ConfigOut
    <2>3. Outline(L, Config(id, "admin"), F)
      BY <2>2, Weaken
    <2>4. Untouched(F, {}, {id}) /\ Known("admin") \in F /\ Mined("admin") \in F
      BY FactParts DEF Untouched, Lasts
    <2> HIDE DEF F
    <2>5. Outline(F, Insert(id, "admin"), F \cup {Rec(id, "admin")})
      BY <2>4, InsertOut
    <2>6. Outline(F, Insert(id, "admin"), L)
      BY <2>5, Weaken DEF F
    <2> QED
      BY <2>3, <2>6, <1>1, Then
  <1>2. CASE ~IsSet(id)
    <2>1. Outline(L, DeployContract("BNFTProxyAdmin", Plain, id, "admin", verify), L)
      BY DeployKeeps
    <2> QED
      BY <2>1, <1>2 DEF deployBNFTProxyAdmin
  <1> QED
    BY <1>1, <1>2

LEMMA ProxyAdminOut ==
    ASSUME NEW L, Lasts(L), Other \in L, NEW verify \in BOOLEAN
    PROVE  Outline(L, full_deploy_proxy_admin(verify), L)
  <1> DEFINE admin(id) == IF IsSet(id) THEN Config(id, "admin") \o Insert(id, "admin")
                          ELSE deployBNFTProxyAdmin(id, verify)
  <1>1. Outline(L, admin("ProxyAdmin"), L) /\ Outline(L, admin("ProxyAdminWithoutTimelock"), L)
    BY AdminOut DEF AdminIds
  <1> HIDE DEF admin
  <1>2. Outline(L, admin("ProxyAdmin") \o admin("ProxyAdminWithoutTimelock"), L)
    BY <1>1, Then
  <1> QED
    BY <1>2 DEF full_deploy_proxy_admin, admin

\* A loop over the collections of which each round keeps L.
LEMMA RoundsKeep ==
    ASSUME NEW L, NEW s, DOMAIN s = 1..N, s = [i \in 1..N |-> s[i]], \A i \in 1..N : Outline(L, s[i], L)
    PROVE  Outline(L, FlattenSeq(s), L)
  <1> DEFINE I == [i \in 0..N |-> L]
  <1>1. N \in Nat
    BY NftContractIdAssumption DEF N
  <1>2. \A i \in 1..N : Outline(I[i - 1], s[i], I[i])
    <2> SUFFICES ASSUME NEW i \in 1..N PROVE Outline(I[i - 1], s[i], I[i])
      OBVIOUS
    <2>1. I[i - 1] = L /\ I[i] = L
      BY <1>1
    <2> QED
      BY <2>1
  <1>3. I[0] = L /\ I[N] = L
    BY <1>1
  <1> HIDE DEF I
  <1>4. Outline(I[0], FlattenSeq(s), I[N])
    BY <1>1, <1>2, Loop
  <1> QED
    BY <1>3, <1>4

LEMMA DevTokensOut ==
    ASSUME NEW L, Lasts(L), Other \in L
    PROVE  Outline(L, dev_deploy_bnft_tokens, L)
  <1> DEFINE find == [i \in 1..N |-> Load(NftContractId[i], NftContractId[i])]
             create == [i \in 1..N |-> ForAsset("createMocked", NftContractId[i])]
  <1>1. Outline(L, FlattenSeq(find), L)
    <2>1. \A i \in 1..N : Outline(L, find[i], L)
      <3> SUFFICES ASSUME NEW i \in 1..N PROVE Outline(L, find[i], L)
        OBVIOUS
      <3>1. NftContractId[i] \in Ids
        BY NftContractIdAssumption DEF N, Ids, Symbols, ToSet
      <3> QED
        BY <3>1, LoadKeeps
    <2>2. DOMAIN find = 1..N /\ find = [i \in 1..N |-> find[i]]
      OBVIOUS
    <2> HIDE DEF find
    <2> QED
      BY <2>1, <2>2, RoundsKeep
  <1>2. Outline(L, FlattenSeq(create), L)
    <2>1. \A i \in 1..N : Outline(L, create[i], L)
      <3> SUFFICES ASSUME NEW i \in 1..N PROVE Outline(L, create[i], L)
        OBVIOUS
      <3> DEFINE e == [do |-> "createMocked", asset |-> NftContractId[i]]
      <3>1. Leads(e, L, L)
        BY DEF Leads, Needs, Killed, Binds, Writes, Upsets, Lasts
      <3>2. create[i] = <<e>>
        BY DEF ForAsset
      <3> HIDE DEF e, create
      <3> QED
        BY <3>1, <3>2, One
    <2>2. DOMAIN create = 1..N /\ create = [i \in 1..N |-> create[i]]
      OBVIOUS
    <2> HIDE DEF create
    <2> QED
      BY <2>1, <2>2, RoundsKeep
  <1>3. Outline(L, Load("BNFTRegistry", "registry"), L)
    BY LoadKeeps DEF Ids, eContractid, ConfigIds
  <1> HIDE DEF find, create
  <1>4. Outline(L, Load("BNFTRegistry", "registry") \o FlattenSeq(find) \o FlattenSeq(create), L)
    BY <1>1, <1>2, <1>3, Then
  <1> QED
    BY <1>4 DEF dev_deploy_bnft_tokens, find, create

LEMMA CreateNewOut ==
    ASSUME NEW L, Lasts(L), Other \in L, NEW s
    PROVE  Outline(L, create_new_bnft(s), L)
  <1> DEFINE e == [do |-> "createBNFT", asset |-> s]
  <1>1. Leads(e, L, L)
    BY DEF Leads, Needs, Killed, Binds, Writes, Upsets, Lasts
  <1> HIDE DEF e
  <1>2. PICK F : Outline(L, RegistryOfConfigOrDb, L \cup F)
    BY RegistryFoundOut
  <1>3. Outline(L, RegistryOfConfigOrDb, L)
    BY <1>2, Weaken
  <1>4. Outline(L, ForAsset("createBNFT", s), L)
    BY <1>1, One DEF ForAsset, e
  <1> QED
    BY <1>3, <1>4, Then DEF create_new_bnft

LEMMA ReceiverOut ==
    ASSUME NEW L, Lasts(L), Other \in L, NEW verify \in BOOLEAN
    PROVE  Outline(L, full_deploy_flashclaim_receiver_v2(verify), L \cup ReceiverFacts)
  <1> DEFINE id == "AirdropFlashLoanReceiverV2"
             F == L \cup {Known("registry")}
             G == F \cup {Known("receiver"), Impl("receiver", id), Rec(id, "receiver")}
             Q == L \cup ReceiverFacts
             e == [do |-> "initialize"]
  <1>1. Outline(L, Load("BNFTRegistry", "registry"), F)
    BY LoadRegistryOut
  <1>2. Outline(F, DeployContract(id, Plain, id, "receiver", verify), G)
    <2>1. Untouched(F, {"receiver"}, {id})
      BY FactParts DEF Untouched, Lasts, Mentions
    <2>2. Plain # WithRegistry
      BY DEF Plain, WithRegistry
    <2>3. G \subseteq F \cup {Known("receiver"), Fresh("receiver"), Impl("receiver", id), Rec(id, "receiver"), Mined("receiver"), Alone}
      OBVIOUS
    <2> HIDE DEF F, G
    <2>4. Other \in F
      BY DEF F
    <2>5. Outline(F, DeployContract(id, Plain, id, "receiver", verify),
                  F \cup {Known("receiver"), Fresh("receiver"), Impl("receiver", id), Rec(id, "receiver"), Mined("receiver"), Alone}
                    \cup (IF "receiver" = "impl" THEN {Newest} ELSE {}))
      BY <2>1, <2>2, <2>4, DeployOut
    <2> QED
      BY <2>3, <2>5, Weaken
  <1>3. Binds(e) = {} /\ Writes(e) = {} /\ Upsets(e) = {"arg", "served", "read"} /\ Gives(e) = {ArgOf("receiver", "registry")}
    BY DEF Binds, Writes, Upsets, Gives
  <1>4. Needs(e, G)
    BY DEF Needs
  <1>5. \A f \in G : ~Killed(f, e)
    BY <1>3, FactParts DEF Killed, Lasts
  <1>6. Q \subseteq G \cup {ArgOf("receiver", "registry")}
    BY DEF ReceiverFacts
  <1> HIDE DEF e, F, G, Q
  <1>7. Leads(e, G, Q)
    BY <1>3, <1>4, <1>5, <1>6 DEF Leads
  <1>8. Outline(G, Do("initialize"), Q)
    BY <1>7, One DEF Do, e
  <1>9. Outline(F, deployAirdropFlashLoanReceiverV2(verify), Q)
    BY <1>2, <1>8, Then DEF deployAirdropFlashLoanReceiverV2
  <1>10. Outline(L, full_deploy_flashclaim_receiver_v2(verify), Q)
    BY <1>1, <1>9, Then DEF full_deploy_flashclaim_receiver_v2
  <1> QED
    BY <1>10 DEF Q

LEMMA FlashclaimV1Out ==
    ASSUME NEW L, Lasts(L), Other \in L, NEW verify \in BOOLEAN
    PROVE  Outline(L, full_deploy_flashclaim_registry_v1(verify), L)
  <1>1. Outline(L \cup {Known("registry")},
                DeployContract("UserFlashclaimRegistry", WithRegistry, "UserFlashclaimRegistry", "v1", verify), L)
    BY WithRegistryKeeps
  <1> QED
    BY <1>1, LoadRegistryOut, Then DEF full_deploy_flashclaim_registry_v1

LEMMA FlashclaimV2Out ==
    ASSUME NEW L, Lasts(L), Other \in L, NEW verify \in BOOLEAN
    PROVE  Outline(L, full_deploy_flashclaim_registry_v2(verify), L)
  <1> DEFINE F == L \cup {Known("registry")}
  <1>1. Outline(L, Load("BNFTRegistry", "registry"), F)
    BY LoadRegistryOut
  <1>2. Outline(F, Load("UserFlashclaimRegistry", "v1"), F)
    <2>1. Untouched(F, {"v1"}, {}) /\ "UserFlashclaimRegistry" \in Ids
      BY FactParts DEF Untouched, Lasts, Mentions, Ids, eContractid
    <2> HIDE DEF F
    <2>2. Outline(F, Load("UserFlashclaimRegistry", "v1"),
                  F \cup {Known("v1"), Rec("UserFlashclaimRegistry", "v1")})
      BY <2>1, LoadOut
    <2> QED
      BY <2>2, Weaken
  <1>3. Outline(F, DeployContract("UserFlashclaimRegistryV2", WithRegistry, "UserFlashclaimRegistryV2", "v2", verify), L)
    BY WithRegistryKeeps
  <1> HIDE DEF F
  <1> QED
    BY <1>1, <1>2, <1>3, Then DEF full_deploy_flashclaim_registry_v2

LEMMA NewImplementationOut ==
    ASSUME NEW L, Lasts(L), Other \in L, NEW verify \in BOOLEAN,
           NEW contract \in {"BNFTRegistry", "BNFT", "AirdropFlashLoanReceiverV3", "UserFlashclaimRegistryV3"}
    PROVE  Outline(L, dev_deploy_new_implementation(contract, verify), L)
  <1>1. CASE contract = "BNFTRegistry"
    <2>1. Untouched(L, {"impl"}, {ImplId("BNFTRegistry"), "BNFTRegistry"})
      BY DEF Untouched, Lasts
    <2>2. Outline(L, deployBNFTRegistry(verify), L \cup ImplFacts("BNFTRegistry"))
      BY <2>1, UnderProxyIdOut DEF deployBNFTRegistry
    <2>3. Outline(L, deployBNFTRegistry(verify), L)
      BY <2>2, Weaken
    <2> QED
      BY <2>3, <1>1 DEF dev_deploy_new_implementation
  <1>2. CASE contract = "BNFT"
    <2>1. Outline(L, deployGenericBNFTImpl(verify), L)
      BY DeployKeeps DEF deployGenericBNFTImpl
    <2> QED
      BY <2>1, <1>2 DEF dev_deploy_new_implementation
  <1>3. CASE contract = "AirdropFlashLoanReceiverV3"
    <2>1. Outline(L, deployAirdropFlashLoanReceiverV3Impl(verify), L)
      BY DeployKeeps DEF deployAirdropFlashLoanReceiverV3Impl
    <2> QED
      BY <2>1, <1>3 DEF dev_deploy_new_implementation
  <1>4. CASE contract = "UserFlashclaimRegistryV3"
    <2>1. Untouched(L, {"impl"}, {"UserFlashclaimRegistryV3Impl", "UserFlashclaimRegistryV3"})
      BY DEF Untouched, Lasts
    <2>2. Outline(L, deployUserFlashclaimRegistryV3(verify), L \cup ImplFacts("UserFlashclaimRegistryV3"))
      BY <2>1, FlashclaimImplOut
    <2>3. Outline(L, deployUserFlashclaimRegistryV3(verify), L)
      BY <2>2, Weaken
    <2> QED
      BY <2>3, <1>4 DEF dev_deploy_new_implementation
  <1> QED
    BY <1>1, <1>2, <1>3, <1>4

LEMMA MockNftsOut ==
    ASSUME NEW L, Lasts(L), Other \in L, NEW verify \in BOOLEAN
    PROVE  Outline(L, dev_deploy_mock_nfts(verify), L)
  <1> DEFINE punks == DeployContract("CryptoPunksMarket", Plain, "CryptoPunksMarket", "market", verify)
                      \o DeployContract("Collection", Plain, "WrappedPunk", "token", verify)
                      \o Save("WPUNKS", "token")
             other(i) == DeployContract("Collection", Plain, "MintableERC721", "token", verify)
                         \o Save(NftContractId[i], "token")
             s == [i \in 1..N |-> IF NftContractId[i] = "WPUNKS" THEN punks ELSE other(i)]
  <1>1. Outline(L, punks, L)
    <2>1. Outline(L, DeployContract("CryptoPunksMarket", Plain, "CryptoPunksMarket", "market", verify), L)
      BY DeployKeeps
    <2>2. Outline(L, DeployContract("Collection", Plain, "WrappedPunk", "token", verify), L \cup {Known("token"), Fresh("token")})
      BY DeployKnows
    <2>3. Outline(L \cup {Known("token"), Fresh("token")}, Save("WPUNKS", "token"), L)
      BY SaveKeeps
    <2> QED
      BY <2>1, <2>2, <2>3, Then
  <1>2. \A i \in 1..N : Outline(L, other(i), L)
    <2>1. Outline(L, DeployContract("Collection", Plain, "MintableERC721", "token", verify), L \cup {Known("token"), Fresh("token")})
      BY DeployKnows
    <2>2. \A i \in 1..N : Outline(L \cup {Known("token"), Fresh("token")}, Save(NftContractId[i], "token"), L)
      BY SaveKeeps
    <2> QED
      BY <2>1, <2>2, Then
  <1> HIDE DEF punks, other
  <1>3. \A i \in 1..N : Outline(L, s[i], L)
    <2> SUFFICES ASSUME NEW i \in 1..N PROVE Outline(L, s[i], L)
      OBVIOUS
    <2>1. s[i] = punks \/ s[i] = other(i)
      OBVIOUS
    <2> QED
      BY <2>1, <1>1, <1>2
  <1>4. DOMAIN s = 1..N /\ s = [i \in 1..N |-> s[i]]
    OBVIOUS
  <1> HIDE DEF s
  <1>5. Outline(L, FlattenSeq(s), L)
    BY <1>3, <1>4, RoundsKeep
  <1>6. Outline(L, deployAllMockNfts(verify), L)
    BY <1>5 DEF deployAllMockNfts, s, punks, other
  <1>7. Outline(L, Throw, L)
    BY ThrowOut DEF Throw
  <1> QED
    BY <1>6, <1>7 DEF dev_deploy_mock_nfts

LEMMA MockAirdropOut ==
    ASSUME NEW L, Lasts(L), Other \in L, NEW verify \in BOOLEAN
    PROVE  Outline(L, dev_deploy_mock_airdrop(verify), L)
  <1>1. Outline(L, Throw, L)
    BY ThrowOut DEF Throw
  <1>2. Outline(L \cup {Known("registry")},
                DeployContract("MockAirdropProject", WithRegistry, "MockAirdropProject", "mock", verify), L)
    BY WithRegistryKeeps
  <1>3. Outline(L, Load("BNFTRegistry", "registry")
                   \o DeployContract("MockAirdropProject", WithRegistry, "MockAirdropProject", "mock", verify), L)
    BY <1>2, LoadRegistryOut, Then
  <1> QED
    BY <1>1, <1>3 DEF dev_deploy_mock_airdrop

LEMMA AddMockNftsOut ==
    ASSUME NEW L, Lasts(L), Other \in L, NEW verify \in BOOLEAN
    PROVE  Outline(L, dev_add_mock_nfts(verify), L)
  <1> DEFINE deploy(i) == DeployContract("Collection", Plain, "MintableERC721", "token", verify)
                          \o Save(NftContractId[i], "token")
             s == [i \in 1..N |-> IF db[NftContractId[i]] # 0 THEN <<>> ELSE deploy(i)]
  <1>1. \A i \in 1..N : Outline(L, deploy(i), L)
    <2>1. Outline(L, DeployContract("Collection", Plain, "MintableERC721", "token", verify), L \cup {Known("token"), Fresh("token")})
      BY DeployKnows
    <2>2. \A i \in 1..N : Outline(L \cup {Known("token"), Fresh("token")}, Save(NftContractId[i], "token"), L)
      BY SaveKeeps
    <2> QED
      BY <2>1, <2>2, Then
  <1>2. Outline(L, <<>>, L)
    BY Nothing
  <1> HIDE DEF deploy
  <1>3. \A i \in 1..N : Outline(L, s[i], L)
    <2> SUFFICES ASSUME NEW i \in 1..N PROVE Outline(L, s[i], L)
      OBVIOUS
    <2>1. s[i] = <<>> \/ s[i] = deploy(i)
      OBVIOUS
    <2> QED
      BY <2>1, <1>1, <1>2
  <1>4. DOMAIN s = 1..N /\ s = [i \in 1..N |-> s[i]]
    OBVIOUS
  <1> HIDE DEF s
  <1>5. Outline(L, FlattenSeq(s), L)
    BY <1>3, <1>4, RoundsKeep
  <1> QED
    BY <1>5 DEF dev_add_mock_nfts, s, deploy

LEMMA VerifyGeneralOut ==
    ASSUME NEW L, Lasts(L)
    PROVE  Outline(L, verify_general, L)
  <1> DEFINE gateway == IF ~IsLive(network) \/ ~IsSet("BNFTRegistry") THEN Throw
                        ELSE Load("BoundPunkGatewayImpl", "gatewayImpl") \o verifyContract("gatewayImpl")
                             \o Load("BoundPunkGateway", "gateway") \o verifyProxy("gateway")
             rest == IF ~IsSet("ProxyAdminWithoutTimelock") THEN Throw
                     ELSE Config("ProxyAdminWithoutTimelock", "adminWTL") \o verifyContract("adminWTL")
                          \o Load("BNFTRegistry", "registry")
                          \o Load("BNFTRegistryImpl", "impl") \o Load("BNFT", "generic")
                          \o verifyContract("impl") \o verifyContract("generic") \o verifyProxy("registry")
                          \o gateway
  <1>0. /\ {"BoundPunkGatewayImpl", "BoundPunkGateway", "BNFTRegistry", "BNFTRegistryImpl", "BNFT"} \subseteq Ids
        /\ {"ProxyAdmin", "ProxyAdminWithoutTimelock"} \subseteq ConfigIds
    BY DEF Ids, eContractid, ConfigIds
  <1>1. Outline(L, Throw, L)
    BY ThrowOut DEF Throw
  <1>2. \A v : Outline(L, verifyContract(v), L) /\ Outline(L, verifyProxy(v), L)
    BY VerifyOut DEF verifyContract, verifyProxy
  <1>3. \A id \in Ids : \A v : Outline(L, Load(id, v), L)
    BY LoadKeeps
  <1>4. \A id \in ConfigIds : IsSet(id) => \A v : Outline(L, Config(id, v), L)
    BY ConfigKeeps
  <1>5. Outline(L, gateway, L)
    <2>1. Outline(L, Load("BoundPunkGatewayImpl", "gatewayImpl") \o verifyContract("gatewayImpl")
                     \o Load("BoundPunkGateway", "gateway") \o verifyProxy("gateway"), L)
      BY <1>0, <1>2, <1>3, Then
    <2> QED
      BY <2>1, <1>1
  <1> HIDE DEF gateway
  <1>6. Outline(L, rest, L)
    <2>1. CASE ~IsSet("ProxyAdminWithoutTimelock")
      BY <2>1, <1>1
    <2>2. CASE IsSet("ProxyAdminWithoutTimelock")
      <3>1. Outline(L, Config("ProxyAdminWithoutTimelock", "adminWTL"), L)
        BY <2>2, <1>0, <1>4
      <3>2. Outline(L, Load("BNFTRegistry", "registry"), L) /\ Outline(L, Load("BNFTRegistryImpl", "impl"), L)
            /\ Outline(L, Load("BNFT", "generic"), L)
        BY <1>0, <1>3
      <3>3. Outline(L, Config("ProxyAdminWithoutTimelock", "adminWTL") \o verifyContract("adminWTL")
                        \o Load("BNFTRegistry", "registry") \o Load("BNFTRegistryImpl", "impl"), L)
        BY <3>1, <3>2, <1>2, Then
      <3>4. Outline(L, Config("ProxyAdminWithoutTimelock", "adminWTL") \o verifyContract("adminWTL")
                        \o Load("BNFTRegistry", "registry")
                        \o Load("BNFTRegistryImpl", "impl") \o Load("BNFT", "generic")
                        \o verifyContract("impl") \o verifyContract("generic") \o verifyProxy("registry")
                        \o gateway, L)
        BY <3>3, <3>2, <1>2, <1>5, Then
      <3> QED
        BY <3>4, <2>2
    <2> QED
      BY <2>1, <2>2
  <1> HIDE DEF rest
  <1>7. CASE ~IsSet("ProxyAdmin")
    BY <1>1, <1>7 DEF verify_general
  <1>8. CASE IsSet("ProxyAdmin")
    <2>1. Outline(L, Config("ProxyAdmin", "admin"), L)
      BY <1>8, <1>0, <1>4
    <2>2. Outline(L, Config("ProxyAdmin", "admin") \o verifyContract("admin") \o rest, L)
      BY <2>1, <1>2, <1>6, Then
    <2> QED
      BY <2>2, <1>8 DEF verify_general, rest, gateway
  <1> QED
    BY <1>7, <1>8

LEMMA VerifyFlashclaimOut ==
    ASSUME NEW L, Lasts(L)
    PROVE  Outline(L, verify_airdrop_flashclaim_v3, L)
  <1> DEFINE rest == IF ~IsSet("ProxyAdminWithoutTimelock") THEN Throw
                     ELSE Load("UserFlashclaimRegistryV3Impl", "impl") \o verifyContract("impl")
                          \o Load("UserFlashclaimRegistryV3", "flash") \o verifyProxy("flash")
  <1>0. {"BNFTRegistry", "UserFlashclaimRegistryV3Impl", "UserFlashclaimRegistryV3"} \subseteq Ids
    BY DEF Ids, eContractid, ConfigIds
  <1>1. Outline(L, Throw, L)
    BY ThrowOut DEF Throw
  <1>2. Outline(L, verifyContract("impl"), L) /\ Outline(L, verifyProxy("flash"), L)
    BY VerifyOut DEF verifyContract, verifyProxy
  <1>3. Outline(L, Load("BNFTRegistry", "registry"), L) /\ Outline(L, Load("UserFlashclaimRegistryV3Impl", "impl"), L)
        /\ Outline(L, Load("UserFlashclaimRegistryV3", "flash"), L)
    BY <1>0, LoadKeeps
  <1>4. Outline(L, rest, L)
    <2>1. Outline(L, Load("UserFlashclaimRegistryV3Impl", "impl") \o verifyContract("impl")
                     \o Load("UserFlashclaimRegistryV3", "flash") \o verifyProxy("flash"), L)
      BY <1>2, <1>3, Then
    <2> QED
      BY <2>1, <1>1
  <1> HIDE DEF rest
  <1>5. Outline(L, Load("BNFTRegistry", "registry") \o rest, L)
    BY <1>3, <1>4, Then
  <1> QED
    BY <1>5 DEF verify_airdrop_flashclaim_v3, rest

LEMMA CheckOut ==
    ASSUME NEW L, NEW verify \in BOOLEAN
    PROVE  Outline(L, checkVerification(verify), L)
  <1>1. Outline(L, Do("exit"), L) /\ Outline(L, <<>>, L)
    BY ThrowOut, Nothing
  <1> QED
    BY <1>1 DEF checkVerification

LEMMA BendDevOut ==
    ASSUME NEW L, Lasts(L), Other \in L, NEW verify \in BOOLEAN
    PROVE  Outline(L, bend_dev(verify), L)
  <1>1. Outline(L, Throw, L)
    BY ThrowOut DEF Throw
  <1>2. Outline(L, dev_deploy_bnft_registry(verify), L)
    <2>1. Outline(L, dev_deploy_bnft_registry(verify), L \cup RegistryFacts)
      BY DevRegistryOut
    <2> QED
      BY <2>1, Weaken
  <1>3. Outline(L, full_deploy_boundpunk_gateway(verify), L)
    <2>1. Outline(L, full_deploy_boundpunk_gateway(verify), L \cup DoneFacts("BoundPunkGateway", "ProxyAdmin"))
      BY GatewayOut
    <2> QED
      BY <2>1, Weaken
  <1>4. /\ Outline(L, checkVerification(verify), L) /\ Outline(L, dev_deploy_mock_nfts(verify), L)
        /\ Outline(L, full_deploy_proxy_admin(verify), L) /\ Outline(L, dev_deploy_bnft_tokens, L)
    BY CheckOut, MockNftsOut, ProxyAdminOut, DevTokensOut
  <1>5. Outline(L, checkVerification(verify) \o dev_deploy_mock_nfts(verify) \o Throw
                   \o full_deploy_proxy_admin(verify), L)
    BY <1>1, <1>4, Then
  <1> QED
    BY <1>2, <1>3, <1>4, <1>5, Then DEF bend_dev

LEMMA BendMainnetOut ==
    ASSUME NEW L, Lasts(L), Other \in L, NEW verify \in BOOLEAN
    PROVE  Outline(L, bend_mainnet(verify), L)
  <1>1. Outline(L, full_deploy_bnft_registry(FALSE), L)
    <2>1. PICK unverified \in BOOLEAN : unverified = FALSE
      OBVIOUS
    <2>2. Outline(L, full_deploy_bnft_registry(unverified), L \cup RegistryFacts)
      BY RegistryOut
    <2>3. Outline(L, full_deploy_bnft_registry(unverified), L)
      BY <2>2, Weaken
    <2> QED
      BY <2>1, <2>3
  <1>2. Outline(L, full_deploy_boundpunk_gateway(verify), L)
    <2>1. Outline(L, full_deploy_boundpunk_gateway(verify), L \cup DoneFacts("BoundPunkGateway", "ProxyAdmin"))
      BY GatewayOut
    <2> QED
      BY <2>1, Weaken
  <1>3. Outline(L, full_deploy_bnft_tokens, L)
    BY TokensOut, Weaken
  <1>4. /\ Outline(L, checkVerification(verify), L) /\ Outline(L, full_deploy_proxy_admin(FALSE), L)
        /\ Outline(L, IF verify THEN verify_general ELSE <<>>, L)
    <2>1. Outline(L, verify_general, L) /\ Outline(L, <<>>, L)
      BY VerifyGeneralOut, Nothing
    <2> QED
      BY <2>1, CheckOut, ProxyAdminOut
  <1>5. Outline(L, checkVerification(verify) \o full_deploy_proxy_admin(FALSE)
                   \o full_deploy_bnft_registry(FALSE), L)
    BY <1>1, <1>4, Then
  <1>6. Outline(L, checkVerification(verify) \o full_deploy_proxy_admin(FALSE)
                   \o full_deploy_bnft_registry(FALSE) \o full_deploy_bnft_tokens
                   \o full_deploy_boundpunk_gateway(verify), L)
    BY <1>2, <1>3, <1>5, Then
  <1> QED
    BY <1>4, <1>6, Then DEF bend_mainnet
-----------------------------------------------------------------------------
(* What each task's script leads to.                                        *)

LEMMA ScriptOut ==
    ASSUME NEW t \in TaskNames, NEW verify \in BOOLEAN, NEW s \in Params(t),
           NEW L, Lasts(L), t # "full:deploy-bnft-tokens" => Other \in L
    PROVE  \E Q : Enough(t, Q) /\ Outline(L, Script(t, verify, s), Q)
  <1>1. CASE t = "full:deploy-proxy-admin"
    <2>1. Script(t, verify, s) = full_deploy_proxy_admin(verify)
      BY <1>1 DEF Script
    <2>2. Outline(L, full_deploy_proxy_admin(verify), L)
      BY <1>1, ProxyAdminOut
    <2>3. Enough(t, L)
      BY <1>1 DEF Enough
    <2> QED
      BY <2>1, <2>2, <2>3
  <1>2. CASE t = "full:deploy-bnft-registry"
    <2>1. Script(t, verify, s) = full_deploy_bnft_registry(verify)
      BY <1>2 DEF Script
    <2>2. Outline(L, full_deploy_bnft_registry(verify), L \cup RegistryFacts)
      BY <1>2, RegistryOut
    <2>3. Enough(t, L \cup RegistryFacts)
      BY <1>2 DEF Enough
    <2> QED
      BY <2>1, <2>2, <2>3
  <1>3. CASE t = "dev:deploy-bnft-registry"
    <2>1. Script(t, verify, s) = dev_deploy_bnft_registry(verify)
      BY <1>3 DEF Script
    <2>2. Outline(L, dev_deploy_bnft_registry(verify), L \cup RegistryFacts)
      BY <1>3, DevRegistryOut
    <2>3. Enough(t, L \cup RegistryFacts)
      BY <1>3 DEF Enough
    <2> QED
      BY <2>1, <2>2, <2>3
  <1>4. CASE t = "full:deploy-bnft-tokens"
    <2>1. Script(t, verify, s) = full_deploy_bnft_tokens
      BY <1>4 DEF Script
    <2>2. PICK Q : TokensGoal(Q) /\ Outline(L, full_deploy_bnft_tokens, Q)
      BY TokensOut
    <2>3. Enough(t, Q)
      BY <1>4, <2>2 DEF Enough
    <2> QED
      BY <2>1, <2>2, <2>3
  <1>5. CASE t = "dev:deploy-bnft-tokens"
    <2>1. Script(t, verify, s) = dev_deploy_bnft_tokens
      BY <1>5 DEF Script
    <2>2. Outline(L, dev_deploy_bnft_tokens, L)
      BY <1>5, DevTokensOut
    <2>3. Enough(t, L)
      BY <1>5 DEF Enough
    <2> QED
      BY <2>1, <2>2, <2>3
  <1>6. CASE t = "create-new-bnft"
    <2>1. Script(t, verify, s) = create_new_bnft(s)
      BY <1>6 DEF Script
    <2>2. Outline(L, create_new_bnft(s), L)
      BY <1>6, CreateNewOut
    <2>3. Enough(t, L)
      BY <1>6 DEF Enough
    <2> QED
      BY <2>1, <2>2, <2>3
  <1>7. CASE t = "full:deploy-boundpunk-gateway"
    <2>1. Script(t, verify, s) = full_deploy_boundpunk_gateway(verify)
      BY <1>7 DEF Script
    <2>2. Outline(L, full_deploy_boundpunk_gateway(verify), L \cup DoneFacts("BoundPunkGateway", "ProxyAdmin"))
      BY <1>7, GatewayOut
    <2>3. Enough(t, L \cup DoneFacts("BoundPunkGateway", "ProxyAdmin"))
      BY <1>7 DEF Enough
    <2> QED
      BY <2>1, <2>2, <2>3
  <1>8. CASE t = "full:deploy-flashclaim-receiver-v2"
    <2>1. Script(t, verify, s) = full_deploy_flashclaim_receiver_v2(verify)
      BY <1>8 DEF Script
    <2>2. Outline(L, full_deploy_flashclaim_receiver_v2(verify), L \cup ReceiverFacts)
      BY <1>8, ReceiverOut
    <2>3. Enough(t, L \cup ReceiverFacts)
      BY <1>8 DEF Enough
    <2> QED
      BY <2>1, <2>2, <2>3
  <1>9. CASE t = "full:deploy-flashclaim-registry-v1"
    <2>1. Script(t, verify, s) = full_deploy_flashclaim_registry_v1(verify)
      BY <1>9 DEF Script
    <2>2. Outline(L, full_deploy_flashclaim_registry_v1(verify), L)
      BY <1>9, FlashclaimV1Out
    <2>3. Enough(t, L)
      BY <1>9 DEF Enough
    <2> QED
      BY <2>1, <2>2, <2>3
  <1>10. CASE t = "full:deploy-flashclaim-registry-v2"
    <2>1. Script(t, verify, s) = full_deploy_flashclaim_registry_v2(verify)
      BY <1>10 DEF Script
    <2>2. Outline(L, full_deploy_flashclaim_registry_v2(verify), L)
      BY <1>10, FlashclaimV2Out
    <2>3. Enough(t, L)
      BY <1>10 DEF Enough
    <2> QED
      BY <2>1, <2>2, <2>3
  <1>11. CASE t = "full:deploy-flashclaim-registry-v3"
    <2>1. Script(t, verify, s) = full_deploy_flashclaim_registry_v3(verify)
      BY <1>11 DEF Script
    <2>2. Outline(L, full_deploy_flashclaim_registry_v3(verify), L \cup DoneFacts("UserFlashclaimRegistryV3", "ProxyAdminWithoutTimelock"))
      BY <1>11, FlashclaimV3Out
    <2>3. Enough(t, L \cup DoneFacts("UserFlashclaimRegistryV3", "ProxyAdminWithoutTimelock"))
      BY <1>11 DEF Enough
    <2> QED
      BY <2>1, <2>2, <2>3
  <1>12. CASE t = "full:deploy-airdrop-distribution"
    <2>1. Script(t, verify, s) = full_deploy_airdrop_distribution(verify)
      BY <1>12 DEF Script
    <2>2. Outline(L, full_deploy_airdrop_distribution(verify), L \cup DoneFacts("AirdropDistribution", "ProxyAdminWithoutTimelock"))
      BY <1>12, DistributionOut
    <2>3. Enough(t, L \cup DoneFacts("AirdropDistribution", "ProxyAdminWithoutTimelock"))
      BY <1>12 DEF Enough
    <2> QED
      BY <2>1, <2>2, <2>3
  <1>13. CASE t = "dev:deploy-new-implementation"
    <2>1. Script(t, verify, s) = dev_deploy_new_implementation(s, verify)
      BY <1>13 DEF Script
    <2>0. s \in {"BNFTRegistry", "BNFT", "AirdropFlashLoanReceiverV3", "UserFlashclaimRegistryV3"}
      BY <1>13 DEF Params
    <2>2. Outline(L, dev_deploy_new_implementation(s, verify), L)
      BY <2>0, <1>13, NewImplementationOut
    <2>3. Enough(t, L)
      BY <1>13 DEF Enough
    <2> QED
      BY <2>1, <2>2, <2>3
  <1>14. CASE t = "dev:deploy-mock-nfts"
    <2>1. Script(t, verify, s) = dev_deploy_mock_nfts(verify)
      BY <1>14 DEF Script
    <2>2. Outline(L, dev_deploy_mock_nfts(verify), L)
      BY <1>14, MockNftsOut
    <2>3. Enough(t, L)
      BY <1>14 DEF Enough
    <2> QED
      BY <2>1, <2>2, <2>3
  <1>15. CASE t = "dev:deploy-mock-airdrop"
    <2>1. Script(t, verify, s) = dev_deploy_mock_airdrop(verify)
      BY <1>15 DEF Script
    <2>2. Outline(L, dev_deploy_mock_airdrop(verify), L)
      BY <1>15, MockAirdropOut
    <2>3. Enough(t, L)
      BY <1>15 DEF Enough
    <2> QED
      BY <2>1, <2>2, <2>3
  <1>16. CASE t = "dev:add-mock-nfts"
    <2>1. Script(t, verify, s) = dev_add_mock_nfts(verify)
      BY <1>16 DEF Script
    <2>2. Outline(L, dev_add_mock_nfts(verify), L)
      BY <1>16, AddMockNftsOut
    <2>3. Enough(t, L)
      BY <1>16 DEF Enough
    <2> QED
      BY <2>1, <2>2, <2>3
  <1>17. CASE t = "verify:general"
    <2>1. Script(t, verify, s) = verify_general
      BY <1>17 DEF Script
    <2>2. Outline(L, verify_general, L)
      BY <1>17, VerifyGeneralOut
    <2>3. Enough(t, L)
      BY <1>17 DEF Enough
    <2> QED
      BY <2>1, <2>2, <2>3
  <1>18. CASE t = "verify:airdrop-flashclaim-v3"
    <2>1. Script(t, verify, s) = verify_airdrop_flashclaim_v3
      BY <1>18 DEF Script
    <2>2. Outline(L, verify_airdrop_flashclaim_v3, L)
      BY <1>18, VerifyFlashclaimOut
    <2>3. Enough(t, L)
      BY <1>18 DEF Enough
    <2> QED
      BY <2>1, <2>2, <2>3
  <1>19. CASE t = "bend:dev"
    <2>1. Script(t, verify, s) = bend_dev(verify)
      BY <1>19 DEF Script
    <2>2. Outline(L, bend_dev(verify), L)
      BY <1>19, BendDevOut
    <2>3. Enough(t, L)
      BY <1>19 DEF Enough
    <2> QED
      BY <2>1, <2>2, <2>3
  <1>20. CASE t = "bend:mainnet"
    <2>1. Script(t, verify, s) = bend_mainnet(verify)
      BY <1>20 DEF Script
    <2>2. Outline(L, bend_mainnet(verify), L)
      BY <1>20, BendMainnetOut
    <2>3. Enough(t, L)
      BY <1>20 DEF Enough
    <2> QED
      BY <2>1, <2>2, <2>3
  <1> QED
    BY <1>1, <1>2, <1>3, <1>4, <1>5, <1>6, <1>7, <1>8, <1>9, <1>10,
       <1>11, <1>12, <1>13, <1>14, <1>15, <1>16, <1>17, <1>18, <1>19, <1>20 DEF TaskNames, Migrations
-----------------------------------------------------------------------------
(* How facts survive.                                                       *)

\* A call is sent by the task itself, which then waits for it to be the last one mined;
\* what it sends is no upgrade but one to impl.
FlightsGoOn ==
    /\ OwnOnly => OwnOnly'
    /\ awaiting => awaiting' \/ flying' = <<>>
    /\ \A i \in 1..Len(flying') :
          \/ \E j \in 1..Len(flying) : flying'[i] = flying[j]
          \/ awaiting' /\ (flying'[i].fn = "upgrade" => flying'[i].to = loc["impl"])

\* What every step of a running task, and every step of others, leaves as it is.
Evolves ==
    /\ UNCHANGED <<network, config, task>>
    /\ mined <= mined' /\ Len(chain) <= Len(chain')
    /\ (disturbed => disturbed') /\ (late => late')
    /\ \A a \in 1..Len(chain) : /\ chain'[a].kind = chain[a].kind
                                /\ chain'[a].logic = 0 <=> chain[a].logic = 0
                                /\ chain'[a].admin = chain[a].admin
                                /\ DOMAIN chain[a].bnfts \subseteq DOMAIN chain'[a].bnfts
    /\ FlightsGoOn

\* bNFTs are added only, or set to the generic implementation.
BnftsEvolve ==
    \A a \in 1..Len(chain) : \A x \in DOMAIN chain[a].bnfts :
        disturbed' \/ late' \/ chain'[a].bnfts[x] \in {chain[a].bnfts[x], chain[a].arg}

Lengths == Len(chain) \in Nat /\ Len(chain)' \in Nat /\ mined \in Nat /\ mined' \in Nat

LEMMA Survives ==
    ASSUME Lengths, Evolves, NEW f, Holds(f),
           f[1] \notin {"set", "unset", "other"} =>
               \A x \in DOMAIN loc : Mentions(f, x) => x \in DOMAIN loc' /\ loc'[x] = loc[x],
           f[1] = "rec" => db'[f[2]] = db[f[2]],
           f[1] = "logic" => \A a \in 1..Len(chain) : chain'[a].logic = chain[a].logic,
           f[1] = "arg" => \A a \in 1..Len(chain) : chain'[a].arg = chain[a].arg,
           f[1] \in {"served", "read"} => late' \/ \A a \in 1..Len(chain) : chain'[a].arg = chain[a].arg,
           f[1] = "served" => BnftsEvolve,
           f[1] = "newest" => \A p \in 1..Len(chain') : chain'[p].logic <= loc["impl"],
           f[1] = "seen" => \/ disturbed' \/ late'
                            \/ \A a \in 1..Len(chain) : DOMAIN chain'[a].bnfts = DOMAIN chain[a].bnfts
    PROVE  Holds(f)'
  <1>1. ASSUME NEW v, Names(v), Mentions(f, v), f[1] \notin {"set", "unset", "other"}
        PROVE  Names(v)' /\ loc'[v] = loc[v]
    BY <1>1 DEF Names, Lengths, Evolves
  <1>2. ASSUME NEW v, v \in DOMAIN loc, f[3] = v, f[1] \notin {"set", "unset", "other"}
        PROVE  v \in DOMAIN loc' /\ loc'[v] = loc[v]
    BY <1>2 DEF Mentions
  <1>3. CASE f[1] \in {"known", "mined", "impl", "proxy", "logic", "admin", "arg"}
    <2>1. Names(f[2]) /\ Mentions(f, f[2])
      BY <1>3 DEF Holds, Mentions
    <2>2. Names(f[2])' /\ loc'[f[2]] = loc[f[2]] /\ loc[f[2]] \in 1..Len(chain)
      BY <1>1, <1>3, <2>1 DEF Names
    <2>3. f[1] = "mined" => loc'[f[2]] <= mined'
      BY <2>2 DEF Holds, Lengths, Evolves
    <2>4. f[1] = "impl" => chain'[loc'[f[2]]].kind = f[3] /\ chain'[loc'[f[2]]].logic = 0
      BY <2>2 DEF Holds, Evolves
    <2>5. f[1] = "proxy" => chain'[loc'[f[2]]].kind = f[3] /\ chain'[loc'[f[2]]].logic # 0
      BY <2>2 DEF Holds, Evolves
    <2>6. f[1] = "logic" => Same(f[3], chain[loc[f[2]]].logic)'
      BY <2>2, <1>2 DEF Holds, Same
    <2>7. f[1] = "admin" => Same(f[3], chain[loc[f[2]]].admin)'
      BY <2>2, <1>2 DEF Holds, Same, Evolves
    <2>8. f[1] = "arg" => Same(f[3], chain[loc[f[2]]].arg)'
      BY <2>2, <1>2 DEF Holds, Same
    <2>9. f[1] \in {"logic", "arg"} => OwnOnly'
      BY DEF Holds, Evolves, FlightsGoOn
    <2> QED
      BY <1>3, <2>2, <2>3, <2>4, <2>5, <2>6, <2>7, <2>8, <2>9 DEF Holds
  <1>4. CASE f[1] \in {"rec", "conf", "set", "unset", "other"}
    BY <1>2, <1>4 DEF Holds, Same, IsSet, Evolves
  <1>5. CASE f[1] = "served"
    <2>1. Names(f[3]) /\ Names(f[3])' /\ loc'[f[3]] = loc[f[3]] /\ loc[f[3]] \in 1..Len(chain)
      BY <1>1, <1>5 DEF Holds, Mentions, Names
    <2>2. NftsAssets(f[2])' = NftsAssets(f[2])
      BY DEF Evolves, NftsAssets, IsLive
    <2> DEFINE r == loc[f[3]]
               x == NftsAssets(f[2])
    <2>3. x \in DOMAIN chain[r].bnfts /\ (disturbed \/ late \/ (OwnOnly /\ chain[r].bnfts[x] = chain[r].arg))
      BY <1>5 DEF Holds, BoundTo, Bound
    <2>4. x \in DOMAIN chain'[r].bnfts /\ (disturbed' \/ late' \/ (OwnOnly' /\ chain'[r].bnfts[x] = chain'[r].arg))
      BY <2>1, <2>3, <1>5 DEF BnftsEvolve, Evolves, FlightsGoOn
    <2>5. /\ BoundTo(f[2], f[3])'
          /\ disturbed' \/ late' \/ (OwnOnly' /\ chain'[loc'[f[3]]].bnfts[NftsAssets(f[2])'] = chain'[loc'[f[3]]].arg)
      BY <2>1, <2>2, <2>4 DEF BoundTo, Bound
    <2> QED
      BY <2>1, <2>5, <1>5 DEF Holds
  <1>6. CASE f[1] = "read"
    <2>1. Names(f[2]) /\ Mentions(f, f[2]) /\ f[3] \in DOMAIN loc
      BY <1>6 DEF Holds, Mentions
    <2>2. /\ Names(f[2])' /\ loc'[f[2]] = loc[f[2]] /\ loc[f[2]] \in 1..Len(chain)
          /\ f[3] \in DOMAIN loc' /\ loc'[f[3]] = loc[f[3]]
      BY <1>1, <1>2, <1>6, <2>1 DEF Names
    <2>3. late' \/ Same(f[3], chain[loc[f[2]]].arg)'
      BY <2>1, <2>2, <1>6 DEF Holds, Same, Evolves
    <2>4. \A a, k : ImplIn(chain, a, k) => ImplIn(chain', a, k)
      BY DEF ImplIn, Evolves, Lengths
    <2>5. chain'[loc'[f[2]]].kind = "BNFTRegistry" /\ chain'[loc'[f[2]]].logic # 0 => ImplIn(chain', loc'[f[3]], "BNFT")
      BY <2>2, <2>4, <1>6 DEF Holds, Evolves
    <2> QED
      BY <2>2, <2>3, <2>5, <1>6 DEF Holds
  <1>7. CASE f[1] = "seen"
    <2>1. /\ Names(f[3]) /\ "bound" \in DOMAIN loc /\ SeenBound \in BOOLEAN
          /\ SeenBound => BoundTo(f[2], f[3])
          /\ disturbed \/ late \/ (BoundTo(f[2], f[3]) => SeenBound)
      BY <1>7 DEF Holds
    <2>2. /\ Names(f[3])' /\ loc'[f[3]] = loc[f[3]] /\ loc[f[3]] \in 1..Len(chain)
          /\ "bound" \in DOMAIN loc' /\ loc'["bound"] = loc["bound"]
      BY <1>1, <2>1, <1>7 DEF Mentions, Names
    <2>3. SeenBound' = SeenBound /\ NftsAssets(f[2])' = NftsAssets(f[2])
      BY <2>2 DEF SeenBound, Evolves, NftsAssets, IsLive
    <2>4. BoundTo(f[2], f[3]) => BoundTo(f[2], f[3])'
      BY <2>2, <2>3 DEF BoundTo, Bound, Evolves
    <2>5. disturbed' \/ late' \/ (BoundTo(f[2], f[3])' => BoundTo(f[2], f[3]))
      BY <2>2, <2>3, <1>7 DEF BoundTo, Bound
    <2>6. disturbed' \/ late' \/ (BoundTo(f[2], f[3])' => SeenBound')
      BY <2>1, <2>3, <2>5 DEF Evolves
    <2> QED
      BY <2>1, <2>2, <2>3, <2>4, <2>6, <1>7 DEF Holds
  <1>8. CASE f[1] = "newest"
    <2>1. /\ Names("impl") /\ Mentions(f, "impl")
          /\ \A i \in 1..Len(flying) : flying[i].fn = "upgrade" => flying[i].to <= loc["impl"]
      BY <1>8 DEF Holds, Mentions
    <2>2. Names("impl")' /\ loc'["impl"] = loc["impl"] /\ loc["impl"] \in Nat
      BY <1>1, <1>8, <2>1 DEF Names, Lengths
    <2>3. \A i \in 1..Len(flying') : flying'[i].fn = "upgrade" => flying'[i].to <= loc'["impl"]
      BY <2>1, <2>2 DEF Evolves, FlightsGoOn
    <2>4. \A p \in 1..Len(chain') : chain'[p].logic <= loc'["impl"]
      BY <1>8, <2>2
    <2> QED
      BY <2>2, <2>3, <2>4, <1>8 DEF Holds
  <1>9. CASE f[1] = "fresh"
    <2>1. Names(f[2]) /\ Mentions(f, f[2])
      BY <1>9 DEF Holds, Mentions
    <2>2. Names(f[2])' /\ loc'[f[2]] = loc[f[2]]
      BY <1>1, <1>9, <2>1
    <2>3. awaiting' \/ \A i \in 1..Len(flying') : flying'[i].after < loc'[f[2]]
      <3>1. CASE awaiting'
        BY <3>1
      <3>2. CASE ~awaiting' /\ awaiting
        <4>1. flying' = <<>>
          BY <3>2 DEF Evolves, FlightsGoOn
        <4>2. Len(<<>>) = 0
          OBVIOUS
        <4>3. 1..Len(flying') = {}
          BY <4>1, <4>2
        <4> QED
          BY <4>3
      <3>3. CASE ~awaiting' /\ ~awaiting
        <4>1. \A i \in 1..Len(flying) : flying[i].after < loc[f[2]]
          BY <3>3, <1>9 DEF Holds
        <4>2. \A i \in 1..Len(flying') : \E j \in 1..Len(flying) : flying'[i] = flying[j]
          BY <3>3 DEF Evolves, FlightsGoOn
        <4> QED
          BY <4>1, <4>2, <2>2
      <3> QED
        BY <3>1, <3>2, <3>3
    <2> QED
      BY <2>2, <2>3, <1>9 DEF Holds
  <1>10. CASE f[1] = "alone"
    BY <1>10 DEF Holds, Evolves, FlightsGoOn
  <1>11. CASE f[1] \notin {"known", "mined", "impl", "proxy", "logic", "admin", "arg", "newest", "alone", "fresh", "read",
                           "rec", "conf", "set", "unset", "other", "seen", "served"}
    BY <1>11 DEF Holds
  <1> QED
    BY <1>3, <1>4, <1>5, <1>6, <1>7, <1>8, <1>9, <1>10, <1>11
-----------------------------------------------------------------------------
(* The chain.                                                               *)

\* What is an implementation stays one.
Grows(ch, m, ch2, m2) ==
    /\ Len(ch) <= Len(ch2) /\ m <= m2
    /\ \A a \in 1..Len(ch) : ch2[a].kind = ch[a].kind /\ (ch2[a].logic = 0 <=> ch[a].logic = 0)

LEMMA LedgerTypes ==
    ASSUME Ledger
    PROVE  /\ Len(chain) \in Nat /\ mined \in Nat /\ mined <= Len(chain)
           /\ \A a \in 1..Len(chain) : /\ chain[a].logic \in Nat /\ chain[a].admin \in Nat /\ chain[a].arg \in Nat
                                       /\ chain[a].bnfts \in Books /\ chain[a].ours \in BOOLEAN
                                       /\ chain[a].logic <= Len(chain)
  <1>1. PICK S : chain \in Seq(Contracts(S))
    BY DEF Ledger
  <1>2. \A a \in 1..Len(chain) : chain[a] \in Contracts(S)
    BY <1>1
  <1> QED
    BY <1>1, <1>2 DEF Ledger, Contracts, GoodContract

LEMMA GoodStays ==
    ASSUME NEW ch, NEW m \in Nat, NEW ch2, NEW m2 \in Nat, Len(ch) \in Nat, Len(ch2) \in Nat,
           NEW c, NEW r \in Nat, c.arg \in Nat, c.logic \in Nat, c.bnfts \in Books,
           Grows(ch, m, ch2, m2), GoodContract(ch, m, c, r)
    PROVE  GoodContract(ch2, m2, c, r)
  <1>1. c.logic <= Len(ch2)
    BY DEF GoodContract, Grows
  <1>2. \A a, k : ImplIn(ch, a, k) => ImplIn(ch2, a, k)
    BY DEF ImplIn, Grows
  <1>3. \A x \in DOMAIN c.bnfts : c.bnfts[x] \in Nat
    BY DEF Books
  <1>4. ASSUME c.kind = "BNFTRegistry", c.logic # 0
        PROVE  /\ ImplIn(ch2, c.arg, "BNFT") /\ (c.arg <= m2 \/ c.arg < r)
               /\ \A x \in DOMAIN c.bnfts : ImplIn(ch2, c.bnfts[x], "BNFT") /\ c.bnfts[x] <= m2
    <2>1. ImplIn(ch, c.arg, "BNFT") /\ (c.arg <= m \/ c.arg < r)
      BY <1>4 DEF GoodContract
    <2>2. \A x \in DOMAIN c.bnfts : ImplIn(ch, c.bnfts[x], "BNFT") /\ c.bnfts[x] <= m
      BY <1>4 DEF GoodContract
    <2>3. m <= m2
      BY DEF Grows
    <2> QED
      BY <2>1, <2>2, <2>3, <1>2, <1>3
  <1> QED
    BY <1>1, <1>4 DEF GoodContract

\* One contract is exchanged for another of its kind.
LEMMA Replaced ==
    ASSUME Ledger, mined' = mined, NEW p \in 1..Len(chain), NEW d, chain' = [chain EXCEPT ![p] = d],
           d.kind = chain[p].kind, d.logic = 0 <=> chain[p].logic = 0,
           \A S : chain[p] \in Contracts(S) => d \in Contracts(S),
           GoodContract(chain, mined, d, p)
    PROVE  /\ Ledger' /\ Len(chain)' = Len(chain) /\ chain'[p] = d
           /\ \A a \in 1..Len(chain) : a # p => chain'[a] = chain[a]
           /\ Grows(chain, mined, chain', mined')
  <1>1. PICK S : chain \in Seq(Contracts(S))
    BY DEF Ledger
  <1>2. chain[p] \in Contracts(S) /\ d \in Contracts(S)
    BY <1>1
  <1>3. /\ chain' \in Seq(Contracts(S)) /\ Len(chain') = Len(chain) /\ chain'[p] = d
        /\ \A a \in 1..Len(chain) : a # p => chain'[a] = chain[a]
    BY <1>1, <1>2
  <1>4. Grows(chain, mined, chain', mined')
    BY <1>3, LedgerTypes DEF Grows
  <1>5. \A a \in 1..Len(chain') : GoodContract(chain', mined', chain'[a], a)
    <2> SUFFICES ASSUME NEW a \in 1..Len(chain') PROVE GoodContract(chain', mined', chain'[a], a)
      OBVIOUS
    <2>1. chain'[a] \in Contracts(S)
      BY <1>3
    <2>2. chain'[a].arg \in Nat /\ chain'[a].logic \in Nat /\ chain'[a].bnfts \in Books
      BY <2>1 DEF Contracts
    <2>3. GoodContract(chain, mined, chain'[a], a)
      BY <1>3 DEF Ledger
    <2>4. mined \in Nat /\ mined' \in Nat /\ Len(chain) \in Nat /\ Len(chain') \in Nat /\ a \in Nat
      BY <1>3, LedgerTypes
    <2> QED
      BY <2>2, <2>3, <2>4, <1>4, GoodStays
  <1>6. Ledger'
    BY <1>3, <1>5 DEF Ledger
  <1> QED
    BY <1>3, <1>4, <1>6

\* A contract is added.
LEMMA Appended ==
    ASSUME Ledger, mined' = mined, NEW S, NEW c \in Contracts(S), chain' = Append(chain, c),
           GoodContract(chain, mined, c, Len(chain) + 1)
    PROVE  /\ Ledger' /\ Len(chain)' = Len(chain) + 1 /\ chain'[Len(chain) + 1] = c
           /\ \A a \in 1..Len(chain) : chain'[a] = chain[a]
           /\ Grows(chain, mined, chain', mined')
  <1>1. PICK T : chain \in Seq(Contracts(T))
    BY DEF Ledger
  <1>2. chain \in Seq(Contracts(S \cup T)) /\ c \in Contracts(S \cup T)
    <2>1. Contracts(T) \subseteq Contracts(S \cup T) /\ c \in Contracts(S \cup T)
      BY DEF Contracts
    <2> QED
      BY <2>1, <1>1, SeqMonotonic
  <1>3. /\ chain' \in Seq(Contracts(S \cup T)) /\ Len(chain') = Len(chain) + 1 /\ chain'[Len(chain) + 1] = c
        /\ \A a \in 1..Len(chain) : chain'[a] = chain[a]
    BY <1>2
  <1>4. Grows(chain, mined, chain', mined')
    BY <1>3, LedgerTypes DEF Grows
  <1>5. \A a \in 1..Len(chain') : GoodContract(chain', mined', chain'[a], a)
    <2> SUFFICES ASSUME NEW a \in 1..Len(chain') PROVE GoodContract(chain', mined', chain'[a], a)
      OBVIOUS
    <2>1. chain'[a] \in Contracts(S \cup T)
      BY <1>3
    <2>2. chain'[a].arg \in Nat /\ chain'[a].logic \in Nat /\ chain'[a].bnfts \in Books
      BY <2>1 DEF Contracts
    <2>3. GoodContract(chain, mined, chain'[a], a)
      <3>1. a \in 1..Len(chain) \/ a = Len(chain) + 1
        BY <1>3, LedgerTypes
      <3> QED
        BY <3>1, <1>3 DEF Ledger
    <2>4. mined \in Nat /\ mined' \in Nat /\ Len(chain) \in Nat /\ Len(chain') \in Nat /\ a \in Nat
      BY <1>3, LedgerTypes
    <2> QED
      BY <2>2, <2>3, <2>4, <1>4, GoodStays
  <1>6. Ledger'
    <2>1. mined' \in 0..Len(chain')
      BY <1>3, LedgerTypes
    <2> QED
      BY <2>1, <1>3, <1>5 DEF Ledger
  <1> QED
    BY <1>3, <1>4, <1>6
-----------------------------------------------------------------------------
(* The calls in flight.                                                     *)

LEMMA FlightTypes ==
    ASSUME Ledger, Flights
    PROVE  /\ \E S : flying \in Seq(S)
           /\ Len(flying) \in Nat /\ mined \in Nat
           /\ \A i \in 1..Len(flying) : /\ flying[i].after \in Nat
                                        /\ mined <= flying[i].after /\ flying[i].after <= Len(chain)
  <1>1. PICK S : flying \in Seq(S)
    BY DEF Flights
  <1>2. mined \in Nat /\ Len(chain) \in Nat
    BY LedgerTypes
  <1>3. \A i \in 1..Len(flying) : flying[i].after \in 0..Len(chain) /\ mined <= flying[i].after
    BY DEF Flights, CallSound
  <1> QED
    BY <1>1, <1>2, <1>3

\* A call stays sound, an upgrade while its proxy has the logic it had.
LEMMA SoundStays ==
    ASSUME NEW ch, NEW m, NEW ch2, NEW m2, Len(ch) \in Nat, Len(ch2) \in Nat, Grows(ch, m, ch2, m2),
           NEW c, CallSound(ch, c), c.fn = "upgrade" => ch2[c.on].logic = ch[c.on].logic
    PROVE  CallSound(ch2, c)
  <1>1. \A a, k : ImplIn(ch, a, k) => ImplIn(ch2, a, k)
    BY DEF ImplIn, Grows
  <1>2. 1..Len(ch) \subseteq 1..Len(ch2) /\ 0..Len(ch) \subseteq 0..Len(ch2)
    BY DEF Grows
  <1>3. \A a \in 1..Len(ch) : ch2[a].kind = ch[a].kind /\ (ch2[a].logic = 0 <=> ch[a].logic = 0)
    BY DEF Grows
  <1>4. c.after \in 0..Len(ch2)
    BY <1>2 DEF CallSound
  <1>5. CASE c.fn = "upgrade"
    BY <1>1, <1>2, <1>3, <1>4, <1>5 DEF CallSound
  <1>6. CASE c.fn = "upgradeBNFTWithImpl"
    BY <1>1, <1>2, <1>3, <1>4, <1>6 DEF CallSound
  <1>7. CASE c.fn \notin {"upgrade", "upgradeBNFTWithImpl"}
    BY <1>1, <1>2, <1>3, <1>4, <1>7 DEF CallSound
  <1> QED
    BY <1>5, <1>6, <1>7

\* No call is sent or mined.
LEMMA FlightsStay ==
    ASSUME Ledger, Ledger', Flights, Grows(chain, mined, chain', mined'), flying' = flying,
           \A a \in 1..Len(chain) : chain'[a].logic = chain[a].logic,
           \A i \in 1..Len(flying) : mined' <= flying[i].after
    PROVE  Flights'
  <1>1. PICK S : flying \in Seq(S)
    BY DEF Flights
  <1>2. Len(chain) \in Nat /\ Len(chain') \in Nat
    <2>1. PICK T : chain' \in Seq(Contracts(T))
      BY DEF Ledger
    <2> QED
      BY <2>1, LedgerTypes
  <1>3. ASSUME NEW i \in 1..Len(flying)
        PROVE  CallSound(chain', flying[i]) /\ mined' <= flying[i].after /\ (flying[i].fn = "upgrade" => i = 1)
    <2>1. PICK c : c = flying[i]
      OBVIOUS
    <2>2. CallSound(chain, c) /\ (c.fn = "upgrade" => i = 1)
      BY <2>1 DEF Flights
    <2>3. c.fn = "upgrade" => chain'[c.on].logic = chain[c.on].logic
      BY <2>2 DEF CallSound
    <2>4. CallSound(chain', c)
      BY <2>2, <2>3, <1>2, SoundStays
    <2> QED
      BY <2>1, <2>2, <2>4
  <1>4. \E T : flying' \in Seq(T)
    BY <1>1
  <1> QED
    BY <1>3, <1>4 DEF Flights

\* A call is sent.
LEMMA FlightsSent ==
    ASSUME Ledger, Flights, UNCHANGED <<chain, mined>>, NEW c, flying' = Append(flying, c),
           CallSound(chain, c), mined <= c.after, c.fn = "upgrade" => flying = <<>>
    PROVE  /\ Flights' /\ Len(flying') = Len(flying) + 1 /\ flying'[Len(flying')] = c /\ flying' # <<>>
           /\ \A i \in 1..Len(flying) : flying'[i] = flying[i]
  <1>1. PICK S : flying \in Seq(S)
    BY DEF Flights
  <1>2. flying \in Seq(S \cup {c}) /\ c \in S \cup {c}
    BY <1>1, SeqMonotonic
  <1>3. /\ flying' \in Seq(S \cup {c}) /\ Len(flying') = Len(flying) + 1 /\ Len(flying) \in Nat
        /\ flying'[Len(flying) + 1] = c /\ flying' # <<>>
        /\ \A i \in 1..Len(flying) : flying'[i] = flying[i]
    BY <1>2
  <1>4. flying = <<>> => Len(flying) = 0
    OBVIOUS
  <1>5. ASSUME NEW i \in 1..Len(flying')
        PROVE  CallSound(chain, flying'[i]) /\ mined <= flying'[i].after /\ (flying'[i].fn = "upgrade" => i = 1)
    <2>1. i \in 1..Len(flying) \/ i = Len(flying) + 1
      BY <1>3
    <2>2. CASE i \in 1..Len(flying)
      BY <2>2, <1>3 DEF Flights
    <2>3. CASE i = Len(flying) + 1
      BY <2>3, <1>3, <1>4
    <2> QED
      BY <2>1, <2>2, <2>3
  <1>6. \E T : flying' \in Seq(T)
    BY <1>3
  <1>7. Flights'
    BY <1>5, <1>6 DEF Flights
  <1> QED
    BY <1>3, <1>7

\* A call is mined.
LEMMA FlightsMined ==
    ASSUME Ledger, Ledger', Flights, Grows(chain, mined, chain', mined'), mined' = mined,
           flying # <<>>, flying' = Tail(flying)
    PROVE  /\ Flights' /\ Len(flying') = Len(flying) - 1
           /\ \A i \in 1..Len(flying') : flying'[i] = flying[i + 1] /\ i + 1 \in 1..Len(flying)
  <1>1. PICK S : flying \in Seq(S)
    BY DEF Flights
  <1>2. /\ flying' \in Seq(S) /\ Len(flying') = Len(flying) - 1 /\ Len(flying) \in Nat
        /\ \A i \in 1..Len(flying') : flying'[i] = flying[i + 1] /\ i + 1 \in 1..Len(flying) /\ i + 1 # 1
    BY <1>1
  <1>3. Len(chain) \in Nat /\ Len(chain') \in Nat
    <2>1. PICK T : chain' \in Seq(Contracts(T))
      BY DEF Ledger
    <2> QED
      BY <2>1, LedgerTypes
  <1>4. ASSUME NEW i \in 1..Len(flying')
        PROVE  CallSound(chain', flying'[i]) /\ mined' <= flying'[i].after /\ flying'[i].fn # "upgrade"
    <2>0. PICK j \in 1..Len(flying) : flying'[i] = flying[j] /\ j # 1
      BY <1>2
    <2>1. PICK c : c = flying'[i] /\ c = flying[j]
      BY <2>0
    <2>2. CallSound(chain, c) /\ mined <= c.after /\ c.fn # "upgrade"
      BY <2>0, <2>1 DEF Flights
    <2>3. CallSound(chain', c)
      BY <2>2, <1>3, SoundStays
    <2> QED
      BY <2>1, <2>2, <2>3
  <1>5. \E T : flying' \in Seq(T)
    BY <1>2
  <1>6. Flights'
    BY <1>4, <1>5 DEF Flights
  <1> QED
    BY <1>2, <1>6
-----------------------------------------------------------------------------
(* What a script still sends, and what is in its way.                       *)

LEMMA SendsRest ==
    ASSUME NEW S, NEW s \in Seq(S), s # <<>>
    PROVE  /\ Sends(s) \in Nat /\ Sends(Tail(s)) \in Nat
           /\ Sends(s) = Sends(Tail(s)) + (IF s[1].do = "send" THEN 1 ELSE 0)
  <1> DEFINE t == Tail(s)
             A == {i \in DOMAIN s : s[i].do = "send"}
             B == {i \in DOMAIN t : t[i].do = "send"}
             f == [i \in B |-> i + 1]
  <1>1. /\ Len(s) \in Nat \ {0} /\ DOMAIN s = 1..Len(s) /\ t \in Seq(S)
        /\ Len(t) = Len(s) - 1 /\ DOMAIN t = 1..Len(t)
        /\ \A i \in 1..Len(t) : t[i] = s[i + 1]
    OBVIOUS
  <1>2. IsFiniteSet(A) /\ IsFiniteSet(B) /\ Cardinality(A) \in Nat /\ Cardinality(B) \in Nat
    <2>1. A \in SUBSET (1..Len(s)) /\ B \in SUBSET (1..Len(s))
      BY <1>1
    <2>2. IsFiniteSet(1..Len(s))
      BY <1>1, FS_Interval
    <2> QED
      BY <2>1, <2>2, FS_Subset, FS_CardinalityType
  <1>3. f \in Bijection(B, A \ {1})
    <2>1. \A i \in B : i \in Nat /\ i >= 1 /\ i + 1 \in A \ {1}
      BY <1>1
    <2>2. \A j \in A \ {1} : j - 1 \in B /\ (j - 1) + 1 = j
      BY <1>1
    <2>3. f \in [B -> A \ {1}] /\ \A i \in B : f[i] = i + 1
      BY <2>1
    <2> HIDE DEF f, A, B
    <2>4. \A i, j \in B : f[i] = f[j] => i = j
      BY <2>1, <2>3
    <2>5. \A j \in A \ {1} : \E i \in B : f[i] = j
      BY <2>2, <2>3
    <2> QED
      BY <2>3, <2>4, <2>5 DEF Bijection, Injection, Surjection, IsInjective
  <1>4. Cardinality(A \ {1}) = Cardinality(B)
    <2>1. ExistsBijection(B, A \ {1})
      BY <1>3 DEF ExistsBijection
    <2> HIDE DEF A, B
    <2> QED
      BY <2>1, <1>2, FS_Bijection
  <1>5. 1 \in A <=> s[1].do = "send"
    BY <1>1
  <1>6. Cardinality(A \ {1}) = IF 1 \in A THEN Cardinality(A) - 1 ELSE Cardinality(A)
    <2> HIDE DEF A
    <2> QED
      BY <1>2, FS_RemoveElement
  <1>7. Sends(s) = Cardinality(A) /\ Sends(Tail(s)) = Cardinality(B)
    BY DEF Sends
  <1> HIDE DEF A, B
  <1> QED
    BY <1>2, <1>4, <1>5, <1>6, <1>7

\* Nothing but variables and the db has changed.
Still == UNCHANGED <<chain, mined, flying, network, config, task, disturbed, late>> /\ (awaiting' <=> awaiting)

LEMMA StaysPut ==
    ASSUME Ledger, Still, NEW f, Holds(f),
           f[1] \notin {"set", "unset", "other"} =>
               \A x \in DOMAIN loc : Mentions(f, x) => x \in DOMAIN loc' /\ loc'[x] = loc[x],
           f[1] = "rec" => db'[f[2]] = db[f[2]]
    PROVE  Holds(f)'
  <1>1. FlightsGoOn
    BY DEF Still, FlightsGoOn, OwnOnly
  <1>2. Lengths /\ Evolves /\ BnftsEvolve
    BY <1>1, LedgerTypes DEF Still, Lengths, Evolves, BnftsEvolve
  <1>3. f[1] = "newest" => \A p \in 1..Len(chain') : chain'[p].logic <= loc["impl"]
    BY DEF Still, Holds
  <1> QED
    BY <1>2, <1>3, Survives DEF Still

LEMMA StoresStay ==
    ASSUME Stores, Ledger', Grows(chain, mined, chain', mined'), UNCHANGED <<network, key, db, config>>,
           disturbed' \in BOOLEAN, late' \in BOOLEAN, faults' \in 0..MaxFaults
    PROVE  Stores'
  <1>1. Len(chain) \in Nat /\ mined \in Nat /\ mined <= Len(chain)
    BY LedgerTypes DEF Stores
  <1>2. Len(chain') \in Nat /\ mined' \in Nat /\ mined' <= Len(chain')
    <2>1. PICK S : chain' \in Seq(Contracts(S))
      BY DEF Ledger
    <2>2. mined' \in 0..Len(chain')
      BY DEF Ledger
    <2> QED
      BY <2>1, <2>2
  <1>3. Len(chain) <= Len(chain') /\ mined <= mined'
    BY DEF Grows
  <1>4. db' \in [Ids -> 0..Len(chain')] /\ config' \in [ConfigIds -> 0..mined']
    BY <1>1, <1>2, <1>3 DEF Stores
  <1>5. RecordedIsMined'
    <2>1. \A id \in Ids \ EarlyIds : db[id] \in Nat /\ db[id] <= mined
      BY <1>1 DEF Stores, RecordedIsMined
    <2>2. \A id \in Ids \ EarlyIds : db'[id] = db[id]
      OBVIOUS
    <2> QED
      BY <2>1, <2>2, <1>1, <1>2, <1>3 DEF RecordedIsMined
  <1>6. ConfigSound'
    <2> SUFFICES ASSUME NEW id \in ConfigIds \ AdminIds, config'[id] # 0
                 PROVE  chain'[config'[id]].kind = id /\ chain'[config'[id]].logic # 0
      BY DEF ConfigSound, IsSet
    <2>1. config[id] \in 1..Len(chain) /\ config'[id] = config[id]
      BY <1>1 DEF Stores
    <2>2. chain[config[id]].kind = id /\ chain[config[id]].logic # 0
      BY DEF Stores, ConfigSound, IsSet
    <2> QED
      BY <2>1, <2>2 DEF Grows
  <1>7. IsLive(network)' => N <= mined'
    <2>1. N \in Nat /\ (IsLive(network) => N <= mined)
      BY NftContractIdAssumption DEF Stores, N
    <2>2. network' = network
      OBVIOUS
    <2> QED
      BY <2>1, <2>2, <1>1, <1>2, <1>3 DEF IsLive
  <1> QED
    BY <1>4, <1>5, <1>6, <1>7 DEF Stores

\* The running task at its place.
At(P, Q, M) ==
    /\ Inv /\ Running /\ steps # <<>> /\ \E S : steps \in Seq(S)
    /\ \A f \in P : Holds(f)
    /\ Leads(Step, P, M) /\ Outline(M, Tail(steps), Q) /\ Enough(task, Q)

LEMMA Place ==
    ASSUME Inv, Running, steps # <<>>
    PROVE  \E P, Q, M : At(P, Q, M)
  <1>1. PICK P, Q : (\A f \in P : Holds(f)) /\ Outline(P, steps, Q) /\ Enough(task, Q)
    BY DEF Inv, Progress, Running
  <1>2. /\ \E S : steps \in Seq(S)
        /\ \E M : Leads(steps[1], P, M) /\ Outline(M, Tail(steps), Q)
    BY <1>1, First
  <1>3. PICK M : Leads(steps[1], P, M) /\ Outline(M, Tail(steps), Q)
    BY <1>2
  <1> QED
    BY <1>1, <1>2, <1>3 DEF At, Step

\* A step that does not fail leads on.
LEMMA Onward ==
    ASSUME NEW P, NEW Q, NEW M, At(P, Q, M), NEW newLoc, Advance(Tail(steps), newLoc), Stores', Flights',
           room' = IF Step.do = "send" THEN room - 1 ELSE room, Step.do \notin {"throw", "exit"},
           \A f \in Gives(Step) : Holds(f)',
           \A f \in P : ~Killed(f, Step) => Holds(f)'
    PROVE  Inv'
  <1>1. PICK S : steps \in Seq(S)
    BY DEF At
  <1>2. /\ Sends(steps) \in Nat /\ Sends(Tail(steps)) \in Nat
        /\ Sends(steps) = Sends(Tail(steps)) + (IF Step.do = "send" THEN 1 ELSE 0)
    BY <1>1, SendsRest DEF At, Step
  <1>3. Program'
    <2>1. Sends(steps) <= room /\ room \in 0..MaxContracts[network] /\ network' = network
          /\ MaxContracts[network] \in Nat
      BY BoundsAssumption DEF At, Inv, Program, Stores, Advance, env
    <2>2. room' \in 0..MaxContracts[network'] /\ Sends(steps') <= room'
      BY <1>2, <2>1 DEF Advance
    <2>3. status' \in Statuses /\ (Running' <=> steps' # <<>>)
      BY DEF Advance, Running, Statuses
    <2> QED
      BY <2>2, <2>3 DEF Program
  <1>4. Progress'
    <2>1. \A f \in M : Holds(f)'
      BY DEF At, Leads
    <2>2. Outline(M, steps', Q) /\ Enough(task', Q)
      BY DEF At, Advance
    <2> QED
      BY <2>1, <2>2 DEF Progress
  <1>5. RevertedWhy'
    BY DEF RevertedWhy, Advance
  <1>6. Pending'
    BY DEF Pending, Advance
  <1> QED
    BY <1>3, <1>4, <1>5, <1>6 DEF Inv

\* An exception ends the task and touches nothing else.
LEMMA Failing ==
    ASSUME Inv, NEW how \in Statuses \ {"running", "done"}, UNCHANGED <<chain, mined, room>>, Flights', Fail(how),
           how = "reverted" => RevertedWhy'
    PROVE  Inv'
  <1>1. Stores'
    <2>1. Ledger' /\ Grows(chain, mined, chain', mined')
      BY LedgerTypes DEF Inv, Stores, Ledger, Grows
    <2>2. UNCHANGED <<network, key, db, config>> /\ disturbed' = disturbed /\ late' = late /\ faults' = faults
      BY DEF Fail, env
    <2> QED
      BY <2>1, <2>2, StoresStay DEF Inv, Stores
  <1>2. Program'
    BY DEF Inv, Program, Fail, Running, env
  <1>3. Progress'
    BY DEF Progress, Fail
  <1>4. RevertedWhy'
    BY DEF RevertedWhy, Fail
  <1>5. Pending'
    BY DEF Pending, Fail
  <1> QED
    BY <1>1, <1>2, <1>3, <1>4, <1>5 DEF Inv

\* ... nor are calls sent or mined.
LEMMA FailingStill ==
    ASSUME Inv, NEW how \in Statuses \ {"running", "done", "reverted"}, UNCHANGED ledger, Fail(how)
    PROVE  Inv'
  <1>1. UNCHANGED <<chain, mined, room, flying>>
    BY DEF ledger
  <1>2. Flights'
    BY <1>1 DEF Inv, Flights
  <1> QED
    BY <1>1, <1>2, Failing
-----------------------------------------------------------------------------
(* The steps that read.                                                     *)

\* What is bound to a variable disturbs the facts about that variable only.
LEMMA BindKeeps ==
    ASSUME Ledger, Still, db' = db, NEW v, NEW a, loc' = Bind(v, a), NEW f, Holds(f),
           f[1] \in {"set", "unset", "other"} \/ ~Mentions(f, v)
    PROVE  Holds(f)'
  <1>1. \A x \in DOMAIN loc : x # v => x \in DOMAIN loc' /\ loc'[x] = loc[x]
    BY DEF Bind
  <1> QED
    BY <1>1, StaysPut

\* The stores of a step that changes none.
LEMMA StoresSame ==
    ASSUME Inv, UNCHANGED <<ledger, env, db, config, disturbed, late, faults>>
    PROVE  Stores' /\ Flights'
  <1>1. Ledger' /\ Grows(chain, mined, chain', mined')
    BY LedgerTypes DEF Inv, Stores, Ledger, Grows, ledger
  <1>2. Flights'
    BY DEF Inv, Flights, ledger
  <1> QED
    BY <1>1, <1>2, StoresStay DEF Inv, Stores, env

LEMMA Reading ==
    ASSUME NEW P, NEW Q, NEW M, At(P, Q, M), UNCHANGED <<ledger, db>>, ~awaiting,
           NEW v, NEW a, Advance(Tail(steps), Bind(v, a)), Binds(Step) = {v},
           Step.do \notin {"send", "throw", "exit"}, Writes(Step) = {},
           \A f \in Gives(Step) : Holds(f)'
    PROVE  Inv'
  <1>1. Stores' /\ Flights'
    BY StoresSame DEF At, Advance
  <1>2. \A f \in P : ~Killed(f, Step) => Holds(f)'
    <2> SUFFICES ASSUME NEW f \in P, ~Killed(f, Step) PROVE Holds(f)'
      OBVIOUS
    <2>1. Holds(f) /\ Ledger
      BY DEF At, Inv, Stores
    <2>2. f[1] \in {"set", "unset", "other"} \/ ~Mentions(f, v)
      BY DEF Killed
    <2>3. Still /\ db' = db /\ loc' = Bind(v, a)
      BY DEF Advance, ledger, env, Still
    <2> QED
      BY <2>1, <2>2, <2>3, BindKeeps
  <1> QED
    BY <1>1, <1>2, Onward DEF ledger

LEMMA LoadInv ==
    ASSUME Inv, LoadStep
    PROVE  Inv'
  <1>0. Running /\ ~awaiting /\ steps # <<>> /\ Step.do = "load"
    BY DEF LoadStep, Next_
  <1>1. PICK P, Q, M : At(P, Q, M)
    BY <1>0, Place
  <1>2. PICK v, id, a : v = Step.var /\ id = Step.id /\ a = db[id]
    OBVIOUS
  <1>3. id \in Ids
    BY <1>0, <1>1, <1>2 DEF At, Leads, Needs
  <1>4. CASE a = 0
    <2>1. Fail("missing") /\ UNCHANGED ledger
      BY <1>2, <1>4 DEF LoadStep
    <2> QED
      BY <2>1, FailingStill DEF Statuses
  <1>5. CASE a # 0
    <2>1. UNCHANGED <<ledger, db>> /\ Advance(Tail(steps), Bind(v, a))
      BY <1>2, <1>5 DEF LoadStep
    <2>2. Binds(Step) = {v} /\ Writes(Step) = {} /\ Gives(Step) = {Known(v), Rec(id, v)}
      BY <1>0, <1>2 DEF Binds, Writes, Gives
    <2>3. v \in DOMAIN loc' /\ loc'[v] = a /\ db'[id] = a /\ chain' = chain
      BY <1>2, <2>1 DEF Advance, Bind, ledger
    <2>4. a \in 1..Len(chain)
      BY <1>2, <1>3, <1>5, LedgerTypes DEF Inv, Stores
    <2>5. Holds(Known(v))' /\ Holds(Rec(id, v))'
      BY <2>3, <2>4, FactParts DEF Holds, Names, Same
    <2>6. \A f \in Gives(Step) : Holds(f)'
      BY <2>2, <2>5
    <2> QED
      BY <1>0, <1>1, <2>1, <2>2, <2>6, Reading
  <1> QED
    BY <1>4, <1>5

LEMMA ConfigInv ==
    ASSUME Inv, ConfigStep
    PROVE  Inv'
  <1>0. Running /\ ~awaiting /\ steps # <<>> /\ Step.do = "config"
    BY DEF ConfigStep, Next_
  <1>1. PICK P, Q, M : At(P, Q, M)
    BY <1>0, Place
  <1>2. PICK v, id, a : v = Step.var /\ id = Step.id /\ a = config[id]
    OBVIOUS
  <1>3. id \in ConfigIds /\ a # 0
    <2>1. id \in ConfigIds /\ Configured(id) \in P
      BY <1>0, <1>1, <1>2 DEF At, Leads, Needs
    <2>2. Holds(Configured(id))
      BY <2>1, <1>1 DEF At
    <2> QED
      BY <1>2, <2>1, <2>2, FactParts DEF Holds, IsSet
  <1>4. UNCHANGED <<ledger, db>> /\ Advance(Tail(steps), Bind(v, a))
    BY <1>2 DEF ConfigStep
  <1>5. Binds(Step) = {v} /\ Writes(Step) = {}
    BY <1>0, <1>2 DEF Binds, Writes
  <1>6. v \in DOMAIN loc' /\ loc'[v] = a /\ config'[id] = a /\ chain' = chain /\ mined' = mined
    BY <1>2, <1>4 DEF Advance, Bind, ledger
  <1>7. a \in 1..Len(chain) /\ a <= mined
    BY <1>2, <1>3, LedgerTypes DEF Inv, Stores
  <1>8. Holds(Known(v))' /\ Holds(Mined(v))' /\ Holds(Conf(id, v))'
    <2>1. Names(v)'
      BY <1>6, <1>7 DEF Names
    <2>2. Holds(Known(v))'
      BY <2>1, FactParts DEF Holds
    <2>3. Holds(Mined(v))'
      BY <2>1, <1>6, <1>7, FactParts DEF Holds
    <2>4. Holds(Conf(id, v))'
      BY <1>3, <1>6, FactParts DEF Holds, Same, IsSet
    <2> QED
      BY <2>2, <2>3, <2>4
  <1>9. ASSUME id \notin AdminIds PROVE Holds(Proxy(v, id))'
    <2>1. chain[a].kind = id /\ chain[a].logic # 0
      BY <1>2, <1>3, <1>9 DEF Inv, Stores, ConfigSound, IsSet
    <2> QED
      BY <1>6, <1>7, <2>1, FactParts DEF Holds, Names
  <1>10. \A f \in Gives(Step) : Holds(f)'
    <2>1. Gives(Step) = {Known(v), Mined(v), Conf(id, v)} \cup (IF id \in AdminIds THEN {} ELSE {Proxy(v, id)})
      BY <1>0, <1>2 DEF Gives
    <2> QED
      BY <2>1, <1>8, <1>9
  <1> QED
    BY <1>0, <1>1, <1>4, <1>5, <1>10, Reading

LEMMA ReadInv ==
    ASSUME Inv, ReadStep
    PROVE  Inv'
  <1>0. Running /\ ~awaiting /\ steps # <<>> /\ Step.do = "bNftGenericImpl"
    BY DEF ReadStep, Next_
  <1>1. PICK P, Q, M : At(P, Q, M)
    BY <1>0, Place
  <1>2. Names("registry")
    <2>1. Holds(Known("registry"))
      BY <1>0, <1>1 DEF At, Leads, Needs
    <2> QED
      BY <2>1, FactParts DEF Holds
  <1>3. PICK a : a = chain[loc["registry"]].arg
    OBVIOUS
  <1>4. UNCHANGED <<ledger, db>> /\ Advance(Tail(steps), Bind("generic", a))
    BY <1>3 DEF ReadStep
  <1>5. Binds(Step) = {"generic"} /\ Writes(Step) = {} /\ Gives(Step) = {Read}
    BY <1>0 DEF Binds, Writes, Gives
  <1>6. /\ "generic" \in DOMAIN loc' /\ loc'["generic"] = a /\ chain' = chain
        /\ "registry" \in DOMAIN loc' /\ loc'["registry"] = loc["registry"]
    BY <1>2, <1>4 DEF Advance, Bind, ledger, Names
  <1>7. Holds(Read)'
    <2>1. chain[loc["registry"]].kind = "BNFTRegistry" /\ chain[loc["registry"]].logic # 0 => ImplIn(chain, a, "BNFT")
      BY <1>2, <1>3 DEF Names, Inv, Stores, Ledger, GoodContract
    <2>2. Names("registry")' /\ Same("generic", chain[loc["registry"]].arg)'
      BY <1>2, <1>3, <1>6 DEF Names, Same
    <2> QED
      BY <2>1, <2>2, <1>6, FactParts DEF Holds
  <1>8. \A f \in Gives(Step) : Holds(f)'
    BY <1>5, <1>7
  <1> QED
    BY <1>0, <1>1, <1>4, <1>5, <1>8, Reading

LEMMA LookInv ==
    ASSUME Inv, getBNFTAddresses
    PROVE  Inv'
  <1>0. Running /\ ~awaiting /\ steps # <<>> /\ Step.do = "getBNFTAddresses"
    BY DEF getBNFTAddresses, Next_
  <1>1. PICK P, Q, M : At(P, Q, M)
    BY <1>0, Place
  <1>2. Names("registry")
    <2>1. Holds(Known("registry"))
      BY <1>0, <1>1 DEF At, Leads, Needs
    <2> QED
      BY <2>1, FactParts DEF Holds
  <1>3. PICK s, x, b : s = Step.asset /\ x = NftsAssets(s) /\ b = Bound(loc["registry"], x)
    OBVIOUS
  <1>4. UNCHANGED <<ledger, db>> /\ Advance(Tail(steps), Bind("bound", b))
    BY <1>3 DEF getBNFTAddresses
  <1>5. Binds(Step) = {"bound"} /\ Writes(Step) = {} /\ Gives(Step) = {Seen(s)}
    BY <1>0, <1>3 DEF Binds, Writes, Gives
  <1>6. /\ "bound" \in DOMAIN loc' /\ loc'["bound"] = b /\ chain' = chain /\ network' = network
        /\ "registry" \in DOMAIN loc' /\ loc'["registry"] = loc["registry"]
    BY <1>2, <1>4 DEF Advance, Bind, ledger, env, Names
  <1>7. NftsAssets(s)' = x
    BY <1>3, <1>6 DEF NftsAssets, IsLive
  <1>8. SeenBound' = b /\ b \in BOOLEAN
    BY <1>3, <1>6 DEF SeenBound, Bound
  <1>9. BoundTo(s, "registry")' <=> b
    BY <1>3, <1>6, <1>7 DEF BoundTo, Bound
  <1>10. Names("registry")'
    BY <1>2, <1>6 DEF Names
  <1>11. Holds(Seen(s))'
    BY <1>6, <1>8, <1>9, <1>10, FactParts DEF Holds
  <1>12. \A f \in Gives(Step) : Holds(f)'
    BY <1>5, <1>11
  <1> QED
    BY <1>0, <1>1, <1>4, <1>5, <1>12, Reading
-----------------------------------------------------------------------------
(* The steps that record, verify and throw.                                 *)

\* A contract is recorded, which is mined unless the id is an early one.
LEMMA Recorded ==
    ASSUME NEW P, NEW Q, NEW M, At(P, Q, M), NEW id, NEW v, NEW a \in 1..Len(chain), Same(v, a),
           id = Step.id, v = Step.var, id \in EarlyIds \/ a <= mined,
           Step.do \in {"insert", "save"}, Step.do = "save" => a <= mined,
           Step.do = "save" => OwnOnly, ~awaiting,
           db' = [db EXCEPT ![id] = a], UNCHANGED ledger, Continue
    PROVE  Inv'
  <1>1. Still /\ UNCHANGED <<chain, mined, flying, network, key, config, task, disturbed, late, faults, loc, room>>
    BY DEF Continue, Advance, ledger, env, Still
  <1>2. Stores'
    <2>1. db' \in [Ids -> 0..Len(chain)]
      <3>1. db \in [Ids -> 0..Len(chain)] /\ Ledger
        BY DEF At, Inv, Stores
      <3>2. a \in 0..Len(chain)
        BY <3>1, LedgerTypes
      <3> QED
        BY <3>1, <3>2
    <2>2. RecordedIsMined'
      <3>1. ASSUME NEW i \in Ids \ EarlyIds PROVE db'[i] <= mined
        BY <3>1 DEF At, Inv, Stores, RecordedIsMined
      <3> QED
        BY <3>1, <1>1 DEF RecordedIsMined
    <2>3. Ledger' /\ ConfigSound'
      BY <1>1 DEF At, Inv, Stores, Ledger, ConfigSound, IsSet
    <2>4. IsLive(network)' => N <= mined'
      BY <1>1 DEF At, Inv, Stores, IsLive
    <2> QED
      BY <1>1, <2>1, <2>2, <2>3, <2>4 DEF At, Inv, Stores
  <1>3. Binds(Step) = {} /\ Writes(Step) = {id}
    BY DEF Binds, Writes
  <1>4. \A f \in P : ~Killed(f, Step) => Holds(f)'
    <2> SUFFICES ASSUME NEW f \in P, ~Killed(f, Step) PROVE Holds(f)'
      OBVIOUS
    <2>1. Holds(f) /\ Ledger
      BY DEF At, Inv, Stores
    <2>2. f[1] = "rec" => db'[f[2]] = db[f[2]]
      <3>1. ASSUME f[1] = "rec" PROVE f[2] # id
        BY <1>3, <3>1 DEF Killed
      <3>2. db \in [Ids -> 0..Len(chain)]
        BY DEF At, Inv, Stores
      <3> QED
        BY <3>1, <3>2
    <2> QED
      BY <2>1, <2>2, <1>1, StaysPut
  <1>5. \A f \in Gives(Step) : Holds(f)'
    <2>1. Holds(Rec(id, v))'
      <3>1. id \in Ids => db'[id] = a
        BY DEF At, Inv, Stores
      <3>2. v \in DOMAIN loc' /\ loc'[v] = a
        BY <1>1 DEF Same
      <3> QED
        BY <3>1, <3>2, FactParts DEF Holds, Same
    <2>2. a <= mined => Holds(Mined(v))'
      <3>1. v \in DOMAIN loc' /\ loc'[v] = a /\ a \in 1..Len(chain') /\ mined' = mined
        BY <1>1 DEF Same
      <3> QED
        BY <3>1, FactParts DEF Holds, Names
    <2>3. Gives(Step) = IF Step.do = "save" THEN {Rec(id, v), Mined(v), Alone} ELSE {Rec(id, v)}
      BY DEF Gives
    <2>4. OwnOnly => Holds(Alone)'
      BY <1>1, FactParts DEF Holds, OwnOnly, Still
    <2> QED
      BY <2>1, <2>2, <2>3, <2>4
  <1>6. Advance(Tail(steps), loc)
    BY DEF Continue
  <1>7. Flights'
    BY <1>1 DEF At, Inv, Flights
  <1> QED
    BY <1>1, <1>2, <1>4, <1>5, <1>6, <1>7, Onward

LEMMA InsertInv ==
    ASSUME Inv, insertContractAddressInDb
    PROVE  Inv'
  <1>0. Running /\ ~awaiting /\ steps # <<>> /\ Step.do = "insert"
    BY DEF insertContractAddressInDb, Next_
  <1>1. PICK P, Q, M : At(P, Q, M)
    BY <1>0, Place
  <1>2. PICK v, id, a : v = Step.var /\ id = Step.id /\ a = loc[v]
    OBVIOUS
  <1>3. Known(v) \in P /\ (id \in EarlyIds \/ Mined(v) \in P)
    BY <1>0, <1>1, <1>2 DEF At, Leads, Needs
  <1>4. Holds(Known(v)) /\ (id \in EarlyIds \/ Holds(Mined(v)))
    BY <1>3, <1>1 DEF At
  <1>5. a \in 1..Len(chain) /\ Same(v, a) /\ (id \in EarlyIds \/ a <= mined)
    BY <1>2, <1>4, FactParts DEF Holds, Names, Same
  <1>6. db' = [db EXCEPT ![id] = a] /\ UNCHANGED ledger /\ Continue
    BY <1>2 DEF insertContractAddressInDb
  <1> QED
    BY <1>0, <1>1, <1>2, <1>5, <1>6, Recorded

LEMMA SaveInv ==
    ASSUME Inv, registerContractInJsonDb
    PROVE  Inv'
  <1>0. Running /\ ~awaiting /\ steps # <<>> /\ Step.do = "save"
    BY DEF registerContractInJsonDb, Next_
  <1>1. PICK P, Q, M : At(P, Q, M)
    BY <1>0, Place
  <1>2. PICK v, id, a : v = Step.var /\ id = Step.id /\ a = loc[v]
    OBVIOUS
  <1>3. {Known(v), Fresh(v)} \subseteq P
    BY <1>0, <1>1, <1>2 DEF At, Leads, Needs
  <1>4. Holds(Known(v)) /\ Holds(Fresh(v))
    BY <1>3, <1>1 DEF At
  <1>5. a \in 1..Len(chain) /\ Same(v, a)
    BY <1>2, <1>4, FactParts DEF Holds, Names, Same
  <1>6. a <= mined /\ db' = [db EXCEPT ![id] = a] /\ UNCHANGED ledger /\ Continue
    BY <1>2 DEF registerContractInJsonDb
  <1>7. OwnOnly
    <2>1. \A i \in 1..Len(flying) : flying[i].after < a
      BY <1>0, <1>2, <1>4, FactParts DEF Holds
    <2>2. /\ \E S : flying \in Seq(S)
          /\ Len(flying) \in Nat /\ mined \in Nat
          /\ \A i \in 1..Len(flying) : flying[i].after \in Nat /\ mined <= flying[i].after
      BY FlightTypes DEF Inv, Stores
    <2>3. ~(1 \in 1..Len(flying))
      <3>1. a \in Nat
        BY <1>5, <2>2, LedgerTypes DEF Inv, Stores
      <3> QED
        BY <2>1, <2>2, <1>6, <3>1
    <2>4. Len(flying) = 0
      BY <2>2, <2>3
    <2>5. flying = <<>>
      BY <2>2, <2>4
    <2> QED
      BY <2>5, <1>0 DEF OwnOnly
  <1> QED
    BY <1>0, <1>1, <1>2, <1>5, <1>6, <1>7, Recorded

LEMMA VerifyInv ==
    ASSUME Inv, VerifyStep
    PROVE  Inv'
  <1>0. Running /\ ~awaiting /\ steps # <<>> /\ Step.do = "verify" /\ UNCHANGED <<ledger, db>>
    BY DEF VerifyStep, Next_
  <1>1. PICK P, Q, M : At(P, Q, M)
    BY <1>0, Place
  <1>2. Binds(Step) = {} /\ Writes(Step) = {} /\ Gives(Step) = {}
    BY <1>0 DEF Binds, Writes, Gives
  <1>3. ASSUME UNCHANGED <<env, config, task, disturbed, late, faults, loc>>, ~awaiting'
        PROVE  Stores' /\ Flights' /\ \A f \in P : Holds(f)'
    <2>1. Still /\ UNCHANGED <<loc, db>>
      BY <1>0, <1>3 DEF ledger, env, Still
    <2>2. ASSUME NEW f \in P PROVE Holds(f)'
      <3>1. Holds(f) /\ Ledger
        BY <1>1 DEF At, Inv, Stores
      <3> QED
        BY <2>1, <3>1, StaysPut
    <2> QED
      BY <1>0, <1>3, <2>2, StoresSame
  <1>4. CASE Continue
    <2>1. /\ Advance(Tail(steps), loc) /\ UNCHANGED <<env, config, task, disturbed, late, faults, loc>>
          /\ room' = room /\ ~awaiting'
      BY <1>0, <1>4 DEF Continue, Advance, ledger
    <2> QED
      BY <1>0, <1>1, <1>2, <1>3, <2>1, Onward
  <1>5. ASSUME Advance(Attempt(Step.var, FewerTimes(Step.times), Step.proxy) \o Tail(steps), loc)
        PROVE  Inv'
    <2>1. PICK v, times, proxy, S : v = Step.var /\ times = FewerTimes(Step.times) /\ proxy = Step.proxy /\ steps \in Seq(S)
      BY <1>1 DEF At
    <2> DEFINE first == Attempt(v, times, proxy)
               e == [do |-> "verify", var |-> v, times |-> times, proxy |-> proxy]
    <2>2. /\ steps' = first \o Tail(steps) /\ loc' = loc
          /\ status' = IF steps' = <<>> THEN "done" ELSE "running"
          /\ UNCHANGED <<env, config, task, disturbed, late, faults, loc>> /\ room' = room /\ awaiting' = FALSE
      BY <1>0, <1>5, <2>1 DEF Advance, ledger
    <2>3. first = <<e>> /\ e.do = "verify"
      BY DEF Attempt
    <2> HIDE DEF e, first
    <2>4. /\ steps' \in Seq(S \cup {e}) /\ steps' # <<>> /\ Tail(steps') = Tail(steps)
          /\ steps'[1] = e
      <3>1. Tail(steps) \in Seq(S \cup {e})
        <4>1. Tail(steps) \in Seq(S)
          BY <1>0, <2>1
        <4> QED
          BY <4>1, SeqMonotonic
      <3>2. <<e>> \in Seq(S \cup {e}) /\ Len(<<e>>) = 1 /\ <<e>>[1] = e
        OBVIOUS
      <3>3. /\ <<e>> \o Tail(steps) \in Seq(S \cup {e}) /\ <<e>> \o Tail(steps) # <<>>
            /\ (<<e>> \o Tail(steps))[1] = e /\ Tail(<<e>> \o Tail(steps)) = Tail(steps)
        BY <3>1, <3>2
      <3> QED
        BY <3>3, <2>2, <2>3
    <2>5. Sends(steps') = Sends(steps)
      <3>1. Sends(steps') \in Nat /\ Sends(steps') = Sends(Tail(steps')) + (IF steps'[1].do = "send" THEN 1 ELSE 0)
        BY <2>4, SendsRest
      <3>2. Sends(steps) \in Nat /\ Sends(steps) = Sends(Tail(steps)) + (IF steps[1].do = "send" THEN 1 ELSE 0)
        BY <2>1, <1>0, SendsRest
      <3>3. Sends(Tail(steps)) \in Nat
        BY <2>1, <1>0, SendsRest
      <3> QED
        BY <3>1, <3>2, <3>3, <2>3, <2>4, <1>0 DEF Step
    <2>6. Program'
      <3>1. status' = "running" /\ status' \in Statuses
        BY <2>2, <2>4 DEF Statuses
      <3>2. room' \in 0..MaxContracts[network'] /\ Sends(steps') <= room'
        BY <2>2, <2>5, <1>0 DEF Inv, Program, env
      <3> QED
        BY <3>1, <3>2, <2>4 DEF Program, Running
    <2>7. Progress'
      <3>1. M \subseteq P
        BY <1>0, <1>1, <1>2 DEF At, Leads
      <3>2. Outline(P, first, M)
        BY <3>1, VerifyOut, Weaken DEF first
      <3>3. Outline(P, steps', Q)
        BY <3>2, <2>2, <1>1, Then DEF At
      <3>4. Enough(task', Q)
        BY <2>2, <1>1 DEF At
      <3> QED
        BY <3>3, <3>4, <1>3, <2>2 DEF Progress
    <2>8. RevertedWhy'
      BY <2>2 DEF RevertedWhy
    <2>9. Pending'
      BY <2>2 DEF Pending
    <2> QED
      BY <2>2, <2>6, <2>7, <2>8, <2>9, <1>3 DEF Inv
  <1> QED
    BY <1>4, <1>5 DEF VerifyStep

LEMMA ImpossibleInv ==
    ASSUME Inv, VerifyImpossible
    PROVE  Inv'
  <1>1. Fail("thrown") /\ UNCHANGED ledger
    BY DEF VerifyImpossible
  <1> QED
    BY <1>1, FailingStill DEF Statuses

LEMMA ThrowInv ==
    ASSUME Inv, ThrowStep
    PROVE  Inv'
  <1>1. PICK how : how = Step.do
    OBVIOUS
  <1>2. Fail(how) /\ how \in {"throw", "exit"} /\ UNCHANGED ledger
    BY <1>1 DEF ThrowStep
  <1> QED
    BY <1>2, FailingStill DEF Statuses
-----------------------------------------------------------------------------
(* Deployments.                                                             *)

\* A deployment leaves the facts that do not mention its variable.
LEMMA AppendKeeps ==
    ASSUME Ledger, UNCHANGED <<mined, flying, network, config, task, disturbed, late, db>>, awaiting' <=> awaiting,
           Len(chain)' = Len(chain) + 1, \A a \in 1..Len(chain) : chain'[a] = chain[a],
           NEW v, NEW n, loc' = Bind(v, n), NEW f, Holds(f),
           f[1] \in {"set", "unset", "other"} \/ ~Mentions(f, v),
           chain'[Len(chain) + 1].logic = 0 \/ Same("impl", chain'[Len(chain) + 1].logic)
    PROVE  Holds(f)'
  <1>0. Len(chain) \in Nat /\ mined \in Nat /\ \A a \in 1..Len(chain) : chain[a].logic \in Nat
    BY LedgerTypes
  <1>1. \A x \in DOMAIN loc : x # v => x \in DOMAIN loc' /\ loc'[x] = loc[x]
    BY DEF Bind
  <1>2. FlightsGoOn
    BY DEF FlightsGoOn, OwnOnly
  <1>3. Lengths /\ Evolves /\ BnftsEvolve
    BY <1>0, <1>2 DEF Lengths, Evolves, BnftsEvolve
  <1>4. ASSUME f[1] = "newest", NEW p \in 1..Len(chain')
        PROVE  chain'[p].logic <= loc["impl"]
    <2>1. Names("impl") /\ \A q \in 1..Len(chain) : chain[q].logic <= loc["impl"]
      BY <1>4 DEF Holds
    <2>2. p \in 1..Len(chain) \/ p = Len(chain) + 1
      BY <1>0
    <2>3. CASE p \in 1..Len(chain)
      BY <2>3, <2>1
    <2>4. CASE p = Len(chain) + 1
      BY <2>4, <2>1, <1>0 DEF Names, Same
    <2> QED
      BY <2>2, <2>3, <2>4
  <1> QED
    BY <1>1, <1>3, <1>4, Survives

LEMMA SendInv ==
    ASSUME Inv, SendDeployment
    PROVE  Inv'
  <1>0. Running /\ ~awaiting /\ steps # <<>> /\ Step.do = "send"
    BY DEF SendDeployment, Next_
  <1>1. PICK P, Q, M : At(P, Q, M)
    BY <1>0, Place
  <1>2. PICK v, kind, lg, ad, ar : /\ v = Step.var /\ kind = Step.kind
                                   /\ lg = Step.args.logic /\ ad = Step.args.admin /\ ar = Step.args.arg
    OBVIOUS
  <1>3. PICK logic, admin, arg : logic = Arg(lg) /\ admin = Arg(ad) /\ arg = Arg(ar)
    OBVIOUS
  <1> DEFINE c == NewContract(kind, logic, admin, arg)
             n == Len(chain) + 1
  <1>4. \/ Fail("reverted") /\ UNCHANGED ledger
        \/ /\ chain' = Append(chain, c) /\ room' = room - 1 /\ UNCHANGED <<mined, flying, db>>
           /\ Advance(Tail(steps), Bind(v, n))
    BY <1>2, <1>3 DEF SendDeployment
  <1>5. SendNeeds(Step, P)
    BY <1>0, <1>1 DEF At, Leads, Needs
  <1>6. CASE Fail("reverted") /\ UNCHANGED ledger
    <2>1. Holds(Other)
      BY <1>1, <1>5 DEF At, SendNeeds
    <2>2. RevertedWhy'
      BY <2>1, <1>6, FactParts DEF Holds, RevertedWhy, Fail
    <2>3. UNCHANGED <<chain, mined, room>> /\ Flights'
      BY <1>6 DEF Inv, Flights, ledger
    <2> QED
      BY <2>2, <2>3, <1>6, Failing DEF Statuses
  <1>7. ASSUME chain' = Append(chain, c), room' = room - 1, UNCHANGED <<mined, flying, db>>,
               Advance(Tail(steps), Bind(v, n))
        PROVE  Inv'
    <2>0. Len(chain) \in Nat /\ Ledger
      BY LedgerTypes DEF Inv, Stores
    <2>1. /\ lg = "none" => logic = 0
          /\ lg # "none" => lg = "impl" /\ Names("impl") /\ logic = loc["impl"] /\ logic \in 1..Len(chain) /\ OwnOnly
      <3>1. lg # "none" => lg = "impl" /\ Holds(Known("impl")) /\ Holds(Alone)
        BY <1>1, <1>2, <1>5 DEF SendNeeds, At
      <3> QED
        BY <3>1, <1>3, FactParts DEF Holds, Names, Arg
    <2>2. /\ ad = "none" => admin = 0
          /\ ad # "none" => Names(ad) /\ admin = loc[ad] /\ admin \in 1..Len(chain)
      <3>1. ad # "none" => Holds(Known(ad))
        BY <1>1, <1>2, <1>5 DEF SendNeeds, At
      <3> QED
        BY <3>1, <1>3, FactParts DEF Holds, Names, Arg
    <2>3. /\ ar = "none" => arg = 0
          /\ ar # "none" => Names(ar) /\ arg = loc[ar] /\ arg \in 1..Len(chain)
      <3>1. ar # "none" => Holds(Known(ar))
        BY <1>1, <1>2, <1>5 DEF SendNeeds, At
      <3> QED
        BY <3>1, <1>3, FactParts DEF Holds, Names, Arg
    <2>4. v \notin {lg, ad, ar}
      BY <1>2, <1>5 DEF SendNeeds
    <2>5. /\ c.kind = kind /\ c.logic = logic /\ c.admin = admin /\ c.arg = arg /\ c.bnfts = <<>>
          /\ c \in Contracts({kind}) /\ DOMAIN c.bnfts = {}
      <3>1. logic \in Nat /\ admin \in Nat /\ arg \in Nat
        BY <2>0, <2>1, <2>2, <2>3
      <3>2. <<>> \in [{} -> Nat] /\ DOMAIN <<>> = {}
        OBVIOUS
      <3>3. <<>> \in Books
        BY <3>2 DEF Books
      <3> QED
        BY <3>1, <3>2, <3>3 DEF NewContract, Contracts
    <2>6. GoodContract(chain, mined, c, n)
      <3>1. c.logic <= Len(chain)
        BY <2>0, <2>1, <2>5
      <3>2. ASSUME kind = "BNFTRegistry", logic # 0
            PROVE  ImplIn(chain, arg, "BNFT") /\ arg < n
        <4>1. lg # "none" /\ Holds(Impl(ar, "BNFT"))
          BY <1>1, <1>2, <1>5, <2>1, <3>2 DEF SendNeeds, At
        <4>2. ar # "none"
          BY <4>1, <1>2, <1>5, <3>2 DEF SendNeeds
        <4>3. chain[loc[ar]].kind = "BNFT" /\ chain[loc[ar]].logic = 0
          BY <4>1, FactParts DEF Holds
        <4> QED
          BY <4>2, <4>3, <2>0, <2>3 DEF ImplIn
      <3> QED
        BY <3>1, <3>2, <2>5 DEF GoodContract
    <2> HIDE DEF c
    <2>7. /\ Ledger' /\ Len(chain)' = n /\ chain'[n] = c
          /\ \A a \in 1..Len(chain) : chain'[a] = chain[a]
          /\ Grows(chain, mined, chain', mined')
      BY <1>7, <2>0, <2>5, <2>6, Appended
    <2>8. /\ UNCHANGED <<mined, flying, network, key, config, task, disturbed, late, faults, db>>
          /\ (awaiting' <=> awaiting) /\ loc' = Bind(v, n)
      BY <1>0, <1>7 DEF Advance, env
    <2>9. Stores' /\ Flights'
      <3>1. Stores'
        BY <2>7, <2>8, StoresStay DEF Inv, Stores
      <3>2. \A i \in 1..Len(flying) : mined' <= flying[i].after
        BY <2>8 DEF Inv, Flights
      <3> QED
        BY <3>1, <3>2, <2>0, <2>7, <2>8, FlightsStay DEF Inv
    <2>10. \A f \in P : ~Killed(f, Step) => Holds(f)'
      <3> SUFFICES ASSUME NEW f \in P, ~Killed(f, Step) PROVE Holds(f)'
        OBVIOUS
      <3>1. Binds(Step) = {v}
        BY <1>0, <1>2 DEF Binds
      <3>2. f[1] \in {"set", "unset", "other"} \/ ~Mentions(f, v)
        BY <3>1 DEF Killed
      <3>3. Holds(f)
        BY <1>1 DEF At
      <3>4. chain'[Len(chain) + 1].logic = 0 \/ Same("impl", chain'[Len(chain) + 1].logic)
        BY <2>1, <2>5, <2>7 DEF Same, Names
      <3> QED
        BY <3>2, <3>3, <3>4, <2>0, <2>7, <2>8, AppendKeeps
    <2>11. /\ v \in DOMAIN loc' /\ loc'[v] = n /\ n \in 1..Len(chain')
           /\ \A x \in {lg, ad, ar} \ {"none"} : x \in DOMAIN loc' /\ loc'[x] = loc[x]
      BY <2>0, <2>1, <2>2, <2>3, <2>4, <2>7, <2>8 DEF Bind, Names
    <2>12. Names(v)' /\ Holds(Known(v))'
      <3>1. Names(v)'
        BY <2>11 DEF Names
      <3> QED
        BY <3>1, FactParts DEF Holds
    <2>13. Holds(Fresh(v))'
      <3>1. \A i \in 1..Len(flying) : flying[i].after \in Nat /\ flying[i].after < n
        BY <2>0, FlightTypes DEF Inv
      <3>2. \A i \in 1..Len(flying') : flying'[i].after < loc'[v]
        BY <3>1, <2>8, <2>11
      <3> QED
        BY <3>2, <2>12, FactParts DEF Holds
    <2>14. ASSUME lg = "none" PROVE Holds(Impl(v, kind))'
      BY <2>14, <2>1, <2>5, <2>7, <2>11, <2>12, FactParts DEF Holds
    <2>15. ASSUME lg # "none" PROVE Holds(Proxy(v, kind))' /\ Holds(Logic(v, lg))'
      <3>1. chain'[loc'[v]].kind = kind /\ chain'[loc'[v]].logic = logic /\ logic # 0
        BY <2>15, <2>0, <2>1, <2>5, <2>7, <2>11
      <3>2. Same(lg, chain[loc[v]].logic)'
        BY <3>1, <2>15, <2>1, <2>11 DEF Same
      <3>3. OwnOnly'
        BY <2>15, <2>1, <2>8 DEF OwnOnly
      <3> QED
        BY <3>1, <3>2, <3>3, <2>12, FactParts DEF Holds
    <2>16. ASSUME lg = "none", v = "impl" PROVE Holds(Newest)'
      <3>1. ASSUME NEW p \in 1..Len(chain') PROVE chain'[p].logic <= n
        <4>1. p \in 1..Len(chain) \/ p = n
          BY <2>0, <2>7
        <4>2. CASE p \in 1..Len(chain)
          BY <4>2, <2>0, <2>7, LedgerTypes
        <4>3. CASE p = n
          BY <4>3, <2>0, <2>1, <2>5, <2>7, <2>16
        <4> QED
          BY <4>1, <4>2, <4>3
      <3>2. \A i \in 1..Len(flying') : flying'[i].fn = "upgrade" => flying'[i].to <= n
        <4> SUFFICES ASSUME NEW i \in 1..Len(flying), flying[i].fn = "upgrade" PROVE flying[i].to <= n
          BY <2>8
        <4>1. PICK k : k = flying[i]
          OBVIOUS
        <4>2. CallSound(chain, k) /\ k.fn = "upgrade"
          BY <4>1 DEF Inv, Flights
        <4>3. k.to \in 1..Len(chain)
          BY <4>2 DEF CallSound, ImplIn
        <4> QED
          BY <4>1, <4>3, <2>0
      <3> QED
        BY <3>1, <3>2, <2>11, <2>12, <2>16, FactParts DEF Holds
    <2>17. ASSUME ad # "none" PROVE Holds(Admin(v, ad))'
      <3>1. Same(ad, chain[loc[v]].admin)'
        BY <2>17, <2>2, <2>5, <2>7, <2>11 DEF Same
      <3> QED
        BY <3>1, <2>12, FactParts DEF Holds
    <2>18. ASSUME ar # "none", lg # "none" PROVE Holds(ArgOf(v, ar))'
      <3>1. Same(ar, chain[loc[v]].arg)'
        BY <2>18, <2>3, <2>5, <2>7, <2>11 DEF Same
      <3>2. OwnOnly'
        BY <2>18, <2>1, <2>8 DEF OwnOnly
      <3> QED
        BY <3>1, <3>2, <2>12, FactParts DEF Holds
    <2>19. \A f \in Gives(Step) : Holds(f)'
      <3>1. Gives(Step) = {Known(v), Fresh(v)}
               \cup (IF lg = "none" THEN {Impl(v, kind)} ELSE {Proxy(v, kind), Logic(v, lg)})
               \cup (IF lg = "none" /\ v = "impl" THEN {Newest} ELSE {})
               \cup (IF ad = "none" THEN {} ELSE {Admin(v, ad)})
               \cup (IF ar = "none" \/ lg = "none" THEN {} ELSE {ArgOf(v, ar)})
        BY <1>0, <1>2 DEF Gives, SendGives
      <3> QED
        BY <3>1, <2>12, <2>14, <2>15, <2>16, <2>17, <2>18, <2>13
    <2> QED
      BY <1>0, <1>1, <1>7, <2>9, <2>10, <2>19, Onward
  <1> QED
    BY <1>4, <1>6, <1>7
-----------------------------------------------------------------------------
(* What a call does.                                                        *)

\* What a contract that is exchanged keeps.
Alike(c, d) == d.kind = c.kind /\ d.admin = c.admin /\ (d.logic = 0 <=> c.logic = 0)

Binding == {"createBNFT", "upgradeBNFTWithImpl"}
Setting == {"setBNFTGenericImpl", "initialize"}

\* What a call leaves on the chain: the logic, arg and bNFT it sets, and the rest.
Does(c) ==
    /\ Ledger' /\ Len(chain)' = Len(chain) /\ Grows(chain, mined, chain', mined')
    /\ \A a \in 1..Len(chain) :
          /\ Alike(chain[a], chain'[a])
          /\ chain'[a].logic = IF c.fn = "upgrade" /\ a = c.on THEN c.to ELSE chain[a].logic
          /\ chain'[a].arg = IF c.fn \in Setting /\ a = c.on THEN c.to ELSE chain[a].arg
          /\ DOMAIN chain'[a].bnfts = IF c.fn \in Binding /\ a = c.on THEN DOMAIN chain[a].bnfts \cup {c.to}
                                      ELSE DOMAIN chain[a].bnfts
          /\ \A x \in DOMAIN chain'[a].bnfts :
                chain'[a].bnfts[x] = IF c.fn \in Binding /\ a = c.on /\ x = c.to
                                     THEN (IF c.fn = "createBNFT" THEN chain[a].arg ELSE c.with)
                                     ELSE chain[a].bnfts[x]

\* Its contract is exchanged.
LEMMA DoesOne ==
    ASSUME Ledger, mined' = mined, NEW c, NEW p \in 1..Len(chain), p = c.on, NEW d, chain' = [chain EXCEPT ![p] = d],
           Alike(chain[p], d), \A S : chain[p] \in Contracts(S) => d \in Contracts(S),
           GoodContract(chain, mined, d, p),
           d.logic = IF c.fn = "upgrade" THEN c.to ELSE chain[p].logic,
           d.arg = IF c.fn \in Setting THEN c.to ELSE chain[p].arg,
           DOMAIN d.bnfts = IF c.fn \in Binding THEN DOMAIN chain[p].bnfts \cup {c.to} ELSE DOMAIN chain[p].bnfts,
           \A x \in DOMAIN d.bnfts :
               d.bnfts[x] = IF c.fn \in Binding /\ x = c.to
                            THEN (IF c.fn = "createBNFT" THEN chain[p].arg ELSE c.with)
                            ELSE chain[p].bnfts[x]
    PROVE  Does(c)
  <1>1. /\ Ledger' /\ Len(chain)' = Len(chain) /\ chain'[p] = d
        /\ \A a \in 1..Len(chain) : a # p => chain'[a] = chain[a]
        /\ Grows(chain, mined, chain', mined')
    BY Replaced DEF Alike
  <1>2. ASSUME NEW a \in 1..Len(chain), a # p
        PROVE  /\ Alike(chain[a], chain'[a]) /\ chain'[a].logic = chain[a].logic /\ chain'[a].arg = chain[a].arg
               /\ chain'[a].bnfts = chain[a].bnfts
    BY <1>1, <1>2 DEF Alike
  <1> DEFINE Left(a) ==
                /\ Alike(chain[a], chain'[a])
                /\ chain'[a].logic = IF c.fn = "upgrade" /\ a = c.on THEN c.to ELSE chain[a].logic
                /\ chain'[a].arg = IF c.fn \in Setting /\ a = c.on THEN c.to ELSE chain[a].arg
                /\ DOMAIN chain'[a].bnfts = IF c.fn \in Binding /\ a = c.on THEN DOMAIN chain[a].bnfts \cup {c.to}
                                            ELSE DOMAIN chain[a].bnfts
                /\ \A x \in DOMAIN chain'[a].bnfts :
                      chain'[a].bnfts[x] = IF c.fn \in Binding /\ a = c.on /\ x = c.to
                                           THEN (IF c.fn = "createBNFT" THEN chain[a].arg ELSE c.with)
                                           ELSE chain[a].bnfts[x]
  <1>3. Left(p)
    BY <1>1
  <1>4. ASSUME NEW a \in 1..Len(chain), a # p PROVE Left(a)
    BY <1>2, <1>4
  <1>5. \A a \in 1..Len(chain) : Left(a)
    <2> HIDE DEF Left
    <2> QED
      BY <1>3, <1>4
  <1> QED
    BY <1>1, <1>5 DEF Does

LEMMA UpgradeDoes ==
    ASSUME Ledger, mined' = mined, NEW c, CallSound(chain, c), c.fn = "upgrade", chain' = Effect(c)
    PROVE  Does(c)
  <1>1. PICK p, t : p = c.on /\ t = c.to
    OBVIOUS
  <1>2. p \in 1..Len(chain) /\ ImplIn(chain, t, chain[p].kind) /\ chain[p].logic \in 1..t
    BY <1>1 DEF CallSound
  <1>3. PICK S : chain \in Seq(Contracts(S))
    BY DEF Ledger
  <1>4. chain[p] \in Contracts(S) /\ t \in 1..Len(chain) /\ Len(chain) \in Nat
    BY <1>2, <1>3, LedgerTypes DEF ImplIn
  <1> DEFINE d == [chain[p] EXCEPT !.logic = t]
  <1>5. /\ d.kind = chain[p].kind /\ d.admin = chain[p].admin /\ d.arg = chain[p].arg
        /\ d.bnfts = chain[p].bnfts /\ d.logic = t
    BY <1>4 DEF Contracts
  <1>6. ASSUME NEW T, chain[p] \in Contracts(T) PROVE d \in Contracts(T)
    BY <1>6, <1>4 DEF Contracts
  <1>7. chain' = [chain EXCEPT ![p] = d]
    <2>1. chain' = [chain EXCEPT ![c.on].logic = c.to]
      BY Zenon DEF Effect
    <2> QED
      BY <2>1, <1>1
  <1> HIDE DEF d
  <1>8. t # 0 /\ chain[p].logic # 0
    BY <1>2, <1>4
  <1>9. Alike(chain[p], d)
    BY <1>5, <1>8 DEF Alike
  <1>10. GoodContract(chain, mined, d, p)
    <2>1. GoodContract(chain, mined, chain[p], p) /\ d.logic <= Len(chain)
      BY <1>2, <1>4, <1>5 DEF Ledger
    <2> QED
      BY <2>1, <1>5, <1>8 DEF GoodContract
  <1>11. c.fn \notin Setting /\ c.fn \notin Binding
    BY DEF Setting, Binding
  <1> QED
    BY <1>1, <1>2, <1>5, <1>6, <1>7, <1>9, <1>10, <1>11, DoesOne

LEMMA SettingDoes ==
    ASSUME Ledger, mined' = mined, NEW c, CallSound(chain, c), c.after <= mined, c.fn \in Setting, chain' = Effect(c)
    PROVE  Does(c)
  <1>1. PICK p, t : p = c.on /\ t = c.to
    OBVIOUS
  <1>2. Len(chain) \in Nat /\ mined \in Nat
    BY LedgerTypes
  <1>3. /\ p \in 1..Len(chain) /\ t \in 1..Len(chain)
        /\ IF c.fn = "setBNFTGenericImpl" THEN ImplIn(chain, t, "BNFT") /\ t <= mined
           ELSE chain[p].kind = "AirdropFlashLoanReceiverV2"
    <2>1. CASE c.fn = "setBNFTGenericImpl"
      <3>1. p \in 1..Len(chain) /\ ImplIn(chain, t, "BNFT") /\ t <= c.after /\ c.after \in Nat
        BY <2>1, <1>1 DEF CallSound
      <3>2. t \in 1..Len(chain)
        BY <3>1 DEF ImplIn
      <3>3. t <= mined
        BY <3>1, <3>2, <1>2
      <3> QED
        BY <2>1, <3>1, <3>2, <3>3
    <2>2. CASE c.fn = "initialize"
      BY <2>2, <1>1 DEF CallSound, ImplIn
    <2> QED
      BY <2>1, <2>2 DEF Setting
  <1>4. PICK S : chain \in Seq(Contracts(S))
    BY DEF Ledger
  <1>5. chain[p] \in Contracts(S)
    BY <1>3, <1>4
  <1> DEFINE d == [chain[p] EXCEPT !.arg = t]
  <1>6. /\ d.kind = chain[p].kind /\ d.admin = chain[p].admin /\ d.arg = t
        /\ d.bnfts = chain[p].bnfts /\ d.logic = chain[p].logic
    BY <1>5 DEF Contracts
  <1>7. ASSUME NEW T, chain[p] \in Contracts(T) PROVE d \in Contracts(T)
    BY <1>7, <1>3 DEF Contracts
  <1>8. chain' = [chain EXCEPT ![p] = d]
    <2>1. chain' = [chain EXCEPT ![c.on].arg = c.to]
      <3>1. c.fn # "upgrade" /\ c.fn \in {"setBNFTGenericImpl", "initialize"}
        BY DEF Setting
      <3> QED
        BY <3>1, Zenon DEF Effect
    <2> QED
      BY <2>1, <1>1
  <1> HIDE DEF d
  <1>9. GoodContract(chain, mined, d, p)
    <2>1. GoodContract(chain, mined, chain[p], p)
      BY <1>3 DEF Ledger
    <2> QED
      BY <2>1, <1>3, <1>6 DEF GoodContract
  <1>10. c.fn # "upgrade" /\ c.fn \notin Binding /\ Alike(chain[p], d)
    BY <1>6 DEF Setting, Binding, Alike
  <1> QED
    BY <1>1, <1>3, <1>6, <1>7, <1>8, <1>9, <1>10, DoesOne

LEMMA OwnerDoes ==
    ASSUME Ledger, mined' = mined, NEW c, CallSound(chain, c), c.fn = "transferOwnership", chain' = Effect(c)
    PROVE  Does(c)
  <1>1. PICK p : p = c.on
    OBVIOUS
  <1>2. p \in 1..Len(chain)
    BY <1>1 DEF CallSound
  <1>3. PICK S : chain \in Seq(Contracts(S))
    BY DEF Ledger
  <1>4. chain[p] \in Contracts(S)
    BY <1>2, <1>3
  <1> DEFINE d == [chain[p] EXCEPT !.ours = FALSE]
  <1>5. /\ d.kind = chain[p].kind /\ d.admin = chain[p].admin /\ d.arg = chain[p].arg
        /\ d.bnfts = chain[p].bnfts /\ d.logic = chain[p].logic
    BY <1>4 DEF Contracts
  <1>6. ASSUME NEW T, chain[p] \in Contracts(T) PROVE d \in Contracts(T)
    BY <1>6 DEF Contracts
  <1>7. chain' = [chain EXCEPT ![p] = d]
    <2>1. chain' = [chain EXCEPT ![c.on].ours = FALSE]
      BY Zenon DEF Effect
    <2> QED
      BY <2>1, <1>1
  <1> HIDE DEF d
  <1>8. GoodContract(chain, mined, d, p)
    <2>1. GoodContract(chain, mined, chain[p], p)
      BY <1>2 DEF Ledger
    <2> QED
      BY <2>1, <1>5 DEF GoodContract
  <1>9. c.fn # "upgrade" /\ c.fn \notin Setting /\ c.fn \notin Binding /\ Alike(chain[p], d)
    BY <1>5 DEF Setting, Binding, Alike
  <1> QED
    BY <1>1, <1>2, <1>5, <1>6, <1>7, <1>8, <1>9, DoesOne

LEMMA BindingDoes ==
    ASSUME Ledger, mined' = mined, NEW c, CallSound(chain, c), c.after <= mined, c.fn \in Binding, Succeeds(c),
           chain' = Effect(c)
    PROVE  Does(c)
  <1>0. Len(chain) \in Nat /\ mined \in Nat /\ mined <= Len(chain)
    BY LedgerTypes
  <1>1. PICK r, a : r = c.on /\ a = c.to
    OBVIOUS
  <1>2. PICK g : g = IF c.fn = "createBNFT" THEN chain[r].arg ELSE c.with
    OBVIOUS
  <1>3. chain' = SetBnft(r, a, g)
    <2>1. c.fn \notin {"upgrade", "setBNFTGenericImpl", "initialize", "transferOwnership"}
      BY DEF Binding
    <2>2. CASE c.fn = "createBNFT"
      <3>1. chain' = SetBnft(c.on, c.to, chain[c.on].arg)
        BY <2>2, Zenon DEF Effect
      <3> QED
        BY <3>1, <2>2, <1>1, <1>2
    <2>3. CASE c.fn = "upgradeBNFTWithImpl"
      <3>1. chain' = SetBnft(c.on, c.to, c.with)
        BY <2>3, Zenon DEF Effect
      <3> QED
        BY <3>1, <2>3, <1>1, <1>2
    <2> QED
      BY <2>2, <2>3 DEF Binding
  <1>4. /\ r \in 1..Len(chain) /\ chain[r].kind = "BNFTRegistry" /\ chain[r].logic # 0 /\ a \in Nat
    <2>1. CASE c.fn = "createBNFT"
      <3>1. IsProxy(c.on, "BNFTRegistry") /\ Is(c.to, "Collection")
        BY <2>1, Zenon DEF Succeeds
      <3> QED
        BY <3>1, <1>0, <1>1 DEF IsProxy, Is, IsMined
    <2>2. CASE c.fn = "upgradeBNFTWithImpl"
      <3>1. Bound(c.on, c.to)
        BY <2>2, Zenon DEF Succeeds
      <3>2. r \in 1..Len(chain) /\ a \in DOMAIN chain[r].bnfts
        BY <2>2, <3>1, <1>1 DEF CallSound, Bound
      <3>3. GoodContract(chain, mined, chain[r], r) /\ chain[r].bnfts \in Books
        BY <3>2, LedgerTypes DEF Ledger
      <3> QED
        BY <3>2, <3>3 DEF GoodContract, Books
    <2> QED
      BY <2>1, <2>2 DEF Binding
  <1>5. GoodContract(chain, mined, chain[r], r) /\ chain[r].arg \in Nat
    BY <1>4, LedgerTypes DEF Ledger
  <1>6. ImplIn(chain, g, "BNFT") /\ g \in Nat /\ g <= mined
    <2>1. CASE c.fn = "createBNFT"
      <3>1. g = chain[r].arg /\ ImplIn(chain, g, "BNFT") /\ (g <= mined \/ g < r)
        BY <2>1, <1>2, <1>4, <1>5 DEF GoodContract
      <3>2. r <= mined
        <4>1. IsProxy(c.on, "BNFTRegistry")
          BY <2>1, Zenon DEF Succeeds
        <4> QED
          BY <4>1, <1>0, <1>1 DEF IsProxy, IsMined
      <3> QED
        BY <3>1, <3>2, <1>0, <1>4, <1>5
    <2>2. CASE c.fn = "upgradeBNFTWithImpl"
      <3>1. g = c.with
        BY <2>2, <1>2
      <3>2. ImplIn(chain, g, "BNFT") /\ g <= c.after /\ c.after \in Nat
        BY <2>2, <3>1, <1>1, <1>4 DEF CallSound
      <3>3. g \in Nat
        BY <3>2, <1>0 DEF ImplIn
      <3> QED
        BY <3>2, <3>3, <1>0
    <2> QED
      BY <2>1, <2>2 DEF Binding
  <1> DEFINE old == chain[r].bnfts
             b == [x \in DOMAIN old \cup {a} |-> IF x = a THEN g ELSE old[x]]
             d == [chain[r] EXCEPT !.bnfts = b]
  <1>7. PICK S : chain \in Seq(Contracts(S))
    BY DEF Ledger
  <1>8. chain[r] \in Contracts(S) /\ old \in Books
    <2>1. chain[r] \in Contracts(S)
      BY <1>4, <1>7
    <2> QED
      BY <2>1 DEF Contracts
  <1>9. /\ d.kind = chain[r].kind /\ d.logic = chain[r].logic /\ d.admin = chain[r].admin
        /\ d.arg = chain[r].arg /\ d.bnfts = b
    BY <1>8 DEF Contracts
  <1>10. b \in Books
    <2>1. PICK D \in SUBSET Nat : old \in [D -> Nat]
      BY <1>8 DEF Books
    <2>2. b \in [D \cup {a} -> Nat] /\ D \cup {a} \in SUBSET Nat
      BY <2>1, <1>4, <1>6
    <2> QED
      BY <2>2 DEF Books
  <1>11. DOMAIN b = DOMAIN old \cup {a} /\ \A x \in DOMAIN b : b[x] = IF x = a THEN g ELSE old[x]
    OBVIOUS
  <1>12. chain' = [chain EXCEPT ![r] = d]
    BY <1>3 DEF SetBnft
  <1> HIDE DEF b
  <1>13. \A T : chain[r] \in Contracts(T) => d \in Contracts(T)
    BY <1>10 DEF Contracts
  <1> HIDE DEF d
  <1>14. GoodContract(chain, mined, d, r)
    <2>1. \A x \in DOMAIN old : ImplIn(chain, old[x], "BNFT") /\ old[x] <= mined
      BY <1>4, <1>5 DEF GoodContract
    <2>2. \A x \in DOMAIN b : ImplIn(chain, b[x], "BNFT") /\ b[x] <= mined
      BY <2>1, <1>6, <1>11
    <2> QED
      BY <2>2, <1>4, <1>5, <1>9 DEF GoodContract
  <1>15. c.fn # "upgrade" /\ c.fn \notin Setting /\ Alike(chain[r], d)
    BY <1>9 DEF Setting, Binding, Alike
  <1>16. \A x \in DOMAIN d.bnfts :
            d.bnfts[x] = IF c.fn \in Binding /\ x = c.to
                         THEN (IF c.fn = "createBNFT" THEN chain[r].arg ELSE c.with)
                         ELSE chain[r].bnfts[x]
    BY <1>1, <1>2, <1>9, <1>11
  <1>17. DOMAIN d.bnfts = DOMAIN chain[r].bnfts \cup {c.to}
    BY <1>1, <1>9, <1>11
  <1> QED
    BY <1>1, <1>4, <1>9, <1>12, <1>13, <1>14, <1>15, <1>16, <1>17, DoesOne

LEMMA CallDoes ==
    ASSUME Ledger, mined' = mined, NEW c, CallSound(chain, c), c.after <= mined, Succeeds(c), chain' = Effect(c)
    PROVE  Does(c)
  <1>1. c.fn = "upgrade" \/ c.fn = "transferOwnership" \/ c.fn \in Setting \/ c.fn \in Binding
    BY DEF CallSound, Calls, Setting, Binding
  <1> QED
    BY <1>1, UpgradeDoes, OwnerDoes, SettingDoes, BindingDoes
-----------------------------------------------------------------------------
(* The call of a step.                                                      *)

LEMMA CallParts ==
    ASSUME Step.do \in CallSteps, NEW c, c = StepCall
    PROVE  /\ c.fn \in Calls \ {"transferOwnership"} /\ c.after = Len(chain)
           /\ Step.do = "upgrade" => /\ c.fn = "upgrade" /\ c.on = loc["proxy"]
                                     /\ c.to = loc["impl"] /\ c.with = loc["admin"]
           /\ Step.do = "setBNFTGenericImpl" => /\ c.fn = "setBNFTGenericImpl"
                                                /\ c.on = loc["proxy"] /\ c.to = loc["generic"]
           /\ Step.do = "initialize" => c.fn = "initialize" /\ c.on = loc["receiver"] /\ c.to = loc["registry"]
           /\ Step.do = "createOrUpgrade" =>
                 /\ c.on = loc["registry"] /\ c.to = NftsAssets(Step.asset)
                 /\ IF SeenBound THEN c.fn = "upgradeBNFTWithImpl" /\ c.with = loc["generic"]
                    ELSE c.fn = "createBNFT"
           /\ Step.do \in {"createMocked", "createBNFT"} => c.fn = "createBNFT"
  <1>1. CASE Step.do = "upgrade"
    <2>1. c = upgrade
      BY <1>1, Zenon DEF StepCall
    <2> QED
      BY <1>1, <2>1 DEF upgrade, Call, Calls
  <1>2. CASE Step.do = "setBNFTGenericImpl"
    <2>1. c = setBNFTGenericImpl
      BY <1>2, Zenon DEF StepCall
    <2> QED
      BY <1>2, <2>1 DEF setBNFTGenericImpl, Call, Calls
  <1>3. CASE Step.do = "initialize"
    <2>1. c = initialize
      BY <1>3, Zenon DEF StepCall
    <2> QED
      BY <1>3, <2>1 DEF initialize, Call, Calls
  <1>4. CASE Step.do = "createOrUpgrade"
    <2>1. c = createOrUpgrade(NftsAssets(Step.asset))
      BY <1>4, Zenon DEF StepCall
    <2> QED
      BY <1>4, <2>1 DEF createOrUpgrade, createBNFT, Call, Calls
  <1>5. CASE Step.do = "createMocked"
    <2>1. c = createBNFT(loc[Step.asset])
      BY <1>5, Zenon DEF StepCall
    <2> QED
      BY <1>5, <2>1 DEF createBNFT, Call, Calls
  <1>6. CASE Step.do = "createBNFT"
    <2>1. c = createBNFT(NftsAssets(Step.asset))
      BY <1>6, Zenon DEF StepCall
    <2> QED
      BY <1>6, <2>1 DEF createBNFT, Call, Calls
  <1> QED
    BY <1>1, <1>2, <1>3, <1>4, <1>5, <1>6 DEF CallSteps

\* What the facts tell of the variables a call is made of.
LEMMA CallNeeds ==
    ASSUME NEW P, NEW Q, NEW M, At(P, Q, M), Step.do \in CallSteps
    PROVE  /\ Step.do # "createOrUpgrade" => Other \in P
           /\ Step.do = "upgrade" => /\ Names("proxy") /\ Names("impl") /\ Names("admin") /\ OwnOnly
                                     /\ chain[loc["proxy"]].logic # 0 /\ chain[loc["proxy"]].logic <= loc["impl"]
                                     /\ ImplIn(chain, loc["impl"], chain[loc["proxy"]].kind)
           /\ Step.do = "setBNFTGenericImpl" => /\ Names("proxy") /\ Names("generic")
                                                /\ chain[loc["proxy"]].kind = "BNFTRegistry"
                                                /\ chain[loc["proxy"]].logic # 0
                                                /\ ImplIn(chain, loc["generic"], "BNFT")
           /\ Step.do = "initialize" => /\ Names("receiver") /\ Names("registry")
                                        /\ ImplIn(chain, loc["receiver"], "AirdropFlashLoanReceiverV2")
           /\ Step.do = "createOrUpgrade" =>
                 /\ Names("registry") /\ loc["registry"] = TokensRegistry /\ "generic" \in DOMAIN loc
                 /\ Step.asset \in Symbols /\ SeenBound \in BOOLEAN
                 /\ SeenBound => Bound(loc["registry"], NftsAssets(Step.asset))
                 /\ disturbed \/ late \/ (Bound(loc["registry"], NftsAssets(Step.asset)) => SeenBound)
                 /\ late \/ loc["generic"] = chain[loc["registry"]].arg
                 /\ chain[loc["registry"]].kind = "BNFTRegistry" /\ chain[loc["registry"]].logic # 0 =>
                       ImplIn(chain, loc["generic"], "BNFT")
  <1>1. Needs(Step, P) /\ \A f \in P : Holds(f)
    BY DEF At, Leads
  <1>2. ASSUME NEW v, NEW k, Holds(Impl(v, k)) PROVE Names(v) /\ ImplIn(chain, loc[v], k)
    BY <1>2, FactParts DEF Holds, Names, ImplIn
  <1>3. CASE Step.do = "upgrade"
    <2>1. UpgradeNeeds(P)
      BY <1>1, <1>3 DEF Needs
    <2>2. PICK k \in ConfigIds : Proxy("proxy", k) \in P /\ Impl("impl", k) \in P
      BY <2>1 DEF UpgradeNeeds
    <2>3. /\ Holds(Proxy("proxy", k)) /\ Holds(Impl("impl", k)) /\ Holds(Newest) /\ Holds(Known("admin"))
          /\ Holds(Alone) /\ Other \in P
      BY <1>1, <2>1, <2>2 DEF UpgradeNeeds
    <2>4. Names("proxy") /\ chain[loc["proxy"]].kind = k /\ chain[loc["proxy"]].logic # 0
      BY <2>3, FactParts DEF Holds
    <2>5. Names("impl") /\ ImplIn(chain, loc["impl"], k)
      BY <2>3, <1>2
    <2>6. \A p \in 1..Len(chain) : chain[p].logic <= loc["impl"]
      BY <2>3, FactParts DEF Holds
    <2>7. Names("admin") /\ OwnOnly
      BY <2>3, FactParts DEF Holds
    <2> QED
      BY <1>3, <2>3, <2>4, <2>5, <2>6, <2>7 DEF Names
  <1>4. CASE Step.do = "setBNFTGenericImpl"
    <2>1. {Other, Proxy("proxy", "BNFTRegistry"), Impl("generic", "BNFT")} \subseteq P
      BY <1>1, <1>4 DEF Needs
    <2>2. Holds(Proxy("proxy", "BNFTRegistry")) /\ Holds(Impl("generic", "BNFT"))
      BY <1>1, <2>1
    <2>3. Names("proxy") /\ chain[loc["proxy"]].kind = "BNFTRegistry" /\ chain[loc["proxy"]].logic # 0
      BY <2>2, FactParts DEF Holds
    <2>4. Names("generic") /\ ImplIn(chain, loc["generic"], "BNFT")
      BY <2>2, <1>2
    <2> QED
      BY <1>4, <2>1, <2>3, <2>4
  <1>5. CASE Step.do = "initialize"
    <2>1. {Other, Impl("receiver", "AirdropFlashLoanReceiverV2"), Known("registry")} \subseteq P
      BY <1>1, <1>5 DEF Needs
    <2>2. Holds(Impl("receiver", "AirdropFlashLoanReceiverV2")) /\ Holds(Known("registry"))
      BY <1>1, <2>1
    <2>3. Names("receiver") /\ ImplIn(chain, loc["receiver"], "AirdropFlashLoanReceiverV2")
      BY <2>2, <1>2
    <2>4. Names("registry")
      BY <2>2, FactParts DEF Holds
    <2> QED
      BY <1>5, <2>1, <2>3, <2>4
  <1>6. CASE Step.do = "createOrUpgrade"
    <2>1. PICK s, r : s = Step.asset /\ r = loc["registry"]
      OBVIOUS
    <2>2. s \in Symbols /\ Found(P) /\ {Seen(s), Read} \subseteq P
      BY <1>1, <1>6, <2>1 DEF Needs
    <2>3. /\ Names("registry") /\ SeenBound \in BOOLEAN
          /\ SeenBound => Bound(r, NftsAssets(s))
          /\ disturbed \/ late \/ (Bound(r, NftsAssets(s)) => SeenBound)
      <3>1. Holds(Seen(s))
        BY <1>1, <2>2
      <3> QED
        BY <2>1, <3>1, FactParts DEF Holds, BoundTo
    <2>4. /\ "generic" \in DOMAIN loc /\ (late \/ loc["generic"] = chain[r].arg)
          /\ chain[r].kind = "BNFTRegistry" /\ chain[r].logic # 0 => ImplIn(chain, loc["generic"], "BNFT")
      <3>1. Holds(Read)
        BY <1>1, <2>2
      <3> QED
        BY <2>1, <3>1, FactParts DEF Holds, Same
    <2>5. r = TokensRegistry
      <3>1. \/ Holds(Conf("BNFTRegistry", "registry"))
            \/ Holds(Unset("BNFTRegistry")) /\ Holds(Rec("BNFTRegistry", "registry"))
        BY <1>1, <2>2 DEF Found
      <3>2. "BNFTRegistry" \in Ids
        BY DEF Ids, eContractid, ConfigIds
      <3>3. CASE Holds(Conf("BNFTRegistry", "registry"))
        BY <2>1, <3>3, FactParts DEF Holds, Same, TokensRegistry
      <3>4. CASE Holds(Unset("BNFTRegistry")) /\ Holds(Rec("BNFTRegistry", "registry"))
        BY <2>1, <3>2, <3>4, FactParts DEF Holds, Same, TokensRegistry
      <3> QED
        BY <3>1, <3>3, <3>4
    <2> QED
      BY <1>6, <2>1, <2>2, <2>3, <2>4, <2>5
  <1>7. CASE Step.do \in {"createMocked", "createBNFT"}
    BY <1>1, <1>7 DEF Needs
  <1> QED
    BY <1>3, <1>4, <1>5, <1>6, <1>7 DEF CallSteps

\* What a task sends is sound.
LEMMA StepSound ==
    ASSUME NEW P, NEW Q, NEW M, At(P, Q, M), Step.do \in CallSteps, NEW c, c = StepCall
    PROVE  CallSound(chain, c)
  <1>1. /\ Len(chain) \in Nat /\ \A a \in 1..Len(chain) : chain[a].logic \in Nat
        /\ c.fn \in Calls \ {"transferOwnership"} /\ c.after = Len(chain)
    BY CallParts, LedgerTypes DEF At, Inv, Stores
  <1>2. CASE Step.do = "upgrade"
    <2>1. /\ c.fn = "upgrade" /\ c.on = loc["proxy"] /\ c.to = loc["impl"]
          /\ Names("proxy") /\ Names("impl")
          /\ chain[c.on].logic # 0 /\ chain[c.on].logic <= c.to /\ ImplIn(chain, c.to, chain[c.on].kind)
      BY <1>2, CallParts, CallNeeds
    <2>2. c.on \in 1..Len(chain) /\ c.to \in 1..Len(chain)
      BY <2>1 DEF Names
    <2> QED
      BY <1>1, <2>1, <2>2 DEF CallSound
  <1>3. CASE Step.do = "setBNFTGenericImpl"
    <2>1. /\ c.fn = "setBNFTGenericImpl" /\ c.on = loc["proxy"] /\ c.to = loc["generic"]
          /\ Names("proxy") /\ Names("generic")
          /\ chain[c.on].kind = "BNFTRegistry" /\ chain[c.on].logic # 0 /\ ImplIn(chain, c.to, "BNFT")
      BY <1>3, CallParts, CallNeeds
    <2>2. c.on \in 1..Len(chain) /\ c.to \in 1..Len(chain)
      BY <2>1 DEF Names
    <2> QED
      BY <1>1, <2>1, <2>2 DEF CallSound
  <1>4. CASE Step.do = "initialize"
    <2>1. /\ c.fn = "initialize" /\ c.on = loc["receiver"] /\ c.to = loc["registry"]
          /\ Names("registry") /\ ImplIn(chain, c.on, "AirdropFlashLoanReceiverV2")
      BY <1>4, CallParts, CallNeeds
    <2> QED
      BY <1>1, <2>1 DEF CallSound, Names
  <1>5. CASE Step.do \in {"createOrUpgrade", "createMocked", "createBNFT"}
    <2>1. CASE c.fn = "createBNFT"
      BY <1>1, <2>1 DEF CallSound
    <2>2. CASE c.fn # "createBNFT"
      <3>1. /\ Step.do = "createOrUpgrade" /\ c.fn = "upgradeBNFTWithImpl" /\ c.with = loc["generic"]
            /\ c.on = loc["registry"] /\ Names("registry")
            /\ chain[c.on].kind = "BNFTRegistry" /\ chain[c.on].logic # 0 => ImplIn(chain, c.with, "BNFT")
        BY <1>5, <2>2, CallParts, CallNeeds
      <3>2. \A b : ImplIn(chain, b, "BNFT") => b <= Len(chain)
        BY <1>1 DEF ImplIn
      <3> QED
        BY <1>1, <3>1, <3>2 DEF CallSound, Names
    <2> QED
      BY <2>1, <2>2
  <1> QED
    BY <1>2, <1>3, <1>4, <1>5 DEF CallSteps

\* A call the task made that fails ends it.
LEMMA StepReverts ==
    ASSUME NEW P, NEW Q, NEW M, At(P, Q, M), Step.do \in CallSteps, ~Succeeds(StepCall),
           UNCHANGED <<chain, mined, room>>, Flights', Fail("reverted")
    PROVE  Inv'
  <1>1. CASE Step.do # "createOrUpgrade"
    <2>1. Holds(Other)
      BY <1>1, CallNeeds DEF At
    <2>2. RevertedWhy'
      BY <2>1, FactParts DEF Holds, RevertedWhy, Fail
    <2> QED
      BY <2>2, Failing DEF Statuses, At
  <1>2. CASE Step.do = "createOrUpgrade"
    <2>1. PICK c, s, r, a : c = StepCall /\ s = Step.asset /\ r = TokensRegistry /\ a = NftsAssets(s)
      OBVIOUS
    <2>2. /\ c.on = r /\ c.to = a /\ s \in Symbols
          /\ IF SeenBound THEN c.fn = "upgradeBNFTWithImpl" ELSE c.fn = "createBNFT"
          /\ SeenBound => Bound(r, a)
          /\ disturbed \/ late \/ (Bound(r, a) => SeenBound)
      BY <1>2, <2>1, CallParts, CallNeeds
    <2>3. ~Succeeds(c)
      BY <2>1
    <2>4. \/ disturbed \/ late
          \/ ~IsProxy(r, "BNFTRegistry")
          \/ ~chain[r].ours
          \/ ~Is(a, "Collection")
      <3>1. CASE SeenBound
        <4>1. c.fn = "upgradeBNFTWithImpl"
          BY <2>2, <3>1
        <4>2. ~(chain[c.on].ours /\ Bound(c.on, c.to))
          BY <2>3, <4>1, Zenon DEF Succeeds
        <4> QED
          BY <2>2, <3>1, <4>2
      <3>2. CASE ~SeenBound
        <4>1. c.fn = "createBNFT"
          BY <2>2, <3>2
        <4>2. ~(IsProxy(c.on, "BNFTRegistry") /\ Is(c.to, "Collection") /\ ~Bound(c.on, c.to))
          BY <2>3, <4>1, Zenon DEF Succeeds
        <4> QED
          BY <2>2, <3>2, <4>2
      <3> QED
        BY <3>1, <3>2
    <2>5. UNCHANGED <<chain, mined, config, db, network, disturbed, late>>
      BY DEF Fail, env
    <2>6. RevertedWhy'
      BY <2>1, <2>2, <2>4, <2>5
      DEF RevertedWhy, TokensRegistry, IsSet, IsProxy, Is, IsMined, NftsAssets, IsLive
    <2> QED
      BY <2>6, Failing DEF Statuses, At
  <1> QED
    BY <1>1, <1>2

\* The network, and others, leave a script and its facts in place.
LEMMA Elsewhere ==
    ASSUME Inv, Stores', Flights', Pending', RevertedWhy', UNCHANGED <<network, room, status, steps, task>>,
           \A f : Holds(f) => Holds(f)'
    PROVE  Inv'
  <1>1. Program'
    BY DEF Inv, Program, Running
  <1>2. Progress'
    <2>1. CASE status \in {"running", "done"}
      <3>1. PICK P, Q : (\A f \in P : Holds(f)) /\ Outline(P, steps, Q) /\ Enough(task, Q)
        BY <2>1 DEF Inv, Progress
      <3>2. (\A f \in P : Holds(f)') /\ Outline(P, steps', Q) /\ Enough(task', Q)
        BY <3>1
      <3> QED
        BY <3>2 DEF Progress
    <2>2. CASE status \notin {"running", "done"}
      BY <2>2 DEF Progress
    <2> QED
      BY <2>1, <2>2
  <1> QED
    BY <1>1, <1>2 DEF Inv
-----------------------------------------------------------------------------
(* Calls are sent and mined.                                                *)

LEMMA SendCallInv ==
    ASSUME Inv, SendCall
    PROVE  Inv'
  <1>0. Running /\ ~awaiting /\ steps # <<>> /\ Step.do \in CallSteps /\ UNCHANGED <<chain, mined, room>>
    BY DEF SendCall
  <1>1. PICK P, Q, M : At(P, Q, M)
    BY <1>0, Place
  <1>2. CASE ~Succeeds(StepCall) /\ UNCHANGED flying /\ Fail("reverted")
    <2>1. Flights'
      BY <1>0, <1>2 DEF Inv, Flights
    <2> QED
      BY <1>0, <1>1, <1>2, <2>1, StepReverts
  <1>3. CASE /\ Succeeds(StepCall) /\ flying' = Append(flying, StepCall) /\ awaiting' = TRUE
             /\ UNCHANGED <<env, db, config, task, status, steps, loc, disturbed, late, faults>>
    <2>1. PICK c : c = StepCall
      OBVIOUS
    <2>2. Ledger /\ Len(chain) \in Nat /\ mined \in Nat /\ mined <= Len(chain) /\ Flights
      BY LedgerTypes DEF Inv, Stores
    <2>3. CallSound(chain, c) /\ c.after = Len(chain)
      BY <1>0, <1>1, <2>1, StepSound, CallParts
    <2>4. c.fn = "upgrade" => Step.do = "upgrade"
      BY <1>0, <2>1, CallParts DEF CallSteps
    <2>5. c.fn = "upgrade" => flying = <<>> /\ c.to = loc["impl"]
      BY <1>0, <1>1, <2>1, <2>4, CallParts, CallNeeds DEF OwnOnly
    <2>6. /\ Flights' /\ Len(flying') = Len(flying) + 1 /\ flying'[Len(flying')] = c /\ flying' # <<>>
          /\ \A i \in 1..Len(flying) : flying'[i] = flying[i]
      BY <1>0, <1>3, <2>1, <2>2, <2>3, <2>5, FlightsSent
    <2>7. Stores'
      <3>1. Ledger' /\ Grows(chain, mined, chain', mined')
        BY <1>0, <2>2 DEF Ledger, Grows
      <3> QED
        BY <1>3, <3>1, StoresStay DEF Inv, Stores, env
    <2>8. Pending'
      <3>1. StepCall' = StepCall
        BY <1>0, <1>3 DEF StepCall, Step, upgrade, setBNFTGenericImpl, initialize, createOrUpgrade, createBNFT, Call,
                          SeenBound, NftsAssets, IsLive, env
      <3>2. Running' /\ Step' = Step
        BY <1>0, <1>3 DEF Running, Step
      <3> QED
        BY <1>0, <1>3, <2>1, <2>6, <3>1, <3>2 DEF Pending
    <2>9. FlightsGoOn
      <3>1. Len(flying) \in Nat /\ (flying = <<>> => Len(flying) = 0)
        BY <2>2, FlightTypes
      <3>2. OwnOnly => OwnOnly'
        BY <1>0, <1>3, <2>6, <3>1 DEF OwnOnly
      <3>3. ASSUME NEW i \in 1..Len(flying')
            PROVE  \/ \E j \in 1..Len(flying) : flying'[i] = flying[j]
                   \/ flying'[i].fn = "upgrade" => flying'[i].to = loc["impl"]
        <4>1. i \in 1..Len(flying) \/ i = Len(flying')
          BY <2>6, <3>1
        <4> QED
          BY <4>1, <2>5, <2>6
      <3> QED
        BY <1>0, <1>3, <3>2, <3>3 DEF FlightsGoOn
    <2>10. \A f : Holds(f) => Holds(f)'
      <3> SUFFICES ASSUME NEW f, Holds(f) PROVE Holds(f)'
        OBVIOUS
      <3>1. Lengths /\ Evolves /\ BnftsEvolve
        BY <1>0, <1>3, <2>2, <2>9 DEF Lengths, Evolves, BnftsEvolve, env
      <3>2. f[1] = "newest" => \A p \in 1..Len(chain') : chain'[p].logic <= loc["impl"]
        BY <1>0 DEF Holds
      <3> QED
        BY <1>0, <1>3, <3>1, <3>2, Survives
    <2>11. RevertedWhy'
      BY <1>0, <1>3 DEF RevertedWhy, Running
    <2> QED
      BY <1>0, <1>3, <2>6, <2>7, <2>8, <2>10, <2>11, Elsewhere DEF env
  <1> QED
    BY <1>2, <1>3 DEF SendCall

\* The task's own call, which succeeds: the script goes on.
LEMMA OwnCallInv ==
    ASSUME NEW P, NEW Q, NEW M, At(P, Q, M), Step.do \in CallSteps, awaiting, NEW c, c = StepCall, Succeeds(c), Does(c),
           UNCHANGED <<mined, room, db>>, Flights', Len(flying') = 0, flying' = <<>>, Continue
    PROVE  Inv'
  <1>0. Ledger /\ Stores /\ Len(chain) \in Nat /\ mined \in Nat /\ \A a \in 1..Len(chain) : chain[a].logic \in Nat
    BY LedgerTypes DEF At, Inv, Stores
  <1>1. /\ UNCHANGED <<network, key, config, task, disturbed, late, faults, loc>> /\ Advance(Tail(steps), loc)
        /\ awaiting' = FALSE
    BY DEF Continue, Advance, env
  <1>2. Stores'
    <2>1. Ledger' /\ Grows(chain, mined, chain', mined')
      BY DEF Does
    <2> QED
      BY <1>0, <1>1, <2>1, StoresStay DEF Stores
  <1>3. OwnOnly'
    BY <1>1 DEF OwnOnly
  <1>4. Lengths /\ Evolves
    <2>1. FlightsGoOn
      BY <1>1, <1>3 DEF FlightsGoOn
    <2>2. /\ Len(chain') = Len(chain)
          /\ \A a \in 1..Len(chain) : Alike(chain[a], chain'[a]) /\ DOMAIN chain[a].bnfts \subseteq DOMAIN chain'[a].bnfts
      BY DEF Does
    <2> QED
      BY <1>0, <1>1, <2>1, <2>2 DEF Lengths, Evolves, Alike
  <1>5. BnftsEvolve
    <2> SUFFICES ASSUME NEW a \in 1..Len(chain), NEW x \in DOMAIN chain[a].bnfts
                 PROVE  late' \/ chain'[a].bnfts[x] \in {chain[a].bnfts[x], chain[a].arg}
      BY DEF BnftsEvolve
    <2>1. x \in DOMAIN chain'[a].bnfts
      BY DEF Does
    <2>2. CASE c.fn # "upgradeBNFTWithImpl"
      BY <2>1, <2>2 DEF Does, Binding
    <2>3. CASE c.fn = "upgradeBNFTWithImpl"
      <3>1. Step.do = "createOrUpgrade"
        BY <2>3, CallParts DEF CallSteps
      <3>2. c.on = loc["registry"] /\ c.with = loc["generic"] /\ (late \/ loc["generic"] = chain[loc["registry"]].arg)
        BY <2>3, <3>1, CallParts, CallNeeds
      <3>3. chain'[a].bnfts[x] = IF a = c.on /\ x = c.to THEN c.with ELSE chain[a].bnfts[x]
        BY <2>1, <2>3 DEF Does, Binding
      <3> QED
        BY <3>2, <3>3, <1>1
    <2> QED
      BY <2>2, <2>3
  <1>6. \A f \in P : ~Killed(f, Step) => Holds(f)'
    <2> SUFFICES ASSUME NEW f \in P, ~Killed(f, Step) PROVE Holds(f)'
      OBVIOUS
    <2>1. Holds(f)
      BY DEF At
    <2>2. f[1] \in Upsets(Step) => f[1] \in {"set", "unset", "other"}
      BY DEF Killed
    <2>3. f[1] = "logic" => \A a \in 1..Len(chain) : chain'[a].logic = chain[a].logic
      <3>1. ASSUME f[1] = "logic" PROVE c.fn # "upgrade"
        <4>1. Step.do # "upgrade"
          BY <2>2, <3>1 DEF Upsets
        <4> QED
          BY <4>1, CallParts DEF CallSteps
      <3> QED
        BY <3>1 DEF Does
    <2>4. f[1] \in {"arg", "served", "read"} => \A a \in 1..Len(chain) : chain'[a].arg = chain[a].arg
      <3>1. ASSUME f[1] \in {"arg", "served", "read"} PROVE c.fn \notin Setting
        <4>1. Step.do \notin {"setBNFTGenericImpl", "initialize"}
          BY <2>2, <3>1 DEF Upsets
        <4> QED
          BY <4>1, CallParts DEF CallSteps, Setting
      <3> QED
        BY <3>1 DEF Does
    <2>5. f[1] = "seen" => \A a \in 1..Len(chain) : DOMAIN chain'[a].bnfts = DOMAIN chain[a].bnfts
      <3>1. ASSUME f[1] = "seen" PROVE c.fn \notin Binding
        <4>1. Step.do \notin {"createOrUpgrade", "createMocked", "createBNFT"}
          BY <2>2, <3>1 DEF Upsets
        <4> QED
          BY <4>1, CallParts DEF CallSteps, Binding
      <3> QED
        BY <3>1 DEF Does
    <2>6. f[1] = "newest" => \A p \in 1..Len(chain') : chain'[p].logic <= loc["impl"]
      <3> SUFFICES ASSUME f[1] = "newest", NEW p \in 1..Len(chain') PROVE chain'[p].logic <= loc["impl"]
        OBVIOUS
      <3>1. Names("impl") /\ chain[p].logic <= loc["impl"] /\ p \in 1..Len(chain)
        BY <2>1 DEF Holds, Does
      <3>2. c.fn = "upgrade" => c.to = loc["impl"]
        BY CallParts DEF CallSteps
      <3>3. chain'[p].logic = chain[p].logic \/ (c.fn = "upgrade" /\ chain'[p].logic = c.to)
        BY <3>1 DEF Does
      <3>4. loc["impl"] <= loc["impl"]
        BY <3>1, <1>0 DEF Names
      <3> QED
        BY <3>1, <3>2, <3>3, <3>4
    <2> QED
      BY <1>1, <1>4, <1>5, <2>1, <2>3, <2>4, <2>5, <2>6, Survives
  <1>7. \A f \in Gives(Step) : Holds(f)'
    <2>1. ASSUME NEW v, Names(v) PROVE Names(v)' /\ loc'[v] = loc[v] /\ loc[v] \in 1..Len(chain)
      BY <2>1, <1>1 DEF Names, Does
    <2>2. CASE Step.do = "upgrade"
      <3>1. /\ Names("proxy") /\ Names("impl") /\ Names("admin")
            /\ c.fn = "upgrade" /\ c.on = loc["proxy"] /\ c.to = loc["impl"] /\ c.with = loc["admin"]
        BY <2>2, CallParts, CallNeeds
      <3>2. chain[c.on].admin = c.with
        BY <3>1, Zenon DEF Succeeds
      <3>3. chain'[loc'["proxy"]].logic = loc'["impl"] /\ chain'[loc'["proxy"]].admin = loc'["admin"]
        <4>1. \A a \in 1..Len(chain) : a = c.on => chain'[a].logic = c.to /\ chain'[a].admin = chain[a].admin
          BY <3>1 DEF Does, Alike
        <4> QED
          BY <2>1, <3>1, <3>2, <4>1
      <3>4. Same("impl", chain[loc["proxy"]].logic)' /\ Same("admin", chain[loc["proxy"]].admin)'
        BY <2>1, <3>1, <3>3 DEF Same, Names
      <3>5. Holds(Logic("proxy", "impl"))' /\ Holds(Admin("proxy", "admin"))'
        BY <2>1, <3>1, <3>4, <1>3, FactParts DEF Holds
      <3>6. Gives(Step) = {Logic("proxy", "impl"), Admin("proxy", "admin")}
        BY <2>2 DEF Gives
      <3> QED
        BY <3>5, <3>6
    <2>3. CASE Step.do = "setBNFTGenericImpl"
      <3>1. Names("proxy") /\ Names("generic") /\ c.fn \in Setting /\ c.on = loc["proxy"] /\ c.to = loc["generic"]
        BY <2>3, CallParts, CallNeeds DEF Setting
      <3>2. Same("generic", chain[loc["proxy"]].arg)'
        BY <2>1, <3>1 DEF Does, Same, Names
      <3>3. Holds(ArgOf("proxy", "generic"))'
        BY <2>1, <3>1, <3>2, <1>3, FactParts DEF Holds
      <3>4. Gives(Step) = {ArgOf("proxy", "generic")}
        BY <2>3 DEF Gives
      <3> QED
        BY <3>3, <3>4
    <2>4. CASE Step.do = "initialize"
      <3>1. Names("receiver") /\ Names("registry") /\ c.fn \in Setting /\ c.on = loc["receiver"] /\ c.to = loc["registry"]
        BY <2>4, CallParts, CallNeeds DEF Setting
      <3>2. Same("registry", chain[loc["receiver"]].arg)'
        BY <2>1, <3>1 DEF Does, Same, Names
      <3>3. Holds(ArgOf("receiver", "registry"))'
        BY <2>1, <3>1, <3>2, <1>3, FactParts DEF Holds
      <3>4. Gives(Step) = {ArgOf("receiver", "registry")}
        BY <2>4 DEF Gives
      <3> QED
        BY <3>3, <3>4
    <2>5. CASE Step.do = "createOrUpgrade"
      <3>1. PICK s, r, a : s = Step.asset /\ r = loc["registry"] /\ a = NftsAssets(s)
        OBVIOUS
      <3>2. /\ Names("registry") /\ c.on = r /\ c.to = a /\ c.fn \in Binding
            /\ c.fn # "createBNFT" => c.with = loc["generic"] /\ (late \/ loc["generic"] = chain[r].arg)
        BY <2>5, <3>1, CallParts, CallNeeds DEF Binding
      <3>3. Names("registry")' /\ loc'["registry"] = r /\ r \in 1..Len(chain) /\ NftsAssets(s)' = a
        BY <2>1, <3>1, <3>2, <1>1 DEF NftsAssets, IsLive
      <3>4. a \in DOMAIN chain'[r].bnfts /\ chain'[r].arg = chain[r].arg
        BY <3>2, <3>3 DEF Does, Binding, Setting
      <3>5. late \/ chain'[r].bnfts[a] = chain'[r].arg
        BY <3>2, <3>3, <3>4 DEF Does
      <3>6. BoundTo(s, "registry")' /\ (late' \/ chain'[loc'["registry"]].bnfts[NftsAssets(s)'] = chain'[loc'["registry"]].arg)
        BY <3>3, <3>4, <3>5, <1>1 DEF BoundTo, Bound
      <3>7. Holds(Served(s))'
        BY <3>3, <3>6, <1>3, FactParts DEF Holds
      <3>8. Gives(Step) = {Served(s)}
        BY <2>5, <3>1 DEF Gives
      <3> QED
        BY <3>7, <3>8
    <2>6. CASE Step.do \in {"createMocked", "createBNFT"}
      BY <2>6 DEF Gives
    <2> QED
      BY <2>2, <2>3, <2>4, <2>5, <2>6 DEF CallSteps
  <1>8. Step.do \notin {"send", "throw", "exit"}
    BY DEF CallSteps
  <1> QED
    BY <1>1, <1>2, <1>6, <1>7, <1>8, Onward

\* A call that nobody awaits.
LEMMA LateCallInv ==
    ASSUME Inv, ~(awaiting /\ Len(flying) = 1), NEW c, flying # <<>>, c = flying[1],
           Does(c) \/ chain' = chain, flying' = Tail(flying), Flights', Len(flying') = Len(flying) - 1,
           \A i \in 1..Len(flying') : flying'[i] = flying[i + 1] /\ i + 1 \in 1..Len(flying),
           late' = TRUE, UNCHANGED <<env, mined, room, db, config, script, disturbed, faults>>
    PROVE  Inv'
  <1>0. /\ Ledger /\ Len(chain) \in Nat /\ mined \in Nat /\ \A a \in 1..Len(chain) : chain[a].logic \in Nat
        /\ Len(flying) \in Nat
    BY LedgerTypes, FlightTypes DEF Inv, Stores
  <1>1. UNCHANGED <<network, key, mined, room, db, config, task, status, steps, loc, awaiting, disturbed, faults>>
    BY DEF env, script
  <1>2. Len(flying) \in Nat \ {0} /\ 1 \in 1..Len(flying)
    <2>1. PICK S : flying \in Seq(S)
      BY DEF Inv, Flights
    <2> QED
      BY <2>1
  <1>3. ~OwnOnly
    <2>1. flying = <<>> => Len(flying) = 0
      OBVIOUS
    <2> QED
      BY <2>1, <1>2 DEF OwnOnly
  <1>4. /\ Ledger' /\ Grows(chain, mined, chain', mined') /\ Len(chain') = Len(chain)
        /\ \A a \in 1..Len(chain) :
              /\ Alike(chain[a], chain'[a]) /\ DOMAIN chain[a].bnfts \subseteq DOMAIN chain'[a].bnfts
              /\ \/ chain'[a].logic = chain[a].logic
                 \/ c.fn = "upgrade" /\ chain'[a].logic = c.to
    <2>1. CASE Does(c)
      BY <2>1 DEF Does
    <2>2. CASE chain' = chain
      BY <2>2, <1>0, <1>1 DEF Ledger, Grows, Alike
    <2> QED
      BY <2>1, <2>2
  <1>5. Stores'
    BY <1>1, <1>4, StoresStay DEF Inv, Stores
  <1>6. Lengths /\ Evolves /\ BnftsEvolve
    <2>1. FlightsGoOn
      BY <1>1, <1>3 DEF FlightsGoOn
    <2> QED
      BY <2>1, <1>0, <1>1, <1>4 DEF Lengths, Evolves, BnftsEvolve, Alike
  <1>7. \A f : Holds(f) => Holds(f)'
    <2> SUFFICES ASSUME NEW f, Holds(f) PROVE Holds(f)'
      OBVIOUS
    <2>1. f[1] \notin {"logic", "arg"}
      BY <1>3 DEF Holds
    <2>2. f[1] = "newest" => \A p \in 1..Len(chain') : chain'[p].logic <= loc["impl"]
      <3> SUFFICES ASSUME f[1] = "newest", NEW p \in 1..Len(chain') PROVE chain'[p].logic <= loc["impl"]
        OBVIOUS
      <3>1. chain[p].logic <= loc["impl"] /\ (c.fn = "upgrade" => c.to <= loc["impl"])
        BY <1>2, <1>4 DEF Holds
      <3>2. chain'[p].logic = chain[p].logic \/ (c.fn = "upgrade" /\ chain'[p].logic = c.to)
        BY <1>4
      <3> QED
        BY <3>1, <3>2
    <2> QED
      BY <1>1, <1>6, <2>1, <2>2, Survives
  <1>8. Pending'
    <2> SUFFICES ASSUME awaiting
                 PROVE  Running' /\ Step'.do \in CallSteps /\ flying' # <<>> /\ flying'[Len(flying')] = StepCall'
      BY <1>1 DEF Pending, Inv
    <2>1. Running /\ Step.do \in CallSteps /\ flying[Len(flying)] = StepCall
      BY DEF Inv, Pending
    <2>2. StepCall' = StepCall
      BY <1>1, <1>4 DEF StepCall, Step, upgrade, setBNFTGenericImpl, initialize, createOrUpgrade, createBNFT, Call,
                        SeenBound, NftsAssets, IsLive
    <2>3. Running' /\ Step' = Step
      BY <1>1, <2>1 DEF Running, Step
    <2>4. Len(flying) - 1 \in Nat \ {0} /\ Len(flying') \in 1..Len(flying') /\ Len(flying') + 1 = Len(flying)
      BY <1>2
    <2>5. flying'[Len(flying')] = flying[Len(flying)]
      BY <2>4
    <2>6. flying' # <<>>
      <3>1. flying' = <<>> => Len(flying') = 0
        OBVIOUS
      <3> QED
        BY <3>1, <2>4
    <2> QED
      BY <2>1, <2>2, <2>3, <2>5, <2>6
  <1>9. RevertedWhy'
    BY DEF RevertedWhy
  <1> QED
    BY <1>1, <1>5, <1>7, <1>8, <1>9, Elsewhere

\* What mining a call finds and does.
LEMMA MinedCall ==
    ASSUME Inv, MineCall
    PROVE  \E c : /\ c = flying[1] /\ CallSound(chain, c) /\ c.after = mined /\ flying # <<>>
                  /\ IF Succeeds(c) THEN Does(c) /\ chain' = Effect(c) ELSE chain' = chain
                  /\ Flights' /\ Len(flying') = Len(flying) - 1 /\ flying' = Tail(flying)
                  /\ \A i \in 1..Len(flying') : flying'[i] = flying[i + 1] /\ i + 1 \in 1..Len(flying)
                  /\ UNCHANGED <<mined, room>>
                  /\ IF awaiting /\ Len(flying) = 1
                     THEN IF Succeeds(c) THEN Continue /\ UNCHANGED db ELSE Fail("reverted")
                     ELSE /\ late' = TRUE
                          /\ UNCHANGED <<env, db, config, script, disturbed, faults>>
  <1>1. PICK c : c = Head(flying)
    OBVIOUS
  <1>2. /\ c.after <= mined /\ chain' = IF Succeeds(c) THEN Effect(c) ELSE chain
        /\ IF awaiting /\ Len(flying) = 1
           THEN IF Succeeds(c) THEN Continue /\ UNCHANGED db ELSE Fail("reverted")
           ELSE /\ late' = TRUE
                /\ UNCHANGED <<env, db, config, script, disturbed, faults>>
    BY <1>1, Zenon DEF MineCall
  <1>3. flying # <<>> /\ flying' = Tail(flying) /\ UNCHANGED <<mined, room>>
    BY DEF MineCall
  <1>4. PICK S : flying \in Seq(S)
    BY DEF Inv, Flights
  <1>5. c = flying[1] /\ 1 \in 1..Len(flying)
    BY <1>1, <1>3, <1>4
  <1>6. CallSound(chain, c) /\ mined <= c.after
    BY <1>5 DEF Inv, Flights
  <1>7. c.after = mined
    <2>1. c.after \in Nat /\ mined \in Nat
      BY <1>6, LedgerTypes DEF CallSound, Inv, Stores
    <2> QED
      BY <2>1, <1>2, <1>6
  <1>8. Ledger
    BY DEF Inv, Stores
  <1>9. IF Succeeds(c) THEN Does(c) /\ chain' = Effect(c) ELSE chain' = chain
    BY <1>2, <1>3, <1>6, <1>8, CallDoes
  <1>10. Ledger' /\ Grows(chain, mined, chain', mined')
    <2>1. CASE Succeeds(c)
      BY <2>1, <1>9 DEF Does
    <2>2. CASE ~Succeeds(c)
      BY <2>2, <1>3, <1>8, <1>9, LedgerTypes DEF Ledger, Grows
    <2> QED
      BY <2>1, <2>2
  <1>11. /\ Flights' /\ Len(flying') = Len(flying) - 1
         /\ \A i \in 1..Len(flying') : flying'[i] = flying[i + 1] /\ i + 1 \in 1..Len(flying)
    BY <1>3, <1>8, <1>10, FlightsMined DEF Inv
  <1> QED
    BY <1>2, <1>3, <1>5, <1>6, <1>7, <1>9, <1>11

LEMMA MineCallInv ==
    ASSUME Inv, MineCall
    PROVE  Inv'
  <1>1. PICK c : /\ c = flying[1] /\ CallSound(chain, c) /\ c.after = mined /\ flying # <<>>
                 /\ IF Succeeds(c) THEN Does(c) /\ chain' = Effect(c) ELSE chain' = chain
                 /\ Flights' /\ Len(flying') = Len(flying) - 1 /\ flying' = Tail(flying)
                 /\ \A i \in 1..Len(flying') : flying'[i] = flying[i + 1] /\ i + 1 \in 1..Len(flying)
                 /\ UNCHANGED <<mined, room>>
                 /\ IF awaiting /\ Len(flying) = 1
                    THEN IF Succeeds(c) THEN Continue /\ UNCHANGED db ELSE Fail("reverted")
                    ELSE /\ late' = TRUE
                         /\ UNCHANGED <<env, db, config, script, disturbed, faults>>
    BY MinedCall
  <1>2. CASE awaiting /\ Len(flying) = 1
    <2>1. Running /\ Step.do \in CallSteps /\ c = StepCall
      BY <1>1, <1>2 DEF Inv, Pending
    <2>2. PICK P, Q, M : At(P, Q, M)
      <3>1. steps # <<>>
        BY <2>1 DEF Inv, Program
      <3> QED
        BY <2>1, <3>1, Place
    <2>3. flying' = <<>> /\ Len(flying') = 0
      <3>1. PICK S : flying \in Seq(S)
        BY DEF Inv, Flights
      <3>2. Tail(flying) \in Seq(S) /\ Len(Tail(flying)) = 0
        BY <1>1, <1>2, <3>1
      <3> DEFINE t == Tail(flying)
      <3>3. t \in Seq(S) /\ Len(t) = 0
        BY <3>2
      <3> HIDE DEF t
      <3>4. t = <<>>
        BY <3>3
      <3>5. flying' = t
        BY <1>1 DEF t
      <3> QED
        BY <3>3, <3>4, <3>5
    <2>4. CASE Succeeds(c)
      <3>1. Does(c) /\ Continue /\ UNCHANGED db /\ Flights' /\ UNCHANGED <<mined, room>>
        BY <1>1, <1>2, <2>4
      <3> QED
        BY <1>2, <2>1, <2>2, <2>3, <2>4, <3>1, OwnCallInv
    <2>5. CASE ~Succeeds(c)
      <3>1. Fail("reverted") /\ UNCHANGED <<chain, mined, room>> /\ Flights'
        BY <1>1, <1>2, <2>5
      <3>2. ~Succeeds(StepCall)
        BY <2>1, <2>5
      <3> QED
        BY <2>1, <2>2, <3>1, <3>2, StepReverts
    <2> QED
      BY <2>4, <2>5
  <1>3. CASE ~(awaiting /\ Len(flying) = 1)
    <2>1. Does(c) \/ chain' = chain
      BY <1>1
    <2>2. late' = TRUE /\ UNCHANGED <<env, mined, room, db, config, script, disturbed, faults>>
      BY <1>1, <1>3
    <2> QED
      BY <1>1, <1>3, <2>1, <2>2, LateCallInv
  <1> QED
    BY <1>2, <1>3
-----------------------------------------------------------------------------
(* Every step of a task, and the steps of others.                           *)

LEMMA TaskStepInv ==
    ASSUME Inv, TaskStep
    PROVE  Inv'
  BY LoadInv, ConfigInv, InsertInv, SaveInv, SendInv, ReadInv, LookInv, SendCallInv,
     VerifyInv, ImpossibleInv, ThrowInv DEF TaskStep

\* What the configuration has, and which task it is, holds at the start of a script.
LEMMA StartInv ==
    ASSUME Inv, Start
    PROVE  Inv'
  <1>1. PICK t \in Tasks[network], verify \in Flags[network] : \E s \in Params(t) :
            /\ Sends(Script(t, verify, s)) <= room /\ Script(t, verify, s) # <<>>
            /\ steps' = Script(t, verify, s) /\ task' = t
    BY DEF Start
  <1>2. PICK s \in Params(t) : /\ Sends(Script(t, verify, s)) <= room /\ Script(t, verify, s) # <<>>
                               /\ steps' = Script(t, verify, s) /\ task' = t
    BY <1>1
  <1>3. /\ status' = "running" /\ disturbed' = FALSE /\ late' = FALSE /\ awaiting' = FALSE
        /\ UNCHANGED <<network, key, chain, mined, flying, room, db, config, faults>>
    BY DEF Start, env, ledger
  <1>4. t \in TaskNames /\ verify \in BOOLEAN
    BY TasksAssumption DEF Inv, Stores
  <1> DEFINE L == {Configured(id) : id \in {i \in ConfigIds : IsSet(i)}}
                  \cup {Unset(id) : id \in {i \in ConfigIds : ~IsSet(i)}}
                  \cup (IF t = "full:deploy-bnft-tokens" THEN {} ELSE {Other})
  <1>5. Lasts(L) /\ (t # "full:deploy-bnft-tokens" => Other \in L)
    BY FactParts DEF Lasts
  <1>6. \A f \in L : Holds(f)'
    <2>1. ASSUME NEW id \in ConfigIds, IsSet(id) PROVE Holds(Configured(id))'
      BY <2>1, <1>3, FactParts DEF Holds, IsSet
    <2>2. ASSUME NEW id \in ConfigIds, ~IsSet(id) PROVE Holds(Unset(id))'
      BY <2>2, <1>3, FactParts DEF Holds, IsSet
    <2>3. ASSUME t # "full:deploy-bnft-tokens" PROVE Holds(Other)'
      BY <2>3, <1>2, FactParts DEF Holds
    <2> QED
      BY <2>1, <2>2, <2>3
  <1> HIDE DEF L
  <1>7. PICK Q : Enough(t, Q) /\ Outline(L, Script(t, verify, s), Q)
    BY <1>4, <1>5, ScriptOut
  <1>8. Progress'
    BY <1>2, <1>6, <1>7 DEF Progress
  <1>9. Stores'
    <2>1. Ledger' /\ Grows(chain, mined, chain', mined')
      BY <1>3, LedgerTypes DEF Inv, Stores, Ledger, Grows
    <2> QED
      BY <1>3, <2>1, StoresStay DEF Inv, Stores
  <1>10. Program'
    BY <1>2, <1>3 DEF Inv, Program, Running, Statuses
  <1>11. RevertedWhy' /\ Pending' /\ Flights'
    BY <1>3 DEF RevertedWhy, Pending, Inv, Flights
  <1> QED
    BY <1>8, <1>9, <1>10, <1>11 DEF Inv

LEMMA CrashInv ==
    ASSUME Inv, Crash
    PROVE  Inv'
  <1>1. /\ status' = "crashed" /\ steps' = <<>> /\ faults' = faults + 1 /\ faults < MaxFaults /\ awaiting' = FALSE
        /\ UNCHANGED <<network, key, chain, mined, flying, room, db, config, task, disturbed, late>>
    BY DEF Crash, env, ledger
  <1>2. Stores'
    <2>1. Ledger' /\ Grows(chain, mined, chain', mined')
      BY <1>1, LedgerTypes DEF Inv, Stores, Ledger, Grows
    <2>2. faults' \in 0..MaxFaults /\ disturbed' \in BOOLEAN /\ late' \in BOOLEAN
      BY <1>1, BoundsAssumption DEF Inv, Stores
    <2> QED
      BY <1>1, <2>1, <2>2, StoresStay DEF Inv
  <1>3. Program'
    BY <1>1 DEF Inv, Program, Running, Statuses
  <1>4. Progress' /\ RevertedWhy' /\ Pending' /\ Flights'
    BY <1>1 DEF Progress, RevertedWhy, Pending, Inv, Flights
  <1> QED
    BY <1>2, <1>3, <1>4 DEF Inv

\* The call that is awaited stays that of the first step.
LEMMA PendingStays ==
    ASSUME Inv, UNCHANGED <<network, flying, status, steps, loc, awaiting>>, Len(chain)' = Len(chain)
    PROVE  Pending'
  <1>1. StepCall' = StepCall
    BY DEF StepCall, Step, upgrade, setBNFTGenericImpl, initialize, createOrUpgrade, createBNFT, Call,
           SeenBound, NftsAssets, IsLive
  <1>2. Running' = Running /\ Step' = Step
    BY DEF Running, Step
  <1> QED
    BY <1>1, <1>2 DEF Inv, Pending

\* What a reverted run had found is mined, and stays as it was.
LEMMA MinedBefore ==
    ASSUME Inv
    PROVE  /\ TokensRegistry <= mined
           /\ \A s \in Symbols : NftsAssets(s) \in 0..mined
  <1>1. mined \in Nat /\ N \in Nat
    BY LedgerTypes, NftContractIdAssumption DEF Inv, Stores, N
  <1>2. TokensRegistry <= mined
    <2>1. "BNFTRegistry" \in ConfigIds /\ "BNFTRegistry" \in Ids \ EarlyIds
      BY DEF Ids, eContractid, ConfigIds, EarlyIds
    <2>2. config["BNFTRegistry"] <= mined /\ db["BNFTRegistry"] <= mined
      BY <2>1, <1>1 DEF Inv, Stores, RecordedIsMined
    <2> QED
      BY <2>2 DEF TokensRegistry
  <1>3. ASSUME NEW s \in Symbols PROVE NftsAssets(s) \in 0..mined
    <2>1. CASE IsLive(network)
      <3>1. \E i \in 1..Len(NftContractId) : NftContractId[i] = s
        BY NftContractIdAssumption DEF Symbols, ToSet
      <3>2. IndexOfSymbol(s) \in 1..N
        BY <3>1 DEF IndexOfSymbol, N
      <3>3. N <= mined
        BY <2>1 DEF Inv, Stores
      <3> QED
        BY <2>1, <3>2, <3>3, <1>1 DEF NftsAssets
    <2>2. CASE ~IsLive(network)
      BY <2>2, <1>1 DEF NftsAssets
    <2> QED
      BY <2>1, <2>2
  <1> QED
    BY <1>2, <1>3

LEMMA MineContractInv ==
    ASSUME Inv, MineContract
    PROVE  Inv'
  <1>0. Ledger /\ Len(chain) \in Nat /\ mined \in Nat /\ Flights
    BY LedgerTypes DEF Inv, Stores
  <1>1. /\ mined < Len(chain) /\ mined' = mined + 1
        /\ UNCHANGED <<network, key, chain, flying, room, db, config, task, status, steps, loc, awaiting,
                       disturbed, late, faults>>
    BY DEF MineContract, env, script
  <1>2. Grows(chain, mined, chain', mined')
    BY <1>0, <1>1 DEF Grows
  <1>3. Ledger'
    <2>1. \A r \in 1..Len(chain') : GoodContract(chain', mined', chain'[r], r)
      <3> SUFFICES ASSUME NEW r \in 1..Len(chain') PROVE GoodContract(chain', mined', chain'[r], r)
        OBVIOUS
      <3>1. /\ r \in Nat /\ chain'[r].arg \in Nat /\ chain'[r].logic \in Nat /\ chain'[r].bnfts \in Books
            /\ GoodContract(chain, mined, chain'[r], r)
        BY <1>0, <1>1, LedgerTypes DEF Ledger
      <3>2. mined' \in Nat /\ Len(chain') \in Nat
        BY <1>0, <1>1
      <3> QED
        BY <1>0, <1>2, <3>1, <3>2, GoodStays
    <2> QED
      BY <1>0, <1>1, <2>1 DEF Ledger
  <1>4. Stores'
    BY <1>1, <1>2, <1>3, StoresStay DEF Inv, Stores
  <1>5. Flights'
    <2>1. \A i \in 1..Len(flying) : mined' <= flying[i].after
      <3>1. \A i \in 1..Len(flying) : flying[i].after \in Nat
        BY <1>0, FlightTypes
      <3>2. \E S : flying \in Seq(S)
        BY <1>0, FlightTypes
      <3>3. \A i \in 1..Len(flying) : mined < flying[i].after
        BY <3>2 DEF MineContract
      <3> QED
        BY <1>0, <1>1, <3>1, <3>3
    <2> QED
      BY <1>0, <1>1, <1>2, <1>3, <2>1, FlightsStay
  <1>6. \A f : Holds(f) => Holds(f)'
    <2> SUFFICES ASSUME NEW f, Holds(f) PROVE Holds(f)'
      OBVIOUS
    <2>1. Lengths /\ Evolves /\ BnftsEvolve
      BY <1>0, <1>1 DEF Lengths, Evolves, BnftsEvolve, FlightsGoOn, OwnOnly
    <2>2. f[1] = "newest" => \A p \in 1..Len(chain') : chain'[p].logic <= loc["impl"]
      BY <1>1 DEF Holds
    <2> QED
      BY <1>1, <2>1, <2>2, Survives
  <1>7. RevertedWhy'
    <2>1. /\ TokensRegistry' = TokensRegistry
          /\ \A s : NftsAssets(s)' = NftsAssets(s)
      BY <1>1 DEF TokensRegistry, IsSet, NftsAssets, IsLive
    <2>2. \A k : k <= mined => (IsMined(k)' <=> IsMined(k))
      BY <1>0, <1>1 DEF IsMined
    <2>3. IsProxy(TokensRegistry, "BNFTRegistry")' <=> IsProxy(TokensRegistry, "BNFTRegistry")
      BY <1>1, <2>1, <2>2, MinedBefore DEF IsProxy
    <2>4. ASSUME NEW s \in Symbols PROVE Is(NftsAssets(s), "Collection")' <=> Is(NftsAssets(s), "Collection")
      <3>1. NftsAssets(s) <= mined
        BY <1>0, MinedBefore
      <3> QED
        BY <1>1, <2>1, <2>2, <3>1 DEF Is
    <2>5. chain'[TokensRegistry'].ours = chain[TokensRegistry].ours
      BY <1>1, <2>1
    <2> QED
      BY <1>1, <2>3, <2>4, <2>5 DEF Inv, RevertedWhy
  <1>8. Pending'
    BY <1>1, PendingStays
  <1> QED
    BY <1>1, <1>4, <1>5, <1>6, <1>7, <1>8, Elsewhere

\* To the chain, a bNFT created by others is a call.
LEMMA OutsiderInv ==
    ASSUME Inv, NEW r \in 1..mined, NEW a \in 1..mined, OutsiderCreates(r, a)
    PROVE  Inv'
  <1>0. Ledger /\ Len(chain) \in Nat /\ mined \in Nat /\ mined <= Len(chain) /\ Flights
    BY LedgerTypes DEF Inv, Stores
  <1>1. /\ chain' = SetBnft(r, a, chain[r].arg) /\ disturbed' = TRUE /\ faults' = faults + 1 /\ faults < MaxFaults
        /\ UNCHANGED <<network, key, mined, flying, room, db, config, task, status, steps, loc, awaiting, late>>
        /\ IsProxy(r, "BNFTRegistry") /\ Is(a, "Collection") /\ ~Bound(r, a)
    BY DEF OutsiderCreates, env, script
  <1>2. PICK c : c = [fn |-> "createBNFT", on |-> r, to |-> a, with |-> 0, after |-> mined]
    OBVIOUS
  <1>3. c.fn = "createBNFT" /\ c.on = r /\ c.to = a /\ c.after = mined
    BY <1>2
  <1>4. CallSound(chain, c) /\ c.after <= mined
    BY <1>0, <1>3 DEF CallSound, Calls
  <1>5. Succeeds(c) /\ chain' = Effect(c)
    <2>1. Succeeds(c) <=> IsProxy(c.on, "BNFTRegistry") /\ Is(c.to, "Collection") /\ ~Bound(c.on, c.to)
      BY <1>3, Zenon DEF Succeeds
    <2>2. Effect(c) = SetBnft(c.on, c.to, chain[c.on].arg)
      BY <1>3, Zenon DEF Effect
    <2> QED
      BY <2>1, <2>2, <1>1, <1>3
  <1>6. Does(c)
    BY <1>0, <1>1, <1>4, <1>5, CallDoes
  <1>7. /\ Ledger' /\ Len(chain)' = Len(chain) /\ Grows(chain, mined, chain', mined')
        /\ \A k \in 1..Len(chain) :
              /\ Alike(chain[k], chain'[k]) /\ chain'[k].logic = chain[k].logic /\ chain'[k].arg = chain[k].arg
              /\ DOMAIN chain[k].bnfts \subseteq DOMAIN chain'[k].bnfts
    BY <1>3, <1>6 DEF Does, Setting
  <1>8. Stores'
    <2>1. faults' \in 0..MaxFaults /\ disturbed' \in BOOLEAN /\ late' \in BOOLEAN
      BY <1>1, BoundsAssumption DEF Inv, Stores
    <2> QED
      BY <1>1, <1>7, <2>1, StoresStay DEF Inv
  <1>9. Flights'
    <2>1. \A i \in 1..Len(flying) : mined' <= flying[i].after
      BY <1>0, <1>1 DEF Flights
    <2> QED
      BY <1>0, <1>1, <1>7, <2>1, FlightsStay
  <1>10. \A f : Holds(f) => Holds(f)'
    <2> SUFFICES ASSUME NEW f, Holds(f) PROVE Holds(f)'
      OBVIOUS
    <2>1. Lengths /\ Evolves /\ BnftsEvolve
      BY <1>0, <1>1, <1>7 DEF Lengths, Evolves, BnftsEvolve, FlightsGoOn, OwnOnly, Alike
    <2>2. f[1] = "newest" => \A p \in 1..Len(chain') : chain'[p].logic <= loc["impl"]
      BY <1>7 DEF Holds
    <2> QED
      BY <1>1, <1>7, <2>1, <2>2, Survives
  <1>11. RevertedWhy'
    BY <1>1 DEF RevertedWhy
  <1>12. Pending'
    BY <1>1, <1>7, PendingStays
  <1> QED
    BY <1>1, <1>8, <1>9, <1>10, <1>11, <1>12, Elsewhere

LEMMA StutterInv ==
    ASSUME Inv, UNCHANGED vars
    PROVE  Inv'
  <1>1. UNCHANGED <<network, key, chain, mined, flying, room, db, config, task, status, steps, loc, awaiting,
                    disturbed, late, faults>>
    BY DEF vars, env, ledger, script
  <1>2. Stores'
    <2>1. Ledger' /\ Grows(chain, mined, chain', mined')
      BY <1>1, LedgerTypes DEF Inv, Stores, Ledger, Grows
    <2> QED
      BY <1>1, <2>1, StoresStay DEF Inv, Stores
  <1>3. \A f : Holds(f) => Holds(f)'
    BY <1>1, StaysPut DEF Inv, Stores, Still
  <1>4. RevertedWhy'
    BY <1>1 DEF Inv, RevertedWhy, TokensRegistry, IsSet, IsProxy, Is, IsMined, NftsAssets, IsLive
  <1>5. Flights' /\ Pending'
    <2>1. Flights'
      BY <1>1 DEF Inv, Flights
    <2> QED
      BY <1>1, <2>1, PendingStays
  <1> QED
    BY <1>1, <1>2, <1>3, <1>4, <1>5, Elsewhere

\* A proxy or an admin of the db is configured.
LEMMA EditInv ==
    ASSUME Inv, NEW id \in ConfigIds, EditConfig(id)
    PROVE  Inv'
  <1>0. Ledger /\ Len(chain) \in Nat /\ mined \in Nat /\ mined <= Len(chain)
    BY LedgerTypes DEF Inv, Stores
  <1>1. /\ ~Running /\ config' = [config EXCEPT ![id] = db[id]] /\ status' = "idle"
        /\ UNCHANGED <<network, key, chain, mined, flying, room, db, task, steps, loc, awaiting, disturbed, late, faults>>
    BY DEF EditConfig, env, ledger
  <1>2. db[id] \in 1..mined /\ (id \notin AdminIds => chain[db[id]].kind = id /\ chain[db[id]].logic # 0)
    BY DEF EditConfig, Is, IsProxy, IsMined, AdminIds
  <1>3. config \in [ConfigIds -> 0..mined] /\ ConfigSound
    BY DEF Inv, Stores
  <1>4. config' \in [ConfigIds -> 0..mined']
    BY <1>0, <1>1, <1>2, <1>3
  <1>5. ConfigSound'
    BY <1>1, <1>2, <1>3 DEF ConfigSound, IsSet
  <1>6. Ledger' /\ RecordedIsMined'
    BY <1>1 DEF Inv, Stores, Ledger, RecordedIsMined
  <1>7. Stores'
    BY <1>1, <1>4, <1>5, <1>6 DEF Inv, Stores, IsLive
  <1>8. Program'
    BY <1>1 DEF Inv, Program, Running, Statuses
  <1>9. Progress' /\ RevertedWhy' /\ Flights'
    BY <1>1 DEF Progress, RevertedWhy, Inv, Flights
  <1>10. Pending'
    BY <1>1 DEF Inv, Pending
  <1> QED
    BY <1>7, <1>8, <1>9, <1>10 DEF Inv

LEMMA TransferInv ==
    ASSUME Inv, NEW k \in 1..mined, TransferOwner(k)
    PROVE  Inv'
  <1>0. Ledger /\ Flights /\ Len(chain) \in Nat /\ mined \in Nat /\ mined <= Len(chain)
    BY LedgerTypes DEF Inv, Stores
  <1>1. PICK c : c = Call("transferOwnership", k, 0, 0)
    OBVIOUS
  <1>2. /\ ~Running /\ flying' = Append(flying, c) /\ status' = "idle" /\ faults' = faults + 1 /\ faults < MaxFaults
        /\ UNCHANGED <<network, key, chain, mined, room, db, config, task, steps, loc, awaiting, disturbed, late>>
    BY <1>1 DEF TransferOwner, env
  <1>3. CallSound(chain, c) /\ mined <= c.after /\ c.fn # "upgrade"
    <2>1. c.fn = "transferOwnership" /\ c.on = k /\ c.after = Len(chain)
      BY <1>1 DEF Call
    <2> QED
      BY <2>1, <1>0 DEF CallSound, Calls
  <1>4. Flights'
    BY <1>0, <1>2, <1>3, FlightsSent
  <1>5. Stores'
    <2>1. Ledger' /\ Grows(chain, mined, chain', mined')
      BY <1>0, <1>2 DEF Ledger, Grows
    <2>2. faults' \in 0..MaxFaults /\ disturbed' \in BOOLEAN /\ late' \in BOOLEAN
      BY <1>2, BoundsAssumption DEF Inv, Stores
    <2> QED
      BY <1>2, <2>1, <2>2, StoresStay DEF Inv
  <1>6. Program'
    BY <1>2 DEF Inv, Program, Running, Statuses
  <1>7. Progress' /\ RevertedWhy'
    BY <1>2 DEF Progress, RevertedWhy
  <1>8. Pending'
    BY <1>2 DEF Inv, Pending
  <1> QED
    BY <1>4, <1>5, <1>6, <1>7, <1>8 DEF Inv

LEMMA StepInv ==
    ASSUME Inv, [Next]_vars
    PROVE  Inv'
  <1>1. CASE TaskStep
    BY <1>1, TaskStepInv
  <1>2. CASE Start
    BY <1>2, StartInv
  <1>3. CASE Crash
    BY <1>3, CrashInv
  <1>4. CASE Mine
    BY <1>4, MineContractInv, MineCallInv DEF Mine
  <1>5. CASE \E id \in ConfigIds : EditConfig(id)
    BY <1>5, EditInv
  <1>6. CASE \E c \in 1..mined : TransferOwner(c)
    BY <1>6, TransferInv
  <1>7. CASE \E r, a \in 1..mined : OutsiderCreates(r, a)
    BY <1>7, OutsiderInv
  <1>8. CASE UNCHANGED vars
    BY <1>8, StutterInv
  <1> QED
    BY <1>1, <1>2, <1>3, <1>4, <1>5, <1>6, <1>7, <1>8 DEF Next
(* The initial states.                                                      *)

LEMMA CollectionsGood ==
    /\ N \in Nat
    /\ Collections \in Seq(Contracts({"Collection"})) /\ Len(Collections) = N
    /\ \A i \in 1..N : /\ Collections[i].kind = "Collection" /\ Collections[i].logic = 0
                       /\ DOMAIN Collections[i].bnfts = {}
  <1>1. N \in Nat
    BY NftContractIdAssumption DEF N
  <1>2. <<>> \in Books /\ DOMAIN <<>> = {}
    <2>1. <<>> \in [{} -> Nat] /\ DOMAIN <<>> = {}
      OBVIOUS
    <2> QED
      BY <2>1 DEF Books
  <1>3. PICK c : c = NewContract("Collection", 0, 0, 0)
    OBVIOUS
  <1>4. c \in Contracts({"Collection"}) /\ c.kind = "Collection" /\ c.logic = 0 /\ DOMAIN c.bnfts = {}
    BY <1>2, <1>3 DEF NewContract, Contracts
  <1>5. Collections = [i \in 1..N |-> c]
    BY <1>3 DEF Collections, N
  <1> QED
    BY <1>1, <1>4, <1>5

\* The contracts of the migrations, after the collections.
LEMMA EstablishedGood ==
    /\ \E S : Established \in Seq(Contracts(S))
    /\ Len(Established) = N + 11
    /\ \A r \in 1..(N + 11) : GoodContract(Established, N + 11, Established[r], r)
    /\ \A k \in {<<5, "BNFTRegistry">>, <<7, "BoundPunkGateway">>, <<9, "UserFlashclaimRegistryV3">>,
                 <<11, "AirdropDistribution">>} :
          Established[N + k[1]].kind = k[2] /\ Established[N + k[1]].logic # 0
  <1>0. /\ N \in Nat /\ Collections \in Seq(Contracts({"Collection"})) /\ Len(Collections) = N
        /\ \A i \in 1..N : /\ Collections[i].kind = "Collection" /\ Collections[i].logic = 0
                           /\ DOMAIN Collections[i].bnfts = {}
    BY CollectionsGood
  <1>1. <<>> \in Books /\ DOMAIN <<>> = {}
    <2>1. <<>> \in [{} -> Nat] /\ DOMAIN <<>> = {}
      OBVIOUS
    <2> QED
      BY <2>1 DEF Books
  <1>20. PICK none : none = <<>>
    OBVIOUS
  <1>5. none \in Books /\ DOMAIN none = {}
    BY <1>1, <1>20
  <1> DEFINE impl(kind) == NewContract(kind, 0, 0, 0)
             proxy(kind, logic, admin, arg, bound) ==
                 [NewContract(kind, N + logic, N + admin, N + arg) EXCEPT !.bnfts = bound]
             b == [i \in 1..N |-> N + 3]
             t == << impl("BNFTProxyAdmin"), impl("BNFTProxyAdmin"), impl("BNFT"),
                     impl("BNFTRegistry"), proxy("BNFTRegistry", 4, 1, 3, b),
                     impl("BoundPunkGateway"), proxy("BoundPunkGateway", 6, 1, 5, <<>>),
                     impl("UserFlashclaimRegistryV3"), proxy("UserFlashclaimRegistryV3", 8, 2, 5, <<>>),
                     impl("AirdropDistribution"), proxy("AirdropDistribution", 10, 2, 5, <<>>) >>
  <1>2. Established = Collections \o t
    BY DEF Established
  <1>3. \A kind : /\ impl(kind).kind = kind /\ impl(kind).logic = 0 /\ DOMAIN impl(kind).bnfts = {}
                  /\ impl(kind) \in Contracts({kind})
    BY <1>1 DEF NewContract, Contracts
  <1>4. b \in Books /\ DOMAIN b = 1..N /\ \A x \in DOMAIN b : b[x] = N + 3
    <2>1. b \in [1..N -> Nat] /\ 1..N \in SUBSET Nat
      BY <1>0
    <2> QED
      BY <2>1 DEF Books
  <1> HIDE DEF b
  <1>6. PICK a, g, r, pr, w, pw, u, pu, d, pd :
          /\ a = impl("BNFTProxyAdmin") /\ g = impl("BNFT") /\ r = impl("BNFTRegistry")
          /\ pr = proxy("BNFTRegistry", 4, 1, 3, b)
          /\ w = impl("BoundPunkGateway") /\ pw = proxy("BoundPunkGateway", 6, 1, 5, <<>>)
          /\ u = impl("UserFlashclaimRegistryV3") /\ pu = proxy("UserFlashclaimRegistryV3", 8, 2, 5, <<>>)
          /\ d = impl("AirdropDistribution") /\ pd = proxy("AirdropDistribution", 10, 2, 5, <<>>)
    OBVIOUS
  <1>7. /\ a.kind = "BNFTProxyAdmin" /\ a.logic = 0 /\ DOMAIN a.bnfts = {} /\ a \in Contracts({"BNFTProxyAdmin"})
        /\ g.kind = "BNFT" /\ g.logic = 0 /\ DOMAIN g.bnfts = {} /\ g \in Contracts({"BNFT"})
        /\ r.kind = "BNFTRegistry" /\ r.logic = 0 /\ DOMAIN r.bnfts = {} /\ r \in Contracts({"BNFTRegistry"})
        /\ w.kind = "BoundPunkGateway" /\ w.logic = 0 /\ DOMAIN w.bnfts = {} /\ w \in Contracts({"BoundPunkGateway"})
        /\ u.kind = "UserFlashclaimRegistryV3" /\ u.logic = 0 /\ DOMAIN u.bnfts = {}
        /\ u \in Contracts({"UserFlashclaimRegistryV3"})
        /\ d.kind = "AirdropDistribution" /\ d.logic = 0 /\ DOMAIN d.bnfts = {}
        /\ d \in Contracts({"AirdropDistribution"})
    BY <1>3, <1>6
  <1>8. /\ pr.kind = "BNFTRegistry" /\ pr.logic = N + 4 /\ pr.arg = N + 3 /\ pr.bnfts = b
        /\ pr \in Contracts({"BNFTRegistry"})
    <2>1. PICK lg, ad, ar : lg = N + 4 /\ ad = N + 1 /\ ar = N + 3
      OBVIOUS
    <2>2. lg \in Nat /\ ad \in Nat /\ ar \in Nat
      BY <1>0, <2>1
    <2>3. pr = [kind |-> "BNFTRegistry", logic |-> lg, admin |-> ad, arg |-> ar, ours |-> TRUE, bnfts |-> b]
      BY <1>6, <2>1 DEF NewContract
    <2>4. pr.kind = "BNFTRegistry" /\ pr.logic = lg /\ pr.arg = ar /\ pr.bnfts = b
      BY <2>3
    <2>5. [kind |-> "BNFTRegistry", logic |-> lg, admin |-> ad, arg |-> ar, ours |-> TRUE, bnfts |-> b]
            \in Contracts({"BNFTRegistry"})
      BY <2>2, <1>4 DEF Contracts
    <2>6. pr \in Contracts({"BNFTRegistry"})
      BY <2>3, <2>5
    <2> QED
      BY <2>1, <2>4, <2>6
  <1>9. /\ pw.kind = "BoundPunkGateway" /\ pw.logic = N + 6 /\ DOMAIN pw.bnfts = {}
        /\ pw \in Contracts({"BoundPunkGateway"})
    <2>1. PICK lg, ad, ar : lg = N + 6 /\ ad = N + 1 /\ ar = N + 5
      OBVIOUS
    <2>2. lg \in Nat /\ ad \in Nat /\ ar \in Nat
      BY <1>0, <2>1
    <2>3. pw = [kind |-> "BoundPunkGateway", logic |-> lg, admin |-> ad, arg |-> ar, ours |-> TRUE, bnfts |-> none]
      BY <1>6, <1>20, <2>1 DEF NewContract
    <2>4. pw.kind = "BoundPunkGateway" /\ pw.logic = lg /\ pw.arg = ar /\ pw.bnfts = none
      BY <2>3
    <2>5. [kind |-> "BoundPunkGateway", logic |-> lg, admin |-> ad, arg |-> ar, ours |-> TRUE, bnfts |-> none]
            \in Contracts({"BoundPunkGateway"})
      BY <2>2, <1>5 DEF Contracts
    <2>6. pw \in Contracts({"BoundPunkGateway"})
      BY <2>3, <2>5
    <2> QED
      BY <2>1, <2>4, <2>6, <1>5
  <1>10. /\ pu.kind = "UserFlashclaimRegistryV3" /\ pu.logic = N + 8 /\ DOMAIN pu.bnfts = {}
         /\ pu \in Contracts({"UserFlashclaimRegistryV3"})
    <2>1. PICK lg, ad, ar : lg = N + 8 /\ ad = N + 2 /\ ar = N + 5
      OBVIOUS
    <2>2. lg \in Nat /\ ad \in Nat /\ ar \in Nat
      BY <1>0, <2>1
    <2>3. pu = [kind |-> "UserFlashclaimRegistryV3", logic |-> lg, admin |-> ad, arg |-> ar, ours |-> TRUE, bnfts |-> none]
      BY <1>6, <1>20, <2>1 DEF NewContract
    <2>4. pu.kind = "UserFlashclaimRegistryV3" /\ pu.logic = lg /\ pu.arg = ar /\ pu.bnfts = none
      BY <2>3
    <2>5. [kind |-> "UserFlashclaimRegistryV3", logic |-> lg, admin |-> ad, arg |-> ar, ours |-> TRUE, bnfts |-> none]
            \in Contracts({"UserFlashclaimRegistryV3"})
      BY <2>2, <1>5 DEF Contracts
    <2>6. pu \in Contracts({"UserFlashclaimRegistryV3"})
      BY <2>3, <2>5
    <2> QED
      BY <2>1, <2>4, <2>6, <1>5
  <1>11. /\ pd.kind = "AirdropDistribution" /\ pd.logic = N + 10 /\ DOMAIN pd.bnfts = {}
         /\ pd \in Contracts({"AirdropDistribution"})
    <2>1. PICK lg, ad, ar : lg = N + 10 /\ ad = N + 2 /\ ar = N + 5
      OBVIOUS
    <2>2. lg \in Nat /\ ad \in Nat /\ ar \in Nat
      BY <1>0, <2>1
    <2>3. pd = [kind |-> "AirdropDistribution", logic |-> lg, admin |-> ad, arg |-> ar, ours |-> TRUE, bnfts |-> none]
      BY <1>6, <1>20, <2>1 DEF NewContract
    <2>4. pd.kind = "AirdropDistribution" /\ pd.logic = lg /\ pd.arg = ar /\ pd.bnfts = none
      BY <2>3
    <2>5. [kind |-> "AirdropDistribution", logic |-> lg, admin |-> ad, arg |-> ar, ours |-> TRUE, bnfts |-> none]
            \in Contracts({"AirdropDistribution"})
      BY <2>2, <1>5 DEF Contracts
    <2>6. pd \in Contracts({"AirdropDistribution"})
      BY <2>3, <2>5
    <2> QED
      BY <2>1, <2>4, <2>6, <1>5
  <1>12. t = <<a, a, g, r, pr, w, pw, u, pu, d, pd>>
    BY <1>6
  <1> HIDE DEF t, impl, proxy
  <1> DEFINE S == {"Collection", "BNFTProxyAdmin", "BNFT", "BNFTRegistry", "BoundPunkGateway",
                   "UserFlashclaimRegistryV3", "AirdropDistribution"}
  <1>13. /\ \A k \in S : Contracts({k}) \subseteq Contracts(S)
         /\ \A k \in S : \A c \in Contracts({k}) : c \in Contracts(S)
    BY DEF Contracts
  <1> HIDE DEF S
  <1>14. t \in Seq(Contracts(S)) /\ Len(t) = 11
    <2>1. {a, g, r, pr, w, pw, u, pu, d, pd} \subseteq Contracts(S)
      BY <1>7, <1>8, <1>9, <1>10, <1>11, <1>13 DEF S
    <2> QED
      BY <2>1, <1>12
  <1>15. Collections \in Seq(Contracts(S))
    <2>1. Contracts({"Collection"}) \subseteq Contracts(S)
      BY <1>13 DEF S
    <2> QED
      BY <2>1, <1>0, SeqMonotonic
  <1>16. /\ Established \in Seq(Contracts(S)) /\ Len(Established) = N + 11
         /\ \A i \in 1..N : Established[i] = Collections[i]
         /\ \A i \in 1..11 : Established[N + i] = t[i]
    <2>1. PICK cs, ts, T : cs = Collections /\ ts = t /\ T = Contracts(S)
      OBVIOUS
    <2>2. cs \in Seq(T) /\ ts \in Seq(T) /\ Len(cs) = N /\ Len(ts) = 11 /\ Established = cs \o ts
      BY <2>1, <1>0, <1>2, <1>14, <1>15
    <2>0. N \in Nat
      BY <1>0
    <2>3. cs \o ts \in Seq(T) /\ Len(cs \o ts) = Len(cs) + Len(ts)
      <3>1. cs \in Seq(T) /\ ts \in Seq(T)
        BY <2>2
      <3> QED
        BY <3>1, ConcatProperties
    <2>4. \A i \in 1..N : (cs \o ts)[i] = cs[i]
      BY <2>0, <2>2, ConcatProperties
    <2>5. \A m \in 1..Len(ts) : (cs \o ts)[Len(cs) + m] = ts[m]
      <3>1. cs \in Seq(T) /\ ts \in Seq(T)
        BY <2>2
      <3> QED
        BY <3>1
    <2> QED
      BY <2>1, <2>2, <2>3, <2>4, <2>5
  <1>17. /\ t[1] = a /\ t[2] = a /\ t[3] = g /\ t[4] = r /\ t[5] = pr /\ t[6] = w /\ t[7] = pw
         /\ t[8] = u /\ t[9] = pu /\ t[10] = d /\ t[11] = pd
    BY <1>12
  <1>18. ImplIn(Established, N + 3, "BNFT")
    <2>1. Established[N + 3] = g
      BY <1>16, <1>17
    <2>2. N + 3 \in 1..Len(Established)
      BY <1>0, <1>16
    <2> QED
      BY <1>7, <2>1, <2>2 DEF ImplIn
  <1>19. ASSUME NEW i \in 1..(N + 11) PROVE GoodContract(Established, N + 11, Established[i], i)
    <2>1. CASE i \in 1..N
      <3>1. Established[i] = Collections[i]
        BY <2>1, <1>16
      <3>3. 0 <= Len(Established)
        BY <1>0, <1>16
      <3>2. Collections[i].logic = 0 /\ DOMAIN Collections[i].bnfts = {}
        BY <2>1, <1>0
      <3> QED
        BY <3>1, <3>2, <3>3 DEF GoodContract
    <2>2. CASE i \in (N + 1)..(N + 11)
      <3>1. PICK j \in 1..11 : i = N + j
        <4>1. i - N \in 1..11 /\ i = N + (i - N)
          BY <1>0, <2>2
        <4> QED
          BY <4>1
      <3>2. Established[i] = t[j]
        BY <3>1, <1>16
      <3>3. CASE j = 5
        <4>1. Established[i] = pr
          BY <3>2, <3>3, <1>17
        <4>2. pr.logic <= Len(Established) /\ pr.arg <= N + 11
          BY <1>0, <1>8, <1>16
        <4>3. \A x \in DOMAIN pr.bnfts : ImplIn(Established, pr.bnfts[x], "BNFT") /\ pr.bnfts[x] <= N + 11
          BY <1>0, <1>4, <1>8, <1>18
        <4> QED
          BY <4>1, <4>2, <4>3, <1>0, <1>8, <1>18 DEF GoodContract
      <3>4. CASE j \in {1, 2, 3, 4, 6, 8, 10}
        <4>1. t[j].logic = 0 /\ DOMAIN t[j].bnfts = {}
          BY <3>4, <1>7, <1>17
        <4>2. 0 <= Len(Established)
          BY <1>0, <1>16
        <4> QED
          BY <4>1, <3>2, <4>2 DEF GoodContract
      <3>5. CASE j \in {7, 9, 11}
        <4>1. t[j].kind # "BNFTRegistry" /\ DOMAIN t[j].bnfts = {} /\ t[j].logic <= N + 11
          BY <3>5, <1>0, <1>9, <1>10, <1>11, <1>17
        <4> QED
          BY <4>1, <3>2, <1>16 DEF GoodContract
      <3> QED
        BY <3>1, <3>3, <3>4, <3>5
    <2> QED
      BY <1>0, <2>1, <2>2
  <1>21. \A k \in {<<5, "BNFTRegistry">>, <<7, "BoundPunkGateway">>, <<9, "UserFlashclaimRegistryV3">>,
                   <<11, "AirdropDistribution">>} :
            Established[N + k[1]].kind = k[2] /\ Established[N + k[1]].logic # 0
    <2>1. /\ t[5].kind = "BNFTRegistry" /\ t[5].logic # 0 /\ t[7].kind = "BoundPunkGateway" /\ t[7].logic # 0
          /\ t[9].kind = "UserFlashclaimRegistryV3" /\ t[9].logic # 0
          /\ t[11].kind = "AirdropDistribution" /\ t[11].logic # 0
      BY <1>0, <1>8, <1>9, <1>10, <1>11, <1>17
    <2>2. Established[N + 5] = t[5] /\ Established[N + 7] = t[7] /\ Established[N + 9] = t[9] /\ Established[N + 11] = t[11]
      BY <1>16
    <2> QED
      BY <2>1, <2>2
  <1> QED
    BY <1>16, <1>19, <1>21

LEMMA InitInv ==
    ASSUME Init
    PROVE  Inv
  <1>0. /\ N \in Nat /\ Collections \in Seq(Contracts({"Collection"})) /\ Len(Collections) = N
        /\ \A i \in 1..N : /\ Collections[i].kind = "Collection" /\ Collections[i].logic = 0
                           /\ DOMAIN Collections[i].bnfts = {}
    BY CollectionsGood
  <1>1. /\ network \in Networks /\ key \in BOOLEAN /\ disturbed = FALSE /\ faults = 0 /\ status = "idle"
        /\ steps = <<>> /\ room = MaxContracts[network] /\ mined = Len(chain)
        /\ flying = <<>> /\ awaiting = FALSE /\ late = FALSE
    BY DEF Init
  <1>2. ConfigIds \subseteq Ids
    BY DEF Ids, eContractid
  <1>3. /\ Ledger /\ Len(chain) \in Nat /\ db \in [Ids -> 0..Len(chain)] /\ config \in [ConfigIds -> 0..mined]
        /\ ConfigSound /\ (IsLive(network) => N <= mined)
    <2>1. CASE network \in Migrated
      <3>1. chain = Established /\ config = CommonsConfig /\ Len(chain) = N + 11 /\ mined = N + 11
            /\ db = [id \in Ids |-> IF id \in ConfigIds THEN CommonsConfig[id] ELSE 0]
        BY <2>1, <1>1, EstablishedGood DEF Init
      <3>2. Ledger
        BY <3>1, <1>0, EstablishedGood DEF Ledger
      <3>3. \A id \in ConfigIds : \E k \in 1..11 : CommonsConfig[id] = N + k
        <4> SUFFICES ASSUME NEW id \in ConfigIds PROVE \E k \in 1..11 : CommonsConfig[id] = N + k
          OBVIOUS
        <4>1. \/ id = "ProxyAdmin" \/ id = "ProxyAdminWithoutTimelock" \/ id = "BNFTRegistry"
              \/ id = "BoundPunkGateway" \/ id = "UserFlashclaimRegistryV3" \/ id = "AirdropDistribution"
          BY DEF ConfigIds
        <4>2. /\ id = "ProxyAdmin" => CommonsConfig[id] = N + 1
              /\ id = "ProxyAdminWithoutTimelock" => CommonsConfig[id] = N + 2
              /\ id = "BNFTRegistry" => CommonsConfig[id] = N + 5
              /\ id = "BoundPunkGateway" => CommonsConfig[id] = N + 7
              /\ id = "UserFlashclaimRegistryV3" => CommonsConfig[id] = N + 9
              /\ id = "AirdropDistribution" => CommonsConfig[id] = N + 11
          BY DEF CommonsConfig
        <4>3. 1 \in 1..11 /\ 2 \in 1..11 /\ 5 \in 1..11 /\ 7 \in 1..11 /\ 9 \in 1..11 /\ 11 \in 1..11
          OBVIOUS
        <4> QED
          BY <4>1, <4>2, <4>3
      <3>4. config \in [ConfigIds -> 0..mined]
        <4>1. \A id \in ConfigIds : CommonsConfig[id] \in 0..mined
          BY <3>1, <3>3, <1>0
        <4>2. N \in Nat
          BY <1>0
        <4>3. CommonsConfig \in [ConfigIds -> Nat]
          BY <4>2 DEF CommonsConfig, ConfigIds
        <4> QED
          BY <4>1, <4>2, <4>3, <3>1
      <3>5. db \in [Ids -> 0..Len(chain)]
        BY <3>1, <3>4, <1>0
      <3>6. ConfigSound
        <4> SUFFICES ASSUME NEW id \in ConfigIds \ AdminIds
                     PROVE  chain[config[id]].kind = id /\ chain[config[id]].logic # 0
          BY DEF ConfigSound
        <4>1. id \in {"BNFTRegistry", "BoundPunkGateway", "UserFlashclaimRegistryV3", "AirdropDistribution"}
          BY DEF ConfigIds, AdminIds
        <4>2. /\ CommonsConfig["BNFTRegistry"] = N + 5 /\ CommonsConfig["BoundPunkGateway"] = N + 7
              /\ CommonsConfig["UserFlashclaimRegistryV3"] = N + 9 /\ CommonsConfig["AirdropDistribution"] = N + 11
          BY DEF CommonsConfig, ConfigIds
        <4>3. /\ Established[N + 5].kind = "BNFTRegistry" /\ Established[N + 5].logic # 0
              /\ Established[N + 7].kind = "BoundPunkGateway" /\ Established[N + 7].logic # 0
              /\ Established[N + 9].kind = "UserFlashclaimRegistryV3" /\ Established[N + 9].logic # 0
              /\ Established[N + 11].kind = "AirdropDistribution" /\ Established[N + 11].logic # 0
          BY EstablishedGood
        <4> QED
          BY <4>1, <4>2, <4>3, <3>1
      <3> QED
        BY <3>1, <3>2, <3>4, <3>5, <3>6, <1>0
    <2>2. CASE network \notin Migrated
      <3>1. /\ chain \in {Collections, <<>>} /\ config = NoConfig /\ db = [id \in Ids |-> 0]
            /\ IsLive(network) => chain = Collections
        BY <2>2 DEF Init
      <3>2. Len(chain) \in Nat
        BY <3>1, <1>0
      <3>3. Ledger
        <4>1. CASE chain = Collections
          BY <4>1, <1>0, <1>1 DEF Ledger, GoodContract
        <4>2. CASE chain = <<>>
          <5>1. <<>> \in Seq(Contracts({})) /\ Len(<<>>) = 0
            OBVIOUS
          <5> QED
            BY <5>1, <4>2, <1>1 DEF Ledger
        <4> QED
          BY <3>1, <4>1, <4>2
      <3>4. config \in [ConfigIds -> 0..mined] /\ db \in [Ids -> 0..Len(chain)] /\ ConfigSound
        BY <3>1, <3>2, <1>1 DEF NoConfig, ConfigSound, IsSet
      <3>5. IsLive(network) => N <= mined
        BY <3>1, <1>0, <1>1
      <3> QED
        BY <3>2, <3>3, <3>4, <3>5
    <2> QED
      BY <2>1, <2>2
  <1>4. RecordedIsMined
    <2>1. \A id \in Ids : db[id] \in 0..Len(chain)
      BY <1>3
    <2> QED
      BY <2>1, <1>1, <1>3 DEF RecordedIsMined
  <1>5. Stores
    <2>1. disturbed \in BOOLEAN /\ late \in BOOLEAN
      BY <1>1
    <2>2. faults \in 0..MaxFaults
      <3>1. faults = 0 /\ MaxFaults \in Nat
        BY BoundsAssumption DEF Init
      <3> QED
        BY <3>1
    <2> QED
      BY <2>1, <2>2, <1>1, <1>3, <1>4 DEF Stores
  <1>6. Program
    BY <1>1, BoundsAssumption DEF Program, Running, Statuses
  <1>7. Progress /\ RevertedWhy /\ Pending
    BY <1>1 DEF Progress, RevertedWhy, Pending
  <1>8. Flights
    <2>1. <<>> \in Seq({}) /\ Len(<<>>) = 0
      OBVIOUS
    <2>2. flying \in Seq({}) /\ Len(flying) = 0
      BY <2>1, <1>1
    <2> QED
      BY <2>2 DEF Flights
  <1> QED
    BY <1>5, <1>6, <1>7, <1>8 DEF Inv
-----------------------------------------------------------------------------
(* The properties.                                                          *)

\* What a deployment task relies on where it stands, whatever was killed, edited or
\* done by others before: the facts of an outline of its script hold
\* (contracts-helpers.ts:131-177, contracts-deployments.ts and the tasks).
THEOREM InvHolds == Spec => []Inv
  <1>1. Init => Inv
    BY InitInv
  <1>2. Inv /\ [Next]_vars => Inv'
    BY StepInv
  <1> QED
    BY <1>1, <1>2, PTL DEF Spec

\* The values of the model's state, that a task which is not running has no script
\* left, and that db and configuration name contracts that are there, on any networks.
THEOREM TypeCorrect == Spec => []TypeOK
  <1>1. Inv => TypeOK
    <2> SUFFICES ASSUME Inv PROVE TypeOK
      OBVIOUS
    <2>1. network \in eEthereumNetwork
      BY NetworksAssumption DEF Inv, Stores
    <2>2. key \in BOOLEAN /\ disturbed \in BOOLEAN /\ late \in BOOLEAN
      BY DEF Inv, Stores
    <2>3. /\ mined \in 0..Len(chain) /\ db \in [Ids -> 0..Len(chain)] /\ config \in [ConfigIds -> 0..mined]
          /\ faults \in 0..MaxFaults
      BY DEF Inv, Stores, Ledger
    <2>4. room \in 0..MaxContracts[network] /\ status \in Statuses /\ (Running <=> steps # <<>>)
      BY DEF Inv, Program
    <2>5. awaiting \in BOOLEAN /\ (awaiting => Running)
      BY DEF Inv, Pending
    <2>6. \A i \in DOMAIN flying : flying[i].after \in mined..Len(chain)
      <3>1. DOMAIN flying = 1..Len(flying)
        BY DEF Inv, Flights
      <3>2. Len(chain) \in Nat /\ mined \in Nat
        BY LedgerTypes DEF Inv, Stores
      <3>3. \A i \in 1..Len(flying) : flying[i].after \in 0..Len(chain) /\ mined <= flying[i].after
        BY DEF Inv, Flights, CallSound
      <3> QED
        BY <3>1, <3>2, <3>3
    <2>7. RecordedIsMined
      BY DEF Inv, Stores
    <2> QED
      BY <2>1, <2>2, <2>3, <2>4, <2>5, <2>6, <2>7 DEF TypeOK
  <1> QED
    BY <1>1, InvHolds, PTL

\* The db runs ahead of the chain under the three early ids only, whenever a task
\* is killed (contracts-helpers.ts:135, contracts-deployments.ts:44, 208 and 232).
THEOREM RecordsAreMined == Spec => []RecordedIsMined
  <1>1. Inv => RecordedIsMined
    BY DEF Inv, Stores
  <1> QED
    BY <1>1, InvHolds, PTL

\* Every mined registry has a mined BNFT to give to new bNFTs, and has given no
\* bNFT anything else, also half way through an upgrade (bnft-registry.ts:58-68).
THEOREM RegistriesUsable == Spec => []RegistryUsable
  <1>1. Inv => RegistryUsable
    <2> SUFFICES ASSUME Inv, NEW r \in 1..mined, IsProxy(r, "BNFTRegistry")
                 PROVE  /\ Is(chain[r].arg, "BNFT")
                        /\ \A a \in DOMAIN chain[r].bnfts : Is(chain[r].bnfts[a], "BNFT")
      BY DEF RegistryUsable
    <2>1. Ledger /\ Len(chain) \in Nat /\ mined \in Nat /\ mined <= Len(chain)
      BY LedgerTypes DEF Inv, Stores
    <2>2. GoodContract(chain, mined, chain[r], r) /\ chain[r].kind = "BNFTRegistry" /\ chain[r].logic # 0
      BY <2>1 DEF Ledger, IsProxy
    <2>3. ImplIn(chain, chain[r].arg, "BNFT") /\ chain[r].arg <= mined
      BY <2>1, <2>2 DEF GoodContract, ImplIn
    <2>4. \A a \in DOMAIN chain[r].bnfts : ImplIn(chain, chain[r].bnfts[a], "BNFT") /\ chain[r].bnfts[a] <= mined
      BY <2>2 DEF GoodContract
    <2>5. \A b : ImplIn(chain, b, "BNFT") /\ b <= mined => Is(b, "BNFT")
      BY <2>1 DEF ImplIn, Is, IsMined
    <2> QED
      BY <2>3, <2>4, <2>5
  <1> QED
    BY <1>1, InvHolds, PTL

\* At the end of its script a task has all the facts of its outline.
LEMMA AtTheEnd ==
    ASSUME Inv, status = "done"
    PROVE  \E Q : Enough(task, Q) /\ \A f \in Q : Holds(f)
  <1>1. steps = <<>>
    BY DEF Inv, Program, Running
  <1>2. PICK P, Q : (\A f \in P : Holds(f)) /\ Outline(P, steps, Q) /\ Enough(task, Q)
    BY DEF Inv, Progress
  <1>3. Q \subseteq P
    <2>1. PICK A : A[1] \subseteq P /\ Q \subseteq A[Len(steps) + 1]
      BY <1>2 DEF Outline
    <2>2. Len(steps) + 1 = 1
      BY <1>1
    <2> QED
      BY <2>1, <2>2
  <1> QED
    BY <1>2, <1>3

LEMMA ServesId ==
    ASSUME Inv, NEW id, NEW adminId, {id, adminId, ImplId(id)} \subseteq Ids,
           NEW Q, \A f \in Q : Holds(f), DoneFacts(id, adminId) \subseteq Q,
           id = "BNFTRegistry" => RegistryFacts \subseteq Q
    PROVE  Serves(id, adminId)
  <1>1. /\ Holds(Mined("proxy")) /\ Holds(Proxy("proxy", id)) /\ Holds(Rec(id, "proxy"))
        /\ Holds(Logic("proxy", "impl")) /\ Holds(Admin("proxy", "admin"))
        /\ Holds(Rec(ImplId(id), "impl")) /\ Holds(Rec(adminId, "admin"))
    BY DEF DoneFacts, ServedFacts
  <1>2. /\ Names("proxy") /\ loc["proxy"] <= mined
        /\ chain[loc["proxy"]].kind = id /\ chain[loc["proxy"]].logic # 0
        /\ db[id] = loc["proxy"]
        /\ chain[loc["proxy"]].logic = loc["impl"] /\ chain[loc["proxy"]].admin = loc["admin"]
        /\ db[ImplId(id)] = loc["impl"] /\ db[adminId] = loc["admin"]
    <2>1. \A v : Holds(Mined(v)) => Names(v) /\ loc[v] <= mined
      BY FactParts DEF Holds
    <2>2. \A v, k : Holds(Proxy(v, k)) => chain[loc[v]].kind = k /\ chain[loc[v]].logic # 0
      BY FactParts DEF Holds
    <2>3. \A i, v : Holds(Rec(i, v)) /\ i \in Ids => db[i] = loc[v]
      BY FactParts DEF Holds, Same
    <2>4. \A v, w : Holds(Logic(v, w)) => chain[loc[v]].logic = loc[w]
      BY FactParts DEF Holds, Same
    <2>5. \A v, w : Holds(Admin(v, w)) => chain[loc[v]].admin = loc[w]
      BY FactParts DEF Holds, Same
    <2> QED
      BY <1>1, <2>1, <2>2, <2>3, <2>4, <2>5
  <1>3. id = "BNFTRegistry" => chain[loc["proxy"]].arg = db["BNFT"]
    <2>1. "BNFT" \in Ids
      BY DEF Ids, eContractid
    <2>2. ASSUME id = "BNFTRegistry" PROVE Holds(Rec("BNFT", "generic")) /\ Holds(ArgOf("proxy", "generic"))
      BY <2>2 DEF RegistryFacts
    <2> QED
      BY <2>1, <2>2, FactParts DEF Holds, Same
  <1>4. IsProxy(db[id], id)
    <2>1. Len(chain) \in Nat /\ mined \in Nat
      BY LedgerTypes DEF Inv, Stores
    <2> QED
      BY <1>2, <2>1 DEF IsProxy, IsMined, Names
  <1> QED
    BY <1>2, <1>3, <1>4 DEF Serves

\* A completed deployment task leaves its id naming a mined proxy of that kind with
\* the recorded implementation, admin and, for a registry, bNFT implementation
\* (bnft-registry.ts:28-68, boundpunk-gateway.ts:37-74, airdrop.ts:106-148 and 175-213).
THEOREM DoneIsServed == Spec => []DoneMeansServed
  <1>1. Inv => DoneMeansServed
    <2> SUFFICES ASSUME Inv, status = "done" PROVE DoneMeansServed
      BY DEF DoneMeansServed
    <2>1. PICK Q : Enough(task, Q) /\ \A f \in Q : Holds(f)
      BY AtTheEnd
    <2>2. /\ {"BNFTRegistry", "ProxyAdmin", ImplId("BNFTRegistry")} \subseteq Ids
          /\ {"BoundPunkGateway", "ProxyAdmin", ImplId("BoundPunkGateway")} \subseteq Ids
          /\ {"UserFlashclaimRegistryV3", "ProxyAdminWithoutTimelock", ImplId("UserFlashclaimRegistryV3")} \subseteq Ids
          /\ {"AirdropDistribution", "ProxyAdminWithoutTimelock", ImplId("AirdropDistribution")} \subseteq Ids
      BY DEF Ids, eContractid, ConfigIds, ImplId
    <2>3. ASSUME task \in {"full:deploy-bnft-registry", "dev:deploy-bnft-registry"}
          PROVE  Serves("BNFTRegistry", "ProxyAdmin")
      <3>1. RegistryFacts \subseteq Q /\ DoneFacts("BNFTRegistry", "ProxyAdmin") \subseteq Q
        BY <2>1, <2>3 DEF Enough, RegistryFacts
      <3> QED
        BY <2>1, <2>2, <3>1, ServesId
    <2>4. ASSUME task = "full:deploy-boundpunk-gateway" PROVE Serves("BoundPunkGateway", "ProxyAdmin")
      <3>1. DoneFacts("BoundPunkGateway", "ProxyAdmin") \subseteq Q
        BY <2>1, <2>4 DEF Enough
      <3> QED
        BY <2>1, <2>2, <3>1, ServesId
    <2>5. ASSUME task = "full:deploy-flashclaim-registry-v3"
          PROVE  Serves("UserFlashclaimRegistryV3", "ProxyAdminWithoutTimelock")
      <3>1. DoneFacts("UserFlashclaimRegistryV3", "ProxyAdminWithoutTimelock") \subseteq Q
        BY <2>1, <2>5 DEF Enough
      <3> QED
        BY <2>1, <2>2, <3>1, ServesId
    <2>6. ASSUME task = "full:deploy-airdrop-distribution"
          PROVE  Serves("AirdropDistribution", "ProxyAdminWithoutTimelock")
      <3>1. DoneFacts("AirdropDistribution", "ProxyAdminWithoutTimelock") \subseteq Q
        BY <2>1, <2>6 DEF Enough
      <3> QED
        BY <2>1, <2>2, <3>1, ServesId
    <2>7. ASSUME task = "full:deploy-flashclaim-receiver-v2"
          PROVE  chain[db["AirdropFlashLoanReceiverV2"]].arg # 0
      <3>1. ReceiverFacts \subseteq Q
        BY <2>1, <2>7 DEF Enough
      <3>2. /\ Holds(Known("registry")) /\ Holds(Rec("AirdropFlashLoanReceiverV2", "receiver"))
            /\ Holds(ArgOf("receiver", "registry"))
        BY <2>1, <3>1 DEF ReceiverFacts
      <3>3. "AirdropFlashLoanReceiverV2" \in Ids
        BY DEF Ids, eContractid
      <3>4. /\ db["AirdropFlashLoanReceiverV2"] = loc["receiver"] /\ chain[loc["receiver"]].arg = loc["registry"]
            /\ loc["registry"] \in 1..Len(chain)
        BY <3>2, <3>3, FactParts DEF Holds, Same, Names
      <3>5. Len(chain) \in Nat
        BY LedgerTypes DEF Inv, Stores
      <3> QED
        BY <3>4, <3>5
    <2> QED
      BY <2>3, <2>4, <2>5, <2>6, <2>7 DEF DoneMeansServed
  <1> QED
    BY <1>1, InvHolds, PTL

\* A completed full:deploy-bnft-tokens has bound every collection, to the generic
\* implementation unless others or a call nobody awaited came between; without these it
\* reverts only for the registry, its owner or a collection without code (bnft-tokens.ts:32-49).
THEOREM TokensAreServed == Spec => []TokensServed
  <1>1. Inv => TokensServed
    <2> SUFFICES ASSUME Inv, task = "full:deploy-bnft-tokens" PROVE TokensServed
      BY DEF TokensServed
    <2>1. PICK r : r = TokensRegistry
      OBVIOUS
    <2>2. ASSUME status = "done", NEW s \in Symbols
          PROVE  /\ Bound(r, NftsAssets(s))
                 /\ disturbed \/ late \/ chain[r].bnfts[NftsAssets(s)] = chain[r].arg
      <3>1. PICK Q : Enough(task, Q) /\ \A f \in Q : Holds(f)
        BY <2>2, AtTheEnd
      <3>2. Found(Q) /\ Served(s) \in Q
        BY <3>1 DEF Enough, TokensGoal
      <3>3. Holds(Served(s))
        BY <3>1, <3>2
      <3>4. \/ Holds(Conf("BNFTRegistry", "registry"))
            \/ Holds(Unset("BNFTRegistry")) /\ Holds(Rec("BNFTRegistry", "registry"))
        BY <3>1, <3>2 DEF Found
      <3>5. "BNFTRegistry" \in Ids
        BY DEF Ids, eContractid, ConfigIds
      <3>6. CASE Holds(Conf("BNFTRegistry", "registry"))
        <4>1. r = loc["registry"]
          BY <2>1, <3>6, FactParts DEF Holds, Same, TokensRegistry
        <4> QED
          BY <4>1, <3>3, FactParts DEF Holds, BoundTo
      <3>7. CASE Holds(Unset("BNFTRegistry")) /\ Holds(Rec("BNFTRegistry", "registry"))
        <4>1. r = loc["registry"]
          BY <2>1, <3>5, <3>7, FactParts DEF Holds, Same, TokensRegistry
        <4> QED
          BY <4>1, <3>3, FactParts DEF Holds, BoundTo
      <3> QED
        BY <3>4, <3>6, <3>7
    <2>3. status = "reverted" =>
              \/ disturbed \/ late
              \/ ~IsProxy(r, "BNFTRegistry")
              \/ ~chain[r].ours
              \/ \E s \in Symbols : ~Is(NftsAssets(s), "Collection")
      BY <2>1 DEF Inv, RevertedWhy
    <2> QED
      BY <2>1, <2>2, <2>3 DEF TokensServed, TokensRegistry
  <1> QED
    BY <1>1, InvHolds, PTL

\* Only a call that is mined exchanges the logic of a proxy.
LEMMA LogicStays ==
    ASSUME Inv, [Next]_vars, ~MineCall, NEW p \in 1..mined
    PROVE  chain'[p].logic = chain[p].logic
  <1>1. Ledger /\ p \in 1..Len(chain) /\ Len(chain) \in Nat
    BY LedgerTypes DEF Inv, Stores
  <1>2. PICK S : chain \in Seq(Contracts(S))
    BY <1>1 DEF Ledger
  <1>3. chain[p] \in Contracts(S)
    BY <1>1, <1>2
  <1>4. ASSUME NEW r, NEW a, OutsiderCreates(r, a) PROVE chain'[p].logic = chain[p].logic
    BY <1>1, <1>2, <1>3, <1>4 DEF OutsiderCreates, SetBnft, Contracts
  <1>5. CASE SendDeployment
    <2>1. PICK c : chain' = chain \/ chain' = Append(chain, c)
      BY <1>5 DEF SendDeployment, Fail, ledger
    <2>2. CASE chain' = Append(chain, c)
      BY <1>1, <1>2, <2>2
    <2> QED
      BY <2>1, <2>2
  <1>6. CASE SendCall \/ MineContract \/ (\E c \in 1..mined : TransferOwner(c))
    BY <1>6 DEF SendCall, MineContract, TransferOwner
  <1>7. CASE \/ LoadStep \/ ConfigStep \/ insertContractAddressInDb \/ registerContractInJsonDb \/ ReadStep
             \/ getBNFTAddresses \/ VerifyStep \/ VerifyImpossible \/ ThrowStep
    BY <1>7 DEF LoadStep, ConfigStep, insertContractAddressInDb, registerContractInJsonDb, ReadStep,
                getBNFTAddresses, VerifyStep, VerifyImpossible, ThrowStep, Fail, ledger
  <1>8. CASE Start \/ Crash \/ (\E id \in ConfigIds : EditConfig(id)) \/ UNCHANGED vars
    BY <1>8 DEF Start, Crash, EditConfig, ledger, vars
  <1> QED
    BY <1>4, <1>5, <1>6, <1>7, <1>8 DEF Next, TaskStep, Mine

\* The implementation of a mined proxy is only exchanged for a mined one of the same
\* contract, deployed later (bnft-registry.ts:58-64 and the three like it).
THEOREM UpgradesAreKind == Spec => UpgradesKeepKind
  <1>1. ASSUME Inv, [Next]_vars, NEW p \in 1..mined, chain'[p].logic # chain[p].logic
        PROVE  /\ Is(chain'[p].logic, chain[p].kind)
               /\ chain'[p].logic > chain[p].logic
    <2>1. MineCall
      BY <1>1, LogicStays
    <2>2. PICK c : /\ CallSound(chain, c) /\ c.after = mined
                   /\ IF Succeeds(c) THEN Does(c) /\ chain' = Effect(c) ELSE chain' = chain
      <3> HIDE DEF Succeeds, Does, Effect, CallSound
      <3> QED
        BY <1>1, <2>1, MinedCall
    <2>3. Does(c)
      <3>1. chain' # chain
        BY <1>1
      <3> QED
        BY <2>2, <3>1
    <2>4. Len(chain) \in Nat /\ mined \in Nat /\ mined <= Len(chain) /\ p \in 1..Len(chain)
      BY <1>1, LedgerTypes DEF Inv, Stores
    <2>5. chain'[p].logic = IF c.fn = "upgrade" /\ p = c.on THEN c.to ELSE chain[p].logic
      BY <2>3, <2>4 DEF Does
    <2>6. c.fn = "upgrade" /\ p = c.on /\ chain'[p].logic = c.to
      BY <1>1, <2>5
    <2>7. ImplIn(chain, c.to, chain[p].kind) /\ chain[p].logic \in 1..c.to /\ c.to <= mined
      BY <2>2, <2>6 DEF CallSound
    <2>8. Is(c.to, chain[p].kind)
      BY <2>4, <2>7 DEF Is, IsMined, ImplIn
    <2>9. c.to \in Nat
      BY <2>4, <2>7 DEF ImplIn
    <2> QED
      BY <1>1, <2>6, <2>7, <2>8, <2>9
  <1>2. Inv /\ [Next]_vars =>
            [\A p \in 1..mined : chain'[p].logic # chain[p].logic =>
                /\ Is(chain'[p].logic, chain[p].kind)
                /\ chain'[p].logic > chain[p].logic]_vars
    BY <1>1
  <1> QED
    BY <1>2, InvHolds, PTL DEF Spec, UpgradesKeepKind
=============================================================================

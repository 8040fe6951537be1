----------------------------- MODULE Deployment -----------------------------
(***************************************************************************)
(* The hardhat tasks that put the protocol on a network (src/tasks, with   *)
(* src/helpers and src/configs).  A task is a script of awaited steps over *)
(* three stores nothing keeps in step with each other: the chain, the JSON *)
(* file of deployed contracts (the "db") and the pool configuration the    *)
(* operator edits by hand.  A task may throw or be killed between any two  *)
(* steps; the operator then runs whatever task comes to mind.              *)
(*                                                                         *)
(* A contract's address is its place on the chain; 0 is no address.  All   *)
(* transactions of the tasks come from one account, so that they are mined *)
(* in the order they are sent: deployments, which only become visible, and *)
(* calls, which take effect or revert then.  A task awaits the sending and *)
(* the mining of a call in turn and may be killed in between.              *)
(***************************************************************************)
EXTENDS Integers, Sequences, FiniteSets, SequencesExt

CONSTANTS Networks,      \* the networks the tasks may be pointed at
          Migrated,      \* those of them with the protocol in place
          Tasks,         \* per network, the tasks the operator runs
          Flags,         \* per network, values of the tasks' verify flag
          NftContractId, \* symbols of the collections, in the order of the enum
          MaxContracts,  \* bound, per network: contracts the tasks send
          MaxFaults      \* bound: tasks killed, owners changed, bNFTs created by others

\* A collection's symbol is a string, in the order of the enum NftContractId;
\* the bounds are numbers.
ASSUME NftContractIdAssumption == NftContractId \in Seq(STRING)
ASSUME BoundsAssumption == MaxFaults \in Nat /\ \A net \in Networks : MaxContracts[net] \in Nat

VARIABLES network,   \* DRE.network.name
          key,       \* process.env.ETHERSCAN_KEY is set
          chain,     \* the contracts sent by the tasks, in nonce order
          mined,     \* how many of them are mined
          flying,    \* the calls sent and not yet mined, in nonce order
          room,      \* contracts the tasks may still send, down from MaxContracts
          db,        \* deployments/deployed-contracts-<network>.json: id -> address
          config,    \* the pool configuration's column for the network: id -> address
          task,      \* the task last started
          status,    \* how it stands
          steps,     \* what is left of its script
          loc,       \* its local variables
          awaiting,  \* it has sent the call of its first step and waits for it
          disturbed, \* someone else created a bNFT while it ran
          late,      \* a call nobody awaited was mined since it was started
          faults     \* how often a task was killed or others stepped in

ledger == <<chain, mined, flying, room>>
env    == <<network, key>>
script == <<task, status, steps, loc, awaiting>>
vars   == <<env, ledger, db, config, script, disturbed, late, faults>>

Symbols == ToSet(NftContractId)

eEthereumNetwork == {"coverage", "sepolia", "goerli", "rinkeby", "main", "hardhat", "localhost"}

\* The networks of the enum; ganache, which the hardhat configuration has too, is left out.
ASSUME NetworksAssumption == Networks \subseteq eEthereumNetwork

SUPPORTED_ETHERSCAN_NETWORKS == {"main", "ropsten", "goerli", "rinkeby", "sepolia"}

\* Parameters of the pool configuration that name contracts the tasks deploy.
ConfigIds == {"ProxyAdmin", "ProxyAdminWithoutTimelock", "BNFTRegistry",
              "BoundPunkGateway", "UserFlashclaimRegistryV3", "AirdropDistribution"}

eContractid == ConfigIds \cup
    {"BNFT", "BNFTRegistryImpl", "BoundPunkGatewayImpl", "AirdropDistributionImpl",
     "UserFlashclaimRegistryV3Impl", "AirdropFlashLoanReceiverV3Impl",
     "UserFlashclaimRegistry", "UserFlashclaimRegistryV2", "AirdropFlashLoanReceiverV2",
     "MintableERC721", "CryptoPunksMarket", "WrappedPunk", "MockAirdropProject",
     "MockFlashLoanReceiver", "MockBNFTMinter"}

Ids == eContractid \cup Symbols

\* The first seven columns of every parameter; FORK is not set, and a network
\* outside the enumeration reads the hardhat column.
getParamPerNetwork(param, net) == IF net \in eEthereumNetwork THEN param[net] ELSE param["hardhat"]

\* Test networks of one's own start with the tokens and the market missing.
Live == [net \in eEthereumNetwork |-> net \notin {"coverage", "hardhat", "localhost"}]
IsLive(net) == getParamPerNetwork(Live, net)

\* What a deployed contract is: a proxy has a logic and an admin, arg is the
\* implementation (registry) or the registry (others) its initializer stored,
\* bnfts maps the collections a registry has bound to their implementations.
NewContract(kind, logic, admin, arg) ==
    [kind |-> kind, logic |-> logic, admin |-> admin, arg |-> arg, ours |-> TRUE, bnfts |-> <<>>]

IsMined(a)         == a \in 1..mined
Is(a, kind)        == IsMined(a) /\ chain[a].kind = kind /\ chain[a].logic = 0
IsProxy(a, kind)   == IsMined(a) /\ chain[a].kind = kind /\ chain[a].logic # 0

\* The collections of a live network are there before the protocol: the address
\* of a symbol is its place.  A local chain has no code at the configured addresses.
IndexOfSymbol(s) == CHOOSE i \in 1..Len(NftContractId) : NftContractId[i] = s
NftsAssets(s) == IF IsLive(network) THEN IndexOfSymbol(s) ELSE 0
Collections == [i \in 1..Len(NftContractId) |-> NewContract("Collection", 0, 0, 0)]

\* A live network after the migrations, as commons.ts knows it.
N == Len(NftContractId)
Established ==
    LET impl(kind) == NewContract(kind, 0, 0, 0)
        proxy(kind, logic, admin, arg, bound) ==
            [NewContract(kind, N + logic, N + admin, N + arg) EXCEPT !.bnfts = bound]
    IN  Collections \o
        << impl("BNFTProxyAdmin"), impl("BNFTProxyAdmin"), impl("BNFT"),
           impl("BNFTRegistry"), proxy("BNFTRegistry", 4, 1, 3, [i \in 1..N |-> N + 3]),
           impl("BoundPunkGateway"), proxy("BoundPunkGateway", 6, 1, 5, <<>>),
           impl("UserFlashclaimRegistryV3"), proxy("UserFlashclaimRegistryV3", 8, 2, 5, <<>>),
           impl("AirdropDistribution"), proxy("AirdropDistribution", 10, 2, 5, <<>>) >>

\* The addresses commons.ts gives for such a network, and for one it does not know.
NoConfig == [id \in ConfigIds |-> 0]
CommonsConfig ==
    [id \in ConfigIds |->
        N + CASE id = "ProxyAdmin" -> 1
              [] id = "ProxyAdminWithoutTimelock" -> 2
              [] id = "BNFTRegistry" -> 5
              [] id = "BoundPunkGateway" -> 7
              [] id = "UserFlashclaimRegistryV3" -> 9
              [] id = "AirdropDistribution" -> 11]

NoLocals == [x \in {} |-> 0]

Init == /\ network \in Networks
        /\ key \in IF TRUE \in Flags[network] THEN BOOLEAN ELSE {FALSE}
        /\ IF network \in Migrated
           THEN /\ chain = Established
                /\ config = CommonsConfig
                /\ db = [id \in Ids |-> IF id \in ConfigIds THEN CommonsConfig[id] ELSE 0]
           ELSE /\ chain = IF IsLive(network) THEN Collections ELSE <<>>
                /\ config = NoConfig
                /\ db = [id \in Ids |-> 0]
        /\ mined = Len(chain)
        /\ flying = <<>>
        /\ room = MaxContracts[network]
        /\ task = "none"
        /\ status = "idle"
        /\ steps = <<>>
        /\ loc = NoLocals
        /\ awaiting = FALSE
        /\ disturbed = FALSE
        /\ late = FALSE
        /\ faults = 0
-----------------------------------------------------------------------------
(* What a script consists of.  Names such as "impl" are local variables.    *)

Load(id, var)   == <<[do |-> "load", id |-> id, var |-> var]>>
Config(id, var) == <<[do |-> "config", id |-> id, var |-> var]>>
Send(kind, args, var) == <<[do |-> "send", kind |-> kind, args |-> args, var |-> var]>>
Insert(id, var) == <<[do |-> "insert", id |-> id, var |-> var]>>
Save(id, var)   == <<[do |-> "save", id |-> id, var |-> var]>>
Attempt(var, times, proxy) == <<[do |-> "verify", var |-> var, times |-> times, proxy |-> proxy]>>
Do(what)        == <<[do |-> what]>>
ForAsset(what, s) == <<[do |-> what, asset |-> s]>>
Throw           == Do("throw")

Plain == [logic |-> "none", admin |-> "none", arg |-> "none"]
WithRegistry == [Plain EXCEPT !.arg = "registry"]

\* Verification starts with four attempts, as a proxy or as a plain contract.
verifyContract(var) == Attempt(var, 4, FALSE)
verifyProxy(var) == Attempt(var, 4, TRUE)

\* Mutant: the contract is recorded as soon as its deployment is sent.
SaveUnmined(id, var, verify) == Insert(id, var) \o (IF verify THEN verifyContract(var) ELSE <<>>)
withSaveAndVerify(id, var, verify) == Save(id, var) \o (IF verify THEN verifyContract(var) ELSE <<>>)

DeployContract(kind, args, id, var, verify) ==
    Send(kind, args, var) \o withSaveAndVerify(id, var, verify)

ImplId(kind) == CASE kind = "BNFTRegistry" -> "BNFTRegistryImpl"
                  [] kind = "BoundPunkGateway" -> "BoundPunkGatewayImpl"
                  [] kind = "AirdropDistribution" -> "AirdropDistributionImpl"
                  [] kind = "UserFlashclaimRegistryV3" -> "UserFlashclaimRegistryV3Impl"

\* The implementations behind a proxy of the same id: the address of the
\* implementation is first recorded under its own id, then under the proxy's.
DeployUnderProxyId(kind, verify) ==
    Send(kind, Plain, "impl") \o Insert(ImplId(kind), "impl") \o withSaveAndVerify(kind, "impl", verify)

deployBNFTRegistry(verify) == DeployUnderProxyId("BNFTRegistry", verify)
deployBoundPunkGateway(verify) == DeployUnderProxyId("BoundPunkGateway", verify)
deployAirdropDistribution(verify) == DeployUnderProxyId("AirdropDistribution", verify)

deployUserFlashclaimRegistryV3(verify) ==
    DeployContract("UserFlashclaimRegistryV3", Plain, "UserFlashclaimRegistryV3Impl", "impl", verify)
    \o withSaveAndVerify("UserFlashclaimRegistryV3", "impl", verify)

deployGenericBNFTImpl(verify) == DeployContract("BNFT", Plain, "BNFT", "generic", verify)

deployAirdropFlashLoanReceiverV3Impl(verify) ==
    DeployContract("AirdropFlashLoanReceiverV3", Plain, "AirdropFlashLoanReceiverV3Impl", "receiver", verify)

deployAirdropFlashLoanReceiverV2(verify) ==
    DeployContract("AirdropFlashLoanReceiverV2", Plain, "AirdropFlashLoanReceiverV2", "receiver", verify)
    \o Do("initialize")

deployBNFTUpgradeableProxy(id, arg, verify) ==
    DeployContract(id, [logic |-> "impl", admin |-> "admin", arg |-> arg], id, "proxy", verify)

deployBNFTProxyAdmin(id, verify) == DeployContract("BNFTProxyAdmin", Plain, id, "admin", verify)

\* WPUNKS is a market and a wrapper around it, the others are mintable tokens.
deployAllMockNfts(verify) ==
    FlattenSeq([i \in 1..N |->
        IF NftContractId[i] = "WPUNKS"
        THEN DeployContract("CryptoPunksMarket", Plain, "CryptoPunksMarket", "market", verify)
             \o DeployContract("Collection", Plain, "WrappedPunk", "token", verify)
             \o Save("WPUNKS", "token")
        ELSE DeployContract("Collection", Plain, "MintableERC721", "token", verify)
             \o Save(NftContractId[i], "token")])
-----------------------------------------------------------------------------
(* The tasks.  The configuration does not change while one runs.            *)

IsSet(id) == config[id] # 0

\* Mutant: the configured proxy is not recorded.
UpgradeUnrecorded(id) == Config(id, "proxy") \o Do("upgrade")
\* The tail of every task that serves id through a proxy: a new proxy, or the
\* one in the configuration recorded and upgraded.
UpgradeConfigured(id) == Config(id, "proxy") \o Insert(id, "proxy") \o Do("upgrade")
ProxyOrUpgrade(id, arg, verify) ==
    IF IsSet(id) THEN UpgradeConfigured(id) ELSE deployBNFTUpgradeableProxy(id, arg, verify)

full_deploy_proxy_admin(verify) ==
    LET admin(id) == IF IsSet(id) THEN Config(id, "admin") \o Insert(id, "admin")
                     ELSE deployBNFTProxyAdmin(id, verify)
    IN  admin("ProxyAdmin") \o admin("ProxyAdminWithoutTimelock")

\* Mutant: the registry is initialized with its own implementation.
RegistryWithWrongGeneric(verify) ==
    Load("ProxyAdmin", "admin")
    \o deployGenericBNFTImpl(verify) \o deployBNFTRegistry(verify)
    \o ProxyOrUpgrade("BNFTRegistry", "impl", verify)
    \o (IF IsSet("BNFTRegistry") THEN Do("setBNFTGenericImpl") ELSE <<>>)
full_deploy_bnft_registry(verify) ==
    Load("ProxyAdmin", "admin")
    \o deployGenericBNFTImpl(verify) \o deployBNFTRegistry(verify)
    \o ProxyOrUpgrade("BNFTRegistry", "generic", verify)
    \o (IF IsSet("BNFTRegistry") THEN Do("setBNFTGenericImpl") ELSE <<>>)

dev_deploy_bnft_registry(verify) ==
    Load("ProxyAdmin", "admin")
    \o deployGenericBNFTImpl(verify) \o deployBNFTRegistry(verify)
    \o deployBNFTUpgradeableProxy("BNFTRegistry", "generic", verify)

\* getBNFTRegistryProxy(address): the address given, or else the db's.
RegistryOfConfigOrDb ==
    IF IsSet("BNFTRegistry") THEN Config("BNFTRegistry", "registry") ELSE Load("BNFTRegistry", "registry")

TokensFromConfig ==
    FlattenSeq([i \in 1..N |-> ForAsset("getBNFTAddresses", NftContractId[i])
                               \o ForAsset("createOrUpgrade", NftContractId[i])])

full_deploy_bnft_tokens ==
    RegistryOfConfigOrDb \o Do("bNftGenericImpl") \o TokensFromConfig

\* The mocked collections are looked up one by one before the first createBNFT.
dev_deploy_bnft_tokens ==
    Load("BNFTRegistry", "registry")
    \o FlattenSeq([i \in 1..N |-> Load(NftContractId[i], NftContractId[i])])
    \o FlattenSeq([i \in 1..N |-> ForAsset("createMocked", NftContractId[i])])

create_new_bnft(s) == RegistryOfConfigOrDb \o ForAsset("createBNFT", s)

\* The market and the wrapped punks are configured for live networks only.
full_deploy_boundpunk_gateway(verify) ==
    IF ~IsLive(network) \/ ~IsSet("BNFTRegistry") THEN Throw
    ELSE Load("ProxyAdmin", "admin")
         \o deployBoundPunkGateway(verify)
         \o Config("BNFTRegistry", "registry")
         \o ProxyOrUpgrade("BoundPunkGateway", "registry", verify)

full_deploy_flashclaim_receiver_v2(verify) ==
    Load("BNFTRegistry", "registry") \o deployAirdropFlashLoanReceiverV2(verify)

full_deploy_flashclaim_registry_v1(verify) ==
    Load("BNFTRegistry", "registry")
    \o DeployContract("UserFlashclaimRegistry", WithRegistry, "UserFlashclaimRegistry", "v1", verify)

full_deploy_flashclaim_registry_v2(verify) ==
    Load("BNFTRegistry", "registry") \o Load("UserFlashclaimRegistry", "v1")
    \o DeployContract("UserFlashclaimRegistryV2", WithRegistry, "UserFlashclaimRegistryV2", "v2", verify)

full_deploy_flashclaim_registry_v3(verify) ==
    Load("BNFTRegistry", "registry")
    \o Load("ProxyAdminWithoutTimelock", "admin")
    \o deployUserFlashclaimRegistryV3(verify)
    \o (IF IsSet("UserFlashclaimRegistryV3") THEN <<>> ELSE deployAirdropFlashLoanReceiverV3Impl(verify))
    \o ProxyOrUpgrade("UserFlashclaimRegistryV3", "registry", verify)

\* Mutant: the end of the flash claim task, copied with its id.
DistributionUnderWrongId(verify) ==
    Load("ProxyAdminWithoutTimelock", "admin") \o Load("BNFTRegistry", "registry")
    \o deployAirdropDistribution(verify)
    \o ProxyOrUpgrade("UserFlashclaimRegistryV3", "registry", verify)
full_deploy_airdrop_distribution(verify) ==
    Load("ProxyAdminWithoutTimelock", "admin")
    \o Load("BNFTRegistry", "registry")
    \o deployAirdropDistribution(verify)
    \o ProxyOrUpgrade("AirdropDistribution", "registry", verify)

dev_deploy_new_implementation(contract, verify) ==
    CASE contract = "BNFTRegistry" -> deployBNFTRegistry(verify)
      [] contract = "BNFT" -> deployGenericBNFTImpl(verify)
      [] contract = "AirdropFlashLoanReceiverV3" -> deployAirdropFlashLoanReceiverV3Impl(verify)
      [] contract = "UserFlashclaimRegistryV3" -> deployUserFlashclaimRegistryV3(verify)

dev_deploy_mock_nfts(verify) == IF network = "main" THEN Throw ELSE deployAllMockNfts(verify)

dev_deploy_mock_airdrop(verify) ==
    IF network = "main" THEN Throw
    ELSE Load("BNFTRegistry", "registry")
         \o DeployContract("MockAirdropProject", WithRegistry, "MockAirdropProject", "mock", verify)

\* Collections whose symbol the db knows are skipped; WPUNKS is a plain token here.
dev_add_mock_nfts(verify) ==
    FlattenSeq([i \in 1..N |->
        IF db[NftContractId[i]] # 0 THEN <<>>
        ELSE DeployContract("Collection", Plain, "MintableERC721", "token", verify)
             \o Save(NftContractId[i], "token")])

\* The verification tasks read and verify; verify:general goes through the bNFT
\* proxies too, which are not contracts of this model.
verify_general ==
    IF ~IsSet("ProxyAdmin") THEN Throw
    ELSE Config("ProxyAdmin", "admin") \o verifyContract("admin")
         \o IF ~IsSet("ProxyAdminWithoutTimelock") THEN Throw
            ELSE Config("ProxyAdminWithoutTimelock", "adminWTL") \o verifyContract("adminWTL")
                 \o Load("BNFTRegistry", "registry")
                 \o Load("BNFTRegistryImpl", "impl") \o Load("BNFT", "generic")
                 \o verifyContract("impl") \o verifyContract("generic") \o verifyProxy("registry")
                 \o IF ~IsLive(network) \/ ~IsSet("BNFTRegistry") THEN Throw
                    ELSE Load("BoundPunkGatewayImpl", "gatewayImpl") \o verifyContract("gatewayImpl")
                         \o Load("BoundPunkGateway", "gateway") \o verifyProxy("gateway")

verify_airdrop_flashclaim_v3 ==
    Load("BNFTRegistry", "registry")
    \o IF ~IsSet("ProxyAdminWithoutTimelock") THEN Throw
       ELSE Load("UserFlashclaimRegistryV3Impl", "impl") \o verifyContract("impl")
            \o Load("UserFlashclaimRegistryV3", "flash") \o verifyProxy("flash")

checkVerification(verify) ==
    IF verify /\ ~(key /\ network \in SUPPORTED_ETHERSCAN_NETWORKS) THEN Do("exit") ELSE <<>>

\* dev:deploy-mock-airdrops is not the name of any task: running it throws.
bend_dev(verify) ==
    checkVerification(verify)
    \o dev_deploy_mock_nfts(verify) \o Throw
    \o full_deploy_proxy_admin(verify) \o dev_deploy_bnft_registry(verify)
    \o dev_deploy_bnft_tokens \o full_deploy_boundpunk_gateway(verify)

bend_mainnet(verify) ==
    checkVerification(verify)
    \o full_deploy_proxy_admin(FALSE) \o full_deploy_bnft_registry(FALSE)
    \o full_deploy_bnft_tokens \o full_deploy_boundpunk_gateway(verify)
    \o (IF verify THEN verify_general ELSE <<>>)

Migrations == {"bend:dev", "bend:mainnet"}

\* The script of a task run with the flag, s the collection or contract it is given.
Script(t, verify, s) ==
    CASE t = "full:deploy-proxy-admin" -> full_deploy_proxy_admin(verify)
      [] t = "full:deploy-bnft-registry" -> full_deploy_bnft_registry(verify)
      [] t = "dev:deploy-bnft-registry" -> dev_deploy_bnft_registry(verify)
      [] t = "full:deploy-bnft-tokens" -> full_deploy_bnft_tokens
      [] t = "dev:deploy-bnft-tokens" -> dev_deploy_bnft_tokens
      [] t = "create-new-bnft" -> create_new_bnft(s)
      [] t = "full:deploy-boundpunk-gateway" -> full_deploy_boundpunk_gateway(verify)
      [] t = "full:deploy-flashclaim-receiver-v2" -> full_deploy_flashclaim_receiver_v2(verify)
      [] t = "full:deploy-flashclaim-registry-v1" -> full_deploy_flashclaim_registry_v1(verify)
      [] t = "full:deploy-flashclaim-registry-v2" -> full_deploy_flashclaim_registry_v2(verify)
      [] t = "full:deploy-flashclaim-registry-v3" -> full_deploy_flashclaim_registry_v3(verify)
      [] t = "full:deploy-airdrop-distribution" -> full_deploy_airdrop_distribution(verify)
      [] t = "dev:deploy-new-implementation" -> dev_deploy_new_implementation(s, verify)
      [] t = "dev:deploy-mock-nfts" -> dev_deploy_mock_nfts(verify)
      [] t = "dev:deploy-mock-airdrop" -> dev_deploy_mock_airdrop(verify)
      [] t = "dev:add-mock-nfts" -> dev_add_mock_nfts(verify)
      [] t = "verify:general" -> verify_general
      [] t = "verify:airdrop-flashclaim-v3" -> verify_airdrop_flashclaim_v3
      [] t = "bend:dev" -> bend_dev(verify)
      [] t = "bend:mainnet" -> bend_mainnet(verify)

\* The tasks above, by the names they are registered under.
TaskNames ==
    {"full:deploy-proxy-admin", "full:deploy-bnft-registry", "dev:deploy-bnft-registry",
     "full:deploy-bnft-tokens", "dev:deploy-bnft-tokens", "create-new-bnft",
     "full:deploy-boundpunk-gateway", "full:deploy-flashclaim-receiver-v2",
     "full:deploy-flashclaim-registry-v1", "full:deploy-flashclaim-registry-v2",
     "full:deploy-flashclaim-registry-v3", "full:deploy-airdrop-distribution",
     "dev:deploy-new-implementation", "dev:deploy-mock-nfts", "dev:deploy-mock-airdrop",
     "dev:add-mock-nfts", "verify:general", "verify:airdrop-flashclaim-v3"} \cup Migrations

\* The operator runs tasks there are, and a flag is set or not.
ASSUME TasksAssumption ==
    \A net \in Networks : Tasks[net] \subseteq TaskNames /\ Flags[net] \subseteq BOOLEAN

\* What the tasks with a parameter may be given.
Params(t) == CASE t = "create-new-bnft" -> Symbols
               [] t = "dev:deploy-new-implementation" ->
                    {"BNFTRegistry", "BNFT", "AirdropFlashLoanReceiverV3", "UserFlashclaimRegistryV3"}
               [] OTHER -> {"none"}
-----------------------------------------------------------------------------
(* One awaited step of the running task.                                    *)

Running  == status = "running"
Step     == steps[1]
Next_(what) == Running /\ ~awaiting /\ steps # <<>> /\ Step.do = what

\* On to the rest of the script, with the variable set.
Advance(rest, newLoc) ==
    /\ steps' = rest
    /\ loc' = newLoc
    /\ status' = IF rest = <<>> THEN "done" ELSE "running"
    /\ awaiting' = FALSE
    /\ UNCHANGED <<env, config, task, disturbed, late, faults>>
Continue == Advance(Tail(steps), loc)
Bind(var, a) == [x \in DOMAIN loc \cup {var} |-> IF x = var THEN a ELSE loc[x]]

\* An exception ends the task.
Fail(how) == /\ status' = how
             /\ steps' = <<>>
             /\ loc' = NoLocals
             /\ awaiting' = FALSE
             /\ UNCHANGED <<env, db, config, task, disturbed, late, faults>>

LoadStep == /\ Next_("load")
            /\ UNCHANGED ledger
            /\ IF db[Step.id] = 0 THEN Fail("missing")
               ELSE UNCHANGED db /\ Advance(Tail(steps), Bind(Step.var, db[Step.id]))

ConfigStep == /\ Next_("config")
              /\ UNCHANGED <<ledger, db>>
              /\ Advance(Tail(steps), Bind(Step.var, config[Step.id]))

insertContractAddressInDb ==
    /\ Next_("insert")
    /\ db' = [db EXCEPT ![Step.id] = loc[Step.var]]
    /\ UNCHANGED ledger
    /\ Continue

\* waitForTx, then the record.
registerContractInJsonDb ==
    /\ Next_("save")
    /\ loc[Step.var] <= mined
    /\ db' = [db EXCEPT ![Step.id] = loc[Step.var]]
    /\ UNCHANGED ledger
    /\ Continue

Arg(name) == IF name = "none" THEN 0 ELSE loc[name]

\* The gateway's initializer asks its registry for the bound punks.
InitializerAccepts(c) ==
    \/ c.logic = 0
    \/ /\ IsMined(c.logic)
       /\ c.kind = "BoundPunkGateway" =>
             IsProxy(c.arg, "BNFTRegistry") /\ NftsAssets("WPUNKS") \in DOMAIN chain[c.arg].bnfts

SendDeployment ==
    /\ Next_("send")
    /\ LET c == NewContract(Step.kind, Arg(Step.args.logic), Arg(Step.args.admin), Arg(Step.args.arg))
       IN  \/ ~InitializerAccepts(c) /\ UNCHANGED ledger /\ Fail("reverted")
           \/ /\ InitializerAccepts(c)
              /\ chain' = Append(chain, c)
              /\ room' = room - 1
              /\ UNCHANGED <<mined, flying, db>>
              /\ Advance(Tail(steps), Bind(Step.var, Len(chain) + 1))

\* registry.bNftGenericImpl(): zero at an implementation that was never initialized.
ReadStep == /\ Next_("bNftGenericImpl")
            /\ UNCHANGED <<ledger, db>>
            /\ Advance(Tail(steps), Bind("generic", chain[loc["registry"]].arg))

Bound(r, a) == a \in DOMAIN chain[r].bnfts

\* full:deploy-bnft-tokens looks a collection up, then acts on what it saw.
getBNFTAddresses ==
    /\ Next_("getBNFTAddresses")
    /\ UNCHANGED <<ledger, db>>
    /\ Advance(Tail(steps), Bind("bound", Bound(loc["registry"], NftsAssets(Step.asset))))
-----------------------------------------------------------------------------
(* Calls: sent by one await, mined by the next.                             *)

Call(fn, on, to, with) == [fn |-> fn, on |-> on, to |-> to, with |-> with, after |-> Len(chain)]

upgrade == Call("upgrade", loc["proxy"], loc["impl"], loc["admin"])
setBNFTGenericImpl == Call("setBNFTGenericImpl", loc["proxy"], loc["generic"], 0)
initialize == Call("initialize", loc["receiver"], loc["registry"], 0)
createBNFT(a) == Call("createBNFT", loc["registry"], a, 0)

\* Mutant: every collection of the configuration is created.
AlwaysCreates == FALSE
SeenBound == loc["bound"]
createOrUpgrade(a) ==
    IF SeenBound THEN Call("upgradeBNFTWithImpl", loc["registry"], a, loc["generic"]) ELSE createBNFT(a)

CallSteps == {"upgrade", "setBNFTGenericImpl", "initialize", "createOrUpgrade", "createMocked", "createBNFT"}
StepCall ==
    CASE Step.do = "upgrade" -> upgrade
      [] Step.do = "setBNFTGenericImpl" -> setBNFTGenericImpl
      [] Step.do = "initialize" -> initialize
      [] Step.do = "createOrUpgrade" -> createOrUpgrade(NftsAssets(Step.asset))
      [] Step.do = "createMocked" -> createBNFT(loc[Step.asset])
      [] Step.do = "createBNFT" -> createBNFT(NftsAssets(Step.asset))

\* Only the admin's owner upgrades, and a key other than the deployer's is not at
\* hand.  createBNFT takes a collection with code that has no bNFT yet, and an
\* implementation is a registry that was never initialized.
Succeeds(c) ==
    CASE c.fn = "upgrade" -> chain[c.on].admin = c.with /\ chain[c.with].ours
      [] c.fn \in {"setBNFTGenericImpl", "transferOwnership"} -> chain[c.on].ours
      [] c.fn = "initialize" -> chain[c.on].arg = 0
      [] c.fn = "createBNFT" -> /\ IsProxy(c.on, "BNFTRegistry")
                                /\ Is(c.to, "Collection")
                                /\ ~Bound(c.on, c.to)
      [] c.fn = "upgradeBNFTWithImpl" -> chain[c.on].ours /\ Bound(c.on, c.to)

SetBnft(r, a, impl) ==
    [chain EXCEPT ![r].bnfts = [x \in DOMAIN @ \cup {a} |-> IF x = a THEN impl ELSE @[x]]]
Effect(c) ==
    CASE c.fn = "upgrade" -> [chain EXCEPT ![c.on].logic = c.to]
      [] c.fn \in {"setBNFTGenericImpl", "initialize"} -> [chain EXCEPT ![c.on].arg = c.to]
      [] c.fn = "transferOwnership" -> [chain EXCEPT ![c.on].ours = FALSE]
      [] c.fn = "createBNFT" -> SetBnft(c.on, c.to, chain[c.on].arg)
      [] c.fn = "upgradeBNFTWithImpl" -> SetBnft(c.on, c.to, c.with)

\* A call that would revert on what is mined is refused when it is sent.
SendCall ==
    /\ Running /\ ~awaiting /\ steps # <<>>
    /\ Step.do \in CallSteps
    /\ UNCHANGED <<chain, mined, room>>
    /\ \/ /\ ~Succeeds(StepCall)
          /\ UNCHANGED flying
          /\ Fail("reverted")
       \/ /\ Succeeds(StepCall)
          /\ flying' = Append(flying, StepCall)
          /\ awaiting' = TRUE
          /\ UNCHANGED <<env, db, config, task, status, steps, loc, disturbed, late, faults>>

\* A deployment sent before the calls in flight.
MineContract ==
    /\ mined < Len(chain)
    /\ \A i \in DOMAIN flying : mined < flying[i].after
    /\ mined' = mined + 1
    /\ UNCHANGED <<env, chain, flying, room, db, config, script, disturbed, late, faults>>

\* waitForTx, when it is the call the task has sent; any other is one of a task
\* that was killed, or of a change of owner.
MineCall ==
    /\ flying # <<>>
    /\ LET c == Head(flying)
       IN  /\ c.after <= mined
           /\ chain' = IF Succeeds(c) THEN Effect(c) ELSE chain
           /\ IF awaiting /\ Len(flying) = 1
              THEN IF Succeeds(c) THEN Continue /\ UNCHANGED db ELSE Fail("reverted")
              ELSE /\ late' = TRUE
                   /\ UNCHANGED <<env, db, config, script, disturbed, faults>>
    /\ flying' = Tail(flying)
    /\ UNCHANGED <<mined, room>>
Mine == MineContract \/ MineCall
-----------------------------------------------------------------------------
(* Verification, and the steps of a task.                                   *)

\* Mutant: after the last try the tries start over.
TimesRestart(times) == IF times = 1 THEN 4 ELSE times - 1
FewerTimes(times) == times - 1

\* runTaskWithRetry: four attempts at most, the last with all sources, then the
\* error is logged; a success, an "already verified" or a fatal error ends them.
\* Without a key or on a network Etherscan does not know it throws instead.
VerifyStep ==
    /\ Next_("verify")
    /\ UNCHANGED <<ledger, db>>
    /\ \/ /\ key /\ network \in SUPPORTED_ETHERSCAN_NETWORKS
          /\ \/ Continue
             \/ /\ Step.times > 0
                /\ Advance(Attempt(Step.var, FewerTimes(Step.times), Step.proxy) \o Tail(steps), loc)

VerifyImpossible ==
    /\ Next_("verify")
    /\ ~(key /\ network \in SUPPORTED_ETHERSCAN_NETWORKS)
    /\ UNCHANGED ledger
    /\ Fail("thrown")

ThrowStep == /\ Running /\ steps # <<>>
             /\ Step.do \in {"throw", "exit"}
             /\ UNCHANGED ledger
             /\ Fail(Step.do)

TaskStep ==
    \/ LoadStep \/ ConfigStep \/ insertContractAddressInDb \/ registerContractInJsonDb
    \/ SendDeployment \/ ReadStep \/ getBNFTAddresses \/ SendCall
    \/ VerifyStep \/ VerifyImpossible \/ ThrowStep
-----------------------------------------------------------------------------
(* The operator, the network and the others.                                *)

Sends(s) == Cardinality({i \in DOMAIN s : s[i].do = "send"})

Start == /\ ~Running
         /\ \E t \in Tasks[network], verify \in Flags[network] : \E s \in Params(t) :
               LET all == Script(t, verify, s)
               IN  /\ Sends(all) <= room
                   /\ all # <<>>
                   /\ steps' = all
                   /\ task' = t
         /\ status' = "running"
         /\ loc' = NoLocals
         /\ awaiting' = FALSE
         /\ disturbed' = FALSE
         /\ late' = FALSE
         /\ UNCHANGED <<env, ledger, db, config, faults>>

\* The process is killed; what it sent stays sent.
Crash == /\ Running
         /\ faults < MaxFaults
         /\ faults' = faults + 1
         /\ status' = "crashed"
         /\ steps' = <<>>
         /\ loc' = NoLocals
         /\ awaiting' = FALSE
         /\ UNCHANGED <<env, ledger, db, config, task, disturbed, late>>

\* The operator copies the address of a proxy, or of an admin, from the db into
\* the pool configuration.
EditConfig(id) ==
    /\ ~Running
    /\ IF id \in {"ProxyAdmin", "ProxyAdminWithoutTimelock"} THEN Is(db[id], "BNFTProxyAdmin")
       ELSE IsProxy(db[id], id)
    /\ config' = [config EXCEPT ![id] = db[id]]
    /\ config' # config
    /\ status' = "idle"
    /\ UNCHANGED <<env, ledger, db, task, steps, loc, awaiting, disturbed, late, faults>>

\* admin:transfer-owner, signed by the current owner; who does not wait for it, or
\* is killed, has it in flight.
TransferOwner(c) ==
    /\ ~Running
    /\ faults < MaxFaults
    /\ faults' = faults + 1
    /\ chain[c].ours
    /\ Is(c, "BNFTProxyAdmin") \/ IsProxy(c, "BNFTRegistry")
    /\ flying' = Append(flying, Call("transferOwnership", c, 0, 0))
    /\ status' = "idle"
    /\ UNCHANGED <<env, chain, mined, room, db, config, task, steps, loc, awaiting, disturbed, late>>

\* Anybody creates the bNFT of a collection.
OutsiderCreates(r, a) ==
    /\ faults < MaxFaults
    /\ faults' = faults + 1
    /\ IsProxy(r, "BNFTRegistry") /\ Is(a, "Collection") /\ ~Bound(r, a)
    /\ chain' = SetBnft(r, a, chain[r].arg)
    /\ disturbed' = TRUE
    /\ UNCHANGED <<env, mined, flying, room, db, config, script, late>>

Next == \/ TaskStep \/ Start \/ Crash \/ Mine
        \/ \E id \in ConfigIds : EditConfig(id)
        \/ \E c \in 1..mined : TransferOwner(c)
        \/ \E r, a \in 1..mined : OutsiderCreates(r, a)

\* A process that is not killed runs on; a network mines what it was sent.
Spec == Init /\ [][Next]_vars /\ WF_vars(TaskStep) /\ WF_vars(Mine)
-----------------------------------------------------------------------------
Statuses == {"idle", "running", "done", "crashed", "missing", "reverted", "thrown", "throw", "exit"}

EarlyIds == {"BNFTRegistryImpl", "BoundPunkGatewayImpl", "AirdropDistributionImpl"}

\* Whatever task was killed whenever, the db names no contract that is not on
\* the chain, except under the three ids that are written before the deployment
\* is awaited (contracts-deployments.ts:44, 208 and 232; contracts-helpers.ts:135).
RecordedIsMined == \A id \in Ids \ EarlyIds : db[id] <= mined

\* Types, and: a task that is not running has no script left, what the db and the
\* configuration name is there, and a call in flight comes after what is mined.
TypeOK == /\ network \in eEthereumNetwork
          /\ key \in BOOLEAN
          /\ mined \in 0..Len(chain)
          /\ room \in 0..MaxContracts[network]
          /\ db \in [Ids -> 0..Len(chain)] /\ RecordedIsMined
          /\ config \in [ConfigIds -> 0..mined]
          /\ status \in Statuses
          /\ Running <=> steps # <<>>
          /\ awaiting \in BOOLEAN /\ (awaiting => Running)
          /\ \A i \in DOMAIN flying : flying[i].after \in mined..Len(chain)
          /\ disturbed \in BOOLEAN /\ late \in BOOLEAN
          /\ faults \in 0..MaxFaults

\* A completed deployment task leaves the id it is for naming a proxy - the
\* configured one if there is one - under the right admin, with the recorded
\* implementation and, for a registry, the recorded bNFT implementation: the id
\* that named the bare implementation half way is put right in every branch
\* (bnft-registry.ts:28-68, boundpunk-gateway.ts:37-74, airdrop.ts:106-148 and 175-213).
Serves(id, adminId) ==
    LET p == db[id]
    IN  /\ IsProxy(p, id)
        /\ chain[p].logic = db[ImplId(id)]
        /\ chain[p].admin = db[adminId]
        /\ id = "BNFTRegistry" => chain[p].arg = db["BNFT"]
DoneMeansServed ==
    status = "done" =>
        /\ task = "full:deploy-bnft-registry" => Serves("BNFTRegistry", "ProxyAdmin")
        /\ task = "dev:deploy-bnft-registry" => Serves("BNFTRegistry", "ProxyAdmin")
        /\ task = "full:deploy-boundpunk-gateway" => Serves("BoundPunkGateway", "ProxyAdmin")
        /\ task = "full:deploy-flashclaim-registry-v3" =>
              Serves("UserFlashclaimRegistryV3", "ProxyAdminWithoutTimelock")
        /\ task = "full:deploy-airdrop-distribution" =>
              Serves("AirdropDistribution", "ProxyAdminWithoutTimelock")
        /\ task = "full:deploy-flashclaim-receiver-v2" =>
              chain[db["AirdropFlashLoanReceiverV2"]].arg # 0

\* Every registry can create bNFTs at any time, half way through an upgrade and
\* after a crash between upgrade and setBNFTGenericImpl too: its generic
\* implementation, and that of every bNFT it made, is a mined BNFT.
RegistryUsable ==
    \A r \in 1..mined : IsProxy(r, "BNFTRegistry") =>
        /\ Is(chain[r].arg, "BNFT")
        /\ \A a \in DOMAIN chain[r].bnfts : Is(chain[r].bnfts[a], "BNFT")

\* A completed full:deploy-bnft-tokens leaves every configured collection bound
\* and on the registry's generic implementation, whoever created its bNFT before and
\* whatever an earlier run had done before it was killed; and it reverts only if the
\* registry is not ours or not a registry, or a collection has no code.  Excepted are
\* runs that two things come between: a bNFT someone else creates, and a call that a
\* killed run had sent and nobody awaited, mined after all (bnft-tokens.ts:32-49).
TokensServed ==
    task = "full:deploy-bnft-tokens" =>
        LET r == IF IsSet("BNFTRegistry") THEN config["BNFTRegistry"] ELSE db["BNFTRegistry"]
        IN  /\ status = "done" =>
                  \A s \in Symbols : /\ Bound(r, NftsAssets(s))
                                     /\ disturbed \/ late \/ chain[r].bnfts[NftsAssets(s)] = chain[r].arg
            /\ status = "reverted" =>
                  \/ disturbed \/ late
                  \/ ~IsProxy(r, "BNFTRegistry")
                  \/ ~chain[r].ours
                  \/ \E s \in Symbols : ~Is(NftsAssets(s), "Collection")

\* A proxy's implementation is only ever exchanged for a later one of the same
\* contract, by its own admin (bnft-registry.ts:58-64 and the three like it).
UpgradesKeepKind ==
    [][\A p \in 1..mined :
          chain'[p].logic # chain[p].logic =>
             /\ Is(chain'[p].logic, chain[p].kind)
             /\ chain'[p].logic > chain[p].logic]_vars

\* Every task that is started ends, verification retries included
\* (etherscan-verification.ts:67-111).
TaskEnds == Running ~> ~Running
-----------------------------------------------------------------------------
(* What the repository says and the tasks do not do.                        *)

\* "Verifying BNFT Registry Proxy" and "Verifying UserFlashclaimRegistryV3 Proxy"
\* verify a proxy (general.ts:62-63 and 229).
VerifiesProxy ==
    Running /\ steps # <<>> /\ Step.do = "verify" /\ Step.proxy => chain[loc[Step.var]].logic # 0

\* A migration nobody disturbs and nobody kills completes
\* (README.md: the command that deploys the protocol to a local node).
MigrationCompletes == task \in Migrations => status \notin {"missing", "reverted", "throw"}
=============================================================================

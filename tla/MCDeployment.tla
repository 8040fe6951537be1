---------------------------- MODULE MCDeployment ----------------------------
(* Instances of Deployment for TLC: a network the protocol runs on, a live *)
(* one it is brought to and a local chain with mocks.                       *)
EXTENDS Deployment

TwoCollections == <<"WPUNKS", "BAYC">>

MCTasks ==
    [ main |-> { "full:deploy-bnft-registry", "full:deploy-bnft-tokens", "full:deploy-boundpunk-gateway",
                 "full:deploy-airdrop-distribution", "full:deploy-flashclaim-registry-v3",
                 "full:deploy-flashclaim-receiver-v2", "full:deploy-flashclaim-registry-v1",
                 "full:deploy-flashclaim-registry-v2", "create-new-bnft", "bend:mainnet",
                 "dev:deploy-new-implementation" },
      sepolia |-> { "full:deploy-proxy-admin", "full:deploy-bnft-registry", "full:deploy-bnft-tokens",
                    "full:deploy-boundpunk-gateway", "bend:mainnet" },
      localhost |-> { "dev:deploy-mock-nfts", "dev:add-mock-nfts", "full:deploy-proxy-admin",
                      "dev:deploy-bnft-registry", "dev:deploy-bnft-tokens", "dev:deploy-mock-airdrop" } ]
MCFlags == [ main |-> {FALSE}, sepolia |-> {TRUE}, localhost |-> {FALSE} ]
MCContracts == [ main |-> 3, sepolia |-> 7, localhost |-> 8 ]

\* A new registry implementation, then the verification of everything.
ImplementationTasks == [ main |-> {"dev:deploy-new-implementation", "verify:general",
                                    "verify:airdrop-flashclaim-v3"} ]
AllVerified == [ main |-> {TRUE} ]

\* The migration of README.md.
LocalMigration == [ localhost |-> {"bend:dev"} ]
RoomForMigration == [ localhost |-> 12 ]
=============================================================================

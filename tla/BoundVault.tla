----------------------------- MODULE BoundVault -----------------------------
(***************************************************************************)
(* What a bNFT contract promises, without calls, guards or transactions:   *)
(* an asset may be put in the vault against a deed, a deed says who may    *)
(* redeem it (minter) and who holds the bound token (owner), and an asset  *)
(* leaves the vault only together with its deed.  An asset that reaches    *)
(* the vault without a deed (a plain transfer) stays there.                *)
(***************************************************************************)
CONSTANTS Token,      \* the assets of one collection
          Account,    \* everybody but the vault
          Vault,      \* the vault, as a holder of assets; not an account
          NoDeed      \* "no bound token exists for this asset"

VARIABLES holder,     \* who holds each asset
          deed        \* the deed of each asset, or NoDeed

vars == <<holder, deed>>

Init == /\ holder \in [Token -> Account]
        /\ deed = [t \in Token |-> NoDeed]

\* Every deeded or stranded asset but those of S stays in the vault.
VaultKeeps(S) ==
    /\ holder' \in [Token -> Account \cup {Vault}]
    /\ \A t \in Token \ S : holder[t] = Vault => holder'[t] = Vault

\* The holder of t puts it in the vault and names the owner of the deed.
Bind(t) ==
    /\ deed[t] = NoDeed
    /\ holder[t] # Vault
    /\ \E o \in Account : deed' = [deed EXCEPT ![t] = [minter |-> holder[t], owner |-> o]]
    /\ holder' = [holder EXCEPT ![t] = Vault]

\* The deed of t is cancelled and t handed out; whoever gets control while it
\* is handed out may move on t and any asset outside the vault.
Unbind(t) ==
    /\ deed[t] # NoDeed
    /\ deed' = [deed EXCEPT ![t] = NoDeed]
    /\ VaultKeeps({t})

\* Assets outside the vault change hands; some may be given to the vault.
Outside ==
    /\ VaultKeeps({})
    /\ UNCHANGED deed

Next == Outside \/ \E t \in Token : Bind(t) \/ Unbind(t)

Spec == Init /\ [][Next]_vars
=============================================================================

------------------------------- MODULE Genesis -------------------------------
(***************************************************************************)
(* The two genesis presets of the runtime and the names under which the    *)
(* node's chain specifications select them.  Keys of the keyring are model *)
(* values; balances are equal, so an account is endowed or it is not.      *)
(***************************************************************************)
CONSTANTS Alice, Bob, Charlie,  \* keys of the keyring
          Refused               \* None, and a file that is no specification

TestnetGenesis(initial_authorities, endowed_accounts, root) ==
  [authorities |-> initial_authorities, endowed |-> endowed_accounts, root |-> root]

DevelopmentConfigGenesis == TestnetGenesis(<<Alice>>, {Alice, Bob}, Alice)

LocalConfigGenesis == TestnetGenesis(<<Alice, Bob>>, {Alice, Bob, Charlie}, Alice)

GetPreset(id) ==
  CASE id = "development"   -> DevelopmentConfigGenesis
    [] id = "local_testnet" -> LocalConfigGenesis
    [] OTHER                -> Refused

DevelopmentChainSpec == GetPreset("development")
LocalChainSpec == GetPreset("local_testnet")

(* The specification --chain asks for; a path is that of no specification. *)
LoadSpec(id) ==
  CASE id = "dev"           -> DevelopmentChainSpec
    [] id \in {"", "local"} -> LocalChainSpec
    [] OTHER                -> Refused
=============================================================================

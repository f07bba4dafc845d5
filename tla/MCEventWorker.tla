--------------------------- MODULE MCEventWorker ---------------------------
(* Two accounts and two usernames; the first of them has a look-alike, and *)
(* one name decodes to nothing.                                            *)
EXTENDS EventWorker

CONSTANTS alice, bob, null, blank, name1, name2, text, bytes1, alike1, bytes2, nul, bytes3

MCAccounts == {alice, bob}
MCColumns == {"username", "bio", "createdAtBlock"}
MCValues == {null, blank, name1, name2, text, Block}
MCDefault == [k \in MCColumns |-> null]
MCBytes == {Empty, nul, bytes1, alike1, bytes2, bytes3}
MCText ==
  [b \in MCBytes |-> CASE b \in {Empty, nul} -> blank [] b \in {bytes1, alike1} -> name1
                        [] b = bytes2 -> name2 [] b = bytes3 -> text]
(* Alice takes a name and changes it; Bob may take the one she gave up.    *)
MCEvents ==
  {[kind |-> "UsernameSet", account |-> alice, username |-> bytes1],
   [kind |-> "ProfileUpdated", account |-> alice, username |-> bytes2, bio |-> bytes3],
   [kind |-> "UsernameSet", account |-> alice, username |-> nul],
   [kind |-> "UsernameSet", account |-> bob, username |-> bytes1],
   [kind |-> "UsernameSet", account |-> bob, username |-> alike1],
   [kind |-> "StatsUpdated", account |-> bob]}
(* Alice clears her name, and Bob takes it.                                *)
MCClearing ==
  {[kind |-> "UsernameSet", account |-> alice, username |-> bytes1],
   [kind |-> "UsernameSet", account |-> alice, username |-> Empty],
   [kind |-> "UsernameSet", account |-> bob, username |-> bytes1]}
=============================================================================

----------------------------- MODULE MCRuntime -----------------------------
(* Bob and Charlie, the latter without an endowment in the dev preset.     *)
(* After Bob has given Charlie everything and Charlie has given some back, *)
(* Bob's first extrinsic has the nonce of the account made anew.           *)
EXTENDS Runtime

MCCalls ==
  {TransferKeepAliveBuilder(Bob, Charlie, 16),
   [signer |-> Bob, name |-> "transfer_all", dest |-> Charlie, keep_alive |-> FALSE],
   [signer |-> Charlie, name |-> "transfer_allow_death", dest |-> Bob, value |-> 9],
   RemarkBuilder(Charlie),
   [signer |-> Charlie, name |-> "increment"],
   [signer |-> Charlie, name |-> "reset"],
   [signer |-> Bob, name |-> "do_something", value |-> 0],
   [signer |-> Bob, name |-> "cause_error"]}
=============================================================================

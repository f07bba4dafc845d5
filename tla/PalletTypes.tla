----------------------------- MODULE PalletTypes -----------------------------
(* The types the two value-holding pallets share, with the width of their  *)
(* integers as parameters.                                                 *)
EXTENDS Naturals, Sequences

CONSTANTS Accounts,  \* AccountId
          None,      \* Option's None, and checked_add's
          MaxU32,    \* u32::MAX
          MaxU64,    \* u64::MAX
          MaxLog,    \* bound: the counter's events since genesis
          MaxEvents  \* bound: the template's events of one block

ASSUME WidthAssumption ==
  /\ MaxU32 \in Nat /\ MaxU64 \in Nat /\ MaxLog \in Nat /\ MaxEvents \in Nat
  /\ None \notin Nat
=============================================================================

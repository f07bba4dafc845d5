---------------------------- MODULE NameRegistry ----------------------------
(***************************************************************************)
(* What the user-profile pallet promises about usernames, with the pallet  *)
(* left out: a registry in which a name belongs to nobody or to one        *)
(* account, an account holds at most one name, and a name changes hands    *)
(* only after its holder has let go of it.                                 *)
(***************************************************************************)
CONSTANTS Accounts,  \* the accounts that can hold a name
          Names,     \* the names that can be held
          None       \* "nobody"

VARIABLE owner       \* owner[n]: the account that holds n, or None

Init == owner = [n \in Names |-> None]

(* The registry once account a has dropped whatever it holds.              *)
Dropped(a) == [n \in Names |-> IF owner[n] = a THEN None ELSE owner[n]]

(* Account a takes the name n, free or already its own, and drops the name *)
(* it held before.                                                         *)
Take(a, n) ==
  /\ owner[n] \in {None, a}
  /\ owner' = [Dropped(a) EXCEPT ![n] = a]

(* Account a goes nameless.                                                *)
Release(a) == owner' = Dropped(a)

Next == \E a \in Accounts : Release(a) \/ \E n \in Names : Take(a, n)

Spec == Init /\ [][Next]_owner

-----------------------------------------------------------------------------
TypeOK == owner \in [Names -> Accounts \cup {None}]

(* No account holds two names.                                             *)
OneNameEach == \A m, n \in Names : owner[m] = owner[n] /\ owner[m] # None => m = n
=============================================================================

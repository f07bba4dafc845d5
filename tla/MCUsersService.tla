--------------------------- MODULE MCUsersService ---------------------------
(* DTOs as ValidationPipe delivers them: class instances that mention      *)
(* every column, those the request left out as undefined.                  *)
EXTENDS UsersService, TLC

CONSTANTS null, emptyString, name1, name2, text

MCColumns == {"username", "bio"}
MCValues == {null, emptyString, name1, name2, text}
MCDefault == [k \in MCColumns |-> null]
MCNames == {Undef, emptyString, name1, name2}
MCDtos == {[username |-> n, bio |-> Undef] : n \in MCNames}
          \cup {[username |-> Undef, bio |-> b] : b \in {null, text}}
MCSymmetry == Permutations(Clients) \cup Permutations(Accounts)
=============================================================================

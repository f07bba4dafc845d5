--------------------------- MODULE MCUserProfile ---------------------------
(* Byte vectors at the runtime's two limits: a name one byte over the      *)
(* username limit still fits a bio.                                        *)
EXTENDS UserProfile

CONSTANTS alice, bob, empty, name1, name2, bio33, long257

MCAccounts == {alice, bob}
MCBytes == {empty, name1, name2, bio33, long257}
MCByteLen == [b \in MCBytes |->
  CASE b = empty -> 0 [] b = bio33 -> 33 [] b = long257 -> 257 [] OTHER -> 32]

MCNoStats == [f \in StatFields |-> Keep]
MCStatInputs == {[MCNoStats EXCEPT !["wins"] = 1],
                 [f \in StatFields |-> 0]}
MCAvatars == {None, Keep, name1, bio33}
MCBios == {None, Keep, bio33, long257}
MCKeepOnly == {Keep}
=============================================================================

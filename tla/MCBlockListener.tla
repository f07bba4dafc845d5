-------------------------- MODULE MCBlockListener --------------------------
(* Two branches, 0 <- 1 and 0 <- 2 <- 3: the longer one replaces the other *)
(* when it comes second, or grows block by block when it comes first.      *)
EXTENDS BlockListener

MCBlocks == 0 .. 3
MCChain == [b \in MCBlocks |->
  CASE b = 0 -> {0} [] b = 1 -> {0, 1} [] b = 2 -> {0, 2} [] b = 3 -> {0, 2, 3}]
MCHeight == [b \in MCBlocks |-> IF b = 3 THEN 2 ELSE IF b = 0 THEN 0 ELSE 1]
MCNumEvents == [b \in MCBlocks |-> IF b = 0 THEN 0 ELSE IF b = 2 THEN 1 ELSE 2]
=============================================================================

-------------------------------- MODULE Node --------------------------------
(***************************************************************************)
(* The node: how new_full puts a service together and takes it down with   *)
(* an essential task, what it then does with blocks and votes, and the     *)
(* commands that change the database of a node that is down.  Aura and     *)
(* GRANDPA are modelled as far as the node's settings of them matter.      *)
(*                                                                         *)
(* A block is the sequence of the slots of its chain: Aura gives each slot *)
(* to one authority, so author and slot tell blocks of one parent apart.   *)
(***************************************************************************)
EXTENDS Genesis, Naturals, FiniteSets, SequencesExt

CONSTANTS
  Chains,          \* values of --chain the nodes may be started with
  Nodes,           \* the nodes, each with the key it is named after
  ForceAuthoring,  \* --force-authoring
  EnableGrandpa,   \* ~disable_grandpa
  RevertBlocks,    \* the number of blocks revert is asked for
  None,
  MaxSlot,         \* bound: the last slot
  MaxRound,        \* bound: the last round of GRANDPA
  MaxStops         \* bound: tasks that fail and processes that are stopped

ASSUME NodeAssumption ==
  /\ \A id \in Chains : LoadSpec(id) # Refused
  /\ {Alice, Bob} \subseteq Nodes
  /\ {ForceAuthoring, EnableGrandpa} \subseteq BOOLEAN
  /\ {RevertBlocks, MaxSlot, MaxRound, MaxStops} \subseteq Nat /\ None \notin Seq(Nat)

VARIABLES
  authorities,  \* of the chain the nodes run, Aura's and GRANDPA's
  slot,         \* the slot of the clocks
  stage,        \* how far a node's process has come
  failed,       \* the essential task that failed, or None
  lastSlot,     \* the last slot a node's slot worker has seen
  known, best,  \* the blocks in a node's database
  final,        \* its finalized block
  voter,        \* its voter's state in the auxiliary storage
  made,         \* all blocks ever made
  votes,        \* all precommits ever sent
  stops

database == <<known, best, final, voter>>
nodeVars == <<authorities, slot, stage, failed, lastSlot, database, made, votes, stops>>

GenesisBlock == <<>>
Authorities == Range(authorities)
IsAuthority(n) == n \in Authorities

(* What a node has before its first start and after purge-chain.           *)
Fresh == [round |-> 1, base |-> GenesisBlock, vote |-> None]

NodeInit ==
  /\ authorities \in {LoadSpec(id).authorities : id \in Chains}
  /\ slot = 0 /\ lastSlot = [n \in Nodes |-> 0]
  /\ stage = [n \in Nodes |-> "down"] /\ failed = [n \in Nodes |-> None]
  /\ known = [n \in Nodes |-> {GenesisBlock}] /\ made = {} /\ votes = {} /\ stops = 0
  /\ best = [n \in Nodes |-> GenesisBlock] /\ final = [n \in Nodes |-> GenesisBlock]
  /\ voter = [n \in Nodes |-> Fresh]

(* The tasks that are spawned as essential, in the order they start.       *)
Started == [partial |-> {"pool", "import"}, network |-> {"pool", "import"},
            authoring |-> {"pool", "import", "aura"},
            up |-> {"pool", "import", "aura", "voter"}]

(* Mutant: the authoring task is spawned like any other.                   *)
AuraNotEssential(n) ==
  IF stage[n] \notin DOMAIN Started THEN {} ELSE Started[stage[n]] \ {"aura"}

Essential(n) ==
  IF stage[n] \notin DOMAIN Started THEN {}
  ELSE Started[stage[n]] \ ((IF IsAuthority(n) THEN {} ELSE {"aura"})
                            \cup (IF EnableGrandpa THEN {} ELSE {"voter"}))

(* A task that has started and not failed.                                 *)
Running(n, task) ==
  /\ stage[n] \in DOMAIN Started /\ task \in Started[stage[n]] /\ failed[n] # task
  /\ task = "aura" => IsAuthority(n)
  /\ task = "voter" => EnableGrandpa

Connected(n) == stage[n] \in {"network", "authoring", "up"}

Extends(b, a) == IsPrefix(a, b)

-----------------------------------------------------------------------------
(* new_full, step by step, each of which may fail.                         *)
Goes(n, from, to) ==
  /\ stage[n] = from /\ stage' = [stage EXCEPT ![n] = to]
  /\ UNCHANGED <<authorities, slot, database, made, votes>>

NewPartial(n) == Goes(n, "down", "partial") /\ UNCHANGED <<failed, lastSlot, stops>>

BuildNetwork(n) == Goes(n, "partial", "network") /\ UNCHANGED <<failed, lastSlot, stops>>

(* Mutants: the worker begins with the slot it finds itself in, or skips   *)
(* the next.                                                               *)
FirstSlotAtOnce(n) == 0
FirstSlotLater(n) == slot + 1

(* The slot worker waits for the next slot before its first.               *)
FirstSlot(n) == slot

StartAura(n) ==
  /\ Goes(n, "network", "authoring")
  /\ lastSlot' = IF IsAuthority(n) THEN [lastSlot EXCEPT ![n] = FirstSlot(n)] ELSE lastSlot
  /\ UNCHANGED <<failed, stops>>

StartVoter(n) == Goes(n, "authoring", "up") /\ UNCHANGED <<failed, lastSlot, stops>>

(* Any step of new_full returns an error, the process is killed or stopped.*)
Stop(n) ==
  /\ stage[n] # "down" /\ stops < MaxStops
  /\ stops' = stops + 1
  /\ Goes(n, stage[n], "down")
  /\ failed' = [failed EXCEPT ![n] = None] /\ UNCHANGED lastSlot

TaskFails(n, task) ==
  /\ Running(n, task) /\ failed[n] = None /\ stops < MaxStops
  /\ failed' = [failed EXCEPT ![n] = task]
  /\ stops' = stops + 1
  /\ UNCHANGED <<authorities, slot, stage, lastSlot, database, made, votes>>

(* The task manager returned by new_full takes the service down.           *)
Shutdown(n) ==
  /\ stage[n] = "up" /\ failed[n] \in Essential(n)
  /\ Goes(n, "up", "down")
  /\ failed' = [failed EXCEPT ![n] = None] /\ UNCHANGED <<lastSlot, stops>>

-----------------------------------------------------------------------------
Tick ==
  /\ slot < MaxSlot /\ slot' = slot + 1
  /\ UNCHANGED <<authorities, stage, failed, lastSlot, database, made, votes, stops>>

Author(s) == authorities[(s % Len(authorities)) + 1]

(* A node on its own does not author unless it is told to or alone.        *)
MayAuthor(n) ==
  \/ ForceAuthoring \/ Len(authorities) = 1
  \/ \E m \in Nodes \ {n} : Connected(m)

(* A claimed slot: a block on the best one, however far finality is back.  *)
AuthorBlock(n) ==
  LET b == Append(best[n], slot)
  IN  /\ Running(n, "aura") /\ Author(slot) = n /\ lastSlot[n] < slot
      /\ MayAuthor(n)
      /\ best[n] # GenesisBlock => Last(best[n]) < slot
      /\ lastSlot' = [lastSlot EXCEPT ![n] = slot]
      /\ made' = made \cup {b}
      /\ known' = [known EXCEPT ![n] = @ \cup {b}]
      /\ best' = [best EXCEPT ![n] = b]
      /\ UNCHANGED <<authorities, slot, stage, failed, final, voter, votes, stops>>

(* A block from a peer, or from the file of import-blocks.                 *)
Import(n, b) ==
  /\ (Connected(n) /\ Running(n, "import")) \/ stage[n] = "importing"
  /\ b \notin known[n] /\ Front(b) \in known[n] /\ Extends(b, final[n])
  /\ known' = [known EXCEPT ![n] = @ \cup {b}]
  /\ best' = [best EXCEPT ![n] = IF Len(b) > Len(@) THEN b ELSE @]
  /\ UNCHANGED <<authorities, slot, stage, failed, lastSlot, final, voter, made, votes, stops>>

-----------------------------------------------------------------------------
(* GRANDPA's supermajority.                                                *)
Threshold == Len(authorities) - (Len(authorities) - 1) \div 3

(* A voter has seen these votes of a round: one of each of their voters.   *)
Tally(r) ==
  {seen \in SUBSET {v \in votes : v.round = r} :
     /\ \A v, w \in seen : v.voter = w.voter => v = w
     /\ Cardinality(seen) >= Threshold}

For(seen, b) == {v \in seen : Extends(v.block, b)}

(* Mutant: a round may end below a block the last one could finalize.      *)
EstimateIgnored(seen) == GenesisBlock

(* The highest block that may have a supermajority, whatever is not seen.  *)
Estimate(seen) ==
  LET unseen == Len(authorities) - Cardinality(seen)
      open   == {b \in made \cup {GenesisBlock} : Cardinality(For(seen, b)) + unseen >= Threshold}
  IN  CHOOSE b \in open : \A c \in open : Len(c) <= Len(b)

(* A vote, noted in the auxiliary storage before it is sent.               *)
Precommit(n, b) ==
  /\ Running(n, "voter") /\ IsAuthority(n) /\ voter[n].vote = None
  /\ b \in known[n] /\ Extends(b, voter[n].base) /\ Extends(b, final[n])
  /\ voter' = [voter EXCEPT ![n].vote = b]
  /\ votes' = votes \cup {[round |-> voter[n].round, voter |-> n, block |-> b]}
  /\ UNCHANGED <<authorities, slot, stage, failed, lastSlot, known, best, final, made, stops>>

(* The round is complete for this voter; the next builds on its estimate.  *)
NextRound(n) ==
  /\ Running(n, "voter") /\ IsAuthority(n) /\ voter[n].vote # None
  /\ voter[n].round < MaxRound
  /\ \E seen \in Tally(voter[n].round) :
       /\ Estimate(seen) \in known[n]
       /\ voter' = [voter EXCEPT ![n] = [round |-> @.round + 1, base |-> Estimate(seen), vote |-> None]]
  /\ UNCHANGED <<authorities, slot, stage, failed, lastSlot, known, best, final, made, votes, stops>>

(* The best block stays if it contains b; else a longest one that does.    *)
BestWith(n, b) ==
  IF Extends(best[n], b) THEN {best[n]}
  ELSE LET leaves == {c \in known[n] : Extends(c, b)}
       IN  {c \in leaves : \A d \in leaves : Len(d) <= Len(c)}

Finalize(n, b) ==
  /\ Running(n, "voter") /\ b \in known[n] /\ IsStrictPrefix(final[n], b)
  /\ \E r \in 1 .. MaxRound :
       Cardinality({v.voter : v \in For({w \in votes : w.round = r}, b)}) >= Threshold
  /\ final' = [final EXCEPT ![n] = b]
  /\ \E c \in BestWith(n, b) : best' = [best EXCEPT ![n] = c]
  /\ UNCHANGED <<authorities, slot, stage, failed, lastSlot, known, voter, made, votes, stops>>

-----------------------------------------------------------------------------
(* The commands, each on a node that is down.  import-blocks:              *)
ImportBlocks(n) ==
  /\ Goes(n, "down", "importing") /\ UNCHANGED <<failed, lastSlot, stops>>

(* revert: as many blocks as asked for, above the finalized one.           *)
Revertible(n) ==
  LET unfinalized == Len(best[n]) - Len(final[n])
  IN  IF RevertBlocks > unfinalized THEN unfinalized ELSE RevertBlocks
RevertTo(n) == SubSeq(best[n], 1, Len(best[n]) - Revertible(n))

(* What GRANDPA's revert leaves of the voter's state: it starts over from  *)
(* the finalized block.                                                    *)
VoterReset(n) == [Fresh EXCEPT !.base = final[n]]

(* Mutant: no aux_revert is given.                                         *)
NoAuxRevert(n) ==
  /\ Revertible(n) > 0
  /\ stage[n] = "down" /\ stage' = [stage EXCEPT ![n] = "reverting"]
  /\ UNCHANGED <<authorities, slot, failed, lastSlot, database, made, votes, stops>>

(* aux_revert comes first.                                                 *)
AuxRevert(n) ==
  /\ Revertible(n) > 0
  /\ stage[n] = "down" /\ stage' = [stage EXCEPT ![n] = "reverting"]
  /\ voter' = [voter EXCEPT ![n] = VoterReset(n)]
  /\ UNCHANGED <<authorities, slot, failed, lastSlot, known, best, final, made, votes, stops>>

(* Then the chain and all forks above it.                                  *)
RevertChain(n) ==
  /\ stage[n] = "reverting" /\ stage' = [stage EXCEPT ![n] = "down"]
  /\ best' = [best EXCEPT ![n] = RevertTo(n)]
  /\ known' = [known EXCEPT ![n] = {b \in @ : Len(b) <= Len(RevertTo(n))}]
  /\ UNCHANGED <<authorities, slot, failed, lastSlot, final, voter, made, votes, stops>>

(* purge-chain.                                                            *)
PurgeChain(n) ==
  /\ stage[n] = "down"
  /\ known[n] # {GenesisBlock}
  /\ known' = [known EXCEPT ![n] = {GenesisBlock}]
  /\ best' = [best EXCEPT ![n] = GenesisBlock] /\ final' = [final EXCEPT ![n] = GenesisBlock]
  /\ voter' = [voter EXCEPT ![n] = Fresh]
  /\ UNCHANGED <<authorities, slot, stage, failed, lastSlot, made, votes, stops>>

Startup(n) == NewPartial(n) \/ BuildNetwork(n) \/ StartAura(n) \/ StartVoter(n)

NodeNext ==
  \/ Tick
  \/ \E n \in Nodes :
       \/ Startup(n) \/ Shutdown(n) \/ Stop(n)
       \/ \E task \in Started.up : TaskFails(n, task)
       \/ AuthorBlock(n) \/ NextRound(n)
       \/ \E b \in made : Import(n, b) \/ Finalize(n, b)
       \/ \E b \in known[n] : Precommit(n, b)
       \/ ImportBlocks(n) \/ AuxRevert(n) \/ RevertChain(n) \/ PurgeChain(n)

(* A process gets on with its start, and the runner awaits its tasks.      *)
Fairness ==
  \A n \in Nodes : WF_nodeVars(BuildNetwork(n) \/ StartAura(n) \/ StartVoter(n) \/ Shutdown(n))

NodeSpec == NodeInit /\ [][NodeNext]_nodeVars /\ Fairness

-----------------------------------------------------------------------------
NodeTypeOK ==
  /\ slot \in 0 .. MaxSlot /\ stops \in 0 .. MaxStops
  /\ stage \in [Nodes -> DOMAIN Started \cup {"down", "importing", "reverting"}]
  /\ failed \in [Nodes -> Started.up \cup {None}]
  /\ lastSlot \in [Nodes -> 0 .. MaxSlot]
  /\ made \subseteq Seq(1 .. MaxSlot)
  /\ known \in [Nodes -> SUBSET (made \cup {GenesisBlock})]

(* Two nodes never finalize blocks of different branches, whatever fails,  *)
(* is reverted or purged, as long as no voter that lost its state that way *)
(* votes twice in one round.                                               *)
NoEquivocation == \A v, w \in votes : v.round = w.round /\ v.voter = w.voter => v = w
FinalityAgrees ==
  NoEquivocation => \A m, n \in Nodes : Extends(final[m], final[n]) \/ Extends(final[n], final[m])

(* A node's database fits together after every start, crash and command:   *)
(* the best chain holds the finalized block, and the voter never stands    *)
(* on, or voted for, a block the database no longer has - not between the  *)
(* two steps of a revert either.                                           *)
DatabaseFits ==
  \A n \in Nodes :
    /\ Extends(best[n], final[n]) /\ best[n] \in known[n]
    /\ {voter[n].base, voter[n].vote} \ {None} \subseteq known[n]

(* No slot has two blocks, although an author may stop right after one and *)
(* come back, with its database reverted, before the slot is over.         *)
OneBlockPerSlot == \A b, c \in made : Last(b) = Last(c) => b = c

(* A service does not run on without its author, voter, pool or importer.  *)
FailedTaskTakesNodeDown ==
  \A n \in Nodes : failed[n] # None ~> stage[n] = "down"
=============================================================================

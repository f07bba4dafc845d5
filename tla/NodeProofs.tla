----------------------------- MODULE NodeProofs -----------------------------
(* What a node's database, the slots of the chain and the blocks that are  *)
(* finalized never suffer, for any number of slots, rounds, failures,      *)
(* restarts and commands.                                                  *)
EXTENDS Node, FiniteSetTheorems, SequenceTheorems, WellFoundedInduction, TLAPS

Block == Seq(Nat)

LEMMA PrefixByElements ==
  ASSUME NEW s \in Block, NEW t \in Block
  PROVE  IsPrefix(s, t) <=> Len(s) <= Len(t) /\ \A i \in 1 .. Len(s) : s[i] = t[i]
<1>1. CASE Len(s) <= Len(t)
  <2>1. /\ SubSeq(s, 1, Len(s)) \in Block /\ Len(SubSeq(s, 1, Len(s))) = Len(s)
        /\ \A i \in 1 .. Len(s) : SubSeq(s, 1, Len(s))[i] = s[i]
    BY SubSeqProperties DEF Block
  <2>2. /\ SubSeq(t, 1, Len(s)) \in Block /\ Len(SubSeq(t, 1, Len(s))) = Len(s)
        /\ \A i \in 1 .. Len(s) : SubSeq(t, 1, Len(s))[i] = t[i]
    BY <1>1, SubSeqProperties DEF Block
  <2>3. SubSeq(s, 1, Len(s)) = SubSeq(t, 1, Len(s)) <=> \A i \in 1 .. Len(s) : s[i] = t[i]
    BY <2>1, <2>2, SeqEqual DEF Block
  <2> QED BY <1>1, <2>3 DEF IsPrefix
<1>2. CASE ~(Len(s) <= Len(t))
  BY <1>2 DEF IsPrefix
<1> QED BY <1>1, <1>2

LEMMA Cut ==
  ASSUME NEW t \in Block, NEW k \in 0 .. Len(t)
  PROVE  /\ SubSeq(t, 1, k) \in Block /\ Len(SubSeq(t, 1, k)) = k
         /\ \A i \in 1 .. k : SubSeq(t, 1, k)[i] = t[i]
<1>1. CASE k = 0
  BY <1>1 DEF Block
<1>2. CASE k # 0
  BY <1>2, SubSeqProperties DEF Block
<1> QED BY <1>1, <1>2

LEMMA CutOfCut ==
  ASSUME NEW t \in Block, NEW m \in 0 .. Len(t), NEW k \in 0 .. m
  PROVE  SubSeq(SubSeq(t, 1, m), 1, k) = SubSeq(t, 1, k)
<1> DEFINE u == SubSeq(t, 1, m)
<1>1. u \in Block /\ Len(u) = m /\ \A i \in 1 .. m : u[i] = t[i]
  BY Cut
<1> HIDE DEF u
<1>2. /\ SubSeq(u, 1, k) \in Block /\ Len(SubSeq(u, 1, k)) = k
      /\ \A i \in 1 .. k : SubSeq(u, 1, k)[i] = u[i]
  BY <1>1, Cut
<1>3. /\ SubSeq(t, 1, k) \in Block /\ Len(SubSeq(t, 1, k)) = k
      /\ \A i \in 1 .. k : SubSeq(t, 1, k)[i] = t[i]
  BY Cut
<1>4. SubSeq(u, 1, k) = SubSeq(t, 1, k)
  BY <1>1, <1>2, <1>3, SeqEqual DEF Block
<1> QED BY <1>4 DEF u

LEMMA PrefixOfCut ==
  ASSUME NEW s \in Block, NEW t \in Block, IsPrefix(s, t), NEW k \in Len(s) .. Len(t)
  PROVE  IsPrefix(s, SubSeq(t, 1, k))
<1>1. k \in 0 .. Len(t) /\ Len(s) <= k /\ Len(s) \in Nat
  BY DEF Block
<1> DEFINE u == SubSeq(t, 1, k)
<1>2. u \in Block /\ Len(u) = k /\ \A i \in 1 .. k : u[i] = t[i]
  BY <1>1, Cut
<1>3. Len(s) <= Len(t) /\ \A i \in 1 .. Len(s) : s[i] = t[i]
  BY PrefixByElements
<1> HIDE DEF u
<1>4. \A i \in 1 .. Len(s) : s[i] = u[i]
  BY <1>1, <1>2, <1>3
<1>5. IsPrefix(s, u)
  BY <1>1, <1>2, <1>4, PrefixByElements
<1> QED BY <1>5 DEF u

LEMMA PrefixOfAppend ==
  ASSUME NEW s \in Block, NEW t \in Block, IsPrefix(s, t), NEW x \in Nat
  PROVE  IsPrefix(s, Append(t, x))
<1>1. /\ Append(t, x) \in Block /\ Len(Append(t, x)) = Len(t) + 1
      /\ \A i \in 1 .. Len(t) : Append(t, x)[i] = t[i]
  BY DEF Block
<1>2. Len(s) <= Len(t) /\ (\A i \in 1 .. Len(s) : s[i] = t[i]) /\ Len(s) \in Nat /\ Len(t) \in Nat
  BY PrefixByElements DEF Block
<1> DEFINE u == Append(t, x)
<1>3. u \in Block /\ Len(u) = Len(t) + 1 /\ \A i \in 1 .. Len(t) : u[i] = t[i]
  BY <1>1
<1> HIDE DEF u
<1>4. Len(s) <= Len(u) /\ \A i \in 1 .. Len(s) : s[i] = u[i]
  BY <1>2, <1>3
<1>5. IsPrefix(s, u)
  BY <1>3, <1>4, PrefixByElements
<1> QED BY <1>5 DEF u

-----------------------------------------------------------------------------
(* A database holds, with a block, the whole chain down to genesis.        *)
Closed(K) ==
  /\ K \subseteq Block /\ <<>> \in K
  /\ \A b \in K : \A k \in 0 .. Len(b) : SubSeq(b, 1, k) \in K

LEMMA GenesisClosed == Closed({<<>>})
<1>1. <<>> \in Block /\ Len(<<>>) = 0
  BY DEF Block
<1> QED BY <1>1, Cut DEF Closed, Block

LEMMA ClosedWith ==
  ASSUME NEW K, Closed(K), NEW b \in Block, b # <<>>, Front(b) \in K
  PROVE  Closed(K \cup {b})
<1>1. Len(b) \in Nat \ {0}
  BY DEF Block
<1>2. ASSUME NEW k \in 0 .. Len(b) PROVE SubSeq(b, 1, k) \in K \cup {b}
  <2>1. CASE k = Len(b)
    <3>1. SubSeq(b, 1, k) = b
      BY <2>1, Cut, <1>1, SeqEqual DEF Block
    <3> QED BY <3>1
  <2>2. CASE k # Len(b)
    <3>1. k \in 0 .. Len(b) - 1 /\ Len(b) - 1 \in 0 .. Len(b)
      BY <2>2, <1>1
    <3>2. Len(Front(b)) = Len(b) - 1
      BY <3>1, Cut DEF Front
    <3>3. SubSeq(Front(b), 1, k) = SubSeq(b, 1, k)
      BY <3>1, CutOfCut DEF Front
    <3> QED BY <3>1, <3>2, <3>3 DEF Closed
  <2> QED BY <2>1, <2>2
<1> QED BY <1>2 DEF Closed

LEMMA ClosedBelow ==
  ASSUME NEW K, Closed(K), NEW m \in Nat
  PROVE  Closed({b \in K : Len(b) <= m})
<1>1. ASSUME NEW b \in K, Len(b) <= m, NEW k \in 0 .. Len(b)
      PROVE  SubSeq(b, 1, k) \in K /\ Len(SubSeq(b, 1, k)) <= m
  <2>1. b \in Block /\ Len(b) \in Nat
    BY DEF Closed, Block
  <2>2. Len(SubSeq(b, 1, k)) = k
    BY <2>1, Cut
  <2> QED BY <1>1, <2>1, <2>2 DEF Closed
<1> QED BY <1>1 DEF Closed

-----------------------------------------------------------------------------
(* One node's database, on its own.                                        *)
Fits(K, best1, final1, voter1) ==
  /\ Closed(K) /\ best1 \in K /\ final1 \in K /\ IsPrefix(final1, best1)
  /\ voter1.base \in K /\ voter1.vote \in K \cup {None}
  /\ {"round", "base", "vote"} \subseteq DOMAIN voter1

(* Between the two steps of revert the voter stands on what stays.         *)
RevertFits(n) ==
  stage[n] = "reverting" => voter[n].base = final[n] /\ voter[n].vote = None

DInv ==
  /\ {Nodes} = {DOMAIN known, DOMAIN best, DOMAIN final, DOMAIN voter, DOMAIN stage}
  /\ made \subseteq Block \ {<<>>} /\ slot \in Nat
  /\ \A n \in Nodes : Fits(known[n], best[n], final[n], voter[n]) /\ RevertFits(n)

LEMMA DInvInit == NodeInit => DInv
<1> SUFFICES ASSUME NodeInit PROVE DInv
  OBVIOUS
<1>1. <<>> \in Block /\ IsPrefix(<<>>, <<>>)
  <2>1. <<>> \in Block
    BY DEF Block
  <2> QED BY <2>1, PrefixByElements
<1> QED BY <1>1, GenesisClosed DEF NodeInit, DInv, Fits, RevertFits, GenesisBlock, Fresh

(* Where a revert ends: at or above the finalized block, on the best chain.*)
LEMMA RevertEnds ==
  ASSUME NEW n \in Nodes, Fits(known[n], best[n], final[n], voter[n])
  PROVE  /\ RevertTo(n) \in known[n] /\ Len(RevertTo(n)) \in Nat
         /\ IsPrefix(final[n], RevertTo(n)) /\ Len(final[n]) <= Len(RevertTo(n))
<1> DEFINE k == Len(best[n]) - Revertible(n)
<1>1. best[n] \in Block /\ final[n] \in Block /\ Len(best[n]) \in Nat /\ Len(final[n]) \in Nat
  BY DEF Fits, Closed, Block
<1>2. Len(final[n]) <= Len(best[n])
  BY DEF Fits, IsPrefix
<1>3. k \in Len(final[n]) .. Len(best[n]) /\ k \in 0 .. Len(best[n])
  <2> DEFINE l == Len(best[n])
             f == Len(final[n])
             r == Revertible(n)
  <2>1. RevertBlocks \in Nat
    BY NodeAssumption
  <2>2. r = IF RevertBlocks > l - f THEN l - f ELSE RevertBlocks
    BY DEF Revertible
  <2>3. l \in Nat /\ f \in Nat /\ f <= l /\ k = l - r
    BY <1>1, <1>2
  <2> HIDE DEF l, f, r, k
  <2>4. k \in f .. l /\ k \in 0 .. l
    BY <2>1, <2>2, <2>3
  <2> QED BY <2>4 DEF l, f
<1>4. RevertTo(n) = SubSeq(best[n], 1, k)
  BY DEF RevertTo
<1> HIDE DEF k
<1>5. RevertTo(n) \in known[n]
  BY <1>3, <1>4 DEF Fits, Closed
<1>6. Len(RevertTo(n)) = k
  BY <1>1, <1>3, <1>4, Cut
<1>7. IsPrefix(final[n], RevertTo(n))
  BY <1>1, <1>3, <1>4, PrefixOfCut DEF Fits
<1> QED BY <1>1, <1>3, <1>5, <1>6, <1>7

-----------------------------------------------------------------------------
Tables == {DOMAIN known, DOMAIN best, DOMAIN final, DOMAIN voter, DOMAIN stage}

(* A step that concerns one node.                                          *)
LEMMA OneNode ==
  ASSUME DInv, NEW n \in Nodes, Tables' = Tables,
         made' \subseteq Block \ {<<>>}, slot' \in Nat,
         \A m \in Nodes \ {n} :
           /\ known'[m] = known[m] /\ best'[m] = best[m] /\ final'[m] = final[m]
           /\ voter'[m] = voter[m] /\ stage'[m] = stage[m],
         Fits(known'[n], best'[n], final'[n], voter'[n]), RevertFits(n)'
  PROVE  DInv'
<1>1. ASSUME NEW m \in Nodes \ {n} PROVE Fits(known'[m], best'[m], final'[m], voter'[m]) /\ RevertFits(m)'
  BY <1>1 DEF DInv, RevertFits, RevertTo, Revertible
<1> QED BY <1>1 DEF DInv, Tables

(* A step that leaves the databases alone and starts no revert.            *)
LEMMA NoDatabase ==
  ASSUME DInv, UNCHANGED <<known, best, final, voter, made>>, slot' \in Nat,
         DOMAIN stage' = DOMAIN stage,
         \A n \in Nodes : stage'[n] = "reverting" => stage[n] = "reverting"
  PROVE  DInv'
  BY DEF DInv, RevertFits, RevertTo, Revertible

LEMMA FrontOfAppend ==
  ASSUME NEW t \in Block, NEW x \in Nat
  PROVE  Append(t, x) \in Block /\ Append(t, x) # <<>> /\ Front(Append(t, x)) = t
<1> DEFINE b == Append(t, x)
<1>1. b \in Block /\ b # <<>> /\ Len(b) = Len(t) + 1
  BY AppendProperties DEF Block
<1>2. Len(t) \in 0 .. Len(b) /\ \A i \in 1 .. Len(t) : b[i] = t[i]
  BY <1>1 DEF Block
<1>3. Front(b) = SubSeq(b, 1, Len(t))
  BY <1>1 DEF Front, Block
<1> HIDE DEF b
<1>4. /\ Front(b) \in Block /\ Len(Front(b)) = Len(t)
      /\ \A i \in 1 .. Len(t) : Front(b)[i] = b[i]
  BY <1>1, <1>2, <1>3, Cut
<1>5. Front(b) = t
  BY <1>2, <1>4, SeqEqual DEF Block
<1> QED BY <1>1, <1>5 DEF b

LEMMA AuthorKeeps == ASSUME DInv, NEW n \in Nodes, AuthorBlock(n) PROVE DInv'
<1> DEFINE b == Append(best[n], slot)
<1>1. Fits(known[n], best[n], final[n], voter[n]) /\ slot \in Nat
  BY DEF DInv
<1>2. best[n] \in Block /\ final[n] \in Block
  BY <1>1 DEF Fits, Closed
<1>3. b \in Block /\ b # <<>>
  BY <1>1, <1>2, FrontOfAppend
<1>4. Front(b) = best[n]
  BY <1>1, <1>2, FrontOfAppend
<1>5. Closed(known[n] \cup {b})
  <2> HIDE DEF b
  <2> QED BY <1>1, <1>3, <1>4, ClosedWith DEF Fits
<1>6. IsPrefix(final[n], b)
  BY <1>1, <1>2, PrefixOfAppend DEF Fits
<1>7. /\ known' = [known EXCEPT ![n] = @ \cup {b}] /\ best' = [best EXCEPT ![n] = b]
      /\ made' = made \cup {b} /\ UNCHANGED <<final, voter, stage, slot>> /\ stage[n] # "reverting"
  BY DEF AuthorBlock, Running, Started
<1> HIDE DEF b
<1>8. Fits(known'[n], best'[n], final'[n], voter'[n])
  BY <1>1, <1>5, <1>6, <1>7 DEF Fits, DInv
<1> QED BY <1>3, <1>7, <1>8, OneNode DEF DInv, Tables, RevertFits

LEMMA ImportKeeps == ASSUME DInv, NEW n \in Nodes, NEW b \in made, Import(n, b) PROVE DInv'
<1>1. Fits(known[n], best[n], final[n], voter[n])
  BY DEF DInv
<1>2. b \in Block /\ b # <<>> /\ Front(b) \in known[n] /\ IsPrefix(final[n], b)
  BY DEF Import, DInv, Extends
<1>3. Closed(known[n] \cup {b})
  BY <1>1, <1>2, ClosedWith DEF Fits
<1>4. /\ known' = [known EXCEPT ![n] = @ \cup {b}]
      /\ best' = [best EXCEPT ![n] = IF Len(b) > Len(@) THEN b ELSE @]
      /\ UNCHANGED <<final, voter, stage, slot, made>> /\ stage[n] # "reverting"
  BY DEF Import, Connected
<1>5. Fits(known'[n], best'[n], final'[n], voter'[n])
  BY <1>1, <1>2, <1>3, <1>4 DEF Fits, DInv
<1> QED BY <1>4, <1>5, OneNode DEF DInv, Tables, RevertFits

LEMMA FinalizeKeeps == ASSUME DInv, NEW n \in Nodes, NEW b \in made, Finalize(n, b) PROVE DInv'
<1>1. Fits(known[n], best[n], final[n], voter[n]) /\ b \in known[n]
  BY DEF DInv, Finalize
<1>2. PICK c \in BestWith(n, b) : best' = [best EXCEPT ![n] = c]
  BY DEF Finalize
<1>3. c \in known[n] /\ IsPrefix(b, c)
  BY <1>1 DEF BestWith, Extends, Fits
<1>4. /\ final' = [final EXCEPT ![n] = b]
      /\ UNCHANGED <<known, voter, stage, slot, made>> /\ stage[n] # "reverting"
  BY DEF Finalize, Running, Started
<1>5. Fits(known'[n], best'[n], final'[n], voter'[n])
  BY <1>1, <1>2, <1>3, <1>4 DEF Fits, DInv
<1> QED BY <1>2, <1>4, <1>5, OneNode DEF DInv, Tables, RevertFits

LEMMA VoteKeeps ==
  ASSUME DInv, NEW n \in Nodes, (\E b \in known[n] : Precommit(n, b)) \/ NextRound(n)
  PROVE  DInv'
<1>1. Fits(known[n], best[n], final[n], voter[n])
  BY DEF DInv
<1>2. UNCHANGED <<known, best, final, stage, slot, made>> /\ stage[n] # "reverting"
  BY DEF Precommit, NextRound, Running, Started
<1>3. CASE \E b \in known[n] : Precommit(n, b)
  <2>1. PICK b \in known[n] : voter' = [voter EXCEPT ![n].vote = b]
    BY <1>3 DEF Precommit
  <2>2. Fits(known'[n], best'[n], final'[n], voter'[n])
    BY <1>1, <1>2, <2>1 DEF Fits, DInv
  <2> QED BY <1>2, <2>1, <2>2, OneNode DEF DInv, Tables, RevertFits
<1>4. CASE NextRound(n)
  <2>1. PICK r, b : b \in known[n] /\ voter' = [voter EXCEPT ![n] = [round |-> r, base |-> b, vote |-> None]]
    BY <1>4 DEF NextRound
  <2>2. Fits(known'[n], best'[n], final'[n], voter'[n])
    BY <1>1, <1>2, <2>1 DEF Fits, DInv
  <2> QED BY <1>2, <2>1, <2>2, OneNode DEF DInv, Tables, RevertFits
<1> QED BY <1>3, <1>4

LEMMA AuxRevertKeeps == ASSUME DInv, NEW n \in Nodes, AuxRevert(n) PROVE DInv'
<1>1. Fits(known[n], best[n], final[n], voter[n])
  BY DEF DInv
<1>2. /\ UNCHANGED <<known, best, final, slot, made>>
      /\ voter' = [voter EXCEPT ![n] = [round |-> 1, base |-> final[n], vote |-> None]]
      /\ stage' = [stage EXCEPT ![n] = "reverting"]
  <2>1. VoterReset(n) = [round |-> 1, base |-> final[n], vote |-> None]
    BY DEF VoterReset, Fresh
  <2> QED BY <2>1 DEF AuxRevert
<1>3. Fits(known'[n], best'[n], final'[n], voter'[n])
  BY <1>1, <1>2 DEF Fits, DInv
<1>4. RevertFits(n)'
  BY <1>2 DEF RevertFits, DInv
<1> QED BY <1>2, <1>3, <1>4, OneNode DEF DInv, Tables

LEMMA RevertChainKeeps == ASSUME DInv, NEW n \in Nodes, RevertChain(n) PROVE DInv'
<1> DEFINE t == RevertTo(n)
<1>1. Fits(known[n], best[n], final[n], voter[n])
  BY DEF DInv
<1>2. t \in known[n] /\ Len(t) \in Nat /\ IsPrefix(final[n], t) /\ Len(final[n]) <= Len(t)
  BY <1>1, RevertEnds
<1>3. voter[n].base = final[n] /\ voter[n].vote = None
  BY DEF RevertChain, DInv, RevertFits
<1>4. /\ best' = [best EXCEPT ![n] = t]
      /\ known' = [known EXCEPT ![n] = {b \in @ : Len(b) <= Len(t)}]
      /\ UNCHANGED <<final, voter, slot, made>> /\ stage' = [stage EXCEPT ![n] = "down"]
  BY DEF RevertChain
<1> HIDE DEF t
<1>5. Closed({b \in known[n] : Len(b) <= Len(t)})
  BY <1>1, <1>2, ClosedBelow DEF Fits
<1>6. Fits(known'[n], best'[n], final'[n], voter'[n])
  <2> DEFINE K == {b \in known[n] : Len(b) <= Len(t)}
  <2>1. t \in K /\ final[n] \in K
    BY <1>1, <1>2 DEF Fits
  <2>2. known'[n] = K /\ best'[n] = t /\ final'[n] = final[n] /\ voter'[n] = voter[n]
    BY <1>4 DEF DInv
  <2> HIDE DEF K
  <2> QED BY <1>1, <1>2, <1>3, <1>5, <2>1, <2>2 DEF Fits, K
<1> QED BY <1>4, <1>6, OneNode DEF DInv, Tables, RevertFits

LEMMA PurgeKeeps == ASSUME DInv, NEW n \in Nodes, PurgeChain(n) PROVE DInv'
<1>1. /\ known' = [known EXCEPT ![n] = {<<>>}] /\ best' = [best EXCEPT ![n] = <<>>]
      /\ final' = [final EXCEPT ![n] = <<>>]
      /\ voter' = [voter EXCEPT ![n] = [round |-> 1, base |-> <<>>, vote |-> None]]
      /\ UNCHANGED <<stage, slot, made>> /\ stage[n] # "reverting"
  BY DEF PurgeChain, GenesisBlock, Fresh
<1>2. IsPrefix(<<>>, <<>>)
  <2>1. <<>> \in Block
    BY DEF Block
  <2> QED BY <2>1, PrefixByElements
<1>3. Fits(known'[n], best'[n], final'[n], voter'[n])
  BY <1>1, <1>2, GenesisClosed DEF Fits, DInv
<1> QED BY <1>1, <1>3, OneNode DEF DInv, Tables, RevertFits

-----------------------------------------------------------------------------
LEMMA DInvStep == DInv /\ [NodeNext]_nodeVars => DInv'
<1> SUFFICES ASSUME DInv, [NodeNext]_nodeVars PROVE DInv'
  OBVIOUS
<1> USE DEF database
<1>1. CASE Tick
  <2>1. UNCHANGED <<known, best, final, voter, made, stage>> /\ slot' = slot + 1 /\ slot \in Nat
    BY <1>1 DEF Tick, DInv
  <2> QED BY <2>1, NoDatabase
<1>2. ASSUME NEW n \in Nodes, Startup(n) \/ Shutdown(n) \/ Stop(n) \/ ImportBlocks(n) PROVE DInv'
  BY <1>2, NoDatabase DEF Startup, NewPartial, BuildNetwork, StartAura, StartVoter, Shutdown, Stop,
     ImportBlocks, Goes, DInv
<1>3. ASSUME NEW n \in Nodes, NEW task \in Started.up, TaskFails(n, task) PROVE DInv'
  BY <1>3, NoDatabase DEF TaskFails, DInv
<1>4. ASSUME NEW n \in Nodes, AuthorBlock(n) PROVE DInv'
  BY <1>4, AuthorKeeps
<1>5. ASSUME NEW n \in Nodes, NEW b \in made, Import(n, b) \/ Finalize(n, b) PROVE DInv'
  BY <1>5, ImportKeeps, FinalizeKeeps
<1>6. ASSUME NEW n \in Nodes, (\E b \in known[n] : Precommit(n, b)) \/ NextRound(n) PROVE DInv'
  BY <1>6, VoteKeeps
<1>7. ASSUME NEW n \in Nodes, AuxRevert(n) \/ RevertChain(n) \/ PurgeChain(n) PROVE DInv'
  BY <1>7, AuxRevertKeeps, RevertChainKeeps, PurgeKeeps
<1>8. CASE UNCHANGED nodeVars
  BY <1>8, NoDatabase DEF nodeVars, DInv
<1> QED BY <1>1, <1>2, <1>3, <1>4, <1>5, <1>6, <1>7, <1>8 DEF NodeNext

(* After any starts, crashes, failures and commands, the best chain holds  *)
(* the finalized block and the voter refers to blocks there are.           *)
THEOREM DatabaseHolds == NodeSpec => []DatabaseFits
<1>1. DInv => DatabaseFits
  BY NodeAssumption DEF DInv, Fits, DatabaseFits, Extends
<1> QED BY <1>1, DInvInit, DInvStep, PTL DEF NodeSpec

-----------------------------------------------------------------------------
(* An author's slot worker has seen every slot it made a block in, through *)
(* restarts: it begins with a slot that is over.                           *)
SInv ==
  /\ authorities = <<Alice>> \/ authorities = <<Alice, Bob>>
  /\ DOMAIN lastSlot = Nodes
  /\ \A n \in Nodes : lastSlot[n] \in Nat /\ lastSlot[n] <= slot
  /\ \A b \in made : Last(b) \in Nat /\ Last(b) <= lastSlot[Author(Last(b))]
  /\ OneBlockPerSlot

LEMMA AuthorIsNode == SInv => \A s \in Nat : Author(s) \in Nodes
<1> SUFFICES ASSUME SInv, NEW s \in Nat PROVE Author(s) \in Nodes
  OBVIOUS
<1>1. s % 1 = 0 /\ s % 2 \in 0 .. 1
  OBVIOUS
<1>2. CASE authorities = <<Alice>>
  <2>1. (s % Len(authorities)) + 1 = 1
    BY <1>1, <1>2
  <2> QED BY <1>2, <2>1, NodeAssumption DEF Author
<1>3. CASE authorities = <<Alice, Bob>>
  <2>1. (s % Len(authorities)) + 1 \in {1, 2}
    BY <1>1, <1>3
  <2> QED BY <1>3, <2>1, NodeAssumption DEF Author
<1> QED BY <1>2, <1>3 DEF SInv

LEMMA SInvInit == NodeInit => SInv
<1> SUFFICES ASSUME NodeInit PROVE SInv
  OBVIOUS
<1>1. PICK id \in Chains : authorities = LoadSpec(id).authorities /\ LoadSpec(id) # Refused
  BY NodeAssumption DEF NodeInit
<1>2. authorities = <<Alice>> \/ authorities = <<Alice, Bob>>
  BY <1>1 DEF LoadSpec, DevelopmentChainSpec, LocalChainSpec, GetPreset, DevelopmentConfigGenesis, LocalConfigGenesis, TestnetGenesis
<1> QED BY <1>2 DEF NodeInit, SInv, OneBlockPerSlot

(* Slots that are seen and no new blocks.                                  *)
LEMMA SlotsSeen ==
  ASSUME SInv, DInv, UNCHANGED <<authorities, made>>, slot' \in Nat, slot <= slot',
         DOMAIN lastSlot' = DOMAIN lastSlot,
         \A n \in Nodes : lastSlot'[n] \in Nat /\ lastSlot[n] <= lastSlot'[n] /\ lastSlot'[n] <= slot'
  PROVE  SInv'
<1>1. \A b \in made : Last(b) \in Nat /\ Author(Last(b)) \in Nodes /\ Author(Last(b))' = Author(Last(b))
  BY AuthorIsNode DEF SInv, Author
<1>2. \A b \in made : Last(b) <= lastSlot'[Author(Last(b))]
  BY <1>1 DEF SInv
<1> QED BY <1>1, <1>2 DEF SInv, OneBlockPerSlot, Author

LEMMA AuthorOnce == ASSUME SInv, DInv, NEW n \in Nodes, AuthorBlock(n) PROVE SInv'
<1> DEFINE b == Append(best[n], slot)
<1>1. best[n] \in Block /\ slot \in Nat
  BY DEF DInv, Fits, Closed
<1>2. Last(b) = slot
  BY <1>1 DEF Last, Block
<1>3. /\ UNCHANGED <<authorities, slot>> /\ Author(slot) = n /\ lastSlot[n] < slot
      /\ lastSlot' = [lastSlot EXCEPT ![n] = slot] /\ made' = made \cup {b}
  BY DEF AuthorBlock
<1>4. \A c \in made : Last(c) # slot
  BY <1>1, <1>3 DEF SInv
<1> HIDE DEF b
<1>5. \A c \in made : Last(c) \in Nat /\ Author(Last(c)) \in Nodes /\ Last(c) <= lastSlot'[Author(Last(c))]
  BY <1>1, <1>3, AuthorIsNode DEF SInv
<1>6. \A c \in made' : Last(c) \in Nat /\ Last(c) <= lastSlot'[Author(Last(c))]
  BY <1>1, <1>2, <1>3, <1>5 DEF SInv
<1>7. OneBlockPerSlot'
  BY <1>2, <1>3, <1>4 DEF SInv, OneBlockPerSlot
<1> QED BY <1>1, <1>3, <1>6, <1>7 DEF SInv, Author

LEMMA SInvStep == SInv /\ DInv /\ [NodeNext]_nodeVars => SInv'
<1> SUFFICES ASSUME SInv, DInv, [NodeNext]_nodeVars PROVE SInv'
  OBVIOUS
<1>1. \A n \in Nodes : lastSlot[n] \in Nat /\ slot \in Nat
  BY DEF SInv, DInv
<1>2. CASE Tick
  <2>1. slot' = slot + 1 /\ UNCHANGED <<authorities, lastSlot, made>> /\ slot \in Nat
    BY <1>2 DEF Tick, DInv
  <2> QED BY <1>1, <2>1, SlotsSeen DEF SInv
<1>3. ASSUME NEW n \in Nodes, StartAura(n) PROVE SInv'
  <2>1. /\ UNCHANGED <<authorities, slot, made>>
        /\ lastSlot' = lastSlot \/ lastSlot' = [lastSlot EXCEPT ![n] = slot]
    BY <1>3 DEF StartAura, Goes, FirstSlot
  <2>2. slot' \in Nat /\ slot <= slot'
    BY <1>1, <2>1
  <2>3. DOMAIN lastSlot' = DOMAIN lastSlot /\ \A m \in Nodes :
          lastSlot'[m] \in Nat /\ lastSlot[m] <= lastSlot'[m] /\ lastSlot'[m] <= slot'
    BY <1>1, <2>1 DEF SInv
  <2> QED BY <2>1, <2>2, <2>3, SlotsSeen
<1>4. ASSUME NEW n \in Nodes, AuthorBlock(n) PROVE SInv'
  BY <1>4, AuthorOnce
<1>5. CASE UNCHANGED <<authorities, slot, lastSlot, made>>
  <2>1. slot' \in Nat /\ slot <= slot' /\ UNCHANGED <<authorities, made>>
    BY <1>5 DEF DInv
  <2>2. DOMAIN lastSlot' = DOMAIN lastSlot /\ \A m \in Nodes :
          lastSlot'[m] \in Nat /\ lastSlot[m] <= lastSlot'[m] /\ lastSlot'[m] <= slot'
    BY <1>5, <1>1 DEF SInv
  <2> QED BY <2>1, <2>2, SlotsSeen
<1>6. ASSUME NEW n \in Nodes, NewPartial(n) \/ BuildNetwork(n) \/ StartVoter(n) \/ Shutdown(n)
        \/ Stop(n) \/ (\E task \in Started.up : TaskFails(n, task)) \/ NextRound(n)
        \/ (\E b \in made : Import(n, b) \/ Finalize(n, b)) \/ (\E b \in known[n] : Precommit(n, b))
        \/ ImportBlocks(n) \/ AuxRevert(n) \/ RevertChain(n) \/ PurgeChain(n)
      PROVE  UNCHANGED <<authorities, slot, lastSlot, made>>
  BY <1>6 DEF NewPartial, BuildNetwork, StartVoter, Shutdown, Stop, Goes, TaskFails, NextRound,
     Import, Finalize, Precommit, ImportBlocks, AuxRevert, RevertChain, PurgeChain
<1>7. CASE UNCHANGED nodeVars
  BY <1>5, <1>7 DEF nodeVars
<1> QED BY <1>2, <1>3, <1>4, <1>5, <1>6, <1>7 DEF NodeNext, Startup

(* No slot ever has two blocks.                                            *)
THEOREM SlotsHaveOneBlock == NodeSpec => []OneBlockPerSlot
<1>1. SInv => OneBlockPerSlot
  BY DEF SInv
<1> QED BY <1>1, DInvInit, DInvStep, SInvInit, SInvStep, PTL DEF NodeSpec

-----------------------------------------------------------------------------
(* Blocks by their lengths, and blocks of one branch.                      *)
LEMMA Least ==
  ASSUME NEW S, S \subseteq Nat, S # {}
  PROVE  \E m \in S : \A k \in S : m <= k
<1>1. PICK m \in S : \A k \in S : ~ (<<k, m>> \in OpToRel(<, Nat))
  BY NatLessThanWellFounded, WFMin, Zenon
<1>2. \A k \in S : k < m => <<k, m>> \in OpToRel(<, Nat)
  BY Zenon DEF OpToRel
<1>3. \A k \in S : ~ (k < m)
  BY <1>1, <1>2
<1> QED BY <1>3

LEMMA Longest ==
  ASSUME NEW S, S \subseteq Block, S # {}, NEW N \in Nat, \A s \in S : Len(s) <= N
  PROVE  \E m \in S : \A s \in S : Len(s) <= Len(m)
<1> DEFINE gap == {N - Len(s) : s \in S}
<1>1. \A s \in S : Len(s) \in Nat
  BY DEF Block
<1>2. gap \subseteq Nat /\ gap # {}
  BY <1>1
<1>3. PICK g \in gap : \A h \in gap : g <= h
  <2> HIDE DEF gap
  <2> QED BY <1>2, Least
<1>4. PICK m \in S : g = N - Len(m)
  BY <1>3
<1>5. \A s \in S : N - Len(m) <= N - Len(s)
  BY <1>3, <1>4
<1>6. \A s \in S : Len(s) <= Len(m)
  BY <1>1, <1>5
<1> QED BY <1>6

LEMMA PrefixesCompare ==
  ASSUME NEW s \in Block, NEW t \in Block, NEW u \in Block, IsPrefix(s, u), IsPrefix(t, u), Len(s) <= Len(t)
  PROVE  IsPrefix(s, t)
<1>1. /\ Len(s) \in Nat /\ Len(t) \in Nat /\ Len(u) \in Nat
      /\ \A i \in 1 .. Len(s) : s[i] = u[i]
      /\ \A i \in 1 .. Len(t) : t[i] = u[i]
  BY PrefixByElements DEF Block
<1>2. \A i \in 1 .. Len(s) : i \in 1 .. Len(t)
  BY <1>1
<1>3. \A i \in 1 .. Len(s) : s[i] = t[i]
  BY <1>1, <1>2
<1> QED BY <1>3, PrefixByElements

LEMMA PrefixTransitive ==
  ASSUME NEW s \in Block, NEW t \in Block, NEW u \in Block, IsPrefix(s, t), IsPrefix(t, u)
  PROVE  IsPrefix(s, u)
<1>1. /\ Len(s) \in Nat /\ Len(t) \in Nat /\ Len(u) \in Nat /\ Len(s) <= Len(t) /\ Len(t) <= Len(u)
      /\ \A i \in 1 .. Len(s) : s[i] = t[i]
      /\ \A i \in 1 .. Len(t) : t[i] = u[i]
  BY PrefixByElements DEF Block
<1>2. \A i \in 1 .. Len(s) : i \in 1 .. Len(t)
  BY <1>1
<1>3. Len(s) <= Len(u) /\ \A i \in 1 .. Len(s) : s[i] = u[i]
  BY <1>1, <1>2
<1> QED BY <1>3, PrefixByElements

(* A prefix of a block is one of its cuts, so a closed set holds it.       *)
LEMMA ClosedHoldsPrefixes ==
  ASSUME NEW K, Closed(K), NEW t \in K, NEW s \in Block, IsPrefix(s, t)
  PROVE  s \in K
<1>1. t \in Block /\ Len(t) \in Nat /\ Len(s) \in Nat /\ Len(s) \in 0 .. Len(t)
  BY DEF Closed, Block, IsPrefix
<1>2. SubSeq(s, 1, Len(s)) = s
  BY <1>1, Cut, SeqEqual DEF Block
<1> QED BY <1>1, <1>2 DEF IsPrefix, Closed

-----------------------------------------------------------------------------
(* Finality.  What a round may have finalized, every later round carries   *)
(* on: its voters have all seen all votes of the round before, and so do   *)
(* not start below a block that those support.                             *)
Blocks == made \cup {GenesisBlock}

(* A round every authority voted in, and a block all of those votes extend.*)
Voted(r) == \A a \in Authorities : \E v \in votes : v.round = r /\ v.voter = a
Supported(r, b) ==
  \A a \in Authorities : \E v \in votes : v.round = r /\ v.voter = a /\ Extends(v.block, b)

(* A block that carries on whatever an earlier round may have finalized.   *)
Carries(r, b) ==
  \A q \in 1 .. r - 1 : Voted(q) /\ \A c \in Blocks : Supported(q, c) => Extends(b, c)

VotesFit ==
  /\ IsFiniteSet(votes)
  /\ \A v \in votes : v.round \in Nat \ {0} /\ v.voter \in Authorities /\ v.block \in Blocks

FinalSupported ==
  \A n \in Nodes : final[n] = GenesisBlock \/ \E r \in 1 .. MaxRound : Supported(r, final[n])

RoundsCarry ==
  /\ \A v \in votes : Carries(v.round, v.block)
  /\ \A n \in Authorities : Carries(voter[n].round, voter[n].base)

FInv ==
  /\ Closed(Blocks) /\ \A n \in Nodes : known[n] \subseteq Blocks
  /\ \A n \in Nodes : voter[n].round \in Nat \ {0}
  /\ VotesFit /\ FinalSupported
  /\ NoEquivocation => RoundsCarry

(* With the authorities of both presets a supermajority is all of them.    *)
LEMMA Everyone ==
  ASSUME SInv
  PROVE  /\ Authorities \subseteq Nodes /\ Authorities # {} /\ Threshold = Len(authorities)
         /\ Threshold \in Nat \ {0}
         /\ IsFiniteSet(Authorities) /\ Cardinality(Authorities) <= Threshold
         /\ \A S \in SUBSET Authorities : Cardinality(S) >= Threshold => S = Authorities
<1>0. IsFiniteSet({Alice}) /\ Cardinality({Alice}) = 1 /\ IsFiniteSet({Bob}) /\ Cardinality({Bob}) = 1 /\ Cardinality({}) = 0
  BY FS_Singleton, FS_EmptySet
<1>1. CASE authorities = <<Alice>>
  <2>1. Authorities = {Alice}
    BY <1>1 DEF Authorities, Range
  <2>2. Threshold = 1 /\ Len(authorities) = 1
    <3>1. Len(authorities) = 1 /\ 0 \div 3 = 0
      BY <1>1
    <3> QED BY <3>1 DEF Threshold
  <2>4. \A S \in SUBSET Authorities : Cardinality(S) >= Threshold => S = Authorities
    <3> SUFFICES ASSUME NEW S \in SUBSET {Alice}, Cardinality(S) >= 1 PROVE S = {Alice}
      BY <2>1, <2>2
    <3>1. S # {}
      BY <1>0
    <3> QED BY <3>1
  <2>5. Authorities \subseteq Nodes /\ Authorities # {}
    BY <2>1, NodeAssumption
  <2> QED BY <1>0, <2>1, <2>2, <2>4, <2>5
<1>2. CASE authorities = <<Alice, Bob>>
  <2>1. Authorities = {Alice, Bob}
    <3>1. DOMAIN authorities = {1, 2} /\ authorities[1] = Alice /\ authorities[2] = Bob
      BY <1>2
    <3> QED BY <3>1 DEF Authorities, Range
  <2>2. Threshold = 2 /\ Len(authorities) = 2
    <3>1. Len(authorities) = 2 /\ 1 \div 3 = 0
      BY <1>2
    <3> QED BY <3>1 DEF Threshold
  <2>3. \A S \in SUBSET {Alice, Bob} : S = {} \/ S = {Alice} \/ S = {Bob} \/ S = {Alice, Bob}
    OBVIOUS
  <2>4. IsFiniteSet({Alice, Bob}) /\ Cardinality({Alice, Bob}) <= 2
    <3>1. {Alice, Bob} = {Alice} \cup {Bob}
      OBVIOUS
    <3> QED BY <3>1, <1>0, FS_AddElement
  <2>5. \A S \in SUBSET Authorities : Cardinality(S) >= Threshold => S = Authorities
    <3> SUFFICES ASSUME NEW S \in SUBSET {Alice, Bob}, Cardinality(S) >= 2 PROVE S = {Alice, Bob}
      BY <2>1, <2>2
    <3>1. S # {} /\ S # {Alice} /\ S # {Bob}
      BY <1>0
    <3> QED BY <3>1, <2>3
  <2>6. Authorities \subseteq Nodes /\ Authorities # {}
    BY <2>1, NodeAssumption
  <2> QED BY <2>1, <2>2, <2>4, <2>5, <2>6
<1> QED BY <1>1, <1>2 DEF SInv

-----------------------------------------------------------------------------
(* Without equivocation a tally that is large enough is all of its round.  *)
LEMMA TallyIsRound ==
  ASSUME SInv, VotesFit, NoEquivocation, NEW r, NEW seen \in Tally(r)
  PROVE  /\ seen = {v \in votes : v.round = r} /\ IsFiniteSet(seen)
         /\ Cardinality(seen) = Threshold /\ Voted(r)
<1> DEFINE voters == {v.voter : v \in seen}
           f == [v \in seen |-> v.voter]
<1>1. /\ seen \subseteq {v \in votes : v.round = r} /\ Cardinality(seen) >= Threshold
      /\ \A v, w \in seen : v.voter = w.voter => v = w
  BY DEF Tally
<1>2. IsFiniteSet(seen)
  BY <1>1, FS_Subset DEF VotesFit
<1>3. voters \subseteq Authorities
  BY <1>1 DEF VotesFit
<1>4. f \in Injection(seen, Authorities)
  BY <1>1, <1>3 DEF Injection, IsInjective
<1>5. Cardinality(seen) <= Cardinality(Authorities) /\ (Cardinality(seen) = Cardinality(Authorities) <=> f \in Surjection(seen, Authorities))
  <2> HIDE DEF f
  <2> QED BY <1>4, FS_Injection, Everyone
<1>6. Cardinality(seen) = Threshold /\ Cardinality(seen) = Cardinality(Authorities)
  <2>1. Cardinality(seen) \in Nat /\ Cardinality(Authorities) \in Nat
    BY <1>2, Everyone, FS_CardinalityType
  <2> HIDE DEF f
  <2> QED BY <2>1, <1>1, <1>5, Everyone
<1>7. \A a \in Authorities : \E v \in seen : v.voter = a
  <2>1. f \in Surjection(seen, Authorities)
    BY <1>5, <1>6
  <2> QED BY <2>1 DEF Surjection
<1>8. ASSUME NEW v \in votes, v.round = r PROVE v \in seen
  <2>1. PICK w \in seen : w.voter = v.voter
    BY <1>7, <1>8 DEF VotesFit
  <2> QED BY <2>1, <1>1, <1>8 DEF NoEquivocation
<1>9. Voted(r)
  BY <1>1, <1>7 DEF Voted
<1> QED BY <1>1, <1>2, <1>6, <1>8, <1>9

(* The estimate of a round carries on all that its votes may have decided. *)
LEMMA EstimateCarries ==
  ASSUME SInv, VotesFit, Closed(Blocks), NoEquivocation, NEW r, NEW seen \in Tally(r),
         NEW c \in Blocks, Supported(r, c)
  PROVE  Extends(Estimate(seen), c)
<1> DEFINE open == {b \in Blocks : \A v \in seen : Extends(v.block, b)}
           e == Estimate(seen)
<1>1. /\ seen = {v \in votes : v.round = r} /\ IsFiniteSet(seen)
      /\ Cardinality(seen) = Threshold /\ Threshold \in Nat /\ Threshold = Len(authorities)
  BY TallyIsRound, Everyone
<1>2. \A b : Cardinality(For(seen, b)) + (Len(authorities) - Cardinality(seen)) >= Threshold
               <=> \A v \in seen : Extends(v.block, b)
  <2> TAKE b
  <2>1. For(seen, b) \in SUBSET seen
    BY DEF For
  <2>2. /\ Cardinality(For(seen, b)) \in Nat /\ Cardinality(For(seen, b)) <= Threshold
        /\ Cardinality(For(seen, b)) = Threshold => For(seen, b) = seen
    <3>1. IsFiniteSet(For(seen, b)) /\ Cardinality(For(seen, b)) <= Cardinality(seen)
          /\ (Cardinality(seen) = Cardinality(For(seen, b)) => seen = For(seen, b))
      BY <1>1, <2>1, FS_Subset
    <3> QED BY <3>1, <1>1, FS_CardinalityType
  <2>3. Cardinality(For(seen, b)) + (Len(authorities) - Cardinality(seen)) >= Threshold <=> For(seen, b) = seen
    <3> DEFINE k == Cardinality(For(seen, b))
               s == Cardinality(seen)
               l == Len(authorities)
               t == Threshold
    <3>1. k \in Nat /\ k <= t /\ t \in Nat /\ s = t /\ l = t
      BY <1>1, <2>2
    <3> HIDE DEF k, s, l, t
    <3>2. k + (l - s) >= t <=> k = t
      BY <3>1
    <3>3. k = t <=> For(seen, b) = seen
      BY <1>1, <2>2 DEF k, t
    <3> QED BY <3>2, <3>3 DEF k, s, l, t
  <2>4. For(seen, b) = seen <=> \A v \in seen : Extends(v.block, b)
    BY DEF For
  <2> QED BY <2>3, <2>4
<1>3. e = CHOOSE b \in open : \A d \in open : Len(d) <= Len(b)
  <2>1. open = {b \in made \cup {GenesisBlock} : Cardinality(For(seen, b)) + (Len(authorities) - Cardinality(seen)) >= Threshold}
    BY <1>2 DEF Blocks
  <2> QED BY <2>1 DEF Estimate
<1>4. c \in open
  <2> SUFFICES ASSUME NEW v \in seen PROVE Extends(v.block, c)
    OBVIOUS
  <2>1. v \in votes /\ v.round = r /\ v.voter \in Authorities
    BY <1>1 DEF VotesFit
  <2>2. PICK w \in votes : w.round = r /\ w.voter = v.voter /\ Extends(w.block, c)
    BY <2>1 DEF Supported
  <2> QED BY <2>1, <2>2 DEF NoEquivocation
<1>5. PICK w \in seen : w.block \in Blocks
  <2>1. \E v \in votes : v.round = r
    BY Everyone DEF Supported
  <2> QED BY <2>1, <1>1 DEF VotesFit
<1>6. Blocks \subseteq Block /\ Len(w.block) \in Nat /\ w.block \in Block /\ c \in Block
  BY <1>5 DEF Closed, Block
<1>7. open \subseteq Block /\ open # {} /\ \A b \in open : IsPrefix(b, w.block) /\ Len(b) <= Len(w.block)
  BY <1>4, <1>5, <1>6 DEF Extends, IsPrefix
<1>8. e \in open /\ \A b \in open : Len(b) <= Len(e)
  <2> HIDE DEF open, e
  <2>1. \E m \in open : \A b \in open : Len(b) <= Len(m)
    BY <1>6, <1>7, Longest
  <2> QED BY <2>1, <1>3
<1>9. e \in Block /\ IsPrefix(e, w.block) /\ IsPrefix(c, w.block) /\ Len(c) <= Len(e)
  <2> HIDE DEF open, e
  <2> QED BY <1>4, <1>7, <1>8
<1>10. IsPrefix(c, e)
  <2> HIDE DEF open, e
  <2> QED BY <1>6, <1>9, PrefixesCompare
<1> QED BY <1>10 DEF Extends

LEMMA FinalBlocksAgree ==
  ASSUME SInv, DInv, FInv, NoEquivocation, NEW x \in Blocks, NEW y \in Blocks,
         NEW q \in Nat \ {0}, NEW r \in Nat \ {0}, q <= r, Supported(q, x), Supported(r, y)
  PROVE  Extends(x, y) \/ Extends(y, x)
<1>1. PICK a \in Authorities : TRUE
  BY Everyone
<1>2. PICK v \in votes : v.round = q /\ v.voter = a /\ Extends(v.block, x)
  BY DEF Supported
<1>3. PICK w \in votes : w.round = r /\ w.voter = a /\ Extends(w.block, y)
  BY DEF Supported
<1>4. Extends(w.block, x)
  <2>1. CASE q = r
    BY <2>1, <1>2, <1>3 DEF NoEquivocation
  <2>2. CASE q # r
    <3>1. q \in 1 .. w.round - 1
      BY <2>2, <1>3
    <3> QED BY <3>1, <1>3 DEF FInv, RoundsCarry, Carries
  <2> QED BY <2>1, <2>2
<1>5. x \in Block /\ y \in Block /\ w.block \in Block
  BY DEF FInv, VotesFit, Closed
<1>6. Len(x) \in Nat /\ Len(y) \in Nat /\ (Len(x) <= Len(y) \/ Len(y) <= Len(x))
  BY <1>5 DEF Block
<1> QED BY <1>3, <1>4, <1>5, <1>6, PrefixesCompare DEF Extends

LEMMA FInvAgrees == SInv /\ DInv /\ FInv => FinalityAgrees
<1> SUFFICES ASSUME SInv, DInv, FInv, NoEquivocation, NEW m \in Nodes, NEW n \in Nodes
             PROVE  Extends(final[m], final[n]) \/ Extends(final[n], final[m])
  BY DEF FinalityAgrees
<1>1. final[m] \in Blocks /\ final[n] \in Blocks
  BY DEF DInv, Fits, FInv
<1>2. final[m] \in Block /\ final[n] \in Block
  BY <1>1 DEF FInv, Closed
<1>3. \A b \in Block : Extends(b, GenesisBlock)
  <2>1. GenesisBlock \in Block /\ Len(GenesisBlock) = 0
    BY DEF GenesisBlock, Block
  <2>2. \A b \in Block : 0 <= Len(b)
    BY DEF Block
  <2> QED BY <2>1, <2>2, PrefixByElements DEF Extends
<1>4. CASE final[m] = GenesisBlock \/ final[n] = GenesisBlock
  BY <1>2, <1>3, <1>4
<1>5. CASE final[m] # GenesisBlock /\ final[n] # GenesisBlock
  <2>1. PICK q \in 1 .. MaxRound : Supported(q, final[m])
    BY <1>5 DEF FInv, FinalSupported
  <2>2. PICK r \in 1 .. MaxRound : Supported(r, final[n])
    BY <1>5 DEF FInv, FinalSupported
  <2>3. q \in Nat \ {0} /\ r \in Nat \ {0} /\ (q <= r \/ r <= q)
    OBVIOUS
  <2> QED BY <1>1, <2>1, <2>2, <2>3, FinalBlocksAgree
<1> QED BY <1>4, <1>5

-----------------------------------------------------------------------------
(* A step after which no vote, round or base is new.                       *)
LEMMA NoVote ==
  ASSUME FInv, DInv, SInv, UNCHANGED <<authorities, votes>>, made \subseteq made', Closed(Blocks'),
         \A n \in Nodes : known'[n] \subseteq Blocks',
         \A n \in Nodes : /\ voter'[n].round \in Nat \ {0}
                         /\ \/ voter'[n].round = voter[n].round /\ voter'[n].base = voter[n].base
                            \/ voter'[n].round = 1,
         FinalSupported'
  PROVE  FInv'
<1>1. Blocks \subseteq Blocks' /\ Authorities' = Authorities /\ Authorities \subseteq Nodes /\ Authorities # {}
  BY Everyone DEF Blocks, Authorities
<1>2. VotesFit'
  BY <1>1 DEF FInv, VotesFit
<1>3. ASSUME NEW r, NEW c \in Blocks', Supported(r, c)' PROVE Supported(r, c) /\ c \in Blocks
  <2>1. Supported(r, c)
    BY <1>3, <1>1 DEF Supported
  <2>2. PICK v \in votes : Extends(v.block, c)
    BY <2>1, <1>1 DEF Supported
  <2>3. v.block \in Blocks /\ c \in Block
    BY <1>3 DEF FInv, VotesFit, Closed
  <2> QED BY <2>1, <2>2, <2>3, ClosedHoldsPrefixes DEF FInv, Extends
<1>4. \A r : Voted(r)' <=> Voted(r)
  BY <1>1 DEF Voted
<1>5. \A r, b : Carries(r, b) => Carries(r, b)'
  BY <1>3, <1>4 DEF Carries
<1>6. \A b : Carries(1, b)'
  BY DEF Carries
<1>7. NoEquivocation' => NoEquivocation
  BY DEF NoEquivocation
<1>8. NoEquivocation' => RoundsCarry'
  BY <1>1, <1>5, <1>6, <1>7 DEF FInv, RoundsCarry
<1> QED BY <1>2, <1>8 DEF FInv

LEMMA FinalStays ==
  ASSUME FinalSupported, DInv, votes \subseteq votes', authorities' = authorities,
         \A n \in Nodes : final'[n] = final[n] \/ final'[n] = GenesisBlock
  PROVE  FinalSupported'
<1> SUFFICES ASSUME NEW n \in Nodes, final'[n] # GenesisBlock
             PROVE  \E r \in 1 .. MaxRound : Supported(r, final[n])'
  BY DEF FinalSupported
<1> DEFINE f == final[n]
<1>1. f' = f /\ f # GenesisBlock
  OBVIOUS
<1>2. PICK r \in 1 .. MaxRound : Supported(r, f)
  BY <1>1 DEF FinalSupported
<1>3. Supported(r, f)'
  BY <1>1, <1>2 DEF Supported, Authorities
<1> QED BY <1>3

LEMMA AuthorAgrees == ASSUME FInv, DInv, SInv, NEW n \in Nodes, AuthorBlock(n) PROVE FInv'
<1> DEFINE b == Append(best[n], slot)
<1>1. best[n] \in Block /\ slot \in Nat /\ best[n] \in known[n] /\ known[n] \subseteq Blocks
  BY DEF DInv, Fits, Closed, FInv
<1>2. b \in Block /\ b # <<>> /\ Front(b) = best[n]
  BY <1>1, FrontOfAppend
<1>3. /\ known' = [known EXCEPT ![n] = @ \cup {b}] /\ made' = made \cup {b}
      /\ UNCHANGED <<authorities, final, voter, votes>>
  BY DEF AuthorBlock
<1> HIDE DEF b
<1>4. Blocks' = Blocks \cup {b}
  BY <1>3 DEF Blocks
<1>5. Closed(Blocks')
  BY <1>1, <1>2, <1>4, ClosedWith DEF FInv
<1>6. \A m \in Nodes : known'[m] \subseteq Blocks'
  BY <1>3, <1>4 DEF FInv, DInv
<1>7. FinalSupported'
  BY <1>3, FinalStays DEF FInv
<1> QED BY <1>3, <1>5, <1>6, <1>7, NoVote DEF FInv

LEMMA FinalizeAgrees ==
  ASSUME FInv, DInv, SInv, NEW n \in Nodes, NEW b \in made, Finalize(n, b) PROVE FInv'
<1>1. PICK r \in 1 .. MaxRound : Cardinality({v.voter : v \in For({w \in votes : w.round = r}, b)}) >= Threshold
  BY DEF Finalize
<1>2. /\ final' = [final EXCEPT ![n] = b]
      /\ UNCHANGED <<authorities, known, voter, made, votes>>
  BY DEF Finalize
<1>3. Supported(r, b)
  <2>1. {v.voter : v \in For({w \in votes : w.round = r}, b)} \subseteq Authorities
    BY DEF For, FInv, VotesFit
  <2>2. {v.voter : v \in For({w \in votes : w.round = r}, b)} = Authorities
    BY <1>1, <2>1, Everyone
  <2> QED BY <2>2 DEF Supported, For
<1>4. FinalSupported'
  <2> SUFFICES ASSUME NEW m \in Nodes
               PROVE  final'[m] = GenesisBlock \/ \E q \in 1 .. MaxRound : Supported(q, final'[m])
    BY <1>2 DEF FinalSupported, Supported, Authorities
  <2>1. final'[m] = final[m] \/ final'[m] = b
    BY <1>2 DEF DInv
  <2> QED BY <2>1, <1>3 DEF FInv, FinalSupported
<1>5. Blocks' = Blocks
  BY <1>2 DEF Blocks
<1> QED BY <1>2, <1>4, <1>5, NoVote DEF FInv

LEMMA PrecommitAgrees ==
  ASSUME FInv, DInv, SInv, NEW n \in Nodes, NEW b \in known[n], Precommit(n, b) PROVE FInv'
<1> DEFINE R == voter[n].round
           v0 == [round |-> R, voter |-> n, block |-> b]
<1>1. /\ n \in Authorities /\ Extends(b, voter[n].base)
      /\ voter' = [voter EXCEPT ![n].vote = b] /\ votes' = votes \cup {v0}
      /\ UNCHANGED <<authorities, known, final, made>>
  BY DEF Precommit, IsAuthority
<1>2. /\ Blocks' = Blocks /\ Authorities' = Authorities /\ b \in Blocks /\ R \in Nat \ {0}
      /\ Blocks \subseteq Block
      /\ v0.round = R /\ v0.voter = n /\ v0.block = b
  BY <1>1 DEF Blocks, Authorities, FInv, Closed
<1>3. \A m \in Nodes : voter'[m].round = voter[m].round /\ voter'[m].base = voter[m].base
  BY <1>1 DEF DInv, Fits
<1> HIDE DEF v0, R
<1>4. VotesFit'
  BY <1>1, <1>2, FS_AddElement DEF FInv, VotesFit
<1>5. FinalSupported'
  BY <1>1, FinalStays DEF FInv
<1>6. ASSUME NoEquivocation' PROVE RoundsCarry'
  <2>1. NoEquivocation /\ RoundsCarry
    BY <1>6, <1>1 DEF NoEquivocation, FInv
  <2>2. CASE v0 \in votes
    <3>1. votes' = votes
      BY <1>1, <2>2
    <3>2. \A r, c : Carries(r, c)' <=> Carries(r, c)
      BY <3>1, <1>2 DEF Carries, Supported, Voted
    <3> QED BY <2>1, <3>1, <3>2, <1>2, <1>3, Everyone DEF RoundsCarry
  <2>3. CASE v0 \notin votes
    <3>1. ~ Voted(R)
      BY <1>1, <1>2, <1>6, <2>3 DEF NoEquivocation, Voted
    <3>2. \A q : q # R => /\ Voted(q)' <=> Voted(q)
                          /\ \A c : Supported(q, c)' <=> Supported(q, c)
      BY <1>1, <1>2 DEF Voted, Supported
    <3>3. \A r, c : Carries(r, c) => Carries(r, c)'
      BY <1>2, <3>1, <3>2 DEF Carries
    <3>4. Carries(R, b)
      <4> SUFFICES ASSUME NEW q \in 1 .. R - 1, NEW c \in Blocks, Supported(q, c) PROVE Extends(b, c)
        BY <1>1, <2>1 DEF RoundsCarry, Carries, R
      <4>1. Extends(voter[n].base, c)
        BY <1>1, <2>1 DEF RoundsCarry, Carries, R
      <4>2. voter[n].base \in Block
        BY DEF DInv, Fits, Closed
      <4> QED BY <4>1, <4>2, <1>1, <1>2, PrefixTransitive DEF Extends
    <3>5. \A v \in votes' : Carries(v.round, v.block)'
      BY <1>1, <1>2, <2>1, <3>3, <3>4 DEF RoundsCarry
    <3> QED BY <2>1, <3>3, <3>5, <1>2, <1>3, Everyone DEF RoundsCarry
  <2> QED BY <2>2, <2>3
<1> QED BY <1>1, <1>2, <1>3, <1>4, <1>5, <1>6 DEF FInv

LEMMA NextRoundAgrees ==
  ASSUME FInv, DInv, SInv, NEW n \in Nodes, NextRound(n) PROVE FInv'
<1> DEFINE R == voter[n].round
<1>1. PICK seen \in Tally(R) :
        voter' = [voter EXCEPT ![n] = [round |-> @.round + 1, base |-> Estimate(seen), vote |-> None]]
  BY DEF NextRound
<1> DEFINE e == Estimate(seen)
<1>2. n \in Authorities /\ UNCHANGED <<authorities, known, final, made, votes>>
  BY DEF NextRound, IsAuthority
<1>3. R \in Nat \ {0} /\ voter'[n].round = R + 1 /\ voter'[n].base = e
      /\ \A m \in Nodes \ {n} : voter'[m] = voter[m]
  BY <1>1 DEF DInv, FInv
<1>4. /\ Blocks' = Blocks /\ Authorities' = Authorities /\ VotesFit' = VotesFit
      /\ FinalSupported' = FinalSupported /\ NoEquivocation' = NoEquivocation
      /\ \A r, b : Carries(r, b)' <=> Carries(r, b)
  BY <1>2 DEF Blocks, Authorities, VotesFit, FinalSupported, Supported, Carries, Voted, NoEquivocation
<1> HIDE DEF e, R
<1>5. ASSUME NoEquivocation PROVE Carries(R + 1, e)
  <2>1. Voted(R) /\ seen = {v \in votes : v.round = R}
    BY <1>5, <1>1, TallyIsRound DEF FInv
  <2>2. \A v \in votes : v.round = R => Carries(R, v.block)
    BY <1>5 DEF FInv, RoundsCarry
  <2>3. ASSUME NEW q \in 1 .. R, NEW c \in Blocks, Supported(q, c) PROVE Supported(R, c)
    <3>1. CASE q = R
      BY <2>3, <3>1
    <3>2. CASE q # R
      <4>1. q \in 1 .. R - 1
        BY <3>2, <1>3
      <4>2. \A v \in votes : v.round = R => Extends(v.block, c)
        BY <4>1, <2>2, <2>3 DEF Carries
      <4> QED BY <2>1, <4>2 DEF Supported, Voted
    <3> QED BY <3>1, <3>2
  <2>4. \A q \in 1 .. R : Voted(q)
    <3> TAKE q \in 1 .. R
    <3>1. CASE q = R
      BY <2>1, <3>1
    <3>2. CASE q # R
      <4>1. q \in 1 .. R - 1
        BY <3>2, <1>3
      <4>2. \E v \in votes : v.round = R
        BY <2>1, Everyone DEF Voted
      <4> QED BY <4>1, <4>2, <2>2 DEF Carries
    <3> QED BY <3>1, <3>2
  <2>5. \A c \in Blocks : Supported(R, c) => Extends(e, c)
    BY <1>5, <1>1, EstimateCarries DEF FInv, e
  <2>6. (R + 1) - 1 = R
    BY <1>3
  <2> QED BY <2>3, <2>4, <2>5, <2>6 DEF Carries
<1>6. NoEquivocation' => RoundsCarry'
  BY <1>2, <1>3, <1>4, <1>5, Everyone DEF FInv, RoundsCarry
<1>7. \A m \in Nodes : voter'[m].round \in Nat \ {0}
  BY <1>3 DEF FInv
<1> QED BY <1>2, <1>4, <1>6, <1>7 DEF FInv

LEMMA FInvInit == NodeInit => FInv
<1> SUFFICES ASSUME NodeInit PROVE FInv
  OBVIOUS
<1>1. /\ made = {} /\ votes = {} /\ \A n \in Nodes : known[n] = {GenesisBlock} /\ final[n] = GenesisBlock
      /\ \A n \in Nodes : voter[n].round = 1
  BY DEF NodeInit, Fresh
<1>2. Blocks = {<<>>}
  BY <1>1 DEF Blocks, GenesisBlock
<1>3. Closed(Blocks)
  BY <1>2, GenesisClosed
<1>4. VotesFit /\ FinalSupported
  BY <1>1, FS_EmptySet DEF VotesFit, FinalSupported
<1>5. RoundsCarry
  <2>1. Authorities \subseteq Nodes
    BY SInvInit, Everyone
  <2> QED BY <1>1, <2>1 DEF RoundsCarry, Carries
<1> QED BY <1>1, <1>2, <1>3, <1>4, <1>5 DEF FInv, GenesisBlock

LEMMA FInvStep == FInv /\ DInv /\ SInv /\ [NodeNext]_nodeVars => FInv'
<1> SUFFICES ASSUME FInv, DInv, SInv, [NodeNext]_nodeVars PROVE FInv'
  OBVIOUS
<1> USE DEF database
<1>1. CASE UNCHANGED <<authorities, known, final, voter, made, votes>>
  <2>1. Blocks' = Blocks /\ Authorities' = Authorities
    BY <1>1 DEF Blocks, Authorities
  <2>2. FinalSupported'
    BY <1>1, FinalStays DEF FInv
  <2> QED BY <1>1, <2>1, <2>2, NoVote DEF FInv
<1>2. ASSUME NEW n \in Nodes, NEW b \in made, Import(n, b) PROVE FInv'
  <2>1. /\ known' = [known EXCEPT ![n] = @ \cup {b}]
        /\ UNCHANGED <<authorities, final, voter, made, votes>>
    BY <1>2 DEF Import
  <2>2. Blocks' = Blocks /\ b \in Blocks
    BY <2>1 DEF Blocks
  <2>3. \A m \in Nodes : known'[m] \subseteq Blocks'
    BY <2>1, <2>2 DEF FInv, DInv
  <2>4. FinalSupported'
    BY <2>1, FinalStays DEF FInv
  <2> QED BY <2>1, <2>2, <2>3, <2>4, NoVote DEF FInv
<1>3. ASSUME NEW n \in Nodes, AuxRevert(n) \/ RevertChain(n) \/ PurgeChain(n) PROVE FInv'
  <2>1. /\ UNCHANGED <<authorities, made, votes>>
        /\ \A m \in Nodes : /\ known'[m] \subseteq known[m] \cup {GenesisBlock}
                            /\ final'[m] = final[m] \/ final'[m] = GenesisBlock
                            /\ voter'[m] = voter[m] \/ voter'[m].round = 1
    <3>1. CASE AuxRevert(n)
      BY <3>1 DEF AuxRevert, VoterReset, Fresh, DInv
    <3>2. CASE RevertChain(n)
      BY <3>2 DEF RevertChain, DInv
    <3>3. CASE PurgeChain(n)
      BY <3>3 DEF PurgeChain, Fresh, DInv
    <3> QED BY <1>3, <3>1, <3>2, <3>3
  <2>2. Blocks' = Blocks /\ GenesisBlock \in Blocks
    BY <2>1 DEF Blocks
  <2>3. FinalSupported'
    BY <2>1, FinalStays DEF FInv
  <2>4. \A m \in Nodes : known'[m] \subseteq Blocks'
    BY <2>1, <2>2 DEF FInv
  <2>5. \A m \in Nodes : /\ voter'[m].round \in Nat \ {0}
                         /\ \/ voter'[m].round = voter[m].round /\ voter'[m].base = voter[m].base
                            \/ voter'[m].round = 1
    BY <2>1 DEF FInv
  <2> QED BY <2>1, <2>2, <2>3, <2>4, <2>5, NoVote DEF FInv
<1>4. ASSUME NEW n \in Nodes, Startup(n) \/ Shutdown(n) \/ Stop(n) \/ ImportBlocks(n)
                               \/ \E task \in Started.up : TaskFails(n, task)
      PROVE  FInv'
  BY <1>1, <1>4 DEF Startup, NewPartial, BuildNetwork, StartAura, StartVoter, Shutdown, Stop,
     ImportBlocks, Goes, TaskFails
<1>5. CASE Tick
  BY <1>1, <1>5 DEF Tick
<1>6. CASE UNCHANGED nodeVars
  BY <1>1, <1>6 DEF nodeVars
<1> QED BY <1>2, <1>3, <1>4, <1>5, <1>6, AuthorAgrees, FinalizeAgrees, PrecommitAgrees, NextRoundAgrees
     DEF NodeNext

(* No two nodes finalize different branches.                               *)
THEOREM FinalityHolds == NodeSpec => []FinalityAgrees
  BY DInvInit, DInvStep, SInvInit, SInvStep, FInvInit, FInvStep, FInvAgrees, PTL DEF NodeSpec

-----------------------------------------------------------------------------
(* The types.                                                              *)
LEMMA TypeInit == NodeInit => NodeTypeOK
<1> SUFFICES ASSUME NodeInit PROVE NodeTypeOK
  OBVIOUS
<1>1. 0 \in 0 .. MaxSlot /\ 0 \in 0 .. MaxStops
  BY NodeAssumption
<1> QED BY <1>1 DEF NodeInit, NodeTypeOK

(* The part of the types that the processes' starts and stops move.        *)
Processes ==
  /\ stage \in [Nodes -> DOMAIN Started \cup {"down", "importing", "reverting"}]
  /\ failed \in [Nodes -> Started.up \cup {None}]

LEMMA ProcessesStep == Processes /\ [NodeNext]_nodeVars => Processes'
<1> SUFFICES ASSUME Processes, [NodeNext]_nodeVars PROVE Processes'
  OBVIOUS
<1> USE DEF database, Processes
<1>1. CASE UNCHANGED <<stage, failed>>
  BY <1>1
<1>2. ASSUME NEW n \in Nodes, Startup(n) \/ Shutdown(n) \/ Stop(n) \/ ImportBlocks(n) PROVE Processes'
  <2>1. DOMAIN Started = {"partial", "network", "authoring", "up"}
    BY DEF Started
  <2>2. /\ failed' = failed \/ failed' = [failed EXCEPT ![n] = None]
        /\ \/ \E s \in {"down", "partial", "network", "authoring", "up", "importing"} :
                stage' = [stage EXCEPT ![n] = s]
    BY <1>2 DEF Startup, NewPartial, BuildNetwork, StartAura, StartVoter, Shutdown, Stop, ImportBlocks, Goes
  <2> QED BY <2>1, <2>2
<1>3. ASSUME NEW n \in Nodes, NEW task \in Started.up, TaskFails(n, task) PROVE Processes'
  BY <1>3 DEF TaskFails
<1>4. ASSUME NEW n \in Nodes, AuthorBlock(n) \/ NextRound(n) \/ (\E b \in made : Import(n, b) \/ Finalize(n, b))
                               \/ (\E b \in known[n] : Precommit(n, b)) \/ PurgeChain(n)
      PROVE  Processes'
  BY <1>1, <1>4 DEF AuthorBlock, NextRound, Import, Finalize, Precommit, PurgeChain
<1>5. ASSUME NEW n \in Nodes, AuxRevert(n) \/ RevertChain(n) PROVE Processes'
  BY <1>5 DEF AuxRevert, RevertChain
<1>6. CASE Tick \/ UNCHANGED nodeVars
  BY <1>1, <1>6 DEF Tick, nodeVars
<1> QED BY <1>2, <1>3, <1>4, <1>5, <1>6 DEF NodeNext

(* The part that the clocks and the blocks move.                           *)
Chain ==
  /\ slot \in 0 .. MaxSlot /\ stops \in 0 .. MaxStops
  /\ lastSlot \in [Nodes -> 0 .. MaxSlot]
  /\ made \subseteq Seq(1 .. MaxSlot)
  /\ known \in [Nodes -> SUBSET (made \cup {GenesisBlock})]

LEMMA ChainStep == Chain /\ DInv /\ [NodeNext]_nodeVars => Chain'
<1> SUFFICES ASSUME Chain, DInv, [NodeNext]_nodeVars PROVE Chain'
  OBVIOUS
<1> USE DEF database, Chain
<1>0. MaxSlot \in Nat /\ MaxStops \in Nat
  BY NodeAssumption
<1>1. CASE Tick
  BY <1>0, <1>1 DEF Tick
<1>2. ASSUME NEW n \in Nodes, StartAura(n) PROVE Chain'
  BY <1>2 DEF StartAura, Goes, FirstSlot
<1>3. ASSUME NEW n \in Nodes, Stop(n) \/ \E task \in Started.up : TaskFails(n, task) PROVE Chain'
  BY <1>0, <1>3 DEF Stop, Goes, TaskFails
<1>4. ASSUME NEW n \in Nodes, AuthorBlock(n) PROVE Chain'
  <2> DEFINE b == Append(best[n], slot)
  <2>1. /\ lastSlot[n] < slot /\ lastSlot' = [lastSlot EXCEPT ![n] = slot] /\ made' = made \cup {b}
        /\ known' = [known EXCEPT ![n] = @ \cup {b}] /\ UNCHANGED <<slot, stops>>
    BY <1>4 DEF AuthorBlock
  <2>2. slot \in 1 .. MaxSlot
    BY <1>0, <2>1
  <2>3. best[n] \in Seq(1 .. MaxSlot)
    <3>1. best[n] \in known[n] /\ known[n] \subseteq made \cup {GenesisBlock}
      BY DEF DInv, Fits
    <3>2. GenesisBlock \in Seq(1 .. MaxSlot)
      BY DEF GenesisBlock
    <3> QED BY <3>1, <3>2
  <2>4. b \in Seq(1 .. MaxSlot)
    BY <2>2, <2>3
  <2> HIDE DEF b
  <2> QED BY <2>1, <2>2, <2>4
<1>5. ASSUME NEW n \in Nodes, NEW b \in made, Import(n, b) PROVE Chain'
  BY <1>5 DEF Import
<1>6. ASSUME NEW n \in Nodes, RevertChain(n) \/ PurgeChain(n) PROVE Chain'
  BY <1>6 DEF RevertChain, PurgeChain
<1>7. CASE UNCHANGED <<slot, stops, lastSlot, made, known>>
  BY <1>7
<1>8. ASSUME NEW n \in Nodes, NewPartial(n) \/ BuildNetwork(n) \/ StartVoter(n) \/ Shutdown(n)
        \/ NextRound(n) \/ (\E b \in made : Finalize(n, b)) \/ (\E b \in known[n] : Precommit(n, b))
        \/ ImportBlocks(n) \/ AuxRevert(n)
      PROVE  Chain'
  BY <1>7, <1>8 DEF NewPartial, BuildNetwork, StartVoter, Shutdown, Goes, NextRound, Finalize, Precommit,
     ImportBlocks, AuxRevert
<1>9. CASE UNCHANGED nodeVars
  BY <1>7, <1>9 DEF nodeVars
<1> QED BY <1>1, <1>2, <1>3, <1>4, <1>5, <1>6, <1>8, <1>9 DEF NodeNext, Startup

(* Every step keeps the types: no node knows a block that was not made.    *)
THEOREM NodeTypes == NodeSpec => []NodeTypeOK
<1>1. NodeTypeOK <=> Processes /\ Chain
  BY DEF NodeTypeOK, Processes, Chain
<1> QED BY <1>1, TypeInit, ProcessesStep, ChainStep, DInvInit, DInvStep, PTL DEF NodeSpec
=============================================================================

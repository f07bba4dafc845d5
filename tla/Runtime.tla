------------------------------- MODULE Runtime -------------------------------
(***************************************************************************)
(* The runtime as its parts are put together: extrinsics signed for the    *)
(* best block, validated for the pool, applied block by block through the  *)
(* extensions of TxExtension, dispatched to SimpleCounter, Template or     *)
(* Balances, and paid for.  The best block may be retracted for another    *)
(* branch, and the node may stop in the middle of a block.                 *)
(*                                                                         *)
(* A block's hash is the number of blocks made before it.  The state that  *)
(* belongs to a block is restored as a whole when the block is given up;   *)
(* the branch that replaces a block is built by the same actions.          *)
(***************************************************************************)
EXTENDS SimpleCounter, Genesis, SequencesExt

CONSTANTS
  Chain,               \* --chain
  Endowment,           \* 1 << 60
  ExistentialDeposit,  \* EXISTENTIAL_DEPOSIT
  SlotDuration,        \* SLOT_DURATION
  BlockHashCount,      \* BlockHashCount
  MinEraPeriod,        \* the shortest era Era::mortal gives
  MaxBlockWeight,      \* RuntimeBlockWeights: max_block
  Calls,               \* the calls the wallets sign, each with its signer
  MaxTxs,              \* bound: extrinsics signed
  MaxBlocks,           \* bound: blocks made, on any branch
  Clocks               \* the readings explored of the authors' clocks

Transfers == {"transfer_allow_death", "transfer_keep_alive", "transfer_all"}
CallNames == {"increment", "reset", "do_something", "cause_error", "remark"} \cup Transfers

ASSUME RuntimeAssumption ==
  /\ LoadSpec(Chain) # Refused /\ IsFiniteSet(Accounts)
  /\ \A call \in Calls :
       /\ {"signer", "name"} \subseteq DOMAIN call /\ call.signer \in Accounts
       /\ call.name \in CallNames
       /\ call.name = "do_something" => "value" \in DOMAIN call /\ call.value \in 0 .. MaxU32
       /\ call.name \in Transfers => "dest" \in DOMAIN call /\ call.dest \in Accounts
       /\ IF call.name = "transfer_all"
          THEN "keep_alive" \in DOMAIN call /\ call.keep_alive \in BOOLEAN
          ELSE call.name \in Transfers => "value" \in DOMAIN call /\ call.value \in Nat
  /\ SlotDuration \in Nat \ {0} /\ SlotDuration % 2 = 0
  /\ ExistentialDeposit \in Nat \ {0} /\ Endowment \in Nat /\ ExistentialDeposit <= Endowment
  /\ BlockHashCount \in Nat \ {0} /\ MinEraPeriod \in Nat \ {0}
  /\ MaxBlockWeight \in Nat /\ MaxTxs \in Nat /\ MaxBlocks \in Nat /\ Clocks \subseteq Nat

VARIABLES
  something, events,  \* of Template
  chain,     \* the blocks of the best chain after genesis, the one being built last
  ledger,    \* System's and Balances' accounts, Timestamp's and Aura's values
  building,  \* the last block is still being built
  before,    \* the state before the last block
  txs,       \* the extrinsics signed so far
  pool,      \* those the pool holds
  made       \* blocks made so far

T == INSTANCE Template

pallets == <<counter, log, something, events>>
runtimeVars == <<counter, log, something, events, chain, ledger, building, before, txs, pool, made>>

(* What belongs to a block.                                                *)
State == [chain |-> chain, ledger |-> ledger, counter |-> counter, log |-> log,
          something |-> something, events |-> events]

Best == IF building THEN before ELSE State

RuntimeInit ==
  /\ Init /\ T!Init
  /\ chain = <<>>
  /\ ledger = LET endowed == LoadSpec(Chain).endowed \cap Accounts
              IN  [nonce    |-> [a \in Accounts |-> 0],
                   balance  |-> [a \in Accounts |-> IF a \in endowed THEN Endowment ELSE 0],
                   issuance |-> Endowment * Cardinality(endowed),
                   now |-> 0, slot |-> 0, weight |-> 0]
  /\ building = FALSE /\ before = State
  /\ txs = <<>> /\ pool = {} /\ made = 0

-----------------------------------------------------------------------------
(* Weights, in database reads; a write costs four (RocksDbWeight).         *)
DbWeight(reads, writes) == reads + 4 * writes

SimpleCounterWeight(name) ==
  IF name = "increment" THEN DbWeight(1, 1) ELSE DbWeight(0, 1)

TemplateWeight(name) ==
  IF name = "do_something" THEN DbWeight(0, 1) ELSE DbWeight(1, 1)

Weight(call) ==
  CASE call.name \in {"increment", "reset"}          -> SimpleCounterWeight(call.name)
    [] call.name \in {"do_something", "cause_error"} -> TemplateWeight(call.name)
    [] call.name \in Transfers                       -> DbWeight(1, 1)
    [] call.name = "remark"                          -> 0

(* Three quarters of a block are for normal extrinsics.                    *)
MaxNormal == (3 * MaxBlockWeight) \div 4

(* IdentityFee of the weight and of a length of one, no multiplier.        *)
Fee(call) == Weight(call) + 1

-----------------------------------------------------------------------------
(* Eras.  The period is half the power of two from BlockHashCount on.      *)
Powers == [i \in 0 .. BlockHashCount |-> 2 ^ i]
EraPeriod ==
  LET half == Min({p \in Range(Powers) : p >= BlockHashCount}) \div 2
  IN  IF half < MinEraPeriod THEN MinEraPeriod ELSE half

ASSUME EraAssumption == EraPeriod \in Nat \ {0}

(* The block an era counted from at block n, for a phase within a period.  *)
Birth(phase, n) == ((n - phase) \div EraPeriod) * EraPeriod + phase

(* The hashes System keeps: of genesis and of a window of blocks.          *)
HashKnown(s, b, n) == b = 0 \/ (b >= n - 1 - BlockHashCount /\ b < n /\ b <= Len(s.chain))
HashOf(s, b) == IF b = 0 THEN 0 ELSE s.chain[b].hash

(* Mutant: the hash of the era's birth is no part of what is signed.       *)
EraWithoutHash(x, s, n) ==
  n >= x.phase /\ HashKnown(s, Birth(x.phase, n), n)

(* CheckEra at block n: the birth is known and is the block signed for.    *)
CheckEra(x, s, n) ==
  /\ n >= x.phase
  /\ LET b == Birth(x.phase, n) IN HashKnown(s, b, n) /\ HashOf(s, b) = x.checkpoint

CanPay(x, s) == s.ledger.balance[x.call.signer] >= Fee(x.call) + ExistentialDeposit

(* The extensions, as validate_transaction runs them for block n: a nonce  *)
(* may lie ahead, and the extrinsic is weighed alone.                      *)
TxExtension(x, s, n) ==
  /\ CheckEra(x, s, n)
  /\ x.nonce >= s.ledger.nonce[x.call.signer]
  /\ Weight(x.call) <= MaxNormal
  /\ CanPay(x, s)

ValidateTransaction(x) == TxExtension(x, Best, Len(Best.chain) + 1)

(* system_accountNextIndex: the first nonce free in the pool.              *)
NextIndex(a) ==
  LET taken == {txs[i].nonce : i \in {j \in pool : txs[j].call.signer = a}}
      first == Best.ledger.nonce[a]
  IN  Min((first .. first + Cardinality(taken)) \ taken)

(* The calls of the two builders of benchmark extrinsics.                  *)
RemarkBuilder(signer) == [signer |-> signer, name |-> "remark"]
TransferKeepAliveBuilder(signer, dest, value) ==
  [signer |-> signer, name |-> "transfer_keep_alive", dest |-> dest, value |-> value]

-----------------------------------------------------------------------------
(* create_benchmark_extrinsic: the next free nonce, and an era from the    *)
(* best block on; the node pools the extrinsic if it is valid.             *)
Extrinsic(call) ==
  [call       |-> call,
   nonce      |-> NextIndex(call.signer),
   phase      |-> Len(Best.chain) % EraPeriod,
   checkpoint |-> HashOf(Best, Len(Best.chain))]

Sign(call) ==
  LET x == Extrinsic(call)
  IN  /\ Len(txs) < MaxTxs /\ ValidateTransaction(x)
      /\ txs' = Append(txs, x)
      /\ pool' = pool \cup {Len(txs) + 1}
      /\ UNCHANGED <<pallets, chain, ledger, building, before, made>>

(* The same bytes are submitted once more.                                 *)
Resubmit(i) ==
  /\ i \notin pool /\ ValidateTransaction(txs[i])
  /\ \A j \in pool : txs[j].call.signer # txs[i].call.signer \/ txs[j].nonce # txs[i].nonce
  /\ pool' = pool \cup {i}
  /\ UNCHANGED <<pallets, chain, ledger, building, before, txs, made>>

(* The pool lets go of an extrinsic: no longer valid, banned, or in the    *)
(* way of another.                                                         *)
Drop(i) ==
  /\ i \in pool
  /\ pool' = pool \ {i}
  /\ UNCHANGED <<pallets, chain, ledger, building, before, txs, made>>

-----------------------------------------------------------------------------
SlotOf(t) == t \div SlotDuration

(* Mutant: AllowMultipleBlocksPerSlot.                                     *)
AnySlotFrom(t) == SlotOf(t) >= ledger.slot

(* Aura at the start of a block, and the period Timestamp asks for.        *)
SlotAllowed(t) == SlotOf(t) > ledger.slot
MinimumPeriod == SlotDuration \div 2

(* The timestamp an author whose clock reads t puts into its block.        *)
InherentTime(t) == Max({t, ledger.now + MinimumPeriod})

(* The block begins with its inherent, and without events.                 *)
InitializeBlock(t) ==
  /\ ~building /\ made < MaxBlocks
  /\ SlotAllowed(t) /\ SlotOf(InherentTime(t)) = SlotOf(t)
  /\ building' = TRUE /\ before' = State
  /\ chain' = Append(chain, [hash |-> made + 1, xts |-> <<>>])
  /\ ledger' = [ledger EXCEPT !.now = InherentTime(t), !.slot = SlotOf(t), !.weight = 0]
  /\ made' = made + 1
  /\ T!NextBlock /\ UNCHANGED <<counter, log, txs, pool>>

-----------------------------------------------------------------------------
(* Mutant: the nonce stays.                                                *)
NonceKept(l, call) == [l EXCEPT !.balance[call.signer] = @ - Fee(call), !.issuance = @ - Fee(call),
                             !.weight = @ + Weight(call)]

(* What the extensions take before the call, whatever becomes of it.       *)
Charged(l, call) ==
  [l EXCEPT !.balance[call.signer] = @ - Fee(call), !.issuance = @ - Fee(call),
            !.nonce[call.signer] = @ + 1, !.weight = @ + Weight(call)]

(* What a transfer is of: transfer_all takes what it may.                  *)
KeepsAlive(call) ==
  call.name = "transfer_keep_alive" \/ (call.name = "transfer_all" /\ call.keep_alive)

Amount(l, call) ==
  IF call.name = "transfer_all"
  THEN l.balance[call.signer] - (IF call.keep_alive THEN ExistentialDeposit ELSE 0)
  ELSE call.value

(* It is covered, leaves a payer that is to live its deposit, and gives    *)
(* the payee its own; nothing may always be sent.                          *)
TransferAllowed(l, call) ==
  LET value == Amount(l, call)
      left  == l.balance[call.signer] - value
  IN  \/ value = 0
      \/ /\ IF KeepsAlive(call) THEN left >= ExistentialDeposit ELSE left >= 0
         /\ l.balance[call.dest] + value >= ExistentialDeposit

(* What it moves; a payer left with less than the deposit is reaped, and   *)
(* that rest is dust.                                                      *)
Nothing == [moved |-> 0, dust |-> 0, reaped |-> FALSE]
Movement(l, call) ==
  LET left == l.balance[call.signer] - Amount(l, call)
  IN  IF call.signer = call.dest THEN Nothing
      ELSE [moved  |-> Amount(l, call),
            dust   |-> IF left < ExistentialDeposit THEN left ELSE 0,
            reaped |-> left < ExistentialDeposit]

(* Mutant: dust goes from the account but stays in the issuance.           *)
TransferredKeepingDust(l, call) ==
  LET m == Movement(l, call)
      paid == [l.balance EXCEPT ![call.signer] = @ - m.moved - m.dust]
  IN  [l EXCEPT !.balance = [paid EXCEPT ![call.dest] = @ + m.moved],
                !.nonce[call.signer] = IF m.reaped THEN 0 ELSE @]

(* Dust is burnt; with a reaped account its nonce goes.                    *)
Transferred(l, call) ==
  LET m == Movement(l, call)
      paid == [l.balance EXCEPT ![call.signer] = @ - m.moved - m.dust]
  IN  [l EXCEPT !.balance = [paid EXCEPT ![call.dest] = @ + m.moved],
                !.issuance = @ - m.dust,
                !.nonce[call.signer] = IF m.reaped THEN 0 ELSE @]

Succeeds(l, call) ==
  CASE call.name = "increment"           -> CheckedAddOne(counter) # None
    [] call.name = "cause_error"         -> T!Stepped(something) # None
    [] call.name \in Transfers           -> TransferAllowed(l, call)
    [] OTHER                             -> TRUE

(* The pallet called by name; it changes the ledger only by a transfer.    *)
Dispatch(l, call) ==
  \/ call.name = "increment" /\ Increment(call.signer) /\ UNCHANGED <<something, events>> /\ ledger' = l
  \/ call.name = "reset" /\ Reset(call.signer) /\ UNCHANGED <<something, events>> /\ ledger' = l
  \/ call.name = "do_something" /\ T!DoSomething(call.signer, call.value) /\ UNCHANGED vars /\ ledger' = l
  \/ call.name = "cause_error" /\ T!CauseError /\ UNCHANGED vars /\ ledger' = l
  \/ call.name = "remark" /\ UNCHANGED pallets /\ ledger' = l
  \/ call.name \in Transfers /\ UNCHANGED pallets /\ ledger' = Transferred(l, call)

(* What the block's events tell of an extrinsic: whether its call came     *)
(* off, and what that moved.                                               *)
Receipt(i, l, ok) ==
  LET m == IF ok /\ txs[i].call.name \in Transfers THEN Movement(l, txs[i].call) ELSE Nothing
  IN  [tx |-> i, ok |-> ok, moved |-> m.moved, dust |-> m.dust, reaped |-> m.reaped]

(* Applied in the block: the nonce must be the next one and the block have *)
(* room.  A call that fails changes nothing but keeps its place and price. *)
ApplyExtrinsic(i) ==
  LET x == txs[i]
      l == Charged(ledger, x.call)
      n == Len(chain)
      ok == Succeeds(l, x.call)
  IN  /\ building /\ i \in pool
      /\ \A k \in DOMAIN chain[n].xts : chain[n].xts[k].tx # i
      /\ TxExtension(x, State, n) /\ x.nonce = ledger.nonce[x.call.signer]
      /\ ledger.weight + Weight(x.call) <= MaxNormal
      /\ chain' = [chain EXCEPT ![n].xts = Append(@, Receipt(i, l, ok))]
      /\ IF ok THEN Dispatch(l, x.call) ELSE ledger' = l /\ UNCHANGED pallets
      /\ UNCHANGED <<building, before, txs, pool, made>>

(* The extrinsics of a chain's last block.                                 *)
InBlock(block) == {block.xts[k].tx : k \in DOMAIN block.xts}

(* The block is the best one, and the pool is rid of what it holds.        *)
FinalizeBlock ==
  /\ building
  /\ building' = FALSE
  /\ pool' = pool \ InBlock(Last(chain))
  /\ UNCHANGED <<pallets, chain, ledger, before, txs, made>>

Restore ==
  /\ chain' = before.chain /\ ledger' = before.ledger
  /\ counter' = before.counter /\ log' = before.log
  /\ something' = before.something /\ events' = before.events

(* The extrinsics of the block given up that are valid without it.         *)
Resubmitted ==
  {i \in InBlock(Last(chain)) : TxExtension(txs[i], before, Len(before.chain) + 1)}

(* The best block turns out to be on a branch that lost.                   *)
Retract ==
  /\ ~building /\ chain # before.chain
  /\ Restore
  /\ pool' = pool \cup Resubmitted
  /\ UNCHANGED <<building, before, txs, made>>

(* The node stops: the pool and the block under way are gone.              *)
Restart ==
  /\ pool # {} \/ building
  /\ pool' = {} /\ building' = FALSE
  /\ IF building THEN Restore ELSE UNCHANGED <<pallets, chain, ledger>>
  /\ UNCHANGED <<before, txs, made>>

RuntimeNext ==
  \/ \E call \in Calls : Sign(call)
  \/ \E i \in DOMAIN txs : Resubmit(i) \/ Drop(i) \/ ApplyExtrinsic(i)
  \/ \E t \in Clocks : InitializeBlock(t)
  \/ FinalizeBlock \/ Retract \/ Restart

RuntimeSpec == RuntimeInit /\ [][RuntimeNext]_runtimeVars

-----------------------------------------------------------------------------
RuntimeTypeOK ==
  /\ TypeOK /\ T!TypeOK
  /\ building \in BOOLEAN /\ made \in 0 .. MaxBlocks
  /\ pool \subseteq DOMAIN txs
  /\ ledger.balance \in [Accounts -> Nat] /\ ledger.nonce \in [Accounts -> Nat]
  /\ ledger.weight \in 0 .. MaxNormal

Receipts == UNION {{<<n, k>> : k \in DOMAIN chain[n].xts} : n \in DOMAIN chain}
At(p) == chain[p[1]].xts[p[2]]
Signer(p) == txs[At(p).tx].call.signer
Nonce(p) == txs[At(p).tx].nonce
Precedes(p, q) == p[1] < q[1] \/ (p[1] = q[1] /\ p[2] < q[2])

(* The extrinsics, from p on, by which its signer's account was reaped.    *)
Reapings(p) ==
  {r \in Receipts : Signer(r) = Signer(p) /\ At(r).reaped /\ ~Precedes(r, p)}

(* An extrinsic works once, on any branch, whatever was lost, resubmitted  *)
(* or signed again in between, unless its signer's account is reaped and   *)
(* made anew: what an account has on the chain since it was last reaped    *)
(* are its nonces from zero on, each once, in order and without a gap,     *)
(* failed calls included.                                                  *)
IncludedOnce ==
  /\ \A p, q \in Receipts :
       /\ Precedes(p, q) /\ Signer(p) = Signer(q)
       /\ \A r \in Reapings(p) : ~Precedes(r, q)
       => Nonce(p) < Nonce(q)
  /\ \A p \in Receipts : Reapings(p) = {} => Nonce(p) < ledger.nonce[Signer(p)]
  /\ \A a \in Accounts : \A i \in 0 .. ledger.nonce[a] - 1 :
       \E p \in Receipts : Signer(p) = a /\ Nonce(p) = i /\ Reapings(p) = {}

(* The extrinsics of the whole chain, in order.                            *)
Included == FlattenSeq([n \in DOMAIN chain |-> chain[n].xts])

Call(receipt) == txs[receipt.tx].call

(* What the extrinsic of a receipt did to the balance of an account: its   *)
(* signer paid the fee, the amount and the dust, and the payee was paid.   *)
Change(receipt, a) ==
  (IF a = Call(receipt).signer THEN 0 - Fee(Call(receipt)) - receipt.moved - receipt.dust ELSE 0)
  + (IF receipt.moved # 0 /\ a = Call(receipt).dest THEN receipt.moved ELSE 0)

Endowed(a) == IF a \in LoadSpec(Chain).endowed THEN Endowment ELSE 0

(* Every balance is the endowment and what the chain's extrinsics did to   *)
(* it, the deposit at least or nothing, and all balances are the issuance; *)
(* the counter's events are the chain's successful calls of it, in order:  *)
(* nothing of a retracted block or of an unfinished one is left behind.    *)
StateFollowsChain ==
  LET told == {k \in DOMAIN Included :
                 Included[k].ok /\ Call(Included[k]).name \in {"increment", "reset"}}
  IN  /\ ledger.issuance = SumFunctionOnSet(ledger.balance, Accounts)
      /\ \A a \in Accounts :
           /\ ledger.balance[a] =
                Endowed(a) + SumFunction([k \in DOMAIN Included |-> Change(Included[k], a)])
           /\ ledger.balance[a] = 0 \/ ledger.balance[a] >= ExistentialDeposit
      /\ Len(log) = Cardinality(told)
      /\ \A k \in told :
           LET event == log[Cardinality(told \cap 1 .. k)]
           IN  /\ event.who = Call(Included[k]).signer
               /\ event.kind = "CounterReset" <=> Call(Included[k]).name = "reset"

(* An extrinsic takes effect only on the chain it was signed for, within a *)
(* period of the block its signer saw: on a branch without that block, or  *)
(* long after it, it cannot be replayed.                                   *)
SignedForThisChain ==
  \A n \in DOMAIN chain : \A k \in DOMAIN chain[n].xts :
    LET x == txs[chain[n].xts[k].tx]
    IN  \E b \in 0 .. n - 1 :
          HashOf(State, b) = x.checkpoint /\ n < b + EraPeriod

(* A block's time never keeps the next one from being made: whatever the   *)
(* clock of the next author reads, if Aura lets its slot have a block, the *)
(* timestamp forced up by the minimum period still lies in that slot.      *)
InherentsFit ==
  \A t \in Clocks : SlotAllowed(t) => SlotOf(InherentTime(t)) = SlotOf(t)

(* Within a block the template's value changes only as its events tell or  *)
(* by a step up, through the dispatch and the failing of calls.            *)
StepsAreTold == [][building /\ building' => T!SilentStep]_runtimeVars
=============================================================================

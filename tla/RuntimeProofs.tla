--------------------------- MODULE RuntimeProofs ---------------------------
(* Blocks, eras, nonces and the clock of the runtime, and the two small    *)
(* pallets on their own and in it, for every slot duration and width, any  *)
(* number of blocks and extrinsics, and any calls.                         *)
EXTENDS Runtime, SequenceTheorems, TLAPS

(* The simple-counter pallet on its own.                                   *)
LEMMA CounterInit == ASSUME Init PROVE TypeOK /\ EventsAccountForCounter
<1>1. TypeOK
  BY WidthAssumption DEF Init, TypeOK
<1>2. EventsAccountForCounter
  <2>1. /\ 0 \in 0 .. Len(log)
        /\ counter = Len(log) - 0
        /\ \A j \in 0 + 1 .. Len(log) :
             log[j].kind = "CounterIncremented" /\ log[j].new = j - 0
    BY DEF Init
  <2> SUFFICES \E k \in 0 .. Len(log) :
                 /\ k # 0 => log[k].kind = "CounterReset"
                 /\ counter = Len(log) - k
                 /\ \A j \in k + 1 .. Len(log) :
                      log[j].kind = "CounterIncremented" /\ log[j].new = j - k
    BY DEF EventsAccountForCounter
  <2> WITNESS 0 \in 0 .. Len(log)
  <2> QED BY <2>1
<1> QED BY <1>1, <1>2

LEMMA IncrementCounts ==
  ASSUME TypeOK, EventsAccountForCounter, NEW who \in Accounts, Increment(who)
  PROVE  TypeOK' /\ EventsAccountForCounter'
<1> DEFINE e == [kind |-> "CounterIncremented", new |-> counter + 1, who |-> who]
<1>1. counter < MaxU64 /\ counter \in Nat /\ counter' = counter + 1 /\ log' = Append(log, e)
  <2>1. counter \in Nat /\ CheckedAddOne(counter) # None
    BY WidthAssumption DEF Increment, TypeOK
  <2>2. counter < MaxU64 /\ CheckedAddOne(counter) = counter + 1
    BY <2>1 DEF CheckedAddOne
  <2> QED BY <2>1, <2>2 DEF Increment
<1>2. e \in Event /\ e.kind = "CounterIncremented" /\ e.new = counter + 1
  BY <1>1 DEF Event
<1> HIDE DEF e
<1>3. TypeOK'
  BY <1>1, <1>2, WidthAssumption DEF TypeOK
<1>4. /\ Len(log') = Len(log) + 1 /\ Len(log) \in Nat
      /\ log'[Len(log) + 1] = e
      /\ \A j \in 1 .. Len(log) : log'[j] = log[j]
  BY <1>1, <1>2 DEF TypeOK
<1>5. PICK k \in 0 .. Len(log) :
        /\ k # 0 => log[k].kind = "CounterReset"
        /\ counter = Len(log) - k
        /\ \A j \in k + 1 .. Len(log) :
             log[j].kind = "CounterIncremented" /\ log[j].new = j - k
  BY DEF EventsAccountForCounter
<1>6. k \in 0 .. Len(log') /\ counter' = Len(log') - k
  BY <1>1, <1>4, <1>5
<1>7. k # 0 => log'[k].kind = "CounterReset"
  BY <1>4, <1>5
<1>8. ASSUME NEW j \in k + 1 .. Len(log')
      PROVE  log'[j].kind = "CounterIncremented" /\ log'[j].new = j - k
  BY <1>1, <1>2, <1>4, <1>5
<1>9. EventsAccountForCounter'
  BY <1>6, <1>7, <1>8 DEF EventsAccountForCounter
<1> QED BY <1>3, <1>9

LEMMA ResetCounts ==
  ASSUME TypeOK, NEW who \in Accounts, Reset(who)
  PROVE  TypeOK' /\ EventsAccountForCounter'
<1> DEFINE e == [kind |-> "CounterReset", who |-> who]
<1>1. counter' = 0 /\ log' = Append(log, e)
  BY DEF Reset
<1>2. e \in Event /\ e.kind = "CounterReset"
  BY DEF Event
<1> HIDE DEF e
<1>3. TypeOK'
  BY <1>1, <1>2, WidthAssumption DEF TypeOK
<1>4. Len(log') \in Nat \ {0} /\ log'[Len(log')] = e
  BY <1>1, <1>2 DEF TypeOK
<1>5. EventsAccountForCounter'
  <2> SUFFICES \E k \in 0 .. Len(log') :
                 /\ k # 0 => log'[k].kind = "CounterReset"
                 /\ counter' = Len(log') - k
                 /\ \A j \in k + 1 .. Len(log') :
                      log'[j].kind = "CounterIncremented" /\ log'[j].new = j - k
    BY DEF EventsAccountForCounter
  <2> WITNESS Len(log') \in 0 .. Len(log')
  <2> QED BY <1>1, <1>2, <1>4
<1> QED BY <1>3, <1>5

(* Counting the events gives the counter, at every width.                  *)
THEOREM CounterFollowsEvents == Spec => [](TypeOK /\ EventsAccountForCounter)
<1>1. ASSUME TypeOK /\ EventsAccountForCounter, [Next]_vars
      PROVE  (TypeOK /\ EventsAccountForCounter)'
  <2>1. CASE Next
    BY <1>1, <2>1, IncrementCounts, ResetCounts DEF Next
  <2>2. CASE UNCHANGED vars
    BY <1>1, <2>2 DEF vars, TypeOK, EventsAccountForCounter
  <2> QED BY <1>1, <2>1, <2>2
<1> QED BY <1>1, CounterInit, PTL DEF Spec

-----------------------------------------------------------------------------
(* The template pallet on its own.                                         *)
LEMMA StepStaysInRange ==
  ASSUME NEW old \in T!U32 \cup {None}, T!Stepped(old) # None
  PROVE  old \in T!U32 /\ T!Stepped(old) = old + 1 /\ T!Stepped(old) \in T!U32
  BY WidthAssumption DEF T!Stepped, T!U32

LEMMA StoringTypes ==
  ASSUME T!TypeOK, NEW who \in Accounts, NEW v \in T!U32, T!DoSomething(who, v) PROVE T!TypeOK'
<1> DEFINE e == [kind |-> "SomethingStored", something |-> v, who |-> who]
<1>1. e \in T!Event
  BY DEF T!Event
<1> QED BY <1>1 DEF T!DoSomething, T!TypeOK

LEMMA SteppingTypes == ASSUME T!TypeOK, T!CauseError PROVE T!TypeOK'
  BY StepStaysInRange DEF T!CauseError, T!TypeOK

LEMMA TemplateTypes == T!Spec => []T!TypeOK
<1>1. T!Init => T!TypeOK
  BY DEF T!Init, T!TypeOK
<1>2. T!TypeOK /\ [T!Next]_T!vars => T!TypeOK'
  <2> SUFFICES ASSUME T!TypeOK, [T!Next]_T!vars PROVE T!TypeOK'
    OBVIOUS
  <2>1. CASE T!NextBlock
    BY <2>1 DEF T!NextBlock, T!TypeOK
  <2>2. CASE T!CauseError
    BY <2>2, SteppingTypes
  <2>3. ASSUME NEW who \in Accounts, NEW v \in T!U32, T!DoSomething(who, v) PROVE T!TypeOK'
    BY <2>3, StoringTypes
  <2>4. CASE UNCHANGED T!vars
    BY <2>4 DEF T!vars, T!TypeOK
  <2> QED BY <2>1, <2>2, <2>3, <2>4 DEF T!Next
<1> QED BY <1>1, <1>2, PTL DEF T!Spec

(* No silent change but a step up by one.                                  *)
THEOREM SilentStepsOnly == T!Spec => T!OnlyStepsAreSilent
<1>1. ASSUME T!TypeOK, [T!Next]_T!vars PROVE [T!SilentStep]_T!vars
  <2>1. CASE T!NextBlock
    BY <2>1 DEF T!NextBlock, T!SilentStep
  <2>2. CASE T!CauseError
    <3>1. something \in T!U32 /\ something' = something + 1
      BY <1>1, <2>2, StepStaysInRange DEF T!CauseError, T!TypeOK
    <3>2. something # None
      BY <3>1, WidthAssumption DEF T!U32
    <3> QED BY <3>1, <3>2 DEF T!SilentStep
  <2>3. ASSUME NEW who \in Accounts, NEW v \in T!U32, T!DoSomething(who, v) PROVE T!SilentStep
    <3> DEFINE e == [kind |-> "SomethingStored", something |-> v, who |-> who]
    <3>1. events \in Seq(T!Event) /\ e \in T!Event
      BY <1>1, <2>3 DEF T!TypeOK, T!Event
    <3>2. something' = v /\ events' = Append(events, e) /\ e.something = v
      BY <2>3 DEF T!DoSomething
    <3> HIDE DEF e
    <3> QED BY <3>1, <3>2 DEF T!SilentStep
  <2>4. CASE UNCHANGED T!vars
    BY <2>4 DEF T!vars, T!SilentStep
  <2> QED BY <1>1, <2>1, <2>2, <2>3, <2>4 DEF T!Next
<1> QED BY <1>1, TemplateTypes, PTL DEF T!Spec, T!OnlyStepsAreSilent

-----------------------------------------------------------------------------
LEMMA Division ==
  ASSUME NEW n \in Nat, NEW d \in Nat \ {0}
  PROVE  n \div d \in Nat /\ (n \div d) * d <= n /\ n < (n \div d) * d + d
  OBVIOUS

LEMMA Modulo == ASSUME NEW n \in Nat, NEW d \in Nat \ {0} PROVE n % d \in Nat
  OBVIOUS

(* Multiples of d that lie in the wrong order.                             *)
LEMMA Between ==
  ASSUME NEW a \in Nat, NEW b \in Nat, NEW d \in Nat \ {0}, NEW n \in Nat,
         a * d <= n, n < b * d + d
  PROVE  a <= b
<1> SUFFICES ASSUME b + 1 <= a PROVE FALSE
  OBVIOUS
<1>1. (b + 1) * d <= a * d
  BY SMT
<1> QED BY <1>1, SMT

LEMMA MaxOfTwo ==
  ASSUME NEW a \in Nat, NEW b \in Nat
  PROVE  Max({a, b}) = IF a < b THEN b ELSE a
<1>1. CASE a < b
  BY <1>1 DEF Max
<1>2. CASE ~(a < b)
  BY <1>2 DEF Max
<1> QED BY <1>1, <1>2

-----------------------------------------------------------------------------
(* The parts of the invariant: what holds of the state a block leaves      *)
(* behind, the best one's and the one kept for a retraction.               *)
IsSeq(s) == \E S : s \in Seq(S)

ClockOK(l) ==
  /\ {"now", "slot", "balance", "nonce", "issuance", "weight"} \subseteq DOMAIN l
  /\ l.now \in Nat /\ l.slot \in Nat /\ SlotOf(l.now) = l.slot
  /\ l.balance \in [Accounts -> Int]

ReceiptType == [tx: Nat, ok: BOOLEAN, moved: Int, dust: Int, reaped: BOOLEAN]
Blocks == [hash: Nat, xts: Seq(ReceiptType)]

SignedFor(c, n, i) ==
  /\ i \in DOMAIN txs
  /\ \E b \in 0 .. n - 1 :
       (IF b = 0 THEN 0 ELSE c[b].hash) = txs[i].checkpoint /\ n < b + EraPeriod

ChainOK(c) ==
  /\ c \in Seq(Blocks)
  /\ \A n \in DOMAIN c : \A k \in DOMAIN c[n].xts : SignedFor(c, n, c[n].xts[k].tx)

PalletOK(value, told) == value \in T!U32 \cup {None} /\ IsSeq(told)
StateOK(s) == ChainOK(s.chain) /\ ClockOK(s.ledger) /\ PalletOK(s.something, s.events)

TxOK(x) == x.phase \in Nat /\ x.call \in Calls
TxsOK == IsSeq(txs) /\ \A i \in DOMAIN txs : TxOK(txs[i])

IInv ==
  /\ TxsOK
  /\ ChainOK(chain) /\ ClockOK(ledger) /\ PalletOK(something, events)
  /\ StateOK(before)
  /\ building => chain # <<>>
  /\ made \in Nat

-----------------------------------------------------------------------------
LEMMA BestState == IInv => StateOK(State) /\ StateOK(Best) /\ State.chain = chain
  BY DEF IInv, State, Best, StateOK

LEMMA NoEvents == IsSeq(<<>>)
  BY DEF IsSeq

LEMMA ClockInit == SlotOf(0) = 0
  BY Division, RuntimeAssumption DEF SlotOf

(* The birth of an era lies less than a period back.                       *)
LEMMA BirthInPeriod ==
  ASSUME NEW phase \in Nat, NEW n \in Nat, n >= phase
  PROVE  Birth(phase, n) \in Nat /\ Birth(phase, n) <= n /\ n < Birth(phase, n) + EraPeriod
<1> DEFINE m == n - phase
<1>1. m \in Nat
  OBVIOUS
<1>2. /\ m \div EraPeriod \in Nat /\ (m \div EraPeriod) * EraPeriod <= m
      /\ m < (m \div EraPeriod) * EraPeriod + EraPeriod
  BY <1>1, Division, EraAssumption
<1>3. (m \div EraPeriod) * EraPeriod \in Nat
  BY <1>2, EraAssumption
<1>4. Birth(phase, n) = (m \div EraPeriod) * EraPeriod + phase
  BY DEF Birth
<1> HIDE DEF m
<1> QED
  <2>1. m = n - phase
    BY DEF m
  <2> DEFINE q == (m \div EraPeriod) * EraPeriod
  <2>2. q \in Nat /\ q <= m /\ m < q + EraPeriod /\ Birth(phase, n) = q + phase
    BY <1>2, <1>3, <1>4
  <2> HIDE DEF q
  <2> QED BY <2>1, <2>2, EraAssumption

(* Whatever the clock reads in a later slot, the time of its block is in   *)
(* that slot: half a slot after the last block's time is at most as late.  *)
LEMMA TimeFits ==
  ASSUME ClockOK(ledger), NEW t \in Nat, SlotAllowed(t)
  PROVE  InherentTime(t) \in Nat /\ SlotOf(InherentTime(t)) = SlotOf(t)
<1> DEFINE D == SlotDuration
           s == SlotOf(t)
           last == SlotOf(ledger.now)
           u == ledger.now + MinimumPeriod
<1>1. D \in Nat \ {0} /\ MinimumPeriod \in Nat /\ MinimumPeriod + MinimumPeriod = D
  BY RuntimeAssumption DEF MinimumPeriod
<1>2. s \in Nat /\ s * D <= t /\ t < s * D + D
  BY <1>1, Division DEF SlotOf
<1>3. last \in Nat /\ ledger.now < last * D + D /\ ledger.now \in Nat
  BY <1>1, Division DEF SlotOf, ClockOK
<1>4. last + 1 <= s
  BY <1>2, <1>3 DEF SlotAllowed, ClockOK
<1>5. (last + 1) * D <= s * D
  <2> HIDE DEF last, s, D
  <2> QED BY <1>1, <1>2, <1>3, <1>4, SMT
<1>6. u \in Nat /\ u < s * D + D
  <2>1. (last + 1) * D = last * D + D /\ last * D \in Nat /\ s * D \in Nat
    <3> HIDE DEF last, D, s
    <3> QED BY <1>1, <1>2, <1>3, SMT
  <2> DEFINE p == last * D
             q == s * D
  <2>2. p \in Nat /\ q \in Nat /\ p + D <= q /\ ledger.now < p + D
    BY <2>1, <1>5, <1>3
  <2> HIDE DEF p, last, s, D, q
  <2>3. u < q + D
    BY <1>1, <1>3, <2>2
  <2> QED BY <1>1, <1>3, <2>3 DEF q
<1>7. InherentTime(t) = IF t < u THEN u ELSE t
  BY <1>6, MaxOfTwo DEF InherentTime
<1>8. ASSUME NEW v \in Nat, s * D <= v, v < s * D + D PROVE SlotOf(v) = s
  <2>1. SlotOf(v) \in Nat /\ SlotOf(v) * D <= v /\ v < SlotOf(v) * D + D
    BY <1>1, Division DEF SlotOf
  <2>2. SlotOf(v) <= s
    BY <2>1, <1>1, <1>2, <1>8, Between
  <2>3. s <= SlotOf(v)
    BY <2>1, <1>1, <1>2, <1>8, Between
  <2> HIDE DEF s
  <2> QED BY <2>1, <2>2, <2>3, <1>2
<1>9. CASE t < u
  <2>1. s * D <= u
    <3>1. s * D \in Nat
      BY <1>1, <1>2
    <3> HIDE DEF s, D, u
    <3> QED BY <3>1, <1>2, <1>6, <1>9
  <2>2. SlotOf(u) = s
    BY <1>6, <2>1, <1>8
  <2> QED BY <2>2, <1>6, <1>7, <1>9
<1>10. CASE ~(t < u)
  BY <1>7, <1>10
<1> QED BY <1>9, <1>10

-----------------------------------------------------------------------------
LEMMA AppendSeq ==
  ASSUME NEW s, IsSeq(s), NEW x
  PROVE  /\ IsSeq(Append(s, x)) /\ Len(s) \in Nat
         /\ DOMAIN s = 1 .. Len(s) /\ DOMAIN Append(s, x) = 1 .. Len(s) + 1
         /\ \A i \in DOMAIN s : Append(s, x)[i] = s[i]
         /\ Append(s, x)[Len(s) + 1] = x
<1>1. PICK S : s \in Seq(S)
  BY DEF IsSeq
<1>2. s \in Seq(S \cup {x})
  BY <1>1
<1>3. Append(s, x) \in Seq(S \cup {x})
  BY <1>2
<1> QED BY <1>2, <1>3 DEF IsSeq

(* A chain stays well signed while extrinsics are only added.              *)
LEMMA MoreTxs ==
  ASSUME NEW c, ChainOK(c), DOMAIN txs \subseteq DOMAIN txs',
         \A i \in DOMAIN txs : txs'[i] = txs[i]
  PROVE  ChainOK(c)'
  BY DEF ChainOK, SignedFor

LEMMA NewBlock ==
  ASSUME NEW c, ChainOK(c), NEW h \in Nat
  PROVE  ChainOK(Append(c, [hash |-> h, xts |-> <<>>])) /\ Append(c, [hash |-> h, xts |-> <<>>]) # <<>>
<1> DEFINE block == [hash |-> h, xts |-> <<>>]
           d == Append(c, block)
<1>1. block \in Blocks /\ c \in Seq(Blocks)
  BY DEF ChainOK, Blocks
<1>2. d \in Seq(Blocks) /\ Len(d) = Len(c) + 1 /\ d[Len(d)] = block
  BY <1>1
<1>3. \A n \in DOMAIN c : d[n] = c[n]
  BY <1>1
<1>4. ASSUME NEW n \in DOMAIN d, NEW k \in DOMAIN d[n].xts PROVE SignedFor(d, n, d[n].xts[k].tx)
  <2>1. n # Len(d)
    BY <1>2
  <2>2. n \in DOMAIN c /\ \A b \in 0 .. n - 1 : b = 0 \/ b \in DOMAIN c
    BY <1>1, <1>2, <2>1
  <2>3. SignedFor(c, n, c[n].xts[k].tx)
    BY <1>3, <1>4, <2>2 DEF ChainOK
  <2> QED BY <1>3, <2>2, <2>3 DEF SignedFor
<1> QED BY <1>2, <1>4 DEF ChainOK

(* An extrinsic that passes CheckEra is signed for the chain it goes into. *)
LEMMA EraSigns ==
  ASSUME TxsOK, ChainOK(chain), NEW i \in DOMAIN txs, CheckEra(txs[i], State, Len(chain)),
         chain # <<>>
  PROVE  SignedFor(chain, Len(chain), i)
<1> DEFINE n == Len(chain)
           b == Birth(txs[i].phase, n)
<1>1. n \in Nat /\ n >= 1 /\ txs[i].phase \in Nat
  BY DEF ChainOK, TxsOK, TxOK
<1>2. n >= txs[i].phase /\ HashKnown(State, b, n) /\ HashOf(State, b) = txs[i].checkpoint
  BY DEF CheckEra
<1>3. b \in Nat /\ n < b + EraPeriod
  BY <1>1, <1>2, BirthInPeriod
<1>4. b \in 0 .. n - 1
  BY <1>1, <1>2, <1>3 DEF HashKnown
<1>5. (IF b = 0 THEN 0 ELSE chain[b].hash) = txs[i].checkpoint
  BY <1>2 DEF HashOf, State
<1> QED BY <1>3, <1>4, <1>5 DEF SignedFor

LEMMA ReceiptKeeps ==
  ASSUME ChainOK(chain), chain # <<>>, NEW i \in DOMAIN txs, TxsOK,
         SignedFor(chain, Len(chain), i), NEW e \in ReceiptType, e.tx = i
  PROVE  LET c == [chain EXCEPT ![Len(chain)].xts = Append(@, e)]
         IN  ChainOK(c) /\ c # <<>>
<1> DEFINE n == Len(chain)
           c == [chain EXCEPT ![n].xts = Append(@, e)]
<1>1. n \in DOMAIN chain /\ chain \in Seq(Blocks) /\ chain[n] \in Blocks
  BY DEF ChainOK
<1>3. chain[n].xts \in Seq(ReceiptType)
  BY <1>1 DEF Blocks
<1>4. Append(chain[n].xts, e) \in Seq(ReceiptType)
  BY <1>3
<1>5. c \in Seq(Blocks) /\ DOMAIN c = DOMAIN chain /\ c # <<>>
  <2> DEFINE block == [chain[n] EXCEPT !.xts = Append(@, e)]
  <2>1. block \in Blocks
    BY <1>1, <1>4 DEF Blocks
  <2>2. c = [chain EXCEPT ![n] = block]
    OBVIOUS
  <2> HIDE DEF block, c
  <2> QED BY <1>1, <2>1, <2>2
<1>6. \A b \in DOMAIN chain : c[b].hash = chain[b].hash
  BY <1>1 DEF Blocks
<1>7. \A m \in DOMAIN chain : m # n => c[m] = chain[m]
  OBVIOUS
<1>8. c[n].xts = Append(chain[n].xts, e)
  BY <1>1 DEF Blocks
<1>9. \A m \in DOMAIN chain : \A j : SignedFor(chain, m, j) => SignedFor(c, m, j)
  <2>1. \A m \in DOMAIN chain : \A b \in 0 .. m - 1 : b = 0 \/ b \in DOMAIN chain
    BY <1>1
  <2> HIDE DEF c, n
  <2> QED BY <1>6, <2>1 DEF SignedFor
<1>10. ASSUME NEW m \in DOMAIN c, NEW k \in DOMAIN c[m].xts PROVE SignedFor(c, m, c[m].xts[k].tx)
  <2>1. CASE m # n
    <3>1. SignedFor(chain, m, chain[m].xts[k].tx)
      BY <1>5, <1>7, <1>10, <2>1 DEF ChainOK
    <3> HIDE DEF c, n
    <3> QED BY <3>1, <1>5, <1>7, <1>9, <2>1
  <2>2. CASE m = n
    <3>1. k \in 1 .. Len(chain[n].xts) + 1
      BY <1>3, <1>4, <1>8, <1>10, <2>2
    <3>2. CASE k = Len(chain[n].xts) + 1
      <4>1. c[m].xts[k].tx = i
        BY <1>3, <1>8, <2>2, <3>2
      <4> QED BY <4>1, <1>1, <1>9, <2>2
    <3>3. CASE k # Len(chain[n].xts) + 1
      <4>1. k \in DOMAIN chain[n].xts /\ c[m].xts[k] = chain[n].xts[k]
        <5> DEFINE q == chain[n].xts
        <5>1. q \in Seq(ReceiptType) /\ k \in 1 .. Len(q)
          BY <1>3, <3>1, <3>3
        <5>2. c[m].xts = Append(q, e)
          BY <1>8, <2>2
        <5> HIDE DEF q, c
        <5>3. k \in DOMAIN q /\ Append(q, e)[k] = q[k]
          BY <5>1
        <5> QED BY <5>2, <5>3 DEF q
      <4>2. SignedFor(chain, n, chain[n].xts[k].tx)
        BY <4>1, <1>1 DEF ChainOK
      <4> QED BY <4>1, <4>2, <1>1, <1>9, <2>2
    <3> QED BY <3>2, <3>3
  <2> QED BY <2>1, <2>2
<1> QED BY <1>5, <1>10 DEF ChainOK

-----------------------------------------------------------------------------
LEMMA InvInit == RuntimeInit => IInv
<1> SUFFICES ASSUME RuntimeInit PROVE IInv
  OBVIOUS
<1>1. TxsOK
  BY DEF RuntimeInit, TxsOK, IsSeq
<1>2. ChainOK(chain)
  BY DEF RuntimeInit, ChainOK
<1>3. ClockOK(ledger)
  BY ClockInit, RuntimeAssumption DEF RuntimeInit, ClockOK
<1>4. PalletOK(something, events)
  BY NoEvents DEF RuntimeInit, T!Init, PalletOK
<1>5. StateOK(before) /\ ~building
  BY <1>2, <1>3, <1>4 DEF RuntimeInit, StateOK, State
<1> QED BY <1>1, <1>2, <1>3, <1>4, <1>5 DEF IInv, RuntimeInit

LEMMA WeightBounds ==
  /\ MaxNormal \in Nat
  /\ \A call \in Calls : Weight(call) \in Nat /\ Fee(call) \in Nat /\ Fee(call) = Weight(call) + 1
<1>1. MaxNormal \in Nat
  <2>1. 3 * MaxBlockWeight \in Nat
    BY RuntimeAssumption
  <2> QED BY <2>1, Division DEF MaxNormal
<1>2. ASSUME NEW call \in Calls PROVE Weight(call) \in Nat
  BY RuntimeAssumption DEF Weight, SimpleCounterWeight, TemplateWeight, DbWeight, CallNames, Transfers
<1> QED BY <1>1, <1>2 DEF Fee

LEMMA CallTypes ==
  ASSUME NEW call \in Calls
  PROVE  /\ call.signer \in Accounts /\ call.name \in CallNames
         /\ call.name = "do_something" => call.value \in T!U32
         /\ call.name \in Transfers => call.dest \in Accounts
         /\ call.name \in Transfers /\ call.name # "transfer_all" => call.value \in Nat
         /\ call.name = "transfer_all" => call.keep_alive \in BOOLEAN
         /\ ExistentialDeposit \in Nat \ {0}
  BY RuntimeAssumption DEF T!U32

(* What the extensions and the calls do to the ledger leaves its clock.    *)
LEMMA ChargedClock ==
  ASSUME NEW l, ClockOK(l), NEW call \in Calls
  PROVE  ClockOK(Charged(l, call))
<1>1. PICK a, fee, m : a = call.signer /\ fee = Fee(call) /\ m = Charged(l, call)
  OBVIOUS
<1>2. a \in Accounts /\ fee \in Nat /\ l.balance \in [Accounts -> Int]
  BY <1>1, WeightBounds, CallTypes DEF ClockOK
<1>3. m.balance = [l.balance EXCEPT ![a] = @ - fee] /\ m.now = l.now /\ m.slot = l.slot /\ DOMAIN m = DOMAIN l
  BY <1>1 DEF Charged, ClockOK
<1>4. m.balance \in [Accounts -> Int]
  BY <1>2, <1>3
<1> QED BY <1>1, <1>3, <1>4 DEF ClockOK

LEMMA MovementTypes ==
  ASSUME NEW l, l.balance \in [Accounts -> Int], NEW call \in Calls, call.name \in Transfers
  PROVE  Movement(l, call) \in [moved: Int, dust: Int, reaped: BOOLEAN] /\ Amount(l, call) \in Int
<1>1. call.signer \in Accounts /\ l.balance[call.signer] \in Int /\ ExistentialDeposit \in Int
  BY CallTypes
<1>2. Amount(l, call) \in Int
  BY <1>1, CallTypes DEF Amount
<1>3. l.balance[call.signer] - Amount(l, call) \in Int
  BY <1>1, <1>2
<1> QED BY <1>1, <1>2, <1>3 DEF Movement, Nothing

(* What a transfer leaves of the ledger, field by field.                   *)
Debited(b, a, m) == [b EXCEPT ![a] = @ - m.moved - m.dust]
Credited(b, a, m) == [b EXCEPT ![a] = @ + m.moved]
AfterReaping(n, a, reaped) == [n EXCEPT ![a] = IF reaped THEN 0 ELSE @]

LEMMA TransferredFields ==
  ASSUME NEW l, {"now", "slot", "balance", "nonce", "issuance", "weight"} \subseteq DOMAIN l, NEW call
  PROVE  /\ DOMAIN Transferred(l, call) = DOMAIN l
         /\ Transferred(l, call).now = l.now /\ Transferred(l, call).slot = l.slot
         /\ Transferred(l, call).weight = l.weight
         /\ Transferred(l, call).balance
              = Credited(Debited(l.balance, call.signer, Movement(l, call)), call.dest, Movement(l, call))
         /\ Transferred(l, call).issuance = l.issuance - Movement(l, call).dust
         /\ Transferred(l, call).nonce = AfterReaping(l.nonce, call.signer, Movement(l, call).reaped)
  BY DEF Transferred, Debited, Credited, AfterReaping

LEMMA TransferredClock ==
  ASSUME NEW l, ClockOK(l), NEW call \in Calls, call.name \in Transfers
  PROVE  ClockOK(Transferred(l, call))
<1>1. PICK m, t, s, d : /\ m = Movement(l, call) /\ t = Transferred(l, call)
                       /\ s = call.signer /\ d = call.dest
  OBVIOUS
<1>2. m.moved \in Int /\ m.dust \in Int /\ s \in Accounts /\ d \in Accounts
  BY <1>1, MovementTypes, CallTypes DEF ClockOK
<1>3. /\ DOMAIN Transferred(l, call) = DOMAIN l
      /\ Transferred(l, call).now = l.now /\ Transferred(l, call).slot = l.slot
      /\ Transferred(l, call).balance
           = Credited(Debited(l.balance, call.signer, Movement(l, call)), call.dest, Movement(l, call))
  BY TransferredFields DEF ClockOK
<1>4. /\ DOMAIN t = DOMAIN l /\ t.now = l.now /\ t.slot = l.slot
      /\ t.balance = Credited(Debited(l.balance, s, m), d, m)
  BY <1>1, <1>3
<1>5. Debited(l.balance, s, m) \in [Accounts -> Int]
  <2>1. l.balance \in [Accounts -> Int]
    BY DEF ClockOK
  <2> QED BY <1>2, <2>1 DEF Debited
<1>6. t.balance \in [Accounts -> Int]
  BY <1>2, <1>4, <1>5 DEF Credited
<1> QED BY <1>1, <1>4, <1>6 DEF ClockOK

(* An applied extrinsic leaves the charged ledger, or that after a         *)
(* transfer.                                                               *)
LEMMA Settles ==
  ASSUME NEW i \in DOMAIN txs, ApplyExtrinsic(i), NEW call, call = txs[i].call,
         NEW l, l = Charged(ledger, call)
  PROVE  ledger' = IF Succeeds(l, call) /\ call.name \in Transfers THEN Transferred(l, call) ELSE l
<1>1. CASE Succeeds(l, call)
  <2>1. Dispatch(l, call)
    BY <1>1 DEF ApplyExtrinsic
  <2> QED BY <1>1, <2>1 DEF Dispatch, Transfers
<1>2. CASE ~Succeeds(l, call)
  BY <1>2 DEF ApplyExtrinsic
<1> QED BY <1>1, <1>2

(* The receipt of an applied extrinsic, and the chain with it.             *)
LEMMA ReceiptAdded ==
  ASSUME TxsOK, ClockOK(ledger), NEW i \in DOMAIN txs, ApplyExtrinsic(i), NEW call, call = txs[i].call,
         NEW l, l = Charged(ledger, call)
  PROVE  /\ call \in Calls /\ ClockOK(l) /\ i \in Nat /\ Succeeds(l, call) \in BOOLEAN
         /\ Receipt(i, l, Succeeds(l, call)) \in ReceiptType
         /\ Receipt(i, l, Succeeds(l, call)).tx = i
         /\ Receipt(i, l, Succeeds(l, call)).ok = Succeeds(l, call)
         /\ chain' = [chain EXCEPT ![Len(chain)].xts = Append(@, Receipt(i, l, Succeeds(l, call)))]
<1>1. call \in Calls /\ i \in Nat
  BY DEF TxsOK, TxOK, IsSeq
<1>2. ClockOK(l)
  BY <1>1, ChargedClock
<1>3. Succeeds(l, call) \in BOOLEAN
  BY DEF Succeeds, TransferAllowed
<1>4. PICK ok \in BOOLEAN : ok = Succeeds(l, call)
  BY <1>3
<1>5. Receipt(i, l, ok) \in ReceiptType /\ Receipt(i, l, ok).tx = i /\ Receipt(i, l, ok).ok = ok
  <2>1. PICK m : m = IF ok /\ call.name \in Transfers THEN Movement(l, call) ELSE Nothing
    OBVIOUS
  <2>2. m.moved \in Int /\ m.dust \in Int /\ m.reaped \in BOOLEAN
    <3>1. CASE ok /\ call.name \in Transfers
      <4>1. Movement(l, call) \in [moved: Int, dust: Int, reaped: BOOLEAN]
        BY <1>1, <1>2, <3>1, MovementTypes DEF ClockOK
      <4>2. m \in [moved: Int, dust: Int, reaped: BOOLEAN]
        BY <2>1, <3>1, <4>1
      <4> QED BY <4>2
    <3>2. CASE ~(ok /\ call.name \in Transfers)
      <4>1. m = Nothing
        BY <2>1, <3>2, Zenon
      <4>2. Nothing \in [moved: Int, dust: Int, reaped: BOOLEAN]
        BY DEF Nothing
      <4>3. m \in [moved: Int, dust: Int, reaped: BOOLEAN]
        BY <4>1, <4>2
      <4> QED BY <4>3
    <3> QED BY <3>1, <3>2
  <2>3. Receipt(i, l, ok) = [tx |-> i, ok |-> ok, moved |-> m.moved, dust |-> m.dust, reaped |-> m.reaped]
    BY <2>1 DEF Receipt
  <2> QED BY <1>1, <2>2, <2>3 DEF ReceiptType
<1>6. chain' = [chain EXCEPT ![Len(chain)].xts = Append(@, Receipt(i, l, ok))]
  BY <1>4 DEF ApplyExtrinsic
<1> QED BY <1>1, <1>2, <1>4, <1>5, <1>6

LEMMA DispatchKeeps ==
  ASSUME NEW l, PalletOK(something, events), NEW call \in Calls, Dispatch(l, call)
  PROVE  PalletOK(something', events')
<1>1. CASE call.name \notin {"do_something", "cause_error"}
  BY <1>1 DEF Dispatch, pallets
<1>3. CASE call.name = "do_something"
  <2>1. T!DoSomething(call.signer, call.value) /\ call.value \in T!U32
    BY <1>3, CallTypes DEF Dispatch, Transfers
  <2>2. IsSeq(events')
    BY <2>1, AppendSeq DEF T!DoSomething, PalletOK
  <2> QED BY <2>1, <2>2 DEF T!DoSomething, PalletOK
<1>4. CASE call.name = "cause_error"
  BY <1>4, StepStaysInRange DEF Dispatch, T!CauseError, PalletOK, Transfers
<1> QED BY <1>1, <1>3, <1>4

LEMMA SignedOK ==
  ASSUME IInv, NEW call \in Calls
  PROVE  TxOK(Extrinsic(call))
<1>1. Len(Best.chain) \in Nat
  BY BestState DEF StateOK, ChainOK
<1>2. Len(Best.chain) % EraPeriod \in Nat
  BY <1>1, Modulo, EraAssumption
<1> QED BY <1>2 DEF TxOK, Extrinsic

LEMMA SignKeeps == ASSUME IInv, NEW call \in Calls, Sign(call) PROVE IInv'
<1> DEFINE x == Extrinsic(call)
<1>1. txs' = Append(txs, x) /\ TxOK(x)
  BY SignedOK DEF Sign
<1>2. IsSeq(txs)
  BY DEF IInv, TxsOK
<1> HIDE DEF x
<1>3. TxsOK'
  BY <1>1, <1>2, AppendSeq DEF IInv, TxsOK
<1>4. DOMAIN txs \subseteq DOMAIN txs' /\ \A i \in DOMAIN txs : txs'[i] = txs[i]
  BY <1>1, <1>2, AppendSeq
<1>5. UNCHANGED <<chain, ledger, something, events, before, building, made>>
  BY DEF Sign, pallets
<1>6. ChainOK(chain)' /\ StateOK(before)'
  <2>1. ChainOK(chain) /\ ChainOK(before.chain)
    BY DEF IInv, StateOK
  <2>2. \A n, j : SignedFor(chain, n, j) => SignedFor(chain, n, j)'
    BY <1>4, <1>5 DEF SignedFor
  <2>3. \A n, j : SignedFor(before.chain, n, j) => SignedFor(before.chain, n, j)'
    BY <1>4, <1>5 DEF SignedFor
  <2>4. ChainOK(chain)' /\ ChainOK(before.chain)'
    BY <2>1, <2>2, <2>3, <1>5 DEF ChainOK
  <2> QED BY <1>5, <2>4 DEF IInv, StateOK, ClockOK, SlotOf
<1> QED BY <1>3, <1>5, <1>6 DEF IInv, ClockOK, SlotOf, StateOK

LEMMA InitializeKeeps == ASSUME IInv, NEW t \in Clocks, InitializeBlock(t) PROVE IInv'
<1> DEFINE block == [hash |-> made + 1, xts |-> <<>>]
<1>1. UNCHANGED <<txs, something>> /\ events' = <<>> /\ before' = State /\ made' = made + 1
  BY DEF InitializeBlock, T!NextBlock
<1>2. TxsOK'
  BY <1>1 DEF IInv, TxsOK
<1>3. chain' = Append(chain, block)
  BY DEF InitializeBlock
<1>4. ChainOK(chain') /\ chain' # <<>>
  <2>1. made + 1 \in Nat /\ ChainOK(chain)
    BY DEF IInv
  <2> QED BY <1>3, <2>1, NewBlock
<1>5. StateOK(before')
  BY <1>1, BestState
<1>6. ChainOK(chain)' /\ StateOK(before)'
  BY <1>1, <1>4, <1>5 DEF ChainOK, SignedFor, StateOK
<1>7. ClockOK(ledger)'
  <2>1. ClockOK(ledger) /\ t \in Nat /\ SlotAllowed(t)
    BY RuntimeAssumption DEF IInv, InitializeBlock
  <2>2. InherentTime(t) \in Nat /\ SlotOf(InherentTime(t)) = SlotOf(t)
    BY <2>1, TimeFits
  <2>3. SlotOf(t) \in Nat
    BY <2>1, Division, RuntimeAssumption DEF SlotOf
  <2>4. ledger' = [ledger EXCEPT !.now = InherentTime(t), !.slot = SlotOf(t), !.weight = 0]
    BY DEF InitializeBlock
  <2> QED BY <2>1, <2>2, <2>3, <2>4 DEF ClockOK
<1>8. made' \in Nat
  BY <1>1 DEF IInv
<1> QED BY <1>1, <1>2, <1>4, <1>6, <1>7, <1>8, NoEvents DEF IInv, PalletOK

LEMMA ApplyKeeps == ASSUME IInv, NEW i \in DOMAIN txs, ApplyExtrinsic(i) PROVE IInv'
<1>1. UNCHANGED <<building, before, txs, made>> /\ building
  BY DEF ApplyExtrinsic
<1>2. TxsOK /\ ChainOK(chain) /\ chain # <<>> /\ ClockOK(ledger)
  BY <1>1 DEF IInv
<1>3. SignedFor(chain, Len(chain), i)
  BY <1>2, EraSigns DEF ApplyExtrinsic, TxExtension
<1>4. PICK call, l : call = txs[i].call /\ l = Charged(ledger, call)
  OBVIOUS
<1>5. PICK e \in ReceiptType : e.tx = i /\ chain' = [chain EXCEPT ![Len(chain)].xts = Append(@, e)]
  BY <1>2, <1>4, ReceiptAdded
<1>6. ChainOK(chain') /\ chain' # <<>>
  BY <1>2, <1>3, <1>5, ReceiptKeeps
<1>7. call \in Calls /\ ClockOK(l)
  BY <1>2, <1>4, ReceiptAdded
<1>8. ClockOK(ledger')
  <2>1. ledger' = IF Succeeds(l, call) /\ call.name \in Transfers THEN Transferred(l, call) ELSE l
    BY <1>4, Settles
  <2> QED BY <1>7, <2>1, TransferredClock
<1>9. PalletOK(something', events')
  <2>1. CASE Succeeds(l, call)
    <3>1. Dispatch(l, call)
      BY <1>4, <2>1 DEF ApplyExtrinsic
    <3> QED BY <1>7, <3>1, DispatchKeeps DEF IInv
  <2>2. CASE ~Succeeds(l, call)
    BY <1>4, <2>2 DEF ApplyExtrinsic, IInv, pallets
  <2> QED BY <2>1, <2>2
<1>10. TxsOK' /\ ChainOK(chain)' /\ ClockOK(ledger)' /\ StateOK(before)'
  BY <1>1, <1>2, <1>6, <1>8 DEF IInv, TxsOK, ChainOK, SignedFor, StateOK, ClockOK, SlotOf
<1> QED BY <1>1, <1>6, <1>8, <1>9, <1>10 DEF IInv

LEMMA RestoreKeeps ==
  ASSUME IInv, Restore, UNCHANGED <<before, txs, made>>, ~building'
  PROVE  IInv'
<1>1. TxsOK' /\ StateOK(before)'
  BY DEF IInv, TxsOK, StateOK, ChainOK, SignedFor, ClockOK, SlotOf
<1>2. StateOK(before')
  BY DEF IInv
<1>3. ChainOK(chain)' /\ ClockOK(ledger)' /\ PalletOK(something', events')
  BY <1>2 DEF Restore, StateOK, ChainOK, SignedFor, ClockOK, SlotOf
<1> QED BY <1>1, <1>3 DEF IInv

(* Steps that leave the chain and its state alone.                         *)
LEMMA SameKeeps ==
  ASSUME IInv, UNCHANGED <<chain, ledger, something, events, before, txs, made>>,
         UNCHANGED building \/ ~building'
  PROVE  IInv'
<1>1. TxsOK' /\ StateOK(before)' /\ ChainOK(chain)' /\ ClockOK(ledger)'
  BY DEF IInv, TxsOK, StateOK, ChainOK, SignedFor, ClockOK, SlotOf
<1> QED BY <1>1 DEF IInv

LEMMA InvStep == IInv /\ [RuntimeNext]_runtimeVars => IInv'
<1> SUFFICES ASSUME IInv, [RuntimeNext]_runtimeVars PROVE IInv'
  OBVIOUS
<1>1. ASSUME NEW call \in Calls, Sign(call) PROVE IInv'
  BY <1>1, SignKeeps
<1>2. ASSUME NEW i \in DOMAIN txs, Resubmit(i) \/ Drop(i) PROVE IInv'
  BY <1>2, SameKeeps DEF Resubmit, Drop, pallets
<1>3. ASSUME NEW i \in DOMAIN txs, ApplyExtrinsic(i) PROVE IInv'
  BY <1>3, ApplyKeeps
<1>4. ASSUME NEW t \in Clocks, InitializeBlock(t) PROVE IInv'
  BY <1>4, InitializeKeeps
<1>5. CASE FinalizeBlock
  BY <1>5, SameKeeps DEF FinalizeBlock, pallets
<1>6. CASE Retract
  BY <1>6, RestoreKeeps DEF Retract
<1>7. CASE Restart
  BY <1>7, RestoreKeeps, SameKeeps DEF Restart, pallets
<1>8. CASE UNCHANGED runtimeVars
  BY <1>8, SameKeeps DEF runtimeVars
<1> QED BY <1>1, <1>2, <1>3, <1>4, <1>5, <1>6, <1>7, <1>8 DEF RuntimeNext

THEOREM Invariant == RuntimeSpec => []IInv
  BY InvInit, InvStep, PTL DEF RuntimeSpec

(* No block, on any branch and after any restart, has a time that keeps    *)
(* the next author from making a block in a slot Aura allows.              *)
THEOREM BlocksCanBeMade == RuntimeSpec => []InherentsFit
<1>1. IInv => InherentsFit
  BY TimeFits, RuntimeAssumption DEF IInv, InherentsFit
<1> QED BY <1>1, Invariant, PTL

(* Whatever is signed, lost, retracted and submitted again, an extrinsic   *)
(* takes effect on the chain it was signed for and within its era only.    *)
THEOREM NoReplayAcrossBranches == RuntimeSpec => []SignedForThisChain
<1>1. IInv => SignedForThisChain
  BY DEF IInv, ChainOK, SignedFor, SignedForThisChain, HashOf, State
<1> QED BY <1>1, Invariant, PTL

(* The template's value changes within a block as its events tell, through *)
(* dispatch, failed calls and the other pallets' calls.                    *)
THEOREM TemplateStepsAreTold == RuntimeSpec => StepsAreTold
<1>1. ASSUME IInv, [RuntimeNext]_runtimeVars, building, building' PROVE T!SilentStep
  <2> SUFFICES ASSUME something' # something PROVE T!SilentStep
    BY DEF T!SilentStep
  <2>1. PICK i \in DOMAIN txs : ApplyExtrinsic(i)
    BY <1>1 DEF RuntimeNext, runtimeVars, Sign, Resubmit, Drop, InitializeBlock, FinalizeBlock,
       Retract, Restart, pallets
  <2> DEFINE x == txs[i].call
             l == Charged(ledger, x)
  <2>2. Dispatch(l, x)
    BY <2>1 DEF ApplyExtrinsic, pallets
  <2>3. CASE T!CauseError
    <3>1. something \in T!U32 /\ something' = something + 1
      BY <1>1, <2>3, StepStaysInRange DEF T!CauseError, IInv, PalletOK
    <3> QED BY <3>1, WidthAssumption DEF T!SilentStep, T!U32
  <2>4. CASE T!DoSomething(x.signer, x.value)
    <3> DEFINE e == [kind |-> "SomethingStored", something |-> x.value, who |-> x.signer]
    <3>1. something' = x.value /\ events' = Append(events, e) /\ e.something = x.value
      BY <2>4 DEF T!DoSomething
    <3>2. IsSeq(events)
      BY <1>1 DEF IInv, PalletOK
    <3> HIDE DEF e
    <3> QED BY <3>1, <3>2, AppendSeq DEF T!SilentStep
  <2> QED BY <2>2, <2>3, <2>4 DEF Dispatch, pallets
<1> QED BY <1>1, Invariant, PTL DEF RuntimeSpec, StepsAreTold

-----------------------------------------------------------------------------
(* The extrinsics of a chain as a history: where they stand, whose they    *)
(* are, with which nonce, and whether they reaped their signer.            *)
Places(c) == UNION {{<<n, k>> : k \in DOMAIN c[n].xts} : n \in DOMAIN c}

History(xs, c) ==
  [at     |-> Places(c),
   signer |-> [p \in Places(c) |-> xs[c[p[1]].xts[p[2]].tx].call.signer],
   nonce  |-> [p \in Places(c) |-> xs[c[p[1]].xts[p[2]].tx].nonce],
   reaped |-> [p \in Places(c) |-> c[p[1]].xts[p[2]].reaped]]

ReapingsOf(h, p) ==
  {r \in h.at : h.signer[r] = h.signer[p] /\ h.reaped[r] /\ ~Precedes(r, p)}

(* IncludedOnce of any history, for the best chain's and that of the one   *)
(* it goes back to.                                                        *)
NoncesOK(h, nonce) ==
  /\ nonce \in [Accounts -> Nat] /\ h.signer \in [h.at -> Accounts]
  /\ \A p, q \in h.at :
       /\ Precedes(p, q) /\ h.signer[p] = h.signer[q]
       /\ \A r \in ReapingsOf(h, p) : ~Precedes(r, q)
       => h.nonce[p] < h.nonce[q]
  /\ \A p \in h.at : ReapingsOf(h, p) = {} => h.nonce[p] < nonce[h.signer[p]]
  /\ \A a \in Accounts : \A i \in 0 .. nonce[a] - 1 :
       \E p \in h.at : h.signer[p] = a /\ h.nonce[p] = i /\ ReapingsOf(h, p) = {}
  /\ \A p \in h.at : h.nonce[p] \in Nat

NonceInv ==
  /\ \A i \in DOMAIN txs : txs[i].call.signer \in Accounts
  /\ NoncesOK(History(txs, chain), ledger.nonce)
  /\ NoncesOK(History(txs, before.chain), before.ledger.nonce)

LEMMA Place ==
  ASSUME NEW c, NEW p
  PROVE  p \in Places(c) <=> \E n \in DOMAIN c : \E k \in DOMAIN c[n].xts : p = <<n, k>>
  BY DEF Places

(* Extrinsics signed since, and blocks without any, are no history.        *)
LEMMA SameHistory ==
  ASSUME NEW xs, NEW ys, NEW c, NEW d, Places(d) = Places(c),
         \A n \in DOMAIN c : \A k \in DOMAIN c[n].xts :
           d[n].xts[k] = c[n].xts[k] /\ ys[c[n].xts[k].tx] = xs[c[n].xts[k].tx]
  PROVE  History(ys, d) = History(xs, c)
<1>1. \A p \in Places(c) : /\ d[p[1]].xts[p[2]] = c[p[1]].xts[p[2]]
                           /\ ys[c[p[1]].xts[p[2]].tx] = xs[c[p[1]].xts[p[2]].tx]
  <2> SUFFICES ASSUME NEW p \in Places(c)
               PROVE  /\ d[p[1]].xts[p[2]] = c[p[1]].xts[p[2]]
                      /\ ys[c[p[1]].xts[p[2]].tx] = xs[c[p[1]].xts[p[2]].tx]
    OBVIOUS
  <2>1. PICK n \in DOMAIN c : \E k \in DOMAIN c[n].xts : p = <<n, k>>
    BY Place
  <2>2. PICK k \in DOMAIN c[n].xts : p = <<n, k>>
    BY <2>1
  <2>3. p[1] = n /\ p[2] = k
    BY <2>2
  <2> QED BY <2>3
<1>2. /\ [p \in Places(d) |-> ys[d[p[1]].xts[p[2]].tx].call.signer]
           = [p \in Places(c) |-> xs[c[p[1]].xts[p[2]].tx].call.signer]
      /\ [p \in Places(d) |-> ys[d[p[1]].xts[p[2]].tx].nonce]
           = [p \in Places(c) |-> xs[c[p[1]].xts[p[2]].tx].nonce]
      /\ [p \in Places(d) |-> d[p[1]].xts[p[2]].reaped] = [p \in Places(c) |-> c[p[1]].xts[p[2]].reaped]
  BY <1>1
<1> QED BY <1>2 DEF History

(* An extrinsic of a with a's next nonce comes last, at z.                 *)
Extends(h, j, z, a, nonce, after) ==
  /\ z \notin h.at /\ j.at = h.at \cup {z} /\ a \in Accounts
  /\ ~Precedes(z, z) /\ \A p \in h.at : Precedes(p, z) /\ ~Precedes(z, p)
  /\ \A p \in h.at : j.signer[p] = h.signer[p] /\ j.nonce[p] = h.nonce[p] /\ j.reaped[p] = h.reaped[p]
  /\ j.signer \in [j.at -> Accounts] /\ j.signer[z] = a /\ j.nonce[z] = nonce[a]
  /\ after = [nonce EXCEPT ![a] = IF j.reaped[z] THEN 0 ELSE nonce[a] + 1]

LEMMA NoncesOfLast ==
  ASSUME NEW h, NEW j, NEW z, NEW a, NEW nonce, NEW after, NoncesOK(h, nonce), Extends(h, j, z, a, nonce, after)
  PROVE  NoncesOK(j, after)
<1>1. /\ z \notin h.at /\ j.at = h.at \cup {z} /\ a \in Accounts
      /\ ~Precedes(z, z) /\ \A p \in h.at : Precedes(p, z) /\ ~Precedes(z, p)
      /\ \A p \in h.at : j.signer[p] = h.signer[p] /\ j.nonce[p] = h.nonce[p] /\ j.reaped[p] = h.reaped[p]
      /\ j.signer \in [j.at -> Accounts] /\ j.signer[z] = a /\ j.nonce[z] = nonce[a]
  BY DEF Extends
<1>2. /\ nonce \in [Accounts -> Nat] /\ h.signer \in [h.at -> Accounts]
      /\ \A p \in h.at : h.nonce[p] \in Nat
      /\ \A p \in h.at : ReapingsOf(h, p) = {} => h.nonce[p] < nonce[h.signer[p]]
  BY DEF NoncesOK
<1>3. /\ after \in [Accounts -> Nat] /\ nonce[a] \in Nat
      /\ after[a] = IF j.reaped[z] THEN 0 ELSE nonce[a] + 1
      /\ \A b \in Accounts : b # a => after[b] = nonce[b]
  BY <1>1, <1>2 DEF Extends
<1>4. ASSUME NEW p \in h.at
      PROVE  ReapingsOf(j, p) = ReapingsOf(h, p) \cup (IF h.signer[p] = a /\ j.reaped[z] THEN {z} ELSE {})
  BY <1>1 DEF ReapingsOf
<1>5. ReapingsOf(j, z) = IF j.reaped[z] THEN {z} ELSE {}
  BY <1>1 DEF ReapingsOf
<1>6. ASSUME NEW p \in j.at, NEW q \in j.at, Precedes(p, q), j.signer[p] = j.signer[q],
             \A r \in ReapingsOf(j, p) : ~Precedes(r, q)
      PROVE  j.nonce[p] < j.nonce[q]
  <2>1. p \in h.at
    BY <1>1, <1>6
  <2>2. CASE q \in h.at
    <3>1. \A r \in ReapingsOf(h, p) : ~Precedes(r, q)
      BY <1>4, <1>6, <2>1
    <3>2. h.nonce[p] < h.nonce[q]
      BY <1>1, <1>6, <2>1, <2>2, <3>1 DEF NoncesOK
    <3> QED BY <1>1, <2>1, <2>2, <3>2
  <2>3. CASE q = z
    <3>1. ReapingsOf(h, p) = {}
      <4>1. \A r \in ReapingsOf(h, p) : r \in h.at /\ r \in ReapingsOf(j, p)
        BY <1>4, <2>1 DEF ReapingsOf
      <4> QED BY <1>1, <1>6, <2>3, <4>1
    <3>2. h.nonce[p] < nonce[h.signer[p]] /\ h.signer[p] = a
      BY <1>1, <1>2, <1>6, <2>1, <2>3, <3>1
    <3> QED BY <1>1, <2>1, <2>3, <3>2
  <2> QED BY <1>1, <2>2, <2>3
<1>7. ASSUME NEW p \in j.at, ReapingsOf(j, p) = {} PROVE j.nonce[p] < after[j.signer[p]]
  <2>1. CASE p = z
    BY <1>1, <1>3, <1>5, <1>7, <2>1
  <2>2. CASE p \in h.at
    <3>1. ReapingsOf(h, p) = {} /\ ~(h.signer[p] = a /\ j.reaped[z])
      BY <1>4, <1>7, <2>2
    <3>2. h.nonce[p] < nonce[h.signer[p]] /\ h.nonce[p] \in Nat /\ h.signer[p] \in Accounts
      BY <1>2, <2>2, <3>1
    <3>3. CASE h.signer[p] = a
      BY <1>1, <1>3, <2>2, <3>1, <3>2, <3>3
    <3>4. CASE h.signer[p] # a
      BY <1>1, <1>3, <2>2, <3>2, <3>4
    <3> QED BY <3>3, <3>4
  <2> QED BY <1>1, <2>1, <2>2
<1>8. ASSUME NEW b \in Accounts, NEW i \in 0 .. after[b] - 1
      PROVE  \E p \in j.at : j.signer[p] = b /\ j.nonce[p] = i /\ ReapingsOf(j, p) = {}
  <2>1. CASE b = a /\ i = nonce[a]
    <3>1. ~j.reaped[z]
      BY <1>3, <1>8, <2>1
    <3> QED BY <1>1, <1>5, <2>1, <3>1
  <2>2. CASE ~(b = a /\ i = nonce[a])
    <3>1. i \in 0 .. nonce[b] - 1 /\ ~(b = a /\ j.reaped[z])
      BY <1>2, <1>3, <1>8, <2>2
    <3>2. PICK p \in h.at : h.signer[p] = b /\ h.nonce[p] = i /\ ReapingsOf(h, p) = {}
      BY <3>1 DEF NoncesOK
    <3>3. ReapingsOf(j, p) = {}
      BY <1>4, <3>1, <3>2
    <3> QED BY <1>1, <3>2, <3>3
  <2> QED BY <2>1, <2>2
<1>9. \A p \in j.at : j.nonce[p] \in Nat
  BY <1>1, <1>2, <1>3
<1> QED BY <1>1, <1>3, <1>6, <1>7, <1>8, <1>9 DEF NoncesOK

LEMMA BlockTypes ==
  ASSUME NEW block \in Blocks
  PROVE  /\ block.xts \in Seq(ReceiptType) /\ Len(block.xts) \in Nat
         /\ DOMAIN block.xts = 1 .. Len(block.xts)
<1>1. block.xts \in Seq(ReceiptType)
  BY DEF Blocks
<1> QED BY <1>1

(* Where the next extrinsic of a chain's last block will stand.            *)
NextPlace(c) == <<Len(c), Len(c[Len(c)].xts) + 1>>

LEMMA EarlierPlaces ==
  ASSUME NEW c \in Seq(Blocks), c # <<>>, NEW p \in Places(c)
  PROVE  Precedes(p, NextPlace(c)) /\ ~Precedes(NextPlace(c), p) /\ p # NextPlace(c)
<1>1. PICK n \in DOMAIN c : \E k \in DOMAIN c[n].xts : p = <<n, k>>
  BY Place
<1>2. PICK k \in DOMAIN c[n].xts : p = <<n, k>>
  BY <1>1
<1>3. Len(c) \in Nat /\ n \in 1 .. Len(c) /\ c[n] \in Blocks
  OBVIOUS
<1>4. k \in 1 .. Len(c[n].xts) /\ Len(c[n].xts) \in Nat
  BY <1>3, BlockTypes
<1>5. /\ p[1] = n /\ p[2] = k
      /\ NextPlace(c)[1] = Len(c) /\ NextPlace(c)[2] = Len(c[Len(c)].xts) + 1
  BY <1>2 DEF NextPlace
<1>6. CASE n = Len(c)
  BY <1>3, <1>4, <1>5, <1>6 DEF Precedes
<1>7. CASE n # Len(c)
  BY <1>3, <1>5, <1>7 DEF Precedes
<1> QED BY <1>6, <1>7

(* The places of a chain with one more.                                    *)
LEMMA OneMorePlace ==
  ASSUME NEW c, NEW d, NEW last \in DOMAIN c, NEW z2, DOMAIN d = DOMAIN c, z2 \in DOMAIN d[last].xts,
         \A n \in DOMAIN c : \A k : k \in DOMAIN d[n].xts <=> k \in DOMAIN c[n].xts \/ (n = last /\ k = z2)
  PROVE  Places(d) = Places(c) \cup {<<last, z2>>}
<1>1. ASSUME NEW p \in Places(d) PROVE p \in Places(c) \cup {<<last, z2>>}
  <2>1. PICK n \in DOMAIN d : \E k \in DOMAIN d[n].xts : p = <<n, k>>
    BY Place
  <2>2. PICK k \in DOMAIN d[n].xts : p = <<n, k>>
    BY <2>1
  <2>3. CASE k \in DOMAIN c[n].xts
    BY <2>2, <2>3, Place
  <2>4. CASE n = last /\ k = z2
    BY <2>2, <2>4
  <2> QED BY <2>3, <2>4
<1>2. ASSUME NEW p \in Places(c) PROVE p \in Places(d)
  <2>1. PICK n \in DOMAIN c : \E k \in DOMAIN c[n].xts : p = <<n, k>>
    BY Place
  <2>2. PICK k \in DOMAIN c[n].xts : p = <<n, k>>
    BY <2>1
  <2>3. n \in DOMAIN d /\ k \in DOMAIN d[n].xts
    OBVIOUS
  <2> QED BY <2>2, <2>3, Place
<1>3. <<last, z2>> \in Places(d)
  BY Place
<1> QED BY <1>1, <1>2, <1>3

(* A receipt added to the last block.                                      *)
Gains(c, e, d) == d = [c EXCEPT ![Len(c)].xts = Append(@, e)]
LEMMA PlacesOfReceipt ==
  ASSUME NEW c \in Seq(Blocks), c # <<>>, NEW e \in ReceiptType, NEW d, Gains(c, e, d),
         NEW z, z = NextPlace(c)
  PROVE  /\ Places(d) = Places(c) \cup {z} /\ d[z[1]].xts[z[2]] = e
         /\ \A p \in Places(c) : d[p[1]].xts[p[2]] = c[p[1]].xts[p[2]]
<1>1. PICK last, q : last = Len(c) /\ q = c[last].xts
  OBVIOUS
<1>2. last \in Nat \ {0} /\ DOMAIN c = 1 .. last /\ c[last] \in Blocks /\ q \in Seq(ReceiptType)
  <2>1. last \in Nat \ {0} /\ DOMAIN c = 1 .. last /\ c[last] \in Blocks
    BY <1>1
  <2> QED BY <1>1, <2>1, BlockTypes
<1>3. PICK z2 : z2 = Len(q) + 1
  OBVIOUS
<1>4. /\ DOMAIN Append(q, e) = 1 .. z2 /\ DOMAIN q = 1 .. z2 - 1 /\ z2 \in Nat \ {0}
      /\ Append(q, e)[z2] = e /\ \A k \in DOMAIN q : Append(q, e)[k] = q[k]
  BY <1>2, <1>3
<1>5. /\ DOMAIN d = DOMAIN c /\ d[last].xts = Append(q, e)
      /\ \A n \in DOMAIN c : n # last => d[n] = c[n]
  BY <1>1, <1>2 DEF Blocks, Gains
<1>6. z = <<last, z2>> /\ z[1] = last /\ z[2] = z2
  BY <1>1, <1>3 DEF NextPlace
<1>7. ASSUME NEW n \in DOMAIN c, NEW k
      PROVE  k \in DOMAIN d[n].xts <=> k \in DOMAIN c[n].xts \/ (n = last /\ k = z2)
  <2>1. CASE n = last
    BY <1>1, <1>4, <1>5, <2>1
  <2> QED BY <1>5, <2>1
<1>8. ASSUME NEW n \in DOMAIN c, NEW k \in DOMAIN c[n].xts PROVE d[n].xts[k] = c[n].xts[k]
  <2>1. CASE n = last
    BY <1>1, <1>4, <1>5, <2>1
  <2> QED BY <1>5, <2>1
<1>9. Places(d) = Places(c) \cup {z}
  <2>1. last \in DOMAIN c /\ DOMAIN d = DOMAIN c /\ z2 \in DOMAIN d[last].xts
    BY <1>2, <1>4, <1>5
  <2> QED BY <1>6, <1>7, <2>1, OneMorePlace
<1>10. d[z[1]].xts[z[2]] = e
  BY <1>4, <1>5, <1>6
<1>11. ASSUME NEW p \in Places(c) PROVE d[p[1]].xts[p[2]] = c[p[1]].xts[p[2]]
  <2>1. PICK n \in DOMAIN c : \E k \in DOMAIN c[n].xts : p = <<n, k>>
    BY Place
  <2>2. PICK k \in DOMAIN c[n].xts : p = <<n, k>>
    BY <2>1
  <2>3. p[1] = n /\ p[2] = k
    BY <2>2
  <2> QED BY <1>8, <2>3
<1> QED BY <1>9, <1>10, <1>11

LEMMA NonceInit == RuntimeInit => NonceInv
<1> SUFFICES ASSUME RuntimeInit PROVE NonceInv
  OBVIOUS
<1>1. chain = <<>> /\ txs = <<>> /\ ledger.nonce = [a \in Accounts |-> 0]
  BY DEF RuntimeInit
<1>2. Places(chain) = {}
  BY <1>1 DEF Places
<1>3. PICK h : h = History(txs, chain)
  OBVIOUS
<1>4. h.at = {} /\ h.signer \in [h.at -> Accounts]
  BY <1>2, <1>3 DEF History
<1>5. NoncesOK(h, ledger.nonce)
  BY <1>1, <1>4 DEF NoncesOK
<1>6. before.chain = chain /\ before.ledger = ledger
  BY DEF RuntimeInit, State
<1> QED BY <1>1, <1>3, <1>5, <1>6 DEF NonceInv

(* Steps after which each of the two chains is one of those before.        *)
LEMMA NoncesStay ==
  ASSUME IInv, NonceInv,
         \/ UNCHANGED <<chain, ledger>>
         \/ chain' = before.chain /\ ledger' = before.ledger,
         UNCHANGED before,
         DOMAIN txs \subseteq DOMAIN txs', \A i \in DOMAIN txs : txs'[i] = txs[i],
         \A i \in DOMAIN txs' : txs'[i].call.signer \in Accounts
  PROVE  NonceInv'
<1>1. \A n \in DOMAIN chain : \A k \in DOMAIN chain[n].xts : chain[n].xts[k].tx \in DOMAIN txs
  BY DEF IInv, ChainOK, SignedFor
<1>2. \A n \in DOMAIN before.chain : \A k \in DOMAIN before.chain[n].xts :
        before.chain[n].xts[k].tx \in DOMAIN txs
  BY DEF IInv, StateOK, ChainOK, SignedFor
<1>3. History(txs', chain) = History(txs, chain)
  BY <1>1, SameHistory
<1>4. History(txs', before.chain) = History(txs, before.chain)
  BY <1>2, SameHistory
<1>5. NoncesOK(History(txs', before.chain), before.ledger.nonce)
  BY <1>4 DEF NonceInv
<1>6. NoncesOK(History(txs', chain'), ledger'.nonce)
  BY <1>3, <1>5 DEF NonceInv
<1> QED BY <1>5, <1>6 DEF NonceInv

LEMMA NoncesApply == ASSUME IInv, NonceInv, NEW i \in DOMAIN txs, ApplyExtrinsic(i) PROVE NonceInv'
<1>1. PICK call, l : call = txs[i].call /\ l = Charged(ledger, call)
  OBVIOUS
<1>2. PICK a, ok : a = call.signer /\ ok = Succeeds(l, call)
  OBVIOUS
<1>3. TxsOK /\ ClockOK(ledger) /\ chain \in Seq(Blocks) /\ chain # <<>> /\ UNCHANGED <<before, txs>>
  BY DEF ApplyExtrinsic, IInv, ChainOK
<1>4. PICK e : e = Receipt(i, l, ok)
  OBVIOUS
<1>5. /\ call \in Calls /\ ClockOK(l) /\ e \in ReceiptType /\ e.tx = i
      /\ chain' = [chain EXCEPT ![Len(chain)].xts = Append(@, e)]
  BY <1>1, <1>2, <1>3, <1>4, ReceiptAdded
<1>6. PICK z, c, d : z = NextPlace(chain) /\ c = chain /\ d = chain'
  OBVIOUS
<1>7. /\ Places(d) = Places(c) \cup {z} /\ d[z[1]].xts[z[2]] = e
      /\ \A p \in Places(c) : d[p[1]].xts[p[2]] = c[p[1]].xts[p[2]]
  <2>1. c \in Seq(Blocks) /\ c # <<>> /\ Gains(c, e, d) /\ z = NextPlace(c)
    BY <1>3, <1>5, <1>6 DEF Gains
  <2> QED BY <1>5, <2>1, PlacesOfReceipt
<1>8. \A p \in Places(c) : Precedes(p, z) /\ ~Precedes(z, p) /\ p # z
  BY <1>3, <1>6, EarlierPlaces
<1>9. ~Precedes(z, z)
  <2>1. Len(chain) \in Nat /\ chain[Len(chain)] \in Blocks
    BY <1>3
  <2>2. Len(chain[Len(chain)].xts) \in Nat
    BY <2>1 DEF Blocks
  <2>3. z[1] = Len(chain) /\ z[2] = Len(chain[Len(chain)].xts) + 1
    BY <1>6 DEF NextPlace
  <2> QED BY <2>1, <2>2, <2>3 DEF Precedes
<1>10. PICK h, j, xs : h = History(txs, chain) /\ j = History(txs', chain') /\ xs = txs
  OBVIOUS
<1>11. xs[i].call.signer = a /\ xs[i].nonce = ledger.nonce[a] /\ a \in Accounts
  BY <1>1, <1>2, <1>10 DEF ApplyExtrinsic, NonceInv
<1>12. NoncesOK(h, ledger.nonce)
  BY <1>10 DEF NonceInv
<1>13. h = History(xs, c) /\ j = History(xs, d)
  BY <1>3, <1>6, <1>10
<1>14. /\ h.at = Places(c) /\ j.at = Places(c) \cup {z}
       /\ j.signer = [p \in j.at |-> j.signer[p]]
       /\ \A p \in j.at : /\ j.signer[p] = xs[d[p[1]].xts[p[2]].tx].call.signer
                           /\ j.nonce[p] = xs[d[p[1]].xts[p[2]].tx].nonce
                           /\ j.reaped[p] = d[p[1]].xts[p[2]].reaped
       /\ \A p \in h.at : /\ h.signer[p] = xs[c[p[1]].xts[p[2]].tx].call.signer
                           /\ h.nonce[p] = xs[c[p[1]].xts[p[2]].tx].nonce
                           /\ h.reaped[p] = c[p[1]].xts[p[2]].reaped
  BY <1>7, <1>13 DEF History
<1>15. ASSUME NEW p \in h.at
       PROVE  j.signer[p] = h.signer[p] /\ j.nonce[p] = h.nonce[p] /\ j.reaped[p] = h.reaped[p]
  <2>1. p \in Places(c) /\ p \in j.at
    BY <1>14
  <2>2. d[p[1]].xts[p[2]] = c[p[1]].xts[p[2]]
    BY <1>7, <2>1
  <2> QED BY <1>14, <2>1, <2>2
<1>16. j.signer[z] = a /\ j.nonce[z] = ledger.nonce[a] /\ j.reaped[z] = e.reaped
  BY <1>5, <1>7, <1>11, <1>14
<1>17. j.signer \in [j.at -> Accounts]
  <2>1. h.signer \in [h.at -> Accounts]
    BY <1>12 DEF NoncesOK
  <2>2. \A p \in j.at : j.signer[p] \in Accounts
    BY <1>11, <1>14, <1>15, <1>16, <2>1
  <2> QED BY <1>14, <2>2
<1>18. ledger'.nonce = [ledger.nonce EXCEPT ![a] = IF e.reaped THEN 0 ELSE ledger.nonce[a] + 1]
  <2>1. l.nonce = [ledger.nonce EXCEPT ![a] = @ + 1] /\ ledger.nonce \in [Accounts -> Nat]
    BY <1>1, <1>2, <1>3, <1>12 DEF Charged, ClockOK, NoncesOK
  <2>2. ledger' = IF ok /\ call.name \in Transfers THEN Transferred(l, call) ELSE l
    BY <1>1, <1>2, Settles
  <2>3. e.reaped = IF ok /\ call.name \in Transfers THEN Movement(l, call).reaped ELSE FALSE
    BY <1>1, <1>4 DEF Receipt, Nothing
  <2>4. CASE ok /\ call.name \in Transfers
    <3>1. ledger'.nonce = [l.nonce EXCEPT ![a] = IF e.reaped THEN 0 ELSE @]
      <4>1. Transferred(l, call).nonce = AfterReaping(l.nonce, call.signer, Movement(l, call).reaped)
        BY <1>5, TransferredFields DEF ClockOK
      <4> QED BY <1>2, <2>2, <2>3, <2>4, <4>1 DEF AfterReaping
    <3> QED BY <1>11, <2>1, <3>1
  <2>5. CASE ~(ok /\ call.name \in Transfers)
    BY <1>11, <2>1, <2>2, <2>3, <2>5
  <2> QED BY <2>4, <2>5
<1>19. Extends(h, j, z, a, ledger.nonce, ledger'.nonce)
  BY <1>8, <1>9, <1>11, <1>14, <1>15, <1>16, <1>17, <1>18 DEF Extends
<1>20. NoncesOK(j, ledger'.nonce)
  BY <1>12, <1>19, NoncesOfLast
<1> QED BY <1>3, <1>10, <1>20 DEF NonceInv

LEMMA NonceStep == IInv /\ NonceInv /\ [RuntimeNext]_runtimeVars => NonceInv'
<1> SUFFICES ASSUME IInv, NonceInv, [RuntimeNext]_runtimeVars PROVE NonceInv'
  OBVIOUS
<1>1. ASSUME NEW call \in Calls, Sign(call) PROVE NonceInv'
  <2> DEFINE x == Extrinsic(call)
  <2>1. txs' = Append(txs, x) /\ x.call.signer \in Accounts
    BY <1>1, RuntimeAssumption DEF Sign, Extrinsic
  <2>2. IsSeq(txs)
    BY DEF IInv, TxsOK
  <2>3. UNCHANGED <<chain, ledger, before>>
    BY <1>1 DEF Sign
  <2> HIDE DEF x
  <2>4. /\ DOMAIN txs \subseteq DOMAIN txs' /\ \A i \in DOMAIN txs : txs'[i] = txs[i]
        /\ \A i \in DOMAIN txs' : i \in DOMAIN txs \/ txs'[i] = x
    BY <2>1, <2>2, AppendSeq
  <2>5. \A i \in DOMAIN txs' : txs'[i].call.signer \in Accounts
    BY <2>1, <2>4 DEF NonceInv
  <2> QED BY <2>3, <2>4, <2>5, NoncesStay
<1>2. ASSUME NEW i \in DOMAIN txs, Resubmit(i) \/ Drop(i) PROVE NonceInv'
  BY <1>2 DEF Resubmit, Drop, NonceInv
<1>3. ASSUME NEW i \in DOMAIN txs, ApplyExtrinsic(i) PROVE NonceInv'
  BY <1>3, NoncesApply
<1>4. ASSUME NEW t \in Clocks, InitializeBlock(t) PROVE NonceInv'
  <2>1. UNCHANGED txs /\ before'.chain = chain /\ before'.ledger = ledger /\ chain \in Seq(Blocks)
    BY <1>4 DEF InitializeBlock, State, IInv, ChainOK
  <2>2. PICK block : block = [hash |-> made + 1, xts |-> <<>>]
    OBVIOUS
  <2>3. ledger'.nonce = ledger.nonce /\ chain' = Append(chain, block) /\ block.xts = <<>>
    BY <1>4, <2>2 DEF InitializeBlock, IInv, ClockOK
  <2>4. /\ DOMAIN chain' = DOMAIN chain \cup {Len(chain) + 1} /\ chain'[Len(chain) + 1] = block
        /\ \A n \in DOMAIN chain : chain'[n] = chain[n]
    BY <2>1, <2>3
  <2>5. Places(chain') = Places(chain)
    <3>1. DOMAIN chain'[Len(chain) + 1].xts = {}
      BY <2>3, <2>4
    <3>2. \A p : p \in Places(chain') <=> p \in Places(chain)
      BY <2>4, <3>1, Place
    <3> QED BY <3>2
  <2>6. History(txs', chain') = History(txs, chain)
    BY <2>1, <2>4, <2>5, SameHistory
  <2> QED BY <2>1, <2>3, <2>6 DEF NonceInv
<1>5. CASE FinalizeBlock
  BY <1>5 DEF FinalizeBlock, NonceInv
<1>6. CASE Retract \/ Restart
  <2>1. UNCHANGED <<txs, before>>
    BY <1>6 DEF Retract, Restart
  <2>2. UNCHANGED <<chain, ledger>> \/ (chain' = before.chain /\ ledger' = before.ledger)
    BY <1>6 DEF Retract, Restart, Restore
  <2> QED BY <2>1, <2>2, NoncesStay DEF NonceInv
<1>7. CASE UNCHANGED runtimeVars
  BY <1>7 DEF runtimeVars, NonceInv
<1> QED BY <1>1, <1>2, <1>3, <1>4, <1>5, <1>6, <1>7 DEF RuntimeNext

(* No extrinsic works twice and none is passed over while its signer's     *)
(* account lives: since it was last reaped, an account's nonces stand on   *)
(* the chain once each and in order, over retractions, restarts and        *)
(* submissions of the same bytes.                                          *)
THEOREM NothingWorksTwice == RuntimeSpec => []IncludedOnce
<1>1. ASSUME NonceInv PROVE IncludedOnce
  <2>1. PICK h : h = History(txs, chain)
    OBVIOUS
  <2>2. h.at = Receipts /\ \A p \in Receipts : h.signer[p] = Signer(p) /\ h.nonce[p] = Nonce(p) /\ h.reaped[p] = At(p).reaped
    BY <2>1 DEF History, Places, Receipts, Signer, Nonce, At
  <2>3. \A p \in Receipts : Reapings(p) = ReapingsOf(h, p)
    BY <2>2 DEF Reapings, ReapingsOf
  <2>4. NoncesOK(h, ledger.nonce)
    BY <1>1, <2>1 DEF NonceInv
  <2>5. /\ \A p, q \in Receipts :
             /\ Precedes(p, q) /\ Signer(p) = Signer(q)
             /\ \A r \in Reapings(p) : ~Precedes(r, q)
             => Nonce(p) < Nonce(q)
    <3> SUFFICES ASSUME NEW p \in Receipts, NEW q \in Receipts, Precedes(p, q), Signer(p) = Signer(q),
                        \A r \in Reapings(p) : ~Precedes(r, q)
                 PROVE  Nonce(p) < Nonce(q)
      OBVIOUS
    <3>1. h.signer[p] = h.signer[q] /\ \A r \in ReapingsOf(h, p) : ~Precedes(r, q)
      BY <2>2, <2>3
    <3>2. h.nonce[p] < h.nonce[q]
      BY <2>2, <2>4, <3>1 DEF NoncesOK
    <3> QED BY <2>2, <3>2
  <2>6. \A p \in Receipts : Reapings(p) = {} => Nonce(p) < ledger.nonce[Signer(p)]
    BY <2>2, <2>3, <2>4 DEF NoncesOK
  <2>7. ASSUME NEW a \in Accounts, NEW i \in 0 .. ledger.nonce[a] - 1
        PROVE  \E p \in Receipts : Signer(p) = a /\ Nonce(p) = i /\ Reapings(p) = {}
    <3>1. PICK p \in h.at : h.signer[p] = a /\ h.nonce[p] = i /\ ReapingsOf(h, p) = {}
      BY <2>4 DEF NoncesOK
    <3> QED BY <2>2, <2>3, <3>1
  <2> QED BY <2>5, <2>6, <2>7 DEF IncludedOnce
<1> QED BY <1>1, InvInit, InvStep, NonceInit, NonceStep, PTL DEF RuntimeSpec

-----------------------------------------------------------------------------
(* Types, of the best block's state and of the one it may go back to.      *)
LedgerOK(l) ==
  /\ {"now", "slot", "balance", "nonce", "issuance", "weight"} \subseteq DOMAIN l
  /\ l.balance \in [Accounts -> Nat] /\ l.nonce \in [Accounts -> Nat]
  /\ l.weight \in 0 .. MaxNormal

CounterOK(value, told) ==
  /\ value \in 0 .. MaxU64 /\ told \in Seq(Event)
  /\ \E k \in 0 .. Len(told) :
       /\ k # 0 => told[k].kind = "CounterReset"
       /\ value = Len(told) - k
       /\ \A j \in k + 1 .. Len(told) : told[j].kind = "CounterIncremented" /\ told[j].new = j - k

TemplateOK(value, told) == value \in T!U32 \cup {None} /\ told \in Seq(T!Event)

TypesOf(l, value, told, value2, told2) ==
  LedgerOK(l) /\ CounterOK(value, told) /\ TemplateOK(value2, told2)

RInv ==
  /\ \A i \in DOMAIN txs : txs[i].call \in Calls
  /\ TypesOf(ledger, counter, log, something, events)
  /\ TypesOf(before.ledger, before.counter, before.log, before.something, before.events)
  /\ building \in BOOLEAN /\ made \in 0 .. MaxBlocks /\ pool \subseteq DOMAIN txs
  /\ \/ ~building /\ chain = before.chain
     \/ chain # <<>> /\ Front(chain) = before.chain

LEMMA FrontElements ==
  ASSUME NEW S, NEW c \in Seq(S), c # <<>>
  PROVE  /\ Front(c) \in Seq(S) /\ Len(Front(c)) = Len(c) - 1 /\ Len(c) \in Nat \ {0}
         /\ \A n \in DOMAIN c : n # Len(c) => n \in DOMAIN Front(c) /\ Front(c)[n] = c[n]
<1>1. Len(c) \in Nat \ {0} /\ DOMAIN c = 1 .. Len(c)
  OBVIOUS
<1>2. CASE Len(c) = 1
  BY <1>1, <1>2 DEF Front
<1>3. CASE Len(c) # 1
  <2>1. /\ SubSeq(c, 1, Len(c) - 1) \in Seq(S) /\ Len(SubSeq(c, 1, Len(c) - 1)) = Len(c) - 1
        /\ \A n \in 1 .. Len(c) - 1 : SubSeq(c, 1, Len(c) - 1)[n] = c[n]
    BY <1>1, <1>3, SubSeqProperties
  <2> QED BY <1>1, <2>1 DEF Front
<1> QED BY <1>2, <1>3

LEMMA FrontOfAppended ==
  ASSUME NEW S, NEW c \in Seq(S), NEW e \in S
  PROVE  Append(c, e) # <<>> /\ Front(Append(c, e)) = c
<1> DEFINE d == Append(c, e)
<1>1. d \in Seq(S) /\ d # <<>> /\ Len(d) = Len(c) + 1 /\ Len(c) \in Nat /\ \A n \in 1 .. Len(c) : d[n] = c[n]
  OBVIOUS
<1> HIDE DEF d
<1>2. /\ Front(d) \in Seq(S) /\ Len(Front(d)) = Len(c)
      /\ \A n \in 1 .. Len(c) : Front(d)[n] = d[n]
  BY <1>1, FrontElements
<1>3. Front(d) = c
  BY <1>1, <1>2, SeqEqual
<1> QED BY <1>1, <1>3 DEF d

LEMMA TypesInit == RuntimeInit => RInv
<1> SUFFICES ASSUME RuntimeInit PROVE RInv
  OBVIOUS
<1>1. LedgerOK(ledger)
  BY WeightBounds, RuntimeAssumption DEF RuntimeInit, LedgerOK
<1>2. CounterOK(counter, log)
  BY CounterInit DEF RuntimeInit, CounterOK, TypeOK, EventsAccountForCounter
<1>3. TemplateOK(something, events)
  BY DEF RuntimeInit, T!Init, TemplateOK
<1>4. before = State
  BY DEF RuntimeInit
<1>5. TypesOf(before.ledger, before.counter, before.log, before.something, before.events)
  BY <1>1, <1>2, <1>3, <1>4 DEF TypesOf, State
<1>6. before.chain = chain
  BY <1>4 DEF State
<1>7. 0 \in 0 .. MaxBlocks
  BY RuntimeAssumption
<1>8. TypesOf(ledger, counter, log, something, events)
  BY <1>1, <1>2, <1>3 DEF TypesOf
<1>9. txs = <<>> /\ pool = {} /\ building = FALSE /\ made = 0
  BY DEF RuntimeInit
<1>10. (\A i \in DOMAIN txs : txs[i].call \in Calls) /\ pool \subseteq DOMAIN txs
  BY <1>9
<1>11. building \in BOOLEAN /\ made \in 0 .. MaxBlocks /\ ~building /\ chain = before.chain
  BY <1>6, <1>7, <1>9
<1> QED BY <1>5, <1>8, <1>10, <1>11 DEF RInv

(* The charge leaves the signer the deposit.                               *)
LEMMA ChargeTypes ==
  ASSUME NEW l, LedgerOK(l), NEW call \in Calls,
         l.balance[call.signer] >= Fee(call) + ExistentialDeposit,
         l.weight + Weight(call) <= MaxNormal
  PROVE  LedgerOK(Charged(l, call)) /\ Charged(l, call).balance[call.signer] >= ExistentialDeposit
<1> DEFINE a == call.signer
           m == Charged(l, call)
<1>1. /\ a \in Accounts /\ Fee(call) \in Nat /\ Weight(call) \in Nat /\ MaxNormal \in Nat
      /\ ExistentialDeposit \in Nat
  BY WeightBounds, RuntimeAssumption
<1>2. /\ m.balance = [l.balance EXCEPT ![a] = @ - Fee(call)]
      /\ m.nonce = [l.nonce EXCEPT ![a] = @ + 1] /\ m.weight = l.weight + Weight(call)
      /\ DOMAIN m = DOMAIN l
  BY DEF Charged, LedgerOK
<1> HIDE DEF a, m
<1>3. l.balance[a] \in Nat /\ l.nonce[a] \in Nat /\ l.weight \in Nat
  BY <1>1 DEF LedgerOK
<1>4. l.balance[a] - Fee(call) \in Nat /\ l.balance[a] - Fee(call) >= ExistentialDeposit
  BY <1>1, <1>3 DEF a
<1>5. m.weight \in 0 .. MaxNormal
  BY <1>1, <1>2, <1>3
<1>6. m.balance[a] = l.balance[a] - Fee(call)
  BY <1>1, <1>2 DEF LedgerOK
<1> QED BY <1>1, <1>2, <1>3, <1>4, <1>5, <1>6 DEF LedgerOK, a, m

(* What a transfer that is allowed moves: of a payer that lives on, all    *)
(* but the deposit at most, of one that is reaped everything.              *)
Moves(l, call, m) == m = Movement(l, call)

LEMMA MovementFacts ==
  ASSUME NEW l, l.balance \in [Accounts -> Nat], NEW call \in Calls, call.name \in Transfers,
         TransferAllowed(l, call), l.balance[call.signer] >= ExistentialDeposit,
         NEW m, Moves(l, call, m)
  PROVE  /\ m.moved \in Nat /\ m.dust \in Nat /\ m.reaped \in BOOLEAN
         /\ call.signer = call.dest => m.moved = 0 /\ m.dust = 0 /\ ~m.reaped
         /\ m.reaped => l.balance[call.signer] = m.moved + m.dust
         /\ ~m.reaped => l.balance[call.signer] >= m.moved + ExistentialDeposit /\ m.dust = 0
         /\ m.moved = 0 \/ l.balance[call.dest] + m.moved >= ExistentialDeposit
<1>1. PICK b, d, v, ed : /\ b = l.balance[call.signer] /\ d = l.balance[call.dest]
                        /\ v = Amount(l, call) /\ ed = ExistentialDeposit
  OBVIOUS
<1>2. b \in Nat /\ d \in Nat /\ ed \in Nat \ {0} /\ b >= ed
  BY <1>1, CallTypes
<1>3. v \in Nat
  <2>1. CASE call.name = "transfer_all"
    <3>1. v = b - (IF call.keep_alive THEN ed ELSE 0)
      BY <1>1, <2>1 DEF Amount
    <3> QED BY <1>2, <3>1
  <2>2. CASE call.name # "transfer_all"
    BY <1>1, <2>2, CallTypes DEF Amount
  <2> QED BY <2>1, <2>2
<1>4. v = 0 \/ (v <= b /\ d + v >= ed)
  <2>1. \/ v = 0
        \/ (IF KeepsAlive(call) THEN b - v >= ed ELSE b - v >= 0) /\ d + v >= ed
    BY <1>1 DEF TransferAllowed
  <2> QED BY <1>2, <1>3, <2>1
<1>5. CASE call.signer = call.dest
  <2>1. m = Nothing
    BY <1>5 DEF Movement, Moves
  <2> QED BY <1>1, <1>2, <1>5, <2>1 DEF Nothing
<1>6. CASE call.signer # call.dest
  <2>0. m.reaped \in BOOLEAN
    <3>1. \A x \in Accounts : l.balance[x] \in Nat
      OBVIOUS
    <3>2. l.balance \in [Accounts -> Int]
      BY <3>1
    <3>3. Movement(l, call) \in [moved: Int, dust: Int, reaped: BOOLEAN]
      BY <3>2, MovementTypes
    <3> QED BY <3>3 DEF Moves
  <2>1. m = [moved |-> v, dust |-> IF b - v < ed THEN b - v ELSE 0, reaped |-> b - v < ed]
    BY <1>1, <1>6 DEF Movement, Moves
  <2>2. CASE b - v < ed
    <3>1. m.moved = v /\ m.dust = b - v /\ m.reaped
      BY <2>1, <2>2
    <3> QED BY <1>1, <1>2, <1>3, <1>4, <1>6, <2>0, <2>2, <3>1
  <2>3. CASE ~(b - v < ed)
    <3>1. m.moved = v /\ m.dust = 0 /\ ~m.reaped
      BY <2>1, <2>3
    <3> QED BY <1>1, <1>2, <1>3, <1>4, <1>6, <2>0, <2>3, <3>1
  <2> QED BY <2>2, <2>3
<1> QED BY <1>5, <1>6

(* The balances after a transfer.                                          *)
LEMMA TransferredBalance ==
  ASSUME NEW l, LedgerOK(l), NEW call \in Calls, call.name \in Transfers,
         TransferAllowed(l, call), l.balance[call.signer] >= ExistentialDeposit,
         NEW m, Moves(l, call, m), NEW c, c = Credited(Debited(l.balance, call.signer, m), call.dest, m)
  PROVE  /\ c \in [Accounts -> Nat]
         /\ call.signer = call.dest => c = l.balance
         /\ call.signer # call.dest =>
              /\ c[call.signer] = l.balance[call.signer] - m.moved - m.dust
              /\ c[call.dest] = l.balance[call.dest] + m.moved
         /\ \A x \in Accounts : x # call.signer /\ x # call.dest => c[x] = l.balance[x]
<1>1. /\ l.balance \in [Accounts -> Nat] /\ call.signer \in Accounts /\ call.dest \in Accounts
      /\ ExistentialDeposit \in Nat \ {0}
  BY CallTypes DEF LedgerOK
<1>2. /\ m.moved \in Nat /\ m.dust \in Nat /\ m.reaped \in BOOLEAN
      /\ call.signer = call.dest => m.moved = 0 /\ m.dust = 0 /\ ~m.reaped
      /\ m.reaped => l.balance[call.signer] = m.moved + m.dust
      /\ ~m.reaped => l.balance[call.signer] >= m.moved + ExistentialDeposit /\ m.dust = 0
  BY <1>1, MovementFacts
<1>3. PICK s, d, b : s = call.signer /\ d = call.dest /\ b = l.balance
  OBVIOUS
<1>4. /\ s \in Accounts /\ d \in Accounts /\ b \in [Accounts -> Nat]
      /\ s = d => m.moved = 0 /\ m.dust = 0 /\ ~m.reaped
      /\ m.reaped => b[s] = m.moved + m.dust
      /\ ~m.reaped => b[s] >= m.moved + ExistentialDeposit /\ m.dust = 0
  BY <1>1, <1>2, <1>3
<1>5. PICK paid : paid = Debited(b, s, m)
  OBVIOUS
<1>6. c = [paid EXCEPT ![d] = @ + m.moved]
  BY <1>3, <1>5 DEF Credited
<1>7. b[s] \in Nat /\ b[s] - m.moved - m.dust \in Nat
  BY <1>1, <1>2, <1>4
<1>8. paid \in [Accounts -> Nat] /\ paid[s] = b[s] - m.moved - m.dust /\ \A x \in Accounts \ {s} : paid[x] = b[x]
  BY <1>4, <1>5, <1>7 DEF Debited
<1>9. /\ c \in [Accounts -> Nat] /\ c[d] = paid[d] + m.moved
      /\ \A x \in Accounts \ {d} : c[x] = paid[x]
  BY <1>2, <1>4, <1>6, <1>8
<1>10. ASSUME s = d PROVE c = b
  <2>1. ASSUME NEW x \in Accounts PROVE c[x] = b[x]
    <3>1. b[x] \in Nat /\ m.moved = 0 /\ m.dust = 0
      BY <1>4, <1>10
    <3>2. paid[x] = b[x]
      BY <1>7, <1>8, <3>1
    <3> QED BY <1>9, <3>1, <3>2
  <2> QED BY <1>4, <1>9, <2>1
<1>11. s # d => c[s] = b[s] - m.moved - m.dust /\ c[d] = b[d] + m.moved
  BY <1>4, <1>8, <1>9
<1>12. \A x \in Accounts : x # s /\ x # d => c[x] = b[x]
  BY <1>8, <1>9
<1> QED BY <1>3, <1>9, <1>10, <1>11, <1>12

LEMMA TransferTypes ==
  ASSUME NEW l, LedgerOK(l), NEW call \in Calls, call.name \in Transfers,
         TransferAllowed(l, call), l.balance[call.signer] >= ExistentialDeposit
  PROVE  LedgerOK(Transferred(l, call))
<1>1. PICK m : m = Movement(l, call)
  OBVIOUS
<1>2. PICK t : t = Transferred(l, call)
  OBVIOUS
<1>3. PICK c : c = Credited(Debited(l.balance, call.signer, m), call.dest, m)
  OBVIOUS
<1>4. /\ DOMAIN Transferred(l, call) = DOMAIN l /\ Transferred(l, call).weight = l.weight
      /\ Transferred(l, call).balance
           = Credited(Debited(l.balance, call.signer, Movement(l, call)), call.dest, Movement(l, call))
      /\ Transferred(l, call).nonce = AfterReaping(l.nonce, call.signer, Movement(l, call).reaped)
  BY TransferredFields DEF LedgerOK
<1>5. c \in [Accounts -> Nat]
  <2>1. Moves(l, call, m)
    BY <1>1 DEF Moves
  <2> QED BY <1>3, <2>1, TransferredBalance
<1>6. AfterReaping(l.nonce, call.signer, m.reaped) \in [Accounts -> Nat]
  <2>1. l.nonce \in [Accounts -> Nat] /\ call.signer \in Accounts
    BY CallTypes DEF LedgerOK
  <2> QED BY <2>1 DEF AfterReaping
<1>7. /\ DOMAIN t = DOMAIN l /\ t.weight = l.weight /\ t.balance = c
      /\ t.nonce = AfterReaping(l.nonce, call.signer, m.reaped)
  BY <1>1, <1>2, <1>3, <1>4
<1> QED BY <1>2, <1>5, <1>6, <1>7 DEF LedgerOK

(* The pallets after a call.                                               *)
LEMMA DispatchTypes ==
  ASSUME NEW l, NEW call \in Calls,
         CounterOK(counter, log), TemplateOK(something, events), Dispatch(l, call)
  PROVE  CounterOK(counter', log') /\ TemplateOK(something', events')
<1>1. call.signer \in Accounts /\ (call.name = "do_something" => call.value \in T!U32)
  BY CallTypes
<1>2. TypeOK /\ EventsAccountForCounter /\ T!TypeOK
  BY DEF CounterOK, TemplateOK, TypeOK, EventsAccountForCounter, T!TypeOK
<1>3. ASSUME TypeOK', EventsAccountForCounter' PROVE CounterOK(counter', log')
  BY <1>3 DEF CounterOK, TypeOK, EventsAccountForCounter
<1>4. ASSUME T!TypeOK' PROVE TemplateOK(something', events')
  BY <1>4 DEF TemplateOK, T!TypeOK
<1>5. CASE call.name = "increment"
  <2>1. Increment(call.signer) /\ UNCHANGED <<something, events>>
    BY <1>5 DEF Dispatch, Transfers
  <2> QED BY <1>1, <1>2, <1>3, <2>1, IncrementCounts
<1>6. CASE call.name = "reset"
  <2>1. Reset(call.signer) /\ UNCHANGED <<something, events>>
    BY <1>6 DEF Dispatch, Transfers
  <2> QED BY <1>1, <1>2, <1>3, <2>1, ResetCounts
<1>7. CASE call.name = "do_something"
  <2>1. T!DoSomething(call.signer, call.value) /\ UNCHANGED <<counter, log>>
    BY <1>7 DEF Dispatch, vars, Transfers
  <2> QED BY <1>1, <1>2, <1>4, <1>7, <2>1, StoringTypes
<1>8. CASE call.name = "cause_error"
  <2>1. T!CauseError /\ UNCHANGED <<counter, log>>
    BY <1>8 DEF Dispatch, vars, Transfers
  <2> QED BY <1>2, <1>4, <2>1, SteppingTypes
<1>9. CASE call.name \in {"remark"} \cup Transfers
  BY <1>9 DEF Dispatch, pallets, Transfers
<1> QED BY <1>5, <1>6, <1>7, <1>8, <1>9, CallTypes DEF CallNames

LEMMA ApplyTypes == ASSUME IInv, RInv, NEW i \in DOMAIN txs, ApplyExtrinsic(i) PROVE RInv'
<1>1. PICK call, l : call = txs[i].call /\ l = Charged(ledger, call)
  OBVIOUS
<1>2. call \in Calls /\ LedgerOK(ledger) /\ CounterOK(counter, log) /\ TemplateOK(something, events)
  BY <1>1 DEF RInv, TypesOf
<1>3. PICK n, e : n = Len(chain) /\ e = Receipt(i, l, Succeeds(l, call))
  OBVIOUS
<1>4. /\ ledger.balance[call.signer] >= Fee(call) + ExistentialDeposit
      /\ ledger.weight + Weight(call) <= MaxNormal
      /\ UNCHANGED <<building, before, txs, pool, made>> /\ building
      /\ chain' = [chain EXCEPT ![n].xts = Append(@, e)]
  BY <1>1, <1>3 DEF ApplyExtrinsic, TxExtension, CanPay, State
<1>5. LedgerOK(l) /\ l.balance[call.signer] >= ExistentialDeposit
  BY <1>1, <1>2, <1>4, ChargeTypes
<1>6. LedgerOK(ledger')
  <2>1. ledger' = IF Succeeds(l, call) /\ call.name \in Transfers THEN Transferred(l, call) ELSE l
    BY <1>1, Settles
  <2>2. Succeeds(l, call) /\ call.name \in Transfers => TransferAllowed(l, call)
    BY DEF Succeeds, Transfers
  <2> QED BY <1>2, <1>5, <2>1, <2>2, TransferTypes
<1>7. CounterOK(counter', log') /\ TemplateOK(something', events')
  <2>1. CASE Succeeds(l, call)
    <3>1. Dispatch(l, call)
      BY <1>1, <2>1 DEF ApplyExtrinsic
    <3> QED BY <1>2, <3>1, DispatchTypes
  <2>2. CASE ~Succeeds(l, call)
    <3>1. UNCHANGED pallets
      BY <1>1, <2>2 DEF ApplyExtrinsic
    <3> QED BY <1>2, <3>1 DEF pallets
  <2> QED BY <2>1, <2>2
<1>8. chain' # <<>> /\ Front(chain') = before.chain
  <2>1. chain \in Seq(Blocks) /\ chain # <<>> /\ Front(chain) = before.chain
    BY <1>4 DEF IInv, ChainOK, RInv
  <2>2. chain' # <<>> /\ Len(chain') = Len(chain) /\ \A k \in 1 .. n - 1 : chain'[k] = chain[k]
    BY <1>3, <1>4, <2>1
  <2>3. SubSeq(chain', 1, n - 1) = SubSeq(chain, 1, n - 1)
    BY <1>3, <2>1, <2>2
  <2>4. Front(chain') = Front(chain)
    BY <1>3, <2>2, <2>3 DEF Front
  <2> QED BY <2>1, <2>2, <2>4
<1> QED BY <1>4, <1>6, <1>7, <1>8 DEF RInv, TypesOf

LEMMA InitializeTypes == ASSUME IInv, RInv, NEW t \in Clocks, InitializeBlock(t) PROVE RInv'
<1> DEFINE block == [hash |-> made + 1, xts |-> <<>>]
<1>1. /\ UNCHANGED <<counter, log, txs, pool, something>> /\ events' = <<>> /\ building' = TRUE
      /\ before' = State /\ made < MaxBlocks /\ made' = made + 1 /\ chain' = Append(chain, block)
      /\ ledger' = [ledger EXCEPT !.now = InherentTime(t), !.slot = SlotOf(t), !.weight = 0]
  BY DEF InitializeBlock, T!NextBlock
<1>2. TypesOf(ledger, counter, log, something, events) /\ made' \in 0 .. MaxBlocks
  BY <1>1, RuntimeAssumption DEF RInv
<1>3. LedgerOK(ledger')
  <2>1. 0 \in 0 .. MaxNormal
    BY WeightBounds
  <2>2. /\ ledger'.balance = ledger.balance /\ ledger'.nonce = ledger.nonce /\ ledger'.weight = 0
        /\ DOMAIN ledger' = DOMAIN ledger
    BY <1>1, <1>2 DEF TypesOf, LedgerOK
  <2> QED BY <1>2, <2>1, <2>2 DEF TypesOf, LedgerOK
<1>4. TypesOf(ledger', counter', log', something', events')
  BY <1>1, <1>2, <1>3 DEF TypesOf, TemplateOK
<1>5. TypesOf(before'.ledger, before'.counter, before'.log, before'.something, before'.events)
  BY <1>1, <1>2 DEF State
<1>6. chain' # <<>> /\ Front(chain') = before'.chain
  <2>1. chain \in Seq(Blocks) /\ block \in Blocks
    BY DEF IInv, ChainOK, Blocks
  <2>2. before'.chain = chain
    BY <1>1 DEF State
  <2> HIDE DEF block
  <2> QED BY <1>1, <2>1, <2>2, FrontOfAppended
<1>7. /\ \A i \in DOMAIN txs' : txs'[i].call \in Calls
      /\ pool' \subseteq DOMAIN txs' /\ building' \in BOOLEAN
  BY <1>1 DEF RInv
<1> HIDE DEF block
<1> QED BY <1>2, <1>4, <1>5, <1>6, <1>7 DEF RInv

(* What goes back to the state before the last block.                      *)
LEMMA RestoreTypes ==
  ASSUME RInv, Restore, UNCHANGED <<before, txs, made>>, building' = FALSE, pool' \subseteq DOMAIN txs
  PROVE  RInv'
<1>1. TypesOf(ledger', counter', log', something', events') /\ chain' = before'.chain
  BY DEF Restore, RInv
<1> QED BY <1>1 DEF RInv

LEMMA SameTypes ==
  ASSUME RInv, UNCHANGED <<pallets, chain, ledger, before, txs, made>>, building' \in BOOLEAN,
         pool' \subseteq DOMAIN txs, building' => building
  PROVE  RInv'
<1>1. TypesOf(ledger', counter', log', something', events')
  BY DEF RInv, pallets
<1> QED BY <1>1 DEF RInv

LEMMA LastInBlock == ASSUME IInv, chain # <<>> PROVE InBlock(Last(chain)) \subseteq DOMAIN txs
<1>1. Len(chain) \in DOMAIN chain
  BY DEF IInv, ChainOK
<1> QED BY <1>1 DEF IInv, ChainOK, SignedFor, InBlock, Last

LEMMA TypesStep == IInv /\ RInv /\ [RuntimeNext]_runtimeVars => RInv'
<1> SUFFICES ASSUME IInv, RInv, [RuntimeNext]_runtimeVars PROVE RInv'
  OBVIOUS
<1>1. ASSUME NEW call \in Calls, Sign(call) PROVE RInv'
  <2> DEFINE x == Extrinsic(call)
  <2>1. /\ txs' = Append(txs, x) /\ pool' = pool \cup {Len(txs) + 1} /\ x.call \in Calls
        /\ UNCHANGED <<pallets, chain, ledger, building, before, made>>
    BY <1>1 DEF Sign, Extrinsic
  <2>2. IsSeq(txs)
    BY DEF IInv, TxsOK
  <2> HIDE DEF x
  <2>3. (\A i \in DOMAIN txs' : txs'[i].call \in Calls) /\ pool' \subseteq DOMAIN txs'
    <3>1. /\ DOMAIN txs' = 1 .. Len(txs) + 1 /\ DOMAIN txs = 1 .. Len(txs) /\ Len(txs) \in Nat
          /\ \A i \in DOMAIN txs : txs'[i] = txs[i]
          /\ txs'[Len(txs) + 1] = x
      BY <2>1, <2>2, AppendSeq
    <3>2. \A i \in DOMAIN txs' : i \in DOMAIN txs \/ i = Len(txs) + 1
      BY <3>1
    <3> QED BY <2>1, <3>1, <3>2 DEF RInv
  <2>4. TypesOf(ledger', counter', log', something', events')
    BY <2>1 DEF RInv, pallets
  <2> QED BY <2>1, <2>3, <2>4 DEF RInv
<1>2. ASSUME NEW i \in DOMAIN txs, Resubmit(i) \/ Drop(i) PROVE RInv'
  BY <1>2, SameTypes DEF Resubmit, Drop, RInv
<1>3. ASSUME NEW i \in DOMAIN txs, ApplyExtrinsic(i) PROVE RInv'
  BY <1>3, ApplyTypes
<1>4. ASSUME NEW t \in Clocks, InitializeBlock(t) PROVE RInv'
  BY <1>4, InitializeTypes
<1>5. CASE FinalizeBlock
  BY <1>5, SameTypes DEF FinalizeBlock, RInv
<1>6. CASE Retract
  <2>1. pool' \subseteq DOMAIN txs /\ Restore /\ UNCHANGED <<before, txs, made>> /\ building' = FALSE
    BY <1>6, LastInBlock DEF Retract, Resubmitted, RInv
  <2> QED BY <2>1, RestoreTypes
<1>7. CASE Restart
  <2>1. CASE building
    BY <1>7, <2>1, RestoreTypes DEF Restart
  <2>2. CASE ~building
    BY <1>7, <2>2, SameTypes DEF Restart
  <2> QED BY <2>1, <2>2
<1>8. CASE UNCHANGED runtimeVars
  BY <1>8, SameTypes DEF runtimeVars, pallets, RInv
<1> QED BY <1>1, <1>2, <1>3, <1>4, <1>5, <1>6, <1>7, <1>8 DEF RuntimeNext

(* Whatever is charged, transferred, retracted or lost, balances stay      *)
(* naturals, a block stays within its weight, and values in their range.   *)
THEOREM RuntimeTypes == RuntimeSpec => []RuntimeTypeOK
<1>1. RInv => RuntimeTypeOK
  BY DEF RInv, TypesOf, LedgerOK, CounterOK, TemplateOK, RuntimeTypeOK, TypeOK, T!TypeOK
<1> QED BY <1>1, InvInit, InvStep, TypesInit, TypesStep, PTL DEF RuntimeSpec

(* Counting the events since the last reset gives the counter, although    *)
(* blocks are retracted with their events and calls at the limit fail.     *)
THEOREM EventsSurviveRetraction == RuntimeSpec => []EventsAccountForCounter
<1>1. RInv => EventsAccountForCounter
  BY DEF RInv, TypesOf, CounterOK, EventsAccountForCounter
<1> QED BY <1>1, InvInit, InvStep, TypesInit, TypesStep, PTL DEF RuntimeSpec

=============================================================================

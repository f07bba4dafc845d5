-------------------------- MODULE WebPagesProofs --------------------------
(* The two pages of the web application: types, the bound of what the      *)
(* chain was told, and the timer behind "included", for any number of      *)
(* accounts, transactions and queries and whatever fails.                  *)
EXTENDS MCWebPages, FiniteSetTheorems, SequenceTheorems, TLAPS

(* The transactions a block holds, of an account.                          *)
InBlocks == {"included", "timer", "reloaded"}
Written(a) == {t \in DOMAIN txs : txs[t].account = a /\ txs[t].at \in InBlocks}

WInv ==
  /\ TypeOK
  /\ Len(txs) <= MaxTxs
  /\ \A a \in Accounts : version[a] <= Cardinality(Written(a))
  /\ IncludedHasTimer

LEMMA RemoveAtType ==
  ASSUME NEW S, NEW s \in Seq(S), NEW i \in DOMAIN s
  PROVE  RemoveAt(s, i) \in Seq(S)
<1>1. i \in 1 .. Len(s) /\ Len(s) \in Nat
  OBVIOUS
<1>2. \A j \in 1 .. i - 1 : s[j] \in S
  BY <1>1
<1>3. \A j \in i + 1 .. Len(s) : s[j] \in S
  BY <1>1
<1>4. SubSeq(s, 1, i - 1) \in Seq(S)
  BY <1>1, <1>2, SubSeqProperties
<1>5. SubSeq(s, i + 1, Len(s)) \in Seq(S)
  BY <1>1, <1>3, SubSeqProperties
<1> QED BY <1>4, <1>5, ConcatProperties DEF RemoveAt

LEMMA UpTo == ASSUME NEW n \in Nat PROVE IsFiniteSet(1 .. n) /\ Cardinality(1 .. n) = n
BY FS_Interval

LEMMA WrittenBounds ==
  ASSUME WInv, NEW a \in Accounts
  PROVE  IsFiniteSet(Written(a)) /\ Cardinality(Written(a)) \in 0 .. MaxTxs
<1>1. Len(txs) \in Nat /\ DOMAIN txs = 1 .. Len(txs)
  BY DEF WInv, TypeOK
<1>2. IsFiniteSet(1 .. Len(txs)) /\ Cardinality(1 .. Len(txs)) = Len(txs)
  BY <1>1, UpTo
<1>3. Written(a) \in SUBSET (1 .. Len(txs))
  BY <1>1 DEF Written
<1>4. IsFiniteSet(Written(a)) /\ Cardinality(Written(a)) <= Len(txs)
  BY <1>2, <1>3, FS_Subset
<1>5. Cardinality(Written(a)) \in Nat
  BY <1>4, FS_CardinalityType
<1> QED BY <1>1, <1>4, <1>5, PageAssumption DEF WInv

(* Steps that leave the transactions and the chain alone.                  *)
LEMMA SameTxs ==
  ASSUME WInv, TypeOK', UNCHANGED <<txs, version>>, txStatus' = txStatus \/ txStatus' # "included"
  PROVE  WInv'
<1>1. \A a \in Accounts : Written(a)' = Written(a)
  BY DEF Written
<1>2. IncludedHasTimer'
  BY DEF WInv, IncludedHasTimer
<1> QED BY <1>1, <1>2 DEF WInv

(* What a page asks for are queries.                                       *)
LEMMA AskedTypes ==
  ASSUME TypeOK, NEW a \in Accounts, NEW kind \in {"profile", "balance"}
  PROVE  Asked(kind, a) \in Query /\ Append(pending, Asked(kind, a)) \in Seq(Query)
<1>1. Asked(kind, a) \in Query
  BY DEF Asked, Query
<1> QED BY <1>1 DEF TypeOK

LEMMA EffectsTypes ==
  ASSUME TypeOK, NEW newApi, NEW a \in Accounts \cup {None}, Effects(newApi, a)
  PROVE  pending' \in Seq(Query)
<1>1. CASE newApi = "up" /\ a # None
  <2> DEFINE two == <<Asked("profile", a), Asked("balance", a)>>
  <2>1. two \in Seq(Query)
    BY <1>1, AskedTypes
  <2>2. pending' = pending \o two
    BY <1>1 DEF Effects
  <2> HIDE DEF two
  <2> QED BY <2>1, <2>2, ConcatProperties DEF TypeOK
<1>2. CASE ~(newApi = "up" /\ a # None)
  BY <1>2 DEF Effects, TypeOK
<1> QED BY <1>1, <1>2

LEMMA HookSteps ==
  ASSUME WInv, ApiSettles \/ ConnectWallet \/ WalletAnswers \/ \E a \in Accounts : Select(a)
  PROVE  WInv'
<1>1. UNCHANGED <<page, txs, version>>
  BY DEF ApiSettles, ConnectWallet, WalletAnswers, Select
<1>2. /\ api' \in {"connecting", "up", "failed"} /\ wallet' \in {"idle", "asking", "connected"}
      /\ selected' \in Accounts \cup {None}
  BY PageAssumption DEF WInv, TypeOK, ApiSettles, ConnectWallet, WalletAnswers, Select
<1>3. pending' \in Seq(Query)
  <2>1. selected \in Accounts \cup {None} /\ First \in Accounts \cup {None} /\ TypeOK
    BY PageAssumption DEF WInv, TypeOK
  <2>2. CASE ApiSettles
    BY <2>1, <2>2, EffectsTypes DEF ApiSettles
  <2>3. CASE ConnectWallet
    BY <2>1, <2>3 DEF ConnectWallet, TypeOK
  <2>4. CASE WalletAnswers
    <3>1. Effects(api, First) \/ pending' = pending
      BY <2>4 DEF WalletAnswers
    <3> QED BY <2>1, <3>1, EffectsTypes DEF TypeOK
  <2>5. ASSUME NEW a \in Accounts, Select(a) PROVE pending' \in Seq(Query)
    BY <2>1, <2>5, EffectsTypes DEF Select
  <2> QED BY <2>2, <2>3, <2>4, <2>5
<1>4. TypeOK'
  BY <1>1, <1>2, <1>3 DEF WInv, TypeOK, page
<1> QED BY <1>1, <1>4, SameTxs DEF page

LEMMA PollStep == ASSUME WInv, PollBalance PROVE WInv'
<1>1. selected \in Accounts /\ TypeOK
  BY DEF WInv, TypeOK, PollBalance
<1>2. pending' \in Seq(Query)
  BY <1>1, AskedTypes DEF PollBalance, Polled
<1>3. UNCHANGED <<hook, page, txs, version>>
  BY DEF PollBalance
<1>4. TypeOK'
  BY <1>1, <1>2, <1>3 DEF TypeOK, hook, page
<1> QED BY <1>3, <1>4, SameTxs DEF page

LEMMA AnswerSteps ==
  ASSUME WInv, NEW i \in DOMAIN pending, NodeReads(i) \/ Arrives(i) \/ BalanceFails(i)
  PROVE  WInv'
<1>1. TypeOK /\ pending \in Seq(Query) /\ pending[i] \in Query
  BY DEF WInv, TypeOK
<1>2. CASE NodeReads(i)
  <2> DEFINE q == [pending[i] EXCEPT !.value = version[pending[i].account]]
  <2>1. pending[i].account \in Accounts
    BY <1>1 DEF Query
  <2>2. version[pending[i].account] \in Nat
    BY <1>1, <2>1 DEF TypeOK
  <2>3. q \in Query
    <3> DEFINE v == version[pending[i].account]
    <3> HIDE DEF v
    <3>1. \A p \in Query : v \in Nat => [p EXCEPT !.value = v] \in Query
      BY DEF Query
    <3> QED BY <1>1, <2>2, <3>1 DEF v
  <2>4. pending' = [pending EXCEPT ![i] = q]
    BY <1>2 DEF NodeReads
  <2> HIDE DEF q
  <2>5. pending' \in Seq(Query)
    BY <1>1, <2>3, <2>4
  <2>6. UNCHANGED <<hook, page, txs, version>>
    BY <1>2 DEF NodeReads
  <2>7. TypeOK'
    BY <1>1, <2>5, <2>6 DEF TypeOK, hook, page
  <2> QED BY <2>6, <2>7, SameTxs DEF page
<1>3. CASE Arrives(i) \/ BalanceFails(i)
  <2>1. pending' \in Seq(Query)
    BY <1>1, <1>3, RemoveAtType DEF Arrives, ProfileArrives, BalanceArrives, BalanceFails
  <2>2. UNCHANGED <<hook, txStatus, txs, version>>
    BY <1>3 DEF Arrives, ProfileArrives, BalanceArrives, BalanceFails, page
  <2>3. balance' \in Accounts \cup {None}
    BY <1>1, <1>3 DEF Arrives, ProfileArrives, BalanceArrives, BalanceFails, page, TypeOK, Query
  <2>4. profile' \in Profile \cup {None} /\ failed' \in BOOLEAN
    <3>1. CASE ProfileArrives(i)
      <4>1. pending[i].account \in Accounts /\ pending[i].value \in Nat
        BY <1>1, <3>1 DEF ProfileArrives, Query
      <4>2. Shown(pending[i]) \in Profile \cup {None}
        BY <4>1 DEF Shown, Profile
      <4> QED BY <1>1, <3>1, <4>2 DEF ProfileArrives, TypeOK
    <3>2. CASE BalanceArrives(i) \/ BalanceFails(i)
      BY <1>1, <3>2 DEF BalanceArrives, BalanceFails, page, TypeOK
    <3> QED BY <1>3, <3>1, <3>2 DEF Arrives
  <2>5. TypeOK'
    BY <1>1, <2>1, <2>2, <2>3, <2>4 DEF TypeOK, hook
  <2> QED BY <2>2, <2>5, SameTxs
<1> QED BY <1>2, <1>3

(* A transaction that moves on: it stays in its block if it is in one.     *)
LEMMA TxMoves ==
  ASSUME WInv, NEW t \in DOMAIN txs, NEW x \in Tx, txs' = [txs EXCEPT ![t] = x],
         x.account = txs[t].account, txs[t].at \in InBlocks => x.at \in InBlocks
  PROVE  /\ txs' \in Seq(Tx) /\ Len(txs') = Len(txs) /\ DOMAIN txs' = DOMAIN txs
         /\ txs'[t] = x /\ \A u \in DOMAIN txs : u # t => txs'[u] = txs[u]
         /\ \A a \in Accounts : Written(a) \subseteq Written(a)'
<1>1. txs \in Seq(Tx)
  BY DEF WInv, TypeOK
<1>2. /\ txs' \in Seq(Tx) /\ Len(txs') = Len(txs) /\ DOMAIN txs' = DOMAIN txs
      /\ txs'[t] = x /\ \A u \in DOMAIN txs : u # t => txs'[u] = txs[u]
  BY <1>1
<1>3. \A a \in Accounts : Written(a) \subseteq Written(a)'
  <2> SUFFICES ASSUME NEW a \in Accounts, NEW u \in Written(a) PROVE u \in Written(a)'
    OBVIOUS
  <2>1. u \in DOMAIN txs /\ txs[u].account = a /\ txs[u].at \in InBlocks
    BY DEF Written
  <2>2. txs'[u].account = a /\ txs'[u].at \in InBlocks
    BY <1>2, <2>1
  <2> QED BY <1>2, <2>1, <2>2 DEF Written
<1> QED BY <1>2, <1>3

(* More is written than before: the bound still holds.                     *)
LEMMA BoundStays ==
  ASSUME WInv, txs' \in Seq(Tx), NEW a \in Accounts, Written(a) \subseteq Written(a)'
  PROVE  version[a] <= Cardinality(Written(a)')
<1>1. Len(txs') \in Nat /\ DOMAIN txs' = 1 .. Len(txs')
  OBVIOUS
<1>2. IsFiniteSet(1 .. Len(txs'))
  BY <1>1, FS_Interval
<1>3. Written(a)' \in SUBSET (1 .. Len(txs'))
  BY <1>1 DEF Written
<1>4. IsFiniteSet(Written(a)')
  BY <1>2, <1>3, FS_Subset
<1>5. Cardinality(Written(a)) <= Cardinality(Written(a)') /\ Cardinality(Written(a)') \in Nat
  BY <1>4, FS_Subset, FS_CardinalityType
<1>6. Cardinality(Written(a)) \in Nat /\ version[a] <= Cardinality(Written(a)) /\ version[a] \in Nat
  BY WrittenBounds DEF WInv, TypeOK
<1> QED BY <1>5, <1>6

LEMMA TxSteps ==
  ASSUME WInv, NEW t \in DOMAIN txs, Sign(t) \/ TxFails(t) \/ InBlock(t) \/ TimerFires(t) \/ Finalized(t)
  PROVE  WInv'
<1>1. TypeOK /\ txs \in Seq(Tx) /\ txs[t] \in Tx
  BY DEF WInv, TypeOK
<1>2. UNCHANGED <<hook, profile, balance, failed, version>>
  BY DEF Sign, TxFails, InBlock, TimerFires, Finalized, page
<1>3. /\ txStatus' \in Statuses
      /\ txStatus' = "included" => InBlock(t) \/ (txStatus' = txStatus /\ ~TimerFires(t))
  BY <1>1, PageAssumption
  DEF Sign, TxFails, InBlock, TimerFires, Finalized, page, TypeOK, Statuses, StatusAfter, FinalStatus
<1>4. PICK x \in Tx : /\ txs' = [txs EXCEPT ![t] = x] /\ x.account = txs[t].account
                      /\ txs[t].at \in InBlocks => x.at \in InBlocks
                      /\ txs[t].at = "timer" => x.at = "timer" \/ TimerFires(t)
                      /\ InBlock(t) => x.at = "timer"
  <2>1. ASSUME NEW from, NEW to \in {"sent", "included", "timer", "reloaded", "ended"}, Step(t, from, to)
        PROVE  /\ [txs[t] EXCEPT !.at = to] \in Tx /\ txs' = [txs EXCEPT ![t] = [txs[t] EXCEPT !.at = to]]
               /\ [txs[t] EXCEPT !.at = to].account = txs[t].account
               /\ [txs[t] EXCEPT !.at = to].at = to /\ txs[t].at = from
    BY <1>1, <2>1 DEF Step, Tx
  <2>2. CASE Sign(t)
    <3>1. Step(t, "signing", "sent")
      BY <2>2 DEF Sign
    <3>2. ~InBlock(t)
      BY <3>1 DEF Step, InBlock
    <3> DEFINE x == [txs[t] EXCEPT !.at = "sent"]
    <3>3. /\ x \in Tx /\ txs' = [txs EXCEPT ![t] = x] /\ x.account = txs[t].account
          /\ txs[t].at = "signing"
      BY <2>1, <3>1
    <3> HIDE DEF x
    <3> QED BY <3>2, <3>3 DEF InBlocks
  <2>3. CASE TxFails(t)
    <3>1. Step(t, "signing", "ended") \/ Step(t, "sent", "ended")
      BY <2>3 DEF TxFails
    <3>2. ~InBlock(t)
      BY <3>1 DEF Step, InBlock
    <3> DEFINE x == [txs[t] EXCEPT !.at = "ended"]
    <3>3. /\ x \in Tx /\ txs' = [txs EXCEPT ![t] = x] /\ x.account = txs[t].account
          /\ txs[t].at \in {"signing", "sent"}
      BY <2>1, <3>1
    <3> HIDE DEF x
    <3> QED BY <3>2, <3>3 DEF InBlocks
  <2>4. CASE InBlock(t)
    <3>1. Step(t, "included", "timer")
      BY <2>4 DEF InBlock
    <3> QED BY <2>1, <3>1 DEF InBlocks
  <2>5. CASE TimerFires(t)
    <3>1. Step(t, "timer", "reloaded")
      BY <2>5 DEF TimerFires
    <3>2. ~InBlock(t)
      BY <3>1 DEF Step, InBlock
    <3> QED BY <2>1, <2>5, <3>1, <3>2 DEF InBlocks
  <2>6. CASE Finalized(t)
    <3>1. ~InBlock(t)
      BY <2>6 DEF Finalized, InBlock, FinalStatus
    <3>2. /\ [txs[t] EXCEPT !.finalized = TRUE] \in Tx
          /\ txs' = [txs EXCEPT ![t] = [txs[t] EXCEPT !.finalized = TRUE]]
          /\ [txs[t] EXCEPT !.finalized = TRUE].account = txs[t].account
          /\ [txs[t] EXCEPT !.finalized = TRUE].at = txs[t].at
      BY <1>1, <2>6 DEF Finalized, Tx
    <3> QED BY <3>1, <3>2
  <2> QED BY <2>2, <2>3, <2>4, <2>5, <2>6
<1>5. /\ txs' \in Seq(Tx) /\ Len(txs') = Len(txs) /\ DOMAIN txs' = DOMAIN txs
      /\ txs'[t] = x /\ \A u \in DOMAIN txs : u # t => txs'[u] = txs[u]
      /\ \A a \in Accounts : Written(a) \subseteq Written(a)'
  BY <1>4, TxMoves
<1>6. pending' \in Seq(Query)
  <2>1. txs[t].account \in Accounts
    BY <1>1 DEF Tx
  <2>2. pending' = pending \/ pending' = Append(pending, Asked("profile", txs[t].account))
    BY DEF Sign, TxFails, InBlock, TimerFires, Finalized, Reloaded
  <2> QED BY <1>1, <2>1, <2>2, AskedTypes DEF TypeOK
<1>7. TypeOK'
  BY <1>1, <1>2, <1>3, <1>5, <1>6 DEF TypeOK, hook
<1>8. \A a \in Accounts : version'[a] <= Cardinality(Written(a)')
  BY <1>2, <1>5, BoundStays
<1>9. IncludedHasTimer'
  <2> SUFFICES ASSUME txStatus' = "included" PROVE \E u \in DOMAIN txs' : txs'[u].at = "timer"
    BY DEF IncludedHasTimer
  <2>1. CASE InBlock(t)
    BY <1>4, <1>5, <2>1
  <2>2. CASE txStatus' = txStatus /\ ~TimerFires(t)
    <3>1. PICK u \in DOMAIN txs : txs[u].at = "timer"
      BY <2>2 DEF WInv, IncludedHasTimer
    <3> QED BY <1>4, <1>5, <2>2, <3>1
  <2> QED BY <1>3, <2>1, <2>2
<1> QED BY <1>5, <1>7, <1>8, <1>9 DEF WInv

LEMMA SubmitStep == ASSUME WInv, Submit PROVE WInv'
<1> DEFINE x == [account |-> selected, finalized |-> FALSE, at |-> "signing"]
<1>1. /\ TypeOK /\ txs \in Seq(Tx) /\ Len(txs) < MaxTxs /\ txs' = Append(txs, x)
      /\ txStatus' = "preparing" /\ UNCHANGED <<hook, profile, balance, failed, pending, version>>
  BY DEF WInv, TypeOK, Submit
<1>2. x \in Tx
  <2>1. selected \in Accounts
    BY DEF WInv, TypeOK, Submit
  <2> QED BY <2>1 DEF Tx
<1> HIDE DEF x
<1>3. /\ txs' \in Seq(Tx) /\ Len(txs') = Len(txs) + 1 /\ Len(txs) \in Nat
      /\ \A t \in DOMAIN txs : t \in DOMAIN txs' /\ txs'[t] = txs[t]
  BY <1>1, <1>2
<1>4. \A a \in Accounts : Written(a) \subseteq Written(a)'
  BY <1>3 DEF Written
<1>5. \A a \in Accounts : version'[a] <= Cardinality(Written(a)')
  BY <1>1, <1>3, <1>4, BoundStays
<1>6. Len(txs') <= MaxTxs
  BY <1>1, <1>3, PageAssumption
<1>7. TypeOK'
  BY <1>1, <1>3 DEF TypeOK, hook, Statuses
<1>8. IncludedHasTimer'
  BY <1>1 DEF IncludedHasTimer
<1> QED BY <1>5, <1>6, <1>7, <1>8 DEF WInv

LEMMA IncludeStep == ASSUME WInv, NEW t \in DOMAIN txs, Include(t) PROVE WInv'
<1>0. PICK b \in Accounts : b = txs[t].account
  <2>1. txs[t] \in Tx
    BY DEF WInv, TypeOK
  <2> QED BY <2>1 DEF Tx
<1> DEFINE x == [txs[t] EXCEPT !.at = "included"]
<1>1. /\ TypeOK /\ txs \in Seq(Tx) /\ txs[t] \in Tx /\ txs[t].at = "sent"
      /\ UNCHANGED <<hook, page, pending>> /\ txs' = [txs EXCEPT ![t] = x]
      /\ version' = version \/ version' = [version EXCEPT ![b] = @ + 1]
  BY <1>0 DEF WInv, TypeOK, Include, Step
<1>2. x \in Tx /\ x.account = b /\ x.at = "included" /\ b \in Accounts
  BY <1>0, <1>1 DEF Tx
<1> HIDE DEF x
<1>3. /\ txs' \in Seq(Tx) /\ Len(txs') = Len(txs) /\ DOMAIN txs' = DOMAIN txs
      /\ txs'[t] = x /\ \A u \in DOMAIN txs : u # t => txs'[u] = txs[u]
      /\ \A a \in Accounts : Written(a) \subseteq Written(a)'
  BY <1>0, <1>1, <1>2, TxMoves DEF InBlocks
<1>4. Len(txs') \in Nat /\ DOMAIN txs' = 1 .. Len(txs') /\ Len(txs') <= MaxTxs
  BY <1>3 DEF WInv
<1>5. \A a \in Accounts : /\ IsFiniteSet(Written(a)') /\ Cardinality(Written(a)') \in 0 .. MaxTxs
  <2> TAKE a \in Accounts
  <2>1. IsFiniteSet(1 .. Len(txs')) /\ Cardinality(1 .. Len(txs')) = Len(txs')
    BY <1>4, UpTo
  <2>2. Written(a)' \in SUBSET (1 .. Len(txs'))
    BY <1>4 DEF Written
  <2>3. IsFiniteSet(Written(a)') /\ Cardinality(Written(a)') <= Len(txs')
    BY <2>1, <2>2, FS_Subset
  <2>4. Cardinality(Written(a)') \in Nat
    BY <2>3, FS_CardinalityType
  <2> QED BY <1>4, <2>3, <2>4, PageAssumption
<1>6. version[b] + 1 <= Cardinality(Written(b)')
  <2>1. t \notin Written(b) /\ t \in Written(b)'
    BY <1>0, <1>1, <1>2, <1>3 DEF Written, InBlocks
  <2> DEFINE V == Written(b)'
  <2>2. t \in V /\ Written(b) \subseteq V /\ IsFiniteSet(V)
    BY <1>2, <1>3, <1>5, <2>1
  <2>3. Cardinality(Written(b) \cup {t}) <= Cardinality(Written(b)')
    <3> HIDE DEF V
    <3>1. Written(b) \cup {t} \in SUBSET V
      BY <2>2
    <3>2. Cardinality(Written(b) \cup {t}) <= Cardinality(V)
      BY <2>2, <3>1, FS_Subset
    <3> QED BY <3>2 DEF V
  <2>4. Cardinality(Written(b) \cup {t}) = Cardinality(Written(b)) + 1
    BY <1>2, <2>1, WrittenBounds, FS_AddElement
  <2>5. version[b] <= Cardinality(Written(b)) /\ Cardinality(Written(b)) \in Nat
    BY <1>2, WrittenBounds DEF WInv
  <2>6. version[b] \in Nat /\ Cardinality(Written(b)') \in Nat
    <3>1. version[b] \in 0 .. MaxTxs /\ Cardinality(Written(b)') \in 0 .. MaxTxs
      BY <1>1, <1>2, <1>5 DEF TypeOK
    <3> QED BY <3>1
  <2> QED BY <2>3, <2>4, <2>5, <2>6
<1>7. \A a \in Accounts : version'[a] \in Nat /\ version'[a] <= Cardinality(Written(a)')
  <2> TAKE a \in Accounts
  <2>1. version[a] \in Nat /\ version[a] <= Cardinality(Written(a)')
    BY <1>1, <1>3, BoundStays DEF TypeOK
  <2>2. version'[a] = version[a] \/ (a = b /\ version'[a] = version[b] + 1)
    BY <1>1, <1>2 DEF TypeOK
  <2>3. CASE version'[a] = version[a]
    BY <2>1, <2>3
  <2>4. CASE a = b /\ version'[a] = version[b] + 1
    BY <1>6, <2>1, <2>4
  <2> QED BY <2>2, <2>3, <2>4
<1>8. version' \in [Accounts -> 0 .. MaxTxs]
  <2>1. version' = [a \in Accounts |-> version'[a]]
    BY <1>1 DEF TypeOK
  <2>2. \A a \in Accounts : version'[a] \in 0 .. MaxTxs
    BY <1>5, <1>7, PageAssumption
  <2> QED BY <2>1, <2>2
<1>9. TypeOK'
  BY <1>1, <1>3, <1>8 DEF TypeOK, hook, page
<1>10. IncludedHasTimer'
  BY <1>1, <1>3 DEF WInv, IncludedHasTimer, page
<1> QED BY <1>4, <1>7, <1>9, <1>10 DEF WInv

LEMMA WalletInit == Init => WInv
<1> SUFFICES ASSUME Init PROVE WInv
  OBVIOUS
<1>1. TypeOK
  <2>1. /\ api \in {"connecting", "up", "failed"} /\ wallet \in {"idle", "asking", "connected"}
        /\ selected \in Accounts \cup {None} /\ balance \in Accounts \cup {None}
        /\ profile \in Profile \cup {None} /\ txStatus \in Statuses /\ failed \in BOOLEAN
    BY DEF Init, Statuses
  <2>2. pending \in Seq(Query) /\ txs \in Seq(Tx)
    BY DEF Init
  <2>3. version \in [Accounts -> 0 .. MaxTxs]
    <3>1. 0 \in 0 .. MaxTxs
      BY PageAssumption
    <3> QED BY <3>1 DEF Init
  <2> QED BY <2>1, <2>2, <2>3 DEF TypeOK
<1>2. Len(txs) = 0 /\ \A a \in Accounts : version[a] = 0 /\ Written(a) = {}
  BY DEF Init, Written
<1>3. \A a \in Accounts : version[a] <= Cardinality(Written(a))
  BY <1>2, FS_EmptySet
<1>4. IncludedHasTimer
  BY PageAssumption DEF Init, IncludedHasTimer
<1> QED BY <1>1, <1>2, <1>3, <1>4, PageAssumption DEF WInv

LEMMA WalletStep == WInv /\ [Next]_vars => WInv'
<1> SUFFICES ASSUME WInv, [Next]_vars PROVE WInv'
  OBVIOUS
<1>1. CASE ApiSettles \/ ConnectWallet \/ WalletAnswers \/ \E a \in Accounts : Select(a)
  BY <1>1, HookSteps
<1>2. CASE PollBalance
  BY <1>2, PollStep
<1>3. CASE Submit
  BY <1>3, SubmitStep
<1>4. ASSUME NEW i \in DOMAIN pending, NodeReads(i) \/ Arrives(i) \/ BalanceFails(i) PROVE WInv'
  BY <1>4, AnswerSteps
<1>5. ASSUME NEW t \in DOMAIN txs, Sign(t) \/ TxFails(t) \/ InBlock(t) \/ TimerFires(t) \/ Finalized(t)
      PROVE  WInv'
  BY <1>5, TxSteps
<1>6. ASSUME NEW t \in DOMAIN txs, Include(t) PROVE WInv'
  BY <1>6, IncludeStep
<1>7. CASE UNCHANGED vars
  <2>1. TypeOK' /\ UNCHANGED <<txs, version, txStatus>>
    BY <1>7 DEF WInv, TypeOK, vars, hook, page
  <2> QED BY <2>1, SameTxs
<1> QED BY <1>1, <1>2, <1>3, <1>4, <1>5, <1>6, <1>7 DEF Next

-----------------------------------------------------------------------------
(* The users page.                                                         *)
LEMMA UsersInit == U!Init \/ UsersNotMounted => U!TypeOK
<1> SUFFICES ASSUME U!Init \/ UsersNotMounted PROVE U!TypeOK
  OBVIOUS
<1>1. /\ server \in SUBSET Accounts /\ users \in SUBSET Accounts
      /\ loading \in BOOLEAN /\ error \in U!Errors /\ submitting \in BOOLEAN /\ post = None
  BY DEF U!Init, UsersNotMounted, U!Errors
<1>2. /\ [at |-> "sent", rows |-> {}] \in [at: {"idle", "sent", "read"}, rows: SUBSET Accounts]
      /\ [at |-> "idle", rows |-> {}] \in [at: {"idle", "sent", "read"}, rows: SUBSET Accounts]
  OBVIOUS
<1>3. gets \in [U!Fetchers -> [at: {"idle", "sent", "read"}, rows: SUBSET Accounts]]
  <2>1. CASE U!Init
    <3>1. gets = [f \in U!Fetchers |-> IF f = "mount" THEN U!Sent ELSE U!NotSent]
      BY <2>1 DEF U!Init, U!Fetchers
    <3> QED BY <1>2, <3>1 DEF U!Sent, U!NotSent
  <2>2. CASE UsersNotMounted
    BY <1>2, <2>2 DEF UsersNotMounted, U!NotSent
  <2> QED BY <2>1, <2>2
<1> QED BY <1>1, <1>3 DEF U!TypeOK

LEMMA UsersStep == U!TypeOK /\ [U!Next]_usersVars => U!TypeOK'
<1> SUFFICES ASSUME U!TypeOK, [U!Next]_usersVars PROVE U!TypeOK'
  OBVIOUS
<1> DEFINE Get == [at: {"idle", "sent", "read"}, rows: SUBSET Accounts]
<1>1. ASSUME NEW a \in Accounts, U!Others(a) \/ U!Submit(a) PROVE U!TypeOK'
  <2>1. CASE U!Others(a)
    BY <2>1 DEF U!Others, U!TypeOK
  <2>2. CASE U!Submit(a)
    <3>1. post' \in [account: Accounts, at: {"sent", "created", "refused"}]
      BY <2>2 DEF U!Submit
    <3> QED BY <2>2, <3>1 DEF U!Submit, U!TypeOK, U!Errors
  <2> QED BY <1>1, <2>1, <2>2
<1>2. CASE U!ServerPosts
  <2>1. post \in [account: Accounts, at: {"sent", "created", "refused"}]
    BY <1>2 DEF U!ServerPosts, U!TypeOK
  <2>2. post' \in [account: Accounts, at: {"sent", "created", "refused"}]
    BY <1>2, <2>1 DEF U!ServerPosts
  <2> QED BY <1>2, <2>1, <2>2 DEF U!ServerPosts, U!TypeOK
<1>3. CASE U!PostSucceeds
  BY <1>3 DEF U!PostSucceeds, U!Refetched, U!Sent, U!TypeOK, U!Fetchers
<1>4. CASE U!PostFails
  BY <1>4 DEF U!PostFails, U!AfterFailure, U!TypeOK, U!Errors
<1>5. ASSUME NEW f \in U!Fetchers, U!ServerReads(f) PROVE U!TypeOK'
  BY <1>5 DEF U!ServerReads, U!TypeOK
<1>6. ASSUME NEW f \in U!Fetchers, U!FetchSucceeds(f) \/ U!FetchFails(f) PROVE U!TypeOK'
  <2>1. /\ gets' = [gets EXCEPT ![f] = U!NotSent] /\ loading' = FALSE
        /\ submitting' = (f # "submit" /\ submitting) /\ UNCHANGED <<server, post>>
    BY <1>6 DEF U!FetchSucceeds, U!FetchFails, U!FetchEnds
  <2>2. gets[f] \in Get /\ U!NotSent \in Get
    BY DEF U!TypeOK, U!NotSent
  <2>3. users' \in SUBSET Accounts /\ error' \in U!Errors
    <3>1. gets[f].rows \in SUBSET Accounts
      BY <2>2
    <3> QED BY <1>6, <3>1 DEF U!FetchSucceeds, U!FetchFails, U!FetchMessage, U!Errors, U!TypeOK
  <2>4. gets' \in [U!Fetchers -> Get]
    <3> HIDE DEF Get
    <3>1. gets \in [U!Fetchers -> Get]
      BY DEF U!TypeOK, Get
    <3> QED BY <2>1, <2>2, <3>1
  <2> QED BY <2>1, <2>3, <2>4 DEF U!TypeOK
<1>7. CASE UNCHANGED usersVars
  BY <1>7 DEF usersVars, U!TypeOK
<1> QED BY <1>1, <1>2, <1>3, <1>4, <1>5, <1>6, <1>7 DEF U!Next

-----------------------------------------------------------------------------
LEMMA PagesHold == PagesSpec => [](WInv /\ U!TypeOK)
<1>1. PagesInit => WInv /\ U!TypeOK
  BY WalletInit, UsersInit DEF PagesInit
<1>2. WInv /\ U!TypeOK /\ [PagesNext]_<<open, usersVars, vars>> => (WInv /\ U!TypeOK)'
  BY WalletStep, UsersStep DEF PagesNext
<1> QED BY <1>1, <1>2, PTL DEF PagesSpec

(* Both pages keep their types, whichever is open; the chain was never     *)
(* told more than was submitted.                                           *)
THEOREM PagesTypes == PagesSpec => []PagesTypeOK
<1>1. WInv /\ U!TypeOK => PagesTypeOK
  BY DEF WInv, PagesTypeOK
<1> QED BY <1>1, PagesHold, PTL

(* "Included" is never left standing, however many transactions overlap.   *)
THEOREM TimersBehindIncluded == PagesSpec => []IncludedHasTimer
<1>1. WInv /\ U!TypeOK => IncludedHasTimer
  BY DEF WInv
<1> QED BY <1>1, PagesHold, PTL
=============================================================================

----------------------------- MODULE WalletPage -----------------------------
(***************************************************************************)
(* The profile page and its hook usePolkadot, in one browser tab: state    *)
(* set by effects, promises, event callbacks and timers that may belong to *)
(* an account the user has left.                                           *)
(*                                                                         *)
(* A handler runs on the values of the render that created it, so a        *)
(* transaction's callback and timer keep the account of the click.  The    *)
(* node answers a query with what it read at some moment in between.  What *)
(* the input fields hold is left out: it is the content of the call.       *)
(***************************************************************************)
EXTENDS Naturals, Sequences, SequencesExt

CONSTANTS
  Accounts,    \* the accounts of the extension, First among them
  First,       \* the account it lists first
  None,        \* null
  Unread,      \* the value of a query the node has not read yet
  Faults,      \* what may fail, out of "connect", "wallet", "query", "tx"
  Ordered,     \* TRUE when the node answers in the order it is asked
  MaxTxs,      \* bound: transactions started
  MaxPending   \* bound: queries in flight when another is started

ASSUME PageAssumption ==
  /\ First \in Accounts /\ Unread \notin Nat
  /\ None \notin Accounts \cup {"preparing", "included", "finalized", "failed", "error"}
  /\ Faults \subseteq {"connect", "wallet", "query", "tx"}
  /\ Ordered \in BOOLEAN /\ MaxTxs \in Nat /\ MaxPending \in Nat

VARIABLES
  api,       \* the connection: "connecting", "up" or "failed"
  wallet,    \* the extension: "idle", "asking" or "connected"
  selected,  \* selectedAccount
  profile,   \* the profile shown, and whose it is
  balance,   \* whose balance is shown
  txStatus,  \* the transaction status shown
  failed,    \* a profile query has failed (the console says so)
  pending,   \* queries in flight, oldest first
  txs,       \* the transactions started
  version    \* the chain: how often each account's profile was written

hook == <<api, wallet, selected>>
page == <<profile, balance, txStatus, failed>>
vars == <<hook, page, pending, txs, version>>

Profile == [account: Accounts, version: Nat]
Query == [of: {"profile", "balance"}, account: Accounts, value: Nat \cup {Unread}]
Tx == [account: Accounts, finalized: BOOLEAN,
       at: {"signing", "sent", "included", "timer", "reloaded", "ended"}]
Statuses == {None, "preparing", "included", "finalized", "failed", "error"}

Init ==
  /\ api = "connecting" /\ wallet = "idle" /\ selected = None
  /\ profile = None /\ balance = None /\ txStatus = None
  /\ failed = FALSE /\ pending = <<>> /\ txs = <<>>
  /\ version = [a \in Accounts |-> 0]

-----------------------------------------------------------------------------
Asked(kind, a) == [of |-> kind, account |-> a, value |-> Unread]

(* The effects on [selectedAccount, api] and [api, address]: the profile   *)
(* and the balance are asked for once there are both.                      *)
Effects(newApi, a) ==
  pending' = IF newApi = "up" /\ a # None
             THEN pending \o <<Asked("profile", a), Asked("balance", a)>>
             ELSE pending

(* initApi.                                                                *)
ApiSettles ==
  /\ api = "connecting"
  /\ \/ api' = "up"
     \/ "connect" \in Faults /\ api' = "failed"
  /\ Effects(api', selected)
  /\ UNCHANGED <<wallet, selected, page, txs, version>>

(* connectWallet: the extension asks its user.                             *)
ConnectWallet ==
  /\ wallet = "idle"
  /\ wallet' = "asking"
  /\ UNCHANGED <<api, selected, page, pending, txs, version>>

WalletAnswers ==
  /\ wallet = "asking"
  /\ \/ /\ wallet' = "connected" /\ selected' = First
        /\ Effects(api, First)
     \/ /\ "wallet" \in Faults
        /\ wallet' = "idle" /\ UNCHANGED <<selected, pending>>
  /\ UNCHANGED <<api, page, txs, version>>

Select(a) ==
  /\ wallet = "connected" /\ a # selected
  /\ Len(pending) < MaxPending
  /\ selected' = a
  /\ Effects(api, a)
  /\ UNCHANGED <<api, wallet, page, txs, version>>

(* Mutant: the interval is that of the component's first address.          *)
PolledFirst == First

(* The address the interval asks for: each change of it starts a new one.  *)
Polled == selected

(* Every five seconds.                                                     *)
PollBalance ==
  /\ api = "up" /\ selected # None
  /\ Len(pending) < MaxPending
  /\ pending' = Append(pending, Asked("balance", Polled))
  /\ UNCHANGED <<hook, page, txs, version>>

-----------------------------------------------------------------------------
(* The node reads the profile.  (What a balance is does not matter here.)  *)
NodeReads(i) ==
  /\ pending[i].of = "profile" /\ pending[i].value = Unread
  /\ pending' = [pending EXCEPT ![i].value = version[pending[i].account]]
  /\ UNCHANGED <<hook, page, txs, version>>

MayAnswer(i) == Ordered => i = 1

(* What loadProfile makes of the answer.                                   *)
Shown(q) == IF q.value = 0 THEN None ELSE [account |-> q.account, version |-> q.value]

ProfileArrives(i) ==
  /\ MayAnswer(i) /\ pending[i].of = "profile" /\ pending[i].value # Unread
  /\ \/ profile' = Shown(pending[i]) /\ UNCHANGED failed
     \/ "query" \in Faults /\ failed' = TRUE /\ UNCHANGED profile
  /\ pending' = RemoveAt(pending, i)
  /\ UNCHANGED <<hook, balance, txStatus, txs, version>>

BalanceArrives(i) ==
  /\ MayAnswer(i) /\ pending[i].of = "balance"
  /\ balance' = pending[i].account
  /\ pending' = RemoveAt(pending, i)
  /\ UNCHANGED <<hook, profile, txStatus, failed, txs, version>>

BalanceFails(i) ==
  /\ MayAnswer(i) /\ pending[i].of = "balance" /\ "query" \in Faults
  /\ pending' = RemoveAt(pending, i)
  /\ UNCHANGED <<hook, page, txs, version>>

-----------------------------------------------------------------------------
(* handleSetUsername and handleUpdateProfile.                              *)
Submit ==
  /\ selected # None /\ api = "up"
  /\ Len(txs) < MaxTxs
  /\ txs' = Append(txs, [account |-> selected, finalized |-> FALSE, at |-> "signing"])
  /\ txStatus' = "preparing"
  /\ UNCHANGED <<hook, profile, balance, failed, pending, version>>

Step(t, from, to) == txs[t].at = from /\ txs' = [txs EXCEPT ![t].at = to]

(* The extension signs, and the transaction is sent.                       *)
Sign(t) ==
  /\ Step(t, "signing", "sent")
  /\ UNCHANGED <<hook, page, pending, version>>

(* The user refuses, the node refuses, or the pool drops it.               *)
TxFails(t) ==
  /\ "tx" \in Faults
  /\ \/ Step(t, "signing", "ended") /\ txStatus' = "error"
     \/ Step(t, "sent", "ended") /\ txStatus' = "failed"
  /\ UNCHANGED <<hook, profile, balance, failed, pending, version>>

(* A block includes it; the call may still fail.                           *)
Include(t) ==
  /\ Step(t, "sent", "included")
  /\ \/ version' = [version EXCEPT ![txs[t].account] = @ + 1]
     \/ "tx" \in Faults /\ UNCHANGED version
  /\ UNCHANGED <<hook, page, pending>>

(* The callback sees isInBlock, whatever became of the call.               *)
InBlock(t) ==
  /\ Step(t, "included", "timer")
  /\ txStatus' = "included"
  /\ UNCHANGED <<hook, profile, balance, failed, pending, version>>

(* Mutant: the profile is not loaded again.                                *)
NotReloaded(tx) == pending

(* loadProfile, of the render of the click.                                *)
Reloaded(tx) == Append(pending, Asked("profile", tx.account))

(* Mutant: the status stays.                                               *)
StatusKept(tx) == txStatus

StatusAfter(tx) == None

(* Two seconds later.                                                      *)
TimerFires(t) ==
  /\ Step(t, "timer", "reloaded")
  /\ pending' = Reloaded(txs[t])
  /\ txStatus' = StatusAfter(txs[t])
  /\ UNCHANGED <<hook, profile, balance, failed, version>>

(* Mutant: a status the page does not know.                                *)
FinalizedInto == "finalizing"

FinalStatus == "finalized"

Finalized(t) ==
  /\ txs[t].at \in {"timer", "reloaded"} /\ ~txs[t].finalized
  /\ txs' = [txs EXCEPT ![t].finalized = TRUE]
  /\ txStatus' = FinalStatus
  /\ UNCHANGED <<hook, profile, balance, failed, pending, version>>

-----------------------------------------------------------------------------
Arrives(i) == ProfileArrives(i) \/ BalanceArrives(i)

Next ==
  \/ ApiSettles \/ ConnectWallet \/ WalletAnswers \/ PollBalance \/ Submit
  \/ \E a \in Accounts : Select(a)
  \/ \E i \in DOMAIN pending : NodeReads(i) \/ Arrives(i) \/ BalanceFails(i)
  \/ \E t \in DOMAIN txs :
       Sign(t) \/ TxFails(t) \/ Include(t) \/ InBlock(t) \/ TimerFires(t) \/ Finalized(t)

Spec == Init /\ [][Next]_vars

Oldest(A(_)) == pending # <<>> /\ A(1)

(* The interval ticks, timers fire, callbacks come, and the node reads and *)
(* answers the oldest query, not always with an error.                     *)
Fairness ==
  /\ WF_vars(PollBalance)
  /\ WF_vars(Oldest(NodeReads) \/ Oldest(Arrives) \/ Oldest(BalanceFails))
  /\ SF_vars(Oldest(BalanceArrives))
  /\ \A t \in 1 .. MaxTxs : WF_vars(t \in DOMAIN txs /\ (InBlock(t) \/ TimerFires(t)))

FairSpec == Spec /\ Fairness

-----------------------------------------------------------------------------
TypeOK ==
  /\ api \in {"connecting", "up", "failed"} /\ wallet \in {"idle", "asking", "connected"}
  /\ selected \in Accounts \cup {None} /\ balance \in Accounts \cup {None}
  /\ profile \in Profile \cup {None} /\ txStatus \in Statuses
  /\ failed \in BOOLEAN
  /\ pending \in Seq(Query) /\ txs \in Seq(Tx)
  /\ version \in [Accounts -> 0 .. MaxTxs]

(* "Transaction included" goes away by itself: while it is shown some      *)
(* timer is running, however many transactions overlap.                    *)
IncludedHasTimer == txStatus = "included" => \E t \in DOMAIN txs : txs[t].at = "timer"

(* Whatever late answers come, once the user stays with an account the     *)
(* balance shown is that account's for good: the interval repairs it.      *)
BalanceSettles ==
  \A a \in Accounts :
    <>[](selected = a /\ api = "up") => <>[](balance = a)

IsCurrent(a) ==
  IF version[a] = 0 THEN profile = None
  ELSE profile = [account |-> a, version |-> version[a]]

(* As long as the user never switches the account, the node answers in     *)
(* order and no query fails, the profile on the page ends up as the last   *)
(* transaction left it, though several overlap.                            *)
OwnProfileIsShown ==
  Ordered /\ [](selected \in {None, First} /\ ~failed) /\ <>(selected = First /\ api = "up")
  => <>[]IsCurrent(First)
=============================================================================

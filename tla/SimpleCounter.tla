---------------------------- MODULE SimpleCounter ----------------------------
(***************************************************************************)
(* The simple-counter pallet: one u64 that any signed account may step up  *)
(* or put back to zero, and the events by which the outside follows it.    *)
(* A call that fails leaves no trace, so failing calls are no action.      *)
(***************************************************************************)
EXTENDS PalletTypes

VARIABLES counter,  \* Counter
          log       \* the events deposited since genesis, oldest first

vars == <<counter, log>>

Event == [kind: {"CounterIncremented"}, new: Nat, who: Accounts]
         \cup [kind: {"CounterReset"}, who: Accounts]

Init == counter = 0 /\ log = <<>>

(* Mutants: an addition that does not check, and saturating_add.           *)
UncheckedAddOne(x) == x + 1
SaturatingAddOne(x) == IF x < MaxU64 THEN x + 1 ELSE x

(* checked_add(1).                                                         *)
CheckedAddOne(x) == IF x < MaxU64 THEN x + 1 ELSE None

Increment(who) ==
  LET next == CheckedAddOne(counter)
  IN  /\ next # None
      /\ counter' = next
      /\ log' = Append(log, [kind |-> "CounterIncremented", new |-> next, who |-> who])

Reset(who) ==
  /\ counter' = 0
  /\ log' = Append(log, [kind |-> "CounterReset", who |-> who])

Next == Len(log) < MaxLog /\ \E who \in Accounts : Increment(who) \/ Reset(who)

Spec == Init /\ [][Next]_vars

-----------------------------------------------------------------------------
TypeOK == counter \in 0 .. MaxU64 /\ log \in Seq(Event)

(* The counter is the number of increments since the last reset, whoever   *)
(* made them: a follower that counts events is never out of step, not even *)
(* after a call at the limit, and each event told the value of its time.   *)
EventsAccountForCounter ==
  \E k \in 0 .. Len(log) :
    /\ k # 0 => log[k].kind = "CounterReset"
    /\ counter = Len(log) - k
    /\ \A j \in k + 1 .. Len(log) :
         log[j].kind = "CounterIncremented" /\ log[j].new = j - k
=============================================================================

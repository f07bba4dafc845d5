------------------------------ MODULE Template ------------------------------
(***************************************************************************)
(* The template pallet: an optional u32 that do_something sets, with an    *)
(* event, and cause_error steps up, without one.                           *)
(***************************************************************************)
EXTENDS PalletTypes

VARIABLES something,  \* Something
          events      \* the events deposited in the block being executed

vars == <<something, events>>

U32 == 0 .. MaxU32
Event == [kind: {"SomethingStored"}, something: U32, who: Accounts]

Init == something = None /\ events = <<>>

DoSomething(who, value) ==
  /\ Len(events) < MaxEvents
  /\ something' = value
  /\ events' = Append(events, [kind |-> "SomethingStored", something |-> value, who |-> who])

(* Mutant: wrapping_add.                                                   *)
WrappingStep(old) == IF old = None THEN None ELSE (old + 1) % (MaxU32 + 1)

(* The value one up, None when there is none or it is at its limit.        *)
Stepped(old) == IF old = None \/ old = MaxU32 THEN None ELSE old + 1

(* cause_error, by any signer; NoneValue and StorageOverflow change        *)
(* nothing.                                                                *)
CauseError ==
  /\ Stepped(something) # None
  /\ something' = Stepped(something)
  /\ UNCHANGED events

NextBlock == events' = <<>> /\ UNCHANGED something

Next == NextBlock \/ CauseError \/ \E who \in Accounts, v \in U32 : DoSomething(who, v)

Spec == Init /\ [][Next]_vars

-----------------------------------------------------------------------------
TypeOK == something \in U32 \cup {None} /\ events \in Seq(Event)

(* A value appears, or goes anywhere but one up, only with the event that  *)
(* tells it.                                                               *)
SilentStep ==
  something' # something =>
    \/ something # None /\ something' = something + 1
    \/ /\ Len(events') = Len(events) + 1
       /\ events'[Len(events')].something = something'

(* Steps at the limit do not wrap and nothing starts from zero by itself:  *)
(* whoever follows the events is off only by silent steps up.              *)
OnlyStepsAreSilent == [][SilentStep]_vars
=============================================================================

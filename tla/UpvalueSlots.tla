---------------------------- MODULE UpvalueSlots ----------------------------
(***************************************************************************)
(* What the upvalues of a thunk or closure promise, without stacks or      *)
(* indices: slots are only appended, a slot that is not yet a plain value  *)
(* may later be filled with one and is otherwise left alone, and a round   *)
(* of filling either ends with every slot plain or halts the evaluation.   *)
(***************************************************************************)
EXTENDS Naturals, Sequences

CONSTANTS
  Values,   \* what a slot may hold
  Plain     \* the values that are final (not a DeferredUpvalue)

VARIABLES
  slots,     \* the upvalues, in capture order
  halted,    \* a fill failed and the evaluation stopped
  complete   \* the last fill finished and nothing was captured since

vars == <<slots, halted, complete>>

\* The slots that still wait for a value.
Pending(s) == {j \in 1..Len(s) : s[j] \notin Plain}

\* new is slots with some pending slots filled with plain values.
Fills(new) ==
  /\ Len(new) = Len(slots)
  /\ \A j \in 1..Len(slots) :
       \/ new[j] = slots[j]
       \/ slots[j] \notin Plain /\ new[j] \in Plain

Init ==
  /\ slots = <<>>
  /\ halted = FALSE
  /\ complete = FALSE

\* Upvalues::push: a value is captured in the next slot.
Capture(v) ==
  /\ ~halted
  /\ slots' = Append(slots, v)
  /\ complete' = FALSE
  /\ UNCHANGED halted

\* resolve_deferred_upvalues: pending slots are filled; either none is left
\* pending, or one could not be filled and the evaluation halts.
Fill ==
  /\ ~halted
  /\ slots' \in Seq(Values)
  /\ Fills(slots')
  /\ \/ Pending(slots') = {} /\ complete' /\ ~halted'
     \/ Pending(slots') # {} /\ halted' /\ ~complete'

Next == (\E v \in Values : Capture(v)) \/ Fill

Spec == Init /\ [][Next]_vars

====

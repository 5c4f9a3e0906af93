------------------------------ MODULE Upvalues ------------------------------
(***************************************************************************)
(* The upvalues of a thunk or closure (src/eval/src/upvalues.rs).  The     *)
(* compiler captures them one by one with push; an upvalue that refers to  *)
(* a stack slot not yet initialised (a later binding of a recursive let)   *)
(* is captured as Value::DeferredUpvalue(idx), and                         *)
(* resolve_deferred_upvalues later replaces each of those, in order, by    *)
(* the value in slot idx of the stack it is given.  stack[idx] panics when *)
(* idx is out of range: the slots before it have been resolved already.   *)
(*                                                                         *)
(* A Value is a tagged record: a plain value, or a deferred upvalue with  *)
(* its (0-based) stack index.                                              *)
(***************************************************************************)
EXTENDS Naturals, Sequences

CONSTANTS
  Vals,          \* plain values (model values)
  MaxUpvalues,   \* bound on the number of upvalues pushed
  MaxStack       \* bound on the length of a stack slice

ASSUME ValsAssumption == Vals # {}
ASSUME MaxUpvaluesAssumption == MaxUpvalues \in Nat
ASSUME MaxStackAssumption == MaxStack \in Nat

Val(v) == [tag |-> "Val", v |-> v]
\* Value::DeferredUpvalue(StackIdx(i))
Deferred(i) == [tag |-> "Deferred", idx |-> i]

PlainValues == {Val(v) : v \in Vals}
\* Indices up to MaxStack, so that some are out of range for every stack.
Values == PlainValues \cup {Deferred(i) : i \in 0..MaxStack}

\* The stack slices the VM passes: its slots hold plain values.
Stacks == UNION {[1..n -> PlainValues] : n \in 0..MaxStack}

NoStack == [tag |-> "None"]
Some(s) == [tag |-> "Some", stack |-> s]

VARIABLES
  upvalues,     \* Upvalues.upvalues: Vec<Value>
  with_stack,   \* Upvalues.with_stack: Option<Vec<Value>>
  panicked,     \* stack[idx.0] panicked in resolve_deferred_upvalues
  captured,     \* history: the values as pushed, before any resolution
  last_stack,   \* history: the stack passed to the last resolve
  finalised     \* history: a resolve returned and nothing was pushed since

vars == <<upvalues, with_stack, panicked, captured, last_stack, finalised>>

\* Upvalues::with_stack_len
WithStackLen == IF with_stack = NoStack THEN 0 ELSE Len(with_stack.stack)

\* The `if let Value::DeferredUpvalue(idx) = upvalue` arm, with stack[idx.0].
ResolveSlot(u, stack) == IF u.tag = "Deferred" THEN stack[u.idx + 1] ELSE u

\* Slot u makes stack[idx.0] panic.
OutOfRange(u, stack) == u.tag = "Deferred" /\ u.idx >= Len(stack)

-----------------------------------------------------------------------------
(* Mutants: plausible slips in resolve_deferred_upvalues.                  *)

\* The loop stops one slot short of the end.
ResolvedSkipLast(stack) ==
  [j \in 1..Len(upvalues) |->
     IF j < Len(upvalues) /\ \A i \in 1..j : ~OutOfRange(upvalues[i], stack)
       THEN ResolveSlot(upvalues[j], stack) ELSE upvalues[j]]

\* The `if let` is dropped: every slot is overwritten from the stack.
ResolvedNoGuard(stack) ==
  [j \in 1..Len(upvalues) |->
     IF \A i \in 1..j : ~OutOfRange(upvalues[i], stack)
       THEN IF upvalues[j].tag = "Deferred" THEN stack[upvalues[j].idx + 1]
            ELSE IF Len(stack) > 0 THEN stack[1] ELSE upvalues[j]
       ELSE upvalues[j]]

\* The bounds are checked for all slots before any slot is resolved.
ResolvedCheckFirst(stack) ==
  IF \E i \in 1..Len(upvalues) : OutOfRange(upvalues[i], stack)
    THEN upvalues
    ELSE [j \in 1..Len(upvalues) |-> ResolveSlot(upvalues[j], stack)]

\* The upvalues after the loop of resolve_deferred_upvalues over `stack`
\* has run: slot j is resolved iff no slot up to j panicked.
Resolved(stack) ==
  [j \in 1..Len(upvalues) |->
     IF \A i \in 1..j : ~OutOfRange(upvalues[i], stack)
       THEN ResolveSlot(upvalues[j], stack) ELSE upvalues[j]]

-----------------------------------------------------------------------------
\* Upvalues::with_capacity: no upvalues and no with stack.
Init ==
  /\ upvalues = <<>>
  /\ with_stack = NoStack
  /\ panicked = FALSE
  /\ captured = <<>>
  /\ last_stack = <<>>
  /\ finalised = FALSE

\* Upvalues::push
Push(v) ==
  /\ ~panicked
  /\ Len(upvalues) < MaxUpvalues
  /\ upvalues' = Append(upvalues, v)
  /\ captured' = Append(captured, v)
  /\ finalised' = FALSE
  /\ UNCHANGED <<with_stack, panicked, last_stack>>

\* Upvalues::set_with_stack
SetWithStack(s) ==
  /\ ~panicked
  /\ with_stack' = Some(s)
  /\ UNCHANGED <<upvalues, panicked, captured, last_stack, finalised>>

\* Mutant: stack.get(idx) in place of stack[idx]: an out-of-range slot is
\* skipped (left deferred) instead of panicking.
ResolveDeferredUpvaluesNoPanic(stack) ==
  /\ ~panicked
  /\ upvalues' = [j \in 1..Len(upvalues) |->
                   IF OutOfRange(upvalues[j], stack) THEN upvalues[j]
                   ELSE ResolveSlot(upvalues[j], stack)]
  /\ panicked' = FALSE
  /\ finalised' = TRUE
  /\ last_stack' = stack
  /\ UNCHANGED <<with_stack, captured>>

\* UpvalueCarrier::resolve_deferred_upvalues
ResolveDeferredUpvalues(stack) ==
  /\ ~panicked
  /\ upvalues' = Resolved(stack)
  /\ panicked' = \E i \in 1..Len(upvalues) : OutOfRange(upvalues[i], stack)
  /\ finalised' = ~panicked'
  /\ last_stack' = stack
  /\ UNCHANGED <<with_stack, captured>>

Next ==
  \/ \E v \in Values : Push(v)
  \/ \E s \in Stacks : SetWithStack(s)
  \/ \E s \in Stacks : ResolveDeferredUpvalues(s)

Spec == Init /\ [][Next]_vars

-----------------------------------------------------------------------------
TypeOK ==
  /\ upvalues \in Seq(Values)
  /\ with_stack \in {Some(s) : s \in Stacks} \cup {NoStack}
  /\ panicked \in BOOLEAN
  /\ captured \in Seq(Values)
  /\ last_stack \in Stacks
  /\ finalised \in BOOLEAN

(* After resolve_deferred_upvalues has returned, and until the next push, *)
(* no upvalue is a DeferredUpvalue: the loop visits every slot, whatever  *)
(* the order of pushes and earlier resolves.                              *)
NoDeferredAfterResolve ==
  finalised => \A j \in 1..Len(upvalues) : upvalues[j].tag # "Deferred"

(* Resolution keeps every slot where push put it: a slot holds the value  *)
(* captured for it, or, if that was a DeferredUpvalue, a plain stack      *)
(* value.  A value that was not deferred is never overwritten.            *)
SlotsMatchCapture ==
  /\ Len(upvalues) = Len(captured)
  /\ \A j \in 1..Len(upvalues) :
       \/ upvalues[j] = captured[j]
       \/ captured[j].tag = "Deferred" /\ upvalues[j] \in PlainValues

(* A panic of stack[idx] leaves the upvalues half resolved: the slot that *)
(* panicked is still deferred with an index out of the stack's range,     *)
(* and every slot before it has been resolved.                            *)
PanicLeavesPrefixResolved ==
  panicked =>
    \E j \in 1..Len(upvalues) :
      /\ OutOfRange(upvalues[j], last_stack)
      /\ \A i \in 1..(j - 1) : upvalues[i].tag # "Deferred"


(* A plain value in a slot stays there: pushes only append, and a later   *)
(* resolve_deferred_upvalues, over whatever stack, only overwrites slots  *)
(* that still hold a DeferredUpvalue (the `if let` arm), so a value       *)
(* resolved from one stack is never replaced from another.                *)
PlainSlotStep ==
  \A j \in 1..Len(upvalues) :
    upvalues[j] \in PlainValues => upvalues'[j] = upvalues[j]
PlainSlotsStable == [][PlainSlotStep]_vars


\* The upvalues seen as UpvalueSlots: a panic halts, a returning resolve
\* completes.
Slots == INSTANCE UpvalueSlots
           WITH Plain <- PlainValues, slots <- upvalues,
                halted <- panicked, complete <- finalised

(* Every behaviour of push, set_with_stack and resolve_deferred_upvalues  *)
(* is one of UpvalueSlots: a push appends, set_with_stack leaves the      *)
(* slots alone, and a resolve only fills DeferredUpvalue slots with plain *)
(* values and then either leaves none deferred or panics.                 *)
ImplementsSlots == Slots!Spec

=============================================================================

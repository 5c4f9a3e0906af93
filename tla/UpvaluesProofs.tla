--------------------------- MODULE UpvaluesProofs ---------------------------
(***************************************************************************)
(* Proofs about resolve_deferred_upvalues (Upvalues.tla): for every bound *)
(* on the upvalues and the stack, resolution never moves or overwrites a  *)
(* captured value, and a resolve that returns leaves no deferred upvalue. *)
(***************************************************************************)
EXTENDS Upvalues, SequenceTheorems, WellFoundedInduction, TLAPS

\* The inductive invariant the theorems below are proved from.
IInv == TypeOK /\ SlotsMatchCapture /\ NoDeferredAfterResolve

\* A stack slice is a sequence of plain values.
LEMMA StackIsSeq ==
  ASSUME NEW s \in Stacks
  PROVE  s \in Seq(PlainValues)
<1>1. PICK n \in 0..MaxStack : s \in [1..n -> PlainValues]
  BY DEF Stacks
<1>2. n \in Nat
  BY <1>1, MaxStackAssumption
<1>. QED  BY <1>1, <1>2, SeqDef

\* A plain value is not deferred, and every value is plain or deferred
\* with a natural index.
LEMMA ValueCases ==
  ASSUME NEW u \in Values
  PROVE  \/ u \in PlainValues /\ u.tag = "Val"
         \/ u.tag = "Deferred" /\ u.idx \in Nat
BY DEF Values, PlainValues, Val, Deferred

\* Slot j of a resolve: it keeps its value, or was deferred and now holds a
\* plain value; if no slot up to j is out of range it is not deferred.
LEMMA ResolvedSlot ==
  ASSUME NEW stack \in Stacks, upvalues \in Seq(Values),
         NEW j \in 1..Len(upvalues)
  PROVE  /\ Resolved(stack)[j] \in Values
         /\ \/ Resolved(stack)[j] = upvalues[j]
            \/ /\ upvalues[j].tag = "Deferred"
               /\ Resolved(stack)[j] \in PlainValues
         /\ (\A i \in 1..j : ~OutOfRange(upvalues[i], stack))
              => Resolved(stack)[j].tag # "Deferred"
<1>1. upvalues[j] \in Values
  BY ElementOfSeq
<1>2. stack \in Seq(PlainValues)
  BY StackIsSeq
<1>3. Resolved(stack)[j] =
        IF \A i \in 1..j : ~OutOfRange(upvalues[i], stack)
          THEN ResolveSlot(upvalues[j], stack) ELSE upvalues[j]
  BY DEF Resolved
<1>4. CASE upvalues[j] \in PlainValues /\ upvalues[j].tag = "Val"
  BY <1>1, <1>3, <1>4 DEF ResolveSlot
<1>5. CASE upvalues[j].tag = "Deferred" /\ upvalues[j].idx \in Nat
  <2>1. CASE \A i \in 1..j : ~OutOfRange(upvalues[i], stack)
    <3>1. upvalues[j].idx + 1 \in 1..Len(stack)
      BY <1>2, <1>5, <2>1 DEF OutOfRange
    <3>2. stack[upvalues[j].idx + 1] \in PlainValues
      BY <1>2, <3>1, ElementOfSeq
    <3>3. Resolved(stack)[j] = stack[upvalues[j].idx + 1]
      BY <1>3, <1>5, <2>1 DEF ResolveSlot
    <3>4. \A p \in PlainValues : p \in Values /\ p.tag = "Val"
      BY DEF PlainValues, Values, Val
    <3>. QED  BY <1>5, <3>2, <3>3, <3>4
  <2>2. CASE ~\A i \in 1..j : ~OutOfRange(upvalues[i], stack)
    <3>1. Resolved(stack)[j] = upvalues[j]
      BY <1>3, <2>2
    <3>2. \E i \in 1..j : OutOfRange(upvalues[i], stack)
      BY <2>2
    <3>. QED  BY <1>1, <3>1, <3>2
  <2>. QED  BY <2>1, <2>2
<1>. QED  BY <1>1, <1>4, <1>5, ValueCases

\* A resolve keeps the upvalues a sequence of values of the same length.
LEMMA ResolvedSeq ==
  ASSUME NEW stack \in Stacks, upvalues \in Seq(Values)
  PROVE  /\ Resolved(stack) \in Seq(Values)
         /\ Len(Resolved(stack)) = Len(upvalues)
<1>1. Len(upvalues) \in Nat
  BY LenProperties
<1>2. \A j \in 1..Len(upvalues) : Resolved(stack)[j] \in Values
  BY ResolvedSlot
<1>3. Resolved(stack) = [j \in 1..Len(upvalues) |-> Resolved(stack)[j]]
  BY DEF Resolved
<1>. QED  BY <1>1, <1>2, <1>3, IsASeq

-----------------------------------------------------------------------------
LEMMA IInvInit == Init => IInv
<1>1. <<>> \in Stacks
  <2>1. <<>> \in [1..0 -> PlainValues] /\ 0 \in 0..MaxStack
    BY MaxStackAssumption
  <2>. QED  BY <2>1 DEF Stacks
<1>. QED  BY <1>1, EmptySeq
          DEF Init, IInv, TypeOK, SlotsMatchCapture, NoDeferredAfterResolve

LEMMA IInvStep == IInv /\ [Next]_vars => IInv'
<1> SUFFICES ASSUME IInv, [Next]_vars PROVE IInv'
  OBVIOUS
<1>. USE DEF IInv
<1>1. ASSUME NEW v \in Values, Push(v) PROVE IInv'
  <2>1. upvalues' \in Seq(Values) /\ captured' \in Seq(Values)
    BY <1>1, AppendProperties DEF Push, TypeOK
  <2>2. Len(upvalues') = Len(captured')
    BY <1>1, AppendProperties DEF Push, TypeOK, SlotsMatchCapture
  <2>3. \A j \in 1..Len(upvalues') :
          \/ upvalues'[j] = captured'[j]
          \/ captured'[j].tag = "Deferred" /\ upvalues'[j] \in PlainValues
    BY <1>1, AppendProperties DEF Push, TypeOK, SlotsMatchCapture
  <2>. QED  BY <1>1, <2>1, <2>2, <2>3
            DEF Push, TypeOK, SlotsMatchCapture, NoDeferredAfterResolve
<1>2. ASSUME NEW s \in Stacks, SetWithStack(s) PROVE IInv'
  BY <1>2 DEF SetWithStack, TypeOK, SlotsMatchCapture, NoDeferredAfterResolve
<1>3. ASSUME NEW s \in Stacks, ResolveDeferredUpvalues(s) PROVE IInv'
  <2>1. upvalues \in Seq(Values)
    BY DEF TypeOK
  <2>2. upvalues' \in Seq(Values) /\ Len(upvalues') = Len(upvalues)
    BY <1>3, <2>1, ResolvedSeq DEF ResolveDeferredUpvalues
  <2>3. TypeOK'
    BY <1>3, <2>2 DEF ResolveDeferredUpvalues, TypeOK
  <2>4. SlotsMatchCapture'
    <3>1. \A j \in 1..Len(upvalues) :
            \/ upvalues'[j] = upvalues[j]
            \/ upvalues[j].tag = "Deferred" /\ upvalues'[j] \in PlainValues
      BY <1>3, <2>1, ResolvedSlot DEF ResolveDeferredUpvalues
    <3>2. \A j \in 1..Len(upvalues) :
            \/ upvalues[j] = captured[j]
            \/ captured[j].tag = "Deferred" /\ upvalues[j] \in PlainValues
      BY DEF SlotsMatchCapture
    <3>3. \A p \in PlainValues : p.tag # "Deferred"
      BY DEF PlainValues, Val
    <3>. QED  BY <1>3, <2>2, <3>1, <3>2, <3>3
              DEF ResolveDeferredUpvalues, SlotsMatchCapture
  <2>5. NoDeferredAfterResolve'
    <3>1. CASE finalised'
      <4>1. \A i \in 1..Len(upvalues) : ~OutOfRange(upvalues[i], s)
        BY <1>3, <3>1 DEF ResolveDeferredUpvalues
      <4>2. \A j \in 1..Len(upvalues) : upvalues'[j].tag # "Deferred"
        BY <1>3, <2>1, <4>1, ResolvedSlot DEF ResolveDeferredUpvalues
      <4>. QED  BY <2>2, <4>2 DEF NoDeferredAfterResolve
    <3>2. CASE ~finalised'
      BY <3>2 DEF NoDeferredAfterResolve
    <3>. QED  BY <3>1, <3>2
  <2>. QED  BY <2>3, <2>4, <2>5
<1>4. CASE UNCHANGED vars
  BY <1>4 DEF vars, TypeOK, SlotsMatchCapture, NoDeferredAfterResolve
<1>. QED  BY <1>1, <1>2, <1>3, <1>4 DEF Next

-----------------------------------------------------------------------------
(* resolve_deferred_upvalues never moves a slot and never overwrites a    *)
(* value that was not deferred, for any number of upvalues and any stack. *)
THEOREM SlotsKept == Spec => []SlotsMatchCapture
BY IInvInit, IInvStep, PTL DEF Spec, IInv

(* Every reachable state of an Upvalues is well typed.                   *)
THEOREM TypeCorrect == Spec => []TypeOK
BY IInvInit, IInvStep, PTL DEF Spec, IInv

(* A resolve that returns (does not panic) leaves no deferred upvalue,    *)
(* until the next push.                                                   *)
THEOREM ResolveComplete == Spec => []NoDeferredAfterResolve
BY IInvInit, IInvStep, PTL DEF Spec, IInv

-----------------------------------------------------------------------------
(***************************************************************************)
(* A panic of resolve_deferred_upvalues happens at the first slot whose   *)
(* index is out of range; the loop has resolved every slot before it.     *)
(***************************************************************************)

\* If some slot is out of range for a stack, a first one is.
LEMMA FirstOutOfRange ==
  ASSUME NEW stack, NEW us \in Seq(Values),
         \E i \in 1..Len(us) : OutOfRange(us[i], stack)
  PROVE  \E j \in 1..Len(us) :
            /\ OutOfRange(us[j], stack)
            /\ \A i \in 1..(j - 1) : ~OutOfRange(us[i], stack)
<1> DEFINE T == {i \in 1..Len(us) : OutOfRange(us[i], stack)}
<1>1. T \subseteq Nat /\ T # {}
  BY LenProperties
<1>2. PICK x \in T : \A y \in T : ~(<<y, x>> \in OpToRel(<, Nat))
  BY <1>1, WFMin, NatLessThanWellFounded, Zenon
<1>3. \A a, b \in Nat : a < b => <<a, b>> \in OpToRel(<, Nat)
  BY Zenon DEF OpToRel
<1>4. \A i \in 1..(x - 1) : ~OutOfRange(us[i], stack)
  <2> TAKE i \in 1..(x - 1)
  <2>1. i \in Nat /\ x \in Nat /\ i < x /\ (OutOfRange(us[i], stack) => i \in T)
    BY <1>1, LenProperties
  <2>. QED  BY <1>2, <1>3, <2>1
<1>. QED  BY <1>2, <1>4

\* The invariant behind PanicLeavesPrefixResolved.
PInv == IInv /\ PanicLeavesPrefixResolved

LEMMA PInvStep == PInv /\ [Next]_vars => PInv'
<1> SUFFICES ASSUME PInv, [Next]_vars PROVE PInv'
  OBVIOUS
<1>0. IInv'
  BY IInvStep DEF PInv
<1>1. ASSUME NEW v \in Values, Push(v) PROVE PanicLeavesPrefixResolved'
  BY <1>1 DEF Push, PanicLeavesPrefixResolved
<1>2. ASSUME NEW s \in Stacks, SetWithStack(s) PROVE PanicLeavesPrefixResolved'
  BY <1>2 DEF SetWithStack, PanicLeavesPrefixResolved
<1>3. ASSUME NEW s \in Stacks, ResolveDeferredUpvalues(s)
      PROVE  PanicLeavesPrefixResolved'
  <2>1. upvalues \in Seq(Values)
    BY DEF PInv, IInv, TypeOK
  <2>2. CASE panicked'
    <3>1. PICK j \in 1..Len(upvalues) :
            /\ OutOfRange(upvalues[j], s)
            /\ \A i \in 1..(j - 1) : ~OutOfRange(upvalues[i], s)
      BY <1>3, <2>1, <2>2, FirstOutOfRange DEF ResolveDeferredUpvalues
    <3>2. upvalues'[j] = upvalues[j]
      BY <1>3, <3>1 DEF ResolveDeferredUpvalues, Resolved
    <3>3. \A i \in 1..(j - 1) : upvalues'[i].tag # "Deferred"
      <4> TAKE i \in 1..(j - 1)
      <4>1. i \in 1..Len(upvalues) /\ \A m \in 1..i : ~OutOfRange(upvalues[m], s)
        BY <3>1
      <4>. QED  BY <1>3, <2>1, <4>1, ResolvedSlot DEF ResolveDeferredUpvalues
    <3>4. Len(upvalues') = Len(upvalues) /\ last_stack' = s
      BY <1>3, <2>1, ResolvedSeq DEF ResolveDeferredUpvalues
    <3>. QED  BY <3>1, <3>2, <3>3, <3>4 DEF PanicLeavesPrefixResolved
  <2>3. CASE ~panicked'
    BY <2>3 DEF PanicLeavesPrefixResolved
  <2>. QED  BY <2>2, <2>3
<1>4. ASSUME UNCHANGED vars PROVE PanicLeavesPrefixResolved'
  BY <1>4 DEF vars, PanicLeavesPrefixResolved, PInv
<1>. QED  BY <1>0, <1>1, <1>2, <1>3, <1>4 DEF Next, PInv

(* When stack[idx] panics in resolve_deferred_upvalues, the upvalues are  *)
(* left half resolved: the slot that panicked is still deferred with an   *)
(* index out of the stack's range and every slot before it is resolved,   *)
(* for any number of upvalues and any stack.                              *)
THEOREM PanicPrefix == Spec => []PanicLeavesPrefixResolved
<1>1. Init => PInv
  BY IInvInit DEF PInv, Init, PanicLeavesPrefixResolved
<1>2. PInv /\ [Next]_vars => PInv'
  BY PInvStep
<1>. QED  BY <1>1, <1>2, PTL DEF Spec, PInv


-----------------------------------------------------------------------------
\* No step changes a slot that holds a plain value.
LEMMA PlainStep == TypeOK /\ [Next]_vars => PlainSlotStep
<1> SUFFICES ASSUME TypeOK, [Next]_vars,
                    NEW j \in 1..Len(upvalues), upvalues[j] \in PlainValues
             PROVE  upvalues'[j] = upvalues[j]
  BY DEF PlainSlotStep
<1>0. upvalues \in Seq(Values) /\ upvalues[j].tag = "Val"
  BY DEF TypeOK, PlainValues, Val
<1>1. ASSUME NEW v \in Values, Push(v) PROVE upvalues'[j] = upvalues[j]
  BY <1>0, <1>1, AppendProperties DEF Push
<1>2. ASSUME NEW s \in Stacks, SetWithStack(s) PROVE upvalues'[j] = upvalues[j]
  BY <1>2 DEF SetWithStack
<1>3. ASSUME NEW s \in Stacks, ResolveDeferredUpvalues(s)
      PROVE  upvalues'[j] = upvalues[j]
  <2>1. upvalues' = Resolved(s)
    BY <1>3 DEF ResolveDeferredUpvalues
  <2>2. ResolveSlot(upvalues[j], s) = upvalues[j]
    BY <1>0 DEF ResolveSlot
  <2>. QED  BY <2>1, <2>2 DEF Resolved
<1>4. CASE UNCHANGED vars
  BY <1>4 DEF vars
<1>. QED  BY <1>1, <1>2, <1>3, <1>4 DEF Next

(* A plain value in a slot is never replaced: pushes only append and a    *)
(* resolve, over any stack, only overwrites DeferredUpvalue slots, so a    *)
(* value resolved from one stack is never replaced from another.          *)
THEOREM PlainSlotsStableHolds == Spec => PlainSlotsStable
<1>1. Spec => []TypeOK
  BY TypeCorrect
<1>2. TypeOK /\ [Next]_vars => PlainSlotStep
  BY PlainStep
<1>. QED  BY <1>1, <1>2, PTL DEF Spec, PlainSlotsStable


-----------------------------------------------------------------------------
(***************************************************************************)
(* Upvalues implements UpvalueSlots under slots <- upvalues,              *)
(* halted <- panicked, complete <- finalised: step by step, a push is a   *)
(* Capture, set_with_stack a stutter and a resolve a Fill.                *)
(***************************************************************************)

\* A value is pending in UpvalueSlots iff it is a DeferredUpvalue.
LEMMA PendingIffDeferred ==
  ASSUME NEW u \in Values
  PROVE  u \notin PlainValues <=> u.tag = "Deferred"
BY DEF Values, PlainValues, Val, Deferred

\* A resolve is a Fill.
LEMMA ResolveIsFill ==
  ASSUME TypeOK, NEW s \in Stacks, ResolveDeferredUpvalues(s)
  PROVE  Slots!Fill
<1>1. upvalues \in Seq(Values)
  BY DEF TypeOK
<1>2. upvalues' \in Seq(Values) /\ Len(upvalues') = Len(upvalues)
  BY <1>1, ResolvedSeq DEF ResolveDeferredUpvalues
<1>3. \A j \in 1..Len(upvalues) :
        \/ upvalues'[j] = upvalues[j]
        \/ upvalues[j] \notin PlainValues /\ upvalues'[j] \in PlainValues
  <2> TAKE j \in 1..Len(upvalues)
  <2>1. upvalues[j] \in Values
    BY <1>1, ElementOfSeq
  <2>. QED  BY <1>1, <2>1, ResolvedSlot, PendingIffDeferred
            DEF ResolveDeferredUpvalues
<1>4. CASE panicked'
  <2>1. PICK j \in 1..Len(upvalues) :
          /\ OutOfRange(upvalues[j], s)
          /\ \A i \in 1..(j - 1) : ~OutOfRange(upvalues[i], s)
    BY <1>1, <1>4, FirstOutOfRange DEF ResolveDeferredUpvalues
  <2>2. upvalues'[j] = upvalues[j] /\ upvalues[j] \in Values
    BY <1>1, <2>1, ElementOfSeq DEF ResolveDeferredUpvalues, Resolved
  <2>3. upvalues'[j] \notin PlainValues
    BY <2>1, <2>2, PendingIffDeferred DEF OutOfRange
  <2>4. Slots!Pending(upvalues') # {} /\ ~finalised'
    BY <1>2, <1>4, <2>3 DEF Slots!Pending, ResolveDeferredUpvalues
  <2>. QED  BY <1>2, <1>3, <1>4, <2>4 DEF Slots!Fill, Slots!Fills,
                                         ResolveDeferredUpvalues
<1>5. CASE ~panicked'
  <2>1. \A i \in 1..Len(upvalues) : ~OutOfRange(upvalues[i], s)
    BY <1>5 DEF ResolveDeferredUpvalues
  <2>2. \A j \in 1..Len(upvalues) : upvalues'[j] \in PlainValues
    <3> TAKE j \in 1..Len(upvalues)
    <3>1. upvalues'[j] \in Values /\ upvalues'[j].tag # "Deferred"
      BY <1>1, <2>1, ResolvedSlot DEF ResolveDeferredUpvalues
    <3>. QED  BY <3>1, PendingIffDeferred
  <2>3. Slots!Pending(upvalues') = {} /\ finalised'
    BY <1>2, <1>5, <2>2 DEF Slots!Pending, ResolveDeferredUpvalues
  <2>. QED  BY <1>2, <1>3, <1>5, <2>3 DEF Slots!Fill, Slots!Fills,
                                         ResolveDeferredUpvalues
<1>. QED  BY <1>4, <1>5

\* Every step of Upvalues is a step or a stutter of UpvalueSlots.
LEMMA SlotsStep == TypeOK /\ [Next]_vars => [Slots!Next]_Slots!vars
<1> SUFFICES ASSUME TypeOK, [Next]_vars PROVE [Slots!Next]_Slots!vars
  OBVIOUS
<1>1. ASSUME NEW v \in Values, Push(v) PROVE Slots!Capture(v)
  BY <1>1 DEF Push, Slots!Capture
<1>2. ASSUME NEW s \in Stacks, SetWithStack(s) PROVE UNCHANGED Slots!vars
  BY <1>2 DEF SetWithStack, Slots!vars
<1>3. ASSUME NEW s \in Stacks, ResolveDeferredUpvalues(s) PROVE Slots!Fill
  BY <1>3, ResolveIsFill
<1>4. CASE UNCHANGED vars
  BY <1>4 DEF vars, Slots!vars
<1>. QED  BY <1>1, <1>2, <1>3, <1>4 DEF Next, Slots!Next

(* Every behaviour of push, set_with_stack and resolve_deferred_upvalues, *)
(* for any number of upvalues and any stacks, is a behaviour of           *)
(* UpvalueSlots: slots are only appended or filled with plain values, and *)
(* a resolve either leaves none deferred or panics.                       *)
THEOREM RefinesSlots == Spec => ImplementsSlots
<1>1. Init => Slots!Init
  BY DEF Init, Slots!Init
<1>2. TypeOK /\ [Next]_vars => [Slots!Next]_Slots!vars
  BY SlotsStep
<1>. QED  BY <1>1, <1>2, TypeCorrect, PTL DEF Spec, ImplementsSlots, Slots!Spec

=============================================================================

----------------------------- MODULE AsyncQueue ------------------------------
(***************************************************************************)
(* The class AsyncQueue (ts/util/AsyncQueue.std.ts), at the granularity of *)
(* microtasks.  The async generator delegates to the array in #queue with  *)
(* `yield*`; an array iterator that has reported its end never looks at    *)
(* the array again, and the generator continues only some microtasks       *)
(* later: until then #queue is still the exhausted array.                  *)
(*                                                                         *)
(* The n-th value added is the number n.                                   *)
(***************************************************************************)
EXTENDS Naturals, Sequences, TLAPS, SequenceTheorems

CONSTANTS MaxAdds,        \* bound: values added in a behaviour
          MicrotaskAdds   \* is add() also called from other microtasks?

ASSUME AsyncQueueAssumption ==
    /\ MaxAdds \in Nat
    /\ MicrotaskAdds \in BOOLEAN

VARIABLES count,      \* history: values added so far
          consumed,   \* history: what the consumer received
          array,      \* #queue
          index,      \* position of the array iterator of the current yield*
          onAdd,      \* #onAdd: "noop", "armed", or "spent" once called
          reader      \* where the generator stands

vars == <<count, consumed, array, index, onAdd, reader>>

TypeOK ==
    /\ count \in Nat
    /\ consumed \in Seq(Nat)
    /\ array \in Seq(Nat)
    /\ index \in 0..Len(array)
    /\ onAdd \in {"noop", "armed", "spent"}
    /\ reader \in {"off", "value", "yielded", "exhausted", "waiting", "closed"}

Init ==
    /\ count = 0
    /\ consumed = <<>>
    /\ array = <<>> /\ index = 0
    /\ onAdd = "noop"
    /\ reader = "off"

\* Nothing but the caller of add() or the consumer can run: the generator has no
\* microtask of its own pending.
ReaderAtRest ==
    \/ reader \in {"off", "yielded", "closed"}
    \/ reader = "waiting" /\ onAdd # "spent"

\* Mutation: the reader is not woken.
AddSilently ==
    /\ count < MaxAdds
    /\ MicrotaskAdds \/ ReaderAtRest
    /\ count' = count + 1
    /\ array' = Append(array, count + 1)
    /\ UNCHANGED <<consumed, index, onAdd, reader>>

Add ==
    /\ count < MaxAdds
    /\ MicrotaskAdds \/ ReaderAtRest
    /\ count' = count + 1
    /\ array' = Append(array, count + 1)
    /\ onAdd' = IF onAdd = "armed" THEN "spent" ELSE onAdd
    /\ UNCHANGED <<consumed, index, reader>>

\* yield* asks the array iterator for its next result.
Pull == reader' = IF index < Len(array) THEN "value" ELSE "exhausted"

\* The consumer's first next(); a second iteration throws and changes nothing.
Iterate ==
    /\ reader = "off"
    /\ Pull
    /\ UNCHANGED <<count, consumed, array, index, onAdd>>

\* The value has been unwrapped and reaches the consumer.
Yield ==
    /\ reader = "value"
    /\ consumed' = Append(consumed, array[index + 1])
    /\ index' = index + 1
    /\ reader' = "yielded"
    /\ UNCHANGED <<count, array, onAdd>>

RequestNext ==
    /\ reader = "yielded"
    /\ Pull
    /\ UNCHANGED <<count, consumed, array, index, onAdd>>

\* The consumer leaves its `for await` loop.
Return ==
    /\ reader = "yielded"
    /\ reader' = "closed"
    /\ UNCHANGED <<count, consumed, array, index, onAdd>>

\* Mutation: the array is kept and iterated again.
ReplaceNothing ==
    /\ reader = "exhausted"
    /\ index' = 0
    /\ onAdd' = "armed"
    /\ reader' = "waiting"
    /\ UNCHANGED <<count, consumed, array>>

\* Mutation: the new iteration continues at the old position.
ReplaceKeepsIndex ==
    /\ reader = "exhausted"
    /\ array' = <<>>
    /\ onAdd' = "armed"
    /\ reader' = "waiting"
    /\ UNCHANGED <<count, consumed, index>>

\* The generator resumes after yield*: a new array, then it waits for onAdd.
Replace ==
    /\ reader = "exhausted"
    /\ array' = <<>> /\ index' = 0
    /\ onAdd' = "armed"
    /\ reader' = "waiting"
    /\ UNCHANGED <<count, consumed>>

\* Mutation: the array is replaced after the wait instead of before it.
WakeReplaces ==
    /\ reader = "waiting" /\ onAdd = "spent"
    /\ array' = <<>>
    /\ reader' = "exhausted"
    /\ UNCHANGED <<count, consumed, index, onAdd>>

Wake ==
    /\ reader = "waiting" /\ onAdd = "spent"
    /\ Pull
    /\ UNCHANGED <<count, consumed, array, index, onAdd>>

Next == Add \/ Iterate \/ Yield \/ RequestNext \/ Return \/ Replace \/ Wake

Spec == Init /\ [][Next]_vars

\* Microtasks run; a consumer that was given a value comes back or leaves.
Fairness == WF_vars(Yield \/ Replace \/ Wake \/ RequestNext)

FairSpec == Spec /\ Fairness

-----------------------------------------------------------------------------
\* "Consume values out in the order they were added" (AsyncQueue.std.ts:12):
\* what the consumer has received is what was added, from the first value on,
\* without a gap.
ConsumedInOrder == \A n \in DOMAIN consumed : consumed[n] = n

\* Whatever add() races with, no value is received twice or before an earlier
\* one.
ConsumedAscending ==
    \A m, n \in DOMAIN consumed : m < n => consumed[m] < consumed[n]

\* A value in an array the generator has not given up reaches the consumer if
\* it keeps asking: a wake-up is never lost between replacing the array and
\* waiting for onAdd.
ReadableValuesArrive ==
    \A v \in 1..MaxAdds :
        (/\ reader \notin {"off", "exhausted"}
         /\ \E n \in (index + 1)..Len(array) : array[n] = v)
        ~> ((\E n \in DOMAIN consumed : consumed[n] = v) \/ reader = "closed")

-----------------------------------------------------------------------------
(* Proofs, for any number of values.                                       *)

\* The array holds the latest values in a row, and a value the iterator found
\* stays where it is.
ArrayInv ==
    /\ TypeOK
    /\ Len(array) <= count
    /\ \A n \in 1..Len(array) : array[n] = (count - Len(array)) + n
    /\ reader = "value" => index < Len(array)

\* What was received lies below what can still be received.
AscendingInv ==
    /\ \A m \in 1..Len(consumed) : consumed[m] <= (count - Len(array)) + index
    /\ ConsumedAscending

\* Without adds in the generator's microtasks the position in the array is the
\* number of values received, and a given up array holds nothing unread.
InOrderInv ==
    /\ Len(consumed) = (count - Len(array)) + index
    /\ reader = "exhausted" => index = Len(array)
    /\ ConsumedInOrder

\* add() appends the next number.
LEMMA AddAppends ==
    ASSUME ArrayInv, Add
    PROVE  /\ array' \in Seq(Nat) /\ Len(array') = Len(array) + 1
           /\ count' = count + 1 /\ count' - Len(array') = count - Len(array)
           /\ \A n \in 1..Len(array') : array'[n] = (count' - Len(array')) + n
<1>1. array \in Seq(Nat) /\ count \in Nat /\ Len(array) \in Nat /\ Len(array) <= count
  BY LenProperties DEF ArrayInv, TypeOK
<1>2. /\ array' \in Seq(Nat) /\ Len(array') = Len(array) + 1
      /\ \A n \in 1..Len(array) : array'[n] = array[n]
      /\ array'[Len(array) + 1] = count + 1
      /\ count' = count + 1
  BY <1>1, AppendProperties DEF Add
<1>3. \A n \in 1..Len(array') : n \in 1..Len(array) \/ n = Len(array) + 1
  BY <1>1, <1>2
<1> QED BY <1>1, <1>2, <1>3 DEF ArrayInv

\* A step of yield* hands the value at the iterator's position to the consumer.
LEMMA YieldAppends ==
    ASSUME ArrayInv, Yield
    PROVE  /\ consumed' \in Seq(Nat) /\ Len(consumed') = Len(consumed) + 1
           /\ index' = index + 1 /\ index' \in 1..Len(array)
           /\ \A n \in 1..Len(consumed) : consumed'[n] = consumed[n]
           /\ consumed'[Len(consumed) + 1] = (count - Len(array)) + index + 1
<1>1. /\ array \in Seq(Nat) /\ count \in Nat /\ Len(array) \in Nat
      /\ Len(array) <= count /\ index \in Nat /\ index + 1 \in 1..Len(array)
      /\ consumed \in Seq(Nat)
  BY LenProperties DEF ArrayInv, TypeOK, Yield
<1>2. /\ array[index + 1] \in Nat
      /\ array[index + 1] = (count - Len(array)) + index + 1
  BY <1>1 DEF ArrayInv
<1> QED BY <1>1, <1>2, AppendProperties DEF Yield

LEMMA ArrayStep == ArrayInv /\ [Next]_vars => ArrayInv'
<1> SUFFICES ASSUME ArrayInv, [Next]_vars PROVE ArrayInv'
  OBVIOUS
<1>1. /\ array \in Seq(Nat) /\ Len(array) \in Nat /\ index \in Nat
      /\ index <= Len(array) /\ count \in Nat /\ consumed \in Seq(Nat)
  BY LenProperties DEF ArrayInv, TypeOK
<1>2. CASE Add
  BY <1>1, <1>2, AddAppends DEF Add, ArrayInv, TypeOK
<1>3. CASE Yield
  BY <1>1, <1>3, YieldAppends DEF Yield, ArrayInv, TypeOK
<1>4. CASE Replace
  <2>1. array' = <<>> /\ Len(array') = 0 /\ array' \in Seq(Nat)
    BY <1>4, EmptySeq DEF Replace
  <2> QED BY <1>1, <1>4, <2>1 DEF Replace, ArrayInv, TypeOK
<1>5. CASE Iterate \/ RequestNext \/ Wake
  BY <1>1, <1>5 DEF Iterate, RequestNext, Wake, Pull, ArrayInv, TypeOK
<1>6. CASE Return
  BY <1>1, <1>6 DEF Return, ArrayInv, TypeOK
<1>7. CASE UNCHANGED vars
  BY <1>7 DEF vars, ArrayInv, TypeOK
<1> QED BY <1>2, <1>3, <1>4, <1>5, <1>6, <1>7 DEF Next

LEMMA ArrayInit == Init => ArrayInv
  BY EmptySeq DEF Init, ArrayInv, TypeOK

LEMMA AscendingStep == ArrayInv /\ AscendingInv /\ [Next]_vars => AscendingInv'
<1> SUFFICES ASSUME ArrayInv, AscendingInv, [Next]_vars PROVE AscendingInv'
  OBVIOUS
<1>1. /\ array \in Seq(Nat) /\ Len(array) \in Nat /\ Len(array) <= count
      /\ index \in Nat /\ index <= Len(array) /\ count \in Nat
      /\ consumed \in Seq(Nat) /\ Len(consumed) \in Nat
      /\ DOMAIN consumed = 1..Len(consumed)
      /\ \A n \in 1..Len(consumed) : consumed[n] \in Nat
  BY LenProperties DEF ArrayInv, TypeOK
<1>2. CASE Add
  BY <1>1, <1>2, AddAppends DEF Add, AscendingInv, ConsumedAscending
<1>3. CASE Yield
  <2>1. /\ DOMAIN consumed' = 1..Len(consumed')
        /\ \A n \in 1..Len(consumed') : n \in 1..Len(consumed) \/ n = Len(consumed) + 1
    BY <1>1, <1>3, YieldAppends, LenProperties
  <2>2. UNCHANGED <<count, array>>
    BY <1>3 DEF Yield
  <2> DEFINE latest == (count - Len(array)) + index + 1
  <2>3. /\ latest \in Nat /\ index' = index + 1
        /\ \A n \in 1..Len(consumed) : consumed'[n] = consumed[n] /\ consumed[n] < latest
        /\ consumed'[Len(consumed) + 1] = latest
    BY <1>1, <1>3, YieldAppends DEF AscendingInv
  <2>4. \A m \in 1..Len(consumed') : consumed'[m] <= latest
    <3>1. \A n \in 1..Len(consumed) : consumed[n] <= latest
      BY <1>1, <2>3
    <3> QED BY <2>1, <2>3, <3>1
  <2>5. latest = (count' - Len(array')) + index'
    BY <1>1, <2>2, <2>3
  <2>6. ConsumedAscending'
    <3> SUFFICES ASSUME NEW m \in 1..Len(consumed'), NEW n \in 1..Len(consumed'), m < n
                 PROVE  consumed'[m] < consumed'[n]
      BY <2>1 DEF ConsumedAscending
    <3>1. m \in 1..Len(consumed)
      BY <1>1, <2>1
    <3>2. CASE n \in 1..Len(consumed)
      BY <1>1, <2>3, <3>1, <3>2 DEF AscendingInv, ConsumedAscending
    <3>3. CASE n = Len(consumed) + 1
      BY <2>3, <3>1, <3>3
    <3> QED BY <2>1, <3>2, <3>3
  <2> QED BY <2>4, <2>5, <2>6 DEF AscendingInv
<1>4. CASE Replace
  <2>1. /\ array' = <<>> /\ Len(array') = 0 /\ index' = 0
        /\ UNCHANGED <<count, consumed>>
    BY <1>4, EmptySeq DEF Replace
  <2> QED BY <1>1, <2>1 DEF AscendingInv, ConsumedAscending
<1>5. CASE Iterate \/ RequestNext \/ Wake \/ Return \/ UNCHANGED vars
  BY <1>5 DEF Iterate, RequestNext, Wake, Return, vars, AscendingInv, ConsumedAscending
<1> QED BY <1>2, <1>3, <1>4, <1>5 DEF Next

LEMMA InOrderStep ==
    ASSUME ~MicrotaskAdds, ArrayInv, InOrderInv, [Next]_vars
    PROVE  InOrderInv'
<1>1. /\ array \in Seq(Nat) /\ Len(array) \in Nat /\ Len(array) <= count
      /\ index \in Nat /\ index <= Len(array) /\ count \in Nat
      /\ consumed \in Seq(Nat) /\ Len(consumed) \in Nat
      /\ DOMAIN consumed = 1..Len(consumed)
  BY LenProperties DEF ArrayInv, TypeOK
<1>2. CASE Add
  <2>1. reader # "exhausted" /\ UNCHANGED <<consumed, index, reader>>
    BY <1>2 DEF Add, ReaderAtRest
  <2> QED BY <1>1, <1>2, <2>1, AddAppends DEF InOrderInv, ConsumedInOrder
<1>3. CASE Yield
  <2>1. /\ DOMAIN consumed' = 1..Len(consumed')
        /\ \A n \in 1..Len(consumed') : n \in 1..Len(consumed) \/ n = Len(consumed) + 1
    BY <1>1, <1>3, YieldAppends, LenProperties
  <2>2. UNCHANGED <<count, array>> /\ reader' = "yielded"
    BY <1>3 DEF Yield
  <2>3. ConsumedInOrder'
    BY <1>1, <1>3, <2>1, YieldAppends DEF InOrderInv, ConsumedInOrder
  <2> QED BY <1>1, <1>3, <2>2, <2>3, YieldAppends DEF InOrderInv
<1>4. CASE Replace
  <2>1. /\ array' = <<>> /\ Len(array') = 0 /\ index' = 0 /\ reader' = "waiting"
        /\ UNCHANGED <<count, consumed>> /\ reader = "exhausted"
    BY <1>4, EmptySeq DEF Replace
  <2>2. ConsumedInOrder'
    BY <2>1 DEF InOrderInv, ConsumedInOrder
  <2>3. Len(consumed) = (count - Len(array)) + index /\ index = Len(array)
    BY <2>1 DEF InOrderInv
  <2>4. Len(consumed) = count
    BY <1>1, <2>3
  <2>5. Len(consumed') = (count' - Len(array')) + index'
    BY <1>1, <2>1, <2>4
  <2> QED BY <2>1, <2>2, <2>5 DEF InOrderInv
<1>5. CASE Iterate \/ RequestNext \/ Wake
  <2>1. UNCHANGED <<count, consumed, array, index>>
    BY <1>5 DEF Iterate, RequestNext, Wake
  <2>2. reader' = "exhausted" => index = Len(array)
    BY <1>1, <1>5 DEF Iterate, RequestNext, Wake, Pull
  <2> QED BY <2>1, <2>2 DEF InOrderInv, ConsumedInOrder
<1>6. CASE Return \/ UNCHANGED vars
  BY <1>6 DEF Return, vars, InOrderInv, ConsumedInOrder
<1> QED BY <1>2, <1>3, <1>4, <1>5, <1>6 DEF Next

\* The variables have their types, for any number of values: in particular the
\* iterator never stands past the end of the array it iterates.
THEOREM TypeCorrect == Spec => []TypeOK
<1>1. ArrayInv => TypeOK
  BY DEF ArrayInv
<1> QED BY <1>1, ArrayInit, ArrayStep, PTL DEF Spec

\* However add() races with the generator, the consumer never receives a value
\* twice or after a later one.
THEOREM NeverReordered == Spec => []ConsumedAscending
<1>1. Init => AscendingInv
  BY EmptySeq DEF Init, AscendingInv, ConsumedAscending
<1>2. AscendingInv => ConsumedAscending
  BY DEF AscendingInv
<1> QED BY <1>1, <1>2, ArrayInit, ArrayStep, AscendingStep, PTL DEF Spec

\* If add() is only called while no microtask of the generator is pending, the
\* class keeps the promise of its comment: the consumer receives every value in
\* the order of the calls.
THEOREM InOrderOutsideTheGap ==
    ASSUME ~MicrotaskAdds PROVE Spec => []ConsumedInOrder
<1>1. Init => InOrderInv
  <2> SUFFICES ASSUME Init PROVE InOrderInv
    OBVIOUS
  <2>1. Len(consumed) = 0 /\ Len(array) = 0 /\ DOMAIN consumed = {}
    BY EmptySeq DEF Init
  <2>2. ConsumedInOrder
    BY <2>1 DEF ConsumedInOrder
  <2>3. count = 0 /\ index = 0 /\ reader = "off"
    BY DEF Init
  <2>4. 0 = (0 - 0) + 0
    OBVIOUS
  <2> QED BY <2>1, <2>2, <2>3, <2>4 DEF InOrderInv
<1>2. InOrderInv => ConsumedInOrder
  BY DEF InOrderInv
<1>3. ArrayInv /\ InOrderInv /\ [Next]_vars => InOrderInv'
  BY InOrderStep
<1> QED BY <1>1, <1>2, <1>3, ArrayInit, ArrayStep, PTL DEF Spec
=============================================================================

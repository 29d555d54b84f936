----------------------------- MODULE MCFulfilment -----------------------------
(****************************************************************************)
(* Instances of Fulfilment for TLC: two cylinder types, and orders whose    *)
(* baskets name them in opposite orders, so that their row locks can cross. *)
(****************************************************************************)
EXTENDS Fulfilment, TLC

CONSTANTS o1, o2, o3, a, b

One(t) == [type |-> t, quantity |-> 1]

\* Orders for both types, crossing, and a third one for two of one type.
Crossing == (o1 :> <<One(a), One(b)>>) @@ (o2 :> <<One(b), One(a)>>)
CrossingAndThird == Crossing @@ (o3 :> <<[type |-> a, quantity |-> 2]>>)

\* An order for both types and one for the first.
Overlapping == (o1 :> <<One(a), One(b)>>) @@ (o2 :> <<One(a)>>)

\* One order, one item.
OneOrder == o1 :> <<One(a)>>

\* Three orders for one cylinder of the same type.
Rivals == [o \in {o1, o2, o3} |-> <<One(a)>>]

\* One cylinder of the first type, enough of the second.
ShortOfA == (a :> 1) @@ (b :> 2)
EnoughOfBoth == (a :> 2) @@ (b :> 2)
OneOfA == a :> 1

\* The staff writes a cylinder off.
WriteOff == {-1}

InterchangeableSlots == Permutations(Slots)
================================================================================

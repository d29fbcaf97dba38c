--------------------------- MODULE AbstractDeque ---------------------------
(***************************************************************************)
(* What a work-stealing deque promises (spec 4.3): one owner pushes and    *)
(* pops at the bottom, thieves take from the top, and each operation takes *)
(* effect atomically at one instant.  gotBy records, per thread, the items *)
(* its pop or steal returned, in order.                                    *)
(***************************************************************************)
EXTENDS Naturals, Sequences

CONSTANTS Owner, Thieves, Items

VARIABLES items, gotBy

avars == <<items, gotBy>>

Init ==
    /\ items = <<>>
    /\ gotBy = [p \in {Owner} \cup Thieves |-> <<>>]

Push(x) ==
    /\ items' = Append(items, x)
    /\ UNCHANGED gotBy

Pop ==
    /\ items # <<>>
    /\ items' = SubSeq(items, 1, Len(items) - 1)
    /\ gotBy' = [gotBy EXCEPT ![Owner] = Append(@, items[Len(items)])]

Steal(p) ==
    /\ items # <<>>
    /\ items' = Tail(items)
    /\ gotBy' = [gotBy EXCEPT ![p] = Append(@, Head(items))]

Next ==
    \/ \E x \in Items : Push(x)
    \/ Pop
    \/ \E p \in Thieves : Steal(p)

Spec == Init /\ [][Next]_avars
=============================================================================

-------------------------------- MODULE Fifo --------------------------------
(***************************************************************************)
(* What a byte buffer promises the two sides that share it: a bounded      *)
(* queue.  Each side's call is one step; out is the element taken last.    *)
(***************************************************************************)
EXTENDS Naturals, Sequences
CONSTANTS Item, Capacity
VARIABLES q, out

Init == q = <<>> /\ out \in Item

Put(x) ==
    /\ Len(q) < Capacity
    /\ q' = Append(q, x)
    /\ UNCHANGED out

Take ==
    /\ q # <<>>
    /\ out' = Head(q)
    /\ q' = Tail(q)

\* The oldest k elements are thrown away, all of them perhaps.
Discard(k) ==
    /\ q' = SubSeq(q, k + 1, Len(q))
    /\ UNCHANGED out

Next ==
    \/ \E x \in Item : Put(x)
    \/ Take
    \/ \E k \in 0 .. Len(q) : Discard(k)

Spec == Init /\ [][Next]_<<q, out>>

\* A queue nobody discards from: whatever is put is taken, in order.
Lossless == Init /\ [][Take \/ \E x \in Item : Put(x)]_<<q, out>>
=============================================================================

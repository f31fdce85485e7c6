------------------------------ MODULE CBuffer ------------------------------
(***************************************************************************)
(* The ring of my_libs/buffer.c.  A buffer is the C structure with the     *)
(* memory dataptr points at in it; each operator is the body of one        *)
(* function, between its CRITICAL_SECTION_START and _END.                  *)
(***************************************************************************)
EXTENDS Integers, Sequences

CBuffers(n, Byte) ==
    [data : [0 .. n - 1 -> Byte], size : {n}, index : 0 .. n - 1, length : 0 .. n]

bufferInit(start, n) == [data |-> start, size |-> n, index |-> 0, length |-> 0]

\* Seeded fault: the index may come to rest on the size.
Advance_PastEnd(b, k) ==
    IF b.index + k > b.size THEN b.index + k - b.size ELSE b.index + k

\* dataindex after k bytes, k no more than the size, are taken.
Advance(b, k) ==
    IF b.index + k >= b.size THEN b.index + k - b.size ELSE b.index + k

\* The byte bufferGetFromFront returns when there is one.
Oldest(b) == b.data[b.index]

bufferGetFromFront(b) ==
    IF b.length = 0
    THEN b
    ELSE [b EXCEPT !.index = Advance(b, 1), !.length = @ - 1]

bufferDumpFromFront(b, k) ==
    IF k < b.length
    THEN [b EXCEPT !.index = Advance(b, k), !.length = @ - k]
    ELSE [b EXCEPT !.length = 0]

bufferGetAtIndex(b, i) == b.data[(b.index + i) % b.size]

\* bufferAddToEnd returns BUFFER_RESULT_OK.
HasRoom(b) == b.length < b.size

bufferAddToEnd(b, x) ==
    IF HasRoom(b)
    THEN [b EXCEPT !.data[(b.index + b.length) % b.size] = x, !.length = @ + 1]
    ELSE b

bufferIsNotFull(b) == b.size - b.length

bufferFlush(b) == [b EXCEPT !.length = 0]

\* What the buffer holds, oldest first.
Contents(b) == [i \in 1 .. b.length |-> bufferGetAtIndex(b, i - 1)]
=============================================================================

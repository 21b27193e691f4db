------------------------------- MODULE Buffer -------------------------------
(***************************************************************************)
(* class Buffer: a ring of MAX_BUFFER_SIZE cells, of which the one before  *)
(* readIndex is meant to stay empty, so that equal indices mean an empty   *)
(* ring.  A buffer is a record; the methods that change it return the new  *)
(* one.  A region, one struct iovec, is a first cell and a length.         *)
(***************************************************************************)
EXTENDS Integers, Sequences

CONSTANTS
    MAX_BUFFER_SIZE,    \* 1024 in the code, small in the runs
    NoByte              \* what a cell holds that was never written

ASSUME SizeAssumption == MAX_BUFFER_SIZE \in Nat \ {0}

Cell == 0 .. MAX_BUFFER_SIZE - 1

Empty == [buf |-> [c \in Cell |-> NoByte], readIndex |-> 0, writeIndex |-> 0]

readableBytes(b) ==
    IF b.writeIndex >= b.readIndex
      THEN b.writeIndex - b.readIndex
      ELSE MAX_BUFFER_SIZE - b.readIndex + b.writeIndex

hasWritten(b, n) == [b EXCEPT !.writeIndex = (@ + n) % MAX_BUFFER_SIZE]
hasRead_NoWrap(b, n) == [b EXCEPT !.readIndex = @ + n]
hasRead(b, n)    == [b EXCEPT !.readIndex = (@ + n) % MAX_BUFFER_SIZE]

\* read(n), when n bytes are readable: the bytes, and the buffer without them.
Peek(b, n) == [i \in 1 .. n |-> b.buf[(b.readIndex + i - 1) % MAX_BUFFER_SIZE]]

clear(b) == [b EXCEPT !.readIndex = 0, !.writeIndex = 0]

-----------------------------------------------------------------------------
(* Scattered and gathered transfers by the kernel.                         *)

Region(first, len) == [first |-> first, len |-> len]

readvBegin_ToReader(b) ==
    IF b.writeIndex >= b.readIndex
      THEN <<Region(b.readIndex, b.writeIndex - b.readIndex), Region(0, 0)>>
      ELSE <<Region(b.readIndex, MAX_BUFFER_SIZE - b.readIndex), Region(0, b.readIndex)>>

readvBegin(b) ==
    IF b.writeIndex >= b.readIndex
      THEN <<Region(b.readIndex, b.writeIndex - b.readIndex), Region(0, 0)>>
      ELSE <<Region(b.readIndex, MAX_BUFFER_SIZE - b.readIndex), Region(0, b.writeIndex)>>

\* The assertions of readvBegin(), which a Debug build checks.
readvAsserts(b) == readvBegin(b)[1].len = 15 /\ readvBegin(b)[2].len = 0

writevBegin(b) ==
    IF b.writeIndex >= b.readIndex
      THEN <<Region(b.writeIndex, MAX_BUFFER_SIZE - b.writeIndex), Region(0, b.readIndex)>>
      ELSE <<Region(b.writeIndex, b.readIndex - 1 - b.writeIndex), Region(0, 0)>>

Size(iov) == iov[1].len + iov[2].len

\* The cell of the i-th byte of a transfer.
CellOf(iov, i) == IF i <= iov[1].len THEN iov[1].first + i - 1
                                     ELSE iov[2].first + i - 1 - iov[1].len

\* readv() stores the bytes in the regions, writev() takes the first n.
Scatter(b, iov, bytes) ==
    [b EXCEPT !.buf = [c \in Cell |->
        IF \E i \in 1 .. Len(bytes) : CellOf(iov, i) = c
          THEN bytes[CHOOSE i \in 1 .. Len(bytes) : CellOf(iov, i) = c]
          ELSE @[c]]]
Gather(b, iov, n) == [i \in 1 .. n |-> b.buf[CellOf(iov, i)]]

-----------------------------------------------------------------------------
(* append() stops when writeIndex is one before readIndex.  The comparison *)
(* promotes to int, so with readIndex = 0 it looks for -1 and never stops. *)

Stored(b, n) ==
    LET room == (b.readIndex - 1 - b.writeIndex) % MAX_BUFFER_SIZE
    IN  IF b.readIndex > 0 /\ room < n THEN room ELSE n

\* The bytes in order, so that of two in one cell the later one stays.
append(b, bytes) ==
    LET n == Stored(b, Len(bytes))
        Into(c) == {i \in 1 .. n : (b.writeIndex + i - 1) % MAX_BUFFER_SIZE = c}
        Last(c) == CHOOSE i \in Into(c) : \A j \in Into(c) : j <= i
    IN  hasWritten([b EXCEPT !.buf = [c \in Cell |->
                        IF Into(c) = {} THEN @[c] ELSE bytes[Last(c)]]], n)
=============================================================================

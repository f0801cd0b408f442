----------------------------- MODULE ByteStore ------------------------------
(***************************************************************************)
(* What a minor device of 7_cdrv/cdrv.c promises about its contents,       *)
(* without semaphore, wait queues, open files or memory: a sequence of     *)
(* bytes, never longer than the device's size, that holds what was put     *)
(* there and has no gaps.  Nothing that was cleared or cut off ever comes  *)
(* back.  CharDevice implements it.                                        *)
(***************************************************************************)
EXTENDS Integers, Sequences

CONSTANTS Bytes,    \* the bytes that can be written, the zero byte included
          NewSizes, \* the sizes the store can be given
          StartSize,
          Fill      \* the byte a truncate fills with

VARIABLES data, size
storeVars == <<data, size>>

StoreInit == data = << >> /\ size = StartSize

\* k copies of b from position p on, which is inside the data or at its end
Overwrite(p, k, b) ==
  [i \in 1..(IF p + k > Len(data) THEN p + k ELSE Len(data)) |->
     IF p < i /\ i <= p + k THEN b ELSE data[i]]

Write(p, k, b) ==
  /\ p <= Len(data) /\ p + k <= size
  /\ data' = Overwrite(p, k, b)
  /\ UNCHANGED size

\* A write that waited for room restarts the contents.
Restart(k, b) ==
  /\ k <= size
  /\ data' = [i \in 1..k |-> b]
  /\ UNCHANGED size

Clear == data' = << >> /\ UNCHANGED size

Truncate(n) ==
  /\ n <= size
  /\ data' = [i \in 1..n |-> IF i <= Len(data) THEN data[i] ELSE Fill]
  /\ UNCHANGED size

Resize(n) ==
  /\ size' = n
  /\ data' = IF n < size THEN << >> ELSE data

StoreNext ==
  \/ \E k \in 1..size, b \in Bytes :
        \/ \E p \in 0..Len(data) : Write(p, k, b)
        \/ Restart(k, b)
  \/ Clear
  \/ \E n \in 0..size : Truncate(n)
  \/ \E n \in NewSizes : n > 0 /\ Resize(n)

StoreSpec == StoreInit /\ [][StoreNext]_storeVars
=============================================================================

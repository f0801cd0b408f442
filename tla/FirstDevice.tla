---------------------------- MODULE FirstDevice -----------------------------
(***************************************************************************)
(* The device of 6_cdrv/cdrv.c: a buffer of fixed size that one writer     *)
(* fills and any number of readers read.  Every handler holds the          *)
(* semaphore from its first check to its end and none waits, so each is    *)
(* one step.  A signal while a handler waits for the semaphore makes it    *)
(* give up; close gives up too, and does not count down.                   *)
(*                                                                         *)
(* Only the cleared file goes back to the start: the others keep their     *)
(* offsets and may write behind the end.  pwrite names any offset, and a   *)
(* write that copies nothing raises the length all the same.  A byte is    *)
(* known by the number of clears before it was written.                    *)
(***************************************************************************)
EXTENDS Integers

CONSTANTS
  Files,        \* the open files there may be
  BUFFER_SIZE,
  Offsets,      \* what pwrite is called with; an int holds them
  MaxClears,    \* bound: clears
  NULL

ASSUME FirstDeviceAssumption ==
  /\ BUFFER_SIZE \in Nat \ {0} /\ Offsets \subseteq Nat
  /\ MaxClears \in Nat /\ NULL \notin Nat

VARIABLES
  allocated,       \* whether buffer points to memory
  buffer,          \* the bytes, NULL before they are written
  current_length,
  writing,
  file,            \* mode, f_pos, and clears when f_pos was last set to 0
  clears,
  jumped,          \* what writes jumped over, behind the end, since the last clear
  skipped,         \* what was not written when a pwrite jumped over it
  wild             \* memory outside the buffer has been written

vars == <<allocated, buffer, current_length, writing, file, clears, jumped,
          skipped, wild>>

Modes == {"r", "w", "rw"}
Closed == [mode |-> "closed", pos |-> 0, seen |-> 0]
Open == {f \in Files : file[f].mode # "closed"}
Bytes == 0..BUFFER_SIZE - 1

Init ==
  /\ allocated = FALSE /\ buffer = [i \in Bytes |-> NULL]
  /\ current_length = 0 /\ writing = 0
  /\ file = [f \in Files |-> Closed]
  /\ clears = 0 /\ jumped = {} /\ skipped = {} /\ wild = FALSE

\* EBUSY, a failing kmalloc and an interrupted wait change nothing.
Opens(m) == IF m = "r" THEN allocated ELSE writing = 0

MydevOpen(f, m) ==
  /\ f \notin Open /\ Opens(m)
  /\ file' = [file EXCEPT ![f] = [mode |-> m, pos |-> 0, seen |-> clears]]
  /\ IF m = "r" THEN UNCHANGED <<allocated, writing>>
     ELSE allocated' = TRUE /\ writing' = writing + 1
  /\ UNCHANGED <<buffer, current_length, clears, jumped, skipped, wild>>

\* Whoever closes counts the writers down.
MydevRelease(f) ==
  /\ f \in Open
  /\ file' = [file EXCEPT ![f] = Closed]
  /\ \/ writing' = IF writing > 0 THEN writing - 1 ELSE 0
     \/ UNCHANGED writing
  /\ UNCHANGED <<allocated, buffer, current_length, clears, jumped, skipped, wild>>

\* copy_to_user may copy less.  pread leaves everything as it is.
MydevRead(f) ==
  /\ f \in Open /\ file[f].mode # "w"
  /\ \E n \in 1..current_length :
       /\ file[f].pos + n <= current_length
       /\ file' = [file EXCEPT ![f].pos = @ + n]
  /\ UNCHANGED <<allocated, buffer, current_length, writing, clears, jumped, skipped, wild>>

Length(end) == IF current_length < end THEN end ELSE current_length

\* What is copied when a write of any count, that may copy less, starts at
\* offset at.  Behind the buffer allowed_count is negative and, compared as a
\* size_t, limits nothing: without WriteOutside nothing is copied.
RoomMut(at) == IF at <= BUFFER_SIZE THEN BUFFER_SIZE + 1 - at ELSE 0  \* one more
Room(at) == IF at <= BUFFER_SIZE THEN BUFFER_SIZE - at ELSE 0

Copy(at, n) ==
  /\ buffer' = [i \in Bytes |-> IF at <= i /\ i < at + n THEN clears ELSE buffer[i]]
  /\ current_length' = Length(at + n)
  /\ jumped' = jumped \cup (current_length..at - 1)
  /\ UNCHANGED <<allocated, writing, clears, wild>>

Written(i) == i \in Bytes /\ buffer[i] # NULL
Skip(at) == skipped \cup {i \in 0..at - 1 : ~Written(i)}
MayWrite(f) == f \in Open /\ file[f].mode # "r"

MydevWrite(f) ==
  /\ MayWrite(f)
  /\ \E n \in 0..Room(file[f].pos) :
       Copy(file[f].pos, n) /\ file' = [file EXCEPT ![f].pos = @ + n]
  /\ UNCHANGED skipped

MydevPwrite(f, at) ==
  /\ MayWrite(f)
  /\ \E n \in 0..Room(at) : Copy(at, n)
  /\ skipped' = Skip(at)
  /\ UNCHANGED file

\* The model stops when what is behind the buffer is overwritten.
WriteOutside(f) ==
  /\ MayWrite(f)
  /\ \/ file[f].pos > BUFFER_SIZE /\ UNCHANGED skipped
     \/ \E at \in Offsets : at > BUFFER_SIZE /\ skipped' = Skip(at)
  /\ wild' = TRUE
  /\ UNCHANGED <<allocated, buffer, current_length, writing, file, clears, jumped>>

AfterClearMut(f) == [file EXCEPT ![f].seen = clears + 1]  \* f_pos stays
AfterClear(f) == [file EXCEPT ![f].pos = 0, ![f].seen = clears + 1]

\* IOC_NR_CLEAR; the other commands change nothing.
MydevClear(f) ==
  /\ f \in Open /\ clears < MaxClears
  /\ current_length' = 0
  /\ file' = AfterClear(f)
  /\ clears' = clears + 1 /\ jumped' = {}
  /\ UNCHANGED <<allocated, buffer, writing, skipped, wild>>

Next ==
  /\ ~wild
  /\ \E f \in Files :
       \/ \E m \in Modes : MydevOpen(f, m)
       \/ MydevRelease(f) \/ MydevRead(f) \/ MydevWrite(f) \/ MydevClear(f)
       \/ \E at \in Offsets : MydevPwrite(f, at)
       \/ WriteOutside(f)

Spec == Init /\ [][Next]_vars

-----------------------------------------------------------------------------
(* Properties                                                              *)

TypeOK ==
  /\ allocated \in BOOLEAN /\ wild \in BOOLEAN
  /\ buffer \in [Bytes -> Nat \cup {NULL}]
  /\ current_length \in Nat
  /\ writing \in 0..1
  /\ file \in [Files -> [mode : Modes \cup {"closed"}, pos : Nat, seen : Nat]]
  /\ clears \in Nat
  /\ jumped \subseteq Nat /\ skipped \subseteq Nat

\* Memory from kmalloc is never read before it was written, and nothing outside
\* the buffer is read or written, unless a pwrite jumped there: every other byte
\* below the length, and below the offset of an open file, was written.
NothingUnset ==
  /\ \A i \in 0..current_length - 1 : Written(i) \/ i \in skipped
  /\ \A f \in Files : \A i \in 0..file[f].pos - 1 : Written(i) \/ i \in skipped
  /\ \A f \in Open : allocated
  /\ wild => \E i \in skipped : i >= BUFFER_SIZE

\* A file is behind the end only when another one cleared the device since it was
\* at its start; bytes from before the last clear come back only where it, or a
\* pwrite, jumped over them.
ClearedStaysCleared ==
  /\ \A f \in Files : file[f].seen = clears => file[f].pos <= current_length
  /\ \A i \in Bytes : i < current_length => buffer[i] = clears \/ i \in jumped
=============================================================================

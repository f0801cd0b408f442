----------------------------- MODULE CharDevice -----------------------------
(***************************************************************************)
(* One minor device of the character driver 7_cdrv/cdrv.c and the open     *)
(* files that use it.  The device is a byte buffer that is written, read   *)
(* without being consumed, cleared, truncated and resized, under the       *)
(* semaphore dev->sync.  A read that wants more than there is and a write  *)
(* that meets the end of the buffer give the semaphore up, sleep on a wait *)
(* queue and take it again.                                                *)
(*                                                                         *)
(* A call is split where another process can see or change the device: at  *)
(* each down_interruptible, at each test of a wait condition (made without *)
(* the semaphore), and inside IOC_NR_SETBUFFERSIZE, which publishes a      *)
(* length before it falls through into IOC_NR_TRUNCATE.                    *)
(***************************************************************************)
EXTENDS Integers, Sequences, FiniteSets

CONSTANTS
  Files,         \* the struct file objects, one process behind each
  Writers,       \* those with FMODE_WRITE
  Readers,       \* those with FMODE_READ
  NDelay,        \* those with O_NDELAY
  AppendMode,    \* those with O_APPEND
  Interruptible, \* those whose process may be sent a signal
  Calls,         \* the system calls and ioctls that are made
  Counts,        \* the byte counts passed to read and write
  Sizes,         \* the arguments of IOC_SETBUFFERSIZE and IOC_TRUNCATE
  InitSize,      \* BUFFER_SIZE
  AllocMayFail,  \* whether kmalloc may return NULL
  CounterMod,    \* the sum_ counters are unsigned: they wrap at CounterMod
  Zero, Junk     \* the byte 0, and a byte nobody wrote

ASSUME FilesAssumption ==
  /\ Writers \subseteq Files /\ Readers \subseteq Files
  /\ Files = Writers \cup Readers
  /\ NDelay \subseteq Files /\ AppendMode \subseteq Files
  /\ Interruptible \subseteq Files
ASSUME SizeAssumption ==
  /\ Counts \subseteq Nat
  /\ Sizes \subseteq Int
  /\ InitSize \in Nat \ {0}
  /\ CounterMod \in Nat \ {0}
  /\ AllocMayFail \in BOOLEAN
ASSUME ByteAssumption == Zero # Junk /\ Junk \notin Writers

VARIABLES
  dev,   \* struct my_cdev
  sum,   \* its sum_ counters
  pc,    \* where each process is
  call,  \* its system call: op, argument n, *offset, bytes copied so far
  pos,   \* filep->f_pos
  ret    \* what its last call returned

vars == <<dev, sum, pc, call, pos, ret>>

ERESTARTSYS == -512
ENOMEM == -12
EFAULT == -14
EBUSY == -16
EINVAL == -22
ESPIPE == -29

\* An operator whose name ends in Mut is the following one with a
\* bug; nothing uses it but the trials of the properties.
NULL == << >>            \* no buffer; an allocated one has dev.buffer_size bytes
Byte == Writers \cup {Zero, Junk}   \* a written byte is known by who wrote it

Ops == {"none", "open", "release", "read", "write",
        "readcnt", "writecnt", "clear", "resize", "truncate"}
PCs == {"closed", "idle",   \* in user space
        "down", "redown",   \* in down_interruptible, first and second time
        "body", "rest",     \* past it
        "tail",             \* in the IOC_NR_TRUNCATE case, from the one above it
        "wait", "sleep",    \* about to test the wait condition; asleep
        "oops"}             \* killed by a NULL dereference, semaphore held

NoCall == [op |-> "none", n |-> 0, off |-> 0, cnt |-> 0]
Lesser(a, b) == IF a < b THEN a ELSE b

\* if (allowed_count < count) count = allowed_count; the int is compared as
\* a size_t, so a negative one does not limit anything.
LimitMut(allowed, count) == IF 0 <= allowed /\ allowed < count   \* one byte more
                            THEN allowed + 1 ELSE count
Limit(allowed, count) == IF 0 <= allowed /\ allowed < count THEN allowed ELSE count

\* kmalloc, copy_from_user to buffer + at, and the reallocation's memcpy
Alloc(n) == [i \in 1..n |-> Junk]
Put(buffer, at, k, b) ==
  [i \in DOMAIN buffer |-> IF at < i /\ i <= at + k THEN b ELSE buffer[i]]
GrowMut(buffer, n, length) ==               \* one byte less is copied
  [i \in 1..n |-> IF i < length THEN buffer[i] ELSE Junk]
Grow(buffer, n, length) == [i \in 1..n |-> IF i <= length THEN buffer[i] ELSE Junk]

\* copy_to_user and copy_from_user of k bytes at dev->buffer: the copy from or
\* to a NULL buffer is given up at its first byte, or it kills (Oops below).
Copyable(k) == IF dev.buffer = NULL THEN 0 ELSE k

Count(k) == (k + 1) % CounterMod
DecMut(k) == k - 1                          \* the guard is dropped
Dec(k) == IF k > 0 THEN k - 1 ELSE k
UpMut(d) == d                               \* the semaphore is not given back
Up(d) == [d EXCEPT !.sync = 1]

-----------------------------------------------------------------------------
\* cdrv_init
Init ==
  /\ dev = [sync |-> 1, buffer_size |-> InitSize, current_length |-> 0,
            buffer |-> NULL, writing |-> 0, reading |-> 0]
  /\ sum = [open |-> 0, read |-> 0, write |-> 0, release |-> 0, clear |-> 0]
  /\ pc = [f \in Files |-> "closed"]
  /\ call = [f \in Files |-> NoCall]
  /\ pos = [f \in Files |-> 0]
  /\ ret = [f \in Files |-> 0]

\* What the process behind f may ask for, given what it has open.
MayCall(f, op, n) ==
  /\ op \in Calls
  /\ \/ op = "open" /\ pc[f] = "closed" /\ n = 0
     \/ /\ pc[f] = "idle"
        /\ \/ op \in {"release", "readcnt", "writecnt", "clear"} /\ n = 0
           \/ op = "read" /\ f \in Readers /\ n \in Counts
           \/ op = "write" /\ f \in Writers /\ n \in Counts
           \/ op \in {"resize", "truncate"} /\ n \in Sizes

\* A system call reaches down_interruptible; mydev_open sets f_pos first.
Call(f, op, n) ==
  /\ MayCall(f, op, n)
  /\ pos' = [pos EXCEPT ![f] = IF op = "open" THEN 0 ELSE @]
  /\ pc' = [pc EXCEPT ![f] = "down"]
  /\ call' = [call EXCEPT ![f] = [op |-> op, n |-> n, off |-> pos'[f], cnt |-> 0]]
  /\ ret' = [ret EXCEPT ![f] = 0]
  /\ UNCHANGED <<dev, sum>>

SemaphoreFreeMut == TRUE                    \* nobody takes the semaphore
SemaphoreFree == dev.sync = 1

Down(f) ==
  /\ pc[f] \in {"down", "redown"}
  /\ SemaphoreFree
  /\ dev' = [dev EXCEPT !.sync = 0]
  /\ pc' = [pc EXCEPT ![f] = IF @ = "down" THEN "body" ELSE "rest"]
  /\ UNCHANGED <<sum, call, pos, ret>>

SleepersMut(op) == {}                       \* wake_up is left out
Sleepers(op) == {f \in Files : pc[f] = "sleep" /\ call[f].op = op}

\* The call of f returns r, having woken the processes in woken.  The VFS
\* stores *offset, which is o, in f_pos unless the call failed, and a file
\* is gone after release whatever release returned.
Return(f, r, o, woken) ==
  LET gone == call[f].op = "release" \/ (call[f].op = "open" /\ r < 0)
  IN  /\ pc' = [g \in Files |-> CASE g = f /\ gone -> "closed"
                                  [] g = f /\ ~gone -> "idle"
                                  [] g # f /\ g \in woken -> "wait"
                                  [] OTHER -> pc[g]]
      /\ call' = [call EXCEPT ![f] = NoCall]
      /\ pos' = [pos EXCEPT ![f] = IF r < 0 THEN @ ELSE o]
      /\ ret' = [ret EXCEPT ![f] = r]

\* The fault of a NULL buffer kills the process, which never calls up.
Oops(f) ==
  /\ pc' = [pc EXCEPT ![f] = "oops"]
  /\ UNCHANGED <<dev, sum, call, pos, ret>>

-----------------------------------------------------------------------------
Busy == dev.writing > 0
NeedsBuffer(f) == f \in Writers /\ dev.buffer = NULL

OpenBody(f) ==
  LET write == f \in Writers
      fail(r) == dev' = Up(dev) /\ Return(f, r, pos[f], {}) /\ UNCHANGED sum
  IN  /\ pc[f] = "body" /\ call[f].op = "open"
      /\ \/ write /\ Busy /\ fail(EBUSY)
         \/ NeedsBuffer(f) /\ ~Busy /\ AllocMayFail /\ fail(ENOMEM)
         \/ ~write /\ dev.buffer = NULL /\ fail(ENOMEM)
         \/ /\ IF write THEN ~Busy ELSE dev.buffer # NULL
            /\ dev' = Up([dev EXCEPT
                 !.buffer = IF NeedsBuffer(f) THEN Alloc(dev.buffer_size) ELSE @,
                 !.writing = IF write THEN @ + 1 ELSE @])
            /\ sum' = [sum EXCEPT !.open = Count(@),
                         !.write = IF write THEN Count(@) ELSE @,
                         !.read = IF f \in Readers THEN Count(@) ELSE @]
            /\ Return(f, 0, pos[f], {})

ReleaseBody(f) ==
  /\ pc[f] = "body" /\ call[f].op = "release"
  /\ dev' = Up([dev EXCEPT !.writing = Dec(@), !.reading = Dec(@)])
  /\ sum' = [sum EXCEPT !.release = Count(@)]
  /\ Return(f, 0, pos[f], {})

-----------------------------------------------------------------------------
\* mydev_read up to its wait, or to its end when it does not wait
ReadBody(f) ==
  LET c == call[f]
      got == Lesser(c.n, dev.current_length - c.off)
      waits == got < c.n /\ f \notin NDelay /\ dev.writing > 0
  IN  /\ pc[f] = "body" /\ c.op = "read"
      /\ dev' = Up(dev)
      /\ \/ /\ c.off >= dev.current_length
            /\ Return(f, ESPIPE, c.off, {})
            /\ UNCHANGED sum
         \/ /\ c.off < dev.current_length /\ waits
            /\ pc' = [pc EXCEPT ![f] = "wait"]
            /\ call' = [call EXCEPT ![f].cnt = got]
            /\ UNCHANGED <<sum, pos, ret>>
         \/ /\ c.off < dev.current_length /\ ~waits
            /\ sum' = [sum EXCEPT !.read = Count(@)]
            /\ Return(f, got, c.off + got, {})

ReadRestMut(f) ==        \* waits on with the semaphore if the data is gone again
  LET c == call[f]
      left == Limit(dev.current_length - c.off, c.n - c.cnt)
  IN  /\ pc[f] = "rest" /\ c.op = "read"
      /\ dev.current_length >= c.n \/ dev.current_length = dev.buffer_size
      /\ dev' = Up(dev)
      /\ sum' = [sum EXCEPT !.read = Count(@)]
      /\ Return(f, c.cnt + left, c.off + c.cnt + left, {})
\* mydev_read after its wait: allowed_count is taken from *offset, the copy
\* starts at *offset + count
ReadRest(f) ==
  LET c == call[f]
      left == Limit(dev.current_length - c.off, c.n - c.cnt)
      more == Copyable(left)
  IN  /\ pc[f] = "rest" /\ c.op = "read"
      /\ \/ more < left /\ Oops(f)
         \/ /\ dev' = Up(dev)
            /\ sum' = [sum EXCEPT !.read = Count(@)]
            /\ Return(f, c.cnt + more, c.off + c.cnt + more, {})

\* *offset after the reset that follows a clear, or that O_APPEND asks for
WriteOffsetMut(f) == call[f].off            \* the offset is not reset
WriteOffset(f) ==
  IF call[f].off > dev.current_length \/ f \in AppendMode
  THEN dev.current_length
  ELSE call[f].off

\* mydev_write up to its wait, or to its end when it does not wait
WriteBody(f) ==
  LET c == call[f]
      off == WriteOffset(f)
      allowed == Limit(dev.buffer_size - off, c.n)
      put == Copyable(allowed)
      waits == put < c.n /\ f \notin NDelay
  IN  /\ pc[f] = "body" /\ c.op = "write"
      /\ \/ put < allowed /\ Oops(f)
         \/ /\ dev' = Up([dev EXCEPT
                 !.buffer = Put(@, off, put, f),
                 !.current_length = IF @ < off + put THEN off + put ELSE @])
            /\ \/ /\ waits
                  /\ pc' = [pc EXCEPT ![f] = "wait"]
                  /\ call' = [call EXCEPT ![f].off = off + put, ![f].cnt = put]
                  /\ UNCHANGED <<sum, pos, ret>>
               \/ /\ ~waits
                  /\ sum' = [sum EXCEPT !.write = Count(@)]
                  /\ Return(f, put, off + put, Sleepers("read"))

\* mydev_write after its wait: what is left goes to the start of the buffer
WriteRest(f) ==
  LET c == call[f]
      left == Lesser(dev.buffer_size, c.n - c.cnt)
      put == Copyable(left)
  IN  /\ pc[f] = "rest" /\ c.op = "write"
      /\ \/ put < left /\ Oops(f)
         \/ /\ dev' = Up([dev EXCEPT !.current_length = put,
                                  !.buffer = Put(@, 0, put, f)])
            /\ sum' = [sum EXCEPT !.write = Count(@)]
            /\ Return(f, c.cnt + put, put, Sleepers("read"))

\* The two wait_event_interruptible conditions, read without the semaphore
Ready(f) ==
  IF call[f].op = "read"
  THEN \/ dev.current_length >= call[f].n
       \/ dev.current_length = dev.buffer_size
  ELSE call[f].off > dev.current_length

WaitTest(f) ==
  /\ pc[f] = "wait"
  /\ pc' = [pc EXCEPT ![f] = IF Ready(f) THEN "redown" ELSE "sleep"]
  /\ UNCHANGED <<dev, sum, call, pos, ret>>

\* A signal reaches a process that is blocked on the semaphore or asleep.
Signal(f) ==
  /\ f \in Interruptible
  /\ UNCHANGED <<dev, sum>>
  /\ \/ /\ \/ pc[f] \in {"down", "redown"} /\ ~SemaphoreFree
           \/ pc[f] \in {"wait", "sleep"} /\ ~Ready(f)
        /\ Return(f, ERESTARTSYS, pos[f], {})
     \/ /\ pc[f] = "sleep" /\ Ready(f)
        /\ pc' = [pc EXCEPT ![f] = "redown"]
        /\ UNCHANGED <<call, pos, ret>>

-----------------------------------------------------------------------------
\* The cases of mydev_ioctl.  IOC_NR_READCNT and IOC_NR_WRITECNT:
IoctlCount(f) ==
  /\ pc[f] = "body" /\ call[f].op \in {"readcnt", "writecnt"}
  /\ dev' = Up(dev)
  /\ Return(f, IF call[f].op = "readcnt" THEN dev.reading ELSE dev.writing, pos[f], {})
  /\ UNCHANGED sum

IoctlClearMut(f) ==                         \* the writers are not woken
  /\ pc[f] = "body" /\ call[f].op = "clear"
  /\ dev' = Up([dev EXCEPT !.current_length = 0])
  /\ sum' = [sum EXCEPT !.clear = Count(@)]
  /\ Return(f, 0, pos[f], {})
IoctlClear(f) ==
  /\ pc[f] = "body" /\ call[f].op = "clear"
  /\ dev' = Up([dev EXCEPT !.current_length = 0])
  /\ sum' = [sum EXCEPT !.clear = Count(@)]
  /\ Return(f, 0, pos[f], Sleepers("write"))

\* IOC_NR_SETBUFFERSIZE: no break after the new size is set, no up when the
\* size is refused, and the growing branch tests dev->buffer, not new_buff
IoctlResize(f) ==
  LET n == call[f].n
      fallThrough == pc' = [pc EXCEPT ![f] = "tail"] /\ UNCHANGED <<call, pos, ret>>
      shrink == dev.buffer # NULL /\ n < dev.buffer_size
      grow == dev.buffer # NULL /\ n > dev.buffer_size
  IN  /\ pc[f] = "body" /\ call[f].op = "resize"
      /\ UNCHANGED sum
      /\ \/ n <= 0 /\ Return(f, ENOMEM, pos[f], {}) /\ UNCHANGED dev
         \/ /\ n = dev.buffer_size
            /\ dev' = Up(dev)
            /\ Return(f, 0, pos[f], {})
         \/ /\ n > 0 /\ n # dev.buffer_size /\ dev.buffer = NULL
            /\ dev' = [dev EXCEPT !.buffer_size = n]
            /\ fallThrough
         \/ /\ n > 0 /\ shrink
            /\ dev' = [dev EXCEPT !.current_length = 0, !.buffer = Alloc(n),
                                  !.buffer_size = n]
            /\ fallThrough
         \/ /\ n > 0 /\ shrink /\ AllocMayFail
            /\ dev' = Up([dev EXCEPT !.current_length = 0, !.buffer = NULL])
            /\ Return(f, ENOMEM, pos[f], {})
         \/ /\ grow
            /\ dev' = [dev EXCEPT !.buffer = Grow(@, n, dev.current_length),
                                  !.buffer_size = n]
            /\ fallThrough
         \/ /\ grow /\ AllocMayFail /\ dev.current_length = 0
            /\ dev' = [dev EXCEPT !.buffer = NULL, !.buffer_size = n]
            /\ fallThrough
         \/ grow /\ AllocMayFail /\ dev.current_length > 0 /\ Oops(f)

\* IOC_NR_TRUNCATE, called by its name or reached from the case above it
IoctlTruncate(f) ==
  LET n == call[f].n
      length == dev.current_length
      refused == n > dev.buffer_size \/ n < 0
  IN  /\ \/ pc[f] = "body" /\ call[f].op = "truncate"
         \/ pc[f] = "tail"
      /\ UNCHANGED sum
      /\ \/ /\ refused \/ dev.buffer = NULL
            /\ dev' = Up(dev)
            /\ Return(f, IF refused THEN EINVAL ELSE EFAULT, pos[f], {})
         \/ /\ ~refused /\ dev.buffer # NULL
            /\ dev' = Up([dev EXCEPT !.current_length = n,
                                  !.buffer = Put(@, length, n - length, Zero)])
            /\ Return(f, length, pos[f], Sleepers("write"))

-----------------------------------------------------------------------------
Body(f) ==
  \/ OpenBody(f) \/ ReleaseBody(f)
  \/ ReadBody(f) \/ ReadRest(f)
  \/ WriteBody(f) \/ WriteRest(f)
  \/ IoctlCount(f) \/ IoctlClear(f) \/ IoctlResize(f) \/ IoctlTruncate(f)

Next ==
  \E f \in Files :
    \/ \E op \in Ops, n \in Counts \cup Sizes \cup {0} : Call(f, op, n)
    \/ Down(f)
    \/ Body(f)
    \/ WaitTest(f)
    \/ Signal(f)

Spec == Init /\ [][Next]_vars

\* The kernel runs a process that can run; dev->sync hands itself to its
\* waiters in order, so no waiter is passed over for ever.  Nothing makes a
\* process start a call, and nothing sends it a signal.
Fairness ==
  \A f \in Files : WF_vars(Body(f)) /\ WF_vars(WaitTest(f)) /\ SF_vars(Down(f))

FairSpec == Spec /\ Fairness

-----------------------------------------------------------------------------
\* A process that waits, or has waited, is in a read or write of which it has
\* done a part, only a resize goes on to the tail, and the VFS lets only a
\* file opened for it read or write.
CallOK(f, c, p) ==
  /\ c.op = "read" => f \in Readers /\ c.n \in Nat
  /\ c.op = "write" => f \in Writers /\ c.n \in Nat
  /\ p \in {"wait", "sleep", "redown", "rest"} =>
       c.op \in {"read", "write"} /\ c.cnt <= c.n
  /\ p = "tail" => c.op = "resize" /\ c.n \in Nat

Devices == [sync : {0, 1}, buffer_size : Nat \ {0}, current_length : Nat,
            buffer : Seq(Byte), writing : Nat, reading : Nat]
Sums == [open : Nat, read : Nat, write : Nat, release : Nat, clear : Nat]
SystemCalls == [op : Ops, n : Int, off : Nat, cnt : Nat]

DeviceOK == dev \in Devices /\ sum \in Sums

ProcessesOK ==
  /\ pc \in [Files -> PCs]
  /\ call \in [Files -> SystemCalls]
  /\ \A f \in Files : CallOK(f, call[f], pc[f])
  /\ pos \in [Files -> Nat]
  /\ ret \in [Files -> Int]

\* The values every variable ranges over.
TypeOK == DeviceOK /\ ProcessesOK

Holds(f) == pc[f] \in {"body", "rest", "tail", "oops"}
Opened(f) == pc[f] # "closed" /\ call[f].op # "open"
Asleep(f, op) == pc[f] = "sleep" /\ call[f].op = op

\* dev->sync is a mutex: at most one process is past a down_interruptible,
\* and none when the semaphore is free.
MutualExclusion ==
  /\ \A f, g \in Files : Holds(f) /\ Holds(g) => f = g
  /\ SemaphoreFree => \A f \in Files : ~Holds(f)

\* dev->sync is down and nobody who could give it back is past it.
Stuck == ~SemaphoreFree /\ \A f \in Files : pc[f] \notin {"body", "rest", "tail"}

\* Every path of a handler gives the semaphore back, through its waits and
\* signals, but two, and those lose it for ever: IOC_NR_SETBUFFERSIZE returns
\* without up when it refuses a size, and a NULL buffer kills its process.
SemaphoreReturned ==
  [][Stuck' <=>
       \/ Stuck
       \/ \E f \in Files :
            \/ pc[f] # "oops" /\ pc'[f] = "oops"
            \/ pc[f] = "body" /\ pc'[f] = "idle"
               /\ call[f].op = "resize" /\ call[f].n <= 0]_vars

\* The allocation, buffer_size and current_length agree, so that every copy
\* limited by the last two stays inside the first.
LengthWithinBuffer ==
  /\ dev.current_length <= dev.buffer_size
  /\ dev.buffer # NULL => Len(dev.buffer) = dev.buffer_size
  /\ dev.buffer = NULL => dev.current_length = 0

\* Every byte below current_length was written or zero-filled: what kmalloc
\* left in the memory is never part of the contents.
OnlyWrittenBytes ==
  \A i \in 1..dev.current_length : dev.buffer[i] # Junk

\* The contents below current_length behave as a ByteStore: no write leaves
\* a gap, and nothing cleared or truncated comes back, whatever offsets the
\* open files still hold.  A byte outside the allocation is anybody's.
Store == INSTANCE ByteStore WITH
  Bytes <- Writers \cup {Zero}, NewSizes <- Sizes, StartSize <- InitSize,
  Fill <- Zero, size <- dev.buffer_size,
  data <- [i \in 1..dev.current_length |->
             IF i \in DOMAIN dev.buffer THEN dev.buffer[i] ELSE Junk]
ImplementsStore == Store!StoreSpec

\* A file opened for writing excludes every other one.
SingleWriter ==
  \A f, g \in Writers : Opened(f) /\ Opened(g) => f = g

\* No lost wake-up for a writer: one that sleeps has no room, unless a
\* resize is on its way to the wake_up at its end.
SleepingWriterHasNoRoom ==
  \A f \in Files : Asleep(f, "write") /\ Ready(f) => \E g \in Files : pc[g] = "tail"

\* A reader that sleeps on data that is there was passed over by a write that
\* has not finished: a write that returns has woken everybody it could serve.
ReaderWaitsForWriteInProgress ==
  \A f \in Files : Asleep(f, "read") /\ Ready(f) =>
    \E g \in Files : call[g].op = "write" /\ pc[g] \in {"wait", "sleep", "redown", "rest"}

Completes(f, op) == call[f].op = op /\ pc'[f] = "idle"

\* A read returns bytes of the contents only: it never carries the file
\* position beyond the length the device has when it copies.
ReadStaysInside ==
  [][\A f \in Files :
       Completes(f, "read") /\ ret'[f] >= 0 => pos'[f] <= dev'.current_length]_vars

\* Whoever waits for dev->sync gets it, unless it was lost in one of the two
\* ways that SemaphoreReturned leaves.
CallsGetSemaphore ==
  \A f \in Files :
    pc[f] \in {"down", "redown"} ~> pc[f] \notin {"down", "redown"} \/ Stuck

\* A writer asleep on wq_write while there is room is woken.
RoomWakesWriter ==
  \A f \in Writers : (Asleep(f, "write") /\ Ready(f)) ~> ~Asleep(f, "write")

=============================================================================

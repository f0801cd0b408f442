-------------------------- MODULE CharDeviceProofs --------------------------
(***************************************************************************)
(* Proofs about CharDevice, for any files, modes, sizes and counts.        *)
(***************************************************************************)
EXTENDS CharDevice, TLAPS

-----------------------------------------------------------------------------
(* What the helpers return.                                                *)

\* The counters stay natural numbers.
LEMMA CountNat == ASSUME NEW k \in Nat PROVE Count(k) \in Nat
BY SizeAssumption DEF Count

LEMMA DecNat == ASSUME NEW k \in Nat PROVE Dec(k) \in Nat /\ Dec(k) <= k
BY DEF Dec

\* kmalloc of n bytes returns n bytes.
LEMMA AllocType ==
  ASSUME NEW n \in Nat \ {0}
  PROVE  Alloc(n) \in Seq(Byte) /\ Len(Alloc(n)) = n /\ Alloc(n) # NULL
BY DEF Alloc, Byte, NULL

\* A copy changes the bytes from at + 1 to at + k and nothing else.
LEMMA PutType ==
  ASSUME NEW buffer \in Seq(Byte), NEW at \in Int, NEW k \in Int, NEW b \in Byte
  PROVE  /\ Put(buffer, at, k, b) \in Seq(Byte)
         /\ Len(Put(buffer, at, k, b)) = Len(buffer)
         /\ \A i \in 1..Len(buffer) :
              Put(buffer, at, k, b)[i] = IF at < i /\ i <= at + k THEN b ELSE buffer[i]
         /\ buffer # NULL => Put(buffer, at, k, b) # NULL
BY DEF Put, NULL

LEMMA GrowType ==
  ASSUME NEW buffer \in Seq(Byte), NEW n \in Nat \ {0},
         NEW length \in Nat, length <= Len(buffer), length <= n
  PROVE  /\ Grow(buffer, n, length) \in Seq(Byte)
         /\ Len(Grow(buffer, n, length)) = n
         /\ Grow(buffer, n, length) # NULL
         /\ \A i \in 1..length : Grow(buffer, n, length)[i] = buffer[i]
BY DEF Grow, NULL, Byte

-----------------------------------------------------------------------------
(* Types.                                                                  *)

\* Only processes asleep are woken.
LEMMA SleepersAsleep ==
  ASSUME NEW op PROVE Sleepers(op) \subseteq {g \in Files : pc[g] = "sleep"}
BY DEF Sleepers

\* The end of a call keeps the types of the processes.
LEMMA ReturnType ==
  ASSUME ProcessesOK, NEW f \in Files, NEW r \in Int, NEW o, r >= 0 => o \in Nat,
         NEW woken \in SUBSET {g \in Files : pc[g] = "sleep"},
         Return(f, r, o, woken)
  PROVE  ProcessesOK'
<1>1. pc' \in [Files -> PCs]
  BY DEF Return, ProcessesOK, PCs
<1>2. call' \in [Files -> SystemCalls]
  BY DEF Return, ProcessesOK, NoCall, Ops, SystemCalls
<1>3. ASSUME NEW g \in Files PROVE CallOK(g, call[g], pc[g])'
  <2>1. CASE g = f
    BY <2>1 DEF Return, ProcessesOK, CallOK, NoCall
  <2>2. CASE g # f
    BY <2>2 DEF Return, ProcessesOK, CallOK
  <2> QED BY <2>1, <2>2
<1>4. pos' \in [Files -> Nat] /\ ret' \in [Files -> Int]
  BY DEF Return, ProcessesOK
<1> QED BY <1>1, <1>2, <1>3, <1>4 DEF ProcessesOK

\* Giving the semaphore back, and any change of the other fields that an
\* operation makes, keeps the type of the device.
LEMMA UpType == ASSUME NEW d \in Devices PROVE Up(d) \in Devices
BY DEF Devices, Up

LEMMA EditType ==
  ASSUME DeviceOK, NEW b \in Seq(Byte), NEW l \in Nat, NEW s \in Nat \ {0},
         NEW w \in Nat, NEW r \in Nat
  PROVE  /\ [dev EXCEPT !.buffer = b, !.writing = w] \in Devices
         /\ [dev EXCEPT !.writing = w, !.reading = r] \in Devices
         /\ [dev EXCEPT !.buffer = b, !.current_length = l] \in Devices
         /\ [dev EXCEPT !.current_length = l, !.buffer = b] \in Devices
         /\ [dev EXCEPT !.current_length = l] \in Devices
         /\ [dev EXCEPT !.buffer_size = s] \in Devices
         /\ [dev EXCEPT !.buffer = b, !.buffer_size = s] \in Devices
         /\ [dev EXCEPT !.current_length = l, !.buffer = b, !.buffer_size = s] \in Devices
BY DEF DeviceOK, Devices

LEMMA FieldTypes ==
  ASSUME DeviceOK
  PROVE  /\ dev.sync \in {0, 1} /\ dev.buffer_size \in Nat \ {0}
         /\ dev.current_length \in Nat /\ dev.buffer \in Seq(Byte)
         /\ dev.writing \in Nat /\ dev.reading \in Nat
BY DEF DeviceOK, Devices

\* Each operation counts itself in some of the sums.
LEMMA SumType ==
  ASSUME DeviceOK, NEW i \in Nat, NEW j \in Nat, NEW k \in Nat
  PROVE  /\ [sum EXCEPT !.open = i, !.write = j, !.read = k] \in Sums
         /\ [sum EXCEPT !.release = i] \in Sums
         /\ [sum EXCEPT !.read = i] \in Sums
         /\ [sum EXCEPT !.write = i] \in Sums
         /\ [sum EXCEPT !.clear = i] \in Sums
         /\ Count(sum.read) \in Nat /\ Count(sum.write) \in Nat
         /\ Count(sum.release) \in Nat /\ Count(sum.clear) \in Nat
BY CountNat DEF DeviceOK, Sums

\* The invariant: what is needed to see that the next step keeps it.
IInv == TypeOK /\ MutualExclusion /\ LengthWithinBuffer /\ OnlyWrittenBytes

\* A system call starts with a fresh record and a natural offset.
LEMMA CallType ==
  ASSUME IInv, NEW f \in Files, NEW op \in Ops,
         NEW n \in Counts \cup Sizes \cup {0}, Call(f, op, n)
  PROVE  TypeOK'
<1>1. /\ n \in Int
      /\ op = "read" => n \in Nat /\ f \in Readers
      /\ op = "write" => n \in Nat /\ f \in Writers
  BY SizeAssumption DEF Call, MayCall
<1>2. pos' \in [Files -> Nat] /\ ret' \in [Files -> Int] /\ pc' \in [Files -> PCs]
  BY DEF Call, IInv, TypeOK, ProcessesOK, PCs
<1>3. call' \in [Files -> SystemCalls]
  BY <1>1, <1>2 DEF Call, IInv, TypeOK, ProcessesOK, SystemCalls
<1>4. ASSUME NEW g \in Files PROVE CallOK(g, call[g], pc[g])'
  <2>1. CASE g = f
    BY <1>1, <2>1 DEF Call, IInv, TypeOK, ProcessesOK, CallOK
  <2>2. CASE g # f
    BY <2>2 DEF Call, IInv, TypeOK, ProcessesOK, CallOK
  <2> QED BY <2>1, <2>2
<1>5. DeviceOK'
  BY DEF Call, IInv, TypeOK, DeviceOK
<1> QED BY <1>2, <1>3, <1>4, <1>5 DEF TypeOK, ProcessesOK

\* down_interruptible moves the process to the part that follows it.
LEMMA DownType == ASSUME IInv, NEW f \in Files, Down(f) PROVE TypeOK'
<1>1. DeviceOK'
  BY DEF Down, IInv, TypeOK, DeviceOK, Devices
<1>2. ProcessesOK'
  BY DEF Down, IInv, TypeOK, ProcessesOK, PCs, CallOK
<1> QED BY <1>1, <1>2 DEF TypeOK

LEMMA OpenType == ASSUME IInv, NEW f \in Files, OpenBody(f) PROVE TypeOK'
<1> USE DEF IInv, TypeOK
<1>1. sum' \in Sums
  <2>1. CASE UNCHANGED sum
    BY <2>1 DEF DeviceOK
  <2>2. CASE ~UNCHANGED sum
    <3> DEFINE j == IF f \in Writers THEN Count(sum.write) ELSE sum.write
               k == IF f \in Readers THEN Count(sum.read) ELSE sum.read
    <3>1. sum' = [sum EXCEPT !.open = Count(@), !.write = j, !.read = k]
      BY <2>2 DEF OpenBody
    <3>2. j \in Nat /\ k \in Nat /\ Count(sum.open) \in Nat
      BY <2>2, CountNat DEF DeviceOK, Sums
    <3> HIDE DEF j, k
    <3> QED BY <3>1, <3>2, SumType
  <2> QED BY <2>1, <2>2
<1>2. dev' \in Devices
  <2>1. CASE dev' = Up(dev)
    BY <2>1, UpType DEF DeviceOK
  <2>2. CASE dev' # Up(dev)
    <3> DEFINE b == IF NeedsBuffer(f) THEN Alloc(dev.buffer_size) ELSE dev.buffer
               w == IF f \in Writers THEN dev.writing + 1 ELSE dev.writing
    <3>1. b \in Seq(Byte) /\ w \in Nat
      BY AllocType, FieldTypes
    <3>2. dev' = Up([dev EXCEPT !.buffer = b, !.writing = w])
      BY <2>2 DEF OpenBody
    <3>3. [dev EXCEPT !.buffer = b, !.writing = w] \in Devices
      <4> HIDE DEF b, w
      <4> QED BY <3>1, EditType, FieldTypes
    <3> QED BY <3>2, <3>3, UpType
  <2> QED BY <2>1, <2>2
<1>3. \E r \in {EBUSY, ENOMEM, 0} : Return(f, r, pos[f], {})
  BY DEF OpenBody
<1>4. ProcessesOK'
  <2>1. pos[f] \in Nat
    BY DEF ProcessesOK
  <2>2. PICK r \in Int : Return(f, r, pos[f], {})
    BY <1>3 DEF EBUSY, ENOMEM
  <2> QED BY <2>1, <2>2, ReturnType
<1> QED BY <1>1, <1>2, <1>4 DEF DeviceOK

LEMMA ReleaseType == ASSUME IInv, NEW f \in Files, ReleaseBody(f) PROVE TypeOK'
<1> USE DEF IInv, TypeOK
<1>1. sum' \in Sums
  BY SumType DEF ReleaseBody
<1>2. dev' \in Devices
  <2> DEFINE w == Dec(dev.writing)
             r == Dec(dev.reading)
  <2>1. dev' = Up([dev EXCEPT !.writing = w, !.reading = r])
    BY DEF ReleaseBody
  <2>2. w \in Nat /\ r \in Nat
    BY DecNat, FieldTypes
  <2> HIDE DEF w, r
  <2> QED BY <2>1, <2>2, EditType, UpType, FieldTypes
<1>3. ProcessesOK'
  <2>1. pos[f] \in Nat /\ Return(f, 0, pos[f], {})
    BY DEF ProcessesOK, ReleaseBody
  <2> QED BY <2>1, ReturnType
<1> QED BY <1>1, <1>2, <1>3 DEF DeviceOK

\* The bytes a read or write may still move, and those it does, are natural.
LEMMA LimitNat ==
  ASSUME NEW a \in Int, NEW c \in Nat
  PROVE  Limit(a, c) \in Nat /\ Limit(a, c) <= c
         /\ (a >= 0 => Limit(a, c) <= a /\ Lesser(a, c) \in Nat /\ Lesser(a, c) <= a)
         /\ Lesser(a, c) <= c
BY DEF Limit, Lesser

LEMMA CopyableNat ==
  ASSUME NEW k \in Nat
  PROVE  Copyable(k) \in Nat /\ Copyable(k) <= k /\ (dev.buffer = NULL => Copyable(k) = 0)
BY DEF Copyable

\* A process that goes from one part of its call to the next, or dies.
LEMMA MoveType ==
  ASSUME ProcessesOK, NEW f \in Files, NEW p \in PCs, NEW c \in SystemCalls,
         CallOK(f, c, p), pc' = [pc EXCEPT ![f] = p], call' = [call EXCEPT ![f] = c],
         UNCHANGED <<pos, ret>>
  PROVE  ProcessesOK'
BY DEF ProcessesOK

LEMMA CallEdit ==
  ASSUME NEW c \in SystemCalls, NEW o \in Nat, NEW k \in Nat
  PROVE  /\ [c EXCEPT !.cnt = k] \in SystemCalls
         /\ [c EXCEPT !.cnt = k].op = c.op /\ [c EXCEPT !.cnt = k].n = c.n
         /\ [c EXCEPT !.cnt = k].cnt = k
         /\ [c EXCEPT !.off = o, !.cnt = k] \in SystemCalls
         /\ [c EXCEPT !.off = o, !.cnt = k].op = c.op
         /\ [c EXCEPT !.off = o, !.cnt = k].n = c.n
         /\ [c EXCEPT !.off = o, !.cnt = k].cnt = k
BY DEF SystemCalls

LEMMA OopsType == ASSUME IInv, NEW f \in Files, Oops(f) PROVE TypeOK'
<1>1. DeviceOK'
  BY DEF Oops, IInv, TypeOK, DeviceOK
<1>2. "oops" \in PCs /\ CallOK(f, call[f], "oops") /\ call[f] \in SystemCalls
  BY DEF IInv, TypeOK, ProcessesOK, CallOK, PCs
<1>3. call' = [call EXCEPT ![f] = call[f]]
  BY DEF Oops, IInv, TypeOK, ProcessesOK
<1>4. ProcessesOK'
  BY <1>2, <1>3, MoveType DEF Oops, IInv, TypeOK
<1> QED BY <1>1, <1>4 DEF TypeOK

LEMMA ReadBodyType == ASSUME IInv, NEW f \in Files, ReadBody(f) PROVE TypeOK'
<1> USE DEF IInv, TypeOK
<1> DEFINE c == call[f]
           got == Lesser(c.n, dev.current_length - c.off)
<1>1. c \in SystemCalls /\ c.n \in Nat /\ c.off \in Nat
  BY DEF ReadBody, ProcessesOK, CallOK, SystemCalls
<1>2. dev' \in Devices
  BY UpType DEF ReadBody, DeviceOK
<1>3. CASE c.off >= dev.current_length
  <2>1. UNCHANGED sum /\ Return(f, ESPIPE, c.off, {})
    BY <1>1, <1>3, FieldTypes DEF ReadBody
  <2>2. ProcessesOK'
    BY <1>1, <2>1, ReturnType DEF ESPIPE
  <2> QED BY <1>2, <2>1, <2>2 DEF DeviceOK
<1>4. CASE c.off < dev.current_length
  <2>1. got \in Nat /\ got <= c.n /\ got \in Int /\ c.off + got \in Nat
    <3> DEFINE room == dev.current_length - c.off
    <3>1. room \in Nat
      BY <1>1, <1>4, FieldTypes
    <3> HIDE DEF room, c
    <3> QED BY <1>1, <3>1 DEF Lesser, room
  <2>2. CASE sum' = sum
    <3>1. CASE Return(f, got, c.off + got, {})
      <4>1. ProcessesOK'
        <5> HIDE DEF got
        <5> QED BY <1>1, <2>1, <3>1, ReturnType
      <4> QED BY <1>2, <2>2, <4>1 DEF DeviceOK
    <3>2. CASE ~Return(f, got, c.off + got, {})
      <4>1. /\ pc' = [pc EXCEPT ![f] = "wait"]
            /\ call' = [call EXCEPT ![f].cnt = got]
            /\ UNCHANGED <<pos, ret>> /\ c.op = "read"
        BY <1>1, <1>4, <3>2, FieldTypes DEF ReadBody
      <4> DEFINE d == [c EXCEPT !.cnt = got]
      <4>2. "wait" \in PCs /\ d \in SystemCalls /\ CallOK(f, d, "wait")
        <5>1. c.op = "read" /\ f \in Readers /\ d \in SystemCalls
              /\ d.op = "read" /\ d.n = c.n /\ d.cnt = got
          <6>1. c.op = "read" /\ f \in Readers
            BY <4>1 DEF ProcessesOK, CallOK
          <6> HIDE DEF got, c
          <6> QED BY <1>1, <2>1, <6>1, CallEdit
        <5> HIDE DEF d, got, c
        <5> QED BY <1>1, <2>1, <5>1 DEF PCs, CallOK
      <4>3. call' = [call EXCEPT ![f] = d]
        BY <4>1 DEF ProcessesOK
      <4>4. ProcessesOK'
        <5> HIDE DEF d
        <5> QED BY <4>1, <4>2, <4>3, MoveType
      <4> QED BY <1>2, <2>2, <4>4 DEF DeviceOK
    <3> QED BY <3>1, <3>2
  <2>3. CASE sum' # sum
    <3>1. Return(f, got, c.off + got, {}) /\ sum' = [sum EXCEPT !.read = Count(@)]
      BY <1>1, <1>4, <2>3, FieldTypes DEF ReadBody
    <3>2. ProcessesOK'
      <4>1. Return(f, got, c.off + got, {})
        BY <3>1
      <4> HIDE DEF got, c
      <4> QED BY <2>1, <4>1, ReturnType
    <3> QED BY <1>2, <3>1, <3>2, SumType DEF DeviceOK
  <2> QED BY <2>2, <2>3
<1> QED BY <1>1, <1>3, <1>4, FieldTypes

LEMMA ReadRestType == ASSUME IInv, NEW f \in Files, ReadRest(f) PROVE TypeOK'
<1> USE DEF IInv, TypeOK
<1> DEFINE c == call[f]
           left == Limit(dev.current_length - c.off, c.n - c.cnt)
           more == Copyable(left)
<1>1. c.n - c.cnt \in Nat /\ c.off \in Nat /\ c.cnt \in Nat
  <2>1. c \in SystemCalls /\ pc[f] = "rest" /\ c.op = "read" /\ CallOK(f, c, pc[f])
    BY DEF ReadRest, ProcessesOK
  <2> HIDE DEF c
  <2> QED BY <2>1 DEF SystemCalls, CallOK
<1>2. left \in Nat /\ more \in Nat
  <2>1. dev.current_length - c.off \in Int
    BY <1>1, FieldTypes
  <2>2. left \in Nat
    <3> HIDE DEF c
    <3> QED BY <1>1, <2>1, LimitNat
  <2> HIDE DEF left
  <2> QED BY <2>2, CopyableNat
<1>3. CASE Oops(f)
  BY <1>3, OopsType
<1>4. CASE ~Oops(f)
  <2>1. /\ dev' = Up(dev)
        /\ sum' = [sum EXCEPT !.read = Count(@)]
        /\ Return(f, c.cnt + more, c.off + c.cnt + more, {})
    BY <1>4 DEF ReadRest
  <2>2. c.cnt + more \in Int /\ c.off + c.cnt + more \in Nat
    BY <1>1, <1>2
  <2>3. ProcessesOK'
    <3>1. Return(f, c.cnt + more, c.off + c.cnt + more, {})
      BY <2>1
    <3> HIDE DEF c, more
    <3> QED BY <2>2, <3>1, ReturnType
  <2> QED BY <2>1, <2>3, UpType, SumType DEF DeviceOK
<1> QED BY <1>3, <1>4

\* Where a write puts its bytes: inside the contents or at their end, and
\* never more than fits.
LEMMA WriteOffsetFits ==
  ASSUME IInv, NEW f \in Files, call[f].op = "write"
  PROVE  /\ WriteOffset(f) \in Nat /\ WriteOffset(f) <= dev.current_length
         /\ dev.buffer_size - WriteOffset(f) \in Nat
         /\ call[f].n \in Nat /\ call[f] \in SystemCalls
<1>1. call[f].n \in Nat /\ call[f].off \in Nat /\ call[f] \in SystemCalls
  BY DEF IInv, TypeOK, ProcessesOK, CallOK, SystemCalls
<1>2. dev.current_length \in Nat /\ dev.buffer_size \in Nat
      /\ dev.current_length <= dev.buffer_size
  BY FieldTypes DEF IInv, TypeOK, LengthWithinBuffer
<1> QED BY <1>1, <1>2 DEF WriteOffset

\* What the first half of a write does to the device.
LEMMA WriteBodyDevice ==
  ASSUME IInv, NEW f \in Files, WriteBody(f), ~Oops(f)
  PROVE  \E off \in Nat, put \in Nat :
           /\ off <= dev.current_length /\ off + put <= dev.buffer_size
           /\ put <= call[f].n /\ (dev.buffer = NULL => put = 0)
           /\ dev' = Up([dev EXCEPT
                !.buffer = Put(@, off, put, f),
                !.current_length = IF @ < off + put THEN off + put ELSE @])
           /\ \/ /\ pc' = [pc EXCEPT ![f] = "wait"]
                 /\ call' = [call EXCEPT ![f].off = off + put, ![f].cnt = put]
                 /\ UNCHANGED <<sum, pos, ret>>
              \/ /\ sum' = [sum EXCEPT !.write = Count(@)]
                 /\ Return(f, put, off + put, Sleepers("read"))
<1> DEFINE off == WriteOffset(f)
           allowed == Limit(dev.buffer_size - off, call[f].n)
           put == Copyable(allowed)
<1>1. /\ off \in Nat /\ off <= dev.current_length
      /\ dev.buffer_size - off \in Nat /\ call[f].n \in Nat
  BY WriteOffsetFits DEF WriteBody
<1>2. allowed \in Nat /\ allowed <= call[f].n /\ allowed <= dev.buffer_size - off
  <2> DEFINE room == dev.buffer_size - off
  <2>1. room \in Int /\ room >= 0 /\ call[f].n \in Nat
    BY <1>1
  <2> HIDE DEF room
  <2>2. Limit(room, call[f].n) \in Nat /\ Limit(room, call[f].n) <= call[f].n
        /\ Limit(room, call[f].n) <= room
    BY <2>1, LimitNat
  <2> QED BY <2>2 DEF room
<1>3. put \in Nat /\ put <= allowed /\ (dev.buffer = NULL => put = 0)
  <2> HIDE DEF allowed
  <2> QED BY <1>2, CopyableNat
<1>4. dev.buffer_size \in Nat
  BY FieldTypes DEF IInv, TypeOK
<1>5. off + put <= dev.buffer_size /\ put <= call[f].n
  BY <1>1, <1>2, <1>3, <1>4
<1>6. /\ dev' = Up([dev EXCEPT
                !.buffer = Put(@, off, put, f),
                !.current_length = IF @ < off + put THEN off + put ELSE @])
      /\ \/ /\ pc' = [pc EXCEPT ![f] = "wait"]
            /\ call' = [call EXCEPT ![f].off = off + put, ![f].cnt = put]
            /\ UNCHANGED <<sum, pos, ret>>
         \/ /\ sum' = [sum EXCEPT !.write = Count(@)]
            /\ Return(f, put, off + put, Sleepers("read"))
  BY ~Oops(f) DEF WriteBody
<1> HIDE DEF off, put
<1> QED BY <1>1, <1>3, <1>5, <1>6

LEMMA WriteBodyType == ASSUME IInv, NEW f \in Files, WriteBody(f) PROVE TypeOK'
<1>1. CASE Oops(f)
  BY <1>1, OopsType
<1>2. CASE ~Oops(f)
  <2>1. PICK off \in Nat, put \in Nat :
           /\ put <= call[f].n
           /\ dev' = Up([dev EXCEPT
                !.buffer = Put(@, off, put, f),
                !.current_length = IF @ < off + put THEN off + put ELSE @])
           /\ \/ /\ pc' = [pc EXCEPT ![f] = "wait"]
                 /\ call' = [call EXCEPT ![f].off = off + put, ![f].cnt = put]
                 /\ UNCHANGED <<sum, pos, ret>>
              \/ /\ sum' = [sum EXCEPT !.write = Count(@)]
                 /\ Return(f, put, off + put, Sleepers("read"))
    BY <1>2, WriteBodyDevice
  <2>2. f \in Byte
    BY <1>2 DEF WriteBody, Byte, IInv, TypeOK, ProcessesOK, CallOK
  <2>3. dev' \in Devices
    <3> DEFINE b == Put(dev.buffer, off, put, f)
               l == IF dev.current_length < off + put THEN off + put
                    ELSE dev.current_length
    <3>1. b \in Seq(Byte) /\ l \in Nat
      BY <2>2, PutType, FieldTypes DEF IInv, TypeOK
    <3>2. dev' = Up([dev EXCEPT !.buffer = b, !.current_length = l])
      BY <2>1
    <3> HIDE DEF b, l
    <3> QED BY <3>1, <3>2, EditType, UpType, FieldTypes DEF IInv, TypeOK
  <2>4. CASE pc' = [pc EXCEPT ![f] = "wait"]
             /\ call' = [call EXCEPT ![f].off = off + put, ![f].cnt = put]
             /\ UNCHANGED <<sum, pos, ret>>
    <3> DEFINE c == [call[f] EXCEPT !.off = off + put, !.cnt = put]
    <3>1. "wait" \in PCs /\ c \in SystemCalls /\ CallOK(f, c, "wait")
      <4>1. call[f].op = "write" /\ call[f].n \in Nat /\ call[f] \in SystemCalls
        BY <1>2, WriteOffsetFits DEF WriteBody
      <4>2. c \in SystemCalls /\ c.op = "write" /\ c.n = call[f].n /\ c.cnt = put
        <5>1. off + put \in Nat /\ put \in Nat
          BY <2>1
        <5>2. ASSUME NEW s \in SystemCalls, NEW o \in Nat
              PROVE  LET e == [s EXCEPT !.off = o, !.cnt = put]
                     IN  e \in SystemCalls /\ e.op = s.op /\ e.n = s.n /\ e.cnt = put
          BY <5>1 DEF SystemCalls
        <5> QED BY <4>1, <5>1, <5>2
      <4>3. f \in Writers
        BY <4>1 DEF IInv, TypeOK, ProcessesOK, CallOK
      <4> HIDE DEF c
      <4> QED BY <2>1, <4>1, <4>2, <4>3 DEF PCs, CallOK
    <3>2. call' = [call EXCEPT ![f] = c]
      BY <2>4 DEF IInv, TypeOK, ProcessesOK
    <3>3. ProcessesOK'
      <4> HIDE DEF c
      <4> QED BY <2>4, <3>1, <3>2, MoveType DEF IInv, TypeOK
    <3> QED BY <2>3, <2>4, <3>3 DEF IInv, TypeOK, DeviceOK
  <2>5. CASE sum' = [sum EXCEPT !.write = Count(@)]
             /\ Return(f, put, off + put, Sleepers("read"))
    <3>1. ProcessesOK'
      BY <2>5, ReturnType, SleepersAsleep DEF IInv, TypeOK
    <3> QED BY <2>3, <2>5, <3>1, SumType DEF IInv, TypeOK, DeviceOK
  <2> QED BY <2>1, <2>4, <2>5
<1> QED BY <1>1, <1>2

\* What the second half of a write does to the device.
LEMMA WriteRestDevice ==
  ASSUME IInv, NEW f \in Files, WriteRest(f), ~Oops(f)
  PROVE  /\ f \in Byte
         /\ \E put \in Nat :
              /\ put <= dev.buffer_size /\ (dev.buffer = NULL => put = 0)
              /\ dev' = Up([dev EXCEPT !.current_length = put,
                                  !.buffer = Put(@, 0, put, f)])
              /\ sum' = [sum EXCEPT !.write = Count(@)]
              /\ Return(f, call[f].cnt + put, put, Sleepers("read"))
              /\ call[f].cnt + put \in Int
<1> DEFINE left == Lesser(dev.buffer_size, call[f].n - call[f].cnt)
           put == Copyable(left)
<1>1. call[f] \in SystemCalls /\ CallOK(f, call[f], "rest") /\ call[f].op = "write"
  BY DEF WriteRest, IInv, TypeOK, ProcessesOK
<1>2. call[f].n - call[f].cnt \in Nat /\ call[f].cnt \in Nat
  BY <1>1 DEF SystemCalls, CallOK
<1>3. dev.buffer_size \in Nat
  BY FieldTypes DEF IInv, TypeOK
<1>4. left \in Nat /\ left <= dev.buffer_size
  BY <1>2, <1>3 DEF Lesser
<1>5. put \in Nat /\ put <= dev.buffer_size /\ (dev.buffer = NULL => put = 0)
  <2> HIDE DEF left
  <2> QED BY <1>3, <1>4, CopyableNat
<1>6. /\ dev' = Up([dev EXCEPT !.current_length = put,
                                  !.buffer = Put(@, 0, put, f)])
      /\ sum' = [sum EXCEPT !.write = Count(@)]
      /\ Return(f, call[f].cnt + put, put, Sleepers("read"))
  BY ~Oops(f) DEF WriteRest
<1>7. f \in Byte
  BY <1>1 DEF CallOK, Byte
<1>8. call[f].cnt + put \in Int
  BY <1>2, <1>5
<1> HIDE DEF put
<1> QED BY <1>5, <1>6, <1>7, <1>8

LEMMA WriteRestType == ASSUME IInv, NEW f \in Files, WriteRest(f) PROVE TypeOK'
<1>1. CASE Oops(f)
  BY <1>1, OopsType
<1>2. CASE ~Oops(f)
  <2>1. PICK put \in Nat :
          /\ dev' = Up([dev EXCEPT !.current_length = put,
                              !.buffer = Put(@, 0, put, f)])
          /\ sum' = [sum EXCEPT !.write = Count(@)]
          /\ Return(f, call[f].cnt + put, put, Sleepers("read"))
          /\ call[f].cnt + put \in Int
    BY <1>2, WriteRestDevice
  <2>2. Put(dev.buffer, 0, put, f) \in Seq(Byte)
    <3>1. f \in Byte /\ dev.buffer \in Seq(Byte)
      BY <1>2, WriteRestDevice, FieldTypes DEF IInv, TypeOK
    <3> QED BY <3>1, PutType
  <2>3. dev' \in Devices
    BY <2>1, <2>2, EditType, UpType, FieldTypes DEF IInv, TypeOK
  <2>4. ProcessesOK'
    BY <2>1, ReturnType, SleepersAsleep DEF IInv, TypeOK
  <2> QED BY <2>1, <2>3, <2>4, SumType DEF IInv, TypeOK, DeviceOK
<1> QED BY <1>1, <1>2

LEMMA WaitTestType == ASSUME IInv, NEW f \in Files, WaitTest(f) PROVE TypeOK'
<1>1. DeviceOK'
  BY DEF WaitTest, IInv, TypeOK, DeviceOK
<1>2. ProcessesOK'
  BY DEF WaitTest, IInv, TypeOK, ProcessesOK, PCs, CallOK
<1> QED BY <1>1, <1>2 DEF TypeOK

LEMMA SignalType == ASSUME IInv, NEW f \in Files, Signal(f) PROVE TypeOK'
<1>1. DeviceOK'
  BY DEF Signal, IInv, TypeOK, DeviceOK
<1>2. pos[f] \in Nat
  BY DEF IInv, TypeOK, ProcessesOK
<1>3. CASE Return(f, ERESTARTSYS, pos[f], {})
  BY <1>1, <1>2, <1>3, ReturnType DEF IInv, TypeOK, ERESTARTSYS
<1>4. CASE ~Return(f, ERESTARTSYS, pos[f], {})
  <2>1. pc[f] = "sleep" /\ pc' = [pc EXCEPT ![f] = "redown"]
        /\ UNCHANGED <<call, pos, ret>>
    BY <1>4 DEF Signal
  <2>2. ProcessesOK'
    BY <2>1 DEF IInv, TypeOK, ProcessesOK, PCs, CallOK
  <2> QED BY <1>1, <2>2 DEF TypeOK
<1> QED BY <1>3, <1>4

LEMMA IoctlCountType == ASSUME IInv, NEW f \in Files, IoctlCount(f) PROVE TypeOK'
<1>1. DeviceOK'
  BY UpType DEF IoctlCount, IInv, TypeOK, DeviceOK
<1>2. PICK r \in Int : Return(f, r, pos[f], {})
  BY FieldTypes DEF IoctlCount, IInv, TypeOK
<1>3. pos[f] \in Nat
  BY DEF IInv, TypeOK, ProcessesOK
<1> QED BY <1>1, <1>2, <1>3, ReturnType DEF IInv, TypeOK

LEMMA IoctlClearType == ASSUME IInv, NEW f \in Files, IoctlClear(f) PROVE TypeOK'
<1>1. DeviceOK'
  BY EditType, FieldTypes, SumType, UpType DEF IoctlClear, IInv, TypeOK, DeviceOK
<1>2. Return(f, 0, pos[f], Sleepers("write")) /\ pos[f] \in Nat
  BY DEF IoctlClear, IInv, TypeOK, ProcessesOK
<1> QED BY <1>1, <1>2, ReturnType, SleepersAsleep DEF IInv, TypeOK

\* What the copy to a larger buffer keeps.
LEMMA GrowDevice ==
  ASSUME IInv, NEW n \in Nat, dev.buffer # NULL, n > dev.buffer_size
  PROVE  LET b == Grow(dev.buffer, n, dev.current_length)
         IN  /\ b \in Seq(Byte) /\ Len(b) = n /\ b # NULL
             /\ \A i \in 1..dev.current_length : b[i] = dev.buffer[i]
<1>1. /\ dev.buffer \in Seq(Byte) /\ dev.current_length \in Nat
      /\ dev.current_length <= Len(dev.buffer) /\ dev.current_length <= n /\ n # 0
  BY FieldTypes DEF IInv, TypeOK, LengthWithinBuffer
<1> QED BY <1>1, GrowType

LEMMA IoctlResizeType == ASSUME IInv, NEW f \in Files, IoctlResize(f) PROVE TypeOK'
<1> DEFINE n == call[f].n
<1>1. /\ n \in Int /\ pos[f] \in Nat /\ UNCHANGED sum
      /\ dev.buffer_size \in Nat \ {0} /\ dev.current_length \in Nat
      /\ dev.buffer \in Seq(Byte) /\ << >> \in Seq(Byte)
  BY FieldTypes DEF IoctlResize, IInv, TypeOK, ProcessesOK, SystemCalls
<1>2. dev' \in Devices
  <2>1. CASE n <= 0
    BY <1>1, <2>1, UpType DEF IoctlResize, IInv, TypeOK, DeviceOK
  <2>2. CASE n > 0 /\ dev.buffer = NULL
    <3>1. dev' = Up(dev) \/ dev' = [dev EXCEPT !.buffer_size = n]
      BY <1>1, <2>2 DEF IoctlResize
    <3>2. n \in Nat \ {0}
      BY <1>1, <2>2
    <3>3. [dev EXCEPT !.buffer_size = n] \in Devices
      <4> HIDE DEF n
      <4> QED BY <3>2 DEF IInv, TypeOK, DeviceOK, Devices
    <3> QED BY <3>1, <3>3, UpType DEF IInv, TypeOK, DeviceOK
  <2>3. CASE n > 0 /\ dev.buffer # NULL /\ n < dev.buffer_size
    <3>1. n \in Nat \ {0} /\ Alloc(n) \in Seq(Byte)
      BY <1>1, <2>3, AllocType
    <3>2. \/ dev' = [dev EXCEPT !.current_length = 0, !.buffer = Alloc(n), !.buffer_size = n]
          \/ dev' = Up([dev EXCEPT !.current_length = 0, !.buffer = NULL])
      BY <1>1, <2>3 DEF IoctlResize
    <3>3. NULL \in Seq(Byte)
      BY <1>1 DEF NULL
    <3>4. ASSUME NEW b \in Seq(Byte), NEW s \in Nat \ {0}
          PROVE  /\ [dev EXCEPT !.current_length = 0, !.buffer = b, !.buffer_size = s]
                      \in Devices
                 /\ [dev EXCEPT !.current_length = 0, !.buffer = b] \in Devices
      BY DEF IInv, TypeOK, DeviceOK, Devices
    <3> HIDE DEF n
    <3> QED BY <3>1, <3>2, <3>3, <3>4, UpType
  <2>4. CASE n > 0 /\ dev.buffer # NULL /\ n = dev.buffer_size
    BY <1>1, <2>4, UpType DEF IoctlResize, IInv, TypeOK, DeviceOK
  <2>5. CASE n > 0 /\ dev.buffer # NULL /\ n > dev.buffer_size
    <3>1. n \in Nat \ {0} /\ Grow(dev.buffer, n, dev.current_length) \in Seq(Byte)
      BY <1>1, <2>5, GrowDevice
    <3>2. \/ dev' = [dev EXCEPT !.buffer = Grow(@, n, dev.current_length), !.buffer_size = n]
          \/ dev' = [dev EXCEPT !.buffer = NULL, !.buffer_size = n]
          \/ dev' = dev
      BY <1>1, <2>5 DEF IoctlResize, Oops
    <3>3. NULL \in Seq(Byte)
      BY <1>1 DEF NULL
    <3>4. ASSUME NEW b \in Seq(Byte), NEW s \in Nat \ {0}
          PROVE  [dev EXCEPT !.buffer = b, !.buffer_size = s] \in Devices
      BY DEF IInv, TypeOK, DeviceOK, Devices
    <3>5. dev \in Devices
      BY DEF IInv, TypeOK, DeviceOK
    <3> HIDE DEF n
    <3> QED BY <3>1, <3>2, <3>3, <3>4, <3>5
  <2> QED BY <1>1, <2>1, <2>2, <2>3, <2>4, <2>5
<1>3. ProcessesOK'
  <2>1. CASE Oops(f)
    BY <2>1, OopsType DEF TypeOK
  <2>2. CASE \E r \in {ENOMEM, 0} : Return(f, r, pos[f], {})
    <3>1. PICK r \in Int : Return(f, r, pos[f], {})
      BY <2>2 DEF ENOMEM
    <3> QED BY <1>1, <3>1, ReturnType DEF IInv, TypeOK
  <2>3. CASE n > 0 /\ pc' = [pc EXCEPT ![f] = "tail"] /\ UNCHANGED <<call, pos, ret>>
    <3>1. "tail" \in PCs /\ CallOK(f, call[f], "tail") /\ call[f] \in SystemCalls
      BY <1>1, <2>3 DEF IoctlResize, IInv, TypeOK, ProcessesOK, CallOK, PCs
    <3>2. call' = [call EXCEPT ![f] = call[f]]
      BY <2>3 DEF IInv, TypeOK, ProcessesOK
    <3> QED BY <2>3, <3>1, <3>2, MoveType DEF IInv, TypeOK
  <2> QED BY <1>1, <2>1, <2>2, <2>3 DEF IoctlResize
<1> QED BY <1>1, <1>2, <1>3 DEF IInv, TypeOK, DeviceOK

LEMMA IoctlTruncateType ==
  ASSUME IInv, NEW f \in Files, IoctlTruncate(f) PROVE TypeOK'
<1> DEFINE n == call[f].n
           length == dev.current_length
<1>1. /\ n \in Int /\ pos[f] \in Nat /\ UNCHANGED sum /\ length \in Nat
      /\ dev.buffer_size \in Nat /\ dev.buffer \in Seq(Byte) /\ Zero \in Byte
  BY FieldTypes DEF IoctlTruncate, IInv, TypeOK, ProcessesOK, SystemCalls, Byte
<1>2. CASE dev' = Up(dev) /\ \E r \in {EINVAL, EFAULT} : Return(f, r, pos[f], {})
  <2>1. PICK r \in Int : Return(f, r, pos[f], {})
    BY <1>2 DEF EINVAL, EFAULT
  <2>2. ProcessesOK'
    BY <1>1, <2>1, ReturnType DEF IInv, TypeOK
  <2> QED BY <1>1, <1>2, <2>2, UpType DEF IInv, TypeOK, DeviceOK
<1>3. CASE /\ n \in Nat
           /\ dev' = Up([dev EXCEPT !.current_length = n,
                                  !.buffer = Put(@, length, n - length, Zero)])
           /\ Return(f, length, pos[f], Sleepers("write"))
  <2>1. ProcessesOK'
    BY <1>1, <1>3, ReturnType, SleepersAsleep DEF IInv, TypeOK
  <2>2. Put(dev.buffer, length, n - length, Zero) \in Seq(Byte)
    <3>1. n - length \in Int /\ length \in Int
      BY <1>1
    <3> HIDE DEF n, length
    <3> QED BY <1>1, <3>1, PutType DEF length
  <2>3. dev' \in Devices
    BY <1>3, <2>2, EditType, UpType, FieldTypes DEF IInv, TypeOK
  <2> QED BY <1>1, <2>1, <2>3 DEF IInv, TypeOK, DeviceOK
<1> QED BY <1>1, <1>2, <1>3 DEF IoctlTruncate

-----------------------------------------------------------------------------
(* Memory: the allocation, its size and the contents.                      *)

MemoryOK == LengthWithinBuffer /\ OnlyWrittenBytes

LEMMA SameMemory ==
  ASSUME MemoryOK, dev'.buffer = dev.buffer, dev'.buffer_size = dev.buffer_size,
         dev'.current_length = dev.current_length
  PROVE  MemoryOK'
BY DEF MemoryOK, LengthWithinBuffer, OnlyWrittenBytes

\* The operations that leave the memory alone.
LEMMA QuietMemory ==
  ASSUME IInv, NEW f \in Files,
         \/ \E op \in Ops, n \in Counts \cup Sizes \cup {0} : Call(f, op, n)
         \/ Down(f) \/ WaitTest(f) \/ Signal(f) \/ Oops(f)
         \/ ReleaseBody(f) \/ ReadBody(f) \/ ReadRest(f) \/ IoctlCount(f)
         \/ UNCHANGED vars
  PROVE  MemoryOK'
<1>1. dev \in Devices
  BY DEF IInv, TypeOK, DeviceOK
<1>2. \/ dev' = dev \/ dev' = [dev EXCEPT !.sync = 0] \/ dev' = Up(dev)
      \/ dev' = Up([dev EXCEPT !.writing = Dec(@), !.reading = Dec(@)])
  BY DEF Call, Down, WaitTest, Signal, Oops, ReleaseBody, ReadBody, ReadRest,
         IoctlCount, vars
<1>3. /\ dev'.buffer = dev.buffer /\ dev'.buffer_size = dev.buffer_size
      /\ dev'.current_length = dev.current_length
  BY <1>1, <1>2 DEF Devices, Up
<1> QED BY <1>3, SameMemory DEF IInv, MemoryOK

\* An open allocates buffer_size bytes when there are none.
LEMMA OpenMemory == ASSUME IInv, NEW f \in Files, OpenBody(f) PROVE MemoryOK'
<1>1. dev \in Devices
  BY DEF IInv, TypeOK, DeviceOK
<1>2. CASE dev' = Up(dev)
  BY <1>1, <1>2, SameMemory DEF Devices, Up, IInv, MemoryOK
<1>3. CASE dev' # Up(dev)
  <2> DEFINE b == IF NeedsBuffer(f) THEN Alloc(dev.buffer_size) ELSE dev.buffer
             w == IF f \in Writers THEN dev.writing + 1 ELSE dev.writing
  <2>1. dev' = Up([dev EXCEPT !.buffer = b, !.writing = w])
    BY <1>3 DEF OpenBody
  <2>2. /\ dev'.buffer = b /\ dev'.buffer_size = dev.buffer_size
        /\ dev'.current_length = dev.current_length
    <3> HIDE DEF b, w
    <3> QED BY <1>1, <2>1 DEF Devices, Up
  <2>3. CASE ~NeedsBuffer(f)
    BY <2>2, <2>3, SameMemory DEF IInv, MemoryOK
  <2>4. CASE NeedsBuffer(f)
    <3>1. /\ dev.current_length = 0 /\ dev.buffer_size \in Nat \ {0}
          /\ Len(Alloc(dev.buffer_size)) = dev.buffer_size
      BY <2>4, FieldTypes, AllocType DEF NeedsBuffer, IInv, TypeOK, LengthWithinBuffer
    <3> QED BY <2>2, <2>4, <3>1 DEF MemoryOK, LengthWithinBuffer, OnlyWrittenBytes
  <2> QED BY <2>3, <2>4
<1> QED BY <1>2, <1>3

\* A write extends the contents by what it puts at their end.
LEMMA WriteBodyMemory == ASSUME IInv, NEW f \in Files, WriteBody(f) PROVE MemoryOK'
<1>1. CASE Oops(f)
  BY <1>1, QuietMemory
<1>2. CASE ~Oops(f)
  <2>1. PICK off \in Nat, put \in Nat :
          /\ off <= dev.current_length /\ off + put <= dev.buffer_size
          /\ (dev.buffer = NULL => put = 0)
          /\ dev' = Up([dev EXCEPT
               !.buffer = Put(@, off, put, f),
               !.current_length = IF @ < off + put THEN off + put ELSE @])
    BY <1>2, WriteBodyDevice
  <2> DEFINE b == Put(dev.buffer, off, put, f)
             l == IF dev.current_length < off + put THEN off + put
                  ELSE dev.current_length
  <2>2. dev'.buffer = b /\ dev'.current_length = l /\ dev'.buffer_size = dev.buffer_size
    BY <2>1 DEF Devices, Up, IInv, TypeOK, DeviceOK
  <2>3. f \in Byte /\ f # Junk
    BY <1>2, ByteAssumption
       DEF WriteBody, Byte, IInv, TypeOK, ProcessesOK, CallOK
  <2>4. /\ dev.buffer \in Seq(Byte) /\ dev.current_length \in Nat
        /\ dev.buffer_size \in Nat
    BY FieldTypes DEF IInv, TypeOK
  <2>5. /\ b \in Seq(Byte) /\ Len(b) = Len(dev.buffer)
        /\ \A i \in 1..Len(dev.buffer) :
             b[i] = IF off < i /\ i <= off + put THEN f ELSE dev.buffer[i]
        /\ dev.buffer # NULL => b # NULL
    <3>1. off \in Int /\ put \in Int
      BY <2>1
    <3> QED BY <2>3, <2>4, <3>1, PutType
  <2>6. /\ l \in Nat /\ l <= dev.buffer_size /\ dev.current_length <= l
        /\ (\A i \in 1..l : i <= dev.current_length \/ (off < i /\ i <= off + put))
        /\ (dev.buffer = NULL => l = 0)
    BY <2>1, <2>4 DEF IInv, LengthWithinBuffer
  <2> HIDE DEF l, b
  <2>7. LengthWithinBuffer'
    <3>1. b # NULL => dev.buffer # NULL
      BY <2>4, <2>5 DEF NULL
    <3> QED BY <2>2, <2>5, <2>6, <3>1 DEF LengthWithinBuffer, IInv
  <2>8. ASSUME NEW i \in 1..l PROVE b[i] # Junk
    <3>1. dev.buffer # NULL /\ i \in 1..Len(dev.buffer)
      BY <2>4, <2>6 DEF IInv, LengthWithinBuffer
    <3>2. i <= dev.current_length => dev.buffer[i] # Junk
      BY <2>4, <2>6 DEF IInv, OnlyWrittenBytes
    <3> QED BY <2>3, <2>5, <2>6, <3>1, <3>2
  <2> QED BY <2>2, <2>7, <2>8 DEF MemoryOK, OnlyWrittenBytes
<1> QED BY <1>1, <1>2

\* What is left of a write that waited becomes the whole contents.
LEMMA WriteRestMemory == ASSUME IInv, NEW f \in Files, WriteRest(f) PROVE MemoryOK'
<1>1. CASE Oops(f)
  BY <1>1, QuietMemory
<1>2. CASE ~Oops(f)
  <2>1. PICK put \in Nat :
          /\ put <= dev.buffer_size /\ (dev.buffer = NULL => put = 0)
          /\ dev' = Up([dev EXCEPT !.current_length = put,
                              !.buffer = Put(@, 0, put, f)])
    BY <1>2, WriteRestDevice
  <2> DEFINE b == Put(dev.buffer, 0, put, f)
  <2>2. dev'.buffer = b /\ dev'.current_length = put /\ dev'.buffer_size = dev.buffer_size
    BY <2>1 DEF Devices, Up, IInv, TypeOK, DeviceOK
  <2>3. f \in Byte /\ f # Junk
    BY ByteAssumption DEF WriteRest, Byte, IInv, TypeOK, ProcessesOK, CallOK
  <2>4. /\ dev.buffer \in Seq(Byte) /\ dev.buffer_size \in Nat
    BY FieldTypes DEF IInv, TypeOK
  <2>5. /\ b \in Seq(Byte) /\ Len(b) = Len(dev.buffer)
        /\ \A i \in 1..Len(dev.buffer) :
             b[i] = IF 0 < i /\ i <= 0 + put THEN f ELSE dev.buffer[i]
    <3>1. 0 \in Int /\ put \in Int
      BY <2>1
    <3>2. ASSUME NEW at \in Int
          PROVE  LET p == Put(dev.buffer, at, put, f)
                 IN  /\ p \in Seq(Byte) /\ Len(p) = Len(dev.buffer)
                     /\ \A i \in 1..Len(dev.buffer) :
                          p[i] = IF at < i /\ i <= at + put THEN f ELSE dev.buffer[i]
      <4>1. dev.buffer \in Seq(Byte) /\ put \in Int /\ f \in Byte
        BY <2>3, <2>4, <3>1
      <4> HIDE DEF b
      <4> QED BY <4>1, PutType
    <3> QED BY <3>1, <3>2
  <2>6. dev.buffer # NULL => Len(dev.buffer) = dev.buffer_size
    BY DEF IInv, LengthWithinBuffer
  <2> HIDE DEF b
  <2>7. b # NULL => dev.buffer # NULL
    BY <2>4, <2>5 DEF NULL
  <2>8. b = NULL => put = 0
    BY <2>1, <2>4, <2>5, <2>6 DEF NULL
  <2>9. LengthWithinBuffer'
    BY <2>1, <2>2, <2>5, <2>6, <2>7, <2>8 DEF LengthWithinBuffer
  <2>10. ASSUME NEW i \in 1..put PROVE b[i] # Junk
    BY <2>1, <2>3, <2>4, <2>5, <2>6
  <2> QED BY <2>2, <2>9, <2>10 DEF MemoryOK, OnlyWrittenBytes
<1> QED BY <1>1, <1>2

LEMMA IoctlClearMemory ==
  ASSUME IInv, NEW f \in Files, IoctlClear(f) PROVE MemoryOK'
<1>1. /\ dev'.buffer = dev.buffer /\ dev'.current_length = 0
      /\ dev'.buffer_size = dev.buffer_size /\ dev.buffer_size \in Nat
  BY FieldTypes DEF IoctlClear, Up, Devices, IInv, TypeOK, DeviceOK
<1> QED BY <1>1 DEF IInv, MemoryOK, LengthWithinBuffer, OnlyWrittenBytes

\* A resize keeps the contents, or drops them with the smaller allocation.
LEMMA IoctlResizeMemory ==
  ASSUME IInv, NEW f \in Files, IoctlResize(f) PROVE MemoryOK'
<1> DEFINE n == call[f].n
           length == dev.current_length
<1>1. /\ dev \in Devices /\ n \in Int /\ dev.buffer_size \in Nat \ {0}
      /\ length \in Nat /\ dev.buffer \in Seq(Byte)
  BY FieldTypes DEF IoctlResize, IInv, TypeOK, ProcessesOK, DeviceOK, SystemCalls
<1>2. CASE dev' = dev \/ dev' = Up(dev)
  BY <1>1, <1>2, SameMemory DEF Devices, Up, IInv, MemoryOK
<1>3. CASE n > 0 /\ dev.buffer = NULL /\ dev' = [dev EXCEPT !.buffer_size = n]
  <2>1. /\ dev'.buffer = NULL /\ dev'.buffer_size = n /\ dev'.current_length = length
    BY <1>1, <1>3 DEF Devices
  <2>2. length = 0
    BY <1>3 DEF IInv, LengthWithinBuffer
  <2> QED BY <1>1, <1>3, <2>1, <2>2 DEF MemoryOK, LengthWithinBuffer, OnlyWrittenBytes
<1>4. CASE n > 0 /\ dev' = [dev EXCEPT !.current_length = 0, !.buffer = Alloc(n),
                                      !.buffer_size = n]
  <2>1. /\ dev'.buffer = Alloc(n) /\ dev'.buffer_size = n /\ dev'.current_length = 0
    BY <1>1, <1>4 DEF Devices
  <2>2. Len(Alloc(n)) = n /\ Alloc(n) # NULL
    BY <1>1, <1>4, AllocType
  <2> QED BY <1>1, <1>4, <2>1, <2>2 DEF MemoryOK, LengthWithinBuffer, OnlyWrittenBytes
<1>5. CASE dev' = Up([dev EXCEPT !.current_length = 0, !.buffer = NULL])
  <2>1. /\ dev'.buffer = NULL /\ dev'.buffer_size = dev.buffer_size
        /\ dev'.current_length = 0
    BY <1>1, <1>5 DEF Devices, Up
  <2> QED BY <1>1, <2>1 DEF MemoryOK, LengthWithinBuffer, OnlyWrittenBytes
<1>6. CASE /\ dev.buffer # NULL /\ n > dev.buffer_size
           /\ dev' = [dev EXCEPT !.buffer = Grow(@, n, length), !.buffer_size = n]
  <2> DEFINE b == Grow(dev.buffer, n, length)
  <2>1. /\ dev'.buffer = b /\ dev'.buffer_size = n /\ dev'.current_length = length
    BY <1>1, <1>6 DEF Devices
  <2>2. n \in Nat /\ length <= n
    BY <1>1, <1>6 DEF IInv, LengthWithinBuffer
  <2>3. Len(b) = n /\ b # NULL /\ \A i \in 1..length : b[i] = dev.buffer[i]
    BY <1>6, <2>2, GrowDevice
  <2>4. \A i \in 1..length : b[i] # Junk
    BY <2>3 DEF IInv, OnlyWrittenBytes
  <2> HIDE DEF b, n, length
  <2> QED BY <2>1, <2>2, <2>3, <2>4 DEF MemoryOK, LengthWithinBuffer, OnlyWrittenBytes
<1>7. CASE /\ length = 0 /\ n > dev.buffer_size
           /\ dev' = [dev EXCEPT !.buffer = NULL, !.buffer_size = n]
  <2>1. /\ dev'.buffer = NULL /\ dev'.buffer_size = n /\ dev'.current_length = 0
    BY <1>1, <1>7 DEF Devices
  <2> QED BY <1>1, <1>7, <2>1 DEF MemoryOK, LengthWithinBuffer, OnlyWrittenBytes
<1> QED BY <1>1, <1>2, <1>3, <1>4, <1>5, <1>6, <1>7 DEF IoctlResize, Oops

\* A truncate cuts the contents or fills them with zeros.
LEMMA IoctlTruncateMemory ==
  ASSUME IInv, NEW f \in Files, IoctlTruncate(f) PROVE MemoryOK'
<1> DEFINE n == call[f].n
           length == dev.current_length
           b == Put(dev.buffer, length, n - length, Zero)
<1>1. /\ dev \in Devices /\ n \in Int /\ dev.buffer_size \in Nat
      /\ length \in Nat /\ dev.buffer \in Seq(Byte) /\ Zero \in Byte /\ Zero # Junk
  BY FieldTypes, ByteAssumption
     DEF IoctlTruncate, IInv, TypeOK, ProcessesOK, DeviceOK, SystemCalls, Byte
<1>2. CASE dev' = Up(dev)
  BY <1>1, <1>2, SameMemory DEF Devices, Up, IInv, MemoryOK
<1>3. CASE /\ n \in Nat /\ n <= dev.buffer_size /\ dev.buffer # NULL
           /\ dev' = Up([dev EXCEPT !.current_length = n,
                                  !.buffer = Put(@, length, n - length, Zero)])
  <2>1. dev'.buffer = b /\ dev'.current_length = n /\ dev'.buffer_size = dev.buffer_size
    BY <1>1, <1>3 DEF Devices, Up
  <2>2. n - length \in Int /\ length \in Int
    BY <1>1
  <2>3. /\ Len(b) = Len(dev.buffer) /\ b # NULL
        /\ \A i \in 1..Len(dev.buffer) :
             b[i] = IF length < i /\ i <= length + (n - length) THEN Zero
                    ELSE dev.buffer[i]
    <3>1. ASSUME NEW at \in Int, NEW k \in Int
          PROVE  LET p == Put(dev.buffer, at, k, Zero)
                 IN  /\ Len(p) = Len(dev.buffer) /\ p # NULL
                     /\ \A i \in 1..Len(dev.buffer) :
                          p[i] = IF at < i /\ i <= at + k THEN Zero ELSE dev.buffer[i]
      <4>1. dev.buffer \in Seq(Byte) /\ dev.buffer # NULL /\ Zero \in Byte
        BY <1>1, <1>3
      <4> QED BY <4>1, PutType
    <3> QED BY <2>2, <3>1
  <2>4. Len(dev.buffer) = dev.buffer_size
    BY <1>3 DEF IInv, LengthWithinBuffer
  <2>5. \A i \in 1..length : dev.buffer[i] # Junk
    BY DEF IInv, OnlyWrittenBytes
  <2> HIDE DEF n, length, b
  <2>6. ASSUME NEW i \in 1..n PROVE b[i] # Junk
    BY <1>1, <1>3, <2>3, <2>4, <2>5
  <2> QED BY <1>3, <2>1, <2>3, <2>4, <2>6 DEF MemoryOK, LengthWithinBuffer, OnlyWrittenBytes
<1> QED BY <1>1, <1>2, <1>3 DEF IoctlTruncate

-----------------------------------------------------------------------------
(* Mutual exclusion.                                                       *)

\* Nobody but the process that acts starts to hold the semaphore.
LEMMA OthersHold ==
  ASSUME IInv, NEW f \in Files, NEW g \in Files, g # f,
         Body(f) \/ WaitTest(f) \/ Signal(f) \/ Down(f), Holds(g)'
  PROVE  Holds(g)
<1>1. ASSUME NEW r, NEW o, NEW op, Return(f, r, o, Sleepers(op)) \/ Return(f, r, o, {})
      PROVE  Holds(g)
  BY <1>1 DEF Return, Holds, Sleepers
<1>2. ASSUME NEW p, pc' = [pc EXCEPT ![f] = p] PROVE Holds(g)
  BY <1>2 DEF Holds, IInv, TypeOK, ProcessesOK
<1> QED
  BY <1>1, <1>2
     DEF Body, OpenBody, ReleaseBody, ReadBody, ReadRest, WriteBody, WriteRest,
         WaitTest, Signal, Down, IoctlCount, IoctlClear, IoctlResize, IoctlTruncate, Oops

\* A resize that will be refused
Refuses(f) == pc[f] = "body" /\ call[f].op = "resize" /\ call[f].n <= 0

\* Every part of a handler runs with the semaphore held, and ends by giving
\* it back, by keeping it for the next part, by dying with it, or by refusing
\* a size, which leaves it down.
LEMMA BodyHolds ==
  ASSUME IInv, NEW f \in Files, Body(f)
  PROVE  /\ Holds(f)
         /\ pc[f] # "oops"
         /\ \/ dev'.sync = 1 /\ ~Holds(f)' /\ ~Refuses(f)
            \/ dev'.sync = dev.sync /\ pc'[f] \in {"tail", "oops"} /\ ~Refuses(f)
            \/ Refuses(f) /\ dev' = dev /\ pc'[f] = "idle"
<1>1. pc[f] \in {"body", "rest", "tail"} /\ Holds(f)
  BY DEF Body, OpenBody, ReleaseBody, ReadBody, ReadRest, WriteBody, WriteRest,
         IoctlCount, IoctlClear, IoctlResize, IoctlTruncate, Holds
<1>11. ~IoctlResize(f) => ~Refuses(f)
  BY DEF Body, OpenBody, ReleaseBody, ReadBody, ReadRest, WriteBody, WriteRest,
         IoctlCount, IoctlClear, IoctlTruncate, Refuses
<1>2. ASSUME NEW d, dev' = Up([dev EXCEPT !.sync = d]) \/ dev' = Up(dev)
      PROVE  dev'.sync = 1
  BY <1>2 DEF Up, IInv, TypeOK, DeviceOK, Devices
<1>3. ASSUME NEW r, NEW o, NEW op, Return(f, r, o, Sleepers(op)) \/ Return(f, r, o, {})
      PROVE  ~Holds(f)'
  BY <1>3 DEF Return, Holds, IInv, TypeOK, ProcessesOK
<1>4. ASSUME Oops(f) PROVE dev'.sync = dev.sync /\ pc'[f] = "oops"
  BY <1>4 DEF Oops, IInv, TypeOK, ProcessesOK
<1>5. dev \in Devices
  BY DEF IInv, TypeOK, DeviceOK
<1>6. CASE ReleaseBody(f) \/ ReadBody(f) \/ ReadRest(f) \/ IoctlCount(f) \/ IoctlClear(f)
  <2>3. ~IoctlResize(f)
    BY <1>6 DEF ReleaseBody, ReadBody, ReadRest, IoctlCount, IoctlClear, IoctlResize
  <2>1. CASE Oops(f)
    BY <1>1, <1>4, <1>11, <2>1, <2>3
  <2>2. CASE ~Oops(f)
    <3>1. dev'.sync = 1
      BY <1>5, <1>6, <2>2
         DEF ReleaseBody, ReadBody, ReadRest, IoctlCount, IoctlClear, Up, Devices
    <3>2. ~Holds(f)'
      <4>1. CASE pc' = [pc EXCEPT ![f] = "wait"]
        BY <4>1 DEF Holds, IInv, TypeOK, ProcessesOK
      <4> QED BY <1>3, <1>6, <2>2, <4>1
              DEF ReleaseBody, ReadBody, ReadRest, IoctlCount, IoctlClear
    <3> QED BY <1>1, <1>11, <2>3, <3>1, <3>2
  <2> QED BY <2>1, <2>2
<1>7. CASE OpenBody(f)
  <2>1. dev'.sync = 1
    BY <1>5, <1>7 DEF OpenBody, Up, Devices
  <2>2. ~Holds(f)'
    BY <1>3, <1>7 DEF OpenBody
  <2>3. ~IoctlResize(f)
    BY <1>7 DEF OpenBody, IoctlResize
  <2> QED BY <1>1, <1>11, <2>1, <2>2, <2>3
<1>8. CASE WriteBody(f) \/ WriteRest(f)
  <2>2. ~IoctlResize(f)
    BY <1>8 DEF WriteBody, WriteRest, IoctlResize
  <2>1. CASE ~Oops(f)
    <3>1. dev'.sync = 1
      BY <1>5, <1>8, <2>1 DEF WriteBody, WriteRest, Up, Devices
    <3>2. ~Holds(f)'
      <4>1. CASE pc' = [pc EXCEPT ![f] = "wait"]
        BY <4>1 DEF Holds, IInv, TypeOK, ProcessesOK
      <4> QED BY <1>3, <1>8, <2>1, <4>1 DEF WriteBody, WriteRest
    <3> QED BY <1>1, <1>11, <2>2, <3>1, <3>2
  <2> QED BY <1>4, <1>1, <1>11, <2>1, <2>2
<1>9. CASE IoctlTruncate(f)
  <2>1. dev'.sync = 1
    BY <1>5, <1>9 DEF IoctlTruncate, Up, Devices
  <2>2. ~Holds(f)'
    BY <1>3, <1>9 DEF IoctlTruncate
  <2>3. ~Refuses(f)
    BY <1>9 DEF IoctlTruncate, Refuses
  <2> QED BY <1>1, <2>1, <2>2, <2>3
<1>10. CASE IoctlResize(f)
  <2>1. /\ pc[f] = "body" /\ call[f].op = "resize" /\ call[f].n \in Int
        /\ dev.buffer_size \in Nat \ {0} /\ (Refuses(f) <=> call[f].n <= 0)
    BY <1>5, <1>10 DEF IoctlResize, Refuses, Devices, IInv, TypeOK, ProcessesOK, SystemCalls
  <2>2. CASE call[f].n <= 0
    <3>1. Return(f, ENOMEM, pos[f], {}) /\ dev' = dev
      BY <1>10, <2>1, <2>2 DEF IoctlResize
    <3>2. pc'[f] = "idle"
      BY <2>1, <3>1 DEF Return, IInv, TypeOK, ProcessesOK
    <3> QED BY <1>1, <2>1, <2>2, <3>1, <3>2
  <2>3. CASE ~(call[f].n <= 0) /\ Oops(f)
    BY <1>1, <1>4, <2>1, <2>3
  <2>4. CASE ~(call[f].n <= 0) /\ pc' = [pc EXCEPT ![f] = "tail"]
    <3>1. ~Return(f, 0, pos[f], {}) /\ ~Return(f, ENOMEM, pos[f], {}) /\ ~Oops(f)
      BY <2>4 DEF Return, Oops, IInv, TypeOK, ProcessesOK
    <3>2. dev'.sync = dev.sync
      BY <1>5, <1>10, <3>1 DEF IoctlResize, Devices
    <3>3. pc'[f] = "tail"
      BY <2>4 DEF IInv, TypeOK, ProcessesOK
    <3> QED BY <1>1, <2>1, <2>4, <3>2, <3>3
  <2>5. CASE ~(call[f].n <= 0) /\ ~Oops(f) /\ pc' # [pc EXCEPT ![f] = "tail"]
    <3>1. dev'.sync = 1
      BY <1>5, <1>10, <2>5 DEF IoctlResize, Up, Devices
    <3>2. ~Holds(f)'
      BY <1>3, <1>10, <2>5 DEF IoctlResize
    <3> QED BY <1>1, <2>1, <2>5, <3>1, <3>2
  <2> QED BY <2>2, <2>3, <2>4, <2>5
<1> QED BY <1>6, <1>7, <1>8, <1>9, <1>10 DEF Body

LEMMA BodyExclusion ==
  ASSUME IInv, NEW f \in Files, Body(f) PROVE MutualExclusion'
<1>1. Holds(f) /\ ((dev'.sync = 1 /\ ~Holds(f)') \/ dev'.sync = dev.sync)
  BY BodyHolds
<1>2. \A g \in Files \ {f} : ~Holds(g)
  BY <1>1 DEF IInv, MutualExclusion
<1>3. \A g \in Files \ {f} : ~Holds(g)'
  BY <1>2, OthersHold
<1>4. dev.sync # 1
  BY <1>1 DEF IInv, MutualExclusion, SemaphoreFree
<1> QED BY <1>1, <1>3, <1>4 DEF MutualExclusion, SemaphoreFree

\* down_interruptible lets a process in when nobody is.
LEMMA DownExclusion ==
  ASSUME IInv, NEW f \in Files, Down(f) PROVE MutualExclusion'
<1>1. \A g \in Files : ~Holds(g)
  BY DEF Down, IInv, MutualExclusion
<1>2. \A g \in Files \ {f} : ~Holds(g)'
  BY <1>1, OthersHold
<1>3. dev'.sync # 1
  BY DEF Down, IInv, TypeOK, DeviceOK, Devices
<1> QED BY <1>2, <1>3 DEF MutualExclusion, SemaphoreFree

\* The other steps neither take nor give.
LEMMA QuietExclusion ==
  ASSUME IInv, NEW f \in Files,
         \/ \E op \in Ops, n \in Counts \cup Sizes \cup {0} : Call(f, op, n)
         \/ WaitTest(f) \/ Signal(f)
  PROVE  MutualExclusion'
<1>1. dev' = dev
  BY DEF Call, WaitTest, Signal
<1>2. ~Holds(f)'
  BY DEF Call, WaitTest, Signal, Return, Holds, IInv, TypeOK, ProcessesOK
<1>3. ASSUME NEW g \in Files \ {f}, Holds(g)' PROVE Holds(g)
  <2>1. CASE WaitTest(f) \/ Signal(f)
    BY <1>3, <2>1, OthersHold
  <2>2. CASE \E op \in Ops, n \in Counts \cup Sizes \cup {0} : Call(f, op, n)
    BY <1>3, <2>2 DEF Call, Holds, IInv, TypeOK, ProcessesOK
  <2> QED BY <2>1, <2>2
<1> QED BY <1>1, <1>2, <1>3 DEF IInv, MutualExclusion, SemaphoreFree

-----------------------------------------------------------------------------
(* The invariant.                                                          *)

LEMMA InitInv == Init => IInv
<1> SUFFICES ASSUME Init PROVE IInv
  OBVIOUS
<1>1. dev \in Devices /\ dev.buffer = NULL /\ dev.current_length = 0 /\ dev.sync = 1
      /\ dev.buffer_size = InitSize
  BY SizeAssumption DEF Init, Devices, NULL
<1>2. DeviceOK
  BY <1>1 DEF Init, DeviceOK, Sums
<1>3. ProcessesOK
  BY DEF Init, ProcessesOK, PCs, NoCall, SystemCalls, Ops, CallOK
<1>4. MutualExclusion
  BY DEF Init, MutualExclusion, Holds
<1>5. LengthWithinBuffer /\ OnlyWrittenBytes
  BY <1>1, SizeAssumption DEF LengthWithinBuffer, OnlyWrittenBytes
<1> QED BY <1>2, <1>3, <1>4, <1>5 DEF IInv, TypeOK

LEMMA NextInv == IInv /\ [Next]_vars => IInv'
<1> SUFFICES ASSUME IInv, [Next]_vars PROVE IInv'
  OBVIOUS
<1>1. CASE UNCHANGED vars
  BY <1>1 DEF vars, IInv, TypeOK, DeviceOK, ProcessesOK, MutualExclusion, Holds,
              SemaphoreFree, LengthWithinBuffer, OnlyWrittenBytes
<1>2. ASSUME NEW f \in Files, NEW op \in Ops,
             NEW n \in Counts \cup Sizes \cup {0}, Call(f, op, n)
      PROVE  IInv'
  BY <1>2, CallType, QuietMemory, QuietExclusion DEF IInv, MemoryOK
<1>3. ASSUME NEW f \in Files, Down(f) PROVE IInv'
  BY <1>3, DownType, QuietMemory, DownExclusion DEF IInv, MemoryOK
<1>4. ASSUME NEW f \in Files, WaitTest(f) \/ Signal(f) PROVE IInv'
  BY <1>4, WaitTestType, SignalType, QuietMemory, QuietExclusion DEF IInv, MemoryOK
<1>5. ASSUME NEW f \in Files, Body(f) PROVE IInv'
  <2>1. TypeOK'
    BY <1>5, OpenType, ReleaseType, ReadBodyType, ReadRestType, WriteBodyType,
       WriteRestType, IoctlCountType, IoctlClearType, IoctlResizeType,
       IoctlTruncateType DEF Body
  <2>2. MemoryOK'
    BY <1>5, OpenMemory, QuietMemory, WriteBodyMemory, WriteRestMemory,
       IoctlClearMemory, IoctlResizeMemory, IoctlTruncateMemory DEF Body
  <2> QED BY <1>5, <2>1, <2>2, BodyExclusion DEF IInv, MemoryOK
<1> QED BY <1>1, <1>2, <1>3, <1>4, <1>5 DEF Next

\* The invariant the others follow from is inductive.
THEOREM InductiveInvariant == Spec => []IInv
BY InitInv, NextInv, PTL DEF Spec

\* Every variable keeps its type, whatever the calls, sizes and signals.
THEOREM TypeCorrect == Spec => []TypeOK
<1>1. IInv => TypeOK
  BY DEF IInv
<1> QED BY <1>1, InductiveInvariant, PTL

\* dev->sync is a mutex between all the handlers, even those that give it up
\* to wait, that are interrupted, or that forget to give it back.
THEOREM Exclusive == Spec => []MutualExclusion
<1>1. IInv => MutualExclusion
  BY DEF IInv
<1> QED BY <1>1, InductiveInvariant, PTL

\* No copy or fill ever leaves the allocation through current_length.
THEOREM MemorySafe == Spec => []LengthWithinBuffer
<1>1. IInv => LengthWithinBuffer
  BY DEF IInv
<1> QED BY <1>1, InductiveInvariant, PTL

\* The contents are bytes that were written or filled, also after a resize,
\* and when kmalloc fails.
THEOREM NoStaleBytes == Spec => []OnlyWrittenBytes
<1>1. IInv => OnlyWrittenBytes
  BY DEF IInv
<1> QED BY <1>1, InductiveInvariant, PTL

\* What SemaphoreReturned says of a step
SemaphoreStep ==
  Stuck' <=>
    \/ Stuck
    \/ \E f \in Files :
         \/ pc[f] # "oops" /\ pc'[f] = "oops"
         \/ pc[f] = "body" /\ pc'[f] = "idle" /\ call[f].op = "resize" /\ call[f].n <= 0

\* A part of a handler leaves the semaphore down with nobody past it only if it
\* refuses a size or dies.
LEMMA BodySemaphore ==
  ASSUME IInv, NEW f \in Files, Body(f) PROVE SemaphoreStep
<1>1. /\ Holds(f) /\ pc[f] # "oops"
      /\ \/ dev'.sync = 1 /\ ~Holds(f)' /\ ~Refuses(f)
         \/ dev'.sync = dev.sync /\ pc'[f] \in {"tail", "oops"} /\ ~Refuses(f)
         \/ Refuses(f) /\ dev' = dev /\ pc'[f] = "idle"
  BY BodyHolds
<1>2. dev.sync # 1 /\ \A g \in Files \ {f} : ~Holds(g)
  BY <1>1 DEF IInv, MutualExclusion, SemaphoreFree
<1>3. \A g \in Files \ {f} : ~Holds(g)'
  BY <1>2, OthersHold
<1>4. ~Stuck
  BY <1>1 DEF Stuck, Holds
<1>5. Stuck' <=> dev'.sync # 1 /\ pc'[f] \notin {"body", "rest", "tail"}
  BY <1>3 DEF Stuck, SemaphoreFree, Holds
<1>6. (\E g \in Files : \/ pc[g] # "oops" /\ pc'[g] = "oops"
                       \/ /\ pc[g] = "body" /\ pc'[g] = "idle"
                          /\ call[g].op = "resize" /\ call[g].n <= 0)
      <=> pc'[f] = "oops" \/ (Refuses(f) /\ pc'[f] = "idle")
  BY <1>1, <1>2, <1>3 DEF Holds, Refuses
<1>7. CASE dev'.sync = 1 /\ ~Holds(f)' /\ ~Refuses(f)
  BY <1>4, <1>5, <1>6, <1>7 DEF SemaphoreStep, Holds
<1>8. CASE dev'.sync = dev.sync /\ pc'[f] \in {"tail", "oops"} /\ ~Refuses(f)
  BY <1>2, <1>4, <1>5, <1>6, <1>8 DEF SemaphoreStep
<1>9. CASE Refuses(f) /\ dev' = dev /\ pc'[f] = "idle"
  BY <1>2, <1>4, <1>5, <1>6, <1>9 DEF SemaphoreStep
<1> QED BY <1>1, <1>7, <1>8, <1>9

\* The steps outside the handlers' parts neither take the semaphore nor lose it.
LEMMA QuietSemaphore ==
  ASSUME IInv, NEW f \in Files,
         \/ \E op \in Ops, n \in Counts \cup Sizes \cup {0} : Call(f, op, n)
         \/ WaitTest(f) \/ Signal(f)
  PROVE  SemaphoreStep
<1>1. dev' = dev
  BY DEF Call, WaitTest, Signal
<1>2. pc[f] \notin {"body", "rest", "tail", "oops"} /\ pc'[f] \notin {"body", "rest", "tail", "oops"}
  BY DEF Call, MayCall, WaitTest, Signal, Return, IInv, TypeOK, ProcessesOK
<1>3. ASSUME NEW g \in Files \ {f} PROVE pc'[g] = pc[g]
  <2>1. CASE WaitTest(f) \/ Signal(f)
    BY <2>1 DEF WaitTest, Signal, Return, IInv, TypeOK, ProcessesOK
  <2>2. CASE \E op \in Ops, n \in Counts \cup Sizes \cup {0} : Call(f, op, n)
    BY <2>2 DEF Call, IInv, TypeOK, ProcessesOK
  <2> QED BY <2>1, <2>2
<1>4. Stuck' <=> Stuck
  BY <1>1, <1>2, <1>3 DEF Stuck, SemaphoreFree
<1> QED BY <1>2, <1>3, <1>4 DEF SemaphoreStep

\* IOC_NR_SETBUFFERSIZE's early return and a NULL buffer are the only ways to lose the
\* semaphore, for any files, modes, counts, sizes and signals: every other path of every
\* handler gives it back, and nobody gets it again when it is lost.
THEOREM SemaphoreGivenBack == Spec => SemaphoreReturned
<1>1. IInv /\ [Next]_vars => [SemaphoreStep]_vars
  <2> SUFFICES ASSUME IInv, Next PROVE SemaphoreStep
    OBVIOUS
  <2>1. ASSUME NEW f \in Files, Body(f) PROVE SemaphoreStep
    BY <2>1, BodySemaphore
  <2>2. ASSUME NEW f \in Files, Down(f) PROVE SemaphoreStep
    <3>1. dev.sync = 1 /\ pc'[f] \in {"body", "rest"} /\ pc[f] \in {"down", "redown"}
      BY <2>2 DEF Down, SemaphoreFree, IInv, TypeOK, ProcessesOK
    <3>2. \A g \in Files \ {f} : pc'[g] = pc[g]
      BY <2>2 DEF Down, IInv, TypeOK, ProcessesOK
    <3>3. ~Stuck /\ ~Stuck'
      BY <3>1 DEF Stuck, SemaphoreFree
    <3> QED BY <3>1, <3>2, <3>3 DEF SemaphoreStep
  <2>3. ASSUME NEW f \in Files,
               \/ \E op \in Ops, n \in Counts \cup Sizes \cup {0} : Call(f, op, n)
               \/ WaitTest(f) \/ Signal(f)
        PROVE  SemaphoreStep
    BY <2>3, QuietSemaphore
  <2> QED BY <2>1, <2>2, <2>3 DEF Next
<1>2. [][SemaphoreStep]_vars <=> SemaphoreReturned
  BY DEF SemaphoreStep, SemaphoreReturned
<1> QED BY <1>1, <1>2, InductiveInvariant, PTL DEF Spec

-----------------------------------------------------------------------------
(* The device implements ByteStore, for any files, sizes and counts: each  *)
(* step of a handler is one operation of the store on the contents below   *)
(* current_length, or leaves the store as it is.                           *)

\* The bytes the store sees of a device
Contents(d) ==
  [i \in 1..d.current_length |-> IF i \in DOMAIN d.buffer THEN d.buffer[i] ELSE Junk]

\* A device whose contents lie in its buffer
Fits(d) ==
  /\ d \in Devices
  /\ d.current_length <= d.buffer_size
  /\ d.buffer # NULL => Len(d.buffer) = d.buffer_size
  /\ d.buffer = NULL => d.current_length = 0

\* A resize under way has been asked for.
ResizesAsked == \A f \in Files : call[f].op = "resize" => call[f].n \in Sizes

StoreStep == [Store!StoreNext]_(Store!storeVars)

\* The contents are the first bytes of the buffer, and all of them exist.
LEMMA ContentsAre ==
  ASSUME NEW d, Fits(d)
  PROVE  /\ d.current_length \in Nat /\ d.buffer_size \in Nat \ {0}
         /\ d.buffer \in Seq(Byte) /\ d.current_length <= Len(d.buffer)
         /\ Len(Contents(d)) = d.current_length
         /\ Contents(d) = [i \in 1..d.current_length |-> d.buffer[i]]
<1>1. /\ d.current_length \in Nat /\ d.buffer_size \in Nat \ {0}
      /\ d.buffer \in Seq(Byte)
  BY DEF Fits, Devices
<1>2. d.current_length <= Len(d.buffer)
  BY <1>1 DEF Fits, NULL
<1>3. \A i \in 1..d.current_length : i \in DOMAIN d.buffer
  BY <1>1, <1>2
<1>4. Contents(d) = [i \in 1..d.current_length |-> d.buffer[i]]
  BY <1>3 DEF Contents
<1>5. Len(Contents(d)) = d.current_length
  BY <1>1, <1>4
<1>6. QED
  BY <1>1, <1>2, <1>4, <1>5

\* The invariant of the device gives that of its contents, before and after a step.
LEMMA StepFits == ASSUME IInv, [Next]_vars PROVE Fits(dev) /\ Fits(dev')
<1>1. IInv'
  BY NextInv
<1>2. QED
  BY <1>1 DEF IInv, TypeOK, DeviceOK, LengthWithinBuffer, Fits

\* What the step of a handler leaves alone the store does not see.
LEMMA SameStore ==
  ASSUME dev'.buffer = dev.buffer, dev'.current_length = dev.current_length,
         dev'.buffer_size = dev.buffer_size
  PROVE  StoreStep
BY DEF StoreStep, Store!storeVars

\* What a copy of whole numbers of bytes leaves in the buffer
LEMMA PutBytes ==
  ASSUME NEW buffer \in Seq(Byte), NEW at \in Nat, NEW k \in Int, NEW b \in Writers \cup {Zero}
  PROVE  /\ Len(Put(buffer, at, k, b)) = Len(buffer)
         /\ \A i \in 1..Len(buffer) :
              Put(buffer, at, k, b)[i] = IF at < i /\ i <= at + k THEN b ELSE buffer[i]
<1>1. at \in Int /\ b \in Byte
  BY DEF Byte
<1>2. QED
  BY <1>1, PutType

\* A copy into the buffer, at or before the end of the contents
LEMMA StoreWrite ==
  ASSUME Fits(dev), Fits(dev'), NEW f \in Writers, NEW off \in Nat, NEW put \in Nat,
         off <= dev.current_length, off + put <= dev.buffer_size,
         dev'.buffer = Put(dev.buffer, off, put, f),
         dev'.current_length = IF dev.current_length < off + put THEN off + put
                               ELSE dev.current_length,
         dev'.buffer_size = dev.buffer_size
  PROVE  StoreStep
<1> DEFINE old == Contents(dev)
           new == Contents(dev')
<1>1. /\ dev.current_length \in Nat /\ dev.buffer \in Seq(Byte)
      /\ dev.current_length <= Len(dev.buffer)
      /\ Len(old) = dev.current_length
      /\ old = [i \in 1..dev.current_length |-> dev.buffer[i]]
      /\ new = [i \in 1..dev'.current_length |-> dev'.buffer[i]]
      /\ dev'.current_length <= Len(dev'.buffer) /\ dev'.current_length \in Nat
  BY ContentsAre
<1>2. /\ Len(dev'.buffer) = Len(dev.buffer)
      /\ \A i \in 1..Len(dev.buffer) :
           dev'.buffer[i] = IF off < i /\ i <= off + put THEN f ELSE dev.buffer[i]
  BY <1>1, PutBytes
<1> HIDE DEF old, new
<1>3. CASE put = 0
  <2>1. new = old
    BY <1>1, <1>2, <1>3
  <2>2. QED
    BY <2>1, SMT DEF StoreStep, Store!storeVars, old, new, Contents
<1>4. CASE put # 0
  <2>1. new = [i \in 1..(IF off + put > Len(old) THEN off + put ELSE Len(old)) |->
                 IF off < i /\ i <= off + put THEN f ELSE old[i]]
    BY <1>1, <1>2, <1>4
  <2>2. Store!Write(off, put, f)
    BY <1>1, <2>1 DEF Store!Write, Store!Overwrite, old, new, Contents
  <2>3. /\ put \in 1..dev.buffer_size /\ f \in Writers \cup {Zero}
        /\ off \in 0..Len(old)
    BY <1>1, <1>4 DEF Fits, Devices
  <2>4. QED
    BY <2>2, <2>3 DEF StoreStep, Store!StoreNext, old, Contents
<1>5. QED
  BY <1>3, <1>4

\* The rest of a write that waited
LEMMA StoreRestart ==
  ASSUME Fits(dev), Fits(dev'), NEW f \in Writers, NEW put \in Nat,
         put <= dev.buffer_size, dev'.buffer = Put(dev.buffer, 0, put, f),
         dev'.current_length = put, dev'.buffer_size = dev.buffer_size
  PROVE  StoreStep
<1> DEFINE new == Contents(dev')
<1>1. /\ dev.buffer \in Seq(Byte) /\ dev.buffer_size \in Nat
      /\ new = [i \in 1..put |-> dev'.buffer[i]]
      /\ put <= Len(dev'.buffer)
  BY ContentsAre
<1>2. /\ Len(dev'.buffer) = Len(dev.buffer)
      /\ \A i \in 1..Len(dev.buffer) :
           dev'.buffer[i] = IF 0 < i /\ i <= 0 + put THEN f ELSE dev.buffer[i]
  BY <1>1, PutBytes
<1> HIDE DEF new
<1>3. new = [i \in 1..put |-> f]
  BY <1>1, <1>2
<1>4. CASE put = 0
  <2>1. new = << >>
    BY <1>3, <1>4
  <2>2. Store!Clear
    BY <2>1 DEF Store!Clear, new, Contents
  <2>3. QED
    BY <2>2 DEF StoreStep, Store!StoreNext
<1>5. CASE put # 0
  <2>1. Store!Restart(put, f)
    BY <1>3 DEF Store!Restart, new, Contents
  <2>2. put \in 1..dev.buffer_size /\ f \in Writers \cup {Zero}
    BY <1>1, <1>5
  <2>3. QED
    BY <2>1, <2>2 DEF StoreStep, Store!StoreNext
<1>6. QED
  BY <1>4, <1>5

\* The contents are given up: a clear, or a smaller buffer that was not to be had
LEMMA StoreClear ==
  ASSUME Fits(dev'), dev'.current_length = 0, dev'.buffer_size = dev.buffer_size
  PROVE  StoreStep
<1>1. Contents(dev') = << >>
  BY ContentsAre
<1>2. Store!Clear
  BY <1>1 DEF Store!Clear, Contents
<1>3. QED
  BY <1>2 DEF StoreStep, Store!StoreNext

\* A truncate, which may make the contents longer
LEMMA StoreTruncate ==
  ASSUME Fits(dev), Fits(dev'), NEW n \in Nat, n <= dev.buffer_size,
         dev'.buffer = Put(dev.buffer, dev.current_length, n - dev.current_length, Zero),
         dev'.current_length = n, dev'.buffer_size = dev.buffer_size
  PROVE  StoreStep
<1> DEFINE old == Contents(dev)
           new == Contents(dev')
<1>1. /\ dev.current_length \in Nat /\ dev.buffer \in Seq(Byte)
      /\ dev.buffer_size \in Nat
      /\ Len(old) = dev.current_length
      /\ old = [i \in 1..dev.current_length |-> dev.buffer[i]]
      /\ new = [i \in 1..n |-> dev'.buffer[i]]
      /\ n <= Len(dev'.buffer)
  BY ContentsAre
<1>2. n - dev.current_length \in Int
  BY <1>1
<1>3. /\ Len(dev'.buffer) = Len(dev.buffer)
      /\ \A i \in 1..Len(dev.buffer) :
           dev'.buffer[i] = IF /\ dev.current_length < i
                               /\ i <= dev.current_length + (n - dev.current_length)
                            THEN Zero ELSE dev.buffer[i]
  BY <1>1, <1>2, PutBytes
<1> HIDE DEF old, new
<1>4. new = [i \in 1..n |-> IF i <= Len(old) THEN old[i] ELSE Zero]
  BY <1>1, <1>3
<1>5. Store!Truncate(n)
  BY <1>4 DEF Store!Truncate, old, new, Contents
<1>6. n \in 0..dev.buffer_size
  BY <1>1
<1>7. QED
  BY <1>5, <1>6 DEF StoreStep, Store!StoreNext

\* A resize: a smaller device is empty, a larger one keeps what it held.
LEMMA StoreResize ==
  ASSUME Fits(dev), Fits(dev'), NEW n \in Sizes, n > 0, dev'.buffer_size = n,
         \/ dev'.current_length = 0 /\ (n < dev.buffer_size \/ dev.current_length = 0)
         \/ /\ n > dev.buffer_size /\ dev'.current_length = dev.current_length
            /\ \A i \in 1..dev.current_length : dev'.buffer[i] = dev.buffer[i]
  PROVE  StoreStep
<1> DEFINE old == Contents(dev)
           new == Contents(dev')
<1>1. /\ dev.current_length \in Nat /\ dev.buffer_size \in Nat /\ n \in Int
      /\ old = [i \in 1..dev.current_length |-> dev.buffer[i]]
      /\ new = [i \in 1..dev'.current_length |-> dev'.buffer[i]]
  BY ContentsAre, SizeAssumption
<1> HIDE DEF old, new
<1>2. new = IF n < dev.buffer_size THEN << >> ELSE old
  <2>1. CASE dev'.current_length = 0 /\ (n < dev.buffer_size \/ dev.current_length = 0)
    <3>1. new = << >>
      BY <1>1, <2>1
    <3>2. dev.current_length = 0 => old = << >>
      BY <1>1
    <3>3. QED
      BY <2>1, <3>1, <3>2
  <2>2. CASE /\ n > dev.buffer_size /\ dev'.current_length = dev.current_length
             /\ \A i \in 1..dev.current_length : dev'.buffer[i] = dev.buffer[i]
    <3>1. new = old
      BY <1>1, <2>2
    <3>2. ~(n < dev.buffer_size)
      BY <1>1, <2>2
    <3>3. QED
      BY <3>1, <3>2
  <2>3. QED
    BY <2>1, <2>2
<1>3. Store!Resize(n)
  BY <1>2 DEF Store!Resize, old, new, Contents
<1>4. QED
  BY <1>3 DEF StoreStep, Store!StoreNext

-----------------------------------------------------------------------------
(* The steps of the handlers.                                              *)

\* A step that changes neither buffer nor lengths
LEMMA QuietStep ==
  ASSUME IInv, NEW f \in Files,
         \/ \E op \in Ops, n \in Counts \cup Sizes \cup {0} : Call(f, op, n)
         \/ Down(f) \/ WaitTest(f) \/ Signal(f) \/ Oops(f)
         \/ ReleaseBody(f) \/ ReadBody(f) \/ ReadRest(f) \/ IoctlCount(f)
         \/ UNCHANGED vars
  PROVE  StoreStep
<1>1. dev \in Devices
  BY DEF IInv, TypeOK, DeviceOK
<1>2. \/ dev' = dev \/ dev' = [dev EXCEPT !.sync = 0] \/ dev' = Up(dev)
      \/ dev' = Up([dev EXCEPT !.writing = Dec(@), !.reading = Dec(@)])
  BY DEF Call, Down, WaitTest, Signal, Oops, ReleaseBody, ReadBody, ReadRest,
         IoctlCount, vars
<1>3. /\ dev'.buffer = dev.buffer /\ dev'.buffer_size = dev.buffer_size
      /\ dev'.current_length = dev.current_length
  BY <1>1, <1>2 DEF Devices, Up
<1>4. QED
  BY <1>3, SameStore

\* The buffer is allocated while there are no contents.
LEMMA OpenStep ==
  ASSUME IInv, Fits(dev), Fits(dev'), NEW f \in Files, OpenBody(f)
  PROVE  StoreStep
<1>1. dev \in Devices
  BY DEF Fits
<1>2. CASE dev' = Up(dev)
  BY <1>1, <1>2, SameStore DEF Devices, Up
<1>3. CASE dev' # Up(dev)
  <2> DEFINE b == IF NeedsBuffer(f) THEN Alloc(dev.buffer_size) ELSE dev.buffer
             w == IF f \in Writers THEN dev.writing + 1 ELSE dev.writing
  <2>1. dev' = Up([dev EXCEPT !.buffer = b, !.writing = w])
    BY <1>3 DEF OpenBody
  <2>2. /\ dev'.buffer = b /\ dev'.buffer_size = dev.buffer_size
        /\ dev'.current_length = dev.current_length
    <3> HIDE DEF b, w
    <3>1. QED
      BY <1>1, <2>1 DEF Devices, Up
  <2>3. CASE ~NeedsBuffer(f)
    BY <2>2, <2>3, SameStore
  <2>4. CASE NeedsBuffer(f)
    <3>1. dev'.current_length = 0
      BY <2>2, <2>4 DEF NeedsBuffer, Fits
    <3>2. QED
      BY <2>2, <3>1, StoreClear
  <2>5. QED
    BY <2>3, <2>4
<1>4. QED
  BY <1>2, <1>3

\* my_write and the rest of one that waited write, restart or leave the store.
LEMMA WriteStep ==
  ASSUME IInv, Fits(dev), Fits(dev'), NEW f \in Files, WriteBody(f) \/ WriteRest(f)
  PROVE  StoreStep
<1>1. CASE Oops(f)
  BY <1>1, QuietStep
<1>2. f \in Writers
  BY DEF WriteBody, WriteRest, IInv, TypeOK, ProcessesOK, CallOK
<1>3. CASE WriteBody(f) /\ ~Oops(f)
  <2>1. PICK off \in Nat, put \in Nat :
          /\ off <= dev.current_length /\ off + put <= dev.buffer_size
          /\ dev' = Up([dev EXCEPT
               !.buffer = Put(@, off, put, f),
               !.current_length = IF @ < off + put THEN off + put ELSE @])
    BY <1>3, WriteBodyDevice
  <2>2. /\ dev'.buffer = Put(dev.buffer, off, put, f)
        /\ dev'.current_length = IF dev.current_length < off + put THEN off + put
                                 ELSE dev.current_length
        /\ dev'.buffer_size = dev.buffer_size
    BY <2>1 DEF Devices, Up, Fits
  <2>3. QED
    BY <1>2, <2>1, <2>2, StoreWrite
<1>4. CASE WriteRest(f) /\ ~Oops(f)
  <2>1. PICK put \in Nat :
          /\ put <= dev.buffer_size
          /\ dev' = Up([dev EXCEPT !.current_length = put, !.buffer = Put(@, 0, put, f)])
    BY <1>4, WriteRestDevice
  <2>2. /\ dev'.buffer = Put(dev.buffer, 0, put, f)
        /\ dev'.current_length = put /\ dev'.buffer_size = dev.buffer_size
    BY <2>1 DEF Devices, Up, Fits
  <2>3. QED
    BY <1>2, <2>1, <2>2, StoreRestart
<1>5. QED
  BY <1>1, <1>3, <1>4

\* IOC_CLEAR empties the store.
LEMMA ClearStep ==
  ASSUME Fits(dev), Fits(dev'), NEW f \in Files, IoctlClear(f)
  PROVE  StoreStep
<1>1. dev'.current_length = 0 /\ dev'.buffer_size = dev.buffer_size
  BY DEF IoctlClear, Up, Devices, Fits
<1>2. QED
  BY <1>1, StoreClear

\* A resize keeps the contents, or empties them when the buffer gets smaller.
LEMMA ResizeStep ==
  ASSUME IInv, ResizesAsked, Fits(dev), Fits(dev'), NEW f \in Files, IoctlResize(f)
  PROVE  StoreStep
<1> DEFINE n == call[f].n
           length == dev.current_length
<1>1. /\ dev \in Devices /\ n \in Int /\ n \in Sizes /\ dev.buffer_size \in Nat \ {0}
      /\ length \in Nat /\ dev.buffer \in Seq(Byte)
  BY FieldTypes DEF IoctlResize, ResizesAsked, IInv, TypeOK, ProcessesOK, DeviceOK, SystemCalls
<1>2. CASE dev' = dev \/ dev' = Up(dev)
  BY <1>1, <1>2, SameStore DEF Devices, Up
<1>3. CASE n > 0 /\ dev.buffer = NULL /\ dev' = [dev EXCEPT !.buffer_size = n]
  <2>1. dev'.buffer_size = n /\ dev'.current_length = 0 /\ length = 0
    BY <1>1, <1>3 DEF Devices, Fits
  <2> HIDE DEF n
  <2>2. QED
    BY <1>1, <1>3, <2>1, StoreResize
<1>4. CASE /\ n > 0 /\ n < dev.buffer_size
           /\ dev' = [dev EXCEPT !.current_length = 0, !.buffer = Alloc(n),
                                 !.buffer_size = n]
  <2>1. dev'.buffer_size = n /\ dev'.current_length = 0
    BY <1>1, <1>4 DEF Devices
  <2> HIDE DEF n
  <2>2. QED
    BY <1>1, <1>4, <2>1, StoreResize
<1>5. CASE dev' = Up([dev EXCEPT !.current_length = 0, !.buffer = NULL])
  <2>1. dev'.buffer_size = dev.buffer_size /\ dev'.current_length = 0
    BY <1>1, <1>5 DEF Devices, Up
  <2>2. QED
    BY <2>1, StoreClear
<1>6. CASE /\ dev.buffer # NULL /\ n > dev.buffer_size
           /\ dev' = [dev EXCEPT !.buffer = Grow(@, n, length), !.buffer_size = n]
  <2> DEFINE b == Grow(dev.buffer, n, length)
  <2>1. dev'.buffer = b /\ dev'.buffer_size = n /\ dev'.current_length = length
    BY <1>1, <1>6 DEF Devices
  <2>2. n \in Nat /\ n > 0
    BY <1>1, <1>6
  <2>3. \A i \in 1..length : b[i] = dev.buffer[i]
    BY <1>6, <2>2, GrowDevice
  <2> HIDE DEF b, n
  <2>4. QED
    BY <1>1, <1>6, <2>1, <2>2, <2>3, StoreResize
<1>7. CASE /\ length = 0 /\ n > dev.buffer_size
           /\ dev' = [dev EXCEPT !.buffer = NULL, !.buffer_size = n]
  <2>1. dev'.buffer_size = n /\ dev'.current_length = 0 /\ n > 0
    BY <1>1, <1>7 DEF Devices
  <2> HIDE DEF n
  <2>2. QED
    BY <1>1, <1>7, <2>1, StoreResize
<1>8. QED
  BY <1>1, <1>2, <1>3, <1>4, <1>5, <1>6, <1>7 DEF IoctlResize, Oops

\* IOC_TRUNCATE cuts the contents, or fills them up with zeros.
LEMMA TruncateStep ==
  ASSUME IInv, Fits(dev), Fits(dev'), NEW f \in Files, IoctlTruncate(f)
  PROVE  StoreStep
<1> DEFINE n == call[f].n
<1>1. dev \in Devices /\ n \in Int /\ dev.buffer_size \in Nat
  BY FieldTypes DEF IoctlTruncate, IInv, TypeOK, ProcessesOK, DeviceOK, SystemCalls
<1>2. CASE dev' = Up(dev)
  BY <1>1, <1>2, SameStore DEF Devices, Up
<1>3. CASE /\ n \in Nat /\ n <= dev.buffer_size
           /\ dev' = Up([dev EXCEPT !.current_length = n,
                 !.buffer = Put(@, dev.current_length, n - dev.current_length, Zero)])
  <2>1. /\ dev'.buffer = Put(dev.buffer, dev.current_length, n - dev.current_length, Zero)
        /\ dev'.current_length = n /\ dev'.buffer_size = dev.buffer_size
    BY <1>1, <1>3 DEF Devices, Up
  <2> HIDE DEF n
  <2>2. QED
    BY <1>3, <2>1, StoreTruncate
<1>4. QED
  BY <1>1, <1>2, <1>3 DEF IoctlTruncate

-----------------------------------------------------------------------------
\* No resize is under way at the start.
LEMMA InitAsked == Init => ResizesAsked
BY DEF Init, ResizesAsked, NoCall

\* A resize keeps the size it was asked for.
LEMMA NextAsked == IInv /\ ResizesAsked /\ [Next]_vars => ResizesAsked'
<1> SUFFICES ASSUME IInv, ResizesAsked, [Next]_vars PROVE ResizesAsked'
    OBVIOUS
<1>1. CASE call' = call
  BY <1>1 DEF ResizesAsked
<1>2. ASSUME NEW f \in Files, NEW op \in Ops,
             NEW n \in Counts \cup Sizes \cup {0}, Call(f, op, n)
      PROVE  ResizesAsked'
  <2>1. op = "resize" => n \in Sizes
    BY <1>2 DEF Call, MayCall
  <2>2. QED
    BY <1>2, <2>1 DEF Call, ResizesAsked, IInv, TypeOK, ProcessesOK
<1>3. ASSUME NEW f \in Files, NEW r, NEW o, NEW w, Return(f, r, o, w)
      PROVE  ResizesAsked'
  BY <1>3 DEF Return, NoCall, ResizesAsked, IInv, TypeOK, ProcessesOK
<1>4. ASSUME NEW f \in Files, NEW k, NEW o,
             \/ call' = [call EXCEPT ![f].cnt = k]
             \/ call' = [call EXCEPT ![f].off = o, ![f].cnt = k]
      PROVE  ResizesAsked'
  BY <1>4 DEF ResizesAsked, IInv, TypeOK, ProcessesOK, SystemCalls
<1>5. ASSUME NEW f \in Files, Body(f) PROVE ResizesAsked'
  BY <1>1, <1>3, <1>4, <1>5
     DEF Body, OpenBody, ReleaseBody, ReadBody, ReadRest, WriteBody, WriteRest,
         IoctlCount, IoctlClear, IoctlResize, IoctlTruncate, Oops
<1>6. ASSUME NEW f \in Files, Down(f) \/ WaitTest(f) \/ Signal(f) PROVE ResizesAsked'
  BY <1>1, <1>3, <1>6 DEF Down, WaitTest, Signal
<1>7. QED
  BY <1>1, <1>2, <1>5, <1>6 DEF Next, vars

\* A new device is an empty store.
LEMMA InitStore == Init => Store!StoreInit
<1> SUFFICES ASSUME Init PROVE Store!StoreInit
    OBVIOUS
<1>1. dev.current_length = 0 /\ dev.buffer_size = InitSize
  BY DEF Init
<1>2. QED
  BY <1>1 DEF Store!StoreInit

\* Every step of the device is one of the store, or none.
LEMMA NextStore == IInv /\ ResizesAsked /\ [Next]_vars => StoreStep
<1> SUFFICES ASSUME IInv, ResizesAsked, [Next]_vars PROVE StoreStep
    OBVIOUS
<1>1. Fits(dev) /\ Fits(dev')
  BY StepFits
<1>2. ASSUME NEW f \in Files, Body(f) PROVE StoreStep
  BY <1>1, <1>2, QuietStep, OpenStep, WriteStep, ClearStep, ResizeStep, TruncateStep DEF Body
<1>3. ASSUME NEW f \in Files,
             \/ \E op \in Ops, n \in Counts \cup Sizes \cup {0} : Call(f, op, n)
             \/ Down(f) \/ WaitTest(f) \/ Signal(f)
      PROVE  StoreStep
  BY <1>3, QuietStep
<1>4. CASE UNCHANGED vars
  <2>1. dev' = dev
    BY <1>4 DEF vars
  <2>2. QED
    BY <2>1, SameStore
<1>5. QED
  BY <1>2, <1>3, <1>4 DEF Next

\* Whatever the files do, wait for, are signalled in or fail to allocate, the
\* contents of the device are what a sequence of writes, clears, truncates and
\* resizes makes of them: mydev_write never leaves a gap, and no stale offset
\* brings back a byte that IOC_NR_CLEAR or IOC_NR_TRUNCATE took away.
THEOREM DeviceIsStore == Spec => ImplementsStore
<1>1. Init => IInv
  BY InitInv
<1>2. QED
  BY <1>1, InitAsked, InitStore, NextInv, NextAsked, NextStore, PTL
     DEF Spec, ImplementsStore, Store!StoreSpec, StoreStep

-----------------------------------------------------------------------------
(* No wake-up of the device is lost, where none is left out: the           *)
(* conditions name the calls of 7_cdrv/cdrv.c that change what somebody    *)
(* waits for and do not wake him.                                          *)

\* An open file means a buffer.
OpenHasBuffer == \A f \in Files : Opened(f) => dev.buffer # NULL

\* Only calls that may be made are under way, and only in the kernel.
CallsMade ==
  \A f \in Files :
    /\ call[f].op \in Calls \cup {"none"}
    /\ pc[f] \in {"closed", "idle"} => call[f].op = "none"

\* Nothing takes the buffer away: the size is left alone or kmalloc works.
BufferKept == ~AllocMayFail \/ "resize" \notin Calls

\* A process in the tail of a resize has set the size it was asked for.
TailSize == \A f \in Files : pc[f] = "tail" => call[f].n = dev.buffer_size

Step(f) ==
  \/ \E op \in Ops, n \in Counts \cup Sizes \cup {0} : Call(f, op, n)
  \/ Down(f) \/ Body(f) \/ WaitTest(f) \/ Signal(f)

-----------------------------------------------------------------------------
(* What a step of a process does to the processes.                         *)

\* The end of a call leaves no trace of it, and wakes the others at most.
LEMMA ReturnMoves ==
  ASSUME TypeOK, NEW f \in Files, NEW r, NEW o, NEW woken, Return(f, r, o, woken)
  PROVE  /\ pc'[f] \in {"closed", "idle"} /\ call'[f] = NoCall
         /\ \A g \in Files \ {f} :
              /\ call'[g] = call[g]
              /\ pc'[g] = IF g \in woken THEN "wait" ELSE pc[g]
BY DEF Return, TypeOK, ProcessesOK

\* wake_up leaves nobody asleep who waits for what it announces.
LEMMA AllWoken ==
  ASSUME TypeOK, NEW f \in Files, NEW r, NEW o, NEW op, Return(f, r, o, Sleepers(op))
  PROVE  \A g \in Files : ~Asleep(g, op)'
<1>1. \A g \in Files \ {f} : ~Asleep(g, op)'
  BY ReturnMoves DEF Asleep, Sleepers
<1>2. ~Asleep(f, op)'
  BY ReturnMoves DEF Asleep
<1>3. QED
  BY <1>1, <1>2

\* A process moves the others at most from sleep to another test.
LEMMA OthersMove ==
  ASSUME TypeOK, NEW f \in Files, Step(f), NEW g \in Files, g # f
  PROVE  /\ call'[g] = call[g]
         /\ pc'[g] = pc[g] \/ (pc[g] = "sleep" /\ pc'[g] = "wait")
<1>1. ASSUME NEW r, NEW o, NEW op, Return(f, r, o, Sleepers(op)) \/ Return(f, r, o, {})
      PROVE  /\ call'[g] = call[g]
             /\ pc'[g] = pc[g] \/ (pc[g] = "sleep" /\ pc'[g] = "wait")
  BY <1>1, ReturnMoves DEF Sleepers
<1>2. ASSUME NEW p, pc' = [pc EXCEPT ![f] = p],
             \/ call' = call
             \/ \E c : call' = [call EXCEPT ![f] = c]
      PROVE  call'[g] = call[g] /\ pc'[g] = pc[g]
  BY <1>2 DEF TypeOK, ProcessesOK
<1>3. ASSUME NEW c \in SystemCalls, NEW k, NEW o
      PROVE  /\ [call EXCEPT ![f].cnt = k][g] = call[g]
             /\ [call EXCEPT ![f].off = o, ![f].cnt = k][g] = call[g]
  BY DEF TypeOK, ProcessesOK
<1>4. ASSUME NEW p, pc' = [pc EXCEPT ![f] = p] PROVE pc'[g] = pc[g]
  BY <1>4 DEF TypeOK, ProcessesOK
<1>5. CASE \E op \in Ops, n \in Counts \cup Sizes \cup {0} : Call(f, op, n)
  BY <1>5 DEF Call, TypeOK, ProcessesOK
<1>6. CASE Down(f) \/ WaitTest(f) \/ Oops(f)
  BY <1>6 DEF Down, WaitTest, Oops, TypeOK, ProcessesOK
<1>7. CASE Signal(f)
  BY <1>1, <1>4, <1>7 DEF Signal
<1>8. CASE OpenBody(f) \/ ReleaseBody(f) \/ IoctlCount(f) \/ IoctlClear(f)
  BY <1>1, <1>8 DEF OpenBody, ReleaseBody, IoctlCount, IoctlClear
<1>9. CASE ReadBody(f) \/ ReadRest(f)
  BY <1>1, <1>4, <1>6, <1>9 DEF ReadBody, ReadRest, TypeOK, ProcessesOK
<1>10. CASE WriteBody(f) \/ WriteRest(f)
  BY <1>1, <1>4, <1>6, <1>10 DEF WriteBody, WriteRest, TypeOK, ProcessesOK
<1>11. CASE IoctlResize(f)
  BY <1>1, <1>4, <1>6, <1>11 DEF IoctlResize
<1>12. CASE IoctlTruncate(f)
  BY <1>1, <1>12 DEF IoctlTruncate
<1>13. QED
  BY <1>5, <1>6, <1>7, <1>8, <1>9, <1>10, <1>11, <1>12 DEF Step, Body

\* A call stays the same call until it returns.
LEMMA SelfMoves ==
  ASSUME TypeOK, NEW f \in Files, Down(f) \/ Body(f) \/ WaitTest(f) \/ Signal(f)
  PROVE  \/ /\ pc[f] \notin {"closed", "idle"} /\ pc'[f] \notin {"closed", "idle"}
            /\ call'[f].op = call[f].op
         \/ /\ pc[f] \notin {"closed", "idle"} /\ pc'[f] \in {"closed", "idle"}
            /\ call'[f] = NoCall
<1>1. pc[f] \notin {"closed", "idle"}
  BY DEF Down, Body, WaitTest, Signal, OpenBody, ReleaseBody, ReadBody, ReadRest, WriteBody,
     WriteRest, IoctlCount, IoctlClear, IoctlResize, IoctlTruncate
<1>2. ASSUME NEW r, NEW o, NEW op, Return(f, r, o, Sleepers(op)) \/ Return(f, r, o, {})
      PROVE  pc'[f] \in {"closed", "idle"} /\ call'[f] = NoCall
  BY <1>2, ReturnMoves
<1>3. ASSUME NEW p \in PCs \ {"closed", "idle"}, pc' = [pc EXCEPT ![f] = p], call' = call
      PROVE  pc'[f] \notin {"closed", "idle"} /\ call'[f].op = call[f].op
  BY <1>3 DEF TypeOK, ProcessesOK
<1>4. {"body", "rest", "redown", "sleep", "oops", "tail"} \subseteq PCs \ {"closed", "idle"}
  BY DEF PCs
<1>5. CASE Down(f)
  BY <1>1, <1>3, <1>4, <1>5 DEF Down, TypeOK, ProcessesOK
<1>6. CASE WaitTest(f)
  BY <1>1, <1>3, <1>4, <1>6 DEF WaitTest
<1>7. CASE Oops(f)
  BY <1>1, <1>3, <1>4, <1>7 DEF Oops
<1>8. CASE Signal(f)
  BY <1>1, <1>2, <1>3, <1>4, <1>8 DEF Signal
<1>9. CASE OpenBody(f) \/ ReleaseBody(f) \/ IoctlCount(f) \/ IoctlClear(f) \/ IoctlTruncate(f)
  <2>1. PICK r, o, op : Return(f, r, o, Sleepers(op)) \/ Return(f, r, o, {})
    BY <1>9 DEF OpenBody, ReleaseBody, IoctlCount, IoctlClear, IoctlTruncate
  <2>2. QED
    BY <1>1, <1>2, <2>1
<1>10. ASSUME pc' = [pc EXCEPT ![f] = "wait"],
              \E k, o : \/ call' = [call EXCEPT ![f].cnt = k]
                        \/ call' = [call EXCEPT ![f].off = o, ![f].cnt = k]
       PROVE  pc'[f] \notin {"closed", "idle"} /\ call'[f].op = call[f].op
  BY <1>10 DEF TypeOK, ProcessesOK, SystemCalls
<1>11. CASE ReadBody(f) \/ ReadRest(f) \/ WriteBody(f) \/ WriteRest(f)
  <2>1. CASE Oops(f)
    BY <1>7, <2>1
  <2>2. ASSUME NEW r, NEW o, NEW op, Return(f, r, o, Sleepers(op)) \/ Return(f, r, o, {})
        PROVE  pc'[f] \in {"closed", "idle"} /\ call'[f] = NoCall
    BY <1>2, <2>2
  <2>3. QED
    BY <1>1, <1>10, <1>11, <2>1, <2>2 DEF ReadBody, ReadRest, WriteBody, WriteRest
<1>12. CASE IoctlResize(f)
  BY <1>1, <1>2, <1>3, <1>4, <1>7, <1>12 DEF IoctlResize
<1>13. QED
  BY <1>5, <1>6, <1>8, <1>9, <1>11, <1>12 DEF Body

\* Calls are made by processes in user space, and end there.
LEMMA NextCallsMade ==
  ASSUME TypeOK, CallsMade, NEW f \in Files, Step(f)
  PROVE  CallsMade'
<1>1. ASSUME NEW g \in Files, g # f
      PROVE  /\ call'[g].op \in Calls \cup {"none"}
             /\ pc'[g] \in {"closed", "idle"} => call'[g].op = "none"
  BY <1>1, OthersMove DEF CallsMade
<1>2. CASE \E op \in Ops, n \in Counts \cup Sizes \cup {0} : Call(f, op, n)
  <2>1. pc'[f] = "down" /\ call'[f].op \in Calls
    BY <1>2 DEF Call, MayCall, TypeOK, ProcessesOK
  <2>2. QED
    BY <1>1, <2>1 DEF CallsMade
<1>3. CASE Down(f) \/ Body(f) \/ WaitTest(f) \/ Signal(f)
  <2>1. /\ call'[f].op \in Calls \cup {"none"}
        /\ pc'[f] \in {"closed", "idle"} => call'[f].op = "none"
    BY <1>3, SelfMoves DEF CallsMade, NoCall
  <2>2. QED
    BY <1>1, <2>1 DEF CallsMade
<1>4. QED
  BY <1>2, <1>3 DEF Step

-----------------------------------------------------------------------------
(* The buffer.                                                             *)

\* Only a body changes the device, but for the semaphore.
LEMMA QuietDevice ==
  ASSUME TypeOK, NEW f \in Files,
         \/ \E op \in Ops, n \in Counts \cup Sizes \cup {0} : Call(f, op, n)
         \/ Down(f) \/ WaitTest(f) \/ Signal(f) \/ Oops(f)
         \/ ReleaseBody(f) \/ ReadBody(f) \/ ReadRest(f) \/ IoctlCount(f)
  PROVE  /\ dev'.buffer = dev.buffer /\ dev'.buffer_size = dev.buffer_size
         /\ dev'.current_length = dev.current_length
<1>1. dev \in Devices
  BY DEF TypeOK, DeviceOK
<1>2. QED
  BY <1>1 DEF Call, Down, WaitTest, Signal, Oops, ReleaseBody, ReadBody, ReadRest, IoctlCount,
     Up, Devices

\* A buffer is only given back for another one, if that one can be had.
LEMMA BufferStays ==
  ASSUME IInv, CallsMade, BufferKept, dev.buffer # NULL, NEW f \in Files, Step(f)
  PROVE  dev'.buffer # NULL
<1>1. /\ TypeOK /\ dev \in Devices /\ dev.buffer \in Seq(Byte)
      /\ dev.buffer_size \in Nat \ {0} /\ dev.current_length \in Nat
  BY FieldTypes DEF IInv, TypeOK, DeviceOK
<1>2. CASE \/ \E op \in Ops, n \in Counts \cup Sizes \cup {0} : Call(f, op, n)
           \/ Down(f) \/ WaitTest(f) \/ Signal(f) \/ Oops(f)
           \/ ReleaseBody(f) \/ ReadBody(f) \/ ReadRest(f) \/ IoctlCount(f)
  BY <1>1, <1>2, QuietDevice
<1>3. CASE OpenBody(f)
  <2>1. dev'.buffer = dev.buffer
    BY <1>1, <1>3 DEF OpenBody, NeedsBuffer, Up, Devices
  <2>2. QED
    BY <2>1
<1>4. ASSUME NEW at, NEW k, NEW b PROVE Put(dev.buffer, at, k, b) # NULL
  <2>1. 1 \in DOMAIN dev.buffer
    BY <1>1 DEF NULL
  <2>2. 1 \in DOMAIN Put(dev.buffer, at, k, b)
    BY <2>1 DEF Put
  <2>3. QED
    BY <2>2 DEF NULL
<1>5. CASE (WriteBody(f) \/ WriteRest(f)) /\ ~Oops(f)
  <2>1. PICK at, k, l : dev' = Up([dev EXCEPT !.buffer = Put(@, at, k, f), !.current_length = l])
    <3>1. CASE WriteBody(f)
      <4>1. PICK off \in Nat, put \in Nat :
              dev' = Up([dev EXCEPT
                       !.buffer = Put(@, off, put, f),
                       !.current_length = IF @ < off + put THEN off + put ELSE @])
        BY <1>5, <3>1, WriteBodyDevice
      <4>2. QED
        BY <4>1
    <3>2. CASE WriteRest(f)
      <4>1. PICK put \in Nat :
              dev' = Up([dev EXCEPT !.current_length = put, !.buffer = Put(@, 0, put, f)])
        BY <1>5, <3>2, WriteRestDevice
      <4>2. [dev EXCEPT !.current_length = put, !.buffer = Put(@, 0, put, f)]
              = [dev EXCEPT !.buffer = Put(@, 0, put, f), !.current_length = put]
        BY <1>1 DEF Devices
      <4>3. QED
        BY <4>1, <4>2
    <3>3. QED
      BY <1>5, <3>1, <3>2
  <2>2. dev'.buffer = Put(dev.buffer, at, k, f)
    BY <1>1, <2>1 DEF Up, Devices
  <2>3. QED
    BY <1>4, <2>2
<1>6. CASE IoctlClear(f)
  BY <1>1, <1>6 DEF IoctlClear, Up, Devices
<1>7. CASE IoctlTruncate(f)
  <2> DEFINE length == dev.current_length
             n == call[f].n
  <2>1. \/ dev'.buffer = dev.buffer
        \/ dev'.buffer = Put(dev.buffer, length, n - length, Zero)
    BY <1>1, <1>7 DEF IoctlTruncate, Up, Devices
  <2> HIDE DEF length, n
  <2>2. QED
    BY <1>4, <2>1
<1>8. CASE IoctlResize(f)
  <2> DEFINE n == call[f].n
  <2>1. n \in Int /\ ~AllocMayFail
    BY <1>1, <1>8 DEF IoctlResize, CallsMade, BufferKept, TypeOK, ProcessesOK, SystemCalls
  <2>2. n > 0 => Alloc(n) # NULL
    BY <2>1, AllocType
  <2>3. n > dev.buffer_size => Grow(dev.buffer, n, dev.current_length) # NULL
    BY <1>1, <2>1, GrowDevice
  <2>4. \/ dev'.buffer = dev.buffer
        \/ n > 0 /\ dev'.buffer = Alloc(n)
        \/ n > dev.buffer_size /\ dev'.buffer = Grow(dev.buffer, n, dev.current_length)
    BY <1>1, <1>8, <2>1 DEF IoctlResize, Up, Devices
  <2>5. QED
    BY <2>2, <2>3, <2>4
<1>9. QED
  BY <1>2, <1>3, <1>5, <1>6, <1>7, <1>8 DEF Step, Body

\* A file is open once OpenBody has found or made a buffer.
LEMMA NextOpenHasBuffer ==
  ASSUME IInv, CallsMade, BufferKept, OpenHasBuffer, NEW f \in Files, Step(f)
  PROVE  OpenHasBuffer'
<1>0. TypeOK
  BY DEF IInv
<1>1. ASSUME NEW g \in Files, Opened(g) PROVE dev'.buffer # NULL
  BY <1>1, BufferStays DEF OpenHasBuffer
<1>2. ASSUME NEW g \in Files, g # f, Opened(g)' PROVE Opened(g)
  BY <1>0, <1>2, OthersMove DEF Opened
<1>3. ASSUME Opened(f)', ~Opened(f) PROVE dev'.buffer # NULL
  <2>1. pc[f] = "closed" \/ call[f].op = "open"
    BY <1>3 DEF Opened
  <2>2. CASE \E op \in Ops, n \in Counts \cup Sizes \cup {0} : Call(f, op, n)
    <3>1. PICK op \in Ops, n \in Counts \cup Sizes \cup {0} : Call(f, op, n)
      BY <2>2
    <3>2. pc[f] = "closed" /\ op = "open"
      BY <2>1, <3>1 DEF Call, MayCall, CallsMade
    <3>3. call'[f].op = "open"
      BY <1>0, <3>1, <3>2 DEF Call, TypeOK, ProcessesOK
    <3>4. QED
      BY <1>3, <3>3 DEF Opened
  <2>3. CASE Down(f) \/ Body(f) \/ WaitTest(f) \/ Signal(f)
    <3>1. pc[f] # "closed" /\ call[f].op = "open"
      BY <1>0, <2>1, <2>3, SelfMoves
    <3>2. pc'[f] = "idle"
      BY <1>0, <1>3, <2>3, <3>1, SelfMoves DEF Opened
    <3>3. OpenBody(f)
      <4>1. ~Down(f) /\ ~WaitTest(f)
        BY <1>0, <3>2 DEF Down, WaitTest, TypeOK, ProcessesOK
      <4>2. ~Signal(f)
        BY <1>0, <3>1, <3>2 DEF Signal, Return, ERESTARTSYS, TypeOK, ProcessesOK
      <4>3. pc[f] # "tail"
        BY <1>0, <3>1 DEF TypeOK, ProcessesOK, CallOK
      <4>4. QED
        BY <2>3, <3>1, <4>1, <4>2, <4>3
           DEF Body, ReleaseBody, ReadBody, ReadRest, WriteBody, WriteRest, IoctlCount,
           IoctlClear, IoctlResize, IoctlTruncate
    <3>4. ~\E r : r < 0 /\ Return(f, r, pos[f], {})
      BY <3>1, <3>2 DEF Return
    <3>5. /\ IF f \in Writers THEN ~Busy ELSE dev.buffer # NULL
          /\ dev' = Up([dev EXCEPT
               !.buffer = IF NeedsBuffer(f) THEN Alloc(dev.buffer_size) ELSE @,
               !.writing = IF f \in Writers THEN @ + 1 ELSE @])
      BY <3>3, <3>4 DEF OpenBody, EBUSY, ENOMEM
    <3>6. dev \in Devices /\ Alloc(dev.buffer_size) # NULL
      BY <1>0, AllocType, FieldTypes DEF TypeOK, DeviceOK
    <3>7. dev'.buffer = IF NeedsBuffer(f) THEN Alloc(dev.buffer_size) ELSE dev.buffer
      BY <3>5, <3>6 DEF Up, Devices
    <3>8. QED
      BY <3>5, <3>6, <3>7 DEF NeedsBuffer
  <2>4. QED
    BY <2>2, <2>3 DEF Step
<1>4. QED
  BY <1>1, <1>2, <1>3 DEF OpenHasBuffer

\* The semaphore is held between the two parts of a resize.
LEMMA NextTailSize ==
  ASSUME IInv, TailSize, NEW f \in Files, Step(f)
  PROVE  TailSize'
<1>0. TypeOK /\ MutualExclusion /\ dev \in Devices
  BY DEF IInv, TypeOK, DeviceOK
<1>1. ASSUME NEW g \in Files, g # f, pc'[g] = "tail"
      PROVE  call'[g].n = dev'.buffer_size
  <2>1. call'[g] = call[g] /\ pc[g] = "tail"
    BY <1>0, <1>1, OthersMove
  <2>2. ~Body(f)
    BY <1>0, <1>1, <2>1, BodyHolds DEF MutualExclusion, Holds
  <2>3. dev'.buffer_size = dev.buffer_size
    BY <1>0, <2>2, QuietDevice DEF Step
  <2>4. QED
    BY <2>1, <2>3 DEF TailSize
<1>2. ASSUME pc'[f] = "tail" PROVE call'[f].n = dev'.buffer_size
  <2>1. IoctlResize(f) /\ pc' = [pc EXCEPT ![f] = "tail"]
    <3>1. ~\E r, o, w : Return(f, r, o, w)
      BY <1>2 DEF Return
    <3>2. ~\E p \in PCs \ {"tail"} : pc' = [pc EXCEPT ![f] = p]
      BY <1>0, <1>2 DEF TypeOK, ProcessesOK
    <3>3. {"down", "body", "rest", "redown", "sleep", "wait", "oops"} \subseteq PCs \ {"tail"}
      BY DEF PCs
    <3>4. ~Oops(f)
      BY <3>2, <3>3 DEF Oops
    <3>5. ~Down(f) /\ ~WaitTest(f) /\ ~Signal(f)
      BY <1>0, <1>2, <3>1 DEF Down, WaitTest, Signal, TypeOK, ProcessesOK
    <3>6. ~\E op \in Ops, n \in Counts \cup Sizes \cup {0} : Call(f, op, n)
      BY <3>2, <3>3 DEF Call
    <3>7. IoctlResize(f)
      BY <3>1, <3>2, <3>3, <3>4, <3>5, <3>6 DEF Step, Body, OpenBody, ReleaseBody, ReadBody,
         ReadRest, WriteBody, WriteRest, IoctlCount, IoctlClear, IoctlTruncate
    <3>8. QED
      BY <3>1, <3>4, <3>7 DEF IoctlResize
  <2>2. ~\E r, o, w : Return(f, r, o, w)
    BY <1>2 DEF Return
  <2>3. ~Oops(f)
    BY <1>0, <1>2 DEF Oops, TypeOK, ProcessesOK
  <2>4. call' = call /\ dev'.buffer_size = call[f].n
    BY <1>0, <2>1, <2>2, <2>3 DEF IoctlResize, Devices
  <2>5. QED
    BY <2>4
<1>3. QED
  BY <1>1, <1>2 DEF TailSize

-----------------------------------------------------------------------------
(* Writers that wait for room.                                             *)

\* Who falls asleep has just found that he has to wait.
LEMMA FallsAsleep ==
  ASSUME TypeOK, NEW f \in Files, Step(f), pc'[f] = "sleep"
  PROVE  dev' = dev /\ call' = call /\ ~Ready(f)
<1>1. ~\E r, o, w : Return(f, r, o, w)
  BY DEF Return
<1>2. ~\E p \in PCs \ {"sleep"} : pc' = [pc EXCEPT ![f] = p]
  BY DEF TypeOK, ProcessesOK
<1>3. {"down", "body", "rest", "redown", "tail", "wait", "oops"} \subseteq PCs \ {"sleep"}
  BY DEF PCs
<1>4. ~Oops(f)
  BY <1>2, <1>3 DEF Oops
<1>5. ~Down(f) /\ ~Signal(f)
  BY <1>1, <1>2, <1>3 DEF Down, Signal, TypeOK, ProcessesOK
<1>6. ~\E op \in Ops, n \in Counts \cup Sizes \cup {0} : Call(f, op, n)
  BY <1>2, <1>3 DEF Call
<1>7. ~Body(f)
  BY <1>1, <1>2, <1>3, <1>4 DEF Body, OpenBody, ReleaseBody, ReadBody, ReadRest, WriteBody,
     WriteRest, IoctlCount, IoctlClear, IoctlResize, IoctlTruncate
<1>8. WaitTest(f)
  BY <1>5, <1>6, <1>7 DEF Step
<1>9. QED
  BY <1>2, <1>3, <1>8 DEF WaitTest

\* The length falls when a write starts again at 0, in a call that wakes the
\* writers, and in a resize that goes on to wake them.
LEMMA LengthFalls ==
  ASSUME IInv, CallsMade, BufferKept, NEW f \in Files, Step(f),
         dev'.current_length < dev.current_length
  PROVE  \/ WriteRest(f) /\ ~Oops(f)
         \/ \E r, o : Return(f, r, o, Sleepers("write"))
         \/ pc'[f] = "tail"
<1>1. /\ TypeOK /\ dev \in Devices /\ dev.current_length \in Nat
      /\ pc \in [Files -> PCs]
  BY FieldTypes DEF IInv, TypeOK, DeviceOK, ProcessesOK
<1>2. dev'.current_length # dev.current_length
  BY <1>1
<1>3. Body(f) /\ ~Oops(f) /\ ~ReleaseBody(f) /\ ~ReadBody(f) /\ ~ReadRest(f) /\ ~IoctlCount(f)
  BY <1>1, <1>2, QuietDevice DEF Step
<1>4. ~OpenBody(f)
  BY <1>1, <1>2 DEF OpenBody, Up, Devices
<1>5. ~WriteBody(f)
  <2> SUFFICES ASSUME WriteBody(f) PROVE FALSE
      OBVIOUS
  <2>1. PICK off \in Nat, put \in Nat :
          dev' = Up([dev EXCEPT
                   !.buffer = Put(@, off, put, f),
                   !.current_length = IF @ < off + put THEN off + put ELSE @])
    BY <1>3, WriteBodyDevice
  <2>2. dev'.current_length
          = IF dev.current_length < off + put THEN off + put ELSE dev.current_length
    BY <1>1, <2>1 DEF Up, Devices
  <2>3. QED
    BY <1>1, <2>2
<1>6. CASE IoctlClear(f)
  BY <1>6 DEF IoctlClear
<1>7. CASE IoctlTruncate(f)
  <2>1. dev' # Up(dev)
    BY <1>1, <1>2 DEF Up, Devices
  <2>2. QED
    BY <1>7, <2>1 DEF IoctlTruncate
<1>8. CASE IoctlResize(f)
  <2>1. ~AllocMayFail
    BY <1>8 DEF IoctlResize, CallsMade, BufferKept
  <2>2. dev' # dev /\ dev' # Up(dev)
    BY <1>1, <1>2 DEF Up, Devices
  <2>3. pc' = [pc EXCEPT ![f] = "tail"]
    BY <1>8, <2>1, <2>2 DEF IoctlResize
  <2>4. QED
    BY <1>1, <2>3
<1>9. QED
  BY <1>3, <1>4, <1>5, <1>6, <1>7, <1>8 DEF Body

\* With one file to write with, whoever takes the length below the offset of
\* a sleeping write wakes it.
LEMMA NextWriterWoken ==
  ASSUME IInv, CallsMade, BufferKept, OpenHasBuffer, TailSize, SleepingWriterHasNoRoom,
         \A g, h \in Writers : g = h, NEW f \in Files, Step(f), TypeOK'
  PROVE  SleepingWriterHasNoRoom'
<1> SUFFICES ASSUME NEW g \in Files, Asleep(g, "write")', Ready(g)'
             PROVE  \E h \in Files : pc'[h] = "tail"
    BY DEF SleepingWriterHasNoRoom
<1>0. TypeOK /\ dev \in Devices /\ dev' \in Devices
  BY DEF IInv, TypeOK, DeviceOK
<1>1. g # f
  BY <1>0, FallsAsleep DEF Asleep, Ready
<1>2. pc[g] = "sleep" /\ call[g].op = "write" /\ call'[g] = call[g]
  BY <1>0, <1>1, OthersMove DEF Asleep
<1>3. g \in Writers /\ call[g].off \in Nat
  BY <1>0, <1>2 DEF TypeOK, ProcessesOK, CallOK, SystemCalls
<1>4. dev'.current_length < call[g].off /\ {dev.current_length, dev'.current_length} \subseteq Nat
  BY <1>0, <1>2, <1>3 DEF Ready, Devices
<1>5. ~\E r, o : Return(f, r, o, Sleepers("write"))
  BY <1>0, AllWoken
<1>6. CASE dev'.current_length < dev.current_length
  <2>1. ~WriteRest(f)
    BY <1>0, <1>1, <1>3 DEF WriteRest, TypeOK, ProcessesOK, CallOK
  <2>2. QED
    BY <1>5, <1>6, <2>1, LengthFalls
<1>7. CASE dev'.current_length >= dev.current_length
  <2>1. Ready(g)
    BY <1>2, <1>3, <1>4, <1>7 DEF Ready
  <2>2. PICK h \in Files : pc[h] = "tail"
    BY <1>2, <2>1 DEF Asleep, SleepingWriterHasNoRoom
  <2>3. CASE h # f
    BY <1>0, <2>2, <2>3, OthersMove
  <2>4. CASE h = f
    <3>1. IoctlTruncate(f)
      BY <2>2, <2>4 DEF Step, Call, MayCall, Down, WaitTest, Signal, Body, OpenBody,
         ReleaseBody, ReadBody, ReadRest, WriteBody, WriteRest, IoctlCount, IoctlClear,
         IoctlResize
    <3>2. call[f].n = dev.buffer_size /\ dev.buffer_size \in Nat
      BY <1>0, <2>2, <2>4, FieldTypes DEF TailSize, TypeOK
    <3>3. dev.buffer # NULL
      BY <1>2 DEF OpenHasBuffer, Opened
    <3>4. ~(call[f].n > dev.buffer_size) /\ ~(call[f].n < 0)
      BY <3>2
    <3>5. \E r, o : Return(f, r, o, Sleepers("write"))
      BY <3>1, <3>3, <3>4 DEF IoctlTruncate
    <3>6. QED
      BY <1>5, <3>5
  <2>5. QED
    BY <2>3, <2>4
<1>8. QED
  BY <1>4, <1>6, <1>7

-----------------------------------------------------------------------------
(* Readers that wait for data.                                             *)

UnderWay == {"wait", "sleep", "redown", "rest"}

\* A write that is under way stays so until it wakes the readers.
LEMMA WriteStays ==
  ASSUME IInv, OpenHasBuffer, Writers \cap Interruptible = {}, NEW f \in Files, Step(f),
         call[f].op = "write", pc[f] \in UnderWay
  PROVE  \/ call'[f].op = "write" /\ pc'[f] \in UnderWay
         \/ \E r, o : Return(f, r, o, Sleepers("read"))
<1>1. TypeOK /\ pc \in [Files -> PCs] /\ f \in Writers
  BY DEF IInv, TypeOK, ProcessesOK, CallOK
<1>2. CASE Down(f) \/ WaitTest(f)
  BY <1>1, <1>2 DEF Down, WaitTest, UnderWay
<1>3. ~Signal(f) /\ ~\E op \in Ops, n \in Counts \cup Sizes \cup {0} : Call(f, op, n)
  BY <1>1 DEF Signal, Call, MayCall, UnderWay
<1>4. CASE Body(f)
  <2>1. WriteRest(f)
    BY <1>4 DEF UnderWay, Body, OpenBody, ReleaseBody, ReadBody, ReadRest, WriteBody,
       IoctlCount, IoctlClear, IoctlResize, IoctlTruncate
  <2>2. dev.buffer # NULL
    BY DEF OpenHasBuffer, Opened, UnderWay
  <2> DEFINE left == Lesser(dev.buffer_size, call[f].n - call[f].cnt)
  <2>3. left \in Int
    BY <1>1 DEF Lesser, TypeOK, DeviceOK, Devices, ProcessesOK, SystemCalls
  <2>4. ~(Copyable(left) < left)
    BY <2>2, <2>3 DEF Copyable
  <2>5. QED
    BY <2>1, <2>4 DEF WriteRest
<1>5. QED
  BY <1>2, <1>3, <1>4 DEF Step

\* As long as the size is left alone, only a write brings what a reader waits
\* for.
LEMMA NextReaderWoken ==
  ASSUME IInv, CallsMade, OpenHasBuffer, ReaderWaitsForWriteInProgress,
         Calls \cap {"resize", "truncate"} = {}, Writers \cap Interruptible = {},
         NEW f \in Files, Step(f), TypeOK'
  PROVE  ReaderWaitsForWriteInProgress'
<1> SUFFICES ASSUME NEW g \in Files, Asleep(g, "read")', Ready(g)'
             PROVE  \E h \in Files : call'[h].op = "write" /\ pc'[h] \in UnderWay
    BY DEF ReaderWaitsForWriteInProgress, UnderWay
<1>0. TypeOK /\ dev \in Devices /\ dev' \in Devices
  BY DEF IInv, TypeOK, DeviceOK
<1>1. g # f
  BY <1>0, FallsAsleep DEF Asleep, Ready
<1>2. pc[g] = "sleep" /\ call[g].op = "read" /\ call'[g] = call[g]
  BY <1>0, <1>1, OthersMove DEF Asleep
<1>3. call[g].n \in Nat
  BY <1>0, <1>2 DEF TypeOK, ProcessesOK, CallOK
<1>4. ~\E r, o : Return(f, r, o, Sleepers("read"))
  BY <1>0, AllWoken
<1>5. \/ dev'.current_length >= call[g].n
      \/ dev'.current_length = dev'.buffer_size
  BY <1>2 DEF Ready
<1>6. CASE WriteBody(f) /\ ~Oops(f)
  <2>1. pc' = [pc EXCEPT ![f] = "wait"] /\ call[f].op = "write"
    BY <1>4, <1>6 DEF WriteBody
  <2>2. call'[f].op = "write"
    BY <1>0, <1>6, <2>1, SelfMoves DEF Body, TypeOK, ProcessesOK
  <2>3. QED
    BY <1>0, <2>1, <2>2 DEF UnderWay, TypeOK, ProcessesOK
<1>7. ASSUME Ready(g) PROVE \E h \in Files : call'[h].op = "write" /\ pc'[h] \in UnderWay
  <2>1. PICK h \in Files : call[h].op = "write" /\ pc[h] \in UnderWay
    BY <1>2, <1>7 DEF Asleep, ReaderWaitsForWriteInProgress, UnderWay
  <2>2. CASE h = f
    BY <1>4, <2>1, <2>2, WriteStays
  <2>3. CASE h # f
    BY <1>0, <2>1, <2>3, OthersMove DEF UnderWay
  <2>4. QED
    BY <2>2, <2>3
<1>8. ASSUME dev'.current_length = dev.current_length, dev'.buffer_size = dev.buffer_size
      PROVE  Ready(g)
  BY <1>2, <1>5, <1>8 DEF Ready
<1>9. CASE \/ \E op \in Ops, n \in Counts \cup Sizes \cup {0} : Call(f, op, n)
           \/ Down(f) \/ WaitTest(f) \/ Signal(f) \/ Oops(f)
           \/ ReleaseBody(f) \/ ReadBody(f) \/ ReadRest(f) \/ IoctlCount(f)
  BY <1>0, <1>7, <1>8, <1>9, QuietDevice
<1>10. CASE OpenBody(f)
  <2>1. dev'.current_length = dev.current_length /\ dev'.buffer_size = dev.buffer_size
    BY <1>0, <1>10 DEF OpenBody, Up, Devices
  <2>2. QED
    BY <1>7, <1>8, <2>1
<1>11. CASE IoctlClear(f)
  <2>1. /\ dev'.current_length = 0 /\ dev'.buffer_size = dev.buffer_size
        /\ dev.buffer_size \in Nat \ {0} /\ dev.current_length \in Nat
    BY <1>0, <1>11 DEF IoctlClear, Up, Devices
  <2>2. dev.current_length >= call[g].n
    BY <1>3, <1>5, <2>1
  <2>3. QED
    BY <1>2, <1>7, <2>2 DEF Ready
<1>12. ~(WriteRest(f) /\ ~Oops(f))
  BY <1>4 DEF WriteRest
<1>13. ~IoctlResize(f) /\ ~IoctlTruncate(f)
  BY <1>0 DEF IoctlResize, IoctlTruncate, CallsMade, TypeOK, ProcessesOK, CallOK
<1>14. QED
  BY <1>6, <1>9, <1>10, <1>11, <1>12, <1>13 DEF Step, Body

-----------------------------------------------------------------------------
(* The theorems.                                                           *)

\* What both need of the state.
WInv == IInv /\ CallsMade /\ OpenHasBuffer

\* At the start all files are closed.
LEMMA InitWInv == Init => WInv /\ TailSize /\ SleepingWriterHasNoRoom
                               /\ ReaderWaitsForWriteInProgress
<1> SUFFICES ASSUME Init PROVE WInv /\ TailSize /\ SleepingWriterHasNoRoom
                                    /\ ReaderWaitsForWriteInProgress
    OBVIOUS
<1>1. \A f \in Files : pc[f] = "closed" /\ call[f] = NoCall
  BY DEF Init
<1>2. QED
  BY <1>1, InitInv DEF WInv, CallsMade, OpenHasBuffer, Opened, TailSize, NoCall,
     SleepingWriterHasNoRoom, ReaderWaitsForWriteInProgress, Asleep

\* Every step keeps it, as long as the buffer is kept.
LEMMA NextWInv == BufferKept /\ WInv /\ [Next]_vars => WInv'
<1> SUFFICES ASSUME BufferKept, WInv, [Next]_vars PROVE WInv'
    OBVIOUS
<1>1. IInv' /\ TypeOK
  BY NextInv DEF WInv, IInv
<1>2. ASSUME NEW f \in Files, Step(f) PROVE CallsMade' /\ OpenHasBuffer'
  BY <1>1, <1>2, NextCallsMade, NextOpenHasBuffer DEF WInv
<1>3. CASE UNCHANGED vars
  BY <1>1, <1>3 DEF vars, WInv, CallsMade, OpenHasBuffer, Opened
<1>4. QED
  BY <1>1, <1>2, <1>3 DEF Next, Step, WInv

\* A sleeping writer has no room, unless a resize is about to wake it: every
\* call of 7_cdrv/cdrv.c that takes the length away calls wake_up for it,
\* but for another writer's and for a resize that finds no memory.
THEOREM WriterWoken ==
  ASSUME BufferKept, \A g, h \in Writers : g = h
  PROVE  Spec => []SleepingWriterHasNoRoom
<1> DEFINE Inv == WInv /\ TailSize /\ SleepingWriterHasNoRoom
<1>1. Inv /\ [Next]_vars => Inv'
  <2> SUFFICES ASSUME Inv, [Next]_vars PROVE Inv'
      OBVIOUS
  <2>1. WInv' /\ TypeOK'
    BY NextWInv DEF WInv, IInv
  <2>2. ASSUME NEW f \in Files, Step(f) PROVE TailSize' /\ SleepingWriterHasNoRoom'
    BY <2>1, <2>2, NextTailSize, NextWriterWoken DEF WInv
  <2>3. CASE UNCHANGED vars
    BY <2>1, <2>3 DEF vars, TailSize, SleepingWriterHasNoRoom, Asleep, Ready
  <2>4. QED
    BY <2>1, <2>2, <2>3 DEF Next, Step
<1>2. Init => Inv
  BY InitWInv
<1>3. Inv => SleepingWriterHasNoRoom
  OBVIOUS
<1> HIDE DEF Inv
<1>4. QED
  BY <1>1, <1>2, <1>3, PTL DEF Spec

\* A reader that sleeps on data that is there waits for a write that has not
\* finished, if writers take no signals and nobody changes size or length by
\* ioctl: mydev_write wakes the readers at its end only.
THEOREM ReaderWoken ==
  ASSUME Calls \cap {"resize", "truncate"} = {}, Writers \cap Interruptible = {}
  PROVE  Spec => []ReaderWaitsForWriteInProgress
<1> DEFINE Inv == WInv /\ ReaderWaitsForWriteInProgress
<1>1. Inv /\ [Next]_vars => Inv'
  <2> SUFFICES ASSUME Inv, [Next]_vars PROVE Inv'
      OBVIOUS
  <2>1. BufferKept
    BY DEF BufferKept
  <2>2. WInv' /\ TypeOK'
    BY <2>1, NextWInv DEF WInv, IInv
  <2>3. ASSUME NEW f \in Files, Step(f) PROVE ReaderWaitsForWriteInProgress'
    BY <2>2, <2>3, NextReaderWoken DEF WInv
  <2>4. CASE UNCHANGED vars
    BY <2>2, <2>4 DEF vars, ReaderWaitsForWriteInProgress, Asleep, Ready
  <2>5. QED
    BY <2>2, <2>3, <2>4 DEF Next, Step
<1>2. Init => Inv
  BY InitWInv
<1>3. Inv => ReaderWaitsForWriteInProgress
  OBVIOUS
<1> HIDE DEF Inv
<1>4. QED
  BY <1>1, <1>2, <1>3, PTL DEF Spec
=============================================================================

------------------------- MODULE FirstDeviceProofs --------------------------
(***************************************************************************)
(* The properties of FirstDevice hold for any number of files, any buffer  *)
(* size, any offsets of pwrite and any number of clears.                   *)
(***************************************************************************)
EXTENDS FirstDevice, TLAPS

FileRecords == [mode : Modes \cup {"closed"}, pos : Nat, seen : Nat]

\* What is copied ends inside the buffer, when it starts inside.
LEMMA RoomType ==
  ASSUME NEW at \in Nat
  PROVE  /\ Room(at) \in Nat
         /\ \A n \in 0..Room(at) : at <= BUFFER_SIZE => at + n <= BUFFER_SIZE
         /\ \A n \in 0..Room(at) : ~(at <= BUFFER_SIZE) => n = 0
<1> USE FirstDeviceAssumption
<1>1. CASE at <= BUFFER_SIZE
  <2>1. Room(at) = BUFFER_SIZE - at
    BY <1>1 DEF Room
  <2>2. QED
    BY <1>1, <2>1
<1>2. CASE ~(at <= BUFFER_SIZE)
  <2>1. Room(at) = 0
    BY <1>2 DEF Room
  <2>2. QED
    BY <1>2, <2>1
<1>3. QED
  BY <1>1, <1>2

\* The length never falls, and a copy ends below it.
LEMMA LengthType ==
  ASSUME current_length \in Nat, NEW end \in Nat
  PROVE  /\ Length(end) \in Nat
         /\ current_length <= Length(end) /\ end <= Length(end)
         /\ Length(end) = current_length \/ Length(end) = end
BY DEF Length

\* A write and a pwrite copy the same way, from an offset that is a number.
LEMMA WriteCopies ==
  ASSUME TypeOK, NEW f \in Files, MydevWrite(f)
  PROVE  \E n \in 0..Room(file[f].pos) :
           /\ file[f].pos \in Nat /\ n \in Nat
           /\ Copy(file[f].pos, n)
           /\ file' = [file EXCEPT ![f].pos = file[f].pos + n]
<1>1. file[f].pos \in Nat
  BY DEF TypeOK
<1>2. \A n \in 0..Room(file[f].pos) : n \in Nat
  BY <1>1, RoomType
<1>3. PICK n \in 0..Room(file[f].pos) :
        Copy(file[f].pos, n) /\ file' = [file EXCEPT ![f].pos = @ + n]
  BY DEF MydevWrite
<1>4. QED
  BY <1>1, <1>2, <1>3

LEMMA PwriteCopies ==
  ASSUME TypeOK, NEW f \in Files, NEW at \in Offsets, MydevPwrite(f, at)
  PROVE  /\ at \in Nat
         /\ \E n \in 0..Room(at) : n \in Nat /\ Copy(at, n)
<1>1. at \in Nat
  BY FirstDeviceAssumption
<1>2. \A n \in 0..Room(at) : n \in Nat
  BY <1>1, RoomType
<1>3. QED
  BY <1>1, <1>2 DEF MydevPwrite

\* What is skipped are numbers.
LEMMA SkipType ==
  ASSUME TypeOK, NEW at \in Nat
  PROVE  Skip(at) \subseteq Nat /\ skipped \subseteq Skip(at)
<1>1. {i \in 0..at - 1 : ~Written(i)} \subseteq Nat
  OBVIOUS
<1>2. QED
  BY <1>1 DEF Skip, TypeOK

-----------------------------------------------------------------------------
\* The types hold at the start and after every handler.
LEMMA InitType == Init => TypeOK
<1> SUFFICES ASSUME Init PROVE TypeOK
    OBVIOUS
<1>1. Closed \in FileRecords
  BY DEF Closed, FileRecords
<1>2. file \in [Files -> FileRecords]
  BY <1>1 DEF Init
<1>3. buffer \in [Bytes -> Nat \cup {NULL}]
  BY DEF Init
<1>4. allocated \in BOOLEAN /\ wild \in BOOLEAN
  BY DEF Init
<1>5. current_length \in Nat /\ clears \in Nat /\ writing \in 0..1
  BY DEF Init
<1>6. jumped \subseteq Nat /\ skipped \subseteq Nat
  BY DEF Init
<1>7. QED
  BY <1>2, <1>3, <1>4, <1>5, <1>6 DEF TypeOK, FileRecords

\* What a copy changes keeps its type.
LEMMA CopyType ==
  ASSUME TypeOK, NEW at \in Nat, NEW n \in Nat, Copy(at, n)
  PROVE  /\ buffer' \in [Bytes -> Nat \cup {NULL}]
         /\ current_length' \in Nat /\ jumped' \subseteq Nat
         /\ UNCHANGED <<allocated, writing, clears, wild>>
<1>1. current_length \in Nat /\ at + n \in Nat
  BY DEF TypeOK
<1>2. current_length' \in Nat
  BY <1>1, LengthType DEF Copy
<1>3. jumped' \subseteq Nat
  BY <1>1 DEF Copy, TypeOK
<1>4. buffer' \in [Bytes -> Nat \cup {NULL}]
  BY DEF Copy, TypeOK
<1>5. QED
  BY <1>2, <1>3, <1>4 DEF Copy

LEMMA StepType == TypeOK /\ [Next]_vars => TypeOK'
<1> SUFFICES ASSUME TypeOK, [Next]_vars PROVE TypeOK'
    OBVIOUS
<1> USE DEF TypeOK
<1>1. ASSUME NEW f \in Files, NEW m \in Modes, MydevOpen(f, m) PROVE TypeOK'
  <2>1. file' \in [Files -> [mode : Modes \cup {"closed"}, pos : Nat, seen : Nat]]
    <3>1. [mode |-> m, pos |-> 0, seen |-> clears]
            \in [mode : Modes \cup {"closed"}, pos : Nat, seen : Nat]
      OBVIOUS
    <3>2. QED
      BY <1>1, <3>1 DEF MydevOpen
  <2>2. CASE m = "r"
    BY <1>1, <2>1, <2>2 DEF MydevOpen
  <2>3. CASE m # "r"
    <3>1. allocated' = TRUE /\ writing = 0 /\ writing' = writing + 1
      BY <1>1, <2>3 DEF MydevOpen, Opens
    <3>2. writing' \in 0..1
      BY <3>1
    <3>3. QED
      BY <1>1, <2>1, <3>1, <3>2 DEF MydevOpen
  <2>4. QED
    BY <2>2, <2>3
<1>2. ASSUME NEW f \in Files, MydevRelease(f) PROVE TypeOK'
  BY <1>2 DEF MydevRelease, Closed
<1>3. ASSUME NEW f \in Files, MydevRead(f) PROVE TypeOK'
  BY <1>3 DEF MydevRead
<1>4. ASSUME NEW f \in Files, MydevWrite(f) PROVE TypeOK'
  <2> PICK n \in 0..Room(file[f].pos) :
        /\ file[f].pos \in Nat /\ n \in Nat
        /\ Copy(file[f].pos, n)
        /\ file' = [file EXCEPT ![f].pos = file[f].pos + n]
    BY <1>4, WriteCopies
  <2>1. /\ buffer' \in [Bytes -> Nat \cup {NULL}]
        /\ current_length' \in Nat /\ jumped' \subseteq Nat
        /\ UNCHANGED <<allocated, writing, clears, wild>>
    BY CopyType
  <2>2. file[f].pos + n \in Nat
    OBVIOUS
  <2>3. file' \in [Files -> [mode : Modes \cup {"closed"}, pos : Nat, seen : Nat]]
    BY <2>2
  <2>4. skipped' = skipped
    BY <1>4 DEF MydevWrite
  <2>5. QED
    BY <2>1, <2>3, <2>4
<1>5. ASSUME NEW f \in Files, NEW at \in Offsets, MydevPwrite(f, at) PROVE TypeOK'
  <2> PICK n \in 0..Room(at) : at \in Nat /\ n \in Nat /\ Copy(at, n)
    BY <1>5, PwriteCopies
  <2>1. /\ buffer' \in [Bytes -> Nat \cup {NULL}]
        /\ current_length' \in Nat /\ jumped' \subseteq Nat
        /\ UNCHANGED <<allocated, writing, clears, wild>>
    BY CopyType
  <2>2. file' = file /\ skipped' \subseteq Nat
    BY <1>5, SkipType DEF MydevPwrite
  <2>3. QED
    BY <2>1, <2>2
<1>6. ASSUME NEW f \in Files, WriteOutside(f) PROVE TypeOK'
  <2>1. skipped' = skipped \/ \E at \in Nat : skipped' = Skip(at)
    BY <1>6, FirstDeviceAssumption DEF WriteOutside
  <2>2. skipped' \subseteq Nat
    BY <2>1, SkipType
  <2>3. QED
    BY <1>6, <2>2 DEF WriteOutside
<1>7. ASSUME NEW f \in Files, MydevClear(f) PROVE TypeOK'
  <2>1. file' \in [Files -> [mode : Modes \cup {"closed"}, pos : Nat, seen : Nat]]
    <3> SUFFICES ASSUME NEW g \in Files
                 PROVE  file'[g] \in [mode : Modes \cup {"closed"}, pos : Nat, seen : Nat]
        BY <1>7 DEF MydevClear, AfterClear
    <3>1. CASE g # f
      BY <1>7, <3>1 DEF MydevClear, AfterClear
    <3>2. CASE g = f
      <4>1. file'[g] = [file[g] EXCEPT !.pos = 0, !.seen = clears + 1]
        BY <1>7, <3>2 DEF MydevClear, AfterClear
      <4>2. clears + 1 \in Nat /\ 0 \in Nat
        OBVIOUS
      <4>3. file[g] \in [mode : Modes \cup {"closed"}, pos : Nat, seen : Nat]
        OBVIOUS
      <4>4. QED
        BY <4>1, <4>2, <4>3
    <3>3. QED
      BY <3>1, <3>2
  <2>2. current_length' \in Nat /\ clears' \in Nat /\ jumped' \subseteq Nat
    BY <1>7 DEF MydevClear
  <2>3. QED
    BY <1>7, <2>1, <2>2 DEF MydevClear
<1>8. CASE UNCHANGED vars
  BY <1>8 DEF vars
<1>9. QED
  BY <1>1, <1>2, <1>3, <1>4, <1>5, <1>6, <1>7, <1>8 DEF Next

\* FirstDevice has the state its types say, whatever offsets pwrite is called
\* with; the length may then pass the end of the buffer.
THEOREM TypeCorrect == Spec => []TypeOK
BY InitType, StepType, PTL DEF Spec

-----------------------------------------------------------------------------
\* A byte of which nothing is wrong to read
Fit(i) == Written(i) \/ i \in skipped

\* No byte is unwritten again, and none is taken from what was skipped.
LEMMA FitStays ==
  ASSUME TypeOK, [Next]_vars, NEW i \in Nat, Fit(i)
  PROVE  Fit(i)'
<1> USE DEF Fit, Written, TypeOK
<1>1. ASSUME NEW at \in Nat, NEW n \in Nat, Copy(at, n), Written(i) PROVE Written(i)'
  BY <1>1, FirstDeviceAssumption DEF Copy
<1>2. ASSUME NEW f \in Files, NEW m \in Modes, MydevOpen(f, m) PROVE Fit(i)'
  BY <1>2 DEF MydevOpen
<1>3. ASSUME NEW f \in Files, MydevRelease(f) PROVE Fit(i)'
  BY <1>3 DEF MydevRelease
<1>4. ASSUME NEW f \in Files, MydevRead(f) PROVE Fit(i)'
  BY <1>4 DEF MydevRead
<1>5. ASSUME NEW f \in Files, MydevWrite(f) PROVE Fit(i)'
  <2>1. skipped' = skipped
    BY <1>5 DEF MydevWrite
  <2>2. Written(i) => Written(i)'
    BY <1>1, <1>5, WriteCopies
  <2>3. QED
    BY <2>1, <2>2
<1>6. ASSUME NEW f \in Files, NEW at \in Offsets, MydevPwrite(f, at) PROVE Fit(i)'
  <2>1. skipped \subseteq skipped'
    BY <1>6 DEF MydevPwrite, Skip
  <2>2. Written(i) => Written(i)'
    BY <1>1, <1>6, PwriteCopies
  <2>3. QED
    BY <2>1, <2>2
<1>7. ASSUME NEW f \in Files, WriteOutside(f) PROVE Fit(i)'
  BY <1>7 DEF WriteOutside, Skip
<1>8. ASSUME NEW f \in Files, MydevClear(f) PROVE Fit(i)'
  BY <1>8 DEF MydevClear
<1>9. CASE UNCHANGED vars
  BY <1>9 DEF vars
<1>10. QED
  BY <1>2, <1>3, <1>4, <1>5, <1>6, <1>7, <1>8, <1>9 DEF Next

\* A copy fits up to its end, when what is below its start does.
LEMMA CopyFits ==
  ASSUME TypeOK, NEW at \in Nat, NEW n \in 0..Room(at), Copy(at, n),
         NEW i \in Nat, at <= i, i < at + n
  PROVE  Written(i)'
<1>1. n \in Nat /\ at <= BUFFER_SIZE
  <2>1. n \in Nat
    BY RoomType
  <2>2. n # 0
    BY <2>1
  <2>3. QED
    BY <2>1, <2>2, RoomType
<1>2. i \in Bytes
  <2>1. at + n <= BUFFER_SIZE
    BY <1>1, RoomType
  <2>2. QED
    BY <1>1, <2>1, FirstDeviceAssumption DEF Bytes
<1>3. buffer'[i] = clears
  BY <1>2 DEF Copy
<1>4. QED
  BY <1>2, <1>3, FirstDeviceAssumption DEF Written, TypeOK

\* A byte is written, or skipped, no later than an offset or the length passes it.
LEMMA StepUnset == TypeOK /\ NothingUnset /\ [Next]_vars => NothingUnset'
<1> SUFFICES ASSUME TypeOK, NothingUnset, [Next]_vars PROVE NothingUnset'
    OBVIOUS
<1> DEFINE Below(k) == \A i \in 0..k - 1 : Fit(i)
<1>a. /\ Below(current_length) /\ \A f \in Files : Below(file[f].pos)
      /\ \A f \in Open : allocated
      /\ wild => \E i \in skipped : i >= BUFFER_SIZE
  BY DEF NothingUnset, Fit
<1>b. TypeOK' /\ current_length \in Nat /\ (\A f \in Files : file[f].pos \in Nat)
  BY StepType DEF TypeOK
<1>c. ASSUME NEW k \in Nat, Below(k) PROVE \A i \in 0..k - 1 : Fit(i)'
  BY <1>c, FitStays
<1>d. ASSUME /\ \A i \in 0..current_length' - 1 : Fit(i)'
             /\ \A f \in Files : \A i \in 0..file'[f].pos - 1 : Fit(i)'
             /\ \A f \in Files : file'[f].mode # "closed" => allocated'
             /\ wild' => \E i \in skipped' : i >= BUFFER_SIZE
      PROVE  NothingUnset'
  BY <1>d DEF NothingUnset, Fit, Open
<1> HIDE DEF Below
<1>1. ASSUME NEW f \in Files, NEW m \in Modes, MydevOpen(f, m) PROVE NothingUnset'
  <2>1. allocated'
    <3>1. CASE m = "r"
      BY <1>1, <3>1 DEF MydevOpen, Opens
    <3>2. CASE m # "r"
      BY <1>1, <3>2 DEF MydevOpen
    <3>3. QED
      BY <3>1, <3>2
  <2>2. \A g \in Files : file'[g].pos = file[g].pos \/ file'[g].pos = 0
    BY <1>1 DEF MydevOpen, TypeOK
  <2>3. \A g \in Files : \A i \in 0..file'[g].pos - 1 : Fit(i)'
    BY <1>a, <1>b, <1>c, <2>2
  <2>4. current_length' = current_length /\ wild' = wild /\ skipped' = skipped
    BY <1>1 DEF MydevOpen
  <2>5. QED
    BY <1>a, <1>b, <1>c, <1>d, <2>1, <2>3, <2>4
<1>2. ASSUME NEW f \in Files, MydevRelease(f) PROVE NothingUnset'
  <2>1. \A g \in Files : /\ file'[g].pos = file[g].pos \/ file'[g].pos = 0
                         /\ file'[g].mode = file[g].mode \/ file'[g].mode = "closed"
    BY <1>2 DEF MydevRelease, Closed, TypeOK
  <2>2. \A g \in Files : \A i \in 0..file'[g].pos - 1 : Fit(i)'
    BY <1>a, <1>b, <1>c, <2>1
  <2>3. /\ current_length' = current_length /\ wild' = wild /\ skipped' = skipped
        /\ allocated' = allocated
    BY <1>2 DEF MydevRelease
  <2>4. QED
    BY <1>a, <1>b, <1>c, <1>d, <2>1, <2>2, <2>3 DEF Open
<1>3. ASSUME NEW f \in Files, MydevRead(f) PROVE NothingUnset'
  <2>1. \A g \in Files : /\ file'[g].pos = file[g].pos \/ file'[g].pos \in 0..current_length
                         /\ file'[g].mode = file[g].mode
    BY <1>3, <1>b DEF MydevRead, TypeOK
  <2>2. \A i \in 0..current_length - 1 : Fit(i)'
    BY <1>a, <1>b, <1>c
  <2>3. \A g \in Files : \A i \in 0..file'[g].pos - 1 : Fit(i)'
    <3> TAKE g \in Files
    <3>1. CASE file'[g].pos = file[g].pos
      BY <1>a, <1>b, <1>c, <3>1
    <3>2. CASE file'[g].pos \in 0..current_length
      BY <1>b, <2>2, <3>2
    <3>3. QED
      BY <2>1, <3>1, <3>2
  <2>4. /\ current_length' = current_length /\ wild' = wild /\ skipped' = skipped
        /\ allocated' = allocated
    BY <1>3 DEF MydevRead
  <2>5. QED
    BY <1>a, <1>d, <2>1, <2>2, <2>3, <2>4 DEF Open
<1>4. ASSUME NEW f \in Files, MydevWrite(f) PROVE NothingUnset'
  <2> PICK n \in 0..Room(file[f].pos) :
        /\ file[f].pos \in Nat /\ n \in Nat
        /\ Copy(file[f].pos, n)
        /\ file' = [file EXCEPT ![f].pos = file[f].pos + n]
    BY <1>4, WriteCopies
  <2>1. \A i \in 0..file[f].pos + n - 1 : Fit(i)'
    <3> TAKE i \in 0..file[f].pos + n - 1
    <3>1. CASE i < file[f].pos
      BY <1>a, <1>c, <3>1
    <3>2. CASE file[f].pos <= i
      BY <3>2, CopyFits DEF Fit
    <3>3. QED
      BY <3>1, <3>2
  <2>2. current_length' = current_length \/ current_length' = file[f].pos + n
    BY <1>b, LengthType DEF Copy
  <2>3. \A i \in 0..current_length' - 1 : Fit(i)'
    BY <1>a, <1>b, <1>c, <2>1, <2>2
  <2>4. \A g \in Files : /\ file'[g].pos = (IF g = f THEN file[f].pos + n ELSE file[g].pos)
                         /\ file'[g].mode = file[g].mode
    BY DEF TypeOK
  <2>5. \A g \in Files : \A i \in 0..file'[g].pos - 1 : Fit(i)'
    <3> TAKE g \in Files
    <3>1. CASE g = f
      BY <2>1, <2>4, <3>1
    <3>2. CASE g # f
      BY <1>a, <1>b, <1>c, <2>4, <3>2
    <3>3. QED
      BY <3>1, <3>2
  <2>6. wild' = wild /\ skipped' = skipped /\ allocated' = allocated
    BY <1>4 DEF MydevWrite, Copy
  <2>7. QED
    BY <1>a, <1>d, <2>3, <2>4, <2>5, <2>6 DEF Open
<1>5. ASSUME NEW f \in Files, NEW at \in Offsets, MydevPwrite(f, at) PROVE NothingUnset'
  <2> PICK n \in 0..Room(at) : at \in Nat /\ n \in Nat /\ Copy(at, n)
    BY <1>5, PwriteCopies
  <2>1. \A i \in 0..at + n - 1 : Fit(i)'
    <3> TAKE i \in 0..at + n - 1
    <3>1. CASE i < at
      <4>1. Written(i) \/ i \in skipped'
        BY <1>5, <3>1 DEF MydevPwrite, Skip
      <4>2. Written(i) => Fit(i)'
        BY FitStays DEF Fit
      <4>3. QED
        BY <4>1, <4>2 DEF Fit
    <3>2. CASE at <= i
      BY <3>2, CopyFits DEF Fit
    <3>3. QED
      BY <3>1, <3>2
  <2>2. current_length' = current_length \/ current_length' = at + n
    BY <1>b, LengthType DEF Copy
  <2>3. \A i \in 0..current_length' - 1 : Fit(i)'
    BY <1>a, <1>b, <1>c, <2>1, <2>2
  <2>4. file' = file /\ skipped \subseteq skipped'
    BY <1>5 DEF MydevPwrite, Skip
  <2>5. \A g \in Files : \A i \in 0..file'[g].pos - 1 : Fit(i)'
    BY <1>a, <1>b, <1>c, <2>4
  <2>6. wild' = wild /\ allocated' = allocated
    BY DEF Copy
  <2>7. QED
    BY <1>a, <1>d, <2>3, <2>4, <2>5, <2>6 DEF Open
<1>6. ASSUME NEW f \in Files, WriteOutside(f) PROVE NothingUnset'
  <2>1. file' = file /\ current_length' = current_length /\ allocated' = allocated
    BY <1>6 DEF WriteOutside
  <2>2. \E i \in skipped' : i >= BUFFER_SIZE
    <3>1. BUFFER_SIZE \in Nat /\ ~Written(BUFFER_SIZE)
      BY FirstDeviceAssumption DEF Written, Bytes
    <3>2. CASE file[f].pos > BUFFER_SIZE /\ UNCHANGED skipped
      <4>1. BUFFER_SIZE \in 0..file[f].pos - 1
        BY <1>b, <3>1, <3>2
      <4>2. Fit(BUFFER_SIZE)
        BY <1>a, <4>1 DEF Below
      <4>3. QED
        BY <3>1, <3>2, <4>2 DEF Fit
    <3>3. CASE \E at \in Offsets : at > BUFFER_SIZE /\ skipped' = Skip(at)
      <4> PICK at \in Offsets : at > BUFFER_SIZE /\ skipped' = Skip(at)
        BY <3>3
      <4>1. BUFFER_SIZE \in 0..at - 1
        BY <3>1, FirstDeviceAssumption
      <4>2. BUFFER_SIZE \in skipped'
        BY <3>1, <4>1 DEF Skip
      <4>3. QED
        BY <3>1, <4>2
    <3>4. QED
      BY <1>6, <3>2, <3>3 DEF WriteOutside
  <2>3. QED
    BY <1>a, <1>b, <1>c, <1>d, <2>1, <2>2 DEF Open
<1>7. ASSUME NEW f \in Files, MydevClear(f) PROVE NothingUnset'
  <2>1. \A g \in Files : /\ file'[g].pos = file[g].pos \/ file'[g].pos = 0
                         /\ file'[g].mode = file[g].mode
    BY <1>7 DEF MydevClear, AfterClear, TypeOK
  <2>2. \A g \in Files : \A i \in 0..file'[g].pos - 1 : Fit(i)'
    BY <1>a, <1>b, <1>c, <2>1
  <2>3. current_length' = 0 /\ wild' = wild /\ skipped' = skipped /\ allocated' = allocated
    BY <1>7 DEF MydevClear
  <2>4. QED
    BY <1>a, <1>d, <2>1, <2>2, <2>3 DEF Open
<1>8. CASE UNCHANGED vars
  BY <1>a, <1>b, <1>c, <1>d, <1>8 DEF vars, Open
<1>9. QED
  BY <1>1, <1>2, <1>3, <1>4, <1>5, <1>6, <1>7, <1>8 DEF Next

\* No handler of FirstDevice reads memory that was never written, or leaves the
\* buffer, except where a pwrite jumped over it.
THEOREM UnsetNeverRead == Spec => []NothingUnset
<1>1. Init => NothingUnset
  BY FirstDeviceAssumption DEF Init, NothingUnset, Closed, Open
<1>2. QED
  BY <1>1, TypeCorrect, StepUnset, PTL DEF Spec

-----------------------------------------------------------------------------
\* No file has seen a clear that has not happened.
SeenPast == \A f \in Files : file[f].seen <= clears
KeepsUp == TypeOK /\ SeenPast /\ ClearedStaysCleared

\* A copy leaves no byte of before the last clear below the length but those it
\* jumped over.
LEMMA CopyKeepsUp ==
  ASSUME TypeOK, ClearedStaysCleared, NEW at \in Nat, NEW n \in Nat, Copy(at, n)
  PROVE  /\ \A i \in Bytes : i < current_length' => buffer'[i] = clears' \/ i \in jumped'
         /\ current_length \in Nat /\ current_length' \in Nat
         /\ current_length <= current_length' /\ at + n <= current_length'
         /\ clears' = clears
<1>1. current_length \in Nat /\ at + n \in Nat
  BY DEF TypeOK
<1>2. /\ current_length' = current_length \/ current_length' = at + n
      /\ current_length <= current_length' /\ at + n <= current_length'
      /\ current_length' \in Nat
  BY <1>1, LengthType DEF Copy
<1>3. clears' = clears
  BY DEF Copy
<1>4. ASSUME NEW i \in Bytes, i < current_length'
      PROVE  buffer'[i] = clears \/ i \in jumped'
  <2>1. i \in Nat
    BY FirstDeviceAssumption DEF Bytes
  <2>2. CASE at <= i /\ i < at + n
    BY <2>2 DEF Copy
  <2>3. CASE ~(at <= i /\ i < at + n) /\ i < current_length
    BY <2>3 DEF Copy, ClearedStaysCleared
  <2>4. CASE ~(at <= i /\ i < at + n) /\ ~(i < current_length)
    <3>1. i \in current_length..at - 1
      BY <1>1, <1>2, <1>4, <2>1, <2>4
    <3>2. QED
      BY <3>1 DEF Copy
  <2>5. QED
    BY <2>2, <2>3, <2>4
<1>5. QED
  BY <1>1, <1>2, <1>3, <1>4

\* What the next clear leaves behind is known by the clears it has seen.
LEMMA StepKeepsUp == KeepsUp /\ [Next]_vars => (SeenPast /\ ClearedStaysCleared)'
<1> SUFFICES ASSUME KeepsUp, [Next]_vars PROVE (SeenPast /\ ClearedStaysCleared)'
    OBVIOUS
<1>a. TypeOK /\ SeenPast /\ ClearedStaysCleared
  BY DEF KeepsUp
<1>1. ASSUME NEW f \in Files, NEW m \in Modes, MydevOpen(f, m)
      PROVE (SeenPast /\ ClearedStaysCleared)'
  BY <1>1, <1>a DEF MydevOpen, TypeOK, SeenPast, ClearedStaysCleared
<1>2. ASSUME NEW f \in Files, MydevRelease(f) PROVE (SeenPast /\ ClearedStaysCleared)'
  BY <1>2, <1>a DEF MydevRelease, Closed, TypeOK, SeenPast, ClearedStaysCleared
<1>3. ASSUME NEW f \in Files, MydevRead(f) PROVE (SeenPast /\ ClearedStaysCleared)'
  BY <1>3, <1>a DEF MydevRead, TypeOK, SeenPast, ClearedStaysCleared
<1>4. ASSUME NEW f \in Files, MydevWrite(f) PROVE (SeenPast /\ ClearedStaysCleared)'
  <2> PICK n \in 0..Room(file[f].pos) :
        /\ file[f].pos \in Nat /\ n \in Nat
        /\ Copy(file[f].pos, n)
        /\ file' = [file EXCEPT ![f].pos = file[f].pos + n]
    BY <1>4, <1>a, WriteCopies
  <2>1. /\ \A i \in Bytes : i < current_length' => buffer'[i] = clears' \/ i \in jumped'
        /\ current_length \in Nat /\ current_length' \in Nat
        /\ current_length <= current_length' /\ file[f].pos + n <= current_length'
        /\ clears' = clears
    BY <1>a, CopyKeepsUp
  <2>2. \A g \in Files : /\ file'[g].pos = (IF g = f THEN file[f].pos + n ELSE file[g].pos)
                         /\ file'[g].seen = file[g].seen
                         /\ file[g].pos \in Nat
    BY <1>a DEF TypeOK
  <2>3. SeenPast' /\ \A g \in Files : file'[g].seen = clears' => file'[g].pos <= current_length'
    BY <1>a, <2>1, <2>2 DEF SeenPast, ClearedStaysCleared
  <2>4. QED
    BY <2>1, <2>3 DEF ClearedStaysCleared
<1>5. ASSUME NEW f \in Files, NEW at \in Offsets, MydevPwrite(f, at)
      PROVE (SeenPast /\ ClearedStaysCleared)'
  <2> PICK n \in 0..Room(at) : at \in Nat /\ n \in Nat /\ Copy(at, n)
    BY <1>5, <1>a, PwriteCopies
  <2>1. /\ \A i \in Bytes : i < current_length' => buffer'[i] = clears' \/ i \in jumped'
        /\ current_length \in Nat /\ current_length' \in Nat
        /\ current_length <= current_length' /\ clears' = clears
    BY <1>a, CopyKeepsUp
  <2>2. file' = file /\ \A g \in Files : file[g].pos \in Nat
    BY <1>5, <1>a DEF MydevPwrite, TypeOK
  <2>3. QED
    BY <1>a, <2>1, <2>2 DEF SeenPast, ClearedStaysCleared
<1>6. ASSUME NEW f \in Files, WriteOutside(f) PROVE (SeenPast /\ ClearedStaysCleared)'
  BY <1>6, <1>a DEF WriteOutside, SeenPast, ClearedStaysCleared
<1>7. ASSUME NEW f \in Files, MydevClear(f) PROVE (SeenPast /\ ClearedStaysCleared)'
  BY <1>7, <1>a, FirstDeviceAssumption
     DEF MydevClear, AfterClear, Bytes, TypeOK, SeenPast, ClearedStaysCleared
<1>8. CASE UNCHANGED vars
  BY <1>8, <1>a DEF vars, SeenPast, ClearedStaysCleared
<1>9. QED
  BY <1>1, <1>2, <1>3, <1>4, <1>5, <1>6, <1>7, <1>8 DEF Next

\* In FirstDevice, what a clear removed comes back only where a pwrite, or a file
\* that another file's clear left behind the end, jumped over it.
THEOREM ClearHolds == Spec => []ClearedStaysCleared
<1>1. Init => SeenPast /\ ClearedStaysCleared
  BY FirstDeviceAssumption DEF Init, SeenPast, ClearedStaysCleared, Closed, Bytes
<1>2. QED
  BY <1>1, TypeCorrect, StepKeepsUp, PTL DEF Spec, KeepsUp
=============================================================================

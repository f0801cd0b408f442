--------------------------- MODULE DriverLoadProofs ---------------------------
(***************************************************************************)
(* Proofs about DriverLoad, for any number of devices and of open files.   *)
(* In each phase the plan and what is held go together: so many steps of   *)
(* cdrv_init are done, so many of its labels or of cdrv_exit are left.     *)
(***************************************************************************)
EXTENDS DriverLoad, SequenceTheorems, TLAPS

-----------------------------------------------------------------------------
(* The inductive invariant                                                 *)

Single == {"memory", "region", "class", "dir", "file"}
Things == {One(w) : w \in Single} \cup {<<w, i>> : w \in {"device", "cdev", "node", "buffer"}, i \in Minors}

Memory == One("memory")
Region == One("region")
Class == One("class")
Dir == One("dir")
File == One("file")

\* How many steps cdrv_init and cdrv_exit spend on /proc
ProcSteps == IF driver = 7 THEN 2 ELSE 0

\* What cdrv_init makes and what cdrv_exit gives back
Made == {Memory, Region, Class} \cup (IF driver = 7 THEN {Dir, File} ELSE {})
        \cup {<<w, i>> : w \in {"device", "cdev", "node"}, i \in Minors}
Returned == {Memory, Region, Class} \cup (IF driver = 7 THEN {Dir, File} ELSE {})
        \cup {<<w, i>> : w \in {"node", "cdev", "buffer"}, i \in Minors}

\* The step of cdrv_init that makes x, and the one of cdrv_exit that returns it
MadeBy(x) ==
  CASE x = Memory -> 1 [] x = Region -> 2 [] x = Class -> 3
    [] x = Dir -> 4 [] x = File -> 5
    [] x[1] = "device" -> 3 + ProcSteps + 3 * x[2] + 1
    [] x[1] = "cdev" -> 3 + ProcSteps + 3 * x[2] + 2
    [] x[1] = "node" -> 3 + ProcSteps + 3 * x[2] + 3
ReturnedBy(x) ==
  CASE x = File -> 1 [] x = Dir -> 2
    [] x[1] = "node" -> ProcSteps + 3 * x[2] + 1
    [] x[1] = "cdev" -> ProcSteps + 3 * x[2] + 2
    [] x[1] = "buffer" -> ProcSteps + 3 * x[2] + 3
    [] x = Class -> ProcSteps + 3 * MINOR_COUNT + 1
    [] x = Region -> ProcSteps + 3 * MINOR_COUNT + 2
    [] x = Memory -> ProcSteps + 3 * MINOR_COUNT + 3

\* n steps of the list s are done.
Behind(s, n) == n \in 0..Len(s) /\ plan = SubSeq(s, n + 1, Len(s))

TypeInv ==
  /\ driver \in {6, 7}
  /\ pc \in {"off", "load", "on", "unload", "back", "zero", "failed", "astray"}
  /\ held \subseteq Things
  /\ driver = 6 => Dir \notin held /\ File \notin held
  /\ open \in [Minors -> Nat]

Off == pc = "off" => held = {}

LoadedTo(n) ==
  /\ Behind(Setup, n)
  /\ \A x \in Made : x \in held => MadeBy(x) <= n
  /\ \A x \in Made : MadeBy(x) <= n /\ x[1] # "node" => x \in held
  /\ \A i \in Minors : <<"buffer", i>> \in held => <<"cdev", i>> \in held
Loading == pc = "load" => \E n \in Nat : LoadedTo(n)

\* All is there, or the class failed and only the region is.
Running == pc = "on" => held = {Region} \/ \A x \in Made : x[1] # "node" => x \in held

UnloadedTo(n) ==
  /\ Behind(Teardown, n)
  /\ \A x \in Returned : x \in held => ReturnedBy(x) > n
  /\ \A x \in Returned : ReturnedBy(x) > n /\ x[1] \notin {"node", "buffer"} => x \in held
\* A driver without its class gets as far as deleting its first device.
HollowTo(n) == Behind(Teardown, n) /\ n <= ProcSteps + 1 /\ held = {Region}
Unloading == pc = "unload" => \E n \in Nat : UnloadedTo(n) \/ HollowTo(n)

\* The memory was all there was.
EarlyBack ==
  \/ plan = << >> /\ held = {}
  \/ plan = <<Memory>> /\ held = {Memory}

\* The class failed.
ClassBack ==
  pc = "zero" =>
    \/ plan = << >> /\ held = {Region}
    \/ plan = <<Memory>> /\ held = {Memory, Region}

\* /proc refused: i has any value.
ProcBackFrom(i) ==
  /\ driver = 7
  /\ {Memory, Region, Class} \subseteq held /\ held \subseteq {Memory, Region, Class, Dir}
  /\ \/ plan = <<Dir>> \o Err3(i)
     \/ plan = Err3(i) /\ Dir \notin held

\* A device refused: those up to i are there.
DeviceBackFrom(i) ==
  /\ {Memory, Region, Class} \subseteq held
  /\ \A j \in Minors : <<"cdev", j>> \in held <=> j <= i
  /\ \/ plan = <<File, Dir>> \o Err3(i) /\ driver = 7
     \/ plan = <<Dir>> \o Err3(i) /\ File \notin held /\ driver = 7
     \/ plan = Err3(i) /\ File \notin held /\ Dir \notin held

\* No device is left, and no region.
LateBack ==
  /\ Class \in held
  /\ held \cap ({Region, Dir, File} \cup Each("cdev")) = {}
  /\ \/ plan = <<Memory>> /\ Memory \in held
     \/ plan = << >> /\ held \subseteq {Class} \cup Each("node") \cup Each("buffer")

Indices == -1..MINOR_COUNT - 1
Undoing ==
  pc = "back" =>
    \/ EarlyBack
    \/ \E i \in Indices : ProcBackFrom(i)
    \/ \E i \in Indices : DeviceBackFrom(i)
    \/ LateBack

\* What is open, or in /proc, is set up, or its memory is gone.
InUse ==
  /\ \A i \in Minors :
       <<"cdev", i>> \in held => {<<"device", i>>, Memory, Class} \subseteq held
  /\ \A i \in Minors : <<"device", i>> \in held => Memory \in held
  /\ File \in held => Memory \in held
  /\ Forced \in bad \/
       /\ \A i \in Minors : open[i] > 0 =>
            /\ pc \notin {"off", "unload", "astray"} /\ Class \in held
            /\ Memory \in held => <<"device", i>> \in held
       /\ <<"file", "freed">> \in bad => Memory \notin held
  /\ pc \in {"load", "on"} /\ Class \in held => Memory \in held

\* Where the driver is and what it holds
Phases ==
  /\ Off /\ Loading /\ Running /\ Unloading /\ Undoing /\ ClassBack
  /\ NothingLeftBehind /\ OnlyAddedDeleted

Inv == TypeInv /\ Phases /\ InUse /\ NoUseAfterFree

-----------------------------------------------------------------------------
(* The lists                                                               *)

\* The assumption on the constants, taken apart
LEMMA Assumed == Drivers \subseteq {6, 7} /\ MINOR_COUNT \in Nat \ {0}
  BY DriverLoadAssumption

\* D has the steps a, b and c for each device.
EachDevice(D, a, b, c, S) ==
  /\ D \in Seq(S) /\ Len(D) = 3 * MINOR_COUNT
  /\ \A i \in Minors :
       /\ D[3 * i + 1] = <<a, i>> /\ D[3 * i + 2] = <<b, i>> /\ D[3 * i + 3] = <<c, i>>
       /\ {3 * i + 1, 3 * i + 2, 3 * i + 3} \subseteq 1..3 * MINOR_COUNT
  /\ \A k \in 1..3 * MINOR_COUNT : \E i \in Minors :
       \/ k = 3 * i + 1 /\ D[k] = <<a, i>>
       \/ k = 3 * i + 2 /\ D[k] = <<b, i>>
       \/ k = 3 * i + 3 /\ D[k] = <<c, i>>

\* What stands where in the list of three steps for each device
LEMMA DevicesAre ==
  ASSUME NEW a, NEW b, NEW c, NEW S,
         \A i \in Minors : <<a, i>> \in S /\ <<b, i>> \in S /\ <<c, i>> \in S
  PROVE  EachDevice(Devices(<<a, b, c>>), a, b, c, S)
  <1> DEFINE M == MINOR_COUNT
             D == Devices(<<a, b, c>>)
             W == <<a, b, c>>
  <1>0. M \in Nat \ {0} /\ Minors = 0..M - 1
    BY Assumed DEF Minors
  <1>1. D = [k \in 1..3 * M |-> <<W[((k - 1) % 3) + 1], (k - 1) \div 3>>]
    BY DEF Devices
  <1>2. W[1] = a /\ W[2] = b /\ W[3] = c
    OBVIOUS
  <1> HIDE DEF M, D, W
  <1>3. \A i \in Minors :
          /\ D[3 * i + 1] = <<a, i>> /\ D[3 * i + 2] = <<b, i>> /\ D[3 * i + 3] = <<c, i>>
          /\ {3 * i + 1, 3 * i + 2, 3 * i + 3} \subseteq 1..3 * M
    <2> TAKE i \in Minors
    <2>1. {3 * i + 1, 3 * i + 2, 3 * i + 3} \subseteq 1..3 * M
      BY <1>0
    <2>3. \A k \in 1..3 * M, q \in Minors :
            /\ (k - 1) % 3 = 0 /\ (k - 1) \div 3 = q => D[k] = <<a, q>>
            /\ (k - 1) % 3 = 1 /\ (k - 1) \div 3 = q => D[k] = <<b, q>>
            /\ (k - 1) % 3 = 2 /\ (k - 1) \div 3 = q => D[k] = <<c, q>>
      BY <1>1, <1>2
    <2> DEFINE k1 == 3 * i + 1
               k2 == 3 * i + 2
               k3 == 3 * i + 3
    <2>4. /\ k1 \in 1..3 * M /\ (k1 - 1) % 3 = 0 /\ (k1 - 1) \div 3 = i
          /\ k2 \in 1..3 * M /\ (k2 - 1) % 3 = 1 /\ (k2 - 1) \div 3 = i
          /\ k3 \in 1..3 * M /\ (k3 - 1) % 3 = 2 /\ (k3 - 1) \div 3 = i
      BY <1>0
    <2> HIDE DEF k1, k2, k3
    <2>5. D[k1] = <<a, i>> /\ D[k2] = <<b, i>> /\ D[k3] = <<c, i>>
      BY <2>3, <2>4, Zenon
    <2> QED
      BY <2>1, <2>5 DEF k1, k2, k3
  <1>4. \A k \in 1..3 * M : \E i \in Minors : k = 3 * i + 1 \/ k = 3 * i + 2 \/ k = 3 * i + 3
    <2> TAKE k \in 1..3 * M
    <2> DEFINE i == (k - 1) \div 3
    <2>1. i \in Minors
      BY <1>0
    <2>2. k = 3 * i + 1 \/ k = 3 * i + 2 \/ k = 3 * i + 3
      BY <1>0
    <2> HIDE DEF i
    <2> QED
      BY <2>1, <2>2
  <1>5. D \in Seq(S) /\ Len(D) = 3 * M
    <2>1. \A k \in 1..3 * M : D[k] \in S
      BY <1>3, <1>4
    <2>2. D \in [1..3 * M -> S]
      BY <1>1, <2>1
    <2> QED
      BY <2>2, <1>0, IsASeq, LenProperties
  <1> QED
    BY <1>3, <1>4, <1>5 DEF M, D, EachDevice
\* The number of each step of cdrv_init
LEMMA MadeByIs ==
  /\ MadeBy(Memory) = 1 /\ MadeBy(Region) = 2 /\ MadeBy(Class) = 3
  /\ MadeBy(Dir) = 4 /\ MadeBy(File) = 5
  /\ \A i \in Minors :
       /\ MadeBy(<<"device", i>>) = 3 + ProcSteps + 3 * i + 1
       /\ MadeBy(<<"cdev", i>>) = 3 + ProcSteps + 3 * i + 2
       /\ MadeBy(<<"node", i>>) = 3 + ProcSteps + 3 * i + 3
  BY DEF MadeBy, Memory, Region, Class, Dir, File, One

\* The number of each step of cdrv_exit
LEMMA ReturnedByIs ==
  /\ ReturnedBy(File) = 1 /\ ReturnedBy(Dir) = 2
  /\ \A i \in Minors :
       /\ ReturnedBy(<<"node", i>>) = ProcSteps + 3 * i + 1
       /\ ReturnedBy(<<"cdev", i>>) = ProcSteps + 3 * i + 2
       /\ ReturnedBy(<<"buffer", i>>) = ProcSteps + 3 * i + 3
  /\ ReturnedBy(Class) = ProcSteps + 3 * MINOR_COUNT + 1
  /\ ReturnedBy(Region) = ProcSteps + 3 * MINOR_COUNT + 2
  /\ ReturnedBy(Memory) = ProcSteps + 3 * MINOR_COUNT + 3
  BY DEF ReturnedBy, Memory, Region, Class, Dir, File, One

\* cdrv_init makes each thing once, in the order of MadeBy.
LEMMA SetupIs ==
  ASSUME driver \in {6, 7}
  PROVE  /\ Setup \in Seq(Made) /\ Len(Setup) = 3 + ProcSteps + 3 * MINOR_COUNT
         /\ \A k \in 1..Len(Setup) : Setup[k] \in Made /\ MadeBy(Setup[k]) = k
         /\ \A x \in Made : MadeBy(x) \in 1..Len(Setup) /\ Setup[MadeBy(x)] = x
  <1> DEFINE M == MINOR_COUNT
             P == ProcSteps
             A == <<Memory, Region, Class>>
             D == Devices(<<"device", "cdev", "node">>)
             AP == A \o Proc
  <1>0. M \in Nat \ {0} /\ Minors = 0..M - 1 /\ P \in {0, 2}
    BY Assumed DEF Minors, ProcSteps
  <1>1. EachDevice(D, "device", "cdev", "node", Made)
    <2>1. \A i \in Minors : <<"device", i>> \in Made /\ <<"cdev", i>> \in Made /\ <<"node", i>> \in Made
      BY DEF Made
    <2> QED
      BY <2>1, DevicesAre, Zenon
  <1>2. A \in Seq(Made) /\ Len(A) = 3 /\ A[1] = Memory /\ A[2] = Region /\ A[3] = Class
    BY DEF Made
  <1>3. /\ Proc \in Seq(Made) /\ Len(Proc) = P
        /\ driver = 7 => Proc[1] = Dir /\ Proc[2] = File
    <2>1. CASE driver = 7
      <3>1. Dir \in Made /\ File \in Made
        BY <2>1 DEF Made
      <3> QED
        BY <2>1, <3>1 DEF Proc, ProcSteps, Dir, File
    <2>2. CASE driver = 6
      BY <2>2 DEF Proc, ProcSteps
    <2> QED
      BY <2>1, <2>2
  <1>4. Setup = AP \o D
    BY DEF Setup, Memory, Region, Class
  <1> HIDE DEF A, D
  <1>c. \A s, t \in Seq(Made) :
          /\ s \o t \in Seq(Made) /\ Len(s \o t) = Len(s) + Len(t)
          /\ \A k \in 1..Len(s) + Len(t) :
               (s \o t)[k] = IF k <= Len(s) THEN s[k] ELSE t[k - Len(s)]
    BY ConcatProperties
  <1>5. AP \in Seq(Made) /\ Len(AP) = 3 + P /\ AP[1] = Memory /\ AP[2] = Region /\ AP[3] = Class
        /\ (driver = 7 => AP[4] = Dir /\ AP[5] = File)
    <2>1. AP \in Seq(Made) /\ Len(AP) = 3 + P
          /\ \A k \in 1..3 + P : AP[k] = IF k <= 3 THEN A[k] ELSE Proc[k - 3]
      <3>1. A \o Proc \in Seq(Made) /\ Len(A \o Proc) = Len(A) + Len(Proc)
            /\ \A k \in 1..Len(A) + Len(Proc) :
                 (A \o Proc)[k] = IF k <= Len(A) THEN A[k] ELSE Proc[k - Len(A)]
        BY <1>2, <1>3, <1>c, Zenon
      <3> QED
        BY <3>1, <1>2, <1>3
    <2> QED
      BY <2>1, <1>2, <1>3, <1>0 DEF ProcSteps
  <1> HIDE DEF AP
  <1>6. Setup \in Seq(Made) /\ Len(Setup) = 3 + P + 3 * M
        /\ \A k \in 1..3 + P + 3 * M : Setup[k] = IF k <= 3 + P THEN AP[k] ELSE D[k - (3 + P)]
    <2>1. D \in Seq(Made) /\ Len(D) = 3 * M
      BY <1>1 DEF EachDevice
    <2> QED
      BY <2>1, <1>4, <1>5, <1>c
  <1>7. ASSUME NEW k \in 1..Len(Setup)
        PROVE  Setup[k] \in Made /\ MadeBy(Setup[k]) = k
    <2>1. Setup[k] \in Made
      BY <1>6, ElementOfSeq
    <2>2. CASE k <= 3 + P
      <3>1. k = 1 \/ k = 2 \/ k = 3 \/ (driver = 7 /\ (k = 4 \/ k = 5))
        BY <1>0, <2>2, <1>6 DEF ProcSteps
      <3> QED
        BY <3>1, <2>1, <2>2, <1>5, <1>6, MadeByIs
    <2>3. CASE k > 3 + P
      <3>1. k - (3 + P) \in 1..3 * M /\ Setup[k] = D[k - (3 + P)]
        BY <1>0, <1>6, <2>3
      <3> QED
        <4> DEFINE j == k - (3 + P)
        <4>1. PICK i \in Minors :
                \/ j = 3 * i + 1 /\ D[j] = <<"device", i>>
                \/ j = 3 * i + 2 /\ D[j] = <<"cdev", i>>
                \/ j = 3 * i + 3 /\ D[j] = <<"node", i>>
          BY <3>1, <1>1 DEF EachDevice
        <4>2. Setup[k] = D[j] /\ k = 3 + P + j /\ i \in Int
          BY <3>1, <1>0, <1>6
        <4>3. /\ MadeBy(<<"device", i>>) = 3 + P + (3 * i + 1)
              /\ MadeBy(<<"cdev", i>>) = 3 + P + (3 * i + 2)
              /\ MadeBy(<<"node", i>>) = 3 + P + (3 * i + 3)
          BY MadeByIs, <1>0, <4>2
        <4> HIDE DEF j, P
        <4>4. MadeBy(Setup[k]) = 3 + P + j
          BY <4>1, <4>2, <4>3
        <4> QED
          BY <4>2, <4>4, <2>1
    <2> QED
      BY <2>2, <2>3, <1>0, <1>6
  <1>8. ASSUME NEW x \in Made
        PROVE  MadeBy(x) \in 1..Len(Setup) /\ Setup[MadeBy(x)] = x
    <2>1. CASE x \in {Memory, Region, Class}
      BY <2>1, <1>0, <1>5, <1>6, MadeByIs
    <2>2. CASE driver = 7 /\ x \in {Dir, File}
      BY <2>2, <1>0, <1>5, <1>6, MadeByIs DEF ProcSteps
    <2>3. CASE \E w \in {"device", "cdev", "node"}, i \in Minors : x = <<w, i>>
      <3>1. PICK i \in Minors : x = <<"device", i>> \/ x = <<"cdev", i>> \/ x = <<"node", i>>
        BY <2>3
      <3> DEFINE k1 == 3 * i + 1
                 k2 == 3 * i + 2
                 k3 == 3 * i + 3
      <3>2. k1 \in 1..3 * M /\ k2 \in 1..3 * M /\ k3 \in 1..3 * M
            /\ D[k1] = <<"device", i>> /\ D[k2] = <<"cdev", i>> /\ D[k3] = <<"node", i>>
        BY <1>1 DEF EachDevice
      <3>3. /\ MadeBy(<<"device", i>>) = 3 + P + k1
            /\ MadeBy(<<"cdev", i>>) = 3 + P + k2
            /\ MadeBy(<<"node", i>>) = 3 + P + k3
        BY MadeByIs, <1>0
      <3> HIDE DEF k1, k2, k3
      <3>4. \A k \in 1..3 * M : 3 + P + k \in 1..Len(Setup) /\ Setup[3 + P + k] = D[k]
        BY <1>0, <1>6
      <3> QED
        BY <3>1, <3>2, <3>3, <3>4
    <2> QED
      BY <2>1, <2>2, <2>3 DEF Made
  <1> QED
    BY <1>6, <1>7, <1>8
\* The entries in /proc go in the reverse order.
LEMMA ProcBackIs ==
  /\ driver = 7 => ProcBack = <<File, Dir>>
  /\ driver = 6 => ProcBack = << >>
  <1>1. CASE driver = 7
    <2>1. Proc = <<Dir, File>>
      BY <1>1 DEF Proc, Dir, File
    <2>2. ProcBack = [i \in 1..2 |-> <<Dir, File>>[(2 - i) + 1]]
      BY <2>1 DEF ProcBack, Reverse
    <2>3. ProcBack = <<File, Dir>>
      BY <2>2
    <2> QED
      BY <2>3, <1>1
  <1>2. CASE driver = 6
    <2>1. Proc = << >>
      BY <1>2 DEF Proc
    <2>2. ProcBack = [i \in 1..0 |-> << >>[(0 - i) + 1]]
      BY <2>1 DEF ProcBack, Reverse
    <2>3. ProcBack = << >>
      BY <2>2
    <2> QED
      BY <2>3, <1>2
  <1> QED
    BY <1>1, <1>2

\* cdrv_exit returns each thing once, in the order of ReturnedBy.
LEMMA TeardownIs ==
  ASSUME driver \in {6, 7}
  PROVE  /\ Teardown \in Seq(Returned) /\ Len(Teardown) = ProcSteps + 3 * MINOR_COUNT + 3
         /\ \A k \in 1..Len(Teardown) : Teardown[k] \in Returned /\ ReturnedBy(Teardown[k]) = k
         /\ \A x \in Returned :
              ReturnedBy(x) \in 1..Len(Teardown) /\ Teardown[ReturnedBy(x)] = x
  <1> DEFINE M == MINOR_COUNT
             P == ProcSteps
             A == <<Class, Region, Memory>>
             D == Devices(<<"node", "cdev", "buffer">>)
             PD == ProcBack \o D
  <1>0. M \in Nat \ {0} /\ Minors = 0..M - 1 /\ P \in {0, 2}
    BY Assumed DEF Minors, ProcSteps
  <1>1. EachDevice(D, "node", "cdev", "buffer", Returned)
    <2>1. \A i \in Minors :
            <<"node", i>> \in Returned /\ <<"cdev", i>> \in Returned /\ <<"buffer", i>> \in Returned
      BY DEF Returned
    <2> QED
      BY <2>1, DevicesAre, Zenon
  <1>2. A \in Seq(Returned) /\ Len(A) = 3 /\ A[1] = Class /\ A[2] = Region /\ A[3] = Memory
    BY DEF Returned
  <1>3. /\ ProcBack \in Seq(Returned) /\ Len(ProcBack) = P
        /\ driver = 7 => ProcBack[1] = File /\ ProcBack[2] = Dir
    <2>1. CASE driver = 7
      <3>1. Dir \in Returned /\ File \in Returned
        BY <2>1 DEF Returned
      <3>2. ProcBack = <<File, Dir>> /\ P = 2
        BY <2>1, ProcBackIs DEF ProcSteps
      <3> HIDE DEF P
      <3> QED
        BY <3>1, <3>2
    <2>2. CASE driver = 6
      BY <2>2, ProcBackIs DEF ProcSteps
    <2> QED
      BY <2>1, <2>2
  <1>4. Teardown = PD \o A
    BY DEF Teardown, Memory, Region, Class
  <1> HIDE DEF A, D
  <1>c. \A s, t \in Seq(Returned) :
          /\ s \o t \in Seq(Returned) /\ Len(s \o t) = Len(s) + Len(t)
          /\ \A k \in 1..Len(s) + Len(t) :
               (s \o t)[k] = IF k <= Len(s) THEN s[k] ELSE t[k - Len(s)]
    BY ConcatProperties
  <1>5. /\ PD \in Seq(Returned) /\ Len(PD) = P + 3 * M
        /\ driver = 7 => PD[1] = File /\ PD[2] = Dir
        /\ \A k \in 1..3 * M : PD[P + k] = D[k]
    <2>1. D \in Seq(Returned) /\ Len(D) = 3 * M
      BY <1>1 DEF EachDevice
    <2>2. PD \in Seq(Returned) /\ Len(PD) = Len(ProcBack) + Len(D)
          /\ \A k \in 1..Len(ProcBack) + Len(D) :
               PD[k] = IF k <= Len(ProcBack) THEN ProcBack[k] ELSE D[k - Len(ProcBack)]
      BY <1>3, <2>1, <1>c, Zenon
    <2> HIDE DEF PD
    <2>3. driver = 7 => P = 2
      BY DEF ProcSteps
    <2> HIDE DEF P
    <2>4. \A k \in 1..3 * M : PD[P + k] = D[k]
      BY <2>1, <2>2, <1>3, <1>0
    <2> QED
      BY <2>1, <2>2, <2>3, <2>4, <1>3, <1>0
  <1> HIDE DEF PD
  <1>6. /\ Teardown \in Seq(Returned) /\ Len(Teardown) = P + 3 * M + 3
        /\ \A k \in 1..P + 3 * M : Teardown[k] = PD[k]
        /\ Teardown[P + 3 * M + 1] = Class /\ Teardown[P + 3 * M + 2] = Region
        /\ Teardown[P + 3 * M + 3] = Memory
    <2>1. Teardown \in Seq(Returned) /\ Len(Teardown) = Len(PD) + Len(A)
          /\ \A k \in 1..Len(PD) + Len(A) :
               Teardown[k] = IF k <= Len(PD) THEN PD[k] ELSE A[k - Len(PD)]
      BY <1>2, <1>4, <1>5, <1>c, Zenon
    <2> HIDE DEF P
    <2> QED
      BY <2>1, <1>2, <1>5, <1>0
  <1>7. ASSUME NEW k \in 1..Len(Teardown)
        PROVE  Teardown[k] \in Returned /\ ReturnedBy(Teardown[k]) = k
    <2>1. Teardown[k] \in Returned
      BY <1>6, ElementOfSeq
    <2>2. CASE k <= P
      <3>1. driver = 7 /\ (k = 1 \/ k = 2)
        BY <1>0, <2>2, <1>6 DEF ProcSteps
      <3> QED
        BY <3>1, <2>1, <2>2, <1>0, <1>5, <1>6, ReturnedByIs
    <2>3. CASE k > P /\ k <= P + 3 * M
      <3> DEFINE j == k - P
      <3>1. j \in 1..3 * M /\ Teardown[k] = D[j] /\ k = P + j
        BY <1>0, <1>5, <1>6, <2>3
      <3>2. PICK i \in Minors :
              \/ j = 3 * i + 1 /\ D[j] = <<"node", i>>
              \/ j = 3 * i + 2 /\ D[j] = <<"cdev", i>>
              \/ j = 3 * i + 3 /\ D[j] = <<"buffer", i>>
        BY <3>1, <1>1 DEF EachDevice
      <3>3. /\ ReturnedBy(<<"node", i>>) = P + (3 * i + 1)
            /\ ReturnedBy(<<"cdev", i>>) = P + (3 * i + 2)
            /\ ReturnedBy(<<"buffer", i>>) = P + (3 * i + 3)
        BY ReturnedByIs, <1>0
      <3> HIDE DEF j, P
      <3>4. ReturnedBy(Teardown[k]) = P + j
        BY <3>1, <3>2, <3>3
      <3> QED
        BY <3>1, <3>4, <2>1
    <2>4. CASE k > P + 3 * M
      <3>1. k = P + 3 * M + 1 \/ k = P + 3 * M + 2 \/ k = P + 3 * M + 3
        BY <1>0, <2>4, <1>6
      <3> QED
        BY <3>1, <2>1, <1>6, ReturnedByIs
    <2> QED
      BY <2>2, <2>3, <2>4, <1>0, <1>6
  <1>8. ASSUME NEW x \in Returned
        PROVE  ReturnedBy(x) \in 1..Len(Teardown) /\ Teardown[ReturnedBy(x)] = x
    <2>1. CASE x \in {Memory, Region, Class}
      BY <2>1, <1>0, <1>6, ReturnedByIs
    <2>2. CASE driver = 7 /\ x \in {Dir, File}
      BY <2>2, <1>0, <1>5, <1>6, ReturnedByIs DEF ProcSteps
    <2>3. CASE \E w \in {"node", "cdev", "buffer"}, i \in Minors : x = <<w, i>>
      <3>1. PICK i \in Minors : x = <<"node", i>> \/ x = <<"cdev", i>> \/ x = <<"buffer", i>>
        BY <2>3
      <3> DEFINE k1 == 3 * i + 1
                 k2 == 3 * i + 2
                 k3 == 3 * i + 3
      <3>2. k1 \in 1..3 * M /\ k2 \in 1..3 * M /\ k3 \in 1..3 * M
            /\ D[k1] = <<"node", i>> /\ D[k2] = <<"cdev", i>> /\ D[k3] = <<"buffer", i>>
        BY <1>1 DEF EachDevice
      <3>3. /\ ReturnedBy(<<"node", i>>) = P + k1
            /\ ReturnedBy(<<"cdev", i>>) = P + k2
            /\ ReturnedBy(<<"buffer", i>>) = P + k3
        BY ReturnedByIs, <1>0
      <3> HIDE DEF k1, k2, k3, P
      <3>4. \A k \in 1..3 * M : P + k \in 1..Len(Teardown) /\ Teardown[P + k] = D[k]
        BY <1>0, <1>5, <1>6
      <3> QED
        BY <3>1, <3>2, <3>3, <3>4
    <2> QED
      BY <2>1, <2>2, <2>3 DEF Returned
  <1> QED
    BY <1>6, <1>7, <1>8

\* A step of a list takes its next element.
LEMMA NextStep ==
  ASSUME NEW S, NEW s \in Seq(S), NEW n, Behind(s, n)
  PROVE  /\ plan = << >> <=> n = Len(s)
         /\ plan # << >> =>
              n + 1 \in 1..Len(s) /\ Head(plan) = s[n + 1] /\ Tail(plan) = SubSeq(s, n + 2, Len(s))
  <1>1. Len(s) \in Nat /\ n \in 0..Len(s) /\ plan = SubSeq(s, n + 1, Len(s))
    BY LenProperties DEF Behind
  <1>2. CASE n = Len(s)
    <2>1. plan = << >>
      BY <1>1, <1>2, SubSeqEmpty
    <2> QED
      BY <2>1, <1>2
  <1>3. CASE n < Len(s)
    <2>1. n + 1 \in 1..Len(s) /\ Len(s) \in n + 1..Len(s)
      BY <1>1, <1>3
    <2>2. Head(plan) = s[n + 1] /\ Tail(plan) = SubSeq(s, n + 1 + 1, Len(s))
      BY <1>1, <2>1, HeadTailOfSubSeq
    <2>3. Len(plan) = Len(s) - (n + 1) + 1
      <3>1. \A i \in n + 1..Len(s) : s[i] \in S
        BY <1>1, ElementOfSeq
      <3> QED
        BY <3>1, <1>1, <2>1, SubSeqProperties
    <2>4. plan # << >>
      <3>1. Len(plan) # 0
        BY <2>3, <1>1, <1>3
      <3>2. Len(<< >>) = 0
        BY EmptySeq
      <3> QED
        BY <3>1, <3>2, Zenon
    <2> QED
      BY <2>1, <2>2, <2>4, <1>1, <1>3
  <1> QED
    BY <1>1, <1>2, <1>3

\* What err3 consists of
LEMMA Err3Is ==
  ASSUME NEW i \in Indices
  PROVE  /\ Err3(i) \in Seq(Made) /\ Len(Err3(i)) = i + 3
         /\ \A k \in 1..i + 1 : Err3(i)[k] = <<"cdev", i + 1 - k>>
         /\ Err3(i)[i + 2] = Region /\ Err3(i)[i + 3] = Memory
  <1> DEFINE D == [k \in 1..i + 1 |-> <<"cdev", i + 1 - k>>]
             A == <<Region, Memory>>
  <1>0. i \in Int /\ i + 1 \in Nat /\ Minors = 0..MINOR_COUNT - 1 /\ i < MINOR_COUNT
    BY Assumed DEF Minors, Indices
  <1>1. Err3(i) = D \o A
    BY DEF Err3, Region, Memory
  <1>2. A \in Seq(Made) /\ Len(A) = 2 /\ A[1] = Region /\ A[2] = Memory
    BY DEF Made
  <1>3. D \in Seq(Made) /\ Len(D) = i + 1 /\ \A k \in 1..i + 1 : D[k] = <<"cdev", i + 1 - k>>
    <2>1. \A k \in 1..i + 1 : <<"cdev", i + 1 - k>> \in Made
      <3> TAKE k \in 1..i + 1
      <3>1. i + 1 - k \in Minors
        BY <1>0, Assumed
      <3> QED
        BY <3>1 DEF Made
    <2>2. D \in [1..i + 1 -> Made]
      BY <2>1
    <2> HIDE DEF D
    <2>3. D \in Seq(Made) /\ Len(D) = i + 1
      BY <2>2, <1>0
    <2> QED
      BY <2>3 DEF D
  <1> HIDE DEF D, A
  <1>4. D \o A \in Seq(Made) /\ Len(D \o A) = Len(D) + Len(A)
        /\ \A k \in 1..Len(D) + Len(A) : (D \o A)[k] = IF k <= Len(D) THEN D[k] ELSE A[k - Len(D)]
    BY <1>2, <1>3, ConcatProperties
  <1> QED
    BY <1>0, <1>1, <1>2, <1>3, <1>4

\* err3 deletes the device at its head, and has the rest to do.
LEMMA Err3Steps ==
  /\ Err3(-1) = <<Region, Memory>>
  /\ \A i \in Minors :
       Err3(i) # << >> /\ Head(Err3(i)) = <<"cdev", i>> /\ Tail(Err3(i)) = Err3(i - 1)
  <1>0. MINOR_COUNT \in Nat \ {0} /\ Minors = 0..MINOR_COUNT - 1 /\ Indices = -1..MINOR_COUNT - 1
    BY Assumed DEF Minors, Indices
  <1>1. Err3(-1) = <<Region, Memory>>
    <2>1. /\ Err3(-1) \in Seq(Made) /\ Len(Err3(-1)) = 2
          /\ Err3(-1)[1] = Region /\ Err3(-1)[2] = Memory
      <3>1. -1 \in Indices
        BY <1>0
      <3> DEFINE i == -1
      <3>2. i + 3 = 2 /\ i + 2 = 1 /\ i \in Indices
        BY <3>1
      <3> HIDE DEF i
      <3>3. Err3(i) \in Seq(Made) /\ Len(Err3(i)) = 2 /\ Err3(i)[1] = Region /\ Err3(i)[2] = Memory
        BY <3>2, Err3Is
      <3> QED
        BY <3>3 DEF i
    <2>2. Region \in Made /\ Memory \in Made
      BY DEF Made
    <2>3. <<Region, Memory>> \in Seq(Made) /\ Len(<<Region, Memory>>) = 2
      BY <2>2
    <2> HIDE DEF Err3
    <2> QED
      BY <2>1, <2>3, SeqEqual
  <1>2. ASSUME NEW i \in Minors
        PROVE  Err3(i) # << >> /\ Head(Err3(i)) = <<"cdev", i>> /\ Tail(Err3(i)) = Err3(i - 1)
    <2> DEFINE E == Err3(i)
               R == Err3(i - 1)
               h == i - 1
    <2>1. i \in Int /\ i >= 0 /\ i \in Indices /\ h \in Indices
      BY <1>0
    <2>2. /\ E \in Seq(Made) /\ Len(E) = i + 3
          /\ \A k \in 1..i + 1 : E[k] = <<"cdev", i + 1 - k>>
          /\ E[i + 2] = Region /\ E[i + 3] = Memory
      BY <2>1, Err3Is
    <2>3. /\ R \in Seq(Made) /\ Len(R) = h + 3
          /\ \A k \in 1..h + 1 : R[k] = <<"cdev", h + 1 - k>>
          /\ R[h + 2] = Region /\ R[h + 3] = Memory
      <3>1. /\ Err3(h) \in Seq(Made) /\ Len(Err3(h)) = h + 3
            /\ \A k \in 1..h + 1 : Err3(h)[k] = <<"cdev", h + 1 - k>>
            /\ Err3(h)[h + 2] = Region /\ Err3(h)[h + 3] = Memory
        BY <2>1, Err3Is
      <3> QED
        BY <3>1
    <2> HIDE DEF E, R
    <2>4. E # << >>
      <3>1. Len(E) # 0 /\ Len(<< >>) = 0
        BY <2>1, <2>2, EmptySeq
      <3> QED
        BY <3>1, Zenon
    <2>5. E[1] = <<"cdev", i>>
      BY <2>1, <2>2
    <2>6. Head(E) = E[1] /\ Tail(E) \in Seq(Made) /\ Len(Tail(E)) = Len(E) - 1
          /\ \A k \in 1..Len(Tail(E)) : Tail(E)[k] = E[k + 1]
      BY <2>2, <2>4, HeadTailProperties
    <2>7. Len(Tail(E)) = Len(R)
      BY <2>1, <2>2, <2>3, <2>6
    <2>8. \A k \in 1..Len(Tail(E)) : Tail(E)[k] = R[k]
      <3> TAKE k \in 1..Len(Tail(E))
      <3>1. k \in 1..i \/ k = i + 1 \/ k = i + 2
        BY <2>1, <2>2, <2>6
      <3>2. Tail(E)[k] = E[k + 1]
        BY <2>6
      <3>3. k \in 1..i => E[k + 1] = <<"cdev", i - k>> /\ R[k] = <<"cdev", i - k>>
        <4>1. ASSUME k \in 1..i
              PROVE  k + 1 \in 1..i + 1 /\ i + 1 - (k + 1) = i - k /\ k \in 1..h + 1 /\ h + 1 - k = i - k
          BY <4>1, <2>1
        <4>2. \A j \in 1..i + 1 : \A d : i + 1 - j = d => E[j] = <<"cdev", d>>
          BY <2>2
        <4>3. \A j \in 1..h + 1 : \A d : h + 1 - j = d => R[j] = <<"cdev", d>>
          BY <2>3
        <4> HIDE DEF h
        <4> QED
          BY <4>1, <4>2, <4>3
      <3>4. /\ k = i + 1 => k + 1 = i + 2 /\ k = h + 2
            /\ k = i + 2 => k + 1 = i + 3 /\ k = h + 3
        BY <2>1
      <3>5. k = i + 1 => E[k + 1] = Region /\ R[k] = Region
        BY <3>4, <2>2, <2>3, Zenon
      <3>6. k = i + 2 => E[k + 1] = Memory /\ R[k] = Memory
        BY <3>4, <2>2, <2>3, Zenon
      <3> QED
        BY <3>1, <3>2, <3>3, <3>5, <3>6
    <2>9. Tail(E) = R
      BY <2>3, <2>6, <2>7, <2>8, SeqEqual
    <2> QED
      BY <2>4, <2>5, <2>6, <2>9 DEF E, R
  <1> QED
    BY <1>1, <1>2

\* The entries in /proc go first.
LEMMA ProcFirst ==
  ASSUME NEW i \in Indices
  PROVE  /\ <<Dir>> \o Err3(i) # << >> /\ Head(<<Dir>> \o Err3(i)) = Dir
         /\ Tail(<<Dir>> \o Err3(i)) = Err3(i)
         /\ <<File, Dir>> \o Err3(i) # << >> /\ Head(<<File, Dir>> \o Err3(i)) = File
         /\ Tail(<<File, Dir>> \o Err3(i)) = <<Dir>> \o Err3(i)
  <1> DEFINE E == Err3(i)
             T == Made \cup {Dir, File}
  <1>1. E \in Seq(T)
    <2>1. E \in Seq(Made) /\ Made \subseteq T
      BY Err3Is
    <2> QED
      BY <2>1, SeqMonotonic, Zenon
  <1>2. Dir \in T /\ File \in T
    OBVIOUS
  <1> HIDE DEF E, T
  <1>3. \A s \in Seq(T), x, y \in T :
          /\ <<x>> \o s # << >> /\ Head(<<x>> \o s) = x /\ Tail(<<x>> \o s) = s
          /\ <<x, y>> \o s # << >> /\ Head(<<x, y>> \o s) = x /\ Tail(<<x, y>> \o s) = <<y>> \o s
    <2> SUFFICES ASSUME NEW s \in Seq(T), NEW x \in T, NEW y \in T
                 PROVE  /\ <<x>> \o s # << >> /\ Head(<<x>> \o s) = x /\ Tail(<<x>> \o s) = s
                        /\ <<x, y>> \o s # << >> /\ Head(<<x, y>> \o s) = x
                        /\ Tail(<<x, y>> \o s) = <<y>> \o s
      OBVIOUS
    <2>1. ASSUME NEW a \in T, NEW u \in Seq(T)
          PROVE  /\ <<a>> \o u \in Seq(T)
                 /\ <<a>> \o u # << >> /\ Head(<<a>> \o u) = a /\ Tail(<<a>> \o u) = u
      <3> DEFINE c == <<a>> \o u
      <3>1. <<a>> \in Seq(T) /\ Len(<<a>>) = 1 /\ <<a>>[1] = a
        OBVIOUS
      <3>2. c \in Seq(T) /\ Len(c) = 1 + Len(u) /\ Len(u) \in Nat
            /\ c[1] = a /\ \A k \in 1..Len(u) : c[k + 1] = u[k]
        <4>1. c \in Seq(T) /\ Len(c) = Len(<<a>>) + Len(u)
              /\ \A k \in 1..Len(<<a>>) + Len(u) :
                   c[k] = IF k <= Len(<<a>>) THEN <<a>>[k] ELSE u[k - Len(<<a>>)]
          BY <3>1, ConcatProperties, Zenon
        <4> HIDE DEF c
        <4>2. Len(u) \in Nat
          BY LenProperties
        <4> QED
          BY <4>1, <4>2, <3>1
      <3> HIDE DEF c
      <3>3. c # << >>
        <4>1. Len(c) # 0 /\ Len(<< >>) = 0
          BY <3>2, EmptySeq
        <4> QED
          BY <4>1, Zenon
      <3>4. Head(c) = c[1] /\ Tail(c) \in Seq(T) /\ Len(Tail(c)) = Len(c) - 1
            /\ \A k \in 1..Len(Tail(c)) : Tail(c)[k] = c[k + 1]
        BY <3>2, <3>3, HeadTailProperties
      <3>5. Tail(c) = u
        BY <3>2, <3>4, SeqEqual
      <3> QED
        BY <3>2, <3>3, <3>4, <3>5 DEF c
    <2>2. <<x, y>> \o s = <<x>> \o (<<y>> \o s)
      <3>1. /\ <<x>> \in Seq(T) /\ Len(<<x>>) = 1 /\ <<x>>[1] = x
            /\ <<y>> \in Seq(T) /\ Len(<<y>>) = 1 /\ <<y>>[1] = y
            /\ <<x, y>> \in Seq(T) /\ Len(<<x, y>>) = 2 /\ <<x, y>>[1] = x /\ <<x, y>>[2] = y
        OBVIOUS
      <3> DEFINE c == <<x>> \o <<y>>
      <3>2. c \in Seq(T) /\ Len(c) = Len(<<x>>) + Len(<<y>>)
            /\ \A k \in 1..Len(<<x>>) + Len(<<y>>) :
                 c[k] = IF k <= Len(<<x>>) THEN <<x>>[k] ELSE <<y>>[k - Len(<<x>>)]
        BY <3>1, ConcatProperties, Zenon
      <3> HIDE DEF c
      <3>3. c \in Seq(T) /\ Len(c) = 2 /\ c[1] = x /\ c[2] = y
        BY <3>1, <3>2
      <3>4. c = <<x, y>>
        BY <3>1, <3>3, SeqEqual
      <3>5. (<<x>> \o <<y>>) \o s = <<x>> \o (<<y>> \o s)
        <4>1. \A p, q, r \in Seq(T) : (p \o q) \o r = p \o (q \o r)
          BY ConcatAssociative
        <4> QED
          BY <3>1, <4>1, Zenon
      <3> QED
        BY <3>4, <3>5, Zenon DEF c
    <2> QED
      BY <2>1, <2>2
  <1>4. /\ <<Dir>> \o E # << >> /\ Head(<<Dir>> \o E) = Dir /\ Tail(<<Dir>> \o E) = E
        /\ <<File, Dir>> \o E # << >> /\ Head(<<File, Dir>> \o E) = File
        /\ Tail(<<File, Dir>> \o E) = <<Dir>> \o E
    BY <1>1, <1>2, <1>3, Zenon
  <1> QED
    BY <1>4 DEF E
-----------------------------------------------------------------------------
(* Each step keeps the invariant                                           *)

\* The lists are those of the driver.
LEMMA SameLists ==
  ASSUME driver' = driver
  PROVE  /\ Setup' = Setup /\ Teardown' = Teardown /\ Made' = Made /\ Returned' = Returned
         /\ \A x : MadeBy(x)' = MadeBy(x) /\ ReturnedBy(x)' = ReturnedBy(x)
  BY DEF Setup, Teardown, Proc, ProcBack, Made, Returned, MadeBy, ReturnedBy, ProcSteps

\* The names of the things are different.
LEMMA Distinct ==
  /\ Memory # Region /\ Memory # Class /\ Memory # Dir /\ Memory # File
  /\ Region # Class /\ Region # Dir /\ Region # File
  /\ Class # Dir /\ Class # File /\ Dir # File
  /\ \A w \in {"device", "cdev", "node", "buffer"} : \A i :
       <<w, i>> \notin {Memory, Region, Class, Dir, File}
  BY DEF Memory, Region, Class, Dir, File, One

\* The invariant holds before the driver is loaded.
LEMMA InvInit == Init => Inv
  <1> SUFFICES ASSUME Init PROVE Inv
    OBVIOUS
  <1>1. TypeInv
    BY Assumed DEF Init, TypeInv
  <1>2. Phases
    BY DEF Init, Phases, Off, Loading, Running, Unloading, Undoing, ClassBack, NothingLeftBehind, OnlyAddedDeleted
  <1>3. InUse /\ NoUseAfterFree
    BY DEF Init, InUse, NoUseAfterFree
  <1> QED
    BY <1>1, <1>2, <1>3 DEF Inv

\* A step of a program that fills no buffer changes nothing of the phases.
LEMMA PhasesStay ==
  ASSUME Phases, UNCHANGED <<driver, pc, plan, held>>
  PROVE  Phases'
  <1>1. UNCHANGED <<Setup, Teardown, Made, Returned>>
        /\ \A x : MadeBy(x)' = MadeBy(x) /\ ReturnedBy(x)' = ReturnedBy(x)
    BY SameLists
  <1>2. \A n : /\ LoadedTo(n)' = LoadedTo(n) /\ UnloadedTo(n)' = UnloadedTo(n)
               /\ HollowTo(n)' = HollowTo(n)
    BY <1>1 DEF LoadedTo, UnloadedTo, HollowTo, Behind, ProcSteps
  <1>3. \A i : ProcBackFrom(i)' = ProcBackFrom(i) /\ DeviceBackFrom(i)' = DeviceBackFrom(i)
    BY DEF ProcBackFrom, DeviceBackFrom
  <1>4. EarlyBack' = EarlyBack /\ LateBack' = LateBack
    BY DEF EarlyBack, LateBack
  <1> QED
    BY <1>1, <1>2, <1>3, <1>4
    DEF Phases, Off, Loading, Running, Unloading, Undoing, ClassBack, NothingLeftBehind, OnlyAddedDeleted

\* insmod
LEMMA InsmodStep ==
  ASSUME Inv, Insmod
  PROVE  Inv'
  <1>1. driver \in {6, 7} /\ driver' = driver /\ held = {} /\ held' = {} /\ pc' = "load" /\ plan' = Setup
        /\ open' = open /\ bad' = bad /\ pc = "off"
    BY DEF Inv, TypeInv, Phases, Off, Insmod
  <1>2. LoadedTo(0)'
    <2>1. Setup \in Seq(Made) /\ Len(Setup) \in Nat
          /\ \A x \in Made : MadeBy(x) \in 1..Len(Setup)
      BY <1>1, SetupIs, LenProperties
    <2>2. SubSeq(Setup, 0 + 1, Len(Setup)) = Setup
      BY <2>1, SubSeqFull
    <2>3. \A x \in Made : ~(MadeBy(x) <= 0)
      BY <2>1
    <2> QED
      BY <1>1, <2>1, <2>2, <2>3, SameLists DEF LoadedTo, Behind
  <1>3. TypeInv'
    BY <1>1 DEF Inv, TypeInv
  <1>4. Phases'
    BY <1>1, <1>2 DEF Phases, Off, Loading, Running, Unloading, Undoing, ClassBack, NothingLeftBehind, OnlyAddedDeleted
  <1>5. InUse' /\ NoUseAfterFree'
    BY <1>1 DEF Inv, InUse, NoUseAfterFree
  <1> QED
    BY <1>3, <1>4, <1>5 DEF Inv

\* A step of cdrv_init that succeeds
LEMMA LoadStep ==
  ASSUME Inv, Load
  PROVE  Inv'
  <1>0. driver \in {6, 7} /\ driver' = driver /\ open' = open /\ bad' = bad /\ pc = "load"
        /\ TypeInv /\ InUse /\ NoUseAfterFree
    BY DEF Inv, TypeInv, Load
  <1>1. PICK n \in Nat : LoadedTo(n)
    BY <1>0 DEF Inv, Phases, Loading
  <1>2. /\ Setup \in Seq(Made) /\ Len(Setup) \in Nat
        /\ \A k \in 1..Len(Setup) : Setup[k] \in Made /\ MadeBy(Setup[k]) = k
        /\ \A x \in Made : MadeBy(x) \in 1..Len(Setup) /\ Setup[MadeBy(x)] = x
    BY <1>0, SetupIs, LenProperties
  <1>3. UNCHANGED <<Setup, Teardown, Made, Returned>>
        /\ \A x : MadeBy(x)' = MadeBy(x) /\ ReturnedBy(x)' = ReturnedBy(x)
    BY <1>0, SameLists
  <1>4. /\ plan = << >> <=> n = Len(Setup)
        /\ plan # << >> => /\ n + 1 \in 1..Len(Setup) /\ Head(plan) = Setup[n + 1]
                            /\ Tail(plan) = SubSeq(Setup, n + 2, Len(Setup))
    BY <1>1, <1>2, NextStep DEF LoadedTo
  <1>5. {Memory, Region, Class} \subseteq Made
    BY DEF Made
  <1>6. Made \subseteq Things
    BY DEF Made, Things, Single, Memory, Region, Class, Dir, File
  <1>7. CASE plan = << >>
    <2>1. pc' = "on" /\ plan' = plan /\ held' = held
      BY <1>7 DEF Load
    <2>2. \A x \in Made : x[1] # "node" => x \in held
      BY <1>1, <1>2, <1>4, <1>7 DEF LoadedTo
    <2>3. Each("device") \subseteq held
      BY <2>2 DEF Each, Made
    <2>4. TypeInv'
      BY <1>0, <2>1 DEF TypeInv
    <2>5. Phases'
      BY <2>1, <2>2, <1>3 DEF Phases, Off, Loading, Running, Unloading, Undoing, ClassBack, NothingLeftBehind, OnlyAddedDeleted
    <2>6. InUse'
      BY <1>0, <2>1 DEF InUse
    <2>7. NoUseAfterFree'
      BY <1>0, <2>1, <2>3 DEF NoUseAfterFree
    <2> QED
      BY <2>4, <2>5, <2>6, <2>7 DEF Inv
  <1>8. CASE plan # << >>
    <2> DEFINE x == Setup[n + 1]
    <2>1. /\ x \in Made /\ MadeBy(x) = n + 1 /\ n + 1 \in 0..Len(Setup)
          /\ pc' = "load" /\ plan' = SubSeq(Setup, n + 1 + 1, Len(Setup))
          /\ held' = held \cup {x} \/ (x[1] = "node" /\ held' = held)
      <3>1. x \in Made /\ MadeBy(x) = n + 1 /\ n + 1 \in 0..Len(Setup) /\ n + 2 = n + 1 + 1
        BY <1>2, <1>4, <1>8
      <3>2. /\ pc' = "load" /\ plan' = Tail(plan)
            /\ held' = held \cup {Head(plan)} \/ (Head(plan)[1] = "node" /\ held' = held)
        BY <1>8, <1>0, Zenon DEF Load
      <3>3. Head(plan) = x /\ Tail(plan) = SubSeq(Setup, n + 1 + 1, Len(Setup))
        BY <1>4, <1>8, <3>1
      <3> HIDE DEF x
      <3> QED
        BY <3>1, <3>2, <3>3
    <2> HIDE DEF x
    <2>2. LoadedTo(n + 1)'
      <3>1. \A y \in Made : y \in held' => MadeBy(y) <= n + 1
        <4> TAKE y \in Made
        <4> HAVE y \in held'
        <4>1. y \in held \/ y = x
          BY <2>1
        <4>2. y \in held => MadeBy(y) <= n
          BY <1>1 DEF LoadedTo
        <4>3. MadeBy(y) \in Nat
          BY <1>2
        <4> QED
          BY <4>1, <4>2, <4>3, <2>1
      <3>2. \A y \in Made : MadeBy(y) <= n + 1 /\ y[1] # "node" => y \in held'
        <4> TAKE y \in Made
        <4> HAVE MadeBy(y) <= n + 1 /\ y[1] # "node"
        <4>1. CASE MadeBy(y) <= n
          BY <4>1, <2>1, <1>1 DEF LoadedTo
        <4>2. CASE MadeBy(y) = n + 1
          BY <4>2, <1>2, <2>1 DEF x
        <4> QED
          BY <4>1, <4>2, <1>2
      <3>3. \A i \in Minors : <<"buffer", i>> \in held' => <<"cdev", i>> \in held'
        <4>1. \A i \in Minors : x # <<"buffer", i>>
          BY <2>1 DEF Made, Memory, Region, Class, Dir, File, One
        <4> QED
          BY <4>1, <2>1, <1>1 DEF LoadedTo
      <3> QED
        BY <2>1, <3>1, <3>2, <3>3, <1>3 DEF LoadedTo, Behind
    <2>3. TypeInv'
      <3>1. driver = 6 => x # Dir /\ x # File
        BY <2>1 DEF Made, Memory, Region, Class, Dir, File, One
      <3> QED
        BY <1>0, <1>6, <2>1, <3>1 DEF TypeInv
    <2>4. Phases'
      <3>1. n + 1 \in Nat
        OBVIOUS
      <3> QED
        BY <2>1, <2>2, <3>1 DEF Phases, Off, Loading, Running, Unloading, Undoing, ClassBack, NothingLeftBehind, OnlyAddedDeleted
    <2>5. InUse'
      <3>1. \A y \in Made : MadeBy(y) <= n + 1 /\ y[1] # "node" => y \in held'
        BY <2>2, <1>3 DEF LoadedTo
      <3>2. Memory \in held'
        BY <3>1, <1>5, MadeByIs DEF Memory, One
      <3>3. \A i \in Minors : x = <<"cdev", i>> => {<<"device", i>>, Class} \subseteq held'
        <4> TAKE i \in Minors
        <4> HAVE x = <<"cdev", i>>
        <4>1. n + 1 = 3 + ProcSteps + 3 * i + 2
          BY <2>1, MadeByIs
        <4>2. ProcSteps \in Nat /\ i \in Nat
          BY DEF ProcSteps, Minors
        <4>3. MadeBy(<<"device", i>>) <= n + 1 /\ MadeBy(Class) <= n + 1
          <5>1. MadeBy(<<"device", i>>) = 3 + ProcSteps + 3 * i + 1 /\ MadeBy(Class) = 3
            BY MadeByIs
          <5> QED
            BY <5>1, <4>1, <4>2
        <4>4. <<"device", i>> \in Made /\ Class[1] = "class"
          BY DEF Made, Class, One
        <4> QED
          BY <3>1, <4>3, <4>4, <1>5
      <3>4. held \subseteq held' /\ held' \subseteq held \cup {x}
        BY <2>1
      <3>5. \A i \in Minors : <<"cdev", i>> \in held' => {<<"device", i>>, Memory, Class} \subseteq held'
        BY <3>2, <3>3, <3>4, <1>0 DEF InUse
      <3>6. \A i \in Minors : open[i] > 0 => (Class \in held => <<"device", i>> \in held) \/ Forced \in bad
        BY <1>0 DEF InUse
      <3>7. Forced \in bad \/ <<"file", "freed">> \notin bad
        BY <1>0 DEF NoUseAfterFree
      <3> QED
        BY <3>2, <3>4, <3>5, <3>6, <3>7, <1>0, <2>1 DEF InUse
    <2>6. NoUseAfterFree'
      BY <1>0, <2>1 DEF NoUseAfterFree
    <2> QED
      BY <2>3, <2>4, <2>5, <2>6 DEF Inv
  <1> QED
    BY <1>7, <1>8
\* A step of cdrv_init that fails, and goes to its label
LEMMA LoadFailsStep ==
  ASSUME Inv, LoadFails
  PROVE  Inv'
  <1>0. /\ driver \in {6, 7} /\ driver' = driver /\ held' = held /\ open' = open /\ bad' = bad
        /\ pc = "load" /\ pc' \in {"back", "zero"} /\ TypeInv /\ InUse /\ NoUseAfterFree
    BY DEF Inv, TypeInv, LoadFails
  <1>1. PICK n \in Nat : LoadedTo(n)
    BY <1>0 DEF Inv, Phases, Loading
  <1>2. /\ Setup \in Seq(Made) /\ Len(Setup) \in Nat
        /\ \A k \in 1..Len(Setup) : Setup[k] \in Made /\ MadeBy(Setup[k]) = k
        /\ \A y \in Made : MadeBy(y) \in 1..Len(Setup) /\ Setup[MadeBy(y)] = y
    BY <1>0, SetupIs, LenProperties
  <1> DEFINE x == Setup[n + 1]
  <1>3. /\ x \in Made /\ MadeBy(x) = n + 1 /\ x[1] \notin {"node", "device"} /\ plan' \in Unwind(x)
        /\ (x = Class => pc' = "zero") /\ (x # Class => pc' = "back")
    <2>1. plan # << >> => n + 1 \in 1..Len(Setup) /\ Head(plan) = x
      BY <1>1, <1>2, NextStep DEF LoadedTo
    <2> HIDE DEF x
    <2>2. Head(plan) = x /\ n + 1 \in 1..Len(Setup)
      BY <2>1 DEF LoadFails
    <2> QED
      BY <2>2, <1>2 DEF LoadFails, x, Class
  <1> HIDE DEF x
  \* What is held before the first device
  <1>4. ASSUME n <= 4
        PROVE  held \subseteq {y \in Made : MadeBy(y) <= n}
    <2>1. \A i \in Minors : <<"cdev", i>> \in Made /\ MadeBy(<<"cdev", i>>) > 4
      <3> TAKE i \in Minors
      <3>1. ProcSteps \in Nat /\ i \in Nat
        BY DEF ProcSteps, Minors
      <3>2. MadeBy(<<"cdev", i>>) = 3 + ProcSteps + 3 * i + 2
        BY MadeByIs
      <3> QED
        BY <3>1, <3>2 DEF Made
    <2>2. \A i \in Minors : <<"buffer", i>> \notin held
      <3> TAKE i \in Minors
      <3>1. <<"cdev", i>> \in Made /\ MadeBy(<<"cdev", i>>) > 4 /\ MadeBy(<<"cdev", i>>) \in Int
        BY <2>1, <1>2
      <3>2. ~(MadeBy(<<"cdev", i>>) <= n)
        BY <3>1, <1>4
      <3> QED
        BY <3>1, <3>2, <1>1 DEF LoadedTo
    <2>3. held \subseteq Made
      BY <1>0, <2>2 DEF TypeInv, Things, Made, Single, Memory, Region, Class, Dir, File
    <2> QED
      BY <2>3, <1>1 DEF LoadedTo
  <1>5. ASSUME NEW y \in Made, MadeBy(y) \in {1, 2, 3, 4, 5}
        PROVE  /\ MadeBy(y) = 1 => y = Memory
               /\ MadeBy(y) = 2 => y = Region
               /\ MadeBy(y) = 3 => y = Class
               /\ MadeBy(y) = 4 /\ driver = 7 => y = Dir
               /\ MadeBy(y) = 5 /\ driver = 7 => y = File
    <2>1. {Memory, Region, Class} \subseteq Made /\ (driver = 7 => {Dir, File} \subseteq Made)
      BY DEF Made
    <2>2. \A z \in Made : MadeBy(z) = MadeBy(y) => z = y
      BY <1>2
    <2> QED
      BY <1>5, <2>1, <2>2, MadeByIs
  <1>6. Undoing' /\ ClassBack'
    <2>1. CASE x = Memory
      <3>1. n = 0
        BY <2>1, <1>3, MadeByIs
      <3>2. held = {}
        BY <3>1, <1>2, <1>4
      <3>3. plan' = << >>
        BY <2>1, <1>3 DEF Unwind, Memory, One
      <3> QED
        BY <2>1, <3>2, <3>3, <1>0, <1>3, Distinct DEF Undoing, ClassBack, EarlyBack
    <2>2. CASE x = Region \/ x = Class
      <3>1. n \in {1, 2}
        BY <2>2, <1>3, MadeByIs
      <3>2. held \subseteq {Memory, Region} /\ (x = Region => held \subseteq {Memory})
        <4>1. (x = Region /\ n = 1) \/ (x = Class /\ n = 2)
          BY <2>2, <1>3, MadeByIs
        <4> QED
          BY <4>1, <1>2, <1>4, <1>5, Distinct
      <3>3. Memory \in held /\ (x = Class => Region \in held)
        <4>1. /\ Memory \in Made /\ MadeBy(Memory) = 1 /\ Memory[1] # "node"
              /\ Region \in Made /\ MadeBy(Region) = 2 /\ Region[1] # "node"
          BY MadeByIs DEF Made, Memory, Region, One
        <4>2. x = Class => n = 2
          BY <1>3, MadeByIs
        <4> QED
          BY <4>1, <4>2, <3>1, <1>1 DEF LoadedTo
      <3>4. plan' = <<Memory>>
        BY <2>2, <1>3 DEF Unwind, Memory, Region, Class, One
      <3>5. CASE x = Region
        <4>1. pc' = "back" /\ held' = {Memory}
          BY <3>2, <3>3, <3>5, <1>0, <1>3, Distinct
        <4> QED
          BY <3>4, <4>1 DEF Undoing, ClassBack, EarlyBack
      <3>6. CASE x = Class
        <4>1. pc' = "zero" /\ held' = {Memory, Region}
          BY <3>2, <3>3, <3>6, <1>0, <1>3
        <4> QED
          BY <3>4, <4>1 DEF Undoing, ClassBack
      <3> QED
        BY <2>2, <3>5, <3>6
    <2>3. CASE x = Dir \/ x = File
      <3>1. driver = 7
        BY <2>3, <1>0, <1>3 DEF Made, Memory, Region, Class, Dir, File, One
      <3>2. (x = Dir /\ n = 3) \/ (x = File /\ n = 4)
        BY <2>3, <1>3, MadeByIs
      <3>3. held \subseteq {Memory, Region, Class, Dir} /\ (x = Dir => Dir \notin held)
        <4>1. MadeBy(Dir) = 4 /\ held \subseteq {y \in Made : MadeBy(y) <= n}
          BY <3>2, <1>4, MadeByIs
        <4>2. x = Dir => Dir \notin held
          BY <4>1, <3>2 DEF Dir, File, One
        <4>3. ASSUME NEW y \in held
              PROVE  y \in {Memory, Region, Class, Dir}
          <5>1. y \in Made /\ MadeBy(y) \in Nat /\ MadeBy(y) <= n /\ MadeBy(y) >= 1
            BY <4>1, <1>2
          <5>2. MadeBy(y) = 1 \/ MadeBy(y) = 2 \/ MadeBy(y) = 3 \/ MadeBy(y) = 4
            BY <5>1, <3>2
          <5> QED
            BY <5>1, <5>2, <1>5, <3>1
        <4> QED
          BY <4>2, <4>3
      <3>4. {Memory, Region, Class} \subseteq held
        <4>1. {Memory, Region, Class} \subseteq Made /\ Memory[1] # "node" /\ Region[1] # "node" /\ Class[1] # "node"
          BY DEF Made, Memory, Region, Class, One
        <4> QED
          BY <4>1, <3>2, <1>1, MadeByIs DEF LoadedTo
      <3>5. PICK i \in Indices : \/ x = Dir /\ plan' = Err3(i)
                                 \/ x = File /\ plan' = <<Dir>> \o Err3(i)
        <4>1. Minors \cup {-1} = Indices
          BY Assumed DEF Minors, Indices
        <4> QED
          BY <4>1, <2>3, <1>3 DEF Unwind, Dir, File, One
      <3>6. ProcBackFrom(i)'
        BY <3>1, <3>3, <3>4, <3>5, <1>0 DEF ProcBackFrom
      <3> QED
        BY <2>3, <3>6, <1>3, Distinct DEF Undoing, ClassBack
    <2>4. CASE \E i \in Minors : x = <<"cdev", i>>
      <3>1. PICK i \in Minors : x = <<"cdev", i>>
        BY <2>4
      <3>2. plan' = ProcBack \o Err3(i - 1)
        BY <3>1, <1>3 DEF Unwind
      <3>3. i - 1 \in Indices /\ i \in Nat /\ ProcSteps \in Nat
        BY Assumed DEF Minors, Indices, ProcSteps
      <3>4. n = 3 + ProcSteps + 3 * i + 1
        <4>1. MadeBy(x) = 3 + ProcSteps + 3 * i + 2
          BY <3>1, MadeByIs
        <4> QED
          BY <4>1, <3>3, <1>3
      <3>5. {Memory, Region, Class} \subseteq held
        <4>1. {Memory, Region, Class} \subseteq Made /\ Memory[1] # "node" /\ Region[1] # "node" /\ Class[1] # "node"
          BY DEF Made, Memory, Region, Class, One
        <4>2. 1 <= n /\ 2 <= n /\ 3 <= n
          BY <3>3, <3>4
        <4>3. MadeBy(Memory) = 1 /\ MadeBy(Region) = 2 /\ MadeBy(Class) = 3
          BY MadeByIs
        <4> QED
          BY <4>1, <4>2, <4>3, <1>1 DEF LoadedTo
      <3>6. \A j \in Minors : <<"cdev", j>> \in held <=> j <= i - 1
        <4> TAKE j \in Minors
        <4>1. <<"cdev", j>> \in Made
          BY DEF Made
        <4>2. <<"cdev", j>> \in held <=> MadeBy(<<"cdev", j>>) <= n
          BY <4>1, <1>1 DEF LoadedTo
        <4>3. MadeBy(<<"cdev", j>>) = 3 + ProcSteps + 3 * j + 2
          BY MadeByIs
        <4>4. j \in Nat
          BY Assumed DEF Minors
        <4> QED
          BY <4>4, <4>2, <4>3, <3>3, <3>4
      <3>7. \/ plan' = <<File, Dir>> \o Err3(i - 1) /\ driver = 7
            \/ plan' = Err3(i - 1) /\ File \notin held /\ Dir \notin held
        <4>1. CASE driver = 7
          BY <4>1, <3>2, ProcBackIs
        <4>2. CASE driver = 6
          <5>1. << >> \o Err3(i - 1) = Err3(i - 1)
            BY <3>3, Err3Is, ConcatEmptySeq
          <5> QED
            BY <4>2, <5>1, <3>2, ProcBackIs, <1>0 DEF TypeInv
        <4> QED
          BY <4>1, <4>2, <1>0
      <3>8. DeviceBackFrom(i - 1)'
        BY <3>5, <3>6, <3>7, <1>0 DEF DeviceBackFrom
      <3> QED
        BY <3>1, <3>3, <3>8, <1>3, Distinct DEF Undoing, ClassBack
    <2> QED
      BY <2>1, <2>2, <2>3, <2>4, <1>3 DEF Made
  <1>7. Phases'
    BY <1>0, <1>6 DEF Phases, Off, Loading, Running, Unloading, ClassBack, NothingLeftBehind, OnlyAddedDeleted
  <1>8. TypeInv' /\ InUse' /\ NoUseAfterFree'
    BY <1>0 DEF TypeInv, InUse, NoUseAfterFree
  <1> QED
    BY <1>7, <1>8 DEF Inv
\* rmmod, forced or not
LEMMA RmmodStep ==
  ASSUME Inv, Rmmod
  PROVE  Inv'
  <1>0. /\ driver \in {6, 7} /\ driver' = driver /\ held' = held /\ open' = open /\ plan' = Teardown
        /\ pc = "on" /\ pc' = "unload" /\ TypeInv /\ InUse /\ NoUseAfterFree
        /\ \/ (\A i \in Minors : open[i] = 0) /\ bad' = bad
           \/ Forced \in bad' /\ bad' = bad \cup {Forced}
    BY DEF Inv, TypeInv, Rmmod
  <1>1. held = {Region} \/ \A x \in Made : x[1] # "node" => x \in held
    BY <1>0 DEF Inv, Phases, Running
  <1>2. /\ Teardown \in Seq(Returned) /\ Len(Teardown) \in Nat
        /\ \A x \in Returned : ReturnedBy(x) \in 1..Len(Teardown)
    BY <1>0, TeardownIs, LenProperties
  <1>3. UnloadedTo(0)' \/ HollowTo(0)'
    <2>1. SubSeq(Teardown, 0 + 1, Len(Teardown)) = Teardown
      BY <1>2, SubSeqFull
    <2>2. \A x \in Returned : ReturnedBy(x) > 0
      BY <1>2
    <2>3. held = {Region} \/ \A x \in Returned : x[1] \notin {"node", "buffer"} => x \in held
      <3>1. \A x \in Returned : x[1] \notin {"node", "buffer"} => x \in Made
        BY DEF Returned, Made
      <3> QED
        BY <3>1, <1>1
    <2>4. 0 <= ProcSteps + 1 /\ ProcSteps' = ProcSteps
      BY <1>0 DEF ProcSteps
    <2>5. CASE held = {Region}
      BY <1>0, <1>2, <2>1, <2>4, <2>5, SameLists DEF HollowTo, Behind
    <2>6. CASE held # {Region}
      BY <1>0, <1>2, <2>1, <2>2, <2>3, <2>6, SameLists DEF UnloadedTo, Behind
    <2> QED
      BY <2>5, <2>6
  <1>4. Phases'
    BY <1>0, <1>3 DEF Phases, Off, Loading, Running, Unloading, Undoing, ClassBack, NothingLeftBehind, OnlyAddedDeleted
  <1>5. TypeInv'
    BY <1>0 DEF TypeInv
  <1>6. InUse'
    BY <1>0 DEF InUse, TypeInv
  <1>7. NoUseAfterFree'
    <2>1. /\ <<"proc", "freed">> \notin bad'
          /\ <<"exit", "freed">> \notin bad'
      BY <1>0 DEF NoUseAfterFree, Forced
    <2> QED
      BY <2>1, <1>0 DEF NoUseAfterFree
  <1> QED
    BY <1>4, <1>5, <1>6, <1>7 DEF Inv

\* cdrv_exit goes on.
LEMMA ExitStep ==
  ASSUME Inv, GiveBack, pc = "unload", NEW n \in Nat, UnloadedTo(n)
  PROVE  Inv'
  <1>0. driver \in {6, 7} /\ driver' = driver /\ open' = open
        /\ TypeInv /\ InUse /\ NoUseAfterFree
    BY DEF Inv, TypeInv, GiveBack
  <1>1. UnloadedTo(n)
    OBVIOUS
  <1>2. /\ Teardown \in Seq(Returned) /\ Len(Teardown) \in Nat
        /\ Len(Teardown) = ProcSteps + 3 * MINOR_COUNT + 3
        /\ \A k \in 1..Len(Teardown) : Teardown[k] \in Returned /\ ReturnedBy(Teardown[k]) = k
        /\ \A x \in Returned : ReturnedBy(x) \in 1..Len(Teardown) /\ Teardown[ReturnedBy(x)] = x
    BY <1>0, TeardownIs, LenProperties
  <1>3. UNCHANGED <<Setup, Teardown, Made, Returned>>
        /\ \A x : MadeBy(x)' = MadeBy(x) /\ ReturnedBy(x)' = ReturnedBy(x)
    BY <1>0, SameLists
  <1>4. /\ plan = << >> <=> n = Len(Teardown)
        /\ plan # << >> => /\ n + 1 \in 1..Len(Teardown) /\ Head(plan) = Teardown[n + 1]
                            /\ Tail(plan) = SubSeq(Teardown, n + 2, Len(Teardown))
    BY <1>1, <1>2, NextStep DEF UnloadedTo
  <1>5. {Memory, Region, Class} \subseteq Returned /\ \A i \in Minors : <<"cdev", i>> \in Returned
    BY DEF Returned
  \* The memory goes last.
  <1>m. /\ bad' = bad /\ (plan # << >> => Memory \in held)
        /\ plan = << >> => held # {Region}
    <2>1. Memory \in Returned /\ ReturnedBy(Memory) = Len(Teardown) /\ Memory[1] \notin {"node", "buffer"}
      <3>1. Memory[1] \notin {"node", "buffer"}
        BY DEF Memory, One
      <3> QED
        BY <3>1, <1>2, <1>5, ReturnedByIs
    <2>2. plan # << >> => Memory \in held
      <3> HAVE plan # << >>
      <3>1. n + 1 \in 1..Len(Teardown)
        BY <1>4
      <3>2. Len(Teardown) > n
        BY <3>1, <1>2
      <3> QED
        BY <3>2, <2>1, <1>1 DEF UnloadedTo
    <2>3. plan = << >> => Region \notin held
      <3> HAVE plan = << >>
      <3>1. Region \in held => ReturnedBy(Region) > Len(Teardown)
        BY <1>1, <1>4, <1>5 DEF UnloadedTo
      <3>2. ReturnedBy(Region) \in 1..Len(Teardown)
        BY <1>2, <1>5
      <3> QED
        BY <3>1, <3>2, <1>2
    <2>4. bad' = bad
      BY <2>2 DEF GiveBack, Memory
    <2> QED
      BY <2>2, <2>3, <2>4
  <1>6. CASE plan = << >>
    <2>1. pc' = "off" /\ plan' = plan /\ held' = held
      BY <1>6 DEF GiveBack, Outcome
    <2>2. \A x \in Returned : x \notin held
      BY <1>1, <1>2, <1>4, <1>6 DEF UnloadedTo
    <2>3. held = {}
      <3>1. Memory \notin held
        BY <2>2, <1>5
      <3>2. \A i \in Minors : <<"device", i>> \notin held
        BY <3>1, <1>0 DEF InUse
      <3>3. Things \subseteq Returned \cup {Dir, File} \cup {<<"device", i>> : i \in Minors}
        BY DEF Things, Single, Returned, Memory, Region, Class, Dir, File
      <3>4. Dir \notin held /\ File \notin held
        BY <2>2, <1>0 DEF TypeInv, Returned
      <3> QED
        BY <3>2, <3>3, <3>4, <2>2, <1>0 DEF TypeInv
    <2>4. Phases'
      BY <2>1, <2>3 DEF Phases, Off, Loading, Running, Unloading, Undoing, ClassBack, NothingLeftBehind, OnlyAddedDeleted
    <2>5. TypeInv'
      BY <1>0, <2>1 DEF TypeInv
    <2>6. InUse'
      BY <1>0, <1>m, <2>1, <2>3 DEF InUse
    <2>7. NoUseAfterFree'
      BY <1>0, <1>m, <1>6, <2>1 DEF NoUseAfterFree, Region
    <2> QED
      BY <2>4, <2>5, <2>6, <2>7 DEF Inv
  <1>7. CASE plan # << >>
    <2> DEFINE x == Teardown[n + 1]
               freed == {x} \cup (IF x = Memory THEN Each("device") ELSE {})
    <2>1. x \in Returned /\ ReturnedBy(x) = n + 1 /\ n + 1 \in 0..Len(Teardown) /\ n + 2 = n + 1 + 1
      BY <1>2, <1>4, <1>7
    <2>2. Head(plan) = x /\ Tail(plan) = SubSeq(Teardown, n + 1 + 1, Len(Teardown))
      BY <1>4, <1>7, <2>1
    <2> HIDE DEF x
    <2>3. x[1] = "cdev" => x \in held
      <3>1. ReturnedBy(x) > n
        BY <2>1
      <3> QED
        BY <3>1, <2>1, <1>1 DEF UnloadedTo
    <2>4. pc' = "unload" /\ plan' = SubSeq(Teardown, n + 1 + 1, Len(Teardown)) /\ held' = held \ freed
      BY <2>2, <2>3, <1>7 DEF GiveBack, Memory
    <2>5. \A y \in Returned : y \in freed => y = x
      BY DEF Returned, Each, Memory, Region, Class, Dir, File, One
    <2> HIDE DEF freed
    <2>6. UnloadedTo(n + 1)'
      <3>1. \A y \in Returned : y \in held' => ReturnedBy(y) > n + 1
        <4> TAKE y \in Returned
        <4> HAVE y \in held'
        <4>1. y \in held /\ y # x
          BY <2>4 DEF freed
        <4>2. ReturnedBy(y) > n /\ ReturnedBy(y) \in Nat
          BY <4>1, <1>1, <1>2 DEF UnloadedTo
        <4>3. ReturnedBy(y) # n + 1
          BY <4>1, <1>2, <2>1
        <4> QED
          BY <4>2, <4>3
      <3>2. \A y \in Returned : ReturnedBy(y) > n + 1 /\ y[1] \notin {"node", "buffer"} => y \in held'
        <4> TAKE y \in Returned
        <4> HAVE ReturnedBy(y) > n + 1 /\ y[1] \notin {"node", "buffer"}
        <4>1. ReturnedBy(y) \in Nat
          BY <1>2
        <4>2. ReturnedBy(y) > n /\ y # x
          BY <4>1, <2>1
        <4>3. y \in held
          BY <4>2, <1>1 DEF UnloadedTo
        <4> QED
          BY <4>2, <4>3, <2>4, <2>5
      <3> QED
        BY <2>1, <2>4, <3>1, <3>2, <1>3 DEF UnloadedTo, Behind
    <2>7. Phases'
      <3>1. n + 1 \in Nat
        OBVIOUS
      <3> QED
        BY <2>4, <2>6, <3>1 DEF Phases, Off, Loading, Running, Unloading, Undoing, ClassBack, NothingLeftBehind, OnlyAddedDeleted
    <2>8. TypeInv'
      BY <1>0, <2>4 DEF TypeInv
    <2>9. InUse'
      <3>1. \A y \in Returned : y \in held' => ReturnedBy(y) > n + 1
        BY <2>6, <1>3 DEF UnloadedTo
      <3>2. \A i \in Minors : <<"cdev", i>> \in held' => n + 1 < ProcSteps + 3 * MINOR_COUNT + 1
        <4> TAKE i \in Minors
        <4> HAVE <<"cdev", i>> \in held'
        <4>1. ReturnedBy(<<"cdev", i>>) > n + 1
          BY <3>1, <1>5
        <4>2. ReturnedBy(<<"cdev", i>>) = ProcSteps + 3 * i + 2
          BY ReturnedByIs
        <4>3. i \in Nat /\ i + 1 <= MINOR_COUNT /\ ProcSteps \in Nat /\ MINOR_COUNT \in Nat
          BY Assumed DEF Minors, ProcSteps
        <4> QED
          BY <4>1, <4>2, <4>3
      <3>3. n + 1 < ProcSteps + 3 * MINOR_COUNT + 1 => x # Memory /\ x # Class
        <4>1. ReturnedBy(Class) = ProcSteps + 3 * MINOR_COUNT + 1
              /\ ReturnedBy(Memory) = ProcSteps + 3 * MINOR_COUNT + 3
          BY ReturnedByIs
        <4>2. ProcSteps \in Nat /\ MINOR_COUNT \in Nat
          BY Assumed DEF ProcSteps
        <4> QED
          BY <4>1, <4>2, <2>1
      <3>4. \A i \in Minors : x # <<"device", i>>
        BY <2>1 DEF Returned, Memory, Region, Class, Dir, File, One
      <3>5. \A i \in Minors : <<"cdev", i>> \in held' => {<<"device", i>>, Memory, Class} \subseteq held'
        <4> TAKE i \in Minors
        <4> HAVE <<"cdev", i>> \in held'
        <4>1. {<<"device", i>>, Memory, Class} \subseteq held
          BY <1>0, <2>4 DEF InUse
        <4>2. x \notin {<<"device", i>>, Memory, Class}
          BY <3>2, <3>3, <3>4
        <4> QED
          BY <4>1, <4>2, <2>4 DEF freed
      <3>6. \A i \in Minors : <<"device", i>> \in held' => Memory \in held'
        <4> TAKE i \in Minors
        <4> HAVE <<"device", i>> \in held'
        <4>1. <<"device", i>> \in held /\ x # Memory
          BY <2>4 DEF freed, Each
        <4>2. Memory \in held
          BY <4>1, <1>0 DEF InUse
        <4>3. Memory \notin freed
          BY <4>1 DEF freed
        <4> QED
          BY <4>2, <4>3, <2>4
      <3>7. File \in held' => Memory \in held'
        <4> HAVE File \in held'
        <4>1. driver = 7
          BY <2>4, <1>0 DEF TypeInv
        <4>2. File \in Returned
          BY <4>1 DEF Returned
        <4>3. ReturnedBy(File) > n + 1
          BY <3>1, <4>2
        <4> QED
          BY <4>3, ReturnedByIs
      <3> QED
        BY <3>5, <3>6, <3>7, <1>0, <1>m, <2>4 DEF InUse
    <2>10. NoUseAfterFree'
      BY <1>0, <1>m, <1>7, <2>4, Distinct DEF NoUseAfterFree, Region
    <2> QED
      BY <2>7, <2>8, <2>9, <2>10 DEF Inv
  <1> QED
    BY <1>6, <1>7
\* cdrv_exit of a driver without its class
LEMMA HollowStep ==
  ASSUME Inv, GiveBack, pc = "unload", NEW n \in Nat, HollowTo(n)
  PROVE  Inv'
  <1>0. /\ driver \in {6, 7} /\ driver' = driver /\ open' = open /\ held = {Region}
        /\ bad' = bad \/ bad' = bad \cup {<<"exit", "freed">>}
        /\ TypeInv /\ InUse /\ NoUseAfterFree
    BY DEF Inv, TypeInv, GiveBack, HollowTo
  <1>1. /\ Teardown \in Seq(Returned) /\ Len(Teardown) \in Nat
        /\ Len(Teardown) = ProcSteps + 3 * MINOR_COUNT + 3
        /\ \A k \in 1..Len(Teardown) : Teardown[k] \in Returned /\ ReturnedBy(Teardown[k]) = k
        /\ \A x \in Returned : ReturnedBy(x) \in 1..Len(Teardown) /\ Teardown[ReturnedBy(x)] = x
    BY <1>0, TeardownIs, LenProperties
  <1>2. n <= ProcSteps + 1 /\ ProcSteps \in Nat /\ MINOR_COUNT \in Nat \ {0} /\ ProcSteps' = ProcSteps
    BY <1>0, Assumed DEF HollowTo, ProcSteps
  <1>3. /\ plan # << >> /\ n + 1 \in 1..Len(Teardown)
        /\ Head(plan) = Teardown[n + 1] /\ Tail(plan) = SubSeq(Teardown, n + 2, Len(Teardown))
    <2>1. n # Len(Teardown)
      BY <1>1, <1>2
    <2> QED
      BY <2>1, <1>1, NextStep DEF HollowTo
  <1> DEFINE x == Teardown[n + 1]
  <1>4. x \in Returned /\ ReturnedBy(x) = n + 1
    BY <1>1, <1>3
  <1>5. Teardown' = Teardown
    BY <1>0, SameLists
  <1>6. /\ 0 \in Minors /\ <<"cdev", 0>> \in Returned /\ ReturnedBy(<<"cdev", 0>>) = ProcSteps + 2
        /\ Region \in Returned /\ ReturnedBy(Region) > ProcSteps + 2
    <2>1. 0 \in Minors
      BY <1>2 DEF Minors
    <2>2. ReturnedBy(<<"cdev", 0>>) = ProcSteps + 3 * 0 + 2
          /\ ReturnedBy(Region) = ProcSteps + 3 * MINOR_COUNT + 2
      BY <2>1, ReturnedByIs
    <2> QED
      BY <2>1, <2>2, <1>2 DEF Returned
  <1> HIDE DEF x
  <1>7. /\ plan' = SubSeq(Teardown, n + 2, Len(Teardown))
        /\ x[1] = "cdev" => pc' = "astray" /\ held' = held
        /\ x[1] # "cdev" => pc' = "unload" /\ held' = held
    <2>1. Head(plan) = x
      BY <1>3 DEF x
    <2>2. x # Region
      BY <1>2, <1>4, <1>6
    <2>3. Region \notin Each("device")
      BY Distinct DEF Each
    <2> QED
      BY <2>1, <2>2, <2>3, <1>0, <1>3 DEF GiveBack
  <1>8. x[1] # "cdev" => n + 1 <= ProcSteps + 1
    <2>1. n + 1 = ProcSteps + 2 => x = <<"cdev", 0>>
      BY <1>1, <1>6 DEF x
    <2> QED
      BY <2>1, <1>2
  <1>9. TypeInv'
    BY <1>0, <1>7 DEF TypeInv
  <1>10. InUse'
    BY <1>0, <1>7, Distinct DEF InUse
  <1>11. NoUseAfterFree'
    BY <1>0, <1>7 DEF NoUseAfterFree, Region, Forced
  <1>12. Phases'
    <2>1. CASE x[1] = "cdev"
      BY <2>1, <1>0, <1>7 DEF Phases, Off, Loading, Running, Unloading, Undoing, ClassBack,
                              NothingLeftBehind, OnlyAddedDeleted, Region
    <2>2. CASE x[1] # "cdev"
      <3>1. HollowTo(n + 1)'
        <4>1. n + 1 \in 0..Len(Teardown) /\ n + 2 = n + 1 + 1
          BY <1>1, <1>3
        <4> QED
          BY <4>1, <2>2, <1>0, <1>2, <1>5, <1>7, <1>8 DEF HollowTo, Behind
      <3>2. n + 1 \in Nat
        OBVIOUS
      <3> QED
        BY <2>2, <3>1, <3>2, <1>7 DEF Phases, Off, Loading, Running, Unloading, Undoing, ClassBack,
                                      NothingLeftBehind, OnlyAddedDeleted
    <2> QED
      BY <2>1, <2>2
  <1> QED
    BY <1>9, <1>10, <1>11, <1>12 DEF Inv

\* The class failed: the memory goes, and the driver is on.
LEMMA ClassBackStep ==
  ASSUME Inv, GiveBack, pc = "zero"
  PROVE  Inv'
  <1>0. /\ driver \in {6, 7} /\ driver' = driver /\ open' = open
        /\ TypeInv /\ InUse /\ NoUseAfterFree /\ ClassBack
    BY DEF Inv, TypeInv, GiveBack, Phases
  <1>1. CASE plan = << >> /\ held = {Region}
    <2>1. pc' = "on" /\ held' = {Region} /\ bad' = bad
      BY <1>1 DEF GiveBack, Outcome
    <2>2. Phases'
      BY <2>1 DEF Phases, Off, Loading, Running, Unloading, Undoing, ClassBack, NothingLeftBehind,
                  OnlyAddedDeleted
    <2>3. TypeInv' /\ InUse' /\ NoUseAfterFree'
      BY <1>0, <1>1, <2>1, Distinct DEF TypeInv, InUse, NoUseAfterFree, Region
    <2> QED
      BY <2>2, <2>3 DEF Inv
  <1>2. CASE plan = <<Memory>> /\ held = {Memory, Region}
    <2>1. Head(plan) = Memory /\ Tail(plan) = << >> /\ plan # << >>
      BY <1>2
    <2>2. Memory[1] # "cdev" /\ Memory[1] # "node"
      BY DEF Memory, One
    <2>3. pc' = "zero" /\ plan' = << >> /\ bad' = bad /\ held' = held \ ({Memory} \cup Each("device"))
      BY <2>1, <2>2 DEF GiveBack, Memory
    <2>4. held' = {Region}
      BY <1>2, <2>3, Distinct DEF Each
    <2>5. Phases'
      BY <2>3, <2>4 DEF Phases, Off, Loading, Running, Unloading, Undoing, ClassBack, NothingLeftBehind,
                        OnlyAddedDeleted
    <2>6. TypeInv' /\ InUse' /\ NoUseAfterFree'
      BY <1>0, <1>2, <2>3, <2>4, Distinct DEF TypeInv, InUse, NoUseAfterFree, Class
    <2> QED
      BY <2>5, <2>6 DEF Inv
  <1> QED
    BY <1>0, <1>1, <1>2 DEF ClassBack

\* What a plan that goes back has at its head
LEMMA BackHeads ==
  ASSUME Inv, pc = "back", NEW i \in Indices
  PROVE  /\ ProcBackFrom(i) \/ DeviceBackFrom(i) => plan # << >>
         /\ plan = Err3(i) =>
              \/ i = -1 /\ Head(plan) = Region /\ Tail(plan) = <<Memory>>
              \/ i \in Minors /\ i - 1 \in Indices /\ Head(plan) = <<"cdev", i>> /\ Tail(plan) = Err3(i - 1)
  <1>1. (i = -1 /\ i \notin Minors) \/ (i \in Minors /\ i - 1 \in Indices)
    BY Assumed DEF Indices, Minors
  <1>2. CASE i = -1 /\ i \notin Minors
    <2>1. Err3(i) = <<Region, Memory>>
      BY <1>2, Err3Steps
    <2>2. Err3(i) # << >> /\ Head(Err3(i)) = Region /\ Tail(Err3(i)) = <<Memory>>
      BY <2>1
    <2> QED
      BY <1>2, <2>2, ProcFirst DEF ProcBackFrom, DeviceBackFrom
  <1>3. CASE i \in Minors /\ i - 1 \in Indices
    BY <1>3, Err3Steps, ProcFirst DEF ProcBackFrom, DeviceBackFrom
  <1> QED
    BY <1>1, <1>2, <1>3

\* A label of cdrv_init gives back what is at the head of the plan.
LEMMA LabelStep ==
  ASSUME Inv, GiveBack, pc = "back"
  PROVE  Inv'
  <1>m. plan # << >> => Memory \in held
    BY DEF Inv, Phases, Undoing, EarlyBack, ProcBackFrom, DeviceBackFrom, LateBack
  <1>0. driver \in {6, 7} /\ driver' = driver /\ open' = open /\ bad' = bad
        /\ TypeInv /\ InUse /\ NoUseAfterFree
    BY <1>m DEF Inv, TypeInv, GiveBack, Memory
  <1> DEFINE x == Head(plan)
             freed == {x} \cup (IF x = Memory THEN Each("device") ELSE {})
  <1>1. /\ plan = << >> => pc' = "failed" /\ plan' = plan /\ held' = held
        /\ plan # << >> => plan' = Tail(plan)
        /\ plan # << >> /\ x[1] = "cdev" /\ x \notin held => pc' = "astray" /\ held' = held
        /\ plan # << >> /\ (x[1] # "cdev" \/ x \in held) => pc' = "back" /\ held' = held \ freed
    BY DEF GiveBack, Memory, Outcome
  <1>2. NoUseAfterFree /\ held' \subseteq held
    BY <1>1, <1>0
  <1>3. \A w \in {"device", "cdev", "node", "buffer"} : \A i :
          <<w, i>> \notin {Memory, Region, Class, Dir, File}
    BY Distinct
  <1>4. TypeInv'
    BY <1>0, <1>1 DEF TypeInv
  \* What follows for the rest of the invariant, when the labels go on
  <1>5. ASSUME pc' = "back", Undoing', held' = held \ freed, x # Class,
               \A i \in Minors : x # <<"device", i>>,
               x = Memory => (File \notin held /\ \A i \in Minors : <<"cdev", i>> \notin held)
        PROVE  Inv'
    <2>1. Phases'
      BY <1>5 DEF Phases, Off, Loading, Running, Unloading, ClassBack, NothingLeftBehind, OnlyAddedDeleted
    <2>2. Class \in held => Class \in held'
      BY <1>5, <1>3 DEF Each
    <2>3. /\ Memory \in held /\ x # Memory => Memory \in held'
          /\ x # Memory => \A i \in Minors : <<"device", i>> \in held => <<"device", i>> \in held'
          /\ x = Memory => Memory \notin held' /\ \A i \in Minors : <<"device", i>> \notin held'
      BY <1>5, <1>3 DEF Each
    <2> HIDE DEF x, freed
    <2>4. InUse'
      <3>1. CASE x = Memory
        BY <3>1, <1>0, <1>2, <1>5, <2>2, <2>3 DEF InUse
      <3>2. CASE x # Memory
        BY <3>2, <1>0, <1>2, <1>5, <2>2, <2>3 DEF InUse
      <3> QED
        BY <3>1, <3>2
    <2>5. NoUseAfterFree'
      BY <1>0, <1>5, <2>2, Distinct DEF NoUseAfterFree, Class
    <2> QED
      BY <1>4, <2>1, <2>4, <2>5 DEF Inv
  <1>6. \/ EarlyBack
        \/ \E i \in Indices : ProcBackFrom(i)
        \/ \E i \in Indices : DeviceBackFrom(i)
        \/ LateBack
    BY DEF Inv, Phases, Undoing
  <1>7. CASE plan = << >>
    <2>1. held \subseteq {Class} \cup Each("node") \cup Each("buffer")
      BY <1>6, <1>7, BackHeads, Distinct DEF EarlyBack, LateBack
    <2>2. pc' = "failed" /\ held' = held
      BY <1>1, <1>7
    <2>3. Phases'
      BY <2>1, <2>2 DEF Phases, Off, Loading, Running, Unloading, Undoing, ClassBack, NothingLeftBehind,
                        OnlyAddedDeleted, Class
    <2>4. InUse' /\ NoUseAfterFree'
      BY <2>2, <1>0 DEF InUse, NoUseAfterFree
    <2> QED
      BY <1>4, <2>3, <2>4 DEF Inv
  <1>8. CASE plan # << >> /\ EarlyBack
    <2>1. plan = <<Memory>> /\ x = Memory /\ Tail(plan) = << >> /\ held = {Memory}
      <3>1. Head(<<Memory>>) = Memory /\ Tail(<<Memory>>) = << >> /\ <<Memory>> # << >>
        OBVIOUS
      <3> QED
        BY <3>1, <1>8 DEF EarlyBack
    <2>2. x[1] # "cdev"
      BY <2>1 DEF Memory, One
    <2>3. pc' = "back" /\ held' = held \ freed /\ plan' = << >>
      BY <1>1, <1>8, <2>1, <2>2
    <2>4. Undoing'
      BY <2>1, <2>3 DEF Undoing, EarlyBack
    <2> QED
      BY <1>3, <1>5, <2>1, <2>3, <2>4, Distinct
  <1>9. ASSUME NEW i \in Indices, ProcBackFrom(i)
        PROVE  Inv'
    <2>1. plan # << >>
      BY <1>9, BackHeads
    <2>2. CASE plan = <<Dir>> \o Err3(i)
      <3>1. x = Dir /\ Tail(plan) = Err3(i)
        BY <2>2, ProcFirst
      <3>2. x[1] # "cdev"
        BY <3>1 DEF Dir, One
      <3>3. pc' = "back" /\ held' = held \ {Dir} /\ held' = held \ freed /\ plan' = Err3(i)
        BY <1>1, <2>1, <3>1, <3>2, Distinct
      <3>4. ProcBackFrom(i)'
        BY <1>0, <1>9, <3>3, Distinct DEF ProcBackFrom
      <3>5. Undoing'
        BY <3>4 DEF Undoing
      <3> QED
        BY <1>3, <1>5, <3>1, <3>3, <3>5, Distinct
    <2>3. CASE plan = Err3(i) /\ Dir \notin held
      <3>1. CASE i = -1 /\ x = Region /\ Tail(plan) = <<Memory>>
        <4>1. x[1] # "cdev"
          BY <3>1 DEF Region, One
        <4>2. pc' = "back" /\ held' = held \ {Region} /\ held' = held \ freed /\ plan' = <<Memory>>
          BY <1>1, <2>1, <3>1, <4>1, Distinct
        <4>3. LateBack'
          <5>1. held' \cap Each("cdev") = {}
            BY <1>9, <4>2, <1>3 DEF ProcBackFrom, Each
          <5> QED
            BY <1>9, <2>3, <4>2, <5>1, Distinct DEF ProcBackFrom, LateBack
        <4>4. Undoing'
          BY <4>3 DEF Undoing
        <4> QED
          BY <1>3, <1>5, <3>1, <4>2, <4>4, Distinct
      <3>2. CASE i \in Minors /\ x = <<"cdev", i>>
        <4>1. x \notin held /\ x[1] = "cdev"
          <5>1. <<"cdev", i>> \notin {Memory, Region, Class, Dir} /\ <<"cdev", i>>[1] = "cdev"
            BY Distinct
          <5> QED
            BY <5>1, <1>9, <3>2 DEF ProcBackFrom
        <4>2. pc' = "astray" /\ held' = held
          BY <1>1, <2>1, <4>1
        <4>3. driver = 7 /\ Class \in held /\ held \cap (Each("cdev") \cup Each("node")) = {}
          BY <1>9, <1>3 DEF ProcBackFrom, Each
        <4>4. Phases'
          BY <1>0, <4>2, <4>3 DEF Phases, Off, Loading, Running, Unloading, Undoing, ClassBack,
                                  NothingLeftBehind, OnlyAddedDeleted, Class
        <4>5. Forced \in bad \/ \A j \in Minors : ~(open[j] > 0)
          <5>1. \A j \in Minors : <<"device", j>> \notin held /\ Memory \in held
            BY <1>9, <1>3 DEF ProcBackFrom
          <5> QED
            BY <5>1, <1>0 DEF InUse
        <4>6. Forced \in bad \/ <<"file", "freed">> \notin bad
          BY <1>0, <1>9 DEF InUse, ProcBackFrom
        <4>7. InUse' /\ NoUseAfterFree'
          BY <1>0, <4>2, <4>5, <4>6 DEF InUse, NoUseAfterFree
        <4> QED
          BY <1>4, <4>4, <4>7 DEF Inv
      <3> QED
        BY <2>3, <3>1, <3>2, BackHeads
    <2> QED
      BY <1>9, <2>2, <2>3 DEF ProcBackFrom
  <1>10. ASSUME NEW i \in Indices, DeviceBackFrom(i)
         PROVE  Inv'
    <2>1. plan # << >>
      BY <1>10, BackHeads
    <2>2. CASE plan = <<File, Dir>> \o Err3(i) /\ driver = 7
      <3>1. x = File /\ Tail(plan) = <<Dir>> \o Err3(i)
        BY <2>2, ProcFirst
      <3>2. x[1] # "cdev"
        BY <3>1 DEF File, One
      <3>3. pc' = "back" /\ held' = held \ {File} /\ held' = held \ freed /\ plan' = <<Dir>> \o Err3(i)
        BY <1>1, <2>1, <3>1, <3>2, Distinct
      <3>4. DeviceBackFrom(i)'
        BY <1>0, <1>3, <1>10, <2>2, <3>3, Distinct DEF DeviceBackFrom
      <3>5. Undoing'
        BY <3>4 DEF Undoing
      <3> QED
        BY <1>3, <1>5, <3>1, <3>3, <3>5, Distinct
    <2>3. CASE plan = <<Dir>> \o Err3(i) /\ File \notin held /\ driver = 7
      <3>1. x = Dir /\ Tail(plan) = Err3(i)
        BY <2>3, ProcFirst
      <3>2. x[1] # "cdev"
        BY <3>1 DEF Dir, One
      <3>3. pc' = "back" /\ held' = held \ {Dir} /\ held' = held \ freed /\ plan' = Err3(i)
        BY <1>1, <2>1, <3>1, <3>2, Distinct
      <3>4. DeviceBackFrom(i)'
        BY <1>0, <1>3, <1>10, <2>3, <3>3, Distinct DEF DeviceBackFrom
      <3>5. Undoing'
        BY <3>4 DEF Undoing
      <3> QED
        BY <1>3, <1>5, <3>1, <3>3, <3>5, Distinct
    <2>4. CASE plan = Err3(i) /\ File \notin held /\ Dir \notin held
      <3>1. CASE i = -1 /\ x = Region /\ Tail(plan) = <<Memory>>
        <4>1. x[1] # "cdev"
          BY <3>1 DEF Region, One
        <4>2. pc' = "back" /\ held' = held \ {Region} /\ held' = held \ freed /\ plan' = <<Memory>>
          BY <1>1, <2>1, <3>1, <4>1, Distinct
        <4>3. LateBack'
          <5>1. \A j \in Minors : ~(j <= i)
            BY <3>1, Assumed DEF Minors
          <5>2. held' \cap Each("cdev") = {}
            BY <1>10, <4>2, <5>1 DEF DeviceBackFrom, Each
          <5> QED
            BY <1>10, <2>4, <4>2, <5>2, Distinct DEF DeviceBackFrom, LateBack
        <4>4. Undoing'
          BY <4>3 DEF Undoing
        <4> QED
          BY <1>3, <1>5, <3>1, <4>2, <4>4, Distinct
      <3>2. CASE i \in Minors /\ i - 1 \in Indices /\ x = <<"cdev", i>> /\ Tail(plan) = Err3(i - 1)
        <4>1. i \in Int /\ i <= i /\ x \in held
          BY <1>10, <3>2 DEF DeviceBackFrom, Indices
        <4>2. pc' = "back" /\ held' = held \ {x} /\ held' = held \ freed /\ plan' = Err3(i - 1)
          BY <1>1, <1>3, <2>1, <3>2, <4>1
        <4>3. DeviceBackFrom(i - 1)'
          <5>1. \A j \in Minors : <<"cdev", j>> \in held' <=> j <= i - 1
            <6> TAKE j \in Minors
            <6>1. <<"cdev", j>> \in held <=> j <= i
              BY <1>10 DEF DeviceBackFrom
            <6>2. <<"cdev", j>> = x <=> j = i
              BY <3>2
            <6>3. j \in Int
              BY DEF Minors
            <6> QED
              BY <6>1, <6>2, <6>3, <4>1, <4>2
          <5> QED
            BY <5>1, <1>3, <1>10, <2>4, <3>2, <4>2 DEF DeviceBackFrom
        <4>4. Undoing'
          BY <3>2, <4>3 DEF Undoing
        <4>5. x \notin {Class, Memory} /\ \A j \in Minors : x # <<"device", j>>
          <5>1. <<"cdev", i>> \notin {Memory, Region, Class, Dir, File}
            BY Distinct
          <5>2. \A j \in Minors : <<"cdev", i>> # <<"device", j>>
            OBVIOUS
          <5> QED
            BY <5>1, <5>2, <3>2
        <4> QED
          BY <1>5, <4>2, <4>4, <4>5
      <3> QED
        BY <2>4, <3>1, <3>2, BackHeads
    <2> QED
      BY <1>10, <2>2, <2>3, <2>4 DEF DeviceBackFrom
  <1>11. CASE plan # << >> /\ LateBack
    <2>1. plan = <<Memory>> /\ x = Memory /\ Tail(plan) = << >> /\ Class \in held
          /\ held \cap ({Region, Dir, File} \cup Each("cdev")) = {}
      <3>1. Head(<<Memory>>) = Memory /\ Tail(<<Memory>>) = << >> /\ <<Memory>> # << >>
        OBVIOUS
      <3> QED
        BY <3>1, <1>11 DEF LateBack
    <2>2. x[1] # "cdev"
      BY <2>1 DEF Memory, One
    <2>3. pc' = "back" /\ held' = held \ freed /\ freed = {Memory} \cup Each("device") /\ plan' = << >>
      BY <1>1, <1>11, <2>1, <2>2
    <2>4. LateBack'
      <3>1. held' \subseteq {Class} \cup Each("node") \cup Each("buffer")
        <4>1. Things \subseteq {Memory, Region, Class, Dir, File} \cup Each("device") \cup Each("cdev")
                                  \cup Each("node") \cup Each("buffer")
          BY DEF Things, Single, Each, Memory, Region, Class, Dir, File
        <4> QED
          BY <4>1, <2>1, <2>3, <1>0 DEF TypeInv
      <3>2. Class \in held'
        BY <2>1, <2>3, <1>3, Distinct DEF Each
      <3> QED
        BY <3>1, <3>2, <2>1, <2>3, <1>2 DEF LateBack
    <2>5. Undoing'
      BY <2>4 DEF Undoing
    <2>6. \A i \in Minors : <<"cdev", i>> \notin held
      BY <2>1 DEF Each
    <2> QED
      BY <1>3, <1>5, <2>1, <2>3, <2>5, <2>6, Distinct
  <1> QED
    BY <1>6, <1>7, <1>8, <1>9, <1>10, <1>11
\* A program opens a device, and may fill its buffer.
LEMMA OpenStep ==
  ASSUME Inv, NEW i \in Minors, OpenDevice(i)
  PROVE  Inv'
  <1> DEFINE b == <<"buffer", i>>
  <1>0. /\ driver \in {6, 7} /\ driver' = driver /\ pc' = pc /\ plan' = plan
        /\ pc \in {"load", "back", "on"} /\ <<"cdev", i>> \in held
        /\ held \subseteq held' /\ held' \subseteq held \cup {b}
        /\ open' = [open EXCEPT ![i] = @ + 1]
        /\ TypeInv /\ InUse /\ NoUseAfterFree
    BY DEF Inv, TypeInv, OpenDevice
  <1>1. {<<"device", i>>, Memory, Class} \subseteq held
    BY <1>0 DEF InUse
  <1>2. bad' = bad
    BY <1>1 DEF OpenDevice, Touch, Memory
  <1>3. b \notin {Memory, Region, Class, Dir, File} /\ b \notin Made /\ b \in Things
        /\ \A j : b # <<"cdev", j>> /\ b # <<"device", j>>
    BY Distinct DEF Made, Things
  <1> HIDE DEF b
  <1>4. UNCHANGED <<Setup, Teardown, Made, Returned>>
        /\ \A x : MadeBy(x)' = MadeBy(x) /\ ReturnedBy(x)' = ReturnedBy(x)
    BY <1>0, SameLists
  <1>5. TypeInv'
    BY <1>0, <1>3 DEF TypeInv
  <1>6. Loading'
    <2>1. ASSUME NEW n \in Nat, LoadedTo(n)
          PROVE  LoadedTo(n)'
      <3>1. \A x \in Made : x \in held' <=> x \in held
        BY <1>0, <1>3
      <3>2. \A j \in Minors : <<"buffer", j>> \in held' => <<"cdev", j>> \in held'
        BY <2>1, <1>0 DEF LoadedTo, b
      <3> QED
        BY <2>1, <3>1, <3>2, <1>0, <1>4 DEF LoadedTo, Behind
    <2> QED
      BY <2>1, <1>0 DEF Inv, Phases, Loading
  <1>7. Running'
    <2>1. held # {Region}
      BY <1>0, Distinct
    <2> QED
      BY <2>1, <1>0, <1>4 DEF Inv, Phases, Running
  <1>8. Undoing'
    <2> SUFFICES ASSUME pc = "back" PROVE Undoing'
      BY <1>0 DEF Undoing
    <2>1. ASSUME NEW k \in Indices, DeviceBackFrom(k)
          PROVE  DeviceBackFrom(k)'
      BY <2>1, <1>0, <1>3 DEF DeviceBackFrom
    <2>2. ~EarlyBack
      <3>1. <<"cdev", i>> \notin {Memory}
        BY Distinct
      <3> QED
        BY <3>1, <1>0 DEF EarlyBack
    <2>3. \A k \in Indices : ~ProcBackFrom(k)
      <3>1. <<"cdev", i>> \notin {Memory, Region, Class, Dir}
        BY Distinct
      <3> QED
        BY <3>1, <1>0 DEF ProcBackFrom
    <2>4. ~LateBack
      BY <1>0 DEF LateBack, Each
    <2> QED
      BY <2>1, <2>2, <2>3, <2>4 DEF Inv, Phases, Undoing
  <1>9. Phases'
    BY <1>0, <1>6, <1>7, <1>8 DEF Phases, Off, Unloading, ClassBack, NothingLeftBehind, OnlyAddedDeleted
  <1>10. InUse'
    <2>1. \A j \in Minors : open'[j] > 0 => open[j] > 0 \/ j = i
      BY <1>0 DEF TypeInv
    <2>2. \A x \in {Memory, Class, File} : x \in held' <=> x \in held
      BY <1>0, <1>3
    <2>3. \A j \in Minors :
            /\ <<"cdev", j>> \in held' <=> <<"cdev", j>> \in held
            /\ <<"device", j>> \in held' <=> <<"device", j>> \in held
      BY <1>0, <1>3
    <2>4. ASSUME Forced \notin bad, NEW j \in Minors, open'[j] > 0
          PROVE  /\ pc' \notin {"off", "unload", "astray"} /\ Class \in held'
                 /\ Memory \in held' => <<"device", j>> \in held'
      <3>1. CASE j = i
        BY <3>1, <1>0, <1>1
      <3>2. CASE open[j] > 0
        BY <3>2, <2>2, <2>3, <2>4, <1>0 DEF InUse
      <3> QED
        BY <2>1, <2>4, <3>1, <3>2
    <2>5. Forced \in bad' \/ (<<"file", "freed">> \in bad' => Memory \notin held')
      BY <2>2, <1>0, <1>2 DEF InUse
    <2>6. pc' \in {"load", "on"} /\ Class \in held' => Memory \in held'
      BY <1>0, <1>1
    <2>7. \A j \in Minors :
            /\ <<"cdev", j>> \in held' => {<<"device", j>>, Memory, Class} \subseteq held'
            /\ <<"device", j>> \in held' => Memory \in held'
      <3> TAKE j \in Minors
      <3>1. /\ <<"cdev", j>> \in held => {<<"device", j>>, Memory, Class} \subseteq held
            /\ <<"device", j>> \in held => Memory \in held
        BY <1>0 DEF InUse
      <3>2. /\ <<"cdev", j>> \in held' => <<"cdev", j>> \in held
            /\ <<"device", j>> \in held' => <<"device", j>> \in held
        BY <2>3, Zenon
      <3>3. held \subseteq held'
        BY <1>0
      <3> QED
        BY <3>1, <3>2, <3>3
    <2>8. File \in held' => Memory \in held'
      BY <1>0, <1>1
    <2> QED
      BY <2>4, <2>5, <2>6, <2>7, <2>8, <1>2 DEF InUse
  <1>11. NoUseAfterFree'
    <2>1. held # {Region}
      BY <1>0, Distinct
    <2> QED
      BY <2>1, <1>0, <1>2, Distinct DEF NoUseAfterFree, Class, Region
  <1> QED
    BY <1>5, <1>9, <1>10, <1>11 DEF Inv

\* A program closes a device.
LEMMA ReleaseStep ==
  ASSUME Inv, NEW i \in Minors, Release(i)
  PROVE  Inv'
  <1>0. /\ UNCHANGED <<driver, pc, plan, held>> /\ open[i] > 0 /\ open' = [open EXCEPT ![i] = @ - 1]
        /\ TypeInv /\ InUse /\ NoUseAfterFree /\ Phases
    BY DEF Inv, Release
  <1>1. Phases'
    BY <1>0, PhasesStay
  <1>2. open' \in [Minors -> Nat] /\ \A j \in Minors : open'[j] > 0 => open[j] > 0
    BY <1>0 DEF TypeInv
  <1>3. TypeInv'
    BY <1>0, <1>2 DEF TypeInv
  <1>4. Forced \in bad =>
          Forced \in bad' /\ (<<"proc", "freed">> \in bad' => <<"proc", "freed">> \in bad)
    BY DEF Release, Touch, Forced
  <1>5. CASE Memory \notin held
    <2>1. bad' = bad \cup {<<"file", "freed">>}
      <3>1. Touch(i, "file") /\ One("memory") \notin held
        BY <1>5 DEF Release, Memory
      <3> QED
        BY <3>1 DEF Touch
    <2>2. Forced \in bad \/ (pc \in {"back", "failed"} /\ Class \in held)
      <3>1. pc = "zero" => Class \notin held
        BY <1>0, Distinct DEF Phases, ClassBack
      <3> QED
        BY <3>1, <1>0, <1>5 DEF InUse, TypeInv
    <2>3. NoUseAfterFree'
      BY <1>0, <2>1, <2>2, <1>4 DEF NoUseAfterFree, Class, Region
    <2>4. InUse'
      BY <1>0, <1>2, <1>5, <2>1 DEF InUse
    <2> QED
      BY <1>1, <1>3, <2>3, <2>4 DEF Inv
  <1>6. CASE Memory \in held /\ <<"device", i>> \notin held
    <2>1. bad' = bad \cup {<<"file", "unset">>} /\ Forced \in bad
      BY <1>0, <1>6 DEF Release, Touch, Memory, InUse
    <2> QED
      BY <1>0, <1>1, <1>2, <1>3, <1>4, <2>1 DEF Inv, InUse, NoUseAfterFree
  <1>7. CASE Memory \in held /\ <<"device", i>> \in held
    <2>1. bad' = bad
      BY <1>7 DEF Release, Touch, Memory
    <2> QED
      BY <1>0, <1>1, <1>2, <1>3, <2>1 DEF Inv, InUse, NoUseAfterFree
  <1> QED
    BY <1>5, <1>6, <1>7

\* A program reads the file in /proc.
LEMMA ShowProcStep ==
  ASSUME Inv, NEW i \in Minors, ShowProc(i)
  PROVE  Inv'
  <1>0. /\ UNCHANGED <<driver, pc, plan, held, open>> /\ File \in held
        /\ TypeInv /\ InUse /\ NoUseAfterFree /\ Phases
    BY DEF Inv, ShowProc, File
  <1>1. Phases'
    BY <1>0, PhasesStay
  <1>2. Memory \in held
    BY <1>0 DEF InUse
  <1>3. bad' = bad \/ bad' = bad \cup {<<"proc", "unset">>}
    BY <1>2 DEF ShowProc, Touch, Memory
  <1>4. /\ Forced \in bad => Forced \in bad'
        /\ \A u \in {<<"proc", "freed">>, <<"file", "freed">>, <<"file", "unset">>,
                     <<"exit", "freed">>} : u \in bad' => u \in bad
    BY <1>3
  <1> QED
    BY <1>0, <1>1, <1>4 DEF Inv, TypeInv, InUse, NoUseAfterFree

\* Every step keeps the invariant.
LEMMA InvNext == Inv /\ [Next]_vars => Inv'
  <1> SUFFICES ASSUME Inv, [Next]_vars PROVE Inv'
    OBVIOUS
  <1>1. CASE UNCHANGED vars
    <2>1. Phases'
      BY <1>1, PhasesStay DEF vars, Inv
    <2> QED
      BY <1>1, <2>1 DEF vars, Inv, TypeInv, InUse, NoUseAfterFree
  <1>2. ASSUME GiveBack PROVE Inv'
    <2>1. CASE pc = "back"
      BY <1>2, <2>1, LabelStep
    <2>2. CASE pc = "zero"
      BY <1>2, <2>2, ClassBackStep
    <2>3. CASE pc = "unload"
      <3>1. PICK n \in Nat : UnloadedTo(n) \/ HollowTo(n)
        BY <2>3 DEF Inv, Phases, Unloading
      <3> QED
        BY <1>2, <2>3, <3>1, ExitStep, HollowStep
    <2> QED
      BY <1>2, <2>1, <2>2, <2>3 DEF GiveBack
  <1> QED
    BY <1>1, <1>2, InsmodStep, LoadStep, LoadFailsStep, RmmodStep, OpenStep, ReleaseStep, ShowProcStep DEF Next

-----------------------------------------------------------------------------
(* Theorems                                                                *)

\* The invariant holds in every state, for any number of devices and open files.
THEOREM Invariant == Spec => []Inv
  BY InvInit, InvNext, PTL DEF Spec

\* Property NothingLeftBehind: cdrv_exit gives everything back, and a load that
\* failed leaves at most the class, nodes and buffers.
THEOREM GivenBack == Spec => []NothingLeftBehind
  <1>1. Inv => NothingLeftBehind
    BY DEF Inv, Phases
  <1> QED
    BY <1>1, Invariant, PTL

\* Property NoUseAfterFree: /proc never meets freed memory; a file only does after
\* a forced rmmod, or when a later device failed; cdrv_exit only does when the
\* driver was loaded without its class.
THEOREM MemoryOutlivesUse == Spec => []NoUseAfterFree
  <1>1. Inv => NoUseAfterFree
    BY DEF Inv
  <1> QED
    BY <1>1, Invariant, PTL

\* Property OnlyAddedDeleted: a device that was never added is deleted only where
\* /proc refused, and by cdrv_exit of a driver without its class.
THEOREM DeletedWasAdded == Spec => []OnlyAddedDeleted
  <1>1. Inv => OnlyAddedDeleted
    BY DEF Inv, Phases
  <1> QED
    BY <1>1, Invariant, PTL
=============================================================================

-------------------------- MODULE ShmChannelProofs --------------------------
(***************************************************************************)
(* The channel of 5b keeps its promises for any number of displays, lines  *)
(* and runs, if menu and displays are started one after the other.         *)
(***************************************************************************)
EXTENDS ShmChannel, FiniteSetTheorems, SequenceTheorems, TLAPS

InService == {"gets", "wait", "copy", "post", "done"}
Loop == {"wait", "copy", "post", "test"}

\* Where the menu, and where a display, has opened the object of kind k
MenuHas(k) ==
  InService \cup IF k = "shm" THEN {}
                 ELSE {"unlink_shm", "open_shm"}
                      \cup IF k = "read" THEN {} ELSE {"unlink_read", "open_read"}
DisplayHas(k) ==
  Loop \cup IF k = "shm" THEN {}
            ELSE {"open_shm"} \cup IF k = "read" THEN {} ELSE {"open_read"}
\* Where the menu has unlinked the name and not yet made the object
Between(k) ==
  IF k = "write" THEN "open_write" ELSE IF k = "read" THEN "open_read" ELSE "open_shm"

\* The functions and sequences the variables are
Shape ==
  /\ name \in [Kinds -> Nat]
  /\ obj = [k \in Kinds |-> obj[k]]
  /\ \A k \in Turn : obj[k] \in Seq({0, 1})
  /\ obj["shm"] \in Seq(Lines \cup {Empty})
  /\ open \in [Procs -> [Kinds -> Nat]]
  /\ \A k \in Kinds : name[k] <= Len(obj[k])
  /\ \A p \in Procs, k \in Kinds : open[p][k] <= Len(obj[k])
  /\ line \in [Procs -> Lines \cup {Empty}]
  /\ sent \in Seq(Lines) /\ received \in Seq(Lines \cup {Empty})
  /\ runs \in 0..MaxRuns
  /\ pc \in [Procs -> PCs]
  /\ pc[Menu] \in PCs \ {"test"}
  /\ \A d \in Displays : pc[d] \in Loop \cup {"off", "done", "open_write", "open_read", "open_shm"}

\* Names stand for the menu's objects, and a display that runs has them too.
Stages ==
  /\ pc[Menu] = "off" => \A k \in Kinds : name[k] = 0
  /\ \A k \in Kinds : pc[Menu] = Between(k) => name[k] = 0
  /\ \A k \in Kinds : pc[Menu] \in MenuHas(k) => name[k] = open[Menu][k] /\ name[k] # 0
  /\ \A d \in Displays : ~Ended(d) => Serving \/ (pc[Menu] = "off" /\ pc[d] = "open_write")
  /\ \A d \in Displays, k \in Kinds : pc[d] \in DisplayHas(k) => open[d][k] = open[Menu][k]

OneTaken == \E p \in Procs : HasTurn = {p}
TurnHeld ==
  /\ ~Serving => /\ pc[Menu] \in MenuHas("write") => Value("write") = 0
                 /\ pc[Menu] \in MenuHas("read") => Value("read") = 1
  /\ Serving =>
       \/ HasTurn = {} /\ Value("write") + Value("read") = 1
       \/ OneTaken /\ Value("write") = 0 /\ Value("read") = 0

\* What the memory holds: the last line of the menu
Latest == IF sent = << >> THEN Empty ELSE sent[Len(sent)]
\* Whether the latest line has been copied
Copied == Value("write") = 1 \/ pc[Menu] = "copy" \/ \E d \in Displays : pc[d] = "post"
Alone(d) == \A e \in Displays \ {d} : open[e]["shm"] # open[d]["shm"]

Contents ==
  /\ pc[Menu] \in {"wait", "copy", "post"} => line[Menu] \in Lines
  /\ ~Serving => sent = << >> /\ received = << >>
  /\ Serving => /\ Memory(Menu) = Latest
                /\ Len(received) = Len(sent) + (IF Copied THEN 1 ELSE 0)
  /\ \A i \in 1..Len(received) : received[i] = IF i = 1 THEN Empty ELSE sent[i - 1]
  /\ \A d \in Displays : pc[d] = "post" => line[d] = Memory(d)
  /\ \A d \in Displays :
       pc[d] = "test" /\ obj["write"][open[d]["write"]] = 1 /\ Alone(d) => line[d] = Memory(d)

IInv == Shape /\ Stages /\ TurnHeld /\ Contents

-----------------------------------------------------------------------------
(* What one call does to the objects.                                      *)

\* A semaphore gets a value: the other objects keep theirs.
LEMMA SemaphoreSet ==
  ASSUME Shape, NEW k \in Turn, NEW o \in 1..Len(obj[k]), NEW v \in {0, 1},
         obj' = [obj EXCEPT ![k] = [@ EXCEPT ![o] = v]]
  PROVE  /\ obj' = [j \in Kinds |-> obj'[j]]
         /\ \A j \in Turn : obj'[j] \in Seq({0, 1})
         /\ obj'["shm"] = obj["shm"]
         /\ \A j \in Kinds : Len(obj'[j]) = Len(obj[j])
         /\ \A j \in Turn : \A i \in 1..Len(obj[j]) :
              obj'[j][i] = IF j = k /\ i = o THEN v ELSE obj[j][i]
<1>1. \A j \in Kinds : obj'[j] = IF j = k THEN [obj[k] EXCEPT ![o] = v] ELSE obj[j]
  BY DEF Shape, Turn, Kinds
<1>2. /\ [obj[k] EXCEPT ![o] = v] \in Seq({0, 1})
      /\ Len([obj[k] EXCEPT ![o] = v]) = Len(obj[k])
      /\ \A i \in 1..Len(obj[k]) : [obj[k] EXCEPT ![o] = v][i] = IF i = o THEN v ELSE obj[k][i]
  <2>1. obj[k] \in Seq({0, 1})
    BY DEF Shape
  <2>2. QED
    BY <2>1, ExceptSeq
<1>3. obj' = [j \in Kinds |-> obj'[j]]
  BY DEF Shape
<1>4. k # "shm" /\ Turn \subseteq Kinds /\ "shm" \in Kinds
  BY DEF Turn, Kinds
<1>5. QED
  BY <1>1, <1>2, <1>3, <1>4 DEF Shape

\* The memory gets a line.
LEMMA MemorySet ==
  ASSUME Shape, NEW o \in 1..Len(obj["shm"]), NEW v \in Lines \cup {Empty},
         obj' = [obj EXCEPT !["shm"] = [@ EXCEPT ![o] = v]]
  PROVE  /\ obj' = [j \in Kinds |-> obj'[j]]
         /\ \A j \in Turn : obj'[j] = obj[j]
         /\ obj'["shm"] \in Seq(Lines \cup {Empty})
         /\ Len(obj'["shm"]) = Len(obj["shm"])
         /\ \A i \in 1..Len(obj["shm"]) : obj'["shm"][i] = IF i = o THEN v ELSE obj["shm"][i]
<1>1. obj'["shm"] = [obj["shm"] EXCEPT ![o] = v] /\ \A j \in Turn : obj'[j] = obj[j]
  BY DEF Shape, Turn, Kinds
<1>2. obj["shm"] \in Seq(Lines \cup {Empty})
  BY DEF Shape
<1>3. /\ [obj["shm"] EXCEPT ![o] = v] \in Seq(Lines \cup {Empty})
      /\ Len([obj["shm"] EXCEPT ![o] = v]) = Len(obj["shm"])
      /\ \A i \in 1..Len(obj["shm"]) :
           [obj["shm"] EXCEPT ![o] = v][i] = IF i = o THEN v ELSE obj["shm"][i]
  BY <1>2, ExceptSeq
<1>4. obj' = [j \in Kinds |-> obj'[j]]
  BY DEF Shape
<1>5. QED
  BY <1>1, <1>3, <1>4

\* A new object is the last one of its kind and holds what New says.
LEMMA ObjectMade ==
  ASSUME Shape, NEW k \in Kinds, obj' = [obj EXCEPT ![k] = Append(@, New[k])]
  PROVE  /\ obj' = [j \in Kinds |-> obj'[j]]
         /\ \A j \in Turn : obj'[j] \in Seq({0, 1})
         /\ obj'["shm"] \in Seq(Lines \cup {Empty})
         /\ \A j \in Kinds : Len(obj'[j]) = IF j = k THEN Len(obj[j]) + 1 ELSE Len(obj[j])
         /\ obj'[k][Len(obj[k]) + 1] = New[k]
         /\ \A j \in Kinds : \A i \in 1..Len(obj[j]) : obj'[j][i] = obj[j][i]
<1>1. \A j \in Kinds : obj'[j] = IF j = k THEN Append(obj[j], New[j]) ELSE obj[j]
  BY DEF Shape
<1>2. obj' = [j \in Kinds |-> obj'[j]]
  BY DEF Shape
<1>3. New["write"] = 0 /\ New["read"] = 1 /\ New["shm"] = Empty
  BY DEF New
<1>4. ASSUME NEW j \in Kinds, NEW S, obj[j] \in Seq(S), New[j] \in S
      PROVE  /\ obj'[j] \in Seq(S)
             /\ Len(obj'[j]) = IF j = k THEN Len(obj[j]) + 1 ELSE Len(obj[j])
             /\ j = k => obj'[j][Len(obj[j]) + 1] = New[j]
             /\ \A i \in 1..Len(obj[j]) : obj'[j][i] = obj[j][i]
  <2>1. /\ Append(obj[j], New[j]) \in Seq(S)
        /\ Len(Append(obj[j], New[j])) = Len(obj[j]) + 1
        /\ Append(obj[j], New[j])[Len(obj[j]) + 1] = New[j]
        /\ \A i \in 1..Len(obj[j]) : Append(obj[j], New[j])[i] = obj[j][i]
    BY <1>4, AppendProperties
  <2>2. CASE j = k
    <3>1. obj'[j] = Append(obj[j], New[j])
      BY <1>1, <2>2
    <3>2. QED
      BY <2>1, <2>2, <3>1
  <2>3. CASE j # k
    BY <1>1, <1>4, <2>3
  <2>4. QED
    BY <2>2, <2>3
<1>5. \A j \in Turn : j \in Kinds /\ obj[j] \in Seq({0, 1}) /\ New[j] \in {0, 1}
  BY <1>3 DEF Shape, Turn, Kinds
<1>6. "shm" \in Kinds /\ obj["shm"] \in Seq(Lines \cup {Empty}) /\ New["shm"] \in Lines \cup {Empty}
  BY <1>3 DEF Shape, Kinds
<1>7. \A j \in Kinds :
        /\ Len(obj'[j]) = IF j = k THEN Len(obj[j]) + 1 ELSE Len(obj[j])
        /\ j = k => obj'[j][Len(obj[j]) + 1] = New[j]
        /\ \A i \in 1..Len(obj[j]) : obj'[j][i] = obj[j][i]
  BY <1>4, <1>5, <1>6 DEF Turn, Kinds
<1>8. QED
  BY <1>2, <1>4, <1>5, <1>6, <1>7

-----------------------------------------------------------------------------
\* No object is made and nobody runs.
LEMMA InitInv == Init => IInv
<1> SUFFICES ASSUME Init PROVE IInv
    OBVIOUS
<1>1. Shape
  BY ChannelAssumption DEF Init, Shape, Kinds, Turn, Procs, PCs
<1>2. Stages
  BY DEF Init, Stages, Ended, MenuHas, DisplayHas, Between, Procs, Kinds, Loop, InService
<1>3. TurnHeld
  BY DEF Init, TurnHeld, Serving, MenuHas, InService, Procs
<1>4. Contents
  BY DEF Init, Contents, Serving, Procs
<1>5. QED
  BY <1>1, <1>2, <1>3, <1>4 DEF IInv

-----------------------------------------------------------------------------
(* What a step may use.                                                    *)

\* Where a process goes, and whether it takes the turn along.
LEMMA Moves ==
  ASSUME Shape, NEW p \in Procs, NEW l, Goto(p, l)
  PROVE  /\ \A q \in Procs : pc'[q] = IF q = p THEN l ELSE pc[q]
         /\ l \in {"copy", "post"} => HasTurn' = HasTurn \cup {p}
         /\ l \notin {"copy", "post"} => HasTurn' = HasTurn \ {p}
<1>1. \A q \in Procs : pc'[q] = IF q = p THEN l ELSE pc[q]
  BY DEF Shape, Goto
<1>2. l \in {"copy", "post"} => HasTurn' = HasTurn \cup {p}
  BY <1>1 DEF HasTurn
<1>3. l \notin {"copy", "post"} => HasTurn' = HasTurn \ {p}
  BY <1>1 DEF HasTurn
<1>4. QED
  BY <1>1, <1>2, <1>3

\* A program's counter keeps its type.
LEMMA MovesType ==
  ASSUME Shape, NEW p \in Procs, NEW l \in PCs, Goto(p, l),
         p = Menu => l # "test",
         p \in Displays => l \in Loop \cup {"off", "done", "open_write", "open_read", "open_shm"}
  PROVE  /\ pc' \in [Procs -> PCs]
         /\ pc'[Menu] \in PCs \ {"test"}
         /\ \A d \in Displays :
              pc'[d] \in Loop \cup {"off", "done", "open_write", "open_read", "open_shm"}
BY Moves, ChannelAssumption DEF Shape, Goto, Procs

\* The objects of a kind are counted.
LEMMA Lengths ==
  ASSUME Shape
  PROVE  \A k \in Kinds : Len(obj[k]) \in Nat /\ 0 <= Len(obj[k]) /\ Len(obj[k]) + 1 # 0
<1>1. \A k \in Turn : Len(obj[k]) \in Nat
  BY LenProperties DEF Shape
<1>2. Len(obj["shm"]) \in Nat
  BY LenProperties DEF Shape
<1>3. \A k \in Kinds : Len(obj[k]) \in Nat
  BY <1>1, <1>2 DEF Turn, Kinds
<1>4. \A n \in Nat : 0 <= n /\ n + 1 # 0
  OBVIOUS
<1>5. QED
  BY <1>3, <1>4

\* The menu in service has three objects, and a display in its loop has the same.
LEMMA Joint ==
  ASSUME IInv
  PROVE  /\ Serving => \A k \in Kinds : open[Menu][k] \in 1..Len(obj[k])
         /\ \A d \in Displays :
              pc[d] \in Loop => Serving /\ \A k \in Kinds : open[d][k] = open[Menu][k]
<1>1. Serving => pc[Menu] \in InService
  BY DEF Serving, InService
<1>2. \A k \in Kinds : pc[Menu] \in InService => pc[Menu] \in MenuHas(k)
  BY DEF MenuHas, Kinds
<1>3. \A k \in Kinds, d \in Displays : pc[d] \in Loop => pc[d] \in DisplayHas(k)
  BY DEF DisplayHas, Kinds
<1>4. \A k \in Kinds : open[Menu][k] \in Nat /\ open[Menu][k] <= Len(obj[k])
  BY DEF IInv, Shape, Procs
<1>5. \A k \in Kinds : Len(obj[k]) \in Nat
  BY Lengths DEF IInv
<1>6. ASSUME Serving, NEW k \in Kinds PROVE open[Menu][k] \in 1..Len(obj[k])
  BY <1>1, <1>2, <1>4, <1>5, <1>6 DEF IInv, Stages
<1>7. ASSUME NEW d \in Displays, pc[d] \in Loop
      PROVE  Serving /\ \A k \in Kinds : open[d][k] = open[Menu][k]
  <2>1. ~Ended(d) /\ pc[d] # "open_write"
    BY <1>7 DEF Ended, Loop
  <2>2. QED
    BY <2>1, <1>3, <1>7 DEF IInv, Stages
<1>8. QED
  BY <1>6, <1>7

-----------------------------------------------------------------------------
(* The steps of the menu.                                                  *)

\* A menu is started when no display runs, so it need not find its objects.
LEMMA StartInv == ASSUME IInv, Orderly, MenuStart PROVE IInv'
<1>1. \A d \in Displays : Ended(d) /\ pc[d] \in {"off", "done"}
  BY DEF MenuStart, Ended
<1>2. /\ Goto(Menu, "unlink_write") /\ Menu \in Procs /\ Menu \notin Displays
      /\ runs < MaxRuns /\ runs' = runs + 1
      /\ sent' = << >> /\ received' = << >>
      /\ UNCHANGED <<name, obj, open, line>>
  BY ChannelAssumption DEF MenuStart, Procs
<1>3. pc'[Menu] = "unlink_write" /\ \A d \in Displays : pc'[d] = pc[d]
  BY <1>2, Moves DEF IInv, Procs
<1>4. Shape'
  <2>1. /\ pc' \in [Procs -> PCs] /\ pc'[Menu] \in PCs \ {"test"}
        /\ \A d \in Displays :
             pc'[d] \in Loop \cup {"off", "done", "open_write", "open_read", "open_shm"}
    BY <1>2, MovesType DEF IInv, PCs
  <2>2. runs' \in 0..MaxRuns
    <3>1. runs \in 0..MaxRuns /\ MaxRuns \in Nat
      BY ChannelAssumption DEF IInv, Shape
    <3>2. runs < MaxRuns /\ runs' = runs + 1
      BY <1>2
    <3>3. QED
      BY <3>1, <3>2
  <2>3. sent' \in Seq(Lines) /\ received' \in Seq(Lines \cup {Empty})
    BY <1>2, EmptySeq
  <2>4. QED
    BY <1>2, <2>1, <2>2, <2>3 DEF IInv, Shape
<1>5. Stages'
  BY <1>1, <1>3 DEF Stages, Ended, Between, MenuHas, DisplayHas, InService, Loop, Kinds
<1>6. TurnHeld'
  BY <1>3 DEF TurnHeld, Serving, MenuHas, InService
<1>7. Contents'
  <2>1. Len(received') = 0
    BY <1>2, EmptySeq
  <2>2. ~Serving' /\ pc'[Menu] = "unlink_write"
    BY <1>3 DEF Serving
  <2>3. \A d \in Displays : pc'[d] \notin {"post", "test"}
    BY <1>1, <1>3
  <2>4. \A i \in 1..Len(received') : FALSE
    BY <2>1
  <2>5. QED
    BY <1>2, <2>2, <2>3, <2>4 DEF Contents
<1>8. QED
  BY <1>4, <1>5, <1>6, <1>7 DEF IInv

\* Typing a line changes what the menu holds, not what it shows.
LEMMA GetsInv == ASSUME IInv, Gets PROVE IInv'
<1>1. PICK l \in Lines : line' = [line EXCEPT ![Menu] = l]
  BY DEF Gets
<1>2. /\ pc[Menu] = "gets" /\ Goto(Menu, "wait") /\ Menu \in Procs /\ Menu \notin Displays
      /\ UNCHANGED <<name, obj, open, sent, received, runs>>
  BY ChannelAssumption DEF Gets, Procs
<1>3. /\ pc'[Menu] = "wait" /\ \A d \in Displays : pc'[d] = pc[d]
      /\ HasTurn' = HasTurn
  <2>1. HasTurn' = HasTurn \ {Menu} /\ Menu \notin HasTurn
    BY <1>2, Moves DEF IInv, HasTurn
  <2>2. QED
    BY <1>2, <2>1, Moves DEF IInv, Procs
<1>4. line'[Menu] = l /\ \A d \in Displays : line'[d] = line[d]
  BY <1>1, <1>2 DEF IInv, Shape, Procs
<1>5. Serving /\ Serving'
  BY <1>2, <1>3 DEF Serving
<1>6. Shape'
  <2>1. /\ pc' \in [Procs -> PCs] /\ pc'[Menu] \in PCs \ {"test"}
        /\ \A d \in Displays :
             pc'[d] \in Loop \cup {"off", "done", "open_write", "open_read", "open_shm"}
    BY <1>2, MovesType DEF IInv, PCs
  <2>2. line' \in [Procs -> Lines \cup {Empty}]
    BY <1>1 DEF IInv, Shape
  <2>3. QED
    BY <1>2, <2>1, <2>2 DEF IInv, Shape
<1>7. Stages'
  <2>1. \A k \in Kinds : pc[Menu] \in MenuHas(k) /\ pc'[Menu] # Between(k)
    BY <1>2, <1>3 DEF MenuHas, InService, Kinds, Between
  <2>2. QED
    BY <1>2, <1>3, <1>5, <2>1 DEF IInv, Stages, Ended
<1>8. TurnHeld'
  BY <1>2, <1>3, <1>5 DEF IInv, TurnHeld, Value, OneTaken
<1>9. Contents'
  <2>1. Copied' = Copied /\ Memory(Menu)' = Memory(Menu) /\ Latest' = Latest
    BY <1>2, <1>3 DEF Copied, Value, Memory, Latest
  <2>2. \A d \in Displays : Memory(d)' = Memory(d) /\ Alone(d)' = Alone(d)
    BY <1>2 DEF Memory, Alone
  <2>3. QED
    BY <1>2, <1>3, <1>4, <1>5, <2>1, <2>2 DEF IInv, Contents
<1>10. QED
  BY <1>6, <1>7, <1>8, <1>9 DEF IInv

\* While the menu sets up, no display runs.
LEMMA Idle ==
  ASSUME IInv, ~Serving, pc[Menu] # "off"
  PROVE  /\ \A d \in Displays : Ended(d) /\ pc[d] \in {"off", "done"}
         /\ \A d \in Displays, k \in Kinds : pc[d] \notin DisplayHas(k)
<1>1. \A d \in Displays : Ended(d)
  BY DEF IInv, Stages
<1>2. \A d \in Displays : pc[d] \in {"off", "done"}
  BY <1>1 DEF Ended
<1>3. \A d \in Displays, k \in Kinds : pc[d] \notin DisplayHas(k)
  BY <1>2 DEF DisplayHas, Loop
<1>4. QED
  BY <1>1, <1>2, <1>3

\* A name that is unlinked is not one the menu has opened yet.
LEMMA UnlinkInv ==
  ASSUME IInv, NEW k \in Kinds, NEW from, NEW to, MenuUnlink(k, from, to),
         \/ k = "write" /\ from = "unlink_write" /\ to = "open_write"
         \/ k = "read" /\ from = "unlink_read" /\ to = "open_read"
         \/ k = "shm" /\ from = "unlink_shm" /\ to = "open_shm"
  PROVE  IInv'
<1>1. /\ pc[Menu] = from /\ Goto(Menu, to) /\ Menu \in Procs /\ Menu \notin Displays
      /\ name' = [name EXCEPT ![k] = 0]
      /\ UNCHANGED <<obj, open, line, sent, received, runs>>
  BY ChannelAssumption DEF MenuUnlink, Unlink, Procs
<1>2. pc'[Menu] = to /\ \A d \in Displays : pc'[d] = pc[d]
  BY <1>1, Moves DEF IInv, Procs
<1>3. ~Serving /\ pc[Menu] # "off" /\ ~Serving'
  BY <1>1, <1>2 DEF Serving
<1>4. \A j \in Kinds : name'[j] = IF j = k THEN 0 ELSE name[j]
  BY <1>1 DEF IInv, Shape
<1>5. Shape'
  <2>1. /\ pc' \in [Procs -> PCs] /\ pc'[Menu] \in PCs \ {"test"}
        /\ \A d \in Displays :
             pc'[d] \in Loop \cup {"off", "done", "open_write", "open_read", "open_shm"}
    <3>1. to \in PCs /\ to # "test"
      BY DEF PCs
    <3>2. QED
      BY <1>1, <3>1, MovesType DEF IInv
  <2>2. name' \in [Kinds -> Nat] /\ \A j \in Kinds : name'[j] <= Len(obj'[j])
    <3>1. \A j \in Kinds : 0 <= Len(obj[j])
      BY Lengths DEF IInv
    <3>2. name \in [Kinds -> Nat] /\ \A j \in Kinds : name[j] <= Len(obj[j])
      BY DEF IInv, Shape
    <3>3. name' \in [Kinds -> Nat]
      BY <1>1, <3>2
    <3>4. obj' = obj
      BY <1>1
    <3>5. QED
      BY <1>4, <3>1, <3>2, <3>3, <3>4
  <2>3. QED
    BY <1>1, <2>1, <2>2 DEF IInv, Shape
<1>6. Stages'
  <2>1. \A j \in Kinds :
          /\ to = Between(j) => j = k
          /\ to \in MenuHas(j) => j # k /\ from \in MenuHas(j)
    BY DEF Between, MenuHas, InService, Kinds
  <2>2. to # "off"
    OBVIOUS
  <2>3. \A j \in Kinds : to = Between(j) => name'[j] = 0
    BY <1>4, <2>1
  <2>4. \A j \in Kinds : to \in MenuHas(j) => name'[j] = open'[Menu][j] /\ name'[j] # 0
    BY <1>1, <1>4, <2>1 DEF IInv, Stages
  <2>5. \A d \in Displays : Ended(d)' /\ \A j \in Kinds : pc'[d] \notin DisplayHas(j)
    BY <1>2, <1>3, Idle DEF Ended
  <2>6. QED
    BY <1>2, <2>2, <2>3, <2>4, <2>5 DEF Stages
<1>7. TurnHeld'
  <2>1. /\ to \in MenuHas("write") => from \in MenuHas("write")
        /\ to \in MenuHas("read") => from \in MenuHas("read")
    BY DEF MenuHas, InService
  <2>2. Value("write")' = Value("write") /\ Value("read")' = Value("read")
    BY <1>1 DEF Value
  <2>3. QED
    BY <1>1, <1>2, <1>3, <2>1, <2>2 DEF IInv, TurnHeld
<1>8. Contents'
  <2>1. \A d \in Displays : pc'[d] \notin {"post", "test"}
    BY <1>2, <1>3, Idle
  <2>2. to \notin {"wait", "copy", "post"}
    OBVIOUS
  <2>3. QED
    BY <1>1, <1>2, <1>3, <2>1, <2>2 DEF IInv, Contents
<1>9. QED
  BY <1>5, <1>6, <1>7, <1>8 DEF IInv

\* A name that was unlinked gets a new object, so the turn starts with the menu's
\* semaphores as New says, and the contents with the empty line.
LEMMA OpenInv ==
  ASSUME IInv, NEW k \in Kinds, NEW to, MenuOpen(k, Between(k), to),
         \/ k = "write" /\ to = "unlink_read"
         \/ k = "read" /\ to = "unlink_shm"
         \/ k = "shm" /\ to = "gets"
  PROVE  IInv'
<1> DEFINE o == Len(obj[k]) + 1
<1>1. pc[Menu] = Between(k) /\ Menu \in Procs /\ Menu \notin Displays /\ name[k] = 0
  BY ChannelAssumption DEF IInv, Stages, MenuOpen, Procs
<1>2. /\ Goto(Menu, to) /\ name' = [name EXCEPT ![k] = o]
      /\ obj' = [obj EXCEPT ![k] = Append(@, New[k])]
      /\ open' = [open EXCEPT ![Menu] = [@ EXCEPT ![k] = o]]
      /\ UNCHANGED <<line, sent, received, runs>>
  BY <1>1 DEF MenuOpen, OpenOrCreate
<1>3. pc'[Menu] = to /\ \A d \in Displays : pc'[d] = pc[d]
  BY <1>1, <1>2, Moves DEF IInv, Procs
<1>4. ~Serving /\ pc[Menu] # "off"
  BY <1>1 DEF Serving, Between
<1>5. /\ obj' = [j \in Kinds |-> obj'[j]]
      /\ \A j \in Turn : obj'[j] \in Seq({0, 1})
      /\ obj'["shm"] \in Seq(Lines \cup {Empty})
      /\ \A j \in Kinds : Len(obj'[j]) = IF j = k THEN o ELSE Len(obj[j])
      /\ obj'[k][o] = New[k]
      /\ \A j \in Kinds : \A i \in 1..Len(obj[j]) : obj'[j][i] = obj[j][i]
  BY <1>2, ObjectMade DEF IInv
<1>6. \A j \in Kinds : Len(obj[j]) \in Nat /\ Len(obj[j]) + 1 # 0
  BY Lengths DEF IInv
<1>7. /\ \A j \in Kinds : name'[j] = IF j = k THEN o ELSE name[j]
      /\ \A j \in Kinds : open'[Menu][j] = IF j = k THEN o ELSE open[Menu][j]
      /\ \A p \in Procs \ {Menu} : open'[p] = open[p]
      /\ name' \in [Kinds -> Nat] /\ open' \in [Procs -> [Kinds -> Nat]]
  <2>1. name \in [Kinds -> Nat] /\ open \in [Procs -> [Kinds -> Nat]] /\ o \in Nat
    BY <1>6 DEF IInv, Shape
  <2>2. name' = [name EXCEPT ![k] = o] /\ open' = [open EXCEPT ![Menu] = [@ EXCEPT ![k] = o]]
    BY <1>2
  <2> HIDE DEF o
  <2>3. QED
    BY <1>1, <2>1, <2>2
<1>8. Shape'
  <2>1. /\ pc' \in [Procs -> PCs] /\ pc'[Menu] \in PCs \ {"test"}
        /\ \A d \in Displays :
             pc'[d] \in Loop \cup {"off", "done", "open_write", "open_read", "open_shm"}
    <3>1. to \in PCs /\ to # "test"
      BY DEF PCs
    <3>2. QED
      BY <1>1, <1>2, <3>1, MovesType DEF IInv
  <2>2. ASSUME NEW j \in Kinds
        PROVE  /\ name'[j] <= Len(obj'[j])
               /\ \A p \in Procs : open'[p][j] <= Len(obj'[j])
    <3>1. /\ name[j] <= Len(obj[j]) /\ name[j] \in Nat
          /\ \A p \in Procs : open[p][j] <= Len(obj[j]) /\ open[p][j] \in Nat
      BY DEF IInv, Shape
    <3>2. Len(obj[j]) \in Nat /\ Len(obj'[j]) = IF j = k THEN o ELSE Len(obj[j])
      BY <1>5, <1>6
    <3>3. \A p \in Procs : open'[p][j] = IF p = Menu /\ j = k THEN o ELSE open[p][j]
      BY <1>7
    <3>4. name'[j] = (IF j = k THEN o ELSE name[j]) /\ Len(obj[j]) <= Len(obj'[j])
      BY <1>7, <3>2
    <3>5. name'[j] <= Len(obj'[j])
      BY <3>1, <3>2, <3>4
    <3>6. ASSUME NEW p \in Procs PROVE open'[p][j] <= Len(obj'[j])
      <4>1. CASE p = Menu /\ j = k
        BY <3>2, <3>3, <4>1
      <4>2. CASE ~(p = Menu /\ j = k)
        <5>1. open'[p][j] = open[p][j]
          BY <3>3, <4>2
        <5>2. QED
          BY <3>1, <3>2, <3>4, <5>1
      <4>3. QED
        BY <4>1, <4>2
    <3>7. QED
      BY <3>5, <3>6
  <2>3. QED
    BY <1>2, <1>5, <1>7, <2>1, <2>2 DEF IInv, Shape
<1>9. Stages'
  <2>1. \A j \in Kinds :
          /\ to # Between(j)
          /\ to \in MenuHas(j) => j = k \/ Between(k) \in MenuHas(j)
    BY DEF Between, MenuHas, InService, Kinds
  <2>2. to # "off" /\ o # 0
    BY <1>6
  <2>3. \A j \in Kinds : to \in MenuHas(j) => name'[j] = open'[Menu][j] /\ name'[j] # 0
    <3> SUFFICES ASSUME NEW j \in Kinds, to \in MenuHas(j)
                 PROVE  name'[j] = open'[Menu][j] /\ name'[j] # 0
        OBVIOUS
    <3>1. CASE j = k
      BY <1>7, <2>2, <3>1
    <3>2. CASE j # k
      BY <1>1, <1>7, <2>1, <3>2 DEF IInv, Stages
    <3>3. QED
      BY <3>1, <3>2
  <2>4. \A d \in Displays : Ended(d)' /\ \A j \in Kinds : pc'[d] \notin DisplayHas(j)
    BY <1>3, <1>4, Idle DEF Ended
  <2>5. QED
    BY <1>3, <2>1, <2>2, <2>3, <2>4 DEF Stages
<1>10. \A j \in Kinds : j # k /\ Between(k) \in MenuHas(j) =>
         obj'[j][open'[Menu][j]] = obj[j][open[Menu][j]]
  <2> SUFFICES ASSUME NEW j \in Kinds, j # k, Between(k) \in MenuHas(j)
               PROVE  obj'[j][open'[Menu][j]] = obj[j][open[Menu][j]]
      OBVIOUS
  <2>1. open[Menu][j] # 0 /\ open[Menu][j] \in Nat /\ open[Menu][j] <= Len(obj[j])
    BY <1>1 DEF IInv, Stages, Shape
  <2>2. open[Menu][j] \in 1..Len(obj[j])
    BY <1>6, <2>1
  <2>3. QED
    BY <1>5, <1>7, <2>2
<1>11. /\ to \in MenuHas("write") => Value("write")' = 0
       /\ to \in MenuHas("read") => Value("read")' = 1
  <2>1. New["write"] = 0 /\ New["read"] = 1
    BY DEF New
  <2>2. /\ k = "write" => Value("write")' = 0
        /\ k = "read" => Value("read")' = 1
    BY <1>5, <1>7, <2>1 DEF Value
  <2>3. /\ to \in MenuHas("write") /\ k # "write" =>
             Between(k) \in MenuHas("write") /\ "write" \in Kinds
        /\ to \in MenuHas("read") /\ k # "read" =>
             Between(k) \in MenuHas("read") /\ "read" \in Kinds
    BY DEF MenuHas, Between, InService, Kinds
  <2>4. /\ Between(k) \in MenuHas("write") => Value("write") = 0
        /\ Between(k) \in MenuHas("read") => Value("read") = 1
    BY <1>1, <1>4 DEF IInv, TurnHeld
  <2>5. /\ to \in MenuHas("write") /\ k # "write" => Value("write")' = 0
        /\ to \in MenuHas("read") /\ k # "read" => Value("read")' = 1
    BY <1>10, <2>3, <2>4 DEF Value
  <2>6. QED
    BY <2>2, <2>5
<1>12. Serving' <=> k = "shm"
  BY <1>3 DEF Serving
<1>13. HasTurn' = {}
  BY <1>3, <1>4, Idle DEF HasTurn, Procs
<1>14. TurnHeld'
  <2>1. k = "shm" => to \in MenuHas("write") /\ to \in MenuHas("read")
    BY DEF MenuHas, InService
  <2>2. k = "shm" => Value("write")' + Value("read")' = 1
    BY <1>11, <2>1
  <2>3. QED
    BY <1>3, <1>11, <1>12, <1>13, <2>2 DEF TurnHeld
<1>15. Contents'
  <2>1. \A d \in Displays : pc'[d] \notin {"post", "test"}
    BY <1>3, <1>4, Idle
  <2>2. sent = << >> /\ received = << >>
    BY <1>4 DEF IInv, Contents
  <2>3. k = "shm" => Value("write")' = 0 /\ Memory(Menu)' = Empty
    <3>1. k = "shm" => to \in MenuHas("write")
      BY DEF MenuHas, InService
    <3>2. k = "shm" => New[k] = Empty
      BY DEF New
    <3>3. QED
      BY <1>5, <1>7, <1>11, <3>1, <3>2 DEF Memory
  <2>4. k = "shm" => ~Copied'
    BY <1>3, <2>1, <2>3 DEF Copied
  <2>5. Len(sent') = 0 /\ Len(received') = 0 /\ \A i \in 1..Len(received') : FALSE
    <3>1. sent' = << >> /\ received' = << >>
      BY <1>2, <2>2
    <3>2. Len(sent') = 0 /\ Len(received') = 0
      BY <3>1, EmptySeq
    <3>3. QED
      BY <3>2
  <2>6. Latest' = Empty
    BY <1>2, <2>2 DEF Latest
  <2>7. to \notin {"wait", "copy", "post"}
    OBVIOUS
  <2>8. sent' = << >> /\ received' = << >>
    BY <1>2, <2>2
  <2>9. QED
    BY <1>3, <1>12, <2>1, <2>3, <2>4, <2>5, <2>6, <2>7, <2>8 DEF Contents
<1>16. QED
  BY <1>8, <1>9, <1>14, <1>15 DEF IInv

\* A step of the menu or of a display in service leaves names and objects where
\* they are.
LEMMA StaysInStage ==
  ASSUME IInv, Serving, Serving', pc'[Menu] # "off",
         UNCHANGED <<name, open>>,
         \A d \in Displays : pc'[d] \in Loop => pc[d] \in Loop,
         \A d \in Displays : pc'[d] \notin Loop => pc'[d] = pc[d] \/ pc'[d] = "done"
  PROVE  Stages'
<1>1. \A k \in Kinds : pc[Menu] \in MenuHas(k) /\ pc'[Menu] # Between(k)
  BY DEF Serving, MenuHas, InService, Between
<1>2. \A k \in Kinds : name'[k] = open'[Menu][k] /\ name'[k] # 0
  BY <1>1 DEF IInv, Stages
<1>3. ASSUME NEW d \in Displays, NEW k \in Kinds, pc'[d] \in DisplayHas(k)
      PROVE  open'[d][k] = open'[Menu][k]
  <2>1. CASE pc'[d] \in Loop
    BY <2>1, Joint
  <2>2. CASE pc'[d] \notin Loop
    <3>1. pc'[d] = pc[d]
      BY <1>3, <2>2 DEF DisplayHas, Loop
    <3>2. QED
      BY <1>3, <3>1 DEF IInv, Stages
  <2>3. QED
    BY <2>1, <2>2
<1>4. QED
  BY <1>1, <1>2, <1>3 DEF Stages

\* The value of a semaphore of the menu is 0 or 1.
LEMMA Values ==
  ASSUME IInv, Serving
  PROVE  \A k \in Turn : open[Menu][k] \in 1..Len(obj[k]) /\ Value(k) \in {0, 1}
<1> SUFFICES ASSUME NEW k \in Turn
             PROVE  open[Menu][k] \in 1..Len(obj[k]) /\ Value(k) \in {0, 1}
    OBVIOUS
<1>1. open[Menu][k] \in 1..Len(obj[k])
  BY Joint DEF Turn, Kinds
<1>2. obj[k] \in Seq({0, 1})
  BY DEF IInv, Shape
<1>3. QED
  BY <1>1, <1>2, ElementOfSeq DEF Value

\* Who waits successfully takes the one turn there is,
LEMMA TakesTurn ==
  ASSUME IInv, Serving, NEW p \in Procs, NEW k \in Turn, NEW l, SemWait(p, k, l),
         open[p][k] = open[Menu][k]
  PROVE  /\ HasTurn = {} /\ Value(k) = 1 /\ \A j \in Turn : j # k => Value(j) = 0
         /\ \A j \in Turn : Value(j)' = 0
         /\ obj' = [j \in Kinds |-> obj'[j]]
         /\ \A j \in Turn : obj'[j] \in Seq({0, 1})
         /\ obj'["shm"] = obj["shm"]
         /\ \A j \in Kinds : Len(obj'[j]) = Len(obj[j])
<1> DEFINE o == open[Menu][k]
<1>1. /\ obj[k][o] > 0 /\ open' = open
      /\ obj' = [obj EXCEPT ![k][o] = obj[k][o] - 1]
  BY DEF SemWait
<1>2. HasTurn = {} /\ Value(k) = 1 /\ \A j \in Turn : j # k => Value(j) = 0
  <2>1. Value(k) > 0
    BY <1>1 DEF Value
  <2>2. Value("write") \in {0, 1} /\ Value("read") \in {0, 1}
    BY Values DEF Turn
  <2>3. HasTurn = {} /\ Value("write") + Value("read") = 1
    BY <2>1, <2>2 DEF IInv, TurnHeld, Turn
  <2>4. QED
    BY <2>1, <2>2, <2>3 DEF Turn
<1>3. obj' = [obj EXCEPT ![k] = [@ EXCEPT ![o] = 0]]
  <2>1. obj[k][o] - 1 = 0
    BY <1>2 DEF Value
  <2>2. QED
    BY <1>1, <2>1
<1>4. o \in 1..Len(obj[k])
  BY Values
<1>5. /\ obj' = [j \in Kinds |-> obj'[j]]
      /\ \A j \in Turn : obj'[j] \in Seq({0, 1})
      /\ obj'["shm"] = obj["shm"]
      /\ \A j \in Kinds : Len(obj'[j]) = Len(obj[j])
      /\ \A j \in Turn : \A i \in 1..Len(obj[j]) :
           obj'[j][i] = IF j = k /\ i = o THEN 0 ELSE obj[j][i]
  BY <1>3, <1>4, SemaphoreSet DEF IInv
<1>6. \A j \in Turn : Value(j)' = 0
  BY <1>1, <1>2, <1>5, Values DEF Value
<1>7. QED
  BY <1>2, <1>5, <1>6

\* and who posts gives it back.
LEMMA GivesTurn ==
  ASSUME IInv, Serving, NEW p \in HasTurn, NEW k \in Turn, NEW l, SemPost(p, k, l),
         open[p][k] = open[Menu][k]
  PROVE  /\ HasTurn = {p} /\ \A j \in Turn : Value(j) = 0
         /\ \A j \in Turn : Value(j)' = IF j = k THEN 1 ELSE 0
         /\ obj' = [j \in Kinds |-> obj'[j]]
         /\ \A j \in Turn : obj'[j] \in Seq({0, 1})
         /\ obj'["shm"] = obj["shm"]
         /\ \A j \in Kinds : Len(obj'[j]) = Len(obj[j])
<1> DEFINE o == open[Menu][k]
<1>1. open' = open /\ obj' = [obj EXCEPT ![k][o] = obj[k][o] + 1]
  BY DEF SemPost
<1>2. HasTurn = {p} /\ \A j \in Turn : Value(j) = 0
  BY DEF IInv, TurnHeld, OneTaken, Turn
<1>3. obj' = [obj EXCEPT ![k] = [@ EXCEPT ![o] = 1]]
  <2>1. obj[k][o] + 1 = 1
    BY <1>2 DEF Value
  <2>2. QED
    BY <1>1, <2>1
<1>4. o \in 1..Len(obj[k])
  BY Values
<1>5. /\ obj' = [j \in Kinds |-> obj'[j]]
      /\ \A j \in Turn : obj'[j] \in Seq({0, 1})
      /\ obj'["shm"] = obj["shm"]
      /\ \A j \in Kinds : Len(obj'[j]) = Len(obj[j])
      /\ \A j \in Turn : \A i \in 1..Len(obj[j]) :
           obj'[j][i] = IF j = k /\ i = o THEN 1 ELSE obj[j][i]
  BY <1>3, <1>4, SemaphoreSet DEF IInv
<1>6. \A j \in Turn : Value(j)' = IF j = k THEN 1 ELSE 0
  BY <1>1, <1>2, <1>5, Values DEF Value
<1>7. QED
  BY <1>2, <1>5, <1>6

\* A call on a semaphore changes no other part of the state.
LEMMA SemaphoreShape ==
  ASSUME IInv, NEW p \in Procs, NEW l \in PCs, Goto(p, l),
         p = Menu => l # "test",
         p \in Displays => l \in Loop \cup {"off", "done", "open_write", "open_read", "open_shm"},
         obj' = [j \in Kinds |-> obj'[j]],
         \A j \in Turn : obj'[j] \in Seq({0, 1}),
         obj'["shm"] = obj["shm"],
         \A j \in Kinds : Len(obj'[j]) = Len(obj[j]),
         UNCHANGED <<name, open, line, sent, received, runs>>
  PROVE  Shape'
<1>1. /\ pc' \in [Procs -> PCs] /\ pc'[Menu] \in PCs \ {"test"}
      /\ \A d \in Displays :
           pc'[d] \in Loop \cup {"off", "done", "open_write", "open_read", "open_shm"}
  BY MovesType DEF IInv
<1>2. QED
  BY <1>1 DEF IInv, Shape

\* The menu takes the turn: what it will overwrite has been copied.
LEMMA MenuWaitInv == ASSUME IInv, MenuWait PROVE IInv'
<1>1. /\ pc[Menu] = "wait" /\ Goto(Menu, "copy") /\ SemWait(Menu, "write", "copy")
      /\ UNCHANGED <<name, open, line, sent, received, runs>>
  BY DEF MenuWait, SemWait
<1>2. Menu \in Procs /\ Menu \notin Displays /\ Displays \subseteq Procs /\ Serving
  BY <1>1, ChannelAssumption DEF Procs, Serving
<1>3. /\ pc'[Menu] = "copy" /\ \A d \in Displays : pc'[d] = pc[d]
      /\ HasTurn' = HasTurn \cup {Menu}
  BY <1>1, <1>2, Moves DEF IInv
<1>4. /\ HasTurn = {} /\ Value("write") = 1
      /\ Value("write")' = 0 /\ Value("read")' = 0
      /\ obj' = [j \in Kinds |-> obj'[j]]
      /\ \A j \in Turn : obj'[j] \in Seq({0, 1})
      /\ obj'["shm"] = obj["shm"]
      /\ \A j \in Kinds : Len(obj'[j]) = Len(obj[j])
  BY <1>1, <1>2, TakesTurn DEF Turn
<1>5. Serving'
  BY <1>3 DEF Serving
<1>6. Shape'
  BY <1>1, <1>2, <1>4, SemaphoreShape DEF PCs
<1>7. Stages'
  BY <1>1, <1>2, <1>3, <1>5, StaysInStage
<1>8. TurnHeld'
  BY <1>2, <1>3, <1>4, <1>5 DEF TurnHeld, OneTaken
<1>9. Contents'
  <2>1. Copied /\ Copied'
    BY <1>3, <1>4 DEF Copied
  <2>2. Latest' = Latest /\ \A p \in Procs : Memory(p)' = Memory(p)
    BY <1>1, <1>4 DEF Latest, Memory
  <2>3. \A d \in Displays : pc'[d] = "test" => obj'["write"][open'[d]["write"]] = 0
    BY <1>1, <1>3, <1>4, Joint DEF Value, Loop, Kinds
  <2>4. QED
    BY <1>1, <1>2, <1>3, <1>5, <2>1, <2>2, <2>3 DEF IInv, Contents
<1>10. QED
  BY <1>6, <1>7, <1>8, <1>9 DEF IInv

\* The menu hands the turn to the displays.
LEMMA MenuPostInv == ASSUME IInv, MenuPost PROVE IInv'
<1>1. PICK l \in {"done", "gets"} :
        /\ pc[Menu] = "post" /\ Goto(Menu, l) /\ SemPost(Menu, "read", l)
        /\ UNCHANGED <<name, open, line, sent, received, runs>>
  BY DEF MenuPost, SemPost
<1>2. /\ Menu \in Procs /\ Menu \notin Displays /\ Displays \subseteq Procs
      /\ Serving /\ Menu \in HasTurn
  BY <1>1, ChannelAssumption DEF Procs, Serving, HasTurn
<1>3. /\ pc'[Menu] = l /\ \A d \in Displays : pc'[d] = pc[d]
      /\ HasTurn' = HasTurn \ {Menu}
  BY <1>1, <1>2, Moves DEF IInv
<1>4. /\ HasTurn = {Menu} /\ Value("write") = 0
      /\ Value("write")' = 0 /\ Value("read")' = 1
      /\ obj' = [j \in Kinds |-> obj'[j]]
      /\ \A j \in Turn : obj'[j] \in Seq({0, 1})
      /\ obj'["shm"] = obj["shm"]
      /\ \A j \in Kinds : Len(obj'[j]) = Len(obj[j])
  BY <1>1, <1>2, GivesTurn DEF Turn
<1>5. Serving'
  BY <1>3 DEF Serving
<1>6. Shape'
  BY <1>1, <1>2, <1>4, SemaphoreShape DEF PCs
<1>7. Stages'
  BY <1>1, <1>2, <1>3, <1>5, StaysInStage
<1>8. TurnHeld'
  <2>1. HasTurn' = {}
    BY <1>3, <1>4
  <2>2. QED
    BY <1>4, <1>5, <2>1 DEF TurnHeld
<1>9. Contents'
  <2>1. ~Copied /\ ~Copied'
    <3>1. \A d \in Displays : pc[d] # "post"
      BY <1>2, <1>4 DEF HasTurn
    <3>2. QED
      BY <1>1, <1>3, <1>4, <3>1 DEF Copied
  <2>2. Latest' = Latest /\ \A p \in Procs : Memory(p)' = Memory(p)
    BY <1>1, <1>4 DEF Latest, Memory
  <2>3. \A d \in Displays : pc'[d] = "test" => obj'["write"][open'[d]["write"]] = 0
    BY <1>1, <1>3, <1>4, Joint DEF Value, Loop, Kinds
  <2>4. QED
    BY <1>1, <1>2, <1>3, <1>5, <2>1, <2>2, <2>3 DEF IInv, Contents
<1>10. QED
  BY <1>6, <1>7, <1>8, <1>9 DEF IInv

\* The menu writes with the turn, so no display is copying or has yet to post.
LEMMA MenuCopyInv == ASSUME IInv, MenuCopy PROVE IInv'
<1> DEFINE o == open[Menu]["shm"]
<1>1. /\ pc[Menu] = "copy" /\ Goto(Menu, "post")
      /\ obj' = [obj EXCEPT !["shm"] = [@ EXCEPT ![o] = line[Menu]]]
      /\ sent' = Append(sent, line[Menu])
      /\ UNCHANGED <<name, open, line, received, runs>>
  BY DEF MenuCopy
<1>2. /\ Menu \in Procs /\ Menu \notin Displays /\ Displays \subseteq Procs
      /\ Serving /\ Menu \in HasTurn
  BY <1>1, ChannelAssumption DEF Procs, Serving, HasTurn
<1>3. /\ pc'[Menu] = "post" /\ \A d \in Displays : pc'[d] = pc[d]
      /\ HasTurn' = HasTurn \cup {Menu}
  BY <1>1, <1>2, Moves DEF IInv
<1>4. HasTurn = {Menu} /\ Value("write") = 0 /\ Value("read") = 0
  BY <1>2 DEF IInv, TurnHeld, OneTaken
<1>5. line[Menu] \in Lines
  BY <1>1 DEF IInv, Contents
<1>6. o \in 1..Len(obj["shm"])
  BY <1>2, Joint DEF Kinds
<1>7. /\ obj' = [j \in Kinds |-> obj'[j]]
      /\ \A j \in Turn : obj'[j] = obj[j]
      /\ obj'["shm"] \in Seq(Lines \cup {Empty})
      /\ Len(obj'["shm"]) = Len(obj["shm"])
      /\ \A i \in 1..Len(obj["shm"]) : obj'["shm"][i] = IF i = o THEN line[Menu] ELSE obj["shm"][i]
  <2>1. Shape /\ line[Menu] \in Lines \cup {Empty}
    BY <1>5 DEF IInv
  <2>2. obj' = [obj EXCEPT !["shm"] = [@ EXCEPT ![o] = line[Menu]]]
    BY <1>1
  <2>3. QED
    BY <1>6, <2>1, <2>2, MemorySet
<1>8. /\ sent \in Seq(Lines) /\ Len(sent) \in Nat
      /\ sent' \in Seq(Lines) /\ Len(sent') = Len(sent) + 1 /\ sent' # << >>
      /\ sent'[Len(sent) + 1] = line[Menu]
      /\ \A i \in 1..Len(sent) : sent'[i] = sent[i]
  <2>1. sent \in Seq(Lines)
    BY DEF IInv, Shape
  <2>2. Len(sent) \in Nat
    BY <2>1, LenProperties
  <2>3. QED
    BY <1>1, <1>5, <2>1, <2>2, AppendProperties
<1>9. Serving'
  BY <1>3 DEF Serving
<1>10. Shape'
  <2>1. /\ pc' \in [Procs -> PCs] /\ pc'[Menu] \in PCs \ {"test"}
        /\ \A d \in Displays :
             pc'[d] \in Loop \cup {"off", "done", "open_write", "open_read", "open_shm"}
    BY <1>1, <1>2, MovesType DEF IInv, PCs
  <2>2. \A j \in Turn : obj'[j] \in Seq({0, 1})
    BY <1>7 DEF IInv, Shape
  <2>3. \A j \in Kinds : Len(obj'[j]) = Len(obj[j])
    BY <1>7 DEF Kinds, Turn
  <2>4. QED
    BY <1>1, <1>7, <1>8, <2>1, <2>2, <2>3 DEF IInv, Shape
<1>11. Stages'
  BY <1>1, <1>2, <1>3, <1>9, StaysInStage
<1>12. Value("write")' = 0 /\ Value("read")' = 0
  BY <1>1, <1>4, <1>7 DEF Value, Turn
<1>13. TurnHeld'
  BY <1>2, <1>3, <1>4, <1>9, <1>12 DEF TurnHeld, OneTaken
<1>14. Contents'
  <2>1. \A d \in Displays : pc[d] # "post"
    BY <1>2, <1>4 DEF HasTurn
  <2>2. Copied /\ ~Copied'
    BY <1>1, <1>3, <1>12, <2>1 DEF Copied
  <2>3. Memory(Menu)' = line[Menu] /\ Latest' = line[Menu]
    BY <1>1, <1>6, <1>7, <1>8 DEF Memory, Latest
  <2>4. Len(received) = Len(sent) + 1
    BY <1>2, <2>2 DEF IInv, Contents
  <2>5. Len(received') = Len(sent')
    BY <1>1, <1>8, <2>4
  <2>6. ASSUME NEW i \in 1..Len(received')
        PROVE  received'[i] = IF i = 1 THEN Empty ELSE sent'[i - 1]
    <3>1. i \in 1..Len(received) /\ received' = received
      BY <1>1, <2>6
    <3>2. received[i] = IF i = 1 THEN Empty ELSE sent[i - 1]
      BY <3>1 DEF IInv, Contents
    <3>3. CASE i = 1
      BY <3>1, <3>2, <3>3
    <3>4. CASE i # 1
      <4>1. i - 1 \in 1..Len(sent)
        BY <1>8, <2>4, <3>1, <3>4
      <4>2. QED
        BY <1>8, <3>1, <3>2, <3>4, <4>1
    <3>5. QED
      BY <3>3, <3>4
  <2>7. \A d \in Displays : pc'[d] = "test" => obj'["write"][open'[d]["write"]] = 0
    BY <1>1, <1>3, <1>12, Joint DEF Value, Loop, Kinds
  <2>8. pc'[Menu] = "post" /\ line'[Menu] \in Lines
    BY <1>1, <1>3, <1>5
  <2>9. \A d \in Displays : pc'[d] # "post"
    BY <1>3, <2>1
  <2>10. Memory(Menu)' = Latest'
    BY <2>3
  <2>11. Len(received') = Len(sent') + (IF Copied' THEN 1 ELSE 0)
    BY <1>8, <2>2, <2>5
  <2>12. QED
    BY <1>9, <2>6, <2>7, <2>8, <2>9, <2>10, <2>11 DEF Contents
<1>15. QED
  BY <1>10, <1>11, <1>13, <1>14 DEF IInv

-----------------------------------------------------------------------------
(* The steps of a display.                                                 *)

\* A step of a display that touches no object and takes no turn
LEMMA QuietDisplay ==
  ASSUME IInv, NEW d \in Displays, NEW l, Goto(d, l),
         l \in {"done", "open_write", "open_read", "open_shm", "wait"},
         pc[d] \notin {"copy", "post"},
         UNCHANGED <<name, obj, sent, received, runs>>,
         open' \in [Procs -> [Kinds -> Nat]],
         \A p \in Procs, k \in Kinds : open'[p][k] <= Len(obj'[k]),
         \A p \in Procs \ {d} : open'[p] = open[p] /\ line'[p] = line[p],
         line' \in [Procs -> Lines \cup {Empty}],
         open'[d]["shm"] = open[d]["shm"] \/ open'[d]["shm"] = name["shm"],
         l # "done" => Serving \/ (pc[Menu] = "off" /\ l = "open_write"),
         \A k \in Kinds : l \in DisplayHas(k) => open'[d][k] = open[Menu][k]
  PROVE  IInv'
<1>1. /\ d \in Procs /\ d # Menu /\ Menu \in Procs /\ Displays \subseteq Procs
      /\ l \in PCs \ {"test"}
      /\ l \in Loop \cup {"off", "done", "open_write", "open_read", "open_shm"}
  BY ChannelAssumption DEF Procs, PCs, Loop
<1>2. /\ pc'[d] = l /\ pc'[Menu] = pc[Menu]
      /\ \A e \in Displays \ {d} : pc'[e] = pc[e]
      /\ HasTurn' = HasTurn
  <2>1. HasTurn' = HasTurn \ {d} /\ d \notin HasTurn
    BY <1>1, Moves DEF IInv, HasTurn
  <2>2. QED
    BY <1>1, <2>1, Moves DEF IInv
<1>3. open'[Menu] = open[Menu] /\ line'[Menu] = line[Menu]
  BY <1>1
<1>4. (Serving' <=> Serving) /\ Value("write")' = Value("write") /\ Value("read")' = Value("read")
  BY <1>2, <1>3 DEF Serving, Value
<1>5. Shape'
  <2>1. /\ pc' \in [Procs -> PCs] /\ pc'[Menu] \in PCs \ {"test"}
        /\ \A e \in Displays :
             pc'[e] \in Loop \cup {"off", "done", "open_write", "open_read", "open_shm"}
    BY <1>1, MovesType DEF IInv
  <2>2. QED
    BY <2>1 DEF IInv, Shape
<1>6. Stages'
  <2>1. \A e \in Displays :
          ~Ended(e)' => Serving' \/ (pc'[Menu] = "off" /\ pc'[e] = "open_write")
    <3>1. ASSUME NEW e \in Displays \ {d}
          PROVE  ~Ended(e)' => Serving' \/ (pc'[Menu] = "off" /\ pc'[e] = "open_write")
      BY <1>2, <1>4 DEF IInv, Stages, Ended
    <3>2. ~Ended(d)' => Serving' \/ (pc'[Menu] = "off" /\ pc'[d] = "open_write")
      BY <1>2, <1>4 DEF Ended
    <3>3. QED
      BY <3>1, <3>2
  <2>2. \A e \in Displays, k \in Kinds : pc'[e] \in DisplayHas(k) => open'[e][k] = open'[Menu][k]
    <3>1. ASSUME NEW e \in Displays \ {d}, NEW k \in Kinds, pc'[e] \in DisplayHas(k)
          PROVE  open'[e][k] = open'[Menu][k]
      <4>1. pc'[e] = pc[e] /\ open'[e] = open[e] /\ open'[Menu] = open[Menu] /\ e \in Displays
        BY <1>1, <1>2, <1>3
      <4>2. pc[e] \in DisplayHas(k)
        BY <3>1, <4>1
      <4>3. open[e][k] = open[Menu][k]
        BY <4>1, <4>2 DEF IInv, Stages
      <4>4. QED
        BY <4>1, <4>3
    <3>2. ASSUME NEW k \in Kinds, pc'[d] \in DisplayHas(k)
          PROVE  open'[d][k] = open'[Menu][k]
      BY <1>2, <1>3, <3>2
    <3>3. QED
      BY <3>1, <3>2
  <2>3. QED
    BY <1>2, <1>3, <2>1, <2>2 DEF IInv, Stages
<1>7. TurnHeld'
  BY <1>1, <1>2, <1>4 DEF IInv, TurnHeld, OneTaken
<1>8. Contents'
  <2>1. /\ Copied' <=> Copied
        /\ Latest' = Latest /\ \A e \in Procs \ {d} : Memory(e)' = Memory(e)
    <3>1. l # "post" /\ pc[d] # "post"
      OBVIOUS
    <3>2. Copied' <=> Copied
      BY <1>2, <1>4, <3>1 DEF Copied
    <3>3. Latest' = Latest /\ \A e \in Procs \ {d} : Memory(e)' = Memory(e)
      BY DEF Latest, Memory
    <3>4. QED
      BY <3>2, <3>3
  <2>2. ASSUME NEW e \in Displays, pc'[e] = "post" PROVE line'[e] = Memory(e)'
    <3>1. e # d /\ pc[e] = "post"
      BY <1>2, <2>2
    <3>2. QED
      BY <1>1, <2>1, <3>1 DEF IInv, Contents
  <2>3. ASSUME NEW e \in Displays, pc'[e] = "test",
               obj'["write"][open'[e]["write"]] = 1, Alone(e)'
        PROVE  line'[e] = Memory(e)'
    <3>1. e # d /\ pc[e] = "test" /\ open'[e] = open[e] /\ line'[e] = line[e]
      BY <1>1, <1>2, <2>3
    <3>2. open[e]["shm"] = name["shm"]
      <4>1. open[e]["shm"] = open[Menu]["shm"] /\ Serving
        BY <3>1, Joint DEF Loop, Kinds
      <4>2. pc[Menu] \in MenuHas("shm") /\ "shm" \in Kinds
        BY <4>1 DEF Serving, MenuHas, InService, Kinds
      <4>3. QED
        BY <4>1, <4>2 DEF IInv, Stages
    <3>3. Alone(e)
      <4>1. open'[d]["shm"] # open[e]["shm"]
        BY <2>3, <3>1 DEF Alone
      <4>2. open'[d]["shm"] = open[d]["shm"]
        BY <3>2, <4>1
      <4>3. QED
        BY <1>1, <2>3, <3>1, <4>2 DEF Alone
    <3>4. line[e] = Memory(e)
      BY <2>3, <3>1, <3>3 DEF IInv, Contents
    <3>5. QED
      BY <1>1, <2>1, <3>1, <3>4
  <2>4. QED
    BY <1>2, <1>3, <1>4, <2>1, <2>2, <2>3, <1>1 DEF IInv, Contents
<1>9. QED
  BY <1>5, <1>6, <1>7, <1>8 DEF IInv

\* What a display finds under a name while the menu is in service
LEMMA Found ==
  ASSUME IInv
  PROVE  /\ Serving => \A k \in Kinds : name[k] = open[Menu][k] /\ name[k] # 0
         /\ open \in [Procs -> [Kinds -> Nat]]
         /\ \A k \in Kinds : name[k] \in Nat /\ name[k] <= Len(obj[k])
         /\ \A p \in Procs, k \in Kinds : open[p][k] <= Len(obj[k])
<1>1. ASSUME Serving, NEW k \in Kinds PROVE name[k] = open[Menu][k] /\ name[k] # 0
  <2>1. pc[Menu] \in MenuHas(k)
    BY <1>1 DEF Serving, MenuHas, InService
  <2>2. QED
    BY <2>1 DEF IInv, Stages
<1>2. QED
  BY <1>1 DEF IInv, Shape

\* A display is started when the menu is in service, or finds no name.
LEMMA DisplayStartInv ==
  ASSUME IInv, Orderly, NEW d \in Displays, DisplayStart(d) PROVE IInv'
<1>1. /\ pc[d] \in {"off", "done"} /\ (Serving \/ pc[Menu] = "off") /\ Goto(d, "open_write")
      /\ line' = [line EXCEPT ![d] = Empty]
      /\ UNCHANGED <<name, obj, open, sent, received, runs>>
  BY DEF DisplayStart, Ended
<1>2. line \in [Procs -> Lines \cup {Empty}] /\ d \in Procs
  BY DEF IInv, Shape, Procs
<1>3. /\ line' \in [Procs -> Lines \cup {Empty}]
      /\ \A p \in Procs \ {d} : open'[p] = open[p] /\ line'[p] = line[p]
  BY <1>1, <1>2
<1>4. \A k \in Kinds : "open_write" \notin DisplayHas(k)
  BY DEF DisplayHas, Loop
<1>5. /\ open' \in [Procs -> [Kinds -> Nat]]
      /\ \A p \in Procs, k \in Kinds : open'[p][k] <= Len(obj'[k])
  BY <1>1, Found
<1>6. open'[d]["shm"] = open[d]["shm"] /\ pc[d] \notin {"copy", "post"}
  BY <1>1
<1>7. UNCHANGED <<name, obj, sent, received, runs>>
  BY <1>1
<1>8. QED
  BY <1>1, <1>3, <1>4, <1>5, <1>6, <1>7, QuietDisplay

\* A display that finds a name gets the menu's object.
LEMMA OpenSemInv ==
  ASSUME IInv, NEW d \in Displays, NEW k \in Turn, NEW from, NEW to,
         DisplayOpenSem(d, k, from, to),
         \/ k = "write" /\ from = "open_write" /\ to = "open_read"
         \/ k = "read" /\ from = "open_read" /\ to = "open_shm"
  PROVE  IInv'
<1> DEFINE l == IF name[k] = 0 THEN "done" ELSE to
<1>1. /\ pc[d] = from /\ Goto(d, l) /\ open' = [open EXCEPT ![d] = [@ EXCEPT ![k] = name[k]]]
      /\ UNCHANGED <<name, obj, line, sent, received, runs>>
  BY DEF DisplayOpenSem
<1>2. d \in Procs /\ k \in Kinds /\ "shm" \in Kinds /\ k # "shm"
  BY DEF Procs, Turn, Kinds
<1>3. /\ open' \in [Procs -> [Kinds -> Nat]]
      /\ \A p \in Procs \ {d} : open'[p] = open[p]
      /\ \A j \in Kinds : open'[d][j] = IF j = k THEN name[k] ELSE open[d][j]
  BY <1>1, <1>2, Found
<1>4. \A p \in Procs, j \in Kinds : open'[p][j] <= Len(obj'[j])
  <2> SUFFICES ASSUME NEW p \in Procs, NEW j \in Kinds PROVE open'[p][j] <= Len(obj[j])
      BY <1>1
  <2>1. open'[p][j] = open[p][j] \/ open'[p][j] = name[j]
    BY <1>3
  <2>2. QED
    BY <2>1, Found
<1>5. name[k] # 0 => Serving
  <2>1. pc[Menu] = "off" => name[k] = 0
    BY <1>2 DEF IInv, Stages
  <2>2. ~Ended(d)
    BY <1>1 DEF Ended
  <2>3. QED
    BY <2>1, <2>2 DEF IInv, Stages
<1>6. ASSUME NEW j \in Kinds, l \in DisplayHas(j) PROVE open'[d][j] = open[Menu][j]
  <2>1. name[k] # 0 /\ l = to
    BY <1>6 DEF DisplayHas, Loop
  <2>2. j = k \/ from \in DisplayHas(j)
    BY <1>6, <2>1 DEF DisplayHas, Loop, Turn, Kinds
  <2>3. CASE j = k
    BY <1>3, <1>5, <2>1, <2>3, Found
  <2>4. CASE j # k
    BY <1>1, <1>3, <2>2, <2>4 DEF IInv, Stages
  <2>5. QED
    BY <2>3, <2>4
<1>7. l \in {"done", "open_write", "open_read", "open_shm", "wait"}
  OBVIOUS
<1>8. pc[d] \notin {"copy", "post"} /\ l # "open_write"
  BY <1>1
<1>9. /\ UNCHANGED <<name, obj, sent, received, runs>>
      /\ line' \in [Procs -> Lines \cup {Empty}]
      /\ \A p \in Procs \ {d} : open'[p] = open[p] /\ line'[p] = line[p]
      /\ open'[d]["shm"] = open[d]["shm"]
  BY <1>1, <1>2, <1>3 DEF IInv, Shape
<1>10. l # "done" => Serving
  BY <1>5
<1> HIDE DEF l
<1>11. Goto(d, l)
  BY <1>1
<1>12. QED
  BY <1>3, <1>4, <1>6, <1>7, <1>8, <1>9, <1>10, <1>11, QuietDisplay

\* The third name is there when the other two are.
LEMMA OpenShmInv ==
  ASSUME IInv, NEW d \in Displays, pc[d] = "open_shm", OpenOrCreate(d, "shm", "wait")
  PROVE  IInv'
<1>1. Serving /\ d \in Procs /\ "shm" \in Kinds
  BY DEF IInv, Stages, Ended, Procs, Kinds
<1>2. name["shm"] # 0 /\ \A k \in Kinds : name[k] = open[Menu][k]
  BY <1>1, Found
<1>3. /\ Goto(d, "wait") /\ obj' = obj
      /\ name' = [name EXCEPT !["shm"] = name["shm"]]
      /\ open' = [open EXCEPT ![d] = [@ EXCEPT !["shm"] = name["shm"]]]
      /\ UNCHANGED <<line, sent, received, runs>>
  BY <1>2 DEF OpenOrCreate
<1>4. name' = name
  BY <1>1, <1>3 DEF IInv, Shape
<1>5. /\ open' \in [Procs -> [Kinds -> Nat]]
      /\ \A p \in Procs \ {d} : open'[p] = open[p]
      /\ \A j \in Kinds : open'[d][j] = IF j = "shm" THEN name["shm"] ELSE open[d][j]
  BY <1>1, <1>3, Found
<1>6. \A p \in Procs, j \in Kinds : open'[p][j] <= Len(obj'[j])
  <2> SUFFICES ASSUME NEW p \in Procs, NEW j \in Kinds PROVE open'[p][j] <= Len(obj[j])
      BY <1>3
  <2>1. open'[p][j] = open[p][j] \/ open'[p][j] = name[j]
    BY <1>5
  <2>2. QED
    BY <2>1, Found
<1>7. ASSUME NEW k \in Kinds PROVE open'[d][k] = open[Menu][k]
  <2>1. CASE k = "shm"
    BY <1>2, <1>5, <2>1
  <2>2. CASE k # "shm"
    <3>1. "open_shm" \in DisplayHas(k)
      BY <2>2 DEF DisplayHas
    <3>2. QED
      BY <1>5, <2>2, <3>1 DEF IInv, Stages
  <2>3. QED
    BY <2>1, <2>2
<1>8. /\ UNCHANGED <<name, obj, sent, received, runs>>
      /\ line' \in [Procs -> Lines \cup {Empty}]
      /\ \A p \in Procs \ {d} : open'[p] = open[p] /\ line'[p] = line[p]
      /\ open'[d]["shm"] = name["shm"]
  BY <1>1, <1>3, <1>4, <1>5 DEF IInv, Shape
<1>9. QED
  BY <1>1, <1>3, <1>5, <1>6, <1>7, <1>8, QuietDisplay

\* The end of the loop touches nothing the others see.
LEMMA DisplayTestInv == ASSUME IInv, NEW d \in Displays, DisplayTest(d) PROVE IInv'
<1>1. PICK l \in {"done", "wait"} :
        /\ pc[d] = "test" /\ Goto(d, l)
        /\ UNCHANGED <<name, obj, open, line, sent, received, runs>>
  BY DEF DisplayTest
<1>2. Serving /\ \A k \in Kinds : open[d][k] = open[Menu][k]
  BY <1>1, Joint DEF Loop
<1>3. /\ UNCHANGED <<name, obj, sent, received, runs>>
      /\ line' \in [Procs -> Lines \cup {Empty}]
      /\ open' \in [Procs -> [Kinds -> Nat]]
      /\ \A p \in Procs, k \in Kinds : open'[p][k] <= Len(obj'[k])
      /\ \A p \in Procs \ {d} : open'[p] = open[p] /\ line'[p] = line[p]
      /\ open'[d]["shm"] = open[d]["shm"]
      /\ \A k \in Kinds : open'[d][k] = open[Menu][k]
  BY <1>1, <1>2 DEF IInv, Shape
<1>4. Goto(d, l) /\ pc[d] \notin {"copy", "post"}
      /\ l \in {"done", "open_write", "open_read", "open_shm", "wait"}
  BY <1>1
<1>5. QED
  BY <1>2, <1>3, <1>4, QuietDisplay

\* A display takes the turn: there is a line it has to copy.
LEMMA DisplayWaitInv == ASSUME IInv, NEW d \in Displays, DisplayWait(d) PROVE IInv'
<1>1. /\ pc[d] = "wait" /\ Goto(d, "copy") /\ SemWait(d, "read", "copy")
      /\ UNCHANGED <<name, open, line, sent, received, runs>>
  BY DEF DisplayWait, SemWait
<1>2. /\ d \in Procs /\ d # Menu /\ Menu \in Procs /\ Displays \subseteq Procs
      /\ Serving /\ \A k \in Kinds : open[d][k] = open[Menu][k]
  BY <1>1, ChannelAssumption, Joint DEF Procs, Loop
<1>3. /\ pc'[d] = "copy" /\ pc'[Menu] = pc[Menu]
      /\ \A e \in Displays : e # d => pc'[e] = pc[e]
      /\ HasTurn' = HasTurn \cup {d}
  BY <1>1, <1>2, Moves DEF IInv
<1>4. /\ HasTurn = {} /\ Value("write") = 0
      /\ Value("write")' = 0 /\ Value("read")' = 0
      /\ obj' = [j \in Kinds |-> obj'[j]]
      /\ \A j \in Turn : obj'[j] \in Seq({0, 1})
      /\ obj'["shm"] = obj["shm"]
      /\ \A j \in Kinds : Len(obj'[j]) = Len(obj[j])
  BY <1>1, <1>2, TakesTurn DEF Turn, Kinds
<1>5. Serving' /\ pc'[Menu] # "off"
  BY <1>2, <1>3 DEF Serving
<1>6. Shape'
  BY <1>1, <1>2, <1>4, SemaphoreShape DEF PCs, Loop
<1>7. Stages'
  <2>1. \A e \in Displays : pc'[e] \in Loop => pc[e] \in Loop
    BY <1>1, <1>3 DEF Loop
  <2>2. \A e \in Displays : pc'[e] \notin Loop => pc'[e] = pc[e]
    BY <1>3 DEF Loop
  <2>3. QED
    BY <1>1, <1>2, <1>5, <2>1, <2>2, StaysInStage
<1>8. TurnHeld'
  BY <1>2, <1>3, <1>4, <1>5 DEF TurnHeld, OneTaken
<1>9. Contents'
  <2>1. ~Copied /\ ~Copied'
    <3>1. pc[Menu] # "copy" /\ \A e \in Displays : pc[e] # "post"
      BY <1>2, <1>4 DEF HasTurn
    <3>2. pc'[Menu] # "copy" /\ \A e \in Displays : pc'[e] # "post"
      BY <1>3, <3>1
    <3>3. QED
      BY <1>4, <3>1, <3>2 DEF Copied
  <2>2. Latest' = Latest /\ \A p \in Procs : Memory(p)' = Memory(p)
    BY <1>1, <1>4 DEF Latest, Memory
  <2>3. \A e \in Displays : pc'[e] = "test" => obj'["write"][open'[e]["write"]] = 0
    <3> SUFFICES ASSUME NEW e \in Displays, pc'[e] = "test"
                 PROVE  obj'["write"][open'[e]["write"]] = 0
        OBVIOUS
    <3>1. pc[e] = "test"
      BY <1>3
    <3>2. open[e]["write"] = open[Menu]["write"]
      BY <3>1, Joint DEF Loop, Kinds
    <3>3. QED
      BY <1>1, <1>4, <3>2 DEF Value
  <2>4. \A e \in Displays : pc'[e] = "post" => pc[e] = "post"
    BY <1>3
  <2>5. QED
    BY <1>1, <1>2, <1>3, <1>5, <2>1, <2>2, <2>3, <2>4 DEF IInv, Contents
<1>10. QED
  BY <1>6, <1>7, <1>8, <1>9 DEF IInv

\* A display hands the turn back, and what it copied is still in the memory.
LEMMA DisplayPostInv == ASSUME IInv, NEW d \in Displays, DisplayPost(d) PROVE IInv'
<1>1. /\ pc[d] = "post" /\ Goto(d, "test") /\ SemPost(d, "write", "test")
      /\ UNCHANGED <<name, open, line, sent, received, runs>>
  BY DEF DisplayPost, SemPost
<1>2. /\ d \in Procs /\ d # Menu /\ Menu \in Procs /\ Displays \subseteq Procs
      /\ Serving /\ \A k \in Kinds : open[d][k] = open[Menu][k]
      /\ d \in HasTurn
  BY <1>1, ChannelAssumption, Joint DEF Procs, Loop, HasTurn
<1>3. /\ pc'[d] = "test" /\ pc'[Menu] = pc[Menu]
      /\ \A e \in Displays : e # d => pc'[e] = pc[e]
      /\ HasTurn' = HasTurn \ {d}
  BY <1>1, <1>2, Moves DEF IInv
<1>4. /\ HasTurn = {d} /\ Value("write") = 0
      /\ Value("write")' = 1 /\ Value("read")' = 0
      /\ obj' = [j \in Kinds |-> obj'[j]]
      /\ \A j \in Turn : obj'[j] \in Seq({0, 1})
      /\ obj'["shm"] = obj["shm"]
      /\ \A j \in Kinds : Len(obj'[j]) = Len(obj[j])
  BY <1>1, <1>2, GivesTurn DEF Turn, Kinds
<1>5. Serving' /\ pc'[Menu] # "off"
  BY <1>2, <1>3 DEF Serving
<1>6. Shape'
  BY <1>1, <1>2, <1>4, SemaphoreShape DEF PCs, Loop
<1>7. Stages'
  <2>1. \A e \in Displays : pc'[e] \in Loop => pc[e] \in Loop
    BY <1>1, <1>3 DEF Loop
  <2>2. \A e \in Displays : pc'[e] \notin Loop => pc'[e] = pc[e]
    BY <1>3 DEF Loop
  <2>3. QED
    BY <1>1, <1>2, <1>5, <2>1, <2>2, StaysInStage
<1>8. TurnHeld'
  <2>1. HasTurn' = {}
    BY <1>3, <1>4
  <2>2. QED
    BY <1>4, <1>5, <2>1 DEF TurnHeld
<1>9. Contents'
  <2>1. Copied /\ Copied'
    BY <1>1, <1>4 DEF Copied
  <2>2. Latest' = Latest /\ \A p \in Procs : Memory(p)' = Memory(p)
    BY <1>1, <1>4 DEF Latest, Memory
  <2>3. ASSUME NEW e \in Displays, pc'[e] = "test", Alone(e)' PROVE line'[e] = Memory(e)'
    <3>1. CASE e = d
      <4>1. line[d] = Memory(d)
        BY <1>1 DEF IInv, Contents
      <4>2. QED
        BY <1>1, <1>2, <2>2, <3>1, <4>1
    <3>2. CASE e # d
      <4>1. pc[e] = "test"
        BY <1>3, <2>3, <3>2
      <4>2. open[e]["shm"] = open[d]["shm"]
        BY <1>2, <4>1, Joint DEF Loop, Kinds
      <4>3. QED
        BY <1>1, <2>3, <3>2, <4>2 DEF Alone
    <3>3. QED
      BY <3>1, <3>2
  <2>4. \A e \in Displays : pc'[e] = "post" => pc[e] = "post"
    BY <1>3
  <2>5. QED
    BY <1>1, <1>2, <1>3, <1>5, <2>1, <2>2, <2>3, <2>4 DEF IInv, Contents
<1>10. QED
  BY <1>6, <1>7, <1>8, <1>9 DEF IInv

\* A display copies the latest line, which nobody has copied before.
LEMMA DisplayCopyInv == ASSUME IInv, NEW d \in Displays, DisplayCopy(d) PROVE IInv'
<1>1. /\ pc[d] = "copy" /\ Goto(d, "post")
      /\ line' = [line EXCEPT ![d] = Memory(d)]
      /\ received' = Append(received, Memory(d))
      /\ UNCHANGED <<name, obj, open, sent, runs>>
  BY DEF DisplayCopy
<1>2. /\ d \in Procs /\ d # Menu /\ Menu \in Procs /\ Displays \subseteq Procs
      /\ Serving /\ \A k \in Kinds : open[d][k] = open[Menu][k]
      /\ d \in HasTurn
  BY <1>1, ChannelAssumption, Joint DEF Procs, Loop, HasTurn
<1>3. /\ pc'[d] = "post" /\ pc'[Menu] = pc[Menu]
      /\ \A e \in Displays : e # d => pc'[e] = pc[e]
      /\ HasTurn' = HasTurn \cup {d}
  BY <1>1, <1>2, Moves DEF IInv
<1>4. HasTurn = {d} /\ Value("write") = 0 /\ Value("read") = 0
  BY <1>2 DEF IInv, TurnHeld, OneTaken
<1>5. Memory(d) = Memory(Menu) /\ Memory(d) = Latest /\ Memory(d) \in Lines \cup {Empty}
  <2>1. Memory(d) = Memory(Menu)
    BY <1>2 DEF Memory, Kinds
  <2>2. Memory(Menu) = Latest
    BY <1>2 DEF IInv, Contents
  <2>3. open[Menu]["shm"] \in 1..Len(obj["shm"])
    BY <1>2, Joint DEF Kinds
  <2>4. obj["shm"] \in Seq(Lines \cup {Empty})
    BY DEF IInv, Shape
  <2>5. Memory(Menu) \in Lines \cup {Empty}
    BY <2>3, <2>4, ElementOfSeq DEF Memory
  <2>6. QED
    BY <2>1, <2>2, <2>5
<1>6. /\ Len(received) \in Nat
      /\ received' \in Seq(Lines \cup {Empty}) /\ Len(received') = Len(received) + 1
      /\ received'[Len(received) + 1] = Memory(d)
      /\ \A i \in 1..Len(received) : received'[i] = received[i]
  <2>1. received \in Seq(Lines \cup {Empty})
    BY DEF IInv, Shape
  <2>2. Len(received) \in Nat
    BY <2>1, LenProperties
  <2>3. QED
    BY <1>1, <1>5, <2>1, <2>2, AppendProperties
<1>7. /\ line' \in [Procs -> Lines \cup {Empty}]
      /\ line'[d] = Memory(d) /\ \A p \in Procs : p # d => line'[p] = line[p]
  BY <1>1, <1>2, <1>5 DEF IInv, Shape
<1>8. Serving' /\ pc'[Menu] # "off"
  BY <1>2, <1>3 DEF Serving
<1>9. Shape'
  <2>1. /\ pc' \in [Procs -> PCs] /\ pc'[Menu] \in PCs \ {"test"}
        /\ \A e \in Displays :
             pc'[e] \in Loop \cup {"off", "done", "open_write", "open_read", "open_shm"}
    BY <1>1, <1>2, MovesType DEF IInv, PCs, Loop
  <2>2. QED
    BY <1>1, <1>6, <1>7, <2>1 DEF IInv, Shape
<1>10. Stages'
  <2>1. \A e \in Displays : pc'[e] \in Loop => pc[e] \in Loop
    BY <1>1, <1>3 DEF Loop
  <2>2. \A e \in Displays : pc'[e] \notin Loop => pc'[e] = pc[e]
    BY <1>3 DEF Loop
  <2>3. QED
    BY <1>1, <1>2, <1>8, <2>1, <2>2, StaysInStage
<1>11. Value("write")' = 0 /\ Value("read")' = 0
  BY <1>1, <1>4 DEF Value
<1>12. TurnHeld'
  BY <1>2, <1>3, <1>4, <1>8, <1>11 DEF TurnHeld, OneTaken
<1>13. Contents'
  <2>1. ~Copied /\ Copied'
    <3>1. pc[Menu] # "copy" /\ \A e \in Displays : pc[e] # "post"
      BY <1>1, <1>2, <1>4 DEF HasTurn
    <3>2. QED
      BY <1>3, <1>4, <3>1 DEF Copied
  <2>2. Latest' = Latest /\ \A p \in Procs : Memory(p)' = Memory(p)
    BY <1>1 DEF Latest, Memory
  <2>3. Len(received) = Len(sent) /\ Len(sent) \in Nat
    <3>1. Len(received) = Len(sent) + 0
      BY <1>2, <2>1 DEF IInv, Contents
    <3>2. sent \in Seq(Lines)
      BY DEF IInv, Shape
    <3>3. Len(sent) \in Nat
      BY <3>2, LenProperties
    <3>4. QED
      BY <3>1, <3>3
  <2>4. Len(received') = Len(sent') + (IF Copied' THEN 1 ELSE 0)
    BY <1>1, <1>6, <2>1, <2>3
  <2>5. ASSUME NEW i \in 1..Len(received')
        PROVE  received'[i] = IF i = 1 THEN Empty ELSE sent'[i - 1]
    <3>1. CASE i \in 1..Len(received)
      BY <1>1, <1>6, <3>1 DEF IInv, Contents
    <3>2. CASE i \notin 1..Len(received)
      <4>1. i = Len(sent) + 1
        BY <1>6, <2>3, <2>5, <3>2
      <4>2. received'[i] = Latest
        BY <1>5, <1>6, <2>3, <4>1
      <4>3. Latest = IF i = 1 THEN Empty ELSE sent[i - 1]
        <5>1. sent = << >> <=> Len(sent) = 0
          BY EmptySeq DEF IInv, Shape
        <5>2. QED
          BY <2>3, <4>1, <5>1 DEF Latest
      <4>4. QED
        BY <1>1, <4>2, <4>3
    <3>3. QED
      BY <3>1, <3>2
  <2>6. \A e \in Displays : pc'[e] = "post" => line'[e] = Memory(e)'
    <3>1. \A e \in Displays : pc'[e] = "post" => e = d
      BY <1>1, <1>2, <1>3, <1>4 DEF HasTurn
    <3>2. QED
      BY <1>2, <1>7, <2>2, <3>1
  <2>7. \A e \in Displays : pc'[e] = "test" => obj'["write"][open'[e]["write"]] = 0
    <3> SUFFICES ASSUME NEW e \in Displays, pc'[e] = "test"
                 PROVE  obj'["write"][open'[e]["write"]] = 0
        OBVIOUS
    <3>1. pc[e] = "test"
      BY <1>3
    <3>2. open[e]["write"] = open[Menu]["write"]
      BY <3>1, Joint DEF Loop, Kinds
    <3>3. QED
      BY <1>1, <1>4, <3>2 DEF Value
  <2>8. pc'[Menu] \in {"wait", "copy", "post"} => line'[Menu] \in Lines
    BY <1>2, <1>3, <1>7 DEF IInv, Contents
  <2>9. Memory(Menu)' = Latest'
    BY <1>2, <2>2 DEF IInv, Contents
  <2>10. QED
    BY <1>8, <2>4, <2>5, <2>6, <2>7, <2>8, <2>9 DEF Contents
<1>14. QED
  BY <1>9, <1>10, <1>12, <1>13 DEF IInv

-----------------------------------------------------------------------------
(* The specification.                                                      *)

\* Every step of the programs keeps the invariant, and so does waiting.
LEMMA NextInv == Orderly /\ IInv /\ [Next]_vars => IInv'
<1> SUFFICES ASSUME Orderly, IInv, [Next]_vars PROVE IInv'
    OBVIOUS
<1>1. CASE MenuStart
  BY <1>1, StartInv
<1>2. CASE Gets
  BY <1>2, GetsInv
<1>3. CASE MenuStep
  <2>1. CASE MenuSetup
    <3>1. CASE MenuUnlink("write", "unlink_write", "open_write")
      BY <3>1, UnlinkInv DEF Kinds
    <3>2. CASE MenuUnlink("read", "unlink_read", "open_read")
      BY <3>2, UnlinkInv DEF Kinds
    <3>3. CASE MenuUnlink("shm", "unlink_shm", "open_shm")
      BY <3>3, UnlinkInv DEF Kinds
    <3>4. CASE MenuOpen("write", "open_write", "unlink_read")
      BY <3>4, OpenInv DEF Kinds, Between
    <3>5. CASE MenuOpen("read", "open_read", "unlink_shm")
      BY <3>5, OpenInv DEF Kinds, Between
    <3>6. CASE MenuOpen("shm", "open_shm", "gets")
      BY <3>6, OpenInv DEF Kinds, Between
    <3>7. QED
      BY <2>1, <3>1, <3>2, <3>3, <3>4, <3>5, <3>6 DEF MenuSetup
  <2>2. QED
    BY <1>3, <2>1, MenuWaitInv, MenuCopyInv, MenuPostInv DEF MenuStep
<1>4. ASSUME NEW d \in Displays, DisplayStart(d) PROVE IInv'
  BY <1>4, DisplayStartInv
<1>5. ASSUME NEW d \in Displays, DisplayStep(d) PROVE IInv'
  <2>1. CASE DisplaySetup(d)
    <3>1. CASE DisplayOpenSem(d, "write", "open_write", "open_read")
      BY <3>1, OpenSemInv DEF Turn
    <3>2. CASE DisplayOpenSem(d, "read", "open_read", "open_shm")
      BY <3>2, OpenSemInv DEF Turn
    <3>3. CASE pc[d] = "open_shm" /\ OpenOrCreate(d, "shm", "wait")
      BY <3>3, OpenShmInv
    <3>4. QED
      BY <2>1, <3>1, <3>2, <3>3 DEF DisplaySetup
  <2>2. QED
    BY <1>5, <2>1, DisplayWaitInv, DisplayCopyInv, DisplayPostInv, DisplayTestInv
       DEF DisplayStep
<1>6. CASE UNCHANGED vars
  <2>1. UNCHANGED <<name, obj, pc, open, line, sent, received, runs>>
    BY <1>6 DEF vars
  <2>2. Shape'
    BY <2>1 DEF IInv, Shape
  <2>3. (Serving' <=> Serving) /\ HasTurn' = HasTurn
    BY <2>1 DEF Serving, HasTurn
  <2>4. Stages'
    BY <2>1, <2>3 DEF IInv, Stages, Ended
  <2>5. TurnHeld'
    BY <2>1, <2>3 DEF IInv, TurnHeld, OneTaken, Value
  <2>6. Contents'
    <3>1. (Copied' <=> Copied) /\ Latest' = Latest
      BY <2>1 DEF Copied, Latest, Value
    <3>2. /\ \A p \in Procs : Memory(p)' = Memory(p)
          /\ \A d \in Displays : Alone(d)' <=> Alone(d)
      BY <2>1 DEF Memory, Alone
    <3>3. Displays \subseteq Procs /\ Menu \in Procs
      BY DEF Procs
    <3>4. QED
      BY <2>1, <2>3, <3>1, <3>2, <3>3 DEF IInv, Contents
  <2>7. QED
    BY <2>2, <2>4, <2>5, <2>6 DEF IInv
<1>7. QED
  BY <1>1, <1>2, <1>3, <1>4, <1>5, <1>6 DEF Next

\* The invariant of the channel is inductive when its programs are started one
\* after the other.
THEOREM ChannelInvariant == Orderly /\ Spec => []IInv
<1>1. Orderly /\ IInv /\ [Next]_vars => IInv'
  BY NextInv
<1>2. SUFFICES ASSUME Orderly PROVE Spec => []IInv
  OBVIOUS
<1>3. IInv /\ [Next]_vars => IInv'
  BY <1>1, <1>2
<1>4. QED
  BY InitInv, <1>3, PTL DEF Spec

\* One turn goes round between the menu and however many displays there are.
THEOREM TurnGoesRound == Orderly /\ Spec => []OneTurn
<1>1. IInv => OneTurn
  <2> SUFFICES ASSUME IInv, Serving
               PROVE  /\ \A p \in HasTurn : Joined(p)
                      /\ Value("write") + Value("read") + Cardinality(HasTurn) = 1
      BY DEF OneTurn
  <2>1. \A p \in HasTurn : Joined(p)
    <3> SUFFICES ASSUME NEW p \in HasTurn PROVE open[p] = open[Menu]
        BY DEF Joined
    <3>1. CASE p = Menu
      BY <3>1
    <3>2. CASE p # Menu
      <4>1. p \in Displays /\ pc[p] \in Loop
        BY <3>2 DEF HasTurn, Procs, Loop
      <4>2. \A k \in Kinds : open[p][k] = open[Menu][k]
        BY <4>1, Joint
      <4>3. open[p] \in [Kinds -> Nat] /\ open[Menu] \in [Kinds -> Nat]
        BY <4>1 DEF IInv, Shape, Procs
      <4>4. QED
        BY <4>2, <4>3
    <3>3. QED
      BY <3>1, <3>2
  <2>2. CASE HasTurn = {} /\ Value("write") + Value("read") = 1
    <3>1. Cardinality(HasTurn) = 0
      BY <2>2, FS_EmptySet
    <3>2. Value("write") \in {0, 1} /\ Value("read") \in {0, 1}
      BY Values DEF Turn
    <3>3. QED
      BY <2>1, <2>2, <3>1, <3>2
  <2>3. CASE OneTaken /\ Value("write") = 0 /\ Value("read") = 0
    <3>1. PICK p \in Procs : HasTurn = {p}
      BY <2>3 DEF OneTaken
    <3>2. Cardinality(HasTurn) = 1
      BY <3>1, FS_Singleton
    <3>3. QED
      BY <2>1, <2>3, <3>2
  <2>4. QED
    BY <2>2, <2>3 DEF IInv, TurnHeld
<1>2. QED
  BY <1>1, ChannelInvariant, PTL

\* A line is copied into or out of the shared memory by one process at a time,
\* and a lone display still sees its own line until the menu has the turn.
THEOREM NobodyInterferes == Orderly /\ Spec => []ExclusiveAccess
<1>1. IInv => ExclusiveAccess
  <2> SUFFICES ASSUME IInv PROVE ExclusiveAccess
      OBVIOUS
  <2>1. ASSUME NEW p \in Procs, NEW q \in Procs, pc[p] = "copy", pc[q] = "copy"
        PROVE  p = q
    <3>1. Serving
      BY <2>1, Joint DEF Serving, Procs, Loop
    <3>2. p \in HasTurn /\ q \in HasTurn
      BY <2>1 DEF HasTurn
    <3>3. QED
      BY <3>1, <3>2 DEF IInv, TurnHeld, OneTaken
  <2>2. ASSUME NEW d \in Displays, pc[d] = "test", obj["write"][open[d]["write"]] = 1, Alone(d)
        PROVE  Memory(d) = line[d]
    BY <2>2 DEF IInv, Contents
  <2>3. QED
    BY <2>1, <2>2 DEF ExclusiveAccess, Alone
<1>2. QED
  BY <1>1, ChannelInvariant, PTL

\* The displays of the channel copy every line of the menu once and in order.
THEOREM LinesArriveOnce == Orderly /\ Spec => []NothingLostOrDoubled
<1>1. IInv => NothingLostOrDoubled
  <2> SUFFICES ASSUME IInv, Serving
               PROVE  /\ Len(received) \in {Len(sent), Len(sent) + 1}
                      /\ received = SubSeq(<<Empty>> \o sent, 1, Len(received))
      BY DEF NothingLostOrDoubled
  <2> DEFINE S == Lines \cup {Empty}
             all == <<Empty>> \o sent
  <2>1. /\ sent \in Seq(S) /\ received \in Seq(S) /\ <<Empty>> \in Seq(S)
        /\ Len(sent) \in Nat /\ Len(received) \in Nat /\ Len(<<Empty>>) = 1
    <3>1. sent \in Seq(Lines) /\ received \in Seq(S)
      BY DEF IInv, Shape
    <3>2. sent \in Seq(S)
      BY <3>1, SeqMonotonic
    <3>3. QED
      BY <3>1, <3>2, LenProperties
  <2>2. Len(received) \in {Len(sent), Len(sent) + 1}
    BY <2>1 DEF IInv, Contents
  <2>3. /\ all \in Seq(S) /\ Len(all) = Len(sent) + 1
        /\ \A i \in 1..Len(sent) + 1 : all[i] = IF i = 1 THEN Empty ELSE sent[i - 1]
    BY <2>1, ConcatProperties
  <2>4. \A i \in 1..Len(received) : all[i] \in S /\ received[i] = all[i]
    <3> SUFFICES ASSUME NEW i \in 1..Len(received) PROVE all[i] \in S /\ received[i] = all[i]
        OBVIOUS
    <3>1. i \in 1..Len(sent) + 1
      BY <2>1, <2>2
    <3>2. received[i] = IF i = 1 THEN Empty ELSE sent[i - 1]
      BY DEF IInv, Contents
    <3>3. received[i] \in S
      BY <2>1, ElementOfSeq
    <3>4. QED
      BY <2>3, <3>1, <3>2, <3>3
  <2>5. /\ SubSeq(all, 1, Len(received)) \in Seq(S)
        /\ Len(SubSeq(all, 1, Len(received))) = Len(received)
        /\ \A i \in 1..Len(received) : SubSeq(all, 1, Len(received))[i] = received[i]
    <3> HIDE DEF all, S
    <3>1. SubSeq(all, 1, Len(received)) \in Seq(S)
      BY <2>1, <2>4, SubSeqProperties
    <3>2. Len(SubSeq(all, 1, Len(received))) = Len(received)
      BY <2>1, <2>4, SubSeqProperties
    <3>3. \A i \in 1..Len(received) : SubSeq(all, 1, Len(received))[i] = received[i]
      BY <2>1, <2>4, SubSeqProperties
    <3>4. QED
      BY <3>1, <3>2, <3>3
  <2>6. received = SubSeq(all, 1, Len(received))
    <3> HIDE DEF all, S
    <3>1. QED
      BY <2>1, <2>5, SeqEqual
  <2>7. QED
    BY <2>2, <2>6
<1>2. QED
  BY <1>1, ChannelInvariant, PTL

\* The channel has the state its types say: the two semaphores are binary, and
\* nobody has opened an object that was never made.
THEOREM ChannelTypes == Orderly /\ Spec => []TypeOK
<1>1. IInv => TypeOK
  <2> SUFFICES ASSUME IInv PROVE TypeOK
      OBVIOUS
  <2>1. \A k \in Kinds : name[k] \in 0..Len(obj[k])
    BY Lengths, Found DEF IInv
  <2>2. \A p \in Procs, k \in Kinds : open[p][k] \in 0..Len(obj[k])
    <3> SUFFICES ASSUME NEW p \in Procs, NEW k \in Kinds PROVE open[p][k] \in 0..Len(obj[k])
        OBVIOUS
    <3>1. open[p][k] \in Nat /\ open[p][k] <= Len(obj[k])
      BY Found
    <3>2. Len(obj[k]) \in Nat
      BY Lengths DEF IInv
    <3>3. QED
      BY <3>1, <3>2
  <2>3. QED
    BY <2>1, <2>2 DEF IInv, Shape, TypeOK
<1>2. QED
  BY <1>1, ChannelInvariant, PTL
=============================================================================

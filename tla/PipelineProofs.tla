---------------------------- MODULE PipelineProofs ----------------------------
(***************************************************************************)
(* Proofs about Pipeline, for any length of a queue and any number of      *)
(* lines and of runs.                                                      *)
(***************************************************************************)
EXTENDS Pipeline, SequenceTheorems, TLAPS

-----------------------------------------------------------------------------
(* The inductive invariant                                                 *)

ConsStates == {"off", "make", "open", "wait", "receive", "write", "unlink", "exit"}
DispStates == {"off", "wait", "read", "end"}
Mishaps == {"merged", "late", "crossed", "killed", "broken"}
Fifos == [run : Nat, lines : Seq(Lines), w : BOOLEAN, r : BOOLEAN, used : BOOLEAN]
Fds == 0..Len(fifos)

Types ==
  /\ kind \in Kinds
  /\ queues \in Seq(Seq(Lines)) /\ qname \in 0..Len(queues)
  /\ menu \in [on : BOOLEAN, q : 0..Len(queues), typed : 0..MaxLines]
  /\ cons \in [pc : ConsStates, q : 0..Len(queues), i : 1..2, fd : [1..2 -> Fds]]
  /\ received \in Seq(Seq(Lines))
  /\ fifos \in Seq(Fifos)
  /\ fname \in [1..2 -> Fds]
  /\ disp \in [1..2 -> [pc : DispStates, fd : Fds, shown : Seq(Lines), again : BOOLEAN]]
  /\ mishaps \subseteq Mishaps

Bounds ==
  /\ \A q \in DOMAIN queues : Len(queues[q]) <= MAX_MSG_COUNT
  /\ menu.on => menu.q # 0
  /\ \A f \in DOMAIN fifos : fifos[f].run \in 1..Run

\* All pipes are open.
Connected == cons.pc \in {"receive", "write", "unlink", "exit"}
\* Whether the consumer has opened pipe p, and whether it is past waiting for it
HasOpened(p) == cons.pc # "off" /\ p \in Pipes /\ (Connected \/ p < cons.i \/ (p = cons.i /\ cons.pc = "wait"))
HasPassed(p) == cons.pc # "off" /\ p \in Pipes /\ (Connected \/ p < cons.i)
\* Whether it has not made pipe p yet
NotMade(p) == cons.pc \in {"make", "open", "wait"} /\ (p > cons.i \/ (p = cons.i /\ cons.pc = "make"))

ConsumerInv ==
  /\ cons.pc # "off" => cons.q # 0 /\ Run # 0
  /\ cons.pc \in {"make", "open", "wait"} => cons.i \in Pipes /\ received[Run] = << >>
  /\ cons.pc = "write" => cons.i \in Pipes /\ received[Run] # << >>
  /\ cons.pc \in {"off", "receive", "unlink", "exit"} => cons.i = 1
  /\ \A p \in 1..2 : cons.fd[p] # 0 <=> HasOpened(p)

\* What somebody has open is of the run that is on, if it is its own; no two
\* pipes are mixed up.
OwnOpened == \A p \in 1..2 : HasOpened(p) =>
  LET f == cons.fd[p]
  IN  /\ fifos[f].run = Run /\ fifos[f].w /\ fname[p] \in {0, f}
      /\ disp[p].pc # "off" /\ fifos[disp[p].fd].run = Run => disp[p].fd = f
      /\ HasPassed(p) => fifos[f].used
OwnMade == cons.pc = "open" /\ fname[cons.i] # 0 =>
  LET f == fname[cons.i]
  IN  /\ fifos[f].run = Run /\ ~fifos[f].w /\ fifos[f].lines = << >>
      /\ disp[cons.i].pc # "off" /\ fifos[disp[cons.i].fd].run = Run => disp[cons.i].fd = f
OwnWait == cons.pc = "wait" => ~fifos[cons.fd[cons.i]].r
OwnLater == \A p \in 1..2 : NotMade(p) =>
  /\ fname[p] # 0 => fifos[fname[p]].run < Run
  /\ disp[p].pc # "off" => fifos[disp[p].fd].run < Run
OwnInv == OwnOpened /\ OwnMade /\ OwnWait /\ OwnLater

Refs(p) == {fname[p], cons.fd[p], disp[p].fd}
Separate == Refs(1) \cap Refs(2) \subseteq {0}

DisplayInv == \A p \in 1..2 :
  LET d == disp[p]
      f == d.fd
  IN  /\ d.pc = "off" => d = NoDisplay
      /\ d.pc # "off" => f # 0 /\ p \in Pipes /\ fifos[f].r
      /\ d.pc = "wait" => ~fifos[f].w /\ d.shown = << >>
      /\ d.pc \in {"read", "end"} /\ fifos[f].run = Run /\ cons.pc # "off" => HasOpened(p) /\ cons.fd[p] = f
      /\ d.pc = "read" => \A k \in DOMAIN d.shown : ~Quits(d.shown[k])
      /\ d.pc = "end" => d.shown # << >> /\ Quits(d.shown[Len(d.shown)])
FifoInv == \A f \in DOMAIN fifos :
  /\ fifos[f].r => \E p \in 1..2 : disp[p].fd = f
  /\ fifos[f].r \/ fifos[f].lines # << >> => fifos[f].used
  /\ fifos[f].w => \E p \in 1..2 : cons.fd[p] = f
ReaderInv == DisplayInv /\ FifoInv

\* Lines come in the order they were typed.
Increasing(s) == \A j, k \in DOMAIN s : j < k => s[j].nr < s[k].nr
Before(s, t) == \A j \in DOMAIN s : \A k \in DOMAIN t : s[j].nr < t[k].nr
Among(s, t, n) == \A j \in DOMAIN s : \E k \in 1..n : s[j].nr = t[k].nr

\* The lines the consumer has written to pipe p, when it has opened it
Written(p) == IF cons.pc = "write" /\ cons.i <= p THEN Len(received[Run]) - 1 ELSE Len(received[Run])

\* In the queues, in what was received, in the pipes and on the screens
QueueOrder == \A q \in DOMAIN queues :
  Increasing(queues[q]) /\ \A k \in DOMAIN queues[q] : queues[q][k].nr <= menu.typed
ReceiveOrder ==
  /\ \A r \in DOMAIN received :
       Increasing(received[r]) /\ \A k \in DOMAIN received[r] : received[r][k].nr <= menu.typed
  /\ cons.pc # "off" => Before(received[Run], queues[cons.q])
FifoOrder == \A f \in DOMAIN fifos : Increasing(fifos[f].lines)
ShownOrder == \A p \in 1..2 : disp[p].pc # "off" =>
  Increasing(disp[p].shown) /\ Before(disp[p].shown, fifos[disp[p].fd].lines)
WrittenOrder == \A p \in 1..2 : HasOpened(p) =>
  /\ Among(fifos[cons.fd[p]].lines, received[Run], Written(p))
  /\ disp[p].fd = cons.fd[p] => Among(disp[p].shown, received[Run], Written(p))
OrderInv == QueueOrder /\ ReceiveOrder /\ FifoOrder /\ ShownOrder /\ WrittenOrder

\* Only the last line of a run quits, and does unless the run was cut short.
QuitInv ==
  /\ \A r \in DOMAIN received : \A k \in 1..Len(received[r]) - 1 : ~Quits(received[r][k])
  /\ cons.pc = "receive" => \A k \in DOMAIN received[Run] : ~Quits(received[Run][k])
  /\ mishaps = {} => \A r \in DOMAIN received :
       r < Run \/ cons.pc \in {"off", "unlink", "exit"} =>
         received[r] # << >> /\ Quits(received[r][Len(received[r])])

\* The names of the pipes, unless one was crossed or broken
NameInv ==
  mishaps \cap {"crossed", "broken"} = {} =>
    /\ cons.pc = "off" => \A p \in Pipes : fname[p] = 0
    /\ \A p \in Pipes : NotMade(p) => fname[p] = 0
    /\ cons.pc = "open" => fname[cons.i] # 0

\* What a display has shown and its pipe holds is what its compute has written.
Content(p) ==
  LET d == disp[p]
      s == fifos[d.fd].lines
      t == received[fifos[d.fd].run]
  IN  /\ Len(d.shown) + Len(s) =
           IF fifos[d.fd].run = Run /\ cons.pc = "write" /\ cons.i <= p THEN Len(t) - 1 ELSE Len(t)
      /\ \A k \in 1..Len(d.shown) : d.shown[k] = t[k]
      /\ \A k \in 1..Len(s) : s[k] = t[Len(d.shown) + k]
      /\ ~d.again
ContentInv == mishaps = {} => \A p \in 1..2 : disp[p].pc # "off" => Content(p)

Inv ==
  /\ Types /\ Bounds /\ ConsumerInv /\ OwnInv /\ Separate /\ ReaderInv
  /\ OrderInv /\ QuitInv /\ NameInv /\ Rendezvous /\ ContentInv
-----------------------------------------------------------------------------
(* What the operators return                                               *)

\* The assumption on the constants, part by part
LEMMA Assumed == MAX_MSG_COUNT \in Nat \ {0} /\ MaxLines \in Nat \ {0} /\ MaxRuns \in Nat \ {0}
BY PipelineAssumption

\* 5a has no pipe, 5d has the first, 5e has both.
LEMMA PipesAre ==
  ASSUME kind \in Kinds
  PROVE  /\ Pipes \subseteq 1..2
         /\ 2 \in Pipes => 1 \in Pipes
         /\ Pipes = {} <=> kind = "5a"
         /\ Pipes # {} => 1 \in Pipes
BY PipelineAssumption DEF Pipes

\* They are settled by the exercise.
LEMMA PipesStay == ASSUME kind' = kind PROVE Pipes' = Pipes
BY DEF Pipes

\* A line more at the end, pointwise
LEMMA AppendIs ==
  ASSUME NEW S, NEW s \in Seq(S), NEW x \in S
  PROVE  /\ Append(s, x) \in Seq(S) /\ Append(s, x) # << >>
         /\ Len(Append(s, x)) = Len(s) + 1 /\ DOMAIN Append(s, x) = 1..Len(s) + 1
         /\ \A k \in 1..Len(s) : Append(s, x)[k] = s[k]
         /\ Append(s, x)[Len(s) + 1] = x
BY AppendProperties, LenProperties

\* One element is changed, pointwise.
LEMMA ReplaceIs ==
  ASSUME NEW S, NEW s \in Seq(S), NEW k \in 1..Len(s), NEW x \in S
  PROVE  /\ [s EXCEPT ![k] = x] \in Seq(S)
         /\ Len([s EXCEPT ![k] = x]) = Len(s) /\ DOMAIN [s EXCEPT ![k] = x] = 1..Len(s)
         /\ [s EXCEPT ![k] = x][k] = x
         /\ \A j \in 1..Len(s) : j # k => [s EXCEPT ![k] = x][j] = s[j]
BY ExceptSeq, LenProperties

\* What a read leaves: without the first n lines, perhaps the rest of one as text
LeftOf(s, n, cut) ==
  LET rest == SubSeq(s, n + 1, Len(s))
  IN  IF cut THEN [rest EXCEPT ![1].word = "text"] ELSE rest

\* What is left has the numbers that followed, and their texts if no line was cut.
LEMMA LeftIs ==
  ASSUME NEW s \in Seq(Lines), NEW n \in 1..Len(s), NEW cut \in BOOLEAN, cut => n < Len(s)
  PROVE  /\ LeftOf(s, n, cut) \in Seq(Lines)
         /\ Len(LeftOf(s, n, cut)) = Len(s) - n /\ DOMAIN LeftOf(s, n, cut) = 1..Len(s) - n
         /\ \A k \in 1..Len(LeftOf(s, n, cut)) : LeftOf(s, n, cut)[k].nr = s[k + n].nr
         /\ ~cut => \A k \in 1..Len(LeftOf(s, n, cut)) : LeftOf(s, n, cut)[k] = s[k + n]
<1> DEFINE rest == SubSeq(s, n + 1, Len(s))
           left == IF cut THEN [rest EXCEPT ![1].word = "text"] ELSE rest
<1> SUFFICES /\ left \in Seq(Lines) /\ Len(left) = Len(s) - n /\ DOMAIN left = 1..Len(s) - n
             /\ \A k \in 1..Len(left) : left[k].nr = s[k + n].nr
             /\ ~cut => \A k \in 1..Len(left) : left[k] = s[k + n]
  BY DEF LeftOf
<1>1. /\ rest \in Seq(Lines) /\ Len(rest) = Len(s) - n
      /\ \A k \in 1..Len(s) - n : rest[k] = s[k + n]
  <2>1. \A k \in n + 1..Len(s) : s[k] \in Lines
    BY ElementOfSeq
  <2>2. n + 1 \in Int /\ Len(s) \in Int
    BY LenProperties
  <2>3. /\ rest \in Seq(Lines) /\ Len(rest) = IF n + 1 <= Len(s) THEN Len(s) - (n + 1) + 1 ELSE 0
        /\ \A k \in 1..Len(s) - (n + 1) + 1 : rest[k] = s[(n + 1) + k - 1]
    BY <2>1, <2>2, SubSeqProperties
  <2> QED
    BY <2>2, <2>3
<1> HIDE DEF rest
<1>2. CASE ~cut
  <2>1. rest \in Seq(Lines) /\ DOMAIN rest = 1..Len(rest)
    BY <1>1, LenProperties
  <2>2. left = rest
    BY <1>2
  <2> HIDE DEF left
  <2> QED
    BY <1>1, <1>2, <2>1, <2>2
<1>3. CASE cut
  <2> DEFINE x == [rest[1] EXCEPT !.word = "text"]
  <2>1. 1 \in 1..Len(rest)
    BY <1>1, <1>3, LenProperties
  <2>2. rest[1] \in Lines
    BY <1>1, <2>1, ElementOfSeq
  <2>3. x \in Lines /\ x.nr = rest[1].nr
    BY <2>2 DEF Lines, Words
  <2>4. left = [rest EXCEPT ![1] = x]
    BY <1>3
  <2> HIDE DEF x, left
  <2>5. /\ left \in Seq(Lines) /\ Len(left) = Len(rest) /\ DOMAIN left = 1..Len(rest)
        /\ left[1] = x /\ \A k \in 1..Len(rest) : k # 1 => left[k] = rest[k]
    BY <1>1, <2>1, <2>3, <2>4, ReplaceIs
  <2> QED
    BY <1>1, <1>3, <2>3, <2>5
<1> HIDE DEF left
<1> QED
  BY <1>2, <1>3

\* One pipe is changed.
LEMMA FifoIs ==
  ASSUME NEW s \in Seq(Fifos), NEW f \in 1..Len(s), NEW x \in Fifos
  PROVE  /\ [s EXCEPT ![f] = x] \in Seq(Fifos) /\ Len([s EXCEPT ![f] = x]) = Len(s)
         /\ [s EXCEPT ![f] = x][f] = x
         /\ \A g \in 1..Len(s) : g # f => [s EXCEPT ![f] = x][g] = s[g]
BY ReplaceIs

-----------------------------------------------------------------------------
(* What each action changes                                                *)

\* The values, one by one
Shape ==
  /\ Len(queues) \in Nat /\ DOMAIN queues = 1..Len(queues)
  /\ \A q \in 1..Len(queues) : queues[q] \in Seq(Lines) /\ Len(queues[q]) \in Nat
       /\ DOMAIN queues[q] = 1..Len(queues[q])
  /\ Run \in Nat /\ DOMAIN received = 1..Run
  /\ \A r \in 1..Run : received[r] \in Seq(Lines) /\ Len(received[r]) \in Nat
       /\ DOMAIN received[r] = 1..Len(received[r])
  /\ Len(fifos) \in Nat /\ DOMAIN fifos = 1..Len(fifos)
  /\ \A f \in 1..Len(fifos) : fifos[f] \in Fifos /\ fifos[f].lines \in Seq(Lines)
       /\ Len(fifos[f].lines) \in Nat /\ DOMAIN fifos[f].lines = 1..Len(fifos[f].lines)
  /\ \A p \in 1..2 : disp[p].shown \in Seq(Lines) /\ Len(disp[p].shown) \in Nat
       /\ DOMAIN disp[p].shown = 1..Len(disp[p].shown)

\* The types say so.
LEMMA Values == Types => Shape
<1> SUFFICES ASSUME Types PROVE Shape
  OBVIOUS
<1>1. /\ queues \in Seq(Seq(Lines)) /\ received \in Seq(Seq(Lines)) /\ fifos \in Seq(Fifos)
      /\ \A p \in 1..2 : disp[p].shown \in Seq(Lines)
  BY DEF Types
<1>2. \A s \in Seq(Lines) : Len(s) \in Nat /\ DOMAIN s = 1..Len(s)
  BY LenProperties
<1>3. \A s \in Seq(Seq(Lines)) : Len(s) \in Nat /\ DOMAIN s = 1..Len(s) /\ \A k \in 1..Len(s) : s[k] \in Seq(Lines)
  BY LenProperties, ElementOfSeq
<1>4. \A s \in Seq(Fifos) : Len(s) \in Nat /\ DOMAIN s = 1..Len(s) /\ \A k \in 1..Len(s) : s[k] \in Fifos
  BY LenProperties, ElementOfSeq
<1>5. \A x \in Fifos : x.lines \in Seq(Lines)
  BY DEF Fifos
<1> QED
  BY <1>1, <1>2, <1>3, <1>4, <1>5 DEF Shape, Run

\* The menu opens the queue, or makes a new one.
LEMMA MenuStartIs ==
  ASSUME Types, MenuStart
  PROVE  /\ Types' /\ menu'.on /\ menu'.typed = menu.typed /\ menu'.q = qname'
         /\ qname' # 0 /\ Len(queues') >= Len(queues)
         /\ \A q \in 1..Len(queues) : queues'[q] = queues[q]
         /\ \A q \in 1..Len(queues') : q > Len(queues) => queues'[q] = << >>
<1> USE DEF MenuStart
<1>1. << >> \in Seq(Lines)
  BY EmptySeq
<1>2. Len(queues) \in Nat
  BY Values DEF Shape
<1>3. /\ queues' \in Seq(Seq(Lines)) /\ Len(queues') \in Nat /\ Len(queues') >= Len(queues)
      /\ qname' # 0 /\ qname' \in 0..Len(queues')
      /\ \A q \in 1..Len(queues) : queues'[q] = queues[q]
      /\ \A q \in 1..Len(queues') : q > Len(queues) => queues'[q] = << >>
  <2>1. CASE qname # 0 /\ UNCHANGED <<queues, qname>>
    BY <1>2, <2>1 DEF Types
  <2>2. CASE qname = 0 /\ queues' = Append(queues, << >>) /\ qname' = Len(queues')
    <3>1. queues \in Seq(Seq(Lines))
      BY DEF Types
    <3>2. /\ queues' \in Seq(Seq(Lines)) /\ Len(queues') = Len(queues) + 1
          /\ \A q \in 1..Len(queues) : queues'[q] = queues[q]
          /\ queues'[Len(queues) + 1] = << >>
      BY <1>1, <2>2, <3>1, AppendIs
    <3> QED
      BY <1>2, <2>2, <3>2
  <2> QED
    BY <2>1, <2>2
<1>4. menu'.on = TRUE /\ menu'.q = qname' /\ menu'.typed = menu.typed
      /\ menu' \in [on : BOOLEAN, q : 0..Len(queues'), typed : 0..MaxLines]
  BY <1>3 DEF Types
<1>5. cons' \in [pc : ConsStates, q : 0..Len(queues'), i : 1..2, fd : [1..2 -> Fds']]
  BY <1>2, <1>3 DEF Types, Fds
<1>6. Types'
  BY <1>3, <1>4, <1>5 DEF Types, Fds
<1> QED
  BY <1>3, <1>4, <1>6

\* A line with the next number is put into the queue of the menu.
LEMMA MenuSendIs ==
  ASSUME Types, Bounds, MenuSend
  PROVE  /\ Types' /\ menu'.q = menu.q /\ menu'.typed = menu.typed + 1
         /\ Len(queues') = Len(queues) /\ menu.q \in 1..Len(queues)
         /\ \A q \in 1..Len(queues) : q # menu.q => queues'[q] = queues[q]
         /\ \E l \in Lines : l.nr = menu.typed + 1 /\ queues'[menu.q] = Append(queues[menu.q], l)
<1> USE DEF MenuSend
<1>1. PICK w \in Words :
        /\ queues' = [queues EXCEPT ![menu.q] = Append(@, [nr |-> menu.typed + 1, word |-> w])]
        /\ menu' = [menu EXCEPT !.on = w # "quit", !.typed = @ + 1]
  OBVIOUS
<1> DEFINE l == [nr |-> menu.typed + 1, word |-> w]
<1>2. Len(queues) \in Nat /\ menu.q \in 1..Len(queues) /\ queues[menu.q] \in Seq(Lines)
  BY Values DEF Types, Bounds, Shape
<1>3. l \in Lines /\ l.nr = menu.typed + 1
  BY Assumed DEF Types, Lines
<1>4. Append(queues[menu.q], l) \in Seq(Lines)
  BY <1>2, <1>3, AppendIs
<1>5. queues' = [queues EXCEPT ![menu.q] = Append(queues[menu.q], l)]
  BY <1>1
<1> HIDE DEF l
<1>9. queues \in Seq(Seq(Lines))
  BY DEF Types
<1> DEFINE m == Append(queues[menu.q], l)
<1>10. queues' = [queues EXCEPT ![menu.q] = m] /\ m \in Seq(Lines)
  BY <1>4, <1>5
<1> HIDE DEF m
<1>6. /\ queues' \in Seq(Seq(Lines)) /\ Len(queues') = Len(queues)
      /\ \A q \in 1..Len(queues) : q # menu.q => queues'[q] = queues[q]
      /\ queues'[menu.q] = m
  BY <1>2, <1>9, <1>10, ReplaceIs
<1>7. menu'.q = menu.q /\ menu'.typed = menu.typed + 1
      /\ menu' \in [on : BOOLEAN, q : 0..Len(queues'), typed : 0..MaxLines]
  <2>1. menu.typed + 1 \in 0..MaxLines
    BY Assumed DEF Types
  <2>3. menu.q \in 0..Len(queues')
    BY <1>2, <1>6
  <2>4. (w # "quit") \in BOOLEAN
    OBVIOUS
  <2>2. menu \in [on : BOOLEAN, q : 0..Len(queues), typed : 0..MaxLines]
    BY DEF Types
  <2> QED
    BY <1>1, <2>1, <2>2, <2>3, <2>4
<1>8. Types'
  BY <1>6, <1>7 DEF Types, Fds
<1> QED
  BY <1>2, <1>3, <1>6, <1>7, <1>8 DEF m

\* A new run of the consumer has received nothing.
LEMMA ConsStartIs ==
  ASSUME Types, ConsStart
  PROVE  /\ Types' /\ cons'.pc = (IF Pipes = {} THEN "receive" ELSE "make")
         /\ cons'.q = qname /\ cons'.i = 1 /\ \A p \in 1..2 : cons'.fd[p] = 0
         /\ Run' = Run + 1 /\ \A r \in 1..Run : received'[r] = received[r]
         /\ received'[Run + 1] = << >>
<1> USE DEF ConsStart
<1>1. << >> \in Seq(Lines)
  BY EmptySeq
<1>2. /\ received' \in Seq(Seq(Lines)) /\ Run' = Run + 1
      /\ \A r \in 1..Run : received'[r] = received[r]
      /\ received'[Run + 1] = << >>
  BY <1>1, AppendIs DEF Types, Run
<1>3. Len(fifos) \in Nat
  BY Values DEF Shape
<1>4. /\ cons'.pc = (IF Pipes = {} THEN "receive" ELSE "make")
      /\ cons'.q = qname /\ cons'.i = 1 /\ \A p \in 1..2 : cons'.fd[p] = 0
      /\ cons' \in [pc : ConsStates, q : 0..Len(queues), i : 1..2, fd : [1..2 -> Fds]]
  <2> DEFINE fd == <<0, 0>>
  <2>1. fd \in [1..2 -> Fds]
    BY <1>3 DEF Fds
  <2>2. qname \in 0..Len(queues)
    BY DEF Types
  <2> DEFINE state == IF Pipes = {} THEN "receive" ELSE "make"
  <2>3. cons' = [pc |-> state, q |-> qname, i |-> 1, fd |-> fd]
    BY DEF NoConsumer
  <2>4. state \in ConsStates
    BY DEF ConsStates
  <2> HIDE DEF state, fd, ConsStart
  <2>5. cons' \in [pc : ConsStates, q : 0..Len(queues), i : 1..2, fd : [1..2 -> Fds]]
    BY <2>1, <2>2, <2>3, <2>4
  <2>6. cons'.pc = state /\ cons'.q = qname /\ cons'.i = 1 /\ cons'.fd = fd
    BY <2>3
  <2>7. fd[1] = 0 /\ fd[2] = 0
    BY DEF fd
  <2> QED
    BY <2>5, <2>6, <2>7 DEF state
<1>5. Types'
  BY <1>2, <1>4 DEF Types, Fds
<1> QED
  BY <1>2, <1>4, <1>5

\* A new pipe is made, and its name stands for it.
LEMMA MakePipeIs ==
  ASSUME Types, ConsumerInv, MakePipe
  PROVE  /\ Types' /\ cons' = [cons EXCEPT !.pc = "open"]
         /\ Len(fifos') = Len(fifos) + 1 /\ \A f \in 1..Len(fifos) : fifos'[f] = fifos[f]
         /\ fifos'[Len(fifos) + 1] = [run |-> Run, lines |-> << >>, w |-> FALSE, r |-> FALSE,
                                      used |-> FALSE]
         /\ fname'[cons.i] = Len(fifos) + 1
         /\ \A p \in 1..2 : p # cons.i => fname'[p] = fname[p]
<1> USE DEF MakePipe
<1> DEFINE x == [run |-> Run, lines |-> << >>, w |-> FALSE, r |-> FALSE, used |-> FALSE]
<1>1. x \in Fifos
  BY EmptySeq, Values DEF Fifos, Shape
<1> HIDE DEF x
<1>2. /\ fifos' \in Seq(Fifos) /\ Len(fifos') = Len(fifos) + 1
      /\ \A f \in 1..Len(fifos) : fifos'[f] = fifos[f]
      /\ fifos'[Len(fifos) + 1] = x
  BY <1>1, AppendIs DEF Types, x
<1>3. Len(fifos) \in Nat
  BY Values DEF Shape
<1>4. /\ fname' \in [1..2 -> Fds'] /\ fname'[cons.i] = Len(fifos) + 1
      /\ \A p \in 1..2 : p # cons.i => fname'[p] = fname[p]
  BY <1>2, <1>3 DEF Types, Fds
<1>5. cons' \in [pc : ConsStates, q : 0..Len(queues), i : 1..2, fd : [1..2 -> Fds']]
  <2>1. cons.fd \in [1..2 -> Fds']
    BY <1>2, <1>3 DEF Types, Fds
  <2> QED
    BY <2>1 DEF Types, ConsStates
<1>6. disp' \in [1..2 -> [pc : DispStates, fd : Fds', shown : Seq(Lines), again : BOOLEAN]]
  <2>1. \A p \in 1..2 : disp[p] \in [pc : DispStates, fd : Fds', shown : Seq(Lines), again : BOOLEAN]
    BY <1>2, <1>3 DEF Types, Fds
  <2> QED
    BY <2>1 DEF Types
<1>7. Types'
  BY <1>2, <1>4, <1>5, <1>6 DEF Types
<1> QED
  BY <1>2, <1>4, <1>7 DEF x

\* What the consumer has open is closed.
LEMMA GoneIs ==
  ASSUME Types, FifoInv, Gone
  PROVE  /\ cons' = NoConsumer /\ fifos' \in Seq(Fifos) /\ Len(fifos') = Len(fifos)
         /\ \A f \in 1..Len(fifos) : fifos'[f] = [fifos[f] EXCEPT !.w = FALSE]
         /\ cons' \in [pc : ConsStates, q : 0..Len(queues), i : 1..2, fd : [1..2 -> Fds]]
<1> USE DEF Gone
<1>1. Len(fifos) \in Nat /\ DOMAIN fifos = 1..Len(fifos) /\ \A f \in 1..Len(fifos) : fifos[f] \in Fifos
  BY Values DEF Shape
<1>2. \A f \in 1..Len(fifos) : fifos[f].w /\ f \notin Range(cons.fd) => FALSE
  <2>1. cons.fd \in [1..2 -> Fds]
    BY DEF Types
  <2>2. \A p \in 1..2 : cons.fd[p] \in Range(cons.fd)
    BY <2>1 DEF Range
  <2> QED
    BY <1>1, <2>2 DEF FifoInv
<1>3. \A f \in 1..Len(fifos) : (fifos[f].w /\ f \notin Range(cons.fd)) = FALSE
  BY <1>2
<1>4. fifos' = [f \in 1..Len(fifos) |-> [fifos[f] EXCEPT !.w = FALSE]]
  <2>1. fifos' = [f \in 1..Len(fifos) |-> [fifos[f] EXCEPT !.w = fifos[f].w /\ f \notin Range(cons.fd)]]
    BY <1>1
  <2>2. \A f \in 1..Len(fifos) : [fifos[f] EXCEPT !.w = fifos[f].w /\ f \notin Range(cons.fd)]
                               = [fifos[f] EXCEPT !.w = FALSE]
    BY <1>3
  <2> QED
    BY <2>1, <2>2
<1>5. \A f \in 1..Len(fifos) : [fifos[f] EXCEPT !.w = FALSE] \in Fifos
  BY <1>1 DEF Fifos
<1>6. fifos' \in [1..Len(fifos) -> Fifos]
  BY <1>4, <1>5
<1>7. fifos' \in Seq(Fifos) /\ Len(fifos') = Len(fifos)
  <2>1. fifos' \in Seq(Fifos)
    BY <1>1, <1>6, SeqDef
  <2>2. Len(fifos') \in Nat /\ DOMAIN fifos' = 1..Len(fifos') /\ DOMAIN fifos' = 1..Len(fifos)
    BY <1>6, <2>1, LenProperties
  <2> QED
    BY <1>1, <2>1, <2>2
<1>8. cons' \in [pc : ConsStates, q : 0..Len(queues), i : 1..2, fd : [1..2 -> Fds]]
  <2>1. <<0, 0>> \in [1..2 -> Fds] /\ 0 \in 0..Len(queues)
    BY <1>1, Values DEF Fds, Shape
  <2> QED
    BY <2>1 DEF NoConsumer, ConsStates
<1> QED
  BY <1>4, <1>7, <1>8

\* Past, when the consumer waits and when it writes
LEMMA PastIs ==
  ASSUME Types, cons.i \in Pipes, NEW next \in ConsStates,
         NEW c \in [pc : ConsStates, q : 0..Len(queues), i : 1..2, fd : [1..2 -> Fds]],
         c.i = cons.i, c.q = cons.q
  PROVE  /\ Past(c, next) \in [pc : ConsStates, q : 0..Len(queues), i : 1..2, fd : [1..2 -> Fds]]
         /\ Past(c, next).q = c.q /\ Past(c, next).fd = c.fd
         /\ cons.i + 1 \in Pipes => /\ Past(c, next).i = cons.i + 1
                                    /\ Past(c, next).pc = (IF c.pc = "write" THEN "write" ELSE "make")
         /\ cons.i + 1 \notin Pipes => Past(c, next).i = 1 /\ Past(c, next).pc = next
<1>1. Pipes \subseteq 1..2
  BY PipesAre DEF Types
<1>2. CASE cons.i + 1 \in Pipes
  <2>1. Past(c, next) = [c EXCEPT !.i = c.i + 1, !.pc = IF c.pc = "write" THEN c.pc ELSE "make"]
    BY <1>2 DEF Past
  <2> QED
    BY <1>1, <1>2, <2>1 DEF ConsStates
<1>3. CASE cons.i + 1 \notin Pipes
  <2>1. Past(c, next) = [c EXCEPT !.i = 1, !.pc = next]
    BY <1>3 DEF Past
  <2>2. 1 \in 1..2
    OBVIOUS
  <2> QED
    BY <1>3, <2>1, <2>2
<1> QED
  BY <1>2, <1>3

\* open fails only when the name is gone.
LEMMA OpenPipeIs ==
  ASSUME Types, ConsumerInv, FifoInv, OpenPipe
  PROVE  LET f == fname[cons.i]
         IN  /\ Types'
             /\ f = 0 => Gone /\ disp' = disp
             /\ f # 0 =>
                  /\ f \in 1..Len(fifos) /\ Len(fifos') = Len(fifos)
                  /\ fifos'[f] = [fifos[f] EXCEPT !.w = TRUE]
                  /\ \A g \in 1..Len(fifos) : g # f => fifos'[g] = fifos[g]
                  /\ cons'.q = cons.q /\ cons'.fd = [cons.fd EXCEPT ![cons.i] = f]
                  /\ ~fifos[f].r => cons'.pc = "wait" /\ cons'.i = cons.i /\ disp' = disp
                  /\ fifos[f].r /\ cons.i + 1 \in Pipes => cons'.i = cons.i + 1 /\ cons'.pc = "make"
                  /\ fifos[f].r /\ cons.i + 1 \notin Pipes => cons'.i = 1 /\ cons'.pc = "receive"
                  /\ fifos[f].r => disp'[cons.i] = [disp[cons.i] EXCEPT !.pc = "read"]
                  /\ \A p \in 1..2 : p # cons.i => disp'[p] = disp[p]
<1> USE DEF OpenPipe
<1> DEFINE f == fname[cons.i]
           fd == [cons.fd EXCEPT ![cons.i] = f]
           c == [cons EXCEPT !.pc = "wait", !.fd = fd]
<1>1. /\ cons \in [pc : ConsStates, q : 0..Len(queues), i : 1..2, fd : [1..2 -> Fds]]
      /\ cons.i \in Pipes /\ cons.pc = "open" /\ f \in Fds
  BY DEF Types, ConsumerInv
<1>2. /\ fifos \in Seq(Fifos) /\ Len(fifos) \in Nat
      /\ disp \in [1..2 -> [pc : DispStates, fd : Fds, shown : Seq(Lines), again : BOOLEAN]]
  BY Values DEF Types, Shape
<1>3. CASE f = 0
  <2>1. Gone /\ disp' = disp
    BY <1>3
  <2>2. Types'
    BY <2>1, GoneIs DEF Types, Fds
  <2> QED
    BY <1>3, <2>1, <2>2
<1>4. CASE f # 0
  <2> DEFINE x == [fifos[f] EXCEPT !.w = TRUE]
  <2>1. fd \in [1..2 -> Fds]
    BY <1>1
  <2>2. f \in 1..Len(fifos)
    BY <1>1, <1>2, <1>4 DEF Fds
  <2>3. x \in Fifos
    BY <2>2, Values DEF Fifos, Shape
  <2>4. fifos' = [fifos EXCEPT ![f] = x]
    BY <1>4
  <2>5. c = [cons EXCEPT !.fd[cons.i] = f, !.pc = "wait"]
    BY <1>1
  <2>6. /\ cons' = IF fifos[f].r THEN Past(c, "receive") ELSE c
        /\ disp' = IF fifos[f].r THEN [disp EXCEPT ![cons.i].pc = "read"] ELSE disp
    BY <1>4, <2>5
  <2> HIDE DEF x
  <2>7. /\ fifos' \in Seq(Fifos) /\ Len(fifos') = Len(fifos) /\ fifos'[f] = x
        /\ \A g \in 1..Len(fifos) : g # f => fifos'[g] = fifos[g]
    BY <1>2, <2>2, <2>3, <2>4, FifoIs
  <2>8. /\ cons' \in [pc : ConsStates, q : 0..Len(queues), i : 1..2, fd : [1..2 -> Fds]]
        /\ cons'.q = cons.q /\ cons'.fd = fd
        /\ ~fifos[f].r => cons'.pc = "wait" /\ cons'.i = cons.i
        /\ fifos[f].r /\ cons.i + 1 \in Pipes => cons'.i = cons.i + 1 /\ cons'.pc = "make"
        /\ fifos[f].r /\ cons.i + 1 \notin Pipes => cons'.i = 1 /\ cons'.pc = "receive"
    <3>1. CASE fifos[f].r
      <4>1. cons' = Past(c, "receive")
        BY <2>6, <3>1
      <4>2. "receive" \in ConsStates /\ "wait" \in ConsStates
        BY DEF ConsStates
      <4>3. /\ c \in [pc : ConsStates, q : 0..Len(queues), i : 1..2, fd : [1..2 -> Fds]]
            /\ c.i = cons.i /\ c.q = cons.q /\ c.pc = "wait" /\ c.fd = fd
        BY <1>1, <2>1, <4>2
      <4> HIDE DEF fd, c
      <4>4. /\ cons' \in [pc : ConsStates, q : 0..Len(queues), i : 1..2, fd : [1..2 -> Fds]]
            /\ cons'.q = c.q /\ cons'.fd = c.fd
            /\ cons.i + 1 \in Pipes =>
                 cons'.i = cons.i + 1 /\ cons'.pc = (IF c.pc = "write" THEN "write" ELSE "make")
            /\ cons.i + 1 \notin Pipes => cons'.i = 1 /\ cons'.pc = "receive"
        BY <1>1, <4>1, <4>2, <4>3, PastIs
      <4> QED
        BY <3>1, <4>3, <4>4
    <3>2. CASE ~fifos[f].r
      <4>1. cons' = c
        BY <2>6, <3>2
      <4> HIDE DEF fd
      <4> QED
        BY <1>1, <2>1, <3>2, <4>1 DEF ConsStates
    <3> QED
      BY <3>1, <3>2
  <2>9. /\ disp' \in [1..2 -> [pc : DispStates, fd : Fds, shown : Seq(Lines), again : BOOLEAN]]
        /\ fifos[f].r => disp'[cons.i] = [disp[cons.i] EXCEPT !.pc = "read"]
        /\ ~fifos[f].r => disp' = disp
        /\ \A p \in 1..2 : p # cons.i => disp'[p] = disp[p]
    <3>1. CASE fifos[f].r
      <4>1. disp' = [disp EXCEPT ![cons.i].pc = "read"]
        BY <2>6, <3>1
      <4>2. [disp[cons.i] EXCEPT !.pc = "read"] \in [pc : DispStates, fd : Fds, shown : Seq(Lines), again : BOOLEAN]
        <5>1. disp[cons.i] \in [pc : DispStates, fd : Fds, shown : Seq(Lines), again : BOOLEAN]
          BY <1>1, <1>2
        <5> QED
          BY <5>1 DEF DispStates
      <4>3. disp' = [disp EXCEPT ![cons.i] = [disp[cons.i] EXCEPT !.pc = "read"]]
        BY <4>1
      <4> QED
        BY <1>1, <1>2, <3>1, <4>2, <4>3
    <3>2. CASE ~fifos[f].r
      BY <1>2, <2>6, <3>2
    <3> QED
      BY <3>1, <3>2
  <2>10. Types'
    BY <2>7, <2>8, <2>9 DEF Types, Fds
  <2> QED
    BY <1>4, <2>2, <2>7, <2>8, <2>9, <2>10 DEF x
<1> QED
  BY <1>3, <1>4

\* A line is taken from the queue.
LEMMA ReceiveIs ==
  ASSUME Types, ConsumerInv, Receive
  PROVE  LET q == cons.q
         IN  /\ Types' /\ q \in 1..Len(queues) /\ queues[q] # << >> /\ Run \in 1..Run
             /\ cons'.q = q /\ cons'.fd = cons.fd /\ cons'.i = cons.i
             /\ cons'.pc = (IF Pipes = {} THEN AfterLine(queues[q][1]) ELSE "write")
             /\ Run' = Run /\ \A r \in 1..Run : r # Run => received'[r] = received[r]
             /\ received'[Run] = Append(received[Run], queues[q][1]) /\ queues[q][1] \in Lines
             /\ Len(queues') = Len(queues) /\ queues'[q] = Tail(queues[q])
             /\ \A k \in 1..Len(queues) : k # q => queues'[k] = queues[k]
<1> USE DEF Receive
<1> DEFINE q == cons.q
           l == queues[q][1]
<1>1. /\ queues \in Seq(Seq(Lines)) /\ received \in Seq(Seq(Lines)) /\ Len(queues) \in Nat
      /\ cons \in [pc : ConsStates, q : 0..Len(queues), i : 1..2, fd : [1..2 -> Fds]]
  BY Values DEF Types, Shape
<1>2. q \in 1..Len(queues) /\ Run \in 1..Run /\ queues[q] # << >>
  BY <1>1, Values DEF ConsumerInv, Shape
<1>3. queues[q] \in Seq(Lines) /\ received[Run] \in Seq(Lines)
  BY <1>2, Values DEF Shape
<1>4. Head(queues[q]) = l /\ l \in Lines /\ Tail(queues[q]) \in Seq(Lines)
  <2>1. Len(queues[q]) # 0
    BY <1>2, <1>3, EmptySeq
  <2>2. 1 \in 1..Len(queues[q])
    BY <1>3, <2>1, LenProperties
  <2>3. \A s \in Seq(Lines) : s # << >> => Head(s) = s[1] /\ Tail(s) \in Seq(Lines)
    BY HeadTailProperties
  <2> QED
    BY <1>2, <1>3, <2>2, <2>3, ElementOfSeq
<1> HIDE DEF l
<1>5. Append(received[Run], l) \in Seq(Lines)
  BY <1>3, <1>4, AppendIs
<1>6. /\ received' \in Seq(Seq(Lines)) /\ Len(received') = Len(received)
      /\ received'[Run] = Append(received[Run], l)
      /\ \A r \in 1..Run : r # Run => received'[r] = received[r]
  <2> DEFINE t == Append(received[Run], l)
  <2>1. received' = [received EXCEPT ![Run] = t]
    BY <1>4
  <2>2. Run \in 1..Len(received) /\ t \in Seq(Lines)
    BY <1>2, <1>5 DEF Run
  <2> HIDE DEF t
  <2>3. /\ received' \in Seq(Seq(Lines)) /\ Len(received') = Len(received) /\ received'[Run] = t
        /\ \A r \in 1..Len(received) : r # Run => received'[r] = received[r]
    BY <1>1, <2>1, <2>2, ReplaceIs
  <2> QED
    BY <2>3 DEF t, Run
<1>7. /\ queues' \in Seq(Seq(Lines)) /\ Len(queues') = Len(queues) /\ queues'[q] = Tail(queues[q])
      /\ \A k \in 1..Len(queues) : k # q => queues'[k] = queues[k]
  <2> DEFINE t == Tail(queues[q])
  <2>1. queues' = [queues EXCEPT ![q] = t]
    OBVIOUS
  <2>2. t \in Seq(Lines)
    BY <1>4
  <2>0. queues \in Seq(Seq(Lines)) /\ q \in 1..Len(queues)
    BY <1>1, <1>2
  <2> HIDE DEF t, q, Receive
  <2>3. /\ queues' \in Seq(Seq(Lines)) /\ Len(queues') = Len(queues) /\ queues'[q] = t
        /\ \A k \in 1..Len(queues) : k # q => queues'[k] = queues[k]
    BY <2>0, <2>1, <2>2, ReplaceIs
  <2> QED
    BY <2>3 DEF t, q
<1>8. Run' = Run
  BY <1>6 DEF Run
<1>9. /\ cons' \in [pc : ConsStates, q : 0..Len(queues), i : 1..2, fd : [1..2 -> Fds]]
      /\ cons'.q = q /\ cons'.fd = cons.fd /\ cons'.i = cons.i
      /\ cons'.pc = (IF Pipes = {} THEN AfterLine(l) ELSE "write")
  <2> DEFINE state == IF Pipes = {} THEN AfterLine(l) ELSE "write"
  <2>1. cons' = [cons EXCEPT !.pc = state]
    BY <1>4
  <2>2. state \in ConsStates
    BY DEF AfterLine, ConsStates
  <2> HIDE DEF state
  <2>3. /\ cons' \in [pc : ConsStates, q : 0..Len(queues), i : 1..2, fd : [1..2 -> Fds]]
        /\ cons'.q = q /\ cons'.fd = cons.fd /\ cons'.i = cons.i /\ cons'.pc = state
    BY <1>1, <2>1, <2>2
  <2> QED
    BY <2>3 DEF state
<1>10. Types'
  BY <1>6, <1>7, <1>9 DEF Types, Fds
<1> QED
  BY <1>2, <1>4, <1>6, <1>7, <1>8, <1>9, <1>10 DEF l

\* A line is written, or nobody reads and the consumer ends.
LEMMA WriteIs ==
  ASSUME Types, ConsumerInv, FifoInv, cons.pc = "write" => cons.fd[cons.i] # 0, Write
  PROVE  LET f == cons.fd[cons.i]
             l == received[Run][Len(received[Run])]
         IN  /\ Types' /\ f \in 1..Len(fifos) /\ Run \in 1..Run /\ received[Run] # << >> /\ l \in Lines
             /\ ~fifos[f].r => Gone /\ mishaps' = mishaps \cup {"broken"}
             /\ fifos[f].r =>
                  /\ mishaps' = mishaps /\ Len(fifos') = Len(fifos)
                  /\ fifos'[f] = [fifos[f] EXCEPT !.lines = Append(fifos[f].lines, l)]
                  /\ \A g \in 1..Len(fifos) : g # f => fifos'[g] = fifos[g]
                  /\ cons'.q = cons.q /\ cons'.fd = cons.fd
                  /\ cons.i + 1 \in Pipes => cons'.i = cons.i + 1 /\ cons'.pc = "write"
                  /\ cons.i + 1 \notin Pipes => cons'.i = 1 /\ cons'.pc = AfterLine(l)
<1> USE DEF Write
<1> DEFINE f == cons.fd[cons.i]
           l == received[Run][Len(received[Run])]
<1>1. /\ cons \in [pc : ConsStates, q : 0..Len(queues), i : 1..2, fd : [1..2 -> Fds]]
      /\ cons.pc = "write" /\ cons.i \in Pipes /\ received[Run] # << >> /\ cons.q # 0
      /\ fifos \in Seq(Fifos) /\ Len(fifos) \in Nat /\ Run \in 1..Run
  BY Values DEF Types, ConsumerInv, Shape
<1>2. f \in 1..Len(fifos)
  BY <1>1 DEF Fds
<1>3. received[Run] \in Seq(Lines)
  BY <1>1, Values DEF Shape
<1>4. Last(received[Run]) = l /\ l \in Lines
  <2>1. Len(received[Run]) # 0
    BY <1>1, <1>3, EmptySeq
  <2>2. Len(received[Run]) \in 1..Len(received[Run])
    BY <1>3, <2>1, LenProperties
  <2> QED
    BY <1>3, <2>2, ElementOfSeq DEF Last
<1> HIDE DEF l
<1>5. CASE ~fifos[f].r
  <2>1. Gone /\ mishaps' = mishaps \cup {"broken"}
    BY <1>5
  <2>2. mishaps' \subseteq Mishaps
    BY <2>1 DEF Types, Mishaps
  <2>3. Types'
    BY <2>1, <2>2, GoneIs DEF Types, Fds
  <2> QED
    BY <1>1, <1>2, <1>4, <1>5, <2>1, <2>3 DEF l
<1>6. CASE fifos[f].r
  <2> DEFINE ll == Append(fifos[f].lines, l)
             x == [fifos[f] EXCEPT !.lines = ll]
  <2>1. ll \in Seq(Lines)
    BY <1>2, <1>4, Values, AppendIs DEF Shape
  <2>2. fifos' = [fifos EXCEPT ![f] = x] /\ cons' = Past(cons, AfterLine(l)) /\ mishaps' = mishaps
    BY <1>4, <1>6
  <2> HIDE DEF ll
  <2>3. x \in Fifos
    BY <1>2, <2>1, Values DEF Fifos, Shape
  <2> HIDE DEF x
  <2>4. /\ fifos' \in Seq(Fifos) /\ Len(fifos') = Len(fifos) /\ fifos'[f] = x
        /\ \A g \in 1..Len(fifos) : g # f => fifos'[g] = fifos[g]
    BY <1>1, <1>2, <2>2, <2>3, FifoIs
  <2>5. AfterLine(l) \in ConsStates
    BY DEF AfterLine, ConsStates
  <2>6. /\ cons' \in [pc : ConsStates, q : 0..Len(queues), i : 1..2, fd : [1..2 -> Fds]]
        /\ cons'.q = cons.q /\ cons'.fd = cons.fd
        /\ cons.i + 1 \in Pipes => cons'.i = cons.i + 1 /\ cons'.pc = "write"
        /\ cons.i + 1 \notin Pipes => cons'.i = 1 /\ cons'.pc = AfterLine(l)
    BY <1>1, <2>2, <2>5, PastIs
  <2>7. Types'
    BY <2>2, <2>4, <2>6 DEF Types, Fds
  <2> QED
    BY <1>1, <1>2, <1>4, <1>6, <2>2, <2>4, <2>6, <2>7 DEF l, x, ll
<1> QED
  BY <1>5, <1>6

\* The name of the queue is gone, the queue is not.
LEMMA UnlinkQueueIs ==
  ASSUME Types, UnlinkQueue
  PROVE  Types' /\ cons' = [cons EXCEPT !.pc = "exit"]
<1>1. [cons EXCEPT !.pc = "exit"] \in [pc : ConsStates, q : 0..Len(queues), i : 1..2, fd : [1..2 -> Fds]]
  BY DEF Types, ConsStates
<1>2. qname' \in 0..Len(queues)
  BY Values DEF UnlinkQueue, Shape
<1> QED
  BY <1>1, <1>2 DEF Types, UnlinkQueue, Fds

\* What the consumer has open is closed and the names of its pipes are gone.
LEMMA ConsExitIs ==
  ASSUME Types, FifoInv, ConsExit
  PROVE  /\ Types' /\ Gone
         /\ \A p \in 1..2 : fname'[p] = IF p \in Pipes THEN 0 ELSE fname[p]
<1> USE DEF ConsExit
<1>1. \A p \in 1..2 : fname'[p] = IF p \in Pipes THEN 0 ELSE fname[p]
  BY DEF NamesLeft
<1>2. fname' \in [1..2 -> Fds]
  <2>1. \A p \in 1..2 : fname[p] \in Fds /\ 0 \in Fds
    <3>1. Len(fifos) \in Nat /\ fname \in [1..2 -> Fds]
      BY Values DEF Types, Shape
    <3> QED
      BY <3>1 DEF Fds
  <2> QED
    BY <2>1 DEF NamesLeft
<1>3. Gone
  OBVIOUS
<1>4. Types'
  BY <1>2, <1>3, GoneIs DEF Types, Fds
<1> QED
  BY <1>1, <1>3, <1>4

\* A display comes; perhaps the consumer has waited for it.
LEMMA DispOpenIs ==
  ASSUME Types, ConsumerInv, NEW p \in Pipes, DispOpen(p)
  PROVE  LET f == fname[p]
         IN  /\ Types' /\ f \in 1..Len(fifos) /\ p \in 1..2 /\ disp[p].pc = "off"
             /\ disp'[p] = [disp[p] EXCEPT !.pc = IF fifos[f].w THEN "read" ELSE "wait", !.fd = f]
             /\ \A o \in 1..2 : o # p => disp'[o] = disp[o]
             /\ Len(fifos') = Len(fifos)
             /\ fifos'[f] = [fifos[f] EXCEPT !.r = TRUE, !.used = TRUE]
             /\ \A g \in 1..Len(fifos) : g # f => fifos'[g] = fifos[g]
             /\ mishaps \subseteq mishaps' /\ (fifos[f].used => mishaps' # {})
             /\ mishaps' \cap {"crossed", "broken"} = mishaps \cap {"crossed", "broken"}
             /\ ~(cons.pc = "wait" /\ cons.fd[cons.i] = f) => cons' = cons
             /\ cons.pc = "wait" /\ cons.fd[cons.i] = f =>
                  /\ cons'.q = cons.q /\ cons'.fd = cons.fd
                  /\ cons.i + 1 \in Pipes => cons'.i = cons.i + 1 /\ cons'.pc = "make"
                  /\ cons.i + 1 \notin Pipes => cons'.i = 1 /\ cons'.pc = "receive"
<1> USE DEF DispOpen
<1> DEFINE f == fname[p]
           x == [fifos[f] EXCEPT !.r = TRUE, !.used = TRUE]
           state == IF fifos[f].w THEN "read" ELSE "wait"
           d == [disp[p] EXCEPT !.pc = state, !.fd = f]
<1>1. /\ cons \in [pc : ConsStates, q : 0..Len(queues), i : 1..2, fd : [1..2 -> Fds]]
      /\ fifos \in Seq(Fifos) /\ Len(fifos) \in Nat /\ f \in Fds /\ f # 0 /\ p \in 1..2
      /\ disp \in [1..2 -> [pc : DispStates, fd : Fds, shown : Seq(Lines), again : BOOLEAN]]
  BY Values, PipesAre DEF Types, Shape
<1>2. f \in 1..Len(fifos)
  BY <1>1 DEF Fds
<1>3. x \in Fifos
  BY <1>2, Values DEF Fifos, Shape
<1>4. fifos' = [fifos EXCEPT ![f] = x]
  OBVIOUS
<1> HIDE DEF x, f
<1>5. /\ fifos' \in Seq(Fifos) /\ Len(fifos') = Len(fifos) /\ fifos'[f] = x
      /\ \A g \in 1..Len(fifos) : g # f => fifos'[g] = fifos[g]
  <2> HIDE DEF DispOpen
  <2> QED
    BY <1>1, <1>2, <1>3, <1>4, FifoIs
<1>6. /\ disp' \in [1..2 -> [pc : DispStates, fd : Fds, shown : Seq(Lines), again : BOOLEAN]]
      /\ disp'[p] = d /\ \A o \in 1..2 : o # p => disp'[o] = disp[o]
  <2>1. disp' = [disp EXCEPT ![p] = d]
    BY <1>1 DEF f
  <2>2. state \in DispStates
    BY DEF DispStates
  <2> HIDE DEF state
  <2>3. disp[p] \in [pc : DispStates, fd : Fds, shown : Seq(Lines), again : BOOLEAN]
    BY <1>1
  <2>4. d \in [pc : DispStates, fd : Fds, shown : Seq(Lines), again : BOOLEAN]
    BY <1>1, <2>2, <2>3
  <2> HIDE DEF d, DispOpen
  <2> QED
    BY <1>1, <2>1, <2>4
<1> USE DEF f
<1>7. /\ mishaps' \subseteq Mishaps /\ mishaps \subseteq mishaps'
      /\ fifos[f].used => mishaps' # {}
      /\ mishaps' \cap {"crossed", "broken"} = mishaps \cap {"crossed", "broken"}
  BY DEF Types, Mishaps
<1>8. /\ cons' \in [pc : ConsStates, q : 0..Len(queues), i : 1..2, fd : [1..2 -> Fds]]
      /\ ~(cons.pc = "wait" /\ cons.fd[cons.i] = f) => cons' = cons
      /\ cons.pc = "wait" /\ cons.fd[cons.i] = f =>
           /\ cons'.q = cons.q /\ cons'.fd = cons.fd
           /\ cons.i + 1 \in Pipes => cons'.i = cons.i + 1 /\ cons'.pc = "make"
           /\ cons.i + 1 \notin Pipes => cons'.i = 1 /\ cons'.pc = "receive"
  <2>1. CASE ~(cons.pc = "wait" /\ cons.fd[cons.i] = f)
    BY <1>1, <2>1
  <2>2. CASE cons.pc = "wait" /\ cons.fd[cons.i] = f
    <3>1. cons' = Past(cons, "receive")
      BY <2>2
    <3>2. "receive" \in ConsStates /\ cons.i \in Pipes /\ cons.pc # "write"
      BY <2>2 DEF ConsStates, ConsumerInv
    <3>3. /\ cons' \in [pc : ConsStates, q : 0..Len(queues), i : 1..2, fd : [1..2 -> Fds]]
          /\ cons'.q = cons.q /\ cons'.fd = cons.fd
          /\ cons.i + 1 \in Pipes => cons'.i = cons.i + 1 /\ cons'.pc = (IF cons.pc = "write" THEN "write" ELSE "make")
          /\ cons.i + 1 \notin Pipes => cons'.i = 1 /\ cons'.pc = "receive"
      BY <1>1, <3>1, <3>2, PastIs
    <3> QED
      BY <2>2, <3>2, <3>3
  <2> QED
    BY <2>1, <2>2
<1>9. Types'
  BY <1>5, <1>6, <1>7, <1>8 DEF Types, Fds
<1> QED
  BY <1>1, <1>2, <1>5, <1>6, <1>7, <1>8, <1>9 DEF x, d

\* The first of the lines is shown, or more than one is taken.
LEMMA ReadIs ==
  ASSUME Types, NEW p \in Pipes, disp[p].pc # "off" => disp[p].fd # 0, Read(p)
  PROVE  LET f == disp[p].fd
             s == fifos[f].lines
         IN  /\ Types' /\ f \in 1..Len(fifos) /\ p \in 1..2 /\ disp[p].pc = "read"
             /\ 1 \in 1..Len(s) /\ s[1] \in Lines
             /\ disp'[p] = [disp[p] EXCEPT !.shown = Append(disp[p].shown, s[1]),
                                           !.pc = IF Quits(s[1]) THEN "end" ELSE disp[p].pc]
             /\ \A o \in 1..2 : o # p => disp'[o] = disp[o]
             /\ Len(fifos') = Len(fifos) /\ mishaps \subseteq mishaps'
             /\ mishaps' \cap {"crossed", "broken"} = mishaps \cap {"crossed", "broken"}
             /\ \A g \in 1..Len(fifos) : g # f => fifos'[g] = fifos[g]
             /\ \E n \in 1..Len(s), left \in Seq(Lines) :
                  /\ fifos'[f] = [fifos[f] EXCEPT !.lines = left]
                  /\ Len(left) = Len(s) - n /\ DOMAIN left = 1..Len(s) - n
                  /\ \A k \in 1..Len(left) : left[k].nr = s[k + n].nr
                  /\ mishaps' = {} => n = 1 /\ \A k \in 1..Len(left) : left[k] = s[k + 1]
<1> USE DEF Read
<1> DEFINE f == disp[p].fd
           s == fifos[f].lines
<1>1. /\ fifos \in Seq(Fifos) /\ Len(fifos) \in Nat /\ f \in Fds /\ p \in 1..2
      /\ disp \in [1..2 -> [pc : DispStates, fd : Fds, shown : Seq(Lines), again : BOOLEAN]]
  BY Values, PipesAre DEF Types, Shape
<1>2. f \in 1..Len(fifos)
  BY <1>1 DEF Fds
<1>3. s \in Seq(Lines) /\ s # << >>
  BY <1>2, Values DEF Shape
<1>4. 1 \in 1..Len(s) /\ Head(s) = s[1] /\ s[1] \in Lines
  <2>1. Len(s) # 0
    BY <1>3, EmptySeq
  <2>2. 1 \in 1..Len(s)
    BY <1>3, <2>1, LenProperties
  <2> QED
    BY <1>3, <2>2, ElementOfSeq
<1>5. PICK n \in 1..Len(s), cut \in BOOLEAN :
        /\ cut => n < Len(s)
        /\ LET rest == SubSeq(s, n + 1, Len(s))
           IN  fifos' = [fifos EXCEPT ![f].lines =
                           IF cut THEN [rest EXCEPT ![1].word = "text"] ELSE rest]
        /\ mishaps' = mishaps \cup IF n > 1 \/ cut THEN {"merged"} ELSE {}
  OBVIOUS
<1> DEFINE rest == SubSeq(s, n + 1, Len(s))
           left == LeftOf(s, n, cut)
           x == [fifos[f] EXCEPT !.lines = left]
<1>6. /\ left \in Seq(Lines) /\ Len(left) = Len(s) - n /\ DOMAIN left = 1..Len(s) - n
      /\ \A k \in 1..Len(left) : left[k].nr = s[k + n].nr
      /\ ~cut => \A k \in 1..Len(left) : left[k] = s[k + n]
  <2> HIDE DEF s, Read
  <2> QED
    BY <1>3, <1>5, LeftIs
<1>7. fifos' = [fifos EXCEPT ![f] = [fifos[f] EXCEPT !.lines = left]]
  BY <1>5 DEF LeftOf
<1> HIDE DEF left, Read
<1>8. x \in Fifos
  <2>1. fifos[f] \in Fifos
    BY <1>2, Values DEF Shape
  <2> QED
    BY <1>6, <2>1 DEF Fifos
<1> HIDE DEF x
<1>9. /\ fifos' \in Seq(Fifos) /\ Len(fifos') = Len(fifos) /\ fifos'[f] = x
      /\ \A g \in 1..Len(fifos) : g # f => fifos'[g] = fifos[g]
  <2>1. fifos' = [fifos EXCEPT ![f] = x]
    BY <1>7 DEF x
  <2> HIDE DEF f
  <2> QED
    BY <1>1, <1>2, <2>1, <1>8, FifoIs
<1>10. /\ mishaps' \subseteq Mishaps /\ mishaps \subseteq mishaps'
       /\ mishaps' = {} => n = 1 /\ ~cut
       /\ mishaps' \cap {"crossed", "broken"} = mishaps \cap {"crossed", "broken"}
  <2>1. n = 1 \/ n > 1
    BY <1>3, <1>5, LenProperties
  <2> QED
    BY <1>5, <2>1 DEF Types, Mishaps
<1> USE DEF Read
<1> DEFINE seen == Append(disp[p].shown, s[1])
           state == IF Quits(s[1]) THEN "end" ELSE disp[p].pc
           d == [disp[p] EXCEPT !.shown = seen, !.pc = state]
<1>11. /\ disp' \in [1..2 -> [pc : DispStates, fd : Fds, shown : Seq(Lines), again : BOOLEAN]]
       /\ disp'[p] = d /\ \A o \in 1..2 : o # p => disp'[o] = disp[o]
  <2>1. disp' = [disp EXCEPT ![p] = d]
    BY <1>1, <1>4 DEF Show
  <2>2. state \in DispStates
    BY DEF DispStates
  <2>3. disp[p] \in [pc : DispStates, fd : Fds, shown : Seq(Lines), again : BOOLEAN]
    BY <1>1
  <2>4. seen \in Seq(Lines)
    BY <1>4, <2>3, AppendIs
  <2> HIDE DEF state, seen
  <2>5. d \in [pc : DispStates, fd : Fds, shown : Seq(Lines), again : BOOLEAN]
    BY <2>2, <2>3, <2>4
  <2> HIDE DEF d
  <2> QED
    BY <1>1, <2>1, <2>5
<1>12. Types'
  BY <1>9, <1>10, <1>11 DEF Types, Fds
<1>13. \E k \in 1..Len(s), t \in Seq(Lines) :
         /\ fifos'[f] = [fifos[f] EXCEPT !.lines = t]
         /\ Len(t) = Len(s) - k /\ DOMAIN t = 1..Len(s) - k
         /\ \A j \in 1..Len(t) : t[j].nr = s[j + k].nr
         /\ mishaps' = {} => k = 1 /\ \A j \in 1..Len(t) : t[j] = s[j + 1]
  <2>1. mishaps' = {} => n = 1 /\ \A k \in 1..Len(left) : left[k] = s[k + 1]
    BY <1>6, <1>10
  <2>2. fifos'[f] = [fifos[f] EXCEPT !.lines = left]
    BY <1>9 DEF x
  <2> HIDE DEF s, f
  <2> QED
    BY <1>5, <1>6, <2>1, <2>2
<1> HIDE DEF s
<1> QED
  BY <1>1, <1>2, <1>4, <1>9, <1>10, <1>11, <1>12, <1>13 DEF s

\* The old buffer is shown again.
LEMMA ReadEndIs ==
  ASSUME Types, NEW p \in Pipes, ReadEnd(p)
  PROVE  /\ Types' /\ p \in 1..2 /\ disp'[p] = [disp[p] EXCEPT !.again = TRUE]
         /\ \A o \in 1..2 : o # p => disp'[o] = disp[o]
<1>1. /\ disp \in [1..2 -> [pc : DispStates, fd : Fds, shown : Seq(Lines), again : BOOLEAN]]
      /\ p \in 1..2
  BY PipesAre DEF Types
<1>2. [disp[p] EXCEPT !.again = TRUE] \in [pc : DispStates, fd : Fds, shown : Seq(Lines), again : BOOLEAN]
  BY <1>1
<1>3. disp' = [disp EXCEPT ![p] = [disp[p] EXCEPT !.again = TRUE]]
  BY DEF ReadEnd
<1>4. disp' \in [1..2 -> [pc : DispStates, fd : Fds, shown : Seq(Lines), again : BOOLEAN]]
  BY <1>1, <1>2, <1>3
<1>5. Types'
  BY <1>4 DEF Types, ReadEnd, Fds
<1> QED
  BY <1>1, <1>3, <1>5

\* At its end, and when it is killed, its pipe has no reader.
LEMMA ClosedIs ==
  ASSUME Types, NEW p \in Pipes, disp[p].pc # "off" => disp[p].fd # 0, disp[p].pc # "off",
         fifos' = [fifos EXCEPT ![disp[p].fd].r = FALSE], disp' = [disp EXCEPT ![p] = NoDisplay]
  PROVE  LET f == disp[p].fd
         IN  /\ f \in 1..Len(fifos) /\ p \in 1..2 /\ fifos' \in Seq(Fifos) /\ Len(fifos') = Len(fifos)
             /\ fifos'[f] = [fifos[f] EXCEPT !.r = FALSE]
             /\ \A g \in 1..Len(fifos) : g # f => fifos'[g] = fifos[g]
             /\ disp' \in [1..2 -> [pc : DispStates, fd : Fds, shown : Seq(Lines), again : BOOLEAN]]
             /\ disp'[p] = NoDisplay /\ \A o \in 1..2 : o # p => disp'[o] = disp[o]
<1> DEFINE f == disp[p].fd
           x == [fifos[f] EXCEPT !.r = FALSE]
<1>1. /\ fifos \in Seq(Fifos) /\ Len(fifos) \in Nat /\ f \in Fds /\ p \in 1..2
      /\ disp \in [1..2 -> [pc : DispStates, fd : Fds, shown : Seq(Lines), again : BOOLEAN]]
  BY Values, PipesAre DEF Types, Shape
<1>2. f \in 1..Len(fifos)
  BY <1>1 DEF Fds
<1>3. x \in Fifos
  BY <1>2, Values DEF Fifos, Shape
<1>4. fifos' = [fifos EXCEPT ![f] = x]
  OBVIOUS
<1> HIDE DEF x
<1>5. /\ fifos' \in Seq(Fifos) /\ Len(fifos') = Len(fifos) /\ fifos'[f] = x
      /\ \A g \in 1..Len(fifos) : g # f => fifos'[g] = fifos[g]
  BY <1>1, <1>2, <1>3, <1>4, FifoIs
<1>6. NoDisplay \in [pc : DispStates, fd : Fds, shown : Seq(Lines), again : BOOLEAN]
  BY <1>1, EmptySeq DEF NoDisplay, DispStates, Fds
<1> QED
  BY <1>1, <1>2, <1>5, <1>6 DEF x

\* The pipe of a display that ends has no reader, and the name stands for nothing.
LEMMA DispEndIs ==
  ASSUME Types, NEW p \in Pipes, disp[p].pc # "off" => disp[p].fd # 0, DispEnd(p)
  PROVE  LET f == disp[p].fd
         IN  /\ Types' /\ f \in 1..Len(fifos) /\ p \in 1..2 /\ Len(fifos') = Len(fifos)
             /\ fifos'[f] = [fifos[f] EXCEPT !.r = FALSE]
             /\ \A g \in 1..Len(fifos) : g # f => fifos'[g] = fifos[g]
             /\ disp'[p] = NoDisplay /\ \A o \in 1..2 : o # p => disp'[o] = disp[o]
             /\ fname'[p] = 0 /\ \A o \in 1..2 : o # p => fname'[o] = fname[o]
             /\ mishaps \subseteq mishaps' /\ ("broken" \in mishaps' => "broken" \in mishaps)
             /\ "crossed" \notin mishaps' => fname[p] \in {0, f}
<1> USE DEF DispEnd
<1>1. Len(fifos) \in Nat /\ p \in 1..2 /\ fname \in [1..2 -> Fds]
  BY Values, PipesAre DEF Types, Shape
<1>2. fname' \in [1..2 -> Fds] /\ fname'[p] = 0 /\ \A o \in 1..2 : o # p => fname'[o] = fname[o]
  <2>1. 0 \in Fds
    BY <1>1 DEF Fds
  <2> QED
    BY <1>1, <2>1
<1>3. /\ mishaps' \subseteq Mishaps /\ mishaps \subseteq mishaps'
      /\ "broken" \in mishaps' => "broken" \in mishaps
      /\ "crossed" \notin mishaps' => fname[p] \in {0, disp[p].fd}
  BY DEF Types, Mishaps
<1>4. Types'
  BY <1>2, <1>3, ClosedIs DEF Types, Fds
<1> QED
  BY <1>2, <1>3, <1>4, ClosedIs

\* The pipe of a display that is killed has no reader; its name stays.
LEMMA KillIs ==
  ASSUME Types, NEW p \in Pipes, disp[p].pc # "off" => disp[p].fd # 0, Kill(p)
  PROVE  LET f == disp[p].fd
         IN  /\ Types' /\ f \in 1..Len(fifos) /\ p \in 1..2 /\ Len(fifos') = Len(fifos)
             /\ fifos'[f] = [fifos[f] EXCEPT !.r = FALSE]
             /\ \A g \in 1..Len(fifos) : g # f => fifos'[g] = fifos[g]
             /\ disp'[p] = NoDisplay /\ \A o \in 1..2 : o # p => disp'[o] = disp[o]
             /\ mishaps' # {}
             /\ mishaps' \cap {"crossed", "broken"} = mishaps \cap {"crossed", "broken"}
<1> USE DEF Kill
<1>1. /\ mishaps' \subseteq Mishaps /\ mishaps' # {}
      /\ mishaps' \cap {"crossed", "broken"} = mishaps \cap {"crossed", "broken"}
  BY DEF Types, Mishaps
<1>2. Types'
  BY <1>1, ClosedIs DEF Types, Fds
<1> QED
  BY <1>1, <1>2, ClosedIs

-----------------------------------------------------------------------------
(* The steps                                                               *)

\* A display that is not there has nothing open and shows nothing.
LEMMA NothingShown ==
  /\ NoDisplay.pc = "off" /\ NoDisplay.fd = 0 /\ NoDisplay.shown = << >> /\ ~NoDisplay.again
BY DEF NoDisplay

\* What a name stands for and what somebody has open is there.
Linked ==
  /\ cons.i \in 1..2 /\ 0 \notin DOMAIN fifos
  /\ \A p \in 1..2 : fname[p] # 0 => fname[p] \in DOMAIN fifos
  /\ \A p \in 1..2 : HasOpened(p) => cons.fd[p] \in DOMAIN fifos
  /\ \A p \in 1..2 : disp[p].pc # "off" => disp[p].fd \in DOMAIN fifos /\ p \in Pipes /\ fifos[disp[p].fd].r

\* The parts of the invariant about the consumer and the displays say so.
LEMMA LinkedIs == ASSUME Types, ConsumerInv, DisplayInv PROVE Linked
<1>1. DOMAIN fifos = 1..Len(fifos) /\ Len(fifos) \in Nat
  BY Values DEF Shape
<1>2. \A f \in Fds : f # 0 => f \in DOMAIN fifos
  BY <1>1 DEF Fds
<1>3. cons.i \in 1..2 /\ 0 \notin DOMAIN fifos
  BY <1>1 DEF Types
<1>4. \A p \in 1..2 : fname[p] \in Fds /\ cons.fd[p] \in Fds /\ disp[p].fd \in Fds
  BY DEF Types
<1>5. \A p \in 1..2 : disp[p].pc # "off" => disp[p].fd # 0 /\ p \in Pipes /\ fifos[disp[p].fd].r
  BY DEF DisplayInv
<1>6. \A p \in 1..2 : HasOpened(p) => cons.fd[p] # 0
  BY DEF ConsumerInv
<1> QED
  BY <1>2, <1>3, <1>4, <1>5, <1>6 DEF Linked

\* The invariant by its parts
LEMMA Parts ==
  ASSUME Inv
  PROVE  /\ Types /\ Bounds /\ ConsumerInv /\ OwnOpened /\ OwnMade /\ OwnWait /\ OwnLater /\ Separate
         /\ DisplayInv /\ FifoInv /\ QueueOrder /\ ReceiveOrder /\ FifoOrder /\ ShownOrder /\ WrittenOrder
         /\ QuitInv /\ NameInv /\ Rendezvous /\ ContentInv /\ Linked
BY LinkedIs DEF Inv, OwnInv, ReaderInv, OrderInv

\* and from its parts
LEMMA Whole ==
  ASSUME Types', Bounds', ConsumerInv', OwnOpened', OwnMade', OwnWait', OwnLater', Separate',
         DisplayInv', FifoInv', QueueOrder', ReceiveOrder', FifoOrder', ShownOrder', WrittenOrder',
         QuitInv', NameInv', Rendezvous', ContentInv'
  PROVE  Inv'
BY DEF Inv, OwnInv, ReaderInv, OrderInv

\* What two pipe numbers both refer to is no pipe.
LEMMA Apart ==
  ASSUME Separate, NEW o \in 1..2, NEW p \in 1..2, o # p, NEW f \in Refs(o), f \in Refs(p)
  PROVE  f = 0
BY DEF Separate

\* The number of a line is a number.
LEMMA Numbers == \A s \in Seq(Lines) : \A k \in DOMAIN s : s[k] \in Lines /\ s[k].nr \in Nat
<1>1. \A s \in Seq(Lines) : \A k \in DOMAIN s : s[k] \in Lines
  BY ElementOfSeq, LenProperties
<1> QED
  BY <1>1, Assumed DEF Lines

\* The queue the consumer has open is there.
LEMMA QueueIs == ASSUME Types, ConsumerInv, cons.pc # "off" PROVE cons.q \in DOMAIN queues /\ Run \in DOMAIN received
<1>1. cons.q \in 0..Len(queues) /\ cons.q # 0 /\ Run # 0
  BY DEF Types, ConsumerInv
<1> QED
  BY <1>1, Values DEF Shape

\* The menu does not touch what the others work on.
LEMMA OthersStay ==
  ASSUME Inv, UNCHANGED <<kind, cons, received, fifos, fname, disp, mishaps>>
  PROVE  /\ ConsumerInv' /\ OwnOpened' /\ OwnMade' /\ OwnWait' /\ OwnLater' /\ Separate'
         /\ DisplayInv' /\ FifoInv' /\ FifoOrder' /\ ShownOrder' /\ WrittenOrder'
         /\ QuitInv' /\ NameInv' /\ Rendezvous' /\ ContentInv'
<1>1. /\ ConsumerInv /\ OwnOpened /\ OwnMade /\ OwnWait /\ OwnLater /\ Separate
      /\ DisplayInv /\ FifoInv /\ FifoOrder /\ ShownOrder /\ WrittenOrder
      /\ QuitInv /\ NameInv /\ Rendezvous /\ ContentInv
  BY Parts
<1>2. /\ kind' = kind /\ cons' = cons /\ received' = received /\ fifos' = fifos /\ fname' = fname
      /\ disp' = disp /\ mishaps' = mishaps /\ Run' = Run /\ Pipes' = Pipes
  BY PipesStay DEF Run
<1>3. \A p : HasOpened(p)' = HasOpened(p) /\ HasPassed(p)' = HasPassed(p) /\ NotMade(p)' = NotMade(p)
             /\ Written(p)' = Written(p)
  BY <1>2 DEF HasOpened, HasPassed, NotMade, Connected, Written
<1>4. ConsumerInv' /\ OwnOpened'
  BY <1>1, <1>2, <1>3 DEF ConsumerInv, OwnOpened
<1>5. OwnMade' /\ OwnWait' /\ OwnLater'
  BY <1>1, <1>2, <1>3 DEF OwnMade, OwnWait, OwnLater
<1>6. Separate' /\ DisplayInv'
  BY <1>1, <1>2, <1>3 DEF Separate, Refs, DisplayInv, Quits
<1>7. FifoInv' /\ FifoOrder' /\ ShownOrder'
  BY <1>1, <1>2 DEF FifoInv, FifoOrder, ShownOrder
<1>8. WrittenOrder'
  BY <1>1, <1>2, <1>3 DEF WrittenOrder
<1>9. QuitInv'
  BY <1>1, <1>2 DEF QuitInv, Quits
<1>10. NameInv' /\ Rendezvous'
  BY <1>1, <1>2, <1>3 DEF NameInv, Rendezvous
<1>11. ContentInv'
  <2>1. \A p : Content(p)' = Content(p)
    BY <1>2, Zenon DEF Content
  <2> QED
    BY <1>1, <1>2, <2>1 DEF ContentInv
<1> QED
  BY <1>4, <1>5, <1>6, <1>7, <1>8, <1>9, <1>10, <1>11

\* A new queue is empty; the one that is there stays as it is.
LEMMA MenuStartStep == ASSUME Inv, MenuStart PROVE Inv'
<1>1. Types /\ Bounds /\ ConsumerInv /\ QueueOrder /\ ReceiveOrder
  BY Parts
<1>2. UNCHANGED <<kind, cons, received, fifos, fname, disp, mishaps>>
  BY DEF MenuStart
<1>3. /\ Types' /\ menu'.on /\ menu'.typed = menu.typed /\ menu'.q # 0
      /\ \A q \in 1..Len(queues) : queues'[q] = queues[q]
      /\ \A q \in 1..Len(queues') : q > Len(queues) => queues'[q] = << >>
  BY <1>1, MenuStartIs
<1>4. DOMAIN queues = 1..Len(queues) /\ Len(queues) \in Nat /\ DOMAIN queues' = 1..Len(queues') /\ Len(queues') \in Nat
  <2>1. Shape /\ Shape'
    BY <1>1, <1>3, Values, PTL
  <2> QED
    BY <2>1 DEF Shape
<1>5. \A q \in DOMAIN queues' : (q \in DOMAIN queues /\ queues'[q] = queues[q]) \/ queues'[q] = << >>
  BY <1>3, <1>4
<1>6. Len(<< >>) = 0 /\ DOMAIN << >> = {}
  OBVIOUS
<1>7. Bounds'
  BY <1>1, <1>2, <1>3, <1>5, <1>6, Assumed DEF Bounds, Run
<1>8. QueueOrder'
  BY <1>1, <1>3, <1>5, <1>6 DEF QueueOrder, Increasing
<1>9. ReceiveOrder'
  <2>1. cons.pc # "off" => queues'[cons.q] = queues[cons.q]
    BY <1>1, <1>3, <1>4, QueueIs
  <2> QED
    BY <1>1, <1>2, <1>3, <2>1 DEF ReceiveOrder, Run
<1> QED
  BY <1>2, <1>3, <1>7, <1>8, <1>9, OthersStay, Whole

\* The number of the line is higher than that of any line sent before.
LEMMA MenuSendStep == ASSUME Inv, MenuSend PROVE Inv'
<1> DEFINE m == menu.q
<1>1. Types /\ Bounds /\ ConsumerInv /\ QueueOrder /\ ReceiveOrder
  BY Parts
<1>2. UNCHANGED <<kind, cons, received, fifos, fname, disp, mishaps>>
  BY DEF MenuSend
<1>3. /\ Types' /\ menu'.q = m /\ menu'.typed = menu.typed + 1
      /\ Len(queues') = Len(queues) /\ m \in 1..Len(queues)
      /\ \A q \in 1..Len(queues) : q # m => queues'[q] = queues[q]
  BY <1>1, MenuSendIs
<1>4. PICK l \in Lines : l.nr = menu.typed + 1 /\ queues'[m] = Append(queues[m], l)
  BY <1>1, MenuSendIs
<1>5. /\ DOMAIN queues = 1..Len(queues) /\ DOMAIN queues' = DOMAIN queues /\ m \in DOMAIN queues
      /\ \A q \in DOMAIN queues : q # m => queues'[q] = queues[q]
      /\ queues[m] \in Seq(Lines) /\ Len(queues[m]) \in Nat /\ DOMAIN queues[m] = 1..Len(queues[m])
  <2>1. Shape /\ Shape'
    BY <1>1, <1>3, Values, PTL
  <2> QED
    BY <1>3, <2>1 DEF Shape
<1>6. /\ Len(queues'[m]) = Len(queues[m]) + 1 /\ DOMAIN queues'[m] = 1..Len(queues[m]) + 1
      /\ \A k \in DOMAIN queues[m] : queues'[m][k] = queues[m][k]
      /\ queues'[m][Len(queues[m]) + 1] = l
  BY <1>4, <1>5, AppendIs
<1>7. menu.typed \in Nat /\ \A q \in DOMAIN queues : \A k \in DOMAIN queues[q] : queues[q][k].nr \in Nat
  <2>1. menu.typed \in Nat
    BY <1>1, Assumed DEF Types
  <2>3. \A q \in DOMAIN queues : queues[q] \in Seq(Lines)
    BY <1>1, Values DEF Shape
  <2> QED
    BY <2>1, <2>3, Numbers
<1>8. Bounds'
  <2>1. Len(queues[m]) < MAX_MSG_COUNT /\ menu'.q # 0 /\ Run' = Run
    BY <1>2, <1>3 DEF MenuSend, Run
  <2> QED
    BY <1>1, <1>2, <1>3, <1>5, <1>6, <2>1, Assumed DEF Bounds
<1>9. QueueOrder'
  <2> SUFFICES ASSUME NEW q \in DOMAIN queues
               PROVE  Increasing(queues'[q]) /\ \A k \in DOMAIN queues'[q] : queues'[q][k].nr <= menu.typed + 1
    BY <1>3, <1>5 DEF QueueOrder
  <2>1. Increasing(queues[q]) /\ \A k \in DOMAIN queues[q] : queues[q][k].nr <= menu.typed /\ queues[q][k].nr \in Nat
    BY <1>1, <1>7 DEF QueueOrder
  <2>2. CASE q # m
    BY <1>5, <1>7, <2>1, <2>2
  <2>3. CASE q = m
    <3>1. \A k \in DOMAIN queues'[m] : k \in DOMAIN queues[m] \/ k = Len(queues[m]) + 1
      BY <1>5, <1>6
    <3>2. \A k \in DOMAIN queues'[m] : queues'[m][k].nr <= menu.typed + 1
      BY <1>4, <1>6, <1>7, <2>1, <2>3, <3>1
    <3>3. Increasing(queues'[m])
      <4> SUFFICES ASSUME NEW j \in DOMAIN queues'[m], NEW k \in DOMAIN queues'[m], j < k
                   PROVE  queues'[m][j].nr < queues'[m][k].nr
        BY DEF Increasing
      <4>1. j \in DOMAIN queues[m]
        BY <1>5, <1>6
      <4>2. CASE k \in DOMAIN queues[m]
        BY <1>6, <2>1, <2>3, <4>1, <4>2 DEF Increasing
      <4>3. CASE k = Len(queues[m]) + 1
        BY <1>4, <1>6, <1>7, <2>1, <2>3, <4>1, <4>3
      <4> QED
        BY <3>1, <4>2, <4>3
    <3> QED
      BY <2>3, <3>2, <3>3
  <2> QED
    BY <2>2, <2>3
<1>10. ReceiveOrder'
  <2>1. \A r \in DOMAIN received : Increasing(received[r]) /\ \A k \in DOMAIN received[r] : received[r][k].nr <= menu.typed + 1
    <3>1. \A r \in DOMAIN received : \A k \in DOMAIN received[r] : received[r][k].nr \in Nat
      <4>1. \A r \in DOMAIN received : received[r] \in Seq(Lines)
        BY <1>1, Values DEF Shape
      <4> QED
        BY <4>1, Numbers
    <3> QED
      BY <1>1, <1>7, <3>1 DEF ReceiveOrder
  <2>2. cons.pc # "off" => Before(received[Run], queues'[cons.q])
    <3> SUFFICES ASSUME cons.pc # "off" PROVE Before(received[Run], queues'[cons.q])
      OBVIOUS
    <3>1. cons.q \in DOMAIN queues /\ Run \in DOMAIN received
      BY <1>1, QueueIs
    <3>2. Before(received[Run], queues[cons.q])
      BY <1>1 DEF ReceiveOrder
    <3>3. CASE cons.q # m
      BY <1>5, <3>1, <3>2, <3>3
    <3>4. CASE cons.q = m
      <4> SUFFICES ASSUME NEW j \in DOMAIN received[Run], NEW k \in DOMAIN queues'[m]
                   PROVE  received[Run][j].nr < queues'[m][k].nr
        BY <3>4 DEF Before
      <4>1. k \in DOMAIN queues[m] \/ k = Len(queues[m]) + 1
        BY <1>5, <1>6
      <4>2. CASE k \in DOMAIN queues[m]
        BY <1>6, <3>2, <3>4, <4>2 DEF Before
      <4>3. CASE k = Len(queues[m]) + 1
        <5>1. received[Run][j].nr <= menu.typed
          BY <1>1, <3>1 DEF ReceiveOrder
        <5>2. received[Run] \in Seq(Lines)
          BY <1>1, <3>1, Values DEF Shape
        <5>4. received[Run][j].nr \in Nat
          BY <5>2, Numbers
        <5> QED
          BY <1>4, <1>6, <1>7, <4>3, <5>1, <5>4
      <4> QED
        BY <4>1, <4>2, <4>3
    <3> QED
      BY <3>3, <3>4
  <2> QED
    BY <1>2, <1>3, <2>1, <2>2 DEF ReceiveOrder, Run
<1> QED
  BY <1>2, <1>3, <1>8, <1>9, <1>10, OthersStay, Whole

\* A new run has nothing open yet, and every pipe there is belongs to an earlier one.
LEMMA ConsStartStep == ASSUME Inv, ConsStart PROVE Inv'
<1>1. /\ Types /\ Bounds /\ ConsumerInv /\ OwnOpened /\ OwnMade /\ OwnWait /\ OwnLater /\ Separate
      /\ DisplayInv /\ FifoInv /\ QueueOrder /\ ReceiveOrder /\ FifoOrder /\ ShownOrder /\ WrittenOrder
      /\ QuitInv /\ NameInv /\ Rendezvous /\ ContentInv /\ Linked
  BY Parts
<1>2. /\ kind' = kind /\ queues' = queues /\ menu' = menu /\ fifos' = fifos
      /\ fname' = fname /\ disp' = disp /\ mishaps' = mishaps /\ Pipes' = Pipes
  BY PipesStay DEF ConsStart
<1>3. Pipes \subseteq 1..2 /\ (Pipes # {} => 1 \in Pipes)
  BY <1>1, PipesAre DEF Types
<1>4. /\ Types' /\ cons.pc = "off" /\ cons'.q = qname /\ qname # 0 /\ cons'.i = 1
      /\ (Pipes = {} /\ cons'.pc = "receive") \/ (1 \in Pipes /\ cons'.pc = "make")
      /\ cons'.fd[1] = 0 /\ cons'.fd[2] = 0
  BY <1>1, <1>3, ConsStartIs DEF ConsStart
<1>5. /\ Run' = Run + 1 /\ Run \in Nat /\ \A r \in DOMAIN received : received'[r] = received[r] /\ r <= Run
      /\ received'[Run + 1] = << >>
      /\ DOMAIN received' = 1..Run + 1 /\ DOMAIN received = 1..Run
      /\ \A r \in DOMAIN received' : r = Run + 1 \/ r \in DOMAIN received
  <2>1. Shape /\ Shape'
    BY <1>1, <1>4, Values, PTL
  <2>2. Run' = Run + 1 /\ \A r \in 1..Run : received'[r] = received[r]
    BY <1>1, ConsStartIs
  <2>3. received'[Run + 1] = << >>
    BY <1>1, ConsStartIs
  <2> QED
    BY <2>1, <2>2, <2>3 DEF Shape
<1>6. \A p \in 1..2 : ~HasOpened(p)'
  BY <1>2, <1>4 DEF HasOpened, Connected
<1>7. \A f \in DOMAIN fifos : fifos[f].run \in 1..Run
  BY <1>1 DEF Bounds
<1>8. Bounds'
  BY <1>1, <1>2, <1>5 DEF Bounds
<1>9. ConsumerInv'
  BY <1>2, <1>4, <1>5, <1>6 DEF ConsumerInv
<1>10. OwnOpened' /\ OwnMade' /\ OwnWait'
  BY <1>4, <1>6 DEF OwnOpened, OwnMade, OwnWait
<1>11. OwnLater'
  <2>1. \A f \in DOMAIN fifos : fifos[f].run < Run + 1
    BY <1>5, <1>7
  <2> QED
    BY <1>1, <1>2, <1>5, <2>1 DEF OwnLater, Linked
<1>12. Separate'
  BY <1>1, <1>2, <1>4 DEF Separate, Refs
<1>13. \A f \in DOMAIN fifos : fifos[f].run # Run + 1
  BY <1>5, <1>7
<1>14. DisplayInv'
  BY <1>1, <1>2, <1>4, <1>5, <1>13 DEF DisplayInv, Linked, Quits
<1>15. FifoInv'
  <2>1. \A p \in 1..2 : cons.fd[p] = 0
    BY <1>1, <1>4 DEF ConsumerInv, HasOpened
  <2> QED
    BY <1>1, <1>2, <2>1 DEF FifoInv, Linked
<1>16. Len(<< >>) = 0 /\ DOMAIN << >> = {}
  OBVIOUS
<1>17. QueueOrder' /\ FifoOrder' /\ ShownOrder'
  BY <1>1, <1>2 DEF QueueOrder, FifoOrder, ShownOrder
<1>18. ReceiveOrder'
  <2>1. \A r \in DOMAIN received' : Increasing(received'[r]) /\ \A k \in DOMAIN received'[r] : received'[r][k].nr <= menu.typed
    <3> SUFFICES ASSUME NEW r \in DOMAIN received'
                 PROVE  Increasing(received'[r]) /\ \A k \in DOMAIN received'[r] : received'[r][k].nr <= menu.typed
      OBVIOUS
    <3>1. CASE r = Run + 1
      BY <1>5, <1>16, <3>1 DEF Increasing
    <3>2. CASE r \in DOMAIN received
      BY <1>1, <1>5, <3>2 DEF ReceiveOrder
    <3> QED
      BY <1>5, <3>1, <3>2
  <2>2. Before(received'[Run + 1], queues[qname])
    BY <1>5, <1>16 DEF Before
  <2> QED
    BY <1>2, <1>4, <1>5, <2>1, <2>2 DEF ReceiveOrder
<1>19. WrittenOrder'
  BY <1>6 DEF WrittenOrder
<1>20. QuitInv'
  <2>1. \A r \in DOMAIN received' : \A k \in 1..Len(received'[r]) - 1 : ~Quits(received[r][k])'
    <3> SUFFICES ASSUME NEW r \in DOMAIN received', NEW k \in 1..Len(received'[r]) - 1
                 PROVE  ~Quits(received[r][k])'
      OBVIOUS
    <3>1. CASE r = Run + 1
      BY <1>5, <1>16, <3>1
    <3>2. CASE r \in DOMAIN received
      <4>1. ~Quits(received[r][k]) /\ received'[r] = received[r]
        BY <1>1, <1>5, <3>2 DEF QuitInv
      <4> QED
        BY <1>2, <4>1 DEF Quits
    <3> QED
      BY <1>5, <3>1, <3>2
  <2>2. \A k \in DOMAIN received'[Run + 1] : ~Quits(received[Run][k])'
    BY <1>5, <1>16
  <2>3. ASSUME mishaps' = {}, NEW r \in DOMAIN received', r < Run + 1
        PROVE  received'[r] # << >> /\ Quits(received[r][Len(received[r])])'
    <3>1. r \in DOMAIN received /\ received'[r] = received[r]
      BY <1>5, <2>3
    <3>2. received[r] # << >> /\ Quits(received[r][Len(received[r])])
      BY <1>1, <1>2, <1>4, <2>3, <3>1 DEF QuitInv
    <3> QED
      BY <1>2, <3>1, <3>2 DEF Quits
  <2>4. cons'.pc \notin {"off", "unlink", "exit"}
    BY <1>4
  <2>5. cons'.pc = "receive" => \A k \in DOMAIN received'[Run'] : ~Quits(received[Run][k])'
    BY <1>5, <2>2
  <2> QED
    BY <1>5, <2>1, <2>3, <2>4, <2>5 DEF QuitInv
<1>21. NameInv'
  BY <1>1, <1>2, <1>3, <1>4 DEF NameInv, NotMade
<1>22. Rendezvous'
  BY <1>1, <1>2, <1>4 DEF Rendezvous
<1>23. ContentInv'
  <2>1. \A p \in 1..2 : disp[p].pc # "off" => fifos[disp[p].fd].run \in DOMAIN received
    BY <1>1, <1>5, <1>7 DEF Linked
  <2>2. \A p \in 1..2 : disp[p].pc # "off" /\ Content(p) => Content(p)'
    BY <1>2, <1>4, <1>5, <2>1 DEF Content
  <2> QED
    BY <1>1, <1>2, <2>2 DEF ContentInv
<1> QED
  BY <1>4, <1>8, <1>9, <1>10, <1>11, <1>12, <1>14, <1>15, <1>17, <1>18, <1>19, <1>20, <1>21, <1>22, <1>23, Whole

\* The new pipe is of this run, and nobody has it open.
LEMMA MakePipeStep == ASSUME Inv, MakePipe PROVE Inv'
<1> DEFINE i == cons.i
           new == Len(fifos) + 1
<1>1. /\ Types /\ Bounds /\ ConsumerInv /\ OwnOpened /\ OwnMade /\ OwnWait /\ OwnLater /\ Separate
      /\ DisplayInv /\ FifoInv /\ QueueOrder /\ ReceiveOrder /\ FifoOrder /\ ShownOrder /\ WrittenOrder
      /\ QuitInv /\ NameInv /\ Rendezvous /\ ContentInv /\ Linked
  BY Parts
<1>2. /\ kind' = kind /\ queues' = queues /\ menu' = menu /\ received' = received
      /\ disp' = disp /\ mishaps' = mishaps /\ Run' = Run /\ Pipes' = Pipes
  BY PipesStay DEF MakePipe, Run
<1>3. Pipes \subseteq 1..2 /\ i \in 1..2 /\ i \in Pipes
  BY <1>1, PipesAre DEF Types, ConsumerInv, MakePipe
<1>4. /\ Types' /\ cons.pc = "make" /\ cons'.pc = "open"
      /\ cons'.q = cons.q /\ cons'.i = i /\ cons'.fd = cons.fd
  <2>1. cons \in [pc : ConsStates, q : 0..Len(queues), i : 1..2, fd : [1..2 -> Fds]]
    BY <1>1 DEF Types
  <2>2. Types' /\ cons' = [cons EXCEPT !.pc = "open"]
    BY <1>1, MakePipeIs
  <2> QED
    BY <2>1, <2>2 DEF MakePipe
<1>5. /\ new \notin DOMAIN fifos /\ DOMAIN fifos' = DOMAIN fifos \cup {new} /\ new # 0
      /\ \A f \in DOMAIN fifos : fifos'[f] = fifos[f]
      /\ \A p \in 1..2 : fname[p] # new /\ cons.fd[p] # new /\ disp[p].fd # new
  <2>1. Shape /\ Shape'
    BY <1>1, <1>4, Values, PTL
  <2>2. Len(fifos') = Len(fifos) + 1 /\ \A f \in 1..Len(fifos) : fifos'[f] = fifos[f]
    BY <1>1, MakePipeIs
  <2>3. \A p \in 1..2 : fname[p] \in Fds /\ cons.fd[p] \in Fds /\ disp[p].fd \in Fds
    BY <1>1 DEF Types
  <2> QED
    <3>1. DOMAIN fifos = 1..Len(fifos) /\ DOMAIN fifos' = 1..Len(fifos) + 1 /\ Len(fifos) \in Nat
      BY <2>1, <2>2 DEF Shape
    <3>2. new \notin DOMAIN fifos /\ DOMAIN fifos' = DOMAIN fifos \cup {new} /\ new # 0
      BY <3>1
    <3>3. new \notin Fds
      BY <3>1 DEF Fds
    <3> QED
      BY <2>2, <2>3, <3>1, <3>2, <3>3
<1>6. /\ fifos'[new].run = Run /\ fifos'[new].lines = << >> /\ ~fifos'[new].w /\ ~fifos'[new].r
      /\ fname'[i] = new /\ \A p \in 1..2 : p # i => fname'[p] = fname[p]
  BY <1>1, MakePipeIs
<1> HIDE DEF new
<1>7. \A p \in 1..2 : (HasOpened(p)' <=> HasOpened(p)) /\ (HasPassed(p)' <=> HasPassed(p))
             /\ (NotMade(p)' => NotMade(p) /\ p # i)
  BY <1>2, <1>3, <1>4 DEF HasOpened, HasPassed, NotMade, Connected
<1>8. NotMade(i) /\ ~HasOpened(i)
  BY <1>3, <1>4 DEF NotMade, HasOpened, Connected
<1>9. Bounds'
  <2>1. Run \in 1..Run
    BY <1>1, <1>4, Values DEF ConsumerInv, Shape
  <2> QED
    BY <1>1, <1>2, <1>5, <1>6, <2>1 DEF Bounds
<1>10. ConsumerInv'
  BY <1>1, <1>2, <1>4, <1>7 DEF ConsumerInv
<1>11. OwnOpened'
  BY <1>1, <1>2, <1>4, <1>5, <1>6, <1>7, <1>8 DEF OwnOpened, Linked
<1>12. OwnMade'
  BY <1>1, <1>2, <1>3, <1>4, <1>5, <1>6, <1>8, Values DEF OwnMade, OwnLater, Linked, Shape
<1>13. OwnWait'
  BY <1>4 DEF OwnWait
<1>14. OwnLater'
  BY <1>1, <1>2, <1>5, <1>6, <1>7 DEF OwnLater, Linked
<1>15. Separate'
  <2>1. fname[1] \in Refs(1) /\ fname[2] \in Refs(2) /\ Separate
    BY <1>1 DEF Refs
  <2> QED
    BY <1>2, <1>3, <1>4, <1>5, <1>6, <2>1 DEF Separate, Refs
<1>16. DisplayInv'
  BY <1>1, <1>2, <1>4, <1>5, <1>7 DEF DisplayInv, Linked, Quits
<1>17. FifoInv'
  BY <1>1, <1>2, <1>4, <1>5, <1>6 DEF FifoInv
<1>18. Len(<< >>) = 0 /\ DOMAIN << >> = {}
  OBVIOUS
<1>19. QueueOrder' /\ ReceiveOrder'
  BY <1>1, <1>2, <1>4 DEF QueueOrder, ReceiveOrder
<1>20. FifoOrder'
  BY <1>1, <1>5, <1>6, <1>18 DEF FifoOrder, Increasing
<1>21. ShownOrder'
  BY <1>1, <1>2, <1>5 DEF ShownOrder, Linked
<1>22. WrittenOrder'
  BY <1>1, <1>2, <1>4, <1>5, <1>7 DEF WrittenOrder, Linked, Written
<1>23. QuitInv'
  BY <1>1, <1>2, <1>4 DEF QuitInv, Quits
<1>24. NameInv'
  BY <1>1, <1>2, <1>3, <1>4, <1>5, <1>6, <1>7 DEF NameInv
<1>25. Rendezvous'
  <2>1. mishaps \cap {"crossed", "broken"} = {} => fname[i] = 0
    BY <1>1, <1>3, <1>8 DEF NameInv
  <2> QED
    BY <1>1, <1>2, <1>3, <1>4, <1>6, <2>1 DEF Rendezvous, Linked
<1>26. ContentInv'
  <2>1. \A p \in 1..2 : disp[p].pc # "off" /\ Content(p) => Content(p)'
    BY <1>1, <1>2, <1>4, <1>5 DEF Content, Linked
  <2> QED
    BY <1>1, <1>2, <2>1 DEF ContentInv
<1> QED
  BY <1>4, <1>9, <1>10, <1>11, <1>12, <1>13, <1>14, <1>15, <1>16, <1>17, <1>19, <1>20, <1>21, <1>22, <1>23,
     <1>24, <1>25, <1>26, Whole

\* The consumer opens a pipe: it waits, or meets the display that waits.
LEMMA OpenPipeStep == ASSUME Inv, OpenPipe, fname[cons.i] # 0 PROVE Inv'
<1> DEFINE i == cons.i
           f == fname[i]
<1>1. /\ Types /\ Bounds /\ ConsumerInv /\ OwnOpened /\ OwnMade /\ OwnWait /\ OwnLater /\ Separate
      /\ DisplayInv /\ FifoInv /\ QueueOrder /\ ReceiveOrder /\ FifoOrder /\ ShownOrder /\ WrittenOrder
      /\ QuitInv /\ NameInv /\ Rendezvous /\ ContentInv /\ Linked
  BY Parts
<1>2. /\ kind' = kind /\ queues' = queues /\ menu' = menu /\ received' = received
      /\ fname' = fname /\ mishaps' = mishaps /\ Run' = Run /\ Pipes' = Pipes
  BY PipesStay DEF OpenPipe, Run
<1>3. /\ Pipes \subseteq 1..2 /\ i \in 1..2 /\ i \in Pipes /\ cons.pc = "open" /\ f # 0 /\ f \in DOMAIN fifos
      /\ received[Run] = << >>
  BY <1>1, PipesAre DEF Types, ConsumerInv, OpenPipe, Linked
<1>4. /\ Types' /\ cons'.q = cons.q
      /\ \/ ~fifos[f].r /\ cons'.pc = "wait" /\ cons'.i = i /\ disp' = disp
         \/ fifos[f].r /\ i + 1 \in Pipes /\ cons'.i = i + 1 /\ cons'.pc = "make"
         \/ fifos[f].r /\ i + 1 \notin Pipes /\ cons'.i = 1 /\ cons'.pc = "receive"
  BY <1>1, <1>3, OpenPipeIs
<1>5. cons'.fd[i] = f /\ \A p \in 1..2 : p # i => cons'.fd[p] = cons.fd[p]
  <2>1. cons.fd \in [1..2 -> Fds] /\ cons'.fd = [cons.fd EXCEPT ![i] = f]
    BY <1>1, <1>3, OpenPipeIs DEF Types
  <2> QED
    BY <1>3, <2>1
<1>6. /\ DOMAIN fifos' = DOMAIN fifos /\ fifos'[f].w
      /\ \A g \in DOMAIN fifos :
           /\ fifos'[g].run = fifos[g].run /\ fifos'[g].lines = fifos[g].lines
           /\ (fifos'[g].r <=> fifos[g].r) /\ (fifos'[g].used <=> fifos[g].used)
           /\ (g # f => (fifos'[g].w <=> fifos[g].w))
  <2>1. Shape /\ Shape'
    BY <1>1, <1>4, Values, PTL
  <2>2. Len(fifos') = Len(fifos) /\ fifos'[f] = [fifos[f] EXCEPT !.w = TRUE]
        /\ \A g \in 1..Len(fifos) : g # f => fifos'[g] = fifos[g]
    BY <1>1, <1>3, OpenPipeIs
  <2> QED
    <3>1. DOMAIN fifos' = DOMAIN fifos /\ DOMAIN fifos = 1..Len(fifos) /\ \A g \in DOMAIN fifos : fifos[g] \in Fifos
      BY <2>1, <2>2 DEF Shape
    <3>2. \A g \in DOMAIN fifos : g # f => fifos'[g] = fifos[g]
      BY <2>2, <3>1
    <3>3. /\ fifos'[f].w /\ fifos'[f].run = fifos[f].run /\ fifos'[f].lines = fifos[f].lines
          /\ fifos'[f].r = fifos[f].r /\ fifos'[f].used = fifos[f].used
      BY <1>3, <2>2, <3>1 DEF Fifos
    <3> QED
      BY <3>1, <3>2, <3>3
<1>7. fifos[f].r => disp[i].pc = "wait" /\ disp[i].fd = f /\ disp[i].shown = << >>
  <2> SUFFICES ASSUME fifos[f].r PROVE disp[i].pc = "wait" /\ disp[i].fd = f /\ disp[i].shown = << >>
    OBVIOUS
  <2>1. PICK p \in 1..2 : disp[p].fd = f
    BY <1>1, <1>3 DEF FifoInv
  <2>2. p = i
    BY <1>1, <1>3, <2>1, Apart DEF Refs
  <2>3. disp[i].pc # "off"
    BY <1>1, <1>3, <2>1, <2>2, NothingShown DEF DisplayInv
  <2>4. fifos[f].run = Run /\ ~HasOpened(i)
    BY <1>1, <1>3 DEF OwnMade, HasOpened, Connected
  <2>5. disp[i].pc \notin {"read", "end"}
    BY <1>1, <1>3, <2>1, <2>2, <2>4 DEF DisplayInv
  <2>6. disp[i].pc \in DispStates
    BY <1>1, <1>3 DEF Types
  <2> QED
    BY <1>1, <1>3, <2>1, <2>2, <2>3, <2>5, <2>6 DEF DisplayInv, DispStates
<1>8. /\ \A p \in 1..2 : /\ disp'[p].fd = disp[p].fd /\ disp'[p].shown = disp[p].shown
                         /\ disp'[p].again = disp[p].again /\ (disp'[p].pc = "off" <=> disp[p].pc = "off")
                         /\ (p # i => disp'[p] = disp[p])
      /\ ~fifos[f].r => disp' = disp
      /\ fifos[f].r => disp'[i].pc = "read"
  <2>1. CASE fifos[f].r
    <3>1. disp'[i] = [disp[i] EXCEPT !.pc = "read"] /\ \A p \in 1..2 : p # i => disp'[p] = disp[p]
      BY <1>1, <1>3, <2>1, OpenPipeIs
    <3>2. disp[i] \in [pc : DispStates, fd : Fds, shown : Seq(Lines), again : BOOLEAN]
      BY <1>1, <1>3 DEF Types
    <3> QED
      BY <1>3, <1>7, <2>1, <3>1, <3>2
  <2>2. CASE ~fifos[f].r
    BY <1>4, <2>2
  <2> QED
    BY <2>1, <2>2
<1>9. \A p \in 1..2 : /\ HasOpened(p)' <=> (HasOpened(p) \/ p = i)
                      /\ HasPassed(p)' <=> (HasPassed(p) \/ (p = i /\ fifos[f].r))
                      /\ NotMade(p)' => NotMade(p)
                      /\ Written(p)' = Written(p)
  <2>1. \A p \in 1..2 : (HasOpened(p) <=> (p \in Pipes /\ p < i)) /\ (HasPassed(p) <=> (p \in Pipes /\ p < i))
                        /\ (NotMade(p) <=> p > i)
    BY <1>3 DEF HasOpened, HasPassed, NotMade, Connected
  <2>2. \A p \in 1..2 : Written(p)' = Written(p)
    BY <1>2, <1>3, <1>4 DEF Written
  <2> QED
    BY <1>2, <1>3, <1>4, <2>1, <2>2 DEF HasOpened, HasPassed, NotMade, Connected
<1>10. ~HasOpened(i) /\ cons.fd[i] = 0
  BY <1>1, <1>3 DEF HasOpened, Connected, ConsumerInv
<1>11. Bounds'
  BY <1>1, <1>2, <1>6 DEF Bounds
<1>12. ConsumerInv'
  <2>1. \A p \in 1..2 : cons'.fd[p] # 0 <=> HasOpened(p)'
    BY <1>1, <1>3, <1>5, <1>9 DEF ConsumerInv
  <2> QED
    BY <1>1, <1>2, <1>3, <1>4, <2>1 DEF ConsumerInv
<1>13. OwnOpened'
  <2> SUFFICES ASSUME NEW p \in 1..2, HasOpened(p)' PROVE OwnOpened!(p)!2'
    BY DEF OwnOpened
  <2>1. CASE p = i
    <3>1. fifos[f].run = Run /\ (disp[i].pc # "off" /\ fifos[disp[i].fd].run = Run => disp[i].fd = f)
      BY <1>1, <1>3 DEF OwnMade
    <3>2. HasPassed(p)' => fifos'[f].used
      <4>1. ~HasPassed(p)
        BY <1>10, <2>1 DEF HasPassed, HasOpened
      <4>2. fifos[f].r => fifos[f].used
        BY <1>1, <1>3 DEF FifoInv
      <4> QED
        BY <1>3, <1>6, <1>9, <2>1, <4>1, <4>2
    <3>3. disp'[i].pc # "off" => fifos'[disp'[i].fd].run = fifos[disp[i].fd].run /\ disp[i].pc # "off"
      BY <1>1, <1>3, <1>6, <1>8 DEF Linked
    <3> QED
      BY <1>2, <1>3, <1>5, <1>6, <1>8, <2>1, <3>1, <3>2, <3>3
  <2>2. CASE p # i
    BY <1>1, <1>2, <1>3, <1>5, <1>6, <1>8, <1>9, <2>2 DEF OwnOpened, Linked
  <2> QED
    BY <2>1, <2>2
<1>14. OwnMade' /\ OwnWait'
  BY <1>3, <1>4, <1>5, <1>6 DEF OwnMade, OwnWait
<1>15. OwnLater'
  BY <1>1, <1>2, <1>6, <1>8, <1>9 DEF OwnLater, Linked
<1>16. Separate'
  BY <1>1, <1>2, <1>3, <1>5, <1>8, <1>10 DEF Separate, Refs
<1>17. DisplayInv'
  <2> SUFFICES ASSUME NEW p \in 1..2 PROVE DisplayInv!(p)'
    BY DEF DisplayInv
  <2>1. CASE p = i /\ fifos[f].r
    BY <1>1, <1>2, <1>3, <1>5, <1>6, <1>7, <1>8, <1>9, <2>1
  <2>2. CASE ~(p = i /\ fifos[f].r)
    <3>1. disp'[p] = disp[p]
      BY <1>8, <2>2
    <3>2. disp[p].pc # "off" => disp[p].fd # f
      BY <1>1, <1>3, <2>2, Apart DEF Linked, Refs
    <3>3. disp[p].pc \in {"read", "end"} /\ fifos[disp[p].fd].run = Run => p # i
      BY <1>1, <1>3, <1>10 DEF DisplayInv
    <3> QED
      BY <1>1, <1>2, <1>3, <1>4, <1>5, <1>6, <1>9, <3>1, <3>2, <3>3 DEF DisplayInv, Linked, Quits
  <2> QED
    BY <2>1, <2>2
<1>18. FifoInv'
  <2>1. \A g \in DOMAIN fifos : fifos[g].w => \E p \in 1..2 : p # i /\ cons.fd[p] = g
    BY <1>1, <1>10 DEF FifoInv, Linked
  <2> QED
    BY <1>1, <1>3, <1>5, <1>6, <1>8, <2>1 DEF FifoInv
<1>19. QueueOrder' /\ ReceiveOrder'
  BY <1>1, <1>2, <1>3, <1>4 DEF QueueOrder, ReceiveOrder
<1>20. FifoOrder' /\ ShownOrder'
  BY <1>1, <1>6, <1>8 DEF FifoOrder, ShownOrder, Linked
<1>21. WrittenOrder'
  <2> SUFFICES ASSUME NEW p \in 1..2, HasOpened(p)' PROVE WrittenOrder!(p)!2'
    BY DEF WrittenOrder
  <2>1. CASE p = i
    <3>1. DOMAIN << >> = {}
      OBVIOUS
    <3>2. fifos'[f].lines = << >>
      BY <1>1, <1>3, <1>6 DEF OwnMade
    <3>3. disp[i].fd = f => disp[i].shown = << >>
      <4>1. disp[i].fd = f => fifos[f].r
        BY <1>1, <1>3, NothingShown DEF DisplayInv
      <4> QED
        BY <1>7, <4>1
    <3> QED
      BY <1>3, <1>5, <1>8, <2>1, <3>1, <3>2, <3>3 DEF Among
  <2>2. CASE p # i
    BY <1>1, <1>2, <1>5, <1>6, <1>8, <1>9, <2>2 DEF WrittenOrder, Linked
  <2> QED
    BY <2>1, <2>2
<1>22. QuitInv'
  <2>1. DOMAIN received[Run] = {}
    BY <1>3
  <2>2. cons'.pc \notin {"off", "unlink", "exit"} /\ cons.pc \notin {"off", "unlink", "exit"}
    BY <1>3, <1>4
  <2> QED
    BY <1>1, <1>2, <2>1, <2>2 DEF QuitInv, Quits
<1>23. NameInv'
  BY <1>1, <1>2, <1>3, <1>4, <1>9 DEF NameInv
<1>24. Rendezvous'
  BY <1>1, <1>2, <1>3, <1>4, <1>5, <1>8 DEF Rendezvous
<1>25. ContentInv'
  <2>1. ASSUME NEW p \in 1..2, disp[p].pc # "off", Content(p) PROVE Content(p)'
    <3>1. /\ disp'[p].fd = disp[p].fd /\ disp'[p].shown = disp[p].shown
          /\ disp'[p].again = disp[p].again /\ disp[p].fd \in DOMAIN fifos
      BY <1>1, <1>8, <2>1 DEF Linked
    <3>2. fifos'[disp[p].fd].run = fifos[disp[p].fd].run /\ fifos'[disp[p].fd].lines = fifos[disp[p].fd].lines
      BY <1>6, <3>1
    <3>3. cons.pc # "write" /\ cons'.pc # "write"
      BY <1>3, <1>4
    <3> QED
      BY <1>2, <2>1, <3>1, <3>2, <3>3 DEF Content
  <2> QED
    BY <1>1, <1>2, <1>8, <2>1 DEF ContentInv
<1> QED
  BY <1>4, <1>11, <1>12, <1>13, <1>14, <1>15, <1>16, <1>17, <1>18, <1>19, <1>20, <1>21, <1>22, <1>23,
     <1>24, <1>25, Whole

\* The consumer takes the first line of the queue.
LEMMA ReceiveStep == ASSUME Inv, Receive PROVE Inv'
<1> DEFINE q == cons.q
           s == queues[q]
           t == received[Run]
           l == s[1]
           n == Len(t)
<1>1. /\ Types /\ Bounds /\ ConsumerInv /\ OwnOpened /\ OwnMade /\ OwnWait /\ OwnLater /\ Separate
      /\ DisplayInv /\ FifoInv /\ QueueOrder /\ ReceiveOrder /\ FifoOrder /\ ShownOrder /\ WrittenOrder
      /\ QuitInv /\ NameInv /\ Rendezvous /\ ContentInv /\ Linked
  BY Parts
<1>2. /\ kind' = kind /\ menu' = menu /\ fifos' = fifos /\ qname' = qname
      /\ fname' = fname /\ disp' = disp /\ mishaps' = mishaps /\ Pipes' = Pipes /\ cons.pc = "receive"
  BY PipesStay DEF Receive
<1>3. /\ Types' /\ q \in 1..Len(queues) /\ s # << >> /\ Run \in 1..Run /\ l \in Lines
      /\ cons'.q = q /\ cons'.fd = cons.fd /\ cons'.i = cons.i
      /\ cons'.pc = (IF Pipes = {} THEN AfterLine(l) ELSE "write")
      /\ Run' = Run /\ \A r \in 1..Run : r # Run => received'[r] = received[r]
      /\ received'[Run] = Append(t, l)
      /\ Len(queues') = Len(queues) /\ queues'[q] = Tail(s)
      /\ \A k \in 1..Len(queues) : k # q => queues'[k] = queues[k]
  BY <1>1, ReceiveIs
<1>4. /\ DOMAIN queues' = DOMAIN queues /\ q \in DOMAIN queues
      /\ \A k \in DOMAIN queues : k # q => queues'[k] = queues[k]
      /\ DOMAIN received' = DOMAIN received /\ Run \in DOMAIN received
      /\ \A r \in DOMAIN received : r # Run => received'[r] = received[r]
      /\ s \in Seq(Lines) /\ t \in Seq(Lines) /\ n \in Nat /\ DOMAIN t = 1..n
      /\ Len(s) \in Nat /\ DOMAIN s = 1..Len(s)
  <2>1. Shape /\ Shape'
    BY <1>1, <1>3, Values, PTL
  <2> QED
    BY <1>3, <2>1 DEF Shape
<1>5. Pipes \subseteq 1..2 /\ (Pipes # {} => 1 \in Pipes) /\ cons.i = 1
  BY <1>1, <1>2, PipesAre DEF Types, ConsumerInv
<1>6. /\ Len(received'[Run]) = n + 1 /\ DOMAIN received'[Run] = 1..n + 1
      /\ \A k \in 1..n : received'[Run][k] = t[k]
      /\ received'[Run][n + 1] = l /\ received'[Run] # << >>
  BY <1>3, <1>4, AppendIs
<1>7. /\ Len(s) # 0 /\ 1 \in DOMAIN s
      /\ DOMAIN Tail(s) = 1..Len(s) - 1 /\ Len(Tail(s)) = Len(s) - 1
      /\ \A k \in 1..Len(s) - 1 : Tail(s)[k] = s[k + 1] /\ k + 1 \in DOMAIN s
  <2>1. Len(s) # 0
    BY <1>3, <1>4, EmptySeq
  <2>2. \A u \in Seq(Lines) : u # << >> => Tail(u) \in Seq(Lines) /\ Len(Tail(u)) = Len(u) - 1
           /\ \A k \in 1..Len(Tail(u)) : Tail(u)[k] = u[k + 1]
    BY HeadTailProperties
  <2>3. DOMAIN Tail(s) = 1..Len(Tail(s))
    BY <1>3, <1>4, <2>2, LenProperties
  <2> HIDE DEF s
  <2> QED
    BY <1>3, <1>4, <2>1, <2>2, <2>3
<1>8. cons'.pc \in {"receive", "write", "unlink"} /\ (Pipes # {} <=> cons'.pc = "write")
  BY <1>3 DEF AfterLine
<1>9. \A p : HasOpened(p)' = HasOpened(p) /\ HasPassed(p)' = HasPassed(p) /\ NotMade(p)' = NotMade(p)
  BY <1>2, <1>3, <1>8 DEF HasOpened, HasPassed, NotMade, Connected
<1>10. \A p \in 1..2 : p \in Pipes => Written(p)' = Written(p) /\ Written(p) = n
  <2> SUFFICES ASSUME NEW p \in 1..2, p \in Pipes PROVE Written(p)' = n /\ Written(p) = n
    OBVIOUS
  <2>1. cons'.pc = "write" /\ cons'.i <= p /\ Len(received'[Run']) - 1 = n
    BY <1>3, <1>4, <1>5, <1>6, <1>8
  <2>2. Written(p)' = n
    BY <2>1 DEF Written
  <2>3. Written(p) = n
    BY <1>2 DEF Written
  <2> QED
    BY <2>2, <2>3
<1>11. /\ \A k \in DOMAIN t : t[k].nr \in Nat /\ t[k].nr < l.nr /\ t[k].nr <= menu.typed
       /\ \A k \in DOMAIN s : s[k].nr \in Nat /\ s[k].nr <= menu.typed
       /\ \A j, k \in DOMAIN s : j < k => s[j].nr < s[k].nr
       /\ \A j, k \in DOMAIN t : j < k => t[j].nr < t[k].nr
       /\ \A j \in DOMAIN t, k \in DOMAIN s : t[j].nr < s[k].nr
  <2>1. Increasing(s) /\ Increasing(t) /\ Before(t, s) /\ (\A k \in DOMAIN s : s[k].nr <= menu.typed)
        /\ (\A k \in DOMAIN t : t[k].nr <= menu.typed)
    BY <1>1, <1>2, <1>4 DEF QueueOrder, ReceiveOrder
  <2>2. (\A k \in DOMAIN s : s[k].nr \in Nat) /\ (\A k \in DOMAIN t : t[k].nr \in Nat)
    BY <1>4, Numbers
  <2> QED
    BY <1>7, <2>1, <2>2 DEF Increasing, Before
<1> HIDE DEF s, t, l, n
<1>12. Bounds'
  <2>1. Len(queues'[q]) <= MAX_MSG_COUNT
    BY <1>1, <1>3, <1>4, <1>7, Assumed DEF Bounds, s
  <2> QED
    BY <1>1, <1>2, <1>3, <1>4, <2>1 DEF Bounds
<1>13. ConsumerInv'
  BY <1>1, <1>2, <1>3, <1>5, <1>6, <1>8, <1>9 DEF ConsumerInv
<1>14. OwnOpened' /\ OwnMade' /\ OwnWait' /\ OwnLater'
  <2>1. OwnOpened'
    BY <1>1, <1>2, <1>3, <1>9 DEF OwnOpened
  <2>2. OwnMade' /\ OwnWait' /\ OwnLater'
    BY <1>1, <1>2, <1>3, <1>8, <1>9 DEF OwnMade, OwnWait, OwnLater
  <2> QED
    BY <2>1, <2>2
<1>15. Separate' /\ FifoInv'
  BY <1>1, <1>2, <1>3 DEF Separate, Refs, FifoInv
<1>16. DisplayInv'
  BY <1>1, <1>2, <1>3, <1>8, <1>9 DEF DisplayInv, Quits
<1>17. QueueOrder'
  <2> SUFFICES ASSUME NEW k \in DOMAIN queues
               PROVE  Increasing(queues'[k]) /\ \A j \in DOMAIN queues'[k] : queues'[k][j].nr <= menu.typed
    BY <1>2, <1>4 DEF QueueOrder
  <2>1. CASE k = q
    <3>1. Increasing(Tail(s))
      BY <1>4, <1>7, <1>11 DEF Increasing
    <3>2. \A j \in DOMAIN Tail(s) : Tail(s)[j].nr <= menu.typed
      BY <1>7, <1>11
    <3> QED
      BY <1>3, <2>1, <3>1, <3>2
  <2>2. CASE k # q
    BY <1>1, <1>4, <2>2 DEF QueueOrder
  <2> QED
    BY <2>1, <2>2
<1>18. ReceiveOrder'
  <2>1. Increasing(received'[Run]) /\ \A k \in DOMAIN received'[Run] : received'[Run][k].nr <= menu.typed
    <3>1. \A k \in DOMAIN received'[Run] : k \in DOMAIN t \/ k = n + 1
      BY <1>4, <1>6
    <3>2. l.nr <= menu.typed
      BY <1>7, <1>11 DEF l
    <3>3. \A k \in DOMAIN received'[Run] : received'[Run][k].nr <= menu.typed
      BY <1>4, <1>6, <1>11, <3>1, <3>2
    <3>4. \A j, k \in DOMAIN received'[Run] : j < k => j \in DOMAIN t
      BY <1>4, <1>6
    <3>5. Increasing(received'[Run])
      BY <1>4, <1>6, <1>11, <3>1, <3>4 DEF Increasing
    <3> QED
      BY <3>3, <3>5
  <2>2. Before(received'[Run], queues'[q])
    <3> SUFFICES ASSUME NEW j \in DOMAIN received'[Run], NEW k \in DOMAIN Tail(s)
                 PROVE  received'[Run][j].nr < Tail(s)[k].nr
      BY <1>3 DEF Before
    <3>1. k + 1 \in DOMAIN s /\ Tail(s)[k] = s[k + 1] /\ 1 < k + 1
      BY <1>4, <1>7
    <3>2. CASE j \in DOMAIN t
      BY <1>4, <1>6, <1>11, <3>1, <3>2
    <3>3. CASE j = n + 1
      BY <1>6, <1>7, <1>11, <3>1, <3>3 DEF l
    <3> QED
      BY <1>4, <1>6, <3>2, <3>3
  <2>3. \A r \in DOMAIN received : r # Run =>
          Increasing(received'[r]) /\ \A k \in DOMAIN received'[r] : received'[r][k].nr <= menu.typed
    BY <1>1, <1>4 DEF ReceiveOrder
  <2> QED
    BY <1>2, <1>3, <1>4, <2>1, <2>2, <2>3 DEF ReceiveOrder
<1>19. FifoOrder' /\ ShownOrder'
  BY <1>1, <1>2 DEF FifoOrder, ShownOrder
<1>20. WrittenOrder'
  <2>1. \A u : Among(u, t, n) => Among(u, received'[Run], n)
    BY <1>6 DEF Among
  <2>2. \A p \in 1..2 : HasOpened(p) => p \in Pipes
    BY DEF HasOpened
  <2> QED
    BY <1>1, <1>2, <1>3, <1>9, <1>10, <2>1, <2>2 DEF WrittenOrder, t
<1>21. QuitInv'
  <2>1. \A k \in 1..n : ~Quits(t[k])
    BY <1>1, <1>2, <1>4 DEF QuitInv, t
  <2>2. \A r \in DOMAIN received' : \A k \in 1..Len(received'[r]) - 1 : ~Quits(received'[r][k])
    <3>1. \A k \in 1..Len(received'[Run]) - 1 : ~Quits(received'[Run][k])
      BY <1>4, <1>6, <2>1
    <3> QED
      BY <1>1, <1>4, <3>1 DEF QuitInv
  <2>3. cons'.pc = "receive" => \A k \in DOMAIN received'[Run] : ~Quits(received'[Run][k])
    <3>1. cons'.pc = "receive" => ~Quits(l)
      BY <1>3 DEF AfterLine
    <3> QED
      BY <1>4, <1>6, <2>1, <3>1
  <2>4. cons'.pc \in {"off", "unlink", "exit"} => Quits(l)
    BY <1>3, <1>8 DEF AfterLine
  <2>5. mishaps' = {} => \A r \in DOMAIN received' :
          r < Run' \/ cons'.pc \in {"off", "unlink", "exit"} =>
            received'[r] # << >> /\ Quits(received'[r][Len(received'[r])])
    <3> SUFFICES ASSUME mishaps = {}, NEW r \in DOMAIN received, r < Run \/ cons'.pc \in {"off", "unlink", "exit"}
                 PROVE  received'[r] # << >> /\ Quits(received'[r][Len(received'[r])])
      BY <1>2, <1>3, <1>4
    <3>1. CASE r = Run
      <4>1. Run \in Nat
        BY <1>1, Values DEF Shape
      <4> QED
        BY <1>6, <2>4, <3>1, <4>1
    <3>2. CASE r # Run
      <4>1. r < Run
        BY <1>1, <3>2, Values DEF Shape
      <4> QED
        BY <1>1, <1>4, <3>2, <4>1 DEF QuitInv
    <3> QED
      BY <3>1, <3>2
  <2>6. \A x : Quits(x)' = Quits(x)
    BY <1>2 DEF Quits
  <2> QED
    BY <1>3, <2>2, <2>3, <2>5, <2>6 DEF QuitInv
<1>22. NameInv' /\ Rendezvous'
  BY <1>1, <1>2, <1>3, <1>8, <1>9 DEF NameInv, Rendezvous
<1>23. ContentInv'
  <2>1. ASSUME NEW p \in 1..2, disp[p].pc # "off", Content(p) PROVE Content(p)'
    <3> DEFINE r == fifos[disp[p].fd].run
    <3>1. p \in Pipes /\ disp[p].fd \in DOMAIN fifos
      BY <1>1, <2>1 DEF Linked
    <3>2. r \in DOMAIN received /\ Len(disp[p].shown) \in Nat /\ Len(fifos[disp[p].fd].lines) \in Nat
      BY <1>1, <3>1, Values DEF Bounds, Shape
    <3>3. CASE r # Run
      BY <1>2, <1>3, <1>4, <2>1, <3>2, <3>3 DEF Content
    <3>4. CASE r = Run
      <4>0. n \in Nat
        BY <1>4
      <4> DEFINE a == Len(disp[p].shown)
                 b == Len(fifos[disp[p].fd].lines)
      <4>1. Len(disp[p].shown) + Len(fifos[disp[p].fd].lines) = n
        BY <1>2, <2>1, <3>4 DEF Content, n, t
      <4>6. (\A k \in 1..a : k \in 1..n) /\ \A k \in 1..b : a + k \in 1..n
        <5>1. a \in Nat /\ b \in Nat /\ a + b = n
          BY <3>2, <4>1
        <5> HIDE DEF a, b
        <5> QED
          BY <4>0, <5>1
      <4>2. cons'.pc = "write" /\ cons'.i <= p /\ Len(received'[Run]) - 1 = n
        BY <1>3, <1>4, <1>5, <1>6, <1>8, <3>1
      <4>3. \A k \in 1..Len(disp[p].shown) : disp[p].shown[k] = received'[Run][k]
        <5>1. \A k \in 1..Len(disp[p].shown) : k \in 1..n
          BY <4>6
        <5> QED
          BY <1>6, <2>1, <3>4, <5>1 DEF Content, t
      <4>4. \A k \in 1..Len(fifos[disp[p].fd].lines) :
              fifos[disp[p].fd].lines[k] = received'[Run][Len(disp[p].shown) + k]
        <5>1. \A k \in 1..Len(fifos[disp[p].fd].lines) : Len(disp[p].shown) + k \in 1..n
          BY <4>6
        <5> QED
          BY <1>6, <2>1, <3>4, <5>1 DEF Content, t
      <4>5. ~disp[p].again
        BY <2>1 DEF Content
      <4> QED
        BY <1>2, <1>3, <3>4, <4>1, <4>2, <4>3, <4>4, <4>5 DEF Content
    <3> QED
      BY <3>3, <3>4
  <2> QED
    BY <1>1, <1>2, <2>1 DEF ContentInv
<1> QED
  BY <1>3, <1>12, <1>13, <1>14, <1>15, <1>16, <1>17, <1>18, <1>19, <1>20, <1>21, <1>22, <1>23, Whole

\* A line goes to one pipe.
LEMMA WriteStep == ASSUME Inv, Write, fifos[cons.fd[cons.i]].r PROVE Inv'
<1> DEFINE i == cons.i
           f == cons.fd[i]
           s == fifos[f].lines
           t == received[Run]
           n == Len(t)
           l == t[n]
<1>1. /\ Types /\ Bounds /\ ConsumerInv /\ OwnOpened /\ OwnMade /\ OwnWait /\ OwnLater /\ Separate
      /\ DisplayInv /\ FifoInv /\ QueueOrder /\ ReceiveOrder /\ FifoOrder /\ ShownOrder /\ WrittenOrder
      /\ QuitInv /\ NameInv /\ Rendezvous /\ ContentInv /\ Linked
  BY Parts
<1>2. /\ kind' = kind /\ queues' = queues /\ menu' = menu /\ received' = received /\ qname' = qname
      /\ fname' = fname /\ disp' = disp /\ Run' = Run /\ Pipes' = Pipes /\ cons.pc = "write"
  BY PipesStay DEF Write, Run
<1>3. /\ Pipes \subseteq 1..2 /\ i \in 1..2 /\ i \in Pipes /\ HasOpened(i) /\ HasPassed(i) /\ f # 0
      /\ f \in DOMAIN fifos /\ fifos[f].used /\ fifos[f].run = Run /\ fifos[f].r
  BY <1>1, <1>2, PipesAre DEF Types, ConsumerInv, HasOpened, HasPassed, Connected, Linked, OwnOpened
<1>4. /\ Types' /\ mishaps' = mishaps /\ cons'.q = cons.q /\ cons'.fd = cons.fd /\ l \in Lines
      /\ t # << >> /\ Run \in 1..Run
      /\ \/ i + 1 \in Pipes /\ cons'.i = i + 1 /\ cons'.pc = "write"
         \/ i + 1 \notin Pipes /\ cons'.i = 1 /\ cons'.pc = AfterLine(l)
  BY <1>1, <1>3, WriteIs
<1>5. /\ t \in Seq(Lines) /\ n \in Nat /\ DOMAIN t = 1..n /\ Run \in DOMAIN received
      /\ s \in Seq(Lines) /\ Len(s) \in Nat /\ DOMAIN s = 1..Len(s) /\ n # 0
  <2>1. /\ t \in Seq(Lines) /\ n \in Nat /\ DOMAIN t = 1..n /\ Run \in DOMAIN received
        /\ s \in Seq(Lines) /\ Len(s) \in Nat /\ DOMAIN s = 1..Len(s)
    BY <1>1, <1>3, <1>4, Values DEF Shape
  <2> QED
    BY <1>4, <2>1, EmptySeq
<1>6. /\ DOMAIN fifos' = DOMAIN fifos
      /\ \A g \in DOMAIN fifos :
           /\ fifos'[g].run = fifos[g].run /\ (fifos'[g].w <=> fifos[g].w)
           /\ (fifos'[g].r <=> fifos[g].r) /\ (fifos'[g].used <=> fifos[g].used)
           /\ (g # f => fifos'[g].lines = fifos[g].lines)
      /\ fifos'[f].lines = Append(s, l)
  <2>1. Shape /\ Shape'
    BY <1>1, <1>4, Values, PTL
  <2>2. Len(fifos') = Len(fifos) /\ fifos'[f] = [fifos[f] EXCEPT !.lines = Append(s, l)]
        /\ \A g \in 1..Len(fifos) : g # f => fifos'[g] = fifos[g]
    BY <1>1, <1>3, WriteIs
  <2>3. DOMAIN fifos' = DOMAIN fifos /\ DOMAIN fifos = 1..Len(fifos) /\ \A g \in DOMAIN fifos : fifos[g] \in Fifos
    BY <2>1, <2>2 DEF Shape
  <2>4. \A g \in DOMAIN fifos : g # f => fifos'[g] = fifos[g]
    BY <2>2, <2>3
  <2> HIDE DEF s, l
  <2>5. /\ (fifos'[f].w <=> fifos[f].w) /\ fifos'[f].run = fifos[f].run /\ fifos'[f].lines = Append(s, l)
        /\ (fifos'[f].r <=> fifos[f].r) /\ (fifos'[f].used <=> fifos[f].used)
    BY <1>3, <2>2, <2>3 DEF Fifos
  <2> QED
    BY <2>3, <2>4, <2>5
<1>7. /\ Len(fifos'[f].lines) = Len(s) + 1 /\ DOMAIN fifos'[f].lines = 1..Len(s) + 1
      /\ \A k \in 1..Len(s) : fifos'[f].lines[k] = s[k]
      /\ fifos'[f].lines[Len(s) + 1] = l
  <2> HIDE DEF s, l
  <2>1. /\ Len(Append(s, l)) = Len(s) + 1 /\ DOMAIN Append(s, l) = 1..Len(s) + 1
        /\ \A k \in 1..Len(s) : Append(s, l)[k] = s[k]
        /\ Append(s, l)[Len(s) + 1] = l
    BY <1>4, <1>5, AppendIs
  <2> QED
    BY <1>6, <2>1
<1> HIDE DEF s, n, t
<1>8. cons'.pc \in {"receive", "write", "unlink"}
  BY <1>4 DEF AfterLine
<1>9. \A p : HasOpened(p)' = HasOpened(p) /\ HasPassed(p)' = HasPassed(p) /\ NotMade(p)' = NotMade(p)
  BY <1>2, <1>8 DEF HasOpened, HasPassed, NotMade, Connected
<1>10. /\ \A p \in 1..2 : p \in Pipes /\ p # i => Written(p)' = Written(p)
       /\ Written(i) = n - 1
       /\ ~(cons'.pc = "write" /\ cons'.i <= i)
  <2>1. ~(cons'.pc = "write" /\ cons'.i <= i)
    BY <1>3, <1>4 DEF AfterLine
  <2>2. Written(i) = n - 1
    BY <1>2, <1>3 DEF Written, n, t
  <2>3. ASSUME NEW p \in 1..2, p \in Pipes, p # i PROVE Written(p)' = Written(p)
    <3>1. (cons'.pc = "write" /\ cons'.i <= p) <=> i <= p
      BY <1>3, <1>4, <2>3 DEF AfterLine
    <3> QED
      BY <1>2, <3>1 DEF Written
  <2> QED
    BY <2>1, <2>2, <2>3
<1>11. \A p \in 1..2 : p # i => cons.fd[p] # f /\ disp[p].fd # f
  BY <1>1, <1>3, Apart DEF Refs
<1>12. /\ \A k \in DOMAIN s : s[k].nr \in Nat /\ s[k].nr < l.nr
       /\ disp[i].fd = f => \A k \in DOMAIN disp[i].shown : disp[i].shown[k].nr < l.nr
  <2>1. Among(s, t, n - 1) /\ (disp[i].fd = f => Among(disp[i].shown, t, n - 1))
    BY <1>1, <1>3, <1>10 DEF WrittenOrder, s, t
  <2>2. \A k \in 1..n - 1 : t[k].nr < l.nr
    <3>1. Increasing(t)
      BY <1>1, <1>5 DEF ReceiveOrder, t
    <3>2. n \in DOMAIN t /\ \A k \in 1..n - 1 : k \in DOMAIN t /\ k < n
      BY <1>5
    <3> QED
      BY <3>1, <3>2 DEF Increasing
  <2>3. \A k \in DOMAIN s : s[k].nr \in Nat
    BY <1>5, Numbers
  <2> QED
    BY <2>1, <2>2, <2>3 DEF Among
<1>13. Bounds'
  BY <1>1, <1>2, <1>6 DEF Bounds
<1>14. ConsumerInv'
  BY <1>1, <1>2, <1>3, <1>4, <1>8, <1>9 DEF ConsumerInv, AfterLine
<1>15. OwnOpened' /\ OwnMade' /\ OwnWait' /\ OwnLater'
  <2>1. OwnOpened'
    <3> SUFFICES ASSUME NEW p \in 1..2, HasOpened(p) PROVE OwnOpened!(p)!2'
      BY <1>9 DEF OwnOpened
    <3>1. cons.fd[p] \in DOMAIN fifos /\ (disp[p].pc # "off" => disp[p].fd \in DOMAIN fifos)
      BY <1>1 DEF Linked
    <3> QED
      BY <1>1, <1>2, <1>4, <1>6, <1>9, <3>1 DEF OwnOpened
  <2>2. OwnMade' /\ OwnWait' /\ OwnLater'
    BY <1>8 DEF OwnMade, OwnWait, OwnLater, NotMade
  <2> QED
    BY <2>1, <2>2
<1>16. Separate'
  BY <1>1, <1>2, <1>4 DEF Separate, Refs
<1>17. DisplayInv'
  <2> SUFFICES ASSUME NEW p \in 1..2 PROVE DisplayInv!(p)'
    BY DEF DisplayInv
  <2>1. disp[p].pc # "off" => disp[p].fd \in DOMAIN fifos
    BY <1>1 DEF Linked
  <2>2. cons'.pc # "off" /\ cons.pc # "off" /\ \A x : Quits(x)' = Quits(x)
    BY <1>2, <1>8 DEF Quits
  <2>3. disp'[p] = disp[p] /\ Run' = Run /\ cons'.fd = cons.fd /\ Pipes' = Pipes
    BY <1>2, <1>4
  <2> QED
    BY <1>1, <1>6, <1>9, <2>1, <2>2, <2>3 DEF DisplayInv
<1>18. FifoInv'
  BY <1>1, <1>2, <1>3, <1>4, <1>6 DEF FifoInv
<1>19. QueueOrder' /\ ReceiveOrder'
  BY <1>1, <1>2, <1>4 DEF QueueOrder, ReceiveOrder
<1>20. FifoOrder'
  <2>1. Increasing(fifos'[f].lines)
    <3>1. Increasing(s)
      BY <1>1, <1>3 DEF FifoOrder, s
    <3>2. \A j, k \in DOMAIN fifos'[f].lines : j < k => j \in DOMAIN s /\ (k \in DOMAIN s \/ k = Len(s) + 1)
      BY <1>5, <1>7
    <3> QED
      BY <1>5, <1>7, <1>12, <3>1, <3>2 DEF Increasing
  <2> QED
    BY <1>1, <1>3, <1>6, <2>1 DEF FifoOrder
<1>21. ShownOrder'
  <2> SUFFICES ASSUME NEW p \in 1..2, disp[p].pc # "off"
               PROVE  Increasing(disp[p].shown) /\ Before(disp[p].shown, fifos'[disp[p].fd].lines)
    BY <1>2 DEF ShownOrder
  <2>1. Increasing(disp[p].shown) /\ Before(disp[p].shown, fifos[disp[p].fd].lines) /\ disp[p].fd \in DOMAIN fifos
    BY <1>1 DEF ShownOrder, Linked
  <2>2. CASE disp[p].fd # f
    BY <1>6, <2>1, <2>2
  <2>3. CASE disp[p].fd = f
    <3>1. p = i
      BY <1>11, <2>3
    <3>2. \A k \in DOMAIN fifos'[f].lines : k \in DOMAIN s \/ k = Len(s) + 1
      BY <1>5, <1>7
    <3>3. Before(disp[p].shown, s)
      BY <2>1, <2>3 DEF s
    <3>4. \A j \in DOMAIN disp[p].shown : disp[p].shown[j].nr < l.nr
      BY <1>12, <2>3, <3>1
    <3>5. Before(disp[p].shown, fifos'[f].lines)
      <4> HIDE DEF l
      <4> QED
        BY <1>5, <1>7, <3>2, <3>3, <3>4 DEF Before
    <3> QED
      BY <2>1, <2>3, <3>5
  <2> QED
    BY <2>2, <2>3
<1>22. WrittenOrder'
  <2> SUFFICES ASSUME NEW p \in 1..2, HasOpened(p)
               PROVE  /\ Among(fifos'[cons.fd[p]].lines, t, Written(p)')
                      /\ disp[p].fd = cons.fd[p] => Among(disp[p].shown, t, Written(p)')
    BY <1>2, <1>4, <1>9 DEF WrittenOrder, t
  <2>0. /\ Among(fifos[cons.fd[p]].lines, t, Written(p))
        /\ disp[p].fd = cons.fd[p] => Among(disp[p].shown, t, Written(p))
        /\ p \in Pipes /\ cons.fd[p] \in DOMAIN fifos
    BY <1>1 DEF WrittenOrder, Linked, HasOpened, t
  <2>1. CASE p # i
    BY <1>6, <1>10, <1>11, <2>0, <2>1
  <2>2. CASE p = i
    <3>1. Written(p)' = n
      BY <1>2, <1>10, <2>2 DEF Written, n, t
    <3>2. \A u : Among(u, t, n - 1) => Among(u, t, n)
      BY <1>5 DEF Among
    <3>3. n \in 1..n /\ t[n] = l
      BY <1>5
    <3>4. \A k \in DOMAIN fifos'[f].lines : k \in DOMAIN s \/ k = Len(s) + 1
      BY <1>5, <1>7
    <3>5. Among(s, t, n)
      BY <1>10, <2>0, <2>2, <3>2 DEF s
    <3>6. Among(fifos'[f].lines, t, n)
      BY <1>5, <1>7, <3>3, <3>4, <3>5 DEF Among
    <3> QED
      BY <1>10, <2>0, <2>2, <3>1, <3>2, <3>6
  <2> QED
    BY <2>1, <2>2
<1>23. QuitInv'
  <2>1. \A r \in DOMAIN received : \A k \in 1..Len(received[r]) - 1 : ~Quits(received[r][k])
    BY <1>1 DEF QuitInv
  <2>0. t = received[Run] /\ n = Len(t)
    BY DEF t, n
  <2>2. cons'.pc = "receive" => \A k \in DOMAIN t : ~Quits(t[k])
    <3>1. cons'.pc = "receive" => ~Quits(l)
      BY <1>4 DEF AfterLine
    <3>2. \A k \in DOMAIN t : k \in 1..n - 1 \/ k = n
      BY <1>5
    <3>3. \A k \in 1..n - 1 : ~Quits(t[k])
      BY <1>5, <2>0, <2>1
    <3> QED
      BY <3>1, <3>2, <3>3
  <2>3. cons'.pc \in {"off", "unlink", "exit"} => Quits(l)
    BY <1>4, <1>8 DEF AfterLine
  <2>4. ASSUME mishaps = {}, NEW r \in DOMAIN received, r < Run \/ cons'.pc \in {"off", "unlink", "exit"}
        PROVE  received[r] # << >> /\ Quits(received[r][Len(received[r])])
    <3>1. CASE r = Run
      <4>1. Run \in Nat
        BY <1>1, Values DEF Shape
      <4> QED
        BY <1>4, <2>0, <2>3, <2>4, <3>1, <4>1
    <3>2. CASE r # Run
      <4>1. r < Run
        BY <1>1, <2>4, <3>2, Values DEF Shape
      <4> QED
        BY <1>1, <2>4, <4>1 DEF QuitInv
    <3> QED
      BY <3>1, <3>2
  <2>5. \A x : Quits(x)' = Quits(x)
    BY <1>2 DEF Quits
  <2> QED
    BY <1>2, <1>4, <2>0, <2>1, <2>2, <2>4, <2>5 DEF QuitInv
<1>24. NameInv' /\ Rendezvous'
  BY <1>1, <1>2, <1>4, <1>8, <1>9 DEF NameInv, Rendezvous
<1>25. ContentInv'
  <2>1. ASSUME NEW p \in 1..2, disp[p].pc # "off", Content(p) PROVE Content(p)'
    <3> DEFINE g == disp[p].fd
               m == Len(disp[p].shown)
    <3>1. p \in Pipes /\ g \in DOMAIN fifos
      BY <1>1, <2>1 DEF Linked
    <3>2. CASE g = f
      <4>1. p = i
        BY <1>11, <3>2
      <4>2. /\ m + Len(s) = n - 1 /\ ~disp[p].again
            /\ \A k \in 1..m : disp[p].shown[k] = t[k]
            /\ \A k \in 1..Len(s) : s[k] = t[m + k]
        <5>1. fifos[g].lines = s /\ received[fifos[g].run] = t /\ fifos[g].run = Run /\ cons.i <= p
          BY <1>3, <3>2, <4>1 DEF s, t
        <5> HIDE DEF m, g
        <5>2. /\ m + Len(s) = (IF fifos[g].run = Run /\ cons.pc = "write" /\ cons.i <= p THEN Len(t) - 1 ELSE Len(t))
              /\ ~disp[p].again
              /\ \A k \in 1..m : disp[p].shown[k] = t[k]
              /\ \A k \in 1..Len(s) : s[k] = t[m + k]
          BY <2>1, <5>1 DEF Content, m, g
        <5> QED
          BY <1>2, <5>1, <5>2 DEF n
      <4>3. m \in Nat
        BY <1>1, Values DEF Shape
      <4> HIDE DEF m
      <4>4. m + Len(fifos'[f].lines) = n
        BY <1>5, <1>7, <4>2, <4>3
      <4>5. \A k \in 1..Len(fifos'[f].lines) : fifos'[f].lines[k] = t[m + k]
        <5>1. \A k \in 1..Len(s) : fifos'[f].lines[k] = t[m + k]
          BY <1>7, <4>2
        <5>2. fifos'[f].lines[Len(s) + 1] = t[m + (Len(s) + 1)]
          <6>1. m + (Len(s) + 1) = n
            BY <1>5, <4>2, <4>3
          <6> QED
            BY <1>7, <6>1
        <5>3. \A k \in 1..Len(s) + 1 : k \in 1..Len(s) \/ k = Len(s) + 1
          BY <1>5
        <5> QED
          BY <1>7, <5>1, <5>2, <5>3
      <4>6. fifos'[f].run = Run
        BY <1>3, <1>6
      <4> QED
        <5>1. /\ disp'[p].fd = f /\ disp'[p].shown = disp[p].shown /\ ~disp'[p].again
              /\ received'[fifos'[f].run] = t /\ Run' = Run /\ ~(cons'.pc = "write" /\ cons'.i <= p)
          BY <1>2, <1>10, <3>2, <4>1, <4>2, <4>6 DEF t
        <5> HIDE DEF f
        <5> QED
          BY <4>2, <4>4, <4>5, <5>1 DEF Content, n, m
    <3>3. CASE g # f
      <4>1. fifos'[g].run = fifos[g].run /\ fifos'[g].lines = fifos[g].lines
        BY <1>6, <3>1, <3>3
      <4>2. CASE fifos[g].run # Run
        BY <1>2, <2>1, <4>1, <4>2 DEF Content
      <4>3. CASE fifos[g].run = Run
        <5>1. HasOpened(p)
          BY <1>2, <3>1 DEF HasOpened, Connected
        <5>2. g = cons.fd[p]
          BY <1>1, <2>1, <4>3, <5>1 DEF OwnOpened
        <5>3. p # i
          BY <3>3, <5>2
        <5>4. (cons'.pc = "write" /\ cons'.i <= p) <=> i <= p
          BY <1>3, <1>4, <3>1, <5>3 DEF AfterLine
        <5> QED
          BY <1>2, <2>1, <4>1, <5>4 DEF Content
      <4> QED
        BY <4>2, <4>3
    <3> QED
      BY <3>2, <3>3
  <2> QED
    BY <1>1, <1>2, <1>4, <2>1 DEF ContentInv
<1> QED
  BY <1>4, <1>13, <1>14, <1>15, <1>16, <1>17, <1>18, <1>19, <1>20, <1>21, <1>22, <1>23, <1>24, <1>25, Whole

\* The end of the consumer, whatever the reason: what is left to show in each case
\* is about the names.
LEMMA GoneStep ==
  ASSUME Inv, Gone, UNCHANGED <<kind, queues, menu, received, disp>>, Types', cons.pc # "off",
         \A p \in 1..2 : fname'[p] \in {0, fname[p]}, mishaps \subseteq mishaps',
         mishaps' = {} => cons.pc = "exit", NameInv', Rendezvous'
  PROVE  Inv'
<1>1. /\ Types /\ Bounds /\ ConsumerInv /\ OwnOpened /\ OwnMade /\ OwnWait /\ OwnLater /\ Separate
      /\ DisplayInv /\ FifoInv /\ QueueOrder /\ ReceiveOrder /\ FifoOrder /\ ShownOrder /\ WrittenOrder
      /\ QuitInv /\ NameInv /\ Rendezvous /\ ContentInv /\ Linked
  BY Parts
<1>2. /\ kind' = kind /\ queues' = queues /\ menu' = menu /\ received' = received /\ disp' = disp
      /\ Run' = Run /\ Pipes' = Pipes
  BY PipesStay DEF Run
<1>3. cons'.pc = "off" /\ cons'.i = 1 /\ cons'.fd[1] = 0 /\ cons'.fd[2] = 0
  <2>1. NoConsumer.pc = "off" /\ NoConsumer.i = 1 /\ NoConsumer.fd[1] = 0 /\ NoConsumer.fd[2] = 0
    BY DEF NoConsumer
  <2> QED
    BY <1>1, <2>1, GoneIs
<1>4. /\ DOMAIN fifos' = DOMAIN fifos
      /\ \A f \in DOMAIN fifos :
           /\ fifos'[f].run = fifos[f].run /\ fifos'[f].lines = fifos[f].lines
           /\ (fifos'[f].r <=> fifos[f].r) /\ (fifos'[f].used <=> fifos[f].used) /\ ~fifos'[f].w
  <2>1. Shape /\ Shape'
    BY <1>1, Values, PTL
  <2>2. Len(fifos') = Len(fifos) /\ \A f \in 1..Len(fifos) : fifos'[f] = [fifos[f] EXCEPT !.w = FALSE]
    BY <1>1, GoneIs
  <2> QED
    BY <2>1, <2>2 DEF Shape, Fifos
<1>5. \A p \in 1..2 : ~HasOpened(p)' /\ ~NotMade(p)'
  BY <1>3 DEF HasOpened, NotMade
<1>6. Bounds'
  BY <1>1, <1>2, <1>4 DEF Bounds
<1>7. ConsumerInv'
  BY <1>3, <1>5 DEF ConsumerInv
<1>8. OwnOpened' /\ OwnMade' /\ OwnWait' /\ OwnLater' /\ WrittenOrder'
  BY <1>3, <1>5 DEF OwnOpened, OwnMade, OwnWait, OwnLater, WrittenOrder
<1>9. Separate'
  <2>1. fname'[1] \in {0, fname[1]} /\ fname'[2] \in {0, fname[2]}
    OBVIOUS
  <2> QED
    BY <1>1, <1>2, <1>3, <2>1 DEF Separate, Refs
<1>10. DisplayInv'
  BY <1>1, <1>2, <1>3, <1>4 DEF DisplayInv, Linked, Quits
<1>11. FifoInv'
  BY <1>1, <1>2, <1>4 DEF FifoInv
<1>12. QueueOrder' /\ ReceiveOrder'
  BY <1>1, <1>2, <1>3 DEF QueueOrder, ReceiveOrder
<1>13. FifoOrder' /\ ShownOrder'
  BY <1>1, <1>2, <1>4 DEF FifoOrder, ShownOrder, Linked
<1>14. QuitInv'
  BY <1>1, <1>2, <1>3 DEF QuitInv, Quits
<1>15. ContentInv'
  <2>1. ASSUME cons.pc = "exit", NEW p \in 1..2, disp[p].pc # "off", Content(p) PROVE Content(p)'
    <3>1. disp'[p] = disp[p] /\ disp[p].fd \in DOMAIN fifos
      BY <1>1, <1>2, <2>1 DEF Linked
    <3>2. fifos'[disp[p].fd].run = fifos[disp[p].fd].run /\ fifos'[disp[p].fd].lines = fifos[disp[p].fd].lines
      BY <1>4, <3>1
    <3> QED
      BY <1>2, <1>3, <2>1, <3>1, <3>2 DEF Content
  <2> QED
    BY <1>1, <1>2, <2>1 DEF ContentInv
<1> QED
  BY <1>6, <1>7, <1>8, <1>9, <1>10, <1>11, <1>12, <1>13, <1>14, <1>15, Whole

\* At a regular end no display can still wait for the consumer.
LEMMA ConsExitStep == ASSUME Inv, ConsExit PROVE Inv'
<1>1. /\ Types /\ ConsumerInv /\ OwnOpened /\ DisplayInv /\ FifoInv /\ NameInv /\ Rendezvous /\ Linked
  BY Parts
<1>2. Pipes \subseteq 1..2
  BY <1>1, PipesAre DEF Types
<1>3. /\ kind' = kind /\ disp' = disp /\ mishaps' = mishaps /\ Pipes' = Pipes /\ cons.pc = "exit"
      /\ UNCHANGED <<kind, queues, menu, received, disp>>
  BY PipesStay DEF ConsExit
<1>4. Types' /\ Gone /\ \A p \in 1..2 : fname'[p] = IF p \in Pipes THEN 0 ELSE fname[p]
  BY <1>1, ConsExitIs
<1>5. cons'.pc = "off"
  BY <1>1, <1>4, GoneIs DEF NoConsumer
<1>6. NameInv'
  BY <1>2, <1>3, <1>4, <1>5 DEF NameInv, NotMade
<1>7. mishaps \cap {"crossed", "broken"} = {} => \A p \in Pipes : disp[p].pc # "wait"
  <2> SUFFICES ASSUME mishaps \cap {"crossed", "broken"} = {}, NEW p \in Pipes, disp[p].pc = "wait" PROVE FALSE
    OBVIOUS
  <2>1. HasOpened(p)
    BY <1>3 DEF HasOpened, Connected
  <2>2. fname[p] = disp[p].fd /\ disp[p].fd # 0 /\ ~fifos[disp[p].fd].w
    BY <1>1, <1>2 DEF Rendezvous, DisplayInv
  <2> QED
    BY <1>1, <1>2, <2>1, <2>2 DEF OwnOpened
<1>8. Rendezvous'
  BY <1>3, <1>5, <1>7 DEF Rendezvous
<1> QED
  BY <1>3, <1>4, <1>6, <1>8, GoneStep

\* SIGPIPE ends the consumer and leaves its names behind.
LEMMA WriteBrokenStep == ASSUME Inv, Write, ~fifos[cons.fd[cons.i]].r PROVE Inv'
<1>1. /\ Types /\ ConsumerInv /\ FifoInv /\ Linked
  BY Parts
<1>2. cons.pc = "write" => cons.fd[cons.i] # 0
  BY <1>1 DEF ConsumerInv, HasOpened, Connected, Linked
<1>3. Types' /\ Gone /\ mishaps' = mishaps \cup {"broken"}
  BY <1>1, <1>2, WriteIs
<1>4. UNCHANGED <<kind, queues, menu, received, disp>> /\ cons.pc = "write" /\ fname' = fname
  BY DEF Write
<1>5. NameInv' /\ Rendezvous'
  BY <1>3 DEF NameInv, Rendezvous
<1> QED
  BY <1>3, <1>4, <1>5, GoneStep

\* Its name is gone only after a display has unlinked one that was not its own, or a SIGPIPE.
LEMMA OpenPipeGoneStep == ASSUME Inv, OpenPipe, fname[cons.i] = 0 PROVE Inv'
<1>1. /\ Types /\ ConsumerInv /\ FifoInv /\ NameInv
  BY Parts
<1>2. Types' /\ Gone
  BY <1>1, OpenPipeIs
<1>3. UNCHANGED <<kind, queues, menu, received, disp>> /\ cons.pc = "open" /\ fname' = fname /\ mishaps' = mishaps
  BY DEF OpenPipe
<1>4. mishaps \cap {"crossed", "broken"} # {}
  BY <1>1, <1>3 DEF NameInv
<1>5. NameInv' /\ Rendezvous'
  BY <1>3, <1>4 DEF NameInv, Rendezvous
<1> QED
  BY <1>2, <1>3, <1>4, <1>5, GoneStep

\* The consumer has received a quit line and lets go of the queue.
LEMMA UnlinkQueueStep == ASSUME Inv, UnlinkQueue PROVE Inv'
<1>1. /\ Types /\ Bounds /\ ConsumerInv /\ OwnOpened /\ OwnMade /\ OwnWait /\ OwnLater /\ Separate
      /\ DisplayInv /\ FifoInv /\ QueueOrder /\ ReceiveOrder /\ FifoOrder /\ ShownOrder /\ WrittenOrder
      /\ QuitInv /\ NameInv /\ Rendezvous /\ ContentInv
  BY Parts
<1>2. /\ kind' = kind /\ queues' = queues /\ menu' = menu /\ received' = received /\ fifos' = fifos
      /\ fname' = fname /\ disp' = disp /\ mishaps' = mishaps /\ Run' = Run /\ Pipes' = Pipes
  BY PipesStay DEF UnlinkQueue, Run
<1>3. /\ Types' /\ cons.pc = "unlink" /\ cons'.pc = "exit"
      /\ cons'.q = cons.q /\ cons'.i = cons.i /\ cons'.fd = cons.fd
  <2>1. cons \in [pc : ConsStates, q : 0..Len(queues), i : 1..2, fd : [1..2 -> Fds]]
    BY <1>1 DEF Types
  <2> QED
    BY <1>1, <2>1, UnlinkQueueIs DEF UnlinkQueue
<1>4. \A p : (HasOpened(p)' <=> HasOpened(p)) /\ (HasPassed(p)' <=> HasPassed(p)) /\ ~NotMade(p)'
  BY <1>2, <1>3 DEF HasOpened, HasPassed, NotMade, Connected
<1>5. Bounds'
  BY <1>1, <1>2 DEF Bounds
<1>6. ConsumerInv'
  BY <1>1, <1>2, <1>3, <1>4 DEF ConsumerInv
<1>7. OwnOpened'
  BY <1>1, <1>2, <1>3, <1>4 DEF OwnOpened
<1>8. OwnMade' /\ OwnWait' /\ OwnLater'
  BY <1>3, <1>4 DEF OwnMade, OwnWait, OwnLater
<1>9. Separate'
  BY <1>1, <1>2, <1>3 DEF Separate, Refs
<1>10. DisplayInv'
  BY <1>1, <1>2, <1>3, <1>4 DEF DisplayInv, Quits
<1>11. FifoInv'
  BY <1>1, <1>2, <1>3 DEF FifoInv
<1>12. QueueOrder' /\ ReceiveOrder' /\ FifoOrder' /\ ShownOrder'
  BY <1>1, <1>2, <1>3 DEF QueueOrder, ReceiveOrder, FifoOrder, ShownOrder
<1>13. WrittenOrder'
  BY <1>1, <1>2, <1>3, <1>4 DEF WrittenOrder, Written
<1>14. QuitInv'
  BY <1>1, <1>2, <1>3 DEF QuitInv, Quits
<1>15. NameInv' /\ Rendezvous'
  BY <1>1, <1>2, <1>3, <1>4 DEF NameInv, Rendezvous
<1>16. ContentInv'
  <2>1. \A p : Content(p) => Content(p)'
    BY <1>2, <1>3 DEF Content
  <2> QED
    BY <1>1, <1>2, <2>1 DEF ContentInv
<1> QED
  BY <1>3, <1>5, <1>6, <1>7, <1>8, <1>9, <1>10, <1>11, <1>12, <1>13, <1>14, <1>15, <1>16, Whole

\* A display opens its pipe: it waits, or meets the consumer that waits.
LEMMA DispOpenStep == ASSUME Inv, NEW p \in Pipes, DispOpen(p) PROVE Inv'
<1> DEFINE i == cons.i
           f == fname[p]
           met == cons.pc = "wait" /\ cons.fd[i] = f
<1>1. /\ Types /\ Bounds /\ ConsumerInv /\ OwnOpened /\ OwnMade /\ OwnWait /\ OwnLater /\ Separate
      /\ DisplayInv /\ FifoInv /\ QueueOrder /\ ReceiveOrder /\ FifoOrder /\ ShownOrder /\ WrittenOrder
      /\ QuitInv /\ NameInv /\ Rendezvous /\ ContentInv /\ Linked
  BY Parts
<1>2. /\ kind' = kind /\ queues' = queues /\ menu' = menu /\ received' = received
      /\ fname' = fname /\ Run' = Run /\ Pipes' = Pipes
  BY PipesStay DEF DispOpen, Run
<1>3. /\ Pipes \subseteq 1..2 /\ i \in 1..2 /\ p \in 1..2 /\ f # 0 /\ f \in DOMAIN fifos
      /\ disp[p].pc = "off" /\ disp[p] = NoDisplay
  BY <1>1, PipesAre DEF Types, DispOpen, Linked, DisplayInv
<1>4. /\ Types' /\ mishaps \subseteq mishaps' /\ (fifos[f].used => mishaps' # {})
      /\ mishaps' \cap {"crossed", "broken"} = mishaps \cap {"crossed", "broken"}
      /\ \A o \in 1..2 : o # p => disp'[o] = disp[o]
  BY <1>1, DispOpenIs
<1>5. /\ disp'[p].pc = (IF fifos[f].w THEN "read" ELSE "wait") /\ disp'[p].fd = f
      /\ disp'[p].shown = << >> /\ ~disp'[p].again
  <2>1. disp[p] \in [pc : DispStates, fd : Fds, shown : Seq(Lines), again : BOOLEAN]
    BY <1>1, <1>3 DEF Types
  <2>2. disp'[p] = [disp[p] EXCEPT !.pc = IF fifos[f].w THEN "read" ELSE "wait", !.fd = f]
    BY <1>1, DispOpenIs
  <2> QED
    BY <1>3, <2>1, <2>2, NothingShown
<1>6. /\ DOMAIN fifos' = DOMAIN fifos /\ fifos'[f].r /\ fifos'[f].used
      /\ \A g \in DOMAIN fifos :
           /\ fifos'[g].run = fifos[g].run /\ fifos'[g].lines = fifos[g].lines
           /\ (fifos'[g].w <=> fifos[g].w)
           /\ (g # f => (fifos'[g].r <=> fifos[g].r) /\ (fifos'[g].used <=> fifos[g].used))
  <2>1. Shape /\ Shape'
    BY <1>1, <1>4, Values, PTL
  <2>2. Len(fifos') = Len(fifos) /\ fifos'[f] = [fifos[f] EXCEPT !.r = TRUE, !.used = TRUE]
        /\ \A g \in 1..Len(fifos) : g # f => fifos'[g] = fifos[g]
    BY <1>1, DispOpenIs
  <2>3. DOMAIN fifos' = DOMAIN fifos /\ DOMAIN fifos = 1..Len(fifos) /\ \A g \in DOMAIN fifos : fifos[g] \in Fifos
    BY <2>1, <2>2 DEF Shape
  <2>4. \A g \in DOMAIN fifos : g # f => fifos'[g] = fifos[g]
    BY <2>2, <2>3
  <2>5. /\ fifos'[f].r /\ fifos'[f].used /\ fifos'[f].run = fifos[f].run /\ fifos'[f].lines = fifos[f].lines
        /\ fifos'[f].w = fifos[f].w
    BY <1>3, <2>2, <2>3 DEF Fifos
  <2> QED
    BY <2>3, <2>4, <2>5
<1>7. met => i = p /\ i \in Pipes /\ received[Run] = << >> /\ HasOpened(i) /\ fifos[f].w
  <2> SUFFICES ASSUME met PROVE i = p /\ i \in Pipes /\ received[Run] = << >> /\ HasOpened(i) /\ fifos[f].w
    OBVIOUS
  <2>1. i = p
    BY <1>1, <1>3, Apart DEF Refs
  <2>2. i \in Pipes /\ received[Run] = << >> /\ HasOpened(i)
    BY <1>1 DEF ConsumerInv, HasOpened
  <2> QED
    BY <1>1, <1>3, <2>1, <2>2 DEF OwnOpened
<1>8. /\ cons'.q = cons.q /\ cons'.fd = cons.fd
      /\ \/ ~met /\ cons' = cons
         \/ met /\ i + 1 \in Pipes /\ cons'.i = i + 1 /\ cons'.pc = "make"
         \/ met /\ i + 1 \notin Pipes /\ cons'.i = 1 /\ cons'.pc = "receive"
  BY <1>1, DispOpenIs
<1> HIDE DEF met
<1>9. /\ \A o \in 1..2 : /\ (HasOpened(o)' <=> HasOpened(o))
                         /\ (HasPassed(o)' <=> HasPassed(o) \/ (o = p /\ met))
                         /\ (NotMade(o)' => NotMade(o))
                         /\ Written(o)' = Written(o)
      /\ cons'.pc \in {"open", "wait", "write", "off"} => cons' = cons /\ ~met
  <2>1. CASE ~met
    BY <1>2, <1>8, <2>1 DEF HasOpened, HasPassed, NotMade, Connected, Written
  <2>2. CASE met
    <3>1. i = p /\ i \in Pipes /\ cons.pc = "wait"
      BY <1>7, <2>2 DEF met
    <3>2. \A o \in 1..2 : /\ (HasOpened(o) <=> o \in Pipes /\ (o < i \/ o = i))
                          /\ (HasPassed(o) <=> o \in Pipes /\ o < i)
                          /\ (NotMade(o) <=> o > i)
      BY <1>3, <3>1 DEF HasOpened, HasPassed, NotMade, Connected
    <3>3. \A o \in 1..2 : Written(o)' = Written(o)
      BY <1>2, <1>8, <2>2, <3>1 DEF Written
    <3>4. CASE i + 1 \in Pipes /\ cons'.i = i + 1 /\ cons'.pc = "make"
      BY <1>2, <1>3, <2>2, <3>1, <3>2, <3>3, <3>4 DEF HasOpened, HasPassed, NotMade, Connected
    <3>5. CASE i + 1 \notin Pipes /\ cons'.i = 1 /\ cons'.pc = "receive"
      BY <1>2, <1>3, <2>2, <3>1, <3>2, <3>3, <3>5 DEF HasOpened, HasPassed, NotMade, Connected
    <3> QED
      BY <1>8, <2>2, <3>4, <3>5
  <2> QED
    BY <2>1, <2>2
<1>10. Bounds'
  BY <1>1, <1>2, <1>6 DEF Bounds
<1>11. ConsumerInv'
  <2>1. \A o \in 1..2 : cons'.fd[o] # 0 <=> HasOpened(o)'
    BY <1>1, <1>8, <1>9 DEF ConsumerInv
  <2>2. CASE ~met
    BY <1>1, <1>2, <1>8, <2>1, <2>2 DEF ConsumerInv
  <2>3. CASE met
    <3>1. cons.pc # "off"
      BY <2>3 DEF met
    <3> QED
      BY <1>1, <1>2, <1>7, <1>8, <2>1, <2>3, <3>1 DEF ConsumerInv
  <2> QED
    BY <2>2, <2>3
<1>12. OwnOpened'
  <2> SUFFICES ASSUME NEW o \in 1..2, HasOpened(o) PROVE OwnOpened!(o)!2'
    BY <1>9 DEF OwnOpened
  <2>1. /\ fifos[cons.fd[o]].run = Run /\ fifos[cons.fd[o]].w /\ fname[o] \in {0, cons.fd[o]}
        /\ cons.fd[o] \in DOMAIN fifos
        /\ (disp[o].pc # "off" /\ fifos[disp[o].fd].run = Run => disp[o].fd = cons.fd[o])
        /\ (HasPassed(o) => fifos[cons.fd[o]].used)
    BY <1>1 DEF OwnOpened, Linked
  <2>2. HasPassed(o)' => fifos'[cons.fd[o]].used
    <3>1. CASE HasPassed(o)
      BY <1>6, <2>1, <3>1
    <3>2. CASE o = p /\ met
      <4>1. cons.fd[o] = f
        BY <1>7, <3>2 DEF met
      <4> QED
        BY <1>6, <4>1
    <3> QED
      BY <1>9, <3>1, <3>2
  <2>3. disp'[o].pc # "off" /\ fifos'[disp'[o].fd].run = Run => disp'[o].fd = cons.fd[o]
    <3>1. CASE o = p
      BY <1>3, <1>5, <2>1, <3>1
    <3>2. CASE o # p
      BY <1>1, <1>4, <1>6, <2>1, <3>2 DEF Linked
    <3> QED
      BY <3>1, <3>2
  <2> QED
    BY <1>2, <1>6, <1>8, <2>1, <2>2, <2>3
<1>13. OwnMade'
  <2> SUFFICES ASSUME cons'.pc = "open", fname[cons'.i] # 0
               PROVE  /\ fifos'[fname[i]].run = Run /\ ~fifos'[fname[i]].w /\ fifos'[fname[i]].lines = << >>
                      /\ disp'[i].pc # "off" /\ fifos'[disp'[i].fd].run = Run => disp'[i].fd = fname[i]
    BY <1>2, <1>9 DEF OwnMade
  <2>1. cons' = cons
    BY <1>9
  <2>2. /\ fname[i] \in DOMAIN fifos
        /\ fifos[fname[i]].run = Run /\ ~fifos[fname[i]].w /\ fifos[fname[i]].lines = << >>
        /\ (disp[i].pc # "off" /\ fifos[disp[i].fd].run = Run => disp[i].fd = fname[i])
    BY <1>1, <1>3, <2>1 DEF OwnMade, Linked
  <2>3. CASE i = p
    BY <1>5, <1>6, <2>2, <2>3
  <2>4. CASE i # p
    BY <1>1, <1>3, <1>4, <1>6, <2>2, <2>4 DEF Linked
  <2> QED
    BY <2>3, <2>4
<1>14. OwnWait'
  <2> SUFFICES ASSUME cons'.pc = "wait" PROVE ~fifos'[cons.fd[i]].r
    BY <1>9 DEF OwnWait
  <2>1. cons' = cons /\ cons.fd[i] # f
    BY <1>9 DEF met
  <2>2. ~fifos[cons.fd[i]].r /\ cons.fd[i] \in DOMAIN fifos
    BY <1>1, <1>3, <2>1 DEF OwnWait, Linked, ConsumerInv, HasOpened
  <2> QED
    BY <1>6, <2>1, <2>2
<1>15. OwnLater'
  <2> SUFFICES ASSUME NEW o \in 1..2, NotMade(o)
               PROVE  /\ fname[o] # 0 => fifos'[fname[o]].run < Run
                      /\ disp'[o].pc # "off" => fifos'[disp'[o].fd].run < Run
    BY <1>2, <1>9 DEF OwnLater
  <2>1. CASE o = p
    BY <1>1, <1>3, <1>5, <1>6, <2>1 DEF OwnLater
  <2>2. CASE o # p
    BY <1>1, <1>4, <1>6, <2>2 DEF OwnLater, Linked
  <2> QED
    BY <2>1, <2>2
<1>16. Separate'
  BY <1>1, <1>2, <1>3, <1>4, <1>5, <1>8 DEF Separate, Refs
<1>17. DisplayInv'
  <2> SUFFICES ASSUME NEW o \in 1..2 PROVE DisplayInv!(o)'
    BY DEF DisplayInv
  <2>1. CASE o = p
    <3>1. DOMAIN << >> = {}
      OBVIOUS
    <3>2. fifos[f].w => HasOpened(p) /\ cons.fd[p] = f
      <4> SUFFICES ASSUME fifos[f].w PROVE HasOpened(p) /\ cons.fd[p] = f
        OBVIOUS
      <4>1. PICK q \in 1..2 : cons.fd[q] = f
        BY <1>1, <1>3 DEF FifoInv
      <4>2. q = p
        BY <1>1, <1>3, <4>1, Apart DEF Refs
      <4> QED
        BY <1>1, <1>3, <4>1, <4>2 DEF ConsumerInv
    <3> QED
      BY <1>2, <1>3, <1>5, <1>6, <1>8, <1>9, <2>1, <3>1, <3>2
  <2>2. CASE o # p
    <3>1. disp'[o] = disp[o]
      BY <1>4, <2>2
    <3>2. cons'.pc # "off" => cons.pc # "off"
      BY <1>8 DEF met
    <3> QED
      BY <1>1, <1>2, <1>6, <1>8, <1>9, <3>1, <3>2 DEF DisplayInv, Linked, Quits
  <2> QED
    BY <2>1, <2>2
<1>18. FifoInv'
  <2>1. ~(\E o \in 1..2 : o = p /\ disp[o].fd # 0)
    BY <1>3, NothingShown
  <2> QED
    BY <1>1, <1>3, <1>4, <1>5, <1>6, <1>8, <2>1 DEF FifoInv, Linked
<1>19. QueueOrder' /\ ReceiveOrder'
  <2>1. cons'.pc # "off" => cons.pc # "off"
    BY <1>8 DEF met
  <2> QED
    BY <1>1, <1>2, <1>8, <2>1 DEF QueueOrder, ReceiveOrder
<1>20. DOMAIN << >> = {} /\ Len(<< >>) = 0
  OBVIOUS
<1>21. FifoOrder'
  BY <1>1, <1>6 DEF FifoOrder
<1>22. ShownOrder'
  <2>1. \A o \in 1..2 : o # p => (disp[o].pc # "off" => disp[o].fd \in DOMAIN fifos)
    BY <1>1 DEF Linked
  <2>2. Increasing(disp'[p].shown) /\ Before(disp'[p].shown, fifos'[f].lines)
    BY <1>5, <1>20 DEF Increasing, Before
  <2> QED
    BY <1>1, <1>3, <1>4, <1>5, <1>6, <2>1, <2>2 DEF ShownOrder
<1>23. WrittenOrder'
  <2> SUFFICES ASSUME NEW o \in 1..2, HasOpened(o) PROVE WrittenOrder!(o)!2'
    BY <1>9 DEF WrittenOrder
  <2>1. cons.fd[o] \in DOMAIN fifos /\ Among(fifos[cons.fd[o]].lines, received[Run], Written(o))
        /\ (disp[o].fd = cons.fd[o] => Among(disp[o].shown, received[Run], Written(o)))
    BY <1>1 DEF Linked, WrittenOrder
  <2>2. disp'[o].fd = cons.fd[o] => Among(disp'[o].shown, received[Run], Written(o))
    <3>1. CASE o = p
      BY <1>5, <1>20, <3>1 DEF Among
    <3>2. CASE o # p
      BY <1>4, <2>1, <3>2
    <3> QED
      BY <3>1, <3>2
  <2> QED
    BY <1>2, <1>6, <1>8, <1>9, <2>1, <2>2
<1>24. QuitInv'
  <2>1. met => DOMAIN received[Run] = {} /\ cons.pc = "wait"
    BY <1>7, <1>20 DEF met
  <2>2. \A r \in DOMAIN received : \A k \in 1..Len(received[r]) - 1 : ~Quits(received[r][k])
    BY <1>1 DEF QuitInv
  <2>3. cons'.pc = "receive" => \A k \in DOMAIN received[Run] : ~Quits(received[Run][k])
    BY <1>1, <1>8, <2>1 DEF QuitInv
  <2>4. cons'.pc \in {"off", "unlink", "exit"} <=> cons.pc \in {"off", "unlink", "exit"}
    BY <1>8, <2>1
  <2>5. mishaps' = {} => \A r \in DOMAIN received :
          r < Run \/ cons'.pc \in {"off", "unlink", "exit"} =>
            received[r] # << >> /\ Quits(received[r][Len(received[r])])
    BY <1>1, <1>4, <2>4 DEF QuitInv
  <2> QED
    BY <1>2, <2>2, <2>3, <2>5 DEF QuitInv, Quits
<1>25. NameInv'
  <2>1. cons'.pc = "off" => cons.pc = "off"
    BY <1>8 DEF met
  <2> QED
    BY <1>1, <1>2, <1>3, <1>4, <1>8, <1>9, <2>1 DEF NameInv
<1>26. Rendezvous'
  BY <1>1, <1>2, <1>3, <1>4, <1>5, <1>8, <1>9 DEF Rendezvous
<1>27. ContentInv'
  <2> SUFFICES ASSUME mishaps' = {}, NEW o \in 1..2, disp'[o].pc # "off" PROVE Content(o)'
    BY DEF ContentInv
  <2>1. mishaps = {} /\ ~fifos[f].used
    BY <1>4
  <2>2. cons'.pc = "write" <=> cons.pc = "write"
    BY <1>8 DEF met
  <2>3. cons'.pc = "write" => cons' = cons
    BY <1>9
  <2>4. CASE o = p
    <3>1. fifos[f].lines = << >>
      BY <1>1, <1>3, <2>1 DEF FifoInv
    <3>2. fifos[f].run = Run /\ received[Run] = << >> /\ cons.pc # "write"
      <4>1. cons.pc # "off" /\ ~NotMade(p)
        BY <1>1, <1>3, <2>1 DEF NameInv
      <4>2. HasOpened(p) => cons.fd[p] = f
        BY <1>1, <1>3 DEF OwnOpened
      <4>3. ~HasPassed(p)
        BY <1>1, <1>3, <2>1, <4>2 DEF OwnOpened, HasPassed, HasOpened
      <4>4. cons.pc \in ConsStates
        BY <1>1 DEF Types
      <4>5. i = p /\ cons.pc \in {"open", "wait"}
        BY <1>3, <4>1, <4>3, <4>4 DEF NotMade, HasPassed, Connected, ConsStates
      <4>6. received[Run] = << >>
        BY <1>1, <4>5 DEF ConsumerInv
      <4>7. CASE cons.pc = "open"
        BY <1>1, <1>3, <4>5, <4>6, <4>7 DEF OwnMade
      <4>8. CASE cons.pc = "wait"
        <5>1. HasOpened(p)
          BY <4>5, <4>8, <1>3 DEF HasOpened
        <5> QED
          BY <1>1, <1>3, <4>2, <4>6, <4>8, <5>1 DEF OwnOpened
      <4> QED
        BY <4>5, <4>7, <4>8
    <3>3. /\ disp'[p].fd = f /\ disp'[p].shown = << >> /\ ~disp'[p].again
          /\ fifos'[f].lines = << >> /\ received'[fifos'[f].run] = << >>
      BY <1>2, <1>3, <1>5, <1>6, <3>1, <3>2
    <3> QED
      BY <1>20, <2>2, <2>4, <3>2, <3>3 DEF Content
  <2>5. CASE o # p
    <3>1. disp'[o] = disp[o] /\ disp[o].fd \in DOMAIN fifos
      BY <1>1, <1>4, <2>5 DEF Linked
    <3>2. fifos'[disp[o].fd].run = fifos[disp[o].fd].run /\ fifos'[disp[o].fd].lines = fifos[disp[o].fd].lines
      BY <1>6, <3>1
    <3>3. Content(o)
      BY <1>1, <2>1, <3>1 DEF ContentInv
    <3>4. CASE cons.pc = "write"
      BY <1>2, <2>2, <2>3, <3>1, <3>2, <3>3, <3>4 DEF Content
    <3>5. CASE cons.pc # "write"
      BY <1>2, <2>2, <3>1, <3>2, <3>3, <3>5 DEF Content
    <3> QED
      BY <3>4, <3>5
  <2> QED
    BY <2>4, <2>5
<1> QED
  BY <1>4, <1>10, <1>11, <1>12, <1>13, <1>14, <1>15, <1>16, <1>17, <1>18, <1>19, <1>21, <1>22, <1>23,
     <1>24, <1>25, <1>26, <1>27, Whole

\* A display shows the first line of what it has read.
LEMMA ReadStep == ASSUME Inv, NEW p \in Pipes, Read(p) PROVE Inv'
<1> DEFINE f == disp[p].fd
           s == fifos[f].lines
           l == s[1]
           shown == disp[p].shown
           m == Len(shown)
<1>1. /\ Types /\ Bounds /\ ConsumerInv /\ OwnOpened /\ OwnMade /\ OwnWait /\ OwnLater /\ Separate
      /\ DisplayInv /\ FifoInv /\ QueueOrder /\ ReceiveOrder /\ FifoOrder /\ ShownOrder /\ WrittenOrder
      /\ QuitInv /\ NameInv /\ Rendezvous /\ ContentInv /\ Linked
  BY Parts
<1>2. /\ kind' = kind /\ queues' = queues /\ menu' = menu /\ cons' = cons /\ received' = received
      /\ fname' = fname /\ Run' = Run /\ Pipes' = Pipes /\ \A x : Quits(x)' = Quits(x)
  <2>1. /\ kind' = kind /\ queues' = queues /\ menu' = menu /\ cons' = cons /\ received' = received
        /\ fname' = fname
    BY DEF Read
  <2> QED
    BY <2>1, PipesStay DEF Run, Quits
<1>3. /\ Pipes \subseteq 1..2 /\ p \in 1..2 /\ disp[p].pc = "read" /\ f # 0 /\ f \in DOMAIN fifos /\ fifos[f].r
  BY <1>1, PipesAre DEF Types, Read, Linked
<1>4. /\ Types' /\ 1 \in 1..Len(s) /\ l \in Lines
      /\ disp'[p] = [disp[p] EXCEPT !.shown = Append(shown, l),
                                    !.pc = IF Quits(l) THEN "end" ELSE disp[p].pc]
      /\ \A o \in 1..2 : o # p => disp'[o] = disp[o]
      /\ Len(fifos') = Len(fifos) /\ mishaps \subseteq mishaps'
      /\ mishaps' \cap {"crossed", "broken"} = mishaps \cap {"crossed", "broken"}
      /\ \A g \in 1..Len(fifos) : g # f => fifos'[g] = fifos[g]
  BY <1>1, <1>3, ReadIs
<1>5. PICK n \in 1..Len(s), left \in Seq(Lines) :
        /\ fifos'[f] = [fifos[f] EXCEPT !.lines = left]
        /\ Len(left) = Len(s) - n /\ DOMAIN left = 1..Len(s) - n
        /\ \A k \in 1..Len(left) : left[k].nr = s[k + n].nr
        /\ mishaps' = {} => n = 1 /\ \A k \in 1..Len(left) : left[k] = s[k + 1]
  BY <1>1, <1>3, ReadIs
<1>6. /\ disp'[p].fd = f /\ disp'[p].shown = Append(shown, l) /\ (disp'[p].again <=> disp[p].again)
      /\ disp'[p].pc = (IF Quits(l) THEN "end" ELSE "read")
  <2>1. disp[p] \in [pc : DispStates, fd : Fds, shown : Seq(Lines), again : BOOLEAN]
    BY <1>1, <1>3 DEF Types
  <2> DEFINE seen == Append(shown, l)
             state == IF Quits(l) THEN "end" ELSE "read"
  <2>2. disp'[p] = [disp[p] EXCEPT !.shown = seen, !.pc = state]
    BY <1>3, <1>4
  <2> HIDE DEF seen, state
  <2>3. disp'[p].fd = f /\ disp'[p].shown = seen /\ (disp'[p].again <=> disp[p].again) /\ disp'[p].pc = state
    BY <2>1, <2>2
  <2> QED
    BY <2>3 DEF seen, state
<1>7. /\ s \in Seq(Lines) /\ Len(s) \in Nat /\ DOMAIN s = 1..Len(s)
      /\ shown \in Seq(Lines) /\ m \in Nat /\ DOMAIN shown = 1..m
  BY <1>1, <1>3, Values DEF Shape
<1>8. /\ DOMAIN fifos' = DOMAIN fifos
      /\ \A g \in DOMAIN fifos :
           /\ fifos'[g].run = fifos[g].run /\ (fifos'[g].w <=> fifos[g].w)
           /\ (fifos'[g].r <=> fifos[g].r) /\ (fifos'[g].used <=> fifos[g].used)
           /\ (g # f => fifos'[g].lines = fifos[g].lines)
      /\ fifos'[f].lines = left
  <2>1. Shape /\ Shape'
    BY <1>1, <1>4, Values, PTL
  <2>2. DOMAIN fifos' = DOMAIN fifos /\ DOMAIN fifos = 1..Len(fifos) /\ \A g \in DOMAIN fifos : fifos[g] \in Fifos
    BY <1>4, <2>1 DEF Shape
  <2>3. \A g \in DOMAIN fifos : g # f => fifos'[g] = fifos[g]
    BY <1>4, <2>2
  <2>4. /\ (fifos'[f].w <=> fifos[f].w) /\ fifos'[f].run = fifos[f].run /\ fifos'[f].lines = left
        /\ (fifos'[f].r <=> fifos[f].r) /\ (fifos'[f].used <=> fifos[f].used)
    BY <1>3, <1>5, <2>2 DEF Fifos
  <2> QED
    BY <2>2, <2>3, <2>4
<1>9. \A o \in 1..2 : /\ disp'[o].fd = disp[o].fd /\ (disp'[o].pc = "off" <=> disp[o].pc = "off")
                      /\ disp'[o].pc = "wait" => o # p /\ disp[o].pc = "wait"
  BY <1>3, <1>4, <1>6
<1> HIDE DEF s, shown, l, m
<1>10. /\ Len(disp'[p].shown) = m + 1 /\ DOMAIN disp'[p].shown = 1..m + 1 /\ disp'[p].shown # << >>
       /\ \A k \in 1..m : disp'[p].shown[k] = shown[k]
       /\ disp'[p].shown[m + 1] = l
  <2>1. /\ Append(shown, l) # << >>
        /\ Len(Append(shown, l)) = Len(shown) + 1 /\ DOMAIN Append(shown, l) = 1..Len(shown) + 1
        /\ \A k \in 1..Len(shown) : Append(shown, l)[k] = shown[k]
        /\ Append(shown, l)[Len(shown) + 1] = l
    BY <1>4, <1>7, AppendIs
  <2> QED
    BY <1>6, <2>1 DEF m
<1>11. \A o : HasOpened(o)' = HasOpened(o) /\ HasPassed(o)' = HasPassed(o) /\ NotMade(o)' = NotMade(o)
              /\ Written(o)' = Written(o)
  BY <1>2 DEF HasOpened, HasPassed, NotMade, Connected, Written
<1>12. \A o \in 1..2 : o # p => disp[o].fd # f /\ cons.fd[o] # f
  BY <1>1, <1>3, Apart DEF Refs
<1>13. /\ 1 \in DOMAIN s /\ l = s[1] /\ \A k \in DOMAIN left : k + n \in DOMAIN s /\ left[k].nr = s[k + n].nr /\ 1 < k + n
  <2>1. n \in Nat /\ n >= 1 /\ n <= Len(s)
    BY <1>5, <1>7
  <2>2. \A k \in DOMAIN left : k + n \in 1..Len(s) /\ 1 < k + n /\ k \in 1..Len(left)
    BY <1>5, <1>7, <2>1
  <2> QED
    BY <1>4, <1>5, <1>7, <2>2 DEF l
<1>14. /\ \A k \in 1..m + 1 : k \in 1..m \/ k = m + 1
       /\ Increasing(s) /\ Increasing(shown) /\ Before(shown, s)
  BY <1>1, <1>3, <1>7 DEF FifoOrder, ShownOrder, s, shown
<1>15. Bounds' /\ ConsumerInv'
  BY <1>1, <1>2, <1>8, <1>11 DEF Bounds, ConsumerInv
<1>16. OwnOpened'
  <2> SUFFICES ASSUME NEW o \in 1..2, HasOpened(o) PROVE OwnOpened!(o)!2'
    BY <1>11 DEF OwnOpened
  <2>1. cons.fd[o] \in DOMAIN fifos /\ (disp[o].pc # "off" => disp[o].fd \in DOMAIN fifos)
    BY <1>1 DEF Linked
  <2> QED
    BY <1>1, <1>2, <1>8, <1>9, <1>11, <2>1 DEF OwnOpened
<1>17. OwnMade'
  <2> SUFFICES ASSUME cons.pc = "open", fname[cons.i] # 0 PROVE OwnMade!2'
    BY <1>2 DEF OwnMade
  <2>1. fname[cons.i] # f
    <3>1. fifos[fname[cons.i]].lines = << >> /\ Len(<< >>) = 0
      BY <1>1 DEF OwnMade
    <3> QED
      BY <1>4, <1>7, <3>1 DEF s
  <2>2. cons.i \in 1..2 /\ fname[cons.i] \in DOMAIN fifos
        /\ (disp[cons.i].pc # "off" => disp[cons.i].fd \in DOMAIN fifos)
    BY <1>1 DEF Linked
  <2> QED
    BY <1>1, <1>2, <1>8, <1>9, <2>1, <2>2 DEF OwnMade
<1>18. OwnWait'
  <2>1. cons.pc = "wait" => cons.fd[cons.i] \in DOMAIN fifos
    BY <1>1 DEF Linked, ConsumerInv, HasOpened
  <2> QED
    BY <1>1, <1>2, <1>8, <2>1 DEF OwnWait
<1>19. OwnLater'
  BY <1>1, <1>2, <1>8, <1>9, <1>11 DEF OwnLater, Linked
<1>20. Separate'
  BY <1>1, <1>2, <1>9 DEF Separate, Refs
<1>21. DisplayInv'
  <2> SUFFICES ASSUME NEW o \in 1..2 PROVE DisplayInv!(o)'
    BY DEF DisplayInv
  <2>1. CASE o = p
    <3>1. \A k \in DOMAIN shown : ~Quits(shown[k])
      BY <1>1, <1>3 DEF DisplayInv, shown
    <3>2. disp'[p].pc = "read" => \A k \in DOMAIN disp'[p].shown : ~Quits(disp'[p].shown[k])
      BY <1>6, <1>7, <1>10, <1>14, <3>1
    <3>3. disp'[p].pc = "end" => disp'[p].shown # << >> /\ Quits(disp'[p].shown[Len(disp'[p].shown)])
      BY <1>6, <1>10
    <3>4. disp'[p].pc \in {"read", "end"}
      BY <1>6
    <3>5. fifos[f].run = Run /\ cons.pc # "off" => HasOpened(p) /\ cons.fd[p] = f
      BY <1>1, <1>3 DEF DisplayInv
    <3>6. disp'[p].fd = f /\ fifos'[f].r /\ fifos'[f].run = fifos[f].run
      BY <1>3, <1>6, <1>8
    <3> HIDE DEF f
    <3> QED
      BY <1>2, <1>3, <1>11, <2>1, <3>2, <3>3, <3>4, <3>5, <3>6
  <2>2. CASE o # p
    <3>1. disp'[o] = disp[o] /\ (disp[o].pc # "off" => disp[o].fd \in DOMAIN fifos)
      BY <1>1, <1>4, <2>2 DEF Linked
    <3> QED
      BY <1>1, <1>2, <1>8, <1>11, <3>1 DEF DisplayInv
  <2> QED
    BY <2>1, <2>2
<1>22. FifoInv'
  BY <1>1, <1>2, <1>3, <1>8, <1>9 DEF FifoInv
<1>23. QueueOrder' /\ ReceiveOrder'
  BY <1>1, <1>2 DEF QueueOrder, ReceiveOrder
<1>24. Increasing(left)
  <2>1. \A j, k \in DOMAIN left : j < k => j + n < k + n
    BY <1>5, <1>7
  <2> QED
    BY <1>13, <1>14, <2>1 DEF Increasing
<1>25. FifoOrder'
  BY <1>1, <1>8, <1>24 DEF FifoOrder
<1>26. ShownOrder'
  <2> SUFFICES ASSUME NEW o \in 1..2, disp[o].pc # "off"
               PROVE  Increasing(disp'[o].shown) /\ Before(disp'[o].shown, fifos'[disp[o].fd].lines)
    BY <1>9 DEF ShownOrder
  <2>1. CASE o # p
    BY <1>1, <1>4, <1>8, <1>12, <2>1 DEF ShownOrder, Linked
  <2>2. CASE o = p
    <3>1. \A j \in 1..m : shown[j].nr < l.nr
      BY <1>7, <1>13, <1>14 DEF Before
    <3>2. \A k \in DOMAIN left : l.nr < left[k].nr /\ \A j \in 1..m : shown[j].nr < left[k].nr
      BY <1>7, <1>13, <1>14 DEF Before, Increasing
    <3>3. Increasing(disp'[p].shown)
      <4>1. \A j, k \in 1..m + 1 : j < k => j \in 1..m
        BY <1>7
      <4>2. \A j, k \in 1..m : j < k => shown[j].nr < shown[k].nr
        BY <1>7, <1>14 DEF Increasing
      <4> SUFFICES ASSUME NEW j \in 1..m + 1, NEW k \in 1..m + 1, j < k
                   PROVE  disp'[p].shown[j].nr < disp'[p].shown[k].nr
        BY <1>10 DEF Increasing
      <4>3. j \in 1..m /\ disp'[p].shown[j] = shown[j]
        BY <1>10, <4>1
      <4>4. CASE k \in 1..m
        BY <1>10, <4>2, <4>3, <4>4
      <4>5. CASE k = m + 1
        BY <1>10, <3>1, <4>3, <4>5
      <4> QED
        BY <1>14, <4>4, <4>5
    <3>4. Before(disp'[p].shown, left)
      BY <1>10, <1>14, <3>2 DEF Before
    <3> QED
      BY <1>8, <2>2, <3>3, <3>4
  <2> QED
    BY <2>1, <2>2
<1>27. WrittenOrder'
  <2> SUFFICES ASSUME NEW o \in 1..2, HasOpened(o)
               PROVE  /\ Among(fifos'[cons.fd[o]].lines, received[Run], Written(o))
                      /\ disp[o].fd = cons.fd[o] => Among(disp'[o].shown, received[Run], Written(o))
    BY <1>2, <1>9, <1>11 DEF WrittenOrder
  <2>1. /\ Among(fifos[cons.fd[o]].lines, received[Run], Written(o))
        /\ disp[o].fd = cons.fd[o] => Among(disp[o].shown, received[Run], Written(o))
        /\ cons.fd[o] \in DOMAIN fifos
    BY <1>1 DEF WrittenOrder, Linked
  <2>2. CASE cons.fd[o] # f
    BY <1>4, <1>8, <2>1, <2>2
  <2>3. CASE cons.fd[o] = f
    <3>1. o = p
      BY <1>12, <2>3
    <3>2. Among(s, received[Run], Written(o)) /\ Among(shown, received[Run], Written(o))
      BY <2>1, <2>3, <3>1 DEF s, shown
    <3>3. Among(left, received[Run], Written(o))
      BY <1>13, <3>2 DEF Among
    <3>4. Among(disp'[p].shown, received[Run], Written(o))
      <4> DEFINE t == received[Run]
                 w == Written(o)
      <4>1. \A j \in 1..m : \E k \in 1..w : shown[j].nr = t[k].nr
        BY <1>7, <3>2 DEF Among
      <4>2. \E k \in 1..w : l.nr = t[k].nr
        BY <1>13, <3>2 DEF Among
      <4> HIDE DEF t, w
      <4>3. \A j \in 1..m + 1 : \E k \in 1..w : disp'[p].shown[j].nr = t[k].nr
        BY <1>10, <1>14, <4>1, <4>2
      <4> QED
        BY <1>10, <4>3 DEF Among, t, w
    <3> QED
      BY <1>8, <2>3, <3>1, <3>3, <3>4
  <2> QED
    BY <2>2, <2>3
<1>28. QuitInv'
  <2>1. mishaps' = {} => mishaps = {}
    BY <1>4
  <2> QED
    BY <1>1, <1>2, <2>1 DEF QuitInv
<1>29. NameInv' /\ Rendezvous'
  BY <1>1, <1>2, <1>3, <1>4, <1>9, <1>11 DEF NameInv, Rendezvous
<1>30. ContentInv'
  <2> SUFFICES ASSUME mishaps' = {}, NEW o \in 1..2, disp[o].pc # "off" PROVE Content(o)'
    BY <1>9 DEF ContentInv
  <2>1. Content(o)
    BY <1>1, <1>4 DEF ContentInv
  <2>2. CASE o # p
    <3>1. disp'[o] = disp[o] /\ disp[o].fd \in DOMAIN fifos /\ disp[o].fd # f
      BY <1>1, <1>4, <1>12, <2>2 DEF Linked
    <3>2. fifos'[disp[o].fd].run = fifos[disp[o].fd].run /\ fifos'[disp[o].fd].lines = fifos[disp[o].fd].lines
      BY <1>8, <3>1
    <3> QED
      BY <1>2, <2>1, <3>1, <3>2 DEF Content
  <2>3. CASE o = p
    <3> DEFINE t == received[fifos[f].run]
               w == IF fifos[f].run = Run /\ cons.pc = "write" /\ cons.i <= p THEN Len(t) - 1 ELSE Len(t)
    <3>1. /\ m + Len(s) = w /\ ~disp[p].again
          /\ \A k \in 1..m : shown[k] = t[k]
          /\ \A k \in 1..Len(s) : s[k] = t[m + k]
      BY <2>1, <2>3 DEF Content, s, shown, m
    <3>2. n = 1 /\ Len(left) = Len(s) - 1 /\ \A k \in 1..Len(left) : left[k] = s[k + 1]
      BY <1>5
    <3> HIDE DEF t, w
    <3>3. m + 1 + Len(left) = w
      BY <1>7, <3>1, <3>2
    <3>4. \A k \in 1..m + 1 : disp'[p].shown[k] = t[k]
      BY <1>10, <1>13, <1>7, <1>14, <3>1
    <3>5. \A k \in 1..Len(left) : left[k] = t[m + 1 + k]
      <4>1. \A k \in 1..Len(left) : k + 1 \in 1..Len(s) /\ m + (k + 1) = m + 1 + k
        BY <1>7, <3>2
      <4> QED
        BY <3>1, <3>2, <4>1
    <3>6. /\ disp'[p].fd = f /\ fifos'[f].lines = left /\ fifos'[f].run = fifos[f].run
          /\ received' = received /\ cons' = cons /\ Run' = Run /\ ~disp'[p].again
      BY <1>2, <1>3, <1>6, <1>8, <3>1
    <3> HIDE DEF f
    <3> QED
      BY <1>10, <2>3, <3>3, <3>4, <3>5, <3>6 DEF Content, t, w
  <2> QED
    BY <2>2, <2>3
<1> QED
  BY <1>4, <1>15, <1>16, <1>17, <1>18, <1>19, <1>20, <1>21, <1>22, <1>23, <1>25, <1>26, <1>27, <1>28, <1>29,
     <1>30, Whole

\* A display that meets the end of its pipe has a reader too few or a line too many.
LEMMA ReadEndStep == ASSUME Inv, NEW p \in Pipes, ReadEnd(p) PROVE Inv'
<1>1. /\ Types /\ Bounds /\ ConsumerInv /\ OwnOpened /\ OwnMade /\ OwnWait /\ OwnLater /\ Separate
      /\ DisplayInv /\ FifoInv /\ QueueOrder /\ ReceiveOrder /\ FifoOrder /\ ShownOrder /\ WrittenOrder
      /\ QuitInv /\ NameInv /\ Rendezvous /\ ContentInv /\ Linked
  BY Parts
<1>2. /\ kind' = kind /\ queues' = queues /\ menu' = menu /\ cons' = cons /\ received' = received /\ fifos' = fifos
      /\ fname' = fname /\ mishaps' = mishaps /\ Run' = Run /\ Pipes' = Pipes
  BY PipesStay DEF ReadEnd, Run
<1>3. /\ Types' /\ p \in 1..2 /\ disp[p].pc = "read"
      /\ \A o \in 1..2 : o # p => disp'[o] = disp[o]
      /\ disp'[p].pc = disp[p].pc /\ disp'[p].fd = disp[p].fd /\ disp'[p].shown = disp[p].shown
  <2>1. p \in 1..2 /\ disp \in [1..2 -> [pc : DispStates, fd : Fds, shown : Seq(Lines), again : BOOLEAN]]
    BY <1>1, PipesAre DEF Types
  <2>2. Types' /\ disp'[p] = [disp[p] EXCEPT !.again = TRUE] /\ \A o \in 1..2 : o # p => disp'[o] = disp[o]
    BY <1>1, ReadEndIs
  <2> QED
    BY <2>1, <2>2 DEF ReadEnd
<1>4. \A o \in 1..2 : disp'[o].pc = disp[o].pc /\ disp'[o].fd = disp[o].fd /\ disp'[o].shown = disp[o].shown
  BY <1>3
<1>5. \A o : HasOpened(o)' = HasOpened(o) /\ HasPassed(o)' = HasPassed(o) /\ NotMade(o)' = NotMade(o)
             /\ Written(o)' = Written(o)
  BY <1>2 DEF HasOpened, HasPassed, NotMade, Connected, Written
<1>6. Bounds' /\ ConsumerInv'
  BY <1>1, <1>2, <1>5 DEF Bounds, ConsumerInv
<1>7. OwnOpened' /\ OwnMade' /\ OwnWait' /\ OwnLater'
  <2>1. OwnOpened'
    BY <1>1, <1>2, <1>4, <1>5 DEF OwnOpened
  <2>2. OwnMade' /\ OwnWait' /\ OwnLater'
    BY <1>1, <1>2, <1>4, <1>5 DEF OwnMade, OwnWait, OwnLater, Linked
  <2> QED
    BY <2>1, <2>2
<1>8. Separate' /\ FifoInv'
  BY <1>1, <1>2, <1>4 DEF Separate, Refs, FifoInv
<1>9. DisplayInv'
  <2>1. \A o \in 1..2 : disp'[o].pc = "off" => disp'[o] = NoDisplay
    BY <1>1, <1>3 DEF DisplayInv
  <2> QED
    BY <1>1, <1>2, <1>4, <1>5, <2>1 DEF DisplayInv, Quits
<1>10. QueueOrder' /\ ReceiveOrder' /\ FifoOrder' /\ ShownOrder'
  BY <1>1, <1>2, <1>4 DEF QueueOrder, ReceiveOrder, FifoOrder, ShownOrder
<1>11. WrittenOrder'
  BY <1>1, <1>2, <1>4, <1>5 DEF WrittenOrder
<1>12. QuitInv'
  BY <1>1, <1>2 DEF QuitInv, Quits
<1>13. NameInv' /\ Rendezvous'
  <2>1. Pipes \subseteq 1..2
    BY <1>1, PipesAre DEF Types
  <2> QED
    BY <1>1, <1>2, <1>4, <1>5, <2>1 DEF NameInv, Rendezvous
<1>14. mishaps # {}
  <2> SUFFICES ASSUME mishaps = {} PROVE FALSE
    OBVIOUS
  <2> DEFINE f == disp[p].fd
             t == received[fifos[f].run]
             shown == disp[p].shown
  <2>1. fifos[f].lines = << >> /\ ~fifos[f].w /\ f \in DOMAIN fifos
    BY <1>1, <1>3 DEF ReadEnd, Linked
  <2>2. fifos[f].run \in DOMAIN received
    BY <1>1, <2>1, Values DEF Bounds, Shape
  <2>3. fifos[f].run = Run => cons.pc = "off"
    BY <1>1, <1>3, <2>1 DEF DisplayInv, OwnOpened
  <2>4. fifos[f].run < Run \/ cons.pc = "off"
    BY <1>1, <2>1, <2>3, Values DEF Bounds, Shape
  <2>5. t # << >> /\ Quits(t[Len(t)])
    BY <1>1, <2>2, <2>4 DEF QuitInv
  <2>6. Content(p)
    BY <1>1, <1>3 DEF ContentInv
  <2>7. Len(shown) = Len(t) /\ \A k \in 1..Len(shown) : shown[k] = t[k]
    <3>1. Len(fifos[f].lines) = 0
      BY <2>1
    <3>2. Len(shown) \in Nat
      BY <1>1, <1>3, Values DEF Shape
    <3>3. cons.pc # "write" \/ fifos[f].run # Run
      BY <2>3
    <3> QED
      BY <2>6, <3>1, <3>2, <3>3 DEF Content
  <2>8. Len(t) \in 1..Len(t)
    <3>1. t \in Seq(Lines)
      BY <1>1, <2>2, Values DEF Shape
    <3> QED
      BY <2>5, <3>1, EmptySeq
  <2>9. DOMAIN shown = 1..Len(shown)
    BY <1>1, <1>3, Values DEF Shape
  <2> QED
    BY <1>1, <1>3, <2>5, <2>7, <2>8, <2>9 DEF DisplayInv
<1>15. ContentInv'
  BY <1>2, <1>14 DEF ContentInv
<1> QED
  BY <1>3, <1>6, <1>7, <1>8, <1>9, <1>10, <1>11, <1>12, <1>13, <1>15, Whole

\* A display has shown a quit line; the name it unlinks may stand for another pipe.
LEMMA DispEndStep == ASSUME Inv, NEW p \in Pipes, DispEnd(p) PROVE Inv'
<1> DEFINE f == disp[p].fd
<1>1. /\ Types /\ Bounds /\ ConsumerInv /\ OwnOpened /\ OwnMade /\ OwnWait /\ OwnLater /\ Separate
      /\ DisplayInv /\ FifoInv /\ QueueOrder /\ ReceiveOrder /\ FifoOrder /\ ShownOrder /\ WrittenOrder
      /\ QuitInv /\ NameInv /\ Rendezvous /\ ContentInv /\ Linked
  BY Parts
<1>2. Pipes \subseteq 1..2
  BY <1>1, PipesAre DEF Types
<1>3. p \in 1..2 /\ disp[p].pc # "off" /\ f # 0 /\ f \in DOMAIN fifos
  BY <1>1, <1>2 DEF Linked, DispEnd
<1>4. /\ kind' = kind /\ queues' = queues /\ menu' = menu /\ cons' = cons /\ received' = received
      /\ Run' = Run /\ Pipes' = Pipes
  BY PipesStay DEF DispEnd, Run
<1>5. Types' /\ DOMAIN fifos' = DOMAIN fifos
  <2>1. Types' /\ Len(fifos') = Len(fifos)
    BY <1>1, <1>3, DispEndIs
  <2>2. Shape /\ Shape'
    BY <1>1, <2>1, Values, PTL
  <2> QED
    BY <2>1, <2>2 DEF Shape
<1>6. /\ \A o \in 1..2 : o # p => disp'[o] = disp[o]
      /\ disp'[p].pc = "off" /\ disp'[p].fd = 0 /\ disp'[p] = NoDisplay
      /\ fname'[p] = 0 /\ \A o \in 1..2 : o # p => fname'[o] = fname[o]
      /\ mishaps \subseteq mishaps' /\ ("broken" \in mishaps' => "broken" \in mishaps)
      /\ "crossed" \notin mishaps' => fname[p] \in {0, f}
  <2>1. disp'[p] = NoDisplay /\ \A o \in 1..2 : o # p => disp'[o] = disp[o]
    BY <1>1, <1>3, DispEndIs
  <2>2. /\ fname'[p] = 0 /\ \A o \in 1..2 : o # p => fname'[o] = fname[o]
        /\ mishaps \subseteq mishaps' /\ ("broken" \in mishaps' => "broken" \in mishaps)
        /\ ("crossed" \notin mishaps' => fname[p] \in {0, f})
    BY <1>1, <1>3, DispEndIs
  <2> QED
    BY <2>1, <2>2, NothingShown
<1>7. \A g \in DOMAIN fifos :
        /\ fifos'[g].run = fifos[g].run /\ fifos'[g].lines = fifos[g].lines
        /\ (fifos'[g].w <=> fifos[g].w) /\ (fifos'[g].used <=> fifos[g].used)
        /\ (fifos'[g].r <=> (fifos[g].r /\ g # f))
  <2>1. fifos'[f] = [fifos[f] EXCEPT !.r = FALSE] /\ \A g \in 1..Len(fifos) : g # f => fifos'[g] = fifos[g]
    BY <1>1, <1>3, DispEndIs
  <2>2. \A g \in 1..Len(fifos) : fifos[g] \in Fifos
    BY <1>1, Values DEF Shape
  <2>3. DOMAIN fifos = 1..Len(fifos)
    BY <1>1, Values DEF Shape
  <2> QED
    BY <1>3, <2>1, <2>2, <2>3 DEF Fifos
<1>8. Bounds'
  BY <1>1, <1>4, <1>5, <1>7 DEF Bounds
<1>10. \A o : HasOpened(o)' = HasOpened(o) /\ HasPassed(o)' = HasPassed(o) /\ NotMade(o)' = NotMade(o)
  BY <1>4 DEF HasOpened, HasPassed, NotMade, Connected
<1>11. ConsumerInv'
  BY <1>1, <1>4, <1>10 DEF ConsumerInv
<1>12. OwnOpened'
  BY <1>1, <1>4, <1>6, <1>7, <1>10 DEF OwnOpened, Linked
<1>13. OwnMade'
  BY <1>1, <1>4, <1>6, <1>7 DEF OwnMade, Linked
<1>14. OwnWait'
  BY <1>1, <1>2, <1>4, <1>7, <1>10 DEF OwnWait, Linked, ConsumerInv, HasOpened
<1>15. OwnLater'
  BY <1>1, <1>4, <1>6, <1>7, <1>10 DEF OwnLater, Linked
<1>16. Separate'
  BY <1>1, <1>3, <1>4, <1>6 DEF Separate, Refs
<1>17. DisplayInv'
  <2>1. \A o \in 1..2 : o # p => disp[o].fd # f
    BY <1>1, <1>3, Apart DEF Refs
  <2> SUFFICES ASSUME NEW o \in 1..2, o # p PROVE DisplayInv!(o)'
    BY <1>6 DEF DisplayInv
  <2>2. disp'[o] = disp[o] /\ disp[o].fd # f
    BY <1>6, <2>1
  <2> QED
    BY <1>1, <1>4, <1>7, <1>10, <2>2 DEF DisplayInv, Linked, Quits
<1>18. FifoInv'
  BY <1>1, <1>3, <1>4, <1>5, <1>6, <1>7 DEF FifoInv
<1>19. QueueOrder' /\ ReceiveOrder'
  BY <1>1, <1>4 DEF QueueOrder, ReceiveOrder
<1>20. FifoOrder'
  BY <1>1, <1>5, <1>7 DEF FifoOrder
<1>21. ShownOrder'
  BY <1>1, <1>6, <1>7 DEF ShownOrder, Linked
<1>22. WrittenOrder'
  BY <1>1, <1>3, <1>4, <1>6, <1>7, <1>10 DEF WrittenOrder, Linked, Written
<1>23. QuitInv'
  BY <1>1, <1>4, <1>6 DEF QuitInv, Quits
<1>24. NameInv'
  <2> SUFFICES ASSUME mishaps' \cap {"crossed", "broken"} = {}
               PROVE  /\ cons.pc = "off" => \A o \in Pipes : fname'[o] = 0
                      /\ \A o \in Pipes : NotMade(o) => fname'[o] = 0
                      /\ cons.pc = "open" => fname'[cons.i] # 0
    BY <1>4, <1>10 DEF NameInv
  <2>1. mishaps \cap {"crossed", "broken"} = {} /\ fname[p] \in {0, f}
    BY <1>6
  <2>2. cons.pc = "open" => cons.i # p
    <3> SUFFICES ASSUME cons.pc = "open", cons.i = p PROVE FALSE
      OBVIOUS
    <3>1. fname[p] = f /\ f # 0
      BY <1>1, <1>3, <2>1 DEF NameInv
    <3>2. fifos[f].run = Run /\ disp[p].pc = "end"
      BY <1>1, <3>1 DEF OwnMade, DispEnd
    <3>3. HasOpened(p)
      BY <1>1, <1>3, <3>2 DEF DisplayInv
    <3> QED
      BY <1>3, <3>3 DEF HasOpened, Connected
  <2> QED
    BY <1>1, <1>2, <1>6, <2>1, <2>2 DEF NameInv, Linked
<1>25. Rendezvous'
  <2> SUFFICES ASSUME mishaps' \cap {"crossed", "broken"} = {}
               PROVE  /\ cons.pc = "wait" => fname'[cons.i] = cons.fd[cons.i]
                      /\ \A o \in Pipes : disp'[o].pc = "wait" => fname'[o] = disp'[o].fd
    BY <1>4 DEF Rendezvous
  <2>1. mishaps \cap {"crossed", "broken"} = {} /\ fname[p] \in {0, f}
    BY <1>6
  <2>2. cons.pc = "wait" => fname'[cons.i] = cons.fd[cons.i]
    <3> SUFFICES ASSUME cons.pc = "wait" PROVE cons.i # p
      BY <1>1, <1>6, <2>1 DEF Rendezvous, Linked
    <3>1. fname[cons.i] = cons.fd[cons.i] /\ cons.fd[cons.i] # 0
      BY <1>1, <2>1 DEF Rendezvous, ConsumerInv, HasOpened, Linked
    <3> QED
      BY <1>1, <1>3, <2>1, <3>1 DEF OwnWait, Linked
  <2> QED
    BY <1>1, <1>2, <1>6, <2>1, <2>2 DEF Rendezvous
<1>26. ContentInv'
  <2>1. \A o \in 1..2 : o # p /\ disp[o].pc # "off" /\ Content(o) => Content(o)'
    <3> SUFFICES ASSUME NEW o \in 1..2, o # p, disp[o].pc # "off", Content(o) PROVE Content(o)'
      OBVIOUS
    <3>1. disp'[o] = disp[o] /\ disp[o].fd \in DOMAIN fifos
      BY <1>1, <1>6 DEF Linked
    <3>2. fifos'[disp[o].fd].run = fifos[disp[o].fd].run /\ fifos'[disp[o].fd].lines = fifos[disp[o].fd].lines
      BY <1>7, <3>1
    <3> QED
      BY <1>4, <3>1, <3>2 DEF Content
  <2> QED
    BY <1>1, <1>6, <2>1 DEF ContentInv
<1> QED
  BY <1>5, <1>8, <1>11, <1>12, <1>13, <1>14, <1>15, <1>16, <1>17, <1>18, <1>19, <1>20, <1>21, <1>22, <1>23,
     <1>24, <1>25, <1>26, Whole

\* The pipe has no reader any more, whatever is left in it.
LEMMA KillStep == ASSUME Inv, NEW p \in Pipes, Kill(p) PROVE Inv'
<1> DEFINE f == disp[p].fd
<1>1. /\ Types /\ Bounds /\ ConsumerInv /\ OwnOpened /\ OwnMade /\ OwnWait /\ OwnLater /\ Separate
      /\ DisplayInv /\ FifoInv /\ QueueOrder /\ ReceiveOrder /\ FifoOrder /\ ShownOrder /\ WrittenOrder
      /\ QuitInv /\ NameInv /\ Rendezvous /\ ContentInv /\ Linked
  BY Parts
<1>2. Pipes \subseteq 1..2
  BY <1>1, PipesAre DEF Types
<1>3. p \in 1..2 /\ disp[p].pc # "off" /\ f # 0 /\ f \in DOMAIN fifos
  BY <1>1, <1>2 DEF Linked, Kill
<1>4. /\ kind' = kind /\ queues' = queues /\ menu' = menu /\ cons' = cons /\ received' = received /\ fname' = fname
      /\ Run' = Run /\ Pipes' = Pipes
  BY PipesStay DEF Kill, Run
<1>5. Types' /\ DOMAIN fifos' = DOMAIN fifos
  <2>1. Types' /\ Len(fifos') = Len(fifos)
    BY <1>1, <1>3, KillIs
  <2>2. Shape /\ Shape'
    BY <1>1, <2>1, Values, PTL
  <2> QED
    BY <2>1, <2>2 DEF Shape
<1>6. /\ \A o \in 1..2 : o # p => disp'[o] = disp[o]
      /\ disp'[p].pc = "off" /\ disp'[p].fd = 0 /\ disp'[p] = NoDisplay
      /\ mishaps' # {} /\ mishaps' \cap {"crossed", "broken"} = mishaps \cap {"crossed", "broken"}
  BY <1>1, <1>3, KillIs, NothingShown
<1>7. \A g \in DOMAIN fifos :
        /\ fifos'[g].run = fifos[g].run /\ fifos'[g].lines = fifos[g].lines
        /\ (fifos'[g].w <=> fifos[g].w) /\ (fifos'[g].used <=> fifos[g].used)
        /\ (fifos'[g].r <=> (fifos[g].r /\ g # f))
  <2>1. fifos'[f] = [fifos[f] EXCEPT !.r = FALSE] /\ \A g \in 1..Len(fifos) : g # f => fifos'[g] = fifos[g]
    BY <1>1, <1>3, KillIs
  <2>2. \A g \in 1..Len(fifos) : fifos[g] \in Fifos
    BY <1>1, Values DEF Shape
  <2>3. DOMAIN fifos = 1..Len(fifos)
    BY <1>1, Values DEF Shape
  <2> QED
    BY <1>3, <2>1, <2>2, <2>3 DEF Fifos
<1>8. Bounds'
  BY <1>1, <1>4, <1>5, <1>7 DEF Bounds
<1>10. \A o : HasOpened(o)' = HasOpened(o) /\ HasPassed(o)' = HasPassed(o) /\ NotMade(o)' = NotMade(o)
  BY <1>4 DEF HasOpened, HasPassed, NotMade, Connected
<1>11. ConsumerInv'
  BY <1>1, <1>4, <1>10 DEF ConsumerInv
<1>12. OwnOpened'
  BY <1>1, <1>4, <1>6, <1>7, <1>10 DEF OwnOpened, Linked
<1>13. OwnMade'
  BY <1>1, <1>4, <1>6, <1>7 DEF OwnMade, Linked
<1>14. OwnWait'
  BY <1>1, <1>2, <1>4, <1>7, <1>10 DEF OwnWait, Linked, ConsumerInv, HasOpened
<1>15. OwnLater'
  BY <1>1, <1>4, <1>6, <1>7, <1>10 DEF OwnLater, Linked
<1>16. Separate'
  BY <1>1, <1>3, <1>4, <1>6 DEF Separate, Refs
<1>17. DisplayInv'
  <2>1. \A o \in 1..2 : o # p => disp[o].fd # f
    BY <1>1, <1>3, Apart DEF Refs
  <2> SUFFICES ASSUME NEW o \in 1..2, o # p PROVE DisplayInv!(o)'
    BY <1>6 DEF DisplayInv
  <2>2. disp'[o] = disp[o] /\ disp[o].fd # f
    BY <1>6, <2>1
  <2> QED
    BY <1>1, <1>4, <1>7, <1>10, <2>2 DEF DisplayInv, Linked, Quits
<1>18. FifoInv'
  BY <1>1, <1>3, <1>4, <1>5, <1>6, <1>7 DEF FifoInv
<1>19. QueueOrder' /\ ReceiveOrder'
  BY <1>1, <1>4 DEF QueueOrder, ReceiveOrder
<1>20. FifoOrder'
  BY <1>1, <1>5, <1>7 DEF FifoOrder
<1>21. ShownOrder'
  BY <1>1, <1>6, <1>7 DEF ShownOrder, Linked
<1>22. WrittenOrder'
  BY <1>1, <1>3, <1>4, <1>6, <1>7, <1>10 DEF WrittenOrder, Linked, Written
<1>23. QuitInv'
  BY <1>1, <1>4, <1>6 DEF QuitInv, Quits
<1>24. NameInv'
  BY <1>1, <1>4, <1>6, <1>10 DEF NameInv
<1>25. Rendezvous'
  BY <1>1, <1>2, <1>3, <1>4, <1>6 DEF Rendezvous
<1>26. ContentInv'
  BY <1>6 DEF ContentInv
<1> QED
  BY <1>5, <1>8, <1>11, <1>12, <1>13, <1>14, <1>15, <1>16, <1>17, <1>18, <1>19, <1>20, <1>21, <1>22, <1>23,
     <1>24, <1>25, <1>26, Whole

-----------------------------------------------------------------------------
(* The theorems                                                            *)

\* In the beginning there is nothing.
LEMMA InvInit == Init => Inv
<1> SUFFICES ASSUME Init PROVE Inv
  OBVIOUS
<1>1. /\ kind \in Kinds /\ queues = << >> /\ qname = 0 /\ menu = [on |-> FALSE, q |-> 0, typed |-> 0]
      /\ received = << >> /\ fifos = << >> /\ fname = <<0, 0>> /\ disp = <<NoDisplay, NoDisplay>>
      /\ mishaps = {} /\ cons = NoConsumer
  BY DEF Init
<1>2. /\ Len(<< >>) = 0 /\ DOMAIN << >> = {}
  OBVIOUS
<1>3. Len(queues) = 0 /\ Len(fifos) = 0 /\ Run = 0 /\ DOMAIN queues = {} /\ DOMAIN received = {} /\ DOMAIN fifos = {}
  BY <1>1, <1>2 DEF Run
<1>4. /\ cons.pc = "off" /\ cons.i = 1 /\ cons.q = 0 /\ cons.fd[1] = 0 /\ cons.fd[2] = 0
      /\ cons \in [pc : ConsStates, q : 0..Len(queues), i : 1..2, fd : [1..2 -> Fds]]
  <2>1. <<0, 0>> \in [1..2 -> Fds]
    BY <1>3 DEF Fds
  <2>2. "off" \in ConsStates /\ 0 \in 0..Len(queues) /\ 1 \in 1..2
    BY <1>3 DEF ConsStates
  <2> QED
    BY <1>1, <2>1, <2>2 DEF NoConsumer
<1>5. /\ \A p \in 1..2 : disp[p] = NoDisplay /\ fname[p] = 0
      /\ disp \in [1..2 -> [pc : DispStates, fd : Fds, shown : Seq(Lines), again : BOOLEAN]]
      /\ fname \in [1..2 -> Fds]
  <2>1. NoDisplay \in [pc : DispStates, fd : Fds, shown : Seq(Lines), again : BOOLEAN]
    BY <1>3, EmptySeq DEF NoDisplay, DispStates, Fds
  <2>2. 0 \in Fds
    BY <1>3 DEF Fds
  <2> QED
    BY <1>1, <2>1, <2>2
<1>6. Types
  <2>1. << >> \in Seq(Seq(Lines)) /\ << >> \in Seq(Fifos)
    BY EmptySeq
  <2>2. menu \in [on : BOOLEAN, q : 0..Len(queues), typed : 0..MaxLines]
    BY <1>1, <1>3, Assumed
  <2>3. qname \in 0..Len(queues)
    BY <1>1, <1>3
  <2> QED
    BY <1>1, <1>4, <1>5, <2>1, <2>2, <2>3 DEF Types
<1>7. Pipes \subseteq 1..2
  BY <1>1, PipesAre
<1>8. \A p \in 1..2 : disp[p].pc = "off" /\ disp[p].fd = 0 /\ ~HasOpened(p) /\ ~NotMade(p)
  BY <1>4, <1>5, NothingShown DEF HasOpened, NotMade
<1>9. Bounds /\ ConsumerInv
  BY <1>1, <1>3, <1>4, <1>8 DEF Bounds, ConsumerInv
<1>10. OwnInv /\ Separate
  BY <1>4, <1>5, <1>8 DEF OwnInv, OwnOpened, OwnMade, OwnWait, OwnLater, Separate, Refs
<1>11. ReaderInv
  BY <1>3, <1>5, <1>8 DEF ReaderInv, DisplayInv, FifoInv
<1>12. OrderInv
  BY <1>3, <1>4, <1>8 DEF OrderInv, QueueOrder, ReceiveOrder, FifoOrder, ShownOrder, WrittenOrder
<1>13. QuitInv
  BY <1>3, <1>4 DEF QuitInv
<1>14. NameInv /\ Rendezvous
  BY <1>4, <1>5, <1>7, <1>8 DEF NameInv, Rendezvous
<1>15. ContentInv
  BY <1>8 DEF ContentInv
<1> QED
  BY <1>6, <1>9, <1>10, <1>11, <1>12, <1>13, <1>14, <1>15 DEF Inv

\* Every step keeps the invariant.
LEMMA InvNext == Inv /\ [Next]_vars => Inv'
<1> SUFFICES ASSUME Inv, [Next]_vars PROVE Inv'
  OBVIOUS
<1>1. CASE MenuStart
  BY <1>1, MenuStartStep
<1>2. CASE MenuSend
  BY <1>2, MenuSendStep
<1>3. CASE ConsStart
  BY <1>3, ConsStartStep
<1>4. CASE MakePipe
  BY <1>4, MakePipeStep
<1>5. CASE OpenPipe
  BY <1>5, OpenPipeStep, OpenPipeGoneStep
<1>6. CASE Receive
  BY <1>6, ReceiveStep
<1>7. CASE Write
  BY <1>7, WriteStep, WriteBrokenStep
<1>8. CASE UnlinkQueue
  BY <1>8, UnlinkQueueStep
<1>9. CASE ConsExit
  BY <1>9, ConsExitStep
<1>10. ASSUME NEW p \in Pipes, DispOpen(p) \/ DispStep(p) \/ Kill(p) PROVE Inv'
  <2>1. CASE DispOpen(p)
    BY <2>1, DispOpenStep
  <2>2. CASE Read(p)
    BY <2>2, ReadStep
  <2>3. CASE ReadEnd(p)
    BY <2>3, ReadEndStep
  <2>4. CASE DispEnd(p)
    BY <2>4, DispEndStep
  <2>5. CASE Kill(p)
    BY <2>5, KillStep
  <2> QED
    BY <1>10, <2>1, <2>2, <2>3, <2>4, <2>5 DEF DispStep
<1>11. CASE UNCHANGED vars
  <2>1. /\ kind' = kind /\ queues' = queues /\ qname' = qname /\ menu' = menu /\ cons' = cons
        /\ received' = received /\ fifos' = fifos /\ fname' = fname /\ disp' = disp /\ mishaps' = mishaps
    BY <1>11 DEF vars
  <2>2. Types /\ Bounds /\ QueueOrder /\ ReceiveOrder
    BY Parts
  <2>3. Types'
    BY <2>1, <2>2 DEF Types, Fds
  <2>4. Bounds' /\ QueueOrder' /\ ReceiveOrder'
    BY <2>1, <2>2 DEF Bounds, QueueOrder, ReceiveOrder, Run
  <2> QED
    BY <2>1, <2>3, <2>4, OthersStay, Whole
<1> QED
  BY <1>1, <1>2, <1>3, <1>4, <1>5, <1>6, <1>7, <1>8, <1>9, <1>10, <1>11 DEF Next, ConsStep

\* The programs keep to the invariant, whatever the order they run in and whoever
\* is killed.
THEOREM Invariant == Spec => []Inv
BY InvInit, InvNext, PTL DEF Spec

\* No queue is longer than it may be, and what anybody refers to has been made.
THEOREM TypeCorrect == Spec => []TypeOK
<1>1. Inv => TypeOK
  <2> SUFFICES ASSUME Inv PROVE TypeOK
    OBVIOUS
  <2>1. Types /\ Bounds /\ ConsumerInv /\ Shape
    BY Parts, Values
  <2>2. cons.pc \in ConsStates /\ cons.q \in 0..Len(queues) /\ cons.i \in {1} \cup Pipes
    <3>1. cons \in [pc : ConsStates, q : 0..Len(queues), i : 1..2, fd : [1..2 -> Fds]]
      BY <2>1 DEF Types
    <3>2. cons.pc \in ConsStates /\ cons.q \in 0..Len(queues)
      BY <3>1
    <3> QED
      BY <2>1, <3>2 DEF ConsumerInv, ConsStates
  <2>3. {cons.fd[1], cons.fd[2], fname[1], fname[2]} \subseteq 0..Len(fifos)
    BY <2>1 DEF Types, Fds
  <2>4. \A f \in DOMAIN fifos :
          /\ fifos[f].lines \in Seq(Lines) /\ fifos[f].run \in 1..Run
          /\ {fifos[f].w, fifos[f].r, fifos[f].used} \subseteq BOOLEAN
    BY <2>1 DEF Bounds, Shape, Fifos
  <2>5. \A p \in 1..2 :
          /\ disp[p].pc \in {"off", "wait", "read", "end"}
          /\ disp[p].fd \in 0..Len(fifos) /\ disp[p].shown \in Seq(Lines)
    BY <2>1 DEF Types, DispStates, Fds
  <2>6. /\ \A q \in DOMAIN queues : queues[q] \in Seq(Lines) /\ Len(queues[q]) <= MAX_MSG_COUNT
        /\ \A r \in DOMAIN received : received[r] \in Seq(Lines)
    BY <2>1 DEF Bounds, Shape
  <2>7. /\ kind \in Kinds /\ qname \in 0..Len(queues)
        /\ menu \in [on : BOOLEAN, q : 0..Len(queues), typed : 0..MaxLines]
        /\ mishaps \subseteq Mishaps
    BY <2>1 DEF Types
  <2> QED
    BY <2>2, <2>3, <2>4, <2>5, <2>6, <2>7 DEF TypeOK, ConsStates, Mishaps
<1> QED
  BY <1>1, Invariant, PTL

\* Who waits in open waits for somebody who can still come, as long as no display
\* has unlinked the pipe of a later run and no compute was ended by SIGPIPE.
THEOREM SomebodyComes == Spec => []Rendezvous
<1>1. Inv => Rendezvous
  BY DEF Inv
<1> QED
  BY <1>1, Invariant, PTL

\* A display shows what its compute received, in that order, once and, when it
\* ends, all of it, unless one of the mishaps has come about.
THEOREM ShownAsReceived == Spec => []NothingMissed
<1>1. Inv => NothingMissed
  <2> SUFFICES ASSUME Inv, NEW p \in Pipes PROVE NothingMissed!(p)
    BY DEF NothingMissed
  <2> DEFINE shown == disp[p].shown
             s == fifos[disp[p].fd].lines
             t == received[fifos[disp[p].fd].run]
  <2>1. /\ Types /\ Bounds /\ DisplayInv /\ ShownOrder /\ QuitInv /\ ContentInv /\ Linked
    BY Parts
  <2>2. p \in 1..2
    BY <2>1, PipesAre DEF Types
  <2>3. shown \in Seq(Lines) /\ Len(shown) \in Nat /\ DOMAIN shown = 1..Len(shown)
    BY <2>1, <2>2, Values DEF Shape
  <2>4. \A j \in 2..Len(shown) : shown[j - 1].nr < shown[j].nr
    <3>1. CASE disp[p].pc = "off"
      BY <2>1, <2>2, <3>1, NothingShown, EmptySeq DEF DisplayInv
    <3>2. CASE disp[p].pc # "off"
      <4>1. Increasing(shown)
        BY <2>1, <2>2, <3>2 DEF ShownOrder
      <4>2. \A j \in 2..Len(shown) : j \in DOMAIN shown /\ j - 1 \in DOMAIN shown /\ j - 1 < j
        BY <2>3
      <4> QED
        BY <4>1, <4>2 DEF Increasing
    <3> QED
      BY <3>1, <3>2
  <2>5. ASSUME disp[p].pc \in {"read", "end"}, mishaps = {}
        PROVE  IsPrefix(shown, t) /\ ~disp[p].again /\ (disp[p].pc = "end" => shown = t)
    <3>1. disp[p].fd \in DOMAIN fifos
      BY <2>1, <2>2, <2>5 DEF Linked
    <3>2. /\ t \in Seq(Lines) /\ Len(t) \in Nat /\ DOMAIN t = 1..Len(t) /\ Len(s) \in Nat
          /\ fifos[disp[p].fd].run \in DOMAIN received
      BY <2>1, <3>1, Values DEF Bounds, Shape
    <3>3. Content(p)
      BY <2>1, <2>2, <2>5 DEF ContentInv
    <3>4. Len(shown) + Len(s) \in {Len(t) - 1, Len(t)} /\ ~disp[p].again /\ \A k \in 1..Len(shown) : shown[k] = t[k]
      BY <3>3 DEF Content
    <3> HIDE DEF shown, s, t
    <3>5. Len(shown) <= Len(t)
      <4>1. \A a, b, c \in Nat : a + b \in {c - 1, c} => a <= c
        OBVIOUS
      <4> QED
        BY <2>3, <3>2, <3>4, <4>1
    <3>6. IsPrefix(shown, t)
      <4> DEFINE n == Len(shown)
                 u == SubSeq(shown, 1, n)
                 v == SubSeq(t, 1, n)
      <4>1. \A k \in 1..n : shown[k] \in Lines /\ t[k] \in Lines
        <5>1. \A k \in 1..n : shown[k] \in Lines
          BY <2>3, ElementOfSeq
        <5> QED
          BY <3>4, <5>1
      <4>2. n \in Int /\ 1 \in Int /\ n \in Nat
        BY <2>3
      <4>3. \A a \in 1..n : a \in 1..n - 1 + 1 /\ 1 + a - 1 = a
        BY <4>2
      <4> HIDE DEF n
      <4>4. u \in Seq(Lines) /\ Len(u) = (IF 1 <= n THEN n - 1 + 1 ELSE 0) /\ \A k \in 1..n - 1 + 1 : u[k] = shown[1 + k - 1]
        BY <4>1, <4>2, SubSeqProperties
      <4>5. v \in Seq(Lines) /\ Len(v) = (IF 1 <= n THEN n - 1 + 1 ELSE 0) /\ \A k \in 1..n - 1 + 1 : v[k] = t[1 + k - 1]
        BY <4>1, <4>2, SubSeqProperties
      <4> HIDE DEF u, v
      <4>6. Len(u) = n /\ Len(v) = n
        BY <4>2, <4>4, <4>5
      <4>7. \A k \in 1..n : u[k] = v[k]
        BY <3>4, <4>3, <4>4, <4>5 DEF n
      <4>8. u = v
        BY <4>4, <4>5, <4>6, <4>7, SeqEqual
      <4> QED
        BY <3>5, <4>8 DEF IsPrefix, u, v, n
    <3>7. ASSUME disp[p].pc = "end" PROVE shown = t
      <4>1. shown # << >> /\ Quits(shown[Len(shown)])
        BY <2>1, <2>2, <3>7 DEF DisplayInv, shown
      <4>2. Len(shown) \in 1..Len(shown)
        BY <2>3, <4>1, EmptySeq
      <4>3. Quits(t[Len(shown)])
        BY <3>4, <4>1, <4>2
      <4>4. \A k \in 1..Len(t) - 1 : ~Quits(t[k])
        BY <2>1, <3>2 DEF QuitInv, t
      <4>5. Len(shown) = Len(t)
        <5>1. \A a, c \in Nat : a <= c /\ a \in 1..a /\ a \notin 1..c - 1 => a = c
          OBVIOUS
        <5>2. Len(shown) \notin 1..Len(t) - 1
          BY <4>3, <4>4
        <5> QED
          BY <2>3, <3>2, <3>5, <4>2, <5>1, <5>2
      <4> QED
        BY <2>3, <3>2, <3>4, <4>5, SeqEqual
    <3> QED
      BY <3>4, <3>6, <3>7
  <2> HIDE DEF shown, t
  <2> QED
    BY <2>4, <2>5 DEF shown, t
<1> QED
  BY <1>1, Invariant, PTL
=============================================================================

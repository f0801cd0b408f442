------------------------------ MODULE Pipeline ------------------------------
(***************************************************************************)
(* The programs of exercises 5a, 5d and 5e.  A menu sends what is typed to *)
(* a message queue.  In 5a a display shows it.  In 5d and 5e a compute     *)
(* program writes each line, in upper case or in both cases, to one or two *)
(* named pipes, and a display at each pipe shows it.  A quit line ends     *)
(* them all.  In 5a the consumer of this module is the display, otherwise  *)
(* it is compute.                                                          *)
(*                                                                         *)
(* The queue and the pipes are found by name, and a name may be unlinked   *)
(* and made anew while somebody still has the old object open.  A pipe is  *)
(* a stream: a read takes what is there, which may be several lines, and   *)
(* only the first is shown.  Each program runs once at a time and may be   *)
(* started again; a display may be killed.                                 *)
(***************************************************************************)
EXTENDS Integers, Sequences, SequencesExt

CONSTANTS
  Kinds,          \* the exercises to look at: 5a, 5d, 5e
  MAX_MSG_COUNT,  \* the length of a queue
  MaxLines,       \* bound: lines typed
  MaxRuns         \* bound: runs of the consumer

ASSUME PipelineAssumption ==
  /\ Kinds \subseteq {"5a", "5d", "5e"}
  /\ {MAX_MSG_COUNT, MaxLines, MaxRuns} \subseteq Nat \ {0}

VARIABLES
  kind,      \* the exercise; it never changes
  queues,    \* every queue that was made, as the lines in it
  qname,     \* the one QUEUE_NAME stands for, or 0
  menu,      \* whether the menu runs, its queue, and how many lines were typed
  cons,      \* the consumer
  received,  \* the lines each run of it has received
  fifos,     \* every pipe that was made
  fname,     \* the one each pipe name stands for, or 0
  disp,      \* the displays at the pipes
  mishaps    \* what has happened that the programs do not allow for

vars == <<kind, queues, qname, menu, cons, received, fifos, fname, disp, mishaps>>

Pipes == CASE kind = "5a" -> {} [] kind = "5d" -> {1} [] kind = "5e" -> {1, 2}
Run == Len(received)

\* A line is a number and one of three kinds of text.  compute changes the
\* case before it compares, the display of 5a and the menu do not.
Words == {"text", "quit", "Quit"}
Quits(l) == IF kind = "5a" THEN l.word = "quit" ELSE l.word # "text"

NoConsumer == [pc |-> "off", q |-> 0, i |-> 1, fd |-> <<0, 0>>]
NoDisplay == [pc |-> "off", fd |-> 0, shown |-> << >>, again |-> FALSE]

Init ==
  /\ kind \in Kinds
  /\ queues = << >> /\ qname = 0
  /\ menu = [on |-> FALSE, q |-> 0, typed |-> 0]
  /\ cons = NoConsumer
  /\ received = << >>
  /\ fifos = << >> /\ fname = <<0, 0>>
  /\ disp = <<NoDisplay, NoDisplay>>
  /\ mishaps = {}

-----------------------------------------------------------------------------
\* mq_open with O_CREAT
MenuStart ==
  /\ ~menu.on
  /\ \/ qname # 0 /\ UNCHANGED <<queues, qname>>
     \/ qname = 0 /\ queues' = Append(queues, << >>) /\ qname' = Len(queues')
  /\ menu' = [menu EXCEPT !.on = TRUE, !.q = qname']
  /\ UNCHANGED <<kind, cons, received, fifos, fname, disp, mishaps>>

\* A line is sent, quit too; mq_send waits while the queue is full.
MenuSend ==
  /\ menu.on /\ menu.typed < MaxLines
  /\ Len(queues[menu.q]) < MAX_MSG_COUNT
  /\ \E w \in Words :
       /\ queues' = [queues EXCEPT ![menu.q] =
                       Append(@, [nr |-> menu.typed + 1, word |-> w])]
       /\ menu' = [menu EXCEPT !.on = w # "quit", !.typed = @ + 1]
  /\ UNCHANGED <<kind, qname, cons, received, fifos, fname, disp, mishaps>>

-----------------------------------------------------------------------------
(* The consumer                                                            *)

ConsStart ==
  /\ cons.pc = "off" /\ qname # 0 /\ Run < MaxRuns
  /\ cons' = [NoConsumer EXCEPT !.pc = IF Pipes = {} THEN "receive" ELSE "make",
                                !.q = qname]
  /\ received' = Append(received, << >>)
  /\ UNCHANGED <<kind, queues, qname, menu, fifos, fname, disp, mishaps>>

\* unlink and mkfifo
MakePipe ==
  /\ cons.pc = "make"
  /\ fifos' = Append(fifos, [run |-> Run, lines |-> << >>, w |-> FALSE, r |-> FALSE,
                             used |-> FALSE])
  /\ fname' = [fname EXCEPT ![cons.i] = Len(fifos')]
  /\ cons' = [cons EXCEPT !.pc = "open"]
  /\ UNCHANGED <<kind, queues, qname, menu, received, disp, mishaps>>

\* Pipe i is done: the next one, or, behind the last one, next.
PastMut(c, next) == [c EXCEPT !.i = @ + 1]  \* there always is another one
Past(c, next) ==
  IF c.i + 1 \in Pipes THEN [c EXCEPT !.i = @ + 1, !.pc = IF @ = "write" THEN @ ELSE "make"]
  ELSE [c EXCEPT !.i = 1, !.pc = next]

\* At its end, also one by SIGPIPE, what the consumer has open is closed.
Gone == /\ cons' = NoConsumer
        /\ fifos' = [f \in DOMAIN fifos |-> [fifos[f] EXCEPT !.w = @ /\ f \notin Range(cons.fd)]]

\* open waits for the other side.
OpenPipe ==
  LET f == fname[cons.i]
      c == [cons EXCEPT !.fd[cons.i] = f, !.pc = "wait"]
  IN  /\ cons.pc = "open"
      /\ IF f = 0 THEN Gone /\ UNCHANGED disp
         ELSE /\ fifos' = [fifos EXCEPT ![f].w = TRUE]
              /\ cons' = IF fifos[f].r THEN Past(c, "receive") ELSE c
              /\ disp' = IF fifos[f].r THEN [disp EXCEPT ![cons.i].pc = "read"] ELSE disp
      /\ UNCHANGED <<kind, queues, qname, menu, received, fname, mishaps>>

AfterLineMut(l) == "receive"                \* "QUIT" compared with "quit"
AfterLine(l) == IF Quits(l) THEN "unlink" ELSE "receive"

Receive ==
  /\ cons.pc = "receive" /\ queues[cons.q] # << >>
  /\ LET l == Head(queues[cons.q])
     IN  /\ received' = [received EXCEPT ![Run] = Append(@, l)]
         /\ cons' = [cons EXCEPT !.pc = IF Pipes = {} THEN AfterLine(l) ELSE "write"]
  /\ queues' = [queues EXCEPT ![cons.q] = Tail(@)]
  /\ UNCHANGED <<kind, qname, menu, fifos, fname, disp, mishaps>>

\* write to each pipe in turn; a pipe without a reader ends the program.
Write ==
  LET l == Last(received[Run])
      f == cons.fd[cons.i]
  IN  /\ cons.pc = "write"
      /\ \/ /\ fifos[f].r
            /\ fifos' = [fifos EXCEPT ![f].lines = Append(@, l)]
            /\ cons' = Past(cons, AfterLine(l))
            /\ UNCHANGED mishaps
         \/ ~fifos[f].r /\ Gone /\ mishaps' = mishaps \cup {"broken"}
      /\ UNCHANGED <<kind, queues, qname, menu, received, fname, disp>>

UnlinkQueue ==
  /\ cons.pc = "unlink"
  /\ qname' = 0
  /\ cons' = [cons EXCEPT !.pc = "exit"]
  /\ UNCHANGED <<kind, queues, menu, received, fifos, fname, disp, mishaps>>

NamesLeftMut == fname                       \* the pipes are not unlinked
NamesLeft == [p \in 1..2 |-> IF p \in Pipes THEN 0 ELSE fname[p]]

ConsExit ==
  /\ cons.pc = "exit"
  /\ fname' = NamesLeft
  /\ Gone
  /\ UNCHANGED <<kind, queues, qname, menu, received, disp, mishaps>>

-----------------------------------------------------------------------------
(* The display at pipe p                                                   *)

\* It may come after another display has read from the same pipe.
DispOpen(p) ==
  LET f == fname[p]
      met == f # 0 /\ fifos[f].w
  IN  /\ disp[p].pc = "off" /\ f # 0
      /\ disp' = [disp EXCEPT ![p].pc = IF met THEN "read" ELSE "wait", ![p].fd = f]
      /\ fifos' = [fifos EXCEPT ![f].r = TRUE, ![f].used = TRUE]
      /\ cons' = IF cons.pc = "wait" /\ cons.fd[cons.i] = f THEN Past(cons, "receive") ELSE cons
      /\ mishaps' = mishaps \cup IF fifos[f].used THEN {"late"} ELSE {}
      /\ UNCHANGED <<kind, queues, qname, menu, received, fname>>

ShowMut(seen, l) == IF Quits(l) THEN seen ELSE Append(seen, l)  \* compared, then shown
Show(seen, l) == Append(seen, l)

\* Of the n lines that one read returns the first is shown.  It may return part
\* of one more, the rest of which is a line of text to the next read.
Read(p) ==
  LET f == disp[p].fd
      s == fifos[f].lines
  IN  /\ disp[p].pc = "read" /\ s # << >>
      /\ \E n \in 1..Len(s), cut \in BOOLEAN :
           /\ cut => n < Len(s)
           /\ LET rest == SubSeq(s, n + 1, Len(s))
              IN  fifos' = [fifos EXCEPT ![f].lines =
                              IF cut THEN [rest EXCEPT ![1].word = "text"] ELSE rest]
           /\ mishaps' = mishaps \cup IF n > 1 \/ cut THEN {"merged"} ELSE {}
      /\ disp' = [disp EXCEPT ![p].shown = Show(@, Head(s)),
                              ![p].pc = IF Quits(Head(s)) THEN "end" ELSE @]
      /\ UNCHANGED <<kind, queues, qname, menu, cons, received, fname>>

\* At the end of the file the old buffer is shown again, for ever.
ReadEnd(p) ==
  /\ disp[p].pc = "read" /\ fifos[disp[p].fd].lines = << >> /\ ~fifos[disp[p].fd].w
  /\ disp' = [disp EXCEPT ![p].again = TRUE]
  /\ UNCHANGED <<kind, queues, qname, menu, cons, received, fifos, fname, mishaps>>

\* It unlinks the name, whatever that stands for by now.
DispEnd(p) ==
  /\ disp[p].pc = "end"
  /\ fifos' = [fifos EXCEPT ![disp[p].fd].r = FALSE]
  /\ fname' = [fname EXCEPT ![p] = 0]
  /\ mishaps' = mishaps \cup IF fname[p] \in {0, disp[p].fd} THEN {} ELSE {"crossed"}
  /\ disp' = [disp EXCEPT ![p] = NoDisplay]
  /\ UNCHANGED <<kind, queues, qname, menu, cons, received>>

\* by its user
Kill(p) ==
  /\ disp[p].pc # "off"
  /\ fifos' = [fifos EXCEPT ![disp[p].fd].r = FALSE]
  /\ disp' = [disp EXCEPT ![p] = NoDisplay]
  /\ mishaps' = mishaps \cup {"killed"}
  /\ UNCHANGED <<kind, queues, qname, menu, cons, received, fname>>

-----------------------------------------------------------------------------
ConsStep == MakePipe \/ OpenPipe \/ Receive \/ Write \/ UnlinkQueue \/ ConsExit
DispStep(p) == Read(p) \/ ReadEnd(p) \/ DispEnd(p)

Next ==
  \/ MenuStart \/ MenuSend
  \/ ConsStart \/ ConsStep
  \/ \E p \in Pipes : DispOpen(p) \/ DispStep(p) \/ Kill(p)

Spec == Init /\ [][Next]_vars

\* A program that can go on does.  Nobody has to type, to start or to kill one.
FairSpec == Spec /\ WF_vars(ConsStep) /\ \A p \in 1..2 : WF_vars(p \in Pipes /\ DispStep(p))

-----------------------------------------------------------------------------
Lines == [nr : 1..MaxLines, word : Words]

\* The values every variable ranges over; no queue is longer than it may be.
TypeOK ==
  /\ kind \in Kinds
  /\ \A q \in DOMAIN queues : queues[q] \in Seq(Lines) /\ Len(queues[q]) <= MAX_MSG_COUNT
  /\ qname \in 0..Len(queues)
  /\ menu \in [on : BOOLEAN, q : 0..Len(queues), typed : 0..MaxLines]
  /\ cons.pc \in {"off", "make", "open", "wait", "receive", "write", "unlink", "exit"}
  /\ cons.i \in {1} \cup Pipes /\ cons.q \in 0..Len(queues)
  /\ {cons.fd[1], cons.fd[2], fname[1], fname[2]} \subseteq 0..Len(fifos)
  /\ \A r \in DOMAIN received : received[r] \in Seq(Lines)
  /\ \A f \in DOMAIN fifos :
       /\ fifos[f].lines \in Seq(Lines) /\ fifos[f].run \in 1..Run
       /\ {fifos[f].w, fifos[f].r, fifos[f].used} \subseteq BOOLEAN
  /\ \A p \in 1..2 :
       /\ disp[p].pc \in {"off", "wait", "read", "end"}
       /\ disp[p].fd \in 0..Len(fifos) /\ disp[p].shown \in Seq(Lines)
  /\ mishaps \subseteq {"merged", "late", "crossed", "killed", "broken"}

\* A display never goes back.  If no read has returned two lines, no display was
\* killed and none came late it shows what its compute received, line by line,
\* never shows a line again, and has shown all of it when it ends.
NothingMissed ==
  \A p \in Pipes :
    LET d == disp[p]
    IN  /\ \A j \in 2..Len(d.shown) : d.shown[j - 1].nr < d.shown[j].nr
        /\ d.pc \in {"read", "end"} /\ mishaps = {} =>
             /\ IsPrefix(d.shown, received[fifos[d.fd].run])
             /\ ~d.again
             /\ d.pc = "end" => d.shown = received[fifos[d.fd].run]

\* Who waits in open waits for somebody who can still come: its pipe has its
\* name, unless a display has unlinked the pipe of a later run, or compute was
\* ended by SIGPIPE and has left its pipes behind.
Rendezvous ==
  \/ mishaps \cap {"crossed", "broken"} # {}
  \/ /\ cons.pc = "wait" => fname[cons.i] = cons.fd[cons.i]
     /\ \A p \in Pipes : disp[p].pc = "wait" => fname[p] = disp[p].fd

\* When all are connected a quit line ends the consumer and its displays.
QuitEnds ==
  \A r \in 1..MaxRuns :
    /\ Run = r /\ cons.pc \in {"receive", "write", "unlink", "exit"}
    /\ \E l \in Range(queues[cons.q] \o received[r]) : Quits(l)
    ~> \/ mishaps # {}
       \/ /\ Run > r \/ cons.pc = "off"
          /\ \A p \in Pipes : disp[p].pc = "off" \/ fifos[disp[p].fd].run # r
=============================================================================

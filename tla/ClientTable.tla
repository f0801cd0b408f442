---------------------------- MODULE ClientTable -----------------------------
(***************************************************************************)
(* The clients of ChatServer/server.c: a thread per connection, the table  *)
(* clientfds of the clients that have given their name, and the broadcast  *)
(* that writes a line to all of them under clientfd_mutex.  The table of   *)
(* ShellServerThreaded/shell.c is the same code.                           *)
(*                                                                         *)
(* A table entry points to the client_t on the stack of its thread, and a  *)
(* client_t holds the number of a descriptor, which the kernel gives to    *)
(* the next connection once it is closed.  remove_client closes it, and    *)
(* the thread closes it once more.                                         *)
(*                                                                         *)
(* The kernel takes what is written to a client that has left, until its   *)
(* reset has come; from then on a write raises SIGPIPE, which nothing      *)
(* catches, and the server ends.                                           *)
(***************************************************************************)
EXTENDS Integers, FiniteSets, FiniteSetsExt

CONSTANTS
  Connections, \* bound: how many connections there are
  MAXCLIENTS,  \* the length of the table
  MaxLines,    \* bound: the lines that are read, names not counted
  NULL, Nobody

ASSUME TableAssumption ==
  /\ Connections \in Nat
  /\ MAXCLIENTS \in Nat \ {0} /\ MaxLines \in Nat
  /\ NULL \notin Nat /\ Nobody \notin Nat

VARIABLES
  clientfds,   \* the table
  aktclients,  \* the entries in use
  mutex,       \* who holds clientfd_mutex
  pc,
  sock,        \* the descriptor number each thread works with
  files,       \* the connection each descriptor number stands for
  src,         \* the connection a thread is blocked on in read
  gone,        \* the clients that have closed their end
  i,           \* the loop variable of tell_all_clients
  saying,      \* the number of the line each thread tells
  told,        \* the lines told so far
  heard,       \* the last line that was written to each connection
  lines,
  refused,     \* the threads whose insert_client returned 0
  fate         \* "runs", "killed" by SIGPIPE, or "wild": memory outside the
               \* table has been written

table == <<clientfds, aktclients>>
vars == <<clientfds, aktclients, mutex, pc, sock, files, src, gone, i, saying,
          told, heard, lines, refused, fate>>

\* A connection, and the thread that handles it, is known by when it came.
Clients == 1..Connections
Numbers == 1..Connections
Slots == 0..MAXCLIENTS - 1

Init ==
  /\ clientfds = [s \in Slots |-> NULL]
  /\ aktclients = 0
  /\ mutex = Nobody
  /\ pc = [c \in Clients |-> "off"]
  /\ sock = [c \in Clients |-> 1]
  /\ files = [n \in Numbers |-> Nobody]
  /\ src = [c \in Clients |-> Nobody]
  /\ gone = {} /\ refused = {}
  /\ i = [c \in Clients |-> 0]
  /\ saying = [c \in Clients |-> 0]
  /\ told = 0 /\ lines = 0
  /\ heard = [c \in Clients |-> 0]
  /\ fate = "runs"

Goto(c, l) == pc' = [pc EXCEPT ![c] = l]

LockedMut == FALSE                          \* nobody waits for the mutex
Locked == mutex # Nobody

-----------------------------------------------------------------------------
\* main: a connection gets the lowest free descriptor, and a thread.
Accept(c) ==
  LET free == {n \in Numbers : files[n] = Nobody}
  IN  /\ pc[c] = "off" /\ \A b \in Clients : b < c => pc[b] # "off"
      /\ free # {}
      /\ sock' = [sock EXCEPT ![c] = Min(free)]
      /\ files' = [files EXCEPT ![Min(free)] = c]
      /\ Goto(c, "greet")
      /\ UNCHANGED <<table, mutex, src, gone, i, saying, told, heard, lines, refused>>

\* The far end closes its connection.
Leave(c) ==
  /\ pc[c] # "off" /\ c \notin gone
  /\ gone' = gone \cup {c}
  /\ UNCHANGED <<table, mutex, pc, sock, files, src, i, saying, told, heard, lines, refused>>

\* The prompt goes out first.  read of a descriptor that was closed fails at once.
ReadCall(c) ==
  /\ pc[c] \in {"greet", "read"}
  /\ files[sock[c]] = Nobody => pc[c] = "read"   \* the greeting loop repeats
  /\ src' = [src EXCEPT ![c] = files[sock[c]]]
  /\ Goto(c, IF files[sock[c]] = Nobody THEN "remove"
             ELSE IF pc[c] = "greet" THEN "greeting" ELSE "reading")
  /\ UNCHANGED <<table, mutex, sock, files, gone, i, saying, told, heard, lines, refused>>

\* It returns what that connection sent,
ReadData(c) ==
  /\ src[c] # Nobody /\ src[c] \notin gone
  /\ \/ pc[c] = "greeting" /\ Goto(c, "insert") /\ UNCHANGED lines
     \/ /\ pc[c] = "reading" /\ lines < MaxLines
        /\ lines' = lines + 1
        /\ Goto(c, "tell")
  /\ src' = [src EXCEPT ![c] = Nobody]
  /\ UNCHANGED <<table, mutex, sock, files, gone, i, saying, told, heard, refused>>

AfterEnd(c) == IF pc[c] = "greeting" THEN "greet" ELSE "remove"

\* or 0 when its far end is closed.
ReadEnd(c) ==
  /\ src[c] \in gone
  /\ Goto(c, AfterEnd(c))
  /\ src' = [src EXCEPT ![c] = Nobody]
  /\ UNCHANGED <<table, mutex, sock, files, gone, i, saying, told, heard, lines, refused>>

-----------------------------------------------------------------------------
AfterRefusalMut(c) == c                     \* returns without an unlock
AfterRefusal(c) == Nobody

FullMut == aktclients > MAXCLIENTS          \* > for >=
Full == aktclients >= MAXCLIENTS

\* The result of insert_client is not looked at.
InsertClient(c) ==
  /\ pc[c] = "insert" /\ ~Locked
  /\ \/ /\ Full
        /\ refused' = refused \cup {c}
        /\ mutex' = AfterRefusal(c)
        /\ UNCHANGED table
     \/ /\ ~Full
        /\ clientfds' = [clientfds EXCEPT ![aktclients] = c]
        /\ aktclients' = aktclients + 1
        /\ UNCHANGED <<refused, mutex>>
  /\ Goto(c, "tell")
  /\ UNCHANGED <<sock, files, src, gone, i, saying, told, heard, lines>>

Found(c) == {s \in Slots : s < aktclients /\ clientfds[s] = c}

\* The last entry takes the place of the removed one; when there is none to
\* remove it is cleared all the same.
CompactMut(c) == [clientfds EXCEPT ![aktclients - 1] = NULL]  \* it is not moved
Compact(c) ==
  [s \in Slots |-> IF s = aktclients - 1 THEN NULL
                   ELSE IF s \in Found(c) THEN clientfds[aktclients - 1]
                   ELSE clientfds[s]]

RemoveClient(c) ==
  /\ pc[c] = "remove" /\ ~Locked
  /\ aktclients > 0
  /\ clientfds' = Compact(c)
  /\ aktclients' = aktclients - 1
  /\ files' = IF Found(c) = {} THEN files ELSE [files EXCEPT ![sock[c]] = Nobody]
  /\ Goto(c, "close")
  /\ UNCHANGED <<mutex, sock, src, gone, i, saying, told, heard, lines, refused>>

\* With no entry left it writes clientfds[-1], which is somebody else's.
WriteOutside(c) ==
  /\ pc[c] = "remove" /\ ~Locked
  /\ aktclients <= 0
  /\ fate' = "wild"
  /\ UNCHANGED <<table, mutex, pc, sock, files, src, gone, i, saying, told, heard,
                 lines, refused>>

\* The close at the end of clienthandler
Close(c) ==
  /\ pc[c] = "close"
  /\ files' = [files EXCEPT ![sock[c]] = Nobody]
  /\ Goto(c, "ended")
  /\ UNCHANGED <<table, mutex, sock, src, gone, i, saying, told, heard, lines, refused>>

-----------------------------------------------------------------------------
(* tell_all_clients                                                        *)

TellLock(c) ==
  /\ pc[c] = "tell" /\ ~Locked
  /\ mutex' = c
  /\ told' = told + 1
  /\ saying' = [saying EXCEPT ![c] = told']
  /\ i' = [i EXCEPT ![c] = 0]
  /\ Goto(c, "telling")
  /\ UNCHANGED <<table, sock, files, src, gone, heard, lines, refused>>

\* Whom the next write of a thread is for: the prompt, or a line of a broadcast
WritesTo(c) ==
  IF pc[c] = "greet" THEN files[sock[c]]
  ELSE IF pc[c] = "telling" /\ i[c] < aktclients THEN files[sock[clientfds[i[c]]]]
  ELSE Nobody

\* A write to a descriptor that was closed in the meantime is lost, and so is
\* one to a client that has left, as long as its reset has not come.
TellOne(c) ==
  LET to == WritesTo(c)
  IN  /\ pc[c] = "telling" /\ i[c] < aktclients
      /\ heard' = IF to = Nobody THEN heard ELSE [heard EXCEPT ![to] = saying[c]]
      /\ i' = [i EXCEPT ![c] = @ + 1]
      /\ UNCHANGED <<table, mutex, pc, sock, files, src, gone, saying, told, lines, refused>>

SigPipe(c) ==
  /\ WritesTo(c) \in gone
  /\ fate' = "killed"
  /\ UNCHANGED <<table, mutex, pc, sock, files, src, gone, i, saying, told, heard,
                 lines, refused>>

TellUnlock(c) ==
  /\ pc[c] = "telling" /\ i[c] >= aktclients
  /\ mutex' = Nobody
  /\ i' = [i EXCEPT ![c] = 0] /\ saying' = [saying EXCEPT ![c] = 0]   \* dead
  /\ Goto(c, "read")
  /\ UNCHANGED <<table, sock, files, src, gone, told, heard, lines, refused>>

-----------------------------------------------------------------------------
Handle(c) ==
  \/ /\ \/ ReadCall(c) \/ ReadEnd(c)
        \/ InsertClient(c) \/ RemoveClient(c) \/ Close(c)
        \/ TellLock(c) \/ TellOne(c) \/ TellUnlock(c)
     /\ UNCHANGED fate
  \/ SigPipe(c) \/ WriteOutside(c)

Next ==
  /\ fate = "runs"
  /\ \E c \in Clients :
       \/ (Accept(c) \/ Leave(c) \/ ReadData(c)) /\ UNCHANGED fate
       \/ Handle(c)

Spec == Init /\ [][Next]_vars

\* A thread that can run does, and the far ends take what is written to them;
\* nothing makes them connect, send or leave.  A thread does not write to
\* clients that have left for ever: one day the reset has come.
FairSpec ==
  Spec /\ \A c \in Clients : /\ WF_vars(fate = "runs" /\ Handle(c))
                            /\ SF_vars(fate = "runs" /\ SigPipe(c))

-----------------------------------------------------------------------------
PCs == {"off", "greet", "greeting", "insert", "tell", "telling", "read", "reading",
        "remove", "close", "ended"}
\* The thread of c is past its insert_client and not past its remove_client.
Present(c) == pc[c] \in {"tell", "telling", "read", "reading", "remove"}
Entries == {clientfds[s] : s \in {t \in Slots : t < aktclients}}

\* The values every variable ranges over.
TypeOK ==
  /\ clientfds \in [Slots -> Clients \cup {NULL}]
  /\ aktclients \in 0..MAXCLIENTS
  /\ mutex \in Clients \cup {Nobody}
  /\ pc \in [Clients -> PCs]
  /\ sock \in [Clients -> Numbers]
  /\ files \in [Numbers -> Clients \cup {Nobody}]
  /\ src \in [Clients -> Clients \cup {Nobody}]
  /\ gone \subseteq Clients /\ refused \subseteq Clients
  /\ i \in [Clients -> 0..MAXCLIENTS]
  /\ saying \in [Clients -> 0..told]
  /\ told \in Nat /\ lines \in 0..MaxLines
  /\ heard \in [Clients -> 0..told]
  /\ fate \in {"runs", "killed", "wild"}

\* No entry below aktclients is NULL, stands twice, or points to the stack of
\* a thread that has ended: tell_all_clients follows every one of them.
NoDanglingClient ==
  /\ Entries \subseteq {c \in Clients : Present(c)}
  /\ Cardinality(Entries) = aktclients

\* As long as no refused client has left the table holds exactly the clients
\* that have joined and not left.  Each one that leaves costs an entry, and the
\* memory before the table is written only when there was one.
TableComplete ==
  LET left == {c \in refused : pc[c] \in {"close", "ended"}}
      joined == {c \in Clients \ refused : Present(c)}
  IN  /\ left = {} => Entries = joined
      /\ aktclients = Cardinality(joined) - Cardinality(left)
      /\ fate = "wild" => refused # {}

\* Lines reach every connection in the order they were told in: a broadcast is
\* not mixed with another one, even where descriptors were reused.
OneOrder == [][\A c \in Clients : heard[c] <= heard'[c]]_vars

\* When every connected client has closed its end, their threads all end, unless
\* a write to one of them ends the server first: also the threads that still ask
\* for a name.  Only one whose descriptor another thread has closed asks for ever.
EverybodyLeaves ==
  (\A c \in Clients : pc[c] = "off" \/ c \in gone)
    ~> \/ fate # "runs"
       \/ \A c \in Clients :
            \/ pc[c] \in {"off", "ended"}
            \/ pc[c] = "greet" /\ files[sock[c]] = Nobody
       \/ \E c \in Clients : pc[c] # "off" /\ c \notin gone
=============================================================================

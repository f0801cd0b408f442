------------------------- MODULE ClientTableProofs --------------------------
(***************************************************************************)
(* The table of ChatServer keeps its promises for any number of            *)
(* connections, lines and places in the table.                             *)
(***************************************************************************)
EXTENDS ClientTable, FiniteSetTheorems, FunctionTheorems, TLAPS

Early == {"off", "greet", "greeting", "insert"}
InTable == {"tell", "telling", "read", "reading", "remove"}
Late == {"close", "ended"}

\* A thread that is blocked is in one of its reads.
Blocked == \A c \in Clients : src[c] # Nobody => pc[c] \in {"greeting", "reading"}

\* Every entry in use is a thread that is there, and no two are the same.
EntriesThere ==
  \A s \in Slots : s < aktclients => clientfds[s] \in Clients /\ pc[clientfds[s]] \in InTable
EntriesDiffer ==
  \A s, t \in Slots :
    s < aktclients /\ t < aktclients /\ clientfds[s] = clientfds[t] => s = t

\* Who was refused had asked.
RefusedAsked == \A c \in refused : pc[c] \in InTable \cup Late

Left == {c \in refused : pc[c] \in Late}
Joined == {c \in Clients \ refused : pc[c] \in InTable}
Counted ==
  /\ Left = {} => Entries = Joined
  /\ aktclients = Cardinality(Joined) - Cardinality(Left)
  /\ fate = "wild" => refused # {}

IInv == TypeOK /\ Blocked /\ EntriesThere /\ EntriesDiffer /\ RefusedAsked /\ Counted

\* Sets of clients can be counted.
LEMMA ClientsFinite ==
  /\ IsFiniteSet(Clients)
  /\ \A S \in SUBSET Clients : IsFiniteSet(S) /\ Cardinality(S) \in Nat
<1>1. IsFiniteSet(Clients)
  BY FS_Interval, TableAssumption DEF Clients
<1>2. QED
  BY <1>1, FS_Subset, FS_CardinalityType

\* The lowest of some numbers is one of them.
LEMMA LowestFree ==
  ASSUME NEW S \in SUBSET Numbers, S # {}
  PROVE  Min(S) \in S
<1>1. S \in SUBSET Nat
  BY TableAssumption DEF Numbers
<1>2. \E x \in S : \A y \in S : x <= y
  <2>1. PICK x \in S : \A y \in S : ~(<<y, x>> \in OpToRel(<, Nat))
    BY <1>1, NatLessThanWellFounded, WFMin
  <2>2. \A y \in S : ~(y < x)
    BY <1>1, <2>1 DEF OpToRel
  <2>3. QED
    BY <1>1, <2>2
<1>3. QED
  BY <1>2 DEF Min

\* An empty table and no thread satisfy the invariant.
LEMMA InitInv == Init => IInv
<1> SUFFICES ASSUME Init PROVE IInv
    OBVIOUS
<1>1. TypeOK
  <2>1. Clients \subseteq Nat /\ \A c \in Clients : 1 \in Numbers
    BY TableAssumption DEF Clients, Numbers
  <2>2. clientfds \in [Slots -> Clients \cup {NULL}] /\ aktclients \in 0..MAXCLIENTS
    BY TableAssumption DEF Init
  <2>3. sock \in [Clients -> Numbers] /\ files \in [Numbers -> Clients \cup {Nobody}]
    BY <2>1 DEF Init
  <2>4. pc \in [Clients -> PCs]
    BY DEF Init, PCs
  <2>5. /\ i \in [Clients -> 0..MAXCLIENTS]
        /\ saying \in [Clients -> 0..told] /\ heard \in [Clients -> 0..told]
    BY TableAssumption DEF Init
  <2>6. /\ src \in [Clients -> Clients \cup {Nobody}]
        /\ mutex \in Clients \cup {Nobody}
        /\ gone \subseteq Clients /\ refused \subseteq Clients
    BY DEF Init
  <2>7. told \in Nat /\ lines \in 0..MaxLines
    BY TableAssumption DEF Init
  <2>8. fate \in {"runs", "killed", "wild"}
    BY DEF Init
  <2>9. QED
    BY <2>2, <2>3, <2>4, <2>5, <2>6, <2>7, <2>8 DEF TypeOK
<1>2. Blocked /\ EntriesThere /\ EntriesDiffer /\ RefusedAsked
  BY TableAssumption DEF Init, Blocked, EntriesThere, EntriesDiffer, RefusedAsked, Slots
<1>3. Counted
  <2>1. Left = {} /\ Joined = {} /\ Entries = {}
    BY TableAssumption DEF Init, Left, Joined, Entries, Slots, InTable
  <2>2. QED
    BY <2>1, FS_EmptySet DEF Init, Counted
<1>4. QED
  BY <1>1, <1>2, <1>3 DEF IInv

-----------------------------------------------------------------------------
(* The types.                                                              *)

\* A thread goes to one of its places.
LEMMA MoveType ==
  ASSUME TypeOK, NEW c \in Clients, NEW l \in PCs, Goto(c, l)
  PROVE  pc' \in [Clients -> PCs]
BY DEF TypeOK, Goto

\* Every step keeps the types; an index into the table stays inside it.
LEMMA NextType == IInv /\ [Next]_vars => TypeOK'
<1> SUFFICES ASSUME IInv, [Next]_vars PROVE TypeOK'
    OBVIOUS
<1> USE TableAssumption
<1>0. TypeOK
  BY DEF IInv
<1>1. ASSUME NEW c \in Clients, Accept(c), UNCHANGED fate PROVE TypeOK'
  <2>1. Min({n \in Numbers : files[n] = Nobody}) \in Numbers
    BY <1>1, LowestFree DEF Accept
  <2>2. "greet" \in PCs
    BY DEF PCs
  <2>3. QED
    BY <1>0, <1>1, <2>1, <2>2 DEF Accept, Goto, TypeOK, table
<1>2. ASSUME NEW c \in Clients, Leave(c), UNCHANGED fate PROVE TypeOK'
  BY <1>0, <1>2 DEF Leave, TypeOK, table
<1>3. ASSUME NEW c \in Clients, ReadData(c), UNCHANGED fate PROVE TypeOK'
  <2>1. "insert" \in PCs /\ "tell" \in PCs
    BY DEF PCs
  <2>2. QED
    BY <1>0, <1>3, <2>1 DEF ReadData, Goto, TypeOK, table
<1>4. ASSUME NEW c \in Clients, ReadCall(c), UNCHANGED fate PROVE TypeOK'
  <2>1. {"remove", "greeting", "reading"} \subseteq PCs
    BY DEF PCs
  <2>2. files[sock[c]] \in Clients \cup {Nobody}
    BY <1>0 DEF TypeOK
  <2>3. QED
    BY <1>0, <1>4, <2>1, <2>2 DEF ReadCall, Goto, TypeOK, table
<1>5. ASSUME NEW c \in Clients, ReadEnd(c), UNCHANGED fate PROVE TypeOK'
  <2>1. AfterEnd(c) \in PCs
    BY DEF PCs, AfterEnd
  <2>2. QED
    BY <1>0, <1>5, <2>1 DEF ReadEnd, Goto, TypeOK, table
<1>6. ASSUME NEW c \in Clients, InsertClient(c), UNCHANGED fate PROVE TypeOK'
  <2>1. "tell" \in PCs
    BY DEF PCs
  <2>2. CASE Full
    BY <1>0, <1>6, <2>1, <2>2 DEF InsertClient, AfterRefusal, Goto, TypeOK, table
  <2>3. CASE ~Full
    <3>1. aktclients \in Slots /\ aktclients + 1 \in 0..MAXCLIENTS
      BY <1>0, <2>3 DEF Full, Slots, TypeOK
    <3>2. QED
      BY <1>0, <1>6, <2>1, <2>3, <3>1 DEF InsertClient, Goto, TypeOK
  <2>4. QED
    BY <2>2, <2>3
<1>7. ASSUME NEW c \in Clients, RemoveClient(c), UNCHANGED fate PROVE TypeOK'
  <2>1. "close" \in PCs
    BY DEF PCs
  <2>2. aktclients - 1 \in Slots /\ aktclients - 1 \in 0..MAXCLIENTS
    BY <1>0, <1>7 DEF RemoveClient, Slots, TypeOK
  <2>3. clientfds' \in [Slots -> Clients \cup {NULL}]
    BY <1>0, <1>7, <2>2 DEF RemoveClient, Compact, TypeOK
  <2>4. files' \in [Numbers -> Clients \cup {Nobody}]
    BY <1>0, <1>7 DEF RemoveClient, TypeOK
  <2>5. QED
    BY <1>0, <1>7, <2>1, <2>2, <2>3, <2>4 DEF RemoveClient, Goto, TypeOK
<1>8. ASSUME NEW c \in Clients, Close(c), UNCHANGED fate PROVE TypeOK'
  <2>1. "ended" \in PCs
    BY DEF PCs
  <2>2. QED
    BY <1>0, <1>8, <2>1 DEF Close, Goto, TypeOK, table
<1>9. ASSUME NEW c \in Clients, TellLock(c), UNCHANGED fate PROVE TypeOK'
  <2>1. "telling" \in PCs
    BY DEF PCs
  <2>2. told' \in Nat /\ told' = told + 1
    BY <1>0, <1>9 DEF TellLock, TypeOK
  <2>3. saying' \in [Clients -> 0..told'] /\ heard' \in [Clients -> 0..told']
    BY <1>0, <1>9, <2>2 DEF TellLock, TypeOK
  <2>4. QED
    BY <1>0, <1>9, <2>1, <2>2, <2>3 DEF TellLock, Goto, TypeOK, table
<1>10. ASSUME NEW c \in Clients, TellOne(c), UNCHANGED fate PROVE TypeOK'
  <2>1. i[c] \in Slots /\ i[c] + 1 \in 0..MAXCLIENTS
    BY <1>0, <1>10 DEF TellOne, Slots, TypeOK
  <2>2. clientfds[i[c]] \in Clients
    BY <1>10, <2>1 DEF TellOne, IInv, EntriesThere
  <2>3. files[sock[clientfds[i[c]]]] \in Clients \cup {Nobody}
    BY <1>0, <2>2 DEF TypeOK
  <2>4. heard' \in [Clients -> 0..told]
    BY <1>0, <1>10, <2>3 DEF TellOne, TypeOK
  <2>5. QED
    BY <1>0, <1>10, <2>1, <2>4 DEF TellOne, TypeOK, table
<1>11. ASSUME NEW c \in Clients, TellUnlock(c), UNCHANGED fate PROVE TypeOK'
  <2>1. "read" \in PCs
    BY DEF PCs
  <2>2. saying' \in [Clients -> 0..told] /\ i' \in [Clients -> 0..MAXCLIENTS]
    BY <1>0, <1>11 DEF TellUnlock, TypeOK
  <2>3. QED
    BY <1>0, <1>11, <2>1, <2>2 DEF TellUnlock, Goto, TypeOK, table
<1>12. ASSUME NEW c \in Clients, WriteOutside(c) PROVE TypeOK'
  BY <1>0, <1>12 DEF WriteOutside, TypeOK, table
<1>13. CASE UNCHANGED vars
  BY <1>0, <1>13 DEF vars, table, TypeOK
<1>14. ASSUME NEW c \in Clients, SigPipe(c) PROVE TypeOK'
  BY <1>0, <1>14 DEF SigPipe, TypeOK, table
<1>15. QED
  BY <1>1, <1>2, <1>3, <1>4, <1>5, <1>6, <1>7, <1>8, <1>9, <1>10, <1>11, <1>12, <1>13,
     <1>14 DEF Next, Handle

-----------------------------------------------------------------------------
(* The table.                                                              *)

\* A step that leaves the table alone, and every thread on the side of its
\* insert_client and its remove_client where it was, keeps the invariant.
LEMMA QuietStep ==
  ASSUME IInv, TypeOK', UNCHANGED <<clientfds, aktclients, refused>>,
         \A d \in Clients : (pc'[d] \in InTable <=> pc[d] \in InTable),
         \A d \in Clients : (pc'[d] \in Late <=> pc[d] \in Late),
         Blocked', fate' = "wild" => refused # {}
  PROVE  IInv'
<1>1. EntriesThere' /\ EntriesDiffer'
  BY DEF IInv, EntriesThere, EntriesDiffer
<1>2. refused \subseteq Clients
  BY DEF IInv, TypeOK
<1>3. RefusedAsked'
  BY <1>2 DEF IInv, RefusedAsked
<1>4. Left' = Left /\ Joined' = Joined /\ Entries' = Entries
  BY <1>2 DEF Left, Joined, Entries
<1>5. Counted'
  BY <1>4 DEF IInv, Counted
<1>6. QED
  BY <1>1, <1>3, <1>5 DEF IInv

\* The same for a step that moves the thread of one client.
LEMMA QuietMove ==
  ASSUME IInv, TypeOK', UNCHANGED <<clientfds, aktclients, refused, fate>>,
         NEW c \in Clients, NEW l, Goto(c, l),
         l \in InTable <=> pc[c] \in InTable, l \in Late <=> pc[c] \in Late,
         Blocked'
  PROVE  IInv'
<1>1. pc \in [Clients -> PCs]
  BY DEF IInv, TypeOK
<1>2. \A d \in Clients : pc'[d] = IF d = c THEN l ELSE pc[d]
  BY <1>1 DEF Goto
<1>3. fate' = "wild" => refused # {}
  BY DEF IInv, Counted
<1>4. QED
  BY <1>2, <1>3, QuietStep

\* Blocked survives a move of a thread that is not blocked, or no longer.
LEMMA MoveBlocked ==
  ASSUME TypeOK, Blocked, NEW c \in Clients, NEW l, Goto(c, l),
         \/ src' = [src EXCEPT ![c] = Nobody]
         \/ src' = src /\ pc[c] \notin {"greeting", "reading"}
  PROVE  Blocked'
BY DEF TypeOK, Blocked, Goto

-----------------------------------------------------------------------------
(* insert_client.                                                          *)

\* A new entry is a thread that was not in the table, a refusal changes nothing.
LEMMA InsertStep ==
  ASSUME IInv, TypeOK', NEW c \in Clients, InsertClient(c), UNCHANGED fate
  PROVE  IInv'
<1> USE TableAssumption
<1>0. TypeOK /\ pc[c] = "insert" /\ c \notin refused
  BY DEF IInv, RefusedAsked, InTable, Late, InsertClient
<1>1. \A d \in Clients : pc'[d] = IF d = c THEN "tell" ELSE pc[d]
  BY <1>0 DEF InsertClient, Goto, TypeOK
<1>2. Blocked'
  BY <1>0, <1>1 DEF IInv, Blocked, InsertClient
<1>3. c \notin Joined
  BY <1>0 DEF Joined, InTable
<1>4. refused \subseteq Clients
  BY <1>0 DEF TypeOK
<1>5. CASE Full /\ refused' = refused \cup {c} /\ UNCHANGED table
  <2>1. EntriesThere' /\ EntriesDiffer'
    BY <1>1, <1>5 DEF IInv, EntriesThere, EntriesDiffer, InTable, table
  <2>2. RefusedAsked'
    BY <1>1, <1>4, <1>5 DEF IInv, RefusedAsked, InTable
  <2>3. Left' = Left
    BY <1>0, <1>1, <1>4, <1>5 DEF Left, Late
  <2>4. Joined' = Joined
    BY <1>0, <1>1, <1>5 DEF Joined, InTable
  <2>5. Entries' = Entries
    BY <1>5 DEF Entries, table
  <2>6. Counted'
    BY <1>5, <2>3, <2>4, <2>5 DEF IInv, Counted, table
  <2>7. QED
    BY <1>2, <2>1, <2>2, <2>6 DEF IInv
<1>6. CASE /\ ~Full /\ refused' = refused /\ aktclients' = aktclients + 1
           /\ clientfds' = [clientfds EXCEPT ![aktclients] = c]
  <2>1. aktclients \in Slots /\ aktclients \in Nat
    BY <1>0, <1>6 DEF Full, Slots, TypeOK
  <2>2. \A s \in Slots : clientfds'[s] = IF s = aktclients THEN c ELSE clientfds[s]
    BY <1>0, <1>6, <2>1 DEF TypeOK
  <2>3. \A s \in Slots : s < aktclients' <=> (s < aktclients \/ s = aktclients)
    BY <1>6, <2>1 DEF Slots
  <2>4. \A s \in Slots : s < aktclients => s # aktclients /\ clientfds[s] \in Clients
                                            /\ pc[clientfds[s]] \in InTable
    BY <2>1 DEF IInv, EntriesThere, Slots
  <2>5. \A s \in Slots : s < aktclients => clientfds[s] # c
    BY <1>0, <2>4 DEF InTable
  <2>6. EntriesThere'
    BY <1>1, <2>2, <2>3, <2>4 DEF EntriesThere, InTable
  <2>7. EntriesDiffer'
    BY <2>2, <2>3, <2>4, <2>5 DEF IInv, EntriesDiffer
  <2>8. RefusedAsked'
    BY <1>0, <1>1, <1>4, <1>6 DEF IInv, RefusedAsked
  <2>9. Left' = Left
    BY <1>0, <1>1, <1>4, <1>6 DEF Left
  <2>10. Joined' = Joined \cup {c}
    BY <1>0, <1>1, <1>6 DEF Joined, InTable
  <2>11. Entries' = Entries \cup {c}
    BY <2>1, <2>2, <2>3, <2>4 DEF Entries
  <2>12. Cardinality(Joined') = Cardinality(Joined) + 1
    BY <1>3, <2>10, ClientsFinite, FS_AddElement DEF Joined
  <2>13. Cardinality(Joined) \in Nat /\ Cardinality(Left) \in Nat
    BY <1>4, ClientsFinite DEF Joined, Left
  <2>14. Counted'
    BY <1>6, <2>9, <2>10, <2>11, <2>12, <2>13 DEF IInv, Counted
  <2>15. QED
    BY <1>2, <2>6, <2>7, <2>8, <2>14 DEF IInv
<1>7. QED
  BY <1>5, <1>6 DEF InsertClient

-----------------------------------------------------------------------------
(* remove_client.                                                          *)

\* The removed entry is that of the thread that ends, unless it was refused: then
\* the last one is lost, which is what Counted allows.
LEMMA RemoveStep ==
  ASSUME IInv, TypeOK', NEW c \in Clients, RemoveClient(c), UNCHANGED fate
  PROVE  IInv'
<1> USE TableAssumption
<1>0. TypeOK /\ pc[c] = "remove" /\ refused' = refused /\ refused \subseteq Clients
  BY DEF IInv, TypeOK, RemoveClient
<1>1. \A d \in Clients : pc'[d] = IF d = c THEN "close" ELSE pc[d]
  BY <1>0 DEF RemoveClient, Goto, TypeOK
<1>2. Blocked'
  BY <1>0, <1>1 DEF IInv, Blocked, RemoveClient
<1>3. RefusedAsked'
  BY <1>0, <1>1 DEF IInv, RefusedAsked, Late
<1> DEFINE last == aktclients - 1
<1>4. /\ last \in Slots /\ aktclients' = last /\ aktclients \in Nat
      /\ \A s \in Slots : s \in Nat /\ (s < last <=> s < aktclients /\ s # last)
      /\ last < aktclients
  BY <1>0 DEF TypeOK, RemoveClient, Slots
<1>5. \A s \in Slots :
        clientfds'[s] = IF s = last THEN NULL
                        ELSE IF s < aktclients /\ clientfds[s] = c THEN clientfds[last]
                        ELSE clientfds[s]
  BY DEF RemoveClient, Compact, Found
<1> HIDE DEF last
<1>6. \A s \in Slots : s < aktclients => clientfds[s] \in Clients /\ pc[clientfds[s]] \in InTable
  BY DEF IInv, EntriesThere
<1>7. \A s, t \in Slots :
        s < aktclients /\ t < aktclients /\ clientfds[s] = clientfds[t] => s = t
  BY DEF IInv, EntriesDiffer
<1>8. \A s \in Slots : s < aktclients' => clientfds'[s] # c
  BY <1>4, <1>5, <1>7
<1>9. EntriesThere'
  <2>1. \A s \in Slots : s < aktclients' => clientfds'[s] \in Clients /\ pc[clientfds'[s]] \in InTable
    BY <1>4, <1>5, <1>6
  <2>2. QED
    BY <2>1, <1>1, <1>8 DEF EntriesThere
<1>10. EntriesDiffer'
  BY <1>4, <1>5, <1>7 DEF EntriesDiffer
<1>11. Cardinality(Joined) \in Nat /\ Cardinality(Left) \in Nat
  BY <1>0, ClientsFinite DEF Joined, Left
<1>12. CASE c \in refused
  <2>1. Joined' = Joined
    BY <1>0, <1>1, <1>12 DEF Joined
  <2>2. Left' = Left \cup {c} /\ c \notin Left
    BY <1>0, <1>1, <1>12 DEF Left, Late
  <2>3. Cardinality(Left') = Cardinality(Left) + 1
    BY <1>0, <2>2, ClientsFinite, FS_AddElement DEF Left
  <2>4. Left' # {}
    BY <2>2
  <2>5. Counted'
    BY <1>0, <1>4, <1>11, <2>1, <2>3, <2>4 DEF IInv, Counted, last
  <2>6. QED
    BY <1>2, <1>3, <1>9, <1>10, <2>5 DEF IInv
<1>13. CASE c \notin refused
  <2>1. Left' = Left
    BY <1>0, <1>1, <1>13 DEF Left
  <2>2. Joined' = Joined \ {c} /\ c \in Joined
    BY <1>0, <1>1, <1>13 DEF Joined, InTable
  <2>3. Cardinality(Joined') = Cardinality(Joined) - 1
    <3>1. IsFiniteSet(Joined)
      BY ClientsFinite DEF Joined
    <3>2. Cardinality(Joined \ {c}) = Cardinality(Joined) - 1
      BY <2>2, <3>1, FS_RemoveElement
    <3>3. QED
      BY <2>2, <3>2
  <2>4. ASSUME Left = {} PROVE Entries' = Entries \ {c}
    <3>1. PICK f \in Slots : f < aktclients /\ clientfds[f] = c
      BY <2>2, <2>4 DEF IInv, Counted, Entries
    <3>2. \A s \in Slots : s < aktclients /\ clientfds[s] = c => s = f
      BY <1>7, <3>1
    <3>3. Entries' \subseteq Entries \ {c}
      BY <1>4, <1>5, <1>8 DEF Entries
    <3>4. Entries \ {c} \subseteq Entries'
      <4>1. SUFFICES ASSUME NEW s \in Slots, s < aktclients, clientfds[s] # c
                     PROVE  clientfds[s] \in Entries'
        BY DEF Entries
      <4>2. CASE s = last
        <5>1. f # last /\ f < aktclients' /\ clientfds'[f] = clientfds[last]
          BY <1>4, <1>5, <3>1, <4>1, <4>2
        <5>2. QED
          BY <4>2, <5>1 DEF Entries
      <4>3. CASE s # last
        <5>1. s < aktclients' /\ clientfds'[s] = clientfds[s]
          BY <1>4, <1>5, <4>1, <4>3
        <5>2. QED
          BY <5>1 DEF Entries
      <4>4. QED
        BY <4>2, <4>3
    <3>5. QED
      BY <3>3, <3>4
  <2>5. Left' = {} => Entries' = Joined'
    BY <2>1, <2>2, <2>4 DEF IInv, Counted
  <2>6. Counted'
    BY <1>0, <1>4, <1>11, <2>1, <2>3, <2>5 DEF IInv, Counted, last
  <2>7. QED
    BY <1>2, <1>3, <1>9, <1>10, <2>6 DEF IInv
<1>14. QED
  BY <1>12, <1>13

\* Memory before the table is written only when there is no entry for a client
\* that has one to remove: somebody was refused.
LEMMA OutsideStep ==
  ASSUME IInv, TypeOK', NEW c \in Clients, WriteOutside(c)
  PROVE  IInv'
<1> USE TableAssumption
<1>1. TypeOK /\ refused \subseteq Clients
  BY DEF IInv, TypeOK
<1>2. aktclients = 0
  BY <1>1 DEF WriteOutside, TypeOK
<1>3. refused # {}
  <2>1. SUFFICES ASSUME refused = {} PROVE FALSE
    OBVIOUS
  <2>2. c \in Joined /\ Left = {}
    BY <2>1 DEF WriteOutside, Joined, Left, InTable
  <2>3. Cardinality(Joined) = 0
    BY <1>2, <2>2, ClientsFinite, FS_EmptySet DEF IInv, Counted, Joined
  <2>4. IsFiniteSet(Joined)
    BY ClientsFinite DEF Joined
  <2>5. QED
    BY <2>2, <2>3, <2>4, FS_EmptySet
<1>4. UNCHANGED <<clientfds, aktclients, refused, pc, src>>
  BY DEF WriteOutside, table
<1>5. Blocked'
  BY <1>4 DEF IInv, Blocked
<1>6. QED
  BY <1>3, <1>4, <1>5, QuietStep

-----------------------------------------------------------------------------
(* The other steps.                                                        *)

\* The invariant is inductive.
LEMMA NextInv == IInv /\ [Next]_vars => IInv'
<1> SUFFICES ASSUME IInv, [Next]_vars PROVE IInv'
    OBVIOUS
<1> USE TableAssumption
<1>0. TypeOK /\ Blocked /\ TypeOK'
  BY NextType DEF IInv
<1>1. ASSUME NEW c \in Clients, Accept(c), UNCHANGED fate PROVE IInv'
  <2>1. Goto(c, "greet") /\ pc[c] = "off" /\ src' = src
    BY <1>1 DEF Accept
  <2>2. Blocked'
    BY <1>0, <2>1, MoveBlocked
  <2>3. QED
    BY <1>0, <1>1, <2>1, <2>2, QuietMove DEF Accept, InTable, Late, table
<1>2. ASSUME NEW c \in Clients, Leave(c), UNCHANGED fate PROVE IInv'
  <2>1. UNCHANGED <<clientfds, aktclients, refused, pc, src, fate>>
    BY <1>2 DEF Leave, table
  <2>2. Blocked' /\ (fate' = "wild" => refused # {})
    BY <2>1 DEF IInv, Blocked, Counted
  <2>3. QED
    BY <1>0, <2>1, <2>2, QuietStep
<1>3. ASSUME NEW c \in Clients, ReadData(c), UNCHANGED fate PROVE IInv'
  <2>1. UNCHANGED <<clientfds, aktclients, refused, fate>>
    BY <1>3 DEF ReadData, table
  <2>2. \/ pc[c] = "greeting" /\ Goto(c, "insert")
        \/ pc[c] = "reading" /\ Goto(c, "tell")
    BY <1>3 DEF ReadData
  <2>3. Blocked'
    BY <1>0, <1>3, <2>2, MoveBlocked DEF ReadData
  <2>4. QED
    BY <1>0, <2>1, <2>2, <2>3, QuietMove DEF InTable, Late
<1>4. ASSUME NEW c \in Clients, ReadCall(c), UNCHANGED fate PROVE IInv'
  <2>1. UNCHANGED <<clientfds, aktclients, refused, fate>>
    BY <1>4 DEF ReadCall, table
  <2> DEFINE l == IF files[sock[c]] = Nobody THEN "remove"
                  ELSE IF pc[c] = "greet" THEN "greeting" ELSE "reading"
  <2>2. Goto(c, l) /\ pc[c] \in {"greet", "read"}
    BY <1>4 DEF ReadCall
  <2>3. (l \in InTable <=> pc[c] \in InTable) /\ (l \in Late <=> pc[c] \in Late)
    BY <1>4 DEF ReadCall, InTable, Late
  <2>4. Blocked'
    <3>1. \A d \in Clients : src'[d] = IF d = c THEN files[sock[c]] ELSE src[d]
      BY <1>0, <1>4 DEF ReadCall, TypeOK
    <3>2. \A d \in Clients : pc'[d] = IF d = c THEN l ELSE pc[d]
      BY <1>0, <2>2 DEF Goto, TypeOK
    <3>3. files[sock[c]] # Nobody => l \in {"greeting", "reading"}
      OBVIOUS
    <3>4. QED
      BY <1>0, <3>1, <3>2, <3>3 DEF Blocked
  <2> HIDE DEF l
  <2>5. QED
    BY <1>0, <2>1, <2>2, <2>3, <2>4, QuietMove
<1>5. ASSUME NEW c \in Clients, ReadEnd(c), UNCHANGED fate PROVE IInv'
  <2>1. UNCHANGED <<clientfds, aktclients, refused, fate>>
    BY <1>5 DEF ReadEnd, table
  <2>2. src[c] # Nobody
    <3>1. src[c] \in gone /\ gone \subseteq Clients
      BY <1>0, <1>5 DEF ReadEnd, TypeOK
    <3>2. Clients \subseteq Nat
      BY DEF Clients
    <3>3. QED
      BY <3>1, <3>2
  <2>3. pc[c] \in {"greeting", "reading"}
    BY <1>0, <2>2 DEF Blocked
  <2>4. Goto(c, AfterEnd(c))
    BY <1>5 DEF ReadEnd
  <2>5. /\ AfterEnd(c) \in InTable <=> pc[c] \in InTable
        /\ AfterEnd(c) \in Late <=> pc[c] \in Late
    BY <2>3 DEF AfterEnd, InTable, Late
  <2>6. Blocked'
    BY <1>0, <1>5, <2>4, MoveBlocked DEF ReadEnd
  <2>7. QED
    BY <1>0, <2>1, <2>4, <2>5, <2>6, QuietMove
<1>6. ASSUME NEW c \in Clients, InsertClient(c), UNCHANGED fate PROVE IInv'
  BY <1>0, <1>6, InsertStep
<1>7. ASSUME NEW c \in Clients, RemoveClient(c), UNCHANGED fate PROVE IInv'
  BY <1>0, <1>7, RemoveStep
<1>8. ASSUME NEW c \in Clients, Close(c), UNCHANGED fate PROVE IInv'
  <2>1. Goto(c, "ended") /\ pc[c] = "close" /\ src' = src
    BY <1>8 DEF Close
  <2>2. Blocked'
    BY <1>0, <2>1, MoveBlocked
  <2>3. QED
    BY <1>0, <1>8, <2>1, <2>2, QuietMove DEF Close, InTable, Late, table
<1>9. ASSUME NEW c \in Clients, TellLock(c), UNCHANGED fate PROVE IInv'
  <2>1. Goto(c, "telling") /\ pc[c] = "tell" /\ src' = src
    BY <1>9 DEF TellLock
  <2>2. Blocked'
    BY <1>0, <2>1, MoveBlocked
  <2>3. QED
    BY <1>0, <1>9, <2>1, <2>2, QuietMove DEF TellLock, InTable, Late, table
<1>10. ASSUME NEW c \in Clients, TellOne(c), UNCHANGED fate PROVE IInv'
  <2>1. UNCHANGED <<clientfds, aktclients, refused, pc, src, fate>>
    BY <1>10 DEF TellOne, table
  <2>2. Blocked' /\ (fate' = "wild" => refused # {})
    BY <2>1 DEF IInv, Blocked, Counted
  <2>3. QED
    BY <1>0, <2>1, <2>2, QuietStep
<1>11. ASSUME NEW c \in Clients, TellUnlock(c), UNCHANGED fate PROVE IInv'
  <2>1. Goto(c, "read") /\ pc[c] = "telling" /\ src' = src
    BY <1>11 DEF TellUnlock
  <2>2. Blocked'
    BY <1>0, <2>1, MoveBlocked
  <2>3. QED
    BY <1>0, <1>11, <2>1, <2>2, QuietMove DEF TellUnlock, InTable, Late, table
<1>12. ASSUME NEW c \in Clients, WriteOutside(c) PROVE IInv'
  BY <1>0, <1>12, OutsideStep
<1>13. CASE UNCHANGED vars
  <2>1. UNCHANGED <<clientfds, aktclients, refused, pc, src, fate>>
    BY <1>13 DEF vars, table
  <2>2. Blocked' /\ (fate' = "wild" => refused # {})
    BY <2>1 DEF IInv, Blocked, Counted
  <2>3. QED
    BY <1>0, <2>1, <2>2, QuietStep
<1>14. ASSUME NEW c \in Clients, SigPipe(c) PROVE IInv'
  <2>1. UNCHANGED <<clientfds, aktclients, refused, pc, src>>
    BY <1>14 DEF SigPipe, table
  <2>2. Blocked' /\ (fate' = "wild" => refused # {})
    BY <1>14, <2>1 DEF SigPipe, IInv, Blocked, Counted
  <2>3. QED
    BY <1>0, <2>1, <2>2, QuietStep
<1>15. QED
  BY <1>1, <1>2, <1>3, <1>4, <1>5, <1>6, <1>7, <1>8, <1>9, <1>10, <1>11, <1>12, <1>13,
     <1>14 DEF Next, Handle

\* So it holds in every reachable state.
LEMMA Invariant == Spec => []IInv
<1>1. Init => IInv
  BY InitInv
<1>2. IInv /\ [Next]_vars => IInv'
  BY NextInv
<1>3. QED
  BY <1>1, <1>2, PTL DEF Spec

-----------------------------------------------------------------------------
(* What follows.                                                           *)

\* Every variable of the chat server keeps to its values; in particular the
\* loop of tell_all_clients never leaves the table.
THEOREM TypeCorrect == Spec => []TypeOK
<1>1. IInv => TypeOK
  BY DEF IInv
<1>2. QED
  BY <1>1, Invariant, PTL

\* As many different threads stand in the table as aktclients says.
LEMMA EntriesCounted == IInv => Cardinality(Entries) = aktclients
<1> SUFFICES ASSUME IInv PROVE Cardinality(Entries) = aktclients
    OBVIOUS
<1> USE TableAssumption
<1>1. aktclients \in 0..MAXCLIENTS /\ aktclients \in Nat
  BY DEF IInv, TypeOK
<1> DEFINE f == [k \in 1..aktclients |-> clientfds[k - 1]]
<1>2. \A k \in 1..aktclients : k - 1 \in Slots /\ k - 1 < aktclients
  BY <1>1 DEF Slots
<1>3. f \in [1..aktclients -> Entries]
  BY <1>2 DEF Entries
<1>4. \A j, k \in 1..aktclients : f[j] = f[k] => j = k
  <2>1. SUFFICES ASSUME NEW j \in 1..aktclients, NEW k \in 1..aktclients, f[j] = f[k]
                 PROVE  j = k
    OBVIOUS
  <2>2. j - 1 = k - 1
    BY <1>2, <2>1 DEF IInv, EntriesDiffer
  <2>3. QED
    BY <1>1, <2>2
<1>5. \A e \in Entries : \E k \in 1..aktclients : f[k] = e
  <2>1. SUFFICES ASSUME NEW s \in Slots, s < aktclients
                 PROVE  \E k \in 1..aktclients : f[k] = clientfds[s]
    BY DEF Entries
  <2>2. s + 1 \in 1..aktclients /\ (s + 1) - 1 = s
    BY <1>1, <2>1 DEF Slots
  <2>3. QED
    BY <2>2
<1> HIDE DEF f
<1>6. f \in Bijection(1..aktclients, Entries)
  BY <1>3, <1>4, <1>5, Fun_IsBij
<1>7. QED
  BY <1>1, <1>6, FS_CountingElements DEF ExistsBijection

\* tell_all_clients follows no pointer to the stack of a thread that has
\* ended: the entries in use are threads that are there, each one once.
THEOREM NoDangling == Spec => []NoDanglingClient
<1>1. IInv => NoDanglingClient
  <2> SUFFICES ASSUME IInv PROVE NoDanglingClient
      OBVIOUS
  <2>1. Entries \subseteq {c \in Clients : Present(c)}
    BY DEF IInv, EntriesThere, Entries, InTable, Present
  <2>2. QED
    BY <2>1, EntriesCounted DEF NoDanglingClient
<1>2. QED
  BY <1>1, Invariant, PTL

\* The table holds exactly the clients that have joined, as long as none that
\* was refused has left; each of those costs an entry; and the memory before
\* the table is written only when there was one.
THEOREM TableExact == Spec => []TableComplete
<1>1. IInv => TableComplete
  BY DEF IInv, Counted, TableComplete, Left, Joined, InTable, Late, Present
<1>2. QED
  BY <1>1, Invariant, PTL

-----------------------------------------------------------------------------
(* The broadcasts.                                                         *)

\* Who is in the loop of tell_all_clients holds the mutex, and tells the last
\* line there is.
TellerLocks == \A c \in Clients : pc[c] = "telling" => mutex = c /\ saying[c] = told

\* A step that moves nobody into the loop keeps it, when the mutex of somebody
\* who is in it stays.
LEMMA LoopKept ==
  ASSUME TellerLocks, told' = told,
         \A c \in Clients : pc'[c] = "telling" =>
            pc[c] = "telling" /\ mutex' = mutex /\ saying'[c] = saying[c]
  PROVE  TellerLocks'
BY DEF TellerLocks

\* The mutex keeps all but one thread out of the loop.
LEMMA NextTeller == IInv /\ TellerLocks /\ [Next]_vars => TellerLocks'
<1> SUFFICES ASSUME IInv, TellerLocks, [Next]_vars PROVE TellerLocks'
    OBVIOUS
<1> USE TableAssumption
<1>0. TypeOK /\ (mutex = Nobody => \A c \in Clients : pc[c] # "telling")
  <2>1. \A c \in Clients : c # Nobody
    BY DEF Clients
  <2>2. QED
    BY <2>1 DEF IInv, TellerLocks
<1>1. ASSUME NEW c \in Clients, NEW l \in PCs \ {"telling"}, Goto(c, l),
             UNCHANGED <<mutex, saying, told>>
      PROVE  TellerLocks'
  <2>1. \A d \in Clients : pc'[d] = IF d = c THEN l ELSE pc[d]
    BY <1>0, <1>1 DEF Goto, TypeOK
  <2>2. QED
    BY <1>1, <2>1, LoopKept
<1>2. ASSUME UNCHANGED <<pc, mutex, saying, told>> PROVE TellerLocks'
  BY <1>2, LoopKept
<1>3. ASSUME NEW c \in Clients, InsertClient(c) PROVE TellerLocks'
  <2>1. \A d \in Clients : pc'[d] = IF d = c THEN "tell" ELSE pc[d]
    BY <1>0, <1>3 DEF InsertClient, Goto, TypeOK
  <2>2. \A d \in Clients : pc'[d] # "telling"
    BY <1>0, <1>3, <2>1 DEF InsertClient, Locked
  <2>3. QED
    BY <2>2 DEF TellerLocks
<1>4. ASSUME NEW c \in Clients, TellLock(c) PROVE TellerLocks'
  <2>1. \A d \in Clients : pc'[d] = IF d = c THEN "telling" ELSE pc[d]
    BY <1>0, <1>4 DEF TellLock, Goto, TypeOK
  <2>2. \A d \in Clients : pc'[d] = "telling" => d = c
    BY <1>0, <1>4, <2>1 DEF TellLock, Locked
  <2>3. mutex' = c /\ saying'[c] = told'
    BY <1>0, <1>4 DEF TellLock, TypeOK
  <2>4. QED
    BY <2>2, <2>3 DEF TellerLocks
<1>5. ASSUME NEW c \in Clients, TellUnlock(c) PROVE TellerLocks'
  <2>1. \A d \in Clients : pc'[d] = IF d = c THEN "read" ELSE pc[d]
    BY <1>0, <1>5 DEF TellUnlock, Goto, TypeOK
  <2>2. mutex = c
    BY <1>5 DEF TellUnlock, TellerLocks
  <2>3. \A d \in Clients : pc'[d] # "telling"
    BY <2>1, <2>2 DEF TellerLocks
  <2>4. QED
    BY <2>3 DEF TellerLocks
<1>6. {"greet", "insert", "tell", "remove", "greeting", "reading", "close", "ended"}
        \subseteq PCs \ {"telling"}
  BY DEF PCs
<1>7. ASSUME NEW c \in Clients, Accept(c) PROVE TellerLocks'
  BY <1>1, <1>6, <1>7 DEF Accept
<1>8. ASSUME NEW c \in Clients, Leave(c) PROVE TellerLocks'
  BY <1>2, <1>8 DEF Leave
<1>9. ASSUME NEW c \in Clients, ReadData(c) PROVE TellerLocks'
  BY <1>1, <1>6, <1>9 DEF ReadData
<1>10. ASSUME NEW c \in Clients, ReadCall(c) PROVE TellerLocks'
  <2> DEFINE l == IF files[sock[c]] = Nobody THEN "remove"
                  ELSE IF pc[c] = "greet" THEN "greeting" ELSE "reading"
  <2>1. Goto(c, l) /\ UNCHANGED <<mutex, saying, told>>
    BY <1>10 DEF ReadCall
  <2>2. l \in PCs \ {"telling"}
    BY <1>6
  <2> HIDE DEF l
  <2>3. QED
    BY <1>1, <2>1, <2>2
<1>11. ASSUME NEW c \in Clients, ReadEnd(c) PROVE TellerLocks'
  <2>1. AfterEnd(c) \in PCs \ {"telling"}
    BY <1>6 DEF AfterEnd
  <2>2. QED
    BY <1>1, <1>11, <2>1 DEF ReadEnd
<1>12. ASSUME NEW c \in Clients, RemoveClient(c) PROVE TellerLocks'
  BY <1>1, <1>6, <1>12 DEF RemoveClient
<1>13. ASSUME NEW c \in Clients, Close(c) PROVE TellerLocks'
  BY <1>1, <1>6, <1>13 DEF Close
<1>14. ASSUME NEW c \in Clients, TellOne(c) PROVE TellerLocks'
  BY <1>2, <1>14 DEF TellOne
<1>15. ASSUME NEW c \in Clients, WriteOutside(c) PROVE TellerLocks'
  BY <1>2, <1>15 DEF WriteOutside
<1>16. CASE UNCHANGED vars
  BY <1>2, <1>16 DEF vars
<1>17. ASSUME NEW c \in Clients, SigPipe(c) PROVE TellerLocks'
  BY <1>2, <1>17 DEF SigPipe
<1>18. QED
  BY <1>3, <1>4, <1>5, <1>7, <1>8, <1>9, <1>10, <1>11, <1>12, <1>13, <1>14, <1>15, <1>16,
     <1>17 DEF Next, Handle

\* A thread in the loop writes the last line told to the connection behind the
\* entry; nothing else writes to a connection.
LEMMA HeardStep ==
  IInv /\ TellerLocks /\ [Next]_vars => [\A c \in Clients : heard[c] <= heard'[c]]_vars
<1> SUFFICES ASSUME IInv, TellerLocks, Next
             PROVE  \A c \in Clients : heard[c] <= heard'[c]
    OBVIOUS
<1>0. TypeOK /\ \A c \in Clients : heard[c] \in Nat /\ heard[c] <= told
  BY DEF IInv, TypeOK
<1>1. CASE heard' = heard
  BY <1>0, <1>1
<1>2. ASSUME NEW c \in Clients, TellOne(c) PROVE \A d \in Clients : heard[d] <= heard'[d]
  <2>1. saying[c] = told
    BY <1>2 DEF TellOne, TellerLocks
  <2> DEFINE to == WritesTo(c)
  <2>2. heard' = IF to = Nobody THEN heard ELSE [heard EXCEPT ![to] = saying[c]]
    BY <1>2 DEF TellOne
  <2> HIDE DEF to
  <2>3. heard \in [Clients -> 0..told]
    BY <1>0 DEF TypeOK
  <2>4. \A d \in Clients : heard'[d] = heard[d] \/ heard'[d] = told
    BY <2>1, <2>2, <2>3
  <2>5. QED
    BY <1>0, <2>4
<1>3. QED
  BY <1>1, <1>2 DEF Next, Handle, Accept, Leave, ReadData, ReadCall, ReadEnd,
     InsertClient, RemoveClient, WriteOutside, SigPipe, Close, TellLock, TellUnlock

\* Lines reach every connection in the order they were told in.
THEOREM InOrder == Spec => OneOrder
<1>1. Init => TellerLocks
  BY DEF Init, TellerLocks
<1>2. QED
  BY <1>1, Invariant, NextTeller, HeardStep, PTL DEF Spec, OneOrder
=============================================================================

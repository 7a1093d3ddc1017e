----------------------------- MODULE ChatroomProofs -----------------------------
(***************************************************************************)
(* Machine-checked facts about Chatroom, for any clients, USER_LIMIT and   *)
(* number of messages and signals: the parent's two tables agree, the      *)
(* index of a child stays within the shared memory, and messages are       *)
(* relayed in order.                                                       *)
(***************************************************************************)
EXTENDS Chatroom, ContainerLemmas

-------------------------------------------------------------------------------
(* The inductive invariant. *)

(* A client in the backlog has not been accepted, and is there once. *)
Backlogged ==
    /\ backlog \in Seq(Clients) /\ IsInjective(backlog)
    /\ \A c \in ToSet(backlog) : child[c] = "none"

(* The parent handles signals only while there are any. *)
Signalled ==
    /\ parent = "signals" => signals # << >>
    /\ <<"signal">> \in batch => sig_pipe # << >>
    /\ terms \in 0..MaxTerms

(* A child that runs has an index. *)
Indexed == \A c \in Serving : idx[c] # -1

(* A child reads the messages of its client one after the other. *)
Numbered ==
    /\ said \in [Clients -> Nat] /\ taken \in [Clients -> Nat]
    /\ inbox \in [Clients -> BOOLEAN]
    /\ \A c \in Clients :
          /\ taken[c] <= said[c]
          /\ inbox[c] => taken[c] < said[c]
          /\ child[c] = "got" => taken[c] > 0

Channels ==
    /\ up \in [Clients -> Seq(Message)] /\ down \in [Clients -> Seq(Message)]
    /\ heard \in [Clients -> Seq(Message)]

CInv == TypeOK /\ TablesAgree /\ Backlogged /\ Signalled /\ Indexed /\ Numbered /\ Channels

(* Two messages of one sender neither of which is left-over text. *)
Fresh(m, k) == ~m.left /\ ~k.left /\ m.by = k.by

(* Such messages in order, within a pipe and from one to another. *)
InOrder(s) ==
    \A i, j \in DOMAIN s : i < j /\ Fresh(s[i], s[j]) => s[i].n < s[j].n
Before(s, t) ==
    \A m \in ToSet(s), k \in ToSet(t) : Fresh(m, k) => m.n < k.n

(* What has been forwarded was read before what is about to be. *)
Forwarded(m) ==
    ~m.left => /\ m.n <= taken[m.by]
               /\ child[m.by] = "got" => m.n < taken[m.by]

(* On its way from child to client every message is behind the earlier ones of
   the same sender, whether these are in its pipe, in the receiver's, or there. *)
Ordered ==
    \A c \in Clients :
        /\ \A m \in ToSet(up[c]) : ~m.left /\ m.by = c /\ Forwarded(m)
        /\ \A m \in ToSet(down[c]) \cup ToSet(heard[c]) : (~m.left => m.by # c) /\ Forwarded(m)
        /\ InOrder(up[c]) /\ InOrder(down[c]) /\ InOrder(heard[c])
        /\ Before(heard[c], down[c])
        /\ \A b \in Clients : Before(heard[c], up[b]) /\ Before(down[c], up[b])

LEMMA CInvInit == Init => CInv /\ Ordered
  <1> SUFFICES ASSUME Init PROVE CInv /\ Ordered
    OBVIOUS
  <1> USE BoundAssumption DEF Init
  <1>1. TypeOK
    <2>1. terminate \in BOOLEAN /\ stop_server \in BOOLEAN
      OBVIOUS
    <2>2. users \in Seq(Clients) /\ user_count <= USER_LIMIT
      BY DEF user_count
    <2>3. signals \in Seq({"CHLD", "TERM"}) /\ sig_pipe \in Seq({"CHLD", "TERM"})
      OBVIOUS
    <2>4. \A c \in Clients :
             up[c] \in Seq(Message) /\ down[c] \in Seq(Message) /\ heard[c] \in Seq(Message)
      OBVIOUS
    <2>5. sub_process \in [Clients -> -1..USER_LIMIT - 1] /\ idx \in [Clients -> -1..USER_LIMIT - 1]
      OBVIOUS
    <2>6. /\ parentBuffer \in Seq(Message \cup {Nul})
          /\ childBuffer \in [Clients -> Seq(Message \cup {Nul})]
      OBVIOUS
    <2>7. QED
      BY <2>1, <2>2, <2>3, <2>4, <2>5, <2>6 DEF TypeOK, ChildLabels
  <1>2. TablesAgree
    BY DEF TablesAgree, IsInjective, Serving, Zombies, ToSet
  <1>3. Backlogged
    BY DEF Backlogged, IsInjective, ToSet
  <1>4. Signalled /\ Indexed
    BY DEF Signalled, Indexed, Serving
  <1>5. Numbered /\ Channels
    BY DEF Numbered, Channels
  <1>6. Ordered
    BY DEF Ordered, InOrder, Before, ToSet
  <1>7. QED
    BY <1>1, <1>2, <1>3, <1>4, <1>5, <1>6 DEF CInv
-------------------------------------------------------------------------------
(* The tables. *)

(* Whose entry is in users[], in terms of the children only. *)
Listed(c) == child[c] \notin {"none", "refused", "reaped"}

LEMMA TablesList ==
    ASSUME TypeOK
    PROVE  /\ ToSet(users) \subseteq Clients
           /\ Serving \cup Zombies = {c \in Clients : Listed(c)}
  BY DEF TypeOK, ToSet, Serving, Zombies, Listed

(* A user is found at the place sub_process has for it. *)
LEMMA UserFound ==
    ASSUME TypeOK, TablesAgree, NEW c \in Clients, Listed(c)
    PROVE  /\ sub_process[c] + 1 \in 1..Len(users)
           /\ users[sub_process[c] + 1] = c
  <1>1. c \in ToSet(users)
    BY TablesList DEF TablesAgree
  <1>2. PICK j \in 1..Len(users) : users[j] = c
    <2>1. users \in Seq(Clients)
      BY DEF TypeOK
    <2>2. DOMAIN users = 1..Len(users)
      BY <2>1
    <2>3. QED
      BY <1>1, <2>2 DEF ToSet
  <1>3. sub_process[c] = j - 1
    BY <1>2 DEF TablesAgree, TypeOK
  <1>4. QED
    BY <1>2, <1>3

LEMMA TablesKept ==
    ASSUME TablesAgree, Backlogged, UNCHANGED <<users, sub_process, backlog>>,
           \A c \in Clients : Listed(c)' = Listed(c) /\ (child[c] = "none" => child'[c] = "none"),
           TypeOK, TypeOK'
    PROVE  TablesAgree' /\ Backlogged'
  <1>1. Serving' \cup Zombies' = Serving \cup Zombies
    BY TablesList DEF Serving, Zombies, Listed
  <1>2. TablesAgree'
    BY <1>1 DEF TablesAgree
  <1>3. Backlogged'
    BY DEF Backlogged, ToSet
  <1>4. QED
    BY <1>2, <1>3

LEMMA TablesStep == CInv /\ TypeOK' /\ [Next]_vars => TablesAgree' /\ Backlogged'
  <1> SUFFICES ASSUME CInv, TypeOK', [Next]_vars PROVE TablesAgree' /\ Backlogged'
    OBVIOUS
  <1> USE DEF parentVars, childVars, pipes, clientVars, listening, Goto
  <1>t. /\ users \in Seq(Clients) /\ backlog \in Seq(Clients) /\ IsInjective(backlog)
        /\ child \in [Clients -> ChildLabels] /\ sub_process \in [Clients -> -1..USER_LIMIT - 1]
        /\ \A c \in ToSet(backlog) : child[c] = "none"
    BY DEF CInv, TypeOK, Backlogged
  <1>a. TypeOK /\ TablesAgree /\ Backlogged
    BY DEF CInv
  <1>1. ASSUME NEW c \in Clients, Connect(c) PROVE TablesAgree' /\ Backlogged'
    <2>1. /\ backlog' = Append(backlog, c) /\ c \notin ToSet(backlog) /\ child[c] = "none"
          /\ UNCHANGED <<users, sub_process, child>>
      BY <1>1 DEF Connect
    <2>2. Backlogged'
      BY <2>1, <1>t, PushAdds, PushKeepsInjective DEF Backlogged
    <2>3. QED
      BY <2>1, <2>2, <1>a DEF TablesAgree, Serving, Zombies
  <1>2. CASE AcceptRefused
    <2>1. PICK c \in Clients : c = Head(backlog) /\ child[c] = "none"
      BY <1>2, <1>t, PopRemoves DEF AcceptRefused
    <2>2. /\ ToSet(backlog') = ToSet(backlog) \ {c} /\ IsInjective(backlog')
          /\ backlog' \in Seq(Clients)
      BY <1>2, <1>t, <2>1, PopRemoves DEF AcceptRefused
    <2>3. child' = [child EXCEPT ![c] = "refused"] /\ UNCHANGED <<users, sub_process>>
      BY <1>2, <2>1 DEF AcceptRefused
    <2>4. Backlogged'
      BY <2>2, <2>3, <1>t DEF Backlogged
    <2>5. Serving' = Serving /\ Zombies' = Zombies
      BY <2>1, <2>3, <1>t DEF Serving, Zombies
    <2>6. QED
      BY <2>3, <2>4, <2>5, <1>a DEF TablesAgree
  <1>3. CASE Accept
    <2>1. PICK c \in Clients : c = Head(backlog) /\ child[c] = "none"
      BY <1>3, <1>t, PopRemoves DEF Accept
    <2>2. /\ ToSet(backlog') = ToSet(backlog) \ {c} /\ IsInjective(backlog')
          /\ backlog' \in Seq(Clients)
      BY <1>3, <1>t, <2>1, PopRemoves DEF Accept
    <2>3. /\ child' = [child EXCEPT ![c] = "start"]
          /\ users' = Append(users, c)
          /\ sub_process' = [sub_process EXCEPT ![c] = Len(users)]
      BY <1>3, <2>1 DEF Accept, user_count
    <2>4. Backlogged'
      BY <2>2, <2>3, <1>t DEF Backlogged
    <2>5. c \notin ToSet(users)
      BY <2>1, <1>a, TablesList DEF TablesAgree, Listed
    <2>6. ToSet(users') = ToSet(users) \cup {c} /\ IsInjective(users')
      BY <2>3, <2>5, <1>t, <1>a, PushAdds, PushKeepsInjective DEF TablesAgree
    <2>7. Serving' = Serving \cup {c} /\ Zombies' = Zombies
      BY <2>1, <2>3, <1>t DEF Serving, Zombies
    <2>8. ASSUME NEW j \in DOMAIN users' PROVE sub_process'[users'[j]] = j - 1
      <3>1. CASE j \in DOMAIN users
        BY <2>3, <2>5, <3>1, <1>t, <1>a DEF TablesAgree, ToSet
      <3>2. CASE j = Len(users) + 1
        BY <2>1, <2>3, <3>2, <1>t
      <3>3. QED
        BY <2>3, <3>1, <3>2, <1>t
    <2>9. QED
      BY <2>4, <2>6, <2>7, <2>8, <1>a DEF TablesAgree
  <1>4. ASSUME NEW c \in Clients, Reap(c) PROVE TablesAgree' /\ Backlogged'
    <2> DEFINE n == Len(users)
               i == sub_process[c] + 1
               r == [users EXCEPT ![i] = users[n]]
    <2>0. child[c] = "zombie" /\ Listed(c)
      BY <1>4 DEF Reap, Zombies, Listed
    <2>1. child[c] = "zombie" /\ i \in 1..n /\ users[i] = c /\ n \in Nat \ {0}
      BY <2>0, <1>a, <1>t, UserFound
    <2>2. /\ r \in Seq(Clients) /\ Len(r) = n
          /\ \A j \in 1..n : r[j] = IF j = i THEN users[n] ELSE users[j]
      BY <2>1, <1>t
    <2>3. /\ child' = [child EXCEPT ![c] = "reaped"]
          /\ users' = Front(r)
          /\ sub_process' = [[sub_process EXCEPT ![c] = -1] EXCEPT ![users[n]] = sub_process[c]]
          /\ backlog' = backlog
      <3>1. sub_process[c] \in 0..USER_LIMIT
        BY <2>1, <1>t, BoundAssumption
      <3>2. QED
        BY <1>4, <2>1, <1>t, <3>1 DEF Reap, DeleteUser, Last
    <2>s. /\ users[n] \in Clients
          /\ \A u \in Clients : sub_process'[u] = IF u = users[n] THEN i - 1 ELSE
                                                  IF u = c THEN -1 ELSE sub_process[u]
      BY <2>1, <2>3, <1>t
    <2> HIDE DEF i, r
    <2>4. /\ users' \in Seq(Clients) /\ Len(users') = n - 1
          /\ \A j \in 1..n - 1 : users'[j] = IF j = i THEN users[n] ELSE users[j]
      BY <2>1, <2>2, <2>3 DEF Front
    <2>5. IsInjective(users') /\ ToSet(users') = ToSet(users) \ {c}
      <3>1. LastMoved(users, i, users')
        BY <2>4 DEF LastMoved
      <3>2. IsInjective(users) /\ i \in 1..Len(users)
        BY <2>1, <1>a DEF TablesAgree
      <3>3. QED
        BY <3>1, <3>2, <2>1, <2>4, <1>t, LastTakesPlace
    <2> HIDE DEF n
    <2>6. Serving' \cup Zombies' = (Serving \cup Zombies) \ {c}
      BY <2>1, <2>3, <1>t DEF Serving, Zombies
    <2>7. ASSUME NEW j \in DOMAIN users' PROVE sub_process'[users'[j]] = j - 1
      <3>1. j \in 1..n - 1 /\ users[n] \in Clients /\ users[j] \in Clients
        <4>1. users \in Seq(Clients) /\ n = Len(users) /\ Len(users) \in Nat
          BY <1>t DEF n
        <4>2. DOMAIN users' = 1..n - 1
          BY <2>4, <4>1
        <4>3. QED
          BY <2>1, <4>1, <4>2
      <3>2. \A a, b \in 1..n : users[a] = users[b] => a = b
        BY <1>t, <1>a DEF TablesAgree, IsInjective, n
      <3>3. \A a \in 1..n : sub_process[users[a]] = a - 1
        BY <1>t, <1>a DEF TablesAgree, n
      <3>4. CASE j = i
        BY <3>1, <3>4, <2>s, <2>4
      <3>5. CASE j # i
        <4>1. users'[j] = users[j] /\ users[j] # c /\ users[j] # users[n]
          BY <2>1, <2>4, <3>1, <3>2, <3>5
        <4>2. QED
          BY <4>1, <2>1, <2>s, <3>1, <3>3
      <3>6. QED
        BY <3>4, <3>5
    <2>8. Backlogged'
      BY <2>1, <2>3, <1>t DEF Backlogged
    <2>9. QED
      BY <2>5, <2>6, <2>7, <2>8, <1>a DEF TablesAgree
  <1>5. CASE OnTerm
    <2>1. /\ UNCHANGED <<users, sub_process, backlog>>
          /\ \/ child' = child
             \/ child' = [c \in Clients |->
                             IF c \in ToSet(users) /\ child[c] = "wait" THEN "test" ELSE child[c]]
      BY <1>5 DEF OnTerm
    <2>2. \A c \in Clients : Listed(c)' = Listed(c) /\ (child[c] = "none" => child'[c] = "none")
      BY <2>1, <1>t DEF Listed
    <2>3. QED
      BY <2>1, <2>2, <1>a, TablesKept
  <1>6. ASSUME NEW c \in Clients, Say(c) \/ Leave(c) PROVE TablesAgree' /\ Backlogged'
    BY <1>6, <1>a, TablesKept DEF Say, Leave, Listed
  <1>7. CASE \/ Term \/ HandleChld \/ EpollWait \/ AcceptFails \/ OnSignals \/ ReapDone
             \/ Stop
    BY <1>7, <1>a, TablesKept DEF Term, HandleChld, EpollWait, AcceptFails, OnSignals, ReapDone,
                                  Stop, Listed
  <1>8. ASSUME NEW c \in Clients, \/ \E n \in 0..Len(up[c]) : Relay(c, n)
                                  \/ \E n \in 0..Len(down[c]) : ReadPipe(c, n)
        PROVE  TablesAgree' /\ Backlogged'
    BY <1>8, <1>a, TablesKept DEF Relay, ReadPipe, Listed
  <1>9. ASSUME NEW c \in Clients, \/ CloseSigPipe(c) \/ AddSig(c) \/ Test(c) \/ Enter(c)
                                  \/ Wake(c) \/ ReadClient(c) \/ Forward(c) \/ EventsDone(c)
        PROVE  TablesAgree' /\ Backlogged'
    <2>1. UNCHANGED <<users, sub_process, backlog>>
      BY <1>9 DEF CloseSigPipe, AddSig, Test, Enter, Wake, ReadClient, Forward, EventsDone
    <2>2. \/ child' = child
          \/ /\ child[c] \in {"start", "deaf", "test", "enter", "wait", "events", "got"}
             /\ \E label \in {"deaf", "test", "enter", "wait", "events", "got", "zombie"} :
                   child' = [child EXCEPT ![c] = label]
      BY <1>9 DEF CloseSigPipe, AddSig, Test, Enter, Wake, ReadClient, Forward, EventsDone
    <2>3. \A d \in Clients : Listed(d)' = Listed(d) /\ (child[d] = "none" => child'[d] = "none")
      BY <2>2, <1>t DEF Listed
    <2>4. QED
      BY <2>1, <2>3, <1>a, TablesKept
  <1>10. CASE UNCHANGED vars
    BY <1>10, <1>a, TablesKept DEF vars, Listed
  <1>11. QED
    BY <1>1, <1>2, <1>3, <1>4, <1>5, <1>6, <1>7, <1>8, <1>9, <1>10
    DEF Next, ParentStep, ChildStep
-------------------------------------------------------------------------------
(* Types, by the part of the state they are about. *)

FlagTypes == terminate \in BOOLEAN /\ stop_server \in BOOLEAN

UserTypes ==
    /\ users \in Seq(Clients) /\ user_count <= USER_LIMIT
    /\ sub_process \in [Clients -> -1..USER_LIMIT - 1]
    /\ child \in [Clients -> ChildLabels]
    /\ idx \in [Clients -> -1..USER_LIMIT - 1]

LoopTypes ==
    /\ parent \in {"loop", "signals", "ended"}
    /\ batch \subseteq {<<"listen">>, <<"signal">>} \cup ({"pipe"} \X Clients)
    /\ signals \in Seq({"CHLD", "TERM"}) /\ sig_pipe \in Seq({"CHLD", "TERM"})

MemoryTypes ==
    /\ stop_child \in [Clients -> BOOLEAN] /\ woken \in [Clients -> SUBSET {"conn", "pipe"}]
    /\ share_mem \in [0..USER_LIMIT - 1 -> Clients \cup {None}]

BufferTypes ==
    /\ parentBuffer \in Seq(Message \cup {Nul})
    /\ childBuffer \in [Clients -> Seq(Message \cup {Nul})]

LEMMA TypesOfParts ==
    ASSUME Channels
    PROVE  TypeOK <=> FlagTypes /\ UserTypes /\ LoopTypes /\ MemoryTypes /\ BufferTypes
  <1>1. \A c \in Clients :
           up[c] \in Seq(Message) /\ down[c] \in Seq(Message) /\ heard[c] \in Seq(Message)
    BY DEF Channels
  <1>2. QED
    BY <1>1 DEF TypeOK, FlagTypes, UserTypes, LoopTypes, MemoryTypes, BufferTypes

LEMMA FlagStep == FlagTypes /\ [Next]_vars => FlagTypes'
  <1> SUFFICES ASSUME FlagTypes, [Next]_vars PROVE FlagTypes'
    OBVIOUS
  <1> USE DEF FlagTypes, parentVars
  <1>1. CASE ReapDone
    <2>1. terminate' = terminate /\ stop_server' \in BOOLEAN
      BY <1>1 DEF ReapDone
    <2>2. QED
      BY <2>1
  <1>2. CASE OnTerm
    <2>1. terminate' \in BOOLEAN
      BY <1>2 DEF OnTerm
    <2>2. stop_server' \in BOOLEAN
      BY <1>2 DEF OnTerm
    <2>3. QED
      BY <2>1, <2>2
  <1>3. CASE UNCHANGED <<terminate, stop_server>>
    BY <1>3
  <1>4. ReapDone \/ OnTerm \/ UNCHANGED <<terminate, stop_server>>
    <2>1. ParentStep => ReapDone \/ OnTerm \/ UNCHANGED <<terminate, stop_server>>
      BY DEF ParentStep, EpollWait, AcceptFails, AcceptRefused, Accept, OnSignals, HandleChld,
             Reap, Relay, Stop
    <2>2. ASSUME NEW c \in Clients, ChildStep(c) PROVE UNCHANGED <<terminate, stop_server>>
      BY <2>2 DEF ChildStep, CloseSigPipe, AddSig, Test, Enter, Wake, ReadClient, Forward,
                  ReadPipe, EventsDone
    <2>3. QED
      BY <2>1, <2>2 DEF Next, vars, Connect, Say, Leave, Term, HandleChld
  <1>5. QED
    BY <1>1, <1>2, <1>3, <1>4

LEMMA UserStep == CInv /\ [Next]_vars => UserTypes' /\ Indexed'
  <1> SUFFICES ASSUME CInv, [Next]_vars PROVE UserTypes' /\ Indexed'
    OBVIOUS
  <1> USE BoundAssumption DEF parentVars, childVars, Goto
  <1>t. UserTypes /\ Indexed
    BY TypesOfParts DEF CInv
  <1>b. backlog # << >> => Head(backlog) \in Clients /\ child[Head(backlog)] = "none"
    BY PopRemoves DEF CInv, Backlogged
  <1>1. CASE AcceptRefused
    BY <1>1, <1>t, <1>b DEF AcceptRefused, UserTypes, Indexed, Serving, ChildLabels, user_count
  <1>2. CASE Accept
    <2>1. PICK c \in Clients : c = Head(backlog)
      BY <1>2, <1>b DEF Accept
    <2>2. /\ child' = [child EXCEPT ![c] = "start"] /\ idx' = [idx EXCEPT ![c] = Len(users)]
          /\ users' = Append(users, c) /\ sub_process' = [sub_process EXCEPT ![c] = Len(users)]
          /\ Len(users) < USER_LIMIT
      BY <1>2, <2>1 DEF Accept, user_count
    <2>3. Len(users) \in 0..USER_LIMIT - 1
      BY <2>2, <1>t DEF UserTypes
    <2>4. QED
      BY <2>2, <2>3, <1>t DEF UserTypes, Indexed, Serving, ChildLabels, user_count
  <1>3. ASSUME NEW c \in Clients, Reap(c) PROVE UserTypes' /\ Indexed'
    <2> DEFINE n == Len(users)
               i == sub_process[c] + 1
               r == [users EXCEPT ![i] = users[n]]
    <2>0. child[c] = "zombie" /\ Listed(c)
      BY <1>3 DEF Reap, Zombies, Listed
    <2>1. i \in 1..n /\ n \in Nat \ {0} /\ n <= USER_LIMIT
      BY <2>0, <1>t, UserFound DEF CInv, UserTypes, user_count
    <2>2. r \in Seq(Clients) /\ Len(r) = n
      BY <2>1, <1>t DEF UserTypes
    <2>3. /\ child' = [child EXCEPT ![c] = "reaped"] /\ idx' = idx
          /\ users' = Front(r)
          /\ \E u \in Clients : sub_process' = [[sub_process EXCEPT ![c] = -1] EXCEPT ![u] = sub_process[c]]
      <3>1. sub_process[c] \in 0..USER_LIMIT
        BY <2>1, <1>t DEF UserTypes
      <3>2. QED
        BY <1>3, <2>1, <1>t, <3>1 DEF Reap, DeleteUser, Last, UserTypes
    <2> HIDE DEF i, r
    <2>4. users' \in Seq(Clients) /\ Len(users') = n - 1
      BY <2>1, <2>2, <2>3 DEF Front
    <2>5. sub_process' \in [Clients -> -1..USER_LIMIT - 1]
      <3>1. sub_process[c] \in -1..USER_LIMIT - 1 /\ -1 \in -1..USER_LIMIT - 1
        BY <1>t DEF UserTypes
      <3>2. PICK u \in Clients :
               sub_process' = [[sub_process EXCEPT ![c] = -1] EXCEPT ![u] = sub_process[c]]
        BY <2>3
      <3>3. [sub_process EXCEPT ![c] = -1] \in [Clients -> -1..USER_LIMIT - 1]
        BY <3>1, <1>t DEF UserTypes
      <3>4. QED
        BY <3>1, <3>2, <3>3
    <2>6. child' \in [Clients -> ChildLabels] /\ Serving' \subseteq Serving
      BY <2>3, <1>t DEF UserTypes, Serving, ChildLabels
    <2>7. QED
      <3>1. user_count' <= USER_LIMIT
        BY <2>1, <2>4 DEF user_count
      <3>2. idx' \in [Clients -> -1..USER_LIMIT - 1]
        BY <2>3, <1>t DEF UserTypes
      <3>3. QED
        BY <2>3, <2>4, <2>5, <2>6, <3>1, <3>2, <1>t DEF UserTypes, Indexed
  <1>4. CASE OnTerm
    <2>1. /\ UNCHANGED <<users, sub_process, idx>>
          /\ \/ child' = child
             \/ child' = [c \in Clients |->
                             IF c \in ToSet(users) /\ child[c] = "wait" THEN "test" ELSE child[c]]
      BY <1>4 DEF OnTerm
    <2>2. QED
      BY <2>1, <1>t DEF UserTypes, Indexed, Serving, ChildLabels, user_count
  <1>5. ASSUME NEW c \in Clients, \/ CloseSigPipe(c) \/ AddSig(c) \/ Test(c) \/ Enter(c)
                                  \/ Wake(c) \/ ReadClient(c) \/ Forward(c) \/ EventsDone(c)
        PROVE  UserTypes' /\ Indexed'
    <2>1. UNCHANGED <<users, sub_process, idx>>
      BY <1>5 DEF CloseSigPipe, AddSig, Test, Enter, Wake, ReadClient, Forward, EventsDone
    <2>2. \/ child' = child
          \/ /\ c \in Serving
             /\ \E label \in {"deaf", "test", "enter", "wait", "events", "got", "zombie"} :
                   child' = [child EXCEPT ![c] = label]
      BY <1>5 DEF CloseSigPipe, AddSig, Test, Enter, Wake, ReadClient, Forward, EventsDone, Serving
    <2>3. QED
      BY <2>1, <2>2, <1>t DEF UserTypes, Indexed, Serving, ChildLabels, user_count
  <1>6. CASE UNCHANGED <<users, sub_process, child, idx>>
    BY <1>6, <1>t DEF UserTypes, Indexed, Serving, user_count
  <1>7. ASSUME NEW c \in Clients, \/ Connect(c) \/ Say(c) \/ Leave(c)
                                  \/ \E n \in 0..Len(up[c]) : Relay(c, n)
                                  \/ \E n \in 0..Len(down[c]) : ReadPipe(c, n)
        PROVE  UNCHANGED <<users, sub_process, child, idx>>
    BY <1>7 DEF Connect, Say, Leave, Relay, ReadPipe
  <1>8. CASE \/ Term \/ HandleChld \/ EpollWait \/ AcceptFails \/ OnSignals \/ ReapDone \/ Stop
             \/ UNCHANGED vars
    BY <1>8, <1>6 DEF Term, HandleChld, EpollWait, AcceptFails, OnSignals, ReapDone, Stop, vars
  <1>9. QED
    BY <1>1, <1>2, <1>3, <1>4, <1>5, <1>6, <1>7, <1>8 DEF Next, ParentStep, ChildStep

LEMMA LoopStep == CInv /\ [Next]_vars => LoopTypes' /\ Signalled'
  <1> SUFFICES ASSUME CInv, [Next]_vars PROVE LoopTypes' /\ Signalled'
    OBVIOUS
  <1> USE BoundAssumption DEF parentVars, listening
  <1>t. LoopTypes /\ Signalled
    BY TypesOfParts DEF CInv
  <1>1. CASE Term \/ HandleChld
    <2>1. /\ UNCHANGED <<parent, batch, signals>> /\ terms' \in 0..MaxTerms
          /\ \E s \in {"CHLD", "TERM"} : sig_pipe' = Append(sig_pipe, s)
      BY <1>1, <1>t DEF Term, HandleChld, Signalled
    <2>2. sig_pipe' \in Seq({"CHLD", "TERM"}) /\ sig_pipe' # << >>
      BY <2>1, <1>t DEF LoopTypes
    <2>3. QED
      BY <2>1, <2>2, <1>t DEF LoopTypes, Signalled
  <1>2. CASE EpollWait
    <2>1. /\ parent = "loop" /\ batch' = Ready
          /\ UNCHANGED <<parent, signals, sig_pipe, terms>>
      BY <1>2 DEF EpollWait
    <2>2. ToSet(users) \subseteq Clients
      BY TablesList DEF CInv
    <2>3. Ready \subseteq {<<"listen">>, <<"signal">>} \cup ({"pipe"} \X Clients)
      BY <2>2 DEF Ready
    <2>4. <<"signal">> \in Ready => sig_pipe # << >>
      <3>1. <<"signal">> # <<"listen">>
        OBVIOUS
      <3>2. \A c : <<"signal">> # <<"pipe", c>>
        OBVIOUS
      <3>3. QED
        BY <3>1, <3>2 DEF Ready
    <2>5. QED
      BY <2>1, <2>3, <2>4, <1>t DEF LoopTypes, Signalled
  <1>3. CASE AcceptFails \/ AcceptRefused \/ Accept
    BY <1>3, <1>t DEF AcceptFails, AcceptRefused, Accept, Dispatch, LoopTypes, Signalled
  <1>4. CASE OnSignals
    BY <1>4, <1>t DEF OnSignals, Dispatch, LoopTypes, Signalled
  <1>5. ASSUME NextSignal, parent = "signals"
        PROVE  /\ signals' \in Seq({"CHLD", "TERM"}) /\ parent' \in {"loop", "signals", "ended"}
               /\ parent' = "signals" => signals' # << >>
    <2>1. signals \in Seq({"CHLD", "TERM"}) /\ signals # << >>
      BY <1>5, <1>t DEF LoopTypes, Signalled
    <2>2. PICK rest \in Seq({"CHLD", "TERM"}) :
             rest = Tail(signals) /\ Len(rest) = Len(signals) - 1
      <3>1. Tail(signals) \in Seq({"CHLD", "TERM"}) /\ Len(Tail(signals)) = Len(signals) - 1
        BY <2>1
      <3>2. QED
        BY <3>1
    <2>3. rest = << >> => Len(signals) = 1
      <3>1. Len(signals) \in Nat /\ Len(signals) - 1 = Len(rest)
        BY <2>1, <2>2
      <3>2. Len(<< >>) = 0
        OBVIOUS
      <3>3. rest = << >> => Len(signals) - 1 = 0
        BY <3>1, <3>2
      <3>4. QED
        BY <3>1, <3>3
    <2>4. QED
      BY <1>5, <2>2, <2>3 DEF NextSignal
  <1>6. CASE ReapDone
    BY <1>5, <1>6, <1>t DEF ReapDone, LoopTypes, Signalled
  <1>7. CASE OnTerm
    <2>1. NextSignal /\ parent = "signals" /\ batch' = batch
      BY <1>7 DEF OnTerm
    <2>2. CASE users = << >>
      BY <1>5, <1>7, <1>t, <2>1, <2>2 DEF OnTerm, LoopTypes, Signalled
    <2>3. CASE users # << >>
      <3> DEFINE starting == {c \in Clients : child[c] = "start"}
                 k == Cardinality(starting)
      <3>1. k \in Nat
        <4>1. starting \subseteq ToSet(users)
          BY DEF CInv, TablesAgree, Serving
        <4>2. IsFiniteSet(ToSet(users))
          BY LengthOfInjective DEF CInv, TypeOK, TablesAgree
        <4>3. QED
          BY <4>1, <4>2, FS_Subset, FS_CardinalityType
      <3>2. /\ terms' = Min({MaxTerms, terms + k})
            /\ sig_pipe' = sig_pipe \o [i \in 1..terms' - terms |-> "TERM"]
        BY <1>7, <2>3 DEF OnTerm
      <3> HIDE DEF k
      <3>3. terms' \in {MaxTerms, terms + k} /\ terms' <= MaxTerms /\ terms' <= terms + k
        <4>1. {MaxTerms, terms + k} \in SUBSET Nat /\ {MaxTerms, terms + k} # {}
          BY <3>1, <1>t DEF Signalled
        <4>2. QED
          BY <4>1, <3>2, MinIsLeast
      <3>4. terms' \in 0..MaxTerms /\ terms' - terms \in Nat
        <4>1. terms \in 0..MaxTerms
          BY <1>t DEF Signalled
        <4>2. CASE terms' = MaxTerms
          BY <4>1, <4>2
        <4>3. CASE terms' = terms + k
          BY <3>1, <3>3, <4>1, <4>3
        <4>4. QED
          BY <3>3, <4>2, <4>3
      <3>5. PICK m \in Nat : m = terms' - terms
        BY <3>4
      <3>6. PICK more : more = [i \in 1..m |-> "TERM"]
        OBVIOUS
      <3>7. more \in Seq({"CHLD", "TERM"}) /\ sig_pipe' = sig_pipe \o more
        <4>1. more \in Seq({"CHLD", "TERM"})
          BY <3>6
        <4>2. sig_pipe' = sig_pipe \o more
          BY <3>2, <3>5, <3>6, Zenon
        <4>3. QED
          BY <4>1, <4>2
      <3>8. /\ sig_pipe' \in Seq({"CHLD", "TERM"})
            /\ sig_pipe # << >> => sig_pipe' # << >>
        BY <3>7, <1>t DEF LoopTypes
      <3>9. QED
        BY <1>5, <2>1, <3>4, <3>8, <1>t DEF LoopTypes, Signalled
    <2>4. QED
      BY <2>2, <2>3
  <1>8. ASSUME NEW c \in Clients, NEW n \in 0..Len(up[c]), Relay(c, n)
        PROVE  LoopTypes' /\ Signalled'
    BY <1>8, <1>t DEF Relay, Dispatch, LoopTypes, Signalled
  <1>9. CASE Stop
    BY <1>9, <1>t DEF Stop, LoopTypes, Signalled
  <1>10. CASE UNCHANGED <<parent, batch, signals, sig_pipe, terms>>
    BY <1>10, <1>t DEF LoopTypes, Signalled
  <1>11. ASSUME NEW c \in Clients, Connect(c) \/ Say(c) \/ Leave(c) \/ Reap(c)
         PROVE  UNCHANGED <<parent, batch, signals, sig_pipe, terms>>
    BY <1>11 DEF Connect, Say, Leave, Reap
  <1>12. ASSUME NEW c \in Clients, ChildStep(c)
         PROVE  UNCHANGED <<parent, batch, signals, sig_pipe, terms>>
    BY <1>12 DEF ChildStep, CloseSigPipe, AddSig, Test, Enter, Wake, ReadClient, Forward,
                 ReadPipe, EventsDone
  <1>13. CASE UNCHANGED vars
    BY <1>13, <1>10 DEF vars
  <1>14. QED
    BY <1>1, <1>2, <1>3, <1>4, <1>6, <1>7, <1>8, <1>9, <1>10, <1>11, <1>12, <1>13
    DEF Next, ParentStep

LEMMA MemoryStep == CInv /\ [Next]_vars => MemoryTypes'
  <1> SUFFICES ASSUME CInv, [Next]_vars PROVE MemoryTypes'
    OBVIOUS
  <1> USE DEF childVars
  <1>t. MemoryTypes
    BY TypesOfParts DEF CInv
  <1>1. CASE OnTerm
    <2>1. stop_child' \in [Clients -> BOOLEAN]
      <3>1. CASE users = << >>
        BY <1>1, <1>t, <3>1 DEF OnTerm, MemoryTypes
      <3>2. CASE users # << >>
        BY <1>1, <3>2 DEF OnTerm
      <3>3. QED
        BY <3>1, <3>2
    <2>2. UNCHANGED <<woken, share_mem>>
      BY <1>1 DEF OnTerm
    <2>3. QED
      BY <2>1, <2>2, <1>t DEF MemoryTypes
  <1>2. ASSUME NEW c \in Clients, ReadClient(c) PROVE MemoryTypes'
    <2>1. stop_child' \in [Clients -> BOOLEAN]
      <3>1. CASE inbox[c]
        BY <1>2, <1>t, <3>1 DEF ReadClient, MemoryTypes
      <3>2. CASE ~inbox[c]
        <4>1. stop_child' = [stop_child EXCEPT ![c] = @ \/ c \in gone]
          BY <1>2, <3>2 DEF ReadClient
        <4>2. (stop_child[c] \/ c \in gone) \in BOOLEAN
          OBVIOUS
        <4>3. QED
          BY <4>1, <4>2, <1>t, Zenon DEF MemoryTypes
      <3>3. QED
        BY <3>1, <3>2
    <2>2. woken' \in [Clients -> SUBSET {"conn", "pipe"}]
      BY <1>2, <1>t DEF ReadClient, MemoryTypes
    <2>3. share_mem' \in [0..USER_LIMIT - 1 -> Clients \cup {None}]
      BY <1>2, <1>t DEF ReadClient, MemoryTypes
    <2>4. QED
      BY <2>1, <2>2, <2>3 DEF MemoryTypes
  <1>3. ASSUME NEW c \in Clients, Wake(c) \/ \E n \in 0..Len(down[c]) : ReadPipe(c, n)
        PROVE  MemoryTypes'
    <2>1. UNCHANGED <<stop_child, share_mem>>
      BY <1>3 DEF Wake, ReadPipe
    <2>2. woken' \in [Clients -> SUBSET {"conn", "pipe"}]
      <3>1. PICK events \in SUBSET {"conn", "pipe"} : woken' = [woken EXCEPT ![c] = events]
        <4>1. CASE Wake(c)
          BY <4>1 DEF Wake
        <4>2. CASE \E n \in 0..Len(down[c]) : ReadPipe(c, n)
          BY <4>2, <1>t DEF ReadPipe, MemoryTypes
        <4>3. QED
          BY <1>3, <4>1, <4>2
      <3>2. QED
        BY <3>1, <1>t DEF MemoryTypes
    <2>3. QED
      BY <2>1, <2>2, <1>t DEF MemoryTypes
  <1>4. CASE UNCHANGED <<stop_child, woken, share_mem>>
    BY <1>4, <1>t DEF MemoryTypes
  <1>5. ASSUME NEW c \in Clients, \/ Connect(c) \/ Say(c) \/ Leave(c) \/ Reap(c)
                                  \/ CloseSigPipe(c) \/ AddSig(c) \/ Test(c) \/ Enter(c)
                                  \/ Forward(c) \/ EventsDone(c)
                                  \/ \E n \in 0..Len(up[c]) : Relay(c, n)
        PROVE  UNCHANGED <<stop_child, woken, share_mem>>
    BY <1>5 DEF Connect, Say, Leave, Reap, CloseSigPipe, AddSig, Test, Enter, Forward, EventsDone,
                Relay
  <1>6. CASE \/ Term \/ HandleChld \/ EpollWait \/ AcceptFails \/ AcceptRefused \/ Accept
             \/ OnSignals \/ ReapDone \/ Stop \/ UNCHANGED vars
    BY <1>6, <1>4 DEF Term, HandleChld, EpollWait, AcceptFails, AcceptRefused, Accept, OnSignals,
                      ReapDone, Stop, vars
  <1>7. QED
    BY <1>1, <1>2, <1>3, <1>4, <1>5, <1>6 DEF Next, ParentStep, ChildStep
-------------------------------------------------------------------------------
(* The arrays. *)

LEMMA RestTypes ==
    ASSUME NEW S, NEW array \in Seq(S), NEW k \in Nat, NEW rest \in Rests(array, k)
    PROVE  rest \in Seq(S)
  <1>1. CASE rest = << >>
    BY <1>1
  <1>2. CASE \E l \in 1..Len(array) : rest = SubSeq(array, l, Len(array))
    BY <1>2
  <1>3. QED
    BY <1>1, <1>2 DEF Rests, Suffixes

(* Messages reach up to the first NUL of what is left of an array. *)
LEMMA StrlenFinds ==
    ASSUME NEW rest \in Seq(Message \cup {Nul})
    PROVE  Strlen(rest) \in 0..Len(rest) /\ \A i \in 1..Strlen(rest) : rest[i] \in Message
  <1> DEFINE Ends(k) == /\ \A i \in 1..k : rest[i] # Nul
                        /\ k < Len(rest) => rest[k + 1] = Nul
             nuls == {i \in 1..Len(rest) : rest[i] = Nul}
  <1>1. Len(rest) \in Nat /\ nuls \in SUBSET Nat
    OBVIOUS
  <1>2. \E k \in 0..Len(rest) : Ends(k)
    <2>1. CASE nuls = {}
      <3>1. Len(rest) \in 0..Len(rest) /\ Ends(Len(rest))
        BY <1>1, <2>1
      <3>2. QED
        BY <3>1
    <2>2. CASE nuls # {}
      <3>1. PICK m \in nuls : \A i \in nuls : m <= i
        BY <1>1, <2>2, LeastNatural
      <3>2. m \in 1..Len(rest) /\ rest[m] = Nul
        BY <3>1
      <3>3. PICK k \in 0..Len(rest) : k + 1 = m
        <4>1. m - 1 \in 0..Len(rest) /\ (m - 1) + 1 = m
          BY <1>1, <3>2
        <4>2. QED
          BY <4>1
      <3>4. ASSUME NEW i \in 1..k PROVE rest[i] # Nul
        <4>1. i \in 1..Len(rest) /\ ~(m <= i)
          BY <1>1, <3>2, <3>3
        <4>2. i \notin nuls
          BY <3>1, <4>1
        <4>3. QED
          BY <4>1, <4>2
      <3>5. Ends(k)
        BY <3>2, <3>3, <3>4
      <3>6. QED
        BY <3>5
    <2>3. QED
      BY <2>1, <2>2
  <1>3. Strlen(rest) \in 0..Len(rest) /\ Ends(Strlen(rest))
    BY <1>2 DEF Strlen
  <1>4. \A i \in 1..Strlen(rest) : rest[i] \in Message \cup {Nul}
    BY <1>3
  <1>5. QED
    BY <1>3, <1>4

(* What is sent once more consists of messages, all of them marked. *)
LEMMA LeftOverTypes ==
    ASSUME NEW rest \in Seq(Message \cup {Nul})
    PROVE  LeftOver(rest) \in Seq(Message) /\ \A m \in ToSet(LeftOver(rest)) : m.left
  <1>1. PICK k \in Nat : k = Strlen(rest) /\ \A i \in 1..k : rest[i] \in Message
    BY StrlenFinds
  <1>2. PICK s : s = LeftOver(rest)
    OBVIOUS
  <1>3. s = [i \in 1..k |-> [rest[i] EXCEPT !.left = TRUE]]
    BY <1>1, <1>2 DEF LeftOver
  <1>4. ASSUME NEW m \in Message
        PROVE  [m EXCEPT !.left = TRUE] \in Message /\ [m EXCEPT !.left = TRUE].left
    BY DEF Message
  <1>5. \A i \in 1..k : s[i] \in Message /\ s[i].left
    BY <1>1, <1>3, <1>4
  <1>6. s \in Seq(Message) /\ DOMAIN s = 1..k
    BY <1>3, <1>5
  <1>7. QED
    BY <1>2, <1>5, <1>6 DEF ToSet

(* What one recv takes of a pipe, and what it leaves there, are messages. *)
LEMMA CutTypes ==
    ASSUME NEW s \in Seq(Message), NEW n \in 0..Len(s)
    PROVE  SubSeq(s, 1, n) \in Seq(Message) /\ SubSeq(s, n + 1, Len(s)) \in Seq(Message)
  OBVIOUS

(* What an array holds after a recv. *)
LEMMA ArrayTypes ==
    ASSUME NEW s \in Seq(Message), NEW n \in 0..Len(s), NEW array \in Seq(Message \cup {Nul}),
           NEW rest \in Rests(array, n)
    PROVE  /\ rest \in Seq(Message \cup {Nul})
           /\ SubSeq(s, 1, n) \o rest \in Seq(Message \cup {Nul})
  <1>1. rest \in Seq(Message \cup {Nul})
    BY RestTypes
  <1>2. SubSeq(s, 1, n) \in Seq(Message \cup {Nul})
    <2>1. SubSeq(s, 1, n) \in Seq(Message)
      BY CutTypes
    <2>2. QED
      BY <2>1
  <1>3. QED
    BY <1>1, <1>2

(* What a child forwards. *)
LEMMA ForwardTypes ==
    ASSUME CInv, NEW c \in Clients, child[c] = "got"
    PROVE  [by |-> c, n |-> taken[c], text |-> share_mem[idx[c]], left |-> FALSE] \in Message
  <1>1. idx[c] \in 0..USER_LIMIT - 1
    <2>1. idx \in [Clients -> -1..USER_LIMIT - 1] /\ USER_LIMIT \in Nat
      BY TypesOfParts, BoundAssumption DEF CInv, UserTypes
    <2>2. idx[c] # -1
      BY DEF CInv, Indexed, Serving
    <2>3. QED
      BY <2>1, <2>2
  <1>2. share_mem[idx[c]] \in Clients \cup {None}
    BY <1>1 DEF CInv, TypeOK
  <1>3. taken[c] \in Nat \ {0}
    BY DEF CInv, Numbered
  <1>4. QED
    BY <1>2, <1>3 DEF Message

LEMMA BufferStep == CInv /\ [Next]_vars => BufferTypes'
  <1> SUFFICES ASSUME CInv, [Next]_vars PROVE BufferTypes'
    OBVIOUS
  <1> USE DEF buffers
  <1>t. BufferTypes /\ Channels
    BY TypesOfParts DEF CInv
  <1>1. CASE OnSignals
    <2>1. PICK rest \in Rests(parentBuffer, 0) : parentBuffer' = rest
      BY <1>1 DEF OnSignals
    <2>2. parentBuffer' \in Seq(Message \cup {Nul})
      BY <2>1, <1>t, RestTypes DEF BufferTypes
    <2>3. QED
      BY <1>1, <2>2, <1>t DEF OnSignals, BufferTypes
  <1>2. ASSUME NEW c \in Clients, NEW n \in 0..Len(up[c]), Relay(c, n) PROVE BufferTypes'
    <2>1. up[c] \in Seq(Message) /\ parentBuffer \in Seq(Message \cup {Nul})
      BY <1>t DEF Channels, BufferTypes
    <2>2. childBuffer' = childBuffer
      BY <1>2 DEF Relay
    <2>3. \/ parentBuffer' = parentBuffer
          \/ \E rest \in Rests(parentBuffer, n) : parentBuffer' = SubSeq(up[c], 1, n) \o rest
      BY <1>2 DEF Relay
    <2>4. parentBuffer' \in Seq(Message \cup {Nul})
      BY <2>1, <2>3, ArrayTypes
    <2>5. QED
      BY <2>2, <2>4, <1>t DEF BufferTypes
  <1>3. ASSUME NEW c \in Clients, NEW array \in Seq(Message \cup {Nul}),
               parentBuffer' = parentBuffer, childBuffer' = [childBuffer EXCEPT ![c] = array]
        PROVE  BufferTypes'
    BY <1>3, <1>t DEF BufferTypes
  <1>4. ASSUME NEW c \in Clients, Forward(c) PROVE BufferTypes'
    <2>1. PICK m \in Message :
             /\ parentBuffer' = parentBuffer
             /\ \E rest \in Rests(childBuffer[c], 2) :
                   childBuffer' = [childBuffer EXCEPT ![c] = <<m, Nul>> \o rest]
      <3>1. PICK m : m = [by |-> c, n |-> taken[c], text |-> share_mem[idx[c]], left |-> FALSE]
        OBVIOUS
      <3>2. m \in Message
        BY <1>4, <3>1, ForwardTypes DEF Forward
      <3>3. QED
        BY <1>4, <3>1, <3>2 DEF Forward
    <2>2. PICK rest \in Rests(childBuffer[c], 2) :
             childBuffer' = [childBuffer EXCEPT ![c] = <<m, Nul>> \o rest]
      BY <2>1
    <2>3. rest \in Seq(Message \cup {Nul})
      BY <1>t, RestTypes DEF BufferTypes
    <2>4. <<m, Nul>> \o rest \in Seq(Message \cup {Nul})
      <3>1. <<m, Nul>> \in Seq(Message \cup {Nul})
        OBVIOUS
      <3>2. QED
        BY <2>3, <3>1
    <2>5. QED
      BY <2>1, <2>2, <2>4, <1>3
  <1>5. ASSUME NEW c \in Clients, NEW n \in 0..Len(down[c]), ReadPipe(c, n) PROVE BufferTypes'
    <2>1. down[c] \in Seq(Message) /\ childBuffer[c] \in Seq(Message \cup {Nul})
      BY <1>t DEF Channels, BufferTypes
    <2>2. parentBuffer' = parentBuffer
      BY <1>5 DEF ReadPipe
    <2>3. \/ childBuffer' = childBuffer
          \/ \E rest \in Rests(childBuffer[c], n) :
                childBuffer' = [childBuffer EXCEPT ![c] = SubSeq(down[c], 1, n) \o rest]
      BY <1>5 DEF ReadPipe
    <2>4. CASE childBuffer' = childBuffer
      BY <2>2, <2>4, <1>t DEF BufferTypes
    <2>5. CASE childBuffer' # childBuffer
      <3>1. PICK rest \in Rests(childBuffer[c], n) :
               childBuffer' = [childBuffer EXCEPT ![c] = SubSeq(down[c], 1, n) \o rest]
        BY <2>3, <2>5
      <3>2. SubSeq(down[c], 1, n) \o rest \in Seq(Message \cup {Nul})
        BY <2>1, ArrayTypes
      <3>3. QED
        BY <2>2, <3>1, <3>2, <1>3
    <2>6. QED
      BY <2>4, <2>5
  <1>6. CASE UNCHANGED buffers
    BY <1>6, <1>t DEF BufferTypes
  <1>7. ASSUME NEW c \in Clients, \/ Connect(c) \/ Say(c) \/ Leave(c) \/ Reap(c)
                                  \/ CloseSigPipe(c) \/ AddSig(c) \/ Test(c) \/ Enter(c)
                                  \/ Wake(c) \/ ReadClient(c) \/ EventsDone(c)
        PROVE  UNCHANGED buffers
    BY <1>7 DEF Connect, Say, Leave, Reap, CloseSigPipe, AddSig, Test, Enter, Wake, ReadClient,
                EventsDone
  <1>8. CASE \/ Term \/ HandleChld \/ EpollWait \/ AcceptFails \/ AcceptRefused \/ Accept
             \/ ReapDone \/ OnTerm \/ Stop \/ UNCHANGED vars
    BY <1>8, <1>6 DEF Term, HandleChld, EpollWait, AcceptFails, AcceptRefused, Accept, ReapDone,
                      OnTerm, Stop, vars
  <1>9. QED
    BY <1>1, <1>2, <1>4, <1>5, <1>6, <1>7, <1>8 DEF Next, ParentStep, ChildStep
-------------------------------------------------------------------------------
(* Messages. *)

(* Who is about to forward a message. *)
LEMMA GotStep ==
    ASSUME CInv, [Next]_vars, NEW c \in Clients, child'[c] = "got"
    PROVE  child[c] = "got" \/ ReadClient(c)
  <1> USE DEF parentVars, childVars, Goto
  <1>t. child \in [Clients -> ChildLabels]
    BY DEF CInv, TypeOK
  <1>1. CASE AcceptRefused \/ Accept \/ OnTerm
    BY <1>1, <1>t DEF AcceptRefused, Accept, OnTerm
  <1>2. ASSUME NEW d \in Clients, Reap(d) PROVE child[c] = "got"
    BY <1>2, <1>t DEF Reap
  <1>3. ASSUME NEW d \in Clients, \/ CloseSigPipe(d) \/ AddSig(d) \/ Test(d) \/ Enter(d)
                                  \/ Wake(d) \/ Forward(d) \/ EventsDone(d)
        PROVE  child[c] = "got"
    BY <1>3, <1>t DEF CloseSigPipe, AddSig, Test, Enter, Wake, Forward, EventsDone
  <1>4. ASSUME NEW d \in Clients, ReadClient(d) PROVE child[c] = "got" \/ ReadClient(c)
    BY <1>4, <1>t DEF ReadClient
  <1>5. ASSUME NEW d \in Clients, \/ Connect(d) \/ Say(d) \/ Leave(d)
                                  \/ \E n \in 0..Len(up[d]) : Relay(d, n)
                                  \/ \E n \in 0..Len(down[d]) : ReadPipe(d, n)
        PROVE  child[c] = "got"
    BY <1>5 DEF Connect, Say, Leave, Relay, ReadPipe
  <1>6. CASE \/ Term \/ HandleChld \/ EpollWait \/ AcceptFails \/ OnSignals \/ ReapDone \/ Stop
             \/ UNCHANGED vars
    BY <1>6 DEF Term, HandleChld, EpollWait, AcceptFails, OnSignals, ReapDone, Stop, vars
  <1>7. QED
    BY <1>1, <1>2, <1>3, <1>4, <1>5, <1>6 DEF Next, ParentStep, ChildStep

(* The steps that say, read, relay or forward, and what they leave alone. *)
LEMMA MessageSteps ==
    ASSUME [Next]_vars
    PROVE  \/ \E c \in Clients : Say(c) \/ ReadClient(c) \/ Forward(c)
           \/ \E c \in Clients : \E n \in 0..Len(up[c]) : Relay(c, n)
           \/ \E c \in Clients : \E n \in 0..Len(down[c]) : ReadPipe(c, n)
           \/ UNCHANGED <<said, taken, inbox, up, down, heard>>
  <1> USE DEF pipes, clientVars
  <1>1. ASSUME NEW c \in Clients, \/ Connect(c) \/ Leave(c) \/ Reap(c)
                                  \/ CloseSigPipe(c) \/ AddSig(c) \/ Test(c) \/ Enter(c)
                                  \/ Wake(c) \/ EventsDone(c)
        PROVE  UNCHANGED <<said, taken, inbox, up, down, heard>>
    BY <1>1 DEF Connect, Leave, Reap, CloseSigPipe, AddSig, Test, Enter, Wake, EventsDone
  <1>2. CASE \/ Term \/ HandleChld \/ EpollWait \/ AcceptFails \/ AcceptRefused \/ Accept
             \/ OnSignals \/ ReapDone \/ OnTerm \/ Stop \/ UNCHANGED vars
    BY <1>2 DEF Term, HandleChld, EpollWait, AcceptFails, AcceptRefused, Accept, OnSignals,
                ReapDone, OnTerm, Stop, vars
  <1>3. QED
    BY <1>1, <1>2 DEF Next, ParentStep, ChildStep

(* What one recv leaves in a pipe, and the text that is sent on after it. *)
Kept(s, n) == SubSeq(s, n + 1, Len(s))
Sent(s, n, rest) == SubSeq(s, 1, n) \o LeftOver(rest)

LEMMA SentTypes ==
    ASSUME NEW s \in Seq(Message), NEW n \in 0..Len(s), NEW rest \in Seq(Message \cup {Nul})
    PROVE  Sent(s, n, rest) \in Seq(Message) /\ Kept(s, n) \in Seq(Message)
  <1>1. PICK t, q \in Seq(Message) : t = SubSeq(s, 1, n) /\ q = Kept(s, n)
    BY CutTypes DEF Kept
  <1>2. PICK l \in Seq(Message) : l = LeftOver(rest)
    BY LeftOverTypes
  <1>3. t \o l \in Seq(Message)
    OBVIOUS
  <1>4. Sent(s, n, rest) = t \o l
    BY <1>1, <1>2 DEF Sent
  <1>5. QED
    BY <1>1, <1>3, <1>4

LEMMA RelaySends ==
    ASSUME NEW c, NEW n, Relay(c, n), ~UNCHANGED <<up, down>>
    PROVE  \E rest \in Rests(parentBuffer, n) :
              /\ up' = [up EXCEPT ![c] = Kept(up[c], n)]
              /\ down' = [d \in Clients |-> IF d \in Others(c)
                                            THEN down[d] \o Sent(up[c], n, rest) ELSE down[d]]
  <1>1. c \in ToSet(users) /\ up[c] # << >>
    BY DEF Relay
  <1>2. QED
    BY <1>1 DEF Relay, Kept, Sent

LEMMA PipeReads ==
    ASSUME NEW c, NEW n, ReadPipe(c, n), ~UNCHANGED <<down, heard>>
    PROVE  \E rest \in Rests(childBuffer[c], n) :
              /\ down' = [down EXCEPT ![c] = Kept(down[c], n)]
              /\ heard' = [heard EXCEPT ![c] = heard[c] \o Sent(down[c], n, rest)]
  <1>1. down[c] # << >>
    BY DEF ReadPipe
  <1>2. QED
    BY <1>1 DEF ReadPipe, Kept, Sent

LEMMA MessageStep == CInv /\ [Next]_vars => Numbered' /\ Channels'
  <1> SUFFICES ASSUME CInv, [Next]_vars PROVE Numbered' /\ Channels'
    OBVIOUS
  <1> USE BoundAssumption DEF pipes
  <1>t. /\ Numbered /\ Channels /\ BufferTypes
        /\ child \in [Clients -> ChildLabels]
    BY TypesOfParts DEF CInv, TypeOK
  <1>g. \A c \in Clients : child'[c] = "got" => child[c] = "got" \/ ReadClient(c)
    BY GotStep
  <1>1. ASSUME NEW c \in Clients, Say(c) PROVE Numbered' /\ Channels'
    <2>1. /\ said' = [said EXCEPT ![c] = said[c] + 1]
          /\ inbox' = [inbox EXCEPT ![c] = TRUE]
          /\ UNCHANGED <<taken, child, up, down, heard>>
      BY <1>1 DEF Say, childVars
    <2>2. QED
      BY <2>1, <1>t DEF Numbered, Channels
  <1>2. ASSUME NEW c \in Clients, ReadClient(c) PROVE Numbered' /\ Channels'
    <2>1. UNCHANGED <<said, up, down, heard>>
      BY <1>2 DEF ReadClient
    <2>2. CASE inbox[c]
      <3>1. /\ taken' = [taken EXCEPT ![c] = said[c]]
            /\ inbox' = [inbox EXCEPT ![c] = FALSE]
            /\ child' = [child EXCEPT ![c] = "got"]
        BY <1>2, <2>2 DEF ReadClient, Goto
      <3>2. said[c] \in Nat \ {0} /\ taken[c] < said[c]
        BY <2>2, <1>t DEF Numbered
      <3>3. inbox' \in [Clients -> BOOLEAN] /\ taken' \in [Clients -> Nat]
        BY <3>1, <3>2, <1>t DEF Numbered
      <3>4. \A d \in Clients : d # c =>
               taken'[d] = taken[d] /\ child'[d] = child[d] /\ inbox'[d] = inbox[d]
        BY <3>1, <1>t DEF Numbered
      <3>5. taken'[c] = said[c] /\ ~inbox'[c]
        BY <3>1, <1>t DEF Numbered
      <3>6. \A d \in Clients : /\ taken'[d] <= said[d]
                               /\ inbox'[d] => taken'[d] < said[d]
                               /\ child'[d] = "got" => taken'[d] > 0
        <4> TAKE d \in Clients
        <4>1. CASE d = c
          BY <4>1, <3>2, <3>5
        <4>2. CASE d # c
          BY <4>2, <3>4, <1>t DEF Numbered
        <4>3. QED
          BY <4>1, <4>2
      <3>7. QED
        BY <2>1, <3>3, <3>6, <1>t DEF Numbered, Channels
    <2>3. CASE ~inbox[c]
      BY <1>2, <1>t, <2>1, <2>3 DEF ReadClient, Numbered, Channels
    <2>4. QED
      BY <2>2, <2>3
  <1>3. ASSUME NEW c \in Clients, Forward(c) PROVE Numbered' /\ Channels'
    <2> DEFINE m == [by |-> c, n |-> taken[c], text |-> share_mem[idx[c]], left |-> FALSE]
    <2>1. /\ up' = [up EXCEPT ![c] = Append(up[c], m)]
          /\ UNCHANGED <<said, taken, inbox, down, heard>>
          /\ child[c] = "got"
      BY <1>3 DEF Forward, clientVars
    <2>2. m \in Message
      BY <2>1, ForwardTypes
    <2>3. Append(up[c], m) \in Seq(Message)
      BY <2>2, <1>t DEF Channels
    <2>4. \A d \in Clients : child'[d] = "got" => child[d] = "got"
      BY <1>3, <1>t DEF Forward, Goto
    <2> HIDE DEF m
    <2>5. QED
      BY <2>1, <2>3, <2>4, <1>t DEF Numbered, Channels
  <1>4. ASSUME NEW c \in Clients, NEW n \in 0..Len(up[c]), Relay(c, n)
        PROVE  Numbered' /\ Channels'
    <2>1. UNCHANGED <<said, taken, inbox, heard, child>>
      BY <1>4 DEF Relay, clientVars, childVars
    <2>2. PICK p \in Seq(Message), q \in Seq(Message) :
             \/ UNCHANGED <<up, down>>
             \/ /\ up' = [up EXCEPT ![c] = q]
                /\ down' = [d \in Clients |-> IF d \in Others(c) THEN down[d] \o p ELSE down[d]]
      <3>1. CASE UNCHANGED <<up, down>>
        <4>1. << >> \in Seq(Message)
          OBVIOUS
        <4>2. QED
          BY <3>1, <4>1
      <3>2. CASE ~UNCHANGED <<up, down>>
        <4>1. PICK rest \in Rests(parentBuffer, n) :
                 /\ up' = [up EXCEPT ![c] = Kept(up[c], n)]
                 /\ down' = [d \in Clients |-> IF d \in Others(c)
                                               THEN down[d] \o Sent(up[c], n, rest) ELSE down[d]]
          BY <1>4, <3>2, RelaySends
        <4>2. rest \in Seq(Message \cup {Nul})
          BY RestTypes, <1>t DEF BufferTypes
        <4>3. Sent(up[c], n, rest) \in Seq(Message) /\ Kept(up[c], n) \in Seq(Message)
          BY <4>2, <1>t, SentTypes DEF Channels
        <4>4. QED
          BY <4>1, <4>3
      <3>3. QED
        BY <3>1, <3>2
    <2>3. \A d \in Clients : down[d] \o p \in Seq(Message)
      BY <1>t DEF Channels
    <2>4. Channels'
      <3>1. CASE UNCHANGED <<up, down>>
        BY <2>1, <3>1, <1>t DEF Channels
      <3>2. CASE ~UNCHANGED <<up, down>>
        <4>1. \A d \in Clients : (IF d \in Others(c) THEN down[d] \o p ELSE down[d]) \in Seq(Message)
          BY <2>3, <1>t DEF Channels
        <4>2. down' \in [Clients -> Seq(Message)]
          BY <2>2, <3>2, <4>1
        <4>3. QED
          BY <2>1, <2>2, <3>2, <4>2, <1>t DEF Channels
      <3>3. QED
        BY <3>1, <3>2
    <2>5. QED
      BY <2>1, <2>4, <1>t DEF Numbered
  <1>5. ASSUME NEW c \in Clients, NEW n \in 0..Len(down[c]), ReadPipe(c, n)
        PROVE  Numbered' /\ Channels'
    <2>1. UNCHANGED <<said, taken, inbox, up, child>>
      BY <1>5 DEF ReadPipe
    <2>2. PICK p \in Seq(Message), q \in Seq(Message) :
             \/ UNCHANGED <<down, heard>>
             \/ /\ down' = [down EXCEPT ![c] = q]
                /\ heard' = [heard EXCEPT ![c] = heard[c] \o p]
      <3>1. CASE UNCHANGED <<down, heard>>
        <4>1. << >> \in Seq(Message)
          OBVIOUS
        <4>2. QED
          BY <3>1, <4>1
      <3>2. CASE ~UNCHANGED <<down, heard>>
        <4>1. PICK rest \in Rests(childBuffer[c], n) :
                 /\ down' = [down EXCEPT ![c] = Kept(down[c], n)]
                 /\ heard' = [heard EXCEPT ![c] = heard[c] \o Sent(down[c], n, rest)]
          BY <1>5, <3>2, PipeReads
        <4>2. rest \in Seq(Message \cup {Nul})
          BY RestTypes, <1>t DEF BufferTypes
        <4>3. Sent(down[c], n, rest) \in Seq(Message) /\ Kept(down[c], n) \in Seq(Message)
          BY <4>2, <1>t, SentTypes DEF Channels
        <4>4. QED
          BY <4>1, <4>3
      <3>3. QED
        BY <3>1, <3>2
    <2>3. heard[c] \o p \in Seq(Message)
      BY <1>t DEF Channels
    <2>4. Channels'
      BY <2>1, <2>2, <2>3, <1>t DEF Channels
    <2>5. QED
      BY <2>1, <2>4, <1>t DEF Numbered
  <1>6. CASE UNCHANGED <<said, taken, inbox, up, down, heard>>
    <2>1. \A c \in Clients : ReadClient(c) => ~inbox[c]
      BY <1>6, <1>t DEF ReadClient, Numbered
    <2>2. \A c \in Clients : child'[c] = "got" => child[c] = "got"
      BY <1>g, <2>1 DEF ReadClient
    <2>3. QED
      BY <1>6, <1>t, <2>2 DEF Numbered, Channels
  <1>7. QED
    BY <1>1, <1>2, <1>3, <1>4, <1>5, <1>6, MessageSteps

LEMMA CInvStep == CInv /\ [Next]_vars => CInv'
  <1> SUFFICES ASSUME CInv, [Next]_vars PROVE CInv'
    OBVIOUS
  <1>1. /\ FlagTypes' /\ UserTypes' /\ Indexed' /\ LoopTypes' /\ Signalled' /\ MemoryTypes'
        /\ BufferTypes'
    BY FlagStep, UserStep, LoopStep, MemoryStep, BufferStep, TypesOfParts DEF CInv
  <1>2. Numbered' /\ Channels'
    BY MessageStep
  <1>3. TypeOK'
    <2>1. \A c \in Clients :
             (up[c] \in Seq(Message))' /\ (down[c] \in Seq(Message))' /\ (heard[c] \in Seq(Message))'
      BY <1>2 DEF Channels
    <2>2. QED
      BY <1>1, <2>1 DEF TypeOK, FlagTypes, UserTypes, LoopTypes, MemoryTypes, BufferTypes
  <1>4. QED
    BY <1>1, <1>2, <1>3, TablesStep DEF CInv

(* Type correctness: the index of a child is that of a segment, and there is
   never more than one user for each of these. *)
THEOREM ChatroomTypes == Spec => []TypeOK
  <1>1. CInv => TypeOK
    BY DEF CInv
  <1>2. QED
    BY CInvInit, CInvStep, <1>1, PTL DEF Spec

(* users and sub_process list the same children at the same places, in whatever
   order these exit and are reaped. *)
THEOREM ChatroomTablesAgree == Spec => []TablesAgree
  <1>1. CInv => TablesAgree
    BY DEF CInv
  <1>2. QED
    BY CInvInit, CInvStep, <1>1, PTL DEF Spec
-------------------------------------------------------------------------------
(* Order. *)

(* The first n of the messages in a pipe are read, and come before the rest. *)
LEMMA CutInOrder ==
    ASSUME NEW s \in Seq(Message), NEW n \in 0..Len(s), InOrder(s),
           NEW p, p = SubSeq(s, 1, n), NEW q, q = SubSeq(s, n + 1, Len(s))
    PROVE  /\ p \in Seq(Message) /\ q \in Seq(Message)
           /\ ToSet(p) \subseteq ToSet(s) /\ ToSet(q) \subseteq ToSet(s)
           /\ InOrder(p) /\ InOrder(q) /\ Before(p, q)
  <1>1. /\ p \in Seq(Message) /\ DOMAIN p = 1..n /\ \A i \in 1..n : p[i] = s[i]
        /\ q \in Seq(Message) /\ DOMAIN q = 1..Len(s) - n
        /\ \A i \in 1..Len(s) - n : q[i] = s[n + i]
        /\ DOMAIN s = 1..Len(s) /\ Len(s) \in Nat
    BY Cut
  <1>2. ToSet(p) \subseteq ToSet(s) /\ ToSet(q) \subseteq ToSet(s)
    <2>1. \A i \in 1..n : i \in 1..Len(s)
      BY <1>1
    <2>2. \A i \in 1..Len(s) - n : n + i \in 1..Len(s)
      BY <1>1
    <2>3. ToSet(p) \subseteq ToSet(s)
      BY <1>1, <2>1 DEF ToSet
    <2>4. ToSet(q) \subseteq ToSet(s)
      BY <1>1, <2>2 DEF ToSet
    <2>5. QED
      BY <2>3, <2>4
  <1>3. InOrder(p)
    <2>1. ASSUME NEW i \in 1..n, NEW j \in 1..n, i < j, Fresh(p[i], p[j])
          PROVE  p[i].n < p[j].n
      <3>1. i \in DOMAIN s /\ j \in DOMAIN s
        BY <1>1
      <3>2. QED
        BY <1>1, <2>1, <3>1 DEF InOrder
    <2>2. QED
      BY <1>1, <2>1 DEF InOrder
  <1>4. InOrder(q)
    <2>1. ASSUME NEW i \in 1..Len(s) - n, NEW j \in 1..Len(s) - n, i < j, Fresh(q[i], q[j])
          PROVE  q[i].n < q[j].n
      <3>1. n + i \in DOMAIN s /\ n + j \in DOMAIN s
        BY <1>1
      <3>2. n + i < n + j
        BY <1>1, i < j
      <3>3. QED
        BY <1>1, <2>1, <3>1, <3>2 DEF InOrder
    <2>2. QED
      BY <1>1, <2>1 DEF InOrder
  <1>5. Before(p, q)
    <2>1. ASSUME NEW i \in 1..n, NEW j \in 1..Len(s) - n, Fresh(p[i], q[j])
          PROVE  p[i].n < q[j].n
      <3>1. i < n + j /\ i \in DOMAIN s /\ n + j \in DOMAIN s
        BY <1>1
      <3>2. QED
        BY <1>1, <2>1, <3>1 DEF InOrder
    <2>2. ASSUME NEW m \in ToSet(p), NEW k \in ToSet(q), Fresh(m, k) PROVE m.n < k.n
      <3>1. PICK i \in 1..n : m = p[i]
        BY <1>1 DEF ToSet
      <3>2. PICK j \in 1..Len(s) - n : k = q[j]
        BY <1>1 DEF ToSet
      <3>3. QED
        BY <2>1, <2>2, <3>1, <3>2
    <2>3. QED
      BY <2>2 DEF Before
  <1>6. QED
    BY <1>1, <1>2, <1>3, <1>4, <1>5

(* Messages that come after those of a pipe are put behind them. *)
LEMMA JoinInOrder ==
    ASSUME NEW s \in Seq(Message), NEW p \in Seq(Message), InOrder(s), InOrder(p), Before(s, p)
    PROVE  /\ s \o p \in Seq(Message)
           /\ ToSet(s \o p) = ToSet(s) \cup ToSet(p)
           /\ InOrder(s \o p)
  <1> DEFINE r == s \o p
             k == Len(s)
             l == Len(p)
  <1>1. /\ r \in Seq(Message) /\ DOMAIN r = 1..k + l /\ k \in Nat /\ l \in Nat
        /\ DOMAIN s = 1..k /\ DOMAIN p = 1..l
        /\ \A i \in 1..k : r[i] = s[i]
        /\ \A i \in 1..l : r[k + i] = p[i]
    BY Joined
  <1> HIDE DEF r, k, l
  <1>2. \A i \in 1..k + l : i \in 1..k \/ (i - k \in 1..l /\ r[i] = p[i - k])
    <2> TAKE i \in 1..k + l
    <2>1. i \in 1..k \/ i - k \in 1..l
      BY <1>1
    <2>2. i = k + (i - k)
      BY <1>1
    <2>3. QED
      BY <2>1, <2>2, <1>1
  <1>3. \A i \in 1..l : k + i \in 1..k + l
    BY <1>1
  <1>4. \A i \in 1..k : i \in 1..k + l
    BY <1>1
  <1>5. ToSet(r) \subseteq ToSet(s) \cup ToSet(p)
    BY <1>1, <1>2 DEF ToSet
  <1>6. ToSet(s) \subseteq ToSet(r)
    BY <1>1, <1>4 DEF ToSet
  <1>7. ToSet(p) \subseteq ToSet(r)
    BY <1>1, <1>3 DEF ToSet
  <1>8. ASSUME NEW i \in 1..k + l, NEW j \in 1..k + l, i < j, Fresh(r[i], r[j])
        PROVE  r[i].n < r[j].n
    <2>1. CASE i \in 1..k /\ j \in 1..k
      BY <1>1, <1>8, <2>1 DEF InOrder
    <2>2. CASE i \in 1..k /\ j \notin 1..k
      BY <1>1, <1>2, <1>8, <2>2 DEF Before, ToSet
    <2>3. CASE i \notin 1..k /\ j \notin 1..k
      <3>1. i - k \in 1..l /\ j - k \in 1..l /\ r[i] = p[i - k] /\ r[j] = p[j - k]
        BY <1>2, <2>3
      <3>2. i - k < j - k
        BY <1>1, <1>8
      <3>3. Fresh(p[i - k], p[j - k])
        BY <1>8, <3>1
      <3>4. p[i - k].n < p[j - k].n
        BY <1>1, <3>1, <3>2, <3>3 DEF InOrder
      <3>5. QED
        BY <3>1, <3>4
    <2>4. QED
      BY <1>1, <1>8, <2>1, <2>2, <2>3
  <1>9. InOrder(r)
    BY <1>1, <1>8 DEF InOrder
  <1>10. QED
    BY <1>1, <1>5, <1>6, <1>7, <1>9 DEF r

(* The text in an array is the first n messages of a pipe and what is left in
   the array. *)
LEMMA TextInOrder ==
    ASSUME NEW s \in Seq(Message), NEW n \in 0..Len(s), InOrder(s),
           NEW rest \in Seq(Message \cup {Nul})
    PROVE  \E p, q \in Seq(Message) :
              /\ p = Sent(s, n, rest) /\ q = Kept(s, n)
              /\ \A m \in ToSet(p) : m.left \/ m \in ToSet(s)
              /\ ToSet(q) \subseteq ToSet(s)
              /\ InOrder(p) /\ InOrder(q) /\ Before(p, q)
  <1>1. PICK t, q : t = SubSeq(s, 1, n) /\ q = SubSeq(s, n + 1, Len(s))
    OBVIOUS
  <1>2. /\ t \in Seq(Message) /\ q \in Seq(Message)
        /\ ToSet(t) \subseteq ToSet(s) /\ ToSet(q) \subseteq ToSet(s)
        /\ InOrder(t) /\ InOrder(q) /\ Before(t, q)
    BY <1>1, CutInOrder
  <1>3. PICK l \in Seq(Message) : l = LeftOver(rest) /\ \A m \in ToSet(l) : m.left
    BY LeftOverTypes
  <1>4. InOrder(l) /\ Before(t, l) /\ Before(l, q)
    BY <1>3 DEF InOrder, Before, Fresh, ToSet
  <1>5. PICK p \in Seq(Message) : /\ p = t \o l
                                 /\ ToSet(p) = ToSet(t) \cup ToSet(l) /\ InOrder(p)
    BY <1>2, <1>3, <1>4, JoinInOrder
  <1>6. Before(p, q)
    BY <1>2, <1>4, <1>5 DEF Before
  <1>m. \A m \in ToSet(p) : m.left \/ m \in ToSet(s)
    BY <1>2, <1>3, <1>5
  <1>7. p = Sent(s, n, rest) /\ q = Kept(s, n)
    BY <1>1, <1>3, <1>5 DEF Sent, Kept
  <1>8. QED
    BY <1>2, <1>5, <1>6, <1>7, <1>m

(* A client's messages are read one after the other: the number of the last one
   grows when its child has another to forward. *)
LEMMA TakenStep ==
    ASSUME CInv, [Next]_vars, NEW c \in Clients
    PROVE  /\ taken[c] \in Nat /\ taken'[c] \in Nat
           /\ taken'[c] >= taken[c]
           /\ child'[c] = "got" => child[c] = "got" \/ taken'[c] > taken[c]
  <1>t. /\ Numbered /\ child \in [Clients -> ChildLabels]
    BY DEF CInv, TypeOK
  <1>n. taken[c] \in Nat
    BY <1>t DEF Numbered
  <1>g. child'[c] = "got" => child[c] = "got" \/ ReadClient(c)
    BY GotStep
  <1>1. ASSUME NEW d \in Clients, ReadClient(d)
        PROVE  \/ taken' = taken /\ child' = child
               \/ /\ taken' = [taken EXCEPT ![d] = said[d]] /\ said[d] > taken[d]
                  /\ said[d] \in Nat
    BY <1>1, <1>t DEF ReadClient, Numbered
  <1>2. CASE \E d \in Clients : ReadClient(d)
    <2>1. PICK d \in Clients : ReadClient(d)
      BY <1>2
    <2>2. CASE taken' = taken /\ child' = child
      BY <2>2, <1>n
    <2>3. CASE ~(taken' = taken /\ child' = child)
      <3>1. /\ taken' = [taken EXCEPT ![d] = said[d]] /\ said[d] > taken[d]
            /\ said[d] \in Nat
        BY <2>1, <2>3, <1>1
      <3>2. taken'[c] = IF c = d THEN said[d] ELSE taken[c]
        BY <3>1, <1>t DEF Numbered
      <3>3. c # d => ~ReadClient(c)
        <4>1. child' = [child EXCEPT ![d] = "got"] /\ woken'[c] = IF c = d THEN woken'[c] ELSE woken[c]
          BY <2>1, <2>3, <1>1, <1>t DEF ReadClient, Goto, CInv, TypeOK
        <4>2. ASSUME c # d, ReadClient(c) PROVE FALSE
          <5>1. "conn" \in woken[c] /\ woken' = [woken EXCEPT ![c] = woken[c] \ {"conn"}]
            BY <4>2 DEF ReadClient
          <5>2. woken \in [Clients -> SUBSET {"conn", "pipe"}]
            BY DEF CInv, TypeOK
          <5>3. "conn" \notin woken'[c]
            BY <5>1, <5>2
          <5>4. QED
            BY <4>1, <4>2, <5>1, <5>3
        <4>3. QED
          BY <4>2
      <3>4. QED
        BY <3>1, <3>2, <3>3, <1>g, <1>n
    <2>4. QED
      BY <2>2, <2>3
  <1>3. CASE ~\E d \in Clients : ReadClient(d)
    <2>1. taken' = taken
      BY <1>3, MessageSteps DEF Say, Forward, Relay, ReadPipe, clientVars
    <2>2. child'[c] = "got" => child[c] = "got"
      BY <1>3, <1>g
    <2>3. QED
      BY <2>1, <2>2, <1>n
  <1>4. QED
    BY <1>2, <1>3

(* A message that was read before what is about to be forwarded remains so. *)
LEMMA ForwardedStep ==
    ASSUME CInv, [Next]_vars, NEW m \in Message, Forwarded(m)
    PROVE  Forwarded(m)'
  <1>1. m.by \in Clients /\ m.n \in Nat
    BY BoundAssumption DEF Message
  <1>2. /\ taken[m.by] \in Nat /\ taken'[m.by] \in Nat
        /\ taken'[m.by] >= taken[m.by]
        /\ child'[m.by] = "got" => child[m.by] = "got" \/ taken'[m.by] > taken[m.by]
    BY <1>1, TakenStep
  <1>3. QED
    BY <1>1, <1>2 DEF Forwarded

(* What comes before both of two, and what both come before. *)
LEMMA BeforeBoth ==
    ASSUME NEW s, NEW t, NEW r, NEW u, ToSet(r) \subseteq ToSet(s) \cup ToSet(t)
    PROVE  /\ Before(s, u) /\ Before(t, u) => Before(r, u)
           /\ Before(u, s) /\ Before(u, t) => Before(u, r)
  BY DEF Before

(* What holds of the messages of the pipes is what holds of their order, and of
   where each of them can be. *)
Places ==
    \A c \in Clients :
        /\ \A m \in ToSet(up[c]) : ~m.left /\ m.by = c
        /\ \A m \in ToSet(down[c]) \cup ToSet(heard[c]) : ~m.left => m.by # c
AllForwarded ==
    \A c \in Clients : \A m \in ToSet(up[c]) \cup ToSet(down[c]) \cup ToSet(heard[c]) : Forwarded(m)
Sorted ==
    \A c \in Clients :
        /\ InOrder(up[c]) /\ InOrder(down[c]) /\ InOrder(heard[c])
        /\ Before(heard[c], down[c])
        /\ \A b \in Clients : Before(heard[c], up[b]) /\ Before(down[c], up[b])

LEMMA OrderedParts == Ordered <=> Places /\ AllForwarded /\ Sorted
  BY DEF Ordered, Places, AllForwarded, Sorted

(* The elements of a pipe are messages. *)
LEMMA ElementTypes == ASSUME NEW s \in Seq(Message) PROVE ToSet(s) \subseteq Message
  BY DEF ToSet

(* A message that is forwarded has a greater number than those its sender has
   forwarded before. *)
LEMMA OrderedForward ==
    ASSUME CInv, Ordered, [Next]_vars, NEW c \in Clients, Forward(c)
    PROVE  Ordered'
  <1>t. /\ Numbered /\ Channels /\ child \in [Clients -> ChildLabels]
        /\ Numbered' /\ Channels'
    BY MessageStep DEF CInv, TypeOK
  <1>o. Places /\ AllForwarded /\ Sorted
    BY OrderedParts
  <1>1. /\ up' = [up EXCEPT ![c] = Append(up[c], [by |-> c, n |-> taken[c],
                                                  text |-> share_mem[idx[c]],
                                                  left |-> FALSE])]
        /\ child' = [child EXCEPT ![c] = "events"]
        /\ down' = down /\ heard' = heard /\ taken' = taken
        /\ child[c] = "got"
    BY DEF Forward, Goto, clientVars
  <1>2. PICK m : /\ ~m.left /\ m.by = c /\ m.n = taken[c]
                 /\ up' = [up EXCEPT ![c] = Append(up[c], m)]
    <2>1. PICK m : m = [by |-> c, n |-> taken[c], text |-> share_mem[idx[c]], left |-> FALSE]
      OBVIOUS
    <2>2. QED
      BY <2>1, <1>1
  <1>3. m \in Message
    <2>1. up'[c] \in Seq(Message) /\ up'[c] = Append(up[c], m) /\ up[c] \in Seq(Message)
      BY <1>2, <1>t DEF Channels
    <2>2. Len(up[c]) + 1 \in DOMAIN up'[c] /\ up'[c][Len(up[c]) + 1] = m
      BY <2>1
    <2>3. QED
      BY <2>1, <2>2
  <1>4. \A d \in Clients : /\ up[d] \in Seq(Message) /\ ToSet(up'[d]) \subseteq Message
                           /\ up'[d] = IF d = c THEN Append(up[c], m) ELSE up[d]
    BY <1>2, <1>t, ElementTypes DEF Channels
  <1>5. ToSet(up'[c]) = ToSet(up[c]) \cup {m}
    BY <1>3, <1>4, PushAdds
  <1>6. Forwarded(m)'
    <2>1. child'[c] = "events" /\ taken'[c] = taken[c] /\ taken[c] \in Nat
      BY <1>1, <1>t, BoundAssumption DEF Numbered
    <2>2. QED
      BY <1>2, <2>1 DEF Forwarded
  <1>7. \A k \in Message : Fresh(k, m) /\ Forwarded(k) => k.n < m.n
    BY <1>1, <1>2 DEF Forwarded, Fresh
  <1>8. Places'
    <2>1. ASSUME NEW d \in Clients, NEW k \in ToSet(up'[d]) PROVE ~k.left /\ k.by = d
      <3>1. CASE d = c
        BY <2>1, <3>1, <1>2, <1>5, <1>o DEF Places
      <3>2. CASE d # c
        BY <2>1, <3>2, <1>4, <1>o DEF Places
      <3>3. QED
        BY <3>1, <3>2
    <2>2. \A d \in Clients : \A k \in ToSet(down'[d]) \cup ToSet(heard'[d]) : ~k.left => k.by # d
      BY <1>1, <1>o DEF Places
    <2>3. QED
      BY <2>1, <2>2 DEF Places
  <1>9. \A d \in Clients : ToSet(down[d]) \subseteq Message /\ ToSet(heard[d]) \subseteq Message
                           /\ ToSet(up[d]) \subseteq Message
    BY <1>t, ElementTypes DEF Channels
  <1>10. AllForwarded'
    <2>1. \A k \in Message : Forwarded(k) => Forwarded(k)'
      BY ForwardedStep
    <2>2. ASSUME NEW d \in Clients, NEW k \in ToSet(up'[d]) \cup ToSet(down[d]) \cup ToSet(heard[d])
          PROVE  Forwarded(k)'
      <3>1. k = m \/ k \in ToSet(up[d]) \cup ToSet(down[d]) \cup ToSet(heard[d])
        BY <2>2, <1>4, <1>5
      <3>2. k \in Message
        BY <3>1, <1>3, <1>9
      <3>3. CASE k = m
        BY <3>3, <1>6
      <3>4. CASE k \in ToSet(up[d]) \cup ToSet(down[d]) \cup ToSet(heard[d])
        <4>1. Forwarded(k)
          BY <3>4, <1>o DEF AllForwarded
        <4>2. QED
          BY <4>1, <3>2, <2>1
      <3>5. QED
        BY <3>1, <3>3, <3>4
    <2>3. QED
      BY <2>2, <1>1 DEF AllForwarded
  <1>11. Sorted'
    <2>1. InOrder(Append(up[c], m))
      <3>1. DOMAIN up[c] = 1..Len(up[c]) /\ Len(up[c]) \in Nat
            /\ DOMAIN Append(up[c], m) = 1..Len(up[c]) + 1
            /\ \A i \in 1..Len(up[c]) : Append(up[c], m)[i] = up[c][i]
            /\ Append(up[c], m)[Len(up[c]) + 1] = m
        BY <1>3, <1>4
      <3>2. \A i \in 1..Len(up[c]) : Fresh(up[c][i], m) => up[c][i].n < m.n
        <4> TAKE i \in 1..Len(up[c])
        <4>1. up[c][i] \in ToSet(up[c])
          BY <3>1 DEF ToSet
        <4>2. Forwarded(up[c][i]) /\ up[c][i] \in Message
          BY <4>1, <1>o, <1>9 DEF AllForwarded
        <4>3. QED
          BY <4>2, <1>7
      <3>3. InOrder(up[c])
        BY <1>o DEF Sorted
      <3> DEFINE l == Len(up[c])
                 s == up[c]
                 r == Append(s, m)
      <3>4. /\ DOMAIN s = 1..l /\ l \in Nat /\ DOMAIN r = 1..l + 1 /\ r[l + 1] = m
            /\ \A i \in 1..l : r[i] = s[i] /\ (Fresh(s[i], m) => s[i].n < m.n)
            /\ InOrder(s)
        BY <3>1, <3>2, <3>3
      <3> HIDE DEF l, s, r
      <3>5. ASSUME NEW i \in 1..l + 1, NEW j \in 1..l + 1, i < j, Fresh(r[i], r[j])
            PROVE  r[i].n < r[j].n
        <4>1. i \in 1..l /\ (j \in 1..l \/ j = l + 1)
          BY <3>4, i < j
        <4>2. CASE j \in 1..l
          BY <3>4, <3>5, <4>1, <4>2 DEF InOrder
        <4>3. CASE j = l + 1
          BY <3>4, <3>5, <4>1, <4>3
        <4>4. QED
          BY <4>1, <4>2, <4>3
      <3>6. InOrder(r)
        BY <3>4, <3>5 DEF InOrder
      <3>7. QED
        BY <3>6 DEF r, s
    <2>2. \A d \in Clients : InOrder(up'[d])
      BY <2>1, <1>4, <1>o DEF Sorted
    <2>3. ASSUME NEW d \in Clients
          PROVE  Before(heard[d], up'[c]) /\ Before(down[d], up'[c])
      <3>1. \A k \in ToSet(down[d]) \cup ToSet(heard[d]) : Fresh(k, m) => k.n < m.n
        BY <1>o, <1>7, <1>9 DEF AllForwarded
      <3>2. Before(heard[d], up[c]) /\ Before(down[d], up[c])
        BY <1>o DEF Sorted
      <3>3. QED
        BY <3>1, <3>2, <1>2, <1>5 DEF Before
    <2>4. QED
      BY <2>2, <2>3, <1>1, <1>4, <1>o DEF Sorted
  <1>12. QED
    BY <1>8, <1>10, <1>11, OrderedParts, PTL

(* A step after which every message in a pipe is left-over text or was in one
   before. *)
LEMMA AllForwardedStep ==
    ASSUME CInv, Ordered, [Next]_vars,
           \A c \in Clients :
              \A m \in (ToSet(up[c]) \cup ToSet(down[c]) \cup ToSet(heard[c]))' :
                 \/ m.left
                 \/ \E d \in Clients : m \in ToSet(up[d]) \cup ToSet(down[d]) \cup ToSet(heard[d])
    PROVE  AllForwarded'
  <1>1. \A d \in Clients : ToSet(down[d]) \subseteq Message /\ ToSet(heard[d]) \subseteq Message
                           /\ ToSet(up[d]) \subseteq Message
    BY ElementTypes DEF CInv, Channels
  <1>2. \A m \in Message : Forwarded(m) => Forwarded(m)'
    BY ForwardedStep
  <1>3. ASSUME NEW c \in Clients, NEW m \in (ToSet(up[c]) \cup ToSet(down[c]) \cup ToSet(heard[c]))'
        PROVE  Forwarded(m)'
    <2>1. CASE m.left
      BY <2>1 DEF Forwarded
    <2>2. CASE ~m.left
      <3>1. PICK d \in Clients : m \in ToSet(up[d]) \cup ToSet(down[d]) \cup ToSet(heard[d])
        BY <1>3, <2>2
      <3>2. m \in Message /\ Forwarded(m)
        BY <3>1, <1>1, OrderedParts DEF AllForwarded
      <3>3. QED
        BY <3>2, <1>2
    <2>3. QED
      BY <2>1, <2>2
  <1>4. QED
    BY <1>3 DEF AllForwarded

(* One recv takes the first messages of a child's pipe and sends them to each of
   the others, behind what is on its way to these. *)
LEMMA OrderedRelay ==
    ASSUME CInv, Ordered, [Next]_vars, NEW c \in Clients, NEW n \in 0..Len(up[c]), Relay(c, n)
    PROVE  Ordered'
  <1>t. Channels /\ Channels'
    BY MessageStep DEF CInv
  <1>o. Places /\ AllForwarded /\ Sorted
    BY OrderedParts
  <1>h. heard' = heard
    BY DEF Relay, clientVars
  <1>1. CASE UNCHANGED <<up, down>>
    <2>1. AllForwarded'
      BY <1>1, <1>h, AllForwardedStep
    <2>2. Places' /\ Sorted'
      BY <1>1, <1>h, <1>o DEF Places, Sorted
    <2>3. QED
      BY <2>1, <2>2, OrderedParts, PTL
  <1>2. CASE ~UNCHANGED <<up, down>>
    <2>1. PICK p, q :
             /\ p \in Seq(Message) /\ q \in Seq(Message)
             /\ \A m \in ToSet(p) : m.left \/ m \in ToSet(up[c])
             /\ ToSet(q) \subseteq ToSet(up[c])
             /\ InOrder(p) /\ InOrder(q) /\ Before(p, q)
             /\ up' = [up EXCEPT ![c] = q]
             /\ down' = [d \in Clients |-> IF d \in Others(c) THEN down[d] \o p ELSE down[d]]
      <3>1. up[c] \in Seq(Message) /\ InOrder(up[c])
        BY <1>t, <1>o DEF Channels, Sorted
      <3>2. PICK rest \in Rests(parentBuffer, n) :
               /\ up' = [up EXCEPT ![c] = Kept(up[c], n)]
               /\ down' = [d \in Clients |-> IF d \in Others(c)
                                             THEN down[d] \o Sent(up[c], n, rest) ELSE down[d]]
        BY <1>2, RelaySends
      <3>3. rest \in Seq(Message \cup {Nul})
        BY RestTypes, TypesOfParts DEF CInv, BufferTypes
      <3>4. PICK p, q \in Seq(Message) :
               /\ p = Sent(up[c], n, rest) /\ q = Kept(up[c], n)
               /\ \A m \in ToSet(p) : m.left \/ m \in ToSet(up[c])
               /\ ToSet(q) \subseteq ToSet(up[c])
               /\ InOrder(p) /\ InOrder(q) /\ Before(p, q)
        BY <3>1, <3>3, TextInOrder
      <3>5. QED
        BY <3>2, <3>4
    <2>2. \A d \in Clients : /\ up[d] \in Seq(Message) /\ down[d] \in Seq(Message)
                             /\ up'[d] = IF d = c THEN q ELSE up[d]
                             /\ ToSet(up'[d]) \subseteq ToSet(up[d])
      BY <2>1, <1>t DEF Channels
    <2>3. \A d \in Clients : Before(down[d], p) /\ Before(heard[d], p)
                             /\ Before(down[d], q) /\ Before(heard[d], q)
      <3> TAKE d \in Clients
      <3>1. Before(down[d], up[c]) /\ Before(heard[d], up[c])
        BY <1>o DEF Sorted
      <3>2. QED
        BY <3>1, <2>1 DEF Before, Fresh
    <2>4. ASSUME NEW d \in Clients
          PROVE  /\ InOrder(down'[d])
                 /\ ToSet(down'[d]) \subseteq ToSet(down[d]) \cup ToSet(p)
                 /\ d = c => down'[d] = down[d]
      <3>1. CASE d \in Others(c)
        <4>1. down'[d] = down[d] \o p /\ d # c
          BY <2>1, <3>1 DEF Others
        <4>2. InOrder(down[d] \o p) /\ ToSet(down[d] \o p) = ToSet(down[d]) \cup ToSet(p)
          BY <2>1, <2>2, <2>3, <1>o, JoinInOrder DEF Sorted
        <4>3. QED
          BY <4>1, <4>2
      <3>2. CASE d \notin Others(c)
        <4>1. down'[d] = down[d]
          BY <2>1, <3>2
        <4>2. QED
          BY <4>1, <1>o DEF Sorted
      <3>3. QED
        BY <3>1, <3>2
    <2>5. AllForwarded'
      BY <2>1, <2>2, <2>4, <1>h, AllForwardedStep
    <2>6. Places'
      <3>1. \A m \in ToSet(p) : ~m.left => m.by = c
        BY <2>1, <1>o DEF Places
      <3>2. ASSUME NEW d \in Clients, NEW m \in ToSet(down'[d]), ~m.left PROVE m.by # d
        BY <2>4, <3>1, <3>2, <1>o DEF Places
      <3>3. QED
        BY <3>2, <2>2, <1>h, <1>o DEF Places
    <2>7. Sorted'
      <3>1. \A d \in Clients : InOrder(up'[d]) /\ InOrder(down'[d]) /\ InOrder(heard[d])
        BY <2>1, <2>2, <2>4, <1>o DEF Sorted
      <3>2. \A d \in Clients : Before(heard[d], down'[d])
        BY <2>3, <2>4, <1>o, BeforeBoth DEF Sorted
      <3>3. \A d, b \in Clients : Before(heard[d], up'[b])
        BY <2>2, <2>3, <1>o DEF Sorted
      <3>4. \A b \in Clients : Before(p, up'[b])
        <4> TAKE b \in Clients
        <4>1. CASE b = c
          BY <4>1, <2>1, <2>2
        <4>2. CASE b # c
          <5>1. /\ \A m \in ToSet(p) : ~m.left => m.by = c
                /\ \A m \in ToSet(up'[b]) : m.by = b
            BY <2>1, <2>2, <1>o DEF Places
          <5>2. QED
            BY <5>1, <4>2 DEF Before, Fresh
        <4>3. QED
          BY <4>1, <4>2
      <3>5. \A d, b \in Clients : Before(down[d], up'[b])
        BY <2>2, <2>3, <1>o DEF Sorted
      <3>6. \A d, b \in Clients : Before(down'[d], up'[b])
        BY <2>4, <3>4, <3>5, BeforeBoth
      <3>7. QED
        BY <3>1, <3>2, <3>3, <3>6, <1>h DEF Sorted
    <2>8. QED
      BY <2>5, <2>6, <2>7, OrderedParts, PTL
  <1>3. QED
    BY <1>1, <1>2

(* A client is sent the first messages of its pipe, behind what it has heard. *)
LEMMA OrderedReadPipe ==
    ASSUME CInv, Ordered, [Next]_vars, NEW c \in Clients, NEW n \in 0..Len(down[c]), ReadPipe(c, n)
    PROVE  Ordered'
  <1>t. Channels /\ Channels'
    BY MessageStep DEF CInv
  <1>o. Places /\ AllForwarded /\ Sorted
    BY OrderedParts
  <1>u. up' = up
    BY DEF ReadPipe
  <1>1. CASE UNCHANGED <<down, heard>>
    <2>1. AllForwarded'
      BY <1>1, <1>u, AllForwardedStep
    <2>2. Places' /\ Sorted'
      BY <1>1, <1>u, <1>o DEF Places, Sorted
    <2>3. QED
      BY <2>1, <2>2, OrderedParts, PTL
  <1>2. CASE ~UNCHANGED <<down, heard>>
    <2>1. PICK p, q :
             /\ p \in Seq(Message) /\ q \in Seq(Message)
             /\ \A m \in ToSet(p) : m.left \/ m \in ToSet(down[c])
             /\ ToSet(q) \subseteq ToSet(down[c])
             /\ InOrder(p) /\ InOrder(q) /\ Before(p, q)
             /\ down' = [down EXCEPT ![c] = q]
             /\ heard' = [heard EXCEPT ![c] = heard[c] \o p]
      <3>1. down[c] \in Seq(Message) /\ InOrder(down[c])
        BY <1>t, <1>o DEF Channels, Sorted
      <3>2. PICK rest \in Rests(childBuffer[c], n) :
               /\ down' = [down EXCEPT ![c] = Kept(down[c], n)]
               /\ heard' = [heard EXCEPT ![c] = heard[c] \o Sent(down[c], n, rest)]
        BY <1>2, PipeReads
      <3>3. rest \in Seq(Message \cup {Nul})
        BY RestTypes, TypesOfParts DEF CInv, BufferTypes
      <3>4. PICK p, q \in Seq(Message) :
               /\ p = Sent(down[c], n, rest) /\ q = Kept(down[c], n)
               /\ \A m \in ToSet(p) : m.left \/ m \in ToSet(down[c])
               /\ ToSet(q) \subseteq ToSet(down[c])
               /\ InOrder(p) /\ InOrder(q) /\ Before(p, q)
        BY <3>1, <3>3, TextInOrder
      <3>5. QED
        BY <3>2, <3>4
    <2>2. Before(heard[c], p) /\ Before(heard[c], q)
      <3>1. Before(heard[c], down[c])
        BY <1>o DEF Sorted
      <3>2. QED
        BY <3>1, <2>1 DEF Before, Fresh
    <2>3. InOrder(heard[c] \o p) /\ ToSet(heard[c] \o p) = ToSet(heard[c]) \cup ToSet(p)
      BY <2>1, <2>2, <1>t, <1>o, JoinInOrder DEF Channels, Sorted
    <2>4. /\ down'[c] = q /\ heard'[c] = heard[c] \o p
          /\ \A d \in Clients : d # c => down'[d] = down[d] /\ heard'[d] = heard[d]
      BY <2>1, <1>t DEF Channels
    <2>5. AllForwarded'
      BY <2>1, <2>3, <2>4, <1>u, AllForwardedStep
    <2>6. Places'
      BY <2>1, <2>3, <2>4, <1>u, <1>o DEF Places
    <2>7. Sorted'
      <3>1. InOrder(down'[c]) /\ InOrder(heard'[c]) /\ Before(heard'[c], down'[c])
        BY <2>1, <2>2, <2>3, <2>4, BeforeBoth
      <3>2. \A b \in Clients : Before(heard'[c], up[b]) /\ Before(down'[c], up[b])
        <4> TAKE b \in Clients
        <4>1. Before(heard[c], up[b]) /\ Before(down[c], up[b])
          BY <1>o DEF Sorted
        <4>2. QED
          BY <4>1, <2>1, <2>3, <2>4 DEF Before, Fresh
      <3>3. QED
        BY <3>1, <3>2, <2>4, <1>u, <1>o DEF Sorted
    <2>8. QED
      BY <2>5, <2>6, <2>7, OrderedParts, PTL
  <1>3. QED
    BY <1>1, <1>2

LEMMA OrderedStep == CInv /\ Ordered /\ [Next]_vars => Ordered'
  <1> SUFFICES ASSUME CInv, Ordered, [Next]_vars PROVE Ordered'
    OBVIOUS
  <1>1. CASE UNCHANGED <<up, down, heard>>
    <2>1. Places /\ Sorted
      BY OrderedParts
    <2>2. Places' /\ Sorted'
      BY <1>1, <2>1 DEF Places, Sorted
    <2>3. AllForwarded'
      BY <1>1, AllForwardedStep
    <2>4. QED
      BY <2>2, <2>3, OrderedParts, PTL
  <1>2. ASSUME NEW c \in Clients, Say(c) \/ ReadClient(c) PROVE UNCHANGED <<up, down, heard>>
    BY <1>2 DEF Say, ReadClient, pipes
  <1>3. QED
    BY <1>1, <1>2, MessageSteps, OrderedForward, OrderedRelay, OrderedReadPipe

(* A client never hears itself, and hears the messages of another in the order
   they were sent, however the pipes are cut into reads and whoever comes and
   goes in between. *)
THEOREM ChatroomRelayInOrder == Spec => []RelayInOrder
  <1>1. CInv /\ Ordered => RelayInOrder
    BY DEF Ordered, RelayInOrder, InOrder, Fresh, ToSet
  <1>2. QED
    BY CInvInit, CInvStep, OrderedStep, <1>1, PTL DEF Spec
===============================================================================

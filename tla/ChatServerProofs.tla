---------------------------- MODULE ChatServerProofs ----------------------------
(***************************************************************************)
(* Machine-checked facts about ChatServer, for any number of clients,      *)
(* USER_LIMIT and number of messages: the table of pollfds lists the open  *)
(* descriptors, each once, in the middle of a scan too, and a client is    *)
(* only sent what was copied for it, although users[] is not cleared when  *)
(* a descriptor is given to another client.                                *)
(***************************************************************************)
EXTENDS ChatServer, ContainerLemmas

-------------------------------------------------------------------------------
(* The inductive invariant. *)

EntryType == [fd : Fds, out : BOOLEAN, revents : SUBSET {"ERR", "RDHUP", "IN", "OUT"}]

(* The descriptors of a table of pollfds, entry by entry. *)
FdsOf(table) == [i \in 1..Len(table) |-> table[i].fd]

Open == {f \in Fds : conn[f] # None}

(* The table lists the open descriptors, each once. *)
Listed ==
    /\ fds \in Seq(EntryType) /\ Len(fds) <= USER_LIMIT
    /\ conn \in [Fds -> Clients \cup {None}]
    /\ IsInjective(FdsOf(fds)) /\ ToSet(FdsOf(fds)) = Open
    /\ \A i \in DOMAIN fds : "OUT" \in fds[i].revents => fds[i].out

(* The scan is within the table, and finds a client where poll reported one. *)
Scanning ==
    /\ scan \in -1..user_counter
    /\ scan = 0 /\ listening => backlog # << >>

(* A client waits once, or has one descriptor, and only once it has connected. *)
Apart ==
    /\ \A f, g \in Open : conn[f] = conn[g] => f = g
    /\ backlog \in Seq(Clients) /\ IsInjective(backlog)
    /\ ToSet(backlog) \cap Connected = {}
    /\ said \in [Clients -> -1..MaxMessages]
    /\ \A c \in Connected \cup ToSet(backlog) : said[c] # -1

(* What the kernel knows is about clients that are there; a client of which
   something is unread has said something. *)
Known ==
    /\ unread \cup hungUp \cup error \subseteq Connected \cup ToSet(backlog)
    /\ \A c \in unread : said[c] > 0

(* A message by a client that has been read; it is not its last when there is
   another one that has not. *)
WasRead(by, n) ==
    /\ by \in Clients /\ n \in 1..MaxMessages
    /\ n <= said[by] /\ (by \in unread => n < said[by])

(* A copy made for the client c that it has not been sent, nor a later one. *)
Fresh(c, m) ==
    \E by \in Clients \ {c}, n \in 1..MaxMessages :
        /\ m = Message(c, by, n) /\ WasRead(by, n)
        /\ \A k \in n..MaxMessages : Message(c, by, k) \notin ToSet(heard[c])

Messages == {Message(to, by, n) : to \in Clients, by \in Clients, n \in 1..MaxMessages}

(* Who is polled for writing has nothing to be sent or something fresh. *)
Owned ==
    /\ write_buf \in [Fds -> Messages \cup {Null, Wild, Freed}]
    /\ \A i \in DOMAIN fds :
          fds[i].out => \/ write_buf[fds[i].fd] = Null
                        \/ Fresh(conn[fds[i].fd], write_buf[fds[i].fd])

(* What has been sent had been read. *)
Heard ==
    /\ heard \in [Clients -> Seq(Messages)]
    /\ \A c, by \in Clients, n \in 1..MaxMessages :
          Message(c, by, n) \in ToSet(heard[c]) => WasRead(by, n)

CInv == Listed /\ Scanning /\ Apart /\ Known /\ Owned /\ Heard

-------------------------------------------------------------------------------
(* The operators of the model. *)

(* A message says whom it is for, whose it is and which one of these. *)
LEMMA MessageParts ==
    /\ \A to, by, n, to2, by2, n2 :
          Message(to, by, n) = Message(to2, by2, n2) => to = to2 /\ by = by2 /\ n = n2
    /\ \A to, by, n : /\ Message(to, by, n) # Null /\ Message(to, by, n) # Wild
                      /\ Message(to, by, n) # Freed
  BY DEF Message, Null, Wild, Freed

(* The column of descriptors of a table. *)
LEMMA Column ==
    ASSUME NEW t \in Seq(EntryType)
    PROVE  /\ FdsOf(t) \in Seq(Fds) /\ Len(FdsOf(t)) = Len(t) /\ DOMAIN t = 1..Len(t)
           /\ DOMAIN FdsOf(t) = 1..Len(t) /\ Len(t) \in Nat
           /\ \A i \in 1..Len(t) : /\ FdsOf(t)[i] = t[i].fd /\ t[i] \in EntryType
                                   /\ t[i].fd \in Fds
  <1>1. DOMAIN t = 1..Len(t) /\ Len(t) \in Nat /\ \A i \in 1..Len(t) : t[i] \in EntryType
    OBVIOUS
  <1>2. \A i \in 1..Len(t) : t[i].fd \in Fds
    BY <1>1 DEF EntryType
  <1>3. FdsOf(t) \in [1..Len(t) -> Fds]
    BY <1>2 DEF FdsOf
  <1>4. FdsOf(t) \in Seq(Fds)
    BY <1>1, <1>3
  <1>5. Len(FdsOf(t)) = Len(t) /\ DOMAIN FdsOf(t) = 1..Len(t)
    BY <1>1, <1>3, <1>4
  <1>6. \A i \in 1..Len(t) : FdsOf(t)[i] = t[i].fd
    BY DEF FdsOf
  <1>7. QED
    BY <1>1, <1>2, <1>4, <1>5, <1>6

(* The entry that is looked at is that of a client that is connected. *)
LEMMA EntryFacts ==
    ASSUME Listed, Scanning, scan > 0
    PROVE  /\ scan \in 1..Len(fds) /\ Len(fds) \in Nat \ {0} /\ fds[scan] \in EntryType
           /\ Fd = fds[scan].fd /\ Fd \in Fds /\ Fd \in Open /\ conn[Fd] \in Clients
  <1>1. scan \in 1..Len(fds) /\ Len(fds) \in Nat \ {0}
    BY DEF Listed, Scanning, user_counter
  <1>2. fds[scan] \in EntryType /\ fds[scan].fd \in Fds /\ fds[scan].fd = FdsOf(fds)[scan]
    BY <1>1, Column DEF Listed
  <1>3. fds[scan].fd \in ToSet(FdsOf(fds))
    BY <1>1, <1>2, Column DEF ToSet, Listed
  <1>4. QED
    BY <1>1, <1>2, <1>3 DEF Listed, Open, Fd, Entry

(* There is a descriptor for every client that waits: those that are open belong
   to other clients, one each. *)
LEMMA FreeFd ==
    ASSUME Listed, Apart, backlog # << >>
    PROVE  /\ Min({f \in Fds : conn[f] = None}) \in Fds
           /\ conn[Min({f \in Fds : conn[f] = None})] = None
  <1> DEFINE free == {f \in Fds : conn[f] = None}
             b == Head(backlog)
  <1>1. NumClients \in Nat /\ Fds = 1..NumClients /\ Clients = 1..NumClients
    BY LimitAssumption DEF Fds, Clients
  <1>2. b \in ToSet(backlog) /\ b \in Clients
    BY PopRemoves DEF Apart
  <1>3. b \notin Connected
    BY <1>2 DEF Apart
  <1>4. free # {}
    <2>1. SUFFICES ASSUME free = {} PROVE FALSE
      OBVIOUS
    <2>2. \A f \in Fds : conn[f] \in Clients \ {b}
      BY <2>1, <1>3 DEF Listed, Connected
    <2>3. \A f, g \in Fds : conn[f] = conn[g] => f = g
      BY <2>1 DEF Apart, Open
    <2>4. conn \in Injection(Fds, Clients \ {b})
      BY <2>2, <2>3 DEF Injection, Listed, IsInjective
    <2>5. IsFiniteSet(Clients) /\ Cardinality(Clients) = NumClients
          /\ IsFiniteSet(Fds) /\ Cardinality(Fds) = NumClients
      BY <1>1, FS_Interval
    <2>6. IsFiniteSet(Clients \ {b}) /\ Cardinality(Clients \ {b}) = NumClients - 1
      BY <1>2, <2>5, FS_RemoveElement
    <2>7. Cardinality(Fds) <= Cardinality(Clients \ {b})
      BY <2>4, <2>6, FS_Injection
    <2>8. QED
      BY <1>1, <2>5, <2>6, <2>7
  <1>5. free \in SUBSET Nat
    BY <1>1
  <1> HIDE DEF free
  <1>6. Min(free) \in free
    BY <1>4, <1>5, MinIsLeast
  <1>7. QED
    BY <1>6 DEF free

-------------------------------------------------------------------------------
(* The clients and what the kernel knows of them. *)

(* A client can only say something as long as the bound has not been reached. *)
LEMMA SayBelowBound ==
    ASSUME CInv, NEW c \in Clients, Cardinality(Said) < MaxMessages
    PROVE  said[c] < MaxMessages
  <1>1. said[c] \in -1..MaxMessages /\ MaxMessages \in Nat /\ NumClients \in Nat
    BY LimitAssumption DEF CInv, Apart
  <1>2. SUFFICES ASSUME said[c] = MaxMessages PROVE FALSE
    BY <1>1
  <1> DEFINE own == {c} \X (1..MaxMessages)
  <1>3. own \subseteq Said
    BY <1>1, <1>2 DEF Said
  <1>4. IsFiniteSet(1..MaxMessages) /\ Cardinality(1..MaxMessages) = MaxMessages
    BY <1>1, FS_Interval
  <1>5. IsFiniteSet(Clients)
    BY <1>1, FS_Interval DEF Clients
  <1>6. IsFiniteSet(Clients \X (1..MaxMessages))
    BY <1>4, <1>5, FS_Product
  <1>7. Said \subseteq Clients \X (1..MaxMessages)
    BY DEF Said
  <1>8. IsFiniteSet(Said)
    BY <1>6, <1>7, FS_Subset
  <1>9. IsFiniteSet({c}) /\ Cardinality({c}) = 1
    BY FS_Singleton
  <1>10. Cardinality(own) = 1 * MaxMessages
    <2>1. PICK S, T : S = {c} /\ T = 1..MaxMessages
      OBVIOUS
    <2>2. /\ IsFiniteSet(S) /\ Cardinality(S) = 1
          /\ IsFiniteSet(T) /\ Cardinality(T) = MaxMessages
      BY <1>4, <1>9, <2>1
    <2>3. Cardinality(S \X T) = 1 * MaxMessages
      BY <2>2, FS_Product
    <2>4. QED
      BY <2>1, <2>3
  <1>11. Cardinality(own) <= Cardinality(Said)
    BY <1>3, <1>8, FS_Subset
  <1>12. Cardinality(Said) \in Nat
    BY <1>8, FS_CardinalityType
  <1> HIDE DEF own
  <1>13. QED
    BY <1>1, <1>10, <1>11, <1>12

(* The number of a client's messages grows, with each one that is unread. *)
LEMMA SaidStep ==
    ASSUME CInv, [Next]_vars
    PROVE  /\ said' \in [Clients -> -1..MaxMessages]
           /\ \A c \in Clients :
                 /\ said'[c] >= said[c] /\ said[c] \in Int /\ said'[c] \in Int
                 /\ c \in unread' => c \in unread \/ said'[c] > said[c]
  <1>t. said \in [Clients -> -1..MaxMessages] /\ MaxMessages \in Nat
    BY LimitAssumption DEF CInv, Apart
  <1> USE DEF kernel, server
  <1>1. CASE said' = said /\ unread' \subseteq unread
    BY <1>1, <1>t
  <1>2. ASSUME NEW c \in Clients, Connect(c)
        PROVE  unread' = unread /\ said' = [said EXCEPT ![c] = 0] /\ said[c] = -1
    BY <1>2 DEF Connect
  <1>3. ASSUME NEW c \in Clients, Say(c)
        PROVE  /\ unread' = unread \cup {c} /\ said' = [said EXCEPT ![c] = said[c] + 1]
               /\ said[c] < MaxMessages
    BY <1>3, SayBelowBound DEF Say
  <1>4. ASSUME NEW c \in Clients, Leave(c) PROVE said' = said /\ unread' \subseteq unread
    BY <1>4 DEF Leave
  <1>5. CASE ServerStep \/ UNCHANGED vars
    <2>1. said' = said /\ unread' \subseteq unread
      BY <1>5 DEF ServerStep, Poll, Accept, AcceptRefused, Forget, OnError, OnHangUp, Read, Write,
                  Skip, vars
    <2>2. QED
      BY <2>1, <1>1
  <1>6. ASSUME NEW c \in Clients, Connect(c) \/ Say(c)
        PROVE  /\ said' \in [Clients -> -1..MaxMessages]
               /\ \A d \in Clients :
                     /\ said'[d] >= said[d] /\ said[d] \in Int /\ said'[d] \in Int
                     /\ d \in unread' => d \in unread \/ said'[d] > said[d]
    <2>1. CASE Connect(c)
      BY <2>1, <1>2, <1>t
    <2>2. CASE Say(c)
      BY <2>2, <1>3, <1>t
    <2>3. QED
      BY <1>6, <2>1, <2>2
  <1>7. QED
    BY <1>1, <1>4, <1>5, <1>6 DEF Next

(* The steps that do not accept or close anything. *)
LEMMA SameClients ==
    ASSUME CInv, UNCHANGED <<conn, backlog>>, said' \in [Clients -> -1..MaxMessages],
           \A c \in Connected \cup ToSet(backlog) : said'[c] # -1,
           (unread \cup hungUp \cup error)' \subseteq Connected \cup ToSet(backlog),
           \A c \in unread' : said'[c] > 0
    PROVE  Apart' /\ Known'
  <1>1. Apart /\ Known
    BY DEF CInv
  <1>2. Connected' = Connected /\ Open' = Open
    BY DEF Connected, Open
  <1>3. Apart'
    BY <1>1, <1>2 DEF Apart
  <1>4. Known'
    BY <1>2 DEF Known
  <1>5. QED
    BY <1>3, <1>4

(* The steps that close a connection or refuse one: who is left is as before. *)
LEMMA ClientGone ==
    ASSUME CInv, NEW c, Forget(c), said' = said,
           Connected' \cup ToSet(backlog') = (Connected \cup ToSet(backlog)) \ {c}
    PROVE  Known'
  <1>1. Known
    BY DEF CInv
  <1>2. (unread \cup hungUp \cup error)' = (unread \cup hungUp \cup error) \ {c}
    BY DEF Forget
  <1>3. \A d \in unread' : said'[d] > 0
    BY <1>1 DEF Forget, Known
  <1>4. QED
    BY <1>1, <1>2, <1>3 DEF Known

LEMMA AcceptClients ==
    ASSUME CInv, Accept
    PROVE  Apart' /\ Known'
  <1>t. Listed /\ Apart /\ Known
    BY DEF CInv
  <1>1. backlog # << >>
    BY DEF Accept, CInv, Scanning
  <1>2. PICK f, c : f = Min({g \in Fds : conn[g] = None}) /\ c = Head(backlog)
    OBVIOUS
  <1>3. /\ backlog' = Tail(backlog) /\ conn' = [conn EXCEPT ![f] = c]
        /\ UNCHANGED <<unread, hungUp, error, said>>
    BY <1>2 DEF Accept
  <1>4. f \in Fds /\ conn[f] = None
    BY <1>1, <1>2, <1>t, FreeFd
  <1>5. /\ c \in ToSet(backlog) /\ ToSet(backlog') = ToSet(backlog) \ {c}
        /\ IsInjective(backlog')
    BY <1>1, <1>2, <1>3, <1>t, PopRemoves DEF Apart
  <1>6. c \in Clients /\ backlog' \in Seq(Clients)
    BY <1>1, <1>2, <1>3, <1>t DEF Apart
  <1>7. \A g \in Fds : conn'[g] = IF g = f THEN c ELSE conn[g]
    BY <1>3, <1>t DEF Listed
  <1>8. c # None
    BY <1>6 DEF Clients, None
  <1>9. Connected' = Connected \cup {c} /\ Open' = Open \cup {f}
    BY <1>4, <1>7, <1>8 DEF Connected, Open
  <1>10. c \notin Connected
    BY <1>5, <1>t DEF Apart
  <1>11. \A g \in Open : conn[g] \in Connected /\ g # f
    BY <1>4 DEF Open, Connected
  <1>12. Apart'
    <2>1. ASSUME NEW g \in Open', NEW h \in Open', conn'[g] = conn'[h] PROVE g = h
      <3>1. (g = f \/ g \in Open) /\ (h = f \/ h \in Open) /\ Open \subseteq Fds
        BY <1>9 DEF Open
      <3>2. QED
        BY <2>1, <3>1, <1>4, <1>7, <1>10, <1>11, <1>t DEF Apart
    <2>2. ToSet(backlog') \cap Connected' = {}
      BY <1>5, <1>9, <1>t DEF Apart
    <2>3. \A d \in Connected' \cup ToSet(backlog') : said'[d] # -1
      BY <1>3, <1>5, <1>9, <1>t DEF Apart
    <2>4. QED
      BY <1>3, <1>5, <1>6, <2>1, <2>2, <2>3, <1>t DEF Apart
  <1>13. Known'
    BY <1>3, <1>5, <1>9, <1>t DEF Known
  <1>14. QED
    BY <1>12, <1>13

LEMMA RefuseClients ==
    ASSUME CInv, AcceptRefused
    PROVE  Apart' /\ Known'
  <1>t. Listed /\ Apart /\ Known
    BY DEF CInv
  <1>1. backlog # << >>
    BY DEF AcceptRefused, CInv, Scanning
  <1>2. PICK c : c = Head(backlog)
    OBVIOUS
  <1>3. backlog' = Tail(backlog) /\ Forget(c) /\ UNCHANGED <<conn, said>>
    BY <1>2 DEF AcceptRefused
  <1>4. /\ c \in ToSet(backlog) /\ ToSet(backlog') = ToSet(backlog) \ {c}
        /\ IsInjective(backlog')
    BY <1>1, <1>2, <1>3, <1>t, PopRemoves DEF Apart
  <1>5. backlog' \in Seq(Clients)
    BY <1>1, <1>3, <1>t DEF Apart
  <1>6. Connected' = Connected /\ Open' = Open
    BY <1>3 DEF Connected, Open
  <1>7. c \notin Connected
    BY <1>4, <1>t DEF Apart
  <1>8. Apart'
    BY <1>3, <1>4, <1>5, <1>6, <1>t DEF Apart
  <1>9. Known'
    BY <1>3, <1>4, <1>6, <1>7, ClientGone
  <1>10. QED
    BY <1>8, <1>9

LEMMA HangUpClients ==
    ASSUME CInv, OnHangUp
    PROVE  Apart' /\ Known'
  <1>t. Listed /\ Apart /\ Known /\ Scanning
    BY DEF CInv
  <1>1. scan > 0
    BY DEF OnHangUp, Has
  <1>2. PICK f, c : f = Fd /\ c = conn[f]
    OBVIOUS
  <1>3. f \in Fds /\ f \in Open /\ c \in Clients
    BY <1>1, <1>2, <1>t, EntryFacts
  <1>4. conn' = [conn EXCEPT ![f] = None] /\ Forget(c) /\ UNCHANGED <<backlog, said>>
    BY <1>2 DEF OnHangUp
  <1>5. \A g \in Fds : conn'[g] = IF g = f THEN None ELSE conn[g]
    BY <1>4, <1>t DEF Listed
  <1>6. Open' = Open \ {f}
    BY <1>5 DEF Open
  <1>7. \A g \in Open \ {f} : conn[g] # c
    BY <1>2, <1>3, <1>t DEF Apart
  <1>8. Connected' = Connected \ {c}
    BY <1>2, <1>3, <1>5, <1>7 DEF Connected, Open
  <1>9. c \notin ToSet(backlog) /\ c \in Connected
    BY <1>2, <1>3, <1>t DEF Apart, Connected, Open
  <1>10. Apart'
    <2>1. \A g, h \in Open' : conn'[g] = conn'[h] => g = h
      BY <1>5, <1>6, <1>t DEF Apart, Open
    <2>2. QED
      BY <1>4, <1>8, <2>1, <1>t DEF Apart
  <1>11. Known'
    BY <1>4, <1>8, <1>9, ClientGone
  <1>12. QED
    BY <1>10, <1>11

LEMMA ConnectClients ==
    ASSUME CInv, NEW c \in Clients, Connect(c)
    PROVE  Apart' /\ Known'
  <1>t. Listed /\ Apart /\ Known
    BY DEF CInv
  <1>1. /\ said[c] = -1 /\ said' = [said EXCEPT ![c] = 0]
        /\ backlog' = Append(backlog, c)
        /\ UNCHANGED <<conn, unread, hungUp, error>>
    BY DEF Connect
  <1>2. c \notin Connected /\ c \notin ToSet(backlog)
    BY <1>1, <1>t DEF Apart
  <1>3. /\ backlog' \in Seq(Clients) /\ ToSet(backlog') = ToSet(backlog) \cup {c}
        /\ IsInjective(backlog')
    BY <1>1, <1>2, <1>t, PushAdds, PushKeepsInjective DEF Apart
  <1>4. Connected' = Connected /\ Open' = Open
    BY <1>1 DEF Connected, Open
  <1>5. MaxMessages \in Nat
    BY LimitAssumption
  <1>6. said' \in [Clients -> -1..MaxMessages] /\ said'[c] = 0
        /\ \A d \in Clients : d # c => said'[d] = said[d]
    BY <1>1, <1>5, <1>t DEF Apart
  <1>7. Connected \cup ToSet(backlog) \subseteq Clients
    BY <1>t DEF Apart, Listed, Connected, ToSet
  <1>8. Apart'
    <2>1. \A d \in Connected' \cup ToSet(backlog') : said'[d] # -1
      BY <1>3, <1>4, <1>6, <1>7, <1>t DEF Apart
    <2>2. ToSet(backlog') \cap Connected' = {}
      BY <1>2, <1>3, <1>4, <1>t DEF Apart
    <2>3. QED
      BY <1>1, <1>3, <1>4, <1>6, <2>1, <2>2, <1>t DEF Apart
  <1>9. Known'
    <2>1. \A d \in unread : d \in Clients /\ d # c
      BY <1>2, <1>7, <1>t DEF Known
    <2>2. \A d \in unread' : said'[d] > 0
      BY <1>1, <1>6, <2>1, <1>t DEF Known
    <2>3. QED
      BY <1>1, <1>3, <1>4, <2>2, <1>t DEF Known
  <1>10. QED
    BY <1>8, <1>9

LEMMA ClientsStep == CInv /\ [Next]_vars => Apart' /\ Known'
  <1> SUFFICES ASSUME CInv, [Next]_vars PROVE Apart' /\ Known'
    OBVIOUS
  <1>t. Listed /\ Apart /\ Known
    BY DEF CInv
  <1>c. Connected \cup ToSet(backlog) \subseteq Clients
    BY <1>t DEF Apart, Listed, Connected, ToSet
  <1> USE DEF server, kernel
  <1>1. CASE /\ UNCHANGED <<conn, backlog, said>> /\ unread' \subseteq unread
             /\ (unread \cup hungUp \cup error)' \subseteq Connected \cup ToSet(backlog)
    BY <1>1, <1>t, SameClients DEF Apart, Known
  <1>2. ASSUME NEW c \in Clients, Say(c) PROVE Apart' /\ Known'
    <2>1. /\ unread' = unread \cup {c} /\ c \in Connected
          /\ UNCHANGED <<conn, backlog, hungUp, error>>
      BY <1>2 DEF Say
    <2>2. said' \in [Clients -> -1..MaxMessages] /\ said' = [said EXCEPT ![c] = said[c] + 1]
      BY <1>2, SaidStep DEF Say
    <2>3. said[c] # -1 /\ said[c] \in -1..MaxMessages /\ MaxMessages \in Nat
      BY <2>1, <1>t, LimitAssumption DEF Apart
    <2>4. \A d \in Clients : said'[d] = IF d = c THEN said[c] + 1 ELSE said[d]
      BY <2>2, <1>t DEF Apart
    <2>5. \A d \in Connected \cup ToSet(backlog) : said'[d] # -1
      BY <2>3, <2>4, <1>c, <1>t DEF Apart
    <2>6. \A d \in unread' : d \in Clients /\ said'[d] > 0
      BY <2>1, <2>3, <2>4, <1>c, <1>t DEF Known
    <2>7. QED
      BY <2>1, <2>2, <2>5, <2>6, <1>t, SameClients DEF Known
  <1>3. ASSUME NEW c \in Clients, Leave(c) PROVE Apart' /\ Known'
    <2>1. /\ UNCHANGED <<conn, backlog, said, unread>>
          /\ (unread \cup hungUp \cup error)' \subseteq Connected \cup ToSet(backlog)
      BY <1>3, <1>t DEF Leave, Known
    <2>2. QED
      BY <2>1, <1>1
  <1>4. CASE Poll \/ OnError \/ Read \/ Write \/ Skip \/ UNCHANGED vars
    <2>1. /\ UNCHANGED <<conn, backlog, said>> /\ unread' \subseteq unread
          /\ (unread \cup hungUp \cup error)' \subseteq unread \cup hungUp \cup error
      BY <1>4 DEF Poll, OnError, Read, Write, Skip, vars
    <2>2. QED
      BY <2>1, <1>1, <1>t DEF Known
  <1>5. QED
    BY <1>2, <1>3, <1>4, ConnectClients, AcceptClients, RefuseClients, HangUpClients
    DEF Next, ServerStep

-------------------------------------------------------------------------------
(* The table of pollfds. *)

LEMMA AdvanceStep ==
    ASSUME Scanning, scan >= 0, Len(fds') \in Nat, Advance
    PROVE  scan' \in -1..Len(fds') /\ scan' # 0
  <1>1. scan \in Nat
    BY DEF Scanning, user_counter
  <1>2. QED
    BY <1>1 DEF Advance

(* What poll and a message do to the table: the entries stay where they are, and
   poll reports only what it is asked for. *)
LEMMA EntriesKept ==
    ASSUME Listed, NEW t \in Seq(EntryType), fds' = t, UNCHANGED conn, Len(t) = Len(fds),
           \A i \in 1..Len(fds) : /\ t[i].fd = fds[i].fd
                                  /\ "OUT" \in t[i].revents => t[i].out
    PROVE  Listed'
  <1>1. DOMAIN t = 1..Len(fds) /\ FdsOf(t) = FdsOf(fds)
    BY Column DEF Listed, FdsOf
  <1>2. Open' = Open
    BY DEF Open
  <1>3. QED
    BY <1>1, <1>2 DEF Listed

(* What poll reports of an entry. *)
LEMMA PollEntries ==
    ASSUME Listed, Poll
    PROVE  /\ fds' \in Seq(EntryType) /\ Len(fds') = Len(fds)
           /\ \A i \in 1..Len(fds) : /\ fds'[i].fd = fds[i].fd /\ fds'[i].out = fds[i].out
                                     /\ "OUT" \in fds'[i].revents => fds'[i].out
  <1>1. fds' = [i \in 1..Len(fds) |-> [fds[i] EXCEPT !.revents = Reported(fds[i])]]
    BY DEF Poll, user_counter
  <1>2. \A i \in 1..Len(fds) : fds[i] \in EntryType /\ Len(fds) \in Nat
    BY Column DEF Listed
  <1>3. \A e \in EntryType :
           /\ Reported(e) \in SUBSET {"ERR", "RDHUP", "IN", "OUT"}
           /\ "OUT" \in Reported(e) => e.out
    BY DEF Reported
  <1>4. \A e \in EntryType :
           /\ [e EXCEPT !.revents = Reported(e)] \in EntryType
           /\ [e EXCEPT !.revents = Reported(e)].fd = e.fd
           /\ [e EXCEPT !.revents = Reported(e)].out = e.out
           /\ [e EXCEPT !.revents = Reported(e)].revents = Reported(e)
    BY <1>3 DEF EntryType
  <1>5. fds' \in Seq(EntryType) /\ Len(fds') = Len(fds)
    <2>1. PICK n : n = Len(fds)
      OBVIOUS
    <2>2. n \in Nat
      BY <2>1, Column DEF Listed
    <2>3. fds' \in [1..n -> EntryType]
      BY <1>1, <1>2, <1>4, <2>1
    <2>4. QED
      BY <2>1, <2>2, <2>3
  <1>6. \A i \in 1..Len(fds) : fds'[i] = [fds[i] EXCEPT !.revents = Reported(fds[i])]
    BY <1>1
  <1>7. \A i \in 1..Len(fds) : /\ fds'[i].fd = fds[i].fd /\ fds'[i].out = fds[i].out
                                /\ fds'[i].revents = Reported(fds[i])
    BY <1>2, <1>4, <1>6
  <1>8. \A i \in 1..Len(fds) : "OUT" \in fds'[i].revents => fds'[i].out
    BY <1>2, <1>3, <1>7
  <1>9. QED
    BY <1>5, <1>7, <1>8

(* What a message does to the entries of the others. *)
LEMMA ReadEntries ==
    ASSUME Listed, Read
    PROVE  /\ fds' \in Seq(EntryType) /\ Len(fds') = Len(fds)
           /\ \A i \in 1..Len(fds) : /\ fds'[i].fd = fds[i].fd
                                     /\ fds'[i].revents = fds[i].revents
                                     /\ fds'[i].out = (IF i = scan THEN fds[i].out ELSE TRUE)
  <1>1. fds' = [i \in 1..Len(fds) |-> IF i = scan THEN fds[i] ELSE [fds[i] EXCEPT !.out = TRUE]]
    BY DEF Read, user_counter
  <1>2. \A i \in 1..Len(fds) : fds[i] \in EntryType /\ Len(fds) \in Nat
    BY Column DEF Listed
  <1>3. \A e \in EntryType :
           /\ [e EXCEPT !.out = TRUE] \in EntryType
           /\ [e EXCEPT !.out = TRUE].fd = e.fd
           /\ [e EXCEPT !.out = TRUE].revents = e.revents
           /\ [e EXCEPT !.out = TRUE].out = TRUE
    BY DEF EntryType
  <1>4. fds' \in Seq(EntryType) /\ Len(fds') = Len(fds)
    <2>1. PICK n : n = Len(fds)
      OBVIOUS
    <2>2. n \in Nat
      BY <2>1, Column DEF Listed
    <2>3. fds' \in [1..n -> EntryType]
      BY <1>1, <1>2, <1>3, <2>1
    <2>4. QED
      BY <2>1, <2>2, <2>3
  <1>5. QED
    BY <1>1, <1>2, <1>3, <1>4

(* A new entry is the last, and its client is not polled for writing. *)
LEMMA AcceptEntries ==
    ASSUME Listed, Scanning, Apart, Accept
    PROVE  /\ Listed' /\ Len(fds') = Len(fds) + 1
           /\ fds'[Len(fds) + 1].out = FALSE
           /\ \A i \in 1..Len(fds) : fds'[i] = fds[i]
           /\ \A f \in Open : f \in Fds /\ conn'[f] = conn[f]
  <1>1. PICK f : f = Min({g \in Fds : conn[g] = None})
    OBVIOUS
  <1>2. backlog # << >>
    BY DEF Accept, Scanning
  <1>3. f \in Fds /\ conn[f] = None
    BY <1>1, <1>2, FreeFd
  <1>4. PICK e : e = [fd |-> f, out |-> FALSE, revents |-> {}]
    OBVIOUS
  <1>5. e \in EntryType /\ e.fd = f /\ e.out = FALSE /\ "OUT" \notin e.revents
    BY <1>3, <1>4 DEF EntryType
  <1>6. fds' = Append(fds, e) /\ conn' = [conn EXCEPT ![f] = Head(backlog)]
        /\ Len(fds) < USER_LIMIT
    BY <1>1, <1>4 DEF Accept, user_counter
  <1>7. Head(backlog) \in Clients
    BY <1>2 DEF Apart
  <1>8. fds \in Seq(EntryType) /\ Len(fds) \in Nat /\ DOMAIN fds = 1..Len(fds)
    BY Column DEF Listed
  <1>9. /\ fds' \in Seq(EntryType) /\ Len(fds') = Len(fds) + 1 /\ DOMAIN fds' = 1..Len(fds) + 1
        /\ fds'[Len(fds) + 1] = e /\ \A i \in 1..Len(fds) : fds'[i] = fds[i]
    BY <1>5, <1>6, <1>8
  <1>10. conn' \in [Fds -> Clients \cup {None}] /\ conn'[f] = Head(backlog)
         /\ \A g \in Fds : g # f => conn'[g] = conn[g]
    BY <1>3, <1>6, <1>7 DEF Listed
  <1>11. Open' = Open \cup {f} /\ f \notin Open
    BY <1>3, <1>7, <1>10 DEF Open, Clients, None
  <1>12. FdsOf(fds') = Append(FdsOf(fds), f)
    <2>1. FdsOf(fds) \in Seq(Fds) /\ Len(FdsOf(fds)) = Len(fds)
          /\ \A i \in 1..Len(fds) : FdsOf(fds)[i] = fds[i].fd
      BY <1>8, Column
    <2>2. PICK s \in Seq(Fds), n \in Nat : s = FdsOf(fds) /\ n = Len(fds)
      BY <1>8, <2>1
    <2>3. /\ Append(s, f) \in [1..n + 1 -> Fds]
          /\ \A i \in 1..n + 1 : Append(s, f)[i] = IF i = n + 1 THEN f ELSE s[i]
      <3>1. Append(s, f) \in Seq(Fds) /\ Len(s) = n
        BY <1>3, <2>1, <2>2
      <3>2. Len(Append(s, f)) = n + 1
        BY <3>1, <2>2
      <3>3. Append(s, f) \in [1..n + 1 -> Fds]
        <4>1. \A q \in Seq(Fds) : q \in [1..Len(q) -> Fds]
          OBVIOUS
        <4>2. PICK q \in Seq(Fds) : q = Append(s, f)
          BY <3>1
        <4>3. QED
          BY <3>2, <4>1, <4>2
      <3>4. \A i \in 1..n + 1 : Append(s, f)[i] = IF i = n + 1 THEN f ELSE s[i]
        BY <3>1, <2>2
      <3>5. QED
        BY <3>3, <3>4
    <2>4. FdsOf(fds') = [i \in 1..n + 1 |-> fds'[i].fd]
      BY <1>9, <2>2 DEF FdsOf
    <2>5. \A i \in 1..n + 1 : fds'[i].fd = IF i = n + 1 THEN f ELSE s[i]
      BY <1>5, <1>9, <2>1, <2>2
    <2>6. \A i \in 1..n + 1 : Append(s, f)[i] = fds'[i].fd
      BY <2>3, <2>5
    <2>7. Append(s, f) = [i \in 1..n + 1 |-> fds'[i].fd]
      BY <2>3, <2>6
    <2>8. QED
      BY <2>2, <2>4, <2>7
  <1>13. IsInjective(FdsOf(fds')) /\ ToSet(FdsOf(fds')) = Open'
    BY <1>3, <1>8, <1>11, <1>12, Column, PushAdds, PushKeepsInjective DEF Listed
  <1>14. \A i \in DOMAIN fds' : "OUT" \in fds'[i].revents => fds'[i].out
    BY <1>5, <1>8, <1>9 DEF Listed
  <1>15. Len(fds') <= USER_LIMIT
    BY <1>6, <1>8, <1>9, LimitAssumption
  <1>16. Listed'
    BY <1>9, <1>10, <1>13, <1>14, <1>15 DEF Listed
  <1>17. QED
    BY <1>5, <1>9, <1>10, <1>11, <1>16 DEF Open

(* The last entry takes the place of the one whose client has gone. *)
LEMMA HangUpEntries ==
    ASSUME Listed, Scanning, OnHangUp
    PROVE  /\ Listed' /\ Len(fds') = Len(fds) - 1
           /\ \A j \in 1..Len(fds) - 1 :
                 fds'[j] = IF j = scan THEN fds[Len(fds)] ELSE fds[j]
           /\ \A f \in Fds : conn'[f] = IF f = Fd THEN None ELSE conn[f]
  <1>1. scan > 0
    BY DEF OnHangUp, Has
  <1>2. PICK n, i, f : n = Len(fds) /\ i = scan /\ f = Fd
    OBVIOUS
  <1>3. n \in Nat \ {0} /\ i \in 1..n /\ f \in Open /\ f \in Fds /\ f = FdsOf(fds)[i]
    BY <1>1, <1>2, EntryFacts, Column DEF Listed
  <1>4. fds \in Seq(EntryType) /\ Len(fds) = n
    BY <1>2 DEF Listed
  <1>5. /\ fds' = SubSeq([fds EXCEPT ![i] = fds[n]], 1, n - 1)
        /\ conn' = [conn EXCEPT ![f] = None]
    BY <1>2 DEF OnHangUp, Removed, user_counter
  <1>6. PICK t : t = [fds EXCEPT ![i] = fds[n]]
    OBVIOUS
  <1>7. /\ t \in Seq(EntryType) /\ Len(t) = n
        /\ \A j \in 1..n : t[j] = IF j = i THEN fds[n] ELSE fds[j]
    BY <1>3, <1>4, <1>6
  <1>8. /\ fds' \in Seq(EntryType) /\ Len(fds') = n - 1
        /\ \A j \in 1..n - 1 : fds'[j] = t[j]
    <2>1. n - 1 \in 0..Len(t) /\ fds' = SubSeq(t, 1, n - 1)
      BY <1>3, <1>5, <1>6, <1>7
    <2>2. QED
      BY <1>7, <2>1, Cut
  <1>9. \A j \in 1..n - 1 : fds'[j] = IF j = i THEN fds[n] ELSE fds[j]
    BY <1>7, <1>8
  <1>10. /\ FdsOf(fds') \in Seq(Fds) /\ FdsOf(fds) \in Seq(Fds)
         /\ Len(FdsOf(fds)) = n /\ IsInjective(FdsOf(fds))
    BY <1>2, <1>4, <1>8, Column DEF Listed
  <1>11. LastMoved(FdsOf(fds), i, FdsOf(fds'))
    <2>1. \A j \in 1..n : FdsOf(fds)[j] = fds[j].fd
      BY <1>4, Column
    <2>2. Len(FdsOf(fds')) = n - 1 /\ \A j \in 1..n - 1 : FdsOf(fds')[j] = fds'[j].fd
      BY <1>8, Column
    <2>3. QED
      BY <1>3, <1>9, <1>10, <2>1, <2>2 DEF LastMoved
  <1>12. IsInjective(FdsOf(fds')) /\ ToSet(FdsOf(fds')) = ToSet(FdsOf(fds)) \ {f}
    BY <1>3, <1>10, <1>11, LastTakesPlace
  <1>13. /\ conn' \in [Fds -> Clients \cup {None}]
         /\ \A g \in Fds : conn'[g] = IF g = f THEN None ELSE conn[g]
    BY <1>3, <1>5 DEF Listed
  <1>14. Open' = Open \ {f}
    BY <1>13 DEF Open
  <1>15. \A j \in DOMAIN fds' : "OUT" \in fds'[j].revents => fds'[j].out
    <2>1. DOMAIN fds' = 1..n - 1 /\ DOMAIN fds = 1..n
      BY <1>3, <1>4, <1>8
    <2>2. \A j \in 1..n - 1 : j \in 1..n /\ n \in 1..n
      BY <1>3
    <2>3. QED
      BY <1>9, <2>1, <2>2 DEF Listed
  <1>16. Len(fds') <= USER_LIMIT
    BY <1>3, <1>4, <1>8, LimitAssumption DEF Listed
  <1>17. Listed'
    BY <1>8, <1>12, <1>13, <1>14, <1>15, <1>16 DEF Listed
  <1>18. QED
    BY <1>2, <1>8, <1>9, <1>13, <1>17

LEMMA ListedStep == CInv /\ [Next]_vars => Listed'
  <1> SUFFICES ASSUME CInv, [Next]_vars PROVE Listed'
    OBVIOUS
  <1>t. Listed /\ Scanning /\ Apart
    BY DEF CInv
  <1> USE DEF server, kernel
  <1>1. CASE UNCHANGED <<fds, conn>>
    BY <1>1, <1>t DEF Listed, Open
  <1>2. ASSUME NEW c \in Clients, Connect(c) \/ Say(c) \/ Leave(c) PROVE UNCHANGED <<fds, conn>>
    BY <1>2 DEF Connect, Say, Leave
  <1>3. CASE AcceptRefused \/ OnError \/ Write \/ Skip \/ UNCHANGED vars
    BY <1>3, <1>1 DEF AcceptRefused, OnError, Write, Skip, vars
  <1>4. CASE Poll
    <2>1. /\ fds' \in Seq(EntryType) /\ Len(fds') = Len(fds)
          /\ \A i \in 1..Len(fds) : /\ fds'[i].fd = fds[i].fd
                                    /\ "OUT" \in fds'[i].revents => fds'[i].out
      BY <1>4, <1>t, PollEntries
    <2>2. PICK t : t = fds'
      OBVIOUS
    <2>3. UNCHANGED conn
      BY <1>4 DEF Poll
    <2>4. QED
      BY <2>1, <2>2, <2>3, <1>t, EntriesKept
  <1>5. CASE Read
    <2>1. /\ fds' \in Seq(EntryType) /\ Len(fds') = Len(fds)
          /\ \A i \in 1..Len(fds) : /\ fds'[i].fd = fds[i].fd
                                    /\ fds'[i].revents = fds[i].revents
                                    /\ fds'[i].out = (IF i = scan THEN fds[i].out ELSE TRUE)
      BY <1>5, <1>t, ReadEntries
    <2>2. DOMAIN fds = 1..Len(fds)
      BY <1>t, Column DEF Listed
    <2>3. \A i \in 1..Len(fds) : "OUT" \in fds'[i].revents => fds'[i].out
      BY <2>1, <2>2, <1>t DEF Listed
    <2>4. PICK t : t = fds'
      OBVIOUS
    <2>5. UNCHANGED conn
      BY <1>5 DEF Read
    <2>6. QED
      BY <2>1, <2>3, <2>4, <2>5, <1>t, EntriesKept
  <1>6. QED
    BY <1>1, <1>2, <1>3, <1>4, <1>5, <1>t, AcceptEntries, HangUpEntries DEF Next, ServerStep

LEMMA ScanningStep == CInv /\ [Next]_vars => Scanning'
  <1> SUFFICES ASSUME CInv, [Next]_vars PROVE Scanning'
    OBVIOUS
  <1>t. Listed /\ Scanning /\ Apart /\ Listed'
    BY ListedStep DEF CInv
  <1> USE DEF server, kernel, user_counter
  <1>n. Len(fds) \in Nat /\ Len(fds') \in Nat /\ scan \in Int
    BY <1>t, Column DEF Listed, Scanning
  <1>1. ASSUME NEW c \in Clients, Connect(c) \/ Say(c) \/ Leave(c) PROVE Scanning'
    <2>1. UNCHANGED <<fds, scan, listening>>
      BY <1>1 DEF Connect, Say, Leave
    <2>2. backlog # << >> => backlog' # << >>
      <3>1. Connect(c) => backlog' = Append(backlog, c)
        BY DEF Connect
      <3>2. Append(backlog, c) # << >>
        BY <1>t DEF Apart
      <3>3. Say(c) \/ Leave(c) => backlog' = backlog
        BY DEF Say, Leave
      <3>4. QED
        BY <1>1, <3>1, <3>2, <3>3
    <2>3. QED
      BY <2>1, <2>2, <1>t DEF Scanning
  <1>2. CASE UNCHANGED vars
    BY <1>2, <1>t DEF vars, Scanning
  <1>3. CASE Poll
    <2>1. scan' = 0 /\ listening' = (backlog # << >>) /\ backlog' = backlog
      BY <1>3 DEF Poll
    <2>2. listening' => backlog' # << >>
      BY <2>1
    <2>3. QED
      BY <2>1, <2>2, <1>n DEF Scanning
  <1>4. CASE Accept \/ AcceptRefused \/ OnError \/ Read \/ Write \/ Skip
    <2>1. Advance /\ scan >= 0
      BY <1>4, <1>n DEF Accept, AcceptRefused, OnError, Read, Write, Skip, Has
    <2>2. scan' \in -1..Len(fds') /\ scan' # 0
      BY <2>1, <1>n, <1>t, AdvanceStep
    <2>3. QED
      BY <2>2 DEF Scanning
  <1>5. CASE OnHangUp
    <2>1. scan > 0 /\ scan' = IF scan <= Len(fds') THEN scan ELSE -1
      BY <1>5 DEF OnHangUp, Has
    <2>2. QED
      BY <2>1, <1>n DEF Scanning
  <1>6. QED
    BY <1>1, <1>2, <1>3, <1>4, <1>5 DEF Next, ServerStep

-------------------------------------------------------------------------------
(* The copies of messages. *)

(* A message that has been read stays so. *)
LEMMA WasReadStep ==
    ASSUME CInv, [Next]_vars, NEW by, NEW n, WasRead(by, n)
    PROVE  WasRead(by, n)'
  <1>1. by \in Clients /\ n \in 1..MaxMessages /\ MaxMessages \in Nat
    BY LimitAssumption DEF WasRead
  <1>2. /\ said'[by] >= said[by] /\ said[by] \in Int /\ said'[by] \in Int
        /\ by \in unread' => by \in unread \/ said'[by] > said[by]
    BY <1>1, SaidStep
  <1>3. n \in Int
    BY <1>1
  <1>4. QED
    BY <1>1, <1>2, <1>3 DEF WasRead

(* A copy that a client has not been sent stays fresh while it is sent nothing. *)
LEMMA FreshStep ==
    ASSUME CInv, [Next]_vars, NEW c, NEW m, Fresh(c, m), heard'[c] = heard[c]
    PROVE  Fresh(c, m)'
  <1>1. PICK by \in Clients \ {c}, n \in 1..MaxMessages :
           /\ m = Message(c, by, n) /\ WasRead(by, n)
           /\ \A k \in n..MaxMessages : Message(c, by, k) \notin ToSet(heard[c])
    BY DEF Fresh
  <1>2. WasRead(by, n)'
    BY <1>1, WasReadStep
  <1>3. QED
    BY <1>1, <1>2 DEF Fresh

(* What is fresh is a message. *)
LEMMA FreshType == ASSUME NEW c \in Clients, NEW m, Fresh(c, m) PROVE m \in Messages
  BY DEF Fresh, Messages

(* The steps that send nothing, and leave alone what is to be sent. *)
LEMMA OwnedKept ==
    ASSUME CInv, [Next]_vars, heard' = heard,
           write_buf' \in [Fds -> Messages \cup {Null, Wild, Freed}],
           \A i \in DOMAIN fds' :
              fds'[i].out => \E j \in DOMAIN fds :
                 /\ fds[j].out /\ fds[j].fd = fds'[i].fd
                 /\ write_buf'[fds[j].fd] = write_buf[fds[j].fd]
                 /\ conn'[fds[j].fd] = conn[fds[j].fd]
    PROVE  Owned'
  <1>1. ASSUME NEW i \in DOMAIN fds', fds'[i].out
        PROVE  \/ write_buf'[fds'[i].fd] = Null
               \/ Fresh(conn[fds[i].fd], write_buf[fds[i].fd])'
    <2>1. PICK j \in DOMAIN fds :
             /\ fds[j].out /\ fds[j].fd = fds'[i].fd
             /\ write_buf'[fds[j].fd] = write_buf[fds[j].fd]
             /\ conn'[fds[j].fd] = conn[fds[j].fd]
      BY <1>1
    <2>2. PICK f, c, m : f = fds[j].fd /\ c = conn[f] /\ m = write_buf[f]
      OBVIOUS
    <2>3. f = fds'[i].fd /\ c = conn'[f] /\ m = write_buf'[f]
      BY <2>1, <2>2
    <2>4. m = Null \/ Fresh(c, m)
      BY <2>1, <2>2 DEF CInv, Owned
    <2>5. CASE m = Null
      BY <2>3, <2>5
    <2>6. CASE Fresh(c, m)
      <3>1. Fresh(c, m)'
        BY <2>6, FreshStep
      <3>2. QED
        BY <2>3, <3>1 DEF Fresh
    <2>7. QED
      BY <2>4, <2>5, <2>6
  <1>2. QED
    BY <1>1 DEF Owned

(* A message: everybody else has a fresh copy of it. *)
LEMMA ReadOwned ==
    ASSUME CInv, [Next]_vars, Read
    PROVE  Owned'
  <1>t. Listed /\ Scanning /\ Apart /\ Known /\ Owned /\ Heard
    BY DEF CInv
  <1>1. scan > 0
    BY DEF Read, Has
  <1>2. PICK s, g, c : s = scan /\ g = Fd /\ c = conn[g]
    OBVIOUS
  <1>3. /\ s \in 1..Len(fds) /\ g = fds[s].fd /\ g \in Fds /\ g \in Open /\ c \in Clients
    BY <1>1, <1>2, <1>t, EntryFacts
  <1>4. /\ c \in unread /\ unread' = unread \ {c}
        /\ write_buf' = [f \in Fds |-> IF f # g /\ \E i \in 1..Len(fds) : fds[i].fd = f
                                       THEN Message(conn[f], c, said[c]) ELSE write_buf[f]]
        /\ UNCHANGED <<conn, said, heard>>
    BY <1>2 DEF Read, user_counter
  <1>5. /\ fds' \in Seq(EntryType) /\ Len(fds') = Len(fds)
        /\ \A i \in 1..Len(fds) : /\ fds'[i].fd = fds[i].fd
                                  /\ fds'[i].out = (IF i = s THEN fds[i].out ELSE TRUE)
    BY <1>2, <1>t, ReadEntries
  <1>6. /\ DOMAIN fds = 1..Len(fds) /\ DOMAIN fds' = 1..Len(fds)
        /\ \A i \in 1..Len(fds) : fds[i].fd \in Fds /\ fds[i].fd = FdsOf(fds)[i]
        /\ DOMAIN FdsOf(fds) = 1..Len(fds)
    BY <1>5, <1>t, Column DEF Listed
  <1>7. said[c] \in 1..MaxMessages
    BY <1>3, <1>4, <1>t, LimitAssumption DEF Apart, Known
  <1>8. \A i \in 1..Len(fds) : fds[i].fd \in Open
    BY <1>6, <1>t DEF Listed, ToSet
  <1>9. write_buf' \in [Fds -> Messages \cup {Null, Wild, Freed}]
    <2>1. ASSUME NEW f \in Fds
          PROVE  (IF f # g /\ \E i \in 1..Len(fds) : fds[i].fd = f
                  THEN Message(conn[f], c, said[c]) ELSE write_buf[f])
                 \in Messages \cup {Null, Wild, Freed}
      <3>1. CASE f # g /\ \E i \in 1..Len(fds) : fds[i].fd = f
        <4>1. conn[f] \in Clients
          BY <1>8, <3>1, <1>t DEF Listed, Open
        <4>2. Message(conn[f], c, said[c]) \in Messages
          BY <4>1, <1>3, <1>7 DEF Messages
        <4>3. QED
          BY <3>1, <4>2
      <3>2. CASE ~(f # g /\ \E i \in 1..Len(fds) : fds[i].fd = f)
        BY <3>2, <1>t DEF Owned
      <3>3. QED
        BY <3>1, <3>2
    <2>2. QED
      BY <1>4, <2>1
  <1>10. ASSUME NEW i \in DOMAIN fds', fds'[i].out
         PROVE  \/ write_buf'[fds'[i].fd] = Null
                \/ Fresh(conn[fds[i].fd], write_buf[fds[i].fd])'
    <2>1. PICK f, d : f = fds[i].fd /\ d = conn[f]
      OBVIOUS
    <2>2. i \in 1..Len(fds) /\ f = fds'[i].fd /\ d = conn'[f] /\ f \in Fds /\ f \in Open
          /\ d \in Clients
      BY <2>1, <1>4, <1>5, <1>6, <1>8, <1>t DEF Listed, Open
    <2>3. CASE i = s
      <3>1. fds[i].out /\ f = g
        BY <1>3, <1>5, <1>10, <2>1, <2>2, <2>3
      <3>2. PICK m : m = write_buf[f]
        OBVIOUS
      <3>3. m = Null \/ Fresh(d, m)
        <4>1. i \in DOMAIN fds /\ fds[i].out
          BY <1>6, <2>2, <3>1
        <4>2. write_buf[fds[i].fd] = Null \/ Fresh(conn[fds[i].fd], write_buf[fds[i].fd])
          BY <4>1, <1>t DEF Owned
        <4>3. QED
          BY <2>1, <3>2, <4>2
      <3>4. write_buf'[f] = m
        BY <1>4, <2>2, <3>1, <3>2
      <3>5. CASE m = Null
        BY <2>2, <3>4, <3>5
      <3>6. CASE Fresh(d, m)
        <4>1. Fresh(d, m)'
          BY <1>4, <3>6, FreshStep
        <4>2. QED
          BY <2>2, <3>4, <4>1 DEF Fresh
      <3>7. QED
        BY <3>3, <3>5, <3>6
    <2>4. CASE i # s
      <3>1. f # g
        <4>1. FdsOf(fds)[i] = f /\ FdsOf(fds)[s] = g
          BY <1>3, <1>6, <2>1, <2>2
        <4>2. QED
          BY <1>3, <1>6, <2>2, <2>4, <4>1, <1>t DEF Listed, IsInjective
      <3>2. d # c
        BY <1>2, <1>3, <2>1, <2>2, <3>1, <1>t DEF Apart
      <3>3. PICK n \in 1..MaxMessages : n = said[c]
        BY <1>7
      <3>4. write_buf'[f] = Message(d, c, n)
        BY <1>4, <2>1, <2>2, <3>1, <3>3
      <3>5. WasRead(c, n)'
        BY <1>3, <1>4, <3>3 DEF WasRead
      <3>6. \A k \in n..MaxMessages : Message(d, c, k) \notin ToSet(heard'[d])
        <4> SUFFICES ASSUME NEW k \in n..MaxMessages, Message(d, c, k) \in ToSet(heard[d])
                     PROVE  FALSE
          BY <1>4
        <4>1. k \in 1..MaxMessages /\ k >= n
          BY LimitAssumption
        <4>2. WasRead(c, k)
          BY <1>3, <2>2, <4>1, <1>t DEF Heard
        <4>3. QED
          BY <1>4, <3>3, <4>1, <4>2 DEF WasRead
      <3>7. QED
        BY <1>3, <2>2, <3>2, <3>4, <3>5, <3>6 DEF Fresh
    <2>5. QED
      BY <2>3, <2>4
  <1>11. QED
    BY <1>9, <1>10 DEF Owned

(* What is written to a client is a fresh copy for it. *)
LEMMA WriteFacts ==
    ASSUME CInv, Write, ~UNCHANGED <<write_buf, heard>>
    PROVE  \E f \in Open, c \in Clients, m \in Messages :
              /\ c = conn[f] /\ m = write_buf[f] /\ Fresh(c, m)
              /\ heard' = [heard EXCEPT ![c] = Append(heard[c], m)]
              /\ write_buf' = [g \in Fds |-> IF g = f THEN Null
                                             ELSE IF write_buf[g] = m THEN Freed
                                             ELSE write_buf[g]]
  <1>t. Listed /\ Scanning /\ Owned
    BY DEF CInv
  <1>1. scan > 0 /\ "OUT" \in fds[scan].revents
    BY DEF Write, Has, Entry
  <1>2. PICK f, c, m : f = Fd /\ c = conn[f] /\ m = write_buf[f]
    OBVIOUS
  <1>3. scan \in 1..Len(fds) /\ f = fds[scan].fd /\ f \in Open /\ c \in Clients
    BY <1>1, <1>2, <1>t, EntryFacts
  <1>4. scan \in DOMAIN fds /\ fds[scan].out
    BY <1>1, <1>3, <1>t, Column DEF Listed
  <1>5. write_buf[fds[scan].fd] = Null \/ Fresh(conn[fds[scan].fd], write_buf[fds[scan].fd])
    BY <1>4, <1>t DEF Owned
  <1>6. /\ m # Null
        /\ heard' = [heard EXCEPT ![c] = Append(heard[c], m)]
        /\ write_buf' = [g \in Fds |-> IF g = f THEN Null
                                       ELSE IF write_buf[g] = m THEN Freed
                                       ELSE write_buf[g]]
    BY <1>2 DEF Write
  <1>7. Fresh(c, m)
    BY <1>2, <1>3, <1>5, <1>6
  <1>8. m \in Messages
    BY <1>3, <1>7, FreshType
  <1>9. QED
    BY <1>2, <1>3, <1>6, <1>7, <1>8

(* A copy that is freed when it has been sent is nobody else's. *)
LEMMA WriteOwned ==
    ASSUME CInv, [Next]_vars, Write, ~UNCHANGED <<write_buf, heard>>
    PROVE  Owned' /\ Heard'
  <1>t. Listed /\ Apart /\ Owned /\ Heard
    BY DEF CInv
  <1>1. PICK f \in Open, c \in Clients, m \in Messages :
              /\ c = conn[f] /\ m = write_buf[f] /\ Fresh(c, m)
              /\ heard' = [heard EXCEPT ![c] = Append(heard[c], m)]
              /\ write_buf' = [g \in Fds |-> IF g = f THEN Null
                                             ELSE IF write_buf[g] = m THEN Freed
                                             ELSE write_buf[g]]
    BY WriteFacts
  <1>2. UNCHANGED <<fds, conn>>
    BY DEF Write, kernel
  <1>3. PICK by \in Clients, n \in 1..MaxMessages : m = Message(c, by, n) /\ WasRead(by, n)
    BY <1>1 DEF Fresh
  <1>4. \A d \in Clients : heard[d] \in Seq(Messages)
    BY <1>t DEF Heard
  <1>5. \A d \in Clients : heard'[d] = IF d = c THEN Append(heard[c], m) ELSE heard[d]
    BY <1>1, <1>t DEF Heard
  <1>6. ToSet(heard'[c]) = ToSet(heard[c]) \cup {m}
    BY <1>4, <1>5, PushAdds
  <1>7. Heard'
    <2>1. Append(heard[c], m) \in Seq(Messages)
      BY <1>4
    <2>2. heard' \in [Clients -> Seq(Messages)]
      BY <1>1, <2>1, <1>t DEF Heard
    <2>3. ASSUME NEW d \in Clients, NEW b \in Clients, NEW k \in 1..MaxMessages,
                 Message(d, b, k) \in ToSet(heard'[d])
          PROVE  WasRead(b, k)'
      <3>1. Message(d, b, k) \in ToSet(heard[d]) \/ (d = c /\ Message(d, b, k) = m)
        BY <2>3, <1>5, <1>6
      <3>2. CASE Message(d, b, k) \in ToSet(heard[d])
        <4>1. WasRead(b, k)
          BY <3>2, <1>t DEF Heard
        <4>2. QED
          BY <4>1, WasReadStep
      <3>3. CASE d = c /\ Message(d, b, k) = m
        <4>1. b = by /\ k = n
          BY <3>3, <1>3, MessageParts
        <4>2. QED
          BY <4>1, <1>3, WasReadStep
      <3>4. QED
        BY <3>1, <3>2, <3>3
    <2>4. QED
      BY <2>2, <2>3 DEF Heard
  <1>8. write_buf' \in [Fds -> Messages \cup {Null, Wild, Freed}]
    BY <1>1, <1>t DEF Owned
  <1>9. ASSUME NEW i \in DOMAIN fds', fds'[i].out
        PROVE  \/ write_buf'[fds'[i].fd] = Null
               \/ Fresh(conn[fds[i].fd], write_buf[fds[i].fd])'
    <2>1. PICK g, d, k : g = fds[i].fd /\ d = conn[g] /\ k = write_buf[g]
      OBVIOUS
    <2>2. i \in DOMAIN fds /\ fds[i].out /\ g = fds'[i].fd /\ d = conn'[g]
      BY <1>2, <1>9, <2>1
    <2>3. g \in Open /\ g \in Fds
      <3>1. g = FdsOf(fds)[i] /\ i \in DOMAIN FdsOf(fds)
        BY <2>1, <2>2, <1>t, Column DEF Listed
      <3>2. QED
        BY <3>1, <1>t DEF Listed, ToSet, Open
    <2>4. CASE g = f
      BY <1>1, <2>2, <2>3, <2>4
    <2>5. CASE g # f
      <3>1. d # c /\ d \in Clients
        BY <1>1, <2>1, <2>3, <2>5, <1>t DEF Apart, Listed, Open
      <3>2. write_buf[fds[i].fd] = Null \/ Fresh(conn[fds[i].fd], write_buf[fds[i].fd])
        BY <2>2, <1>t DEF Owned
      <3>3. k = Null \/ Fresh(d, k)
        BY <2>1, <3>2
      <3>4. k # m
        BY <1>3, <3>1, <3>3, MessageParts DEF Fresh
      <3>5. write_buf'[g] = k
        BY <1>1, <2>1, <2>3, <2>5, <3>4
      <3>6. CASE k = Null
        BY <2>2, <3>5, <3>6
      <3>7. CASE Fresh(d, k)
        <4>1. heard'[d] = heard[d]
          BY <1>5, <3>1
        <4>2. Fresh(d, k)'
          BY <3>7, <4>1, FreshStep
        <4>3. QED
          BY <2>2, <3>5, <4>2 DEF Fresh
      <3>8. QED
        BY <3>3, <3>6, <3>7
    <2>6. QED
      BY <2>4, <2>5
  <1>10. Owned'
    BY <1>8, <1>9 DEF Owned
  <1>11. QED
    BY <1>7, <1>10

(* The steps other than a message that is read or one that is written. *)
LEMMA OtherOwned ==
    ASSUME CInv, [Next]_vars, ~Read, ~(Write /\ ~UNCHANGED <<write_buf, heard>>)
    PROVE  heard' = heard /\ Owned'
  <1>t. Listed /\ Scanning /\ Apart /\ Owned
    BY DEF CInv
  <1> USE DEF server, kernel
  <1>d. DOMAIN fds = 1..Len(fds) /\ Len(fds) \in Nat
    BY <1>t, Column DEF Listed
  <1>1. CASE UNCHANGED <<fds, conn, write_buf, heard>>
    <2>1. write_buf' \in [Fds -> Messages \cup {Null, Wild, Freed}]
      BY <1>1, <1>t DEF Owned
    <2>2. QED
      BY <1>1, <2>1, OwnedKept
  <1>2. ASSUME NEW c \in Clients, Connect(c) \/ Say(c) \/ Leave(c)
        PROVE  UNCHANGED <<fds, conn, write_buf, heard>>
    BY <1>2 DEF Connect, Say, Leave
  <1>3. CASE AcceptRefused \/ OnError \/ Write \/ Skip \/ UNCHANGED vars
    <2>1. UNCHANGED <<fds, conn, write_buf, heard>>
      BY <1>3 DEF AcceptRefused, OnError, Write, Skip, vars
    <2>2. QED
      BY <2>1, <1>1
  <1>4. CASE Poll
    <2>1. UNCHANGED <<conn, write_buf, heard>>
      BY <1>4 DEF Poll
    <2>2. /\ fds' \in Seq(EntryType) /\ Len(fds') = Len(fds)
          /\ \A i \in 1..Len(fds) : fds'[i].fd = fds[i].fd /\ fds'[i].out = fds[i].out
      BY <1>4, <1>t, PollEntries
    <2>3. DOMAIN fds' = 1..Len(fds)
      BY <2>2
    <2>4. \A i \in DOMAIN fds' :
             fds'[i].out => \E j \in DOMAIN fds :
                /\ fds[j].out /\ fds[j].fd = fds'[i].fd
                /\ write_buf'[fds[j].fd] = write_buf[fds[j].fd]
                /\ conn'[fds[j].fd] = conn[fds[j].fd]
      BY <1>d, <2>1, <2>2, <2>3
    <2>5. write_buf' \in [Fds -> Messages \cup {Null, Wild, Freed}]
      BY <2>1, <1>t DEF Owned
    <2>6. QED
      BY <2>1, <2>4, <2>5, OwnedKept
  <1>5. CASE Accept
    <2>1. UNCHANGED <<write_buf, heard>>
      BY <1>5 DEF Accept
    <2>2. /\ Listed' /\ Len(fds') = Len(fds) + 1 /\ fds'[Len(fds) + 1].out = FALSE
          /\ \A i \in 1..Len(fds) : fds'[i] = fds[i]
          /\ \A f \in Open : f \in Fds /\ conn'[f] = conn[f]
      BY <1>5, <1>t, AcceptEntries
    <2>3. DOMAIN fds' = 1..Len(fds) + 1
      BY <2>2, Column DEF Listed
    <2>4. ASSUME NEW i \in DOMAIN fds', fds'[i].out
          PROVE  /\ i \in DOMAIN fds /\ fds[i].out /\ fds[i].fd = fds'[i].fd
                 /\ conn'[fds[i].fd] = conn[fds[i].fd]
      <3>1. i \in 1..Len(fds)
        BY <1>d, <2>2, <2>3, <2>4
      <3>2. fds[i].fd = FdsOf(fds)[i] /\ i \in DOMAIN FdsOf(fds)
        BY <3>1, <1>t, Column DEF Listed
      <3>3. fds[i].fd \in Open
        BY <3>2, <1>t DEF Listed, ToSet
      <3>4. QED
        BY <1>d, <2>2, <2>4, <3>1, <3>3
    <2>5. write_buf' \in [Fds -> Messages \cup {Null, Wild, Freed}]
      BY <2>1, <1>t DEF Owned
    <2>6. QED
      BY <2>1, <2>4, <2>5, OwnedKept
  <1>6. CASE OnHangUp
    <2>1. heard' = heard
      BY <1>6 DEF OnHangUp
    <2>2. scan > 0
      BY <1>6 DEF OnHangUp, Has
    <2>3. PICK f, n, s : f = Fd /\ n = Len(fds) /\ s = scan
      OBVIOUS
    <2>4. s \in 1..n /\ n \in Nat \ {0} /\ f \in Fds /\ f = FdsOf(fds)[s]
          /\ fds[n].fd \in Fds
      BY <2>2, <2>3, <1>t, EntryFacts, Column DEF Listed
    <2>5. /\ Listed' /\ Len(fds') = n - 1
          /\ \A j \in 1..n - 1 : fds'[j] = IF j = s THEN fds[n] ELSE fds[j]
          /\ \A g \in Fds : conn'[g] = IF g = f THEN None ELSE conn[g]
      BY <1>6, <1>t, <2>3, HangUpEntries
    <2>6. DOMAIN fds' = 1..n - 1 /\ DOMAIN fds = 1..n
      BY <2>3, <2>5, <1>d, Column DEF Listed
    <2>7. write_buf' = [write_buf EXCEPT ![f] = write_buf[fds[n].fd]]
      BY <1>6, <2>3 DEF OnHangUp, user_counter
    <2>8. write_buf' \in [Fds -> Messages \cup {Null, Wild, Freed}]
      BY <2>4, <2>7, <1>t DEF Owned
    <2>9. \A g \in Fds : g # f => write_buf'[g] = write_buf[g] /\ conn'[g] = conn[g]
      BY <2>5, <2>7, <1>t DEF Owned
    <2>10. ASSUME NEW i \in DOMAIN fds'
           PROVE  \E j \in DOMAIN fds : fds'[i] = fds[j] /\ fds[j].fd \in Fds /\ fds[j].fd # f
      <3>1. PICK j \in 1..n : j # s /\ fds'[i] = fds[j]
        <4>1. i \in 1..n - 1
          BY <2>6
        <4>2. CASE i = s
          BY <2>4, <2>5, <4>1, <4>2
        <4>3. CASE i # s
          BY <2>4, <2>5, <4>1, <4>3
        <4>4. QED
          BY <4>2, <4>3
      <3>2. FdsOf(fds)[j] = fds[j].fd /\ DOMAIN FdsOf(fds) = 1..n /\ fds[j].fd \in Fds
        BY <2>3, <1>t, Column DEF Listed
      <3>3. FdsOf(fds)[j] # FdsOf(fds)[s]
        BY <2>4, <3>1, <3>2, <1>t DEF Listed, IsInjective
      <3>4. QED
        BY <2>4, <2>6, <3>1, <3>2, <3>3
    <2>11. QED
      BY <2>1, <2>8, <2>9, <2>10, OwnedKept
  <1>7. QED
    BY <1>1, <1>2, <1>3, <1>4, <1>5, <1>6 DEF Next, ServerStep

LEMMA OwnedStep == CInv /\ [Next]_vars => Owned' /\ Heard'
  <1> SUFFICES ASSUME CInv, [Next]_vars PROVE Owned' /\ Heard'
    OBVIOUS
  <1>1. heard' = heard => Heard'
    <2>1. ASSUME NEW c \in Clients, NEW by \in Clients, NEW n \in 1..MaxMessages,
                 Message(c, by, n) \in ToSet(heard[c])
          PROVE  WasRead(by, n)'
      BY <2>1, WasReadStep DEF CInv, Heard
    <2>2. QED
      BY <2>1 DEF CInv, Heard
  <1>2. CASE Read
    <2>1. heard' = heard
      BY <1>2 DEF Read
    <2>2. QED
      BY <1>1, <1>2, <2>1, ReadOwned
  <1>3. CASE Write /\ ~UNCHANGED <<write_buf, heard>>
    BY <1>3, WriteOwned
  <1>4. CASE ~Read /\ ~(Write /\ ~UNCHANGED <<write_buf, heard>>)
    BY <1>1, <1>4, OtherOwned
  <1>5. QED
    BY <1>2, <1>3, <1>4

LEMMA CInvInit == Init => CInv
  <1> SUFFICES ASSUME Init PROVE CInv
    OBVIOUS
  <1> USE LimitAssumption DEF Init
  <1>0. Open = {} /\ Connected = {}
    BY DEF Open, Connected
  <1>1. Listed
    <2>1. fds \in Seq(EntryType) /\ Len(fds) = 0 /\ DOMAIN fds = {}
      OBVIOUS
    <2>2. conn \in [Fds -> Clients \cup {None}]
      OBVIOUS
    <2>3. DOMAIN FdsOf(fds) = {}
      BY <2>1 DEF FdsOf
    <2>4. IsInjective(FdsOf(fds)) /\ ToSet(FdsOf(fds)) = {}
      BY <2>3 DEF IsInjective, ToSet
    <2>5. QED
      BY <1>0, <2>1, <2>2, <2>4 DEF Listed
  <1>2. Scanning
    BY DEF Scanning, user_counter
  <1>3. Apart
    <2>1. backlog \in Seq(Clients) /\ IsInjective(backlog) /\ ToSet(backlog) = {}
      BY DEF IsInjective, ToSet
    <2>2. QED
      BY <1>0, <2>1 DEF Apart
  <1>4. Known
    BY DEF Known
  <1>5. Owned
    BY DEF Owned
  <1>6. Heard
    <2>1. \A c \in Clients : heard[c] = << >> /\ ToSet(heard[c]) = {}
      BY DEF ToSet
    <2>2. QED
      BY <2>1 DEF Heard
  <1>7. QED
    BY <1>1, <1>2, <1>3, <1>4, <1>5, <1>6 DEF CInv

LEMMA CInvStep == CInv /\ [Next]_vars => CInv'
  BY ListedStep, ScanningStep, ClientsStep, OwnedStep DEF CInv

-------------------------------------------------------------------------------
(* The theorems. *)

(* The table and the open connections are the same set, each once, also in the
   middle of a scan that removes entries, and the scan stays within it. *)
THEOREM ChatServerTypes == Spec => []TypeOK
  <1>1. CInv => TypeOK
    <2> SUFFICES ASSUME CInv PROVE TypeOK
      OBVIOUS
    <2>1. Listed /\ Scanning /\ Known
      BY DEF CInv
    <2>2. /\ DOMAIN FdsOf(fds) = 1..Len(fds)
          /\ \A i \in 1..Len(fds) : FdsOf(fds)[i] = fds[i].fd
      BY <2>1, Column DEF Listed
    <2>3. \A i, j \in 1..user_counter : fds[i].fd = fds[j].fd => i = j
      BY <2>1, <2>2 DEF Listed, IsInjective, user_counter
    <2>4. {fds[i].fd : i \in 1..user_counter} = {f \in Fds : conn[f] # None}
      BY <2>1, <2>2 DEF Listed, ToSet, Open, user_counter
    <2>5. QED
      BY <2>1, <2>3, <2>4 DEF TypeOK, Listed, Scanning, Known, user_counter
  <1>2. QED
    BY CInvInit, CInvStep, <1>1, PTL DEF Spec

(* A client is only sent a copy that was made for it, of another's message, and
   none twice or after a later one of the same sender: whatever is left in
   users[] by those who had its descriptor before is not sent to it. *)
THEOREM ChatServerHeardIsOwn == Spec => HeardIsOwn
  <1>1. ASSUME CInv, [Next]_vars, NEW c \in Clients, heard'[c] # heard[c]
        PROVE  \E by \in Clients \ {c}, n \in 1..MaxMessages :
                  /\ heard'[c] = Append(heard[c], Message(c, by, n))
                  /\ \A k \in n..MaxMessages : Message(c, by, k) \notin ToSet(heard[c])
    <2>1. Write /\ ~UNCHANGED <<write_buf, heard>>
      <3>1. Read => heard' = heard
        BY DEF Read
      <3>2. QED
        BY <1>1, <3>1, OtherOwned
    <2>2. PICK d \in Clients, m \in Messages :
              Fresh(d, m) /\ heard' = [heard EXCEPT ![d] = Append(heard[d], m)]
      BY <1>1, <2>1, WriteFacts
    <2>3. d = c /\ heard'[c] = Append(heard[c], m)
      BY <1>1, <2>2 DEF CInv, Heard
    <2>4. QED
      BY <2>2, <2>3 DEF Fresh
  <1>2. CInv /\ [Next]_vars =>
           [\A c \in Clients : heard'[c] # heard[c] =>
              \E by \in Clients \ {c}, n \in 1..MaxMessages :
                 /\ heard'[c] = Append(heard[c], Message(c, by, n))
                 /\ \A k \in n..MaxMessages : Message(c, by, k) \notin ToSet(heard[c])]_vars
    BY <1>1
  <1>3. QED
    BY CInvInit, CInvStep, <1>2, PTL DEF Spec, HeardIsOwn
===============================================================================

-------------------------------- MODULE TimerProofs --------------------------------
(***************************************************************************)
(* Machine-checked facts about the timers and the server that uses them.   *)
(*                                                                         *)
(* TimerServer, for any clients, TIMESLOT and MaxLate: every open          *)
(* connection has a timer of its own, which closes it, and no other timer  *)
(* is pending, however descriptors and timer objects are reused; and no    *)
(* client that stays is closed before its time.                            *)
(*                                                                         *)
(* The containers, for any timers and bounds: the array of the time heap   *)
(* stays a heap and the links of the sorted list stay a sorted list, both  *)
(* call back what Timers promises, and the wheel calls a timer back after  *)
(* the number of ticks it was given.                                       *)
(***************************************************************************)
EXTENDS TimerServer, TimerContainers, ContainerLemmas

-------------------------------------------------------------------------------
(* The inductive invariant. *)

Open == {f \in Fds : fdConn[f] # None}

(* A client waits once, or has one descriptor; quiet tells which. *)
Apart ==
    /\ fdConn \in [Fds -> Clients \cup {None}]
    /\ \A f, g \in Open : fdConn[f] = fdConn[g] => f = g
    /\ backlog \in Seq(Clients) /\ IsInjective(backlog)
    /\ quiet \in [Clients -> Int]
    /\ \A c \in ToSet(backlog) : quiet[c] = -1
    /\ \A f \in Open : quiet[fdConn[f]] >= 0

(* The events of the batch have not been overtaken: there is a connection to
   accept for the edge that was reported, and one more for one that was not. *)
Batched ==
    /\ batch \subseteq Events
    /\ \A f \in Fds : <<"conn", f>> \in batch => f \in Open
    /\ listenEdge \in BOOLEAN
    /\ listenEdge \/ <<"listen">> \in batch => Len(backlog) > 0
    /\ listenEdge /\ <<"listen">> \in batch => Len(backlog) > 1

(* The alarm is set, or its signal is on its way, or the timeout is noted. *)
Ringing ==
    /\ sigs \subseteq {"ALRM", "TERM"} /\ timeout \in BOOLEAN
    /\ alarm \in 0..TIMESLOT
    /\ alarm = 0 <=> timeout \/ "ALRM" \in sigs
    /\ ~(timeout /\ "ALRM" \in sigs)

(* Every open descriptor has a pending timer which points back to it. *)
Timed ==
    /\ left \in [DOMAIN left -> Int] /\ DOMAIN left \subseteq Timer
    /\ timer \in [Fds -> Timer \cup {0}] /\ user_data \in [Timer -> Fds \cup {0}]
    /\ \A f \in Open : timer[f] \in DOMAIN left /\ user_data[timer[f]] = f
    /\ \A t \in DOMAIN left : user_data[t] \in Open /\ timer[user_data[t]] = t

(* What a timer has left and what its client has been quiet is the limit. *)
Exact == \A f \in Open : left[timer[f]] + quiet[fdConn[f]] = IdleLimit

TInv == Apart /\ Batched /\ Ringing /\ Timed /\ Exact

-------------------------------------------------------------------------------
(* The timers. *)

IsTimers(l) == l \in [DOMAIN l -> Int] /\ DOMAIN l \subseteq Timer

LEMMA AddTimer ==
    ASSUME IsTimers(left), NEW t \in Timer, NEW d \in Int, List!Add(t, d)
    PROVE  /\ t \notin DOMAIN left /\ DOMAIN left' = DOMAIN left \cup {t} /\ IsTimers(left')
           /\ left'[t] = d /\ \A s \in DOMAIN left : left'[s] = left[s]
  BY DEF List!Add, List!Pending, IsTimers

LEMMA PostponeTimer ==
    ASSUME IsTimers(left), NEW t, NEW d \in Int, List!Postpone(t, d)
    PROVE  /\ DOMAIN left' = DOMAIN left /\ IsTimers(left')
           /\ left'[t] = d /\ \A s \in DOMAIN left : s # t => left'[s] = left[s]
  BY DEF List!Postpone, List!Pending, IsTimers

LEMMA CancelTimer ==
    ASSUME IsTimers(left), NEW t, List!Cancel(t)
    PROVE  /\ DOMAIN left' = DOMAIN left \ {t} /\ IsTimers(left')
           /\ \A s \in DOMAIN left' : left'[s] = left[s]
  BY DEF List!Cancel, List!Pending, IsTimers, List!Restrict

LEMMA ElapseTimers ==
    ASSUME IsTimers(left), List!Elapse
    PROVE  /\ DOMAIN left' = DOMAIN left /\ IsTimers(left')
           /\ \A s \in DOMAIN left : left'[s] = left[s] - 1
  BY DEF List!Elapse, List!Pending, IsTimers

LEMMA ListCardinality == \A S : List!Cardinality(S) = Cardinality(S)
  BY DEF List!Cardinality, Cardinality

(* A tick calls back all the timers that are due and no other. *)
LEMMA TickTimers ==
    ASSUME IsTimers(left), List!Tick
    PROVE  /\ ToSet(fired') = {t \in DOMAIN left : left[t] <= 0}
           /\ DOMAIN left' = DOMAIN left \ ToSet(fired') /\ IsTimers(left')
           /\ \A s \in DOMAIN left' : left'[s] = left[s]
  <1>1. PICK due : due = List!Due
    OBVIOUS
  <1>2. due = {t \in DOMAIN left : left[t] <= 0}
    BY <1>1 DEF List!Due, List!Pending
  <1>3. IsFiniteSet(due) /\ Cardinality(due) \in Nat
    <2>1. Cardinality(Clients) \in Nat
      BY ClientAssumption, FS_CardinalityType
    <2>2. IsFiniteSet(Timer)
      BY <2>1, FS_Interval DEF Timer
    <2>3. due \subseteq Timer
      BY <1>2 DEF IsTimers
    <2>4. QED
      BY <2>2, <2>3, FS_Subset, FS_CardinalityType
  <1>4. PICK n \in Nat : n = Cardinality(due)
    BY <1>3
  <1>5. /\ fired' \in [1..n -> due]
        /\ \A i, j \in 1..n : i < j => fired'[i] # fired'[j]
    <2>1. n = List!Cardinality(List!Due)
      BY <1>1, <1>4, ListCardinality
    <2>2. QED
      BY <1>1, <2>1 DEF List!Tick, List!Firings
  <1>6. \A i, j \in 1..n : fired'[i] = fired'[j] => i = j
    BY <1>5
  <1>7. fired' \in Injection(1..n, due)
    BY <1>5, <1>6 DEF Injection, IsInjective
  <1>8. Cardinality(1..n) = n
    BY FS_Interval
  <1>9. PICK f : f = fired'
    OBVIOUS
  <1>10. f \in Injection(1..n, due)
    BY <1>7, <1>9
  <1>11. f \in Surjection(1..n, due)
    BY <1>3, <1>4, <1>8, <1>10, FS_Injection
  <1>12. ToSet(fired') = due
    BY <1>5, <1>9, <1>11 DEF Surjection, ToSet
  <1>13. left' = [s \in DOMAIN left \ due |-> left[s]]
    BY <1>1 DEF List!Tick, List!Restrict, List!Pending
  <1>14. QED
    BY <1>2, <1>12, <1>13 DEF IsTimers

LEMMA Sizes ==
    /\ Cardinality(Clients) \in Nat /\ IsFiniteSet(Clients)
    /\ IsFiniteSet(Fds) /\ Cardinality(Fds) = Cardinality(Clients)
    /\ IsFiniteSet(Timer) /\ Cardinality(Timer) = Cardinality(Clients) + 1
    /\ Fds \subseteq Nat \ {0} /\ Timer \subseteq Nat \ {0}
    /\ TIMESLOT \in Nat \ {0} /\ MaxLate \in Nat /\ IdleLimit \in Nat \ {0}
  <1>1. Cardinality(Clients) \in Nat /\ IsFiniteSet(Clients)
    BY ClientAssumption, FS_CardinalityType
  <1>2. IsFiniteSet(Fds) /\ Cardinality(Fds) = Cardinality(Clients)
    BY <1>1, FS_Interval DEF Fds
  <1>3. IsFiniteSet(Timer) /\ Cardinality(Timer) = Cardinality(Clients) + 1
    BY <1>1, FS_Interval DEF Timer
  <1>4. TIMESLOT \in Nat \ {0} /\ MaxLate \in Nat /\ IdleLimit \in Nat \ {0}
    BY SlotAssumption DEF IdleLimit
  <1>5. Fds \subseteq Nat \ {0} /\ Timer \subseteq Nat \ {0}
    BY <1>1 DEF Fds, Timer
  <1>6. QED
    BY <1>1, <1>2, <1>3, <1>4, <1>5

(* There is a descriptor for every client that waits: those that are open belong
   to other clients, one each. *)
LEMMA FdIsFree ==
    ASSUME Apart, backlog # << >>
    PROVE  FreeFd \in Fds /\ fdConn[FreeFd] = None
  <1> DEFINE free == {f \in Fds : fdConn[f] = None}
             b == Head(backlog)
  <1>1. b \in ToSet(backlog) /\ b \in Clients
    BY PopRemoves DEF Apart
  <1>2. \A f \in Open : fdConn[f] # b
    BY <1>1 DEF Apart
  <1>3. free # {}
    <2>1. SUFFICES ASSUME free = {} PROVE FALSE
      OBVIOUS
    <2>2. \A f \in Fds : fdConn[f] \in Clients \ {b}
      BY <2>1, <1>2 DEF Apart, Open
    <2>3. \A f, g \in Fds : fdConn[f] = fdConn[g] => f = g
      BY <2>1 DEF Apart, Open
    <2>4. fdConn \in Injection(Fds, Clients \ {b})
      BY <2>2, <2>3 DEF Injection, Apart, IsInjective
    <2>5. IsFiniteSet(Clients \ {b}) /\ Cardinality(Clients \ {b}) = Cardinality(Clients) - 1
      BY <1>1, Sizes, FS_RemoveElement
    <2>6. Cardinality(Fds) <= Cardinality(Clients \ {b})
      BY <2>4, <2>5, FS_Injection
    <2>7. QED
      BY <2>5, <2>6, Sizes
  <1>4. free \in SUBSET Nat
    BY Sizes
  <1> HIDE DEF free
  <1>5. Min(free) \in free
    BY <1>3, <1>4, MinIsLeast
  <1>6. QED
    BY <1>5 DEF free, FreeFd

(* And a timer object: every pending one is that of a descriptor of its own. *)
LEMMA TimerIsFree ==
    ASSUME Timed
    PROVE  FreeTimer \in Timer \ DOMAIN left
  <1> DEFINE free == Timer \ DOMAIN left
  <1>1. free # {}
    <2>1. SUFFICES ASSUME free = {} PROVE FALSE
      OBVIOUS
    <2>2. \A t \in Timer : t \in DOMAIN left
      BY <2>1
    <2>3. \A t \in Timer : user_data[t] \in Fds /\ timer[user_data[t]] = t
      BY <2>2 DEF Timed, Open
    <2>4. user_data \in [Timer -> Fds] /\ \A s, t \in Timer : user_data[s] = user_data[t] => s = t
      BY <2>3 DEF Timed
    <2>5. user_data \in Injection(Timer, Fds)
      BY <2>4 DEF Injection, IsInjective
    <2>6. Cardinality(Timer) <= Cardinality(Fds)
      BY <2>5, Sizes, FS_Injection
    <2>7. QED
      BY <2>6, Sizes
  <1>2. free \in SUBSET Nat
    BY Sizes
  <1>3. FreeTimer = Min(free)
    BY DEF FreeTimer, List!Pending
  <1> HIDE DEF free
  <1>4. Min(free) \in free
    BY <1>1, <1>2, MinIsLeast
  <1>5. QED
    BY <1>3, <1>4 DEF free

(* The descriptor of a connection that is open. *)
LEMMA FdOfFacts ==
    ASSUME Apart
    PROVE  /\ \A c \in OpenConns : FdOf(c) \in Open /\ fdConn[FdOf(c)] = c
           /\ \A f \in Open : fdConn[f] \in OpenConns /\ FdOf(fdConn[f]) = f
           /\ OpenConns \subseteq Clients
  <1>1. ASSUME NEW c \in OpenConns PROVE FdOf(c) \in Open /\ fdConn[FdOf(c)] = c
    <2>1. c # None /\ \E f \in Fds : fdConn[f] = c
      BY DEF OpenConns
    <2>2. FdOf(c) \in Fds /\ fdConn[FdOf(c)] = c
      BY <2>1 DEF FdOf
    <2>3. QED
      BY <2>1, <2>2 DEF Open
  <1>2. \A f \in Open : fdConn[f] \in OpenConns
    BY DEF Open, OpenConns
  <1>3. \A f \in Open : FdOf(fdConn[f]) = f
    BY <1>1, <1>2 DEF Apart
  <1>4. OpenConns \subseteq Clients
    BY DEF OpenConns, Apart
  <1>5. QED
    BY <1>1, <1>2, <1>3, <1>4

-------------------------------------------------------------------------------
(* The connections and their timers. *)

Served == Apart /\ Timed /\ Exact

LEMMA ConnectServed ==
    ASSUME TInv, NEW c \in Clients, Connect(c)
    PROVE  Served'
  <1>t. Apart /\ Timed /\ Exact
    BY DEF TInv
  <1>1. /\ quiet[c] = -1 /\ c \notin ToSet(backlog) /\ backlog' = Append(backlog, c)
        /\ UNCHANGED <<fdConn, quiet, timer, user_data, left>>
    BY DEF Connect, Untimed, conns, userVars
  <1>2. /\ backlog' \in Seq(Clients) /\ ToSet(backlog') = ToSet(backlog) \cup {c}
        /\ IsInjective(backlog')
    BY <1>1, <1>t, PushAdds, PushKeepsInjective DEF Apart
  <1>3. Open' = Open
    BY <1>1 DEF Open
  <1>4. Apart'
    BY <1>1, <1>2, <1>3, <1>t DEF Apart
  <1>5. Timed' /\ Exact'
    BY <1>1, <1>3, <1>t DEF Timed, Exact
  <1>6. QED
    BY <1>4, <1>5 DEF Served

LEMMA SameServed ==
    ASSUME TInv, UNCHANGED <<fdConn, backlog, quiet, timer, user_data, left>>
    PROVE  Served'
  <1>1. Open' = Open
    BY DEF Open
  <1>2. QED
    BY <1>1 DEF TInv, Served, Apart, Timed, Exact

(* Time passes for the clients as for their timers. *)
LEMMA ElapseServed ==
    ASSUME TInv, Elapse
    PROVE  Served'
  <1>t. Apart /\ Timed /\ Exact
    BY DEF TInv
  <1>1. /\ UNCHANGED <<fdConn, backlog, timer, user_data>>
        /\ quiet' = [c \in Clients |-> IF c \in OpenConns THEN quiet[c] + 1 ELSE quiet[c]]
        /\ List!Elapse
    BY DEF Elapse, userVars, listening, conns
  <1>2. /\ DOMAIN left' = DOMAIN left /\ IsTimers(left')
        /\ \A s \in DOMAIN left : left'[s] = left[s] - 1
    BY <1>1, <1>t, ElapseTimers DEF Timed, IsTimers
  <1>3. Open' = Open
    BY <1>1 DEF Open
  <1>4. /\ quiet' \in [Clients -> Int]
        /\ \A f \in Open : /\ fdConn[f] \in Clients /\ quiet[fdConn[f]] \in Int
                           /\ quiet'[fdConn[f]] = quiet[fdConn[f]] + 1
    <2>1. quiet' \in [Clients -> Int]
      BY <1>1, <1>t DEF Apart
    <2>2. \A f \in Open : fdConn[f] \in OpenConns /\ fdConn[f] \in Clients
      BY <1>t, FdOfFacts
    <2>3. QED
      BY <1>1, <2>1, <2>2, <1>t DEF Apart
  <1>5. \A c \in ToSet(backlog) : c \in Clients /\ quiet'[c] = -1
    <2>1. ToSet(backlog) \subseteq Clients
      BY <1>t DEF Apart, ToSet
    <2>2. \A c \in ToSet(backlog) : c \notin OpenConns
      BY <1>t, FdOfFacts DEF Apart
    <2>3. QED
      BY <1>1, <2>1, <2>2, <1>t DEF Apart
  <1>6. Apart'
    <2>1. \A f \in Open : quiet'[fdConn[f]] >= 0
      BY <1>4, <1>t DEF Apart
    <2>2. QED
      BY <1>1, <1>3, <1>4, <1>5, <2>1, <1>t DEF Apart
  <1>7. Timed'
    BY <1>1, <1>2, <1>3, <1>t DEF Timed, IsTimers
  <1>8. Exact'
    <2>1. \A f \in Open : timer[f] \in DOMAIN left /\ left[timer[f]] \in Int
      BY <1>t DEF Timed
    <2>2. ASSUME NEW f \in Open PROVE left'[timer[f]] + quiet'[fdConn[f]] = IdleLimit
      <3>1. left'[timer[f]] = left[timer[f]] - 1 /\ quiet'[fdConn[f]] = quiet[fdConn[f]] + 1
        BY <1>2, <1>4, <2>1
      <3>2. left[timer[f]] + quiet[fdConn[f]] = IdleLimit
        BY <1>t DEF Exact
      <3>3. QED
        BY <1>4, <2>1, <3>1, <3>2
    <2>3. QED
      BY <1>1, <1>3, <2>2 DEF Exact
  <1>9. QED
    BY <1>6, <1>7, <1>8 DEF Served

(* A new connection has a descriptor and a timer that nobody else has. *)
LEMMA AcceptServed ==
    ASSUME TInv, Accept
    PROVE  Served'
  <1>t. Apart /\ Timed /\ Exact
    BY DEF TInv
  <1>1. backlog # << >>
    <2>1. Len(backlog) > 0
      BY DEF TInv, Batched, Accept, Dispatch
    <2>2. QED
      BY <2>1
  <1>2. PICK f, t, c : f = FreeFd /\ t = FreeTimer /\ c = Head(backlog)
    OBVIOUS
  <1>3. /\ f \in Fds /\ fdConn[f] = None /\ t \in Timer /\ t \notin DOMAIN left
    BY <1>1, <1>2, <1>t, FdIsFree, TimerIsFree
  <1>4. /\ backlog' = Tail(backlog)
        /\ fdConn' = [fdConn EXCEPT ![f] = c]
        /\ user_data' = [user_data EXCEPT ![t] = f]
        /\ timer' = [timer EXCEPT ![f] = t]
        /\ List!Add(t, IdleLimit)
        /\ quiet' = [quiet EXCEPT ![c] = 0]
    BY <1>2 DEF Accept
  <1>5. /\ c \in ToSet(backlog) /\ ToSet(backlog') = ToSet(backlog) \ {c}
        /\ IsInjective(backlog')
    BY <1>1, <1>2, <1>4, <1>t, PopRemoves DEF Apart
  <1>6. c \in Clients /\ backlog' \in Seq(Clients)
    BY <1>1, <1>2, <1>4, <1>t DEF Apart
  <1>7. c # None /\ \A g \in Open : fdConn[g] # c /\ g # f /\ g \in Fds
    BY <1>3, <1>5, <1>6, <1>t, ClientAssumption DEF Apart, Open
  <1>8. /\ fdConn' \in [Fds -> Clients \cup {None}]
        /\ \A g \in Fds : fdConn'[g] = IF g = f THEN c ELSE fdConn[g]
    BY <1>3, <1>4, <1>6, <1>t DEF Apart
  <1>9. Open' = Open \cup {f}
    BY <1>3, <1>7, <1>8 DEF Open
  <1>10. /\ quiet' \in [Clients -> Int]
         /\ \A d \in Clients : quiet'[d] = IF d = c THEN 0 ELSE quiet[d]
    BY <1>4, <1>6, <1>t DEF Apart
  <1>11. IsTimers(left) /\ IdleLimit \in Int
    BY <1>t, Sizes DEF Timed, IsTimers
  <1>12. /\ DOMAIN left' = DOMAIN left \cup {t} /\ IsTimers(left')
         /\ left'[t] = IdleLimit /\ \A s \in DOMAIN left : left'[s] = left[s]
    BY <1>3, <1>4, <1>11, AddTimer
  <1>13. /\ user_data' \in [Timer -> Fds \cup {0}] /\ timer' \in [Fds -> Timer \cup {0}]
         /\ \A s \in Timer : user_data'[s] = IF s = t THEN f ELSE user_data[s]
         /\ \A g \in Fds : timer'[g] = IF g = f THEN t ELSE timer[g]
    BY <1>3, <1>4, <1>t DEF Timed
  <1>14. Apart'
    <2>1. \A g, h \in Open' : fdConn'[g] = fdConn'[h] => g = h
      BY <1>3, <1>7, <1>8, <1>9, <1>t DEF Apart
    <2>2. \A d \in ToSet(backlog') : quiet'[d] = -1
      <3>1. ToSet(backlog) \subseteq Clients
        BY <1>t DEF Apart, ToSet
      <3>2. QED
        BY <1>5, <1>10, <3>1, <1>t DEF Apart
    <2>3. \A g \in Open' : quiet'[fdConn'[g]] >= 0
      <3>1. \A g \in Open : fdConn[g] \in Clients
        BY <1>t DEF Apart, Open
      <3>2. QED
        BY <1>3, <1>6, <1>7, <1>8, <1>9, <1>10, <3>1, <1>t DEF Apart
    <2>4. QED
      BY <1>5, <1>6, <1>8, <1>10, <2>1, <2>2, <2>3 DEF Apart
  <1>15. Timed'
    <2>1. ASSUME NEW g \in Open' PROVE timer'[g] \in DOMAIN left' /\ user_data'[timer'[g]] = g
      BY <1>3, <1>7, <1>9, <1>12, <1>13, <1>t DEF Timed
    <2>2. ASSUME NEW s \in DOMAIN left'
          PROVE  user_data'[s] \in Open' /\ timer'[user_data'[s]] = s
      BY <1>3, <1>7, <1>9, <1>12, <1>13, <1>t DEF Timed
    <2>3. QED
      BY <1>12, <1>13, <2>1, <2>2 DEF Timed, IsTimers
  <1>16. Exact'
    <2>1. \A g \in Open : fdConn[g] \in Clients /\ fdConn[g] # c /\ timer[g] \in DOMAIN left
      BY <1>7, <1>t DEF Apart, Open, Timed
    <2>2. ASSUME NEW g \in Open' PROVE left'[timer'[g]] + quiet'[fdConn'[g]] = IdleLimit
      <3>1. CASE g = f
        BY <1>3, <1>6, <1>8, <1>10, <1>11, <1>12, <1>13, <3>1
      <3>2. CASE g # f
        <4>1. g \in Open /\ g \in Fds
          BY <1>9, <3>2, <1>7
        <4>2. timer'[g] = timer[g] /\ fdConn'[g] = fdConn[g]
          BY <1>8, <1>13, <3>2, <4>1
        <4>3. QED
          BY <1>10, <1>12, <2>1, <4>1, <4>2, <1>t DEF Exact
      <3>3. QED
        BY <3>1, <3>2
    <2>3. QED
      BY <2>2 DEF Exact
  <1>17. QED
    BY <1>14, <1>15, <1>16 DEF Served

(* Data is read, and the timer of the connection starts again. *)
LEMMA DataServed ==
    ASSUME TInv, NEW f \in Fds, OnData(f)
    PROVE  Served'
  <1>t. Apart /\ Timed /\ Exact
    BY DEF TInv
  <1>1. f \in Open
    BY DEF TInv, Batched, OnData, Dispatch
  <1>2. PICK t, c : t = timer[f] /\ c = fdConn[f]
    OBVIOUS
  <1>3. t \in DOMAIN left /\ user_data[t] = f /\ c \in Clients /\ c # None
    BY <1>1, <1>2, <1>t DEF Timed, Apart, Open
  <1>4. /\ List!Postpone(t, IdleLimit)
        /\ quiet' = [quiet EXCEPT ![c] = 0]
        /\ UNCHANGED <<fdConn, backlog, timer, user_data>>
    BY <1>2 DEF OnData, userVars, listening
  <1>5. IsTimers(left) /\ IdleLimit \in Int
    BY <1>t, Sizes DEF Timed, IsTimers
  <1>6. /\ DOMAIN left' = DOMAIN left /\ IsTimers(left')
        /\ left'[t] = IdleLimit /\ \A s \in DOMAIN left : s # t => left'[s] = left[s]
    BY <1>4, <1>5, PostponeTimer
  <1>7. /\ quiet' \in [Clients -> Int]
        /\ \A d \in Clients : quiet'[d] = IF d = c THEN 0 ELSE quiet[d]
    BY <1>3, <1>4, <1>t DEF Apart
  <1>8. Open' = Open
    BY <1>4 DEF Open
  <1>9. \A g \in Open : /\ fdConn[g] \in Clients /\ timer[g] \in DOMAIN left
                        /\ g # f => fdConn[g] # c /\ timer[g] # t
    BY <1>1, <1>2, <1>3, <1>t DEF Apart, Timed, Open
  <1>10. Apart'
    <2>1. \A d \in ToSet(backlog) : d \in Clients /\ d # c
      <3>1. quiet[c] >= 0 /\ quiet[c] \in Int
        BY <1>1, <1>2, <1>3, <1>t DEF Apart
      <3>2. ToSet(backlog) \subseteq Clients
        BY <1>t DEF Apart, ToSet
      <3>3. QED
        BY <3>1, <3>2, <1>t DEF Apart
    <2>2. \A g \in Open : quiet'[fdConn[g]] >= 0
      BY <1>7, <1>9, <1>t DEF Apart
    <2>3. QED
      BY <1>4, <1>7, <1>8, <2>1, <2>2, <1>t DEF Apart
  <1>11. Timed'
    BY <1>4, <1>6, <1>8, <1>t DEF Timed, IsTimers
  <1>12. Exact'
    <2>1. ASSUME NEW g \in Open PROVE left'[timer[g]] + quiet'[fdConn[g]] = IdleLimit
      <3>1. CASE g = f
        BY <1>2, <1>3, <1>5, <1>6, <1>7, <3>1
      <3>2. CASE g # f
        BY <1>6, <1>7, <1>9, <3>2, <1>t DEF Exact
      <3>3. QED
        BY <3>1, <3>2
    <2>2. QED
      BY <1>4, <1>8, <2>1 DEF Exact
  <1>13. QED
    BY <1>10, <1>11, <1>12 DEF Served

(* What is open after some descriptors have been closed. *)
LEMMA CloseStep ==
    ASSUME TInv, NEW fs \in SUBSET Open, Close(fs)
    PROVE  /\ Open' = Open \ fs
           /\ fdConn' \in [Fds -> Clients \cup {None}]
           /\ quiet' \in [Clients -> Int]
           /\ \A f \in Open \ fs : /\ fdConn'[f] = fdConn[f] /\ fdConn[f] \in Clients
                                   /\ quiet'[fdConn[f]] = quiet[fdConn[f]]
           /\ \A c \in Clients : quiet[c] = -1 => quiet'[c] = -1
           /\ OpenConns \ OpenConns' = {fdConn[f] : f \in fs}
  <1>t. Apart
    BY DEF TInv
  <1>1. PICK cs : cs = {fdConn[f] : f \in fs} \ {None}
    OBVIOUS
  <1>2. /\ fdConn' = [f \in Fds |-> IF f \in fs THEN None ELSE fdConn[f]]
        /\ quiet' = [c \in Clients |-> IF c \in cs THEN 0 ELSE quiet[c]]
    BY <1>1 DEF Close
  <1>3. cs = {fdConn[f] : f \in fs}
    BY <1>1 DEF Open
  <1>4. \A f \in Open \ fs : fdConn[f] \in Clients /\ fdConn[f] \notin cs
    BY <1>3, <1>t DEF Apart, Open
  <1>5. \A c \in cs : quiet[c] >= 0
    BY <1>3, <1>t DEF Apart
  <1>6. fdConn' \in [Fds -> Clients \cup {None}] /\ quiet' \in [Clients -> Int]
    BY <1>2, <1>t DEF Apart
  <1>7. Open' = Open \ fs
    BY <1>2 DEF Open
  <1>8. \A f \in Open \ fs : fdConn'[f] = fdConn[f] /\ quiet'[fdConn[f]] = quiet[fdConn[f]]
    BY <1>2, <1>4 DEF Open
  <1>9. \A c \in Clients : quiet[c] = -1 => quiet'[c] = -1
    BY <1>2, <1>5
  <1>10. OpenConns \ OpenConns' = cs
    <2>1. OpenConns = {fdConn[f] : f \in Open} /\ OpenConns' = {fdConn'[f] : f \in Open'}
      BY DEF OpenConns, Open
    <2>2. OpenConns' = {fdConn[f] : f \in Open \ fs}
      BY <1>7, <1>8, <2>1
    <2>3. QED
      BY <1>3, <1>4, <2>1, <2>2
  <1>11. QED
    BY <1>3, <1>4, <1>6, <1>7, <1>8, <1>9, <1>10

(* Descriptors are closed together with their timers. *)
LEMMA CloseServed ==
    ASSUME TInv, NEW fs \in SUBSET Open, Close(fs), UNCHANGED <<timer, user_data, backlog>>,
           IsTimers(left'), DOMAIN left' = DOMAIN left \ {timer[f] : f \in fs},
           \A t \in DOMAIN left' : left'[t] = left[t]
    PROVE  Served'
  <1>t. Apart /\ Timed /\ Exact
    BY DEF TInv
  <1>1. /\ Open' = Open \ fs
        /\ fdConn' \in [Fds -> Clients \cup {None}]
        /\ quiet' \in [Clients -> Int]
        /\ \A f \in Open \ fs : /\ fdConn'[f] = fdConn[f] /\ fdConn[f] \in Clients
                                /\ quiet'[fdConn[f]] = quiet[fdConn[f]]
        /\ \A c \in Clients : quiet[c] = -1 => quiet'[c] = -1
    BY CloseStep
  <1>2. Apart'
    <2>1. \A c \in ToSet(backlog) : quiet'[c] = -1
      <3>1. ToSet(backlog) \subseteq Clients
        BY <1>t DEF Apart, ToSet
      <3>2. QED
        BY <1>1, <3>1, <1>t DEF Apart
    <2>2. QED
      BY <1>1, <2>1, <1>t DEF Apart
  <1>3. \A f \in Open \ fs : timer[f] \in DOMAIN left /\ timer[f] \notin {timer[g] : g \in fs}
    BY <1>t DEF Timed
  <1>4. Timed'
    <2>1. ASSUME NEW t \in DOMAIN left' PROVE user_data[t] \in Open' /\ timer[user_data[t]] = t
      BY <1>1, <1>t DEF Timed
    <2>2. \A f \in Open' : timer[f] \in DOMAIN left' /\ user_data[timer[f]] = f
      BY <1>1, <1>3, <1>t DEF Timed
    <2>3. QED
      BY <2>1, <2>2, <1>t DEF Timed, IsTimers
  <1>5. Exact'
    BY <1>1, <1>3, <1>t DEF Exact
  <1>6. QED
    BY <1>2, <1>4, <1>5 DEF Served

LEMMA HangUpServed ==
    ASSUME TInv, NEW f \in Fds, OnHangUp(f)
    PROVE  Served' /\ f \in Open /\ Close({f})
  <1>t. Apart /\ Timed /\ Exact
    BY DEF TInv
  <1>1. f \in Open
    BY DEF TInv, Batched, OnHangUp, Dispatch
  <1>2. PICK t : t = timer[f]
    OBVIOUS
  <1>3. Close({f}) /\ List!Cancel(t) /\ UNCHANGED <<timer, user_data, backlog>>
    BY <1>2 DEF OnHangUp, userVars, listening
  <1>4. IsTimers(left)
    BY <1>t DEF Timed, IsTimers
  <1>5. /\ DOMAIN left' = DOMAIN left \ {t} /\ IsTimers(left')
        /\ \A s \in DOMAIN left' : left'[s] = left[s]
    BY <1>3, <1>4, CancelTimer
  <1>6. PICK fs : fs = {f}
    OBVIOUS
  <1>7. fs \in SUBSET Open /\ {timer[g] : g \in fs} = {t} /\ Close(fs)
    BY <1>1, <1>2, <1>3, <1>6
  <1>8. QED
    BY <1>1, <1>3, <1>5, <1>7, CloseServed

(* The tick closes those whose timers are due, and nobody else. *)
LEMMA TimeoutServed ==
    ASSUME TInv, TimerHandler
    PROVE  /\ Served'
           /\ \E fs \in SUBSET Open : /\ Close(fs)
                                      /\ \A f \in fs : quiet[fdConn[f]] >= IdleLimit
  <1>t. Apart /\ Timed /\ Exact
    BY DEF TInv
  <1>1. PICK due, fs : due = ToSet(fired') /\ fs = {user_data[t] : t \in due}
    OBVIOUS
  <1>2. List!Tick /\ Close(fs) /\ UNCHANGED <<timer, user_data, backlog>>
    BY <1>1 DEF TimerHandler, userVars, listening
  <1>3. IsTimers(left)
    BY <1>t DEF Timed, IsTimers
  <1>4. /\ due = {t \in DOMAIN left : left[t] <= 0}
        /\ DOMAIN left' = DOMAIN left \ due /\ IsTimers(left')
        /\ \A s \in DOMAIN left' : left'[s] = left[s]
    BY <1>1, <1>2, <1>3, TickTimers
  <1>5. fs \in SUBSET Open /\ {timer[f] : f \in fs} = due
    BY <1>1, <1>4, <1>t DEF Timed
  <1>6. Served'
    BY <1>2, <1>4, <1>5, CloseServed
  <1>7. ASSUME NEW f \in fs PROVE quiet[fdConn[f]] >= IdleLimit
    <2>1. f \in Open /\ timer[f] \in DOMAIN left /\ left[timer[f]] <= 0
      BY <1>4, <1>5
    <2>2. left[timer[f]] + quiet[fdConn[f]] = IdleLimit
      BY <2>1, <1>t DEF Exact
    <2>3. left[timer[f]] \in Int /\ quiet[fdConn[f]] \in Int /\ IdleLimit \in Int
      BY <2>1, <1>t, Sizes DEF Timed, Apart, Open
    <2>4. QED
      BY <2>1, <2>2, <2>3
  <1>8. QED
    BY <1>2, <1>5, <1>6, <1>7

LEMMA ServedStep ==
    ASSUME TInv, [Next]_vars
    PROVE  Served'
  <1>1. ASSUME NEW c \in Clients, Say(c) \/ Leave(c) PROVE Served'
    BY <1>1, SameServed DEF Say, Leave, Untimed, userVars, listening
  <1>2. ASSUME Term \/ EpollWait \/ OnSignals \/ Stop PROVE Served'
    BY <1>2, SameServed DEF Term, EpollWait, OnSignals, Stop, Untimed, userVars, listening, conns
  <1>3. ASSUME NEW f \in Fds, OnNothing(f) PROVE Served'
    BY <1>3, SameServed DEF OnNothing, Untimed, userVars, listening, conns
  <1>4. ASSUME UNCHANGED vars PROVE Served'
    BY <1>4, SameServed DEF vars, timerVars, userVars, listening, conns
  <1>5. QED
    BY <1>1, <1>2, <1>3, <1>4, ConnectServed, ElapseServed, AcceptServed, DataServed,
       HangUpServed, TimeoutServed DEF Next, ServerStep

-------------------------------------------------------------------------------
(* The events of the batch. *)

(* What keeps them right: connections stay open or their event is gone, and the
   listening socket is left alone. *)
LEMMA SameBatched ==
    ASSUME TInv, batch' \subseteq batch, \A f \in Open : <<"conn", f>> \in batch' => f \in Open',
           UNCHANGED <<backlog, listenEdge>>
    PROVE  Batched'
  BY DEF TInv, Batched

LEMMA ConnectBatched ==
    ASSUME TInv, NEW c \in Clients, Connect(c)
    PROVE  Batched'
  <1>t. Batched /\ backlog \in Seq(Clients)
    BY DEF TInv, Apart
  <1>1. Len(backlog') = Len(backlog) + 1 /\ Len(backlog) \in Nat
    BY <1>t DEF Connect
  <1>2. Open' = Open
    BY DEF Connect, conns, Open
  <1>3. batch' = batch /\ listenEdge' = TRUE
    BY DEF Connect, loop
  <1>4. QED
    BY <1>t, <1>1, <1>2, <1>3 DEF Batched

LEMMA WaitBatched ==
    ASSUME TInv, EpollWait
    PROVE  Batched'
  <1>t. Batched /\ Apart
    BY DEF TInv
  <1>1. /\ batch' = Ready /\ batch = {} /\ listenEdge' = FALSE
        /\ UNCHANGED <<fdConn, backlog>>
    BY DEF EpollWait
  <1>2. Open' = Open
    BY <1>1 DEF Open
  <1>3. \A c \in edge \cap OpenConns : FdOf(c) \in Open
    BY <1>t, FdOfFacts
  <1>4. <<"listen">> \in Ready => listenEdge
    BY DEF Ready
  <1>5. \A f \in Fds : <<"conn", f>> \in Ready => f \in Open
    BY <1>3 DEF Ready
  <1>6. Ready \subseteq Events
    BY <1>3 DEF Ready, Events, Open
  <1>7. QED
    BY <1>t, <1>1, <1>2, <1>4, <1>5, <1>6 DEF Batched

LEMMA AcceptBatched ==
    ASSUME TInv, Accept
    PROVE  Batched'
  <1>t. Batched /\ Apart
    BY DEF TInv
  <1>1. /\ <<"listen">> \in batch /\ batch' = batch \ {<<"listen">>}
        /\ backlog' = Tail(backlog) /\ listenEdge' = listenEdge
    BY DEF Accept, Dispatch
  <1>2. Len(backlog) > 0 /\ (listenEdge => Len(backlog) > 1) /\ backlog \in Seq(Clients)
    BY <1>t, <1>1 DEF Batched, Apart
  <1>3. Len(backlog') = Len(backlog) - 1 /\ Len(backlog) \in Nat
    BY <1>1, <1>2
  <1>4. backlog # << >>
    BY <1>2
  <1>5. PICK f, c : f = FreeFd /\ c = Head(backlog)
    OBVIOUS
  <1>6. f \in Fds /\ c \in Clients /\ fdConn' = [fdConn EXCEPT ![f] = c]
    BY <1>t, <1>2, <1>4, <1>5, FdIsFree DEF Accept
  <1>7. \A g \in Open : g \in Open'
    BY <1>t, <1>6, ClientAssumption DEF Open, Apart
  <1>8. QED
    BY <1>t, <1>1, <1>2, <1>3, <1>7 DEF Batched

LEMMA BatchedStep ==
    ASSUME TInv, [Next]_vars
    PROVE  Batched'
  <1>1. ASSUME UNCHANGED fdConn PROVE Open' = Open
    BY <1>1 DEF Open
  <1>2. ASSUME NEW c \in Clients, Say(c) \/ Leave(c) PROVE Batched'
    BY <1>1, <1>2, SameBatched DEF Say, Leave, listening, loop
  <1>3. ASSUME Elapse \/ Term \/ Stop \/ OnSignals PROVE Batched'
    BY <1>1, <1>3, SameBatched DEF Elapse, Term, Stop, OnSignals, Dispatch, listening, loop, conns
  <1>4. ASSUME NEW f \in Fds, OnData(f) \/ OnNothing(f) PROVE Batched'
    BY <1>1, <1>4, SameBatched DEF OnData, OnNothing, Dispatch, listening, conns
  <1>5. ASSUME NEW f \in Fds, OnHangUp(f) PROVE Batched'
    <2>1. batch' = batch \ {<<"conn", f>>} /\ UNCHANGED <<backlog, listenEdge>>
      BY <1>5 DEF OnHangUp, Dispatch, listening
    <2>2. PICK fs : fs = {f}
      OBVIOUS
    <2>3. Close(fs) /\ fs \in SUBSET Open
      BY <1>5, <2>2, HangUpServed
    <2>4. Open' = Open \ fs
      BY <2>3, CloseStep
    <2>5. QED
      BY <2>1, <2>2, <2>4, SameBatched
  <1>6. ASSUME TimerHandler PROVE Batched'
    BY <1>6, SameBatched DEF TimerHandler, listening
  <1>7. ASSUME UNCHANGED vars PROVE Batched'
    BY <1>1, <1>7, SameBatched DEF vars, listening, loop, conns
  <1>8. QED
    BY <1>2, <1>3, <1>4, <1>5, <1>6, <1>7, ConnectBatched, WaitBatched, AcceptBatched
       DEF Next, ServerStep

-------------------------------------------------------------------------------
(* The alarm. *)

LEMMA OneLess ==
    ASSUME NEW n \in Nat
    PROVE  Max({0, n - 1}) = IF n = 0 THEN 0 ELSE n - 1
  BY DEF Max

LEMMA RingingStep ==
    ASSUME TInv, [Next]_vars
    PROVE  Ringing'
  <1>t. Ringing /\ TIMESLOT \in Nat \ {0}
    BY Sizes DEF TInv
  <1>1. ASSUME UNCHANGED <<sigs, alarm, timeout>> PROVE Ringing'
    BY <1>1, <1>t DEF Ringing
  <1>2. ASSUME NEW c \in Clients, Connect(c) \/ Say(c) \/ Leave(c) PROVE Ringing'
    BY <1>1, <1>2 DEF Connect, Say, Leave, loop, clock
  <1>3. ASSUME Elapse PROVE Ringing'
    <2>1. /\ alarm' = Max({0, alarm - 1}) /\ timeout' = timeout
          /\ sigs' = IF alarm = 1 THEN sigs \cup {"ALRM"} ELSE sigs
      BY <1>3 DEF Elapse, loop
    <2>2. alarm' = IF alarm = 0 THEN 0 ELSE alarm - 1
      BY <1>t, <2>1, OneLess DEF Ringing
    <2>3. QED
      BY <1>t, <2>1, <2>2 DEF Ringing
  <1>4. ASSUME Term PROVE Ringing'
    <2>1. sigs' = sigs \cup {"TERM"} /\ alarm' = alarm /\ timeout' = timeout
      BY <1>4 DEF Term, loop
    <2>2. QED
      BY <1>t, <2>1 DEF Ringing
  <1>5. ASSUME OnSignals PROVE Ringing'
    <2>1. sigs' = {} /\ alarm' = alarm /\ timeout' = (timeout \/ "ALRM" \in sigs)
      BY <1>5 DEF OnSignals
    <2>2. sigs' \subseteq {"ALRM", "TERM"} /\ alarm' \in 0..TIMESLOT /\ "ALRM" \notin sigs'
      BY <1>t, <2>1 DEF Ringing
    <2>3. timeout' \in BOOLEAN
      BY <2>1
    <2>4. alarm' = 0 <=> timeout'
      BY <1>t, <2>1, Zenon DEF Ringing
    <2>5. QED
      BY <2>2, <2>3, <2>4, Zenon DEF Ringing
  <1>6. ASSUME TimerHandler PROVE Ringing'
    <2>1. timeout /\ timeout' = FALSE /\ alarm' = TIMESLOT /\ sigs' = sigs
      BY <1>6 DEF TimerHandler
    <2>2. "ALRM" \notin sigs'
      BY <1>t, <2>1, Zenon DEF Ringing
    <2>3. alarm' \in 0..TIMESLOT /\ alarm' # 0
      BY <1>t, <2>1
    <2>4. sigs' \subseteq {"ALRM", "TERM"}
      BY <1>t, <2>1 DEF Ringing
    <2>5. QED
      BY <2>1, <2>2, <2>3, <2>4, Zenon DEF Ringing
  <1>7. ASSUME EpollWait \/ Accept \/ Stop PROVE Ringing'
    BY <1>1, <1>7 DEF EpollWait, Accept, Stop, clock
  <1>8. ASSUME NEW f \in Fds, OnData(f) \/ OnNothing(f) \/ OnHangUp(f) PROVE Ringing'
    BY <1>1, <1>8 DEF OnData, OnNothing, OnHangUp, clock
  <1>9. ASSUME UNCHANGED vars PROVE Ringing'
    BY <1>1, <1>9 DEF vars, loop, clock
  <1>10. QED
    BY <1>2, <1>3, <1>4, <1>5, <1>6, <1>7, <1>8, <1>9 DEF Next, ServerStep

-------------------------------------------------------------------------------
(* The theorems. *)

LEMMA TInvInit == Init => TInv
  <1> SUFFICES ASSUME Init PROVE TInv
    OBVIOUS
  <1>1. Open = {}
    BY DEF Init, Open
  <1>2. backlog \in Seq(Clients) /\ IsInjective(backlog) /\ ToSet(backlog) = {}
    BY DEF Init, IsInjective, ToSet
  <1>3. Apart
    BY <1>1, <1>2 DEF Init, Apart
  <1>4. Batched /\ Ringing
    <2>1. Batched
      BY DEF Init, Batched
    <2>2. alarm \in 0..TIMESLOT /\ alarm # 0
      BY Sizes DEF Init
    <2>3. Ringing
      BY <2>2 DEF Init, Ringing
    <2>4. QED
      BY <2>1, <2>3
  <1>5. left = << >>
    BY DEF Init, List!Init
  <1>6. Timed /\ Exact
    BY <1>1, <1>5 DEF Init, Timed, Exact
  <1>7. QED
    BY <1>3, <1>4, <1>6 DEF TInv

LEMMA TInvStep == TInv /\ [Next]_vars => TInv'
  BY ServedStep, BatchedStep, RingingStep DEF TInv, Served

(* The variables keep their types; no event of a batch is about a descriptor
   that has been closed since, and accept is called only for a connection
   (11_3_use_timer.cpp:98-184). *)
THEOREM TimerServerTypes == Spec => []TypeOK
  <1>1. TInv => TypeOK
    <2>1. SUFFICES ASSUME TInv PROVE TypeOK
      OBVIOUS
    <2>2. <<"listen">> \in batch => backlog # << >>
      BY <2>1 DEF TInv, Batched
    <2>3. \A f, g \in Fds : fdConn[f] = fdConn[g] /\ fdConn[f] # None => f = g
      BY <2>1 DEF TInv, Apart, Open
    <2>4. QED
      BY <2>1, <2>2, <2>3 DEF TInv, Apart, Batched, Ringing, Open, TypeOK
  <1>2. QED
    BY <1>1, TInvInit, TInvStep, PTL DEF Spec

(* Every open connection has one pending timer, which closes its descriptor and
   no other, and no other timer is pending (11_3_use_timer.cpp:119-182). *)
THEOREM TimerServerTimersMatch == Spec => []TimersMatch
  <1>1. TInv => TimersMatch
    <2>1. SUFFICES ASSUME TInv PROVE TimersMatch
      OBVIOUS
    <2>2. Apart /\ Timed
      BY <2>1 DEF TInv
    <2>3. /\ \A c \in OpenConns : FdOf(c) \in Open
          /\ \A f \in Open : fdConn[f] \in OpenConns /\ FdOf(fdConn[f]) = f
      BY <2>2, FdOfFacts
    <2>4. DOMAIN left = {timer[FdOf(c)] : c \in OpenConns}
      <3>1. \A c \in OpenConns : timer[FdOf(c)] \in DOMAIN left
        BY <2>2, <2>3 DEF Timed
      <3>2. ASSUME NEW t \in DOMAIN left PROVE \E c \in OpenConns : t = timer[FdOf(c)]
        <4>1. PICK f \in Open : timer[f] = t
          BY <2>2 DEF Timed
        <4>2. QED
          BY <2>3, <4>1
      <3>3. QED
        BY <3>1, <3>2
    <2>5. \A c \in OpenConns : user_data[timer[FdOf(c)]] = FdOf(c)
      BY <2>2, <2>3 DEF Timed
    <2>6. QED
      BY <2>4, <2>5 DEF TimersMatch, List!Pending
  <1>2. QED
    BY <1>1, TInvInit, TInvStep, PTL DEF Spec

(* No client that has not left is closed before it has been quiet for three
   slots (11_3_use_timer.cpp:57-67, 175-181). *)
THEOREM TimerServerNotTooEarly == Spec => NotTooEarly
  <1> DEFINE Late == \A c \in OpenConns \ (OpenConns' \cup hungUp) : quiet[c] >= IdleLimit
  <1>1. ASSUME TInv, UNCHANGED fdConn PROVE Late
    BY <1>1 DEF OpenConns
  <1>2. ASSUME TInv, NEW f \in Fds, OnHangUp(f) PROVE Late
    <2>1. PICK fs : fs = {f}
      OBVIOUS
    <2>2. Close(fs) /\ fs \in SUBSET Open
      BY <1>2, <2>1, HangUpServed
    <2>3. OpenConns \ OpenConns' = {fdConn[f]}
      BY <1>2, <2>1, <2>2, CloseStep
    <2>4. fdConn[f] \in hungUp
      BY <1>2 DEF OnHangUp
    <2>5. QED
      BY <2>3, <2>4
  <1>3. ASSUME TInv, TimerHandler PROVE Late
    <2>1. PICK fs \in SUBSET Open : Close(fs) /\ \A f \in fs : quiet[fdConn[f]] >= IdleLimit
      BY <1>3, TimeoutServed
    <2>2. OpenConns \ OpenConns' = {fdConn[f] : f \in fs}
      BY <1>3, <2>1, CloseStep
    <2>3. QED
      BY <2>1, <2>2
  <1>4. ASSUME TInv, Accept PROVE Late
    <2>1. backlog # << >> /\ Apart
      BY <1>4 DEF TInv, Batched, Accept, Dispatch
    <2>2. PICK f, c : f = FreeFd /\ c = Head(backlog)
      OBVIOUS
    <2>3. f \in Fds /\ fdConn[f] = None /\ fdConn' = [fdConn EXCEPT ![f] = c]
      BY <1>4, <2>1, <2>2, FdIsFree DEF Accept
    <2>4. \A g \in Fds : fdConn[g] # None => fdConn'[g] = fdConn[g]
      BY <2>1, <2>3 DEF Apart
    <2>5. OpenConns \subseteq OpenConns'
      BY <2>4 DEF OpenConns
    <2>6. QED
      BY <2>5
  <1>5. TInv /\ [Next]_vars => Late
    <2>1. SUFFICES ASSUME TInv, [Next]_vars PROVE Late
      OBVIOUS
    <2> HIDE DEF Late
    <2>2. ASSUME NEW c \in Clients, Connect(c) \/ Say(c) \/ Leave(c) PROVE Late
      BY <1>1, <2>1, <2>2 DEF Connect, Say, Leave, conns
    <2>3. ASSUME Elapse \/ Term \/ EpollWait \/ OnSignals \/ Stop \/ UNCHANGED vars PROVE Late
      BY <1>1, <2>1, <2>3 DEF Elapse, Term, EpollWait, OnSignals, Stop, conns, vars
    <2>4. ASSUME NEW f \in Fds, OnData(f) \/ OnNothing(f) PROVE Late
      BY <1>1, <2>1, <2>4 DEF OnData, OnNothing, conns
    <2>5. QED
      BY <1>2, <1>3, <1>4, <2>1, <2>2, <2>3, <2>4 DEF Next, ServerStep
  <1>6. QED
    BY <1>5, TInvInit, TInvStep, PTL DEF Spec, NotTooEarly

-------------------------------------------------------------------------------
(* The sorted list.  What it needs of its constants is a hypothesis of its
   theorems, as it is for the other containers. *)

Lists == [head : Object \cup {Null}, tail : Object \cup {Null},
          next : [Object -> Object \cup {Null}], prev : [Object -> Object \cup {Null}]]

(* The n timers of s are those of the list l, linked and sorted by e; no other
   but one in X has a pointer. *)
Chain(l, s, n, e, X) ==
    /\ l \in Lists /\ n \in Nat /\ s \in [1..n -> Object] /\ e \in [Object -> Int]
    /\ \A i, j \in 1..n : s[i] = s[j] => i = j
    /\ \A i, j \in 1..n : i <= j => e[s[i]] <= e[s[j]]
    /\ l.head = IF n = 0 THEN Null ELSE s[1]
    /\ n > 0 => l.tail = s[n]
    /\ \A i \in 1..n : /\ l.next[s[i]] = IF i = n THEN Null ELSE s[i + 1]
                       /\ l.prev[s[i]] = IF i = 1 THEN Null ELSE s[i - 1]
    /\ \A u \in Object \ X : (\A i \in 1..n : s[i] # u) => l.next[u] = Null /\ l.prev[u] = Null

(* t comes to the place p of the chain. *)
Spliced(m, l, s, n, p, t) ==
    /\ m \in Lists
    /\ m.head = IF p = 1 THEN t ELSE l.head
    /\ m.tail = IF p = n + 1 THEN t ELSE l.tail
    /\ m.next[t] = IF p = n + 1 THEN Null ELSE s[p]
    /\ m.prev[t] = IF p = 1 THEN Null ELSE s[p - 1]
    /\ p # 1 => m.next[s[p - 1]] = t
    /\ p # n + 1 => m.prev[s[p]] = t
    /\ \A u \in Object : u # t /\ (p = 1 \/ u # s[p - 1]) => m.next[u] = l.next[u]
    /\ \A u \in Object : u # t /\ (p = n + 1 \/ u # s[p]) => m.prev[u] = l.prev[u]

(* The place belongs to t. *)
Fits(s, n, e, p, t) ==
    /\ p \in 1..n + 1 /\ t \in Object
    /\ \A i \in 1..n : /\ s[i] # t
                       /\ i < p => e[s[i]] <= e[t]
                       /\ i >= p => e[t] <= e[s[i]]

Insert(s, n, p, t) == [i \in 1..n + 1 |-> IF i < p THEN s[i] ELSE IF i = p THEN t ELSE s[i - 1]]

Inserted(r, s, n, p, t) ==
    /\ r \in [1..n + 1 -> Object] /\ r[p] = t
    /\ \A i \in 1..p - 1 : i \in 1..n /\ r[i] = s[i]
    /\ \A i \in p..n : i \in 1..n /\ i + 1 \in 1..n + 1 /\ r[i + 1] = s[i]
    /\ \A i \in 1..n + 1 : i \in 1..p - 1 \/ i = p \/ i - 1 \in p..n

LEMMA InsertFacts ==
    ASSUME NEW n \in Nat, NEW s \in [1..n -> Object], NEW p \in 1..n + 1, NEW t \in Object,
           NEW r, r = Insert(s, n, p, t)
    PROVE  Inserted(r, s, n, p, t)
  <1>1. r \in [1..n + 1 -> Object]
    BY DEF Insert
  <1>2. \A i \in 1..n + 1 : r[i] = IF i < p THEN s[i] ELSE IF i = p THEN t ELSE s[i - 1]
    BY DEF Insert
  <1>3. \A i \in 1..p - 1 : i \in 1..n /\ i \in 1..n + 1 /\ i < p
    OBVIOUS
  <1>4. \A i \in p..n : i \in 1..n /\ i + 1 \in 1..n + 1 /\ ~(i + 1 < p) /\ i + 1 # p /\ (i + 1) - 1 = i
    OBVIOUS
  <1>5. \A i \in 1..n + 1 : i \in 1..p - 1 \/ i = p \/ i - 1 \in p..n
    OBVIOUS
  <1>6. QED
    BY <1>1, <1>2, <1>3, <1>4, <1>5 DEF Inserted

LEMMA InsertLinks ==
    ASSUME NEW l, NEW s, NEW n, NEW e, NEW p, NEW t, NEW m, NEW r,
           Chain(l, s, n, e, {t}), Fits(s, n, e, p, t), Spliced(m, l, s, n, p, t),
           r = Insert(s, n, p, t)
    PROVE  Chain(m, r, n + 1, e, {})
  <1>1. /\ n \in Nat /\ s \in [1..n -> Object] /\ e \in [Object -> Int]
        /\ \A i, j \in 1..n : s[i] = s[j] => i = j
        /\ \A i, j \in 1..n : i <= j => e[s[i]] <= e[s[j]]
        /\ l.head = IF n = 0 THEN Null ELSE s[1]
        /\ n > 0 => l.tail = s[n]
        /\ \A i \in 1..n : /\ l.next[s[i]] = IF i = n THEN Null ELSE s[i + 1]
                           /\ l.prev[s[i]] = IF i = 1 THEN Null ELSE s[i - 1]
        /\ \A u \in Object \ {t} :
              (\A i \in 1..n : s[i] # u) => l.next[u] = Null /\ l.prev[u] = Null
    BY Zenon DEF Chain
  <1>2. /\ p \in 1..n + 1 /\ t \in Object
        /\ \A i \in 1..n : s[i] # t /\ (i < p => e[s[i]] <= e[t]) /\ (i >= p => e[t] <= e[s[i]])
    BY Zenon DEF Fits
  <1>3. /\ m \in Lists
        /\ m.head = IF p = 1 THEN t ELSE l.head
        /\ m.tail = IF p = n + 1 THEN t ELSE l.tail
        /\ m.next[t] = IF p = n + 1 THEN Null ELSE s[p]
        /\ m.prev[t] = IF p = 1 THEN Null ELSE s[p - 1]
        /\ p # 1 => m.next[s[p - 1]] = t
        /\ p # n + 1 => m.prev[s[p]] = t
        /\ \A u \in Object : u # t /\ (p = 1 \/ u # s[p - 1]) => m.next[u] = l.next[u]
        /\ \A u \in Object : u # t /\ (p = n + 1 \/ u # s[p]) => m.prev[u] = l.prev[u]
    BY Zenon DEF Spliced
  <1>4. /\ r \in [1..n + 1 -> Object] /\ r[p] = t
        /\ \A i \in 1..p - 1 : i \in 1..n /\ r[i] = s[i]
        /\ \A i \in p..n : i \in 1..n /\ i + 1 \in 1..n + 1 /\ r[i + 1] = s[i]
        /\ \A i \in 1..n + 1 : i \in 1..p - 1 \/ i = p \/ i - 1 \in p..n
    <2>1. Inserted(r, s, n, p, t)
      BY <1>1, <1>2, InsertFacts
    <2>2. QED
      BY <2>1, Zenon DEF Inserted
  <1>5. \A i \in 1..n + 1 :
            \/ i = p /\ r[i] = t
            \/ i < p /\ i \in 1..n /\ r[i] = s[i]
            \/ i > p /\ i - 1 \in 1..n /\ i - 1 >= p /\ r[i] = s[i - 1]
    <2>1. ASSUME NEW i \in 1..n + 1, i - 1 \in p..n
          PROVE  i > p /\ i - 1 \in 1..n /\ i - 1 >= p /\ r[i] = s[i - 1]
      <3>1. (i - 1) + 1 = i /\ i > p /\ i - 1 >= p
        BY <1>2, <2>1
      <3>2. QED
        BY <1>4, <2>1, <3>1
    <2>2. ASSUME NEW i \in 1..n + 1, i \in 1..p - 1 PROVE i < p
      BY <1>2, <2>2
    <2>3. QED
      BY <1>4, <2>1, <2>2
  <1>6. ASSUME NEW i \in 1..n + 1, NEW j \in 1..n + 1, r[i] = r[j] PROVE i = j
    <2>1. i \in Int /\ j \in Int /\ n \in Int /\ p \in Int
      BY <1>1, <1>2
    <2>2. \A k \in 1..n + 1 : k # p => r[k] # t
      BY <1>2, <1>5
    <2>3. CASE i = p \/ j = p
      BY <1>4, <1>6, <2>2, <2>3
    <2>4. CASE i # p /\ j # p
      <3> DEFINE from(k) == IF k < p THEN k ELSE k - 1
      <3>1. from(i) \in 1..n /\ r[i] = s[from(i)] /\ from(j) \in 1..n /\ r[j] = s[from(j)]
        BY <1>5, <2>1, <2>4
      <3>2. from(i) = from(j)
        <4> HIDE DEF from
        <4>1. \A k, g \in 1..n : s[k] = s[g] => k = g
          BY <1>1
        <4>2. QED
          BY <1>6, <3>1, <4>1
      <3>3. QED
        BY <2>1, <2>4, <3>2
    <2>5. QED
      BY <2>3, <2>4
  <1>7. ASSUME NEW i \in 1..n + 1, NEW j \in 1..n + 1, i <= j PROVE e[r[i]] <= e[r[j]]
    <2>1. i \in Int /\ j \in Int /\ n \in Int /\ p \in Int
      BY <1>1, <1>2
    <2>2. e[t] \in Int /\ \A k \in 1..n : s[k] \in Object /\ e[s[k]] \in Int
      BY <1>1, <1>2
    <2>3. ASSUME NEW k \in 1..n + 1
          PROVE  /\ e[r[k]] \in Int /\ (k = p => r[k] = t)
                 /\ (k < p => e[r[k]] <= e[t]) /\ (k > p => e[t] <= e[r[k]])
      BY <1>2, <1>5, <2>2
    <2>4. CASE i <= p /\ p <= j
      BY <2>1, <2>2, <2>3, <2>4
    <2>5. CASE j < p
      <3>1. i \in 1..n /\ r[i] = s[i] /\ j \in 1..n /\ r[j] = s[j]
        BY <1>5, <1>7, <2>1, <2>5
      <3>2. QED
        BY <1>1, <1>7, <3>1
    <2>6. CASE i > p
      <3>1. i - 1 \in 1..n /\ r[i] = s[i - 1] /\ j - 1 \in 1..n /\ r[j] = s[j - 1]
        BY <1>5, <1>7, <2>1, <2>6
      <3>2. i - 1 <= j - 1
        BY <1>7, <2>1
      <3>3. QED
        BY <1>1, <3>1, <3>2
    <2>7. QED
      BY <2>1, <2>4, <2>5, <2>6
  <1>8. m.head = r[1]
    <2>1. CASE p = 1
      BY <1>3, <1>4, <2>1
    <2>2. CASE p # 1
      <3>1. 1 \in 1..p - 1 /\ n # 0
        BY <1>1, <1>2, <2>2
      <3>2. QED
        BY <1>1, <1>3, <1>4, <2>2, <3>1
    <2>3. QED
      BY <2>1, <2>2
  <1>9. m.tail = r[n + 1]
    <2>1. CASE p = n + 1
      BY <1>3, <1>4, <2>1
    <2>2. CASE p # n + 1
      <3>1. n \in p..n /\ n > 0
        BY <1>1, <1>2, <2>2
      <3>2. QED
        BY <1>1, <1>3, <1>4, <2>2, <3>1
    <2>3. QED
      BY <2>1, <2>2
  <1>10. ASSUME NEW i \in 1..n + 1
         PROVE  m.next[r[i]] = IF i = n + 1 THEN Null ELSE r[i + 1]
    <2>1. CASE i = p
      <3>1. CASE p = n + 1
        BY <1>3, <1>4, <2>1, <3>1
      <3>2. CASE p # n + 1
        <4>1. p \in p..n
          BY <1>1, <1>2, <3>2
        <4>2. QED
          BY <1>3, <1>4, <2>1, <3>2, <4>1
      <3>3. QED
        BY <3>1, <3>2
    <2>2. CASE i < p
      <3>1. i \in 1..p - 1 /\ i \in 1..n /\ r[i] = s[i] /\ s[i] \in Object /\ s[i] # t /\ i # n + 1
        BY <1>1, <1>2, <1>4, <2>2
      <3>2. CASE i = p - 1
        <4>1. i + 1 = p /\ p # 1
          BY <1>2, <2>2, <3>2
        <4>2. QED
          BY <1>3, <1>4, <3>1, <3>2, <4>1
      <3>3. CASE i # p - 1
        <4>1. i + 1 \in 1..p - 1 /\ i # n /\ p # 1 /\ p - 1 \in 1..n
          <5>1. n \in Nat /\ p \in 1..n + 1 /\ i \in 1..p - 1 /\ i # p - 1
            BY <1>1, <1>2, <3>1, <3>3
          <5>2. QED
            BY <5>1
        <4>2. s[i] # s[p - 1]
          BY <1>1, <3>1, <3>3, <4>1
        <4>3. m.next[r[i]] = l.next[s[i]]
          BY <1>3, <3>1, <4>2
        <4>4. QED
          BY <1>1, <1>4, <3>1, <4>1, <4>3
      <3>4. QED
        BY <3>2, <3>3
    <2>3. CASE i > p
      <3>1. /\ i - 1 \in 1..n /\ i - 1 \in p..n /\ r[i] = s[i - 1] /\ s[i - 1] \in Object
            /\ s[i - 1] # t /\ (i - 1) + 1 = i /\ (i - 1 = n <=> i = n + 1)
        <4>1. i - 1 \in 1..n /\ i - 1 >= p /\ r[i] = s[i - 1]
          BY <1>2, <1>5, <2>3
        <4>2. n \in Nat /\ p \in 1..n + 1 /\ i \in 1..n + 1
          BY <1>1, <1>2
        <4>3. /\ i - 1 \in 1..n /\ i - 1 \in p..n
              /\ (i - 1) + 1 = i /\ (i - 1 = n <=> i = n + 1)
          BY <4>1, <4>2
        <4>4. s[i - 1] \in Object /\ s[i - 1] # t
          BY <1>1, <1>2, <4>1
        <4>5. QED
          BY <4>1, <4>3, <4>4
      <3>2. p = 1 \/ s[i - 1] # s[p - 1]
        <4>1. p # 1 => p - 1 \in 1..n /\ p - 1 # i - 1
          BY <1>1, <1>2, <2>3
        <4>2. QED
          BY <1>1, <3>1, <4>1
      <3>3. m.next[r[i]] = l.next[s[i - 1]]
        BY <1>3, <3>1, <3>2
      <3>4. i # n + 1 => i \in p..n
        <4>1. n \in Nat /\ p \in Int /\ i \in 1..n + 1
          BY <1>1, <1>2
        <4>2. QED
          BY <2>3, <4>1
      <3>5. QED
        BY <1>1, <1>4, <3>1, <3>3, <3>4
    <2>4. QED
      BY <1>1, <1>2, <2>1, <2>2, <2>3
  <1>11. ASSUME NEW i \in 1..n + 1
         PROVE  m.prev[r[i]] = IF i = 1 THEN Null ELSE r[i - 1]
    <2>1. CASE i = p
      <3>1. CASE p = 1
        BY <1>3, <1>4, <2>1, <3>1
      <3>2. CASE p # 1
        <4>1. p - 1 \in 1..p - 1
          BY <1>1, <1>2, <3>2
        <4>2. QED
          BY <1>3, <1>4, <2>1, <3>2, <4>1
      <3>3. QED
        BY <3>1, <3>2
    <2>2. CASE i < p
      <3>1. i \in 1..p - 1 /\ i \in 1..n /\ r[i] = s[i] /\ s[i] \in Object /\ s[i] # t
        BY <1>1, <1>2, <1>4, <2>2
      <3>2. p = n + 1 \/ s[i] # s[p]
        <4>1. p # n + 1 => p \in 1..n /\ p # i
          BY <1>1, <1>2, <2>2
        <4>2. QED
          BY <1>1, <3>1, <4>1
      <3>3. m.prev[r[i]] = l.prev[s[i]]
        BY <1>3, <3>1, <3>2
      <3>4. i # 1 => i - 1 \in 1..p - 1
        BY <1>2, <2>2
      <3>5. QED
        BY <1>1, <1>4, <3>1, <3>3, <3>4
    <2>3. CASE i > p
      <3>1. /\ i - 1 \in 1..n /\ i - 1 \in p..n /\ r[i] = s[i - 1] /\ s[i - 1] \in Object
            /\ s[i - 1] # t /\ i # 1
        BY <1>1, <1>2, <1>5, <2>3
      <3>2. CASE i - 1 = p
        <4>1. p # n + 1
          BY <1>1, <1>2, <3>1, <3>2
        <4>2. QED
          BY <1>3, <1>4, <3>1, <3>2, <4>1
      <3>3. CASE i - 1 # p
        <4>1. /\ p \in 1..n /\ i - 1 # 1 /\ (i - 1) - 1 \in p..n /\ ((i - 1) - 1) + 1 = i - 1
          BY <1>1, <1>2, <2>3, <3>1, <3>3
        <4>2. s[i - 1] # s[p]
          BY <1>1, <3>1, <3>3, <4>1
        <4>3. m.prev[r[i]] = l.prev[s[i - 1]]
          BY <1>3, <3>1, <4>2
        <4>4. l.prev[s[i - 1]] = s[(i - 1) - 1]
          BY <1>1, <3>1, <4>1
        <4>5. r[i - 1] = s[(i - 1) - 1]
          BY <1>4, <4>1
        <4>6. QED
          BY <3>1, <4>3, <4>4, <4>5
      <3>4. QED
        BY <3>2, <3>3
    <2>4. QED
      BY <1>1, <1>2, <2>1, <2>2, <2>3
  <1>12. ASSUME NEW u \in Object, \A i \in 1..n + 1 : r[i] # u
         PROVE  m.next[u] = Null /\ m.prev[u] = Null
    <2>1. u # t
      BY <1>2, <1>4, <1>12
    <2>2. \A i \in 1..n : s[i] # u
      <3>1. ASSUME NEW i \in 1..n PROVE s[i] # u
        <4>1. (i \in 1..p - 1 /\ i \in 1..n + 1) \/ i \in p..n
          BY <1>1, <1>2
        <4>2. QED
          BY <1>4, <1>12, <4>1
      <3>2. QED
        BY <3>1
    <2>3. (p # 1 => p - 1 \in 1..n) /\ (p # n + 1 => p \in 1..n)
      BY <1>1, <1>2
    <2>4. m.next[u] = l.next[u] /\ m.prev[u] = l.prev[u]
      BY <1>3, <2>1, <2>2, <2>3
    <2>5. QED
      BY <1>1, <2>1, <2>2, <2>4
  <1>13. n + 1 \in Nat /\ n + 1 # 0
    BY <1>1
  <1>14. QED
    BY <1>1, <1>3, <1>4, <1>6, <1>7, <1>8, <1>9, <1>10, <1>11, <1>12, <1>13 DEF Chain

(* The timer at the place p leaves the chain. *)
Bypassed(m, l, s, n, p) ==
    /\ m \in Lists
    /\ n = 1 => m.head = Null
    /\ n # 1 => /\ m.head = IF p = 1 THEN s[2] ELSE l.head
                /\ m.tail = IF p = n THEN s[n - 1] ELSE l.tail
    /\ p # 1 => m.next[s[p - 1]] = IF p = n THEN Null ELSE s[p + 1]
    /\ p # n => m.prev[s[p + 1]] = IF p = 1 THEN Null ELSE s[p - 1]
    /\ \A u \in Object : u # s[p] /\ (p = 1 \/ u # s[p - 1]) => m.next[u] = l.next[u]
    /\ \A u \in Object : u # s[p] /\ (p = n \/ u # s[p + 1]) => m.prev[u] = l.prev[u]

Without(s, n, p) == [i \in 1..n - 1 |-> IF i < p THEN s[i] ELSE s[i + 1]]

Removed(r, s, n, p) ==
    /\ r \in [1..n - 1 -> Object]
    /\ \A i \in 1..n - 1 : \/ i < p /\ i \in 1..n /\ i # p /\ r[i] = s[i]
                           \/ i >= p /\ i + 1 \in 1..n /\ i + 1 # p /\ r[i] = s[i + 1]
    /\ \A i \in 1..n : \/ i < p /\ i \in 1..n - 1 /\ r[i] = s[i]
                       \/ i = p
                       \/ i > p /\ i - 1 \in 1..n - 1 /\ r[i - 1] = s[i]

LEMMA RemoveFacts ==
    ASSUME NEW n \in Nat, NEW s \in [1..n -> Object], NEW p \in 1..n, NEW r, r = Without(s, n, p)
    PROVE  Removed(r, s, n, p)
  <1>1. \A i \in 1..n - 1 : /\ i \in 1..n /\ i + 1 \in 1..n
                            /\ r[i] = IF i < p THEN s[i] ELSE s[i + 1]
    BY DEF Without
  <1>2. r \in [1..n - 1 -> Object]
    BY <1>1 DEF Without
  <1>3. ASSUME NEW i \in 1..n - 1
        PROVE  \/ i < p /\ i \in 1..n /\ i # p /\ r[i] = s[i]
               \/ i >= p /\ i + 1 \in 1..n /\ i + 1 # p /\ r[i] = s[i + 1]
    BY <1>1
  <1>4. ASSUME NEW i \in 1..n
        PROVE  \/ i < p /\ i \in 1..n - 1 /\ r[i] = s[i]
               \/ i = p
               \/ i > p /\ i - 1 \in 1..n - 1 /\ r[i - 1] = s[i]
    <2>1. CASE i < p
      <3>1. i \in 1..n - 1
        BY <2>1
      <3>2. QED
        BY <1>1, <2>1, <3>1
    <2>2. CASE i > p
      <3>1. i - 1 \in 1..n - 1 /\ ~(i - 1 < p) /\ (i - 1) + 1 = i
        BY <2>2
      <3>2. QED
        BY <1>1, <2>2, <3>1
    <2>3. QED
      BY <2>1, <2>2
  <1>5. QED
    BY <1>2, <1>3, <1>4 DEF Removed

LEMMA RemoveLinks ==
    ASSUME NEW l, NEW s, NEW n, NEW e, NEW p, NEW t, NEW m, NEW r, NEW d,
           Chain(l, s, n, e, {}), p \in 1..n, t = s[p], Bypassed(m, l, s, n, p),
           r = Without(s, n, p),
           d \in [Object -> Int], \A u \in Object \ {t} : d[u] = e[u]
    PROVE  Chain(m, r, n - 1, d, {t})
  <1>1. /\ n \in Nat /\ s \in [1..n -> Object] /\ e \in [Object -> Int]
        /\ \A i, j \in 1..n : s[i] = s[j] => i = j
        /\ \A i, j \in 1..n : i <= j => e[s[i]] <= e[s[j]]
        /\ l.head = IF n = 0 THEN Null ELSE s[1]
        /\ n > 0 => l.tail = s[n]
        /\ \A i \in 1..n : /\ l.next[s[i]] = IF i = n THEN Null ELSE s[i + 1]
                           /\ l.prev[s[i]] = IF i = 1 THEN Null ELSE s[i - 1]
        /\ \A u \in Object \ {} :
              (\A i \in 1..n : s[i] # u) => l.next[u] = Null /\ l.prev[u] = Null
    BY Zenon DEF Chain
  <1>2. /\ m \in Lists
        /\ n = 1 => m.head = Null
        /\ n # 1 => /\ m.head = IF p = 1 THEN s[2] ELSE l.head
                    /\ m.tail = IF p = n THEN s[n - 1] ELSE l.tail
        /\ p # 1 => m.next[s[p - 1]] = IF p = n THEN Null ELSE s[p + 1]
        /\ p # n => m.prev[s[p + 1]] = IF p = 1 THEN Null ELSE s[p - 1]
        /\ \A u \in Object : u # s[p] /\ (p = 1 \/ u # s[p - 1]) => m.next[u] = l.next[u]
        /\ \A u \in Object : u # s[p] /\ (p = n \/ u # s[p + 1]) => m.prev[u] = l.prev[u]
    BY Zenon DEF Bypassed
  <1>3. /\ r \in [1..n - 1 -> Object]
        /\ \A i \in 1..n - 1 : \/ i < p /\ i \in 1..n /\ i # p /\ r[i] = s[i]
                               \/ i >= p /\ i + 1 \in 1..n /\ i + 1 # p /\ r[i] = s[i + 1]
        /\ \A i \in 1..n : \/ i < p /\ i \in 1..n - 1 /\ r[i] = s[i]
                           \/ i = p
                           \/ i > p /\ i - 1 \in 1..n - 1 /\ r[i - 1] = s[i]
    <2>1. Removed(r, s, n, p)
      BY <1>1, RemoveFacts
    <2>2. QED
      BY <2>1, Zenon DEF Removed
  <1>4. n \in Nat /\ n - 1 \in Nat /\ p \in Int /\ 1 <= p /\ p <= n /\ t \in Object
    BY <1>1
  <1> DEFINE from == [i \in 1..n - 1 |-> IF i < p THEN i ELSE i + 1]
  <1>14. \A i \in 1..n - 1 : from[i] \in 1..n /\ from[i] # p
    BY <1>4
  <1>15. \A i, j \in 1..n - 1 : (from[i] = from[j] => i = j) /\ (i <= j => from[i] <= from[j])
    BY <1>4
  <1>16. \A i \in 1..n - 1 : r[i] = s[from[i]]
    BY <1>3, <1>4
  <1>17. /\ \A i, j \in 1..n : s[i] = s[j] => i = j
         /\ \A i, j \in 1..n : i <= j => e[s[i]] <= e[s[j]]
         /\ p \in 1..n /\ t = s[p]
    BY <1>1
  <1>18. \A i \in 1..n : s[i] \in Object /\ (i # p => s[i] # s[p])
    BY <1>1, <1>17
  <1> HIDE DEF from
  <1>5. ASSUME NEW i \in 1..n - 1, NEW j \in 1..n - 1, r[i] = r[j] PROVE i = j
    <2>1. s[from[i]] = s[from[j]]
      BY <1>5, <1>16
    <2>2. from[i] = from[j]
      <3>1. from[i] \in 1..n /\ from[j] \in 1..n
        BY <1>14
      <3>2. QED
        BY <1>17, <2>1, <3>1
    <2>3. QED
      BY <1>15, <2>2, Zenon
  <1>6. ASSUME NEW i \in 1..n - 1 PROVE r[i] # t /\ d[r[i]] = e[r[i]]
    <2>1. r[i] # t
      BY <1>14, <1>16, <1>17
    <2>2. r[i] \in Object
      BY <1>3
    <2>3. QED
      BY <2>1, <2>2
  <1>7. ASSUME NEW i \in 1..n - 1, NEW j \in 1..n - 1, i <= j PROVE d[r[i]] <= d[r[j]]
    <2>1. e[s[from[i]]] <= e[s[from[j]]]
      BY <1>7, <1>14, <1>15, <1>17
    <2>2. QED
      BY <1>6, <1>16, <2>1
  <1>8. m.head = IF n - 1 = 0 THEN Null ELSE r[1]
    <2>1. CASE n = 1
      BY <1>2, <2>1
    <2>2. CASE n # 1
      <3>1. 1 \in 1..n - 1 /\ n # 0 /\ 1 + 1 = 2
        BY <1>4, <2>2
      <3>2. r[1] = IF p = 1 THEN s[2] ELSE s[1]
        BY <1>3, <1>4, <3>1
      <3>3. QED
        BY <1>1, <1>2, <2>2, <3>1, <3>2
    <2>3. QED
      BY <2>1, <2>2
  <1>9. ASSUME n - 1 > 0 PROVE m.tail = r[n - 1]
    <2>1. n - 1 \in 1..n - 1 /\ n # 1 /\ n > 0 /\ (n - 1) + 1 = n /\ (n - 1 < p <=> p = n)
      BY <1>4, <1>9
    <2>2. r[n - 1] = IF p = n THEN s[n - 1] ELSE s[n]
      BY <1>3, <1>4, <2>1
    <2>3. QED
      BY <1>1, <1>2, <2>1, <2>2
  <1>10. ASSUME NEW i \in 1..n - 1
         PROVE  m.next[r[i]] = IF i = n - 1 THEN Null ELSE r[i + 1]
    <2>1. CASE i < p
      <3>1. i \in 1..n /\ r[i] = s[i] /\ s[i] \in Object /\ s[i] # s[p]
        <4>1. i \in 1..n /\ i # p
          BY <1>4, <2>1
        <4>2. r[i] = s[i]
          BY <1>3, <1>4, <2>1
        <4>3. QED
          BY <1>18, <4>1, <4>2
      <3>2. CASE i + 1 = p
        <4>1. p # 1 /\ i = p - 1 /\ (p = n <=> i = n - 1)
          BY <1>4, <3>1, <3>2
        <4>2. i # n - 1 => i + 1 \in 1..n - 1 /\ i + 1 >= p
          BY <1>4, <3>1, <3>2
        <4>3. i # n - 1 => r[i + 1] = s[p + 1]
          BY <1>3, <1>4, <3>2, <4>2
        <4>4. QED
          BY <1>2, <3>1, <4>1, <4>3
      <3>3. CASE i + 1 # p
        <4>1. /\ i + 1 \in 1..n - 1 /\ i + 1 < p /\ p # 1 /\ p - 1 \in 1..n /\ p - 1 # i
              /\ i # n /\ i # n - 1
          BY <1>4, <2>1, <3>1, <3>3
        <4>2. s[i] # s[p - 1]
          BY <1>1, <3>1, <4>1
        <4>3. m.next[r[i]] = l.next[s[i]]
          BY <1>2, <3>1, <4>2
        <4>4. l.next[s[i]] = s[i + 1]
          BY <1>1, <3>1, <4>1
        <4>5. r[i + 1] = s[i + 1]
          BY <1>3, <1>4, <4>1
        <4>6. QED
          BY <4>1, <4>3, <4>4, <4>5
      <3>4. QED
        BY <3>2, <3>3
    <2>2. CASE i >= p
      <3>1. i + 1 \in 1..n /\ r[i] = s[i + 1] /\ s[i + 1] \in Object /\ s[i + 1] # s[p]
        <4>1. i + 1 \in 1..n /\ i + 1 # p
          BY <1>4, <2>2
        <4>2. r[i] = s[i + 1]
          BY <1>3, <1>4, <2>2
        <4>3. QED
          BY <1>18, <4>1, <4>2
      <3>2. p = 1 \/ s[i + 1] # s[p - 1]
        <4>1. p # 1 => p - 1 \in 1..n /\ p - 1 # i + 1
          BY <1>4, <2>2, <3>1
        <4>2. QED
          BY <1>1, <3>1, <4>1
      <3>3. m.next[r[i]] = l.next[s[i + 1]]
        BY <1>2, <3>1, <3>2
      <3>4. l.next[s[i + 1]] = IF i + 1 = n THEN Null ELSE s[(i + 1) + 1]
        BY <1>1, <3>1
      <3>5. (i + 1 = n <=> i = n - 1) /\ (i # n - 1 => i + 1 \in 1..n - 1 /\ i + 1 >= p)
        BY <1>4, <2>2, <3>1
      <3>6. i # n - 1 => r[i + 1] = s[(i + 1) + 1]
        BY <1>3, <1>4, <3>5
      <3>7. QED
        BY <3>3, <3>4, <3>5, <3>6
    <2>3. QED
      BY <1>4, <2>1, <2>2
  <1>11. ASSUME NEW i \in 1..n - 1
         PROVE  m.prev[r[i]] = IF i = 1 THEN Null ELSE r[i - 1]
    <2>1. CASE i < p
      <3>1. i \in 1..n /\ r[i] = s[i] /\ s[i] \in Object /\ s[i] # s[p]
        <4>1. i \in 1..n /\ i # p
          BY <1>4, <2>1
        <4>2. r[i] = s[i]
          BY <1>3, <1>4, <2>1
        <4>3. QED
          BY <1>18, <4>1, <4>2
      <3>2. p = n \/ s[i] # s[p + 1]
        <4>1. p # n => p + 1 \in 1..n /\ p + 1 # i
          BY <1>4, <2>1, <3>1
        <4>2. QED
          BY <1>1, <3>1, <4>1
      <3>3. m.prev[r[i]] = l.prev[s[i]]
        BY <1>2, <3>1, <3>2
      <3>4. l.prev[s[i]] = IF i = 1 THEN Null ELSE s[i - 1]
        BY <1>1, <3>1
      <3>5. i # 1 => i - 1 \in 1..n - 1 /\ i - 1 < p
        BY <1>4, <2>1, <3>1
      <3>6. i # 1 => r[i - 1] = s[i - 1]
        BY <1>3, <1>4, <3>5
      <3>7. QED
        BY <3>3, <3>4, <3>6
    <2>2. CASE i = p
      <3>1. i + 1 \in 1..n /\ r[i] = s[p + 1] /\ p # n
        BY <1>3, <1>4, <2>2
      <3>2. m.prev[r[i]] = IF p = 1 THEN Null ELSE s[p - 1]
        BY <1>2, <3>1
      <3>3. p # 1 => p - 1 \in 1..n - 1 /\ p - 1 < p
        BY <1>4
      <3>4. p # 1 => r[p - 1] = s[p - 1]
        BY <1>3, <1>4, <3>3
      <3>5. QED
        BY <2>2, <3>2, <3>4
    <2>3. CASE i > p
      <3>1. i + 1 \in 1..n /\ r[i] = s[i + 1] /\ s[i + 1] \in Object /\ s[i + 1] # s[p]
        <4>1. i + 1 \in 1..n /\ i + 1 # p
          BY <1>4, <2>3
        <4>2. r[i] = s[i + 1]
          BY <1>3, <1>4, <2>3
        <4>3. QED
          BY <1>18, <4>1, <4>2
      <3>2. p = n \/ s[i + 1] # s[p + 1]
        <4>1. p # n => p + 1 \in 1..n /\ p + 1 # i + 1
          BY <1>4, <2>3, <3>1
        <4>2. QED
          BY <1>1, <3>1, <4>1
      <3>3. m.prev[r[i]] = l.prev[s[i + 1]]
        BY <1>2, <3>1, <3>2
      <3>4. i + 1 # 1 /\ (i + 1) - 1 = i /\ i # 1 /\ i - 1 \in 1..n - 1 /\ i - 1 >= p /\ (i - 1) + 1 = i
        BY <1>4, <2>3, <3>1
      <3>5. l.prev[s[i + 1]] = s[i]
        <4>1. l.prev[s[i + 1]] = IF i + 1 = 1 THEN Null ELSE s[(i + 1) - 1]
          BY <1>1, <3>1
        <4>2. QED
          BY <3>4, <4>1
      <3>6. r[i - 1] = s[i]
        BY <1>3, <1>4, <3>4
      <3>7. QED
        BY <3>3, <3>4, <3>5, <3>6
    <2>4. QED
      BY <1>4, <2>1, <2>2, <2>3
  <1>12. ASSUME NEW u \in Object \ {t}, \A i \in 1..n - 1 : r[i] # u
         PROVE  m.next[u] = Null /\ m.prev[u] = Null
    <2>1. ASSUME NEW i \in 1..n PROVE s[i] # u
      BY <1>3, <1>12
    <2>2. (p # 1 => p - 1 \in 1..n) /\ (p # n => p + 1 \in 1..n)
      BY <1>4
    <2>3. m.next[u] = l.next[u] /\ m.prev[u] = l.prev[u]
      BY <1>2, <2>1, <2>2
    <2>4. QED
      BY <1>1, <2>1, <2>3
  <1>13. QED
    BY <1>2, <1>3, <1>4, <1>5, <1>7, <1>8, <1>9, <1>10, <1>11, <1>12 DEF Chain

(* A timer that has left the chain loses its pointers. *)
LEMMA FreeLinks ==
    ASSUME NEW l, NEW s, NEW n, NEW e, NEW t \in Object, Chain(l, s, n, e, {t}), Null \notin Object,
           \A i \in 1..n : s[i] # t
    PROVE  Chain(Sorted!Free(l, t), s, n, e, {})
  <1>1. PICK m : m = Sorted!Free(l, t)
    OBVIOUS
  <1>2. l \in Lists
    BY DEF Chain
  <1>3. /\ m \in Lists /\ m.head = l.head /\ m.tail = l.tail
        /\ m.next = [l.next EXCEPT ![t] = Null] /\ m.prev = [l.prev EXCEPT ![t] = Null]
    BY <1>1, <1>2 DEF Sorted!Free, Lists
  <1>4. /\ \A u \in Object : u # t => m.next[u] = l.next[u] /\ m.prev[u] = l.prev[u]
        /\ m.next[t] = Null /\ m.prev[t] = Null
    BY <1>2, <1>3 DEF Lists
  <1>5. s \in [1..n -> Object]
    BY DEF Chain
  <1>6. Chain(m, s, n, e, {})
    BY <1>3, <1>4, <1>5 DEF Chain
  <1>7. QED
    BY <1>1, <1>6

(* What the walk along next meets, started with k steps to go. *)
Walks(walk, l, c) ==
    walk = [k \in 0..c + 1 |->
              [t \in Object \cup {Null} |->
                 IF t = Null \/ k = 0 THEN << >> ELSE <<t>> \o walk[k - 1][l.next[t]]]]

LEMMA WalkEquation ==
    ASSUME NEW l \in Lists, NEW c \in Nat
    PROVE  \E walk : Walks(walk, l, c)
  <1> DEFINE S == 0..c + 1
             W == Object \cup {Null}
             V == [W -> Seq(W)]
             Ends == {0}
             next == [k \in S |-> k - 1]
             rank == [k \in S |-> k]
             base == [k \in S |-> [t \in W |-> << >>]]
             row(k, v) == [t \in W |-> IF t = Null \/ k = 0 THEN << >> ELSE <<t>> \o v[l.next[t]]]
             step == [q \in (S \ Ends) \X V |-> row(q[1], q[2])]
  <1>1. \A k \in S \ Ends : next[k] = k - 1 /\ next[k] \in S /\ rank[next[k]] < rank[k]
    OBVIOUS
  <1>2. c + 1 \in Nat /\ \A k \in S : rank[k] \in 0..c + 1
    OBVIOUS
  <1>3. ASSUME NEW k \in S, NEW v \in V PROVE row(k, v) \in V
    <2>1. ASSUME NEW t \in W, t # Null PROVE <<t>> \o v[l.next[t]] \in Seq(W)
      <3>1. l.next[t] \in W
        BY <2>1 DEF Lists
      <3>2. <<t>> \in Seq(W) /\ v[l.next[t]] \in Seq(W)
        BY <3>1
      <3>3. QED
        BY <3>2
    <2>2. << >> \in Seq(W)
      OBVIOUS
    <2>3. QED
      BY <2>1, <2>2
  <1>4. \A k \in S \cap Ends : base[k] = [t \in W |-> << >>] /\ base[k] \in V
    <2>1. << >> \in Seq(W)
      OBVIOUS
    <2>2. QED
      BY <2>1
  <1>5. \A k \in S \ Ends : \A v \in V : step[<<k, v>>] = row(k, v)
    OBVIOUS
  <1>6. \A v : row(0, v) = [t \in W |-> << >>]
    OBVIOUS
  <1> HIDE DEF S, Ends, next, rank, base, step, row, V, W
  <1>7. PICK f \in [S -> V] :
            \A k \in S : f[k] = IF k \in Ends THEN base[k] ELSE step[<<k, f[next[k]]>>]
    <2>1. Paths(S, V, Ends, c + 1, rank, next, base, step)
      BY <1>1, <1>2, <1>3, <1>4, <1>5 DEF Paths
    <2>2. QED
      BY <2>1, PathRecursion
  <1>8. ASSUME NEW k \in S PROVE f[k] = row(k, f[k - 1])
    <2>1. CASE k = 0
      BY <1>4, <1>6, <1>7, <2>1 DEF Ends
    <2>2. CASE k # 0
      <3>1. k \in S \ Ends /\ next[k] = k - 1 /\ next[k] \in S
        BY <1>1, <2>2 DEF Ends
      <3>2. f[k] = step[<<k, f[k - 1]>>] /\ f[k - 1] \in V
        BY <1>7, <3>1
      <3>3. QED
        BY <1>5, <3>1, <3>2
    <2>3. QED
      BY <2>1, <2>2
  <1>9. f = [k \in S |-> row(k, f[k - 1])]
    BY <1>7, <1>8
  <1>10. Walks(f, l, c)
    BY <1>9, Zenon DEF S, row, W, Walks
  <1>11. QED
    BY <1>10

LEMMA ConsFacts ==
    ASSUME NEW T, NEW x \in T, NEW k \in Nat \ {0}, NEW s \in [1..k - 1 -> T], NEW r \in [1..k -> T],
           r[1] = x, \A i \in 1..k - 1 : r[i + 1] = s[i]
    PROVE  <<x>> \o s = r
  <1>1. s \in Seq(T) /\ Len(s) = k - 1 /\ r \in Seq(T) /\ Len(r) = k /\ <<x>> \in Seq(T) /\ Len(<<x>>) = 1
    OBVIOUS
  <1>2. PICK u : u = <<x>> \o s
    OBVIOUS
  <1>3. u \in Seq(T) /\ Len(u) = k
    BY <1>1, <1>2
  <1>4. ASSUME NEW i \in 1..k PROVE u[i] = r[i]
    <2>1. CASE i = 1
      BY <1>1, <1>2, <2>1
    <2>2. CASE i # 1
      <3>1. i - 1 \in 1..k - 1 /\ (i - 1) + 1 = i
        BY <2>2
      <3>2. u[i] = s[i - 1]
        BY <1>1, <1>2, <3>1
      <3>3. QED
        BY <3>1, <3>2
    <2>3. QED
      BY <2>1, <2>2
  <1>5. u = r
    BY <1>1, <1>3, <1>4
  <1>6. QED
    BY <1>2, <1>5

(* The walk meets the timers of the chain, in its order. *)
LEMMA NodesOfChain ==
    ASSUME NEW l, NEW s, NEW n, NEW e, NEW X, Chain(l, s, n, e, X),
           Null \notin Object, IsFiniteSet(Object)
    PROVE  Sorted!Nodes(l) = s /\ s \in Seq(Object) /\ Len(s) = n
  <1>1. /\ l \in Lists /\ n \in Nat /\ s \in [1..n -> Object]
        /\ \A i, j \in 1..n : s[i] = s[j] => i = j
        /\ l.head = IF n = 0 THEN Null ELSE s[1]
        /\ \A i \in 1..n : l.next[s[i]] = IF i = n THEN Null ELSE s[i + 1]
    BY Zenon DEF Chain
  <1>2. s \in Seq(Object) /\ Len(s) = n /\ DOMAIN s = 1..n
    BY <1>1
  <1>3. PICK c : c = Cardinality(Object)
    OBVIOUS
  <1>4. c \in Nat /\ n <= c
    <2>1. IsInjective(s)
      BY <1>1, <1>2 DEF IsInjective
    <2>2. Cardinality(ToSet(s)) = n
      BY <1>2, <2>1, LengthOfInjective
    <2>3. ToSet(s) \subseteq Object
      BY <1>1, <1>2 DEF ToSet
    <2>4. QED
      BY <1>3, <2>2, <2>3, FS_Subset, FS_CardinalityType
  <1>5. PICK walk : Walks(walk, l, c) /\ Sorted!Nodes(l) = walk[c + 1][l.head]
    <2>1. Sorted!Cardinality(Object) = c
      BY <1>3, Zenon DEF Sorted!Cardinality, Cardinality
    <2>2. \E walk : Walks(walk, l, c)
      BY <1>1, <1>4, WalkEquation
    <2>3. QED
      BY <2>1, <2>2, Zenon DEF Walks, Sorted!Nodes
  <1>6. \A k \in 0..c + 1 : \A t \in Object \cup {Null} :
            walk[k][t] = IF t = Null \/ k = 0 THEN << >> ELSE <<t>> \o walk[k - 1][l.next[t]]
    <2>1. ASSUME NEW k \in 0..c + 1
          PROVE  walk[k] = [t \in Object \cup {Null} |->
                              IF t = Null \/ k = 0 THEN << >> ELSE <<t>> \o walk[k - 1][l.next[t]]]
      BY <1>5, Zenon DEF Walks
    <2>2. QED
      BY <2>1
  <1> DEFINE node == [k \in 0..n |-> IF k = 0 THEN Null ELSE s[n - k + 1]]
             rest == [k \in 0..n |-> [i \in 1..k |-> s[n - k + i]]]
             P == {k \in 0..n : \A m \in k..c + 1 : walk[m][node[k]] = rest[k]}
             rank == [k \in 0..n |-> k]
  <1>7. node[0] = Null /\ rest[0] = << >>
    BY <1>1
  <1>8. ASSUME NEW k \in 1..n
        PROVE  /\ node[k] = s[n - k + 1] /\ node[k] \in Object
               /\ l.next[node[k]] = node[k - 1] /\ k - 1 \in 0..n
               /\ <<node[k]>> \o rest[k - 1] = rest[k]
    <2>1. /\ n - k + 1 \in 1..n /\ (n - k + 1 = n <=> k = 1) /\ k - 1 \in 0..n /\ k \in 0..n
          /\ n - (k - 1) + 1 = (n - k + 1) + 1 /\ k \in Nat \ {0}
      BY <1>1
    <2>2. node[k] = s[n - k + 1] /\ node[k] \in Object
      BY <1>1, <2>1
    <2>3. node[k - 1] = IF k = 1 THEN Null ELSE s[(n - k + 1) + 1]
      BY <2>1
    <2>4. l.next[node[k]] = node[k - 1]
      BY <1>1, <2>1, <2>2, <2>3
    <2>5. \A i \in 1..k : n - k + i \in 1..n
      BY <1>1
    <2>6. \A i \in 1..k - 1 : n - (k - 1) + i \in 1..n /\ n - (k - 1) + i = n - k + (i + 1) /\ i + 1 \in 1..k
      BY <1>1
    <2>7. rest[k] = [i \in 1..k |-> s[n - k + i]] /\ rest[k - 1] = [i \in 1..k - 1 |-> s[n - (k - 1) + i]]
      BY <2>1
    <2>8. PICK u, v : u = rest[k] /\ v = rest[k - 1]
      OBVIOUS
    <2>9. u \in [1..k -> Object] /\ v \in [1..k - 1 -> Object]
      <3>1. \A i \in 1..k : s[n - k + i] \in Object
        BY <1>1, <2>5
      <3>2. \A i \in 1..k - 1 : s[n - (k - 1) + i] \in Object
        BY <1>1, <2>6
      <3>3. QED
        <4>1. [i \in 1..k |-> s[n - k + i]] \in [1..k -> Object]
          BY <3>1
        <4>2. [i \in 1..k - 1 |-> s[n - (k - 1) + i]] \in [1..k - 1 -> Object]
          BY <3>2
        <4>3. QED
          BY <2>7, <2>8, <4>1, <4>2, Zenon
    <2>10. u[1] = node[k] /\ \A i \in 1..k - 1 : u[i + 1] = v[i]
      <3>1. 1 \in 1..k
        BY <2>1
      <3>2. u[1] = node[k]
        BY <2>2, <2>7, <2>8, <3>1
      <3>3. ASSUME NEW i \in 1..k - 1 PROVE u[i + 1] = v[i]
        <4>1. u[i + 1] = s[n - k + (i + 1)]
          BY <2>6, <2>7, <2>8
        <4>2. v[i] = s[n - (k - 1) + i]
          BY <2>7, <2>8
        <4>3. QED
          BY <2>6, <4>1, <4>2
      <3>4. QED
        BY <3>2, <3>3
    <2>11. <<node[k]>> \o v = u
      BY <2>1, <2>2, <2>9, <2>10, ConsFacts
    <2>12. QED
      BY <2>1, <2>2, <2>4, <2>8, <2>11
  <1>9. l.head = node[n] /\ rest[n] = s /\ n \in 0..n /\ c + 1 \in n..c + 1
    <2>1. n \in 0..n /\ c + 1 \in n..c + 1 /\ (n # 0 => n - n + 1 = 1)
      BY <1>1, <1>4
    <2>2. \A i \in 1..n : n - n + i = i
      BY <1>1
    <2>3. rest[n] = s
      BY <1>1, <2>1, <2>2
    <2>4. QED
      BY <1>1, <2>1, <2>3
  <1>10. \A k \in 0..n : rank[k] = k /\ rank[k] \in Nat
    BY <1>1
  <1> HIDE DEF node, rest, rank
  <1>11. ASSUME NEW k \in 0..n, \A j \in 0..n : rank[j] < rank[k] => j \in P PROVE k \in P
    <2>1. ASSUME NEW m \in k..c + 1 PROVE walk[m][node[k]] = rest[k]
      <3>1. m \in 0..c + 1
        BY <1>4
      <3>2. CASE k = 0
        BY <1>6, <1>7, <3>1, <3>2
      <3>3. CASE k # 0
        <4>1. k \in 1..n /\ k - 1 \in 0..n /\ m - 1 \in k - 1..c + 1 /\ m # 0
          BY <1>1, <1>4, <3>3
        <4>2. k - 1 \in P
          BY <1>10, <1>11, <4>1
        <4>3. walk[m - 1][node[k - 1]] = rest[k - 1]
          BY <4>1, <4>2
        <4>4. walk[m][node[k]] = <<node[k]>> \o walk[m - 1][l.next[node[k]]]
          <5>1. node[k] \in Object \cup {Null} /\ node[k] # Null
            BY <1>8, <4>1
          <5>2. QED
            BY <1>6, <3>1, <4>1, <5>1
        <4>5. l.next[node[k]] = node[k - 1] /\ <<node[k]>> \o rest[k - 1] = rest[k]
          BY <1>8, <4>1
        <4>6. QED
          BY <4>3, <4>4, <4>5, Zenon
      <3>4. QED
        BY <3>2, <3>3
    <2>2. QED
      BY <2>1
  <1> HIDE DEF P
  <1>12. 0..n \subseteq P
    <2>1. \A k \in 0..n : rank[k] \in Nat
      BY <1>10
    <2>2. PICK S : S = 0..n
      OBVIOUS
    <2>3. \A k \in S : (\A j \in S : rank[j] < rank[k] => j \in P) => k \in P
      BY <1>11, <2>2, Zenon
    <2>4. \A k \in S : rank[k] \in Nat
      BY <2>1, <2>2, Zenon
    <2>5. S \subseteq P
      BY <2>3, <2>4, RankInduction
    <2>6. QED
      BY <2>2, <2>5
  <1>13. walk[c + 1][node[n]] = rest[n]
    BY <1>9, <1>12 DEF P
  <1>14. QED
    BY <1>2, <1>5, <1>9, <1>13

Entries(s, n) == {s[i] : i \in 1..n}

LEMMA InsertEntries ==
    ASSUME NEW n \in Nat, NEW s \in [1..n -> Object], NEW p \in 1..n + 1, NEW t \in Object
    PROVE  Entries(Insert(s, n, p, t), n + 1) = Entries(s, n) \cup {t}
  <1>1. PICK r : r = Insert(s, n, p, t)
    OBVIOUS
  <1>2. /\ r[p] = t
        /\ \A i \in 1..p - 1 : i \in 1..n /\ r[i] = s[i]
        /\ \A i \in p..n : i \in 1..n /\ i + 1 \in 1..n + 1 /\ r[i + 1] = s[i]
        /\ \A i \in 1..n + 1 : i \in 1..p - 1 \/ i = p \/ i - 1 \in p..n
    <2>1. Inserted(r, s, n, p, t)
      BY <1>1, InsertFacts
    <2>2. QED
      BY <2>1, Zenon DEF Inserted
  <1>3. ASSUME NEW i \in 1..n + 1 PROVE r[i] \in Entries(s, n) \cup {t}
    <2>1. CASE i - 1 \in p..n
      <3>1. (i - 1) + 1 = i
        OBVIOUS
      <3>2. r[i] = s[i - 1] /\ i - 1 \in 1..n
        BY <1>2, <2>1, <3>1
      <3>3. QED
        BY <3>2 DEF Entries
    <2>2. QED
      BY <1>2, <2>1 DEF Entries
  <1>4. ASSUME NEW i \in 1..n PROVE s[i] \in Entries(r, n + 1)
    <2>1. i \in 1..p - 1 \/ i \in p..n
      OBVIOUS
    <2>2. i \in 1..n + 1
      OBVIOUS
    <2>3. QED
      BY <1>2, <2>1, <2>2 DEF Entries
  <1>5. Entries(r, n + 1) = Entries(s, n) \cup {t}
    BY <1>2, <1>3, <1>4 DEF Entries
  <1>6. QED
    BY <1>1, <1>5

LEMMA WithoutEntries ==
    ASSUME NEW n \in Nat, NEW s \in [1..n -> Object], NEW p \in 1..n,
           \A i, j \in 1..n : s[i] = s[j] => i = j
    PROVE  Entries(Without(s, n, p), n - 1) = Entries(s, n) \ {s[p]}
  <1>1. PICK r : r = Without(s, n, p)
    OBVIOUS
  <1>2. /\ \A i \in 1..n - 1 : \/ i < p /\ i \in 1..n /\ i # p /\ r[i] = s[i]
                               \/ i >= p /\ i + 1 \in 1..n /\ i + 1 # p /\ r[i] = s[i + 1]
        /\ \A i \in 1..n : \/ i < p /\ i \in 1..n - 1 /\ r[i] = s[i]
                           \/ i = p
                           \/ i > p /\ i - 1 \in 1..n - 1 /\ r[i - 1] = s[i]
    <2>1. Removed(r, s, n, p)
      BY <1>1, RemoveFacts
    <2>2. QED
      BY <2>1, Zenon DEF Removed
  <1>3. ASSUME NEW i \in 1..n - 1 PROVE \E k \in 1..n : k # p /\ r[i] = s[k]
    BY <1>2
  <1>4. ASSUME NEW i \in 1..n, i # p PROVE \E k \in 1..n - 1 : r[k] = s[i]
    BY <1>2, <1>4
  <1>5. Entries(r, n - 1) = Entries(s, n) \ {s[p]}
    <2>1. ASSUME NEW u \in Entries(r, n - 1) PROVE u \in Entries(s, n) /\ u # s[p]
      BY <1>3, <2>1 DEF Entries
    <2>2. ASSUME NEW u \in Entries(s, n), u # s[p] PROVE u \in Entries(r, n - 1)
      BY <1>4, <2>2 DEF Entries
    <2>3. QED
      BY <2>1, <2>2
  <1>6. QED
    BY <1>1, <1>5

(* What the walk makes of the chain. *)
LEMMA ListNow ==
    ASSUME Sorted!ConstantsOK, NEW l, NEW s, NEW n, NEW e, NEW X, Chain(l, s, n, e, X)
    PROVE  /\ Null \notin Object
           /\ Sorted!Nodes(l) = s /\ s \in Seq(Object) /\ Len(s) = n /\ s \in [1..n -> Object]
           /\ Sorted!Range(Sorted!Nodes(l)) = Entries(s, n)
  <1>1. Null \notin Object /\ IsFiniteSet(Object)
    <2>1. Null \notin Object /\ Sorted!IsFiniteSet(Object)
      BY DEF Sorted!ConstantsOK
    <2>2. QED
      BY <2>1, Zenon DEF Sorted!IsFiniteSet, IsFiniteSet
  <1>2. Sorted!Nodes(l) = s /\ s \in Seq(Object) /\ Len(s) = n
    BY <1>1, NodesOfChain
  <1>3. s \in [1..n -> Object] /\ DOMAIN s = 1..n
    BY DEF Chain
  <1>4. Sorted!Range(s) = Entries(s, n)
    BY <1>3 DEF Sorted!Range, Entries
  <1>5. QED
    BY <1>1, <1>2, <1>3, <1>4

(* Other times that keep the order. *)
LEMMA ChainAnew ==
    ASSUME NEW l, NEW s, NEW n, NEW e, NEW X, NEW d, Chain(l, s, n, e, X), d \in [Object -> Int],
           \A i, j \in 1..n : i <= j => d[s[i]] <= d[s[j]]
    PROVE  Chain(l, s, n, d, X)
  BY Zenon DEF Chain

LEMMA ChainBut ==
    ASSUME NEW l, NEW s, NEW n, NEW e, NEW t, Chain(l, s, n, e, {})
    PROVE  Chain(l, s, n, e, {t})
  <1>1. \A u \in Object \ {t} : u \in Object \ {}
    OBVIOUS
  <1>2. QED
    BY <1>1, Zenon DEF Chain

LEMMA AddAfterLinks ==
    ASSUME Sorted!ConstantsOK, NEW l, NEW s, NEW n, NEW e, NEW t \in Object,
           Chain(l, s, n, e, {t}), n # 0, \A i \in 1..n : s[i] # t, e[s[1]] <= e[t]
    PROVE  \E p \in 1..n + 1 : Chain(Sorted!AddAfter(l, t, e), Insert(s, n, p, t), n + 1, e, {})
  <1>1. /\ l \in Lists /\ n \in Nat /\ s \in [1..n -> Object] /\ e \in [Object -> Int]
        /\ \A i, j \in 1..n : s[i] = s[j] => i = j
        /\ \A i, j \in 1..n : i <= j => e[s[i]] <= e[s[j]]
        /\ l.tail = s[n]
        /\ \A i \in 1..n : /\ l.next[s[i]] = IF i = n THEN Null ELSE s[i + 1]
                           /\ l.prev[s[i]] = IF i = 1 THEN Null ELSE s[i - 1]
    <2>1. n \in Nat /\ (n > 0 => l.tail = s[n])
      BY DEF Chain
    <2>2. l.tail = s[n]
      BY <2>1
    <2>3. QED
      BY <2>1, <2>2, Zenon DEF Chain
  <1>2. Null \notin Object /\ Sorted!Nodes(l) = s /\ Len(s) = n
    BY ListNow
  <1>3. \A i \in 1..n : s[i] \in Object /\ e[s[i]] \in Int /\ e[t] \in Int /\ s[i] # t
    BY <1>1
  <1>4. PICK later : later = {i \in 2..n : e[t] < e[s[i]]}
    OBVIOUS
  <1>5. PICK m : m = Sorted!AddAfter(l, t, e)
    OBVIOUS
  <1>6. CASE later = {}
    <2>1. n \in 1..n /\ n + 1 \in 1..n + 1 /\ (n + 1) - 1 = n /\ n + 1 # 1
      <3>1. n \in Nat /\ n >= 1
        BY <1>1
      <3>2. QED
        BY <3>1
    <2>2. m = [l EXCEPT !.next[s[n]] = t, !.next[t] = Null, !.prev[t] = s[n], !.tail = t]
      BY <1>2, <1>4, <1>5, <1>6 DEF Sorted!AddAfter
    <2>3. /\ m \in Lists /\ m.head = l.head /\ m.tail = t
          /\ m.next = [[l.next EXCEPT ![s[n]] = t] EXCEPT ![t] = Null]
          /\ m.prev = [l.prev EXCEPT ![t] = s[n]]
      BY <1>1, <1>3, <2>1, <2>2 DEF Lists
    <2>4. Spliced(m, l, s, n, n + 1, t)
      BY <1>1, <1>3, <2>1, <2>3 DEF Spliced, Lists
    <2>5. ASSUME NEW i \in 1..n PROVE e[s[i]] <= e[t]
      <3>1. i = 1 \/ i \in 2..n
        OBVIOUS
      <3>2. QED
        BY <1>3, <1>4, <1>6, <3>1
    <2>6. \A i \in 1..n : ~(i >= n + 1)
      BY <1>1
    <2>7. Fits(s, n, e, n + 1, t)
      BY <2>1, <2>5, <2>6 DEF Fits
    <2>8. Chain(m, Insert(s, n, n + 1, t), n + 1, e, {})
      BY <2>4, <2>7, InsertLinks
    <2>9. QED
      BY <1>5, <2>1, <2>8
  <1>7. CASE later # {}
    <2>1. PICK p : p = Min(later)
      OBVIOUS
    <2>2. p \in later /\ \A i \in later : p <= i
      <3>1. later \in SUBSET Nat
        BY <1>4
      <3>2. QED
        BY <1>7, <2>1, <3>1, MinIsLeast
    <2>3. /\ p \in 2..n /\ e[t] < e[s[p]] /\ p \in 1..n /\ p \in 1..n + 1 /\ p - 1 \in 1..n
          /\ p # 1 /\ p # n + 1 /\ p - 1 # p
      BY <1>1, <1>4, <2>2
    <2>4. PICK tmp, pre : tmp = s[p] /\ pre = s[p - 1]
      OBVIOUS
    <2>5. tmp \in Object /\ pre \in Object /\ tmp # t /\ pre # t /\ tmp # pre
      <3>1. tmp \in Object /\ pre \in Object /\ tmp # t /\ pre # t
        BY <1>1, <1>3, <2>3, <2>4
      <3>2. tmp # pre
        <4>1. \A i, j \in 1..n : s[i] = s[j] => i = j
          BY <1>1, Zenon
        <4>2. QED
          BY <2>3, <2>4, <4>1
      <3>3. QED
        BY <3>1, <3>2
    <2>6. m = [l EXCEPT !.next[pre] = t, !.next[t] = tmp, !.prev[tmp] = t, !.prev[t] = pre]
      <3>1. Sorted!Min(later) = p
        BY <2>1, Zenon DEF Sorted!Min, Min
      <3>2. QED
        BY <1>2, <1>4, <1>5, <1>7, <2>4, <3>1 DEF Sorted!AddAfter
    <2>7. /\ m \in Lists /\ m.head = l.head /\ m.tail = l.tail
          /\ m.next = [[l.next EXCEPT ![pre] = t] EXCEPT ![t] = tmp]
          /\ m.prev = [[l.prev EXCEPT ![tmp] = t] EXCEPT ![t] = pre]
      BY <1>1, <2>5, <2>6 DEF Lists
    <2>8. /\ m.next[t] = tmp /\ m.prev[t] = pre /\ m.next[pre] = t /\ m.prev[tmp] = t
          /\ \A u \in Object : u # t /\ u # pre => m.next[u] = l.next[u]
          /\ \A u \in Object : u # t /\ u # tmp => m.prev[u] = l.prev[u]
      BY <1>1, <2>5, <2>7 DEF Lists
    <2>9. Spliced(m, l, s, n, p, t)
      BY <2>3, <2>4, <2>7, <2>8 DEF Spliced
    <2>10. ASSUME NEW i \in 1..n, i < p PROVE e[s[i]] <= e[t]
      <3>1. i = 1 \/ (i \in 2..n /\ ~(p <= i))
        BY <2>3, <2>10
      <3>2. QED
        BY <1>3, <1>4, <2>2, <3>1
    <2>11. ASSUME NEW i \in 1..n, i >= p PROVE e[t] <= e[s[i]]
      <3>1. e[s[p]] <= e[s[i]]
        BY <1>1, <2>3, <2>11
      <3>2. QED
        BY <1>3, <2>3, <3>1
    <2>12. Fits(s, n, e, p, t)
      BY <2>3, <2>10, <2>11 DEF Fits
    <2>13. Chain(m, Insert(s, n, p, t), n + 1, e, {})
      BY <2>9, <2>12, InsertLinks
    <2>14. QED
      BY <1>5, <2>3, <2>13
  <1>8. QED
    BY <1>6, <1>7

(* What a step makes of the chain s of n timers. *)
Becomes(Held) == \E r, k : Chain(list', r, k, expire', {}) /\ Entries(r, k) = Held

LEMMA ListAddStep ==
    ASSUME Sorted!ConstantsOK, NEW s, NEW n, Chain(list, s, n, expire, {}),
           NEW t \in Object, NEW d \in 0..MaxDelay, Sorted!AddTimer(t, d)
    PROVE  Becomes(Entries(s, n) \cup {t})
  <1>1. PICK e : e = [expire EXCEPT ![t] = d]
    OBVIOUS
  <1>2. /\ t \notin Entries(s, n) /\ expire' = e
        /\ list' = IF list.head = Null THEN [list EXCEPT !.head = t, !.tail = t]
                   ELSE IF d < e[list.head]
                   THEN [list EXCEPT !.next[t] = list.head, !.prev[list.head] = t, !.head = t]
                   ELSE Sorted!AddAfter(list, t, e)
    <2>1. Sorted!Range(Sorted!Nodes(list)) = Entries(s, n)
      BY ListNow
    <2>2. QED
      BY <1>1, <2>1 DEF Sorted!AddTimer, Sorted!InList
  <1>3. /\ list \in Lists /\ n \in Nat /\ s \in [1..n -> Object] /\ expire \in [Object -> Int]
        /\ \A i, j \in 1..n : s[i] = s[j] => i = j
        /\ \A i, j \in 1..n : i <= j => expire[s[i]] <= expire[s[j]]
        /\ list.head = IF n = 0 THEN Null ELSE s[1]
        /\ n > 0 => list.tail = s[n]
        /\ \A u \in Object \ {} :
              (\A i \in 1..n : s[i] # u) => list.next[u] = Null /\ list.prev[u] = Null
    BY Zenon DEF Chain
  <1>4. d \in Int /\ Null \notin Object
    BY ListNow
  <1>5. e \in [Object -> Int] /\ e[t] = d /\ \A u \in Object : u # t => e[u] = expire[u]
    BY <1>1, <1>3, <1>4
  <1>6. \A i \in 1..n : s[i] \in Object /\ s[i] # t /\ e[s[i]] = expire[s[i]] /\ e[s[i]] \in Int
    <2>1. \A i \in 1..n : s[i] \in Object /\ s[i] # t
      BY <1>2, <1>3 DEF Entries
    <2>2. QED
      BY <1>5, <2>1
  <1>7. Chain(list, s, n, e, {})
    <2>1. \A i, j \in 1..n : i <= j => e[s[i]] <= e[s[j]]
      BY <1>3, <1>6
    <2>2. QED
      BY <1>5, <2>1, ChainAnew
  <1>8. Chain(list, s, n, e, {t})
    BY <1>7, ChainBut
  <1>9. list.next[t] = Null /\ list.prev[t] = Null
    BY <1>3, <1>6
  <1>10. SUFFICES \E p \in 1..n + 1 : Chain(list', Insert(s, n, p, t), n + 1, e, {})
    BY <1>2, <1>3, InsertEntries DEF Becomes
  <1>11. CASE list.head = Null
    <2>1. n = 0
      <3>1. n # 0 => 1 \in 1..n
        BY <1>3
      <3>2. QED
        BY <1>3, <1>4, <1>11, <3>1
    <2>2. list' \in Lists /\ list'.head = t /\ list'.tail = t /\ list'.next = list.next /\ list'.prev = list.prev
      BY <1>2, <1>3, <1>11 DEF Lists
    <2>3. 1 \in 1..n + 1 /\ 1 = n + 1 /\ 1..n = {}
      BY <2>1
    <2>4. Spliced(list', list, s, n, 1, t)
      BY <1>9, <2>2, <2>3 DEF Spliced
    <2>5. Fits(s, n, e, 1, t)
      BY <2>3 DEF Fits
    <2>6. Chain(list', Insert(s, n, 1, t), n + 1, e, {})
      BY <1>8, <2>4, <2>5, InsertLinks
    <2>7. QED
      BY <2>3, <2>6
  <1>12. CASE list.head # Null /\ d < e[list.head]
    <2>1. n # 0 /\ list.head = s[1]
      BY <1>3, <1>12
    <2>2. 1 \in 1..n /\ 1 \in 1..n + 1 /\ 1 # n + 1
      BY <1>3, <2>1
    <2>3. PICK h : h = s[1]
      OBVIOUS
    <2>4. h \in Object /\ h # t /\ e[t] < e[h] /\ e[h] \in Int /\ e[t] \in Int
      BY <1>4, <1>5, <1>6, <1>12, <2>1, <2>2, <2>3
    <2>5. list' = [list EXCEPT !.next[t] = h, !.prev[h] = t, !.head = t]
      BY <1>2, <1>12, <2>1, <2>3
    <2>6. /\ list' \in Lists /\ list'.head = t /\ list'.tail = list.tail
          /\ list'.next = [list.next EXCEPT ![t] = h] /\ list'.prev = [list.prev EXCEPT ![h] = t]
      BY <1>3, <2>4, <2>5 DEF Lists
    <2>7. /\ list'.next[t] = h /\ list'.prev[t] = Null /\ list'.prev[h] = t
          /\ \A u \in Object : u # t => list'.next[u] = list.next[u]
          /\ \A u \in Object : u # h => list'.prev[u] = list.prev[u]
      BY <1>3, <1>9, <2>4, <2>6 DEF Lists
    <2>8. Spliced(list', list, s, n, 1, t)
      BY <2>2, <2>3, <2>6, <2>7 DEF Spliced
    <2>9. ASSUME NEW i \in 1..n PROVE e[t] <= e[s[i]]
      <3>1. e[h] <= e[s[i]]
        BY <1>3, <1>6, <2>2, <2>3
      <3>2. QED
        BY <1>6, <2>4, <3>1
    <2>10. \A i \in 1..n : ~(i < 1)
      OBVIOUS
    <2>11. Fits(s, n, e, 1, t)
      BY <1>6, <2>2, <2>9, <2>10 DEF Fits
    <2>12. Chain(list', Insert(s, n, 1, t), n + 1, e, {})
      BY <1>8, <2>8, <2>11, InsertLinks
    <2>13. QED
      BY <2>2, <2>12
  <1>13. CASE list.head # Null /\ ~(d < e[list.head])
    <2>1. n # 0 /\ list.head = s[1]
      BY <1>3, <1>13
    <2>2. 1 \in 1..n
      BY <1>3, <2>1
    <2>3. e[s[1]] <= e[t]
      BY <1>4, <1>5, <1>6, <1>13, <2>1, <2>2
    <2>4. list' = Sorted!AddAfter(list, t, e)
      BY <1>2, <1>13
    <2>5. QED
      BY <1>6, <1>8, <2>1, <2>3, <2>4, AddAfterLinks
  <1>14. QED
    BY <1>11, <1>12, <1>13

LEMMA ListAdjustStep ==
    ASSUME Sorted!ConstantsOK, NEW s, NEW n, Chain(list, s, n, expire, {}),
           NEW t \in Object, NEW d \in 0..MaxDelay, Sorted!AdjustTimer(t, d)
    PROVE  Becomes(Entries(s, n))
  <1>1. PICK e, after, before : /\ e = [expire EXCEPT ![t] = d]
                                /\ after = list.next[t] /\ before = list.prev[t]
    OBVIOUS
  <1>2. /\ t \in Entries(s, n) /\ d >= expire[t] /\ expire' = e
        /\ list' = IF after = Null \/ d < e[after] THEN list
                   ELSE IF t = list.head
                   THEN Sorted!AddAfter([list EXCEPT !.head = after, !.prev[after] = Null,
                                                     !.next[t] = Null], t, e)
                   ELSE Sorted!AddAfter([list EXCEPT !.next[before] = after,
                                                     !.prev[after] = before], t, e)
    <2>1. Sorted!Range(Sorted!Nodes(list)) = Entries(s, n)
      BY ListNow
    <2>2. QED
      BY <1>1, <2>1 DEF Sorted!AdjustTimer, Sorted!InList
  <1>3. /\ list \in Lists /\ n \in Nat /\ s \in [1..n -> Object] /\ expire \in [Object -> Int]
        /\ \A i, j \in 1..n : s[i] = s[j] => i = j
        /\ \A i, j \in 1..n : i <= j => expire[s[i]] <= expire[s[j]]
        /\ list.head = IF n = 0 THEN Null ELSE s[1]
        /\ n > 0 => list.tail = s[n]
        /\ \A i \in 1..n : /\ list.next[s[i]] = IF i = n THEN Null ELSE s[i + 1]
                           /\ list.prev[s[i]] = IF i = 1 THEN Null ELSE s[i - 1]
    BY Zenon DEF Chain
  <1>4. d \in Int /\ Null \notin Object
    BY ListNow
  <1>5. e \in [Object -> Int] /\ e[t] = d /\ \A u \in Object : u # t => e[u] = expire[u]
    BY <1>1, <1>3, <1>4
  <1>6. PICK p \in 1..n : s[p] = t
    BY <1>2 DEF Entries
  <1>7. \A i \in 1..n : /\ s[i] \in Object /\ expire[s[i]] \in Int /\ e[s[i]] \in Int
                        /\ (i # p => s[i] # t /\ e[s[i]] = expire[s[i]])
    <2>1. \A i \in 1..n : s[i] \in Object /\ (i # p => s[i] # t)
      BY <1>3, <1>6
    <2>2. QED
      BY <1>3, <1>5, <2>1
  <1>8. /\ after = IF p = n THEN Null ELSE s[p + 1]
        /\ before = IF p = 1 THEN Null ELSE s[p - 1]
        /\ list.head = s[1] /\ (t = list.head <=> p = 1)
        /\ n # 0 /\ 1 \in 1..n /\ n \in 1..n
    <2>1. n # 0 /\ 1 \in 1..n /\ n \in 1..n
      BY <1>3, <1>6
    <2>2. QED
      BY <1>1, <1>3, <1>6, <2>1
  <1>9. CASE after = Null \/ d < e[after]
    <2>1. ASSUME NEW i \in 1..n, NEW j \in 1..n, i <= j PROVE e[s[i]] <= e[s[j]]
      <3>1. expire[s[i]] <= expire[s[j]]
        BY <1>3, <2>1
      <3>2. CASE i # p /\ j # p
        BY <1>7, <3>1, <3>2
      <3>3. CASE j = p
        BY <1>2, <1>4, <1>5, <1>6, <1>7, <3>1, <3>3
      <3>4. CASE i = p /\ j # p
        <4>1. p + 1 \in 1..n /\ p + 1 <= j /\ p # n /\ p + 1 # p
          BY <1>3, <1>6, <2>1, <3>4
        <4>2. after = s[p + 1] /\ after # Null
          BY <1>4, <1>7, <1>8, <4>1
        <4>3. d < e[s[p + 1]]
          BY <1>9, <4>2
        <4>4. expire[s[p + 1]] <= expire[s[j]]
          BY <1>3, <4>1
        <4>5. QED
          BY <1>4, <1>5, <1>6, <1>7, <3>4, <4>1, <4>3, <4>4
      <3>5. QED
        BY <3>2, <3>3, <3>4
    <2>2. Chain(list, s, n, e, {})
      BY <1>5, <2>1, ChainAnew
    <2>3. list' = list
      BY <1>2, <1>9
    <2>4. QED
      BY <1>2, <2>2, <2>3 DEF Becomes
  <1>10. CASE ~(after = Null \/ d < e[after])
    <2>1. p # n /\ after = s[p + 1] /\ p + 1 \in 1..n /\ p + 1 # p /\ n # 1 /\ n - 1 # 0
      BY <1>3, <1>6, <1>8, <1>10
    <2>2. after \in Object /\ after # t
      BY <1>7, <2>1
    <2>3. PICK m : m = IF p = 1 THEN [list EXCEPT !.head = after, !.prev[after] = Null, !.next[t] = Null]
                       ELSE [list EXCEPT !.next[before] = after, !.prev[after] = before]
      OBVIOUS
    <2>4. list' = Sorted!AddAfter(m, t, e)
      BY <1>2, <1>8, <1>10, <2>3
    <2>5. Bypassed(m, list, s, n, p)
      <3>1. CASE p = 1
        <4>1. /\ m \in Lists /\ m.head = after /\ m.tail = list.tail
              /\ m.prev = [list.prev EXCEPT ![after] = Null]
              /\ m.next = [list.next EXCEPT ![t] = Null]
          BY <1>3, <2>2, <2>3, <3>1 DEF Lists
        <4>2. /\ m.prev[after] = Null
              /\ \A u \in Object : u # after => m.prev[u] = list.prev[u]
              /\ \A u \in Object : u # t => m.next[u] = list.next[u]
          BY <1>3, <2>2, <4>1 DEF Lists
        <4>3. after = s[2] /\ after = s[p + 1]
          BY <2>1, <3>1
        <4>4. QED
          BY <1>6, <2>1, <3>1, <4>1, <4>2, <4>3 DEF Bypassed
      <3>2. CASE p # 1
        <4>1. p - 1 \in 1..n /\ p - 1 # p /\ before = s[p - 1]
          BY <1>3, <1>8, <3>2
        <4>2. before \in Object /\ before # t
          BY <1>7, <4>1
        <4>3. /\ m \in Lists /\ m.head = list.head /\ m.tail = list.tail
              /\ m.next = [list.next EXCEPT ![before] = after]
              /\ m.prev = [list.prev EXCEPT ![after] = before]
          BY <1>3, <2>2, <2>3, <3>2, <4>2 DEF Lists
        <4>4. /\ m.next[before] = after /\ m.prev[after] = before
              /\ \A u \in Object : u # before => m.next[u] = list.next[u]
              /\ \A u \in Object : u # after => m.prev[u] = list.prev[u]
          BY <1>3, <2>2, <4>2, <4>3 DEF Lists
        <4>5. QED
          BY <2>1, <3>2, <4>1, <4>3, <4>4 DEF Bypassed
      <3>3. QED
        BY <3>1, <3>2
    <2>6. PICK r : r = Without(s, n, p)
      OBVIOUS
    <2>7. Chain(m, r, n - 1, e, {t})
      BY <1>5, <1>6, <2>5, <2>6, RemoveLinks
    <2>8. Entries(r, n - 1) = Entries(s, n) \ {t}
      <3>1. n \in Nat /\ s \in [1..n -> Object] /\ \A i, j \in 1..n : s[i] = s[j] => i = j
        BY <1>3
      <3>2. Entries(Without(s, n, p), n - 1) = Entries(s, n) \ {s[p]}
        BY <3>1, WithoutEntries
      <3>3. QED
        BY <1>6, <2>6, <3>2
    <2>9. n - 1 \in Nat /\ r \in [1..n - 1 -> Object]
      BY <2>7 DEF Chain
    <2>10. \A i \in 1..n - 1 : r[i] # t
      BY <2>8 DEF Entries
    <2>11. e[r[1]] <= e[t]
      <3>1. 1 \in 1..n - 1 /\ 1 + 1 = 2
        <4>1. n \in Nat /\ n # 0 /\ n # 1
          BY <1>3, <1>8, <2>1
        <4>2. QED
          BY <4>1
      <3>2. r[1] = IF p = 1 THEN s[2] ELSE s[1]
        <4>1. 1 < p <=> p # 1
          BY <1>3, <1>6
        <4>2. r[1] = IF 1 < p THEN s[1] ELSE s[1 + 1]
          BY <2>6, <3>1 DEF Without
        <4>3. QED
          BY <3>1, <4>1, <4>2
      <3>3. CASE p = 1
        <4>1. r[1] = after /\ e[after] \in Int /\ ~(d < e[after])
          BY <1>7, <1>10, <2>1, <3>2, <3>3
        <4>2. QED
          BY <1>4, <1>5, <4>1
      <3>4. CASE p # 1
        <4>1. r[1] = s[1] /\ 1 \in 1..n /\ 1 <= p
          BY <1>6, <1>8, <3>2, <3>4
        <4>2. expire[s[1]] <= expire[s[p]] /\ expire[s[p]] <= d
          BY <1>2, <1>3, <1>6, <4>1
        <4>3. e[s[1]] = expire[s[1]] /\ expire[s[1]] \in Int /\ expire[s[p]] \in Int
          BY <1>6, <1>7, <3>4, <4>1
        <4>4. QED
          BY <1>4, <1>5, <4>1, <4>2, <4>3
      <3>5. QED
        BY <3>3, <3>4
    <2>12. PICK q \in 1..(n - 1) + 1 :
              Chain(Sorted!AddAfter(m, t, e), Insert(r, n - 1, q, t), (n - 1) + 1, e, {})
      BY <2>1, <2>7, <2>10, <2>11, AddAfterLinks
    <2>13. Entries(Insert(r, n - 1, q, t), (n - 1) + 1) = Entries(r, n - 1) \cup {t}
      BY <2>9, InsertEntries
    <2>14. Entries(Insert(r, n - 1, q, t), (n - 1) + 1) = Entries(s, n)
      BY <1>2, <2>8, <2>13
    <2>15. QED
      BY <1>2, <2>4, <2>12, <2>14 DEF Becomes
  <1>11. QED
    BY <1>9, <1>10

LEMMA ListDelStep ==
    ASSUME Sorted!ConstantsOK, NEW s, NEW n, Chain(list, s, n, expire, {}),
           NEW t \in Object, Sorted!DelTimer(t)
    PROVE  Becomes(Entries(s, n) \ {t}) /\ t \in Entries(s, n)
  <1>1. PICK after, before, m :
            /\ after = list.next[t] /\ before = list.prev[t]
            /\ m = IF t = list.head /\ t = list.tail THEN [list EXCEPT !.head = Null, !.tail = Null]
                   ELSE IF t = list.head THEN [list EXCEPT !.head = after, !.prev[after] = Null]
                   ELSE IF t = list.tail THEN [list EXCEPT !.tail = before, !.next[before] = Null]
                   ELSE [list EXCEPT !.next[before] = after, !.prev[after] = before]
    OBVIOUS
  <1>2. t \in Entries(s, n) /\ expire' = [expire EXCEPT ![t] = 0] /\ list' = Sorted!Free(m, t)
    <2>1. Sorted!Range(Sorted!Nodes(list)) = Entries(s, n)
      BY ListNow
    <2>2. QED
      BY <1>1, <2>1 DEF Sorted!DelTimer, Sorted!InList
  <1>3. /\ list \in Lists /\ n \in Nat /\ s \in [1..n -> Object] /\ expire \in [Object -> Int]
        /\ \A i, j \in 1..n : s[i] = s[j] => i = j
        /\ list.head = IF n = 0 THEN Null ELSE s[1]
        /\ n > 0 => list.tail = s[n]
        /\ \A i \in 1..n : /\ list.next[s[i]] = IF i = n THEN Null ELSE s[i + 1]
                           /\ list.prev[s[i]] = IF i = 1 THEN Null ELSE s[i - 1]
    BY Zenon DEF Chain
  <1>4. Null \notin Object
    BY ListNow
  <1>5. PICK p \in 1..n : s[p] = t
    BY <1>2 DEF Entries
  <1>6. /\ after = IF p = n THEN Null ELSE s[p + 1]
        /\ before = IF p = 1 THEN Null ELSE s[p - 1]
        /\ list.head = s[1] /\ (t = list.head <=> p = 1)
        /\ list.tail = s[n] /\ (t = list.tail <=> p = n)
    <2>1. n # 0 /\ n > 0 /\ 1 \in 1..n /\ n \in 1..n
      BY <1>3, <1>5
    <2>2. QED
      BY <1>1, <1>3, <1>5, <2>1
  <1>7. p # n => /\ after = s[p + 1] /\ after \in Object /\ p + 1 \in 1..n /\ n # 1
    BY <1>3, <1>5, <1>6
  <1>8. p # 1 => /\ before = s[p - 1] /\ before \in Object /\ p - 1 \in 1..n /\ n # 1
    BY <1>3, <1>5, <1>6
  <1>9. Bypassed(m, list, s, n, p)
    <2>1. CASE p = 1 /\ p = n
      <3>1. m = [list EXCEPT !.head = Null, !.tail = Null]
        BY <1>1, <1>6, <2>1
      <3>2. m \in Lists /\ m.head = Null /\ m.next = list.next /\ m.prev = list.prev
        BY <1>3, <3>1 DEF Lists
      <3>3. QED
        BY <2>1, <3>2 DEF Bypassed
    <2>2. CASE p = 1 /\ p # n
      <3>1. m = [list EXCEPT !.head = after, !.prev[after] = Null]
        BY <1>1, <1>6, <2>2
      <3>2. /\ m \in Lists /\ m.head = after /\ m.tail = list.tail /\ m.next = list.next
            /\ m.prev = [list.prev EXCEPT ![after] = Null]
        BY <1>3, <1>7, <2>2, <3>1 DEF Lists
      <3>3. /\ m.prev[after] = Null
            /\ \A u \in Object : u # after => m.prev[u] = list.prev[u]
        BY <1>3, <1>7, <2>2, <3>2 DEF Lists
      <3>4. after = s[2]
        BY <1>7, <2>2
      <3>5. QED
        BY <1>7, <2>2, <3>2, <3>3, <3>4 DEF Bypassed
    <2>3. CASE p # 1 /\ p = n
      <3>1. m = [list EXCEPT !.tail = before, !.next[before] = Null]
        BY <1>1, <1>6, <2>3
      <3>2. /\ m \in Lists /\ m.head = list.head /\ m.tail = before /\ m.prev = list.prev
            /\ m.next = [list.next EXCEPT ![before] = Null]
        BY <1>3, <1>8, <2>3, <3>1 DEF Lists
      <3>3. /\ m.next[before] = Null
            /\ \A u \in Object : u # before => m.next[u] = list.next[u]
        BY <1>3, <1>8, <2>3, <3>2 DEF Lists
      <3>4. QED
        BY <1>8, <2>3, <3>2, <3>3 DEF Bypassed
    <2>4. CASE p # 1 /\ p # n
      <3>1. m = [list EXCEPT !.next[before] = after, !.prev[after] = before]
        BY <1>1, <1>6, <2>4
      <3>2. /\ m \in Lists /\ m.head = list.head /\ m.tail = list.tail
            /\ m.next = [list.next EXCEPT ![before] = after]
            /\ m.prev = [list.prev EXCEPT ![after] = before]
        BY <1>3, <1>7, <1>8, <2>4, <3>1 DEF Lists
      <3>3. /\ m.next[before] = after /\ m.prev[after] = before
            /\ \A u \in Object : u # before => m.next[u] = list.next[u]
            /\ \A u \in Object : u # after => m.prev[u] = list.prev[u]
        BY <1>3, <1>7, <1>8, <2>4, <3>2 DEF Lists
      <3>4. QED
        BY <1>7, <1>8, <2>4, <3>2, <3>3 DEF Bypassed
    <2>5. QED
      BY <2>1, <2>2, <2>3, <2>4
  <1>10. PICK r : r = Without(s, n, p)
    OBVIOUS
  <1>11. expire' \in [Object -> Int] /\ \A u \in Object \ {t} : expire'[u] = expire[u]
    BY <1>2, <1>3
  <1>12. Chain(m, r, n - 1, expire', {t})
    BY <1>5, <1>9, <1>10, <1>11, RemoveLinks
  <1>13. Entries(r, n - 1) = Entries(s, n) \ {t}
    <2>1. n \in Nat /\ s \in [1..n -> Object] /\ \A i, j \in 1..n : s[i] = s[j] => i = j
      BY <1>3
    <2>2. Entries(Without(s, n, p), n - 1) = Entries(s, n) \ {s[p]}
      BY <2>1, WithoutEntries
    <2>3. QED
      BY <1>5, <1>10, <2>2
  <1>14. \A i \in 1..n - 1 : r[i] # t
    BY <1>13 DEF Entries
  <1>15. Chain(list', r, n - 1, expire', {})
    BY <1>2, <1>4, <1>12, <1>14, FreeLinks
  <1>16. QED
    BY <1>2, <1>13, <1>15 DEF Becomes

LEMMA ListElapseStep ==
    ASSUME Sorted!ConstantsOK, NEW s, NEW n, Chain(list, s, n, expire, {}), Sorted!Elapse
    PROVE  /\ Becomes(Entries(s, n))
           /\ \A t \in Entries(s, n) : expire[t] > -Overdue /\ expire'[t] = expire[t] - 1
  <1>1. Sorted!Range(Sorted!Nodes(list)) = Entries(s, n)
    BY ListNow
  <1>2. /\ \A t \in Object : t \in Entries(s, n) => expire[t] > -Overdue
        /\ expire' = [t \in Object |-> IF t \in Entries(s, n) THEN expire[t] - 1 ELSE expire[t]]
        /\ list' = list
    BY <1>1 DEF Sorted!Elapse, Sorted!InList
  <1>3. /\ s \in [1..n -> Object] /\ expire \in [Object -> Int]
        /\ \A i, j \in 1..n : i <= j => expire[s[i]] <= expire[s[j]]
    BY Zenon DEF Chain
  <1>4. \A i \in 1..n : /\ s[i] \in Object /\ expire[s[i]] \in Int
                        /\ expire'[s[i]] = expire[s[i]] - 1
    BY <1>2, <1>3 DEF Entries
  <1>5. expire' \in [Object -> Int]
    BY <1>2, <1>3
  <1>6. \A i, j \in 1..n : i <= j => expire'[s[i]] <= expire'[s[j]]
    BY <1>3, <1>4
  <1>7. Chain(list', s, n, expire', {})
    BY <1>2, <1>5, <1>6, ChainAnew
  <1>8. \A t \in Entries(s, n) : t \in Object /\ expire'[t] = expire[t] - 1
    BY <1>4 DEF Entries
  <1>9. QED
    BY <1>2, <1>7, <1>8 DEF Becomes

(* The timers that a tick calls back: those that are due, the earliest first. *)
TickFires(Held) ==
    /\ listFired' \in Seq(Object) /\ IsInjective(listFired')
    /\ ToSet(listFired') = {t \in Held : expire[t] <= 0}
    /\ \A i, j \in 1..Len(listFired') : i < j => expire[listFired'[i]] <= expire[listFired'[j]]

(* The first q timers of the chain are those that are due. *)
DueUpTo(s, n, q) ==
    /\ q \in 0..n
    /\ \A i \in 1..n : i <= q <=> expire[s[i]] <= 0

LEMMA DuePrefix ==
    ASSUME Sorted!ConstantsOK, NEW s, NEW n, Chain(list, s, n, expire, {})
    PROVE  \E q : DueUpTo(s, n, q) /\ Sorted!DueNodes = SubSeq(s, 1, q)
  <1>1. Sorted!Nodes(list) = s /\ s \in Seq(Object) /\ Len(s) = n
    BY ListNow
  <1>2. /\ n \in Nat /\ s \in [1..n -> Object] /\ expire \in [Object -> Int]
        /\ \A i, j \in 1..n : i <= j => expire[s[i]] <= expire[s[j]]
    BY Zenon DEF Chain
  <1>3. PICK Stops, m : Stops = {i \in 1..n + 1 : i = n + 1 \/ 0 < expire[s[i]]} /\ m = Min(Stops)
    OBVIOUS
  <1>4. m \in Stops /\ \A i \in Stops : m <= i
    <2>1. Stops \in SUBSET Nat /\ n + 1 \in Stops
      BY <1>2, <1>3
    <2>2. QED
      BY <1>3, <2>1, MinIsLeast
  <1>5. m \in 1..n + 1 /\ m - 1 \in 0..n /\ (m = n + 1 \/ 0 < expire[s[m]])
    BY <1>2, <1>3, <1>4
  <1>6. \A i \in 1..n : expire[s[i]] \in Int
    BY <1>2
  <1>7. ASSUME NEW i \in 1..n PROVE i <= m - 1 <=> expire[s[i]] <= 0
    <2>1. CASE i <= m - 1
      <3>1. ~(m <= i) /\ i \in 1..n + 1
        BY <1>2, <1>5, <2>1
      <3>2. i \notin Stops
        BY <1>4, <3>1
      <3>3. ~(0 < expire[s[i]])
        BY <1>3, <3>1, <3>2
      <3>4. QED
        BY <1>6, <2>1, <3>3
    <2>2. CASE ~(i <= m - 1)
      <3>1. m <= i /\ m # n + 1 /\ m \in 1..n
        BY <1>2, <1>5, <2>2
      <3>2. 0 < expire[s[m]] /\ expire[s[m]] <= expire[s[i]]
        BY <1>2, <1>5, <3>1
      <3>3. QED
        BY <1>6, <2>2, <3>1, <3>2
    <2>3. QED
      BY <2>1, <2>2
  <1>8. Sorted!DueNodes = SubSeq(s, 1, m - 1)
    <2>1. Sorted!Min(Stops) = m
      BY <1>3, Zenon DEF Sorted!Min, Min
    <2>2. QED
      BY <1>1, <1>3, <2>1 DEF Sorted!DueNodes
  <1>9. DueUpTo(s, n, m - 1)
    BY <1>5, <1>7 DEF DueUpTo
  <1>10. QED
    BY <1>8, <1>9

LEMMA ListTickStep ==
    ASSUME Sorted!ConstantsOK, NEW s, NEW n, Chain(list, s, n, expire, {}), Sorted!Tick
    PROVE  /\ Becomes({t \in Entries(s, n) : ~(expire[t] <= 0)})
           /\ TickFires(Entries(s, n))
           /\ \A t \in Entries(s, n) : ~(expire[t] <= 0) => expire'[t] = expire[t]
  <1>1. PICK q : DueUpTo(s, n, q) /\ Sorted!DueNodes = SubSeq(s, 1, q)
    BY DuePrefix
  <1>2. /\ s \in Seq(Object) /\ Len(s) = n /\ DOMAIN s = 1..n
        /\ list \in Lists /\ n \in Nat /\ s \in [1..n -> Object] /\ expire \in [Object -> Int]
        /\ \A i, j \in 1..n : s[i] = s[j] => i = j
        /\ \A i, j \in 1..n : i <= j => expire[s[i]] <= expire[s[j]]
        /\ list.head = IF n = 0 THEN Null ELSE s[1]
        /\ n > 0 => list.tail = s[n]
        /\ \A i \in 1..n : /\ list.next[s[i]] = IF i = n THEN Null ELSE s[i + 1]
                           /\ list.prev[s[i]] = IF i = 1 THEN Null ELSE s[i - 1]
        /\ \A u \in Object \ {} :
              (\A i \in 1..n : s[i] # u) => list.next[u] = Null /\ list.prev[u] = Null
    <2>1. s \in Seq(Object) /\ Len(s) = n
      BY ListNow
    <2>2. DOMAIN s = 1..n
      BY <2>1
    <2>3. QED
      BY <2>1, <2>2, Zenon DEF Chain
  <1>3. /\ q \in 0..n /\ q \in Nat
        /\ \A i \in 1..n : i <= q <=> expire[s[i]] <= 0
    <2>1. q \in 0..n
      BY <1>1 DEF DueUpTo
    <2>2. q \in Nat
      BY <1>2, <2>1
    <2>3. QED
      BY <1>1, <2>1, <2>2 DEF DueUpTo
  <1>4. PICK D : D = SubSeq(s, 1, q)
    OBVIOUS
  <1>5. D \in Seq(Object) /\ Len(D) = q /\ DOMAIN D = 1..q /\ \A i \in 1..q : D[i] = s[i] /\ i \in 1..n
    <2>1. D \in Seq(Object) /\ Len(D) = q /\ \A i \in 1..q : D[i] = s[i]
      BY <1>2, <1>3, <1>4, Cut
    <2>2. \A i \in 1..q : i \in 1..n
      BY <1>2, <1>3
    <2>3. DOMAIN D = 1..q
      BY <2>1
    <2>4. QED
      BY <2>1, <2>2, <2>3
  <1>6. PICK dead, head : /\ dead = {s[i] : i \in 1..q}
                          /\ head = IF q = 0 THEN list.head
                                    ELSE IF q = n THEN Null ELSE s[q + 1]
    OBVIOUS
  <1>7. ToSet(D) = dead /\ Sorted!Range(D) = dead
    BY <1>5, <1>6 DEF ToSet, Sorted!Range
  <1>8. head = IF D = << >> THEN list.head ELSE list.next[D[Len(D)]]
    <2>1. CASE q = 0
      <3>1. D = << >>
        BY <1>5, <2>1
      <3>2. QED
        BY <1>6, <2>1, <3>1
    <2>2. CASE q # 0
      <3>1. D # << >> /\ q \in 1..q
        BY <1>3, <1>5, <2>2
      <3>2. D[Len(D)] = s[q]
        BY <1>5, <3>1
      <3>3. list.next[s[q]] = IF q = n THEN Null ELSE s[q + 1]
        <4>1. q \in 1..n
          BY <1>3, <2>2
        <4>2. \A i \in 1..n : list.next[s[i]] = IF i = n THEN Null ELSE s[i + 1]
          BY <1>2, Zenon
        <4>3. QED
          BY <4>1, <4>2
      <3>4. QED
        BY <1>6, <2>2, <3>1, <3>2, <3>3
    <2>3. QED
      BY <2>1, <2>2
  <1>9. /\ list' = [list EXCEPT !.head = head,
                                !.next = [t \in Object |-> IF t \in dead THEN Null ELSE @[t]],
                                !.prev = [t \in Object |->
                                            IF t \in dead \/ (t = head /\ dead # {})
                                            THEN Null ELSE @[t]]]
        /\ expire' = [t \in Object |-> IF t \in dead THEN 0 ELSE expire[t]]
        /\ listFired' = D
    BY <1>1, <1>4, <1>7, <1>8, Zenon DEF Sorted!Tick
  <1>10. q # n => q + 1 \in 1..n /\ s[q + 1] \in Object
    <2>1. q # n => q + 1 \in 1..n
      BY <1>2, <1>3
    <2>2. QED
      BY <1>2, <2>1
  <1>11. n # 0 => 1 \in 1..n /\ s[1] \in Object
    BY <1>2
  <1>12. head \in Object \cup {Null} /\ head = IF n = q THEN Null ELSE s[q + 1]
    <2>1. CASE q = 0
      BY <1>2, <1>6, <1>10, <1>11, <2>1
    <2>2. CASE q # 0
      BY <1>6, <1>10, <2>2
    <2>3. QED
      BY <2>1, <2>2
  <1>13. dead # {} <=> q # 0
    <2>1. q # 0 => 1 \in 1..q
      BY <1>3
    <2>2. q = 0 => 1..q = {}
      OBVIOUS
    <2>3. QED
      BY <1>6, <2>1, <2>2
  <1>14. /\ list' \in Lists /\ list'.head = head /\ list'.tail = list.tail
         /\ \A u \in Object : list'.next[u] = IF u \in dead THEN Null ELSE list.next[u]
         /\ \A u \in Object : list'.prev[u] = IF u \in dead \/ (u = head /\ dead # {})
                                              THEN Null ELSE list.prev[u]
    BY <1>2, <1>9, <1>12 DEF Lists
  <1>15. PICK k, r : k = n - q /\ r = [i \in 1..n - q |-> s[q + i]]
    OBVIOUS
  <1>16. /\ k \in Nat /\ (k = 0 <=> n = q) /\ q + k = n
         /\ \A i \in 1..k : q + i \in 1..n /\ ~(q + i <= q) /\ r[i] = s[q + i] /\ r[i] \in Object
         /\ r \in [1..k -> Object]
    <2>1. k \in Nat /\ (k = 0 <=> n = q) /\ q + k = n
      BY <1>2, <1>3, <1>15
    <2>2. \A i \in 1..k : q + i \in 1..n /\ ~(q + i <= q) /\ r[i] = s[q + i]
      BY <1>2, <1>3, <1>15
    <2>3. \A i \in 1..k : s[q + i] \in Object
      BY <1>2, <2>2
    <2>4. r \in [1..k -> Object]
      BY <1>15, <2>3
    <2>5. QED
      BY <2>1, <2>2, <2>3, <2>4
  <1>17. \A i \in 1..n : s[i] \in dead <=> i <= q
    <2>1. ASSUME NEW i \in 1..n, s[i] \in dead PROVE i <= q
      <3>1. PICK j \in 1..q : s[i] = s[j]
        BY <1>6, <2>1
      <3>2. i = j
        BY <1>2, <1>5, <3>1
      <3>3. QED
        BY <1>3, <3>2
    <2>2. ASSUME NEW i \in 1..n, i <= q PROVE s[i] \in dead
      <3>1. i \in 1..q
        BY <1>3, <2>2
      <3>2. QED
        BY <1>6, <3>1
    <2>3. QED
      BY <2>1, <2>2
  <1>18. \A i \in 1..k : r[i] \notin dead /\ expire'[r[i]] = expire[s[q + i]]
    <2>1. ASSUME NEW i \in 1..k PROVE r[i] \notin dead
      BY <1>16, <1>17
    <2>2. QED
      BY <1>9, <1>16, <2>1
  <1>19. ASSUME NEW i \in 1..k, NEW j \in 1..k, r[i] = r[j] PROVE i = j
    <2>1. q + i = q + j
      BY <1>2, <1>16, <1>19
    <2>2. QED
      BY <1>3, <2>1
  <1>20. ASSUME NEW i \in 1..k, NEW j \in 1..k, i <= j PROVE expire'[r[i]] <= expire'[r[j]]
    <2>1. q + i <= q + j
      BY <1>3, <1>20
    <2>2. QED
      BY <1>2, <1>16, <1>18, <2>1
  <1>21. list'.head = IF k = 0 THEN Null ELSE r[1]
    <2>1. k # 0 => 1 \in 1..k
      BY <1>16
    <2>2. QED
      BY <1>12, <1>14, <1>16, <2>1
  <1>22. k > 0 => list'.tail = r[k]
    <2>1. ASSUME k > 0 PROVE k \in 1..k /\ n > 0
      BY <1>3, <1>16, <2>1
    <2>2. QED
      BY <1>2, <1>14, <1>16, <2>1
  <1>23. ASSUME NEW i \in 1..k
         PROVE  /\ list'.next[r[i]] = IF i = k THEN Null ELSE r[i + 1]
                /\ list'.prev[r[i]] = IF i = 1 THEN Null ELSE r[i - 1]
    <2>1. /\ q + i \in 1..n /\ r[i] = s[q + i] /\ r[i] \in Object /\ r[i] \notin dead
          /\ list'.next[r[i]] = list.next[s[q + i]]
      BY <1>14, <1>16, <1>18
    <2>2. list.next[s[q + i]] = IF q + i = n THEN Null ELSE s[(q + i) + 1]
      BY <1>2, <2>1
    <2>3. /\ (q + i = n <=> i = k) /\ (q + i) + 1 = q + (i + 1) /\ (i # k => i + 1 \in 1..k)
          /\ (q + i) - 1 = q + (i - 1) /\ (i # 1 => i - 1 \in 1..k /\ q + i # 1 /\ q + i # q + 1)
      <3>1. q \in Nat /\ k \in Nat /\ q + k = n
        BY <1>3, <1>16
      <3>2. QED
        BY <3>1
    <2>4. list'.next[r[i]] = IF i = k THEN Null ELSE r[i + 1]
      BY <1>16, <2>1, <2>2, <2>3
    <2>5. list.prev[s[q + i]] = IF q + i = 1 THEN Null ELSE s[(q + i) - 1]
      BY <1>2, <2>1
    <2>6. CASE i = 1
      <3>1. r[i] = head /\ k # 0
        BY <1>12, <1>16, <2>1, <2>6
      <3>2. CASE q = 0
        <4>1. q + i = 1
          BY <2>6, <3>2
        <4>2. list'.prev[r[i]] = list.prev[s[q + i]]
          BY <1>13, <1>14, <2>1, <3>2
        <4>3. QED
          BY <2>4, <2>5, <2>6, <4>1, <4>2
      <3>3. CASE q # 0
        BY <1>13, <1>14, <2>1, <2>4, <2>6, <3>1, <3>3
      <3>4. QED
        BY <3>2, <3>3
    <2>7. CASE i # 1
      <3>1. r[i] # head
        <4>1. n # q /\ head = s[q + 1] /\ q + 1 \in 1..n
          BY <1>10, <1>12, <1>16
        <4>2. QED
          BY <1>2, <2>1, <2>3, <2>7, <4>1
      <3>2. list'.prev[r[i]] = list.prev[s[q + i]]
        BY <1>14, <2>1, <3>1
      <3>3. QED
        BY <1>16, <2>3, <2>4, <2>5, <2>7, <3>2
    <2>8. QED
      BY <2>6, <2>7
  <1>24. ASSUME NEW u \in Object \ {}, \A i \in 1..k : r[i] # u
         PROVE  list'.next[u] = Null /\ list'.prev[u] = Null
    <2>1. CASE u \in dead
      BY <1>14, <2>1
    <2>2. CASE u \notin dead
      <3>1. ASSUME NEW i \in 1..n PROVE s[i] # u
        <4>1. CASE i <= q
          BY <1>17, <2>2, <4>1
        <4>2. CASE ~(i <= q)
          <5>1. i - q \in 1..k /\ q + (i - q) = i
            BY <1>3, <1>16, <4>2
          <5>2. r[i - q] = s[i]
            BY <1>16, <5>1
          <5>3. QED
            BY <1>24, <5>1, <5>2
        <4>3. QED
          BY <4>1, <4>2
      <3>2. list.next[u] = Null /\ list.prev[u] = Null
        BY <1>2, <3>1
      <3>3. QED
        BY <1>14, <3>2
    <2>3. QED
      BY <2>1, <2>2
  <1>25. Chain(list', r, k, expire', {})
    <2>1. expire' \in [Object -> Int]
      BY <1>2, <1>9
    <2>2. QED
      BY <1>14, <1>16, <1>19, <1>20, <1>21, <1>22, <1>23, <1>24, <2>1 DEF Chain
  <1>26. dead = {t \in Entries(s, n) : expire[t] <= 0}
    BY <1>3, <1>5, <1>6, <1>17 DEF Entries
  <1>27. Entries(r, k) = {t \in Entries(s, n) : ~(expire[t] <= 0)}
    <2>1. ASSUME NEW i \in 1..k PROVE r[i] \in Entries(s, n) /\ ~(expire[r[i]] <= 0)
      <3>1. r[i] = s[q + i] /\ q + i \in 1..n /\ ~(q + i <= q)
        BY <1>16
      <3>2. QED
        BY <1>3, <3>1 DEF Entries
    <2>2. ASSUME NEW i \in 1..n, ~(expire[s[i]] <= 0) PROVE s[i] \in Entries(r, k)
      <3>1. ~(i <= q)
        BY <1>3, <2>2
      <3>2. i - q \in 1..k /\ q + (i - q) = i
        BY <1>3, <1>16, <3>1
      <3>3. r[i - q] = s[i]
        BY <1>16, <3>2
      <3>4. QED
        BY <3>2, <3>3 DEF Entries
    <2>3. QED
      BY <2>1, <2>2 DEF Entries
  <1>28. TickFires(Entries(s, n))
    <2>1. IsInjective(D)
      BY <1>2, <1>5 DEF IsInjective
    <2>2. ASSUME NEW i \in 1..q, NEW j \in 1..q, i < j PROVE expire[D[i]] <= expire[D[j]]
      <3>1. i <= j /\ i \in 1..n /\ j \in 1..n /\ D[i] = s[i] /\ D[j] = s[j]
        BY <1>3, <1>5, <2>2
      <3>2. QED
        BY <1>2, <3>1
    <2>3. QED
      BY <1>5, <1>7, <1>9, <1>26, <2>1, <2>2 DEF TickFires
  <1>29. \A t \in Entries(s, n) : ~(expire[t] <= 0) => expire'[t] = expire[t]
    <2>1. \A t \in Entries(s, n) : t \in Object
      BY <1>2 DEF Entries
    <2>2. QED
      BY <1>9, <1>26, <2>1
  <1>30. QED
    BY <1>25, <1>27, <1>28, <1>29 DEF Becomes

(* The list is a chain. *)
ListInv == \E s, n : Chain(list, s, n, expire, {})

LEMMA ListInitOK ==
    ASSUME Sorted!ConstantsOK, Sorted!Init
    PROVE  ListInv
  <1>1. /\ list = [head |-> Null, tail |-> Null,
                   next |-> [t \in Object |-> Null], prev |-> [t \in Object |-> Null]]
        /\ expire = [t \in Object |-> 0]
    BY DEF Sorted!Init
  <1>2. PICK s : s = [i \in 1..0 |-> Null]
    OBVIOUS
  <1>3. s \in [1..0 -> Object] /\ 1..0 = {}
    BY <1>2
  <1>4. list \in Lists /\ expire \in [Object -> Int]
    BY <1>1 DEF Lists
  <1>5. Chain(list, s, 0, expire, {})
    BY <1>1, <1>3, <1>4 DEF Chain
  <1>6. QED
    BY <1>5 DEF ListInv

(* What each step makes of the chain and of the timers that are in it. *)
LEMMA ListStep ==
    ASSUME Sorted!ConstantsOK, ListInv, [Sorted!Next]_(Sorted!vars)
    PROVE  ListInv'
  <1>1. PICK s, n : Chain(list, s, n, expire, {})
    BY DEF ListInv
  <1>2. ASSUME NEW H, Becomes(H) PROVE ListInv'
    BY <1>2 DEF Becomes, ListInv
  <1>3. CASE \E t \in Object, d \in 0..MaxDelay : Sorted!AddTimer(t, d)
    BY <1>1, <1>2, <1>3, ListAddStep
  <1>4. CASE \E t \in Object, d \in 0..MaxDelay : Sorted!AdjustTimer(t, d)
    BY <1>1, <1>2, <1>4, ListAdjustStep
  <1>5. CASE \E t \in Object : Sorted!DelTimer(t)
    BY <1>1, <1>2, <1>5, ListDelStep
  <1>6. CASE Sorted!Elapse
    BY <1>1, <1>2, <1>6, ListElapseStep
  <1>7. CASE Sorted!Tick
    BY <1>1, <1>2, <1>7, ListTickStep
  <1>8. CASE UNCHANGED Sorted!vars
    BY <1>8 DEF Sorted!vars, ListInv
  <1>9. QED
    BY <1>3, <1>4, <1>5, <1>6, <1>7, <1>8 DEF Sorted!Next

(* Whatever is added, postponed and deleted, the list is one chain, the same in
   both directions, sorted, with tail at its end, and no pointer leads to or from
   a timer that is not in it. *)
THEOREM ListIsLinked == Sorted!ConstantsOK /\ Sorted!Spec => []ListLinked
  <1> SUFFICES ASSUME Sorted!ConstantsOK PROVE Sorted!Spec => []ListLinked
    OBVIOUS
  <1>1. ListInv => ListLinked
    <2> SUFFICES ASSUME ListInv PROVE ListLinked
      OBVIOUS
    <2>1. PICK s, n : Chain(list, s, n, expire, {})
      BY DEF ListInv
    <2>2. /\ Sorted!Nodes(list) = s /\ s \in Seq(Object) /\ Len(s) = n /\ DOMAIN s = 1..n
          /\ Sorted!Range(s) = Entries(s, n)
      <3>1. /\ Sorted!Nodes(list) = s /\ s \in Seq(Object) /\ Len(s) = n
            /\ Sorted!Range(Sorted!Nodes(list)) = Entries(s, n)
        BY <2>1, ListNow
      <3>2. QED
        BY <3>1
    <2>3. /\ n \in Nat
          /\ \A i, j \in 1..n : s[i] = s[j] => i = j
          /\ \A i, j \in 1..n : i <= j => expire[s[i]] <= expire[s[j]]
          /\ n > 0 => list.tail = s[n]
          /\ \A i \in 1..n : list.prev[s[i]] = IF i = 1 THEN Null ELSE s[i - 1]
          /\ \A u \in Object \ {} :
                (\A i \in 1..n : s[i] # u) => list.next[u] = Null /\ list.prev[u] = Null
      BY <2>1, Zenon DEF Chain
    <2>4. Sorted!IsInjective(s)
      BY <2>2, <2>3 DEF Sorted!IsInjective
    <2>5. s # << >> => list.tail = s[Len(s)]
      BY <2>2, <2>3
    <2>6. \A t \in Object \ Sorted!Range(s) : list.next[t] = Null /\ list.prev[t] = Null
      BY <2>2, <2>3 DEF Entries
    <2>7. \A i, j \in DOMAIN s : i < j => expire[s[i]] <= expire[s[j]]
      BY <2>2, <2>3
    <2>8. QED
      BY <2>2, <2>3, <2>4, <2>5, <2>6, <2>7 DEF ListLinked, Sorted!ListLinked
  <1>2. Sorted!Init => ListInv
    BY ListInitOK
  <1>3. ListInv /\ [Sorted!Next]_(Sorted!vars) => ListInv'
    BY ListStep
  <1>4. QED
    BY <1>1, <1>2, <1>3, PTL DEF Sorted!Spec

-------------------------------------------------------------------------------
(* What the list does is what Timers promises. *)

LEMMA LeftOfChain ==
    ASSUME Sorted!ConstantsOK, NEW s, NEW n, Chain(list, s, n, expire, {})
    PROVE  /\ Sorted!Left = [t \in Entries(s, n) |-> expire[t]]
           /\ Sorted!Abstract!Pending = Entries(s, n)
           /\ \A t \in Entries(s, n) : t \in Object /\ expire[t] \in Int /\ Sorted!Left[t] = expire[t]
           /\ Sorted!Abstract!Due = {t \in Entries(s, n) : expire[t] <= 0}
  <1>1. Sorted!Range(Sorted!Nodes(list)) = Entries(s, n)
    BY ListNow
  <1>2. Sorted!Left = [t \in Entries(s, n) |-> expire[t]]
    BY <1>1 DEF Sorted!Left
  <1>3. Sorted!Abstract!Pending = Entries(s, n)
    BY <1>2 DEF Sorted!Abstract!Pending
  <1>4. \A t \in Entries(s, n) : t \in Object /\ expire[t] \in Int /\ Sorted!Left[t] = expire[t]
    BY <1>2 DEF Chain, Entries
  <1>5. QED
    BY <1>2, <1>3, <1>4 DEF Sorted!Abstract!Due

LEMMA LeftBecomes ==
    ASSUME Sorted!ConstantsOK, NEW H, Becomes(H)
    PROVE  Sorted!Left' = [t \in H |-> expire'[t]]
  <1>1. PICK r, k : Chain(list', r, k, expire', {}) /\ Entries(r, k) = H
    BY DEF Becomes
  <1>2. Sorted!Range(Sorted!Nodes(list')) = H
    BY <1>1, ListNow
  <1>3. QED
    BY <1>2 DEF Sorted!Left

LEMMA ListFires ==
    ASSUME Sorted!ConstantsOK, NEW s, NEW n, Chain(list, s, n, expire, {}),
           TickFires(Entries(s, n))
    PROVE  listFired' \in Sorted!Abstract!Firings
  <1>1. PICK r, Due : r = listFired' /\ Due = {t \in Entries(s, n) : expire[t] <= 0}
    OBVIOUS
  <1>2. /\ r \in Seq(Object) /\ IsInjective(r) /\ ToSet(r) = Due
        /\ \A i, j \in 1..Len(r) : i < j => expire[r[i]] <= expire[r[j]]
    BY <1>1 DEF TickFires
  <1>3. Sorted!Abstract!Cardinality(Due) = Len(r)
    <2>1. Cardinality(Due) = Len(r)
      BY <1>2, LengthOfInjective
    <2>2. QED
      BY <2>1, Zenon DEF Sorted!Abstract!Cardinality, Cardinality
  <1>4. r \in [1..Len(r) -> Due] /\ DOMAIN r = 1..Len(r)
    BY <1>2 DEF ToSet
  <1>5. Sorted!Abstract!Due = Due /\ \A t \in Entries(s, n) : Sorted!Left[t] = expire[t]
    BY <1>1, LeftOfChain
  <1>6. ASSUME NEW i \in DOMAIN r, NEW j \in DOMAIN r, i < j
        PROVE  r[i] # r[j] /\ Sorted!Left[r[i]] <= Sorted!Left[r[j]]
    <2>1. i # j
      BY <1>4, <1>6
    <2>2. r[i] # r[j]
      BY <1>2, <2>1 DEF IsInjective
    <2>3. r[i] \in Entries(s, n) /\ r[j] \in Entries(s, n)
      BY <1>1, <1>4
    <2>4. expire[r[i]] <= expire[r[j]]
      BY <1>2, <1>4, <1>6
    <2>5. QED
      BY <1>5, <2>2, <2>3, <2>4
  <1>7. QED
    BY <1>1, <1>3, <1>4, <1>5, <1>6 DEF Sorted!Abstract!Firings

LEMMA ListMaps ==
    ASSUME Sorted!ConstantsOK, ListInv, [Sorted!Next]_(Sorted!vars)
    PROVE  [Sorted!Abstract!Next]_(Sorted!Abstract!vars)
  <1>1. PICK s, n : Chain(list, s, n, expire, {})
    BY DEF ListInv
  <1>2. PICK P : P = Entries(s, n)
    OBVIOUS
  <1>3. /\ Sorted!Left = [t \in P |-> expire[t]] /\ Sorted!Abstract!Pending = P
        /\ \A t \in P : t \in Object /\ expire[t] \in Int /\ Sorted!Left[t] = expire[t]
        /\ Sorted!Abstract!Due = {t \in P : expire[t] <= 0}
        /\ Sorted!Range(Sorted!Nodes(list)) = P
    BY <1>1, <1>2, LeftOfChain, ListNow
  <1>4. expire \in [Object -> Int]
    BY <1>1 DEF Chain
  <1>5. ASSUME NEW t \in Object, NEW d \in 0..MaxDelay, Sorted!AddTimer(t, d)
        PROVE  Sorted!Abstract!Add(t, d)
    <2>1. Sorted!Left' = [u \in P \cup {t} |-> expire'[u]]
      BY <1>1, <1>2, <1>5, ListAddStep, LeftBecomes
    <2>2. t \notin P /\ expire' = [expire EXCEPT ![t] = d] /\ listFired' = << >>
      BY <1>3, <1>5 DEF Sorted!AddTimer, Sorted!InList
    <2>3. \A u \in P \cup {t} : expire'[u] = IF u = t THEN d ELSE Sorted!Left[u]
      BY <1>3, <1>4, <2>2
    <2>4. Sorted!Left' = [u \in P \cup {t} |-> IF u = t THEN d ELSE Sorted!Left[u]]
      BY <2>1, <2>3
    <2>5. QED
      BY <1>3, <2>2, <2>4 DEF Sorted!Abstract!Add
  <1>6. ASSUME NEW t \in Object, NEW d \in 0..MaxDelay, Sorted!AdjustTimer(t, d)
        PROVE  Sorted!Abstract!Postpone(t, d)
    <2>1. Sorted!Left' = [u \in P |-> expire'[u]]
      BY <1>1, <1>2, <1>6, ListAdjustStep, LeftBecomes
    <2>2. t \in P /\ d >= expire[t] /\ expire' = [expire EXCEPT ![t] = d] /\ listFired' = << >>
      BY <1>3, <1>6 DEF Sorted!AdjustTimer, Sorted!InList
    <2>3. Sorted!Left' = [Sorted!Left EXCEPT ![t] = d]
      BY <1>3, <1>4, <2>1, <2>2
    <2>4. QED
      BY <1>3, <2>2, <2>3 DEF Sorted!Abstract!Postpone
  <1>7. ASSUME NEW t \in Object, Sorted!DelTimer(t)
        PROVE  Sorted!Abstract!Cancel(t)
    <2>1. t \in P /\ Sorted!Left' = [u \in P \ {t} |-> expire'[u]]
      BY <1>1, <1>2, <1>7, ListDelStep, LeftBecomes
    <2>2. expire' = [expire EXCEPT ![t] = 0] /\ listFired' = << >>
      BY <1>7 DEF Sorted!DelTimer
    <2>3. \A u \in P \ {t} : expire'[u] = Sorted!Left[u]
      BY <1>3, <1>4, <2>2
    <2>4. Sorted!Left' = Sorted!Abstract!Restrict(Sorted!Left, P \ {t})
      BY <2>1, <2>3 DEF Sorted!Abstract!Restrict
    <2>5. QED
      BY <1>3, <2>1, <2>2, <2>4 DEF Sorted!Abstract!Cancel
  <1>8. ASSUME Sorted!Elapse PROVE Sorted!Abstract!Elapse
    <2>1. Sorted!Left' = [t \in P |-> expire'[t]]
      BY <1>1, <1>2, <1>8, ListElapseStep, LeftBecomes
    <2>2. \A t \in P : expire[t] > -Overdue /\ expire'[t] = expire[t] - 1
      BY <1>1, <1>2, <1>8, ListElapseStep
    <2>3. Sorted!Left' = [t \in P |-> Sorted!Left[t] - 1]
      BY <1>3, <2>1, <2>2
    <2>4. listFired' = << >>
      BY <1>8 DEF Sorted!Elapse
    <2>5. QED
      BY <1>3, <2>2, <2>3, <2>4 DEF Sorted!Abstract!Elapse
  <1>9. ASSUME Sorted!Tick PROVE Sorted!Abstract!Tick
    <2>1. /\ Becomes({t \in P : ~(expire[t] <= 0)})
          /\ TickFires(P)
          /\ \A t \in P : ~(expire[t] <= 0) => expire'[t] = expire[t]
      BY <1>1, <1>2, <1>9, ListTickStep
    <2>2. listFired' \in Sorted!Abstract!Firings
      BY <1>1, <1>2, <2>1, ListFires
    <2>3. Sorted!Left' = [t \in {u \in P : ~(expire[u] <= 0)} |-> expire'[t]]
      BY <2>1, LeftBecomes
    <2>4. P \ Sorted!Abstract!Due = {t \in P : ~(expire[t] <= 0)}
      BY <1>3
    <2>5. \A t \in P \ Sorted!Abstract!Due : expire'[t] = Sorted!Left[t]
      BY <1>3, <2>1, <2>4
    <2>6. Sorted!Left' = Sorted!Abstract!Restrict(Sorted!Left, P \ Sorted!Abstract!Due)
      BY <2>3, <2>4, <2>5 DEF Sorted!Abstract!Restrict
    <2>7. QED
      BY <1>3, <2>2, <2>6 DEF Sorted!Abstract!Tick
  <1>10. CASE UNCHANGED Sorted!vars
    BY <1>10 DEF Sorted!vars, Sorted!Abstract!vars, Sorted!Left
  <1>11. QED
    BY <1>5, <1>6, <1>7, <1>8, <1>9, <1>10 DEF Sorted!Next, Sorted!Abstract!Next

(* The list calls back exactly the timers that are due and in it, the earliest
   first and each once. *)
THEOREM ListIsTimers == Sorted!ConstantsOK /\ Sorted!Spec => ListImplements
  <1> SUFFICES ASSUME Sorted!ConstantsOK PROVE Sorted!Spec => ListImplements
    OBVIOUS
  <1>1. Sorted!Init => Sorted!Abstract!Init
    <2> SUFFICES ASSUME Sorted!Init PROVE Sorted!Abstract!Init
      OBVIOUS
    <2>1. ListInv /\ list.head = Null /\ listFired = << >>
      BY ListInitOK DEF Sorted!Init
    <2>2. PICK s, n : Chain(list, s, n, expire, {})
      BY <2>1 DEF ListInv
    <2>3. n = 0
      <3>1. n \in Nat /\ (n # 0 => list.head = s[1]) /\ s \in [1..n -> Object]
        BY <2>2 DEF Chain
      <3>2. Null \notin Object
        BY <2>2, ListNow
      <3>3. n # 0 => 1 \in 1..n
        BY <3>1
      <3>4. QED
        BY <2>1, <3>1, <3>2, <3>3
    <2>4. Entries(s, n) = {}
      BY <2>3 DEF Entries
    <2>5. Sorted!Left = << >>
      <3>1. Sorted!Left = [t \in Entries(s, n) |-> expire[t]]
        BY <2>2, LeftOfChain
      <3>2. Sorted!Left = [t \in {} |-> expire[t]]
        BY <2>4, <3>1
      <3>3. QED
        BY <3>2
    <2>6. QED
      BY <2>1, <2>5 DEF Sorted!Abstract!Init
  <1>2. Sorted!Init => ListInv
    BY ListInitOK
  <1>3. ListInv /\ [Sorted!Next]_(Sorted!vars) => ListInv'
    BY ListStep
  <1>4. ListInv /\ [Sorted!Next]_(Sorted!vars) => [Sorted!Abstract!Next]_(Sorted!Abstract!vars)
    BY ListMaps
  <1>5. QED
    BY <1>1, <1>2, <1>3, <1>4, PTL DEF Sorted!Spec, ListImplements, Sorted!ListImplements, Sorted!Abstract!Spec

-------------------------------------------------------------------------------
(* The time wheel. *)

LEMMA HalfFacts ==
    ASSUME NEW x \in Nat
    PROVE  x \div 2 \in Nat /\ (x # 0 => x \div 2 < x) /\ (x % 2 = 0 \/ x % 2 = 1)
  OBVIOUS

LEMMA AndIsNatural ==
    ASSUME NEW a \in Nat, NEW b \in Nat
    PROVE  Wheel!And(a, b) \in Nat
  <1> DEFINE S == 0..a
             V == [0..b -> Nat]
             Ends == {0}
             next == [x \in S |-> x \div 2]
             rank == [x \in S |-> x]
             base == [x \in S |-> [y \in 0..b |-> 0]]
             row(x, v) == [y \in 0..b |-> IF x = 0 \/ y = 0 THEN 0
                                         ELSE (x % 2) * (y % 2) + 2 * v[y \div 2]]
             step == [q \in (S \ Ends) \X V |-> row(q[1], q[2])]
  <1>1. \A x \in S \ Ends : /\ next[x] = x \div 2 /\ next[x] \in S
                            /\ rank[next[x]] < rank[x]
    BY HalfFacts
  <1>2. \A x \in S : rank[x] \in 0..a
    OBVIOUS
  <1>3. ASSUME NEW x \in S, NEW v \in V PROVE row(x, v) \in V
    <2>1. ASSUME NEW y \in 0..b, x # 0, y # 0
          PROVE  (x % 2) * (y % 2) + 2 * v[y \div 2] \in Nat
      <3>1. y \div 2 \in 0..b /\ (x % 2 = 0 \/ x % 2 = 1) /\ (y % 2 = 0 \/ y % 2 = 1)
        BY <2>1, HalfFacts
      <3>2. v[y \div 2] \in Nat
        BY <3>1
      <3>3. (x % 2) * (y % 2) = 0 \/ (x % 2) * (y % 2) = 1
        BY <3>1
      <3>4. QED
        BY <3>2, <3>3
    <2>2. QED
      BY <2>1
  <1>4. \A x \in S \cap Ends : base[x] = [y \in 0..b |-> 0] /\ base[x] \in V
    OBVIOUS
  <1>5. \A x \in S \ Ends : \A v \in V : step[<<x, v>>] = row(x, v)
    OBVIOUS
  <1>6. \A v : row(0, v) = [y \in 0..b |-> 0]
    OBVIOUS
  <1>7. a \in S /\ b \in 0..b
    OBVIOUS
  <1> HIDE DEF S, Ends, next, rank, base, step, row, V
  <1>8. PICK f \in [S -> V] :
            \A x \in S : f[x] = IF x \in Ends THEN base[x] ELSE step[<<x, f[next[x]]>>]
    <2>1. Paths(S, V, Ends, a, rank, next, base, step)
      BY <1>1, <1>2, <1>3, <1>4, <1>5 DEF Paths
    <2>2. QED
      BY <2>1, PathRecursion
  <1> DEFINE Equation(and) ==
                and = [x \in 0..a |->
                        [y \in 0..b |-> IF x = 0 \/ y = 0 THEN 0
                                       ELSE (x % 2) * (y % 2) + 2 * and[x \div 2][y \div 2]]]
  <1>9. ASSUME NEW x \in S PROVE f[x] = row(x, f[x \div 2])
    <2>1. CASE x = 0
      BY <1>4, <1>6, <1>8, <2>1 DEF Ends
    <2>2. CASE x # 0
      <3>1. x \in S \ Ends /\ next[x] = x \div 2 /\ next[x] \in S
        BY <1>1, <2>2 DEF Ends
      <3>2. f[x] = step[<<x, f[x \div 2]>>] /\ f[x \div 2] \in V
        BY <1>8, <3>1
      <3>3. QED
        BY <1>5, <3>1, <3>2
    <2>3. QED
      BY <2>1, <2>2
  <1>10. Equation(f)
    <2>1. f = [x \in S |-> row(x, f[x \div 2])]
      BY <1>8, <1>9
    <2>2. QED
      BY <2>1, Zenon DEF S, row
  <1>11. PICK g : Equation(g) /\ Wheel!And(a, b) = g[a][b]
    BY <1>10, Zenon DEF Wheel!And
  <1>12. g = [x \in S |-> row(x, g[x \div 2])]
    BY <1>11, Zenon DEF S, row
  <1> DEFINE P == {x \in S : g[x] \in V}
  <1>13. S \subseteq P
    <2>1. ASSUME NEW x \in S, \A w \in S : rank[w] < rank[x] => w \in P PROVE x \in P
      <3>1. g[x] = row(x, g[x \div 2])
        BY <1>12
      <3>2. CASE x = 0
        BY <1>4, <1>6, <3>1, <3>2 DEF Ends
      <3>3. CASE x # 0
        <4>1. x \div 2 \in P
          BY <1>1, <2>1, <3>3 DEF Ends
        <4>2. QED
          BY <1>3, <3>1, <4>1
      <3>4. QED
        BY <3>2, <3>3
    <2>2. \A x \in S : rank[x] \in Nat
      BY <1>2
    <2> HIDE DEF P
    <2>3. QED
      BY <2>1, <2>2, RankInduction
  <1>14. QED
    <2>1. g[a] \in V
      BY <1>7, <1>13
    <2>2. g[a][b] \in Nat
      BY <1>7, <2>1 DEF V
    <2>3. QED
      BY <1>11, <2>2

LEMMA ModFacts ==
    ASSUME NEW n \in Nat \ {0}, NEW x \in Int
    PROVE  /\ x % n \in 0..n - 1
           /\ x \in 0..n - 1 => x % n = x
           /\ -n <= x /\ x < 0 => x % n = x + n
           /\ x = n => x % n = 0
  OBVIOUS

(* The timers of a slot are there because their time_slot says so. *)
WheelInv ==
    /\ slots \in [0..N - 1 -> Seq(WTimer)] /\ cur_slot \in 0..N - 1
    /\ rotation \in [WTimer -> Nat] /\ time_slot \in [WTimer -> 0..N - 1]
    /\ \A i \in 0..N - 1 : \A t \in ToSet(slots[i]) : time_slot[t] = i

LEMMA WheelHeld ==
    ASSUME WheelInv
    PROVE  /\ Wheel!Held \subseteq WTimer
           /\ \A t \in Wheel!Held : t \in ToSet(slots[time_slot[t]])
           /\ \A t \in WTimer : t \in ToSet(slots[time_slot[t]]) => t \in Wheel!Held
           /\ \A s : Wheel!Range(s) = ToSet(s)
  <1>1. \A s : Wheel!Range(s) = ToSet(s)
    BY Zenon DEF Wheel!Range, ToSet
  <1>2. Wheel!Held = UNION {ToSet(slots[i]) : i \in 0..N - 1}
    BY <1>1 DEF Wheel!Held
  <1>3. \A i \in 0..N - 1 : ToSet(slots[i]) \subseteq WTimer
    BY DEF WheelInv, ToSet
  <1>4. \A t \in WTimer : time_slot[t] \in 0..N - 1
    BY DEF WheelInv
  <1>5. QED
    BY <1>1, <1>2, <1>3, <1>4 DEF WheelInv

LEMMA WheelInitOK ==
    ASSUME Wheel!ConstantsOK, Wheel!Init
    PROVE  WheelInv
  <1>1. /\ slots = [i \in 0..N - 1 |-> << >>] /\ cur_slot = 0
        /\ rotation = [t \in WTimer |-> 0] /\ time_slot = [t \in WTimer |-> 0]
        /\ N \in Nat \ {0, 1}
    BY DEF Wheel!Init, Wheel!ConstantsOK
  <1>2. 0 \in 0..N - 1 /\ ToSet(<< >>) = {}
    BY <1>1 DEF ToSet
  <1>3. QED
    BY <1>1, <1>2 DEF WheelInv

LEMMA TicksNatural ==
    ASSUME Wheel!ConstantsOK, NEW d \in 0..MaxTimeout
    PROVE  Wheel!Ticks(d) \in Nat /\ Wheel!Ticks(d) \div N \in Nat
  <1>1. SI \in Nat \ {0} /\ d \in Nat /\ N \in Nat \ {0}
    BY DEF Wheel!ConstantsOK
  <1>2. d \div SI \in Nat
    BY <1>1
  <1>3. Wheel!Ticks(d) \in Nat
    BY <1>2 DEF Wheel!Ticks
  <1>4. QED
    BY <1>1, <1>3

LEMMA WheelAddStep ==
    ASSUME Wheel!ConstantsOK, WheelInv, NEW t \in WTimer, NEW d \in 0..MaxTimeout,
           Wheel!AddTimer(t, d)
    PROVE  WheelInv'
  <1>1. PICK ts : ts = (cur_slot + Wheel!And(Wheel!Ticks(d), N)) % N
    OBVIOUS
  <1>2. /\ t \notin Wheel!Held /\ cur_slot' = cur_slot
        /\ rotation' = [rotation EXCEPT ![t] = Wheel!Ticks(d) \div N]
        /\ time_slot' = [time_slot EXCEPT ![t] = ts]
        /\ slots' = [slots EXCEPT ![ts] = <<t>> \o @]
    BY <1>1 DEF Wheel!AddTimer
  <1>3. Wheel!Ticks(d) \in Nat /\ Wheel!Ticks(d) \div N \in Nat
    BY TicksNatural
  <1>4. N \in Nat \ {0} /\ cur_slot \in 0..N - 1
    BY DEF Wheel!ConstantsOK, WheelInv
  <1>5. ts \in 0..N - 1
    <2>1. Wheel!And(Wheel!Ticks(d), N) \in Nat
      BY <1>3, <1>4, AndIsNatural
    <2>2. cur_slot + Wheel!And(Wheel!Ticks(d), N) \in Int
      BY <1>4, <2>1
    <2>3. QED
      BY <1>1, <1>4, <2>2, ModFacts
  <1>6. /\ slots \in [0..N - 1 -> Seq(WTimer)]
        /\ rotation \in [WTimer -> Nat] /\ time_slot \in [WTimer -> 0..N - 1]
        /\ \A i \in 0..N - 1 : \A u \in ToSet(slots[i]) : time_slot[u] = i
    BY DEF WheelInv
  <1>7. /\ <<t>> \o slots[ts] \in Seq(WTimer)
        /\ ToSet(<<t>> \o slots[ts]) \subseteq {t} \cup ToSet(slots[ts])
    <2>1. PICK w : w = slots[ts] /\ w \in Seq(WTimer)
      BY <1>5, <1>6
    <2>2. PICK u : u = <<t>> \o w
      OBVIOUS
    <2>3. u \in Seq(WTimer) /\ Len(u) = 1 + Len(w) /\ Len(w) \in Nat
      BY <2>1, <2>2
    <2>4. ASSUME NEW i \in 1..Len(u), i # 1 PROVE i - 1 \in 1..Len(w) /\ u[i] = w[i - 1]
      <3>1. i - 1 \in 1..Len(w)
        BY <2>3, <2>4
      <3>2. QED
        BY <2>1, <2>2, <2>4, <3>1
    <2>5. 1 \in 1..Len(u) /\ u[1] = t
      BY <2>1, <2>2, <2>3
    <2>6. DOMAIN u = 1..Len(u) /\ DOMAIN w = 1..Len(w)
      BY <2>1, <2>3
    <2>7. ToSet(u) \subseteq {t} \cup ToSet(w)
      BY <2>4, <2>5, <2>6 DEF ToSet
    <2>8. QED
      BY <2>1, <2>2, <2>3, <2>7
  <1>8. \A i \in 0..N - 1 : t \notin ToSet(slots[i])
    BY <1>2, <1>6, WheelHeld
  <1>9. /\ slots' \in [0..N - 1 -> Seq(WTimer)]
        /\ rotation' \in [WTimer -> Nat] /\ time_slot' \in [WTimer -> 0..N - 1]
    BY <1>2, <1>3, <1>5, <1>6, <1>7
  <1>10. ASSUME NEW i \in 0..N - 1, NEW u \in ToSet(slots'[i]) PROVE time_slot'[u] = i
    <2>1. \A v \in ToSet(slots[i]) : v \in WTimer /\ v # t
      <3>1. PICK w : w = slots[i] /\ w \in Seq(WTimer)
        BY <1>6
      <3>2. \A v \in ToSet(w) : v \in WTimer
        BY <3>1 DEF ToSet
      <3>3. QED
        BY <1>8, <3>1, <3>2
    <2>2. CASE i = ts
      <3>1. u = t \/ u \in ToSet(slots[ts])
        BY <1>2, <1>5, <1>6, <1>7, <1>10, <2>2
      <3>2. QED
        BY <1>2, <1>6, <2>1, <2>2, <3>1
    <2>3. CASE i # ts
      <3>1. u \in ToSet(slots[i])
        BY <1>2, <1>5, <1>6, <1>10, <2>3
      <3>2. QED
        BY <1>2, <1>6, <2>1, <3>1
    <2>4. QED
      BY <2>2, <2>3
  <1>11. QED
    BY <1>2, <1>4, <1>9, <1>10 DEF WheelInv

(* What is taken from a slot. *)
LEMMA SelectFrom ==
    ASSUME NEW s \in Seq(WTimer), NEW S
    PROVE  /\ Wheel!SelectIn(s, S) \in Seq(WTimer)
           /\ ToSet(Wheel!SelectIn(s, S)) = ToSet(s) \cap S
  <1>1. Wheel!SelectIn(s, S) = SelectIn(s, S)
    BY Zenon DEF Wheel!SelectIn, SelectIn
  <1>2. SelectIn(s, S) \in Seq(WTimer) /\ Selected(SelectIn(s, S), s, S, Len(s))
    BY SelectInFacts
  <1>3. DOMAIN s = 1..Len(s)
    OBVIOUS
  <1>4. ToSet(SelectIn(s, S)) = ToSet(s) \cap S
    <2>1. PICK chosen : chosen = ToSet(SelectIn(s, S))
      OBVIOUS
    <2>2. /\ \A e \in chosen : e \in S /\ \E k \in 1..Len(s) : s[k] = e
          /\ \A k \in 1..Len(s) : s[k] \in S => s[k] \in chosen
      BY <1>2, <2>1, Zenon DEF Selected
    <2>3. chosen = ToSet(s) \cap S
      BY <1>3, <2>2 DEF ToSet
    <2>4. QED
      BY <2>1, <2>3
  <1>5. QED
    BY <1>1, <1>2, <1>4

LEMMA WheelDelStep ==
    ASSUME Wheel!ConstantsOK, WheelInv, NEW t \in WTimer, Wheel!DelTimer(t)
    PROVE  WheelInv'
  <1>1. PICK ts : ts = time_slot[t]
    OBVIOUS
  <1>2. /\ cur_slot' = cur_slot
        /\ rotation' = [rotation EXCEPT ![t] = 0] /\ time_slot' = [time_slot EXCEPT ![t] = 0]
        /\ slots' = [slots EXCEPT ![ts] = Wheel!SelectIn(@, WTimer \ {t})]
    BY <1>1 DEF Wheel!DelTimer
  <1>3. /\ slots \in [0..N - 1 -> Seq(WTimer)] /\ cur_slot \in 0..N - 1
        /\ rotation \in [WTimer -> Nat] /\ time_slot \in [WTimer -> 0..N - 1]
        /\ \A i \in 0..N - 1 : \A u \in ToSet(slots[i]) : time_slot[u] = i
        /\ N \in Nat \ {0} /\ 0 \in 0..N - 1
    BY DEF WheelInv, Wheel!ConstantsOK
  <1>4. ts \in 0..N - 1
    BY <1>1, <1>3
  <1>5. PICK r : r = Wheel!SelectIn(slots[ts], WTimer \ {t})
    OBVIOUS
  <1>6. r \in Seq(WTimer) /\ ToSet(r) = ToSet(slots[ts]) \cap (WTimer \ {t})
    BY <1>3, <1>4, <1>5, SelectFrom
  <1>7. slots' = [slots EXCEPT ![ts] = r]
    BY <1>2, <1>5
  <1>8. /\ slots' \in [0..N - 1 -> Seq(WTimer)]
        /\ rotation' \in [WTimer -> Nat] /\ time_slot' \in [WTimer -> 0..N - 1]
    <2>1. slots' \in [0..N - 1 -> Seq(WTimer)]
      BY <1>3, <1>6, <1>7
    <2>2. QED
      BY <1>2, <1>3, <2>1
  <1>9. ASSUME NEW i \in 0..N - 1, NEW u \in ToSet(slots'[i]) PROVE time_slot'[u] = i
    <2>1. \A v \in ToSet(slots[i]) : v \in WTimer
      BY <1>3 DEF ToSet
    <2>2. u \in ToSet(slots[i]) /\ u # t
      <3>1. CASE i = ts
        BY <1>3, <1>4, <1>6, <1>7, <1>9, <3>1
      <3>2. CASE i # ts
        <4>1. u \in ToSet(slots[i])
          BY <1>3, <1>4, <1>7, <1>9, <3>2
        <4>2. QED
          BY <1>1, <1>3, <3>2, <4>1
      <3>3. QED
        BY <3>1, <3>2
    <2>3. QED
      BY <1>2, <1>3, <2>1, <2>2
  <1>10. QED
    BY <1>2, <1>3, <1>8, <1>9 DEF WheelInv

LEMMA DifferenceFacts ==
    ASSUME NEW n \in Nat \ {0, 1}, NEW i \in 0..n - 1, NEW c \in 0..n - 1
    PROVE  (i - c) % n = IF i >= c THEN i - c ELSE i - c + n
  <1>1. /\ i - c \in Int /\ n \in Nat \ {0}
        /\ IF i >= c THEN i - c \in 0..n - 1 ELSE -n <= i - c /\ i - c < 0
    OBVIOUS
  <1>2. QED
    BY <1>1, ModFacts

(* How far a slot is ahead of the one that the next tick visits. *)
Turned(n, c, d) ==
    \A i \in 0..n - 1 :
        /\ (i - c) % n \in 0..n - 1 /\ ((i - c) % n = 0 <=> i = c)
        /\ (i - d) % n = IF i = c THEN n - 1 ELSE ((i - c) % n) - 1

LEMMA OneSlotNearer ==
    ASSUME NEW n \in Nat \ {0, 1}, NEW c \in 0..n - 1, NEW d \in Int, d = (c + 1) % n
    PROVE  d \in 0..n - 1 /\ Turned(n, c, d)
  <1>1. d = IF c = n - 1 THEN 0 ELSE c + 1
    <2>1. PICK x : x = c + 1
      OBVIOUS
    <2>2. x \in Int /\ (x \in 0..n - 1 \/ x = n) /\ n \in Nat \ {0}
      BY <2>1
    <2>3. x % n = IF x = n THEN 0 ELSE x
      BY <2>2, ModFacts
    <2>4. d = x % n
      BY <2>1
    <2>5. QED
      BY <2>1, <2>3, <2>4
  <1>2. d \in 0..n - 1
    BY <1>1
  <1>3. ASSUME NEW i \in 0..n - 1
        PROVE  /\ (i - c) % n \in 0..n - 1 /\ ((i - c) % n = 0 <=> i = c)
               /\ (i - d) % n = IF i = c THEN n - 1 ELSE ((i - c) % n) - 1
    <2>1. (i - c) % n = IF i >= c THEN i - c ELSE i - c + n
      BY DifferenceFacts
    <2>2. (i - d) % n = IF i >= d THEN i - d ELSE i - d + n
      BY <1>2, DifferenceFacts
    <2>3. QED
      BY <1>1, <1>2, <2>1, <2>2
  <1>4. QED
    BY <1>2, <1>3 DEF Turned

(* What the wheel promises of a tick. *)
OnTime ==
    /\ ToSet(wheelFired') = {t \in Wheel!Held : Wheel!Remaining(t) = 0}
    /\ Wheel!Held' = Wheel!Held \ ToSet(wheelFired')
    /\ \A t \in Wheel!Held' : Wheel!Remaining(t)' = Wheel!Remaining(t) - 1

LEMMA WheelTickStep ==
    ASSUME Wheel!ConstantsOK, WheelInv, Wheel!Tick
    PROVE  WheelInv' /\ OnTime
  <1>1. PICK slot, visited, stays : /\ slot = slots[cur_slot] /\ visited = ToSet(slot)
                                    /\ stays = {t \in visited : rotation[t] > 0}
    OBVIOUS
  <1>2. /\ wheelFired' = Wheel!SelectIn(slot, visited \ stays)
        /\ slots' = [slots EXCEPT ![cur_slot] = Wheel!SelectIn(slot, stays)]
        /\ rotation' = [t \in WTimer |-> IF t \in stays THEN rotation[t] - 1 ELSE rotation[t]]
        /\ time_slot' = [t \in WTimer |-> IF t \in visited \ stays THEN 0 ELSE time_slot[t]]
        /\ cur_slot' = (cur_slot + 1) % N
    <2>1. \A s : Wheel!Range(s) = ToSet(s)
      BY Zenon DEF Wheel!Range, ToSet
    <2>2. QED
      BY <1>1, <2>1 DEF Wheel!Tick
  <1>3. /\ slots \in [0..N - 1 -> Seq(WTimer)] /\ cur_slot \in 0..N - 1
        /\ rotation \in [WTimer -> Nat] /\ time_slot \in [WTimer -> 0..N - 1]
        /\ \A i \in 0..N - 1 : \A u \in ToSet(slots[i]) : u \in WTimer /\ time_slot[u] = i
        /\ N \in Nat \ {0, 1}
    <2>1. \A i \in 0..N - 1 : \A u \in ToSet(slots[i]) : u \in WTimer
      BY DEF WheelInv, ToSet
    <2>2. QED
      BY <2>1 DEF WheelInv, Wheel!ConstantsOK
  <1>4. PICK rest : rest = Wheel!SelectIn(slot, stays)
    OBVIOUS
  <1>5. slot \in Seq(WTimer) /\ visited \subseteq WTimer /\ stays \subseteq visited
    BY <1>1, <1>3
  <1>6. rest \in Seq(WTimer) /\ ToSet(rest) = stays /\ ToSet(wheelFired') = visited \ stays
    BY <1>1, <1>2, <1>4, <1>5, SelectFrom
  <1>7. slots' = [slots EXCEPT ![cur_slot] = rest]
    BY <1>2, <1>4
  <1>8. /\ cur_slot' \in 0..N - 1
        /\ \A i \in 0..N - 1 :
              /\ (i - cur_slot) % N \in 0..N - 1 /\ ((i - cur_slot) % N = 0 <=> i = cur_slot)
              /\ (i - cur_slot') % N = IF i = cur_slot THEN N - 1 ELSE ((i - cur_slot) % N) - 1
    <2>1. PICK c, d : c = cur_slot /\ d = cur_slot'
      OBVIOUS
    <2>2. N \in Nat \ {0, 1} /\ c \in 0..N - 1 /\ d = (c + 1) % N /\ d \in Int
      <3>1. cur_slot + 1 \in Int /\ N \in Nat \ {0}
        BY <1>3
      <3>2. cur_slot' \in Int
        BY <1>2, <3>1, ModFacts
      <3>3. QED
        BY <1>2, <1>3, <2>1, <3>2
    <2>3. d \in 0..N - 1 /\ Turned(N, c, d)
      BY <2>2, OneSlotNearer
    <2>4. QED
      BY <2>1, <2>3 DEF Turned
  <1>9. /\ slots' \in [0..N - 1 -> Seq(WTimer)]
        /\ rotation' \in [WTimer -> Nat] /\ time_slot' \in [WTimer -> 0..N - 1]
    <2>1. slots' \in [0..N - 1 -> Seq(WTimer)]
      BY <1>3, <1>6, <1>7
    <2>2. rotation' \in [WTimer -> Nat]
      <3>1. \A t \in stays : rotation[t] > 0
        BY <1>1
      <3>2. \A t \in WTimer : (IF t \in stays THEN rotation[t] - 1 ELSE rotation[t]) \in Nat
        BY <1>3, <3>1
      <3>3. QED
        BY <1>2, <3>2
    <2>3. time_slot' \in [WTimer -> 0..N - 1]
      BY <1>2, <1>3
    <2>4. QED
      BY <2>1, <2>2, <2>3
  <1>10. \A i \in 0..N - 1 : ToSet(slots'[i]) = IF i = cur_slot THEN stays ELSE ToSet(slots[i])
    BY <1>3, <1>6, <1>7
  <1>11. ASSUME NEW i \in 0..N - 1, NEW t \in ToSet(slots'[i])
         PROVE  t \in WTimer /\ time_slot'[t] = i /\ time_slot[t] = i
    <2>1. t \in ToSet(slots[i])
      BY <1>1, <1>5, <1>10, <1>11
    <2>2. t \in WTimer /\ time_slot[t] = i
      BY <1>3, <2>1
    <2>3. t \notin visited \ stays
      <3>1. CASE i = cur_slot
        BY <1>10, <1>11, <3>1
      <3>2. CASE i # cur_slot
        BY <1>1, <1>3, <2>2, <3>2
      <3>3. QED
        BY <3>1, <3>2
    <2>4. QED
      BY <1>2, <2>2, <2>3
  <1>12. WheelInv'
    BY <1>8, <1>9, <1>11 DEF WheelInv
  <1>13. /\ Wheel!Held = UNION {ToSet(slots[i]) : i \in 0..N - 1}
         /\ Wheel!Held' = UNION {ToSet(slots'[i]) : i \in 0..N - 1}
    <2>1. \A s : Wheel!Range(s) = ToSet(s)
      BY Zenon DEF Wheel!Range, ToSet
    <2>2. QED
      BY <2>1 DEF Wheel!Held
  <1>14. Wheel!Held' = Wheel!Held \ (visited \ stays)
    <2>1. ASSUME NEW t \in Wheel!Held' PROVE t \in Wheel!Held \ (visited \ stays)
      <3>1. PICK i \in 0..N - 1 : t \in ToSet(slots'[i])
        BY <1>13, <2>1
      <3>2. t \in ToSet(slots[i])
        BY <1>1, <1>5, <1>10, <3>1
      <3>3. CASE i = cur_slot
        BY <1>10, <1>13, <3>1, <3>2, <3>3
      <3>4. CASE i # cur_slot
        BY <1>1, <1>3, <1>13, <3>2, <3>4
      <3>5. QED
        BY <3>3, <3>4
    <2>2. ASSUME NEW t \in Wheel!Held, t \notin visited \ stays PROVE t \in Wheel!Held'
      <3>1. PICK i \in 0..N - 1 : t \in ToSet(slots[i])
        BY <1>13, <2>2
      <3>2. t \in ToSet(slots'[i])
        BY <1>1, <1>10, <2>2, <3>1
      <3>3. QED
        BY <1>13, <3>2
    <2>3. QED
      BY <2>1, <2>2
  <1>15. ASSUME NEW t \in Wheel!Held
         PROVE  /\ t \in WTimer /\ rotation[t] \in Nat /\ time_slot[t] \in 0..N - 1
                /\ (time_slot[t] = cur_slot <=> t \in visited)
                /\ Wheel!Remaining(t) = (rotation[t] * N) + ((time_slot[t] - cur_slot) % N)
    <2>1. PICK i \in 0..N - 1 : t \in ToSet(slots[i])
      BY <1>13, <1>15
    <2>2. t \in WTimer /\ time_slot[t] = i
      BY <1>3, <2>1
    <2>3. time_slot[t] = cur_slot <=> t \in visited
      BY <1>1, <1>3, <2>1, <2>2
    <2>4. QED
      BY <1>3, <2>2, <2>3 DEF Wheel!Remaining
  <1>16. ASSUME NEW t \in Wheel!Held
         PROVE  Wheel!Remaining(t) = 0 <=> t \in visited \ stays
    <2>1. PICK r, m : r = rotation[t] /\ m = (time_slot[t] - cur_slot) % N
      OBVIOUS
    <2>2. r \in Nat /\ m \in 0..N - 1 /\ (m = 0 <=> t \in visited) /\ N \in Nat \ {0}
      BY <1>3, <1>8, <1>15, <2>1
    <2>3. t \in stays <=> t \in visited /\ r > 0
      BY <1>1, <2>1
    <2>4. r * N \in Nat /\ (r * N = 0 <=> r = 0)
      BY <2>2
    <2>5. r * N + m = 0 <=> (r = 0 /\ m = 0)
      BY <2>2, <2>4
    <2>6. QED
      BY <1>15, <2>1, <2>2, <2>3, <2>5
  <1>17. ASSUME NEW t \in Wheel!Held'
         PROVE  Wheel!Remaining(t)' = Wheel!Remaining(t) - 1
    <2>1. t \in Wheel!Held /\ t \notin visited \ stays
      BY <1>14, <1>17
    <2>2. PICK r, i : r = rotation[t] /\ i = time_slot[t]
      OBVIOUS
    <2>3. r \in Nat /\ i \in 0..N - 1 /\ t \in WTimer /\ time_slot'[t] = i
      BY <1>2, <1>15, <2>1, <2>2
    <2>4. Wheel!Remaining(t)' = (rotation'[t] * N) + ((i - cur_slot') % N)
      BY <2>3 DEF Wheel!Remaining
    <2>5. Wheel!Remaining(t) = (r * N) + ((i - cur_slot) % N)
      BY <1>15, <2>1, <2>2
    <2>6. CASE t \in stays
      <3>1. rotation'[t] = r - 1 /\ i = cur_slot
        <4>1. t \in visited
          BY <1>5, <2>6
        <4>2. QED
          BY <1>2, <1>15, <2>1, <2>2, <2>3, <2>6, <4>1
      <3>2. (i - cur_slot') % N = N - 1 /\ (i - cur_slot) % N = 0
        BY <1>8, <2>3, <3>1
      <3>3. (r - 1) * N + (N - 1) = r * N - 1
        BY <1>3, <2>3
      <3>4. QED
        BY <1>3, <2>3, <2>4, <2>5, <3>1, <3>2, <3>3
    <2>7. CASE t \notin stays
      <3>1. rotation'[t] = r /\ i # cur_slot
        BY <1>2, <1>15, <2>1, <2>2, <2>3, <2>7
      <3>2. PICK m : m = (i - cur_slot) % N /\ m \in 0..N - 1 /\ ((i - cur_slot') % N) = m - 1
        BY <1>8, <2>3, <3>1
      <3>3. r * N \in Int
        BY <1>3, <2>3
      <3>4. QED
        BY <2>4, <2>5, <3>1, <3>2, <3>3
    <2>8. QED
      BY <2>6, <2>7
  <1>18. OnTime
    <2>1. visited \subseteq Wheel!Held
      BY <1>1, <1>3, <1>13
    <2>2. ToSet(wheelFired') = {t \in Wheel!Held : Wheel!Remaining(t) = 0}
      BY <1>6, <1>16, <2>1
    <2>3. QED
      BY <1>6, <1>14, <1>17, <2>2 DEF OnTime
  <1>19. QED
    BY <1>12, <1>18

(* Whatever is added and deleted between, each tick of the wheel brings every
   timer one tick nearer, and fires it when and only when none remains. *)
THEOREM WheelIsOnTime == Wheel!ConstantsOK /\ Wheel!Spec => WheelOnTime
  <1> SUFFICES ASSUME Wheel!ConstantsOK PROVE Wheel!Spec => WheelOnTime
    OBVIOUS
  <1>1. WheelInv /\ [Wheel!Next]_(Wheel!vars) => WheelInv'
    <2> SUFFICES ASSUME WheelInv, [Wheel!Next]_(Wheel!vars)
                 PROVE  WheelInv'
      OBVIOUS
    <2>1. CASE \E t \in WTimer : \E d \in 0..MaxTimeout : Wheel!AddTimer(t, d)
      BY <2>1, WheelAddStep
    <2>2. CASE \E t \in WTimer : Wheel!DelTimer(t)
      BY <2>2, WheelDelStep
    <2>3. CASE Wheel!Tick
      BY <2>3, WheelTickStep
    <2>4. CASE UNCHANGED Wheel!vars
      BY <2>4 DEF Wheel!vars, WheelInv
    <2>5. QED
      BY <2>1, <2>2, <2>3, <2>4 DEF Wheel!Next
  <1>2. WheelInv /\ [Wheel!Next]_(Wheel!vars)
           => (cur_slot' # cur_slot => OnTime)
    <2> SUFFICES ASSUME WheelInv, [Wheel!Next]_(Wheel!vars),
                        cur_slot' # cur_slot
                 PROVE  OnTime
      OBVIOUS
    <2>1. Wheel!Tick
      BY DEF Wheel!Next, Wheel!vars, Wheel!AddTimer, Wheel!DelTimer
    <2>2. QED
      BY <2>1, WheelTickStep
  <1>3. Wheel!Init => WheelInv
    BY WheelInitOK
  <1>4. OnTime => /\ Wheel!Range(wheelFired') = {t \in Wheel!Held : Wheel!Remaining(t) = 0}
                  /\ Wheel!Held' = Wheel!Held \ Wheel!Range(wheelFired')
                  /\ \A t \in Wheel!Held' : Wheel!Remaining(t)' = Wheel!Remaining(t) - 1
    <2>1. \A s : Wheel!Range(s) = ToSet(s)
      BY Zenon DEF Wheel!Range, ToSet
    <2>2. QED
      BY <2>1 DEF OnTime
  <1>5. QED
    BY <1>1, <1>2, <1>3, <1>4, PTL DEF Wheel!Spec, WheelOnTime, Wheel!WheelOnTime

-------------------------------------------------------------------------------
(* The time heap. *)

(* The heap: where percolation leads. *)

Parent(i) == (i - 1) \div 2

LEMMA ParentFacts ==
    ASSUME NEW i \in Nat \ {0}
    PROVE  Parent(i) \in Nat /\ Parent(i) < i /\ 2 * Parent(i) + 1 <= i /\ i <= 2 * Parent(i) + 2
  BY DEF Parent

(* What the loop of add_timer leaves of the array, by the hole it starts from. *)
UpLoop(up, n, t, e) ==
    /\ up \in [0..n -> [0..n -> Object]]
    /\ Heap!PercolateUp(n, t, e) = up[n]
    /\ \A h \in 0..n :
          up[h] = IF h > 0 /\ e[array[Parent(h)]] > e[t]
                  THEN [up[Parent(h)] EXCEPT ![h] = array[Parent(h)]]
                  ELSE [i \in 0..n |-> IF i = h THEN t ELSE IF i < n THEN array[i] ELSE t]

LEMMA UpEquation ==
    ASSUME NEW n \in Nat, NEW t \in Object, NEW e, array \in [0..n - 1 -> Object]
    PROVE  \E up : UpLoop(up, n, t, e)
  <1> DEFINE S == 0..n
             V == [0..n -> Object]
             Ends == {h \in S : ~(h > 0 /\ e[array[Parent(h)]] > e[t])}
             next == [h \in S |-> Parent(h)]
             rank == [h \in S |-> h]
             base == [h \in S |-> [i \in 0..n |-> IF i = h THEN t ELSE IF i < n THEN array[i] ELSE t]]
             step == [p \in (S \ Ends) \X V |-> [p[2] EXCEPT ![p[1]] = array[Parent(p[1])]]]
  <1>1. \A h \in S \ Ends : next[h] \in S /\ rank[next[h]] < rank[h] /\ next[h] \in 0..n - 1
    BY ParentFacts
  <1>2. \A h \in S \cap Ends : base[h] \in V
    OBVIOUS
  <1>3. \A h \in S \ Ends : \A v \in V : step[<<h, v>>] = [v EXCEPT ![h] = array[Parent(h)]]
    OBVIOUS
  <1>4. \A h \in S \ Ends : \A v \in V : step[<<h, v>>] \in V
    BY <1>1, <1>3
  <1>5. \A h \in S : rank[h] \in 0..n
    OBVIOUS
  <1> HIDE DEF S, V, Ends, next, rank, base, step
  <1>6. PICK up \in [S -> V] :
            \A h \in S : up[h] = IF h \in Ends THEN base[h] ELSE step[<<h, up[next[h]]>>]
    <2>1. Paths(S, V, Ends, n, rank, next, base, step)
      BY <1>1, <1>2, <1>4, <1>5 DEF Paths
    <2>2. QED
      BY <2>1, PathRecursion
  <1>7. ASSUME NEW h \in S
        PROVE  up[h] = IF h > 0 /\ e[array[Parent(h)]] > e[t]
                       THEN [up[Parent(h)] EXCEPT ![h] = array[Parent(h)]]
                       ELSE [i \in 0..n |-> IF i = h THEN t ELSE IF i < n THEN array[i] ELSE t]
    <2>1. CASE h \in Ends
      BY <1>6, <2>1 DEF Ends, base, S
    <2>2. CASE h \notin Ends
      <3>1. up[h] = step[<<h, up[next[h]]>>] /\ next[h] = Parent(h) /\ up[next[h]] \in V
        BY <1>1, <1>6, <2>2 DEF next
      <3>2. step[<<h, up[next[h]]>>] = [up[next[h]] EXCEPT ![h] = array[Parent(h)]]
        BY <1>3, <2>2, <3>1
      <3>3. QED
        BY <2>2, <3>1, <3>2 DEF Ends
    <2>3. QED
      BY <2>1, <2>2
  <1> DEFINE Equation(f) ==
                f = [h \in 0..n |->
                       IF h > 0 /\ e[array[(h - 1) \div 2]] > e[t]
                       THEN [f[(h - 1) \div 2] EXCEPT ![h] = array[(h - 1) \div 2]]
                       ELSE [i \in 0..n |-> IF i = h THEN t ELSE IF i < n THEN array[i] ELSE t]]
  <1>8. Equation(up)
    BY <1>7 DEF S, Parent
  <1>9. PICK f : Equation(f) /\ Heap!PercolateUp(n, t, e) = f[n]
    BY <1>8, Zenon DEF Heap!PercolateUp
  <1>10. 0..n \subseteq {h \in 0..n : f[h] = up[h]}
    <2> DEFINE P == {h \in 0..n : f[h] = up[h]}
    <2>1. ASSUME NEW h \in S, \A k \in S : rank[k] < rank[h] => k \in P PROVE h \in P
      <3>1. f[h] = IF h > 0 /\ e[array[Parent(h)]] > e[t]
                   THEN [f[Parent(h)] EXCEPT ![h] = array[Parent(h)]]
                   ELSE [i \in 0..n |-> IF i = h THEN t ELSE IF i < n THEN array[i] ELSE t]
        BY <1>9, Zenon DEF Parent, S
      <3>2. h \notin Ends => f[Parent(h)] = up[Parent(h)]
        BY <1>1, <2>1 DEF next
      <3>3. QED
        BY <1>7, <3>1, <3>2 DEF S, Ends
    <2>2. \A h \in S : rank[h] \in Nat
      BY DEF S, rank
    <2> HIDE DEF P
    <2>3. S \subseteq P
      BY <2>1, <2>2, RankInduction
    <2>4. QED
      BY <2>3 DEF S, P
  <1>11. QED
    <2> HIDE DEF Equation
    <2>1. up \in [0..n -> [0..n -> Object]] /\ Heap!PercolateUp(n, t, e) = up[n]
      BY <1>6, <1>9, <1>10 DEF S, V
    <2>2. QED
      BY <1>7, <2>1, Zenon DEF S, UpLoop

(* Parents come in the order of their children. *)
LEMMA ParentMonotone ==
    ASSUME NEW i \in Nat \ {0}, NEW j \in Nat \ {0}, i <= j
    PROVE  Parent(i) <= Parent(j)
  BY DEF Parent

(* No entry expires before its parent. *)
Ordered(a, n, e) == \A i \in 1..n - 1 : e[a[Parent(i)]] <= e[a[i]]

(* What the loop has made of the places up to the hole it starts from at h: the
   entries before h and t, in order if t belongs above what h held. *)
Sifted(g, n, t, e, h) ==
    /\ \A i \in h + 1..n : g[i] = IF i < n THEN array[i] ELSE t
    /\ \A i, j \in 0..h : g[i] = g[j] => i = j
    /\ \A i \in 0..h : g[i] = t \/ \E j \in 0..h - 1 : g[i] = array[j]
    /\ \A j \in 0..h - 1 : \E i \in 0..h : g[i] = array[j]
    /\ \E i \in 0..h : g[i] = t
    /\ h = n \/ e[t] <= e[array[h]] =>
          /\ \A i \in 0..h : i < n => e[g[i]] <= e[array[i]]
          /\ \A i \in 1..h : e[g[Parent(i)]] <= e[g[i]]

(* What the loop starts from. *)
Settling(n, t, e) ==
    /\ array \in [0..n - 1 -> Object] /\ t \in Object /\ e \in [Object -> Int]
    /\ \A i \in 0..n - 1 : array[i] # t
    /\ \A i, j \in 0..n - 1 : array[i] = array[j] => i = j
    /\ Ordered(array, n, e)

(* The hole that t goes to. *)
LEMMA SiftStops ==
    ASSUME NEW n \in Nat, NEW t, NEW e, Settling(n, t, e), NEW h \in 0..n,
           ~(h > 0 /\ e[array[Parent(h)]] > e[t]),
           NEW g, g = [i \in 0..n |-> IF i = h THEN t ELSE IF i < n THEN array[i] ELSE t]
    PROVE  Sifted(g, n, t, e, h)
  <1>1. g[h] = t /\ \A i \in h + 1..n : g[i] = IF i < n THEN array[i] ELSE t
    OBVIOUS
  <1>2. \A i \in 0..h - 1 : g[i] = array[i]
    OBVIOUS
  <1>3. \A i, j \in 0..h : g[i] = g[j] => i = j
    <2>1. ASSUME NEW i \in 0..h, NEW j \in 0..h, g[i] = g[j] PROVE i = j
      <3>1. CASE i < h /\ j < h
        <4>1. i \in 0..n - 1 /\ j \in 0..n - 1 /\ array[i] = array[j]
          BY <1>2, <2>1, <3>1
        <4>2. QED
          BY <4>1 DEF Settling
      <3>2. CASE i < h /\ j = h
        BY <1>1, <1>2, <2>1, <3>2 DEF Settling
      <3>3. CASE i = h /\ j < h
        BY <1>1, <1>2, <2>1, <3>3 DEF Settling
      <3>4. QED
        BY <3>1, <3>2, <3>3
    <2>2. QED
      BY <2>1
  <1>4. \A i \in 0..h : g[i] = t \/ \E j \in 0..h - 1 : g[i] = array[j]
    <2>1. ASSUME NEW i \in 0..h PROVE i = h \/ i \in 0..h - 1
      OBVIOUS
    <2>2. QED
      BY <1>1, <1>2, <2>1
  <1>5. \A j \in 0..h - 1 : \E i \in 0..h : g[i] = array[j]
    <2>1. ASSUME NEW j \in 0..h - 1 PROVE j \in 0..h /\ g[j] = array[j]
      BY <1>2
    <2>2. QED
      BY <2>1
  <1>6. h \in 0..h
    OBVIOUS
  <1>7. ASSUME h = n \/ e[t] <= e[array[h]], NEW i \in 0..h, i < n
        PROVE  e[g[i]] <= e[array[i]]
    <2>1. CASE i = h
      BY <1>1, <1>7, <2>1
    <2>2. CASE i # h
      <3>1. g[i] = array[i] /\ array[i] \in Object
        BY <1>2, <1>7, <2>2 DEF Settling
      <3>2. e[array[i]] \in Int
        BY <3>1 DEF Settling
      <3>3. QED
        BY <3>1, <3>2
    <2>3. QED
      BY <2>1, <2>2
  <1>8. ASSUME NEW i \in 1..h PROVE e[g[Parent(i)]] <= e[g[i]]
    <2>1. Parent(i) \in 0..h - 1 /\ g[Parent(i)] = array[Parent(i)]
      <3>1. i \in Nat \ {0} /\ i <= h
        OBVIOUS
      <3>2. Parent(i) \in Nat /\ Parent(i) < i
        BY <3>1, ParentFacts
      <3>3. Parent(i) \in 0..h - 1
        BY <3>1, <3>2
      <3>4. QED
        BY <1>2, <3>3
    <2>2. CASE i < h
      <3>1. i \in 1..n - 1 /\ g[i] = array[i]
        BY <1>2, <2>2
      <3>2. QED
        BY <2>1, <3>1 DEF Settling, Ordered
    <2>3. CASE i = h
      <3>1. array[Parent(h)] \in Object
        BY <2>1, <2>3 DEF Settling
      <3>2. e[array[Parent(h)]] \in Int /\ e[t] \in Int
        BY <3>1 DEF Settling
      <3>3. QED
        BY <1>1, <2>1, <2>3, <3>2
    <2>4. QED
      BY <2>2, <2>3
  <1>9. QED
    BY <1>1, <1>3, <1>4, <1>5, <1>6, <1>7, <1>8 DEF Sifted

(* The parent that comes down to the hole. *)
LEMMA SiftSteps ==
    ASSUME NEW n \in Nat, NEW t, NEW e, Settling(n, t, e), NEW h \in 1..n,
           NEW p, p = Parent(h), e[array[p]] > e[t],
           NEW f, f \in [0..n -> Object], Sifted(f, n, t, e, p),
           NEW g, g = [f EXCEPT ![h] = array[p]]
    PROVE  Sifted(g, n, t, e, h)
  <1>1. p \in 0..h - 1 /\ p \in 0..n - 1
    BY ParentFacts
  <1>2. e[t] <= e[array[p]] /\ array[p] \in Object /\ e[t] \in Int /\ e[array[p]] \in Int
    <2>1. array[p] \in Object /\ t \in Object
      BY <1>1 DEF Settling
    <2>2. e[t] \in Int /\ e[array[p]] \in Int
      BY <2>1 DEF Settling
    <2>3. QED
      BY <2>1, <2>2
  <1>3. g[h] = array[p] /\ \A i \in 0..n : i # h => g[i] = f[i]
    OBVIOUS
  <1>4. \A i \in 0..p : g[i] = f[i]
    BY <1>1, <1>3
  <1>5. \A i \in p + 1..n : f[i] = IF i < n THEN array[i] ELSE t
    BY DEF Sifted
  <1>6. \A i \in p + 1..h - 1 : g[i] = array[i]
    BY <1>1, <1>3, <1>5
  <1>7. \A i \in h + 1..n : g[i] = IF i < n THEN array[i] ELSE t
    BY <1>1, <1>3, <1>5
  <1>8. \A i \in 0..p : f[i] = t \/ \E j \in 0..p - 1 : f[i] = array[j]
    BY DEF Sifted
  <1>9. ASSUME NEW i \in 0..h PROVE i \in 0..p \/ i \in p + 1..h - 1 \/ i = h
    BY <1>1
  <1>10. \A i, j \in 0..h : g[i] = g[j] => i = j
    <2>1. ASSUME NEW i \in 0..p, NEW j \in p..n - 1 PROVE g[i] # array[j]
      <3>1. g[i] = f[i] /\ j \in 0..n - 1
        BY <1>1, <1>4
      <3>2. CASE f[i] = t
        BY <3>1, <3>2 DEF Settling
      <3>3. CASE \E k \in 0..p - 1 : f[i] = array[k]
        <4>1. PICK k \in 0..p - 1 : f[i] = array[k]
          BY <3>3
        <4>2. k \in 0..n - 1 /\ k # j
          BY <1>1, <4>1
        <4>3. array[k] # array[j]
          BY <3>1, <4>2 DEF Settling
        <4>4. QED
          BY <3>1, <4>1, <4>3
      <3>4. QED
        BY <1>8, <3>2, <3>3
    <2>2. ASSUME NEW i \in p + 1..h, NEW j \in p + 1..h, g[i] = g[j] PROVE i = j
      <3>1. PICK a, b : a = (IF i = h THEN p ELSE i) /\ b = (IF j = h THEN p ELSE j)
        OBVIOUS
      <3>2. g[i] = array[a] /\ g[j] = array[b] /\ a \in 0..n - 1 /\ b \in 0..n - 1
        BY <1>1, <1>3, <1>6, <3>1
      <3>3. a = b
        BY <2>2, <3>2 DEF Settling
      <3>4. QED
        BY <1>1, <3>1, <3>3
    <2>3. ASSUME NEW i \in 0..p, NEW j \in p + 1..h PROVE g[i] # g[j]
      <3>1. CASE j = h
        BY <1>1, <1>3, <2>1, <3>1
      <3>2. CASE j # h
        BY <1>1, <1>6, <2>1, <3>2
      <3>3. QED
        BY <3>1, <3>2
    <2>4. ASSUME NEW i \in 0..p, NEW j \in 0..p, g[i] = g[j] PROVE i = j
      BY <1>4, <2>4 DEF Sifted
    <2>5. ASSUME NEW i \in 0..h PROVE i \in 0..p \/ i \in p + 1..h
      BY <1>1
    <2>6. QED
      BY <2>2, <2>3, <2>4, <2>5
  <1>11. ASSUME NEW i \in 0..h PROVE g[i] = t \/ \E j \in 0..h - 1 : g[i] = array[j]
    <2>1. CASE i \in 0..p
      BY <1>1, <1>4, <1>8, <2>1
    <2>2. CASE i \in p + 1..h - 1
      BY <1>1, <1>6, <2>2
    <2>3. CASE i = h
      BY <1>1, <1>3, <2>3
    <2>4. QED
      BY <1>9, <2>1, <2>2, <2>3
  <1>12. ASSUME NEW j \in 0..h - 1 PROVE \E i \in 0..h : g[i] = array[j]
    <2>1. CASE j < p
      <3>1. PICK i \in 0..p : f[i] = array[j]
        <4>1. j \in 0..p - 1
          BY <1>1, <2>1
        <4>2. QED
          BY <4>1 DEF Sifted
      <3>2. i \in 0..h /\ g[i] = array[j]
        BY <1>1, <1>4, <3>1
      <3>3. QED
        BY <3>2
    <2>2. CASE j = p
      BY <1>3, <2>2
    <2>3. CASE j > p
      BY <1>1, <1>6, <2>3
    <2>4. QED
      BY <1>1, <2>1, <2>2, <2>3
  <1>13. \E i \in 0..h : g[i] = t
    <2>1. PICK i \in 0..p : f[i] = t
      BY DEF Sifted
    <2>2. i \in 0..h /\ g[i] = t
      BY <1>1, <1>4, <2>1
    <2>3. QED
      BY <2>2
  <1>14. /\ \A i \in 0..p : e[f[i]] <= e[array[i]]
         /\ \A i \in 1..p : e[f[Parent(i)]] <= e[f[i]]
    <2>1. \A i \in 0..p : i < n
      BY <1>1
    <2>2. QED
      BY <1>2, <2>1 DEF Sifted
  <1>15. ASSUME NEW i \in 0..n - 1 PROVE array[i] \in Object /\ e[array[i]] \in Int
    <2>1. array[i] \in Object
      BY DEF Settling
    <2>2. QED
      BY <2>1 DEF Settling
  <1>16. ASSUME NEW i \in 0..h, i < n PROVE e[g[i]] <= e[array[i]]
    <2>1. CASE i \in 0..p
      BY <1>4, <1>14, <2>1
    <2>2. CASE i \in p + 1..h - 1
      BY <1>1, <1>6, <1>15, <1>16, <2>2
    <2>3. CASE i = h
      <3>1. h \in 1..n - 1
        BY <1>16, <2>3
      <3>2. QED
        BY <1>3, <2>3, <3>1 DEF Settling, Ordered
    <2>4. QED
      BY <1>9, <2>1, <2>2, <2>3
  <1>17. ASSUME NEW i \in 1..h PROVE e[g[Parent(i)]] <= e[g[i]]
    <2>1. Parent(i) \in 0..p /\ Parent(i) \in Nat /\ Parent(i) < i
      <3>1. i \in Nat \ {0} /\ h \in Nat \ {0} /\ i <= h
        OBVIOUS
      <3>2. Parent(i) \in Nat /\ Parent(i) < i
        BY <3>1, ParentFacts
      <3>3. Parent(i) <= p
        BY <3>1, ParentMonotone
      <3>4. QED
        BY <1>1, <3>2, <3>3
    <2>2. CASE i \in 1..p
      <3>1. i \in 0..p
        BY <2>2
      <3>2. QED
        BY <1>4, <1>14, <2>1, <2>2, <3>1
    <2>3. CASE i \in p + 1..h - 1
      <3>1. i \in 1..n - 1 /\ Parent(i) \in 0..n - 1 /\ i \in 0..n - 1
        BY <1>1, <2>1, <2>3
      <3>2. e[array[Parent(i)]] <= e[array[i]]
        BY <3>1 DEF Settling, Ordered
      <3>3. e[g[Parent(i)]] <= e[array[Parent(i)]] /\ g[Parent(i)] \in Object
        BY <1>1, <1>4, <1>14, <2>1
      <3>4. e[g[Parent(i)]] \in Int
        BY <3>3 DEF Settling
      <3>5. QED
        BY <1>6, <1>15, <2>3, <3>1, <3>2, <3>3, <3>4
    <2>4. CASE i = h
      BY <1>1, <1>3, <1>4, <1>14, <2>1, <2>4
    <2>5. QED
      BY <1>1, <2>2, <2>3, <2>4
  <1>18. QED
    BY <1>7, <1>10, <1>11, <1>12, <1>13, <1>16, <1>17 DEF Sifted

LEMMA UpSifts ==
    ASSUME NEW n \in Nat, NEW t, NEW e, Settling(n, t, e)
    PROVE  /\ Sifted(Heap!PercolateUp(n, t, e), n, t, e, n)
           /\ Heap!PercolateUp(n, t, e) \in [0..n -> Object]
  <1>1. PICK up : UpLoop(up, n, t, e)
    <2>1. array \in [0..n - 1 -> Object] /\ t \in Object
      BY DEF Settling
    <2>2. QED
      BY <2>1, UpEquation
  <1>2. PICK S, P, rank : /\ S = 0..n /\ P = {h \in 0..n : Sifted(up[h], n, t, e, h)}
                          /\ rank = [h \in 0..n |-> h]
    OBVIOUS
  <1>3. ASSUME NEW h \in S, \A k \in S : rank[k] < rank[h] => k \in P PROVE h \in P
    <2>1. CASE h > 0 /\ e[array[Parent(h)]] > e[t]
      <3>1. PICK p, f, g : p = Parent(h) /\ f = up[p] /\ g = up[h]
        OBVIOUS
      <3>2. p \in S /\ rank[p] < rank[h] /\ h \in 1..n
        <4>1. h \in Nat \ {0} /\ h <= n
          BY <1>2, <2>1
        <4>2. p \in Nat /\ p < h
          BY <3>1, <4>1, ParentFacts
        <4>3. QED
          BY <1>2, <4>1, <4>2
      <3>3. Sifted(f, n, t, e, p) /\ f \in [0..n -> Object]
        BY <1>1, <1>2, <1>3, <3>1, <3>2 DEF UpLoop
      <3>4. g = [f EXCEPT ![h] = array[p]]
        BY <1>1, <1>2, <2>1, <3>1 DEF UpLoop
      <3>5. Sifted(g, n, t, e, h)
        BY <2>1, <3>1, <3>2, <3>3, <3>4, SiftSteps, Zenon
      <3>6. QED
        BY <1>2, <3>1, <3>5
    <2>2. CASE ~(h > 0 /\ e[array[Parent(h)]] > e[t])
      <3>1. PICK g : g = [i \in 0..n |-> IF i = h THEN t ELSE IF i < n THEN array[i] ELSE t]
        OBVIOUS
      <3>2. h \in 0..n
        BY <1>2
      <3>3. Sifted(g, n, t, e, h)
        BY <2>2, <3>1, <3>2, SiftStops, Zenon
      <3>4. up[h] = g
        BY <1>1, <1>2, <2>2, <3>1 DEF UpLoop
      <3>5. QED
        BY <1>2, <3>3, <3>4
    <2>3. QED
      BY <2>1, <2>2
  <1>4. S \subseteq P
    <2>1. \A h \in S : rank[h] \in Nat
      BY <1>2
    <2>2. QED
      BY <1>3, <2>1, RankInduction
  <1>5. QED
    BY <1>1, <1>2, <1>4 DEF UpLoop

-------------------------------------------------------------------------------
(* percolate_down. *)

Child(a, n, h) ==
    IF 2 * h + 1 < n - 1 /\ expire[a[2 * h + 1 + 1]] < expire[a[2 * h + 1]]
    THEN 2 * h + 1 + 1 ELSE 2 * h + 1

Descends(a, n, h) == 2 * h + 1 <= n - 1 /\ expire[a[Child(a, n, h)]] < expire[a[0]]

(* What the loop of percolate_down leaves of the array, by the hole it starts from. *)
DownLoop(down, a, n) ==
    /\ down \in [0..n - 1 -> [0..n - 1 -> Object]]
    /\ Heap!PercolateDown(a, n) = down[0]
    /\ \A h \in 0..n - 1 :
          down[h] = IF Descends(a, n, h)
                    THEN [down[Child(a, n, h)] EXCEPT ![h] = a[Child(a, n, h)]]
                    ELSE [a EXCEPT ![h] = a[0]]

LEMMA DownEquation ==
    ASSUME NEW n \in Nat \ {0}, NEW a \in [0..n - 1 -> Object]
    PROVE  \E down : DownLoop(down, a, n)
  <1> DEFINE S == 0..n - 1
             V == [0..n - 1 -> Object]
             Ends == {h \in S : ~Descends(a, n, h)}
             next == [h \in S |-> Child(a, n, h)]
             rank == [h \in S |-> n - 1 - h]
             base == [h \in S |-> [a EXCEPT ![h] = a[0]]]
             step == [p \in (S \ Ends) \X V |-> [p[2] EXCEPT ![p[1]] = a[next[p[1]]]]]
  <1>1. \A h \in S \ Ends : /\ next[h] \in S /\ rank[next[h]] < rank[h] /\ h < next[h]
                            /\ next[h] = Child(a, n, h)
    BY DEF Child, Descends
  <1>2. \A h \in S \cap Ends : base[h] \in V
    OBVIOUS
  <1>3. \A h \in S \ Ends : \A v \in V : step[<<h, v>>] = [v EXCEPT ![h] = a[next[h]]]
    OBVIOUS
  <1>4. \A h \in S \ Ends : \A v \in V : step[<<h, v>>] \in V
    BY <1>1, <1>3
  <1>5. n - 1 \in Nat /\ \A h \in S : rank[h] \in 0..n - 1
    OBVIOUS
  <1> HIDE DEF S, V, Ends, next, rank, base, step
  <1>6. PICK down \in [S -> V] :
            \A h \in S : down[h] = IF h \in Ends THEN base[h] ELSE step[<<h, down[next[h]]>>]
    <2>1. Paths(S, V, Ends, n - 1, rank, next, base, step)
      BY <1>1, <1>2, <1>4, <1>5 DEF Paths
    <2>2. QED
      BY <2>1, PathRecursion
  <1>7. ASSUME NEW h \in S
        PROVE  down[h] = IF Descends(a, n, h)
                         THEN [down[Child(a, n, h)] EXCEPT ![h] = a[Child(a, n, h)]]
                         ELSE [a EXCEPT ![h] = a[0]]
    <2>1. CASE h \in Ends
      BY <1>6, <2>1 DEF Ends, base, S
    <2>2. CASE h \notin Ends
      <3>1. down[h] = step[<<h, down[next[h]]>>] /\ down[next[h]] \in V
        BY <1>1, <1>6, <2>2
      <3>2. step[<<h, down[next[h]]>>] = [down[next[h]] EXCEPT ![h] = a[next[h]]]
        BY <1>3, <2>2, <3>1
      <3>3. next[h] = Child(a, n, h) /\ Descends(a, n, h)
        BY <1>1, <2>2 DEF Ends
      <3>4. QED
        BY <3>1, <3>2, <3>3
    <2>3. QED
      BY <2>1, <2>2
  <1> DEFINE Equation(f) ==
                f = [hole \in 0..n - 1 |->
                       LET first == 2 * hole + 1
                           child == IF first < n - 1 /\ expire[a[first + 1]] < expire[a[first]]
                                    THEN first + 1 ELSE first
                       IN  IF first <= n - 1 /\ expire[a[child]] < expire[a[0]]
                           THEN [f[child] EXCEPT ![hole] = a[child]]
                           ELSE [a EXCEPT ![hole] = a[0]]]
  <1>8. Equation(down)
    BY <1>7 DEF S, Child, Descends
  <1>9. PICK f : Equation(f) /\ Heap!PercolateDown(a, n) = f[0]
    BY <1>8, Zenon DEF Heap!PercolateDown
  <1>10. S \subseteq {h \in S : f[h] = down[h]}
    <2> DEFINE P == {h \in S : f[h] = down[h]}
    <2>1. ASSUME NEW h \in S, \A k \in S : rank[k] < rank[h] => k \in P PROVE h \in P
      <3>1. f[h] = IF Descends(a, n, h)
                   THEN [f[Child(a, n, h)] EXCEPT ![h] = a[Child(a, n, h)]]
                   ELSE [a EXCEPT ![h] = a[0]]
        BY <1>9, Zenon DEF Child, Descends, S
      <3>2. Descends(a, n, h) => f[Child(a, n, h)] = down[Child(a, n, h)]
        BY <1>1, <2>1 DEF Ends
      <3>3. QED
        BY <1>7, <3>1, <3>2
    <2>2. \A h \in S : rank[h] \in Nat
      BY <1>5
    <2> HIDE DEF P
    <2>3. S \subseteq P
      BY <2>1, <2>2, RankInduction
    <2>4. QED
      BY <2>3 DEF P
  <1>11. QED
    <2> HIDE DEF Equation
    <2>1. 0 \in S
      BY DEF S
    <2>2. down \in [0..n - 1 -> [0..n - 1 -> Object]] /\ Heap!PercolateDown(a, n) = down[0]
      BY <1>6, <1>9, <1>10, <2>1 DEF S, V
    <2>3. QED
      BY <1>7, <2>2, Zenon DEF S, DownLoop

(* What percolate_down starts from: a heap, but for the entry at the top. *)
Sinking(a, n) ==
    /\ a \in [0..n - 1 -> Object] /\ expire \in [Object -> Int]
    /\ \A i, j \in 0..n - 1 : a[i] = a[j] => i = j
    /\ \A i \in 1..n - 1 : Parent(i) > 0 => expire[a[Parent(i)]] <= expire[a[i]]

(* What the loop has made of the places from the hole h on: the entries after h
   and the one at the top, later than before and in order, if what h held came
   before the entry at the top. *)
Sunk(g, a, n, h) ==
    /\ \A i \in 0..h - 1 : g[i] = a[i]
    /\ \A i, j \in h..n - 1 : g[i] = g[j] => i = j
    /\ \A i \in h..n - 1 : g[i] = a[0] \/ \E j \in h + 1..n - 1 : g[i] = a[j]
    /\ \A j \in h + 1..n - 1 : \E i \in h..n - 1 : g[i] = a[j]
    /\ \E i \in h..n - 1 : g[i] = a[0]
    /\ h = 0 \/ expire[a[h]] <= expire[a[0]] =>
          /\ \A i \in h..n - 1 : i > 0 => expire[a[i]] <= expire[g[i]]
          /\ \A i \in h + 1..n - 1 : Parent(i) >= h => expire[g[Parent(i)]] <= expire[g[i]]

(* The earlier child. *)
LEMMA ChildPlace ==
    ASSUME NEW n \in Nat \ {0}, NEW a, NEW h \in 0..n - 1, 2 * h + 1 <= n - 1
    PROVE  Child(a, n, h) \in h + 1..n - 1 /\ Parent(Child(a, n, h)) = h
  <1>1. Child(a, n, h) \in h + 1..n - 1
    BY DEF Child
  <1>2. Parent(Child(a, n, h)) = h
    BY DEF Child, Parent
  <1>3. QED
    BY <1>1, <1>2

LEMMA ChildFacts ==
    ASSUME NEW n \in Nat \ {0}, NEW a, Sinking(a, n), NEW h \in 0..n - 1, 2 * h + 1 <= n - 1
    PROVE  /\ Child(a, n, h) \in h + 1..n - 1 /\ Parent(Child(a, n, h)) = h
           /\ \A i \in 1..n - 1 :
                 Parent(i) = h => expire[a[Child(a, n, h)]] <= expire[a[i]]
  <1>1. Child(a, n, h) \in h + 1..n - 1
    BY ChildPlace
  <1>2. Parent(Child(a, n, h)) = h
    BY ChildPlace
  <1>3. ASSUME NEW i \in 1..n - 1, Parent(i) = h
        PROVE  expire[a[Child(a, n, h)]] <= expire[a[i]]
    <2>1. i = 2 * h + 1 \/ (i = 2 * h + 1 + 1 /\ 2 * h + 1 < n - 1)
      <3>1. i \in Nat \ {0}
        OBVIOUS
      <3>2. 2 * h + 1 <= i /\ i <= 2 * h + 2
        BY <1>3, <3>1, ParentFacts
      <3>3. QED
        BY <3>1, <3>2
    <2>2. \A j \in 0..n - 1 : a[j] \in Object
      BY DEF Sinking
    <2>3. \A j \in 0..n - 1 : expire[a[j]] \in Int
      BY <2>2 DEF Sinking
    <2>4. i \in 0..n - 1 /\ 2 * h + 1 \in 0..n - 1
      OBVIOUS
    <2>5. QED
      BY <2>1, <2>3, <2>4 DEF Child
  <1>4. QED
    BY <1>1, <1>2, <1>3

(* The hole that the entry at the top goes to. *)
LEMMA SinkStops ==
    ASSUME NEW n \in Nat \ {0}, NEW a, Sinking(a, n), NEW h \in 0..n - 1,
           ~Descends(a, n, h), NEW g, g = [a EXCEPT ![h] = a[0]]
    PROVE  Sunk(g, a, n, h)
  <1>1. /\ \A i \in 0..n - 1 : a[i] \in Object
        /\ \A i, j \in 0..n - 1 : a[i] = a[j] => i = j
        /\ \A i \in 1..n - 1 : Parent(i) > 0 => expire[a[Parent(i)]] <= expire[a[i]]
    BY DEF Sinking
  <1>2. \A i \in 0..n - 1 : expire[a[i]] \in Int
    BY <1>1 DEF Sinking
  <1>3. \A i \in 0..n - 1 : g[i] = IF i = h THEN a[0] ELSE a[i]
    BY DEF Sinking
  <1>4. \A i \in h + 1..n - 1 : g[i] = a[i]
    BY <1>3
  <1>5. g[h] = a[0] /\ \A i \in 0..h - 1 : g[i] = a[i]
    BY <1>3
  <1>6. ASSUME NEW i \in h..n - 1, NEW j \in h..n - 1, g[i] = g[j] PROVE i = j
    <2>1. PICK b, c : b = (IF i = h THEN 0 ELSE i) /\ c = (IF j = h THEN 0 ELSE j)
      OBVIOUS
    <2>2. b \in 0..n - 1 /\ c \in 0..n - 1 /\ g[i] = a[b] /\ g[j] = a[c]
      BY <1>3, <2>1
    <2>3. b = c
      BY <1>1, <1>6, <2>2
    <2>4. QED
      BY <2>1, <2>3
  <1>7. ASSUME NEW i \in h..n - 1 PROVE i = h \/ i \in h + 1..n - 1
    OBVIOUS
  <1>8. \A i \in h..n - 1 : g[i] = a[0] \/ \E j \in h + 1..n - 1 : g[i] = a[j]
    BY <1>4, <1>5, <1>7
  <1>9. ASSUME NEW j \in h + 1..n - 1 PROVE j \in h..n - 1 /\ g[j] = a[j]
    BY <1>4
  <1>10. h \in h..n - 1
    OBVIOUS
  <1>11. ASSUME h = 0 \/ expire[a[h]] <= expire[a[0]], NEW i \in h..n - 1, i > 0
         PROVE  expire[a[i]] <= expire[g[i]]
    <2>1. CASE i = h
      BY <1>5, <1>11, <2>1
    <2>2. CASE i \in h + 1..n - 1
      <3>1. i \in 0..n - 1
        BY <2>2
      <3>2. QED
        BY <1>2, <1>4, <2>2, <3>1
    <2>3. QED
      BY <1>7, <2>1, <2>2
  <1>12. ASSUME NEW i \in h + 1..n - 1, Parent(i) >= h
         PROVE  expire[g[Parent(i)]] <= expire[g[i]]
    <2>1. i \in Nat \ {0} /\ i \in 1..n - 1 /\ i \in 0..n - 1
      OBVIOUS
    <2>2. Parent(i) \in Nat /\ Parent(i) < i /\ 2 * Parent(i) + 1 <= i
      BY <2>1, ParentFacts
    <2>3. CASE Parent(i) = h
      <3>1. 2 * h + 1 <= n - 1
        BY <2>1, <2>2, <2>3
      <3>2. /\ Child(a, n, h) \in h + 1..n - 1
            /\ expire[a[Child(a, n, h)]] <= expire[a[i]]
        BY <2>1, <2>3, <3>1, ChildFacts
      <3>3. PICK c \in 0..n - 1 : c = Child(a, n, h)
        BY <3>2
      <3>4. ~(expire[a[c]] < expire[a[0]])
        BY <3>1, <3>3 DEF Descends
      <3>5. expire[a[c]] \in Int /\ expire[a[0]] \in Int /\ expire[a[i]] \in Int
        BY <1>2, <2>1, <3>3
      <3>6. expire[a[0]] <= expire[a[i]]
        BY <3>2, <3>3, <3>4, <3>5
      <3>7. QED
        BY <1>4, <1>5, <2>3, <3>6
    <2>4. CASE Parent(i) > h
      <3>1. g[Parent(i)] = a[Parent(i)]
        BY <1>4, <2>1, <2>2, <2>4
      <3>2. QED
        BY <1>1, <1>4, <2>1, <2>2, <2>4, <3>1
    <2>5. QED
      BY <1>12, <2>2, <2>3, <2>4
  <1>13. QED
    BY <1>5, <1>6, <1>8, <1>9, <1>10, <1>11, <1>12 DEF Sunk

(* The child that comes up to the hole. *)
LEMMA SinkSteps ==
    ASSUME NEW n \in Nat \ {0}, NEW a, Sinking(a, n), NEW h \in 0..n - 1, Descends(a, n, h),
           NEW c, c = Child(a, n, h),
           NEW f, f \in [0..n - 1 -> Object], Sunk(f, a, n, c),
           NEW g, g = [f EXCEPT ![h] = a[c]]
    PROVE  Sunk(g, a, n, h)
  <1>0. 2 * h + 1 <= n - 1 /\ expire[a[c]] < expire[a[0]]
    BY DEF Descends
  <1>1. c \in h + 1..n - 1 /\ Parent(c) = h /\ c \in Nat \ {0} /\ c \in 0..n - 1
    <2>1. Child(a, n, h) \in h + 1..n - 1 /\ Parent(Child(a, n, h)) = h
      BY <1>0, ChildPlace
    <2>2. QED
      BY <2>1
  <1>2. /\ \A i \in 0..n - 1 : a[i] \in Object
        /\ \A i, j \in 0..n - 1 : a[i] = a[j] => i = j
        /\ \A i \in 1..n - 1 : Parent(i) > 0 => expire[a[Parent(i)]] <= expire[a[i]]
    BY DEF Sinking
  <1>3. \A i \in 0..n - 1 : expire[a[i]] \in Int
    BY <1>2 DEF Sinking
  <1>4. \A i \in 0..n - 1 : g[i] = (IF i = h THEN a[c] ELSE f[i]) /\ g[i] \in Object
    BY <1>1, <1>2
  <1>5. /\ \A i \in 0..c - 1 : f[i] = a[i]
        /\ \A i \in c..n - 1 : f[i] = a[0] \/ \E j \in c + 1..n - 1 : f[i] = a[j]
    BY DEF Sunk
  <1>6. g[h] = a[c]
    BY <1>4
  <1>7. \A i \in 0..c - 1 : i # h => g[i] = a[i]
    BY <1>1, <1>4, <1>5
  <1>8. \A i \in c..n - 1 : g[i] = f[i]
    BY <1>1, <1>4
  <1>9. ASSUME NEW i \in h..n - 1 PROVE i = h \/ i \in h + 1..c - 1 \/ i \in c..n - 1
    BY <1>1
  <1>10. ASSUME NEW i \in c..n - 1, NEW j \in 1..c PROVE g[i] # a[j]
    <2>1. g[i] = f[i] /\ j \in 0..n - 1
      BY <1>1, <1>8
    <2>2. CASE f[i] = a[0]
      <3>1. 0 \in 0..n - 1 /\ j # 0
        OBVIOUS
      <3>2. QED
        BY <1>2, <2>1, <2>2, <3>1
    <2>3. CASE \E k \in c + 1..n - 1 : f[i] = a[k]
      <3>1. PICK k \in c + 1..n - 1 : f[i] = a[k]
        BY <2>3
      <3>2. k \in 0..n - 1 /\ k # j
        BY <1>1, <3>1
      <3>3. QED
        BY <1>2, <2>1, <3>1, <3>2
    <2>4. QED
      BY <1>5, <2>2, <2>3
  <1>11. ASSUME NEW i \in h..n - 1, NEW j \in h..n - 1, g[i] = g[j] PROVE i = j
    <2>1. ASSUME NEW k \in h..c - 1
          PROVE  \E b \in 1..c : g[k] = a[b] /\ (b = IF k = h THEN c ELSE k)
      <3>1. CASE k = h
        BY <1>1, <1>6, <3>1
      <3>2. CASE k # h
        <4>1. k \in 1..c /\ k \in 0..c - 1
          BY <1>1, <3>2
        <4>2. QED
          BY <1>7, <3>2, <4>1
      <3>3. QED
        BY <3>1, <3>2
    <2>2. CASE i \in h..c - 1 /\ j \in h..c - 1
      <3>1. PICK b \in 1..c : g[i] = a[b] /\ (b = IF i = h THEN c ELSE i)
        BY <2>1, <2>2
      <3>2. PICK d \in 1..c : g[j] = a[d] /\ (d = IF j = h THEN c ELSE j)
        BY <2>1, <2>2
      <3>3. b \in 0..n - 1 /\ d \in 0..n - 1 /\ a[b] = a[d]
        BY <1>1, <1>11, <3>1, <3>2
      <3>4. b = d
        BY <1>2, <3>3
      <3>5. QED
        BY <1>1, <2>2, <3>1, <3>2, <3>4
    <2>3. CASE i \in h..c - 1 /\ j \in c..n - 1
      <3>1. PICK b \in 1..c : g[i] = a[b]
        BY <2>1, <2>3
      <3>2. QED
        BY <1>10, <1>11, <2>3, <3>1
    <2>4. CASE i \in c..n - 1 /\ j \in h..c - 1
      <3>1. PICK b \in 1..c : g[j] = a[b]
        BY <2>1, <2>4
      <3>2. QED
        BY <1>10, <1>11, <2>4, <3>1
    <2>5. CASE i \in c..n - 1 /\ j \in c..n - 1
      <3>1. f[i] = f[j]
        BY <1>8, <1>11, <2>5
      <3>2. QED
        BY <2>5, <3>1 DEF Sunk
    <2>6. \A k \in h..n - 1 : k \in h..c - 1 \/ k \in c..n - 1
      BY <1>1
    <2>7. QED
      BY <2>2, <2>3, <2>4, <2>5, <2>6
  <1>12. ASSUME NEW i \in h..n - 1 PROVE g[i] = a[0] \/ \E j \in h + 1..n - 1 : g[i] = a[j]
    <2>1. CASE i = h
      BY <1>1, <1>6, <2>1
    <2>2. CASE i \in h + 1..c - 1
      <3>1. i \in 0..c - 1 /\ i # h /\ i \in h + 1..n - 1
        BY <1>1, <2>2
      <3>2. QED
        BY <1>7, <3>1
    <2>3. CASE i \in c..n - 1
      <3>1. \A j \in c + 1..n - 1 : j \in h + 1..n - 1
        BY <1>1
      <3>2. QED
        BY <1>5, <1>8, <2>3, <3>1
    <2>4. QED
      BY <1>9, <2>1, <2>2, <2>3
  <1>13. ASSUME NEW j \in h + 1..n - 1 PROVE \E i \in h..n - 1 : g[i] = a[j]
    <2>1. CASE j = c
      <3>1. h \in h..n - 1
        OBVIOUS
      <3>2. QED
        BY <1>6, <2>1, <3>1
    <2>2. CASE j < c
      <3>1. j \in h..n - 1 /\ j \in 0..c - 1 /\ j # h
        BY <1>1, <2>2
      <3>2. QED
        BY <1>7, <3>1
    <2>3. CASE j > c
      <3>1. j \in c + 1..n - 1
        BY <1>1, <2>3
      <3>2. PICK i \in c..n - 1 : f[i] = a[j]
        BY <3>1 DEF Sunk
      <3>3. i \in h..n - 1 /\ g[i] = a[j]
        BY <1>1, <1>8, <3>2
      <3>4. QED
        BY <3>3
    <2>4. QED
      BY <1>1, <2>1, <2>2, <2>3
  <1>14. \E i \in h..n - 1 : g[i] = a[0]
    <2>1. PICK i \in c..n - 1 : f[i] = a[0]
      BY DEF Sunk
    <2>2. i \in h..n - 1 /\ g[i] = a[0]
      BY <1>1, <1>8, <2>1
    <2>3. QED
      BY <2>2
  <1>15. /\ \A i \in c..n - 1 : expire[a[i]] <= expire[f[i]]
         /\ \A i \in c + 1..n - 1 : Parent(i) >= c => expire[f[Parent(i)]] <= expire[f[i]]
    <2>1. expire[a[c]] <= expire[a[0]]
      <3>1. expire[a[c]] \in Int /\ expire[a[0]] \in Int
        BY <1>1, <1>3
      <3>2. QED
        BY <1>0, <3>1
    <2>2. \A i \in c..n - 1 : i > 0
      BY <1>1
    <2>3. QED
      BY <2>1, <2>2 DEF Sunk
  <1>16. ASSUME NEW i \in h + 1..n - 1 PROVE expire[a[i]] <= expire[g[i]]
    <2>1. CASE i \in h + 1..c - 1
      <3>1. i \in 0..c - 1 /\ i # h /\ i \in 0..n - 1
        BY <1>1, <2>1
      <3>2. QED
        BY <1>3, <1>7, <3>1
    <2>2. CASE i \in c..n - 1
      BY <1>8, <1>15, <2>2
    <2>3. QED
      BY <1>1, <2>1, <2>2
  <1>17. ASSUME NEW i \in h..n - 1, i > 0 PROVE expire[a[i]] <= expire[g[i]]
    <2>1. CASE i = h
      <3>1. c \in 1..n - 1 /\ Parent(c) > 0
        BY <1>1, <1>17, <2>1
      <3>2. QED
        BY <1>1, <1>2, <1>6, <2>1, <3>1
    <2>2. CASE i # h
      BY <1>16, <2>2
    <2>3. QED
      BY <2>1, <2>2
  <1>18. ASSUME NEW i \in h + 1..n - 1, Parent(i) >= h
         PROVE  expire[g[Parent(i)]] <= expire[g[i]]
    <2>1. i \in Nat \ {0} /\ i \in 1..n - 1 /\ i \in 0..n - 1
      OBVIOUS
    <2>2. Parent(i) \in Nat /\ Parent(i) < i
      BY <2>1, ParentFacts
    <2>3. expire[a[i]] <= expire[g[i]] /\ expire[a[i]] \in Int /\ expire[g[i]] \in Int
      <3>1. g[i] \in Object
        BY <1>4, <2>1
      <3>2. QED
        BY <1>3, <1>16, <2>1, <3>1 DEF Sinking
    <2>4. CASE Parent(i) = h
      <3>1. expire[a[c]] <= expire[a[i]]
        BY <1>0, <2>1, <2>4, ChildFacts
      <3>2. expire[a[c]] \in Int
        BY <1>1, <1>3
      <3>3. QED
        BY <1>6, <2>3, <2>4, <3>1, <3>2
    <2>5. CASE Parent(i) > h /\ Parent(i) < c
      <3>1. Parent(i) \in 0..c - 1 /\ Parent(i) # h /\ Parent(i) > 0 /\ Parent(i) \in 0..n - 1
        BY <1>1, <2>2, <2>5
      <3>2. g[Parent(i)] = a[Parent(i)] /\ expire[a[Parent(i)]] <= expire[a[i]]
        BY <1>2, <1>7, <2>1, <3>1
      <3>3. expire[a[Parent(i)]] \in Int
        BY <1>3, <3>1
      <3>4. QED
        BY <2>3, <3>2, <3>3
    <2>6. CASE Parent(i) >= c
      <3>1. Parent(i) \in c..n - 1 /\ i \in c + 1..n - 1 /\ i \in c..n - 1
        BY <1>1, <2>1, <2>2, <2>6
      <3>2. expire[f[Parent(i)]] <= expire[f[i]]
        BY <1>15, <2>6, <3>1
      <3>3. QED
        BY <1>8, <3>1, <3>2
    <2>7. QED
      BY <1>1, <1>18, <2>2, <2>4, <2>5, <2>6
  <1>19. \A i \in 0..h - 1 : g[i] = a[i]
    BY <1>1, <1>7
  <1>20. QED
    BY <1>11, <1>12, <1>13, <1>14, <1>17, <1>18, <1>19 DEF Sunk

LEMMA DownSinks ==
    ASSUME NEW n \in Nat \ {0}, NEW a, Sinking(a, n)
    PROVE  /\ Sunk(Heap!PercolateDown(a, n), a, n, 0)
           /\ Heap!PercolateDown(a, n) \in [0..n - 1 -> Object]
  <1>1. PICK down : DownLoop(down, a, n)
    <2>1. a \in [0..n - 1 -> Object]
      BY DEF Sinking
    <2>2. QED
      BY <2>1, DownEquation
  <1>2. PICK S, P, rank : /\ S = 0..n - 1 /\ P = {h \in 0..n - 1 : Sunk(down[h], a, n, h)}
                          /\ rank = [h \in 0..n - 1 |-> n - 1 - h]
    OBVIOUS
  <1>3. ASSUME NEW h \in S, \A k \in S : rank[k] < rank[h] => k \in P PROVE h \in P
    <2>0. h \in 0..n - 1
      BY <1>2
    <2>1. CASE Descends(a, n, h)
      <3>1. PICK c, f, g : c = Child(a, n, h) /\ f = down[c] /\ g = down[h]
        OBVIOUS
      <3>2. c \in S /\ rank[c] < rank[h]
        <4>1. 2 * h + 1 <= n - 1
          BY <2>1 DEF Descends
        <4>2. c \in h + 1..n - 1
          BY <2>0, <3>1, <4>1, ChildFacts
        <4>3. QED
          BY <1>2, <2>0, <4>2
      <3>3. Sunk(f, a, n, c) /\ f \in [0..n - 1 -> Object]
        BY <1>1, <1>2, <1>3, <3>1, <3>2 DEF DownLoop
      <3>4. g = [f EXCEPT ![h] = a[c]]
        BY <1>1, <2>0, <2>1, <3>1 DEF DownLoop
      <3>5. Sunk(g, a, n, h)
        BY <2>0, <2>1, <3>1, <3>3, <3>4, SinkSteps, Zenon
      <3>6. QED
        BY <1>2, <2>0, <3>1, <3>5
    <2>2. CASE ~Descends(a, n, h)
      <3>1. PICK g : g = [a EXCEPT ![h] = a[0]]
        OBVIOUS
      <3>2. Sunk(g, a, n, h)
        BY <2>0, <2>2, <3>1, SinkStops, Zenon
      <3>3. down[h] = g
        BY <1>1, <2>0, <2>2, <3>1 DEF DownLoop
      <3>4. QED
        BY <1>2, <2>0, <3>2, <3>3
    <2>3. QED
      BY <2>1, <2>2
  <1>4. S \subseteq P
    <2>1. \A h \in S : rank[h] \in Nat
      BY <1>2
    <2>2. QED
      BY <1>3, <2>1, RankInduction
  <1>5. 0 \in S
    BY <1>2
  <1>6. QED
    BY <1>1, <1>2, <1>4, <1>5 DEF DownLoop

-------------------------------------------------------------------------------
(* pop_timer and tick. *)

(* The first n entries of a are a heap, and no timer is there twice. *)
Heaped(a, n, e) ==
    /\ a \in [0..n - 1 -> Object] /\ e \in [Object -> Int]
    /\ \A i, j \in 0..n - 1 : a[i] = a[j] => i = j
    /\ Ordered(a, n, e)

(* The entries of b are those of a, but for the first. *)
Popped(a, n, b) ==
    /\ \A i \in 0..n - 2 : \E j \in 1..n - 1 : b[i] = a[j]
    /\ \A j \in 1..n - 1 : \E i \in 0..n - 2 : b[i] = a[j]

LEMMA PopFacts ==
    ASSUME NEW n \in Nat \ {0}, NEW a, Heaped(a, n, expire),
           NEW b, b = Heap!Pop(a, n)
    PROVE  Heaped(b, n - 1, expire) /\ Popped(a, n, b)
  <1>1. PICK c, m : m = n - 1 /\ c = [i \in 0..n - 2 |-> IF i = 0 THEN a[n - 1] ELSE a[i]]
    OBVIOUS
  <1>2. m \in Nat /\ 0..n - 2 = 0..m - 1 /\ b = Heap!PercolateDown(c, m)
    BY <1>1 DEF Heap!Pop
  <1>3. /\ \A i \in 0..n - 1 : a[i] \in Object
        /\ \A i, j \in 0..n - 1 : a[i] = a[j] => i = j
        /\ \A i \in 1..n - 1 : expire[a[Parent(i)]] <= expire[a[i]]
        /\ expire \in [Object -> Int]
    BY DEF Heaped, Ordered
  <1>4. CASE m = 0
    <2>1. b = << >>
      BY <1>2, <1>4 DEF Heap!PercolateDown
    <2>2. 0..m - 1 = {} /\ 1..m - 1 = {} /\ 0..n - 2 = {} /\ 1..n - 1 = {}
      BY <1>1, <1>4
    <2>3. b \in [0..m - 1 -> Object]
      BY <2>1, <2>2
    <2>4. Heaped(b, m, expire)
      BY <1>3, <2>2, <2>3 DEF Heaped, Ordered
    <2>5. Popped(a, n, b)
      BY <2>2 DEF Popped
    <2>6. QED
      BY <1>1, <2>4, <2>5
  <1>5. CASE m # 0
    <2>1. m \in Nat \ {0} /\ 0 \in 0..m - 1
      BY <1>2, <1>5
    <2>2. /\ \A i \in 0..m - 1 : c[i] = (IF i = 0 THEN a[m] ELSE a[i]) /\ c[i] \in Object
          /\ c \in [0..m - 1 -> Object]
      BY <1>1, <1>2, <1>3
    <2>3. ASSUME NEW i \in 0..m - 1, NEW j \in 0..m - 1, c[i] = c[j] PROVE i = j
      <3>1. PICK k, l : k = (IF i = 0 THEN m ELSE i) /\ l = (IF j = 0 THEN m ELSE j)
        OBVIOUS
      <3>2. k \in 0..n - 1 /\ l \in 0..n - 1 /\ c[i] = a[k] /\ c[j] = a[l]
        BY <1>1, <2>2, <3>1
      <3>3. k = l
        BY <1>3, <2>3, <3>2
      <3>4. QED
        BY <1>2, <3>1, <3>3
    <2>4. ASSUME NEW i \in 1..m - 1, Parent(i) > 0 PROVE expire[c[Parent(i)]] <= expire[c[i]]
      <3>1. i \in Nat \ {0} /\ i \in 0..m - 1 /\ i \in 1..n - 1
        BY <1>1, <1>2
      <3>2. Parent(i) \in Nat /\ Parent(i) < i
        BY <3>1, ParentFacts
      <3>3. Parent(i) \in 0..m - 1
        BY <1>2, <3>1, <3>2
      <3>4. c[i] = a[i] /\ c[Parent(i)] = a[Parent(i)]
        BY <2>2, <2>4, <3>1, <3>3
      <3>5. QED
        BY <1>3, <3>1, <3>4
    <2>5. Sinking(c, m)
      BY <1>3, <2>2, <2>3, <2>4 DEF Sinking
    <2>6. Sunk(b, c, m, 0) /\ b \in [0..m - 1 -> Object]
      BY <1>2, <2>1, <2>5, DownSinks
    <2>7. /\ \A i, j \in 0..m - 1 : b[i] = b[j] => i = j
          /\ \A i \in 0..m - 1 : b[i] = c[0] \/ \E j \in 1..m - 1 : b[i] = c[j]
          /\ \A j \in 1..m - 1 : \E i \in 0..m - 1 : b[i] = c[j]
          /\ \E i \in 0..m - 1 : b[i] = c[0]
          /\ \A i \in 1..m - 1 : Parent(i) >= 0 => expire[b[Parent(i)]] <= expire[b[i]]
      <3>1. 0 + 1 = 1
        OBVIOUS
      <3>2. QED
        BY <2>6, <3>1 DEF Sunk
    <2>8. Ordered(b, m, expire)
      <3>1. ASSUME NEW i \in 1..m - 1 PROVE expire[b[Parent(i)]] <= expire[b[i]]
        <4>1. i \in Nat \ {0}
          OBVIOUS
        <4>2. Parent(i) \in Nat
          BY <4>1, ParentFacts
        <4>3. QED
          BY <2>7, <4>2
      <3>2. QED
        BY <3>1 DEF Ordered
    <2>9. Heaped(b, m, expire)
      BY <1>3, <2>6, <2>7, <2>8 DEF Heaped
    <2>10. ASSUME NEW i \in 0..n - 2 PROVE \E j \in 1..n - 1 : b[i] = a[j]
      <3>1. i \in 0..m - 1
        BY <1>2
      <3>2. CASE b[i] = c[0]
        BY <1>1, <2>1, <2>2, <3>2
      <3>3. CASE \E j \in 1..m - 1 : b[i] = c[j]
        <4>1. PICK j \in 1..m - 1 : b[i] = c[j]
          BY <3>3
        <4>2. j \in 1..n - 1 /\ c[j] = a[j]
          BY <1>1, <1>2, <2>2, <4>1
        <4>3. QED
          BY <4>1, <4>2
      <3>4. QED
        BY <2>7, <3>1, <3>2, <3>3
    <2>11. ASSUME NEW j \in 1..n - 1 PROVE \E i \in 0..n - 2 : b[i] = a[j]
      <3>1. CASE j = m
        BY <1>2, <2>1, <2>2, <2>7, <3>1
      <3>2. CASE j # m
        <4>1. j \in 1..m - 1 /\ j \in 0..m - 1
          BY <1>1, <3>2
        <4>2. c[j] = a[j]
          BY <2>2, <4>1
        <4>3. QED
          BY <1>2, <2>7, <4>1, <4>2
      <3>3. QED
        BY <3>1, <3>2
    <2>12. QED
      BY <1>1, <2>9, <2>10, <2>11 DEF Popped
  <1>6. QED
    BY <1>4, <1>5

(* Nothing in a heap expires before the top. *)
LEMMA TopIsLeast ==
    ASSUME NEW n \in Nat, NEW a, NEW e, Heaped(a, n, e)
    PROVE  \A i \in 0..n - 1 : e[a[0]] <= e[a[i]]
  <1>1. PICK S, P, rank : /\ S = 0..n - 1 /\ P = {i \in 0..n - 1 : e[a[0]] <= e[a[i]]}
                          /\ rank = [i \in 0..n - 1 |-> i]
    OBVIOUS
  <1>2. ASSUME NEW i \in S PROVE a[i] \in Object /\ e[a[i]] \in Int
    <2>1. a[i] \in Object
      BY <1>1 DEF Heaped
    <2>2. QED
      BY <2>1 DEF Heaped
  <1>3. ASSUME NEW i \in S, \A j \in S : rank[j] < rank[i] => j \in P PROVE i \in P
    <2>1. CASE i = 0
      BY <1>1, <1>2, <2>1
    <2>2. CASE i # 0
      <3>1. i \in Nat \ {0} /\ i \in 1..n - 1
        BY <1>1, <2>2
      <3>2. Parent(i) \in Nat /\ Parent(i) < i
        BY <3>1, ParentFacts
      <3>3. Parent(i) \in S /\ rank[Parent(i)] < rank[i] /\ 0 \in S
        BY <1>1, <3>1, <3>2
      <3>4. e[a[0]] <= e[a[Parent(i)]]
        BY <1>1, <1>3, <3>3
      <3>5. e[a[Parent(i)]] <= e[a[i]]
        BY <3>1 DEF Heaped, Ordered
      <3>6. e[a[0]] \in Int /\ e[a[Parent(i)]] \in Int /\ e[a[i]] \in Int
        BY <1>2, <3>3
      <3>7. QED
        BY <1>1, <3>4, <3>5, <3>6
    <2>3. QED
      BY <2>1, <2>2
  <1>4. \A i \in S : rank[i] \in Nat
    BY <1>1
  <1>5. S \subseteq P
    BY <1>3, <1>4, RankInduction
  <1>6. QED
    BY <1>1, <1>5

(* What tick leaves of the array after each timer it pops. *)
AfterLoop(after) ==
    after[0] = array /\ \A k \in 1..cur_size : after[k] = Heap!Pop(after[k - 1], cur_size - k + 1)

(* Tick, in terms of those arrays. *)
TickFrom(after, n, popped) ==
    /\ AfterLoop(after) /\ n \in 0..cur_size
    /\ n = cur_size \/ expire[after[n][0]] > 0
    /\ \A k \in 0..n - 1 : ~(expire[after[k][0]] > 0)
    /\ popped = [k \in 1..n |-> after[k - 1][0]]
    /\ array' = after[n] /\ cur_size' = cur_size - n /\ capacity' = capacity
    /\ heapFired' = SelectIn(popped, cb_func)
    /\ cb_func' = cb_func \ ToSet(popped)
    /\ expire' = [t \in Object |-> IF t \in ToSet(popped) THEN 0 ELSE expire[t]]

(* Repeated popping takes its heap from each heap in turn. *)
LEMMA AfterEquation ==
    ASSUME cur_size \in Nat, Heaped(array, cur_size, expire)
    PROVE  \E f : f = [k \in 0..cur_size |->
                         IF k = 0 THEN array ELSE Heap!Pop(f[k - 1], cur_size - k + 1)]
  <1> DEFINE Heaps == {v \in UNION {[0..m - 1 -> Object] : m \in Nat} : \E m \in Nat : Heaped(v, m, expire)}
             S == 0..cur_size
             Ends == {0}
             next == [k \in S |-> k - 1]
             rank == [k \in S |-> k]
             base == [k \in S |-> array]
             step == [p \in (S \ Ends) \X Heaps |->
                        IF Heaped(p[2], cur_size - p[1] + 1, expire)
                        THEN Heap!Pop(p[2], cur_size - p[1] + 1) ELSE array]
  <1>1. ASSUME NEW m \in Nat, NEW v, Heaped(v, m, expire) PROVE v \in Heaps
    BY <1>1 DEF Heaped
  <1>2. array \in Heaps
    BY <1>1
  <1>3. \A k \in S \ Ends : /\ next[k] \in S /\ rank[next[k]] < rank[k] /\ next[k] = k - 1
                            /\ cur_size - k + 1 \in Nat \ {0}
                            /\ (cur_size - k + 1) - 1 = cur_size - k /\ cur_size - k \in Nat
    OBVIOUS
  <1>4. \A k \in S \cap Ends : base[k] = array
    OBVIOUS
  <1>5. \A k \in S : rank[k] \in 0..cur_size /\ rank[k] \in Nat
    OBVIOUS
  <1> HIDE DEF Heaps
  <1>6. \A k \in S \ Ends : \A v \in Heaps :
            step[<<k, v>>] = IF Heaped(v, cur_size - k + 1, expire)
                             THEN Heap!Pop(v, cur_size - k + 1) ELSE array
    OBVIOUS
  <1> HIDE DEF S, Ends, next, rank, base, step
  <1>7. ASSUME NEW k \in S \ Ends, NEW v \in Heaps PROVE step[<<k, v>>] \in Heaps
    <2>1. CASE Heaped(v, cur_size - k + 1, expire)
      <3>1. Heaped(Heap!Pop(v, cur_size - k + 1), (cur_size - k + 1) - 1, expire)
        BY <1>3, <2>1, PopFacts
      <3>2. Heap!Pop(v, cur_size - k + 1) \in Heaps
        BY <1>1, <1>3, <3>1
      <3>3. QED
        BY <1>6, <2>1, <3>2
    <2>2. CASE ~Heaped(v, cur_size - k + 1, expire)
      BY <1>2, <1>6, <2>2
    <2>3. QED
      BY <2>1, <2>2
  <1>8. PICK f \in [S -> Heaps] :
            \A k \in S : f[k] = IF k \in Ends THEN base[k] ELSE step[<<k, f[next[k]]>>]
    <2>1. Paths(S, Heaps, Ends, cur_size, rank, next, base, step)
      BY <1>2, <1>3, <1>4, <1>5, <1>7 DEF Paths
    <2>2. QED
      BY <2>1, PathRecursion
  <1> DEFINE P == {k \in S : /\ Heaped(f[k], cur_size - k, expire)
                             /\ f[k] = IF k = 0 THEN array ELSE Heap!Pop(f[k - 1], cur_size - k + 1)}
  <1>9. ASSUME NEW k \in S, \A l \in S : rank[l] < rank[k] => l \in P PROVE k \in P
    <2>1. CASE k = 0
      <3>1. f[k] = array
        BY <1>4, <1>8, <2>1 DEF Ends, S
      <3>2. QED
        BY <2>1, <3>1
    <2>2. CASE k # 0
      <3>1. k \in S \ Ends
        BY <2>2 DEF Ends
      <3>2. k - 1 \in P /\ next[k] = k - 1
        BY <1>3, <1>9, <3>1
      <3>3. cur_size - (k - 1) = cur_size - k + 1
        BY <3>1 DEF S
      <3>4. Heaped(f[k - 1], cur_size - k + 1, expire) /\ f[k - 1] \in Heaps
        BY <3>2, <3>3
      <3>5. f[k] = Heap!Pop(f[k - 1], cur_size - k + 1)
        BY <1>6, <1>8, <3>1, <3>2, <3>4
      <3>6. Heaped(f[k], (cur_size - k + 1) - 1, expire)
        BY <1>3, <3>1, <3>4, <3>5, PopFacts
      <3>7. QED
        BY <1>3, <2>2, <3>1, <3>5, <3>6
    <2>3. QED
      BY <2>1, <2>2
  <1> HIDE DEF P
  <1>10. S \subseteq P
    BY <1>5, <1>9, RankInduction
  <1>11. f = [k \in 0..cur_size |->
                IF k = 0 THEN array ELSE Heap!Pop(f[k - 1], cur_size - k + 1)]
    BY <1>8, <1>10 DEF P, S
  <1>12. QED
    BY <1>11

LEMMA TickEquation ==
    ASSUME cur_size \in Nat, Heaped(array, cur_size, expire), Heap!Tick
    PROVE  \E after, n, popped : TickFrom(after, n, popped)
  <1>1. PICK after, n :
            /\ after = [k \in 0..cur_size |->
                          IF k = 0 THEN array ELSE Heap!Pop(after[k - 1], cur_size - k + 1)]
            /\ n = Heap!Min({k \in 0..cur_size : k = cur_size \/ expire[after[k][0]] > 0})
            /\ array' = after[n] /\ cur_size' = cur_size - n /\ capacity' = capacity
            /\ heapFired' = Heap!SelectIn([k \in 1..n |-> after[k - 1][0]], cb_func)
            /\ cb_func' = cb_func \ Heap!Range([k \in 1..n |-> after[k - 1][0]])
            /\ expire' = [t \in Object |-> IF t \in Heap!Range([k \in 1..n |-> after[k - 1][0]])
                                           THEN 0 ELSE expire[t]]
    BY AfterEquation, Zenon DEF Heap!Tick
  <1>2. PICK popped : popped = [k \in 1..n |-> after[k - 1][0]]
    OBVIOUS
  <1>3. AfterLoop(after)
    <2>1. \A k \in 0..cur_size :
              after[k] = IF k = 0 THEN array ELSE Heap!Pop(after[k - 1], cur_size - k + 1)
      BY <1>1, Zenon
    <2>2. 0 \in 0..cur_size /\ \A k \in 1..cur_size : k \in 0..cur_size /\ k # 0
      OBVIOUS
    <2>3. QED
      BY <2>1, <2>2, Zenon DEF AfterLoop
  <1>4. PICK Stops : Stops = {k \in 0..cur_size : k = cur_size \/ expire[after[k][0]] > 0}
    OBVIOUS
  <1>5. Stops \in SUBSET Nat /\ Stops # {}
    BY <1>4
  <1>6. n = Min(Stops)
    BY <1>1, <1>4, Zenon DEF Heap!Min, Min
  <1>7. n \in Stops /\ \A k \in Stops : n <= k
    BY <1>5, <1>6, MinIsLeast
  <1>8. n \in 0..cur_size /\ (n = cur_size \/ expire[after[n][0]] > 0)
    BY <1>4, <1>7
  <1>9. ASSUME NEW k \in 0..n - 1 PROVE ~(expire[after[k][0]] > 0)
    <2>1. k \in 0..cur_size /\ ~(n <= k)
      BY <1>8
    <2>2. k \notin Stops
      BY <1>7, <2>1
    <2>3. QED
      BY <1>4, <2>1, <2>2
  <1>10. Heap!SelectIn(popped, cb_func) = SelectIn(popped, cb_func)
    BY Zenon DEF Heap!SelectIn, SelectIn
  <1>11. Heap!Range(popped) = ToSet(popped)
    BY Zenon DEF Heap!Range, ToSet
  <1>12. /\ array' = after[n] /\ cur_size' = cur_size - n /\ capacity' = capacity
         /\ heapFired' = Heap!SelectIn(popped, cb_func)
         /\ cb_func' = cb_func \ Heap!Range(popped)
         /\ expire' = [t \in Object |-> IF t \in Heap!Range(popped) THEN 0 ELSE expire[t]]
    BY <1>1, <1>2, Zenon
  <1>13. TickFrom(after, n, popped)
    BY <1>2, <1>3, <1>8, <1>9, <1>10, <1>11, <1>12 DEF TickFrom
  <1>14. QED
    BY <1>13

(* After k pops: what the k popped timers and the heap that is left make of
   the timers held. *)
Taken(after, k) ==
    /\ Heaped(after[k], cur_size - k, expire)
    /\ \A i \in 0..cur_size - k - 1 : after[k][i] \in Heap!Held
    /\ \A l \in 0..k - 1 : /\ after[l][0] \in Heap!Held
                           /\ \A i \in 0..cur_size - k - 1 :
                                 /\ after[k][i] # after[l][0]
                                 /\ expire[after[l][0]] <= expire[after[k][i]]
    /\ \A l, m \in 0..k - 1 : l < m => /\ after[l][0] # after[m][0]
                                       /\ expire[after[l][0]] <= expire[after[m][0]]
    /\ \A t \in Heap!Held : \/ \E l \in 0..k - 1 : after[l][0] = t
                            \/ \E i \in 0..cur_size - k - 1 : after[k][i] = t

LEMMA AfterFacts ==
    ASSUME cur_size \in Nat, Heaped(array, cur_size, expire), NEW after, AfterLoop(after)
    PROVE  \A k \in 0..cur_size : Taken(after, k)
  <1>1. PICK S, P, rank : S = 0..cur_size /\ P = {k \in 0..cur_size : Taken(after, k)}
                          /\ rank = [k \in 0..cur_size |-> k]
    OBVIOUS
  <1>2. Taken(after, 0)
    <2>1. after[0] = array /\ cur_size - 0 = cur_size /\ 0..0 - 1 = {}
      BY DEF AfterLoop
    <2>2. QED
      BY <2>1 DEF Taken, Heap!Held
  <1>3. ASSUME NEW k \in 1..cur_size, Taken(after, k - 1) PROVE Taken(after, k)
    <2>1. PICK m, a, b, top : /\ m = cur_size - k + 1 /\ a = after[k - 1] /\ b = after[k]
                              /\ top = a[0]
      OBVIOUS
    <2>2. /\ m \in Nat \ {0} /\ cur_size - (k - 1) = m /\ cur_size - k = m - 1
          /\ cur_size - (k - 1) - 1 = m - 1 /\ cur_size - k - 1 = m - 2
          /\ 0 \in 0..m - 1
      BY <2>1
    <2>3. /\ Heaped(a, m, expire)
          /\ \A i \in 0..m - 1 : a[i] \in Heap!Held
          /\ \A l \in 0..k - 2 : /\ after[l][0] \in Heap!Held
                                 /\ \A i \in 0..m - 1 : /\ a[i] # after[l][0]
                                                        /\ expire[after[l][0]] <= expire[a[i]]
          /\ \A l, j \in 0..k - 2 : l < j => /\ after[l][0] # after[j][0]
                                             /\ expire[after[l][0]] <= expire[after[j][0]]
          /\ \A t \in Heap!Held : \/ \E l \in 0..k - 2 : after[l][0] = t
                                  \/ \E i \in 0..m - 1 : a[i] = t
      <3>1. k - 1 - 1 = k - 2
        OBVIOUS
      <3>2. QED
        BY <1>3, <2>1, <2>2, <3>1, Zenon DEF Taken
    <2>4. b = Heap!Pop(a, m)
      BY <2>1 DEF AfterLoop
    <2>5. Heaped(b, m - 1, expire) /\ Popped(a, m, b)
      BY <2>2, <2>3, <2>4, PopFacts
    <2>6. \A i \in 0..m - 1 : expire[top] <= expire[a[i]]
      BY <2>1, <2>2, <2>3, TopIsLeast
    <2>7. /\ \A i \in 0..m - 2 : \E j \in 1..m - 1 : b[i] = a[j]
          /\ \A j \in 1..m - 1 : \E i \in 0..m - 2 : b[i] = a[j]
      BY <2>5 DEF Popped
    <2>8. \A i \in 1..m - 1 : i \in 0..m - 1 /\ a[i] # top
      BY <2>1, <2>2, <2>3 DEF Heaped
    <2>9. \A l \in 0..k - 1 : l \in 0..k - 2 \/ (l = k - 1 /\ after[l][0] = top)
      <3>1. \A l \in 0..k - 1 : l \in 0..k - 2 \/ l = k - 1
        OBVIOUS
      <3>2. after[k - 1][0] = top
        BY <2>1
      <3>3. ASSUME NEW l \in 0..k - 1, l = k - 1 PROVE after[l][0] = top
        BY <3>2, <3>3, Zenon
      <3>4. QED
        BY <3>1, <3>3
    <2>10. ASSUME NEW i \in 0..m - 2
           PROVE  /\ b[i] \in Heap!Held
                  /\ \A l \in 0..k - 1 : b[i] # after[l][0] /\ expire[after[l][0]] <= expire[b[i]]
      <3>1. PICK j \in 1..m - 1 : b[i] = a[j]
        BY <2>7
      <3>2. QED
        BY <2>3, <2>6, <2>8, <2>9, <3>1
    <2>11. \A l \in 0..k - 1 : after[l][0] \in Heap!Held
      BY <2>1, <2>2, <2>3, <2>9
    <2>12. ASSUME NEW l \in 0..k - 1, NEW j \in 0..k - 1, l < j
           PROVE  after[l][0] # after[j][0] /\ expire[after[l][0]] <= expire[after[j][0]]
      <3>1. l \in 0..k - 2
        BY <2>12
      <3>2. CASE j \in 0..k - 2
        BY <2>3, <2>12, <3>1, <3>2
      <3>3. CASE after[j][0] = top
        BY <2>1, <2>2, <2>3, <3>1, <3>3
      <3>4. QED
        BY <2>9, <3>2, <3>3
    <2>13. ASSUME NEW t \in Heap!Held
           PROVE  \/ \E l \in 0..k - 1 : after[l][0] = t
                  \/ \E i \in 0..m - 2 : b[i] = t
      <3>1. k - 1 \in 0..k - 1 /\ \A l \in 0..k - 2 : l \in 0..k - 1
        OBVIOUS
      <3>2. CASE \E l \in 0..k - 2 : after[l][0] = t
        BY <3>1, <3>2
      <3>3. CASE \E i \in 0..m - 1 : a[i] = t
        <4>1. PICK i \in 0..m - 1 : a[i] = t
          BY <3>3
        <4>2. i = 0 \/ i \in 1..m - 1
          BY <2>2
        <4>3. QED
          BY <2>1, <2>7, <3>1, <4>1, <4>2
      <3>4. QED
        BY <2>3, <3>2, <3>3
    <2>14. QED
      BY <2>1, <2>2, <2>5, <2>10, <2>11, <2>12, <2>13 DEF Taken
  <1>4. ASSUME NEW k \in S, \A l \in S : rank[l] < rank[k] => l \in P PROVE k \in P
    <2>1. CASE k = 0
      BY <1>1, <1>2, <2>1
    <2>2. CASE k # 0
      <3>1. k \in 1..cur_size /\ k - 1 \in S /\ rank[k - 1] < rank[k]
        BY <1>1, <2>2
      <3>2. Taken(after, k - 1)
        BY <1>1, <1>4, <3>1
      <3>3. QED
        BY <1>1, <1>3, <3>1, <3>2
    <2>3. QED
      BY <2>1, <2>2
  <1>5. \A k \in S : rank[k] \in Nat
    BY <1>1
  <1>6. S \subseteq P
    BY <1>4, <1>5, RankInduction
  <1>7. QED
    BY <1>1, <1>6
-------------------------------------------------------------------------------
(* The heap's inductive invariant. *)

HeapInv ==
    /\ cur_size \in Nat /\ capacity \in Nat \ {0} /\ cur_size <= capacity
    /\ Heaped(array, cur_size, expire)
    /\ heapFired # << >> => \A t \in Heap!Held : expire[t] > 0

LEMMA HeapInitOK ==
    ASSUME Heap!ConstantsOK, Heap!Init
    PROVE  HeapInv
  <1>1. /\ array = << >> /\ cur_size = 0 /\ capacity = Cap /\ heapFired = << >>
        /\ expire = [t \in Object |-> 0] /\ Cap \in Nat \ {0}
    BY DEF Heap!Init, Heap!ConstantsOK
  <1>2. 0..cur_size - 1 = {} /\ 1..cur_size - 1 = {}
    BY <1>1
  <1>3. array \in [0..cur_size - 1 -> Object]
    BY <1>1, <1>2
  <1>4. Heaped(array, cur_size, expire)
    BY <1>1, <1>2, <1>3 DEF Heaped, Ordered
  <1>5. QED
    BY <1>1, <1>4 DEF HeapInv

(* A heap stays one while time passes for all of its entries alike. *)
LEMMA HeapedAnew ==
    ASSUME NEW a, NEW n \in Nat, NEW e, Heaped(a, n, e), NEW d \in [Object -> Int],
           \A i, j \in 0..n - 1 : e[a[i]] <= e[a[j]] => d[a[i]] <= d[a[j]]
    PROVE  Heaped(a, n, d)
  <1>1. ASSUME NEW i \in 1..n - 1 PROVE d[a[Parent(i)]] <= d[a[i]]
    <2>1. i \in Nat \ {0} /\ i \in 0..n - 1
      OBVIOUS
    <2>2. Parent(i) \in Nat /\ Parent(i) < i
      BY <2>1, ParentFacts
    <2>3. Parent(i) \in 0..n - 1
      BY <2>1, <2>2
    <2>4. e[a[Parent(i)]] <= e[a[i]]
      BY DEF Heaped, Ordered
    <2>5. QED
      BY <2>1, <2>3, <2>4
  <1>2. QED
    BY <1>1 DEF Heaped, Ordered

LEMMA AddFacts ==
    ASSUME HeapInv, NEW t \in Object, NEW d \in 0..MaxDelay, Heap!AddTimer(t, d)
    PROVE  HeapInv' /\ Heap!Held' = Heap!Held \cup {t}
  <1>1. PICK e, n, b : /\ e = [expire EXCEPT ![t] = d] /\ n = cur_size
                       /\ b = Heap!PercolateUp(n, t, e)
    OBVIOUS
  <1>2. /\ t \notin Heap!Held /\ expire' = e /\ array' = b /\ cur_size' = n + 1
        /\ capacity' = (IF cur_size >= capacity THEN 2 * capacity ELSE capacity)
        /\ heapFired' = << >>
    BY <1>1 DEF Heap!AddTimer
  <1>3. /\ n \in Nat /\ capacity \in Nat \ {0} /\ n <= capacity
        /\ array \in [0..n - 1 -> Object] /\ expire \in [Object -> Int]
        /\ \A i, j \in 0..n - 1 : array[i] = array[j] => i = j
        /\ Heaped(array, n, expire)
    BY <1>1 DEF HeapInv, Heaped
  <1>4. e \in [Object -> Int] /\ \A s \in Object : s # t => e[s] = expire[s]
    <2>1. d \in Int
      OBVIOUS
    <2>2. QED
      BY <1>1, <1>3, <2>1
  <1>5. Heap!Held = {array[i] : i \in 0..n - 1}
    BY <1>1 DEF Heap!Held
  <1>6. \A i \in 0..n - 1 : array[i] # t /\ e[array[i]] = expire[array[i]]
    BY <1>2, <1>3, <1>4, <1>5
  <1>7. Ordered(array, n, e)
    <2>1. Heaped(array, n, e)
      BY <1>3, <1>4, <1>6, HeapedAnew
    <2>2. QED
      BY <2>1 DEF Heaped
  <1>8. Settling(n, t, e)
    BY <1>3, <1>4, <1>6, <1>7 DEF Settling
  <1>9. Sifted(b, n, t, e, n) /\ b \in [0..n -> Object]
    BY <1>1, <1>3, <1>8, UpSifts
  <1>10. /\ \A i, j \in 0..n : b[i] = b[j] => i = j
         /\ \A i \in 0..n : b[i] = t \/ \E j \in 0..n - 1 : b[i] = array[j]
         /\ \A j \in 0..n - 1 : \E i \in 0..n : b[i] = array[j]
         /\ \E i \in 0..n : b[i] = t
         /\ \A i \in 1..n : e[b[Parent(i)]] <= e[b[i]]
    BY <1>9, Zenon DEF Sifted
  <1>11. (n + 1) - 1 = n /\ n + 1 \in Nat
    BY <1>3
  <1>12. Heaped(b, n + 1, e)
    BY <1>4, <1>9, <1>10, <1>11 DEF Heaped, Ordered
  <1>13. Heap!Held' = {b[i] : i \in 0..n}
    BY <1>2, <1>11 DEF Heap!Held
  <1>14. Heap!Held' = Heap!Held \cup {t}
    BY <1>5, <1>10, <1>13
  <1>15. capacity' \in Nat \ {0} /\ n + 1 <= capacity'
    BY <1>1, <1>2, <1>3
  <1>16. QED
    BY <1>2, <1>11, <1>12, <1>14, <1>15 DEF HeapInv

LEMMA DelFacts ==
    ASSUME HeapInv, NEW t \in Object, Heap!DelTimer(t)
    PROVE  HeapInv' /\ Heap!Held' = Heap!Held /\ expire' = expire
  <1>1. /\ array' = array /\ cur_size' = cur_size /\ capacity' = capacity
        /\ expire' = expire /\ heapFired' = << >>
    BY DEF Heap!DelTimer
  <1>2. QED
    BY <1>1 DEF HeapInv, Heaped, Ordered, Heap!Held

LEMMA HeapElapseFacts ==
    ASSUME HeapInv, Heap!Elapse
    PROVE  /\ HeapInv' /\ Heap!Held' = Heap!Held
           /\ \A t \in Heap!Held : t \in Object /\ expire[t] \in Int /\ expire'[t] = expire[t] - 1
  <1>1. /\ array' = array /\ cur_size' = cur_size /\ capacity' = capacity
        /\ expire' = [t \in Object |-> IF t \in Heap!Held THEN expire[t] - 1 ELSE expire[t]]
        /\ heapFired' = << >>
    BY DEF Heap!Elapse
  <1>2. Heap!Held' = Heap!Held
    BY <1>1 DEF Heap!Held
  <1>3. /\ cur_size \in Nat /\ array \in [0..cur_size - 1 -> Object]
        /\ expire \in [Object -> Int] /\ Heaped(array, cur_size, expire)
    BY DEF HeapInv, Heaped
  <1>4. expire' \in [Object -> Int]
    BY <1>1, <1>3
  <1>5. \A i \in 0..cur_size - 1 :
            /\ array[i] \in Object /\ expire[array[i]] \in Int
            /\ expire'[array[i]] = expire[array[i]] - 1
    BY <1>1, <1>3 DEF Heap!Held
  <1>6. \A i, j \in 0..cur_size - 1 :
            expire[array[i]] <= expire[array[j]] => expire'[array[i]] <= expire'[array[j]]
    BY <1>5
  <1>7. Heaped(array, cur_size, expire')
    BY <1>3, <1>4, <1>6, HeapedAnew
  <1>8. Heaped(array, cur_size, expire)'
    BY <1>1, <1>7 DEF Heaped, Ordered
  <1>9. HeapInv'
    BY <1>1, <1>8 DEF HeapInv
  <1>10. QED
    BY <1>2, <1>5, <1>9 DEF Heap!Held

(* A tick, in terms of the timers it pops: all that are due and no other, the
   earliest first. *)
TickDoes(popped, n) ==
    /\ n \in Nat /\ popped \in Seq(Object) /\ Len(popped) = n /\ IsInjective(popped)
    /\ ToSet(popped) = {t \in Heap!Held : expire[t] <= 0}
    /\ \A k, l \in 1..n : k < l => expire[popped[k]] <= expire[popped[l]]
    /\ Heap!Held' = Heap!Held \ ToSet(popped)
    /\ heapFired' = SelectIn(popped, cb_func)
    /\ cb_func' = cb_func \ ToSet(popped)
    /\ \A t \in Heap!Held' : expire'[t] = expire[t]

LEMMA HeapTickFacts ==
    ASSUME HeapInv, Heap!Tick
    PROVE  HeapInv' /\ \E popped, n : TickDoes(popped, n)
  <1>1. /\ cur_size \in Nat /\ capacity \in Nat \ {0} /\ cur_size <= capacity
        /\ Heaped(array, cur_size, expire) /\ array \in [0..cur_size - 1 -> Object]
        /\ expire \in [Object -> Int]
    BY DEF HeapInv, Heaped
  <1>2. PICK after, n, popped : TickFrom(after, n, popped)
    BY <1>1, TickEquation
  <1>3. PICK b, m : b = after[n] /\ m = cur_size - n
    OBVIOUS
  <1>4. /\ AfterLoop(after) /\ n \in 0..cur_size /\ n \in Nat /\ m \in Nat
        /\ m = 0 \/ expire[b[0]] > 0
        /\ \A k \in 0..n - 1 : ~(expire[after[k][0]] > 0)
        /\ popped = [k \in 1..n |-> after[k - 1][0]]
        /\ array' = b /\ cur_size' = m /\ capacity' = capacity
        /\ heapFired' = SelectIn(popped, cb_func)
        /\ cb_func' = cb_func \ ToSet(popped)
        /\ expire' = [t \in Object |-> IF t \in ToSet(popped) THEN 0 ELSE expire[t]]
    <2>1. n \in 0..cur_size
      BY <1>2 DEF TickFrom
    <2>2. n \in Nat /\ m \in Nat /\ (m = 0 <=> n = cur_size)
      BY <1>1, <1>3, <2>1
    <2>3. QED
      BY <1>2, <1>3, <2>1, <2>2, Zenon DEF TickFrom
  <1>5. Taken(after, n)
    BY <1>1, <1>4, AfterFacts
  <1>6. /\ Heaped(b, m, expire)
        /\ \A i \in 0..m - 1 : b[i] \in Heap!Held
        /\ \A l \in 0..n - 1 : /\ after[l][0] \in Heap!Held
                               /\ \A i \in 0..m - 1 : b[i] # after[l][0]
        /\ \A l, j \in 0..n - 1 : l < j => /\ after[l][0] # after[j][0]
                                           /\ expire[after[l][0]] <= expire[after[j][0]]
        /\ \A t \in Heap!Held : \/ \E l \in 0..n - 1 : after[l][0] = t
                                \/ \E i \in 0..m - 1 : b[i] = t
    BY <1>3, <1>5, Zenon DEF Taken
  <1>7. \A t \in Heap!Held : t \in Object /\ expire[t] \in Int
    BY <1>1 DEF Heap!Held
  <1>8. \A k \in 1..n : k - 1 \in 0..n - 1 /\ popped[k] = after[k - 1][0]
    BY <1>4
  <1>9. \A l \in 0..n - 1 : l + 1 \in 1..n /\ popped[l + 1] = after[l][0]
    <2>1. \A l \in 0..n - 1 : l + 1 \in 1..n /\ (l + 1) - 1 = l
      BY <1>4
    <2>2. QED
      BY <1>8, <2>1
  <1>10. popped \in Seq(Object) /\ Len(popped) = n /\ DOMAIN popped = 1..n
    <2>1. popped \in [1..n -> Object]
      BY <1>4, <1>6, <1>7, <1>8
    <2>2. QED
      BY <1>4, <2>1
  <1>11. /\ IsInjective(popped)
         /\ \A k, l \in 1..n : k < l => expire[popped[k]] <= expire[popped[l]]
    <2>1. ASSUME NEW k \in 1..n, NEW l \in 1..n, k < l
          PROVE  popped[k] # popped[l] /\ expire[popped[k]] <= expire[popped[l]]
      <3>1. k - 1 < l - 1
        BY <2>1
      <3>2. QED
        BY <1>6, <1>8, <3>1
    <2>2. \A k, l \in 1..n : k = l \/ k < l \/ l < k
      BY <1>4
    <2>3. QED
      BY <1>10, <2>1, <2>2 DEF IsInjective
  <1>12. \A i \in 0..m - 1 : b[i] \notin ToSet(popped)
    BY <1>6, <1>8, <1>10 DEF ToSet
  <1>13. Heap!Held' = {b[i] : i \in 0..m - 1}
    BY <1>4 DEF Heap!Held
  <1>14. \A t \in Heap!Held' : t \in Heap!Held /\ t \notin ToSet(popped)
    BY <1>6, <1>12, <1>13
  <1>15. ToSet(popped) \subseteq Heap!Held
    BY <1>6, <1>8, <1>10 DEF ToSet
  <1>16. \A t \in Heap!Held : t \in ToSet(popped) \/ t \in Heap!Held'
    BY <1>6, <1>9, <1>10, <1>13 DEF ToSet
  <1>17. Heap!Held' = Heap!Held \ ToSet(popped)
    BY <1>14, <1>16
  <1>18. \A t \in Heap!Held' : expire[t] > 0 /\ expire'[t] = expire[t]
    <2>1. \A i \in 0..m - 1 : expire[b[0]] <= expire[b[i]]
      BY <1>4, <1>6, TopIsLeast
    <2>2. ASSUME NEW i \in 0..m - 1 PROVE expire[b[i]] > 0 /\ expire'[b[i]] = expire[b[i]]
      <3>1. m # 0 /\ 0 \in 0..m - 1
        BY <1>4
      <3>2. /\ expire[b[0]] \in Int /\ expire[b[i]] \in Int /\ b[i] \in Object
            /\ expire[b[0]] > 0
        BY <1>4, <1>6, <1>7, <3>1
      <3>3. expire'[b[i]] = expire[b[i]]
        BY <1>4, <1>12, <3>2
      <3>4. expire[b[0]] <= expire[b[i]]
        BY <2>1
      <3>5. QED
        BY <3>2, <3>3, <3>4
    <2>3. QED
      BY <1>13, <2>2
  <1>19. \A t \in ToSet(popped) : expire[t] <= 0
    <2>1. ASSUME NEW k \in 1..n PROVE expire[popped[k]] <= 0
      <3>1. ~(expire[popped[k]] > 0) /\ expire[popped[k]] \in Int
        BY <1>4, <1>6, <1>7, <1>8
      <3>2. QED
        BY <3>1
    <2>2. QED
      BY <1>10, <2>1 DEF ToSet
  <1>20. \A t \in Heap!Held' : ~(expire[t] <= 0)
    BY <1>7, <1>14, <1>18
  <1>21. ToSet(popped) = {t \in Heap!Held : expire[t] <= 0}
    BY <1>15, <1>16, <1>19, <1>20
  <1>22. TickDoes(popped, n)
    BY <1>4, <1>10, <1>11, <1>17, <1>18, <1>21 DEF TickDoes
  <1>23. Heaped(b, m, expire')
    <2>1. expire' \in [Object -> Int]
      BY <1>1, <1>4
    <2>2. \A i \in 0..m - 1 : expire'[b[i]] = expire[b[i]]
      BY <1>13, <1>18
    <2>3. QED
      BY <1>4, <1>6, <2>1, <2>2, HeapedAnew
  <1>24. Heaped(array, cur_size, expire)'
    BY <1>4, <1>23 DEF Heaped, Ordered
  <1>25. HeapInv'
    <2>1. cur_size' \in Nat /\ capacity' \in Nat \ {0} /\ cur_size' <= capacity'
      BY <1>1, <1>3, <1>4
    <2>2. \A t \in Heap!Held' : expire'[t] > 0
      BY <1>18
    <2>3. QED
      BY <1>24, <2>1, <2>2 DEF HeapInv
  <1>26. QED
    BY <1>22, <1>25

LEMMA HeapStep ==
    HeapInv /\ [Heap!Next]_(Heap!vars) => HeapInv'
  <1> SUFFICES ASSUME HeapInv, [Heap!Next]_(Heap!vars) PROVE HeapInv'
    OBVIOUS
  <1>1. CASE \E t \in Object : \E d \in 0..MaxDelay : Heap!AddTimer(t, d)
    BY <1>1, AddFacts
  <1>2. CASE \E t \in Object : Heap!DelTimer(t)
    BY <1>2, DelFacts
  <1>3. CASE Heap!Elapse
    BY <1>3, HeapElapseFacts
  <1>4. CASE Heap!Tick
    BY <1>4, HeapTickFacts
  <1>5. CASE UNCHANGED Heap!vars
    BY <1>5 DEF Heap!vars, HeapInv, Heaped, Ordered, Heap!Held
  <1>6. QED
    BY <1>1, <1>2, <1>3, <1>4, <1>5 DEF Heap!Next

(* No timer of the heap expires before its parent, none is there twice, and the
   array has room for all. *)
THEOREM HeapIsOrdered == Heap!ConstantsOK /\ Heap!Spec => []HeapOrdered
  <1>1. HeapInv => HeapOrdered
    <2> SUFFICES ASSUME HeapInv PROVE HeapOrdered
      OBVIOUS
    <2>1. Heap!IsInjective(array)
      BY DEF HeapInv, Heaped, Heap!IsInjective
    <2>2. QED
      BY <2>1 DEF HeapInv, Heaped, Ordered, Parent, HeapOrdered, Heap!HeapOrdered
  <1>2. Heap!ConstantsOK /\ Heap!Init => HeapInv
    BY HeapInitOK
  <1>3. QED
    BY <1>1, <1>2, HeapStep, PTL DEF Heap!Spec

-------------------------------------------------------------------------------
(* What the heap does is what Timers promises. *)

LEMMA HeapFires ==
    ASSUME HeapInv, NEW popped, NEW n, TickDoes(popped, n)
    PROVE  heapFired' \in Heap!Abstract!Firings
  <1>1. PICK Due, r : /\ Due = {t \in Heap!Held \cap cb_func : expire[t] <= 0}
                      /\ r = SelectIn(popped, cb_func)
    OBVIOUS
  <1>2. /\ popped \in Seq(Object) /\ Len(popped) = n /\ IsInjective(popped)
        /\ ToSet(popped) = {t \in Heap!Held : expire[t] <= 0}
        /\ \A k, l \in 1..n : k < l => expire[popped[k]] <= expire[popped[l]]
        /\ heapFired' = r
    BY <1>1 DEF TickDoes
  <1>3. r \in Seq(Object) /\ Selected(r, popped, cb_func, n)
    BY <1>1, <1>2, SelectInFacts
  <1>4. IsInjective(r) /\ ToSet(r) = Due
    BY <1>1, <1>2, SelectInInjective
  <1>5. Cardinality(Due) = Len(r)
    BY <1>3, <1>4, LengthOfInjective
  <1>6. r \in [1..Len(r) -> Due] /\ DOMAIN r = 1..Len(r)
    BY <1>3, <1>4 DEF ToSet
  <1>7. /\ DOMAIN Heap!Left = Heap!Held \cap cb_func
        /\ \A t \in Heap!Held \cap cb_func : Heap!Left[t] = expire[t]
    BY DEF Heap!Left
  <1>8. Heap!Abstract!Due = Due
    BY <1>1, <1>7 DEF Heap!Abstract!Due, Heap!Abstract!Pending
  <1>9. ASSUME NEW i \in DOMAIN r, NEW j \in DOMAIN r, i < j
        PROVE  r[i] # r[j] /\ Heap!Left[r[i]] <= Heap!Left[r[j]]
    <2>1. PICK k, l \in 1..n : k < l /\ r[i] = popped[k] /\ r[j] = popped[l]
      BY <1>3, <1>9 DEF Selected
    <2>2. expire[r[i]] <= expire[r[j]]
      BY <1>2, <2>1
    <2>3. r[i] \in Heap!Held \cap cb_func /\ r[j] \in Heap!Held \cap cb_func
      BY <1>1, <1>6
    <2>4. i # j
      BY <1>6, <1>9
    <2>5. r[i] # r[j]
      BY <1>4, <2>4 DEF IsInjective
    <2>6. QED
      BY <1>7, <2>2, <2>3, <2>5
  <1>10. Heap!Abstract!Cardinality(Due) = Len(r)
    BY <1>5, Zenon DEF Heap!Abstract!Cardinality, Cardinality
  <1>11. QED
    BY <1>2, <1>6, <1>8, <1>9, <1>10 DEF Heap!Abstract!Firings

LEMMA HeapMaps ==
    HeapInv /\ HeapInv' /\ [Heap!Next]_(Heap!vars) => [Heap!Abstract!Next]_(Heap!Abstract!vars)
  <1> SUFFICES ASSUME HeapInv, HeapInv', [Heap!Next]_(Heap!vars)
               PROVE  [Heap!Abstract!Next]_(Heap!Abstract!vars)
    OBVIOUS
  <1> DEFINE P == Heap!Held \cap cb_func
  <1>1. DOMAIN Heap!Left = P /\ \A t \in P : Heap!Left[t] = expire[t]
    BY DEF Heap!Left
  <1>2. Heap!Abstract!Pending = P
    BY <1>1 DEF Heap!Abstract!Pending
  <1>3. Heap!Left' = [t \in Heap!Held' \cap cb_func' |-> expire'[t]]
    BY DEF Heap!Left
  <1>4. \A t \in Heap!Held : t \in Object /\ expire[t] \in Int
    BY DEF HeapInv, Heaped, Heap!Held
  <1> HIDE DEF P
  <1>5. ASSUME NEW t \in Object, NEW d \in 0..MaxDelay, Heap!AddTimer(t, d)
        PROVE  Heap!Abstract!Add(t, d)
    <2>1. /\ t \notin Heap!Held /\ expire' = [expire EXCEPT ![t] = d]
          /\ cb_func' = cb_func \cup {t} /\ heapFired' = << >>
      BY <1>5 DEF Heap!AddTimer
    <2>2. Heap!Held' = Heap!Held \cup {t}
      BY <1>5, AddFacts
    <2>3. Heap!Held' \cap cb_func' = P \cup {t} /\ t \notin P
      BY <2>1, <2>2 DEF P
    <2>4. \A s \in P \cup {t} : expire'[s] = IF s = t THEN d ELSE Heap!Left[s]
      <3>1. expire \in [Object -> Int]
        BY DEF HeapInv, Heaped
      <3>2. \A s \in P : s \in Object
        BY <1>4 DEF P
      <3>3. QED
        BY <1>1, <2>1, <3>1, <3>2
    <2>5. Heap!Left' = [s \in P \cup {t} |-> IF s = t THEN d ELSE Heap!Left[s]]
      BY <1>3, <2>3, <2>4
    <2>6. QED
      BY <1>2, <2>1, <2>3, <2>5 DEF Heap!Abstract!Add
  <1>6. ASSUME NEW t \in Object, Heap!DelTimer(t)
        PROVE  Heap!Abstract!Cancel(t) \/ Heap!Abstract!Tick \/ UNCHANGED Heap!Abstract!vars
    <2>1. t \in Heap!Held /\ cb_func' = cb_func \ {t} /\ heapFired' = << >>
      BY <1>6 DEF Heap!DelTimer
    <2>2. Heap!Held' = Heap!Held /\ expire' = expire
      BY <1>6, DelFacts
    <2>3. CASE t \in cb_func
      <3>1. Heap!Held' \cap cb_func' = P \ {t} /\ t \in P
        BY <2>1, <2>2, <2>3 DEF P
      <3>2. Heap!Left' = [s \in P \ {t} |-> Heap!Left[s]]
        BY <1>1, <1>3, <2>2, <3>1
      <3>3. Heap!Left' = Heap!Abstract!Restrict(Heap!Left, P \ {t})
        BY <3>2 DEF Heap!Abstract!Restrict
      <3>4. Heap!Abstract!Cancel(t)
        BY <1>2, <2>1, <3>1, <3>3 DEF Heap!Abstract!Cancel
      <3>5. QED
        BY <3>4
    <2>4. CASE t \notin cb_func
      <3>1. Heap!Held' \cap cb_func' = P
        BY <2>1, <2>2, <2>4 DEF P
      <3>2. Heap!Left' = Heap!Left
        BY <1>3, <2>2, <3>1 DEF Heap!Left, P
      <3>3. CASE heapFired = << >>
        BY <2>1, <3>2, <3>3 DEF Heap!Abstract!vars
      <3>4. CASE heapFired # << >>
        <4>1. \A s \in P : expire[s] > 0
          BY <3>4 DEF HeapInv, P
        <4>2. Heap!Abstract!Due = {}
          BY <1>1, <1>2, <1>4, <4>1 DEF Heap!Abstract!Due, P
        <4>3. heapFired' \in Heap!Abstract!Firings
          <5>1. Heap!Abstract!Cardinality({}) = 0
            <6>1. Cardinality({}) = 0
              BY FS_EmptySet
            <6>2. QED
              BY <6>1, Zenon DEF Heap!Abstract!Cardinality, Cardinality
          <5>2. << >> \in [1..0 -> {}] /\ DOMAIN << >> = {}
            OBVIOUS
          <5>3. QED
            BY <2>1, <4>2, <5>1, <5>2 DEF Heap!Abstract!Firings
        <4>4. Heap!Left' = Heap!Abstract!Restrict(Heap!Left, P \ {})
          <5>1. Heap!Left = [s \in P |-> Heap!Left[s]]
            BY <1>1 DEF Heap!Left, P
          <5>2. QED
            BY <3>2, <5>1 DEF Heap!Abstract!Restrict
        <4>5. QED
          BY <1>2, <4>2, <4>3, <4>4 DEF Heap!Abstract!Tick
      <3>5. QED
        BY <3>3, <3>4
    <2>5. QED
      BY <2>3, <2>4
  <1>7. ASSUME Heap!Elapse PROVE Heap!Abstract!Elapse
    <2>1. /\ \A t \in Heap!Held : expire[t] > -Overdue
          /\ cb_func' = cb_func /\ heapFired' = << >>
      BY <1>7 DEF Heap!Elapse
    <2>2. /\ Heap!Held' = Heap!Held
          /\ \A t \in Heap!Held : expire'[t] = expire[t] - 1
      BY <1>7, HeapElapseFacts
    <2>3. Heap!Left' = [t \in P |-> Heap!Left[t] - 1]
      BY <1>1, <1>3, <2>1, <2>2 DEF P
    <2>4. \A t \in P : Heap!Left[t] > -Overdue
      BY <1>1, <2>1 DEF P
    <2>5. QED
      BY <1>2, <2>1, <2>3, <2>4 DEF Heap!Abstract!Elapse
  <1>8. ASSUME Heap!Tick PROVE Heap!Abstract!Tick
    <2>1. PICK popped, n : TickDoes(popped, n)
      BY <1>8, HeapTickFacts
    <2>2. heapFired' \in Heap!Abstract!Firings
      BY <2>1, HeapFires
    <2>3. /\ ToSet(popped) = {t \in Heap!Held : expire[t] <= 0}
          /\ Heap!Held' = Heap!Held \ ToSet(popped) /\ cb_func' = cb_func \ ToSet(popped)
          /\ \A t \in Heap!Held' : expire'[t] = expire[t]
      BY <2>1 DEF TickDoes
    <2>4. Heap!Abstract!Due = {t \in P : expire[t] <= 0}
      BY <1>1, <1>2 DEF Heap!Abstract!Due
    <2>5. Heap!Held' \cap cb_func' = P \ Heap!Abstract!Due
      BY <2>3, <2>4 DEF P
    <2>6. \A t \in P \ Heap!Abstract!Due : expire'[t] = Heap!Left[t]
      BY <1>1, <2>3, <2>5
    <2>7. Heap!Left' = Heap!Abstract!Restrict(Heap!Left, P \ Heap!Abstract!Due)
      BY <1>3, <2>5, <2>6 DEF Heap!Abstract!Restrict
    <2>8. QED
      BY <1>2, <2>2, <2>7 DEF Heap!Abstract!Tick
  <1>9. CASE UNCHANGED Heap!vars
    BY <1>9 DEF Heap!vars, Heap!Abstract!vars, Heap!Left, Heap!Held
  <1>10. QED
    BY <1>5, <1>6, <1>7, <1>8, <1>9 DEF Heap!Next, Heap!Abstract!Next

(* The heap calls back exactly the timers that are due and have not been
   cancelled, the earliest first and each once. *)
THEOREM HeapIsTimers == Heap!ConstantsOK /\ Heap!Spec => HeapImplements
  <1>1. Heap!Init => Heap!Abstract!Init
    <2> SUFFICES ASSUME Heap!Init PROVE Heap!Abstract!Init
      OBVIOUS
    <2>1. 0..-1 = {}
      OBVIOUS
    <2>2. cur_size = 0 /\ heapFired = << >>
      BY DEF Heap!Init
    <2>3. Heap!Held = {}
      BY <2>1, <2>2 DEF Heap!Held
    <2>4. Heap!Left = << >>
      BY <2>3 DEF Heap!Left
    <2>5. QED
      BY <2>2, <2>4 DEF Heap!Abstract!Init
  <1>2. Heap!ConstantsOK /\ Heap!Init => HeapInv
    BY HeapInitOK
  <1>3. QED
    BY <1>1, <1>2, HeapStep, HeapMaps, PTL DEF Heap!Spec, HeapImplements, Heap!HeapImplements, Heap!Abstract!Spec
===============================================================================

------------------------------ MODULE SortTimerList ------------------------------
(***************************************************************************)
(* The list of timers of ch11/11_2_list_timer.cpp, doubly linked and       *)
(* sorted by expiry, with the pointer assignments of each operation.  It   *)
(* implements Timers.  A timer that is not in the list has null pointers,  *)
(* as its constructor leaves them, whether it is new or has been deleted.  *)
(***************************************************************************)
EXTENDS Integers, Sequences, FiniteSetsExt

CONSTANTS Timer,        \* the util_timer objects
          Null,
          MaxDelay, MaxLate  \* bounds, see Timers

(* What is assumed of the constants, by the module that gives them values. *)
ConstantsOK == Null \notin Timer /\ IsFiniteSet(Timer)

VARIABLES list,         \* [head, tail, next, prev]
          expire,       \* of each timer, less the present time
          fired         \* the timers whose cb_func the last step called

vars == <<list, expire, fired>>

Init ==
    /\ list = [head |-> Null, tail |-> Null,
               next |-> [t \in Timer |-> Null], prev |-> [t \in Timer |-> Null]]
    /\ expire = [t \in Timer |-> 0]
    /\ fired = << >>

(* The timers a walk along next meets; one too many if it runs in a circle. *)
Nodes(l) ==
    LET walk[n \in 0..Cardinality(Timer) + 1] ==
            [t \in Timer \cup {Null} |->
                IF t = Null \/ n = 0 THEN << >> ELSE <<t>> \o walk[n - 1][l.next[t]]]
    IN  walk[Cardinality(Timer) + 1][l.head]

InList(t) == t \in Range(Nodes(list))

(* Mutant of AddAfter: the timer that follows is not told. *)
AddAfterOneWay(l, t, e) ==
    LET nodes == Nodes(l)
        later == {i \in 2..Len(nodes) : e[t] < e[nodes[i]]}
    IN  IF later = {}
        THEN [l EXCEPT !.next[nodes[Len(nodes)]] = t, !.next[t] = Null,
                       !.prev[t] = nodes[Len(nodes)], !.tail = t]
        ELSE LET tmp == nodes[Min(later)]
                 pre == nodes[Min(later) - 1]
             IN  [l EXCEPT !.next[pre] = t, !.next[t] = tmp, !.prev[t] = pre]

(* The private add_timer(timer, head): after head, before the first timer that
   expires later, or at the end. *)
AddAfter(l, t, e) ==
    LET nodes == Nodes(l)
        later == {i \in 2..Len(nodes) : e[t] < e[nodes[i]]}
    IN  IF later = {}
        THEN [l EXCEPT !.next[nodes[Len(nodes)]] = t, !.next[t] = Null,
                       !.prev[t] = nodes[Len(nodes)], !.tail = t]
        ELSE LET tmp == nodes[Min(later)]
                 pre == nodes[Min(later) - 1]
             IN  [l EXCEPT !.next[pre] = t, !.next[t] = tmp,
                           !.prev[tmp] = t, !.prev[t] = pre]

AddTimer(t, d) ==
    LET e == [expire EXCEPT ![t] = d] IN
    /\ ~InList(t)
    /\ expire' = e
    /\ list' = IF list.head = Null THEN [list EXCEPT !.head = t, !.tail = t]
               ELSE IF d < e[list.head]
               THEN [list EXCEPT !.next[t] = list.head, !.prev[list.head] = t, !.head = t]
               ELSE AddAfter(list, t, e)
    /\ fired' = << >>

(* expire is set to a later time, then adjust_timer: the timer is taken out
   and, since the new head expires no later than it, put back after that. *)
AdjustTimer(t, d) ==
    LET e == [expire EXCEPT ![t] = d]
        after == list.next[t]
        before == list.prev[t]
    IN
    /\ InList(t) /\ d >= expire[t]
    /\ expire' = e
    /\ list' = IF after = Null \/ d < e[after] THEN list
               ELSE IF t = list.head
               THEN AddAfter([list EXCEPT !.head = after, !.prev[after] = Null,
                                          !.next[t] = Null], t, e)
               ELSE AddAfter([list EXCEPT !.next[before] = after, !.prev[after] = before], t, e)
    /\ fired' = << >>

(* delete *)
Free(l, t) == [l EXCEPT !.next[t] = Null, !.prev[t] = Null]

DelTimer(t) ==
    LET after == list.next[t]
        before == list.prev[t]
    IN
    /\ InList(t)
    /\ list' = Free(
            IF t = list.head /\ t = list.tail THEN [list EXCEPT !.head = Null, !.tail = Null]
            ELSE IF t = list.head THEN [list EXCEPT !.head = after, !.prev[after] = Null]
            ELSE IF t = list.tail THEN [list EXCEPT !.tail = before, !.next[before] = Null]
            ELSE [list EXCEPT !.next[before] = after, !.prev[after] = before], t)
    /\ expire' = [expire EXCEPT ![t] = 0]
    /\ fired' = << >>

Elapse ==
    /\ \A t \in Timer : InList(t) => expire[t] > -MaxLate
    /\ expire' = [t \in Timer |-> IF InList(t) THEN expire[t] - 1 ELSE expire[t]]
    /\ UNCHANGED list
    /\ fired' = << >>

(* Mutant of DueNodes: one timer is called back in each tick. *)
DueFirst ==
    LET nodes == Nodes(list) IN
    IF nodes # << >> /\ expire[nodes[1]] <= 0 THEN SubSeq(nodes, 1, 1) ELSE << >>

(* The timers tick takes from the head: up to the first that is not due. *)
DueNodes ==
    LET nodes == Nodes(list)
        n == Min({i \in 1..Len(nodes) + 1 : i = Len(nodes) + 1 \/ 0 < expire[nodes[i]]})
    IN  SubSeq(nodes, 1, n - 1)

(* tail is left as it is, also when the list becomes empty. *)
Tick ==
    LET dead == Range(DueNodes)
        head == IF DueNodes = << >> THEN list.head ELSE list.next[DueNodes[Len(DueNodes)]]
        out(t) == t \in dead \/ (t = head /\ dead # {})
    IN
    /\ list' = [list EXCEPT !.head = head,
                            !.next = [t \in Timer |-> IF t \in dead THEN Null ELSE @[t]],
                            !.prev = [t \in Timer |-> IF out(t) THEN Null ELSE @[t]]]
    /\ expire' = [t \in Timer |-> IF t \in dead THEN 0 ELSE expire[t]]
    /\ fired' = DueNodes

Next ==
    \/ \E t \in Timer, d \in 0..MaxDelay : AddTimer(t, d) \/ AdjustTimer(t, d)
    \/ \E t \in Timer : DelTimer(t)
    \/ Elapse
    \/ Tick

Spec == Init /\ [][Next]_vars

-------------------------------------------------------------------------------
(* Properties. *)

(* The list is one chain, the same in both directions, sorted, with tail at its
   end (while there is one), and no pointer leads to a deleted timer. *)
ListLinked ==
    LET nodes == Nodes(list) IN
    /\ IsInjective(nodes)
    /\ \A i \in DOMAIN nodes : list.prev[nodes[i]] = IF i = 1 THEN Null ELSE nodes[i - 1]
    /\ \A i, j \in DOMAIN nodes : i < j => expire[nodes[i]] <= expire[nodes[j]]
    /\ nodes # << >> => list.tail = nodes[Len(nodes)]
    /\ \A t \in Timer \ Range(nodes) : list.next[t] = Null /\ list.prev[t] = Null

(* The list is a set of timers of which tick calls back those that are due, the
   earliest first, each once. *)
Left == [t \in Range(Nodes(list)) |-> expire[t]]
Abstract == INSTANCE Timers WITH left <- Left
ListImplements == Abstract!Spec
===============================================================================

-------------------------------- MODULE TimeHeap --------------------------------
(***************************************************************************)
(* The min-heap of timers of ch11/11_6_timeMinHeap.cpp.  A cancelled timer *)
(* keeps its place without a callback until it is due.  It implements      *)
(* Timers, but for postponing, which it does not offer.                    *)
(***************************************************************************)
EXTENDS Integers, FiniteSetsExt, Selection

CONSTANTS Timer,        \* the heap_timer objects
          MaxDelay, MaxLate, \* bounds, see Timers
          Cap           \* the capacity the heap is made with

(* What is assumed of the constants, by the module that gives them values. *)
ConstantsOK == Cap \in Nat \ {0}

VARIABLES array,        \* its first cur_size entries: 0..cur_size - 1 -> Timer
          cur_size, capacity,
          expire,       \* of each timer, less the present time
          cb_func,      \* the timers that have a callback
          fired         \* the timers whose cb_func the last step called

vars == <<array, cur_size, capacity, expire, cb_func, fired>>

Init ==
    /\ array = << >> /\ cur_size = 0 /\ capacity = Cap
    /\ expire = [t \in Timer |-> 0]
    /\ cb_func = {} /\ fired = << >>

Held == {array[i] : i \in 0..cur_size - 1}

(* The loop of add_timer: the parents on the way up from the hole that expire
   later than t come down, and t takes the place of the last. *)
PercolateUp(n, t, e) ==
    LET up[hole \in 0..n] ==
            LET parent == (hole - 1) \div 2 IN
            IF hole > 0 /\ e[array[parent]] > e[t]
            THEN [up[parent] EXCEPT ![hole] = array[parent]]
            ELSE [i \in 0..n |-> IF i = hole THEN t ELSE IF i < n THEN array[i] ELSE t]
    IN  up[n]

(* Mutant of AddTimer: a full array is not resized. *)
AddNoResize(t, d) ==
    LET e == [expire EXCEPT ![t] = d] IN
    /\ t \notin Held
    /\ expire' = e
    /\ array' = PercolateUp(cur_size, t, e)
    /\ cur_size' = cur_size + 1
    /\ cb_func' = cb_func \cup {t}
    /\ UNCHANGED capacity
    /\ fired' = << >>

AddTimer(t, d) ==
    LET e == [expire EXCEPT ![t] = d] IN
    /\ t \notin Held
    /\ expire' = e
    /\ capacity' = IF cur_size >= capacity THEN 2 * capacity ELSE capacity
    /\ array' = PercolateUp(cur_size, t, e)
    /\ cur_size' = cur_size + 1
    /\ cb_func' = cb_func \cup {t}
    /\ fired' = << >>

DelTimer(t) ==
    /\ t \in Held
    /\ cb_func' = cb_func \ {t}
    /\ UNCHANGED <<array, cur_size, capacity, expire>>
    /\ fired' = << >>

(* Mutant of PercolateDown: the hole goes down to the left child, not to the
   earlier of the two. *)
PercolateLeft(a, n) ==
    LET down[hole \in 0..n - 1] ==
            LET child == 2 * hole + 1 IN
            IF child <= n - 1 /\ expire[a[child]] < expire[a[0]]
            THEN [down[child] EXCEPT ![hole] = a[child]]
            ELSE [a EXCEPT ![hole] = a[0]]
    IN  IF n = 0 THEN << >> ELSE down[0]

(* percolate_down(0): the children on the way down that expire earlier than
   the entry at the top come up, of two the earlier one. *)
PercolateDown(a, n) ==
    LET down[hole \in 0..n - 1] ==
            LET first == 2 * hole + 1
                child == IF first < n - 1 /\ expire[a[first + 1]] < expire[a[first]]
                         THEN first + 1 ELSE first
            IN  IF first <= n - 1 /\ expire[a[child]] < expire[a[0]]
                THEN [down[child] EXCEPT ![hole] = a[child]]
                ELSE [a EXCEPT ![hole] = a[0]]
    IN  IF n = 0 THEN << >> ELSE down[0]

(* pop_timer: the last entry takes the place of the first. *)
Pop(a, n) ==
    PercolateDown([i \in 0..n - 2 |-> IF i = 0 THEN a[n - 1] ELSE a[i]], n - 1)

Elapse ==
    /\ \A t \in Held : expire[t] > -MaxLate
    /\ expire' = [t \in Timer |-> IF t \in Held THEN expire[t] - 1 ELSE expire[t]]
    /\ UNCHANGED <<array, cur_size, capacity, cb_func>>
    /\ fired' = << >>

(* tick pops the top while it is due, and calls back those that have one. *)
Tick ==
    LET after[k \in 0..cur_size] == IF k = 0 THEN array ELSE Pop(after[k - 1], cur_size - k + 1)
        stops(k) == k = cur_size \/ expire[after[k][0]] > 0
        n == Min({k \in 0..cur_size : stops(k)})
        popped == [k \in 1..n |-> after[k - 1][0]]
    IN
    /\ array' = after[n]
    /\ cur_size' = cur_size - n
    /\ fired' = SelectIn(popped, cb_func)
    /\ cb_func' = cb_func \ Range(popped)
    /\ expire' = [t \in Timer |-> IF t \in Range(popped) THEN 0 ELSE expire[t]]
    /\ UNCHANGED capacity

Next ==
    \/ \E t \in Timer : (\E d \in 0..MaxDelay : AddTimer(t, d)) \/ DelTimer(t)
    \/ Elapse
    \/ Tick

Spec == Init /\ [][Next]_vars

-------------------------------------------------------------------------------
(* Properties. *)

(* No timer expires before its parent, none is there twice, and the array has
   room for them. *)
HeapOrdered ==
    /\ cur_size <= capacity
    /\ IsInjective(array)
    /\ \A i \in 1..cur_size - 1 : expire[array[(i - 1) \div 2]] <= expire[array[i]]

(* The timers that have not been cancelled are a set of timers of which tick
   calls back those that are due, the earliest first, each once. *)
Left == [t \in Held \cap cb_func |-> expire[t]]
Abstract == INSTANCE Timers WITH left <- Left
HeapImplements == Abstract!Spec
===============================================================================

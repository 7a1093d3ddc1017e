----------------------------- MODULE TimerContainers -----------------------------
(***************************************************************************)
(* The timer containers of ch11 side by side, and what is said of them.    *)
(* List and heap share expire: of a behaviour one of the three is meant.   *)
(***************************************************************************)
EXTENDS Integers

CONSTANTS Object,               \* the timers given to a list or a heap
          WTimer,               \* the timers given to a wheel
          Null,
          MaxDelay, Overdue,    \* bounds, see Timers
          Cap,                  \* the capacity the heap is made with
          N, SI, MaxTimeout     \* see TimeWheel

VARIABLES expire,                                 \* of a list or a heap
          list, listFired,                        \* see SortTimerList
          array, cur_size, capacity, cb_func, heapFired, \* see TimeHeap
          slots, cur_slot, rotation, time_slot, wheelFired \* see TimeWheel

Sorted == INSTANCE SortTimerList WITH fired <- listFired, Timer <- Object, MaxLate <- Overdue
Wheel == INSTANCE TimeWheel WITH fired <- wheelFired, Timer <- WTimer
Heap == INSTANCE TimeHeap WITH fired <- heapFired, Timer <- Object, MaxLate <- Overdue

(* The list's pointers agree with each other and its order (11_2_list_timer.cpp). *)
ListLinked == Sorted!ListLinked

(* The list calls timers back as Timers says (11_2_list_timer.cpp). *)
ListImplements == Sorted!ListImplements

(* Each tick counts for each timer (11_5_timeWheel.cpp). *)
WheelOnTime == Wheel!WheelOnTime

(* The heap's order and capacity (11_6_timeMinHeap.cpp). *)
HeapOrdered == Heap!HeapOrdered

(* The heap calls timers back as Timers says (11_6_timeMinHeap.cpp). *)
HeapImplements == Heap!HeapImplements
===============================================================================

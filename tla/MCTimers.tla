-------------------------------- MODULE MCTimers --------------------------------
(***************************************************************************)
(* Model-checking instance of the timer containers of ch11.  A behaviour   *)
(* is of one of them, chosen at the start.                                 *)
(***************************************************************************)
EXTENDS TimerContainers

CONSTANTS t1, t2, t3, t4

FourTimers == {t1, t2, t3, t4}
ThreeTimers == {t1, t2, t3}

VARIABLE kind

ASSUME TimersAssumption == Sorted!Abstract!ConstantsOK
ASSUME ListAssumption == Sorted!ConstantsOK
ASSUME HeapAssumption == Heap!ConstantsOK
ASSUME WheelAssumption == Wheel!ConstantsOK

lists == <<list, listFired>>
heap == <<array, cur_size, capacity, cb_func, heapFired>>
wheel == <<slots, cur_slot, rotation, time_slot, wheelFired>>
vars == <<kind, expire, lists, heap, wheel>>

Init ==
    /\ kind \in {"list", "heap", "wheel"}
    /\ Sorted!Init /\ Heap!Init /\ Wheel!Init

Next ==
    \/ kind = "list" /\ Sorted!Next /\ UNCHANGED <<kind, heap, wheel>>
    \/ kind = "heap" /\ Heap!Next /\ UNCHANGED <<kind, lists, wheel>>
    \/ kind = "wheel" /\ Wheel!Next /\ UNCHANGED <<kind, expire, lists, heap>>

Spec == Init /\ [][Next]_vars
===============================================================================

-------------------------------- MODULE TimeWheel --------------------------------
(***************************************************************************)
(* The time wheel of ch11/11_5_timeWheel.cpp: N slots of timers, the first *)
(* of a slot's list at its head, of which a tick visits one and turns the  *)
(* wheel.  What a timer waits for is its slot and its count of rotations.  *)
(***************************************************************************)
EXTENDS Integers, Functions, Selection

CONSTANTS Timer,        \* the tw_timer objects
          N,            \* the number of slots
          SI,           \* the time of a slot
          MaxTimeout    \* bound: the longest timeout

(* What is assumed of the constants, by the module that gives them values. *)
ConstantsOK == N \in Nat \ {0, 1} /\ SI \in Nat \ {0} /\ MaxTimeout \in Nat

VARIABLES slots, cur_slot,
          rotation, time_slot, \* of each timer; 0 when it is not in the wheel
          fired         \* the timers whose cb_func the last step called

vars == <<slots, cur_slot, rotation, time_slot, fired>>

Init ==
    /\ slots = [i \in 0..N - 1 |-> << >>] /\ cur_slot = 0
    /\ rotation = [t \in Timer |-> 0] /\ time_slot = [t \in Timer |-> 0]
    /\ fired = << >>

Held == UNION {Range(slots[i]) : i \in 0..N - 1}

(* a & b *)
And(a, b) ==
    LET and[x \in 0..a] ==
            [y \in 0..b |-> IF x = 0 \/ y = 0 THEN 0
                           ELSE (x % 2) * (y % 2) + 2 * and[x \div 2][y \div 2]]
    IN  and[a][b]

Ticks(timeout) == IF timeout < SI THEN 1 ELSE timeout \div SI

(* The slot is chosen with ticks & N, where the remainder was meant. *)
AddTimer(t, timeout) ==
    LET ts == (cur_slot + And(Ticks(timeout), N)) % N IN
    /\ t \notin Held
    /\ rotation' = [rotation EXCEPT ![t] = Ticks(timeout) \div N]
    /\ time_slot' = [time_slot EXCEPT ![t] = ts]
    /\ slots' = [slots EXCEPT ![ts] = <<t>> \o @]
    /\ UNCHANGED cur_slot
    /\ fired' = << >>

DelTimer(t) ==
    /\ t \in Held
    /\ slots' = [slots EXCEPT ![time_slot[t]] = SelectIn(@, Timer \ {t})]
    /\ rotation' = [rotation EXCEPT ![t] = 0]
    /\ time_slot' = [time_slot EXCEPT ![t] = 0]
    /\ UNCHANGED cur_slot
    /\ fired' = << >>

(* Mutant of Tick: the wheel turns before the slot is visited. *)
TickTurnFirst ==
    LET slot == (cur_slot + 1) % N
        visited == Range(slots[slot])
        stays == {t \in visited : rotation[t] > 0}
    IN
    /\ fired' = SelectIn(slots[slot], visited \ stays)
    /\ slots' = [slots EXCEPT ![slot] = SelectIn(@, stays)]
    /\ rotation' = [t \in Timer |-> IF t \in stays THEN rotation[t] - 1 ELSE rotation[t]]
    /\ time_slot' = [t \in Timer |-> IF t \in visited \ stays THEN 0 ELSE time_slot[t]]
    /\ cur_slot' = slot

(* A timer of the slot has its rotations counted down, or fires and goes. *)
Tick ==
    LET visited == Range(slots[cur_slot])
        stays == {t \in visited : rotation[t] > 0}
    IN
    /\ fired' = SelectIn(slots[cur_slot], visited \ stays)
    /\ slots' = [slots EXCEPT ![cur_slot] = SelectIn(@, stays)]
    /\ rotation' = [t \in Timer |-> IF t \in stays THEN rotation[t] - 1 ELSE rotation[t]]
    /\ time_slot' = [t \in Timer |-> IF t \in visited \ stays THEN 0 ELSE time_slot[t]]
    /\ cur_slot' = (cur_slot + 1) % N

Next ==
    \/ \E t \in Timer : (\E timeout \in 0..MaxTimeout : AddTimer(t, timeout)) \/ DelTimer(t)
    \/ Tick

Spec == Init /\ [][Next]_vars

-------------------------------------------------------------------------------
(* Properties. *)

(* The ticks before the one that is to fire t. *)
Remaining(t) == (rotation[t] * N) + ((time_slot[t] - cur_slot) % N)

(* Whatever is added and deleted between, each tick brings every timer one tick
   nearer, and fires it when and only when none remains. *)
WheelOnTime ==
    [][cur_slot' # cur_slot =>
        /\ Range(fired') = {t \in Held : Remaining(t) = 0}
        /\ Held' = Held \ Range(fired')
        /\ \A t \in Held' : Remaining(t)' = Remaining(t) - 1]_vars
===============================================================================

--------------------------------- MODULE Timers ---------------------------------
(***************************************************************************)
(* What the timer containers of ch11 promise: a set of pending timers with *)
(* the time each has left, of which a tick calls back those that are due,  *)
(* the earliest first, each once.  Time is relative to the present, so     *)
(* that a timer is due when it has 0 or less left.                         *)
(***************************************************************************)
EXTENDS Integers, FiniteSets, Functions

CONSTANTS Timer,
          MaxDelay,     \* bound: the longest time a timer is set to
          MaxLate       \* bound: how long a due timer waits for a tick

(* What is assumed of the constants, by the modules that give them values. *)
ConstantsOK ==
    MaxDelay \in Nat /\ MaxLate \in Nat /\ IsFiniteSet(Timer)

VARIABLES left,         \* the time left to each pending timer
          fired         \* the timers the last step called back, in order

vars == <<left, fired>>

Pending == DOMAIN left
Due == {t \in Pending : left[t] <= 0}

Init == left = << >> /\ fired = << >>

Add(t, d) ==
    /\ t \notin Pending
    /\ left' = [s \in Pending \cup {t} |-> IF s = t THEN d ELSE left[s]]
    /\ fired' = << >>

Postpone(t, d) ==
    /\ t \in Pending /\ d >= left[t]
    /\ left' = [left EXCEPT ![t] = d]
    /\ fired' = << >>

Cancel(t) ==
    /\ t \in Pending
    /\ left' = Restrict(left, Pending \ {t})
    /\ fired' = << >>

Elapse ==
    /\ \A t \in Pending : left[t] > -MaxLate
    /\ left' = [t \in Pending |-> left[t] - 1]
    /\ fired' = << >>

(* The ways to call back the due timers: each once, none before an earlier one. *)
Firings ==
    {s \in [1..Cardinality(Due) -> Due] :
        \A i, j \in DOMAIN s : i < j => s[i] # s[j] /\ left[s[i]] <= left[s[j]]}

Tick ==
    /\ fired' \in Firings
    /\ left' = Restrict(left, Pending \ Due)

Next ==
    \/ \E t \in Timer : (\E d \in 0..MaxDelay : Add(t, d) \/ Postpone(t, d)) \/ Cancel(t)
    \/ Elapse
    \/ Tick

Spec == Init /\ [][Next]_vars
===============================================================================

------------------------------ MODULE TimerServer ------------------------------
(***************************************************************************)
(* The server of ch11/11_3_use_timer.cpp, which closes connections that    *)
(* have been idle for three slots of time.  Every connection has a timer;  *)
(* SIGALRM, which the handler turns into a byte on pipefd, has the loop    *)
(* tick the timers after the events of the batch and set the next alarm.   *)
(*                                                                         *)
(* The timers are those of module Timers, which the list it uses           *)
(* implements (see SortTimerList).  Descriptor numbers are reused by the   *)
(* kernel at once, and timer objects by the allocator.  All descriptors    *)
(* are edge-triggered.                                                     *)
(***************************************************************************)
EXTENDS Integers, FiniteSets, SequencesExt

CONSTANTS Clients,      \* the clients, each of which connects at most once
          None,         \* "no connection"
          TIMESLOT,
          MaxLate       \* bound, see Timers

ASSUME ClientAssumption == None \notin Clients /\ IsFiniteSet(Clients)
ASSUME SlotAssumption == TIMESLOT \in Nat \ {0} /\ MaxLate \in Nat /\ MaxLate >= TIMESLOT

Fds == 1..Cardinality(Clients)          \* what accept returns: enough for all
Timer == 1..Cardinality(Clients) + 1    \* what new util_timer returns
IdleLimit == 3 * TIMESLOT

VARIABLES
    left, fired,    \* timer_list, see Timers
    \* the server
    timer,          \* users[fd].timer
    user_data,      \* of each timer: the descriptor it closes
    batch,          \* what is left of the events array
    timeout, stop_server,
    ended,          \* main has returned
    \* the kernel
    backlog, listenEdge,
    fdConn,         \* the connection behind each open descriptor
    edge,           \* connections with an edge epoll_wait has not reported
    unread,         \* connections with data recv has not returned
    hungUp,         \* connections whose peer has closed or reset them
    sigs,           \* the signals whose bytes are in pipefd
    alarm,          \* the time to the next SIGALRM; 0 when no alarm is set
    \* history
    quiet           \* the time since each connection was accepted or last read;
                    \* -1 before that and 0 after its end

timerVars == <<left, fired>>
userVars == <<timer, user_data>>
loop == <<batch, timeout, stop_server, ended>>
conns == <<fdConn, edge, unread, hungUp>>
listening == <<backlog, listenEdge>>
clock == <<sigs, alarm>>
vars == <<timerVars, userVars, loop, listening, conns, clock, quiet>>

List == INSTANCE Timers WITH MaxDelay <- IdleLimit

OpenConns == {fdConn[f] : f \in Fds} \ {None}
FdOf(c) == CHOOSE f \in Fds : fdConn[f] = c
FreeFd == Min({f \in Fds : fdConn[f] = None})
FreeTimer == Min(Timer \ List!Pending)

Init ==
    /\ List!Init
    /\ timer = [f \in Fds |-> 0] /\ user_data = [t \in Timer |-> 0]
    /\ batch = {} /\ timeout = FALSE /\ stop_server = FALSE /\ ended = FALSE
    /\ backlog = << >> /\ listenEdge = FALSE
    /\ fdConn = [f \in Fds |-> None]
    /\ edge = {} /\ unread = {} /\ hungUp = {}
    /\ sigs = {} /\ alarm = TIMESLOT
    /\ quiet = [c \in Clients |-> -1]

(* The steps that leave the timers alone. *)
Untimed == left' = left /\ fired' = << >>

-------------------------------------------------------------------------------
(* The clients, the clock, and whoever sends the server SIGTERM. *)

Connect(c) ==
    /\ ~ended
    /\ quiet[c] = -1 /\ c \notin ToSet(backlog)
    /\ backlog' = Append(backlog, c)
    /\ listenEdge' = TRUE
    /\ Untimed
    /\ UNCHANGED <<userVars, loop, conns, clock, quiet>>

Reachable(c) == c \in OpenConns \cup ToSet(backlog) /\ c \notin hungUp

Say(c) ==
    /\ ~ended
    /\ Reachable(c)
    /\ unread' = unread \cup {c}
    /\ edge' = edge \cup {c}
    /\ Untimed
    /\ UNCHANGED <<userVars, loop, listening, fdConn, hungUp, clock, quiet>>

Leave(c) ==
    /\ ~ended
    /\ Reachable(c)
    /\ hungUp' = hungUp \cup {c}
    /\ edge' = edge \cup {c}
    /\ Untimed
    /\ UNCHANGED <<userVars, loop, listening, fdConn, unread, clock, quiet>>

(* Time passes; when the alarm is due, the handler writes SIGALRM to pipefd. *)
Elapse ==
    /\ ~ended
    /\ List!Elapse
    /\ alarm' = Max({0, alarm - 1})
    /\ sigs' = IF alarm = 1 THEN sigs \cup {"ALRM"} ELSE sigs
    /\ quiet' = [c \in Clients |-> IF c \in OpenConns THEN quiet[c] + 1 ELSE quiet[c]]
    /\ UNCHANGED <<userVars, loop, listening, conns>>

Term ==
    /\ ~ended
    /\ sigs' = sigs \cup {"TERM"}
    /\ Untimed
    /\ UNCHANGED <<userVars, loop, listening, conns, alarm, quiet>>

-------------------------------------------------------------------------------
(* The loop of main. *)

Ready ==
    (IF listenEdge THEN {<<"listen">>} ELSE {}) \cup
    (IF sigs # {} THEN {<<"signal">>} ELSE {}) \cup
    {<<"conn", FdOf(c)>> : c \in edge \cap OpenConns}

EpollWait ==
    /\ ~ended /\ batch = {} /\ ~timeout /\ ~stop_server
    /\ Ready # {}
    /\ batch' = Ready
    /\ listenEdge' = FALSE
    /\ edge' = edge \ OpenConns
    /\ Untimed
    /\ UNCHANGED <<userVars, timeout, stop_server, ended, backlog, fdConn, unread, hungUp,
                   clock, quiet>>

Dispatch(event) == event \in batch /\ batch' = batch \ {event}

(* One accept for each edge; addfd, and a timer. *)
Accept ==
    /\ Dispatch(<<"listen">>)
    /\ backlog' = Tail(backlog)
    /\ fdConn' = [fdConn EXCEPT ![FreeFd] = Head(backlog)]
    /\ user_data' = [user_data EXCEPT ![FreeTimer] = FreeFd]
    /\ timer' = [timer EXCEPT ![FreeFd] = FreeTimer]
    /\ List!Add(FreeTimer, IdleLimit)
    /\ quiet' = [quiet EXCEPT ![Head(backlog)] = 0]
    /\ UNCHANGED <<timeout, stop_server, ended, listenEdge, edge, unread, hungUp, clock>>

(* recv empties pipefd[0]. *)
OnSignals ==
    /\ Dispatch(<<"signal">>)
    /\ timeout' = (timeout \/ "ALRM" \in sigs)
    /\ stop_server' = (stop_server \/ "TERM" \in sigs)
    /\ sigs' = {}
    /\ Untimed
    /\ UNCHANGED <<userVars, ended, listening, conns, alarm, quiet>>

(* recv returns data, at most BUFFER_SIZE - 1 bytes of it, and the timer starts
   again.  What is left has no edge of its own. *)
OnData(f) ==
    LET c == fdConn[f] IN
    /\ Dispatch(<<"conn", f>>)
    /\ c \in unread
    /\ \E all \in BOOLEAN : unread' = IF all THEN unread \ {c} ELSE unread
    /\ List!Postpone(timer[f], IdleLimit)
    /\ quiet' = [quiet EXCEPT ![c] = 0]
    /\ UNCHANGED <<userVars, timeout, stop_server, ended, listening, fdConn, edge, hungUp, clock>>

(* close: the kernel forgets the connections behind the descriptors fs. *)
Close(fs) ==
    LET cs == {fdConn[f] : f \in fs} \ {None} IN
    /\ fdConn' = [f \in Fds |-> IF f \in fs THEN None ELSE fdConn[f]]
    /\ edge' = edge \ cs /\ unread' = unread \ cs /\ hungUp' = hungUp \ cs
    /\ quiet' = [c \in Clients |-> IF c \in cs THEN 0 ELSE quiet[c]]

(* Mutant of OnNothing: EAGAIN is taken for an error, as 11_5_use_timeWheel.cpp
   does at line 159. *)
OnNothingClose(f) ==
    /\ Dispatch(<<"conn", f>>)
    /\ fdConn[f] \notin unread \cup hungUp
    /\ Close({f})
    /\ List!Cancel(timer[f])
    /\ UNCHANGED <<userVars, timeout, stop_server, ended, listening, clock>>

(* EAGAIN: the data was read together with that of the edge before. *)
OnNothing(f) ==
    /\ Dispatch(<<"conn", f>>)
    /\ fdConn[f] \notin unread \cup hungUp
    /\ Untimed
    /\ UNCHANGED <<userVars, timeout, stop_server, ended, listening, conns, clock, quiet>>

(* Mutant of OnHangUp: the timer is not deleted. *)
OnHangUpKeepTimer(f) ==
    /\ Dispatch(<<"conn", f>>)
    /\ fdConn[f] \in hungUp \ unread
    /\ Close({f})
    /\ Untimed
    /\ UNCHANGED <<userVars, timeout, stop_server, ended, listening, clock>>

(* recv returns 0 or an error: cb_func closes, and del_timer. *)
OnHangUp(f) ==
    /\ Dispatch(<<"conn", f>>)
    /\ fdConn[f] \in hungUp \ unread
    /\ Close({f})
    /\ List!Cancel(timer[f])
    /\ UNCHANGED <<userVars, timeout, stop_server, ended, listening, clock>>

(* Mutant of TimerHandler: no new alarm. *)
TimerHandlerOnce ==
    /\ batch = {} /\ timeout
    /\ List!Tick
    /\ Close({user_data[t] : t \in ToSet(fired')})
    /\ timeout' = FALSE
    /\ UNCHANGED <<userVars, batch, stop_server, ended, listening, clock>>

(* timer_handler, after the events of the batch: tick, which has cb_func close
   the connections whose timers are due, and alarm. *)
TimerHandler ==
    /\ batch = {} /\ timeout
    /\ List!Tick
    /\ Close({user_data[t] : t \in ToSet(fired')})
    /\ alarm' = TIMESLOT
    /\ timeout' = FALSE
    /\ UNCHANGED <<userVars, batch, stop_server, ended, listening, sigs>>

Stop ==
    /\ ~ended /\ batch = {} /\ ~timeout /\ stop_server
    /\ ended' = TRUE
    /\ Untimed
    /\ UNCHANGED <<userVars, batch, timeout, stop_server, listening, conns, clock, quiet>>

ServerStep ==
    \/ EpollWait \/ Accept \/ OnSignals
    \/ \E f \in Fds : OnData(f) \/ OnNothing(f) \/ OnHangUp(f)
    \/ TimerHandler
    \/ Stop

Next ==
    \/ \E c \in Clients : Connect(c) \/ Say(c) \/ Leave(c)
    \/ Elapse \/ Term
    \/ ServerStep

Spec == Init /\ [][Next]_vars

(* The server is scheduled and time passes; the clients are free. *)
FairSpec == Spec /\ WF_vars(ServerStep) /\ WF_vars(Elapse)

-------------------------------------------------------------------------------
(* Properties. *)

Events == {<<"listen">>, <<"signal">>} \cup {<<"conn", f>> : f \in Fds}

(* The variables have their types: an open connection has one descriptor, an
   event of the batch is about an open one, and the alarm is set unless SIGALRM
   is on its way to the loop. *)
TypeOK ==
    /\ fdConn \in [Fds -> Clients \cup {None}]
    /\ \A f, g \in Fds : fdConn[f] = fdConn[g] /\ fdConn[f] # None => f = g
    /\ batch \subseteq Events
    /\ \A f \in Fds : <<"conn", f>> \in batch => fdConn[f] # None
    /\ <<"listen">> \in batch => backlog # << >>
    /\ sigs \subseteq {"ALRM", "TERM"} /\ alarm \in 0..TIMESLOT
    /\ alarm = 0 <=> timeout \/ "ALRM" \in sigs

(* Every open connection has one pending timer, the one users[fd].timer points
   to, whose callback closes it, and no timer is pending beside these: so no
   dangling pointer is adjusted and no timer closes a descriptor that has been
   given to another connection (11_3_use_timer.cpp:119-182). *)
TimersMatch ==
    /\ List!Pending = {timer[FdOf(c)] : c \in OpenConns}
    /\ \A c \in OpenConns : user_data[timer[FdOf(c)]] = FdOf(c)

(* A client that has not left is closed only when nothing has been read from it
   for three slots (11_3_use_timer.cpp:57-67, 175-181). *)
NotTooEarly ==
    [][\A c \in OpenConns \ (OpenConns' \cup hungUp) : quiet[c] >= IdleLimit]_vars

(* A connection that goes quiet, also one whose end was not noticed because
   there was data before it, is read again or closed, or the server ends
   (11_3_use_timer.cpp:57-60, 186-189). *)
IdleIsClosed ==
    \A c \in Clients :
        (c \in OpenConns /\ quiet[c] > 0) ~> (c \notin OpenConns \/ quiet[c] = 0 \/ ended)
===============================================================================

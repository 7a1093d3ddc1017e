------------------------------- MODULE WebServer -------------------------------
(***************************************************************************)
(* The web server of ch15: the epoll loop of 15_6_webserver.cpp, the       *)
(* connection objects of 15_5_http_conn.cpp it indexes by descriptor, and  *)
(* the worker threads that run http_conn::process.                         *)
(*                                                                         *)
(* One main thread waits on epoll and reads, writes, accepts and closes;   *)
(* the workers parse requests and build responses.  Nothing locks a        *)
(* connection object: what keeps two threads off the same one is that its  *)
(* descriptor is registered EPOLLONESHOT and re-armed (modfd) by whoever   *)
(* is done with it.  Descriptor numbers are reused by the kernel at once.  *)
(*                                                                         *)
(* The pool is the queue ThreadPool implements (see RequestQueue): append  *)
(* and the pop of a worker are atomic.  What a request says and how its    *)
(* response is sent are left to module HttpConn: here a request is         *)
(* incomplete, answered, or one whose response cannot be built.            *)
(***************************************************************************)
EXTENDS Integers, FiniteSets, SequencesExt

CONSTANTS Fds,          \* descriptor numbers accept may return
          Conns,        \* the connections clients make, each once
          Workers,      \* the threads of the pool
          Main,         \* the main thread
          None,         \* "no connection"
          MaxFd,        \* MAX_FD
          MaxRequests,  \* m_max_requests of the pool
          EmptyFiles,   \* when a requested file may be empty: "never", "always",
                        \* or "late": when every client has been accepted
          AcceptErrors  \* whether accept may fail for want of kernel memory

Threads == Workers \cup {Main}
ListenFd == 3           \* listenfd: the program starts with the standard streams
NoFd == -1              \* the m_sockfd of a closed connection
Unset == 0              \* its value in an entry init() has not run on: new http_conn[]
                        \* takes fresh pages, and the constructor sets nothing

ASSUME FdAssumption ==
    /\ Fds \subseteq {n \in Nat : n > ListenFd} /\ IsFiniteSet(Fds)
    /\ MaxFd \in Nat /\ MaxRequests \in Nat \ {0}
ASSUME ThreadAssumption == Main \notin Workers
ASSUME ConnAssumption == None \notin Conns
ASSUME SwitchAssumption ==
    EmptyFiles \in {"never", "late", "always"} /\ AcceptErrors \in BOOLEAN

VARIABLES
    \* the clients and the kernel
    started,        \* connections that have been made
    backlog,        \* those accept has not returned yet, oldest first
    listenEdge,     \* listenfd has an edge epoll_wait has not reported
    unread,         \* connections with received data recv has not returned
    hungUp,         \* connections whose peer has closed
    fdConn,         \* the connection behind each open descriptor
    interest,       \* epoll: "none" (not registered), "off" (fired), "in", "out"
    \* the connection objects, users[fd]
    m_sockfd,
    pending,        \* m_write_idx > 0: a response has been built
    m_linger,
    m_user_count,
    \* the threads
    queue,          \* the pool's queue of users + fd
    batch,          \* what is left of the events array
    pc,             \* where each thread is
    slot,           \* the users[] entry it works on
    count           \* its register for m_user_count++ and --

kernel == <<started, backlog, listenEdge, unread, hungUp, fdConn, interest>>
users == <<m_sockfd, pending, m_linger, m_user_count>>
threads == <<queue, batch, pc, slot, count>>
vars == <<kernel, users, threads>>

(* Control of a thread: take up users[f], go on with it, be done with it. *)
Begin(t, f, label) ==
    pc' = [pc EXCEPT ![t] = label] /\ slot' = [slot EXCEPT ![t] = f]
Goto(t, label) == Begin(t, slot[t], label)
End(t) == Begin(t, ListenFd, "idle")

Open == {f \in Fds : fdConn[f] # None}
Armed == {f \in Fds : interest[f] \in {"in", "out"}}

Init ==
    /\ started = {} /\ backlog = << >> /\ listenEdge = FALSE
    /\ unread = {} /\ hungUp = {}
    /\ fdConn = [f \in Fds |-> None]
    /\ interest = [f \in Fds |-> "none"]
    /\ m_sockfd = [f \in Fds |-> Unset]
    /\ pending = [f \in Fds |-> FALSE]
    /\ m_linger = [f \in Fds |-> FALSE]
    /\ m_user_count = 0
    /\ queue = << >> /\ batch = {}
    /\ pc = [t \in Threads |-> "idle"]
    /\ slot = [t \in Threads |-> ListenFd]
    /\ count = [t \in Threads |-> 0]

-------------------------------------------------------------------------------
(* The clients. *)

Connect(c) ==
    /\ c \notin started
    /\ started' = started \cup {c}
    /\ backlog' = Append(backlog, c)
    /\ listenEdge' = TRUE
    /\ UNCHANGED <<unread, hungUp, fdConn, interest, users, threads>>

(* A connection behind a descriptor; one that is, or waits in the backlog. *)
Served(c) == \E f \in Fds : fdConn[f] = c
Connected(c) == c \in ToSet(backlog) \/ Served(c)

Send(c) ==
    /\ Connected(c) /\ c \notin hungUp \cup unread
    /\ unread' = unread \cup {c}
    /\ UNCHANGED <<started, backlog, listenEdge, hungUp, fdConn, interest, users, threads>>

HangUp(c) ==
    /\ Connected(c) /\ c \notin hungUp
    /\ hungUp' = hungUp \cup {c}
    /\ UNCHANGED <<started, backlog, listenEdge, unread, fdConn, interest, users, threads>>

-------------------------------------------------------------------------------
(* modfd: re-arm a descriptor.  EPOLL_CTL_MOD fails, and the code does not look,
   when the descriptor is -1 or is not registered. *)
Rearm(fd, ev) ==
    interest' = IF fd \in Fds /\ interest[fd] # "none"
                THEN [interest EXCEPT ![fd] = ev] ELSE interest

(* Mutant of Disarm: EPOLLONESHOT forgotten in the registration. *)
DisarmNothing(fired) == interest' = interest

(* EPOLLONESHOT: a descriptor that fires is disabled until modfd re-arms it. *)
Disarm(fired) == interest' = [f \in Fds |-> IF f \in fired THEN "off" ELSE interest[f]]

(* epoll_wait: every armed descriptor whose peer hung up or has sent data, and
   those waiting for EPOLLOUT whose socket has room, fire and are disarmed; the
   edge-triggered listenfd fires once, however many connections have arrived. *)
EpollWait ==
    /\ pc[Main] = "idle" /\ batch = {}
    /\ \E writable \in SUBSET {f \in Armed : interest[f] = "out"} :
         LET fired == writable \cup
                {f \in Armed : fdConn[f] \in hungUp \/ (interest[f] = "in" /\ fdConn[f] \in unread)}
             what(f) == IF fdConn[f] \in hungUp THEN "hup" ELSE interest[f]
         IN /\ batch' = {[fd |-> f, event |-> what(f)] : f \in fired} \cup
                        (IF listenEdge THEN {[fd |-> ListenFd, event |-> "in"]} ELSE {})
            /\ batch' # {}
            /\ Disarm(fired)
    /\ listenEdge' = FALSE
    /\ UNCHANGED <<started, backlog, unread, hungUp, fdConn, users, queue, pc, slot, count>>

(* The main thread takes the next event of the array. *)
Dispatch(fd, event) ==
    /\ pc[Main] = "idle"
    /\ [fd |-> fd, event |-> event] \in batch
    /\ batch' = batch \ {[fd |-> fd, event |-> event]}

-------------------------------------------------------------------------------
(* accept and http_conn::init(int, const sockaddr_in &). *)

(* A closed connection takes its received data with it. *)
Forget(c) == unread' = unread \ {c} /\ hungUp' = hungUp \ {c}

FreeFds == Fds \ Open
LowestFree == CHOOSE f \in FreeFds : \A g \in FreeFds : f <= g

(* Mutant of Reset: m_write_idx keeps its value. *)
ResetLingerOnly(f) ==
    /\ m_linger' = [m_linger EXCEPT ![f] = FALSE]
    /\ UNCHANGED pending

(* init(): nothing read, nothing to write, no keep-alive. *)
Reset(f) ==
    /\ pending' = [pending EXCEPT ![f] = FALSE]
    /\ m_linger' = [m_linger EXCEPT ![f] = FALSE]

(* accept fails (no descriptor is free, or the kernel is out of memory): the
   connection stays in the backlog, and its edge has been used up. *)
AcceptFails ==
    /\ Dispatch(ListenFd, "in")
    /\ AcceptErrors \/ FreeFds = {}
    /\ UNCHANGED <<kernel, users, queue, pc, slot, count>>

(* m_user_count >= MAX_FD: show_error sends a line and closes. *)
AcceptBusy ==
    /\ Dispatch(ListenFd, "in")
    /\ backlog # << >> /\ FreeFds # {}
    /\ m_user_count >= MaxFd
    /\ backlog' = Tail(backlog)
    /\ Forget(Head(backlog))
    /\ UNCHANGED <<started, listenEdge, fdConn, interest, users, queue, pc, slot, count>>

(* Mutant of Accept: users[sockfd].init(...) for users[connfd].init(...). *)
AcceptWrongEntry ==
    /\ Dispatch(ListenFd, "in")
    /\ backlog # << >> /\ FreeFds # {}
    /\ m_user_count < MaxFd
    /\ backlog' = Tail(backlog)
    /\ fdConn' = [fdConn EXCEPT ![LowestFree] = Head(backlog)]
    /\ Begin(Main, ListenFd, "init_sockfd")
    /\ UNCHANGED <<started, listenEdge, unread, hungUp, interest, users, queue, count>>

Accept ==
    /\ Dispatch(ListenFd, "in")
    /\ backlog # << >> /\ FreeFds # {}
    /\ m_user_count < MaxFd
    /\ backlog' = Tail(backlog)
    /\ fdConn' = [fdConn EXCEPT ![LowestFree] = Head(backlog)]
    /\ Begin(Main, LowestFree, "init_sockfd")
    /\ UNCHANGED <<started, listenEdge, unread, hungUp, interest, users, queue, count>>

InitSockfd ==
    /\ pc[Main] = "init_sockfd"
    /\ m_sockfd' = [m_sockfd EXCEPT ![slot[Main]] = slot[Main]]
    /\ Goto(Main, "init_addfd")
    /\ UNCHANGED <<kernel, pending, m_linger, m_user_count, queue, batch, count>>

InitAddfd ==
    /\ pc[Main] = "init_addfd"
    /\ interest' = [interest EXCEPT ![slot[Main]] = "in"]
    /\ Goto(Main, "init_load")
    /\ UNCHANGED <<started, backlog, listenEdge, unread, hungUp, fdConn, users,
                   queue, batch, count>>

(* m_user_count++ is a load and a store; workers decrement it meanwhile. *)
InitLoad ==
    /\ pc[Main] = "init_load"
    /\ count' = [count EXCEPT ![Main] = m_user_count]
    /\ Goto(Main, "init_store")
    /\ UNCHANGED <<kernel, users, queue, batch>>

InitStore ==
    /\ pc[Main] = "init_store"
    /\ m_user_count' = count[Main] + 1
    /\ count' = [count EXCEPT ![Main] = 0]
    /\ Reset(slot[Main])
    /\ End(Main)
    /\ UNCHANGED <<kernel, m_sockfd, queue, batch>>

-------------------------------------------------------------------------------
(* close_conn, run by the main thread or by a worker.  What follows the call:
   the main thread goes on with its events, a worker returns into process. *)

AfterClose(t) == IF t = Main THEN End(t) ELSE Goto(t, "arm")

(* Mutant of CloseMark: m_sockfd is left as it was. *)
CloseMarkForgotten(t) ==
    /\ pc[t] = "close_mark"
    /\ Goto(t, "close_load")
    /\ UNCHANGED <<kernel, users, queue, batch, count>>

(* An object that has no descriptor is closed already; otherwise removefd, which
   is EPOLL_CTL_DEL and close: from here on accept may return the number. *)
CloseFd(t) ==
    LET fd == m_sockfd[slot[t]] IN
    /\ pc[t] = "close"
    /\ IF fd = NoFd
       THEN /\ AfterClose(t)
            /\ UNCHANGED <<unread, hungUp, fdConn, interest>>
       ELSE /\ fdConn' = [fdConn EXCEPT ![fd] = None]
            /\ interest' = [interest EXCEPT ![fd] = "none"]
            /\ Forget(fdConn[fd])
            /\ Goto(t, "close_mark")
    /\ UNCHANGED <<started, backlog, listenEdge, users, queue, batch, count>>

CloseMark(t) ==
    /\ pc[t] = "close_mark"
    /\ m_sockfd' = [m_sockfd EXCEPT ![slot[t]] = NoFd]
    /\ Goto(t, "close_load")
    /\ UNCHANGED <<kernel, pending, m_linger, m_user_count, queue, batch, count>>

(* Mutant of CloseStore: the counter is not decremented. *)
CloseStoreSame(t) ==
    /\ pc[t] = "close_store"
    /\ m_user_count' = count[t]
    /\ count' = [count EXCEPT ![t] = 0]
    /\ AfterClose(t)
    /\ UNCHANGED <<kernel, m_sockfd, pending, m_linger, queue, batch>>

CloseLoad(t) ==
    /\ pc[t] = "close_load"
    /\ count' = [count EXCEPT ![t] = m_user_count]
    /\ Goto(t, "close_store")
    /\ UNCHANGED <<kernel, users, queue, batch>>

CloseStore(t) ==
    /\ pc[t] = "close_store"
    /\ m_user_count' = count[t] - 1
    /\ count' = [count EXCEPT ![t] = 0]
    /\ AfterClose(t)
    /\ UNCHANGED <<kernel, m_sockfd, pending, m_linger, queue, batch>>

CloseConn(t) == CloseFd(t) \/ CloseMark(t) \/ CloseLoad(t) \/ CloseStore(t)

-------------------------------------------------------------------------------
(* The other events of the main loop. *)

OnHangUp(f) ==
    /\ Dispatch(f, "hup")
    /\ Begin(Main, f, "close")
    /\ UNCHANGED <<kernel, users, queue, count>>

(* The object's descriptor is open and its peer has not closed. *)
Alive(f) == m_sockfd[f] \in Open /\ fdConn[m_sockfd[f]] \notin hungUp

(* read() empties the socket and succeeds... *)
OnReadable(f) ==
    /\ Dispatch(f, "in")
    /\ Alive(f)
    /\ unread' = unread \ {fdConn[m_sockfd[f]]}
    /\ Begin(Main, f, "append")
    /\ UNCHANGED <<started, backlog, listenEdge, hungUp, fdConn, interest, users, queue, count>>

(* ... or fails: the descriptor is bad, recv returns 0 because the peer has
   closed, or because the buffer has no room left for what was sent. *)
OnReadFails(f) ==
    /\ Dispatch(f, "in")
    /\ Begin(Main, f, "close")
    /\ UNCHANGED <<kernel, users, queue, count>>

(* pool->append(users + sockfd): the result is not looked at. *)
AppendRequest ==
    /\ pc[Main] = "append"
    /\ queue' = IF Len(queue) > MaxRequests THEN queue ELSE Append(queue, slot[Main])
    /\ End(Main)
    /\ UNCHANGED <<kernel, users, batch, count>>

(* What http_conn::write does: nothing to send, so re-arm and reset; ... *)
WriteNothing(f) ==
    /\ ~pending[f]
    /\ Rearm(m_sockfd[f], "in")
    /\ Reset(f)
    /\ UNCHANGED <<pc, slot>>

(* ... the socket buffer is full again; ... *)
WriteAgain(f) ==
    /\ pending[f] /\ m_sockfd[f] \in Open
    /\ Rearm(m_sockfd[f], "out")
    /\ UNCHANGED <<pending, m_linger, pc, slot>>

(* ... writev fails, for the descriptor is bad or the peer has closed; ... *)
WriteFails(f) ==
    /\ pending[f] /\ ~Alive(f)
    /\ Begin(Main, f, "close")
    /\ UNCHANGED <<interest, pending, m_linger>>

(* ... or the response is taken for sent: a keep-alive connection is reset and
   read again, another one is re-armed as well but then closed. *)
WriteDone(f) ==
    /\ pending[f] /\ m_sockfd[f] \in Open
    /\ Rearm(m_sockfd[f], "in")
    /\ IF m_linger[f]
       THEN Reset(f) /\ UNCHANGED <<pc, slot>>
       ELSE Begin(Main, f, "close") /\ UNCHANGED <<pending, m_linger>>

OnWritable(f) ==
    /\ Dispatch(f, "out")
    /\ WriteNothing(f) \/ WriteAgain(f) \/ WriteFails(f) \/ WriteDone(f)
    /\ UNCHANGED <<started, backlog, listenEdge, unread, hungUp, fdConn, m_sockfd,
                   m_user_count, queue, count>>

-------------------------------------------------------------------------------
(* http_conn::process, run by a worker. *)

Take(w) ==
    /\ pc[w] = "idle" /\ queue # << >>
    /\ queue' = Tail(queue)
    /\ Begin(w, Head(queue), "process")
    /\ UNCHANGED <<kernel, users, batch, count>>

(* Mutant of ProcessIncomplete: returns without modfd. *)
ProcessIncompleteNoModfd(w) ==
    /\ pc[w] = "process"
    /\ End(w)
    /\ UNCHANGED <<kernel, users, queue, batch, count>>

(* process_read returns NO_REQUEST: wait for more. *)
ProcessIncomplete(w) ==
    /\ pc[w] = "process"
    /\ Rearm(m_sockfd[slot[w]], "in")
    /\ End(w)
    /\ UNCHANGED <<started, backlog, listenEdge, unread, hungUp, fdConn, users,
                   queue, batch, count>>

(* A response has been built, for a keep-alive request or another one. *)
ProcessReply(w) ==
    /\ pc[w] = "process"
    /\ pending' = [pending EXCEPT ![slot[w]] = TRUE]
    /\ \E keepAlive \in BOOLEAN : m_linger' = [m_linger EXCEPT ![slot[w]] = keepAlive]
    /\ Goto(w, "arm")
    /\ UNCHANGED <<kernel, m_sockfd, m_user_count, queue, batch, count>>

(* process_write returns false, which it does for an empty file, after having
   written headers: the worker closes the connection. *)
ProcessFails(w) ==
    /\ EmptyFiles # "never"
    /\ EmptyFiles = "late" => started = Conns /\ backlog = << >>
    /\ pc[w] = "process"
    /\ pending' = [pending EXCEPT ![slot[w]] = TRUE]
    /\ Goto(w, "close")
    /\ UNCHANGED <<kernel, m_sockfd, m_linger, m_user_count, queue, batch, count>>

(* The last line of process, reached in both cases, reads m_sockfd again. *)
ProcessArm(w) ==
    /\ pc[w] = "arm"
    /\ Rearm(m_sockfd[slot[w]], "out")
    /\ End(w)
    /\ UNCHANGED <<started, backlog, listenEdge, unread, hungUp, fdConn, users,
                   queue, batch, count>>

-------------------------------------------------------------------------------
MainStep ==
    \/ EpollWait
    \/ AcceptFails \/ AcceptBusy \/ Accept
    \/ InitSockfd \/ InitAddfd \/ InitLoad \/ InitStore
    \/ \E f \in Fds : OnHangUp(f) \/ OnReadable(f) \/ OnReadFails(f) \/ OnWritable(f)
    \/ AppendRequest
    \/ CloseConn(Main)

WorkerStep(w) ==
    \/ Take(w) \/ ProcessIncomplete(w) \/ ProcessReply(w) \/ ProcessFails(w)
    \/ ProcessArm(w) \/ CloseConn(w)

Next ==
    \/ \E c \in Conns : Connect(c) \/ Send(c) \/ HangUp(c)
    \/ MainStep
    \/ \E w \in Workers : WorkerStep(w)

Spec == Init /\ [][Next]_vars

(* The main thread and the workers are scheduled; nothing makes a client act. *)
Fairness == WF_vars(MainStep) /\ \A w \in Workers : WF_vars(WorkerStep(w))
FairSpec == Spec /\ Fairness

(* Nothing in the code keeps two threads from running init() and close_conn at
   once.  Apart is what one lock around their bodies would bring about, and
   SerialSpec the server as it behaves as long as they do not overlap; without
   empty files it is all of Spec, for only the main thread runs them. *)
SectionLabels ==
    {"init_addfd", "init_load", "init_store", "close_mark", "close_load", "close_store"}
Apart ==
    \A t, u \in Threads : pc[t] \in SectionLabels /\ pc[u] \in SectionLabels => t = u
SerialSpec == Init /\ [][Next /\ Apart']_vars

-------------------------------------------------------------------------------
(* Properties. *)

Events == [fd : Fds, event : {"in", "out", "hup"}] \cup [fd : {ListenFd}, event : {"in"}]
MainLabels == {"idle", "init_sockfd", "init_addfd", "init_load", "init_store", "append"}
WorkerLabels == {"idle", "process", "arm"}
CloseLabels == {"close", "close_mark", "close_load", "close_store"}

(* The type invariant. *)
TypeOK ==
    /\ started \subseteq Conns /\ unread \subseteq Conns /\ hungUp \subseteq Conns
    /\ backlog \in Seq(Conns) /\ listenEdge \in BOOLEAN
    /\ fdConn \in [Fds -> Conns \cup {None}]
    /\ interest \in [Fds -> {"none", "off", "in", "out"}]
    /\ m_sockfd \in [Fds -> Fds \cup {NoFd, Unset}]
    /\ pending \in [Fds -> BOOLEAN] /\ m_linger \in [Fds -> BOOLEAN]
    /\ m_user_count \in Int
    /\ queue \in Seq(Fds) /\ batch \subseteq Events
    /\ pc \in [Threads -> MainLabels \cup WorkerLabels \cup CloseLabels]
    /\ pc[Main] \in MainLabels \cup CloseLabels
    /\ \A w \in Workers : pc[w] \in WorkerLabels \cup CloseLabels
    /\ slot \in [Threads -> Fds \cup {ListenFd}]
    /\ \A t \in Threads : pc[t] # "idle" => slot[t] \in Fds
    /\ count \in [Threads -> Int]

(* Who has connection object users[f] in hand: an event of f that is still in
   the array, an entry of the pool's queue, or a thread. *)
EventsOf(f) == {e \in batch : e.fd = f}
QueuedAt(f) == {i \in DOMAIN queue : queue[i] = f}
ThreadsOn(f) == {t \in Threads : pc[t] # "idle" /\ slot[t] = f}
Holders(f) ==
    Cardinality(EventsOf(f)) + Cardinality(QueuedAt(f)) + Cardinality(ThreadsOn(f))

(* One owner: EPOLLONESHOT and modfd hand a connection object from thread to
   thread so that at most one of them has it, whatever the interleaving; and
   while its descriptor is armed nobody has it but a main thread that is
   setting it up or about to close it. *)
OneOwner ==
    \A f \in Fds :
        /\ Holders(f) <= 1
        /\ f \in Armed => EventsOf(f) = {} /\ QueuedAt(f) = {} /\ ThreadsOn(f) \subseteq {Main}

(* A connection is lost only where the code drops it: a step that leaves an open
   descriptor unarmed and in nobody's hands, so that neither its requests nor
   its end will ever be noticed, is an append the full pool refuses. *)
Forgotten(f) ==
    f \in Open \ Armed /\ EventsOf(f) = {} /\ QueuedAt(f) = {} /\ ThreadsOn(f) = {}
LostOnlyWhenRefused ==
    [][\A f \in Fds :
          ~Forgotten(f) /\ Forgotten(f)' =>
              pc[Main] = "append" /\ slot[Main] = f /\ Len(queue) > MaxRequests]_vars

(* The descriptor and its object agree, workers closing connections included, as
   long as init() and close_conn do not overlap: a connection in use is known to
   its users[] entry under its own number, and an entry that claims its number,
   but for one a thread is working on, has an open connection behind it. *)
SlotMatches ==
    \A f \in Fds :
        /\ fdConn[f] # None =>
              m_sockfd[f] = f \/ (pc[Main] = "init_sockfd" /\ slot[Main] = f)
        /\ m_sockfd[f] = f /\ ThreadsOn(f) = {} => fdConn[f] # None

(* A response and the event that sends it go together: EPOLLOUT is asked for
   only when a response has been built, so write() never finds m_write_idx = 0;
   and a descriptor is armed for the next request only when the last response
   is gone, except on the way to its being closed. *)
ResponseMatchesEvent ==
    \A f \in Fds :
        /\ interest[f] = "out" \/ [fd |-> f, event |-> "out"] \in batch => pending[f]
        /\ interest[f] = "in" /\ pending[f] => ThreadsOn(f) = {Main}

(* The counter, "the number of users" (15_4_http_conn.h:66): between two events,
   with no worker in close_conn, m_user_count is the number of open connections.
   The main thread and the workers change it without a lock; it is exact as long
   as their init() and close_conn do not overlap, and wrong ever after once an
   increment or decrement of one has been lost under another's. *)
UserCountExact ==
    pc[Main] = "idle" /\ (\A w \in Workers : pc[w] \notin CloseLabels) =>
        m_user_count = Cardinality(Open)

(* A worker's connection is not closed or replaced under it: between Take and
   its last modfd, the descriptor of the object it works on changes only by its
   own close_conn. *)
WorkerKeepsConnection ==
    [][\A w \in Workers :
          pc[w] \in {"process", "arm"} => fdConn'[slot[w]] = fdConn[slot[w]]]_vars

(* A connection whose client has hung up is released in the end: whichever of
   epoll, the queue, a worker or the main thread has it, it comes back to epoll
   and is closed, and its descriptor is free again. *)
HangUpReleased ==
    \A c \in Conns : (c \in hungUp /\ Served(c)) ~> ~Served(c)

(* What the comment on close_conn says (15_4_http_conn.h:37, "close the
   connection"): when it has passed its test of m_sockfd, no connection is left
   behind the descriptor of the entry it was called on. *)
CloseConnCloses ==
    [][\A t \in Threads :
          pc[t] = "close" /\ pc'[t] # "close" => slot[t] \notin {f \in Fds : fdConn'[f] # None}]_vars
===============================================================================

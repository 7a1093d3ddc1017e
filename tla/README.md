# A TLA+ model of WebServerPrograming

The repository is a collection of network server programs in C++ (one
directory per chapter, `ch05` to `ch15`). Most are small demonstrations of a
system call. The programs with a design of their own, which this project
models, are the web server of `ch15` with its thread pool, the process pool of
`ch15` with its CGI server, the chat room of `ch13`, the chat server of `ch09`,
and of `ch11` the three timer containers and the server that closes idle
connections.

The modules are checked with TLC and the theorems with TLAPS; `PROJECT.json`
lists runs, mutants, theorems, findings, hazards and, definition by definition,
the source lines each one stands for.

## The system

### Components, their state and their operations

| component | source | state | operations | model |
|---|---|---|---|---|
| thread pool | `ch15/15_3_threadpool.h`, `ch14/14_2_locker.h` | request list, mutex, semaphore, `m_stop` | constructor, destructor, `append`, `run` | `ThreadPool` |
| web server loop | `ch15/15_6_webserver.cpp` | epoll set, events array, `users[MAX_FD]` | accept, dispatch of hang-up, EPOLLIN, EPOLLOUT | `WebServer` |
| HTTP connection | `ch15/15_4_http_conn.h`, `15_5_http_conn.cpp` | read and write buffers, parser state, mapped file, `m_sockfd`, the static `m_user_count` | `init`, `close_conn`, `read`, `process`, `write` | `WebServer` (ownership), `HttpConn` (content) |
| process pool, CGI server | `ch15/15_1_processpool.h`, `15_2_CGI.cpp` | the parent's table of children, a socket pair and a signal pipe each, a buffer per client | round robin, notification, `SIGCHLD`, `SIGTERM`, accept and `process` in the child | `ProcessPool` |
| chat room | `ch13/13_4_chatroom.cpp` | `users[]`, `sub_process[]`, one child per client, shared memory | accept and fork, relay, reap, terminate | `Chatroom` |
| chat server | `ch09/9_7_chatServer.cpp` | `fds[]`, `users[].write_buf`, `user_counter` | accept, refuse, relay, write, removal by moving the last entry | `ChatServer` |
| timer list | `ch11/11_2_list_timer.*` | doubly linked list sorted by expiry | add, adjust, delete, tick | `SortTimerList` |
| idle-connection server | `ch11/11_3_use_timer.cpp` | one timer per connection, `timeout`, the alarm | accept, read, close, `timer_handler` | `TimerServer` |
| time wheel | `ch11/11_5_timeWheel.*` | slots, rotations | add, delete, tick | `TimeWheel` |
| time heap | `ch11/11_6_timeMinHeap.cpp` | heap array, capacity | add, lazy delete, pop, tick | `TimeHeap` |
| wheel server, one-shot echo server, line state machine | `ch11/11_5_use_timeWheel.cpp`, `ch09/9_4_epolloneshot.cpp`, `ch08/8_3_FSM.cpp` | - | - | not modelled, see below |
| demonstrations | the rest of `ch05`-`ch14` | none that outlives a call | - | not modelled |

### How they interact

The main thread of the web server waits on one epoll set. It accepts, reads and
writes; a connection it has read is appended to the thread pool's queue, and a
worker runs `http_conn::process` on it, which parses, builds a response and
re-arms the descriptor (`modfd`). No lock protects a connection object: it is
handed from thread to thread by EPOLLONESHOT, which disables a descriptor when
its event is reported, and by `modfd`, which enables it again. The objects are
indexed by descriptor, and the kernel reuses the lowest free descriptor at
once.

The parent of the chat room accepts and forks a child for each client. A child
passes what its client says to the parent through a socket pair, and the parent
sends it to every other child. `SIGCHLD`, `SIGTERM` and `SIGINT` become bytes of
another socket pair that the parent reads like any descriptor. `users[]` and
`sub_process[]` are the parent's; a child has the copy of the moment it was
forked, and shares only the text segments.

The parent of the process pool watches the listening socket without accepting
from it: for each edge it writes an int to the socket pair of the next child,
which accepts from the same socket. It learns of the end of a child only from
`SIGCHLD`, and ends when it has waited for all; `SIGTERM` it passes on to them.

The chat server polls everything in one thread and leaves each user's copy of a
message at `users[fd].write_buf` until poll reports that the user can be
written to. The idle-connection server gives each connection a timer of the
list; its signal handler only writes the number of the signal to a pipe, and
the loop ticks the list after the events of the turn that brought `SIGALRM`.

### What is hard here, and what makes the parts correct

* Thread pool: `append` unlocks before it posts, `sem_wait` may return early and
  the result is not looked at. Correct when no wakeup and no request is lost or
  served twice, and the queue is first in first out.
* Web server: events that are handled after the descriptor was closed or
  reused, a worker that still runs when the main thread gets the next event,
  counters shared without a lock, edge-triggered `accept`. Correct when at most
  one thread has an object, a connection is lost by a refused `append` only, and
  a response is only sent on the connection it was built for.
* HTTP connection: requests cut anywhere, buffers at their limit, an object
  reused for request after request and client after client, short writes, a
  client that hangs up in between. Correct when each request is answered once,
  whole, in order, and nothing of the last one remains.
* Chat room: an index kept by a child while the parent moves clients about,
  coalesced signals and edges, signals that arrive before a handler or just
  before `epoll_wait`. Correct when the parent's tables describe the children
  that live, a message reaches the others once and in order as what its sender
  said, and places come free.
* Process pool: children that die between being chosen and being told, before
  or after they have handlers, or together with one `SIGCHLD`; notifications
  that share an edge; requests that come in parts. Correct when the parent knows
  whom it has not waited for, `SIGTERM` ends everything, and a request that an
  accepting child has is answered.
* Chat server: a table compacted in the middle of its scan, with events reported
  for its old entries; buffers and descriptors that outlive their user. Correct
  when the table is the set of open connections, whoever leaves is removed, and
  what a user is sent was copied for it, in order.
* Timers: pointers at the ends of the list, the heap's last child and its lazily
  deleted timers, slot arithmetic; in the server a tick that races with data and
  hang-ups, and descriptors and timer objects that are reused. Correct when each
  container calls back what is due, once and in order, and the server closes
  exactly the connections that have been idle.

`PROJECT.json` names the line where each of these bites and the properties
that watch it.

## The modules

`RequestQueue` (abstract) <- `ThreadPool` <- `ThreadPoolProofs`; `WebServer`,
`HttpConn`, `Chatroom`, `ProcessPool` and `ChatServer` each have their
`...Proofs` likewise; `TimerProofs` is about `TimerServer` and the three
containers, and `ContainerLemmas` has the facts about sequences, numbers and
recursive functions that these share. `WebServer`
uses the pool as the atomic queue `RequestQueue` describes, and a connection's
content as the outcomes `HttpConn` details; `HttpConn` in turn relies on
`WebServer!OneOwner` to treat its object as used by one thread at a time.
`Timers` (abstract) <- `SortTimerList`, `TimeHeap`, which with `TimeWheel` are
instances in `TimerContainers`; `TimerServer` is composed
with `Timers`, whose operations are conjuncts of its actions. `ProcessPool`,
`Chatroom` and `ChatServer` stand alone. The `MC` modules only give constants their
values, and `MCTimers` chooses which container a behaviour is of.

### RequestQueue

What the pool promises: `Accept`, `Refuse` when full, `Take`, `Finish` on a
bounded queue. No threads.

### ThreadPool

| model | code |
|---|---|
| `m_workqueue`, `m_queuelocker`, `m_queuestat`, `m_stop` | the members of the same name; the mutex is its holder, the semaphore its value |
| `pc`, `request` | where each thread is, and its local `request` |
| `life` | whether the constructor is running, has returned or thrown, or the destructor has run |
| `CreateThread`, `CreateFails`, `ConstructorReturns` | the constructor's loop: workers run while others are still being created |
| `Destroy` | the destructor's body |
| `AppendLock` ... `AppendPost` | `append`, a step per pthread call |
| `RunTest` ... `RunProcess` | the loop of `run`, likewise |
| `RunInterrupted` | `sem_wait` failing with EINTR, which `run` ignores |

Each request is appended at most once, which lets `OnePlace` speak about
identities; the pool itself never compares requests. After the destructor the
object is taken to stay readable: what the workers do to freed memory is beyond
the model. Failure of `lock`, `unlock` and `post` (whose results are ignored) is
not modelled: with valid arguments they do not fail.

### WebServer

| model | code |
|---|---|
| `fdConn`, `interest` | the kernel's descriptor table and epoll registrations; `"off"` is a one-shot that has fired |
| `backlog`, `listenEdge` | the listening socket and its edge |
| `m_sockfd`, `m_linger`, `pending` (`m_write_idx > 0`) | the members of `users[fd]` that control depends on |
| `m_user_count`, `count` | the shared counter and the register each thread adds in |
| `batch` | what is left of `events` |
| `EpollWait`, `Dispatch` | `epoll_wait` and the loop over its array, in any order |
| `Accept`, `InitSockfd`, `InitAddfd`, `InitLoad`, `InitStore` | `accept` and `init`, a step for each effect another thread can see |
| `CloseFd`, `CloseMark`, `CloseLoad`, `CloseStore` | `close_conn`, likewise, by whoever calls it |
| `OnReadable`, `OnReadFails`, `AppendRequest`, `OnWritable`, `OnHangUp` | the branches of the loop |
| `Take`, `ProcessIncomplete`, `ProcessReply`, `ProcessFails`, `ProcessArm` | a worker in `process` |

`m_sockfd` starts as `Unset`, the 0 of the fresh pages `new http_conn[MAX_FD]`
gets, since the constructor sets nothing. `m_linger` takes either value when a
response is built, since the request says which (and since `parse_headers`,
which would set it, is not in the repository). `ProcessFails` is `process_write`
returning false, which the code does for an empty file; the constant
`EmptyFiles` says whether the document root has one. `SerialSpec` is the server
in those behaviours in which no two threads are in `init` or `close_conn` at
once (`Apart`), which is what one lock around the two would bring about and
nothing in the code does. It is used for what a worker that closes leaves true
by itself; without empty files it is all of `Spec` (`WebServerNeverOverlaps`).
What the overlap does to the entry is shown by the run `close_conn`; it also makes
`UserCountExact` false, one thread's change of `m_user_count` being lost under
another's.

### HttpConn

One object over several connections. A line of text, its CR, its LF, a character
of a body and a page of a file are one element each. `m_read_buf` is the first
`m_read_idx` characters of the buffer, and what `parse_line` overwrites with
NULs (consumed line ends, which nobody reads again) is left as it is. `LineEnd`
is the loop of `parse_line`, with its branch for an LF behind a CR that was
passed before, which no call leaves as the code stands. `ParseTurn` and
`ParseEnds` are the turns of `process_read`; `Writev`, `WriteMore`, `WriteDone`,
`WriteAgain`, `WriteFails` those of `write`. `ParseHeaders` is external.
`mapped` is the set of pages that are mapped, so that `Unmap` can remove too
few, and be seen to. The file system does not change between `stat` and `mmap`,
and `open` succeeds. A fresh `m_file_address` is null: the objects are allocated
in one block of fresh, zeroed pages.

`add_headers` ends without a `return`; its result is not used, and a build
without optimisation (`.vscode/tasks.json` asks for none) ignores the garbage.
`15_5_http_conn.cpp` defines `process_read` twice, identically; the model reads
either.

### Chatroom

| model | code |
|---|---|
| `users`, `user_count` | the first `user_count` entries of `users[]`, and their number |
| `sub_process`, `terminate`, `stop_server` | the variables of the same name |
| `parent`, `batch`, `signals` | where the parent is, and what is left of its arrays |
| `child`, `idx`, `stop_child`, `woken` | the same of each child, and the index it was forked with |
| `share_mem` | the segments, by index |
| `sig_pipe`, `chld` | the bytes in `sig_pipefd`, a pending `SIGCHLD` |
| `up`, `down`, `upEdge`, `downEdge` | the two directions of each child's `pipefd` |
| `parentBuffer`, `childBuffer` | `message_with_sender` of the parent, and of each child |
| `Accept`, `AcceptRefused`, `AcceptFails`, `OnSignals`, `Reap`, `ReapDone`, `OnTerm`, `Relay`, `Stop` | the branches of the parent's loop |
| `CloseSigPipe`, `AddSig`, `Test`, `Enter`, `Wake`, `ReadClient`, `Forward`, `ReadPipe`, `EventsDone` | the child, from `fork` to its exit |

A child's life is cut where a signal makes a difference: before it closes its
copy of `sig_pipefd[1]` it runs the parent's handler, then the signal does
nothing, then it sets `stop_child`, and only in `epoll_wait` does it also wake
the child. A client, its child and its pid have one name. A recv on a stream
returns the first messages of those that wait, any number of them; a message is
not cut. `taken` is history: the number of the last message the child has read of
its client.

`recv` does not end `message_with_sender` with a NUL, and `send` is given `strlen`
of it. So the arrays are kept from one use to the next: the text of a `recv` is
written over their start, of what was there before some end remains, how much
depending on the lengths (`Rests`), and what is sent is the text and what remains up
to the first NUL (`Strlen`, `LeftOver`), which only `snprintf` puts there (`Nul`).
What is sent once more in this way is marked `left`. The two arrays of `run_child` are
in disjoint scopes, as are `message_with_sender` and `signals` of `main`, and are
taken to share their place, which a compiler is free to do and which gives more
behaviours; a part of a message counts as a message, and bytes nobody has sent are
left out, as is what lies behind the array.

Not modelled: what the children do after the parent has ended (those
it left get the end of their socket pairs), a socket pair that is full, a
failing `epoll_wait`, and a descriptor reused within one batch (its
first recv then comes early, before the event for it).

### ProcessPool

| model | code |
|---|---|
| `parent`, `known`, `sub_process_counter`, `m_stop` | where the parent is, the entries of `m_sub_process` whose `m_pid` is not -1, and the variables of the same name |
| `batch`, `signals` | what is left of its `events` and `signals` arrays, in any order |
| `child`, `stop`, `woken`, `childSigs` | the same of each child |
| `notices`, `pipeEdge` | the ints in each child's pipe, and its edge |
| `at`, `by`, `sent`, `read`, `edge`, `gone` | each client, the child that accepted it, what it has sent and what of it is in `m_buf` |
| `programs` | the CGI programs of each child that still run |
| `Notify`, `NotifyNobody`, `OnSignals`, `OnChld`, `OnTerm`, `ParentEnds` | `run_parent` |
| `ChildSetup`, `Notice`, `ChildSignals`, `Process`, `ChildEnds` | `run_child`, and `cgi_conn::process` |
| `Die`, `ProgramExits` | a child killed from outside, the end of a program |

`"closed"` is what the server has done: a program forked by a child inherits the
child's other connections, and one of them that the child closes meanwhile ends
for its client only when the program does.

A request is two parts, the second of which ends its line; `process` reads all
that has arrived. Whether the file exists and fork succeeds is the choice of
`Process`. Signals are sets: several bytes of one kind do what one does. A pid is
not reused. In `OnTerm` a child that has not yet installed its handlers dies of
the signal.

### Timers, SortTimerList, TimeHeap, TimeWheel, TimerContainers

`Timers` is a function from the pending timers to the time each has left (0 or
less: due) and what the last step called back. `SortTimerList` has `head`,
`tail`, `next` and `prev`, with the assignments of each operation; `Free` is
`delete`, after which the object may be made again. `TimeHeap` has the array
from 0 on; a timer that is not in `cb_func` was cancelled and waits for its
turn. `TimeWheel` has a sequence for each slot's list. `Selection!SelectIn`,
which heap and wheel use for the timers of a sequence that are of some kind, is
`SelectSeq` written as a recursive function over a set, so that it can be proved
about. A refinement of `Timers` by the wheel would be of the ticks it counted, not
of the timeout it was given, since the slot is computed with `&`; `WheelOnTime`
states what is left: each tick takes one from what remains to each timer. `expire`
and `left` are relative to the present, and `Elapse` counts them down.
`TimerContainers` has the three side by side and names what is said of them;
`MCTimers` chooses one of them at the start and runs it, so that one run checks
them all, and `TimerProofs` proves it of each.

The callers' obligations are guards: a timer is added when it is not held,
adjusted or deleted when it is, and adjusted only to a later time.
`TimerServer!TimersMatch` shows that the server keeps to them.

### TimerServer

| model | code |
|---|---|
| `left`, `fired` | `timer_list` |
| `timer`, `user_data` | `users[fd].timer` and the timer's `user_data->sockfd`, kept when they dangle |
| `batch`, `timeout`, `stop_server` | the variables of `main`'s loop |
| `sigs`, `alarm` | the bytes in `pipefd`, the time to the next `SIGALRM` |
| `fdConn`, `edge`, `unread`, `hungUp` | the kernel's side of the connections |
| `Accept`, `OnSignals`, `OnData`, `OnNothing`, `OnHangUp`, `TimerHandler`, `Stop` | the branches of the loop |
| `quiet` | history: how long a connection has been silent |

`accept` and `new` return the lowest free descriptor and object, which makes
reuse as quick as it can be. `accept` succeeds (a failing one writes `users[-1]`,
a finding). Since one `recv` returns at most 63 bytes and has no loop, `OnData`
may leave data unread with no edge.

### ChatServer

| model | code |
|---|---|
| `fds`, `user_counter` | the entries of `fds[]` from 1 on: descriptor, whether POLLOUT is polled, `revents` |
| `scan`, `listening` | `i`, and `fds[0].revents` |
| `write_buf` | the pointer of each `users[fd]`: null, wild (never set), freed, or a copy made for someone |
| `conn`, `backlog`, `unread`, `hungUp`, `error` | the kernel's side |
| `Poll`, `Accept`, `AcceptRefused`, `OnError`, `OnHangUp`, `Read`, `Write`, `Skip` | `poll` and the branches of the scan |

`OnHangUp` copies `users[]` with its pointer as the code does, so that two
entries may share one. A user that was once polled for writing stays so, as
`|= ~POLLOUT` has it, and there is always room to send. A client sends its next
message when the last was read. Not modelled: `SIGPIPE`, which is not ignored
and ends the server when a client resets its connection between `poll` and
`send`; a failing `accept`.

## The runs

| run | question | bounds | result |
|---|---|---|---|
| `thread_pool` | do lock and semaphore lose nothing, and does the pool implement the queue? | 2 appenders, 2 workers, 3 requests (1 null), `m_max_requests` 1, 1 interrupt | holds |
| `web_server` | is every object with one thread, none replaced under a worker, and released when its client hangs up? | 3 clients, 3 descriptors, 1 worker, `MAX_FD` 2, queue 1, failing accepts, empty files once all clients are accepted, fair | holds |
| `web_server_serial` | with workers that close, do entry and descriptor agree, is the count exact, is a connection lost by a refused `append` only? | 3 clients, 3 descriptors, 2 workers, `MAX_FD` 3, queue 1, empty files, `SerialSpec`, symmetry | holds |
| `close_conn` | does `close_conn` close, when a worker calls it? | 2 clients, empty files | violated |
| `http_conn` | is each request answered rightly, in order, however it arrives? | 6 kinds of request, 2 per connection, 2 connections, buffer 8, 1 short write | holds |
| `chat_room` | do the parent's tables agree with the children, and is every child that exits reaped? | 3 clients, `USER_LIMIT` 2, no messages, 1 `SIGTERM`, failing accepts and forks, fair | holds |
| `chat_room_relay` | is the relay in order and once, apart from left-over text? | 2 clients, 2 messages, arrays of 3, symmetry | holds |
| `chat_room_text` | is what is relayed the sender's text? | 3 clients, 2 messages, symmetry | violated |
| `process_pool` | does the parent know its children, does `SIGTERM` end the pool, is a request answered? | 2 children, 2 clients, 1 death, fair | holds |
| `timers` | do list and heap implement the timers, does each tick of the wheel count? | 4 timers (wheel 3), delays to 2, 1 late, heap of capacity 1, 6 slots, timeouts to 15 | holds |
| `timer_server` | has each connection its own timer, is it closed when idle and not before? | 2 clients, `TIMESLOT` 1, ticks 1 late, fair | holds |
| `chat_server` | does the table follow the connections, is what is sent the receiver's own? | 3 clients, `USER_LIMIT` 2, 3 messages in all, fair | holds |

Why the bounds are enough: two appenders and two workers give every pair of
roles in the pool, and three requests overfill a queue of `m_max_requests` = 1
(which takes two). In the web server a descriptor must be closed and taken again
while two threads are about, which two clients give; the third fills the server
up (`AcceptBusy`). Three clients, two workers and fairness together exceed what
TLC can do here: `web_server` has the main thread and one worker, a request being
handed between them and the queue, `web_server_serial` and `close_conn` have two,
and the safety theorems are for any number. In `HttpConn` the second request
meets what the first one left, the second connection what the first one left, and the longest request
exceeds the buffer; every cut of a request is tried, and a line that ends in a
bare LF, which is never answered and which `AnsweredOrClosed` says it leaves
out. In `Chatroom` a slot swap needs two users and a newcomer after it a third,
which is also the one that is refused; two children are enough for one `SIGCHLD`
to stand for both. Two messages are enough for order, for a `recv` that returns
both and for a short one over a longer one, in an array of three (a message, its
NUL, and a rest); three exceed what TLC can do here, and three clients go through
all their states without messages. `ChatroomRelayInOrder` is for any number of
each. In `ProcessPool` two children are enough for one to be told and the
other to accept, for one to die and the other to be chosen, and for one
`SIGCHLD` to stand for both. Four timers give the list a head, a tail and two
between, so that a timer between is moved among others, and the heap a third
level and two resizes; the wheel's timeouts take up to two rotations. In
`TimerServer` two clients give a descriptor and a timer object that are reused
by the second, or two connections at once; reuse beside a third connection that
lives needs a third client, since each connects once, and is left to
`TimerServerTimersMatch`, which is for any number; `TIMESLOT` is the unit of
time, and with one unit per slot a limit of three slots still lies between ticks
(2 has been tried as well). In `ChatServer` the removal of an entry that is not
the last, with events reported for the one that takes its place, needs two
users, the refusal and the reuse of a descriptor a third client.

Deadlock is not checked where every client may be gone, every request handled,
or the bounds reached: the programs then wait for ever, as they should.

The runs that expect a violation each show a disagreement with a comment of the
code, quoted in `PROJECT.json`. In `web_server` a worker
closes a connection only when no client is left that could be given its number
(`close_conn` shows what breaks otherwise, `web_server_serial` what does not) and,
with `MAX_FD` 2, the queue holds every connection. In `web_server_serial` the third
connection can be refused: the server does not look at what `append` returns, and
the connection is never heard of again, but no other step has this effect.

Other disagreements are findings without a run, where the model follows the code
and no run is about what it gets wrong. The wider ones: one `accept`
per edge of an edge-triggered listening socket (web server, timer server,
process pool); `m_user_count` when a worker's `close_conn` meets `init`; in the
chat room text of older messages, the receiver's own among it, behind a shorter
one; `m_stop` that wakes nobody; a short `writev` that ends or repeats
a response; a file that stays mapped when its client hangs up; in the chat room
too an end of stream that arrives with a message, and a `SIGTERM` at the wrong
moment; in the process pool a notification to a child that is dead; in the chat
server a pending message overwritten by the next and `|= ~POLLIN`; the slot of
the time wheel; the destructor of the timer list; and what does not compile.

### Fairness

Weak fairness of each pool thread's own steps (`Constructor`, `AppendStep`,
`RunStep`), of the server's main thread and of each worker, and in `HttpConn` of
the thread at work and of TCP delivery, in `Chatroom` and `ProcessPool` of the
parent and of each child, in `ChatServer` of the server, and in `TimerServer` of
the server and of the clock (`Elapse`, which waits while a due timer would be
more than `MaxLate` late: the server is faster than that): the threads are
runnable whenever a step is enabled and nothing in the code suspends them. A
mutex that many threads want could in principle starve one of them under weak
fairness; the properties do not depend on it, since another worker then serves.
No fairness is assumed of clients, hang-ups, appends, interrupts or destruction.

## What is proved

All theorems hold for every value of the constants, under the named ASSUMEs of
the modules (which TLC evaluates in every run) and the assumptions listed here.

| module | theorem | states | assuming |
|---|---|---|---|
| `ThreadPoolProofs` | `PoolTypes` | `TypeOK` | |
| | `LockIsDisciplined` | `TypeOK` and `LockDiscipline` | |
| | `WakeupsAreNotLost` | `NoLostWakeup` | |
| | `TokensMeanRequests` | `TokenMeansRequest` | |
| | `RequestsAreInOnePlace` | `OnePlace` | |
| | `QueueIsBounded` | the queue holds at most `m_max_requests + 1` | |
| | `PoolImplementsQueue` | the refinement `ImplementsQueue` | |
| `WebServerProofs` | `WebServerTypes` | `TypeOK` | |
| | `WebServerOneOwner` | `OneOwner` | `NoEmptyFile` |
| | `WebServerResponses` | `ResponseMatchesEvent` | `NoEmptyFile` |
| | `WebServerWorkerKeeps` | the action property `WorkerKeepsConnection` | `NoEmptyFile` |
| | `WebServerNeverOverlaps` | `Spec => SerialSpec` | `NoEmptyFile` |
| | `WebServerSlotMatches` | `SlotMatches`, of `SerialSpec` | |
| | `WebServerUserCount` | `UserCountExact`, of `SerialSpec` | |
| | `WebServerLosesOnlyRefused` | the action property `LostOnlyWhenRefused`, of `SerialSpec` | |
| `HttpConnProofs` | `HttpConnTypes` | `TypeOK` | |
| | `HttpConnAnswers` | `AnswersInOrder` | `Plain` |
| | `HttpConnStream` | `BufferIsStream` | `Plain` |
| | `HttpConnWhole` | `WholeUnlessShort` | `Plain` |
| `ChatroomProofs` | `ChatroomTypes` | `TypeOK` | |
| | `ChatroomTablesAgree` | `TablesAgree` | |
| | `ChatroomRelayInOrder` | `RelayInOrder` | |
| `ProcessPoolProofs` | `ProcessPoolTypes` | `TypeOK` | |
| | `ProcessPoolStopMeansReaped` | `StopMeansReaped` | |
| `ChatServerProofs` | `ChatServerTypes` | `TypeOK` | |
| | `ChatServerHeardIsOwn` | the action property `HeardIsOwn` | |
| `TimerProofs` | `TimerServerTypes` | `TypeOK` | |
| | `TimerServerTimersMatch` | `TimersMatch` | |
| | `TimerServerNotTooEarly` | the action property `NotTooEarly` | |
| | `ListIsLinked` | `SortTimerList!ListLinked` | `SortTimerList!ConstantsOK` |
| | `ListIsTimers` | the refinement `SortTimerList!ListImplements` | `SortTimerList!ConstantsOK` |
| | `WheelIsOnTime` | the action property `TimeWheel!WheelOnTime` | `TimeWheel!ConstantsOK` |
| | `HeapIsOrdered` | `TimeHeap!HeapOrdered` | `TimeHeap!ConstantsOK` |
| | `HeapIsTimers` | the refinement `TimeHeap!HeapImplements` | `TimeHeap!ConstantsOK` |

The three `ConstantsOK` are hypotheses of their theorems because the containers
are instances in `TimerContainers`; `MCTimers` assumes them of its constants.
They ask that the list's timers are finitely many and none of them null, that a
heap is made with room for one timer at least, and that the wheel has two slots
or more and slots of some duration. Nothing is assumed of the delays, nor of
`MaxDelay` and `MaxLate`.

Three assumptions say when the code is right, and each marks a finding:

* `NoEmptyFile`: the document root has no empty file. For an empty one
  `process_write` returns false and a worker calls `close_conn`
  (`15_5_http_conn.cpp:446`), and then arms whatever the entry names by then
  (line 450): the run `close_conn` shows what comes of it.
* `SerialSpec`: no two threads are in `init` or `close_conn` at once. Workers
  may close connections, between any two steps of the main thread outside these
  functions. The theorems say what is right about the closing itself; the run
  `close_conn` has the overlap. Nothing is assumed of `MAX_FD`
  and `m_max_requests`.
* `Plain`: clients wait for an answer before they ask again, and send no bodies.
  `init` throws away what was read early, and `parse_content` compares the wrong
  way round; the properties of the answers are false without it. The requests may
  be malformed, of any headers and cut anywhere, and hang-ups may come at any time.

### The arguments

*Thread pool.* `TypeOK /\ LockDiscipline` is inductive (`TInv`). On top of it,
`NoLostWakeup` is inductive because the list changes only under the mutex while
its owner is counted by `Posting` or `Admitted`: a push adds a request and a
poster, a post turns the poster into a token, a wait the token into an admitted
worker, a pop removes a request and the admitted worker. The last part of the
invariant (equality while no wait was interrupted) is what makes
`TokenMeansRequest` follow, and is needed for it: with `<=` alone a worker might
be admitted by a stale token. `OnePlace` is inductive with `TInv`. The bound and
the refinement then follow step by step: only `AppendPush`, `AppendFull`, `RunPop`
and `RunProcess` change what `RequestQueue` sees.

*Web server.* `OneOwner` counts the holders of an object, which an induction
cannot use. `WInv` says it without counting: the batch, the queue, the workers
and the main thread have different descriptors and each of them at most once
(`Exclusive`); whatever is taken is open and disarmed, and what a descriptor's
object and its registration are follows from where the main thread is (`Settled`);
a response is pending from the end of `process` to the end of `write`
(`Responses`). `EpollWait` may then take only what is armed, hence not taken.

The theorems about `SerialSpec` cannot use `WInv`, since a worker that has closed a
connection may arm a descriptor that somebody else has. `Entered` says what is left:
an entry names its own descriptor or is marked, and disagrees with the kernel's
table only between `accept` and `InitSockfd` of the main thread and between
`removefd` and the mark of whoever closes. `Counted` adds that the counter is behind
by one while the main thread is between `accept` and its store and ahead by one while
somebody is between `removefd` and its store, and that whoever is about to store has
the counter in its register, which is where the overlap would lose an update.
`KeptStep` goes through the steps for what each does with the connection it has:
only `AppendRequest` may drop it.

*HTTP connection.* The heart of `HInv` is `Stream` with `Parsing`: buffer, socket
and wire are together the request that waits for its answer; the parser is at the
start of its first line or of line `k` of its headers, where it has seen no end of
a line so far. `ParseLineFindsEnd` then says that wherever the request was cut,
`parse_line` stops at the next line end of the request or not at all; so a turn
leads to the next line, to the error a malformed request deserves, or to
`do_request` with nothing left in the socket (`TurnFacts`, `RequestLineTurn`,
`HeaderTurn`). That nothing is left is what allows `init` to clear the buffer when
the response has been written. `Writing` says that the vectors point to the answer
of the last request, so that `AnswersInOrder` survives short writes and repeats.
For `WholeUnlessShort`, `Delivered` adds that the client has the whole of what has
been written and nothing of what has not, and `Mapped` where a file is mapped.

*Chat room.* `CInv` relates the two tables to the states of the children
(`TablesAgree`), the backlog, the pending `SIGCHLD`, and the pipes of each child
to who may still use them (`Channels`). The slot swap of `Reap` is
`LastTakesPlace`. For `RelayInOrder`, `Ordered` follows a message that is not `left`: what a child
has taken from its client, what is on the way up, and what has been forwarded are
in this order, as are what is on the way down to a receiver and what it has heard.
Left-over text is between them wherever it likes: `TextInOrder` says that the text of
one `send` is a piece of the pipe and marked messages, and `Before` and `InOrder` are
about the others (`Fresh`). That a pipe holds messages at all needs `StrlenFinds`:
what `strlen` finds ends before a NUL.

*Process pool.* `PInv` says where each client is queued or attached, which
notices a child has, and that the parent's table is the children not waited for.
`Round` shows that the search for the next child ends at one that is known.

*Chat server.* `CInv` states the table as a list of the open descriptors without
duplicates, and what is left to scan of it; the move of the last entry keeps it in
the middle of a scan. `Owned` says of every pointer that the server may still
follow that it is a copy made for the present user of the descriptor.

*Timer server.* `TInv` says that descriptors of connections are apart (`Apart`), as
are their timers (`Timed`), what a batch may still report (`Batched`), that `quiet`
and the time left to a connection's timer add up to the limit (`Exact`), and when
the alarm is pending (`Ringing`); `NotTooEarly` follows from `Exact` when a timer
is called back.

*Timer containers.* What their loops compute is a recursive function of a place in
the array, of the steps left to walk or of the timers popped. A recursive function is
the CHOOSE of its equation, so a proof has to give a function that satisfies the
equation (`PathRecursion`) and show that any other agrees with it (`RankInduction`);
both come from a least counterexample (`EveryNatural`), which is induction over a set
instead of an operator. After that each loop is a lemma about one turn:

* *List.* `ListInv` says that there is a sequence of different timers, sorted by
  expiry, of which `head`, `tail`, `next` and `prev` are the links, and that all other
  timers have null pointers (`Chain`). The walk `Nodes` returns that sequence
  (`NodesOfChain`). Inserting, bypassing and freeing a timer are then `InsertLinks`,
  `RemoveLinks` and `FreeLinks`, whatever place it has; an adjusted timer stays,
  or leaves the chain and comes back behind the place it had. A tick takes the prefix of the chain
  that is due (`DuePrefix`), which is why it fires the earliest first.
* *Heap.* `HeapInv` says that the array is a heap of different timers (`Heaped`).
  `UpSifts` and `DownSinks` say what percolation makes of the array when it starts
  from a hole: on the way up the entries above the hole are in order with the timer
  to be put there, on the way down those below it (`Sifted`, `Sunk`). A tick pops up
  to the first entry that is not due, and `Taken` keeps, after each pop, that what has
  been popped is no later than what is left. The last conjunct of `HeapInv`, that
  nothing due is held after a step that called back, is needed for the refinement:
  `del_timer` leaves the timer in the array, so it may be cancelled again, which
  clears `fired` and nothing else; `Timers` does that by a tick with nothing due.
* *Wheel.* `WheelInv` says that a timer is in the slot its `time_slot` names, hence in
  one at most. `Turned` is the arithmetic of one turn modulo `N`, and `AndIsNatural`
  all that is needed of `&`: the slot is right whatever it computes.

The proof of `RelayInOrder` failed at first for a good reason: the model let a
child read its client's messages out of order as soon as a client says two,
which the runs of that time, with one each, had not shown. The history variable
`taken` keeps the order that TCP keeps.

### What is only model-checked

* Liveness: `AcceptedIsHandled`, `HangUpReleased`, `AnsweredOrClosed`,
  `ZombieIsReaped`, `TermEnds`, `RequestAnswered`, `IdleIsClosed`,
  `LeaverIsRemoved`. The prover does not do liveness under fairness, nor ENABLED.

## What is not modelled

* `ch11/11_5_use_timeWheel.cpp` is the loop of `TimerServer` over the wheel. Where
  it differs it is wrong: it takes EAGAIN for an end (line 159), which is the
  mutant `OnNothingClose` of `TimerServer`, and ticks a wheel of one-second slots
  every five seconds.
* `ch09/9_4_epolloneshot.cpp` serves one connection, since its listening socket is
  one-shot and never re-armed; the hand-over by EPOLLONESHOT is in `WebServer`.
* `ch08/8_3_FSM.cpp` is a blocking loop around one connection; its `parese_line` is
  `HttpConn`'s `ParseLine`, and the rest of its parser never leaves its first state.
* `ch09/9_6_chatClient.cpp` moves bytes between a terminal and a socket.
* The demonstrations of `ch05`-`ch07`, `ch10`, `ch12` and parts of `ch09`, `ch11`,
  `ch13`, `ch14`: straight-line programs with no state to get wrong over time.
* Command lines, socket set-up, logging and addresses everywhere; failing
  `epoll_wait` and `poll`; `SIGPIPE`; resource exhaustion other than descriptors,
  the queue, the tables and the buffers; what happens to freed memory.
* In `HttpConn`: bodies (`parse_content` compares the wrong way round) and clients
  that pipeline (`init` throws away what they sent early). The operators and the
  constant `Pipelining` are there; no property of the answers holds with them.

## What could be proved next

1. `WebServer` against `RequestQueue`, whose queue it uses as an atomic one.
2. `TimerServer` with the list in the place of `Timers`: `ListIsTimers` and
   `TimersMatch` together say that the composition is right, but no theorem does.

------------------------------- MODULE ChatServer -------------------------------
(***************************************************************************)
(* The chat server of ch09/9_7_chatServer.cpp: one thread that polls the   *)
(* listening socket and its clients, and for a message of one marks the    *)
(* others for writing and leaves each a copy in users[fd].write_buf.  The  *)
(* table of pollfds is scanned in the order of its entries; a client that  *)
(* leaves has its entry taken by the last.  users is indexed by            *)
(* descriptor, which the kernel reuses at once, and is not cleared.        *)
(***************************************************************************)
EXTENDS Integers, FiniteSets, SequencesExt

CONSTANTS NumClients,
          USER_LIMIT,
          MaxMessages   \* bound: messages of all clients together

ASSUME LimitAssumption ==
    NumClients \in Nat /\ USER_LIMIT \in Nat \ {0} /\ MaxMessages \in Nat

Clients == 1..NumClients    \* in the order in which they connect, each once
None == 0                   \* "no connection"
Fds == 1..NumClients        \* what accept may return: enough for all

VARIABLES
    fds,            \* the entries from 1 on: [fd, out, revents]; out: POLLOUT is polled
    listening,      \* fds[0].revents & POLLIN
    scan,           \* i, or -1 while poll waits
    write_buf,      \* of each users[fd]
    conn,           \* the connection behind each open descriptor
    backlog,
    unread,         \* connections with data recv has not returned
    hungUp,         \* connections whose peer has closed or reset them
    error,          \* connections with a pending error
    said,           \* how many messages each client has sent
    heard           \* history: what each client has been sent

server == <<fds, listening, scan, write_buf>>
kernel == <<conn, backlog, unread, hungUp, error>>
vars == <<server, kernel, said, heard>>

user_counter == Len(fds)

(* Pointers: a message carries the client it was copied for; users starts with
   whatever the memory holds. *)
Null == <<"null">>
Wild == <<"wild">>
Freed == <<"freed">>
Message(to, by, n) == <<"message", to, by, n>>

Init ==
    /\ fds = << >> /\ listening = FALSE /\ scan = -1
    /\ write_buf = [f \in Fds |-> Wild]
    /\ conn = [f \in Fds |-> None] /\ backlog = << >>
    /\ unread = {} /\ hungUp = {} /\ error = {}
    /\ said = [c \in Clients |-> -1]
    /\ heard = [c \in Clients |-> << >>]

Connected == {conn[f] : f \in Fds} \ {None}

-------------------------------------------------------------------------------
(* The clients. *)

Connect(c) ==
    /\ said[c] = -1 /\ \A b \in 1..c - 1 : said[b] # -1
    /\ said' = [said EXCEPT ![c] = 0]
    /\ backlog' = Append(backlog, c)
    /\ UNCHANGED <<server, conn, unread, hungUp, error, heard>>

(* The messages that have been sent. *)
Said == {p \in Clients \X (1..MaxMessages) : p[2] <= said[p[1]]}

Say(c) ==
    /\ c \in Connected \ (hungUp \cup unread)
    /\ Cardinality(Said) < MaxMessages
    /\ said' = [said EXCEPT ![c] = @ + 1]
    /\ unread' = unread \cup {c}
    /\ UNCHANGED <<server, conn, backlog, hungUp, error, heard>>

(* A client closes its connection, or resets it. *)
Leave(c) ==
    /\ c \in (Connected \cup ToSet(backlog)) \ hungUp
    /\ hungUp' = hungUp \cup {c}
    /\ error' \in {error, error \cup {c}}
    /\ UNCHANGED <<server, conn, backlog, unread, said, heard>>

-------------------------------------------------------------------------------
(* The server. *)

Reported(entry) ==
    LET c == conn[entry.fd] IN
    (IF c \in error THEN {"ERR"} ELSE {}) \cup
    (IF c \in hungUp THEN {"RDHUP", "IN"} ELSE {}) \cup
    (IF c \in unread THEN {"IN"} ELSE {}) \cup
    (IF entry.out THEN {"OUT"} ELSE {})

Poll ==
    /\ scan = -1
    /\ backlog # << >> \/ \E i \in 1..user_counter : Reported(fds[i]) # {}
    /\ listening' = (backlog # << >>)
    /\ fds' = [i \in 1..user_counter |-> [fds[i] EXCEPT !.revents = Reported(fds[i])]]
    /\ scan' = 0
    /\ UNCHANGED <<write_buf, kernel, said, heard>>

(* ++i, and out of the loop behind the last entry. *)
Advance == scan' = IF scan + 1 <= Len(fds') THEN scan + 1 ELSE -1

(* Mutant of Accept: the new client is polled for writing, as the others are. *)
AcceptForWriting ==
    LET fd == Min({f \in Fds : conn[f] = None}) IN
    /\ scan = 0 /\ listening
    /\ user_counter < USER_LIMIT
    /\ backlog' = Tail(backlog)
    /\ conn' = [conn EXCEPT ![fd] = Head(backlog)]
    /\ fds' = Append(fds, [fd |-> fd, out |-> TRUE, revents |-> {}])
    /\ Advance
    /\ UNCHANGED <<listening, write_buf, unread, hungUp, error, said, heard>>

Accept ==
    LET fd == Min({f \in Fds : conn[f] = None}) IN
    /\ scan = 0 /\ listening
    /\ user_counter < USER_LIMIT
    /\ backlog' = Tail(backlog)
    /\ conn' = [conn EXCEPT ![fd] = Head(backlog)]
    /\ fds' = Append(fds, [fd |-> fd, out |-> FALSE, revents |-> {}])
    /\ Advance
    /\ UNCHANGED <<listening, write_buf, unread, hungUp, error, said, heard>>

(* The kernel forgets a connection that is closed. *)
Forget(c) ==
    unread' = unread \ {c} /\ hungUp' = hungUp \ {c} /\ error' = error \ {c}

(* "too many users": accepted and closed. *)
AcceptRefused ==
    /\ scan = 0 /\ listening
    /\ user_counter >= USER_LIMIT
    /\ backlog' = Tail(backlog)
    /\ Forget(Head(backlog))
    /\ UNCHANGED fds /\ Advance
    /\ UNCHANGED <<listening, write_buf, conn, said, heard>>

(* The entry at i, its descriptor, and what poll reported of it. *)
Entry == fds[scan]
Fd == Entry.fd
Has(event) == scan > 0 /\ event \in Entry.revents

(* Mutant of OnError: the error is left pending. *)
OnErrorKeep ==
    /\ Has("ERR")
    /\ UNCHANGED fds /\ Advance
    /\ UNCHANGED <<listening, write_buf, kernel, said, heard>>

(* getsockopt takes the error; what else poll reported waits for the next turn. *)
OnError ==
    /\ Has("ERR")
    /\ error' = error \ {conn[Fd]}
    /\ UNCHANGED fds /\ Advance
    /\ UNCHANGED <<listening, write_buf, conn, backlog, unread, hungUp, said, heard>>

(* Mutant of Removed: the counter goes down before the last entry is copied. *)
RemovedLate(i) == SubSeq([fds EXCEPT ![i] = fds[Max({user_counter - 1, i})]], 1, user_counter - 1)

(* fds[i] = fds[user_counter], and the last is no longer counted. *)
Removed(i) == SubSeq([fds EXCEPT ![i] = fds[user_counter]], 1, user_counter - 1)

(* The client has closed, or recv fails: close; the last user takes the entry,
   which is looked at next, and its users[] is copied too, pointers and all. *)
OnHangUp ==
    LET c == conn[Fd] IN
    /\ ~Has("ERR")
    /\ Has("RDHUP") \/ (Has("IN") /\ c \in error)
    /\ write_buf' = [write_buf EXCEPT ![Fd] = write_buf[fds[user_counter].fd]]
    /\ fds' = Removed(scan)
    /\ scan' = IF scan <= Len(fds') THEN scan ELSE -1
    /\ conn' = [conn EXCEPT ![Fd] = None]
    /\ Forget(c)
    /\ UNCHANGED <<listening, backlog, said, heard>>

(* A message: every other user gets a copy of it, in the place of one that has
   not been sent yet, and is polled for writing from now on. *)
Read ==
    LET c == conn[Fd] IN
    /\ ~Has("ERR") /\ ~Has("RDHUP") /\ Has("IN")
    /\ c \in unread
    /\ unread' = unread \ {c}
    /\ fds' = [i \in 1..user_counter |-> IF i = scan THEN fds[i] ELSE [fds[i] EXCEPT !.out = TRUE]]
    /\ write_buf' = [f \in Fds |-> IF f # Fd /\ \E i \in 1..user_counter : fds[i].fd = f
                                   THEN Message(conn[f], c, said[c]) ELSE write_buf[f]]
    /\ Advance
    /\ UNCHANGED <<listening, conn, backlog, hungUp, error, said, heard>>

(* send and free what there is to write.  `events |= ~POLLOUT` does not end the
   polling for writing. *)
Write ==
    /\ Has("OUT") /\ ~Has("ERR") /\ ~Has("RDHUP") /\ ~Has("IN")
    /\ UNCHANGED fds /\ Advance
    /\ IF write_buf[Fd] = Null THEN UNCHANGED <<write_buf, heard>>
       ELSE /\ heard' = [heard EXCEPT ![conn[Fd]] = Append(@, write_buf[Fd])]
            /\ write_buf' = [f \in Fds |-> IF f = Fd THEN Null
                                           ELSE IF write_buf[f] = write_buf[Fd] THEN Freed
                                           ELSE write_buf[f]]
    /\ UNCHANGED <<listening, kernel, said>>

(* Nothing was reported of this entry. *)
Skip ==
    /\ \/ scan = 0 /\ ~listening
       \/ scan > 0 /\ Entry.revents = {}
    /\ UNCHANGED fds /\ Advance
    /\ UNCHANGED <<listening, write_buf, kernel, said, heard>>

ServerStep ==
    \/ Poll \/ Accept \/ AcceptRefused
    \/ OnError \/ OnHangUp \/ Read \/ Write \/ Skip

-------------------------------------------------------------------------------
Next ==
    \/ \E c \in Clients : Connect(c) \/ Say(c) \/ Leave(c)
    \/ ServerStep

Spec == Init /\ [][Next]_vars

(* The server is scheduled; the clients are free. *)
FairSpec == Spec /\ WF_vars(ServerStep)

-------------------------------------------------------------------------------
(* Properties. *)

(* The variables have their types: the table and the open connections are the
   same set, each once, also in the middle of a scan that removes entries, and
   the scan stays within it. *)
TypeOK ==
    /\ user_counter <= USER_LIMIT /\ scan \in -1..user_counter
    /\ \A i, j \in 1..user_counter : fds[i].fd = fds[j].fd => i = j
    /\ {fds[i].fd : i \in 1..user_counter} = {f \in Fds : conn[f] # None}
    /\ unread \cup hungUp \cup error \subseteq Connected \cup ToSet(backlog)

(* What a client is sent is a copy made for it, of another's message, and none
   twice or after a later one of the same sender: no buffer of an earlier user
   of its descriptor, copied, freed or never set (9_7_chatServer.cpp:113, 142-160). *)
HeardIsOwn ==
    [][\A c \in Clients : heard'[c] # heard[c] =>
        \E by \in Clients \ {c}, n \in 1..MaxMessages :
            /\ heard'[c] = Append(heard[c], Message(c, by, n))
            /\ \A k \in n..MaxMessages : Message(c, by, k) \notin ToSet(heard[c])]_vars

(* The connection of a client that leaves is closed, whatever poll reports of it
   first and whatever the others do (9_7_chatServer.cpp:77-119). *)
LeaverIsRemoved == \A c \in Clients : (c \in hungUp) ~> (c \notin hungUp)
===============================================================================

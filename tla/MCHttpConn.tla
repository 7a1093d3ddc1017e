------------------------------ MODULE MCHttpConn ------------------------------
(***************************************************************************)
(* Model-checking instances of HttpConn.                                   *)
(***************************************************************************)
EXTENDS HttpConn

Request(line, headers, body, target) ==
    [line |-> line, headers |-> headers, body |-> body, target |-> target]

KeepAlive == <<"keep-alive">>

(* Two files with something in them and an empty one. *)
MCFiles == {"A", "B", "E"}
MCSize == [f \in MCFiles |-> CASE f = "A" -> 1 [] f = "B" -> 2 [] f = "E" -> 0]

(* A file, an error, a malformed request, one whose first line ends in a bare LF,
   an empty file, and a request that is longer than the read buffer. *)
PlainRequests ==
    {Request("good", KeepAlive, 0, "A"),
     Request("good", KeepAlive, 0, "forbidden"),
     Request("malformed", << >>, 0, "A"),
     Request("bare LF", << >>, 0, "A"),
     Request("good", << >>, 0, "E"),
     Request("good", <<"keep-alive", "other">>, 0, "B")}

(* For the runs about write(). *)
KeptAlive == {Request("good", KeepAlive, 0, "B"), Request("good", KeepAlive, 0, "absent")}
===============================================================================

-------------------------------- MODULE D2D --------------------------------
(***************************************************************************)
(* Requests to other devices (user/cgi_d2d.c): the host asks for one with  *)
(* a control string, one is under way at a time, and the answer goes to    *)
(* the host.  The HTTP client is a library, which calls back once for      *)
(* every request it takes; whether it has taken it is not looked at.       *)
(***************************************************************************)
EXTENDS Naturals

CONSTANT Nonces      \* by which the host knows its requests

VARIABLES
  request_pending,
  underway,     \* requests the client will call back for
  owed,         \* nonces of the accepted requests that were not answered
  answers,      \* nonces of the answers the host is still to read
  refused       \* has the client not taken a request?

d2dvars == <<request_pending, underway, owed, answers, refused>>

NoCallback == "X"       \* requestNoopCb: nothing is sent to the host

D2DInit ==
  /\ request_pending = FALSE /\ underway = {} /\ owed = {} /\ answers = {}
  /\ refused = FALSE

D2DReset ==
  /\ request_pending' = FALSE /\ underway' = {} /\ owed' = {} /\ answers' = {}
  /\ refused' = FALSE

(* d2d_parse_command, for a command that can be parsed: "M" and "H" with   *)
(* the option X have no answer, any other "H" has.  What http_request      *)
(* returns is ignored: nobody lowers the flag for a request it refused.    *)
Command(n) ==
  /\ n = NoCallback \/ n \notin owed \cup answers
  /\ ~request_pending
  /\ request_pending' = TRUE
  /\ \/ underway' = underway \cup {n} /\ UNCHANGED refused
     \/ refused' = TRUE /\ UNCHANGED underway
  /\ owed' = owed \cup ({n} \ {NoCallback})
  /\ UNCHANGED answers

(* Mutant of AnswerTo: the callback leaves before it has answered.         *)
AnswerToNobody(n) == {}

AnswerTo(n) == {n} \ {NoCallback}

(* Mutant of NoneUnderway: a request without an answer leaves the flag up. *)
NoneForHost(n) == request_pending' = (n = NoCallback)

NoneUnderway(n) == request_pending' = FALSE

(* requestCb and requestNoopCb.                                            *)
Callback(n) ==
  /\ n \in underway
  /\ underway' = underway \ {n}
  /\ answers' = answers \cup AnswerTo(n)
  /\ owed' = owed \ {n}
  /\ NoneUnderway(n)
  /\ UNCHANGED refused

(* The host reads an answer.                                               *)
HostReads(n) ==
  /\ n \in answers
  /\ answers' = answers \ {n}
  /\ UNCHANGED <<request_pending, underway, owed, refused>>
=============================================================================

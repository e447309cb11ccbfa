------------------------------- MODULE HttpMetrics -------------------------------
(***************************************************************************)
(* How the server counts a request: HTTPMiddleware                         *)
(* (internal/metrics/http.go) runs inside the default middlewares, around  *)
(* the handler.  What the client is answered is decided around it, by the  *)
(* error handler of echo, after the middleware has counted.  The handlers  *)
(* and echo are external code, modelled from how main puts them together   *)
(* (cmd/server/main.go): a response starts with status 200, can be sent    *)
(* once, and an error that reaches echo is sent if nothing was.            *)
(***************************************************************************)
EXTENDS Integers

CONSTANTS
  Requests,
  Codes      \* the status codes handlers answer with

VARIABLES
  stage,     \* stage[r]: how far request r has come
  err,       \* err[r]: the error that travels outwards
  code,      \* code[r]: he.Code, if err[r] is an *echo.HTTPError
  status,    \* status[r]: c.Response().Status
  sent,      \* requests whose response has been sent
  requests,  \* requests[r]: the status r has in http_requests_total, 0 if none
  errors     \* requests in http_errors_total

vars == <<stage, err, code, status, sent, requests, errors>>

Init ==
  /\ stage = [r \in Requests |-> "absent"]
  /\ err = [r \in Requests |-> "nil"]
  /\ code = [r \in Requests |-> 0]
  /\ status = [r \in Requests |-> 200]
  /\ sent = {}
  /\ requests = [r \in Requests |-> 0]
  /\ errors = {}

-----------------------------------------------------------------------------
(* A request passes the default middlewares and reaches the handler. *)
Arrive(r) ==
  /\ stage[r] = "absent"
  /\ stage' = [stage EXCEPT ![r] = "handler"]
  /\ UNCHANGED <<err, code, status, sent, requests, errors>>

(* The handler writes a response. *)
Reply(r) ==
  /\ stage[r] = "handler"
  /\ r \notin sent
  /\ \E c \in Codes : status' = [status EXCEPT ![r] = c]
  /\ sent' = sent \cup {r}
  /\ UNCHANGED <<stage, err, code, requests, errors>>

(* The handler returns nil, an *echo.HTTPError or another error. *)
Return(r) ==
  /\ stage[r] = "handler"
  /\ stage' = [stage EXCEPT ![r] = "returned"]
  /\ \/ UNCHANGED <<err, code>>
     \/ err' = [err EXCEPT ![r] = "plain"] /\ UNCHANGED code
     \/ /\ err' = [err EXCEPT ![r] = "HTTPError"]
        /\ \E c \in Codes : code' = [code EXCEPT ![r] = c]
  /\ UNCHANGED <<status, sent, requests, errors>>

(* The handler panics: nothing after next(c) is run, a middleware further  *)
(* out makes an error of it.                                               *)
Panic(r) ==
  /\ stage[r] = "handler"
  /\ stage' = [stage EXCEPT ![r] = "passed"]
  /\ err' = [err EXCEPT ![r] = "plain"]
  /\ UNCHANGED <<code, status, sent, requests, errors>>

(* The status the middleware derives. *)
DerivedStatus(r) ==
  LET written == IF err[r] = "HTTPError" THEN code[r] ELSE status[r]
  IN  IF written # 0 THEN written ELSE IF err[r] # "nil" THEN 500 ELSE 200

(* The middleware counts the request and returns err. *)
Count(r) ==
  /\ stage[r] = "returned"
  /\ stage' = [stage EXCEPT ![r] = "passed"]
  /\ requests' = [requests EXCEPT ![r] = DerivedStatus(r)]
  /\ errors' = IF DerivedStatus(r) \in 200 .. 299 THEN errors ELSE errors \cup {r}
  /\ UNCHANGED <<err, code, status, sent>>

(* echo answers: an error that is not an HTTPError is a 500. *)
Answer(r) ==
  /\ stage[r] = "passed"
  /\ stage' = [stage EXCEPT ![r] = "answered"]
  /\ sent' = sent \cup {r}
  /\ status' = IF r \in sent \/ err[r] = "nil"
                 THEN status
                 ELSE [status EXCEPT ![r] = IF err[r] = "HTTPError" THEN code[r] ELSE 500]
  /\ UNCHANGED <<err, code, requests, errors>>

Next ==
  \E r \in Requests :
    Arrive(r) \/ Reply(r) \/ Return(r) \/ Panic(r) \/ Count(r) \/ Answer(r)

Spec == Init /\ [][Next]_vars

-----------------------------------------------------------------------------
(* "Derive final status code" (http.go): a request is counted with the     *)
(* status its client was answered with, among the errors if that is 500 or *)
(* more ("Total number of HTTP errors (status >= 500)").                   *)
CountedAsAnswered ==
  \A r \in Requests :
    stage[r] = "answered" /\ requests[r] # 0 =>
      requests[r] = status[r] /\ (status[r] >= 500 => r \in errors)
=============================================================================

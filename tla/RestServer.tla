----------------------------- MODULE RestServer -----------------------------
(***************************************************************************)
(* api::RestServer: middleware, the wrapper that route puts around every   *)
(* handler, and the responses they fill in.  Below it is httplib, which    *)
(* runs each request on a thread of its own, starts it with a response of  *)
(* status DefaultStatus, turns an exception that leaves the wrapper into   *)
(* status 500, and a status that nobody has set into 200.                  *)
(*                                                                         *)
(* What a handler does is left to the module that extends this one.        *)
(***************************************************************************)
EXTENDS Naturals, Sequences, Functions

CONSTANTS
  DefaultStatus,  \* httplib: the status a response begins with
  Unset,          \* httplib: the status that stands for none
  MaxMiddleware,  \* bound: how often use() is called
  MaxRequests     \* bound: how many requests are sent

ASSUME RestAssumption ==
  /\ DefaultStatus \in {200, Unset}
  /\ Unset \notin Nat
  /\ {MaxMiddleware, MaxRequests} \subseteq Nat

VARIABLES
  middleware_,  \* the list, in the order of use()
  server,       \* what the owner of the server has done with it
  stage,        \* per request, how far it is: see Stages
  at,           \* per request, the middleware whose turn it is
  res,          \* per request, its response
  ran           \* history: the requests whose handler was called

restVars == <<middleware_, server, stage, at, res, ran>>

(* Middleware: cors() and logger() leave the status alone; the program's own
   may also refuse the request, or throw. *)
Middleware == {"passes", "refuses", "throws"}

Requests == 1..MaxRequests

(* "none", "queued" by a client, in "middleware", in its "handler" without the
   mutex of the program and in "critical" with it, "answered", or "dropped" by
   a server that stops. *)
Stages ==
  {"none", "queued", "middleware", "handler", "critical", "answered", "dropped"}

Body == {"empty", "text", "json"}

(* A response; `id` is the item that the body is about, 0 if none. *)
Response == [status : Nat \cup {Unset}, body : Body, id : Nat]

RestTypeOK ==
  /\ middleware_ \in Seq(Middleware)
  /\ server \in {"setup", "serving", "stopped"}
  /\ stage \in [Requests -> Stages]
  /\ at \in [Requests -> Nat]
  /\ res \in [Requests -> Response]
  /\ ran \subseteq Requests

NewResponse == [status |-> DefaultStatus, body |-> "empty", id |-> 0]

RestInit ==
  /\ middleware_ = <<>>
  /\ server = "setup"
  /\ stage = [r \in Requests |-> "none"]
  /\ at = [r \in Requests |-> 0]
  /\ res = [r \in Requests |-> NewResponse]
  /\ ran = {}

set_json(status, id) == [status |-> status, body |-> "json", id |-> id]

set_text(status) == [status |-> status, body |-> "text", id |-> 0]

-----------------------------------------------------------------------------
(* The owner: use() before listen, as nothing guards the list; listen, which
   blocks one of its threads, and stop. *)

Use(m) ==
  /\ server = "setup"
  /\ Len(middleware_) < MaxMiddleware
  /\ middleware_' = Append(middleware_, m)
  /\ UNCHANGED <<server, stage, at, res, ran>>

Listen ==
  /\ server = "setup"
  /\ server' = "serving"
  /\ UNCHANGED <<middleware_, stage, at, res, ran>>

\* What httplib has not begun is dropped, and the rest is waited for.
Stop ==
  /\ server = "serving"
  /\ server' = "stopped"
  /\ stage' = [r \in Requests |-> IF stage[r] = "queued" THEN "dropped" ELSE stage[r]]
  /\ UNCHANGED <<middleware_, at, res, ran>>

-----------------------------------------------------------------------------
(* A request. *)

Begin(r) ==
  /\ server = "serving"
  /\ stage[r] = "queued"
  /\ stage' = [stage EXCEPT ![r] = "middleware"]
  /\ at' = [at EXCEPT ![r] = 1]
  /\ UNCHANGED <<middleware_, server, res, ran>>

\* The wrapper is left, and httplib sends the response.
Answer(r, response) ==
  /\ stage' = [stage EXCEPT ![r] = "answered"]
  /\ res' = [res EXCEPT ![r] = [response EXCEPT !.status = IF @ = Unset THEN 200 ELSE @]]

\* What a middleware that returns makes of the response.
After(m, response) == IF m = "refuses" THEN set_text(401) ELSE response

(* Mutant: only the errors of a server short-circuit. *)
ShortCircuitsErrors(response) == response.status # 200 /\ response.status > 401

ShortCircuits(response) == response.status # 200

\* One turn of the loop over the middleware.
RunMiddleware(r) ==
  /\ stage[r] = "middleware"
  /\ at[r] <= Len(middleware_)
  /\ LET m == middleware_[at[r]]
         response == After(m, res[r]) IN
     IF m = "throws"
     THEN Answer(r, [res[r] EXCEPT !.status = 500]) /\ UNCHANGED at
     ELSE IF ShortCircuits(response)
     THEN Answer(r, response) /\ UNCHANGED at
     ELSE at' = [at EXCEPT ![r] = @ + 1] /\ UNCHANGED <<stage, res>>
  /\ UNCHANGED <<middleware_, server, ran>>

CallHandler(r) ==
  /\ stage[r] = "middleware"
  /\ at[r] > Len(middleware_)
  /\ stage' = [stage EXCEPT ![r] = "handler"]
  /\ ran' = ran \cup {r}
  /\ UNCHANGED <<middleware_, server, at, res>>

\* The response after h(wreq, wres) has thrown: a json::parse_error, or
\* another std::exception.
Caught(exception) == set_json(IF exception = "parse_error" THEN 400 ELSE 500, 0)

RequestStep(r) == Begin(r) \/ RunMiddleware(r) \/ CallHandler(r)

OwnerStep == (\E m \in Middleware : Use(m)) \/ Listen \/ Stop

-----------------------------------------------------------------------------
Passes == \A i \in 1..Len(middleware_) : middleware_[i] = "passes"

(* "Non-200 status short-circuits: handler is not invoked": no handler runs,
   first, last or in the middle of the list though the refusal be. *)
RefusedNotHandled == ~Passes => ran = {}

(* "CORS/logger do not change it": middleware that leaves the status alone
   does not come between a request and its handler. *)
PassedIsHandled ==
  Passes => \A r \in Requests : stage[r] = "answered" => r \in ran

(* Whether a handler runs is decided by the middleware, and by all of it. *)
MiddlewareDecides == RefusedNotHandled /\ PassedIsHandled
=============================================================================

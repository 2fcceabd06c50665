------------------------------ MODULE ItemsApi ------------------------------
(***************************************************************************)
(* The items server of examples/api_demo.cpp on a RestServer, and the      *)
(* RestClients that call it.                                               *)
(*                                                                         *)
(* The handlers share a table and a counter under one mutex.  Requests     *)
(* come at any time, from several clients, or from one whose call has      *)
(* timed out or lost its connection while the server goes on with it: the  *)
(* end of a call changes nothing that is modelled.                         *)
(***************************************************************************)
EXTENDS RestServer, FiniteSets

CONSTANTS
  MaxId,  \* the greatest number that std::stoi can read
  Asked   \* the requests that clients send

(* MaxId + 1 in a path stands for the digits that std::stoi cannot read.  A
   body to create from is an object, "odd" (another JSON value) or "bad". *)
Request ==
  [op : {"list"}, id : {0}, body : {"none"}]
    \cup [op : {"get", "delete"}, id : 0..MaxId + 1, body : {"none"}]
    \cup [op : {"create"}, id : {0}, body : {"object", "odd", "bad"}]

ASSUME ItemsAssumption ==
  /\ MaxId \in Nat
  /\ MaxRequests <= MaxId
  /\ Asked \subseteq Request

VARIABLES
  g_items,    \* the ids in the table
  g_next_id,
  g_mu,       \* the request that holds the mutex, 0 if none
  request     \* the requests that were sent, in that order

apiVars == <<g_items, g_next_id, g_mu, request>>

vars == <<restVars, apiVars>>

Ids == 1..MaxId

TypeOK ==
  /\ RestTypeOK
  /\ g_items \subseteq Ids
  /\ g_next_id \in 1..MaxRequests + 1
  /\ g_mu \in 0..MaxRequests
  /\ request \in Seq(Asked)

Init ==
  /\ RestInit
  /\ g_items = {} /\ g_next_id = 1 /\ g_mu = 0
  /\ request = <<>>

-----------------------------------------------------------------------------
(* Handlers. *)

\* A handler that leaves before it takes the mutex, because it has thrown.
Throws(r) ==
  CASE request[r].op = "create" /\ request[r].body = "bad" -> "parse_error"
    [] request[r].id > MaxId -> "out_of_range"
    [] OTHER -> "nothing"

ThrowEarly(r) ==
  /\ stage[r] = "handler"
  /\ Throws(r) # "nothing"
  /\ Answer(r, Caught(Throws(r)))
  /\ UNCHANGED <<middleware_, server, at, ran, apiVars>>

(* Mutant: the handlers do without the mutex. *)
NoMutex(r) == TRUE

MutexFree(r) == g_mu = 0

\* std::lock_guard lk(g_mu), and a create's look at the counter.
Lock(r) ==
  /\ stage[r] = "handler"
  /\ Throws(r) = "nothing"
  /\ MutexFree(r)
  /\ g_mu' = r
  /\ stage' = [stage EXCEPT ![r] = "critical"]
  /\ res' = [res EXCEPT ![r].id = g_next_id]
  /\ UNCHANGED <<middleware_, server, at, ran, g_items, g_next_id, request>>

Critical(r, op) == stage[r] = "critical" /\ request[r].op = op

(* The critical section: what it makes of the table, of the counter and of
   the response. *)
Leave(r, items, next, response) ==
  /\ g_items' = items
  /\ g_next_id' = next
  /\ g_mu' = 0
  /\ Answer(r, response)
  /\ UNCHANGED <<middleware_, server, at, ran, request>>

ListItems(r) ==
  /\ Critical(r, "list")
  /\ Leave(r, g_items, g_next_id, set_json(200, 0))

GetItem(r) ==
  LET id == request[r].id IN
  /\ Critical(r, "get")
  /\ Leave(r, g_items, g_next_id,
           IF id \in g_items THEN set_json(200, id) ELSE set_json(404, 0))

(* Mutant: an exception leaves the mutex locked. *)
CreateKeepsMutex(r) ==
  /\ Critical(r, "create")
  /\ g_next_id' = res[r].id + 1
  /\ Answer(r, Caught("type_error"))
  /\ UNCHANGED <<middleware_, server, at, ran, g_items, g_mu, request>>

\* The name is read, and may throw, after the counter was advanced.
CreateItem(r) ==
  LET id == res[r].id IN
  /\ Critical(r, "create")
  /\ IF request[r].body = "object"
     THEN Leave(r, g_items \cup {id}, id + 1, set_json(201, id))
     ELSE Leave(r, g_items, id + 1, Caught("type_error"))

DeleteItem(r) ==
  LET id == request[r].id IN
  /\ Critical(r, "delete")
  /\ Leave(r, g_items \ {id}, g_next_id,
           IF id \in g_items THEN set_json(200, id) ELSE set_json(404, 0))

HandlerStep(r) ==
  \/ ThrowEarly(r) \/ Lock(r)
  \/ ListItems(r) \/ GetItem(r) \/ CreateItem(r) \/ DeleteItem(r)

-----------------------------------------------------------------------------
(* Clients. *)

\* A call of get_json, post_json, put_json, get or del; without a server the
\* connection is refused, and check throws.
Call(q) ==
  /\ Len(request) < MaxRequests
  /\ request' = Append(request, q)
  /\ stage' = [stage EXCEPT ![Len(request')] =
                 IF server = "serving" THEN "queued" ELSE "dropped"]
  /\ UNCHANGED <<middleware_, server, at, res, ran, g_items, g_next_id, g_mu>>

(* What a call makes of an answer: get_json parses any body, post_json one that
   is not empty, del none. *)
get_json(response) == IF response.body = "json" THEN "returns" ELSE "parse_error"

post_json(response) == IF response.body = "text" THEN "parse_error" ELSE "returns"

del(response) == "returns"

Outcome(r) ==
  CASE request[r].op \in {"list", "get"} -> get_json(res[r])
    [] request[r].op = "create" -> post_json(res[r])
    [] request[r].op = "delete" -> del(res[r])

-----------------------------------------------------------------------------
ServerStep(r) == (RequestStep(r) /\ UNCHANGED apiVars) \/ HandlerStep(r)

Next ==
  \/ OwnerStep /\ UNCHANGED apiVars
  \/ \E r \in Requests : ServerStep(r)
  \/ \E q \in Asked : Call(q)

Spec == Init /\ [][Next]_vars

(* httplib's threads do not stop; the owner need not ever listen or stop. *)
FairSpec == Spec /\ \A r \in Requests : WF_vars(ServerStep(r))

-----------------------------------------------------------------------------
Answers(op, status) ==
  {r \in ran : request[r].op = op /\ stage[r] = "answered"
                /\ res[r].status = status}

IdsOf(answers) == {res[r].id : r \in answers}

Created == IdsOf(Answers("create", 201))

Deleted == IdsOf(Answers("delete", 200))

(* The answers and the table tell one story, whatever was sent concurrently
   and whichever handlers threw on the way: an item is there exactly if a
   create was answered 201 and no delete 200, a failed create leaves none. *)
AnswersMatchTable == g_items = Created \ Deleted

(* An id is given to one create, and deleted for one delete, ever. *)
IdsOnce ==
  /\ Cardinality(Created) = Cardinality(Answers("create", 201))
  /\ Cardinality(Deleted) = Cardinality(Answers("delete", 200))

(* Whatever the handlers answer, failures included, the client's call can
   read. *)
AnswersParse ==
  \A r \in ran : stage[r] = "answered" => Outcome(r) = "returns"

(* The server comes to rest: every request that httplib has begun is answered,
   and no handler waits for the mutex for ever, whatever others have thrown. *)
InFlight == {r \in Requests : stage[r] \in {"middleware", "handler", "critical"}}

EveryRequestAnswered == InFlight # {} ~> InFlight = {}

(* The clients, the table and the answers agree at every moment. *)
AnswersExact == TypeOK /\ AnswersMatchTable /\ IdsOnce /\ AnswersParse
=============================================================================

--------------------------- MODULE ItemsApiProofs ---------------------------
(***************************************************************************)
(* Theorems about RestServer and ItemsApi, for any middleware and requests *)
(* and any number of them.                                                 *)
(***************************************************************************)
EXTENDS ItemsApi, FiniteSetTheorems, SequenceTheorems, TLAPS

-----------------------------------------------------------------------------
(* The inductive invariant, part by part. *)

\* How far a request is agrees with what was sent, run and locked.
StageInv ==
  /\ Len(request) <= MaxRequests
  /\ \A r \in Requests :
       /\ stage[r] = "none" <=> r > Len(request)
       /\ stage[r] \in {"handler", "critical"} => r \in ran
       /\ r \in ran => stage[r] \in {"handler", "critical", "answered"}
       /\ stage[r] = "critical" <=> g_mu = r
       /\ stage[r] = "critical" => Throws(r) = "nothing" /\ res[r].id = g_next_id
       /\ stage[r] \in {"none", "queued", "middleware", "handler"} =>
            res[r] = NewResponse

\* The list of middleware is complete before the first request.
SetupInv ==
  server = "setup" => ran = {} /\ \A r \in Requests : stage[r] \in {"none", "dropped"}

\* A response that begins with another status than 200 is taken for a refusal
\* after the first middleware, whatever that does.
LetsThrough == Passes /\ (DefaultStatus = 200 \/ middleware_ = <<>>)

\* Who has passed a middleware was let through by it.
TurnInv ==
  \A r \in Requests : stage[r] = "middleware" =>
    /\ at[r] \in 1..Len(middleware_) + 1
    /\ at[r] = 1 \/ DefaultStatus = 200
    /\ \A i \in 1..Len(middleware_) : i < at[r] => middleware_[i] = "passes"

RefusedInv == ~LetsThrough => ran = {}

\* The answers that no handler has given come of a refusal.
RefusalInv ==
  \A r \in Requests : stage[r] = "answered" /\ r \notin ran => ~LetsThrough

\* The requests whose handler has answered.
Over == {r \in ran : stage[r] = "answered"}

\* The creates that have advanced the counter.
Advanced == {r \in Over : request[r].op = "create" /\ request[r].body # "bad"}

CountInv == g_next_id = 1 + Cardinality(Advanced)

\* Items were created under numbers below the counter, and deleted once.
StoryInv ==
  /\ AnswersMatchTable
  /\ Deleted \subseteq Created
  /\ \A i \in Created : i \in Nat /\ 0 < i /\ i < g_next_id
  /\ \A r, s \in Answers("create", 201) : res[r].id = res[s].id => r = s
  /\ \A r, s \in Answers("delete", 200) : res[r].id = res[s].id => r = s

ParseInv == \A r \in Over : res[r].body = "json"

IInv ==
  /\ TypeOK
  /\ StageInv
  /\ SetupInv
  /\ TurnInv
  /\ RefusedInv
  /\ RefusalInv
  /\ CountInv
  /\ StoryInv
  /\ ParseInv

-----------------------------------------------------------------------------
(* Facts about the answers. *)

LEMMA ConstantFacts ==
  /\ MaxRequests \in Nat /\ MaxId \in Nat /\ MaxRequests <= MaxId
  /\ Requests \subseteq Nat \ {0} /\ Requests \subseteq 1..MaxRequests
  /\ Unset \notin Nat /\ DefaultStatus \in Nat \cup {Unset}
  /\ NewResponse \in Response
  /\ \A q \in Asked : q.id \in Nat /\ q.op \in {"list", "get", "delete", "create"}
  /\ \A q \in Asked : q.op = "create" =>
       q.id = 0 /\ q.body \in {"object", "odd", "bad"}
BY RestAssumption, ItemsAssumption
DEF Requests, NewResponse, Response, Body, Request

\* Sets of requests are finite, and at most MaxRequests are in one.
LEMMA RequestsFinite ==
  ASSUME NEW S \in SUBSET Requests
  PROVE  IsFiniteSet(S) /\ Cardinality(S) \in Nat /\ Cardinality(S) <= MaxRequests
<1>1. MaxRequests \in Nat
  BY ConstantFacts
<1>2. IsFiniteSet(Requests) /\ Cardinality(Requests) = MaxRequests
  BY <1>1, FS_Interval DEF Requests
<1>. QED  BY <1>2, FS_Subset, FS_CardinalityType

\* A set of answers under different numbers has as many of them as answers.
LEMMA IdsCounted ==
  ASSUME NEW S \in SUBSET Requests,
         \A r, s \in S : res[r].id = res[s].id => r = s
  PROVE  Cardinality(IdsOf(S)) = Cardinality(S)
<1>. DEFINE f == [r \in S |-> res[r].id]
<1>1. f \in Bijection(S, IdsOf(S))
  BY DEF Bijection, Injection, Surjection, IsInjective, IdsOf
<1>2. ExistsBijection(S, IdsOf(S))
  BY <1>1 DEF ExistsBijection
<1>3. IsFiniteSet(S)
  BY RequestsFinite
<1>. QED  BY <1>2, <1>3, FS_Bijection, Zenon

\* A step that answers none of the requests whose handler was called, and
\* leaves the table alone, leaves the story as it is.
LEMMA NothingAnswered ==
  ASSUME CountInv, StoryInv, ParseInv,
         Over' = Over,
         \A s \in Over : request'[s] = request[s] /\ res'[s] = res[s],
         g_items' = g_items, g_next_id' = g_next_id
  PROVE  CountInv' /\ StoryInv' /\ ParseInv'
<1>1. ASSUME NEW op, NEW status
      PROVE  Answers(op, status) = {s \in Over : request[s].op = op /\ res[s].status = status}
  BY DEF Answers, Over
<1>2. ASSUME NEW op, NEW status
      PROVE  Answers(op, status)' =
               {s \in Over' : request'[s].op = op /\ res'[s].status = status}
  BY DEF Answers, Over
<1>3. /\ Answers("create", 201)' = Answers("create", 201)
      /\ Answers("delete", 200)' = Answers("delete", 200)
  <2>1. ASSUME NEW op, NEW status
        PROVE  Answers(op, status)' = Answers(op, status)
    BY <1>1, <1>2
  <2>. QED  BY <2>1
<1>4. /\ \A s \in Answers("create", 201) : res'[s] = res[s]
      /\ \A s \in Answers("delete", 200) : res'[s] = res[s]
  BY <1>1
<1>5. Created' = Created /\ Deleted' = Deleted
  BY <1>3, <1>4 DEF Created, Deleted, IdsOf
<1>6. Advanced' = Advanced
  BY DEF Advanced
<1>7. CountInv'
  BY <1>6 DEF CountInv
<1>8. StoryInv'
  BY <1>3, <1>4, <1>5 DEF StoryInv, AnswersMatchTable
<1>9. ParseInv'
  BY DEF ParseInv
<1>. QED  BY <1>7, <1>8, <1>9

\* A handler answers r: what joins the answers.
LEMMA OneAnswered ==
  ASSUME NEW r, r \notin Over, Over' = Over \cup {r}, request' = request,
         \A s \in Over : res'[s] = res[s]
  PROVE  /\ \A s \in Answers("create", 201) : s # r /\ res'[s] = res[s]
         /\ \A s \in Answers("delete", 200) : s # r /\ res'[s] = res[s]
         /\ IF request[r].op = "create" /\ res'[r].status = 201
            THEN /\ Answers("create", 201)' = Answers("create", 201) \cup {r}
                 /\ Created' = Created \cup {res'[r].id}
            ELSE /\ Answers("create", 201)' = Answers("create", 201)
                 /\ Created' = Created
         /\ IF request[r].op = "delete" /\ res'[r].status = 200
            THEN /\ Answers("delete", 200)' = Answers("delete", 200) \cup {r}
                 /\ Deleted' = Deleted \cup {res'[r].id}
            ELSE /\ Answers("delete", 200)' = Answers("delete", 200)
                 /\ Deleted' = Deleted
         /\ IF request[r].op = "create" /\ request[r].body # "bad"
            THEN Advanced' = Advanced \cup {r}
            ELSE Advanced' = Advanced
<1>1. ASSUME NEW op, NEW status
      PROVE  Answers(op, status) = {s \in Over : request[s].op = op /\ res[s].status = status}
  BY DEF Answers, Over
<1>2. ASSUME NEW op, NEW status
      PROVE  Answers(op, status)' =
               {s \in Over' : request'[s].op = op /\ res'[s].status = status}
  BY DEF Answers, Over
<1>3. ASSUME NEW op, NEW status
      PROVE  \A s \in Answers(op, status) : s # r /\ res'[s] = res[s]
  BY <1>1
<1>4. ASSUME NEW op, NEW status, request[r].op = op, res'[r].status = status
      PROVE  /\ Answers(op, status)' = Answers(op, status) \cup {r}
             /\ IdsOf(Answers(op, status))' = IdsOf(Answers(op, status)) \cup {res'[r].id}
  <2>1. Answers(op, status)' = Answers(op, status) \cup {r}
    BY <1>1, <1>2, <1>4
  <2>. QED  BY <2>1, <1>3 DEF IdsOf
<1>5. ASSUME NEW op, NEW status, ~(request[r].op = op /\ res'[r].status = status)
      PROVE  /\ Answers(op, status)' = Answers(op, status)
             /\ IdsOf(Answers(op, status))' = IdsOf(Answers(op, status))
  <2>1. Answers(op, status)' = Answers(op, status)
    BY <1>1, <1>2, <1>5
  <2>. QED  BY <2>1, <1>3 DEF IdsOf
<1>6. IF request[r].op = "create" /\ res'[r].status = 201
      THEN /\ Answers("create", 201)' = Answers("create", 201) \cup {r}
           /\ Created' = Created \cup {res'[r].id}
      ELSE /\ Answers("create", 201)' = Answers("create", 201)
           /\ Created' = Created
  BY <1>4, <1>5 DEF Created
<1>7. IF request[r].op = "delete" /\ res'[r].status = 200
      THEN /\ Answers("delete", 200)' = Answers("delete", 200) \cup {r}
           /\ Deleted' = Deleted \cup {res'[r].id}
      ELSE /\ Answers("delete", 200)' = Answers("delete", 200)
           /\ Deleted' = Deleted
  BY <1>4, <1>5 DEF Deleted
<1>8. IF request[r].op = "create" /\ request[r].body # "bad"
      THEN Advanced' = Advanced \cup {r}
      ELSE Advanced' = Advanced
  BY DEF Advanced
<1>. QED  BY <1>3, <1>6, <1>7, <1>8

-----------------------------------------------------------------------------
LEMMA InitEstablishes == Init => IInv
<1>. SUFFICES ASSUME Init PROVE IInv
  OBVIOUS
<1>. USE DEF Init, RestInit
<1>1. TypeOK
  BY ConstantFacts, RestAssumption DEF TypeOK, RestTypeOK, Stages
<1>2. Len(request) = 0 /\ Over = {} /\ Advanced = {}
  BY DEF Over, Advanced
<1>3. StageInv
  BY <1>2, ConstantFacts DEF StageInv, Requests
<1>4. SetupInv /\ TurnInv /\ RefusedInv /\ RefusalInv
  BY DEF SetupInv, TurnInv, RefusedInv, RefusalInv
<1>5. CountInv /\ ParseInv
  BY <1>2, FS_EmptySet DEF CountInv, ParseInv
<1>6. Answers("create", 201) = {} /\ Answers("delete", 200) = {}
  BY DEF Answers
<1>7. StoryInv
  BY <1>6 DEF StoryInv, AnswersMatchTable, Created, Deleted, IdsOf
<1>. QED  BY <1>1, <1>3, <1>4, <1>5, <1>7 DEF IInv

-----------------------------------------------------------------------------
(* The owner. *)

LEMMA UsePreserves ==
  ASSUME IInv, NEW m \in Middleware, Use(m), UNCHANGED apiVars
  PROVE  IInv'
<1>1. /\ server = "setup" /\ middleware_' = Append(middleware_, m)
      /\ UNCHANGED <<server, stage, at, res, ran, g_items, g_next_id, g_mu, request>>
  BY DEF Use, apiVars
<1>2. TypeOK'
  BY <1>1 DEF IInv, TypeOK, RestTypeOK
<1>3. StageInv' /\ SetupInv'
  BY <1>1 DEF IInv, StageInv, SetupInv, Throws
<1>4. ran = {} /\ \A r \in Requests : stage[r] \in {"none", "dropped"}
  BY <1>1 DEF IInv, SetupInv
<1>5. TurnInv' /\ RefusedInv' /\ RefusalInv'
  BY <1>1, <1>4 DEF TurnInv, RefusedInv, RefusalInv
<1>6. Over' = Over
  BY <1>1 DEF Over
<1>7. CountInv' /\ StoryInv' /\ ParseInv'
  BY <1>1, <1>6, NothingAnswered DEF IInv
<1>. QED  BY <1>2, <1>3, <1>5, <1>7 DEF IInv

LEMMA ListenPreserves ==
  ASSUME IInv, Listen, UNCHANGED apiVars
  PROVE  IInv'
<1>1. /\ server' = "serving"
      /\ UNCHANGED <<middleware_, stage, at, res, ran, g_items, g_next_id, g_mu, request>>
  BY DEF Listen, apiVars
<1>2. TypeOK'
  BY <1>1 DEF IInv, TypeOK, RestTypeOK
<1>3. StageInv' /\ SetupInv'
  BY <1>1 DEF IInv, StageInv, SetupInv, Throws
<1>5. TurnInv' /\ RefusedInv' /\ RefusalInv'
  BY <1>1 DEF IInv, TurnInv, RefusedInv, RefusalInv, LetsThrough, Passes
<1>6. Over' = Over
  BY <1>1 DEF Over
<1>7. CountInv' /\ StoryInv' /\ ParseInv'
  BY <1>1, <1>6, NothingAnswered DEF IInv
<1>. QED  BY <1>2, <1>3, <1>5, <1>7 DEF IInv

LEMMA StopPreserves ==
  ASSUME IInv, Stop, UNCHANGED apiVars
  PROVE  IInv'
<1>1. /\ server' = "stopped"
      /\ stage' = [r \in Requests |-> IF stage[r] = "queued" THEN "dropped" ELSE stage[r]]
      /\ UNCHANGED <<middleware_, at, res, ran, g_items, g_next_id, g_mu, request>>
  BY DEF Stop, apiVars
<1>2. TypeOK'
  BY <1>1 DEF IInv, TypeOK, RestTypeOK, Stages
<1>3. \A r \in Requests :
        stage'[r] = IF stage[r] = "queued" THEN "dropped" ELSE stage[r]
  BY <1>1
<1>4. StageInv'
  BY <1>1, <1>3 DEF IInv, StageInv, Throws
<1>5. SetupInv' /\ TurnInv' /\ RefusedInv' /\ RefusalInv'
  BY <1>1, <1>3 DEF IInv, SetupInv, TurnInv, RefusedInv, RefusalInv, LetsThrough, Passes
<1>6. Over' = Over
  <2>1. ran \subseteq Requests
    BY DEF IInv, TypeOK, RestTypeOK
  <2>. QED  BY <2>1, <1>1, <1>3 DEF Over
<1>7. CountInv' /\ StoryInv' /\ ParseInv'
  BY <1>1, <1>6, NothingAnswered DEF IInv
<1>. QED  BY <1>2, <1>4, <1>5, <1>7 DEF IInv

-----------------------------------------------------------------------------
(* A request on its way to the handler. *)

LEMMA BeginPreserves ==
  ASSUME IInv, NEW r \in Requests, Begin(r), UNCHANGED apiVars
  PROVE  IInv'
<1>1. /\ server = "serving" /\ stage[r] = "queued"
      /\ stage' = [stage EXCEPT ![r] = "middleware"]
      /\ at' = [at EXCEPT ![r] = 1]
      /\ UNCHANGED <<middleware_, server, res, ran, g_items, g_next_id, g_mu, request>>
  BY DEF Begin, apiVars
<1>2. TypeOK'
  BY <1>1 DEF IInv, TypeOK, RestTypeOK, Stages
<1>3. /\ stage'[r] = "middleware" /\ at'[r] = 1
      /\ \A s \in Requests \ {r} : stage'[s] = stage[s] /\ at'[s] = at[s]
  BY <1>1 DEF IInv, TypeOK, RestTypeOK
<1>4. StageInv' /\ SetupInv'
  BY <1>1, <1>3 DEF IInv, StageInv, SetupInv, Throws
<1>5. Len(middleware_) \in Nat
  BY DEF IInv, TypeOK, RestTypeOK
<1>6. TurnInv'
  BY <1>1, <1>3, <1>5 DEF IInv, TurnInv
<1>7. RefusedInv' /\ RefusalInv'
  BY <1>1, <1>3 DEF IInv, RefusedInv, RefusalInv, LetsThrough, Passes
<1>8. Over' = Over
  <2>1. ran \subseteq Requests /\ r \notin ran
    BY <1>1 DEF IInv, TypeOK, RestTypeOK, StageInv
  <2>. QED  BY <2>1, <1>1, <1>3 DEF Over
<1>9. CountInv' /\ StoryInv' /\ ParseInv'
  BY <1>1, <1>8, NothingAnswered DEF IInv
<1>. QED  BY <1>2, <1>4, <1>6, <1>7, <1>9 DEF IInv

LEMMA CallHandlerPreserves ==
  ASSUME IInv, NEW r \in Requests, CallHandler(r), UNCHANGED apiVars
  PROVE  IInv'
<1>1. /\ stage[r] = "middleware" /\ at[r] > Len(middleware_)
      /\ stage' = [stage EXCEPT ![r] = "handler"]
      /\ ran' = ran \cup {r}
      /\ UNCHANGED <<middleware_, server, at, res, g_items, g_next_id, g_mu, request>>
  BY DEF CallHandler, apiVars
<1>2. TypeOK'
  BY <1>1 DEF IInv, TypeOK, RestTypeOK, Stages
<1>3. /\ stage'[r] = "handler"
      /\ \A s \in Requests \ {r} : stage'[s] = stage[s]
  BY <1>1 DEF IInv, TypeOK, RestTypeOK
<1>4. StageInv' /\ SetupInv'
  BY <1>1, <1>3 DEF IInv, StageInv, SetupInv, Throws
<1>5. LetsThrough
  <2>1. Len(middleware_) \in Nat /\ at[r] \in Nat /\ middleware_ \in Seq(Middleware)
    BY DEF IInv, TypeOK, RestTypeOK
  <2>2. Passes
    BY <2>1, <1>1 DEF IInv, TurnInv, Passes
  <2>3. at[r] = 1 => middleware_ = <<>>
    <3>1. at[r] = 1 => Len(middleware_) = 0
      BY <2>1, <1>1
    <3>. QED  BY <2>1, <3>1, EmptySeq
  <2>. QED  BY <2>2, <2>3, <1>1 DEF IInv, TurnInv, LetsThrough
<1>6. TurnInv'
  BY <1>1, <1>3 DEF IInv, TurnInv
<1>7. RefusedInv' /\ RefusalInv'
  BY <1>1, <1>3, <1>5 DEF IInv, RefusedInv, RefusalInv, LetsThrough, Passes
<1>8. Over' = Over
  <2>1. ran \subseteq Requests /\ r \notin ran
    BY <1>1 DEF IInv, TypeOK, RestTypeOK, StageInv
  <2>. QED  BY <2>1, <1>1, <1>3 DEF Over
<1>9. CountInv' /\ StoryInv' /\ ParseInv'
  BY <1>1, <1>8, NothingAnswered DEF IInv
<1>. QED  BY <1>2, <1>4, <1>6, <1>7, <1>9 DEF IInv

\* An answer given by the middleware, or for one that has thrown.
LEMMA RefusalPreserves ==
  ASSUME IInv, NEW r \in Requests, NEW response \in Response,
         stage[r] = "middleware", ~LetsThrough,
         Answer(r, response), UNCHANGED <<middleware_, server, at, ran, apiVars>>
  PROVE  IInv'
<1>1. /\ stage' = [stage EXCEPT ![r] = "answered"]
      /\ res' = [res EXCEPT ![r] = [response EXCEPT !.status = IF @ = Unset THEN 200 ELSE @]]
      /\ UNCHANGED <<middleware_, server, at, ran, g_items, g_next_id, g_mu, request>>
  BY DEF Answer, apiVars
<1>2. [response EXCEPT !.status = IF @ = Unset THEN 200 ELSE @] \in Response
  BY DEF Response
<1>3. TypeOK'
  BY <1>1, <1>2 DEF IInv, TypeOK, RestTypeOK, Stages
<1>4. /\ stage'[r] = "answered"
      /\ \A s \in Requests \ {r} : stage'[s] = stage[s] /\ res'[s] = res[s]
  BY <1>1 DEF IInv, TypeOK, RestTypeOK
<1>5. r \notin ran /\ ran \subseteq Requests
  BY DEF IInv, TypeOK, RestTypeOK, StageInv
<1>6. StageInv' /\ SetupInv'
  BY <1>1, <1>4, <1>5 DEF IInv, StageInv, SetupInv, Throws
<1>7. TurnInv' /\ RefusedInv' /\ RefusalInv'
  BY <1>1, <1>4 DEF IInv, TurnInv, RefusedInv, RefusalInv, LetsThrough, Passes
<1>8. Over' = Over
  BY <1>1, <1>4, <1>5 DEF Over
<1>9. \A s \in Over : request'[s] = request[s] /\ res'[s] = res[s]
  BY <1>1, <1>4, <1>5 DEF Over
<1>10. CountInv' /\ StoryInv' /\ ParseInv'
  BY <1>1, <1>8, <1>9, NothingAnswered DEF IInv
<1>. QED  BY <1>3, <1>6, <1>7, <1>10 DEF IInv

LEMMA RunMiddlewarePreserves ==
  ASSUME IInv, NEW r \in Requests, RunMiddleware(r), UNCHANGED apiVars
  PROVE  IInv'
<1>. DEFINE m == middleware_[at[r]]
            response == After(m, res[r])
<1>1. /\ stage[r] = "middleware" /\ at[r] <= Len(middleware_)
      /\ UNCHANGED <<middleware_, server, ran, apiVars>>
  BY DEF RunMiddleware
<1>2. /\ Len(middleware_) \in Nat /\ at[r] \in 1..Len(middleware_)
      /\ m \in Middleware
  BY <1>1 DEF IInv, TypeOK, RestTypeOK, TurnInv
<1>3. res[r] = NewResponse /\ res[r] \in Response /\ NewResponse.status = DefaultStatus
  BY <1>1, ConstantFacts DEF IInv, StageInv, NewResponse
<1>4. response \in Response
  BY <1>3 DEF After, set_text, Response, Body
<1>5. CASE m = "throws"
  <2>1. Answer(r, [res[r] EXCEPT !.status = 500]) /\ at' = at
    BY <1>5 DEF RunMiddleware
  <2>2. ~LetsThrough
    BY <1>2, <1>5 DEF Passes, LetsThrough
  <2>3. [res[r] EXCEPT !.status = 500] \in Response
    BY <1>3 DEF Response
  <2>. QED  BY <2>1, <2>2, <2>3, <1>1, RefusalPreserves
<1>6. CASE m # "throws" /\ ShortCircuits(response)
  <2>1. Answer(r, response) /\ at' = at
    BY <1>6 DEF RunMiddleware
  <2>2. DefaultStatus = 200 => m = "refuses"
    BY <1>2, <1>3, <1>6 DEF After, ShortCircuits, Middleware
  <2>3. ~LetsThrough
    <3>1. middleware_ # <<>>
      BY <1>2
    <3>2. DefaultStatus = 200 => ~Passes
      BY <1>2, <2>2 DEF Passes
    <3>. QED  BY <3>1, <3>2 DEF LetsThrough
  <2>. QED  BY <2>1, <2>3, <1>1, <1>4, RefusalPreserves
<1>7. CASE m # "throws" /\ ~ShortCircuits(response)
  <2>1. at' = [at EXCEPT ![r] = @ + 1] /\ UNCHANGED <<stage, res>>
    BY <1>7 DEF RunMiddleware
  <2>2. m = "passes"
    BY <1>2, <1>7 DEF After, ShortCircuits, Middleware, set_text
  <2>3. UNCHANGED <<middleware_, server, stage, res, ran, g_items, g_next_id, g_mu, request>>
    BY <1>1, <2>1 DEF apiVars
  <2>4. TypeOK'
    BY <2>1, <2>3 DEF IInv, TypeOK, RestTypeOK
  <2>5. StageInv' /\ SetupInv' /\ RefusedInv' /\ RefusalInv'
    BY <2>3 DEF IInv, StageInv, SetupInv, RefusedInv, RefusalInv, LetsThrough, Passes, Throws
  <2>6. TurnInv'
    <3>1. at'[r] = at[r] + 1 /\ \A s \in Requests \ {r} : at'[s] = at[s]
      BY <2>1 DEF IInv, TypeOK, RestTypeOK
    <3>2. \A i \in 1..Len(middleware_) : i < at[r] + 1 => middleware_[i] = "passes"
      BY <1>1, <1>2, <2>2 DEF IInv, TurnInv
    <3>3. DefaultStatus = 200
      BY <1>3, <1>7, <2>2 DEF After, ShortCircuits
    <3>. QED  BY <3>1, <3>2, <3>3, <1>2, <2>3 DEF IInv, TurnInv
  <2>7. Over' = Over
    BY <2>3 DEF Over
  <2>8. CountInv' /\ StoryInv' /\ ParseInv'
    BY <2>3, <2>7, NothingAnswered DEF IInv
  <2>. QED  BY <2>4, <2>5, <2>6, <2>8 DEF IInv
<1>. QED  BY <1>5, <1>6, <1>7

-----------------------------------------------------------------------------
(* The handlers. *)

\* What all answers of handlers have in common.
LEMMA HandlerAnswers ==
  ASSUME IInv, NEW r \in Requests, NEW response \in Response,
         stage[r] \in {"handler", "critical"},
         response.body = "json", response.status # Unset,
         Answer(r, response), UNCHANGED <<middleware_, server, at, ran, request>>,
         g_mu' = IF stage[r] = "critical" THEN 0 ELSE g_mu,
         stage[r] = "handler" => g_next_id' = g_next_id,
         g_items' \subseteq Ids, g_next_id' \in 1..MaxRequests + 1
  PROVE  /\ TypeOK' /\ StageInv' /\ SetupInv' /\ TurnInv'
         /\ RefusedInv' /\ RefusalInv' /\ ParseInv'
         /\ r \notin Over /\ Over' = Over \cup {r}
         /\ res'[r] = response /\ \A s \in Over : res'[s] = res[s]
<1>1. /\ stage' = [stage EXCEPT ![r] = "answered"]
      /\ res' = [res EXCEPT ![r] = response]
  <2>1. response.status = response.status /\ [response EXCEPT !.status = @] = response
    BY DEF Response
  <2>. QED  BY <2>1 DEF Answer
<1>2. TypeOK'
  BY <1>1, ConstantFacts DEF IInv, TypeOK, RestTypeOK, Stages
<1>3. /\ stage'[r] = "answered" /\ res'[r] = response
      /\ \A s \in Requests \ {r} : stage'[s] = stage[s] /\ res'[s] = res[s]
  BY <1>1 DEF IInv, TypeOK, RestTypeOK
<1>4. r \in ran /\ ran \subseteq Requests
  BY DEF IInv, TypeOK, RestTypeOK, StageInv
<1>5. StageInv'
  <2>1. Len(request') <= MaxRequests
    BY DEF IInv, StageInv
  <2>2. ASSUME NEW s \in Requests
        PROVE  /\ stage'[s] = "none" <=> s > Len(request')
               /\ stage'[s] \in {"handler", "critical"} => s \in ran'
               /\ s \in ran' => stage'[s] \in {"handler", "critical", "answered"}
               /\ stage'[s] \in {"none", "queued", "middleware", "handler"} =>
                    res'[s] = NewResponse
    BY <1>3, <1>4 DEF IInv, StageInv
  <2>3. ASSUME NEW s \in Requests
        PROVE  stage'[s] = "critical" <=> g_mu' = s
    BY <1>3, ConstantFacts DEF IInv, StageInv
  <2>4. ASSUME NEW s \in Requests, stage'[s] = "critical"
        PROVE  Throws(s)' = "nothing" /\ res'[s].id = g_next_id'
    <3>1. s # r /\ stage[s] = "critical" /\ res'[s] = res[s] /\ stage[r] # "critical"
      BY <2>4, <1>3 DEF IInv, StageInv
    <3>. QED  BY <3>1 DEF IInv, StageInv, Throws
  <2>. QED  BY <2>1, <2>2, <2>3, <2>4 DEF StageInv
<1>6. SetupInv' /\ TurnInv' /\ RefusedInv' /\ RefusalInv'
  BY <1>3, <1>4 DEF IInv, SetupInv, TurnInv, RefusedInv, RefusalInv, LetsThrough, Passes
<1>7. r \notin Over /\ Over' = Over \cup {r}
  BY <1>3, <1>4 DEF Over
<1>8. \A s \in Over : res'[s] = res[s]
  BY <1>3, <1>4, <1>7 DEF Over
<1>9. ParseInv'
  BY <1>3, <1>7, <1>8 DEF IInv, ParseInv
<1>. QED  BY <1>2, <1>3, <1>5, <1>6, <1>7, <1>8, <1>9

\* An answer that is not about an item that is created or deleted.
LEMMA OtherAnswer ==
  ASSUME IInv, NEW r, r \notin Over, Over' = Over \cup {r}, request' = request,
         \A s \in Over : res'[s] = res[s],
         request[r].op = "create" => res'[r].status # 201,
         request[r].op = "delete" => res'[r].status # 200,
         g_items' = g_items,
         g_next_id' \in Nat, g_next_id <= g_next_id'
  PROVE  StoryInv'
<1>1. /\ Answers("create", 201)' = Answers("create", 201)
      /\ Answers("delete", 200)' = Answers("delete", 200)
      /\ Created' = Created /\ Deleted' = Deleted
  BY OneAnswered
<1>2. /\ \A s \in Answers("create", 201) : res'[s] = res[s]
      /\ \A s \in Answers("delete", 200) : res'[s] = res[s]
  BY OneAnswered
<1>3. g_next_id \in Nat
  BY ConstantFacts DEF IInv, TypeOK
<1>4. \A i \in Created' : i \in Nat /\ 0 < i /\ i < g_next_id'
  BY <1>1, <1>3 DEF IInv, StoryInv
<1>. QED  BY <1>1, <1>2, <1>4 DEF IInv, StoryInv, AnswersMatchTable

LEMMA ThrowEarlyPreserves ==
  ASSUME IInv, NEW r \in Requests, ThrowEarly(r)
  PROVE  IInv'
<1>. DEFINE response == Caught(Throws(r))
<1>1. /\ stage[r] = "handler" /\ Throws(r) # "nothing" /\ Answer(r, response)
      /\ UNCHANGED <<middleware_, server, at, ran, g_items, g_next_id, g_mu, request>>
  BY DEF ThrowEarly, apiVars
<1>2. /\ response \in Response /\ response.body = "json"
      /\ response.status \in {400, 500} /\ response.status # Unset
  BY ConstantFacts DEF Caught, set_json, Response, Body
<1>3. g_items' \subseteq Ids /\ g_next_id' \in 1..MaxRequests + 1
  BY <1>1 DEF IInv, TypeOK
<1>4. /\ TypeOK' /\ StageInv' /\ SetupInv' /\ TurnInv'
      /\ RefusedInv' /\ RefusalInv' /\ ParseInv'
      /\ r \notin Over /\ Over' = Over \cup {r}
      /\ res'[r] = response /\ \A s \in Over : res'[s] = res[s]
  BY <1>1, <1>2, <1>3, HandlerAnswers
<1>5. StoryInv'
  BY <1>1, <1>2, <1>3, <1>4, OtherAnswer DEF IInv, TypeOK
<1>6. CountInv'
  <2>1. request[r] \in Asked
    <3>1. r \in 1..Len(request)
      BY <1>1, ConstantFacts DEF IInv, TypeOK, StageInv
    <3>. QED  BY <3>1 DEF IInv, TypeOK
  <2>2. ~(request[r].op = "create" /\ request[r].body # "bad")
    BY <1>1, <2>1, ConstantFacts DEF Throws
  <2>3. Advanced' = Advanced
    BY <2>2, <1>1, <1>4, OneAnswered
  <2>. QED  BY <2>3, <1>1 DEF IInv, CountInv
<1>. QED  BY <1>4, <1>5, <1>6 DEF IInv

LEMMA LockPreserves ==
  ASSUME IInv, NEW r \in Requests, Lock(r)
  PROVE  IInv'
<1>1. /\ stage[r] = "handler" /\ Throws(r) = "nothing" /\ g_mu = 0
      /\ g_mu' = r
      /\ stage' = [stage EXCEPT ![r] = "critical"]
      /\ res' = [res EXCEPT ![r].id = g_next_id]
      /\ UNCHANGED <<middleware_, server, at, ran, g_items, g_next_id, request>>
  BY DEF Lock, MutexFree
<1>2. g_next_id \in Nat /\ r \in 0..MaxRequests
  BY ConstantFacts DEF IInv, TypeOK, Requests
<1>3. [res[r] EXCEPT !.id = g_next_id] \in Response
  BY <1>2 DEF IInv, TypeOK, RestTypeOK, Response
<1>4. TypeOK'
  BY <1>1, <1>2, <1>3 DEF IInv, TypeOK, RestTypeOK, Stages
<1>5. /\ stage'[r] = "critical" /\ res'[r].id = g_next_id
      /\ \A s \in Requests \ {r} : stage'[s] = stage[s] /\ res'[s] = res[s]
  BY <1>1 DEF IInv, TypeOK, RestTypeOK, Response
<1>6. r \in ran /\ ran \subseteq Requests
  BY <1>1 DEF IInv, TypeOK, RestTypeOK, StageInv
<1>7. \A s \in Requests : stage[s] # "critical" /\ s # 0
  BY <1>1, ConstantFacts DEF IInv, StageInv
<1>8. StageInv'
  BY <1>1, <1>5, <1>6, <1>7 DEF IInv, StageInv, Throws
<1>9. SetupInv' /\ TurnInv' /\ RefusedInv' /\ RefusalInv'
  BY <1>1, <1>5, <1>6 DEF IInv, SetupInv, TurnInv, RefusedInv, RefusalInv, LetsThrough, Passes
<1>10. Over' = Over /\ r \notin Over /\ Over \subseteq Requests
  BY <1>1, <1>5, <1>6 DEF Over
<1>11. \A s \in Over : request'[s] = request[s] /\ res'[s] = res[s]
  BY <1>1, <1>5, <1>10
<1>12. CountInv' /\ StoryInv' /\ ParseInv'
  BY <1>1, <1>10, <1>11, NothingAnswered DEF IInv
<1>. QED  BY <1>4, <1>8, <1>9, <1>12 DEF IInv

\* What the critical sections of the handlers start from.
LEMMA CriticalFacts ==
  ASSUME IInv, NEW r \in Requests, NEW op, Critical(r, op)
  PROVE  /\ stage[r] = "critical" /\ request[r].op = op
         /\ request[r] \in Asked /\ request[r].id \in Nat
         /\ Throws(r) = "nothing" /\ res[r].id = g_next_id
         /\ g_next_id \in Nat \ {0}
         /\ g_next_id \in Ids /\ g_next_id + 1 \in 1..MaxRequests + 1
         /\ r \notin Advanced /\ IsFiniteSet(Advanced)
<1>1. stage[r] = "critical" /\ request[r].op = op
  BY DEF Critical
<1>2. request[r] \in Asked
  <2>1. r \in 1..Len(request)
    BY <1>1, ConstantFacts DEF IInv, TypeOK, StageInv
  <2>. QED  BY <2>1 DEF IInv, TypeOK
<1>3. Throws(r) = "nothing" /\ res[r].id = g_next_id /\ g_next_id \in Nat \ {0}
  BY <1>1, ConstantFacts DEF IInv, StageInv, TypeOK
<1>4. r \notin Advanced /\ Advanced \subseteq Requests /\ Advanced \cup {r} \subseteq Requests
  BY <1>1 DEF Advanced, Over, IInv, TypeOK, RestTypeOK
<1>5. IsFiniteSet(Advanced) /\ Cardinality(Advanced) \in Nat
  BY <1>4, RequestsFinite
<1>6. Cardinality(Advanced \cup {r}) = Cardinality(Advanced) + 1
  BY <1>4, <1>5, FS_AddElement
<1>7. Cardinality(Advanced \cup {r}) <= MaxRequests
  BY <1>4, RequestsFinite
<1>8. g_next_id <= MaxRequests /\ MaxRequests \in Nat /\ MaxId \in Nat /\ MaxRequests <= MaxId
  BY <1>5, <1>6, <1>7, ConstantFacts DEF IInv, CountInv
<1>9. g_next_id \in Ids /\ g_next_id + 1 \in 1..MaxRequests + 1
  BY <1>3, <1>8 DEF Ids
<1>. QED  BY <1>1, <1>2, <1>3, <1>4, <1>5, <1>9, ConstantFacts

\* A critical section that leaves the table and the counter alone.
LEMMA ReadingPreserves ==
  ASSUME IInv, NEW r \in Requests, NEW op, op # "create", Critical(r, op),
         NEW response \in Response, response.body = "json", response.status # Unset,
         op = "delete" => response.status # 200,
         Leave(r, g_items, g_next_id, response)
  PROVE  IInv'
<1>1. stage[r] = "critical" /\ request[r].op = op
  BY CriticalFacts
<1>2. /\ g_items' = g_items /\ g_next_id' = g_next_id /\ g_mu' = 0
      /\ Answer(r, response) /\ UNCHANGED <<middleware_, server, at, ran, request>>
  BY DEF Leave
<1>3. g_items' \subseteq Ids /\ g_next_id' \in 1..MaxRequests + 1
  BY <1>2 DEF IInv, TypeOK
<1>4. /\ TypeOK' /\ StageInv' /\ SetupInv' /\ TurnInv'
      /\ RefusedInv' /\ RefusalInv' /\ ParseInv'
      /\ r \notin Over /\ Over' = Over \cup {r}
      /\ res'[r] = response /\ \A s \in Over : res'[s] = res[s]
  BY <1>1, <1>2, <1>3, HandlerAnswers
<1>5. StoryInv'
  <2>1. g_next_id' \in Nat /\ g_next_id <= g_next_id'
    BY <1>2, <1>3
  <2>. QED  BY <2>1, <1>1, <1>2, <1>4, OtherAnswer
<1>6. CountInv'
  <2>1. Advanced' = Advanced
    BY <1>1, <1>2, <1>4, OneAnswered
  <2>. QED  BY <2>1, <1>2 DEF IInv, CountInv
<1>. QED  BY <1>4, <1>5, <1>6 DEF IInv

LEMMA ListItemsPreserves ==
  ASSUME IInv, NEW r \in Requests, ListItems(r)
  PROVE  IInv'
<1>1. /\ set_json(200, 0) \in Response /\ set_json(200, 0).body = "json"
      /\ set_json(200, 0).status # Unset
  BY ConstantFacts DEF set_json, Response, Body
<1>. QED  BY <1>1, ReadingPreserves DEF ListItems

LEMMA GetItemPreserves ==
  ASSUME IInv, NEW r \in Requests, GetItem(r)
  PROVE  IInv'
<1>. DEFINE id == request[r].id
            response == IF id \in g_items THEN set_json(200, id) ELSE set_json(404, 0)
<1>1. Critical(r, "get") /\ Leave(r, g_items, g_next_id, response)
  BY DEF GetItem
<1>2. id \in Nat
  BY <1>1, CriticalFacts
<1>3. response \in Response /\ response.body = "json" /\ response.status # Unset
  BY <1>2, ConstantFacts DEF set_json, Response, Body
<1>. QED  BY <1>1, <1>3, ReadingPreserves

LEMMA CreateItemPreserves ==
  ASSUME IInv, NEW r \in Requests, CreateItem(r)
  PROVE  IInv'
<1>. DEFINE id == g_next_id
            object == request[r].body = "object"
            response == IF object THEN set_json(201, id) ELSE Caught("type_error")
<1>1. /\ stage[r] = "critical" /\ request[r].op = "create"
      /\ request[r] \in Asked /\ Throws(r) = "nothing" /\ res[r].id = id
      /\ id \in Nat \ {0} /\ id \in Ids /\ id + 1 \in 1..MaxRequests + 1
      /\ r \notin Advanced /\ IsFiniteSet(Advanced)
  BY CriticalFacts DEF CreateItem
<1>2. /\ g_items' = g_items \cup {i \in {id} : object}
      /\ g_next_id' = id + 1 /\ g_mu' = 0
      /\ Answer(r, response) /\ UNCHANGED <<middleware_, server, at, ran, request>>
  BY <1>1 DEF CreateItem, Leave
<1>3. /\ response \in Response /\ response.body = "json" /\ response.status # Unset
      /\ object => response.status = 201 /\ response.id = id
      /\ ~object => response.status # 201
  BY <1>1, ConstantFacts DEF set_json, Caught, Response, Body
<1>. HIDE DEF response
<1>4. g_items' \subseteq Ids /\ g_next_id' \in 1..MaxRequests + 1
  BY <1>1, <1>2 DEF IInv, TypeOK
<1>5. /\ TypeOK' /\ StageInv' /\ SetupInv' /\ TurnInv'
      /\ RefusedInv' /\ RefusalInv' /\ ParseInv'
      /\ r \notin Over /\ Over' = Over \cup {r}
      /\ res'[r] = response /\ \A s \in Over : res'[s] = res[s]
  BY <1>1, <1>2, <1>3, <1>4, HandlerAnswers
<1>6. request[r].body # "bad"
  BY <1>1 DEF Throws
<1>7. CountInv'
  <2>1. Advanced' = Advanced \cup {r}
    BY <1>1, <1>2, <1>5, <1>6, OneAnswered
  <2>2. Cardinality(Advanced') = Cardinality(Advanced) + 1
    BY <2>1, <1>1, FS_AddElement
  <2>3. Cardinality(Advanced) \in Nat
    BY <1>1, FS_CardinalityType
  <2>. QED  BY <2>2, <2>3, <1>2 DEF IInv, CountInv
<1>8. CASE ~object
  <2>1. g_items' = g_items /\ g_next_id' \in Nat /\ g_next_id <= g_next_id'
    BY <1>1, <1>2, <1>8
  <2>2. StoryInv'
    BY <2>1, <1>1, <1>2, <1>3, <1>5, <1>8, OtherAnswer
  <2>. QED  BY <2>2, <1>5, <1>7 DEF IInv
<1>9. CASE object
  <2>1. /\ Answers("create", 201)' = Answers("create", 201) \cup {r}
        /\ Answers("delete", 200)' = Answers("delete", 200)
        /\ Created' = Created \cup {id} /\ Deleted' = Deleted
    <3>1. res'[r].status = 201 /\ res'[r].id = id
      BY <1>3, <1>5, <1>9
    <3>. QED  BY <3>1, <1>1, <1>2, <1>5, OneAnswered
  <2>2. /\ \A s \in Answers("create", 201) : s # r /\ res'[s] = res[s]
        /\ \A s \in Answers("delete", 200) : s # r /\ res'[s] = res[s]
    BY <1>2, <1>5, OneAnswered
  <2>3. res'[r].id = id
    BY <1>3, <1>5, <1>9
  <2>4. /\ \A i \in Created : i \in Nat /\ 0 < i /\ i < id
        /\ \A s \in Answers("create", 201) : res[s].id \in Created
    BY DEF IInv, StoryInv, Created, IdsOf
  <2>5. id \notin Created /\ id \notin Deleted
    BY <2>4, <1>1 DEF IInv, StoryInv
  <2>6. AnswersMatchTable'
    BY <2>1, <2>5, <1>2, <1>9 DEF IInv, StoryInv, AnswersMatchTable
  <2>7. \A i \in Created' : i \in Nat /\ 0 < i /\ i < g_next_id'
    BY <2>1, <2>4, <1>1, <1>2
  <2>8. \A x, y \in Answers("create", 201)' : res'[x].id = res'[y].id => x = y
    BY <2>1, <2>2, <2>3, <2>4, <2>5 DEF IInv, StoryInv
  <2>9. \A x, y \in Answers("delete", 200)' : res'[x].id = res'[y].id => x = y
    BY <2>1, <2>2 DEF IInv, StoryInv
  <2>10. StoryInv'
    BY <2>1, <2>6, <2>7, <2>8, <2>9 DEF IInv, StoryInv
  <2>. QED  BY <2>10, <1>5, <1>7 DEF IInv
<1>. QED  BY <1>8, <1>9

LEMMA DeleteItemPreserves ==
  ASSUME IInv, NEW r \in Requests, DeleteItem(r)
  PROVE  IInv'
<1>. DEFINE id == request[r].id
            response == IF id \in g_items THEN set_json(200, id) ELSE set_json(404, 0)
<1>1. Critical(r, "delete") /\ Leave(r, g_items \ {id}, g_next_id, response)
  BY DEF DeleteItem
<1>2. stage[r] = "critical" /\ request[r].op = "delete" /\ id \in Nat
  BY <1>1, CriticalFacts
<1>3. /\ response \in Response /\ response.body = "json" /\ response.status # Unset
      /\ id \in g_items => response.status = 200 /\ response.id = id
      /\ id \notin g_items => response.status # 200
  BY <1>2, ConstantFacts DEF set_json, Response, Body
<1>. HIDE DEF response
<1>4. CASE id \notin g_items
  <2>1. Leave(r, g_items, g_next_id, response)
    BY <1>1, <1>4 DEF Leave
  <2>. QED  BY <2>1, <1>1, <1>3, <1>4, ReadingPreserves
<1>5. CASE id \in g_items
  <2>1. /\ g_items' = g_items \ {id} /\ g_next_id' = g_next_id /\ g_mu' = 0
        /\ Answer(r, response) /\ UNCHANGED <<middleware_, server, at, ran, request>>
    BY <1>1 DEF Leave
  <2>2. g_items' \subseteq Ids /\ g_next_id' \in 1..MaxRequests + 1
    BY <2>1 DEF IInv, TypeOK
  <2>3. /\ TypeOK' /\ StageInv' /\ SetupInv' /\ TurnInv'
        /\ RefusedInv' /\ RefusalInv' /\ ParseInv'
        /\ r \notin Over /\ Over' = Over \cup {r}
        /\ res'[r] = response /\ \A s \in Over : res'[s] = res[s]
    BY <1>2, <1>3, <2>1, <2>2, HandlerAnswers
  <2>4. /\ Answers("create", 201)' = Answers("create", 201)
        /\ Answers("delete", 200)' = Answers("delete", 200) \cup {r}
        /\ Created' = Created /\ Deleted' = Deleted \cup {id}
        /\ Advanced' = Advanced
    <3>1. res'[r].status = 200 /\ res'[r].id = id
      BY <1>3, <1>5, <2>3
    <3>. QED  BY <3>1, <1>2, <2>1, <2>3, OneAnswered
  <2>5. /\ \A s \in Answers("create", 201) : s # r /\ res'[s] = res[s]
        /\ \A s \in Answers("delete", 200) : s # r /\ res'[s] = res[s]
    BY <2>1, <2>3, OneAnswered
  <2>6. res'[r].id = id
    BY <1>3, <1>5, <2>3
  <2>7. id \in Created /\ id \notin Deleted
    BY <1>5 DEF IInv, StoryInv, AnswersMatchTable
  <2>8. \A s \in Answers("delete", 200) : res[s].id \in Deleted
    BY DEF Deleted, IdsOf
  <2>9. AnswersMatchTable'
    BY <2>1, <2>4 DEF IInv, StoryInv, AnswersMatchTable
  <2>10. \A x, y \in Answers("create", 201)' : res'[x].id = res'[y].id => x = y
    BY <2>4, <2>5 DEF IInv, StoryInv
  <2>11. \A x, y \in Answers("delete", 200)' : res'[x].id = res'[y].id => x = y
    BY <2>4, <2>5, <2>6, <2>7, <2>8 DEF IInv, StoryInv
  <2>12. StoryInv'
    BY <2>1, <2>4, <2>7, <2>9, <2>10, <2>11 DEF IInv, StoryInv
  <2>13. CountInv'
    BY <2>1, <2>4 DEF IInv, CountInv
  <2>. QED  BY <2>3, <2>12, <2>13 DEF IInv
<1>. QED  BY <1>4, <1>5

-----------------------------------------------------------------------------
(* The clients. *)

LEMMA CallPreserves ==
  ASSUME IInv, NEW q \in Asked, Call(q)
  PROVE  IInv'
<1>. DEFINE r == Len(request) + 1
<1>1. /\ Len(request) \in Nat /\ Len(request) < MaxRequests
      /\ request' = Append(request, q) /\ Len(request') = r
      /\ request \in Seq(Asked)
      /\ UNCHANGED <<middleware_, server, at, res, ran, g_items, g_next_id, g_mu>>
  BY DEF Call, IInv, TypeOK
<1>2. r \in Requests
  BY <1>1, ConstantFacts DEF Requests
<1>3. stage' = [stage EXCEPT ![r] = IF server = "serving" THEN "queued" ELSE "dropped"]
  BY <1>1 DEF Call
<1>4. TypeOK'
  BY <1>1, <1>2, <1>3 DEF IInv, TypeOK, RestTypeOK, Stages
<1>5. /\ stage'[r] = IF server = "serving" THEN "queued" ELSE "dropped"
      /\ \A s \in Requests \ {r} : stage'[s] = stage[s]
  BY <1>2, <1>3 DEF IInv, TypeOK, RestTypeOK
<1>6. stage[r] = "none" /\ r \notin ran
  BY <1>1, <1>2 DEF IInv, StageInv
<1>7. \A s \in Requests : s # r => (s > Len(request) <=> s > r)
  BY <1>1, ConstantFacts
<1>8. \A s \in Requests : s <= Len(request) => request'[s] = request[s]
  BY <1>1, ConstantFacts
<1>9. \A s \in ran : s \in Requests /\ s # r /\ s <= Len(request)
  BY <1>1, <1>6, ConstantFacts DEF IInv, TypeOK, RestTypeOK, StageInv
<1>. HIDE DEF r
<1>10. StageInv'
  <2>1. Len(request') <= MaxRequests
    BY <1>1, <1>2, ConstantFacts
  <2>2. ASSUME NEW s \in Requests
        PROVE  /\ stage'[s] = "none" <=> s > Len(request')
               /\ stage'[s] \in {"handler", "critical"} => s \in ran'
               /\ s \in ran' => stage'[s] \in {"handler", "critical", "answered"}
               /\ stage'[s] = "critical" <=> g_mu' = s
               /\ stage'[s] \in {"none", "queued", "middleware", "handler"} =>
                    res'[s] = NewResponse
    <3>1. CASE s = r
      BY <3>1, <1>1, <1>2, <1>5, <1>6, ConstantFacts DEF IInv, StageInv
    <3>2. CASE s # r
      BY <3>2, <1>1, <1>5, <1>7 DEF IInv, StageInv
    <3>. QED  BY <3>1, <3>2
  <2>3. ASSUME NEW s \in Requests, stage'[s] = "critical"
        PROVE  Throws(s)' = "nothing" /\ res'[s].id = g_next_id'
    <3>1. s # r /\ stage[s] = "critical" /\ s \in ran
      BY <2>3, <1>5 DEF IInv, StageInv
    <3>2. request'[s] = request[s]
      BY <3>1, <1>8, <1>9
    <3>. QED  BY <3>1, <3>2, <1>1 DEF IInv, StageInv, Throws
  <2>. QED  BY <2>1, <2>2, <2>3 DEF StageInv
<1>11. SetupInv' /\ TurnInv' /\ RefusedInv' /\ RefusalInv'
  BY <1>1, <1>2, <1>5 DEF IInv, SetupInv, TurnInv, RefusedInv, RefusalInv, LetsThrough, Passes
<1>12. Over' = Over
  BY <1>1, <1>5, <1>9 DEF Over
<1>13. \A s \in Over : request'[s] = request[s] /\ res'[s] = res[s]
  BY <1>1, <1>8, <1>9 DEF Over
<1>14. CountInv' /\ StoryInv' /\ ParseInv'
  BY <1>1, <1>12, <1>13, NothingAnswered DEF IInv
<1>. QED  BY <1>4, <1>10, <1>11, <1>14 DEF IInv

-----------------------------------------------------------------------------
LEMMA NextPreserves == IInv /\ [Next]_vars => IInv'
<1>. SUFFICES ASSUME IInv, [Next]_vars PROVE IInv'
  OBVIOUS
<1>1. CASE OwnerStep /\ UNCHANGED apiVars
  BY <1>1, UsePreserves, ListenPreserves, StopPreserves DEF OwnerStep
<1>2. CASE \E r \in Requests : ServerStep(r)
  <2>. PICK r \in Requests : ServerStep(r)
    BY <1>2
  <2>1. CASE RequestStep(r) /\ UNCHANGED apiVars
    BY <2>1, BeginPreserves, RunMiddlewarePreserves, CallHandlerPreserves DEF RequestStep
  <2>2. CASE HandlerStep(r)
    BY <2>2, ThrowEarlyPreserves, LockPreserves, ListItemsPreserves, GetItemPreserves,
       CreateItemPreserves, DeleteItemPreserves DEF HandlerStep
  <2>. QED  BY <2>1, <2>2 DEF ServerStep
<1>3. CASE \E q \in Asked : Call(q)
  BY <1>3, CallPreserves
<1>4. CASE UNCHANGED vars
  <2>1. UNCHANGED <<middleware_, server, stage, at, res, ran,
                    g_items, g_next_id, g_mu, request>>
    BY <1>4 DEF vars, restVars, apiVars
  <2>2. /\ TypeOK' /\ StageInv' /\ SetupInv' /\ TurnInv'
        /\ RefusedInv' /\ RefusalInv'
    BY <2>1 DEF IInv, TypeOK, RestTypeOK, StageInv, SetupInv, TurnInv, RefusedInv,
                RefusalInv, LetsThrough, Passes, Throws
  <2>3. Over' = Over
    BY <2>1 DEF Over
  <2>4. CountInv' /\ StoryInv' /\ ParseInv'
    BY <2>1, <2>3, NothingAnswered DEF IInv
  <2>. QED  BY <2>2, <2>4 DEF IInv
<1>. QED  BY <1>1, <1>2, <1>3, <1>4 DEF Next

(* The inductive invariant: the stages agree with the mutex and with what was
   run, the counter has counted the creates, and the answers tell the story of
   the table. *)
THEOREM ItemsInvariant == Spec => []IInv
<1>1. Init => IInv
  BY InitEstablishes
<1>2. IInv /\ [Next]_vars => IInv'
  BY NextPreserves
<1>. QED  BY <1>1, <1>2, PTL DEF Spec

(* The answers, the table and the clients agree at every moment: with any
   number of concurrent requests, whatever they ask and whichever handlers
   throw, no id is given twice and every answer can be parsed. *)
THEOREM ItemsAnswersExact == Spec => []AnswersExact
<1>1. IInv => AnswersExact
  <2>. SUFFICES ASSUME IInv PROVE AnswersExact
    OBVIOUS
  <2>1. TypeOK /\ AnswersMatchTable
    BY DEF IInv, StoryInv
  <2>2. /\ Answers("create", 201) \subseteq Requests
        /\ Answers("delete", 200) \subseteq Requests
    BY DEF Answers, IInv, TypeOK, RestTypeOK
  <2>3. IdsOnce
    BY <2>2, IdsCounted DEF IdsOnce, Created, Deleted, IInv, StoryInv
  <2>4. ASSUME NEW r \in ran, stage[r] = "answered"
        PROVE  Outcome(r) = "returns"
    <3>1. res[r].body = "json"
      BY <2>4 DEF IInv, ParseInv, Over
    <3>2. r \in Requests /\ r \in 1..Len(request)
      BY <2>4, ConstantFacts DEF IInv, TypeOK, RestTypeOK, StageInv
    <3>3. request[r] \in Asked
      BY <3>2 DEF IInv, TypeOK
    <3>4. request[r].op \in {"list", "get", "delete", "create"}
      BY <3>3, ConstantFacts
    <3>. QED  BY <3>1, <3>4 DEF Outcome, get_json, post_json, del
  <2>5. AnswersParse
    BY <2>4 DEF AnswersParse
  <2>. QED  BY <2>1, <2>3, <2>5 DEF AnswersExact
<1>. QED  BY <1>1, ItemsInvariant, PTL

(* The middleware, however much there is, decides which requests are handled.
   If responses begin with status 200, as the code assumes, the handlers run
   exactly if all middleware passes; if they begin with the status that stands
   for none, no handler runs behind any middleware at all. *)
THEOREM MiddlewareDecidesHandlers ==
  Spec => [](IF LetsThrough
             THEN \A r \in Requests : stage[r] = "answered" => r \in ran
             ELSE ran = {})
<1>1. IInv => IF LetsThrough
              THEN \A r \in Requests : stage[r] = "answered" => r \in ran
              ELSE ran = {}
  BY DEF IInv, RefusedInv, RefusalInv
<1>. QED  BY <1>1, ItemsInvariant, PTL
=============================================================================

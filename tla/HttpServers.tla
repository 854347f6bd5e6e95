----------------------------- MODULE HttpServers -----------------------------
(***************************************************************************)
(* The HTTP and the HTTPS server of the SensorAdapter (MHD_Callback,       *)
(* MHD_Callback_Https, request_completed) and the check of the token       *)
(* (SensorHandler::Callback_Serve_HTTPs_GET), over the protocol by which   *)
(* libmicrohttpd calls a handler: once when the headers are there, once    *)
(* for each piece of the body, once at the end, and then again as long as  *)
(* no answer is queued.  What a connection goes through is that of         *)
(* connection.c, of which the repository holds a changed copy; the rest of *)
(* libmicrohttpd (its daemon) is external.  A server handles its           *)
(* connections on one thread.                                              *)
(*                                                                         *)
(* The headers' call and the last call of a bare request are made in one   *)
(* pass of that thread, which no timeout divides.  libmicrohttpd reads the *)
(* body of any method that declares one, and waits for the client between  *)
(* the two calls.  A client sends a request after the answer to the one    *)
(* before; requests libmicrohttpd refuses by itself are left out.          *)
(***************************************************************************)
EXTENDS Integers, FiniteSets

CONSTANTS
  Http,        \* connections to the HTTP server
  Https,       \* connections to the HTTPS server
  Credentials, \* the tokens clients present, each with the client's name
  Grants,      \* what the Authorization system has issued tokens for
  Nameless,    \* clients whose name has no second part of at least "CN="
  NoOne,       \* one of them: no certificate, and the name is read as "error"
  Service,     \* interface and definition of the sensor's service
  MaxRequests, \* bound: requests of a connection
  MaxPieces,   \* bound: pieces of a body
  MaxTime      \* bound: clock

Connections == Http \cup Https
Tokens == {p.token : p \in Credentials}

ASSUME ServersAssumption == Http \cap Https = {}
ASSUME NamelessAssumption == NoOne \in Nameless
ASSUME BoundsAssumption == MaxRequests \in Nat /\ MaxPieces \in Nat /\ MaxTime \in Nat \ {0}

\* A token is what Callback_Serve_HTTPs_GET tells apart: whether its signature
\* verifies, whether it decrypts to "error", to JSON or to something else, and
\* the fields it has.  The name is the first label of the common name.
ASSUME TokensAssumption ==
  \A t \in Tokens : /\ t.verified \in BOOLEAN
                    /\ t.text \in {"error", "other", "json"}
                    /\ t.fields \subseteq {"s", "c", "e"}
                    /\ t.e \in Nat

\* Only the Authorization system signs.
ASSUME GrantsAssumption ==
  \A t \in Tokens : t.verified /\ t.text = "json" /\ t.fields = {"s", "c", "e"}
                      => [consumer |-> t.c, service |-> t.s, until |-> t.e] \in Grants

VARIABLES
  process,   \* "running", or "undefined" after undefined behaviour
  up,        \* the servers MHD_stop_daemon has not been called for
  state,     \* where libmicrohttpd is with each connection
  request,   \* the request it handles
  number,    \* how many it has received
  remaining, \* pieces of the body not yet handed to the handler
  context,   \* *con_cls: NULL, Aptr, or the number of the request con_info is of
  live,      \* the requests whose con_info is allocated
  response,  \* the answer queued
  accepted,  \* times the adapter took the request's body for a measurement
  known,     \* the secure sensor is in SensorTable
  now

connVars == <<state, request, number, remaining, response, accepted>>
vars == <<process, up, connVars, context, live, known, now>>

----------------------------------------------------------------------------
NULL == 0
Aptr == -1

States == {"closed", "reading", "first", "body", "final", "again", "cut", "sending"}
Responses == {"none", "text", "value", "empty", "ok", "unknown"}

NoToken == [verified |-> FALSE, text |-> "other", fields |-> {}, s |-> Service,
            c |-> NoOne, e |-> 0]

\* Whether the end of a body comes with its last piece, or with the headers when
\* it has none; or apart, as when it is chunked or 100 Continue has to be sent.
Ends == {"joined", "apart"}

Plain(method, pieces, end) ==
  [method |-> method, pieces |-> pieces, end |-> end, token |-> NoToken, consumer |-> NoOne]

NoRequest == Plain("other", 0, "joined")

\* Between its first and its last call libmicrohttpd does not wait for the client.
Bare(q) == q.pieces = 0 /\ q.end = "joined"

\* No handler takes a piece of a GET, so that neither their number matters nor
\* what follows them.
Gets == {Plain("GET", 0, "joined"), Plain("GET", 0, "apart"), Plain("GET", MaxPieces, "apart")}

\* "other" is apart when it has a body: libmicrohttpd will not read that.
Requests(c) ==
  {Plain("POST", n, e) : n \in 0..MaxPieces, e \in Ends} \cup {Plain("other", 0, e) : e \in Ends}
  \cup IF c \in Http
       THEN Gets
       ELSE {[method |-> "GET", pieces |-> q.pieces, end |-> q.end,
              token |-> p.token, consumer |-> p.consumer] : q \in Gets, p \in Credentials}

AllRequests == UNION {Requests(c) : c \in Connections}

Running == process = "running"
Server(c) == IF c \in Http THEN "http" ELSE "https"
OfServer(srv) == IF srv = "http" THEN Http ELSE Https

\* The body came in one piece: a piece is all the adapter is given to parse.
Whole(q) == q.method = "POST" /\ q.pieces = 1

Init ==
  /\ process = "running"
  /\ up = {"http", "https"}
  /\ state = [c \in Connections |-> "closed"]
  /\ request = [c \in Connections |-> NoRequest]
  /\ number = [c \in Connections |-> 0]
  /\ remaining = [c \in Connections |-> 0]
  /\ context = [c \in Connections |-> NULL]
  /\ live = [c \in Connections |-> {}]
  /\ response = [c \in Connections |-> "none"]
  /\ accepted = [c \in Connections |-> 0]
  /\ known \in BOOLEAN
  /\ now = 1

----------------------------------------------------------------------------
(* The environment.                                                        *)

Connect(c) ==
  /\ Running
  /\ Server(c) \in up
  /\ state[c] = "closed"
  /\ number[c] < MaxRequests
  /\ state' = [state EXCEPT ![c] = "reading"]
  /\ UNCHANGED <<process, up, request, number, remaining, response, accepted,
                 context, live, known, now>>

\* The headers of a request have been read.
Receive(c) ==
  /\ Running
  /\ state[c] = "reading"
  /\ number[c] < MaxRequests
  /\ \E q \in Requests(c) : /\ request' = [request EXCEPT ![c] = q]
                            /\ remaining' = [remaining EXCEPT ![c] = q.pieces]
  /\ number' = [number EXCEPT ![c] = @ + 1]
  /\ state' = [state EXCEPT ![c] = "first"]
  /\ UNCHANGED <<process, up, response, accepted, context, live, known, now>>

\* The secure sensor's first measurement registers it (ProviderRegistration).
SensorRegistered ==
  /\ Running
  /\ ~known
  /\ known' = TRUE
  /\ UNCHANGED <<process, up, connVars, context, live, now>>

Tick ==
  /\ Running
  /\ now < MaxTime
  /\ now' = now + 1
  /\ UNCHANGED <<process, up, connVars, context, live, known>>

----------------------------------------------------------------------------
(* Callback_Serve_HTTPs_GET, with the checks in the order of the code.     *)

Verified(q) == known /\ q.token.verified

\* It returns false: MHD_Callback_Https queues no answer.
ReturnsFalse(q) == Verified(q) /\ (q.token.text # "json" \/ "s" \notin q.token.fields)

Identified(q) ==
  /\ Verified(q)
  /\ ~ReturnsFalse(q)
  /\ {"c", "e"} \subseteq q.token.fields
  /\ q.token.s = Service

\* dn_content[1] of a name with one part does not exist, and substr(3) of a
\* shorter second part throws through libmicrohttpd.
ReadsPastEnd(q) == Identified(q) /\ q.consumer \in Nameless

NotExpired(t) == t.e = 0 \/ t.e >= now

\* Mutant: the name of the consumer is not compared.
ServesAnyConsumer(q) == Identified(q) /\ NotExpired(q.token)

\* The names are compared up to the first dot, which is what q.consumer is.
Serves(q) == Identified(q) /\ q.token.c = q.consumer /\ NotExpired(q.token)

----------------------------------------------------------------------------
(* The end of a request.                                                   *)

\* Mutant: the HTTP server, too, is started without a completion callback.
NotifyNobody(S) == UNCHANGED live

\* request_completed, which only MakeServer registers, frees the con_info.
Notify(S) ==
  live' = [c \in Connections |->
             IF c \in S \cap Http THEN live[c] \ {context[c]} ELSE live[c]]

\* It leaves NULL alone, and frees whatever else *con_cls is.
FreesOther(S) == \E c \in S \cap Http : context[c] \notin live[c] \cup {NULL}

\* libmicrohttpd forgets the request; the connection stays open or is closed.
Forget(S, next) ==
  /\ state' = [c \in Connections |-> IF c \in S THEN next ELSE state[c]]
  /\ context' = [c \in Connections |-> IF c \in S THEN NULL ELSE context[c]]
  /\ response' = [c \in Connections |-> IF c \in S THEN "none" ELSE response[c]]
  /\ request' = [c \in Connections |-> IF c \in S THEN NoRequest ELSE request[c]]
  /\ remaining' = [c \in Connections |-> IF c \in S THEN 0 ELSE remaining[c]]
  /\ accepted' = [c \in Connections |-> IF c \in S THEN 0 ELSE accepted[c]]
  /\ UNCHANGED <<number, known, now>>

Leave(S, next) ==
  \/ /\ FreesOther(S)
     /\ process' = "undefined"
     /\ UNCHANGED <<connVars, context, live, known, now>>
  \/ /\ ~FreesOther(S)
     /\ Notify(S)
     /\ Forget(S, next)
     /\ UNCHANGED process

----------------------------------------------------------------------------
(* The calls of the handler.                                               *)

\* A piece of the body is there.
Piece(c) == state[c] = "body" /\ remaining[c] > 0

\* MHD_queue_response in the first or the last call.  Once the server is being
\* stopped it drops the answer, says MHD_YES, and the thread ends.
Respond(c, r) ==
  IF Server(c) \in up
  THEN /\ response' = [response EXCEPT ![c] = r]
       /\ state' = [state EXCEPT ![c] = "sending"]
  ELSE /\ state' = [state EXCEPT ![c] = "cut"]
       /\ UNCHANGED response

\* Where libmicrohttpd is after a call of a GET that neither answers nor closes.
AfterCall(c) == IF state[c] = "first" THEN IF Bare(request[c]) THEN "final" ELSE "body"
                ELSE IF Piece(c) THEN "body"
                ELSE "again"

\* Mutant: the test whether this is the first call is the wrong way round.
GetFirstCallNever(c) ==
  /\ Running
  /\ request[c].method = "GET"
  /\ state[c] \in {"first", "final", "again"} \/ Piece(c)
  /\ context[c] # Aptr
  /\ state' = [state EXCEPT ![c] = AfterCall(c)]
  /\ UNCHANGED <<process, up, request, number, remaining, response, accepted,
                 context, live, known, now>>

\* A GET whose context is not &aptr: "do never respond on first call".
GetFirstCall(c) ==
  /\ Running
  /\ request[c].method = "GET"
  /\ state[c] \in {"first", "final", "again"} \/ Piece(c)
  /\ context[c] # Aptr
  /\ context' = [context EXCEPT ![c] = Aptr]
  /\ state' = [state EXCEPT ![c] = AfterCall(c)]
  /\ UNCHANGED <<process, up, request, number, remaining, response, accepted,
                 live, known, now>>

\* The callback of a GET has returned true.  During the body MHD_queue_response
\* refuses the answer, and MHD_NO closes the connection, *con_cls being NULL.
GetAnswered(c, r) ==
  \/ /\ Piece(c)
     /\ Forget({c}, "closed")
  \/ /\ ~Piece(c)
     /\ Respond(c, r)
     /\ context' = [context EXCEPT ![c] = NULL]
     /\ UNCHANGED <<request, number, remaining, accepted, known, now>>

\* Mutant: an unknown sensor makes the HTTP callback return 0.
HttpGetUnanswered(c) ==
  /\ Running
  /\ c \in Http
  /\ request[c].method = "GET"
  /\ state[c] \in {"final", "again"} \/ Piece(c)
  /\ context[c] = Aptr
  /\ state' = [state EXCEPT ![c] = AfterCall(c)]
  /\ context' = [context EXCEPT ![c] = NULL]
  /\ UNCHANGED <<process, up, request, number, remaining, response, accepted,
                 live, known, now>>

\* The call of a GET that finds &aptr; the HTTP callback always returns 1, with
\* a value or the text of an error.
HttpGet(c) ==
  /\ Running
  /\ c \in Http
  /\ request[c].method = "GET"
  /\ state[c] \in {"final", "again"} \/ Piece(c)
  /\ context[c] = Aptr
  /\ GetAnswered(c, "text")
  /\ UNCHANGED <<process, up, live>>

\* Nothing is queued when the callback returns false: a piece of the body comes
\* again, and so does the last call.
HttpsGet(c) ==
  /\ Running
  /\ c \in Https
  /\ request[c].method = "GET"
  /\ state[c] \in {"final", "again"} \/ Piece(c)
  /\ context[c] = Aptr
  /\ \/ /\ ReadsPastEnd(request[c])
        /\ process' = "undefined"
        /\ context' = [context EXCEPT ![c] = NULL]
        /\ UNCHANGED <<connVars, known, now>>
     \/ /\ ReturnsFalse(request[c])
        /\ state' = [state EXCEPT ![c] = AfterCall(c)]
        /\ context' = [context EXCEPT ![c] = NULL]
        /\ UNCHANGED <<process, request, number, remaining, response, accepted, known, now>>
     \/ /\ ~ReadsPastEnd(request[c])
        /\ ~ReturnsFalse(request[c])
        /\ GetAnswered(c, IF Serves(request[c]) THEN "value" ELSE "empty")
        /\ UNCHANGED process
  /\ UNCHANGED <<up, live>>

\* The first call of a POST allocates con_info; when malloc or the post
\* processor fails nothing stays allocated and MHD_NO closes the connection.
PostFirstCall(c) ==
  /\ Running
  /\ request[c].method = "POST"
  /\ state[c] = "first"
  /\ context[c] = NULL
  /\ \/ /\ live' = [live EXCEPT ![c] = @ \cup {number[c]}]
        /\ context' = [context EXCEPT ![c] = number[c]]
        /\ state' = [state EXCEPT ![c] = IF Bare(request[c]) THEN "final" ELSE "body"]
        /\ UNCHANGED <<process, request, number, remaining, response, accepted, known, now>>
     \/ Leave({c}, "closed")
  /\ UNCHANGED up

\* Mutant: *upload_data_size is not reset, and the piece comes again.
PostPieceAgain(c) ==
  /\ Running
  /\ request[c].method = "POST"
  /\ Piece(c)
  /\ accepted' = [accepted EXCEPT ![c] = IF Whole(request[c]) THEN @ + 1 ELSE @]
  /\ UNCHANGED <<process, up, state, request, number, remaining, response,
                 context, live, known, now>>

\* Each piece is handed on as if it were the whole body; a part of a document
\* does not parse, and httpPOSTCallback's value is ignored.
PostPiece(c) ==
  /\ Running
  /\ request[c].method = "POST"
  /\ Piece(c)
  /\ accepted' = [accepted EXCEPT ![c] = IF Whole(request[c]) THEN @ + 1 ELSE @]
  /\ remaining' = [remaining EXCEPT ![c] = @ - 1]
  /\ state' = [state EXCEPT ![c] = IF remaining[c] = 1 /\ request[c].end = "joined"
                                  THEN "final" ELSE "body"]
  /\ UNCHANGED <<process, up, request, number, response, context, live, known, now>>

\* The last call of a POST.
PostLastCall(c) ==
  /\ Running
  /\ request[c].method = "POST"
  /\ state[c] = "final"
  /\ Respond(c, "ok")
  /\ UNCHANGED <<process, up, request, number, remaining, accepted, context, live, known, now>>

\* Any other method is answered at the first call; with an answer queued
\* libmicrohttpd makes no further call and reads no piece of a body.
UnknownMethod(c) ==
  /\ Running
  /\ request[c].method = "other"
  /\ state[c] = "first"
  /\ Respond(c, "unknown")
  /\ UNCHANGED <<process, up, request, number, remaining, accepted, context, live, known, now>>

Call(c) ==
  \/ GetFirstCall(c)
  \/ HttpGet(c)
  \/ HttpsGet(c)
  \/ PostFirstCall(c)
  \/ PostLastCall(c)
  \/ UnknownMethod(c)

----------------------------------------------------------------------------
(* The end of a connection.                                                *)

\* The body's end, after its pieces and, for a GET, without any.
BodyEnds(c) ==
  /\ Running
  /\ state[c] = "body"
  /\ remaining[c] = 0
  /\ state' = [state EXCEPT ![c] = "final"]
  /\ UNCHANGED <<process, up, request, number, remaining, response, accepted,
                 context, live, known, now>>

\* An answer queued before a body is not sent: libmicrohttpd waits for the body
\* that it does not read.
AnswerSent(c) ==
  /\ Running
  /\ state[c] = "sending"
  /\ ~(request[c].method = "other" /\ request[c].end = "apart")
  /\ \E next \in {"reading", "closed"} : Leave({c}, next)
  /\ UNCHANGED up

\* The server waits for the client, or for its own next pass.
Waiting(c) == state[c] \in {"reading", "body", "again", "cut", "sending"}

ClientCloses(c) ==
  /\ Running
  /\ Waiting(c)
  /\ Leave({c}, "closed")
  /\ UNCHANGED up

\* Mutant: MHD_OPTION_CONNECTION_TIMEOUT is not given.
TimeoutNever(c) == FALSE /\ UNCHANGED vars

\* MHD_OPTION_CONNECTION_TIMEOUT: 120 s without activity.
Timeout(c) ==
  /\ Running
  /\ Waiting(c)
  /\ Leave({c}, "closed")
  /\ UNCHANGED up

\* KillServer, then KillHttpsServer (ServiceRegistryInterface::deinit).
\* MHD_stop_daemon tells the thread, which may be in a pass, to end ...
KillServer(srv) ==
  /\ Running
  /\ srv \in up
  /\ srv = "https" => "http" \notin up /\ \A c \in Http : state[c] = "closed"
  /\ up' = up \ {srv}
  /\ UNCHANGED <<process, connVars, context, live, known, now>>

\* ... and when it has, closes the connections.
CloseAll(srv) ==
  /\ Running
  /\ srv \notin up
  /\ \E c \in OfServer(srv) : state[c] # "closed"
  /\ \A c \in OfServer(srv) : Waiting(c) \/ state[c] = "closed"
  /\ Leave(OfServer(srv), "closed")
  /\ UNCHANGED up

Step(c) ==
  \/ Connect(c)
  \/ Receive(c)
  \/ Call(c)
  \/ PostPiece(c)
  \/ BodyEnds(c)
  \/ AnswerSent(c)
  \/ ClientCloses(c)
  \/ Timeout(c)

Next ==
  \/ \E c \in Connections : Step(c)
  \/ SensorRegistered
  \/ Tick
  \/ \E srv \in {"http", "https"} : KillServer(srv) \/ CloseAll(srv)

Spec == Init /\ [][Next]_vars

\* One pass of the thread makes the headers' and the last call; a pass is only
\* promised while a request is in one, and the timeout always comes, or else the
\* end of MHD_stop_daemon.
Pass(c) == state[c] \in {"first", "final"} /\ Call(c)

Fairness ==
  /\ \A c \in Connections :
       /\ WF_vars(Pass(c))
       /\ WF_vars(Server(c) \in up /\ state[c] # "reading" /\ Timeout(c))
  /\ \A srv \in {"http", "https"} : WF_vars(CloseAll(srv))

FairSpec == Spec /\ Fairness

----------------------------------------------------------------------------
(* Properties.                                                             *)

\* Every variable has its type; the adapter takes a body at most once.
TypeOK ==
  /\ process \in {"running", "undefined"}
  /\ up \subseteq {"http", "https"}
  /\ state \in [Connections -> States]
  /\ request \in [Connections -> AllRequests]
  /\ \A c \in Connections : request[c] \in Requests(c)
  /\ number \in [Connections -> 0..MaxRequests]
  /\ remaining \in [Connections -> 0..MaxPieces]
  /\ context \in [Connections -> {Aptr} \cup 0..MaxRequests]
  /\ live \in [Connections -> SUBSET (1..MaxRequests)]
  /\ response \in [Connections -> Responses]
  /\ accepted \in [Connections -> 0..1]
  /\ known \in BOOLEAN
  /\ now \in 1..MaxTime

\* On the HTTP server a con_info is allocated exactly as long as the POST it
\* belongs to, however that ends; on the HTTPS server, which leaks it, no
\* request works on one that is not allocated.
BlocksAreOwned ==
  /\ \A c \in Http : live[c] = {context[c]} \ {NULL, Aptr}
  /\ \A c \in Https : context[c] \in live[c] \cup {NULL, Aptr}

\* A request of a client with a name of one part has passed the other checks.
NamelessClient == \E c \in Https : request[c].method = "GET" /\ ReadsPastEnd(request[c])

\* A GET is between its calls, with the static of MHD_Callback in *con_cls, and
\* libmicrohttpd waits for a body its client has declared.
AwaitedGet ==
  \E c \in Http : /\ request[c].method = "GET"
                  /\ ~Bare(request[c])
                  /\ state[c] = "body"
                  /\ context[c] = Aptr

\* Undefined behaviour has two causes: the name of a client, and the end of a
\* connection while the body of a GET is awaited, for which request_completed
\* frees a static.  No other order of calls, timeouts, closes and stops makes it
\* free what is not allocated, twice for instance.
UndefinedHasTwoCauses == process = "undefined" => NamelessClient \/ AwaitedGet

\* Granted(q): the Authorization system has issued a token for this consumer
\* and this service which has not expired.
Granted(q) ==
  \E g \in Grants : /\ g.consumer = q.consumer
                    /\ g.service = Service
                    /\ g.until = 0 \/ g.until >= now

\* A consumer gets a value of the secure sensor only if it has been granted the
\* service, as of the call that answers, however often the handler was called
\* for the request before.
AnswersAreAuthorised ==
  [][\A c \in Connections :
       response'[c] = "value" /\ response[c] # "value" => Granted(request[c])]_vars

\* A bare GET whose token is in order gets the value, unless the token expires
\* before the callback, the server is stopped or another request ends the
\* program: libmicrohttpd's two calls are told apart in every request of a
\* connection.
AuthorisedIsAnswered ==
  \A c \in Https :
    (state[c] = "first" /\ request[c].method = "GET" /\ Bare(request[c]) /\ Serves(request[c]))
      ~> \/ response[c] = "value"
         \/ ~NotExpired(request[c].token)
         \/ "https" \notin up
         \/ ~Running

\* What the servers promise: each request is answered or its connection closed,
\* the former at most once and after its measurement, if it came whole, has
\* been handed on exactly once.
Asked(c) == state[c] \notin {"closed", "reading"}

Phase == [c \in Connections |-> IF ~Asked(c) THEN "idle"
                                ELSE IF response[c] = "none" THEN "pending"
                                ELSE "answered"]

Duty == [c \in Connections |-> IF ~Asked(c) THEN "none"
                               ELSE IF accepted[c] > 1 THEN "twice"
                               ELSE IF Whole(request[c]) /\ accepted[c] = 0 THEN "due"
                               ELSE "none"]

Contract == INSTANCE RequestServer WITH
  Clients <- Connections, phase <- Phase, duty <- Duty, failed <- ~Running

ImplementsRequestServer == Contract!FairSpec
==============================================================================

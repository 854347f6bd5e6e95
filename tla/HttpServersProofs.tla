-------------------------- MODULE HttpServersProofs --------------------------
(***************************************************************************)
(* Proofs about the HTTP and the HTTPS server, for any number of           *)
(* connections and requests: type correctness, the two invariants, the     *)
(* action property, the way of an authorised request to its value and the  *)
(* safety part of the refinement.  That the passes are made and requests   *)
(* end needs fairness and stays with the model checker.                    *)
(***************************************************************************)
EXTENDS HttpServers, TLAPS

\* What libmicrohttpd's state says about the other variables of a connection.
Shape(c) ==
  /\ state[c] \in {"closed", "reading"} => request[c] = NoRequest /\ remaining[c] = 0
  /\ state[c] \notin {"closed", "reading"} => number[c] > 0
  /\ state[c] \in {"closed", "reading", "first"} => context[c] = NULL
  /\ remaining[c] <= request[c].pieces
  /\ state[c] = "first" \/ request[c].method # "POST" => remaining[c] = request[c].pieces
  /\ state[c] = "body" => request[c].method \in {"GET", "POST"} /\ ~Bare(request[c])
  /\ Running /\ request[c].method = "GET" /\ state[c] = "body" =>
       remaining[c] > 0 \/ context[c] = Aptr
  /\ Running /\ state[c] = "final" => request[c].method = "POST" \/ context[c] = Aptr
  /\ state[c] = "again" => request[c].method = "GET" /\ c \in Https
  /\ state[c] \in {"final", "again", "cut", "sending"} => remaining[c] = 0
  /\ response[c] # "none" <=> state[c] = "sending"
  /\ accepted[c] = IF Whole(request[c]) /\ remaining[c] = 0 THEN 1 ELSE 0

\* Whose the context is.
Context(c) ==
  /\ context[c] = Aptr => request[c].method = "GET" /\ state[c] \in {"body", "final", "again"}
  /\ context[c] > 0 => request[c].method = "POST" /\ context[c] = number[c]
  /\ state[c] \in {"body", "final"} /\ request[c].method = "POST" => context[c] = number[c]

Inv ==
  /\ TypeOK
  /\ \A c \in Connections : Shape(c) /\ Context(c)
  /\ BlocksAreOwned
  /\ UndefinedHasTwoCauses

----------------------------------------------------------------------------
(* The requests.                                                           *)

LEMMA GetsFacts ==
  ASSUME NEW q \in Gets
  PROVE  q.method = "GET" /\ q.pieces \in 0..MaxPieces /\ ~q.token.verified
BY BoundsAssumption DEF Gets, Plain, NoToken

LEMMA RequestFacts ==
  ASSUME NEW c \in Connections, NEW q \in Requests(c)
  PROVE  /\ q \in AllRequests
         /\ q.method \in {"GET", "POST", "other"}
         /\ q.pieces \in 0..MaxPieces
         /\ q.method = "other" => q.pieces = 0
         /\ q.token \in Tokens \/ ~q.token.verified
<1>1. q \in AllRequests
  BY DEF AllRequests
<1>2. CASE \E n \in 0..MaxPieces, e \in Ends : q = Plain("POST", n, e)
  BY <1>1, <1>2 DEF Plain, NoToken
<1>3. CASE \E e \in Ends : q = Plain("other", 0, e)
  BY <1>1, <1>3, BoundsAssumption DEF Plain, NoToken
<1>4. CASE q \in Gets
  BY <1>1, <1>4, GetsFacts
<1>5. CASE \E g \in Gets, p \in Credentials :
             q = [method |-> "GET", pieces |-> g.pieces, end |-> g.end,
                  token |-> p.token, consumer |-> p.consumer]
  BY <1>1, <1>5, GetsFacts DEF Tokens
<1>6. QED
  BY <1>2, <1>3, <1>4, <1>5 DEF Requests

LEMMA NoRequestFacts ==
  /\ NoRequest.method = "other" /\ NoRequest.pieces = 0
  /\ \A c \in Connections : NoRequest \in Requests(c) /\ NoRequest \in AllRequests
<1>1. \A c \in Connections : NoRequest \in Requests(c)
  BY DEF Requests, NoRequest, Ends
<1>2. QED
  BY <1>1 DEF AllRequests, NoRequest, Plain

----------------------------------------------------------------------------
(* The invariant.                                                          *)

LEMMA InitInv == Init => Inv
<1> SUFFICES ASSUME Init PROVE Inv
  OBVIOUS
<1>1. TypeOK
  BY NoRequestFacts, BoundsAssumption DEF Init, TypeOK, States, Responses, NULL, Aptr
<1>2. ASSUME NEW c \in Connections PROVE Shape(c) /\ Context(c)
  BY NoRequestFacts DEF Init, Shape, Running, Context, Whole, NULL, Aptr
<1>3. BlocksAreOwned
  BY DEF Init, BlocksAreOwned, NULL, Aptr, Connections
<1>4. UndefinedHasTwoCauses
  BY DEF Init, UndefinedHasTwoCauses
<1>5. QED
  BY <1>1, <1>2, <1>3, <1>4 DEF Inv

\* The request is forgotten and what it had allocated freed.
LEMMA ForgetInv ==
  ASSUME Inv, NEW S \in SUBSET Connections, NEW next \in {"reading", "closed"},
         Forget(S, next), process' = process, up' \subseteq up,
         \/ Notify(S)
         \/ UNCHANGED live /\ \A c \in S \cap Http : context[c] \in {NULL, Aptr},
         Running
  PROVE  Inv'
<1> USE DEF Forget, Notify
<1>1. TypeOK'
  <2>1. live' \in [Connections -> SUBSET (1..MaxRequests)]
    BY DEF Inv, TypeOK
  <2>2. /\ request' \in [Connections -> AllRequests]
        /\ \A c \in Connections : request'[c] \in Requests(c)
    BY NoRequestFacts DEF Inv, TypeOK
  <2>3. QED
    BY <2>1, <2>2, BoundsAssumption DEF Inv, TypeOK, States, Responses, NULL, Aptr
<1>2. ASSUME NEW c \in Connections PROVE Shape(c)' /\ Context(c)'
  BY NoRequestFacts DEF Inv, Shape, Running, Context, Whole, Bare, NULL, Aptr
<1>3. BlocksAreOwned'
  BY DEF Inv, BlocksAreOwned, Connections, NULL, Aptr
<1>4. UndefinedHasTwoCauses'
  BY DEF Running, UndefinedHasTwoCauses
<1>5. QED
  BY <1>1, <1>2, <1>3, <1>4 DEF Inv

\* What is not allocated and freed at the end of a request is the static of a
\* GET whose body was awaited.
LEMMA FreesOtherCause ==
  ASSUME Inv, Running, NEW S \in SUBSET Connections, FreesOther(S),
         \A c \in S : Waiting(c) \/ state[c] = "closed" \/ context[c] = NULL
  PROVE  AwaitedGet
<1>1. PICK c \in S \cap Http : context[c] \notin live[c] \cup {NULL}
  BY DEF FreesOther
<1>2. c \in Connections /\ c \notin Https
  BY ServersAssumption
<1>3. context[c] = Aptr
  BY <1>1 DEF Inv, BlocksAreOwned
<1>4. request[c].method = "GET" /\ state[c] = "body"
  BY <1>1, <1>2, <1>3 DEF Inv, Shape, Context, Waiting
<1>5. ~Bare(request[c])
  BY <1>2, <1>4 DEF Inv, Shape
<1>6. QED
  BY <1>3, <1>4, <1>5 DEF AwaitedGet

LEMMA LeaveInv ==
  ASSUME Inv, Running, NEW S \in SUBSET Connections, NEW next \in {"reading", "closed"},
         \A c \in S : Waiting(c) \/ state[c] = "closed" \/ context[c] = NULL,
         Leave(S, next), up' = up
  PROVE  Inv'
<1>1. CASE FreesOther(S) /\ process' = "undefined"
           /\ UNCHANGED <<connVars, context, live, known, now>>
  <2> USE <1>1 DEF connVars
  <2>1. TypeOK'
    BY DEF Inv, TypeOK
  <2>2. ASSUME NEW c \in Connections PROVE Shape(c)' /\ Context(c)'
    BY DEF Inv, Shape, Running, Context, Whole, Bare
  <2>3. BlocksAreOwned'
    BY DEF Inv, BlocksAreOwned
  <2>4. AwaitedGet'
    BY FreesOtherCause DEF AwaitedGet, Bare
  <2>5. QED
    BY <2>1, <2>2, <2>3, <2>4 DEF Inv, UndefinedHasTwoCauses
<1>2. CASE Notify(S) /\ Forget(S, next) /\ process' = process
  BY <1>2, ForgetInv
<1>3. QED
  BY <1>1, <1>2 DEF Leave

\* An answer to the last call.
LEMMA RespondInv ==
  ASSUME Inv, Running, NEW c \in Connections, NEW r \in Responses \ {"none"}, Respond(c, r),
         \/ state[c] \in {"final", "again"}
         \/ state[c] = "first" /\ request[c].method = "other",
         \/ context' = context /\ context[c] # Aptr
         \/ context' = [context EXCEPT ![c] = NULL] /\ context[c] = Aptr,
         UNCHANGED <<process, up, request, number, remaining, accepted, live, known, now>>
  PROVE  Inv'
<1> USE DEF Respond
<1>1. /\ state' = [state EXCEPT ![c] = state'[c]]
      /\ response' = [response EXCEPT ![c] = response'[c]]
      /\ \/ state'[c] = "sending" /\ response'[c] = r
         \/ state'[c] = "cut" /\ response'[c] = response[c]
  BY DEF Inv, TypeOK
<1>2. TypeOK'
  BY <1>1, BoundsAssumption DEF Inv, TypeOK, States, Responses, NULL
<1>3. remaining[c] = 0 /\ response[c] = "none"
  BY RequestFacts DEF Inv, TypeOK, Shape
<1>4. ASSUME NEW d \in Connections PROVE Shape(d)' /\ Context(d)'
  <2>1. CASE d = c
    BY <1>1, <1>3, <2>1 DEF Inv, TypeOK, Shape, Running, Context, Whole, Bare, NULL, Aptr
  <2>2. CASE d # c
    BY <1>1, <2>2 DEF Inv, TypeOK, Shape, Running, Context, Whole, Bare, NULL, Aptr
  <2>3. QED
    BY <2>1, <2>2
<1>5. BlocksAreOwned'
  BY DEF Inv, TypeOK, BlocksAreOwned, Connections, NULL, Aptr
<1>6. QED
  BY <1>2, <1>4, <1>5 DEF Inv, UndefinedHasTwoCauses, Running

LEMMA ConnectInv ==
  ASSUME Inv, NEW c \in Connections, Connect(c)
  PROVE  Inv'
<1> USE DEF Connect
<1>1. TypeOK'
  BY DEF Inv, TypeOK, States
<1>2. ASSUME NEW d \in Connections PROVE Shape(d)' /\ Context(d)'
  BY DEF Inv, TypeOK, Shape, Running, Context, Whole
<1>3. BlocksAreOwned' /\ UndefinedHasTwoCauses'
  BY DEF Inv, BlocksAreOwned, UndefinedHasTwoCauses, Running
<1>4. QED
  BY <1>1, <1>2, <1>3 DEF Inv

LEMMA ReceiveInv ==
  ASSUME Inv, NEW c \in Connections, Receive(c)
  PROVE  Inv'
<1> USE DEF Receive
<1>1. PICK q \in Requests(c) : /\ request' = [request EXCEPT ![c] = q]
                               /\ remaining' = [remaining EXCEPT ![c] = q.pieces]
  OBVIOUS
<1>2. TypeOK'
  BY <1>1, RequestFacts, BoundsAssumption DEF Inv, TypeOK, States
<1>3. ASSUME NEW d \in Connections PROVE Shape(d)' /\ Context(d)'
  <2>1. q.pieces \in 0..MaxPieces /\ accepted[c] = 0
    BY <1>1, RequestFacts, NoRequestFacts DEF Inv, Shape, Running, Whole
  <2>2. CASE d = c
    <3>1. /\ state'[c] = "first" /\ request'[c] = q /\ remaining'[c] = q.pieces
          /\ number'[c] = number[c] + 1 /\ accepted'[c] = 0
          /\ context'[c] = NULL /\ response'[c] = "none"
      BY <1>1, <2>1 DEF Inv, TypeOK, Shape
    <3>2. number'[c] \in Nat /\ number'[c] > 0
      BY <3>1 DEF Inv, TypeOK
    <3>3. Shape(c)'
      BY <2>1, <3>1, <3>2 DEF Shape, Running, Whole
    <3>4. Context(c)'
      BY <3>1 DEF Context, NULL, Aptr
    <3>5. QED
      BY <2>2, <3>3, <3>4
  <2>3. CASE d # c
    BY <1>1, <2>3 DEF Inv, TypeOK, Shape, Running, Context, Whole
  <2>4. QED
    BY <2>2, <2>3
<1>4. BlocksAreOwned' /\ UndefinedHasTwoCauses'
  BY DEF Inv, BlocksAreOwned, UndefinedHasTwoCauses, Running
<1>5. QED
  BY <1>2, <1>3, <1>4 DEF Inv

\* A call of a GET that neither answers nor closes.
LEMMA GetCallInv ==
  ASSUME Inv, Running, NEW c \in Connections, request[c].method = "GET",
         NEW n \in {NULL, Aptr}, n = Aptr \/ (state[c] # "first" /\ c \in Https),
         state[c] \in {"first", "final", "again"} \/ Piece(c),
         n = Aptr => context[c] # Aptr,
         context' = [context EXCEPT ![c] = n],
         state' = [state EXCEPT ![c] = AfterCall(c)],
         UNCHANGED <<process, up, request, number, remaining, response, accepted,
                     live, known, now>>
  PROVE  Inv'
<1>1. /\ \/ state[c] = "first" /\ Bare(request[c]) /\ state'[c] = "final"
         \/ state[c] = "first" /\ ~Bare(request[c]) /\ state'[c] = "body"
         \/ state[c] = "body" /\ remaining[c] > 0 /\ state'[c] = "body"
         \/ state[c] \in {"final", "again"} /\ state'[c] = "again"
      /\ state[c] \in States
      /\ \A d \in Connections \ {c} : state'[d] = state[d] /\ context'[d] = context[d]
      /\ context'[c] = n
  BY DEF Inv, TypeOK, AfterCall, Piece
<1>2. TypeOK'
  BY <1>1, BoundsAssumption DEF Inv, TypeOK, States, NULL, Aptr
<1>3. ASSUME NEW d \in Connections PROVE Shape(d)' /\ Context(d)'
  <2>1. CASE d = c
    <3>1. number[c] > 0 /\ remaining[c] \in Nat /\ request[c].pieces \in Nat
      BY <1>1, RequestFacts, BoundsAssumption DEF Inv, TypeOK, Shape
    <3>2. state[c] = "final" => c \in Https
      BY DEF Inv, Shape
    <3>3. state'[c] = "final" => remaining[c] = 0
      BY <1>1 DEF Inv, Shape, Bare
    <3>4. Shape(c)'
      BY <1>1, <3>1, <3>2, <3>3 DEF Inv, Shape, Running, Whole, Bare, NULL, Aptr
    <3>5. Context(c)'
      BY <1>1 DEF Inv, Context, NULL, Aptr
    <3>6. QED
      BY <2>1, <3>4, <3>5
  <2>2. CASE d # c
    BY <1>1, <2>2 DEF Inv, TypeOK, Shape, Running, Context, Whole, Bare
  <2>3. QED
    BY <2>1, <2>2
<1>4. context[c] \in {NULL, Aptr}
  BY BoundsAssumption DEF Inv, TypeOK, Context, NULL, Aptr
<1>5. BlocksAreOwned'
  BY <1>1, <1>4 DEF Inv, BlocksAreOwned, Connections, NULL, Aptr
<1>6. QED
  BY <1>2, <1>3, <1>5 DEF Inv, UndefinedHasTwoCauses, Running

LEMMA GetFirstCallInv ==
  ASSUME Inv, NEW c \in Connections, GetFirstCall(c)
  PROVE  Inv'
<1>1. Aptr \in {NULL, Aptr}
  OBVIOUS
<1>2. /\ Running
      /\ request[c].method = "GET"
      /\ state[c] \in {"first", "final", "again"} \/ Piece(c)
      /\ context[c] # Aptr
      /\ context' = [context EXCEPT ![c] = Aptr]
      /\ state' = [state EXCEPT ![c] = AfterCall(c)]
      /\ UNCHANGED <<process, up, request, number, remaining, response, accepted,
                     live, known, now>>
  BY DEF GetFirstCall
<1>3. QED
  BY <1>1, <1>2, GetCallInv

\* A GET whose callback has returned true.
LEMMA GetAnsweredInv ==
  ASSUME Inv, Running, NEW c \in Connections, NEW r \in Responses \ {"none"}, GetAnswered(c, r),
         context[c] = Aptr, state[c] \in {"final", "again"} \/ Piece(c),
         UNCHANGED <<process, up, live>>
  PROVE  Inv'
<1>1. CASE Forget({c}, "closed")
  BY <1>1, ForgetInv
<1>2. CASE /\ ~Piece(c)
           /\ Respond(c, r)
           /\ context' = [context EXCEPT ![c] = NULL]
           /\ UNCHANGED <<request, number, remaining, accepted, known, now>>
  BY <1>2, RespondInv
<1>3. QED
  BY <1>1, <1>2 DEF GetAnswered

LEMMA HttpGetInv ==
  ASSUME Inv, NEW c \in Connections, HttpGet(c)
  PROVE  Inv'
<1>1. "text" \in Responses \ {"none"}
  BY DEF Responses
<1>2. QED
  BY <1>1, GetAnsweredInv DEF HttpGet

LEMMA HttpsGetInv ==
  ASSUME Inv, NEW c \in Connections, HttpsGet(c)
  PROVE  Inv'
<1>1. CASE ReadsPastEnd(request[c]) /\ process' = "undefined"
           /\ context' = [context EXCEPT ![c] = NULL] /\ UNCHANGED <<connVars, known, now, up, live>>
  <2> USE <1>1 DEF connVars
  <2>1. TypeOK'
    BY BoundsAssumption DEF Inv, TypeOK, NULL
  <2>2. ASSUME NEW d \in Connections PROVE Shape(d)' /\ Context(d)'
    <3>1. request[c].method # "POST"
      BY DEF HttpsGet
    <3>2. QED
      BY <3>1 DEF Inv, TypeOK, Shape, Running, Context, Whole, Bare, NULL, Aptr
  <2>3. BlocksAreOwned'
    BY ServersAssumption DEF Inv, TypeOK, BlocksAreOwned, HttpsGet, Connections, NULL, Aptr
  <2>4. NamelessClient'
    BY DEF HttpsGet, NamelessClient, ReadsPastEnd, Identified, Verified, ReturnsFalse
  <2>5. QED
    BY <2>1, <2>2, <2>3, <2>4 DEF Inv, UndefinedHasTwoCauses
<1>2. CASE /\ ReturnsFalse(request[c])
           /\ state' = [state EXCEPT ![c] = AfterCall(c)]
           /\ context' = [context EXCEPT ![c] = NULL]
           /\ UNCHANGED <<process, request, number, remaining, response, accepted, known, now, up, live>>
  <2>1. state[c] # "first"
    BY DEF HttpsGet, Piece
  <2>2. QED
    <3>1. NULL \in {NULL, Aptr} /\ NULL # Aptr
      BY DEF NULL, Aptr
    <3>2. QED
      BY <1>2, <2>1, <3>1, GetCallInv DEF HttpsGet
<1>3. CASE /\ GetAnswered(c, IF Serves(request[c]) THEN "value" ELSE "empty")
           /\ UNCHANGED <<process, up, live>>
  <2>1. (IF Serves(request[c]) THEN "value" ELSE "empty") \in Responses \ {"none"}
    BY DEF Responses
  <2>2. QED
    BY <1>3, <2>1, GetAnsweredInv DEF HttpsGet
<1>4. QED
  BY <1>1, <1>2, <1>3 DEF HttpsGet

LEMMA PostFirstCallInv ==
  ASSUME Inv, NEW c \in Connections, PostFirstCall(c)
  PROVE  Inv'
<1>1. CASE Leave({c}, "closed")
  BY <1>1, LeaveInv DEF PostFirstCall
<1>2. CASE ~Leave({c}, "closed")
  <2> USE <1>2 DEF PostFirstCall
  <2>1. TypeOK'
    BY BoundsAssumption DEF Inv, TypeOK, Shape, Running, States
  <2>2. ASSUME NEW d \in Connections PROVE Shape(d)' /\ Context(d)'
    <3>1. d = c => request[c].pieces \in Nat
      BY RequestFacts, BoundsAssumption DEF Inv, TypeOK
    <3>2. QED
      BY <3>1, BoundsAssumption DEF Inv, TypeOK, Shape, Running, Context, Whole, Bare, NULL, Aptr
  <2>3. BlocksAreOwned'
    BY BoundsAssumption DEF Inv, TypeOK, Shape, Running, BlocksAreOwned, Connections, NULL, Aptr
  <2>4. UndefinedHasTwoCauses'
    BY DEF Inv, UndefinedHasTwoCauses, Running
  <2>5. QED
    BY <2>1, <2>2, <2>3, <2>4 DEF Inv
<1>3. QED
  BY <1>1, <1>2

LEMMA PostPieceInv ==
  ASSUME Inv, NEW c \in Connections, PostPiece(c)
  PROVE  Inv'
<1> USE DEF PostPiece, Piece
<1>1. remaining[c] \in 1..MaxPieces /\ (Whole(request[c]) => remaining[c] = 1 /\ accepted[c] = 0)
  BY BoundsAssumption DEF Inv, TypeOK, Shape, Running, Whole
<1>2. TypeOK'
  BY <1>1, BoundsAssumption DEF Inv, TypeOK, States
<1>3. ASSUME NEW d \in Connections PROVE Shape(d)' /\ Context(d)'
  <2>1. CASE d = c
    <3>1. /\ remaining'[c] = remaining[c] - 1
          /\ state'[c] = "body" \/ (state'[c] = "final" /\ remaining[c] = 1)
          /\ accepted'[c] = IF Whole(request[c]) THEN accepted[c] + 1 ELSE accepted[c]
          /\ request'[c] = request[c] /\ context'[c] = context[c]
          /\ number'[c] = number[c] /\ response'[c] = response[c]
      BY DEF Inv, TypeOK
    <3>2. request[c].pieces \in Nat
      BY RequestFacts, BoundsAssumption DEF Inv, TypeOK
    <3>3. Shape(c)'
      BY <1>1, <3>1, <3>2 DEF Inv, Shape, Running, Whole, Bare
    <3>4. Context(c)'
      BY <3>1 DEF Inv, Context, NULL, Aptr
    <3>5. QED
      BY <2>1, <3>3, <3>4
  <2>2. CASE d # c
    BY <2>2 DEF Inv, TypeOK, Shape, Running, Context, Whole
  <2>3. QED
    BY <2>1, <2>2
<1>4. BlocksAreOwned' /\ UndefinedHasTwoCauses'
  BY DEF Inv, BlocksAreOwned, UndefinedHasTwoCauses, Running
<1>5. QED
  BY <1>2, <1>3, <1>4 DEF Inv

LEMMA PostLastCallInv ==
  ASSUME Inv, NEW c \in Connections, PostLastCall(c)
  PROVE  Inv'
<1>1. "ok" \in Responses \ {"none"}
  BY DEF Responses
<1>2. context[c] # Aptr
  BY DEF Inv, Context, PostLastCall
<1>3. QED
  BY <1>1, <1>2, RespondInv DEF PostLastCall

LEMMA UnknownMethodInv ==
  ASSUME Inv, NEW c \in Connections, UnknownMethod(c)
  PROVE  Inv'
<1>1. "unknown" \in Responses \ {"none"}
  BY DEF Responses
<1>2. context[c] # Aptr
  BY DEF Inv, Context, UnknownMethod
<1>3. QED
  BY <1>1, <1>2, RespondInv DEF UnknownMethod

LEMMA BodyEndsInv ==
  ASSUME Inv, NEW c \in Connections, BodyEnds(c)
  PROVE  Inv'
<1> USE DEF BodyEnds
<1>1. TypeOK'
  BY DEF Inv, TypeOK, States
<1>2. ASSUME NEW d \in Connections PROVE Shape(d)' /\ Context(d)'
  BY DEF Inv, TypeOK, Shape, Running, Context, Whole, Bare
<1>3. BlocksAreOwned' /\ UndefinedHasTwoCauses'
  BY DEF Inv, BlocksAreOwned, UndefinedHasTwoCauses, Running
<1>4. QED
  BY <1>1, <1>2, <1>3 DEF Inv

LEMMA AnswerSentInv ==
  ASSUME Inv, NEW c \in Connections, AnswerSent(c)
  PROVE  Inv'
<1>1. PICK next \in {"reading", "closed"} : Leave({c}, next)
  BY DEF AnswerSent
<1>2. QED
  BY <1>1, LeaveInv DEF AnswerSent, Waiting

LEMMA CloseInv ==
  ASSUME Inv, NEW c \in Connections, ClientCloses(c) \/ Timeout(c)
  PROVE  Inv'
BY LeaveInv DEF ClientCloses, Timeout

LEMMA CloseAllInv ==
  ASSUME Inv, NEW srv \in {"http", "https"}, CloseAll(srv)
  PROVE  Inv'
<1>1. OfServer(srv) \in SUBSET Connections
  BY DEF OfServer, Connections
<1>2. QED
  BY <1>1, LeaveInv DEF CloseAll

LEMMA KillServerInv ==
  ASSUME Inv, NEW srv \in {"http", "https"}, KillServer(srv)
  PROVE  Inv'
<1> USE DEF KillServer, connVars
<1>1. TypeOK'
  BY DEF Inv, TypeOK
<1>2. ASSUME NEW d \in Connections PROVE Shape(d)' /\ Context(d)'
  BY DEF Inv, Shape, Context, Running, Whole, Bare
<1>3. BlocksAreOwned' /\ UndefinedHasTwoCauses'
  BY DEF Inv, BlocksAreOwned, UndefinedHasTwoCauses, Running
<1>4. QED
  BY <1>1, <1>2, <1>3 DEF Inv

LEMMA EnvironmentInv ==
  ASSUME Inv, SensorRegistered \/ Tick \/ UNCHANGED vars
  PROVE  Inv'
<1> USE DEF SensorRegistered, Tick, vars, connVars
<1>1. TypeOK'
  <2>1. known' \in BOOLEAN
    BY Zenon DEF Inv, TypeOK
  <2>2. now' \in 1..MaxTime
    BY BoundsAssumption DEF Inv, TypeOK
  <2>3. UNCHANGED <<process, up, connVars, context, live>>
    OBVIOUS
  <2>4. QED
    BY <2>1, <2>2, <2>3 DEF Inv, TypeOK
<1>2. ASSUME NEW d \in Connections PROVE Shape(d)' /\ Context(d)'
  BY DEF Inv, Shape, Context, Running, Whole
<1>3. BlocksAreOwned' /\ UndefinedHasTwoCauses'
  <2>1. CASE Running'
    BY <2>1 DEF Inv, BlocksAreOwned, UndefinedHasTwoCauses, Running
  <2>2. CASE ~Running'
    <3>1. UNCHANGED vars
      BY <2>2 DEF Running
    <3>2. QED
      BY <3>1 DEF Inv, BlocksAreOwned, UndefinedHasTwoCauses, NamelessClient, AwaitedGet,
        ReadsPastEnd, Identified, Verified, ReturnsFalse
  <2>3. QED
    BY <2>1, <2>2
<1>4. QED
  BY <1>1, <1>2, <1>3 DEF Inv

LEMMA NextInv == Inv /\ [Next]_vars => Inv'
<1> SUFFICES ASSUME Inv, [Next]_vars PROVE Inv'
  OBVIOUS
<1>1. ASSUME NEW c \in Connections, Step(c) PROVE Inv'
  <2>1. CASE Connect(c)
    BY <2>1, ConnectInv
  <2>2. CASE Receive(c)
    BY <2>2, ReceiveInv
  <2>3. CASE GetFirstCall(c)
    BY <2>3, GetFirstCallInv
  <2>4. CASE HttpGet(c)
    BY <2>4, HttpGetInv
  <2>5. CASE HttpsGet(c)
    BY <2>5, HttpsGetInv
  <2>6. CASE PostFirstCall(c)
    BY <2>6, PostFirstCallInv
  <2>7. CASE PostLastCall(c)
    BY <2>7, PostLastCallInv
  <2>8. CASE UnknownMethod(c)
    BY <2>8, UnknownMethodInv
  <2>9. CASE PostPiece(c)
    BY <2>9, PostPieceInv
  <2>10. CASE AnswerSent(c)
    BY <2>10, AnswerSentInv
  <2>11. CASE ClientCloses(c) \/ Timeout(c)
    BY <2>11, CloseInv
  <2>12. CASE BodyEnds(c)
    BY <2>12, BodyEndsInv
  <2>13. QED
    BY <1>1, <2>1, <2>2, <2>3, <2>4, <2>5, <2>6, <2>7, <2>8, <2>9, <2>10, <2>11, <2>12
      DEF Step, Call
<1>2. ASSUME NEW srv \in {"http", "https"}, KillServer(srv) \/ CloseAll(srv) PROVE Inv'
  BY <1>2, KillServerInv, CloseAllInv
<1>3. CASE SensorRegistered \/ Tick \/ UNCHANGED vars
  BY <1>3, EnvironmentInv
<1>4. QED
  BY <1>1, <1>2, <1>3 DEF Next

\* The inductive invariant holds in every reachable state.
THEOREM Invariance == Spec => []Inv
BY InitInv, NextInv, PTL DEF Spec

\* The variables keep their types; a body is taken for a measurement at most once.
THEOREM TypeCorrect == Spec => []TypeOK
<1>1. Inv => TypeOK
  BY DEF Inv
<1>2. QED
  BY Invariance, <1>1, PTL

\* con_info is allocated exactly during its POST on the HTTP server, and never
\* used after it has been freed on either.
THEOREM MemoryIsOwned == Spec => []BlocksAreOwned
<1>1. Inv => BlocksAreOwned
  BY DEF Inv
<1>2. QED
  BY Invariance, <1>1, PTL

\* The name of a client and the end of an awaited GET are all that makes the
\* program undefined, whatever the order of calls, timeouts, closes and stops.
THEOREM UndefinedBehaviourIsKnown == Spec => []UndefinedHasTwoCauses
<1>1. Inv => UndefinedHasTwoCauses
  BY DEF Inv
<1>2. QED
  BY Invariance, <1>1, PTL

----------------------------------------------------------------------------
(* The check of the token.                                                 *)

\* What Serves accepts has been granted.
LEMMA ServesGranted ==
  ASSUME NEW c \in Connections, NEW q \in Requests(c), Serves(q)
  PROVE  Granted(q)
<1>1. q.token.verified /\ q.token.text = "json" /\ {"s", "c", "e"} \subseteq q.token.fields
  BY DEF Serves, Identified, Verified, ReturnsFalse
<1>2. q.token \in Tokens
  BY <1>1, RequestFacts
<1>3. q.token.fields = {"s", "c", "e"}
  BY <1>1, <1>2, TokensAssumption
<1>4. [consumer |-> q.token.c, service |-> q.token.s, until |-> q.token.e] \in Grants
  BY <1>1, <1>2, <1>3, GrantsAssumption
<1>5. q.token.c = q.consumer /\ q.token.s = Service /\ NotExpired(q.token)
  BY DEF Serves, Identified
<1>6. QED
  BY <1>4, <1>5 DEF Granted, NotExpired

\* A step that queues a value is a GET on the HTTPS server that Serves.
LEMMA ValueStep ==
  ASSUME Inv, [Next]_vars, NEW c \in Connections, response'[c] = "value", response[c] # "value"
  PROVE  Granted(request[c])
<1>1. ASSUME NEW d \in Connections, HttpsGet(d) PROVE c = d /\ Serves(request[d])
  BY <1>1 DEF Inv, TypeOK, HttpsGet, GetAnswered, Respond, Forget, connVars
<1>2. ASSUME NEW d \in Connections, Step(d) PROVE HttpsGet(d)
  <2>1. ~HttpGet(d)
    BY DEF Inv, TypeOK, HttpGet, GetAnswered, Respond, Forget
  <2>2. ~(PostLastCall(d) \/ UnknownMethod(d))
    BY DEF Inv, TypeOK, PostLastCall, UnknownMethod, Respond
  <2>3. ~(PostFirstCall(d) \/ AnswerSent(d) \/ ClientCloses(d) \/ Timeout(d))
    BY DEF Inv, TypeOK, PostFirstCall, AnswerSent, ClientCloses, Timeout, Leave, Forget, connVars
  <2>4. ~(Connect(d) \/ Receive(d) \/ GetFirstCall(d) \/ PostPiece(d) \/ BodyEnds(d))
    BY DEF Inv, TypeOK, Connect, Receive, GetFirstCall, PostPiece, BodyEnds
  <2>5. QED
    BY <1>2, <2>1, <2>2, <2>3, <2>4 DEF Step, Call
<1>3. \E d \in Connections : HttpsGet(d)
  BY <1>2 DEF Next, SensorRegistered, Tick, KillServer, CloseAll, Leave, Forget, vars, connVars
<1>4. Serves(request[c])
  BY <1>1, <1>3
<1>5. QED
  BY <1>4, ServesGranted DEF Inv, TypeOK

\* A value goes only to a consumer that has been granted the service.
THEOREM AuthorisedAnswers == Spec => AnswersAreAuthorised
<1>1. Inv /\ [Next]_vars =>
        [\A c \in Connections :
           response'[c] = "value" /\ response[c] # "value" => Granted(request[c])]_vars
  BY ValueStep
<1>2. QED
  BY Invariance, <1>1, PTL DEF Spec, AnswersAreAuthorised

----------------------------------------------------------------------------
(* The way of an authorised request.                                       *)

\* Both calls of a bare authorised GET are still to be made, or the second is.
OnItsWay(c) ==
  /\ state[c] \in {"first", "final"}
  /\ request[c].method = "GET"
  /\ Bare(request[c])
  /\ Serves(request[c])

\* From its headers to its value an authorised request only moves forward,
\* unless its token expires, the server is stopped or the program ends.
AuthorisedGoesOn ==
  [][\A c \in Https :
       OnItsWay(c) =>
         \/ OnItsWay(c)' /\ (state'[c] = "first" => state[c] = "first")
         \/ response'[c] = "value"
         \/ ~NotExpired(request[c].token)'
         \/ "https" \notin up
         \/ ~Running']_vars

\* What decides whether a request is on its way does not change, the clock aside.
LEMMA WayKept ==
  ASSUME NEW c \in Connections, OnItsWay(c), known' = known \/ known',
         request'[c] = request[c], state'[c] = state[c] \/ state'[c] = "final"
  PROVE  \/ OnItsWay(c)' /\ (state'[c] = "first" => state[c] = "first")
         \/ ~NotExpired(request[c].token)'
BY DEF OnItsWay, Serves, Identified, Verified, ReturnsFalse, NotExpired

\* The calls that are made for the request itself.
LEMMA OwnCall ==
  ASSUME Inv, NEW c \in Https, OnItsWay(c), Step(c), Running', "https" \in up
  PROVE  \/ state[c] = "first" /\ state'[c] = "final" /\ UNCHANGED <<request, known>>
         \/ response'[c] = "value"
<1>1. c \in Connections /\ c \notin Http
  BY ServersAssumption DEF Connections
<1>2. GetFirstCall(c) \/ HttpsGet(c)
  BY <1>1 DEF OnItsWay, Step, Call, Connect, Receive, HttpGet, PostFirstCall, PostPiece, Piece,
    PostLastCall, UnknownMethod, BodyEnds, AnswerSent, ClientCloses, Timeout, Waiting
<1>3. CASE GetFirstCall(c)
  <2>1. state[c] = "first"
    BY <1>1, <1>3 DEF Inv, Shape, OnItsWay, GetFirstCall
  <2>2. QED
    BY <1>1, <1>3, <2>1 DEF Inv, TypeOK, GetFirstCall, AfterCall, OnItsWay
<1>4. CASE HttpsGet(c)
  <2>1. ~ReturnsFalse(request[c]) /\ Server(c) \in up /\ ~Piece(c)
    BY <1>1 DEF OnItsWay, Serves, Identified, Server, Piece
  <2>2. QED
    BY <1>1, <1>4, <2>1 DEF Inv, TypeOK, HttpsGet, GetAnswered, Respond, OnItsWay, Running
<1>5. QED
  BY <1>2, <1>3, <1>4

\* No step of another connection touches it, and its server is not stopped
\* within a pass.
LEMMA OthersCall ==
  ASSUME Inv, NEW c \in Connections, OnItsWay(c),
         \/ \E d \in Connections \ {c} : Step(d)
         \/ SensorRegistered \/ Tick \/ UNCHANGED vars
         \/ \E srv \in {"http", "https"} : KillServer(srv) \/ CloseAll(srv)
  PROVE  request'[c] = request[c] /\ state'[c] = state[c] /\ (known' = known \/ known')
<1>1. ASSUME NEW d \in Connections \ {c}, Step(d)
      PROVE  request'[c] = request[c] /\ state'[c] = state[c] /\ known' = known
  <2>1. CASE HttpGet(d) \/ HttpsGet(d)
    BY <2>1 DEF Inv, TypeOK, HttpGet, HttpsGet, GetAnswered, Respond, Forget, connVars
  <2>2. CASE PostLastCall(d) \/ UnknownMethod(d)
    BY <2>2 DEF Inv, TypeOK, PostLastCall, UnknownMethod, Respond
  <2>3. CASE PostFirstCall(d) \/ AnswerSent(d) \/ ClientCloses(d) \/ Timeout(d)
    BY <2>3 DEF Inv, TypeOK, PostFirstCall, AnswerSent, ClientCloses, Timeout, Leave, Forget, connVars
  <2>4. CASE Connect(d) \/ Receive(d) \/ GetFirstCall(d) \/ PostPiece(d) \/ BodyEnds(d)
    BY <2>4 DEF Inv, TypeOK, Connect, Receive, GetFirstCall, PostPiece, BodyEnds
  <2>5. QED
    BY <1>1, <2>1, <2>2, <2>3, <2>4 DEF Step, Call
<1>2. ASSUME NEW srv \in {"http", "https"}, KillServer(srv) \/ CloseAll(srv)
      PROVE  request'[c] = request[c] /\ state'[c] = state[c] /\ known' = known
  <2>1. CloseAll(srv) => c \notin OfServer(srv)
    BY DEF CloseAll, Waiting, OnItsWay
  <2>2. QED
    BY <1>2, <2>1 DEF KillServer, CloseAll, Leave, Forget, connVars
<1>3. CASE SensorRegistered \/ Tick \/ UNCHANGED vars
  BY <1>3 DEF SensorRegistered, Tick, vars, connVars
<1>4. QED
  BY <1>1, <1>2, <1>3

\* A consumer whose bare request and token are in order is not refused, cut off
\* by the timeout while the server is up, nor sent back to the first call:
\* what fairness has to add to AuthorisedIsAnswered is that the passes are made.
THEOREM AuthorisedIsServed == Spec => AuthorisedGoesOn
<1>1. ASSUME Inv, [Next]_vars, NEW c \in Https, OnItsWay(c)
      PROVE  \/ OnItsWay(c)' /\ (state'[c] = "first" => state[c] = "first")
             \/ response'[c] = "value"
             \/ ~NotExpired(request[c].token)'
             \/ "https" \notin up
             \/ ~Running'
  <2>1. c \in Connections
    BY DEF Connections
  <2>2. CASE Step(c)
    BY <1>1, <2>1, <2>2, OwnCall, WayKept
  <2>3. CASE ~Step(c)
    BY <1>1, <2>1, <2>3, OthersCall, WayKept DEF Next
  <2>4. QED
    BY <2>2, <2>3
<1>2. Inv /\ [Next]_vars =>
        [\A c \in Https :
           OnItsWay(c) =>
             \/ OnItsWay(c)' /\ (state'[c] = "first" => state[c] = "first")
             \/ response'[c] = "value"
             \/ ~NotExpired(request[c].token)'
             \/ "https" \notin up
             \/ ~Running']_vars
  BY <1>1
<1>3. QED
  BY <1>2, Invariance, PTL DEF Spec, AuthorisedGoesOn

\* A measurement that came whole has been handed on, once, by the time its
\* request is answered, and is not handed on again while the answer is sent.
MeasuredOnce ==
  \A c \in Connections : response[c] # "none" /\ Whole(request[c]) => accepted[c] = 1

\* An answer tells a client that its measurement is in the adapter (MHD_Callback).
THEOREM AnswersFollowMeasurements == Spec => []MeasuredOnce
<1>1. Inv => MeasuredOnce
  BY DEF Inv, Shape, MeasuredOnce
<1>2. QED
  BY Invariance, <1>1, PTL

\* The guard of a call of the handler.
CanCall(c) ==
  \/ request[c].method = "GET" /\ (context[c] = Aptr => state[c] = "final")
  \/ request[c].method = "POST" /\ (state[c] = "first" => context[c] = NULL)
  \/ request[c].method = "other" /\ state[c] = "first"

\* What is begun can be ended: a request is either in a pass, with a call of the
\* handler to be made, or where the timeout and the client may end it.
NoRequestIsStuck ==
  \A c \in Connections :
    Running /\ Asked(c) => Waiting(c) \/ (state[c] \in {"first", "final"} /\ CanCall(c))

\* The safety half of the fairness of RequestServer: no order of calls leads to
\* a context the handler has no branch for.
THEOREM RequestsCanEnd == Spec => []NoRequestIsStuck
<1>1. ASSUME Inv PROVE NoRequestIsStuck
  <2>1. \A c \in Connections : state[c] \in States /\ request[c].method \in {"GET", "POST", "other"}
    BY <1>1, RequestFacts DEF Inv, TypeOK
  <2>2. QED
    BY <1>1, <2>1 DEF Inv, Shape, Context, NoRequestIsStuck, Asked, Waiting, CanCall, States, NULL, Aptr
<1>2. QED
  BY Invariance, <1>1, PTL

----------------------------------------------------------------------------
(* The refinement.                                                         *)

\* A step of one connection moves only that client.
LEMMA OneClient ==
  ASSUME NEW c \in Connections,
         \A d \in Connections \ {c} :
           /\ state'[d] = state[d] /\ response'[d] = response[d]
           /\ accepted'[d] = accepted[d] /\ request'[d] = request[d]
  PROVE  /\ Phase' = [Phase EXCEPT ![c] = Phase'[c]]
         /\ Duty' = [Duty EXCEPT ![c] = Duty'[c]]
<1>1. \A d \in Connections \ {c} : Phase'[d] = Phase[d] /\ Duty'[d] = Duty[d]
  BY DEF Phase, Duty, Asked
<1>2. /\ Phase = [d \in Connections |-> Phase[d]] /\ Phase' = [d \in Connections |-> Phase'[d]]
      /\ Duty = [d \in Connections |-> Duty[d]] /\ Duty' = [d \in Connections |-> Duty'[d]]
  BY DEF Phase, Duty
<1>3. QED
  BY <1>1, <1>2

\* What the mapping says of a connection in a request.
LEMMA AskedClient ==
  ASSUME Inv, NEW c \in Connections, Asked(c)
  PROVE  /\ Phase[c] = IF state[c] = "sending" THEN "answered" ELSE "pending"
         /\ Duty[c] = IF Whole(request[c]) /\ remaining[c] # 0 THEN "due" ELSE "none"
BY DEF Inv, TypeOK, Shape, Phase, Duty, Asked

LEMMA IdleClient ==
  ASSUME NEW c \in Connections, ~Asked(c)
  PROVE  Phase[c] = "idle" /\ Duty[c] = "none"
BY DEF Phase, Duty

\* Nothing of the mapping changes.
LEMMA Stutter ==
  ASSUME Inv, Inv', NEW c \in Connections,
         \A d \in Connections \ {c} :
           /\ state'[d] = state[d] /\ response'[d] = response[d]
           /\ accepted'[d] = accepted[d] /\ request'[d] = request[d],
         Phase'[c] = Phase[c], Duty'[c] = Duty[c], process' = process
  PROVE  UNCHANGED Contract!vars
<1>1. Phase' = [Phase EXCEPT ![c] = Phase[c]] /\ Duty' = [Duty EXCEPT ![c] = Duty[c]]
  BY OneClient
<1>2. /\ Phase = [d \in Connections |-> Phase[d]]
      /\ Duty = [d \in Connections |-> Duty[d]]
  BY DEF Phase, Duty
<1>3. Phase' = Phase /\ Duty' = Duty
  BY <1>1, <1>2
<1>4. QED
  BY <1>3 DEF Contract!vars, Running

\* The answer is queued, or dropped.
LEMMA AnswerStep ==
  ASSUME Inv, Inv', NEW c \in Connections, NEW r, Respond(c, r), Running,
         Asked(c), state[c] # "sending", remaining[c] = 0,
         UNCHANGED <<process, request, accepted, remaining>>
  PROVE  [Contract!Next]_(Contract!vars)
<1>1. Asked(c)' /\ \A d \in Connections \ {c} : state'[d] = state[d] /\ response'[d] = response[d]
  BY DEF Inv, TypeOK, Respond, Asked
<1>2. Phase[c] = "pending" /\ Duty[c] = "none"
  BY AskedClient
<1>3. CASE state'[c] = "sending"
  <2>1. Phase'[c] = "answered" /\ Duty'[c] = "none"
    BY <1>1, <1>3 DEF Inv, TypeOK, Shape, Phase, Duty, Asked
  <2>2. /\ Phase' = [Phase EXCEPT ![c] = Phase'[c]]
        /\ Duty' = [Duty EXCEPT ![c] = Duty'[c]]
    BY <1>1, OneClient
  <2>3. Duty' = Duty
    BY <1>2, <2>1, <2>2 DEF Duty
  <2>4. Contract!Answer(c)
    BY <1>2, <2>1, <2>2, <2>3 DEF Contract!Answer, Running
  <2>5. QED
    BY <2>4 DEF Contract!Next
<1>4. CASE state'[c] # "sending"
  <2>1. response'[c] = response[c]
    BY <1>4 DEF Inv, TypeOK, Respond
  <2>2. Phase'[c] = Phase[c] /\ Duty'[c] = Duty[c]
    BY <1>1, <2>1 DEF Phase, Duty
  <2>3. QED
    BY <1>1, <2>2, Stutter
<1>5. QED
  BY <1>3, <1>4

LEMMA ReceiveStep ==
  ASSUME Inv, Inv', NEW c \in Connections, Receive(c)
  PROVE  Contract!Ask(c)
<1>1. /\ state[c] = "reading" /\ state'[c] = "first" /\ response'[c] = response[c]
      /\ \A d \in Connections \ {c} : /\ state'[d] = state[d] /\ request'[d] = request[d]
                                      /\ response'[d] = response[d] /\ accepted'[d] = accepted[d]
  BY DEF Inv, TypeOK, Receive
<1>2. Phase[c] = "idle" /\ Asked(c)'
  BY <1>1, IdleClient DEF Asked
<1>3. Phase'[c] = "pending" /\ Duty'[c] \in {"none", "due"}
  BY <1>1, <1>2 DEF Inv, TypeOK, Shape, Phase, Duty
<1>4. /\ Phase' = [Phase EXCEPT ![c] = Phase'[c]]
      /\ Duty' = [Duty EXCEPT ![c] = Duty'[c]]
  BY <1>1, OneClient
<1>5. QED
  BY <1>2, <1>3, <1>4 DEF Contract!Ask, Receive, Running

LEMMA PostPieceStep ==
  ASSUME Inv, Inv', NEW c \in Connections, PostPiece(c)
  PROVE  [Contract!Next]_(Contract!vars)
<1>1. /\ state[c] = "body" /\ state'[c] \in {"body", "final"} /\ request'[c] = request[c]
      /\ remaining[c] > 0
      /\ remaining'[c] = remaining[c] - 1 /\ process' = process
      /\ \A d \in Connections \ {c} : /\ state'[d] = state[d] /\ request'[d] = request[d]
                                      /\ response'[d] = response[d] /\ accepted'[d] = accepted[d]
  BY DEF Inv, TypeOK, PostPiece, Piece
<1>2. Asked(c) /\ Asked(c)'
  BY <1>1 DEF Asked
<1>3. Phase[c] = "pending" /\ Phase'[c] = "pending"
  BY <1>1, <1>2 DEF Inv, Shape, Phase
<1>4. CASE Whole(request[c])
  <2>1. remaining[c] = 1 /\ remaining'[c] = 0
    BY <1>1, <1>4 DEF Inv, TypeOK, Shape, Whole
  <2>2. accepted[c] = 0 /\ accepted'[c] = 1
    BY <1>1, <1>4, <2>1 DEF Inv, Shape, Whole
  <2>3. Duty[c] = "due" /\ Duty'[c] = "none"
    BY <1>1, <1>2, <1>4, <2>2 DEF Duty
  <2>4. /\ Phase' = [Phase EXCEPT ![c] = Phase'[c]]
        /\ Duty' = [Duty EXCEPT ![c] = Duty'[c]]
    BY <1>1, OneClient
  <2>5. Phase' = Phase
    BY <1>3, <2>4 DEF Phase
  <2>6. Contract!HandOn(c)
    BY <1>1, <1>3, <2>3, <2>4, <2>5 DEF Contract!HandOn, PostPiece, Running
  <2>7. QED
    BY <2>6 DEF Contract!Next
<1>5. CASE ~Whole(request[c])
  <2>1. accepted[c] = 0 /\ accepted'[c] = 0
    BY <1>1, <1>5 DEF Inv, Shape, Whole
  <2>2. Duty'[c] = Duty[c]
    BY <1>1, <1>2, <1>5, <2>1 DEF Duty
  <2>3. QED
    BY <1>1, <1>3, <2>2, Stutter
<1>6. QED
  BY <1>4, <1>5

LEMMA ForgetStep ==
  ASSUME Inv, Running, NEW S \in SUBSET Connections, NEW next \in {"reading", "closed"},
         Forget(S, next), process' = process
  PROVE  [Contract!Next]_(Contract!vars)
<1>1. \A c \in S : Phase'[c] = "idle" /\ Duty'[c] = "none"
  BY DEF Forget, Phase, Duty, Asked
<1>2. \A c \in Connections \ S : Phase'[c] = Phase[c] /\ Duty'[c] = Duty[c]
  BY DEF Forget, Phase, Duty, Asked
<1>3. CASE \E c \in S : Phase[c] # "idle"
  <2>1. /\ Phase' = [c \in Connections |-> IF c \in S THEN "idle" ELSE Phase[c]]
        /\ Duty' = [c \in Connections |-> IF c \in S THEN "none" ELSE Duty[c]]
    BY <1>1, <1>2 DEF Phase, Duty
  <2>2. Contract!End(S)
    BY <1>3, <2>1 DEF Contract!End, Running
  <2>3. QED
    BY <2>2 DEF Contract!Next
<1>4. CASE \A c \in S : Phase[c] = "idle"
  <2>1. \A c \in S : Duty[c] = "none"
    BY <1>4 DEF Phase, Duty
  <2>2. Phase' = Phase /\ Duty' = Duty
    BY <1>1, <1>2, <1>4, <2>1 DEF Phase, Duty
  <2>3. QED
    BY <2>2 DEF Contract!vars, Running
<1>5. QED
  BY <1>3, <1>4

\* Undefined behaviour ends the program where it is.
LEMMA FailStep ==
  ASSUME process' = "undefined", UNCHANGED <<state, response, request, accepted>>
  PROVE  [Contract!Next]_(Contract!vars)
BY DEF Contract!Next, Contract!Fail, Running, Phase, Duty, Asked

LEMMA LeaveStep ==
  ASSUME Inv, Running, NEW S \in SUBSET Connections, NEW next \in {"reading", "closed"},
         Leave(S, next)
  PROVE  [Contract!Next]_(Contract!vars)
BY ForgetStep, FailStep DEF Leave, connVars

LEMMA GetAnsweredStep ==
  ASSUME Inv, Inv', Running, NEW c \in Connections, NEW r, GetAnswered(c, r), process' = process,
         state[c] \in {"final", "again"} \/ Piece(c)
  PROVE  [Contract!Next]_(Contract!vars)
<1>1. CASE Forget({c}, "closed")
  BY <1>1, ForgetStep
<1>2. CASE ~Piece(c) /\ Respond(c, r) /\ UNCHANGED <<request, remaining, accepted>>
  <2>1. remaining[c] = 0 /\ Asked(c) /\ state[c] # "sending"
    BY <1>2 DEF Inv, Shape, Asked
  <2>2. QED
    BY <1>2, <2>1, AnswerStep
<1>3. QED
  BY <1>1, <1>2 DEF GetAnswered

\* A call that leaves the request where it is.
LEMMA SilentStep ==
  ASSUME Inv, Inv', NEW c \in Connections, Asked(c), Asked(c)',
         UNCHANGED <<process, request, response, accepted>>,
         \A d \in Connections \ {c} : state'[d] = state[d]
  PROVE  [Contract!Next]_(Contract!vars)
<1>1. Phase'[c] = Phase[c] /\ Duty'[c] = Duty[c]
  BY DEF Phase, Duty
<1>2. QED
  BY <1>1, Stutter

\* The calls of the handler: each is a stutter, an answer, the failure of the
\* program or, when memory runs out, the end of the connection.
LEMMA CallStep ==
  ASSUME Inv, Inv', NEW c \in Connections, Call(c)
  PROVE  [Contract!Next]_(Contract!vars)
<1>1. CASE GetFirstCall(c)
  <2>1. Asked(c) /\ Asked(c)' /\ \A d \in Connections \ {c} : state'[d] = state[d]
    BY <1>1 DEF Inv, TypeOK, GetFirstCall, AfterCall, Piece, Asked
  <2>2. QED
    BY <1>1, <2>1, SilentStep DEF GetFirstCall
<1>2. CASE HttpGet(c)
  BY <1>2, GetAnsweredStep DEF HttpGet
<1>3. CASE HttpsGet(c)
  <2>1. CASE process' = "undefined" /\ UNCHANGED connVars
    BY <2>1, FailStep DEF connVars
  <2>2. CASE /\ state' = [state EXCEPT ![c] = AfterCall(c)]
             /\ UNCHANGED <<process, request, response, accepted>>
    <3>1. Asked(c) /\ Asked(c)' /\ \A d \in Connections \ {c} : state'[d] = state[d]
      BY <1>3, <2>2 DEF Inv, TypeOK, HttpsGet, AfterCall, Piece, Asked
    <3>2. QED
      BY <2>2, <3>1, SilentStep
  <2>3. CASE GetAnswered(c, IF Serves(request[c]) THEN "value" ELSE "empty") /\ process' = process
    BY <1>3, <2>3, GetAnsweredStep DEF HttpsGet
  <2>4. QED
    BY <1>3, <2>1, <2>2, <2>3 DEF HttpsGet
<1>4. CASE PostFirstCall(c)
  <2>1. CASE Leave({c}, "closed")
    BY <1>4, <2>1, LeaveStep DEF PostFirstCall
  <2>2. CASE ~Leave({c}, "closed")
    <3>1. Asked(c) /\ Asked(c)' /\ \A d \in Connections \ {c} : state'[d] = state[d]
      BY <1>4, <2>2 DEF Inv, TypeOK, PostFirstCall, Asked
    <3>2. QED
      BY <1>4, <2>2, <3>1, SilentStep DEF PostFirstCall
  <2>3. QED
    BY <2>1, <2>2
<1>5. CASE PostLastCall(c)
  BY <1>5, AnswerStep DEF Inv, Shape, PostLastCall, Asked
<1>6. CASE UnknownMethod(c)
  <2>1. remaining[c] = 0
    BY <1>6, RequestFacts DEF Inv, TypeOK, Shape, UnknownMethod
  <2>2. QED
    BY <1>6, <2>1, AnswerStep DEF UnknownMethod, Asked
<1>7. QED
  BY <1>1, <1>2, <1>3, <1>4, <1>5, <1>6 DEF Call

\* The steps of a connection that are not calls of the handler.
LEMMA ConnectionStep ==
  ASSUME Inv, Inv', NEW c \in Connections, Step(c)
  PROVE  [Contract!Next]_(Contract!vars)
<1>1. CASE Connect(c)
  <2>1. UNCHANGED <<process, request, response, accepted>> /\ \A d \in Connections : Asked(d)' <=> Asked(d)
    BY <1>1 DEF Inv, TypeOK, Connect, Asked
  <2>2. QED
    BY <2>1 DEF Contract!vars, Phase, Duty, Running
<1>2. CASE Receive(c)
  BY <1>2, ReceiveStep DEF Contract!Next
<1>3. CASE AnswerSent(c) \/ ClientCloses(c) \/ Timeout(c)
  BY <1>3, LeaveStep DEF AnswerSent, ClientCloses, Timeout
<1>4. CASE BodyEnds(c)
  <2>1. Asked(c) /\ Asked(c)' /\ \A d \in Connections \ {c} : state'[d] = state[d]
    BY <1>4 DEF Inv, TypeOK, BodyEnds, Asked
  <2>2. QED
    BY <1>4, <2>1, SilentStep DEF BodyEnds
<1>5. QED
  BY <1>1, <1>2, <1>3, <1>4, PostPieceStep, CallStep DEF Step

LEMMA RefineStep == Inv /\ Inv' /\ [Next]_vars => [Contract!Next]_(Contract!vars)
<1> SUFFICES ASSUME Inv, Inv', [Next]_vars PROVE [Contract!Next]_(Contract!vars)
  OBVIOUS
<1>1. ASSUME NEW srv \in {"http", "https"}, CloseAll(srv) PROVE [Contract!Next]_(Contract!vars)
  <2>1. OfServer(srv) \in SUBSET Connections
    BY DEF OfServer, Connections
  <2>2. QED
    BY <1>1, <2>1, LeaveStep DEF CloseAll
<1>2. CASE SensorRegistered \/ Tick \/ UNCHANGED vars \/ \E srv \in {"http", "https"} : KillServer(srv)
  <2>1. UNCHANGED <<process, state, request, response, accepted>>
    BY <1>2 DEF SensorRegistered, Tick, KillServer, vars, connVars
  <2>2. QED
    BY <2>1 DEF Contract!vars, Phase, Duty, Asked, Running
<1>3. QED
  BY <1>1, <1>2, ConnectionStep DEF Next

\* Every behaviour of the two servers is one the contract allows: at most one
\* answer to a request, and only after its measurement has been handed on.
THEOREM RefinesRequestServer == Spec => Contract!Spec
<1>1. Init => Contract!Init
  BY DEF Init, Contract!Init, Phase, Duty, Asked, Running
<1>2. QED
  BY <1>1, RefineStep, Invariance, PTL DEF Spec, Contract!Spec
==============================================================================

-------------------------- MODULE RestRequestProofs --------------------------
(***************************************************************************)
(* Proofs about RestRequest: the limit on the size of an upload, for every *)
(* limit and every way to cut an upload into pieces; the life of the       *)
(* request object; what the service is called with, for every upload,      *)
(* every way to cut it, and whatever the post processor keeps for later;   *)
(* the check of arguments and the log, for all texts.                      *)
(***************************************************************************)
EXTENDS TextCheck, OrderLemmas

-----------------------------------------------------------------------------
(* The inductive invariant *)

\* The numbers have their types; the upload comes from its start on.
Numbers ==
    /\ max_request_body_size \in Limits
    /\ upload \in Seq(FormBytes)
    /\ arrived \in Nat
    /\ arrived <= Len(upload)
    /\ remaining \in Nat

\* What the counter counts until the request is handled: 0 says that more than the limit has come, any other
\* number is what may still come, plus one.
Counted ==
    state \in {"body", "trailer", "footers"} /\ max_request_body_size # 0 =>
        IF remaining = 0 THEN arrived > max_request_body_size
                         ELSE remaining = max_request_body_size + 1 - arrived

\* The final call comes after the whole upload, an answer after the final call.
Phases ==
    /\ state = "idle" => arrived = 0
    /\ state \in {"trailer", "footers"} => arrived = Len(upload)
    /\ state \in {"idle", "body", "trailer", "footers"} => answer = "none" /\ ~handed.called

IInv == Numbers /\ Counted /\ Phases /\ LimitExact

-----------------------------------------------------------------------------
(* Facts about the helpers *)

\* A limit is a number whose successor is not zero as an unsigned.
LEMMA LimitFacts ==
    ASSUME max_request_body_size \in Limits
    PROVE  /\ max_request_body_size \in Nat
           /\ InitialRemaining = max_request_body_size + 1
BY RequestAssumption DEF InitialRemaining

\* The uploads a client may send are sequences.
LEMMA UploadsAreSequences ==
    ASSUME NEW S, S \subseteq FormBytes, NEW u \in Uploads(S)
    PROVE  u \in Seq(FormBytes) /\ Len(u) \in Nat
<1>1. PICK n \in 0..MaxUpload : u \in [1..n -> S]
  BY DEF Uploads
<1>2. n \in Nat
  BY <1>1, RequestAssumption
<1>3. u \in Seq(S)
  BY <1>1, <1>2
<1> QED
  BY <1>3

-----------------------------------------------------------------------------
(* The steps *)

\* The initial state has the invariant.
LEMMA InitInv == Init => IInv
BY DEF Init, IInv, Numbers, Counted, Phases, LimitExact, NotHanded

\* The counter starts at one more than the limit.
LEMMA NewRequestInv == IInv /\ NewRequest => IInv'
<1> SUFFICES ASSUME IInv, NewRequest PROVE IInv'
  OBVIOUS
<1>1. upload' \in Seq(FormBytes) /\ Len(upload') \in Nat
  <2>1. {"byte"} \subseteq FormBytes
    BY DEF FormBytes
  <2>2. upload' \in Uploads(FormBytes) \/ upload' \in Uploads({"byte"})
    <3>1. upload' \in Uploads(IF Form' THEN FormBytes ELSE {"byte"})
      BY DEF NewRequest
    <3> QED
      BY <3>1
  <2> QED
    BY <2>1, <2>2, UploadsAreSequences
<1>2. /\ max_request_body_size' = max_request_body_size /\ max_request_body_size \in Nat
      /\ remaining' = max_request_body_size + 1
      /\ arrived' = 0 /\ answer' = "none" /\ handed' = handed /\ ~handed.called
  BY LimitFacts DEF NewRequest, IInv, Numbers, Phases
<1>3. state' = "body" \/ (upload' = <<>> /\ state' \in {"trailer", "footers"})
  BY DEF NewRequest, Uploaded
<1>4. Numbers'
  BY <1>1, <1>2 DEF IInv, Numbers
<1>5. Counted' /\ LimitExact'
  BY <1>2 DEF Counted, LimitExact
<1>6. Phases'
  BY <1>1, <1>2, <1>3 DEF Phases
<1> QED
  BY <1>4, <1>5, <1>6 DEF IInv

\* What a piece that is accepted or dropped does to the numbers.
LEMMA TakeInv ==
    ASSUME IInv, NEW n \in Nat, Take(n),
           \/ Fits(n) /\ Count(n)
           \/ ~Fits(n) /\ remaining' = 0
    PROVE  IInv'
<1>1. /\ state = "body" /\ n > 0 /\ n <= Len(upload) - arrived
      /\ arrived' = arrived + n /\ upload' = upload
      /\ max_request_body_size' = max_request_body_size
      /\ answer' = answer /\ handed' = handed
      /\ state' = "body" \/ (arrived + n = Len(upload) /\ state' \in {"trailer", "footers"})
  BY DEF Take, client, Uploaded
<1>2. max_request_body_size \in Nat /\ arrived \in Nat /\ remaining \in Nat /\ Len(upload) \in Nat
  BY LimitFacts DEF IInv, Numbers
<1>3. answer = "none" /\ ~handed.called
  BY <1>1 DEF IInv, Phases
<1>4. remaining' \in Nat
  BY <1>2 DEF Fits, Count
<1>5. Numbers'
  BY <1>1, <1>2, <1>4 DEF IInv, Numbers
<1>6. Counted'
  <2> SUFFICES ASSUME max_request_body_size # 0
               PROVE  IF remaining' = 0 THEN arrived' > max_request_body_size
                      ELSE remaining' = max_request_body_size + 1 - arrived'
    BY <1>1 DEF Counted
  <2>1. IF remaining = 0 THEN arrived > max_request_body_size
                         ELSE remaining = max_request_body_size + 1 - arrived
    BY <1>1 DEF IInv, Counted
  <2>2. CASE Fits(n) /\ Count(n)
    BY <1>1, <1>2, <2>1, <2>2 DEF Fits, Count
  <2>3. CASE ~Fits(n) /\ remaining' = 0
    BY <1>1, <1>2, <2>1, <2>3 DEF Fits
  <2> QED
    BY <2>2, <2>3
<1>7. Phases'
  BY <1>1, <1>2, <1>3 DEF Phases
<1>8. LimitExact'
  BY <1>1, <1>3 DEF LimitExact
<1> QED
  BY <1>5, <1>6, <1>7, <1>8 DEF IInv

\* Every piece of the upload keeps the invariant.
LEMMA ReceiveBodyInv == IInv /\ ReceiveBody => IInv'
<1> SUFFICES ASSUME IInv, NEW n \in 1..MaxUpload,
                    AppendBody(n) \/ PostBody(n) \/ DropBody(n) \/ PostFails(n)
             PROVE  IInv'
  BY DEF ReceiveBody
<1>0. n \in Nat
  BY RequestAssumption
<1>1. CASE AppendBody(n) \/ PostBody(n) \/ DropBody(n)
  BY <1>0, <1>1, TakeInv DEF AppendBody, PostBody, DropBody
<1>2. CASE PostFails(n)
  <2>1. /\ state = "body" /\ n <= Len(upload) - arrived /\ Fits(n)
        /\ arrived' = arrived + n /\ upload' = upload /\ remaining' = remaining
        /\ max_request_body_size' = max_request_body_size
        /\ answer' = answer /\ handed' = handed /\ state' = "cleaned"
    BY <1>2 DEF PostFails, Close, client
  <2>2. Numbers'
    BY <1>0, <2>1 DEF IInv, Numbers
  <2>3. answer = "none" /\ ~handed.called
    BY <2>1 DEF IInv, Phases
  <2> QED
    BY <2>1, <2>2, <2>3 DEF IInv, Counted, Phases, LimitExact
<1> QED
  BY <1>1, <1>2

\* A step of handle leaves the numbers alone.
LEMMA HandleFrame ==
    ASSUME IInv, Handle
    PROVE  /\ state = "footers" /\ state' \in {"reply", "cleaned"}
           /\ UNCHANGED <<max_request_body_size, upload, arrived, remaining>>
           /\ answer = "none" /\ ~handed.called /\ arrived = Len(upload)
BY DEF IInv, Phases, Handle, MethodNotAllowed, UnsupportedEncoding, RequestTooLarge, InvalidUtf8,
       CallService, ClosePostProcessor, Queue, Close, client

\* The answer is "too large" only beyond the limit, and the service is called
\* only within it.
LEMMA HandleInv == IInv /\ Handle => IInv'
<1> SUFFICES ASSUME IInv, Handle PROVE IInv'
  OBVIOUS
<1>1. /\ state = "footers" /\ state' \in {"reply", "cleaned"}
      /\ UNCHANGED <<max_request_body_size, upload, arrived, remaining>>
      /\ answer = "none" /\ ~handed.called /\ arrived = Len(upload)
  BY HandleFrame
<1>2. Numbers' /\ Counted' /\ Phases'
  BY <1>1 DEF IInv, Numbers, Counted, Phases
<1>3. max_request_body_size \in Nat /\ arrived \in Nat /\ remaining \in Nat
  BY LimitFacts DEF IInv, Numbers
<1>4. max_request_body_size # 0 =>
          IF remaining = 0 THEN arrived > max_request_body_size
                           ELSE remaining = max_request_body_size + 1 - arrived
  BY <1>1 DEF IInv, Counted
<1>5. LimitExact'
  <2>1. CASE MethodNotAllowed \/ UnsupportedEncoding \/ InvalidUtf8
    <3>1. answer' # "too large" /\ handed' = handed
      BY <2>1 DEF MethodNotAllowed, UnsupportedEncoding, InvalidUtf8, Queue
    <3> QED
      BY <1>1, <3>1 DEF LimitExact
  <2>2. CASE RequestTooLarge
    <3>1. max_request_body_size # 0 /\ remaining = 0 /\ handed' = handed
      BY <2>2 DEF RequestTooLarge, TooLarge
    <3> QED
      BY <1>1, <1>4, <3>1 DEF LimitExact
  <2>3. CASE CallService
    <3>1. ~(max_request_body_size # 0 /\ remaining = 0) /\ answer' # "too large"
      BY <1>1, <2>3 DEF CallService, TooLarge, Queue, Close
    <3>2. max_request_body_size = 0 \/ arrived <= max_request_body_size
      <4>1. CASE max_request_body_size # 0
        <5>1. remaining # 0 /\ remaining = max_request_body_size + 1 - arrived
          BY <1>4, <3>1, <4>1
        <5> QED
          BY <1>3, <5>1
      <4> QED
        BY <4>1
    <3> QED
      BY <1>1, <3>1, <3>2 DEF LimitExact
  <2> QED
    BY <2>1, <2>2, <2>3 DEF Handle
<1> QED
  BY <1>2, <1>5 DEF IInv

\* The trailer, and what libmicrohttpd answers when it refuses it.
LEMMA TrailerInv == IInv /\ (TrailerCame \/ TrailerRefused) => IInv'
<1> SUFFICES ASSUME IInv, TrailerCame \/ TrailerRefused PROVE IInv'
  OBVIOUS
<1>1. /\ UNCHANGED <<max_request_body_size, upload, arrived, remaining, handed>>
      /\ state = "trailer"
      /\ \/ state' = "footers" /\ answer' = answer
         \/ state' = "reply" /\ answer' = "bad request"
  BY DEF TrailerCame, TrailerRefused, client
<1>2. Numbers'
  BY <1>1 DEF IInv, Numbers
<1>3. Counted' /\ Phases'
  BY <1>1 DEF IInv, Counted, Phases
<1>4. LimitExact'
  BY <1>1 DEF IInv, LimitExact
<1> QED
  BY <1>2, <1>3, <1>4 DEF IInv

\* The end of the connection keeps what was answered.
LEMMA CloseInv == IInv /\ (ReplySent \/ ClientGone \/ Hangup \/ Cleanup) => IInv'
<1> SUFFICES ASSUME IInv, ReplySent \/ ClientGone \/ Hangup \/ Cleanup PROVE IInv'
  OBVIOUS
<1>1. /\ UNCHANGED <<max_request_body_size, upload, arrived, remaining, answer, handed>>
      /\ state' \in {"closed", "cleaned"}
  BY DEF ReplySent, ClientGone, Hangup, Cleanup, Close, client
<1>2. Numbers'
  BY <1>1 DEF IInv, Numbers
<1>3. Counted' /\ Phases'
  BY <1>1 DEF IInv, Counted, Phases
<1>4. LimitExact'
  BY <1>1 DEF IInv, LimitExact
<1> QED
  BY <1>2, <1>3, <1>4 DEF IInv

\* Every step keeps the invariant.
LEMMA NextInv == IInv /\ [Next]_vars => IInv'
<1>1. IInv /\ UNCHANGED vars => IInv'
  BY DEF vars, client, IInv, Numbers, Counted, Phases, LimitExact
<1> QED
  BY <1>1, NewRequestInv, ReceiveBodyInv, TrailerInv, HandleInv, CloseInv DEF Next

-----------------------------------------------------------------------------
(* Theorems *)

\* The invariant holds in every state of every request.
THEOREM Invariance == Spec => []IInv
BY InitInv, NextInv, PTL DEF Spec

\* Whatever the limit and the pieces: an upload is refused as too large only
\* beyond the limit, and no upload beyond it reaches the service.
THEOREM LimitIsExact == Spec => []LimitExact
<1>1. IInv => LimitExact
  BY DEF IInv
<1> QED
  BY <1>1, Invariance, PTL

-----------------------------------------------------------------------------
(* The life of the request object *)

\* From its first call until the connection closes libmicrohttpd is aware of its
\* client and has a request that was not deleted; after that it is not aware, and
\* no request is left, although client_context may still point to one.
Known ==
    /\ connection.client_aware \in BOOLEAN /\ connection.client_context \in BOOLEAN
    /\ connection.made \in Nat /\ connection.freed \in Nat
    /\ connection = [client_aware |-> connection.client_aware,
                     client_context |-> connection.client_context,
                     made |-> connection.made, freed |-> connection.freed]
    /\ state \in {"idle", "body", "trailer", "footers", "reply", "closed", "cleaned"}
    /\ state = "idle" => ~connection.client_aware /\ connection.freed = connection.made
    /\ state \in {"body", "trailer", "footers", "reply"} =>
          /\ connection.client_aware /\ connection.client_context
          /\ connection.made = connection.freed + 1
    /\ state \in {"closed", "cleaned"} =>
          ~connection.client_aware /\ connection.freed = connection.made

\* A connection, field by field.
Connection(aware, context, made, freed) ==
    [client_aware |-> aware, client_context |-> context, made |-> made, freed |-> freed]

\* What changing one of its fields makes of it.
LEMMA AwareChanged ==
    ASSUME NEW aware, NEW context, NEW made, NEW freed, NEW value
    PROVE  [Connection(aware, context, made, freed) EXCEPT !.client_aware = value]
               = Connection(value, context, made, freed)
BY DEF Connection

LEMMA ContextChanged ==
    ASSUME NEW aware, NEW context, NEW made, NEW freed, NEW value
    PROVE  [Connection(aware, context, made, freed) EXCEPT !.client_context = value]
               = Connection(aware, value, made, freed)
BY DEF Connection

\* Closing deletes the request of a connection that is aware of its client, and
\* nothing when it is not: closing again does no harm.
LEMMA CloseOnce ==
    ASSUME NEW context \in BOOLEAN, NEW made \in Nat, NEW freed \in Nat
    PROVE  /\ MHD_connection_close(Connection(TRUE, TRUE, made, freed))
                = Connection(FALSE, TRUE, made, freed + 1)
           /\ MHD_connection_close(Connection(FALSE, context, made, freed))
                = Connection(FALSE, context, made, freed)
           /\ FootersSent(Connection(TRUE, TRUE, made, freed))
                = Connection(FALSE, FALSE, made, freed + 1)
<1>1. request_completed(Connection(TRUE, TRUE, made, freed)) = Connection(TRUE, TRUE, made, freed + 1)
  BY DEF request_completed, Connection
<1>2. [Connection(TRUE, TRUE, made, freed + 1) EXCEPT !.client_aware = FALSE]
        = Connection(FALSE, TRUE, made, freed + 1)
  <2>1. \A n, x, aware, value : [Connection(aware, x, made, n) EXCEPT !.client_aware = value]
                                   = Connection(value, x, made, n)
    BY AwareChanged
  <2> QED
    BY <2>1, Zenon
<1>3. MHD_connection_close(Connection(TRUE, TRUE, made, freed)) = Connection(FALSE, TRUE, made, freed + 1)
  <2>1. Connection(TRUE, TRUE, made, freed).client_aware = TRUE
    BY DEF Connection
  <2> QED
    BY <1>1, <1>2, <2>1 DEF MHD_connection_close
<1>4. \A n, x : MHD_connection_close(Connection(FALSE, x, made, n)) = Connection(FALSE, x, made, n)
  <2> SUFFICES ASSUME NEW n, NEW x
               PROVE  MHD_connection_close(Connection(FALSE, x, made, n)) = Connection(FALSE, x, made, n)
    OBVIOUS
  <2>1. Connection(FALSE, x, made, n).client_aware = FALSE
    BY DEF Connection
  <2>2. [Connection(FALSE, x, made, n) EXCEPT !.client_aware = FALSE] = Connection(FALSE, x, made, n)
    <3>1. \A aware, value : [Connection(aware, x, made, n) EXCEPT !.client_aware = value]
                                = Connection(value, x, made, n)
      BY AwareChanged
    <3> QED
      BY <3>1, Zenon
  <2> QED
    BY <2>1, <2>2 DEF MHD_connection_close
<1>5. FootersSent(Connection(TRUE, TRUE, made, freed)) = Connection(FALSE, FALSE, made, freed + 1)
  <2> DEFINE c == Connection(TRUE, TRUE, made, freed)
  <2> DEFINE told == IF c.client_aware
                     THEN [request_completed(c) EXCEPT !.client_aware = FALSE] ELSE c
  <2>1. c.client_aware = TRUE
    BY DEF Connection
  <2>2. told = Connection(FALSE, TRUE, made, freed + 1)
    BY <1>1, <1>2, <2>1
  <2>3. FootersSent(c) = [MHD_connection_close(told) EXCEPT !.client_context = FALSE]
    BY DEF FootersSent
  <2> HIDE DEF told
  <2>4. MHD_connection_close(told) = Connection(FALSE, TRUE, made, freed + 1)
    BY <2>2, <1>4
  <2>5. [Connection(FALSE, TRUE, made, freed + 1) EXCEPT !.client_context = FALSE]
          = Connection(FALSE, FALSE, made, freed + 1)
    <3>1. \A n, aware, context_, value :
              [Connection(aware, context_, made, n) EXCEPT !.client_context = value]
                  = Connection(aware, value, made, n)
      BY ContextChanged
    <3> QED
      BY <3>1, Zenon
  <2> QED
    BY <2>3, <2>4, <2>5
<1> QED
  BY <1>3, <1>4, <1>5

\* A connection that is not, or not any longer, aware of a client.
LEMMA KnownAfter ==
    ASSUME NEW context \in BOOLEAN, NEW made \in Nat,
           connection' = Connection(FALSE, context, made, made),
           state' \in {"closed", "cleaned"}
    PROVE  Known'
<1>1. /\ connection'.client_aware = FALSE /\ connection'.client_context = context
      /\ connection'.made = made /\ connection'.freed = made
  BY DEF Connection
<1>2. connection' = [client_aware |-> connection'.client_aware,
                     client_context |-> connection'.client_context,
                     made |-> connection'.made, freed |-> connection'.freed]
  BY <1>1 DEF Connection
<1> QED
  BY <1>1, <1>2 DEF Known

\* A connection with a request.
LEMMA KnownLive ==
    ASSUME NEW freed \in Nat,
           connection' = Connection(TRUE, TRUE, freed + 1, freed),
           state' \in {"body", "trailer", "footers", "reply"}
    PROVE  Known'
<1>1. connection'.client_aware = TRUE /\ connection'.client_context = TRUE
  BY DEF Connection
<1>4. connection'.made = freed + 1 /\ connection'.freed = freed
  BY DEF Connection
<1>3. /\ connection'.made \in Nat /\ connection'.freed \in Nat
      /\ connection'.made = connection'.freed + 1
  <2>1. freed + 1 \in Nat
    OBVIOUS
  <2> QED
    BY <2>1, <1>4, Zenon
<1>2. connection' = [client_aware |-> connection'.client_aware,
                     client_context |-> connection'.client_context,
                     made |-> connection'.made, freed |-> connection'.freed]
  BY <1>1 DEF Connection
<1> QED
  BY <1>1, <1>2, <1>3, Zenon DEF Known

\* The connection knows whether there is a request to delete, in every state.
THEOREM ConnectionInvariance == Spec => []Known
<1>1. Init => Known
  BY DEF Init, Known
<1>2. Known /\ [Next]_vars => Known'
  <2> SUFFICES ASSUME Known, [Next]_vars PROVE Known'
    OBVIOUS
  <2>1. ASSUME state \in {"body", "trailer", "footers", "reply"}
        PROVE  \E freed \in Nat : /\ connection = Connection(TRUE, TRUE, freed + 1, freed)
                                  /\ Called(connection) = connection
    <3>1. connection = Connection(TRUE, TRUE, connection.freed + 1, connection.freed)
      BY <2>1 DEF Known, Connection
    <3>2. Called(connection) = connection
      BY <3>1 DEF Called, Connection
    <3> QED
      BY <3>1, <3>2 DEF Known
  <2>2. ASSUME state \in {"idle", "closed"}
        PROVE  \E context \in BOOLEAN, made \in Nat : connection = Connection(FALSE, context, made, made)
    BY <2>2 DEF Known, Connection
  <2>3. ASSUME state \in {"body", "trailer", "footers", "reply"},
               \/ connection' = connection \/ connection' = Called(connection),
               state' \in {"body", "trailer", "footers", "reply"}
        PROVE  Known'
    BY <2>1, <2>3, KnownLive
  <2>4. ASSUME state \in {"body", "trailer", "footers", "reply"},
               \/ connection' = MHD_connection_close(connection)
               \/ connection' = MHD_connection_close(Called(connection)),
               state' \in {"closed", "cleaned"}
        PROVE  Known'
    <3>1. PICK freed \in Nat : /\ connection = Connection(TRUE, TRUE, freed + 1, freed)
                               /\ Called(connection) = connection
      BY <2>1, <2>4
    <3>2. freed + 1 \in Nat /\ TRUE \in BOOLEAN
      OBVIOUS
    <3>3. MHD_connection_close(Connection(TRUE, TRUE, freed + 1, freed)) = Connection(FALSE, TRUE, freed + 1, freed + 1)
      BY <3>2, CloseOnce
    <3>4. connection' = Connection(FALSE, TRUE, freed + 1, freed + 1)
      BY <2>4, <3>1, <3>3
    <3> QED
      BY <2>4, <3>2, <3>4, KnownAfter
  <2>5. CASE NewRequest
    <3>1. PICK context \in BOOLEAN, made \in Nat : connection = Connection(FALSE, context, made, made)
      BY <2>2, <2>5 DEF NewRequest
    <3>2. connection' = [Called(connection) EXCEPT !.client_context = TRUE, !.made = @ + 1]
          /\ state' \in {"body", "trailer", "footers"}
      BY <2>5 DEF NewRequest, Uploaded
    <3>3. connection' = Connection(TRUE, TRUE, made + 1, made)
      BY <3>1, <3>2 DEF Called, Connection
    <3> QED
      BY <3>2, <3>3, KnownLive
  <2>6. CASE ReceiveBody
    <3>1. PICK n \in 1..MaxUpload : AppendBody(n) \/ PostBody(n) \/ DropBody(n) \/ PostFails(n)
      BY <2>6 DEF ReceiveBody
    <3>2. CASE PostFails(n)
      BY <2>4, <3>2 DEF PostFails, Close
    <3>3. CASE Take(n)
      BY <2>3, <3>3 DEF Take, Uploaded
    <3> QED
      BY <3>1, <3>2, <3>3 DEF AppendBody, PostBody, DropBody
  <2>7. CASE Handle
    <3>1. state = "footers"
      BY <2>7 DEF Handle, MethodNotAllowed, UnsupportedEncoding, RequestTooLarge, InvalidUtf8,
                  CallService, ClosePostProcessor
    <3>2. \/ state' = "reply" /\ connection' = Called(connection)
          \/ state' = "cleaned" /\ connection' = MHD_connection_close(Called(connection))
      BY <2>7 DEF Handle, MethodNotAllowed, UnsupportedEncoding, RequestTooLarge, InvalidUtf8,
                  CallService, Queue, Close
    <3> QED
      BY <2>3, <2>4, <3>1, <3>2
  <2>8. CASE TrailerCame \/ TrailerRefused
    BY <2>3, <2>8 DEF TrailerCame, TrailerRefused
  <2>9. CASE ReplySent
    <3>1. PICK freed \in Nat : connection = Connection(TRUE, TRUE, freed + 1, freed)
      BY <2>1, <2>9 DEF ReplySent
    <3>2. freed + 1 \in Nat /\ FALSE \in BOOLEAN
      OBVIOUS
    <3>3. FootersSent(Connection(TRUE, TRUE, freed + 1, freed)) = Connection(FALSE, FALSE, freed + 1, freed + 1)
      BY <3>2, CloseOnce
    <3>4. connection' = Connection(FALSE, FALSE, freed + 1, freed + 1)
      BY <2>9, <3>1, <3>3 DEF ReplySent
    <3>5. state' \in {"closed", "cleaned"}
      BY <2>9 DEF ReplySent
    <3> QED
      BY <3>2, <3>4, <3>5, KnownAfter
  <2>10. ASSUME state \in {"idle", "closed"},
                connection' = MHD_connection_close(connection) \/ connection' = connection,
                state' \in {"closed", "cleaned"}
         PROVE  Known'
    <3>1. PICK context \in BOOLEAN, made \in Nat : connection = Connection(FALSE, context, made, made)
      BY <2>2, <2>10
    <3>2. connection' = Connection(FALSE, context, made, made)
      BY <2>10, <3>1, CloseOnce
    <3> QED
      BY <2>10, <3>2, KnownAfter
  <2>11. CASE ClientGone
    BY <2>4, <2>10, <2>11 DEF ClientGone, Close
  <2>12. CASE Hangup \/ Cleanup
    BY <2>10, <2>12 DEF Hangup, Cleanup, Close
  <2>13. CASE UNCHANGED vars
    BY <2>13 DEF vars, Known
  <2> QED
    BY <2>5, <2>6, <2>7, <2>8, <2>9, <2>11, <2>12, <2>13 DEF Next
<1> QED
  BY <1>1, <1>2, PTL DEF Spec

\* handle_request and request_completed delete each request once, on every way out
\* of a connection: at the end of the response or when the connection closes,
\* whichever comes first, and although it may be closed again before it is
\* cleaned up; never while handle_request may still be called with it.
THEOREM DeletedOnce == Spec => []FreedOnce
<1>1. Known => FreedOnce
  BY DEF Known, FreedOnce
<1> QED
  BY <1>1, ConnectionInvariance, PTL

-----------------------------------------------------------------------------
(* What a form says after its first m bytes *)

\* The n bytes after byte m, as positions of the upload.
From(m, n) == [i \in 1..n |-> m + i]

\* Where values of k begin in the first m bytes.
Starts(m, k) == {i \in 1..m : upload[i] = k}

\* Where the value that begins at `first' ends: one before this.
ValueEnd(m, first) == Min({m + 1} \cup {i \in first + 1..m : upload[i] \in Headers})

\* The last value of k in the first m bytes.
ValueAt(m, k) ==
    IF Starts(m, k) = {} THEN <<0>>
    ELSE LET first == Max(Starts(m, k))
         IN  [n \in 1..ValueEnd(m, first) - first - 1 |-> first + n]

ParamsAt(m) == [k \in url \cup {j \in Keys : Starts(m, j) # {}} |-> ValueAt(m, k)]

\* f is what post_iterator has made of the first m bytes.
IsForm(f, m) ==
    /\ f = [params |-> f.params, unsupported |-> f.unsupported]
    /\ DOMAIN f.params \subseteq Keys
    /\ f.unsupported \in BOOLEAN
    /\ f.unsupported <=> \E i \in 1..m : upload[i] = "encoded"
    /\ ~f.unsupported => f.params = ParamsAt(m)

-----------------------------------------------------------------------------
(* A fold goes through its sequence element by element *)

\* The function FoldLeft evaluates.
Iterates(b, s, g, n) ==
    g = [x \in SUBSET (1..n) |->
            IF x = {} THEN b ELSE PostIterator(g[x \ {Max(x)}], s[Max(x)])]

Iter(b, s) ==
    CHOOSE g : g = [x \in SUBSET DOMAIN s |->
            IF x = {} THEN b ELSE PostIterator(g[x \ {Max(x)}], s[Max(x)])]

Folded(b, s) == FoldLeft(PostIterator, b, s)

LEMMA FoldIsIter ==
    ASSUME NEW b, NEW s
    PROVE  Folded(b, s) = Iter(b, s)[DOMAIN s]
BY DEF Folded, FoldLeft, MapThenFoldSet, Iter

\* The function exists: from the one for the first n - 1 elements comes that for
\* n, so there is no least n without one.
LEMMA IterExists ==
    ASSUME NEW b, NEW s
    PROVE  \A n \in Nat : \E g : Iterates(b, s, g, n)
<1> DEFINE Bad == {n \in Nat : ~ \E g : Iterates(b, s, g, n)}
<1> SUFFICES ASSUME Bad # {} PROVE FALSE
  OBVIOUS
<1>1. PICK n \in Bad : \A m \in Bad : n <= m
  <2> HIDE DEF Bad
  <2>1. Bad \in SUBSET Nat
    BY DEF Bad
  <2> QED
    BY <2>1, LeastExists
<1>2. n \in Nat
  OBVIOUS
<1>3. CASE n = 0
  <2> DEFINE g == [x \in SUBSET (1..0) |-> b]
  <2>1. \A x \in SUBSET (1..0) : x = {}
    OBVIOUS
  <2>2. Iterates(b, s, g, 0)
    BY <2>1 DEF Iterates
  <2> QED
    BY <1>3, <2>2
<1>4. CASE n # 0
  <2>1. n - 1 \in Nat /\ n - 1 \notin Bad
    BY <1>1, <1>2, <1>4
  <2>2. PICK g : Iterates(b, s, g, n - 1)
    BY <2>1
  <2> DEFINE h == [x \in SUBSET (1..n) |->
                      IF n \in x THEN PostIterator(g[x \ {n}], s[n]) ELSE g[x]]
  <2> DEFINE R(x) == IF x = {} THEN b ELSE PostIterator(h[x \ {Max(x)}], s[Max(x)])
  <2>3. \A x \in SUBSET (1..n) : n \notin x => x \in SUBSET (1..n - 1)
    BY <1>2
  <2>4. \A x \in SUBSET (1..n - 1) : h[x] = g[x]
    BY <1>2
  <2>5. ASSUME NEW x \in SUBSET (1..n) PROVE h[x] = R(x)
    <3>1. CASE n \in x
      <4>1. Max(x) = n
        <5>1. x \in SUBSET Nat /\ \A y \in x : y <= n
          BY <1>2
        <5> QED
          BY <3>1, <5>1, MaxIs
      <4>2. x \ {n} \in SUBSET (1..n - 1)
        BY <1>2
      <4>3. h[x \ {n}] = g[x \ {n}]
        BY <2>4, <4>2
      <4>4. h[x] = PostIterator(g[x \ {n}], s[n])
        BY <3>1
      <4> HIDE DEF h
      <4> QED
        BY <3>1, <4>1, <4>3, <4>4
    <3>2. CASE n \notin x
      <4>1. x \in SUBSET (1..n - 1)
        BY <2>3, <3>2
      <4>2. h[x] = g[x]
        BY <2>4, <4>1
      <4>3. g[x] = IF x = {} THEN b ELSE PostIterator(g[x \ {Max(x)}], s[Max(x)])
        BY <2>2, <4>1 DEF Iterates
      <4>4. h[x \ {Max(x)}] = g[x \ {Max(x)}]
        BY <2>4, <4>1
      <4> HIDE DEF h
      <4> QED
        BY <4>2, <4>3, <4>4
    <3> QED
      BY <3>1, <3>2
  <2>6. h = [x \in SUBSET (1..n) |-> h[x]]
    OBVIOUS
  <2>7. Iterates(b, s, h, n)
    <3> HIDE DEF h
    <3> QED
      BY <2>5, <2>6 DEF Iterates
  <2> QED
    BY <2>7
<1> QED
  BY <1>3, <1>4

\* A fold is the last of a row of values that begins with the base; each is
\* what the operator makes of the one before and the next element.
LEMMA FoldSteps ==
    ASSUME NEW b, NEW s, NEW n \in Nat, DOMAIN s = 1..n
    PROVE  \E h : /\ h[0] = b
                  /\ \A k \in 1..n : h[k] = PostIterator(h[k - 1], s[k])
                  /\ Folded(b, s) = h[n]
<1> DEFINE g == Iter(b, s)
<1>1. Iterates(b, s, g, n)
  <2>1. \E f : Iterates(b, s, f, n)
    BY IterExists
  <2> QED
    BY <2>1 DEF Iter, Iterates
<1>2. Folded(b, s) = g[1..n]
  BY FoldIsIter
<1> HIDE DEF g
<1> DEFINE h == [k \in 0..n |-> g[1..k]]
<1>3. h[0] = b
  <2>1. 1..0 = {} /\ {} \in SUBSET (1..n)
    OBVIOUS
  <2>2. g[{}] = b
    BY <1>1, <2>1 DEF Iterates
  <2> QED
    BY <2>1, <2>2
<1>4. ASSUME NEW k \in 1..n PROVE h[k] = PostIterator(h[k - 1], s[k])
  <2>1. 1..k \in SUBSET (1..n) /\ 1..k # {} /\ k \in 1..k /\ 1..k \in SUBSET Nat
    OBVIOUS
  <2>2. Max(1..k) = k
    <3>1. \A y \in 1..k : y <= k
      OBVIOUS
    <3> QED
      BY <2>1, <3>1, MaxIs
  <2>3. (1..k) \ {k} = 1..k - 1
    OBVIOUS
  <2>4. g[1..k] = PostIterator(g[1..k - 1], s[k])
    <3>1. g[1..k] = PostIterator(g[(1..k) \ {Max(1..k)}], s[Max(1..k)])
      BY <1>1, <2>1 DEF Iterates
    <3> QED
      BY <2>2, <2>3, <3>1
  <2>5. h[k] = g[1..k] /\ h[k - 1] = g[1..k - 1]
    OBVIOUS
  <2> QED
    BY <2>4, <2>5
<1>5. h[n] = g[1..n]
  OBVIOUS
<1> HIDE DEF h
<1> QED
  BY <1>2, <1>3, <1>4, <1>5
-----------------------------------------------------------------------------
(* One byte *)

\* The header of the value byte i is part of, as a position: the last one up to i.
LastHeader(i) == Max({j \in 1..i : upload[j] \in Headers})

LEMMA LastHeaderFacts ==
    ASSUME NEW i \in Nat, NEW l \in 1..i, upload[l] \in Headers
    PROVE  /\ LastHeader(i) \in 1..i
           /\ upload[LastHeader(i)] \in Headers
           /\ HeaderOf(i) = upload[LastHeader(i)]
           /\ \A j \in 1..i : upload[j] \in Headers => j <= LastHeader(i)
<1> DEFINE S == {j \in 1..i : upload[j] \in Headers}
<1>1. S \in SUBSET Nat /\ S # {} /\ \A j \in S : j <= i
  OBVIOUS
<1>2. Max(S) \in S /\ \A j \in S : j <= Max(S)
  BY <1>1, MaxFacts
<1>3. LastHeader(i) = Max(S) /\ HeaderOf(i) = upload[Max(S)]
  BY DEF LastHeader, HeaderOf
<1> QED
  BY <1>2, <1>3

\* A value that another header follows ends there, whatever comes later.
LEMMA ValueEndKept ==
    ASSUME NEW m \in Nat, NEW first \in 1..m,
           NEW l \in first + 1..m + 1, upload[l] \in Headers
    PROVE  ValueEnd(m + 1, first) = ValueEnd(m, first)
<1> DEFINE A == {m + 1} \cup {i \in first + 1..m : upload[i] \in Headers}
           B == {m + 1 + 1} \cup {i \in first + 1..m + 1 : upload[i] \in Headers}
<1>1. A \in SUBSET Nat /\ A # {} /\ B \in SUBSET Nat
  OBVIOUS
<1>2. Min(A) \in A /\ \A i \in A : Min(A) <= i
  BY <1>1, MinFacts
<1>3. Min(A) \in Nat /\ Min(A) <= l /\ Min(A) <= m + 1
  <2>1. l \in A \/ l = m + 1
    OBVIOUS
  <2> QED
    BY <1>1, <1>2, <2>1
<1>4. Min(A) \in B
  <2>1. CASE Min(A) = m + 1
    <3>1. l = m + 1
      <4>1. ~ (l \in A /\ l # m + 1)
        <5>1. l \in Nat /\ (l # m + 1 => l < m + 1)
          OBVIOUS
        <5> HIDE DEF A
        <5> QED
          BY <1>2, <2>1, <5>1
      <4> QED
        BY <4>1
    <3> QED
      BY <2>1, <3>1
  <2>2. CASE Min(A) # m + 1
    <3>1. Min(A) \in {i \in first + 1..m : upload[i] \in Headers}
      BY <1>2, <2>2
    <3> QED
      BY <3>1
  <2> QED
    BY <2>1, <2>2
<1>5. \A i \in B : Min(A) <= i
  <2> SUFFICES ASSUME NEW i \in B PROVE Min(A) <= i
    OBVIOUS
  <2>1. i \in A \/ i = m + 1 + 1
    OBVIOUS
  <2> HIDE DEF A, B
  <2> QED
    BY <1>2, <1>3, <2>1
<1>6. Min(B) = Min(A)
  <2> HIDE DEF A, B
  <2> QED
    BY <1>1, <1>4, <1>5, MinIs
<1> QED
  BY <1>6 DEF ValueEnd

\* A value with no header after it goes on to the end.
LEMMA ValueEndOpen ==
    ASSUME NEW m \in Nat, NEW first \in 1..m,
           \A i \in first + 1..m : upload[i] \notin Headers
    PROVE  ValueEnd(m, first) = m + 1
<1>1. {m + 1} \cup {i \in first + 1..m : upload[i] \in Headers} = {m + 1}
  OBVIOUS
<1>2. Min({m + 1}) = m + 1
  BY MinIs
<1> QED
  BY <1>1, <1>2 DEF ValueEnd

\* The start of the last value of k.
LEMMA StartIs ==
    ASSUME NEW m \in Nat, NEW k, NEW first \in 1..m, upload[first] = k,
           \A i \in first + 1..m : upload[i] # k
    PROVE  Starts(m, k) # {} /\ Max(Starts(m, k)) = first
<1>1. Starts(m, k) \in SUBSET Nat /\ first \in Starts(m, k)
  BY DEF Starts
<1>2. \A i \in Starts(m, k) : i <= first
  BY DEF Starts
<1> QED
  BY <1>1, <1>2, MaxIs

LEMMA StartFacts ==
    ASSUME NEW m \in Nat, NEW k, Starts(m, k) # {}
    PROVE  /\ Max(Starts(m, k)) \in 1..m
           /\ upload[Max(Starts(m, k))] = k
           /\ \A i \in Starts(m, k) : i <= Max(Starts(m, k))
<1>1. Starts(m, k) \in SUBSET Nat /\ \A i \in Starts(m, k) : i <= m
  BY DEF Starts
<1>2. Max(Starts(m, k)) \in Starts(m, k) /\ \A i \in Starts(m, k) : i <= Max(Starts(m, k))
  BY <1>1, MaxFacts
<1> QED
  BY <1>2 DEF Starts

\* The values of the other arguments are what they were.
LEMMA OtherValues ==
    ASSUME NEW m \in Nat, NEW l \in 1..m + 1, upload[l] \in Headers,
           \A j \in 1..m + 1 : upload[j] \in Headers => j <= l,
           NEW k \in Keys, k # upload[l]
    PROVE  ValueAt(m + 1, k) = ValueAt(m, k) /\ (Starts(m + 1, k) = {} <=> Starts(m, k) = {})
<1>1. k \in Headers
  BY DEF Headers
<1>2. Starts(m + 1, k) = Starts(m, k)
  <2>1. upload[m + 1] # k
    <3>1. CASE l = m + 1
      BY <3>1
    <3>2. CASE l # m + 1
      <4>1. m + 1 \in 1..m + 1 /\ ~ (m + 1 <= l)
        BY <3>2
      <4> QED
        BY <1>1, <4>1
    <3> QED
      BY <3>1, <3>2
  <2> QED
    BY <2>1 DEF Starts
<1>3. CASE Starts(m, k) = {}
  BY <1>2, <1>3 DEF ValueAt
<1>4. CASE Starts(m, k) # {}
  <2> DEFINE first == Max(Starts(m, k))
  <2>1. first \in 1..m /\ upload[first] = k
    BY <1>4, StartFacts
  <2> HIDE DEF first
  <2>2. first <= l /\ first # l
    BY <1>1, <2>1
  <2>3. l \in first + 1..m + 1
    BY <2>1, <2>2
  <2>4. ValueEnd(m + 1, first) = ValueEnd(m, first)
    BY <2>1, <2>3, ValueEndKept
  <2> USE DEF first
  <2> QED
    BY <1>2, <1>4, <2>4 DEF ValueAt
<1> QED
  BY <1>2, <1>3, <1>4

\* A last value that begins at `first' and ends before `end'.
LEMMA ValueIs ==
    ASSUME NEW m, NEW k, NEW first, NEW end, Starts(m, k) # {},
           Max(Starts(m, k)) = first, ValueEnd(m, first) = end
    PROVE  ValueAt(m, k) = [n \in 1..end - first - 1 |-> first + n]
BY DEF ValueAt

LEMMA FormIs ==
    ASSUME NEW m, NEW p, NEW u \in BOOLEAN, DOMAIN p \subseteq Keys,
           u <=> \E i \in 1..m : upload[i] = "encoded",
           ~u => p = ParamsAt(m)
    PROVE  IsForm([params |-> p, unsupported |-> u], m)
BY DEF IsForm

\* One element more at the end.
LEMMA AppendFrom ==
    ASSUME NEW m \in Nat, NEW l \in Nat, NEW n \in Nat, m = l + n
    PROVE  Append([i \in 1..n |-> l + i], m + 1) = [i \in 1..n + 1 |-> l + i]
<1> DEFINE s == [i \in 1..n |-> l + i]
<1>1. s \in Seq(Nat) /\ Len(s) = n
  OBVIOUS
<1> DEFINE t == Append(s, m + 1)
<1>2. t \in Seq(Nat) /\ Len(t) = n + 1
  BY <1>1
<1>3. \A i \in 1..n + 1 : t[i] = l + i
  <2> SUFFICES ASSUME NEW i \in 1..n + 1 PROVE t[i] = l + i
    OBVIOUS
  <2>1. CASE i = n + 1
    BY <1>1, <2>1
  <2>2. CASE i # n + 1
    BY <1>1, <2>2
  <2> QED
    BY <2>1, <2>2
<1>4. t = [i \in 1..n + 1 |-> t[i]]
  <2> HIDE DEF t
  <2> QED
    BY <1>2
<1> QED
  BY <1>3, <1>4

\* post_iterator makes of the first m bytes and the next what the form says
\* after both.
LEMMA FormStep ==
    ASSUME NEW m \in Nat, upload[1] \in Headers, NEW f, IsForm(f, m)
    PROVE  IsForm(PostIterator(f, m + 1), m + 1)
<1> DEFINE l == LastHeader(m + 1)
           k == HeaderOf(m + 1)
           g == PostIterator(f, m + 1)
<1>1. /\ l \in 1..m + 1 /\ upload[l] \in Headers /\ k = upload[l]
      /\ \A j \in 1..m + 1 : upload[j] \in Headers => j <= l
  <2>1. 1 \in 1..m + 1 /\ m + 1 \in Nat
    OBVIOUS
  <2> QED
    BY <2>1, LastHeaderFacts
<1>2. /\ f = [params |-> f.params, unsupported |-> f.unsupported]
      /\ DOMAIN f.params \subseteq Keys /\ f.unsupported \in BOOLEAN
      /\ f.unsupported <=> \E i \in 1..m : upload[i] = "encoded"
      /\ ~f.unsupported => f.params = ParamsAt(m)
  BY DEF IsForm
<1> HIDE DEF l, k
<1>3. CASE f.unsupported
  <2>1. g = f
    BY <1>3 DEF PostIterator
  <2>2. \E i \in 1..m + 1 : upload[i] = "encoded"
    BY <1>2, <1>3
  <2>3. f = [params |-> f.params, unsupported |-> TRUE]
    BY <1>2, <1>3
  <2>4. IsForm([params |-> f.params, unsupported |-> TRUE], m + 1)
    BY <1>2, <2>2, FormIs
  <2> QED
    BY <2>1, <2>3, <2>4
<1>4. CASE ~f.unsupported /\ k = "encoded"
  <2>1. g = [f EXCEPT !.unsupported = TRUE]
    BY <1>4 DEF PostIterator, k
  <2>2. g = [params |-> f.params, unsupported |-> TRUE]
    BY <1>2, <2>1
  <2>3. \E i \in 1..m + 1 : upload[i] = "encoded"
    BY <1>1, <1>4
  <2>4. IsForm([params |-> f.params, unsupported |-> TRUE], m + 1)
    BY <1>2, <2>3, FormIs
  <2> QED
    BY <2>2, <2>4
<1>5. CASE ~f.unsupported /\ k # "encoded"
  <2> DEFINE v == IF upload[m + 1] \in Headers THEN <<>> ELSE Append(f.params[k], m + 1)
             p == Assigned(f.params, k, v)
  <2>1. g = [params |-> p, unsupported |-> FALSE]
    <3>1. g = [f EXCEPT !.params = p]
      BY <1>5 DEF PostIterator, k
    <3> HIDE DEF p
    <3> QED
      BY <1>2, <1>5, <3>1
  <2>2. k \in Keys
    BY <1>1, <1>5 DEF Headers
  <2>3. ~ \E i \in 1..m + 1 : upload[i] = "encoded"
    <3>1. upload[m + 1] # "encoded"
      <4>1. SUFFICES ASSUME upload[m + 1] = "encoded" PROVE FALSE
        OBVIOUS
      <4>2. upload[m + 1] \in Headers
        BY <4>1 DEF Headers
      <4>3. l = m + 1
        BY <1>1, <4>2
      <4> QED
        BY <1>1, <1>5, <4>1, <4>3
    <3>2. ~ \E i \in 1..m : upload[i] = "encoded"
      BY <1>2, <1>5
    <3>3. \A i \in 1..m + 1 : i \in 1..m \/ i = m + 1
      OBVIOUS
    <3> QED
      BY <3>1, <3>2, <3>3
  <2>4. f.params = ParamsAt(m)
    BY <1>2, <1>5
  <2>5. \A j \in Keys : j # k => /\ ValueAt(m + 1, j) = ValueAt(m, j)
                                 /\ Starts(m + 1, j) = {} <=> Starts(m, j) = {}
    BY <1>1, OtherValues
  <2>6. Starts(m + 1, k) # {}
    BY <1>1 DEF Starts
  <2>7. v = ValueAt(m + 1, k)
    <3>1. CASE upload[m + 1] \in Headers
      <4>1. l = m + 1
        BY <1>1, <3>1
      <4>2. Max(Starts(m + 1, k)) = m + 1
        <5>1. \A i \in m + 1 + 1..m + 1 : upload[i] # k
          OBVIOUS
        <5> QED
          BY <1>1, <4>1, <5>1, StartIs
      <4>3. ValueEnd(m + 1, m + 1) = m + 1 + 1
        <5>1. \A i \in m + 1 + 1..m + 1 : upload[i] \notin Headers
          OBVIOUS
        <5> QED
          BY <5>1, ValueEndOpen
      <4>4. ValueAt(m + 1, k) = [n \in 1..m + 1 + 1 - (m + 1) - 1 |-> m + 1 + n]
        BY <2>6, <4>2, <4>3 DEF ValueAt
      <4>5. m + 1 + 1 - (m + 1) - 1 = 0
        OBVIOUS
      <4>6. ValueAt(m + 1, k) = <<>>
        BY <4>4, <4>5
      <4> QED
        BY <3>1, <4>6
    <3>2. CASE upload[m + 1] \notin Headers
      <4>1. l \in 1..m
        <5>1. l # m + 1
          BY <1>1, <3>2
        <5> QED
          BY <1>1, <5>1
      <4>2. \A i \in l + 1..m + 1 : upload[i] \notin Headers
        BY <1>1, <4>1
      <4>3. k \in Headers
        BY <1>1
      <4>4. Max(Starts(m + 1, k)) = l
        BY <1>1, <4>2, <4>3, StartIs
      <4>5. Starts(m, k) # {} /\ Max(Starts(m, k)) = l
        <5>1. \A i \in l + 1..m : upload[i] # k
          BY <4>1, <4>2, <4>3
        <5> QED
          BY <1>1, <4>1, <5>1, StartIs
      <4>6. ValueEnd(m + 1, l) = m + 1 + 1
        BY <1>1, <4>2, ValueEndOpen
      <4>7. ValueEnd(m, l) = m + 1
        <5>1. \A i \in l + 1..m : upload[i] \notin Headers
          BY <4>1, <4>2
        <5> QED
          BY <4>1, <5>1, ValueEndOpen
      <4>8. f.params[k] = [n \in 1..m - l |-> l + n]
        <5>1. f.params[k] = ValueAt(m, k)
          BY <2>2, <2>4, <4>5 DEF ParamsAt
        <5>2. ValueAt(m, k) = [n \in 1..(m + 1) - l - 1 |-> l + n]
          BY <4>5, <4>7, ValueIs
        <5>3. (m + 1) - l - 1 = m - l
          BY <4>1
        <5> QED
          BY <5>1, <5>2, <5>3
      <4>9. ValueAt(m + 1, k) = [n \in 1..m - l + 1 |-> l + n]
        <5>1. ValueAt(m + 1, k) = [n \in 1..ValueEnd(m + 1, l) - l - 1 |-> l + n]
          BY <2>6, <4>4 DEF ValueAt
        <5>2. ValueEnd(m + 1, l) - l - 1 = m - l + 1
          BY <4>1, <4>6
        <5> QED
          BY <5>1, <5>2
      <4>10. Append([n \in 1..m - l |-> l + n], m + 1) = [n \in 1..m - l + 1 |-> l + n]
        <5>1. l \in Nat /\ m - l \in Nat /\ m = l + (m - l)
          BY <4>1
        <5> QED
          BY <5>1, AppendFrom
      <4> QED
        BY <3>2, <4>8, <4>9, <4>10
    <3> QED
      BY <3>1, <3>2
  <2>8. p = ParamsAt(m + 1)
    <3> HIDE DEF v
    <3>1. DOMAIN p = url \cup {j \in Keys : Starts(m + 1, j) # {}}
      BY <2>2, <2>4, <2>5, <2>6 DEF ParamsAt, Assigned
    <3>2. \A j \in DOMAIN p : p[j] = ValueAt(m + 1, j)
      <4> SUFFICES ASSUME NEW j \in DOMAIN p PROVE p[j] = ValueAt(m + 1, j)
        OBVIOUS
      <4>1. j \in DOMAIN f.params \cup {k} /\ p[j] = IF j = k THEN v ELSE f.params[j]
        BY DEF Assigned
      <4>2. CASE j = k
        BY <2>7, <4>1, <4>2
      <4>3. CASE j # k
        <5>1. j \in DOMAIN ParamsAt(m) /\ j \in Keys /\ p[j] = ParamsAt(m)[j]
          BY <1>2, <2>4, <4>1, <4>3
        <5>2. ParamsAt(m)[j] = ValueAt(m, j)
          BY <5>1 DEF ParamsAt
        <5> QED
          BY <2>5, <4>3, <5>1, <5>2
      <4> QED
        BY <4>2, <4>3
    <3>3. p = [j \in DOMAIN p |-> p[j]]
      BY DEF Assigned
    <3> HIDE DEF p
    <3> QED
      BY <3>1, <3>2, <3>3 DEF ParamsAt
  <2>9. DOMAIN p \subseteq Keys
    BY <1>2, <2>2 DEF Assigned
  <2> HIDE DEF p
  <2>10. IsForm([params |-> p, unsupported |-> FALSE], m + 1)
    BY <2>3, <2>8, <2>9, FormIs
  <2> QED
    BY <2>1, <2>10
<1> QED
  BY <1>2, <1>3, <1>4, <1>5

-----------------------------------------------------------------------------
(* Pieces *)

LEMMA FromFacts ==
    ASSUME NEW m \in Nat, NEW n \in Nat
    PROVE  /\ From(m, n) \in Seq(Nat)
           /\ Len(From(m, n)) = n
           /\ DOMAIN From(m, n) = 1..n
           /\ \A i \in 1..n : From(m, n)[i] = m + i
BY DEF From

\* What follows the first of two sequences put together.
LEMMA SecondPart ==
    ASSUME NEW B, NEW s \in Seq(B), NEW t \in Seq(B), NEW i \in 1..Len(s) + Len(t), i > Len(s)
    PROVE  (s \o t)[i] = t[i - Len(s)]
OBVIOUS

\* Two pieces that follow each other are one.
LEMMA FromJoined ==
    ASSUME NEW m \in Nat, NEW n \in Nat, NEW k \in Nat
    PROVE  From(m, n) \o From(m + n, k) = From(m, n + k)
<1> DEFINE s == From(m, n) \o From(m + n, k)
<1>a. m + n \in Nat
  OBVIOUS
<1>b. From(m, n) \in Seq(Nat) /\ Len(From(m, n)) = n /\ \A i \in 1..n : From(m, n)[i] = m + i
  BY FromFacts
<1>c. /\ From(m + n, k) \in Seq(Nat) /\ Len(From(m + n, k)) = k
      /\ \A i \in 1..k : From(m + n, k)[i] = (m + n) + i
  BY <1>a, FromFacts
<1>1. s \in Seq(Nat) /\ Len(s) = n + k
  <2>1. \A a, b \in Seq(Nat) : a \o b \in Seq(Nat) /\ Len(a \o b) = Len(a) + Len(b)
    OBVIOUS
  <2> QED
    BY <1>b, <1>c, <2>1
<1>2. \A i \in 1..n + k : s[i] = m + i
  <2> SUFFICES ASSUME NEW i \in 1..n + k PROVE s[i] = m + i
    OBVIOUS
  <2>1. CASE i \in 1..n
    BY <1>b, <1>c, <2>1
  <2>2. CASE i \notin 1..n
    <3>1. i - n \in 1..k
      BY <2>2
    <3>2. s[i] = From(m + n, k)[i - n]
      <4>1. i \in 1..Len(From(m, n)) + Len(From(m + n, k)) /\ i > Len(From(m, n))
        BY <1>b, <1>c, <2>2
      <4>2. (From(m, n) \o From(m + n, k))[i] = From(m + n, k)[i - Len(From(m, n))]
        BY <1>b, <1>c, <4>1, SecondPart
      <4> QED
        BY <1>b, <4>2
    <3>3. From(m + n, k)[i - n] = (m + n) + (i - n)
      BY <1>c, <3>1
    <3>4. (m + n) + (i - n) = m + i
      OBVIOUS
    <3> QED
      BY <3>2, <3>3, <3>4
  <2> QED
    BY <2>1, <2>2
<1>3. s = [i \in 1..n + k |-> s[i]]
  <2> HIDE DEF s
  <2> QED
    BY <1>1
<1> HIDE DEF s
<1>4. s = [i \in 1..n + k |-> m + i]
  BY <1>2, <1>3
<1> QED
  BY <1>4 DEF s, From

\* A piece is cut into two.
LEMMA FromCut ==
    ASSUME NEW m \in Nat, NEW n \in Nat, NEW d \in 0..n
    PROVE  /\ SubSeq(From(m, n), 1, d) = From(m, d)
           /\ SubSeq(From(m, n), d + 1, n) = From(m + d, n - d)
<1>1. SubSeq(From(m, n), 1, d) = [i \in 1..d |-> From(m, n)[i]]
  BY FromFacts
<1>2. \A i \in 1..d : From(m, n)[i] = m + i
  BY FromFacts
<1>3. SubSeq(From(m, n), d + 1, n) = [i \in 1..n - d |-> From(m, n)[d + i]]
  <2>1. SubSeq(From(m, n), d + 1, n) = [i \in 1..n - (d + 1) + 1 |-> From(m, n)[i + (d + 1) - 1]]
    BY FromFacts
  <2>2. n - (d + 1) + 1 = n - d /\ \A i \in 1..n - d : i + (d + 1) - 1 = d + i
    OBVIOUS
  <2> QED
    BY <2>1, <2>2
<1>4. \A i \in 1..n - d : From(m, n)[d + i] = (m + d) + i
  BY FromFacts
<1> QED
  BY <1>1, <1>2, <1>3, <1>4 DEF From

\* What the post processor delivers is added to what the form says.
LEMMA FoldForm ==
    ASSUME NEW m \in Nat, NEW n \in Nat, n # 0 => upload[1] \in Headers,
           NEW f, IsForm(f, m)
    PROVE  IsForm(Folded(f, From(m, n)), m + n)
<1>1. DOMAIN From(m, n) = 1..n
  BY FromFacts
<1>2. PICK h : /\ h[0] = f
               /\ \A k \in 1..n : h[k] = PostIterator(h[k - 1], From(m, n)[k])
               /\ Folded(f, From(m, n)) = h[n]
  BY <1>1, FoldSteps
<1> DEFINE Bad == {k \in 0..n : ~IsForm(h[k], m + k)}
<1>3. Bad = {}
  <2> SUFFICES ASSUME Bad # {} PROVE FALSE
    OBVIOUS
  <2>1. PICK k \in Bad : \A j \in Bad : k <= j
    <3> HIDE DEF Bad
    <3>1. Bad \in SUBSET Nat
      BY DEF Bad
    <3> QED
      BY <3>1, LeastExists
  <2>2. k # 0
    <3>1. IsForm(h[0], m + 0)
      <4>1. m + 0 = m
        OBVIOUS
      <4> QED
        BY <1>2, <4>1
    <3> QED
      BY <2>1, <3>1
  <2>3. k \in 1..n /\ k - 1 \in 0..n /\ k - 1 \notin Bad
    BY <2>1, <2>2
  <2>4. IsForm(h[k - 1], m + (k - 1))
    BY <2>3
  <2>5. m + (k - 1) \in Nat /\ m + (k - 1) + 1 = m + k
    BY <2>3
  <2>6. IsForm(PostIterator(h[k - 1], m + (k - 1) + 1), m + (k - 1) + 1)
    BY <2>3, <2>4, <2>5, FormStep
  <2>7. From(m, n)[k] = m + k
    BY <2>3, FromFacts
  <2> QED
    BY <1>2, <2>1, <2>3, <2>5, <2>6, <2>7
<1>4. n \in 0..n
  OBVIOUS
<1> QED
  BY <1>2, <1>3, <1>4

LEMMA DeliverForm ==
    ASSUME NEW m \in Nat, NEW n \in Nat, n # 0 => upload[1] \in Headers,
           IsForm([params |-> params, unsupported |-> unsupported], m),
           Deliver(From(m, n))
    PROVE  /\ unsupported' \in BOOLEAN
           /\ DOMAIN params' \subseteq Keys
           /\ IsForm([params |-> params', unsupported |-> unsupported'], m + n)
<1> DEFINE f == Folded([params |-> params, unsupported |-> unsupported], From(m, n))
<1>1. IsForm(f, m + n)
  BY FoldForm
<1>2. params' = f.params /\ unsupported' = f.unsupported
  BY DEF Deliver, Folded
<1> HIDE DEF f
<1>3. f = [params |-> params', unsupported |-> unsupported']
  BY <1>1, <1>2 DEF IsForm
<1>4. f.unsupported \in BOOLEAN /\ DOMAIN f.params \subseteq Keys
  BY <1>1 DEF IsForm
<1> QED
  BY <1>1, <1>2, <1>3, <1>4

-----------------------------------------------------------------------------
(* The inductive invariant *)

\* What the connection knows of its client.
ClientOK ==
    /\ method \in Methods \cup {"GET"}
    /\ content \in {"form", "noboundary", "other"}
    /\ url \subseteq Keys
    /\ Form /\ upload # <<>> => upload[1] \in Headers

\* The fields of the request.
FieldsOK ==
    /\ remaining \in 0..max_request_body_size + 1
    /\ DOMAIN params \subseteq Keys
    /\ unsupported \in BOOLEAN
    /\ answer \in {"none", "method not allowed", "unsupported encoding", "too large",
                   "invalid utf8", "service", "bad request"}

\* A request begins with nothing.
Fresh == state = "idle" => body = <<>> /\ pending = <<>> /\ unsupported = FALSE

\* The first a bytes came before the limit was passed, if it was: the last
\* Len(pending) of them wait, those before them have been delivered.
FormKept(a) ==
    /\ ~TooLarge => a = arrived
    /\ Len(pending) \in 0..a
    /\ pending = From(a - Len(pending), Len(pending))
    /\ pending # <<>> => content = "form"
    /\ IsForm([params |-> params, unsupported |-> unsupported], a - Len(pending))

PlainKept ==
    /\ pending = <<>>
    /\ ~TooLarge => body = From(0, arrived)

Kept ==
    state \in {"body", "trailer", "footers"} =>
        IF need_post_processor THEN \E a \in 0..arrived : FormKept(a) ELSE PlainKept

HInv == ClientOK /\ FieldsOK /\ Fresh /\ Kept /\ HandedWhole

-----------------------------------------------------------------------------
(* The steps *)

\* What a form says depends on the upload and the URL alone.
LEMMA FormFrame ==
    ASSUME UNCHANGED <<upload, url>>, NEW m, NEW a, a = m,
           IsForm([params |-> params', unsupported |-> unsupported'], m)
    PROVE  IsForm([params |-> params, unsupported |-> unsupported], a)'
<1>1. \A j, k : Starts(j, k)' = Starts(j, k)
  BY DEF Starts
<1>2. \A j, i : ValueEnd(j, i)' = ValueEnd(j, i)
  BY DEF ValueEnd, Headers
<1>3. \A j, k : ValueAt(j, k)' = ValueAt(j, k)
  BY <1>1, <1>2 DEF ValueAt
<1>4. ParamsAt(m)' = ParamsAt(m)
  BY <1>1, <1>3 DEF ParamsAt
<1>5. /\ DOMAIN params' \subseteq Keys /\ unsupported' \in BOOLEAN
      /\ unsupported' <=> \E i \in 1..m : upload[i] = "encoded"
      /\ ~unsupported' => params' = ParamsAt(m)
  BY DEF IsForm
<1>6. /\ unsupported' <=> \E i \in 1..m : upload'[i] = "encoded"
      /\ ~unsupported' => params' = ParamsAt(m)'
  BY <1>4, <1>5
<1>7. IsForm([params |-> params, unsupported |-> unsupported], m)'
  BY <1>5, <1>6 DEF IsForm
<1> QED
  BY <1>7

LEMMA HandedFrame ==
    ASSUME HandedWhole, UNCHANGED <<handed, client>>
    PROVE  HandedWhole'
BY DEF HandedWhole, LastValue, need_post_processor, client, Headers, WellFormed, ToSet

LEMMA InitHInv == Init => HInv
<1> SUFFICES ASSUME Init PROVE HInv
  OBVIOUS
<1>1. max_request_body_size \in Nat
  BY LimitFacts DEF Init
<1>2. ClientOK
  BY DEF Init, ClientOK
<1>3. FieldsOK
  <2>1. DOMAIN params \subseteq Keys
    BY DEF Init
  <2>2. remaining \in 0..max_request_body_size + 1
    BY <1>1 DEF Init
  <2> QED
    BY <2>1, <2>2 DEF Init, FieldsOK
<1>4. Fresh /\ Kept
  BY DEF Init, Fresh, Kept
<1>5. HandedWhole
  BY DEF Init, HandedWhole, NotHanded
<1> QED
  BY <1>2, <1>3, <1>4, <1>5 DEF HInv

LEMMA NewRequestHInv == IInv /\ HInv /\ NewRequest => HInv'
<1> SUFFICES ASSUME IInv, HInv, NewRequest PROVE HInv'
  OBVIOUS
<1>1. /\ state = "idle" /\ method' \in Methods /\ content' \in {"form", "noboundary", "other"}
      /\ Form' /\ upload' # <<>> => upload'[1] \in Headers
      /\ url' \subseteq Keys
      /\ params' = [k \in url' |-> <<0>>]
      /\ remaining' = InitialRemaining
      /\ state' \in {"body", "trailer", "footers"}
      /\ UNCHANGED <<max_request_body_size, arrived, body, pending, unsupported, answer, handed>>
  BY RequestAssumption DEF NewRequest, Uploaded
<1>2. arrived = 0 /\ body = <<>> /\ pending = <<>> /\ unsupported = FALSE /\ ~handed.called
  BY <1>1 DEF IInv, Phases, HInv, Fresh
<1>3. ClientOK'
  BY <1>1 DEF ClientOK, Headers, Form, need_post_processor
<1>4. FieldsOK' /\ Fresh' /\ HandedWhole'
  <2>1. max_request_body_size \in Nat /\ InitialRemaining = max_request_body_size + 1
    BY LimitFacts DEF IInv, Numbers
  <2>2. DOMAIN params' \subseteq Keys
    BY <1>1
  <2>3. FieldsOK'
    <3>1. answer' = "none"
      BY <1>1 DEF IInv, Phases
    <3>2. remaining' \in 0..max_request_body_size' + 1
      BY <1>1, <2>1
    <3> QED
      BY <1>1, <1>2, <2>2, <3>1, <3>2 DEF FieldsOK
  <2>4. Fresh' /\ HandedWhole'
    BY <1>1, <1>2 DEF Fresh, HandedWhole
  <2> QED
    BY <2>3, <2>4
<1>5. Kept'
  <2>1. pending' = <<>> /\ arrived' = 0 /\ body' = <<>> /\ unsupported' = FALSE
    BY <1>1, <1>2
  <2>2. From(0, 0) = <<>>
    BY DEF From
  <2>3. PlainKept'
    BY <2>1, <2>2 DEF PlainKept, From
  <2>4. IsForm([params |-> params, unsupported |-> unsupported], 0)'
    <3>1. \A k : Starts(0, k)' = {}
      BY DEF Starts
    <3>2. ParamsAt(0)' = params'
      BY <1>1, <3>1 DEF ParamsAt, ValueAt
    <3>3. DOMAIN params' \subseteq Keys
      BY <1>1
    <3>4. ~ \E i \in 1..0 : upload'[i] = "encoded"
      OBVIOUS
    <3> QED
      BY <2>1, <3>2, <3>3, <3>4 DEF IsForm
  <2>5. FormKept(0)'
    BY <2>1, <2>2, <2>4 DEF FormKept, From
  <2>6. 0 \in 0..arrived'
    BY <2>1
  <2> QED
    BY <2>3, <2>5, <2>6 DEF Kept
<1> QED
  BY <1>3, <1>4, <1>5 DEF HInv

\* What every piece does to the fields.
LEMMA TakeFields ==
    ASSUME IInv, HInv, NEW n \in Nat, Take(n),
           \/ Fits(n) /\ Count(n)
           \/ ~Fits(n) /\ remaining' = 0,
           DOMAIN params' \subseteq Keys, unsupported' \in BOOLEAN
    PROVE  ClientOK' /\ FieldsOK' /\ Fresh' /\ HandedWhole'
<1>1. /\ state = "body" /\ state' \in {"body", "trailer", "footers"}
      /\ UNCHANGED <<client, max_request_body_size, method, content, upload, url,
                     answer, handed>>
  BY DEF Take, client, Uploaded
<1>2. ClientOK'
  BY <1>1 DEF HInv, ClientOK, Headers, Form, need_post_processor
<1>3. max_request_body_size \in Nat /\ remaining \in Nat
  BY LimitFacts DEF IInv, Numbers
<1>4. remaining' \in 0..max_request_body_size' + 1
  <2>1. remaining \in 0..max_request_body_size + 1
    BY DEF HInv, FieldsOK
  <2>2. CASE Fits(n) /\ Count(n)
    BY <1>1, <1>3, <2>1, <2>2 DEF Fits, Count
  <2>3. CASE ~Fits(n) /\ remaining' = 0
    BY <1>1, <1>3, <2>3
  <2> QED
    BY <2>2, <2>3
<1>5. FieldsOK'
  BY <1>1, <1>4 DEF HInv, FieldsOK
<1>6. Fresh'
  BY <1>1 DEF Fresh
<1>7. HandedWhole'
  BY <1>1, HandedFrame DEF HInv
<1> QED
  BY <1>2, <1>5, <1>6, <1>7

LEMMA AppendBodyHInv ==
    ASSUME IInv, HInv, NEW n \in Nat, AppendBody(n)
    PROVE  HInv'
<1>1. /\ Take(n) /\ Fits(n) /\ Count(n) /\ ~need_post_processor
      /\ body' = body \o Piece(n) /\ UNCHANGED form
  BY DEF AppendBody
<1>2. /\ state = "body" /\ arrived' = arrived + n /\ arrived \in Nat
      /\ UNCHANGED <<max_request_body_size, method, content, upload, url>>
      /\ max_request_body_size \in Nat /\ remaining \in Nat
  BY <1>1, LimitFacts DEF Take, client, IInv, Numbers
<1>3. ClientOK' /\ FieldsOK' /\ Fresh' /\ HandedWhole'
  <2>1. DOMAIN params' \subseteq Keys /\ unsupported' \in BOOLEAN
    BY <1>1 DEF form, HInv, FieldsOK
  <2> QED
    BY <1>1, <2>1, TakeFields
<1>4. ~need_post_processor'
  BY <1>1, <1>2 DEF need_post_processor
<1>5. PlainKept'
  <2>1. pending = <<>> /\ (~TooLarge => body = From(0, arrived))
    BY <1>1, <1>2 DEF HInv, Kept, PlainKept
  <2>2. ~TooLarge
    BY <1>1, <1>2 DEF Fits, TooLarge
  <2>3. Piece(n) = From(0 + arrived, n)
    BY <1>2 DEF Piece, From
  <2>4. body' = From(0, arrived + n)
    <3>1. From(0, arrived) \o From(0 + arrived, n) = From(0, arrived + n)
      <4>1. 0 \in Nat
        OBVIOUS
      <4> QED
        BY <1>2, <4>1, FromJoined
    <3> QED
      BY <1>1, <2>1, <2>2, <2>3, <3>1
  <2>5. pending' = <<>>
    BY <1>1, <2>1 DEF form
  <2> QED
    BY <1>2, <2>4, <2>5 DEF PlainKept, From
<1>6. Kept'
  BY <1>4, <1>5 DEF Kept
<1> QED
  BY <1>3, <1>6 DEF HInv

LEMMA PostBodyHInv ==
    ASSUME IInv, HInv, NEW n \in Nat, PostBody(n)
    PROVE  HInv'
<1> DEFINE data == pending \o Piece(n)
<1>1. /\ Take(n) /\ Fits(n) /\ Count(n) /\ need_post_processor /\ content = "form"
      /\ UNCHANGED body
  BY DEF PostBody, Form
<1>2. PICK d \in 0..Len(data) : /\ Deliver(SubSeq(data, 1, d))
                                /\ pending' = SubSeq(data, d + 1, Len(data))
  BY DEF PostBody
<1>3. /\ state = "body" /\ n # 0 /\ n <= Len(upload) - arrived /\ arrived' = arrived + n
      /\ arrived \in Nat /\ Len(upload) \in Nat
      /\ UNCHANGED <<max_request_body_size, method, content, upload, url>>
      /\ max_request_body_size \in Nat /\ remaining \in Nat
  BY <1>1, LimitFacts DEF Take, client, IInv, Numbers
<1>4. ~TooLarge /\ ~TooLarge'
  <2>1. max_request_body_size = 0 \/ remaining > n
    BY <1>1 DEF Fits
  <2>2. remaining' = IF max_request_body_size # 0 THEN remaining - n ELSE remaining
    BY <1>1 DEF Count
  <2> QED
    BY <1>3, <2>1, <2>2 DEF TooLarge
<1>5. PICK a \in 0..arrived : FormKept(a)
  BY <1>1, <1>3 DEF HInv, Kept
<1>6. a = arrived
  BY <1>4, <1>5 DEF FormKept
<1>7. PICK q \in Nat, m \in Nat :
         /\ q = Len(pending) /\ m + q = arrived
         /\ pending = From(m, q)
         /\ IsForm([params |-> params, unsupported |-> unsupported], m)
  <2>1. Len(pending) \in Nat /\ arrived - Len(pending) \in Nat
    BY <1>3, <1>5, <1>6 DEF FormKept
  <2>2. (arrived - Len(pending)) + Len(pending) = arrived
    BY <1>3, <2>1
  <2> QED
    BY <1>5, <1>6, <2>1, <2>2 DEF FormKept
<1>8. data = From(m, q + n)
  <2>1. Piece(n) = From(m + q, n)
    BY <1>7 DEF Piece, From
  <2>2. pending = From(m, q)
    BY <1>7
  <2>3. From(m, q) \o From(m + q, n) = From(m, q + n)
    BY FromJoined
  <2> QED
    BY <2>1, <2>2, <2>3
<1> HIDE DEF data
<1>9. Len(data) = q + n /\ q + n \in Nat /\ d \in 0..q + n
  <2>1. q + n \in Nat
    BY <1>7
  <2> QED
    BY <1>7, <1>8, <2>1, FromFacts
<1>10. /\ SubSeq(data, 1, d) = From(m, d)
       /\ pending' = From(m + d, (q + n) - d)
  <2>1. /\ SubSeq(From(m, q + n), 1, d) = From(m, d)
        /\ SubSeq(From(m, q + n), d + 1, q + n) = From(m + d, (q + n) - d)
    BY <1>9, FromCut
  <2>2. pending' = SubSeq(data, d + 1, q + n)
    BY <1>2, <1>9
  <2> QED
    BY <1>8, <2>1, <2>2
<1>11. upload[1] \in Headers
  BY <1>1, <1>3 DEF HInv, ClientOK, Form
<1>12. /\ unsupported' \in BOOLEAN /\ DOMAIN params' \subseteq Keys
       /\ IsForm([params |-> params', unsupported |-> unsupported'], m + d)
  <2>1. d \in Nat
    BY <1>9
  <2> QED
    BY <1>2, <1>7, <1>10, <1>11, <2>1, DeliverForm
<1>13. ClientOK' /\ FieldsOK' /\ Fresh' /\ HandedWhole'
  BY <1>1, <1>12, TakeFields
<1>14. FormKept(arrived)'
  <2>1. m + d \in Nat /\ (q + n) - d \in Nat
    BY <1>9
  <2>2. Len(pending') = (q + n) - d
    BY <1>10, <2>1, FromFacts
  <2>3. arrived' - Len(pending') = m + d /\ Len(pending') \in 0..arrived'
    <3>1. arrived' = m + q + n
      BY <1>3, <1>7
    <3> QED
      BY <1>9, <2>2, <3>1
  <2>4. IsForm([params |-> params, unsupported |-> unsupported], m + d)'
    BY <1>3, <1>12, FormFrame
  <2>5. IsForm([params |-> params, unsupported |-> unsupported], arrived - Len(pending))'
    BY <2>3, <2>4
  <2>6. pending' = From(arrived' - Len(pending'), Len(pending'))
    BY <1>10, <2>2, <2>3
  <2>7. (pending = From(arrived - Len(pending), Len(pending)))'
    BY <2>6 DEF From
  <2> QED
    BY <1>1, <1>3, <2>3, <2>5, <2>7 DEF FormKept
<1>15. Kept'
  <2>1. arrived' \in 0..arrived'
    BY <1>3
  <2> QED
    BY <1>1, <1>3, <1>14, <2>1 DEF Kept, need_post_processor
<1> QED
  BY <1>13, <1>15 DEF HInv

LEMMA DropBodyHInv ==
    ASSUME IInv, HInv, NEW n \in Nat, DropBody(n)
    PROVE  HInv'
<1>1. Take(n) /\ ~Fits(n) /\ remaining' = 0 /\ UNCHANGED <<body, params, pending, unsupported>>
  BY DEF DropBody, form
<1>2. /\ state = "body" /\ arrived' = arrived + n /\ arrived \in Nat
      /\ UNCHANGED <<max_request_body_size, method, content, upload, url>>
  BY <1>1 DEF Take, client, IInv, Numbers
<1>3. ClientOK' /\ FieldsOK' /\ Fresh' /\ HandedWhole'
  <2>1. DOMAIN params' \subseteq Keys /\ unsupported' \in BOOLEAN
    BY <1>1 DEF HInv, FieldsOK
  <2> QED
    BY <1>1, <2>1, TakeFields
<1>4. TooLarge'
  BY <1>1, <1>2 DEF Fits, TooLarge
<1>5. CASE need_post_processor
  <2>1. PICK a \in 0..arrived : FormKept(a)
    BY <1>2, <1>5 DEF HInv, Kept
  <2>2. PICK m : m = a - Len(pending)
    OBVIOUS
  <2>3. IsForm([params |-> params, unsupported |-> unsupported], m)'
    <3>1. IsForm([params |-> params', unsupported |-> unsupported'], m)
      BY <1>1, <2>1, <2>2 DEF FormKept
    <3> QED
      BY <1>2, <3>1, FormFrame
  <2>4. IsForm([params |-> params, unsupported |-> unsupported], a - Len(pending))'
    <3>1. a - Len(pending') = m
      BY <1>1, <2>2
    <3> QED
      BY <2>3, <3>1
  <2>5. (pending = From(a - Len(pending), Len(pending)))'
    BY <1>1, <2>1 DEF FormKept, From
  <2>6. FormKept(a)'
    BY <1>1, <1>2, <1>4, <2>1, <2>4, <2>5 DEF FormKept
  <2>7. a \in 0..arrived'
    BY <1>2
  <2> QED
    BY <1>2, <1>3, <1>5, <2>6, <2>7 DEF HInv, Kept, need_post_processor
<1>6. CASE ~need_post_processor
  <2>1. PlainKept'
    BY <1>1, <1>2, <1>4, <1>6 DEF HInv, Kept, PlainKept
  <2> QED
    BY <1>2, <1>3, <1>6, <2>1 DEF HInv, Kept, need_post_processor
<1> QED
  BY <1>5, <1>6

\* The end of a connection, and a response of libmicrohttpd itself, change nothing
\* the invariant is about.
LEMMA CloseHInv ==
    ASSUME IInv, HInv, state' \notin {"idle", "body", "trailer", "footers"},
           UNCHANGED <<client, remaining, form, handed>>,
           answer' = answer \/ answer' = "bad request"
    PROVE  HInv'
<1>1. UNCHANGED <<client, max_request_body_size, method, content, upload, url,
                  remaining, params, unsupported, handed>>
  BY DEF client, form
<1>2. ClientOK'
  BY <1>1 DEF HInv, ClientOK, Headers, Form, need_post_processor
<1>3. FieldsOK'
  BY <1>1 DEF HInv, FieldsOK
<1>4. Fresh' /\ Kept'
  BY DEF Fresh, Kept
<1>5. HandedWhole'
  BY <1>1, HandedFrame DEF HInv
<1> QED
  BY <1>2, <1>3, <1>4, <1>5 DEF HInv

LEMMA ReceiveBodyHInv == IInv /\ HInv /\ ReceiveBody => HInv'
<1> SUFFICES ASSUME IInv, HInv, NEW n \in 1..MaxUpload,
                    AppendBody(n) \/ PostBody(n) \/ DropBody(n) \/ PostFails(n)
             PROVE  HInv'
  BY DEF ReceiveBody
<1>1. n \in Nat
  BY RequestAssumption
<1>2. PostFails(n) => state' = "cleaned" /\ UNCHANGED <<client, remaining, form, answer, handed>>
  BY DEF PostFails, Close
<1> QED
  BY <1>1, <1>2, AppendBodyHInv, PostBodyHInv, DropBodyHInv, CloseHInv

\* Delivering nothing changes nothing.
LEMMA FoldNothing ==
    ASSUME NEW b
    PROVE  Folded(b, <<>>) = b
<1>1. 0 \in Nat /\ DOMAIN <<>> = 1..0
  OBVIOUS
<1>2. PICK h : h[0] = b /\ Folded(b, <<>>) = h[0]
  BY <1>1, FoldSteps
<1> QED
  BY <1>2

\* What closing the post processor makes of the form: all the upload says, when
\* nothing of it was dropped and the post processor understands it.
LEMMA ClosedForm ==
    ASSUME IInv, HInv, ClosePostProcessor
    PROVE  /\ unsupported' \in BOOLEAN
           /\ DOMAIN params' \subseteq Keys
           /\ need_post_processor /\ ~TooLarge /\ WellFormed =>
                 IsForm([params |-> params', unsupported |-> unsupported'], Len(upload))
<1>1. state = "footers"
  BY DEF ClosePostProcessor
<1>5. PICK d \in 0..Len(pending) : /\ WellFormed => d = Len(pending)
                                   /\ Deliver(SubSeq(pending, 1, d))
  BY DEF ClosePostProcessor
<1>2. arrived = Len(upload) /\ arrived \in Nat
  BY <1>1 DEF IInv, Phases, Numbers
<1>3. CASE need_post_processor
  <2>1. PICK a \in 0..arrived : FormKept(a)
    BY <1>1, <1>3 DEF HInv, Kept
  <2>2. PICK q \in Nat, m \in Nat :
           /\ q = Len(pending) /\ m + q = a
           /\ pending = From(m, q)
           /\ IsForm([params |-> params, unsupported |-> unsupported], m)
    <3>1. Len(pending) \in Nat /\ a - Len(pending) \in Nat
      BY <1>2, <2>1 DEF FormKept
    <3>2. (a - Len(pending)) + Len(pending) = a
      BY <1>2, <3>1
    <3> QED
      BY <2>1, <3>1, <3>2 DEF FormKept
  <2>3. q # 0 => upload[1] \in Headers
    <3>1. SUFFICES ASSUME q # 0 PROVE upload[1] \in Headers
      OBVIOUS
    <3>2. pending # <<>> /\ upload # <<>>
      BY <1>2, <2>2, <3>1
    <3> QED
      BY <1>3, <2>1, <3>2 DEF FormKept, HInv, ClientOK, Form
  <2>4. d \in 0..q /\ d \in Nat /\ (WellFormed => d = q)
    BY <1>5, <2>2
  <2>5. Deliver(From(m, d))
    <3>1. Deliver(SubSeq(From(m, q), 1, d))
      BY <1>5, <2>2
    <3> QED
      BY <2>4, <3>1, FromCut
  <2>6. /\ unsupported' \in BOOLEAN /\ DOMAIN params' \subseteq Keys
        /\ IsForm([params |-> params', unsupported |-> unsupported'], m + d)
    <3>1. d # 0 => upload[1] \in Headers
      BY <2>3, <2>4
    <3> QED
      BY <2>2, <2>4, <2>5, <3>1, DeliverForm
  <2>7. ~TooLarge /\ WellFormed => m + d = Len(upload)
    BY <1>2, <2>1, <2>2, <2>4 DEF FormKept
  <2> QED
    BY <2>6, <2>7
<1>4. CASE ~need_post_processor
  <2>1. pending = <<>>
    BY <1>1, <1>4 DEF HInv, Kept, PlainKept
  <2>2. Deliver(<<>>)
    <3>1. Len(pending) = 0 /\ SubSeq(pending, 1, 0) = <<>>
      BY <2>1
    <3>2. d = 0
      BY <3>1
    <3> QED
      BY <1>5, <3>1, <3>2
  <2>3. params' = params /\ unsupported' = unsupported
    BY <2>2, FoldNothing DEF Deliver, Folded
  <2> QED
    BY <1>4, <2>3 DEF HInv, FieldsOK
<1> QED
  BY <1>3, <1>4

-----------------------------------------------------------------------------
(* What the service is called with *)

\* The value given last is what the form says after its last byte.
LEMMA LastValueAt ==
    ASSUME Numbers
    PROVE  /\ \A k : LastValue(k) = ValueAt(Len(upload), k)
           /\ \A k : k \in ToSet(upload) <=> Starts(Len(upload), k) # {}
           /\ "encoded" \in ToSet(upload) <=> \E i \in 1..Len(upload) : upload[i] = "encoded"
<1>1. DOMAIN upload = 1..Len(upload) /\ Len(upload) \in Nat
  BY DEF Numbers
<1>2. ASSUME NEW k PROVE LastValue(k) = ValueAt(Len(upload), k)
  <2>1. Starts(Len(upload), k) = {i \in DOMAIN upload : upload[i] = k}
    BY <1>1 DEF Starts
  <2> QED
    BY <2>1 DEF LastValue, ValueAt, ValueEnd
<1>3. \A k : k \in ToSet(upload) <=> Starts(Len(upload), k) # {}
  BY <1>1 DEF ToSet, Starts
<1>4. "encoded" \in ToSet(upload) <=> \E i \in 1..Len(upload) : upload[i] = "encoded"
  BY <1>1 DEF ToSet
<1> QED
  BY <1>2, <1>3, <1>4

LEMMA CallServiceHanded ==
    ASSUME IInv, HInv, CallService
    PROVE  HandedWhole'
<1>1. /\ ClosePostProcessor /\ ~unsupported' /\ ~TooLarge
      /\ handed' = [body |-> body, params |-> params', called |-> TRUE]
      /\ state = "footers"
      /\ UNCHANGED <<method, content, upload, url>>
  BY DEF CallService, ClosePostProcessor, Queue, Close, client
<1>2. arrived = Len(upload) /\ arrived \in Nat /\ Numbers
  BY <1>1 DEF IInv, Phases, Numbers
<1>3. CASE need_post_processor /\ WellFormed
  <2>1. IsForm([params |-> params', unsupported |-> unsupported'], Len(upload))
    BY <1>1, <1>3, ClosedForm
  <2>2. /\ unsupported' <=> \E i \in 1..Len(upload) : upload[i] = "encoded"
        /\ ~unsupported' => params' = ParamsAt(Len(upload))
    BY <2>1 DEF IsForm
  <2>3. "encoded" \notin ToSet(upload)
    BY <1>1, <1>2, <2>2, LastValueAt
  <2>4. params' = [k \in url \cup (Keys \cap ToSet(upload)) |-> LastValue(k)]
    <3>1. url \cup {j \in Keys : Starts(Len(upload), j) # {}} = url \cup (Keys \cap ToSet(upload))
      BY <1>2, LastValueAt
    <3>2. \A k : LastValue(k) = ValueAt(Len(upload), k)
      BY <1>2, LastValueAt
    <3>3. params' = ParamsAt(Len(upload))
      BY <1>1, <2>2
    <3> QED
      BY <3>1, <3>2, <3>3 DEF ParamsAt
  <2>5. \A k : LastValue(k)' = LastValue(k)
    BY <1>1 DEF LastValue, Headers
  <2>6. need_post_processor' /\ ToSet(upload)' = ToSet(upload)
    BY <1>1, <1>3 DEF need_post_processor, ToSet
  <2>7. handed'.params = [k \in url' \cup (Keys \cap ToSet(upload)') |-> LastValue(k)']
    BY <1>1, <2>4, <2>5, <2>6
  <2> QED
    BY <2>3, <2>6, <2>7 DEF HandedWhole
<1>4. CASE need_post_processor /\ ~WellFormed
  BY <1>1, <1>4 DEF HandedWhole, need_post_processor, WellFormed, ToSet
<1>5. CASE ~need_post_processor
  <2>1. body = From(0, arrived)
    BY <1>1, <1>5 DEF HInv, Kept, PlainKept
  <2>2. From(0, arrived) = [i \in 1..arrived |-> i]
    BY <1>2 DEF From
  <2>3. handed'.body = [i \in 1..Len(upload') |-> i]
    BY <1>1, <1>2, <2>1, <2>2
  <2>4. ~need_post_processor'
    BY <1>1, <1>5 DEF need_post_processor
  <2> QED
    BY <2>3, <2>4 DEF HandedWhole
<1> QED
  BY <1>3, <1>4, <1>5

LEMMA HandleHInv == IInv /\ HInv /\ Handle => HInv'
<1> SUFFICES ASSUME IInv, HInv, Handle PROVE HInv'
  OBVIOUS
<1>1. state' \in {"reply", "cleaned"} /\ UNCHANGED <<max_request_body_size, remaining>>
  BY HandleFrame
<1>2. UNCHANGED <<client, method, content, upload, url>>
  BY DEF Handle, MethodNotAllowed, UnsupportedEncoding, RequestTooLarge, InvalidUtf8,
         CallService, Queue, Close, client
<1>3. DOMAIN params' \subseteq Keys /\ unsupported' \in BOOLEAN
  <2>1. CASE MethodNotAllowed
    BY <2>1 DEF MethodNotAllowed, form, HInv, FieldsOK
  <2>2. CASE ~MethodNotAllowed
    <3>1. ClosePostProcessor
      BY <2>2 DEF Handle, UnsupportedEncoding, RequestTooLarge, InvalidUtf8, CallService
    <3> QED
      BY <3>1, ClosedForm
  <2> QED
    BY <2>1, <2>2
<1>5. answer' \in {"none", "method not allowed", "unsupported encoding", "too large",
                   "invalid utf8", "service", "bad request"}
  <2>1. \/ answer' = answer
        \/ answer' \in {"method not allowed", "unsupported encoding", "too large",
                        "invalid utf8", "service"}
    BY DEF Handle, MethodNotAllowed, UnsupportedEncoding, RequestTooLarge, InvalidUtf8,
           CallService, Queue, Close
  <2> QED
    BY <2>1 DEF HInv, FieldsOK
<1>6. FieldsOK'
  <2>1. remaining' \in 0..max_request_body_size' + 1
    BY <1>1 DEF HInv, FieldsOK
  <2> QED
    BY <1>1, <1>3, <1>5, <2>1 DEF FieldsOK
<1>7. ClientOK' /\ Fresh' /\ Kept'
  BY <1>1, <1>2 DEF HInv, ClientOK, Fresh, Kept, Headers, Form, need_post_processor
<1>8. HandedWhole'
  <2>1. CASE CallService
    BY <2>1, CallServiceHanded
  <2>2. CASE ~CallService
    <3>1. UNCHANGED handed
      BY <2>2 DEF Handle, MethodNotAllowed, UnsupportedEncoding, RequestTooLarge, InvalidUtf8
    <3> QED
      BY <1>2, <3>1, HandedFrame DEF HInv
  <2> QED
    BY <2>1, <2>2
<1> QED
  BY <1>6, <1>7, <1>8 DEF HInv

\* The trailer comes, or no step changes anything.
LEMMA StutterHInv == HInv /\ (TrailerCame \/ UNCHANGED vars) => HInv'
<1> SUFFICES ASSUME HInv, TrailerCame \/ UNCHANGED vars PROVE HInv'
  OBVIOUS
<1>0. state' = state \/ (state = "trailer" /\ state' = "footers")
  BY DEF vars, TrailerCame
<1>1. UNCHANGED <<max_request_body_size, method, content, upload, url, client, arrived,
                  remaining, body, params, pending, unsupported, answer, handed>>
  BY DEF vars, client, form, TrailerCame
<1>2. ClientOK' /\ FieldsOK' /\ Fresh'
  BY <1>0, <1>1 DEF HInv, ClientOK, FieldsOK, Fresh, Headers, Form, need_post_processor
<1>3. HandedWhole'
  BY <1>1, HandedFrame DEF HInv
<1>4. TooLarge' = TooLarge /\ need_post_processor' = need_post_processor
  BY <1>1 DEF TooLarge, need_post_processor
<1>5. ASSUME state \in {"body", "trailer", "footers"}, need_post_processor
      PROVE  \E a \in 0..arrived' : FormKept(a)'
  <2>1. PICK a \in 0..arrived : FormKept(a)
    BY <1>5 DEF HInv, Kept
  <2>2. PICK m : m = a - Len(pending)
    OBVIOUS
  <2>3. IsForm([params |-> params, unsupported |-> unsupported], m)'
    <3>1. IsForm([params |-> params', unsupported |-> unsupported'], m)
      BY <1>1, <2>1, <2>2 DEF FormKept
    <3> QED
      BY <1>1, <3>1, FormFrame
  <2>4. IsForm([params |-> params, unsupported |-> unsupported], a - Len(pending))'
    BY <1>1, <2>2, <2>3
  <2>5. (pending = From(a - Len(pending), Len(pending)))'
    BY <1>1, <2>1 DEF FormKept, From
  <2> QED
    BY <1>1, <1>4, <2>1, <2>4, <2>5 DEF FormKept
<1>6. Kept'
  BY <1>0, <1>1, <1>4, <1>5 DEF HInv, Kept, PlainKept, From
<1> QED
  BY <1>2, <1>3, <1>6 DEF HInv

LEMMA NextHInv == IInv /\ HInv /\ [Next]_vars => HInv'
<1>1. IInv /\ HInv /\ (TrailerRefused \/ ReplySent \/ ClientGone \/ Hangup \/ Cleanup) => HInv'
  <2>1. TrailerRefused \/ ReplySent \/ ClientGone \/ Hangup \/ Cleanup =>
           /\ state' \in {"reply", "closed", "cleaned"}
           /\ UNCHANGED <<client, remaining, form, handed>>
           /\ answer' = answer \/ answer' = "bad request"
    BY DEF TrailerRefused, ReplySent, ClientGone, Hangup, Cleanup, Close
  <2> QED
    BY <2>1, CloseHInv
<1> QED
  BY <1>1, NewRequestHInv, ReceiveBodyHInv, HandleHInv, StutterHInv DEF Next

-----------------------------------------------------------------------------
(* Theorems *)

\* The invariant holds in every state of every request.
THEOREM FormInvariance == Spec => []HInv
BY InitHInv, NextHInv, Invariance, PTL DEF Spec

\* Whatever arrives, every field of the request is of its type.
THEOREM Types == Spec => []TypeOK
<1>1. IInv /\ HInv /\ Known => TypeOK
  <2> SUFFICES ASSUME IInv, HInv, Known PROVE TypeOK
    OBVIOUS
  <2>1. arrived \in 0..Len(upload)
    BY DEF IInv, Numbers
  <2>2. /\ connection \in [client_aware : BOOLEAN, client_context : BOOLEAN, made : Nat, freed : Nat]
        /\ state \in {"idle", "body", "trailer", "footers", "reply", "closed", "cleaned"}
    BY DEF Known
  <2> QED
    BY <2>1, <2>2 DEF IInv, Numbers, HInv, ClientOK, FieldsOK, TypeOK
<1> QED
  BY <1>1, Invariance, FormInvariance, ConnectionInvariance, PTL

\* For every upload, every limit and every way to cut the upload into pieces,
\* and whatever the post processor keeps back: the service that is called gets
\* the whole body, or every argument with the value given last.
THEOREM ServiceSeesWhole == Spec => []HandedWhole
<1>1. HInv => HandedWhole
  BY DEF HInv
<1> QED
  BY <1>1, FormInvariance, PTL

-----------------------------------------------------------------------------
(* The arguments and the log: valid_utf8 and log_append_pair for all texts. *)
(* Both the code and its reference are brought to one form by position.     *)

\* A character or the end may begin at j.
Begins(text, j) == ByteAt(text, j) \notin Continuation

\* The first byte of a character.
Leads(b) == b \in 1..247 \ Continuation

\* At j is a first byte, the bytes that have to follow it, and a beginning.
CharacterAt(text, j) ==
    /\ Leads(ByteAt(text, j))
    /\ \A k \in 1..Following(ByteAt(text, j)) : ByteAt(text, j + k) \in Continuation
    /\ Begins(text, j + Following(ByteAt(text, j)) + 1)

\* The bytes from i up to the zero byte at e fall into characters.
GoodUpTo(text, i, e) ==
    /\ ByteAt(text, e) = 0
    /\ Begins(text, i)
    /\ \A j \in i..e - 1 : ByteAt(text, j) # 0 /\ (Begins(text, j) => CharacterAt(text, j))

Good(text, i) == \E e \in i..Len(text) + 1 : GoodUpTo(text, i, e)

\* Neither the end nor a first byte continues a character.
LEMMA NoContinuation == \A b \in Continuation : b \in 128..191 /\ b # 0
BY DEF Continuation

\* What the code requires of a first byte other than the end.
LEMMA LeadsFacts ==
    /\ \A b : Leads(b) => b \in 0..247 \ Continuation /\ b # 0
    /\ \A b \in 0..247 \ Continuation : b # 0 => Leads(b)
BY DEF Leads, Continuation

\* The bytes of a text and the zero behind it.
LEMMA ByteFacts ==
    ASSUME NEW text \in Seq(0..255), NEW j \in Nat, j >= 1
    PROVE  /\ ByteAt(text, j) \in 0..255
           /\ Following(ByteAt(text, j)) \in 0..3
           /\ j > Len(text) => ByteAt(text, j) = 0
           /\ j <= Len(text) => ByteAt(text, j) = text[j]
           /\ ByteAt(text, j) = 0 => Begins(text, j)
<1>1. Len(text) \in Nat /\ (j <= Len(text) => text[j] \in 0..255)
  <2> DEFINE B == 0..255
  <2>1. text \in Seq(B)
    OBVIOUS
  <2> HIDE DEF B
  <2>2. Len(text) \in Nat /\ (j \in 1..Len(text) => text[j] \in B)
    BY <2>1
  <2> QED
    BY <2>2 DEF B
<1>2. /\ j > Len(text) => ByteAt(text, j) = 0
      /\ j <= Len(text) => ByteAt(text, j) = text[j]
  BY <1>1 DEF ByteAt
<1>3. ByteAt(text, j) \in 0..255
  <2>1. CASE j > Len(text)
    BY <2>1, <1>2
  <2>2. CASE j <= Len(text)
    BY <2>2, <1>1, <1>2
  <2> QED
    BY <2>1, <2>2, <1>1
<1>4. Following(ByteAt(text, j)) \in 0..3
  BY DEF Following
<1>5. ByteAt(text, j) = 0 => Begins(text, j)
  BY NoContinuation DEF Begins
<1> QED
  BY <1>2, <1>3, <1>4, <1>5

\* A character at i, and good text after it.
LEMMA GoodGoesOn ==
    ASSUME NEW text \in Seq(0..255), NEW i \in 1..Len(text) + 1
    PROVE  Good(text, i) <=>
              \/ ByteAt(text, i) = 0
              \/ /\ ByteAt(text, i) \in 0..247 \ Continuation
                 /\ \A k \in 1..Following(ByteAt(text, i)) : ByteAt(text, i + k) \in Continuation
                 /\ Good(text, i + Following(ByteAt(text, i)) + 1)
<1> DEFINE n == Len(text)
           b == ByteAt(text, i)
           next == i + Following(b) + 1
<1>1. n \in Nat /\ i \in Nat /\ i >= 1 /\ b \in 0..255 /\ Following(b) \in 0..3 /\ next \in Nat /\ next > i
  BY ByteFacts
<1>2. \A j \in Nat : j >= 1 => /\ ByteAt(text, j) \in 0..255
                               /\ (j > n => ByteAt(text, j) = 0)
                               /\ (ByteAt(text, j) = 0 => Begins(text, j))
  BY ByteFacts
<1>3. 0 \notin Continuation
  BY DEF Continuation
<1> HIDE DEF n, b, next
<1>4. CASE b = 0
  <2>1. GoodUpTo(text, i, i)
    BY <1>1, <1>2, <1>4 DEF GoodUpTo, b
  <2> QED
    BY <1>1, <1>4, <2>1 DEF Good, b, n
<1>5. CASE b # 0
  <2>1. ASSUME NEW e \in i..n + 1, GoodUpTo(text, i, e)
        PROVE  /\ b \in 0..247 \ Continuation
               /\ \A k \in 1..Following(b) : ByteAt(text, i + k) \in Continuation
               /\ e \in next..n + 1 /\ GoodUpTo(text, next, e)
    <3>1. e # i /\ e \in Nat /\ e > i
      BY <1>1, <1>5, <2>1 DEF GoodUpTo, b
    <3>2. CharacterAt(text, i)
      BY <1>1, <2>1, <3>1 DEF GoodUpTo
    <3>3. /\ b \in 0..247 \ Continuation
          /\ \A k \in 1..Following(b) : ByteAt(text, i + k) \in Continuation
          /\ Begins(text, next)
      BY <3>2, LeadsFacts DEF CharacterAt, b, next
    <3>4. ByteAt(text, e) \notin Continuation
      BY <2>1, <1>3 DEF GoodUpTo
    <3>5. e >= next
      <4> SUFFICES ASSUME e < next PROVE FALSE
        BY <1>1, <3>1
      <4>1. e - i \in 1..Following(b) /\ i + (e - i) = e
        BY <1>1, <3>1 DEF next
      <4> QED
        BY <3>3, <3>4, <4>1
    <3> QED
      BY <1>1, <2>1, <3>1, <3>3, <3>5 DEF GoodUpTo
  <2>2. ASSUME /\ b \in 0..247 \ Continuation
               /\ \A k \in 1..Following(b) : ByteAt(text, i + k) \in Continuation,
               NEW e \in next..n + 1, GoodUpTo(text, next, e)
        PROVE  e \in i..n + 1 /\ GoodUpTo(text, i, e)
    <3>1. e \in Nat /\ e >= next /\ e \in i..n + 1
      BY <1>1, <2>2
    <3>2. CharacterAt(text, i) /\ Begins(text, i)
      BY <1>1, <1>5, <2>2, LeadsFacts DEF CharacterAt, GoodUpTo, Begins, b, next
    <3>3. ASSUME NEW j \in i..e - 1
          PROVE  ByteAt(text, j) # 0 /\ (Begins(text, j) => CharacterAt(text, j))
      <4>1. CASE j = i
        BY <4>1, <3>2, <1>5 DEF b
      <4>2. CASE j > i /\ j < next
        <5>1. j - i \in 1..Following(b) /\ i + (j - i) = j
          BY <1>1, <3>1, <4>2 DEF next
        <5>2. ByteAt(text, j) \in Continuation
          BY <5>1, <2>2
        <5> QED
          BY <5>2, <1>3 DEF Begins
      <4>3. CASE j >= next
        BY <4>3, <2>2, <1>1, <3>1 DEF GoodUpTo
      <4> QED
        BY <4>1, <4>2, <4>3, <1>1, <3>1
    <3> QED
      BY <2>2, <3>1, <3>2, <3>3 DEF GoodUpTo
  <2>3. Good(text, i) <=> \E e \in i..n + 1 : GoodUpTo(text, i, e)
    BY DEF Good, n
  <2>4. Good(text, next) <=> \E e \in next..n + 1 : GoodUpTo(text, next, e)
    BY DEF Good, n
  <2> QED
    BY <1>5, <2>1, <2>2, <2>3, <2>4 DEF b, next
<1> QED
  BY <1>4, <1>5

\* valid_utf8 is defined from the end of the text on; at each position it says
\* whether the text is good from there.
LEMMA ValidIsGood ==
    ASSUME NEW text \in Seq(0..255)
    PROVE  valid_utf8(text) <=> Good(text, 1)
<1> DEFINE n == Len(text)
           Body(f, i) == \/ ByteAt(text, i) = 0
                         \/ /\ ByteAt(text, i) \in 0..247 \ Continuation
                            /\ \A k \in 1..Following(text[i]) : ByteAt(text, i + k) \in Continuation
                            /\ f[i + Following(text[i]) + 1]
           IsValid(f) == f = [i \in 1..n + 1 |-> Body(f, i)]
           G == [i \in 1..n + 1 |-> Good(text, i)]
           f == CHOOSE g : IsValid(g)
<1>1. valid_utf8(text) = f[1]
  BY DEF valid_utf8
<1>2. n \in Nat
  OBVIOUS
<1>3. ASSUME NEW i \in 1..n + 1, ByteAt(text, i) # 0,
             \A k \in 1..Following(text[i]) : ByteAt(text, i + k) \in Continuation
      PROVE  /\ text[i] = ByteAt(text, i) /\ Following(text[i]) \in 0..3
             /\ i + Following(text[i]) + 1 \in 1..n + 1
  <2>1. i \in Nat /\ i >= 1 /\ i <= n /\ text[i] = ByteAt(text, i) /\ Following(text[i]) \in 0..3
    BY <1>3, ByteFacts
  <2>2. CASE Following(text[i]) = 0
    BY <2>1, <2>2
  <2>3. CASE Following(text[i]) # 0
    <3>1. ByteAt(text, i + Following(text[i])) \in Continuation
      BY <2>1, <2>3, <1>3
    <3>2. ByteAt(text, i + Following(text[i])) # 0
      BY <3>1, NoContinuation
    <3>3. i + Following(text[i]) \in Nat /\ i + Following(text[i]) >= 1
      BY <2>1
    <3>4. i + Following(text[i]) <= n
      BY <3>2, <3>3, ByteFacts
    <3> QED
      BY <2>1, <3>4
  <2> QED
    BY <2>2, <2>3
<1>4. IsValid(G)
  <2>1. ASSUME NEW i \in 1..n + 1 PROVE Good(text, i) <=> Body(G, i)
    <3>1. CASE ByteAt(text, i) = 0
      BY <3>1, GoodGoesOn
    <3>2. CASE ByteAt(text, i) # 0
      <4>1. i \in Nat /\ i >= 1 /\ i <= n /\ text[i] = ByteAt(text, i)
        BY <3>2, ByteFacts
      <4>2. Good(text, i) <=>
              /\ ByteAt(text, i) \in 0..247 \ Continuation
              /\ \A k \in 1..Following(text[i]) : ByteAt(text, i + k) \in Continuation
              /\ Good(text, i + Following(text[i]) + 1)
        BY <3>2, <4>1, GoodGoesOn
      <4>3. (\A k \in 1..Following(text[i]) : ByteAt(text, i + k) \in Continuation)
              => (G[i + Following(text[i]) + 1] <=> Good(text, i + Following(text[i]) + 1))
        BY <3>2, <1>3
      <4> HIDE DEF G
      <4> QED
        BY <3>2, <4>2, <4>3
    <3> QED
      BY <3>1, <3>2
  <2>2. \A i \in 1..n + 1 : Good(text, i) \in BOOLEAN
    BY DEF Good
  <2>3. \A i \in 1..n + 1 : Good(text, i) = Body(G, i)
    BY <2>1, <2>2
  <2> HIDE DEF Body
  <2> QED
    BY <2>3
<1>5. IsValid(f)
  <2> HIDE DEF IsValid, G
  <2> QED
    BY <1>4
<1> HIDE DEF f
<1>6. \A i \in 1..n + 1 : f[i] = Body(f, i) /\ G[i] = Body(G, i)
  <2>1. f = [i \in 1..n + 1 |-> Body(f, i)] /\ G = [i \in 1..n + 1 |-> Body(G, i)]
    BY <1>4, <1>5
  <2> HIDE DEF Body, G
  <2> QED
    BY <2>1
<1> HIDE DEF IsValid
<1> DEFINE P == {m \in Nat : \A i \in 1..n + 1 : n + 1 - i <= m => f[i] = G[i]}
<1>7. 0 \in P
  <2>1. ASSUME NEW i \in 1..n + 1, n + 1 - i <= 0 PROVE f[i] = G[i]
    <3>1. i \in Nat /\ i > n /\ i >= 1
      BY <1>2, <2>1
    <3>2. ByteAt(text, i) = 0
      BY <3>1, ByteFacts
    <3>3. Body(f, i) /\ Body(G, i)
      BY <3>2
    <3>a. Body(f, i) = Body(G, i)
      BY <3>3
    <3> HIDE DEF Body, G
    <3> QED
      BY <3>a, <1>6
  <2> QED
    BY <2>1
<1>8. ASSUME NEW m \in Nat, m \in P PROVE m + 1 \in P
  <2>1. ASSUME NEW i \in 1..n + 1, n + 1 - i <= m + 1 PROVE f[i] = G[i]
    <3>1. (/\ ByteAt(text, i) # 0
           /\ \A k \in 1..Following(text[i]) : ByteAt(text, i + k) \in Continuation)
            => f[i + Following(text[i]) + 1] = G[i + Following(text[i]) + 1]
      <4> HAVE /\ ByteAt(text, i) # 0
               /\ \A k \in 1..Following(text[i]) : ByteAt(text, i + k) \in Continuation
      <4>1. Following(text[i]) \in 0..3 /\ i + Following(text[i]) + 1 \in 1..n + 1
        BY <1>3
      <4>2. n + 1 - (i + Following(text[i]) + 1) <= m
        BY <4>1, <2>1, <1>2, <1>8
      <4> HIDE DEF G
      <4> QED
        BY <4>1, <4>2, <1>8
    <3> HIDE DEF G
    <3>2. Body(f, i) <=> Body(G, i)
      BY <3>1
    <3>3. Body(f, i) \in BOOLEAN /\ Body(G, i) \in BOOLEAN
      OBVIOUS
    <3>4. Body(f, i) = Body(G, i)
      BY <3>2, <3>3
    <3> HIDE DEF Body
    <3> QED
      BY <3>4, <1>6
  <2> HIDE DEF G
  <2> QED
    BY <2>1
<1>9. Nat \subseteq P
  <2> HIDE DEF P
  <2> QED
    BY <1>7, <1>8, SetInduction
<1>10. f[1] = G[1]
  <2>1. 1 \in 1..n + 1 /\ n + 1 - 1 <= n
    BY <1>2
  <2>2. n \in P
    <3> HIDE DEF P
    <3> QED
      BY <1>9, <1>2
  <2> HIDE DEF G
  <2> QED
    BY <2>1, <2>2
<1> QED
  BY <1>1, <1>2, <1>10

-----------------------------------------------------------------------------
(* Pieces of texts *)

\* The bytes i..e - 1 fall into characters, and another one or the end may follow.
Block(text, i, e) ==
    /\ Begins(text, i)
    /\ Begins(text, e)
    /\ \A j \in i..e - 1 : ByteAt(text, j) # 0 /\ (Begins(text, j) => CharacterAt(text, j))

\* A character keeps fitting when it is moved together with what is before e.
LEMMA CharacterMoves ==
    ASSUME NEW text \in Seq(0..255), NEW other \in Seq(0..255),
           NEW j \in Nat, NEW i \in Nat, NEW e \in Nat, 1 <= j, 1 <= i, j < e,
           Begins(text, e), Begins(other, i + (e - j)),
           \A q \in 0..e - j - 1 : ByteAt(other, i + q) = ByteAt(text, j + q),
           CharacterAt(text, j)
    PROVE  CharacterAt(other, i)
<1> DEFINE b == ByteAt(text, j)
           F == Following(b)
<1>1. b \in 0..255 /\ F \in 0..3
  BY ByteFacts
<1>2. ByteAt(other, i) = b
  <2>1. 0 \in 0..e - j - 1 /\ i + 0 = i /\ j + 0 = j
    OBVIOUS
  <2> QED
    BY <2>1
<1>3. /\ Leads(b)
      /\ \A k \in 1..F : ByteAt(text, j + k) \in Continuation
      /\ Begins(text, j + F + 1)
  BY DEF CharacterAt
<1> HIDE DEF b, F
<1>4. F < e - j
  <2> SUFFICES ASSUME e - j <= F PROVE FALSE
    BY <1>1
  <2>1. e - j \in 1..F /\ j + (e - j) = e
    BY <1>1
  <2> QED
    BY <1>3, <2>1 DEF Begins
<1>5. ASSUME NEW k \in 1..F PROVE ByteAt(other, i + k) \in Continuation
  <2>1. k \in 0..e - j - 1
    BY <1>1, <1>4
  <2> QED
    BY <2>1, <1>3
<1>6. Begins(other, i + F + 1)
  <2>1. CASE F + 1 = e - j
    BY <2>1, <1>1
  <2>2. CASE F + 1 # e - j
    <3>1. F + 1 \in 0..e - j - 1 /\ i + (F + 1) = i + F + 1 /\ j + (F + 1) = j + F + 1
      BY <2>2, <1>1, <1>4
    <3>2. ByteAt(other, i + (F + 1)) = ByteAt(text, j + (F + 1))
      BY <3>1
    <3> QED
      BY <3>1, <3>2, <1>3 DEF Begins
  <2> QED
    BY <2>1, <2>2
<1> QED
  BY <1>2, <1>3, <1>5, <1>6 DEF CharacterAt, F

\* So does a piece of whole characters: len bytes from j on are those from i on.
Copied(text, j, other, i, len) == \A q \in 0..len - 1 : ByteAt(other, i + q) = ByteAt(text, j + q)

LEMMA BlockMoves ==
    ASSUME NEW text \in Seq(0..255), NEW other \in Seq(0..255),
           NEW j \in Nat, NEW i \in Nat, NEW len \in Nat, 1 <= j, 1 <= i,
           Block(text, j, j + len), Begins(other, i + len), Copied(text, j, other, i, len)
    PROVE  Block(other, i, i + len)
<1> DEFINE e == j + len
<1>a. e \in Nat /\ j <= e /\ i + (e - j) = i + len /\ Block(text, j, e) /\ Begins(other, i + (e - j))
  OBVIOUS
<1>b. \A q \in 0..e - j - 1 : ByteAt(other, i + q) = ByteAt(text, j + q)
  <2>1. e - j - 1 = len - 1
    OBVIOUS
  <2> QED
    BY <2>1 DEF Copied
<1> HIDE DEF e
<1>1. Begins(other, i)
  <2>1. CASE j = e
    BY <2>1, <1>a
  <2>2. CASE j < e
    <3>1. 0 \in 0..e - j - 1 /\ i + 0 = i /\ j + 0 = j
      BY <2>2, <1>a
    <3>2. ByteAt(other, i + 0) = ByteAt(text, j + 0)
      BY <3>1, <1>b
    <3> QED
      BY <3>1, <3>2, <1>a DEF Block, Begins
  <2> QED
    BY <2>1, <2>2, <1>a
<1>2. ASSUME NEW p \in i..i + (e - j) - 1
      PROVE  ByteAt(other, p) # 0 /\ (Begins(other, p) => CharacterAt(other, p))
  <2> DEFINE r == p - i
             o == j + r
  <2>1. r \in 0..e - j - 1 /\ p = i + r /\ r \in Nat /\ o \in j..e - 1 /\ o \in Nat /\ o = j + r /\ o >= 1 /\ o < e
        /\ p \in Nat /\ p >= 1 /\ p + (e - o) = i + (e - j)
    BY <1>a
  <2> HIDE DEF r, o
  <2>2. ByteAt(other, p) = ByteAt(text, o)
    BY <2>1, <1>b
  <2>3. ByteAt(text, o) # 0 /\ (Begins(text, o) => CharacterAt(text, o)) /\ Begins(text, e)
    BY <2>1, <1>a DEF Block
  <2>4. ASSUME NEW q \in 0..e - o - 1 PROVE ByteAt(other, p + q) = ByteAt(text, o + q)
    <3>1. r + q \in 0..e - j - 1 /\ i + (r + q) = p + q /\ j + (r + q) = o + q
      BY <2>1, <1>a
    <3>2. ByteAt(other, i + (r + q)) = ByteAt(text, j + (r + q))
      BY <3>1, <1>b
    <3> QED
      BY <3>1, <3>2
  <2>5. Begins(other, p + (e - o))
    BY <2>1, <1>a
  <2>6. CharacterAt(text, o) => CharacterAt(other, p)
    BY <1>a, <2>1, <2>3, <2>4, <2>5, CharacterMoves
  <2> QED
    BY <2>2, <2>3, <2>6 DEF Begins
<1> QED
  BY <1>1, <1>2, <1>a DEF Block

\* Pieces can be put together, and cut where a character begins.
LEMMA BlocksJoin ==
    ASSUME NEW text, NEW i \in Nat, NEW m \in Nat, NEW e \in Nat, i <= m, m <= e,
           Block(text, i, m), Block(text, m, e)
    PROVE  Block(text, i, e)
BY DEF Block

\* The converse.
LEMMA BlockParts ==
    ASSUME NEW text, NEW i \in Nat, NEW m \in Nat, NEW e \in Nat, i <= m, m <= e,
           Block(text, i, e), Begins(text, m)
    PROVE  Block(text, i, m) /\ Block(text, m, e)
BY DEF Block

\* A text good up to a zero is a piece that ends there.
LEMMA GoodIsBlock ==
    ASSUME NEW text \in Seq(0..255), NEW i \in Nat, NEW e \in Nat, 1 <= i, i <= e
    PROVE  GoodUpTo(text, i, e) <=> ByteAt(text, e) = 0 /\ Block(text, i, e)
BY ByteFacts DEF GoodUpTo, Block

\* Where the text up to its first zero ends.
LEMMA UpToZeroIs ==
    ASSUME NEW text \in Seq(0..255)
    PROVE  \E e \in 1..Len(text) + 1 :
              /\ ByteAt(text, e) = 0
              /\ \A j \in 1..e - 1 : ByteAt(text, j) # 0 /\ UpToZero(text)[j] = text[j]
              /\ UpToZero(text) \in Seq(0..255)
              /\ Len(UpToZero(text)) = e - 1
<1> DEFINE n == Len(text)
           zeros == {i \in DOMAIN text : text[i] = 0}
<1>1. n \in Nat /\ DOMAIN text = 1..n
  OBVIOUS
<1>2. \A j \in Nat : j >= 1 => (j > n => ByteAt(text, j) = 0) /\ (j <= n => ByteAt(text, j) = text[j])
  BY ByteFacts
<1>3. UpToZero(text) = IF zeros = {} THEN text ELSE SubSeq(text, 1, Min(zeros) - 1)
  BY DEF UpToZero
<1>4. CASE zeros = {}
  <2>1. UpToZero(text) = text
    BY <1>3, <1>4
  <2>2. n + 1 \in Nat /\ n + 1 >= 1 /\ n + 1 > n
    BY <1>1
  <2>3. ByteAt(text, n + 1) = 0
    BY <1>2, <2>2
  <2>4. \A j \in 1..n : ByteAt(text, j) # 0
    BY <1>1, <1>2, <1>4
  <2>5. n + 1 \in 1..n + 1 /\ (n + 1) - 1 = n
    BY <1>1
  <2> QED
    BY <2>1, <2>3, <2>4, <2>5
<1>5. CASE zeros # {}
  <2>1. zeros \in SUBSET Nat
    BY <1>1
  <2> DEFINE e == Min(zeros)
  <2>2. e \in zeros /\ \A m \in zeros : e <= m
    <3> HIDE DEF zeros
    <3> QED
      BY <1>5, <2>1, MinFacts
  <2>3. UpToZero(text) = SubSeq(text, 1, e - 1)
    BY <1>3, <1>5
  <2> HIDE DEF e
  <2>4. e \in Nat /\ e >= 1 /\ e <= n /\ text[e] = 0
    BY <2>2, <1>1
  <2>5. \A j \in 1..e - 1 : j \in 1..n /\ text[j] # 0
    BY <2>2, <2>4, <1>1
  <2>6. ByteAt(text, e) = 0 /\ \A j \in 1..e - 1 : ByteAt(text, j) # 0
    BY <2>4, <2>5, <1>2
  <2>7. /\ SubSeq(text, 1, e - 1) \in Seq(0..255)
        /\ Len(SubSeq(text, 1, e - 1)) = e - 1
        /\ \A j \in 1..e - 1 : SubSeq(text, 1, e - 1)[j] = text[j]
    <3> DEFINE B == 0..255
    <3>1. text \in Seq(B)
      OBVIOUS
    <3> HIDE DEF B
    <3>2. /\ SubSeq(text, 1, e - 1) \in Seq(B)
          /\ Len(SubSeq(text, 1, e - 1)) = e - 1
          /\ \A j \in 1..e - 1 : SubSeq(text, 1, e - 1)[j] = text[j]
      BY <3>1, <2>4, <1>1
    <3> QED
      BY <3>2 DEF B
  <2>8. e \in 1..n + 1
    BY <2>4, <1>1
  <2> QED
    BY <2>3, <2>6, <2>7, <2>8
<1> QED
  BY <1>4, <1>5

\* The next cut is the least one after a cut.
LEMMA CutFacts ==
    ASSUME NEW text \in Seq(0..255), NEW i \in Cuts(text) \ {Len(text) + 1}
    PROVE  /\ i \in 1..Len(text) /\ NextCut(text, i) \in Cuts(text) /\ i < NextCut(text, i)
           /\ NextCut(text, i) \in 1..Len(text) + 1
           /\ \A j \in Cuts(text) : i < j => NextCut(text, i) <= j
<1> DEFINE n == Len(text)
           after == {j \in Cuts(text) : i < j}
<1>1. n \in Nat /\ DOMAIN text = 1..n
  OBVIOUS
<1>2. Cuts(text) = {j \in 1..n : text[j] \notin Continuation} \cup {n + 1}
  BY <1>1 DEF Cuts
<1>3. i \in 1..n /\ Cuts(text) \subseteq 1..n + 1 /\ n + 1 \in Cuts(text)
  BY <1>1, <1>2
<1>4. after \in SUBSET Nat /\ n + 1 \in after
  BY <1>1, <1>3
<1>5. NextCut(text, i) = Min(after)
  BY DEF NextCut
<1>6. Min(after) \in after /\ \A j \in after : Min(after) <= j
  <2> HIDE DEF after
  <2> QED
    BY <1>4, MinFacts
<1> QED
  BY <1>3, <1>5, <1>6

\* A cut is where a character or the end may begin.
LEMMA CutsBegin ==
    ASSUME NEW text \in Seq(0..255)
    PROVE  /\ \A j \in 1..Len(text) + 1 : j \in Cuts(text) <=> Begins(text, j)
           /\ Len(text) \in Nat /\ 1 \in 1..Len(text) + 1
           /\ Begins(text, Len(text) + 1) /\ ByteAt(text, Len(text) + 1) = 0
<1> DEFINE n == Len(text)
<1>1. n \in Nat /\ DOMAIN text = 1..n
  OBVIOUS
<1>2. \A j \in Nat : j >= 1 => /\ (j > n => ByteAt(text, j) = 0)
                               /\ (j <= n => ByteAt(text, j) = text[j])
                               /\ (ByteAt(text, j) = 0 => Begins(text, j))
  BY ByteFacts
<1>3. Cuts(text) = {j \in 1..n : text[j] \notin Continuation} \cup {n + 1}
  BY <1>1 DEF Cuts
<1>4. n + 1 \in Nat /\ n + 1 >= 1 /\ n + 1 > n
  BY <1>1
<1>5. ByteAt(text, n + 1) = 0 /\ Begins(text, n + 1)
  BY <1>2, <1>4
<1>6. ASSUME NEW j \in 1..n + 1 PROVE j \in Cuts(text) <=> Begins(text, j)
  <2>1. CASE j = n + 1
    BY <2>1, <1>3, <1>5
  <2>2. CASE j # n + 1
    <3>1. j \in 1..n /\ j \in Nat /\ j >= 1 /\ j <= n
      BY <2>2, <1>1
    <3> QED
      BY <2>2, <3>1, <1>2, <1>3 DEF Begins
  <2> QED
    BY <2>1, <2>2
<1> QED
  BY <1>1, <1>5, <1>6

\* A character of one byte.
LEMMA OneByte ==
    \A b \in 1..127 : b \notin Continuation /\ Following(b) = 0 /\ b # 0 /\ Leads(b)
BY DEF Continuation, Following, Leads

\* What stands between two cuts is a character iff it fits.
LEMMA CharacterStands ==
    ASSUME NEW text \in Seq(0..255), NEW i \in Cuts(text) \ {Len(text) + 1}
    PROVE  Character(SubSeq(text, i, NextCut(text, i) - 1)) <=> CharacterAt(text, i)
<1> DEFINE n == Len(text)
           m == NextCut(text, i)
           s == SubSeq(text, i, m - 1)
           b == ByteAt(text, i)
           F == Following(b)
<1>1. /\ i \in 1..n /\ m \in Cuts(text) /\ i < m /\ m \in 1..n + 1 /\ n \in Nat
      /\ \A j \in Cuts(text) : i < j => m <= j
  BY CutFacts
<1> HIDE DEF m
<1>2. Len(s) = m - i /\ \A k \in 1..m - i : s[k] = text[i + k - 1]
  BY <1>1
<1> HIDE DEF s
<1>3. \A j \in 1..n + 1 : j \in Cuts(text) <=> Begins(text, j)
  BY CutsBegin
<1>4. \A j \in Nat : j >= 1 => /\ (j > n => ByteAt(text, j) = 0)
                               /\ (j <= n => ByteAt(text, j) = text[j])
  BY ByteFacts
<1>5. b \in 0..255 /\ F \in 0..3 /\ s[1] = b
  <2>1. s[1] = text[i]
    <3>1. 1 \in 1..m - i /\ i + 1 - 1 = i
      BY <1>1
    <3>2. \A k \in 1..m - i : s[k] = text[i + k - 1]
      BY <1>2
    <3>3. s[1] = text[i + 1 - 1]
      BY <3>1, <3>2
    <3> QED
      BY <3>1, <3>3
  <2> QED
    BY <1>1, <1>4, <2>1, ByteFacts
<1>6. \A j \in i + 1..m - 1 : ByteAt(text, j) \in Continuation
  BY <1>1, <1>3 DEF Begins
<1>7. Begins(text, m)
  BY <1>1, <1>3
<1>a. F = Following(b)
  OBVIOUS
<1> HIDE DEF b, F
<1>8. Character(s) <=> /\ Leads(b) /\ F = m - i - 1
                       /\ \A k \in 2..m - i : s[k] \in Continuation
  <2> DEFINE D == m - i
  <2>1. D \in Int /\ m - i - 1 = D - 1
    BY <1>1
  <2>2. /\ b \in 1..127 <=> Leads(b) /\ F = 0
        /\ b \in 192..223 <=> Leads(b) /\ F = 1
        /\ b \in 224..239 <=> Leads(b) /\ F = 2
        /\ b \in 240..247 <=> Leads(b) /\ F = 3
    BY <1>5, <1>a DEF Following, Leads, Continuation
  <2> HIDE DEF D
  <2>3. (\/ D = 1 /\ b \in 1..127
         \/ D = 2 /\ b \in 192..223
         \/ D = 3 /\ b \in 224..239
         \/ D = 4 /\ b \in 240..247) <=> Leads(b) /\ F = D - 1
    <3>1. F \in Int /\ (F = D - 1 <=> D = F + 1) /\ (F = 0 \/ F = 1 \/ F = 2 \/ F = 3)
      BY <2>1, <1>5
    <3>2. (Leads(b) /\ F = 0 /\ D = 1) <=> (D = 1 /\ b \in 1..127)
      BY <2>2
    <3>3. (Leads(b) /\ F = 1 /\ D = 2) <=> (D = 2 /\ b \in 192..223)
      BY <2>2
    <3>4. (Leads(b) /\ F = 2 /\ D = 3) <=> (D = 3 /\ b \in 224..239)
      BY <2>2
    <3>5. (Leads(b) /\ F = 3 /\ D = 4) <=> (D = 4 /\ b \in 240..247)
      BY <2>2
    <3>6. (F = D - 1) <=> (F = 0 /\ D = 1) \/ (F = 1 /\ D = 2) \/ (F = 2 /\ D = 3) \/ (F = 3 /\ D = 4)
      BY <2>1, <3>1
    <3> QED
      BY <3>2, <3>3, <3>4, <3>5, <3>6
  <2> QED
    BY <2>1, <2>3, <1>2, <1>5 DEF Character, D
<1>9. \A k \in 2..m - i : s[k] \in Continuation
  <2> SUFFICES ASSUME NEW k \in 2..m - i PROVE s[k] \in Continuation
    OBVIOUS
  <2>1. i + k - 1 \in i + 1..m - 1 /\ i + k - 1 \in Nat /\ i + k - 1 >= 1 /\ i + k - 1 <= n
    BY <1>1
  <2>2. s[k] = text[i + k - 1]
    BY <1>1, <1>2
  <2> QED
    BY <2>1, <2>2, <1>4, <1>6
<1>10. ASSUME CharacterAt(text, i) PROVE F = m - i - 1
  <2>1. /\ \A k \in 1..F : ByteAt(text, i + k) \in Continuation
        /\ Begins(text, i + F + 1)
    BY <1>10 DEF CharacterAt, b, F
  <2>2. F < m - i
    <3> SUFFICES ASSUME m - i <= F PROVE FALSE
      BY <1>1, <1>5
    <3>1. m - i \in 1..F /\ i + (m - i) = m
      BY <1>1, <1>5
    <3> QED
      BY <2>1, <3>1, <1>7 DEF Begins
  <2>3. m <= i + F + 1
    <3> SUFFICES ASSUME i + F + 1 < m PROVE FALSE
      BY <1>1, <1>5
    <3>1. i + F + 1 \in i + 1..m - 1
      BY <1>1, <1>5
    <3> QED
      BY <2>1, <3>1, <1>6 DEF Begins
  <2> QED
    BY <2>2, <2>3, <1>1, <1>5
<1>11. ASSUME F = m - i - 1, Leads(b) PROVE CharacterAt(text, i)
  <2>1. \A k \in 1..F : i + k \in i + 1..m - 1
    BY <1>1, <1>11
  <2>2. i + F + 1 = m
    BY <1>1, <1>11
  <2> QED
    BY <2>1, <2>2, <1>6, <1>7, <1>11 DEF CharacterAt, b, F
<1>12. CharacterAt(text, i) => Leads(b)
  BY DEF CharacterAt, b
<1> QED
  BY <1>8, <1>9, <1>10, <1>11, <1>12 DEF s, m

\* The definition by cuts and that by position agree.
LEMMA WholeIsBlock ==
    ASSUME NEW text \in Seq(0..255)
    PROVE  Whole(text) <=> Block(text, 1, Len(text) + 1)
<1> DEFINE n == Len(text)
<1>1. /\ \A j \in 1..n + 1 : j \in Cuts(text) <=> Begins(text, j)
      /\ n \in Nat /\ 1 \in 1..n + 1 /\ Begins(text, n + 1)
  BY CutsBegin
<1>2. \A i \in Cuts(text) \ {n + 1} : i \in 1..n
  BY CutFacts
<1>3. Whole(text) <=> 1 \in Cuts(text) /\ \A i \in Cuts(text) \ {n + 1} : CharacterAt(text, i)
  BY CharacterStands DEF Whole
<1> HIDE DEF n
<1>4. \A i \in 1..n : (~Begins(text, i) => ByteAt(text, i) # 0) /\ (CharacterAt(text, i) => ByteAt(text, i) # 0)
  <2> SUFFICES ASSUME NEW i \in 1..n
               PROVE  (~Begins(text, i) => ByteAt(text, i) # 0) /\ (CharacterAt(text, i) => ByteAt(text, i) # 0)
    OBVIOUS
  <2>1. CharacterAt(text, i) => ByteAt(text, i) # 0
    BY LeadsFacts DEF CharacterAt
  <2>2. ~Begins(text, i) => ByteAt(text, i) \in Continuation
    BY DEF Begins
  <2>3. ~Begins(text, i) => ByteAt(text, i) # 0
    BY <2>2, NoContinuation
  <2> QED
    BY <2>1, <2>3
<1>5. \A i \in 1..n : i \in Cuts(text) \ {n + 1} <=> Begins(text, i)
  BY <1>1
<1>6. 1..n + 1 - 1 = 1..n
  BY <1>1
<1>7. Block(text, 1, n + 1) <=>
        Begins(text, 1) /\ \A j \in 1..n : ByteAt(text, j) # 0 /\ (Begins(text, j) => CharacterAt(text, j))
  BY <1>1, <1>6 DEF Block
<1> QED
  BY <1>1, <1>2, <1>3, <1>4, <1>5, <1>7 DEF n

\* An argument passes iff it falls into characters.
LEMMA PassesIffWhole ==
    ASSUME NEW text \in Seq(0..255)
    PROVE  valid_utf8(text) <=> Whole(UpToZero(text))
<1> DEFINE n == Len(text)
           t == UpToZero(text)
<1>1. PICK e \in 1..n + 1 :
              /\ ByteAt(text, e) = 0
              /\ \A j \in 1..e - 1 : ByteAt(text, j) # 0 /\ t[j] = text[j]
              /\ t \in Seq(0..255)
              /\ Len(t) = e - 1
  BY UpToZeroIs
<1> HIDE DEF t
<1>2. n \in Nat /\ e \in Nat /\ e >= 1 /\ e <= n + 1
  OBVIOUS
<1>3. \A j \in 1..e : ByteAt(t, j) = ByteAt(text, j)
  <2> SUFFICES ASSUME NEW j \in 1..e PROVE ByteAt(t, j) = ByteAt(text, j)
    OBVIOUS
  <2>1. CASE j = e
    <3>1. j > Len(t)
      BY <2>1, <1>1, <1>2
    <3> QED
      BY <2>1, <3>1, <1>1, <1>2, ByteFacts
  <2>2. CASE j # e
    <3>1. j \in 1..e - 1 /\ j \in Nat /\ j >= 1 /\ j <= Len(t) /\ j <= Len(text)
      BY <2>2, <1>1, <1>2
    <3> QED
      BY <3>1, <1>1, ByteFacts
  <2> QED
    BY <2>1, <2>2
<1>4. Good(text, 1) <=> GoodUpTo(text, 1, e)
  <2>1. ASSUME NEW d \in 1..n + 1, GoodUpTo(text, 1, d) PROVE d = e
    <3>1. ByteAt(text, d) = 0 /\ \A j \in 1..d - 1 : ByteAt(text, j) # 0
      BY <2>1 DEF GoodUpTo
    <3>2. ~(d \in 1..e - 1) /\ ~(e \in 1..d - 1)
      BY <1>1, <3>1
    <3> QED
      BY <3>2, <1>2
  <2> QED
    BY <2>1, <1>2 DEF Good
<1>5. GoodUpTo(text, 1, e) <=> Block(text, 1, e)
  BY <1>1, <1>2, GoodIsBlock
<1>6. Begins(text, e) /\ Begins(t, e)
  <2>1. ByteAt(t, e) = 0
    BY <1>1, <1>2, <1>3
  <2> QED
    BY <1>1, <1>2, <2>1, ByteFacts
<1>7. Copied(t, 1, text, 1, e - 1) /\ Copied(text, 1, t, 1, e - 1) /\ 1 + (e - 1) = e /\ e - 1 \in Nat
  <2>1. \A q \in 0..e - 1 - 1 : 1 + q \in 1..e
    BY <1>2
  <2> QED
    BY <2>1, <1>2, <1>3 DEF Copied
<1>8. Block(text, 1, e) => Block(t, 1, e)
  BY <1>1, <1>2, <1>6, <1>7, BlockMoves
<1>9. Block(t, 1, e) => Block(text, 1, e)
  BY <1>1, <1>2, <1>6, <1>7, BlockMoves
<1>10. Whole(t) <=> Block(t, 1, e)
  <2>1. Len(t) + 1 = e
    BY <1>1, <1>2
  <2>2. Whole(t) <=> Block(t, 1, Len(t) + 1)
    BY <1>1, WholeIsBlock
  <2> QED
    BY <2>1, <2>2
<1> QED
  BY <1>4, <1>5, <1>8, <1>9, <1>10, ValidIsGood DEF t

-----------------------------------------------------------------------------
(* The log *)

\* Marks of the log in place of white space leave the pieces alone.
LEMMA MappedBlock ==
    ASSUME NEW text \in Seq(0..255), Block(text, 1, Len(text) + 1)
    PROVE  LET mapped == [i \in DOMAIN text |-> Mapped(text[i])]
           IN  /\ mapped \in Seq(0..255) /\ Len(mapped) = Len(text)
               /\ Block(mapped, 1, Len(text) + 1)
               /\ \A i \in DOMAIN mapped : mapped[i] \notin {9, 10}
<1> DEFINE n == Len(text)
           mapped == [i \in DOMAIN text |-> Mapped(text[i])]
<1>1. n \in Nat /\ DOMAIN text = 1..n /\ \A i \in 1..n : text[i] \in 0..255
  <2> DEFINE B == 0..255
  <2>1. text \in Seq(B)
    OBVIOUS
  <2> HIDE DEF B
  <2>2. n \in Nat /\ DOMAIN text = 1..n /\ \A i \in 1..n : text[i] \in B
    BY <2>1
  <2> QED
    BY <2>2 DEF B
<1>a. \A b \in 0..255 : Mapped(b) \in 0..255
  BY DEF Mapped
<1>b. \A b \in 0..255 : Mapped(b) \notin {9, 10}
  BY DEF Mapped
<1>c. \A b \in 0..255 : Mapped(b) = b \/ (b \in 1..127 /\ Mapped(b) \in 1..127)
  BY DEF Mapped
<1>3. mapped = [i \in 1..n |-> Mapped(text[i])]
  BY <1>1
<1> HIDE DEF mapped
<1>4. mapped \in Seq(0..255) /\ Len(mapped) = n /\ DOMAIN mapped = 1..n
      /\ \A i \in 1..n : mapped[i] = Mapped(text[i])
  <2> DEFINE B == 0..255
  <2>1. \A i \in 1..n : Mapped(text[i]) \in B
    BY <1>1, <1>a, Zenon
  <2> HIDE DEF B
  <2>2. mapped \in Seq(B) /\ Len(mapped) = n /\ DOMAIN mapped = 1..n
        /\ \A i \in 1..n : mapped[i] = Mapped(text[i])
    BY <1>1, <1>3, <2>1
  <2> QED
    BY <2>2 DEF B
<1>5. ASSUME NEW j \in Nat, j >= 1
      PROVE  /\ ByteAt(mapped, j) = Mapped(ByteAt(text, j))
             /\ ByteAt(text, j) \in 0..255
             /\ Begins(mapped, j) <=> Begins(text, j)
             /\ Following(ByteAt(mapped, j)) = Following(ByteAt(text, j))
             /\ ByteAt(mapped, j) = 0 <=> ByteAt(text, j) = 0
             /\ Leads(ByteAt(mapped, j)) <=> Leads(ByteAt(text, j))
  <2>1. ByteAt(mapped, j) = Mapped(ByteAt(text, j)) /\ ByteAt(text, j) \in 0..255
    <3>1. CASE j > n
      <4>1. ByteAt(mapped, j) = 0 /\ ByteAt(text, j) = 0
        BY <3>1, <1>4, <1>5, ByteFacts
      <4>2. Mapped(0) = 0
        BY DEF Mapped
      <4> QED
        BY <4>1, <4>2
    <3>2. CASE j <= n
      <4>1. ByteAt(mapped, j) = mapped[j] /\ ByteAt(text, j) = text[j] /\ j \in 1..n
        BY <3>2, <1>4, <1>5, ByteFacts
      <4> QED
        BY <4>1, <1>1, <1>4
    <3> QED
      BY <3>1, <3>2, <1>1
  <2> DEFINE b == ByteAt(text, j)
             c == ByteAt(mapped, j)
  <2>a. c = Mapped(b) /\ b \in 0..255
    BY <2>1
  <2> HIDE DEF b, c
  <2>2. b = c \/ (b \in 1..127 /\ c \in 1..127)
    <3>1. Mapped(b) = b \/ (b \in 1..127 /\ Mapped(b) \in 1..127)
      BY <2>a, <1>c, Zenon
    <3> QED
      BY <2>a, <3>1, Zenon
  <2> DEFINE Alike == /\ c \in Continuation <=> b \in Continuation
                      /\ Following(c) = Following(b)
                      /\ c = 0 <=> b = 0
                      /\ Leads(c) <=> Leads(b)
  <2>4. ASSUME b = c PROVE Alike
    BY <2>4
  <2>5. ASSUME b \in 1..127 /\ c \in 1..127 PROVE Alike
    <3>1. b \notin Continuation /\ Following(b) = 0 /\ b # 0 /\ Leads(b)
      BY <2>5, OneByte
    <3>2. c \notin Continuation /\ Following(c) = 0 /\ c # 0 /\ Leads(c)
      BY <2>5, OneByte
    <3> QED
      BY <3>1, <3>2
  <2>6. Alike
    BY <2>2, <2>4, <2>5
  <2> QED
    BY <2>1, <2>6 DEF Begins, b, c
<1>6. ASSUME NEW j \in Nat, j >= 1, CharacterAt(text, j) PROVE CharacterAt(mapped, j)
  <2> DEFINE F == Following(ByteAt(text, j))
  <2>1. F \in 0..3
    BY <1>6, ByteFacts
  <2>2. /\ Leads(ByteAt(text, j))
        /\ \A k \in 1..F : ByteAt(text, j + k) \in Continuation
        /\ Begins(text, j + F + 1)
    BY <1>6 DEF CharacterAt
  <2>3. Leads(ByteAt(mapped, j)) /\ Following(ByteAt(mapped, j)) = F
    BY <1>6, <1>5, <2>2
  <2> HIDE DEF F
  <2>4. ASSUME NEW k \in 1..F PROVE ByteAt(mapped, j + k) \in Continuation
    <3>1. j + k \in Nat /\ j + k >= 1
      BY <2>1, <1>6
    <3>2. ByteAt(text, j + k) \in Continuation
      BY <2>2
    <3> QED
      BY <3>1, <3>2, <1>5 DEF Begins
  <2>5. Begins(mapped, j + F + 1)
    <3>1. j + F + 1 \in Nat /\ j + F + 1 >= 1
      BY <2>1, <1>6
    <3> QED
      BY <3>1, <2>2, <1>5
  <2> QED
    BY <2>3, <2>4, <2>5 DEF CharacterAt
<1>7. Block(mapped, 1, n + 1)
  <2> DEFINE e == n + 1
  <2>1. \A j \in 1..e - 1 : j \in Nat /\ j >= 1
    BY <1>1
  <2>2. n + 1 \in Nat /\ n + 1 >= 1
    BY <1>1
  <2> HIDE DEF n
  <2>3. /\ Begins(text, 1) /\ Begins(text, n + 1)
        /\ \A j \in 1..e - 1 : ByteAt(text, j) # 0 /\ (Begins(text, j) => CharacterAt(text, j))
    BY DEF Block, n
  <2>4. Begins(mapped, 1) /\ Begins(mapped, n + 1)
    BY <1>5, <2>2, <2>3
  <2>5. ASSUME NEW j \in 1..e - 1
        PROVE  ByteAt(mapped, j) # 0 /\ (Begins(mapped, j) => CharacterAt(mapped, j))
    <3>1. ByteAt(text, j) # 0 /\ (Begins(text, j) => CharacterAt(text, j)) /\ j \in Nat /\ j >= 1
      BY <2>1, <2>3
    <3>2. ByteAt(mapped, j) # 0 /\ (Begins(mapped, j) <=> Begins(text, j))
      BY <1>5, <3>1
    <3> QED
      BY <1>6, <3>1, <3>2
  <2>6. Begins(mapped, e)
    BY <2>4
  <2> HIDE DEF e
  <2>7. \A j \in 1..e - 1 : ByteAt(mapped, j) # 0 /\ (Begins(mapped, j) => CharacterAt(mapped, j))
    BY <2>5
  <2>8. Block(mapped, 1, e)
    BY <2>4, <2>6, <2>7 DEF Block
  <2> QED
    BY <2>8 DEF e
<1>8. \A i \in DOMAIN mapped : mapped[i] \notin {9, 10}
  <2>1. ASSUME NEW i \in 1..n PROVE mapped[i] \notin {9, 10}
    <3>1. text[i] \in 0..255
      BY <1>1
    <3>2. mapped[i] = Mapped(text[i])
      BY <1>4
    <3>3. Mapped(text[i]) \notin {9, 10}
      BY <3>1, <1>b, Zenon
    <3> QED
      BY <3>2, <3>3
  <2>2. DOMAIN mapped = 1..n
    BY <1>4
  <2> QED
    BY <2>1, <2>2, Zenon
<1> QED
  BY <1>4, <1>7, <1>8 DEF mapped

\* What valid_start accepts does not continue a character.
LEMMA StartBegins == \A b \in 0..255 : valid_start(b) => b \notin Continuation
BY DEF valid_start, Continuation

IsEnd(B, s, r, t) ==
    /\ t \in Seq(B)
    /\ Len(t) = Len(s) - r
    /\ \A q \in 1..Len(s) - r : t[q] = s[r + q]

\* What SubSeq and \o make of two texts.
LEMMA EndFacts ==
    ASSUME NEW B, NEW s \in Seq(B), NEW r \in Nat, r <= Len(s)
    PROVE  IsEnd(B, s, r, SubSeq(s, r + 1, Len(s)))
BY DEF IsEnd

IsFront(B, s, l, t) ==
    /\ t \in Seq(B)
    /\ Len(t) = l
    /\ \A q \in 1..l : t[q] = s[q]

\* The same of the beginning of a text.
LEMMA FrontFacts ==
    ASSUME NEW B, NEW s \in Seq(B), NEW l \in Nat, l <= Len(s)
    PROVE  IsFront(B, s, l, SubSeq(s, 1, l))
BY DEF IsFront

\* The same of two texts put together.
LEMMA JoinFacts ==
    ASSUME NEW B, NEW s \in Seq(B), NEW t \in Seq(B)
    PROVE  /\ s \o t \in Seq(B)
           /\ Len(s \o t) = Len(s) + Len(t)
           /\ \A q \in 1..Len(s) : (s \o t)[q] = s[q]
           /\ \A q \in 1..Len(t) : (s \o t)[Len(s) + q] = t[q]
OBVIOUS

\* A border stops before a first byte or cuts nothing.
LEMMA LeftBorderFacts ==
    ASSUME NEW text \in Seq(0..255), NEW half \in Nat, half < Len(text) \/ half = 0
    PROVE  /\ LeftBorder(text, half) \in 0..half
           /\ LeftBorder(text, half) = 0 \/ Begins(text, LeftBorder(text, half) + 1)
<1> DEFINE S == {0} \cup {b \in 1..half : valid_start(text[b + 1])}
<1>1. S \in SUBSET Nat /\ S # {} /\ \A b \in S : b <= half
  OBVIOUS
<1>2. Max(S) \in S
  <2> HIDE DEF S
  <2> QED
    BY <1>1, MaxFacts
<1>3. LeftBorder(text, half) = Max(S)
  BY DEF LeftBorder
<1> HIDE DEF S
<1> DEFINE c == LeftBorder(text, half)
<1>4. c \in S
  BY <1>2, <1>3
<1> HIDE DEF c
<1>5. c = 0 \/ (c \in 1..half /\ valid_start(text[c + 1]))
  BY <1>4 DEF S
<1>6. CASE c # 0
  <2>1. c + 1 \in Nat /\ c + 1 >= 1 /\ c + 1 <= Len(text) /\ c \in 0..half /\ valid_start(text[c + 1])
    BY <1>5, <1>6
  <2>2. ByteAt(text, c + 1) = text[c + 1] /\ ByteAt(text, c + 1) \in 0..255
    BY <2>1, ByteFacts
  <2>3. Begins(text, c + 1)
    BY <2>1, <2>2, StartBegins DEF Begins
  <2> QED
    BY <2>1, <2>3 DEF c
<1> QED
  BY <1>6 DEF c

\* The same on the other side.
LEMMA RightBorderFacts ==
    ASSUME NEW text \in Seq(0..255), NEW half \in Nat, half <= Len(text)
    PROVE  /\ RightBorder(text, half) \in Len(text) - half..Len(text)
           /\ Begins(text, RightBorder(text, half) + 1)
<1> DEFINE n == Len(text)
           S == {n} \cup {b \in n - half..n - 1 : valid_start(text[b + 1])}
<1>1. n \in Nat
  OBVIOUS
<1>2. S \in SUBSET Nat /\ S # {}
  BY <1>1
<1>3. Min(S) \in S
  <2> HIDE DEF S
  <2> QED
    BY <1>2, MinFacts
<1>4. RightBorder(text, half) = Min(S)
  BY DEF RightBorder
<1> HIDE DEF S
<1> DEFINE c == RightBorder(text, half)
<1>5. c \in S
  BY <1>3, <1>4
<1> HIDE DEF c
<1>6. c = n \/ (c \in n - half..n - 1 /\ valid_start(text[c + 1]))
  BY <1>5 DEF S
<1>7. CASE c = n
  <2>1. Begins(text, n + 1)
    BY CutsBegin
  <2> QED
    BY <2>1, <1>1, <1>7 DEF c
<1>8. CASE c # n
  <2>1. c + 1 \in Nat /\ c + 1 >= 1 /\ c + 1 <= n /\ c \in n - half..n /\ valid_start(text[c + 1])
    BY <1>1, <1>6, <1>8
  <2>2. ByteAt(text, c + 1) = text[c + 1] /\ ByteAt(text, c + 1) \in 0..255
    BY <2>1, ByteFacts
  <2>3. Begins(text, c + 1)
    BY <2>1, <2>2, StartBegins DEF Begins
  <2> QED
    BY <2>1, <2>3 DEF c
<1> QED
  BY <1>7, <1>8

\* The beginning, the dots and the end.
LEMMA CutBlock ==
    ASSUME NEW text \in Seq(0..255), Block(text, 1, Len(text) + 1),
           NEW half \in Nat, 2 * half <= Len(text)
    PROVE  LET left == SubSeq(text, 1, LeftBorder(text, half))
               dots == <<32, 46, 46, 46, 32>>
               right == SubSeq(text, RightBorder(text, half) + 1, Len(text))
               shown == left \o dots \o right
           IN  /\ shown \in Seq(0..255)
               /\ Len(shown) <= 2 * half + 5
               /\ Block(shown, 1, Len(shown) + 1)
<1> DEFINE n == Len(text)
           l == LeftBorder(text, half)
           r == RightBorder(text, half)
           left == SubSeq(text, 1, l)
           dots == <<32, 46, 46, 46, 32>>
           right == SubSeq(text, r + 1, n)
           shown == left \o dots \o right
           m == l + 5 + (n - r)
<1>1. n \in Nat /\ (half < n \/ half = 0)
  OBVIOUS
<1>2. l \in 0..half /\ (l = 0 \/ Begins(text, l + 1))
  BY <1>1, LeftBorderFacts
<1>3. r \in n - half..n /\ Begins(text, r + 1)
  BY RightBorderFacts
<1> HIDE DEF l, r, n
<1>4. n \in Nat /\ l \in Nat /\ r \in Nat /\ l <= n /\ r <= n /\ m \in Nat /\ m <= 2 * half + 5 /\ n - r \in Nat
  BY <1>2, <1>3 DEF n
<1>5. /\ shown \in Seq(0..255) /\ Len(shown) = m
      /\ \A q \in 1..l : shown[q] = text[q]
      /\ shown[l + 1] = 32 /\ shown[l + 2] = 46 /\ shown[l + 3] = 46 /\ shown[l + 4] = 46 /\ shown[l + 5] = 32
      /\ \A q \in 1..n - r : shown[l + 5 + q] = text[r + q]
  <2> DEFINE B == 0..255
  <2>1. text \in Seq(B) /\ dots \in Seq(B) /\ Len(dots) = 5
        /\ dots[1] = 32 /\ dots[2] = 46 /\ dots[3] = 46 /\ dots[4] = 46 /\ dots[5] = 32
    OBVIOUS
  <2> HIDE DEF B, dots
  <2>2. /\ left \in Seq(B) /\ Len(left) = l /\ \A q \in 1..l : left[q] = text[q]
    <3>1. l <= Len(text)
      BY <1>4 DEF n
    <3> HIDE DEF left, right
    <3>2. left = SubSeq(text, 1, l)
      BY DEF left
    <3>3. IsFront(B, text, l, SubSeq(text, 1, l))
      BY <2>1, <1>4, <3>1, FrontFacts
    <3> QED
      BY <3>2, <3>3 DEF IsFront
  <2>3. /\ right \in Seq(B) /\ Len(right) = n - r /\ \A q \in 1..n - r : right[q] = text[r + q]
    <3>1. n = Len(text)
      BY DEF n
    <3> HIDE DEF right
    <3>2. right = SubSeq(text, r + 1, Len(text))
      BY <3>1 DEF right
    <3>3. IsEnd(B, text, r, SubSeq(text, r + 1, Len(text)))
      <4>1. r <= Len(text)
        BY <1>4, <3>1
      <4> QED
        BY <2>1, <1>4, <4>1, EndFacts
    <3> QED
      BY <3>1, <3>2, <3>3 DEF IsEnd
  <2> HIDE DEF left, right
  <2> DEFINE front == left \o dots
  <2>4. /\ front \in Seq(B) /\ Len(front) = l + 5 /\ \A q \in 1..l : front[q] = text[q]
        /\ \A q \in 1..5 : front[l + q] = dots[q]
    <3>1. /\ left \o dots \in Seq(B)
          /\ Len(left \o dots) = Len(left) + Len(dots)
          /\ \A q \in 1..Len(left) : (left \o dots)[q] = left[q]
          /\ \A q \in 1..Len(dots) : (left \o dots)[Len(left) + q] = dots[q]
      <4>1. left \in Seq(B) /\ dots \in Seq(B)
        BY <2>1, <2>2
      <4> QED
        BY <4>1, JoinFacts
    <3> QED
      BY <3>1, <2>1, <2>2
  <2>5. shown = front \o right
    OBVIOUS
  <2> HIDE DEF front, shown
  <2>6. /\ shown \in Seq(B) /\ Len(shown) = m
        /\ \A q \in 1..l + 5 : shown[q] = front[q]
        /\ \A q \in 1..n - r : shown[l + 5 + q] = right[q]
    <3>1. l + 5 + (n - r) = m
      OBVIOUS
    <3> HIDE DEF m
    <3>2. /\ front \o right \in Seq(B)
          /\ Len(front \o right) = Len(front) + Len(right)
          /\ \A q \in 1..Len(front) : (front \o right)[q] = front[q]
          /\ \A q \in 1..Len(right) : (front \o right)[Len(front) + q] = right[q]
      <4>1. front \in Seq(B) /\ right \in Seq(B)
        BY <2>3, <2>4
      <4> QED
        BY <4>1, JoinFacts
    <3> QED
      BY <2>3, <2>4, <2>5, <3>1, <3>2
  <2>7. \A q \in 1..5 : l + q \in 1..l + 5
    BY <1>4
  <2>8. \A q \in 1..l : q \in 1..l + 5
    BY <1>4
  <2>9. \A q \in 1..5 : shown[l + q] = dots[q]
    BY <2>4, <2>6, <2>7
  <2>10. \A q \in 1..l : shown[q] = text[q]
    BY <2>4, <2>6, <2>8
  <2>11. \A q \in 1..n - r : shown[l + 5 + q] = text[r + q]
    BY <2>3, <2>6
  <2>12. shown \in Seq(0..255) /\ Len(shown) = m
    BY <2>6 DEF B
  <2> QED
    BY <2>1, <2>9, <2>10, <2>11, <2>12
<1> HIDE DEF shown, m
<1>6. \A j \in Nat : j >= 1 => /\ (j > n => ByteAt(text, j) = 0)
                               /\ (j <= n => ByteAt(text, j) = text[j])
  BY ByteFacts DEF n
<1>7. \A j \in Nat : j >= 1 => /\ (j > m => ByteAt(shown, j) = 0)
                               /\ (j <= m => ByteAt(shown, j) = shown[j])
                               /\ (ByteAt(shown, j) = 0 => Begins(shown, j))
  BY <1>5, ByteFacts
<1>8. \A q \in 1..l : ByteAt(shown, q) = ByteAt(text, q)
  <2> SUFFICES ASSUME NEW q \in 1..l PROVE ByteAt(shown, q) = ByteAt(text, q)
    OBVIOUS
  <2>1. q \in Nat /\ q >= 1 /\ q <= m /\ q <= n
    BY <1>4 DEF m
  <2> QED
    BY <2>1, <1>5, <1>6, <1>7
<1>9. \A q \in 1..n - r : ByteAt(shown, l + 5 + q) = ByteAt(text, r + q)
  <2> SUFFICES ASSUME NEW q \in 1..n - r PROVE ByteAt(shown, l + 5 + q) = ByteAt(text, r + q)
    OBVIOUS
  <2>1. l + 5 + q \in Nat /\ l + 5 + q >= 1 /\ l + 5 + q <= m /\ r + q \in Nat /\ r + q >= 1 /\ r + q <= n
    BY <1>4 DEF m
  <2> QED
    BY <2>1, <1>5, <1>6, <1>7
<1>10. \A q \in 1..5 : ByteAt(shown, l + q) \in {32, 46}
  <2>1. \A q \in 1..5 : l + q \in Nat /\ l + q >= 1 /\ l + q <= m
    BY <1>4 DEF m
  <2>2. \A q \in 1..5 : shown[l + q] \in {32, 46}
    BY <1>5
  <2> QED
    BY <2>1, <2>2, <1>7
<1>11. Begins(shown, m + 1)
  <2>1. m + 1 \in Nat /\ m + 1 >= 1 /\ m + 1 > m
    BY <1>4
  <2> QED
    BY <2>1, <1>7
<1>12. \A b \in {32, 46} : b \notin Continuation /\ Leads(b) /\ Following(b) = 0 /\ b # 0
  <2>1. \A b \in {32, 46} : b \in 1..127
    OBVIOUS
  <2> QED
    BY <2>1, OneByte
<1>13. \A q \in 1..5 : Begins(shown, l + q) /\ ByteAt(shown, l + q) # 0
  <2> SUFFICES ASSUME NEW q \in 1..5 PROVE Begins(shown, l + q) /\ ByteAt(shown, l + q) # 0
    OBVIOUS
  <2>1. ByteAt(shown, l + q) \in {32, 46}
    BY <1>10
  <2>2. ByteAt(shown, l + q) \notin Continuation /\ ByteAt(shown, l + q) # 0
    BY <2>1, <1>12
  <2> QED
    BY <2>2 DEF Begins
<1>14. Begins(shown, l + 6)
  <2>1. CASE r = n
    <3>1. l + 6 = m + 1
      BY <2>1, <1>4 DEF m
    <3> QED
      BY <3>1, <1>11
  <2>2. CASE r # n
    <3>1. 1 \in 1..n - r /\ l + 5 + 1 = l + 6
      BY <2>2, <1>4
    <3>2. ByteAt(shown, l + 6) = ByteAt(text, r + 1)
      BY <3>1, <1>9
    <3> QED
      BY <3>2, <1>3 DEF Begins
  <2> QED
    BY <2>1, <2>2
<1>15. Block(shown, 1, l + 1)
  <2>0. Begins(shown, l + 1)
    BY <1>13
  <2>1. CASE l = 0
    BY <2>0, <2>1 DEF Block
  <2>2. CASE l # 0
    <3>1. Block(text, 1, l + 1)
      <4>1. Block(text, 1, n + 1) /\ 1 <= l + 1 /\ l + 1 <= n + 1 /\ l + 1 \in Nat /\ n + 1 \in Nat
        BY <1>4 DEF n
      <4> QED
        BY <4>1, <1>2, <2>2, BlockParts
    <3>2. 1 + l = l + 1
      BY <1>4
    <3>3. Copied(text, 1, shown, 1, l)
      <4>1. \A q \in 0..l - 1 : 1 + q \in 1..l
        BY <1>4
      <4> QED
        BY <4>1, <1>8 DEF Copied
    <3>4. Block(text, 1, 1 + l) /\ Begins(shown, 1 + l)
      BY <2>0, <3>1, <3>2
    <3>5. Block(shown, 1, 1 + l)
      BY <1>4, <1>5, <3>3, <3>4, BlockMoves
    <3> QED
      BY <3>2, <3>5
  <2> QED
    BY <2>1, <2>2
<1>16. Block(shown, l + 1, l + 6)
  <2> DEFINE e == l + 6
  <2>1. ASSUME NEW j \in l + 1..e - 1
        PROVE  ByteAt(shown, j) # 0 /\ CharacterAt(shown, j)
    <3>1. j - l \in 1..5 /\ l + (j - l) = j /\ j \in Nat
      BY <1>4
    <3>2. ByteAt(shown, j) \in {32, 46}
      BY <3>1, <1>10
    <3>3. Begins(shown, j + 1)
      <4>1. CASE j = l + 5
        BY <4>1, <1>4, <1>14
      <4>2. CASE j # l + 5
        <5>1. j + 1 - l \in 1..5 /\ l + (j + 1 - l) = j + 1
          BY <4>2, <3>1, <1>4
        <5> QED
          BY <5>1, <1>13
      <4> QED
        BY <4>1, <4>2
    <3>4. Following(ByteAt(shown, j)) = 0 /\ j + 0 + 1 = j + 1
      BY <3>1, <3>2, <1>12
    <3> QED
      BY <3>2, <3>3, <3>4, <1>12 DEF CharacterAt
  <2>2. Begins(shown, l + 1)
    BY <1>13
  <2> HIDE DEF e
  <2>3. \A j \in l + 1..e - 1 : ByteAt(shown, j) # 0 /\ (Begins(shown, j) => CharacterAt(shown, j))
    BY <2>1
  <2>4. Begins(shown, e)
    BY <1>14 DEF e
  <2>5. Block(shown, l + 1, e)
    BY <2>2, <2>3, <2>4 DEF Block
  <2> QED
    BY <2>5 DEF e
<1>17. Block(shown, l + 6, m + 1)
  <2>1. Block(text, r + 1, n + 1)
    <3>1. Block(text, 1, n + 1) /\ 1 <= r + 1 /\ r + 1 <= n + 1 /\ r + 1 \in Nat /\ n + 1 \in Nat
      BY <1>4 DEF n
    <3> QED
      BY <3>1, <1>3, BlockParts
  <2>2. /\ l + 6 + (n - r) = m + 1 /\ r + 1 + (n - r) = n + 1
        /\ l + 6 \in Nat /\ r + 1 \in Nat /\ 1 <= r + 1 /\ 1 <= l + 6
    BY <1>4 DEF m
  <2>3. Copied(text, r + 1, shown, l + 6, n - r)
    <3> SUFFICES ASSUME NEW q \in 0..n - r - 1
                 PROVE  ByteAt(shown, l + 6 + q) = ByteAt(text, r + 1 + q)
      BY DEF Copied
    <3>1. q + 1 \in 1..n - r /\ l + 5 + (q + 1) = l + 6 + q /\ r + (q + 1) = r + 1 + q
      BY <1>4
    <3>2. ByteAt(shown, l + 5 + (q + 1)) = ByteAt(text, r + (q + 1))
      BY <3>1, <1>9
    <3> QED
      BY <3>1, <3>2
  <2>4. Begins(shown, l + 6 + (n - r)) /\ Block(text, r + 1, r + 1 + (n - r))
    BY <2>1, <2>2, <1>11
  <2>5. Block(shown, l + 6, l + 6 + (n - r))
    BY <1>4, <1>5, <2>2, <2>3, <2>4, BlockMoves
  <2> QED
    BY <2>2, <2>5
<1>18. Block(shown, 1, m + 1)
  <2>1. /\ l + 1 \in Nat /\ l + 6 \in Nat /\ m + 1 \in Nat /\ 1 <= l + 1 /\ l + 1 <= l + 6 /\ l + 6 <= m + 1 /\ 1 <= l + 6
    BY <1>4 DEF m
  <2>2. Block(shown, 1, l + 6)
    BY <2>1, <1>15, <1>16, BlocksJoin
  <2> QED
    BY <2>1, <2>2, <1>17, BlocksJoin
<1> QED
  BY <1>4, <1>5, <1>18 DEF shown, l, r, n

\* The log cuts no character, and its lines stay lines.
LEMMA LoggedWhole ==
    ASSUME NEW text \in Seq(0..255), Whole(text), NEW max_log_size \in Nat
    PROVE  LET shown == Logged(text, max_log_size)
           IN  /\ Whole(shown)
               /\ max_log_size # 0 => Len(shown) <= max_log_size + 5
               /\ \A i \in DOMAIN shown : shown[i] \notin {9, 10}
<1> DEFINE half == max_log_size \div 2
           cut == SubSeq(text, 1, LeftBorder(text, half))
                      \o <<32, 46, 46, 46, 32>>
                      \o SubSeq(text, RightBorder(text, half) + 1, Len(text))
           plain == IF max_log_size = 0 \/ Len(text) < max_log_size THEN text ELSE cut
           shown == [i \in DOMAIN plain |-> Mapped(plain[i])]
<1>1. Logged(text, max_log_size) = shown
  BY DEF Logged
<1>2. half \in Nat /\ 2 * half <= max_log_size /\ Len(text) \in Nat
  OBVIOUS
<1>3. Block(text, 1, Len(text) + 1)
  BY WholeIsBlock
<1> HIDE DEF half
<1>4. /\ plain \in Seq(0..255) /\ Block(plain, 1, Len(plain) + 1)
      /\ max_log_size # 0 => Len(plain) <= max_log_size + 5
  <2>1. CASE max_log_size = 0 \/ Len(text) < max_log_size
    BY <2>1, <1>2, <1>3
  <2>2. CASE max_log_size # 0 /\ Len(text) >= max_log_size
    <3>1. 2 * half <= Len(text)
      BY <1>2, <2>2
    <3>2. cut \in Seq(0..255) /\ Len(cut) <= 2 * half + 5 /\ Block(cut, 1, Len(cut) + 1)
      BY <1>2, <1>3, <3>1, CutBlock
    <3> HIDE DEF cut
    <3>3. plain = cut
      BY <2>2, <1>2
    <3> HIDE DEF plain
    <3>4. Len(cut) \in Nat
      BY <3>2
    <3> QED
      BY <3>2, <3>3, <3>4, <1>2
  <2> QED
    BY <2>1, <2>2, <1>2
<1> HIDE DEF plain
<1>5. /\ shown \in Seq(0..255) /\ Len(shown) = Len(plain) /\ Block(shown, 1, Len(plain) + 1)
      /\ \A i \in DOMAIN shown : shown[i] \notin {9, 10}
  BY <1>4, MappedBlock
<1> HIDE DEF shown
<1>6. Whole(shown)
  BY <1>5, WholeIsBlock
<1> QED
  BY <1>1, <1>4, <1>5, <1>6

\* The arguments the service sees and the ones that were refused, and what the log
\* shows, for all texts.
THEOREM ArgumentsWhole == Spec => []CharactersWhole
<1>1. ValidIffWhole
  BY TextAssumption, PassesIffWhole DEF ValidIffWhole
<1>2. LogReadable
  <2> SUFFICES ASSUME NEW text \in Texts, Whole(text), NEW max_log_size \in 0..Len(text) + 1
               PROVE  LET shown == Logged(text, max_log_size)
                      IN  /\ Whole(shown)
                          /\ max_log_size # 0 => Len(shown) <= max_log_size + 5
                          /\ \A i \in DOMAIN shown : shown[i] \notin {9, 10}
    BY DEF LogReadable
  <2>1. text \in Seq(0..255) /\ max_log_size \in Nat
    BY TextAssumption
  <2> QED
    BY <2>1, LoggedWhole
<1>3. CharactersWhole
  BY <1>1, <1>2 DEF CharactersWhole
<1> QED
  BY <1>3, PTL
=============================================================================

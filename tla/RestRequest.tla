----------------------------- MODULE RestRequest -----------------------------
(***************************************************************************)
(* One HTTP request in rest_server: libmicrohttpd calls handle_request for *)
(* the headers, for each piece of the upload and at its end, and           *)
(* request_completed from two places, the end of the response and the      *)
(* closing of the connection. Connections share nothing but constants and  *)
(* the log. A byte of the upload is its position; a form's upload is made  *)
(* of headers, which begin a value, and of the values' bytes.              *)
(***************************************************************************)
EXTENDS Integers, SequencesExt

CONSTANTS
    Limits,         \* what the server may set as the greatest size of a body
    UnsignedMax,    \* greatest value of an unsigned
    Keys,           \* names of arguments
    InvalidKeys,    \* those that are not UTF-8
    Urls,           \* the sets of arguments that URLs give
    Methods,        \* methods the clients use
    MaxUpload       \* bound on the length of an upload

\* The greatest limit would wrap the counter to 0: every request is too large.
ASSUME RequestAssumption ==
    /\ UnsignedMax \in Nat
    /\ Limits \subseteq 0..UnsignedMax - 1
    /\ InvalidKeys \subseteq Keys
    /\ Urls \subseteq SUBSET Keys
    /\ MaxUpload \in Nat

VARIABLES
    max_request_body_size,  \* rest_server's member, set before the start: 0 is no limit
    state,          \* of libmicrohttpd's connection
    connection,     \* its client_aware, whether its client_context is a request, and
                    \* history: the requests made and those deleted
    method,
    content,        \* content type: "form", "noboundary" (a form nobody can parse), "other"
    upload,         \* what the client sends
    url,            \* the keys given in the URL
    arrived,        \* bytes handed to handle_request
    remaining,      \* remaining_request_body_size
    body,
    params,
    pending,        \* bytes the post processor keeps for later
    unsupported,    \* unsupported_multipart_encoding
    answer,         \* what was queued
    handed          \* history: what the service was called with

client == <<max_request_body_size, method, content, upload, url>>
form == <<params, pending, unsupported>>
vars == <<state, connection, client, arrived, remaining, body, form, answer, handed>>

\* "encoded" is the header of a part with an unsupported transfer encoding,
\* "invalid" a byte that is not UTF-8, "junk" what no post processor accepts,
\* "cut" an escape or a boundary the upload ends in the middle of.
FormBytes == Keys \cup {"encoded", "byte", "invalid", "junk", "cut"}
Headers == Keys \cup {"encoded"}
Uploads(S) == UNION {[1..n -> S] : n \in 0..MaxUpload}
NotHanded == [body |-> <<>>, params |-> <<>>, called |-> FALSE]
Allowed == {"HEAD", "GET", "POST", "PUT", "DELETE"}

need_post_processor == method = "POST" /\ content # "other"
Form == need_post_processor /\ content = "form"
Piece(n) == [i \in 1..n |-> arrived + i]

-----------------------------------------------------------------------------
(* The post processor and its callback *)

\* The header of the value byte i of the upload is part of.
HeaderOf(i) == upload[Max({j \in 1..i : upload[j] \in Headers})]

\* The arguments p with the value v for k.
Assigned(p, k, v) == [x \in DOMAIN p \cup {k} |-> IF x = k THEN v ELSE p[x]]

\* Mutant: a value that comes again is added to the old one.
PostIterator_NoClear(f, i) ==
    IF f.unsupported THEN f
    ELSE IF HeaderOf(i) = "encoded" THEN [f EXCEPT !.unsupported = TRUE]
    ELSE LET k == HeaderOf(i)
             old == IF k \in DOMAIN f.params THEN f.params[k] ELSE <<>>
         IN  [f EXCEPT !.params =
                Assigned(@, k, IF upload[i] \in Headers THEN old ELSE Append(old, i))]

\* post_iterator, called at a value's start (off = 0) and for its bytes.
PostIterator(f, i) ==
    IF f.unsupported THEN f
    ELSE IF HeaderOf(i) = "encoded" THEN [f EXCEPT !.unsupported = TRUE]
    ELSE LET k == HeaderOf(i)
         IN  [f EXCEPT !.params =
                Assigned(@, k, IF upload[i] \in Headers THEN <<>> ELSE Append(@[k], i))]

\* The post processor hands the bytes s to post_iterator.
Deliver(s) ==
    LET f == FoldLeft(PostIterator, [params |-> params, unsupported |-> unsupported], s)
    IN  params' = f.params /\ unsupported' = f.unsupported

Parses(s) == \A i \in DOMAIN s : upload[s[i]] \notin {"junk", "cut"}
Rejects(s) == \E i \in DOMAIN s : upload[s[i]] = "junk"
WellFormed == ToSet(upload) \cap {"junk", "cut"} = {}

-----------------------------------------------------------------------------
(* The two places that tell rest_server that a request is over *)

\* request_completed deletes what client_context points to, and leaves it there.
request_completed(c) == IF c.client_context THEN [c EXCEPT !.freed = @ + 1] ELSE c

\* Mutant: the connection stays aware of its client.
MHD_connection_close_StaysAware(c) == IF c.client_aware THEN request_completed(c) ELSE c

MHD_connection_close(c) ==
    [(IF c.client_aware THEN request_completed(c) ELSE c) EXCEPT !.client_aware = FALSE]

\* Mutant: it stays aware at the end of the response.
FootersSent_StaysAware(c) ==
    LET told == IF c.client_aware THEN request_completed(c) ELSE c
    IN  [MHD_connection_close(told) EXCEPT !.client_context = FALSE]

FootersSent(c) ==
    LET told == IF c.client_aware
                THEN [request_completed(c) EXCEPT !.client_aware = FALSE] ELSE c
    IN  [MHD_connection_close(told) EXCEPT !.client_context = FALSE]

\* A call of handle_request.
Called(c) == [c EXCEPT !.client_aware = TRUE]

-----------------------------------------------------------------------------
Init ==
    /\ max_request_body_size \in Limits
    /\ state = "idle"
    /\ connection = [client_aware |-> FALSE, client_context |-> FALSE, made |-> 0, freed |-> 0]
    /\ method = "GET" /\ content = "other" /\ upload = <<>> /\ url = {}
    /\ arrived = 0
    /\ remaining = 0
    /\ body = <<>>
    /\ params = <<>>
    /\ pending = <<>>
    /\ unsupported = FALSE
    /\ answer = "none"
    /\ handed = NotHanded

\* Mutant: a counter of the bytes that may come.
InitialRemaining_NoExtra == max_request_body_size
InitialRemaining == (max_request_body_size + 1) % (UnsignedMax + 1)

\* The upload has come: the final call is next, or the trailer of a chunked upload.
Uploaded == {"footers", "trailer"}

\* The first call: the request is made, the URL's arguments are collected.
NewRequest ==
    /\ state = "idle"
    /\ method' \in Methods
    /\ content' \in {"form", "noboundary", "other"}
    /\ upload' \in Uploads(IF Form' THEN FormBytes ELSE {"byte"})
    /\ Form' /\ upload' # <<>> => upload'[1] \in Headers
    /\ \A i \in 1..Len(upload') - 1 : upload'[i] # "cut"
    /\ url' \in Urls
    /\ params' = [k \in url' |-> <<0>>]
    /\ remaining' = InitialRemaining
    /\ state' \in IF upload' = <<>> THEN Uploaded ELSE {"body"}
    /\ connection' = [Called(connection) EXCEPT !.client_context = TRUE, !.made = @ + 1]
    /\ UNCHANGED <<max_request_body_size, arrived, body, pending, unsupported, answer, handed>>

(* process_request_body, for the next n bytes *)

Fits(n) == max_request_body_size = 0 \/ remaining > n

Count(n) == remaining' = IF max_request_body_size # 0 THEN remaining - n ELSE remaining

Take(n) ==
    /\ state = "body"
    /\ n \in 1..Len(upload) - arrived
    /\ arrived' = arrived + n
    /\ state' \in IF arrived + n = Len(upload) THEN Uploaded ELSE {"body"}
    /\ connection' = Called(connection)
    /\ UNCHANGED <<client, answer, handed>>

AppendBody(n) ==
    /\ Take(n)
    /\ Fits(n)
    /\ ~need_post_processor
    /\ body' = body \o Piece(n)
    /\ Count(n)
    /\ UNCHANGED form

\* The post processor may keep bytes that could be part of a boundary or of an
\* escape sequence.
PostBody(n) ==
    /\ Take(n)
    /\ Fits(n)
    /\ Form
    /\ LET data == pending \o Piece(n)
       IN  \E d \in 0..Len(data) :
              /\ Parses(SubSeq(data, 1, d))
              /\ Deliver(SubSeq(data, 1, d))
              /\ pending' = SubSeq(data, d + 1, Len(data))
    /\ Count(n)
    /\ UNCHANGED body

\* Mutant: the counter keeps running.
DropBody_Subtracts(n) ==
    /\ Take(n)
    /\ ~Fits(n)
    /\ remaining' = remaining - n
    /\ UNCHANGED <<body, form>>

DropBody(n) ==
    /\ Take(n)
    /\ ~Fits(n)
    /\ remaining' = 0
    /\ UNCHANGED <<body, form>>

\* The connection c closes, and stays as `next' says.
Close(next, c) ==
    /\ state' = next
    /\ connection' = MHD_connection_close(c)
    /\ UNCHANGED <<client, remaining, body, answer>>

\* No post processor could be made, or it does not understand the upload.
PostFails(n) ==
    /\ state = "body"
    /\ n \in 1..Len(upload) - arrived
    /\ Fits(n)
    /\ need_post_processor
    /\ content = "noboundary" \/ Rejects(pending \o Piece(n))
    /\ arrived' = arrived + n
    /\ Close("cleaned", Called(connection))
    /\ UNCHANGED <<form, handed>>

ReceiveBody == \E n \in 1..MaxUpload :
    AppendBody(n) \/ PostBody(n) \/ DropBody(n) \/ PostFails(n)

(* The trailer of a chunked upload; the request does not see it *)

TrailerCame ==
    /\ state = "trailer"
    /\ state' = "footers"
    /\ UNCHANGED <<connection, client, arrived, remaining, body, form, answer, handed>>

\* libmicrohttpd answers in the service's place.
TrailerRefused ==
    /\ state = "trailer"
    /\ state' = "reply"
    /\ answer' = "bad request"
    /\ UNCHANGED <<connection, client, arrived, remaining, body, form, handed>>

(* handle, after the whole upload *)

Queue(code) ==
    /\ state' = "reply"
    /\ answer' = code
    /\ connection' = Called(connection)
    /\ UNCHANGED <<client, arrived, remaining, body>>

MethodNotAllowed ==
    /\ state = "footers"
    /\ method \notin Allowed
    /\ Queue("method not allowed")
    /\ UNCHANGED <<form, handed>>

\* Closing the post processor ends a value in progress, which delivers what it
\* kept of it; what it cannot complete is lost.
ClosePostProcessor ==
    /\ state = "footers"
    /\ method \in Allowed
    /\ \E d \in 0..Len(pending) :
          /\ WellFormed => d = Len(pending)
          /\ Parses(SubSeq(pending, 1, d))
          /\ Deliver(SubSeq(pending, 1, d))
    /\ pending' = <<>>

TooLarge == max_request_body_size # 0 /\ remaining = 0
ValidUtf8(p) == \A k \in DOMAIN p :
    k \notin InvalidKeys /\ \A i \in DOMAIN p[k] : p[k][i] # 0 => upload[p[k][i]] # "invalid"

UnsupportedEncoding ==
    /\ ClosePostProcessor
    /\ unsupported'
    /\ Queue("unsupported encoding")
    /\ UNCHANGED handed

\* Mutant: no response is queued.
RequestTooLarge_Silent ==
    /\ ClosePostProcessor
    /\ ~unsupported'
    /\ TooLarge
    /\ UNCHANGED <<state, connection, client, arrived, remaining, body, answer, handed>>

RequestTooLarge ==
    /\ ClosePostProcessor
    /\ ~unsupported'
    /\ TooLarge
    /\ Queue("too large")
    /\ UNCHANGED handed

InvalidUtf8 ==
    /\ ClosePostProcessor
    /\ ~unsupported' /\ ~TooLarge
    /\ ~ValidUtf8(params')
    /\ Queue("invalid utf8")
    /\ UNCHANGED handed

\* The service responds, or fails and the connection closes.
CallService ==
    /\ ClosePostProcessor
    /\ ~unsupported' /\ ~TooLarge
    /\ ValidUtf8(params')
    /\ handed' = [body |-> body, params |-> params', called |-> TRUE]
    /\ \/ Queue("service")
       \/ Close("cleaned", Called(connection)) /\ UNCHANGED arrived

Handle == MethodNotAllowed \/ UnsupportedEncoding \/ RequestTooLarge \/ InvalidUtf8 \/ CallService

(* The end of the connection: every response says "Connection: close" *)

ReplySent ==
    /\ state = "reply"
    /\ state' = "cleaned"
    /\ connection' = FootersSent(connection)
    /\ UNCHANGED <<client, arrived, remaining, body, form, answer, handed>>

\* A read or a write fails, the time is up, or the daemon is stopped.
ClientGone ==
    /\ state \in {"idle", "body", "trailer", "reply"}
    /\ Close("closed", connection)
    /\ UNCHANGED <<arrived, form, handed>>

\* poll reported the hangup too: the connection is closed again before it is
\* cleaned up, or it was not and is at once.
Hangup ==
    /\ state = "closed"
    /\ Close("cleaned", connection)
    /\ UNCHANGED <<arrived, form, handed>>

Cleanup ==
    /\ state = "closed"
    /\ state' = "cleaned"
    /\ UNCHANGED <<connection, client, arrived, remaining, body, form, answer, handed>>

Next == NewRequest \/ ReceiveBody \/ TrailerCame \/ TrailerRefused \/ Handle
        \/ ReplySent \/ ClientGone \/ Hangup \/ Cleanup

\* libmicrohttpd makes the final call at once; nothing is assumed of the client.
Spec == Init /\ [][Next]_vars /\ WF_vars(Handle)

-----------------------------------------------------------------------------
(* Properties *)

TypeOK ==
    /\ max_request_body_size \in Limits
    /\ state \in {"idle", "body", "trailer", "footers", "reply", "closed", "cleaned"}
    /\ connection \in [client_aware : BOOLEAN, client_context : BOOLEAN, made : Nat, freed : Nat]
    /\ method \in Methods \cup {"GET"}
    /\ content \in {"form", "noboundary", "other"}
    /\ url \subseteq Keys
    /\ arrived \in 0..Len(upload)
    /\ remaining \in 0..max_request_body_size + 1
    /\ DOMAIN params \subseteq Keys
    /\ unsupported \in BOOLEAN
    /\ answer \in {"none", "method not allowed", "unsupported encoding", "too large",
                   "invalid utf8", "service", "bad request"}

\* In whatever pieces it comes, an upload is too large exactly beyond the limit:
\* one of the greatest size is handled, one byte more is refused.
LimitExact ==
    /\ answer = "too large" => max_request_body_size # 0 /\ Len(upload) > max_request_body_size
    /\ handed.called => max_request_body_size = 0 \/ Len(upload) <= max_request_body_size

\* The value given for k: the last one in the upload, else the one in the URL.
LastValue(k) ==
    LET starts == {i \in DOMAIN upload : upload[i] = k}
        first == Max(starts)
        next == Min({Len(upload) + 1} \cup {i \in first + 1..Len(upload) : upload[i] \in Headers})
    IN  IF starts = {} THEN <<0>> ELSE [n \in 1..next - first - 1 |-> first + n]

\* The service sees the whole of a well-formed upload: the body without a hole, or every argument
\* with the value given last, however the pieces split the values and whatever
\* the post processor keeps. A form with an unsupported part never gets there.
HandedWhole ==
    handed.called /\ (need_post_processor => WellFormed) =>
        IF need_post_processor
        THEN /\ "encoded" \notin ToSet(upload)
             /\ handed.params = [k \in url \cup (Keys \cap ToSet(upload)) |-> LastValue(k)]
        ELSE handed.body = [i \in 1..Len(upload) |-> i]

\* The request is deleted once, whichever of the two places comes first, also
\* when a connection is closed twice; never while libmicrohttpd may still call
\* handle_request with it, and never forgotten.
FreedOnce ==
    /\ connection.freed <= connection.made
    /\ state \in {"body", "trailer", "footers", "reply"} => connection.freed < connection.made
    /\ state = "cleaned" => connection.freed = connection.made

\* Once the whole upload has come, the request is answered or closed.
RequestsEnd == state = "footers" ~> state \in {"reply", "cleaned"}
=============================================================================

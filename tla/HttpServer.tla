----------------------------- MODULE HttpServer -----------------------------
(***************************************************************************)
(* HttpServer and the parsing of requests (29_muduo_Http/src), on one      *)
(* connection: the client's bytes come in pieces of any size into the      *)
(* connection's Buffer, each piece is one call of onMessage, which takes   *)
(* lines out of the buffer until it has a request and answers it.          *)
(*                                                                         *)
(* A byte is a token: the text of a line, "CR" or "LF".  The text of a     *)
(* request line stands for its method, version and whether the callback    *)
(* finds its path; that of a header line for what getHeader("Connection")  *)
(* makes of it.  A step is one iteration of the loop in parseRequest, or   *)
(* what comes before or after the loop; they all run in the IO thread.     *)
(***************************************************************************)
EXTENDS Buffer, FiniteSets

CONSTANTS Requests,      \* what a client may send: sequences of lines, first
                         \* a request line, without the empty line at the end
          MaxRequests    \* bound: requests of the client

(* The request lines.                                                      *)
Lines == {"get11",       \* "GET /known HTTP/1.1"
          "get10",       \* "GET /known HTTP/1.0"
          "lost11",      \* "GET /unknown HTTP/1.1"
          "odd11",       \* a method that setMethod does not know
          "get20"}       \* a version that processRequestLine does not know
Headers == {"keep", "close", "other"}   \* a Connection header, or another one
                                        \* (with a colon each)
ASSUME HttpAssumption ==
  /\ MaxRequests \in Nat
  /\ Requests \subseteq Seq(Lines \cup Headers)
  /\ \A r \in Requests : /\ r # << >> /\ r[1] \in Lines
                         /\ \A i \in 2..Len(r) : r[i] \in Headers

VARIABLES
  httpCallback, \* "user" or, if setHttpCallback was not called, "default"
  client,     \* the requests sent, in order
  pipelines,  \* TRUE: the client does not wait for answers
  wire,       \* bytes on their way to the server
  hungUp,     \* the client has closed its end
  conn,       \* state_ of the connection
  input,      \* inputBuffer_
  pc,         \* "poll", "parse" (the loop), "failed" (parseRequest is false),
              \* "parsed" (it is true) or "aborted" (setMethod's assertion)
  parser,     \* HttpContext: state_ and the method_, version_, path_ and
              \* Connection header of request_
  answers,    \* responses written to the socket, in order
  finSent     \* shutdownWrite was called

clientVars == <<httpCallback, client, pipelines, hungUp>>
vars == <<clientVars, wire, conn, input, pc, parser, answers, finSent>>

NoContext == [state |-> "kExpectRequestLine", method |-> "none", version |-> "unknown",
              path |-> 0, connection |-> "none"]

(* The constructor, maybe setHttpCallback, start, and onConnection for a    *)
(* new connection.                                                         *)
HttpServerInit == httpCallback \in {"default", "user"}

Init ==
  /\ HttpServerInit
  /\ client = << >> /\ pipelines \in BOOLEAN /\ hungUp = FALSE /\ wire = << >>
  /\ conn = "kConnected" /\ input = NewBuffer /\ pc = "poll"
  /\ parser = NoContext /\ answers = << >> /\ finSent = FALSE

Byte(text, path) == [text |-> text, path |-> path]
CRLF == <<Byte("CR", 0), Byte("LF", 0)>>

(* The bytes of a request; its path tells it from the others.              *)
Encode(r, path) ==
  LET line(i) == <<Byte(r[i], path)>> \o CRLF
      upTo[i \in 0..Len(r)] == IF i = 0 THEN << >> ELSE upTo[i - 1] \o line(i)
  IN  upTo[Len(r)] \o CRLF

-----------------------------------------------------------------------------
(* The client sends a request, at once or after the answer to the last.    *)
SendRequest ==
  /\ ~hungUp /\ Len(client) < MaxRequests
  /\ pipelines \/ Len(answers) = Len(client)
  /\ \E r \in Requests :
        /\ client' = Append(client, r)
        /\ wire' = wire \o Encode(r, Len(client'))
  /\ UNCHANGED <<httpCallback, pipelines, hungUp, conn, input, pc, parser, answers, finSent>>

HangUp ==
  /\ ~hungUp /\ hungUp' = TRUE
  /\ UNCHANGED <<httpCallback, client, pipelines, wire, conn, input, pc, parser,
                 answers, finSent>>

(* TcpConnection::handleRead with the first n bytes on the wire: onMessage.*)
HandleRead(n) ==
  /\ pc = "poll" /\ conn # "kDisconnected"
  /\ MayRead(input, SubSeq(wire, 1, n))
  /\ input' = ReadFd(input, SubSeq(wire, 1, n))
  /\ wire' = SubSeq(wire, n + 1, Len(wire))
  /\ pc' = "parse"
  /\ UNCHANGED <<clientVars, conn, parser, answers, finSent>>

(* handleRead of no bytes: handleClose.                                    *)
HandleClose ==
  /\ pc = "poll" /\ conn # "kDisconnected" /\ hungUp /\ wire = << >>
  /\ conn' = "kDisconnected"
  /\ UNCHANGED <<clientVars, wire, input, pc, parser, answers, finSent>>

-----------------------------------------------------------------------------
(* findCRLF: how many readable bytes are before the first CRLF.            *)
CRLFs == LET s == Readable(input)
         IN  {n \in 0..Len(s) - 2 : SubSeq(s, n + 1, n + 2) = CRLF}

(* Faulty variant: a CRLF at the very end is taken for none.               *)
BadHasCRLF == \E n \in CRLFs : n < Len(Readable(input)) - 2

HasCRLF == CRLFs # {}
FindCRLF == CHOOSE n \in CRLFs : \A m \in CRLFs : n <= m
Line == SubSeq(Readable(input), 1, FindCRLF)

(* buf->retrieveUntil(crlf + 2) *)
RetrieveLine == input' = Retrieve(input, FindCRLF + 2)

(* setMethod, and whether there is a method to set.                        *)
MethodOf(line) == IF Len(line) = 1 /\ line[1].text \in Lines \ {"odd11"}
                  THEN "get" ELSE "none"

(* The digit of the version.                                               *)
VersionOf(line) == CASE line[1].text \in {"get11", "lost11"} -> "1.1"
                     [] line[1].text = "get10" -> "1.0"
                     [] OTHER -> "unknown"

(* HttpContext: what is expected, and what is received.                    *)
ExpectRequestLine == parser.state = "kExpectRequestLine"
ExpectHeaders     == parser.state = "kExpectHeaders"
GotAll            == parser.state = "kGotAll"
ReceiveRequestLine(context) == [context EXCEPT !.state = "kExpectHeaders"]
ReceiveHeaders(context)     == [context EXCEPT !.state = "kGotAll"]

(* setPath and setVersion.                                                 *)
SetPathAndVersion(context, path, version) ==
  [context EXCEPT !.path = path, !.version = version]

(* parseRequest in kExpectRequestLine: processRequestLine.  setMethod      *)
(* asserts that the request has no method yet; what it sets stays set if   *)
(* the rest of the line turns out wrong.                                   *)
ParseRequestLine ==
  LET method == MethodOf(Line)
      version == VersionOf(Line)
      ok == method # "none" /\ version # "unknown"
  IN
  /\ pc = "parse" /\ ExpectRequestLine /\ HasCRLF
  /\ IF parser.method # "none"
        THEN pc' = "aborted" /\ UNCHANGED <<input, parser>>
     ELSE IF ok
        THEN /\ parser' = ReceiveRequestLine(SetPathAndVersion(
                             [parser EXCEPT !.method = method], Line[1].path, version))
             /\ RetrieveLine
             /\ UNCHANGED pc
     ELSE /\ parser' = [parser EXCEPT !.method = method,
                           !.path = IF method = "none" THEN @ ELSE Line[1].path]
          /\ pc' = "failed"
          /\ UNCHANGED input
  /\ UNCHANGED <<clientVars, wire, conn, answers, finSent>>

(* addHeader: headers_[field] = value, of which getHeader("Connection")     *)
(* finds the last.                                                         *)
AddHeader(text) ==
  parser' = IF text = "other" THEN parser ELSE [parser EXCEPT !.connection = text]

(* parseRequest in kExpectHeaders: a header, or a line without a colon.    *)
ParseHeader ==
  /\ pc = "parse" /\ ExpectHeaders /\ HasCRLF
  /\ IF Line # << >>
        THEN AddHeader(Line[1].text) /\ UNCHANGED pc
        ELSE parser' = ReceiveHeaders(parser) /\ pc' = "parsed"
  /\ RetrieveLine
  /\ UNCHANGED <<clientVars, wire, conn, answers, finSent>>

(* No complete line: parseRequest returns true and onMessage is done, for  *)
(* the context is not in kGotAll.                                          *)
NoLine ==
  /\ pc = "parse" /\ ~HasCRLF
  /\ pc' = "poll"
  /\ UNCHANGED <<clientVars, wire, conn, input, parser, answers, finSent>>

(* conn->send and, if close, conn->shutdown, in the connection's thread.   *)
Respond(answer, close) ==
  IF conn = "kConnected"
  THEN /\ answers' = Append(answers, answer)
       /\ conn' = IF close THEN "kDisconnecting" ELSE conn
       /\ finSent' = (finSent \/ close)
  ELSE UNCHANGED <<answers, conn, finSent>>

(* onMessage after parseRequest has failed.  The line stays in the buffer. *)
BadRequest ==
  /\ pc = "failed"
  /\ Respond([status |-> 400, path |-> 0], TRUE)
  /\ pc' = "poll"
  /\ UNCHANGED <<clientVars, wire, input, parser>>

(* Faulty variant: the headers of the request stay.                        *)
BadSwap(context) == [NoContext EXCEPT !.version = context.version,
                                      !.connection = context.connection]

(* HttpRequest::swap with a new request leaves version_ as it is.          *)
Swap(context) == [NoContext EXCEPT !.version = context.version]

(* HttpContext::reset *)
Reset == parser' = Swap(parser)

(* The path is known to the user's callback; if it is not, that callback   *)
(* (HttpServer_test.cc) and the default one for every path answer 404 and  *)
(* close.                                                                  *)
Known(path) == httpCallback = "user" /\ client[path][1] # "lost11"

Closes == \/ parser.connection = "close"
          \/ parser.version = "1.0" /\ parser.connection # "keep"

(* What the callback and appendToBuffer make of a request.                 *)
Response(path) == [status |-> IF Known(path) THEN 200 ELSE 404, path |-> path]

(* Faulty variant: what follows the request in the buffer goes with it.    *)
BadOnRequest ==
  /\ pc = "parsed" /\ GotAll
  /\ Respond(Response(parser.path), Closes \/ ~Known(parser.path))
  /\ Reset
  /\ input' = Retrieve(input, Len(Readable(input)))
  /\ pc' = "poll"
  /\ UNCHANGED <<clientVars, wire>>

(* onMessage after gotAll: onRequest, and the context is reset.            *)
OnRequest ==
  /\ pc = "parsed" /\ GotAll
  /\ Respond(Response(parser.path), Closes \/ ~Known(parser.path))
  /\ Reset
  /\ pc' = "poll"
  /\ UNCHANGED <<clientVars, wire, input>>

-----------------------------------------------------------------------------
ServerStep ==
  \/ \E n \in 1..Len(wire) : HandleRead(n)
  \/ HandleClose
  \/ ParseRequestLine \/ ParseHeader \/ NoLine \/ BadRequest \/ OnRequest

Stopped == pc = "aborted" \/ conn = "kDisconnected"
Next == SendRequest \/ HangUp \/ ServerStep \/ (Stopped /\ UNCHANGED vars)

Spec == Init /\ [][Next]_vars

(* The network delivers and the IO thread goes on; clients need not.       *)
FairSpec == Spec /\ WF_vars(ServerStep)

-----------------------------------------------------------------------------
(* The answer to a request, read off the request as a whole.               *)
Answer(path) ==
  LET r == client[path]
      lost == httpCallback = "default" \/ r[1] = "lost11"
      conns == {i \in 2..Len(r) : r[i] # "other"}
      last == IF conns = {} THEN "none"
              ELSE r[CHOOSE i \in conns : \A j \in conns : j <= i]
      bad == r[1] \in {"odd11", "get20"}
  IN  [status |-> IF bad THEN 400 ELSE IF lost THEN 404 ELSE 200,
       path |-> IF bad THEN 0 ELSE path,
       closes |-> \/ bad \/ lost \/ last = "close"
                  \/ r[1] = "get10" /\ last # "keep"]

(* However the bytes are cut into pieces and however many requests are on  *)
(* the way, the answers are those of the first requests, one each and in   *)
(* order, none after the one that closes, and that one is followed by the  *)
(* end of the stream.                                                      *)
AnswersInOrder ==
  /\ Len(answers) <= Len(client)
  /\ \A i \in 1..Len(answers) :
        /\ answers[i].status = Answer(i).status /\ answers[i].path = Answer(i).path
        /\ Answer(i).closes => i = Len(answers)
  /\ conn # "kDisconnected" =>
        (finSent <=> answers # << >> /\ Answer(Len(answers)).closes)

(* The buffer neither loses nor invents a byte: what is readable, and what *)
(* is on the wire, are the last bytes the client has sent.                 *)
Stream == LET upTo[i \in 0..Len(client)] ==
                IF i = 0 THEN << >> ELSE upTo[i - 1] \o Encode(client[i], i)
          IN  upTo[Len(client)]
BytesKept ==
  /\ CheapPrepend <= input.reader /\ input.reader <= input.writer
  /\ input.writer <= Len(input.vec)
  /\ LET rest == Readable(input) \o wire
     IN  /\ Len(rest) <= Len(Stream)
         /\ rest = SubSeq(Stream, Len(Stream) - Len(rest) + 1, Len(Stream))

(* The i-th request is read to its end: what is still on the wire is part  *)
(* of those after it.                                                      *)
ReadWhole(i) ==
  LET after[k \in i..Len(client)] ==
        IF k = i THEN 0 ELSE after[k - 1] + Len(Encode(client[k], k))
  IN  Len(wire) <= after[Len(client)]

(* One call of onMessage answers one request, so a pipelined one may wait  *)
(* in the buffer though it is there to its last byte; but it is answered   *)
(* by the first read that comes when it is its turn, wherever the reads    *)
(* before it were cut, and is never passed over.                           *)
AnsweredInTurn ==
  [][LET next == Len(answers) + 1
     IN  pc # "poll" /\ pc' = "poll" /\ conn = "kConnected"
           /\ next <= Len(client) /\ ReadWhole(next)
         => Len(answers') = next]_vars

(* A client that waits for its answers gets them, unless it is told that   *)
(* the connection closes or hangs up itself.                               *)
Answered ==
  ~pipelines => \A i \in 1..MaxRequests :
     Len(client) >= i ~> Len(answers) >= i \/ finSent \/ hungUp
=============================================================================

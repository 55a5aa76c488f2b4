------------------------------ MODULE AbyssConn ------------------------------
(***************************************************************************)
(* One connection of the Abyss server while its job runs: serverFunc       *)
(* (server.c), the connection's read buffer (conn.c), the request reader   *)
(* (http.c) and the XML-RPC handler's reading of a request body            *)
(* (session.c, xmlrpc_server_abyss.c).                                     *)
(*                                                                         *)
(* The client sends a script of requests.  A byte is abstracted to what    *)
(* the reader does with it: the delimiter "LF" of a line (CRLF counts as   *)
(* one), the blank "SP" that makes a line a continuation, a body byte "b", *)
(* or a byte that stands for a whole header line's text:                   *)
(*   "post", "get"  a request line (HTTP/1.1, the XML-RPC URI path)        *)
(*   "type"         Content-type: text/xml                                 *)
(*   "len1", "len2" Content-length                                         *)
(*   "close"        Connection: close                                      *)
(*   "x"            any other header field, or text after a blank          *)
(* Bytes are named by their position in the script, so that the model can  *)
(* tell whether they are lost, repeated or reordered.                      *)
(*                                                                         *)
(* Time is abstracted: a wait on the socket may reach its deadline only    *)
(* while the socket has nothing to read, and a loop that cannot progress   *)
(* does reach it.  recv() does not fail when FIONREAD has reported data,   *)
(* and the client takes the responses.                                     *)
(***************************************************************************)
EXTENDS Integers, FiniteSets, SequencesExt

CONSTANTS
    Scripts,            \* the scripts a client may send: sequences of requests
    BufferSize,         \* BUFFER_SIZE
    KeepaliveMaxConn    \* srvP->keepalivemaxconn

Byte == {"LF", "SP", "b", "post", "get", "type", "len1", "len2", "close", "x"}

(***************************************************************************)
(* What a client may be expected to send as a request r: a header from its *)
(* first byte after blank lines to the first empty line, and a body as     *)
(* long as a Content-length in it says.  Nothing else is asked of it: lines *)
(* may be folded, unknown, out of place or missing.                        *)
(***************************************************************************)
IsHeader(r, first, last) ==
    /\ first < last
    /\ r[first] # "LF" /\ \A j \in 1..(first - 1) : r[j] = "LF"
    /\ r[last - 1] = "LF" /\ r[last] = "LF"
    /\ \A j \in (first + 1)..(last - 1) : r[j - 1] = "LF" => r[j] # "LF"
    /\ \A j \in first..last : /\ r[j] = "len1" => Len(r) = last + 1
                              /\ r[j] = "len2" => Len(r) = last + 2

WellFormed(r) == \E first, last \in DOMAIN r : IsHeader(r, first, last)

ASSUME ScriptsAssumption ==
    \A s \in Scripts : /\ s \in Seq(Seq(Byte))
                       /\ \A k \in DOMAIN s : WellFormed(s[k])
ASSUME BufferAssumption == BufferSize \in Nat \ {0, 1}
ASSUME KeepaliveAssumption == KeepaliveMaxConn \in Nat \ {0}

VARIABLES
    script,         \* what the client sends
    lockstep,       \* it sends one request at a time, each in one piece
    sent,           \* bytes of it that have reached the server's socket
    recvd,          \* bytes of it the server has taken from the socket
    buffer,         \* positions of the bytes in buffer[0 .. buffersize-1]
    bufferpos,      \* connectionP->bufferpos
    pc,             \* where the connection thread is
    p,              \* the cursor of ConnReadHeader
    request,        \* the session: what RequestRead knows of the request
    bytesRead,      \* the body bytes getBody has
    status,         \* sessionP->status, 0 until it is set
    answers,        \* the statuses of the responses sent
    consumed        \* bytes handed out as header or body

vars == <<script, lockstep, sent, recvd, buffer, bufferpos, pc, p, request,
          bytesRead, status, answers, consumed>>

-----------------------------------------------------------------------------
Wire == FlattenSeq(script)

(* The positions at which a request of the script ends, and 0. *)
Boundaries == {Len(FlattenSeq(SubSeq(script, 1, i))) : i \in 0..Len(script)}

(* Requests of the script whose bytes have all reached the server. *)
SentRequests == Cardinality({e \in Boundaries : 0 < e /\ e <= sent})

buffersize == Len(buffer)
Unread     == buffersize - bufferpos

(* What the byte at index i (from 0) of the buffer is. *)
ByteAt(i) == Wire[buffer[i + 1]]

(* The session as RequestInit and initRequestInfo set it up. *)
NoRequest == [line |-> FALSE, post |-> FALSE, xml |-> FALSE, length |-> 0,
              keepalive |-> TRUE]

Least(a, b) == IF a <= b THEN a ELSE b

TypeOK ==
    /\ script \in Scripts
    /\ lockstep \in BOOLEAN
    /\ sent \in 0..Len(Wire)
    /\ recvd \in 0..sent
    /\ buffer \in Seq(1..recvd)
    /\ bufferpos \in Nat
    /\ pc \in {"wait", "header", "handle", "body", "refill", "respond", "done"}
    /\ p \in Nat
    /\ request \in [line : BOOLEAN, post : BOOLEAN, xml : BOOLEAN,
                    length : 0..2, keepalive : BOOLEAN]
    /\ bytesRead \in Nat
    /\ status \in {0, 200, 400, 405, 408, 411}
    /\ answers \in Seq({200, 400, 405, 408, 411})
    /\ consumed \in Nat

Init ==
    /\ script \in Scripts
    /\ lockstep \in BOOLEAN
    /\ sent = 0
    /\ recvd = 0
    /\ buffer = <<>>
    /\ bufferpos = 0
    /\ pc = "wait"
    /\ p = 0
    /\ request = NoRequest
    /\ bytesRead = 0
    /\ status = 0
    /\ answers = <<>>
    /\ consumed = 0

-----------------------------------------------------------------------------
(* The client. *)

(***************************************************************************)
(* Bytes arrive in pieces of any size; in lockstep, a whole request once   *)
(* the one before it has been answered.                                    *)
(***************************************************************************)
Send(n) ==
    /\ n \in (sent + 1)..Len(Wire)
    /\ lockstep => /\ n \in Boundaries
                   /\ \A e \in Boundaries : e \notin (sent + 1)..(n - 1)
                   /\ Len(answers) = SentRequests
    /\ sent' = n
    /\ UNCHANGED <<script, lockstep, recvd, buffer, bufferpos, pc, p, request,
                   bytesRead, status, answers, consumed>>

-----------------------------------------------------------------------------
(* Reading from the socket. *)

(* ConnRead wants what is available, and leaves room for a final NUL. *)
BytesToRead == Least(sent - recvd, BufferSize - buffersize - 1)

(* Mutant: ConnRead leaves no room for the final NUL. *)
MutantReadFillsBuffer(buf) ==
    LET n == Least(sent - recvd, BufferSize - Len(buf))
    IN  /\ n > 0
        /\ buffer' = buf \o [i \in 1..n |-> recvd + i]
        /\ recvd' = recvd + n

(* ConnRead gets data into 'buf', the buffer as its caller prepared it. *)
ConnReadOk(buf) ==
    LET n == Least(sent - recvd, BufferSize - Len(buf) - 1)
    IN  /\ n > 0
        /\ buffer' = buf \o [i \in 1..n |-> recvd + i]
        /\ recvd' = recvd + n

(* ConnRead fails: nothing comes until the deadline, or the buffer is full *)
(* and it asks for 0 bytes over and over.                                  *)
ConnReadFails(buf) == Least(sent - recvd, BufferSize - Len(buf) - 1) = 0

(* The buffer after ConnReadInit: what is left moves to the front. *)
Compacted == SubSeq(buffer, bufferpos + 1, buffersize)

-----------------------------------------------------------------------------
(* serverFunc waits for a request. *)

WaitReads ==
    /\ pc = "wait"
    /\ ConnReadOk(buffer)
    /\ request' = NoRequest
    /\ status' = 0
    /\ p' = bufferpos
    /\ pc' = "header"
    /\ UNCHANGED <<script, lockstep, sent, bufferpos, bytesRead, answers,
                   consumed>>

WaitGivesUp ==
    /\ pc = "wait"
    /\ ConnReadFails(buffer)
    /\ pc' = "done"
    /\ UNCHANGED <<script, lockstep, sent, recvd, buffer, bufferpos, p,
                   request, bytesRead, status, answers, consumed>>

-----------------------------------------------------------------------------
(* ConnReadHeader, called by RequestRead for every line. *)

(* Indexes of line delimiters at or after the cursor. *)
LineFeeds == {i \in p..(buffersize - 1) : ByteAt(i) = "LF"}
LfPos     == CHOOSE i \in LineFeeds : \A j \in LineFeeds : i <= j

EmptyLine == ByteAt(p) = "LF"

(* Mutant: an empty line also waits for the byte after it. *)
MutantEmptyLineWaits ==
    /\ LineFeeds # {}
    /\ LfPos + 1 < buffersize
    /\ EmptyLine \/ ByteAt(LfPos + 1) # "SP"

(***************************************************************************)
(* processHeaderLine finds the end of the header at the next delimiter     *)
(* only if the line is empty, or the byte after the delimiter is there and *)
(* does not continue the line.                                             *)
(***************************************************************************)
GotHeader ==
    /\ LineFeeds # {}
    /\ \/ EmptyLine
       \/ LfPos + 1 < buffersize /\ ByteAt(LfPos + 1) # "SP"

Continued ==
    /\ LineFeeds # {}
    /\ ~EmptyLine
    /\ LfPos + 1 < buffersize /\ ByteAt(LfPos + 1) = "SP"

(* The cursor has used up the buffer: ConnReadHeader reads more. *)
HeaderReads ==
    /\ pc = "header"
    /\ p >= buffersize
    /\ ConnReadOk(buffer)
    /\ UNCHANGED <<script, lockstep, sent, bufferpos, pc, p, request,
                   bytesRead, status, answers, consumed>>

(***************************************************************************)
(* The deadline passes: there is nothing to read; or the loop keeps        *)
(* looking at the same incomplete line, for it reads more only when the    *)
(* cursor has used up the buffer.                                          *)
(***************************************************************************)
HeaderTimesOut ==
    /\ pc = "header"
    /\ \/ p >= buffersize /\ ConnReadFails(buffer)
       \/ p < buffersize /\ ~GotHeader /\ ~Continued
    /\ status' = 408
    /\ pc' = "respond"
    /\ UNCHANGED <<script, lockstep, sent, recvd, buffer, bufferpos, p,
                   request, bytesRead, answers, consumed>>

(* The delimiter is blanked out and the cursor moves to the next line. *)
HeaderContinues ==
    /\ pc = "header"
    /\ p < buffersize
    /\ Continued
    /\ p' = LfPos + 1
    /\ UNCHANGED <<script, lockstep, sent, recvd, buffer, bufferpos, pc,
                   request, bytesRead, status, answers, consumed>>

(* What RequestRead makes of the header that starts with byte b. *)
RequestLine(b) ==
    IF b \in {"post", "get"}
    THEN /\ request' = [request EXCEPT !.line = TRUE, !.post = b = "post"]
         /\ pc' = "header"
         /\ UNCHANGED status
    ELSE /\ status' = 400
         /\ pc' = "respond"
         /\ UNCHANGED request

HeaderField(b) ==
    IF b \in {"type", "len1", "len2", "close", "x"}
    THEN /\ request' =
              CASE b = "type"  -> [request EXCEPT !.xml = TRUE]
                [] b = "len1"  -> [request EXCEPT !.length = 1]
                [] b = "len2"  -> [request EXCEPT !.length = 2]
                [] b = "close" -> [request EXCEPT !.keepalive = FALSE]
                [] OTHER       -> request
         /\ pc' = "header"
         /\ UNCHANGED status
    ELSE /\ status' = 400
         /\ pc' = "respond"
         /\ UNCHANGED request

(***************************************************************************)
(* A header is complete: the buffer position moves past it.  Empty lines   *)
(* before the request line are ignored, the one after the fields ends the  *)
(* request's header.                                                       *)
(***************************************************************************)
HeaderComplete ==
    /\ pc = "header"
    /\ p < buffersize
    /\ GotHeader
    /\ bufferpos' = LfPos + 1
    /\ p' = LfPos + 1
    /\ consumed' = consumed + (LfPos + 1 - bufferpos)
    /\ LET b == ByteAt(bufferpos)
       IN  \/ /\ b = "LF"
              /\ pc' = IF request.line THEN "handle" ELSE "header"
              /\ UNCHANGED <<request, status>>
           \/ b # "LF" /\ ~request.line /\ RequestLine(b)
           \/ b # "LF" /\ request.line /\ HeaderField(b)
    /\ UNCHANGED <<script, lockstep, sent, recvd, buffer, bytesRead, answers>>

-----------------------------------------------------------------------------
(* The XML-RPC request handler. *)

(* What handleXmlrpcReq refuses the request with, 0 if it goes on to read   *)
(* the body.                                                               *)
RefusalStatus ==
    CASE ~request.post      -> 405
      [] ~request.xml       -> 400
      [] request.length = 0 -> 411
      [] OTHER              -> 0

(* Mutant: no status is set for a request that is refused. *)
MutantHandleForgetsStatus ==
    /\ pc = "handle"
    /\ bytesRead' = 0
    /\ pc' = IF RefusalStatus = 0 THEN "body" ELSE "respond"
    /\ UNCHANGED <<script, lockstep, sent, recvd, buffer, bufferpos, p,
                   request, status, answers, consumed>>

(* handleXmlrpcReq checks method, type and length before it reads the body. *)
Handle ==
    /\ pc = "handle"
    /\ bytesRead' = 0
    /\ status' = RefusalStatus
    /\ pc' = IF RefusalStatus = 0 THEN "body" ELSE "respond"
    /\ UNCHANGED <<script, lockstep, sent, recvd, buffer, bufferpos, p,
                   request, answers, consumed>>

(* getBody takes what is buffered, at most what is left of the body. *)
BodyTakes ==
    LET n == Least(request.length - bytesRead, Unread)
    IN  /\ pc = "body"
        /\ bufferpos' = bufferpos + n
        /\ consumed' = consumed + n
        /\ bytesRead' = bytesRead + n
        /\ IF bytesRead + n < request.length
           THEN pc' = "refill" /\ UNCHANGED status
           ELSE pc' = "respond" /\ status' = 200
        /\ UNCHANGED <<script, lockstep, sent, recvd, buffer, p, request,
                       answers>>

(* SessionRefillBuffer: ConnReadInit, then ConnRead. *)
RefillReads ==
    /\ pc = "refill"
    /\ ConnReadOk(Compacted)
    /\ bufferpos' = 0
    /\ pc' = "body"
    /\ UNCHANGED <<script, lockstep, sent, p, request, bytesRead, status,
                   answers, consumed>>

(* Mutant: getBody does not look whether the refill failed. *)
MutantRefillRetries ==
    /\ pc = "refill"
    /\ ConnReadFails(Compacted)
    /\ buffer' = Compacted
    /\ bufferpos' = 0
    /\ pc' = "body"
    /\ UNCHANGED <<script, lockstep, sent, recvd, p, request, bytesRead,
                   status, answers, consumed>>

RefillTimesOut ==
    /\ pc = "refill"
    /\ ConnReadFails(Compacted)
    /\ buffer' = Compacted
    /\ bufferpos' = 0
    /\ status' = 408
    /\ pc' = "respond"
    /\ UNCHANGED <<script, lockstep, sent, recvd, p, request, bytesRead,
                   answers, consumed>>

-----------------------------------------------------------------------------
LastReqOnConn == Len(answers) + 1 >= KeepaliveMaxConn

(* Mutant: the status of the response does not matter. *)
MutantKeepaliveAfterError == request.keepalive /\ ~LastReqOnConn

HTTPKeepalive == request.keepalive /\ ~LastReqOnConn /\ status < 400

(* Mutant: ConnReadInit throws away what is left in the buffer. *)
MutantRespondDropsRest ==
    /\ pc = "respond"
    /\ answers' = Append(answers, status)
    /\ buffer' = <<>>
    /\ bufferpos' = 0
    /\ pc' = IF HTTPKeepalive THEN "wait" ELSE "done"
    /\ UNCHANGED <<script, lockstep, sent, recvd, p, request, bytesRead,
                   status, consumed>>

(***************************************************************************)
(* The response goes out; serverFunc counts the request, and if the        *)
(* connection is to be kept alive it waits for another one.                *)
(***************************************************************************)
Respond ==
    /\ pc = "respond"
    /\ answers' = Append(answers, status)
    /\ buffer' = Compacted
    /\ bufferpos' = 0
    /\ pc' = IF HTTPKeepalive THEN "wait" ELSE "done"
    /\ UNCHANGED <<script, lockstep, sent, recvd, p, request, bytesRead,
                   status, consumed>>

Job ==
    \/ WaitReads \/ WaitGivesUp
    \/ HeaderReads \/ HeaderTimesOut \/ HeaderContinues \/ HeaderComplete
    \/ Handle \/ BodyTakes \/ RefillReads \/ RefillTimesOut
    \/ Respond

Client == \E n \in 1..Len(Wire) : Send(n)

Terminated == pc = "done" /\ UNCHANGED vars

Next == Job \/ Client \/ Terminated

Spec == Init /\ [][Next]_vars

(* The thread is scheduled, and deadlines pass.  The client owes nothing. *)
FairSpec == Spec /\ WF_vars(Job)

-----------------------------------------------------------------------------
(* Properties *)

(***************************************************************************)
(* The buffer's indexes stay in order and inside the buffer: the           *)
(* assertions of SessionGetReadData and ConnReadHeader, and room for the   *)
(* NUL that ConnRead puts after the data.                                  *)
(***************************************************************************)
IndexesInBounds ==
    /\ bufferpos <= buffersize
    /\ buffersize < BufferSize
    /\ pc = "header" => bufferpos <= p /\ p <= buffersize
    /\ bytesRead <= request.length \/ pc \notin {"body", "refill"}

(***************************************************************************)
(* However the bytes arrive and the buffer is compacted and refilled, the  *)
(* bytes waiting in it are exactly the next ones of the stream: none is    *)
(* lost, repeated or moved between the headers and the body.               *)
(***************************************************************************)
StreamIntact ==
    /\ consumed + Unread = recvd
    /\ \A i \in 1..Unread : buffer[bufferpos + i] = consumed + i

(***************************************************************************)
(* The connection is kept alive only at the end of a request: the next     *)
(* request is never read from the middle of the one before.                *)
(***************************************************************************)
KeepAliveAtBoundary == pc = "wait" => consumed \in Boundaries

(***************************************************************************)
(* The job of a connection always returns, whatever the client does: what  *)
(* the connection manager's fairness assumes of it.                        *)
(***************************************************************************)
JobReturns == <>(pc = "done")

(* Each request of the script fits in the buffer, with a byte to spare.    *)
RequestsFit == \A i \in DOMAIN script : Len(script[i]) < BufferSize

(***************************************************************************)
(* A client that sends each request in one piece, after the answer to the  *)
(* one before, and whose requests fit in the buffer, gets an answer to     *)
(* everything it sends, and not a timeout.                                 *)
(***************************************************************************)
SentAnswered ==
    \A n \in 1..KeepaliveMaxConn :
        (lockstep /\ RequestsFit /\ SentRequests >= n /\ pc # "done") ~>
            (Len(answers) >= n /\ answers[n] # 408)

(***************************************************************************)
(* Seen from the outside, the job of a connection is an HTTP exchange:     *)
(* every request that is begun is answered, also one that never becomes    *)
(* complete, and an error or the last response allowed ends it.            *)
(***************************************************************************)
BetweenRequests == pc \in {"wait", "done"}

Exchange == INSTANCE HttpExchange WITH
    Limit <- KeepaliveMaxConn,
    asked <- Len(answers) + (IF BetweenRequests THEN 0 ELSE 1),
    got <- Len(answers),
    last <- IF BetweenRequests /\ answers # <<>> THEN Last(answers) ELSE 0,
    up <- pc # "done"

ImplementsExchange == Exchange!FairSpec

(***************************************************************************)
(* What the comment in processHeaderLine says is done with a line that     *)
(* may go on ("Must read more"): the server does not give up on a header   *)
(* while the rest of it is waiting at the socket and the buffer has room.  *)
(***************************************************************************)
ReadsMoreBeforeGivingUp == [][HeaderTimesOut => BytesToRead = 0]_vars
=============================================================================

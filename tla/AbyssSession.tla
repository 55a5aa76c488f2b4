----------------------------- MODULE AbyssSession -----------------------------
(***************************************************************************)
(* What the Abyss server sends on one connection: processDataFromClient    *)
(* (server.c), the chain of URI handlers, the response functions           *)
(* (response.c, http.c), the XML-RPC handler and its default handler       *)
(* (xmlrpc_server_abyss.c), and Abyss' own default handler, which serves   *)
(* files and directories.  How a request is read is in AbyssConn; here it  *)
(* is what RequestRead has made of it.                                     *)
(*                                                                         *)
(* A response is the sequence of things written for it: a head (status     *)
(* line and fields), plain data, chunks and the final chunk, with sizes in *)
(* bytes.  The client reads the stream as RFC 2616 (4.4) tells it to.      *)
(*                                                                         *)
(* Requests are records:                                                   *)
(*   error    the status RequestRead gave up with, or 0                    *)
(*   method, uri                                                           *)
(*   version  <<major, minor>>, or <<>> for a request line without one     *)
(*   query    "ok", or "bad": not one that determineSortType knows         *)
(*   fields   the header fields; getFieldNameToken makes names lower case  *)
(* Writes succeed: the client takes its responses.                         *)
(***************************************************************************)
EXTENDS Integers, FiniteSets, SequencesExt

CONSTANTS
    Requests,           \* what clients ask
    Handlers,           \* XML-RPC handlers, in the order they were added
    FileHandler,        \* the default handler is ServerDefaultHandlerFunc
    KeepaliveMaxConn,   \* srvP->keepalivemaxconn
    MaxSize,            \* bound on the bytes of an XML response or a file
    Word,               \* file offsets are counted modulo this (2^64)
    Truncates           \* others may shorten a file while it is served

(***************************************************************************)
(* RequestRead takes a request line without a version for the whole        *)
(* request, and refuses with an error of the client or of the server.      *)
(***************************************************************************)
ASSUME RequestsAssumption ==
    \A r \in Requests :
        /\ r.error \in {0} \cup (400..599)
        /\ r.version = <<>> \/ r.version \in Nat \X Nat
        /\ r.version = <<>> => DOMAIN r.fields = {}
ASSUME HandlersAssumption ==
    Handlers \in Seq([uriPath : STRING, chunkResponse : BOOLEAN])
ASSUME SizeAssumption ==
    MaxSize \in Nat \ {0} /\ Word \in Nat /\ 2 * MaxSize < Word
ASSUME LimitAssumption == KeepaliveMaxConn \in Nat \ {0}

(* What RangeDecode takes for a range: "first-", "first-last", "-count".   *)
Offsets == 0..(Word - 1)
RangeTexts ==
    [form : {"from"}, first : Offsets]
        \cup [form : {"span"}, first : Offsets, last : Offsets]
        \cup [form : {"suffix"}, count : Offsets]

ASSUME RangesAssumption ==
    \A r \in Requests :
        "range" \in DOMAIN r.fields => r.fields["range"] \in Seq(RangeTexts)

VARIABLES
    request,    \* the request being processed
    session,    \* the TSession
    pc,         \* where the connection's thread is
    i,          \* runUserHandler: the handler to try next
    parts,      \* ServerFileHandler: the parts of the file to send
    exists,     \* the file is there (it can be moved away and back)
    size,       \* its size
    file,       \* ServerFileHandler's TFile is open
    served,     \* requests begun on the connection
    stream,     \* what was written and the client has not read
    client      \* what the client makes of it

fileVars == <<exists, size>>
connVars == <<served, stream, client>>
vars     == <<request, session, pc, i, parts, file, fileVars, connVars>>

-----------------------------------------------------------------------------
(* The response functions: from a session to the session after the call.   *)

NoLength    == -1
ErrorSize   == 2    \* bytes of an error document
MarkSize    == 1    \* bytes of a multipart boundary and part header
ListingSize == 1    \* bytes of a piece of a directory listing

Data(n)  == [kind |-> "data", n |-> n]
Chunk(n) == [kind |-> "chunk", n |-> n]
EndChunk == [kind |-> "end", n |-> 0]

AtLeast11(version) ==
    version[1] > 1 \/ (version[1] = 1 /\ version[2] >= 1)

HTTPKeepalive(s) == s.keepalive /\ ~s.denied /\ s.status < 400

Chunking(s) == s.chunkedwrite /\ s.chunkedwritemode

HeadToken(s) == [kind |-> "head", n |-> 0, status |-> s.status,
                 length |-> s.length, chunked |-> Chunking(s),
                 keepalive |-> HTTPKeepalive(s)]

ConnWrite(s, token) == [s EXCEPT !.sent = Append(@, token)]

ResponseStatus(s, code) == [s EXCEPT !.status = code]

ResponseContentLength(s, n) == [s EXCEPT !.length = n]

(* Mutant: the client's HTTP version does not matter. *)
MutantChunkedAlways(s) ==
    [s EXCEPT !.chunkedwrite = TRUE, !.chunkedwritemode = TRUE]

ResponseChunked(s) ==
    [s EXCEPT !.chunkedwrite = AtLeast11(s.version),
              !.chunkedwritemode = TRUE]

ResponseWriteStart(s) ==
    LET started == [s EXCEPT !.status = IF @ = 0 THEN 500 ELSE @,
                             !.responseStarted = TRUE]
    IN  ConnWrite(started, HeadToken(started))

HTTPWriteBodyChunk(s, n) ==
    ConnWrite(s, IF Chunking(s) THEN Chunk(n) ELSE Data(n))

HTTPWriteEndChunk(s) ==
    IF Chunking(s)
    THEN ConnWrite([s EXCEPT !.chunkedwritemode = FALSE], EndChunk)
    ELSE s

ResponseError(s) == ConnWrite(ResponseWriteStart(s), Data(ErrorSize))

-----------------------------------------------------------------------------
Init ==
    /\ request = [error |-> 0]
    /\ session = [sent |-> <<>>]
    /\ pc = "read"
    /\ i = 0
    /\ parts = <<>>
    /\ exists \in BOOLEAN
    /\ size \in 0..MaxSize
    /\ FileHandler \/ (~exists /\ size = 0)
    /\ file = FALSE
    /\ served = 0
    /\ stream = <<>>
    /\ client = [mode |-> "head", left |-> 0, more |-> TRUE, status |-> 0]

-----------------------------------------------------------------------------
(* Other programs, on the file system (when there is one to serve). *)

Resize ==
    /\ FileHandler
    /\ size' \in 0..MaxSize
    /\ Truncates \/ size' > size
    /\ UNCHANGED <<request, session, pc, i, parts, exists, file, connVars>>

Move ==
    /\ FileHandler
    /\ exists' = ~exists
    /\ UNCHANGED <<request, session, pc, i, parts, size, file, connVars>>

-----------------------------------------------------------------------------
(* processDataFromClient. *)

FieldIs(r, name, value) == name \in DOMAIN r.fields /\ r.fields[name] = value

(* RequestHeaderValue finds a field by the exact characters of its name. *)
HasField(r, name) == name \in DOMAIN r.fields

(* The versions a request may be taken to have: sessionP->version is not   *)
(* set for a request line without one.                                     *)
VersionsOf(r) ==
    IF r.version = <<>> THEN {<<1, 0>>, <<1, 1>>, <<2, 0>>} ELSE {r.version}

RangesOf(r) == IF HasField(r, "range") THEN r.fields["range"] ELSE <<>>

(***************************************************************************)
(* RequestInit and RequestRead; 'last' denies that the connection is kept  *)
(* alive.                                                                  *)
(***************************************************************************)
NewSession(r, version, last) ==
    [version |-> version,
     keepalive |-> IF HasField(r, "connection")
                   THEN r.fields["connection"] = "keep-alive"
                   ELSE AtLeast11(version),
     denied |-> last,
     status |-> r.error,
     responseStarted |-> FALSE,
     chunkedwrite |-> FALSE,
     chunkedwritemode |-> FALSE,
     length |-> NoLength,
     ranges |-> RangesOf(r),
     sent |-> <<>>]

(* Mutant: one request too many. *)
MutantLastReqLate == served + 1 > KeepaliveMaxConn

(* serverFunc tells the last request it will serve. *)
LastReqOnConn == served + 1 >= KeepaliveMaxConn

(* The client sends a request when it has read what came before: what the  *)
(* server writes does not depend on when the client reads it.              *)
ReadRequest ==
    /\ pc = "read" /\ stream = <<>>
    /\ \E r \in Requests : \E v \in VersionsOf(r) :
          /\ request' = r
          /\ session' = NewSession(r, v, LastReqOnConn)
    /\ served' = served + 1
    /\ pc' = "dispatch"
    /\ file' = FALSE
    /\ UNCHANGED <<i, parts, fileVars, stream, client>>

(* The keep-alive time passes without a request, or the client closes. *)
ReadNothing ==
    /\ pc = "read" /\ stream = <<>>
    /\ pc' = "idle"
    /\ UNCHANGED <<request, session, i, parts, file, fileVars, connVars>>

(* The handlers see nothing that is not a file name; '*' comes out of a URI *)
(* that has no path.                                                       *)
RequestValidURI(r) ==
    /\ r.uri = "*" => r.method # "OPTIONS"
    /\ r.uri # "/a*"

Refuse ==
    /\ pc = "dispatch"
    /\ \/ session.status # 0 /\ UNCHANGED session
       \/ /\ session.status = 0
          /\ session.version[1] >= 2
          /\ session' = ResponseStatus(session, 505)
       \/ /\ session.status = 0
          /\ session.version[1] < 2
          /\ ~RequestValidURI(request)
          /\ session' = ResponseStatus(session, 400)
    /\ pc' = "finish"
    /\ UNCHANGED <<request, i, parts, file, fileVars, connVars>>

RunUserHandler ==
    /\ pc = "dispatch"
    /\ session.status = 0 /\ session.version[1] < 2 /\ RequestValidURI(request)
    /\ i' = Len(Handlers)
    /\ pc' = "handler"
    /\ UNCHANGED <<request, session, parts, file, fileVars, connVars>>

(* A step that ends the handling of a request with the session s. *)
Return(s) ==
    /\ session' = s
    /\ pc' = "finish"

(* Mutant: the limit on requests is forgotten once the head is out. *)
MutantFinishKeepsAlive ==
    /\ pc = "finish"
    /\ LET s == IF session.responseStarted THEN HTTPWriteEndChunk(session)
                                           ELSE ResponseError(session)
       IN  /\ session' = s
           /\ stream' = s.sent
           /\ pc' = IF s.keepalive /\ s.status < 400 THEN "read" ELSE "closed"
    /\ UNCHANGED <<request, i, parts, file, fileVars, served, client>>

(***************************************************************************)
(* A handler that has started the response has written it all but for the  *)
(* final chunk; one that has not leaves it to ResponseError.               *)
(***************************************************************************)
Finish ==
    /\ pc = "finish"
    /\ LET s == IF session.responseStarted THEN HTTPWriteEndChunk(session)
                                           ELSE ResponseError(session)
       IN  /\ session' = s
           /\ stream' = s.sent
           /\ pc' = IF HTTPKeepalive(s) THEN "read" ELSE "closed"
    /\ UNCHANGED <<request, i, parts, file, fileVars, served, client>>

-----------------------------------------------------------------------------
(* runUserHandler calls the handlers from the last one added to the first, *)
(* until one has handled the request.                                      *)

SendError(s, code) == ResponseError(ResponseStatus(s, code))

NextHandler ==
    /\ pc = "handler"
    /\ i > 0 /\ Handlers[i].uriPath # request.uri
    /\ i' = i - 1
    /\ UNCHANGED <<request, session, pc, parts, file, fileVars, connVars>>

DefaultHandler ==
    /\ pc = "handler"
    /\ i = 0
    /\ IF FileHandler THEN pc' = "default" /\ UNCHANGED session
                      ELSE Return(SendError(session, 404))
    /\ UNCHANGED <<request, i, parts, file, fileVars, connVars>>

(***************************************************************************)
(* handleXmlrpcReq: what it refuses a request on its path with; 0 if none. *)
(***************************************************************************)
Refusal(r) ==
    CASE r.method # "POST"                          -> 405
      [] ~FieldIs(r, "content-type", "text/xml")    -> 400
      [] ~HasField(r, "content-length")             -> 411
      [] FieldIs(r, "content-length", "bad")        -> 400
      [] OTHER                                      -> 0

(* sendXmlData with a body of n bytes. *)
SendXmlData(s, n, chunked) ==
    LET t == IF chunked THEN ResponseChunked(s) ELSE s
    IN  HTTPWriteEndChunk(HTTPWriteBodyChunk(ResponseWriteStart(
            ResponseContentLength(ResponseStatus(t, 200), n)), n))

(* Mutant: a refused request is not handled: the next handler is tried. *)
MutantHandleXmlrpcReqGoesOn ==
    /\ pc = "handler"
    /\ i > 0 /\ Handlers[i].uriPath = request.uri
    /\ IF Refusal(request) # 0
       THEN /\ session' = SendError(session, Refusal(request))
            /\ i' = i - 1
            /\ UNCHANGED pc
       ELSE /\ \E n \in 1..MaxSize :
                  Return(SendXmlData(session, n, Handlers[i].chunkResponse))
            /\ UNCHANGED i
    /\ UNCHANGED <<request, parts, file, fileVars, connVars>>

(***************************************************************************)
(* handleXmlrpcReq, with processCall: the body does not come in time (408),*)
(* the call fails outside of the method (500), or there is an answer.      *)
(***************************************************************************)
HandleXmlrpcReq ==
    /\ pc = "handler"
    /\ i > 0 /\ Handlers[i].uriPath = request.uri
    /\ IF Refusal(request) # 0
       THEN Return(SendError(session, Refusal(request)))
       ELSE \/ \E code \in {408, 500} : Return(SendError(session, code))
            \/ \E n \in 1..MaxSize :
                  Return(SendXmlData(session, n, Handlers[i].chunkResponse))
    /\ UNCHANGED <<request, i, parts, file, fileVars, connVars>>

-----------------------------------------------------------------------------
(* ServerDefaultHandlerFunc. *)

(* ResponseStatusFromErrno, when the file system refuses. *)
ErrnoStatus == {403, 404, 500}

(* What is at the path of a URI: "/h/" has a default file, the file.       *)
Target(r) ==
    CASE r.uri \in {"/f", "/h/"} -> IF exists THEN "file"
                                    ELSE IF r.uri = "/h/" THEN "directory"
                                    ELSE "none"
      [] r.uri = "/d/"           -> "directory"
      [] r.uri = "/d"            -> "unslashed"
      [] OTHER                   -> "none"

RequestValidURIPath(r) == r.uri \notin {"*", "/.."}

(* The requests that are answered without a look at the file system. *)
DefaultRefuses ==
    /\ pc = "default"
    /\ \/ /\ ~RequestValidURIPath(request)
          /\ Return(ResponseStatus(session, 400))
       \/ /\ RequestValidURIPath(request)
          /\ request.method = "OPTIONS"
          /\ Return(ResponseStatus(ResponseContentLength(session, 0), 200))
       \/ /\ RequestValidURIPath(request)
          /\ request.method \notin {"OPTIONS", "GET", "HEAD"}
          /\ Return(ResponseStatus(session, 405))
    /\ UNCHANGED <<request, i, parts, file, fileVars, connVars>>

DefaultStats ==
    /\ pc = "default"
    /\ RequestValidURIPath(request) /\ request.method \in {"GET", "HEAD"}
    /\ \/ /\ Target(request) = "none"
          /\ \E code \in ErrnoStatus : Return(ResponseStatus(session, code))
       \/ /\ Target(request) = "unslashed"
          /\ Return(ResponseWriteStart(ResponseStatus(session, 302)))
       \/ /\ Target(request) \in {"file", "directory"}
          /\ pc' = Target(request)
          /\ UNCHANGED session
    /\ UNCHANGED <<request, i, parts, file, fileVars, connVars>>

(* sendDirectoryDocument, unless the method is HEAD, and the final chunk.  *)
Listing(s) ==
    HTTPWriteEndChunk(
        IF request.method = "HEAD" THEN s
        ELSE HTTPWriteBodyChunk(HTTPWriteBodyChunk(s, ListingSize),
                                ListingSize))

(***************************************************************************)
(* ServerDirectoryHandler.  It asks for a field name in mixed case.        *)
(***************************************************************************)
ServerDirectoryHandler ==
    /\ pc = "directory"
    /\ IF request.query = "bad" THEN Return(ResponseStatus(session, 400))
       ELSE IF FieldIs(request, "If-Modified-Since", "current")
       THEN Return(ResponseWriteStart(ResponseStatus(session, 304)))
       ELSE \/ \E code \in ErrnoStatus : Return(ResponseStatus(session, code))
            \/ Return(Listing(ResponseWriteStart(ResponseChunked(
                         ResponseStatus(session, 200)))))
    /\ UNCHANGED <<request, i, parts, file, fileVars, connVars>>

(***************************************************************************)
(* ServerFileHandler opens the file, which may be gone since it was looked *)
(* at; for an unmodified file it returns without FileClose.  A date that   *)
(* is older makes it forget the ranges.                                    *)
(***************************************************************************)
FileOpens ==
    /\ pc = "file"
    /\ IF ~exists
       THEN /\ \E code \in ErrnoStatus :
                  Return(ResponseStatus(session, code))
            /\ UNCHANGED file
       ELSE /\ file' = TRUE
            /\ IF FieldIs(request, "if-modified-since", "current")
               THEN Return(ResponseWriteStart(ResponseStatus(session, 304)))
               ELSE /\ session' =
                          IF FieldIs(request, "if-modified-since", "old")
                          THEN [session EXCEPT !.ranges = <<>>] ELSE session
                    /\ pc' = "fields"
    /\ UNCHANGED <<request, i, parts, fileVars, connVars>>

(* RangeDecode.                                                            *)
RangeValid(r) == r.form = "span" => r.first <= r.last

RangeDecode(r, filesize) ==
    [start |-> IF r.form = "suffix" THEN (filesize - r.count) % Word
                                    ELSE r.first,
     end   |-> IF r.form = "span" THEN r.last ELSE (filesize - 1) % Word]

Whole(filesize) == [start |-> 0, end |-> (filesize - 1) % Word]

Bytes(part) == (part.end - part.start + 1) % Word

(***************************************************************************)
(* The strings of the range list are inside a buffer that                  *)
(* ListAddFromString has freed: they read as they were, or, when the       *)
(* memory has got other contents, as no range.                             *)
(***************************************************************************)
WholeFile ==
    /\ Len(session.ranges) \in {0, 1}
    /\ parts' = <<Whole(size)>>
    /\ session' = ResponseWriteStart(ResponseContentLength(ResponseStatus(
          [session EXCEPT !.ranges = <<>>], 200), size))

OneRange ==
    /\ Len(session.ranges) = 1
    /\ RangeValid(session.ranges[1])
    /\ LET part == RangeDecode(session.ranges[1], size)
       IN  /\ parts' = <<part>>
           /\ session' = ResponseWriteStart(ResponseStatus(
                 ResponseContentLength(session, Bytes(part)), 206))

NoPart == [start |-> 0, end |-> Word - 1]      \* no byte of the file

ManyRanges ==
    /\ Len(session.ranges) > 1
    /\ \E readable \in SUBSET {r \in ToSet(session.ranges) : RangeValid(r)} :
          parts' = [k \in DOMAIN session.ranges |->
                       IF session.ranges[k] \in readable
                       THEN RangeDecode(session.ranges[k], size) ELSE NoPart]
    /\ session' = ResponseWriteStart(ResponseStatus(session, 206))

(* The size is taken, the ranges are decoded, and the head goes out. *)
FileFields ==
    /\ pc = "fields"
    /\ WholeFile \/ OneRange \/ ManyRanges
    /\ pc' = "body"
    /\ UNCHANGED <<request, i, file, fileVars, connVars>>

(* Mutant: the last byte is left out. *)
MutantFromFile(part) ==
    LET n == (part.end - part.start) % Word
    IN  IF n <= size THEN n ELSE size

(* ConnWriteFromFile: lseek refuses offsets that are negative as off_t. *)
FromFile(part) ==
    LET left == IF part.start >= Word \div 2 \/ part.start > size THEN 0
                ELSE size - part.start
    IN  IF Bytes(part) <= left THEN Bytes(part) ELSE left

Mark(s) == ConnWrite(s, Data(MarkSize))

(* sendBody: a part of the file, behind a mark if there are several.       *)
SendPart ==
    /\ pc = "body"
    /\ request.method # "HEAD" /\ parts # <<>>
    /\ session' =
          ConnWrite(IF Len(session.ranges) > 1 THEN Mark(session) ELSE session,
                    Data(FromFile(parts[1])))
    /\ parts' = Tail(parts)
    /\ UNCHANGED <<request, pc, i, file, fileVars, connVars>>

(* Mutant: the file is not closed after a HEAD request. *)
MutantFileCloseNotHead ==
    /\ pc = "body"
    /\ request.method = "HEAD" \/ parts = <<>>
    /\ Return(IF request.method # "HEAD" /\ Len(session.ranges) > 1
              THEN Mark(session) ELSE session)
    /\ file' = (request.method = "HEAD")
    /\ parts' = <<>>
    /\ UNCHANGED <<request, i, fileVars, connVars>>

(* The last mark, and the end of ServerFileHandler; HEAD gets no body. *)
FileClose ==
    /\ pc = "body"
    /\ request.method = "HEAD" \/ parts = <<>>
    /\ Return(IF request.method # "HEAD" /\ Len(session.ranges) > 1
              THEN Mark(session) ELSE session)
    /\ file' = FALSE
    /\ parts' = <<>>
    /\ UNCHANGED <<request, i, fileVars, connVars>>

-----------------------------------------------------------------------------
(* The client.                                                             *)
(*                                                                         *)
(* mode    what it expects next: the "head" of a response, "data" of known *)
(*         length, "chunks", data "toClose"; or it is "lost"               *)
(* left    how much data                                                   *)
(* more    the last head said that the connection will be kept alive; if   *)
(*         not, what comes after the response is ignored                   *)
(* status  the status in the last head                                     *)

(* What follows a head; the client of a request line without a version     *)
(* takes all there is as the answer.                                       *)
AfterHead(token) ==
    IF request.version = <<>> THEN "toClose"
    ELSE IF request.method = "HEAD" \/ token.status \in {204, 304} THEN "head"
    ELSE IF token.chunked
         THEN IF AtLeast11(request.version) THEN "chunks" ELSE "lost"
    ELSE IF token.length = NoLength THEN "toClose"
    ELSE IF token.length = 0 THEN "head"
    ELSE "data"

Reads(c, token) ==
    CASE token.kind = "data" /\ token.n = 0                     -> c
      [] token.kind # "head" /\ c.mode = "toClose"              -> c
      [] token.kind # "head" /\ c.mode = "head" /\ ~c.more      -> c
      [] token.kind = "head" /\ c.mode = "head" /\ c.more ->
            [mode |-> AfterHead(token), left |-> token.length,
             more |-> token.keepalive, status |-> token.status]
      [] token.kind = "data" /\ c.mode = "data" /\ token.n < c.left ->
            [c EXCEPT !.left = @ - token.n]
      [] token.kind = "data" /\ c.mode = "data" /\ token.n = c.left ->
            [c EXCEPT !.mode = "head"]
      [] token.kind = "chunk" /\ c.mode = "chunks" /\ token.n > 0 -> c
      [] token.kind = "end" /\ c.mode = "chunks" ->
            [c EXCEPT !.mode = "head"]
      [] OTHER -> [c EXCEPT !.mode = "lost"]

ClientReads ==
    /\ stream # <<>>
    /\ client' = Reads(client, stream[1])
    /\ stream' = Tail(stream)
    /\ UNCHANGED <<request, session, pc, i, parts, file, fileVars, served>>

-----------------------------------------------------------------------------
Handler ==
    \/ NextHandler \/ HandleXmlrpcReq \/ DefaultHandler
    \/ DefaultRefuses \/ DefaultStats \/ ServerDirectoryHandler
    \/ FileOpens \/ FileFields \/ SendPart \/ FileClose

Server == Refuse \/ RunUserHandler \/ Handler \/ Finish

Others == Resize \/ Move

Terminated == pc \in {"idle", "closed"} /\ stream = <<>> /\ UNCHANGED vars

Next ==
    \/ ReadRequest \/ ReadNothing
    \/ Server
    \/ ClientReads
    \/ Others
    \/ Terminated

Spec == Init /\ [][Next]_vars

(***************************************************************************)
(* The connection's thread is scheduled, and the client reads what is sent *)
(* to it.  It need not ask anything.                                       *)
(***************************************************************************)
FairSpec == Spec /\ WF_vars(Server) /\ WF_vars(ClientReads)

-----------------------------------------------------------------------------
(* Properties *)

SessionType ==
    [version : Nat \X Nat, keepalive : BOOLEAN, denied : BOOLEAN,
     status : Nat, responseStarted : BOOLEAN, chunkedwrite : BOOLEAN,
     chunkedwritemode : BOOLEAN, length : {NoLength} \cup (0..(Word - 1))]

Resting == pc \in {"read", "idle", "closed"}

TypeOK ==
    /\ pc \in {"read", "dispatch", "handler", "default", "file", "fields",
               "body", "directory", "finish", "idle", "closed"}
    /\ ~Resting => [f \in DOMAIN session \ {"ranges", "sent"} |-> session[f]]
                      \in SessionType
    /\ i \in 0..Len(Handlers)
    /\ exists \in BOOLEAN
    /\ size \in 0..MaxSize
    /\ file \in BOOLEAN
    /\ served \in 0..KeepaliveMaxConn
    /\ client.mode \in {"head", "data", "chunks", "toClose", "lost"}

(***************************************************************************)
(* The assertions of the response functions and of processDataFromClient:  *)
(* a response is begun once, whatever handlers have done before, nothing   *)
(* goes out before its head, and a request leaves the handlers with a      *)
(* status.                                                                 *)
(***************************************************************************)
OneHead ==
    ~Resting =>
        /\ session.responseStarted <=> session.sent # <<>>
        /\ \A k \in DOMAIN session.sent :
              session.sent[k].kind = "head" <=> k = 1
        /\ pc = "finish" => session.status # 0

(* The client has read all there is, and something was sent. *)
AllRead == Resting /\ stream = <<>> /\ served > 0

(* It knows that the response is over. *)
KnowsEnd == client.mode = "head" \/ (pc = "closed" /\ client.mode = "toClose")

(***************************************************************************)
(* The client can tell the responses apart: when the server has finished   *)
(* one on a connection it keeps alive, the client has found its end and    *)
(* has the server's status.  On a connection that the server closes, the   *)
(* client has the last response, too.                                      *)
(***************************************************************************)
ResponsesDelimited ==
    AllRead => KnowsEnd /\ client.status = session.status

(***************************************************************************)
(* It holds for whatever is asked of a server of XML-RPC calls.  The files *)
(* and directories that Abyss serves have answers with a body of which the *)
(* client does not know the end: OPTIONS, a redirection, a listing without *)
(* chunks, the final chunk behind the head that HEAD asks for, several     *)
(* parts of a file, parts of it that need not be there, and anything for a *)
(* client without a version.  These are the requests that have no other:   *)
(***************************************************************************)
KeptAlive(r) == \E v \in VersionsOf(r) : NewSession(r, v, FALSE).keepalive

Followable(r) ==
    /\ r.version # <<>>
    /\ KeptAlive(r) =>
          /\ r.method # "OPTIONS"
          /\ r.method = "GET" => r.uri # "/d" /\ Len(RangesOf(r)) <= 1
          /\ r.uri \in {"/d/", "/h/"} /\ r.method \in {"GET", "HEAD"} =>
                (r.method = "GET" <=> AtLeast11(r.version))
    /\ r.method = "GET" /\ Len(RangesOf(r)) = 1 =>
          LET range == RangesOf(r)[1]
          IN  RangeValid(range) => range.form = "from" /\ range.first = 0

Followed == FileHandler => ~Truncates /\ \A r \in Requests : Followable(r)

(***************************************************************************)
(* The Connection field of a response announces what the server does then, *)
(* although the decision is taken anew after the response.                 *)
(***************************************************************************)
ConnectionAsAnnounced ==
    [][Finish => (pc' = "read") = session'.sent[1].keepalive]_vars

(***************************************************************************)
(* A request leaves the file open only if it was answered 304.             *)
(***************************************************************************)
FileClosed == pc = "finish" /\ file => session.status = 304

(***************************************************************************)
(* The client sees an HTTP exchange: its requests are answered one at a    *)
(* time, each of them in the end, and none after an error or the last one. *)
(***************************************************************************)
Answered == served = 0 \/ (AllRead /\ KnowsEnd)

Exchange == INSTANCE HttpExchange WITH
    Limit <- KeepaliveMaxConn,
    asked <- served,
    got <- IF Answered THEN served ELSE served - 1,
    last <- IF Answered THEN client.status ELSE 0,
    up <- pc \notin {"idle", "closed"} \/ stream # <<>>

ImplementsExchange == Exchange!FairSpec
=============================================================================

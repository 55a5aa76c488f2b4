------------------------- MODULE AbyssSession_proofs -------------------------
(***************************************************************************)
(* Proofs about the responses of a session, for every set of requests,     *)
(* every chain of handlers and every file; then that the client of a       *)
(* session can tell the responses apart, and sees an HTTP exchange.        *)
(***************************************************************************)
EXTENDS AbyssSession, CommonLemmas, TLAPS

SessionFields ==
    {"version", "keepalive", "denied", "status", "responseStarted",
     "chunkedwrite", "chunkedwritemode", "length", "ranges", "sent"}

IsSession(s) ==
    /\ s = [f \in SessionFields |-> s[f]]
    /\ \E T : s.sent \in Seq(T)

(* Nothing was sent.                                                       *)
Fresh(s) == IsSession(s) /\ s.responseStarted = FALSE /\ s.sent = <<>>

(* A head was sent, which announces the decision that the session still    *)
(* leads to, and, after it, anything but another head.                     *)
Started(s) ==
    /\ IsSession(s)
    /\ s.responseStarted = TRUE
    /\ s.sent # <<>>
    /\ \A k \in DOMAIN s.sent : s.sent[k].kind = "head" <=> k = 1
    /\ s.sent[1].keepalive = HTTPKeepalive(s)

(***************************************************************************)
(* The invariant: the handlers are called with nothing sent; only the file *)
(* handler keeps a begun response from one step to the next; and all of    *)
(* them end with a status.                                                 *)
(***************************************************************************)
BeforeHead == {"dispatch", "handler", "default", "directory", "file", "fields"}

Ended(s) == (Fresh(s) \/ Started(s)) /\ s.status # 0

HeadInv ==
    /\ pc \in BeforeHead \cup {"read", "body", "finish", "idle", "closed"}
    /\ pc \in BeforeHead => Fresh(session)
    /\ pc = "body" => Started(session) /\ session.status # 0
    /\ pc = "finish" => Ended(session)

-----------------------------------------------------------------------------
(* The response functions.                                                 *)

(* The fields on which the decision rests.                                 *)
LEMMA KeepaliveFields ==
    ASSUME NEW s, NEW t, s.keepalive = t.keepalive, s.denied = t.denied,
           s.status = t.status
    PROVE  HTTPKeepalive(s) = HTTPKeepalive(t)
BY DEF HTTPKeepalive

(* What is set before a response begins leaves it unbegun.                 *)
LEMMA FreshStays ==
    ASSUME NEW s, NEW x, Fresh(s)
    PROVE  /\ Fresh(ResponseStatus(s, x)) /\ ResponseStatus(s, x).status = x
           /\ Fresh(ResponseContentLength(s, x))
           /\ ResponseContentLength(s, x).status = s.status
           /\ Fresh(ResponseChunked(s))
           /\ ResponseChunked(s).status = s.status
           /\ Fresh([s EXCEPT !.ranges = x])
           /\ [s EXCEPT !.ranges = x].status = s.status
BY DEF Fresh, IsSession, SessionFields, ResponseStatus,
       ResponseContentLength, ResponseChunked

(* Only a head begins a response.                                          *)
LEMMA WriteStarts ==
    ASSUME NEW s, Fresh(s)
    PROVE  Started(ResponseWriteStart(s)) /\ ResponseWriteStart(s).status # 0
<1> DEFINE t == [s EXCEPT !.status = IF @ = 0 THEN 500 ELSE @,
                          !.responseStarted = TRUE]
<1>1. t = [f \in SessionFields |-> t[f]] /\ t.sent = <<>>
      /\ t.status # 0 /\ t.responseStarted = TRUE
  <2>1. t = [f \in SessionFields |-> t[f]]
    BY ZenonT(40) DEF Fresh, IsSession, SessionFields
  <2>2. t.sent = <<>>
    BY DEF Fresh, IsSession, SessionFields
  <2>3. t.responseStarted = TRUE
    BY DEF Fresh, IsSession, SessionFields
  <2>4. t.status # 0
    BY DEF Fresh, IsSession, SessionFields
  <2> QED BY <2>1, <2>2, <2>3, <2>4
<1> DEFINE h == HeadToken(t)
           u == ConnWrite(t, h)
<1>2. h.kind = "head" /\ h.keepalive = HTTPKeepalive(t)
  BY DEF HeadToken
<1>3. u = [f \in SessionFields |-> u[f]] /\ u.sent = <<h>>
      /\ u.status = t.status /\ u.responseStarted = TRUE
      /\ u.keepalive = t.keepalive /\ u.denied = t.denied
  <2> HIDE DEF t, h
  <2>1. Append(<<>>, h) = <<h>>
    OBVIOUS
  <2>2. u = [t EXCEPT !.sent = <<h>>]
    BY <1>1, <2>1 DEF ConnWrite
  <2> HIDE DEF u
  <2> QED BY <1>1, <2>2 DEF SessionFields
<1>4. ResponseWriteStart(s) = u
  BY DEF ResponseWriteStart
<1> HIDE DEF t, h, u
<1>5. Started(u)
  <2> DEFINE one == <<h>>
  <2>1. one \in Seq({h}) /\ Len(one) = 1 /\ one[1] = h
    OBVIOUS
  <2> HIDE DEF one
  <2>2. one # <<>> /\ DOMAIN one = {1}
    BY <2>1
  <2>3. \A k \in DOMAIN one : one[k].kind = "head" <=> k = 1
    BY <1>2, <2>1, <2>2
  <2>4. u.sent = one
    BY <1>3 DEF one
  <2>5. u.sent[1].keepalive = HTTPKeepalive(u)
    <3>1. HTTPKeepalive(u) = HTTPKeepalive(t)
      BY <1>3, KeepaliveFields
    <3> QED
      BY <1>2, <2>1, <2>4, <3>1
  <2> QED BY <1>3, <2>1, <2>2, <2>3, <2>4, <2>5 DEF Started, IsSession
<1> QED
  BY <1>1, <1>3, <1>4, <1>5

(* A handler may end by setting a status, or by sending a bare head.       *)
LEMMA StatusEnds ==
    ASSUME NEW s, NEW code, Fresh(s), code # 0
    PROVE  Ended(ResponseStatus(s, code))
<1>1. Fresh(ResponseStatus(s, code)) /\ ResponseStatus(s, code).status = code
  BY FreshStays
<1> QED
  BY <1>1 DEF Ended

LEMMA HeadEnds ==
    ASSUME NEW s, NEW code, Fresh(s)
    PROVE  /\ Started(ResponseWriteStart(ResponseStatus(s, code)))
           /\ ResponseWriteStart(ResponseStatus(s, code)).status # 0
           /\ Ended(ResponseWriteStart(ResponseStatus(s, code)))
<1> DEFINE t == ResponseStatus(s, code)
<1>1. Fresh(t)
  BY FreshStays
<1> HIDE DEF t
<1>2. Started(ResponseWriteStart(t)) /\ ResponseWriteStart(t).status # 0
  BY <1>1, WriteStarts
<1>3. Ended(ResponseWriteStart(t))
  BY <1>2 DEF Ended
<1> QED
  BY <1>2, <1>3 DEF t

(* Anything else goes behind it.                                           *)
LEMMA WriteContinues ==
    ASSUME NEW s, NEW token, Started(s), token.kind # "head"
    PROVE  Started(ConnWrite(s, token)) /\ ConnWrite(s, token).status = s.status
<1> DEFINE q == s.sent
           r == Append(q, token)
<1>1. PICK T : q \in Seq(T)
  BY DEF Started, IsSession
<1>2. r \in Seq(T \cup {token})
  <2>1. q \in Seq(T \cup {token})
    BY <1>1
  <2> QED BY <2>1
<1>3. /\ DOMAIN r = 1 .. (Len(q) + 1) /\ DOMAIN q = 1 .. Len(q)
      /\ Len(q) \in Nat /\ r # <<>>
      /\ \A k \in 1 .. Len(q) : r[k] = q[k]
      /\ r[Len(q) + 1] = token
  BY <1>1
<1>4. Len(q) # 0
  BY <1>1 DEF Started
<1>5. \A k \in DOMAIN r : r[k].kind = "head" <=> k = 1
  <2>1. \A k \in DOMAIN q : q[k].kind = "head" <=> k = 1
    BY DEF Started
  <2> HIDE DEF q, r
  <2> QED BY <1>3, <1>4, <2>1
<1> DEFINE u == ConnWrite(s, token)
<1>6. u = [f \in SessionFields |-> u[f]] /\ u.sent = r
      /\ u.status = s.status /\ u.responseStarted = TRUE
      /\ u.keepalive = s.keepalive /\ u.denied = s.denied
  <2> HIDE DEF r
  <2>1. u = [s EXCEPT !.sent = r]
    BY DEF ConnWrite, r
  <2> HIDE DEF u
  <2> QED BY <2>1 DEF Started, IsSession, SessionFields
<1>7. r[1].keepalive = HTTPKeepalive(u)
  <2>1. HTTPKeepalive(u) = HTTPKeepalive(s)
    <3> HIDE DEF u
    <3> QED BY <1>6, KeepaliveFields
  <2>2. q[1].keepalive = HTTPKeepalive(s)
    BY DEF Started
  <2>3. r[1] = q[1]
    <3> HIDE DEF q, r
    <3> QED BY <1>3, <1>4
  <2> HIDE DEF q, r, u
  <2> QED BY <2>1, <2>2, <2>3
<1> HIDE DEF r, u
<1>8. Started(u)
  BY <1>2, <1>3, <1>5, <1>6, <1>7 DEF Started, IsSession
<1> QED
  BY <1>6, <1>8 DEF u

(* The body of a response, chunked or not.                                 *)
LEMMA BodyContinues ==
    ASSUME NEW s, NEW n, Started(s)
    PROVE  /\ Started(HTTPWriteBodyChunk(s, n))
           /\ HTTPWriteBodyChunk(s, n).status = s.status
           /\ Started(HTTPWriteEndChunk(s))
           /\ HTTPWriteEndChunk(s).status = s.status
<1>1. Chunk(n).kind # "head" /\ Data(n).kind # "head" /\ EndChunk.kind # "head"
  BY DEF Chunk, Data, EndChunk
<1>2. /\ Started(HTTPWriteBodyChunk(s, n))
      /\ HTTPWriteBodyChunk(s, n).status = s.status
  BY <1>1, WriteContinues DEF HTTPWriteBodyChunk
<1> DEFINE t == [s EXCEPT !.chunkedwritemode = FALSE]
<1>3. /\ t = [f \in SessionFields |-> t[f]] /\ t.sent = s.sent
      /\ t.responseStarted = s.responseStarted /\ t.status = s.status
      /\ t.keepalive = s.keepalive /\ t.denied = s.denied
  BY DEF Started, IsSession, SessionFields
<1>4. Started(t)
  <2> HIDE DEF t
  <2>1. HTTPKeepalive(t) = HTTPKeepalive(s)
    BY <1>3, KeepaliveFields
  <2> QED BY <1>3, <2>1 DEF Started, IsSession
<1>5. HTTPWriteEndChunk(s) = IF Chunking(s) THEN ConnWrite(t, EndChunk) ELSE s
  BY DEF HTTPWriteEndChunk
<1> HIDE DEF t
<1>6. Started(ConnWrite(t, EndChunk)) /\ ConnWrite(t, EndChunk).status = t.status
  BY <1>1, <1>4, WriteContinues
<1> QED
  BY <1>2, <1>3, <1>5, <1>6

(* What ResponseError sends is a whole response, too.                      *)
LEMMA ErrorStarts ==
    ASSUME NEW s, Fresh(s)
    PROVE  Started(ResponseError(s))
<1> DEFINE t == ResponseWriteStart(s)
<1>1. Started(t)
  BY WriteStarts
<1>2. Data(ErrorSize).kind # "head"
  BY DEF Data
<1>3. ResponseError(s) = ConnWrite(t, Data(ErrorSize))
  BY DEF ResponseError
<1> HIDE DEF t
<1> QED
  BY <1>1, <1>2, <1>3, WriteContinues

(* sendError and sendXmlData send whole responses.                         *)
LEMMA SendErrorStarts ==
    ASSUME NEW s, NEW code, Fresh(s)
    PROVE  Started(SendError(s, code)) /\ SendError(s, code).status # 0
<1> DEFINE t == ResponseWriteStart(ResponseStatus(s, code))
<1>1. Started(t) /\ t.status # 0
  BY HeadEnds
<1>2. Data(ErrorSize).kind # "head"
  BY DEF Data
<1>3. SendError(s, code) = ConnWrite(t, Data(ErrorSize))
  BY DEF SendError, ResponseError
<1> HIDE DEF t
<1> QED
  BY <1>1, <1>2, <1>3, WriteContinues

LEMMA SendXmlDataStarts ==
    ASSUME NEW s, NEW n, NEW chunked, Fresh(s)
    PROVE  /\ Started(SendXmlData(s, n, chunked))
           /\ SendXmlData(s, n, chunked).status # 0
<1> DEFINE t == IF chunked THEN ResponseChunked(s) ELSE s
           u == ResponseContentLength(ResponseStatus(t, 200), n)
           v == ResponseWriteStart(u)
           w == HTTPWriteBodyChunk(v, n)
<1>1. Fresh(t)
  BY FreshStays
<1>2. Fresh(u)
  <2> HIDE DEF t
  <2> QED BY ZenonT(40), <1>1, FreshStays
<1>3. Started(v) /\ v.status # 0
  <2> HIDE DEF u
  <2> QED BY <1>2, WriteStarts
<1>4. Started(w) /\ w.status # 0
  <2> HIDE DEF v
  <2> QED BY <1>3, BodyContinues
<1>5. SendXmlData(s, n, chunked) = HTTPWriteEndChunk(w)
  BY DEF SendXmlData
<1> HIDE DEF w
<1> QED
  BY <1>4, <1>5, BodyContinues

LEMMA ListingContinues ==
    ASSUME NEW s, Started(s), s.status # 0
    PROVE  Started(Listing(s)) /\ Listing(s).status # 0
<1> DEFINE t == HTTPWriteBodyChunk(s, ListingSize)
           u == HTTPWriteBodyChunk(t, ListingSize)
           v == IF request.method = "HEAD" THEN s ELSE u
<1>1. Started(t) /\ t.status # 0
  BY BodyContinues
<1>2. Started(u) /\ u.status # 0
  <2> HIDE DEF t
  <2> QED BY <1>1, BodyContinues
<1>3. Started(v) /\ v.status # 0
  <2> HIDE DEF u
  <2> QED BY <1>2
<1>4. Listing(s) = HTTPWriteEndChunk(v)
  BY DEF Listing
<1> HIDE DEF v
<1> QED
  BY <1>3, <1>4, BodyContinues

-----------------------------------------------------------------------------
(* The actions.                                                            *)

(* A handler that returns has left a status.                               *)
LEMMA ReturnEnds ==
    ASSUME NEW s, Ended(s), Return(s)
    PROVE  HeadInv'
BY DEF Return, HeadInv, BeforeHead

(* A request begins unanswered.                                            *)
LEMMA NewSessionFresh ==
    ASSUME NEW r, NEW version, NEW last
    PROVE  Fresh(NewSession(r, version, last))
<1> DEFINE s == NewSession(r, version, last)
<1>1. s = [f \in SessionFields |-> s[f]]
  BY DEF NewSession, SessionFields
<1>2. s.sent = <<>> /\ s.responseStarted = FALSE
  BY DEF NewSession
<1>3. s.sent \in Seq({})
  BY <1>2
<1> HIDE DEF s
<1>4. Fresh(s)
  BY <1>1, <1>2, <1>3 DEF Fresh, IsSession
<1> QED
  BY <1>4 DEF s

LEMMA StepHeadInv == HeadInv /\ [Next]_vars => HeadInv'
<1> SUFFICES ASSUME HeadInv, [Next]_vars PROVE HeadInv'
  OBVIOUS
<1>1. CASE ReadRequest
  <2>1. PICK r, v :
           session' = NewSession(r, v, LastReqOnConn)
    BY <1>1 DEF ReadRequest
  <2>2. Fresh(session')
    BY <2>1, NewSessionFresh
  <2> QED
    BY <1>1, <2>2 DEF ReadRequest, HeadInv, BeforeHead
<1>2. CASE ReadNothing
  BY <1>2 DEF ReadNothing, HeadInv, BeforeHead
<1>3. CASE Refuse
  <2>1. Fresh(session) /\ pc' = "finish"
    BY <1>3 DEF Refuse, HeadInv, BeforeHead
  <2>2. \A code : code # 0 => Ended(ResponseStatus(session, code))
    BY <2>1, StatusEnds
  <2>3. \/ session.status # 0 /\ session' = session
        \/ \E code \in {400, 505} : session' = ResponseStatus(session, code)
    BY <1>3 DEF Refuse
  <2>4. Ended(session')
    <3>1. CASE session.status # 0 /\ session' = session
      BY <2>1, <3>1 DEF Ended
    <3> QED
      BY <2>2, <2>3, <3>1
  <2> QED
    BY <2>1, <2>4 DEF HeadInv, BeforeHead
<1>4. CASE RunUserHandler
  BY <1>4 DEF RunUserHandler, HeadInv, BeforeHead
<1>5. CASE NextHandler
  BY <1>5 DEF NextHandler, HeadInv, BeforeHead
<1>6. CASE HandleXmlrpcReq
  <2>1. Fresh(session)
    BY <1>6 DEF HandleXmlrpcReq, HeadInv, BeforeHead
  <2>2. \A code : Ended(SendError(session, code))
    BY <2>1, SendErrorStarts DEF Ended
  <2>3. \A n, chunked : Ended(SendXmlData(session, n, chunked))
    BY <2>1, SendXmlDataStarts DEF Ended
  <2> QED
    BY <1>6, <2>2, <2>3, ReturnEnds DEF HandleXmlrpcReq
<1>7. CASE DefaultHandler
  <2>1. Fresh(session)
    BY <1>7 DEF DefaultHandler, HeadInv, BeforeHead
  <2>2. Ended(SendError(session, 404))
    BY <2>1, SendErrorStarts DEF Ended
  <2>3. CASE FileHandler
    BY <1>7, <2>1, <2>3 DEF DefaultHandler, HeadInv, BeforeHead
  <2>4. CASE ~FileHandler
    BY <1>7, <2>2, <2>4, ReturnEnds DEF DefaultHandler
  <2> QED
    BY <2>3, <2>4
<1>8. CASE DefaultRefuses
  <2>1. Fresh(session)
    BY <1>8 DEF DefaultRefuses, HeadInv, BeforeHead
  <2>2. \A code : code # 0 => Ended(ResponseStatus(session, code))
    BY <2>1, StatusEnds
  <2>3. Fresh(ResponseContentLength(session, 0))
    BY <2>1, FreshStays
  <2>4. Ended(ResponseStatus(ResponseContentLength(session, 0), 200))
    <3> DEFINE s == ResponseContentLength(session, 0)
    <3> HIDE DEF s
    <3>1. Fresh(s)
      BY <2>3 DEF s
    <3>2. Ended(ResponseStatus(s, 200))
      BY <3>1, StatusEnds
    <3> QED
      BY <3>2 DEF s
  <2> QED
    BY <1>8, <2>2, <2>4, ReturnEnds DEF DefaultRefuses
<1>9. CASE DefaultStats
  <2>1. Fresh(session)
    BY <1>9 DEF DefaultStats, HeadInv, BeforeHead
  <2>2. \A code : code # 0 => Ended(ResponseStatus(session, code))
    BY <2>1, StatusEnds
  <2>3. Ended(ResponseWriteStart(ResponseStatus(session, 302)))
    BY <2>1, HeadEnds
  <2>4. CASE pc' = Target(request) /\ UNCHANGED session
              /\ Target(request) \in {"file", "directory"}
    BY <2>1, <2>4 DEF HeadInv, BeforeHead
  <2>5. CASE \E code \in ErrnoStatus : Return(ResponseStatus(session, code))
    BY <2>2, <2>5, ReturnEnds DEF ErrnoStatus
  <2>6. CASE Return(ResponseWriteStart(ResponseStatus(session, 302)))
    BY <2>3, <2>6, ReturnEnds
  <2> QED
    BY <1>9, <2>4, <2>5, <2>6 DEF DefaultStats
<1>10. CASE ServerDirectoryHandler
  <2>1. Fresh(session)
    BY <1>10 DEF ServerDirectoryHandler, HeadInv, BeforeHead
  <2>2. \A code : code # 0 => Ended(ResponseStatus(session, code))
    BY <2>1, StatusEnds
  <2>3. Ended(ResponseWriteStart(ResponseStatus(session, 304)))
    BY <2>1, HeadEnds
  <2> DEFINE s == ResponseWriteStart(ResponseChunked(
                                        ResponseStatus(session, 200)))
  <2>4. Started(s) /\ s.status # 0
    <3>1. Fresh(ResponseStatus(session, 200))
      BY <2>1, FreshStays
    <3>2. Fresh(ResponseChunked(ResponseStatus(session, 200)))
      BY <3>1, FreshStays
    <3> QED
      BY <3>2, WriteStarts
  <2>5. Ended(Listing(s))
    <3> HIDE DEF s
    <3> QED BY <2>4, ListingContinues DEF Ended
  <2>6. \/ \E code \in ErrnoStatus \cup {400} :
              Return(ResponseStatus(session, code))
        \/ Return(ResponseWriteStart(ResponseStatus(session, 304)))
        \/ Return(Listing(s))
    BY <1>10 DEF ServerDirectoryHandler
  <2> HIDE DEF s
  <2> QED
    BY <2>2, <2>3, <2>5, <2>6, ReturnEnds DEF ErrnoStatus
<1>11. CASE FileOpens
  <2>1. Fresh(session)
    BY <1>11 DEF FileOpens, HeadInv, BeforeHead
  <2>2. \A code : code # 0 => Ended(ResponseStatus(session, code))
    BY <2>1, StatusEnds
  <2>3. Ended(ResponseWriteStart(ResponseStatus(session, 304)))
    BY <2>1, HeadEnds
  <2>4. CASE pc' = "fields"
    <3>1. Fresh([session EXCEPT !.ranges = <<>>])
      BY <2>1, FreshStays
    <3>2. Fresh(session')
      BY <1>11, <2>1, <2>4, <3>1 DEF FileOpens, Return
    <3> QED
      BY <2>4, <3>2 DEF HeadInv, BeforeHead
  <2>5. CASE \E code \in ErrnoStatus : Return(ResponseStatus(session, code))
    BY <2>2, <2>5, ReturnEnds DEF ErrnoStatus
  <2>6. CASE Return(ResponseWriteStart(ResponseStatus(session, 304)))
    BY <2>3, <2>6, ReturnEnds
  <2> QED
    BY <1>11, <2>4, <2>5, <2>6 DEF FileOpens
<1>12. CASE FileFields
  <2>1. Fresh(session)
    BY <1>12 DEF FileFields, HeadInv, BeforeHead
  <2>2. Started(session') /\ session'.status # 0
    <3>1. CASE WholeFile
      <4>1. Fresh([session EXCEPT !.ranges = <<>>])
        BY <2>1, FreshStays
      <4> DEFINE s == ResponseStatus([session EXCEPT !.ranges = <<>>], 200)
                 t == ResponseContentLength(s, size)
      <4>2. Fresh(s)
        BY <4>1, FreshStays
      <4>3. Fresh(t)
        <5> HIDE DEF s
        <5> QED BY <4>2, FreshStays
      <4>4. session' = ResponseWriteStart(t)
        BY <3>1 DEF WholeFile
      <4> HIDE DEF t
      <4> QED
        BY <4>3, <4>4, WriteStarts
    <3>2. CASE OneRange
      <4>1. PICK n : session' = ResponseWriteStart(ResponseStatus(
                                   ResponseContentLength(session, n), 206))
        BY <3>2 DEF OneRange
      <4>2. Fresh(ResponseContentLength(session, n))
        BY <2>1, FreshStays
      <4> QED
        BY <4>1, <4>2, HeadEnds
    <3>3. CASE ManyRanges
      BY <3>3, <2>1, HeadEnds DEF ManyRanges
    <3> QED
      BY <1>12, <3>1, <3>2, <3>3 DEF FileFields
  <2> QED
    BY <1>12, <2>2 DEF FileFields, HeadInv, BeforeHead
<1>13. CASE SendPart
  <2>1. Started(session) /\ session.status # 0
    BY <1>13 DEF SendPart, HeadInv
  <2>2. \A n : Data(n).kind # "head"
    BY DEF Data
  <2> DEFINE s == IF Len(session.ranges) > 1 THEN Mark(session) ELSE session
             token == Data(FromFile(parts[1]))
  <2>3. Started(s) /\ s.status # 0
    BY <2>1, <2>2, WriteContinues DEF Mark
  <2>4. session' = ConnWrite(s, token) /\ token.kind # "head"
    BY <1>13, <2>2 DEF SendPart
  <2> HIDE DEF s, token
  <2>5. Started(session') /\ session'.status # 0
    BY <2>3, <2>4, WriteContinues
  <2> QED
    BY <1>13, <2>5 DEF SendPart, HeadInv, BeforeHead
<1>14. CASE FileClose
  <2>1. Started(session) /\ session.status # 0
    BY <1>14 DEF FileClose, HeadInv
  <2>2. Data(MarkSize).kind # "head"
    BY DEF Data
  <2>3. Ended(session) /\ Ended(Mark(session))
    BY <2>1, <2>2, WriteContinues DEF Mark, Ended
  <2> QED
    BY <1>14, <2>3, ReturnEnds DEF FileClose
<1>15. CASE Finish
  BY <1>15 DEF Finish, HeadInv, BeforeHead
<1>16. CASE ClientReads \/ Resize \/ Move \/ Terminated \/ UNCHANGED vars
  <2>1. UNCHANGED <<session, pc>>
    BY <1>16 DEF ClientReads, Resize, Move, Terminated, vars
  <2> QED
    BY <2>1 DEF HeadInv
<1> QED
  BY <1>1, <1>2, <1>3, <1>4, <1>5, <1>6, <1>7, <1>8, <1>9, <1>10, <1>11,
     <1>12, <1>13, <1>14, <1>15, <1>16 DEF Next, Server, Handler, Others

(***************************************************************************)
(* Every response has one head, before anything else, and no request       *)
(* leaves the handlers without a status: OneHead, whatever is asked.       *)
(***************************************************************************)
THEOREM ResponsesBegunOnce == Spec => []OneHead
<1>1. Init => HeadInv
  BY DEF Init, HeadInv, BeforeHead
<1>2. HeadInv => OneHead
  BY DEF HeadInv, BeforeHead, OneHead, Resting, Ended, Fresh, Started
<1> QED
  BY <1>1, <1>2, StepHeadInv, PTL DEF Spec

(***************************************************************************)
(* The connection is kept alive if and only if the head of the response    *)
(* has said so: ConnectionAsAnnounced, whatever is asked.                  *)
(***************************************************************************)
THEOREM AnnouncementKept == Spec => ConnectionAsAnnounced
<1>1. Init => HeadInv
  BY DEF Init, HeadInv, BeforeHead
<1>2. HeadInv /\ Finish => (pc' = "read") = session'.sent[1].keepalive
  <2> SUFFICES ASSUME HeadInv, Finish
               PROVE  (pc' = "read") = session'.sent[1].keepalive
    OBVIOUS
  <2>1. Fresh(session) \/ Started(session)
    BY DEF Finish, HeadInv, Ended
  <2>2. /\ Fresh(session) => Started(ResponseError(session))
        /\ Started(session) => Started(HTTPWriteEndChunk(session))
    BY ErrorStarts, BodyContinues
  <2>3. Started(session')
    <3>1. Fresh(session) => session.responseStarted = FALSE
      BY DEF Fresh
    <3>2. Started(session) => session.responseStarted = TRUE
      BY DEF Started
    <3>3. session' = IF session.responseStarted THEN HTTPWriteEndChunk(session)
                                                ELSE ResponseError(session)
      BY DEF Finish
    <3> QED
      BY <2>1, <2>2, <3>1, <3>2, <3>3
  <2>4. session'.sent[1].keepalive = HTTPKeepalive(session')
    BY <2>3 DEF Started
  <2>5. pc' = IF HTTPKeepalive(session') THEN "read" ELSE "closed"
    BY DEF Finish
  <2>6. (pc' = "read") = HTTPKeepalive(session')
    BY <2>5 DEF HTTPKeepalive
  <2> QED
    BY <2>4, <2>6
<1>3. HeadInv /\ [Next]_vars
         => [Finish => (pc' = "read") = session'.sent[1].keepalive]_vars
  BY <1>2
<1> QED
  BY <1>1, <1>3, StepHeadInv, PTL DEF Spec, ConnectionAsAnnounced

-----------------------------------------------------------------------------
(***************************************************************************)
(* A session has its fields.  What the response functions do with it.      *)
(***************************************************************************)
Settled(s) ==
    /\ IsSession(s)
    /\ s.version \in Nat \X Nat
    /\ s.keepalive \in BOOLEAN /\ s.denied \in BOOLEAN
    /\ s.status \in Nat /\ s.responseStarted \in BOOLEAN
    /\ s.chunkedwrite \in BOOLEAN /\ s.chunkedwritemode \in BOOLEAN
    /\ s.length \in {NoLength} \cup (0..(Word - 1))
    /\ s.ranges \in Seq(RangeTexts)

(* They leave the decisions of RequestRead alone.                          *)
Follows(t, s) ==
    /\ Settled(t)
    /\ t.version = s.version /\ t.denied = s.denied
    /\ t.keepalive = s.keepalive

(* The calls that set something.                                           *)
LEMMA SettersFollow ==
    ASSUME NEW s, Settled(s), NEW code \in Nat,
           NEW n \in {NoLength} \cup (0..(Word - 1))
    PROVE  /\ Follows(ResponseStatus(s, code), s)
           /\ Follows(ResponseContentLength(s, n), s)
           /\ Follows(ResponseChunked(s), s)
           /\ Follows([s EXCEPT !.ranges = <<>>], s)
<1>1. s = [f \in SessionFields |-> s[f]] /\ \E T : s.sent \in Seq(T)
  BY DEF Settled, IsSession
<1>2. Follows(ResponseStatus(s, code), s)
  <2> DEFINE t == ResponseStatus(s, code)
  <2>1. /\ t = [f \in SessionFields |-> t[f]]
        /\ \A f \in SessionFields \ {"status"} : t[f] = s[f]
        /\ t.status = code
    BY <1>1 DEF ResponseStatus, SessionFields
  <2> HIDE DEF t
  <2>2. QED
    BY <1>1, <2>1 DEF Follows, Settled, IsSession, SessionFields, t
<1>3. Follows(ResponseContentLength(s, n), s)
  <2> DEFINE t == ResponseContentLength(s, n)
  <2>1. /\ t = [f \in SessionFields |-> t[f]]
        /\ \A f \in SessionFields \ {"length"} : t[f] = s[f]
        /\ t.length = n
    BY <1>1 DEF ResponseContentLength, SessionFields
  <2> HIDE DEF t
  <2>2. QED
    BY <1>1, <2>1 DEF Follows, Settled, IsSession, SessionFields, t
<1>4. Follows(ResponseChunked(s), s)
  <2> DEFINE t == ResponseChunked(s)
  <2>1. /\ t = [f \in SessionFields |-> t[f]]
        /\ \A f \in SessionFields \ {"chunkedwrite", "chunkedwritemode"} :
               t[f] = s[f]
        /\ t.chunkedwrite = AtLeast11(s.version) /\ t.chunkedwritemode = TRUE
    BY <1>1 DEF ResponseChunked, SessionFields
  <2>2. AtLeast11(s.version) \in BOOLEAN
    BY DEF AtLeast11
  <2> HIDE DEF t
  <2>3. QED
    BY <1>1, <2>1, <2>2 DEF Follows, Settled, IsSession, SessionFields, t
<1>5. Follows([s EXCEPT !.ranges = <<>>], s)
  <2> DEFINE t == [s EXCEPT !.ranges = <<>>]
  <2>1. /\ t = [f \in SessionFields |-> t[f]]
        /\ \A f \in SessionFields \ {"ranges"} : t[f] = s[f]
        /\ t.ranges = <<>>
    BY <1>1 DEF SessionFields
  <2>2. <<>> \in Seq(RangeTexts)
    OBVIOUS
  <2> HIDE DEF t
  <2>3. QED
    BY <1>1, <2>1, <2>2 DEF Follows, Settled, IsSession, SessionFields, t
<1>6. QED
  BY <1>2, <1>3, <1>4, <1>5

(* A write.                                                                *)
LEMMA WritesFollow ==
    ASSUME NEW s, Settled(s), NEW token
    PROVE  Follows(ConnWrite(s, token), s)
<1> DEFINE r == Append(s.sent, token)
           t == ConnWrite(s, token)
<1>1. s = [f \in SessionFields |-> s[f]]
  BY DEF Settled, IsSession
<1>2. PICK T : s.sent \in Seq(T)
  BY DEF Settled, IsSession
<1>3. r \in Seq(T \cup {token})
  BY <1>2
<1>4. t = [s EXCEPT !.sent = r]
  BY DEF ConnWrite
<1> HIDE DEF r, t
<1>5. /\ t = [f \in SessionFields |-> t[f]]
      /\ \A f \in SessionFields \ {"sent"} : t[f] = s[f]
      /\ t.sent = r
  BY <1>1, <1>4 DEF SessionFields
<1>6. Follows(t, s)
  BY <1>3, <1>5 DEF Follows, Settled, IsSession, SessionFields
<1>7. QED
  BY <1>6 DEF t

(* One call after another.                                                 *)
LEMMA FollowsThrough ==
    ASSUME NEW s, NEW t, NEW u, Follows(t, s), Follows(u, t)
    PROVE  Follows(u, s) /\ Settled(t)
BY DEF Follows

(* The head.                                                               *)
LEMMA StartFollows ==
    ASSUME NEW s, Settled(s)
    PROVE  Follows(ResponseWriteStart(s), s)
<1> DEFINE t == [s EXCEPT !.status = IF @ = 0 THEN 500 ELSE @,
                          !.responseStarted = TRUE]
<1>1. s = [f \in SessionFields |-> s[f]]
  BY DEF Settled, IsSession
<1>2. /\ t = [f \in SessionFields |-> t[f]]
      /\ \A f \in SessionFields \ {"status", "responseStarted"} : t[f] = s[f]
      /\ t.status = IF s.status = 0 THEN 500 ELSE s.status
      /\ t.responseStarted = TRUE
  BY ZenonT(40), <1>1 DEF SessionFields
<1>3. Follows(t, s)
  <2> HIDE DEF t
  <2>1. t.status \in Nat
    BY <1>2 DEF Settled
  <2>2. IsSession(t)
    <3>1. t.sent = s.sent
      BY <1>2 DEF SessionFields
    <3>2. \E T : s.sent \in Seq(T)
      BY DEF Settled, IsSession
    <3>3. QED
      BY <1>2, <3>1, <3>2 DEF IsSession
  <2>3. QED
    BY <1>2, <2>1, <2>2 DEF Follows, Settled, SessionFields
<1>4. ResponseWriteStart(s) = ConnWrite(t, HeadToken(t))
  BY DEF ResponseWriteStart
<1> HIDE DEF t
<1>5. Follows(ConnWrite(t, HeadToken(t)), t)
  BY <1>3, WritesFollow DEF Follows
<1>6. QED
  BY <1>3, <1>4, <1>5, FollowsThrough

(* The body, and the final chunk.                                          *)
LEMMA BodyFollows ==
    ASSUME NEW s, Settled(s), NEW n
    PROVE  /\ Follows(HTTPWriteBodyChunk(s, n), s)
           /\ Follows(HTTPWriteEndChunk(s), s)
<1>1. Follows(HTTPWriteBodyChunk(s, n), s)
  BY WritesFollow DEF HTTPWriteBodyChunk
<1> DEFINE t == [s EXCEPT !.chunkedwritemode = FALSE]
<1>2. s = [f \in SessionFields |-> s[f]]
  BY DEF Settled, IsSession
<1>3. /\ t = [f \in SessionFields |-> t[f]]
      /\ \A f \in SessionFields \ {"chunkedwritemode"} : t[f] = s[f]
      /\ t.chunkedwritemode = FALSE
  BY <1>2 DEF SessionFields
<1>4. HTTPWriteEndChunk(s) = IF Chunking(s) THEN ConnWrite(t, EndChunk) ELSE s
  BY DEF HTTPWriteEndChunk
<1> HIDE DEF t
<1>5. Follows(t, s)
  BY <1>3 DEF Follows, Settled, IsSession, SessionFields
<1>6. Follows(ConnWrite(t, EndChunk), t)
  BY <1>5, WritesFollow DEF Follows
<1>7. Follows(ConnWrite(t, EndChunk), s)
  BY <1>5, <1>6, FollowsThrough
<1>8. Follows(s, s)
  BY DEF Follows
<1>9. QED
  BY <1>1, <1>4, <1>7, <1>8

(* An error, and its body.                                                 *)
LEMMA ErrorFollows ==
    ASSUME NEW s, Settled(s), NEW code \in Nat
    PROVE  Follows(ResponseError(s), s) /\ Follows(SendError(s, code), s)
<1>1. ASSUME NEW t, Settled(t)
      PROVE  Follows(ResponseError(t), t)
  <2> DEFINE u == ResponseWriteStart(t)
  <2>1. Follows(u, t)
    BY <1>1, StartFollows
  <2>2. ResponseError(t) = ConnWrite(u, Data(ErrorSize))
    BY DEF ResponseError
  <2> HIDE DEF u
  <2>3. Follows(ConnWrite(u, Data(ErrorSize)), u)
    BY <2>1, WritesFollow DEF Follows
  <2>4. QED
    BY <2>1, <2>2, <2>3, FollowsThrough
<1>2. Follows(ResponseStatus(s, code), s)
  <2>1. NoLength \in {NoLength} \cup (0..(Word - 1))
    OBVIOUS
  <2>2. QED
    BY <2>1, SettersFollow
<1>3. Follows(ResponseError(ResponseStatus(s, code)), ResponseStatus(s, code))
  BY <1>1, <1>2 DEF Follows
<1>4. QED
  BY <1>1, <1>2, <1>3, FollowsThrough DEF SendError

(* The answer to a call.                                                   *)
LEMMA SendXmlDataFollows ==
    ASSUME NEW s, Settled(s), NEW n \in 1..MaxSize, NEW chunked
    PROVE  Follows(SendXmlData(s, n, chunked), s)
<1> DEFINE t == IF chunked THEN ResponseChunked(s) ELSE s
           u == ResponseStatus(t, 200)
           v == ResponseContentLength(u, n)
           w == ResponseWriteStart(v)
           x == HTTPWriteBodyChunk(w, n)
<1>1. n \in {NoLength} \cup (0..(Word - 1)) /\ 200 \in Nat
  BY SizeAssumption
<1>2. Follows(t, s)
  BY <1>1, SettersFollow DEF Follows
<1>3. Follows(u, s)
  <2> HIDE DEF t
  <2>1. Settled(t)
    BY <1>2 DEF Follows
  <2>2. Follows(u, t)
    BY <1>1, <2>1, SettersFollow
  <2>3. QED
    BY <1>2, <2>2, FollowsThrough
<1>4. Follows(v, s)
  <2> HIDE DEF u
  <2>1. Follows(v, u)
    BY <1>1, <1>3, SettersFollow DEF Follows
  <2>2. QED
    BY <1>3, <2>1, FollowsThrough
<1>5. Follows(w, s)
  <2> HIDE DEF v
  <2>1. Follows(w, v)
    BY <1>4, StartFollows DEF Follows
  <2>2. QED
    BY <1>4, <2>1, FollowsThrough
<1>6. Follows(x, s)
  <2> HIDE DEF w
  <2>1. Follows(x, w)
    BY <1>5, BodyFollows DEF Follows
  <2>2. QED
    BY <1>5, <2>1, FollowsThrough
<1>7. SendXmlData(s, n, chunked) = HTTPWriteEndChunk(x)
  BY DEF SendXmlData
<1> HIDE DEF x
<1>8. Follows(HTTPWriteEndChunk(x), x)
  BY <1>6, BodyFollows DEF Follows
<1>9. QED
  BY <1>6, <1>7, <1>8, FollowsThrough

(* A directory.                                                            *)
LEMMA ListingFollows ==
    ASSUME NEW s, Settled(s)
    PROVE  Follows(Listing(s), s)
<1> DEFINE t == HTTPWriteBodyChunk(s, ListingSize)
           u == HTTPWriteBodyChunk(t, ListingSize)
           v == IF request.method = "HEAD" THEN s ELSE u
<1>1. Follows(t, s)
  BY BodyFollows
<1>2. Follows(u, s)
  <2> HIDE DEF t
  <2>1. Follows(u, t)
    BY <1>1, BodyFollows DEF Follows
  <2>2. QED
    BY <1>1, <2>1, FollowsThrough
<1>3. Follows(v, s)
  <2> HIDE DEF u
  <2>1. Follows(s, s)
    BY DEF Follows
  <2>2. QED
    BY <1>2, <2>1
<1>4. Listing(s) = HTTPWriteEndChunk(v)
  BY DEF Listing
<1> HIDE DEF v
<1>5. Follows(HTTPWriteEndChunk(v), v)
  BY <1>3, BodyFollows DEF Follows
<1>6. QED
  BY <1>3, <1>4, <1>5, FollowsThrough

(* A head with a status, and possibly a length.                            *)
LEMMA HeadFollows ==
    ASSUME NEW s, Settled(s), NEW code \in Nat,
           NEW n \in {NoLength} \cup (0..(Word - 1))
    PROVE  /\ Follows(ResponseWriteStart(ResponseStatus(s, code)), s)
           /\ Follows(ResponseStatus(ResponseContentLength(s, n), code), s)
           /\ Follows(ResponseWriteStart(
                  ResponseStatus(ResponseContentLength(s, n), code)), s)
           /\ Follows(ResponseWriteStart(
                  ResponseContentLength(ResponseStatus(s, code), n)), s)
           /\ Follows(ResponseWriteStart(
                  ResponseChunked(ResponseStatus(s, code))), s)
<1>1. ASSUME NEW t, Follows(t, s)
      PROVE  Follows(ResponseWriteStart(t), s)
  <2>1. Follows(ResponseWriteStart(t), t)
    BY <1>1, StartFollows DEF Follows
  <2>2. QED
    BY <1>1, <2>1, FollowsThrough
<1>2. ASSUME NEW t, Follows(t, s)
      PROVE  /\ Follows(ResponseStatus(t, code), s)
             /\ Follows(ResponseContentLength(t, n), s)
             /\ Follows(ResponseChunked(t), s)
  <2>1. /\ Follows(ResponseStatus(t, code), t)
        /\ Follows(ResponseContentLength(t, n), t)
        /\ Follows(ResponseChunked(t), t)
    BY <1>2, SettersFollow DEF Follows
  <2>2. QED
    BY <1>2, <2>1, FollowsThrough
<1>3. Follows(s, s)
  BY DEF Follows
<1>4. Follows(ResponseStatus(s, code), s) /\ Follows(ResponseContentLength(s, n), s)
  BY <1>2, <1>3
<1>5. /\ Follows(ResponseStatus(ResponseContentLength(s, n), code), s)
      /\ Follows(ResponseContentLength(ResponseStatus(s, code), n), s)
      /\ Follows(ResponseChunked(ResponseStatus(s, code)), s)
  BY <1>2, <1>4
<1>6. QED
  BY <1>1, <1>4, <1>5

(* Whatever the server does with a session, it keeps the version of the    *)
(* request and the decision that it is the last one.                       *)
LEMMA ServerFollows ==
    ASSUME Settled(session), size \in 0..MaxSize, Server
    PROVE  Follows(session', session)
<1> DEFINE lengths == {NoLength} \cup (0..(Word - 1))
<1>1. /\ size \in lengths /\ 0 \in lengths
      /\ Word \in Nat /\ Word > 0
  BY SizeAssumption
<1>2. Follows(session, session)
  BY DEF Follows
<1>3. \A code \in Nat : Follows(ResponseStatus(session, code), session)
  BY <1>1, SettersFollow
<1>4. \A code \in Nat : Follows(SendError(session, code), session)
  BY ErrorFollows
<1>5. \A code \in Nat :
          Follows(ResponseWriteStart(ResponseStatus(session, code)), session)
  BY <1>1, HeadFollows
<1>6. \A n : /\ Follows(ConnWrite(session, n), session)
             /\ Follows(Mark(session), session)
  BY WritesFollow DEF Mark
<1>7. Follows([session EXCEPT !.ranges = <<>>], session)
  BY <1>1, SettersFollow
<1>8. CASE Refuse
  BY <1>2, <1>3, <1>8 DEF Refuse
<1>9. CASE RunUserHandler \/ NextHandler
  BY <1>2, <1>9 DEF RunUserHandler, NextHandler
<1>10. CASE HandleXmlrpcReq
  <2>1. Refusal(request) \in Nat
    BY DEF Refusal
  <2>2. \A n \in 1..MaxSize : \A c :
            Follows(SendXmlData(session, n, c), session)
    BY SendXmlDataFollows
  <2>3. QED
    BY <1>4, <1>10, <2>1, <2>2 DEF HandleXmlrpcReq, Return
<1>11. CASE DefaultHandler
  BY <1>2, <1>4, <1>11 DEF DefaultHandler, Return
<1>12. CASE DefaultRefuses
  <2>1. Follows(ResponseStatus(ResponseContentLength(session, 0), 200), session)
    BY <1>1, HeadFollows
  <2>2. QED
    BY <1>3, <1>12, <2>1 DEF DefaultRefuses, Return
<1>13. CASE DefaultStats
  BY <1>2, <1>3, <1>5, <1>13 DEF DefaultStats, Return, ErrnoStatus
<1>14. CASE ServerDirectoryHandler
  <2> DEFINE s == ResponseWriteStart(ResponseChunked(
                                        ResponseStatus(session, 200)))
  <2>1. Follows(s, session)
    BY <1>1, HeadFollows
  <2>2. Follows(Listing(s), session)
    <3> HIDE DEF s
    <3>1. Follows(Listing(s), s)
      BY <2>1, ListingFollows DEF Follows
    <3>2. QED
      BY <2>1, <3>1, FollowsThrough
  <2> HIDE DEF s
  <2>3. \/ \E code \in ErrnoStatus \cup {400} :
              Return(ResponseStatus(session, code))
        \/ Return(ResponseWriteStart(ResponseStatus(session, 304)))
        \/ Return(Listing(s))
    BY <1>14 DEF ServerDirectoryHandler, s
  <2>4. QED
    BY <1>3, <1>5, <2>2, <2>3 DEF Return, ErrnoStatus
<1>15. CASE FileOpens
  BY <1>2, <1>3, <1>5, <1>7, <1>15 DEF FileOpens, Return, ErrnoStatus
<1>16. CASE FileFields
  <2>1. CASE WholeFile
    <3> DEFINE s == [session EXCEPT !.ranges = <<>>]
    <3>1. Follows(s, session)
      BY <1>7
    <3>2. session' = ResponseWriteStart(
                         ResponseContentLength(ResponseStatus(s, 200), size))
      BY <2>1 DEF WholeFile
    <3> HIDE DEF s
    <3>3. Settled(s)
      BY <3>1 DEF Follows
    <3>4. \A n \in lengths : Follows(ResponseWriteStart(
              ResponseContentLength(ResponseStatus(s, 200), n)), s)
      BY <3>3, HeadFollows
    <3>5. Follows(session', s)
      BY <1>1, <3>2, <3>4
    <3>6. QED
      BY <3>1, <3>5, FollowsThrough
  <2>2. CASE OneRange
    <3> DEFINE part == RangeDecode(session.ranges[1], size)
               n == Bytes(part)
    <3>1. n \in 0..(Word - 1)
      <4>1. session.ranges[1] \in RangeTexts
        BY <2>2 DEF OneRange, Settled
      <4>2. part.start \in Int /\ part.end \in Int
        BY <1>1, <4>1, SizeAssumption DEF RangeTexts, RangeDecode, Offsets
      <4> HIDE DEF part
      <4>3. QED
        BY <1>1, <4>2 DEF Bytes
    <3>2. session' = ResponseWriteStart(ResponseStatus(
                         ResponseContentLength(session, n), 206))
      BY <2>2 DEF OneRange
    <3> HIDE DEF n
    <3>3. QED
      BY <3>1, <3>2, HeadFollows
  <2>3. CASE ManyRanges
    BY <1>5, <2>3 DEF ManyRanges
  <2>4. QED
    BY <1>16, <2>1, <2>2, <2>3 DEF FileFields
<1>17. CASE SendPart
  <2> DEFINE s == IF Len(session.ranges) > 1 THEN Mark(session) ELSE session
             token == Data(FromFile(parts[1]))
  <2>1. Follows(s, session)
    BY <1>2, <1>6
  <2>2. session' = ConnWrite(s, token)
    BY <1>17 DEF SendPart
  <2> HIDE DEF s, token
  <2>3. Follows(session', s)
    BY <2>1, <2>2, WritesFollow DEF Follows
  <2>4. QED
    BY <2>1, <2>3, FollowsThrough
<1>18. CASE FileClose
  BY <1>2, <1>6, <1>18 DEF FileClose, Return
<1>19. CASE Finish
  BY <1>19, ErrorFollows, BodyFollows DEF Finish
<1>20. QED
  BY <1>8, <1>9, <1>10, <1>11, <1>12, <1>13, <1>14, <1>15, <1>16, <1>17,
     <1>18, <1>19 DEF Server, Handler

(* What RequestRead has made of a request is a session.                    *)
LEMMA NewSessionSettled ==
    ASSUME NEW r \in Requests, NEW v \in VersionsOf(r), NEW last \in BOOLEAN
    PROVE  /\ Settled(NewSession(r, v, last))
           /\ NewSession(r, v, last).version = v
           /\ NewSession(r, v, last).denied = last
<1> DEFINE s == NewSession(r, v, last)
<1>1. /\ r.error \in {0} \cup (400..599)
      /\ r.version = <<>> \/ r.version \in Nat \X Nat
      /\ "range" \in DOMAIN r.fields => r.fields["range"] \in Seq(RangeTexts)
  BY RequestsAssumption, RangesAssumption
<1>2. v \in Nat \X Nat
  BY <1>1 DEF VersionsOf
<1>3. s.version = v /\ s.denied = last
  BY DEF NewSession
<1>4. s.keepalive \in BOOLEAN
  BY DEF NewSession, AtLeast11
<1>5. s.ranges \in Seq(RangeTexts)
  <2>1. <<>> \in Seq(RangeTexts)
    OBVIOUS
  <2>2. QED
    BY <1>1, <2>1 DEF NewSession, HasField, RangesOf
<1>6. IsSession(s)
  BY NewSessionFresh DEF Fresh
<1>7. s.status \in Nat
  <2>1. s.status = r.error
    BY DEF NewSession
  <2>2. r.error \in Nat
    <3>1. r.error \in {0} \cup (400..599)
      BY <1>1
    <3>2. \A n \in {0} \cup (400..599) : n \in Nat
      OBVIOUS
    <3>3. QED
      BY ONLY <3>1, <3>2
  <2> HIDE DEF s
  <2>3. QED
    BY ONLY <2>1, <2>2
<1>8. /\ s.responseStarted = FALSE /\ s.chunkedwrite = FALSE
      /\ s.chunkedwritemode = FALSE /\ s.length = NoLength
  BY DEF NewSession
<1> HIDE DEF s
<1>9. Settled(s)
  BY <1>2, <1>3, <1>4, <1>5, <1>6, <1>7, <1>8 DEF Settled
<1>10. QED
  BY <1>3, <1>9 DEF s

(***************************************************************************)
(* The invariant behind the types: the connection is at its last request   *)
(* exactly if the session says so, and rests with another one to come only *)
(* before that.                                                            *)
(***************************************************************************)
Stages == BeforeHead \cup {"read", "body", "finish", "idle", "closed"}

ClientModes == {"head", "data", "chunks", "toClose", "lost"}

IsClient(c) ==
    /\ c = [mode |-> c.mode, left |-> c.left, more |-> c.more,
            status |-> c.status]
    /\ c.mode \in ClientModes

TurnInv ==
    /\ pc \in Stages
    /\ i \in 0..Len(Handlers)
    /\ exists \in BOOLEAN /\ size \in 0..MaxSize /\ file \in BOOLEAN
    /\ served \in 0..KeepaliveMaxConn
    /\ pc = "read" => served < KeepaliveMaxConn
    /\ ~Resting => /\ served > 0
                   /\ request \in Requests
                   /\ Settled(session)
                   /\ session.denied = (served >= KeepaliveMaxConn)
                   /\ session.version \in VersionsOf(request)
    /\ IsClient(client)

(* What the client makes of a token is a state of the client.              *)
LEMMA ReadsTyped ==
    ASSUME NEW c, NEW token, IsClient(c)
    PROVE  IsClient(Reads(c, token))
<1>1. AfterHead(token) \in ClientModes
  BY DEF AfterHead, ClientModes
<1>2. Reads(c, token) \in
          {c, [mode |-> AfterHead(token), left |-> token.length,
               more |-> token.keepalive, status |-> token.status],
           [c EXCEPT !.left = @ - token.n], [c EXCEPT !.mode = "head"],
           [c EXCEPT !.mode = "lost"]}
  BY DEF Reads
<1> DEFINE x == [mode |-> AfterHead(token), left |-> token.length,
                 more |-> token.keepalive, status |-> token.status]
<1>3. IsClient(x)
  BY <1>1 DEF IsClient
<1>4. IsClient([c EXCEPT !.left = @ - token.n])
  BY DEF IsClient
<1>5. IsClient([c EXCEPT !.mode = "head"]) /\ IsClient([c EXCEPT !.mode = "lost"])
  BY DEF IsClient, ClientModes
<1> HIDE DEF x
<1>6. QED
  BY <1>2, <1>3, <1>4, <1>5 DEF x

(* TurnInv says more than TypeOK.                                          *)
LEMMA TypesFollow == TurnInv => TypeOK
<1> SUFFICES ASSUME TurnInv PROVE TypeOK
  OBVIOUS
<1>1. ASSUME ~Resting
      PROVE  [f \in DOMAIN session \ {"ranges", "sent"} |-> session[f]]
                 \in SessionType
  <2>1. Settled(session)
    BY <1>1 DEF TurnInv
  <2>2. DOMAIN session = SessionFields
    BY <2>1 DEF Settled, IsSession
  <2>3. DOMAIN session \ {"ranges", "sent"} =
            {"version", "keepalive", "denied", "status", "responseStarted",
             "chunkedwrite", "chunkedwritemode", "length"}
    BY <2>2 DEF SessionFields
  <2>4. QED
    BY <2>1, <2>3 DEF SessionType, Settled
<1>2. QED
  BY <1>1 DEF TurnInv, TypeOK, Stages, BeforeHead, IsClient, ClientModes

(* It holds before the first request.                                      *)
LEMMA InitTurnInv == Init => TurnInv
<1> SUFFICES ASSUME Init PROVE TurnInv
  OBVIOUS
<1>1. pc \in Stages /\ Resting
  BY DEF Init, Stages, Resting
<1>2. i \in 0..Len(Handlers)
  BY HandlersAssumption DEF Init
<1>3. served \in 0..KeepaliveMaxConn /\ served < KeepaliveMaxConn
  BY LimitAssumption DEF Init
<1>4. IsClient(client)
  BY DEF Init, IsClient, ClientModes
<1>5. exists \in BOOLEAN /\ size \in 0..MaxSize /\ file \in BOOLEAN
  BY DEF Init
<1>6. QED
  BY <1>1, <1>2, <1>3, <1>4, <1>5 DEF TurnInv

(* The steps of the server, but for the last one of a request.             *)
LEMMA ServerMoves ==
    ASSUME TurnInv, Server
    PROVE  /\ pc \notin {"read", "idle", "closed"}
           /\ pc' \in Stages
           /\ i' \in 0..Len(Handlers) /\ file' \in BOOLEAN
           /\ UNCHANGED <<request, fileVars, served, client>>
           /\ ~Finish => /\ pc' \notin {"read", "idle", "closed"}
                         /\ UNCHANGED stream
<1>1. Len(Handlers) \in Nat
  BY HandlersAssumption
<1>2. i \in 0..Len(Handlers) /\ file \in BOOLEAN
  BY DEF TurnInv
<1>3. CASE Refuse \/ RunUserHandler
  BY <1>1, <1>2, <1>3 DEF Refuse, RunUserHandler, Stages, BeforeHead, connVars
<1>4. CASE NextHandler \/ HandleXmlrpcReq \/ DefaultHandler
  BY <1>1, <1>2, <1>4 DEF NextHandler, HandleXmlrpcReq, DefaultHandler, Return,
                          Stages, BeforeHead, connVars
<1>5. CASE DefaultRefuses \/ DefaultStats \/ ServerDirectoryHandler
  BY <1>1, <1>2, <1>5 DEF DefaultRefuses, DefaultStats, ServerDirectoryHandler,
                          Return, Stages, BeforeHead, connVars
<1>6. CASE FileOpens \/ FileFields
  BY <1>1, <1>2, <1>6 DEF FileOpens, FileFields, Return, Stages, BeforeHead,
                          connVars
<1>7. CASE SendPart \/ FileClose
  BY <1>1, <1>2, <1>7 DEF SendPart, FileClose, Return, Stages, BeforeHead,
                          connVars, TurnInv
<1>8. CASE Finish
  BY <1>1, <1>2, <1>8 DEF Finish, Stages, BeforeHead
<1>9. QED
  BY <1>3, <1>4, <1>5, <1>6, <1>7, <1>8 DEF Server, Handler

(* Every step keeps it.                                                    *)
LEMMA StepTurnInv == TurnInv /\ [Next]_vars => TurnInv'
<1> SUFFICES ASSUME TurnInv, [Next]_vars PROVE TurnInv'
  OBVIOUS
<1>1. CASE ReadRequest
  <2>0. PICK r \in Requests : \E v \in VersionsOf(r) :
            request' = r /\ session' = NewSession(r, v, LastReqOnConn)
    BY <1>1 DEF ReadRequest
  <2>1. PICK v \in VersionsOf(r) :
            request' = r /\ session' = NewSession(r, v, LastReqOnConn)
    BY <2>0
  <2>2. LastReqOnConn \in BOOLEAN
    BY DEF LastReqOnConn
  <2>3. /\ Settled(session') /\ session'.version = v
        /\ session'.denied = LastReqOnConn
    BY <2>1, <2>2, NewSessionSettled
  <2>4. /\ served' = served + 1 /\ served' \in 0..KeepaliveMaxConn
        /\ LastReqOnConn = (served' >= KeepaliveMaxConn)
    BY <1>1, LimitAssumption DEF ReadRequest, TurnInv, LastReqOnConn
  <2>5. pc' = "dispatch" /\ file' = FALSE /\ UNCHANGED <<i, fileVars, client>>
    BY <1>1 DEF ReadRequest
  <2>6. served' > 0
    BY <2>4 DEF TurnInv
  <2>7. QED
    BY <2>1, <2>3, <2>4, <2>5, <2>6
       DEF TurnInv, Stages, BeforeHead, fileVars, IsClient
<1>2. CASE ReadNothing
  BY <1>2 DEF ReadNothing, TurnInv, Stages, Resting, fileVars, connVars, IsClient
<1>3. CASE Server
  <2>1. /\ ~Resting /\ pc' \in Stages
        /\ i' \in 0..Len(Handlers) /\ file' \in BOOLEAN
        /\ UNCHANGED <<request, fileVars, served, client>>
        /\ ~Finish => pc' \notin {"read", "idle", "closed"}
    BY <1>3, ServerMoves DEF Resting
  <2>2. Follows(session', session)
    BY <1>3, <2>1, ServerFollows DEF TurnInv
  <2>3. /\ Settled(session') /\ session'.version = session.version
        /\ session'.denied = session.denied
    BY <2>2 DEF Follows
  <2>4. pc' = "read" => served' < KeepaliveMaxConn
    <3>1. CASE Finish
      <4>1. pc' = "read" => HTTPKeepalive(session')
        BY <3>1 DEF Finish
      <4>2. pc' = "read" => ~session'.denied
        BY <4>1 DEF HTTPKeepalive
      <4>3. session'.denied = (served >= KeepaliveMaxConn)
        BY <2>1, <2>3 DEF TurnInv
      <4>4. served' = served /\ served \in Nat
        BY <2>1 DEF TurnInv
      <4>5. pc' = "read" => ~(served >= KeepaliveMaxConn)
        BY ONLY <4>2, <4>3
      <4>6. QED
        BY <4>4, <4>5, LimitAssumption
    <3>2. QED
      BY <2>1, <3>1
  <2>5. QED
    BY <2>1, <2>3, <2>4 DEF TurnInv, fileVars, IsClient
<1>4. CASE ClientReads
  <2>1. IsClient(client')
    BY <1>4, ReadsTyped DEF ClientReads, TurnInv
  <2>2. UNCHANGED <<request, session, pc, i, file, exists, size, served>>
    BY <1>4 DEF ClientReads, fileVars
  <2>3. QED
    BY <2>1, <2>2 DEF TurnInv, Resting
<1>5. CASE Others
  BY <1>5 DEF Others, Resize, Move, TurnInv, Resting, connVars, IsClient
<1>6. CASE Terminated \/ UNCHANGED vars
  BY <1>6 DEF Terminated, vars, fileVars, connVars, TurnInv, Resting, IsClient
<1>7. QED
  BY <1>1, <1>2, <1>3, <1>4, <1>5, <1>6 DEF Next

(***************************************************************************)
(* The state has its types, whatever is asked: TypeOK.  In particular no   *)
(* more than KeepaliveMaxConn requests are served on a connection, and a   *)
(* session that is being handled has a status, a version and a length.     *)
(***************************************************************************)
THEOREM TypeCorrect == Spec => []TypeOK
<1>1. QED
  BY InitTurnInv, StepTurnInv, TypesFollow, PTL DEF Spec
-----------------------------------------------------------------------------
(***************************************************************************)
(* The stream q is one response, with this status, to the request that was *)
(* made, and the client can tell where it ends: it ends with the           *)
(* connection; or it has no body, a body of the length in its head, or     *)
(* chunks and the final chunk.                                             *)
(***************************************************************************)
Body(q) == 2..Len(q)

(* q is a response with a body of which the client finds the end.          *)
EndsWell(q, keep) ==
    \/ ~keep /\ AfterHead(q[1]) \in {"head", "toClose"}
    \/ AfterHead(q[1]) = "head" /\ \A k \in Body(q) : q[k] = Data(0)
    \/ /\ AfterHead(q[1]) = "data" /\ Len(q) = 2
       /\ q[2] = Data(q[1].length) /\ q[1].length \in Nat \ {0}
    \/ /\ AfterHead(q[1]) = "chunks" /\ Len(q) > 1 /\ q[Len(q)] = EndChunk
       /\ \A k \in Body(q) : k < Len(q) => q[k].kind = "chunk" /\ q[k].n > 0

(* It has the status and the announcement that the server acts on.         *)
Delimited(q, status, keep) ==
    /\ \E T : q \in Seq(T)
    /\ q # <<>>
    /\ q[1].kind = "head" /\ q[1].status = status /\ q[1].keepalive = keep
    /\ \A k \in Body(q) : q[k].kind # "head"
    /\ EndsWell(q, keep)

(* The client c has read the head of such a response, and q is left of it. *)
Behind(c, q, status, keep) ==
    /\ \E T : q \in Seq(T)
    /\ c.status = status /\ c.more = keep
    /\ \A k \in DOMAIN q : q[k].kind # "head"
    /\ \/ ~keep /\ c.mode \in {"head", "toClose"}
       \/ c.mode = "head" /\ \A k \in DOMAIN q : q[k] = Data(0)
       \/ /\ c.mode = "data" /\ Len(q) = 1
          /\ q[1] = Data(c.left) /\ c.left \in Nat \ {0}
       \/ /\ c.mode = "chunks" /\ q # <<>> /\ q[Len(q)] = EndChunk
          /\ \A k \in DOMAIN q : k < Len(q) => q[k].kind = "chunk" /\ q[k].n > 0

(* It expects a response.                                                  *)
Expecting(c) == c.mode = "head" /\ c.more = TRUE

(* The indexes of the tail of a sequence.                                  *)
LEMMA TailIndexes ==
    ASSUME NEW T, NEW q \in Seq(T), q # <<>>
    PROVE  /\ Len(q) \in Nat \ {0} /\ DOMAIN q = 1..Len(q)
           /\ Tail(q) \in Seq(T) /\ Len(Tail(q)) = Len(q) - 1
           /\ DOMAIN Tail(q) = 1..(Len(q) - 1)
           /\ \A k \in 1..(Len(q) - 1) : Tail(q)[k] = q[k + 1] /\ k + 1 \in Body(q)
           /\ Len(q) = 1 <=> Tail(q) = <<>>
<1>1. /\ Len(q) \in Nat \ {0} /\ DOMAIN q = 1..Len(q)
      /\ Tail(q) \in Seq(T) /\ Len(Tail(q)) = Len(q) - 1
      /\ \A k \in 1..(Len(q) - 1) : Tail(q)[k] = q[k + 1]
  OBVIOUS
<1>2. \A k \in 1..(Len(q) - 1) : k + 1 \in Body(q)
  BY <1>1 DEF Body
<1>3. DOMAIN Tail(q) = 1..(Len(q) - 1)
  BY <1>1
<1>4. Len(q) = 1 <=> Tail(q) = <<>>
  BY <1>1
<1>5. QED
  BY <1>1, <1>2, <1>3, <1>4

(* Reading the head.                                                       *)
LEMMA HeadRead ==
    ASSUME NEW c, NEW q, NEW status, NEW keep \in BOOLEAN,
           Delimited(q, status, keep), Expecting(c)
    PROVE  Behind(Reads(c, q[1]), Tail(q), status, keep)
<1> DEFINE h == q[1]
           t == Tail(q)
           d == [mode |-> AfterHead(h), left |-> h.length,
                 more |-> h.keepalive, status |-> h.status]
<1>1. PICK T : q \in Seq(T) /\ q # <<>>
  BY DEF Delimited
<1>2. /\ Len(q) \in Nat \ {0} /\ t \in Seq(T) /\ Len(t) = Len(q) - 1
      /\ DOMAIN t = 1..(Len(q) - 1)
      /\ \A k \in 1..(Len(q) - 1) : t[k] = q[k + 1] /\ k + 1 \in Body(q)
      /\ Len(q) = 1 <=> t = <<>>
  BY <1>1, TailIndexes
<1>3. h.kind = "head" /\ h.status = status /\ h.keepalive = keep
  BY DEF Delimited
<1>4. Reads(c, h) = d
  BY <1>3 DEF Reads, Expecting
<1>5. /\ d.mode = AfterHead(h) /\ d.left = h.length
      /\ d.more = keep /\ d.status = status
  BY <1>3
<1>6. \A k \in DOMAIN t : t[k].kind # "head"
  BY <1>2 DEF Delimited
<1> HIDE DEF t, d
<1>7. \/ ~keep /\ d.mode \in {"head", "toClose"}
      \/ d.mode = "head" /\ \A k \in DOMAIN t : t[k] = Data(0)
      \/ /\ d.mode = "data" /\ Len(t) = 1
         /\ t[1] = Data(d.left) /\ d.left \in Nat \ {0}
      \/ /\ d.mode = "chunks" /\ t # <<>> /\ t[Len(t)] = EndChunk
         /\ \A k \in DOMAIN t : k < Len(t) => t[k].kind = "chunk" /\ t[k].n > 0
  <2>1. CASE ~keep /\ AfterHead(h) \in {"head", "toClose"}
    BY <1>5, <2>1
  <2>2. CASE AfterHead(h) = "head" /\ \A k \in Body(q) : q[k] = Data(0)
    BY <1>2, <1>5, <2>2
  <2>3. CASE /\ AfterHead(h) = "data" /\ Len(q) = 2
             /\ q[2] = Data(h.length) /\ h.length \in Nat \ {0}
    <3>1. 1 \in 1..(Len(q) - 1) /\ Len(t) = 1
      BY <1>2, <2>3
    <3>2. t[1] = q[2]
      BY <1>2, <3>1
    <3>3. QED
      BY <1>5, <2>3, <3>1, <3>2
  <2>4. CASE /\ AfterHead(h) = "chunks" /\ Len(q) > 1 /\ q[Len(q)] = EndChunk
             /\ \A k \in Body(q) :
                    k < Len(q) => q[k].kind = "chunk" /\ q[k].n > 0
    <3>1. Len(t) \in 1..(Len(q) - 1) /\ Len(t) + 1 = Len(q) /\ t # <<>>
      BY <1>2, <2>4
    <3>2. t[Len(t)] = EndChunk
      BY <1>2, <2>4, <3>1
    <3>3. ASSUME NEW k \in DOMAIN t, k < Len(t)
          PROVE  t[k].kind = "chunk" /\ t[k].n > 0
      <4>1. t[k] = q[k + 1] /\ k + 1 \in Body(q) /\ k + 1 < Len(q)
        BY <1>2, <3>1, <3>3
      <4>2. QED
        BY <2>4, <4>1
    <3>4. QED
      BY <1>5, <2>4, <3>1, <3>2, <3>3
  <2>5. QED
    BY <2>1, <2>2, <2>3, <2>4 DEF Delimited, EndsWell
<1>8. Behind(d, t, status, keep)
  BY <1>2, <1>5, <1>6, <1>7 DEF Behind
<1>9. QED
  BY <1>4, <1>8 DEF t

(* Reading on.                                                             *)
LEMMA RestRead ==
    ASSUME NEW c, NEW q, NEW status, NEW keep \in BOOLEAN,
           Behind(c, q, status, keep), q # <<>>,
           c = [mode |-> c.mode, left |-> c.left, more |-> c.more,
                status |-> c.status]
    PROVE  Behind(Reads(c, q[1]), Tail(q), status, keep)
<1> DEFINE x == q[1]
           t == Tail(q)
           over == [c EXCEPT !.mode = "head"]
<1>1. PICK T : q \in Seq(T)
  BY DEF Behind
<1>2. /\ Len(q) \in Nat \ {0} /\ t \in Seq(T) /\ Len(t) = Len(q) - 1
      /\ DOMAIN t = 1..(Len(q) - 1) /\ DOMAIN q = 1..Len(q)
      /\ \A k \in 1..(Len(q) - 1) : t[k] = q[k + 1] /\ k + 1 \in Body(q)
      /\ Len(q) = 1 <=> t = <<>>
  BY <1>1, TailIndexes
<1>3. x.kind # "head" /\ 1 \in DOMAIN q
  BY <1>2 DEF Behind
<1>4. \A k \in DOMAIN t : k + 1 \in DOMAIN q /\ t[k] = q[k + 1]
  BY <1>2
<1>5. \A k \in DOMAIN t : t[k].kind # "head"
  BY <1>4 DEF Behind
<1>6. /\ over.mode = "head" /\ over.more = c.more /\ over.status = c.status
  OBVIOUS
<1>7. \A n : Data(n).kind = "data" /\ Data(n).n = n
  BY DEF Data
<1>8. EndChunk.kind = "end"
  BY DEF EndChunk
<1> HIDE DEF t, x, over
<1>9. CASE ~keep /\ c.mode \in {"head", "toClose"}
  <2>1. c.more = FALSE
    BY <1>9 DEF Behind
  <2>2. Reads(c, x) = c
    BY <1>3, <1>9, <2>1 DEF Reads
  <2>3. Behind(c, t, status, keep)
    BY <1>2, <1>5, <1>9 DEF Behind
  <2>4. QED
    BY <2>2, <2>3 DEF x, t
<1>10. CASE c.mode = "head" /\ \A k \in DOMAIN q : q[k] = Data(0)
  <2>1. x = Data(0)
    BY <1>3, <1>10 DEF x
  <2>2. Reads(c, x) = c
    BY <1>7, <1>10, <2>1 DEF Reads
  <2>3. Behind(c, t, status, keep)
    BY <1>2, <1>4, <1>5, <1>10 DEF Behind
  <2>4. QED
    BY <2>2, <2>3 DEF x, t
<1>11. CASE /\ c.mode = "data" /\ Len(q) = 1
            /\ q[1] = Data(c.left) /\ c.left \in Nat \ {0}
  <2>1. x.kind = "data" /\ x.n = c.left /\ t = <<>>
    BY <1>2, <1>7, <1>11 DEF x
  <2>2. Reads(c, x) = over
    <3>1. x.n # 0 /\ ~(x.n < c.left)
      BY <1>11, <2>1
    <3>2. /\ x.kind # "head" /\ x.kind # "chunk" /\ x.kind # "end"
          /\ c.mode # "toClose" /\ c.mode # "head"
      BY <1>11, <2>1
    <3>3. QED
      BY ONLY <1>11, <2>1, <3>1, <3>2 DEF Reads, over
  <2>3. Behind(over, t, status, keep)
    <3>1. DOMAIN t = {}
      BY <1>2, <1>11
    <3>2. QED
      BY <1>2, <1>6, <3>1 DEF Behind
  <2>4. QED
    BY <2>2, <2>3 DEF x, t
<1>12. CASE /\ c.mode = "chunks" /\ q[Len(q)] = EndChunk
            /\ \A k \in DOMAIN q :
                   k < Len(q) => q[k].kind = "chunk" /\ q[k].n > 0
  <2>1. CASE Len(q) = 1
    <3>1. x.kind = "end" /\ t = <<>>
      BY <1>2, <1>8, <1>12, <2>1 DEF x
    <3>2. Reads(c, x) = over
      BY <1>12, <3>1 DEF Reads, over
    <3>3. DOMAIN t = {}
      BY <1>2, <2>1
    <3>4. Behind(over, t, status, keep)
      BY <1>2, <1>6, <3>3 DEF Behind
    <3>5. QED
      BY <3>2, <3>4 DEF x, t
  <2>2. CASE Len(q) # 1
    <3>1. 1 < Len(q)
      BY <1>2, <2>2
    <3>2. x.kind = "chunk" /\ x.n > 0
      BY <1>3, <1>12, <3>1 DEF x
    <3>3. Reads(c, x) = c
      BY <1>12, <3>2 DEF Reads
    <3>4. Len(t) + 1 = Len(q) /\ Len(t) \in DOMAIN t /\ t # <<>>
      BY <1>2, <3>1
    <3>5. t[Len(t)] = EndChunk
      BY <1>4, <1>12, <3>4
    <3>6. ASSUME NEW k \in DOMAIN t, k < Len(t)
          PROVE  t[k].kind = "chunk" /\ t[k].n > 0
      <4>1. k + 1 \in DOMAIN q /\ t[k] = q[k + 1] /\ k + 1 < Len(q)
        BY <1>2, <1>4, <3>4, <3>6
      <4>2. QED
        BY <1>12, <4>1
    <3>7. Behind(c, t, status, keep)
      BY <1>2, <1>5, <1>12, <3>4, <3>5, <3>6 DEF Behind
    <3>8. QED
      BY <3>3, <3>7 DEF x, t
  <2>3. QED
    BY <2>1, <2>2
<1>13. QED
  BY <1>9, <1>10, <1>11, <1>12 DEF Behind

(* Having read all of it.                                                  *)
LEMMA AllIsRead ==
    ASSUME NEW c, NEW status, NEW keep \in BOOLEAN,
           Behind(c, <<>>, status, keep)
    PROVE  /\ c.status = status /\ c.more = keep
           /\ c.mode = "head" \/ (~keep /\ c.mode = "toClose")
<1> DEFINE q == <<>>
<1>1. Len(q) = 0 /\ q = <<>>
  OBVIOUS
<1>2. Behind(c, q, status, keep)
  OBVIOUS
<1> HIDE DEF q
<1>3. Len(q) # 1
  BY <1>1
<1>4. c.status = status /\ c.more = keep
  BY <1>2 DEF Behind
<1>5. \/ ~keep /\ c.mode \in {"head", "toClose"}
      \/ c.mode = "head"
      \/ Len(q) = 1
      \/ q # <<>>
  BY <1>2 DEF Behind
<1>6. QED
  BY <1>1, <1>3, <1>4, <1>5

-----------------------------------------------------------------------------
-----------------------------------------------------------------------------
(* Whole responses.                                                        *)

(* A session that was given nothing but a status.                          *)
Plain(s) ==
    /\ Settled(s) /\ Fresh(s)
    /\ s.length = NoLength
    /\ s.chunkedwrite = FALSE /\ s.chunkedwritemode = FALSE

(* A status may be set while nothing was sent.                             *)
LEMMA StatusStays ==
    ASSUME NEW s, NEW code, Fresh(s)
    PROVE  Fresh(ResponseStatus(s, code)) /\ ResponseStatus(s, code).status = code
BY FreshStays

(* What processDataFromClient makes of the session when the handler is     *)
(* done.                                                                   *)
Over(s) == IF s.responseStarted THEN HTTPWriteEndChunk(s) ELSE ResponseError(s)

(* Then a whole response was sent, whose end the client can tell.          *)
Complete(s) ==
    /\ Started(s) /\ s.status \in 200..599
    /\ s.sent[1].status = s.status
    /\ EndsWell(s.sent, HTTPKeepalive(s))

(* ResponseWriteStart sends the head that HeadToken makes of the session.  *)
LEMMA StartSends ==
    ASSUME NEW s, Settled(s), Fresh(s), s.status # 0
    PROVE  /\ Started(ResponseWriteStart(s))
           /\ ResponseWriteStart(s).sent = <<HeadToken(s)>>
           /\ ResponseWriteStart(s).status = s.status
           /\ ResponseWriteStart(s).keepalive = s.keepalive
           /\ ResponseWriteStart(s).denied = s.denied
           /\ ResponseWriteStart(s).ranges = s.ranges
           /\ ResponseWriteStart(s).responseStarted = TRUE
           /\ Chunking(ResponseWriteStart(s)) = Chunking(s)
<1> DEFINE t == [s EXCEPT !.status = IF @ = 0 THEN 500 ELSE @,
                          !.responseStarted = TRUE]
           h == HeadToken(t)
           one == <<h>>
           u == [t EXCEPT !.sent = one]
<1>1. s = [f \in SessionFields |-> s[f]] /\ s.sent = <<>>
  BY DEF Fresh, IsSession
<1>2. /\ t = [f \in SessionFields |-> t[f]]
      /\ t.status = s.status /\ t.keepalive = s.keepalive /\ t.denied = s.denied
      /\ t.chunkedwrite = s.chunkedwrite
      /\ t.chunkedwritemode = s.chunkedwritemode
      /\ t.length = s.length /\ t.ranges = s.ranges /\ t.sent = <<>>
      /\ t.responseStarted = TRUE
  BY <1>1 DEF SessionFields
<1> HIDE DEF t
<1>3. Chunking(t) = Chunking(s)
  BY <1>2 DEF Chunking
<1>4. HTTPKeepalive(t) = HTTPKeepalive(s)
  BY <1>2, KeepaliveFields
<1>5. h = HeadToken(s)
  BY <1>2, <1>3, <1>4 DEF HeadToken
<1> HIDE DEF h
<1>6. Append(t.sent, h) = one
  <2>1. Append(<<>>, h) = <<h>>
    OBVIOUS
  <2>2. QED
    BY <1>2, <2>1
<1> HIDE DEF one
<1>7. u = ResponseWriteStart(s)
  BY <1>6 DEF ResponseWriteStart, ConnWrite, t, h
<1>8. /\ u.status = t.status /\ u.keepalive = t.keepalive
      /\ u.denied = t.denied /\ u.ranges = t.ranges /\ u.sent = one
      /\ u.responseStarted = t.responseStarted
      /\ u.chunkedwrite = t.chunkedwrite
      /\ u.chunkedwritemode = t.chunkedwritemode
  BY <1>2 DEF SessionFields
<1> HIDE DEF u
<1>9. Chunking(u) = Chunking(t)
  BY <1>8 DEF Chunking
<1>10. Started(u)
  BY <1>7, WriteStarts
<1>11. QED
  BY <1>2, <1>3, <1>5, <1>7, <1>8, <1>9, <1>10 DEF one

(* Writing does not disturb the head.                                      *)
LEMMA WriteSends ==
    ASSUME NEW s, Started(s), NEW token, token.kind # "head"
    PROVE  /\ Started(ConnWrite(s, token))
           /\ ConnWrite(s, token).sent = Append(s.sent, token)
           /\ ConnWrite(s, token).sent[1] = s.sent[1]
           /\ ConnWrite(s, token).status = s.status
           /\ ConnWrite(s, token).responseStarted = TRUE
           /\ ConnWrite(s, token).ranges = s.ranges
           /\ HTTPKeepalive(ConnWrite(s, token)) = HTTPKeepalive(s)
           /\ Chunking(ConnWrite(s, token)) = Chunking(s)
<1> DEFINE r == Append(s.sent, token)
           t == ConnWrite(s, token)
<1>1. s = [f \in SessionFields |-> s[f]]
  BY DEF Started, IsSession
<1>2. PICK T : s.sent \in Seq(T)
  BY DEF Started, IsSession
<1>3. r[1] = s.sent[1]
  <2>1. Len(s.sent) \in Nat \ {0}
    BY <1>2 DEF Started
  <2>2. QED
    BY <1>2, <2>1
<1>4. t = [s EXCEPT !.sent = r]
  BY DEF ConnWrite
<1>5. Started(t)
  BY WriteContinues
<1> HIDE DEF r, t
<1>6. /\ t.sent = r /\ t.status = s.status /\ t.keepalive = s.keepalive
      /\ t.denied = s.denied /\ t.ranges = s.ranges
      /\ t.responseStarted = s.responseStarted
      /\ t.chunkedwrite = s.chunkedwrite
      /\ t.chunkedwritemode = s.chunkedwritemode
  BY <1>1, <1>4 DEF SessionFields
<1>7. HTTPKeepalive(t) = HTTPKeepalive(s) /\ Chunking(t) = Chunking(s)
  BY <1>6, KeepaliveFields DEF Chunking
<1>8. s.responseStarted = TRUE
  BY DEF Started
<1>9. QED
  BY <1>3, <1>5, <1>6, <1>7, <1>8 DEF r, t

(* The head of a response without length or chunks.                        *)
LEMMA ClosingHead ==
    ASSUME NEW s, s.length \in {NoLength, 0}, ~Chunking(s)
    PROVE  AfterHead(HeadToken(s)) \in {"head", "toClose"}
<1>1. HeadToken(s).chunked = Chunking(s) /\ HeadToken(s).length = s.length
  BY DEF HeadToken
<1>2. QED
  BY <1>1 DEF AfterHead

(* A handler may leave an error to ResponseError, or send it itself.       *)
LEMMA ErrorEnds ==
    ASSUME NEW s, Settled(s), Fresh(s), ~Chunking(s),
           s.length \in {NoLength, 0}, s.status \in 200..599,
           ~HTTPKeepalive(s)
    PROVE  /\ Complete(ResponseError(s))
           /\ Complete(Over(s)) /\ Complete(Over(ResponseError(s)))
<1> DEFINE t == ResponseWriteStart(s)
           h == HeadToken(s)
           u == ConnWrite(t, Data(ErrorSize))
<1>0. s.status # 0
  OBVIOUS
<1>1. /\ Started(t) /\ t.sent = <<h>> /\ t.status = s.status
      /\ t.keepalive = s.keepalive /\ t.denied = s.denied
      /\ Chunking(t) = Chunking(s)
  BY <1>0, StartSends
<1>2. t.sent[1] = h /\ h.status = s.status
  BY <1>1 DEF HeadToken
<1>3. HTTPKeepalive(t) = HTTPKeepalive(s)
  BY <1>1, KeepaliveFields
<1>4. ResponseError(s) = u
  BY DEF ResponseError
<1>5. AfterHead(h) \in {"head", "toClose"}
  BY ClosingHead
<1>6. Data(ErrorSize).kind # "head"
  BY DEF Data
<1> HIDE DEF t, h
<1>7. /\ Started(u) /\ u.sent[1] = h /\ u.status = s.status
      /\ u.responseStarted = TRUE
      /\ HTTPKeepalive(u) = HTTPKeepalive(s) /\ ~Chunking(u)
  BY <1>1, <1>2, <1>3, <1>6, WriteSends
<1> HIDE DEF u
<1>8. Complete(u)
  BY <1>2, <1>5, <1>7 DEF Complete, EndsWell
<1>9. Over(u) = u
  BY <1>7 DEF Over, HTTPWriteEndChunk
<1>10. Over(s) = u
  BY <1>4 DEF Over, Fresh
<1>11. QED
  BY <1>4, <1>8, <1>9, <1>10

(* The errors. *)
LEMMA RefusalEnds ==
    ASSUME NEW s, Plain(s), NEW code \in 400..599
    PROVE  /\ Complete(Over(ResponseStatus(s, code)))
           /\ Complete(Over(SendError(s, code)))
           /\ s.status \in 400..599 => Complete(Over(s))
<1>1. ASSUME NEW t, Plain(t), t.status \in 400..599
      PROVE  Complete(Over(t)) /\ Complete(Over(ResponseError(t)))
  <2>1. ~Chunking(t)
    BY <1>1 DEF Plain, Chunking
  <2>2. ~HTTPKeepalive(t)
    BY <1>1 DEF HTTPKeepalive
  <2>3. t.length \in {NoLength, 0} /\ t.status \in 200..599
    BY <1>1 DEF Plain
  <2>4. QED
    BY <1>1, <2>1, <2>2, <2>3, ErrorEnds DEF Plain
<1> DEFINE t == ResponseStatus(s, code)
<1>2. Plain(t) /\ t.status = code
  <2>1. code \in Nat
    OBVIOUS
  <2>2. Fresh(t) /\ t.status = code
    <3>1. Fresh(s)
      BY DEF Plain
    <3>2. Fresh(ResponseStatus(s, code)) /\ ResponseStatus(s, code).status = code
      BY <3>1 DEF Fresh, IsSession, SessionFields, ResponseStatus
    <3>3. QED
      BY ONLY <3>2
  <2>3. Settled(t)
    <3>1. \A c \in Nat, n \in {NoLength} \cup (0..(Word - 1)) :
              Follows(ResponseStatus(s, c), s)
      BY SettersFollow DEF Plain
    <3>2. QED
      BY <2>1, <3>1 DEF Follows
  <2>4. /\ t.length = s.length /\ t.chunkedwrite = s.chunkedwrite
        /\ t.chunkedwritemode = s.chunkedwritemode
    BY DEF ResponseStatus, Plain, Settled, IsSession, SessionFields
  <2>5. QED
    BY <2>2, <2>3, <2>4 DEF Plain
<1>3. SendError(s, code) = ResponseError(t)
  BY DEF SendError
<1> HIDE DEF t
<1>4. QED
  BY <1>1, <1>2, <1>3 DEF t

(* A handler sends nothing but a head: no body, or the connection closes.  *)
LEMMA BareHeadEnds ==
    ASSUME NEW s, Plain(s), NEW code \in 200..599,
           \/ request.version # <<>>
              /\ (request.method = "HEAD" \/ code \in {204, 304})
           \/ ~s.keepalive
    PROVE  Complete(Over(ResponseWriteStart(ResponseStatus(s, code))))
<1> DEFINE t == ResponseStatus(s, code)
           h == HeadToken(t)
           u == ResponseWriteStart(t)
<1>1. code \in Nat /\ code # 0
  OBVIOUS
<1>2. Fresh(t) /\ t.status = code
  <2>1. Fresh(s)
    BY DEF Plain
  <2>2. \A x : Fresh(ResponseStatus(s, x)) /\ ResponseStatus(s, x).status = x
    BY ONLY <2>1, StatusStays
  <2>3. QED
    BY <2>2
<1>3. Settled(t)
  <2>1. \A c \in Nat, n \in {NoLength} \cup (0..(Word - 1)) :
            Follows(ResponseStatus(s, c), s)
    BY SettersFollow DEF Plain
  <2>2. QED
    BY <1>1, <2>1 DEF Follows
<1>4. /\ t.length = NoLength /\ t.chunkedwrite = FALSE
      /\ t.chunkedwritemode = FALSE /\ t.keepalive = s.keepalive
  BY DEF ResponseStatus, Plain, Settled, IsSession, SessionFields
<1> HIDE DEF t
<1>5. ~Chunking(t)
  BY <1>4 DEF Chunking
<1>6. /\ Started(u) /\ u.sent = <<h>> /\ u.status = code
      /\ u.keepalive = s.keepalive /\ u.responseStarted = TRUE
      /\ Chunking(u) = Chunking(t)
  BY ZenonT(40), <1>1, <1>2, <1>3, <1>4, StartSends
<1>7. h.status = code /\ h.chunked = Chunking(t) /\ h.length = NoLength
  BY <1>2, <1>4 DEF HeadToken
<1> HIDE DEF h, u
<1>8. EndsWell(<<h>>, HTTPKeepalive(u))
  <2> DEFINE q == <<h>>
  <2>1. q[1] = h /\ Body(q) = {}
    BY DEF Body
  <2> HIDE DEF q
  <2>2. CASE request.version # <<>>
             /\ (request.method = "HEAD" \/ code \in {204, 304})
    <3>1. AfterHead(h) = "head"
      BY <1>7, <2>2 DEF AfterHead
    <3>2. QED
      BY <2>1, <3>1 DEF EndsWell, q
  <2>3. CASE ~s.keepalive
    <3>1. ~HTTPKeepalive(u)
      BY <1>6, <2>3 DEF HTTPKeepalive
    <3>2. AfterHead(h) \in {"head", "toClose"}
      BY <1>5, <1>7 DEF AfterHead
    <3>3. QED
      BY <2>1, <3>1, <3>2 DEF EndsWell, q
  <2>4. QED
    BY <2>2, <2>3
<1>9. u.sent[1] = h
  BY <1>6
<1>10. Complete(u)
  BY <1>6, <1>7, <1>8, <1>9 DEF Complete
<1>11. Over(u) = u
  BY <1>5, <1>6 DEF Over, HTTPWriteEndChunk
<1>12. QED
  BY <1>10, <1>11 DEF t, u

(* The answer to OPTIONS has a length of zero and the body of an error.    *)
LEMMA OptionsEnds ==
    ASSUME NEW s, Plain(s), ~s.keepalive
    PROVE  Complete(Over(ResponseStatus(ResponseContentLength(s, 0), 200)))
<1> DEFINE t == ResponseContentLength(s, 0)
           u == ResponseStatus(t, 200)
<1>1. 200 \in Nat /\ 0 \in {NoLength} \cup (0..(Word - 1))
  BY SizeAssumption
<1>2. Fresh(t)
  BY FreshStays DEF Plain
<1>3. Settled(t) /\ Settled(u)
  <2>1. Follows(u, s)
    BY <1>1, HeadFollows DEF Plain
  <2>2. Follows(t, s)
    BY <1>1, SettersFollow DEF Plain
  <2>3. QED
    BY <2>1, <2>2 DEF Follows
<1>4. /\ u.length = 0 /\ u.chunkedwrite = FALSE
      /\ u.chunkedwritemode = FALSE /\ u.keepalive = s.keepalive
  BY DEF ResponseStatus, ResponseContentLength, Plain, Settled, IsSession,
         SessionFields
<1>5. Fresh(u) /\ u.status = 200
  <2> HIDE DEF t
  <2>1. \A x : Fresh(ResponseStatus(t, x)) /\ ResponseStatus(t, x).status = x
    BY ONLY <1>2, StatusStays
  <2>2. QED
    BY <2>1
<1> HIDE DEF u
<1>6. ~Chunking(u) /\ ~HTTPKeepalive(u)
  BY <1>4 DEF Chunking, HTTPKeepalive
<1>7. Complete(Over(u))
  BY <1>3, <1>4, <1>5, <1>6, ErrorEnds
<1>8. QED
  BY <1>7 DEF u

(* A body, in chunks or not.                                               *)
Piece(chunking, n) == IF chunking THEN Chunk(n) ELSE Data(n)

(* HTTPWriteBodyChunk sends a piece.                                       *)
LEMMA BodySends ==
    ASSUME NEW s, Started(s), NEW n
    PROVE  /\ Started(HTTPWriteBodyChunk(s, n))
           /\ HTTPWriteBodyChunk(s, n).sent =
                  Append(s.sent, Piece(Chunking(s), n))
           /\ HTTPWriteBodyChunk(s, n).sent[1] = s.sent[1]
           /\ HTTPWriteBodyChunk(s, n).status = s.status
           /\ HTTPWriteBodyChunk(s, n).responseStarted = TRUE
           /\ HTTPKeepalive(HTTPWriteBodyChunk(s, n)) = HTTPKeepalive(s)
           /\ Chunking(HTTPWriteBodyChunk(s, n)) = Chunking(s)
<1> DEFINE token == Piece(Chunking(s), n)
<1>1. token.kind # "head"
  BY DEF Piece, Chunk, Data
<1>2. HTTPWriteBodyChunk(s, n) = ConnWrite(s, token)
  BY DEF HTTPWriteBodyChunk, Piece
<1> HIDE DEF token
<1> DEFINE t == ConnWrite(s, token)
<1>3. /\ Started(t) /\ t.sent = Append(s.sent, token)
      /\ t.sent[1] = s.sent[1] /\ t.status = s.status
      /\ t.responseStarted = TRUE
      /\ HTTPKeepalive(t) = HTTPKeepalive(s) /\ Chunking(t) = Chunking(s)
  BY <1>1, WriteSends
<1> HIDE DEF t
<1>4. HTTPWriteBodyChunk(s, n) = t
  BY <1>2 DEF t
<1>5. QED
  BY <1>3, <1>4 DEF token

(* HTTPWriteEndChunk sends the final chunk of chunks, and nothing          *)
(* otherwise.                                                              *)
LEMMA EndSends ==
    ASSUME NEW s, Started(s)
    PROVE  /\ Started(HTTPWriteEndChunk(s))
           /\ HTTPWriteEndChunk(s).sent =
                  IF Chunking(s) THEN Append(s.sent, EndChunk) ELSE s.sent
           /\ HTTPWriteEndChunk(s).sent[1] = s.sent[1]
           /\ HTTPWriteEndChunk(s).status = s.status
           /\ HTTPWriteEndChunk(s).responseStarted = TRUE
           /\ HTTPKeepalive(HTTPWriteEndChunk(s)) = HTTPKeepalive(s)
           /\ ~Chunking(HTTPWriteEndChunk(s))
<1>1. CASE ~Chunking(s)
  <2>1. HTTPWriteEndChunk(s) = s
    BY <1>1 DEF HTTPWriteEndChunk
  <2>2. s.responseStarted = TRUE
    BY DEF Started
  <2>3. QED
    BY <1>1, <2>1, <2>2
<1>2. CASE Chunking(s)
  <2> DEFINE t == [s EXCEPT !.chunkedwritemode = FALSE]
             u == ConnWrite(t, EndChunk)
  <2>1. s = [f \in SessionFields |-> s[f]]
    BY DEF Started, IsSession
  <2>2. /\ t = [f \in SessionFields |-> t[f]] /\ t.sent = s.sent
        /\ t.responseStarted = s.responseStarted /\ t.status = s.status
        /\ t.keepalive = s.keepalive /\ t.denied = s.denied
        /\ t.chunkedwritemode = FALSE
    BY <2>1 DEF SessionFields
  <2> HIDE DEF t
  <2>3. HTTPKeepalive(t) = HTTPKeepalive(s)
    BY <2>2, KeepaliveFields
  <2>4. Started(t)
    BY <2>2, <2>3 DEF Started, IsSession
  <2>5. ~Chunking(t)
    BY <2>2 DEF Chunking
  <2>6. EndChunk.kind # "head"
    BY DEF EndChunk
  <2>7. /\ Started(u) /\ u.sent = Append(t.sent, EndChunk)
        /\ u.sent[1] = t.sent[1] /\ u.status = t.status
        /\ u.responseStarted = TRUE
        /\ HTTPKeepalive(u) = HTTPKeepalive(t) /\ Chunking(u) = Chunking(t)
    BY <2>4, <2>6, WriteSends
  <2>8. HTTPWriteEndChunk(s) = u
    BY <1>2 DEF HTTPWriteEndChunk, t
  <2> HIDE DEF u
  <2>9. QED
    BY <1>2, <2>2, <2>3, <2>5, <2>7, <2>8
<1>3. QED
  BY <1>1, <1>2

(* Setting a status, a length, chunks.                                     *)
LEMMA StatusSends ==
    ASSUME NEW s, Settled(s), Fresh(s), NEW code \in Nat
    PROVE  /\ Settled(ResponseStatus(s, code)) /\ Fresh(ResponseStatus(s, code))
           /\ ResponseStatus(s, code).status = code
           /\ ResponseStatus(s, code).length = s.length
           /\ ResponseStatus(s, code).version = s.version
           /\ ResponseStatus(s, code).keepalive = s.keepalive
           /\ ResponseStatus(s, code).ranges = s.ranges
           /\ Chunking(ResponseStatus(s, code)) = Chunking(s)
<1>1. s = [f \in SessionFields |-> s[f]]
  BY DEF Settled, IsSession
<1>2. NoLength \in {NoLength} \cup (0..(Word - 1))
  OBVIOUS
<1>3. Settled(ResponseStatus(s, code))
  BY <1>2, SettersFollow DEF Follows
<1>4. Fresh(ResponseStatus(s, code))
  BY StatusStays
<1>5. /\ ResponseStatus(s, code).status = code
      /\ ResponseStatus(s, code).length = s.length
      /\ ResponseStatus(s, code).version = s.version
      /\ ResponseStatus(s, code).keepalive = s.keepalive
      /\ ResponseStatus(s, code).ranges = s.ranges
      /\ Chunking(ResponseStatus(s, code)) = Chunking(s)
  BY <1>1 DEF ResponseStatus, SessionFields, Chunking
<1>6. QED
  BY <1>3, <1>4, <1>5

(* A length.                                                               *)
LEMMA LengthSends ==
    ASSUME NEW s, Settled(s), Fresh(s), NEW n \in {NoLength} \cup (0..(Word - 1))
    PROVE  /\ Settled(ResponseContentLength(s, n))
           /\ Fresh(ResponseContentLength(s, n))
           /\ ResponseContentLength(s, n).status = s.status
           /\ ResponseContentLength(s, n).length = n
           /\ ResponseContentLength(s, n).version = s.version
           /\ ResponseContentLength(s, n).keepalive = s.keepalive
           /\ ResponseContentLength(s, n).ranges = s.ranges
           /\ Chunking(ResponseContentLength(s, n)) = Chunking(s)
<1>1. s = [f \in SessionFields |-> s[f]]
  BY DEF Settled, IsSession
<1>2. 0 \in Nat
  OBVIOUS
<1>3. Settled(ResponseContentLength(s, n))
  BY <1>2, SettersFollow DEF Follows
<1>4. Fresh(ResponseContentLength(s, n))
  BY FreshStays
<1>5. /\ ResponseContentLength(s, n).status = s.status
      /\ ResponseContentLength(s, n).length = n
      /\ ResponseContentLength(s, n).version = s.version
      /\ ResponseContentLength(s, n).keepalive = s.keepalive
      /\ ResponseContentLength(s, n).ranges = s.ranges
      /\ Chunking(ResponseContentLength(s, n)) = Chunking(s)
  BY <1>1 DEF ResponseContentLength, SessionFields, Chunking
<1>6. QED
  BY <1>3, <1>4, <1>5

(* Chunks, for a client that knows them.                                   *)
LEMMA ChunkedSends ==
    ASSUME NEW s, Settled(s), Fresh(s)
    PROVE  /\ Settled(ResponseChunked(s)) /\ Fresh(ResponseChunked(s))
           /\ ResponseChunked(s).status = s.status
           /\ ResponseChunked(s).length = s.length
           /\ ResponseChunked(s).version = s.version
           /\ ResponseChunked(s).keepalive = s.keepalive
           /\ ResponseChunked(s).ranges = s.ranges
           /\ Chunking(ResponseChunked(s)) = AtLeast11(s.version)
<1> DEFINE t == ResponseChunked(s)
<1>1. s = [f \in SessionFields |-> s[f]]
  BY DEF Settled, IsSession
<1>2. NoLength \in {NoLength} \cup (0..(Word - 1)) /\ 0 \in Nat
  OBVIOUS
<1>3. Settled(t)
  BY <1>2, SettersFollow DEF Follows
<1>4. Fresh(t)
  BY FreshStays
<1>5. /\ t.status = s.status
      /\ t.length = s.length
      /\ t.version = s.version
      /\ t.keepalive = s.keepalive
      /\ t.ranges = s.ranges
      /\ t.chunkedwrite = AtLeast11(s.version)
      /\ t.chunkedwritemode = TRUE
  BY <1>1 DEF ResponseChunked, SessionFields
<1> HIDE DEF t
<1>6. Chunking(t) = AtLeast11(s.version)
  <2>1. AtLeast11(s.version) \in BOOLEAN
    BY DEF AtLeast11
  <2>2. QED
    BY <1>5, <2>1 DEF Chunking
<1>7. QED
  BY <1>3, <1>4, <1>5, <1>6 DEF t

(* Relations of a session and the one after a call.                        *)
Sets(t, s) ==
    /\ Settled(t) /\ Fresh(t)
    /\ t.version = s.version /\ t.keepalive = s.keepalive /\ t.ranges = s.ranges

Begins(t, s) ==
    /\ Started(t) /\ t.sent = <<HeadToken(s)>> /\ t.sent[1] = HeadToken(s)
    /\ t.status = s.status /\ t.keepalive = s.keepalive
    /\ t.ranges = s.ranges /\ t.responseStarted = TRUE
    /\ Chunking(t) = Chunking(s)

Sends(t, s, q) ==
    /\ Started(t) /\ t.sent = q /\ t.sent[1] = s.sent[1]
    /\ t.status = s.status /\ t.responseStarted = TRUE
    /\ HTTPKeepalive(t) = HTTPKeepalive(s)

Ends(q, chunking) == IF chunking THEN Append(q, EndChunk) ELSE q

(* What the calls set before anything is sent, and the head that they lead *)
(* to.                                                                     *)
LEMMA CallsSet ==
    ASSUME NEW s, Settled(s), Fresh(s)
    PROVE  /\ \A code \in Nat :
                  LET t == ResponseStatus(s, code)
                  IN  /\ Sets(t, s) /\ t.status = code /\ t.length = s.length
                      /\ Chunking(t) = Chunking(s)
           /\ \A n \in {NoLength} \cup (0..(Word - 1)) :
                  LET t == ResponseContentLength(s, n)
                  IN  /\ Sets(t, s) /\ t.status = s.status /\ t.length = n
                      /\ Chunking(t) = Chunking(s)
           /\ LET t == ResponseChunked(s)
              IN  /\ Sets(t, s) /\ t.status = s.status /\ t.length = s.length
                  /\ Chunking(t) = AtLeast11(s.version)
           /\ s.status # 0 => Begins(ResponseWriteStart(s), s)
<1>1. ASSUME NEW code \in Nat
      PROVE  LET t == ResponseStatus(s, code)
             IN  /\ Sets(t, s) /\ t.status = code /\ t.length = s.length
                 /\ Chunking(t) = Chunking(s)
  BY StatusSends DEF Sets
<1>2. ASSUME NEW n \in {NoLength} \cup (0..(Word - 1))
      PROVE  LET t == ResponseContentLength(s, n)
             IN  /\ Sets(t, s) /\ t.status = s.status /\ t.length = n
                 /\ Chunking(t) = Chunking(s)
  BY LengthSends DEF Sets
<1>3. LET t == ResponseChunked(s)
      IN  /\ Sets(t, s) /\ t.status = s.status /\ t.length = s.length
          /\ Chunking(t) = AtLeast11(s.version)
  BY ChunkedSends DEF Sets
<1>4. ASSUME s.status # 0
      PROVE  Begins(ResponseWriteStart(s), s)
  <2> DEFINE t == ResponseWriteStart(s)
             h == HeadToken(s)
  <2>1. /\ Started(t) /\ t.sent = <<h>> /\ t.status = s.status
        /\ t.keepalive = s.keepalive /\ t.ranges = s.ranges
        /\ t.responseStarted = TRUE /\ Chunking(t) = Chunking(s)
    BY <1>4, StartSends
  <2> HIDE DEF t, h
  <2>2. <<h>>[1] = h
    OBVIOUS
  <2>3. QED
    BY <2>1, <2>2 DEF Begins, t, h
<1>5. QED
  BY <1>1, <1>2, <1>3, <1>4

(* What is sent behind a head.                                             *)
LEMMA CallsSend ==
    ASSUME NEW s, Started(s)
    PROVE  /\ \A token : token.kind # "head" =>
                  /\ Sends(ConnWrite(s, token), s, Append(s.sent, token))
                  /\ Chunking(ConnWrite(s, token)) = Chunking(s)
                  /\ ConnWrite(s, token).ranges = s.ranges
           /\ \A n : LET t == HTTPWriteBodyChunk(s, n)
                    IN  /\ Sends(t, s, Append(s.sent, Piece(Chunking(s), n)))
                        /\ Chunking(t) = Chunking(s)
           /\ LET t == HTTPWriteEndChunk(s)
              IN  /\ Sends(t, s, Ends(s.sent, Chunking(s))) /\ ~Chunking(t)
<1>1. ASSUME NEW token, token.kind # "head"
      PROVE  /\ Sends(ConnWrite(s, token), s, Append(s.sent, token))
             /\ Chunking(ConnWrite(s, token)) = Chunking(s)
             /\ ConnWrite(s, token).ranges = s.ranges
  BY <1>1, WriteSends DEF Sends
<1>2. ASSUME NEW n
      PROVE  LET t == HTTPWriteBodyChunk(s, n)
             IN  /\ Sends(t, s, Append(s.sent, Piece(Chunking(s), n)))
                 /\ Chunking(t) = Chunking(s)
  BY BodySends DEF Sends
<1>3. LET t == HTTPWriteEndChunk(s)
      IN  Sends(t, s, Ends(s.sent, Chunking(s))) /\ ~Chunking(t)
  BY EndSends DEF Sends, Ends
<1>4. QED
  BY <1>1, <1>2, <1>3

(* What sendXmlData sends is a whole response: a client of HTTP 1.1 gets   *)
(* the chunks that it knows, any other one the length.                     *)
LEMMA SendXmlDataEnds ==
    ASSUME NEW s, Plain(s), NEW n \in 1..MaxSize, NEW chunked \in BOOLEAN,
           request.version = s.version, request.version # <<>>,
           request.method # "HEAD"
    PROVE  Complete(Over(SendXmlData(s, n, chunked)))
<1> DEFINE t == IF chunked THEN ResponseChunked(s) ELSE s
           u == ResponseStatus(t, 200)
           v == ResponseContentLength(u, n)
           h == HeadToken(v)
           w == ResponseWriteStart(v)
           x == HTTPWriteBodyChunk(w, n)
           y == HTTPWriteEndChunk(x)
           lengths == {NoLength} \cup (0..(Word - 1))
<1>1. /\ n \in lengths /\ 200 \in Nat /\ n \in Nat \ {0} /\ n # NoLength
  BY SizeAssumption DEF NoLength
<1>2. Settled(s) /\ Fresh(s) /\ ~Chunking(s)
  BY DEF Plain, Chunking
<1>3. /\ Settled(t) /\ Fresh(t)
      /\ Chunking(t) => AtLeast11(s.version)
  <2>1. LET r == ResponseChunked(s)
        IN  Settled(r) /\ Fresh(r) /\ Chunking(r) = AtLeast11(s.version)
    BY ONLY <1>2, CallsSet DEF Sets
  <2>2. QED
    BY <1>2, <2>1
<1> HIDE DEF t
<1>4. Settled(u) /\ Fresh(u) /\ u.status = 200 /\ Chunking(u) = Chunking(t)
  BY ONLY <1>1, <1>3, CallsSet DEF Sets
<1> HIDE DEF u
<1>5. /\ Settled(v) /\ Fresh(v) /\ v.status = u.status /\ v.length = n
      /\ Chunking(v) = Chunking(u)
  BY ONLY <1>1, <1>4, CallsSet DEF Sets
<1> HIDE DEF v
<1>6. v.status = 200
  BY <1>4, <1>5
<1>7. Begins(w, v)
  <2>1. v.status # 0
    BY <1>6
  <2>2. QED
    BY ONLY <1>5, <2>1, CallsSet
<1>8. h.status = v.status /\ h.chunked = Chunking(v) /\ h.length = v.length
  BY DEF HeadToken
<1> HIDE DEF w
<1>9. /\ Sends(x, w, Append(w.sent, Piece(Chunking(w), n)))
      /\ Chunking(x) = Chunking(w)
  <2>1. Started(w)
    BY <1>7 DEF Begins
  <2>2. QED
    BY ONLY <2>1, CallsSend
<1> HIDE DEF x
<1>10. Sends(y, x, Ends(x.sent, Chunking(x))) /\ ~Chunking(y)
  <2>1. Started(x)
    BY <1>9 DEF Sends
  <2>2. QED
    BY ONLY <2>1, CallsSend
<1> HIDE DEF y, h
<1>11. /\ y.sent = Ends(Append(<<h>>, Piece(Chunking(v), n)), Chunking(v))
       /\ y.sent[1] = h
  BY <1>7, <1>9, <1>10 DEF Begins, Sends, h
<1>12. EndsWell(y.sent, HTTPKeepalive(y))
  <2>1. CASE Chunking(v)
    <3> DEFINE c == Chunk(n)
               q == <<h, c, EndChunk>>
    <3>1. Append(Append(<<h>>, c), EndChunk) = q
      <4>1. Append(<<h>>, c) = <<h, c>>
        BY ONLY Appends
      <4>2. Append(<<h, c>>, EndChunk) = q
        BY ONLY Appends
      <4>3. QED
        BY ONLY <4>1, <4>2
    <3>2. y.sent = q
      BY <1>11, <2>1, <3>1 DEF Piece, Ends
    <3>3. /\ q[1] = h /\ q[2] = c /\ q[3] = EndChunk /\ Len(q) = 3
          /\ Body(q) = {2, 3}
      BY DEF Body
    <3> HIDE DEF q
    <3>4. AfterHead(h) = "chunks"
      <4>1. AtLeast11(request.version) /\ h.chunked
        BY <1>3, <1>4, <1>5, <1>8, <2>1
      <4>2. h.status \notin {204, 304}
        BY <1>6, <1>8
      <4>3. QED
        BY <4>1, <4>2 DEF AfterHead
    <3>5. c.kind = "chunk" /\ c.n > 0
      BY <1>1 DEF Chunk
    <3> HIDE DEF c
    <3>6. \A k \in Body(q) : k < Len(q) => q[k].kind = "chunk" /\ q[k].n > 0
      BY <3>3, <3>5
    <3>7. Len(q) > 1 /\ q[Len(q)] = EndChunk
      BY <3>3
    <3>8. QED
      BY <3>2, <3>3, <3>4, <3>6, <3>7 DEF EndsWell
  <2>2. CASE ~Chunking(v)
    <3> DEFINE d == Data(n)
               q == <<h, d>>
    <3>1. Append(<<h>>, d) = q
      BY ONLY Appends
    <3>2. y.sent = q
      BY <1>11, <2>2, <3>1 DEF Piece, Ends
    <3>3. q[1] = h /\ q[2] = d /\ Len(q) = 2
      OBVIOUS
    <3> HIDE DEF q
    <3>4. h.length = n
      BY <1>5, <1>8
    <3>5. AfterHead(h) = "data"
      <4>1. h.status \notin {204, 304}
        BY <1>6, <1>8
      <4>2. ~h.chunked
        BY <1>8, <2>2
      <4>3. QED
        BY <1>1, <3>4, <4>1, <4>2 DEF AfterHead
    <3>6. QED
      BY <1>1, <3>2, <3>3, <3>4, <3>5 DEF EndsWell
  <2>3. QED
    BY <2>1, <2>2
<1>13. Started(y) /\ y.status = 200 /\ y.responseStarted = TRUE
  BY <1>6, <1>7, <1>9, <1>10 DEF Begins, Sends
<1>14. y.sent[1].status = y.status
  BY <1>6, <1>8, <1>11, <1>13
<1>15. Complete(y)
  BY <1>12, <1>13, <1>14 DEF Complete
<1>16. Over(y) = y
  BY <1>10, <1>13 DEF Over, HTTPWriteEndChunk
<1>17. SendXmlData(s, n, chunked) = y
  BY DEF SendXmlData, t, u, v, w, x, y
<1>18. QED
  BY <1>15, <1>16, <1>17

(* A listing is whole when the client knows chunks, or the connection is   *)
(* closed; the answer to HEAD when there is no final chunk, or so.         *)
LEMMA ListingEnds ==
    ASSUME NEW s, Plain(s), request.version = s.version, request.version # <<>>,
           \/ ~s.keepalive
           \/ request.method = "HEAD" /\ ~AtLeast11(request.version)
           \/ request.method # "HEAD" /\ AtLeast11(request.version)
    PROVE  Complete(Over(Listing(ResponseWriteStart(ResponseChunked(
                                     ResponseStatus(s, 200))))))
<1> DEFINE t == ResponseStatus(s, 200)
           u == ResponseChunked(t)
           h == HeadToken(u)
           w == ResponseWriteStart(u)
           x == HTTPWriteBodyChunk(w, ListingSize)
           y == HTTPWriteBodyChunk(x, ListingSize)
           z == IF request.method = "HEAD" THEN w ELSE y
           last == HTTPWriteEndChunk(z)
           up == AtLeast11(s.version)
           piece == Piece(up, ListingSize)
<1>1. 200 \in Nat
  OBVIOUS
<1>2. Settled(s) /\ Fresh(s) /\ s.length = NoLength
  BY DEF Plain
<1>3. Sets(t, s) /\ t.status = 200 /\ t.length = s.length
  BY ONLY <1>1, <1>2, CallsSet
<1> HIDE DEF t
<1>4. /\ Sets(u, t) /\ u.status = t.status /\ u.length = t.length
      /\ Chunking(u) = AtLeast11(t.version)
  BY ONLY <1>3, CallsSet DEF Sets
<1> HIDE DEF u
<1>5. /\ u.status = 200 /\ u.length = NoLength /\ u.keepalive = s.keepalive
      /\ Chunking(u) = up
  BY <1>2, <1>3, <1>4 DEF Sets
<1>6. Begins(w, u)
  <2>1. u.status # 0 /\ Settled(u) /\ Fresh(u)
    BY <1>4, <1>5 DEF Sets
  <2>2. QED
    BY ONLY <2>1, CallsSet
<1>7. h.status = u.status /\ h.chunked = Chunking(u) /\ h.length = u.length
  BY DEF HeadToken
<1> HIDE DEF w
<1>8. Sends(x, w, Append(w.sent, Piece(Chunking(w), ListingSize)))
      /\ Chunking(x) = Chunking(w)
  <2>1. Started(w)
    BY <1>6 DEF Begins
  <2>2. QED
    BY ONLY <2>1, CallsSend
<1> HIDE DEF x
<1>9. Sends(y, x, Append(x.sent, Piece(Chunking(x), ListingSize)))
      /\ Chunking(y) = Chunking(x)
  <2>1. Started(x)
    BY <1>8 DEF Sends
  <2>2. QED
    BY ONLY <2>1, CallsSend
<1> HIDE DEF y, h, piece, up
<1>10. /\ Started(z) /\ z.status = 200
       /\ HTTPKeepalive(z) = HTTPKeepalive(w)
       /\ Chunking(z) = up
       /\ z.sent[1] = h
       /\ z.sent = IF request.method = "HEAD" THEN <<h>> ELSE <<h, piece, piece>>
  <2>1. Append(Append(<<h>>, piece), piece) = <<h, piece, piece>>
    <3>1. Append(<<h>>, piece) = <<h, piece>>
      BY ONLY Appends
    <3>2. Append(<<h, piece>>, piece) = <<h, piece, piece>>
      BY ONLY Appends
    <3>3. QED
      BY ONLY <3>1, <3>2
  <2>2. /\ Started(w) /\ w.status = 200 /\ Chunking(w) = up
        /\ w.sent = <<h>> /\ w.sent[1] = h
    BY <1>5, <1>6 DEF Begins, h
  <2>3. /\ Started(y) /\ y.status = 200 /\ Chunking(y) = up
        /\ y.sent = Append(Append(<<h>>, piece), piece) /\ y.sent[1] = h
        /\ HTTPKeepalive(y) = HTTPKeepalive(w)
    BY <1>8, <1>9, <2>2 DEF Sends, piece
  <2>4. QED
    BY <2>1, <2>2, <2>3
<1> HIDE DEF z
<1>11. Sends(last, z, Ends(z.sent, Chunking(z))) /\ ~Chunking(last)
  BY ONLY <1>10, CallsSend
<1> HIDE DEF last
<1>12. /\ Started(last) /\ last.status = 200 /\ last.responseStarted = TRUE
       /\ last.sent[1] = h
       /\ last.sent = Ends(z.sent, up)
       /\ HTTPKeepalive(last) = HTTPKeepalive(w)
  BY <1>10, <1>11 DEF Sends
<1>13. h.status = 200 /\ h.chunked = up /\ h.length = NoLength
  BY <1>5, <1>7
<1>14. EndsWell(last.sent, HTTPKeepalive(last))
  <2>1. CASE request.method = "HEAD" /\ ~up
    <3> DEFINE q == <<h>>
    <3>1. last.sent = q
      BY <1>10, <1>12, <2>1 DEF Ends
    <3>2. q[1] = h /\ Body(q) = {}
      BY DEF Body
    <3> HIDE DEF q
    <3>3. AfterHead(h) = "head"
      BY <2>1 DEF AfterHead
    <3>4. QED
      BY <3>1, <3>2, <3>3 DEF EndsWell
  <2>2. CASE request.method # "HEAD" /\ up
    <3> DEFINE c == Chunk(ListingSize)
               q == <<h, c, c, EndChunk>>
    <3>1. piece = c
      BY <2>2 DEF Piece, piece
    <3>2. Append(<<h, c, c>>, EndChunk) = q
      BY ONLY Appends
    <3>3. last.sent = q
      BY <1>10, <1>12, <2>2, <3>1, <3>2 DEF Ends
    <3>4. /\ q[1] = h /\ q[2] = c /\ q[3] = c /\ q[4] = EndChunk /\ Len(q) = 4
          /\ Body(q) = {2, 3, 4}
      BY DEF Body
    <3> HIDE DEF q
    <3>5. AfterHead(h) = "chunks"
      <4>1. AtLeast11(request.version) /\ h.chunked
        BY <1>13, <2>2 DEF up
      <4>2. h.status \notin {204, 304}
        BY <1>13
      <4>3. QED
        BY <2>2, <4>1, <4>2 DEF AfterHead
    <3>6. c.kind = "chunk" /\ c.n > 0
      BY DEF Chunk, ListingSize
    <3> HIDE DEF c
    <3>7. \A k \in Body(q) : k < Len(q) => q[k].kind = "chunk" /\ q[k].n > 0
      BY <3>4, <3>6
    <3>8. Len(q) > 1 /\ q[Len(q)] = EndChunk
      BY <3>4
    <3>9. QED
      BY <3>3, <3>4, <3>5, <3>7, <3>8 DEF EndsWell
  <2>3. CASE ~s.keepalive /\ (request.method = "HEAD" \/ ~up)
    <3>1. ~HTTPKeepalive(last)
      <4>1. w.keepalive = s.keepalive
        BY <1>5, <1>6 DEF Begins
      <4>2. QED
        BY <1>12, <2>3, <4>1 DEF HTTPKeepalive
    <3>2. AfterHead(h) \in {"head", "toClose"}
      BY <1>13, <2>3 DEF AfterHead
    <3>3. QED
      BY <1>12, <3>1, <3>2 DEF EndsWell
  <2>4. QED
    BY <2>1, <2>2, <2>3 DEF up
<1>15. Complete(last)
  BY <1>12, <1>13, <1>14 DEF Complete
<1>16. Over(last) = last
  BY <1>11, <1>12 DEF Over, HTTPWriteEndChunk
<1>17. Listing(w) = last
  BY DEF Listing, x, y, z, last
<1>18. QED
  BY <1>15, <1>16, <1>17 DEF t, u, w

-----------------------------------------------------------------------------
(***************************************************************************)
(* The invariant behind the responses.  Up to its head, a response is      *)
(* nothing but a status that refuses the request; what the file handler    *)
(* has begun is a head alone, a response that ends with the connection, or *)
(* the whole file as it was when the head was written; and when a handler  *)
(* is done, the response is whole.                                         *)
(***************************************************************************)
FileStages == {"default", "directory", "file", "fields", "body"}

BeforeInv ==
    /\ Plain(session)
    /\ session.status = 0 \/ (pc = "dispatch" /\ session.status \in 400..599)
    /\ session.keepalive => KeptAlive(request)
    /\ session.ranges \in {<<>>, RangesOf(request)}

BareHead == request.method = "HEAD" /\ session.sent = <<session.sent[1]>>

ClosingBody ==
    ~HTTPKeepalive(session) /\ session.sent[1].length = NoLength

WholeBody ==
    /\ Len(session.ranges) <= 1
    /\ session.sent[1].length \in 0..size
    /\ \/ /\ parts = <<Whole(session.sent[1].length)>>
          /\ session.sent = <<session.sent[1]>>
       \/ /\ parts = <<>>
          /\ session.sent =
                <<session.sent[1], Data(session.sent[1].length)>>

BodyInv ==
    /\ Started(session) /\ ~Chunking(session)
    /\ session.status \in {200, 206}
    /\ session.sent[1].status = session.status
    /\ ~session.sent[1].chunked
    /\ BareHead \/ (request.method # "HEAD" /\ (ClosingBody \/ WholeBody))

AnswerInv ==
    /\ pc \in BeforeHead => BeforeInv
    /\ pc \in FileStages =>
          FileHandler /\ (pc = "default" \/ request.method \in {"GET", "HEAD"})
    /\ pc = "directory" => request.uri \in {"/d/", "/h/"}
    /\ pc = "body" => BodyInv
    /\ pc = "finish" => Complete(Over(session))

(* The bytes of a file.                                                    *)
LEMMA WholeBytes ==
    ASSUME NEW n \in 0..MaxSize
    PROVE  /\ Bytes(Whole(n)) = n
           /\ size \in n..MaxSize => FromFile(Whole(n)) = n
<1> DEFINE last == (n - 1) % Word
           whole == Whole(n)
<1>1. MaxSize \in Nat /\ Word \in Nat /\ Word > 0 /\ n < Word /\ n \in Nat
  BY SizeAssumption
<1>2. (last - 0 + 1) % Word = n
  <2>1. CASE n = 0
    <3>1. last = Word - 1
      BY <1>1, <2>1
    <3> HIDE DEF last
    <3>2. last - 0 + 1 = Word
      BY <1>1, <3>1
    <3>3. Word % Word = 0
      BY <1>1
    <3>4. QED
      BY <2>1, <3>2, <3>3
  <2>2. CASE n > 0
    <3>1. last = n - 1
      BY <1>1, <2>2
    <3> HIDE DEF last
    <3>2. last - 0 + 1 = n
      BY <1>1, <3>1
    <3>3. n % Word = n
      BY <1>1
    <3>4. QED
      BY <3>2, <3>3
  <2>3. QED
    BY <1>1, <2>1, <2>2
<1>3. Bytes(whole) = n /\ whole.start = 0
  BY <1>2 DEF Bytes, Whole
<1> HIDE DEF whole
<1>4. ASSUME size \in n..MaxSize
      PROVE  FromFile(whole) = n
  <2>1. Word \div 2 \in Nat /\ Word \div 2 > 0
    BY SizeAssumption
  <2>2. ~(whole.start >= Word \div 2) /\ ~(whole.start > size)
    BY <1>1, <1>3, <1>4, <2>1
  <2>3. size - whole.start = size /\ n <= size
    BY <1>1, <1>3, <1>4
  <2>4. QED
    BY <1>3, <2>2, <2>3 DEF FromFile
<1>5. QED
  BY <1>3, <1>4 DEF whole

(* A whole response stays one while the request is the same.               *)
LEMMA CompleteStays ==
    ASSUME UNCHANGED request, Complete(Over(session'))
    PROVE  Complete(Over(session))'
BY DEF Complete, EndsWell, AfterHead

(* RefusalEnds for every status of an error.                               *)
LEMMA Refusals ==
    ASSUME NEW s, Plain(s)
    PROVE  /\ \A code \in 400..599 : Complete(Over(ResponseStatus(s, code)))
           /\ \A code \in 400..599 : Complete(Over(SendError(s, code)))
<1>1. ASSUME NEW code \in 400..599
      PROVE  /\ Complete(Over(ResponseStatus(s, code)))
             /\ Complete(Over(SendError(s, code)))
  BY ZenonT(40), RefusalEnds
<1>2. QED
  BY SMTT(30), <1>1

(* Requests that are refused, and the search for a handler.                *)
LEMMA DispatchAnswers ==
    ASSUME TurnInv, AnswerInv, Refuse \/ RunUserHandler \/ NextHandler
    PROVE  AnswerInv'
<1>1. pc \in BeforeHead /\ BeforeInv /\ UNCHANGED <<request, size, parts>>
  BY DEF AnswerInv, Refuse, RunUserHandler, NextHandler, BeforeHead, fileVars
<1>2. CASE Refuse
  <2>1. Plain(session) /\ (session.status # 0 => session.status \in 400..599)
    BY <1>1 DEF BeforeInv
  <2>2. \A code \in 400..599 : Complete(Over(ResponseStatus(session, code)))
    BY ZenonT(40), <2>1, RefusalEnds
  <2>3. session.status # 0 => Complete(Over(session))
    <3>1. 400 \in 400..599
      OBVIOUS
    <3>2. QED
      BY ZenonT(40), <2>1, <3>1, RefusalEnds
  <2>4. Complete(Over(session'))
    <3>1. 505 \in 400..599 /\ 400 \in 400..599
      OBVIOUS
    <3>2. \/ session.status # 0 /\ session' = session
          \/ \E code \in {400, 505} : session' = ResponseStatus(session, code)
      BY <1>2 DEF Refuse
    <3>3. QED
      BY <2>2, <2>3, <3>1, <3>2
  <2>5. pc' = "finish"
    BY <1>2 DEF Refuse
  <2>6. Complete(Over(session))'
    BY <1>1, <2>4, CompleteStays
  <2>7. QED
    BY <2>5, <2>6 DEF AnswerInv, BeforeHead, FileStages
<1>3. CASE RunUserHandler \/ NextHandler
  <2>1. pc' = "handler" /\ UNCHANGED session
    BY <1>3 DEF RunUserHandler, NextHandler
  <2>2. session.status = 0
    BY <1>1, <1>3 DEF RunUserHandler, NextHandler, BeforeInv
  <2>3. BeforeInv'
    BY <1>1, <2>1, <2>2 DEF BeforeInv
  <2>4. QED
    BY <2>1, <2>3 DEF AnswerInv, BeforeHead, FileStages
<1>4. QED
  BY <1>2, <1>3

(* A handler that returns has answered, or left an answer to Finish.       *)
LEMMA ReturnAnswers ==
    ASSUME NEW s, Complete(Over(s)), Return(s), UNCHANGED request
    PROVE  AnswerInv'
<1>1. session' = s /\ pc' = "finish"
  BY DEF Return
<1>2. Complete(Over(session))'
  BY <1>1, CompleteStays
<1>3. QED
  BY <1>1, <1>2 DEF AnswerInv, BeforeHead, FileStages

(* What a client said, and what its request allows.                        *)
LEMMA Versions ==
    ASSUME TurnInv, ~Resting
    PROVE  /\ request \in Requests
           /\ request.version # <<>> => request.version = session.version
           /\ request.version = <<>> => DOMAIN request.fields = {}
BY RequestsAssumption DEF TurnInv, VersionsOf

(* handleXmlrpcReq answers every call, and refuses what is none.           *)
LEMMA RpcAnswers ==
    ASSUME TurnInv, AnswerInv, HandleXmlrpcReq
    PROVE  AnswerInv'
<1>1. /\ Plain(session) /\ UNCHANGED request /\ ~Resting /\ i \in Nat /\ i > 0
      /\ i <= Len(Handlers)
  BY HandlersAssumption DEF TurnInv, AnswerInv, HandleXmlrpcReq, BeforeHead,
     BeforeInv, Resting
<1>2. \A code \in 400..599 : Complete(Over(SendError(session, code)))
  BY <1>1, Refusals
<1>3. CASE \E code \in 400..599 : Return(SendError(session, code))
  BY <1>1, <1>2, <1>3, ReturnAnswers
<1>4. CASE \E n \in 1..MaxSize :
               /\ Refusal(request) = 0
               /\ Return(SendXmlData(session, n, Handlers[i].chunkResponse))
  <2>1. PICK n \in 1..MaxSize :
            /\ Refusal(request) = 0
            /\ Return(SendXmlData(session, n, Handlers[i].chunkResponse))
    BY <1>4
  <2>2. request.method = "POST" /\ FieldIs(request, "content-type", "text/xml")
    BY <2>1 DEF Refusal
  <2>3. request.version # <<>>
    BY <1>1, <2>2, Versions DEF FieldIs
  <2>4. Handlers[i].chunkResponse \in BOOLEAN
    <3>1. i \in 1..Len(Handlers)
      BY <1>1, HandlersAssumption
    <3>2. Handlers[i] \in [uriPath : STRING, chunkResponse : BOOLEAN]
      BY <3>1, HandlersAssumption, ElementOfSeq
    <3>3. QED
      BY <3>2
  <2>5. request.version = session.version /\ request.method # "HEAD"
    BY <1>1, <2>2, <2>3, Versions
  <2> DEFINE chunked == Handlers[i].chunkResponse
  <2>6. Complete(Over(SendXmlData(session, n, chunked)))
    <3> HIDE DEF chunked
    <3>1. chunked \in BOOLEAN
      BY <2>4 DEF chunked
    <3>2. QED
      BY <1>1, <2>3, <2>5, <3>1, SendXmlDataEnds
  <2>7. QED
    BY <1>1, <2>1, <2>6, ReturnAnswers
<1>5. Refusal(request) # 0 => Refusal(request) \in 400..599
  BY DEF Refusal
<1>6. QED
  <2>1. 408 \in 400..599 /\ 500 \in 400..599
    OBVIOUS
  <2>2. \/ \E code \in 400..599 : Return(SendError(session, code))
        \/ \E n \in 1..MaxSize :
               /\ Refusal(request) = 0
               /\ Return(SendXmlData(session, n, Handlers[i].chunkResponse))
    BY <1>5, <2>1 DEF HandleXmlrpcReq
  <2>3. QED
    BY <1>3, <1>4, <2>2

(* The default handler refuses, redirects, or goes on to a file or         *)
(* directory.                                                              *)
LEMMA DefaultAnswers ==
    ASSUME Followed, TurnInv, AnswerInv,
           DefaultHandler \/ DefaultRefuses \/ DefaultStats
    PROVE  AnswerInv'
<1>1. /\ pc \in {"handler", "default"} /\ UNCHANGED request /\ BeforeInv
      /\ ~Resting
  BY DEF DefaultHandler, DefaultRefuses, DefaultStats, AnswerInv, BeforeHead,
         Resting
<1>2. Plain(session) /\ session.status = 0
  BY <1>1 DEF BeforeInv
<1>3. /\ \A code \in 400..599 : Complete(Over(SendError(session, code)))
      /\ \A code \in 400..599 : Complete(Over(ResponseStatus(session, code)))
  BY <1>2, Refusals
<1>4. pc = "default" => FileHandler
  BY DEF AnswerInv, FileStages
<1>5. FileHandler => Followable(request)
  BY <1>1, Versions DEF Followed
<1>6. CASE DefaultHandler
  <2>1. 404 \in 400..599
    OBVIOUS
  <2>2. CASE FileHandler
    <3>1. pc' = "default" /\ UNCHANGED session
      BY <1>6, <2>2 DEF DefaultHandler
    <3>2. BeforeInv'
      BY <1>1, <1>2, <3>1 DEF BeforeInv
    <3>3. QED
      BY <2>2, <3>1, <3>2 DEF AnswerInv, BeforeHead, FileStages
  <2>3. CASE ~FileHandler
    <3>1. Return(SendError(session, 404))
      BY <1>6, <2>3 DEF DefaultHandler
    <3>2. QED
      BY <1>1, <1>3, <2>1, <3>1, ReturnAnswers
  <2>4. QED
    BY <2>2, <2>3
<1>7. CASE DefaultRefuses
  <2>1. 400 \in 400..599 /\ 405 \in 400..599
    OBVIOUS
  <2>2. CASE Return(ResponseStatus(ResponseContentLength(session, 0), 200))
             /\ request.method = "OPTIONS"
    <3>1. ~session.keepalive
      BY <1>1, <1>4, <1>5, <1>7, <2>2 DEF DefaultRefuses, BeforeInv, Followable
    <3>2. Complete(Over(
              ResponseStatus(ResponseContentLength(session, 0), 200)))
      BY <1>2, <3>1, OptionsEnds
    <3>3. QED
      BY <1>1, <2>2, <3>2, ReturnAnswers
  <2>3. CASE \E code \in {400, 405} : Return(ResponseStatus(session, code))
    BY <1>1, <1>3, <2>1, <2>3, ReturnAnswers
  <2>4. QED
    BY <1>7, <2>2, <2>3 DEF DefaultRefuses
<1>8. CASE DefaultStats
  <2>1. ErrnoStatus \subseteq 400..599
    BY DEF ErrnoStatus
  <2>2. CASE \E code \in ErrnoStatus : Return(ResponseStatus(session, code))
    BY <1>1, <1>3, <2>1, <2>2, ReturnAnswers
  <2>3. CASE /\ Target(request) = "unslashed"
             /\ Return(ResponseWriteStart(ResponseStatus(session, 302)))
    <3>1. request.uri = "/d"
      BY <2>3 DEF Target
    <3>2. request.method = "HEAD" \/ ~session.keepalive
      BY <1>1, <1>4, <1>5, <1>8, <3>1 DEF DefaultStats, BeforeInv, Followable
    <3>3. request.version # <<>>
      BY <1>4, <1>5, <1>8 DEF DefaultStats, Followable
    <3>4. Complete(Over(ResponseWriteStart(ResponseStatus(session, 302))))
      <4>1. 302 \in 200..599
        OBVIOUS
      <4>2. QED
        BY <1>2, <3>2, <3>3, <4>1, BareHeadEnds
    <3>5. QED
      BY <1>1, <2>3, <3>4, ReturnAnswers
  <2>4. CASE /\ Target(request) \in {"file", "directory"}
             /\ pc' = Target(request) /\ UNCHANGED session
    <3>1. BeforeInv'
      BY <1>1, <1>2, <2>4 DEF BeforeInv
    <3>2. pc' = "directory" => request.uri \in {"/d/", "/h/"}
      BY <2>4 DEF Target
    <3>3. FileHandler /\ request.method \in {"GET", "HEAD"}
      BY <1>4, <1>8 DEF DefaultStats
    <3>4. QED
      BY <1>1, <2>4, <3>1, <3>2, <3>3 DEF AnswerInv, BeforeHead, FileStages
  <2>5. QED
    BY <1>8, <2>2, <2>3, <2>4 DEF DefaultStats
<1>9. QED
  BY <1>6, <1>7, <1>8

(* A directory is listed for clients that can follow the listing.          *)
LEMMA DirectoryAnswers ==
    ASSUME Followed, TurnInv, AnswerInv, ServerDirectoryHandler
    PROVE  AnswerInv'
<1>1. /\ pc = "directory" /\ UNCHANGED request /\ BeforeInv /\ ~Resting
      /\ FileHandler /\ request.method \in {"GET", "HEAD"}
      /\ request.uri \in {"/d/", "/h/"}
  BY DEF ServerDirectoryHandler, AnswerInv, BeforeHead, FileStages, Resting
<1>2. Plain(session)
  BY <1>1 DEF BeforeInv
<1>3. Followable(request) /\ request.version = session.version
      /\ request.version # <<>>
  BY <1>1, Versions DEF Followed, Followable
<1>4. \A code \in 400..599 : Complete(Over(ResponseStatus(session, code)))
  BY <1>2, Refusals
<1>5. Complete(Over(ResponseWriteStart(ResponseStatus(session, 304))))
  <2>1. 304 \in 200..599 /\ 304 \in {204, 304}
    OBVIOUS
  <2>2. QED
    BY <1>2, <1>3, <2>1, BareHeadEnds
<1> DEFINE s == Listing(ResponseWriteStart(ResponseChunked(
                                              ResponseStatus(session, 200))))
<1>6. Complete(Over(s))
  <2>1. session.keepalive => (request.method = "GET" <=> AtLeast11(request.version))
    BY <1>1, <1>3 DEF BeforeInv, Followable
  <2>2. \/ ~session.keepalive
        \/ request.method = "HEAD" /\ ~AtLeast11(request.version)
        \/ request.method # "HEAD" /\ AtLeast11(request.version)
    BY <1>1, <2>1
  <2>3. QED
    BY <1>2, <1>3, <2>2, ListingEnds
<1>7. \/ \E code \in ErrnoStatus \cup {400} :
            Return(ResponseStatus(session, code))
      \/ Return(ResponseWriteStart(ResponseStatus(session, 304)))
      \/ Return(s)
  BY DEF ServerDirectoryHandler
<1> HIDE DEF s
<1>8. ErrnoStatus \cup {400} \subseteq 400..599
  BY DEF ErrnoStatus
<1>9. CASE \E code \in ErrnoStatus \cup {400} :
               Return(ResponseStatus(session, code))
  BY <1>1, <1>4, <1>8, <1>9, ReturnAnswers
<1>10. CASE Return(ResponseWriteStart(ResponseStatus(session, 304)))
  BY <1>1, <1>5, <1>10, ReturnAnswers
<1>11. CASE Return(s)
  BY <1>1, <1>6, <1>11, ReturnAnswers
<1>12. QED
  BY <1>7, <1>9, <1>10, <1>11

(* The file is not there, not modified, or open.                           *)
LEMMA OpenAnswers ==
    ASSUME Followed, TurnInv, AnswerInv, FileOpens
    PROVE  AnswerInv'
<1>1. /\ pc = "file" /\ UNCHANGED request /\ BeforeInv /\ ~Resting
      /\ FileHandler /\ request.method \in {"GET", "HEAD"}
  BY DEF FileOpens, AnswerInv, BeforeHead, FileStages, Resting
<1>2. Plain(session) /\ session.status = 0
  BY <1>1 DEF BeforeInv
<1>3. request.version # <<>>
  BY <1>1, Versions DEF Followed, Followable
<1>4. CASE \E code \in ErrnoStatus : Return(ResponseStatus(session, code))
  <2>1. ErrnoStatus \subseteq 400..599
    BY DEF ErrnoStatus
  <2>2. \A code \in 400..599 : Complete(Over(ResponseStatus(session, code)))
    BY <1>2, Refusals
  <2>3. QED
    BY <1>1, <1>4, <2>1, <2>2, ReturnAnswers
<1>5. CASE Return(ResponseWriteStart(ResponseStatus(session, 304)))
  <2>1. 304 \in 200..599 /\ 304 \in {204, 304}
    OBVIOUS
  <2>2. Complete(Over(ResponseWriteStart(ResponseStatus(session, 304))))
    BY <1>2, <1>3, <2>1, BareHeadEnds
  <2>3. QED
    BY <1>1, <1>5, <2>2, ReturnAnswers
<1>6. CASE /\ pc' = "fields"
           /\ session' \in {session, [session EXCEPT !.ranges = <<>>]}
  <2> DEFINE s == [session EXCEPT !.ranges = <<>>]
  <2>1. Fresh(s) /\ Settled(s)
    <3>1. 0 \in Nat /\ NoLength \in {NoLength} \cup (0..(Word - 1))
      OBVIOUS
    <3>2. Settled(session) /\ Fresh(session)
      BY <1>2 DEF Plain
    <3>3. Fresh(s)
      BY <3>2, FreshStays
    <3>4. Settled(s)
      BY <3>1, <3>2, SettersFollow DEF Follows
    <3>5. QED
      BY <3>3, <3>4
  <2>2. /\ s.length = session.length /\ s.chunkedwrite = session.chunkedwrite
        /\ s.chunkedwritemode = session.chunkedwritemode
        /\ s.status = session.status /\ s.keepalive = session.keepalive
        /\ s.ranges = <<>>
    BY <1>2 DEF Plain, Fresh, IsSession, SessionFields
  <2> HIDE DEF s
  <2>3. Plain(session')
    BY <1>2, <1>6, <2>1, <2>2 DEF Plain, s
  <2>4. /\ session'.status = 0 /\ session'.keepalive = session.keepalive
        /\ session'.ranges \in {<<>>, RangesOf(request)}
    BY <1>1, <1>2, <1>6, <2>2 DEF BeforeInv, s
  <2>5. BeforeInv'
    BY <1>1, <2>3, <2>4 DEF BeforeInv
  <2>6. QED
    BY <1>1, <1>6, <2>5 DEF AnswerInv, BeforeHead, FileStages
<1>7. QED
  BY <1>4, <1>5, <1>6 DEF FileOpens

(* The head of what the file handler sends.                                *)
LEMMA FieldsAnswers ==
    ASSUME Followed, TurnInv, AnswerInv, FileFields
    PROVE  AnswerInv'
<1> DEFINE lengths == {NoLength} \cup (0..(Word - 1))
<1>1. /\ pc = "fields" /\ UNCHANGED <<request, size>> /\ BeforeInv /\ ~Resting
      /\ FileHandler /\ request.method \in {"GET", "HEAD"}
      /\ pc' = "body"
  BY DEF FileFields, AnswerInv, BeforeHead, FileStages, Resting, fileVars
<1>2. Settled(session) /\ Fresh(session) /\ ~Chunking(session)
      /\ session.length = NoLength
  BY <1>1 DEF BeforeInv, Plain, Chunking
<1>3. Followable(request) /\ request.version # <<>>
  BY <1>1, Versions DEF Followed, Followable
<1>4. size \in 0..MaxSize /\ size \in lengths /\ 200 \in Nat /\ 206 \in Nat
  BY SizeAssumption DEF TurnInv
<1>5. Settled(session) /\ session.ranges \in {<<>>, RangesOf(request)}
      /\ (session.keepalive => KeptAlive(request))
  BY <1>1, <1>2 DEF BeforeInv
<1>6. ASSUME NEW s, Settled(s), Fresh(s), ~Chunking(s),
             s.status \in {200, 206}, session' = ResponseWriteStart(s),
             s.keepalive = session.keepalive,
             \/ request.method = "HEAD"
             \/ ~s.keepalive /\ s.length = NoLength
             \/ /\ Len(s.ranges) <= 1 /\ s.length = size
                /\ parts' = <<Whole(size)>>
      PROVE  BodyInv'
  <2> DEFINE h == HeadToken(s)
  <2>1. Begins(session', s)
    <3>1. s.status # 0
      BY <1>6
    <3>2. Begins(ResponseWriteStart(s), s)
      BY ONLY <1>6, <3>1, CallsSet
    <3>3. QED
      BY <1>6, <3>2
  <2>2. h.status = s.status /\ h.chunked = Chunking(s) /\ h.length = s.length
    BY DEF HeadToken
  <2> HIDE DEF h
  <2>3. /\ Started(session') /\ session'.sent = <<h>> /\ session'.sent[1] = h
        /\ session'.status = s.status /\ session'.ranges = s.ranges
        /\ session'.keepalive = s.keepalive
        /\ Chunking(session') = Chunking(s)
    BY <2>1 DEF Begins, h
  <2>4. CASE request.method = "HEAD"
    <3>1. BareHead'
      BY <1>1, <2>3, <2>4 DEF BareHead
    <3>2. QED
      BY <1>6, <2>2, <2>3, <3>1 DEF BodyInv
  <2>5. CASE /\ request.method # "HEAD"
             /\ ~s.keepalive /\ s.length = NoLength
    <3>1. ClosingBody'
      BY <2>2, <2>3, <2>5 DEF ClosingBody, HTTPKeepalive
    <3>2. QED
      BY <1>1, <1>6, <2>2, <2>3, <2>5, <3>1 DEF BodyInv
  <2>6. CASE /\ request.method # "HEAD"
             /\ Len(s.ranges) <= 1 /\ s.length = size
             /\ parts' = <<Whole(size)>>
    <3>1. /\ size' = size /\ size \in 0..size
      BY <1>1, <1>4
    <3>2. WholeBody'
      BY <2>2, <2>3, <2>6, <3>1 DEF WholeBody, Whole
    <3>3. QED
      BY <1>1, <1>6, <2>2, <2>3, <2>6, <3>2 DEF BodyInv
  <2>7. QED
    BY <1>6, <2>4, <2>5, <2>6
<1>7. CASE WholeFile
  <2> DEFINE r == [session EXCEPT !.ranges = <<>>]
             s == ResponseStatus(r, 200)
             t == ResponseContentLength(s, size)
  <2>1. Fresh(r) /\ Settled(r)
    BY <1>2, <1>4, FreshStays, SettersFollow DEF Follows
  <2>2. /\ r.keepalive = session.keepalive /\ r.ranges = <<>>
        /\ r.chunkedwrite = session.chunkedwrite
        /\ r.chunkedwritemode = session.chunkedwritemode
    BY <1>2 DEF Fresh, IsSession, SessionFields
  <2> HIDE DEF r
  <2>3. Chunking(r) = Chunking(session)
    BY <2>2 DEF Chunking
  <2>4. Sets(s, r) /\ s.status = 200 /\ Chunking(s) = Chunking(r)
    BY ONLY <1>4, <2>1, CallsSet
  <2> HIDE DEF s
  <2>5. Sets(t, s) /\ t.status = s.status /\ t.length = size
        /\ Chunking(t) = Chunking(s)
    BY ONLY <1>4, <2>4, CallsSet DEF Sets
  <2> HIDE DEF t
  <2>6. /\ session' = ResponseWriteStart(t) /\ parts' = <<Whole(size)>>
    BY <1>7 DEF WholeFile, r, s, t
  <2>7. /\ Settled(t) /\ Fresh(t) /\ t.status = 200
        /\ t.keepalive = session.keepalive
        /\ t.ranges = <<>> /\ ~Chunking(t)
    BY <1>2, <2>2, <2>3, <2>4, <2>5 DEF Sets
  <2>8. Len(t.ranges) <= 1
    <3>1. t.ranges = <<>>
      BY <2>7
    <3>2. Len(<<>>) = 0
      OBVIOUS
    <3>3. QED
      BY ONLY <3>1, <3>2
  <2>9. BodyInv'
    BY <1>6, <2>5, <2>6, <2>7, <2>8
  <2>10. QED
    BY <1>1, <2>9 DEF AnswerInv, BeforeHead, FileStages
<1>8. CASE OneRange
  <2> DEFINE part == RangeDecode(session.ranges[1], size)
             n == Bytes(part)
             s == ResponseContentLength(session, n)
             t == ResponseStatus(s, 206)
  <2>1. session.ranges[1] \in RangeTexts /\ session.ranges = RangesOf(request)
        /\ Len(session.ranges) = 1 /\ RangeValid(session.ranges[1])
    BY <1>2, <1>5, <1>8 DEF OneRange, Settled
  <2>2. n \in 0..(Word - 1)
    <3>1. part.start \in Int /\ part.end \in Int
      BY <1>4, <2>1, SizeAssumption DEF RangeTexts, RangeDecode, Offsets
    <3> HIDE DEF part
    <3>2. QED
      BY <3>1, SizeAssumption DEF Bytes
  <2>3. request.method = "GET" => part = Whole(size)
    <3>1. CASE request.method = "GET"
      <4>1. session.ranges[1].form = "from" /\ session.ranges[1].first = 0
        BY <1>3, <2>1, <3>1 DEF Followable
      <4>2. QED
        BY <4>1 DEF RangeDecode, Whole
    <3>2. QED
      BY <3>1
  <2>4. request.method = "GET" => n = size
    BY <1>4, <2>3, WholeBytes
  <2>5. session' = ResponseWriteStart(t) /\ parts' = <<part>>
    BY <1>8 DEF OneRange
  <2> HIDE DEF n, part
  <2>6. Sets(s, session) /\ s.length = n /\ Chunking(s) = Chunking(session)
    <3>1. n \in lengths
      BY <2>2
    <3>2. QED
      BY ONLY <1>2, <3>1, CallsSet
  <2> HIDE DEF s
  <2>7. Sets(t, s) /\ t.status = 206 /\ t.length = s.length
        /\ Chunking(t) = Chunking(s)
    BY ONLY <1>4, <2>6, CallsSet DEF Sets
  <2> HIDE DEF t
  <2>8. /\ Settled(t) /\ Fresh(t) /\ t.status = 206
        /\ t.keepalive = session.keepalive
        /\ t.ranges = session.ranges /\ ~Chunking(t) /\ t.length = n
    BY <1>2, <2>6, <2>7 DEF Sets
  <2>9. Len(t.ranges) <= 1
    <3>1. t.ranges = session.ranges
      BY <2>8
    <3>2. Len(session.ranges) = 1
      BY <2>1
    <3>3. QED
      BY ONLY <3>1, <3>2
  <2>10. \/ request.method = "HEAD"
         \/ /\ Len(t.ranges) <= 1 /\ t.length = size
            /\ parts' = <<Whole(size)>>
    BY <1>1, <2>3, <2>4, <2>5, <2>8, <2>9
  <2>11. BodyInv'
    BY <1>6, <2>5, <2>8, <2>10
  <2>12. QED
    BY <1>1, <2>11 DEF AnswerInv, BeforeHead, FileStages
<1>9. CASE ManyRanges
  <2> DEFINE s == ResponseStatus(session, 206)
  <2>1. Sets(s, session) /\ s.status = 206 /\ s.length = session.length
        /\ Chunking(s) = Chunking(session)
    BY ONLY <1>2, <1>4, CallsSet
  <2>2. session' = ResponseWriteStart(s)
    BY <1>9 DEF ManyRanges
  <2> HIDE DEF s
  <2>3. Len(session.ranges) > 1 /\ session.ranges = RangesOf(request)
    BY <1>5, <1>9 DEF ManyRanges
  <2>4. request.method = "HEAD" \/ ~session.keepalive
    <3>1. Len(session.ranges) \in Nat
      BY <1>2 DEF Settled
    <3>2. QED
      BY <1>1, <1>3, <1>5, <2>3, <3>1 DEF Followable
  <2>5. /\ Settled(s) /\ Fresh(s) /\ s.status = 206
        /\ s.keepalive = session.keepalive
        /\ s.length = NoLength /\ ~Chunking(s)
    BY <1>2, <2>1 DEF Sets
  <2>6. BodyInv'
    BY <1>6, <2>2, <2>4, <2>5
  <2>7. QED
    BY <1>1, <2>6 DEF AnswerInv, BeforeHead, FileStages
<1>10. QED
  BY <1>7, <1>8, <1>9 DEF FileFields

(* The body of a file.                                                     *)
LEMMA PartAnswers ==
    ASSUME TurnInv, AnswerInv, SendPart
    PROVE  AnswerInv'
<1> DEFINE m == IF Len(session.ranges) > 1 THEN Mark(session) ELSE session
           token == Data(FromFile(parts[1]))
<1>1. /\ pc = "body" /\ pc' = "body" /\ BodyInv /\ UNCHANGED <<request, size>>
      /\ request.method # "HEAD" /\ parts # <<>> /\ parts' = Tail(parts)
      /\ FileHandler /\ request.method \in {"GET", "HEAD"}
      /\ session' = ConnWrite(m, token)
  BY DEF SendPart, AnswerInv, FileStages, fileVars
<1>2. Started(session)
  BY <1>1 DEF BodyInv
<1>3. \A n : Data(n).kind # "head"
  BY DEF Data
<1>4. /\ Started(m) /\ m.sent[1] = session.sent[1] /\ m.status = session.status
      /\ HTTPKeepalive(m) = HTTPKeepalive(session)
      /\ Chunking(m) = Chunking(session)
  <2>1. /\ Sends(Mark(session), session, Append(session.sent, Data(MarkSize)))
        /\ Chunking(Mark(session)) = Chunking(session)
    BY <1>2, <1>3, CallsSend DEF Mark
  <2>2. QED
    BY <1>2, <2>1 DEF Sends
<1> HIDE DEF m, token
<1>5. /\ Sends(session', m, Append(m.sent, token))
      /\ Chunking(session') = Chunking(m)
      /\ session'.ranges = m.ranges
  <2>1. token.kind # "head"
    BY <1>3 DEF token
  <2>2. QED
    BY <1>1, <1>4, <2>1, CallsSend
<1>6. /\ Started(session') /\ ~Chunking(session')
      /\ session'.status = session.status
      /\ session'.sent[1] = session.sent[1]
      /\ HTTPKeepalive(session') = HTTPKeepalive(session)
  BY <1>1, <1>4, <1>5 DEF Sends, BodyInv
<1>7. CASE ClosingBody
  <2>1. ClosingBody'
    BY <1>6, <1>7 DEF ClosingBody
  <2>2. BodyInv'
    BY <1>1, <1>6, <2>1 DEF BodyInv
  <2>3. QED
    BY <1>1, <2>2 DEF AnswerInv, BeforeHead, FileStages
<1>8. CASE WholeBody
  <2> DEFINE h == session.sent[1]
             n == h.length
  <2>1. /\ Len(session.ranges) <= 1 /\ n \in 0..size
        /\ parts = <<Whole(n)>> /\ session.sent = <<h>>
    BY <1>1, <1>8 DEF WholeBody
  <2>2. ~(Len(session.ranges) > 1)
    <3>1. Len(session.ranges) <= 1
      BY <2>1
    <3>2. session.ranges \in Seq(RangeTexts)
      BY <1>1 DEF TurnInv, Settled, Resting
    <3>3. Len(session.ranges) \in Nat
      BY <3>2
    <3>4. QED
      BY ONLY <3>1, <3>3
  <2>3. m = session
    BY <2>2 DEF m
  <2>4. parts[1] = Whole(n) /\ parts' = <<>>
    <3> DEFINE w == Whole(n)
    <3> HIDE DEF w
    <3>1. <<w>>[1] = w /\ Tail(<<w>>) = <<>>
      OBVIOUS
    <3>2. parts = <<w>>
      BY <2>1 DEF w
    <3>3. QED
      BY <1>1, <3>1, <3>2 DEF w
  <2>5. token = Data(n)
    <3>1. n \in 0..MaxSize /\ size \in n..MaxSize
      BY <2>1, SizeAssumption DEF TurnInv
    <3>2. QED
      BY <2>4, <3>1, WholeBytes DEF token
  <2> HIDE DEF h, n
  <2>6. Append(<<h>>, Data(n)) = <<h, Data(n)>>
    BY ONLY Appends
  <2>7. session'.sent = <<h, Data(n)>>
    BY <1>5, <2>1, <2>3, <2>5, <2>6 DEF Sends
  <2>8. WholeBody'
    <3>1. session'.sent[1] = h /\ h.length = n /\ size' = size
      BY <1>1, <1>6 DEF h, n
    <3>2. session'.ranges = session.ranges
      BY <1>5, <2>3
    <3>3. QED
      BY <2>1, <2>4, <2>7, <3>1, <3>2 DEF WholeBody
  <2>9. BodyInv'
    BY <1>1, <1>6, <2>8 DEF BodyInv
  <2>10. QED
    BY <1>1, <2>9 DEF AnswerInv, BeforeHead, FileStages
<1>9. QED
  BY <1>1, <1>7, <1>8 DEF BodyInv, BareHead

(* The end of the file handler.                                            *)
LEMMA CloseAnswers ==
    ASSUME Followed, TurnInv, AnswerInv, FileClose
    PROVE  AnswerInv'
<1> DEFINE m == IF request.method # "HEAD" /\ Len(session.ranges) > 1
                THEN Mark(session) ELSE session
           h == session.sent[1]
<1>1. /\ pc = "body" /\ BodyInv /\ UNCHANGED request /\ Return(m)
      /\ request.method = "HEAD" \/ parts = <<>>
      /\ FileHandler /\ ~Resting
  BY DEF FileClose, AnswerInv, FileStages, Resting
<1>2. /\ Started(session) /\ ~Chunking(session) /\ h.status = session.status
      /\ session.status \in {200, 206} /\ ~h.chunked
  BY <1>1 DEF BodyInv
<1>3. request.version # <<>>
  BY <1>1, Versions DEF Followed, Followable
<1>4. /\ Started(m) /\ m.sent[1] = h /\ m.status = session.status
      /\ HTTPKeepalive(m) = HTTPKeepalive(session)
      /\ ~Chunking(m) /\ m.responseStarted = TRUE
  <2>1. \A n : Data(n).kind # "head"
    BY DEF Data
  <2>2. /\ Sends(Mark(session), session, Append(session.sent, Data(MarkSize)))
        /\ Chunking(Mark(session)) = Chunking(session)
    BY <1>2, <2>1, CallsSend DEF Mark
  <2>3. QED
    BY <1>2, <2>2 DEF Sends, Started
<1>5. EndsWell(m.sent, HTTPKeepalive(m))
  <2>1. CASE ClosingBody
    <3>1. ~HTTPKeepalive(m) /\ h.length = NoLength
      BY <1>4, <2>1 DEF ClosingBody
    <3>2. AfterHead(h) \in {"head", "toClose"}
      BY <1>2, <1>3, <3>1 DEF AfterHead
    <3>3. QED
      BY <1>4, <3>1, <3>2 DEF EndsWell
  <2>2. CASE request.method = "HEAD" /\ session.sent = <<h>>
    <3> DEFINE q == <<h>>
    <3>1. m.sent = q
      BY <2>2
    <3> HIDE DEF h
    <3>2. q[1] = h /\ Body(q) = {}
      BY DEF Body
    <3>3. AfterHead(h) = "head"
      BY <1>3, <2>2 DEF AfterHead
    <3> HIDE DEF q
    <3>4. QED
      BY <3>1, <3>2, <3>3 DEF EndsWell
  <2>3. CASE request.method # "HEAD" /\ WholeBody /\ parts = <<>>
    <3> DEFINE n == h.length
               d == Data(n)
               q == <<h, d>>
    <3>1. n \in 0..size /\ n \in Nat /\ session.sent = q
      <4>1. \A x : parts # <<x>>
        <5>1. \A x : Len(<<x>>) = 1 /\ Len(<<>>) = 0
          OBVIOUS
        <5>2. QED
          BY <2>3, <5>1
      <4>2. QED
        BY <2>3, <4>1 DEF WholeBody, TurnInv
    <3>2. m = session
      <4>1. session.ranges \in Seq(RangeTexts)
        BY <1>1 DEF TurnInv, Settled
      <4>2. Len(session.ranges) <= 1 /\ Len(session.ranges) \in Nat
        BY <2>3, <4>1 DEF WholeBody
      <4>3. ~(Len(session.ranges) > 1)
        BY ONLY <4>2
      <4>4. QED
        BY <4>3
    <3>3. m.sent = q
      BY <3>1, <3>2
    <3>4. AfterHead(h) = IF n = 0 THEN "head" ELSE "data"
      <4>1. n # NoLength
        BY <3>1 DEF NoLength
      <4>2. h.status \notin {204, 304}
        BY <1>2
      <4>3. QED
        BY <1>2, <1>3, <2>3, <4>1, <4>2 DEF AfterHead
    <3> HIDE DEF m, d
    <3>5. q[1] = h /\ q[2] = d /\ Len(q) = 2 /\ Body(q) = {2}
      BY DEF Body
    <3>6. CASE n = 0
      <4>1. d = Data(0)
        BY <3>6 DEF d
      <4>2. \A k \in Body(q) : q[k] = Data(0)
        BY <3>5, <4>1
      <4>3. AfterHead(q[1]) = "head"
        BY <3>4, <3>5, <3>6
      <4> HIDE DEF q
      <4>4. QED
        BY <3>3, <4>2, <4>3 DEF EndsWell
    <3>7. CASE n # 0
      <4>1. q[2] = Data(q[1].length) /\ q[1].length \in Nat \ {0}
        BY <3>1, <3>5, <3>7 DEF d
      <4>2. AfterHead(q[1]) = "data" /\ Len(q) = 2
        BY <3>4, <3>5, <3>7
      <4> HIDE DEF q
      <4>3. QED
        BY <3>3, <4>1, <4>2 DEF EndsWell
    <3>8. QED
      BY <3>6, <3>7
  <2>4. QED
    BY <1>1, <2>1, <2>2, <2>3 DEF BodyInv, BareHead
<1> HIDE DEF m
<1>6. Over(m) = m
  BY <1>4 DEF Over, HTTPWriteEndChunk
<1>7. Complete(Over(m))
  <2>1. m.status \in 200..599
    <3>1. session.status \in {200, 206}
      BY <1>2
    <3>2. \A x \in {200, 206} : x \in 200..599
      OBVIOUS
    <3>3. QED
      BY <1>4, <3>1, <3>2
  <2>2. QED
    BY <1>2, <1>4, <1>5, <1>6, <2>1 DEF Complete
<1>8. QED
  BY <1>1, <1>7, ReturnAnswers

(* A request begins with nothing sent.                                     *)
LEMMA ReadAnswers ==
    ASSUME ReadRequest
    PROVE  AnswerInv'
<1>1. PICK r \in Requests : \E v \in VersionsOf(r) :
          request' = r /\ session' = NewSession(r, v, LastReqOnConn)
  BY DEF ReadRequest
<1>2. PICK v \in VersionsOf(r) :
          request' = r /\ session' = NewSession(r, v, LastReqOnConn)
  BY <1>1
<1>3. LastReqOnConn \in BOOLEAN
  BY DEF LastReqOnConn
<1>4. Settled(session')
  BY <1>2, <1>3, NewSessionSettled
<1>5. Fresh(session')
  BY <1>2, NewSessionFresh
<1>6. /\ session'.status = r.error /\ session'.length = NoLength
      /\ session'.chunkedwrite = FALSE /\ session'.chunkedwritemode = FALSE
      /\ session'.ranges = RangesOf(r)
  BY <1>2 DEF NewSession
<1>7. session'.keepalive = NewSession(r, v, FALSE).keepalive
  BY <1>2 DEF NewSession
<1>8. r.error = 0 \/ r.error \in 400..599
  BY RequestsAssumption
<1>9. BeforeInv' /\ pc' = "dispatch"
  <2>1. Plain(session')
    BY <1>4, <1>5, <1>6 DEF Plain
  <2>2. session'.keepalive => KeptAlive(r)
    BY <1>7 DEF KeptAlive
  <2>3. pc' = "dispatch"
    BY DEF ReadRequest
  <2>4. session'.status = 0 \/ session'.status \in 400..599
    BY <1>6, <1>8
  <2>5. session'.ranges = RangesOf(r) /\ request' = r
    BY <1>2, <1>6
  <2>6. QED
    BY <2>1, <2>2, <2>3, <2>4, <2>5 DEF BeforeInv
<1>10. QED
  BY <1>9 DEF AnswerInv, BeforeHead, FileStages

(* What others do to the file, as long as they do not shorten it.          *)
LEMMA OthersAnswer ==
    ASSUME Followed, TurnInv, AnswerInv, Others
    PROVE  AnswerInv'
<1>1. UNCHANGED <<request, session, pc, parts>> /\ FileHandler /\ ~Truncates
  BY DEF Others, Resize, Move, Followed
<1>2. size \in Nat /\ size' \in Nat /\ size <= size'
  BY <1>1, SizeAssumption DEF Others, Resize, Move, TurnInv
<1>3. WholeBody => WholeBody'
  BY <1>1, <1>2 DEF WholeBody
<1>4. BodyInv => BodyInv'
  BY <1>1, <1>3 DEF BodyInv, BareHead, ClosingBody
<1>5. BeforeInv => BeforeInv'
  BY <1>1 DEF BeforeInv
<1>6. Complete(Over(session)) => Complete(Over(session))'
  BY <1>1, CompleteStays
<1>7. QED
  BY <1>1, <1>4, <1>5, <1>6 DEF AnswerInv

(* Every step keeps the invariant of the responses.                        *)
LEMMA StepAnswerInv ==
    ASSUME Followed, TurnInv, AnswerInv, [Next]_vars
    PROVE  AnswerInv'
<1>1. CASE ReadRequest
  BY <1>1, ReadAnswers
<1>2. CASE Others
  BY <1>2, OthersAnswer
<1>3. CASE Finish \/ ReadNothing
  BY <1>3 DEF Finish, ReadNothing, AnswerInv, BeforeHead, FileStages
<1>4. CASE ClientReads \/ Terminated \/ UNCHANGED vars
  <2>1. UNCHANGED <<request, session, pc, size, parts>>
    BY <1>4 DEF ClientReads, Terminated, vars, fileVars
  <2>2. BodyInv => BodyInv'
    BY <2>1 DEF BodyInv, BareHead, ClosingBody, WholeBody
  <2>3. BeforeInv => BeforeInv'
    BY <2>1 DEF BeforeInv
  <2>4. Complete(Over(session)) => Complete(Over(session))'
    BY <2>1, CompleteStays
  <2>5. QED
    BY <2>1, <2>2, <2>3, <2>4 DEF AnswerInv
<1>5. CASE Refuse \/ RunUserHandler \/ NextHandler
  BY <1>5, DispatchAnswers
<1>6. CASE HandleXmlrpcReq
  BY <1>6, RpcAnswers
<1>7. CASE DefaultHandler \/ DefaultRefuses \/ DefaultStats
  BY <1>7, DefaultAnswers
<1>8. CASE ServerDirectoryHandler
  BY <1>8, DirectoryAnswers
<1>9. CASE FileOpens
  BY <1>9, OpenAnswers
<1>10. CASE FileFields
  BY <1>10, FieldsAnswers
<1>11. CASE SendPart
  BY <1>11, PartAnswers
<1>12. CASE FileClose
  BY <1>12, CloseAnswers
<1>13. QED
  BY <1>1, <1>2, <1>3, <1>4, <1>5, <1>6, <1>7, <1>8, <1>9, <1>10, <1>11, <1>12
     DEF Next, Server, Handler

-----------------------------------------------------------------------------
(***************************************************************************)
(* The invariant of the client.  While a request is handled it has read    *)
(* all there was and expects a response; then it has all of the response   *)
(* before it, or is somewhere in it.                                       *)
(***************************************************************************)
ReadingInv ==
    LET status == session.status
        keep   == HTTPKeepalive(session)
    IN  /\ status \in 200..599
        /\ pc = "closed" <=> ~keep
        /\ session.denied = (served >= KeepaliveMaxConn)
        /\ keep \in BOOLEAN
        /\ \/ Expecting(client) /\ Delimited(stream, status, keep)
           \/ Behind(client, stream, status, keep)

ClientInv ==
    /\ ~Resting => stream = <<>> /\ Expecting(client)
    /\ Resting /\ served = 0 =>
          pc # "closed" /\ stream = <<>> /\ Expecting(client)
    /\ Resting /\ served > 0 => ReadingInv
    /\ pc = "idle" => stream = <<>>

(* Before the next request, the client expects a response.                 *)
LEMMA ReadyClient ==
    ASSUME TurnInv, ClientInv, Resting, pc # "closed", stream = <<>>
    PROVE  Expecting(client)
<1>1. served \in Nat
  BY DEF TurnInv
<1>2. CASE served > 0
  <2>1. /\ HTTPKeepalive(session) \in BOOLEAN /\ HTTPKeepalive(session)
        /\ \/ Expecting(client)
              /\ Delimited(<<>>, session.status, HTTPKeepalive(session))
           \/ Behind(client, <<>>, session.status, HTTPKeepalive(session))
    BY <1>2 DEF ClientInv, ReadingInv
  <2>2. CASE Behind(client, <<>>, session.status, HTTPKeepalive(session))
    BY <2>1, <2>2, AllIsRead DEF Expecting
  <2>3. QED
    BY <2>1, <2>2
<1>3. QED
  BY <1>1, <1>2 DEF ClientInv

(* The response that the server has finished is before the client.         *)
LEMMA FinishReading ==
    ASSUME TurnInv, AnswerInv, ClientInv, Finish
    PROVE  ClientInv'
<1> DEFINE s == Over(session)
<1>1. /\ pc = "finish" /\ ~Resting /\ session' = s /\ stream' = s.sent
      /\ pc' = (IF HTTPKeepalive(s) THEN "read" ELSE "closed")
      /\ UNCHANGED <<request, served, client>>
  BY DEF Finish, Over, Resting
<1>2. Complete(s) /\ Expecting(client) /\ served > 0
  BY <1>1 DEF AnswerInv, ClientInv, TurnInv
<1>3. s.denied = (served >= KeepaliveMaxConn) /\ HTTPKeepalive(s) \in BOOLEAN
  <2>1. Server
    BY DEF Server
  <2>2. Settled(session) /\ size \in 0..MaxSize
    BY <1>1 DEF TurnInv
  <2>3. Follows(session', session)
    BY <2>1, <2>2, ServerFollows
  <2>4. s.denied = session.denied /\ s.keepalive \in BOOLEAN
    BY <1>1, <2>3 DEF Follows, Settled
  <2>5. QED
    BY <1>1, <2>4 DEF TurnInv, HTTPKeepalive
<1> HIDE DEF s
<1>4. Delimited(s.sent, s.status, HTTPKeepalive(s))
  <2>1. /\ \E T : s.sent \in Seq(T)
        /\ s.sent # <<>>
        /\ \A k \in DOMAIN s.sent : s.sent[k].kind = "head" <=> k = 1
        /\ s.sent[1].keepalive = HTTPKeepalive(s)
        /\ s.sent[1].status = s.status
        /\ EndsWell(s.sent, HTTPKeepalive(s))
    BY <1>2 DEF Complete, Started, IsSession
  <2>2. Len(s.sent) \in Nat \ {0} /\ DOMAIN s.sent = 1..Len(s.sent)
    BY <2>1, TailIndexes
  <2>3. \A k \in Body(s.sent) : k \in DOMAIN s.sent /\ k # 1
    BY <2>2 DEF Body
  <2>4. 1 \in DOMAIN s.sent
    BY <2>2
  <2>5. QED
    BY <2>1, <2>3, <2>4 DEF Delimited
<1>5. EndsWell(s.sent, HTTPKeepalive(s))' = EndsWell(s.sent, HTTPKeepalive(s))'
  OBVIOUS
<1>6. Delimited(stream, session.status, HTTPKeepalive(session))'
  BY <1>1, <1>4 DEF Delimited, EndsWell, AfterHead
<1>7. s.status \in 200..599
  BY <1>2 DEF Complete
<1>8. ReadingInv'
  BY <1>1, <1>2, <1>3, <1>6, <1>7 DEF ReadingInv, Expecting
<1>9. QED
  BY <1>1, <1>2, <1>8 DEF ClientInv, Resting

(* The client reads on.                                                    *)
LEMMA ReadsOn ==
    ASSUME TurnInv, ClientInv, ClientReads
    PROVE  ClientInv'
<1>1. /\ stream # <<>> /\ stream' = Tail(stream)
      /\ client' = Reads(client, stream[1])
      /\ UNCHANGED <<request, session, pc, served>>
  BY DEF ClientReads
<1>2. Resting /\ served > 0 /\ pc # "idle"
  BY <1>1 DEF ClientInv, TurnInv
<1> DEFINE status == session.status
           keep == HTTPKeepalive(session)
<1>3. ReadingInv
  BY <1>2 DEF ClientInv
<1>4. Behind(client', stream', status, keep)
  <2>1. keep \in BOOLEAN
    BY <1>3 DEF ReadingInv
  <2>2. CASE Expecting(client) /\ Delimited(stream, status, keep)
    BY <1>1, <2>1, <2>2, HeadRead
  <2>3. CASE Behind(client, stream, status, keep)
    <3>1. client = [mode |-> client.mode, left |-> client.left,
                    more |-> client.more, status |-> client.status]
      BY DEF TurnInv, IsClient
    <3>2. QED
      BY <1>1, <2>1, <2>3, <3>1, RestRead
  <2>4. QED
    BY <1>3, <2>2, <2>3 DEF ReadingInv
<1>5. Behind(client, stream, session.status, HTTPKeepalive(session))'
  BY <1>1, <1>4 DEF Behind
<1>6. ReadingInv'
  BY <1>1, <1>3, <1>5 DEF ReadingInv
<1>7. QED
  BY <1>1, <1>2, <1>6 DEF ClientInv, Resting

(* Every step keeps the invariant of the client.                           *)
LEMMA StepClientInv ==
    ASSUME TurnInv, AnswerInv, ClientInv, [Next]_vars
    PROVE  ClientInv'
<1>1. CASE ReadRequest
  <2>1. /\ pc = "read" /\ stream = <<>> /\ pc' = "dispatch"
        /\ UNCHANGED <<stream, client>>
    BY <1>1 DEF ReadRequest
  <2>2. Expecting(client)
    BY <2>1, ReadyClient DEF Resting
  <2>3. QED
    BY <2>1, <2>2 DEF ClientInv, Resting, Expecting
<1>2. CASE ReadNothing
  <2>1. /\ pc = "read" /\ stream = <<>> /\ pc' = "idle"
        /\ UNCHANGED <<request, session, served, stream, client>>
    BY <1>2 DEF ReadNothing, connVars
  <2>2. ReadingInv => ReadingInv'
    BY ZenonT(40), <2>1 DEF ReadingInv, Delimited, EndsWell, AfterHead, Expecting, Behind
  <2>3. QED
    BY <2>1, <2>2 DEF ClientInv, Resting, Expecting
<1>3. CASE Server /\ ~Finish
  <2>1. /\ ~Resting /\ ~Resting' /\ UNCHANGED <<stream, client>>
    BY <1>3, ServerMoves DEF Resting
  <2>2. QED
    BY <2>1 DEF ClientInv, Resting, Expecting
<1>4. CASE Finish
  BY <1>4, FinishReading
<1>5. CASE ClientReads
  BY <1>5, ReadsOn
<1>6. CASE Others \/ Terminated \/ UNCHANGED vars
  <2>1. UNCHANGED <<request, session, pc, served, stream, client>>
    BY <1>6 DEF Others, Resize, Move, Terminated, vars, connVars
  <2>2. ReadingInv => ReadingInv'
    BY <2>1 DEF ReadingInv, Delimited, EndsWell, AfterHead, Expecting, Behind
  <2>3. QED
    BY <2>1, <2>2 DEF ClientInv, Resting, Expecting
<1>7. QED
  BY <1>1, <1>2, <1>3, <1>4, <1>5, <1>6 DEF Next

(* All of them together, for requests that can be followed.                *)
SessionInv == TurnInv /\ AnswerInv /\ ClientInv

(* The invariants hold before the first request.                           *)
LEMMA InitSessionInv == Init => SessionInv
<1> SUFFICES ASSUME Init PROVE SessionInv
  OBVIOUS
<1>1. AnswerInv
  BY DEF Init, AnswerInv, BeforeHead, FileStages
<1>2. ClientInv
  BY DEF Init, ClientInv, Resting, Expecting
<1>3. QED
  BY <1>1, <1>2, InitTurnInv DEF SessionInv

(* Every step keeps all of them.                                           *)
LEMMA StepSessionInv ==
    ASSUME Followed
    PROVE  SessionInv /\ [Next]_vars => SessionInv'
BY StepTurnInv, StepAnswerInv, StepClientInv DEF SessionInv

(* When the client has read all there is.                                  *)
LEMMA Delimits ==
    ASSUME SessionInv
    PROVE  /\ ResponsesDelimited
           /\ AllRead => client.status \in 200..599
<1>1. SUFFICES ASSUME AllRead
               PROVE  /\ KnowsEnd /\ client.status = session.status
                      /\ session.status \in 200..599
  BY DEF ResponsesDelimited
<1> DEFINE keep == HTTPKeepalive(session)
<1>2. ReadingInv /\ stream = <<>>
  BY <1>1 DEF SessionInv, ClientInv, AllRead
<1>3. /\ session.status \in 200..599 /\ keep \in BOOLEAN
      /\ pc = "closed" <=> ~keep
      /\ Behind(client, <<>>, session.status, keep)
  BY <1>2 DEF ReadingInv, Delimited
<1>4. /\ client.status = session.status
      /\ client.mode = "head" \/ (~keep /\ client.mode = "toClose")
  BY <1>3, AllIsRead
<1>5. QED
  BY <1>3, <1>4 DEF KnowsEnd

(***************************************************************************)
(* The client can tell the responses apart: ResponsesDelimited, for every  *)
(* server of XML-RPC calls, whatever it is asked; and for a server of files *)
(* that nobody shortens, if all its requests are Followable.               *)
(***************************************************************************)
THEOREM ClientFollows ==
    ASSUME Followed
    PROVE  Spec => []ResponsesDelimited
<1>1. SessionInv => ResponsesDelimited
  BY Delimits
<1>2. QED
  BY <1>1, InitSessionInv, StepSessionInv, PTL DEF Spec

-----------------------------------------------------------------------------
(* Of the conditions in Answered, the client having read all is the one    *)
(* that counts.                                                            *)
LEMMA AnsweredWhen ==
    ASSUME SessionInv
    PROVE  Answered <=> served = 0 \/ (Resting /\ stream = <<>>)
<1>1. served \in Nat
  BY DEF SessionInv, TurnInv
<1>2. AllRead => KnowsEnd
  BY Delimits DEF ResponsesDelimited
<1>3. QED
  BY <1>1, <1>2 DEF Answered, AllRead

(* Every step of the session is one of the exchange, or stutters.          *)
LEMMA ExchangeSteps ==
    ASSUME Followed, SessionInv, [Next]_vars
    PROVE  [Exchange!Next]_Exchange!vars
<1>1. SessionInv'
  BY StepSessionInv
<1>2. /\ Answered <=> served = 0 \/ (Resting /\ stream = <<>>)
      /\ Answered' <=> served' = 0 \/ (Resting /\ stream = <<>>)'
  <2>1. Answered <=> served = 0 \/ (Resting /\ stream = <<>>)
    BY AnsweredWhen
  <2>2. (Answered <=> served = 0 \/ (Resting /\ stream = <<>>))'
    BY <1>1, AnsweredWhen, PTL
  <2>3. QED
    BY <2>1, <2>2
<1>3. served \in Nat /\ served' \in Nat
  BY <1>1 DEF SessionInv, TurnInv
<1>4. CASE ReadRequest
  <2>1. /\ pc = "read" /\ stream = <<>> /\ pc' = "dispatch"
        /\ served' = served + 1 /\ UNCHANGED stream
    BY <1>4 DEF ReadRequest
  <2>2. Answered /\ ~Answered'
    BY <1>2, <1>3, <2>1 DEF Resting
  <2>3. Exchange!Ask
    BY <1>3, <2>1, <2>2 DEF Exchange!Ask, Exchange!Idle
  <2>4. QED
    BY <2>3 DEF Exchange!Next
<1>5. CASE ReadNothing
  <2>1. /\ pc = "read" /\ stream = <<>> /\ pc' = "idle"
        /\ UNCHANGED <<served, stream, client>>
    BY <1>5 DEF ReadNothing, connVars
  <2>2. Answered /\ Answered'
    BY <1>2, <2>1 DEF Resting
  <2>3. Exchange!Close
    BY <2>1, <2>2 DEF Exchange!Close, Exchange!Idle
  <2>4. QED
    BY <2>3 DEF Exchange!Next
<1>6. CASE Server /\ ~Finish
  <2>1. /\ ~Resting /\ ~Resting' /\ UNCHANGED <<stream, served, client>>
    BY <1>6, ServerMoves DEF Resting, SessionInv
  <2>2. served > 0
    BY <2>1 DEF SessionInv, TurnInv
  <2>3. ~Answered /\ ~Answered'
    BY <1>2, <1>3, <2>1, <2>2
  <2>4. UNCHANGED Exchange!vars
    BY <2>1, <2>3 DEF Exchange!vars, Resting
  <2>5. QED
    BY <2>4
<1>7. CASE Finish
  <2>1. ~Resting /\ pc' \in {"read", "closed"} /\ UNCHANGED <<served, client>>
    BY <1>7 DEF Finish, Resting
  <2>2. served > 0 /\ Expecting(client) /\ Resting'
    BY <2>1 DEF SessionInv, TurnInv, ClientInv, Resting
  <2>3. stream' # <<>>
    <3>1. Complete(Over(session)) /\ stream' = Over(session).sent
      BY <1>7 DEF Finish, SessionInv, AnswerInv, Over
    <3>2. QED
      BY <3>1 DEF Complete, Started
  <2>4. ~Answered /\ ~Answered'
    BY <1>2, <1>3, <2>1, <2>2, <2>3
  <2>5. UNCHANGED Exchange!vars
    BY <2>1, <2>3, <2>4 DEF Exchange!vars, Resting
  <2>6. QED
    BY <2>5
<1>8. CASE ClientReads
  <2>1. /\ stream # <<>> /\ UNCHANGED <<session, pc, served>>
    BY <1>8 DEF ClientReads
  <2>2. Resting /\ served > 0 /\ pc # "idle" /\ ReadingInv
    BY <2>1 DEF SessionInv, ClientInv, TurnInv
  <2>3. ~Answered
    BY <1>2, <1>3, <2>1, <2>2
  <2>4. CASE stream' = <<>>
    <3>1. Answered' /\ AllRead'
      BY <1>2, <2>1, <2>2, <2>4 DEF AllRead, Resting
    <3>2. client'.status \in 200..599 /\ client'.status = session.status
      <4>1. /\ ResponsesDelimited'
            /\ (AllRead => client.status \in 200..599)'
        BY <1>1, Delimits, PTL
      <4>2. QED
        BY <2>1, <3>1, <4>1 DEF ResponsesDelimited
    <3>3. pc = "read" => client'.status < 400 /\ served < KeepaliveMaxConn
      <4>1. pc = "read" => session.status < 400 /\ ~session.denied
        BY <2>2 DEF ReadingInv, HTTPKeepalive
      <4>2. session.denied = (served >= KeepaliveMaxConn)
        BY <2>2 DEF ReadingInv
      <4>3. pc = "read" => ~(served >= KeepaliveMaxConn)
        BY <4>1, <4>2
      <4>4. QED
        BY <1>3, <3>2, <4>1, <4>3, LimitAssumption
    <3> DEFINE up == pc \notin {"idle", "closed"} \/ stream # <<>>
    <3>4. up' => pc = "read"
      BY <2>1, <2>2, <2>4 DEF Resting
    <3>5. up' \in {b \in BOOLEAN :
                      b => client'.status < 400 /\ served < KeepaliveMaxConn}
      <4>1. up' \in BOOLEAN
        OBVIOUS
      <4>2. up' => client'.status < 400 /\ served < KeepaliveMaxConn
        BY <3>3, <3>4
      <4> HIDE DEF up
      <4>3. QED
        BY <4>1, <4>2
    <3>6. /\ served = (IF Answered THEN served ELSE served - 1) + 1
          /\ (IF Answered THEN served ELSE served - 1)'
                = (IF Answered THEN served ELSE served - 1) + 1
          /\ (IF Answered THEN client.status ELSE 0)' = client'.status
          /\ (IF Answered THEN served ELSE served - 1)' = served
      BY <1>3, <2>1, <2>2, <2>3, <3>1
    <3>7. Exchange!Respond
      BY ZenonT(40), <2>1, <3>2, <3>5, <3>6 DEF Exchange!Respond
    <3>8. QED
      BY <3>7 DEF Exchange!Next
  <2>5. CASE stream' # <<>>
    <3>1. ~Answered'
      BY <1>2, <2>1, <2>2, <2>5 DEF Resting
    <3>2. UNCHANGED Exchange!vars
      BY <2>1, <2>3, <2>5, <3>1 DEF Exchange!vars
    <3>3. QED
      BY <3>2
  <2>6. QED
    BY <2>4, <2>5
<1>9. CASE Others \/ Terminated \/ UNCHANGED vars
  <2>1. UNCHANGED <<session, pc, served, stream, client>>
    BY <1>9 DEF Others, Resize, Move, Terminated, vars, connVars
  <2>2. Answered' <=> Answered
    BY <1>2, <2>1 DEF Resting
  <2>3. UNCHANGED Exchange!vars
    BY <2>1, <2>2 DEF Exchange!vars
  <2>4. QED
    BY <2>3
<1>10. QED
  BY <1>4, <1>5, <1>6, <1>7, <1>8, <1>9 DEF Next

(***************************************************************************)
(* On the same condition the client sees the exchange of HttpExchange, but *)
(* for its liveness: every request is answered by one response, and none   *)
(* follows an error or the last one of the connection.                     *)
(***************************************************************************)
THEOREM ImplementsHttpExchange ==
    ASSUME Followed
    PROVE  Spec => Exchange!Spec
<1>1. Init => Exchange!Init
  BY DEF Init, Exchange!Init, Answered
<1>2. SessionInv /\ [Next]_vars => [Exchange!Next]_Exchange!vars
  BY ExchangeSteps
<1>3. QED
  BY <1>1, <1>2, InitSessionInv, StepSessionInv, PTL DEF Spec, Exchange!Spec

-----------------------------------------------------------------------------
(* No file is open until the file handler opens it.                        *)
FileInv ==
    /\ pc \in {"dispatch", "handler", "default", "directory", "file"} => ~file
    /\ FileClosed

(* Every step keeps it.                                                    *)
LEMMA StepFileInv ==
    ASSUME TurnInv, HeadInv, FileInv, [Next]_vars
    PROVE  FileInv'
<1>1. CASE ReadRequest \/ ReadNothing
  BY <1>1 DEF ReadRequest, ReadNothing, FileInv, FileClosed
<1>2. CASE \/ Refuse \/ RunUserHandler \/ NextHandler \/ HandleXmlrpcReq
           \/ DefaultHandler \/ DefaultRefuses \/ DefaultStats
           \/ ServerDirectoryHandler
  <2>1. ~file /\ UNCHANGED file
    BY <1>2 DEF Refuse, RunUserHandler, NextHandler, HandleXmlrpcReq,
       DefaultHandler, DefaultRefuses, DefaultStats, ServerDirectoryHandler,
       FileInv
  <2>2. QED
    BY <2>1 DEF FileInv, FileClosed
<1>3. CASE FileOpens
  <2> DEFINE s == ResponseStatus(session, 304)
  <2>1. pc = "file" /\ ~file /\ Settled(session) /\ Fresh(session)
    BY <1>3 DEF FileOpens, FileInv, TurnInv, HeadInv, BeforeHead, Resting
  <2>2. ResponseWriteStart(s).status = 304
    <3>1. 304 \in Nat /\ 304 # 0
      OBVIOUS
    <3>2. Settled(s) /\ Fresh(s) /\ s.status = 304
      BY ONLY <2>1, <3>1, CallsSet DEF Sets
    <3> HIDE DEF s
    <3>3. s.status # 0
      BY <3>2
    <3>4. Begins(ResponseWriteStart(s), s)
      BY ONLY <3>2, <3>3, CallsSet
    <3>5. QED
      BY <3>2, <3>4 DEF Begins
  <2>3. CASE pc' = "finish" /\ UNCHANGED file
    BY <2>1, <2>3 DEF FileInv, FileClosed
  <2>4. CASE pc' = "fields"
    BY <2>4 DEF FileInv, FileClosed
  <2>5. CASE Return(ResponseWriteStart(s))
    BY <2>2, <2>5 DEF Return, FileInv, FileClosed
  <2>6. QED
    BY <1>3, <2>3, <2>4, <2>5 DEF FileOpens, Return
<1>4. CASE FileFields \/ SendPart \/ FileClose \/ Finish
  BY <1>4 DEF FileFields, SendPart, FileClose, Finish, Return, FileInv, FileClosed
<1>5. CASE ClientReads \/ Others \/ Terminated \/ UNCHANGED vars
  BY <1>5 DEF ClientReads, Others, Resize, Move, Terminated, vars, FileInv,
     FileClosed
<1>6. QED
  BY <1>1, <1>2, <1>3, <1>4, <1>5 DEF Next, Server, Handler

(***************************************************************************)
(* A request leaves the file open only if it was answered 304: FileClosed, *)
(* whatever is asked and whatever happens to the file.                     *)
(***************************************************************************)
THEOREM FilesClosed == Spec => []FileClosed
<1>1. Init => HeadInv /\ FileInv
  BY DEF Init, HeadInv, BeforeHead, FileInv, FileClosed
<1>2. TurnInv /\ HeadInv /\ FileInv /\ [Next]_vars => FileInv'
  BY StepFileInv
<1>3. FileInv => FileClosed
  BY DEF FileInv
<1>4. QED
  BY <1>1, <1>2, <1>3, InitTurnInv, StepTurnInv, StepHeadInv, PTL DEF Spec
===============================================================================

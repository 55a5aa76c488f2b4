--------------------------- MODULE AbyssConn_proofs ---------------------------
(***************************************************************************)
(* Proofs about AbyssConn, for any scripts, any size of the buffer and any *)
(* keep-alive limit: the arithmetic of the read buffer; where in the       *)
(* script the reader is; and that the job implements HttpExchange.         *)
(***************************************************************************)
EXTENDS AbyssConn, CommonLemmas

(* What RequestRead may know of a request.                                 *)
Sessions == [line : BOOLEAN, post : BOOLEAN, xml : BOOLEAN,
             length : 0..2, keepalive : BOOLEAN]

(* What the arithmetic needs of the types.                                 *)
Types ==
    /\ sent \in Nat /\ recvd \in Nat /\ recvd <= sent
    /\ buffer \in Seq(Nat)
    /\ bufferpos \in Nat /\ p \in Nat /\ bytesRead \in Nat /\ consumed \in Nat
    /\ pc \in {"wait", "header", "handle", "body", "refill", "respond", "done"}
    /\ request \in Sessions

(* The buffer, apart from who is reading it.                               *)
BufferOK ==
    /\ bufferpos <= buffersize
    /\ buffersize < BufferSize

CursorOK == pc = "header" => bufferpos <= p /\ p <= buffersize

BodyOK == bytesRead <= request.length \/ pc \notin {"body", "refill"}

IInv == Types /\ BufferOK /\ CursorOK /\ BodyOK /\ StreamIntact

-----------------------------------------------------------------------------
(* ConnRead appends the next bytes of the stream to a buffer whose unread  *)
(* bytes, from 'pos' on, are the ones before them.                         *)
Intact(buf, pos, from, upto) ==
    /\ buf \in Seq(Nat) /\ pos \in Nat
    /\ pos <= Len(buf) /\ Len(buf) < BufferSize
    /\ from + (Len(buf) - pos) = upto
    /\ \A i \in 1..(Len(buf) - pos) : buf[pos + i] = from + i

LEMMA ReadIntact ==
    ASSUME Types, NEW buf, NEW pos, Intact(buf, pos, consumed, recvd),
           ConnReadOk(buf)
    PROVE  /\ Intact(buffer', pos, consumed, recvd')
           /\ recvd' \in Nat /\ recvd' <= sent
           /\ Len(buf) <= Len(buffer')
<1> DEFINE n == Least(sent - recvd, BufferSize - Len(buf) - 1)
           new == [i \in 1..n |-> recvd + i]
<1>1. BufferSize \in Nat /\ Len(buf) \in Nat /\ recvd \in Nat /\ sent \in Nat
  BY BufferAssumption DEF Intact, Types
<1>2. n > 0 /\ buffer' = buf \o new /\ recvd' = recvd + n
  BY DEF ConnReadOk
<1>3. n \in Nat /\ n <= sent - recvd /\ n <= BufferSize - Len(buf) - 1
  BY <1>1, <1>2 DEF Least
<1> HIDE DEF n
<1>4. new \in Seq(Nat) /\ Len(new) = n /\ \A i \in 1..n : new[i] = recvd + i
  BY <1>1, <1>3
<1> HIDE DEF new
<1>5. /\ buf \o new \in Seq(Nat)
      /\ Len(buf \o new) = Len(buf) + n
      /\ \A i \in 1..(Len(buf) + n) :
             (buf \o new)[i] =
                 IF i <= Len(buf) THEN buf[i] ELSE new[i - Len(buf)]
  <2>1. buf \in Seq(Nat)
    BY DEF Intact
  <2>2. QED
    BY <1>4, <2>1, ConcatProperties
<1>6. pos \in Nat /\ pos <= Len(buf) /\ consumed + (Len(buf) - pos) = recvd
  BY DEF Intact
<1>7. consumed \in Nat
  BY DEF Types
<1>8. ASSUME NEW i \in 1..(Len(buf) + n - pos)
      PROVE  (buf \o new)[pos + i] = consumed + i
  <2> DEFINE k == pos + i
  <2>1. k \in 1..(Len(buf) + n) /\ i \in Nat
    BY <1>1, <1>3, <1>6
  <2>2. CASE k <= Len(buf)
    <3>1. i \in 1..(Len(buf) - pos)
      BY <1>1, <1>3, <1>6, <2>2
    <3>2. buf[k] = consumed + i
      BY <3>1 DEF Intact
    <3> HIDE DEF k
    <3>3. (buf \o new)[k] = buf[k]
      BY <1>5, <2>1, <2>2
    <3>4. QED
      BY <3>2, <3>3 DEF k
  <2>3. CASE ~(k <= Len(buf))
    <3>1. k - Len(buf) \in 1..n
      BY <1>1, <1>3, <1>6, <2>3
    <3>2. recvd + (k - Len(buf)) = consumed + i
      BY <1>1, <1>3, <1>6, <1>7
    <3> HIDE DEF k
    <3>3. new[k - Len(buf)] = recvd + (k - Len(buf))
      BY <1>4, <3>1
    <3>4. (buf \o new)[k] = new[k - Len(buf)]
      BY <1>5, <2>1, <2>3
    <3>5. QED
      BY <3>2, <3>3, <3>4 DEF k
  <2>4. QED
    BY <2>2, <2>3
<1> DEFINE whole == buf \o new
<1>9. Intact(whole, pos, consumed, recvd')
  <2>1. whole \in Seq(Nat) /\ Len(whole) = Len(buf) + n
    BY <1>5
  <2>2. \A i \in 1..(Len(buf) + n - pos) : whole[pos + i] = consumed + i
    BY <1>8
  <2> HIDE DEF whole
  <2>3. pos <= Len(whole) /\ Len(whole) < BufferSize
    BY <1>1, <1>3, <1>6, <2>1
  <2>4. recvd' = recvd + n /\ recvd' \in Nat /\ Len(whole) \in Nat
    BY <1>1, <1>2, <1>3, <2>1
  <2>5. Len(whole) = Len(buf) + n
    BY <2>1
  <2>6. consumed + (Len(whole) - pos) = recvd'
    BY <1>1, <1>3, <1>6, <1>7, <2>4, <2>5
  <2>7. \A i \in 1..(Len(whole) - pos) : whole[pos + i] = consumed + i
    <3>1. Len(whole) - pos = Len(buf) + n - pos
      BY <1>1, <1>3, <1>6, <2>5
    <3>2. QED
      BY <2>2, <3>1
  <2>8. QED
    BY <1>6, <2>1, <2>3, <2>6, <2>7 DEF Intact
<1>10. QED
  BY <1>1, <1>2, <1>3, <1>5, <1>9

(* ConnReadInit: what is left moves to the front of the buffer.            *)
LEMMA CompactIntact ==
    ASSUME Types, BufferOK, StreamIntact
    PROVE  Intact(Compacted, 0, consumed, recvd)
<1>1. /\ buffer \in Seq(Nat) /\ Len(buffer) \in Nat /\ bufferpos \in Nat
      /\ bufferpos <= Len(buffer) /\ consumed \in Nat
  BY DEF Types, BufferOK, buffersize
<1>2. /\ Compacted \in Seq(Nat)
      /\ Len(Compacted) = Len(buffer) - bufferpos
      /\ \A i \in 1..(Len(buffer) - bufferpos) :
             Compacted[i] = buffer[bufferpos + i]
  <2>1. \A j \in (bufferpos + 1)..Len(buffer) : buffer[j] \in Nat
    BY <1>1
  <2>2. QED
    BY <1>1, <2>1, SubSeqProperties DEF Compacted, buffersize
<1>3. \A i \in 1..(Len(buffer) - bufferpos) : Compacted[i] = consumed + i
  BY <1>2 DEF StreamIntact, Unread, buffersize
<1>4. QED
  BY <1>1, <1>2, <1>3, BufferAssumption
  DEF Intact, StreamIntact, BufferOK, Unread, buffersize

(* The buffer as the invariant has it, before and after a step.            *)
LEMMA BufferIntact ==
    ASSUME Types, BufferOK, StreamIntact
    PROVE  Intact(buffer, bufferpos, consumed, recvd)
BY DEF Types, BufferOK, StreamIntact, Intact, Unread, buffersize

(* And an intact buffer after it gives the two invariants back.             *)
LEMMA IntactAfter ==
    ASSUME Intact(buffer', bufferpos', consumed', recvd')
    PROVE  BufferOK' /\ StreamIntact'
BY DEF BufferOK, StreamIntact, Intact, Unread, buffersize

-----------------------------------------------------------------------------
(* Steps that read nothing and take nothing from the buffer.               *)
LEMMA StepSend == ASSUME IInv, NEW n \in 1..Len(Wire), Send(n) PROVE IInv'
<1>1. n \in Nat /\ n >= sent
  BY DEF Send, IInv, Types
<1>2. QED
  BY <1>1 DEF Send, IInv, Types, BufferOK, CursorOK, BodyOK, StreamIntact,
              Unread, buffersize

(* The wait for a request times out.                                       *)
LEMMA StepWaitGivesUp == ASSUME IInv, WaitGivesUp PROVE IInv'
BY DEF WaitGivesUp, IInv, Types, BufferOK, CursorOK, BodyOK, StreamIntact,
       Unread, buffersize

(* So does the reading of a header.                                        *)
LEMMA StepHeaderTimesOut == ASSUME IInv, HeaderTimesOut PROVE IInv'
BY DEF HeaderTimesOut, IInv, Types, BufferOK, CursorOK, BodyOK, StreamIntact,
       Unread, buffersize

(* The handler begins a body with no byte of it read.                      *)
LEMMA StepHandle == ASSUME IInv, Handle PROVE IInv'
<1>1. pc' \in {"body", "respond"} /\ bytesRead' = 0 /\ request.length \in 0..2
  BY DEF Handle, IInv, Types, Sessions
<1>2. QED
  BY <1>1 DEF Handle, IInv, Types, BufferOK, CursorOK, BodyOK, StreamIntact,
              Unread, buffersize

(* The delimiter that ends a line is the first one in the buffer at or     *)
(* after the cursor.                                                       *)
LEMMA LfPosInBuffer ==
    ASSUME Types, LineFeeds # {}
    PROVE  /\ LfPos \in p..(buffersize - 1) /\ LfPos \in Nat
           /\ ByteAt(LfPos) = "LF"
           /\ \A i \in p..(LfPos - 1) : ByteAt(i) # "LF"
<1> DEFINE First(i) == \A j \in LineFeeds : i <= j
<1>1. buffersize \in Nat /\ p \in Nat
  BY DEF Types, buffersize
<1>2. LineFeeds \subseteq p..(buffersize - 1) /\ LineFeeds \subseteq Nat
  BY <1>1 DEF LineFeeds
<1>3. \E i \in LineFeeds : First(i)
  <2> DEFINE less == OpToRel(<, Nat)
  <2>1. \A i, j \in Nat : <<j, i>> \notin less => i <= j
    BY DEF OpToRel
  <2>2. IsWellFoundedOn(less, Nat)
    BY NatLessThanWellFounded
  <2> HIDE DEF less
  <2>3. \E i \in LineFeeds : \A j \in LineFeeds : <<j, i>> \notin less
    BY <1>2, <2>2, WFMin, Zenon
  <2>4. QED
    BY <1>2, <2>1, <2>3
<1>4. LfPos \in LineFeeds /\ First(LfPos)
  BY <1>3, Zenon DEF LfPos
<1>5. LfPos \in p..(buffersize - 1) /\ LfPos \in Nat /\ ByteAt(LfPos) = "LF"
  BY <1>2, <1>4 DEF LineFeeds
<1>6. ASSUME NEW i \in p..(LfPos - 1) PROVE ByteAt(i) # "LF"
  <2>1. i \in p..(buffersize - 1) /\ ~(LfPos <= i)
    BY <1>1, <1>5
  <2>2. i \notin LineFeeds
    BY <1>4, <2>1
  <2>3. QED
    BY <2>1, <2>2 DEF LineFeeds
<1>7. QED
  BY <1>5, <1>6

-----------------------------------------------------------------------------
(* Steps that read from the socket: bytes are appended.                    *)
LEMMA StepWaitReads == ASSUME IInv, WaitReads PROVE IInv'
<1>1. /\ Types /\ BufferOK /\ StreamIntact
      /\ ConnReadOk(buffer) /\ bufferpos' = bufferpos /\ consumed' = consumed
  BY DEF IInv, WaitReads
<1>2. /\ Intact(buffer', bufferpos', consumed', recvd')
      /\ recvd' \in Nat /\ recvd' <= sent
  BY <1>1, BufferIntact, ReadIntact
<1>3. BufferOK' /\ StreamIntact'
  BY <1>2, IntactAfter
<1>4. Types'
  BY <1>2 DEF WaitReads, IInv, Types, Intact, NoRequest, Sessions
<1>5. CursorOK' /\ BodyOK'
  BY <1>3 DEF WaitReads, IInv, Types, CursorOK, BodyOK, BufferOK
<1>6. QED
  BY <1>3, <1>4, <1>5 DEF IInv

(* The cursor of ConnReadHeader is at the end of what there was.           *)
LEMMA StepHeaderReads == ASSUME IInv, HeaderReads PROVE IInv'
<1>1. /\ Types /\ BufferOK /\ StreamIntact
      /\ ConnReadOk(buffer) /\ bufferpos' = bufferpos /\ consumed' = consumed
  BY DEF IInv, HeaderReads
<1>2. /\ Intact(buffer', bufferpos', consumed', recvd')
      /\ recvd' \in Nat /\ recvd' <= sent /\ Len(buffer) <= Len(buffer')
  BY <1>1, BufferIntact, ReadIntact
<1>3. BufferOK' /\ StreamIntact'
  BY <1>2, IntactAfter
<1>4. Types'
  BY <1>2 DEF HeaderReads, IInv, Types, Intact
<1>5. CursorOK' /\ BodyOK'
  BY <1>2, <1>4 DEF HeaderReads, IInv, Types, CursorOK, BodyOK, buffersize
<1>6. QED
  BY <1>3, <1>4, <1>5 DEF IInv

(* SessionRefillBuffer moves what is left to the front and appends to it.  *)
LEMMA StepRefillReads == ASSUME IInv, RefillReads PROVE IInv'
<1>1. /\ Types /\ BufferOK /\ StreamIntact
      /\ ConnReadOk(Compacted) /\ bufferpos' = 0 /\ consumed' = consumed
  BY DEF IInv, RefillReads
<1>2. /\ Intact(buffer', bufferpos', consumed', recvd')
      /\ recvd' \in Nat /\ recvd' <= sent
  BY <1>1, CompactIntact, ReadIntact
<1>3. BufferOK' /\ StreamIntact'
  BY <1>2, IntactAfter
<1>4. Types'
  BY <1>1, <1>2 DEF RefillReads, IInv, Types, Intact
<1>5. CursorOK' /\ BodyOK'
  BY DEF RefillReads, IInv, CursorOK, BodyOK
<1>6. QED
  BY <1>3, <1>4, <1>5 DEF IInv

-----------------------------------------------------------------------------
(* Steps that only move what is left to the front of the buffer.           *)
LEMMA StepRefillTimesOut == ASSUME IInv, RefillTimesOut PROVE IInv'
<1>1. /\ Types /\ BufferOK /\ StreamIntact /\ buffer' = Compacted
      /\ bufferpos' = 0 /\ consumed' = consumed /\ recvd' = recvd
  BY DEF IInv, RefillTimesOut
<1>2. Intact(buffer', bufferpos', consumed', recvd')
  BY <1>1, CompactIntact
<1>3. BufferOK' /\ StreamIntact'
  BY <1>2, IntactAfter
<1>4. Types'
  BY <1>1, <1>2 DEF RefillTimesOut, IInv, Types, Intact
<1>5. CursorOK' /\ BodyOK'
  BY DEF RefillTimesOut, CursorOK, BodyOK
<1>6. QED
  BY <1>3, <1>4, <1>5 DEF IInv

(* Likewise after the response, before serverFunc waits again.             *)
LEMMA StepRespond == ASSUME IInv, Respond PROVE IInv'
<1>1. /\ Types /\ BufferOK /\ StreamIntact /\ buffer' = Compacted
      /\ bufferpos' = 0 /\ consumed' = consumed /\ recvd' = recvd
  BY DEF IInv, Respond
<1>2. Intact(buffer', bufferpos', consumed', recvd')
  BY <1>1, CompactIntact
<1>3. BufferOK' /\ StreamIntact'
  BY <1>2, IntactAfter
<1>4. pc' \in {"wait", "done"}
  BY DEF Respond
<1>5. Types'
  BY <1>1, <1>2, <1>4 DEF Respond, IInv, Types, Intact
<1>6. CursorOK' /\ BodyOK'
  BY <1>4 DEF CursorOK, BodyOK
<1>7. QED
  BY <1>3, <1>5, <1>6 DEF IInv

-----------------------------------------------------------------------------
(* Steps that hand bytes out: the buffer position moves on.                *)

(* Any prefix of the unread bytes may be handed out.                       *)
LEMMA TakeIntact ==
    ASSUME Types, BufferOK, StreamIntact,
           NEW n \in Nat, n <= Unread,
           buffer' = buffer, recvd' = recvd,
           bufferpos' = bufferpos + n, consumed' = consumed + n
    PROVE  BufferOK' /\ StreamIntact' /\ bufferpos' \in Nat /\ consumed' \in Nat
<1>1. /\ bufferpos \in Nat /\ consumed \in Nat /\ Len(buffer) \in Nat
      /\ bufferpos <= Len(buffer) /\ Len(buffer) < BufferSize
      /\ n <= Len(buffer) - bufferpos
      /\ consumed + (Len(buffer) - bufferpos) = recvd
  BY DEF Types, BufferOK, StreamIntact, Unread, buffersize
<1>2. \A i \in 1..(Len(buffer) - bufferpos) :
          buffer[bufferpos + i] = consumed + i
  BY DEF StreamIntact, Unread, buffersize
<1>3. ASSUME NEW i \in 1..(Len(buffer) - (bufferpos + n))
      PROVE  buffer[(bufferpos + n) + i] = (consumed + n) + i
  <2>1. n + i \in 1..(Len(buffer) - bufferpos)
    BY <1>1
  <2>2. buffer[bufferpos + (n + i)] = consumed + (n + i)
    BY <1>2, <2>1
  <2>3. /\ bufferpos + (n + i) = (bufferpos + n) + i
        /\ consumed + (n + i) = (consumed + n) + i
    BY <1>1
  <2>4. QED
    BY <2>2, <2>3
<1>4. BufferOK' /\ bufferpos' \in Nat /\ consumed' \in Nat
  BY <1>1 DEF BufferOK, buffersize
<1>5. consumed' + Unread' = recvd'
  BY <1>1 DEF Unread, buffersize
<1>6. QED
  BY <1>3, <1>4, <1>5 DEF StreamIntact, Unread, buffersize

(* A folded line moves only the cursor.                                    *)
LEMMA StepHeaderContinues == ASSUME IInv, HeaderContinues PROVE IInv'
<1>1. LfPos \in p..(buffersize - 1) /\ LfPos \in Nat
  BY LfPosInBuffer DEF HeaderContinues, Continued, IInv
<1>2. buffersize \in Nat /\ bufferpos \in Nat /\ p \in Nat /\ bufferpos <= p
  BY DEF IInv, Types, CursorOK, HeaderContinues, buffersize
<1>3. p' = LfPos + 1 /\ p' \in Nat /\ bufferpos <= p' /\ p' <= buffersize
  BY <1>1, <1>2 DEF HeaderContinues
<1>4. QED
  BY <1>3 DEF HeaderContinues, IInv, Types, BufferOK, CursorOK, BodyOK,
              StreamIntact, Unread, buffersize

(* Whatever the header says, the session stays well-formed.                *)
LEMMA RequestTypes ==
    ASSUME Types, HeaderComplete
    PROVE  /\ pc' \in {"header", "handle", "respond"}
           /\ request' \in Sessions
<1> DEFINE b == ByteAt(bufferpos)
<1>1. request \in Sessions
  BY DEF Types
<1>2. CASE b = "LF"
  BY <1>1, <1>2 DEF HeaderComplete, RequestLine, HeaderField
<1>3. CASE RequestLine(b)
  <2>1. /\ pc' \in {"header", "respond"}
        /\ \/ \E post \in BOOLEAN :
                  request' = [request EXCEPT !.line = TRUE, !.post = post]
           \/ request' = request
    BY <1>3 DEF RequestLine
  <2>2. \A post \in BOOLEAN :
            [request EXCEPT !.line = TRUE, !.post = post] \in Sessions
    BY <1>1 DEF Sessions
  <2>3. QED
    BY <1>1, <2>1, <2>2
<1> HIDE DEF b
<1>4. CASE HeaderField(b)
  <2>1. /\ pc' \in {"header", "respond"}
        /\ \/ request' = [request EXCEPT !.xml = TRUE]
           \/ request' = [request EXCEPT !.length = 1]
           \/ request' = [request EXCEPT !.length = 2]
           \/ request' = [request EXCEPT !.keepalive = FALSE]
           \/ request' = request
    <3>1. CASE b = "type"
      BY <1>4, <3>1 DEF HeaderField
    <3>2. CASE b = "len1"
      BY <1>4, <3>2 DEF HeaderField
    <3>3. CASE b = "len2"
      BY <1>4, <3>3 DEF HeaderField
    <3>4. CASE b = "close"
      BY <1>4, <3>4 DEF HeaderField
    <3>5. CASE b = "x"
      BY <1>4, <3>5 DEF HeaderField
    <3>6. CASE b \notin {"type", "len1", "len2", "close", "x"}
      BY <1>4, <3>6 DEF HeaderField
    <3>7. QED
      BY <3>1, <3>2, <3>3, <3>4, <3>5, <3>6
  <2>2. /\ [request EXCEPT !.xml = TRUE] \in Sessions
        /\ [request EXCEPT !.length = 1] \in Sessions
        /\ [request EXCEPT !.length = 2] \in Sessions
        /\ [request EXCEPT !.keepalive = FALSE] \in Sessions
    <3>1. [request EXCEPT !.xml = TRUE] \in Sessions
      BY <1>1 DEF Sessions
    <3>2. [request EXCEPT !.length = 1] \in Sessions
      BY <1>1 DEF Sessions
    <3>3. [request EXCEPT !.length = 2] \in Sessions
      BY <1>1 DEF Sessions
    <3>4. [request EXCEPT !.keepalive = FALSE] \in Sessions
      BY <1>1 DEF Sessions
    <3>5. QED
      BY <3>1, <3>2, <3>3, <3>4
  <2>3. request' \in Sessions
    BY <1>1, <2>1, <2>2
  <2>4. QED
    BY <2>1, <2>3
<1>5. b = "LF" \/ RequestLine(b) \/ HeaderField(b)
  BY DEF HeaderComplete, b
<1>6. QED
  BY <1>2, <1>3, <1>4, <1>5

(* A header line hands out the bytes up to the one the cursor has reached. *)
LEMMA StepHeaderComplete == ASSUME IInv, HeaderComplete PROVE IInv'
<1>1. LfPos \in p..(buffersize - 1) /\ LfPos \in Nat
  BY LfPosInBuffer DEF HeaderComplete, GotHeader, IInv
<1>2. /\ buffersize \in Nat /\ bufferpos \in Nat /\ p \in Nat
      /\ bufferpos <= p /\ consumed \in Nat
  BY DEF IInv, Types, CursorOK, HeaderComplete, buffersize
<1> DEFINE n == LfPos + 1 - bufferpos
<1>3. n \in Nat /\ n <= Unread /\ bufferpos + n = LfPos + 1
  BY <1>1, <1>2 DEF Unread
<1>4. /\ buffer' = buffer /\ recvd' = recvd /\ sent' = sent
      /\ bytesRead' = bytesRead
      /\ bufferpos' = LfPos + 1 /\ p' = LfPos + 1 /\ consumed' = consumed + n
  BY DEF HeaderComplete
<1> HIDE DEF n
<1>5. BufferOK' /\ StreamIntact' /\ bufferpos' \in Nat /\ consumed' \in Nat
  BY <1>3, <1>4, TakeIntact DEF IInv
<1>6. /\ pc' \in {"header", "handle", "respond"}
      /\ request' \in Sessions
  BY RequestTypes DEF IInv
<1>7. Types'
  BY <1>4, <1>5, <1>6 DEF IInv, Types
<1>8. CursorOK' /\ BodyOK'
  BY <1>4, <1>5, <1>6 DEF CursorOK, BodyOK, BufferOK
<1>9. QED
  BY <1>5, <1>7, <1>8 DEF IInv

(* getBody never takes more than what is left of the body.                 *)
LEMMA StepBodyTakes == ASSUME IInv, BodyTakes PROVE IInv'
<1> DEFINE n == Least(request.length - bytesRead, Unread)
<1>1. /\ request.length \in Nat /\ bytesRead \in Nat
      /\ bytesRead <= request.length /\ Unread \in Nat
  BY DEF BodyTakes, IInv, Types, Sessions, BodyOK, BufferOK, Unread,
         buffersize
<1>2. n \in Nat /\ n <= Unread /\ bytesRead + n <= request.length
  BY <1>1 DEF Least
<1>3. /\ buffer' = buffer /\ recvd' = recvd /\ sent' = sent /\ p' = p
      /\ request' = request /\ bytesRead' = bytesRead + n
      /\ bufferpos' = bufferpos + n /\ consumed' = consumed + n
      /\ pc' \in {"refill", "respond"}
  BY DEF BodyTakes
<1> HIDE DEF n
<1>4. BufferOK' /\ StreamIntact' /\ bufferpos' \in Nat /\ consumed' \in Nat
  BY <1>2, <1>3, TakeIntact DEF IInv
<1>5. bytesRead' \in Nat /\ bytesRead' <= request'.length
  BY <1>1, <1>2, <1>3
<1>6. Types'
  BY <1>3, <1>4, <1>5 DEF IInv, Types
<1>7. CursorOK' /\ BodyOK'
  BY <1>3, <1>5 DEF CursorOK, BodyOK
<1>8. QED
  BY <1>4, <1>6, <1>7 DEF IInv

-----------------------------------------------------------------------------
(* A connection begins with an empty buffer.                               *)
LEMMA InitInv == Init => IInv
<1> SUFFICES ASSUME Init PROVE IInv
  OBVIOUS
<1>1. buffer = <<>> /\ Len(buffer) = 0 /\ buffer \in Seq(Nat)
  BY DEF Init
<1>2. NoRequest \in Sessions
  BY DEF NoRequest, Sessions
<1>3. Types
  BY <1>1, <1>2 DEF Init, Types
<1>4. BufferOK /\ CursorOK /\ BodyOK
  BY <1>1, BufferAssumption DEF Init, BufferOK, CursorOK, BodyOK, buffersize
<1>5. StreamIntact
  BY <1>1 DEF Init, StreamIntact, Unread, buffersize
<1>6. QED
  BY <1>3, <1>4, <1>5 DEF IInv

(* Every step of the connection's job, and of its client, keeps IInv.      *)
LEMMA NextInv == IInv /\ [Next]_vars => IInv'
<1> SUFFICES ASSUME IInv, [Next]_vars PROVE IInv'
  OBVIOUS
<1>1. CASE Job
  BY <1>1, StepWaitReads, StepWaitGivesUp, StepHeaderReads, StepHeaderTimesOut,
     StepHeaderContinues, StepHeaderComplete, StepHandle, StepBodyTakes,
     StepRefillReads, StepRefillTimesOut, StepRespond DEF Job
<1>2. CASE Client
  BY <1>2, StepSend DEF Client
<1>3. CASE UNCHANGED vars
  BY <1>3 DEF vars, IInv, Types, BufferOK, CursorOK, BodyOK, StreamIntact,
              Unread, buffersize
<1>4. QED
  BY <1>1, <1>2, <1>3 DEF Next, Terminated

(* The inductive invariant holds in every behaviour.                       *)
THEOREM Invariance == Spec => []IInv
BY InitInv, NextInv, PTL DEF Spec

(***************************************************************************)
(* For every script and every size of the buffer, the indexes of the read  *)
(* buffer stay in order and inside it.                                     *)
(***************************************************************************)
THEOREM BufferIndexes == Spec => []IndexesInBounds
<1>1. IInv => IndexesInBounds
  BY DEF IInv, BufferOK, CursorOK, BodyOK, IndexesInBounds
<1>2. QED
  BY <1>1, Invariance, PTL

(***************************************************************************)
(* For every script, however its bytes arrive, the bytes in the buffer are *)
(* exactly the ones of the stream that follow those already handed out.    *)
(***************************************************************************)
THEOREM StreamStaysIntact == Spec => []StreamIntact
<1>1. IInv => StreamIntact
  BY DEF IInv
<1>2. QED
  BY <1>1, Invariance, PTL
-----------------------------------------------------------------------------
(* A request as the header reader sees it. *)

(***************************************************************************)
(* The reader is in the header of request r, whose header is first..last:  *)
(* the line it looks at begins at s, and after the blank lines before the  *)
(* request it is at the request line (line is FALSE) or right after a      *)
(* delimiter (line is TRUE).  Its cursor t is beyond s only at a folding.  *)
(***************************************************************************)
InHeader(r, first, last, line, s, t) ==
    /\ s \in 1..last
    /\ IF line THEN s > first /\ r[s - 1] = "LF" ELSE s <= first
    /\ t # s => r[s] # "LF" /\ t \in (s + 1)..(last - 1) /\ r[t] = "SP"

(* The next delimiter q as seen from such a place.                         *)
Delimits(r, first, last, line, s, t, q) ==
    /\ s \in DOMAIN r /\ t \in DOMAIN r /\ q \in DOMAIN r /\ r[q] = "LF"
    /\ r[s] = "LF" => /\ t = s /\ q = s
                      /\ IF line THEN s = last ELSE s < first
    /\ r[s] # "LF" => /\ t \in first..(last - 1) /\ q \in t..(last - 1)
                      /\ r[t] # "LF"
                      /\ ~line => s = first

(* The next delimiter, wherever it is, does not lie behind the header.     *)
LEMMA NextDelimiter ==
    ASSUME NEW r \in Seq(Byte),
           NEW first \in DOMAIN r, NEW last \in DOMAIN r,
           IsHeader(r, first, last), NEW line \in BOOLEAN, NEW s, NEW t,
           InHeader(r, first, last, line, s, t),
           NEW q \in Int, t <= q, q <= Len(r) => r[q] = "LF",
           \A j \in t..(q - 1) : j <= Len(r) => r[j] # "LF"
    PROVE  Delimits(r, first, last, line, s, t, q)
<1>1. /\ Len(r) \in Nat /\ first \in 1..Len(r) /\ last \in 1..Len(r)
      /\ first < last
  BY DEF IsHeader
<1>2. s \in 1..last /\ t \in s..last
  BY <1>1 DEF InHeader
<1>3. q <= last
  <2>1. SUFFICES ASSUME q > last PROVE FALSE
    BY <1>1
  <2>2. last \in t..(q - 1)
    BY <1>1, <1>2, <2>1
  <2>3. QED
    BY <1>1, <2>2 DEF IsHeader
<1>4. q \in DOMAIN r /\ s \in DOMAIN r /\ t \in DOMAIN r /\ r[q] = "LF"
  BY <1>1, <1>2, <1>3
<1>5. ASSUME r[s] = "LF"
      PROVE  t = s /\ q = s /\ IF line THEN s = last ELSE s < first
  <2>1. t = s
    BY <1>5 DEF InHeader
  <2>2. q = s
    <3>1. q # s => s \in t..(q - 1)
      BY <1>1, <1>2, <2>1
    <3>2. QED
      BY <1>1, <1>2, <1>5, <3>1
  <2>3. CASE line
    <3>1. s > first /\ r[s - 1] = "LF"
      BY <2>3 DEF InHeader
    <3>2. s # last => s \in (first + 1)..(last - 1)
      BY <1>1, <1>2, <3>1
    <3>3. QED
      BY <1>5, <2>1, <2>2, <2>3, <3>1, <3>2 DEF IsHeader
  <2>4. CASE ~line
    BY <1>1, <1>2, <1>5, <2>1, <2>2, <2>4 DEF InHeader, IsHeader
  <2>5. QED
    BY <2>3, <2>4
<1>6. ASSUME r[s] # "LF"
      PROVE  /\ t \in first..(last - 1) /\ q \in t..(last - 1)
             /\ r[t] # "LF"
             /\ ~line => s = first
  <2>1. s < last
    BY <1>1, <1>2, <1>6 DEF IsHeader
  <2>2. ASSUME ~line PROVE s = first
    <3>1. s <= first
      BY <2>2 DEF InHeader
    <3>2. s # first => s \in 1..(first - 1)
      BY <1>1, <1>2, <3>1
    <3>3. QED
      BY <1>6, <3>2 DEF IsHeader
  <2>3. s >= first
    BY <1>1, <1>2, <2>2 DEF InHeader
  <2>4. t \in first..(last - 1) /\ r[t] # "LF"
    BY <1>1, <1>2, <1>6, <2>1, <2>3 DEF InHeader
  <2>5. q \in t..(last - 1)
    <3>1. q = last => last - 1 \in t..(q - 1)
      BY <1>1, <1>2, <2>4
    <3>2. QED
      BY <1>1, <1>3, <3>1 DEF IsHeader
  <2>6. QED
    BY <2>1, <2>2, <2>4, <2>5
<1>7. QED
  BY <1>4, <1>5, <1>6 DEF Delimits

(* After a line that is complete the reader is at the next one.            *)
LEMMA LineDone ==
    ASSUME NEW r \in Seq(Byte),
           NEW first \in DOMAIN r, NEW last \in DOMAIN r,
           IsHeader(r, first, last), NEW q \in 1..(last - 1), r[q] = "LF"
    PROVE  /\ q < first => InHeader(r, first, last, FALSE, q + 1, q + 1)
           /\ q >= first => InHeader(r, first, last, TRUE, q + 1, q + 1)
<1>1. /\ Len(r) \in Nat /\ first \in 1..Len(r) /\ last \in 1..Len(r)
      /\ r[first] # "LF"
  BY DEF IsHeader
<1>2. q # first
  BY <1>1
<1>3. QED
  BY <1>1, <1>2 DEF InHeader
-----------------------------------------------------------------------------
(* Where in the script the reader is. *)

(* The line that is read, the cursor and the next delimiter, as places in  *)
(* the k-th request of the script.                                         *)
LineAt(k)   == consumed - Len(Prefix(script, k - 1)) + 1
CursorAt(k) == LineAt(k) + (p - bufferpos)
LfAt(k)     == LineAt(k) + (LfPos - bufferpos)

(* What RequestRead and ConnReadHeader know of the connection's script.    *)
InRequest(k, first, last) ==
    /\ IsHeader(script[k], first, last)
    /\ request.length # 0 => Len(script[k]) = last + request.length
    /\ pc = "header" => InHeader(script[k], first, last, request.line,
                                 LineAt(k), CursorAt(k))
    /\ pc = "handle" => LineAt(k) = last + 1
    /\ pc \in {"body", "refill"} =>
           request.length # 0 /\ LineAt(k) = last + bytesRead + 1

(* A request that is being read is one of the script, read from its first  *)
(* byte on.                                                                *)
PlaceOK ==
    pc \in {"header", "handle", "body", "refill"} =>
        \E k \in DOMAIN script :
            \E first, last \in DOMAIN script[k] : InRequest(k, first, last)

(* One that has been served has been read to its last byte.                *)
BoundaryOK ==
    pc = "wait" \/ (pc = "respond" /\ status < 400) => consumed \in Boundaries

Statuses == {200, 400, 405, 408, 411}

(* The types that IInv leaves out.                                         *)
Typed ==
    /\ script \in Scripts
    /\ lockstep \in BOOLEAN
    /\ sent <= Len(Wire)
    /\ buffer \in Seq(1..recvd)
    /\ status \in Statuses \cup {0}
    /\ pc = "respond" => status \in Statuses
    /\ answers \in Seq(Statuses)

Reading == IInv /\ Typed /\ PlaceOK /\ BoundaryOK

-----------------------------------------------------------------------------
(* The script as a sequence of sequences of bytes.                         *)
LEMMA ScriptTypes ==
    ASSUME script \in Scripts
    PROVE  /\ script \in Seq(Seq(Byte))
           /\ Len(script) \in Nat
           /\ DOMAIN script = 1..Len(script)
           /\ \A k \in DOMAIN script :
                  /\ script[k] \in Seq(Byte) /\ Len(script[k]) \in Nat
                  /\ DOMAIN script[k] = 1..Len(script[k])
                  /\ WellFormed(script[k])
           /\ \A k \in 0..Len(script) : Len(Prefix(script, k)) \in Nat
           /\ Len(Wire) \in Nat
           /\ Boundaries = {Len(Prefix(script, k)) : k \in 0..Len(script)}
<1>1. /\ script \in Seq(Seq(Byte))
      /\ \A k \in DOMAIN script : WellFormed(script[k])
  BY ScriptsAssumption
<1>2. Len(script) \in Nat /\ DOMAIN script = 1..Len(script)
  BY <1>1
<1>3. /\ \A k \in 0..Len(script) : Prefix(script, k) \in Seq(Byte)
      /\ Prefix(script, Len(script)) = Wire
  BY <1>1, FlattenPrefixes DEF Wire
<1>4. Len(script) \in 0..Len(script)
  BY <1>2
<1>5. \A k \in DOMAIN script : /\ script[k] \in Seq(Byte)
                               /\ Len(script[k]) \in Nat
                               /\ DOMAIN script[k] = 1..Len(script[k])
  BY <1>1
<1>6. \A k \in 0..Len(script) : Len(Prefix(script, k)) \in Nat
  BY <1>3
<1>7. Len(Wire) \in Nat
  BY <1>3, <1>4, <1>6
<1>8. Boundaries = {Len(Prefix(script, k)) : k \in 0..Len(script)}
  BY DEF Boundaries, Prefix
<1>9. QED
  BY <1>1, <1>2, <1>5, <1>6, <1>7, <1>8

(* A byte of the buffer is the one of the script that comes so many bytes  *)
(* after the ones handed out.                                              *)
LEMMA ByteInRequest ==
    ASSUME IInv, script \in Scripts, NEW k \in DOMAIN script,
           NEW i \in bufferpos..(buffersize - 1), NEW j \in 1..Len(script[k]),
           j = consumed - Len(Prefix(script, k - 1)) + (i + 1 - bufferpos)
    PROVE  ByteAt(i) = script[k][j]
<1> DEFINE o == Len(Prefix(script, k - 1))
           m == i + 1 - bufferpos
<1>1. /\ buffersize \in Nat /\ bufferpos \in Nat /\ consumed \in Nat
      /\ bufferpos <= buffersize
  BY DEF IInv, Types, BufferOK, buffersize
<1>2. /\ script \in Seq(Seq(Byte)) /\ k \in 1..Len(script)
      /\ k - 1 \in 0..Len(script) /\ o \in Nat
  BY ScriptTypes
<1>3. m \in 1..Unread /\ bufferpos + m = i + 1 /\ i \in Int
  BY <1>1 DEF Unread
<1>4. buffer[bufferpos + m] = consumed + m
  <2> HIDE DEF m
  <2>1. QED
    BY <1>3 DEF IInv, StreamIntact
<1>5. consumed + m = o + j
  BY <1>1, <1>2, <1>3
<1>6. FlattenSeq(script)[o + j] = script[k][j]
  BY <1>2, FlattenPlaces
<1>7. buffer[i + 1] = o + j
  <2> HIDE DEF m, o
  <2>1. QED
    BY <1>3, <1>4, <1>5
<1>8. QED
  BY <1>6, <1>7, Zenon DEF ByteAt, Wire

(***************************************************************************)
(* Where ConnReadHeader finds the delimiter, as a place in the request     *)
(* that is being read.                                                     *)
(***************************************************************************)
LEMMA DelimiterInRequest ==
    ASSUME IInv, script \in Scripts, pc = "header", LineFeeds # {},
           NEW k \in DOMAIN script,
           NEW first \in DOMAIN script[k], NEW last \in DOMAIN script[k],
           InRequest(k, first, last)
    PROVE  /\ Delimits(script[k], first, last, request.line,
                       LineAt(k), CursorAt(k), LfAt(k))
           /\ ByteAt(bufferpos) = script[k][LineAt(k)]
           /\ ByteAt(p) = script[k][CursorAt(k)]
           /\ LfPos + 1 < buffersize /\ LfAt(k) + 1 \in DOMAIN script[k] =>
                  ByteAt(LfPos + 1) = script[k][LfAt(k) + 1]
<1> DEFINE o == Len(Prefix(script, k - 1))
           r == script[k]
           s == LineAt(k)
           t == CursorAt(k)
           q == LfAt(k)
<1>1. /\ buffersize \in Nat /\ bufferpos \in Nat /\ consumed \in Nat
      /\ p \in Nat /\ bufferpos <= p /\ p <= buffersize
      /\ request.line \in BOOLEAN
  BY DEF IInv, Types, CursorOK, Sessions, buffersize
<1>2. /\ k \in 1..Len(script) /\ r \in Seq(Byte) /\ o \in Nat
      /\ Len(r) \in Nat /\ DOMAIN r = 1..Len(r)
  <2>1. k - 1 \in 0..Len(script)
    BY ScriptTypes
  <2>2. QED
    BY <2>1, ScriptTypes
<1>3. /\ IsHeader(r, first, last)
      /\ InHeader(r, first, last, request.line, s, t)
  BY DEF InRequest
<1>4. /\ LfPos \in p..(buffersize - 1) /\ LfPos \in Nat
      /\ ByteAt(LfPos) = "LF"
      /\ \A i \in p..(LfPos - 1) : ByteAt(i) # "LF"
  BY LfPosInBuffer DEF IInv
<1>5. /\ s = consumed - o + 1
      /\ t = s + (p - bufferpos) /\ q = s + (LfPos - bufferpos)
  BY DEF LineAt, CursorAt, LfAt
<1>0. first \in DOMAIN r /\ last \in DOMAIN r
  OBVIOUS
<1> HIDE DEF o, r, s, t, q
<1>6. s \in Int /\ t \in Int /\ q \in Int /\ t <= q /\ s <= t /\ s >= 1
  BY <1>1, <1>2, <1>3, <1>4, <1>5 DEF InHeader
<1>7. ASSUME NEW j \in Int, 1 <= j, j <= Len(r), s <= j,
             j < s + (buffersize - bufferpos)
      PROVE  ByteAt(bufferpos + (j - s)) = r[j]
  <2> DEFINE i == bufferpos + (j - s)
  <2>1. i \in bufferpos..(buffersize - 1)
    BY <1>1, <1>2, <1>6, <1>7
  <2>2. j = consumed - o + (i + 1 - bufferpos)
    BY <1>1, <1>2, <1>5, <1>6
  <2> HIDE DEF i
  <2>3. QED
    BY <1>2, <1>7, <2>1, <2>2, ByteInRequest DEF o, i, r
<1>8. q <= Len(r) => r[q] = "LF"
  <2> SUFFICES ASSUME q <= Len(r) PROVE r[q] = "LF"
    OBVIOUS
  <2>1. /\ q \in Int /\ 1 <= q /\ q <= Len(r) /\ s <= q
        /\ q < s + (buffersize - bufferpos)
        /\ bufferpos + (q - s) = LfPos
    BY <1>1, <1>2, <1>4, <1>5, <1>6
  <2>2. QED
    BY <1>4, <1>7, <2>1
<1>9. ASSUME NEW j \in t..(q - 1), j <= Len(r) PROVE r[j] # "LF"
  <2>1. /\ j \in Int /\ 1 <= j /\ j <= Len(r) /\ s <= j
        /\ j < s + (buffersize - bufferpos)
        /\ bufferpos + (j - s) \in p..(LfPos - 1)
    BY <1>1, <1>2, <1>4, <1>5, <1>6, <1>9
  <2>2. ByteAt(bufferpos + (j - s)) = r[j]
    BY <1>7, <2>1
  <2>3. ByteAt(bufferpos + (j - s)) # "LF"
    BY <1>4, <2>1
  <2>4. QED
    BY <2>2, <2>3
<1>10. Delimits(r, first, last, request.line, s, t, q)
  <2> DEFINE line == request.line
  <2>1. line \in BOOLEAN /\ InHeader(r, first, last, line, s, t)
    BY <1>1, <1>3
  <2>2. \A j \in t..(q - 1) : j <= Len(r) => r[j] # "LF"
    BY <1>9
  <2> HIDE DEF line
  <2>3. Delimits(r, first, last, line, s, t, q)
    BY <1>2, <1>3, <1>0, <1>6, <1>8, <2>1, <2>2, NextDelimiter
  <2>4. QED
    BY <2>3 DEF line
<1>11. ByteAt(bufferpos) = r[s]
  <2>1. s \in DOMAIN r /\ bufferpos < buffersize
    BY <1>1, <1>4, <1>10 DEF Delimits
  <2>2. /\ 1 <= s /\ s <= Len(r) /\ s < s + (buffersize - bufferpos)
        /\ bufferpos + (s - s) = bufferpos
    BY <1>1, <1>2, <1>6, <2>1
  <2>3. QED
    BY <1>6, <1>7, <2>2
<1>12. ByteAt(p) = r[t]
  <2>1. /\ t \in Int /\ 1 <= t /\ t <= Len(r) /\ s <= t
        /\ t < s + (buffersize - bufferpos)
        /\ bufferpos + (t - s) = p
    BY <1>1, <1>2, <1>4, <1>5, <1>6, <1>10 DEF Delimits
  <2>2. QED
    BY <1>7, <2>1
<1>13. ASSUME LfPos + 1 < buffersize, q + 1 \in DOMAIN r
       PROVE  ByteAt(LfPos + 1) = r[q + 1]
  <2>1. /\ q + 1 \in Int /\ 1 <= q + 1 /\ q + 1 <= Len(r) /\ s <= q + 1
        /\ q + 1 < s + (buffersize - bufferpos)
        /\ bufferpos + ((q + 1) - s) = LfPos + 1
    BY <1>1, <1>2, <1>4, <1>5, <1>6, <1>13
  <2>2. QED
    BY <1>7, <2>1
<1>14. QED
  BY <1>10, <1>11, <1>12, <1>13 DEF r, s, t, q
-----------------------------------------------------------------------------
(* Types. *)

(* ConnRead gets at least one byte, and none that was not sent.            *)
LEMMA ReadTyped ==
    ASSUME IInv, Typed, NEW buf \in Seq(1..recvd), Len(buf) < BufferSize,
           ConnReadOk(buf)
    PROVE  /\ buffer' \in Seq(1..recvd')
           /\ recvd' \in Nat /\ recvd < recvd' /\ recvd' <= sent
<1> DEFINE n == Least(sent - recvd, BufferSize - Len(buf) - 1)
           new == [i \in 1..n |-> recvd + i]
<1>1. BufferSize \in Nat /\ Len(buf) \in Nat /\ recvd \in Nat /\ sent \in Nat
  BY BufferAssumption DEF IInv, Types
<1>2. n > 0 /\ buffer' = buf \o new /\ recvd' = recvd + n
  BY DEF ConnReadOk
<1>3. n \in Nat /\ n <= sent - recvd
  BY <1>1, <1>2 DEF Least
<1> HIDE DEF n
<1>4. recvd' \in Nat /\ recvd < recvd' /\ recvd' <= sent
  BY <1>1, <1>2, <1>3
<1>5. \A i \in 1..n : recvd + i \in 1..(recvd + n)
  BY <1>1, <1>3
<1>6. new \in Seq(1..recvd')
  BY <1>2, <1>3, <1>5
<1>7. 1..recvd \subseteq 1..recvd'
  BY <1>1, <1>4
<1>8. buf \in Seq(1..recvd')
  BY <1>7, SeqMonotonic
<1> HIDE DEF new
<1>9. buffer' \in Seq(1..recvd')
  BY <1>2, <1>6, <1>8, ConcatProperties
<1>10. QED
  BY <1>4, <1>9

(* What is left of the buffer has been received.                           *)
LEMMA CompactTyped ==
    ASSUME IInv, Typed
    PROVE  Compacted \in Seq(1..recvd) /\ Len(Compacted) < BufferSize
<1>1. /\ Len(buffer) \in Nat /\ bufferpos \in Nat /\ buffer \in Seq(1..recvd)
      /\ bufferpos <= Len(buffer) /\ Len(buffer) < BufferSize
  BY DEF IInv, Types, BufferOK, Typed, buffersize
<1>2. \A j \in (bufferpos + 1)..Len(buffer) : buffer[j] \in 1..recvd
  <2>1. \A j \in (bufferpos + 1)..Len(buffer) : j \in 1..Len(buffer)
    BY <1>1
  <2>2. QED
    BY <1>1, <2>1, ElementOfSeq, Zenon
<1>3. /\ Compacted \in Seq(1..recvd)
      /\ Len(Compacted) = Len(buffer) - bufferpos
  <2> DEFINE S == 1..recvd
             m == bufferpos + 1
             n == Len(buffer)
             c == SubSeq(buffer, m, n)
  <2>1. m \in Int /\ n \in Int /\ \A j \in m..n : buffer[j] \in S
    BY <1>1, <1>2
  <2>2. (IF m <= n THEN n - m + 1 ELSE 0) = Len(buffer) - bufferpos
    BY <1>1
  <2> HIDE DEF S, m, n
  <2>3. c \in Seq(S) /\ Len(c) = IF m <= n THEN n - m + 1 ELSE 0
    BY <2>1, SubSeqProperties
  <2>4. QED
    BY <2>2, <2>3 DEF Compacted, buffersize, S, m, n
<1>4. QED
  BY <1>1, <1>3, BufferAssumption

(* What RequestRead makes of a line, as far as the status is concerned.    *)
LEMMA LineStatus ==
    ASSUME HeaderComplete
    PROVE  \/ status' = status /\ pc' \in {"header", "handle"}
           \/ status' = 400 /\ pc' = "respond"
<1> DEFINE b == ByteAt(bufferpos)
<1> HIDE DEF b
<1>1. \/ b = "LF" /\ status' = status /\ pc' \in {"header", "handle"}
      \/ RequestLine(b)
      \/ HeaderField(b)
  BY DEF HeaderComplete, b
<1>2. CASE RequestLine(b)
  BY <1>2 DEF RequestLine
<1>3. CASE HeaderField(b)
  BY <1>3 DEF HeaderField
<1>4. QED
  BY <1>1, <1>2, <1>3

(* Every step keeps the types.                                             *)
LEMMA NextTyped == ASSUME IInv, Typed, [Next]_vars PROVE Typed'
<1>0. buffer \in Seq(1..recvd) /\ Len(buffer) < BufferSize
  BY DEF IInv, BufferOK, Typed, buffersize
<1>1. CASE WaitReads
  <2>1. buffer' \in Seq(1..recvd') /\ recvd' <= sent
    BY <1>0, <1>1, ReadTyped DEF WaitReads
  <2>2. QED
    BY <1>1, <2>1 DEF WaitReads, Typed, Wire, Statuses
<1>2. CASE WaitGivesUp
  BY <1>2 DEF WaitGivesUp, Typed, Wire
<1>3. CASE HeaderReads
  <2>1. buffer' \in Seq(1..recvd') /\ recvd' <= sent
    BY <1>0, <1>3, ReadTyped DEF HeaderReads
  <2>2. QED
    BY <1>3, <2>1 DEF HeaderReads, Typed, Wire
<1>4. CASE HeaderTimesOut
  BY <1>4 DEF HeaderTimesOut, Typed, Wire, Statuses
<1>5. CASE HeaderContinues
  BY <1>5 DEF HeaderContinues, Typed, Wire
<1>6. CASE HeaderComplete
  <2>1. /\ script' = script /\ lockstep' = lockstep /\ sent' = sent
        /\ recvd' = recvd /\ buffer' = buffer /\ answers' = answers
    BY <1>6 DEF HeaderComplete
  <2>2. /\ status' \in Statuses \cup {0}
        /\ pc' = "respond" => status' \in Statuses
    BY <1>6, LineStatus DEF Typed, Statuses
  <2>3. QED
    BY <2>1, <2>2 DEF Typed, Wire
<1>7. CASE Handle
  <2>1. /\ status' \in Statuses \cup {0}
        /\ pc' = "respond" => status' \in Statuses
    BY <1>7 DEF Handle, RefusalStatus, Statuses
  <2>2. QED
    BY <1>7, <2>1 DEF Handle, Typed, Wire
<1>8. CASE BodyTakes
  <2>1. /\ status' \in Statuses \cup {0}
        /\ pc' = "respond" => status' \in Statuses
    BY <1>8 DEF BodyTakes, Typed, Statuses
  <2>2. QED
    BY <1>8, <2>1 DEF BodyTakes, Typed, Wire
<1>9. CASE RefillReads
  <2>1. buffer' \in Seq(1..recvd') /\ recvd' <= sent
    BY <1>9, CompactTyped, ReadTyped DEF RefillReads
  <2>2. QED
    BY <1>9, <2>1 DEF RefillReads, Typed, Wire
<1>10. CASE RefillTimesOut
  BY <1>10, CompactTyped DEF RefillTimesOut, Typed, Wire, Statuses
<1>11. CASE Respond
  <2>1. status \in Statuses /\ answers \in Seq(Statuses)
    BY <1>11 DEF Respond, Typed
  <2>2. answers' \in Seq(Statuses)
    BY <1>11, <2>1 DEF Respond
  <2>3. pc' # "respond"
    BY <1>11 DEF Respond
  <2>4. QED
    BY <1>11, <2>2, <2>3, CompactTyped DEF Respond, Typed, Wire
<1>12. CASE Client
  <2>1. PICK n \in 1..Len(Wire) : Send(n)
    BY <1>12 DEF Client
  <2>2. n \in Int /\ n <= Len(Wire)
    BY <2>1, ScriptTypes DEF Typed
  <2>3. QED
    BY <2>1, <2>2 DEF Send, Typed, Wire
<1>13. CASE UNCHANGED vars
  BY <1>13 DEF vars, Typed, Wire
<1>14. QED
  BY <1>1, <1>2, <1>3, <1>4, <1>5, <1>6, <1>7, <1>8, <1>9, <1>10, <1>11,
     <1>12, <1>13 DEF Next, Job, Terminated
-----------------------------------------------------------------------------
(* The place in the script, step by step. *)

(* A step that reads bytes, or none, without handing one out.              *)
LEMMA SamePlace ==
    ASSUME PlaceOK,
           UNCHANGED <<script, consumed, p, bufferpos, request, bytesRead, pc>>
    PROVE  PlaceOK'
BY DEF PlaceOK, InRequest, LineAt, CursorAt

(* A step after which no request is being read.                            *)
LEMMA NoPlace ==
    ASSUME pc' \in {"wait", "respond", "done"} PROVE PlaceOK'
BY DEF PlaceOK

(* serverFunc begins to read at the end of a request, and there is more.   *)
LEMMA PlaceWaitReads == ASSUME Reading, WaitReads PROVE PlaceOK'
<1>1. IInv /\ Typed /\ script \in Scripts /\ buffer \in Seq(1..recvd)
      /\ Len(buffer) < BufferSize /\ consumed \in Boundaries
  BY DEF Reading, IInv, BufferOK, BoundaryOK, WaitReads, Typed, buffersize
<1>2. PICK j \in 0..Len(script) : consumed = Len(Prefix(script, j))
  BY <1>1, ScriptTypes
<1>3. recvd < recvd' /\ recvd' <= sent /\ recvd' \in Nat
  BY <1>1, ReadTyped DEF WaitReads
<1>4. consumed < Len(Wire)
  <2>1. /\ consumed \in Nat /\ recvd \in Nat /\ sent \in Nat
        /\ consumed + (Len(buffer) - bufferpos) = recvd
        /\ bufferpos <= Len(buffer) /\ bufferpos \in Nat /\ Len(buffer) \in Nat
        /\ sent <= Len(Wire)
    BY <1>1 DEF IInv, Types, BufferOK, StreamIntact, Unread, buffersize, Typed
  <2>2. Len(Wire) \in Nat
    BY <1>1, ScriptTypes
  <2>3. QED
    BY <1>3, <2>1, <2>2
<1>5. j # Len(script)
  <2>1. Prefix(script, Len(script)) = Wire
    BY <1>1, ScriptTypes, FlattenPrefixes DEF Wire
  <2>2. Len(Wire) \in Nat
    BY <1>1, ScriptTypes
  <2>3. QED
    BY <1>2, <1>4, <2>1, <2>2
<1> DEFINE k == j + 1
<1>6. Len(script) \in Nat /\ k \in 1..Len(script) /\ k - 1 = j
  <2>1. Len(script) \in Nat /\ j \in 0..Len(script)
    BY <1>1, ScriptTypes
  <2>2. QED
    BY <1>5, <2>1
<1> HIDE DEF k
<1>7. k \in DOMAIN script /\ WellFormed(script[k]) /\ Len(script[k]) \in Nat
      /\ DOMAIN script[k] = 1..Len(script[k])
  BY <1>1, <1>6, ScriptTypes
<1>8. PICK first \in DOMAIN script[k], last \in DOMAIN script[k] :
          IsHeader(script[k], first, last)
  BY <1>7 DEF WellFormed
<1>9. /\ script' = script /\ consumed' = consumed /\ p' = bufferpos
      /\ bufferpos' = bufferpos /\ request' = NoRequest /\ pc' = "header"
  BY DEF WaitReads
<1>10. LineAt(k)' = 1 /\ CursorAt(k)' = 1
  <2>1. consumed \in Nat /\ bufferpos \in Nat
    BY <1>1 DEF IInv, Types
  <2>2. consumed' - Len(Prefix(script', k - 1)) + 1 = 1
    BY <1>2, <1>6, <1>9, <2>1
  <2>3. 1 + (p' - bufferpos') = 1
    BY <1>9, <2>1
  <2>4. QED
    BY <2>2, <2>3 DEF LineAt, CursorAt
<1>11. InHeader(script[k], first, last, FALSE, 1, 1)
  BY <1>7, <1>8 DEF InHeader, IsHeader
<1>12. InRequest(k, first, last)'
  BY <1>8, <1>9, <1>10, <1>11 DEF InRequest, NoRequest
<1>13. QED
  BY <1>7, <1>9, <1>12 DEF PlaceOK

(* The request and the delimiter that ends the line being read.            *)
LEMMA HeaderPlace ==
    ASSUME Reading, pc = "header", LineFeeds # {}
    PROVE  \E k \in DOMAIN script :
               \E first, last \in DOMAIN script[k] :
                   /\ InRequest(k, first, last)
                   /\ Delimits(script[k], first, last, request.line,
                               LineAt(k), CursorAt(k), LfAt(k))
                   /\ ByteAt(bufferpos) = script[k][LineAt(k)]
                   /\ ByteAt(p) = script[k][CursorAt(k)]
                   /\ LfPos + 1 < buffersize
                          /\ LfAt(k) + 1 \in DOMAIN script[k] =>
                              ByteAt(LfPos + 1) = script[k][LfAt(k) + 1]
<1>1. IInv /\ script \in Scripts
  BY DEF Reading, Typed
<1>2. PICK k \in DOMAIN script :
          \E first, last \in DOMAIN script[k] : InRequest(k, first, last)
  BY DEF Reading, PlaceOK
<1>3. PICK first \in DOMAIN script[k], last \in DOMAIN script[k] :
          InRequest(k, first, last)
  BY <1>2
<1>4. /\ Delimits(script[k], first, last, request.line,
                  LineAt(k), CursorAt(k), LfAt(k))
      /\ ByteAt(bufferpos) = script[k][LineAt(k)]
      /\ ByteAt(p) = script[k][CursorAt(k)]
      /\ LfPos + 1 < buffersize /\ LfAt(k) + 1 \in DOMAIN script[k] =>
             ByteAt(LfPos + 1) = script[k][LfAt(k) + 1]
  BY <1>1, <1>3, DelimiterInRequest
<1>5. QED
  BY <1>3, <1>4

(* What the places in the buffer have to do with those in the request.     *)
LEMMA PlaceTypes ==
    ASSUME Reading, NEW k \in DOMAIN script
    PROVE  /\ bufferpos \in Nat /\ p \in Nat /\ consumed \in Nat
           /\ Len(Prefix(script, k - 1)) \in Nat
           /\ LineAt(k) \in Int /\ CursorAt(k) \in Int
           /\ Len(script[k]) \in Nat
           /\ DOMAIN script[k] = 1..Len(script[k])
           /\ script[k] \in Seq(Byte)
           /\ request \in Sessions
<1>1. bufferpos \in Nat /\ p \in Nat /\ consumed \in Nat
      /\ request \in Sessions /\ script \in Scripts
  BY DEF Reading, IInv, Types, Typed
<1>2. k \in 1..Len(script) /\ Len(script) \in Nat
  BY <1>1, ScriptTypes
<1>3. k - 1 \in 0..Len(script)
  BY <1>2
<1>4. Len(Prefix(script, k - 1)) \in Nat
  BY <1>1, <1>3, ScriptTypes
<1>5. LineAt(k) \in Int
  BY <1>1, <1>4 DEF LineAt
<1>6. CursorAt(k) \in Int
  BY <1>1, <1>5 DEF CursorAt
<1>7. QED
  BY <1>1, <1>4, <1>5, <1>6, ScriptTypes

(* A folded line goes on: the cursor is at the blank that continues it.    *)
LEMMA PlaceContinues == ASSUME Reading, HeaderContinues PROVE PlaceOK'
<1>1. /\ pc = "header" /\ LineFeeds # {} /\ ByteAt(p) # "LF"
      /\ LfPos + 1 < buffersize /\ ByteAt(LfPos + 1) = "SP"
  BY DEF HeaderContinues, Continued, EmptyLine
<1>2. PICK k : /\ k \in DOMAIN script
               /\ \E first, last \in DOMAIN script[k] :
                   /\ InRequest(k, first, last)
                   /\ Delimits(script[k], first, last, request.line,
                               LineAt(k), CursorAt(k), LfAt(k))
                   /\ ByteAt(p) = script[k][CursorAt(k)]
                   /\ LfPos + 1 < buffersize
                          /\ LfAt(k) + 1 \in DOMAIN script[k] =>
                              ByteAt(LfPos + 1) = script[k][LfAt(k) + 1]
  BY <1>1, HeaderPlace
<1> DEFINE r == script[k]
           s == LineAt(k)
           t == CursorAt(k)
           q == LfAt(k)
<1>3. PICK first, last :
          /\ first \in DOMAIN r /\ last \in DOMAIN r
          /\ InRequest(k, first, last)
          /\ Delimits(r, first, last, request.line, s, t, q)
          /\ ByteAt(p) = r[t]
          /\ q + 1 \in DOMAIN r => ByteAt(LfPos + 1) = r[q + 1]
  BY <1>1, <1>2
<1>4. /\ bufferpos \in Nat /\ LfPos \in Nat /\ s \in Int
      /\ Len(r) \in Nat /\ DOMAIN r = 1..Len(r)
  BY <1>1, <1>2, PlaceTypes, LfPosInBuffer DEF Reading, IInv
<1>5. q = s + (LfPos - bufferpos)
  BY DEF LfAt
<1>6. /\ InHeader(r, first, last, request.line, s, t)
      /\ IsHeader(r, first, last)
  BY <1>1, <1>3 DEF InRequest
<1>7. /\ script' = script /\ consumed' = consumed /\ p' = LfPos + 1
      /\ bufferpos' = bufferpos /\ request' = request /\ pc' = "header"
  BY <1>1 DEF HeaderContinues
<1>8. LineAt(k)' = s /\ CursorAt(k)' = q + 1
  <2>1. LineAt(k)' = s
    BY <1>7 DEF LineAt
  <2>2. CursorAt(k)' = s + ((LfPos + 1) - bufferpos)
    BY <1>7, <2>1 DEF CursorAt
  <2>3. QED
    BY <1>4, <1>5, <2>1, <2>2
<1> HIDE DEF r, s, t, q
<1>9. InHeader(r, first, last, request.line, s, q + 1)
  <2>1. /\ r[s] # "LF" /\ t \in first..(last - 1) /\ q \in t..(last - 1)
    BY <1>1, <1>3 DEF Delimits
  <2>2. s \in 1..last /\ s <= t /\ first \in Int /\ last \in Int
    BY <1>3, <1>4, <1>6, <2>1 DEF InHeader
  <2>3. q + 1 \in DOMAIN r
    BY <1>3, <1>4, <1>6, <2>1, <2>2
  <2>4. r[q + 1] = "SP" /\ r[last] = "LF"
    BY <1>1, <1>3, <1>6, <2>3 DEF IsHeader
  <2>5. q + 1 # last
    BY <2>4
  <2>6. q + 1 \in (s + 1)..(last - 1)
    BY <1>4, <2>1, <2>2, <2>5
  <2>7. QED
    BY <1>6, <2>1, <2>4, <2>6 DEF InHeader
<1>10. InRequest(k, first, last)'
  BY <1>3, <1>6, <1>7, <1>8, <1>9 DEF InRequest, r
<1>11. QED
  BY <1>2, <1>3, <1>7, <1>10 DEF PlaceOK, r

(* A line is complete: the reader is at the next one, or past the header.  *)
LEMMA PlaceComplete == ASSUME Reading, HeaderComplete PROVE PlaceOK'
<1> DEFINE b == ByteAt(bufferpos)
<1>1. pc = "header" /\ LineFeeds # {}
  BY DEF HeaderComplete, GotHeader
<1>2. PICK k : /\ k \in DOMAIN script
               /\ \E first, last \in DOMAIN script[k] :
                   /\ InRequest(k, first, last)
                   /\ Delimits(script[k], first, last, request.line,
                               LineAt(k), CursorAt(k), LfAt(k))
                   /\ b = script[k][LineAt(k)]
  BY <1>1, HeaderPlace
<1> DEFINE r == script[k]
           s == LineAt(k)
           t == CursorAt(k)
           q == LfAt(k)
<1>3. PICK first, last :
          /\ first \in DOMAIN r /\ last \in DOMAIN r
          /\ InRequest(k, first, last)
          /\ Delimits(r, first, last, request.line, s, t, q)
          /\ b = r[s]
  BY <1>2
<1>4. /\ bufferpos \in Nat /\ LfPos \in Nat /\ s \in Int
      /\ consumed \in Nat /\ Len(Prefix(script, k - 1)) \in Nat
      /\ Len(r) \in Nat /\ DOMAIN r = 1..Len(r) /\ r \in Seq(Byte)
      /\ request \in Sessions
  BY <1>1, <1>2, PlaceTypes, LfPosInBuffer DEF Reading, IInv
<1>5. /\ InHeader(r, first, last, request.line, s, t)
      /\ IsHeader(r, first, last)
      /\ request.length # 0 => Len(r) = last + request.length
  BY <1>1, <1>3 DEF InRequest
<1>6. /\ script' = script /\ consumed' = consumed + (LfPos + 1 - bufferpos)
      /\ p' = LfPos + 1 /\ bufferpos' = LfPos + 1
      /\ bytesRead' = bytesRead
  BY DEF HeaderComplete
<1>7. LineAt(k)' = q + 1 /\ CursorAt(k)' = q + 1
  <2>1. q = s + (LfPos - bufferpos)
        /\ s = consumed - Len(Prefix(script, k - 1)) + 1
    BY DEF LfAt, LineAt
  <2>2. LineAt(k)' = (consumed + (LfPos + 1 - bufferpos))
                       - Len(Prefix(script, k - 1)) + 1
    BY <1>6 DEF LineAt
  <2>3. CursorAt(k)' = LineAt(k)' + ((LfPos + 1) - (LfPos + 1))
    BY <1>6 DEF CursorAt
  <2> HIDE DEF q, s
  <2>4. QED
    BY <1>4, <2>1, <2>2, <2>3
<1>8. /\ \/ b = "LF" /\ request' = request
            /\ pc' = IF request.line THEN "handle" ELSE "header"
         \/ b # "LF" /\ ~request.line /\ RequestLine(b)
         \/ b # "LF" /\ request.line /\ HeaderField(b)
  BY DEF HeaderComplete
<1> HIDE DEF b, r, s, t, q
<1>9. first \in 1..Len(r) /\ last \in 1..Len(r) /\ first < last
  BY <1>3, <1>4, <1>5 DEF IsHeader
<1>10. SUFFICES ASSUME pc' \in {"header", "handle"}
                PROVE  InRequest(k, first, last)'
  <2>1. pc' \in {"header", "handle", "respond"}
    BY RequestTypes DEF Reading, IInv
  <2>2. QED
    BY <1>2, <1>3, <1>6, <1>10, <2>1 DEF PlaceOK, r
<1>11. CASE b = "LF"
  <2>1. /\ t = s /\ q = s /\ s \in DOMAIN r /\ r[q] = "LF"
        /\ IF request.line THEN s = last ELSE s < first
    BY <1>3, <1>11 DEF Delimits
  <2>2. /\ request' = request
        /\ pc' = IF request.line THEN "handle" ELSE "header"
    BY <1>8, <1>11
  <2>3. CASE request.line
    <3>1. pc' = "handle" /\ LineAt(k)' = last + 1
      BY <1>7, <2>1, <2>2, <2>3
    <3>2. QED
      BY <1>5, <1>6, <2>2, <3>1 DEF InRequest, r
  <2>4. CASE ~request.line
    <3>1. q \in 1..(last - 1) /\ q < first
      BY <1>4, <1>9, <2>1, <2>4
    <3>2. InHeader(r, first, last, FALSE, q + 1, q + 1)
      BY <1>3, <1>4, <1>5, <2>1, <3>1, LineDone
    <3>3. pc' = "header" /\ request'.line = FALSE
      BY <1>4, <2>2, <2>4 DEF Sessions
    <3>4. QED
      BY <1>5, <1>6, <1>7, <2>2, <3>2, <3>3 DEF InRequest, r
  <2>5. QED
    BY <2>3, <2>4
<1>12. CASE b # "LF"
  <2>1. /\ q \in DOMAIN r /\ r[q] = "LF" /\ t \in first..(last - 1)
        /\ q \in t..(last - 1) /\ s \in DOMAIN r
        /\ ~request.line => s = first
    BY <1>3, <1>12 DEF Delimits
  <2>2. q \in 1..(last - 1) /\ q >= first
    BY <1>9, <2>1
  <2>3. InHeader(r, first, last, TRUE, q + 1, q + 1)
    BY <1>3, <1>4, <1>5, <2>1, <2>2, LineDone
  <2>4. SUFFICES /\ pc' = "header" /\ request'.line = TRUE
                 /\ request'.length # 0 => Len(r) = last + request'.length
    BY <1>5, <1>6, <1>7, <2>3 DEF InRequest, r
  <2>5. CASE ~request.line
    <3>1. RequestLine(b)
      BY <1>8, <1>12, <2>5
    <3>2. /\ pc' = "header"
          /\ request' = [request EXCEPT !.line = TRUE, !.post = b = "post"]
      BY <1>10, <3>1 DEF RequestLine
    <3>3. request'.line = TRUE /\ request'.length = request.length
      BY <1>4, <3>2 DEF Sessions
    <3>4. QED
      BY <1>5, <3>2, <3>3
  <2>6. CASE request.line
    <3>1. HeaderField(b)
      BY <1>8, <1>12, <2>6
    <3>2. s \in first..last
      BY <1>3, <1>4, <1>5, <1>9, <2>6 DEF InHeader
    <3>3. /\ b = "len1" => Len(r) = last + 1
          /\ b = "len2" => Len(r) = last + 2
      <4>1. \A j \in first..last : /\ r[j] = "len1" => Len(r) = last + 1
                                   /\ r[j] = "len2" => Len(r) = last + 2
        <5>1. IsHeader(r, first, last)
          BY <1>5
        <5>2. QED
          BY ONLY <5>1, Zenon DEF IsHeader
      <4>2. b = r[s]
        BY <1>3
      <4>3. QED
        BY <3>2, <4>1, <4>2
    <3>4. /\ pc' = "header"
          /\ \/ request' = [request EXCEPT !.xml = TRUE]
             \/ b = "len1" /\ request' = [request EXCEPT !.length = 1]
             \/ b = "len2" /\ request' = [request EXCEPT !.length = 2]
             \/ request' = [request EXCEPT !.keepalive = FALSE]
             \/ request' = request
      <4>1. CASE b = "len1"
        BY <1>10, <3>1, <4>1 DEF HeaderField
      <4>2. CASE b = "len2"
        BY <1>10, <3>1, <4>2 DEF HeaderField
      <4>3. CASE b = "type"
        BY <1>10, <3>1, <4>3 DEF HeaderField
      <4>4. CASE b = "close"
        BY <1>10, <3>1, <4>4 DEF HeaderField
      <4>5. CASE b = "x"
        BY <1>10, <3>1, <4>5 DEF HeaderField
      <4>6. CASE b \notin {"type", "len1", "len2", "close", "x"}
        BY <1>10, <3>1, <4>6 DEF HeaderField
      <4>7. QED
        BY <4>1, <4>2, <4>3, <4>4, <4>5, <4>6
    <3>5. /\ request'.line = request.line
          /\ \/ request'.length = request.length
             \/ b = "len1" /\ request'.length = 1
             \/ b = "len2" /\ request'.length = 2
      <4>1. CASE request' = [request EXCEPT !.xml = TRUE]
        BY <1>4, <4>1 DEF Sessions
      <4>2. CASE b = "len1" /\ request' = [request EXCEPT !.length = 1]
        BY <1>4, <4>2 DEF Sessions
      <4>3. CASE b = "len2" /\ request' = [request EXCEPT !.length = 2]
        BY <1>4, <4>3 DEF Sessions
      <4>4. CASE request' = [request EXCEPT !.keepalive = FALSE]
        BY <1>4, <4>4 DEF Sessions
      <4>5. CASE request' = request
        BY <4>5
      <4>6. QED
        BY <3>4, <4>1, <4>2, <4>3, <4>4, <4>5
    <3>6. request'.line = TRUE
      BY <1>4, <2>6, <3>5 DEF Sessions
    <3>7. QED
      BY <1>5, <3>3, <3>4, <3>5, <3>6
  <2>7. QED
    BY <2>5, <2>6
<1>13. QED
  BY <1>11, <1>12

(* The handler begins the body right after the header.                     *)
LEMMA PlaceHandle == ASSUME Reading, Handle PROVE PlaceOK'
<1>1. PICK k : /\ k \in DOMAIN script
               /\ \E first, last \in DOMAIN script[k] :
                      InRequest(k, first, last)
  BY DEF Reading, PlaceOK, Handle
<1>2. PICK first, last :
          /\ first \in DOMAIN script[k] /\ last \in DOMAIN script[k]
          /\ InRequest(k, first, last)
  BY <1>1
<1>3. /\ script' = script /\ consumed' = consumed /\ request' = request
      /\ bytesRead' = 0 /\ pc \in {"handle"}
      /\ pc' \in {"body", "respond"}
      /\ pc' = "body" => request.length # 0
  BY DEF Handle, RefusalStatus
<1>4. LineAt(k)' = LineAt(k) /\ LineAt(k) = last + 1
  BY <1>2, <1>3 DEF InRequest, LineAt
<1>5. last + 1 = last + 0 + 1
  BY <1>1, <1>2, PlaceTypes
<1>6. pc' = "body" => InRequest(k, first, last)'
  BY <1>2, <1>3, <1>4, <1>5 DEF InRequest
<1>7. QED
  BY <1>1, <1>2, <1>3, <1>6 DEF PlaceOK

(* getBody reads on in the body.                                           *)
LEMMA PlaceBodyTakes ==
    ASSUME Reading, BodyTakes
    PROVE  PlaceOK' /\ (pc' = "respond" => consumed' \in Boundaries)
<1> DEFINE n == Least(request.length - bytesRead, Unread)
<1>1. PICK k : /\ k \in DOMAIN script
               /\ \E first, last \in DOMAIN script[k] :
                      InRequest(k, first, last)
  BY DEF Reading, PlaceOK, BodyTakes
<1>2. PICK first, last :
          /\ first \in DOMAIN script[k] /\ last \in DOMAIN script[k]
          /\ InRequest(k, first, last)
  BY <1>1
<1>3. /\ pc = "body" /\ script' = script /\ consumed' = consumed + n
      /\ request' = request /\ bytesRead' = bytesRead + n
      /\ IF bytesRead + n < request.length THEN pc' = "refill"
                                           ELSE pc' = "respond"
  BY DEF BodyTakes
<1>4. /\ request.length \in Nat /\ bytesRead \in Nat
      /\ bytesRead <= request.length /\ Unread \in Nat
  BY <1>3 DEF Reading, IInv, Types, Sessions, BodyOK, BufferOK, Unread,
              buffersize
<1>5. n \in Nat /\ bytesRead + n <= request.length
  BY <1>4 DEF Least
<1> HIDE DEF n
<1>6. /\ consumed \in Nat /\ Len(Prefix(script, k - 1)) \in Nat
      /\ last \in Nat /\ Len(script[k]) \in Nat
  BY <1>1, <1>2, PlaceTypes
<1>7. /\ IsHeader(script[k], first, last) /\ request.length # 0
      /\ Len(script[k]) = last + request.length
      /\ consumed - Len(Prefix(script, k - 1)) + 1 = last + bytesRead + 1
  BY <1>2, <1>3 DEF InRequest, LineAt
<1>8. CASE bytesRead + n < request.length
  <2>1. pc' = "refill"
    BY <1>3, <1>8
  <2>2. LineAt(k)' = last + bytesRead' + 1
    <3>1. (consumed + n) - Len(Prefix(script, k - 1)) + 1
             = last + (bytesRead + n) + 1
      BY <1>4, <1>5, <1>6, <1>7
    <3>2. QED
      BY <1>3, <3>1 DEF LineAt
  <2>3. InRequest(k, first, last)'
    BY <1>3, <1>7, <2>1, <2>2 DEF InRequest
  <2>4. QED
    BY <1>1, <1>2, <1>3, <2>1, <2>3 DEF PlaceOK
<1>9. CASE ~(bytesRead + n < request.length)
  <2>1. pc' = "respond"
    BY <1>3, <1>9
  <2>2. consumed' = Len(Prefix(script, k - 1)) + Len(script[k])
    BY <1>3, <1>4, <1>5, <1>6, <1>7, <1>9
  <2>3. k \in 1..Len(script) /\ script \in Seq(Seq(Byte))
        /\ Len(script) \in Nat /\ script \in Scripts
    BY <1>1, ScriptTypes DEF Reading, Typed
  <2>4. Len(Prefix(script, k)) = Len(Prefix(script, k - 1)) + Len(script[k])
    BY <2>3, FlattenPlaces
  <2>5. k \in 0..Len(script)
    BY <2>3
  <2>6. consumed' \in Boundaries
    BY <2>2, <2>3, <2>4, <2>5, ScriptTypes
  <2>7. QED
    BY <2>1, <2>6, NoPlace
<1>10. QED
  BY <1>8, <1>9

(* Refilling the buffer hands nothing out.                                 *)
LEMMA PlaceRefills == ASSUME Reading, RefillReads PROVE PlaceOK'
<1>1. PICK k : /\ k \in DOMAIN script
               /\ \E first, last \in DOMAIN script[k] :
                      InRequest(k, first, last)
  BY DEF Reading, PlaceOK, RefillReads
<1>2. PICK first, last :
          /\ first \in DOMAIN script[k] /\ last \in DOMAIN script[k]
          /\ InRequest(k, first, last)
  BY <1>1
<1>3. /\ pc = "refill" /\ script' = script /\ consumed' = consumed
      /\ request' = request /\ bytesRead' = bytesRead /\ pc' = "body"
  BY DEF RefillReads
<1>4. InRequest(k, first, last)'
  BY <1>2, <1>3 DEF InRequest, LineAt
<1>5. QED
  BY <1>1, <1>2, <1>3, <1>4 DEF PlaceOK
-----------------------------------------------------------------------------
(* The invariant, and what follows from it. *)

(* Every step keeps the place in the script.                               *)
LEMMA NextPlace == ASSUME Reading, [Next]_vars PROVE PlaceOK'
<1>1. CASE WaitReads
  BY <1>1, PlaceWaitReads
<1>2. CASE WaitGivesUp
  BY <1>2, NoPlace DEF WaitGivesUp
<1>3. CASE HeaderReads
  BY <1>3, SamePlace DEF HeaderReads, Reading
<1>4. CASE HeaderTimesOut
  BY <1>4, NoPlace DEF HeaderTimesOut
<1>5. CASE HeaderContinues
  BY <1>5, PlaceContinues
<1>6. CASE HeaderComplete
  BY <1>6, PlaceComplete
<1>7. CASE Handle
  BY <1>7, PlaceHandle
<1>8. CASE BodyTakes
  BY <1>8, PlaceBodyTakes
<1>9. CASE RefillReads
  BY <1>9, PlaceRefills
<1>10. CASE RefillTimesOut
  BY <1>10, NoPlace DEF RefillTimesOut
<1>11. CASE Respond
  BY <1>11, NoPlace DEF Respond
<1>12. CASE Client
  BY <1>12, SamePlace DEF Client, Send, Reading
<1>13. CASE UNCHANGED vars
  BY <1>13, SamePlace DEF vars, Reading
<1>14. QED
  BY <1>1, <1>2, <1>3, <1>4, <1>5, <1>6, <1>7, <1>8, <1>9, <1>10, <1>11,
     <1>12, <1>13 DEF Next, Job, Terminated

(* Every step keeps the end of a request where the script has it.          *)
LEMMA NextBoundary == ASSUME Reading, [Next]_vars PROVE BoundaryOK'
<1>0. script' = script /\ Boundaries' = Boundaries
  BY DEF Next, Job, Client, Terminated, WaitReads, WaitGivesUp, HeaderReads,
         HeaderTimesOut, HeaderContinues, HeaderComplete, Handle, BodyTakes,
         RefillReads, RefillTimesOut, Respond, Send, vars, Boundaries
<1>1. CASE WaitReads
  BY <1>1 DEF WaitReads, BoundaryOK
<1>2. CASE WaitGivesUp
  BY <1>2 DEF WaitGivesUp, BoundaryOK
<1>3. CASE HeaderReads
  BY <1>3 DEF HeaderReads, BoundaryOK
<1>4. CASE HeaderTimesOut
  BY <1>4 DEF HeaderTimesOut, BoundaryOK
<1>5. CASE HeaderContinues
  BY <1>5 DEF HeaderContinues, BoundaryOK
<1>6. CASE HeaderComplete
  BY <1>6, LineStatus DEF BoundaryOK
<1>7. CASE Handle
  BY <1>7 DEF Handle, RefusalStatus, BoundaryOK
<1>8. CASE BodyTakes
  <2>1. pc' \in {"refill", "respond"}
    BY <1>8 DEF BodyTakes
  <2>2. QED
    BY <1>0, <1>8, <2>1, PlaceBodyTakes DEF BoundaryOK
<1>9. CASE RefillReads
  BY <1>9 DEF RefillReads, BoundaryOK
<1>10. CASE RefillTimesOut
  BY <1>10 DEF RefillTimesOut, BoundaryOK
<1>11. CASE Respond
  <2>1. pc = "respond" /\ pc' \in {"wait", "done"} /\ consumed' = consumed
        /\ (pc' = "wait" => status < 400)
    BY <1>11 DEF Respond, HTTPKeepalive
  <2>2. QED
    BY <1>0, <2>1 DEF Reading, BoundaryOK
<1>12. CASE Client
  BY <1>0, <1>12 DEF Client, Send, Reading, BoundaryOK
<1>13. CASE UNCHANGED vars
  BY <1>0, <1>13 DEF vars, Reading, BoundaryOK
<1>14. QED
  BY <1>1, <1>2, <1>3, <1>4, <1>5, <1>6, <1>7, <1>8, <1>9, <1>10, <1>11,
     <1>12, <1>13 DEF Next, Job, Terminated

(* Before the first request nothing has been handed out.                   *)
LEMMA InitReading == Init => Reading
<1> SUFFICES ASSUME Init PROVE Reading
  OBVIOUS
<1>1. IInv
  BY InitInv
<1>2. script \in Scripts /\ Len(Wire) \in Nat
  BY ScriptTypes DEF Init
<1>3. Typed
  BY <1>2, EmptySeq DEF Init, Typed, Statuses
<1>4. PlaceOK
  BY DEF Init, PlaceOK
<1>5. BoundaryOK
  <2>1. script \in Seq(Seq(Byte)) /\ Len(script) \in Nat
    BY <1>2, ScriptTypes
  <2>2. Len(Prefix(script, 0)) = 0
    <3>1. Prefix(script, 0) = <<>>
      BY <2>1, FlattenPrefixes
    <3>2. QED
      BY <3>1
  <2>3. 0 \in 0..Len(script)
    BY <2>1
  <2>4. 0 \in Boundaries
    BY <1>2, <2>2, <2>3, ScriptTypes
  <2>5. QED
    BY <2>4 DEF Init, BoundaryOK
<1>6. QED
  BY <1>1, <1>3, <1>4, <1>5 DEF Reading

(***************************************************************************)
(* What the reader knows of the script holds in every behaviour.           *)
(***************************************************************************)
THEOREM ReadingInvariant == Spec => []Reading
<1>1. Reading /\ [Next]_vars => Reading'
  <2> SUFFICES ASSUME Reading, [Next]_vars PROVE Reading'
    OBVIOUS
  <2>1. IInv /\ Typed
    BY DEF Reading
  <2>2. IInv'
    BY <2>1, NextInv
  <2>3. QED
    BY <2>1, <2>2, NextTyped, NextPlace, NextBoundary DEF Reading
<1>2. QED
  BY <1>1, InitReading, PTL DEF Spec

(***************************************************************************)
(* For every set of scripts of well-formed requests, any buffer and any    *)
(* keep-alive limit: the types; in particular no more is read than was     *)
(* sent, and every response has a status.                                  *)
(***************************************************************************)
THEOREM TypeCorrect == Spec => []TypeOK
<1>1. Reading => TypeOK
  <2> SUFFICES ASSUME Reading PROVE TypeOK
    OBVIOUS
  <2>1. /\ script \in Scripts /\ Len(Wire) \in Nat
        /\ sent \in Nat /\ recvd \in Nat /\ recvd <= sent /\ sent <= Len(Wire)
    BY ScriptTypes DEF Reading, IInv, Types, Typed
  <2>2. sent \in 0..Len(Wire) /\ recvd \in 0..sent
    BY <2>1
  <2>3. status \in {0, 200, 400, 405, 408, 411}
    BY DEF Reading, Typed, Statuses
  <2>4. answers \in Seq({200, 400, 405, 408, 411})
    BY DEF Reading, Typed, Statuses
  <2>5. lockstep \in BOOLEAN /\ buffer \in Seq(1..recvd)
    BY DEF Reading, Typed
  <2>6. /\ bufferpos \in Nat /\ p \in Nat /\ bytesRead \in Nat
        /\ consumed \in Nat /\ request \in Sessions
        /\ pc \in {"wait", "header", "handle", "body", "refill", "respond",
                   "done"}
    BY DEF Reading, IInv, Types
  <2>7. QED
    BY <2>1, <2>2, <2>3, <2>4, <2>5, <2>6 DEF TypeOK, Sessions
<1>2. QED
  BY <1>1, ReadingInvariant, PTL

(***************************************************************************)
(* However requests are cut into pieces, folded or refused: a connection   *)
(* is kept alive only when the request before has been read to its end.    *)
(***************************************************************************)
THEOREM NextRequestFromItsStart == Spec => []KeepAliveAtBoundary
<1>1. Reading => KeepAliveAtBoundary
  BY DEF Reading, BoundaryOK, KeepAliveAtBoundary
<1>2. QED
  BY <1>1, ReadingInvariant, PTL

-----------------------------------------------------------------------------
(* Refinement *)

(* The response to a request: the abstract step of the same name.          *)
LEMMA RespondImplements == ASSUME Reading, Respond PROVE Exchange!Respond
<1>1. /\ pc = "respond" /\ answers' = Append(answers, status)
      /\ pc' = IF HTTPKeepalive THEN "wait" ELSE "done"
  BY DEF Respond
<1>2. status \in Statuses /\ answers \in Seq(Statuses) /\ Len(answers) \in Nat
  BY <1>1 DEF Reading, Typed
<1>3. /\ Len(answers') = Len(answers) + 1 /\ answers' # <<>>
      /\ Last(answers') = status
  <2> DEFINE new == Append(answers, status)
  <2>1. Len(new) = Len(answers) + 1 /\ new[Len(answers) + 1] = status
    BY <1>2
  <2>2. Len(new) # 0
    BY <1>2, <2>1
  <2> HIDE DEF new
  <2>3. new # <<>> /\ new[Len(new)] = status
    BY <2>1, <2>2
  <2>4. QED
    BY <1>1, <2>1, <2>3 DEF Last, new
<1>4. BetweenRequests' /\ ~BetweenRequests
  BY <1>1 DEF BetweenRequests
<1>5. status \in 200..599
  BY <1>2 DEF Statuses
<1>6. (pc' # "done") => status < 400 /\ Len(answers') < KeepaliveMaxConn
  BY <1>1, <1>2, <1>3, KeepaliveAssumption DEF HTTPKeepalive, LastReqOnConn
<1>7. /\ Exchange!Respond <=>
            /\ Len(answers) + 1 = Len(answers) + 1
            /\ Len(answers') = Len(answers) + 1
            /\ status \in 200..599
            /\ (pc' # "done") \in
                   {b \in BOOLEAN : b => status < 400
                                        /\ Len(answers') < KeepaliveMaxConn}
            /\ Len(answers') = Len(answers) + 1
  BY <1>2, <1>3, <1>4 DEF Exchange!Respond
<1>8. QED
  BY <1>2, <1>3, <1>4, <1>5, <1>6, <1>7

(* Every other step begins a request, gives up, or is not seen outside.    *)
LEMMA StepImplements ==
    ASSUME Reading, [Next]_vars PROVE [Exchange!Next]_(Exchange!vars)
<1>0. Len(answers) \in Nat
  BY DEF Reading, Typed
<1>1. CASE Respond
  BY <1>1, RespondImplements DEF Exchange!Next
<1>2. CASE WaitReads
  <2>1. pc = "wait" /\ pc' = "header" /\ answers' = answers
    BY <1>2 DEF WaitReads
  <2>2. Exchange!Ask
    BY <1>0, <2>1 DEF Exchange!Ask, Exchange!Idle, BetweenRequests
  <2>3. QED
    BY <2>2 DEF Exchange!Next
<1>3. CASE WaitGivesUp
  <2>1. pc = "wait" /\ pc' = "done" /\ answers' = answers
    BY <1>3 DEF WaitGivesUp
  <2>2. Exchange!Close
    BY <1>0, <2>1 DEF Exchange!Close, Exchange!Idle, BetweenRequests
  <2>3. QED
    BY <2>2 DEF Exchange!Next
<1>4. CASE answers' = answers /\ BetweenRequests' = BetweenRequests
           /\ (pc' = "done") = (pc = "done")
  BY <1>4 DEF Exchange!vars
<1>5. CASE \/ HeaderReads \/ HeaderTimesOut \/ HeaderContinues
           \/ HeaderComplete \/ Handle \/ BodyTakes \/ RefillReads
           \/ RefillTimesOut
  <2>1. /\ answers' = answers
        /\ pc \notin {"wait", "done"} /\ pc' \notin {"wait", "done"}
    <3>1. CASE HeaderReads \/ HeaderTimesOut \/ HeaderContinues
      BY <3>1 DEF HeaderReads, HeaderTimesOut, HeaderContinues
    <3>2. CASE HeaderComplete
      BY <3>2, LineStatus DEF HeaderComplete
    <3>3. CASE Handle
      BY <3>3 DEF Handle
    <3>4. CASE BodyTakes
      BY <3>4 DEF BodyTakes
    <3>5. CASE RefillReads \/ RefillTimesOut
      BY <3>5 DEF RefillReads, RefillTimesOut
    <3>6. QED
      BY <1>5, <3>1, <3>2, <3>3, <3>4, <3>5
  <2>2. QED
    BY <1>4, <2>1 DEF BetweenRequests
<1>6. CASE Client \/ UNCHANGED vars
  <2>1. answers' = answers /\ pc' = pc
    BY <1>6 DEF Client, Send, vars
  <2>2. QED
    BY <1>4, <2>1 DEF BetweenRequests
<1>7. QED
  BY <1>1, <1>2, <1>3, <1>5, <1>6 DEF Next, Job, Terminated

(***************************************************************************)
(* The job of a connection implements the exchange of requests and         *)
(* responses, step by step: one response to each request begun, errors and *)
(* the last response allowed end it.                                       *)
(***************************************************************************)
THEOREM Refinement == Spec => Exchange!Spec
<1>1. Init => Exchange!Init
  <2> SUFFICES ASSUME Init PROVE Exchange!Init
    OBVIOUS
  <2>1. answers = <<>> /\ pc = "wait" /\ Len(<<>>) = 0
    BY DEF Init
  <2>2. QED
    BY <2>1 DEF Exchange!Init, BetweenRequests
<1>2. Reading /\ [Next]_vars => [Exchange!Next]_(Exchange!vars)
  BY StepImplements
<1>3. QED
  BY <1>1, <1>2, ReadingInvariant, PTL DEF Spec, Exchange!Spec
=============================================================================

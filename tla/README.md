# Verification of orgatags

orgatags reads news feeds in a PHP web front end and sends the items by
XML-RPC to a server program written in C on a modified copy of xmlrpc-c
1.06.11; a naive Bayes estimator in C++ is to classify them.  This directory
holds TLA+ models of the parts that keep state and can go wrong in many ways, TLC
configurations that check them on small instances, and TLAPS proofs.

`A/` below stands for `src/servidor xmlrpc/xmlrpc-c-1.06.11/lib/abyss/src/`,
`X/` for `src/servidor xmlrpc/xmlrpc-c-1.06.11/`.

## 1. Inventory

| Component | Where | State it keeps | Operations | Hard behaviour |
|---|---|---|---|---|
| Abyss connection manager | `A/server.c`, `A/conn.c`, `A/thread_pthread.c`, `A/socket*.c` | termination flag, list of outstanding connections and its count, descriptors with their threads and sockets | ServerRun, ServerTerminate, ServerResetTerminate, ServerFree; accept, create, list, scan, join, wait | one thread per connection that finishes at any time; failed creation; capacity; shutdown |
| Abyss connection job | `A/server.c` serverFunc, `A/conn.c`, `A/http.c` RequestRead, `A/session.c` | read buffer and its indexes, the session, the number of requests served | read request line, headers and body; keep-alive | bytes that come in any pieces, deadlines, pipelining, a fixed buffer |
| Abyss session | `A/http.c`, `A/response.c`, `A/server.c` handlers, default file handler | status, responseStarted, chunking, header tables, handler list | runUserHandler, ResponseWriteStart, ResponseError, HTTPWriteEndChunk | handlers that forget a step; framing on kept-alive connections |
| XML-RPC server on Abyss | `X/src/xmlrpc_server_abyss.c` | URI handler, signal handlers, registry | handleXmlrpcReq, processCall, server set-up | refusals before the body is read; timeouts in the body; shutdown by RPC (disabled in this version) |
| Registry and dispatch | `X/src/registry.c`, `X/src/system_method.c` | method table, default and preinvoke methods, introspection switch | add method, dispatch call, the system methods, system.multicall, free | replaced entries, faults in the middle of a signature or a multicall, several threads on uncounted references |
| XML-RPC values | `X/src/xmlrpc_data.c`, `_array.c`, `_struct.c`, `_builddecomp.c` | reference counts | INCREF, DECREF, build, decompose | shared values, cleanup after a fault in the middle, counts without a lock |
| Parsing and serialising | `X/src/xmlrpc_parse.c`, `_expat.c`, `_serialize.c`, `_utf8.c`, `_base64.c`, `_datetime.c` | none between calls; during one the element tree and the values half made | parse call, response and fault; conversions | documents wrong anywhere, nesting limits, memory that runs out in the middle |
| Client library | `X/src/xmlrpc_client.c`, `xmlrpc_client_global.c` | the client, a record per call, parameter arrays | six interfaces that start an asynchronous call, waiting for the calls, synchronous call | a handler called from inside the start function, handlers that start calls, who frees a record |
| Client transports | `X/lib/libwww_transport`, `X/lib/curl_transport` | calls under way, libwww's counter, curl's transfers and messages | start, complete, wait with and without a time limit | the event loop is shared by synchronous and asynchronous calls, and stopped from inside |
| Threads by fork | `A/thread_fork.c` | pool of child processes | SIGCHLD handling, polling | not in the configured build; it defines `ThreadUpdateStatus` twice and does not compile |
| Data structures | `A/data.c`, `A/token.c` | lists, tables, pools, strings | add, find, tokenise | 16-bit sizes |
| Configuration, files, dates, trace, main | `A/conf.c` ... | | | input and output only |
| Server program | `X/examples/xmlrpc_sample_add_server.c` | | method `sample.add`, started on a port with a log file | its method takes one string |
| Web front end | `src/interface grafica/*.php` | none between requests | load feed, build message, send, show | sends one array to `sample.add`; leaves with `exit` before it redirects |
| Front-end libraries | `src/interface grafica/SimplePie`, `xmlrpc` | | | vendored |
| Naive Bayes training | `src/nbayes implementacion/nbetrain.cpp`, `*AbstractionSet.cpp` | the current and the best model, training and hold-out data | add clusters, EM, prune, keep the best, go back to it | what belongs to a model when it is assigned, data used up, likelihoods that are no numbers, loops that end by likelihood |
| Naive Bayes queries, tests, samples | `src/nbayes implementacion` | none between answers | inference, scoring | floating point |

How they interact: the front end's client connects to the server program's
port; the connection manager's master thread accepts the socket and gives it
to a connection thread; the thread's job reads requests from the socket
through the connection's buffer, and for each request calls the URI handlers
from the last one added to the first, then the default handler; the XML-RPC
handler reads the body through the session, calls the registry, which calls the
method, and writes the response.  The threads share the server structure
(handlers, log with its lock, parameters) and each descriptor is shared by its
thread and the master, with the flag `finished` between them.

What makes each correct, in a sentence: the connection manager loses neither a
thread nor a socket and gets rid of both; a connection's reader neither loses
nor moves a byte and always ends; a client can tell each response from the next
one; an asynchronous call is handled once and its record freed once; the
registry's reference counts are exact after any sequence of operations; the
parser yields what the document means or a fault, and nothing else is left
over; the training never measures a model by the examples it was made of, and
ends.  For the parts that are not modelled: two threads do not open the same
log; what the front end sends is what the server's method takes.

The hazards, each at its line and with the properties that cover it, are in
`PROJECT.json`.

## 2. Plan

The order is that of importance to the running system.  Done: 1-4, 6-8, and
the training.

1. `ConnectionPool`, the abstract specification of the connection manager.
2. `AbyssServer`, the connection manager, with `AbyssServer_proofs`.
3. `AbyssConn`, the job of one connection.
4. `HttpExchange`, the abstract specification of what a client sees on a
   connection, implemented by `AbyssConn` and by `AbyssSession`: responses, the
   handler chain, chunking, the default handler for files and directories,
   with `AbyssSession_proofs`.
5. `AbyssConn_proofs`: the arithmetic of the read buffer, the place in the
   script, the refinement.
6. `MethodRegistry`: registration, dispatch and system methods on the counted
   values they are made of; `XmlRpcGrammar` and `XmlRpcParser`: documents and
   the values they become, both on `ReferenceCounts`; `MethodRegistry_proofs`:
   the balance of the references, for a single thread; `XmlRpcParser_proofs`:
   the tree of elements, the references while a document is converted, and that
   what comes out is what the document means.
7. `AsyncCalls` and `AsyncClient`: what the asynchronous interface promises, and
   the library and its transports, with `AsyncClient_proofs`.
8. `NbeTrain`, the training loop, with `NbeTrain_proofs`.

Left, in this order:

* `AbyssRunOnce`: the foreground way of serving (ServerRunOnce, ServerRunConn)
  and its lasting effect on `keepalivemaxconn`.
* `AbyssLog`: the log file that connection threads open outside of its lock.
* `FrontEnd`: one feed loaded, sent and answered, end to end.  The front end
  sends the items as one array, `sample.add` takes one string.
* Serialising and the scalar conversions (`_utf8.c`, `_base64.c`,
  `_datetime.c`), with parsing as their inverse.
* Algorithms against reference definitions: list growth, MIME table, header
  table, `RequestValidURIPath`, `RangeDecode`.

## 3. Modules

**`ConnectionPool`** says what a connection manager promises: at most `Limit`
workers are taken; a connection waits for a worker, is served by exactly one,
is closed once, and the worker becomes free again; the pool stops only when
nothing waits and nothing is served.

**`AbyssServer`** models `serverRun2` and all it calls in the build this
repository configures (`ENABLE_ABYSS_THREADS=yes`, `thread_pthread.c`).

* The master thread is a program counter `pc` over the steps of `serverRun2`:
  the loop test (`while`), `SocketAccept` (`accept`), `freeFinishedConns`
  (`scan`, and `join` inside `ConnWaitAndRelease`), the two waiting loops
  (`capacity`, `drain`), `ConnCreate` (`create`), `addToOutstandingConnList`
  (`add`).  `caller` remembers who called `freeFinishedConns`; `unvisited`
  stands for the list pointer `pp`; `current` is the local `connectionP`.
* Each descriptor has `finished`, `socketP` and its thread: `job`, `exiting`
  (the job is over and `finished` set, the cleanup handler not yet run),
  `exited` (the cleanup handler has destroyed the socket), `none` (joined).
* The list is a set: a scan visits every element once, in an order nothing
  depends on.  Addresses are reused: a descriptor that was freed can be
  allocated again, as can a socket.
* `ConnCreate` has three outcomes; the failing ones are those of the code,
  including the descriptor that is not freed.
* Signals are covered by `AcceptNothing` (accept is interrupted) and by
  `ServerTerminate`, which may happen at any time.  The two-second sleep of the
  waiting loops changes nothing and is not a step.

**`AbyssConn`** models `serverFunc` on one connection: `ConnRead`,
`ConnReadInit`, `ConnReadHeader` with `processHeaderLine`, `RequestRead`, the
XML-RPC handler's checks, `getBody` with `SessionRefillBuffer`, and the
decision to keep the connection alive.  A byte is what the reader makes of it:
a line delimiter, a blank that continues a line, a body byte, or one byte for
the text of a header line.  Bytes are identified by their position in the
client's stream, so the model knows whether one is lost, repeated or moved.
The client sends a script of requests in pieces of any size.  Deadlines are
abstracted: a wait can end without data only while nothing is at the socket,
and a loop that cannot progress ends by its deadline.  `recv` does not fail
right after FIONREAD has reported data, and the client takes its responses.
The repository's server lets a POST on its URI path through; anything else
that is complete is answered with its error status.  A bad Content-length (400)
and a call that cannot be carried out (500) are left to `AbyssSession`.

**`HttpExchange`** says what the client of one connection may rely on: its
requests are answered one at a time, each by one response that it can tell from
the next one, and the connection ends after an error or the last request
allowed.  `AbyssConn` implements it with what it has read, `AbyssSession` with
what the client has made of the bytes sent.

**`AbyssSession`** starts where `RequestRead` returns and models all that is
written to the connection.

* The session record is the `TSession`; the response functions
  (`ResponseWriteStart`, `HTTPWriteEndChunk`, ...) are operators from a session
  to the session after the call, and `sent` is what they have written: a head
  with the fields that matter (status, length, chunked, keep-alive), data,
  chunks, the final chunk, with their sizes.
* `pc` follows `processDataFromClient`: `Refuse` and `RunUserHandler`, the loop
  of `runUserHandler` (`NextHandler`, `HandleXmlrpcReq`, `DefaultHandler`), and
  `Finish`, which ends chunks or calls `ResponseError` and decides on
  keep-alive.
* The default handler is either that of the XML-RPC server (404) or
  `ServerDefaultHandlerFunc`, with the file handler in four steps: look
  (`DefaultStats`), open (`FileOpens`), measure and send the head
  (`FileFields`), send each part (`SendPart`).  Between them other programs may
  move the file and make it grow.
* Two values the code leaves to chance are choices: the version of a request
  line without one, which is what was on the stack, and the strings of the
  list of ranges, which are in memory that was freed.
* The client parses the stream as RFC 2616, section 4.4, says, and reads it
  when the server has finished a request: nothing the server writes depends on
  when it is read.

**`AsyncCalls`** says what the asynchronous interface promises to a program: a
call is refused, or its response handler is called once; a wait without a time
limit ends with no call open but those that handlers have started meanwhile.

**`AsyncClient`** models the client library (`xmlrpc_client.c` and the global
client of `xmlrpc_client_global.c`) over libwww or over curl.

* There is one thread.  `where` is what the program is in: no client, its own
  code, one of the two waits or a synchronous call.  `stack` holds the calls
  whose handlers run: a handler can start calls, and a call that fails at once
  runs its handler from inside the start function.
* `Start(c, a)` is a start function of interface `a`, from making the record to
  giving the request to the transport, with each of its failures.  A record
  (`info`) and the references to the parameter array (`refs`) are counted, so
  that a double free or a leak is visible.
* libwww: `RequestEnds` is a request's completion, which lowers the counter and
  tells the loop to stop at zero *before* the handler runs; `TimerFires` is the
  time limit; a synchronous call runs the same loop.
* curl: one turn of the loop is `CurlPerform`, `CurlMessage` for each transfer
  that is over, and `CurlTurn`, which decides with the number of running
  transfers that `CurlPerform` has returned.

**`MethodRegistry`** models `registry.c` and `system_method.c` on a heap of
counted values.  An operation is the list of steps it takes on the heap, in the
order of the code (make, append, add or replace a member, count up, count down);
a thread takes one step at a time, and counting is a load and a store.  A value
is named by what it was made for and a number, which tells the entry of a method
that is there from the one that replaces it.  So the sequential run checks the
balance of every path, and the run with two threads what their interleaving does
to it.

**`XmlRpcGrammar`** defines the documents that have a meaning, and the meaning,
from the grammar in the comment at the top of `xmlrpc_parse.c` together with
what the code requires of each element.  Documents are made of the constant
`Elements`, which is closed under taking children; what an element means is
a function of the nesting allowed.
**`XmlRpcParser`** goes through the code.  expat's events build the tree of
elements (`startElement`, `endElement`, `characterData`); what is still to come
is the stack `reading`, the unread text and children of each open element.  Then
the conversion functions turn the tree into values, with a stack `frames` for
the recursion and a count for each value.  `releasing` is what `xmlrpc_DECREF`
has still to count down: a value that is destroyed puts what it holds in front.
At any event expat may find an error, at any place in `Scarce` an allocation may
fail.  A document has a length besides its elements: one beyond `SizeLimit` is
refused before expat sees it (`TooLarge`).
**`ReferenceCounts`** has the heap of values, with what allocating and freeing does
to it, and counts where the values are referred to from; the parser uses the
former, and the registry and the parser the latter.

**`NbeTrain`** models `main` of nbetrain with what it calls of the model:
`pc` follows its nested loops (split the data, load clusters, measure them, EM
steps, prune, keep or restore, write).  A model is its set of clusters and the
state of its weights; `taken` and `bestAsMeasured` are history.  A likelihood is a
level that a model may turn out to have: any, but an undefined one exactly when
the weights are undefined.  The thresholds on its growth are numbers of levels.

**`MCAbyssConn`**, **`MCAbyssSession`**, **`MCAsyncClient`**,
**`MCMethodRegistry`**, **`MCXmlRpcParser`**, **`MCNbeTrain`** give the
constants their values; `AbyssServer` needs none but model values.
**`AbyssServer_proofs`**, **`AbyssConn_proofs`**, **`AbyssSession_proofs`**,
**`MethodRegistry_proofs`**, **`XmlRpcParser_proofs`**,
**`AsyncClient_proofs`**, **`NbeTrain_proofs`** hold the theorems,
**`CommonLemmas`** what they need to know of sequences and of heaps of values.

Operators named `Mutant...` are wrong versions of the definition after them,
the way a bug in that code would make it; each breaks one property and shows
that the property speaks about the code.

## 4. Runs

| Run | Specification and bounds | Checks |
|---|---|---|
| `server_threads` | `AbyssServer!FairSpec`, 3 descriptors, 3 sockets, `MaxConn` 2 | `TypeOK`, `CountExact`, `ThreadsTracked`, `SocketsOwned`, `JoinIsShort`, `SocketsClosed`, `ReturnsUnlessBlocked`, `FinishedReclaimed`, `ImplementsPool` |
| `conn_pieces` | `FairSpec`, nine scripts, `BufferSize` 13, three requests per connection | `TypeOK`, `IndexesInBounds`, `StreamIntact`, `KeepAliveAtBoundary`, `JobReturns`, `ImplementsExchange`, `SentAnswered` |
| `conn_readmore` | as `conn_pieces` | `ReadsMoreBeforeGivingUp`, which fails |
| `session_rpc` | `FairSpec`, two XML-RPC handlers, one of which chunks, and the 404 handler; three requests per connection | `TypeOK`, `OneHead`, `ConnectionAsAnnounced`, `ImplementsExchange` |
| `session_files` | `FairSpec`, the default handler; a file of up to two bytes, directories with and without a default file; three requests per connection; offsets modulo 16 | `ResponsesDelimited`, `FileClosed` |
| `client_calls` | `FairSpec`, three calls, libwww and curl; one call through any of the six interfaces, one through the two that report failures by the handler, one plain | `TypeOK`, `HandledOnce`, `CountExact`, `ParamsAlive`, `LeaksExplained`, `WaitsEnd`, `ImplementsCalls` |
| `client_finish` | `FairSpec`, three plain calls, libwww | `FinishCompletesAll`, which fails |
| `registry_calls` | one thread, one method with five signature strings, nine requests | `TypeOK`, `NothingDangling`, `RefsExact`, `FreedWhole` |
| `registry_threads` | two threads, one request | `NothingDangling`, which fails |
| `parser_documents` | `NestingLimit` 3; eleven good documents, at the size limit and over it, every one with one element wrong, arrays as deep as the limit allows and one deeper; memory runs out at six kinds of place | `TypeOK`, `NothingLost`, `MeansTheDocument` |
| `nbe_train` | `FairSpec`, four examples and one row of hold-out data, likelihoods from 0 to 4, 30 command lines | `TypeOK`, `DataAccounted`, `BadEndsExplained`, `TrainingEnds` |
| `nbe_restore` | as `nbe_train` | `RestoredAsMeasured`, which fails |

Why the bounds are enough.

*Server.*  With one descriptor and one socket more than `MaxConn`, the master
meets a full list, a list that holds finished and unfinished connections, a
socket that waits with the master, descriptors and sockets that are reused, and
memory that has run out because earlier failures lost it.  For larger sets there
are the theorems of section 6.

*Connection.*  The buffer holds one request and a part of the next, so that
compaction moves data, bodies are refilled, a pipelined request is split at
every place, and one header does not fit at all.  Some of the scripts go on
after a request that must be the last one: an error, `Connection: close`, the
limit on requests.

*Session.*  Three requests are one more than it takes for a response to be
mistaken for a part of the one before, and the limit on requests still ends the
connection.  Each choice of `RequestRead`, of the handlers and of the response
functions has a request that takes it and one that does not.  A file of two
bytes can be empty, have one range inside it, and several; modulo 16 keeps
offsets that have wrapped around apart from real ones, as 2^64 does.
The requests of `session_files` are those the default handler answers so that a
client can follow; the others are listed below.

*Client.*  Three calls are what it takes for a handler to start a call while
another is outstanding, and for handlers to nest in each other.  Every failure
of every interface happens with calls under way and without.

*Registry.*  A single user method, registered twice, with none, one or two
signatures or with a bad first or second one, takes every path of registration.
The requests take each path of dispatch, and a multicall with calls that
succeed, fail and are not allowed.  The operations of the registry come in any
order, as often as one likes.

*Parser.*  The wrong documents come from the good ones by renaming, removing,
repeating or adding one element, or by text that no type takes: each check of
`xmlrpc_parse.c` has a document that only it refuses.  All have a length at the
size limit, the good ones also a byte more, which must be refused as
`test_xml_size_limit` (`X/src/test/test.c:343`) expects.

*Training.*  Of four examples some are held out, one is taken for each cluster,
all can be used up, and some are left to be restored.  Five levels allow more
than one improvement that counts, and some that do not.  `-i` is 0, 1, 2 and 6,
more than there are examples; `-wf` is 0 to 3.

What the failing runs show:

* `conn_readmore`: the comment in `processHeaderLine` (`A/conn.c:487`) says
  that for a line whose end or continuation is not yet in the buffer the
  reader "must read more".  `ConnReadHeader` reads only when its cursor has
  used up the buffer, so it looks at the same bytes until the deadline and
  the request is answered 408 although the rest has arrived.  `SentAnswered`
  shows the case in which the code is right: requests that arrive in one piece.
* `client_finish`: the transports decide that nothing is outstanding before they
  call the handler of the last call
  (`X/lib/libwww_transport/xmlrpc_libwww_transport.c:713`, and
  `doCurlWork` of the curl transport).  A call which that handler starts is left
  behind by `xmlrpc_client_event_loop_finish`, whose comment promises to finish
  all calls.  `ImplementsCalls` says what is true: only such calls are left.
* `registry_threads`: dispatching a call uses `xmlrpc_array_get_item`, which
  takes and gives back a reference.  Counts have no lock, and connection threads
  share the registry: two of them can destroy the entry of a method.  The
  comments in `registry.c:69` and `system_method.c:573` take that function to
  be safe.  The configured build has threads (`ENABLE_ABYSS_THREADS=yes`).
* `nbe_restore`: assigning a model (`AbsVarAbstractionSet.cpp:146`) copies its
  clusters and resets their weights to equal ones.  The best model that is
  kept, and the one that is gone back to, is not the one whose likelihood was
  the best.  With `-i10 -r1` on `iris-1` the likelihoods are -5.401 and -5.485.

What modelling has shown besides; none of these has a run, for each is one path of
the code:

* `serverRun2` tests the termination flag before it accepts, so that one more
  connection is served, and without one the server stays; the comment at
  `A/server.h:15` says otherwise.  `ReturnsUnlessBlocked` is what holds.
* `ResponsesDelimited` fails for the sets of requests that `MCAbyssSession` names
  beside those of the run: `OptionsRequests` (an error document follows the
  answer, `A/server.c:562`), `HeadRequests` (a final chunk follows the answer to
  HEAD of a directory, 399), `RedirectRequests` (a 302 without a length, 612) and
  `LongRangeRequests` (a range beyond the end of the file is announced with its
  full length, 515).  Several ranges and listings to clients of HTTP/1.0 have no
  length either.
* The strings of the list of ranges are in memory that was freed
  (`A/data.c:190`), and the directory handler asks for "If-Modified-Since" in
  a table whose names are in lower case (`A/server.c:360`).
* In the parser, when there is no room for a child element
  `xml_element_append_child` (`X/src/xmlrpc_expat.c:205-220`) frees it and
  `startElement` (274) frees it again; when there is no room for text the
  tree stays; a value whose memory block cannot be made is freed, returned and
  counted down (by all but `convertBase64`); and an array that there is no memory
  for is counted down as well, by `getArray` (`X/src/xmlrpc_builddecomp.c:215`),
  though it is NULL.  The run leaves these four places out of `Scarce`; there
  `misused` says that memory was used that must not be.
* In nbetrain `-wf` with hold-out data is not "exactly that number" of steps,
  `-wf0` does not stop before the counter has gone through all negative
  numbers, and with no more training rows than clusters EM runs on no data and
  makes undefined weights.  `BadEndsExplained` says when.

## 5. Fairness

`AbyssServer!FairSpec` assumes that the operating system schedules the master
and every connection thread, and that a job returns.  The second is
justified by `AbyssConn!JobReturns`: every wait for the client's bytes has a
deadline, however the client behaves.  Two things it does not cover are
assumptions: a client that keeps its connection open takes the responses sent
to it (`socketWrite` has no deadline), and a method called by the registry
returns.  No fairness is assumed of accept, of clients or of those who request
termination.  `AbyssConn!FairSpec` assumes that the connection's thread is
scheduled and that time passes; the client owes nothing.
`AbyssSession!FairSpec` assumes that the thread is scheduled (`Server`) and that
the client reads what was sent (`ClientReads`), the assumption named above; it
need not ask anything.

`AsyncClient!FairSpec` assumes that handlers return, that libwww's requests end
(it has time limits of its own), that the timer fires and that the loops take
their turns.  For curl the end of some running transfer is strongly fair: the
loop polls, and a transfer may be over at some of the polls only.  The program
owes nothing: it need not start a call nor wait.

`NbeTrain!FairSpec` is weak fairness of the whole: one process that nothing
blocks.  `TrainingEnds` is about trainings with hold-out data, where the
likelihood has to grow and is bounded, or with a positive count; without both
the code has no end of its own, and EM goes on as long as the weights move.

## 6. Proofs

`AbyssServer_proofs` proves, for every set of descriptors and of sockets and
every positive `MaxConn`, assuming only that the null values are not members
of the sets, each invariant of `server_threads`, that there are never more
than `MaxConn` threads (`AtMostMaxConn`), that nothing is left running or open
outside `serverRun2` (`QuietWhenIdle`), that only a failing `ConnCreate` loses a
descriptor (`LossesExplained`), and that `Spec` implements
`ConnectionPool!Spec` under the refinement mapping of `AbyssServer`.

No single property is inductive.  The limit counts threads, but the
code counts list elements: one needs that the threads are exactly the listed
connections and the one in the master's hand (`ThreadsTracked`), that the count
is exact, and that there is room whenever a connection is off the list
(`ListInv`).  `JoinIsShort` needs that `finished` tells how far a thread has
got, hence that recycled descriptors are reset.  `SocketsOwned` needs to
know when the master holds a socket (`MasterInv`).  `InductiveInv` is the
conjunction of these parts; `StepInductive` has one step per action and under
it one per part.  `LossesExplained` is an action property and uses the
invariant to show that `current` is null where a descriptor is taken off the
list.  `Refinement` maps each action to one of the pool's or to a stutter.

`AbyssConn_proofs` proves, for every set of scripts, every buffer size and every
keep-alive limit, each invariant of `conn_pieces` (`TypeOK`, `IndexesInBounds`,
`StreamIntact`, `KeepAliveAtBoundary`) and that `Spec` implements
`HttpExchange!Spec`.  The scripts are sequences of requests, the requests of
lines as a client may write them (`ScriptsAssumption`).  There are two
invariants.

* `IInv`, the arithmetic: the cursor is between the position and the end while
  a header is read (`CursorOK`), one byte is kept free for the NUL
  (`BufferOK`), and a body is never read beyond its length (`BodyOK`).
* `Reading`, the place in the script: before the k-th request as many bytes were
  handed out as the requests before it have (`BoundaryOK`), and within it the
  reader is at the start of a line of the header or has a part of the body
  (`PlaceOK`).  The script is flattened by a fold.  `CommonLemmas` says what that
  makes of the places of its parts: `FlattenPlaces`, by induction for a set of
  numbers (`NatSetInduction`, from a least counterexample), as theorems
  with an operator for a parameter cannot be used.

`AbyssSession_proofs` proves, for every set of requests, chain of handlers and
file and every limit on requests, `TypeOK`, `OneHead` (`ResponsesBegunOnce`) and
`ConnectionAsAnnounced` (`AnnouncementKept`).  `OneHead` says that the assertions
of the response functions and of `processDataFromClient` hold.  It is not
inductive: the handlers' steps need to know that nothing was sent before them
(`Fresh`), the file handler's that its head was (`Started`), and each of them
leaves a status (`Ended`); `HeadInv` says at which `pc` which of these holds.
`Started` also says that the head announces the decision the session still leads
to, which gives the second theorem.  Each response function has a lemma about
what it does to these predicates.  The types rest on `TurnInv`: all functions
leave the version, `keepalive` and `denied` alone (`Follows`), and `denied`
says exactly whether the request is the last one allowed.

The second part of `AbyssSession_proofs` is what the client makes of the responses:
`ResponsesDelimited` (`ClientFollows`) and that `Spec` implements
`HttpExchange!Spec`; and `FileClosed`.  The first two have the hypothesis
`Followed`: nothing for a server of XML-RPC calls; for one that serves files,
that nobody shortens them, and that its requests are `Followable`, which names
those whose answers have no end that a client could know (section 4).
`MCAbyssSession` assumes it of the requests of `session_files`, so TLC evaluates
it.  There are two invariants.

* `AnswerInv`, about the server: before its head a response is a status that
  refuses; what the file handler has begun is a head alone, a response that ends
  with the connection, or the whole file as it was when its length was announced;
  and what is finished has an end that the client can tell (`Complete`,
  `EndsWell`): by a length that the body has, by chunks that end, by having no
  body, or by being the last one.
* `ClientInv`, about the client: it expects a head, and the stream is a
  response that ends well (`Delimited`), or it has read the head and what
  remains is the rest of one (`Behind`).  `HeadRead`, `RestRead` and
  `AllIsRead` go through the client's parsing once.

`AsyncClient_proofs` proves, for every finite set of calls and every choice of
interfaces, `TypeOK`, `HandledOnce`, `CountExact`, `ParamsAlive`,
`LeaksExplained`, and that `Spec` implements `AsyncCalls!Spec`.  The invariant
gives an account of each call's record and references by what has become of the
call (`InfoBalance`, `RefsBalance`), says that the handlers on the stack
are those of different calls that have ended or failed (`StackOK`), and what
curl's messages and running transfers, and libwww's order to stop, say of the
calls that are left; the last is what the end of a wait needs.

`NbeTrain_proofs` proves, for all data, command lines, thresholds and
likelihoods, `TypeOK`, `DataAccounted`, `BadEndsExplained`, and that new clusters
are never the best model before an EM step (`NewClustersNotSaved`: lines 466-472 of
nbetrain.cpp do nothing).  That no undefined model is kept rests on the order of
the likelihoods of model, round and best model (`LevelsOK`), and the
absence of divisions by zero on the training data not being used up in what a
round goes back to (`DataLeft`).

`MethodRegistry_proofs` proves, for one thread and for every set of methods,
signature strings and requests, all four invariants of `registry_calls`:
`TypeOK`, `NothingDangling`, `RefsExact` and `FreedWhole`.  So they do not depend
on how many methods are registered, replaced or listed, nor on the length of a
multicall or of a list of signatures.  The hypothesis is that there is one
thread: with two, `registry_threads` shows that `NothingDangling` fails.

In the middle of an operation a count differs from the number of pointers, by
what the steps still to come will do.  The list of these steps is fixed when the
operation begins, so the proof runs it beforehand, on a *heap* that knows less
than the state: how many references the operation itself has to each value
(`own`), what the values of the registry hold (`items`) and which pointers of
the registry will be overwritten (`stale`).

* `Does` says what each step needs and does on a heap, and `Run` what a list
  does.  `RunCat` and `RunFlatten` put lists together, the latter by
  induction for the number of lists.  For each operator that makes a list there
  is a lemma of what it does (`SignaturesRuns`, `SetNewRuns`,
  `ListMethodsAnswers`, `MulticallAnswers`, `ProcessCallRuns` and so on).
* `Agrees` relates the state to a heap: each count is the number of pointers to
  the value plus the references the operation has.
* `Settled` and `Rest` give the shape of a registry at rest: no references of an
  operation are left, and the counts are the pointers.  `_methods` is a list of
  keys and infos under different names; an info has the parts that its
  lookup takes for granted.
* `IInv` says that the steps left run from a heap that agrees with the state to
  a settled one, but for the system methods that `xmlrpc_registry_new` has still
  to install, whose lists are made when their turn comes (`Going`), and that a
  count that was loaded is still right.  Each action on the heap has a lemma of
  its own (`IncStep`, `DestroyStep`, `ReplaceStep` and so on).  That destroying
  a value adds to the list the steps that release its contents is the hard one:
  the value's references to them become the operation's (`RunReleased`).

TLC cannot evaluate `IInv`, which asks whether a run exists; it was found from
the four properties and from the shape of the states of `registry_calls`.

`XmlRpcParser_proofs` proves, for all documents, both limits and wherever
memory runs out, `TypeOK` and `MeansTheDocument`; and `NothingLost`, if memory
does not run out at the four places of section 4 that the code does not clean
up after (`Sloppy`).  There are four invariants.

* `TreeInv`, the tree.  Elements are numbered as they start, so a parent comes
  before its children (`IsTree`).  Each is a copy of an element of the
  document, but for the text and the children that are still to be read
  (`Copies`); the open ones are a path from the root that goes along with
  `reading` (`Building`).  What is copied to what is a function that the
  invariant says exists.  That `xml_element_free` of the root frees all elements
  (`SubtreeIsAll`) follows from the numbers: the fixed point of n steps down
  has all n elements.
* `ValuesInv`, the references.  Each count is the number of places that hold the
  value, frames, returned value and what is being released included
  (`WellCounted`); what a frame makes is held by nobody else; and values are made
  before what holds them: of any set of values, one is held by none of the set
  (`Acyclic`).  Without that, values that hold each other could be left.  Each
  change of the heap has a lemma (`HeapNew`, `HeapRefilled`, `HeapDropped`, ...),
  each use of it in the conversion another (`SoundAppended`, `SoundReplaced`,
  `SoundFreed`, ...).  These know nothing of the parser's state and are in
  `CommonLemmas`.
* `MeaningInv`, what the values say, as long as memory has not run out.  The whole
  conversion has a goal: a meaning, and how deep it may be nested (`GoalIs`).  Each
  frame has made what the children before the one it is at mean, in a struct the
  last of those that have one name (`Halfway`), and makes what the frame below
  wants of the child that one is at (`Serves`).  What is returned is what was
  wanted (`Delivered`); and if a fault was found, what is wanted has no meaning
  (`Hopeless`), which is why a document that was read, with memory enough, is
  refused only if the grammar does not have it.
* `RefusalInv`, the other half: once memory has run out or expat has given up, a
  fault is on its way to the end, and nothing comes out; nor does anything of a
  document beyond the size limit.  With it `MeansTheDocument` needs no premise.

`Meaning` and `Says` are recursive functions on the depth.  `MeaningIs` and `SaysIs`
show that functions with these equations exist, by induction for a set of
numbers, and after them only the equations are used (`MeaningAt`, `SaysAt`).  A
change of the heap that leaves the kinds, the texts and what is held alone leaves
what the values say alone (`SaysSame`); so do releasing one
(`ReleaseSays`) and filling the array or struct of the last frame, for all other
values, as none of them holds it (`TopAlone`).  The steps of filling are `ArrayMore`,
`StructMore` and `StructOther`, the last for a member that replaces one of its
name.

Only model-checked: liveness (`SocketsClosed`, `ReturnsUnlessBlocked`,
`FinishedReclaimed`, `JobReturns`, `SentAnswered`, `WaitsEnd`, `TrainingEnds`)
and the fairness part of the refinements (`ImplementsPool`,
`ImplementsExchange`), which with ENABLED are beyond the prover;
and `MethodRegistry` with several threads.

## 7. Not modelled

In `AbyssServer`: the foreground and daemon ways of serving.  In
`AbyssSession`: a file that gets shorter while it is served (the constant
`Truncates`; what was announced could not be kept), read errors,
authentication, and handlers that are not in this repository.

In `AsyncClient`: the library's set-up and its counts, server information
(cookies, credentials), the wininet transport, which is not in the build, and
which descriptors `select` watches.  In `MethodRegistry`: failed allocations,
`xmlrpc_registry_set_shutdown` and what system.shutdown then calls, and values
taken apart into the caller's variables.  In `XmlRpcParser`: how a scalar's text
becomes a number, a date or bytes; serialising.  In `NbeTrain`: the arithmetic,
the inference of a schema, random restarts (nothing sets them), options with
negative values, and `-we0` and `-wa0`, which let a likelihood that no longer
grows count as growing (`LevelAssumption`).

Data that only passes through (file contents, dates), formatting, logging
and tracing; the Windows and forking builds (the latter does not compile); the
servers for CGI and http.sys; vendored libraries; queries and tests of the
estimator, which compute one answer from one model.  What is planned is in
section 2.

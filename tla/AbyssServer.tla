----------------------------- MODULE AbyssServer -----------------------------
(***************************************************************************)
(* The connection manager of the Abyss HTTP server (lib/abyss/src of       *)
(* xmlrpc-c 1.06.11), in the build this repository configures: one POSIX   *)
(* thread per connection (ENABLE_ABYSS_THREADS=yes, thread_pthread.c).     *)
(*                                                                         *)
(* One master thread runs serverRun2: it accepts a connection, reclaims    *)
(* the connections that have finished, waits for room, creates a           *)
(* connection descriptor (TConn) with its thread, and links it into the    *)
(* list of outstanding connections.  The thread of a connection runs the   *)
(* connection's job, marks the descriptor finished, and on its way out     *)
(* destroys the socket.  Any other context (another thread, a signal       *)
(* handler) may ask the server to terminate.                               *)
(*                                                                         *)
(* What a job does on its connection is the business of other modules:     *)
(* here it runs for a while and returns.  The order of the list of         *)
(* outstanding connections is abstracted: the list is a set and a scan     *)
(* visits each of its elements once.                                       *)
(***************************************************************************)
EXTENDS Integers, FiniteSets

CONSTANTS
    Conn,       \* addresses malloc can return for a TConn
    Socket,     \* sockets (TSocket with its file descriptor)
    NoConn,     \* the null TConn pointer
    NoSocket,   \* no socket
    MaxConn     \* MAX_CONN, the most connections in progress at a time

ASSUME MaxConnAssumption == MaxConn \in Nat \ {0}
ASSUME ConnAssumption    == NoConn \notin Conn
ASSUME SocketAssumption  == NoSocket \notin Socket

VARIABLES
    terminationRequested,   \* srvP->terminationRequested
    pc,                     \* where the master thread is
    caller,                 \* who called freeFinishedConns
    unvisited,              \* outstanding connections 'pp' has yet to reach
    current,                \* the master's connectionP, off the list
    connectedSocketP,       \* the master's accepted socket, not handed over
    outstanding,            \* connections linked from listP->firstP
    count,                  \* listP->count
    allocated,              \* TConn descriptors malloc'ed and not freed
    finished,               \* connectionP->finished
    socketP,                \* connectionP->socketP
    thread,                 \* the thread of the connection
    open                    \* sockets created and not destroyed

masterVars == <<pc, caller, unvisited, current, connectedSocketP>>
listVars   == <<outstanding, count>>
connVars   == <<allocated, finished, socketP, thread>>
vars       == <<terminationRequested, masterVars, listVars, connVars, open>>

(***************************************************************************)
(* The master is idle outside ServerRun, and freed after ServerFree.       *)
(***************************************************************************)
MasterPC == {"idle", "while", "accept", "scan", "join", "capacity",
             "create", "add", "drain", "freed"}

ThreadState == {"none", "job", "exiting", "exited"}

TypeOK ==
    /\ terminationRequested \in BOOLEAN
    /\ pc \in MasterPC
    /\ caller \in {"accept", "capacity", "drain"}
    /\ outstanding \in SUBSET Conn
    /\ unvisited \in SUBSET outstanding
    /\ current \in Conn \cup {NoConn}
    /\ connectedSocketP \in Socket \cup {NoSocket}
    /\ count \in Int
    /\ allocated \in SUBSET Conn
    /\ finished \in [Conn -> BOOLEAN]
    /\ socketP \in [Conn -> Socket \cup {NoSocket}]
    /\ thread \in [Conn -> ThreadState]
    /\ open \in SUBSET Socket

(* The server as ServerInit leaves it. *)
Init ==
    /\ terminationRequested = FALSE
    /\ pc = "idle"
    /\ caller = "accept"
    /\ unvisited = {}
    /\ current = NoConn
    /\ connectedSocketP = NoSocket
    /\ outstanding = {}
    /\ count = 0
    /\ allocated = {}
    /\ finished = [c \in Conn |-> FALSE]
    /\ socketP = [c \in Conn |-> NoSocket]
    /\ thread = [c \in Conn |-> "none"]
    /\ open = {}

-----------------------------------------------------------------------------
(* Requests from any other context. *)

ServerTerminate ==
    /\ pc # "freed"
    /\ terminationRequested' = TRUE
    /\ UNCHANGED <<masterVars, listVars, connVars, open>>

ServerResetTerminate ==
    /\ pc # "freed"
    /\ terminationRequested' = FALSE
    /\ UNCHANGED <<masterVars, listVars, connVars, open>>

-----------------------------------------------------------------------------
(* The master thread. *)

(* ServerRun enters serverRun2, which creates the list. *)
ServerRun ==
    /\ pc = "idle"
    /\ outstanding' = {}
    /\ count' = 0
    /\ pc' = "while"
    /\ UNCHANGED <<terminationRequested, caller, unvisited, current,
                   connectedSocketP, connVars, open>>

ServerFree ==
    /\ pc = "idle"
    /\ pc' = "freed"
    /\ UNCHANGED <<terminationRequested, caller, unvisited, current,
                   connectedSocketP, listVars, connVars, open>>

(* The condition of the accept loop. *)
TestTermination ==
    /\ pc = "while"
    /\ pc' = IF terminationRequested THEN "drain" ELSE "accept"
    /\ UNCHANGED <<terminationRequested, caller, unvisited, current,
                   connectedSocketP, listVars, connVars, open>>

(* freeFinishedConns is entered with 'pp' at the head of the list. *)
EnterScan(from) ==
    /\ pc' = "scan"
    /\ caller' = from
    /\ unvisited' = outstanding

(***************************************************************************)
(* SocketAccept returns a connected socket; the scan that follows it in    *)
(* the loop body is entered.                                               *)
(***************************************************************************)
AcceptConnected ==
    /\ pc = "accept"
    /\ \E s \in Socket \ open :
          /\ open' = open \cup {s}
          /\ connectedSocketP' = s
    /\ EnterScan("accept")
    /\ UNCHANGED <<terminationRequested, current, listVars, connVars>>

(* SocketAccept returns without one: a signal interrupted it, or it failed. *)
AcceptNothing ==
    /\ pc = "accept"
    /\ pc' = "while"
    /\ UNCHANGED <<terminationRequested, caller, unvisited, current,
                   connectedSocketP, listVars, connVars, open>>

(* Mutant: 'pp' may pass over a connection that has just finished. *)
MutantScanSkipsFinished ==
    /\ pc = "scan"
    /\ \E c \in unvisited : unvisited' = unvisited \ {c}
    /\ UNCHANGED <<terminationRequested, pc, caller, current,
                   connectedSocketP, listVars, connVars, open>>

(* 'pp' reaches a connection that is still in progress. *)
ScanSkip ==
    /\ pc = "scan"
    /\ \E c \in unvisited :
          /\ ~finished[c]
          /\ unvisited' = unvisited \ {c}
    /\ UNCHANGED <<terminationRequested, pc, caller, current,
                   connectedSocketP, listVars, connVars, open>>

(* Mutant: the count is not decremented. *)
MutantUnlinkKeepsCount ==
    /\ pc = "scan"
    /\ \E c \in unvisited :
          /\ finished[c]
          /\ unvisited' = unvisited \ {c}
          /\ outstanding' = outstanding \ {c}
          /\ current' = c
    /\ pc' = "join"
    /\ UNCHANGED <<terminationRequested, caller, connectedSocketP, count,
                   connVars, open>>

(* Mutant: 'pp' is left pointing at the connection that is unlinked. *)
MutantUnlinkKeepsPointer ==
    /\ pc = "scan"
    /\ \E c \in unvisited :
          /\ finished[c]
          /\ outstanding' = outstanding \ {c}
          /\ current' = c
    /\ count' = count - 1
    /\ pc' = "join"
    /\ UNCHANGED <<terminationRequested, caller, unvisited, connectedSocketP,
                   connVars, open>>

(* 'pp' reaches a finished one: it is unlinked, and then waited for. *)
ScanUnlink ==
    /\ pc = "scan"
    /\ \E c \in unvisited :
          /\ finished[c]
          /\ unvisited' = unvisited \ {c}
          /\ outstanding' = outstanding \ {c}
          /\ current' = c
    /\ count' = count - 1
    /\ pc' = "join"
    /\ UNCHANGED <<terminationRequested, caller, connectedSocketP,
                   connVars, open>>

(* Mutant: the descriptor is freed without joining its thread. *)
MutantReleaseWithoutJoin ==
    /\ pc = "join"
    /\ allocated' = allocated \ {current}
    /\ current' = NoConn
    /\ pc' = "scan"
    /\ UNCHANGED <<terminationRequested, caller, unvisited, connectedSocketP,
                   listVars, finished, socketP, thread, open>>

(* pthread_join returns once the thread is gone; then free(connectionP). *)
ConnWaitAndRelease ==
    /\ pc = "join"
    /\ thread[current] = "exited"
    /\ thread' = [thread EXCEPT ![current] = "none"]
    /\ allocated' = allocated \ {current}
    /\ current' = NoConn
    /\ pc' = "scan"
    /\ UNCHANGED <<terminationRequested, caller, unvisited, connectedSocketP,
                   listVars, finished, socketP, open>>

(***************************************************************************)
(* freeFinishedConns returns to its caller.  The two waiting loops sleep   *)
(* two seconds if connections remain and test their condition again; the   *)
(* sleep changes nothing.                                                  *)
(***************************************************************************)
ScanReturn ==
    /\ pc = "scan"
    /\ unvisited = {}
    /\ pc' = IF caller = "drain" THEN "drain" ELSE "capacity"
    /\ UNCHANGED <<terminationRequested, caller, unvisited, current,
                   connectedSocketP, listVars, connVars, open>>

(* Mutant: the wait for capacity sleeps but reclaims nothing. *)
MutantCapacityOnlySleeps ==
    /\ pc = "capacity"
    /\ count >= MaxConn
    /\ UNCHANGED vars

(* waitForConnectionCapacity. *)
CapacityFull ==
    /\ pc = "capacity"
    /\ count >= MaxConn
    /\ EnterScan("capacity")
    /\ UNCHANGED <<terminationRequested, current, connectedSocketP,
                   listVars, connVars, open>>

CapacityFree ==
    /\ pc = "capacity"
    /\ count < MaxConn
    /\ pc' = "create"
    /\ UNCHANGED <<terminationRequested, caller, unvisited, current,
                   connectedSocketP, listVars, connVars, open>>

(* Mutant: the 'finished' flag of recycled memory is not reset. *)
MutantCreateKeepsFinished ==
    /\ pc = "create"
    /\ \E c \in Conn \ allocated :
          /\ allocated' = allocated \cup {c}
          /\ socketP' = [socketP EXCEPT ![c] = connectedSocketP]
          /\ thread' = [thread EXCEPT ![c] = "job"]
          /\ current' = c
    /\ connectedSocketP' = NoSocket
    /\ pc' = "add"
    /\ UNCHANGED <<terminationRequested, caller, unvisited, listVars,
                   finished, open>>

(***************************************************************************)
(* ConnCreate succeeds: the descriptor is filled in and its thread is      *)
(* running before the connection is on the list.                           *)
(***************************************************************************)
ConnCreateOk ==
    /\ pc = "create"
    /\ \E c \in Conn \ allocated :
          /\ allocated' = allocated \cup {c}
          /\ socketP' = [socketP EXCEPT ![c] = connectedSocketP]
          /\ finished' = [finished EXCEPT ![c] = FALSE]
          /\ thread' = [thread EXCEPT ![c] = "job"]
          /\ current' = c
    /\ connectedSocketP' = NoSocket
    /\ pc' = "add"
    /\ UNCHANGED <<terminationRequested, caller, unvisited, listVars, open>>

(* Mutant: the error path forgets SocketDestroy. *)
MutantDropKeepsOpen ==
    /\ connectedSocketP' = NoSocket
    /\ pc' = "while"
    /\ UNCHANGED open

(* serverRun2's answer to a failed ConnCreate: SocketDestroy, next turn. *)
DropSocket ==
    /\ open' = open \ {connectedSocketP}
    /\ connectedSocketP' = NoSocket
    /\ pc' = "while"

(* malloc has no memory for the descriptor. *)
ConnCreateNoMemory ==
    /\ pc = "create"
    /\ DropSocket
    /\ UNCHANGED <<terminationRequested, caller, unvisited, current,
                   listVars, connVars>>

(***************************************************************************)
(* SocketGetPeerName or pthread_create fails: ConnCreate reports an error  *)
(* but does not free the descriptor, and neither does the caller.          *)
(***************************************************************************)
ConnCreateFails ==
    /\ pc = "create"
    /\ \E c \in Conn \ allocated :
          /\ allocated' = allocated \cup {c}
          /\ socketP' = [socketP EXCEPT ![c] = connectedSocketP]
          /\ finished' = [finished EXCEPT ![c] = FALSE]
    /\ DropSocket
    /\ UNCHANGED <<terminationRequested, caller, unvisited, current,
                   listVars, thread>>

(* addToOutstandingConnList; ConnProcess has nothing left to start. *)
AddToOutstandingConnList ==
    /\ pc = "add"
    /\ outstanding' = outstanding \cup {current}
    /\ count' = count + 1
    /\ current' = NoConn
    /\ pc' = "while"
    /\ UNCHANGED <<terminationRequested, caller, unvisited, connectedSocketP,
                   connVars, open>>

(* Mutant: the wait for no connections sleeps but reclaims nothing. *)
MutantDrainOnlySleeps ==
    /\ pc = "drain"
    /\ outstanding # {}
    /\ UNCHANGED vars

(* waitForNoConnections. *)
DrainMore ==
    /\ pc = "drain"
    /\ outstanding # {}
    /\ EnterScan("drain")
    /\ UNCHANGED <<terminationRequested, current, connectedSocketP,
                   listVars, connVars, open>>

(* Mutant: serverRun2 returns without waiting for the connections. *)
MutantReturnAtOnce ==
    /\ pc = "drain"
    /\ pc' = "idle"
    /\ UNCHANGED <<terminationRequested, caller, unvisited, current,
                   connectedSocketP, listVars, connVars, open>>

(* The list is empty: destroyOutstandingConnList, and serverRun2 returns. *)
ServerRunReturn ==
    /\ pc = "drain"
    /\ outstanding = {}
    /\ pc' = "idle"
    /\ UNCHANGED <<terminationRequested, caller, unvisited, current,
                   connectedSocketP, listVars, connVars, open>>

-----------------------------------------------------------------------------
(* The thread of a connection. *)

(* connJob: the job returns and the connection is marked finished. *)
ConnJob(c) ==
    /\ thread[c] = "job"
    /\ finished' = [finished EXCEPT ![c] = TRUE]
    /\ thread' = [thread EXCEPT ![c] = "exiting"]
    /\ UNCHANGED <<terminationRequested, masterVars, listVars, allocated,
                   socketP, open>>

(***************************************************************************)
(* ThreadExit runs the cleanup handler, threadDone: connDone marks the     *)
(* connection finished (again) and calls destroyConnSocket; the thread     *)
(* ends.                                                                   *)
(***************************************************************************)
ConnDone(c) ==
    /\ thread[c] = "exiting"
    /\ finished' = [finished EXCEPT ![c] = TRUE]
    /\ open' = open \ {socketP[c]}
    /\ thread' = [thread EXCEPT ![c] = "exited"]
    /\ UNCHANGED <<terminationRequested, masterVars, listVars, allocated,
                   socketP>>

-----------------------------------------------------------------------------
Scan == ScanSkip \/ ScanUnlink \/ ConnWaitAndRelease \/ ScanReturn

ConnCreate == ConnCreateOk \/ ConnCreateNoMemory \/ ConnCreateFails

Wait == CapacityFull \/ CapacityFree \/ DrainMore \/ ServerRunReturn

(* The steps the master takes without waiting for a client. *)
Master ==
    TestTermination \/ Scan \/ Wait \/ ConnCreate \/ AddToOutstandingConnList

Accept == AcceptConnected \/ AcceptNothing

User == ServerTerminate \/ ServerResetTerminate \/ ServerRun \/ ServerFree

ConnThread(c) == ConnJob(c) \/ ConnDone(c)

Terminated == pc = "freed" /\ UNCHANGED vars

Next ==
    \/ Master
    \/ Accept
    \/ User
    \/ \E c \in Conn : ConnThread(c)
    \/ Terminated

Spec == Init /\ [][Next]_vars

(***************************************************************************)
(* The operating system schedules the master and every connection thread,  *)
(* and a job returns: each wait for a client's bytes in it has a deadline  *)
(* (keepalivetimeout, timeout), and AbyssConn's JobReturns shows that they *)
(* bound the job.  socketWrite has no deadline: that a job returns assumes *)
(* a client that takes its responses, or closes, and a handler that        *)
(* returns.  Nothing makes SocketAccept return.                            *)
(***************************************************************************)
Fairness ==
    /\ WF_vars(Master)
    /\ \A c \in Conn : WF_vars(ConnThread(c))

FairSpec == Spec /\ Fairness

-----------------------------------------------------------------------------
(* Properties *)

(* Connections that have a thread, and those whose thread uses its socket. *)
Threaded == {c \in Conn : thread[c] # "none"}
Serving  == {c \in Conn : thread[c] \in {"job", "exiting"}}

(***************************************************************************)
(* The count kept beside the list (++ in addToOutstandingConnList, -- in   *)
(* freeFinishedConns) is the length of the list, so the assertions of      *)
(* destroyOutstandingConnList hold whenever serverRun2 gets there.         *)
(***************************************************************************)
CountExact == count = Cardinality(outstanding)

(***************************************************************************)
(* There are never more than MAX_CONN connection threads, the ones that    *)
(* have finished and are not yet joined included, whatever the order in    *)
(* which connections come and threads end.                                 *)
(***************************************************************************)
CapacityRespected == Cardinality(Threaded) <= MaxConn

(***************************************************************************)
(* No thread runs on a descriptor that was freed, and no thread is out of  *)
(* the master's reach: it is on the list, or is the one the master is      *)
(* about to link or to join.                                               *)
(***************************************************************************)
ThreadsTracked ==
    /\ Threaded \subseteq allocated
    /\ Threaded = outstanding \cup ({current} \ {NoConn})

(***************************************************************************)
(* Every open socket has exactly one owner, the master before ConnCreate   *)
(* or one connection whose thread has not run destroyConnSocket: no socket *)
(* leaks, none is destroyed twice, and none is used after its destruction. *)
(***************************************************************************)
SocketsOwned ==
    /\ open = {socketP[c] : c \in Serving} \cup
              ({connectedSocketP} \ {NoSocket})
    /\ \A c \in Serving : socketP[c] # connectedSocketP
    /\ \A c, d \in Serving : socketP[c] = socketP[d] => c = d

(***************************************************************************)
(* The promise of the 'finished' flag (conn.h): a thread whose connection  *)
(* is finished is about to end, so that joining it is a short wait.  The   *)
(* master never joins a thread that is still doing its job.                *)
(***************************************************************************)
JoinIsShort == pc = "join" => thread[current] \in {"exiting", "exited"}

(***************************************************************************)
(* When serverRun2 has returned, and so when ServerFree frees the server   *)
(* the threads use, no connection thread runs and no socket is open.       *)
(***************************************************************************)
QuietOutsideRun ==
    pc \in {"idle", "freed"} => Threaded = {} /\ open = {}

(***************************************************************************)
(* Descriptors nobody will free.  Only a ConnCreate that fails makes one:  *)
(* no order of accepting, finishing, scanning and terminating loses a      *)
(* connection.                                                             *)
(***************************************************************************)
Lost == allocated \ (outstanding \cup {current})

LostOnlyByFailedCreate == [][Lost' # Lost => ConnCreateFails]_vars

(***************************************************************************)
(* Every socket the server accepted is eventually destroyed, at capacity,  *)
(* on the failure paths and during shutdown too.                           *)
(***************************************************************************)
SocketsClosed == \A s \in Socket : s \in open ~> s \notin open

(***************************************************************************)
(* If termination stays requested, serverRun2 returns, unless it stays     *)
(* blocked in SocketAccept.                                                *)
(***************************************************************************)
ReturnsUnlessBlocked ==
    (<>[]terminationRequested /\ []<>(pc # "accept"))
        => []<>(pc \in {"idle", "freed"})

(***************************************************************************)
(* As long as connections keep coming (scans keep being made), the         *)
(* descriptor and thread of every finished connection are reclaimed.       *)
(***************************************************************************)
FinishedReclaimed ==
    \A c \in Conn : []<>(pc = "scan") =>
        (c \in outstanding /\ finished[c] ~> c \notin outstanding)

(***************************************************************************)
(* Why the safety properties hold: an invariant every step preserves.      *)
(*                                                                         *)
(* Where the master's local variables are in use: 'current' between        *)
(* ConnCreate and the list, or between the list and free; 'connectedSocketP'*)
(* from SocketAccept to ConnCreate; 'pp' during a scan.                    *)
(***************************************************************************)
HoldsSocket ==
    \/ pc \in {"capacity", "create"}
    \/ pc \in {"scan", "join"} /\ caller # "drain"

MasterInv ==
    /\ current # NoConn <=> pc \in {"add", "join"}
    /\ current \notin outstanding
    /\ connectedSocketP # NoSocket <=> HoldsSocket
    /\ unvisited # {} => pc \in {"scan", "join"}
    /\ pc \in {"idle", "freed"} => outstanding = {}

(* The list is counted, and there is room whenever a connection is off it. *)
ListInv ==
    /\ IsFiniteSet(outstanding)
    /\ CountExact
    /\ count <= MaxConn
    /\ pc \in {"create", "add", "join"} => count < MaxConn

(* A thread's descriptor is within the master's reach and its flag tells   *)
(* how far the thread has got.                                             *)
ThreadInv ==
    /\ ThreadsTracked
    /\ \A c \in Threaded : finished[c] <=> thread[c] \in {"exiting", "exited"}
    /\ JoinIsShort

InductiveInv ==
    TypeOK /\ MasterInv /\ ListInv /\ ThreadInv /\ SocketsOwned

(***************************************************************************)
(* The connection manager implements the abstract pool: a worker is a      *)
(* descriptor with a thread, and it has closed its socket once the thread  *)
(* has run destroyConnSocket.                                              *)
(***************************************************************************)
PoolState(c) ==
    CASE thread[c] = "none"   -> "free"
      [] thread[c] = "exited" -> "closed"
      [] OTHER                -> "busy"

PoolServes(c) == IF c \in Serving THEN socketP[c] ELSE NoSocket

Pool == INSTANCE ConnectionPool WITH
    Worker <- Conn, Limit <- MaxConn,
    up <- pc \notin {"idle", "freed"},
    waiting <- connectedSocketP,
    state <- [c \in Conn |-> PoolState(c)],
    serves <- [c \in Conn |-> PoolServes(c)]

ImplementsPool == Pool!FairSpec
=============================================================================

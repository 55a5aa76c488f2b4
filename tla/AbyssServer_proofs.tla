-------------------------- MODULE AbyssServer_proofs --------------------------
(***************************************************************************)
(* Proofs about the connection manager, for every set of descriptors and   *)
(* sockets and every MaxConn.  InductiveInv is preserved by every action;  *)
(* the safety properties follow from it.                                   *)
(***************************************************************************)
EXTENDS AbyssServer, FiniteSetTheorems, TLAPS

USE MaxConnAssumption, ConnAssumption, SocketAssumption

(***************************************************************************)
(* The server as ServerInit leaves it satisfies the inductive invariant.   *)
(***************************************************************************)
LEMMA InitInductive == Init => InductiveInv
<1> SUFFICES ASSUME Init PROVE InductiveInv
  OBVIOUS
<1>1. TypeOK
  <2>1. terminationRequested \in BOOLEAN
    BY Zenon DEF Init
  <2>2. QED
    BY <2>1 DEF Init, TypeOK, MasterPC, ThreadState
<1>2. MasterInv
  <2>1. ~HoldsSocket
    BY DEF Init, HoldsSocket
  <2>2. QED
    BY <2>1 DEF Init, MasterInv
<1>3. ListInv
  BY FS_EmptySet DEF Init, ListInv, CountExact
<1>4. ThreadInv
  BY DEF Init, ThreadInv, ThreadsTracked, Threaded, JoinIsShort
<1>5. SocketsOwned
  BY DEF Init, SocketsOwned, Serving
<1>6. QED
  BY <1>1, <1>2, <1>3, <1>4, <1>5 DEF InductiveInv

(***************************************************************************)
(* What a request to terminate, or a stuttering step, leaves alone is all  *)
(* the invariant speaks of.                                                *)
(***************************************************************************)
LEMMA FrameInductive ==
    ASSUME InductiveInv, terminationRequested' \in BOOLEAN,
           UNCHANGED <<masterVars, listVars, connVars, open>>
    PROVE  InductiveInv'
<1>1. TypeOK'
  BY DEF InductiveInv, TypeOK, masterVars, listVars, connVars
<1>2. MasterInv'
  BY DEF InductiveInv, MasterInv, HoldsSocket, masterVars, listVars
<1>3. ListInv'
  BY DEF InductiveInv, ListInv, CountExact, masterVars, listVars
<1>4. ThreadInv'
  BY DEF InductiveInv, ThreadInv, ThreadsTracked, Threaded, JoinIsShort,
         masterVars, listVars, connVars
<1>5. SocketsOwned'
  BY DEF InductiveInv, SocketsOwned, Serving, masterVars, connVars
<1>6. QED
  BY <1>1, <1>2, <1>3, <1>4, <1>5 DEF InductiveInv

(***************************************************************************)
(* Steps that move the master without touching the list, the descriptors   *)
(* or the sockets preserve everything but what ties pc to them.            *)
(***************************************************************************)
LEMMA MasterMoves ==
    ASSUME InductiveInv, TypeOK', MasterInv',
           UNCHANGED <<current, connectedSocketP, listVars, connVars, open>>,
           pc' = "join" => pc = "join",
           pc' \in {"create", "add", "join"} => count < MaxConn
    PROVE  InductiveInv'
<1>1. ListInv'
  BY DEF InductiveInv, ListInv, CountExact, listVars
<1>2. ThreadInv'
  BY DEF InductiveInv, ThreadInv, ThreadsTracked, Threaded, JoinIsShort,
         listVars, connVars
<1>3. SocketsOwned'
  BY DEF InductiveInv, SocketsOwned, Serving, connVars
<1>4. QED
  BY <1>1, <1>2, <1>3 DEF InductiveInv

(***************************************************************************)
(* Every step of the master, of a connection thread or of another context  *)
(* preserves the inductive invariant.                                      *)
(***************************************************************************)
LEMMA StepInductive == InductiveInv /\ [Next]_vars => InductiveInv'
<1> SUFFICES ASSUME InductiveInv, [Next]_vars PROVE InductiveInv'
  OBVIOUS
<1>1. CASE User
  <2>1. CASE ServerTerminate
    BY <2>1, FrameInductive DEF ServerTerminate
  <2>2. CASE ServerResetTerminate
    <3>1. terminationRequested' \in BOOLEAN
      BY <2>2, Zenon DEF ServerResetTerminate
    <3>2. QED
      BY <2>2, <3>1, FrameInductive DEF ServerResetTerminate
  <2>3. CASE ServerRun
    <3>1. outstanding = {} /\ count = 0
      BY <2>3, FS_EmptySet
      DEF ServerRun, InductiveInv, MasterInv, ListInv, CountExact
    <3>2. UNCHANGED <<current, connectedSocketP, listVars, connVars, open>>
      BY <2>3, <3>1 DEF ServerRun, listVars
    <3>3. TypeOK' /\ MasterInv'
      BY <2>3, <3>2
      DEF ServerRun, InductiveInv, TypeOK, MasterPC, MasterInv, HoldsSocket,
          listVars, connVars
    <3>4. QED
      BY <2>3, <3>2, <3>3, MasterMoves DEF ServerRun
  <2>4. CASE ServerFree
    <3>1. TypeOK' /\ MasterInv'
      BY <2>4 DEF ServerFree, InductiveInv, TypeOK, MasterPC, MasterInv,
                  HoldsSocket, listVars, connVars
    <3>2. QED
      BY <2>4, <3>1, MasterMoves DEF ServerFree
  <2>5. QED
    BY <1>1, <2>1, <2>2, <2>3, <2>4 DEF User
<1>2. CASE TestTermination
  <2>1. TypeOK' /\ MasterInv'
    BY <1>2 DEF TestTermination, InductiveInv, TypeOK, MasterPC, MasterInv,
                HoldsSocket, listVars, connVars
  <2>2. QED
    BY <1>2, <2>1, MasterMoves DEF TestTermination
<1>3. CASE AcceptConnected
  <2>1. PICK s \in Socket \ open : /\ open' = open \cup {s}
                                   /\ connectedSocketP' = s
    BY <1>3 DEF AcceptConnected
  <2>2. connectedSocketP = NoSocket
    BY <1>3 DEF AcceptConnected, InductiveInv, MasterInv, HoldsSocket
  <2>3. TypeOK' /\ MasterInv'
    BY <1>3, <2>1 DEF AcceptConnected, EnterScan, InductiveInv, TypeOK,
                      MasterPC, MasterInv, HoldsSocket, listVars, connVars
  <2>4. ListInv' /\ ThreadInv'
    BY <1>3 DEF AcceptConnected, EnterScan, InductiveInv, ListInv, CountExact,
                ThreadInv, ThreadsTracked, Threaded, JoinIsShort,
                listVars, connVars
  <2>5. SocketsOwned'
    <3>1. Serving' = Serving /\ socketP' = socketP
      BY <1>3 DEF AcceptConnected, Serving, connVars
    <3>2. \A c \in Serving : socketP[c] \in open
      BY DEF InductiveInv, SocketsOwned
    <3>3. QED
      BY <2>1, <2>2, <3>1, <3>2 DEF InductiveInv, SocketsOwned
  <2>6. QED
    BY <2>3, <2>4, <2>5 DEF InductiveInv
<1>4. CASE AcceptNothing
  <2>1. TypeOK' /\ MasterInv'
    BY <1>4 DEF AcceptNothing, InductiveInv, TypeOK, MasterPC, MasterInv,
                HoldsSocket, listVars, connVars
  <2>2. QED
    BY <1>4, <2>1, MasterMoves DEF AcceptNothing
<1>5. CASE Scan
  <2>1. CASE ScanSkip
    <3>1. TypeOK' /\ MasterInv'
      BY <2>1 DEF ScanSkip, InductiveInv, TypeOK, MasterInv, HoldsSocket,
                  listVars, connVars
    <3>2. QED
      BY <2>1, <3>1, MasterMoves DEF ScanSkip
  <2>2. CASE ScanUnlink
    <3>1. PICK c \in unvisited : /\ finished[c]
                                 /\ unvisited' = unvisited \ {c}
                                 /\ outstanding' = outstanding \ {c}
                                 /\ current' = c
      BY <2>2 DEF ScanUnlink
    <3>2. c \in outstanding /\ c \in Conn /\ c # NoConn /\ current = NoConn
      BY <2>2 DEF ScanUnlink, InductiveInv, TypeOK, MasterInv
    <3>3. TypeOK' /\ MasterInv'
      BY <2>2, <3>1, <3>2 DEF ScanUnlink, InductiveInv, TypeOK, MasterPC,
                              MasterInv, HoldsSocket, connVars
    <3>4. ListInv'
      <4>1. /\ IsFiniteSet(outstanding')
            /\ Cardinality(outstanding') = Cardinality(outstanding) - 1
        BY <3>1, <3>2, FS_RemoveElement DEF InductiveInv, ListInv
      <4>2. QED
        BY <2>2, <4>1 DEF ScanUnlink, InductiveInv, TypeOK, ListInv, CountExact
    <3>5. ThreadInv'
      BY <2>2, <3>1, <3>2
      DEF ScanUnlink, InductiveInv, TypeOK, ThreadInv, ThreadsTracked,
          Threaded, JoinIsShort, connVars
    <3>6. SocketsOwned'
      BY <2>2 DEF ScanUnlink, InductiveInv, SocketsOwned, Serving, connVars
    <3>7. QED
      BY <3>3, <3>4, <3>5, <3>6 DEF InductiveInv
  <2>3. CASE ConnWaitAndRelease
    <3>1. current \in Conn /\ current \notin outstanding
      BY <2>3 DEF ConnWaitAndRelease, InductiveInv, TypeOK, MasterInv
    <3>2. TypeOK' /\ MasterInv'
      BY <2>3, <3>1 DEF ConnWaitAndRelease, InductiveInv, TypeOK, MasterPC,
                        ThreadState, MasterInv, HoldsSocket, listVars
    <3>3. ListInv'
      BY <2>3 DEF ConnWaitAndRelease, InductiveInv, ListInv, CountExact,
                  listVars
    <3>4. ThreadInv'
      <4>1. Threaded' = Threaded \ {current}
        BY <2>3, <3>1
        DEF ConnWaitAndRelease, InductiveInv, TypeOK, Threaded
      <4>2. ThreadsTracked'
        BY <2>3, <3>1, <4>1
        DEF ConnWaitAndRelease, InductiveInv, ThreadInv, ThreadsTracked,
            listVars
      <4>3. \A c \in Threaded' :
               finished'[c] <=> thread'[c] \in {"exiting", "exited"}
        BY <2>3, <3>1, <4>1
        DEF ConnWaitAndRelease, InductiveInv, TypeOK, ThreadInv, Threaded
      <4>4. QED
        BY <2>3, <4>2, <4>3 DEF ConnWaitAndRelease, ThreadInv, JoinIsShort
    <3>5. SocketsOwned'
      <4>1. Serving' = Serving
        BY <2>3, <3>1 DEF ConnWaitAndRelease, InductiveInv, TypeOK, Serving
      <4>2. QED
        BY <2>3, <4>1 DEF ConnWaitAndRelease, InductiveInv, SocketsOwned
    <3>6. QED
      BY <3>2, <3>3, <3>4, <3>5 DEF InductiveInv
  <2>4. CASE ScanReturn
    <3>1. TypeOK' /\ MasterInv'
      BY <2>4 DEF ScanReturn, InductiveInv, TypeOK, MasterPC, MasterInv,
                  HoldsSocket, listVars, connVars
    <3>2. QED
      BY <2>4, <3>1, MasterMoves DEF ScanReturn
  <2>5. QED
    BY <1>5, <2>1, <2>2, <2>3, <2>4 DEF Scan
<1>6. CASE Wait
  <2>1. CASE CapacityFull
    <3>1. TypeOK' /\ MasterInv'
      BY <2>1 DEF CapacityFull, EnterScan, InductiveInv, TypeOK, MasterPC,
                  MasterInv, HoldsSocket, listVars, connVars
    <3>2. QED
      BY <2>1, <3>1, MasterMoves DEF CapacityFull, EnterScan
  <2>2. CASE CapacityFree
    <3>1. TypeOK' /\ MasterInv'
      BY <2>2 DEF CapacityFree, InductiveInv, TypeOK, MasterPC, MasterInv,
                  HoldsSocket, listVars, connVars
    <3>2. QED
      BY <2>2, <3>1, MasterMoves DEF CapacityFree
  <2>3. CASE DrainMore
    <3>1. TypeOK' /\ MasterInv'
      BY <2>3 DEF DrainMore, EnterScan, InductiveInv, TypeOK, MasterPC,
                  MasterInv, HoldsSocket, listVars, connVars
    <3>2. QED
      BY <2>3, <3>1, MasterMoves DEF DrainMore, EnterScan
  <2>4. CASE ServerRunReturn
    <3>1. TypeOK' /\ MasterInv'
      BY <2>4 DEF ServerRunReturn, InductiveInv, TypeOK, MasterPC, MasterInv,
                  HoldsSocket, listVars, connVars
    <3>2. QED
      BY <2>4, <3>1, MasterMoves DEF ServerRunReturn
  <2>5. QED
    BY <1>6, <2>1, <2>2, <2>3, <2>4 DEF Wait
<1>7. CASE ConnCreate
  <2>1. CASE ConnCreateOk
    <3>1. PICK c \in Conn \ allocated :
             /\ allocated' = allocated \cup {c}
             /\ socketP' = [socketP EXCEPT ![c] = connectedSocketP]
             /\ finished' = [finished EXCEPT ![c] = FALSE]
             /\ thread' = [thread EXCEPT ![c] = "job"]
             /\ current' = c
      BY <2>1 DEF ConnCreateOk
    <3>2. /\ c # NoConn /\ c \notin Threaded /\ c \notin outstanding
          /\ current = NoConn /\ connectedSocketP \in Socket
      BY <2>1 DEF ConnCreateOk, InductiveInv, TypeOK, MasterInv, HoldsSocket,
                  ThreadInv, ThreadsTracked, Threaded
    <3>3. TypeOK'
      <4>1. finished' \in [Conn -> BOOLEAN]
        BY <3>1, Zenon DEF InductiveInv, TypeOK
      <4>2. QED
        BY <2>1, <3>1, <4>1 DEF ConnCreateOk, InductiveInv, TypeOK, MasterPC,
                                ThreadState, listVars
    <3>4. MasterInv'
      BY <2>1, <3>1, <3>2 DEF ConnCreateOk, InductiveInv, MasterInv,
                              HoldsSocket, listVars
    <3>5. ListInv'
      BY <2>1 DEF ConnCreateOk, InductiveInv, ListInv, CountExact, listVars
    <3>6. ThreadInv'
      <4>1. Threaded' = Threaded \cup {c}
        BY <3>1 DEF InductiveInv, TypeOK, Threaded
      <4>2. ThreadsTracked'
        BY <2>1, <3>1, <3>2, <4>1
        DEF ConnCreateOk, InductiveInv, ThreadInv, ThreadsTracked, listVars
      <4>3. ASSUME NEW d \in Threaded'
            PROVE  finished'[d] <=> thread'[d] \in {"exiting", "exited"}
        <5>1. CASE d = c
          BY <3>1, <5>1 DEF InductiveInv, TypeOK
        <5>2. CASE d # c
          BY <3>1, <4>1, <4>3, <5>2
          DEF InductiveInv, TypeOK, ThreadInv, Threaded
        <5>3. QED
          BY <5>1, <5>2
      <4>4. QED
        BY <2>1, <4>2, <4>3 DEF ConnCreateOk, ThreadInv, JoinIsShort
    <3>7. SocketsOwned'
      <4>1. Serving' = Serving \cup {c} /\ c \notin Serving
        BY <3>1, <3>2 DEF InductiveInv, TypeOK, Serving, Threaded
      <4>2. /\ socketP'[c] = connectedSocketP
            /\ \A d \in Serving : socketP'[d] = socketP[d]
        BY <3>1, <4>1 DEF InductiveInv, TypeOK, Serving
      <4>3. \A d \in Serving : socketP[d] \in Socket
        BY DEF InductiveInv, TypeOK, SocketsOwned
      <4>4. QED
        BY <2>1, <3>2, <4>1, <4>2, <4>3
        DEF ConnCreateOk, InductiveInv, SocketsOwned
    <3>8. QED
      BY <3>3, <3>4, <3>5, <3>6, <3>7 DEF InductiveInv
  <2>2. ASSUME DropSocket, pc = "create", Serving' = Serving,
               \A c \in Serving : socketP'[c] = socketP[c]
        PROVE  SocketsOwned'
    <3>1. \A c \in Serving : socketP[c] \in Socket
      BY DEF InductiveInv, TypeOK, SocketsOwned
    <3>2. QED
      BY <2>2, <3>1 DEF DropSocket, InductiveInv, SocketsOwned
  <2>3. CASE ConnCreateNoMemory
    <3>1. TypeOK' /\ MasterInv'
      BY <2>3 DEF ConnCreateNoMemory, DropSocket, InductiveInv, TypeOK,
                  MasterPC, MasterInv, HoldsSocket, listVars, connVars
    <3>2. ListInv' /\ ThreadInv'
      BY <2>3 DEF ConnCreateNoMemory, DropSocket, InductiveInv, ListInv,
                  CountExact, ThreadInv, ThreadsTracked, Threaded,
                  JoinIsShort, listVars, connVars
    <3>3. SocketsOwned'
      BY <2>2, <2>3 DEF ConnCreateNoMemory, Serving, connVars
    <3>4. QED
      BY <3>1, <3>2, <3>3 DEF InductiveInv
  <2>4. CASE ConnCreateFails
    <3>1. PICK c \in Conn \ allocated :
             /\ allocated' = allocated \cup {c}
             /\ socketP' = [socketP EXCEPT ![c] = connectedSocketP]
             /\ finished' = [finished EXCEPT ![c] = FALSE]
      BY <2>4 DEF ConnCreateFails
    <3>2. c \notin Threaded
      BY DEF InductiveInv, ThreadInv, ThreadsTracked
    <3>3. TypeOK'
      <4>1. finished' \in [Conn -> BOOLEAN]
        BY <3>1, Zenon DEF InductiveInv, TypeOK
      <4>2. QED
        BY <2>4, <3>1, <4>1 DEF ConnCreateFails, DropSocket, InductiveInv,
                                TypeOK, MasterPC, listVars
    <3>4. MasterInv' /\ ListInv'
      BY <2>4 DEF ConnCreateFails, DropSocket, InductiveInv, MasterInv,
                  HoldsSocket, ListInv, CountExact, listVars
    <3>5. ThreadInv'
      <4>1. Threaded' = Threaded /\ \A d \in Threaded : finished'[d] = finished[d]
        BY <2>4, <3>1, <3>2
        DEF ConnCreateFails, InductiveInv, TypeOK, Threaded
      <4>2. QED
        BY <2>4, <3>1, <4>1
        DEF ConnCreateFails, DropSocket, InductiveInv, ThreadInv,
            ThreadsTracked, JoinIsShort, listVars
    <3>6. SocketsOwned'
      <4>1. Serving' = Serving /\ c \notin Serving
        BY <2>4, <3>2 DEF ConnCreateFails, Serving, Threaded
      <4>2. QED
        BY <2>2, <2>4, <3>1, <4>1
        DEF ConnCreateFails, InductiveInv, TypeOK, Serving
    <3>7. QED
      BY <3>3, <3>4, <3>5, <3>6 DEF InductiveInv
  <2>5. QED
    BY <1>7, <2>1, <2>3, <2>4 DEF ConnCreate
<1>8. CASE AddToOutstandingConnList
  <2>1. current \in Conn /\ current \notin outstanding
    BY <1>8 DEF AddToOutstandingConnList, InductiveInv, TypeOK, MasterInv
  <2>2. TypeOK' /\ MasterInv'
    BY <1>8, <2>1 DEF AddToOutstandingConnList, InductiveInv, TypeOK, MasterPC,
                      MasterInv, HoldsSocket, connVars
  <2>3. ListInv'
    <3>1. /\ IsFiniteSet(outstanding')
          /\ Cardinality(outstanding') = Cardinality(outstanding) + 1
      BY <1>8, <2>1, FS_AddElement
      DEF AddToOutstandingConnList, InductiveInv, ListInv
    <3>2. QED
      BY <1>8, <3>1 DEF AddToOutstandingConnList, InductiveInv, TypeOK,
                        ListInv, CountExact
  <2>4. ThreadInv' /\ SocketsOwned'
    BY <1>8, <2>1 DEF AddToOutstandingConnList, InductiveInv, ThreadInv,
                      ThreadsTracked, Threaded, JoinIsShort, SocketsOwned,
                      Serving, connVars
  <2>5. QED
    BY <2>2, <2>3, <2>4 DEF InductiveInv
<1>9. ASSUME NEW c \in Conn, ConnThread(c) PROVE InductiveInv'
  <2>1. MasterInv' /\ ListInv'
    BY <1>9 DEF ConnThread, ConnJob, ConnDone, InductiveInv, MasterInv,
                HoldsSocket, ListInv, CountExact, masterVars, listVars
  <2>2. TypeOK'
    <3>1. finished' \in [Conn -> BOOLEAN]
      BY <1>9, Zenon DEF ConnThread, ConnJob, ConnDone, InductiveInv, TypeOK
    <3>2. QED
      BY <1>9, <3>1 DEF ConnThread, ConnJob, ConnDone, InductiveInv, TypeOK,
                        ThreadState, masterVars, listVars
  <2>3. ThreadInv'
    <3>1. Threaded' = Threaded
      BY <1>9 DEF ConnThread, ConnJob, ConnDone, InductiveInv, TypeOK, Threaded
    <3>2. ThreadsTracked'
      BY <1>9, <3>1 DEF ConnThread, ConnJob, ConnDone, InductiveInv, ThreadInv,
                        ThreadsTracked, masterVars, listVars
    <3>3. ASSUME NEW d \in Threaded'
          PROVE  finished'[d] <=> thread'[d] \in {"exiting", "exited"}
      <4>1. d \in Threaded
        BY <3>1, <3>3
      <4>2. CASE d = c
        <5>1. finished'[c]
          BY <1>9, Zenon DEF ConnThread, ConnJob, ConnDone, InductiveInv, TypeOK
        <5>2. thread'[c] \in {"exiting", "exited"}
          BY <1>9 DEF ConnThread, ConnJob, ConnDone, InductiveInv, TypeOK
        <5>3. QED
          BY <4>2, <5>1, <5>2
      <4>3. CASE d # c
        <5>1. d \in Conn
          BY <4>1 DEF Threaded
        <5>2. finished'[d] = finished[d]
          BY <1>9, <4>3, <5>1, Zenon
          DEF ConnThread, ConnJob, ConnDone, InductiveInv, TypeOK
        <5>3. thread'[d] = thread[d]
          BY <1>9, <4>3, <5>1
          DEF ConnThread, ConnJob, ConnDone, InductiveInv, TypeOK
        <5>4. QED
          BY <4>1, <5>2, <5>3 DEF InductiveInv, ThreadInv
      <4>4. QED
        BY <4>2, <4>3
    <3>4. JoinIsShort'
      <4>1. pc' = pc /\ current' = current
        BY <1>9 DEF ConnThread, ConnJob, ConnDone, masterVars
      <4>2. thread'[c] \in {"exiting", "exited"}
        BY <1>9 DEF ConnThread, ConnJob, ConnDone, InductiveInv, TypeOK
      <4>3. pc = "join" => current \in Conn
        BY DEF InductiveInv, TypeOK, MasterInv
      <4>4. \A d \in Conn : d # c => thread'[d] = thread[d]
        BY <1>9 DEF ConnThread, ConnJob, ConnDone, InductiveInv, TypeOK
      <4>5. QED
        BY <4>1, <4>2, <4>3, <4>4 DEF InductiveInv, ThreadInv, JoinIsShort
    <3>5. QED
      BY <3>2, <3>3, <3>4 DEF ThreadInv
  <2>4. CASE ConnJob(c)
    <3>1. SocketsOwned'
      <4>1. Serving' = Serving
        BY <2>4 DEF ConnJob, InductiveInv, TypeOK, Serving
      <4>2. QED
        BY <2>4, <4>1 DEF ConnJob, InductiveInv, SocketsOwned, masterVars
    <3>2. QED
      BY <2>1, <2>2, <2>3, <3>1 DEF InductiveInv
  <2>5. CASE ConnDone(c)
    <3>1. SocketsOwned'
      <4>1. Serving' = Serving \ {c} /\ c \in Serving
        BY <2>5 DEF ConnDone, InductiveInv, TypeOK, Serving
      <4>2. socketP[c] # connectedSocketP
        BY <4>1 DEF InductiveInv, SocketsOwned
      <4>3. QED
        BY <2>5, <4>1, <4>2
        DEF ConnDone, InductiveInv, SocketsOwned, masterVars
    <3>2. QED
      BY <2>1, <2>2, <2>3, <3>1 DEF InductiveInv
  <2>6. QED
    BY <1>9, <2>4, <2>5 DEF ConnThread
<1>10. CASE UNCHANGED vars
  <2>1. terminationRequested' \in BOOLEAN
    BY <1>10, Zenon DEF vars, InductiveInv, TypeOK
  <2>2. QED
    BY <1>10, <2>1, FrameInductive DEF vars
<1>11. QED
  BY <1>1, <1>2, <1>3, <1>4, <1>5, <1>6, <1>7, <1>8, <1>9, <1>10
  DEF Next, Master, Accept, Terminated

(***************************************************************************)
(* The inductive invariant holds in every reachable state.                 *)
(***************************************************************************)
THEOREM Inductive == Spec => []InductiveInv
BY InitInductive, StepInductive, PTL DEF Spec

(***************************************************************************)
(* Type correctness.                                                       *)
(***************************************************************************)
THEOREM TypeCorrect == Spec => []TypeOK
BY Inductive, PTL DEF InductiveInv

(***************************************************************************)
(* The list's count is its length: destroyOutstandingConnList's assertions *)
(* hold whenever serverRun2 reaches them.                                  *)
(***************************************************************************)
THEOREM ListCounted == Spec => []CountExact
<1>1. InductiveInv => CountExact
  BY DEF InductiveInv, ListInv
<1>2. QED
  BY <1>1, Inductive, PTL

(***************************************************************************)
(* No thread outlives its descriptor, and every thread is on the list or   *)
(* in the master's hand: freeFinishedConns will find it.                   *)
(***************************************************************************)
THEOREM NoThreadEscapes == Spec => []ThreadsTracked
<1>1. InductiveInv => ThreadsTracked
  BY DEF InductiveInv, ThreadInv
<1>2. QED
  BY <1>1, Inductive, PTL

(***************************************************************************)
(* Every open socket has one owner: the error path of serverRun2 and the   *)
(* threads' destroyConnSocket never destroy the same one, and leave none.  *)
(***************************************************************************)
THEOREM OneOwnerPerSocket == Spec => []SocketsOwned
<1>1. InductiveInv => SocketsOwned
  BY DEF InductiveInv
<1>2. QED
  BY <1>1, Inductive, PTL

(***************************************************************************)
(* ConnWaitAndRelease joins only threads whose connection's job is over.   *)
(***************************************************************************)
THEOREM JoinsAreShort == Spec => []JoinIsShort
<1>1. InductiveInv => JoinIsShort
  BY DEF InductiveInv, ThreadInv
<1>2. QED
  BY <1>1, Inductive, PTL

(***************************************************************************)
(* The threads are the listed connections and at most one that is off the  *)
(* list, and one is off the list only while there is room for it.          *)
(***************************************************************************)
THEOREM AtMostMaxConn == Spec => []CapacityRespected
<1>1. InductiveInv => CapacityRespected
  <2> SUFFICES ASSUME InductiveInv PROVE Cardinality(Threaded) <= MaxConn
    BY DEF CapacityRespected
  <2>1. /\ IsFiniteSet(outstanding)
        /\ Cardinality(outstanding) = count
        /\ count \in Int /\ count <= MaxConn
    BY DEF InductiveInv, TypeOK, ListInv, CountExact
  <2>2. CASE current = NoConn
    <3>1. Threaded = outstanding
      BY <2>2 DEF InductiveInv, ThreadInv, ThreadsTracked
    <3>2. QED
      BY <2>1, <3>1
  <2>3. CASE current # NoConn
    <3>1. Threaded = outstanding \cup {current}
      BY <2>3 DEF InductiveInv, ThreadInv, ThreadsTracked
    <3>2. count < MaxConn
      BY <2>3 DEF InductiveInv, MasterInv, ListInv
    <3>3. Cardinality(Threaded) <= count + 1
      BY <2>1, <3>1, FS_AddElement
    <3>4. Cardinality(Threaded) \in Int
      BY <2>1, <3>1, FS_AddElement
    <3>5. QED
      BY <2>1, <3>2, <3>3, <3>4
  <2>4. QED
    BY <2>2, <2>3
<1>2. QED
  BY <1>1, Inductive, PTL

(***************************************************************************)
(* Outside ServerRun nothing of a connection is left: ServerFree frees a   *)
(* server no thread uses.                                                  *)
(***************************************************************************)
THEOREM QuietWhenIdle == Spec => []QuietOutsideRun
<1>1. InductiveInv => QuietOutsideRun
  <2> SUFFICES ASSUME InductiveInv, pc \in {"idle", "freed"}
               PROVE  Threaded = {} /\ open = {}
    BY DEF QuietOutsideRun
  <2>1. outstanding = {} /\ current = NoConn /\ connectedSocketP = NoSocket
    BY DEF InductiveInv, MasterInv, HoldsSocket
  <2>2. Threaded = {}
    BY <2>1 DEF InductiveInv, ThreadInv, ThreadsTracked
  <2>3. Serving = {}
    BY <2>2 DEF Serving, Threaded
  <2>4. QED
    BY <2>1, <2>2, <2>3 DEF InductiveInv, SocketsOwned
<1>2. QED
  BY <1>1, Inductive, PTL

(***************************************************************************)
(* A descriptor is lost only by a ConnCreate that fails.                   *)
(***************************************************************************)
THEOREM LossesExplained == Spec => LostOnlyByFailedCreate
<1>1. InductiveInv /\ [Next]_vars => [Lost' # Lost => ConnCreateFails]_vars
  <2> SUFFICES ASSUME InductiveInv, Next, Lost' # Lost PROVE ConnCreateFails
    BY DEF Lost, vars, masterVars, listVars, connVars
  <2>1. CASE ScanUnlink
    <3>1. outstanding' \cup {current'} = outstanding \cup {current} \/
          (current = NoConn /\ outstanding' \cup {current'} = outstanding)
      BY <2>1 DEF ScanUnlink, InductiveInv, TypeOK, MasterInv
    <3>2. NoConn \notin allocated /\ allocated' = allocated
      BY <2>1 DEF ScanUnlink, connVars, InductiveInv, TypeOK
    <3>3. QED
      BY <3>1, <3>2 DEF Lost
  <2>2. CASE ConnWaitAndRelease
    BY <2>2 DEF ConnWaitAndRelease, listVars, Lost, InductiveInv, TypeOK
  <2>3. CASE ConnCreateOk
    BY <2>3 DEF ConnCreateOk, listVars, Lost, InductiveInv, TypeOK, MasterInv,
                ThreadInv, ThreadsTracked
  <2>4. CASE AddToOutstandingConnList
    BY <2>4 DEF AddToOutstandingConnList, connVars, Lost, InductiveInv, TypeOK
  <2>5. CASE ServerRun
    BY <2>5 DEF ServerRun, connVars, Lost, InductiveInv, MasterInv
  <2>6. ASSUME UNCHANGED <<allocated, outstanding, current>>
        PROVE  Lost' = Lost
    BY <2>6 DEF Lost
  <2>7. QED
    BY <2>1, <2>2, <2>3, <2>4, <2>5, <2>6
    DEF Next, Master, Scan, Wait, ConnCreate, Accept, User, ConnThread,
        Terminated, ServerTerminate, ServerResetTerminate, ServerFree,
        TestTermination, AcceptConnected, AcceptNothing, EnterScan, ScanSkip,
        ScanReturn, CapacityFull, CapacityFree, ConnCreateNoMemory, DropSocket,
        DrainMore, ServerRunReturn, ConnJob, ConnDone, vars, masterVars,
        listVars, connVars
<1>2. QED
  BY <1>1, Inductive, PTL DEF Spec, LostOnlyByFailedCreate

(***************************************************************************)
(* Steps inside the accept loop, the scan and the waiting loops that touch *)
(* neither threads nor sockets are stutters of the abstract pool.          *)
(***************************************************************************)
LEMMA PoolSame ==
    ASSUME UNCHANGED <<connectedSocketP, thread, socketP>>,
           pc' \in {"idle", "freed"} <=> pc \in {"idle", "freed"}
    PROVE  UNCHANGED Pool!vars
BY DEF Pool!vars, PoolState, PoolServes, Serving

(***************************************************************************)
(* The initial states are initial states of the abstract pool.             *)
(***************************************************************************)
LEMMA PoolInit == Init => Pool!Init
BY DEF Init, Pool!Init, PoolState, PoolServes, Serving

(* The instance has a copy of its own of Cardinality. *)
LEMMA PoolCardinality == \A S : Pool!Cardinality(S) = Cardinality(S)
BY DEF Cardinality, Pool!Cardinality

(***************************************************************************)
(* The abstract pool counts as taken the connections that have a thread.   *)
(***************************************************************************)
LEMMA PoolTaken == Pool!Taken = Threaded
BY DEF Pool!Taken, PoolState, Threaded

(***************************************************************************)
(* Every step of the connection manager is a step of the abstract pool or  *)
(* leaves what the pool has alone: creation takes a free worker under the  *)
(* limit, destroyConnSocket closes it, and the join frees it.              *)
(***************************************************************************)
LEMMA PoolStep == InductiveInv /\ [Next]_vars => [Pool!Next]_(Pool!vars)
<1> SUFFICES ASSUME InductiveInv, [Next]_vars
             PROVE  [Pool!Next]_(Pool!vars)
  OBVIOUS
<1>1. CASE ServerRun
  <2>1. Pool!Start
    BY <1>1 DEF ServerRun, connVars, Pool!Start, PoolState, PoolServes, Serving
  <2>2. QED
    BY <2>1 DEF Pool!Next
<1>2. CASE AcceptConnected
  <2>1. PICK s \in Socket \ open : connectedSocketP' = s
    BY <1>2 DEF AcceptConnected
  <2>2. connectedSocketP = NoSocket
    BY <1>2 DEF AcceptConnected, InductiveInv, MasterInv, HoldsSocket
  <2>3. ~Pool!InUse(s)
    <3>1. s # NoSocket
      BY SocketAssumption
    <3>2. \A c \in Conn : PoolServes(c) # s
      BY <2>1, <3>1 DEF PoolServes, InductiveInv, SocketsOwned
    <3>3. QED
      BY <2>2, <3>1, <3>2 DEF Pool!InUse
  <2>4. Pool!Accept(s)
    BY <1>2, <2>1, <2>2, <2>3
    DEF AcceptConnected, EnterScan, connVars, Pool!Accept, PoolState,
        PoolServes, Serving
  <2>5. QED
    BY <2>4 DEF Pool!Next
<1>3. CASE ConnCreateOk
  <2>1. PICK c \in Conn \ allocated :
           /\ socketP' = [socketP EXCEPT ![c] = connectedSocketP]
           /\ thread' = [thread EXCEPT ![c] = "job"]
    BY <1>3 DEF ConnCreateOk
  <2>2. c \notin Threaded /\ current = NoConn /\ connectedSocketP # NoSocket
    BY <1>3 DEF ConnCreateOk, InductiveInv, MasterInv, HoldsSocket, ThreadInv,
                ThreadsTracked
  <2>3. Cardinality(Threaded) < MaxConn
    <3>1. Threaded = outstanding
      BY <2>2 DEF InductiveInv, ThreadInv, ThreadsTracked
    <3>2. QED
      BY <1>3, <3>1 DEF ConnCreateOk, InductiveInv, ListInv, CountExact
  <2>4. /\ PoolState(c) = "free"
        /\ PoolState(c)' = "busy"
        /\ PoolServes(c)' = connectedSocketP
    BY <2>1, <2>2
    DEF PoolState, PoolServes, Serving, Threaded, InductiveInv, TypeOK
  <2>5. \A d \in Conn : d # c => /\ PoolState(d)' = PoolState(d)
                                 /\ PoolServes(d)' = PoolServes(d)
    BY <2>1 DEF PoolState, PoolServes, Serving, InductiveInv, TypeOK
  <2>6. [d \in Conn |-> PoolState(d)]' =
          [[d \in Conn |-> PoolState(d)] EXCEPT ![c] = "busy"]
    BY <2>4, <2>5
  <2>7. [d \in Conn |-> PoolServes(d)]' =
          [[d \in Conn |-> PoolServes(d)] EXCEPT ![c] = connectedSocketP]
    BY <2>4, <2>5
  <2>8. Pool!Assign(c)
    BY <1>3, <2>2, <2>3, <2>4, <2>6, <2>7, PoolTaken,
       PoolCardinality
    DEF ConnCreateOk, Pool!Assign
  <2>9. QED
    BY <2>8 DEF Pool!Next
<1>4. CASE ConnCreateNoMemory \/ ConnCreateFails
  <2>1. connectedSocketP # NoSocket /\ connectedSocketP' = NoSocket
    BY <1>4 DEF ConnCreateNoMemory, ConnCreateFails, DropSocket, InductiveInv,
                MasterInv, HoldsSocket
  <2>2. pc' \notin {"idle", "freed"} /\ pc \notin {"idle", "freed"}
    BY <1>4 DEF ConnCreateNoMemory, ConnCreateFails, DropSocket
  <2>3. thread' = thread /\ Serving' = Serving
    BY <1>4 DEF ConnCreateNoMemory, ConnCreateFails, connVars, Serving
  <2>4. \A c \in Serving : socketP'[c] = socketP[c]
    BY <1>4 DEF ConnCreateNoMemory, ConnCreateFails, connVars, Serving,
                Threaded, InductiveInv, TypeOK, ThreadInv, ThreadsTracked
  <2>5. Pool!Refuse
    BY <2>1, <2>2, <2>3, <2>4 DEF Pool!Refuse, PoolState, PoolServes
  <2>6. QED
    BY <2>5 DEF Pool!Next
<1>5. CASE ConnWaitAndRelease
  <2>1. current \in Conn
    BY <1>5 DEF ConnWaitAndRelease, InductiveInv, TypeOK, MasterInv
  <2>2. Pool!Reap(current)
    <3>1. PoolState(current) = "closed"
      BY <1>5 DEF ConnWaitAndRelease, PoolState
    <3>2. [c \in Conn |-> PoolState(c)]' =
            [[c \in Conn |-> PoolState(c)] EXCEPT ![current] = "free"]
      BY <1>5, <2>1 DEF ConnWaitAndRelease, PoolState, InductiveInv, TypeOK
    <3>3. \A c \in Conn : PoolServes(c)' = PoolServes(c)
      BY <1>5, <2>1 DEF ConnWaitAndRelease, PoolServes, Serving, InductiveInv,
                        TypeOK
    <3>4. QED
      BY <1>5, <2>1, <3>1, <3>2, <3>3 DEF ConnWaitAndRelease, Pool!Reap
  <2>3. QED
    BY <2>1, <2>2 DEF Pool!Next
<1>6. CASE ServerRunReturn
  <2>1. connectedSocketP = NoSocket /\ current = NoConn
    BY <1>6 DEF ServerRunReturn, InductiveInv, MasterInv, HoldsSocket
  <2>2. Threaded = {}
    BY <1>6, <2>1 DEF ServerRunReturn, InductiveInv, ThreadInv, ThreadsTracked
  <2>3. Pool!Stop
    BY <1>6, <2>1, <2>2, PoolTaken
    DEF ServerRunReturn, connVars, Pool!Stop, PoolState, PoolServes, Serving
  <2>4. QED
    BY <2>3 DEF Pool!Next
<1>7. ASSUME NEW c \in Conn, ConnJob(c) PROVE UNCHANGED Pool!vars
  BY <1>7 DEF ConnJob, masterVars, Pool!vars, PoolState, PoolServes, Serving,
              InductiveInv, TypeOK
<1>8. ASSUME NEW c \in Conn, ConnDone(c) PROVE Pool!Next
  <2>1. PoolState(c) = "busy"
    BY <1>8 DEF ConnDone, PoolState
  <2>2. [d \in Conn |-> PoolState(d)]' =
          [[d \in Conn |-> PoolState(d)] EXCEPT ![c] = "closed"]
    BY <1>8 DEF ConnDone, PoolState, InductiveInv, TypeOK
  <2>3. [d \in Conn |-> PoolServes(d)]' =
          [[d \in Conn |-> PoolServes(d)] EXCEPT ![c] = NoSocket]
    BY <1>8 DEF ConnDone, PoolServes, Serving, InductiveInv, TypeOK
  <2>4. Pool!Close(c)
    BY <1>8, <2>1, <2>2, <2>3 DEF ConnDone, masterVars, Pool!Close
  <2>5. QED
    BY <2>4 DEF Pool!Next
<1>9. CASE \/ ServerTerminate \/ ServerResetTerminate \/ ServerFree
           \/ TestTermination \/ AcceptNothing \/ ScanSkip \/ ScanUnlink
           \/ ScanReturn \/ CapacityFull \/ CapacityFree \/ DrainMore
           \/ AddToOutstandingConnList \/ UNCHANGED vars
  <2>1. UNCHANGED <<connectedSocketP, thread, socketP>>
    BY <1>9
    DEF ServerTerminate, ServerResetTerminate, ServerFree, TestTermination,
        AcceptNothing, ScanSkip, ScanUnlink, ScanReturn, CapacityFull,
        CapacityFree, DrainMore, AddToOutstandingConnList, EnterScan, vars,
        masterVars, connVars
  <2>2. pc' \in {"idle", "freed"} <=> pc \in {"idle", "freed"}
    BY <1>9
    DEF ServerTerminate, ServerResetTerminate, ServerFree, TestTermination,
        AcceptNothing, ScanSkip, ScanUnlink, ScanReturn, CapacityFull,
        CapacityFree, DrainMore, AddToOutstandingConnList, EnterScan, vars,
        masterVars
  <2>3. QED
    BY <2>1, <2>2, PoolSame
<1>10. QED
  BY <1>1, <1>2, <1>3, <1>4, <1>5, <1>6, <1>7, <1>8, <1>9
  DEF Next, Master, Scan, Wait, ConnCreate, Accept, User, ConnThread,
      Terminated

(***************************************************************************)
(* The connection manager implements the abstract pool (its safety part;   *)
(* the fairness part is model-checked).                                    *)
(***************************************************************************)
THEOREM Refinement == Spec => Pool!Spec
BY PoolInit, PoolStep, Inductive, PTL DEF Spec, Pool!Spec
=============================================================================

---------------------------- MODULE AresWorker ----------------------------
(***************************************************************************)
(* Asynchronous name resolution of the TCP binding (aresWorker.c), the one *)
(* place of the system with other threads, together with the part of       *)
(* TCPChannel.c that uses it.  The main thread appends requests to a       *)
(* doubly linked list and marks answered ones for deletion; a worker       *)
(* thread walks along the list, resolves and connects, and frees marked    *)
(* elements.                                                               *)
(* There is no lock.  An action is one access of a thread to what another  *)
(* one uses; the build's stores are visible in program order.              *)
(*                                                                         *)
(* When an existing database is started, startup is called twice: by the   *)
(* creation of the object in TCPbind's setglobalvars and by the startup of *)
(* the root.  The second call begins a new list and may leave two workers  *)
(* that walk it.  Where memory is freed that another thread may be using,  *)
(* what follows is undefined: the model ends there (phase "undermined").   *)
(***************************************************************************)
EXTENDS Naturals, FiniteSets

CONSTANTS
    Elems,            \* the memory cells that calloc hands out (bound)
    Channels,         \* the TCPChannel objects
    Null,
    Starts,           \* how often startup may be called: {1}, {2} or both
    DeletedOpening    \* are channels deleted while they are opening?

ASSUME ElemsAssumption == IsFiniteSet(Elems) /\ Null \notin Elems
ASSUME OptionAssumption == DeletedOpening \in BOOLEAN /\ Starts \subseteq {1, 2}

VARIABLES
    inUse,            \* the cells in use
    pNext, pPrevious, status, socket,      \* fields of an element
    delete,           \* the elements with delete = AIEDELETE_DO
    pFirstElem, pLastElem,
    wpc, pCurrElem, pNextElem,             \* the workers and their locals
    runWorkerThread, workerThreadRunning, v_handleValid, v_threadHandle,
    phase,            \* of the aresWorker object
    mpc, pNewElem, caller,                 \* insertGetAddrInfo and its locals
    v_ConnectionState, v_addrInfoReq, v_actimode,
    forgotten         \* history: the dummy of the first list, when there is a second

list == <<inUse, pNext, pPrevious, delete, pFirstElem, pLastElem>>
answers == <<status, socket>>
worker == <<wpc, pCurrElem, pNextElem>>
threads == <<runWorkerThread, workerThreadRunning, v_handleValid, v_threadHandle>>
flags == <<threads, phase>>
insert == <<mpc, pNewElem, caller>>
channels == <<v_ConnectionState, v_addrInfoReq, v_actimode>>
workerVars == <<list, answers, worker, flags, insert, channels, forgotten>>

Pointers == Elems \cup {Null}

\* The thread of the first startup (or of a restart), and that of the second.
Threads == {"first", "second"}

\* What a request has brought: a connected socket, none that could be
\* connected, or no address at all.
Sockets == {"none", "connected", "invalid", "unresolved"}

WorkerInit ==
    /\ inUse = {} /\ delete = {}
    /\ pNext = [e \in Elems |-> Null] /\ pPrevious = [e \in Elems |-> Null]
    /\ status = [e \in Elems |-> "done"] /\ socket = [e \in Elems |-> "none"]
    /\ pFirstElem = Null /\ pLastElem = Null
    /\ wpc = [t \in Threads |-> "none"]
    /\ pCurrElem = [t \in Threads |-> Null] /\ pNextElem = [t \in Threads |-> Null]
    /\ runWorkerThread = FALSE /\ workerThreadRunning = FALSE
    /\ v_handleValid = FALSE /\ v_threadHandle = "first"
    /\ phase = "startup"
    /\ mpc = "idle" /\ pNewElem = Null /\ caller = Null
    /\ v_ConnectionState = [c \in Channels |-> "CLOSED"]
    /\ v_addrInfoReq = [c \in Channels |-> Null]
    /\ v_actimode = [c \in Channels |-> 0]
    /\ forgotten = Null

\* free: what the cells held is forgotten.  (Their pPrevious is left to the action.)
Free(cells) ==
    /\ inUse' = inUse \ cells /\ delete' = delete \ cells
    /\ pNext' = [e \in Elems |-> IF e \in cells THEN Null ELSE pNext[e]]
    /\ status' = [e \in Elems |-> IF e \in cells THEN "done" ELSE status[e]]
    /\ socket' = [e \in Elems |-> IF e \in cells THEN "none" ELSE socket[e]]

---------------------------------------------------------------------------
(* The aresWorker object, executed by the main thread.                     *)

\* pthread_create succeeds or not; the run flag stays set.
CreateThread(t, ok) ==
    IF ok
    THEN /\ wpc' = [wpc EXCEPT ![t] = "top"]
         /\ v_threadHandle' = t
         /\ workerThreadRunning' = TRUE
    ELSE UNCHANGED <<wpc, v_threadHandle, workerThreadRunning>>

\* The list begins with a dummy that may be deleted.  A second call does all of
\* it again: the first dummy, and the handle of the first thread, are forgotten.
Startup ==
    /\ \/ phase = "startup" /\ 1 \in Starts /\ phase' = "up"
       \/ phase = "startup" /\ 2 \in Starts /\ phase' = "opened"
       \/ phase = "opened" /\ phase' = "up"
    /\ \E e \in Elems \ inUse :
        /\ inUse' = inUse \cup {e} /\ delete' = delete \cup {e}
        /\ pNext' = [pNext EXCEPT ![e] = Null]
        /\ pPrevious' = [pPrevious EXCEPT ![e] = Null]
        /\ pFirstElem' = e /\ pLastElem' = e
    /\ forgotten' = pFirstElem
    /\ runWorkerThread' = TRUE
    /\ \E ok \in BOOLEAN :
        /\ CreateThread(IF phase = "startup" THEN "first" ELSE "second", ok)
        /\ v_handleValid' = ok
    /\ UNCHANGED <<answers, pCurrElem, pNextElem, insert, channels>>

\* The typemethod starts the thread if it is not there; on success it leaves
\* the validity of the handle as it is.
RestartThread ==
    /\ phase = "up" /\ mpc = "idle"
    /\ ~workerThreadRunning
    /\ runWorkerThread' = TRUE
    /\ \E ok \in BOOLEAN :
        /\ CreateThread("first", ok)
        /\ v_handleValid' = (ok /\ v_handleValid)
    /\ UNCHANGED <<list, answers, pCurrElem, pNextElem, phase, insert, channels,
                   forgotten>>

\* With a valid handle, the threads are told to end, and the one of the handle is
\* waited for.
Shutdown ==
    /\ phase = "up" /\ mpc = "idle"
    /\ IF v_handleValid
       THEN phase' = "join" /\ runWorkerThread' = FALSE
       ELSE phase' = "down" /\ UNCHANGED runWorkerThread
    /\ UNCHANGED <<list, answers, worker, workerThreadRunning, v_handleValid,
                   v_threadHandle, insert, channels, forgotten>>

\* The elements on the way of a worker: those in every set that holds the first
\* element and the successor of each of its elements.
ClosedUnderNext(S) ==
    pFirstElem \in S \cup {Null} /\ \A d \in S : pNext[d] \in S \cup {Null}
Reached == {e \in Elems : \A S \in SUBSET Elems : ClosedUnderNext(S) => e \in S}

\* Then all elements that have a successor are freed, also when another thread has
\* not come to its end.
Joined == phase = "join" /\ wpc[v_threadHandle] = "exited"

ShutdownFrees ==
    /\ Joined
    /\ phase' = IF \A t \in Threads : wpc[t] \in {"none", "exited"}
                THEN "down" ELSE "undermined"
    /\ v_handleValid' = FALSE
    /\ Free({e \in Reached : pNext[e] # Null})
    /\ pFirstElem' = Null /\ pLastElem' = Null
    /\ UNCHANGED <<pPrevious, worker, runWorkerThread, workerThreadRunning,
                   v_threadHandle, insert, channels, forgotten>>

---------------------------------------------------------------------------
(* The channels: OpenConnection with insertGetAddrInfo, the part of the    *)
(* typemethod that waits for the answer, CloseConnection and shutdown.     *)

MainRuns == phase \in {"up", "down"} /\ mpc = "idle"

OpenFails(c) ==
    /\ MainRuns
    /\ pLastElem = Null
    /\ v_ConnectionState' = [v_ConnectionState EXCEPT ![c] = "COULDNOTOPEN"]
    /\ v_addrInfoReq' = [v_addrInfoReq EXCEPT ![c] = Null]
    /\ UNCHANGED <<list, answers, worker, flags, insert, v_actimode, forgotten>>

\* A request of an earlier OpenConnection that is still pending is forgotten.
Open(c, e) ==
    /\ MainRuns
    /\ pLastElem # Null /\ e \notin inUse
    /\ inUse' = inUse \cup {e} /\ delete' = delete \ {e}
    /\ status' = [status EXCEPT ![e] = "waiting"]
    /\ socket' = [socket EXCEPT ![e] = "none"]
    /\ pNext' = [pNext EXCEPT ![e] = Null]
    /\ pPrevious' = [pPrevious EXCEPT ![e] = pLastElem]
    /\ v_ConnectionState' = [v_ConnectionState EXCEPT ![c] =
                                IF @ = "OPEN" THEN "CLOSED" ELSE @]
    /\ mpc' = "link" /\ pNewElem' = e /\ caller' = c
    /\ UNCHANGED <<pFirstElem, pLastElem, worker, flags, v_addrInfoReq, v_actimode,
                   forgotten>>

\* "this is the only atomic action"
Link_LastFirst ==
    /\ phase # "undermined" /\ mpc = "link"
    /\ pLastElem' = pNewElem
    /\ pNext' = [pNext EXCEPT ![pLastElem'] = pNewElem]
    /\ mpc' = "last"
    /\ UNCHANGED <<inUse, pPrevious, delete, pFirstElem, answers, worker,
                   flags, pNewElem, caller, channels, forgotten>>

Link ==
    /\ phase # "undermined" /\ mpc = "link"
    /\ pNext' = [pNext EXCEPT ![pLastElem] = pNewElem]
    /\ mpc' = "last"
    /\ UNCHANGED <<inUse, pPrevious, delete, pFirstElem, pLastElem, answers, worker,
                   flags, pNewElem, caller, channels, forgotten>>

Linked ==
    /\ phase # "undermined" /\ mpc = "last"
    /\ pLastElem' = pNewElem
    /\ v_addrInfoReq' = [v_addrInfoReq EXCEPT ![caller] = pNewElem]
    /\ v_ConnectionState' = [v_ConnectionState EXCEPT ![caller] = "OPENING"]
    /\ v_actimode' = [v_actimode EXCEPT ![caller] = 1]
    /\ mpc' = "idle" /\ pNewElem' = Null /\ caller' = Null
    /\ UNCHANGED <<inUse, pNext, pPrevious, delete, pFirstElem, answers, worker, flags,
                   forgotten>>

\* The typemethod of a channel finds an answer.  Without an address the channel
\* is switched off and stays OPENING with its request.
Answered(c) ==
    /\ phase = "up" /\ mpc = "idle"
    /\ v_actimode[c] = 1 /\ v_ConnectionState[c] = "OPENING"
    /\ status[v_addrInfoReq[c]] = "done"

NoAddress(c) ==
    /\ Answered(c) /\ socket[v_addrInfoReq[c]] = "unresolved"
    /\ v_actimode' = [v_actimode EXCEPT ![c] = 0]
    /\ UNCHANGED <<list, answers, worker, flags, insert, v_ConnectionState,
                   v_addrInfoReq, forgotten>>

AfterAddrinfo(c) ==
    LET e == v_addrInfoReq[c]
    IN  /\ Answered(c) /\ socket[e] # "unresolved"
        /\ \/ /\ socket[e] = "connected"
              /\ v_ConnectionState' = [v_ConnectionState EXCEPT ![c] = "OPEN"]
              /\ UNCHANGED v_actimode
           \/ \* not connected, or the name of the peer is not found
              /\ v_ConnectionState' = [v_ConnectionState EXCEPT ![c] = "COULDNOTOPEN"]
              /\ v_actimode' = [v_actimode EXCEPT ![c] = 0]
        /\ delete' = delete \cup {e}
        /\ v_addrInfoReq' = [v_addrInfoReq EXCEPT ![c] = Null]
        /\ UNCHANGED <<inUse, pNext, pPrevious, pFirstElem, pLastElem, answers, worker,
                       flags, insert, forgotten>>

\* CloseConnection does nothing while the channel has no socket.
Close(c) ==
    /\ MainRuns
    /\ v_ConnectionState[c] = "OPEN"
    /\ v_ConnectionState' = [v_ConnectionState EXCEPT ![c] = "CLOSED"]
    /\ UNCHANGED <<list, answers, worker, flags, insert, v_addrInfoReq, v_actimode,
                   forgotten>>

\* A channel is deleted: its shutdown frees its request itself, which is in the
\* list of the workers.  The name is free for another channel.
ChannelShutdown(c) ==
    /\ MainRuns
    /\ v_addrInfoReq[c] = Null \/ DeletedOpening
    /\ Free({v_addrInfoReq[c]})
    /\ v_addrInfoReq' = [v_addrInfoReq EXCEPT ![c] = Null]
    /\ v_ConnectionState' = [v_ConnectionState EXCEPT ![c] = "CLOSED"]
    /\ v_actimode' = [v_actimode EXCEPT ![c] = 0]
    /\ phase' = IF v_addrInfoReq[c] = Null THEN phase ELSE "undermined"
    /\ UNCHANGED <<pPrevious, pFirstElem, pLastElem, worker, threads, insert, forgotten>>

---------------------------------------------------------------------------
(* A worker thread t.                                                      *)

WorkerAt(t, pc) == phase # "undermined" /\ wpc[t] = pc

InElement(t) == wpc[t] \in {"elem", "claim", "resolve", "check", "unlink"}

\* A list that was given up at shutdown has no first element; the thread sleeps.
BeginWalk(t) ==
    /\ WorkerAt(t, "top") /\ runWorkerThread
    /\ pFirstElem # Null
    /\ pCurrElem' = [pCurrElem EXCEPT ![t] = pFirstElem]
    /\ wpc' = [wpc EXCEPT ![t] = "elem"]
    /\ UNCHANGED <<list, answers, pNextElem, flags, insert, channels, forgotten>>

Exit(t) ==
    /\ WorkerAt(t, "top") /\ ~runWorkerThread
    /\ wpc' = [wpc EXCEPT ![t] = "exited"]
    /\ workerThreadRunning' = FALSE
    /\ UNCHANGED <<list, answers, pCurrElem, pNextElem, runWorkerThread, v_handleValid,
                   v_threadHandle, phase, insert, channels, forgotten>>

\* The next element is read before the work on this one, which takes long.
Visit(t) ==
    /\ WorkerAt(t, "elem")
    /\ pNextElem' = [pNextElem EXCEPT ![t] = pNext[pCurrElem[t]]]
    /\ wpc' = [wpc EXCEPT ![t] =
                  IF status[pCurrElem[t]] = "waiting" THEN "claim" ELSE "check"]
    /\ UNCHANGED <<list, answers, pCurrElem, flags, insert, channels, forgotten>>

Claim(t) ==
    /\ WorkerAt(t, "claim")
    /\ status' = [status EXCEPT ![pCurrElem[t]] = "working"]
    /\ wpc' = [wpc EXCEPT ![t] = "resolve"]
    /\ UNCHANGED <<list, socket, pCurrElem, pNextElem, flags, insert, channels,
                   forgotten>>

Resolve_StatusKept(t, s) ==
    /\ WorkerAt(t, "resolve")
    /\ socket' = [socket EXCEPT ![pCurrElem[t]] = s]
    /\ status' = [status EXCEPT ![pCurrElem[t]] = IF s = "unresolved" THEN @ ELSE "done"]
    /\ wpc' = [wpc EXCEPT ![t] = "check"]
    /\ UNCHANGED <<list, pCurrElem, pNextElem, flags, insert, channels, forgotten>>

Resolve(t, s) ==
    /\ WorkerAt(t, "resolve")
    /\ socket' = [socket EXCEPT ![pCurrElem[t]] = s]
    /\ status' = [status EXCEPT ![pCurrElem[t]] = "done"]
    /\ wpc' = [wpc EXCEPT ![t] = "check"]
    /\ UNCHANGED <<list, pCurrElem, pNextElem, flags, insert, channels, forgotten>>

\* "only delete if it is NOT the last element"
MayFree_Last(t) == pCurrElem[t] \in delete
MayFree_Old(t) ==
    pCurrElem[t] \in delete /\ pNextElem[t] # Null /\ pCurrElem[t] # pFirstElem
MayFree(t) == pCurrElem[t] \in delete /\ pNext[pCurrElem[t]] # Null

\* Then pNextElem is not read before it is set again.
Advance(t) ==
    /\ pCurrElem' = [pCurrElem EXCEPT ![t] = pNextElem[t]]
    /\ pNextElem' = [pNextElem EXCEPT ![t] = Null]
    /\ wpc' = [wpc EXCEPT ![t] = IF pNextElem[t] = Null THEN "top" ELSE "elem"]

Keep(t) ==
    /\ WorkerAt(t, "check") /\ ~MayFree(t)
    /\ Advance(t)
    /\ UNCHANGED <<list, answers, flags, insert, channels, forgotten>>

\* The other thread, when there is one, may be in the list as well.
UnlinkForward(t) ==
    /\ WorkerAt(t, "check") /\ MayFree(t)
    /\ LET e == pCurrElem[t]
       IN  IF pPrevious[e] # Null
           THEN /\ pNext' = [pNext EXCEPT ![pPrevious[e]] = pNext[e]]
                /\ UNCHANGED pFirstElem
           ELSE /\ pFirstElem' = pNext[e]
                /\ UNCHANGED pNext
    /\ wpc' = [wpc EXCEPT ![t] = "unlink"]
    /\ phase' = IF \E u \in Threads \ {t} : InElement(u) THEN "undermined" ELSE phase
    /\ UNCHANGED <<inUse, pPrevious, delete, pLastElem, answers, pCurrElem,
                   pNextElem, threads, insert, channels, forgotten>>

UnlinkBackAndFree(t) ==
    LET e == pCurrElem[t]
    IN  /\ WorkerAt(t, "unlink")
        /\ pPrevious' = [pPrevious EXCEPT ![pNext[e]] = pPrevious[e], ![e] = Null]
        /\ Free({e})
        /\ Advance(t)
        /\ UNCHANGED <<pFirstElem, pLastElem, flags, insert, channels, forgotten>>

---------------------------------------------------------------------------
MainStep ==
    \/ Startup \/ RestartThread \/ Shutdown \/ ShutdownFrees
    \/ Link \/ Linked
    \/ \E c \in Channels :
        \/ OpenFails(c)
        \/ \E e \in Elems : Open(c, e)
        \/ NoAddress(c) \/ AfterAddrinfo(c) \/ Close(c) \/ ChannelShutdown(c)

WorkerStep(t) ==
    \/ BeginWalk(t) \/ Exit(t) \/ Visit(t) \/ Claim(t)
    \/ \E s \in Sockets \ {"none"} : Resolve(t, s)
    \/ Keep(t) \/ UnlinkForward(t) \/ UnlinkBackAndFree(t)

WorkerNext == MainStep \/ \E t \in Threads : WorkerStep(t)

WorkerSpec == WorkerInit /\ [][WorkerNext]_workerVars

\* All threads run, getaddrinfo and connect return, and the communication task
\* executes the channels and the worker object.
WorkerFairness ==
    /\ \A t \in Threads : WF_workerVars(WorkerStep(t))
    /\ WF_workerVars(Startup \/ Link \/ Linked \/ ShutdownFrees)
    /\ WF_workerVars(RestartThread)
    /\ SF_workerVars(RestartThread /\ workerThreadRunning')

FairWorkerSpec == WorkerSpec /\ WorkerFairness

---------------------------------------------------------------------------
WorkerPcs == {"none", "top", "elem", "claim", "resolve", "check", "unlink", "exited"}

\* The fields of the elements, the threads and the channels have their values.
WorkerTypeOK ==
    /\ inUse \subseteq Elems /\ delete \subseteq Elems
    /\ pNext \in [Elems -> Pointers] /\ pPrevious \in [Elems -> Pointers]
    /\ status \in [Elems -> {"waiting", "working", "done"}]
    /\ socket \in [Elems -> Sockets]
    /\ pFirstElem \in Pointers /\ pLastElem \in Pointers
    /\ wpc \in [Threads -> WorkerPcs]
    /\ pCurrElem \in [Threads -> Pointers] /\ pNextElem \in [Threads -> Pointers]
    /\ runWorkerThread \in BOOLEAN /\ workerThreadRunning \in BOOLEAN
    /\ v_handleValid \in BOOLEAN /\ v_threadHandle \in Threads
    /\ phase \in {"startup", "opened", "up", "join", "down", "undermined"}
    /\ mpc \in {"idle", "link", "last"}
    /\ pNewElem \in Pointers /\ caller \in Channels \cup {Null}
    /\ v_ConnectionState \in [Channels -> {"CLOSED", "OPENING", "OPEN", "COULDNOTOPEN"}]
    /\ v_addrInfoReq \in [Channels -> Pointers]
    /\ v_actimode \in [Channels -> {0, 1}]
    /\ forgotten \in Pointers

\* Without a lock, no thread ever holds a pointer to memory that another one has
\* freed: a worker stands on an element in use and goes on to one, a channel
\* reads the status of one, and so does the insertion of the next one.
PointersValid ==
    /\ \A t \in Threads :
        /\ InElement(t) => pCurrElem[t] \in inUse
        /\ wpc[t] \in {"claim", "resolve", "check", "unlink"} =>
            pNextElem[t] \in inUse \cup {Null}
    /\ mpc = "link" => pLastElem \in inUse
    /\ phase = "up" =>
        \A c \in Channels :
            /\ v_addrInfoReq[c] \in inUse \cup {Null}
            /\ v_actimode[c] = 1 /\ v_ConnectionState[c] = "OPENING" =>
                v_addrInfoReq[c] # Null

\* No request gets lost between the threads: every element in use is on the way
\* of the workers, but for the one that is being inserted, the ones that are being
\* unlinked, and the dummy of the first list.
NothingLost ==
    phase = "up" =>
        inUse \ Reached
            \subseteq (IF mpc = "link" THEN {pNewElem} ELSE {})
                      \cup {pCurrElem[t] : t \in {u \in Threads : wpc[u] = "unlink"}}
                      \cup {forgotten}

\* The lock-free list is sound for all threads at every access, and the memory of
\* none is lost, until memory is freed that another thread may be using: by the
\* shutdown of a channel that is opening, or by one worker while a second one is
\* in the list.
ListSound == WorkerTypeOK /\ (phase # "undermined" => PointersValid) /\ NothingLost

\* "last element is never deleted, so the pointer is always valid"
\* (aresWorker.c:74): whenever the main thread may read pLastElem, it points at
\* an element in use that has no successor.  (Between the two stores of the
\* insertion the old last element may be freed; nobody reads it then.)
LastElementValid ==
    phase \in {"up", "undermined"} /\ mpc # "last" =>
        pLastElem \in inUse /\ pNext[pLastElem] = Null

\* It is so until memory is freed that another thread may be using.
LastElementKept == phase = "up" => LastElementValid

\* A request is answered, whatever is inserted and deleted meanwhile: the walks
\* of the workers get to the end of the list.
RequestAnswered ==
    \A e \in Elems :
        phase = "up" /\ e \in inUse /\ status[e] = "waiting"
            ~> status[e] = "done" \/ phase # "up"

\* Connections are not opened for ever.
OpeningEnds == <>[](mpc = "idle")

\* An element marked for deletion is freed once it is not the last one, unless
\* connections are opened so fast that the walk over the list never ends: the
\* list does not grow with the number of connections.  Only the dummy of a first
\* list stays for ever.
MarkedAreFreed ==
    OpeningEnds =>
        \A e \in Elems :
            phase = "up" /\ e \in delete \cap inUse /\ e # pLastElem /\ e # forgotten
                ~> e \notin inUse \/ phase # "up"
===========================================================================

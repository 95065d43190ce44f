----------------------------- MODULE Database -----------------------------
(***************************************************************************)
(* The database of a server over several runs of the server process        *)
(* (libov/ov_database.c, main of ov_runtimeserver.c, the start-up and      *)
(* shutdown methods of the objects).  The database is a memory mapped      *)
(* file: every store of the process is in the file, and what the process   *)
(* itself owned (the event list, heap blocks, sockets, threads) is gone    *)
(* when it ends, while the flags, pointers and numbers that refer to it    *)
(* stay in the file.  The process may be killed between any two steps.     *)
(* A loss of power, which may also lose stores, is not modelled.           *)
(***************************************************************************)
EXTENDS Naturals, FiniteSets

CONSTANTS
    Tasks,      \* objects that their startup method registers
    Servers,    \* channels that the listener creates for accepted connections
    Clients     \* channels that open connections themselves

ASSUME ObjectsAssumption ==
    /\ Tasks \cap (Servers \cup Clients) = {} /\ Servers \cap Clients = {}
    /\ {"listener", "worker"} \cap (Tasks \cup Servers \cup Clients) = {}

Channels == Servers \cup Clients
Objects == Tasks \cup Channels

\* The listener and the worker of the TCP binding; its library's open
\* function creates both anew, one after the other at the end of one domain.
Fixtures == {"listener", "worker"}

Files == {"main", "backup"}

VARIABLES
    disk,       \* the files
    heap,       \* the copy that a server with option NOMAP works on
    pc,         \* what the server process is doing
    cur, nomap, ov_backup,
    ended,      \* how the last process has ended, as its user sees it
    todo,       \* the objects a start-up or shutdown has still to visit
    queue,      \* number of events of a task
    live, open, \* channels with a buffer and with a socket of this process
    threads,    \* number of threads that name resolution has not joined
    unrefused,  \* history: the last session on the file was killed while it
                \* was up, and no start has been refused since
    abnormal    \* history: a process has opened libraries on the file and
                \* ended without shutting the database down

process == <<cur, nomap, ov_backup, ended>>
owned == <<queue, live, open, threads>>
history == <<unrefused, abnormal>>
vars == <<disk, heap, pc, process, todo, owned, history>>

\* There is nothing to work on: no file, one without a complete header, or one
\* that has been filled with what nobody has written.
NoImage == [objs |-> {"none"}]

\* root: OV_OS_STARTED of the root object; active: the objects with
\* OV_OS_ACTIVE; data: the channels with a pointer to a buffer; handleValid:
\* that of the worker; whole: the file has not been cut off behind the header,
\* which holds the mark.  A channel of the server side has a socket number as
\* long as it exists; that of a client channel is reset where its buffers are.
Images ==
    [root : BOOLEAN, objs : SUBSET Objects, active : SUBSET Tasks,
     data : SUBSET Channels, handleValid : BOOLEAN, whole : BOOLEAN]

EmptyImage ==
    [root |-> FALSE, objs |-> {}, active |-> {}, data |-> {},
     handleValid |-> FALSE, whole |-> TRUE]

pdb == IF nomap THEN heap ELSE disk[cur]

Store(image) ==
    IF nomap THEN heap' = image /\ UNCHANGED disk
             ELSE disk' = [disk EXCEPT ![cur] = image] /\ UNCHANGED heap

\* The file in use, whose history a step goes into.
Mapped == IF nomap THEN {} ELSE {cur}

Mark(h, files, value) ==
    [f \in Files |-> IF f \in files THEN value ELSE h[f]]

Init ==
    /\ disk = [f \in Files |-> IF f = "main" THEN EmptyImage ELSE NoImage]
    /\ heap = NoImage /\ pc = "down" /\ todo = {}
    /\ cur = "main" /\ nomap = FALSE /\ ov_backup = FALSE /\ ended = "stopped"
    /\ queue = [t \in Tasks |-> 0] /\ live = {} /\ open = {}
    /\ threads = 0
    /\ unrefused = [f \in Files |-> FALSE]
    /\ abnormal = [f \in Files |-> FALSE]

---------------------------------------------------------------------------
(* main: load, start up, run, shut down                                     *)

\* The process ends; only the files stay.
End(how) ==
    /\ pc' = "down" /\ ended' = how /\ heap' = NoImage /\ todo' = {}
    /\ cur' = "main" /\ nomap' = FALSE /\ ov_backup' = FALSE
    /\ queue' = [t \in Tasks |-> 0] /\ live' = {} /\ open' = {}
    /\ threads' = 0

Start ==
    /\ pc = "down"
    /\ pc' = "load" /\ nomap' \in BOOLEAN /\ ended' = "running"
    /\ UNCHANGED <<disk, heap, cur, ov_backup, todo, owned, history>>

\* A file with a header is loaded, whole or cut off: its size is not compared
\* with the one in the header.
Load ==
    /\ pc = "load" /\ disk[cur] # NoImage
    /\ pc' = "startup" /\ heap' = IF nomap THEN disk[cur] ELSE NoImage
    /\ UNCHANGED <<disk, process, todo, owned, history>>

\* The file is missing or has no complete header, or cannot be opened, locked
\* or mapped: the backup is tried once.
LoadFails ==
    /\ pc = "load"
    /\ \/ /\ ~ov_backup
          /\ ov_backup' = TRUE /\ cur' = "backup"
          /\ UNCHANGED <<disk, heap, pc, nomap, ended, todo, owned, history>>
       \/ ov_backup /\ End("failed") /\ UNCHANGED <<disk, history>>

EndWith(image, how) ==
    /\ disk' = IF nomap THEN disk ELSE [disk EXCEPT ![cur] = image]
    /\ End(how)

\* The root object is marked as started: the mark is cleared and the start
\* fails.  A start that fails ends the process without a shutdown: main goes
\* back to MAPBACKUP, but ov_database_loadfile refuses because pdb is set.
Refuse_MarkKept ==
    /\ pc = "startup" /\ pdb.root
    /\ EndWith(pdb, "refused")
    /\ unrefused' = Mark(unrefused, Mapped, FALSE) /\ UNCHANGED abnormal
Refuse ==
    /\ pc = "startup" /\ pdb.root
    /\ EndWith([pdb EXCEPT !.root = FALSE], "refused")
    /\ unrefused' = Mark(unrefused, Mapped, FALSE) /\ UNCHANGED abnormal

Without(image, objects) ==
    [image EXCEPT !.objs = @ \ objects, !.data = @ \ objects]

\* Opening the library of the TCP binding deletes the listener of the last
\* session with its channels and the worker, and creates both again.  Their
\* creation starts them, and the worker has created a thread.  (That a thread
\* cannot be created is left out.)
TCPbindOpened(image) == [Without(image, Servers) EXCEPT !.handleValid = TRUE]

OpenLibraries ==
    /\ pc = "startup" /\ ~pdb.root
    /\ Store(TCPbindOpened(pdb)) /\ threads' = threads + 1
    /\ pc' = "walk" /\ todo' = (pdb.objs \ Servers) \cup {"worker"}
    /\ UNCHANGED <<process, queue, live, open, history>>

\* Some library cannot be opened or differs from the one in the database;
\* that of the TCP binding may have been opened before.
OpenFails ==
    /\ pc = "startup" /\ ~pdb.root
    /\ \/ EndWith(pdb, "failed") /\ UNCHANGED abnormal
       \/ /\ EndWith(TCPbindOpened(pdb), "failed")
          /\ abnormal' = Mark(abnormal, Mapped, TRUE)
    /\ UNCHANGED unrefused

\* What the deleted channels and the deleted worker refer to belonged to the
\* process that left them: freeing such buffers and joining such a thread is
\* undefined, and the process may die of it.
LeftOver(image) == image.data \cap Servers # {} \/ image.handleValid

OpenDies ==
    /\ pc = "startup" /\ ~pdb.root /\ LeftOver(pdb)
    /\ \E deleted \in SUBSET Servers :
          EndWith(Without(pdb, deleted), "killed")
    /\ UNCHANGED history

register(t) == queue' = [queue EXCEPT ![t] = @ + 1]

\* Only the first event of the object is taken out.
unregister(t) ==
    queue' = [queue EXCEPT ![t] = IF @ = 0 THEN 0 ELSE @ - 1]

StartupTask(o) ==
    /\ o \in Tasks /\ register(o) /\ UNCHANGED <<live, open, threads>>
    /\ Store([pdb EXCEPT !.active = @ \cup {o}, !.objs = @ \cup {o}])

\* A channel forgets its buffers and its socket.
StartupChannel_BuffersKept(o) ==
    /\ o \in Channels /\ UNCHANGED owned
    /\ Store([pdb EXCEPT !.objs = @ \cup {o}])
StartupChannel(o) ==
    /\ o \in Channels /\ UNCHANGED owned
    /\ Store([pdb EXCEPT !.objs = @ \cup {o}, !.data = @ \ {o}])

\* The worker has been started when its library was opened: it creates a
\* second thread, whose handle takes the place of that of the first.
StartupWorker ==
    /\ Store([pdb EXCEPT !.handleValid = TRUE])
    /\ threads' = threads + 1 /\ UNCHANGED <<queue, live, open>>

Startup(o) ==
    \/ StartupTask(o) \/ StartupChannel(o)
    \/ o = "worker" /\ StartupWorker

\* The order of the children is that of the containment, which may be any.
\* (The listener has no startup method of its own.)
StartObject(o) ==
    /\ pc = "walk" /\ o \in todo
    /\ Startup(o) /\ todo' = todo \ {o}
    /\ UNCHANGED <<pc, process, history>>

StartRoot ==
    /\ pc = "walk" /\ todo = {}
    /\ Store([pdb EXCEPT !.root = TRUE]) /\ pc' = "up"
    /\ UNCHANGED <<process, todo, owned, history>>

\* The server loop is left: the shutdown of the root object begins.
Stop_MarkFirst ==
    /\ pc = "up"
    /\ pc' = "stopping" /\ todo' = (pdb.objs \ Servers) \cup Fixtures
    /\ Store([pdb EXCEPT !.root = FALSE])
    /\ UNCHANGED <<process, owned, history>>
Stop ==
    /\ pc = "up"
    /\ pc' = "stopping" /\ todo' = (pdb.objs \ Servers) \cup Fixtures
    /\ UNCHANGED <<disk, heap, process, owned, history>>

ShutdownTask(o) ==
    /\ o \in Tasks /\ unregister(o) /\ UNCHANGED <<live, open, threads>>
    /\ Store([pdb EXCEPT !.active = IF queue[o] = 0 THEN @ ELSE @ \ {o}])

ShutdownChannel(o) ==
    /\ o \in Channels /\ Store([pdb EXCEPT !.data = @ \ {o}])
    /\ live' = live \ {o} /\ UNCHANGED <<queue, open, threads>>

\* The listener deletes the channels it has created.
ShutdownListener ==
    /\ Store(Without(pdb, Servers))
    /\ live' = live \ Servers /\ open' = open \ Servers
    /\ UNCHANGED <<queue, threads>>

\* The worker waits for the end of the thread whose handle it has.
ShutdownWorker ==
    /\ Store([pdb EXCEPT !.handleValid = FALSE])
    /\ threads' = IF pdb.handleValid THEN threads - 1 ELSE threads
    /\ UNCHANGED <<queue, live, open>>

Shutdown(o) ==
    \/ ShutdownTask(o) \/ ShutdownChannel(o)
    \/ o = "listener" /\ ShutdownListener
    \/ o = "worker" /\ ShutdownWorker

\* The worker comes right after the listener.
InOrder(o) == o = "worker" <=> {"listener", "worker"} \cap todo = {"worker"}

StopObject(o) ==
    /\ pc = "stopping" /\ o \in todo /\ InOrder(o)
    /\ Shutdown(o) /\ todo' = todo \ {o}
    /\ UNCHANGED <<pc, process, history>>

\* The mark of the root object is cleared last; the libraries are closed and
\* the file is unmapped.
StopRoot ==
    /\ pc = "stopping" /\ todo = {}
    /\ EndWith([pdb EXCEPT !.root = FALSE], "stopped")
    /\ unrefused' = Mark(unrefused, Mapped, FALSE)
    /\ abnormal' = Mark(abnormal, Mapped, FALSE)

---------------------------------------------------------------------------
(* A running server                                                         *)

CreateObject(o) ==
    /\ pc = "up" /\ o \in (Tasks \cup Clients) \ pdb.objs
    /\ Startup(o)
    /\ UNCHANGED <<pc, process, todo, history>>

\* ov_class_deleteobject: the shutdown method, then the object is gone.  A
\* task is no longer ACTIVE when that is tested after its shutdown.
DeleteObject_StillScheduled(o) ==
    /\ pc = "up" /\ o \in (Tasks \cup Clients) \cap pdb.objs
    /\ Store([Without(pdb, {o}) EXCEPT !.active = @ \ {o}])
    /\ live' = live \ {o}
    /\ UNCHANGED <<pc, process, todo, queue, open, threads, history>>
DeleteObject(o) ==
    /\ pc = "up" /\ o \in (Tasks \cup Clients) \cap pdb.objs
    /\ Store([Without(pdb, {o}) EXCEPT !.active = @ \ {o}])
    /\ IF o \in Tasks THEN unregister(o) ELSE UNCHANGED queue
    /\ live' = live \ {o}
    /\ UNCHANGED <<pc, process, todo, open, threads, history>>

\* The listener creates a channel for a connection.
Accept(c) ==
    /\ pc = "up" /\ c \in Servers \ pdb.objs
    /\ Store([pdb EXCEPT !.objs = @ \cup {c}])
    /\ open' = open \cup {c}
    /\ UNCHANGED <<pc, process, todo, queue, live, threads, history>>

Receive(c) ==
    /\ pc = "up" /\ c \in Channels \cap pdb.objs
    /\ Store([pdb EXCEPT !.data = @ \cup {c}])
    /\ live' = live \cup {c}
    /\ UNCHANGED <<pc, process, todo, queue, open, threads, history>>

\* The received data have been handled, or have not been used in time.
Release(c) ==
    /\ pc = "up" /\ c \in pdb.data
    /\ Store([pdb EXCEPT !.data = @ \ {c}])
    /\ live' = live \ {c}
    /\ UNCHANGED <<pc, process, todo, queue, open, threads, history>>

\* The connection ends: a channel of the server side deletes itself.
Close(c) ==
    /\ pc = "up" /\ c \in Servers \cap pdb.objs
    /\ Store(Without(pdb, {c}))
    /\ open' = open \ {c} /\ live' = live \ {c}
    /\ UNCHANGED <<pc, process, todo, queue, threads, history>>

\* What a copy of the database can become: a file without a complete header,
\* one that was cut off behind it, or all of it.
Copies == {NoImage, [pdb EXCEPT !.whole = FALSE], pdb}

\* Reading a vendor variable writes the database of the running server to
\* the backup file; how much of it could be written is not looked at.
WriteBackup ==
    /\ pc = "up" /\ Mapped # {"backup"}
    /\ \E copy \in Copies : disk' = [disk EXCEPT !["backup"] = copy]
    /\ unrefused' = Mark(unrefused, {"backup"}, TRUE)
    /\ abnormal' = Mark(abnormal, {"backup"}, TRUE)
    /\ UNCHANGED <<heap, pc, process, todo, owned>>

Killed(files) ==
    /\ pc # "down" /\ End("killed")
    /\ unrefused' = IF pc \in {"up", "stopping"}
                    THEN Mark(unrefused, files, TRUE) ELSE unrefused
    /\ abnormal' = IF pc \in {"walk", "up", "stopping"}
                   THEN Mark(abnormal, files, TRUE) ELSE abnormal

Kill == Killed(Mapped) /\ UNCHANGED disk

\* The backup file is emptied before it is written, and a process killed in
\* between leaves what it has written.  One that runs on that file cuts off
\* its own database and dies.
WriteBackupDies ==
    /\ pc = "up"
    /\ \E copy \in IF Mapped = {"backup"} THEN {NoImage} ELSE Copies :
          disk' = [disk EXCEPT !["backup"] = copy]
    /\ Killed(Mapped \cup {"backup"})

\* A process comes across what is missing in its image.  Behind the end of a
\* mapped file it dies, or reads zeroes up to the end of the page; a copy has
\* whatever was in that memory.  Before it ends it may have spoiled the
\* backup, which is the file it works on when that is mapped.
TouchMissing ==
    /\ pc \in {"startup", "walk", "up", "stopping"} /\ ~pdb.whole
    /\ \/ UNCHANGED disk
       \/ disk' = [disk EXCEPT !["backup"] = NoImage]
    /\ Killed(Mapped)

---------------------------------------------------------------------------
Next ==
    \/ Start \/ Load \/ LoadFails \/ Refuse
    \/ OpenLibraries \/ OpenFails \/ OpenDies
    \/ \E o \in Objects \cup Fixtures : StartObject(o) \/ StopObject(o)
    \/ StartRoot \/ Stop \/ StopRoot
    \/ \E o \in Objects :
          CreateObject(o) \/ DeleteObject(o) \/ Accept(o) \/ Receive(o)
          \/ Release(o) \/ Close(o)
    \/ WriteBackup \/ WriteBackupDies \/ TouchMissing \/ Kill

\* main goes on until the server runs, and through a shutdown; a server that
\* is down is started again.
Fairness ==
    /\ WF_vars(Start)
    /\ WF_vars(\/ Load \/ LoadFails \/ Refuse \/ OpenLibraries
               \/ StartRoot \/ StopRoot
               \/ \E o \in Objects \cup Fixtures :
                     StartObject(o) \/ StopObject(o))

Spec == Init /\ [][Next]_vars

FairSpec == Spec /\ Fairness

---------------------------------------------------------------------------
\* Images, processes and what they own have their values, and a process that
\* works on an image that was cut off works on the backup: the main file is
\* always whole (ov_database_loadfile, ov_database_write).
TypeOK ==
    /\ disk \in [Files -> Images \cup {NoImage}]
    /\ heap \in Images \cup {NoImage}
    /\ pc \in {"down", "load", "startup", "walk", "up", "stopping"}
    /\ ended \in {"running", "stopped", "refused", "failed", "killed"}
    /\ cur \in Files /\ nomap \in BOOLEAN /\ ov_backup \in BOOLEAN
    /\ todo \in SUBSET (Objects \cup Fixtures)
    /\ queue \in [Tasks -> Nat]
    /\ live \in SUBSET Channels /\ open \in SUBSET Channels
    /\ threads \in 0..2
    /\ unrefused \in [Files -> BOOLEAN] /\ abnormal \in [Files -> BOOLEAN]
    /\ pc \notin {"down", "load"} =>
          pdb # NoImage /\ (pdb.whole \/ cur = "backup")

\* The mark of the root object (ov_database_startup): a server never comes up
\* on a database whose last session was killed after it had come up and
\* before it was shut down completely, nor on a copy written by a running
\* server, unless a start has been refused in between.
KilledIsRefused ==
    [][(pc # "up" /\ pc' = "up") => ~unrefused[cur]]_vars

\* While the objects of a database run or are shut down, no buffer and no
\* socket number of a channel and no handle of a thread belonged to an earlier
\* process, wherever that one was killed: the shutdown methods free, close and
\* join only what this process has allocated, opened and created.
NothingOfEarlierProcess ==
    pc \in {"up", "stopping"} =>
        /\ pdb.data \subseteq live
        /\ Servers \cap pdb.objs \subseteq open
        /\ pdb.handleValid => threads > 0

\* A complete shutdown leaves nothing a later start can die of: whatever the
\* opening of the libraries finds of an earlier process was left by one that
\* did not shut the database down.
CleanStartIsSafe ==
    pc = "startup" /\ ~abnormal[cur] =>
        ~LeftOver(pdb) /\ pdb.data = {} /\ Servers \cap pdb.objs = {}

\* Nothing that a process uses belonged to an earlier one.
OwnsWhatItUses == TypeOK /\ NothingOfEarlierProcess /\ CleanStartIsSafe

\* A running server has exactly one event for each task of the database and
\* none for a deleted one, and the ACTIVE flags in the file, which outlive
\* the event list, agree with it.
EventsMatchDatabase ==
    /\ pc = "up" =>
          /\ \A t \in Tasks : queue[t] = IF t \in pdb.objs THEN 1 ELSE 0
          /\ pdb.active = Tasks \cap pdb.objs
    /\ \A t \in Tasks :
          queue[t] > 0 => queue[t] = 1 /\ t \in pdb.objs \cap pdb.active

\* "The next try to start the database will succeed": a server that is
\* started again and again comes up again and again, once processes no longer
\* die, libraries and files can be opened, and the file is mapped.
Undisturbed == ended \notin {"killed", "failed"} /\ ~nomap /\ ~ov_backup
RetrySucceeds == <>[]Undisturbed => []<>(pc = "up")
===========================================================================

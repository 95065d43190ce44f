-------------------------- MODULE DatabaseProofs --------------------------
(***************************************************************************)
(* The invariants of the database over any number of runs of the server    *)
(* process, for any sets of tasks and channels.                            *)
(***************************************************************************)
EXTENDS Database, TLAPS

\* A process that has opened the libraries of the database.
InUse == pc \in {"walk", "up", "stopping"}

\* Only objects that exist are marked as active or have buffers.
ImageInv(image) == image.data \subseteq image.objs /\ image.active \subseteq image.objs

\* What a complete shutdown leaves.
Clean(image) ==
    /\ ~image.handleValid /\ image.data = {} /\ Servers \cap image.objs = {}

\* A file with a header: only a backup may have been cut off, a session killed
\* while it was up has left its mark, unless a start was refused since, and a
\* file that no process works on has nothing of a process in it, unless one has
\* ended abnormally.
FileInv(f) ==
    disk[f] # NoImage =>
        /\ ImageInv(disk[f])
        /\ disk[f].whole \/ f = "backup"
        /\ unrefused[f] => disk[f].root
        /\ ~abnormal[f] /\ ~(InUse /\ f \in Mapped) => Clean(disk[f])

\* A process that has not yet opened the libraries owns nothing, and works on
\* what is in the file.
IdleInv ==
    /\ pc \in {"down", "load", "startup"} =>
        queue = [t \in Tasks |-> 0] /\ live = {} /\ open = {} /\ threads = 0
    /\ pc = "startup" /\ nomap => heap = disk[cur]

\* Whatever the file brought along is still to be visited by the start-up; the
\* visited tasks are registered and marked.
StartInv ==
    pc = "walk" =>
        /\ ~unrefused[cur]
        /\ live = {} /\ open = {} /\ threads = IF "worker" \in todo THEN 1 ELSE 2
        /\ todo \cap Objects \subseteq pdb.objs
        /\ Servers \cap pdb.objs = {}
        /\ pdb.data \subseteq todo
        /\ \A t \in Tasks : queue[t] = IF t \in pdb.objs \ todo THEN 1 ELSE 0
        /\ (Tasks \cap pdb.objs) \ todo \subseteq pdb.active

\* A running server owns what its database refers to.
UpInv ==
    pc = "up" =>
        /\ pdb.root /\ threads = 2
        /\ pdb.data \subseteq live /\ Servers \cap pdb.objs \subseteq open
        /\ \A t \in Tasks : queue[t] = IF t \in pdb.objs THEN 1 ELSE 0
        /\ pdb.active = Tasks \cap pdb.objs

\* What a shutdown has not yet released belongs to objects it still visits.
StopInv ==
    pc = "stopping" =>
        /\ pdb.root
        /\ IF "worker" \in todo THEN threads = 2 ELSE threads \in 1..2
        /\ pdb.data \subseteq live /\ Servers \cap pdb.objs \subseteq open
        /\ \A t \in Tasks : queue[t] > 0 => queue[t] = 1 /\ t \in pdb.objs \cap pdb.active
        /\ pdb.data \cap Clients \subseteq todo
        /\ "listener" \notin todo => Servers \cap pdb.objs = {}
        /\ "worker" \notin todo => ~pdb.handleValid

\* The image a process works on.
WorkInv ==
    pc \notin {"down", "load"} =>
        pdb \in Images /\ ImageInv(pdb) /\ (pdb.whole \/ cur = "backup")

\* The types of the variables but for the image a process works on.
VarsOK ==
    /\ disk \in [Files -> Images \cup {NoImage}]
    /\ heap \in Images \cup {NoImage}
    /\ pc \in {"down", "load", "startup", "walk", "up", "stopping"}
    /\ ended \in {"running", "stopped", "refused", "failed", "killed"}
    /\ cur \in Files /\ nomap \in BOOLEAN /\ ov_backup \in BOOLEAN
    /\ todo \in SUBSET (Objects \cup Fixtures)
    /\ queue \in [Tasks -> Nat]
    /\ live \in SUBSET Channels /\ open \in SUBSET Channels /\ threads \in 0..2
    /\ unrefused \in [Files -> BOOLEAN] /\ abnormal \in [Files -> BOOLEAN]

FilesInv == \A f \in Files : FileInv(f)

DbInv ==
    VarsOK /\ WorkInv /\ FilesInv /\ IdleInv /\ StartInv /\ UpInv /\ StopInv

---------------------------------------------------------------------------
\* A missing file is not an image.
LEMMA NoImageIsNone == NoImage \notin Images
  BY DEF NoImage, Images

\* The kinds of objects are disjoint.
LEMMA Kinds ==
    /\ \A o \in Tasks : o \notin Servers /\ o \notin Clients /\ o \notin Fixtures
    /\ \A o \in Servers : o \notin Clients /\ o \notin Tasks /\ o \notin Fixtures
    /\ \A o \in Clients : o \notin Servers /\ o \notin Tasks /\ o \notin Fixtures
    /\ "listener" \in Fixtures /\ "worker" \in Fixtures
    /\ Objects = Tasks \cup Servers \cup Clients /\ Channels = Servers \cup Clients
  BY ObjectsAssumption DEF Fixtures, Objects, Channels

\* The inductive invariant gives the two invariants of the specification.
LEMMA DbInvImplies == DbInv => OwnsWhatItUses /\ EventsMatchDatabase
  <1> SUFFICES ASSUME DbInv PROVE OwnsWhatItUses /\ EventsMatchDatabase
    OBVIOUS
  <1>1. TypeOK
    BY NoImageIsNone DEF DbInv, VarsOK, WorkInv, TypeOK
  <1>2. NothingOfEarlierProcess
    BY DEF DbInv, UpInv, StopInv, NothingOfEarlierProcess
  <1>3. CleanStartIsSafe
    <2> SUFFICES ASSUME pc = "startup", ~abnormal[cur]
                 PROVE  ~LeftOver(pdb) /\ pdb.data = {} /\ Servers \cap pdb.objs = {}
      BY DEF CleanStartIsSafe
    <2>1. cur \in Files /\ pdb = disk[cur] /\ disk[cur] # NoImage
      BY NoImageIsNone DEF DbInv, VarsOK, WorkInv, IdleInv, pdb
    <2>2. Clean(disk[cur])
      BY <2>1 DEF DbInv, FilesInv, FileInv, InUse
    <2> QED BY <2>1, <2>2 DEF Clean, LeftOver
  <1>4. EventsMatchDatabase
    <2>1. ASSUME NEW t \in Tasks, queue[t] > 0
          PROVE  queue[t] = 1 /\ t \in pdb.objs \cap pdb.active
      <3>1. CASE pc \in {"down", "load", "startup"}
        BY <2>1, <3>1 DEF DbInv, IdleInv
      <3>2. CASE pc = "walk"
        <4>1. queue[t] = IF t \in pdb.objs \ todo THEN 1 ELSE 0
          BY <3>2 DEF DbInv, StartInv
        <4>2. t \in pdb.objs \ todo /\ queue[t] = 1
          BY <2>1, <4>1
        <4> QED BY <3>2, <4>2 DEF DbInv, StartInv
      <3>3. CASE pc = "up"
        <4>1. queue[t] = IF t \in pdb.objs THEN 1 ELSE 0
          BY <3>3 DEF DbInv, UpInv
        <4>2. t \in pdb.objs /\ queue[t] = 1
          BY <2>1, <4>1
        <4> QED BY <3>3, <4>2 DEF DbInv, UpInv
      <3>4. CASE pc = "stopping"
        BY <2>1, <3>4 DEF DbInv, StopInv
      <3> QED BY <3>1, <3>2, <3>3, <3>4 DEF DbInv, VarsOK
    <2> QED BY <2>1 DEF EventsMatchDatabase, DbInv, UpInv
  <1> QED BY <1>1, <1>2, <1>3, <1>4 DEF OwnsWhatItUses

\* The database is empty and no process runs.
LEMMA DbInit == Init => DbInv
  <1> SUFFICES ASSUME Init PROVE DbInv
    OBVIOUS
  <1>0. EmptyImage \in Images
    BY DEF EmptyImage, Images
  <1>1. VarsOK
    <2>1. nomap \in BOOLEAN /\ ov_backup \in BOOLEAN
          /\ unrefused \in [Files -> BOOLEAN] /\ abnormal \in [Files -> BOOLEAN]
      BY DEF Init
    <2>2. queue \in [Tasks -> Nat]
      BY DEF Init
    <2>3. disk \in [Files -> Images \cup {NoImage}] /\ cur \in Files
      BY <1>0 DEF Init, Files
    <2> QED BY <2>1, <2>2, <2>3 DEF Init, VarsOK
  <1>2. FilesInv
    BY DEF Init, FilesInv, FileInv, ImageInv, Clean, EmptyImage
  <1>3. WorkInv /\ IdleInv /\ StartInv /\ UpInv /\ StopInv
    BY DEF Init, WorkInv, IdleInv, StartInv, UpInv, StopInv
  <1> QED BY <1>1, <1>2, <1>3 DEF DbInv

---------------------------------------------------------------------------
(* The two ways to change the database: a store of a process that goes on, *)
(* and the end of a process.                                               *)

\* A store reaches the image the process works on, and no other file.
LEMMA StoreSets ==
    ASSUME DbInv, NEW image \in Images, Store(image), UNCHANGED <<cur, nomap>>
    PROVE  /\ pdb' = image
           /\ disk' \in [Files -> Images \cup {NoImage}]
           /\ heap' \in Images \cup {NoImage}
           /\ \A f \in Files : disk'[f] = IF f \in Mapped THEN image ELSE disk[f]
  <1>0. /\ disk \in [Files -> Images \cup {NoImage}] /\ cur \in Files
        /\ heap \in Images \cup {NoImage}
    BY DEF DbInv, VarsOK
  <1>1. CASE nomap
    BY <1>0, <1>1 DEF Store, pdb, Mapped
  <1>2. CASE ~nomap
    <2>1. disk' = [disk EXCEPT ![cur] = image] /\ heap' = heap
      BY <1>2 DEF Store
    <2> QED BY <1>0, <1>2, <2>1 DEF pdb, Mapped
  <1> QED BY <1>1, <1>2

\* A store of a process that goes on and does not clear the mark of the root
\* object keeps the files in order.
LEMMA StoreKeepsFiles ==
    ASSUME DbInv, pc \notin {"down", "load"}, InUse',
           NEW image \in Images, ImageInv(image), pdb.root => image.root,
           image.whole = pdb.whole,
           Store(image), UNCHANGED <<cur, nomap, unrefused, abnormal>>
    PROVE  FilesInv' /\ WorkInv' /\ pdb' = image
  <1>1. /\ pdb' = image
        /\ \A f \in Files : disk'[f] = IF f \in Mapped THEN image ELSE disk[f]
    BY StoreSets
  <1>2. Mapped' = Mapped /\ \A f \in Mapped : f = cur /\ ~nomap /\ pdb = disk[f]
    BY DEF Mapped, pdb
  <1>w. image.whole \/ cur = "backup"
    BY DEF DbInv, WorkInv
  <1>3. ASSUME NEW f \in Files PROVE FileInv(f)'
    <2>1. FileInv(f)
      BY DEF DbInv, FilesInv
    <2>2. CASE f \in Mapped
      <3>1. disk'[f] = image
        BY <1>1, <2>2
      <3>2. unrefused[f] => image.root
        <4>1. pdb = disk[f] /\ disk[f] # NoImage
          BY <1>2, <2>2, NoImageIsNone DEF DbInv, WorkInv
        <4> QED BY <2>1, <4>1 DEF FileInv
      <3> QED BY <1>2, <1>w, <2>2, <3>1, <3>2 DEF FileInv
    <2>3. CASE f \notin Mapped
      <3>1. disk'[f] = disk[f]
        BY <1>1, <2>3
      <3> QED BY <1>2, <2>1, <2>3, <3>1 DEF FileInv
    <2> QED BY <2>2, <2>3
  <1> QED BY <1>1, <1>w, <1>3 DEF FilesInv, WorkInv

\* A process that ends leaves files in order when its own file is.
LEMMA EndKeeps ==
    ASSUME DbInv, NEW how \in {"stopped", "refused", "failed", "killed"}, End(how),
           disk' \in [Files -> Images \cup {NoImage}],
           unrefused' \in [Files -> BOOLEAN], abnormal' \in [Files -> BOOLEAN],
           \A f \in Files : disk'[f] # NoImage =>
                /\ ImageInv(disk'[f]) /\ (disk'[f].whole \/ f = "backup")
                /\ unrefused'[f] => disk'[f].root
                /\ ~abnormal'[f] => Clean(disk'[f])
    PROVE  DbInv'
  <1>1. VarsOK'
    <2>1. nomap' \in BOOLEAN /\ ov_backup' \in BOOLEAN
      BY DEF End
    <2>2. queue' \in [Tasks -> Nat]
      BY DEF End
    <2> QED BY <2>1, <2>2 DEF End, VarsOK, Files
  <1>2. FilesInv'
    BY DEF FilesInv, FileInv
  <1>3. WorkInv' /\ IdleInv' /\ StartInv' /\ UpInv' /\ StopInv'
    BY DEF End, WorkInv, IdleInv, StartInv, UpInv, StopInv
  <1> QED BY <1>1, <1>2, <1>3 DEF DbInv

\* The same for a process that stores an image before it ends: the other files
\* are as they were.
LEMMA EndWithKeeps ==
    ASSUME DbInv, pc \notin {"down", "load"}, NEW image \in Images, ImageInv(image),
           image.whole = pdb.whole,
           NEW how \in {"stopped", "refused", "failed", "killed"}, EndWith(image, how),
           unrefused' \in [Files -> BOOLEAN], abnormal' \in [Files -> BOOLEAN],
           \A f \in Files \ Mapped : unrefused'[f] = unrefused[f]
                                     /\ abnormal'[f] = abnormal[f],
           \A f \in Mapped : /\ unrefused'[f] => image.root
                             /\ ~abnormal'[f] => Clean(image)
    PROVE  DbInv'
  <1>0. disk \in [Files -> Images \cup {NoImage}] /\ cur \in Files /\ Mapped \subseteq Files
    BY DEF DbInv, VarsOK, Mapped
  <1>1. /\ disk' \in [Files -> Images \cup {NoImage}]
        /\ \A f \in Files : disk'[f] = IF f \in Mapped THEN image ELSE disk[f]
    BY <1>0 DEF EndWith, Mapped
  <1>2. ASSUME NEW f \in Files, disk'[f] # NoImage
        PROVE  /\ ImageInv(disk'[f]) /\ (disk'[f].whole \/ f = "backup")
               /\ unrefused'[f] => disk'[f].root
               /\ ~abnormal'[f] => Clean(disk'[f])
    <2>1. CASE f \in Mapped
      <3>1. image.whole \/ f = "backup"
        BY <2>1 DEF DbInv, WorkInv, Mapped
      <3> QED BY <1>1, <2>1, <3>1
    <2>2. CASE f \notin Mapped
      <3>1. disk'[f] = disk[f] /\ unrefused'[f] = unrefused[f] /\ abnormal'[f] = abnormal[f]
        BY <1>1, <2>2
      <3> QED BY <1>2, <2>2, <3>1 DEF DbInv, FilesInv, FileInv
    <2> QED BY <2>1, <2>2
  <1>3. End(how)
    BY DEF EndWith
  <1> QED BY <1>1, <1>2, <1>3, EndKeeps

---------------------------------------------------------------------------
(* Loading and starting up.                                                *)

\* A start, a load and a load that fails: nothing is owned yet.
LEMMA LoadKeeps ==
    ASSUME DbInv, Start \/ Load \/ LoadFails
    PROVE  DbInv'
  <1>0. VarsOK /\ FilesInv /\ IdleInv
    BY DEF DbInv
  <1>1. ASSUME Start PROVE DbInv'
    <2>1. VarsOK'
      BY <1>0, <1>1 DEF Start, VarsOK, owned, history
    <2>2. FilesInv'
      BY <1>0, <1>1 DEF Start, FilesInv, FileInv, InUse, history
    <2>3. WorkInv' /\ IdleInv' /\ StartInv' /\ UpInv' /\ StopInv'
      BY <1>0, <1>1 DEF Start, WorkInv, IdleInv, StartInv, UpInv, StopInv, owned
    <2> QED BY <2>1, <2>2, <2>3 DEF DbInv
  <1>2. ASSUME Load PROVE DbInv'
    <2>0. /\ disk[cur] \in Images /\ ImageInv(disk[cur]) /\ cur \in Files
          /\ disk[cur].whole \/ cur = "backup"
      BY <1>0, <1>2 DEF Load, VarsOK, FilesInv, FileInv
    <2>1. VarsOK'
      BY <1>0, <1>2, <2>0 DEF Load, VarsOK, process, owned, history
    <2>2. FilesInv'
      BY <1>0, <1>2 DEF Load, FilesInv, FileInv, InUse, process, history
    <2>3. WorkInv' /\ IdleInv'
      BY <1>0, <1>2, <2>0 DEF Load, WorkInv, IdleInv, pdb, process, owned
    <2>4. StartInv' /\ UpInv' /\ StopInv'
      BY <1>2 DEF Load, StartInv, UpInv, StopInv
    <2> QED BY <2>1, <2>2, <2>3, <2>4 DEF DbInv
  <1>3. ASSUME pc = "load", ~ov_backup, ov_backup' = TRUE, cur' = "backup",
               UNCHANGED <<disk, heap, pc, nomap, ended, todo, owned, history>>
        PROVE  DbInv'
    <2>0. ov_backup' \in BOOLEAN
      BY <1>3
    <2>1. VarsOK'
      BY <1>0, <1>3, <2>0 DEF VarsOK, Files, owned, history
    <2>2. FilesInv'
      BY <1>0, <1>3 DEF FilesInv, FileInv, InUse, history
    <2>3. WorkInv' /\ IdleInv' /\ StartInv' /\ UpInv' /\ StopInv'
      BY <1>0, <1>3 DEF WorkInv, IdleInv, StartInv, UpInv, StopInv, owned
    <2> QED BY <2>1, <2>2, <2>3 DEF DbInv
  <1>4. ASSUME pc = "load", End("failed"), UNCHANGED <<disk, history>> PROVE DbInv'
    <2>1. /\ disk' = disk /\ unrefused' = unrefused /\ abnormal' = abnormal
          /\ disk \in [Files -> Images \cup {NoImage}]
          /\ unrefused \in [Files -> BOOLEAN] /\ abnormal \in [Files -> BOOLEAN]
      BY <1>0, <1>4 DEF VarsOK, history
    <2>2. \A f \in Files : disk'[f] # NoImage =>
                /\ ImageInv(disk'[f]) /\ (disk'[f].whole \/ f = "backup")
                /\ unrefused'[f] => disk'[f].root
                /\ ~abnormal'[f] => Clean(disk'[f])
      BY <1>0, <1>4, <2>1 DEF FilesInv, FileInv, InUse
    <2> QED BY <1>4, <2>1, <2>2, EndKeeps
  <1> QED BY <1>1, <1>2, <1>3, <1>4 DEF LoadFails

\* Deleting channels leaves an image in order.
LEMMA WithoutKeeps ==
    ASSUME NEW image \in Images, ImageInv(image), NEW gone \in SUBSET Channels
    PROVE  /\ Without(image, gone) \in Images /\ ImageInv(Without(image, gone))
           /\ Without(image, gone).root = image.root
           /\ Without(image, gone).whole = image.whole
           /\ Without(image, gone).objs = image.objs \ gone
           /\ Without(image, gone).data = image.data \ gone
           /\ Without(image, gone).active = image.active
           /\ Without(image, gone).handleValid = image.handleValid
  <1>1. image.active \cap gone = {}
    BY Kinds DEF Images
  <1> QED BY <1>1 DEF Images, ImageInv, Without

\* Opening the library of the TCP binding leaves no channel of the listener.
LEMMA TCPbindOpenedKeeps ==
    ASSUME NEW image \in Images, ImageInv(image)
    PROVE  /\ TCPbindOpened(image) \in Images /\ ImageInv(TCPbindOpened(image))
           /\ TCPbindOpened(image).root = image.root
           /\ TCPbindOpened(image).whole = image.whole
           /\ TCPbindOpened(image).objs = image.objs \ Servers
           /\ TCPbindOpened(image).data = image.data \ Servers
           /\ TCPbindOpened(image).active = image.active
  <1> DEFINE w == Without(image, Servers)
  <1>1. /\ w \in Images /\ ImageInv(w) /\ w.root = image.root
        /\ w.whole = image.whole
        /\ w.objs = image.objs \ Servers /\ w.data = image.data \ Servers
        /\ w.active = image.active
    BY WithoutKeeps, Kinds
  <1> HIDE DEF w
  <1>2. [w EXCEPT !.handleValid = TRUE] \in Images
    BY <1>1 DEF Images
  <1>3. TCPbindOpened(image) = [w EXCEPT !.handleValid = TRUE]
    BY DEF TCPbindOpened, w
  <1> QED BY <1>1, <1>2, <1>3 DEF Images, ImageInv

\* The four ways a start-up fails or goes on before the objects are visited.
LEMMA StartupKeeps ==
    ASSUME DbInv, Refuse \/ OpenFails \/ OpenDies \/ OpenLibraries
    PROVE  DbInv'
  <1>0. /\ VarsOK /\ pc = "startup" /\ pdb \in Images /\ ImageInv(pdb)
        /\ unrefused \in [Files -> BOOLEAN] /\ abnormal \in [Files -> BOOLEAN]
        /\ cur \in Files
    BY DEF DbInv, VarsOK, WorkInv, Refuse, OpenFails, OpenDies, OpenLibraries
  <1>m. \A f \in Mapped : f \in Files /\ f = cur
    BY <1>0 DEF Mapped
  <1>c. /\ unrefused[cur] => pdb.root
        /\ ~abnormal[cur] => Clean(pdb)
    <2>1. pdb = disk[cur] /\ disk[cur] # NoImage
      BY <1>0, NoImageIsNone DEF DbInv, IdleInv, pdb
    <2> QED BY <1>0, <2>1 DEF DbInv, FilesInv, FileInv, InUse
  <1>1. ASSUME Refuse PROVE DbInv'
    <2> DEFINE i == [pdb EXCEPT !.root = FALSE]
    <2>1. i \in Images /\ ImageInv(i) /\ (Clean(pdb) => Clean(i)) /\ i.whole = pdb.whole
      BY <1>0 DEF Images, ImageInv, Clean
    <2>2. EndWith(i, "refused") /\ abnormal' = abnormal
      BY <1>1 DEF Refuse
    <2>m. unrefused' = Mark(unrefused, Mapped, FALSE)
      BY <1>1 DEF Refuse
    <2> HIDE DEF i
    <2>3. /\ unrefused' \in [Files -> BOOLEAN]
          /\ \A f \in Files : f \in Mapped => ~unrefused'[f]
          /\ \A f \in Files : f \notin Mapped => unrefused'[f] = unrefused[f]
      BY <1>0, <2>m DEF Mark
    <2> QED BY <1>0, <1>c, <1>m, <2>1, <2>2, <2>3, EndWithKeeps
  <1>2. ASSUME EndWith(pdb, "failed"), UNCHANGED abnormal, UNCHANGED unrefused
        PROVE  DbInv'
    BY <1>0, <1>c, <1>m, <1>2, EndWithKeeps
  <1>3. ASSUME ~pdb.root, EndWith(TCPbindOpened(pdb), "failed"),
               abnormal' = Mark(abnormal, Mapped, TRUE), UNCHANGED unrefused
        PROVE  DbInv'
    <2>1. /\ TCPbindOpened(pdb) \in Images /\ ImageInv(TCPbindOpened(pdb))
          /\ TCPbindOpened(pdb).whole = pdb.whole
      BY <1>0, TCPbindOpenedKeeps
    <2>2. /\ abnormal' \in [Files -> BOOLEAN]
          /\ \A f \in Files : f \in Mapped => abnormal'[f]
          /\ \A f \in Files : f \notin Mapped => abnormal'[f] = abnormal[f]
      BY <1>0, <1>3 DEF Mark
    <2> QED BY <1>0, <1>c, <1>m, <1>3, <2>1, <2>2, EndWithKeeps
  <1>4. ASSUME OpenDies PROVE DbInv'
    <2>1. PICK deleted \in SUBSET Servers : EndWith(Without(pdb, deleted), "killed")
      BY <1>4 DEF OpenDies
    <2>2. /\ Without(pdb, deleted) \in Images /\ ImageInv(Without(pdb, deleted))
          /\ Without(pdb, deleted).whole = pdb.whole
      BY <1>0, WithoutKeeps, Kinds
    <2>3. abnormal[cur] /\ ~unrefused[cur]
      BY <1>c, <1>4 DEF OpenDies, LeftOver, Clean
    <2>4. unrefused' = unrefused /\ abnormal' = abnormal
      BY <1>4 DEF OpenDies, history
    <2> QED BY <1>0, <1>m, <2>1, <2>2, <2>3, <2>4, EndWithKeeps
  <1>5. ASSUME OpenLibraries PROVE DbInv'
    <2> DEFINE i == TCPbindOpened(pdb)
    <2>1. /\ i \in Images /\ ImageInv(i) /\ i.root = pdb.root /\ i.whole = pdb.whole
          /\ i.active = pdb.active
          /\ i.objs = pdb.objs \ Servers /\ i.data = pdb.data \ Servers
      BY <1>0, TCPbindOpenedKeeps
    <2>2. /\ Store(i) /\ ~pdb.root /\ pc' = "walk"
          /\ todo' = (pdb.objs \ Servers) \cup {"worker"}
          /\ UNCHANGED <<cur, nomap, ov_backup, ended, queue, live, open, unrefused, abnormal>>
          /\ threads' = threads + 1
      BY <1>5 DEF OpenLibraries, process, owned, history
    <2> HIDE DEF i
    <2>3. /\ FilesInv' /\ WorkInv' /\ pdb' = i
          /\ disk' \in [Files -> Images \cup {NoImage}] /\ heap' \in Images \cup {NoImage}
      BY <1>0, <2>1, <2>2, StoreKeepsFiles, StoreSets DEF InUse
    <2>4. VarsOK'
      <3>1. todo' \in SUBSET (Objects \cup Fixtures) /\ threads' \in 0..2
        BY <1>0, <2>2, Kinds DEF Images, DbInv, IdleInv
      <3> QED BY <1>0, <2>2, <2>3, <3>1 DEF VarsOK
    <2>5. StartInv'
      <3>1. /\ live = {} /\ open = {} /\ \A t \in Tasks : queue[t] = 0
            /\ threads' = 1 /\ "worker" \in todo'
        BY <1>0, <2>2 DEF DbInv, IdleInv
      <3>2. i.data \subseteq todo' /\ todo' \cap Objects \subseteq i.objs
        BY <1>0, <2>1, <2>2, Kinds DEF ImageInv
      <3>3. \A t \in Tasks : t \notin i.objs \ todo'
        BY <2>1, <2>2
      <3> QED BY <1>c, <2>1, <2>2, <2>3, <3>1, <3>2, <3>3 DEF StartInv
    <2>6. IdleInv' /\ UpInv' /\ StopInv'
      BY <2>2 DEF IdleInv, UpInv, StopInv
    <2> QED BY <2>3, <2>4, <2>5, <2>6 DEF DbInv
  <1> QED BY <1>0, <1>1, <1>2, <1>3, <1>4, <1>5 DEF OpenFails

---------------------------------------------------------------------------
(* The start-up and shutdown methods of the objects.                       *)

\* What the startup method of a task stores.
WithTask(image, o) == [image EXCEPT !.active = @ \cup {o}, !.objs = @ \cup {o}]

\* It is an image in which the task exists and is marked as active.
LEMMA StartedTask ==
    ASSUME NEW image \in Images, ImageInv(image), NEW o \in Tasks
    PROVE  /\ WithTask(image, o) \in Images /\ ImageInv(WithTask(image, o))
           /\ WithTask(image, o).root = image.root
           /\ WithTask(image, o).whole = image.whole
           /\ WithTask(image, o).objs = image.objs \cup {o}
           /\ WithTask(image, o).active = image.active \cup {o}
           /\ WithTask(image, o).data = image.data
  BY Kinds DEF Images, ImageInv, WithTask

\* What the startup method of a channel stores.
WithChannel(image, o) == [image EXCEPT !.objs = @ \cup {o}, !.data = @ \ {o}]

\* It is an image in which the channel exists and has no buffer.
LEMMA StartedChannel ==
    ASSUME NEW image \in Images, ImageInv(image), NEW o \in Channels
    PROVE  /\ WithChannel(image, o) \in Images /\ ImageInv(WithChannel(image, o))
           /\ WithChannel(image, o).root = image.root
           /\ WithChannel(image, o).whole = image.whole
           /\ WithChannel(image, o).objs = image.objs \cup {o}
           /\ WithChannel(image, o).active = image.active
           /\ WithChannel(image, o).data = image.data \ {o}
  BY Kinds DEF Images, ImageInv, WithChannel

\* The start-up of one object.
LEMMA StartObjectKeeps ==
    ASSUME DbInv, NEW o \in Objects \cup Fixtures, StartObject(o)
    PROVE  DbInv'
  <1>0. /\ VarsOK /\ pc = "walk" /\ o \in todo /\ pdb \in Images /\ ImageInv(pdb)
        /\ todo' = todo \ {o} /\ pc' = pc /\ Startup(o)
        /\ UNCHANGED <<cur, nomap, ov_backup, ended, unrefused, abnormal>>
    BY DEF DbInv, VarsOK, WorkInv, StartObject, process, history
  <1>1. /\ ~unrefused[cur] /\ live = {} /\ open = {}
        /\ threads = IF "worker" \in todo THEN 1 ELSE 2
        /\ todo \cap Objects \subseteq pdb.objs /\ Servers \cap pdb.objs = {}
        /\ pdb.data \subseteq todo
        /\ \A t \in Tasks : queue[t] = IF t \in pdb.objs \ todo THEN 1 ELSE 0
        /\ (Tasks \cap pdb.objs) \ todo \subseteq pdb.active
    BY <1>0 DEF DbInv, StartInv
  <1>2. IdleInv' /\ UpInv' /\ StopInv' /\ InUse' /\ pc \notin {"down", "load"}
    BY <1>0 DEF IdleInv, UpInv, StopInv, InUse
  <1>3. ASSUME StartupTask(o) PROVE DbInv'
    <2> DEFINE i == WithTask(pdb, o)
    <2>1. /\ o \in Tasks /\ queue' = [queue EXCEPT ![o] = @ + 1]
          /\ UNCHANGED <<live, open, threads>> /\ Store(i)
      BY <1>3 DEF StartupTask, register, WithTask
    <2>2. /\ i \in Images /\ ImageInv(i) /\ i.root = pdb.root /\ i.whole = pdb.whole
          /\ i.data = pdb.data
          /\ i.objs = pdb.objs \cup {o} /\ i.active = pdb.active \cup {o}
      BY <1>0, <2>1, StartedTask
    <2> HIDE DEF i
    <2>3. /\ FilesInv' /\ WorkInv' /\ pdb' = i
          /\ disk' \in [Files -> Images \cup {NoImage}] /\ heap' \in Images \cup {NoImage}
      BY <1>0, <1>2, <2>1, <2>2, StoreKeepsFiles, StoreSets
    <2>4. queue \in [Tasks -> Nat] /\ queue' \in [Tasks -> Nat]
      BY <1>0, <2>1 DEF VarsOK
    <2>5. VarsOK'
      BY <1>0, <2>1, <2>3, <2>4 DEF VarsOK
    <2>6. i.objs = pdb.objs /\ o \in pdb.objs
      BY <1>0, <1>1, <2>1, <2>2, Kinds
    <2>7. \A t \in Tasks : queue'[t] = IF t \in i.objs \ todo' THEN 1 ELSE 0
      <3> SUFFICES ASSUME NEW t \in Tasks
                   PROVE  queue'[t] = IF t \in i.objs \ todo' THEN 1 ELSE 0
        OBVIOUS
      <3>1. CASE t = o
        <4>1. queue[o] = 0
          BY <1>0, <1>1, <2>1
        <4>2. queue'[o] = 1
          BY <2>1, <2>4, <4>1
        <4> QED BY <1>0, <2>6, <3>1, <4>2
      <3>2. CASE t # o
        <4>1. queue'[t] = queue[t]
          BY <2>1, <2>4, <3>2
        <4>2. t \in i.objs \ todo' <=> t \in pdb.objs \ todo
          BY <1>0, <2>6, <3>2
        <4> QED BY <1>1, <4>1, <4>2
      <3> QED BY <3>1, <3>2
    <2>8. o \notin pdb.data /\ ("worker" \in todo' <=> "worker" \in todo)
      BY <1>0, <2>1, Kinds DEF Images
    <2>9. StartInv'
      BY <1>0, <1>1, <2>1, <2>2, <2>3, <2>6, <2>7, <2>8 DEF StartInv
    <2> QED BY <1>2, <2>3, <2>5, <2>9 DEF DbInv
  <1>4. ASSUME StartupChannel(o) PROVE DbInv'
    <2> DEFINE i == WithChannel(pdb, o)
    <2>1. o \in Channels /\ UNCHANGED <<queue, live, open, threads>> /\ Store(i)
      BY <1>4 DEF StartupChannel, owned, WithChannel
    <2>2. /\ i \in Images /\ ImageInv(i) /\ i.root = pdb.root /\ i.whole = pdb.whole
          /\ i.active = pdb.active
          /\ i.objs = pdb.objs \cup {o} /\ i.data = pdb.data \ {o}
      BY <1>0, <2>1, StartedChannel
    <2> HIDE DEF i
    <2>3. /\ FilesInv' /\ WorkInv' /\ pdb' = i
          /\ disk' \in [Files -> Images \cup {NoImage}] /\ heap' \in Images \cup {NoImage}
      BY <1>0, <1>2, <2>1, <2>2, StoreKeepsFiles, StoreSets
    <2>4. VarsOK'
      BY <1>0, <2>1, <2>3 DEF VarsOK
    <2>5. i.objs = pdb.objs /\ o \notin Tasks /\ ("worker" \in todo' <=> "worker" \in todo)
      BY <1>0, <1>1, <2>1, <2>2, Kinds
    <2>6. \A t \in Tasks : t \in i.objs \ todo' <=> t \in pdb.objs \ todo
      BY <1>0, <2>5
    <2>7. StartInv'
      BY <1>0, <1>1, <2>1, <2>2, <2>3, <2>5, <2>6 DEF StartInv
    <2> QED BY <1>2, <2>3, <2>4, <2>7 DEF DbInv
  <1>5. ASSUME o = "worker", StartupWorker PROVE DbInv'
    <2> DEFINE i == [pdb EXCEPT !.handleValid = TRUE]
    <2>1. UNCHANGED <<queue, live, open>> /\ threads' = threads + 1 /\ Store(i)
      BY <1>5 DEF StartupWorker
    <2>2. /\ i \in Images /\ ImageInv(i) /\ i.root = pdb.root /\ i.whole = pdb.whole
          /\ i.active = pdb.active /\ i.objs = pdb.objs /\ i.data = pdb.data
      BY <1>0 DEF Images, ImageInv
    <2> HIDE DEF i
    <2>3. /\ FilesInv' /\ WorkInv' /\ pdb' = i
          /\ disk' \in [Files -> Images \cup {NoImage}] /\ heap' \in Images \cup {NoImage}
      BY <1>0, <1>2, <2>1, <2>2, StoreKeepsFiles, StoreSets
    <2>4. threads' = 2 /\ "worker" \notin todo'
      BY <1>0, <1>1, <1>5, <2>1
    <2>5. VarsOK'
      BY <1>0, <2>1, <2>3, <2>4 DEF VarsOK
    <2>6. o \notin Tasks /\ o \notin Channels /\ pdb.data \subseteq Channels
      BY <1>0, <1>5, Kinds DEF Images
    <2>7. \A t \in Tasks : t \in i.objs \ todo' <=> t \in pdb.objs \ todo
      BY <1>0, <2>2, <2>6
    <2>8. StartInv'
      BY <1>0, <1>1, <2>1, <2>2, <2>3, <2>4, <2>6, <2>7 DEF StartInv
    <2> QED BY <1>2, <2>3, <2>5, <2>8 DEF DbInv
  <1> QED BY <1>0, <1>3, <1>4, <1>5 DEF Startup

\* The server comes up when every object has been visited, and stops.
LEMMA StartRootStopKeep ==
    ASSUME DbInv, StartRoot \/ Stop
    PROVE  DbInv'
  <1>0. VarsOK /\ pc \in {"walk", "up"} /\ pdb \in Images /\ ImageInv(pdb)
    BY DEF DbInv, VarsOK, WorkInv, StartRoot, Stop
  <1>1. ASSUME StartRoot PROVE DbInv'
    <2> DEFINE i == [pdb EXCEPT !.root = TRUE]
    <2>1. /\ pc = "walk" /\ todo = {} /\ Store(i) /\ pc' = "up"
          /\ UNCHANGED <<cur, nomap, ov_backup, ended, todo, queue, live, open, threads,
                         unrefused, abnormal>>
      BY <1>1 DEF StartRoot, process, owned, history
    <2>2. /\ i \in Images /\ ImageInv(i) /\ i.root /\ i.whole = pdb.whole /\ i.objs = pdb.objs
          /\ i.active = pdb.active /\ i.data = pdb.data
      BY <1>0 DEF Images, ImageInv
    <2> HIDE DEF i
    <2>3. /\ FilesInv' /\ WorkInv' /\ pdb' = i
          /\ disk' \in [Files -> Images \cup {NoImage}] /\ heap' \in Images \cup {NoImage}
      BY <1>0, <2>1, <2>2, StoreKeepsFiles, StoreSets DEF InUse
    <2>4. VarsOK'
      BY <1>0, <2>1, <2>3 DEF VarsOK
    <2>5. UpInv'
      <3>1. /\ Servers \cap pdb.objs = {} /\ pdb.data = {}
            /\ \A t \in Tasks : queue[t] = IF t \in pdb.objs THEN 1 ELSE 0
            /\ Tasks \cap pdb.objs \subseteq pdb.active /\ threads = 2
        BY <2>1 DEF DbInv, StartInv
      <3>2. pdb.active \subseteq Tasks \cap pdb.objs
        BY <1>0 DEF Images, ImageInv
      <3> QED BY <2>1, <2>2, <2>3, <3>1, <3>2 DEF UpInv
    <2>6. IdleInv' /\ StartInv' /\ StopInv'
      BY <2>1 DEF IdleInv, StartInv, StopInv
    <2> QED BY <2>3, <2>4, <2>5, <2>6 DEF DbInv
  <1>2. ASSUME Stop PROVE DbInv'
    <2>1. /\ pc = "up" /\ pc' = "stopping" /\ todo' = (pdb.objs \ Servers) \cup Fixtures
          /\ UNCHANGED <<disk, heap, cur, nomap, ov_backup, ended, queue, live, open,
                         threads, unrefused, abnormal>>
      BY <1>2 DEF Stop, process, owned, history
    <2>2. pdb' = pdb /\ Mapped' = Mapped
      BY <2>1 DEF pdb, Mapped
    <2>3. VarsOK'
      <3>1. todo' \in SUBSET (Objects \cup Fixtures)
        BY <1>0, <2>1 DEF Images
      <3> QED BY <1>0, <2>1, <3>1 DEF VarsOK
    <2>4. FilesInv' /\ WorkInv'
      BY <1>0, <2>1, <2>2 DEF DbInv, FilesInv, FileInv, WorkInv, InUse
    <2>5. StopInv'
      <3>1. pdb.data \cap Clients \subseteq todo'
        BY <1>0, <2>1, Kinds DEF ImageInv
      <3>2. "listener" \in todo' /\ "worker" \in todo'
        BY <2>1, Kinds
      <3> QED BY <2>1, <2>2, <3>1, <3>2 DEF DbInv, UpInv, StopInv
    <2>6. IdleInv' /\ StartInv' /\ UpInv'
      BY <2>1 DEF IdleInv, StartInv, UpInv
    <2> QED BY <2>3, <2>4, <2>5, <2>6 DEF DbInv
  <1> QED BY <1>1, <1>2

\* A step of a shutdown that goes on: what the step has to show of the image it
\* stores and of what the process owns.
LEMMA StoppingKeeps ==
    ASSUME DbInv, pc = "stopping", pc' = pc, NEW i \in Images, ImageInv(i),
           i.root = pdb.root, i.whole = pdb.whole,
           Store(i), UNCHANGED <<cur, nomap, ov_backup, ended, unrefused, abnormal>>,
           todo' \subseteq todo, queue' \in [Tasks -> Nat],
           live' \subseteq live, open' \subseteq open,
           i.data \subseteq live', Servers \cap i.objs \subseteq open',
           \A t \in Tasks : queue'[t] > 0 => queue'[t] = 1 /\ t \in i.objs \cap i.active,
           i.data \cap Clients \subseteq todo',
           "listener" \notin todo' => Servers \cap i.objs = {},
           "worker" \notin todo' => ~i.handleValid,
           threads' \in 1..2, "worker" \in todo' => threads' = threads
    PROVE  DbInv'
  <1>0. VarsOK /\ pdb.root
    BY DEF DbInv, StopInv
  <1>1. /\ FilesInv' /\ WorkInv' /\ pdb' = i
        /\ disk' \in [Files -> Images \cup {NoImage}] /\ heap' \in Images \cup {NoImage}
    BY <1>0, StoreKeepsFiles, StoreSets DEF InUse
  <1>2. VarsOK'
    BY <1>0, <1>1 DEF VarsOK
  <1>3. StopInv'
    <2>1. "worker" \in todo' => threads' = 2
      BY DEF DbInv, StopInv
    <2> QED BY <1>0, <1>1, <2>1 DEF StopInv
  <1>4. IdleInv' /\ StartInv' /\ UpInv'
    BY DEF IdleInv, StartInv, UpInv
  <1> QED BY <1>1, <1>2, <1>3, <1>4 DEF DbInv

\* The shutdown of one object.
LEMMA StopObjectKeeps ==
    ASSUME DbInv, NEW o \in Objects \cup Fixtures, StopObject(o)
    PROVE  DbInv'
  <1>0. /\ VarsOK /\ pc = "stopping" /\ o \in todo /\ pdb \in Images /\ ImageInv(pdb)
        /\ todo' = todo \ {o} /\ pc' = pc /\ Shutdown(o)
        /\ UNCHANGED <<cur, nomap, ov_backup, ended, unrefused, abnormal>>
        /\ queue \in [Tasks -> Nat]
    BY DEF DbInv, VarsOK, WorkInv, StopObject, process, history
  <1>1. /\ pdb.data \subseteq live /\ Servers \cap pdb.objs \subseteq open
        /\ \A t \in Tasks : queue[t] > 0 => queue[t] = 1 /\ t \in pdb.objs \cap pdb.active
        /\ pdb.data \cap Clients \subseteq todo
        /\ "listener" \notin todo => Servers \cap pdb.objs = {}
        /\ "worker" \notin todo => ~pdb.handleValid
        /\ threads \in 1..2 /\ ("worker" \in todo => threads = 2)
    BY <1>0 DEF DbInv, StopInv
  <1>2. ASSUME ShutdownTask(o) PROVE DbInv'
    <2> DEFINE i == [pdb EXCEPT !.active = IF queue[o] = 0 THEN @ ELSE @ \ {o}]
    <2>1. /\ o \in Tasks /\ queue' = [queue EXCEPT ![o] = IF @ = 0 THEN 0 ELSE @ - 1]
          /\ UNCHANGED <<live, open, threads>> /\ Store(i)
      BY <1>2 DEF ShutdownTask, unregister
    <2>2. /\ i \in Images /\ ImageInv(i) /\ i.root = pdb.root /\ i.whole = pdb.whole
          /\ i.data = pdb.data
          /\ i.objs = pdb.objs /\ i.handleValid = pdb.handleValid
          /\ \A t : t # o => (t \in i.active <=> t \in pdb.active)
      BY <1>0, <2>1 DEF Images, ImageInv
    <2> HIDE DEF i
    <2>3. queue' \in [Tasks -> Nat]
      BY <1>0, <2>1
    <2>4. ASSUME NEW t \in Tasks, queue'[t] > 0
          PROVE  queue'[t] = 1 /\ t \in i.objs \cap i.active
      <3>1. CASE t = o
        <4>1. queue[o] = 0 \/ queue[o] = 1
          BY <1>0, <1>1, <2>1
        <4> QED BY <1>0, <2>1, <2>4, <3>1, <4>1
      <3>2. CASE t # o
        <4>1. queue'[t] = queue[t]
          BY <1>0, <2>1, <3>2
        <4> QED BY <1>1, <2>2, <2>4, <3>2, <4>1
      <3> QED BY <3>1, <3>2
    <2>5. pdb.data \cap Clients \subseteq todo' /\ o # "listener" /\ o # "worker"
      BY <1>0, <1>1, <2>1, Kinds
    <2> QED BY <1>0, <1>1, <2>1, <2>2, <2>3, <2>4, <2>5, StoppingKeeps
  <1>3. ASSUME ShutdownChannel(o) PROVE DbInv'
    <2> DEFINE i == [pdb EXCEPT !.data = @ \ {o}]
    <2>1. /\ o \in Channels /\ live' = live \ {o} /\ UNCHANGED <<queue, open, threads>> /\ Store(i)
      BY <1>3 DEF ShutdownChannel
    <2>2. /\ i \in Images /\ ImageInv(i) /\ i.root = pdb.root /\ i.whole = pdb.whole
          /\ i.data = pdb.data \ {o}
          /\ i.objs = pdb.objs /\ i.handleValid = pdb.handleValid /\ i.active = pdb.active
      BY <1>0 DEF Images, ImageInv
    <2> HIDE DEF i
    <2>3. o # "listener" /\ o # "worker" /\ i.data \cap Clients \subseteq todo'
          /\ i.data \subseteq live'
      BY <1>0, <1>1, <2>1, <2>2, Kinds
    <2> QED BY <1>0, <1>1, <2>1, <2>2, <2>3, StoppingKeeps
  <1>4. ASSUME o = "listener", ShutdownListener PROVE DbInv'
    <2> DEFINE i == Without(pdb, Servers)
    <2>1. /\ Store(i) /\ live' = live \ Servers /\ open' = open \ Servers
          /\ UNCHANGED <<queue, threads>>
      BY <1>4 DEF ShutdownListener
    <2>2. /\ i \in Images /\ ImageInv(i) /\ i.root = pdb.root /\ i.whole = pdb.whole
          /\ i.objs = pdb.objs \ Servers /\ i.data = pdb.data \ Servers
          /\ i.active = pdb.active /\ i.handleValid = pdb.handleValid
      BY <1>0, WithoutKeeps, Kinds
    <2> HIDE DEF i
    <2>3. i.data \subseteq live' /\ Servers \cap i.objs = {}
      BY <1>1, <2>1, <2>2
    <2>4. i.data \cap Clients \subseteq todo' /\ \A t \in Tasks : t \notin Servers
      BY <1>0, <1>1, <1>4, <2>2, Kinds
    <2>5. \A t \in Tasks : queue'[t] > 0 => queue'[t] = 1 /\ t \in i.objs \cap i.active
      BY <1>1, <2>1, <2>2, <2>4
    <2> QED BY <1>0, <1>1, <1>4, <2>1, <2>2, <2>3, <2>4, <2>5, StoppingKeeps
  <1>5. ASSUME o = "worker", ShutdownWorker PROVE DbInv'
    <2> DEFINE i == [pdb EXCEPT !.handleValid = FALSE]
    <2>1. /\ Store(i) /\ UNCHANGED <<queue, live, open>>
          /\ threads' = IF pdb.handleValid THEN threads - 1 ELSE threads
      BY <1>5 DEF ShutdownWorker
    <2>t. threads' \in 1..2 /\ "worker" \notin todo'
      BY <1>0, <1>1, <1>5, <2>1
    <2>2. /\ i \in Images /\ ImageInv(i) /\ i.root = pdb.root /\ i.whole = pdb.whole
          /\ i.data = pdb.data
          /\ i.objs = pdb.objs /\ ~i.handleValid /\ i.active = pdb.active
      BY <1>0 DEF Images, ImageInv
    <2> HIDE DEF i
    <2>3. i.data \cap Clients \subseteq todo'
      BY <1>0, <1>1, <1>5, <2>2, Kinds
    <2> QED BY <1>0, <1>1, <1>5, <2>1, <2>t, <2>2, <2>3, StoppingKeeps
  <1> QED BY <1>0, <1>2, <1>3, <1>4, <1>5 DEF Shutdown

\* A shutdown that has visited every object leaves a clean image.
LEMMA StopRootKeeps ==
    ASSUME DbInv, StopRoot
    PROVE  DbInv'
  <1>0. /\ VarsOK /\ pc = "stopping" /\ todo = {} /\ pdb \in Images /\ ImageInv(pdb)
        /\ unrefused \in [Files -> BOOLEAN] /\ abnormal \in [Files -> BOOLEAN]
        /\ cur \in Files /\ Mapped \subseteq Files
    BY DEF DbInv, VarsOK, WorkInv, StopRoot, Mapped
  <1> DEFINE i == [pdb EXCEPT !.root = FALSE]
  <1>1. /\ i \in Images /\ ImageInv(i) /\ i.objs = pdb.objs /\ i.data = pdb.data
        /\ i.handleValid = pdb.handleValid /\ i.whole = pdb.whole
    BY <1>0 DEF Images, ImageInv
  <1>2. EndWith(i, "stopped")
    BY DEF StopRoot
  <1> HIDE DEF i
  <1>3. Clean(i)
    <2>1. /\ pdb.data \cap Clients = {} /\ Servers \cap pdb.objs = {} /\ ~pdb.handleValid
      BY <1>0 DEF DbInv, StopInv
    <2>2. pdb.data \subseteq Servers \cup Clients /\ pdb.data \subseteq pdb.objs
      BY <1>0 DEF Images, ImageInv, Channels
    <2> QED BY <1>1, <2>1, <2>2 DEF Clean
  <1>4. unrefused' = Mark(unrefused, Mapped, FALSE)
    BY DEF StopRoot
  <1>5. abnormal' = Mark(abnormal, Mapped, FALSE)
    BY DEF StopRoot
  <1>6. /\ unrefused' \in [Files -> BOOLEAN]
        /\ \A f \in Files : f \in Mapped => ~unrefused'[f]
        /\ \A f \in Files : f \notin Mapped => unrefused'[f] = unrefused[f]
    BY <1>0, <1>4 DEF Mark
  <1>7. /\ abnormal' \in [Files -> BOOLEAN]
        /\ \A f \in Files : f \notin Mapped => abnormal'[f] = abnormal[f]
    BY <1>0, <1>5 DEF Mark
  <1> QED BY <1>0, <1>1, <1>2, <1>3, <1>6, <1>7, EndWithKeeps

---------------------------------------------------------------------------
(* A running server.                                                       *)

\* A step of a running server: what the step has to show of the image it stores
\* and of what the process owns.
LEMMA RunningKeeps ==
    ASSUME DbInv, pc = "up", pc' = pc, NEW i \in Images, ImageInv(i),
           i.root = pdb.root, i.whole = pdb.whole,
           Store(i), UNCHANGED <<cur, nomap, ov_backup, ended, todo, unrefused, abnormal>>,
           queue' \in [Tasks -> Nat], live' \subseteq Channels, open' \subseteq Channels,
           i.data \subseteq live', Servers \cap i.objs \subseteq open',
           \A t \in Tasks : queue'[t] = IF t \in i.objs THEN 1 ELSE 0,
           i.active = Tasks \cap i.objs, threads' = threads
    PROVE  DbInv'
  <1>0. VarsOK /\ pdb.root /\ threads = 2
    BY DEF DbInv, UpInv
  <1>1. /\ FilesInv' /\ WorkInv' /\ pdb' = i
        /\ disk' \in [Files -> Images \cup {NoImage}] /\ heap' \in Images \cup {NoImage}
    BY <1>0, StoreKeepsFiles, StoreSets DEF InUse
  <1>2. VarsOK'
    BY <1>0, <1>1 DEF VarsOK
  <1>3. UpInv'
    BY <1>0, <1>1 DEF UpInv
  <1>4. IdleInv' /\ StartInv' /\ StopInv'
    BY DEF IdleInv, StartInv, StopInv
  <1> QED BY <1>1, <1>2, <1>3, <1>4 DEF DbInv

\* What a running server has.
LEMMA Running ==
    ASSUME DbInv, pc = "up"
    PROVE  /\ pdb \in Images /\ ImageInv(pdb) /\ pdb.root
           /\ pdb.objs \subseteq Objects /\ pdb.data \subseteq Channels
           /\ pdb.data \subseteq live /\ Servers \cap pdb.objs \subseteq open
           /\ live \subseteq Channels /\ open \subseteq Channels
           /\ queue \in [Tasks -> Nat]
           /\ \A t \in Tasks : queue[t] = IF t \in pdb.objs THEN 1 ELSE 0
           /\ pdb.active = Tasks \cap pdb.objs
  <1>1. pdb \in Images /\ ImageInv(pdb)
    BY DEF DbInv, WorkInv
  <1> QED BY <1>1 DEF DbInv, VarsOK, UpInv, Images

\* An object is created: a task is registered, a channel has nothing.
LEMMA CreateObjectKeeps ==
    ASSUME DbInv, NEW o \in Objects, CreateObject(o)
    PROVE  DbInv'
  <1>0. /\ pc = "up" /\ pc' = pc /\ o \notin pdb.objs /\ o \in Tasks \cup Clients /\ Startup(o)
        /\ UNCHANGED <<cur, nomap, ov_backup, ended, todo, unrefused, abnormal>>
    BY DEF CreateObject, process, history
  <1>1. /\ pdb \in Images /\ ImageInv(pdb) /\ pdb.objs \subseteq Objects
        /\ pdb.data \subseteq live /\ Servers \cap pdb.objs \subseteq open
        /\ live \subseteq Channels /\ open \subseteq Channels /\ queue \in [Tasks -> Nat]
        /\ \A t \in Tasks : queue[t] = IF t \in pdb.objs THEN 1 ELSE 0
        /\ pdb.active = Tasks \cap pdb.objs
    BY <1>0, Running
  <1>i. pdb \in Images /\ ImageInv(pdb)
    BY <1>1
  <1>2. ASSUME StartupTask(o) PROVE DbInv'
    <2> DEFINE i == WithTask(pdb, o)
    <2>1. /\ o \in Tasks /\ queue' = [queue EXCEPT ![o] = @ + 1]
          /\ UNCHANGED <<live, open, threads>> /\ Store(i)
      BY <1>2 DEF StartupTask, register, WithTask
    <2>2. /\ i \in Images /\ ImageInv(i) /\ i.root = pdb.root /\ i.whole = pdb.whole
          /\ i.data = pdb.data
          /\ i.objs = pdb.objs \cup {o} /\ i.active = pdb.active \cup {o}
      BY <1>i, <2>1, StartedTask
    <2> HIDE DEF i
    <2>3. queue' \in [Tasks -> Nat]
      BY <1>1, <2>1
    <2>4. \A t \in Tasks : queue'[t] = IF t \in i.objs THEN 1 ELSE 0
      <3> SUFFICES ASSUME NEW t \in Tasks
                   PROVE  queue'[t] = IF t \in i.objs THEN 1 ELSE 0
        OBVIOUS
      <3>1. CASE t = o
        <4>1. queue[o] = 0
          BY <1>0, <1>1, <2>1
        <4>2. queue'[o] = 1
          BY <1>1, <2>1, <4>1
        <4> QED BY <2>2, <3>1, <4>2
      <3>2. CASE t # o
        <4>1. queue'[t] = queue[t] /\ (t \in i.objs <=> t \in pdb.objs)
          BY <1>1, <2>1, <2>2, <3>2
        <4> QED BY <1>1, <4>1
      <3> QED BY <3>1, <3>2
    <2>5. Servers \cap i.objs \subseteq open' /\ i.active = Tasks \cap i.objs
      BY <1>1, <2>1, <2>2, Kinds
    <2> QED BY <1>0, <1>1, <2>1, <2>2, <2>3, <2>4, <2>5, RunningKeeps
  <1>3. ASSUME StartupChannel(o) PROVE DbInv'
    <2> DEFINE i == WithChannel(pdb, o)
    <2>1. o \in Channels /\ UNCHANGED <<queue, live, open, threads>> /\ Store(i)
      BY <1>3 DEF StartupChannel, owned, WithChannel
    <2>2. /\ i \in Images /\ ImageInv(i) /\ i.root = pdb.root /\ i.whole = pdb.whole
          /\ i.active = pdb.active
          /\ i.objs = pdb.objs \cup {o} /\ i.data = pdb.data \ {o}
      BY <1>i, <2>1, StartedChannel
    <2> HIDE DEF i
    <2>3. o \notin Tasks /\ o \notin Servers
      BY <1>0, <2>1, Kinds
    <2>4. \A t \in Tasks : t \in i.objs <=> t \in pdb.objs
      BY <2>2, <2>3
    <2>5. Servers \cap i.objs \subseteq open' /\ i.active = Tasks \cap i.objs
          /\ i.data \subseteq live'
      BY <1>1, <2>1, <2>2, <2>3
    <2> QED BY <1>0, <1>1, <2>1, <2>2, <2>4, <2>5, RunningKeeps
  <1>4. o # "worker"
    BY Kinds
  <1> QED BY <1>0, <1>2, <1>3, <1>4 DEF Startup

\* An object is deleted: a task loses its event, a channel its buffer.
LEMMA DeleteObjectKeeps ==
    ASSUME DbInv, NEW o \in Objects, DeleteObject(o)
    PROVE  DbInv'
  <1> DEFINE i == [Without(pdb, {o}) EXCEPT !.active = @ \ {o}]
  <1>0. /\ pc = "up" /\ pc' = pc /\ o \in pdb.objs /\ o \in Tasks \cup Clients /\ Store(i)
        /\ IF o \in Tasks THEN unregister(o) ELSE UNCHANGED queue
        /\ live' = live \ {o}
        /\ UNCHANGED <<cur, nomap, ov_backup, ended, todo, open, threads, unrefused, abnormal>>
    BY DEF DeleteObject, process, history
  <1>1. /\ pdb \in Images /\ ImageInv(pdb) /\ pdb.objs \subseteq Objects
        /\ pdb.data \subseteq live /\ Servers \cap pdb.objs \subseteq open
        /\ live \subseteq Channels /\ open \subseteq Channels /\ queue \in [Tasks -> Nat]
        /\ \A t \in Tasks : queue[t] = IF t \in pdb.objs THEN 1 ELSE 0
        /\ pdb.active = Tasks \cap pdb.objs
    BY <1>0, Running
  <1>2. /\ i \in Images /\ i.root = pdb.root /\ i.whole = pdb.whole /\ i.objs = pdb.objs \ {o}
        /\ i.data = pdb.data \ {o} /\ i.active = pdb.active \ {o}
    BY <1>1 DEF Without, Images
  <1> HIDE DEF i
  <1>3. ImageInv(i) /\ i.active = Tasks \cap i.objs
    BY <1>1, <1>2 DEF ImageInv
  <1>4. i.data \subseteq live' /\ Servers \cap i.objs \subseteq open' /\ live' \subseteq Channels
    BY <1>0, <1>1, <1>2
  <1>5. /\ queue' \in [Tasks -> Nat]
        /\ \A t \in Tasks : queue'[t] = IF t \in i.objs THEN 1 ELSE 0
    <2>1. CASE o \in Tasks
      <3>1. queue' = [queue EXCEPT ![o] = IF @ = 0 THEN 0 ELSE @ - 1] /\ queue[o] = 1
        BY <1>0, <1>1, <2>1 DEF unregister
      <3>2. queue' = [queue EXCEPT ![o] = 0]
        BY <1>1, <3>1
      <3> QED BY <1>1, <1>2, <2>1, <3>2
    <2>2. CASE o \notin Tasks
      <3>1. \A t \in Tasks : t \in i.objs <=> t \in pdb.objs
        BY <1>2, <2>2
      <3> QED BY <1>0, <1>1, <2>2, <3>1
    <2> QED BY <2>1, <2>2
  <1> QED BY <1>0, <1>1, <1>2, <1>3, <1>4, <1>5, RunningKeeps

\* A channel of the server side comes and goes, a buffer is filled and freed.
LEMMA ChannelKeeps ==
    ASSUME DbInv, NEW c \in Objects, Accept(c) \/ Receive(c) \/ Release(c) \/ Close(c)
    PROVE  DbInv'
  <1>0. /\ pc = "up" /\ pc' = pc
        /\ UNCHANGED <<cur, nomap, ov_backup, ended, todo, queue, threads, unrefused, abnormal>>
    BY DEF Accept, Receive, Release, Close, process, history
  <1>1. /\ pdb \in Images /\ ImageInv(pdb) /\ pdb.objs \subseteq Objects
        /\ pdb.data \subseteq Channels
        /\ pdb.data \subseteq live /\ Servers \cap pdb.objs \subseteq open
        /\ live \subseteq Channels /\ open \subseteq Channels /\ queue \in [Tasks -> Nat]
        /\ \A t \in Tasks : queue[t] = IF t \in pdb.objs THEN 1 ELSE 0
        /\ pdb.active = Tasks \cap pdb.objs
    BY <1>0, Running
  <1>2. ASSUME Accept(c) PROVE DbInv'
    <2> DEFINE i == [pdb EXCEPT !.objs = @ \cup {c}]
    <2>1. c \in Servers /\ Store(i) /\ open' = open \cup {c} /\ live' = live
      BY <1>2 DEF Accept
    <2>i. /\ i \in Images /\ i.root = pdb.root /\ i.whole = pdb.whole /\ i.data = pdb.data
          /\ i.objs = pdb.objs \cup {c} /\ i.active = pdb.active
      BY <1>1 DEF Images
    <2>2. ImageInv(i)
      BY <1>1, <2>i DEF ImageInv
    <2> HIDE DEF i
    <2>3. c \notin Tasks /\ c \in Channels
      BY <2>1, Kinds
    <2>4. \A t \in Tasks : t \in i.objs <=> t \in pdb.objs
      BY <2>i, <2>3
    <2>5. /\ Servers \cap i.objs \subseteq open' /\ i.active = Tasks \cap i.objs
          /\ open' \subseteq Channels
      BY <1>1, <2>1, <2>i, <2>3
    <2> QED BY <1>0, <1>1, <2>1, <2>i, <2>2, <2>4, <2>5, RunningKeeps
  <1>3. ASSUME Receive(c) PROVE DbInv'
    <2> DEFINE i == [pdb EXCEPT !.data = @ \cup {c}]
    <2>1. /\ c \in Channels /\ c \in pdb.objs /\ Store(i) /\ live' = live \cup {c}
          /\ open' = open
      BY <1>3 DEF Receive
    <2>2. /\ i \in Images /\ ImageInv(i) /\ i.root = pdb.root /\ i.whole = pdb.whole
          /\ i.objs = pdb.objs
          /\ i.data = pdb.data \cup {c} /\ i.active = pdb.active
      BY <1>1, <2>1 DEF Images, ImageInv
    <2> HIDE DEF i
    <2>3. i.data \subseteq live' /\ live' \subseteq Channels
      BY <1>1, <2>1, <2>2
    <2> QED BY <1>0, <1>1, <2>1, <2>2, <2>3, RunningKeeps
  <1>4. ASSUME Release(c) PROVE DbInv'
    <2> DEFINE i == [pdb EXCEPT !.data = @ \ {c}]
    <2>1. Store(i) /\ live' = live \ {c} /\ open' = open
      BY <1>4 DEF Release
    <2>2. /\ i \in Images /\ ImageInv(i) /\ i.root = pdb.root /\ i.whole = pdb.whole
          /\ i.objs = pdb.objs
          /\ i.data = pdb.data \ {c} /\ i.active = pdb.active
      BY <1>1 DEF Images, ImageInv
    <2> HIDE DEF i
    <2>3. i.data \subseteq live' /\ live' \subseteq Channels
      BY <1>1, <2>1, <2>2
    <2> QED BY <1>0, <1>1, <2>1, <2>2, <2>3, RunningKeeps
  <1>5. ASSUME Close(c) PROVE DbInv'
    <2> DEFINE i == Without(pdb, {c})
    <2>1. c \in Servers /\ Store(i) /\ open' = open \ {c} /\ live' = live \ {c}
      BY <1>5 DEF Close
    <2>2. c \notin Tasks /\ c \in Channels /\ {c} \in SUBSET Channels
      BY <2>1, Kinds
    <2>3. /\ i \in Images /\ ImageInv(i) /\ i.root = pdb.root /\ i.whole = pdb.whole
          /\ i.objs = pdb.objs \ {c}
          /\ i.data = pdb.data \ {c} /\ i.active = pdb.active
      BY <1>1, <2>2, WithoutKeeps
    <2> HIDE DEF i
    <2>4. \A t \in Tasks : t \in i.objs <=> t \in pdb.objs
      BY <2>2, <2>3
    <2>5. /\ i.data \subseteq live' /\ Servers \cap i.objs \subseteq open'
          /\ live' \subseteq Channels /\ open' \subseteq Channels
          /\ i.active = Tasks \cap i.objs
      BY <1>1, <2>1, <2>2, <2>3
    <2> QED BY <1>0, <1>1, <2>1, <2>3, <2>4, <2>5, RunningKeeps
  <1> QED BY <1>2, <1>3, <1>4, <1>5

\* What is written of a backup is nothing or has the mark and the objects of
\* the database it was copied from.
LEMMA CopiesSound ==
    ASSUME pdb \in Images, ImageInv(pdb), pdb.root, NEW copy \in Copies \cup {NoImage}
    PROVE  copy \in Images \cup {NoImage} /\ (copy # NoImage => ImageInv(copy) /\ copy.root)
  <1>1. [pdb EXCEPT !.whole = FALSE] \in Images
    BY DEF Images
  <1>2. ImageInv([pdb EXCEPT !.whole = FALSE]) /\ [pdb EXCEPT !.whole = FALSE].root
    BY DEF Images, ImageInv
  <1> QED BY <1>1, <1>2 DEF Copies

\* The backup is a copy of the marked database of a running server, and the
\* server does not run on it.
LEMMA WriteBackupKeeps ==
    ASSUME DbInv, WriteBackup
    PROVE  DbInv'
  <1>0. /\ VarsOK /\ pc = "up" /\ pdb \in Images /\ ImageInv(pdb) /\ pdb.root
        /\ disk \in [Files -> Images \cup {NoImage}]
        /\ unrefused \in [Files -> BOOLEAN] /\ abnormal \in [Files -> BOOLEAN]
        /\ cur \in Files /\ "backup" \in Files
    BY Running DEF DbInv, VarsOK, WriteBackup, Files
  <1>c. PICK copy \in Copies : disk' = [disk EXCEPT !["backup"] = copy]
    BY DEF WriteBackup
  <1>d. copy \in Images \cup {NoImage} /\ (copy # NoImage => ImageInv(copy) /\ copy.root)
    BY <1>0, CopiesSound
  <1>1. /\ "backup" \notin Mapped
        /\ UNCHANGED <<heap, pc, cur, nomap, ov_backup, ended, todo, queue, live, open, threads>>
    BY DEF WriteBackup, process, owned, Mapped
  <1>2. pdb' = pdb /\ Mapped' = Mapped
    BY <1>0, <1>1, <1>c DEF pdb, Mapped
  <1>3. unrefused' = Mark(unrefused, {"backup"}, TRUE)
    BY DEF WriteBackup
  <1>4. abnormal' = Mark(abnormal, {"backup"}, TRUE)
    BY DEF WriteBackup
  <1>5. /\ unrefused' \in [Files -> BOOLEAN]
        /\ \A f \in Files : f # "backup" => unrefused'[f] = unrefused[f]
    BY <1>0, <1>3 DEF Mark
  <1>6. /\ abnormal' \in [Files -> BOOLEAN] /\ abnormal'["backup"]
        /\ \A f \in Files : f # "backup" => abnormal'[f] = abnormal[f]
    BY <1>0, <1>4 DEF Mark
  <1>7. VarsOK'
    <2>1. disk' \in [Files -> Images \cup {NoImage}]
      BY <1>0, <1>c, <1>d
    <2> QED BY <1>0, <1>1, <1>5, <1>6, <2>1 DEF VarsOK
  <1>8. ASSUME NEW f \in Files PROVE FileInv(f)'
    <2>1. CASE f = "backup"
      <3>1. disk'[f] = copy
        BY <1>0, <1>c, <2>1
      <3> QED BY <1>d, <1>6, <2>1, <3>1 DEF FileInv
    <2>2. CASE f # "backup"
      <3>1. disk'[f] = disk[f]
        BY <1>0, <1>c, <2>2
      <3>2. FileInv(f)
        BY DEF DbInv, FilesInv
      <3> QED BY <1>1, <1>2, <1>5, <1>6, <2>2, <3>1, <3>2 DEF FileInv, InUse
    <2> QED BY <2>1, <2>2
  <1>9. WorkInv' /\ UpInv'
    BY <1>0, <1>1, <1>2 DEF DbInv, WorkInv, UpInv
  <1>10. IdleInv' /\ StartInv' /\ StopInv'
    BY <1>0, <1>1 DEF IdleInv, StartInv, StopInv
  <1> QED BY <1>7, <1>8, <1>9, <1>10 DEF DbInv, FilesInv

\* A process that is killed has left the mark of the root object, unless it has
\* not come up, and what it has written of a backup.
LEMMA KilledKeeps ==
    ASSUME DbInv, Kill \/ WriteBackupDies \/ TouchMissing
    PROVE  DbInv'
  <1> DEFINE written == IF WriteBackupDies THEN {"backup"} ELSE {}
  <1>0. /\ VarsOK
        /\ disk \in [Files -> Images \cup {NoImage}]
        /\ unrefused \in [Files -> BOOLEAN] /\ abnormal \in [Files -> BOOLEAN]
        /\ cur \in Files /\ Mapped \subseteq Files
    BY DEF DbInv, VarsOK, Mapped
  <1>k. Killed(Mapped \cup written) /\ End("killed")
    <2>1. Mapped \cup {} = Mapped
      OBVIOUS
    <2> QED BY <2>1 DEF Kill, WriteBackupDies, TouchMissing, Killed
  <1>1. /\ disk' \in [Files -> Images \cup {NoImage}]
        /\ \A f \in Files : disk'[f] # NoImage =>
              \/ disk'[f] = disk[f] /\ f \notin written
              \/ /\ f = "backup" /\ f \in written /\ pc = "up"
                 /\ ImageInv(disk'[f]) /\ disk'[f].root
    <2>1. CASE Kill /\ ~WriteBackupDies
      BY <1>0, <2>1 DEF Kill
    <2>2. CASE TouchMissing /\ ~WriteBackupDies
      <3>1. disk' = disk \/ disk' = [disk EXCEPT !["backup"] = NoImage]
        BY <2>2 DEF TouchMissing
      <3> QED BY <1>0, <2>2, <3>1
    <2>3. CASE WriteBackupDies
      <3>1. pc = "up" /\ pdb \in Images /\ ImageInv(pdb) /\ pdb.root
        BY <2>3, Running DEF WriteBackupDies
      <3>2. PICK copy \in Copies \cup {NoImage} : disk' = [disk EXCEPT !["backup"] = copy]
        BY <2>3 DEF WriteBackupDies
      <3>3. copy \in Images \cup {NoImage} /\ (copy # NoImage => ImageInv(copy) /\ copy.root)
        BY <3>1, CopiesSound
      <3> QED BY <1>0, <2>3, <3>1, <3>2, <3>3
    <2> QED BY <2>1, <2>2, <2>3
  <1> HIDE DEF written
  <1>2. /\ unrefused' \in [Files -> BOOLEAN]
        /\ \A f \in Files : unrefused'[f] =>
              unrefused[f] \/ (f \in Mapped \cup written /\ pc \in {"up", "stopping"})
    <2>1. CASE pc \in {"up", "stopping"}
      <3>1. unrefused' = Mark(unrefused, Mapped \cup written, TRUE)
        BY <1>k, <2>1 DEF Killed
      <3> QED BY <1>0, <2>1, <3>1 DEF Mark
    <2>2. CASE pc \notin {"up", "stopping"}
      <3>1. unrefused' = unrefused
        BY <1>k, <2>2 DEF Killed
      <3> QED BY <1>0, <3>1
    <2> QED BY <2>1, <2>2
  <1>3. /\ abnormal' \in [Files -> BOOLEAN]
        /\ \A f \in Files : ~abnormal'[f] =>
              ~abnormal[f] /\ ~(InUse /\ f \in Mapped \cup written)
    <2>1. CASE InUse
      <3>1. abnormal' = Mark(abnormal, Mapped \cup written, TRUE)
        BY <1>k, <2>1 DEF Killed, InUse
      <3> QED BY <1>0, <2>1, <3>1 DEF Mark
    <2>2. CASE ~InUse
      <3>1. abnormal' = abnormal
        BY <1>k, <2>2 DEF Killed, InUse
      <3> QED BY <1>0, <2>2, <3>1
    <2> QED BY <2>1, <2>2
  <1>4. ASSUME NEW f \in Files, disk'[f] # NoImage
        PROVE  /\ ImageInv(disk'[f]) /\ (disk'[f].whole \/ f = "backup")
               /\ unrefused'[f] => disk'[f].root
               /\ ~abnormal'[f] => Clean(disk'[f])
    <2>1. CASE disk'[f] = disk[f] /\ f \notin written
      <3>1. FileInv(f) /\ disk[f] # NoImage
        BY <1>4, <2>1 DEF DbInv, FilesInv
      <3>2. ASSUME f \in Mapped, pc \in {"up", "stopping"} PROVE disk[f].root
        <4>1. pdb.root
          BY <3>2 DEF DbInv, UpInv, StopInv
        <4> QED BY <3>2, <4>1 DEF Mapped, pdb
      <3> QED BY <1>2, <1>3, <2>1, <3>1, <3>2 DEF FileInv
    <2>2. CASE f = "backup" /\ f \in written /\ pc = "up"
               /\ ImageInv(disk'[f]) /\ disk'[f].root
      BY <1>3, <2>2 DEF InUse
    <2> QED BY <1>1, <1>4, <2>1, <2>2
  <1> QED BY <1>k, <1>1, <1>2, <1>3, <1>4, EndKeeps

---------------------------------------------------------------------------
\* A stuttering step changes nothing.
LEMMA UnchangedKeeps == DbInv /\ UNCHANGED vars => DbInv'
  <1> SUFFICES ASSUME DbInv, UNCHANGED vars PROVE DbInv'
    OBVIOUS
  <1>1. UNCHANGED <<disk, heap, pc, cur, nomap, ov_backup, ended, todo, queue, live, open,
                    threads, unrefused, abnormal>>
    BY DEF vars, process, owned, history
  <1>2. pdb' = pdb /\ Mapped' = Mapped /\ InUse' = InUse
    BY <1>1 DEF pdb, Mapped, InUse
  <1>3. VarsOK' /\ WorkInv'
    BY <1>1, <1>2 DEF DbInv, VarsOK, WorkInv
  <1>4. FilesInv'
    BY <1>1, <1>2 DEF DbInv, FilesInv, FileInv
  <1>5. IdleInv' /\ StartInv'
    BY <1>1, <1>2 DEF DbInv, IdleInv, StartInv
  <1>6. UpInv' /\ StopInv'
    BY <1>1, <1>2 DEF DbInv, UpInv, StopInv
  <1> QED BY <1>3, <1>4, <1>5, <1>6 DEF DbInv

\* Every step of the processes keeps the inductive invariant.
LEMMA DbNext == DbInv /\ [Next]_vars => DbInv'
  <1> SUFFICES ASSUME DbInv, [Next]_vars PROVE DbInv'
    OBVIOUS
  <1>1. CASE Start \/ Load \/ LoadFails
    BY <1>1, LoadKeeps
  <1>2. CASE Refuse \/ OpenFails \/ OpenDies \/ OpenLibraries
    BY <1>2, StartupKeeps
  <1>3. CASE \E o \in Objects \cup Fixtures : StartObject(o) \/ StopObject(o)
    BY <1>3, StartObjectKeeps, StopObjectKeeps
  <1>4. CASE StartRoot \/ Stop
    BY <1>4, StartRootStopKeep
  <1>5. CASE StopRoot
    BY <1>5, StopRootKeeps
  <1>6. CASE \E o \in Objects :
                CreateObject(o) \/ DeleteObject(o) \/ Accept(o) \/ Receive(o)
                \/ Release(o) \/ Close(o)
    BY <1>6, CreateObjectKeeps, DeleteObjectKeeps, ChannelKeeps
  <1>7. CASE WriteBackup
    BY <1>7, WriteBackupKeeps
  <1>8. CASE Kill \/ WriteBackupDies \/ TouchMissing
    BY <1>8, KilledKeeps
  <1>9. CASE UNCHANGED vars
    BY <1>9, UnchangedKeeps
  <1> QED BY <1>1, <1>2, <1>3, <1>4, <1>5, <1>6, <1>7, <1>8, <1>9 DEF Next

\* The inductive invariant holds throughout any number of runs of the server.
LEMMA DatabaseDbInv == Spec => []DbInv
  BY DbInit, DbNext, PTL DEF Spec

\* No process uses a buffer, a socket number or a thread's handle that an earlier
\* one has left in the file, wherever that one was killed, after a complete
\* shutdown the libraries find nothing of an earlier process, and an image that
\* was cut off is that of the backup (ov_database_startup, ov_database_write, the
\* startup and shutdown methods of the channels and the worker).
THEOREM DatabaseOwnsWhatItUses == Spec => []OwnsWhatItUses
  <1>1. DbInv => OwnsWhatItUses
    BY DbInvImplies
  <1> QED BY <1>1, DatabaseDbInv, PTL

\* The event list of a running server, which is lost with the process, and the
\* ACTIVE flags in the file, which are not, agree on the tasks that exist
\* (ov_scheduler_register, ov_scheduler_unregister).
THEOREM DatabaseEventsMatchDatabase == Spec => []EventsMatchDatabase
  <1>1. DbInv => EventsMatchDatabase
    BY DbInvImplies
  <1> QED BY <1>1, DatabaseDbInv, PTL

\* A server comes up only on a database whose last session was shut down
\* completely or has been refused since: the mark of the root object
\* (ov_database_startup) is there whenever it has to be.
THEOREM DatabaseKilledIsRefused == Spec => KilledIsRefused
  <1> DEFINE A == (pc # "up" /\ pc' = "up") => ~unrefused[cur]
  <1>1. DbInv /\ [Next]_vars => [A]_vars
    <2> SUFFICES ASSUME DbInv, Next, pc # "up", pc' = "up" PROVE ~unrefused[cur]
      OBVIOUS
    <2>1. ~(Start \/ Load \/ LoadFails)
      BY DEF Start, Load, LoadFails, End
    <2>2. ~(Refuse \/ OpenFails \/ OpenDies \/ OpenLibraries)
      BY DEF Refuse, OpenFails, OpenDies, OpenLibraries, EndWith, End
    <2>3. \A o : ~(StartObject(o) \/ StopObject(o))
      BY DEF StartObject, StopObject
    <2>4. ~(Stop \/ StopRoot)
      BY DEF Stop, StopRoot, EndWith, End
    <2>5. \A o : ~(CreateObject(o) \/ DeleteObject(o) \/ Accept(o) \/ Receive(o)
                   \/ Release(o) \/ Close(o))
      BY DEF CreateObject, DeleteObject, Accept, Receive, Release, Close
    <2>6. ~(WriteBackup \/ WriteBackupDies \/ TouchMissing \/ Kill)
      BY DEF WriteBackup, WriteBackupDies, TouchMissing, Kill, Killed, End
    <2>7. StartRoot
      BY <2>1, <2>2, <2>3, <2>4, <2>5, <2>6 DEF Next
    <2> QED BY <2>7 DEF StartRoot, DbInv, StartInv
  <1> QED BY <1>1, DatabaseDbInv, PTL DEF Spec, KilledIsRefused
===========================================================================

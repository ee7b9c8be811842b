------------------------------ MODULE FdTable --------------------------------
(* The file calls of the kernel (kernel/src/kernel/stubs.c): the descriptor    *)
(* table g_fd over the FatFs volume of module Volume.  The program runs alone  *)
(* and no interrupt handler touches files, so that a call is one step.         *)
(*                                                                             *)
(* The program is the environment.  It passes any descriptor, open or not, and *)
(* any flags, but heeds ffconf.h:288: it removes and renames no open object    *)
(* and opens none again that is being written, unless Shared lets it.          *)
EXTENDS Volume

CONSTANTS FD_MAX,  \* slots of the table, 16
          COUNTS,  \* sizes of reads and writes, in clusters
          OFFSETS, \* offsets the program seeks by
          FLAGS,   \* sets of flags the program opens with
          Shared   \* may a file be open twice when one of the two writes?

ASSUME TableAssumption == FD_MAX \in Nat \ {0}
ASSUME CountsAssumption == COUNTS \subseteq Nat \ {0}
ASSUME OffsetsAssumption == OFFSETS \subseteq Int
ASSUME FlagsAssumption == FLAGS \subseteq SUBSET {"CREAT", "EXCL", "TRUNC", "APPEND"}
ASSUME SharedAssumption == Shared \in BOOLEAN

VARIABLES
  vol,             \* the FAT volume
  g_fd,            \* the table: used, append, and the FIL
  g_mounted,
  errno,
  ret, got,        \* what the last call returned (fstat: st_size), and what it read
  held             \* ghost: descriptors handed out and not closed

vars == <<vol, g_fd, g_mounted, errno, ret, got, held>>

FD_BASE == 3
Slots == 0 .. FD_MAX - 1

\* What the program passes: every descriptor of the table and the one behind it.
Fds == FD_BASE .. FD_BASE + FD_MAX

FreeSlot == [used |-> FALSE, append |-> FALSE, f |-> Closed]

Init ==
  /\ vol \in [Names -> {None} \cup {[kind |-> "file", data |-> <<Junk>>, size |-> 1]}]
  /\ FreeClusters(vol) >= 0
  /\ g_fd = [i \in Slots |-> FreeSlot]
  /\ g_mounted = FALSE /\ errno = "0"
  /\ ret = 0 /\ got = <<>>
  /\ held = {}

\* f_mount(..., 0) only registers the work area: it has nothing to fail on.
ensure_mounted == g_mounted' = TRUE

ErrnoOf == [NO_FILE |-> "ENOENT", NO_PATH |-> "ENOENT", INVALID_NAME |-> "EINVAL",
            EXIST |-> "EEXIST", DENIED |-> "EACCES", NOT_READY |-> "EBUSY",
            INVALID_OBJECT |-> "EBADF", DISK_ERR |-> "EIO", INT_ERR |-> "EIO",
            WRITE_PROTECTED |-> "EROFS", NOT_ENABLED |-> "ENODEV", NO_FILESYSTEM |-> "ENODEV",
            TOO_MANY_OPEN_FILES |-> "EMFILE"]

ff_to_errno(fr) == IF fr \in DOMAIN ErrnoOf THEN ErrnoOf[fr] ELSE "EIO"

Returns(n) == ret' = n /\ UNCHANGED errno
Fails(e)   == ret' = -1 /\ errno' = e

\* How a call answers: n, or the error FatFs gave.
Answers(fr, n) ==
  /\ IF fr = "OK" THEN Returns(n) ELSE Fails(ff_to_errno(fr))
  /\ got' = <<>>

Refuses(e) == Fails(e) /\ got' = <<>> /\ UNCHANGED <<vol, g_fd, held>>

fd_get(fd) == {i \in Slots : FD_BASE + i = fd /\ g_fd[i].used}

fd_free(i) == g_fd' = [g_fd EXCEPT ![i] = FreeSlot]

\* What a call did to the FIL of slot i.
Leaves(i, o) ==
  /\ vol' = o.vol
  /\ g_fd' = [g_fd EXCEPT ![i] = [used |-> TRUE, append |-> g_fd[i].append, f |-> o.fil]]
  /\ UNCHANGED held

--------------------------------------------------------------------------------
(* Opening *)

Access == [RDONLY |-> {"READ"}, WRONLY |-> {"WRITE"}, RDWR |-> {"READ", "WRITE"}]

\* The flags as f_open's mode.  Without O_CREAT, O_TRUNC is not looked at.
Mode(access, oflag) ==
  Access[access] \cup
  (IF "CREAT" \notin oflag THEN {}
   ELSE IF "EXCL" \in oflag THEN {"CREATE_NEW"}
   ELSE IF "TRUNC" \in oflag THEN {"CREATE_ALWAYS"} ELSE {"OPEN_ALWAYS"})

\* fd_alloc: the first slot that is free.
fd_alloc == {i \in Slots : ~g_fd[i].used /\ \A j \in 0 .. i - 1 : g_fd[j].used}

\* Mutant: the seek is left out.
Unmoved_AppendSeek(v, f, append) == {Outcome("OK", v, f, 0)}

\* f_lseek(&e->f, f_size(&e->f)) for a descriptor that appends; nobody looks at
\* its result.
AppendSeek(v, f, append) == IF append THEN f_lseek(v, f, f.objsize) ELSE {Outcome("OK", v, f, 0)}

\* Mutant: a failing open keeps its slot.
Leaky_OpensSlot(i, path, acc, append) ==
  \E o \in f_open(vol, path, acc) :
    /\ Answers(o.fr, FD_BASE + i)
    /\ vol' = o.vol
    /\ g_fd' = [g_fd EXCEPT ![i] = [used |-> TRUE, append |-> append, f |-> o.fil]]
    /\ held' = IF o.fr = "OK" THEN held \cup {FD_BASE + i} ELSE held

OpensSlot(i, path, acc, append) ==
  \E o \in f_open(vol, path, acc) :
    /\ Answers(o.fr, FD_BASE + i)
    /\ IF o.fr = "OK"
         THEN \E at \in AppendSeek(o.vol, o.fil, append) :
                /\ vol' = at.vol
                /\ g_fd' = [g_fd EXCEPT ![i] = [used |-> TRUE, append |-> append, f |-> at.fil]]
                /\ held' = held \cup {FD_BASE + i}
         ELSE vol' = o.vol /\ fd_free(i) /\ UNCHANGED held

\* Mutant: f_open before the slot is found.
Early_open(path, access, oflag) ==
  /\ ensure_mounted
  /\ IF access \notin DOMAIN Access THEN Refuses("EINVAL")
     ELSE IF fd_alloc = {}
       THEN /\ \E o \in f_open(vol, path, Mode(access, oflag)) : vol' = o.vol
            /\ Fails("EMFILE") /\ got' = <<>> /\ UNCHANGED <<g_fd, held>>
     ELSE \E i \in fd_alloc : OpensSlot(i, path, Mode(access, oflag), "APPEND" \in oflag)

_open(path, access, oflag) ==
  /\ ensure_mounted
  /\ IF access \notin DOMAIN Access THEN Refuses("EINVAL")
     ELSE IF fd_alloc = {} THEN Refuses("EMFILE")
     ELSE \E i \in fd_alloc : OpensSlot(i, path, Mode(access, oflag), "APPEND" \in oflag)

--------------------------------------------------------------------------------
(* Calls on a descriptor *)

\* The test every call begins with; fstat and close come before the mounting.
BadDescriptor(fd) ==
  /\ fd_get(fd) = {}
  /\ Refuses("EBADF")
  /\ ensure_mounted \/ UNCHANGED g_mounted

_read(fd, count) ==
  /\ ensure_mounted
  /\ \E i \in fd_get(fd) : \E o \in f_read(vol, g_fd[i].f, count) :
       /\ Leaves(i, o)
       /\ IF o.fr = "OK" THEN Returns(o.n) ELSE Fails(ff_to_errno(o.fr))
       /\ got' = SubSeq(vol[g_fd[i].f.name].data, g_fd[i].f.fptr + 1, g_fd[i].f.fptr + o.n)

_write(fd, s) ==
  /\ ensure_mounted
  /\ \E i \in fd_get(fd) :
       \E at \in AppendSeek(vol, g_fd[i].f, g_fd[i].append) :
         \E o \in f_write(at.vol, at.fil, s) : Leaves(i, o) /\ Answers(o.fr, o.n)

Base(f, whence) ==
  IF whence = "SET" THEN 0 ELSE IF whence = "CUR" THEN f.fptr ELSE f.objsize

\* Mutant: the test of a negative offset is left out.
Unchecked_BeforeStart(base, offset) == FALSE

BeforeStart(base, offset) == offset < 0 /\ -offset > base

\* A position before the first byte is refused before FatFs sees it.
_lseek(fd, offset, whence) ==
  /\ ensure_mounted
  /\ \E i \in fd_get(fd) :
       LET base == Base(g_fd[i].f, whence)
       IN  IF whence \notin {"SET", "CUR", "END"} \/ BeforeStart(base, offset)
            THEN Refuses("EINVAL")
            ELSE \E o \in f_lseek(vol, g_fd[i].f, base + offset) :
                   Leaves(i, o) /\ Answers(o.fr, o.fil.fptr)

\* st says whether the program passed a place for the answer: that is looked at
\* before the descriptor.
_fstat(fd, st) ==
  /\ UNCHANGED g_mounted
  /\ IF ~st THEN Refuses("EFAULT")
     ELSE /\ \E i \in fd_get(fd) : Returns(g_fd[i].f.objsize)
          /\ got' = <<>>
          /\ UNCHANGED <<vol, g_fd, held>>

\* Mutant: the slot is freed without f_close.
Silent_close(fd) ==
  /\ UNCHANGED <<g_mounted, vol>>
  /\ \E i \in fd_get(fd) : fd_free(i)
  /\ held' = held \ {fd}
  /\ Answers("OK", 0)

\* The slot is freed whatever f_close answers.
_close(fd) ==
  /\ UNCHANGED g_mounted
  /\ \E i \in fd_get(fd) : \E o \in f_close(vol, g_fd[i].f) :
       /\ vol' = o.vol
       /\ fd_free(i)
       /\ held' = held \ {fd}
       /\ Answers(o.fr, 0)

\* Descriptors 0 to 2: close, lseek and fstat (reads and writes are the
\* terminal's and the console's).
Standard ==
  /\ Returns(0) /\ got' = <<>>
  /\ UNCHANGED <<vol, g_fd, g_mounted, held>>

--------------------------------------------------------------------------------
(* Calls on a name *)

Changes(o) == vol' = o.vol /\ Answers(o.fr, 0) /\ UNCHANGED <<g_fd, held>>

_unlink(path) == ensure_mounted /\ \E o \in f_unlink(vol, path) : Changes(o)
_rename(oldp, newp) == ensure_mounted /\ \E o \in f_rename(vol, oldp, newp) : Changes(o)
_mkdir(path) == ensure_mounted /\ \E o \in f_mkdir(vol, path) : Changes(o)

--------------------------------------------------------------------------------
(* The program *)

Opened(path) == {i \in Slots : g_fd[i].used /\ g_fd[i].f.name = path}

Idle(path) == Opened(path) = {}

\* Readers share a file.  A shared writer needs a file whose first cluster is
\* already known to its directory entry.
MayOpen(path, acc) ==
  \/ Idle(path)
  \/ /\ "CREATE_ALWAYS" \notin acc
     /\ \/ \A i \in Opened(path) : "WRITE" \notin acc \cup g_fd[i].f.can
        \/ Shared /\ vol[path].size > 0

Opening ==
  \E path \in Names :
    \/ _open(path, "3", {})
    \/ \E access \in DOMAIN Access, oflag \in FLAGS :
         MayOpen(path, Mode(access, oflag)) /\ _open(path, access, oflag)

Descriptors ==
  \E fd \in Fds :
    \/ BadDescriptor(fd)
    \/ \E n \in COUNTS : _read(fd, n)
    \/ \E n \in COUNTS, d \in Data : _write(fd, [j \in 1 .. n |-> d])
    \/ \E offset \in OFFSETS, whence \in {"SET", "CUR", "END", "3"} : _lseek(fd, offset, whence)
    \/ \E st \in BOOLEAN : _fstat(fd, st)
    \/ _close(fd)

Entries ==
  \E path \in Names :
    \/ Idle(path) /\ _unlink(path)
    \/ _mkdir(path)
    \/ \E new \in Names : Idle(path) /\ _rename(path, new)

Next == Opening \/ Descriptors \/ Standard \/ Entries

Spec == Init /\ [][Next]_vars

--------------------------------------------------------------------------------
(* Properties *)

Clusters == Data \cup {Junk}
Contents == UNION {[1 .. n -> Clusters] : n \in 0 .. CLUSTERS}

TypeOK ==
  /\ vol \in [Names -> [kind : {"none", "file", "dir"}, data : Contents, size : 0 .. CLUSTERS]]
  /\ \A i \in Slots :
       LET f == g_fd[i].f
       IN  /\ g_fd[i].used \in BOOLEAN /\ g_fd[i].append \in BOOLEAN
           /\ g_fd[i].used <=> f.name \in Names
           /\ f.can \subseteq {"READ", "WRITE"}
           /\ f.fptr \in 0 .. CLUSTERS /\ f.objsize \in 0 .. CLUSTERS
           /\ ~f.err => f.fptr <= f.objsize
           /\ f.dirty \in BOOLEAN /\ f.err \in BOOLEAN
  /\ DOMAIN g_fd = Slots
  /\ g_mounted \in BOOLEAN
  /\ errno \in {"0", "EINVAL", "EFAULT"} \cup {ErrnoOf[fr] : fr \in DOMAIN ErrnoOf}
  /\ ret \in -1 .. Larger(FD_BASE + FD_MAX - 1, CLUSTERS) /\ got \in Contents
  /\ FreeClusters(vol) \in 0 .. CLUSTERS

\* No slot is lost and none is shared (fd_alloc, fd_free): through all opens
\* that fail half way and all closes whose f_close fails, the slots in use are
\* those of the descriptors the program holds.
SlotsMatchDescriptors == {FD_BASE + i : i \in {j \in Slots : g_fd[j].used}} = held

\* What the file now holds: the longest size anybody has for it.
Content(path) ==
  LET sizes == {vol[path].size} \cup {g_fd[i].f.objsize : i \in Opened(path)}
  IN  SubSeq(vol[path].data, 1, CHOOSE n \in sizes : \A m \in sizes : m <= n)

\* A call refused for a reason other than a hard error has changed no file and
\* no slot's state (the early returns of the calls: an open that finds the
\* table full has not yet created or emptied anything).
RefusedCallsChangeNothing ==
  [][(ret' = -1 /\ errno' # "EIO") =>
       /\ UNCHANGED <<vol, held>>
       /\ \A i \in Slots : [g_fd[i].f EXCEPT !.fptr = 0] = [g_fd'[i].f EXCEPT !.fptr = 0]]_vars

\* A descriptor opened with O_APPEND only ever makes its file longer, wherever
\* the program has moved its position and although the result of the seek to
\* the end is not looked at (_write, _open).
AppendsAtTheEnd ==
  [][\A i \in Slots :
       (g_fd[i].used /\ g_fd[i].append /\ g_fd'[i].used /\ g_fd'[i].f # g_fd[i].f) =>
         LET path == g_fd[i].f.name
         IN /\ Len(Content(path)) <= Len(Content(path)')
            /\ SubSeq(Content(path)', 1, Len(Content(path))) = Content(path)]_vars

NoDescriptor == [name |-> "", can |-> {}, append |-> FALSE, pos |-> 0, unsure |-> 0]

\* What the volume and the table stand for.
Files == [n \in Names |-> [kind |-> vol[n].kind, data |-> Content(n)]]
Descs == [fd \in Fds |->
  IF fd - FD_BASE \in Slots /\ g_fd[fd - FD_BASE].used
    THEN LET e == g_fd[fd - FD_BASE]
         IN  [name |-> e.f.name, can |-> e.f.can, append |-> e.append, pos |-> e.f.fptr,
              unsure |-> IF e.f.dirty THEN 0 ELSE e.f.objsize - vol[e.f.name].size]
    ELSE NoDescriptor]
DiskError == ret = -1 /\ errno = "EIO"

\* The calls over the caching FatFs objects are files without caches: every
\* read, seek, fstat and write is answered as if contents changed at once.
Posix == INSTANCE PosixFiles WITH
  LIMIT <- CLUSTERS, files <- Files, descs <- Descs, disk <- DiskError

ImplementsPosixFiles == Posix!Spec
=============================================================================

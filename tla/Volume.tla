------------------------------- MODULE Volume --------------------------------
(* FatFs as the system calls of kernel/src/kernel/stubs.c use it (its source   *)
(* is a submodule that is not in the repository): the root directory of one    *)
(* FAT volume, and the FIL objects that cache an open file's size until        *)
(* f_close records it.  The unit of contents is a cluster.                     *)
(*                                                                             *)
(* An operation is the set of its outcomes: the result code, the volume and    *)
(* the FIL it leaves, and how much was transferred.  With DiskFails a hard     *)
(* error (FR_DISK_ERR, FR_INT_ERR) may end any call, with none, part or all of *)
(* it done; f_read, f_write and f_lseek then abort the FIL where they stand,   *)
(* and only f_close can still succeed on it.                                   *)
EXTENDS Integers, Sequences, FiniteSets

CONSTANTS Names,      \* names of the root directory
          Data,       \* what the program writes into a cluster
          Junk,       \* what a cluster holds that nobody has written
          CLUSTERS,   \* clusters of the volume
          DiskFails   \* may the disk fail?

ASSUME NamesAssumption == IsFiniteSet(Names) /\ "" \notin Names
ASSUME JunkAssumption == Junk \notin Data
ASSUME ClustersAssumption == CLUSTERS \in Nat
ASSUME DiskFailsAssumption == DiskFails \in BOOLEAN

None  == [kind |-> "none", data |-> <<>>, size |-> 0]
Empty == [kind |-> "file", data |-> <<>>, size |-> 0]
Directory == [kind |-> "dir", data |-> <<Junk>>, size |-> 0]

Closed == [name |-> "", can |-> {}, fptr |-> 0, objsize |-> 0, dirty |-> FALSE, err |-> FALSE]

\* The clusters in use, each by its file and its place in it.
UsedBy(v, n) == {n} \X DOMAIN v[n].data
FreeClusters(v) == CLUSTERS - Cardinality(UNION {UsedBy(v, n) : n \in Names})

Larger(m, n)  == IF m > n THEN m ELSE n
Smaller(m, n) == IF m < n THEN m ELSE n

\* The first k clusters of s written over c from position p on.
Overlay(c, p, s, k) ==
  [j \in 1 .. Larger(Len(c), p + k) |->
     IF j \in p + 1 .. p + k THEN s[j - p] ELSE IF j <= Len(c) THEN c[j] ELSE Junk]

Outcome(fr, v, f, n) == [fr |-> fr, vol |-> v, fil |-> f, n |-> n]
HardError(v, f) == IF DiskFails THEN {Outcome("DISK_ERR", v, f, 0)} ELSE {}
Aborted(f) == [f EXCEPT !.err = TRUE]

\* A call that finds it cannot: the disk may fail before it does.
Refused(v, fr) == {Outcome(fr, v, Closed, 0)} \cup HardError(v, Closed)

\* A call that leaves w: the disk may fail before the change or after it.
Changed(v, w) == {Outcome("OK", w, Closed, 0)} \cup HardError(v, Closed) \cup HardError(w, Closed)

\* What f_open answers to mode acc for a name that holds e.
OpenResult(e, acc) ==
  IF acc \cap {"CREATE_NEW", "CREATE_ALWAYS", "OPEN_ALWAYS"} = {}
    THEN IF e.kind = "file" THEN "OK" ELSE "NO_FILE"
    ELSE IF e.kind = "dir" THEN "DENIED"
    ELSE IF e.kind = "file" /\ "CREATE_NEW" \in acc THEN "EXIST" ELSE "OK"

f_open(v, path, acc) ==
  LET fr     == OpenResult(v[path], acc)
      begins == v[path].kind = "none" \/ "CREATE_ALWAYS" \in acc
      e      == IF begins THEN Empty ELSE v[path]
      f      == [name |-> path, can |-> acc \cap {"READ", "WRITE"}, fptr |-> 0,
                 objsize |-> e.size, dirty |-> begins, err |-> FALSE]
      w      == [v EXCEPT ![path] = e]
  IN  IF fr # "OK" THEN Refused(v, fr)
      ELSE {Outcome(fr, w, f, 0)} \cup HardError(v, Closed) \cup HardError(w, Closed)

\* Data reaches the disk whenever it likes, but the directory entry learns the
\* size here.
f_close(v, f) == Changed(v, IF f.dirty THEN [v EXCEPT ![f.name].size = f.objsize] ELSE v)

f_read(v, f, count) ==
  LET n == Smaller(count, f.objsize - f.fptr)
  IN  IF f.err THEN {Outcome("DISK_ERR", v, f, 0)}
      ELSE IF "READ" \notin f.can THEN {Outcome("DENIED", v, f, 0)}
      ELSE {Outcome("OK", v, [f EXCEPT !.fptr = @ + n], n)} \cup
           UNION {HardError(v, Aborted([f EXCEPT !.fptr = @ + k])) : k \in 0 .. n}

\* A full volume cuts a write short without an error.  A hard error leaves the
\* clusters that were written before it, and the size they reach to: but only a
\* write that succeeds sets the modified flag by which f_close records it.
f_write(v, f, s) ==
  LET data == v[f.name].data
      n    == Smaller(Len(s), Len(data) + FreeClusters(v) - f.fptr)
      At(k)      == f.fptr + k
      Volume(k)  == [v EXCEPT ![f.name].data = Overlay(data, f.fptr, s, k)]
      Written(k) == [f EXCEPT !.fptr = At(k), !.objsize = Larger(@, At(k))]
  IN  IF f.err THEN {Outcome("DISK_ERR", v, f, 0)}
      ELSE IF "WRITE" \notin f.can THEN {Outcome("DENIED", v, f, 0)}
      ELSE {Outcome("OK", Volume(n), [Written(n) EXCEPT !.dirty = TRUE], n)} \cup
           UNION {HardError(Volume(k), Aborted(Written(k))) : k \in 0 .. n}

\* A position behind the end is clipped, or, when the file may be written,
\* reached by making the file longer: cluster by cluster, and the size when it
\* is there.
f_lseek(v, f, ofs) ==
  LET data == v[f.name].data
      at   == IF "WRITE" \in f.can THEN Smaller(ofs, Len(data) + FreeClusters(v))
                                   ELSE Smaller(ofs, f.objsize)
      Reached(k) == [v EXCEPT ![f.name].data = Overlay(data, k, <<>>, 0)]
      g == [f EXCEPT !.fptr = at, !.objsize = Larger(@, at), !.dirty = @ \/ at > f.objsize]
  IN  IF f.err THEN {Outcome("DISK_ERR", v, f, 0)}
      ELSE {Outcome("OK", Reached(at), g, 0)} \cup HardError(Reached(at), Aborted(g)) \cup
           UNION {HardError(Reached(k), Aborted([f EXCEPT !.fptr = k])) : k \in 0 .. at}

f_unlink(v, path) ==
  IF v[path].kind = "none" THEN Refused(v, "NO_FILE")
  ELSE Changed(v, [v EXCEPT ![path] = None])

f_rename(v, old, new) ==
  IF v[old].kind = "none" THEN Refused(v, "NO_FILE")
  ELSE IF v[new].kind # "none" /\ new # old THEN Refused(v, "EXIST")
  ELSE Changed(v, [[v EXCEPT ![old] = None] EXCEPT ![new] = v[old]])

f_mkdir(v, path) ==
  IF v[path].kind # "none" THEN Refused(v, "EXIST")
  ELSE IF FreeClusters(v) = 0 THEN Refused(v, "DENIED")
  ELSE Changed(v, [v EXCEPT ![path] = Directory])
=============================================================================

--------------------------- MODULE FdTableProofs -----------------------------
(* The file calls, proved for every size of the table, every volume and every  *)
(* error FatFs may answer.  The table is consistent, for what a call does to it *)
(* depends on FatFs only through "it succeeded" or "it did not".  The open      *)
(* files fit the volume, and a refused call has done nothing.  And while the    *)
(* program opens a file it writes only once (ffconf.h:288), the sizes that the  *)
(* FILs cache never contradict the directory: appends append, and the calls     *)
(* implement PosixFiles, files that have no caches.                            *)
EXTENDS FdTable, FiniteSetTheorems, SequenceTheorems, FunctionTheorems, TLAPS

\* The table is a table, its slots say whether they are in use, a slot that is
\* not is blank, and the program holds the others.
TableInv ==
  /\ DOMAIN g_fd = Slots
  /\ \A i \in Slots : g_fd[i].used \in BOOLEAN
  /\ \A i \in Slots : ~g_fd[i].used => g_fd[i] = FreeSlot
  /\ SlotsMatchDescriptors

LEMMA BlankIsFree == FreeSlot.used = FALSE
  BY DEF FreeSlot

\* Slots and descriptors are one to one: slot i is in use exactly when the
\* program holds descriptor 3 + i, and it holds no other (fd_get's arithmetic).
LEMMA HeldSlots ==
  ASSUME TableInv
  PROVE  /\ \A i \in Slots : g_fd[i].used <=> FD_BASE + i \in held
         /\ \A fd \in held : \E i \in Slots : fd = FD_BASE + i
  BY DEF TableInv, SlotsMatchDescriptors, Slots, FD_BASE

\* The converse, for the next state.
LEMMA SlotsAreHeld ==
  ASSUME \A i \in Slots : g_fd'[i].used <=> FD_BASE + i \in held',
         \A fd \in held' : \E i \in Slots : fd = FD_BASE + i
  PROVE  SlotsMatchDescriptors'
  BY DEF SlotsMatchDescriptors, Slots, FD_BASE

\* A call that takes slot i and hands out its descriptor (_open).
LEMMA TakesSlot ==
  ASSUME TableInv, NEW i \in Slots, NEW append, NEW f,
         g_fd' = [g_fd EXCEPT ![i] = [used |-> TRUE, append |-> append, f |-> f]],
         held' = held \cup {FD_BASE + i}
  PROVE  TableInv'
<1>1. \A j \in Slots : g_fd'[j] = IF j = i THEN [used |-> TRUE, append |-> append, f |-> f]
                                           ELSE g_fd[j]
  BY DEF TableInv
<1>2. DOMAIN g_fd' = Slots
  BY DEF TableInv
<1>3. SlotsMatchDescriptors'
  <2>1. \A j \in Slots : g_fd'[j].used <=> FD_BASE + j \in held'
    BY <1>1, HeldSlots DEF Slots, FD_BASE
  <2>2. \A fd \in held' : \E j \in Slots : fd = FD_BASE + j
    BY HeldSlots
  <2>. QED
    BY <2>1, <2>2, SlotsAreHeld
<1>. QED
  BY <1>1, <1>2, <1>3 DEF TableInv

\* A call that changes the FIL of a slot in use (_read, _write, _lseek).
LEMMA KeepsSlot ==
  ASSUME TableInv, NEW i \in Slots, g_fd[i].used, NEW o, Leaves(i, o)
  PROVE  TableInv'
<1>1. held' = held \cup {FD_BASE + i}
  BY HeldSlots DEF Leaves
<1>. QED
  BY <1>1, TakesSlot DEF Leaves

\* A call that frees slot i, in use or not (_close, and _open after a refusal).
LEMMA FreesSlot ==
  ASSUME TableInv, NEW i \in Slots, fd_free(i), held' = held \ {FD_BASE + i}
  PROVE  TableInv'
<1>1. \A j \in Slots : g_fd'[j] = IF j = i THEN FreeSlot ELSE g_fd[j]
  BY DEF TableInv, fd_free
<1>2. DOMAIN g_fd' = Slots
  BY DEF TableInv, fd_free
<1>3. SlotsMatchDescriptors'
  <2>1. \A j \in Slots : g_fd'[j].used <=> FD_BASE + j \in held'
    BY <1>1, HeldSlots, BlankIsFree DEF Slots, FD_BASE
  <2>2. \A fd \in held' : \E j \in Slots : fd = FD_BASE + j
    BY HeldSlots
  <2>. QED
    BY <2>1, <2>2, SlotsAreHeld
<1>4. \A j \in Slots : g_fd'[j].used \in BOOLEAN
  BY <1>1, BlankIsFree DEF TableInv
<1>5. \A j \in Slots : ~g_fd'[j].used => g_fd'[j] = FreeSlot
  BY <1>1 DEF TableInv
<1>6. FreeSlot' = FreeSlot
  BY DEF FreeSlot, Closed
<1>. QED
  BY <1>2, <1>3, <1>4, <1>5, <1>6 DEF TableInv

\* A call that touches neither the table nor what the program holds.
LEMMA LeavesTable ==
  ASSUME TableInv, UNCHANGED <<g_fd, held>>
  PROVE  TableInv'
  BY DEF TableInv, SlotsMatchDescriptors

LEMMA OpenKeepsTable ==
  ASSUME TableInv, NEW path, NEW access, NEW oflag, _open(path, access, oflag)
  PROVE  TableInv'
<1>1. CASE UNCHANGED <<g_fd, held>>
  BY <1>1, LeavesTable
<1>2. CASE \E i \in fd_alloc : OpensSlot(i, path, Mode(access, oflag), "APPEND" \in oflag)
  <2>1. PICK i \in fd_alloc : OpensSlot(i, path, Mode(access, oflag), "APPEND" \in oflag)
    BY <1>2
  <2>2. i \in Slots /\ ~g_fd[i].used
    BY DEF fd_alloc
  <2>3. CASE \E at : /\ g_fd' = [g_fd EXCEPT ![i] = [used |-> TRUE, append |-> "APPEND" \in oflag,
                                                     f |-> at.fil]]
                     /\ held' = held \cup {FD_BASE + i}
    BY <2>2, <2>3, TakesSlot
  <2>4. CASE fd_free(i) /\ UNCHANGED held
    <3>1. held' = held \ {FD_BASE + i}
      BY <2>2, <2>4, HeldSlots
    <3>. QED
      BY <2>2, <2>4, <3>1, FreesSlot
  <2>. QED
    BY <2>1, <2>3, <2>4 DEF OpensSlot
<1>. QED
  BY <1>1, <1>2 DEF _open, Refuses

LEMMA CallKeepsTable ==
  ASSUME TableInv, Descriptors
  PROVE  TableInv'
<1>. PICK fd \in Fds :
       \/ BadDescriptor(fd)
       \/ \E n \in COUNTS : _read(fd, n)
       \/ \E n \in COUNTS, d \in Data : _write(fd, [j \in 1 .. n |-> d])
       \/ \E offset \in OFFSETS, whence \in {"SET", "CUR", "END", "3"} : _lseek(fd, offset, whence)
       \/ \E st \in BOOLEAN : _fstat(fd, st)
       \/ _close(fd)
  BY DEF Descriptors
<1>0. \A i \in fd_get(fd) : i \in Slots /\ g_fd[i].used /\ fd = FD_BASE + i
  BY DEF fd_get
<1>1. CASE BadDescriptor(fd)
  BY <1>1, LeavesTable DEF BadDescriptor, Refuses
<1>2. CASE \E n \in COUNTS : _read(fd, n)
  BY <1>0, <1>2, KeepsSlot DEF _read
<1>3. CASE \E n \in COUNTS, d \in Data : _write(fd, [j \in 1 .. n |-> d])
  <2>1. PICK n \in COUNTS, d \in Data : _write(fd, [j \in 1 .. n |-> d])
    BY <1>3
  <2>2. \E i \in fd_get(fd) : \E o : Leaves(i, o)
    BY <2>1 DEF _write
  <2>. QED
    BY <1>0, <2>2, KeepsSlot
<1>4. CASE \E offset \in OFFSETS, whence \in {"SET", "CUR", "END", "3"} : _lseek(fd, offset, whence)
  <2>1. PICK offset \in OFFSETS, whence \in {"SET", "CUR", "END", "3"} : _lseek(fd, offset, whence)
    BY <1>4
  <2>2. UNCHANGED <<g_fd, held>> \/ \E i \in fd_get(fd) : \E o : Leaves(i, o)
    BY <2>1 DEF _lseek, Refuses
  <2>. QED
    BY <1>0, <2>2, KeepsSlot, LeavesTable
<1>5. CASE \E st \in BOOLEAN : _fstat(fd, st)
  BY <1>5, LeavesTable DEF _fstat, Refuses
<1>6. CASE _close(fd)
  <2>1. PICK i \in fd_get(fd) : fd_free(i) /\ held' = held \ {fd}
    BY <1>6 DEF _close
  <2>. QED
    BY <1>0, <2>1, FreesSlot
<1>. QED
  BY <1>1, <1>2, <1>3, <1>4, <1>5, <1>6

LEMMA TableInit == Init => TableInv
<1>. SUFFICES ASSUME Init PROVE TableInv
  OBVIOUS
<1>1. DOMAIN g_fd = Slots /\ \A i \in Slots : g_fd[i] = FreeSlot
  BY DEF Init
<1>2. SlotsMatchDescriptors
  <2>1. {j \in Slots : g_fd[j].used} = {}
    BY <1>1, BlankIsFree
  <2>2. held = {}
    BY DEF Init
  <2>. QED
    BY <2>1, <2>2 DEF SlotsMatchDescriptors
<1>. QED
  BY <1>1, <1>2, BlankIsFree DEF TableInv

LEMMA TableStep == TableInv /\ [Next]_vars => TableInv'
<1>. SUFFICES ASSUME TableInv, [Next]_vars PROVE TableInv'
  OBVIOUS
<1>1. CASE Opening
  BY <1>1, OpenKeepsTable DEF Opening
<1>2. CASE Descriptors
  BY <1>2, CallKeepsTable
<1>3. CASE Standard
  BY <1>3, LeavesTable DEF Standard
<1>4. CASE Entries
  BY <1>4, LeavesTable DEF Entries, _unlink, _rename, _mkdir, Changes
<1>5. CASE UNCHANGED vars
  BY <1>5, LeavesTable DEF vars
<1>. QED
  BY <1>1, <1>2, <1>3, <1>4, <1>5 DEF Next

\* The inductive invariant of the descriptor table holds always.
THEOREM TableInvariant == Spec => []TableInv
<1>. QED
  BY TableInit, TableStep, PTL DEF Spec

\* The slots in use are the descriptors the program holds, whatever opens and
\* closes failed on the way: none is leaked, none is handed out twice.
THEOREM NoSlotIsLeaked == Spec => []SlotsMatchDescriptors
<1>1. TableInv => SlotsMatchDescriptors
  BY DEF TableInv
<1>. QED
  BY <1>1, TableInvariant, PTL

-----------------------------------------------------------------------------
(* Clusters: what a change of one file does to the free ones.                 *)

Used(v) == UNION {UsedBy(v, n) : n \in Names}
UsedByOthers(v, p) == UNION {UsedBy(v, n) : n \in Names \ {p}}

LEMMA UsedByFile ==
  ASSUME NEW v, NEW n, v[n].data \in Seq(Clusters)
  PROVE  IsFiniteSet(UsedBy(v, n)) /\ Cardinality(UsedBy(v, n)) = Len(v[n].data)
<1>1. Len(v[n].data) \in Nat /\ DOMAIN v[n].data = 1 .. Len(v[n].data)
  OBVIOUS
<1>2. /\ IsFiniteSet(1 .. Len(v[n].data))
      /\ Cardinality(1 .. Len(v[n].data)) = Len(v[n].data)
  <2>1. 1 \in Int /\ Len(v[n].data) \in Int
    BY <1>1
  <2>2. /\ IsFiniteSet(1 .. Len(v[n].data))
        /\ Cardinality(1 .. Len(v[n].data)) =
             IF 1 > Len(v[n].data) THEN 0 ELSE Len(v[n].data) - 1 + 1
    BY <2>1, FS_Interval
  <2>3. QED BY <1>1, <2>2
<1>3. IsFiniteSet({n}) /\ Cardinality({n}) = 1
  BY FS_Singleton
<1> DEFINE S == {n}
           T == 1 .. Len(v[n].data)
<1>4. IsFiniteSet(S \X T) /\ Cardinality(S \X T) = Cardinality(S) * Cardinality(T)
  <2>1. IsFiniteSet(S) /\ IsFiniteSet(T)
    BY <1>2, <1>3
  <2> HIDE DEF S, T
  <2>2. QED BY <2>1, FS_Product
<1>5. Cardinality(S) * Cardinality(T) = Len(v[n].data)
  BY <1>1, <1>2, <1>3
<1>6. QED BY <1>1, <1>4, <1>5 DEF UsedBy

LEMMA UsedIsFinite ==
  ASSUME NEW v, \A n \in Names : v[n].data \in Seq(Clusters)
  PROVE  IsFiniteSet(Used(v))
<1> DEFINE T == {UsedBy(v, n) : n \in Names}
           F == [n \in Names |-> UsedBy(v, n)]
<1>1. F \in Surjection(Names, T)
  BY Fun_IsSurj
<1>2. IsFiniteSet(T)
  BY <1>1, NamesAssumption, FS_Surjection
<1>3. \A S \in T : IsFiniteSet(S)
  BY UsedByFile
<1>4. QED BY <1>2, <1>3, FS_UNION DEF Used

\* A cluster belongs to one file: those of file p are not those of the others.
LEMMA UsedSplits ==
  ASSUME NEW v, NEW p \in Names, \A n \in Names : v[n].data \in Seq(Clusters)
  PROVE  /\ IsFiniteSet(UsedByOthers(v, p))
         /\ Cardinality(Used(v)) = Cardinality(UsedByOthers(v, p)) + Len(v[p].data)
<1>1. Used(v) = UsedByOthers(v, p) \cup UsedBy(v, p)
  BY DEF Used, UsedByOthers
<1>2. UsedByOthers(v, p) \cap UsedBy(v, p) = {}
  BY DEF UsedBy, UsedByOthers
<1>3. IsFiniteSet(Used(v))
  BY UsedIsFinite
<1>4. IsFiniteSet(UsedByOthers(v, p))
  <2>1. UsedByOthers(v, p) \in SUBSET Used(v)
    BY <1>1
  <2>2. QED BY <1>3, <2>1, FS_Subset
<1>5. IsFiniteSet(UsedBy(v, p)) /\ Cardinality(UsedBy(v, p)) = Len(v[p].data)
  BY UsedByFile
<1>6. Cardinality(UsedByOthers(v, p) \cup UsedBy(v, p)) =
        Cardinality(UsedByOthers(v, p)) + Cardinality(UsedBy(v, p))
          - Cardinality(UsedByOthers(v, p) \cap UsedBy(v, p))
  BY <1>4, <1>5, FS_Union
<1>7. Cardinality(UsedByOthers(v, p)) \in Nat /\ Len(v[p].data) \in Nat /\ Cardinality({}) = 0
  BY <1>4, FS_CardinalityType, FS_EmptySet
<1>8. Cardinality(Used(v)) = Cardinality(UsedByOthers(v, p)) + Len(v[p].data) - Cardinality({})
  BY <1>1, <1>2, <1>5, <1>6
<1>9. QED BY <1>4, <1>7, <1>8

LEMMA FreeType ==
  ASSUME NEW v, \A n \in Names : v[n].data \in Seq(Clusters)
  PROVE  FreeClusters(v) \in Int /\ FreeClusters(v) <= CLUSTERS
<1>1. Cardinality(Used(v)) \in Nat
  BY UsedIsFinite, FS_CardinalityType
<1>2. QED BY <1>1, ClustersAssumption DEF FreeClusters, Used

\* A file has no more clusters than the volume, without the free ones.
LEMMA FileFits ==
  ASSUME NEW v, NEW p \in Names, \A n \in Names : v[n].data \in Seq(Clusters)
  PROVE  Len(v[p].data) + FreeClusters(v) <= CLUSTERS
<1>1. /\ IsFiniteSet(UsedByOthers(v, p))
      /\ Cardinality(Used(v)) = Cardinality(UsedByOthers(v, p)) + Len(v[p].data)
  BY UsedSplits
<1>2. Cardinality(UsedByOthers(v, p)) \in Nat
  BY <1>1, FS_CardinalityType
<1>3. FreeClusters(v) = CLUSTERS - Cardinality(Used(v))
  BY DEF FreeClusters, Used
<1>4. Len(v[p].data) \in Nat
  OBVIOUS
<1>5. QED BY <1>1, <1>2, <1>3, <1>4, ClustersAssumption

\* Replacing what a name holds returns its clusters and takes the new ones.
LEMMA FreeAfter ==
  ASSUME NEW v, DOMAIN v = Names, \A n \in Names : v[n].data \in Seq(Clusters),
         NEW p \in Names, NEW e, e.data \in Seq(Clusters)
  PROVE  FreeClusters([v EXCEPT ![p] = e]) = FreeClusters(v) + Len(v[p].data) - Len(e.data)
<1> DEFINE w == [v EXCEPT ![p] = e]
<1>1. w[p] = e /\ \A n \in Names \ {p} : w[n] = v[n]
  OBVIOUS
<1> HIDE DEF w
<1>2. \A n \in Names : w[n].data \in Seq(Clusters)
  BY <1>1
<1>3. UsedByOthers(w, p) = UsedByOthers(v, p)
  <2>1. \A n \in Names \ {p} : UsedBy(w, n) = UsedBy(v, n)
    BY <1>1 DEF UsedBy
  <2>2. QED BY <2>1 DEF UsedByOthers
<1>4. /\ Cardinality(Used(v)) = Cardinality(UsedByOthers(v, p)) + Len(v[p].data)
      /\ IsFiniteSet(UsedByOthers(v, p))
  BY UsedSplits
<1>5. Cardinality(Used(w)) = Cardinality(UsedByOthers(v, p)) + Len(e.data)
  BY <1>1, <1>2, <1>3, UsedSplits
<1>6. /\ FreeClusters(v) = CLUSTERS - Cardinality(Used(v))
      /\ FreeClusters(w) = CLUSTERS - Cardinality(Used(w))
  BY DEF FreeClusters, Used
<1>7. /\ Cardinality(UsedByOthers(v, p)) \in Nat
      /\ Len(v[p].data) \in Nat /\ Len(e.data) \in Nat
  BY <1>4, FS_CardinalityType
<1>8. FreeClusters(w) = FreeClusters(v) + Len(v[p].data) - Len(e.data)
  <2>1. PICK r \in Nat, l \in Nat, m \in Nat :
               r = Cardinality(UsedByOthers(v, p)) /\ l = Len(v[p].data) /\ m = Len(e.data)
    BY <1>7
  <2>2. FreeClusters(v) = CLUSTERS - (r + l)
    BY <2>1, <1>4, <1>6
  <2>3. FreeClusters(w) = CLUSTERS - (r + m)
    BY <2>1, <1>5, <1>6
  <2>4. FreeClusters(w) = FreeClusters(v) + l - m
    BY <2>2, <2>3, ClustersAssumption
  <2>5. QED BY <2>1, <2>4
<1>9. QED BY <1>8 DEF w


Entry == [kind : {"none", "file", "dir"}, data : Seq(Clusters), size : Nat]

GoodVolume(v) ==
  /\ v \in [Names -> Entry]
  /\ \A n \in Names : v[n].size <= Len(v[n].data)
  /\ FreeClusters(v) \in Nat

LEMMA EntryType == ASSUME NEW e \in Entry
                   PROVE e.data \in Seq(Clusters) /\ e.size \in Nat /\ Len(e.data) \in Nat
                         /\ e.kind \in {"none", "file", "dir"}
<1>1. e.data \in Seq(Clusters) /\ e.size \in Nat /\ e.kind \in {"none", "file", "dir"}
  BY DEF Entry
<1>2. QED BY <1>1

LEMMA SetEntry ==
  ASSUME NEW v, GoodVolume(v), NEW p \in Names, NEW e \in Entry,
         e.size <= Len(e.data), Len(e.data) <= Len(v[p].data) + FreeClusters(v)
  PROVE  GoodVolume([v EXCEPT ![p] = e])
<1> DEFINE w == [v EXCEPT ![p] = e]
<1>1. v \in [Names -> Entry] /\ DOMAIN v = Names /\ v[p] \in Entry /\ FreeClusters(v) \in Nat
  BY DEF GoodVolume
<1>2. w \in [Names -> Entry]
  BY <1>1
<1>3. \A n \in Names : v[n].data \in Seq(Clusters)
  BY <1>1, EntryType
<1>4. /\ Len(e.data) \in Nat /\ e.data \in Seq(Clusters)
      /\ Len(v[p].data) \in Nat
  BY <1>1, EntryType
<1>5. FreeClusters(w) = FreeClusters(v) + Len(v[p].data) - Len(e.data)
  BY <1>1, <1>3, <1>4, FreeAfter, ZenonT(30)
<1>6. FreeClusters(w) \in Nat
  <2>1. PICK l \in Nat, m \in Nat, k \in Nat :
               l = Len(v[p].data) /\ m = Len(e.data) /\ k = FreeClusters(v)
    BY <1>1, <1>4
  <2>2. m <= l + k /\ FreeClusters(w) = k + l - m
    BY <2>1, <1>5
  <2>3. QED BY <2>2
<1>7. \A n \in Names : w[n].size <= Len(w[n].data)
  <2>1. \A n \in Names : w[n] = IF n = p THEN e ELSE v[n]
    BY <1>1
  <2>2. QED BY <2>1 DEF GoodVolume
<1>8. QED BY <1>2, <1>6, <1>7 DEF GoodVolume

LEMMA SetData ==
  ASSUME NEW v, v \in [Names -> Entry], NEW p \in Names, NEW d \in Seq(Clusters)
  PROVE  LET e == [v[p] EXCEPT !.data = d]
         IN  /\ [v EXCEPT ![p].data = d] = [v EXCEPT ![p] = e]
             /\ e \in Entry /\ e.data = d /\ e.size = v[p].size /\ e.kind = v[p].kind
<1> DEFINE e == [v[p] EXCEPT !.data = d]
<1>1. [v EXCEPT ![p].data = d] = [v EXCEPT ![p] = e]
  OBVIOUS
<1>2. v[p] \in Entry
  OBVIOUS
<1>3. e \in Entry /\ e.data = d /\ e.size = v[p].size /\ e.kind = v[p].kind
  BY <1>2 DEF Entry
<1>4. QED BY <1>1, <1>3

LEMMA SetSize ==
  ASSUME NEW v, v \in [Names -> Entry], NEW p \in Names, NEW d \in Nat
  PROVE  LET e == [v[p] EXCEPT !.size = d]
         IN  /\ [v EXCEPT ![p].size = d] = [v EXCEPT ![p] = e]
             /\ e \in Entry /\ e.data = v[p].data /\ e.size = d /\ e.kind = v[p].kind
<1> DEFINE e == [v[p] EXCEPT !.size = d]
<1>1. [v EXCEPT ![p].size = d] = [v EXCEPT ![p] = e]
  OBVIOUS
<1>2. v[p] \in Entry
  OBVIOUS
<1>3. e \in Entry /\ e.size = d /\ e.data = v[p].data /\ e.kind = v[p].kind
  BY <1>2 DEF Entry
<1>4. QED BY <1>1, <1>3

LEMMA OverlayType ==
  ASSUME NEW c \in Seq(Clusters), NEW p \in Nat, NEW k \in Nat, NEW s,
         \A j \in 1 .. k : s[j] \in Clusters
  PROVE  LET d == Overlay(c, p, s, k)
         IN  /\ d \in Seq(Clusters)
             /\ Len(d) = Larger(Len(c), p + k)
             /\ \A j \in 1 .. Larger(Len(c), p + k) :
                  d[j] = IF j \in p + 1 .. p + k THEN s[j - p]
                         ELSE IF j <= Len(c) THEN c[j] ELSE Junk
<1> DEFINE d == Overlay(c, p, s, k)
           m == Larger(Len(c), p + k)
           At(j) == IF j \in p + 1 .. p + k THEN s[j - p]
                    ELSE IF j <= Len(c) THEN c[j] ELSE Junk
<1>1. m \in Nat
  BY DEF Larger
<1>2. \A j \in 1 .. m : At(j) \in Clusters
  <2>1. SUFFICES ASSUME NEW j \in 1 .. m PROVE At(j) \in Clusters
    OBVIOUS
  <2>2. CASE j \in p + 1 .. p + k
    <3>1. j - p \in 1 .. k
      BY <2>2
    <3>2. QED BY <2>2, <3>1
  <2>3. CASE j \notin p + 1 .. p + k /\ j <= Len(c)
    <3>1. j \in 1 .. Len(c)
      BY <1>1, <2>3
    <3>2. c[j] \in Clusters
      BY <3>1
    <3>3. QED BY <2>3, <3>2
  <2>4. CASE j \notin p + 1 .. p + k /\ ~(j <= Len(c))
    BY <2>4 DEF Clusters
  <2>5. QED BY <2>2, <2>3, <2>4
<1>3. d = [j \in 1 .. m |-> At(j)]
  BY DEF Overlay
<1> HIDE DEF At, m, d
<1>4. d \in [1 .. m -> Clusters]
  BY <1>2, <1>3
<1>5. d \in Seq(Clusters) /\ Len(d) = m
  BY <1>1, <1>4
<1>6. \A j \in 1 .. m : d[j] = At(j)
  BY <1>3
<1>7. QED BY <1>5, <1>6 DEF At, m, d

LEMMA SizesType == ASSUME NEW m \in Int, NEW n \in Int
  PROVE /\ Larger(m, n) \in Int /\ m <= Larger(m, n) /\ n <= Larger(m, n)
        /\ Larger(m, n) = m \/ Larger(m, n) = n
        /\ Smaller(m, n) \in Int /\ Smaller(m, n) <= m /\ Smaller(m, n) <= n
        /\ Smaller(m, n) = m \/ Smaller(m, n) = n
  BY DEF Larger, Smaller


Fil == [name : Names, can : SUBSET {"READ", "WRITE"}, fptr : Nat, objsize : Nat,
        dirty : BOOLEAN, err : BOOLEAN]

\* Only the position of an aborted FIL may lie behind its end.
GoodFil(v, f) ==
  /\ f \in Fil
  /\ f.fptr <= CLUSTERS /\ (~f.err => f.fptr <= f.objsize)
  /\ f.objsize <= Len(v[f.name].data)
  /\ v[f.name].kind = "file"

Grows(v, w) == \A n \in Names : w[n].kind = v[n].kind /\ Len(v[n].data) <= Len(w[n].data)

LEMMA FilType ==
  ASSUME NEW f \in Fil
  PROVE  /\ f.name \in Names /\ f.can \subseteq {"READ", "WRITE"}
         /\ f.fptr \in Nat /\ f.objsize \in Nat /\ f.dirty \in BOOLEAN /\ f.err \in BOOLEAN
  BY DEF Fil

LEMMA FilAt ==
  ASSUME NEW f \in Fil, NEW p \in Nat
  PROVE  LET g == [f EXCEPT !.fptr = p]
         IN  /\ g \in Fil /\ g.fptr = p /\ g.name = f.name /\ g.can = f.can
             /\ g.objsize = f.objsize /\ g.dirty = f.dirty /\ g.err = f.err
  BY DEF Fil

\* g is f with position p, length q and mark d.
FilBecomes(f, p, q, d, g) ==
  /\ g \in Fil /\ g.fptr = p /\ g.name = f.name /\ g.can = f.can
  /\ g.objsize = q /\ g.dirty = d /\ g.err = f.err

LEMMA FilGrown ==
  ASSUME NEW f \in Fil, NEW p \in Nat, NEW q \in Nat, NEW d \in BOOLEAN
  PROVE  FilBecomes(f, p, q, d, [f EXCEPT !.fptr = p, !.objsize = q, !.dirty = d])
  BY DEF Fil, FilBecomes

LEMMA FilAborted ==
  ASSUME NEW f \in Fil
  PROVE  LET g == Aborted(f)
         IN  /\ g \in Fil /\ g.fptr = f.fptr /\ g.name = f.name /\ g.can = f.can
             /\ g.objsize = f.objsize /\ g.dirty = f.dirty /\ g.err = TRUE
  BY DEF Fil, Aborted

LEMMA AbortedIsGood ==
  ASSUME NEW v, NEW f, GoodFil(v, f)
  PROVE  GoodFil(v, Aborted(f)) /\ Aborted(f).name = f.name
  BY FilAborted DEF GoodFil

LEMMA MovedIsGood ==
  ASSUME NEW v, NEW f, GoodFil(v, f), NEW p \in 0 .. CLUSTERS
  PROVE  LET g == Aborted([f EXCEPT !.fptr = p])
         IN  /\ GoodFil(v, g) /\ g \in Fil /\ g.fptr = p /\ g.name = f.name /\ g.can = f.can
             /\ g.objsize = f.objsize /\ g.dirty = f.dirty /\ g.err
<1> DEFINE h == [f EXCEPT !.fptr = p]
           g == Aborted(h)
<1>1. f \in Fil /\ p \in Nat /\ p <= CLUSTERS
  BY ClustersAssumption DEF GoodFil
<1>2. /\ h \in Fil /\ h.fptr = p /\ h.name = f.name /\ h.can = f.can
      /\ h.objsize = f.objsize /\ h.dirty = f.dirty
  BY <1>1, FilAt
<1> HIDE DEF h
<1>3. /\ g \in Fil /\ g.fptr = p /\ g.name = f.name /\ g.can = f.can
      /\ g.objsize = f.objsize /\ g.dirty = f.dirty /\ g.err
  BY <1>2, FilAborted
<1> HIDE DEF g
<1>4. GoodFil(v, g)
  BY <1>1, <1>3 DEF GoodFil
<1>. QED BY <1>3, <1>4 DEF g, h

LEMMA GoodFilGrows ==
  ASSUME NEW v, NEW w, NEW f, GoodVolume(v), GoodVolume(w), GoodFil(v, f), Grows(v, w)
  PROVE  GoodFil(w, f)
<1>1. f.name \in Names /\ f.objsize \in Nat
  BY FilType DEF GoodFil
<1>2. Len(v[f.name].data) \in Nat /\ Len(w[f.name].data) \in Nat
  BY <1>1, EntryType DEF GoodVolume
<1>3. Len(v[f.name].data) <= Len(w[f.name].data) /\ w[f.name].kind = v[f.name].kind
  BY <1>1 DEF Grows
<1>4. f.objsize <= Len(w[f.name].data)
  BY <1>1, <1>2, <1>3 DEF GoodFil
<1>5. QED BY <1>3, <1>4 DEF GoodFil

LEMMA GrowsSelf == ASSUME NEW v, GoodVolume(v) PROVE Grows(v, v)
  BY EntryType DEF GoodVolume, Grows

\* What a call on an open file may leave behind.
Sane(v, f, o) ==
  /\ GoodVolume(o.vol) /\ Grows(v, o.vol)
  /\ GoodFil(o.vol, o.fil) /\ o.fil.name = f.name
  /\ o.n \in 0 .. CLUSTERS
  /\ o.fr \in {"OK", "DENIED", "DISK_ERR"}
  /\ o.fr = "DENIED" => o.vol = v /\ o.fil = f

LEMMA OutcomeFields ==
  ASSUME NEW fr, NEW v, NEW f, NEW n
  PROVE  LET o == Outcome(fr, v, f, n) IN o.fr = fr /\ o.vol = v /\ o.fil = f /\ o.n = n
  BY DEF Outcome

LEMMA HardErrors ==
  ASSUME NEW v, NEW f, NEW o \in HardError(v, f)
  PROVE  o = Outcome("DISK_ERR", v, f, 0)
  BY DEF HardError

LEMMA UnchangedIsSane ==
  ASSUME NEW v, NEW f, GoodVolume(v), GoodFil(v, f), NEW fr \in {"OK", "DENIED", "DISK_ERR"}
  PROVE  Sane(v, f, Outcome(fr, v, f, 0))
  BY GrowsSelf, OutcomeFields, ClustersAssumption DEF Sane

LEMMA AbortedIsSane ==
  ASSUME NEW v, NEW f, GoodVolume(v), GoodFil(v, f)
  PROVE  Sane(v, f, Outcome("DISK_ERR", v, Aborted(f), 0))
  BY GrowsSelf, OutcomeFields, AbortedIsGood, ClustersAssumption DEF Sane

\* A file has at most the volume's clusters.
LEMMA FilFits ==
  ASSUME NEW v, NEW f, GoodVolume(v), GoodFil(v, f)
  PROVE  /\ Len(v[f.name].data) \in Nat /\ FreeClusters(v) \in Nat
         /\ Len(v[f.name].data) + FreeClusters(v) <= CLUSTERS
         /\ f.fptr \in Nat /\ f.objsize \in Nat /\ f.name \in Names
         /\ f.fptr <= CLUSTERS /\ f.objsize <= CLUSTERS
<1>1. f.fptr \in Nat /\ f.objsize \in Nat /\ f.name \in Names /\ f.fptr <= CLUSTERS
  BY FilType DEF GoodFil
<1>2. \A n \in Names : v[n].data \in Seq(Clusters)
  BY EntryType DEF GoodVolume
<1>3. Len(v[f.name].data) \in Nat
  BY <1>1, <1>2
<1>4. /\ FreeClusters(v) \in Nat
      /\ Len(v[f.name].data) + FreeClusters(v) <= CLUSTERS
  BY <1>1, <1>2, <1>3, FileFits DEF GoodVolume
<1>5. f.objsize <= CLUSTERS
  BY <1>1, <1>3, <1>4, ClustersAssumption DEF GoodFil
<1>6. QED BY <1>1, <1>3, <1>4, <1>5

LEMMA ReadOutcomes ==
  ASSUME NEW v, NEW f, NEW count, NEW o \in f_read(v, f, count)
  PROVE  \/ o = Outcome("DISK_ERR", v, f, 0) /\ f.err
         \/ o = Outcome("DENIED", v, f, 0) /\ "READ" \notin f.can /\ ~f.err
         \/ /\ ~f.err
            /\ \E k \in 0 .. Smaller(count, f.objsize - f.fptr) :
                 o = Outcome("DISK_ERR", v, Aborted([f EXCEPT !.fptr = @ + k]), 0)
         \/ /\ "READ" \in f.can /\ ~f.err
            /\ o = Outcome("OK", v, [f EXCEPT !.fptr = @ + Smaller(count, f.objsize - f.fptr)],
                           Smaller(count, f.objsize - f.fptr))
<1> DEFINE n == Smaller(count, f.objsize - f.fptr)
           H(k) == HardError(v, Aborted([f EXCEPT !.fptr = @ + k]))
<1>1. f_read(v, f, count) =
        IF f.err THEN {Outcome("DISK_ERR", v, f, 0)}
        ELSE IF "READ" \notin f.can THEN {Outcome("DENIED", v, f, 0)}
        ELSE {Outcome("OK", v, [f EXCEPT !.fptr = @ + n], n)} \cup UNION {H(k) : k \in 0 .. n}
  BY DEF f_read
<1>2. ASSUME o \in UNION {H(k) : k \in 0 .. n}
      PROVE  \E k \in 0 .. n : o = Outcome("DISK_ERR", v, Aborted([f EXCEPT !.fptr = @ + k]), 0)
  <2>1. PICK k \in 0 .. n : o \in H(k)
    BY <1>2
  <2>2. QED BY <2>1, HardErrors
<1> HIDE DEF H, n
<1>3. CASE f.err
  BY <1>1, <1>3
<1>4. CASE ~f.err /\ "READ" \notin f.can
  BY <1>1, <1>4
<1>5. CASE ~f.err /\ "READ" \in f.can
  <2>1. o = Outcome("OK", v, [f EXCEPT !.fptr = @ + n], n) \/ o \in UNION {H(k) : k \in 0 .. n}
    BY <1>1, <1>5
  <2>2. QED BY <1>2, <1>5, <2>1 DEF n
<1>6. QED BY <1>3, <1>4, <1>5

\* What a call leaves that has aborted the FIL, with its position anywhere.
LEMMA MovedIsSane ==
  ASSUME NEW v, NEW w, NEW f, GoodVolume(w), Grows(v, w), GoodFil(w, f), NEW p \in 0 .. CLUSTERS
  PROVE  Sane(v, f, Outcome("DISK_ERR", w, Aborted([f EXCEPT !.fptr = p]), 0))
<1> DEFINE g == Aborted([f EXCEPT !.fptr = p])
<1>1. GoodFil(w, g) /\ g.name = f.name
  BY MovedIsGood
<1> HIDE DEF g
<1>2. Sane(v, f, Outcome("DISK_ERR", w, g, 0))
  BY <1>1, OutcomeFields, ClustersAssumption DEF Sane
<1>. QED BY <1>2 DEF g

LEMMA ReadIsSane ==
  ASSUME NEW v, NEW f, GoodVolume(v), GoodFil(v, f), NEW count \in Nat, NEW o \in f_read(v, f, count)
  PROVE  Sane(v, f, o) /\ o.vol = v /\ (o.fr = "OK" => f.fptr + o.n <= f.objsize) /\ (o.fr # "OK" => o.n = 0)
<1>0. /\ f.fptr \in Nat /\ f.objsize \in Nat /\ f \in Fil /\ (~f.err => f.fptr <= f.objsize)
      /\ f.objsize <= CLUSTERS /\ f.objsize <= Len(v[f.name].data)
  BY FilFits, ClustersAssumption DEF GoodFil
<1> DEFINE n == Smaller(count, f.objsize - f.fptr)
<1>1. CASE o = Outcome("DISK_ERR", v, f, 0) \/ o = Outcome("DENIED", v, f, 0)
  BY <1>0, <1>1, UnchangedIsSane, OutcomeFields
<1>2. ASSUME ~f.err PROVE n \in Nat /\ f.fptr + n <= f.objsize
  BY <1>0, <1>2 DEF Smaller
<1> HIDE DEF n
<1>3. CASE ~f.err /\ \E k \in 0 .. n : o = Outcome("DISK_ERR", v, Aborted([f EXCEPT !.fptr = @ + k]), 0)
  <2>1. PICK k \in 0 .. n : o = Outcome("DISK_ERR", v, Aborted([f EXCEPT !.fptr = f.fptr + k]), 0)
    BY <1>3
  <2>2. f.fptr + k \in 0 .. CLUSTERS
    BY <1>0, <1>2, <1>3, ClustersAssumption
  <2>3. Sane(v, f, o)
    BY <2>1, <2>2, MovedIsSane, GrowsSelf
  <2>4. QED BY <2>1, <2>3, OutcomeFields
<1>4. CASE ~f.err /\ o = Outcome("OK", v, [f EXCEPT !.fptr = @ + n], n)
  <2> DEFINE g == [f EXCEPT !.fptr = f.fptr + n]
  <2>1. o = Outcome("OK", v, g, n)
    BY <1>4
  <2>2. n \in Nat /\ f.fptr + n <= f.objsize
    BY <1>2, <1>4
  <2>3. /\ g \in Fil /\ g.fptr = f.fptr + n /\ g.name = f.name /\ g.objsize = f.objsize
        /\ g.err = f.err
    BY <1>0, <2>2, FilAt
  <2> HIDE DEF g
  <2>4. GoodFil(v, g)
    BY <1>0, <2>2, <2>3, ClustersAssumption DEF GoodFil
  <2>5. n \in 0 .. CLUSTERS
    BY <1>0, <2>2, ClustersAssumption
  <2>6. o.fr = "OK" /\ o.vol = v /\ o.fil = g /\ o.n = n
    BY <2>1, OutcomeFields
  <2>8. QED BY <2>2, <2>3, <2>4, <2>6, <2>5, GrowsSelf DEF Sane
<1>5. QED BY <1>1, <1>3, <1>4, ReadOutcomes DEF n


\* f and v, and what they become when the file's contents become d and its
\* position p.
Grown(v, f, d, p, b, w, g) ==
  /\ GoodVolume(w) /\ Grows(v, w) /\ GoodFil(w, g)
  /\ \A n \in Names \ {f.name} : w[n] = v[n]
  /\ w[f.name].data = d /\ w[f.name].size = v[f.name].size
  /\ w[f.name].kind = v[f.name].kind
  /\ g.name = f.name /\ g.fptr = p /\ g.objsize = Larger(f.objsize, p)
  /\ g.can = f.can /\ g.dirty = b /\ g.err = f.err

\* An open file made p clusters long, if it is shorter, with the position there.
GrowVol(v, f, d) == [v EXCEPT ![f.name].data = d]
GrowFil(f, p, b) == [f EXCEPT !.fptr = p, !.objsize = Larger(f.objsize, p), !.dirty = b]

CanGrow(v, f, d, p) ==
  /\ GoodVolume(v) /\ GoodFil(v, f)
  /\ p \in Nat /\ p <= Len(v[f.name].data) + FreeClusters(v)
  /\ d \in Seq(Clusters) /\ Len(d) = Larger(Len(v[f.name].data), p)

LEMMA GrownIsGood ==
  ASSUME NEW v, NEW f, NEW p, NEW d, CanGrow(v, f, d, p), NEW b \in BOOLEAN
  PROVE  Grown(v, f, d, p, b, GrowVol(v, f, d), GrowFil(f, p, b))
<1> DEFINE w == [v EXCEPT ![f.name].data = d]
           g == [f EXCEPT !.fptr = p, !.objsize = Larger(f.objsize, p), !.dirty = b]
           e == [v[f.name] EXCEPT !.data = d]
           l == Len(v[f.name].data)
<1>0. /\ GoodVolume(v) /\ GoodFil(v, f)
      /\ p \in Nat /\ p <= l + FreeClusters(v)
      /\ d \in Seq(Clusters) /\ Len(d) = Larger(l, p)
  BY Zenon DEF CanGrow
<1>1. /\ l \in Nat /\ FreeClusters(v) \in Nat /\ l + FreeClusters(v) <= CLUSTERS
      /\ f.fptr \in Nat /\ f.objsize \in Nat /\ f.name \in Names
  BY <1>0, FilFits
<1>2. /\ f \in Fil /\ f.objsize <= l /\ v[f.name].kind = "file"
      /\ v \in [Names -> Entry] /\ \A n \in Names : v[n].size <= Len(v[n].data)
      /\ DOMAIN v = Names
  BY <1>0 DEF GoodFil, GoodVolume
<1>3. /\ w = [v EXCEPT ![f.name] = e]
      /\ e \in Entry /\ e.data = d /\ e.size = v[f.name].size /\ e.kind = v[f.name].kind
  <2>1. v \in [Names -> Entry] /\ f.name \in Names /\ d \in Seq(Clusters)
    BY <1>0, <1>1, <1>2
  <2> HIDE DEF l, g
  <2>2. QED BY <2>1, SetData
<1> HIDE DEF w, e, g
<1>4. /\ Larger(l, p) \in Nat /\ l <= Larger(l, p) /\ p <= Larger(l, p)
      /\ Larger(l, p) <= l + FreeClusters(v)
  BY <1>0, <1>1 DEF Larger
<1>5. Larger(f.objsize, p) \in Nat /\ p <= Larger(f.objsize, p) /\ Larger(f.objsize, p) <= Larger(l, p)
  BY <1>0, <1>1, <1>2, <1>4 DEF Larger
<1>6. e.size <= Len(e.data)
  <2>1. v[f.name].size \in Nat /\ v[f.name].size <= l
    BY <1>0, <1>1, <1>2, EntryType
  <2>2. Len(e.data) = Larger(l, p)
    BY <1>0, <1>3
  <2>3. QED BY <2>1, <2>2, <1>1, <1>3, <1>4
<1>7. Len(e.data) <= l + FreeClusters(v)
  BY <1>0, <1>3, <1>4
<1>8. GoodVolume(w)
  BY <1>0, <1>1, <1>3, <1>6, <1>7, SetEntry
<1>9. \A n \in Names : w[n] = IF n = f.name THEN e ELSE v[n]
  BY <1>0, <1>2, <1>3
<1>10. Grows(v, w)
  <2>1. ASSUME NEW n \in Names PROVE w[n].kind = v[n].kind /\ Len(v[n].data) <= Len(w[n].data)
    <3>1. CASE n = f.name
      BY <1>0, <1>3, <1>4, <1>9, <3>1
    <3>2. CASE n # f.name
      BY <1>0, <1>2, <1>9, <3>2, EntryType
    <3>3. QED BY <3>1, <3>2
  <2>2. QED BY <2>1 DEF Grows
<1>11. /\ g \in Fil /\ g.fptr = p /\ g.name = f.name /\ g.can = f.can
       /\ g.objsize = Larger(f.objsize, p) /\ g.dirty = b /\ g.err = f.err
  <2> DEFINE q == Larger(f.objsize, p)
  <2>1. q \in Nat
    BY <1>0, <1>5
  <2>2. g = [f EXCEPT !.fptr = p, !.objsize = q, !.dirty = b]
    BY DEF g
  <2> HIDE DEF q
  <2>3. FilBecomes(f, p, q, b, [f EXCEPT !.fptr = p, !.objsize = q, !.dirty = b])
    BY <1>0, <1>2, <2>1, FilGrown, Zenon
  <2>4. /\ g \in Fil /\ g.fptr = p /\ g.name = f.name /\ g.can = f.can
        /\ g.objsize = q /\ g.dirty = b /\ g.err = f.err
    BY <2>2, <2>3, Zenon DEF FilBecomes
  <2>5. QED BY <2>4 DEF q
<1>12. GoodFil(w, g)
  <2>1. w[f.name].kind = "file" /\ Len(w[f.name].data) = Larger(l, p)
    BY <1>0, <1>1, <1>2, <1>3, <1>9
  <2>2. p <= CLUSTERS
    BY <1>0, <1>1, ClustersAssumption
  <2>3. QED BY <1>0, <1>1, <1>4, <1>5, <1>11, <2>1, <2>2 DEF GoodFil
<1>13. w[f.name] = e
  BY <1>0, <1>1, <1>9
<1>14. \A n \in Names \ {f.name} : w[n] = v[n]
  BY <1>9
<1>15. QED BY <1>0, <1>3, <1>8, <1>10, <1>11, <1>12, <1>13, <1>14 DEF w, g, Grown, GrowVol, GrowFil

WrittenVol(v, f, s, k) == [v EXCEPT ![f.name].data = Overlay(v[f.name].data, f.fptr, s, k)]
WrittenFil(f, k, b) ==
  [f EXCEPT !.fptr = f.fptr + k, !.objsize = Larger(f.objsize, f.fptr + k), !.dirty = b]
Room(v, f) == Len(v[f.name].data) + FreeClusters(v) - f.fptr

\* What a write can transfer.
LEMMA RoomType ==
  ASSUME NEW v, NEW f, GoodVolume(v), GoodFil(v, f), ~f.err, NEW s \in Seq(Clusters)
  PROVE  LET n == Smaller(Len(s), Room(v, f))
         IN  n \in 0 .. CLUSTERS /\ n <= Len(s) /\ n <= Room(v, f) /\ Room(v, f) \in Nat
<1>1. PICK a \in Nat, b \in Nat, c \in Nat, e \in Nat, l \in Nat :
             /\ a = Len(v[f.name].data) /\ b = FreeClusters(v) /\ c = f.objsize /\ e = f.fptr
             /\ l = Len(s)
  <2>1. Len(s) \in Nat
    OBVIOUS
  <2>2. QED BY <2>1, FilFits
<1>2. c <= a /\ e <= c /\ a + b <= CLUSTERS
  BY <1>1, FilFits DEF GoodFil
<1>3. Room(v, f) = a + b - e
  BY <1>1 DEF Room
<1>4. a + b - e \in 0 .. CLUSTERS
  BY <1>2, ClustersAssumption
<1>5. /\ Smaller(l, a + b - e) \in 0 .. CLUSTERS /\ Smaller(l, a + b - e) <= l
      /\ Smaller(l, a + b - e) <= a + b - e /\ a + b - e \in Nat
  BY <1>4, ClustersAssumption DEF Smaller
<1>6. QED BY <1>1, <1>3, <1>5

\* A write that the disk ends leaves the modified flag as it was.
LEMMA WriteOutcomes ==
  ASSUME NEW v, NEW f, GoodVolume(v), GoodFil(v, f), NEW s \in Seq(Clusters), NEW o \in f_write(v, f, s)
  PROVE  LET n == Smaller(Len(s), Room(v, f))
         IN  \/ o = Outcome("DISK_ERR", v, f, 0) /\ f.err
             \/ o = Outcome("DENIED", v, f, 0) /\ "WRITE" \notin f.can /\ ~f.err
             \/ /\ "WRITE" \in f.can /\ ~f.err
                /\ o = Outcome("OK", WrittenVol(v, f, s, n), WrittenFil(f, n, TRUE), n)
             \/ /\ "WRITE" \in f.can /\ ~f.err
                /\ \E k \in 0 .. n :
                     o = Outcome("DISK_ERR", WrittenVol(v, f, s, k), Aborted(WrittenFil(f, k, f.dirty)), 0)
<1> DEFINE n == Smaller(Len(s), Room(v, f))
           To(k) == [f EXCEPT !.fptr = f.fptr + k, !.objsize = Larger(f.objsize, f.fptr + k)]
           H(k) == HardError(WrittenVol(v, f, s, k), Aborted(To(k)))
<1>0. f \in Fil /\ f.fptr \in Nat /\ f.objsize \in Nat /\ f.dirty \in BOOLEAN
  BY FilType DEF GoodFil
<1>1. f_write(v, f, s) =
        IF f.err THEN {Outcome("DISK_ERR", v, f, 0)}
        ELSE IF "WRITE" \notin f.can THEN {Outcome("DENIED", v, f, 0)}
        ELSE {Outcome("OK", WrittenVol(v, f, s, n), [To(n) EXCEPT !.dirty = TRUE], n)} \cup
             UNION {H(k) : k \in 0 .. n}
  BY DEF f_write, WrittenVol, Room
<1>2. ASSUME NEW k \in Nat
      PROVE  [To(k) EXCEPT !.dirty = TRUE] = WrittenFil(f, k, TRUE) /\ To(k) = WrittenFil(f, k, f.dirty)
  <2> DEFINE a == f.fptr + k
             q == Larger(f.objsize, f.fptr + k)
  <2>1. a \in Nat /\ q \in Nat
    BY <1>0 DEF Larger
  <2> HIDE DEF a, q
  <2>2. [[f EXCEPT !.fptr = a, !.objsize = q] EXCEPT !.dirty = TRUE]
          = [f EXCEPT !.fptr = a, !.objsize = q, !.dirty = TRUE]
    BY <1>0, <2>1 DEF Fil
  <2>3. [f EXCEPT !.fptr = a, !.objsize = q] = [f EXCEPT !.fptr = a, !.objsize = q, !.dirty = f.dirty]
    BY <1>0, <2>1 DEF Fil
  <2>. QED BY <2>2, <2>3 DEF WrittenFil, a, q
<1> HIDE DEF To
<1>3. ~f.err => n \in Nat
  BY RoomType
<1>4. ASSUME ~f.err, o \in UNION {H(k) : k \in 0 .. n}
      PROVE  \E k \in 0 .. n :
               o = Outcome("DISK_ERR", WrittenVol(v, f, s, k), Aborted(WrittenFil(f, k, f.dirty)), 0)
  <2> HIDE DEF n
  <2>1. PICK k \in 0 .. n : o \in H(k)
    BY <1>4
  <2>2. o = Outcome("DISK_ERR", WrittenVol(v, f, s, k), Aborted(To(k)), 0)
    BY <2>1, HardErrors
  <2>3. To(k) = WrittenFil(f, k, f.dirty)
    <3>1. k \in Nat
      BY <1>3, <1>4
    <3>. QED BY <1>2, <3>1
  <2>4. o = Outcome("DISK_ERR", WrittenVol(v, f, s, k), Aborted(WrittenFil(f, k, f.dirty)), 0)
    BY <2>2, <2>3, Zenon
  <2>5. QED BY <2>4
<1> HIDE DEF H, n
<1>5. CASE f.err
  BY <1>1, <1>5
<1>6. CASE ~f.err /\ "WRITE" \notin f.can
  BY <1>1, <1>6
<1>7. CASE ~f.err /\ "WRITE" \in f.can
  <2>1. \/ o = Outcome("OK", WrittenVol(v, f, s, n), [To(n) EXCEPT !.dirty = TRUE], n)
        \/ o \in UNION {H(k) : k \in 0 .. n}
    BY <1>1, <1>7
  <2>2. n \in Nat
    BY <1>3, <1>7
  <2>3. [To(n) EXCEPT !.dirty = TRUE] = WrittenFil(f, n, TRUE)
    BY <1>2, <2>2
  <2>4. QED BY <1>4, <1>7, <2>1, <2>3 DEF n
<1>8. QED BY <1>5, <1>6, <1>7

LEMMA WrittenIsGood ==
  ASSUME NEW v, NEW f, GoodVolume(v), GoodFil(v, f), NEW s \in Seq(Clusters),
         NEW k \in Nat, k <= Len(s), k <= Room(v, f), NEW b \in BOOLEAN
  PROVE  Grown(v, f, Overlay(v[f.name].data, f.fptr, s, k), f.fptr + k, b,
               WrittenVol(v, f, s, k), WrittenFil(f, k, b))
<1> DEFINE d == Overlay(v[f.name].data, f.fptr, s, k)
           l == Len(v[f.name].data)
           p == f.fptr + k
<1>1. /\ l \in Nat /\ FreeClusters(v) \in Nat
      /\ f.fptr \in Nat /\ f.objsize \in Nat /\ f.name \in Names
  BY FilFits
<1>2. f.fptr + k \in Nat /\ f.fptr + k <= l + FreeClusters(v)
  <2>1. PICK a \in Nat, e \in Nat, c \in Nat : a = l /\ e = FreeClusters(v) /\ c = f.fptr
    BY <1>1
  <2>2. k <= a + e - c
    BY <2>1 DEF Room
  <2>3. c + k \in Nat /\ c + k <= a + e
    BY <2>2
  <2>4. QED BY <2>1, <2>3
<1>3. v[f.name].data \in Seq(Clusters)
  BY <1>1, EntryType DEF GoodVolume
<1>4. \A j \in 1 .. k : s[j] \in Clusters
  <2>1. Len(s) \in Nat
    OBVIOUS
  <2>2. \A j \in 1 .. k : j \in 1 .. Len(s)
    BY <2>1
  <2>3. QED BY <2>2
<1>5. d \in Seq(Clusters) /\ Len(d) = Larger(l, f.fptr + k)
  <2>1. PICK c \in Seq(Clusters), a \in Nat : c = v[f.name].data /\ a = f.fptr
    BY <1>1, <1>3
  <2>2. Overlay(c, a, s, k) \in Seq(Clusters) /\ Len(Overlay(c, a, s, k)) = Larger(Len(c), a + k)
    BY <1>4, OverlayType
  <2>3. QED BY <2>1, <2>2
<1>7. WrittenVol(v, f, s, k) = GrowVol(v, f, d) /\ WrittenFil(f, k, b) = GrowFil(f, p, b)
  BY DEF WrittenVol, WrittenFil, GrowVol, GrowFil
<1>8. CanGrow(v, f, d, p)
  BY <1>2, <1>5 DEF CanGrow
<1> HIDE DEF d, p
<1>9. Grown(v, f, d, p, b, WrittenVol(v, f, s, k), WrittenFil(f, k, b))
  BY <1>7, <1>8, GrownIsGood
<1>10. QED BY <1>9 DEF d, p


SeekTo(v, f, ofs) ==
  IF "WRITE" \in f.can THEN Smaller(ofs, Len(v[f.name].data) + FreeClusters(v))
                       ELSE Smaller(ofs, f.objsize)
SoughtVol(v, f, at) == [v EXCEPT ![f.name].data = Overlay(v[f.name].data, at, <<>>, 0)]
SoughtFil(f, at) ==
  [f EXCEPT !.fptr = at, !.objsize = Larger(f.objsize, at), !.dirty = f.dirty \/ at > f.objsize]

\* A seek that the disk ends has not yet moved the end, unless it was done.
SeekBreaks(v, f, at, o) ==
  \/ o = Outcome("DISK_ERR", SoughtVol(v, f, at), Aborted(SoughtFil(f, at)), 0)
  \/ \E k \in 0 .. at : o = Outcome("DISK_ERR", SoughtVol(v, f, k), Aborted([f EXCEPT !.fptr = k]), 0)

LEMMA SeekOutcomes ==
  ASSUME NEW v, NEW f, NEW ofs, NEW o \in f_lseek(v, f, ofs)
  PROVE  \/ f.err /\ o = Outcome("DISK_ERR", v, f, 0)
         \/ ~f.err /\ SeekBreaks(v, f, SeekTo(v, f, ofs), o)
         \/ /\ ~f.err
            /\ o = Outcome("OK", SoughtVol(v, f, SeekTo(v, f, ofs)), SoughtFil(f, SeekTo(v, f, ofs)), 0)
<1> DEFINE at == SeekTo(v, f, ofs)
           H(k) == HardError(SoughtVol(v, f, k), Aborted([f EXCEPT !.fptr = k]))
<1>1. f_lseek(v, f, ofs) =
        IF f.err THEN {Outcome("DISK_ERR", v, f, 0)}
        ELSE {Outcome("OK", SoughtVol(v, f, at), SoughtFil(f, at), 0)} \cup
             HardError(SoughtVol(v, f, at), Aborted(SoughtFil(f, at))) \cup
             UNION {H(k) : k \in 0 .. at}
  BY Zenon DEF f_lseek, SoughtVol, SoughtFil, SeekTo
<1> HIDE DEF at
<1>2. CASE f.err
  BY <1>1, <1>2
<1>3. CASE ~f.err
  <2>1. CASE o = Outcome("OK", SoughtVol(v, f, at), SoughtFil(f, at), 0)
    BY <1>3, <2>1 DEF at
  <2>2. CASE o \in HardError(SoughtVol(v, f, at), Aborted(SoughtFil(f, at)))
    BY <1>3, <2>2, HardErrors DEF at, SeekBreaks
  <2>3. CASE o \in UNION {H(k) : k \in 0 .. at}
    <3>1. PICK k \in 0 .. at : o \in H(k)
      BY <2>3
    <3>2. o = Outcome("DISK_ERR", SoughtVol(v, f, k), Aborted([f EXCEPT !.fptr = k]), 0)
      BY <3>1, HardErrors
    <3>. QED BY <1>3, <3>2 DEF at, SeekBreaks
  <2> HIDE DEF H
  <2>4. QED BY <1>1, <1>3, <2>1, <2>2, <2>3
<1>4. QED BY <1>2, <1>3

LEMMA SeekToType ==
  ASSUME NEW v, NEW f, GoodVolume(v), GoodFil(v, f), NEW ofs \in Nat
  PROVE  /\ SeekTo(v, f, ofs) \in Nat
         /\ SeekTo(v, f, ofs) <= Len(v[f.name].data) + FreeClusters(v)
         /\ "WRITE" \notin f.can => SeekTo(v, f, ofs) <= f.objsize
         /\ SeekTo(v, f, ofs) <= ofs
<1>1. PICK a \in Nat, b \in Nat, c \in Nat :
             a = Len(v[f.name].data) /\ b = FreeClusters(v) /\ c = f.objsize
  BY FilFits
<1>2. c <= a
  BY <1>1 DEF GoodFil
<1>3. SeekTo(v, f, ofs) = IF "WRITE" \in f.can THEN Smaller(ofs, a + b) ELSE Smaller(ofs, c)
  BY <1>1 DEF SeekTo
<1>4. CASE "WRITE" \in f.can
  <2>1. Smaller(ofs, a + b) \in Nat /\ Smaller(ofs, a + b) <= a + b /\ Smaller(ofs, a + b) <= ofs
    BY DEF Smaller
  <2>2. QED BY <1>1, <1>3, <1>4, <2>1
<1>5. CASE "WRITE" \notin f.can
  <2>1. /\ Smaller(ofs, c) \in Nat /\ Smaller(ofs, c) <= c /\ Smaller(ofs, c) <= a + b
        /\ Smaller(ofs, c) <= ofs
    BY <1>2 DEF Smaller
  <2>2. QED BY <1>1, <1>3, <1>5, <2>1
<1>6. QED BY <1>4, <1>5

LEMMA SoughtIsGood ==
  ASSUME NEW v, NEW f, GoodVolume(v), GoodFil(v, f), NEW p \in Nat,
         p <= Len(v[f.name].data) + FreeClusters(v)
  PROVE  /\ Grown(v, f, Overlay(v[f.name].data, p, <<>>, 0), p, f.dirty \/ p > f.objsize,
                  SoughtVol(v, f, p), SoughtFil(f, p))
         /\ Overlay(v[f.name].data, p, <<>>, 0) \in Seq(Clusters)
<1> DEFINE d == Overlay(v[f.name].data, p, <<>>, 0)
           l == Len(v[f.name].data)
           b == f.dirty \/ p > f.objsize
<1>1. v[f.name].data \in Seq(Clusters) /\ l \in Nat
  BY FilFits, EntryType DEF GoodVolume
<1>2. 0 \in Nat /\ p + 0 = p /\ \A j \in 1 .. 0 : <<>>[j] \in Clusters
  OBVIOUS
<1>3. d \in Seq(Clusters) /\ Len(d) = Larger(l, p + 0)
  BY <1>1, <1>2, OverlayType
<1>4. d \in Seq(Clusters) /\ Len(d) = Larger(l, p)
  BY <1>2, <1>3
<1>5. b \in BOOLEAN
  BY Zenon
<1>6. SoughtVol(v, f, p) = GrowVol(v, f, d) /\ SoughtFil(f, p) = GrowFil(f, p, b)
  BY Zenon DEF SoughtVol, SoughtFil, GrowVol, GrowFil
<1>7. CanGrow(v, f, d, p)
  BY <1>4 DEF CanGrow
<1> HIDE DEF d, b
<1>8. Grown(v, f, d, p, b, SoughtVol(v, f, p), SoughtFil(f, p))
  BY <1>5, <1>6, <1>7, GrownIsGood
<1>9. QED BY <1>4, <1>8 DEF d, b

LEMMA GrownIsSane ==
  ASSUME NEW v, NEW f, NEW d, NEW p, NEW b, NEW w, NEW g, Grown(v, f, d, p, b, w, g),
         NEW n \in 0 .. CLUSTERS
  PROVE  /\ Sane(v, f, Outcome("OK", w, g, n))
         /\ Sane(v, f, Outcome("DISK_ERR", w, Aborted(g), 0))
<1>1. GoodVolume(w) /\ Grows(v, w) /\ GoodFil(w, g) /\ g.name = f.name
  BY DEF Grown
<1>2. GoodFil(w, Aborted(g)) /\ Aborted(g).name = f.name
  BY <1>1, AbortedIsGood
<1>3. 0 \in 0 .. CLUSTERS
  BY ClustersAssumption
<1>4. Sane(v, f, Outcome("OK", w, g, n))
  BY <1>1, OutcomeFields DEF Sane
<1>5. Sane(v, f, Outcome("DISK_ERR", w, Aborted(g), 0))
  BY <1>1, <1>2, <1>3, OutcomeFields DEF Sane
<1>6. QED BY <1>4, <1>5

LEMMA BrokenSeekIsSane ==
  ASSUME NEW v, NEW f, GoodVolume(v), GoodFil(v, f), NEW at \in Nat,
         at <= Len(v[f.name].data) + FreeClusters(v), NEW o, SeekBreaks(v, f, at, o)
  PROVE  Sane(v, f, o) /\ o.fr = "DISK_ERR"
<1>1. ASSUME NEW k \in 0 .. at
      PROVE  /\ k \in 0 .. CLUSTERS
             /\ Grown(v, f, Overlay(v[f.name].data, k, <<>>, 0), k, f.dirty \/ k > f.objsize,
                      SoughtVol(v, f, k), SoughtFil(f, k))
  <2>1. k \in Nat /\ k <= Len(v[f.name].data) + FreeClusters(v) /\ k \in 0 .. CLUSTERS
    BY FilFits, ClustersAssumption
  <2>. QED BY <2>1, SoughtIsGood
<1>2. CASE o = Outcome("DISK_ERR", SoughtVol(v, f, at), Aborted(SoughtFil(f, at)), 0)
  <2>1. at \in 0 .. at /\ 0 \in 0 .. CLUSTERS
    BY ClustersAssumption
  <2>. QED BY <1>1, <1>2, <2>1, GrownIsSane, OutcomeFields
<1>3. CASE \E k \in 0 .. at :
             o = Outcome("DISK_ERR", SoughtVol(v, f, k), Aborted([f EXCEPT !.fptr = k]), 0)
  <2>1. PICK k \in 0 .. at :
               o = Outcome("DISK_ERR", SoughtVol(v, f, k), Aborted([f EXCEPT !.fptr = k]), 0)
    BY <1>3
  <2>2. GoodVolume(SoughtVol(v, f, k)) /\ Grows(v, SoughtVol(v, f, k))
    BY <1>1 DEF Grown
  <2>3. GoodFil(SoughtVol(v, f, k), f)
    BY <2>2, GoodFilGrows
  <2>. QED BY <1>1, <2>1, <2>2, <2>3, MovedIsSane, OutcomeFields
<1>. QED BY <1>2, <1>3 DEF SeekBreaks

LEMMA SeekIsSane ==
  ASSUME NEW v, NEW f, GoodVolume(v), GoodFil(v, f), NEW ofs \in Nat, NEW o \in f_lseek(v, f, ofs)
  PROVE  Sane(v, f, o) /\ o.fr \in {"OK", "DISK_ERR"}
<1> DEFINE at == SeekTo(v, f, ofs)
<1>1. CASE o = Outcome("DISK_ERR", v, f, 0)
  BY <1>1, UnchangedIsSane, OutcomeFields
<1>2. at \in Nat /\ at <= Len(v[f.name].data) + FreeClusters(v)
  BY SeekToType
<1> HIDE DEF at
<1>3. CASE SeekBreaks(v, f, at, o)
  BY <1>2, <1>3, BrokenSeekIsSane
<1>4. CASE o = Outcome("OK", SoughtVol(v, f, at), SoughtFil(f, at), 0)
  <2>2. Grown(v, f, Overlay(v[f.name].data, at, <<>>, 0), at, f.dirty \/ at > f.objsize,
              SoughtVol(v, f, at), SoughtFil(f, at))
    BY <1>2, SoughtIsGood
  <2>3. 0 \in 0 .. CLUSTERS
    BY ClustersAssumption
  <2>4. Sane(v, f, Outcome("OK", SoughtVol(v, f, at), SoughtFil(f, at), 0))
    BY <2>2, <2>3, GrownIsSane
  <2>5. QED BY <1>4, <2>4, OutcomeFields
<1>5. QED BY <1>1, <1>3, <1>4, SeekOutcomes DEF at

LEMMA WriteIsSane ==
  ASSUME NEW v, NEW f, GoodVolume(v), GoodFil(v, f), NEW s \in Seq(Clusters), NEW o \in f_write(v, f, s)
  PROVE  Sane(v, f, o)
<1> DEFINE n == Smaller(Len(s), Room(v, f))
<1>1. ~f.err => n \in 0 .. CLUSTERS /\ n <= Len(s) /\ n <= Room(v, f) /\ Room(v, f) \in Nat /\ Len(s) \in Nat
  BY RoomType
<1>2. CASE o = Outcome("DISK_ERR", v, f, 0) \/ o = Outcome("DENIED", v, f, 0)
  BY <1>2, UnchangedIsSane
<1>3. CASE ~f.err /\ o = Outcome("OK", WrittenVol(v, f, s, n), WrittenFil(f, n, TRUE), n)
  <2> HIDE DEF n
  <2>1. n \in Nat
    BY <1>1, <1>3
  <2>2. Grown(v, f, Overlay(v[f.name].data, f.fptr, s, n), f.fptr + n, TRUE,
              WrittenVol(v, f, s, n), WrittenFil(f, n, TRUE))
    BY <1>1, <1>3, <2>1, WrittenIsGood
  <2>3. QED BY <1>1, <1>3, <2>2, GrownIsSane
<1>4. CASE ~f.err /\ \E k \in 0 .. n :
             o = Outcome("DISK_ERR", WrittenVol(v, f, s, k), Aborted(WrittenFil(f, k, f.dirty)), 0)
  <2> HIDE DEF n
  <2>1. PICK k \in 0 .. n :
               o = Outcome("DISK_ERR", WrittenVol(v, f, s, k), Aborted(WrittenFil(f, k, f.dirty)), 0)
    BY <1>4
  <2>2. k \in Nat /\ k <= Len(s) /\ k <= Room(v, f)
    BY <1>1, <1>4
  <2>3. f.dirty \in BOOLEAN
    BY FilType DEF GoodFil
  <2>4. Grown(v, f, Overlay(v[f.name].data, f.fptr, s, k), f.fptr + k, f.dirty,
              WrittenVol(v, f, s, k), WrittenFil(f, k, f.dirty))
    BY <2>2, <2>3, WrittenIsGood
  <2>5. QED BY <1>1, <1>4, <2>1, <2>4, GrownIsSane
<1>5. QED BY <1>2, <1>3, <1>4, WriteOutcomes

LEMMA SameFil ==
  ASSUME NEW f \in Fil, NEW g \in Fil, f.name = g.name, f.can = g.can, f.fptr = g.fptr,
         f.objsize = g.objsize, f.dirty = g.dirty, f.err = g.err
  PROVE  f = g
  BY DEF Fil

\* A seek inside the file leaves the volume alone.
LEMMA SoughtInside ==
  ASSUME NEW v, NEW f, GoodVolume(v), GoodFil(v, f), NEW k \in Nat, k <= f.objsize
  PROVE  SoughtVol(v, f, k) = v
<1> DEFINE c == v[f.name].data
           d == Overlay(c, k, <<>>, 0)
<1>1. /\ Len(c) \in Nat /\ f.objsize \in Nat /\ f.name \in Names
      /\ f.objsize <= Len(c) /\ v \in [Names -> Entry] /\ c \in Seq(Clusters) /\ v[f.name] \in Entry
  BY FilFits, EntryType DEF GoodFil, GoodVolume
<1>2. Larger(Len(c), k + 0) = Len(c)
  BY <1>1 DEF Larger
<1>3. \A j \in 1 .. 0 : <<>>[j] \in Clusters
  OBVIOUS
<1>4. /\ d \in Seq(Clusters) /\ Len(d) = Len(c)
      /\ \A j \in 1 .. Len(c) :
              d[j] = IF j \in k + 1 .. k + 0 THEN <<>>[j - k]
                     ELSE IF j <= Len(c) THEN c[j] ELSE Junk
  <2> HIDE DEF c
  <2>1. QED BY <1>1, <1>2, <1>3, OverlayType
<1>5. \A j \in 1 .. Len(c) : d[j] = c[j]
  <2>1. TAKE j \in 1 .. Len(c)
  <2>2. j \notin k + 1 .. k + 0 /\ j <= Len(c)
    BY <1>1
  <2> HIDE DEF d, c
  <2>3. QED BY <1>4, <2>2
<1> HIDE DEF d, c
<1>6. d = c
  BY <1>1, <1>4, <1>5, SeqEqual
<1>7. SoughtVol(v, f, k) = [v EXCEPT ![f.name].data = v[f.name].data]
  BY <1>6 DEF SoughtVol, c, d
<1>8. [v[f.name] EXCEPT !.data = v[f.name].data] = v[f.name]
  BY <1>1 DEF Entry
<1>9. [v EXCEPT ![f.name].data = v[f.name].data] =
        [v EXCEPT ![f.name] = [v[f.name] EXCEPT !.data = v[f.name].data]]
  OBVIOUS
<1>10. [v EXCEPT ![f.name] = v[f.name]] = v
  BY <1>1
<1>. QED BY <1>7, <1>8, <1>9, <1>10, Zenon

LEMMA SoughtEnd ==
  ASSUME NEW v, NEW f, GoodVolume(v), GoodFil(v, f)
  PROVE  /\ SeekTo(v, f, f.objsize) = f.objsize
         /\ SoughtFil(f, f.objsize) = [f EXCEPT !.fptr = f.objsize]
<1>1. PICK a \in Nat, b \in Nat, c \in Nat :
             a = Len(v[f.name].data) /\ b = FreeClusters(v) /\ c = f.objsize
  BY FilFits
<1>2. c <= a /\ f \in Fil /\ f.dirty \in BOOLEAN
  BY <1>1, FilType DEF GoodFil
<1>3. SeekTo(v, f, f.objsize) = IF "WRITE" \in f.can THEN Smaller(c, a + b) ELSE Smaller(c, c)
  BY <1>1 DEF SeekTo
<1>4. Smaller(c, a + b) = c /\ Smaller(c, c) = c /\ Larger(c, c) = c /\ ~(c > c)
  BY <1>2 DEF Smaller, Larger
<1>5. SoughtFil(f, f.objsize) = [f EXCEPT !.fptr = c, !.objsize = c, !.dirty = f.dirty]
  <2>1. (f.dirty \/ c > c) = f.dirty
    BY <1>2, <1>4
  <2>. QED BY <1>1, <1>4, <2>1, Zenon DEF SoughtFil
<1>6. [f EXCEPT !.fptr = c, !.objsize = c, !.dirty = f.dirty] = [f EXCEPT !.fptr = c]
  BY <1>1, <1>2 DEF Fil
<1>. QED BY <1>1, <1>3, <1>4, <1>5, <1>6

\* The seek to the end moves the position, or aborts the file where it stands;
\* it never makes the file longer.
AtTheEnd(v, f, append, o) ==
  /\ o.vol = v
  /\ \/ (~append \/ f.err) /\ o.fil = f
     \/ append /\ ~f.err /\ \E p \in 0 .. f.objsize : o.fil = Aborted([f EXCEPT !.fptr = p])
     \/ append /\ ~f.err /\ o.fil = [f EXCEPT !.fptr = f.objsize]

LEMMA AppendSeekOutcomes ==
  ASSUME NEW v, NEW f, GoodVolume(v), GoodFil(v, f), NEW append, NEW o \in AppendSeek(v, f, append)
  PROVE  AtTheEnd(v, f, append, o)
<1> USE DEF AtTheEnd
<1>1. CASE ~append
  BY <1>1, OutcomeFields DEF AppendSeek
<1>2. CASE append
  <2>1. o \in f_lseek(v, f, f.objsize)
    BY <1>2 DEF AppendSeek
  <2>2. /\ SeekTo(v, f, f.objsize) = f.objsize
        /\ SoughtFil(f, f.objsize) = [f EXCEPT !.fptr = f.objsize]
        /\ f.objsize \in Nat
    BY SoughtEnd, FilFits
  <2>3. \A k \in 0 .. f.objsize : SoughtVol(v, f, k) = v
    BY <2>2, SoughtInside
  <2>4. f.objsize \in 0 .. f.objsize
    BY <2>2
  <2>5. CASE f.err /\ o = Outcome("DISK_ERR", v, f, 0)
    BY <2>5, OutcomeFields
  <2>6. CASE ~f.err /\ SeekBreaks(v, f, f.objsize, o)
    <3>1. \E k \in 0 .. f.objsize :
             o = Outcome("DISK_ERR", SoughtVol(v, f, k), Aborted([f EXCEPT !.fptr = k]), 0)
      BY <2>2, <2>4, <2>6 DEF SeekBreaks
    <3>2. PICK k \in 0 .. f.objsize :
             o = Outcome("DISK_ERR", v, Aborted([f EXCEPT !.fptr = k]), 0)
      BY <2>3, <3>1
    <3>. QED BY <1>2, <2>6, <3>2, OutcomeFields
  <2>7. CASE /\ ~f.err
             /\ o = Outcome("OK", SoughtVol(v, f, f.objsize), SoughtFil(f, f.objsize), 0)
    BY <1>2, <2>2, <2>3, <2>4, <2>7, OutcomeFields
  <2>. QED BY <2>1, <2>2, <2>5, <2>6, <2>7, SeekOutcomes
<1>. QED BY <1>1, <1>2


-----------------------------------------------------------------------------
(* The calls on names.                                                        *)

Begins(v, path, acc) == v[path].kind = "none" \/ "CREATE_ALWAYS" \in acc
EntryOpened(v, path, acc) == IF Begins(v, path, acc) THEN Empty ELSE v[path]
VolOpened(v, path, acc) == [v EXCEPT ![path] = EntryOpened(v, path, acc)]
FilOpened(v, path, acc) ==
  [name |-> path, can |-> acc \cap {"READ", "WRITE"}, fptr |-> 0,
   objsize |-> EntryOpened(v, path, acc).size, dirty |-> Begins(v, path, acc), err |-> FALSE]

LEMMA OpenResults ==
  ASSUME NEW e \in Entry, NEW acc
  PROVE  /\ OpenResult(e, acc) \in {"OK", "NO_FILE", "DENIED", "EXIST"}
         /\ OpenResult(e, acc) = "OK" => e.kind # "dir" /\ (e.kind = "none" => "CREATE_NEW" \in acc \/
                                           "CREATE_ALWAYS" \in acc \/ "OPEN_ALWAYS" \in acc)
  BY EntryType DEF OpenResult

LEMMA OpenOutcomes ==
  ASSUME NEW v, NEW path, NEW acc, NEW o \in f_open(v, path, acc)
  PROVE  \/ o = Outcome("DISK_ERR", v, Closed, 0)
         \/ /\ OpenResult(v[path], acc) # "OK"
            /\ o = Outcome(OpenResult(v[path], acc), v, Closed, 0)
         \/ /\ OpenResult(v[path], acc) = "OK"
            /\ o = Outcome("DISK_ERR", VolOpened(v, path, acc), Closed, 0)
         \/ /\ OpenResult(v[path], acc) = "OK"
            /\ o = Outcome("OK", VolOpened(v, path, acc), FilOpened(v, path, acc), 0)
<1> DEFINE fr == OpenResult(v[path], acc)
           w == VolOpened(v, path, acc)
<1>1. f_open(v, path, acc) =
        IF fr # "OK" THEN {Outcome(fr, v, Closed, 0)} \cup HardError(v, Closed)
        ELSE {Outcome(fr, w, FilOpened(v, path, acc), 0)} \cup
             HardError(v, Closed) \cup HardError(w, Closed)
  BY Zenon DEF f_open, Refused, VolOpened, FilOpened, EntryOpened, Begins
<1> HIDE DEF fr, w
<1>2. CASE o \in HardError(v, Closed)
  BY <1>2, HardErrors
<1>3. CASE fr # "OK" /\ o \notin HardError(v, Closed)
  BY <1>1, <1>3 DEF fr
<1>4. CASE fr = "OK" /\ o \in HardError(w, Closed)
  BY <1>4, HardErrors DEF fr, w
<1>5. CASE fr = "OK" /\ o \notin HardError(v, Closed) /\ o \notin HardError(w, Closed)
  BY <1>1, <1>5 DEF fr, w
<1>6. QED BY <1>2, <1>3, <1>4, <1>5

\* What a call on a name leaves of the others.
Elsewhere(v, w, path) == \A n \in Names \ {path} : w[n] = v[n]

LEMMA OpenIsGood ==
  ASSUME NEW v, GoodVolume(v), NEW path \in Names, NEW acc, OpenResult(v[path], acc) = "OK"
  PROVE  LET w == VolOpened(v, path, acc)
             g == FilOpened(v, path, acc)
         IN  /\ GoodVolume(w) /\ GoodFil(w, g) /\ Elsewhere(v, w, path)
             /\ g.name = path /\ g.can = acc \cap {"READ", "WRITE"} /\ g.fptr = 0 /\ ~g.err
             /\ g.objsize = w[path].size
             /\ w[path] = EntryOpened(v, path, acc)
             /\ ~Begins(v, path, acc) => w = v
<1> DEFINE e == EntryOpened(v, path, acc)
           w == VolOpened(v, path, acc)
           g == FilOpened(v, path, acc)
<1>1. /\ v \in [Names -> Entry] /\ v[path] \in Entry /\ v[path].size <= Len(v[path].data)
      /\ FreeClusters(v) \in Nat /\ DOMAIN v = Names
  BY DEF GoodVolume
<1>2. v[path].kind # "dir" /\ v[path].kind \in {"none", "file", "dir"}
  BY <1>1, OpenResults, EntryType
<1>3. Empty \in Entry /\ Empty.size = 0 /\ Len(Empty.data) = 0 /\ Empty.kind = "file"
  BY EmptySeq DEF Empty, Entry
<1>4. e \in Entry /\ e.size <= Len(e.data) /\ e.kind = "file"
  BY <1>1, <1>2, <1>3 DEF EntryOpened, Begins
<1>5. Len(e.data) <= Len(v[path].data) + FreeClusters(v)
  <2>1. PICK l \in Nat, k \in Nat : l = Len(v[path].data) /\ k = FreeClusters(v)
    BY <1>1, EntryType
  <2>2. Len(e.data) = 0 \/ Len(e.data) = l
    BY <1>3, <2>1 DEF EntryOpened
  <2>3. Len(e.data) <= l + k
    BY <2>1, <2>2
  <2>4. QED BY <2>1, <2>3
<1> HIDE DEF e
<1>6. w = [v EXCEPT ![path] = e]
  BY DEF VolOpened, e
<1>7. GoodVolume(w)
  <2>1. GoodVolume([v EXCEPT ![path] = e])
    BY <1>4, <1>5, SetEntry
  <2>2. QED BY <1>6, <2>1, Zenon
<1>8. w[path] = e /\ Elsewhere(v, w, path)
  BY <1>1, <1>6 DEF Elsewhere
<1>9. e.size \in Nat
  BY <1>4, EntryType
<1>10. /\ g.name = path /\ g.can = acc \cap {"READ", "WRITE"} /\ g.fptr = 0 /\ g.objsize = e.size
       /\ ~g.err /\ g.dirty = Begins(v, path, acc)
  BY DEF FilOpened, e
<1>11. g \in Fil
  <2>1. Begins(v, path, acc) \in BOOLEAN
    BY Zenon DEF Begins
  <2>2. acc \cap {"READ", "WRITE"} \in SUBSET {"READ", "WRITE"}
    OBVIOUS
  <2>3. \A b \in BOOLEAN, c \in SUBSET {"READ", "WRITE"}, k \in Nat :
          [name |-> path, can |-> c, fptr |-> 0, objsize |-> k, dirty |-> b, err |-> FALSE] \in Fil
    BY DEF Fil
  <2>4. QED BY <1>9, <2>1, <2>2, <2>3, Zenon DEF FilOpened, e
<1>12. GoodFil(w, g)
  <2> HIDE DEF w, g
  <2>1. 0 <= e.size /\ 0 <= CLUSTERS
    BY <1>9, ClustersAssumption
  <2>2. QED BY <1>4, <1>8, <1>10, <1>11, <2>1 DEF GoodFil
<1>13. ~Begins(v, path, acc) => w = v
  BY <1>1, <1>6 DEF EntryOpened, e
<1> HIDE DEF w, g
<1>14. QED BY <1>7, <1>8, <1>10, <1>12, <1>13 DEF w, g, e

VolClosed(v, f) == [v EXCEPT ![f.name].size = f.objsize]

LEMMA ChangedOutcomes ==
  ASSUME NEW v, NEW w, NEW o \in Changed(v, w)
  PROVE  (o.fr = "OK" /\ o.vol = w) \/ (o.fr = "DISK_ERR" /\ o.vol \in {v, w})
<1>1. CASE o \in HardError(v, Closed) \cup HardError(w, Closed)
  BY <1>1, HardErrors, OutcomeFields
<1>2. CASE o = Outcome("OK", w, Closed, 0)
  BY <1>2, OutcomeFields
<1>. QED BY <1>1, <1>2 DEF Changed

LEMMA RefusedOutcomes ==
  ASSUME NEW v, NEW fr, NEW o \in Refused(v, fr)
  PROVE  o.vol = v /\ o.fr \in {fr, "DISK_ERR"}
<1>1. CASE o \in HardError(v, Closed)
  BY <1>1, HardErrors, OutcomeFields
<1>2. CASE o = Outcome(fr, v, Closed, 0)
  BY <1>2, OutcomeFields
<1>. QED BY <1>1, <1>2 DEF Refused

LEMMA CloseOutcomes ==
  ASSUME NEW v, NEW f, NEW o \in f_close(v, f)
  PROVE  LET w == IF f.dirty THEN VolClosed(v, f) ELSE v
         IN  (o.fr = "OK" /\ o.vol = w) \/ (o.fr = "DISK_ERR" /\ o.vol \in {v, w})
  BY ChangedOutcomes DEF f_close, VolClosed

LEMMA CloseIsGood ==
  ASSUME NEW v, GoodVolume(v), NEW f, GoodFil(v, f)
  PROVE  LET w == VolClosed(v, f)
         IN  /\ GoodVolume(w) /\ Grows(v, w) /\ Elsewhere(v, w, f.name)
             /\ w[f.name].data = v[f.name].data /\ w[f.name].size = f.objsize
             /\ w[f.name].kind = v[f.name].kind
<1> DEFINE w == [v EXCEPT ![f.name].size = f.objsize]
           e == [v[f.name] EXCEPT !.size = f.objsize]
<1>1. /\ Len(v[f.name].data) \in Nat /\ FreeClusters(v) \in Nat
      /\ f.objsize \in Nat /\ f.name \in Names
  BY FilFits
<1>2. /\ v \in [Names -> Entry] /\ DOMAIN v = Names
      /\ f.objsize <= Len(v[f.name].data)
  BY DEF GoodVolume, GoodFil
<1>3. /\ w = [v EXCEPT ![f.name] = e]
      /\ e \in Entry /\ e.data = v[f.name].data /\ e.size = f.objsize /\ e.kind = v[f.name].kind
  BY <1>1, <1>2, SetSize
<1> HIDE DEF w, e
<1>4. Len(e.data) <= Len(v[f.name].data) + FreeClusters(v)
  BY <1>1, <1>3
<1>5. GoodVolume(w)
  BY <1>1, <1>2, <1>3, <1>4, SetEntry
<1>6. \A n \in Names : w[n] = IF n = f.name THEN e ELSE v[n]
  BY <1>2, <1>3
<1>7. Grows(v, w)
  <2>1. ASSUME NEW n \in Names PROVE w[n].kind = v[n].kind /\ Len(v[n].data) <= Len(w[n].data)
    <3>1. Len(v[n].data) \in Nat
      BY <1>2, EntryType
    <3>2. w[n].kind = v[n].kind /\ w[n].data = v[n].data
      BY <1>3, <1>6
    <3>3. QED BY <3>1, <3>2
  <2>2. QED BY <2>1 DEF Grows
<1>8. w[f.name] = e /\ Elsewhere(v, w, f.name)
  BY <1>1, <1>6 DEF Elsewhere
<1>9. w = VolClosed(v, f)
  BY DEF w, VolClosed
<1>10. QED BY <1>3, <1>5, <1>7, <1>8, <1>9

\* Removing, renaming, making a directory.
LEMMA NoneIsGood ==
  /\ None \in Entry /\ None.size = 0 /\ Len(None.data) = 0 /\ None.kind = "none"
  /\ Directory \in Entry /\ Directory.size = 0 /\ Len(Directory.data) = 1 /\ Directory.kind = "dir"
<1>1. None \in Entry /\ None.size = 0 /\ Len(None.data) = 0 /\ None.kind = "none"
  BY EmptySeq DEF None, Entry
<1>2. <<Junk>> \in Seq(Clusters) /\ Len(<<Junk>>) = 1
  BY DEF Clusters
<1>3. Directory \in Entry /\ Directory.size = 0 /\ Len(Directory.data) = 1 /\ Directory.kind = "dir"
  BY <1>2 DEF Directory, Entry
<1>4. QED BY <1>1, <1>3

LEMMA UnlinkOutcomes ==
  ASSUME NEW v, GoodVolume(v), NEW path \in Names, NEW o \in f_unlink(v, path)
  PROVE  \/ o.vol = v /\ o.fr \in {"DISK_ERR", "NO_FILE"}
         \/ /\ o.fr \in {"OK", "DISK_ERR"} /\ v[path].kind # "none"
            /\ GoodVolume(o.vol) /\ Elsewhere(v, o.vol, path) /\ o.vol[path] = None
<1>1. CASE o.vol = v /\ o.fr = "DISK_ERR"
  BY <1>1
<1>2. CASE o \in Refused(v, "NO_FILE")
  BY <1>2, RefusedOutcomes
<1>3. CASE /\ v[path].kind # "none"
           /\ o.fr \in {"OK", "DISK_ERR"} /\ o.vol = [v EXCEPT ![path] = None]
  <2>1. o.vol = [v EXCEPT ![path] = None]
    BY <1>3
  <2>2. DOMAIN v = Names /\ v[path] \in Entry /\ FreeClusters(v) \in Nat
    BY DEF GoodVolume
  <2>3. Len(v[path].data) \in Nat
    BY <2>2, EntryType
  <2>4. None.size <= Len(None.data) /\ Len(None.data) <= Len(v[path].data) + FreeClusters(v)
    BY <2>2, <2>3, NoneIsGood
  <2>5. GoodVolume([v EXCEPT ![path] = None])
    BY <2>4, NoneIsGood, SetEntry
  <2>6. Elsewhere(v, o.vol, path) /\ o.vol[path] = None
    BY <2>1, <2>2 DEF Elsewhere
  <2>7. QED BY <1>3, <2>1, <2>5, <2>6
<1>4. QED BY <1>1, <1>2, <1>3, ChangedOutcomes DEF f_unlink

LEMMA MkdirOutcomes ==
  ASSUME NEW v, GoodVolume(v), NEW path \in Names, NEW o \in f_mkdir(v, path)
  PROVE  \/ o.vol = v /\ o.fr \in {"DISK_ERR", "EXIST", "DENIED"}
         \/ /\ o.fr \in {"OK", "DISK_ERR"} /\ v[path].kind = "none"
            /\ GoodVolume(o.vol) /\ Elsewhere(v, o.vol, path) /\ o.vol[path] = Directory
<1>1. CASE o.vol = v /\ o.fr = "DISK_ERR"
  BY <1>1
<1>2. CASE o \in Refused(v, "EXIST") \cup Refused(v, "DENIED")
  BY <1>2, RefusedOutcomes
<1>3. CASE /\ v[path].kind = "none" /\ FreeClusters(v) # 0
           /\ o.fr \in {"OK", "DISK_ERR"} /\ o.vol = [v EXCEPT ![path] = Directory]
  <2>1. o.vol = [v EXCEPT ![path] = Directory]
    BY <1>3
  <2>2. DOMAIN v = Names /\ v[path] \in Entry /\ FreeClusters(v) \in Nat
    BY DEF GoodVolume
  <2>3. Len(v[path].data) \in Nat
    BY <2>2, EntryType
  <2>4. /\ Directory.size <= Len(Directory.data)
        /\ Len(Directory.data) <= Len(v[path].data) + FreeClusters(v)
    <3>1. PICK k \in Nat, l \in Nat : k = FreeClusters(v) /\ l = Len(v[path].data)
      BY <2>2, <2>3
    <3>2. 1 <= l + k
      BY <1>3, <3>1
    <3>3. QED BY <3>1, <3>2, NoneIsGood
  <2>5. GoodVolume([v EXCEPT ![path] = Directory])
    BY <2>4, NoneIsGood, SetEntry
  <2>6. Elsewhere(v, o.vol, path) /\ o.vol[path] = Directory
    BY <2>1, <2>2 DEF Elsewhere
  <2>7. QED BY <1>3, <2>1, <2>5, <2>6
<1>4. QED BY <1>1, <1>2, <1>3, ChangedOutcomes DEF f_mkdir

LEMMA RenameOutcomes ==
  ASSUME NEW v, GoodVolume(v), NEW old \in Names, NEW new \in Names, NEW o \in f_rename(v, old, new)
  PROVE  \/ o.vol = v /\ o.fr \in {"DISK_ERR", "NO_FILE", "EXIST", "OK"}
            /\ (o.fr = "OK" => old = new /\ v[old].kind # "none")
         \/ /\ o.fr \in {"OK", "DISK_ERR"}
            /\ v[old].kind # "none" /\ v[new].kind = "none" /\ old # new
            /\ GoodVolume(o.vol)
            /\ o.vol[old] = None /\ o.vol[new] = v[old]
            /\ \A n \in Names \ {old, new} : o.vol[n] = v[n]
<1>1. CASE o.vol = v /\ o.fr = "DISK_ERR"
  BY <1>1
<1>2. CASE o \in Refused(v, "NO_FILE") \cup Refused(v, "EXIST")
  BY <1>2, RefusedOutcomes
<1> DEFINE u == [v EXCEPT ![old] = None]
           w == [u EXCEPT ![new] = v[old]]
<1>3. CASE /\ v[old].kind # "none" /\ (v[new].kind = "none" \/ new = old)
           /\ o.fr \in {"OK", "DISK_ERR"} /\ o.vol = w
  <2>1. o.vol = w
    BY <1>3
  <2>2. /\ v \in [Names -> Entry] /\ DOMAIN v = Names /\ v[old] \in Entry /\ v[new] \in Entry
        /\ FreeClusters(v) \in Nat
        /\ v[old].size <= Len(v[old].data)
    BY DEF GoodVolume
  <2>3. /\ Len(v[old].data) \in Nat /\ Len(v[new].data) \in Nat
        /\ \A n \in Names : v[n].data \in Seq(Clusters)
    BY <2>2, EntryType
  <2>4. CASE old = new
    <3>1. w = v
      BY <2>2, <2>4
    <3>2. QED BY <1>3, <2>1, <2>4, <3>1
  <2>5. CASE old # new
    <3>1. None.size <= Len(None.data) /\ Len(None.data) <= Len(v[old].data) + FreeClusters(v)
      BY <2>2, <2>3, NoneIsGood
    <3>2. GoodVolume(u)
      BY <3>1, NoneIsGood, SetEntry
    <3>3. u[old] = None /\ DOMAIN u = Names /\ \A n \in Names \ {old} : u[n] = v[n]
      BY <2>2
    <3>4. FreeClusters(u) = FreeClusters(v) + Len(v[old].data) - Len(None.data)
      <4>1. None.data \in Seq(Clusters)
        BY NoneIsGood, EntryType
      <4>2. QED BY <2>2, <2>3, <4>1, FreeAfter, ZenonT(30)
    <3> HIDE DEF u
    <3>5. Len(v[old].data) <= Len(u[new].data) + FreeClusters(u)
      <4>1. PICK k \in Nat, l \in Nat, m \in Nat :
                   k = FreeClusters(v) /\ l = Len(v[old].data) /\ m = Len(u[new].data)
        BY <2>2, <2>3, <2>5, <3>3
      <4>2. FreeClusters(u) = k + l
        BY <3>4, <4>1, NoneIsGood
      <4>3. \A a, b, c \in Nat : b <= c + (a + b)
        OBVIOUS
      <4>4. l <= m + FreeClusters(u)
        BY <4>2, <4>3
      <4>5. QED BY <4>1, <4>4
    <3>6. GoodVolume(w)
      BY <2>2, <3>2, <3>5, SetEntry
    <3>7. /\ w[old] = None /\ w[new] = v[old]
          /\ \A n \in Names \ {old, new} : w[n] = v[n]
      BY <2>5, <3>3
    <3>8. QED BY <1>3, <2>1, <2>5, <3>6, <3>7
  <2>6. QED BY <2>4, <2>5
<1>4. CASE /\ v[old].kind # "none" /\ (v[new].kind = "none" \/ new = old)
           /\ o \in Changed(v, w)
  BY <1>1, <1>3, <1>4, ChangedOutcomes
<1>5. QED BY <1>2, <1>4 DEF f_rename


-----------------------------------------------------------------------------
(* The invariant of the files.                                                *)

OpenFiles(v, tab) ==
  \A i \in Slots : tab[i].used => GoodFil(v, tab[i].f) /\ tab[i].append \in BOOLEAN

FilesInv == TableInv /\ GoodVolume(vol) /\ OpenFiles(vol, g_fd)

Answerable == 0 .. Larger(FD_BASE + FD_MAX - 1, CLUSTERS)
Errnos == {"0", "EINVAL", "EFAULT"} \cup {ErrnoOf[fr] : fr \in DOMAIN ErrnoOf}

AnswersInv ==
  /\ g_mounted \in BOOLEAN
  /\ errno \in Errnos
  /\ ret = -1 \/ ret \in Answerable
  /\ got \in Contents

\* What RefusedCallsChangeNothing says of a step.
Refusal ==
  (ret' = -1 /\ errno' # "EIO") =>
     /\ UNCHANGED <<vol, held>>
     /\ \A i \in Slots : [g_fd[i].f EXCEPT !.fptr = 0] = [g_fd'[i].f EXCEPT !.fptr = 0]

Done == GoodVolume(vol') /\ OpenFiles(vol', g_fd') /\ AnswersInv' /\ Refusal

LEMMA ErrnoFacts ==
  /\ \A fr : ff_to_errno(fr) \in Errnos
  /\ ff_to_errno("DISK_ERR") = "EIO"
  /\ "EBADF" \in Errnos /\ "EMFILE" \in Errnos /\ "EINVAL" \in Errnos /\ "EFAULT" \in Errnos
  /\ "0" \in Errnos
<1>1. "DISK_ERR" \in DOMAIN ErrnoOf /\ ErrnoOf["DISK_ERR"] = "EIO"
  BY DEF ErrnoOf
<1>2. "INVALID_OBJECT" \in DOMAIN ErrnoOf /\ ErrnoOf["INVALID_OBJECT"] = "EBADF"
  BY DEF ErrnoOf
<1>3. "TOO_MANY_OPEN_FILES" \in DOMAIN ErrnoOf /\ ErrnoOf["TOO_MANY_OPEN_FILES"] = "EMFILE"
  BY DEF ErrnoOf
<1>4. QED BY <1>1, <1>2, <1>3 DEF ff_to_errno, Errnos

LEMMA ContentsType ==
  /\ <<>> \in Contents
  /\ \A s \in Seq(Clusters) : Len(s) <= CLUSTERS => s \in Contents
<1>1. ASSUME NEW s \in Seq(Clusters), Len(s) <= CLUSTERS PROVE s \in Contents
  <2>1. Len(s) \in 0 .. CLUSTERS
    BY <1>1, ClustersAssumption
  <2>2. s \in [1 .. Len(s) -> Clusters]
    OBVIOUS
  <2>3. QED BY <2>1, <2>2 DEF Contents
<1>2. <<>> \in Seq(Clusters) /\ Len(<<>>) <= CLUSTERS
  BY EmptySeq, ClustersAssumption
<1>3. QED BY <1>1, <1>2

LEMMA AnswersTyped ==
  ASSUME AnswersInv, NEW fr, NEW n \in Answerable, Answers(fr, n)
  PROVE  /\ errno' \in Errnos /\ (ret' = -1 \/ ret' \in Answerable) /\ got' \in Contents
         /\ (ret' = -1 /\ errno' # "EIO") => fr # "OK" /\ fr # "DISK_ERR"
         /\ fr = "OK" => ret' # -1
<1>1. n # -1
  BY DEF Answerable
<1>2. got' \in Contents
  BY ContentsType DEF Answers
<1>3. CASE fr = "OK"
  <2>1. ret' = n /\ errno' = errno
    BY <1>3 DEF Answers, Returns
  <2>2. QED BY <1>1, <1>2, <2>1 DEF AnswersInv
<1>4. CASE fr # "OK"
  <2>1. ret' = -1 /\ errno' = ff_to_errno(fr)
    BY <1>4 DEF Answers, Fails
  <2>2. QED BY <1>2, <1>4, <2>1, ErrnoFacts
<1>5. QED BY <1>3, <1>4

LEMMA MountedType == ASSUME AnswersInv, ensure_mounted \/ UNCHANGED g_mounted
                     PROVE  g_mounted' \in BOOLEAN
  BY DEF AnswersInv, ensure_mounted

LEMMA UnchangedFiles ==
  ASSUME FilesInv, UNCHANGED <<vol, g_fd, held>>
  PROVE  GoodVolume(vol') /\ OpenFiles(vol', g_fd') /\ Refusal
<1>1. GoodVolume(vol') /\ OpenFiles(vol', g_fd')
  BY DEF FilesInv
<1>2. Refusal
  BY DEF Refusal
<1>3. QED BY <1>1, <1>2

LEMMA RefusesIsDone ==
  ASSUME FilesInv, AnswersInv, NEW e \in {"EINVAL", "EBADF", "EMFILE", "EFAULT"}, Refuses(e),
         ensure_mounted \/ UNCHANGED g_mounted
  PROVE  Done
<1>1. ret' = -1 /\ errno' = e /\ got' = <<>> /\ UNCHANGED <<vol, g_fd, held>>
  BY DEF Refuses, Fails
<1>2. GoodVolume(vol') /\ OpenFiles(vol', g_fd') /\ Refusal
  BY <1>1, UnchangedFiles
<1>3. AnswersInv'
  <2>1. g_mounted' \in BOOLEAN
    BY MountedType
  <2>2. errno' \in Errnos
    BY <1>1, ErrnoFacts
  <2>3. got' \in Contents
    BY <1>1, ContentsType
  <2>4. QED BY <1>1, <2>1, <2>2, <2>3 DEF AnswersInv, Answerable, Errnos, ErrnoOf, Contents, Clusters, Larger, FD_BASE
<1>4. QED BY <1>2, <1>3 DEF Done

SetSlot(tab, i, append, f) == [tab EXCEPT ![i] = [used |-> TRUE, append |-> append, f |-> f]]

\* The files open in the other slots are as good on volume w.
OthersGood(w, i) == \A j \in Slots \ {i} : g_fd[j].used => GoodFil(w, g_fd[j].f)

LEMMA SlotChanges ==
  ASSUME FilesInv, NEW i \in Slots, NEW append \in BOOLEAN, NEW w, NEW f, vol' = w,
         g_fd' = SetSlot(g_fd, i, append, f),
         GoodVolume(w), GoodFil(w, f), OthersGood(w, i)
  PROVE  /\ GoodVolume(vol') /\ OpenFiles(vol', g_fd')
         /\ \A j \in Slots \ {i} : g_fd'[j] = g_fd[j]
         /\ g_fd'[i] = [used |-> TRUE, append |-> append, f |-> f]
<1>1. \A j \in Slots : g_fd'[j] = IF j = i THEN [used |-> TRUE, append |-> append, f |-> f] ELSE g_fd[j]
  BY DEF FilesInv, TableInv, SetSlot
<1>2. ASSUME NEW j \in Slots, g_fd'[j].used
      PROVE  GoodFil(vol', g_fd'[j].f) /\ g_fd'[j].append \in BOOLEAN
  <2>1. CASE j = i
    <3>1. g_fd'[j].f = f /\ g_fd'[j].append = append
      BY <1>1, <2>1
    <3>2. QED BY <3>1
  <2>2. CASE j # i
    <3>1. g_fd'[j] = g_fd[j]
      BY <1>1, <2>2
    <3>2. g_fd[j].append \in BOOLEAN
      BY <1>2, <3>1 DEF FilesInv, OpenFiles
    <3>3. GoodFil(w, g_fd[j].f)
      BY <1>2, <2>2, <3>1 DEF OthersGood
    <3>4. QED BY <3>1, <3>2, <3>3
  <2>3. QED BY <2>1, <2>2
<1>3. OpenFiles(vol', g_fd')
  BY <1>2 DEF OpenFiles
<1>4. QED BY <1>1, <1>3

LEMMA LeavesSlot ==
  ASSUME FilesInv, NEW i \in Slots, g_fd[i].used, NEW f, NEW o, Sane(vol, f, o), Leaves(i, o)
  PROVE  /\ GoodVolume(vol') /\ OpenFiles(vol', g_fd') /\ vol' = o.vol /\ UNCHANGED held
         /\ \A j \in Slots \ {i} : g_fd'[j] = g_fd[j]
         /\ g_fd'[i].f = o.fil
<1>1. GoodVolume(o.vol) /\ Grows(vol, o.vol) /\ GoodFil(o.vol, o.fil)
  BY DEF Sane
<1>2. OthersGood(o.vol, i)
  BY <1>1, GoodFilGrows DEF FilesInv, OpenFiles, OthersGood
<1>3. g_fd[i].append \in BOOLEAN
  BY DEF FilesInv, OpenFiles
<1>4. /\ vol' = o.vol /\ UNCHANGED held
      /\ g_fd' = SetSlot(g_fd, i, g_fd[i].append, o.fil)
  BY DEF Leaves, SetSlot
<1>5. /\ GoodVolume(vol') /\ OpenFiles(vol', g_fd')
      /\ \A j \in Slots \ {i} : g_fd'[j] = g_fd[j]
      /\ g_fd'[i] = [used |-> TRUE, append |-> g_fd[i].append, f |-> o.fil]
  BY <1>1, <1>2, <1>3, <1>4, SlotChanges
<1>6. QED BY <1>4, <1>5


AtStart(f) == [f EXCEPT !.fptr = 0]

LEMMA SlotRefusal ==
  ASSUME NEW i \in Slots, \A j \in Slots \ {i} : g_fd'[j] = g_fd[j], UNCHANGED <<vol, held>>,
         AtStart(g_fd'[i].f) = AtStart(g_fd[i].f)
  PROVE  Refusal
<1>1. \A j \in Slots : AtStart(g_fd[j].f) = AtStart(g_fd'[j].f)
  OBVIOUS
<1>2. QED BY <1>1 DEF Refusal, AtStart

LEMMA NoRefusal ==
  ASSUME ret' # -1 \/ errno' = "EIO"
  PROVE  Refusal
  BY Zenon DEF Refusal

LEMMA FilData ==
  ASSUME NEW v, NEW f, GoodVolume(v), GoodFil(v, f)
  PROVE  /\ f.fptr \in Nat /\ f.objsize \in Nat /\ Len(v[f.name].data) \in Nat
         /\ f.fptr <= CLUSTERS /\ (~f.err => f.fptr <= f.objsize)
         /\ f.objsize <= Len(v[f.name].data) /\ Len(v[f.name].data) <= CLUSTERS
         /\ v[f.name].data \in Seq(Clusters) /\ f.name \in Names
<1>1. PICK l \in Nat, k \in Nat : l = Len(v[f.name].data) /\ k = FreeClusters(v) /\ l + k <= CLUSTERS
  BY FilFits
<1>2. l <= CLUSTERS
  BY <1>1, ClustersAssumption
<1>3. v[f.name].data \in Seq(Clusters)
  BY FilFits, EntryType DEF GoodVolume
<1>4. QED BY <1>1, <1>2, <1>3, FilFits DEF GoodFil

LEMMA PieceType ==
  ASSUME NEW data \in Seq(Clusters), Len(data) <= CLUSTERS, NEW p \in Nat, NEW n \in Nat,
         n = 0 \/ p + n <= Len(data)
  PROVE  SubSeq(data, p + 1, p + n) \in Contents /\ Len(SubSeq(data, p + 1, p + n)) = n
<1> DEFINE a == p + 1
           b == p + n
<1>1. a \in Nat /\ 1 <= a /\ (a <= b => b <= Len(data)) /\ b \in Int /\ Len(data) \in Nat
      /\ (IF a <= b THEN b - a + 1 ELSE 0) = n /\ n <= CLUSTERS
  BY ClustersAssumption
<1> HIDE DEF a, b
<1>2. \A j \in a .. b : data[j] \in Clusters
  BY <1>1
<1>3. SubSeq(data, a, b) \in Seq(Clusters)
  BY <1>1, <1>2, SubSeqProperties
<1>4. Len(SubSeq(data, a, b)) = IF a <= b THEN b - a + 1 ELSE 0
  BY <1>1, <1>2, SubSeqProperties
<1>5. SubSeq(data, a, b) \in Contents /\ Len(SubSeq(data, a, b)) = n
  BY <1>1, <1>3, <1>4, ContentsType
<1>6. QED BY <1>5 DEF a, b

LEMMA ReadDone ==
  ASSUME FilesInv, AnswersInv, NEW fd, NEW count \in Nat, _read(fd, count)
  PROVE  Done
<1>0. PICK i \in fd_get(fd) :
        \E o \in f_read(vol, g_fd[i].f, count) :
          /\ Leaves(i, o)
          /\ IF o.fr = "OK" THEN Returns(o.n) ELSE Fails(ff_to_errno(o.fr))
          /\ got' = SubSeq(vol[g_fd[i].f.name].data, g_fd[i].f.fptr + 1, g_fd[i].f.fptr + o.n)
  BY DEF _read
<1>1. PICK o \in f_read(vol, g_fd[i].f, count) :
        /\ Leaves(i, o)
        /\ IF o.fr = "OK" THEN Returns(o.n) ELSE Fails(ff_to_errno(o.fr))
        /\ got' = SubSeq(vol[g_fd[i].f.name].data, g_fd[i].f.fptr + 1, g_fd[i].f.fptr + o.n)
  BY <1>0
<1> DEFINE f == g_fd[i].f
           data == vol[f.name].data
<1>2. i \in Slots /\ g_fd[i].used
  BY DEF fd_get
<1>3. GoodVolume(vol) /\ GoodFil(vol, f)
  BY <1>2 DEF FilesInv, OpenFiles
<1>4. Sane(vol, f, o) /\ (o.n = 0 \/ f.fptr + o.n <= f.objsize)
  BY <1>3, ReadIsSane
<1>5. /\ GoodVolume(vol') /\ OpenFiles(vol', g_fd') /\ vol' = o.vol /\ UNCHANGED held
      /\ \A j \in Slots \ {i} : g_fd'[j] = g_fd[j]
      /\ g_fd'[i].f = o.fil
  BY <1>1, <1>2, <1>4, LeavesSlot
<1>6. o.n \in 0 .. CLUSTERS /\ o.fr \in {"OK", "DENIED", "DISK_ERR"}
      /\ (o.fr = "DENIED" => o.vol = vol /\ o.fil = f)
  BY <1>4 DEF Sane
<1>7. got' \in Contents
  <2>1. PICK p \in Nat, q \in Nat, l \in Nat, n \in Nat :
               p = f.fptr /\ q = f.objsize /\ l = Len(data) /\ n = o.n
    <3>1. o.n \in Nat
      BY <1>6
    <3>2. f.fptr \in Nat /\ f.objsize \in Nat /\ Len(data) \in Nat
      BY <1>3, FilData
    <3> HIDE DEF f, data
    <3>3. QED BY <3>1, <3>2, Zenon
  <2>2. (n = 0 \/ p + n <= l) /\ l <= CLUSTERS /\ data \in Seq(Clusters)
    <3>1. (n = 0 \/ p + n <= q) /\ q <= l
      BY <1>3, <1>4, <2>1, FilData
    <3>2. n = 0 \/ p + n <= l
      BY <3>1
    <3>3. QED BY <1>3, <2>1, <3>2, FilData
  <2>3. got' = SubSeq(data, p + 1, p + n)
    BY <1>1, <2>1
  <2> HIDE DEF data
  <2>4. QED BY <2>1, <2>2, <2>3, PieceType
<1>8. o.n \in Answerable /\ o.n # -1
  BY <1>6, ClustersAssumption, TableAssumption DEF Answerable, Larger, FD_BASE
<1>9. CASE o.fr = "OK"
  <2>1. ret' = o.n /\ errno' = errno
    BY <1>1, <1>9 DEF Returns
  <2>2. AnswersInv'
    BY <1>1, <1>7, <1>8, <2>1, MountedType DEF AnswersInv, _read, Answerable, Larger, FD_BASE, Errnos, ErrnoOf, Contents, Clusters
  <2>3. QED BY <1>5, <1>8, <2>1, <2>2, NoRefusal DEF Done
<1>10. CASE o.fr # "OK"
  <2>1. ret' = -1 /\ errno' = ff_to_errno(o.fr)
    BY <1>1, <1>10 DEF Fails
  <2>2. AnswersInv'
    BY <1>1, <1>7, <2>1, ErrnoFacts, MountedType DEF AnswersInv, _read
  <2>3. Refusal
    <3>1. CASE o.fr = "DISK_ERR"
      BY <2>1, <3>1, ErrnoFacts, NoRefusal
    <3>2. CASE o.fr = "DENIED"
      BY <1>2, <1>5, <1>6, <3>2, SlotRefusal
    <3>3. QED BY <1>6, <1>10, <3>1, <3>2
  <2>4. QED BY <1>5, <2>2, <2>3 DEF Done
<1>11. QED BY <1>9, <1>10


LEMMA Answered ==
  ASSUME AnswersInv, NEW fr, NEW n \in Answerable, Answers(fr, n),
         ensure_mounted \/ UNCHANGED g_mounted
  PROVE  AnswersInv'
  BY AnswersTyped, MountedType DEF AnswersInv

LEMMA ClustersAreAnswers == 0 .. CLUSTERS \subseteq Answerable /\ 0 \in Answerable
  BY ClustersAssumption, TableAssumption DEF Answerable, Larger, FD_BASE

LEMMA SlotsAreAnswers == ASSUME NEW i \in Slots PROVE FD_BASE + i \in Answerable
  BY ClustersAssumption, TableAssumption DEF Answerable, Larger, FD_BASE, Slots

LEMMA AppendSeekIsGood ==
  ASSUME NEW v, NEW f, GoodVolume(v), GoodFil(v, f), NEW append, NEW o \in AppendSeek(v, f, append)
  PROVE  /\ o.vol = v /\ GoodFil(v, o.fil) /\ o.fil.name = f.name
         /\ ~o.fil.err => AtStart(o.fil) = AtStart(f)
<1>0. f \in Fil /\ f.objsize \in Nat
  BY FilType DEF GoodFil
<1>1. CASE o.vol = v /\ o.fil = f
  BY <1>1
<1>2. CASE o.vol = v /\ \E p \in 0 .. f.objsize : o.fil = Aborted([f EXCEPT !.fptr = p])
  <2>1. PICK p \in 0 .. f.objsize : o.fil = Aborted([f EXCEPT !.fptr = p])
    BY <1>2
  <2>2. p \in 0 .. CLUSTERS
    BY <1>0, FilFits, ClustersAssumption
  <2>3. QED BY <1>2, <2>1, <2>2, MovedIsGood
<1>3. CASE o.vol = v /\ o.fil = [f EXCEPT !.fptr = f.objsize]
  <2> DEFINE g == [f EXCEPT !.fptr = f.objsize]
  <2>1. /\ g \in Fil /\ g.fptr = f.objsize /\ g.name = f.name /\ g.can = f.can
        /\ g.objsize = f.objsize /\ g.dirty = f.dirty /\ g.err = f.err
    BY <1>0, FilAt
  <2> HIDE DEF g
  <2>2. GoodFil(v, g)
    BY <1>0, <2>1, FilFits DEF GoodFil
  <2>3. AtStart(g) = AtStart(f)
    <3>1. /\ AtStart(g) \in Fil /\ AtStart(g).fptr = 0 /\ AtStart(g).name = f.name
          /\ AtStart(g).can = f.can /\ AtStart(g).objsize = f.objsize
          /\ AtStart(g).dirty = f.dirty /\ AtStart(g).err = f.err
      BY <2>1, FilAt DEF AtStart
    <3>2. /\ AtStart(f) \in Fil /\ AtStart(f).fptr = 0 /\ AtStart(f).name = f.name
          /\ AtStart(f).can = f.can /\ AtStart(f).objsize = f.objsize
          /\ AtStart(f).dirty = f.dirty /\ AtStart(f).err = f.err
      BY <1>0, FilAt DEF AtStart
    <3>3. QED BY <3>1, <3>2, SameFil
  <2>4. QED BY <1>3, <2>1, <2>2, <2>3 DEF g
<1>4. AtTheEnd(v, f, append, o)
  BY AppendSeekOutcomes
<1>5. QED BY <1>1, <1>2, <1>3, <1>4, Zenon DEF AtTheEnd

LEMMA WriteDone ==
  ASSUME FilesInv, AnswersInv, NEW fd, NEW s \in Seq(Clusters), _write(fd, s)
  PROVE  Done
<1>1. PICK i \in fd_get(fd) :
        \E at \in AppendSeek(vol, g_fd[i].f, g_fd[i].append) :
          \E o \in f_write(at.vol, at.fil, s) : Leaves(i, o) /\ Answers(o.fr, o.n)
  BY DEF _write
<1>2. PICK at \in AppendSeek(vol, g_fd[i].f, g_fd[i].append) :
        \E o \in f_write(at.vol, at.fil, s) : Leaves(i, o) /\ Answers(o.fr, o.n)
  BY <1>1
<1>3. PICK o \in f_write(at.vol, at.fil, s) : Leaves(i, o) /\ Answers(o.fr, o.n)
  BY <1>2
<1>4. i \in Slots /\ g_fd[i].used
  BY DEF fd_get
<1>5. GoodVolume(vol) /\ GoodFil(vol, g_fd[i].f)
  BY <1>4 DEF FilesInv, OpenFiles
<1>6. /\ at.vol = vol /\ GoodFil(vol, at.fil)
      /\ ~at.fil.err => AtStart(at.fil) = AtStart(g_fd[i].f)
  BY <1>5, AppendSeekIsGood
<1>7. o \in f_write(vol, at.fil, s)
  BY <1>6
<1>8. Sane(vol, at.fil, o)
  BY <1>5, <1>6, <1>7, WriteIsSane
<1>9. /\ GoodVolume(vol') /\ OpenFiles(vol', g_fd') /\ vol' = o.vol /\ UNCHANGED held
      /\ \A j \in Slots \ {i} : g_fd'[j] = g_fd[j]
      /\ g_fd'[i].f = o.fil
  BY <1>3, <1>4, <1>8, LeavesSlot
<1>10. o.n \in Answerable /\ o.fr \in {"OK", "DENIED", "DISK_ERR"}
       /\ (o.fr = "DENIED" => o.vol = vol /\ o.fil = at.fil)
  BY <1>8, ClustersAreAnswers DEF Sane
<1>11. AnswersInv'
  BY <1>3, <1>10, Answered DEF _write
<1>12. Refusal
  <2>1. CASE o.fr = "DENIED"
    <3>1. ~at.fil.err
      <4>1. SUFFICES ASSUME at.fil.err PROVE FALSE
        OBVIOUS
      <4>2. o = Outcome("DISK_ERR", vol, at.fil, 0)
        BY <1>7, <4>1 DEF f_write
      <4>. QED BY <2>1, <4>2, OutcomeFields
    <3>2. AtStart(g_fd'[i].f) = AtStart(g_fd[i].f) /\ UNCHANGED <<vol, held>>
      BY <1>6, <1>9, <1>10, <2>1, <3>1
    <3>3. QED BY <1>4, <1>9, <3>2, SlotRefusal
  <2>2. CASE o.fr # "DENIED"
    <3>1. ret' # -1 \/ errno' = "EIO"
      BY <1>3, <1>10, <2>2, AnswersTyped
    <3>2. QED BY <3>1, NoRefusal
  <2>3. QED BY <2>1, <2>2
<1>13. QED BY <1>9, <1>11, <1>12 DEF Done

LEMMA SeekDone ==
  ASSUME FilesInv, AnswersInv, NEW fd, NEW offset \in Int, NEW whence, _lseek(fd, offset, whence)
  PROVE  Done
<1>1. PICK i \in fd_get(fd) :
         LET base == Base(g_fd[i].f, whence)
         IN  IF whence \notin {"SET", "CUR", "END"} \/ BeforeStart(base, offset)
              THEN Refuses("EINVAL")
              ELSE \E o \in f_lseek(vol, g_fd[i].f, base + offset) :
                     Leaves(i, o) /\ Answers(o.fr, o.fil.fptr)
  BY DEF _lseek
<1> DEFINE f == g_fd[i].f
           base == Base(f, whence)
<1>2. i \in Slots /\ g_fd[i].used
  BY DEF fd_get
<1>3. GoodVolume(vol) /\ GoodFil(vol, f)
  BY <1>2 DEF FilesInv, OpenFiles
<1>4. CASE Refuses("EINVAL")
  BY <1>4, RefusesIsDone DEF _lseek
<1>5. CASE ~BeforeStart(base, offset) /\ \E o \in f_lseek(vol, f, base + offset) :
             Leaves(i, o) /\ Answers(o.fr, o.fil.fptr)
  <2>1. PICK o \in f_lseek(vol, f, base + offset) : Leaves(i, o) /\ Answers(o.fr, o.fil.fptr)
    BY <1>5
  <2>2. base \in Nat
    BY <1>3, FilData DEF Base
  <2> HIDE DEF base
  <2>3. base + offset \in Nat
    BY <1>5, <2>2 DEF BeforeStart
  <2>4. Sane(vol, f, o) /\ o.fr \in {"OK", "DISK_ERR"}
    BY <1>3, <2>3, SeekIsSane
  <2>5. /\ GoodVolume(vol') /\ OpenFiles(vol', g_fd')
    BY <1>2, <2>1, <2>4, LeavesSlot
  <2>6. GoodVolume(o.vol) /\ GoodFil(o.vol, o.fil)
    BY <2>4 DEF Sane
  <2>7. o.fil.fptr \in 0 .. CLUSTERS
    <3>1. PICK p \in Nat : p = o.fil.fptr /\ p <= CLUSTERS
      BY <2>6, FilData
    <3>2. p \in 0 .. CLUSTERS
      BY <3>1, ClustersAssumption
    <3>3. QED BY <3>1, <3>2
  <2>8. o.fil.fptr \in Answerable
    BY <2>7, ClustersAreAnswers
  <2>9. AnswersInv'
    BY <2>1, <2>8, Answered DEF _lseek
  <2>10. ret' # -1 \/ errno' = "EIO"
    BY <2>1, <2>4, <2>8, AnswersTyped
  <2>11. QED BY <2>5, <2>9, <2>10, NoRefusal DEF Done
<1>6. QED BY <1>1, <1>4, <1>5

LEMMA StatDone ==
  ASSUME FilesInv, AnswersInv, NEW fd, NEW st, _fstat(fd, st)
  PROVE  Done
<1>1. CASE ~st
  BY <1>1, RefusesIsDone DEF _fstat
<1>2. CASE st
  <2>1. PICK i \in fd_get(fd) : Returns(g_fd[i].f.objsize)
    BY <1>2 DEF _fstat
  <2>2. GoodVolume(vol) /\ GoodFil(vol, g_fd[i].f)
    BY DEF FilesInv, OpenFiles, fd_get
  <2>3. g_fd[i].f.objsize \in 0 .. CLUSTERS
    BY <2>2, FilFits, ClustersAssumption
  <2>4. g_fd[i].f.objsize \in Answerable
    BY <2>3, ClustersAreAnswers
  <2>5. Answers("OK", g_fd[i].f.objsize) /\ UNCHANGED <<vol, g_fd, held, g_mounted>>
    BY <1>2, <2>1 DEF Answers, _fstat
  <2>6. AnswersInv'
    BY <2>4, <2>5, Answered
  <2>7. GoodVolume(vol') /\ OpenFiles(vol', g_fd') /\ Refusal
    BY <2>5, UnchangedFiles
  <2>. QED BY <2>6, <2>7 DEF Done
<1>. QED BY <1>1, <1>2

LEMMA StandardDone ==
  ASSUME FilesInv, AnswersInv, Standard
  PROVE  Done
<1>1. Answers("OK", 0) /\ UNCHANGED <<vol, g_fd, held, g_mounted>>
  BY DEF Answers, Standard
<1>2. AnswersInv'
  BY <1>1, ClustersAreAnswers, Answered
<1>3. GoodVolume(vol') /\ OpenFiles(vol', g_fd') /\ Refusal
  BY <1>1, UnchangedFiles
<1>4. QED BY <1>2, <1>3 DEF Done


LEMMA SlotFrees ==
  ASSUME FilesInv, NEW i \in Slots, NEW w, vol' = w, fd_free(i), GoodVolume(w), OthersGood(w, i)
  PROVE  /\ GoodVolume(vol') /\ OpenFiles(vol', g_fd')
         /\ \A j \in Slots \ {i} : g_fd'[j] = g_fd[j]
         /\ g_fd'[i] = FreeSlot
<1>1. \A j \in Slots : g_fd'[j] = IF j = i THEN FreeSlot ELSE g_fd[j]
  BY DEF FilesInv, TableInv, fd_free
<1>2. ASSUME NEW j \in Slots, g_fd'[j].used
      PROVE  GoodFil(vol', g_fd'[j].f) /\ g_fd'[j].append \in BOOLEAN
  <2>1. j # i
    BY <1>1, <1>2, BlankIsFree
  <2>2. g_fd'[j] = g_fd[j]
    BY <1>1, <2>1
  <2>3. g_fd[j].append \in BOOLEAN
    BY <1>2, <2>2 DEF FilesInv, OpenFiles
  <2>4. GoodFil(w, g_fd[j].f)
    BY <1>2, <2>1, <2>2 DEF OthersGood
  <2>5. QED BY <2>2, <2>3, <2>4
<1>3. OpenFiles(vol', g_fd')
  BY <1>2 DEF OpenFiles
<1>4. QED BY <1>1, <1>3

LEMMA CloseDone ==
  ASSUME FilesInv, AnswersInv, NEW fd, _close(fd)
  PROVE  Done
<1>1. PICK i \in fd_get(fd) :
        \E o \in f_close(vol, g_fd[i].f) : vol' = o.vol /\ fd_free(i) /\ Answers(o.fr, 0)
  BY DEF _close
<1>2. PICK o \in f_close(vol, g_fd[i].f) : vol' = o.vol /\ fd_free(i) /\ Answers(o.fr, 0)
  BY <1>1
<1>3. i \in Slots /\ g_fd[i].used
  BY DEF fd_get
<1>4. GoodVolume(vol) /\ GoodFil(vol, g_fd[i].f)
  BY <1>3 DEF FilesInv, OpenFiles
<1>5. GoodVolume(o.vol) /\ Grows(vol, o.vol)
  <2>1. CASE o.vol = vol
    BY <1>4, <2>1, GrowsSelf
  <2>2. CASE o.vol = VolClosed(vol, g_fd[i].f)
    BY <1>4, <2>2, CloseIsGood
  <2>3. QED BY <2>1, <2>2, CloseOutcomes
<1>6. OthersGood(o.vol, i)
  BY <1>4, <1>5, GoodFilGrows DEF FilesInv, OpenFiles, OthersGood
<1>7. GoodVolume(vol') /\ OpenFiles(vol', g_fd')
  BY <1>2, <1>3, <1>5, <1>6, SlotFrees
<1>8. o.fr = "OK" \/ o.fr = "DISK_ERR"
  BY CloseOutcomes
<1>9. AnswersInv'
  BY <1>2, ClustersAreAnswers, Answered DEF _close
<1>10. ret' # -1 \/ errno' = "EIO"
  BY <1>2, <1>8, ClustersAreAnswers, AnswersTyped
<1>11. QED BY <1>7, <1>9, <1>10, NoRefusal DEF Done

\* An open that begins a file finds nobody who has it open.
LEMMA OthersWhenOpened ==
  ASSUME FilesInv, NEW path \in Names, NEW acc, MayOpen(path, acc), NEW i \in Slots,
         OpenResult(vol[path], acc) = "OK"
  PROVE  OthersGood(VolOpened(vol, path, acc), i)
<1> DEFINE w == VolOpened(vol, path, acc)
<1>1. GoodVolume(vol)
  BY DEF FilesInv
<1>2. GoodVolume(w) /\ Elsewhere(vol, w, path) /\ (~Begins(vol, path, acc) => w = vol)
  BY <1>1, OpenIsGood
<1> HIDE DEF w
<1>3. ASSUME NEW j \in Slots \ {i}, g_fd[j].used PROVE GoodFil(w, g_fd[j].f)
  <2> DEFINE f == g_fd[j].f
  <2>1. GoodFil(vol, f)
    BY <1>3 DEF FilesInv, OpenFiles
  <2>2. CASE f.name # path
    <3>1. f.name \in Names
      BY <2>1, FilFits, <1>1
    <3>2. w[f.name] = vol[f.name]
      BY <1>2, <2>2, <3>1 DEF Elsewhere
    <3>3. QED BY <2>1, <3>2 DEF GoodFil
  <2>3. CASE f.name = path
    <3>1. vol[path].kind = "file"
      BY <2>1, <2>3 DEF GoodFil
    <3>2. ~Idle(path)
      BY <1>3, <2>3 DEF Idle, Opened
    <3>3. "CREATE_ALWAYS" \notin acc
      BY <3>2 DEF MayOpen
    <3>4. w = vol
      BY <1>2, <3>1, <3>3 DEF Begins
    <3>5. QED BY <2>1, <3>4
  <2>4. QED BY <2>2, <2>3
<1>4. QED BY <1>3 DEF OthersGood, w

LEMMA OpensSlotDone ==
  ASSUME FilesInv, AnswersInv, ensure_mounted, NEW path \in Names, NEW acc, MayOpen(path, acc),
         NEW append \in BOOLEAN, NEW i \in fd_alloc, OpensSlot(i, path, acc, append)
  PROVE  Done
<1>1. PICK o \in f_open(vol, path, acc) :
        /\ Answers(o.fr, FD_BASE + i)
        /\ IF o.fr = "OK"
             THEN \E at \in AppendSeek(o.vol, o.fil, append) :
                    /\ vol' = at.vol
                    /\ g_fd' = [g_fd EXCEPT ![i] = [used |-> TRUE, append |-> append, f |-> at.fil]]
                    /\ held' = held \cup {FD_BASE + i}
             ELSE vol' = o.vol /\ fd_free(i) /\ UNCHANGED held
  BY DEF OpensSlot
<1>2. i \in Slots /\ ~g_fd[i].used
  BY DEF fd_alloc
<1>3. GoodVolume(vol) /\ FD_BASE + i \in Answerable /\ vol[path] \in Entry
  BY <1>2, SlotsAreAnswers DEF FilesInv, GoodVolume
<1>4. AnswersInv'
  BY <1>1, <1>3, Answered
<1>5. CASE o.fr = "OK"
  <2>1. OpenResult(vol[path], acc) = "OK" /\ o.vol = VolOpened(vol, path, acc)
        /\ o.fil = FilOpened(vol, path, acc)
    BY <1>5, OpenOutcomes, OutcomeFields
  <2>2. GoodVolume(o.vol) /\ GoodFil(o.vol, o.fil)
    BY <1>3, <2>1, OpenIsGood
  <2>3. OthersGood(o.vol, i)
    BY <1>2, <2>1, OthersWhenOpened
  <2>4. PICK at \in AppendSeek(o.vol, o.fil, append) :
               /\ vol' = at.vol
               /\ g_fd' = [g_fd EXCEPT ![i] = [used |-> TRUE, append |-> append, f |-> at.fil]]
    BY <1>1, <1>5
  <2>5. at.vol = o.vol /\ GoodFil(o.vol, at.fil)
    BY <2>2, AppendSeekIsGood
  <2>6. g_fd' = SetSlot(g_fd, i, append, at.fil)
    BY <2>4 DEF SetSlot
  <2>7. GoodVolume(vol') /\ OpenFiles(vol', g_fd')
    BY <1>2, <2>2, <2>3, <2>4, <2>5, <2>6, SlotChanges
  <2>8. ret' # -1
    BY <1>1, <1>3, <1>5, AnswersTyped
  <2>9. QED BY <1>4, <2>7, <2>8, NoRefusal DEF Done
<1>6. CASE o.fr # "OK"
  <2>1. vol' = o.vol /\ fd_free(i) /\ UNCHANGED held
    BY <1>1, <1>6
  <2>2. CASE o.vol = vol
    <3>1. OthersGood(vol, i)
      BY DEF FilesInv, OpenFiles, OthersGood
    <3>2. /\ GoodVolume(vol') /\ OpenFiles(vol', g_fd')
          /\ \A j \in Slots \ {i} : g_fd'[j] = g_fd[j]
          /\ g_fd'[i] = FreeSlot
      BY <1>2, <1>3, <2>1, <2>2, <3>1, SlotFrees
    <3>3. g_fd[i] = FreeSlot
      BY <1>2 DEF FilesInv, TableInv
    <3>4. Refusal
      BY <1>2, <2>1, <2>2, <3>2, <3>3, SlotRefusal
    <3>5. QED BY <1>4, <3>2, <3>4 DEF Done
  <2>3. CASE /\ o.fr = "DISK_ERR" /\ OpenResult(vol[path], acc) = "OK"
             /\ o.vol = VolOpened(vol, path, acc)
    <3>1. GoodVolume(o.vol) /\ OthersGood(o.vol, i)
      BY <1>2, <1>3, <2>3, OpenIsGood, OthersWhenOpened
    <3>2. GoodVolume(vol') /\ OpenFiles(vol', g_fd')
      BY <1>2, <2>1, <3>1, SlotFrees
    <3>3. ret' # -1 \/ errno' = "EIO"
      BY <1>1, <1>3, <2>3, AnswersTyped
    <3>4. QED BY <1>4, <3>2, <3>3, NoRefusal DEF Done
  <2>4. o.vol = vol \/ (/\ o.fr = "DISK_ERR" /\ OpenResult(vol[path], acc) = "OK"
                        /\ o.vol = VolOpened(vol, path, acc))
    BY <1>6, OpenOutcomes, OutcomeFields
  <2>5. QED BY <2>2, <2>3, <2>4
<1>7. QED BY <1>5, <1>6

LEMMA OpenDone ==
  ASSUME FilesInv, AnswersInv, Opening
  PROVE  Done
<1>1. CASE \E path \in Names : _open(path, "3", {})
  <2>1. PICK path \in Names : _open(path, "3", {})
    BY <1>1
  <2>2. "3" \notin DOMAIN Access
    BY DEF Access
  <2>3. Refuses("EINVAL") /\ ensure_mounted
    BY <2>1, <2>2 DEF _open
  <2>4. QED BY <2>3, RefusesIsDone
<1>2. CASE \E path \in Names, access \in DOMAIN Access, oflag \in FLAGS :
             MayOpen(path, Mode(access, oflag)) /\ _open(path, access, oflag)
  <2>1. PICK path \in Names, access \in DOMAIN Access, oflag \in FLAGS :
               MayOpen(path, Mode(access, oflag)) /\ _open(path, access, oflag)
    BY <1>2
  <2>2. ensure_mounted
    BY <2>1 DEF _open
  <2>3. CASE Refuses("EMFILE")
    BY <2>2, <2>3, RefusesIsDone
  <2>4. CASE \E i \in fd_alloc : OpensSlot(i, path, Mode(access, oflag), "APPEND" \in oflag)
    <3>1. ("APPEND" \in oflag) \in BOOLEAN
      BY SMT
    <3>2. QED BY <2>1, <2>2, <2>4, <3>1, OpensSlotDone
  <2>5. QED BY <2>1, <2>3, <2>4 DEF _open
<1>3. QED BY <1>1, <1>2 DEF Opening

LEMMA CallDone ==
  ASSUME FilesInv, AnswersInv, Descriptors
  PROVE  Done
<1>. PICK fd \in Fds :
       \/ BadDescriptor(fd)
       \/ \E n \in COUNTS : _read(fd, n)
       \/ \E n \in COUNTS, d \in Data : _write(fd, [j \in 1 .. n |-> d])
       \/ \E offset \in OFFSETS, whence \in {"SET", "CUR", "END", "3"} : _lseek(fd, offset, whence)
       \/ \E st \in BOOLEAN : _fstat(fd, st)
       \/ _close(fd)
  BY DEF Descriptors
<1>1. CASE BadDescriptor(fd)
  BY <1>1, RefusesIsDone DEF BadDescriptor
<1>2. CASE \E n \in COUNTS : _read(fd, n)
  BY <1>2, ReadDone, CountsAssumption
<1>3. CASE \E n \in COUNTS, d \in Data : _write(fd, [j \in 1 .. n |-> d])
  <2>1. PICK n \in COUNTS, d \in Data : _write(fd, [j \in 1 .. n |-> d])
    BY <1>3
  <2>2. n \in Nat /\ d \in Clusters
    BY CountsAssumption DEF Clusters
  <2>3. [j \in 1 .. n |-> d] \in Seq(Clusters)
    BY <2>2
  <2>4. QED BY <2>1, <2>3, WriteDone
<1>4. CASE \E offset \in OFFSETS, whence \in {"SET", "CUR", "END", "3"} : _lseek(fd, offset, whence)
  BY <1>4, SeekDone, OffsetsAssumption
<1>5. CASE \E st \in BOOLEAN : _fstat(fd, st)
  BY <1>5, StatDone
<1>6. CASE _close(fd)
  BY <1>6, CloseDone
<1>7. QED BY <1>1, <1>2, <1>3, <1>4, <1>5, <1>6

LEMMA OthersElsewhere ==
  ASSUME FilesInv, NEW w, GoodVolume(w),
         \A n \in Names : vol[n].kind = "file" => w[n] = vol[n] \/ Idle(n)
  PROVE  OpenFiles(w, g_fd)
<1>1. ASSUME NEW j \in Slots, g_fd[j].used PROVE GoodFil(w, g_fd[j].f)
  <2> DEFINE f == g_fd[j].f
  <2>1. GoodFil(vol, f) /\ GoodVolume(vol)
    BY <1>1 DEF FilesInv, OpenFiles
  <2>2. f.name \in Names /\ vol[f.name].kind = "file"
    BY <2>1, FilFits DEF GoodFil
  <2>3. ~Idle(f.name)
    BY <1>1 DEF Idle, Opened
  <2>4. w[f.name] = vol[f.name]
    BY <2>2, <2>3
  <2>5. QED BY <2>1, <2>4 DEF GoodFil
<1>2. QED BY <1>1 DEF OpenFiles, FilesInv

\* A call on a name only changes idle files, and a refused one changes nothing.
LEMMA EntryDone ==
  ASSUME FilesInv, AnswersInv, ensure_mounted, NEW o, Changes(o),
         \/ o.vol = vol
         \/ /\ o.fr \in {"OK", "DISK_ERR"} /\ GoodVolume(o.vol)
            /\ \A n \in Names : vol[n].kind = "file" => o.vol[n] = vol[n] \/ Idle(n)
  PROVE  Done
<1>1. vol' = o.vol /\ Answers(o.fr, 0) /\ UNCHANGED <<g_fd, held>>
  BY DEF Changes
<1>2. AnswersInv'
  BY <1>1, ClustersAreAnswers, Answered
<1>3. CASE o.vol = vol
  <2>1. GoodVolume(vol') /\ OpenFiles(vol', g_fd') /\ Refusal
    BY <1>1, <1>3, UnchangedFiles
  <2>2. QED BY <1>2, <2>1 DEF Done
<1>4. CASE /\ o.fr \in {"OK", "DISK_ERR"} /\ GoodVolume(o.vol)
           /\ \A n \in Names : vol[n].kind = "file" => o.vol[n] = vol[n] \/ Idle(n)
  <2>1. OpenFiles(o.vol, g_fd)
    BY <1>4, OthersElsewhere
  <2>2. ret' # -1 \/ errno' = "EIO"
    BY <1>1, <1>4, ClustersAreAnswers, AnswersTyped
  <2>3. QED BY <1>1, <1>2, <1>4, <2>1, <2>2, NoRefusal DEF Done
<1>5. QED BY <1>3, <1>4

LEMMA EntriesDone ==
  ASSUME FilesInv, AnswersInv, Entries
  PROVE  Done
<1>0. GoodVolume(vol)
  BY DEF FilesInv
<1>1. PICK path \in Names :
        \/ Idle(path) /\ _unlink(path)
        \/ _mkdir(path)
        \/ \E new \in Names : Idle(path) /\ _rename(path, new)
  BY DEF Entries
<1>2. CASE Idle(path) /\ _unlink(path)
  <2>1. PICK o \in f_unlink(vol, path) : Changes(o)
    BY <1>2 DEF _unlink
  <2>2. \/ o.vol = vol
        \/ o.fr \in {"OK", "DISK_ERR"} /\ GoodVolume(o.vol) /\ Elsewhere(vol, o.vol, path)
    BY <1>0, UnlinkOutcomes
  <2>3. ensure_mounted
    BY <1>2 DEF _unlink
  <2>4. QED BY <1>2, <2>1, <2>2, <2>3, EntryDone DEF Elsewhere
<1>3. CASE _mkdir(path)
  <2>1. PICK o \in f_mkdir(vol, path) : Changes(o)
    BY <1>3 DEF _mkdir
  <2>2. \/ o.vol = vol
        \/ /\ o.fr \in {"OK", "DISK_ERR"} /\ GoodVolume(o.vol) /\ Elsewhere(vol, o.vol, path)
           /\ vol[path].kind = "none"
    BY <1>0, MkdirOutcomes
  <2>3. ensure_mounted
    BY <1>3 DEF _mkdir
  <2>4. QED BY <2>1, <2>2, <2>3, EntryDone DEF Elsewhere
<1>4. CASE \E new \in Names : Idle(path) /\ _rename(path, new)
  <2>1. PICK new \in Names : Idle(path) /\ _rename(path, new)
    BY <1>4
  <2>2. PICK o \in f_rename(vol, path, new) : Changes(o)
    BY <2>1 DEF _rename
  <2>3. \/ o.vol = vol
        \/ /\ o.fr \in {"OK", "DISK_ERR"} /\ GoodVolume(o.vol) /\ vol[new].kind = "none"
           /\ \A n \in Names \ {path, new} : o.vol[n] = vol[n]
    BY <1>0, RenameOutcomes
  <2>4. ensure_mounted
    BY <2>1 DEF _rename
  <2>5. QED BY <2>1, <2>2, <2>3, <2>4, EntryDone
<1>5. QED BY <1>1, <1>2, <1>3, <1>4


LEMMA FilesInit == Init => FilesInv /\ AnswersInv
<1>. SUFFICES ASSUME Init PROVE FilesInv /\ AnswersInv
  OBVIOUS
<1> DEFINE Old == [kind |-> "file", data |-> <<Junk>>, size |-> 1]
<1>1. TableInv
  BY TableInit
<1>2. Old \in Entry /\ Old.size = 1 /\ Len(Old.data) = 1
  <2>1. <<Junk>> \in Seq(Clusters) /\ Len(<<Junk>>) = 1
    BY DEF Clusters
  <2>2. QED BY <2>1 DEF Entry
<1>3. vol \in [Names -> {None, Old}]
  BY DEF Init
<1> HIDE DEF Old
<1>4. vol \in [Names -> Entry]
  BY <1>2, <1>3, NoneIsGood
<1>5. \A n \in Names : vol[n].size <= Len(vol[n].data)
  <2>1. \A n \in Names : vol[n] = None \/ vol[n] = Old
    BY <1>3
  <2>2. None.size <= Len(None.data) /\ Old.size <= Len(Old.data)
    BY <1>2, NoneIsGood
  <2>3. QED BY <2>1, <2>2
<1>6. FreeClusters(vol) \in Nat
  <2>1. \A n \in Names : vol[n].data \in Seq(Clusters)
    BY <1>4, EntryType
  <2>2. FreeClusters(vol) \in Int /\ FreeClusters(vol) >= 0
    BY <2>1, FreeType DEF Init
  <2>3. QED BY <2>2
<1>7. OpenFiles(vol, g_fd)
  BY BlankIsFree DEF Init, OpenFiles
<1>8. AnswersInv
  <2>1. ret \in Answerable /\ got \in Contents /\ errno \in Errnos /\ g_mounted \in BOOLEAN
    BY ClustersAreAnswers, ContentsType, ErrnoFacts DEF Init
  <2>2. QED BY <2>1 DEF AnswersInv
<1>9. QED BY <1>1, <1>4, <1>5, <1>6, <1>7, <1>8 DEF FilesInv, GoodVolume

LEMMA FilesStep ==
  FilesInv /\ AnswersInv /\ [Next]_vars => FilesInv' /\ AnswersInv' /\ (Refusal \/ UNCHANGED vars)
<1>. SUFFICES ASSUME FilesInv, AnswersInv, [Next]_vars
              PROVE  FilesInv' /\ AnswersInv' /\ (Refusal \/ UNCHANGED vars)
  OBVIOUS
<1>1. TableInv'
  BY TableStep DEF FilesInv
<1>2. CASE Next
  <2>1. Done
    BY <1>2, OpenDone, CallDone, StandardDone, EntriesDone DEF Next
  <2>2. QED BY <1>1, <2>1 DEF Done, FilesInv
<1>3. CASE UNCHANGED vars
  <2>1. UNCHANGED <<vol, g_fd, held>> /\ UNCHANGED <<g_mounted, errno, ret, got>>
    BY <1>3 DEF vars
  <2>2. GoodVolume(vol') /\ OpenFiles(vol', g_fd')
    BY <2>1, UnchangedFiles
  <2>3. AnswersInv'
    BY <2>1 DEF AnswersInv
  <2>4. QED BY <1>1, <1>3, <2>2, <2>3 DEF FilesInv
<1>4. QED BY <1>2, <1>3

\* On every volume, with every table, whatever the disk answers: the files fit
\* the volume, what an open file believes of its size is in the file's clusters,
\* and the calls return what they may.
THEOREM FilesInvariant == Spec => [](FilesInv /\ AnswersInv)
<1>. QED
  BY FilesInit, FilesStep, PTL DEF Spec

LEMMA FilesAreTyped == FilesInv /\ AnswersInv => TypeOK
<1>. SUFFICES ASSUME FilesInv, AnswersInv PROVE TypeOK
  OBVIOUS
<1>1. GoodVolume(vol) /\ TableInv /\ vol \in [Names -> Entry]
  BY DEF FilesInv, GoodVolume
<1>2. ASSUME NEW n \in Names
      PROVE  vol[n] \in [kind : {"none", "file", "dir"}, data : Contents, size : 0 .. CLUSTERS]
  <2>1. vol[n] \in Entry /\ vol[n].data \in Seq(Clusters) /\ vol[n].size \in Nat
    BY <1>1, EntryType
  <2>2. PICK l \in Nat, k \in Nat, s \in Nat :
               l = Len(vol[n].data) /\ k = FreeClusters(vol) /\ s = vol[n].size
    BY <1>1, <2>1, EntryType DEF GoodVolume
  <2>3. l + k <= CLUSTERS
    BY <1>1, <2>2, EntryType, FileFits
  <2>4. s <= l
    BY <1>1, <2>2 DEF GoodVolume
  <2>5. l <= CLUSTERS /\ s \in 0 .. CLUSTERS
    BY <2>3, <2>4, ClustersAssumption
  <2>6. vol[n].data \in Contents /\ vol[n].size \in 0 .. CLUSTERS
    BY <2>1, <2>2, <2>5, ContentsType
  <2>7. QED BY <2>1, <2>6 DEF Entry
<1>3. vol \in [Names -> [kind : {"none", "file", "dir"}, data : Contents, size : 0 .. CLUSTERS]]
  BY <1>1, <1>2
<1>4. ASSUME NEW i \in Slots
      PROVE  LET f == g_fd[i].f
             IN  /\ g_fd[i].used \in BOOLEAN /\ g_fd[i].append \in BOOLEAN
                 /\ g_fd[i].used <=> f.name \in Names
                 /\ f.can \subseteq {"READ", "WRITE"}
                 /\ f.fptr \in 0 .. CLUSTERS /\ f.objsize \in 0 .. CLUSTERS
                 /\ ~f.err => f.fptr <= f.objsize
                 /\ f.dirty \in BOOLEAN /\ f.err \in BOOLEAN
  <2> DEFINE f == g_fd[i].f
  <2>1. CASE g_fd[i].used
    <3>1. GoodFil(vol, f) /\ f \in Fil /\ g_fd[i].append \in BOOLEAN /\ g_fd[i].used \in BOOLEAN
      BY <1>1, <2>1 DEF FilesInv, OpenFiles, GoodFil, TableInv
    <3>2. PICK p \in Nat, q \in Nat :
                 p = f.fptr /\ q = f.objsize /\ p <= CLUSTERS /\ q <= CLUSTERS
      BY <1>1, <3>1, FilFits
    <3>3. p \in 0 .. CLUSTERS /\ q \in 0 .. CLUSTERS
      BY <3>2, ClustersAssumption
    <3>4. f.fptr \in 0 .. CLUSTERS /\ f.objsize \in 0 .. CLUSTERS
      BY <3>2, <3>3
    <3>5. ~f.err => f.fptr <= f.objsize
      BY <3>1 DEF GoodFil
    <3>6. QED BY <2>1, <3>1, <3>4, <3>5, FilType
  <2>2. CASE ~g_fd[i].used
    <3>1. g_fd[i] = FreeSlot
      BY <1>1, <2>2 DEF TableInv
    <3>2. /\ g_fd[i].used = FALSE /\ g_fd[i].append = FALSE /\ f = Closed
      BY <3>1 DEF FreeSlot
    <3>3. /\ f.name = "" /\ f.can = {} /\ f.fptr = 0 /\ f.objsize = 0
          /\ f.dirty = FALSE /\ f.err = FALSE
      <4>1. /\ Closed.name = "" /\ Closed.can = {} /\ Closed.fptr = 0 /\ Closed.objsize = 0
            /\ Closed.dirty = FALSE /\ Closed.err = FALSE
        BY DEF Closed
      <4> HIDE DEF f
      <4>2. QED BY <3>2, <4>1
    <3>4. 0 \in 0 .. CLUSTERS /\ 0 <= 0
      BY ClustersAssumption
    <3>5. QED BY <3>2, <3>3, <3>4, NamesAssumption
  <2>3. QED BY <1>1, <2>1, <2>2 DEF TableInv
<1>5. FreeClusters(vol) \in 0 .. CLUSTERS
  <2>1. \A n \in Names : vol[n].data \in Seq(Clusters)
    BY <1>1, EntryType
  <2>2. FreeClusters(vol) \in Nat /\ FreeClusters(vol) <= CLUSTERS
    BY <1>1, <2>1, FreeType DEF GoodVolume
  <2>3. QED BY <2>2, ClustersAssumption
<1>6. ret \in -1 .. Larger(FD_BASE + FD_MAX - 1, CLUSTERS)
  <2>1. Larger(FD_BASE + FD_MAX - 1, CLUSTERS) \in Nat
    BY ClustersAssumption, TableAssumption DEF Larger, FD_BASE
  <2>2. QED BY <2>1 DEF AnswersInv, Answerable
<1>7. /\ g_mounted \in BOOLEAN /\ got \in Contents
      /\ errno \in {"0", "EINVAL", "EFAULT"} \/ errno \in {ErrnoOf[fr] : fr \in DOMAIN ErrnoOf}
  BY DEF AnswersInv, Errnos
<1>8. DOMAIN g_fd = Slots
  BY <1>1 DEF TableInv
<1>9. QED BY <1>3, <1>4, <1>5, <1>6, <1>7, <1>8 DEF TypeOK

\* However opens, writes, seeks and closes end, a FIL's position is within the
\* size it caches, unless it is aborted, that size within the clusters of its file, and the files
\* within the volume; the calls answer with their count or with -1 and an errno
\* that ff_to_errno knows.
THEOREM TypesAreKept == Spec => []TypeOK
<1>. QED
  BY FilesInvariant, FilesAreTyped, PTL

\* The early returns of the calls in stubs.c, and the refusals of FatFs they pass
\* on, come before anything is changed: no file, no slot and no size, only, where
\* an append had gone to the end first, a position.
THEOREM RefusalsChangeNothing == Spec => RefusedCallsChangeNothing
<1>1. FilesInv /\ AnswersInv /\ [Next]_vars =>
        [(ret' = -1 /\ errno' # "EIO") =>
           /\ UNCHANGED <<vol, held>>
           /\ \A i \in Slots : [g_fd[i].f EXCEPT !.fptr = 0] = [g_fd'[i].f EXCEPT !.fptr = 0]]_vars
  BY FilesStep, Zenon DEF Refusal
<1>. QED
  BY <1>1, FilesInvariant, PTL DEF Spec, RefusedCallsChangeNothing

--------------------------------------------------------------------------------
(* The files of PosixFiles: what the volume and the table stand for.          *)

OpenedIn(tab, path) == {i \in Slots : tab[i].used /\ tab[i].f.name = path}
SizesOf(v, tab, path) == {v[path].size} \cup {tab[i].f.objsize : i \in OpenedIn(tab, path)}
HeldIn(v, tab, path) ==
  SubSeq(v[path].data, 1,
         CHOOSE n \in SizesOf(v, tab, path) : \A m \in SizesOf(v, tab, path) : m <= n)
FilesOf(v, tab) == [n \in Names |-> [kind |-> v[n].kind, data |-> HeldIn(v, tab, n)]]

\* What a close that succeeds will not record.
UnsureOf(v, f) == IF f.dirty THEN 0 ELSE f.objsize - v[f.name].size
Desc(v, append, f) ==
  [name |-> f.name, can |-> f.can, append |-> append, pos |-> f.fptr, unsure |-> UnsureOf(v, f)]
DescOf(v, e) == IF e.used THEN Desc(v, e.append, e.f) ELSE NoDescriptor
DescsOf(v, tab) ==
  [fd \in Fds |-> IF fd - FD_BASE \in Slots THEN DescOf(v, tab[fd - FD_BASE]) ELSE NoDescriptor]

LEMMA ContentIs ==
  /\ \A path : Content(path) = HeldIn(vol, g_fd, path)
  /\ Files = FilesOf(vol, g_fd)
  BY DEF Content, HeldIn, SizesOf, OpenedIn, Opened, Files, FilesOf

LEMMA DescsAre == Descs = DescsOf(vol, g_fd)
  BY DEF Descs, DescsOf, DescOf, Desc, UnsureOf

LEMMA NextFiles == Files' = FilesOf(vol', g_fd') /\ Descs' = DescsOf(vol', g_fd')
<1>1. Files' = FilesOf(vol', g_fd')
  BY DEF Content, HeldIn, SizesOf, OpenedIn, Opened, Files, FilesOf
<1>2. Descs' = DescsOf(vol', g_fd')
  BY DEF Descs, DescsOf, DescOf, Desc, UnsureOf
<1>3. QED BY <1>1, <1>2

LEMMA HeldIs ==
  ASSUME NEW v, NEW tab, NEW path, NEW m \in SizesOf(v, tab, path),
         SizesOf(v, tab, path) \subseteq Nat, \A k \in SizesOf(v, tab, path) : k <= m
  PROVE  HeldIn(v, tab, path) = SubSeq(v[path].data, 1, m)
<1> DEFINE S == SizesOf(v, tab, path)
           c == CHOOSE n \in S : \A k \in S : k <= n
<1>1. c \in S /\ \A k \in S : k <= c
  OBVIOUS
<1> HIDE DEF c
<1>2. c \in Nat /\ m \in Nat /\ c <= m /\ m <= c
  BY <1>1
<1>3. c = m
  BY <1>2
<1>4. HeldIn(v, tab, path) = SubSeq(v[path].data, 1, c)
  BY DEF HeldIn, c
<1>5. QED BY <1>3, <1>4

\* The answers, as PosixFiles gives them.
LEMMA RefusalIs ==
  ASSUME NEW e, e # "EIO", Fails(e), got' = <<>>
  PROVE  Posix!Returns(-1)
<1>1. DiskError' = FALSE
  BY DEF Fails, DiskError
<1>. QED BY <1>1 DEF Fails, Posix!Returns, Posix!Answers

LEMMA AnswerIs ==
  ASSUME NEW fr, NEW n, Answers(fr, n)
  PROVE  /\ fr = "OK" /\ n # -1 => Posix!Returns(n)
         /\ fr \in {"NO_FILE", "DENIED", "EXIST"} => Posix!Returns(-1)
         /\ fr = "DISK_ERR" => Posix!Breaks
<1>1. /\ ff_to_errno("NO_FILE") = "ENOENT" /\ ff_to_errno("DENIED") = "EACCES"
      /\ ff_to_errno("EXIST") = "EEXIST" /\ ff_to_errno("DISK_ERR") = "EIO"
  BY DEF ff_to_errno, ErrnoOf
<1>2. CASE fr = "OK" /\ n # -1
  <2>1. ret' = n /\ got' = <<>> /\ DiskError' = FALSE
    BY <1>2 DEF Answers, Returns, DiskError
  <2>. QED BY <1>2, <2>1 DEF Posix!Returns, Posix!Answers
<1>3. CASE fr \in {"NO_FILE", "DENIED", "EXIST"}
  <2>1. Fails(ff_to_errno(fr)) /\ got' = <<>> /\ ff_to_errno(fr) # "EIO"
    BY <1>1, <1>3 DEF Answers
  <2>. QED BY <1>3, <2>1, RefusalIs
<1>4. CASE fr = "DISK_ERR"
  <2>1. ret' = -1 /\ got' = <<>> /\ DiskError' = TRUE
    BY <1>1, <1>4 DEF Answers, Fails, DiskError
  <2>. QED BY <1>4, <2>1 DEF Posix!Breaks, Posix!Answers
<1>. QED BY <1>2, <1>3, <1>4

\* What f caches is what its directory entry says, or will be written there, or
\* was appended by a call that the disk ended.
Fresh(v, f) ==
  /\ v[f.name].size <= f.objsize
  /\ "WRITE" \notin f.can \/ (~f.dirty /\ ~f.err) => f.objsize = v[f.name].size

LEMMA FreshIsSure ==
  ASSUME NEW v, NEW f, GoodVolume(v), GoodFil(v, f), Fresh(v, f), "WRITE" \notin f.can \/ ~f.err
  PROVE  UnsureOf(v, f) = 0 /\ (~f.dirty => f.objsize = v[f.name].size)
<1>1. f.objsize \in Nat
  BY FilType DEF GoodFil
<1>. QED BY <1>1 DEF Fresh, UnsureOf

\* The caches agree: a file that somebody may write is open only once.
Caches(v, tab) ==
  /\ \A i \in Slots : tab[i].used => Fresh(v, tab[i].f)
  /\ \A i, j \in Slots :
       tab[i].used /\ tab[j].used /\ i # j /\ tab[i].f.name = tab[j].f.name =>
         "WRITE" \notin tab[i].f.can
  /\ \A n \in Names : v[n].kind = "none" => v[n].size = 0

LEMMA HeldOpen ==
  ASSUME NEW v, NEW tab, GoodVolume(v), OpenFiles(v, tab), Caches(v, tab),
         NEW i \in Slots, tab[i].used
  PROVE  LET f == tab[i].f
         IN  HeldIn(v, tab, f.name) = SubSeq(v[f.name].data, 1, f.objsize)
<1> DEFINE f == tab[i].f
           S == SizesOf(v, tab, f.name)
<1>1. GoodFil(v, f) /\ Fresh(v, f)
  BY DEF OpenFiles, Caches
<1>2. f.objsize \in Nat /\ f.name \in Names /\ v[f.name].size \in Nat
  BY <1>1, FilData, EntryType DEF GoodVolume
<1>3. f.objsize \in S
  BY DEF SizesOf, OpenedIn
<1>4. ASSUME NEW k \in S PROVE k \in Nat /\ k <= f.objsize
  <2>1. CASE k = v[f.name].size
    BY <1>1, <1>2, <2>1 DEF Fresh
  <2>2. CASE \E j \in Slots : tab[j].used /\ tab[j].f.name = f.name /\ k = tab[j].f.objsize
    <3>1. PICK j \in Slots : tab[j].used /\ tab[j].f.name = f.name /\ k = tab[j].f.objsize
      BY <2>2
    <3>2. CASE j = i
      BY <1>2, <3>1, <3>2
    <3>3. CASE j # i
      <4>1. "WRITE" \notin tab[j].f.can
        BY <3>1, <3>3 DEF Caches
      <4>2. k = v[f.name].size
        BY <3>1, <4>1 DEF Caches, Fresh
      <4>3. QED BY <1>1, <1>2, <4>2 DEF Fresh
    <3>4. QED BY <3>2, <3>3
  <2>3. QED BY <2>1, <2>2 DEF SizesOf, OpenedIn
<1>5. QED BY <1>3, <1>4, HeldIs

LEMMA HeldIdle ==
  ASSUME NEW v, NEW tab, GoodVolume(v), NEW path \in Names, OpenedIn(tab, path) = {}
  PROVE  HeldIn(v, tab, path) = SubSeq(v[path].data, 1, v[path].size)
<1>1. SizesOf(v, tab, path) = {v[path].size}
  BY DEF SizesOf
<1>2. v[path].size \in Nat
  BY EntryType DEF GoodVolume
<1> DEFINE m == v[path].size
<1>3. /\ m \in SizesOf(v, tab, path) /\ SizesOf(v, tab, path) \subseteq Nat
      /\ \A k \in SizesOf(v, tab, path) : k <= m
  BY <1>1, <1>2
<1> HIDE DEF m
<1>4. HeldIn(v, tab, path) = SubSeq(v[path].data, 1, m)
  BY <1>3, HeldIs
<1>5. QED BY <1>4 DEF m

LEMMA HeldFrame ==
  ASSUME NEW v, NEW tab, NEW w, NEW new, NEW path, w[path] = v[path],
         OpenedIn(new, path) = OpenedIn(tab, path),
         \A i \in OpenedIn(tab, path) : new[i].f.objsize = tab[i].f.objsize
  PROVE  HeldIn(w, new, path) = HeldIn(v, tab, path)
<1>1. SizesOf(w, new, path) = SizesOf(v, tab, path)
  BY DEF SizesOf
<1>2. QED BY <1>1 DEF HeldIn

\* A prefix of a file's clusters.
LEMMA PrefixType ==
  ASSUME NEW data \in Seq(Clusters), NEW n \in Nat, n <= Len(data)
  PROVE  /\ SubSeq(data, 1, n) \in Seq(Clusters) /\ Len(SubSeq(data, 1, n)) = n
         /\ \A j \in 1 .. n : SubSeq(data, 1, n)[j] = data[j]
<1>1. \A j \in 1 .. n : j \in 1 .. Len(data)
  OBVIOUS
<1>2. QED BY <1>1

--------------------------------------------------------------------------------
(* Calls on a descriptor, seen in the files.                                  *)

\* f and v become g and w without disturbing any cache.
Moved(v, f, w, g) ==
  /\ \A n \in Names \ {f.name} : w[n] = v[n]
  /\ w[f.name].kind = v[f.name].kind /\ w[f.name].size = v[f.name].size
  /\ g.name = f.name /\ g.can = f.can
  /\ f.objsize <= g.objsize
  /\ "WRITE" \notin f.can => g.objsize = f.objsize
  /\ (g.objsize = f.objsize /\ g.dirty = f.dirty /\ (f.err => g.err)) \/ g.dirty \/ g.err

\* The table with f in slot i.
Put(tab, i, f) == SetSlot(tab, i, tab[i].append, f)

LEMMA PutSlot ==
  ASSUME TableInv, NEW i \in Slots, NEW f
  PROVE  /\ Put(g_fd, i, f)[i].used /\ Put(g_fd, i, f)[i].append = g_fd[i].append
         /\ Put(g_fd, i, f)[i].f = f
  BY DEF TableInv, SetSlot, Put

LEMMA PutOthers ==
  ASSUME TableInv, NEW i \in Slots, NEW f, NEW j \in Slots, j # i
  PROVE  Put(g_fd, i, f)[j] = g_fd[j]
  BY DEF TableInv, SetSlot, Put

LEMMA MovedCaches ==
  ASSUME FilesInv, Caches(vol, g_fd), NEW i \in Slots, g_fd[i].used, NEW w, NEW g,
         GoodVolume(w), GoodFil(w, g), Moved(vol, g_fd[i].f, w, g)
  PROVE  Caches(w, Put(g_fd, i, g))
<1>0. TableInv
  BY DEF FilesInv
<1> DEFINE new == Put(g_fd, i, g)
           f == g_fd[i].f
<1>1. /\ new[i].used /\ new[i].f = g
      /\ \A j \in Slots : j # i => new[j] = g_fd[j]
  BY <1>0, PutSlot, PutOthers
<1>2. GoodVolume(vol) /\ GoodFil(vol, f) /\ Fresh(vol, f) /\ f.name \in Names
  BY FilData DEF FilesInv, OpenFiles, Caches
<1>3. f.objsize \in Nat /\ g.objsize \in Nat /\ vol[f.name].size \in Nat
  BY <1>2, FilData, EntryType DEF GoodVolume
<1> HIDE DEF new
<1>4. ASSUME NEW j \in Slots, new[j].used PROVE Fresh(w, new[j].f)
  <2>1. CASE j = i
    <3>1. g.name = f.name /\ w[f.name].size = vol[f.name].size /\ f.objsize <= g.objsize
          /\ ("WRITE" \notin g.can => g.objsize = f.objsize /\ "WRITE" \notin f.can)
          /\ ((g.objsize = f.objsize /\ g.dirty = f.dirty /\ (f.err => g.err)) \/ g.dirty \/ g.err)
      BY DEF Moved
    <3>2. w[g.name].size <= g.objsize
      BY <1>2, <1>3, <3>1 DEF Fresh
    <3>3. "WRITE" \notin g.can \/ (~g.dirty /\ ~g.err) => g.objsize = w[g.name].size
      BY <1>2, <3>1 DEF Fresh
    <3>4. QED BY <1>1, <2>1, <3>2, <3>3 DEF Fresh
  <2>2. CASE j # i
    <3>1. new[j] = g_fd[j] /\ g_fd[j].used
      BY <1>1, <1>4, <2>2
    <3>2. Fresh(vol, g_fd[j].f) /\ GoodFil(vol, g_fd[j].f)
      BY <3>1 DEF Caches, FilesInv, OpenFiles
    <3>3. g_fd[j].f.name \in Names
      BY <1>2, <3>2, FilData
    <3>4. w[g_fd[j].f.name].size = vol[g_fd[j].f.name].size
      BY <3>3 DEF Moved
    <3>5. QED BY <3>1, <3>2, <3>4 DEF Fresh
  <2>3. QED BY <2>1, <2>2
<1>5. ASSUME NEW j \in Slots, NEW k \in Slots, new[j].used, new[k].used, j # k,
             new[j].f.name = new[k].f.name
      PROVE  "WRITE" \notin new[j].f.can
  <2>1. /\ g_fd[j].used /\ new[j].f.name = g_fd[j].f.name /\ new[j].f.can = g_fd[j].f.can
        /\ g_fd[k].used /\ new[k].f.name = g_fd[k].f.name
    BY <1>1, <1>5 DEF Moved
  <2>2. QED BY <1>5, <2>1 DEF Caches
<1>6. ASSUME NEW n \in Names, w[n].kind = "none" PROVE w[n].size = 0
  <2>1. w[n].kind = vol[n].kind /\ w[n].size = vol[n].size
    BY DEF Moved
  <2>2. QED BY <1>6, <2>1 DEF Caches
<1>7. QED BY <1>4, <1>5, <1>6 DEF Caches, new

\* What the files are before and after a call on the descriptor of slot i.
LEMMA FileOfSlot ==
  ASSUME FilesInv, Caches(vol, g_fd), NEW i \in Slots, g_fd[i].used
  PROVE  LET f == g_fd[i].f
             c == SubSeq(vol[f.name].data, 1, f.objsize)
         IN  /\ GoodVolume(vol) /\ GoodFil(vol, f) /\ f.name \in Names
             /\ HeldIn(vol, g_fd, f.name) = c
             /\ c \in Seq(Clusters) /\ Len(c) = f.objsize
             /\ FD_BASE + i \in Fds
             /\ DescsOf(vol, g_fd)[FD_BASE + i] = Desc(vol, g_fd[i].append, f)
<1> DEFINE f == g_fd[i].f
<1>1. GoodVolume(vol) /\ GoodFil(vol, f) /\ OpenFiles(vol, g_fd)
  BY DEF FilesInv, OpenFiles
<1>2. f.name \in Names /\ vol[f.name].data \in Seq(Clusters) /\ f.objsize \in Nat
      /\ f.objsize <= Len(vol[f.name].data)
  BY <1>1, FilData
<1>3. HeldIn(vol, g_fd, f.name) = SubSeq(vol[f.name].data, 1, f.objsize)
  BY <1>1, HeldOpen
<1>4. FD_BASE + i \in Fds /\ (FD_BASE + i) - FD_BASE = i
  BY TableAssumption DEF FD_BASE, Fds, Slots
<1>5. DescsOf(vol, g_fd)[FD_BASE + i] = DescOf(vol, g_fd[i])
  BY <1>4 DEF DescsOf
<1>6. DescOf(vol, g_fd[i]) = Desc(vol, g_fd[i].append, f)
  BY DEF DescOf
<1>7. QED BY <1>1, <1>2, <1>3, <1>4, <1>5, <1>6, PrefixType

\* Files and descriptors with one place changed, as PosixFiles writes them.
SetFile(F, p, c) == [F EXCEPT ![p].data = c]
SetPos(D, fd, p) == [D EXCEPT ![fd].pos = p]
SetDesc(D, fd, p, k) == [D EXCEPT ![fd].pos = p, ![fd].unsure = k]

LEMMA NewFiles ==
  ASSUME NEW v, NEW tab, NEW w, NEW new, NEW p \in Names,
         \A n \in Names \ {p} : w[n].kind = v[n].kind /\ HeldIn(w, new, n) = HeldIn(v, tab, n),
         w[p].kind = v[p].kind
  PROVE  FilesOf(w, new) = SetFile(FilesOf(v, tab), p, HeldIn(w, new, p))
<1> DEFINE F == FilesOf(v, tab)
           c == HeldIn(w, new, p)
           G == [F EXCEPT ![p].data = c]
<1>1. F = [n \in Names |-> [kind |-> v[n].kind, data |-> HeldIn(v, tab, n)]]
  BY DEF FilesOf
<1> HIDE DEF F, c
<1>2. G = [n \in Names |-> IF n = p THEN [F[p] EXCEPT !.data = c] ELSE F[n]]
  BY <1>1
<1>3. [F[p] EXCEPT !.data = c] = [kind |-> v[p].kind, data |-> c]
  BY <1>1
<1>4. \A n \in Names : G[n] = [kind |-> w[n].kind, data |-> HeldIn(w, new, n)]
  <2>1. G[p] = [kind |-> w[p].kind, data |-> HeldIn(w, new, p)]
    BY <1>2, <1>3 DEF c
  <2>2. \A n \in Names \ {p} : G[n] = [kind |-> w[n].kind, data |-> HeldIn(w, new, n)]
    BY <1>1, <1>2
  <2>3. QED BY <2>1, <2>2
<1>5. G = [n \in Names |-> G[n]]
  BY <1>2
<1> HIDE DEF G
<1>6. G = [n \in Names |-> [kind |-> w[n].kind, data |-> HeldIn(w, new, n)]]
  BY <1>4, <1>5
<1>7. QED BY <1>6 DEF G, F, c, FilesOf, SetFile

\* A step that leaves the other slots, and the sizes of their files, alone.
Framed(v, tab, w, new, i) ==
  \A j \in Slots \ {i} : new[j] = tab[j] /\ (tab[j].used => w[tab[j].f.name].size = v[tab[j].f.name].size)

LEMMA DescsFrame ==
  ASSUME NEW v, NEW tab, NEW w, NEW new, NEW i \in Slots, Framed(v, tab, w, new, i)
  PROVE  DescsOf(w, new) = [DescsOf(v, tab) EXCEPT ![FD_BASE + i] = DescOf(w, new[i])]
<1> DEFINE D == DescsOf(v, tab)
           E == DescsOf(w, new)
           fd == FD_BASE + i
<1>1. fd \in Fds /\ fd - FD_BASE = i
  BY TableAssumption DEF FD_BASE, Fds, Slots
<1>2. ASSUME NEW x \in Fds \ {fd} PROVE E[x] = D[x]
  <2> DEFINE j == x - FD_BASE
  <2>1. j \in Slots => j \in Slots \ {i}
    BY TableAssumption DEF FD_BASE, Fds, Slots
  <2>2. j \in Slots => DescOf(w, new[j]) = DescOf(v, tab[j])
    BY <2>1 DEF DescOf, Desc, UnsureOf, Framed
  <2>3. /\ E[x] = IF j \in Slots THEN DescOf(w, new[j]) ELSE NoDescriptor
        /\ D[x] = IF j \in Slots THEN DescOf(v, tab[j]) ELSE NoDescriptor
    BY DEF DescsOf
  <2>. QED BY <2>2, <2>3
<1>3. E[fd] = DescOf(w, new[i])
  BY <1>1 DEF DescsOf
<1>4. D = [x \in Fds |-> D[x]] /\ E = [x \in Fds |-> E[x]]
  BY DEF DescsOf
<1> HIDE DEF D, E, fd
<1>5. E = [D EXCEPT ![fd] = DescOf(w, new[i])]
  BY <1>1, <1>2, <1>3, <1>4
<1>. QED BY <1>5 DEF D, E, fd

LEMMA NewDescs ==
  ASSUME TableInv, NEW i \in Slots, g_fd[i].used, NEW g, g.name = g_fd[i].f.name, g.can = g_fd[i].f.can,
         NEW w, \A j \in Slots \ {i} : g_fd[j].used => w[g_fd[j].f.name].size = vol[g_fd[j].f.name].size
  PROVE  DescsOf(w, Put(g_fd, i, g)) =
           SetDesc(DescsOf(vol, g_fd), FD_BASE + i, g.fptr, UnsureOf(w, g))
<1> DEFINE D == DescsOf(vol, g_fd)
           new == Put(g_fd, i, g)
           fd == FD_BASE + i
           p == g.fptr
           k == UnsureOf(w, g)
           e == Desc(w, g_fd[i].append, g)
           h == [D[fd] EXCEPT !.pos = p]
<1>1. /\ new[i].used /\ new[i].f = g /\ new[i].append = g_fd[i].append
      /\ \A j \in Slots : j # i => new[j] = g_fd[j]
  BY PutSlot, PutOthers
<1> HIDE DEF new
<1>2. DescOf(w, new[i]) = e
  BY <1>1 DEF DescOf
<1>3. fd \in Fds /\ fd - FD_BASE = i
  BY TableAssumption DEF FD_BASE, Fds, Slots
<1>4. D[fd] = Desc(vol, g_fd[i].append, g_fd[i].f)
  BY <1>3 DEF DescsOf, DescOf
<1>5. D = [x \in Fds |-> D[x]]
  BY DEF DescsOf
<1>6. DescsOf(w, new) = [D EXCEPT ![fd] = e]
  <2> HIDE DEF e
  <2>1. Framed(vol, g_fd, w, new, i)
    BY <1>1 DEF Framed
  <2>2. QED BY <1>2, <2>1, DescsFrame
<1>7. [h EXCEPT !.unsure = k] = e
  <2>1. D[fd] = [name |-> g.name, can |-> g.can, append |-> g_fd[i].append,
                 pos |-> g_fd[i].f.fptr, unsure |-> UnsureOf(vol, g_fd[i].f)]
    BY <1>4 DEF Desc
  <2>2. e = [name |-> g.name, can |-> g.can, append |-> g_fd[i].append, pos |-> p, unsure |-> k]
    BY DEF Desc
  <2> HIDE DEF k, p, D, fd, e
  <2>3. h = [name |-> g.name, can |-> g.can, append |-> g_fd[i].append, pos |-> p,
             unsure |-> UnsureOf(vol, g_fd[i].f)]
    BY <2>1
  <2> HIDE DEF h
  <2>4. QED BY <2>2, <2>3
<1> HIDE DEF D, fd, p, k, e
<1>8. SetDesc(D, fd, p, k) = [D EXCEPT ![fd] = [h EXCEPT !.unsure = k]]
  BY <1>3, <1>5 DEF SetDesc
<1>9. QED BY <1>6, <1>7, <1>8 DEF D, new, fd, p, k

LEMMA SlotMoves ==
  ASSUME FilesInv, GoodVolume(vol'), OpenFiles(vol', g_fd'), Caches(vol, g_fd),
         NEW i \in Slots, g_fd[i].used, NEW o, Leaves(i, o),
         GoodVolume(o.vol), GoodFil(o.vol, o.fil), Moved(vol, g_fd[i].f, o.vol, o.fil)
  PROVE  LET p == g_fd[i].f.name
         IN  /\ Caches(vol', g_fd')
             /\ Files' = SetFile(Files, p, SubSeq(o.vol[p].data, 1, o.fil.objsize))
             /\ Descs' = SetDesc(Descs, FD_BASE + i, o.fil.fptr, UnsureOf(o.vol, o.fil))
<1> DEFINE f == g_fd[i].f
           g == o.fil
           new == Put(g_fd, i, g)
           p == f.name
<1>0. TableInv /\ GoodVolume(vol) /\ GoodFil(vol, f)
  BY DEF FilesInv, OpenFiles
<1>1. vol' = o.vol /\ g_fd' = Put(g_fd, i, o.fil)
  BY DEF Leaves, Put, SetSlot
<1>2. /\ new[i].used /\ new[i].f = g
      /\ \A j \in Slots : j # i => new[j] = g_fd[j]
  BY <1>0, PutSlot, PutOthers
<1>3. Caches(vol', g_fd')
  BY <1>1, MovedCaches
<1>4. p \in Names /\ g.name = p /\ o.vol[p].kind = vol[p].kind
      /\ \A n \in Names \ {p} : o.vol[n] = vol[n]
  BY <1>0, FilData DEF Moved
<1>5. HeldIn(o.vol, new, p) = SubSeq(o.vol[p].data, 1, g.objsize)
  <2>1. OpenFiles(o.vol, new) /\ Caches(o.vol, new)
    BY <1>1, <1>3
  <2> HIDE DEF new, g, p
  <2>2. HeldIn(o.vol, new, new[i].f.name) = SubSeq(o.vol[new[i].f.name].data, 1, new[i].f.objsize)
    BY <1>2, <2>1, HeldOpen
  <2>3. QED BY <1>2, <1>4, <2>2
<1> HIDE DEF new
<1>6. ASSUME NEW n \in Names \ {p}
      PROVE  o.vol[n].kind = vol[n].kind /\ HeldIn(o.vol, new, n) = HeldIn(vol, g_fd, n)
  <2>1. o.vol[n] = vol[n]
    BY <1>4
  <2>2. ASSUME NEW j \in Slots
        PROVE  /\ (new[j].used /\ new[j].f.name = n) <=> (g_fd[j].used /\ g_fd[j].f.name = n)
               /\ g_fd[j].used /\ g_fd[j].f.name = n => new[j].f.objsize = g_fd[j].f.objsize
    BY <1>2, <1>4
  <2>3. OpenedIn(new, n) = OpenedIn(g_fd, n)
    BY <2>2 DEF OpenedIn
  <2>4. \A j \in OpenedIn(g_fd, n) : new[j].f.objsize = g_fd[j].f.objsize
    BY <2>2 DEF OpenedIn
  <2>5. QED BY <2>1, <2>3, <2>4, HeldFrame
<1>7. FilesOf(o.vol, new) = SetFile(FilesOf(vol, g_fd), p, SubSeq(o.vol[p].data, 1, g.objsize))
  <2>1. FilesOf(o.vol, new) = SetFile(FilesOf(vol, g_fd), p, HeldIn(o.vol, new, p))
    BY <1>4, <1>6, NewFiles
  <2>2. QED BY <2>1, <1>5
<1>8. Files' = SetFile(Files, p, SubSeq(o.vol[p].data, 1, g.objsize))
  BY <1>1, <1>7, ContentIs, NextFiles DEF new
<1>9. DescsOf(o.vol, new) = SetDesc(DescsOf(vol, g_fd), FD_BASE + i, g.fptr, UnsureOf(o.vol, g))
  <2>1. g.name = f.name /\ g.can = f.can
    BY DEF Moved
  <2>2. ASSUME NEW j \in Slots \ {i}, g_fd[j].used
        PROVE  o.vol[g_fd[j].f.name].size = vol[g_fd[j].f.name].size
    <3>1. g_fd[j].f.name \in Names
      BY <2>2, FilData DEF FilesInv, OpenFiles
    <3>2. QED BY <3>1 DEF Moved
  <2> HIDE DEF g
  <2>3. QED BY <1>0, <2>1, <2>2, NewDescs DEF new
<1>10. Descs' = SetDesc(Descs, FD_BASE + i, g.fptr, UnsureOf(o.vol, g))
  BY <1>1, <1>9, DescsAre, NextFiles DEF new
<1>11. QED BY <1>3, <1>8, <1>10

\* The descriptor and the file of slot i, as PosixFiles sees them.
LEMMA PosixView ==
  ASSUME FilesInv, Caches(vol, g_fd), NEW i \in Slots, g_fd[i].used
  PROVE  LET f  == g_fd[i].f
             fd == FD_BASE + i
         IN  /\ fd \in Posix!Opens
             /\ Descs[fd].name = f.name /\ Descs[fd].can = f.can
             /\ Descs[fd].append = g_fd[i].append /\ Descs[fd].pos = f.fptr
             /\ Descs[fd].unsure = UnsureOf(vol, f)
             /\ Posix!Content(fd) = SubSeq(vol[f.name].data, 1, f.objsize)
             /\ Files[f.name].data = SubSeq(vol[f.name].data, 1, f.objsize)
<1> DEFINE f  == g_fd[i].f
           fd == FD_BASE + i
           c  == SubSeq(vol[f.name].data, 1, f.objsize)
<1>1. /\ f.name \in Names /\ HeldIn(vol, g_fd, f.name) = c /\ fd \in Fds
      /\ Descs[fd] = Desc(vol, g_fd[i].append, f)
  BY FileOfSlot, DescsAre
<1> HIDE DEF c, fd
<1>2. Files[f.name].data = c
  BY <1>1, ContentIs DEF FilesOf
<1>3. Descs[fd].name = f.name /\ Descs[fd].can = f.can
      /\ Descs[fd].append = g_fd[i].append /\ Descs[fd].pos = f.fptr
      /\ Descs[fd].unsure = UnsureOf(vol, f)
  BY <1>1 DEF Desc
<1>4. Posix!Content(fd) = c
  BY <1>2, <1>3 DEF Posix!Content
<1>5. fd \in Posix!Opens
  <2>1. Posix!Unopened.name = ""
    BY DEF Posix!Unopened
  <2>2. Descs[fd] # Posix!Unopened
    BY <1>1, <1>3, <2>1, NamesAssumption
  <2>3. QED BY <1>1, <2>2 DEF Posix!Opens
<1>6. QED BY <1>2, <1>3, <1>4, <1>5 DEF c, fd

Extends(c, d) == Len(c) <= Len(d) /\ SubSeq(d, 1, Len(c)) = c

\* What AppendsAtTheEnd says of a step.
Lengthens ==
  \A i \in Slots :
    (g_fd[i].used /\ g_fd[i].append /\ g_fd'[i].used /\ g_fd'[i].f # g_fd[i].f) =>
      LET path == g_fd[i].f.name
      IN /\ Len(Content(path)) <= Len(Content(path)')
         /\ SubSeq(Content(path)', 1, Len(Content(path))) = Content(path)

\* What every step keeps and does.
Kept == Caches(vol', g_fd') /\ Posix!Next /\ Lengthens

LEMMA FileIs ==
  ASSUME NEW p \in Names
  PROVE  Content(p) = Files[p].data
  BY DEF Files

LEMMA NextFileIs ==
  ASSUME NEW p \in Names
  PROVE  Content(p)' = Files'[p].data
  BY DEF Files

LEMMA SlotLengthens ==
  ASSUME FilesInv, NEW i \in Slots, g_fd[i].used, \A j \in Slots \ {i} : g_fd'[j] = g_fd[j],
         g_fd'[i].f.name = g_fd[i].f.name,
         g_fd[i].append /\ g_fd'[i].f # g_fd[i].f =>
           Extends(Files[g_fd[i].f.name].data, Files'[g_fd[i].f.name].data)
  PROVE  Lengthens
<1> DEFINE p == g_fd[i].f.name
<1>1. p \in Names
  BY FilData DEF FilesInv, OpenFiles
<1>2. ASSUME NEW j \in Slots, g_fd[j].append, g_fd'[j].f # g_fd[j].f
      PROVE  LET path == g_fd[j].f.name
             IN /\ Len(Content(path)) <= Len(Content(path)')
                /\ SubSeq(Content(path)', 1, Len(Content(path))) = Content(path)
  <2>1. j = i
    BY <1>2
  <2>2. Content(g_fd[i].f.name)' = Files'[p].data /\ Content(p) = Files[p].data
    <3>1. Content(g_fd[i].f.name)' = Files'[g_fd'[i].f.name].data
      <4>1. g_fd'[i].f.name \in Names
        BY <1>1
      <4>2. QED BY <4>1 DEF Files
    <3>2. QED BY <1>1, <3>1, FileIs
  <2>3. Extends(Content(p), Content(g_fd[i].f.name)')
    BY <1>2, <2>1, <2>2
  <2>4. QED BY <2>1, <2>3 DEF Extends
<1>3. QED BY <1>2 DEF Lengthens

\* A call that leaves the volume and the table alone.
LEMMA NothingMoves ==
  ASSUME Caches(vol, g_fd), UNCHANGED <<vol, g_fd>>
  PROVE  Caches(vol', g_fd') /\ Files' = Files /\ Descs' = Descs /\ Lengthens
<1>1. vol' = vol /\ g_fd' = g_fd
  OBVIOUS
<1>2. Caches(vol', g_fd')
  BY <1>1
<1>3. Files' = Files /\ Descs' = Descs
  BY <1>1, NextFiles, ContentIs, DescsAre
<1>4. Lengthens
  BY <1>1 DEF Lengthens
<1>5. QED BY <1>2, <1>3, <1>4

LEMMA FailsUnmoved ==
  ASSUME Caches(vol, g_fd), UNCHANGED <<vol, g_fd>>, Posix!Returns(-1) \/ Posix!Breaks
  PROVE  Kept
<1>1. Caches(vol', g_fd') /\ Files' = Files /\ Descs' = Descs /\ Lengthens
  BY NothingMoves
<1>2. Posix!Fail \/ Posix!Break
  BY <1>1 DEF Posix!Fail, Posix!Break
<1>3. QED BY <1>1, <1>2 DEF Kept, Posix!Next

\* g is f with another position, and perhaps aborted.
SameBut(f, g) ==
  /\ g.name = f.name /\ g.can = f.can /\ g.objsize = f.objsize /\ g.dirty = f.dirty
  /\ f.err => g.err

LEMMA SetToSame ==
  /\ \A p \in Names : SetFile(Files, p, Files[p].data) = Files
  /\ \A fd \in Fds : fd \in Posix!Opens =>
       /\ SetPos(Descs, fd, Descs[fd].pos) = Descs
       /\ \A p : SetDesc(Descs, fd, p, Descs[fd].unsure) = SetPos(Descs, fd, p)
<1>1. ASSUME NEW p \in Names PROVE SetFile(Files, p, Files[p].data) = Files
  <2>1. Files = [n \in Names |-> [kind |-> vol[n].kind, data |-> Content(n)]]
    BY DEF Files
  <2>2. [Files[p] EXCEPT !.data = Files[p].data] = Files[p]
    BY <2>1
  <2>3. SetFile(Files, p, Files[p].data) =
          [n \in Names |-> IF n = p THEN [Files[p] EXCEPT !.data = Files[p].data] ELSE Files[n]]
    BY <2>1 DEF SetFile
  <2>4. Files = [n \in Names |-> Files[n]]
    BY <2>1
  <2>5. QED BY <2>2, <2>3, <2>4
<1>2. ASSUME NEW fd \in Fds, fd \in Posix!Opens
      PROVE  /\ SetPos(Descs, fd, Descs[fd].pos) = Descs
             /\ \A p : SetDesc(Descs, fd, p, Descs[fd].unsure) = SetPos(Descs, fd, p)
  <2>1. Descs = [e \in Fds |-> Descs[e]]
    BY DEF Descs
  <2>2. PICK n, c, a, k, l : Descs[fd] = [name |-> n, can |-> c, append |-> a, pos |-> k, unsure |-> l]
    <3>1. Descs[fd] # NoDescriptor
      BY <1>2 DEF Posix!Opens, Posix!Unopened, NoDescriptor
    <3>2. QED BY <3>1 DEF Descs
  <2>3. [Descs[fd] EXCEPT !.pos = Descs[fd].pos] = Descs[fd]
    BY <2>2
  <2>4. SetPos(Descs, fd, Descs[fd].pos) =
          [e \in Fds |-> IF e = fd THEN [Descs[fd] EXCEPT !.pos = Descs[fd].pos] ELSE Descs[e]]
    BY <2>1 DEF SetPos
  <2>5. ASSUME NEW p PROVE SetDesc(Descs, fd, p, Descs[fd].unsure) = SetPos(Descs, fd, p)
    <3> DEFINE h == [Descs[fd] EXCEPT !.pos = p]
    <3>1. h = [name |-> n, can |-> c, append |-> a, pos |-> p, unsure |-> l]
      BY <2>2
    <3>2. SetPos(Descs, fd, p) = [Descs EXCEPT ![fd] = h]
      BY <2>1 DEF SetPos
    <3>3. SetDesc(Descs, fd, p, Descs[fd].unsure) =
            [Descs EXCEPT ![fd] = [h EXCEPT !.unsure = Descs[fd].unsure]]
      BY <2>1 DEF SetDesc
    <3> HIDE DEF h
    <3>4. [h EXCEPT !.unsure = Descs[fd].unsure] = h
      BY <2>2, <3>1
    <3>5. QED BY <3>2, <3>3, <3>4
  <2>6. QED BY <2>1, <2>3, <2>4, <2>5
<1>3. QED BY <1>1, <1>2

\* What f stands for is the same in w.
SameFile(v, f, w) ==
  /\ \A n \in Names \ {f.name} : w[n] = v[n]
  /\ w[f.name].kind = v[f.name].kind /\ w[f.name].size = v[f.name].size
  /\ SubSeq(w[f.name].data, 1, f.objsize) = SubSeq(v[f.name].data, 1, f.objsize)

LEMMA SameFileSelf == \A f : SameFile(vol, f, vol)
  BY DEF SameFile

\* A call that changes at most the position.
LEMMA Repositions ==
  ASSUME FilesInv, GoodVolume(vol'), OpenFiles(vol', g_fd'), Caches(vol, g_fd),
         NEW i \in Slots, g_fd[i].used, NEW o, Leaves(i, o), GoodVolume(o.vol),
         SameFile(vol, g_fd[i].f, o.vol), GoodFil(o.vol, o.fil), SameBut(g_fd[i].f, o.fil)
  PROVE  /\ Caches(vol', g_fd') /\ Lengthens
         /\ Files' = Files /\ Descs' = SetPos(Descs, FD_BASE + i, o.fil.fptr)
<1> DEFINE f == g_fd[i].f
           p == f.name
           c == SubSeq(vol[p].data, 1, f.objsize)
           fd == FD_BASE + i
<1>1. GoodVolume(vol) /\ GoodFil(vol, f) /\ p \in Names /\ f.objsize \in Nat
  BY FilData DEF FilesInv, OpenFiles
<1>2. Moved(vol, f, o.vol, o.fil)
  <2>1. f.objsize <= o.fil.objsize
    BY <1>1 DEF SameBut
  <2> HIDE DEF f
  <2>2. o.fil.objsize = f.objsize /\ o.fil.dirty = f.dirty /\ (f.err => o.fil.err)
    BY Zenon DEF SameBut, f
  <2>3. QED BY <2>1, <2>2, Zenon DEF Moved, SameBut, SameFile, f
<1>3. /\ Caches(vol', g_fd')
      /\ Files' = SetFile(Files, p, SubSeq(o.vol[p].data, 1, o.fil.objsize))
      /\ Descs' = SetDesc(Descs, fd, o.fil.fptr, UnsureOf(o.vol, o.fil))
  BY <1>1, <1>2, SlotMoves
<1>4. Files[p].data = c /\ fd \in Posix!Opens /\ fd \in Fds /\ Descs[fd].unsure = UnsureOf(vol, f)
  BY PosixView, FileOfSlot
<1>5. Files' = SetFile(Files, p, c)
  BY <1>3 DEF SameBut, SameFile
<1>6. UnsureOf(o.vol, o.fil) = UnsureOf(vol, f)
  BY DEF UnsureOf, SameBut, SameFile
<1>7. Descs' = SetPos(Descs, fd, o.fil.fptr)
  <2> HIDE DEF fd, f
  <2>1. Descs' = SetDesc(Descs, fd, o.fil.fptr, Descs[fd].unsure)
    BY <1>3, <1>4, <1>6
  <2>2. QED BY <1>4, <2>1, SetToSame
<1> HIDE DEF c
<1>8. Files' = Files
  BY <1>1, <1>4, <1>5, SetToSame
<1>9. Lengthens
  <2>1. Extends(c, c)
    <3>1. c \in Seq(Clusters) /\ Len(c) \in Nat
      BY <1>1, FileOfSlot DEF c
    <3>2. SubSeq(c, 1, Len(c)) = c
      BY <3>1
    <3>3. QED BY <3>1, <3>2 DEF Extends
  <2>2. \A j \in Slots \ {i} : g_fd'[j] = g_fd[j]
    BY DEF Leaves, FilesInv, TableInv
  <2>3. g_fd'[i].f = o.fil
    <3>1. g_fd' = Put(g_fd, i, o.fil) /\ TableInv
      BY DEF Leaves, Put, SetSlot, FilesInv
    <3>2. QED BY <3>1, PutSlot
  <2>4. g_fd'[i].f.name = g_fd[i].f.name
    BY <2>3 DEF SameBut
  <2>5. QED BY <1>4, <1>8, <2>1, <2>2, <2>4, SlotLengthens
<1>10. QED BY <1>3, <1>7, <1>8, <1>9

LEMMA PieceOfPrefix ==
  ASSUME NEW data \in Seq(Clusters), NEW q \in Nat, q <= Len(data), NEW p \in Nat, NEW n \in Nat,
         p + n <= q
  PROVE  SubSeq(SubSeq(data, 1, q), p + 1, p + n) = SubSeq(data, p + 1, p + n)
<1> DEFINE c == SubSeq(data, 1, q)
           a == p + 1
           b == p + n
<1>1. c \in Seq(Clusters) /\ Len(c) = q /\ \A j \in 1 .. q : c[j] = data[j]
  BY PrefixType
<1>2. a \in Nat /\ b \in Nat /\ b <= q
  OBVIOUS
<1>3. SubSeq(c, a, b) = [j \in 1 .. b - a + 1 |-> c[a + j - 1]]
  <2> HIDE DEF c, a, b
  <2>1. QED BY <1>1, <1>2
<1>4. SubSeq(data, a, b) = [j \in 1 .. b - a + 1 |-> data[a + j - 1]]
  <2> HIDE DEF a, b
  <2>1. QED BY <1>2
<1>5. \A j \in 1 .. b - a + 1 : a + j - 1 \in 1 .. q
  OBVIOUS
<1>6. \A j \in 1 .. b - a + 1 : c[a + j - 1] = data[a + j - 1]
  <2> HIDE DEF c, a, b
  <2>1. QED BY <1>1, <1>5
<1> HIDE DEF c, a, b
<1>7. SubSeq(c, a, b) = SubSeq(data, a, b)
  BY <1>3, <1>4, <1>6
<1>8. QED BY <1>7 DEF a, b, c

LEMMA EmptyPiece ==
  ASSUME NEW data \in Seq(Clusters), NEW p \in Nat
  PROVE  SubSeq(data, p + 1, p + 0) = <<>>
  OBVIOUS

\* A call on the descriptor of slot i that is refused when, at most, it has gone
\* to the end.
LEMMA FailsInPlace ==
  ASSUME FilesInv, GoodVolume(vol'), OpenFiles(vol', g_fd'), Caches(vol, g_fd),
         NEW i \in Slots, g_fd[i].used, NEW o, Leaves(i, o),
         o.vol = vol, GoodFil(vol, o.fil), SameBut(g_fd[i].f, o.fil),
         \/ o.fil.fptr = g_fd[i].f.fptr
         \/ g_fd[i].append /\ o.fil.fptr = g_fd[i].f.objsize,
         Posix!Returns(-1)
  PROVE  Kept
<1> DEFINE fd == FD_BASE + i
           f  == g_fd[i].f
<1>0. GoodVolume(vol) /\ SameFile(vol, f, vol)
  BY SameFileSelf DEF FilesInv
<1>1. /\ Caches(vol', g_fd') /\ Lengthens
      /\ Files' = Files /\ Descs' = SetPos(Descs, fd, o.fil.fptr)
  BY <1>0, Repositions
<1>2. /\ fd \in Posix!Opens /\ fd \in Fds
      /\ Descs[fd].append = g_fd[i].append /\ Descs[fd].pos = f.fptr
      /\ Posix!Content(fd) = SubSeq(vol[f.name].data, 1, f.objsize)
      /\ Len(SubSeq(vol[f.name].data, 1, f.objsize)) = f.objsize
  BY PosixView, FileOfSlot
<1> HIDE DEF fd
<1>3. CASE o.fil.fptr = f.fptr
  <2>1. Descs' = Descs
    BY <1>1, <1>2, <1>3, SetToSame
  <2>2. Posix!Fail
    BY <1>1, <2>1 DEF Posix!Fail
  <2>3. QED BY <1>1, <2>2 DEF Kept, Posix!Next
<1>4. CASE g_fd[i].append /\ o.fil.fptr = f.objsize
  <2>1. Descs[fd].append /\ Posix!Reposition(fd, Len(Posix!Content(fd)))
    <3>1. Len(Posix!Content(fd)) = o.fil.fptr
      BY <1>2, <1>4
    <3>2. Posix!Reposition(fd, o.fil.fptr)
      BY <1>1 DEF Posix!Reposition, SetPos
    <3>3. QED BY <1>2, <1>4, <3>1, <3>2
  <2>2. Posix!Fail
    BY <1>1, <1>2, <2>1 DEF Posix!Fail
  <2>3. QED BY <1>1, <2>2 DEF Kept, Posix!Next
<1>5. QED BY <1>3, <1>4

\* One that the disk ends may leave the position anywhere.
LEMMA BreaksInPlace ==
  ASSUME FilesInv, GoodVolume(vol'), OpenFiles(vol', g_fd'), Caches(vol, g_fd),
         NEW i \in Slots, g_fd[i].used, NEW o, Leaves(i, o), GoodVolume(o.vol),
         SameFile(vol, g_fd[i].f, o.vol), GoodFil(o.vol, o.fil), SameBut(g_fd[i].f, o.fil),
         Posix!Breaks
  PROVE  Kept
<1> DEFINE fd == FD_BASE + i
<1>1. /\ Caches(vol', g_fd') /\ Lengthens
      /\ Files' = Files /\ Descs' = SetPos(Descs, fd, o.fil.fptr)
  BY Repositions
<1>2. fd \in Posix!Opens
  BY PosixView
<1> HIDE DEF fd
<1>3. o.fil.fptr \in 0 .. CLUSTERS
  BY FilData, ClustersAssumption
<1>4. Posix!Reposition(fd, o.fil.fptr)
  BY <1>1 DEF Posix!Reposition, SetPos
<1>5. Posix!Break
  BY <1>1, <1>2, <1>3, <1>4 DEF Posix!Break
<1>6. QED BY <1>1, <1>5 DEF Kept, Posix!Next

LEMMA AbortedIsSame ==
  ASSUME NEW v, NEW f, GoodFil(v, f)
  PROVE  SameBut(f, f) /\ SameBut(f, Aborted(f)) /\ Aborted(f).fptr = f.fptr /\ GoodFil(v, Aborted(f))
<1>1. f \in Fil
  BY DEF GoodFil
<1>2. QED BY <1>1, FilAborted, AbortedIsGood DEF SameBut

\* Aborted anywhere, f is itself but for that.
LEMMA MovedIsSame ==
  ASSUME NEW v, NEW f, GoodFil(v, f), NEW p \in 0 .. CLUSTERS
  PROVE  LET g == Aborted([f EXCEPT !.fptr = p])
         IN  SameBut(f, g) /\ GoodFil(v, g) /\ g.fptr = p /\ g.err
<1> DEFINE g == Aborted([f EXCEPT !.fptr = p])
<1>1. /\ GoodFil(v, g) /\ g \in Fil /\ g.fptr = p /\ g.name = f.name /\ g.can = f.can
      /\ g.objsize = f.objsize /\ g.dirty = f.dirty /\ g.err
  BY MovedIsGood
<1> HIDE DEF g
<1>2. QED BY <1>1 DEF g, SameBut

LEMMA SmallerStep ==
  ASSUME NEW k \in Nat, NEW p \in Nat, NEW q \in Nat, p <= q
  PROVE  /\ Smaller(k, q - p) \in Nat /\ Smaller(k, q - p) <= q - p
         /\ p + Smaller(k, q - p) \in Nat /\ p + Smaller(k, q - p) <= q
  BY DEF Smaller

LEMMA ReadKept ==
  ASSUME FilesInv, GoodVolume(vol'), OpenFiles(vol', g_fd'), Caches(vol, g_fd),
         NEW fd, NEW count \in Nat, _read(fd, count)
  PROVE  Kept
<1>0. PICK i \in fd_get(fd) :
        \E o \in f_read(vol, g_fd[i].f, count) :
          /\ Leaves(i, o)
          /\ IF o.fr = "OK" THEN Returns(o.n) ELSE Fails(ff_to_errno(o.fr))
          /\ got' = SubSeq(vol[g_fd[i].f.name].data, g_fd[i].f.fptr + 1, g_fd[i].f.fptr + o.n)
  BY DEF _read
<1>1. PICK o \in f_read(vol, g_fd[i].f, count) :
        /\ Leaves(i, o)
        /\ IF o.fr = "OK" THEN Returns(o.n) ELSE Fails(ff_to_errno(o.fr))
        /\ got' = SubSeq(vol[g_fd[i].f.name].data, g_fd[i].f.fptr + 1, g_fd[i].f.fptr + o.n)
  BY <1>0
<1> DEFINE f == g_fd[i].f
           data == vol[f.name].data
           n == Smaller(count, f.objsize - f.fptr)
           g == [f EXCEPT !.fptr = f.fptr + n]
           d == FD_BASE + i
<1>2. i \in Slots /\ g_fd[i].used
  BY DEF fd_get
<1>3. GoodVolume(vol) /\ GoodFil(vol, f) /\ SameFile(vol, f, vol)
  BY <1>2, SameFileSelf DEF FilesInv, OpenFiles
<1>4. f \in Fil /\ f.fptr \in Nat /\ f.objsize \in Nat /\ data \in Seq(Clusters)
      /\ (~f.err => f.fptr <= f.objsize) /\ f.objsize <= Len(data) /\ f.objsize <= CLUSTERS
  BY <1>3, FilData, FilFits DEF GoodFil
<1>5. ASSUME o.fr # "OK", o.n = 0 PROVE got' = <<>> /\ Answers(o.fr, 0)
  <2>1. got' = <<>>
    BY <1>1, <1>4, <1>5, EmptyPiece
  <2>. QED BY <1>1, <1>5, <2>1 DEF Answers
<1>6. ASSUME o.fr = "DISK_ERR", o.n = 0, o.vol = vol, GoodFil(vol, o.fil), SameBut(f, o.fil)
      PROVE  Kept
  <2>1. Posix!Breaks
    BY <1>5, <1>6, AnswerIs
  <2> HIDE DEF f
  <2>2. QED BY <1>1, <1>2, <1>3, <1>6, <2>1, BreaksInPlace DEF f
<1>7. CASE o = Outcome("DENIED", vol, f, 0)
  <2>1. o.fr = "DENIED" /\ o.n = 0 /\ o.vol = vol /\ o.fil = f
    BY <1>7, OutcomeFields
  <2>2. Posix!Returns(-1) /\ SameBut(f, f)
    BY <1>5, <2>1, AnswerIs DEF SameBut
  <2> HIDE DEF f
  <2>3. QED BY <1>1, <1>2, <1>3, <2>1, <2>2, FailsInPlace DEF f
<1>8. CASE ~f.err /\ \E k \in 0 .. n : o = Outcome("DISK_ERR", vol, Aborted([f EXCEPT !.fptr = @ + k]), 0)
  <2>1. PICK k \in 0 .. n : o = Outcome("DISK_ERR", vol, Aborted([f EXCEPT !.fptr = @ + k]), 0)
    BY <1>8
  <2>2. n \in Nat /\ n <= f.objsize - f.fptr
    BY <1>4, <1>8, SmallerStep
  <2> DEFINE p == f.fptr + k
  <2>3. p \in 0 .. CLUSTERS
    <3>1. f.fptr \in Nat /\ f.objsize \in Nat /\ f.objsize <= CLUSTERS
      BY <1>4
    <3> HIDE DEF n, f
    <3>2. QED BY <2>2, <3>1, ClustersAssumption
  <2>4. /\ o.fr = "DISK_ERR" /\ o.vol = vol /\ o.n = 0
        /\ o.fil = Aborted([f EXCEPT !.fptr = p])
    BY <2>1, OutcomeFields
  <2> HIDE DEF p, f
  <2>5. SameBut(f, o.fil) /\ GoodFil(vol, o.fil)
    BY <1>3, <2>3, <2>4, MovedIsSame
  <2>6. QED BY <1>6, <2>4, <2>5
<1>9. CASE "READ" \in f.can /\ ~f.err /\ o = Outcome("OK", vol, g, n)
  <2>0. f.fptr <= f.objsize
    BY <1>4, <1>9
  <2>1. n \in Nat /\ n <= f.objsize - f.fptr /\ f.fptr + n \in Nat /\ f.fptr + n <= f.objsize
    BY <1>4, <2>0, SmallerStep
  <2> HIDE DEF n
  <2>2. /\ g \in Fil /\ g.fptr = f.fptr + n /\ g.name = f.name /\ g.can = f.can
        /\ g.objsize = f.objsize /\ g.dirty = f.dirty /\ g.err = f.err
    BY <1>4, <2>1, FilAt
  <2>3. o.fr = "OK" /\ o.vol = vol /\ o.fil = g /\ o.n = n
    BY <1>9, OutcomeFields
  <2> HIDE DEF g
  <2>4. GoodFil(vol, g) /\ SameBut(f, g)
    <3>1. g.fptr <= CLUSTERS
      BY <1>4, <2>1, <2>2, ClustersAssumption
    <3>2. QED BY <1>3, <2>1, <2>2, <3>1 DEF GoodFil, SameBut
  <2>5. /\ Caches(vol', g_fd') /\ Lengthens
        /\ Files' = Files /\ Descs' = SetPos(Descs, d, g.fptr)
    <3> HIDE DEF f
    <3>1. QED BY <1>1, <1>2, <1>3, <2>3, <2>4, Repositions DEF f
  <2>6. /\ d \in Posix!Opens
        /\ Descs[d].can = f.can /\ Descs[d].pos = f.fptr
        /\ Posix!Content(d) = SubSeq(data, 1, f.objsize)
        /\ Len(SubSeq(data, 1, f.objsize)) = f.objsize
    BY <1>2, PosixView, FileOfSlot
  <2>7. ret' = n /\ DiskError' = FALSE
    BY <1>1, <2>1, <2>3 DEF Returns, DiskError
  <2>8. got' = SubSeq(Posix!Content(d), Descs[d].pos + 1, Descs[d].pos + n)
    <3>1. got' = SubSeq(data, f.fptr + 1, f.fptr + n)
      BY <1>1, <2>3
    <3> HIDE DEF data, f
    <3>2. SubSeq(SubSeq(data, 1, f.objsize), f.fptr + 1, f.fptr + n) =
            SubSeq(data, f.fptr + 1, f.fptr + n)
      BY <1>4, <2>1, PieceOfPrefix, ZenonT(60)
    <3>3. QED BY <2>6, <3>1, <3>2
  <2>9. Posix!Reposition(d, Descs[d].pos + n)
    BY <2>2, <2>5, <2>6 DEF Posix!Reposition, SetPos
  <2>10. n \in 0 .. Len(Posix!Content(d)) - Descs[d].pos
    <3>1. Len(Posix!Content(d)) = f.objsize /\ Descs[d].pos = f.fptr
      BY <2>6
    <3>2. n \in 0 .. f.objsize - f.fptr
      BY <1>4, <2>1
    <3>3. QED BY <3>1, <3>2
  <2> HIDE DEF d, f
  <2>11. Posix!Read(d)
    <3>1. "READ" \in Descs[d].can
      BY <1>9, <2>6
    <3>2. QED BY <2>5, <2>7, <2>8, <2>9, <2>10, <3>1 DEF Posix!Read
  <2>12. QED BY <2>5, <2>6, <2>11 DEF Kept, Posix!Next
<1>10. CASE o = Outcome("DISK_ERR", vol, f, 0)
  <2>1. o.fr = "DISK_ERR" /\ o.n = 0 /\ o.vol = vol /\ o.fil = f
    BY <1>10, OutcomeFields
  <2>2. QED BY <1>3, <1>6, <2>1 DEF SameBut
<1>. QED BY <1>7, <1>8, <1>9, <1>10, ReadOutcomes

\* d is c with the first k clusters of s written over it from position p on.
Overlaid(c, p, s, k, d) ==
  /\ d \in Seq(Clusters) /\ Len(d) = Larger(Len(c), p + k)
  /\ \A j \in 1 .. Larger(Len(c), p + k) :
       d[j] = IF j \in p + 1 .. p + k THEN s[j - p] ELSE IF j <= Len(c) THEN c[j] ELSE Junk

LEMMA OverlayWith ==
  ASSUME NEW c \in Seq(Clusters), NEW p \in Nat, NEW k \in Nat, NEW s,
         \A j \in 1 .. k : s[j] \in Clusters
  PROVE  Overlaid(c, p, s, k, Overlay(c, p, s, k))
<1>1. /\ Overlay(c, p, s, k) \in Seq(Clusters)
      /\ Len(Overlay(c, p, s, k)) = Larger(Len(c), p + k)
      /\ \A j \in 1 .. Larger(Len(c), p + k) :
           Overlay(c, p, s, k)[j] = IF j \in p + 1 .. p + k THEN s[j - p]
                                    ELSE IF j <= Len(c) THEN c[j] ELSE Junk
  BY OverlayType, Zenon
<1>2. QED BY <1>1 DEF Overlaid

LEMMA OverlayIs ==
  ASSUME NEW c \in Seq(Clusters), NEW p \in Nat, NEW s \in Seq(Clusters), NEW k \in Nat,
         k <= Len(s)
  PROVE  Overlaid(c, p, s, k, Overlay(c, p, s, k))
<1>1. \A j \in 1 .. k : s[j] \in Clusters
  OBVIOUS
<1>2. QED BY <1>1, OverlayWith

LEMMA AsFunction ==
  ASSUME NEW S, NEW c \in Seq(S)
  PROVE  c = [j \in 1 .. Len(c) |-> c[j]]
  OBVIOUS

\* What a file holds after a write, and after a seek behind its end.
LEMMA WrittenContent ==
  ASSUME NEW data \in Seq(Clusters), NEW q \in Nat, q <= Len(data), NEW p \in Nat, p <= q,
         NEW s \in Seq(Clusters), NEW k \in Nat, k <= Len(s)
  PROVE  SubSeq(Overlay(data, p, s, k), 1, Larger(q, p + k)) =
           Posix!Put(SubSeq(data, 1, q), p, SubSeq(s, 1, k))
<1> DEFINE d == Overlay(data, p, s, k)
           c == SubSeq(data, 1, q)
           t == SubSeq(s, 1, k)
           m == Larger(q, p + k)
           e == SubSeq(d, 1, m)
           u == Posix!Put(c, p, t)
<1>1. /\ d \in Seq(Clusters) /\ Len(d) = Larger(Len(data), p + k)
      /\ \A j \in 1 .. Larger(Len(data), p + k) :
           d[j] = IF j \in p + 1 .. p + k THEN s[j - p]
                  ELSE IF j <= Len(data) THEN data[j] ELSE Junk
  <2>1. Overlaid(data, p, s, k, d)
    BY OverlayIs
  <2> HIDE DEF d
  <2>2. QED BY <2>1 DEF Overlaid
<1>2. c \in Seq(Clusters) /\ Len(c) = q /\ \A j \in 1 .. q : c[j] = data[j]
  BY PrefixType
<1>3. t \in Seq(Clusters) /\ Len(t) = k /\ \A j \in 1 .. k : t[j] = s[j]
  BY PrefixType
<1>4. m \in Nat /\ m <= Larger(Len(data), p + k) /\ q <= m /\ p + k <= m
      /\ (m = q \/ m = p + k)
  BY DEF Larger
<1>5. e \in Seq(Clusters) /\ Len(e) = m /\ \A j \in 1 .. m : e[j] = d[j]
  <2> HIDE DEF d, m
  <2>1. QED BY <1>1, <1>4, PrefixType
<1>6. u = [j \in DOMAIN c \cup (p + 1 .. p + Len(t)) |->
             IF j \in p + 1 .. p + Len(t) THEN t[j - p] ELSE c[j]]
  BY DEF Posix!Put
<1> HIDE DEF d, c, t, m, e, u
<1>7. DOMAIN c \cup (p + 1 .. p + Len(t)) = 1 .. m
  BY <1>2, <1>3, <1>4
<1>8. ASSUME NEW j \in 1 .. m PROVE e[j] = IF j \in p + 1 .. p + Len(t) THEN t[j - p] ELSE c[j]
  <2>1. j \in 1 .. Larger(Len(data), p + k) /\ j \in Nat
    BY <1>4 DEF Larger
  <2>2. CASE j \in p + 1 .. p + k
    <3>1. j - p \in 1 .. k
      BY <2>1, <2>2
    <3>2. e[j] = s[j - p]
      BY <1>1, <1>5, <2>1, <2>2
    <3>3. t[j - p] = s[j - p]
      BY <1>3, <3>1
    <3>4. QED BY <1>3, <2>2, <3>2, <3>3
  <2>3. CASE ~(j \in p + 1 .. p + k)
    <3>1. j \in 1 .. q /\ j <= Len(data)
      BY <1>4, <2>1, <2>3
    <3>2. e[j] = data[j]
      BY <1>1, <1>5, <2>1, <2>3, <3>1
    <3>3. QED BY <1>2, <1>3, <2>3, <3>1, <3>2
  <2>4. QED BY <2>2, <2>3
<1>9. e = [j \in 1 .. m |-> IF j \in p + 1 .. p + Len(t) THEN t[j - p] ELSE c[j]]
  BY <1>5, <1>8
<1>10. e = u
  BY <1>6, <1>7, <1>9
<1>11. QED BY <1>10 DEF e, u, c, t, d, m

\* c with the clusters the seek to p found behind it.
Reached(d, q, p) == [j \in 1 .. p - q |-> d[q + j]]

LEMMA JoinedIs ==
  ASSUME NEW c \in Seq(Clusters), NEW t \in Seq(Clusters)
  PROVE  c \o t = [j \in 1 .. Len(c) + Len(t) |-> IF j <= Len(c) THEN c[j] ELSE t[j - Len(c)]]
<1>1. PICK m \in Nat, n \in Nat : m = Len(c) /\ n = Len(t)
  OBVIOUS
<1>2. c \o t \in Seq(Clusters) /\ Len(c \o t) = m + n
  BY <1>1
<1>3. c \o t = [j \in 1 .. m + n |-> (c \o t)[j]]
  <2> DEFINE u == c \o t
  <2>1. u \in Seq(Clusters) /\ Len(u) = m + n
    BY <1>2
  <2> HIDE DEF u
  <2>2. u = [j \in 1 .. Len(u) |-> u[j]]
    BY <2>1, AsFunction
  <2>3. QED BY <2>1, <2>2 DEF u
<1>4. \A j \in 1 .. m + n : (c \o t)[j] = IF j <= m THEN c[j] ELSE t[j - m]
  BY <1>1
<1>5. QED BY <1>1, <1>3, <1>4

LEMMA SoughtContent ==
  ASSUME NEW data \in Seq(Clusters), NEW q \in Nat, q <= Len(data), NEW p \in Nat
  PROVE  LET d == Overlay(data, p, <<>>, 0)
         IN  /\ Reached(d, q, p) \in [1 .. p - q -> Clusters]
             /\ SubSeq(d, 1, Larger(q, p)) = SubSeq(data, 1, q) \o Reached(d, q, p)
<1> DEFINE d == Overlay(data, p, <<>>, 0)
           c == SubSeq(data, 1, q)
           m == Larger(q, p)
           e == SubSeq(d, 1, m)
           t == Reached(d, q, p)
<1>1. /\ d \in Seq(Clusters) /\ Len(d) = Larger(Len(data), p)
      /\ \A j \in 1 .. Larger(Len(data), p) : j <= Len(data) => d[j] = data[j]
  <2>1. 0 \in Nat /\ \A j \in 1 .. 0 : <<>>[j] \in Clusters
    OBVIOUS
  <2>2. /\ d \in Seq(Clusters) /\ Len(d) = Larger(Len(data), p + 0)
        /\ \A j \in 1 .. Larger(Len(data), p + 0) :
             d[j] = IF j \in p + 1 .. p + 0 THEN <<>>[j - p]
                    ELSE IF j <= Len(data) THEN data[j] ELSE Junk
    BY <2>1, OverlayType
  <2> HIDE DEF d
  <2>3. p + 0 = p /\ p + 1 .. p = {}
    OBVIOUS
  <2>4. QED BY <2>2, <2>3
<1>2. c \in Seq(Clusters) /\ Len(c) = q /\ \A j \in 1 .. q : c[j] = data[j]
  BY PrefixType
<1>3. m \in Nat /\ m <= Larger(Len(data), p) /\ q <= m /\ p <= m /\ (m = q \/ m = p)
  BY DEF Larger
<1>4. e \in Seq(Clusters) /\ Len(e) = m /\ \A j \in 1 .. m : e[j] = d[j]
  <2> HIDE DEF d, m
  <2>1. QED BY <1>1, <1>3, PrefixType
<1> HIDE DEF d, c, m, e
<1>5. 1 .. p - q = 1 .. m - q /\ m - q \in Nat
  BY <1>3
<1>6. ASSUME NEW j \in 1 .. m - q PROVE q + j \in 1 .. m /\ d[q + j] \in Clusters
  <2>1. q + j \in 1 .. m /\ q + j \in 1 .. Len(d)
    BY <1>1, <1>3, <1>5
  <2>2. QED BY <1>1, <2>1
<1>7. t = [j \in 1 .. m - q |-> d[q + j]]
  BY <1>5 DEF Reached
<1>8. t \in [1 .. p - q -> Clusters] /\ t \in Seq(Clusters) /\ Len(t) = m - q
  BY <1>5, <1>6, <1>7, SMTT(30)
<1>9. c \o t = [j \in 1 .. Len(c) + Len(t) |-> IF j <= Len(c) THEN c[j] ELSE t[j - Len(c)]]
  <2> HIDE DEF t
  <2>1. QED BY <1>2, <1>8, JoinedIs
<1>10. Len(c) + Len(t) = m
  BY <1>2, <1>3, <1>8
<1>11. ASSUME NEW j \in 1 .. m PROVE e[j] = IF j <= Len(c) THEN c[j] ELSE t[j - Len(c)]
  <2>1. CASE j <= q
    <3>1. j \in 1 .. q /\ j \in 1 .. Larger(Len(data), p) /\ j <= Len(data)
      <4>1. PICK l \in Nat : l = Len(data)
        OBVIOUS
      <4>2. q <= l /\ j \in Nat /\ j >= 1
        BY <1>3, <4>1
      <4>3. Larger(l, p) \in Int /\ l <= Larger(l, p)
        BY DEF Larger
      <4>4. QED BY <2>1, <4>1, <4>2, <4>3
    <3>2. e[j] = data[j] /\ c[j] = data[j]
      BY <1>1, <1>2, <1>4, <3>1
    <3>3. QED BY <1>2, <2>1, <3>2
  <2>2. CASE ~(j <= q)
    <3>1. j - q \in 1 .. m - q /\ q + (j - q) = j
      BY <1>3, <2>2
    <3>2. t[j - q] = d[j]
      BY <1>7, <3>1
    <3>3. QED BY <1>2, <1>4, <2>2, <3>2
  <2>3. QED BY <2>1, <2>2
<1>12. e = c \o t
  <2>1. e = [j \in 1 .. m |-> IF j <= Len(c) THEN c[j] ELSE t[j - Len(c)]]
    <3> HIDE DEF t
    <3>1. QED BY <1>4, <1>11
  <2>2. QED BY <1>9, <1>10, <2>1
<1>13. QED BY <1>8, <1>12 DEF e, c, d, m

LEMMA LongerExtends ==
  ASSUME NEW c \in Seq(Clusters), NEW t \in Seq(Clusters)
  PROVE  Extends(c, c \o t)
  BY DEF Extends

LEMMA SetFileIs ==
  ASSUME NEW p \in Names, NEW c
  PROVE  SetFile(Files, p, c)[p].data = c
<1>1. Files = [n \in Names |-> [kind |-> vol[n].kind, data |-> Content(n)]]
  BY DEF Files
<1>2. SetFile(Files, p, c)[p] = [Files[p] EXCEPT !.data = c]
  BY <1>1 DEF SetFile
<1>3. [Files[p] EXCEPT !.data = c] = [kind |-> vol[p].kind, data |-> c]
  BY <1>1
<1>4. QED BY <1>2, <1>3

\* A call on the descriptor of slot i that makes of its file c.
LEMMA MoveKeeps ==
  ASSUME FilesInv, GoodVolume(vol'), OpenFiles(vol', g_fd'), Caches(vol, g_fd),
         NEW i \in Slots, g_fd[i].used, NEW o, Leaves(i, o),
         GoodVolume(o.vol), GoodFil(o.vol, o.fil), Moved(vol, g_fd[i].f, o.vol, o.fil),
         NEW c, c = SubSeq(o.vol[g_fd[i].f.name].data, 1, o.fil.objsize),
         g_fd[i].append =>
           Extends(SubSeq(vol[g_fd[i].f.name].data, 1, g_fd[i].f.objsize), c)
  PROVE  /\ Caches(vol', g_fd') /\ Lengthens
         /\ Files' = SetFile(Files, g_fd[i].f.name, c)
         /\ Descs' = SetDesc(Descs, FD_BASE + i, o.fil.fptr, UnsureOf(o.vol, o.fil))
<1> DEFINE p == g_fd[i].f.name
<1>1. /\ Caches(vol', g_fd')
      /\ Files' = SetFile(Files, p, c)
      /\ Descs' = SetDesc(Descs, FD_BASE + i, o.fil.fptr, UnsureOf(o.vol, o.fil))
  BY SlotMoves
<1>2. p \in Names
  BY FilData DEF FilesInv, OpenFiles
<1>3. Lengthens
  <2>1. Files'[p].data = c /\ Files[p].data = SubSeq(vol[p].data, 1, g_fd[i].f.objsize)
    BY <1>1, <1>2, SetFileIs, PosixView
  <2>2. \A j \in Slots \ {i} : g_fd'[j] = g_fd[j]
    BY DEF Leaves, FilesInv, TableInv
  <2>3. g_fd'[i].f = o.fil
    <3>1. g_fd' = Put(g_fd, i, o.fil) /\ TableInv
      BY DEF Leaves, Put, SetSlot, FilesInv
    <3>2. QED BY <3>1, PutSlot
  <2>4. g_fd'[i].f.name = g_fd[i].f.name
    BY <2>3 DEF Moved
  <2>5. g_fd[i].append => Extends(Files[p].data, Files'[p].data)
    BY <2>1
  <2>6. QED BY <2>2, <2>4, <2>5, SlotLengthens
<1>4. QED BY <1>1, <1>3

\* f and v become h and w when the file becomes d, and at least p clusters long.
GrowsTo(v, f, d, p, w, h) ==
  Moved(v, f, w, h) /\ w[f.name].data = d /\ h.objsize = Larger(f.objsize, p)

\* What makes a file longer, or an error after it, moves its FIL.
LEMMA GrownMoves ==
  ASSUME NEW v, NEW f, NEW at, GoodVolume(v), GoodFil(v, f), SameBut(f, at),
         NEW d, NEW p \in Nat, NEW b \in BOOLEAN, NEW w, NEW g, Grown(v, at, d, p, b, w, g),
         NEW h, SameBut(g, h),
         "WRITE" \notin f.can => p <= f.objsize,
         b \/ h.err \/ (p <= f.objsize /\ b = f.dirty)
  PROVE  GrowsTo(v, f, d, p, w, h)
<1>1. f.objsize \in Nat
  BY FilData
<1>2. /\ at.name = f.name /\ at.can = f.can /\ at.objsize = f.objsize /\ at.dirty = f.dirty
      /\ h.name = g.name /\ h.can = g.can /\ h.objsize = g.objsize /\ h.dirty = g.dirty
  BY DEF SameBut
<1>3. /\ \A n \in Names \ {f.name} : w[n] = v[n]
      /\ w[f.name].data = d /\ w[f.name].size = v[f.name].size
      /\ w[f.name].kind = v[f.name].kind
      /\ h.name = f.name /\ h.objsize = Larger(f.objsize, p) /\ h.can = f.can /\ h.dirty = b
  BY <1>2 DEF Grown
<1>4. f.objsize <= Larger(f.objsize, p) /\ (p <= f.objsize => Larger(f.objsize, p) = f.objsize)
  BY <1>1 DEF Larger
<1>5. "WRITE" \notin f.can => h.objsize = f.objsize
  BY <1>3, <1>4
<1>6. (h.objsize = f.objsize /\ h.dirty = f.dirty /\ (f.err => h.err)) \/ h.dirty \/ h.err
  <2>1. f.err => h.err
    BY Zenon DEF SameBut, Grown
  <2>2. CASE b
    BY <1>3, <2>2, Zenon
  <2>3. CASE p <= f.objsize /\ b = f.dirty
    BY <1>3, <1>4, <2>1, <2>3, Zenon
  <2>. QED BY <2>2, <2>3
<1>7. QED BY <1>3, <1>4, <1>5, <1>6 DEF Moved, GrowsTo

LEMMA WrittenExtends ==
  ASSUME NEW data \in Seq(Clusters), NEW q \in Nat, q <= Len(data),
         NEW s \in Seq(Clusters), NEW k \in Nat, k <= Len(s)
  PROVE  Extends(SubSeq(data, 1, q), SubSeq(Overlay(data, q, s, k), 1, Larger(q, q + k)))
<1> DEFINE d == Overlay(data, q, s, k)
           c == SubSeq(data, 1, q)
           m == Larger(q, q + k)
           e == SubSeq(d, 1, m)
<1>0. PICK l \in Nat : l = Len(data)
  OBVIOUS
<1>1. /\ d \in Seq(Clusters) /\ Len(d) = Larger(l, q + k)
      /\ \A j \in 1 .. Larger(l, q + k) :
           d[j] = IF j \in q + 1 .. q + k THEN s[j - q]
                  ELSE IF j <= l THEN data[j] ELSE Junk
  <2>1. Overlaid(data, q, s, k, d)
    BY OverlayIs
  <2> HIDE DEF d
  <2>2. QED BY <1>0, <2>1 DEF Overlaid
<1>2. c \in Seq(Clusters) /\ Len(c) = q /\ \A j \in 1 .. q : c[j] = data[j]
  BY PrefixType
<1>3. m \in Nat /\ m <= Larger(l, q + k) /\ q <= m /\ q <= l
  BY <1>0 DEF Larger
<1>4. e \in Seq(Clusters) /\ Len(e) = m /\ \A j \in 1 .. m : e[j] = d[j]
  <2> HIDE DEF d, m
  <2>1. QED BY <1>0, <1>1, <1>3, PrefixType
<1> HIDE DEF d, c, m, e
<1>5. \A j \in 1 .. q : j \in 1 .. m /\ j \in 1 .. Larger(l, q + k) /\ j <= l
  BY <1>3 DEF Larger
<1>6. ASSUME NEW j \in 1 .. q PROVE e[j] = c[j]
  <2>1. j \in 1 .. m /\ j \in 1 .. Larger(l, q + k) /\ j <= l
    BY <1>5
  <2>2. ~(j \in q + 1 .. q + k)
    OBVIOUS
  <2>3. d[j] = data[j]
    BY <1>1, <2>1, <2>2
  <2>4. QED BY <1>2, <1>4, <2>1, <2>3
<1>7. SubSeq(e, 1, q) \in Seq(Clusters) /\ Len(SubSeq(e, 1, q)) = q
      /\ \A j \in 1 .. q : SubSeq(e, 1, q)[j] = e[j]
  BY <1>3, <1>4, PrefixType
<1>8. SubSeq(e, 1, q) = c
  <2> DEFINE x == SubSeq(e, 1, q)
  <2>1. x = [j \in 1 .. Len(x) |-> x[j]] /\ c = [j \in 1 .. Len(c) |-> c[j]]
    BY <1>2, <1>7, AsFunction
  <2> HIDE DEF x
  <2>2. Len(x) = q /\ \A j \in 1 .. q : x[j] = c[j]
    BY <1>6, <1>7 DEF x
  <2>3. x = c
    BY <1>2, <2>1, <2>2
  <2>4. QED BY <2>3 DEF x
<1>9. QED BY <1>2, <1>3, <1>4, <1>8 DEF Extends, c, d, e, m

LEMMA PrefixOfData ==
  ASSUME NEW S, NEW s \in Seq(S), NEW k \in Nat, k <= Len(s)
  PROVE  SubSeq(s, 1, k) \in [1 .. k -> S] /\ Len(SubSeq(s, 1, k)) = k
<1>1. \A j \in 1 .. k : j \in 1 .. Len(s)
  OBVIOUS
<1>2. SubSeq(s, 1, k) = [j \in 1 .. k |-> s[j]]
  OBVIOUS
<1>3. \A j \in 1 .. k : s[j] \in S
  BY <1>1
<1>4. SubSeq(s, 1, k) \in [1 .. k -> S]
  BY <1>2, <1>3
<1>5. Len(SubSeq(s, 1, k)) = k
  OBVIOUS
<1>6. QED BY <1>4, <1>5

\* What a write appended and did not record.
LEMMA WrittenUnsure ==
  ASSUME NEW q \in Nat, NEW p \in Nat, NEW m, NEW b \in BOOLEAN, ~b => m = q
  PROVE  LET u == IF b THEN 0 ELSE Larger(q, p) - m
         IN  u \in {0, p - q} /\ u >= 0
  BY DEF Larger

\* What a write of k clusters of s leaves, hard error or not.
LEMMA WritesKept ==
  ASSUME FilesInv, GoodVolume(vol'), OpenFiles(vol', g_fd'), Caches(vol, g_fd),
         NEW i \in Slots, g_fd[i].used, NEW o, Leaves(i, o),
         NEW at, GoodFil(vol, at), SameBut(g_fd[i].f, at), "WRITE" \in at.can, ~at.err,
         at.fptr = IF g_fd[i].append THEN g_fd[i].f.objsize ELSE g_fd[i].f.fptr,
         NEW s \in Seq(Data), NEW k \in 0 .. CLUSTERS, k <= Len(s), k <= Room(vol, at),
         NEW b \in BOOLEAN, o.vol = WrittenVol(vol, at, s, k),
         \/ b /\ Posix!Returns(k) /\ o.fil = WrittenFil(at, k, b)
         \/ b = at.dirty /\ Posix!Breaks /\ o.fil = Aborted(WrittenFil(at, k, b))
  PROVE  Kept
<1> DEFINE f == g_fd[i].f
           q == f.objsize
           data == vol[f.name].data
           d == Overlay(data, at.fptr, s, k)
           p == at.fptr + k
           c == SubSeq(d, 1, Larger(q, p))
           g == WrittenFil(at, k, b)
           w == WrittenVol(vol, at, s, k)
           fd == FD_BASE + i
           t == SubSeq(s, 1, k)
           u == UnsureOf(o.vol, o.fil)
<1>1. GoodVolume(vol) /\ GoodFil(vol, f) /\ Fresh(vol, f) /\ ~f.err
  BY DEF FilesInv, OpenFiles, Caches, SameBut
<1>2. /\ f.fptr \in Nat /\ q \in Nat /\ f.fptr <= q /\ q <= Len(data) /\ data \in Seq(Clusters)
      /\ f.name \in Names
  BY <1>1, FilData
<1>3. at.name = f.name /\ at.can = f.can /\ at.fptr \in Nat /\ at.fptr <= q
      /\ (g_fd[i].append => at.fptr = q)
  BY <1>2 DEF SameBut
<1>4. k \in Nat /\ s \in Seq(Clusters)
  BY ClustersAssumption DEF Clusters
<1>5. Grown(vol, at, d, p, b, w, g)
  <2>1. vol[at.name].data = data
    BY <1>3
  <2> HIDE DEF w, g, p, f, data, d
  <2>2. Grown(vol, at, Overlay(vol[at.name].data, at.fptr, s, k), at.fptr + k, b,
              WrittenVol(vol, at, s, k), WrittenFil(at, k, b))
    BY <1>1, <1>4, WrittenIsGood
  <2>3. QED BY <2>1, <2>2 DEF w, g, p, d
<1>6. /\ SameBut(g, o.fil) /\ o.fil.fptr = p /\ GoodVolume(o.vol) /\ GoodFil(o.vol, o.fil)
      /\ b \/ o.fil.err
  <2>1. GoodVolume(w) /\ GoodFil(w, g) /\ g.fptr = p
    BY <1>5 DEF Grown
  <2> HIDE DEF g, w
  <2>2. SameBut(g, g) /\ SameBut(g, Aborted(g)) /\ Aborted(g).fptr = g.fptr /\ GoodFil(w, Aborted(g))
    BY <2>1, AbortedIsSame
  <2>3. o.vol = w /\ (o.fil = g \/ o.fil = Aborted(g))
    BY DEF g, w
  <2>4. g \in Fil
    BY <2>1 DEF GoodFil
  <2>5. b \/ o.fil.err
    <3>1. Aborted(g).err
      BY <2>4, FilAborted
    <3>2. b \/ o.fil = Aborted(g)
      BY DEF g
    <3>. QED BY <3>1, <3>2
  <2>6. QED BY <2>1, <2>2, <2>3, <2>5
<1>7. /\ Moved(vol, f, o.vol, o.fil) /\ o.vol[f.name].data = d
      /\ o.fil.objsize = Larger(q, p)
  <2>1. p \in Nat /\ o.vol = w
    BY <1>3, <1>4
  <2>2. "WRITE" \notin f.can => p <= f.objsize
    BY <1>3
  <2>3. SameBut(f, at) /\ SameBut(g, o.fil)
    BY <1>6
  <2> DEFINE h == o.fil
  <2>4. b \/ h.err \/ (p <= f.objsize /\ b = f.dirty)
    BY <1>6
  <2> HIDE DEF f, d, p, w, g, h
  <2>5. SameBut(g, h)
    BY <2>3 DEF h
  <2>6. GrowsTo(vol, f, d, p, w, h)
    BY <1>1, <1>5, <2>1, <2>2, <2>3, <2>4, <2>5, GrownMoves
  <2>7. QED BY <2>1, <2>6 DEF GrowsTo, h
<1>8. g_fd[i].append => Extends(SubSeq(data, 1, q), c)
  <2>1. ASSUME g_fd[i].append PROVE Extends(SubSeq(data, 1, q), c)
    <3>1. d = Overlay(data, q, s, k) /\ p = q + k
      BY <1>3, <2>1
    <3> HIDE DEF f, data, q, d, p
    <3>2. Extends(SubSeq(data, 1, q), SubSeq(Overlay(data, q, s, k), 1, Larger(q, q + k)))
      BY <1>2, <1>4, WrittenExtends
    <3>3. QED BY <3>1, <3>2
  <2>2. QED BY <2>1
<1>9. /\ Caches(vol', g_fd') /\ Lengthens
      /\ Files' = SetFile(Files, f.name, c)
      /\ Descs' = SetDesc(Descs, fd, p, u)
  <2>1. c = SubSeq(o.vol[f.name].data, 1, o.fil.objsize)
    BY <1>7
  <2> HIDE DEF c, p, d
  <2>2. /\ Caches(vol', g_fd') /\ Lengthens
        /\ Files' = SetFile(Files, f.name, c)
        /\ Descs' = SetDesc(Descs, fd, o.fil.fptr, u)
    BY <1>6, <1>7, <1>8, <2>1, MoveKeeps
  <2>3. QED BY <1>6, <2>2
<1>10. c = Posix!Put(SubSeq(data, 1, q), at.fptr, t)
  <2> HIDE DEF f, data, q
  <2>1. QED BY <1>2, <1>3, <1>4, WrittenContent
<1>11. /\ fd \in Posix!Opens /\ Descs[fd].name = f.name /\ Descs[fd].can = f.can
       /\ Descs[fd].append = g_fd[i].append /\ Descs[fd].pos = f.fptr
       /\ Descs[fd].unsure = UnsureOf(vol, f) /\ fd \in Fds
       /\ Posix!Content(fd) = SubSeq(data, 1, q)
       /\ Len(SubSeq(data, 1, q)) = q
  BY PosixView, FileOfSlot
<1>12. t \in [1 .. k -> Data] /\ Len(t) = k
  BY <1>4, PrefixOfData
<1>13. UnsureOf(vol, f) = 0 /\ (~f.dirty => q = vol[f.name].size)
  BY <1>1, FreshIsSure
<1>14. u = IF b THEN 0 ELSE Larger(q, p) - vol[f.name].size
  <2>1. o.fil.name = f.name /\ o.fil.dirty = b
    BY <1>3, <1>5, <1>6 DEF Grown, SameBut
  <2>2. o.vol[f.name].size = vol[f.name].size
    BY <1>7 DEF Moved
  <2> HIDE DEF f
  <2>3. QED BY <1>7, <2>1, <2>2, Zenon DEF UnsureOf
<1>15. \/ Posix!Returns(k) /\ Posix!Reposition(fd, p)
       \/ /\ Posix!Breaks
          /\ u \in {0, p - q} /\ u >= 0
          /\ Descs' = [Descs EXCEPT ![fd].pos = p, ![fd].unsure = u]
  <2>1. CASE b /\ Posix!Returns(k)
    <3>1. u = 0
      BY <1>14, <2>1
    <3> HIDE DEF fd, p, u, f
    <3>2. Descs' = SetPos(Descs, fd, p)
      BY <1>9, <1>11, <1>13, <3>1, SetToSame
    <3>3. QED BY <2>1, <3>2 DEF Posix!Reposition, SetPos
  <2>2. CASE b = at.dirty /\ Posix!Breaks
    <3>1. ~b => vol[f.name].size = q
      BY <1>13, <2>2 DEF SameBut
    <3>2. p \in Nat
      BY <1>3, <1>4
    <3> HIDE DEF fd, p, u, f
    <3>3. u \in {0, p - q} /\ u >= 0
      BY <1>2, <1>14, <3>1, <3>2, WrittenUnsure
    <3>4. QED BY <1>9, <2>2, <3>3 DEF SetDesc
  <2>. QED BY <2>1, <2>2
<1>16. Posix!Write(fd, t)
  <2>1. p = at.fptr + Len(t) /\ p - q = at.fptr + Len(t) - Len(Posix!Content(fd))
    <3>1. Len(Posix!Content(fd)) = q /\ Len(t) = k
      BY <1>11, <1>12
    <3>2. q \in Nat /\ at.fptr \in Nat /\ k \in Nat
      BY <1>2, <1>3, <1>4
    <3> HIDE DEF t, fd, q
    <3>3. QED BY <3>1, <3>2
  <2> HIDE DEF fd, t, c, p, u
  <2>2. at.fptr = IF Descs[fd].append THEN Len(Posix!Content(fd)) ELSE Descs[fd].pos
    BY <1>11
  <2>3. "WRITE" \in Descs[fd].can
    BY <1>3, <1>11
  <2>4. Files' = [Files EXCEPT ![Descs[fd].name].data = Posix!Put(Posix!Content(fd), at.fptr, t)]
    BY <1>9, <1>10, <1>11 DEF SetFile
  <2>5. \/ Posix!Returns(Len(t)) /\ Posix!Reposition(fd, at.fptr + Len(t))
        \/ /\ Posix!Breaks
           /\ \E l \in {0, at.fptr + Len(t) - Len(Posix!Content(fd))} :
                l >= 0 /\ Descs' = [Descs EXCEPT ![fd].pos = at.fptr + Len(t), ![fd].unsure = l]
    BY <1>12, <1>15, <2>1
  <2>6. QED BY <2>2, <2>3, <2>4, <2>5 DEF Posix!Write
<1>17. Posix!Next
  <2> HIDE DEF fd, t
  <2>1. \E m \in 0 .. CLUSTERS : \E x \in [1 .. m -> Data] : Posix!Write(fd, x)
    BY <1>12, <1>16
  <2>2. QED BY <1>11, <2>1 DEF Posix!Next
<1>18. QED BY <1>9, <1>17 DEF Kept

\* The position a write begins at.
LEMMA AppendSeekPlaces ==
  ASSUME NEW v, NEW f, GoodVolume(v), GoodFil(v, f), NEW append \in BOOLEAN,
         NEW o \in AppendSeek(v, f, append)
  PROVE  /\ o.vol = v /\ GoodFil(v, o.fil) /\ SameBut(f, o.fil)
         /\ ~f.err /\ f.fptr = 0 => o.fil.fptr \in IF append THEN 0 .. f.objsize ELSE {0}
         /\ ~o.fil.err => o.fil.fptr = IF append THEN f.objsize ELSE f.fptr
<1>1. o.vol = v /\ GoodFil(v, o.fil)
  BY AppendSeekIsGood
<1>2. f \in Fil /\ f.objsize \in Nat /\ f.objsize \in 0 .. f.objsize /\ f.objsize \in 0 .. CLUSTERS
  BY FilData, FilFits, ClustersAssumption DEF GoodFil
<1>3. CASE (~append \/ f.err) /\ o.fil = f
  BY <1>1, <1>3 DEF SameBut
<1>4. CASE append /\ ~f.err /\ \E p \in 0 .. f.objsize : o.fil = Aborted([f EXCEPT !.fptr = p])
  <2>1. PICK p \in 0 .. f.objsize : o.fil = Aborted([f EXCEPT !.fptr = p])
    BY <1>4
  <2>2. p \in 0 .. CLUSTERS
    BY <1>2, ClustersAssumption
  <2>3. SameBut(f, o.fil) /\ o.fil.fptr = p /\ o.fil.err
    BY <2>1, <2>2, MovedIsSame
  <2>. QED BY <1>1, <1>4, <2>3
<1>5. CASE append /\ ~f.err /\ o.fil = [f EXCEPT !.fptr = f.objsize]
  <2>1. SameBut(f, o.fil) /\ o.fil.fptr = f.objsize
    BY <1>2, <1>5, FilAt DEF SameBut
  <2>. QED BY <1>1, <1>2, <1>5, <2>1
<1>6. AtTheEnd(v, f, append, o)
  BY AppendSeekOutcomes
<1>. QED BY <1>3, <1>4, <1>5, <1>6, Zenon DEF AtTheEnd

LEMMA WriteKept ==
  ASSUME FilesInv, GoodVolume(vol'), OpenFiles(vol', g_fd'), Caches(vol, g_fd),
         NEW fd, NEW s \in Seq(Data), _write(fd, s)
  PROVE  Kept
<1>0. PICK i \in fd_get(fd) :
        \E at \in AppendSeek(vol, g_fd[i].f, g_fd[i].append) :
          \E o \in f_write(at.vol, at.fil, s) : Leaves(i, o) /\ Answers(o.fr, o.n)
  BY DEF _write
<1>1. PICK at \in AppendSeek(vol, g_fd[i].f, g_fd[i].append) :
        \E o \in f_write(at.vol, at.fil, s) : Leaves(i, o) /\ Answers(o.fr, o.n)
  BY <1>0
<1>2. PICK o \in f_write(at.vol, at.fil, s) : Leaves(i, o) /\ Answers(o.fr, o.n)
  BY <1>1
<1> DEFINE f == g_fd[i].f
           h == at.fil
           n == Smaller(Len(s), Room(vol, h))
<1>3. i \in Slots /\ g_fd[i].used
  BY DEF fd_get
<1>4. GoodVolume(vol) /\ GoodFil(vol, f) /\ g_fd[i].append \in BOOLEAN /\ SameFile(vol, f, vol)
  BY <1>3, SameFileSelf DEF FilesInv, OpenFiles
<1>5. /\ at.vol = vol /\ GoodFil(vol, h) /\ SameBut(f, h)
      /\ ~h.err => h.fptr = IF g_fd[i].append THEN f.objsize ELSE f.fptr
  BY <1>4, AppendSeekPlaces
<1>6. s \in Seq(Clusters)
  <2>1. Data \subseteq Clusters
    BY DEF Clusters
  <2>2. QED BY <2>1
<1>7. o \in f_write(vol, h, s)
  BY <1>5
<1> HIDE DEF f, h, n
<1>8. ~h.err => n \in 0 .. CLUSTERS /\ n <= Len(s) /\ n <= Room(vol, h) /\ Room(vol, h) \in Nat
  BY <1>4, <1>5, <1>6, RoomType DEF n
<1>9. ASSUME NEW k \in Nat, k <= n, NEW b \in BOOLEAN, "WRITE" \in h.can, ~h.err,
             o.vol = WrittenVol(vol, h, s, k),
             \/ b /\ Posix!Returns(k) /\ o.fil = WrittenFil(h, k, b)
             \/ b = h.dirty /\ Posix!Breaks /\ o.fil = Aborted(WrittenFil(h, k, b))
      PROVE  Kept
  <2>1. k \in 0 .. CLUSTERS /\ k <= Len(s) /\ k <= Room(vol, h)
    <3>1. PICK l \in Nat, r \in Nat : l = Len(s) /\ r = Room(vol, h)
      BY <1>6, <1>8, <1>9
    <3>2. n \in Nat /\ n <= CLUSTERS /\ n <= l /\ n <= r
      BY <1>8, <1>9, <3>1, ClustersAssumption
    <3>3. QED BY <1>9, <3>1, <3>2, ClustersAssumption
  <2>2. h.fptr = IF g_fd[i].append THEN g_fd[i].f.objsize ELSE g_fd[i].f.fptr
    BY <1>5, <1>9 DEF f
  <2>3. QED BY <1>2, <1>3, <1>5, <1>9, <2>1, <2>2, WritesKept DEF f
<1>10. CASE o = Outcome("DISK_ERR", vol, h, 0) /\ h.err
  <2>1. o.fr = "DISK_ERR" /\ o.vol = vol /\ o.fil = h
    BY <1>10, OutcomeFields
  <2>2. Posix!Breaks
    BY <1>2, <2>1, AnswerIs
  <2>. QED BY <1>2, <1>3, <1>4, <1>5, <2>1, <2>2, BreaksInPlace DEF f
<1>11. CASE o = Outcome("DENIED", vol, h, 0) /\ ~h.err
  <2>1. o.fr = "DENIED" /\ o.vol = vol /\ o.fil = h
    BY <1>11, OutcomeFields
  <2>2. Posix!Returns(-1)
    BY <1>2, <2>1, AnswerIs
  <2>3. \/ o.fil.fptr = g_fd[i].f.fptr
        \/ g_fd[i].append /\ o.fil.fptr = g_fd[i].f.objsize
    BY <1>5, <1>11, <2>1 DEF f
  <2>4. GoodFil(vol, o.fil) /\ SameBut(g_fd[i].f, o.fil) /\ Leaves(i, o) /\ o.vol = vol
    BY <1>2, <1>5, <2>1 DEF f
  <2>. QED BY <1>3, <2>2, <2>3, <2>4, FailsInPlace
<1>12. CASE /\ "WRITE" \in h.can /\ ~h.err
            /\ o = Outcome("OK", WrittenVol(vol, h, s, n), WrittenFil(h, n, TRUE), n)
  <2> DEFINE w == WrittenVol(vol, h, s, n)
             g == WrittenFil(h, n, TRUE)
  <2>0. o = Outcome("OK", w, g, n)
    BY <1>12
  <2> HIDE DEF w, g
  <2>fields. o.fr = "OK" /\ o.vol = w /\ o.fil = g /\ o.n = n
    BY <2>0, OutcomeFields
  <2>1. o.fr = "OK" /\ o.vol = WrittenVol(vol, h, s, n) /\ o.fil = WrittenFil(h, n, TRUE) /\ o.n = n
    BY <2>fields DEF w, g
  <2>2. n \in Nat /\ n <= n /\ n # -1
    BY <1>8, <1>12, ClustersAssumption
  <2>3. Posix!Returns(n)
    BY <1>2, <2>1, <2>2, AnswerIs
  <2>4. QED BY <1>9, <1>12, <2>1, <2>2, <2>3
<1>13. CASE /\ "WRITE" \in h.can /\ ~h.err
            /\ \E k \in 0 .. n :
                 o = Outcome("DISK_ERR", WrittenVol(vol, h, s, k), Aborted(WrittenFil(h, k, h.dirty)), 0)
  <2>1. PICK k \in 0 .. n :
          o = Outcome("DISK_ERR", WrittenVol(vol, h, s, k), Aborted(WrittenFil(h, k, h.dirty)), 0)
    BY <1>13
  <2>2. /\ o.fr = "DISK_ERR" /\ o.vol = WrittenVol(vol, h, s, k)
        /\ o.fil = Aborted(WrittenFil(h, k, h.dirty))
    BY <2>1, OutcomeFields
  <2>3. k \in Nat /\ k <= n /\ h.dirty \in BOOLEAN
    <3>1. h.dirty \in BOOLEAN
      BY <1>5, FilType DEF GoodFil
    <3>. QED BY <1>8, <1>13, <3>1, ClustersAssumption
  <2>4. Posix!Breaks
    BY <1>2, <2>2, AnswerIs
  <2>5. QED BY <1>9, <1>13, <2>2, <2>3, <2>4
<1>14. \/ o = Outcome("DISK_ERR", vol, h, 0) /\ h.err
       \/ o = Outcome("DENIED", vol, h, 0) /\ "WRITE" \notin h.can /\ ~h.err
       \/ /\ "WRITE" \in h.can /\ ~h.err
          /\ o = Outcome("OK", WrittenVol(vol, h, s, n), WrittenFil(h, n, TRUE), n)
       \/ /\ "WRITE" \in h.can /\ ~h.err
          /\ \E k \in 0 .. n :
               o = Outcome("DISK_ERR", WrittenVol(vol, h, s, k), Aborted(WrittenFil(h, k, h.dirty)), 0)
  BY <1>4, <1>5, <1>6, <1>7, WriteOutcomes DEF n
<1>15. QED BY <1>10, <1>11, <1>12, <1>13, <1>14

LEMMA FcnIsSeq ==
  ASSUME NEW S, NEW n \in Nat, NEW t \in [1 .. n -> S]
  PROVE  t \in Seq(S)
  OBVIOUS

\* What a seek to p leaves.
LEMMA SeeksKept ==
  ASSUME FilesInv, GoodVolume(vol'), OpenFiles(vol', g_fd'), Caches(vol, g_fd),
         NEW i \in Slots, g_fd[i].used, ~g_fd[i].f.err, NEW o, Leaves(i, o), NEW p \in Nat,
         p <= Len(vol[g_fd[i].f.name].data) + FreeClusters(vol),
         "WRITE" \notin g_fd[i].f.can => p <= g_fd[i].f.objsize,
         o.vol = SoughtVol(vol, g_fd[i].f, p),
         o.fil \in {SoughtFil(g_fd[i].f, p), Aborted(SoughtFil(g_fd[i].f, p))},
         Posix!Returns(p) \/ Posix!Breaks
  PROVE  Kept
<1> DEFINE f == g_fd[i].f
           q == f.objsize
           data == vol[f.name].data
           d == Overlay(data, p, <<>>, 0)
           c == SubSeq(data, 1, q)
           e == SubSeq(d, 1, Larger(q, p))
           t == Reached(d, q, p)
           g == SoughtFil(f, p)
           w == SoughtVol(vol, f, p)
           b == f.dirty \/ p > f.objsize
           fd == FD_BASE + i
           u == UnsureOf(o.vol, o.fil)
<1>1. GoodVolume(vol) /\ GoodFil(vol, f) /\ Fresh(vol, f)
  BY DEF FilesInv, OpenFiles, Caches
<1>2. /\ q \in Nat /\ q <= Len(data) /\ data \in Seq(Clusters) /\ f.name \in Names
      /\ Len(data) \in Nat /\ FreeClusters(vol) \in Nat /\ Len(data) + FreeClusters(vol) <= CLUSTERS
  BY <1>1, FilData, FilFits
<1>3. Grown(vol, f, d, p, b, w, g)
  BY <1>1, SoughtIsGood
<1>4. o.fil.fptr = p /\ GoodVolume(o.vol) /\ GoodFil(o.vol, o.fil) /\ SameBut(g, o.fil)
  <2>1. GoodVolume(w) /\ GoodFil(w, g) /\ g.fptr = p
    BY <1>3 DEF Grown
  <2> HIDE DEF g, w
  <2>2. SameBut(g, g) /\ SameBut(g, Aborted(g)) /\ Aborted(g).fptr = g.fptr /\ GoodFil(w, Aborted(g))
    BY <2>1, AbortedIsSame
  <2>3. o.vol = w /\ (o.fil = g \/ o.fil = Aborted(g))
    BY DEF g, w
  <2>. QED BY <2>1, <2>2, <2>3
<1>5. GrowsTo(vol, f, d, p, w, o.fil)
  <2>1. b \in BOOLEAN
    <3>1. f.dirty \in BOOLEAN
      BY <1>1, FilType DEF GoodFil
    <3> HIDE DEF f
    <3>2. QED BY <3>1, Zenon
  <2>2. SameBut(f, f) /\ SameBut(g, o.fil)
    BY <1>4 DEF SameBut
  <2>3. "WRITE" \notin f.can => p <= f.objsize
    OBVIOUS
  <2> DEFINE h == o.fil
  <2>4. b \/ (p <= f.objsize /\ b = f.dirty)
    <3>1. f.dirty \in BOOLEAN
      BY <1>1, FilType DEF GoodFil
    <3>2. p > q \/ p <= q
      BY <1>2
    <3> HIDE DEF f
    <3>3. CASE b
      BY <3>3
    <3>4. CASE ~b
      <4>1. ~f.dirty /\ p <= q
        BY <3>2, <3>4
      <4>2. b = FALSE /\ f.dirty = FALSE
        BY <3>1, <3>4, <4>1, Zenon
      <4>3. QED BY <4>1, <4>2
    <3>5. QED BY <3>3, <3>4
  <2> HIDE DEF h, f, d, w, g, b
  <2>5. SameBut(g, h)
    BY <2>2 DEF h
  <2>6. b \/ h.err \/ (p <= f.objsize /\ b = f.dirty)
    BY <2>4
  <2>7. GrowsTo(vol, f, d, p, w, h)
    BY <1>1, <1>3, <2>1, <2>2, <2>3, <2>5, <2>6, GrownMoves
  <2>8. QED BY <2>7 DEF h
<1>6. t \in [1 .. p - q -> Clusters] /\ e = c \o t
  BY <1>2, SoughtContent
<1>7. Extends(c, c \o t)
  <2>1. c \in Seq(Clusters) /\ Len(c) = q
    BY <1>2, PrefixType
  <2>2. t \in Seq(Clusters)
    <3>1. \E n \in Nat : 1 .. p - q = 1 .. n
      <4>1. CASE p - q \in Nat
        BY <4>1
      <4>2. CASE ~(p - q \in Nat)
        <5>1. 1 .. p - q = 1 .. 0 /\ 0 \in Nat
          BY <1>2, <4>2
        <5>2. QED BY <5>1
      <4>3. QED BY <4>1, <4>2
    <3>2. PICK n \in Nat : 1 .. p - q = 1 .. n
      BY <3>1
    <3> HIDE DEF t
    <3>3. t \in [1 .. n -> Clusters]
      BY <1>6, <3>2
    <3>4. QED BY <3>3, FcnIsSeq
  <2> HIDE DEF c, t
  <2>3. QED BY <2>1, <2>2, LongerExtends
<1>8. /\ Caches(vol', g_fd') /\ Lengthens
      /\ Files' = SetFile(Files, f.name, e)
      /\ Descs' = SetDesc(Descs, fd, p, u)
  <2>1. Moved(vol, f, o.vol, o.fil) /\ o.vol[f.name].data = d /\ o.fil.objsize = Larger(q, p)
    BY <1>5 DEF GrowsTo
  <2>2. e = SubSeq(o.vol[f.name].data, 1, o.fil.objsize)
    BY <2>1
  <2>3. g_fd[i].append => Extends(SubSeq(data, 1, q), e)
    BY <1>6, <1>7
  <2> HIDE DEF e, d, c
  <2>4. /\ Caches(vol', g_fd') /\ Lengthens
        /\ Files' = SetFile(Files, f.name, e)
        /\ Descs' = SetDesc(Descs, fd, o.fil.fptr, u)
    BY <1>4, <2>1, <2>2, <2>3, MoveKeeps
  <2>5. QED BY <1>4, <2>4
<1>9. /\ fd \in Posix!Opens /\ Descs[fd].name = f.name /\ Descs[fd].can = f.can
      /\ Posix!Content(fd) = c /\ Len(c) = q
      /\ Descs[fd].unsure = UnsureOf(vol, f) /\ fd \in Fds
  BY PosixView, FileOfSlot
<1>sure. Descs' = SetPos(Descs, fd, p)
  <2>1. UnsureOf(vol, f) = 0 /\ (~f.dirty => q = vol[f.name].size)
    BY <1>1, FreshIsSure
  <2>2. /\ o.fil.name = f.name /\ o.fil.dirty = b /\ o.fil.objsize = Larger(q, p)
        /\ o.vol[f.name].size = vol[f.name].size
    BY <1>3, <1>4 DEF Grown, SameBut
  <2>3. ~b => ~f.dirty /\ Larger(q, p) = q
    BY <1>2 DEF Larger
  <2> HIDE DEF f, b, fd
  <2>4. u = IF b THEN 0 ELSE Larger(q, p) - vol[f.name].size
    BY <2>2, Zenon DEF UnsureOf
  <2>5. u = 0
    BY <1>2, <2>1, <2>3, <2>4
  <2> HIDE DEF u
  <2>6. QED BY <1>8, <1>9, <2>1, <2>5, SetToSame
<1>10. Posix!Seek(fd, p)
  <2> HIDE DEF fd, c, t, e
  <2>1. p <= Len(Posix!Content(fd)) \/ "WRITE" \in Descs[fd].can
    BY <1>9
  <2>2. t \in [1 .. p - Len(Posix!Content(fd)) -> Data \cup {Junk}]
    BY <1>6, <1>9 DEF Clusters
  <2>3. Files' = [Files EXCEPT ![Descs[fd].name].data = Posix!Content(fd) \o t]
    BY <1>6, <1>8, <1>9 DEF SetFile
  <2>4. Posix!Reposition(fd, p)
    BY <1>sure DEF Posix!Reposition, SetPos
  <2>5. QED BY <2>1, <2>2, <2>3, <2>4 DEF Posix!Seek
<1>11. Posix!Next
  <2> HIDE DEF fd
  <2>1. p \in 0 .. CLUSTERS
    <3>1. PICK l \in Nat, r \in Nat : l = Len(data) /\ r = FreeClusters(vol)
      BY <1>2
    <3>2. p <= l + r /\ l + r <= CLUSTERS
      BY <1>2, <3>1
    <3>3. QED BY <3>2, ClustersAssumption
  <2>2. QED BY <1>9, <1>10, <2>1 DEF Posix!Next
<1>12. QED BY <1>8, <1>11 DEF Kept

\* What a seek that the disk ended on its way leaves: clusters behind the end.
LEMMA SoughtIsSame ==
  ASSUME NEW v, NEW f, GoodVolume(v), GoodFil(v, f), NEW k \in Nat,
         k <= Len(v[f.name].data) + FreeClusters(v)
  PROVE  LET w == SoughtVol(v, f, k)
             g == Aborted([f EXCEPT !.fptr = k])
         IN  GoodVolume(w) /\ GoodFil(w, g) /\ SameBut(f, g) /\ SameFile(v, f, w)
<1> DEFINE w == SoughtVol(v, f, k)
           g == Aborted([f EXCEPT !.fptr = k])
           q == f.objsize
           data == v[f.name].data
           d == Overlay(data, k, <<>>, 0)
           c == SubSeq(data, 1, q)
           x == SubSeq(d, 1, q)
           fil == SoughtFil(f, k)
           b == f.dirty \/ k > f.objsize
<1>1. Grown(v, f, d, k, b, w, fil)
  BY SoughtIsGood
<1>2. /\ GoodVolume(w) /\ Grows(v, w) /\ w[f.name].data = d
      /\ \A n \in Names \ {f.name} : w[n] = v[n]
      /\ w[f.name].size = v[f.name].size /\ w[f.name].kind = v[f.name].kind
  <2> HIDE DEF w, d, fil, b
  <2>1. QED BY <1>1 DEF Grown
<1>3. q \in Nat /\ q <= Len(data) /\ data \in Seq(Clusters) /\ k \in 0 .. CLUSTERS
  <2>1. PICK l \in Nat, r \in Nat : l = Len(data) /\ r = FreeClusters(v)
    BY FilFits
  <2>2. k <= l + r /\ l + r <= CLUSTERS
    BY <2>1, FilFits
  <2>. QED BY <2>2, FilData, ClustersAssumption
<1>4. SameBut(f, g) /\ GoodFil(w, g)
  <2> HIDE DEF w
  <2>1. GoodFil(w, f)
    BY <1>2, GoodFilGrows
  <2>. QED BY <1>3, <2>1, MovedIsSame
<1>5. x = c
  <2>1. 0 \in Nat /\ k + 0 = k /\ \A j \in 1 .. 0 : <<>>[j] \in Clusters
    OBVIOUS
  <2>2. Overlaid(data, k, <<>>, 0, d)
    BY <1>3, <2>1, OverlayWith
  <2> HIDE DEF d, data, q
  <2>3. /\ d \in Seq(Clusters) /\ Len(d) = Larger(Len(data), k + 0)
        /\ \A j \in 1 .. Larger(Len(data), k + 0) :
             d[j] = IF j \in k + 1 .. k + 0 THEN <<>>[j - k]
                    ELSE IF j <= Len(data) THEN data[j] ELSE Junk
    BY <2>2 DEF Overlaid
  <2>4. PICK l \in Nat : l = Len(data) /\ q <= l
    BY <1>3
  <2>5. Larger(l, k + 0) \in Nat /\ l <= Larger(l, k + 0)
    BY DEF Larger
  <2>6. \A j \in 1 .. q : d[j] = data[j]
    <3>1. ASSUME NEW j \in 1 .. q PROVE d[j] = data[j]
      <4>1. j \in 1 .. Larger(l, k + 0) /\ j <= l /\ ~(j \in k + 1 .. k + 0)
        BY <1>3, <2>4, <2>5
      <4>. QED BY <2>3, <2>4, <4>1
    <3>. QED BY <3>1
  <2>7. x \in Seq(Clusters) /\ Len(x) = q /\ \A j \in 1 .. q : x[j] = d[j]
    <3>1. q <= Len(d)
      BY <1>3, <2>3, <2>4, <2>5
    <3>. QED BY <1>3, <2>3, <3>1, PrefixType
  <2>8. c \in Seq(Clusters) /\ Len(c) = q /\ \A j \in 1 .. q : c[j] = data[j]
    BY <1>3, PrefixType
  <2> HIDE DEF x, c
  <2>9. x = [j \in 1 .. q |-> x[j]] /\ c = [j \in 1 .. q |-> c[j]]
    BY <2>7, <2>8, AsFunction
  <2>. QED BY <2>6, <2>7, <2>8, <2>9
<1>6. SameFile(v, f, w)
  <2> HIDE DEF w, d
  <2>1. SubSeq(w[f.name].data, 1, q) = SubSeq(data, 1, q)
    BY <1>2, <1>5
  <2>. QED BY <1>2, <2>1 DEF SameFile
<1> HIDE DEF w, g
<1>7. GoodVolume(w) /\ GoodFil(w, g) /\ SameBut(f, g) /\ SameFile(v, f, w)
  BY <1>2, <1>4, <1>6
<1>. QED BY <1>7 DEF w, g

LEMMA SeekKept ==
  ASSUME FilesInv, GoodVolume(vol'), OpenFiles(vol', g_fd'), Caches(vol, g_fd),
         NEW fd, NEW offset \in Int, NEW whence, _lseek(fd, offset, whence)
  PROVE  Kept
<1>1. PICK i \in fd_get(fd) :
         LET base == Base(g_fd[i].f, whence)
         IN  IF whence \notin {"SET", "CUR", "END"} \/ BeforeStart(base, offset)
              THEN Refuses("EINVAL")
              ELSE \E o \in f_lseek(vol, g_fd[i].f, base + offset) :
                     Leaves(i, o) /\ Answers(o.fr, o.fil.fptr)
  BY DEF _lseek
<1> DEFINE f == g_fd[i].f
           base == Base(f, whence)
<1>2. i \in Slots /\ g_fd[i].used
  BY DEF fd_get
<1>3. GoodVolume(vol) /\ GoodFil(vol, f)
  BY <1>2 DEF FilesInv, OpenFiles
<1>4. CASE Refuses("EINVAL")
  <2>1. UNCHANGED <<vol, g_fd>> /\ Posix!Returns(-1)
    BY <1>4, RefusalIs DEF Refuses
  <2>2. QED BY <2>1, FailsUnmoved
<1>5. CASE ~BeforeStart(base, offset) /\ \E o \in f_lseek(vol, f, base + offset) :
             Leaves(i, o) /\ Answers(o.fr, o.fil.fptr)
  <2>1. PICK o \in f_lseek(vol, f, base + offset) : Leaves(i, o) /\ Answers(o.fr, o.fil.fptr)
    BY <1>5
  <2>2. base \in Nat
    BY <1>3, FilData DEF Base
  <2> HIDE DEF base
  <2>3. base + offset \in Nat
    BY <1>5, <2>2 DEF BeforeStart
  <2> DEFINE p == SeekTo(vol, f, base + offset)
  <2>4. /\ p \in Nat /\ p <= Len(vol[f.name].data) + FreeClusters(vol)
        /\ "WRITE" \notin f.can => p <= f.objsize
    BY <1>3, <2>3, SeekToType
  <2>5. \/ f.err /\ o = Outcome("DISK_ERR", vol, f, 0)
        \/ ~f.err /\ SeekBreaks(vol, f, p, o)
        \/ ~f.err /\ o = Outcome("OK", SoughtVol(vol, f, p), SoughtFil(f, p), 0)
    BY <2>1, SeekOutcomes
  <2> HIDE DEF f, p
  <2> DEFINE w == SoughtVol(vol, f, p)
             g == SoughtFil(f, p)
  <2>6. CASE f.err /\ o = Outcome("DISK_ERR", vol, f, 0)
    <3>1. o.fr = "DISK_ERR" /\ o.vol = vol /\ o.fil = f
      BY <2>6, OutcomeFields
    <3>2. Posix!Breaks
      BY <2>1, <3>1, AnswerIs
    <3>3. SameBut(f, f) /\ SameFile(vol, f, vol)
      BY SameFileSelf DEF SameBut
    <3>. QED BY <1>2, <1>3, <2>1, <3>1, <3>2, <3>3, BreaksInPlace DEF f
  <2>7. CASE ~f.err /\ o = Outcome("OK", w, g, 0)
    <3> HIDE DEF w, g
    <3>1. o.fr = "OK" /\ o.vol = w /\ o.fil = g
      BY <2>7, OutcomeFields
    <3>2. g.fptr = p
      <4>1. f \in Fil
        BY <1>3 DEF GoodFil
      <4>2. QED BY <4>1 DEF g, SoughtFil, Fil
    <3>3. p # -1
      BY <2>4
    <3>4. Posix!Returns(p)
      BY <2>1, <3>1, <3>2, <3>3, AnswerIs
    <3>. QED BY <1>2, <2>1, <2>4, <2>7, <3>1, <3>4, SeeksKept DEF f, w, g
  <2>8. CASE ~f.err /\ o = Outcome("DISK_ERR", w, Aborted(g), 0)
    <3> HIDE DEF w, g
    <3>1. o.fr = "DISK_ERR" /\ o.vol = w /\ o.fil = Aborted(g)
      BY <2>8, OutcomeFields
    <3>2. Posix!Breaks
      BY <2>1, <3>1, AnswerIs
    <3>. QED BY <1>2, <2>1, <2>4, <2>8, <3>1, <3>2, SeeksKept DEF f, w, g
  <2>9. CASE \E k \in 0 .. p : o = Outcome("DISK_ERR", SoughtVol(vol, f, k), Aborted([f EXCEPT !.fptr = k]), 0)
    <3>1. PICK k \in 0 .. p : o = Outcome("DISK_ERR", SoughtVol(vol, f, k), Aborted([f EXCEPT !.fptr = k]), 0)
      BY <2>9
    <3> DEFINE v == SoughtVol(vol, f, k)
               h == Aborted([f EXCEPT !.fptr = k])
    <3>2. o = Outcome("DISK_ERR", v, h, 0)
      BY <3>1
    <3>3. k \in Nat /\ k <= Len(vol[f.name].data) + FreeClusters(vol)
      <4>1. PICK l \in Nat : l = Len(vol[f.name].data) + FreeClusters(vol)
        <5>1. PICK a \in Nat, r \in Nat : a = Len(vol[f.name].data) /\ r = FreeClusters(vol)
          BY <1>3, FilFits
        <5>2. a + r \in Nat
          OBVIOUS
        <5>. QED BY <5>1, <5>2
      <4>. QED BY <2>4, <4>1
    <3>4. GoodVolume(v) /\ GoodFil(v, h) /\ SameBut(f, h) /\ SameFile(vol, f, v)
      BY <1>3, <3>3, SoughtIsSame
    <3> HIDE DEF v, h
    <3>5. o.fr = "DISK_ERR" /\ o.vol = v /\ o.fil = h
      BY <3>2, OutcomeFields
    <3>6. Posix!Breaks
      BY <2>1, <3>5, AnswerIs
    <3>. QED BY <1>2, <2>1, <3>4, <3>5, <3>6, BreaksInPlace DEF f
  <2>. QED BY <2>5, <2>6, <2>7, <2>8, <2>9 DEF SeekBreaks
<1>6. QED BY <1>1, <1>4, <1>5

\* The same slots stand for the same.
LEMMA SameSlots ==
  ASSUME NEW v, NEW tab, NEW new, \A i \in Slots : new[i] = tab[i]
  PROVE  /\ FilesOf(v, new) = FilesOf(v, tab) /\ DescsOf(v, new) = DescsOf(v, tab)
         /\ Caches(v, tab) => Caches(v, new)
<1>1. \A n : OpenedIn(new, n) = OpenedIn(tab, n)
  BY DEF OpenedIn
<1>2. \A n : \A i \in OpenedIn(tab, n) : new[i] = tab[i]
  BY DEF OpenedIn
<1>3. \A n : HeldIn(v, new, n) = HeldIn(v, tab, n)
  BY <1>1, <1>2, HeldFrame
<1>4. FilesOf(v, new) = FilesOf(v, tab)
  BY <1>3 DEF FilesOf
<1>5. DescsOf(v, new) = DescsOf(v, tab)
  BY DEF DescsOf
<1>6. Caches(v, tab) => Caches(v, new)
  BY DEF Caches
<1>7. QED BY <1>4, <1>5, <1>6

\* A call that fails and leaves every slot as it was.
LEMMA FailsSlots ==
  ASSUME Caches(vol, g_fd), vol' = vol, \A i \in Slots : g_fd'[i] = g_fd[i],
         Posix!Returns(-1) \/ Posix!Breaks
  PROVE  Kept
<1>1. Caches(vol', g_fd')
  BY SameSlots
<1>2. Files' = Files /\ Descs' = Descs
  <2>1. FilesOf(vol, g_fd') = FilesOf(vol, g_fd) /\ DescsOf(vol, g_fd') = DescsOf(vol, g_fd)
    BY SameSlots
  <2>2. QED BY <2>1, NextFiles, ContentIs, DescsAre
<1>3. Lengthens
  BY DEF Lengthens
<1>4. Posix!Fail \/ Posix!Break
  BY <1>2 DEF Posix!Fail, Posix!Break
<1>5. QED BY <1>1, <1>3, <1>4 DEF Kept, Posix!Next

LEMMA ReturnIs ==
  ASSUME NEW n, n # -1, ret' = n, got' = <<>>
  PROVE  Posix!Returns(n)
<1>1. DiskError' = FALSE
  BY DEF DiskError
<1>. QED BY <1>1 DEF Posix!Returns, Posix!Answers

LEMMA StatKept ==
  ASSUME FilesInv, Caches(vol, g_fd), NEW fd, NEW st \in BOOLEAN, _fstat(fd, st)
  PROVE  Kept
<1>1. CASE ~st
  <2>1. UNCHANGED <<vol, g_fd>> /\ Posix!Returns(-1)
    BY <1>1, RefusalIs DEF _fstat, Refuses
  <2>. QED BY <2>1, FailsUnmoved
<1>2. CASE st
  <2>1. PICK i \in fd_get(fd) : Returns(g_fd[i].f.objsize)
    BY <1>2 DEF _fstat
  <2> DEFINE d == FD_BASE + i
             n == g_fd[i].f.objsize
  <2>2. i \in Slots /\ g_fd[i].used
    BY DEF fd_get
  <2>3. UNCHANGED <<vol, g_fd>> /\ got' = <<>>
    BY <1>2 DEF _fstat
  <2>4. Caches(vol', g_fd') /\ Files' = Files /\ Descs' = Descs /\ Lengthens
    BY <2>3, NothingMoves
  <2>5. d \in Posix!Opens /\ Len(Posix!Content(d)) = n /\ n # -1
    <3>1. n \in Nat
      BY <2>2, FilData DEF FilesInv, OpenFiles
    <3>. QED BY <2>2, <3>1, PosixView, FileOfSlot
  <2>6. Posix!Returns(n)
    BY <2>1, <2>3, <2>5, ReturnIs DEF Returns
  <2> HIDE DEF d, n
  <2>7. Posix!Stat(d)
    BY <2>4, <2>5, <2>6 DEF Posix!Stat
  <2>. QED BY <2>4, <2>5, <2>7 DEF Kept, Posix!Next
<1>. QED BY <1>1, <1>2

LEMMA StandardKept ==
  ASSUME Caches(vol, g_fd), Standard
  PROVE  Kept
<1>1. Caches(vol', g_fd') /\ Files' = Files /\ Descs' = Descs /\ Lengthens
  BY NothingMoves DEF Standard
<1>2. Posix!Standard
  BY <1>1, ReturnIs DEF Standard, Returns, Posix!Standard
<1>3. QED BY <1>1, <1>2 DEF Kept, Posix!Next

LEMMA BadKept ==
  ASSUME Caches(vol, g_fd), NEW fd, BadDescriptor(fd)
  PROVE  Kept
  BY FailsUnmoved, RefusalIs DEF BadDescriptor, Refuses

--------------------------------------------------------------------------------
(* Closing.                                                                   *)

\* The table without slot i.
Freed(tab, i) == [tab EXCEPT ![i] = FreeSlot]

LEMMA FreedSlots ==
  ASSUME TableInv, NEW i \in Slots
  PROVE  /\ ~Freed(g_fd, i)[i].used
         /\ \A j \in Slots : j # i => Freed(g_fd, i)[j] = g_fd[j]
  BY DEF TableInv, Freed, FreeSlot

LEMMA FreedDescs ==
  ASSUME TableInv, NEW i \in Slots,
         NEW w, \A j \in Slots \ {i} : g_fd[j].used => w[g_fd[j].f.name].size = vol[g_fd[j].f.name].size
  PROVE  DescsOf(w, Freed(g_fd, i)) = [DescsOf(vol, g_fd) EXCEPT ![FD_BASE + i] = NoDescriptor]
<1> DEFINE new == Freed(g_fd, i)
<1>1. ~new[i].used /\ \A j \in Slots : j # i => new[j] = g_fd[j]
  BY FreedSlots
<1> HIDE DEF new
<1>2. DescsOf(w, new) = [DescsOf(vol, g_fd) EXCEPT ![FD_BASE + i] = DescOf(w, new[i])]
  <2>1. Framed(vol, g_fd, w, new, i)
    BY <1>1 DEF Framed
  <2>. QED BY <2>1, DescsFrame
<1>3. DescOf(w, new[i]) = NoDescriptor
  BY <1>1 DEF DescOf
<1>. QED BY <1>2, <1>3 DEF new

\* w is v with the size f caches recorded, or not.
Recorded(v, f, w) ==
  /\ \A n \in Names : w[n].kind = v[n].kind /\ w[n].data = v[n].data
  /\ \A n \in Names \ {f.name} : w[n] = v[n]
  /\ w[f.name].size = f.objsize \/ w[f.name].size = v[f.name].size

LEMMA ClosedCaches ==
  ASSUME FilesInv, Caches(vol, g_fd), NEW i \in Slots, g_fd[i].used,
         NEW w, GoodVolume(w), Recorded(vol, g_fd[i].f, w)
  PROVE  /\ Caches(w, Freed(g_fd, i))
         /\ \A j \in Slots : j # i /\ g_fd[j].used /\ g_fd[j].f.name = g_fd[i].f.name =>
              g_fd[j].f.objsize = w[g_fd[i].f.name].size
         /\ w[g_fd[i].f.name].size \in Nat /\ w[g_fd[i].f.name].size <= g_fd[i].f.objsize
<1> DEFINE f == g_fd[i].f
           new == Freed(g_fd, i)
<1>1. ~new[i].used /\ \A j \in Slots : j # i => new[j] = g_fd[j]
  BY FreedSlots DEF FilesInv
<1>2. GoodVolume(vol) /\ GoodFil(vol, f) /\ Fresh(vol, f) /\ f.name \in Names
  BY FilData DEF FilesInv, OpenFiles, Caches
<1>3. f.objsize \in Nat /\ vol[f.name].size \in Nat /\ vol[f.name].size <= f.objsize
  BY <1>2, FilData, EntryType DEF GoodVolume, Fresh
<1>4. ASSUME NEW j \in Slots, j # i, g_fd[j].used, g_fd[j].f.name = f.name
      PROVE  /\ g_fd[j].f.objsize = w[f.name].size
             /\ w[f.name].size = vol[f.name].size
  <2>1. "WRITE" \notin g_fd[j].f.can /\ "WRITE" \notin f.can
    BY <1>4 DEF Caches
  <2>2. Fresh(vol, g_fd[j].f)
    BY <1>4 DEF Caches
  <2>3. g_fd[j].f.objsize = vol[f.name].size /\ f.objsize = vol[f.name].size
    BY <1>2, <1>4, <2>1, <2>2 DEF Fresh
  <2>4. QED BY <2>3 DEF Recorded
<1>5. w[f.name].size \in Nat /\ w[f.name].size <= f.objsize
  BY <1>3 DEF Recorded
<1> HIDE DEF new
<1>6. ASSUME NEW j \in Slots, new[j].used PROVE Fresh(w, new[j].f)
  <2>1. j # i /\ new[j] = g_fd[j]
    BY <1>1, <1>6
  <2>2. Fresh(vol, g_fd[j].f) /\ GoodFil(vol, g_fd[j].f) /\ g_fd[j].f.name \in Names
    BY <1>2, <1>6, <2>1, FilData DEF Caches, FilesInv, OpenFiles
  <2>3. w[g_fd[j].f.name].size = vol[g_fd[j].f.name].size
    <3>1. CASE g_fd[j].f.name = f.name
      BY <1>4, <1>6, <2>1, <3>1
    <3>2. CASE g_fd[j].f.name # f.name
      BY <2>2, <3>2 DEF Recorded
    <3>3. QED BY <3>1, <3>2
  <2>4. QED BY <2>1, <2>2, <2>3 DEF Fresh
<1>7. ASSUME NEW j \in Slots, NEW k \in Slots, new[j].used, new[k].used, j # k,
             new[j].f.name = new[k].f.name
      PROVE  "WRITE" \notin new[j].f.can
  BY <1>1, <1>7 DEF Caches
<1>8. ASSUME NEW n \in Names, w[n].kind = "none" PROVE w[n].size = 0
  <2>1. vol[n].kind = "none"
    BY <1>8 DEF Recorded
  <2>2. n # f.name
    BY <1>2, <2>1 DEF GoodFil
  <2>3. QED BY <2>1, <2>2 DEF Recorded, Caches
<1>9. Caches(w, new)
  BY <1>6, <1>7, <1>8 DEF Caches
<1>10. QED BY <1>4, <1>5, <1>9 DEF new

\* A file that somebody closed is as long as its entry says.
LEMMA ClosedHeld ==
  ASSUME FilesInv, Caches(vol, g_fd), NEW i \in Slots, g_fd[i].used,
         NEW w, GoodVolume(w), Recorded(vol, g_fd[i].f, w), OpenFiles(w, Freed(g_fd, i))
  PROVE  LET p == g_fd[i].f.name
         IN  HeldIn(w, Freed(g_fd, i), p) = SubSeq(w[p].data, 1, w[p].size)
<1> DEFINE p == g_fd[i].f.name
           new == Freed(g_fd, i)
<1>1. ~new[i].used /\ \A j \in Slots : j # i => new[j] = g_fd[j]
  BY FreedSlots DEF FilesInv
<1>2. p \in Names
  BY FilData DEF FilesInv, OpenFiles
<1>3. Caches(w, new)
  BY ClosedCaches
<1>4. \A j \in Slots : j # i /\ g_fd[j].used /\ g_fd[j].f.name = p =>
        g_fd[j].f.objsize = w[p].size
  BY ClosedCaches
<1> HIDE DEF new, p
<1>5. CASE \E j \in Slots : new[j].used /\ new[j].f.name = p
  <2>1. PICK j \in Slots : new[j].used /\ new[j].f.name = p
    BY <1>5
  <2>2. new[j].f.objsize = w[p].size
    BY <1>1, <1>4, <2>1
  <2>3. HeldIn(w, new, new[j].f.name) = SubSeq(w[new[j].f.name].data, 1, new[j].f.objsize)
    <3>1. OpenFiles(w, new)
      BY DEF new
    <3>2. QED BY <1>3, <2>1, <3>1, HeldOpen
  <2>4. HeldIn(w, new, p) = SubSeq(w[p].data, 1, w[p].size)
    BY <2>1, <2>2, <2>3
  <2>5. QED BY <2>4 DEF new, p
<1>6. CASE ~ \E j \in Slots : new[j].used /\ new[j].f.name = p
  <2>1. OpenedIn(new, p) = {}
    BY <1>6 DEF OpenedIn
  <2>2. HeldIn(w, new, p) = SubSeq(w[p].data, 1, w[p].size)
    BY <1>2, <2>1, HeldIdle
  <2>3. QED BY <2>2 DEF new, p
<1>7. QED BY <1>5, <1>6

LEMMA CloseKept ==
  ASSUME FilesInv, GoodVolume(vol'), OpenFiles(vol', g_fd'), Caches(vol, g_fd),
         NEW fd, _close(fd)
  PROVE  Kept
<1>1. PICK i \in fd_get(fd) : \E o \in f_close(vol, g_fd[i].f) :
        vol' = o.vol /\ fd_free(i) /\ Answers(o.fr, 0)
  BY DEF _close
<1>2. PICK o \in f_close(vol, g_fd[i].f) : vol' = o.vol /\ fd_free(i) /\ Answers(o.fr, 0)
  BY <1>1
<1> DEFINE f == g_fd[i].f
           p == f.name
           q == f.objsize
           data == vol[p].data
           c == SubSeq(data, 1, q)
           d == FD_BASE + i
           w == vol'
           new == Freed(g_fd, i)
           k == w[p].size
<1>3. i \in Slots /\ g_fd[i].used
  BY DEF fd_get
<1>4. GoodVolume(vol) /\ GoodFil(vol, f) /\ Fresh(vol, f)
  BY <1>3 DEF FilesInv, OpenFiles, Caches
<1>5. q \in Nat /\ q <= Len(data) /\ data \in Seq(Clusters) /\ p \in Names
  BY <1>4, FilData
<1>6. \/ o.fr = "DISK_ERR" /\ w \in {vol, VolClosed(vol, f)}
      \/ o.fr = "OK" /\ w = IF f.dirty THEN VolClosed(vol, f) ELSE vol
  BY <1>2, CloseOutcomes
<1>7. /\ Recorded(vol, f, w)
      /\ o.fr = "OK" => k = IF f.dirty THEN q ELSE vol[p].size
  <2>1. VolClosed(vol, f)[p].size = q /\ Recorded(vol, f, VolClosed(vol, f))
    <3>1. /\ Elsewhere(vol, VolClosed(vol, f), p)
          /\ VolClosed(vol, f)[p].data = vol[p].data /\ VolClosed(vol, f)[p].size = q
          /\ VolClosed(vol, f)[p].kind = vol[p].kind
      BY <1>4, CloseIsGood
    <3>2. QED BY <3>1 DEF Elsewhere, Recorded
  <2>2. Recorded(vol, f, vol)
    BY DEF Recorded
  <2> HIDE DEF f, w
  <2>3. QED BY <1>6, <2>1, <2>2
<1>8. g_fd' = new
  BY <1>2 DEF fd_free, Freed
<1>9. OpenFiles(w, new) /\ GoodVolume(w)
  BY <1>8
<1>10. Caches(w, new) /\ k \in Nat /\ k <= q
  BY <1>3, <1>7, <1>9, ClosedCaches
<1>11. HeldIn(w, new, p) = SubSeq(data, 1, k)
  <2>1. HeldIn(w, new, p) = SubSeq(w[p].data, 1, k)
    BY <1>3, <1>7, <1>9, ClosedHeld
  <2>2. w[p].data = data
    BY <1>5, <1>7 DEF Recorded
  <2>3. QED BY <2>1, <2>2
<1>12. SubSeq(data, 1, k) = SubSeq(c, 1, k)
  <2>1. 0 \in Nat /\ 0 + k <= q
    BY <1>10
  <2>2. SubSeq(SubSeq(data, 1, q), 0 + 1, 0 + k) = SubSeq(data, 0 + 1, 0 + k)
    BY <1>5, <1>10, <2>1, PieceOfPrefix
  <2>3. 0 + 1 = 1 /\ 0 + k = k
    BY <1>10
  <2>4. QED BY <2>2, <2>3
<1> HIDE DEF w, new, k, c
<1>13. ASSUME NEW n \in Names \ {p}
       PROVE  w[n].kind = vol[n].kind /\ HeldIn(w, new, n) = HeldIn(vol, g_fd, n)
  <2>1. w[n] = vol[n]
    BY <1>7 DEF Recorded
  <2>2. ~new[i].used /\ \A j \in Slots : j # i => new[j] = g_fd[j]
    BY <1>3, FreedSlots DEF FilesInv, new
  <2>3. OpenedIn(new, n) = OpenedIn(g_fd, n)
    BY <2>2 DEF OpenedIn
  <2>4. \A j \in OpenedIn(g_fd, n) : new[j].f.objsize = g_fd[j].f.objsize
    BY <2>2, <2>3 DEF OpenedIn
  <2>5. QED BY <2>1, <2>3, <2>4, HeldFrame
<1>14. FilesOf(w, new) = SetFile(FilesOf(vol, g_fd), p, HeldIn(w, new, p))
  <2>1. w[p].kind = vol[p].kind
    BY <1>5, <1>7 DEF Recorded
  <2>2. QED BY <1>5, <1>13, <2>1, NewFiles
<1>15. Files' = SetFile(Files, p, SubSeq(c, 1, k))
  BY <1>8, <1>11, <1>12, <1>14, ContentIs, NextFiles DEF w
<1>16. Descs' = [Descs EXCEPT ![d] = NoDescriptor]
  <2>1. ASSUME NEW j \in Slots \ {i}, g_fd[j].used
        PROVE  w[g_fd[j].f.name].size = vol[g_fd[j].f.name].size
    <3>1. GoodFil(vol, g_fd[j].f) /\ Fresh(vol, g_fd[j].f) /\ g_fd[j].f.name \in Names
      BY <2>1, FilData DEF FilesInv, OpenFiles, Caches
    <3>2. CASE g_fd[j].f.name = p
      <4>1. "WRITE" \notin g_fd[j].f.can
        BY <1>3, <2>1, <3>2 DEF Caches
      <4>2. g_fd[j].f.objsize = vol[p].size
        BY <3>1, <3>2, <4>1 DEF Fresh
      <4>3. g_fd[j].f.objsize = w[p].size
        BY <1>3, <1>7, <1>9, <2>1, <3>2, ClosedCaches
      <4>. QED BY <3>2, <4>2, <4>3
    <3>3. CASE g_fd[j].f.name # p
      BY <1>7, <3>1, <3>3 DEF Recorded
    <3>. QED BY <3>2, <3>3
  <2>2. DescsOf(w, new) = [DescsOf(vol, g_fd) EXCEPT ![d] = NoDescriptor]
    <3>1. TableInv
      BY DEF FilesInv
    <3>. QED BY <1>3, <2>1, <3>1, FreedDescs DEF new
  <2>. QED BY <1>8, <2>2, NextFiles, DescsAre DEF w
<1>17. Lengthens
  <2>1. ~new[i].used /\ \A j \in Slots : j # i => new[j] = g_fd[j]
    BY <1>3, FreedSlots DEF FilesInv, new
  <2>2. \A j \in Slots : g_fd'[j].used => g_fd'[j] = g_fd[j]
    BY <1>8, <2>1
  <2>3. QED BY <2>2 DEF Lengthens
<1>18. /\ d \in Posix!Opens /\ Descs[d].name = p
       /\ Posix!Content(d) = c /\ Files[p].data = c /\ Len(c) = q /\ c \in Seq(Clusters)
       /\ Descs[d].unsure = UnsureOf(vol, f)
  BY <1>3, PosixView, FileOfSlot DEF c
<1>19. Posix!Unopened = NoDescriptor
  BY DEF Posix!Unopened, NoDescriptor
<1>20. Posix!Close(d)
  <2>1. Descs' = [Descs EXCEPT ![d] = Posix!Unopened]
    BY <1>16, <1>19
  <2> DEFINE l == q - k
  <2>2. l \in 0 .. Len(Posix!Content(d)) /\ Len(c) - l = k
    BY <1>5, <1>10, <1>18
  <2>3. o.fr = "OK" => l = Descs[d].unsure
    <3>1. q - q = 0
      BY <1>5
    <3>. QED BY <1>7, <1>18, <3>1 DEF UnsureOf
  <2> HIDE DEF d, p, q, f, l
  <2>4. Posix!Loses(d, l)
    <3>1. SetFile(Files, p, SubSeq(Files[p].data, 1, Len(Files[p].data) - l)) =
            [Files EXCEPT ![p].data = SubSeq(@, 1, Len(@) - l)]
      BY DEF SetFile
    <3>. QED BY <1>15, <1>18, <2>2, <3>1 DEF Posix!Loses
  <2>5. CASE o.fr = "OK"
    <3>1. Posix!Returns(0)
      BY <1>2, <2>5, AnswerIs
    <3>. QED BY <2>1, <2>3, <2>4, <2>5, <3>1 DEF Posix!Close
  <2>6. CASE o.fr = "DISK_ERR"
    <3>1. Posix!Breaks
      BY <1>2, <2>6, AnswerIs
    <3>. QED BY <2>1, <2>2, <2>4, <3>1 DEF Posix!Close
  <2>. QED BY <1>6, <2>5, <2>6
<1>21. Caches(vol', g_fd')
  BY <1>8, <1>10 DEF w
<1> HIDE DEF d
<1>22. QED BY <1>17, <1>18, <1>20, <1>21 DEF Kept, Posix!Next

--------------------------------------------------------------------------------
(* Names that nobody has open.                                                *)

\* A file nobody has open is what its entry says.
EntryIs(e) == [kind |-> e.kind, data |-> SubSeq(e.data, 1, e.size)]

LEMMA IdleNames ==
  ASSUME FilesInv, NEW n \in Names, Idle(n)
  PROVE  /\ OpenedIn(g_fd, n) = {} /\ Files[n] = EntryIs(vol[n])
         /\ \A i \in Slots : g_fd[i].used => g_fd[i].f.name # n
         /\ Posix!Idle(n)
<1>1. OpenedIn(g_fd, n) = {} /\ \A i \in Slots : g_fd[i].used => g_fd[i].f.name # n
  BY DEF OpenedIn, Idle, Opened
<1>2. HeldIn(vol, g_fd, n) = SubSeq(vol[n].data, 1, vol[n].size)
  BY <1>1, HeldIdle DEF FilesInv
<1>3. Files[n] = EntryIs(vol[n])
  BY <1>2, ContentIs DEF FilesOf, EntryIs
<1>4. ASSUME NEW fd \in Posix!Opens PROVE Descs[fd].name # n
  <2>1. fd \in Fds /\ Descs[fd] # NoDescriptor
    BY DEF Posix!Opens, Posix!Unopened, NoDescriptor
  <2>2. fd - FD_BASE \in Slots /\ g_fd[fd - FD_BASE].used
        /\ Descs[fd].name = g_fd[fd - FD_BASE].f.name
    BY <2>1 DEF Descs
  <2>3. QED BY <1>1, <2>2
<1>5. QED BY <1>1, <1>3, <1>4 DEF Posix!Idle

\* A call that changes the entries of idle names, the set P.
LEMMA NamesChange ==
  ASSUME FilesInv, Caches(vol, g_fd), \A i \in Slots : g_fd'[i] = g_fd[i], GoodVolume(vol'),
         NEW P \in SUBSET Names, \A n \in P : Idle(n),
         \A n \in Names \ P : vol'[n] = vol[n],
         \A n \in P : vol'[n].kind = "none" => vol'[n].size = 0
  PROVE  /\ Caches(vol', g_fd') /\ Lengthens /\ Descs' = Descs
         /\ Files' = [n \in Names |-> IF n \in P THEN EntryIs(vol'[n]) ELSE Files[n]]
<1> DEFINE w == vol'
<1>1. /\ FilesOf(w, g_fd') = FilesOf(w, g_fd) /\ DescsOf(w, g_fd') = DescsOf(w, g_fd)
      /\ Caches(w, g_fd) => Caches(w, g_fd')
  BY SameSlots
<1>2. ASSUME NEW i \in Slots, g_fd[i].used
      PROVE  g_fd[i].f.name \in Names \ P /\ w[g_fd[i].f.name] = vol[g_fd[i].f.name]
  <2>1. g_fd[i].f.name \in Names
    BY <1>2, FilData DEF FilesInv, OpenFiles
  <2>2. g_fd[i].f.name \notin P
    BY <1>2, <2>1, IdleNames
  <2>3. QED BY <2>1, <2>2
<1>3. Caches(w, g_fd)
  <2>1. \A i \in Slots : g_fd[i].used => Fresh(w, g_fd[i].f)
    BY <1>2 DEF Caches, Fresh
  <2>2. \A n \in Names : w[n].kind = "none" => w[n].size = 0
    <3>1. ASSUME NEW n \in Names, w[n].kind = "none" PROVE w[n].size = 0
      <4>1. CASE n \in P
        BY <3>1, <4>1
      <4>2. CASE n \notin P
        BY <3>1, <4>2 DEF Caches
      <4>3. QED BY <4>1, <4>2
    <3>2. QED BY <3>1
  <2> HIDE DEF w
  <2>3. QED BY <2>1, <2>2 DEF Caches
<1>4. Lengthens
  BY DEF Lengthens
<1>5. Descs' = Descs
  <2>1. DescsOf(w, g_fd) = DescsOf(vol, g_fd)
    BY <1>2 DEF DescsOf, DescOf, Desc, UnsureOf
  <2>2. QED BY <1>1, <2>1, NextFiles, DescsAre
<1>6. Files' = [n \in Names |-> [kind |-> w[n].kind, data |-> HeldIn(w, g_fd, n)]]
  BY <1>1, NextFiles DEF FilesOf
<1> HIDE DEF w
<1>7. ASSUME NEW n \in Names
      PROVE  [kind |-> w[n].kind, data |-> HeldIn(w, g_fd, n)] =
               IF n \in P THEN EntryIs(w[n]) ELSE Files[n]
  <2>1. CASE n \in P
    <3>1. OpenedIn(g_fd, n) = {} /\ GoodVolume(w)
      BY <2>1, IdleNames DEF w
    <3>2. HeldIn(w, g_fd, n) = SubSeq(w[n].data, 1, w[n].size)
      BY <3>1, HeldIdle
    <3>3. QED BY <2>1, <3>2 DEF EntryIs
  <2>2. CASE n \notin P
    <3>1. w[n] = vol[n]
      BY <2>2 DEF w
    <3>2. \A i \in OpenedIn(g_fd, n) : g_fd[i].f.objsize = g_fd[i].f.objsize
      OBVIOUS
    <3>3. HeldIn(w, g_fd, n) = HeldIn(vol, g_fd, n)
      BY <3>1, <3>2, HeldFrame
    <3>4. QED BY <2>2, <3>1, <3>3, ContentIs DEF FilesOf
  <2>3. QED BY <2>1, <2>2
<1>8. Files' = [n \in Names |-> IF n \in P THEN EntryIs(w[n]) ELSE Files[n]]
  BY <1>6, <1>7
<1>9. QED BY <1>1, <1>3, <1>4, <1>5, <1>8 DEF w

LEMMA EmptyPrefix == ASSUME NEW S, NEW s \in Seq(S) PROVE SubSeq(s, 1, 0) = <<>>
  OBVIOUS

LEMMA EntriesAre ==
  /\ EntryIs(None) = Posix!Absent
  /\ EntryIs(Directory) = [kind |-> "dir", data |-> <<>>]
  /\ Posix!Absent.kind = "none"
  /\ \A e \in Entry : e.kind = "none" /\ e.size = 0 => EntryIs(e) = Posix!Absent
<1>1. ASSUME NEW e \in Entry, e.size = 0
      PROVE  EntryIs(e) = [kind |-> e.kind, data |-> <<>>]
  <2>1. SubSeq(e.data, 1, 0) = <<>>
    BY EntryType, EmptyPrefix
  <2>2. QED BY <1>1, <2>1 DEF EntryIs
<1>2. QED BY <1>1, NoneIsGood DEF Posix!Absent

LEMMA FilesKind == \A n \in Names : Files[n].kind = vol[n].kind
  BY DEF Files

--------------------------------------------------------------------------------
(* Opening.                                                                   *)

\* Who is opened beside whom: without Shared, only readers beside readers.
LEMMA SharesWithReaders ==
  ASSUME ~Shared, FilesInv, Caches(vol, g_fd), NEW path \in Names, NEW acc, MayOpen(path, acc),
         NEW j \in Slots, g_fd[j].used, g_fd[j].f.name = path
  PROVE  /\ "CREATE_ALWAYS" \notin acc /\ "WRITE" \notin acc /\ "WRITE" \notin g_fd[j].f.can
         /\ vol[path].kind = "file" /\ g_fd[j].f.objsize = vol[path].size
<1>1. j \in Opened(path) /\ ~Idle(path)
  BY DEF Opened, Idle
<1>2. "CREATE_ALWAYS" \notin acc /\ "WRITE" \notin acc \cup g_fd[j].f.can
  BY <1>1 DEF MayOpen
<1>3. GoodFil(vol, g_fd[j].f) /\ Fresh(vol, g_fd[j].f)
  BY DEF FilesInv, OpenFiles, Caches
<1>4. QED BY <1>2, <1>3 DEF GoodFil, Fresh

LEMMA OpenedSlots ==
  ASSUME TableInv, NEW i \in Slots, NEW append, NEW g
  PROVE  /\ SetSlot(g_fd, i, append, g)[i] = [used |-> TRUE, append |-> append, f |-> g]
         /\ \A j \in Slots : j # i => SetSlot(g_fd, i, append, g)[j] = g_fd[j]
  BY DEF TableInv, SetSlot

LEMMA OpenedDescs ==
  ASSUME TableInv, NEW i \in Slots, NEW append, NEW g,
         NEW w, \A j \in Slots \ {i} : g_fd[j].used => w[g_fd[j].f.name].size = vol[g_fd[j].f.name].size
  PROVE  DescsOf(w, SetSlot(g_fd, i, append, g)) =
           [DescsOf(vol, g_fd) EXCEPT ![FD_BASE + i] = Desc(w, append, g)]
<1> DEFINE new == SetSlot(g_fd, i, append, g)
<1>1. /\ new[i] = [used |-> TRUE, append |-> append, f |-> g]
      /\ \A j \in Slots : j # i => new[j] = g_fd[j]
  BY OpenedSlots
<1> HIDE DEF new
<1>2. DescsOf(w, new) = [DescsOf(vol, g_fd) EXCEPT ![FD_BASE + i] = DescOf(w, new[i])]
  <2>1. Framed(vol, g_fd, w, new, i)
    BY <1>1 DEF Framed
  <2>. QED BY <2>1, DescsFrame
<1>3. DescOf(w, new[i]) = Desc(w, append, g)
  BY <1>1 DEF DescOf
<1>. QED BY <1>2, <1>3 DEF new

\* An open leaves the entries of the files that are open.
LEMMA OpensBeside ==
  ASSUME ~Shared, FilesInv, Caches(vol, g_fd), NEW path \in Names, NEW acc, MayOpen(path, acc),
         NEW w, Elsewhere(vol, w, path), ~Begins(vol, path, acc) => w = vol,
         NEW j \in Slots, g_fd[j].used
  PROVE  w[g_fd[j].f.name] = vol[g_fd[j].f.name]
<1>1. g_fd[j].f.name \in Names
  BY FilData DEF FilesInv, OpenFiles
<1>2. CASE g_fd[j].f.name = path
  <2>1. "CREATE_ALWAYS" \notin acc /\ vol[path].kind = "file"
    BY <1>2, SharesWithReaders
  <2>2. ~Begins(vol, path, acc)
    BY <2>1 DEF Begins
  <2>. QED BY <2>2
<1>3. CASE g_fd[j].f.name # path
  BY <1>1, <1>3 DEF Elsewhere
<1>. QED BY <1>2, <1>3

\* What the opened FIL and volume are, whatever became of the seek to the end.
IsOpened(path, acc, append, w, g) ==
  /\ GoodVolume(w) /\ GoodFil(w, g) /\ Elsewhere(vol, w, path)
  /\ g.name = path /\ g.can = acc \cap {"READ", "WRITE"} /\ g.objsize = w[path].size
  /\ g.fptr \in IF append THEN 0 .. g.objsize ELSE {0}
  /\ w[path] = EntryOpened(vol, path, acc)
  /\ ~Begins(vol, path, acc) => w = vol
  /\ vol[path].kind # "dir"

LEMMA OpenedCaches ==
  ASSUME ~Shared, FilesInv, Caches(vol, g_fd), NEW path \in Names, NEW acc, MayOpen(path, acc),
         NEW i \in Slots, ~g_fd[i].used, NEW append, NEW w, NEW g,
         IsOpened(path, acc, append, w, g)
  PROVE  Caches(w, SetSlot(g_fd, i, append, g))
<1> DEFINE new == SetSlot(g_fd, i, append, g)
<1>1. /\ new[i].used /\ new[i].f = g
      /\ \A j \in Slots : j # i => new[j] = g_fd[j]
  <2>1. TableInv
    BY DEF FilesInv
  <2>2. /\ new[i] = [used |-> TRUE, append |-> append, f |-> g]
        /\ \A j \in Slots : j # i => new[j] = g_fd[j]
    BY <2>1, OpenedSlots
  <2> HIDE DEF new
  <2>3. QED BY <2>2
<1>2. g.name = path /\ g.objsize = w[path].size /\ w[path].size \in Nat
  BY EntryType DEF IsOpened, GoodVolume
<1>3. ASSUME NEW j \in Slots, g_fd[j].used, g_fd[j].f.name = path
      PROVE  w = vol /\ "WRITE" \notin g.can /\ "WRITE" \notin g_fd[j].f.can
  <2>1. "CREATE_ALWAYS" \notin acc /\ "WRITE" \notin acc /\ "WRITE" \notin g_fd[j].f.can
        /\ vol[path].kind = "file"
    BY <1>3, SharesWithReaders
  <2>2. ~Begins(vol, path, acc)
    BY <2>1 DEF Begins
  <2>3. QED BY <2>1, <2>2 DEF IsOpened
<1> HIDE DEF new
<1>4. ASSUME NEW j \in Slots, new[j].used PROVE Fresh(w, new[j].f)
  <2>1. CASE j = i
    BY <1>1, <1>2, <2>1 DEF Fresh
  <2>2. CASE j # i
    <3>1. new[j] = g_fd[j] /\ g_fd[j].used /\ Fresh(vol, g_fd[j].f)
      BY <1>1, <1>4, <2>2 DEF Caches
    <3>2. g_fd[j].f.name \in Names
      BY <3>1, FilData DEF FilesInv, OpenFiles
    <3>3. w[g_fd[j].f.name] = vol[g_fd[j].f.name]
      BY <3>1, OpensBeside DEF IsOpened
    <3>4. QED BY <3>1, <3>3 DEF Fresh
  <2>3. QED BY <2>1, <2>2
<1>5. ASSUME NEW j \in Slots, NEW k \in Slots, new[j].used, new[k].used, j # k,
             new[j].f.name = new[k].f.name
      PROVE  "WRITE" \notin new[j].f.can
  <2>1. CASE j = i
    <3>1. k # i /\ g_fd[k].used /\ g_fd[k].f.name = path
      BY <1>1, <1>2, <1>5, <2>1
    <3>2. QED BY <1>1, <1>3, <2>1, <3>1
  <2>2. CASE k = i
    <3>1. j # i /\ new[j] = g_fd[j] /\ g_fd[j].used /\ g_fd[j].f.name = path
      BY <1>1, <1>2, <1>5, <2>2
    <3>2. QED BY <1>3, <3>1
  <2>3. CASE j # i /\ k # i
    BY <1>1, <1>5, <2>3 DEF Caches
  <2>4. QED BY <2>1, <2>2, <2>3
<1>6. ASSUME NEW n \in Names, w[n].kind = "none" PROVE w[n].size = 0
  <2>1. CASE n = path
    BY <2>1, <1>6 DEF IsOpened, GoodFil
  <2>2. CASE n # path
    BY <2>2, <1>6 DEF IsOpened, Elsewhere, Caches
  <2>3. QED BY <2>1, <2>2
<1>7. QED BY <1>4, <1>5, <1>6 DEF Caches, new

\* The file that an open makes or finds.
LEMMA OpenedContent ==
  ASSUME ~Shared, FilesInv, Caches(vol, g_fd), NEW path \in Names, NEW acc, MayOpen(path, acc),
         NEW append, NEW w, NEW g, IsOpened(path, acc, append, w, g)
  PROVE  \/ SubSeq(w[path].data, 1, g.objsize) = <<>>
         \/ SubSeq(w[path].data, 1, g.objsize) = HeldIn(vol, g_fd, path)
<1> DEFINE c == SubSeq(w[path].data, 1, g.objsize)
<1>1. GoodVolume(vol) /\ GoodFil(w, g) /\ GoodVolume(w) /\ g.name = path /\ g.objsize = w[path].size
  BY DEF FilesInv, IsOpened
<1>2. g.objsize \in Nat /\ g.objsize <= Len(w[path].data) /\ w[path].data \in Seq(Clusters)
  BY <1>1, FilData
<1>4. CASE Begins(vol, path, acc)
  <2>1. w[path] = Empty
    BY <1>4 DEF IsOpened, EntryOpened
  <2>2. w[path].data = <<>> /\ g.objsize = 0
    BY <1>1, <2>1 DEF Empty
  <2>3. c = <<>>
    BY <1>2, <2>2, EmptyPrefix
  <2>4. QED BY <2>3
<1>5. CASE ~Begins(vol, path, acc)
  <2>1. w = vol /\ g.objsize = vol[path].size
    BY <1>1, <1>5 DEF IsOpened
  <2>2. HeldIn(vol, g_fd, path) = SubSeq(vol[path].data, 1, vol[path].size)
    <3>1. CASE \E j \in Slots : g_fd[j].used /\ g_fd[j].f.name = path
      <4>1. PICK j \in Slots : g_fd[j].used /\ g_fd[j].f.name = path
        BY <3>1
      <4>2. g_fd[j].f.objsize = vol[path].size
        BY <4>1, SharesWithReaders
      <4>3. OpenFiles(vol, g_fd)
        BY DEF FilesInv
      <4>4. HeldIn(vol, g_fd, g_fd[j].f.name) =
              SubSeq(vol[g_fd[j].f.name].data, 1, g_fd[j].f.objsize)
        BY <1>1, <4>1, <4>3, HeldOpen
      <4>5. QED BY <4>1, <4>2, <4>4
    <3>2. CASE ~ \E j \in Slots : g_fd[j].used /\ g_fd[j].f.name = path
      <4>1. OpenedIn(g_fd, path) = {}
        BY <3>2 DEF OpenedIn
      <4>2. QED BY <1>1, <4>1, HeldIdle
    <3>3. QED BY <3>1, <3>2
  <2>3. QED BY <2>1, <2>2
<1>6. QED BY <1>4, <1>5

\* A successful open, seen in the files and the descriptors.
LEMMA OpenedKept ==
  ASSUME ~Shared, FilesInv, OpenFiles(vol', g_fd'), Caches(vol, g_fd), NEW path \in Names,
         NEW acc, MayOpen(path, acc), NEW i \in Slots, ~g_fd[i].used, NEW append \in BOOLEAN,
         NEW w, NEW g, IsOpened(path, acc, append, w, g),
         vol' = w, g_fd' = SetSlot(g_fd, i, append, g), Posix!Returns(FD_BASE + i)
  PROVE  Kept
<1> DEFINE new == SetSlot(g_fd, i, append, g)
           c == SubSeq(w[path].data, 1, g.objsize)
           fd == FD_BASE + i
           e == [name |-> path, can |-> g.can, append |-> append, pos |-> g.fptr, unsure |-> 0]
<1>1. TableInv /\ GoodVolume(w) /\ GoodFil(w, g) /\ g.name = path
  BY DEF FilesInv, IsOpened
<1>2. /\ new[i].used /\ new[i].f = g
      /\ \A j \in Slots : j # i => new[j] = g_fd[j]
  <2>1. /\ new[i] = [used |-> TRUE, append |-> append, f |-> g]
        /\ \A j \in Slots : j # i => new[j] = g_fd[j]
    BY <1>1, OpenedSlots
  <2> HIDE DEF new
  <2>2. QED BY <2>1
<1>3. Caches(w, new)
  BY OpenedCaches
<1>4. OpenFiles(w, new)
  OBVIOUS
<1>5. c \in {<<>>, HeldIn(vol, g_fd, path)} /\ Len(c) = g.objsize
  <2>1. \/ SubSeq(w[path].data, 1, g.objsize) = <<>>
        \/ SubSeq(w[path].data, 1, g.objsize) = HeldIn(vol, g_fd, path)
    BY OpenedContent
  <2>2. Len(SubSeq(w[path].data, 1, g.objsize)) = g.objsize
    <3>1. g.objsize \in Nat /\ g.objsize <= Len(w[path].data) /\ w[path].data \in Seq(Clusters)
      BY <1>1, FilData
    <3>2. QED BY <3>1, PrefixType
  <2>3. QED BY <2>1, <2>2
<1> HIDE DEF new, c
<1>6. HeldIn(w, new, path) = c
  <2>1. HeldIn(w, new, new[i].f.name) = SubSeq(w[new[i].f.name].data, 1, new[i].f.objsize)
    BY <1>1, <1>2, <1>3, <1>4, HeldOpen
  <2>2. QED BY <1>1, <1>2, <2>1 DEF c
<1>7. ASSUME NEW n \in Names \ {path}
      PROVE  w[n].kind = vol[n].kind /\ HeldIn(w, new, n) = HeldIn(vol, g_fd, n)
  <2>1. w[n] = vol[n]
    BY DEF IsOpened, Elsewhere
  <2>2. OpenedIn(new, n) = OpenedIn(g_fd, n)
    BY <1>1, <1>2 DEF OpenedIn
  <2>3. \A j \in OpenedIn(g_fd, n) : new[j].f.objsize = g_fd[j].f.objsize
    BY <1>1, <1>2 DEF OpenedIn
  <2>4. QED BY <2>1, <2>2, <2>3, HeldFrame
<1>8. w[path].kind = "file"
  BY <1>1 DEF GoodFil
<1>9. Files' = [Files EXCEPT ![path] = Posix!File(c)]
  <2>1. Files = [n \in Names |-> [kind |-> vol[n].kind, data |-> HeldIn(vol, g_fd, n)]]
    BY ContentIs DEF FilesOf
  <2>2. Files' = [n \in Names |-> [kind |-> w[n].kind, data |-> HeldIn(w, new, n)]]
    BY NextFiles DEF FilesOf, new
  <2>3. [kind |-> w[path].kind, data |-> HeldIn(w, new, path)] = Posix!File(c)
    BY <1>6, <1>8 DEF Posix!File
  <2>4. QED BY <1>7, <2>1, <2>2, <2>3
<1>10. Descs' = [Descs EXCEPT ![fd] = e]
  <2>1. \A j \in Slots \ {i} : g_fd[j].used => w[g_fd[j].f.name].size = vol[g_fd[j].f.name].size
    BY OpensBeside DEF IsOpened
  <2>2. DescsOf(w, new) = [DescsOf(vol, g_fd) EXCEPT ![fd] = Desc(w, append, g)]
    BY <1>1, <2>1, OpenedDescs DEF new
  <2>3. UnsureOf(w, g) = 0
    <3>1. g.objsize \in Nat /\ w[g.name].size = g.objsize
      BY <1>1, FilData DEF IsOpened
    <3>. QED BY <3>1 DEF UnsureOf
  <2>4. Desc(w, append, g) = e
    BY <1>1, <2>3 DEF Desc
  <2>. QED BY <2>2, <2>4, NextFiles, DescsAre DEF new
<1>11. fd \in Fds /\ fd \notin Posix!Opens
  <2>1. fd \in Fds /\ fd - FD_BASE = i
    BY TableAssumption DEF FD_BASE, Fds, Slots
  <2>2. DescsOf(vol, g_fd)[fd] = NoDescriptor
    BY <2>1 DEF DescsOf, DescOf
  <2>3. Descs[fd] = Posix!Unopened
    BY <2>2, DescsAre DEF Posix!Unopened, NoDescriptor
  <2>4. QED BY <2>1, <2>3 DEF Posix!Opens
<1>12. Files[path].kind # "dir" /\ Files[path].data = HeldIn(vol, g_fd, path)
  BY ContentIs DEF FilesOf, IsOpened
<1>13. g.can \in SUBSET {"READ", "WRITE"} /\ g.fptr \in IF append THEN 0 .. Len(c) ELSE {0}
  BY <1>5 DEF IsOpened
<1>14. Posix!Open(fd, path, g.can, append)
  <2>1. Posix!Returns(fd)
    OBVIOUS
  <2> HIDE DEF fd
  <2>2. c \in {<<>>, Files[path].data}
    BY <1>5, <1>12
  <2>3. \E pos \in IF append THEN 0 .. Len(c) ELSE {0} :
          Descs' = [Descs EXCEPT ![fd] = [name |-> path, can |-> g.can, append |-> append,
                                          pos |-> pos, unsure |-> 0]]
    BY <1>10, <1>13
  <2>. QED BY <1>9, <1>11, <1>12, <2>1, <2>2, <2>3 DEF Posix!Open
<1>15. Posix!Next
  <2> HIDE DEF fd
  <2>1. QED BY <1>11, <1>13, <1>14 DEF Posix!Next
<1>16. Lengthens
  <2>1. \A j \in Slots : g_fd[j].used => g_fd'[j] = g_fd[j]
    BY <1>2 DEF new
  <2>2. QED BY <2>1 DEF Lengthens
<1>17. QED BY <1>3, <1>15, <1>16 DEF Kept, new

\* An open that the disk ended after it made or emptied the file.
LEMMA BeginKept ==
  ASSUME ~Shared, FilesInv, GoodVolume(vol'), Caches(vol, g_fd), NEW path \in Names,
         NEW acc, MayOpen(path, acc), \A j \in Slots : g_fd'[j] = g_fd[j], Elsewhere(vol, vol', path),
         vol'[path] = EntryOpened(vol, path, acc), ~Begins(vol, path, acc) => vol' = vol,
         vol[path].kind # "dir", Posix!Breaks
  PROVE  Kept
<1>1. CASE ~Begins(vol, path, acc)
  BY <1>1, FailsSlots
<1>2. CASE Begins(vol, path, acc)
  <2>1. Idle(path)
    <3>1. ASSUME NEW j \in Slots, g_fd[j].used, g_fd[j].f.name = path PROVE FALSE
      BY <1>2, <3>1, SharesWithReaders DEF Begins
    <3>. QED BY <3>1 DEF Idle, Opened
  <2>2. vol'[path] = Empty /\ Empty.kind = "file"
    BY <1>2 DEF EntryOpened, Empty
  <2> DEFINE P == {path}
  <2>3. /\ P \in SUBSET Names /\ \A n \in P : Idle(n)
        /\ \A n \in Names \ P : vol'[n] = vol[n]
        /\ \A n \in P : vol'[n].kind = "none" => vol'[n].size = 0
    BY <2>1, <2>2 DEF Elsewhere
  <2> HIDE DEF P
  <2>4. /\ Caches(vol', g_fd') /\ Lengthens /\ Descs' = Descs
        /\ Files' = [n \in Names |-> IF n \in P THEN EntryIs(vol'[n]) ELSE Files[n]]
    BY <2>3, NamesChange
  <2>5. Files' = [Files EXCEPT ![path] = Posix!File(<<>>)]
    <3>1. Files = [n \in Names |-> Files[n]]
      BY DEF Files
    <3>2. Empty.data = <<>> /\ Empty.size = 0 /\ <<>> \in Seq(Clusters)
      BY EmptySeq DEF Empty
    <3>3. EntryIs(Empty) = [kind |-> "file", data |-> SubSeq(<<>>, 1, 0)]
      BY <2>2, <3>2 DEF EntryIs
    <3>4. EntryIs(vol'[path]) = Posix!File(<<>>)
      BY <2>2, <3>2, <3>3, EmptyPrefix DEF Posix!File
    <3>. QED BY <2>4, <3>1, <3>4 DEF P
  <2>6. Posix!Idle(path) /\ Files[path].kind # "dir"
    BY <2>1, IdleNames, FilesKind
  <2>7. Posix!Begin(path)
    BY <2>4, <2>5, <2>6 DEF Posix!Begin
  <2>. QED BY <2>4, <2>7 DEF Kept, Posix!Next
<1>. QED BY <1>1, <1>2

LEMMA OpensSlotKept ==
  ASSUME ~Shared, FilesInv, GoodVolume(vol'), OpenFiles(vol', g_fd'), Caches(vol, g_fd), NEW path \in Names,
         NEW acc, MayOpen(path, acc), NEW append \in BOOLEAN, NEW i \in fd_alloc,
         OpensSlot(i, path, acc, append)
  PROVE  Kept
<1> DEFINE w == VolOpened(vol, path, acc)
           f == FilOpened(vol, path, acc)
<1>1. i \in Slots /\ ~g_fd[i].used
  BY DEF fd_alloc
<1>2. TableInv /\ GoodVolume(vol) /\ vol[path] \in Entry
  BY DEF FilesInv, GoodVolume
<1>3. PICK o \in f_open(vol, path, acc) :
        /\ Answers(o.fr, FD_BASE + i)
        /\ IF o.fr = "OK"
             THEN \E at \in AppendSeek(o.vol, o.fil, append) :
                    /\ vol' = at.vol
                    /\ g_fd' = SetSlot(g_fd, i, append, at.fil)
             ELSE vol' = o.vol /\ fd_free(i)
  BY DEF OpensSlot, SetSlot
<1>4. ASSUME o.fr # "OK" PROVE vol' = o.vol /\ \A j \in Slots : g_fd'[j] = g_fd[j]
  <2>1. g_fd' = Freed(g_fd, i) /\ g_fd[i] = FreeSlot
    BY <1>1, <1>2, <1>3, <1>4 DEF fd_free, Freed, TableInv
  <2>. QED BY <1>1, <1>2, <1>3, <1>4, <2>1 DEF Freed, TableInv
<1>5. CASE o.fr \in {"DISK_ERR", "NO_FILE", "DENIED", "EXIST"} /\ o.vol = vol
  <2>1. Posix!Returns(-1) \/ Posix!Breaks
    BY <1>3, <1>5, AnswerIs
  <2>. QED BY <1>4, <1>5, <2>1, FailsSlots
<1>6. CASE o.fr = "DISK_ERR" /\ o.vol = w /\ OpenResult(vol[path], acc) = "OK"
  <2>1. /\ Elsewhere(vol, w, path) /\ w[path] = EntryOpened(vol, path, acc)
        /\ ~Begins(vol, path, acc) => w = vol
    BY <1>2, <1>6, OpenIsGood
  <2>2. vol[path].kind # "dir"
    BY <1>2, <1>6, OpenResults
  <2>3. Posix!Breaks /\ vol' = w /\ \A j \in Slots : g_fd'[j] = g_fd[j]
    BY <1>3, <1>4, <1>6, AnswerIs
  <2> HIDE DEF w
  <2>. QED BY <2>1, <2>2, <2>3, BeginKept
<1>7. CASE o.fr = "OK" /\ o.vol = w /\ o.fil = f /\ OpenResult(vol[path], acc) = "OK"
  <2>1. PICK at \in AppendSeek(w, f, append) :
          vol' = at.vol /\ g_fd' = SetSlot(g_fd, i, append, at.fil)
    BY <1>3, <1>7
  <2>2. /\ GoodVolume(w) /\ GoodFil(w, f) /\ Elsewhere(vol, w, path)
        /\ f.name = path /\ f.can = acc \cap {"READ", "WRITE"} /\ f.fptr = 0 /\ ~f.err
        /\ f.objsize = w[path].size
        /\ w[path] = EntryOpened(vol, path, acc)
        /\ ~Begins(vol, path, acc) => w = vol
    BY <1>2, <1>7, OpenIsGood
  <2> HIDE DEF w, f
  <2>3. /\ at.vol = w /\ GoodFil(w, at.fil) /\ SameBut(f, at.fil)
        /\ at.fil.fptr \in IF append THEN 0 .. f.objsize ELSE {0}
    BY <2>1, <2>2, AppendSeekPlaces
  <2>4. vol[path].kind # "dir"
    BY <1>2, <1>7, OpenResults
  <2>5. IsOpened(path, acc, append, w, at.fil)
    BY <2>2, <2>3, <2>4 DEF IsOpened, SameBut
  <2>6. Posix!Returns(FD_BASE + i)
    <3>1. FD_BASE + i # -1
      BY <1>1 DEF FD_BASE, Slots
    <3> DEFINE n == FD_BASE + i
    <3> HIDE DEF n
    <3>2. Answers(o.fr, n) /\ n # -1
      BY <1>3, <3>1 DEF n
    <3>3. Posix!Returns(n)
      BY <1>7, <3>2, AnswerIs
    <3>. QED BY <3>3 DEF n
  <2>7. QED BY <1>1, <2>1, <2>3, <2>5, <2>6, OpenedKept
<1>8. \/ o = Outcome("DISK_ERR", vol, Closed, 0)
      \/ /\ OpenResult(vol[path], acc) # "OK"
         /\ o = Outcome(OpenResult(vol[path], acc), vol, Closed, 0)
      \/ /\ OpenResult(vol[path], acc) = "OK"
         /\ o = Outcome("DISK_ERR", w, Closed, 0)
      \/ /\ OpenResult(vol[path], acc) = "OK"
         /\ o = Outcome("OK", w, f, 0)
  BY OpenOutcomes
<1> HIDE DEF w, f
<1>9. QED BY <1>2, <1>5, <1>6, <1>7, <1>8, OpenResults, OutcomeFields

LEMMA OpenKept ==
  ASSUME ~Shared, FilesInv, GoodVolume(vol'), OpenFiles(vol', g_fd'), Caches(vol, g_fd), Opening
  PROVE  Kept
<1>1. CASE \E path \in Names : _open(path, "3", {})
  <2>1. PICK path \in Names : _open(path, "3", {})
    BY <1>1
  <2>2. "3" \notin DOMAIN Access
    BY DEF Access
  <2>3. Refuses("EINVAL")
    BY <2>1, <2>2 DEF _open
  <2>4. QED BY <2>3, FailsUnmoved, RefusalIs DEF Refuses
<1>2. CASE \E path \in Names, access \in DOMAIN Access, oflag \in FLAGS :
             MayOpen(path, Mode(access, oflag)) /\ _open(path, access, oflag)
  <2>1. PICK path \in Names, access \in DOMAIN Access, oflag \in FLAGS :
               MayOpen(path, Mode(access, oflag)) /\ _open(path, access, oflag)
    BY <1>2
  <2>2. CASE Refuses("EMFILE")
    BY <2>2, FailsUnmoved, RefusalIs DEF Refuses
  <2>3. CASE \E i \in fd_alloc : OpensSlot(i, path, Mode(access, oflag), "APPEND" \in oflag)
    <3>1. ("APPEND" \in oflag) \in BOOLEAN
      BY SMT
    <3>2. QED BY <2>1, <2>3, <3>1, OpensSlotKept
  <2>4. QED BY <2>1, <2>2, <2>3 DEF _open
<1>3. QED BY <1>1, <1>2 DEF Opening

--------------------------------------------------------------------------------
(* The calls on names.                                                        *)

\* Nobody has open what is not there.
LEMMA AbsentIsIdle ==
  ASSUME FilesInv, Caches(vol, g_fd), NEW n \in Names, vol[n].kind = "none"
  PROVE  Idle(n) /\ Files[n] = Posix!Absent
<1>1. Idle(n)
  <2>1. ASSUME NEW i \in Slots, g_fd[i].used, g_fd[i].f.name = n PROVE FALSE
    BY <2>1 DEF FilesInv, OpenFiles, GoodFil
  <2>2. QED BY <2>1 DEF Idle, Opened
<1>2. vol[n] \in Entry /\ vol[n].size = 0
  BY DEF FilesInv, GoodVolume, Caches
<1>3. QED BY <1>1, <1>2, IdleNames, EntriesAre

\* How a call on a name answers.
NameAnswers(fr) ==
  /\ fr \in {"OK", "DISK_ERR"} => Posix!Does
  /\ fr \in {"DISK_ERR", "NO_FILE", "EXIST", "DENIED"} => Posix!Returns(-1) \/ Posix!Breaks
  /\ fr = "OK" => Posix!Returns(0)

LEMMA NamesAnswer ==
  ASSUME NEW fr, Answers(fr, 0)
  PROVE  NameAnswers(fr)
  BY AnswerIs DEF NameAnswers, Posix!Does

LEMMA UnlinkKept ==
  ASSUME FilesInv, GoodVolume(vol'), Caches(vol, g_fd), NEW path \in Names,
         Idle(path), _unlink(path)
  PROVE  Kept
<1>1. PICK o \in f_unlink(vol, path) : Changes(o)
  BY DEF _unlink
<1>2. \/ o.vol = vol /\ o.fr \in {"DISK_ERR", "NO_FILE"}
      \/ /\ o.fr \in {"OK", "DISK_ERR"} /\ vol[path].kind # "none"
         /\ GoodVolume(o.vol) /\ Elsewhere(vol, o.vol, path) /\ o.vol[path] = None
  BY UnlinkOutcomes DEF FilesInv
<1>3. NameAnswers(o.fr) /\ vol' = o.vol /\ UNCHANGED g_fd
  BY <1>1, NamesAnswer DEF Changes
<1>4. CASE o.vol = vol /\ o.fr \in {"DISK_ERR", "NO_FILE"}
  BY <1>3, <1>4, FailsUnmoved DEF NameAnswers
<1>5. CASE /\ o.fr \in {"OK", "DISK_ERR"} /\ vol[path].kind # "none"
           /\ Elsewhere(vol, o.vol, path) /\ o.vol[path] = None
  <2>1. /\ \A n \in Names \ {path} : vol'[n] = vol[n]
        /\ vol'[path] = None /\ None.size = 0
    BY <1>3, <1>5, NoneIsGood DEF Elsewhere
  <2> DEFINE P == {path}
  <2>2. /\ P \in SUBSET Names /\ \A n \in P : Idle(n)
        /\ \A n \in Names \ P : vol'[n] = vol[n]
        /\ \A n \in P : vol'[n].kind = "none" => vol'[n].size = 0
    BY <2>1
  <2> HIDE DEF P
  <2>3. /\ Caches(vol', g_fd') /\ Lengthens /\ Descs' = Descs
        /\ Files' = [n \in Names |-> IF n \in P THEN EntryIs(vol'[n]) ELSE Files[n]]
    BY <1>3, <2>2, NamesChange
  <2>4. Files' = [Files EXCEPT ![path] = Posix!Absent]
    <3>1. Files = [n \in Names |-> Files[n]]
      BY DEF Files
    <3>2. EntryIs(vol'[path]) = Posix!Absent
      BY <2>1, EntriesAre
    <3>3. QED BY <2>3, <3>1, <3>2 DEF P
  <2>5. Files[path] # Posix!Absent
    BY <1>5, FilesKind, EntriesAre
  <2>6. Posix!Unlink(path)
    BY <1>3, <1>5, <2>3, <2>4, <2>5, IdleNames DEF Posix!Unlink, NameAnswers
  <2>7. QED BY <2>3, <2>6 DEF Kept, Posix!Next
<1>6. QED BY <1>2, <1>4, <1>5

LEMMA MkdirKept ==
  ASSUME FilesInv, GoodVolume(vol'), Caches(vol, g_fd), NEW path \in Names, _mkdir(path)
  PROVE  Kept
<1>1. PICK o \in f_mkdir(vol, path) : Changes(o)
  BY DEF _mkdir
<1>2. \/ o.vol = vol /\ o.fr \in {"DISK_ERR", "EXIST", "DENIED"}
      \/ /\ o.fr \in {"OK", "DISK_ERR"} /\ vol[path].kind = "none"
         /\ GoodVolume(o.vol) /\ Elsewhere(vol, o.vol, path) /\ o.vol[path] = Directory
  BY MkdirOutcomes DEF FilesInv
<1>3. NameAnswers(o.fr) /\ vol' = o.vol /\ UNCHANGED g_fd
  BY <1>1, NamesAnswer DEF Changes
<1>4. CASE o.vol = vol /\ o.fr \in {"DISK_ERR", "EXIST", "DENIED"}
  BY <1>3, <1>4, FailsUnmoved DEF NameAnswers
<1>5. CASE /\ o.fr \in {"OK", "DISK_ERR"} /\ vol[path].kind = "none"
           /\ Elsewhere(vol, o.vol, path) /\ o.vol[path] = Directory
  <2>1. /\ \A n \in Names \ {path} : vol'[n] = vol[n]
        /\ vol'[path] = Directory /\ Directory.size = 0
    BY <1>3, <1>5, NoneIsGood DEF Elsewhere
  <2>2. Idle(path) /\ Files[path] = Posix!Absent
    BY <1>5, AbsentIsIdle
  <2> DEFINE P == {path}
  <2>3. /\ P \in SUBSET Names /\ \A n \in P : Idle(n)
        /\ \A n \in Names \ P : vol'[n] = vol[n]
        /\ \A n \in P : vol'[n].kind = "none" => vol'[n].size = 0
    BY <2>1, <2>2
  <2> HIDE DEF P
  <2>4. /\ Caches(vol', g_fd') /\ Lengthens /\ Descs' = Descs
        /\ Files' = [n \in Names |-> IF n \in P THEN EntryIs(vol'[n]) ELSE Files[n]]
    BY <1>3, <2>3, NamesChange
  <2>5. Files' = [Files EXCEPT ![path] = [kind |-> "dir", data |-> <<>>]]
    <3>1. Files = [n \in Names |-> Files[n]]
      BY DEF Files
    <3>2. EntryIs(vol'[path]) = [kind |-> "dir", data |-> <<>>]
      BY <2>1, EntriesAre
    <3>3. QED BY <2>4, <3>1, <3>2 DEF P
  <2>6. Posix!Mkdir(path)
    BY <1>3, <1>5, <2>2, <2>4, <2>5 DEF Posix!Mkdir, NameAnswers
  <2>7. QED BY <2>4, <2>6 DEF Kept, Posix!Next
<1>6. QED BY <1>2, <1>4, <1>5

LEMMA RenameKept ==
  ASSUME FilesInv, GoodVolume(vol'), Caches(vol, g_fd), NEW old \in Names, NEW new \in Names,
         Idle(old), _rename(old, new)
  PROVE  Kept
<1>1. PICK o \in f_rename(vol, old, new) : Changes(o)
  BY DEF _rename
<1>2. \/ o.vol = vol /\ o.fr \in {"DISK_ERR", "NO_FILE", "EXIST", "OK"}
         /\ (o.fr = "OK" => old = new /\ vol[old].kind # "none")
      \/ /\ o.fr \in {"OK", "DISK_ERR"} /\ vol[old].kind # "none" /\ vol[new].kind = "none" /\ old # new
         /\ o.vol[old] = None /\ o.vol[new] = vol[old]
         /\ \A n \in Names \ {old, new} : o.vol[n] = vol[n]
  BY RenameOutcomes DEF FilesInv
<1>3. NameAnswers(o.fr) /\ vol' = o.vol /\ UNCHANGED g_fd
  BY <1>1, NamesAnswer DEF Changes
<1>4. CASE o.vol = vol /\ o.fr \in {"DISK_ERR", "NO_FILE", "EXIST"}
  BY <1>3, <1>4, FailsUnmoved DEF NameAnswers
<1>5. CASE o.vol = vol /\ o.fr = "OK" /\ old = new /\ vol[old].kind # "none"
  <2>1. Caches(vol', g_fd') /\ Files' = Files /\ Descs' = Descs /\ Lengthens
    BY <1>3, <1>5, NothingMoves
  <2>2. Files[old] # Posix!Absent
    BY <1>5, FilesKind, EntriesAre
  <2>3. [[Files EXCEPT ![old] = Posix!Absent] EXCEPT ![old] = Files[old]] = Files
    <3>1. Files = [n \in Names |-> Files[n]]
      BY DEF Files
    <3>2. QED BY <3>1
  <2>4. Posix!Rename(old, new)
    BY <1>3, <1>5, <2>1, <2>2, <2>3, IdleNames DEF Posix!Rename, NameAnswers
  <2>5. QED BY <2>1, <2>4 DEF Kept, Posix!Next
<1>6. CASE /\ o.fr \in {"OK", "DISK_ERR"} /\ vol[old].kind # "none" /\ vol[new].kind = "none" /\ old # new
           /\ o.vol[old] = None /\ o.vol[new] = vol[old]
           /\ \A n \in Names \ {old, new} : o.vol[n] = vol[n]
  <2>1. Idle(new) /\ Files[new] = Posix!Absent
    BY <1>6, AbsentIsIdle
  <2>2. None.size = 0
    BY NoneIsGood
  <2> DEFINE P == {old, new}
  <2>3. /\ P \in SUBSET Names /\ \A n \in P : Idle(n)
        /\ \A n \in Names \ P : vol'[n] = vol[n]
        /\ \A n \in P : vol'[n].kind = "none" => vol'[n].size = 0
    BY <1>3, <1>6, <2>1, <2>2
  <2> HIDE DEF P
  <2>4. /\ Caches(vol', g_fd') /\ Lengthens /\ Descs' = Descs
        /\ Files' = [n \in Names |-> IF n \in P THEN EntryIs(vol'[n]) ELSE Files[n]]
    BY <1>3, <2>3, NamesChange
  <2>5. Files' = [[Files EXCEPT ![old] = Posix!Absent] EXCEPT ![new] = Files[old]]
    <3>1. Files = [n \in Names |-> Files[n]]
      BY DEF Files
    <3>2. EntryIs(vol'[old]) = Posix!Absent
      BY <1>3, <1>6, EntriesAre
    <3>3. EntryIs(vol'[new]) = Files[old]
      BY <1>3, <1>6, IdleNames
    <3>4. [[Files EXCEPT ![old] = Posix!Absent] EXCEPT ![new] = Files[old]] =
            [n \in Names |-> IF n = new THEN Files[old]
                             ELSE IF n = old THEN Posix!Absent ELSE Files[n]]
      BY <3>1
    <3>5. QED BY <1>6, <2>4, <3>2, <3>3, <3>4 DEF P
  <2>6. Files[old] # Posix!Absent
    BY <1>6, FilesKind, EntriesAre
  <2>7. Posix!Rename(old, new)
    BY <1>3, <1>6, <2>1, <2>4, <2>5, <2>6, IdleNames DEF Posix!Rename, NameAnswers
  <2>8. QED BY <2>4, <2>7 DEF Kept, Posix!Next
<1>7. QED BY <1>2, <1>4, <1>5, <1>6

LEMMA CallKept ==
  ASSUME FilesInv, GoodVolume(vol'), OpenFiles(vol', g_fd'), Caches(vol, g_fd), Descriptors
  PROVE  Kept
<1>. PICK fd \in Fds :
       \/ BadDescriptor(fd)
       \/ \E n \in COUNTS : _read(fd, n)
       \/ \E n \in COUNTS, d \in Data : _write(fd, [j \in 1 .. n |-> d])
       \/ \E offset \in OFFSETS, whence \in {"SET", "CUR", "END", "3"} : _lseek(fd, offset, whence)
       \/ \E st \in BOOLEAN : _fstat(fd, st)
       \/ _close(fd)
  BY DEF Descriptors
<1>1. CASE BadDescriptor(fd)
  BY <1>1, BadKept
<1>2. CASE \E n \in COUNTS : _read(fd, n)
  BY <1>2, ReadKept, CountsAssumption
<1>3. CASE \E n \in COUNTS, d \in Data : _write(fd, [j \in 1 .. n |-> d])
  <2>1. PICK n \in COUNTS, d \in Data : _write(fd, [j \in 1 .. n |-> d])
    BY <1>3
  <2>2. n \in Nat
    BY CountsAssumption
  <2>3. [j \in 1 .. n |-> d] \in Seq(Data)
    BY <2>2
  <2>4. QED BY <2>1, <2>3, WriteKept
<1>4. CASE \E offset \in OFFSETS, whence \in {"SET", "CUR", "END", "3"} : _lseek(fd, offset, whence)
  BY <1>4, SeekKept, OffsetsAssumption
<1>5. CASE \E st \in BOOLEAN : _fstat(fd, st)
  BY <1>5, StatKept
<1>6. CASE _close(fd)
  BY <1>6, CloseKept
<1>7. QED BY <1>1, <1>2, <1>3, <1>4, <1>5, <1>6

LEMMA EntriesKept ==
  ASSUME FilesInv, GoodVolume(vol'), Caches(vol, g_fd), Entries
  PROVE  Kept
  BY UnlinkKept, MkdirKept, RenameKept DEF Entries

LEMMA CachesInit ==
  ASSUME Init
  PROVE  Caches(vol, g_fd) /\ Posix!Init
<1> DEFINE Old == [kind |-> "file", data |-> <<Junk>>, size |-> 1]
<1>1. FilesInv
  BY FilesInit
<1>2. \A i \in Slots : ~g_fd[i].used
  BY BlankIsFree DEF Init
<1>3. ASSUME NEW n \in Names PROVE vol[n] = None \/ vol[n] = Old
  BY DEF Init
<1>4. Caches(vol, g_fd)
  <2>1. \A n \in Names : vol[n].kind = "none" => vol[n].size = 0
    BY <1>3, NoneIsGood
  <2>2. QED BY <1>2, <2>1 DEF Caches
<1>5. EntryIs(None) = Posix!Absent /\ EntryIs(Old) = Posix!File(<<Junk>>)
  <2>1. SubSeq(<<Junk>>, 1, 1) = <<Junk>>
    <3> DEFINE s == <<Junk>>
    <3>1. s \in Seq({Junk}) /\ Len(s) = 1
      OBVIOUS
    <3> HIDE DEF s
    <3>2. SubSeq(s, 1, 1) = s
      BY <3>1
    <3>3. QED BY <3>2 DEF s
  <2>2. EntryIs(Old) = [kind |-> "file", data |-> <<Junk>>]
    BY <2>1 DEF EntryIs
  <2>3. QED BY <2>2, EntriesAre DEF Posix!File
<1> HIDE DEF Old
<1>6. ASSUME NEW n \in Names PROVE Files[n] \in {Posix!Absent} \cup {Posix!File(<<Junk>>)}
  <2>1. Idle(n)
    BY <1>2 DEF Idle, Opened
  <2>2. Files[n] = EntryIs(vol[n])
    BY <1>1, <2>1, IdleNames
  <2>3. QED BY <1>3, <1>5, <2>2
<1>7. Files \in [Names -> {Posix!Absent} \cup {Posix!File(<<Junk>>)}]
  <2>1. Files = [n \in Names |-> Files[n]]
    BY DEF Files
  <2>2. QED BY <1>6, <2>1
<1>8. Descs = [fd \in Fds |-> Posix!Unopened]
  BY <1>2 DEF Descs, Posix!Unopened, NoDescriptor
<1>9. DiskError = FALSE
  BY DEF Init, DiskError
<1>10. QED BY <1>4, <1>7, <1>8, <1>9 DEF Posix!Init, Init

LEMMA CachesStep ==
  ASSUME ~Shared, FilesInv, FilesInv', Caches(vol, g_fd), [Next]_vars
  PROVE  /\ Caches(vol', g_fd') /\ [Posix!Next]_(Posix!vars)
         /\ Lengthens \/ UNCHANGED vars
<1>1. GoodVolume(vol') /\ OpenFiles(vol', g_fd')
  BY DEF FilesInv
<1>2. CASE Next
  <2>1. Kept
    BY <1>1, <1>2, OpenKept, CallKept, StandardKept, EntriesKept DEF Next
  <2>2. QED BY <2>1 DEF Kept
<1>3. CASE UNCHANGED vars
  <2>1. UNCHANGED <<vol, g_fd>> /\ UNCHANGED <<ret, got>> /\ DiskError' = DiskError
    BY <1>3 DEF vars, DiskError
  <2>2. Caches(vol', g_fd') /\ Files' = Files /\ Descs' = Descs
    BY <2>1, NothingMoves
  <2>3. UNCHANGED Posix!vars
    BY <2>1, <2>2 DEF Posix!vars
  <2>4. QED BY <1>3, <2>2, <2>3
<1>4. QED BY <1>2, <1>3

CachesInv == Caches(vol, g_fd)

\* While the program heeds ffconf.h:288 (~Shared), what an open FIL believes of
\* its file's size and what the directory entry says never contradict: whoever
\* has a file open beside another only reads it, and a FIL is ahead of the entry
\* only if it may write and either has the modified flag, by which f_close will
\* record the size, or is aborted and writes no more.
THEOREM CachesAgree == ASSUME ~Shared PROVE Spec => []CachesInv
<1>1. Init => CachesInv
  BY CachesInit DEF CachesInv
<1>2. FilesInv /\ FilesInv' /\ CachesInv /\ [Next]_vars => CachesInv'
  BY CachesStep DEF CachesInv
<1>. QED
  BY <1>1, <1>2, FilesInvariant, PTL DEF Spec

\* Then a descriptor opened with O_APPEND only ever makes its file longer, on
\* every volume and whatever the disk answers, although _write and _open never
\* look at the result of the seek to the end (stubs.c): where that seek fails the
\* FIL is aborted, and the write with it.
THEOREM AppendsStayAtTheEnd == ASSUME ~Shared PROVE Spec => AppendsAtTheEnd
<1>1. FilesInv /\ FilesInv' /\ CachesInv /\ [Next]_vars => [Lengthens]_vars
  BY CachesStep DEF CachesInv
<1>2. Spec => [][Lengthens]_vars
  BY <1>1, FilesInvariant, CachesAgree, PTL DEF Spec
<1>. QED
  BY <1>2, PTL DEF AppendsAtTheEnd, Lengthens

\* And the calls are those of PosixFiles, files without caches: every step of
\* the descriptor table and the FatFs objects is one step of the abstract files,
\* with the content of a name read off the longest size anybody has for it.  That
\* includes what PosixFiles leaves open: what a write transferred before the disk
\* ended it stays while the file is open, and may be lost by its close.
THEOREM FilesWithoutCaches == ASSUME ~Shared PROVE Spec => ImplementsPosixFiles
<1>1. Init => Posix!Init
  BY CachesInit
<1>2. FilesInv /\ FilesInv' /\ CachesInv /\ [Next]_vars => [Posix!Next]_(Posix!vars)
  BY CachesStep DEF CachesInv
<1>. QED
  BY <1>1, <1>2, FilesInvariant, CachesAgree, PTL DEF Spec, ImplementsPosixFiles, Posix!Spec
=============================================================================

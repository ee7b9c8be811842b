----------------------------- MODULE PosixFiles ------------------------------
(* What the file calls of the kernel promise: names stand for sequences, a     *)
(* write is in the file at once for every reader, and a descriptor is a        *)
(* position in a file.  Nothing here is cached.  A call that is refused        *)
(* changes nothing.  One that the disk ends may have done all or part of what  *)
(* it was to do; what a write had appended by then is in the file, but is lost *)
(* when the descriptor is closed, even by a close that succeeds.  A close that *)
(* the disk ends may lose any part of the file's end.                          *)
EXTENDS Integers, Sequences

CONSTANTS Names, Data, Junk, Fds,
          LIMIT    \* no file is longer

VARIABLES
  files,           \* what each name stands for
  descs,           \* the open descriptors
  ret, got,        \* what the last call returned, and what it read
  disk             \* did the disk end it?

vars == <<files, descs, ret, got, disk>>

Absent == [kind |-> "none", data |-> <<>>]
File(c) == [kind |-> "file", data |-> c]
Unopened == [name |-> "", can |-> {}, append |-> FALSE, pos |-> 0, unsure |-> 0]

Opens == {fd \in Fds : descs[fd] # Unopened}
Content(fd) == files[descs[fd].name].data

Init ==
  /\ files \in [Names -> {Absent} \cup {File(<<Junk>>)}]
  /\ descs = [fd \in Fds |-> Unopened]
  /\ ret = 0 /\ got = <<>> /\ disk = FALSE

\* c with s written over it, or behind it, from position p on.
Put(c, p, s) == [j \in DOMAIN c \cup (p + 1 .. p + Len(s)) |-> IF j \in p + 1 .. p + Len(s) THEN s[j - p] ELSE c[j]]

Answers(n, d) == ret' = n /\ got' = <<>> /\ disk' = d
Returns(n)   == Answers(n, FALSE)
Breaks       == Answers(-1, TRUE)
\* A call on names succeeds, or the disk ends it when it is done.
Does         == Returns(0) \/ Breaks

Reposition(fd, p) == descs' = [descs EXCEPT ![fd].pos = p]

\* Whether an open creates or empties the file is its flags' business.
Open(fd, n, can, append) ==
  /\ Returns(fd)
  /\ fd \notin Opens /\ files[n].kind # "dir"
  /\ \E c \in {<<>>, files[n].data} :
       /\ files' = [files EXCEPT ![n] = File(c)]
       /\ \E pos \in IF append THEN 0 .. Len(c) ELSE {0} :
            descs' = [descs EXCEPT ![fd] = [name |-> n, can |-> can, append |-> append,
                                            pos |-> pos, unsure |-> 0]]

Read(fd) ==
  /\ "READ" \in descs[fd].can
  /\ \E k \in 0 .. Len(Content(fd)) - descs[fd].pos :
       /\ ret' = k
       /\ got' = SubSeq(Content(fd), descs[fd].pos + 1, descs[fd].pos + k)
       /\ Reposition(fd, descs[fd].pos + k)
  /\ disk' = FALSE
  /\ UNCHANGED files

\* s is what was transferred of what was asked for.  Nobody is sure of what a
\* write appended that the disk has ended.
Write(fd, s) ==
  LET old == Content(fd)
      at  == IF descs[fd].append THEN Len(old) ELSE descs[fd].pos
  IN  /\ "WRITE" \in descs[fd].can
      /\ files' = [files EXCEPT ![descs[fd].name].data = Put(old, at, s)]
      /\ \/ Returns(Len(s)) /\ Reposition(fd, at + Len(s))
         \/ /\ Breaks
            /\ \E k \in {0, at + Len(s) - Len(old)} :
                 k >= 0 /\ descs' = [descs EXCEPT ![fd].pos = at + Len(s), ![fd].unsure = k]

\* A file that may be written grows to reach the position, by anything.
Seek(fd, p) ==
  /\ Returns(p) \/ Breaks
  /\ p <= Len(Content(fd)) \/ "WRITE" \in descs[fd].can
  /\ \E tail \in [1 .. p - Len(Content(fd)) -> Data \cup {Junk}] :
       files' = [files EXCEPT ![descs[fd].name].data = Content(fd) \o tail]
  /\ Reposition(fd, p)

Stat(fd) == Returns(Len(Content(fd))) /\ UNCHANGED <<files, descs>>

\* The file without its last k.
Loses(fd, k) == files' = [files EXCEPT ![descs[fd].name].data = SubSeq(@, 1, Len(@) - k)]

Close(fd) ==
  /\ \/ Returns(0) /\ Loses(fd, descs[fd].unsure)
     \/ Breaks /\ \E k \in 0 .. Len(Content(fd)) : Loses(fd, k)
  /\ descs' = [descs EXCEPT ![fd] = Unopened]

\* Names in use are left alone.
Idle(n) == \A fd \in Opens : descs[fd].name # n

Unlink(n) ==
  /\ Does
  /\ Idle(n) /\ files[n] # Absent
  /\ files' = [files EXCEPT ![n] = Absent]
  /\ UNCHANGED descs

Rename(old, new) ==
  /\ Does
  /\ Idle(old) /\ files[old] # Absent
  /\ old = new \/ files[new] = Absent
  /\ files' = [[files EXCEPT ![old] = Absent] EXCEPT ![new] = files[old]]
  /\ UNCHANGED descs

Mkdir(n) ==
  /\ Does
  /\ files[n] = Absent
  /\ files' = [files EXCEPT ![n] = [kind |-> "dir", data |-> <<>>]]
  /\ UNCHANGED descs

\* A refused append may have gone to the end of the file.
Fail ==
  /\ Returns(-1) /\ UNCHANGED files
  /\ \/ UNCHANGED descs
     \/ \E fd \in Opens : descs[fd].append /\ Reposition(fd, Len(Content(fd)))

\* An open that the disk ends may have created or emptied the file.
Begin(n) ==
  /\ Breaks
  /\ Idle(n) /\ files[n].kind # "dir"
  /\ files' = [files EXCEPT ![n] = File(<<>>)]
  /\ UNCHANGED descs

\* A read or a seek that the disk ends leaves the position anywhere.
Break ==
  /\ Breaks /\ UNCHANGED files
  /\ \/ UNCHANGED descs
     \/ \E fd \in Opens, p \in 0 .. LIMIT : Reposition(fd, p)

\* The standard descriptors are not files.
Standard == Returns(0) /\ UNCHANGED <<files, descs>>

Next ==
  \/ Fail \/ Break \/ Standard
  \/ \E fd \in Fds, n \in Names, can \in SUBSET {"READ", "WRITE"}, append \in BOOLEAN :
       Open(fd, n, can, append)
  \/ \E fd \in Opens :
       \/ Read(fd) \/ Stat(fd) \/ Close(fd)
       \/ \E k \in 0 .. LIMIT : \E s \in [1 .. k -> Data] : Write(fd, s)
       \/ \E p \in 0 .. LIMIT : Seek(fd, p)
  \/ \E n \in Names : Begin(n) \/ Unlink(n) \/ Mkdir(n) \/ \E m \in Names : Rename(n, m)

Spec == Init /\ [][Next]_vars
=============================================================================

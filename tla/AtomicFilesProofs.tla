--------------------------- MODULE AtomicFilesProofs ------------------------
(***************************************************************************)
(* The proof that the file server implements AtomicFiles, for any number   *)
(* of clients, paths, files and commands, when every file has one path:    *)
(* each command takes effect at once, at one step of its work.             *)
(***************************************************************************)
EXTENDS FileServerProofs

-----------------------------------------------------------------------------
(* The steps and the progress of the commands *)

\* Cutting and joining.
LEMMA Pieces ==
  ASSUME NEW s \in Seq(Nat), NEW t \in Seq(Nat)
  PROVE  /\ Len(s) \in Nat /\ SubSeq(s, 1, 0) = <<>> /\ SubSeq(s, 1, Len(s)) = s
         /\ s \o <<>> = s /\ <<>> \o s = s
         /\ s \o t \in Seq(Nat) /\ Len(s \o t) = Len(s) + Len(t)
         /\ \A u \in Seq(Nat) : (s \o t) \o u = s \o (t \o u)
<1>1. Len(s) \in Nat
  BY LenProperties, Zenon
<1>2. SubSeq(s, 1, 0) = <<>> /\ SubSeq(s, 1, Len(s)) = s
  OBVIOUS
<1>3. s \o <<>> = s /\ <<>> \o s = s
  OBVIOUS
<1>4. s \o t \in Seq(Nat) /\ Len(s \o t) = Len(s) + Len(t)
  BY ConcatProperties, Zenon
<1>5. \A u \in Seq(Nat) : (s \o t) \o u = s \o (t \o u)
  OBVIOUS
<1> QED
  BY <1>1, <1>2, <1>3, <1>4, <1>5, Zenon

\* What a client reads from is its input.
LEMMA InputIs ==
  ASSUME FileTypes, LockInv, Descriptors, NEW c \in Clients, rfd[c] # None,
         wfd[c] = None \/ ~Self(c)
  PROVE  Input(c) = Bytes(rfd[c]) /\ Input(c) \in Seq(Nat) /\ Input(c) # None
<1>1. rfd[c] = dir[Source(c)] /\ rfd[c] \in Inodes /\ data[rfd[c]] \in Seq(Nat)
  BY Zenon DEF FileTypes, TypeOK, Descriptors
<1>2. Input(c) = Bytes(rfd[c]) /\ Input(c) = data[rfd[c]]
  BY <1>1, Zenon DEF Input, Holds, Bytes
<1> QED
  BY <1>1, <1>2, FileServerAssumption, Zenon

\* The progress of the other commands.
LEMMA OthersProgress ==
  ASSUME SameSpelling, FileTypes, LockInv, Descriptors, NEW c \in Clients,
         ClientStep(c) \/ \E m \in Commands : receive(c, m),
         NEW d \in Clients, d # c, ProgressOf(d)
  PROVE  ProgressOf(d)'
<1>1. /\ cmd'[d] = cmd[d] /\ pc'[d] = pc[d] /\ roff'[d] = roff[d] /\ size'[d] = size[d]
      /\ woff'[d] = woff[d] /\ buf'[d] = buf[d]
  BY StepsAreAlone, Zenon DEF Alone
<1>2. /\ Source(d)' = Source(d) /\ Target(d)' = Target(d)
      /\ pc[d] \in Active => Input(d)' = Input(d)
      /\ Bytes(rfd[d])' = Bytes(rfd[d]) /\ Bytes(wfd[d])' = Bytes(wfd[d])
  BY OthersAreKept, Zenon
<1>3. Self(d)' = Self(d)
  BY <1>2, Zenon DEF Self
<1>4. CASE pc[d] \in Active
  BY <1>1, <1>2, <1>3, <1>4, Zenon DEF ProgressOf
<1>5. CASE pc[d] \notin Active
  <2>1. pc[d] \in {"idle", "lock", "lock2", "release"}
    BY <1>5, Zenon DEF FileTypes, TypeOK, Labels, Active
  <2> DEFINE P(i) == Progress(pc[d], cmd[d], Self(d), i, Bytes(rfd[d]), roff[d], size[d],
                              Bytes(wfd[d]), woff[d], buf[d])
  <2>2. \A i, j : P(i) => P(j)
    BY <2>1, Zenon DEF Progress
  <2>3. P(Input(d)')
    BY <2>2, Zenon DEF ProgressOf
  <2> QED
    BY <2>3, <1>1, <1>2, <1>3, Zenon DEF ProgressOf
<1> QED
  BY <1>4, <1>5, Zenon

\* Opening and reading the source file.
LEMMA ProgressOfRead ==
  ASSUME FileInv, NEW c \in Clients,
         open_read(c) \/ compress(c) \/ decompress(c) \/ copy_open(c)
         \/ \E k \in Counts : read_some(c, k)
  PROVE  ProgressOf(c)'
<1>t. /\ dir \in [Files -> Inodes \cup {None}] /\ data \in [Inodes -> Seq(Nat)]
      /\ DOMAIN pc = Clients /\ DOMAIN rfd = Clients /\ DOMAIN roff = Clients /\ DOMAIN buf = Clients
      /\ DOMAIN size = Clients
      /\ Desc(pc[c], cmd[c].op, rfd[c], wfd[c]) /\ buf[c] \in Seq(Nat) /\ roff[c] \in Nat
      /\ FileTypes /\ LockInv /\ Descriptors /\ ProgressOf(c) /\ None \notin Inodes
      /\ None \notin Seq(Nat)
  BY FileServerAssumption, Zenon DEF FileTypes, TypeOK, FileInv
<1>w. pc[c] # "idle" /\ pc[c] \in {"op", "read"}
  BY Zenon DEF open_read, compress, decompress, copy_open, read_some, ReadAll, At
<1>f. Source(c) \in Files /\ cmd[c] \in Commands
  BY <1>w, <1>t, AtWork, Zenon
<1>p. woff[c] = 0 /\ wfd[c] = None /\ (pc[c] = "op" => roff[c] = 0 /\ buf[c] = cmd[c].data)
      /\ (pc[c] = "read" => rfd[c] # None)
  BY <1>t, <1>w, Zenon DEF ProgressOf, Progress, Desc
<1>i. /\ cmd' = cmd /\ wfd' = wfd /\ woff' = woff /\ saved' = saved /\ dir' = dir /\ data' = data
  BY Zenon DEF open_read, compress, decompress, copy_open, read_some, Convert, fs
<1>k. Self(c)' = Self(c) /\ Input(c)' = Input(c) /\ Bytes(wfd[c])' = Bytes(wfd[c])
      /\ \A i : (Bytes(i))' = Bytes(i)
  BY <1>i, Zenon DEF Self, Input, Holds, Source, Target, Bytes
<1>1. CASE open_read(c)
  <2> DEFINE i == dir[Source(c)]
             z == data[i]
  <2>1. /\ pc[c] = "op" /\ cmd[c].op \in ReadAllOps /\ i # None /\ pc'[c] = "read"
        /\ rfd'[c] = i /\ size'[c] = Len(z) /\ roff' = roff /\ buf' = buf
    BY <1>1, <1>t, Zenon DEF open_read, At, Runs, Goto
  <2>2. z \in Seq(Nat) /\ Bytes(rfd[c])' = z
    BY <2>1, <1>t, <1>f, <1>i, Zenon DEF Bytes
  <2>3. cmd[c].data = <<>>
    BY <2>1, <1>f, FileServerAssumption, Zenon DEF ReadAllOps
  <2>4. SubSeq(z, 1, 0) = <<>> /\ Len(z) \in Nat
    BY <2>2, Pieces, Zenon
  <2> HIDE DEF z, i
  <2>5. Progress("read", cmd[c], Self(c), Input(c), z, 0, Len(z), Bytes(wfd[c]), 0, <<>>)
    BY <2>4 DEF Progress
  <2> QED
    BY <2>1, <2>2, <2>3, <2>5, <1>i, <1>k, <1>p, Zenon DEF ProgressOf
<1>2. CASE copy_open(c)
  <2> DEFINE i == dir[Source(c)]
  <2>1. /\ pc[c] = "op" /\ cmd[c].op = "COPYFILE" /\ i # None /\ pc'[c] = "open"
        /\ roff' = roff /\ buf' = buf /\ size' = size
    BY <1>2, <1>t, Zenon DEF copy_open, At, Runs, Goto
  <2>2. Input(c) # None
    BY <2>1, <1>t, <1>f, <1>p, Zenon DEF Input, Holds
  <2>3. MayWrite(cmd[c], Input(c))
    BY <2>1, <2>2, Zenon DEF MayWrite
  <2>4. \A src, b : Progress("open", cmd[c], Self(c), Input(c), src, 0, size[c], Bytes(wfd[c]), 0, b)
    BY <2>1, <2>3, Zenon DEF Progress
  <2> QED
    BY <2>1, <2>4, <1>i, <1>k, <1>p, Zenon DEF ProgressOf
<1> DEFINE z == Bytes(rfd[c])
           o == roff[c]
<1>r. ASSUME pc[c] = "read"
      PROVE  /\ z \in Seq(Nat) /\ Len(z) \in Nat /\ z = data[rfd[c]] /\ Input(c) = z /\ z # None
             /\ size[c] = Len(z) /\ o <= Len(z) /\ buf[c] = SubSeq(z, 1, o)
  <2>1. rfd[c] # None
    BY <1>p, <1>r, Zenon
  <2>2. Input(c) = z /\ z \in Seq(Nat) /\ z # None /\ z = data[rfd[c]]
    BY <2>1, <1>t, <1>p, InputIs, Zenon DEF Bytes
  <2>3. size[c] = Len(z) /\ o <= size[c] /\ buf[c] = SubSeq(z, 1, o)
    BY <1>t, <1>r, Zenon DEF ProgressOf, Progress
  <2>4. Len(z) \in Nat
    BY <2>2, Pieces, Zenon
  <2> QED
    BY <2>2, <2>3, <2>4, Zenon
<1>3. CASE compress(c) \/ decompress(c)
  <2>1. /\ pc[c] = "read" /\ pc'[c] = "open" /\ roff'[c] = 0
        /\ o >= size[c] \/ Left(c) <= 0
        /\ \/ /\ cmd[c].op = "COMPRESS" /\ buf'[c] = rle_compress_bytes(buf[c])
           \/ /\ cmd[c].op = "DECOMPRESS" /\ Decodable(buf[c])
              /\ buf'[c] = rle_decompress_bytes(buf[c])
    BY <1>3, <1>t, Zenon DEF compress, decompress, ReadAll, Convert, At, Runs, Goto
  <2>2. o = Len(z)
    <3>1. o >= Len(z) \/ Len(z) - o <= 0
      BY <2>1, <1>r, Zenon DEF Left
    <3>2. o <= Len(z) /\ o \in Nat /\ Len(z) \in Nat
      BY <2>1, <1>r, <1>t, Zenon
    <3> HIDE DEF z, o
    <3> QED
      BY <3>1, <3>2
  <2>3. buf[c] = Input(c) /\ Input(c) # None
    BY <2>1, <2>2, <1>r, Pieces, Zenon
  <2>4. MayWrite(cmd[c], Input(c)) /\ buf'[c] = Result(cmd[c], Self(c), Input(c))
    <3> HIDE DEF o, z
    <3> QED
      BY <2>1, <2>3, Zenon DEF MayWrite, Result
  <2>5. \A src, sz : Progress("open", cmd[c], Self(c), Input(c), src, 0, sz, Bytes(wfd[c]), 0, buf'[c])
    BY <2>4, Zenon DEF Progress
  <2> QED
    BY <2>1, <2>5, <1>i, <1>k, <1>p, Zenon DEF ProgressOf
<1>4. CASE \E k \in Counts : read_some(c, k)
  <2>1. PICK k \in Counts : read_some(c, k)
    BY <1>4, Zenon
  <2>2. /\ pc[c] = "read" /\ pc' = pc /\ rfd' = rfd /\ size' = size /\ k <= Left(c)
        /\ roff'[c] = o + k /\ buf'[c] = buf[c] \o SubSeq(data[rfd[c]], o + 1, o + k)
    BY <2>1, <1>t, Zenon DEF read_some, At
  <2>3. o + k \in Nat /\ o + k <= Len(z) /\ k \in Nat
    BY <2>2, <1>p, <1>r, <1>t, ReadIs, Zenon
  <2>4. buf'[c] = SubSeq(z, 1, o) \o SubSeq(z, o + 1, o + k)
    BY <2>2, <1>r, Zenon
  <2>5. SubSeq(z, 1, o) \o SubSeq(z, o + 1, o + k) = SubSeq(z, 1, o + k)
    <3>1. z \in Seq(Nat) /\ Len(z) \in Nat /\ o \in Nat /\ o <= Len(z)
      BY <2>2, <1>r, <1>t, Zenon
    <3> HIDE DEF z, o
    <3>2. o \in 0..Len(z) /\ o + k \in o..Len(z)
      BY <3>1, <2>3
    <3> QED
      BY <3>1, <3>2, ConcatAdjacentSubSeq, Zenon
  <2>6. Progress("read", cmd[c], Self(c), Input(c), z, o + k, size[c], Bytes(wfd[c]), 0, buf'[c])
    <3>1. size[c] = Len(z)
      BY <2>2, <1>r, Zenon
    <3> HIDE DEF z, o
    <3> QED
      BY <3>1, <2>3, <2>4, <2>5, Zenon DEF Progress
  <2>7. Bytes(rfd[c])' = z
    BY <2>2, <1>i, Zenon DEF Bytes
  <2> QED
    BY <2>2, <2>6, <2>7, <1>i, <1>k, <1>p, Zenon DEF ProgressOf
<1> QED
  BY <1>1, <1>2, <1>3, <1>4, Zenon

\* A step that only changes the destination changes no other input.
LEMMA InputIsKept ==
  ASSUME FileTypes, LockInv, Descriptors, NEW c \in Clients,
         open_write(c) \/ \E k \in Counts : write_some(c, k)
  PROVE  /\ Self(c)' = Self(c) /\ Input(c)' = Input(c)
         /\ ~Self(c) => Bytes(rfd[c])' = Bytes(rfd[c])
<1>w. pc[c] # "idle"
  BY Zenon DEF open_write, write_some, At
<1>f. Source(c) \in Files /\ Target(c) \in Files
  BY <1>w, AtWork, Zenon
<1>t. /\ DOMAIN saved = Clients /\ DOMAIN wfd = Clients /\ Desc(pc[c], cmd[c].op, rfd[c], wfd[c])
      /\ dir \in [Files -> Inodes \cup {None}] /\ None \notin Inodes
  BY FileServerAssumption, Zenon DEF FileTypes, TypeOK
<1>1. cmd' = cmd /\ rfd' = rfd /\ Source(c)' = Source(c) /\ Target(c)' = Target(c)
  BY Zenon DEF open_write, write_some, Source, Target
<1>2. Self(c)' = Self(c)
  BY <1>1, Zenon DEF Self
<1>3. ~Self(c) => Keeps(Source(c))
  BY <1>f, WritesKeep, Zenon DEF Self
<1>4. ~Self(c) => Input(c)' = Input(c)
  BY <1>1, <1>2, <1>3, Zenon DEF Input, Holds, Keeps
<1>5. ~Self(c) => Bytes(rfd[c])' = Bytes(rfd[c])
  BY <1>1, <1>3, Zenon DEF Bytes, Keeps, Descriptors
<1>6. ASSUME Self(c) PROVE Input(c)' = Input(c)
  <2>1. CASE open_write(c)
    <3> DEFINE old == dir[Target(c)]
               i == IF old = None THEN NewInode ELSE old
    <3>1. wfd'[c] = i /\ saved'[c] = Holds(Target(c))
      BY <2>1, <1>t, Zenon DEF open_write, Holds
    <3>2. i # None
      <4>1. i \in Inodes
        BY <1>f, <1>t, NewInodeIs, Zenon DEF FileTypes
      <4> QED
        BY <4>1, <1>t, Zenon
    <3>3. wfd[c] = None
      <4>1. pc[c] \in {"op", "open"}
        BY <2>1, Zenon DEF open_write, At
      <4> QED
        BY <4>1, <1>t, Zenon DEF Desc
    <3> QED
      BY <1>1, <1>2, <1>6, <3>1, <3>2, <3>3, Zenon DEF Input, Self
  <2>2. CASE \E k \in Counts : write_some(c, k)
    <3>1. wfd' = wfd /\ saved' = saved /\ pc[c] = "write"
      BY <2>2, Zenon DEF write_some, At
    <3>2. wfd[c] # None
      BY <3>1, <1>t, Zenon DEF Desc
    <3> QED
      BY <1>2, <1>6, <3>1, <3>2, Zenon DEF Input
  <2> QED
    BY <2>1, <2>2, Zenon
<1> QED
  BY <1>2, <1>4, <1>5, <1>6, Zenon

\* Opening the target file saves what it had and empties it.
LEMMA ProgressOfOpen ==
  ASSUME FileInv, NEW c \in Clients, open_write(c)
  PROVE  ProgressOf(c)'
<1>t. /\ dir \in [Files -> Inodes \cup {None}] /\ data \in [Inodes -> Seq(Nat)]
      /\ DOMAIN pc = Clients /\ DOMAIN wfd = Clients
      /\ Desc(pc[c], cmd[c].op, rfd[c], wfd[c]) /\ buf[c] \in Seq(Nat)
      /\ rfd[c] \in Inodes \cup {None}
      /\ FileTypes /\ LockInv /\ Descriptors /\ ProgressOf(c) /\ None \notin Inodes
      /\ None \notin Seq(Nat)
  BY FileServerAssumption, Zenon DEF FileTypes, TypeOK, FileInv
<1>1. pc[c] = "open" \/ (pc[c] = "op" /\ cmd[c].op = "SETFILE")
  BY Zenon DEF open_write, At, Runs
<1>f. Target(c) \in Files
  <2>1. pc[c] # "idle"
    BY <1>1, Zenon
  <2> QED
    BY <2>1, <1>t, AtWork, Zenon
<1> DEFINE old == dir[Target(c)]
           i == IF old = None THEN NewInode ELSE old
           m == cmd[c]
           self == Self(c)
           in == Input(c)
           b == buf[c]
<1>2. i \in Inodes
  BY <1>f, <1>t, NewInodeIs, Zenon DEF FileTypes
<1>3. /\ wfd'[c] = i /\ data' = [data EXCEPT ![i] = <<>>]
      /\ pc'[c] = IF m.op = "COPYFILE" THEN "copy" ELSE "write"
      /\ cmd' = cmd /\ rfd' = rfd /\ roff' = roff /\ size' = size /\ woff' = woff /\ buf' = buf
  BY <1>t, Zenon DEF open_write, Goto, Runs
<1> HIDE DEF i
<1>4. Bytes(wfd[c])' = <<>>
  BY <1>2, <1>3, <1>t, Zenon DEF Bytes
<1>5. Bytes(rfd[c])' \in Seq(Nat)
  <2>1. <<>> \in Seq(Nat)
    OBVIOUS
  <2>2. data' \in [Inodes -> Seq(Nat)]
    BY <2>1, <1>2, <1>3, <1>t, Zenon
  <2> QED
    BY <2>1, <2>2, <1>3, <1>t, Zenon DEF Bytes
<1>6. Self(c)' = self /\ Input(c)' = in
  BY <1>t, InputIsKept, Zenon
<1>7. /\ MayWrite(m, in) /\ roff[c] = 0 /\ woff[c] = 0
      /\ m.op # "COPYFILE" => b = Result(m, self, in)
  BY <1>1, <1>t, Zenon DEF ProgressOf, Progress, MayWrite, Result
<1> DEFINE src == Bytes(rfd[c])'
<1>8. SubSeq(src, 1, 0) = <<>> /\ Len(src) \in Nat /\ <<>> \o b = b
  BY <1>5, <1>t, Pieces, Zenon
<1> HIDE DEF src, b, in, self, m
<1>9. Progress(IF m.op = "COPYFILE" THEN "copy" ELSE "write", m, self, in, src, 0, size[c], <<>>, 0, b)
  <2>1. CASE m.op = "COPYFILE"
    BY <2>1, <1>7, <1>8 DEF Progress
  <2>2. CASE m.op # "COPYFILE"
    BY <2>2, <1>7, <1>8, Zenon DEF Progress
  <2> QED
    BY <2>1, <2>2, Zenon
<1> QED
  BY <1>3, <1>4, <1>6, <1>7, <1>9, Zenon DEF ProgressOf, src, b, in, self, m

\* A client at "write" or "copy": what it has written, what it reads.
LEMMA WritingIs ==
  ASSUME FileInv, NEW c \in Clients, pc[c] \in {"write", "copy"}
  PROVE  /\ wfd[c] \in Inodes /\ Bytes(wfd[c]) = data[wfd[c]] /\ Bytes(wfd[c]) \in Seq(Nat)
         /\ Len(Bytes(wfd[c])) \in Nat
         /\ woff[c] = Len(Bytes(wfd[c])) /\ roff[c] \in Nat /\ buf[c] \in Seq(Nat)
         /\ MayWrite(cmd[c], Input(c)) /\ ~Runs(c, ReadOps) /\ pc[c] \in Active
         /\ pc[c] = "write" /\ cmd[c].op # "COPYFILE" =>
              Bytes(wfd[c]) \o buf[c] = Result(cmd[c], Self(c), Input(c))
         /\ cmd[c].op = "COPYFILE" /\ Self(c) =>
              pc[c] = "copy" /\ roff[c] = 0 /\ Bytes(wfd[c]) = <<>> /\ Bytes(rfd[c]) = <<>>
         /\ cmd[c].op = "COPYFILE" =>
              /\ rfd[c] \in Inodes /\ Bytes(rfd[c]) = data[rfd[c]] /\ Bytes(rfd[c]) \in Seq(Nat)
              /\ Len(Bytes(rfd[c])) \in Nat
         /\ cmd[c].op = "COPYFILE" /\ ~Self(c) =>
              /\ roff[c] <= Len(Bytes(rfd[c])) /\ Input(c) = Bytes(rfd[c])
              /\ SubSeq(Bytes(rfd[c]), 1, roff[c]) = IF pc[c] = "copy" THEN Bytes(wfd[c])
                                                     ELSE Bytes(wfd[c]) \o buf[c]
<1>t. /\ data \in [Inodes -> Seq(Nat)]
      /\ Desc(pc[c], cmd[c].op, rfd[c], wfd[c]) /\ buf[c] \in Seq(Nat)
      /\ rfd[c] \in Inodes \cup {None} /\ wfd[c] \in Inodes \cup {None} /\ roff[c] \in Nat
      /\ FileTypes /\ LockInv /\ Descriptors /\ ProgressOf(c) /\ None \notin Inodes
  BY FileServerAssumption, Zenon DEF FileTypes, TypeOK, FileInv
<1>1. wfd[c] # None /\ (cmd[c].op = "COPYFILE" => rfd[c] # None) /\ ~Runs(c, ReadOps) /\ pc[c] \in Active
  BY <1>t, Zenon DEF Desc, Runs, ReadOps, Active
<1>2. /\ wfd[c] \in Inodes /\ Bytes(wfd[c]) = data[wfd[c]] /\ Bytes(wfd[c]) \in Seq(Nat)
      /\ cmd[c].op = "COPYFILE" =>
           /\ rfd[c] \in Inodes /\ Bytes(rfd[c]) = data[rfd[c]] /\ Bytes(rfd[c]) \in Seq(Nat)
  BY <1>1, <1>t, Zenon DEF Bytes
<1>3. /\ Len(Bytes(wfd[c])) \in Nat
      /\ cmd[c].op = "COPYFILE" => Len(Bytes(rfd[c])) \in Nat
  BY <1>2, Pieces, Zenon
<1>4. /\ MayWrite(cmd[c], Input(c)) /\ woff[c] = Len(Bytes(wfd[c]))
      /\ pc[c] = "write" /\ cmd[c].op # "COPYFILE" =>
           Bytes(wfd[c]) \o buf[c] = Result(cmd[c], Self(c), Input(c))
  BY <1>t, Zenon DEF ProgressOf, Progress
<1>5. cmd[c].op = "COPYFILE" /\ Self(c) => pc[c] = "copy" /\ roff[c] = 0 /\ Bytes(wfd[c]) = <<>>
  BY <1>t, Zenon DEF ProgressOf, Progress
<1>6. cmd[c].op = "COPYFILE" /\ Self(c) => Bytes(rfd[c]) = <<>>
  <2>1. cmd[c].op = "COPYFILE" /\ Self(c) => rfd[c] = wfd[c]
    BY <1>1, <1>t, Zenon DEF Descriptors, Self
  <2> QED
    BY <2>1, <1>5, Zenon
<1>7. cmd[c].op = "COPYFILE" /\ ~Self(c) =>
        /\ roff[c] <= Len(Bytes(rfd[c]))
        /\ SubSeq(Bytes(rfd[c]), 1, roff[c]) = IF pc[c] = "copy" THEN Bytes(wfd[c])
                                               ELSE Bytes(wfd[c]) \o buf[c]
  BY <1>t, Zenon DEF ProgressOf, Progress
<1>8. cmd[c].op = "COPYFILE" /\ ~Self(c) => Input(c) = Bytes(rfd[c])
  BY <1>1, <1>t, InputIs, Zenon
<1> QED
  BY <1>t, <1>1, <1>2, <1>3, <1>4, <1>5, <1>6, <1>7, <1>8, Zenon

\* write() at the end of the destination appends the first k bytes.
LEMMA WriteAppends ==
  ASSUME FileInv, NEW c \in Clients, NEW k \in Counts, write_some(c, k)
  PROVE  /\ WriteIs(c, k)
         /\ Bytes(wfd[c])' = Bytes(wfd[c]) \o SubSeq(buf[c], 1, k)
         /\ Bytes(wfd[c])' \o SubSeq(buf[c], k + 1, Len(buf[c])) = Bytes(wfd[c]) \o buf[c]
         /\ woff'[c] = Len(Bytes(wfd[c])')
<1> DEFINE w == Bytes(wfd[c])
           b == buf[c]
           h == SubSeq(b, 1, k)
           r == SubSeq(b, k + 1, Len(b))
<1>t. /\ DOMAIN data = Inodes /\ DOMAIN woff = Clients /\ FileTypes /\ None \notin Inodes
  BY FileServerAssumption, Zenon DEF FileInv, FileTypes, TypeOK
<1>1. pc[c] = "write" /\ k <= Len(b) /\ wfd' = wfd
      /\ data' = [data EXCEPT ![wfd[c]] = WriteAt(data[wfd[c]], woff[c], h)]
      /\ woff'[c] = woff[c] + k
  BY <1>t, Zenon DEF write_some, At
<1>2. WriteIs(c, k)
  BY <1>1, <1>t, WritesAre, Zenon
<1>3. h \in Seq(Nat) /\ r \in Seq(Nat) /\ h \o r = b /\ Len(h) = k /\ k \in Nat
  BY <1>2, Zenon DEF WriteIs
<1>4. /\ wfd[c] \in Inodes /\ w = data[wfd[c]] /\ w \in Seq(Nat) /\ Len(w) \in Nat /\ woff[c] = Len(w)
  BY <1>1, WritingIs, Zenon
<1>5. WriteAt(w, woff[c], h) = w \o h
  <2>1. w \in Seq(Nat) /\ h \in Seq(Nat) /\ woff[c] \in Nat /\ woff[c] = Len(w)
    BY <1>3, <1>4, Zenon
  <2> HIDE DEF w, h
  <2> QED
    BY <2>1, WriteAtIs, Zenon
<1>6. Bytes(wfd[c])' = w \o h
  BY <1>1, <1>4, <1>5, <1>t, Zenon DEF Bytes
<1> HIDE DEF w, h, r, b
<1>7. (w \o h) \o r = w \o b /\ Len(w \o h) = Len(w) + Len(h)
  <2>1. /\ \A u \in Seq(Nat) : (w \o h) \o u = w \o (h \o u)
        /\ Len(w \o h) = Len(w) + Len(h)
    <3>1. w \in Seq(Nat) /\ h \in Seq(Nat)
      BY <1>3, <1>4, Zenon
    <3> QED
      BY <3>1, Pieces, Zenon
  <2> QED
    BY <1>3, <2>1, Zenon
<1> QED
  BY <1>1, <1>2, <1>3, <1>4, <1>6, <1>7, Zenon DEF w, h, r, b

\* Every write appends the next part of the result.
LEMMA ProgressOfWrite ==
  ASSUME FileInv, NEW c \in Clients,
         copy_next(c) \/ \E k \in Counts : write_some(c, k) \/ copy_read(c, k)
  PROVE  ProgressOf(c)'
<1>t. /\ DOMAIN pc = Clients /\ DOMAIN roff = Clients /\ DOMAIN buf = Clients
      /\ Desc(pc[c], cmd[c].op, rfd[c], wfd[c])
      /\ FileTypes /\ LockInv /\ Descriptors
  BY Zenon DEF FileInv, FileTypes, TypeOK
<1> DEFINE m == cmd[c]
           self == Self(c)
           in == Input(c)
           src == Bytes(rfd[c])
           dst == Bytes(wfd[c])
           o == roff[c]
           b == buf[c]
<1>1. pc[c] \in {"write", "copy"}
  BY Zenon DEF copy_next, write_some, copy_read, At
<1>2. /\ dst \in Seq(Nat) /\ woff[c] = Len(dst) /\ o \in Nat /\ b \in Seq(Nat)
      /\ MayWrite(m, in)
      /\ pc[c] = "write" /\ m.op # "COPYFILE" => dst \o b = Result(m, self, in)
      /\ m.op = "COPYFILE" /\ self => pc[c] = "copy" /\ o = 0 /\ dst = <<>> /\ src = <<>>
      /\ m.op = "COPYFILE" => rfd[c] \in Inodes /\ src = data[rfd[c]] /\ src \in Seq(Nat) /\ Len(src) \in Nat
      /\ m.op = "COPYFILE" /\ ~self =>
           /\ o <= Len(src) /\ in = src
           /\ SubSeq(src, 1, o) = IF pc[c] = "copy" THEN dst ELSE dst \o b
  BY <1>1, WritingIs, Zenon
<1>3. CASE \E k \in Counts : write_some(c, k)
  <2>1. PICK k \in Counts : write_some(c, k)
    BY <1>3, Zenon
  <2> DEFINE t == SubSeq(b, k + 1, Len(b))
             d2 == Bytes(wfd[c])'
  <2>2. /\ pc[c] = "write" /\ buf'[c] = t /\ UNCHANGED <<cmd, pc, rfd, roff, size, wfd>>
    BY <2>1, <1>t, Zenon DEF write_some, At
  <2>3. d2 \o t = dst \o b /\ woff'[c] = Len(d2)
    BY <2>1, WriteAppends, Zenon
  <2>4. Self(c)' = self /\ Input(c)' = in /\ (~self => Bytes(rfd[c])' = src)
    BY <2>1, <1>t, InputIsKept, Zenon
  <2> DEFINE s2 == Bytes(rfd[c])'
  <2> HIDE DEF s2, t, d2, m, self, in, src, dst, o, b
  <2>5. Progress("write", m, self, in, s2, o, size[c], d2, Len(d2), t)
    <3>1. CASE m.op # "COPYFILE"
      BY <3>1, <1>2, <2>2, <2>3 DEF Progress
    <3>2. CASE m.op = "COPYFILE"
      <4>1. ~self /\ s2 = src
        BY <3>2, <2>2, <2>4, <1>2, Zenon DEF s2
      <4> QED
        BY <3>2, <4>1, <1>2, <2>2, <2>3 DEF Progress
    <3> QED
      BY <3>1, <3>2, Zenon
  <2> QED
    BY <2>2, <2>3, <2>4, <2>5, Zenon DEF ProgressOf, s2, t, d2, m, self, in, src, dst, o, b
<1>i. ASSUME UNCHANGED fs, UNCHANGED <<cmd, rfd, wfd, saved>>
      PROVE  Self(c)' = self /\ Input(c)' = in /\ Bytes(rfd[c])' = src /\ Bytes(wfd[c])' = dst
  BY <1>i, Zenon DEF Self, Input, Holds, Source, Target, Bytes, fs
<1>4. CASE copy_next(c)
  <2>1. /\ pc[c] = "write" /\ b = <<>> /\ m.op = "COPYFILE" /\ pc'[c] = "copy"
        /\ UNCHANGED fs /\ UNCHANGED <<cmd, rfd, wfd, saved, roff, size, woff, buf>>
    BY <1>4, <1>t, Zenon DEF copy_next, local, At, Goto, Runs
  <2>2. dst \o b = dst
    BY <2>1, <1>2, Pieces, Zenon
  <2>3. Self(c)' = self /\ Input(c)' = in /\ Bytes(rfd[c])' = src /\ Bytes(wfd[c])' = dst
    BY <2>1, <1>i, Zenon
  <2> HIDE DEF m, self, in, src, dst, o, b
  <2>4. Progress("copy", m, self, in, src, o, size[c], dst, Len(dst), b)
    BY <2>1, <2>2, <1>2, Zenon DEF Progress
  <2> QED
    BY <2>1, <2>3, <2>4, <1>2, Zenon DEF ProgressOf, m, self, in, src, dst, o, b
<1>5. CASE \E k \in Counts : copy_read(c, k)
  <2>1. PICK k \in Counts : copy_read(c, k)
    BY <1>5, Zenon
  <2>2. /\ pc[c] = "copy" /\ k <= Left(c) /\ pc'[c] = "write"
        /\ buf'[c] = SubSeq(data[rfd[c]], o + 1, o + k) /\ roff'[c] = o + k
        /\ UNCHANGED fs /\ UNCHANGED <<cmd, rfd, wfd, saved, size, woff>>
    BY <2>1, <1>t, Zenon DEF copy_read, At, Goto
  <2>3. m.op = "COPYFILE" /\ rfd[c] # None
    BY <2>2, <1>t, Zenon DEF Desc
  <2>4. k \in Nat /\ k > 0 /\ o + k \in Nat /\ o + k <= Len(src)
    <3>1. k \in Nat /\ o + k \in Nat /\ o + k <= Len(data[rfd[c]])
      BY <2>2, <2>3, <1>t, ReadIs, Zenon
    <3>2. k > 0
      BY <3>1 DEF Counts
    <3> QED
      BY <3>1, <3>2, <2>3, <1>2, Zenon
  <2>5. Self(c)' = self /\ Input(c)' = in /\ Bytes(rfd[c])' = src /\ Bytes(wfd[c])' = dst
    BY <2>2, <1>i, Zenon
  <2>6. buf'[c] = SubSeq(src, o + 1, o + k)
    BY <2>2, <2>3, <1>2, Zenon
  <2> HIDE DEF m, self, in, src, dst, o, b
  <2>7. ~self
    <3> SUFFICES ASSUME self PROVE FALSE
      BY Zenon
    <3>1. o = 0 /\ Len(src) = 0
      BY <1>2, <2>3, Zenon
    <3> QED
      BY <3>1, <2>4
  <2>8. SubSeq(src, 1, o) \o SubSeq(src, o + 1, o + k) = SubSeq(src, 1, o + k)
    <3>1. src \in Seq(Nat) /\ Len(src) \in Nat /\ o <= Len(src)
      BY <2>3, <2>7, <1>2, Zenon
    <3>2. o \in 0..Len(src) /\ o + k \in o..Len(src)
      BY <3>1, <1>2, <2>4
    <3> QED
      BY <3>1, <3>2, ConcatAdjacentSubSeq, Zenon
  <2> DEFINE n == o + k
             v == buf'[c]
  <2>9. SubSeq(src, 1, n) = dst \o v /\ n <= Len(src)
    BY <2>2, <2>3, <2>4, <2>6, <2>7, <2>8, <1>2, Zenon
  <2> HIDE DEF n, v
  <2>10. Progress("write", m, self, in, src, n, size[c], dst, Len(dst), v)
    BY <2>3, <2>7, <2>9, <1>2, Zenon DEF Progress
  <2> QED
    BY <2>2, <2>5, <2>10, <1>2, Zenon DEF ProgressOf, n, v, m, self, in, src, dst, o, b
<1> QED
  BY <1>3, <1>4, <1>5, Zenon

\* Every step of every client keeps every command on its way.
LEMMA ProgressStep ==
  ASSUME SameSpelling, FileInv, NEW c \in Clients,
         ClientStep(c) \/ \E m \in Commands : receive(c, m)
  PROVE  \A d \in Clients : ProgressOf(d)'
<1>t. /\ DOMAIN pc = Clients /\ DOMAIN roff = Clients /\ DOMAIN woff = Clients
      /\ DOMAIN buf = Clients /\ DOMAIN cmd = Clients
      /\ FileTypes /\ LockInv /\ Descriptors /\ \A d \in Clients : ProgressOf(d)
  BY Zenon DEF FileInv, FileTypes, TypeOK
<1>o. \A d \in Clients : d # c => ProgressOf(d)'
  BY <1>t, OthersProgress, Zenon
<1>1. CASE \E r : Done(c, r)
  <2>1. pc'[c] = "release" /\ roff'[c] = 0 /\ woff'[c] = 0
    BY <1>1, <1>t, Zenon DEF Done, Goto
  <2>2. \A m, self, in, src, sz, dst, b : Progress("release", m, self, in, src, 0, sz, dst, 0, b)
    BY DEF Progress
  <2> QED
    BY <2>1, <2>2, <1>o, Zenon DEF ProgressOf
<1>2. CASE locks_release(c)
  <2>1. pc[c] = "release" /\ pc'[c] = "idle" /\ roff' = roff /\ woff' = woff
    BY <1>2, <1>t, Zenon DEF locks_release, Goto, At, local
  <2>2. roff[c] = 0 /\ woff[c] = 0
    BY <2>1, <1>t, Zenon DEF ProgressOf, Progress
  <2>3. \A m, self, in, src, sz, dst, b : Progress("idle", m, self, in, src, 0, sz, dst, 0, b)
    BY DEF Progress
  <2> QED
    BY <2>1, <2>2, <2>3, <1>o, Zenon DEF ProgressOf
<1>3. CASE \/ locks_acquire_read(c) \/ locks_acquire_write(c) \/ locks_acquire_second(c)
           \/ \E m \in Commands : receive(c, m)
  <2>1. /\ pc'[c] \in {"lock", "lock2", "op"} /\ roff' = roff /\ woff' = woff
        /\ \/ pc[c] \in {"lock", "lock2"} /\ buf' = buf /\ cmd' = cmd
           \/ pc[c] = "idle" /\ buf'[c] = cmd'[c].data
    BY <1>3, <1>t, Zenon DEF locks_acquire_read, locks_acquire_write, locks_acquire_second,
                             receive, Goto, At, local
  <2>2. roff[c] = 0 /\ woff[c] = 0 /\ (pc[c] \in {"lock", "lock2"} => buf[c] = cmd[c].data)
    BY <2>1, <1>t, Zenon DEF ProgressOf, Progress
  <2> DEFINE l == pc'[c]
             m == cmd'[c]
             b == buf'[c]
  <2>3. b = m.data
    BY <2>1, <2>2, Zenon
  <2> HIDE DEF l, m, b
  <2>4. \A self, in, src, sz, dst : Progress(l, m, self, in, src, 0, sz, dst, 0, b)
    BY <2>1, <2>3 DEF l, Progress
  <2> QED
    BY <2>1, <2>2, <2>4, <1>o, Zenon DEF ProgressOf, l, m, b
<1>4. CASE open_read(c) \/ compress(c) \/ decompress(c) \/ copy_open(c)
           \/ \E k \in Counts : read_some(c, k)
  BY <1>4, <1>o, ProgressOfRead, Zenon
<1>5. CASE open_write(c)
  BY <1>5, <1>o, ProgressOfOpen, Zenon
<1>6. CASE copy_next(c) \/ \E k \in Counts : write_some(c, k) \/ copy_read(c, k)
  BY <1>6, <1>o, ProgressOfWrite, Zenon
<1> QED
  BY <1>1, <1>2, <1>3, <1>4, <1>5, <1>6, Zenon
     DEF ClientStep, lock_fails, not_found, too_large, getfile_reply, decompress_fails,
         copy_not_found, write_done, copy_done, stat, unlink, rename, io_fails

\* The invariant holds before the first command.
LEMMA FileInvInit == Init => FileInv
<1> SUFFICES ASSUME Init PROVE FileInv
  BY Zenon
<1>1. \A c \in Clients : pc[c] = "idle" /\ roff[c] = 0 /\ woff[c] = 0
  BY Zenon DEF Init
<1>2. \A m, self, in, src, sz, dst, b : Progress("idle", m, self, in, src, 0, sz, dst, 0, b)
  BY DEF Progress
<1> QED
  BY <1>1, <1>2, FilesInit, Zenon DEF FileInv, ProgressOf

\* The invariant is inductive, when every file has one path.
LEMMA FileInvStep ==
  ASSUME SameSpelling, FileInv, [Next]_vars PROVE FileInv'
<1>t. FileTypes /\ LockInv /\ Descriptors /\ \A d \in Clients : ProgressOf(d)
  BY Zenon DEF FileInv
<1>1. CASE UNCHANGED vars
  <2>1. UNCHANGED <<dir, data, cmd, pc, rfd, roff, size, wfd, woff, buf, saved>>
    BY <1>1, Zenon DEF vars, fs, locks, local
  <2>2. \A d \in Clients : ProgressOf(d)'
    BY <2>1, <1>t, Zenon DEF ProgressOf, Self, Input, Holds, Bytes, Source, Target
  <2> QED
    BY <1>1, <1>t, <2>2, FilesStutter, Zenon DEF FileInv
<1>2. CASE Next
  <2>1. PICK c \in Clients : ClientStep(c) \/ \E m \in Commands : receive(c, m)
    BY <1>2, Zenon DEF Next
  <2>2. FileTypes' /\ LockInv' /\ Descriptors'
    BY <2>1, <1>t, TypesStep, LocksStep, DescriptorsStep, Zenon
  <2>3. \A d \in Clients : ProgressOf(d)'
    BY <2>1, ProgressStep, Zenon
  <2> QED
    BY <2>2, <2>3, Zenon DEF FileInv
<1> QED
  BY <1>1, <1>2, Zenon

-----------------------------------------------------------------------------
(* The files as their users may see them *)

\* A file that is being rewritten is what it was before, and any other is what
\* it holds; a command at work finds its input.
Sees ==
  /\ \A c \in Clients : wfd[c] # None => Content(Target(c)) = saved[c]
  /\ \A f \in Files : (\A c \in Clients : wfd[c] # None => Target(c) # f) => Content(f) = Holds(f)
  /\ \A c \in Clients : pc[c] \in Active => Content(Source(c)) = Input(c)

\* The invariant says what everybody sees.
LEMMA ContentIs ==
  SameSpelling /\ FileInv => Sees
<1> SUFFICES ASSUME SameSpelling, FileInv PROVE Sees
  BY Zenon
<1>t. FileTypes /\ LockInv /\ Descriptors
  BY Zenon DEF FileInv
<1>u. ASSUME NEW c \in Clients, NEW d \in Clients, wfd[d] # None, pc[c] \in Active,
             Target(d) \in {Source(c), Target(c)}
      PROVE  c = d
  <2>1. pc[d] \in Active /\ ~Runs(d, ReadOps)
    BY <1>t, <1>u, OpenAreActive, Zenon
  <2> QED
    BY <2>1, <1>t, <1>u, WorkersAreApart, Zenon
<1>1. ASSUME NEW c \in Clients, wfd[c] # None PROVE Content(Target(c)) = saved[c]
  <2> DEFINE f == Target(c)
             d == CHOOSE d \in Clients : wfd[d] # None /\ Target(d) = f
  <2>1. d \in Clients /\ wfd[d] # None /\ Target(d) = f
    BY <1>1, Zenon
  <2>2. pc[c] \in Active
    BY <1>t, <1>1, OpenAreActive, Zenon
  <2>3. d = c
    <3> HIDE DEF d
    <3> QED
      BY <1>1, <1>u, <2>1, <2>2, Zenon
  <2>4. Content(f) = saved[d]
    BY <1>1, Zenon DEF Content
  <2> QED
    BY <2>3, <2>4, Zenon
<1>2. ASSUME NEW f \in Files, \A c \in Clients : wfd[c] # None => Target(c) # f
      PROVE  Content(f) = Holds(f)
  BY <1>2, Zenon DEF Content, Holds
<1>3. ASSUME NEW c \in Clients, pc[c] \in Active PROVE Content(Source(c)) = Input(c)
  <2>1. CASE \E d \in Clients : wfd[d] # None /\ Target(d) = Source(c)
    <3>1. wfd[c] # None /\ Target(c) = Source(c)
      BY <2>1, <1>3, <1>u, Zenon
    <3> QED
      BY <3>1, <1>1, Zenon DEF Input, Self
  <2>2. CASE \A d \in Clients : wfd[d] # None => Target(d) # Source(c)
    <3>1. Source(c) \in Files
      <4>1. pc[c] # "idle"
        BY <1>3, Zenon DEF Active
      <4> QED
        BY <4>1, <1>t, AtWork, Zenon
    <3>2. Content(Source(c)) = Holds(Source(c))
      BY <2>2, <3>1, <1>2, Zenon
    <3> QED
      BY <2>2, <3>2, Zenon DEF Input, Self
  <2> QED
    BY <2>1, <2>2, Zenon
<1> QED
  BY <1>1, <1>2, <1>3, Zenon DEF Sees

\* The same after a step.
LEMMA ContentIsNext ==
  SameSpelling' /\ FileInv' => Sees'
<1>1. SameSpelling /\ FileInv => Sees
  BY ContentIs, Zenon
<1> QED
  BY <1>1, PTL

\* The abstract specification has the same code.
LEMMA SameCode ==
  ASSUME NEW s
  PROVE  /\ A!rle_compress_bytes(s) = rle_compress_bytes(s)
         /\ A!rle_decompress_bytes(s) = rle_decompress_bytes(s)
         /\ A!Decodable(s) <=> Decodable(s)
<1>1. A!rle_compress_bytes(s) = rle_compress_bytes(s)
  BY Zenon DEF rle_compress_bytes, Pairs, RunAt, A!rle_compress_bytes, A!Pairs, A!RunAt
<1>2. A!rle_decompress_bytes(s) = rle_decompress_bytes(s)
  BY Zenon DEF rle_decompress_bytes, A!rle_decompress_bytes
<1>3. A!Decodable(s) <=> Decodable(s)
  BY Zenon DEF Decodable, HasMagic, Total, A!Decodable, A!HasMagic, A!Total
<1> QED
  BY <1>1, <1>2, <1>3, Zenon

\* The command of a client, as the abstract specification knows it.
LEMMA OnFilesIs ==
  ASSUME NEW m \in Commands
  PROVE  /\ OnFiles(m) # None /\ OnFiles(m).op = m.op /\ OnFiles(m).data = m.data
         /\ OnFiles(m).src = FileOf[m.src] /\ OnFiles(m).dst = FileOf[m.dst]
<1>1. m \in [op : Ops, src : Paths, dst : Paths, data : Seq(Nat)] /\ FileOf \in [Paths -> Files]
      /\ None \notin [op : Ops, src : Files, dst : Files, data : Seq(Nat)]
  BY FileServerAssumption, Zenon
<1>2. /\ OnFiles(m).op = m.op /\ OnFiles(m).data = m.data
      /\ OnFiles(m).src = FileOf[m.src] /\ OnFiles(m).dst = FileOf[m.dst]
      /\ OnFiles(m) \in [op : Ops, src : Files, dst : Files, data : Seq(Nat)]
  BY <1>1, Zenon DEF OnFiles
<1> QED
  BY <1>1, <1>2, Zenon

\* The variables of the abstract specification.
AFiles == [f \in Files |-> Content(f)]
ACalls == [c \in Clients |-> IF pc[c] \in {"idle", "release"} THEN None ELSE OnFiles(cmd[c])]

\* A function that differs from another at one place at most.
LEMMA Updated ==
  ASSUME NEW S, NEW g, NEW h, NEW x \in S, NEW v,
         g = [y \in S |-> g[y]], h = [y \in S |-> h[y]],
         \A y \in S : y # x => h[y] = g[y], h[x] = v
  PROVE  h = [g EXCEPT ![x] = v]
BY Zenon

\* The files and the calls of the abstract specification, one by one.
LEMMA AbstractAre ==
  /\ AFiles = [f \in Files |-> AFiles[f]] /\ \A f \in Files : AFiles[f] = Content(f)
  /\ ACalls = [c \in Clients |-> ACalls[c]]
  /\ \A c \in Clients : ACalls[c] = IF pc[c] \in {"idle", "release"} THEN None ELSE OnFiles(cmd[c])
<1>1. AFiles = [f \in Files |-> AFiles[f]] /\ \A f \in Files : AFiles[f] = Content(f)
  <2> HIDE DEF Content
  <2> QED
    BY Zenon DEF AFiles
<1>2. /\ ACalls = [c \in Clients |-> ACalls[c]]
      /\ \A c \in Clients : ACalls[c] = IF pc[c] \in {"idle", "release"} THEN None ELSE OnFiles(cmd[c])
  BY Zenon DEF ACalls
<1> QED
  BY <1>1, <1>2, Zenon

\* The same after a step.
LEMMA AbstractAreNext ==
  /\ AFiles' = [f \in Files |-> AFiles'[f]] /\ \A f \in Files : AFiles'[f] = Content(f)'
  /\ ACalls' = [c \in Clients |-> ACalls'[c]]
  /\ \A c \in Clients : ACalls'[c] = IF pc'[c] \in {"idle", "release"} THEN None ELSE OnFiles(cmd'[c])
<1>1. AFiles' = [f \in Files |-> AFiles'[f]] /\ \A f \in Files : AFiles'[f] = Content(f)'
  BY Zenon DEF AFiles
<1>2. /\ ACalls' = [c \in Clients |-> ACalls'[c]]
      /\ \A c \in Clients : ACalls'[c] = IF pc'[c] \in {"idle", "release"} THEN None ELSE OnFiles(cmd'[c])
  BY Zenon DEF ACalls, OnFiles
<1> QED
  BY <1>1, <1>2, Zenon

\* A step of c hides a file it does not rewrite only as far as it changes it.
LEMMA ContentKept ==
  ASSUME SameSpelling, SameSpelling', FileInv, FileInv', NEW c \in Clients,
         ClientStep(c) \/ \E m \in Commands : receive(c, m),
         NEW f \in Files, Keeps(f),
         wfd[c] # None => Target(c) # f, wfd'[c] # None => Target(c)' # f
  PROVE  Content(f)' = Content(f)
<1>s. Sees /\ Sees'
  BY ContentIs, ContentIsNext, Zenon
<1>t. FileTypes /\ LockInv /\ Descriptors
  BY Zenon DEF FileInv
<1>a. \A d \in Clients : d # c =>
        /\ wfd'[d] = wfd[d] /\ saved'[d] = saved[d] /\ Target(d)' = Target(d)
  BY <1>t, StepsAreAlone, Zenon DEF Alone, Target
<1>1. CASE \E d \in Clients : wfd[d] # None /\ Target(d) = f
  <2>1. PICK d \in Clients : wfd[d] # None /\ Target(d) = f
    BY <1>1, Zenon
  <2>2. d # c
    BY <2>1, Zenon
  <2>3. Content(f) = saved[d]
    BY <2>1, <1>s, Zenon DEF Sees
  <2>4. wfd'[d] # None /\ Target(d)' = f /\ saved'[d] = saved[d]
    BY <2>1, <2>2, <1>a, Zenon
  <2>5. Content(Target(d))' = saved'[d]
    BY <2>4, <1>s, Zenon DEF Sees
  <2>6. Content(Target(d))' = Content(f)'
    BY <2>4, Zenon DEF Content
  <2> QED
    BY <2>3, <2>4, <2>5, <2>6, Zenon
<1>2. CASE \A d \in Clients : wfd[d] # None => Target(d) # f
  <2>1. \A d \in Clients : wfd'[d] # None => Target(d)' # f
    BY <1>2, <1>a, Zenon
  <2>2. Content(f) = Holds(f)
    BY <1>2, <1>s, Zenon DEF Sees
  <2>3. Content(f)' = Holds(f)'
    BY <2>1, <1>s, Zenon DEF Sees
  <2>4. Holds(f)' = Holds(f)
    BY Zenon DEF Holds, Keeps
  <2> QED
    BY <2>2, <2>3, <2>4, Zenon
<1> QED
  BY <1>1, <1>2, Zenon

\* The call of another client goes on.
LEMMA CallsOfOthers ==
  ASSUME FileTypes, NEW c \in Clients, ClientStep(c) \/ \E m \in Commands : receive(c, m)
  PROVE  \A d \in Clients : d # c => ACalls'[d] = ACalls[d]
<1> SUFFICES ASSUME NEW d \in Clients, d # c PROVE ACalls'[d] = ACalls[d]
  BY Zenon
<1>1. pc'[d] = pc[d] /\ cmd'[d] = cmd[d]
  BY StepsAreAlone, Zenon DEF Alone
<1>2. ACalls[d] = IF pc[d] \in {"idle", "release"} THEN None ELSE OnFiles(cmd[d])
  BY AbstractAre, Zenon
<1>3. ACalls'[d] = IF pc'[d] \in {"idle", "release"} THEN None ELSE OnFiles(cmd'[d])
  BY AbstractAreNext, Zenon
<1> QED
  BY <1>1, <1>2, <1>3, Zenon

\* A command ends: what that is to the abstract specification.
LEMMA DoneEnds ==
  ASSUME FileInv, NEW c \in Clients, ClientStep(c), \E r : Done(c, r),
         pc[c] \notin {"idle", "release"}
  PROVE  /\ ACalls' = [ACalls EXCEPT ![c] = None] /\ ACalls[c] = OnFiles(cmd[c]) /\ ACalls[c] # None
         /\ wfd'[c] = None
<1>t. FileTypes /\ LockInv
  BY Zenon DEF FileInv
<1>1. cmd[c] \in Commands
  BY <1>t, AtWork, Zenon
<1>2. ACalls[c] = OnFiles(cmd[c]) /\ ACalls[c] # None
  BY <1>1, AbstractAre, OnFilesIs, Zenon
<1>3. pc'[c] = "release" /\ wfd'[c] = None
  BY <1>t, Domains, Zenon DEF Done, Goto
<1>4. ACalls'[c] = None
  BY <1>3, AbstractAreNext, Zenon
<1>5. \A d \in Clients : d # c => ACalls'[d] = ACalls[d]
  BY <1>t, CallsOfOthers, Zenon
<1>6. ACalls' = [ACalls EXCEPT ![c] = None]
  BY <1>4, <1>5, AbstractAre, AbstractAreNext, Updated
<1> QED
  BY <1>2, <1>3, <1>6, Zenon

-----------------------------------------------------------------------------
(* Each step is a step of the abstract specification *)

\* The output of a command, as the abstract specification has it.
LEMMA OutputIs ==
  ASSUME SameSpelling, FileInv, NEW c \in Clients, pc[c] \in Active
  PROVE  LET m == OnFiles(cmd[c])
         IN  /\ MayWrite(cmd[c], Input(c)) => A!Writes(m) /\ A!Output(m) = Result(cmd[c], Self(c), Input(c))
             /\ AFiles[m.src] = Input(c) /\ m.op = cmd[c].op /\ m.src = Source(c) /\ m.dst = Target(c)
             /\ Source(c) \in Files /\ Target(c) \in Files
<1> DEFINE m == OnFiles(cmd[c])
           in == Input(c)
<1>t. FileTypes /\ LockInv /\ pc[c] # "idle"
  BY Zenon DEF FileInv, Active
<1>1. cmd[c] \in Commands /\ Source(c) \in Files /\ Target(c) \in Files
  BY <1>t, AtWork, Zenon
<1>2. /\ m.op = cmd[c].op /\ m.data = cmd[c].data /\ m.src = Source(c) /\ m.dst = Target(c)
  BY <1>1, OnFilesIs, Zenon DEF Source, Target
<1>3. Content(Source(c)) = in
  BY ContentIs, Zenon DEF Sees
<1>4. AFiles[m.src] = in
  BY <1>1, <1>2, <1>3, AbstractAre, Zenon
<1>5. /\ A!rle_compress_bytes(in) = rle_compress_bytes(in)
      /\ A!rle_decompress_bytes(in) = rle_decompress_bytes(in)
      /\ A!Decodable(in) <=> Decodable(in)
  BY SameCode, Zenon
<1> HIDE DEF m, in
<1>6. MayWrite(cmd[c], in) => A!Writes(m)
  <2>1. A!Writes(m) <=> \/ m.op = "SETFILE"
                        \/ m.op = "COPYFILE" /\ AFiles[m.src] # None
                        \/ m.op = "COMPRESS" /\ AFiles[m.src] # None
                        \/ m.op = "DECOMPRESS" /\ AFiles[m.src] # None /\ A!Decodable(AFiles[m.src])
    BY Zenon DEF A!Writes, AFiles
  <2> QED
    BY <2>1, <1>2, <1>4, <1>5, Zenon DEF MayWrite
<1>7. MayWrite(cmd[c], in) => A!Output(m) = Result(cmd[c], Self(c), in)
  <2>1. A!Output(m) = CASE m.op = "SETFILE" -> m.data
                        [] m.op = "COPYFILE" -> IF m.src = m.dst THEN <<>> ELSE AFiles[m.src]
                        [] m.op = "COMPRESS" -> A!rle_compress_bytes(AFiles[m.src])
                        [] m.op = "DECOMPRESS" -> A!rle_decompress_bytes(AFiles[m.src])
    BY Zenon DEF A!Output, AFiles
  <2> QED
    BY <2>1, <1>2, <1>4, <1>5, Zenon DEF MayWrite, Result, Self
<1> QED
  BY <1>1, <1>2, <1>4, <1>6, <1>7, Zenon DEF m, in

\* Nobody else rewrites a file of a command at work.
LEMMA NoOtherWriter ==
  ASSUME SameSpelling, FileInv, NEW c \in Clients, pc[c] \in Active,
         NEW d \in Clients, d # c, wfd[d] # None
  PROVE  Target(d) # Source(c) /\ Target(d) # Target(c)
<1>t. FileTypes /\ LockInv
  BY Zenon DEF FileInv
<1>1. pc[d] \in Active /\ ~Runs(d, ReadOps)
  BY <1>t, OpenAreActive, Zenon
<1>2. {Source(d), Target(d)} \cap {Source(c), Target(c)} = {}
  BY <1>1, <1>t, WorkersAreApart, Zenon
<1> QED
  BY <1>2, Zenon

\* When a command has ended, its files are what they hold.
LEMMA OwnContent ==
  ASSUME SameSpelling, SameSpelling', FileInv, FileInv', NEW c \in Clients, pc[c] \in Active,
         ClientStep(c) \/ \E m \in Commands : receive(c, m), wfd'[c] = None,
         NEW f \in {Source(c), Target(c)}
  PROVE  Content(f)' = Holds(f)'
<1>t. FileTypes /\ LockInv
  BY Zenon DEF FileInv
<1>1. f \in Files
  <2>1. pc[c] # "idle"
    BY Zenon DEF Active
  <2> QED
    BY <2>1, <1>t, AtWork, Zenon
<1>2. \A d \in Clients : wfd'[d] # None => Target(d)' # f
  <2> SUFFICES ASSUME NEW d \in Clients, wfd'[d] # None PROVE Target(d)' # f
    BY Zenon
  <2>1. d # c
    BY Zenon
  <2>2. wfd[d] # None /\ Target(d)' = Target(d)
    BY <2>1, <1>t, StepsAreAlone, Zenon DEF Alone, Target
  <2> QED
    BY <2>1, <2>2, NoOtherWriter, Zenon
<1>3. Sees'
  BY ContentIsNext, Zenon
<1> QED
  BY <1>1, <1>2, <1>3, Zenon DEF Sees

\* A step that changes no file, of a client that rewrites none.
LEMMA FilesSame ==
  ASSUME SameSpelling, SameSpelling', FileInv, FileInv', NEW c \in Clients,
         ClientStep(c) \/ \E m \in Commands : receive(c, m),
         UNCHANGED fs, wfd[c] = None, wfd'[c] = None
  PROVE  AFiles' = AFiles
<1>1. \A f \in Files : Keeps(f)
  BY Zenon DEF Keeps, fs
<1>2. \A f \in Files : Content(f)' = Content(f)
  BY <1>1, ContentKept, Zenon
<1>3. \A f \in Files : AFiles'[f] = AFiles[f]
  BY <1>2, AbstractAre, AbstractAreNext, Zenon
<1> QED
  BY <1>3, AbstractAre, AbstractAreNext, Zenon

\* The steps between the system calls that count.
LEMMA SilentFiles ==
  ASSUME SameSpelling, SameSpelling', FileInv, FileInv', NEW c \in Clients, ClientStep(c),
         open_write(c) \/ \E k \in Counts : write_some(c, k)
  PROVE  AFiles' = AFiles
<1>t. /\ FileTypes /\ LockInv /\ Descriptors /\ DOMAIN saved = Clients /\ DOMAIN wfd = Clients
      /\ Desc(pc[c], cmd[c].op, rfd[c], wfd[c])
  BY Zenon DEF FileInv, FileTypes, TypeOK
<1>s. Sees /\ Sees'
  BY ContentIs, ContentIsNext, Zenon
<1>w. pc[c] \in Active /\ pc[c] # "idle"
  BY Zenon DEF open_write, write_some, At, Active
<1>f. Target(c) \in Files /\ Target(c)' = Target(c)
  BY <1>t, <1>w, AtWork, Zenon DEF open_write, write_some, Target
<1>1. ASSUME NEW f \in Files, f # Target(c) PROVE Content(f)' = Content(f)
  <2>1. Keeps(f)
    BY <1>1, <1>t, WritesKeep, Zenon
  <2> QED
    BY <2>1, <1>1, <1>f, ContentKept, Zenon
<1>2. CASE open_write(c)
  <2>1. wfd[c] = None
    <3>1. pc[c] \in {"op", "open"}
      BY <1>2, Zenon DEF open_write, At
    <3> QED
      BY <3>1, <1>t, Zenon DEF Desc
  <2>2. Content(Target(c)) = Holds(Target(c))
    <3>1. \A d \in Clients : wfd[d] # None => Target(d) # Target(c)
      BY <2>1, <1>w, NoOtherWriter, Zenon
    <3> QED
      BY <3>1, <1>f, <1>s, Zenon DEF Sees
  <2>3. saved'[c] = Holds(Target(c))
    BY <1>2, <1>t, Zenon DEF open_write, Holds
  <2>4. wfd'[c] # None
    <3>1. pc'[c] \in {"write", "copy"}
      BY <1>2, <1>t, Domains, Zenon DEF open_write, Goto
    <3>2. Desc(pc'[c], cmd'[c].op, rfd'[c], wfd'[c])
      BY Zenon DEF FileInv, FileTypes
    <3> QED
      BY <3>1, <3>2, Zenon DEF Desc
  <2>5. Content(Target(c))' = saved'[c]
    BY <2>4, <1>s, Zenon DEF Sees
  <2>6. \A f \in Files : Content(f)' = Content(f)
    <3> SUFFICES ASSUME NEW f \in Files, f = Target(c) PROVE Content(f)' = Content(f)
      BY <1>1, Zenon
    <3>1. Content(f)' = Content(Target(c))'
      BY <1>f DEF Content
    <3> QED
      BY <3>1, <2>2, <2>3, <2>5, Zenon
  <2> QED
    BY <2>6, AbstractAre, AbstractAreNext
<1>3. CASE \E k \in Counts : write_some(c, k)
  <2>1. wfd' = wfd /\ saved' = saved /\ pc[c] = "write"
    BY <1>3, Zenon DEF write_some, At
  <2>2. wfd[c] # None
    BY <2>1, <1>t, Zenon DEF Desc
  <2>3. Content(Target(c)) = saved[c] /\ Content(Target(c))' = saved'[c]
    BY <2>1, <2>2, <1>s, Zenon DEF Sees
  <2>4. \A f \in Files : Content(f)' = Content(f)
    <3> SUFFICES ASSUME NEW f \in Files, f = Target(c) PROVE Content(f)' = Content(f)
      BY <1>1, Zenon
    <3>1. Content(f)' = Content(Target(c))'
      BY <1>f DEF Content
    <3> QED
      BY <3>1, <2>1, <2>3, Zenon
  <2> QED
    BY <2>4, AbstractAre, AbstractAreNext
<1> QED
  BY <1>2, <1>3, Zenon

\* Locking, opening, reading and writing are not seen by anybody.
LEMMA SilentSteps ==
  ASSUME SameSpelling, SameSpelling', FileInv, FileInv', NEW c \in Clients, ClientStep(c),
         \/ locks_acquire_read(c) \/ locks_acquire_write(c) \/ locks_acquire_second(c)
         \/ open_read(c) \/ compress(c) \/ decompress(c) \/ copy_open(c) \/ copy_next(c)
         \/ open_write(c)
         \/ \E k \in Counts : read_some(c, k) \/ write_some(c, k) \/ copy_read(c, k)
  PROVE  UNCHANGED A!avars
<1>t. FileTypes /\ LockInv /\ DOMAIN pc = Clients
  BY Zenon DEF FileInv, FileTypes, TypeOK
<1>1. reply' = reply /\ cmd' = cmd
  BY Zenon DEF locks_acquire_read, locks_acquire_write, locks_acquire_second, open_read, compress,
               decompress, Convert, copy_open, copy_next, open_write, read_some, write_some, copy_read
<1>2. pc[c] \in {"lock", "lock2", "op", "read", "open", "write", "copy"}
      /\ pc'[c] \in {"lock", "lock2", "op", "read", "open", "write", "copy"}
  BY <1>t, Zenon
     DEF locks_acquire_read, locks_acquire_write, locks_acquire_second, open_read,
         compress,
               decompress, Convert, copy_open, copy_next, open_write, read_some, write_some, copy_read,
               ReadAll, At, Goto
<1>3. ACalls' = ACalls
  <2>1. ACalls[c] = OnFiles(cmd[c]) /\ ACalls'[c] = OnFiles(cmd[c])
    <3>1. pc[c] \notin {"idle", "release"} /\ pc'[c] \notin {"idle", "release"}
      BY <1>2, Zenon
    <3> QED
      BY <3>1, <1>1, AbstractAre, AbstractAreNext, Zenon
  <2>2. \A d \in Clients : ACalls'[d] = ACalls[d]
    BY <2>1, <1>t, CallsOfOthers, Zenon
  <2> QED
    BY <2>2, AbstractAre, AbstractAreNext, Zenon
<1>4. AFiles' = AFiles
  <2>1. CASE open_write(c) \/ \E k \in Counts : write_some(c, k)
    BY <2>1, SilentFiles, Zenon
  <2>2. CASE ~(open_write(c) \/ \E k \in Counts : write_some(c, k))
    <3>1. dir' = dir /\ data' = data /\ wfd' = wfd /\ saved' = saved
      BY <2>2, Zenon DEF locks_acquire_read, locks_acquire_write, locks_acquire_second, open_read,
                   compress, decompress, Convert, copy_open, copy_next, read_some, copy_read, fs, local
    <3> QED
      BY <3>1, <1>1, Zenon DEF AFiles, Content, Target
  <2> QED
    BY <2>1, <2>2, Zenon
<1> QED
  BY <1>1, <1>3, <1>4, Zenon DEF A!avars, AFiles, ACalls

\* Receiving a command is the call, releasing the locks the return.
LEMMA CallAndReturn ==
  ASSUME SameSpelling, SameSpelling', FileInv, FileInv', NEW c \in Clients,
         \/ \E m \in Commands : receive(c, m)
         \/ ClientStep(c) /\ locks_release(c)
  PROVE  A!ANext
<1>t. /\ FileTypes /\ LockInv /\ DOMAIN pc = Clients /\ DOMAIN cmd = Clients
      /\ Desc(pc[c], cmd[c].op, rfd[c], wfd[c])
  BY Zenon DEF FileInv, FileTypes, TypeOK
<1>1. pc[c] \in {"idle", "release"} /\ UNCHANGED fs /\ wfd' = wfd
  BY Zenon DEF receive, locks_release, At, local
<1>2. wfd[c] = None /\ wfd'[c] = None
  BY <1>1, <1>t, Zenon DEF Desc
<1>3. AFiles' = AFiles
  BY <1>1, <1>2, FilesSame, Zenon
<1>4. ACalls[c] = None /\ \A d \in Clients : d # c => ACalls'[d] = ACalls[d]
  BY <1>1, <1>t, CallsOfOthers, AbstractAre, Zenon
<1>5. CASE \E m \in Commands : receive(c, m)
  <2>1. PICK m \in Commands : receive(c, m)
    BY <1>5, Zenon
  <2>2. pc'[c] = "lock" /\ cmd'[c] = m /\ reply' = reply
    BY <2>1, <1>t, Zenon DEF receive, Goto
  <2>3. ACalls'[c] = OnFiles(m)
    BY <2>2, AbstractAreNext, Zenon
  <2>4. ACalls' = [ACalls EXCEPT ![c] = OnFiles(m)]
    BY <2>3, <1>4, AbstractAre, AbstractAreNext, Updated
  <2>5. A!Call(c, OnFiles(m))
    BY <2>2, <2>4, <1>3, <1>4, Zenon DEF A!Call, ACalls, AFiles
  <2> QED
    BY <2>1, <2>5, Zenon DEF A!ANext
<1>6. CASE locks_release(c)
  <2>1. pc'[c] = "idle" /\ reply' = [reply EXCEPT ![c] = NoReply]
    BY <1>6, <1>t, Zenon DEF locks_release, Goto
  <2>2. ACalls'[c] = None
    BY <2>1, AbstractAreNext, Zenon
  <2>3. \A d \in Clients : ACalls'[d] = ACalls[d]
    BY <1>4, <2>2, Zenon
  <2>4. ACalls' = ACalls
    BY <2>3, AbstractAre, AbstractAreNext, Zenon
  <2>5. A!Return(c)
    BY <2>1, <2>4, <1>3, <1>4, Zenon DEF A!Return, ACalls, AFiles, NoReply
  <2> QED
    BY <2>5, Zenon DEF A!ANext
<1> QED
  BY <1>5, <1>6, Zenon

\* A command that fails before it has opened its destination.
LEMMA FailingSteps ==
  ASSUME SameSpelling, SameSpelling', FileInv, FileInv', NEW c \in Clients, ClientStep(c),
         Done(c, Err), UNCHANGED fs, wfd[c] = None, pc[c] \notin {"idle", "release"}
  PROVE  A!ANext
<1>1. /\ ACalls' = [ACalls EXCEPT ![c] = None] /\ ACalls[c] # None /\ wfd'[c] = None
      /\ reply' = [reply EXCEPT ![c] = Err]
  BY DoneEnds, Zenon DEF Done
<1>2. AFiles' = AFiles
  BY <1>1, FilesSame, Zenon
<1>3. A!Fails(c)
  BY <1>1, <1>2, Zenon DEF A!Fails, A!Ends, ACalls, AFiles, Err
<1> QED
  BY <1>3, Zenon DEF A!ANext

\* GETFILE and STATFILE.
LEMMA ReadingSteps ==
  ASSUME SameSpelling, SameSpelling', FileInv, FileInv', NEW c \in Clients, ClientStep(c),
         getfile_reply(c) \/ stat(c) \/ (not_found(c) /\ Runs(c, ReadOps))
  PROVE  A!ANext
<1>t. /\ FileTypes /\ LockInv /\ Descriptors /\ Desc(pc[c], cmd[c].op, rfd[c], wfd[c])
      /\ ProgressOf(c) /\ dir \in [Files -> Inodes \cup {None}] /\ data \in [Inodes -> Seq(Nat)]
      /\ roff[c] \in Nat /\ None \notin Seq(Nat)
  BY FileServerAssumption, Zenon DEF FileInv, FileTypes, TypeOK
<1> DEFINE r == IF Input(c) = None THEN [kind |-> "null"]
                ELSE IF cmd[c].op = "GETFILE" THEN [kind |-> "bulk", data |-> Input(c)]
                ELSE [kind |-> "size", size |-> Len(Input(c))]
<1>w. pc[c] \in Active /\ pc[c] \notin {"idle", "release"} /\ pc[c] # "idle" /\ UNCHANGED fs
      /\ cmd[c].op \in {"GETFILE", "STATFILE"}
  BY Zenon DEF getfile_reply, ReadAll, stat, not_found, At, Runs, ReadOps, Active
<1>f. Source(c) \in Files
  BY <1>w, <1>t, AtWork, Zenon
<1>n. wfd[c] = None
  BY <1>w, <1>t, Zenon DEF Desc, Active
<1>1. Done(c, r)
  <2>1. CASE getfile_reply(c)
    <3> DEFINE z == Bytes(rfd[c])
               o == roff[c]
    <3>1. pc[c] = "read" /\ cmd[c].op = "GETFILE"
      BY <2>1, Zenon DEF getfile_reply, ReadAll, At, Runs
    <3>2. rfd[c] # None /\ size[c] = Len(z) /\ o <= size[c] /\ buf[c] = SubSeq(z, 1, o)
      <4> HIDE DEF r
      <4>1. rfd[c] # None
        BY <3>1, <1>t, Zenon DEF Desc
      <4>2. size[c] = Len(z) /\ o <= size[c] /\ buf[c] = SubSeq(z, 1, o)
        BY <3>1, <1>t, Zenon DEF ProgressOf, Progress
      <4> QED
        BY <4>1, <4>2, Zenon
    <3>3. Input(c) = z /\ z \in Seq(Nat) /\ z # None /\ z = data[rfd[c]]
      BY <3>2, <1>n, <1>t, InputIs, Zenon DEF Bytes
    <3>4. Len(z) \in Nat /\ SubSeq(z, 1, Len(z)) = z
      BY <3>3, Pieces, Zenon
    <3>5. o >= Len(z) \/ Len(z) - o <= 0
      <4>1. o >= size[c] \/ Left(c) <= 0
        BY <2>1, Zenon DEF getfile_reply, ReadAll
      <4> QED
        BY <4>1, <3>2, <3>3, Zenon DEF Left
    <3>6. o = Len(z)
      <4>1. o \in Nat /\ Len(z) \in Nat /\ o <= Len(z)
        BY <3>2, <3>4, <1>t, Zenon
      <4> HIDE DEF o, z, r
      <4> QED
        BY <4>1, <3>5
    <3>7. buf[c] = Input(c)
      BY <3>2, <3>3, <3>4, <3>6, Zenon
    <3>8. Done(c, [kind |-> "bulk", data |-> buf[c]]) /\ cmd[c].op = "GETFILE"
      BY <2>1, Zenon DEF getfile_reply, Runs
    <3> QED
      BY <3>3, <3>7, <3>8, Zenon
  <2>2. CASE stat(c)
    <3>1. /\ cmd[c].op = "STATFILE" /\ dir[Source(c)] # None
          /\ Done(c, [kind |-> "size", size |-> Len(data[dir[Source(c)]])])
      BY <2>2, Zenon DEF stat, Runs
    <3>2. Input(c) = data[dir[Source(c)]] /\ Input(c) # None
      BY <3>1, <1>f, <1>n, <1>t, Zenon DEF Input, Holds
    <3>3. cmd[c].op # "GETFILE"
      BY <3>1, Zenon
    <3> QED
      BY <3>1, <3>2, <3>3, Zenon
  <2>3. CASE not_found(c) /\ Runs(c, ReadOps)
    BY <2>3, <1>n, Zenon DEF not_found, Input, Holds
  <2> QED
    BY <2>1, <2>2, <2>3, Zenon
<1>2. /\ ACalls' = [ACalls EXCEPT ![c] = None] /\ ACalls[c] = OnFiles(cmd[c]) /\ ACalls[c] # None
      /\ wfd'[c] = None /\ reply' = [reply EXCEPT ![c] = r]
  <2>1. reply' = [reply EXCEPT ![c] = r] /\ \E s : Done(c, s)
    BY <1>1, Zenon DEF Done, getfile_reply, stat, not_found
  <2> QED
    BY <2>1, <1>w, DoneEnds, Zenon
<1>3. AFiles' = AFiles
  BY <1>2, <1>n, <1>w, FilesSame, Zenon
<1>4. AFiles[ACalls[c].src] = Input(c) /\ ACalls[c].op = cmd[c].op
  BY <1>2, <1>w, OutputIs, Zenon
<1>5. A!Get(c)
  <2> DEFINE R == IF AFiles[ACalls[c].src] = None THEN [kind |-> "null"]
                  ELSE IF ACalls[c].op = "GETFILE" THEN [kind |-> "bulk", data |-> AFiles[ACalls[c].src]]
                  ELSE [kind |-> "size", size |-> Len(AFiles[ACalls[c].src])]
  <2>1. r = R
    BY <1>4, Zenon
  <2>2. reply' = [reply EXCEPT ![c] = R]
    BY <2>1, <1>2, Zenon
  <2>3. ACalls[c] # None /\ ACalls[c].op \in {"GETFILE", "STATFILE"}
    BY <1>2, <1>4, <1>w, Zenon
  <2> QED
    BY <2>2, <2>3, <1>2, <1>3, Zenon DEF A!Get, A!Ends, ACalls, AFiles
<1> QED
  BY <1>5, Zenon DEF A!ANext

\* A sequence and the rest of it.
LEMMA PrefixIs ==
  ASSUME NEW s \in Seq(Nat), NEW t \in Seq(Nat)
  PROVE  s \in A!Prefixes(s \o t)
<1> DEFINE u == s \o t
<1>1. Len(s) \in 0..Len(u) /\ SubSeq(u, 1, Len(s)) = s
  OBVIOUS
<1> QED
  BY <1>1, Zenon DEF A!Prefixes

\* A client that is rewriting a file has written a part of its result.
LEMMA WrittenIsPrefix ==
  ASSUME FileInv, NEW c \in Clients, pc[c] \in {"write", "copy"}
  PROVE  Bytes(wfd[c]) \in A!Prefixes(Result(cmd[c], Self(c), Input(c)))
<1> DEFINE dst == Bytes(wfd[c])
           src == Bytes(rfd[c])
           b == buf[c]
           o == roff[c]
           m == cmd[c]
           self == Self(c)
           in == Input(c)
<1>1. /\ dst \in Seq(Nat) /\ o \in Nat /\ b \in Seq(Nat)
      /\ pc[c] = "write" /\ m.op # "COPYFILE" => dst \o b = Result(m, self, in)
      /\ m.op = "COPYFILE" /\ self => dst = <<>>
      /\ m.op = "COPYFILE" => src \in Seq(Nat) /\ Len(src) \in Nat
      /\ m.op = "COPYFILE" /\ ~self =>
           /\ o <= Len(src) /\ in = src
           /\ SubSeq(src, 1, o) = IF pc[c] = "copy" THEN dst ELSE dst \o b
  BY WritingIs, Zenon
<1>2. pc[c] = "copy" => m.op = "COPYFILE"
  <2>1. Desc(pc[c], cmd[c].op, rfd[c], wfd[c])
    BY Zenon DEF FileInv, FileTypes
  <2> QED
    BY <2>1, Zenon DEF Desc
<1> HIDE DEF dst, src, b, o, m, self, in
<1>e. <<>> \in Seq(Nat) /\ <<>> \o <<>> = <<>>
  OBVIOUS
<1>3. CASE m.op # "COPYFILE"
  <2>1. dst \o b = Result(m, self, in)
    BY <1>1, <1>2, <1>3, Zenon
  <2> QED
    BY <2>1, <1>1, PrefixIs, Zenon DEF dst, m, self, in
<1>4. CASE m.op = "COPYFILE" /\ self
  <2>1. Result(m, self, in) = <<>>
    BY <1>4, Zenon DEF Result
  <2>2. dst = <<>>
    BY <1>1, <1>4, Zenon
  <2>3. <<>> \in A!Prefixes(<<>>)
    BY <1>e, PrefixIs, Zenon
  <2> QED
    BY <2>1, <2>2, <2>3, Zenon DEF dst, m, self, in
<1>5. CASE m.op = "COPYFILE" /\ ~self
  <2>1. Result(m, self, in) = src
    BY <1>1, <1>5, Zenon DEF Result
  <2> DEFINE h == SubSeq(src, 1, o)
             t == SubSeq(src, o + 1, Len(src))
  <2>2. h \in Seq(Nat) /\ t \in Seq(Nat) /\ h \o t = src
    <3>1. src \in Seq(Nat) /\ Len(src) \in Nat /\ o \in Nat /\ o <= Len(src)
      BY <1>1, <1>5, Zenon
    <3>2. o \in 0..Len(src) /\ Len(src) \in o..Len(src)
      BY <3>1
    <3>3. h \o t = SubSeq(src, 1, Len(src))
      BY <3>1, <3>2, ConcatAdjacentSubSeq, Zenon
    <3>4. SubSeq(src, 1, Len(src)) = src
      BY <3>1, Pieces, Zenon
    <3>5. h \in Seq(Nat) /\ t \in Seq(Nat)
      BY <3>1
    <3> QED
      BY <3>3, <3>4, <3>5, Zenon
  <2>3. h = IF pc[c] = "copy" THEN dst ELSE dst \o b
    BY <1>1, <1>5, Zenon
  <2> HIDE DEF h, t
  <2>4. CASE pc[c] = "copy"
    <3>1. dst \o t = src
      BY <2>2, <2>3, <2>4, Zenon
    <3> QED
      BY <3>1, <2>1, <2>2, <1>1, PrefixIs, Zenon DEF dst, m, self, in
  <2>5. CASE pc[c] = "write"
    <3>1. (dst \o b) \o t = src
      <4>1. h = dst \o b
        BY <2>3, <2>5, Zenon
      <4> QED
        BY <4>1, <2>2, Zenon
    <3>2. /\ \A u \in Seq(Nat) : (dst \o b) \o u = dst \o (b \o u)
      BY <1>1, Pieces, Zenon
    <3>3. b \o t \in Seq(Nat)
      BY <1>1, <2>2, Pieces, Zenon
    <3>4. dst \o (b \o t) = src
      BY <3>1, <3>2, <2>2, Zenon
    <3> QED
      BY <3>3, <3>4, <2>1, <1>1, PrefixIs, Zenon DEF dst, m, self, in
  <2> QED
    BY <2>4, <2>5, Zenon
<1> QED
  BY <1>3, <1>4, <1>5, Zenon

\* At its end it has written all of it.
LEMMA WrittenIsAll ==
  ASSUME FileInv, NEW c \in Clients, write_done(c) \/ copy_done(c)
  PROVE  Bytes(wfd[c]) = Result(cmd[c], Self(c), Input(c))
<1> DEFINE dst == Bytes(wfd[c])
           src == Bytes(rfd[c])
           b == buf[c]
           o == roff[c]
           m == cmd[c]
           self == Self(c)
           in == Input(c)
<1>0. pc[c] \in {"write", "copy"}
  BY Zenon DEF write_done, copy_done, At
<1>1. /\ dst \in Seq(Nat) /\ o \in Nat
      /\ pc[c] = "write" /\ m.op # "COPYFILE" => dst \o b = Result(m, self, in)
      /\ m.op = "COPYFILE" /\ self => dst = <<>>
      /\ m.op = "COPYFILE" => src \in Seq(Nat) /\ Len(src) \in Nat /\ src = data[rfd[c]]
      /\ m.op = "COPYFILE" /\ ~self =>
           /\ o <= Len(src) /\ in = src
           /\ SubSeq(src, 1, o) = IF pc[c] = "copy" THEN dst ELSE dst \o b
  BY <1>0, WritingIs, Zenon
<1>2. CASE write_done(c)
  <2>1. pc[c] = "write" /\ b = <<>> /\ m.op # "COPYFILE"
    BY <1>2, Zenon DEF write_done, At, Runs
  <2>2. dst \o <<>> = dst
    BY <1>1, Pieces, Zenon
  <2> QED
    BY <2>1, <2>2, <1>1, Zenon
<1>3. CASE copy_done(c)
  <2>1. pc[c] = "copy" /\ Left(c) <= 0
    BY <1>3, Zenon DEF copy_done, At
  <2>2. m.op = "COPYFILE"
    <3>1. Desc(pc[c], cmd[c].op, rfd[c], wfd[c])
      BY Zenon DEF FileInv, FileTypes
    <3> QED
      BY <2>1, <3>1, Zenon DEF Desc
  <2>3. Len(src) - o <= 0
    BY <2>1, <2>2, <1>1, Zenon DEF Left
  <2> HIDE DEF dst, src, b, o, m, self, in
  <2>4. ASSUME self PROVE dst = Result(m, self, in)
    <3>1. dst = <<>>
      BY <2>2, <2>4, <1>1, Zenon
    <3> QED
      BY <2>2, <2>4, <3>1 DEF Result
  <2>5. ASSUME ~self PROVE dst = Result(m, self, in)
    <3>1. o <= Len(src) /\ Len(src) \in Nat /\ o \in Nat
      BY <2>2, <2>5, <1>1, Zenon
    <3>2. o = Len(src)
      BY <3>1, <2>3
    <3>3. SubSeq(src, 1, Len(src)) = src
      BY <2>2, <1>1, Pieces, Zenon
    <3>4. dst = in
      BY <2>1, <2>2, <2>5, <3>2, <3>3, <1>1, Zenon
    <3>5. Result(m, self, in) = in
      BY <2>2, <2>5, Zenon DEF Result
    <3> QED
      BY <3>4, <3>5, Zenon
  <2>6. dst = Result(m, self, in)
    BY <2>4, <2>5, Zenon
  <2> QED
    BY <2>6, Zenon DEF dst, m, self, in
<1> QED
  BY <1>2, <1>3, Zenon

\* The end of a command that has rewritten its destination, whole or in part.
LEMMA WritingEnds ==
  ASSUME SameSpelling, SameSpelling', FileInv, FileInv', NEW c \in Clients, ClientStep(c),
         \E r : Done(c, r), UNCHANGED fs, wfd[c] # None
  PROVE  /\ AFiles' = [AFiles EXCEPT ![ACalls[c].dst] = Bytes(wfd[c])]
         /\ ACalls' = [ACalls EXCEPT ![c] = None] /\ ACalls[c] # None
         /\ A!Writes(ACalls[c]) /\ A!Output(ACalls[c]) = Result(cmd[c], Self(c), Input(c))
         /\ pc[c] \in {"write", "copy"}
<1>t. FileTypes /\ LockInv /\ Descriptors
  BY Zenon DEF FileInv
<1>1. pc[c] \in Active /\ pc[c] \in {"write", "copy"}
  BY <1>t, OpenAreActive, Zenon
<1>2. pc[c] \notin {"idle", "release"}
  BY <1>1, Zenon
<1>3. /\ ACalls' = [ACalls EXCEPT ![c] = None] /\ ACalls[c] = OnFiles(cmd[c]) /\ ACalls[c] # None
      /\ wfd'[c] = None
  BY <1>2, DoneEnds, Zenon
<1>4. MayWrite(cmd[c], Input(c))
  BY <1>1, WritingIs, Zenon
<1>5. /\ A!Writes(OnFiles(cmd[c])) /\ A!Output(OnFiles(cmd[c])) = Result(cmd[c], Self(c), Input(c))
      /\ OnFiles(cmd[c]).dst = Target(c) /\ Target(c) \in Files
  BY <1>1, <1>4, OutputIs, Zenon
<1>6. ASSUME NEW f \in Files, f # Target(c) PROVE Content(f)' = Content(f)
  <2>1. Keeps(f)
    BY Zenon DEF Keeps, fs
  <2> QED
    BY <2>1, <1>3, <1>6, ContentKept, Zenon
<1>7. PICK g : g = Target(c)
  BY Zenon
<1>8. Content(g)' = Bytes(wfd[c])
  <2>1. dir' = dir /\ data' = data
    BY Zenon DEF fs
  <2>2. \A f \in {Source(c), Target(c)} : Content(f)' = Holds(f)'
    BY <1>1, <1>3, OwnContent, Zenon
  <2>3. Content(g)' = Holds(g)'
    BY <2>2, <1>7, Zenon
  <2>4. Holds(g)' = Bytes(wfd[c])
    BY <2>1, <1>7, <1>t, Zenon DEF Holds, Bytes, Descriptors
  <2> QED
    BY <2>3, <2>4, Zenon
<1>9. g \in Files /\ AFiles'[g] = Bytes(wfd[c]) /\ \A f \in Files : f # g => AFiles'[f] = AFiles[f]
  <2>1. g \in Files /\ \A f \in Files : AFiles[f] = Content(f) /\ AFiles'[f] = Content(f)'
    BY <1>5, <1>7, AbstractAre, AbstractAreNext, Zenon
  <2>2. \A f \in Files : f # g => Content(f)' = Content(f)
    BY <1>6, <1>7, Zenon
  <2> QED
    BY <1>8, <2>1, <2>2, Zenon
<1>10. AFiles' = [AFiles EXCEPT ![g] = Bytes(wfd[c])]
  BY <1>9, AbstractAre, AbstractAreNext, Updated
<1> QED
  BY <1>1, <1>3, <1>5, <1>7, <1>10, Zenon

\* A command that wrote its file takes effect when it closes it, also when a
\* system call fails: what was written by then is what the file has.
LEMMA WritingSteps ==
  ASSUME SameSpelling, SameSpelling', FileInv, FileInv', NEW c \in Clients, ClientStep(c),
         write_done(c) \/ copy_done(c) \/ (io_fails(c) /\ wfd[c] # None)
  PROVE  A!ANext
<1>t. Desc(pc[c], cmd[c].op, rfd[c], wfd[c])
  BY Zenon DEF FileInv, FileTypes
<1>1. wfd[c] # None
  <2>1. pc[c] \in {"write", "copy"} \/ wfd[c] # None
    BY Zenon DEF write_done, copy_done, At
  <2> QED
    BY <2>1, <1>t, Zenon DEF Desc
<1>2. (\E r : Done(c, r)) /\ UNCHANGED fs
  BY Zenon DEF write_done, copy_done, io_fails
<1>3. /\ AFiles' = [AFiles EXCEPT ![ACalls[c].dst] = Bytes(wfd[c])]
      /\ ACalls' = [ACalls EXCEPT ![c] = None] /\ ACalls[c] # None
      /\ A!Writes(ACalls[c]) /\ A!Output(ACalls[c]) = Result(cmd[c], Self(c), Input(c))
      /\ pc[c] \in {"write", "copy"}
  BY <1>1, <1>2, WritingEnds, Zenon
<1>4. CASE write_done(c) \/ copy_done(c)
  <2>1. reply' = [reply EXCEPT ![c] = Ok]
    BY <1>4, Zenon DEF write_done, copy_done, Done
  <2>2. AFiles' = [AFiles EXCEPT ![ACalls[c].dst] = A!Output(ACalls[c])]
    BY <1>3, <1>4, WrittenIsAll, Zenon
  <2>3. A!Write(c)
    BY <2>1, <2>2, <1>3, Zenon DEF A!Write, A!Ends, AFiles, ACalls, Ok
  <2> QED
    BY <2>3, Zenon DEF A!ANext
<1>5. CASE io_fails(c)
  <2>1. reply' = [reply EXCEPT ![c] = Err]
    BY <1>5, Zenon DEF io_fails, Done
  <2>2. Bytes(wfd[c]) \in A!Prefixes(A!Output(ACalls[c]))
    BY <1>3, WrittenIsPrefix, Zenon
  <2>3. \E s \in A!Prefixes(A!Output(ACalls[c])) : AFiles' = [AFiles EXCEPT ![ACalls[c].dst] = s]
    BY <2>2, <1>3, Zenon
  <2>4. A!WriteFails(c)
    BY <2>1, <2>3, <1>3, Zenon DEF A!WriteFails, A!Ends, AFiles, ACalls, Err
  <2> QED
    BY <2>4, Zenon DEF A!ANext
<1> QED
  BY <1>4, <1>5, Zenon

\* DELFILE and RENAMEFILE.
LEMMA NamingSteps ==
  ASSUME SameSpelling, SameSpelling', FileInv, FileInv', NEW c \in Clients, ClientStep(c), unlink(c) \/ rename(c)
  PROVE  A!ANext
<1>t. /\ FileTypes /\ LockInv /\ Descriptors /\ Desc(pc[c], cmd[c].op, rfd[c], wfd[c])
      /\ dir \in [Files -> Inodes \cup {None}] /\ data \in [Inodes -> Seq(Nat)]
      /\ None \notin Seq(Nat) /\ None \notin Inodes
  BY FileServerAssumption, Zenon DEF FileInv, FileTypes, TypeOK
<1>w. pc[c] = "op" /\ pc[c] \in Active /\ pc[c] \notin {"idle", "release"} /\ pc[c] # "idle"
      /\ data' = Reclaimed(dir') /\ \E r : Done(c, r)
  BY Zenon DEF unlink, rename, At, Active
<1>n. wfd[c] = None
  BY <1>w, <1>t, Zenon DEF Desc
<1>1. /\ ACalls' = [ACalls EXCEPT ![c] = None] /\ ACalls[c] = OnFiles(cmd[c]) /\ ACalls[c] # None
      /\ wfd'[c] = None
  BY <1>w, DoneEnds, Zenon
<1>2. /\ AFiles[ACalls[c].src] = Input(c) /\ ACalls[c].op = cmd[c].op /\ ACalls[c].src = Source(c)
      /\ ACalls[c].dst = Target(c) /\ Source(c) \in Files /\ Target(c) \in Files
  BY <1>1, <1>w, OutputIs, Zenon
<1>3. Input(c) = Holds(Source(c)) /\ (Input(c) = None <=> dir[Source(c)] = None)
  BY <1>2, <1>n, <1>t, Zenon DEF Input, Holds
<1>4. \A f \in Files : f \notin {Source(c), Target(c)} => AFiles'[f] = AFiles[f]
  <2> SUFFICES ASSUME NEW f \in Files, f \notin {Source(c), Target(c)} PROVE AFiles'[f] = AFiles[f]
    BY Zenon
  <2>1. Keeps(f)
    BY <1>t, StepsKeep, Zenon DEF Keeps, fs
  <2>2. Content(f)' = Content(f)
    BY <2>1, <1>1, <1>n, ContentKept, Zenon
  <2> QED
    BY <2>2, AbstractAre, AbstractAreNext, Zenon
<1>5. \A f \in {Source(c), Target(c)} : AFiles'[f] = IF dir'[f] = None THEN None ELSE data'[dir'[f]]
  <2> SUFFICES ASSUME NEW f \in {Source(c), Target(c)}
               PROVE  AFiles'[f] = IF dir'[f] = None THEN None ELSE data'[dir'[f]]
    BY Zenon
  <2>1. Content(f)' = Holds(f)'
    BY <1>w, <1>1, OwnContent, Zenon
  <2>2. f \in Files
    BY <1>2, Zenon
  <2> QED
    BY <2>1, <2>2, AbstractAreNext, Zenon DEF Holds
<1>6. CASE unlink(c)
  <2>1. /\ cmd[c].op = "DELFILE" /\ dir' = [dir EXCEPT ![Source(c)] = None]
        /\ reply' = [reply EXCEPT ![c] = [kind |-> "int", n |-> IF dir[Source(c)] = None THEN 0 ELSE 1]]
    BY <1>6, Zenon DEF unlink, Runs, Done
  <2>2. Source(c) = Target(c)
    <3>1. cmd[c] \in Commands
      BY <1>w, <1>t, AtWork, Zenon
    <3>2. cmd[c].src = cmd[c].dst
      BY <2>1, <3>1, FileServerAssumption DEF OnePathOps
    <3> QED
      BY <3>2, Zenon DEF Source, Target
  <2>3. AFiles'[Source(c)] = None
    BY <2>1, <1>2, <1>5, <1>t, Zenon
  <2> DEFINE g == Source(c)
  <2>4. AFiles' = [AFiles EXCEPT ![g] = None]
    <3>1. g \in Files /\ AFiles'[g] = None /\ \A f \in Files : f # g => AFiles'[f] = AFiles[f]
      BY <2>2, <2>3, <1>2, <1>4, Zenon
    <3> HIDE DEF g
    <3> QED
      BY <3>1, AbstractAre, AbstractAreNext, Updated
  <2>5. reply' = [reply EXCEPT ![c] = [kind |-> "int", n |-> IF AFiles[ACalls[c].src] = None THEN 0 ELSE 1]]
    BY <2>1, <1>2, <1>3, Zenon
  <2>6. AFiles' = [AFiles EXCEPT ![ACalls[c].src] = None]
    BY <2>4, <1>2, Zenon
  <2>7. A!Delete(c)
    BY <2>1, <2>5, <2>6, <1>1, <1>2, Zenon DEF A!Delete, A!Ends, AFiles, ACalls
  <2> QED
    BY <2>7, Zenon DEF A!ANext
<1>7. CASE rename(c)
  <2> DEFINE S == ACalls[c].src
             T == ACalls[c].dst
             i == dir[S]
  <2>0. S = Source(c) /\ T = Target(c)
    BY <1>2, Zenon
  <2>1. /\ cmd[c].op = "RENAMEFILE" /\ i # None /\ reply' = [reply EXCEPT ![c] = Ok]
        /\ dir' = IF S = T THEN dir ELSE [dir EXCEPT ![T] = i, ![S] = None]
    BY <2>0, <1>7, Zenon DEF rename, Runs, Done
  <2>2. i \in Inodes /\ dir'[T] = i /\ (S # T => dir'[S] = None)
    BY <2>0, <2>1, <1>2, <1>t, Zenon
  <2>3. data'[i] = data[i]
    BY <2>0, <2>2, <1>2, <1>w, <1>t, Zenon DEF Reclaimed
  <2>4. AFiles'[T] = AFiles[S] /\ (S # T => AFiles'[S] = None)
    <3>1. AFiles'[T] = data[i]
      BY <2>0, <2>1, <2>2, <2>3, <1>5, Zenon
    <3>2. AFiles[S] = data[i]
      BY <2>0, <2>1, <1>2, <1>3, Zenon DEF Holds
    <3> QED
      BY <3>1, <3>2, <2>0, <2>2, <1>5, Zenon
  <2> HIDE DEF S, T, i
  <2>5. \A f \in Files : AFiles'[f] = CASE f = T -> AFiles[S]
                                        [] f # T /\ f = S -> None
                                        [] OTHER -> AFiles[f]
    <3>1. \A f \in Files : f # T /\ f # S => AFiles'[f] = AFiles[f]
      BY <2>0, <1>4, Zenon
    <3> QED
      BY <2>4, <3>1, Zenon
  <2>6. AFiles' = [f \in Files |-> CASE f = T -> AFiles[S]
                                     [] f # T /\ f = S -> None
                                     [] OTHER -> AFiles[f]]
    BY <2>5, AbstractAreNext, Zenon
  <2>7. AFiles[S] # None
    BY <2>0, <2>1, <1>2, <1>3, Zenon DEF i
  <2>8. A!Rename(c)
    BY <2>1, <2>6, <2>7, <1>1, <1>2, Zenon DEF A!Rename, A!Ends, AFiles, ACalls, Ok, S, T
  <2> QED
    BY <2>8, Zenon DEF A!ANext
<1> QED
  BY <1>6, <1>7, Zenon

\* Every step of the server is a step of the abstract specification.
LEMMA RefinesStep ==
  ASSUME SameSpelling, SameSpelling', FileInv, FileInv', [Next]_vars
  PROVE  [A!ANext]_A!avars
<1>t. FileTypes
  BY Zenon DEF FileInv
<1>1. CASE UNCHANGED vars
  <2>1. UNCHANGED <<dir, data, cmd, pc, wfd, saved, reply>>
    BY <1>1, Zenon DEF vars, fs, locks, local
  <2>2. AFiles' = AFiles /\ ACalls' = ACalls
    BY <2>1, Zenon DEF AFiles, ACalls, Content, Target
  <2> QED
    BY <2>1, <2>2, Zenon DEF A!avars, AFiles, ACalls
<1>2. ASSUME NEW c \in Clients, ClientStep(c) PROVE [A!ANext]_A!avars
  <2>d. Desc(pc[c], cmd[c].op, rfd[c], wfd[c])
    BY <1>t, Zenon DEF FileTypes
  <2>1. CASE \/ locks_acquire_read(c) \/ locks_acquire_write(c) \/ locks_acquire_second(c)
             \/ open_read(c) \/ compress(c) \/ decompress(c) \/ copy_open(c) \/ copy_next(c)
             \/ open_write(c)
             \/ \E k \in Counts : read_some(c, k) \/ write_some(c, k) \/ copy_read(c, k)
    BY <2>1, <1>2, SilentSteps, Zenon
  <2>2. CASE locks_release(c)
    BY <2>2, <1>2, CallAndReturn, Zenon
  <2>3. CASE \/ lock_fails(c) \/ too_large(c) \/ decompress_fails(c) \/ copy_not_found(c)
             \/ (not_found(c) /\ ~Runs(c, ReadOps)) \/ (io_fails(c) /\ wfd[c] = None)
    <3>1. Done(c, Err) /\ UNCHANGED fs
      BY <2>3, Zenon
         DEF lock_fails, too_large, decompress_fails, copy_not_found, not_found, io_fails
    <3>2. \/ pc[c] \in {"lock", "lock2", "op", "read"}
          \/ pc[c] \in {"op", "read", "open", "write", "copy"} /\ wfd[c] = None
      BY <2>3, Zenon
         DEF lock_fails, too_large, decompress_fails, copy_not_found, not_found, io_fails,
                         ReadAll, At
    <3>3. wfd[c] = None /\ pc[c] \notin {"idle", "release"}
      BY <3>2, <2>d, Zenon DEF Desc
    <3> QED
      BY <3>1, <3>3, <1>2, FailingSteps, Zenon
  <2>4. CASE getfile_reply(c) \/ stat(c) \/ (not_found(c) /\ Runs(c, ReadOps))
    BY <2>4, <1>2, ReadingSteps, Zenon
  <2>5. CASE write_done(c) \/ copy_done(c) \/ (io_fails(c) /\ wfd[c] # None)
    BY <2>5, <1>2, WritingSteps, Zenon
  <2>6. CASE unlink(c) \/ rename(c)
    BY <2>6, <1>2, NamingSteps, Zenon
  <2> QED
    BY <1>2, <2>1, <2>2, <2>3, <2>4, <2>5, <2>6, Zenon DEF ClientStep
<1>3. ASSUME NEW c \in Clients, \E m \in Commands : receive(c, m) PROVE [A!ANext]_A!avars
  BY <1>3, CallAndReturn, Zenon
<1> QED
  BY <1>1, <1>2, <1>3, Zenon DEF Next

\* The server starts with no files and no calls.
LEMMA RefinesInit == Init => A!AInit
<1> SUFFICES ASSUME Init PROVE A!AInit
  OBVIOUS
<1>1. /\ \A c \in Clients : wfd[c] = None /\ pc[c] = "idle"
      /\ \A f \in Files : dir[f] = None
      /\ reply = [c \in Clients |-> [kind |-> "none"]]
  BY Zenon DEF Init, NoReply
<1>2. \A f \in Files : AFiles[f] = None
  BY <1>1, AbstractAre, Zenon DEF Content
<1>3. \A c \in Clients : ACalls[c] = None
  BY <1>1, AbstractAre, Zenon
<1>4. AFiles = [f \in Files |-> None] /\ ACalls = [c \in Clients |-> None]
  BY <1>2, <1>3, AbstractAre, Zenon
<1> QED
  BY <1>1, <1>4, Zenon DEF A!AInit, AFiles, ACalls

\* As long as the clients at work spell a file in the same way, every command of
\* the server takes effect at one moment between its request and its reply, however
\* the client threads of dispatch_command() interleave, system calls fail and reads
\* and writes are short: the server implements AtomicFiles.  Without the hypothesis
\* it does not: path_build() makes no path canonical, and a lock belongs to a path.
THEOREM CommandsAreAtomic ==
  Spec /\ []SameSpelling => ImplementsAtomicFiles
<1>1. SameSpelling /\ FileInv /\ [Next]_vars => FileInv'
  BY FileInvStep, Zenon
<1>2. SameSpelling /\ SameSpelling' /\ FileInv /\ FileInv' /\ [Next]_vars
      => [A!ANext]_A!avars
  BY RefinesStep, Zenon
<1> QED
  BY <1>1, <1>2, FileInvInit, RefinesInit, PTL DEF Spec, ImplementsAtomicFiles, A!ASpec
=============================================================================

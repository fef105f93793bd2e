----------------------------- MODULE PipeProofs -----------------------------
(***************************************************************************)
(* Proofs about pipes and the open file table, for any number of processes,*)
(* files and descriptors, any size of the buffer and any width of its      *)
(* indices.                                                                *)
(***************************************************************************)
EXTENDS Pipe, FiniteSetTheorems, TLAPS

Labels == {"user", "unused", "pipe", "close", "pipeclose", "read", "empty", "rsleep",
           "write", "writing", "full", "wsleep"}
Ends == {"r", "w"}

\* The types of what the file table, the descriptors and the calls are made of.
Types ==
  /\ ref \in [Files -> Nat] /\ end \in [Files -> Ends \cup {None}]
  /\ ofile \in [Procs -> [FDs -> Files \cup {None}]]
  /\ pc \in [Procs -> Labels]
  /\ todo \in [Procs -> Seq(Files)]
  /\ ending \in [Procs -> Ends \cup {None}]
  /\ open \subseteq Ends

\* Only a call that makes or closes files has files at hand, one or two different
\* ones; an unused slot has no descriptors.
CallInv(p) ==
  /\ todo[p] = <<>> \/ (\E f \in Files : todo[p] = <<f>>)
       \/ (\E f, g \in Files : f # g /\ todo[p] = <<f, g>>)
  /\ pc[p] = "pipe" => \E f \in Files : todo[p] = <<f>>
  /\ pc[p] \notin {"pipe", "close", "pipeclose"} => todo[p] = <<>>
  /\ pc[p] = "unused" => \A d \in FDs : ofile[p][d] = None
  /\ ending[p] # None <=> pc[p] = "pipeclose"
CallsInv == \A p \in Procs : CallInv(p)

\* An end has one file or is being closed by one process, and is open; otherwise it
\* is closed.  A file that stands for an end is in use.
OneHolder ==
  /\ \A e \in Ends : e \in open <=> \/ \E f \in Files : end[f] = e
                                    \/ \E p \in Procs : ending[p] = e
  /\ \A f, g \in Files : end[f] # None /\ end[f] = end[g] => f = g
  /\ \A p, q \in Procs : ending[p] # None /\ ending[p] = ending[q] => p = q
  /\ \A f \in Files, p \in Procs : end[f] # None => end[f] # ending[p]
  /\ \A f \in Files : end[f] # None => ref[f] > 0
  /\ page = (open # {})

\* Who reads or writes has a descriptor for it.
UsersHold ==
  \A p \in Procs : /\ p \in Reading => Holds(p, "r")
                   /\ p \in Writing => Holds(p, "w")

FileInv == Types /\ CallsInv /\ OneHolder /\ UsersHold /\ RefIsUses

\* pi->lock belongs to the process that stands where the code holds it; what that
\* process saw of the pipe is still true, and so is what the sleepers saw, but for the
\* bytes that a writer is about to announce or a killed one has left.
Atwork == {"writing", "full"}
Stand(p) ==
  /\ pc[p] \in {"writing", "full", "empty"} <=> lock = p
  /\ pc[p] \in {"full", "wsleep"} => Full /\ "r" \in open
  /\ pc[p] = "empty" => nread = nwrite /\ "w" \in open
  /\ pc[p] = "rsleep" => /\ "w" \in open
                         /\ nread = nwrite \/ silent \/ \E q \in Procs : pc[q] \in Atwork
LockInv == lock \in Procs \cup {None} /\ \A p \in Procs : Stand(p)

\* The bytes between the indices fit into the buffer.
RingInv ==
  /\ nread \in 0..WRAP - 1 /\ nwrite \in 0..WRAP - 1 /\ Count <= PIPESIZE
  /\ data \in [0..PIPESIZE - 1 -> Bytes \cup {None}]

-----------------------------------------------------------------------------
(* Counting the users of a file *)

\* The descriptors in o and the calls in t that use f.
FdsIn(o, f) == {u \in Procs \X FDs : o[u[1]][u[2]] = f}
CallsIn(t, f) == {p \in Procs : \E k \in DOMAIN t[p] : t[p][k] = f}

\* A call with the files s at hand uses f, and the count of it.
Has(s, f) == \E k \in DOMAIN s : s[k] = f
InCall(s, f) == IF Has(s, f) THEN 1 ELSE 0
IsFile(x, f) == IF x = f THEN 1 ELSE 0

IsTable(o) == o \in [Procs -> [FDs -> Files \cup {None}]]
IsCalls(t) == t \in [Procs -> Seq(Files)]

\* n is o with another descriptor, or t with other files at hand.
FdSet(o, n, p, d, x) == n = [o EXCEPT ![p][d] = x]
CallSet(t, n, p, s) == n = [t EXCEPT ![p] = s]

\* The users of f in both then.
FdsCount(o, n, p, d, x, f) ==
  Cardinality(FdsIn(n, f)) = Cardinality(FdsIn(o, f)) + IsFile(x, f) - IsFile(o[p][d], f)
CallsCount(t, n, p, s, f) ==
  Cardinality(CallsIn(n, f)) = Cardinality(CallsIn(t, f)) + InCall(s, f) - InCall(t[p], f)

\* Both are finite sets, because there are finitely many processes.
LEMMA UsersAreFinite ==
  ASSUME NEW o, NEW t, NEW f
  PROVE  /\ IsFiniteSet(FdsIn(o, f)) /\ Cardinality(FdsIn(o, f)) \in Nat
         /\ IsFiniteSet(CallsIn(t, f)) /\ Cardinality(CallsIn(t, f)) \in Nat
  <1>1. IsFiniteSet(FDs)
    <2>1. 0 \in Int /\ NOFILE - 1 \in Int
      BY PipeAssumption
    <2>2. QED
      BY <2>1, FS_Interval, Zenon DEF FDs
  <1>2. IsFiniteSet(Procs) /\ IsFiniteSet(Procs \X FDs)
    BY <1>1, PipeAssumption, FS_Product, Zenon
  <1>3. FdsIn(o, f) \in SUBSET (Procs \X FDs) /\ CallsIn(t, f) \in SUBSET Procs
    BY Zenon DEF FdsIn, CallsIn
  <1>4. IsFiniteSet(FdsIn(o, f)) /\ IsFiniteSet(CallsIn(t, f))
    BY <1>2, <1>3, FS_Subset, Zenon
  <1>5. QED
    BY <1>4, FS_CardinalityType, Zenon

\* One descriptor changes.
LEMMA FdChanges ==
  ASSUME NEW o, IsTable(o), NEW p \in Procs, NEW d \in FDs,
         NEW x \in Files \cup {None}, NEW n, FdSet(o, n, p, d, x), NEW f
  PROVE  FdsCount(o, n, p, d, x, f)
  <1>1. n[p][d] = x /\ \A u \in Procs \X FDs : u # <<p, d>> => n[u[1]][u[2]] = o[u[1]][u[2]]
    BY DEF FdSet, IsTable
  <1>2. <<p, d>> \in Procs \X FDs /\ <<p, d>>[1] = p /\ <<p, d>>[2] = d
    BY Zenon
  <1>3. /\ o[p][d] = f <=> <<p, d>> \in FdsIn(o, f)
    BY <1>2, Zenon DEF FdsIn
  <1>4. CASE x = f
    <2>1. FdsIn(n, f) = FdsIn(o, f) \cup {<<p, d>>}
      BY <1>1, <1>2, <1>4, Zenon DEF FdsIn
    <2>2. Cardinality(FdsIn(n, f)) =
            IF o[p][d] = f THEN Cardinality(FdsIn(o, f)) ELSE Cardinality(FdsIn(o, f)) + 1
      BY <1>3, <2>1, UsersAreFinite, FS_AddElement, Zenon
    <2>3. Cardinality(FdsIn(o, f)) \in Nat
      BY UsersAreFinite, Zenon
    <2>4. QED
      BY <1>4, <2>2, <2>3 DEF IsFile, FdsCount
  <1>5. CASE x # f
    <2>1. FdsIn(n, f) = FdsIn(o, f) \ {<<p, d>>}
      BY <1>1, <1>2, <1>5, Zenon DEF FdsIn
    <2>2. /\ o[p][d] = f => Cardinality(FdsIn(n, f)) = Cardinality(FdsIn(o, f)) - 1
          /\ o[p][d] # f => Cardinality(FdsIn(n, f)) = Cardinality(FdsIn(o, f))
      <3>1. IsFiniteSet(FdsIn(o, f))
        BY UsersAreFinite, Zenon
      <3>2. QED
        BY <1>3, <2>1, <3>1, FS_RemoveElement, Zenon
    <2>3. Cardinality(FdsIn(o, f)) \in Nat
      BY UsersAreFinite, Zenon
    <2>4. QED
      BY <1>5, <2>2, <2>3 DEF IsFile, FdsCount
  <1>6. QED
    BY <1>4, <1>5, Zenon

\* A call has other files at hand.
LEMMA CallChanges ==
  ASSUME NEW t, IsCalls(t), NEW p \in Procs, NEW s, NEW n, CallSet(t, n, p, s),
         NEW f
  PROVE  CallsCount(t, n, p, s, f)
  <1>1. n[p] = s /\ \A q \in Procs : q # p => n[q] = t[q]
    BY Zenon DEF CallSet, IsCalls
  <1>2. Has(t[p], f) <=> p \in CallsIn(t, f)
    BY Zenon DEF CallsIn, Has
  <1>3. CASE Has(s, f)
    <2>1. CallsIn(n, f) = CallsIn(t, f) \cup {p}
      BY <1>1, <1>3, Zenon DEF CallsIn, Has
    <2>2. Cardinality(CallsIn(n, f)) =
            IF Has(t[p], f) THEN Cardinality(CallsIn(t, f)) ELSE Cardinality(CallsIn(t, f)) + 1
      BY <1>2, <2>1, UsersAreFinite, FS_AddElement, Zenon
    <2>3. Cardinality(CallsIn(t, f)) \in Nat
      BY UsersAreFinite, Zenon
    <2>4. QED
      BY <1>3, <2>2, <2>3 DEF InCall, CallsCount
  <1>4. CASE ~Has(s, f)
    <2>1. CallsIn(n, f) = CallsIn(t, f) \ {p}
      BY <1>1, <1>4, Zenon DEF CallsIn, Has
    <2>2. Cardinality(CallsIn(n, f)) =
            IF Has(t[p], f) THEN Cardinality(CallsIn(t, f)) - 1 ELSE Cardinality(CallsIn(t, f))
      BY <1>2, <2>1, UsersAreFinite, FS_RemoveElement, Zenon
    <2>3. Cardinality(CallsIn(t, f)) \in Nat
      BY UsersAreFinite, Zenon
    <2>4. QED
      BY <1>4, <2>2, <2>3 DEF InCall, CallsCount
  <1>5. QED
    BY <1>3, <1>4, Zenon

\* A child gets all descriptors of its parent.
Copied(o, n, p, q) == n = [o EXCEPT ![q] = o[p]] /\ \A d \in FDs : o[q][d] = None
CopiesCount(o, n, p, f) ==
  Cardinality(FdsIn(n, f)) = Cardinality(FdsIn(o, f)) + Cardinality({d \in FDs : o[p][d] = f})

\* kfork() gives the child every descriptor of the parent, and counts each once.
LEMMA FdsCopied ==
  ASSUME NEW o, IsTable(o), NEW p \in Procs, NEW q \in Procs, NEW n, Copied(o, n, p, q),
         NEW f \in Files
  PROVE  CopiesCount(o, n, p, f)
  <1> DEFINE D == {d \in FDs : o[p][d] = f}
             T == {u \in Procs \X FDs : u[1] = q /\ o[p][u[2]] = f}
             h == [d \in D |-> <<q, d>>]
  <1>1. f # None
    BY PipeAssumption DEF Files
  <1>2. FdsIn(n, f) = FdsIn(o, f) \cup T /\ FdsIn(o, f) \cap T = {}
    <2>1. /\ n[q] = o[p] /\ (\A r \in Procs : r # q => n[r] = o[r])
          /\ \A d \in FDs : o[q][d] = None
      BY Zenon DEF Copied, IsTable
    <2>2. QED
      BY <1>1, <2>1 DEF FdsIn
  <1>3. h \in Bijection(D, T)
    <2>1. \A d \in D : <<q, d>> \in T
      BY Zenon
    <2>2. \A u \in T : u[2] \in D /\ u = <<q, u[2]>>
      OBVIOUS
    <2>3. \A d, e \in D : <<q, d>> = <<q, e>> => d = e
      BY Zenon
    <2> HIDE DEF D, T
    <2>4. h \in [D -> T] /\ (\A d, e \in D : h[d] = h[e] => d = e) /\ (\A u \in T : \E d \in D : h[d] = u)
      BY <2>1, <2>2, <2>3, Zenon
    <2>5. QED
      BY <2>4, Zenon DEF Bijection, Injection, Surjection, IsInjective
  <1>4. IsFiniteSet(D)
    <2>1. 0 \in Int /\ NOFILE - 1 \in Int
      BY PipeAssumption
    <2>2. IsFiniteSet(FDs) /\ D \in SUBSET FDs
      BY <2>1, FS_Interval, Zenon DEF FDs
    <2>3. QED
      BY <2>2, FS_Subset, Zenon
  <1> HIDE DEF D, T, h
  <1>5. IsFiniteSet(T) /\ Cardinality(T) = Cardinality(D)
    BY <1>3, <1>4, FS_Bijection, Zenon DEF ExistsBijection
  <1>6. Cardinality(FdsIn(o, f) \cup T)
          = Cardinality(FdsIn(o, f)) + Cardinality(T) - Cardinality(FdsIn(o, f) \cap T)
    BY <1>5, UsersAreFinite, FS_Union, Zenon
  <1>7. /\ Cardinality(FdsIn(o, f) \cap T) = 0 /\ Cardinality(FdsIn(o, f)) \in Nat
        /\ Cardinality(T) \in Nat
    BY <1>2, <1>5, UsersAreFinite, FS_EmptySet, FS_CardinalityType, Zenon
  <1>8. Cardinality(FdsIn(n, f)) = Cardinality(FdsIn(o, f)) + Cardinality(D)
    BY <1>2, <1>5, <1>6, <1>7
  <1>9. QED
    BY <1>8, Zenon DEF CopiesCount, D

\* The counts, and what a count of zero means.
LEMMA RefCounts ==
  ASSUME Types, RefIsUses, NEW f \in Files
  PROVE  /\ ref[f] = Cardinality(FdsIn(ofile, f)) + Cardinality(CallsIn(todo, f))
         /\ Cardinality(FdsIn(ofile, f)) \in Nat /\ Cardinality(CallsIn(todo, f)) \in Nat
         /\ ref[f] = 0 => /\ \A p \in Procs, d \in FDs : ofile[p][d] # f
                          /\ \A p \in Procs : ~Has(todo[p], f)
  <1>1. /\ ref[f] = Cardinality(FdsIn(ofile, f)) + Cardinality(CallsIn(todo, f))
    BY Zenon DEF RefIsUses, FdsOf, CallsOn, FdsIn, CallsIn
  <1>2. /\ IsFiniteSet(FdsIn(ofile, f)) /\ Cardinality(FdsIn(ofile, f)) \in Nat
        /\ IsFiniteSet(CallsIn(todo, f)) /\ Cardinality(CallsIn(todo, f)) \in Nat
    BY UsersAreFinite, Zenon
  <1>3. ASSUME ref[f] = 0
        PROVE  /\ \A p \in Procs, d \in FDs : ofile[p][d] # f
               /\ \A p \in Procs : ~Has(todo[p], f)
    <2>1. Cardinality(FdsIn(ofile, f)) = 0 /\ Cardinality(CallsIn(todo, f)) = 0
      BY <1>1, <1>2, <1>3
    <2>2. FdsIn(ofile, f) = {} /\ CallsIn(todo, f) = {}
      BY <1>2, <2>1, FS_EmptySet, Zenon
    <2>3. \A p \in Procs : ~Has(todo[p], f)
      BY <2>2, Zenon DEF CallsIn, Has
    <2>4. ASSUME NEW p \in Procs, NEW d \in FDs PROVE ofile[p][d] # f
      <3>1. <<p, d>> \in Procs \X FDs /\ <<p, d>>[1] = p /\ <<p, d>>[2] = d
        BY Zenon
      <3>2. QED
        BY <2>2, <3>1, Zenon DEF FdsIn
    <2>5. QED
      BY <2>3, <2>4, Zenon
  <1>4. QED
    BY <1>1, <1>2, <1>3, Zenon

\* A file that a descriptor and a call use has more than one reference.
LEMMA TwoUsers ==
  ASSUME Types, RefIsUses, NEW f \in Files, NEW p \in Procs, NEW d \in FDs, NEW q \in Procs,
         ofile[p][d] = f, Has(todo[q], f)
  PROVE  ref[f] # 1
  <1>1. /\ ref[f] = Cardinality(FdsIn(ofile, f)) + Cardinality(CallsIn(todo, f))
        /\ Cardinality(FdsIn(ofile, f)) \in Nat /\ Cardinality(CallsIn(todo, f)) \in Nat
    BY RefCounts, Zenon
  <1>2. <<p, d>> \in FdsIn(ofile, f)
    <2>1. <<p, d>> \in Procs \X FDs /\ <<p, d>>[1] = p /\ <<p, d>>[2] = d
      BY Zenon
    <2>2. QED
      BY <2>1, Zenon DEF FdsIn
  <1>3. q \in CallsIn(todo, f)
    BY Zenon DEF CallsIn, Has
  <1>4. Cardinality(FdsIn(ofile, f)) # 0 /\ Cardinality(CallsIn(todo, f)) # 0
    BY <1>2, <1>3, UsersAreFinite, FS_EmptySet, Zenon
  <1>5. QED
    BY <1>1, <1>4

\* The reference counts are right when each has changed like the users of its file.
LEMMA CountsAgain ==
  ASSUME \A f \in Files : ref'[f] = Cardinality(FdsIn(ofile', f)) + Cardinality(CallsIn(todo', f))
  PROVE  RefIsUses'
  BY Zenon DEF RefIsUses, FdsOf, CallsOn, FdsIn, CallsIn

-----------------------------------------------------------------------------
(* The open file table *)

Quiet == {"pipe", "close", "pipeclose", "unused"}

\* At first no file and no end is open.
LEMMA FilesInitially == Init => FileInv
  <1> SUFFICES ASSUME Init PROVE FileInv
    BY Zenon
  <1>1. /\ ref = [f \in Files |-> 0] /\ end = [f \in Files |-> None]
        /\ ofile = [p \in Procs |-> [d \in FDs |-> None]]
        /\ open = {} /\ pc = [p \in Procs |-> IF p = First THEN "user" ELSE "unused"]
        /\ todo = [p \in Procs |-> <<>>] /\ ending = [p \in Procs |-> None]
    BY Zenon DEF Init
  <1>2. None \notin Files /\ None \notin Ends
    BY PipeAssumption DEF Files, Ends
  <1>3. Types
    BY <1>1 DEF Types, Labels
  <1>4. CallsInv
    BY <1>1, Zenon DEF CallsInv, CallInv
  <1>5. OneHolder
    <2>1. page = (open # {})
      BY <1>1, Zenon DEF Init
    <2>2. QED
      BY <1>1, <1>2, <2>1, Zenon DEF OneHolder
  <1>6. UsersHold
    BY <1>1, Zenon DEF UsersHold, Reading, Writing
  <1>7. RefIsUses
    <2>1. \A f \in Files : FdsOf(f) = {} /\ CallsOn(f) = {}
      <3> TAKE f \in Files
      <3>1. \A u \in Procs \X FDs : ofile[u[1]][u[2]] = None
        BY <1>1, Zenon
      <3>2. FdsOf(f) = {}
        BY <1>2, <3>1, Zenon DEF FdsOf
      <3>3. CallsOn(f) = {}
        BY <1>1 DEF CallsOn
      <3>4. QED
        BY <3>2, <3>3, Zenon
    <2>2. \A f \in Files : ref[f] = 0
      BY <1>1, Zenon
    <2>3. Cardinality({}) = 0 /\ 0 + 0 = 0
      BY FS_EmptySet
    <2>4. QED
      BY <2>1, <2>2, <2>3, Zenon DEF RefIsUses
  <1>8. QED
    BY <1>3, <1>4, <1>5, <1>6, <1>7, Zenon DEF FileInv

\* The calls of all processes but p stay as they are.
Others(p) ==
  \A q \in Procs : q # p => /\ pc'[q] = pc[q] /\ todo'[q] = todo[q]
                            /\ ofile'[q] = ofile[q] /\ ending'[q] = ending[q]

\* A step of p leaves the calls of the others as they are.
LEMMA CallsStay ==
  ASSUME CallsInv, NEW p \in Procs, Others(p), CallInv(p)'
  PROVE  CallsInv'
  <1>1. ASSUME NEW q \in Procs, q # p PROVE CallInv(q)'
    <2>1. /\ pc'[q] = pc[q] /\ todo'[q] = todo[q] /\ ofile'[q] = ofile[q]
          /\ ending'[q] = ending[q]
      BY <1>1, Zenon DEF Others
    <2>2. CallInv(q)
      BY Zenon DEF CallsInv
    <2>3. QED
      BY <2>1, <2>2, Zenon DEF CallInv
  <1>2. QED
    BY <1>1, Zenon DEF CallsInv

\* A step that leaves the files, the ends and the calls at work on them alone.
LEMMA QuietKeeps ==
  ASSUME FileInv, UNCHANGED <<ref, end, ofile, todo, ending, open, page>>,
         pc' \in [Procs -> Labels],
         \A p \in Procs : pc'[p] # pc[p] =>
           /\ pc[p] \notin Quiet /\ pc'[p] \notin Quiet
           /\ pc'[p] \in {"read", "empty", "rsleep"} => Holds(p, "r")
           /\ pc'[p] \in {"write", "writing", "full", "wsleep"} => Holds(p, "w")
  PROVE  FileInv'
  <1>1. Types'
    BY Zenon DEF FileInv, Types
  <1>2. CallsInv'
    BY Zenon DEF FileInv, CallsInv, CallInv, Quiet
  <1>3. OneHolder'
    BY Zenon DEF FileInv, OneHolder
  <1>4. UsersHold'
    BY Zenon DEF FileInv, UsersHold, Reading, Writing, Holds
  <1>5. RefIsUses'
    BY Zenon DEF FileInv, RefIsUses, FdsOf, CallsOn
  <1>6. QED
    BY <1>1, <1>2, <1>3, <1>4, <1>5, Zenon DEF FileInv

\* A step of a read or a write, or a kill.
LEMMA TransfersKeepFiles ==
  ASSUME FileInv, NEW p \in Procs,
         \/ kill(p) \/ (\E n \in 1..MaxN : sys_write(p, n))
         \/ pipewrite_lock(p) \/ pipewrite_fails(p) \/ pipewrite_sees_full(p)
         \/ pipewrite_sleep(p) \/ (\E b \in Bytes : pipewrite_byte(p, b)) \/ pipewrite_done(p)
         \/ sys_read(p) \/ piperead_empty(p) \/ piperead_sleep(p) \/ piperead_killed(p)
         \/ (\E n \in 0..PIPESIZE : piperead(p, n))
  PROVE  FileInv'
  <1>1. pc \in [Procs -> Labels]
    BY Zenon DEF FileInv, Types
  <1>2. \A q \in Procs : /\ pc[q] \in {"read", "empty", "rsleep"} => Holds(q, "r")
                         /\ pc[q] \in {"write", "writing", "full", "wsleep"} => Holds(q, "w")
    BY Zenon DEF FileInv, UsersHold, Reading, Writing
  <1> DEFINE Moves == /\ pc' \in [Procs -> Labels]
                      /\ \A q \in Procs : pc'[q] # pc[q] =>
                           /\ pc[q] \notin Quiet /\ pc'[q] \notin Quiet
                           /\ pc'[q] \in {"read", "empty", "rsleep"} => Holds(q, "r")
                           /\ pc'[q] \in {"write", "writing", "full", "wsleep"} => Holds(q, "w")
             Same == UNCHANGED <<ref, end, ofile, todo, ending, open, page>>
  <1>3. ASSUME kill(p) PROVE Moves /\ Same
    BY <1>1, <1>2, <1>3, Zenon DEF kill, files, pipe, Quiet, Labels, Goto
  <1>4. ASSUME NEW n \in 1..MaxN, sys_write(p, n) PROVE Moves /\ Same
    BY <1>1, <1>2, <1>4, Zenon DEF sys_write, Calls, files, pipe, Quiet, Labels, Goto
  <1>5. ASSUME pipewrite_lock(p) \/ pipewrite_sees_full(p) \/ sys_read(p)
               \/ piperead_empty(p) \/ piperead_sleep(p) \/ piperead_killed(p)
        PROVE  Moves /\ Same
    BY <1>1, <1>2, <1>5, Zenon
       DEF pipewrite_lock, pipewrite_sees_full, sys_read, Calls, piperead_empty,
           piperead_sleep, piperead_killed, files, pipe, Quiet, Labels, Goto
  <1>6. ASSUME pipewrite_fails(p) \/ pipewrite_sleep(p) \/ pipewrite_done(p)
        PROVE  Moves /\ Same
    BY <1>1, <1>2, <1>6, Zenon
       DEF pipewrite_fails, pipewrite_sleep, pipewrite_done, write_return, WakeReaders,
           files, Quiet, Labels
  <1>7. ASSUME NEW b \in Bytes, pipewrite_byte(p, b) PROVE Moves /\ Same
    BY <1>1, <1>7, Zenon DEF pipewrite_byte, files
  <1>8. ASSUME NEW n \in 0..PIPESIZE, piperead(p, n) PROVE Moves /\ Same
    BY <1>1, <1>2, <1>8, Zenon DEF piperead, WakeWriters, files, Quiet, Labels
  <1> HIDE DEF Moves, Same
  <1>9. Moves /\ Same
    BY <1>3, <1>4, <1>5, <1>6, <1>7, <1>8, Zenon
  <1>10. QED
    BY <1>9, QuietKeeps, Zenon DEF Moves, Same

\* The files at hand in a call.
LEMMA HasIs ==
  ASSUME NEW f, NEW g, NEW h
  PROVE  /\ ~Has(<<>>, h)
         /\ Has(<<f>>, h) <=> h = f
         /\ Has(<<f, g>>, h) <=> h = f \/ h = g
  <1>1. DOMAIN <<f>> = {1} /\ <<f>>[1] = f /\ DOMAIN <<f, g>> = {1, 2}
        /\ <<f, g>>[1] = f /\ <<f, g>>[2] = g /\ DOMAIN <<>> = {}
    OBVIOUS
  <1>2. QED
    BY <1>1, Zenon DEF Has

\* The ends keep their files while no reference is lost.
LEMMA HoldersStay ==
  ASSUME OneHolder, UNCHANGED <<end, ending, open, page>>,
         \A f \in Files : ref[f] > 0 => ref'[f] > 0
  PROVE  OneHolder'
  BY Zenon DEF OneHolder

\* sys_pipe() gets its first file.
LEMMA PipeKeepsFiles ==
  ASSUME FileInv, NEW p \in Procs, sys_pipe(p)
  PROVE  FileInv'
  <1>typ. IsCalls(todo)
    BY Zenon DEF FileInv, Types, IsCalls
  <1>1. PICK f \in Files : filealloc(f) /\ todo' = [todo EXCEPT ![p] = <<f>>]
    BY Zenon DEF sys_pipe
  <1>2. /\ pc[p] = "user" /\ pc' = [pc EXCEPT ![p] = "pipe"]
        /\ UNCHANGED <<end, ofile, ending, open, page>>
        /\ ref[f] = 0 /\ ref' = [ref EXCEPT ![f] = 1]
    BY <1>1, Zenon DEF sys_pipe, Calls, Goto, pipe, filealloc, IsFirst, NoRef
  <1>3. todo[p] = <<>>
    BY <1>2, Zenon DEF FileInv, CallsInv, CallInv
  <1>4. Types'
    BY <1>1, <1>2 DEF FileInv, Types, Labels
  <1>5. CallsInv'
    <2>1. Others(p)
      BY <1>1, <1>2, Zenon DEF FileInv, Types, Others
    <2>2. CallInv(p)'
      BY <1>1, <1>2, Zenon DEF FileInv, Types, CallsInv, CallInv
    <2>3. QED
      BY <2>1, <2>2, CallsStay, Zenon DEF FileInv
  <1>6. OneHolder'
    <2>1. \A g \in Files : ref[g] > 0 => ref'[g] > 0
      BY <1>2 DEF FileInv, Types
    <2>2. QED
      BY <1>2, <2>1, HoldersStay, Zenon DEF FileInv
  <1>7. UsersHold'
    BY <1>2, Zenon DEF FileInv, Types, UsersHold, Reading, Writing, Holds
  <1>8. RefIsUses'
    <2>1. ASSUME NEW g \in Files
          PROVE  ref'[g] = Cardinality(FdsIn(ofile', g)) + Cardinality(CallsIn(todo', g))
      <3>1. /\ ref[g] = Cardinality(FdsIn(ofile, g)) + Cardinality(CallsIn(todo, g))
            /\ Cardinality(FdsIn(ofile, g)) \in Nat /\ Cardinality(CallsIn(todo, g)) \in Nat
        BY RefCounts, Zenon DEF FileInv
      <3>2. CallsCount(todo, todo', p, <<f>>, g)
        <4>1. CallSet(todo, todo', p, <<f>>)
          BY <1>1, Zenon DEF CallSet
        <4>2. QED
          BY <1>typ, <4>1, CallChanges, Zenon
      <3>3. ~Has(<<>>, g) /\ (Has(<<f>>, g) <=> g = f)
        BY HasIs, Zenon
      <3>4. ref'[g] = IF g = f THEN ref[g] + 1 ELSE ref[g]
        BY <1>2 DEF FileInv, Types
      <3>5. QED
        BY <1>2, <1>3, <3>1, <3>2, <3>3, <3>4 DEF InCall, CallsCount
    <2>2. QED
      BY <2>1, CountsAgain, Zenon
  <1>9. QED
    BY <1>4, <1>5, <1>6, <1>7, <1>8, Zenon DEF FileInv

\* pipealloc() fails with one or two files.
LEMMA BadKeepsFiles ==
  ASSUME FileInv, NEW p \in Procs, pipealloc_bad(p)
  PROVE  FileInv'
  <1>typ. IsCalls(todo)
    BY Zenon DEF FileInv, Types, IsCalls
  <1>1. PICK f \in Files : todo[p] = <<f>>
    BY Zenon DEF FileInv, CallsInv, CallInv, pipealloc_bad
  <1>2. /\ pc[p] = "pipe" /\ pc' = [pc EXCEPT ![p] = "close"]
        /\ UNCHANGED <<end, ofile, ending, open, page>>
    BY Zenon DEF pipealloc_bad, Goto, pipe
  <1>3. UsersHold'
    BY <1>2, Zenon DEF FileInv, Types, UsersHold, Reading, Writing, Holds
  <1>4. CASE UNCHANGED <<ref, todo>>
    <2>1. Types'
      BY <1>2, <1>4, Zenon DEF FileInv, Types, Labels
    <2>2. CallsInv'
      <3>1. Others(p)
        BY <1>2, <1>4, Zenon DEF FileInv, Types, Others
      <3>2. CallInv(p)'
        BY <1>1, <1>2, <1>4, Zenon DEF FileInv, Types, CallsInv, CallInv
      <3>3. QED
        BY <3>1, <3>2, CallsStay, Zenon DEF FileInv
    <2>3. OneHolder'
      BY <1>2, <1>4, Zenon DEF FileInv, OneHolder
    <2>4. RefIsUses'
      BY <1>2, <1>4, Zenon DEF FileInv, RefIsUses, FdsOf, CallsOn
    <2>5. QED
      BY <1>3, <2>1, <2>2, <2>3, <2>4, Zenon DEF FileInv
  <1>5. ASSUME NEW h \in Files, filealloc(h), todo' = [todo EXCEPT ![p] = <<@[1], h>>]
        PROVE  FileInv'
    <2>1. todo' = [todo EXCEPT ![p] = <<f, h>>]
      <3>1. <<f>>[1] = f
        BY Zenon
      <3>2. QED
        BY <1>1, <1>5, <3>1, Zenon
    <2>2. ref[h] = 0 /\ ref' = [ref EXCEPT ![h] = 1]
      BY <1>5, Zenon DEF filealloc, IsFirst, NoRef
    <2>3. f # h
      <3>1. Has(todo[p], f)
        BY <1>1, HasIs, Zenon
      <3>2. QED
        BY <2>2, <3>1, RefCounts, Zenon DEF FileInv
    <2>4. Types'
      BY <1>2, <2>1, <2>2 DEF FileInv, Types, Labels
    <2>5. CallsInv'
      <3>1. Others(p)
        BY <1>2, <2>1, Zenon DEF FileInv, Types, Others
      <3>2. CallInv(p)'
        BY <1>2, <2>1, <2>3, Zenon DEF FileInv, Types, CallsInv, CallInv
      <3>3. QED
        BY <3>1, <3>2, CallsStay, Zenon DEF FileInv
    <2>6. OneHolder'
      <3>1. \A g \in Files : ref[g] > 0 => ref'[g] > 0
        BY <2>2 DEF FileInv, Types
      <3>2. QED
        BY <1>2, <3>1, HoldersStay, Zenon DEF FileInv
    <2>7. RefIsUses'
      <3>1. ASSUME NEW g \in Files
            PROVE  ref'[g] = Cardinality(FdsIn(ofile', g)) + Cardinality(CallsIn(todo', g))
        <4>1. /\ ref[g] = Cardinality(FdsIn(ofile, g)) + Cardinality(CallsIn(todo, g))
              /\ Cardinality(FdsIn(ofile, g)) \in Nat /\ Cardinality(CallsIn(todo, g)) \in Nat
          BY RefCounts, Zenon DEF FileInv
        <4>2. CallsCount(todo, todo', p, <<f, h>>, g)
          <5>1. CallSet(todo, todo', p, <<f, h>>)
            BY <2>1, Zenon DEF CallSet
          <5>2. QED
            BY <1>typ, <5>1, CallChanges, Zenon
        <4>3. (Has(<<f>>, g) <=> g = f) /\ (Has(<<f, h>>, g) <=> g = f \/ g = h)
          BY HasIs, Zenon
        <4>4. ref'[g] = IF g = h THEN ref[g] + 1 ELSE ref[g]
          BY <2>2 DEF FileInv, Types
        <4>5. QED
          BY <1>1, <1>2, <2>3, <4>1, <4>2, <4>3, <4>4 DEF InCall, CallsCount
      <3>2. QED
        BY <3>1, CountsAgain, Zenon
    <2>8. QED
      BY <1>3, <2>4, <2>5, <2>6, <2>7, Zenon DEF FileInv
  <1>6. QED
    BY <1>4, <1>5, Zenon DEF pipealloc_bad

\* dup() gives a file another descriptor.
LEMMA DupKeepsFiles ==
  ASSUME FileInv, NEW p \in Procs, NEW d \in FDs, sys_dup(p, d)
  PROVE  FileInv'
  <1> DEFINE f == ofile[p][d]
  <1>typ. IsTable(ofile)
    BY Zenon DEF FileInv, Types, IsTable
  <1>1. PICK n \in FDs : IsFirst(n, FreeFds(p)) /\ ofile' = [ofile EXCEPT ![p][n] = f]
    BY Zenon DEF sys_dup
  <1>2. /\ pc[p] = "user" /\ UNCHANGED <<end, pc, todo, ending, open, page>>
        /\ f # None /\ ref' = [ref EXCEPT ![f] = @ + 1] /\ ofile[p][n] = None
    BY <1>1, Zenon DEF sys_dup, Calls, pipe, proc, IsFirst, FreeFds
  <1>3. f \in Files
    BY <1>2 DEF FileInv, Types
  <1>4. /\ ofile'[p][n] = f
        /\ \A q \in Procs, k \in FDs : <<q, k>> # <<p, n>> => ofile'[q][k] = ofile[q][k]
    BY <1>1, Zenon DEF FileInv, Types
  <1> HIDE DEF f
  <1>5. Types'
    BY <1>1, <1>2, <1>3 DEF FileInv, Types
  <1>6. CallsInv'
    <2>1. Others(p)
      BY <1>1, <1>2, Zenon DEF FileInv, Types, Others
    <2>2. CallInv(p)'
      BY <1>2, Zenon DEF FileInv, CallsInv, CallInv
    <2>3. QED
      BY <2>1, <2>2, CallsStay, Zenon DEF FileInv
  <1>7. OneHolder'
    <2>1. \A g \in Files : ref[g] > 0 => ref'[g] > 0
      BY <1>2, <1>3 DEF FileInv, Types
    <2>2. QED
      BY <1>2, <2>1, HoldersStay, Zenon DEF FileInv
  <1>8. UsersHold'
    <2>1. \A q \in Procs, k \in FDs : ofile[q][k] # None => ofile'[q][k] = ofile[q][k]
      BY <1>2, <1>4, Zenon
    <2>2. \A q \in Procs, e \in Ends : Holds(q, e) => Holds(q, e)'
      BY <1>2, <2>1, Zenon DEF Holds
    <2>3. QED
      BY <1>2, <2>2, Zenon DEF FileInv, UsersHold, Reading, Writing, Ends
  <1>9. RefIsUses'
    <2>1. ASSUME NEW g \in Files
          PROVE  ref'[g] = Cardinality(FdsIn(ofile', g)) + Cardinality(CallsIn(todo', g))
      <3>1. /\ ref[g] = Cardinality(FdsIn(ofile, g)) + Cardinality(CallsIn(todo, g))
            /\ Cardinality(FdsIn(ofile, g)) \in Nat /\ Cardinality(CallsIn(todo, g)) \in Nat
        BY RefCounts, Zenon DEF FileInv
      <3>2. FdsCount(ofile, ofile', p, n, f, g)
        <4>1. FdSet(ofile, ofile', p, n, f)
          BY <1>1, Zenon DEF FdSet
        <4>2. QED
          BY <1>typ, <1>3, <4>1, FdChanges, Zenon
      <3>3. ofile[p][n] # g
        BY <1>2, PipeAssumption DEF Files
      <3>4. ref'[g] = IF g = f THEN ref[g] + 1 ELSE ref[g]
        BY <1>2, <1>3, Zenon DEF FileInv, Types
      <3>5. QED
        BY <1>2, <3>1, <3>2, <3>3, <3>4 DEF IsFile, FdsCount
    <2>2. QED
      BY <2>1, CountsAgain, Zenon
  <1>10. QED
    BY <1>5, <1>6, <1>7, <1>8, <1>9, Zenon DEF FileInv

\* close() and exit give up a descriptor; the call has its file at hand instead.
LEMMA CloseKeepsFiles ==
  ASSUME FileInv, NEW p \in Procs, NEW d \in FDs, ofile[p][d] # None,
         pc[p] \in {"user", "close"}, todo[p] = <<>>, close_fd(p, d)
  PROVE  FileInv'
  <1> DEFINE f == ofile[p][d]
             s == <<f>>
  <1>typ. IsCalls(todo) /\ IsTable(ofile) /\ f \in Files
    BY DEF FileInv, Types, IsCalls, IsTable
  <1>1. /\ pc' = [pc EXCEPT ![p] = "close"] /\ UNCHANGED <<ref, end, ending, open, page>>
        /\ todo' = [todo EXCEPT ![p] = s] /\ ofile' = [ofile EXCEPT ![p][d] = None]
    BY Zenon DEF close_fd, Goto, pipe
  <1>2. s \in Seq(Files)
    BY <1>typ
  <1>3. ofile'[p][d] = None /\ \A q \in Procs, k \in FDs :
          <<q, k>> # <<p, d>> => ofile'[q][k] = ofile[q][k]
    BY <1>1, <1>typ, Zenon DEF IsTable
  <1>4. Types'
    BY <1>1, <1>2, Zenon DEF FileInv, Types, Labels
  <1>5. CallsInv'
    <2>1. Others(p)
      BY <1>1, <1>typ, Zenon DEF FileInv, Types, Others, IsTable, IsCalls
    <2>2. CallInv(p)'
      BY <1>1, <1>typ, Zenon DEF FileInv, Types, CallsInv, CallInv, IsCalls
    <2>3. QED
      BY <2>1, <2>2, CallsStay, Zenon DEF FileInv
  <1>6. OneHolder'
    BY <1>1, HoldersStay, Zenon DEF FileInv
  <1>7. UsersHold'
    <2>1. \A q \in Procs, e \in Ends : q # p /\ Holds(q, e) => Holds(q, e)'
      BY <1>1, <1>3, Zenon DEF Holds
    <2>2. \A q \in Procs : q # p => pc'[q] = pc[q]
      BY <1>1, Zenon DEF FileInv, Types
    <2>3. pc'[p] = "close"
      BY <1>1, Zenon DEF FileInv, Types
    <2>4. QED
      BY <2>1, <2>2, <2>3, Zenon DEF FileInv, UsersHold, Reading, Writing, Ends
  <1>8. RefIsUses'
    <2>1. ASSUME NEW g \in Files
          PROVE  ref'[g] = Cardinality(FdsIn(ofile', g)) + Cardinality(CallsIn(todo', g))
      <3>1. /\ ref[g] = Cardinality(FdsIn(ofile, g)) + Cardinality(CallsIn(todo, g))
            /\ Cardinality(FdsIn(ofile, g)) \in Nat /\ Cardinality(CallsIn(todo, g)) \in Nat
        BY RefCounts, Zenon DEF FileInv
      <3>2. FdSet(ofile, ofile', p, d, None) /\ CallSet(todo, todo', p, s)
        BY <1>1, Zenon DEF FdSet, CallSet
      <3>3. ~Has(todo[p], g) /\ (Has(s, g) <=> g = f)
        <4>1. Has(s, g) <=> g = f
          BY HasIs, Zenon
        <4>2. ~Has(<<>>, g)
          BY HasIs, Zenon
        <4>3. QED
          BY <4>1, <4>2, Zenon
      <3>4. /\ IsFile(None, g) = 0 /\ IsFile(ofile[p][d], g) = IF g = f THEN 1 ELSE 0
        BY PipeAssumption DEF IsFile, Files
      <3> HIDE DEF f, s
      <3>5. CallsCount(todo, todo', p, s, g)
        BY <1>typ, <3>2, CallChanges, Zenon
      <3>6. FdsCount(ofile, ofile', p, d, None, g)
        <4>1. None \in Files \cup {None}
          BY Zenon
        <4>2. QED
          BY <1>typ, <3>2, <4>1, FdChanges, Zenon
      <3>7. QED
        BY <1>1, <3>1, <3>3, <3>4, <3>5, <3>6 DEF InCall, CallsCount, FdsCount
    <2>2. QED
      BY <2>1, CountsAgain, Zenon
  <1>9. QED
    BY <1>4, <1>5, <1>6, <1>7, <1>8, Zenon DEF FileInv

\* fork() gives the child the descriptors of its parent.
LEMMA ForkKeepsFiles ==
  ASSUME FileInv, NEW p \in Procs, NEW q \in Procs, kfork(p, q)
  PROVE  FileInv'
  <1>typ. /\ IsTable(ofile) /\ pc \in [Procs -> Labels] /\ ref \in [Files -> Nat]
    BY Zenon DEF FileInv, Types, IsTable
  <1>1. /\ pc[p] = "user" /\ pc[q] = "unused" /\ pc' = [pc EXCEPT ![q] = "user"]
        /\ UNCHANGED <<end, todo, ending, open, page>>
        /\ ofile' = [ofile EXCEPT ![q] = ofile[p]]
        /\ ref' = [f \in Files |-> ref[f] + Cardinality({d \in FDs : ofile[p][d] = f})]
    BY Zenon DEF kfork, Calls, Goto, pipe, filedup_all, Uses
  <1>2. todo[q] = <<>> /\ ending[q] = None /\ \A d \in FDs : ofile[q][d] = None
    BY <1>1, Zenon DEF FileInv, CallsInv, CallInv
  <1>3. pc'[q] = "user" /\ \A r \in Procs : r # q => pc'[r] = pc[r] /\ ofile'[r] = ofile[r]
    BY <1>1, <1>typ, Zenon DEF IsTable
  <1>4. ASSUME NEW g \in Files
        PROVE  /\ ref'[g] = Cardinality(FdsIn(ofile', g)) + Cardinality(CallsIn(todo', g))
               /\ ref'[g] \in Nat /\ ref'[g] >= ref[g]
    <2>1. /\ ref[g] = Cardinality(FdsIn(ofile, g)) + Cardinality(CallsIn(todo, g))
          /\ Cardinality(FdsIn(ofile, g)) \in Nat /\ Cardinality(CallsIn(todo, g)) \in Nat
      BY RefCounts, Zenon DEF FileInv
    <2>2. CopiesCount(ofile, ofile', p, g)
      <3>1. Copied(ofile, ofile', p, q)
        BY <1>1, <1>2, Zenon DEF Copied
      <3>2. QED
        BY <1>typ, <3>1, FdsCopied, Zenon
    <2>3. Cardinality({d \in FDs : ofile[p][d] = g}) \in Nat
      <3>1. 0 \in Int /\ NOFILE - 1 \in Int
        BY PipeAssumption
      <3>2. IsFiniteSet(FDs) /\ {d \in FDs : ofile[p][d] = g} \in SUBSET FDs
        BY <3>1, FS_Interval, Zenon DEF FDs
      <3>3. QED
        BY <3>2, FS_Subset, FS_CardinalityType, Zenon
    <2>4. ref'[g] = ref[g] + Cardinality({d \in FDs : ofile[p][d] = g})
      BY <1>1, Zenon
    <2> DEFINE new == Cardinality({d \in FDs : ofile[p][d] = g})
               fds == Cardinality(FdsIn(ofile', g))
               old == Cardinality(FdsIn(ofile, g))
               calls == Cardinality(CallsIn(todo, g))
    <2>5. fds = old + new
      BY <2>2, Zenon DEF CopiesCount
    <2>6. Cardinality(CallsIn(todo', g)) = calls
      BY <1>1, Zenon
    <2> HIDE DEF new, fds, old, calls
    <2>7. /\ ref'[g] = fds + calls /\ ref'[g] \in Nat /\ ref'[g] >= ref[g]
      <3>1. ref[g] = old + calls /\ old \in Nat /\ calls \in Nat
        BY <2>1, Zenon DEF old, calls
      <3>2. ref'[g] = ref[g] + new /\ new \in Nat
        BY <2>3, <2>4, Zenon DEF new
      <3>3. QED
        BY <2>5, <3>1, <3>2
    <2>8. QED
      BY <2>6, <2>7, Zenon DEF fds
  <1>5. Types'
    <2>1. ref' \in [Files -> Nat]
      BY <1>1, <1>4, Zenon
    <2>2. pc' \in [Procs -> Labels]
      BY <1>1, <1>typ, Zenon DEF Labels
    <2>3. ofile' \in [Procs -> [FDs -> Files \cup {None}]]
      BY <1>1, <1>typ, Zenon DEF IsTable
    <2>4. QED
      BY <1>1, <2>1, <2>2, <2>3, Zenon DEF FileInv, Types
  <1>6. CallsInv'
    <2>1. Others(q)
      BY <1>1, <1>3, Zenon DEF Others
    <2>2. CallInv(q)'
      BY <1>1, <1>2, <1>3, Zenon DEF CallInv
    <2>3. QED
      BY <2>1, <2>2, CallsStay, Zenon DEF FileInv
  <1>7. OneHolder'
    <2>1. \A g \in Files : ref[g] > 0 => ref'[g] > 0
      BY <1>4, <1>typ
    <2>2. QED
      BY <1>1, <2>1, HoldersStay, Zenon DEF FileInv
  <1>8. UsersHold'
    <2>1. \A r \in Procs, e \in Ends : r # q /\ Holds(r, e) => Holds(r, e)'
      BY <1>1, <1>3, Zenon DEF Holds
    <2>2. QED
      BY <1>3, <2>1, Zenon DEF FileInv, UsersHold, Reading, Writing, Ends
  <1>9. RefIsUses'
    BY <1>4, CountsAgain, Zenon
  <1>10. QED
    BY <1>5, <1>6, <1>7, <1>8, <1>9, Zenon DEF FileInv

\* exit() begins, or a call on files is over.
LEMMA EndsOfCallsKeepFiles ==
  ASSUME FileInv, NEW p \in Procs, kexit(p) \/ closed(p)
  PROVE  FileInv'
  <1>1. /\ UNCHANGED <<ref, end, ofile, todo, ending, open, page>>
        /\ pc[p] \in {"user", "close"} /\ todo[p] = <<>>
        /\ \E l \in {"user", "close", "unused"} :
             /\ pc' = [pc EXCEPT ![p] = l]
             /\ l = "unused" => \A d \in FDs : ofile[p][d] = None
    <2>1. CASE kexit(p)
      BY <2>1, Zenon DEF kexit, files, pipe, Goto, FileInv, CallsInv, CallInv
    <2>2. CASE closed(p)
      BY <2>2, Zenon DEF closed, files, pipe, Goto, OpenFds, FreeFds
    <2>3. QED
      BY <2>1, <2>2, Zenon
  <1>2. /\ pc' \in [Procs -> Labels] /\ pc'[p] \in {"user", "close", "unused"}
        /\ pc'[p] = "unused" => \A d \in FDs : ofile[p][d] = None
        /\ \A q \in Procs : q # p => pc'[q] = pc[q]
    BY <1>1, Zenon DEF FileInv, Types, Labels
  <1>3. Types'
    BY <1>1, <1>2, Zenon DEF FileInv, Types
  <1>4. CallsInv'
    <2>1. ending[p] = None
      <3>1. CallInv(p) /\ pc[p] # "pipeclose"
        BY <1>1, Zenon DEF FileInv, CallsInv
      <3>2. QED
        BY <3>1, Zenon DEF CallInv
    <2>2. Others(p)
      BY <1>1, <1>2, Zenon DEF Others
    <2>3. CallInv(p)'
      BY <1>1, <1>2, <2>1, Zenon DEF CallInv
    <2>4. QED
      BY <2>2, <2>3, CallsStay, Zenon DEF FileInv
  <1>5. OneHolder'
    BY <1>1, HoldersStay, Zenon DEF FileInv
  <1>6. UsersHold'
    <2>1. p \notin Reading' /\ p \notin Writing'
      BY <1>2, Zenon DEF Reading, Writing
    <2>2. \A q \in Procs : q # p => (q \in Reading' <=> q \in Reading) /\ (q \in Writing' <=> q \in Writing)
      BY <1>2, Zenon DEF Reading, Writing
    <2>3. \A q \in Procs, e \in Ends : Holds(q, e) => Holds(q, e)'
      BY <1>1, Zenon DEF Holds
    <2>4. QED
      BY <2>1, <2>2, <2>3, Zenon DEF FileInv, UsersHold, Ends
  <1>7. RefIsUses'
    BY <1>1, Zenon DEF FileInv, RefIsUses, FdsOf, CallsOn
  <1>8. QED
    BY <1>3, <1>4, <1>5, <1>6, <1>7, Zenon DEF FileInv

\* fileclose() takes a file off the call and a reference off the file; with the last
\* one the end passes from the file to the process.
LEMMA FilecloseKeepsFiles ==
  ASSUME FileInv, NEW p \in Procs, fileclose(p)
  PROVE  FileInv'
  <1> DEFINE f == Head(todo[p])
             rest == Tail(todo[p])
             last == ref[f] = 1 /\ end[f] # None
  <1>typ. /\ IsCalls(todo) /\ ref \in [Files -> Nat] /\ end \in [Files -> Ends \cup {None}]
          /\ pc \in [Procs -> Labels] /\ ending \in [Procs -> Ends \cup {None}]
    BY Zenon DEF FileInv, Types, IsCalls
  <1>1. /\ pc[p] = "close" /\ todo[p] # <<>> /\ UNCHANGED <<ofile, open, page>>
        /\ ref' = [ref EXCEPT ![f] = @ - 1] /\ todo' = [todo EXCEPT ![p] = rest]
    BY Zenon DEF fileclose, pipe
  <1>2. /\ last => /\ end' = [end EXCEPT ![f] = None]
                   /\ ending' = [ending EXCEPT ![p] = end[f]]
                   /\ pc' = [pc EXCEPT ![p] = "pipeclose"]
        /\ ~last => UNCHANGED <<end, ending, pc>>
    BY Zenon DEF fileclose, LastRef, Goto
  <1>3. /\ f \in Files /\ rest \in Seq(Files)
        /\ rest = <<>> \/ (\E g \in Files : rest = <<g>>)
        /\ ~Has(rest, f) /\ \A x \in Files : Has(todo[p], x) <=> x = f \/ Has(rest, x)
    <2>1. ASSUME NEW g \in Files, todo[p] = <<g>>
          PROVE  f = g /\ rest = <<>>
      BY <2>1
    <2>2. ASSUME NEW g \in Files, NEW h \in Files, todo[p] = <<g, h>>
          PROVE  f = g /\ rest = <<h>>
      BY <2>2
    <2>3. rest \in Seq(Files)
      BY <1>1, <1>typ DEF IsCalls
    <2> HIDE DEF f, rest
    <2>4. \A g, h, x \in Files : /\ ~Has(<<>>, x) /\ (Has(<<g>>, x) <=> x = g)
                                 /\ Has(<<g, h>>, x) <=> x = g \/ x = h
      BY HasIs, Zenon
    <2> DEFINE Rest == /\ f \in Files
                       /\ rest = <<>> \/ (\E x \in Files : rest = <<x>>)
                       /\ ~Has(rest, f)
                       /\ \A x \in Files : Has(todo[p], x) <=> x = f \/ Has(rest, x)
    <2>5. ASSUME NEW g \in Files, todo[p] = <<g>> PROVE Rest
      <3>1. f = g /\ rest = <<>>
        BY <2>1, <2>5, Zenon
      <3>2. \A x \in Files : ~Has(rest, x)
        BY <2>4, <3>1, Zenon
      <3>3. \A x \in Files : Has(todo[p], x) <=> x = g
        <4>1. \A x \in Files : Has(<<g>>, x) <=> x = g
          BY <2>4, Zenon
        <4>2. QED
          BY <2>5, <4>1, Zenon
      <3>4. QED
        BY <3>1, <3>2, <3>3, Zenon
    <2>6. ASSUME NEW g \in Files, NEW h \in Files, g # h, todo[p] = <<g, h>> PROVE Rest
      <3>1. f = g /\ rest = <<h>>
        BY <2>2, <2>6, Zenon
      <3>2. \A x \in Files : Has(rest, x) <=> x = h
        BY <2>4, <3>1, Zenon
      <3>3. \A x \in Files : Has(todo[p], x) <=> x = g \/ x = h
        <4>1. \A x \in Files : Has(<<g, h>>, x) <=> x = g \/ x = h
          BY <2>4, Zenon
        <4>2. QED
          BY <2>6, <4>1, Zenon
      <3>4. QED
        BY <2>6, <3>1, <3>2, <3>3, Zenon
    <2>7. \/ \E g \in Files : todo[p] = <<g>>
          \/ \E g, h \in Files : g # h /\ todo[p] = <<g, h>>
      BY <1>1, Zenon DEF FileInv, CallsInv, CallInv
    <2>8. Rest
      <3> HIDE DEF Rest
      <3>1. QED
        BY <2>5, <2>6, <2>7, Zenon
    <2>9. QED
      BY <2>3, <2>8, Zenon
  <1> HIDE DEF f, rest
  <1>4. ref[f] # 0 /\ ref[f] \in Nat /\ Has(todo[p], f) /\ ending[p] = None
    <2>1. Has(todo[p], f)
      BY <1>3, Zenon
    <2>2. ref[f] # 0
      BY <1>3, <2>1, RefCounts, Zenon DEF FileInv
    <2>3. ending[p] = None
      <3>1. CallInv(p) /\ pc[p] # "pipeclose"
        BY <1>1, Zenon DEF FileInv, CallsInv
      <3>2. QED
        BY <3>1, Zenon DEF CallInv
    <2>4. QED
      BY <1>3, <1>typ, <2>1, <2>2, <2>3, Zenon
  <1>5. /\ ref' \in [Files -> Nat] /\ ref'[f] = ref[f] - 1
        /\ \A g \in Files : g # f => ref'[g] = ref[g]
    BY <1>1, <1>3, <1>4, <1>typ
  <1>6. /\ todo' \in [Procs -> Seq(Files)] /\ todo'[p] = rest
        /\ \A q \in Procs : q # p => todo'[q] = todo[q]
    BY <1>1, <1>3, <1>typ, Zenon DEF IsCalls
  <1>7. RefIsUses'
    <2>1. ASSUME NEW g \in Files
          PROVE  ref'[g] = Cardinality(FdsIn(ofile', g)) + Cardinality(CallsIn(todo', g))
      <3>1. /\ ref[g] = Cardinality(FdsIn(ofile, g)) + Cardinality(CallsIn(todo, g))
            /\ Cardinality(FdsIn(ofile, g)) \in Nat /\ Cardinality(CallsIn(todo, g)) \in Nat
        BY RefCounts, Zenon DEF FileInv
      <3>2. CallSet(todo, todo', p, rest)
        BY <1>1, Zenon DEF CallSet
      <3>3. CallsCount(todo, todo', p, rest, g)
        BY <1>typ, <3>2, CallChanges, Zenon
      <3>4. (Has(todo[p], g) <=> g = f \/ Has(rest, g)) /\ ~Has(rest, f)
        BY <1>3, Zenon
      <3>5. QED
        BY <1>1, <1>3, <1>5, <3>1, <3>3, <3>4 DEF InCall, CallsCount
    <2>2. QED
      BY <2>1, CountsAgain, Zenon
  <1>8. CASE last
    <2>1. /\ end' \in [Files -> Ends \cup {None}] /\ end'[f] = None
          /\ \A g \in Files : g # f => end'[g] = end[g]
      BY <1>2, <1>3, <1>8, <1>typ, Zenon
    <2>2. /\ ending' \in [Procs -> Ends \cup {None}] /\ ending'[p] = end[f]
          /\ \A q \in Procs : q # p => ending'[q] = ending[q]
      BY <1>2, <1>3, <1>8, <1>typ, Zenon
    <2>3. /\ pc' \in [Procs -> Labels] /\ pc'[p] = "pipeclose"
          /\ \A q \in Procs : q # p => pc'[q] = pc[q]
      BY <1>2, <1>8, <1>typ, Zenon DEF Labels
    <2>4. end[f] # None /\ end[f] \in Ends /\ ref[f] = 1
      BY <1>3, <1>8, <1>typ, Zenon
    <2>5. Types'
      BY <1>1, <1>5, <1>6, <2>1, <2>2, <2>3, Zenon DEF FileInv, Types
    <2>6. CallsInv'
      <3>1. Others(p)
        BY <1>1, <1>6, <2>2, <2>3, Zenon DEF Others
      <3>2. CallInv(p)'
        BY <1>3, <1>6, <2>2, <2>3, <2>4, Zenon DEF CallInv
      <3>3. QED
        BY <3>1, <3>2, CallsStay, Zenon DEF FileInv
    <2>7. OneHolder'
      <3>1. \A g \in Files : end'[g] # None => ref'[g] > 0
        BY <1>5, <2>1, Zenon DEF FileInv, OneHolder
      <3>2. \A g, h \in Files : end'[g] # None /\ end'[g] = end'[h] => g = h
        <4>1. \A g, h \in Files : end[g] # None /\ end[g] = end[h] => g = h
          BY Zenon DEF FileInv, OneHolder
        <4>2. QED
          BY <2>1, <4>1, Zenon
      <3>3. \A q, r \in Procs : ending'[q] # None /\ ending'[q] = ending'[r] => q = r
        <4>1. /\ \A q, r \in Procs : ending[q] # None /\ ending[q] = ending[r] => q = r
              /\ \A q \in Procs : ending[q] # end[f]
          BY <1>3, <2>4, Zenon DEF FileInv, OneHolder
        <4>2. QED
          BY <2>2, <4>1, Zenon
      <3>4. \A g \in Files, q \in Procs : end'[g] # None => end'[g] # ending'[q]
        <4>1. /\ \A g \in Files, q \in Procs : end[g] # None => end[g] # ending[q]
              /\ \A g \in Files : g # f => end[g] # end[f]
          BY <1>3, <2>4, Zenon DEF FileInv, OneHolder
        <4>2. QED
          BY <2>1, <2>2, <4>1, Zenon
      <3>5. \A e \in Ends : e \in open' <=> \/ \E g \in Files : end'[g] = e
                                            \/ \E q \in Procs : ending'[q] = e
        <4>1. None \notin Ends
          BY PipeAssumption, Zenon DEF Ends
        <4>2. ASSUME NEW e \in Ends
              PROVE  ((\E g \in Files : end'[g] = e) \/ (\E q \in Procs : ending'[q] = e))
                       <=> ((\E g \in Files : end[g] = e) \/ (\E q \in Procs : ending[q] = e))
          BY <1>3, <1>4, <2>1, <2>2, <4>1, <4>2, Zenon
        <4>3. QED
          BY <1>1, <4>2, Zenon DEF FileInv, OneHolder
      <3>6. (page = (open # {}))'
        BY <1>1, Zenon DEF FileInv, OneHolder
      <3>7. QED
        BY <3>1, <3>2, <3>3, <3>4, <3>5, <3>6, Zenon DEF OneHolder
    <2>8. UsersHold'
      <3>1. \A q \in Procs, d \in FDs : ofile[q][d] # f
        BY <1>3, <1>4, <2>4, TwoUsers, Zenon DEF FileInv
      <3>2. \A q \in Procs, d \in FDs : ofile[q][d] # None =>
              ofile[q][d] \in Files /\ end'[ofile[q][d]] = end[ofile[q][d]]
        BY <2>1, <3>1 DEF FileInv, Types
      <3>3. \A q \in Procs, e \in Ends : Holds(q, e) => Holds(q, e)'
        BY <1>1, <3>2, Zenon DEF Holds
      <3>4. QED
        BY <2>3, <3>3, Zenon DEF FileInv, UsersHold, Reading, Writing, Ends
    <2>9. QED
      BY <1>7, <2>5, <2>6, <2>7, <2>8, Zenon DEF FileInv
  <1>9. CASE ~last
    <2>1. UNCHANGED <<end, ending, pc>>
      BY <1>2, <1>9, Zenon
    <2>2. Types'
      BY <1>1, <1>5, <1>6, <2>1, Zenon DEF FileInv, Types
    <2>3. CallsInv'
      <3>1. Others(p)
        BY <1>1, <1>6, <2>1, Zenon DEF Others
      <3>2. CallInv(p)'
        BY <1>1, <1>3, <1>4, <1>6, <2>1, Zenon DEF CallInv
      <3>3. QED
        BY <3>1, <3>2, CallsStay, Zenon DEF FileInv
    <2>4. OneHolder'
      <3>1. \A g \in Files : end[g] # None => ref'[g] > 0
        <4>1. \A g \in Files : end[g] # None => ref[g] > 0
          BY Zenon DEF FileInv, OneHolder
        <4>2. end[f] # None => ref[f] # 1
          BY <1>9, Zenon
        <4>3. QED
          BY <1>3, <1>4, <1>5, <4>1, <4>2
      <3>2. QED
        BY <1>1, <2>1, <3>1, Zenon DEF FileInv, OneHolder
    <2>5. UsersHold'
      BY <1>1, <2>1, Zenon DEF FileInv, UsersHold, Reading, Writing, Holds
    <2>6. QED
      BY <1>7, <2>2, <2>3, <2>4, <2>5, Zenon DEF FileInv
  <1>10. QED
    BY <1>8, <1>9, Zenon

\* pipeclose() closes the end that had no file any more.
LEMMA PipecloseKeepsFiles ==
  ASSUME FileInv, NEW p \in Procs, pipeclose(p)
  PROVE  FileInv'
  <1> DEFINE e == ending[p]
  <1>typ. /\ pc \in [Procs -> Labels] /\ ending \in [Procs -> Ends \cup {None}]
          /\ open \subseteq Ends /\ None \notin Ends
    <2>1. None \notin Ends
      BY PipeAssumption DEF Ends
    <2>2. QED
      BY <2>1, Zenon DEF FileInv, Types
  <1>1. /\ pc[p] = "pipeclose" /\ open' = open \ {e} /\ UNCHANGED <<ref, end, ofile, todo>>
        /\ ending' = [ending EXCEPT ![p] = None]
        /\ pc' = [WakeOther(e, pc) EXCEPT ![p] = "close"]
    BY Zenon DEF pipeclose, files
  <1>2. page' = (open' # {})
    BY Zenon DEF pipeclose
  <1>3. e # None
    BY <1>1, Zenon DEF FileInv, CallsInv, CallInv
  <1>4. /\ pc' \in [Procs -> Labels] /\ pc'[p] = "close"
        /\ \A q \in Procs : q # p => \/ pc'[q] = pc[q]
                                     \/ pc[q] = "rsleep" /\ pc'[q] = "read"
                                     \/ pc[q] = "wsleep" /\ pc'[q] = "write"
    BY <1>1, <1>typ, Zenon DEF WakeOther, WakeReaders, WakeWriters, Labels
  <1>5. /\ ending' \in [Procs -> Ends \cup {None}] /\ ending'[p] = None
        /\ \A q \in Procs : q # p => ending'[q] = ending[q]
    BY <1>1, <1>typ, Zenon
  <1> HIDE DEF e
  <1>6. Types'
    BY <1>1, <1>4, <1>5, Zenon DEF FileInv, Types
  <1>7. CallsInv'
    <2>1. ASSUME NEW q \in Procs, q # p PROVE CallInv(q)'
      <3>1. /\ todo'[q] = todo[q] /\ ofile'[q] = ofile[q] /\ ending'[q] = ending[q]
            /\ \/ pc'[q] = pc[q]
               \/ pc[q] = "rsleep" /\ pc'[q] = "read"
               \/ pc[q] = "wsleep" /\ pc'[q] = "write"
        BY <1>1, <1>4, <1>5, <2>1, Zenon
      <3>2. CallInv(q)
        BY Zenon DEF FileInv, CallsInv
      <3>3. QED
        BY <3>1, <3>2, Zenon DEF CallInv
    <2>2. CallInv(p)'
      <3>1. CallInv(p)
        BY Zenon DEF FileInv, CallsInv
      <3>2. QED
        BY <1>1, <1>4, <1>5, <3>1, Zenon DEF CallInv
    <2>3. QED
      BY <2>1, <2>2, Zenon DEF CallsInv
  <1>8. OneHolder'
    <2>1. /\ \A x \in Ends : x \in open <=> \/ \E f \in Files : end[f] = x
                                            \/ \E q \in Procs : ending[q] = x
          /\ \A q \in Procs : q # p => ending[q] # e
          /\ \A f \in Files : end[f] # e
      BY <1>3, Zenon DEF FileInv, OneHolder, e
    <2>2. \A x \in Ends : x \in open' <=> \/ \E f \in Files : end'[f] = x
                                          \/ \E q \in Procs : ending'[q] = x
      <3>1. ASSUME NEW x \in Ends, x = e
            PROVE  x \notin open' /\ (\A f \in Files : end'[f] # x) /\ (\A q \in Procs : ending'[q] # x)
        BY <1>1, <1>3, <1>5, <2>1, <3>1, Zenon
      <3>2. ASSUME NEW x \in Ends, x # e
            PROVE  /\ x \in open' <=> x \in open
                   /\ (\E f \in Files : end'[f] = x) <=> (\E f \in Files : end[f] = x)
                   /\ (\E q \in Procs : ending'[q] = x) <=> (\E q \in Procs : ending[q] = x)
        BY <1>1, <1>5, <1>typ, <3>2, Zenon DEF e
      <3>3. QED
        BY <2>1, <3>1, <3>2, Zenon
    <2>3. /\ \A q, r \in Procs : ending'[q] # None /\ ending'[q] = ending'[r] => q = r
          /\ \A f \in Files, q \in Procs : end'[f] # None => end'[f] # ending'[q]
      <3>1. /\ \A q, r \in Procs : ending[q] # None /\ ending[q] = ending[r] => q = r
            /\ \A f \in Files, q \in Procs : end[f] # None => end[f] # ending[q]
        BY Zenon DEF FileInv, OneHolder
      <3>2. QED
        BY <1>1, <1>5, <3>1, Zenon
    <2>4. /\ \A f, g \in Files : end'[f] # None /\ end'[f] = end'[g] => f = g
          /\ \A f \in Files : end'[f] # None => ref'[f] > 0
      BY <1>1, Zenon DEF FileInv, OneHolder
    <2>5. QED
      BY <1>2, <2>2, <2>3, <2>4, Zenon DEF OneHolder
  <1>9. UsersHold'
    <2>1. \A q \in Procs : /\ q \in Reading' => q \in Reading
                           /\ q \in Writing' => q \in Writing
      BY <1>4, Zenon DEF Reading, Writing
    <2>2. \A q \in Procs, x \in Ends : Holds(q, x) => Holds(q, x)'
      BY <1>1, Zenon DEF Holds
    <2>3. QED
      BY <2>1, <2>2, Zenon DEF FileInv, UsersHold, Ends
  <1>10. RefIsUses'
    BY <1>1, Zenon DEF FileInv, RefIsUses, FdsOf, CallsOn
  <1>11. QED
    BY <1>6, <1>7, <1>8, <1>9, <1>10, Zenon DEF FileInv

\* pipealloc() opens both ends, each with its file, when neither was open; the files
\* get descriptors or stay with the call.
LEMMA PipeallocKeepsFiles ==
  ASSUME FileInv, NEW p \in Procs, pipealloc(p)
  PROVE  FileInv'
  <1>1. PICK rf \in Files : todo[p] = <<rf>>
    BY Zenon DEF FileInv, CallsInv, CallInv, pipealloc
  <1>2. <<rf>>[1] = rf
    BY Zenon
  <1>3. PICK wf \in Files :
          /\ filealloc(wf) /\ end' = [end EXCEPT ![rf] = "r", ![wf] = "w"]
          /\ \/ /\ fdalloc(p, rf, wf) /\ todo' = [todo EXCEPT ![p] = <<>>] /\ Goto(p, "user")
             \/ /\ todo' = [todo EXCEPT ![p] = <<rf, wf>>] /\ Goto(p, "close") /\ UNCHANGED ofile
    BY <1>1, <1>2, Zenon DEF pipealloc
  <1>4. /\ pc[p] = "pipe" /\ open' = {"r", "w"} /\ UNCHANGED ending
        /\ ref[wf] = 0 /\ ref' = [ref EXCEPT ![wf] = 1]
    BY <1>3, Zenon DEF pipealloc, filealloc, IsFirst, NoRef
  <1>5. page' = TRUE /\ ~page
    BY Zenon DEF pipealloc
  <1>typ. /\ IsCalls(todo) /\ IsTable(ofile) /\ ref \in [Files -> Nat]
          /\ end \in [Files -> Ends \cup {None}] /\ pc \in [Procs -> Labels]
          /\ ending \in [Procs -> Ends \cup {None}] /\ None \notin Ends /\ None \notin Files
    <2>1. None \notin Ends /\ None \notin Files
      BY PipeAssumption DEF Ends, Files
    <2>2. QED
      BY <2>1, Zenon DEF FileInv, Types, IsCalls, IsTable
  <1>6. rf # wf /\ ref[rf] > 0
    <2>1. Has(todo[p], rf)
      BY <1>1, HasIs, Zenon
    <2>2. ref[rf] # 0
      BY <2>1, RefCounts, Zenon DEF FileInv
    <2>3. QED
      BY <1>4, <1>typ, <2>2
  <1>7. (\A f \in Files : end[f] = None) /\ (\A q \in Procs : ending[q] = None)
    <2>1. open = {}
      BY <1>5, Zenon DEF FileInv, OneHolder
    <2>2. QED
      BY <1>typ, <2>1, Zenon DEF FileInv, OneHolder
  <1>8. /\ end' \in [Files -> Ends \cup {None}] /\ end'[rf] = "r" /\ end'[wf] = "w"
        /\ \A f \in Files : f # rf /\ f # wf => end'[f] = None
    BY <1>3, <1>6, <1>7, <1>typ, Zenon DEF Ends
  <1>9. OneHolder'
    <2>1. /\ ref'[rf] > 0 /\ ref'[wf] > 0
      BY <1>4, <1>6, <1>typ
    <2>2. /\ \A f, g \in Files : end'[f] # None /\ end'[f] = end'[g] => f = g
          /\ \A f \in Files : end'[f] # None => ref'[f] > 0
      BY <1>6, <1>8, <2>1, Zenon
    <2>3. /\ \A q, r \in Procs : ending'[q] # None /\ ending'[q] = ending'[r] => q = r
          /\ \A f \in Files, q \in Procs : end'[f] # None => end'[f] # ending'[q]
      BY <1>4, <1>7, Zenon
    <2>4. \A e \in Ends : e \in open' <=> \/ \E f \in Files : end'[f] = e
                                          \/ \E q \in Procs : ending'[q] = e
      BY <1>4, <1>8, Zenon DEF Ends
    <2>5. (page = (open # {}))'
      BY <1>4, <1>5, Zenon
    <2>6. QED
      BY <2>2, <2>3, <2>4, <2>5, Zenon DEF OneHolder
  <1>10. \A q \in Procs : q \notin Reading /\ q \notin Writing
    <2>1. \A q \in Procs, e \in Ends : ~Holds(q, e)
      BY <1>7, <1>typ DEF Holds, IsTable
    <2>2. QED
      BY <2>1, Zenon DEF FileInv, UsersHold, Ends
  <1>11. ASSUME pc' \in [Procs -> Labels], pc'[p] \in {"user", "close"},
                \A q \in Procs : q # p => pc'[q] = pc[q]
         PROVE  UsersHold'
    <2>1. \A q \in Procs : q \notin Reading' /\ q \notin Writing'
      BY <1>10, <1>11, Zenon DEF Reading, Writing
    <2>2. QED
      BY <2>1, Zenon DEF UsersHold
  <1>12. /\ ref' \in [Files -> Nat] /\ ref'[wf] = 1
         /\ \A g \in Files : g # wf => ref'[g] = ref[g]
    BY <1>4, <1>typ, Zenon
  <1>13. ASSUME fdalloc(p, rf, wf), todo' = [todo EXCEPT ![p] = <<>>], Goto(p, "user")
         PROVE  FileInv'
    <2>1. PICK fd0, fd1 \in FDs :
            /\ IsFirst(fd0, FreeFds(p)) /\ IsFirst(fd1, FreeFds(p) \ {fd0})
            /\ ofile' = [ofile EXCEPT ![p][fd0] = rf, ![p][fd1] = wf]
      BY <1>13, Zenon DEF fdalloc
    <2> DEFINE one == [ofile EXCEPT ![p][fd0] = rf]
    <2>2. /\ ofile[p][fd0] = None /\ ofile[p][fd1] = None /\ fd0 # fd1
      BY <2>1, Zenon DEF IsFirst, FreeFds
    <2>3. /\ FdSet(ofile, one, p, fd0, rf) /\ FdSet(one, ofile', p, fd1, wf) /\ IsTable(one)
          /\ one[p][fd1] = None
      BY <1>typ, <2>1, <2>2, Zenon DEF FdSet, IsTable
    <2> HIDE DEF one
    <2>4. IsTable(ofile') /\ \A q \in Procs : q # p => ofile'[q] = ofile[q]
      BY <1>typ, <2>1, Zenon DEF IsTable
    <2>5. /\ pc' \in [Procs -> Labels] /\ pc'[p] = "user"
          /\ \A q \in Procs : q # p => pc'[q] = pc[q]
      BY <1>13, <1>typ, Zenon DEF Goto, Labels
    <2>6. /\ todo' \in [Procs -> Seq(Files)] /\ todo'[p] = <<>>
          /\ \A q \in Procs : q # p => todo'[q] = todo[q]
      BY <1>13, <1>typ DEF IsCalls
    <2>7. open' \subseteq Ends
      BY <1>4, Zenon DEF Ends
    <2>8. Types'
      BY <1>4, <1>8, <1>12, <1>typ, <2>4, <2>5, <2>6, <2>7, Zenon DEF Types, IsTable
    <2>9. CallsInv'
      <3>1. Others(p)
        BY <1>4, <2>4, <2>5, <2>6, Zenon DEF Others
      <3>2. CallInv(p)'
        BY <1>4, <1>7, <2>5, <2>6, Zenon DEF CallInv
      <3>3. QED
        BY <3>1, <3>2, CallsStay, Zenon DEF FileInv
    <2>10. RefIsUses'
      <3>1. ASSUME NEW g \in Files
            PROVE  ref'[g] = Cardinality(FdsIn(ofile', g)) + Cardinality(CallsIn(todo', g))
        <4>1. /\ ref[g] = Cardinality(FdsIn(ofile, g)) + Cardinality(CallsIn(todo, g))
              /\ Cardinality(FdsIn(ofile, g)) \in Nat /\ Cardinality(CallsIn(todo, g)) \in Nat
          BY RefCounts, Zenon DEF FileInv
        <4>2. CallSet(todo, todo', p, <<>>)
          BY <1>13, Zenon DEF CallSet
        <4>3. CallsCount(todo, todo', p, <<>>, g)
          BY <1>typ, <4>2, CallChanges, Zenon
        <4>4. InCall(todo[p], g) = IsFile(rf, g) /\ InCall(<<>>, g) = 0
          <5>1. Has(<<rf>>, g) <=> g = rf
            BY HasIs, Zenon
          <5>2. ~Has(<<>>, g)
            BY HasIs, Zenon
          <5>3. Has(todo[p], g) <=> g = rf
            BY <1>1, <5>1, Zenon
          <5>4. QED
            BY <5>2, <5>3, Zenon DEF InCall, IsFile
        <4>5. FdsCount(ofile, one, p, fd0, rf, g)
          BY <1>typ, <2>3, FdChanges, Zenon
        <4>6. FdsCount(one, ofile', p, fd1, wf, g)
          BY <2>3, FdChanges, Zenon
        <4>7. IsFile(ofile[p][fd0], g) = 0 /\ IsFile(one[p][fd1], g) = 0
          BY <1>typ, <2>2, <2>3, Zenon DEF IsFile
        <4>8. IsFile(rf, g) \in Nat /\ ref'[g] = ref[g] + IsFile(wf, g)
          BY <1>4, <1>12, <1>typ DEF IsFile
        <4> DEFINE old == Cardinality(FdsIn(ofile, g))
                   mid == Cardinality(FdsIn(one, g))
                   new == Cardinality(FdsIn(ofile', g))
                   calls == Cardinality(CallsIn(todo, g))
        <4>9. /\ mid = old + IsFile(rf, g) - 0 /\ new = mid + IsFile(wf, g) - 0
              /\ Cardinality(CallsIn(todo', g)) = calls + 0 - IsFile(rf, g)
          BY <4>3, <4>4, <4>5, <4>6, <4>7, Zenon DEF FdsCount, CallsCount
        <4> HIDE DEF old, mid, new, calls
        <4>10. ref[g] = old + calls /\ old \in Nat /\ calls \in Nat /\ IsFile(wf, g) \in Nat
          <5>1. IsFile(wf, g) \in Nat
            BY Zenon DEF IsFile
          <5>2. QED
            BY <4>1, <5>1, Zenon DEF old, calls
        <4>11. ref'[g] = new + Cardinality(CallsIn(todo', g))
          BY <4>8, <4>9, <4>10
        <4>12. QED
          BY <4>11, Zenon DEF new
      <3>2. QED
        BY <3>1, CountsAgain, Zenon
    <2>11. UsersHold'
      BY <1>11, <2>5, Zenon
    <2>12. QED
      BY <1>9, <2>8, <2>9, <2>10, <2>11, Zenon DEF FileInv
  <1>14. ASSUME todo' = [todo EXCEPT ![p] = <<rf, wf>>], Goto(p, "close"), UNCHANGED ofile
         PROVE  FileInv'
    <2>1. /\ pc' \in [Procs -> Labels] /\ pc'[p] = "close"
          /\ \A q \in Procs : q # p => pc'[q] = pc[q]
      BY <1>14, <1>typ, Zenon DEF Goto, Labels
    <2>2. /\ todo' \in [Procs -> Seq(Files)] /\ todo'[p] = <<rf, wf>>
          /\ \A q \in Procs : q # p => todo'[q] = todo[q]
      BY <1>14, <1>typ DEF IsCalls
    <2>3. open' \subseteq Ends
      BY <1>4, Zenon DEF Ends
    <2>4. Types'
      BY <1>4, <1>8, <1>12, <1>14, <1>typ, <2>1, <2>2, <2>3, Zenon DEF Types, IsTable
    <2>5. CallsInv'
      <3>1. Others(p)
        BY <1>4, <1>14, <2>1, <2>2, Zenon DEF Others
      <3>2. CallInv(p)'
        BY <1>4, <1>6, <1>7, <2>1, <2>2, Zenon DEF CallInv
      <3>3. QED
        BY <3>1, <3>2, CallsStay, Zenon DEF FileInv
    <2>6. RefIsUses'
      <3>1. ASSUME NEW g \in Files
            PROVE  ref'[g] = Cardinality(FdsIn(ofile', g)) + Cardinality(CallsIn(todo', g))
        <4>1. /\ ref[g] = Cardinality(FdsIn(ofile, g)) + Cardinality(CallsIn(todo, g))
              /\ Cardinality(FdsIn(ofile, g)) \in Nat /\ Cardinality(CallsIn(todo, g)) \in Nat
          BY RefCounts, Zenon DEF FileInv
        <4>2. CallsCount(todo, todo', p, <<rf, wf>>, g)
          <5>1. CallSet(todo, todo', p, <<rf, wf>>)
            BY <1>14, Zenon DEF CallSet
          <5>2. QED
            BY <1>typ, <5>1, CallChanges, Zenon
        <4>3. (Has(<<rf>>, g) <=> g = rf) /\ (Has(<<rf, wf>>, g) <=> g = rf \/ g = wf)
          BY HasIs, Zenon
        <4>4. ref'[g] = IF g = wf THEN ref[g] + 1 ELSE ref[g]
          BY <1>4, <1>12, <1>typ
        <4>5. QED
          BY <1>1, <1>6, <1>14, <4>1, <4>2, <4>3, <4>4 DEF InCall, CallsCount
      <3>2. QED
        BY <3>1, CountsAgain, Zenon
    <2>7. UsersHold'
      BY <1>11, <2>1, Zenon
    <2>8. QED
      BY <1>9, <2>4, <2>5, <2>6, <2>7, Zenon DEF FileInv
  <1>15. QED
    BY <1>3, <1>13, <1>14, Zenon

\* The steps that leave the pipe itself alone.
FileStep(p) ==
  \/ sys_pipe(p) \/ pipealloc_bad(p)
  \/ (\E d \in FDs : sys_dup(p, d) \/ sys_close(p, d) \/ kexit_close(p, d))
  \/ (\E q \in Procs : kfork(p, q))
  \/ kexit(p) \/ fileclose(p) \/ closed(p)

\* And those that read, write or kill.
Transfer(p) ==
  \/ kill(p) \/ (\E n \in 1..MaxN : sys_write(p, n))
  \/ pipewrite_lock(p) \/ pipewrite_fails(p) \/ pipewrite_sees_full(p)
  \/ pipewrite_sleep(p) \/ (\E b \in Bytes : pipewrite_byte(p, b)) \/ pipewrite_done(p)
  \/ sys_read(p) \/ piperead_empty(p) \/ piperead_sleep(p) \/ piperead_killed(p)
  \/ (\E n \in 0..PIPESIZE : piperead(p, n))

\* These are all steps.
LEMMA StepKinds ==
  ASSUME Next
  PROVE  \E p \in Procs : FileStep(p) \/ pipealloc(p) \/ pipeclose(p) \/ Transfer(p)
  BY Zenon DEF Next, Steps, FileStep, Transfer

\* Every step keeps the file table right.
LEMMA FilesKept ==
  ASSUME FileInv, [Next]_vars
  PROVE  FileInv'
  <1>1. CASE Next
    <2>1. PICK p \in Procs : FileStep(p) \/ pipealloc(p) \/ pipeclose(p) \/ Transfer(p)
      BY <1>1, StepKinds, Zenon
    <2>2. CASE Transfer(p)
      BY <2>2, TransfersKeepFiles, Zenon DEF Transfer
    <2>3. ASSUME NEW d \in FDs, sys_close(p, d) \/ kexit_close(p, d)
          PROVE  FileInv'
      <3>1. /\ ofile[p][d] # None /\ pc[p] \in {"user", "close"} /\ close_fd(p, d)
        BY <2>3, Zenon DEF sys_close, kexit_close, Calls, IsFirst, OpenFds, FreeFds
      <3>2. todo[p] = <<>>
        <4>1. CASE kexit_close(p, d)
          BY <4>1, Zenon DEF kexit_close
        <4>2. CASE sys_close(p, d)
          <5>1. CallInv(p) /\ pc[p] = "user"
            BY <4>2, Zenon DEF sys_close, Calls, FileInv, CallsInv
          <5>2. QED
            BY <5>1, Zenon DEF CallInv
        <4>3. QED
          BY <2>3, <4>1, <4>2, Zenon
      <3>3. QED
        BY <3>1, <3>2, CloseKeepsFiles, Zenon
    <2>4. CASE FileStep(p)
      BY Zenon, <2>3, <2>4, PipeKeepsFiles, BadKeepsFiles, DupKeepsFiles, ForkKeepsFiles,
         EndsOfCallsKeepFiles, FilecloseKeepsFiles, Zenon DEF FileStep
    <2>5. QED
      BY <2>1, <2>2, <2>4, PipeallocKeepsFiles, PipecloseKeepsFiles, Zenon
  <1>2. CASE UNCHANGED vars
    <2>1. UNCHANGED <<ref, end, ofile, todo, ending, open, page, pc>>
      BY <1>2, Zenon DEF vars, files, pipe, proc
    <2>2. pc' \in [Procs -> Labels]
      BY <2>1, Zenon DEF FileInv, Types
    <2>3. QED
      BY <2>1, <2>2, QuietKeeps, Zenon
  <1>3. QED
    BY <1>1, <1>2, Zenon

\* The reference counts, the holders of the ends and the users of the pipe fit
\* together in every state.
THEOREM FilesInvariant == Spec => []FileInv
  <1>1. Init => FileInv
    BY FilesInitially, Zenon
  <1>2. FileInv /\ [Next]_vars => FileInv'
    BY FilesKept, Zenon
  <1>3. QED
    BY <1>1, <1>2, PTL DEF Spec

\* filealloc(), filedup(), fileclose(), fork(), exit() and the failures of sys_pipe()
\* keep the reference counts right, so that pipeclose() is called once for each end,
\* after its last file is gone, and the page is never freed under a process that
\* reads or writes.
THEOREM PipeEndsAreHeld == Spec => []EndsAreHeld
  <1>1. FileInv => EndsAreHeld
    <2> SUFFICES ASSUME FileInv PROVE EndsAreHeld
      BY Zenon
    <2>1. RefIsUses /\ page = (open # {})
      BY Zenon DEF FileInv, OneHolder
    <2>2. \A e \in {"r", "w"} : e \in open <=>
            \/ \E f \in Files : ref[f] > 0 /\ end[f] = e
            \/ \E p \in Procs : ending[p] = e
      <3>1. None \notin Ends
        BY PipeAssumption, Zenon DEF Ends
      <3>2. QED
        BY <3>1, Zenon DEF FileInv, OneHolder, Ends
    <2>3. \A p \in Procs, e \in {"r", "w"} : Holds(p, e) => e \in open
      <3>1. \A p \in Procs, d \in FDs : ofile[p][d] # None => ofile[p][d] \in Files
        BY DEF FileInv, Types
      <3>2. QED
        BY <3>1, Zenon DEF FileInv, OneHolder, Holds, Ends
    <2>4. (Reading # {} => "r" \in open) /\ (Writing # {} => "w" \in open)
      BY <2>3, Zenon DEF FileInv, UsersHold, Reading, Writing
    <2>5. QED
      BY <2>1, <2>2, <2>4, Zenon DEF EndsAreHeld
  <1>2. QED
    BY <1>1, FilesInvariant, PTL

-----------------------------------------------------------------------------
(* Remainders *)

\* A number is a multiple of n and its remainder.
LEMMA ModSplit ==
  ASSUME NEW a \in Int, NEW n \in Nat \ {0}
  PROVE  a \div n \in Int /\ a % n \in 0..n - 1 /\ a = n * (a \div n) + (a % n)
  OBVIOUS

\* There is only one way to write it so.
LEMMA ModUnique ==
  ASSUME NEW n \in Nat \ {0}, NEW q \in Int, NEW x \in 0..n - 1
  PROVE  (n * q + x) % n = x
  OBVIOUS

\* A multiple of n does not change the remainder.
LEMMA ModShift ==
  ASSUME NEW a \in Int, NEW n \in Nat \ {0}, NEW m \in Int
  PROVE  (a + n * m) % n = a % n
  <1> DEFINE q == a \div n
             x == a % n
  <1>1. q \in Int /\ x \in 0..n - 1 /\ a = n * q + x
    BY ModSplit, Zenon
  <1> HIDE DEF q, x
  <1>2. q + m \in Int /\ n * (q + m) = n * q + n * m /\ n * q \in Int /\ n * m \in Int
    BY <1>1
  <1>3. a + n * m = n * (q + m) + x
    BY <1>1, <1>2
  <1>4. (n * (q + m) + x) % n = x
    BY <1>1, <1>2, ModUnique, Zenon
  <1>5. QED
    BY <1>3, <1>4, Zenon DEF x

\* Less than n apart, two numbers have different remainders.
LEMMA ModApart ==
  ASSUME NEW a \in Int, NEW n \in Nat \ {0}, NEW i \in 0..n - 1, NEW j \in 0..n - 1,
         (a + i) % n = (a + j) % n
  PROVE  i = j
  <1> DEFINE q == (a + i) \div n
             s == (a + j) \div n
             x == (a + i) % n
  <1>1. q \in Int /\ x \in 0..n - 1 /\ a + i = n * q + x
    BY ModSplit
  <1>2. s \in Int /\ a + j = n * s + x
    BY ModSplit
  <1> HIDE DEF q, s, x
  <1>3. q - s \in Int /\ n * (q - s) = n * q - n * s /\ n * q \in Int /\ n * s \in Int
    BY <1>1, <1>2
  <1>4. i - j = n * (q - s)
    BY <1>1, <1>2, <1>3
  <1> DEFINE d == q - s
  <1>5. d \in Int /\ i - j = n * d
    BY <1>3, <1>4, Zenon
  <1> HIDE DEF d
  <1>6. CASE d >= 1
    <2>1. n * d >= n
      BY <1>5, <1>6
    <2>2. QED
      BY <1>5, <2>1
  <1>7. CASE d <= -1
    <2>1. n * d <= -n
      BY <1>5, <1>7
    <2>2. QED
      BY <1>5, <2>1
  <1>8. CASE d = 0
    BY <1>5, <1>8
  <1>9. QED
    BY <1>5, <1>6, <1>7, <1>8

\* Once around is enough for what the code computes.
LEMMA ModOnce ==
  ASSUME NEW n \in Nat \ {0}, NEW a \in Int
  PROVE  /\ a \in 0..n - 1 => a % n = a
         /\ a \in n..2 * n - 1 => a % n = a - n
         /\ a \in -n..-1 => a % n = a + n
  OBVIOUS

-----------------------------------------------------------------------------
(* Sequences *)

\* A sequence is a function.
LEMMA LenProperties ==
  ASSUME NEW S, NEW s \in Seq(S)
  PROVE  Len(s) \in Nat /\ s \in [1..Len(s) -> S]
  OBVIOUS

\* Sequences with the same elements are equal.
LEMMA SeqEqual ==
  ASSUME NEW S, NEW s \in Seq(S), NEW t \in Seq(S),
         Len(s) = Len(t), \A i \in 1..Len(s) : s[i] = t[i]
  PROVE  s = t
  <1>1. s \in [1..Len(s) -> S] /\ t \in [1..Len(s) -> S]
    BY LenProperties, Zenon
  <1>2. QED
    BY <1>1

\* The elements of a sequence from m + 1 to n.
LEMMA SliceIs ==
  ASSUME NEW S, NEW s \in Seq(S), NEW m \in Nat, NEW n \in m..Len(s)
  PROVE  /\ SubSeq(s, m + 1, n) \in Seq(S) /\ Len(SubSeq(s, m + 1, n)) = n - m
         /\ \A i \in 1..n - m : SubSeq(s, m + 1, n)[i] = s[m + i]
  OBVIOUS

-----------------------------------------------------------------------------
(* The ring *)

\* What the buffer holds, and n bytes of it from index a on.
Cells == Bytes \cup {None}
Ring(b, a, n) == [k \in 1..n |-> b[(a + (k - 1)) % PIPESIZE]]
Buffers == [0..PIPESIZE - 1 -> Cells]

\* An index that has wrapped around leads to the same slots.
LEMMA SameSlot ==
  ASSUME NEW a \in Int, NEW b \in Int, NEW i \in Int, b = a \/ b = a - WRAP
  PROVE  (b + i) % PIPESIZE = (a + i) % PIPESIZE
  <1> DEFINE N == PIPESIZE
             m == WRAP \div N
  <1>1. N \in Nat \ {0} /\ WRAP \in Nat \ {0} /\ WRAP % N = 0
    BY PipeAssumption
  <1>2. m \in Int /\ WRAP = N * m
    BY <1>1, ModSplit
  <1> HIDE DEF N, m
  <1> DEFINE z == -m
  <1>3. z \in Int /\ N * z = -WRAP /\ a + i \in Int
    BY <1>1, <1>2
  <1> HIDE DEF z
  <1>4. b + i = a + i \/ b + i = (a + i) + N * z
    BY <1>1, <1>3
  <1>5. ((a + i) + N * z) % N = (a + i) % N
    BY <1>1, <1>3, ModShift, Zenon
  <1>6. QED
    BY <1>4, <1>5, Zenon DEF N

\* The distance from one index to another.
LEMMA Distance ==
  ASSUME NEW a \in 0..WRAP - 1, NEW b \in 0..WRAP - 1
  PROVE  (b - a) % WRAP = IF b >= a THEN b - a ELSE b - a + WRAP
  <1>1. WRAP \in Nat \ {0} /\ b - a \in Int
    BY PipeAssumption
  <1>2. CASE b >= a
    BY <1>1, <1>2, ModOnce
  <1>3. CASE ~(b >= a)
    <2>1. b - a \in -WRAP..-1
      BY <1>1, <1>3
    <2>2. QED
      BY <1>1, <1>3, <2>1, ModOnce, Zenon
  <1>4. QED
    BY <1>2, <1>3, Zenon

\* The index k bytes further on.
LEMMA Ahead ==
  ASSUME NEW a \in 0..WRAP - 1, NEW k \in 0..WRAP
  PROVE  (a + k) % WRAP = IF a + k < WRAP THEN a + k ELSE a + k - WRAP
  <1>1. WRAP \in Nat \ {0} /\ a + k \in 0..2 * WRAP - 1
    BY PipeAssumption
  <1>2. QED
    BY <1>1, ModOnce

\* They are a sequence.
LEMMA RingIsSeq ==
  ASSUME NEW b \in Buffers, NEW a \in Int, NEW n \in Nat
  PROVE  /\ Ring(b, a, n) \in Seq(Cells) /\ Len(Ring(b, a, n)) = n
         /\ \A k \in 1..n : Ring(b, a, n)[k] = b[(a + (k - 1)) % PIPESIZE]
  <1>1. \A k \in 1..n : b[(a + (k - 1)) % PIPESIZE] \in Cells
    <2> TAKE k \in 1..n
    <2>1. a + (k - 1) \in Int /\ PIPESIZE \in Nat \ {0}
      BY PipeAssumption
    <2>2. (a + (k - 1)) % PIPESIZE \in 0..PIPESIZE - 1
      BY <2>1, ModSplit, Zenon
    <2>3. QED
      BY <2>2, Zenon DEF Buffers
  <1>2. QED
    BY <1>1 DEF Ring

\* The first k of them.
LEMMA RingFront ==
  ASSUME NEW b \in Buffers, NEW a \in Int, NEW n \in Nat, NEW k \in 0..n
  PROVE  SubSeq(Ring(b, a, n), 1, k) = Ring(b, a, k)
  <1>1. k \in Nat
    OBVIOUS
  <1>2. /\ Ring(b, a, n) \in Seq(Cells) /\ Len(Ring(b, a, n)) = n
        /\ \A i \in 1..n : Ring(b, a, n)[i] = b[(a + (i - 1)) % PIPESIZE]
    BY RingIsSeq, Zenon
  <1>3. /\ Ring(b, a, k) \in Seq(Cells) /\ Len(Ring(b, a, k)) = k
        /\ \A i \in 1..k : Ring(b, a, k)[i] = b[(a + (i - 1)) % PIPESIZE]
    BY <1>1, RingIsSeq, Zenon
  <1>4. QED
    BY <1>2, <1>3

\* The others.
LEMMA RingRest ==
  ASSUME NEW b \in Buffers, NEW a \in Int, NEW n \in Nat, NEW k \in 0..n
  PROVE  SubSeq(Ring(b, a, n), k + 1, n) = Ring(b, a + k, n - k)
  <1>1. n - k \in Nat /\ a + k \in Int
    OBVIOUS
  <1>2. /\ Ring(b, a, n) \in Seq(Cells) /\ Len(Ring(b, a, n)) = n
        /\ \A i \in 1..n : Ring(b, a, n)[i] = b[(a + (i - 1)) % PIPESIZE]
    BY RingIsSeq
  <1>3. /\ Ring(b, a + k, n - k) \in Seq(Cells) /\ Len(Ring(b, a + k, n - k)) = n - k
        /\ \A i \in 1..n - k :
             Ring(b, a + k, n - k)[i] = b[((a + k) + (i - 1)) % PIPESIZE]
    BY <1>1, RingIsSeq, Zenon
  <1>4. \A i \in 1..n - k : k + i \in 1..n /\ (a + k) + (i - 1) = a + ((k + i) - 1)
    OBVIOUS
  <1>5. \A i \in 1..n - k : Ring(b, a + k, n - k)[i] = Ring(b, a, n)[k + i]
    BY <1>2, <1>3, <1>4, Zenon
  <1>6. /\ SubSeq(Ring(b, a, n), k + 1, n) \in Seq(Cells)
        /\ Len(SubSeq(Ring(b, a, n), k + 1, n)) = n - k
        /\ \A i \in 1..n - k : SubSeq(Ring(b, a, n), k + 1, n)[i] = Ring(b, a, n)[k + i]
    <2>1. k \in Nat /\ n \in k..Len(Ring(b, a, n))
      BY <1>2
    <2>2. QED
      BY <1>2, <2>1, SliceIs, Zenon
  <1>7. QED
    BY <1>3, <1>5, <1>6, SeqEqual, Zenon

\* One more.
LEMMA RingAppend ==
  ASSUME NEW b \in Buffers, NEW a \in Int, NEW n \in Nat, NEW c \in Cells,
         b[(a + n) % PIPESIZE] = c
  PROVE  Append(Ring(b, a, n), c) = Ring(b, a, n + 1)
  <1>1. n + 1 \in Nat /\ (n + 1) - 1 = n
    OBVIOUS
  <1>2. /\ Ring(b, a, n) \in Seq(Cells) /\ Len(Ring(b, a, n)) = n
        /\ \A i \in 1..n : Ring(b, a, n)[i] = b[(a + (i - 1)) % PIPESIZE]
    BY RingIsSeq, Zenon
  <1>3. /\ Ring(b, a, n + 1) \in Seq(Cells) /\ Len(Ring(b, a, n + 1)) = n + 1
        /\ \A i \in 1..n + 1 : Ring(b, a, n + 1)[i] = b[(a + (i - 1)) % PIPESIZE]
    BY <1>1, RingIsSeq, Zenon
  <1>4. Ring(b, a, n + 1)[n + 1] = c
    BY <1>1, <1>3
  <1>5. \A i \in 1..n : Ring(b, a, n + 1)[i] = Ring(b, a, n)[i]
    BY <1>2, <1>3
  <1>6. QED
    BY <1>2, <1>3, <1>4, <1>5

\* Buffers that agree on these bytes.
Agree(b, c, a, n) ==
  \A i \in 0..n - 1 : b[(a + i) % PIPESIZE] = c[(a + i) % PIPESIZE]

\* Bytes outside the ring do not show.
LEMMA RingSame ==
  ASSUME NEW b, NEW c, NEW a \in Int, NEW n \in Nat, Agree(b, c, a, n)
  PROVE  Ring(b, a, n) = Ring(c, a, n)
  <1>1. \A k \in 1..n : k - 1 \in 0..n - 1
    OBVIOUS
  <1>2. \A k \in 1..n : b[(a + (k - 1)) % PIPESIZE] = c[(a + (k - 1)) % PIPESIZE]
    BY <1>1, Zenon DEF Agree
  <1>3. QED
    BY <1>2, Zenon DEF Ring

\* The indices tell how much there is in the buffer.
LEMMA CountIs ==
  ASSUME RingInv
  PROVE  /\ Count = IF nwrite >= nread THEN nwrite - nread ELSE nwrite - nread + WRAP
         /\ Count \in 0..PIPESIZE
         /\ Count = 0 <=> nread = nwrite
         /\ Full <=> Count = PIPESIZE
         /\ nwrite % PIPESIZE = (nread + Count) % PIPESIZE
         /\ QueueView = Ring(data, nread, Count)
  <1>1. /\ nread \in 0..WRAP - 1 /\ nwrite \in 0..WRAP - 1 /\ Count <= PIPESIZE
        /\ PIPESIZE \in Nat \ {0} /\ WRAP \in Nat /\ WRAP > PIPESIZE
    BY PipeAssumption, Zenon DEF RingInv
  <1>2. Count = IF nwrite >= nread THEN nwrite - nread ELSE nwrite - nread + WRAP
    BY <1>1, Distance, Zenon DEF Count
  <1>3. (nread + PIPESIZE) % WRAP =
          IF nread + PIPESIZE < WRAP THEN nread + PIPESIZE ELSE nread + PIPESIZE - WRAP
    <2>1. PIPESIZE \in 0..WRAP
      BY <1>1
    <2>2. QED
      BY <1>1, <2>1, Ahead, Zenon
  <1>4. /\ Count \in 0..PIPESIZE /\ (Count = 0 <=> nread = nwrite)
        /\ Full <=> Count = PIPESIZE
    BY <1>1, <1>2, <1>3 DEF Full
  <1>5. nwrite % PIPESIZE = (nread + Count) % PIPESIZE
    <2>1. /\ nread + Count \in Int /\ nwrite \in Int /\ 0 \in Int
          /\ nwrite = nread + Count \/ nwrite = (nread + Count) - WRAP
      BY <1>1, <1>2
    <2>2. (nwrite + 0) % PIPESIZE = ((nread + Count) + 0) % PIPESIZE
      BY <2>1, SameSlot, Zenon
    <2>3. nwrite + 0 = nwrite /\ (nread + Count) + 0 = nread + Count
      BY <2>1
    <2>4. QED
      BY <2>2, <2>3, Zenon
  <1>6. QueueView = Ring(data, nread, Count)
    <2>1. \A k \in 1..Count : nread + k - 1 = nread + (k - 1)
      BY <1>1, <1>4, Zenon
    <2>2. QED
      BY <2>1, Zenon DEF QueueView, Ring
  <1>7. QED
    BY <1>2, <1>4, <1>5, <1>6, Zenon

\* The same after a step.
CountRight ==
  /\ Count = IF nwrite >= nread THEN nwrite - nread ELSE nwrite - nread + WRAP
  /\ QueueView = Ring(data, nread, Count)
  /\ Count = 0 => nread = nwrite
  /\ nread = nwrite => QueueView = <<>>

\* The same of the next state.
LEMMA CountNext == RingInv' => CountRight'
  <1>1. RingInv => CountRight
    <2> SUFFICES ASSUME RingInv PROVE CountRight
      BY Zenon
    <2>1. nread = nwrite => Count = 0
      BY CountIs, Zenon
    <2>2. Count = 0 => QueueView = <<>>
      BY DEF QueueView
    <2>3. QED
      BY <2>1, <2>2, CountIs, Zenon DEF CountRight
  <1>2. QED
    BY <1>1, PTL

\* A step that leaves indices and bytes alone.
LEMMA QueueStays ==
  ASSUME RingInv, UNCHANGED <<nread, nwrite, data>>
  PROVE  RingInv' /\ QueueView' = QueueView /\ Count' = Count /\ (Full' <=> Full)
  BY Zenon DEF RingInv, QueueView, Count, Full

\* The indices at the start again.
LEMMA QueueCleared ==
  ASSUME nread' = 0, nwrite' = 0, data' \in Buffers
  PROVE  RingInv' /\ QueueView' = <<>>
  <1>1. 0 \in 0..WRAP - 1 /\ (0 - 0) % WRAP = 0 /\ 0 <= PIPESIZE
    BY PipeAssumption, ModOnce
  <1>2. RingInv'
    BY <1>1, Zenon DEF RingInv, Count, Buffers, Cells
  <1>3. QED
    BY <1>2, CountNext, Zenon DEF CountRight

\* pipewrite() puts a byte behind the others.
LEMMA ByteGoesIn ==
  ASSUME RingInv, NEW b \in Bytes, ~Full, data' = [data EXCEPT ![nwrite % PIPESIZE] = b],
         nwrite' = (nwrite + 1) % WRAP, UNCHANGED nread
  PROVE  RingInv' /\ QueueView' = Append(QueueView, b)
  <1> DEFINE N == PIPESIZE
  <1>1. /\ nread \in 0..WRAP - 1 /\ nwrite \in 0..WRAP - 1 /\ data \in Buffers
        /\ N \in Nat \ {0} /\ WRAP \in Nat /\ WRAP > N
    BY PipeAssumption, Zenon DEF RingInv, Buffers, Cells
  <1>2. /\ Count = IF nwrite >= nread THEN nwrite - nread ELSE nwrite - nread + WRAP
        /\ Count \in 0..N /\ Count # N /\ nwrite % N = (nread + Count) % N
        /\ QueueView = Ring(data, nread, Count)
    BY CountIs, Zenon
  <1> HIDE DEF N
  <1>3. nwrite' = IF nwrite + 1 < WRAP THEN nwrite + 1 ELSE nwrite + 1 - WRAP
    <2>1. 1 \in 0..WRAP
      BY <1>1
    <2>2. QED
      BY <1>1, <2>1, Ahead, Zenon
  <1>4. /\ nwrite' \in 0..WRAP - 1 /\ nread' = nread
    BY <1>1, <1>3
  <1>5. Count' = IF nwrite' >= nread THEN nwrite' - nread ELSE nwrite' - nread + WRAP
    BY <1>1, <1>4, Distance, Zenon DEF Count
  <1>6. Count' = Count + 1 /\ Count \in 0..N - 1
    BY <1>1, <1>2, <1>3, <1>5
  <1>7. /\ data' \in Buffers /\ data'[(nread + Count) % N] = b
        /\ \A i \in 0..Count - 1 : data'[(nread + i) % N] = data[(nread + i) % N]
    <2>1. nwrite % N \in 0..N - 1 /\ b \in Cells
      <3>1. nwrite \in Int
        BY <1>1
      <3>2. QED
        BY <1>1, <3>1, ModSplit, Zenon DEF Cells
    <2>2. /\ data' \in Buffers /\ data'[nwrite % N] = b
          /\ \A j \in 0..N - 1 : j # nwrite % N => data'[j] = data[j]
      BY <1>1, <2>1, Zenon DEF Buffers, N
    <2>3. ASSUME NEW i \in 0..Count - 1
          PROVE  data'[(nread + i) % N] = data[(nread + i) % N]
      <3>1. nread \in Int /\ i \in 0..N - 1 /\ i # Count /\ nread + i \in Int
        BY <1>1, <1>6
      <3>2. (nread + i) % N # (nread + Count) % N
        BY <1>1, <1>6, <3>1, ModApart, Zenon
      <3>3. (nread + i) % N \in 0..N - 1
        BY <1>1, <3>1, ModSplit, Zenon
      <3>4. QED
        BY <1>2, <2>2, <3>2, <3>3, Zenon
    <2>4. QED
      BY <1>2, <2>2, <2>3, Zenon
  <1>8. RingInv'
    <2>1. Count' <= N
      BY <1>1, <1>6
    <2>2. QED
      BY <1>1, <1>4, <1>7, <2>1, Zenon DEF RingInv, N, Buffers, Cells
  <1>9. QueueView' = Append(QueueView, b)
    <2>1. QueueView' = Ring(data', nread, Count + 1)
      BY <1>4, <1>6, <1>8, CountNext, Zenon DEF CountRight
    <2>2. nread \in Int /\ Count \in Nat /\ b \in Cells
      BY <1>1, <1>6 DEF Cells
    <2>3. Append(Ring(data', nread, Count), b) = Ring(data', nread, Count + 1)
      BY <1>7, <2>2, RingAppend, Zenon DEF N
    <2>4. Ring(data', nread, Count) = Ring(data, nread, Count)
      <3>1. Agree(data', data, nread, Count)
        BY <1>7, Zenon DEF Agree, N
      <3>2. QED
        BY <2>2, <3>1, RingSame, Zenon
    <2>5. QED
      BY <1>2, <2>1, <2>3, <2>4, Zenon
  <1>10. QED
    BY <1>8, <1>9, Zenon

\* piperead() takes n bytes from the front; the others stay as they were.
LEMMA BytesGoOut ==
  ASSUME RingInv, NEW n \in 0..PIPESIZE, n <= Count, data' = Drop(n),
         nread' = (nread + n) % WRAP, UNCHANGED nwrite
  PROVE  /\ RingInv' /\ QueueView' = SubSeq(QueueView, n + 1, Count)
         /\ Count' = Count - n
         /\ [k \in 1..n |-> ByteAt(k)] = SubSeq(QueueView, 1, n)
  <1> DEFINE N == PIPESIZE
  <1>1. /\ nread \in 0..WRAP - 1 /\ nwrite \in 0..WRAP - 1 /\ data \in Buffers
        /\ N \in Nat \ {0} /\ WRAP \in Nat /\ WRAP > N
    BY PipeAssumption, Zenon DEF RingInv, Buffers, Cells
  <1>2. /\ Count = IF nwrite >= nread THEN nwrite - nread ELSE nwrite - nread + WRAP
        /\ Count \in 0..N /\ QueueView = Ring(data, nread, Count)
    BY CountIs, Zenon
  <1> HIDE DEF N
  <1>3. n \in 0..Count /\ n \in Nat /\ n \in 0..WRAP
    BY <1>1, <1>2
  <1>4. nread' = IF nread + n < WRAP THEN nread + n ELSE nread + n - WRAP
    BY <1>1, <1>3, Ahead, Zenon
  <1>5. nread' \in 0..WRAP - 1 /\ nwrite' = nwrite
    BY <1>1, <1>3, <1>4
  <1>6. Count' = IF nwrite >= nread' THEN nwrite - nread' ELSE nwrite - nread' + WRAP
    BY <1>1, <1>5, Distance, Zenon DEF Count
  <1>7. Count' = Count - n /\ Count' \in Nat /\ Count' <= N
    BY <1>1, <1>2, <1>3, <1>4, <1>6
  <1>8. \A i \in Int : (nread' + i) % N = ((nread + n) + i) % N
    <2>1. nread + n \in Int /\ nread' \in Int /\ (nread' = nread + n \/ nread' = (nread + n) - WRAP)
      BY <1>1, <1>3, <1>4, <1>5
    <2>2. QED
      BY <2>1, SameSlot, Zenon DEF N
  <1>9. /\ data' \in Buffers
        /\ \A i \in 0..Count' - 1 : data'[((nread + n) + i) % N] = data[((nread + n) + i) % N]
    <2>1. DOMAIN data = 0..N - 1
      BY <1>1, Zenon DEF Buffers, N
    <2>2. data' \in Buffers
      BY <1>1, <2>1, Zenon DEF Drop, Buffers, Cells
    <2>3. ASSUME NEW i \in 0..Count' - 1
          PROVE  data'[((nread + n) + i) % N] = data[((nread + n) + i) % N]
      <3>1. /\ nread \in Int /\ n + i \in 0..N - 1 /\ (nread + n) + i = nread + (n + i)
            /\ nread + (n + i) \in Int
        BY <1>1, <1>2, <1>3, <1>7
      <3>2. ASSUME NEW j \in 0..n - 1 PROVE (nread + (n + i)) % N # (nread + j) % N
        <4>1. j \in 0..N - 1 /\ j # n + i
          BY <1>1, <1>2, <1>3
        <4>2. QED
          BY <1>1, <3>1, <4>1, ModApart, Zenon
      <3>3. (nread + (n + i)) % N \in 0..N - 1
        BY <1>1, <3>1, ModSplit, Zenon
      <3>4. QED
        BY <2>1, <3>1, <3>2, <3>3, Zenon DEF Drop, N
    <2>4. QED
      BY <2>2, <2>3, Zenon
  <1>10. RingInv'
    BY <1>1, <1>5, <1>7, <1>9, Zenon DEF RingInv, N, Buffers, Cells
  <1>11. QueueView' = SubSeq(QueueView, n + 1, Count)
    <2>1. QueueView' = Ring(data', nread', Count')
      BY <1>10, CountNext, Zenon DEF CountRight
    <2>2. Ring(data', nread', Count') = Ring(data', nread + n, Count')
      <3>1. \A k \in 1..Count' : (nread' + (k - 1)) % N = ((nread + n) + (k - 1)) % N
        <4>1. \A k \in 1..Count' : k - 1 \in Int
          BY <1>7
        <4>2. QED
          BY <1>8, <4>1, Zenon
      <3>2. QED
        BY <3>1, Zenon DEF Ring, N
    <2>3. nread \in Int /\ nread + n \in Int /\ Count \in Nat
      BY <1>1, <1>2, <1>3
    <2>4. Ring(data', nread + n, Count') = Ring(data, nread + n, Count')
      <3>1. Agree(data', data, nread + n, Count')
        BY <1>9, Zenon DEF Agree, N
      <3>2. QED
        BY <1>7, <2>3, <3>1, RingSame
    <2>5. Ring(data, nread + n, Count - n) = SubSeq(Ring(data, nread, Count), n + 1, Count)
      BY <1>1, <1>3, <2>3, RingRest, Zenon
    <2>6. QED
      BY <1>2, <1>7, <2>1, <2>2, <2>4, <2>5, Zenon
  <1>12. [k \in 1..n |-> ByteAt(k)] = SubSeq(QueueView, 1, n)
    <2>1. \A k \in 1..n : nread + k - 1 = nread + (k - 1)
      BY <1>1, <1>3, Zenon
    <2>2. [k \in 1..n |-> ByteAt(k)] = Ring(data, nread, n)
      BY <2>1, Zenon DEF ByteAt, Ring
    <2>3. nread \in Int /\ Count \in Nat
      BY <1>1, <1>2
    <2>4. SubSeq(Ring(data, nread, Count), 1, n) = Ring(data, nread, n)
      BY <1>1, <1>3, <2>3, RingFront, Zenon
    <2>5. QED
      BY <1>2, <2>2, <2>4, Zenon
  <1>13. QED
    BY <1>7, <1>10, <1>11, <1>12, Zenon

-----------------------------------------------------------------------------
(* The lock and the sleepers *)

\* Labels at which a process neither sleeps nor holds pi->lock.
Calm == {"user", "unused", "pipe", "close", "pipeclose", "read", "write"}

\* At first all are calm.
LEMMA LockInitially == Init => LockInv
  <1> SUFFICES ASSUME Init PROVE LockInv
    BY Zenon
  <1>1. lock = None /\ \A p \in Procs : pc[p] \in {"user", "unused"}
    BY Zenon DEF Init
  <1>2. None \notin Procs
    BY PipeAssumption, Zenon
  <1>3. QED
    BY <1>1, <1>2, Zenon DEF LockInv, Stand

\* A step that leaves the pipe alone and moves nobody who has the lock.
LEMMA CalmKeeps ==
  ASSUME LockInv, UNCHANGED <<nread, nwrite, open, lock, silent>>,
         \A q \in Procs : pc'[q] # pc[q] =>
           pc[q] \notin {"writing", "full", "empty"} /\ pc'[q] \in Calm
  PROVE  LockInv'
  <1>1. ASSUME NEW q \in Procs PROVE Stand(q)'
    <2>1. Stand(q)
      BY Zenon DEF LockInv
    <2>2. (Full' <=> Full) /\ ((\E r \in Procs : pc[r] \in Atwork) => \E r \in Procs : pc'[r] \in Atwork)
      BY Zenon DEF Full, Atwork
    <2>3. CASE pc'[q] = pc[q]
      BY <2>1, <2>2, <2>3, Zenon DEF Stand
    <2>4. CASE pc'[q] # pc[q]
      BY <2>1, <2>4, Zenon DEF Stand, Calm
    <2>5. QED
      BY <2>3, <2>4, Zenon
  <1>2. QED
    BY <1>1, Zenon DEF LockInv

\* The steps on files and descriptors, kill(), and the way into and out of calls.
LEMMA CalmSteps ==
  ASSUME LockInv, FileInv, NEW p \in Procs,
         \/ FileStep(p) \/ kill(p) \/ (\E n \in 1..MaxN : sys_write(p, n))
         \/ sys_read(p) \/ piperead_killed(p)
  PROVE  LockInv'
  <1> DEFINE Moves == /\ UNCHANGED <<nread, nwrite, open, lock, silent>>
                      /\ \A q \in Procs : pc'[q] # pc[q] =>
                           pc[q] \notin {"writing", "full", "empty"} /\ pc'[q] \in Calm
  <1>1. pc \in [Procs -> Labels]
    BY Zenon DEF FileInv, Types
  <1>2. ASSUME NEW r \in Procs, NEW l \in Calm, Goto(r, l), UNCHANGED pipe,
               pc[r] \notin {"writing", "full", "empty"}
        PROVE  Moves
    BY <1>1, <1>2, Zenon DEF Goto, pipe
  <1>3. ASSUME UNCHANGED <<pipe, pc>> PROVE Moves
    BY <1>3, Zenon DEF pipe
  <1> HIDE DEF Moves
  <1>4. {"user", "unused", "pipe", "close", "pipeclose", "read", "write"} \subseteq Calm
    BY Zenon DEF Calm
  <1>5. ASSUME sys_pipe(p) \/ pipealloc_bad(p) \/ kexit(p) PROVE Moves
    <2>1. UNCHANGED pipe /\ pc[p] \in {"user", "pipe"} /\ (Goto(p, "pipe") \/ Goto(p, "close"))
      BY <1>5, Zenon DEF sys_pipe, pipealloc_bad, kexit, Calls
    <2>2. pc[p] \notin {"writing", "full", "empty"}
      BY <2>1, Zenon
    <2>3. QED
      BY <1>2, <1>4, <2>1, <2>2, Zenon
  <1>6. ASSUME closed(p) PROVE Moves
    <2>1. UNCHANGED pipe /\ pc[p] = "close" /\ (Goto(p, "unused") \/ Goto(p, "user"))
      BY <1>6, Zenon DEF closed
    <2>2. pc[p] \notin {"writing", "full", "empty"}
      BY <2>1, Zenon
    <2>3. QED
      BY <1>2, <1>4, <2>1, <2>2, Zenon
  <1>7. ASSUME fileclose(p) PROVE Moves
    <2>1. UNCHANGED pipe /\ pc[p] = "close" /\ (Goto(p, "pipeclose") \/ UNCHANGED pc)
      BY <1>7, Zenon DEF fileclose
    <2>2. pc[p] \notin {"writing", "full", "empty"}
      BY <2>1, Zenon
    <2>3. QED
      BY <1>2, <1>3, <1>4, <2>1, <2>2, Zenon
  <1>8. ASSUME NEW d \in FDs, sys_dup(p, d) \/ sys_close(p, d) \/ kexit_close(p, d) PROVE Moves
    <2>1. UNCHANGED pipe /\ pc[p] \in {"user", "close"} /\ (Goto(p, "close") \/ UNCHANGED pc)
      BY <1>8, Zenon DEF sys_dup, proc, sys_close, kexit_close, close_fd, Calls
    <2>2. pc[p] \notin {"writing", "full", "empty"}
      BY <2>1, Zenon
    <2>3. QED
      BY <1>2, <1>3, <1>4, <2>1, <2>2, Zenon
  <1>9. ASSUME NEW q \in Procs, kfork(p, q) PROVE Moves
    <2>1. UNCHANGED pipe /\ pc[q] = "unused" /\ Goto(q, "user")
      BY <1>9, Zenon DEF kfork
    <2>2. pc[q] \notin {"writing", "full", "empty"}
      BY <2>1, Zenon
    <2>3. QED
      BY <1>2, <1>4, <2>1, <2>2, Zenon
  <1>10. ASSUME \/ (\E n \in 1..MaxN : sys_write(p, n)) \/ sys_read(p) \/ piperead_killed(p)
         PROVE  Moves
    <2>1. /\ UNCHANGED pipe /\ pc[p] \in {"user", "read"}
          /\ Goto(p, "write") \/ Goto(p, "read") \/ Goto(p, "user")
      BY <1>10, Zenon DEF sys_write, sys_read, piperead_killed, Calls
    <2>2. pc[p] \notin {"writing", "full", "empty"}
      BY <2>1, Zenon
    <2>3. QED
      BY <1>2, <1>4, <2>1, <2>2, Zenon
  <1>11. ASSUME kill(p) PROVE Moves
    <2>1. UNCHANGED pipe /\ \/ UNCHANGED pc
                            \/ pc[p] = "rsleep" /\ Goto(p, "read")
                            \/ pc[p] = "wsleep" /\ Goto(p, "write")
      BY <1>1, <1>11, Zenon DEF kill, Goto
    <2>2. pc[p] \in {"rsleep", "wsleep"} => pc[p] \notin {"writing", "full", "empty"}
      BY Zenon
    <2>3. QED
      BY <1>2, <1>3, <1>4, <2>1, <2>2, Zenon
  <1>12. Moves
    BY <1>5, <1>6, <1>7, <1>8, <1>9, <1>10, <1>11, Zenon DEF FileStep
  <1>13. QED
    BY <1>12, CalmKeeps, Zenon DEF Moves

\* Nobody but the holder of the lock stands where the code holds it.
Locked == {"writing", "full", "empty"}

\* pi->lock excludes: where one stands that holds it, no other does.
LEMMA OneAtWork ==
  ASSUME LockInv, NEW p \in Procs
  PROVE  /\ pc[p] \in Locked => lock = p /\ \A q \in Procs : q # p => pc[q] \notin Locked
         /\ lock = None => \A q \in Procs : pc[q] \notin Locked
  <1>1. \A q \in Procs : pc[q] \in Locked <=> lock = q
    BY Zenon DEF LockInv, Stand, Locked
  <1>2. None \notin Procs
    BY PipeAssumption, Zenon
  <1>3. QED
    BY <1>1, <1>2, Zenon

\* Readers and writers have their end open.
LEMMA UsersOpen ==
  ASSUME FileInv, NEW p \in Procs
  PROVE  /\ p \in Reading => "r" \in open
         /\ p \in Writing => "w" \in open
  <1>1. \A e \in {"r", "w"} : Holds(p, e) => e \in open
    <2>1. \A d \in FDs : ofile[p][d] # None => ofile[p][d] \in Files
      BY DEF FileInv, Types
    <2>2. QED
      BY <2>1, Zenon DEF FileInv, OneHolder, Holds, Ends
  <1>2. QED
    BY <1>1, Zenon DEF FileInv, UsersHold

\* pipewrite() takes the lock or goes from one test to the next.
LEMMA WriterLooks ==
  ASSUME LockInv, FileInv, NEW p \in Procs, pipewrite_lock(p) \/ pipewrite_sees_full(p)
  PROVE  LockInv'
  <1>1. pc \in [Procs -> Labels] /\ None \notin Procs
    BY PipeAssumption, Zenon DEF FileInv, Types
  <1>2. UNCHANGED <<nread, nwrite, open, silent>>
    BY Zenon DEF pipewrite_lock, pipewrite_sees_full, pipe
  <1>3. /\ pc'[p] \in Atwork /\ lock' = p /\ \A q \in Procs : q # p => pc'[q] = pc[q]
        /\ pc'[p] = "full" => Full /\ "r" \in open
        /\ \A q \in Procs : q # p => pc[q] \notin Locked
    <2>1. CASE pipewrite_lock(p)
      <3>1. pc'[p] = "writing" /\ lock' = p /\ \A q \in Procs : q # p => pc'[q] = pc[q]
        BY <1>1, <2>1, Zenon DEF pipewrite_lock, Goto
      <3>2. \A q \in Procs : pc[q] \notin Locked
        BY <2>1, OneAtWork, Zenon DEF pipewrite_lock
      <3>3. QED
        BY <3>1, <3>2, Zenon DEF Atwork
    <2>2. CASE pipewrite_sees_full(p)
      <3>1. /\ pc'[p] = "full" /\ lock' = lock /\ (\A q \in Procs : q # p => pc'[q] = pc[q])
            /\ Full /\ "r" \in open /\ pc[p] \in Locked
        BY <1>1, <2>2, Zenon DEF pipewrite_sees_full, Goto, pipe, Locked
      <3>2. QED
        BY <3>1, OneAtWork, Zenon DEF Atwork
    <2>3. QED
      BY <2>1, <2>2, Zenon
  <1>4. Full' <=> Full
    BY <1>2, Zenon DEF Full
  <1>5. \E q \in Procs : pc'[q] \in Atwork
    BY <1>3, Zenon
  <1>6. Stand(p)'
    BY <1>2, <1>3, <1>4, Zenon DEF Stand, Atwork
  <1>7. ASSUME NEW q \in Procs, q # p PROVE Stand(q)'
    <2>1. Stand(q) /\ pc'[q] = pc[q] /\ pc[q] \notin Locked /\ lock' # q
      BY <1>3, <1>7, Zenon DEF LockInv
    <2>2. QED
      BY <1>2, <1>4, <1>5, <2>1, Zenon DEF Stand, Locked
  <1>8. QED
    BY <1>3, <1>6, <1>7, Zenon DEF LockInv

\* pipewrite() leaves or goes to sleep; it has woken the readers, or it has failed.
LEMMA WriterLeaves ==
  ASSUME LockInv, FileInv, RingInv, NEW p \in Procs,
         pipewrite_fails(p) \/ pipewrite_sleep(p) \/ pipewrite_done(p)
  PROVE  LockInv'
  <1>1. pc \in [Procs -> Labels] /\ None \notin Procs
    BY PipeAssumption, Zenon DEF FileInv, Types
  <1>2. UNCHANGED <<nread, nwrite, open>> /\ lock' = None /\ pc[p] \in Atwork
    BY Zenon DEF pipewrite_fails, pipewrite_sleep, pipewrite_done, write_return, Atwork
  <1>3. (Full' <=> Full) /\ \A q \in Procs : q # p => pc[q] \notin Locked
    <2>1. pc[p] \in Locked
      BY <1>2, Zenon DEF Atwork, Locked
    <2>2. QED
      BY <1>2, <2>1, OneAtWork, Zenon DEF Full
  <1>4. Stand(p) /\ \A q \in Procs : Stand(q)
    BY Zenon DEF LockInv
  <1>5. ASSUME pipewrite_sleep(p) \/ pipewrite_done(p) PROVE LockInv'
    <2>1. /\ pc'[p] = "user" \/ (pc'[p] = "wsleep" /\ pc[p] = "full")
          /\ \A q \in Procs : q # p => pc'[q] = IF pc[q] = "rsleep" THEN "read" ELSE pc[q]
      BY <1>1, <1>5, Zenon DEF pipewrite_sleep, pipewrite_done, write_return, WakeReaders
    <2>2. Stand(p)'
      BY <1>1, <1>2, <1>3, <1>4, <2>1, Zenon DEF Stand
    <2>3. ASSUME NEW q \in Procs, q # p PROVE Stand(q)'
      <3>1. /\ pc'[q] = IF pc[q] = "rsleep" THEN "read" ELSE pc[q]
            /\ Stand(q) /\ pc[q] \notin Locked /\ lock' # q
        BY <1>1, <1>2, <1>3, <1>4, <2>1, <2>3, Zenon
      <3>2. QED
        BY <1>2, <1>3, <3>1, Zenon DEF Stand, Locked
    <2>4. QED
      BY <1>2, <2>2, <2>3, Zenon DEF LockInv
  <1>6. ASSUME pipewrite_fails(p) PROVE LockInv'
    <2>1. pc'[p] = "user" /\ \A q \in Procs : q # p => pc'[q] = pc[q]
      BY <1>1, <1>6, Zenon DEF pipewrite_fails, write_return
    <2>2. silent' = (silent \/ ("r" \in open /\ Count > 0))
      BY <1>6, Zenon DEF pipewrite_fails
    <2>3. Count > 0 <=> nread # nwrite
      <3>1. Count \in 0..PIPESIZE /\ (Count = 0 <=> nread = nwrite) /\ PIPESIZE \in Nat
        BY CountIs, PipeAssumption, Zenon
      <3>2. QED
        BY <3>1
    <2>4. Stand(p)'
      BY <1>1, <1>2, <2>1, Zenon DEF Stand
    <2>5. ASSUME NEW q \in Procs, q # p PROVE Stand(q)'
      <3>1. Stand(q) /\ pc'[q] = pc[q] /\ pc[q] \notin Locked /\ lock' # q
        BY <1>1, <1>2, <1>3, <1>4, <2>1, <2>5, Zenon
      <3>2. pc[q] = "rsleep" => nread' = nwrite' \/ silent'
        <4>1. pc[q] = "rsleep" => "r" \in open
          BY UsersOpen, Zenon DEF Reading
        <4>2. QED
          BY <1>2, <2>2, <2>3, <4>1, Zenon
      <3>3. QED
        BY <1>2, <1>3, <3>1, <3>2, Zenon DEF Stand, Locked
    <2>6. QED
      BY <1>2, <2>4, <2>5, Zenon DEF LockInv
  <1>7. QED
    BY <1>5, <1>6, Zenon

\* pipewrite() stores a byte: no writer sleeps at a pipe that has room, and the readers
\* that sleep are still to be woken.
LEMMA WriterStores ==
  ASSUME LockInv, NEW p \in Procs, NEW b \in Bytes, pipewrite_byte(p, b)
  PROVE  LockInv'
  <1>1. UNCHANGED <<pc, lock, open>> /\ ~Full /\ pc[p] = "writing"
    BY Zenon DEF pipewrite_byte
  <1>2. pc[p] \in Atwork /\ pc[p] \in Locked
    BY <1>1, Zenon DEF Atwork, Locked
  <1>3. \A q \in Procs : q # p => pc[q] \notin Locked
    BY <1>2, OneAtWork, Zenon
  <1>4. ASSUME NEW q \in Procs PROVE Stand(q)'
    <2>1. Stand(q) /\ (q # p => pc[q] \notin Locked)
      BY <1>3, Zenon DEF LockInv
    <2>2. pc[q] \notin {"full", "wsleep", "empty"}
      BY <1>1, <2>1, Zenon DEF Stand, Locked
    <2>3. \E r \in Procs : pc'[r] \in Atwork
      BY <1>1, <1>2, Zenon
    <2>4. QED
      BY <1>1, <2>1, <2>2, <2>3, Zenon DEF Stand
  <1>5. QED
    BY <1>1, <1>4, Zenon DEF LockInv

\* piperead() finds the pipe empty, and goes to sleep.
LEMMA ReaderWaits ==
  ASSUME LockInv, FileInv, NEW p \in Procs, piperead_empty(p) \/ piperead_sleep(p)
  PROVE  LockInv'
  <1>1. pc \in [Procs -> Labels] /\ None \notin Procs
    BY PipeAssumption, Zenon DEF FileInv, Types
  <1>2. UNCHANGED <<nread, nwrite, open, silent>>
    BY Zenon DEF piperead_empty, piperead_sleep
  <1>3. \A q \in Procs : Stand(q)
    BY Zenon DEF LockInv
  <1>4. /\ \A q \in Procs : q # p => pc'[q] = pc[q] /\ pc[q] \notin Locked /\ lock' # q
        /\ nread = nwrite /\ "w" \in open /\ pc[p] \notin Atwork /\ lock' \in Procs \cup {None}
        /\ (pc'[p] = "empty" /\ lock' = p) \/ (pc'[p] = "rsleep" /\ lock' # p)
    <2>1. CASE piperead_empty(p)
      <3>1. /\ pc[p] = "read" /\ pc'[p] = "empty" /\ lock' = p /\ lock = None
            /\ nread = nwrite /\ "w" \in open /\ \A q \in Procs : q # p => pc'[q] = pc[q]
        BY <1>1, <2>1, Zenon DEF piperead_empty, Goto
      <3>2. \A q \in Procs : pc[q] \notin Locked
        BY <3>1, OneAtWork, Zenon
      <3>3. QED
        BY <3>1, <3>2, Zenon DEF Atwork
    <2>2. CASE piperead_sleep(p)
      <3>1. /\ pc[p] = "empty" /\ pc'[p] = "rsleep" /\ lock' = None
            /\ \A q \in Procs : q # p => pc'[q] = pc[q]
        BY <1>1, <2>2, Zenon DEF piperead_sleep, Goto
      <3>2. pc[p] \in Locked /\ nread = nwrite /\ "w" \in open
        BY <1>3, <3>1, Zenon DEF Stand, Locked
      <3>3. \A q \in Procs : q # p => pc[q] \notin Locked
        BY <3>2, OneAtWork, Zenon
      <3>4. QED
        BY <1>1, <3>1, <3>2, <3>3, Zenon DEF Atwork
    <2>3. QED
      BY <2>1, <2>2, Zenon
  <1>5. Full' <=> Full
    BY <1>2, Zenon DEF Full
  <1>6. Stand(p)'
    BY <1>2, <1>4, Zenon DEF Stand
  <1>7. ASSUME NEW q \in Procs, q # p PROVE Stand(q)'
    <2>1. Stand(q) /\ pc'[q] = pc[q] /\ pc[q] \notin Locked /\ lock' # q
      BY <1>3, <1>4, <1>7, Zenon
    <2>2. QED
      BY <1>2, <1>4, <1>5, <2>1, Zenon DEF Stand, Locked
  <1>8. QED
    BY <1>4, <1>6, <1>7, Zenon DEF LockInv

\* piperead() takes bytes and wakes the writers.  A reader that sleeps either sleeps at
\* an empty pipe, or at the bytes of a killed writer; all of them or some are gone now.
LEMMA ReaderTakes ==
  ASSUME LockInv, FileInv, RingInv, NEW p \in Procs, NEW n \in 0..PIPESIZE, piperead(p, n)
  PROVE  LockInv'
  <1>1. pc \in [Procs -> Labels] /\ None \notin Procs
    BY PipeAssumption, Zenon DEF FileInv, Types
  <1>2. /\ UNCHANGED <<nwrite, open, lock>> /\ lock = None /\ pc[p] = "read" /\ n <= Count
        /\ data' = Drop(n) /\ nread' = (nread + n) % WRAP
        /\ pc' = [WakeWriters(pc) EXCEPT ![p] = "user"]
    BY Zenon DEF piperead
  <1>3. silent' = (silent /\ n < Count)
    BY Zenon DEF piperead
  <1>4. /\ pc'[p] = "user"
        /\ \A q \in Procs : q # p => pc'[q] = IF pc[q] = "wsleep" THEN "write" ELSE pc[q]
    BY <1>1, <1>2, Zenon DEF WakeWriters
  <1>5. \A q \in Procs : Stand(q) /\ pc[q] \notin Locked
    BY <1>2, OneAtWork, Zenon DEF LockInv
  <1>6. RingInv' /\ Count' = Count - n
    BY <1>2, BytesGoOut, Zenon
  <1>7. nread = nwrite \/ silent => nread' = nwrite' \/ silent'
    <2>1. Count \in 0..PIPESIZE /\ PIPESIZE \in Nat /\ (Count = 0 <=> nread = nwrite)
      BY CountIs, PipeAssumption, Zenon
    <2>2. Count' = 0 => nread' = nwrite'
      BY <1>6, CountNext, Zenon DEF CountRight
    <2>3. nread = nwrite => Count' = 0
      BY <1>2, <1>6, <2>1
    <2>4. n < Count \/ Count' = 0
      BY <1>2, <1>6, <2>1
    <2>5. QED
      BY <1>3, <2>2, <2>3, <2>4, Zenon
  <1>8. ASSUME NEW q \in Procs PROVE Stand(q)'
    <2>1. CASE q = p
      BY <1>1, <1>2, <1>4, <2>1, Zenon DEF Stand
    <2>2. CASE q # p
      <3>1. /\ pc'[q] = IF pc[q] = "wsleep" THEN "write" ELSE pc[q]
            /\ Stand(q) /\ pc[q] \notin Locked /\ lock' # q
        BY <1>1, <1>2, <1>4, <1>5, <2>2, Zenon
      <3>2. ~\E r \in Procs : pc[r] \in Atwork
        BY <1>5, Zenon DEF Locked, Atwork
      <3>3. pc[q] = "rsleep" => "w" \in open' /\ (nread' = nwrite' \/ silent')
        BY <1>2, <1>7, <3>1, <3>2, Zenon DEF Stand
      <3>4. pc'[q] \notin Locked \cup {"wsleep"} /\ (pc'[q] = "rsleep" => pc[q] = "rsleep")
        BY <3>1, Zenon DEF Locked
      <3>5. QED
        BY <3>1, <3>3, <3>4, Zenon DEF Stand, Locked
    <2>3. QED
      BY <2>1, <2>2, Zenon
  <1>9. QED
    BY <1>2, <1>8, Zenon DEF LockInv

\* pipealloc() makes a pipe while nobody uses one.
LEMMA PipeallocKeepsLock ==
  ASSUME LockInv, FileInv, NEW p \in Procs, pipealloc(p)
  PROVE  LockInv'
  <1>1. pc \in [Procs -> Labels]
    BY Zenon DEF FileInv, Types
  <1>2. UNCHANGED lock /\ pc[p] = "pipe" /\ \E l \in {"user", "close"} : Goto(p, l)
    BY Zenon DEF pipealloc
  <1>3. open = {}
    BY Zenon DEF pipealloc, FileInv, OneHolder
  <1>4. \A q \in Procs : q \notin Reading /\ q \notin Writing
    BY <1>3, UsersOpen, Zenon
  <1>5. /\ pc'[p] \in {"user", "close"} /\ \A q \in Procs : q # p => pc'[q] = pc[q]
    BY <1>1, <1>2, Zenon DEF Goto
  <1>6. ASSUME NEW q \in Procs PROVE Stand(q)'
    <2>1. pc[q] \notin {"read", "empty", "rsleep", "write", "writing", "full", "wsleep"}
      BY <1>4, Zenon DEF Reading, Writing
    <2>2. lock # q
      BY <2>1, Zenon DEF LockInv, Stand
    <2>3. pc'[q] \notin {"read", "empty", "rsleep", "write", "writing", "full", "wsleep"}
      BY <1>5, <2>1, Zenon
    <2>4. QED
      BY <1>2, <2>2, <2>3, Zenon DEF Stand
  <1>7. QED
    BY <1>2, <1>6, Zenon DEF LockInv

\* pipeclose() wakes those who wait for the end it closes.
LEMMA PipecloseKeepsLock ==
  ASSUME LockInv, FileInv, NEW p \in Procs, pipeclose(p)
  PROVE  LockInv'
  <1> DEFINE e == ending[p]
  <1>1. pc \in [Procs -> Labels] /\ None \notin Procs
    BY PipeAssumption, Zenon DEF FileInv, Types
  <1>2. /\ UNCHANGED lock /\ lock = None /\ pc[p] = "pipeclose" /\ open' = open \ {e}
        /\ pc' = [WakeOther(e, pc) EXCEPT ![p] = "close"]
    BY Zenon DEF pipeclose
  <1>3. e \in {"r", "w"}
    <2>1. e # None /\ e \in Ends \cup {None}
      BY <1>2, Zenon DEF FileInv, Types, CallsInv, CallInv
    <2>2. QED
      BY <2>1, Zenon DEF Ends
  <1>4. open' # {} => UNCHANGED <<nread, nwrite>>
    BY Zenon DEF pipeclose
  <1>5. e = "r" /\ silent => silent'
    <2>1. silent' = IF e = "w" THEN FALSE ELSE silent
      BY Zenon DEF pipeclose
    <2>2. "r" # "w"
      BY Zenon
    <2>3. QED
      BY <2>1, <2>2, Zenon
  <1>6. pc'[p] = "close"
    BY <1>1, <1>2, Zenon DEF WakeOther, WakeReaders, WakeWriters
  <1>7. \A q \in Procs : q # p =>
          /\ e = "w" => pc'[q] = IF pc[q] = "rsleep" THEN "read" ELSE pc[q]
          /\ e = "r" => pc'[q] = IF pc[q] = "wsleep" THEN "write" ELSE pc[q]
    BY <1>1, <1>2, Zenon DEF WakeOther, WakeReaders, WakeWriters
  <1>8. \A q \in Procs : Stand(q) /\ pc[q] \notin Locked
    BY <1>2, OneAtWork, Zenon DEF LockInv
  <1> HIDE DEF e
  <1>9. ~\E r \in Procs : pc[r] \in Atwork
    BY <1>8, Zenon DEF Locked, Atwork
  <1>10. ASSUME NEW q \in Procs, q # p PROVE Stand(q)'
    <2>1. Stand(q) /\ pc[q] \notin Locked /\ lock' # q
      BY <1>1, <1>2, <1>8, Zenon
    <2>2. CASE e = "r"
      <3>1. pc'[q] = IF pc[q] = "wsleep" THEN "write" ELSE pc[q]
        BY <1>7, <1>10, <2>2, Zenon
      <3>2. pc'[q] \notin Locked \cup {"wsleep"} /\ (pc'[q] = "rsleep" => pc[q] = "rsleep")
        BY <2>1, <3>1, Zenon DEF Locked
      <3>3. pc[q] = "rsleep" => /\ "w" \in open' /\ UNCHANGED <<nread, nwrite>>
                                /\ nread = nwrite \/ silent
        <4>1. "w" # "r"
          BY Zenon
        <4>2. pc[q] = "rsleep" => "w" \in open /\ (nread = nwrite \/ silent)
          BY <1>9, <2>1, Zenon DEF Stand
        <4>3. "w" \in open => "w" \in open'
          BY <1>2, <2>2, <4>1, Zenon
        <4>4. QED
          BY <1>4, <4>2, <4>3, Zenon
      <3>4. pc'[q] = "rsleep" => "w" \in open' /\ (nread' = nwrite' \/ silent')
        BY <1>5, <2>2, <3>2, <3>3, Zenon
      <3>5. QED
        BY <2>1, <3>2, <3>4, Zenon DEF Stand, Locked
    <2>3. CASE e = "w"
      <3>1. pc'[q] = IF pc[q] = "rsleep" THEN "read" ELSE pc[q]
        BY <1>7, <1>10, <2>3, Zenon
      <3>2. pc'[q] \notin Locked \cup {"rsleep"} /\ (pc'[q] = "wsleep" => pc[q] = "wsleep")
        BY <2>1, <3>1, Zenon DEF Locked
      <3>3. pc[q] = "wsleep" => Full' /\ "r" \in open'
        <4>1. "w" # "r"
          OBVIOUS
        <4>2. pc[q] = "wsleep" => Full /\ "r" \in open
          BY <2>1, Zenon DEF Stand
        <4>3. "r" \in open => "r" \in open'
          BY <1>2, <2>3, <4>1, Zenon
        <4>4. "r" \in open' => (Full' <=> Full)
          BY <1>4, Zenon DEF Full
        <4>5. QED
          BY <4>2, <4>3, <4>4, Zenon
      <3>4. QED
        BY <2>1, <3>2, <3>3, Zenon DEF Stand, Locked
    <2>4. QED
      BY <1>3, <2>2, <2>3, Zenon
  <1>11. Stand(p)'
    BY <1>1, <1>2, <1>6, Zenon DEF Stand
  <1>12. QED
    BY <1>2, <1>10, <1>11, Zenon DEF LockInv

-----------------------------------------------------------------------------
(* The pipe as a whole *)

PipeInv == FileInv /\ RingInv /\ LockInv

\* A step that leaves the bytes and the ends alone.
Silent(p) ==
  \/ FileStep(p) \/ kill(p) \/ (\E n \in 1..MaxN : sys_write(p, n))
  \/ pipewrite_lock(p) \/ pipewrite_fails(p) \/ pipewrite_sees_full(p)
  \/ pipewrite_sleep(p) \/ pipewrite_done(p)
  \/ sys_read(p) \/ piperead_empty(p) \/ piperead_sleep(p) \/ piperead_killed(p)

\* The steps that touch no byte and no end of the pipe.
LEMMA SilentIs ==
  ASSUME NEW p \in Procs, Silent(p)
  PROVE  UNCHANGED <<nread, nwrite, data, open>>
  <1>1. CASE FileStep(p)
    BY <1>1, Zenon DEF FileStep, pipe, sys_pipe, pipealloc_bad, sys_dup, sys_close, close_fd,
       kexit_close, kfork, kexit, fileclose, closed
  <1>2. CASE ~FileStep(p)
    BY <1>2, Zenon DEF Silent, pipe, kill, sys_write, pipewrite_lock, pipewrite_fails,
       pipewrite_sees_full, pipewrite_sleep, pipewrite_done, sys_read, piperead_empty,
       piperead_sleep, piperead_killed
  <1>3. QED
    BY <1>1, <1>2, Zenon

\* What pipealloc() and pipeclose() make of the buffer.
LEMMA AllocClears ==
  ASSUME RingInv, NEW p \in Procs, pipealloc(p)
  PROVE  RingInv' /\ QueueView' = <<>>
  <1>1. nread' = 0 /\ nwrite' = 0 /\ data' = data /\ data \in Buffers
    BY Zenon DEF pipealloc, RingInv, Buffers, Cells
  <1>2. QED
    BY <1>1, QueueCleared, Zenon

\* The last pipeclose() frees the page, and with it what was not read.
LEMMA CloseClears ==
  ASSUME RingInv, NEW p \in Procs, pipeclose(p)
  PROVE  RingInv' /\ QueueView' = IF open' = {} THEN <<>> ELSE QueueView
  <1>1. CASE open' # {}
    <2>1. UNCHANGED <<nread, nwrite, data>>
      BY <1>1, Zenon DEF pipeclose
    <2>2. QED
      BY <1>1, <2>1, QueueStays, Zenon
  <1>2. CASE open' = {}
    <2>1. nread' = 0 /\ nwrite' = 0 /\ data' = [k \in 0..PIPESIZE - 1 |-> None]
      BY <1>2, Zenon DEF pipeclose, Junk
    <2>2. data' \in Buffers
      BY <2>1, Zenon DEF Buffers, Cells
    <2>3. QED
      BY <1>2, <2>1, <2>2, QueueCleared, Zenon
  <1>3. QED
    BY <1>1, <1>2, Zenon

\* At first the buffer is empty.
LEMMA RingInitially == Init => RingInv /\ QueueView = <<>>
  <1> SUFFICES ASSUME Init PROVE RingInv /\ QueueView = <<>>
    BY Zenon
  <1>1. nread = 0 /\ nwrite = 0 /\ data = [k \in 0..PIPESIZE - 1 |-> None]
    BY Zenon DEF Init
  <1>2. 0 \in 0..WRAP - 1 /\ (0 - 0) % WRAP = 0 /\ 0 <= PIPESIZE
    BY PipeAssumption, ModOnce
  <1>3. RingInv /\ Count = 0
    BY <1>1, <1>2, Zenon DEF RingInv, Count
  <1>4. QED
    BY <1>3 DEF QueueView

\* The kinds of steps, with what they deliver.
LEMMA AllSteps ==
  ASSUME Next
  PROVE  \E p \in Procs :
           \/ (Silent(p) \/ pipealloc(p) \/ pipeclose(p)) /\ result' = None
           \/ \E b \in Bytes : pipewrite_byte(p, b) /\ result' = None
           \/ \E n \in 0..PIPESIZE : piperead(p, n)
  BY Zenon DEF Next, Steps, FileStep, Silent

\* Every step keeps the three parts of the invariant.
LEMMA PipeKept ==
  ASSUME PipeInv, [Next]_vars
  PROVE  PipeInv'
  <1>1. FileInv'
    BY FilesKept, Zenon DEF PipeInv
  <1>2. CASE Next
    <2>1. PICK p \in Procs :
           \/ (Silent(p) \/ pipealloc(p) \/ pipeclose(p)) /\ result' = None
           \/ \E b \in Bytes : pipewrite_byte(p, b) /\ result' = None
           \/ \E n \in 0..PIPESIZE : piperead(p, n)
      BY <1>2, AllSteps, Zenon
    <2>2. CASE Silent(p)
      <3>1. RingInv'
        BY <2>2, SilentIs, QueueStays, Zenon DEF PipeInv
      <3>2. LockInv'
        BY <2>2, CalmSteps, WriterLooks, WriterLeaves, ReaderWaits, Zenon DEF PipeInv, Silent
      <3>3. QED
        BY <1>1, <3>1, <3>2, Zenon DEF PipeInv
    <2>3. CASE pipealloc(p)
      BY <1>1, <2>3, AllocClears, PipeallocKeepsLock, Zenon DEF PipeInv
    <2>4. CASE pipeclose(p)
      BY <1>1, <2>4, CloseClears, PipecloseKeepsLock, Zenon DEF PipeInv
    <2>5. ASSUME NEW b \in Bytes, pipewrite_byte(p, b) PROVE PipeInv'
      <3>1. /\ ~Full /\ data' = [data EXCEPT ![nwrite % PIPESIZE] = b]
            /\ nwrite' = (nwrite + 1) % WRAP /\ UNCHANGED nread
        BY <2>5, Zenon DEF pipewrite_byte
      <3>2. RingInv'
        BY <3>1, ByteGoesIn, Zenon DEF PipeInv
      <3>3. QED
        BY <1>1, <2>5, <3>2, WriterStores, Zenon DEF PipeInv
    <2>6. ASSUME NEW n \in 0..PIPESIZE, piperead(p, n) PROVE PipeInv'
      <3>1. /\ n <= Count /\ data' = Drop(n) /\ nread' = (nread + n) % WRAP
            /\ UNCHANGED nwrite
        BY <2>6, Zenon DEF piperead
      <3>2. RingInv'
        BY <3>1, BytesGoOut, Zenon DEF PipeInv
      <3>3. QED
        BY <1>1, <2>6, <3>2, ReaderTakes, Zenon DEF PipeInv
    <2>7. QED
      BY <2>1, <2>2, <2>3, <2>4, <2>5, <2>6, Zenon
  <1>3. CASE UNCHANGED vars
    <2>1. UNCHANGED <<nread, nwrite, data, open, lock, silent, pc>>
      BY <1>3, Zenon DEF vars, pipe, proc
    <2>2. QED
      BY <1>1, <2>1, QueueStays, CalmKeeps, Zenon DEF PipeInv
  <1>4. QED
    BY <1>2, <1>3, Zenon

\* The file table, the buffer and the lock are as the invariant says in every state.
THEOREM PipeInvariant == Spec => []PipeInv
  <1>1. Init => PipeInv
    BY FilesInitially, RingInitially, LockInitially, Zenon DEF PipeInv
  <1>2. PipeInv /\ [Next]_vars => PipeInv'
    BY PipeKept, Zenon
  <1>3. QED
    BY <1>1, <1>2, PTL DEF Spec

\* Nobody sleeps in pipewrite() or piperead() through what it waits for: room, a byte,
\* or the close of the other end.  A killed writer that returns without its wakeup is
\* the one exception.
THEOREM PipeWakesSleepers == Spec => []NoMissedPipeWakeup
  <1>1. PipeInv => NoMissedPipeWakeup
    <2> SUFFICES ASSUME PipeInv, NEW p \in Procs
                 PROVE  /\ pc[p] = "wsleep" => Full /\ "r" \in open
                        /\ pc[p] = "rsleep" =>
                             \/ nread = nwrite /\ "w" \in open
                             \/ \E q \in Procs : pc[q] \in {"writing", "full"}
                             \/ silent
      BY Zenon DEF NoMissedPipeWakeup
    <2>1. Stand(p)
      BY Zenon DEF PipeInv, LockInv
    <2>2. QED
      BY <2>1, Zenon DEF Stand, Atwork
  <1>2. QED
    BY <1>1, PipeInvariant, PTL

-----------------------------------------------------------------------------
(* The pipe implements ByteStream *)

\* Both ends are open while a byte is stored, and the queue has room for it.
LEMMA PutRefines ==
  ASSUME PipeInv, NEW p \in Procs, NEW b \in Bytes, pipewrite_byte(p, b), result' = None
  PROVE  Stream!Put(b)
  <1>1. /\ ~Full /\ data' = [data EXCEPT ![nwrite % PIPESIZE] = b]
        /\ nwrite' = (nwrite + 1) % WRAP /\ UNCHANGED <<nread, open>>
        /\ pc[p] = "writing" /\ "r" \in open
    BY Zenon DEF pipewrite_byte
  <1>2. QueueView' = Append(QueueView, b)
    BY <1>1, ByteGoesIn, Zenon DEF PipeInv
  <1>3. open = {"r", "w"}
    <2>1. "w" \in open
      BY <1>1, UsersOpen, Zenon DEF PipeInv, Writing
    <2>2. open \subseteq {"r", "w"}
      BY Zenon DEF PipeInv, FileInv, Types, Ends
    <2>3. QED
      BY <1>1, <2>1, <2>2, Zenon
  <1>4. Len(QueueView) < PIPESIZE
    <2>1. /\ QueueView = Ring(data, nread, Count) /\ Count \in 0..PIPESIZE /\ Count # PIPESIZE
      BY <1>1, CountIs, Zenon DEF PipeInv
    <2>2. data \in Buffers /\ nread \in Int /\ Count \in Nat /\ PIPESIZE \in Nat
      BY <2>1, PipeAssumption DEF PipeInv, RingInv, Buffers, Cells
    <2>3. Len(QueueView) = Count
      BY <2>1, <2>2, RingIsSeq, Zenon
    <2>4. QED
      BY <2>1, <2>2, <2>3
  <1>5. QED
    BY <1>1, <1>2, <1>3, <1>4, Zenon DEF Stream!Put

\* A read takes from the front, or sees the end, or fails at once.
LEMMA ReadRefines ==
  ASSUME PipeInv, NEW p \in Procs, NEW n \in 0..PIPESIZE, piperead(p, n)
  PROVE  (\E k \in 1..PIPESIZE : Stream!Take(k)) \/ Stream!End \/ Stream!Other
  <1>1. /\ n <= Count /\ data' = Drop(n) /\ nread' = (nread + n) % WRAP
        /\ UNCHANGED <<nwrite, open>> /\ pc[p] = "read" /\ (nread # nwrite \/ "w" \notin open)
        /\ result' = IF n = 0 /\ Count > 0 THEN None ELSE [k \in 1..n |-> ByteAt(k)]
    BY Zenon DEF piperead
  <1>2. /\ QueueView' = SubSeq(QueueView, n + 1, Count)
        /\ [k \in 1..n |-> ByteAt(k)] = SubSeq(QueueView, 1, n)
    BY <1>1, BytesGoOut, Zenon DEF PipeInv
  <1>3. /\ QueueView = Ring(data, nread, Count) /\ Count \in 0..PIPESIZE
        /\ Count = 0 <=> nread = nwrite
    BY CountIs, Zenon DEF PipeInv
  <1>4. QueueView \in Seq(Cells) /\ Len(QueueView) = Count
    <2>1. data \in Buffers /\ nread \in Int /\ Count \in Nat
      BY <1>3, PipeAssumption DEF PipeInv, RingInv, Buffers, Cells
    <2>2. QED
      BY <1>3, <2>1, RingIsSeq, Zenon
  <1>5. "r" \in open /\ open \subseteq {"r", "w"}
    BY <1>1, UsersOpen, Zenon DEF PipeInv, Reading, FileInv, Types, Ends
  <1>6. PIPESIZE \in Nat
    BY PipeAssumption, Zenon
  <1>7. CASE n # 0
    <2>1. n \in 1..Len(QueueView) /\ n \in 1..PIPESIZE
      BY <1>1, <1>3, <1>4, <1>6, <1>7
    <2>2. Stream!Take(n)
      BY <1>1, <1>2, <1>4, <1>5, <1>7, <2>1, Zenon DEF Stream!Take
    <2>3. QED
      BY <2>1, <2>2, Zenon
  <1>8. CASE n = 0
    <2>1. QueueView' = QueueView
      <3>1. QueueView' = SubSeq(Ring(data, nread, Count), 1, Count)
        <4>1. n + 1 = 1
          BY <1>8
        <4>2. QED
          BY <1>2, <1>3, <4>1, Zenon
      <3>2. data \in Buffers /\ nread \in Int /\ Count \in Nat /\ Count \in 0..Count
        BY <1>3, <1>6, PipeAssumption DEF PipeInv, RingInv, Buffers, Cells
      <3>3. QED
        BY <1>3, <3>1, <3>2, RingFront, Zenon
    <2>2. CASE Count > 0
      <3>1. result' = None
        BY <1>1, <1>8, <2>2, Zenon
      <3>2. Stream!Other
        BY <1>1, <2>1, <3>1, Zenon DEF Stream!Other
      <3>3. QED
        BY <3>2, Zenon
    <2>3. CASE Count = 0
      <3>1. result' = <<>>
        BY <1>1, <1>8, <2>3
      <3>2. open = {"r"}
        BY <1>1, <1>3, <1>5, <2>3, Zenon
      <3>3. QueueView = <<>>
        BY <2>3 DEF QueueView
      <3>4. Stream!End
        BY <1>1, <2>1, <3>1, <3>2, <3>3, Zenon DEF Stream!End
      <3>5. QED
        BY <3>4, Zenon
    <2>4. QED
      BY <1>3, <1>6, <2>2, <2>3
  <1>9. QED
    BY <1>7, <1>8, Zenon

\* Every step of the pipe is a step of the byte stream.
LEMMA StepRefines ==
  ASSUME PipeInv, Next
  PROVE  Stream!SNext
  <1>1. PICK p \in Procs :
          \/ (Silent(p) \/ pipealloc(p) \/ pipeclose(p)) /\ result' = None
          \/ \E b \in Bytes : pipewrite_byte(p, b) /\ result' = None
          \/ \E n \in 0..PIPESIZE : piperead(p, n)
    BY AllSteps, Zenon
  <1>2. ASSUME Silent(p), result' = None PROVE Stream!Other
    BY <1>2, SilentIs, QueueStays, Zenon DEF PipeInv, Stream!Other
  <1>3. ASSUME pipealloc(p), result' = None PROVE Stream!Open
    <2>1. open = {} /\ open' = {"r", "w"}
      BY <1>3, Zenon DEF pipealloc, PipeInv, FileInv, OneHolder
    <2>2. QED
      BY <1>3, <2>1, AllocClears, Zenon DEF PipeInv, Stream!Open
  <1>4. ASSUME pipeclose(p), result' = None PROVE \E e \in {"r", "w"} : Stream!Close(e)
    <2> DEFINE e == ending[p]
    <2>1. pc[p] = "pipeclose" /\ open' = open \ {e}
      BY <1>4, Zenon DEF pipeclose
    <2>2. e # None /\ e \in Ends \cup {None}
      BY <2>1, Zenon DEF PipeInv, FileInv, Types, CallsInv, CallInv
    <2>3. e \in {"r", "w"} /\ e \in open
      BY <2>2, Zenon DEF PipeInv, FileInv, OneHolder, Ends
    <2> HIDE DEF e
    <2>4. Stream!Close(e)
      BY <1>4, <2>1, <2>3, CloseClears, Zenon DEF PipeInv, Stream!Close
    <2>5. QED
      BY <2>3, <2>4, Zenon
  <1>5. QED
    BY <1>1, <1>2, <1>3, <1>4, PutRefines, ReadRefines, Zenon DEF Stream!SNext

\* A pipe is a byte stream, for any number of readers and writers, any size of the
\* buffer and any width of the indices that is a multiple of it: the bytes come out of
\* piperead() in the order in which pipewrite() stored them, each once, across the wrap
\* of nread and nwrite, and an end of file means that all are read and nobody writes.
THEOREM PipeIsByteStream == Spec => ImplementsByteStream
  <1>1. Init => Stream!SInit
    BY RingInitially, Zenon DEF Init, Stream!SInit
  <1>2. PipeInv /\ [Next]_vars => [Stream!svars' # Stream!svars /\ Stream!SNext]_(Stream!svars)
    <2> SUFFICES ASSUME PipeInv, [Next]_vars, Stream!svars' # Stream!svars
                 PROVE  Stream!SNext
      BY Zenon
    <2>1. CASE Next
      BY <2>1, StepRefines, Zenon
    <2>2. CASE UNCHANGED vars
      <3>1. UNCHANGED <<nread, nwrite, data, open, result>>
        BY <2>2, Zenon DEF vars, pipe
      <3>2. UNCHANGED <<QueueView, open, result>>
        BY <3>1, QueueStays, Zenon DEF PipeInv
      <3>3. QED
        BY <3>2, Zenon DEF Stream!svars
    <2>3. QED
      BY <2>1, <2>2, Zenon
  <1>3. QED
    BY <1>1, <1>2, PipeInvariant, PTL DEF Spec, ImplementsByteStream, Stream!SSpec

=============================================================================

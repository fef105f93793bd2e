--------------------------- MODULE MC_Sequential ----------------------------
(***************************************************************************)
(* The sequential code, each part on all inputs up to a bound: the         *)
(* run-length code and the wire format of the file server and the tail of  *)
(* its log, the shell's parser and plumbing, the kernel's path names and   *)
(* copies to and from user memory, and the allocator of user programs over *)
(* all sequences of calls.                                                 *)
(***************************************************************************)
EXTENDS Rle, Resp, TextParts, Shell, UserCopy, Umalloc

CONSTANT MaxIn  \* bound: the longest file given to the compressor

VARIABLES task,   \* the code that runs
          step,   \* "call", then "done"; the allocator is called again
          input,  \* its arguments
          output  \* its result

vars == <<task, step, input, output>>

None == {}

Becomes(s, i, o) == task' = task /\ step' = s /\ input' = i /\ output' = o

Called(t) == task = t /\ step = "call"
Done(t) == task = t /\ step = "done"

-----------------------------------------------------------------------------
(* Inputs *)

RleMagic == <<82, 76, 69, 49>>

\* Every short line, and longer ones made of one word and the operators.
Lines == BoundedSeq({" ", "x", "<", ">", "|", "&", ";", "(", ")"}, 4)
           \cup BoundedSeq({"x", ">", "|", ";", "(", ")"}, 6)

\* Requests whose data looks like the format itself, followed by the start
\* of the next one.
Datas == {<<"x">>, <<CR, LF>>, <<"$", "1">>, <<"x", LF, CR>>}
Requests == {Request(items) \o t : items \in SeqOf(Datas, MAXITEMS) \ {<<>>},
                                   t \in {<<>>, <<"*">>, <<CR>>}}

\* One character of a short request is lost, doubled or replaced.
Damaged ==
  LET Damage(r) ==
        UNION {{SubSeq(r, 1, k - 1) \o c \o SubSeq(r, k + 1, Len(r)) :
                  c \in {<<>>, <<r[k], r[k]>>} \cup
                        {<<d>> : d \in {"*", "$", CR, LF, "0", "2", "-", "+", " ", "x", NulByte}}} :
                k \in 1..Len(r)}
  IN  UNION {Damage(r) : r \in {Request(<<d>>) : d \in Datas} \cup
                                 {Request(<<<<"x">>, <<CR, LF>>>>)}}

Paths == BoundedSeq({"/", "a", "b"}, 6)

\* A log, and what its length was when LOGS looked twice before: no longer,
\* or longer when a client has replaced the file.
Logs ==
  [file : {"there"}, log : BoundedSeq({"x", "n"}, 6), told : 0..6, sought : 0..6, limit : 0..2]
    \cup [file : {"missing", "failing"}, log : {<<>>}, told : {0}, sought : {0}, limit : 0..2]

\* Memories whose byte at an address tells the address, with zeros at Z.
Memory(sz, pte, n, Z) ==
  [sz |-> sz, pte |-> pte, free |-> n,
   mem |-> [a \in 0..MAXVA - 1 |-> IF a \in Z THEN 0 ELSE 10 + a]]
Memories ==
  {Memory(sz, pte, n, Z) :
     sz \in {PGSIZE, PGSIZE + 1, MAXVA}, pte \in [0..NPAGES - 1 -> Kinds],
     n \in 0..1, Z \in {{}, {1}, {3}}}

Init ==
  /\ step = "call"
  /\ \/ task = "rle" /\ input \in BoundedSeq({0, 1}, MaxIn)
     \/ task = "resp" /\ input \in Requests \cup Damaged
     \/ task = "namex" /\ input \in Paths
     \/ task = "logs" /\ input \in Logs
     \/ task = "sh" /\ input \in Lines
     \/ task = "copy" /\ input \in [m : Memories, va : 0..MAXVA + 1, n : 0..MAXVA]
     \/ task = "malloc" /\ input = NewHeap
  /\ output = IF task = "malloc" THEN [used |-> {}, moved |-> 0] ELSE None

-----------------------------------------------------------------------------
(* Calls *)

Compress == Called("rle") /\ Becomes("done", input, rle_compress_bytes(input))
Read == Called("resp") /\ Becomes("done", input, resp_read_array(input))
Logged ==
  /\ Called("logs")
  /\ Becomes("done", input,
             read_log_tail(input.file, input.told, input.sought, input.log, input.limit))
Parse == Called("sh") /\ Becomes("done", input, parsecmd(input))

LookUp ==
  /\ Called("namex")
  /\ Becomes("done", input, [p \in BOOLEAN |-> namex(input, p)])

\* The kernel writes n bytes that differ from all in the memory.
CopyOut ==
  /\ Called("copy")
  /\ Becomes("done", input,
             copyout(input.m, input.va, [k \in 1..input.n |-> 100 + k]))

\* The output has the blocks in use, with the units asked for, and the units
\* that the program itself got from sbrk().  A header that is neither in use
\* nor on the free list is not read again and is forgotten.
Heap(h, used, moved) ==
  LET kept == FreeList(h) \cup {b[1] : b \in used}
  IN  Becomes("call",
        [h EXCEPT !.ptr = [a \in 0..TOP |-> IF a \in FreeList(h) THEN h.ptr[a] ELSE base],
                  !.size = [a \in 0..TOP |-> IF a \in kept THEN h.size[a] ELSE 0]],
        [used |-> used, moved |-> moved])

Malloc ==
  /\ Called("malloc")
  /\ \E n \in 1..CORE + 1 :
       LET r == malloc(input, n)
       IN  Heap(r.h, output.used \cup (IF r.p = NULL THEN {} ELSE {<<r.p, n>>}), output.moved)

Free ==
  /\ Called("malloc")
  /\ \E b \in output.used : Heap(free(input, b[1]), output.used \ {b}, output.moved)

Sbrk ==
  /\ Called("malloc") /\ sbrk(input, 1).p # NULL
  /\ Heap(sbrk(input, 1).h, output.used, output.moved + 1)

Next ==
  \/ Compress \/ Read \/ LookUp \/ Logged \/ Parse \/ CopyOut
  \/ Malloc \/ Free \/ Sbrk

Spec == Init /\ [][Next]_vars

-----------------------------------------------------------------------------
(* Properties *)

\* rle_decompress_bytes() gives back the file that rle_compress_bytes() was
\* given, whatever it holds (also a run longer than a pair can say); what the
\* compressor writes fits its buffer of 2 * in_len + 8 bytes, and a run length
\* fits a byte.  DECOMPRESS itself reads the compressed file first and refuses
\* it when it has grown beyond MAX_FILE_SIZE (read_all_file).
RoundTrip ==
  Done("rle") => /\ Decodable(output)
                 /\ rle_decompress_bytes(output) = input
                 /\ Len(output) <= 2 * Len(input) + 8
                 /\ \A k \in 1..(Len(output) - Len(Magic)) \div 2 :
                      output[Len(Magic) + 2 * k - 1] \in 1..MaxRun

\* A request of redis-cli is read exactly, whatever bytes its non-empty data
\* hold, and the bytes after it are left for the next one (resp_read_array).  What was
\* taken for a request is none any more when the connection breaks one byte
\* or more earlier: the server never acts on a part of a request, however
\* the request is damaged.
ReadsWholeRequests ==
  Done("resp") =>
    /\ \A items \in SeqOf(Datas, MAXITEMS) \ {<<>>} :
         IsPrefix(Request(items), input) =>
           /\ output.ok /\ output.items = items
           /\ output.rest = Rest(input, Len(Request(items)))
    /\ output.ok =>
         \A n \in 0..Len(input) - Len(output.rest) - 1 :
           ~resp_read_array(SubSeq(input, 1, n)).ok

\* namex() looks up every element of a path once, in order, cut to the length
\* of an entry's name; nameiparent() leaves the last one to its caller.
PathElements ==
  Done("namex") =>
    LET starts == {k \in DOMAIN input : input[k] # "/" /\ (k = 1 \/ input[k - 1] = "/")}
        InElem(k, i) == \A j \in k..i : input[j] # "/"
        Cut(k) == SubSeq(input, k, CHOOSE e \in k..Len(input) :
                    /\ InElem(k, e) /\ e < k + DIRSIZ
                    /\ e = Len(input) \/ e = k + DIRSIZ - 1 \/ input[e + 1] = "/")
        elems == [i \in 1..Cardinality(starts) |-> Cut(SetToSortSeq(starts, <)[i])]
    IN  /\ output[FALSE].looked = elems
        /\ elems # <<>> => /\ output[TRUE].looked = Front(elems)
                            /\ output[TRUE].name = Last(elems)

\* LOGS reads the log without the logger's mutex (read_log_tail).  However
\* lines, or parts of one, are appended between its looks, it returns the end
\* of the log as fseek() found it, without a gap, and as many lines as were
\* asked for or there are among the bytes it counted; only the first line can
\* be cut, and is whole if the log is quiet and below the cap.
LogTailIsLastLines ==
  Done("logs") /\ input.file = "there" =>
    LET appended == input.told <= input.sought /\ input.sought <= Len(input.log)
        log == SubSeq(input.log, 1, input.sought)
        cut == input.sought - Min({input.told, TAILCAP})
        start == Len(log) - Len(output.out)
        lines == Cardinality(Newlines(log, cut + 1))
    IN  appended =>
          /\ start >= cut
          /\ output.out = SubSeq(log, start + 1, Len(log))
          /\ start = cut \/ log[start] = "n"
          /\ input.limit > 0 => Cardinality(Newlines(output.out, 1)) = Min({lines, input.limit})

\* Every unit of memory that malloc() got from sbrk() is in exactly one block,
\* in use or free, through all sequences of calls; a block in use has the
\* size asked for, and neighbouring free blocks are joined.
HeapIsTiled ==
  task = "malloc" =>
    LET h == input
        used == {b[1] : b \in output.used}
        blocks == used \cup (FreeList(h) \ {base})
        Block(p) == p..p + h.size[p] - 1
    IN  /\ \A p \in blocks : h.size[p] > 0 /\ Block(p) \subseteq HeapStart..h.brk - 1
        /\ \A p, q \in blocks : p # q => Block(p) \cap Block(q) = {}
        /\ Cardinality(UNION {Block(p) : p \in blocks}) + output.moved = h.brk - HeapStart
        /\ used \cap FreeList(h) = {}
        /\ \A b \in output.used : h.size[b[1]] = b[2]
        /\ \A p, q \in FreeList(h) \ {base} : p + h.size[p] # q

\* copyout() stores the bytes up to the first page that is not the user's to
\* write and cannot be allocated, fails exactly if there is one, changes no
\* other byte but those of fresh pages, and copyin() reads the bytes back.
CopyoutExact ==
  Done("copy") =>
    LET m == input.m
        va == input.va
        Lazy(p) == m.pte[p] = "none" /\ p * PGSIZE < m.sz
        Reached(p) == \A q \in PageOf(va)..p :
                        /\ q < NPAGES
                        /\ \/ m.pte[q] = "data"
                           \/ /\ Lazy(q)
                              /\ Cardinality({r \in PageOf(va)..q : Lazy(r)}) <= m.free
        In(a) == a \in va..va + input.n - 1
        Touched(p) == \E a \in va..va + input.n - 1 : PageOf(a) = p
    IN  /\ output.ret = 0 <=> input.n = 0 \/ Reached(PageOf(va + input.n - 1))
        /\ \A a \in 0..MAXVA - 1 :
             output.m.mem[a] =
               CASE In(a) /\ Reached(PageOf(a)) -> 100 + a - va + 1
                 [] ~In(a) /\ Touched(PageOf(a)) /\ Reached(PageOf(a)) /\ Lazy(PageOf(a)) -> 0
                 [] OTHER -> m.mem[a]
        /\ output.ret = 0 => LET r == copyin(output.m, va, input.n)
                             IN  r.ret = 0 /\ r.dst = [k \in 1..input.n |-> 100 + k]

\* copyinstr() returns the bytes up to the first NUL, which must come within
\* max bytes that are all mapped, and copyin() of as many bytes agrees.
CopyinstrExact ==
  Done("copy") =>
    LET m == input.m
        va == input.va
        Readable(a) == a < MAXVA /\ m.pte[PageOf(a)] \in {"text", "data"}
        ends == {k \in 1..input.n : /\ \A j \in 0..k - 1 : Readable(va + j)
                                    /\ m.mem[va + k - 1] = 0
                                    /\ \A j \in 0..k - 2 : m.mem[va + j] # 0}
        str == copyinstr(m, va, input.n)
    IN  /\ str.ret = 0 <=> ends # {}
        /\ \A k \in ends : /\ str.dst = [j \in 1..k |-> m.mem[va + j - 1]]
                           /\ copyin(m, va, k).dst = str.dst

\* The copies between kernel and user are exact, byte for byte, at every
\* boundary of a page and of the memory.
CopiesExact == CopyoutExact /\ CopyinstrExact

\* Every word that was typed is in the command exactly once, and reads as it
\* was typed once the words are ended by NULs in the line itself.
ShellKeepsWords ==
  Done("sh") /\ output.i # 0 =>
    LET b == input
        InWord(k) == b[k] \notin whitespace \cup symbols
        typed == {<<q, e>> \in (1..Len(b)) \X (2..Len(b) + 1) :
                    /\ q < e /\ \A k \in q..e - 1 : InWord(k)
                    /\ q = 1 \/ ~InWord(q - 1)
                    /\ e = Len(b) + 1 \/ ~InWord(e)}
        words == Words(output.cmd)
        ended == nulterminate(b, output.cmd)
    IN  /\ ToSet(words) = typed /\ Len(words) = Cardinality(typed)
        /\ \A w \in typed : String(ended, w[1]) = SubSeq(b, w[1], w[2] - 1)

RECURSIVE Shape(_)
\* A command without its words.
Shape(cmd) ==
  CASE cmd.type = "EXEC" -> <<Len(cmd.argv)>>
    [] cmd.type = "REDIR" -> <<cmd.mode, Shape(cmd.cmd)>>
    [] cmd.type = "BACK" -> <<"&", Shape(cmd.cmd)>>
    [] OTHER -> <<cmd.type, Shape(cmd.left), Shape(cmd.right)>>

\* The first separator outside parentheses splits the line: a ; before any |,
\* and each side is what it would be on a line of its own (parseline,
\* parsepipe).
ShellGroups ==
  Done("sh") /\ output.i # 0 =>
    LET b == input
        Count(c, k) == Cardinality({j \in 1..k : b[j] = c})
        Outside(c) == {k \in DOMAIN b : b[k] = c /\ Count("(", k) = Count(")", k)}
        Splits(k, type) ==
          Shape(output.cmd) = <<type, Shape(parsecmd(SubSeq(b, 1, k - 1)).cmd),
                                      Shape(parsecmd(SubSeq(b, k + 1, Len(b))).cmd)>>
    IN  IF Outside(";") # {} THEN Splits(Min(Outside(";")), "LIST")
        ELSE Outside("|") # {} /\ Outside("&") = {} => Splits(Min(Outside("|")), "PIPE")

\* The shell understands a line as it was typed: its words and its operators.
ShellParses == ShellKeepsWords /\ ShellGroups

RECURSIVE Stdio(_, _, _, _)
\* What a command's processes should read and write: in and out, a file that
\* a redirection closer to the program names, or the pipe that joins them.
Stdio(cmd, in, out, at) ==
  CASE cmd.type = "EXEC" -> IF cmd.argv = <<>> THEN {} ELSE {<<at, in, out>>}
    [] cmd.type = "REDIR" -> IF cmd.mode = "<"
                             THEN Stdio(cmd.cmd, <<"file", cmd.file>>, out, Append(at, 0))
                             ELSE Stdio(cmd.cmd, in, <<"file", cmd.file>>, Append(at, 0))
    [] cmd.type = "BACK" -> Stdio(cmd.cmd, in, out, Append(at, 0))
    [] cmd.type = "LIST" -> {<<at, in, out>>}
                              \cup Stdio(cmd.left, in, out, Append(at, 1))
                              \cup Stdio(cmd.right, in, out, Append(at, 2))
    [] cmd.type = "PIPE" -> {<<at, in, out>>}
                              \cup Stdio(cmd.left, in, <<"write", at>>, Append(at, 1))
                              \cup Stdio(cmd.right, <<"read", at>>, out, Append(at, 2))

\* Every program of a command reads and writes what the command says, and
\* neither it nor a shell that waits holds any other descriptor.  No shell
\* waits for a program that waits for it: a reader sees the end of its pipe
\* once the writers are done, and no shell above the reader, which waits for
\* it, keeps the pipe's write end open (runcmd).
ShellWiring ==
  Done("sh") /\ output.i # 0 =>
    LET procs == runcmd(output.cmd, ShellFds, <<>>)
        Holds(p, end) == \E d \in 0..NOFILE - 1 : p.fds[d] = end
        WaitsFor(s, p) == s.runs = "wait" /\ IsStrictPrefix(s.at, p.at)
    IN  /\ {<<p.at, p.fds[0], p.fds[1]>> : p \in procs}
             = Stdio(output.cmd, Console, Console, <<>>)
        /\ \A p \in procs : p.fds[2] = Console /\ \A d \in 3..NOFILE - 1 : p.fds[d] = Closed
        /\ \A s, p \in procs :
             WaitsFor(s, p) => \A q \in procs : ~(Holds(p, <<"read", q.at>>)
                                                 /\ Holds(s, <<"write", q.at>>))
=============================================================================

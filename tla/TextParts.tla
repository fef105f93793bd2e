----------------------------- MODULE TextParts ------------------------------
(***************************************************************************)
(* Text taken apart: the path elements of the kernel's namex() (fs.c), and *)
(* the lines of the file server's log that LOGS returns (file_ops.c).  A   *)
(* string is a sequence of characters.                                     *)
(***************************************************************************)
EXTENDS Integers, Sequences, SequencesExt, FiniteSets

CONSTANTS DIRSIZ,  \* characters of a directory entry's name
          TAILCAP  \* the part of the log that LOGS looks at (1 MB)

RECURSIVE Slashes(_)
\* The string without its leading slashes.
Slashes(path) ==
  IF path # <<>> /\ Head(path) = "/" THEN Slashes(Tail(path)) ELSE path

\* The characters before the first slash.
ElemLen(path) ==
  CHOOSE n \in 0..Len(path) :
    /\ \A k \in 1..n : path[k] # "/"
    /\ n = Len(path) \/ path[n + 1] = "/"

\* The next element and the path after it; a name longer than an entry's
\* is cut.
Bug_skipelem(path) ==
  LET s == Slashes(path)
      len == ElemLen(s)
  IN  [name |-> SubSeq(s, 1, IF len >= DIRSIZ THEN DIRSIZ ELSE len),
       path |-> SubSeq(s, len + 1, Len(s))]
skipelem(path) ==
  LET s == Slashes(path)
      len == ElemLen(s)
  IN  [name |-> SubSeq(s, 1, IF len >= DIRSIZ THEN DIRSIZ ELSE len),
       path |-> Slashes(SubSeq(s, len + 1, Len(s)))]

RECURSIVE namex(_, _)
\* The names namex() looks up in turn.  With parent, the one that is left
\* for the caller comes last and is not looked up.
namex(path, parent) ==
  LET e == skipelem(path)
  IN  IF Slashes(path) = <<>> THEN [looked |-> <<>>, name |-> <<>>]
      ELSE IF parent /\ e.path = <<>> THEN [looked |-> <<>>, name |-> e.name]
      ELSE LET rest == namex(e.path, parent)
           IN  [rest EXCEPT !.looked = <<e.name>> \o @]

-----------------------------------------------------------------------------

Newlines(buf, i) == {k \in i..Len(buf) : buf[k] = "n"}

\* Where the output starts: after the newline that ends the line before the
\* last limit ones.
Bug_TailStart(buf, limit) ==
  LET cut == {i \in 1..Len(buf) : buf[i] = "n" /\ Cardinality(Newlines(buf, i)) = limit}
  IN  IF cut = {} THEN 0 ELSE CHOOSE i \in cut : TRUE
TailStart(buf, limit) ==
  LET cut == {i \in 1..Len(buf) : buf[i] = "n" /\ Cardinality(Newlines(buf, i)) = limit + 1}
  IN  IF cut = {} THEN 0 ELSE CHOOSE i \in cut : TRUE

\* The log may change while it is read: told bytes when ftell() looks, sought
\* when fseek() goes back from its end, log when fread() reads.  The file may
\* also be missing, which gives no lines, and a call may fail.
read_log_tail(file, told, sought, log, limit) ==
  LET size == IF told > TAILCAP THEN TAILCAP ELSE told
      from == IF size <= sought THEN sought - size ELSE 0
      buf == SubSeq(log, from + 1, IF from + size < Len(log) THEN from + size ELSE Len(log))
      start == IF limit <= 0 THEN 0 ELSE TailStart(buf, limit)
  IN  CASE file = "missing" -> [ok |-> TRUE, out |-> <<>>]
        [] file = "failing" -> [ok |-> FALSE]
        [] file = "there" -> [ok |-> TRUE, out |-> SubSeq(buf, start + 1, Len(buf))]
=============================================================================

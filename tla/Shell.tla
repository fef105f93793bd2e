------------------------------- MODULE Shell --------------------------------
(***************************************************************************)
(* The command language of user/sh.c: the recursive-descent parser, and    *)
(* the descriptors of the processes runcmd() makes for a command.          *)
(*                                                                         *)
(* A line b is a sequence of characters and a position i points into it;   *)
(* position Len(b) + 1 is the NUL that ends the line.  A word is the pair  *)
(* of pointers q and eq.  A parser returns the command and the position    *)
(* it stopped at; position 0 says that it panicked and the child exited.   *)
(***************************************************************************)
EXTENDS Integers, Sequences, SequencesExt, FiniteSets

CONSTANTS MAXARGS,  \* length of argv, its last entry included
          NOFILE    \* descriptors of a process

NUL == "0"
whitespace == {" "}
Redirections == {"<", ">"}
symbols == {"<", "|", ">", "&", ";", "(", ")"}

Ch(b, i) == IF i <= Len(b) THEN b[i] ELSE NUL

\* The first position from i on whose character is not in C.
Past(b, i, C) ==
  CHOOSE j \in i..Len(b) + 1 :
    /\ Ch(b, j) \notin C
    /\ \A k \in i..j - 1 : b[k] \in C

Skip(b, i) == IF i > Len(b) THEN i ELSE Past(b, i, whitespace)

\* A word ends at white space, at a symbol and at the end of the line.
WordEnd(b, i) ==
  CHOOSE j \in i..Len(b) + 1 :
    /\ Ch(b, j) \in whitespace \cup symbols \cup {NUL}
    /\ \A k \in i..j - 1 : b[k] \notin whitespace \cup symbols

Token(b, tok, q, eq) == [tok |-> tok, q |-> q, eq |-> eq, i |-> Skip(b, eq)]
TokenAt(b, q) ==
  CASE Ch(b, q) = NUL -> Token(b, NUL, q, q)
    [] Ch(b, q) \notin symbols \cup {NUL} -> Token(b, "a", q, WordEnd(b, q))
    [] Ch(b, q) = ">" /\ Ch(b, q + 1) = ">" -> Token(b, "+", q, q + 2)
    [] OTHER -> Token(b, Ch(b, q), q, q + 1)
gettoken(b, i) == TokenAt(b, Skip(b, i))

\* The caller goes on from Skip(b, i), as every use of i does.
peek(b, i, toks) == Ch(b, Skip(b, i)) \in toks

-----------------------------------------------------------------------------
(* Constructors *)

execcmd(argv) == [type |-> "EXEC", argv |-> argv]
redircmd(cmd, r) == [type |-> "REDIR", cmd |-> cmd, file |-> r.file, mode |-> r.mode]
pipecmd(l, r) == [type |-> "PIPE", left |-> l, right |-> r]
listcmd(l, r) == [type |-> "LIST", left |-> l, right |-> r]
backcmd(cmd) == [type |-> "BACK", cmd |-> cmd]

At(i, cmd) == [i |-> i, cmd |-> cmd]
Panic == At(0, execcmd(<<>>))

\* Each redirection goes around the command and the ones before it.
Wrap(cmd, redirs) == FoldLeft(redircmd, cmd, redirs)

-----------------------------------------------------------------------------
(* The parser.  What a parser has read so far is a parameter of the step    *)
(* that follows.                                                             *)

\* The position after the token at i.
After(b, i) == gettoken(b, i).i

RECURSIVE parseredirs(_, _, _)
\* The redirection with operator mode has name as its file.
redirfile(b, mode, name, rs) ==
  IF name.tok # "a" THEN [i |-> 0, rs |-> rs]
  ELSE parseredirs(b, name.i, Append(rs, [mode |-> mode, file |-> <<name.q, name.eq>>]))
\* Adds the redirections found at i to rs.
parseredirs(b, i, rs) ==
  IF ~peek(b, i, Redirections) THEN [i |-> i, rs |-> rs]
  ELSE redirfile(b, gettoken(b, i).tok, gettoken(b, After(b, i)), rs)

RECURSIVE parseargs(_, _, _)
\* The word t, and the redirections more that follow it.
addarg(b, argv, t, more) ==
  IF more.i = 0 THEN Panic ELSE parseargs(b, more, Append(argv, <<t.q, t.eq>>))
nextarg(b, at, argv, t) ==
  CASE t.tok = NUL -> At(at.i, Wrap(execcmd(argv), at.rs))
    [] t.tok \notin {"a", NUL} -> Panic
    [] t.tok = "a" /\ Len(argv) + 1 >= MAXARGS -> Panic
    [] OTHER -> addarg(b, argv, t, parseredirs(b, t.i, at.rs))
\* The loop of parseexec(): the words so far are argv, the redirections at.rs.
parseargs(b, at, argv) ==
  IF peek(b, at.i, {"|", ")", "&", ";"}) THEN At(at.i, Wrap(execcmd(argv), at.rs))
  ELSE nextarg(b, at, argv, gettoken(b, at.i))

RECURSIVE parseline(_, _)

\* A parenthesised line and its redirections.
redirected(cmd, r) == IF r.i = 0 THEN Panic ELSE At(r.i, Wrap(cmd, r.rs))
closeblock(b, inner) ==
  IF inner.i = 0 \/ ~peek(b, inner.i, {")"}) THEN Panic
  ELSE redirected(inner.cmd, parseredirs(b, After(b, inner.i), <<>>))
parseblock(b, i) == closeblock(b, parseline(b, After(b, i)))

execargs(b, first) == IF first.i = 0 THEN Panic ELSE parseargs(b, first, <<>>)
parseexec(b, i) ==
  IF peek(b, i, {"("}) THEN parseblock(b, i)
  ELSE execargs(b, parseredirs(b, i, <<>>))

\* The command that joins the two sides of a |.
pipejoin(left, right) ==
  IF right.i = 0 THEN Panic ELSE At(right.i, pipecmd(left.cmd, right.cmd))

RECURSIVE parsepipe(_, _)
Bug_pipeto(b, left) ==
  IF left.i = 0 \/ ~peek(b, left.i, {"|"}) THEN left
  ELSE pipejoin(left, parseline(b, After(b, left.i)))
pipeto(b, left) ==
  IF left.i = 0 \/ ~peek(b, left.i, {"|"}) THEN left
  ELSE pipejoin(left, parsepipe(b, After(b, left.i)))
parsepipe(b, i) == pipeto(b, parseexec(b, i))

RECURSIVE parseback(_, _)
\* The loop of parseline() that takes every & after the command.
parseback(b, at) ==
  IF at.i = 0 \/ ~peek(b, at.i, {"&"}) THEN at
  ELSE parseback(b, At(After(b, at.i), backcmd(at.cmd)))

\* The command that joins the two sides of a ;.
listjoin(left, right) ==
  IF right.i = 0 THEN Panic ELSE At(right.i, listcmd(left.cmd, right.cmd))
listof(b, left) ==
  IF left.i = 0 \/ ~peek(b, left.i, {";"}) THEN left
  ELSE listjoin(left, parseline(b, After(b, left.i)))
parseline(b, i) == listof(b, parseback(b, parsepipe(b, i)))

\* Anything left over on the line is a syntax error.
wholeline(b, line) ==
  IF line.i = 0 \/ Skip(b, line.i) # Len(b) + 1 THEN Panic ELSE line
parsecmd(b) == wholeline(b, parseline(b, 1))

-----------------------------------------------------------------------------
(* The words as the programs get them *)

RECURSIVE Words(_)
\* The words of a command from left to right, a redirected command first.
Words(cmd) ==
  CASE cmd.type = "EXEC" -> cmd.argv
    [] cmd.type = "REDIR" -> Append(Words(cmd.cmd), cmd.file)
    [] cmd.type = "BACK" -> Words(cmd.cmd)
    [] OTHER -> Words(cmd.left) \o Words(cmd.right)

\* Every word is ended by a NUL in the line itself.
nulterminate(b, cmd) ==
  [k \in DOMAIN b |->
     IF \E w \in ToSet(Words(cmd)) : w[2] = k THEN NUL ELSE b[k]]

\* The string at position i, as exec() and open() read it.
String(b, i) ==
  SubSeq(b, i, (CHOOSE j \in i..Len(b) + 1 :
                  Ch(b, j) = NUL /\ \A k \in i..j - 1 : b[k] # NUL) - 1)

-----------------------------------------------------------------------------
(* runcmd: the descriptors of every program and of every shell that waits *)

Closed == <<"closed">>
Console == <<"console">>

close(fds, fd) == [fds EXCEPT ![fd] = Closed]

\* open() and dup() take the lowest descriptor that is free.
Lowest(fds) ==
  CHOOSE d \in 0..NOFILE - 1 :
    fds[d] = Closed /\ \A e \in 0..d - 1 : fds[e] # Closed
open(fds, file) == [fds EXCEPT ![Lowest(fds)] = file]
pipe(fds, id) == open(open(fds, <<"read", id>>), <<"write", id>>)

\* The child of a pipe puts one end on descriptor fd and closes both it got.
Plumb(fds, end, fd, r, w) ==
  close(close(open(close(fds, fd), fds[end]), r), w)

\* The parent closes both ends before it waits for the two children.
Bug_Parent(fds, r, w) == close(fds, r)
Parent(fds, r, w) == close(close(fds, r), w)

\* A process for the command at place at: a program, or a shell that waits
\* for the processes at the places below it.
Process(at, runs, fds) == [at |-> at, runs |-> runs, fds |-> fds]

RECURSIVE runcmd(_, _, _)
\* The processes of a command, each with its descriptors while it runs the
\* program or waits.  at is the place of the command in the tree and names
\* the pipe it makes.  The shell of BACK waits for nobody and exits.
runcmd(cmd, fds, at) ==
  CASE cmd.type = "EXEC" ->
         IF cmd.argv = <<>> THEN {} ELSE {Process(at, "program", fds)}
    [] cmd.type = "REDIR" ->
         LET fd == IF cmd.mode = "<" THEN 0 ELSE 1
         IN  runcmd(cmd.cmd, open(close(fds, fd), <<"file", cmd.file>>), Append(at, 0))
    [] cmd.type = "LIST" ->
         {Process(at, "wait", fds)} \cup runcmd(cmd.left, fds, Append(at, 1))
           \cup runcmd(cmd.right, fds, Append(at, 2))
    [] cmd.type = "PIPE" ->
         LET p == pipe(fds, at)
             r == CHOOSE d \in 0..NOFILE - 1 : p[d] = <<"read", at>>
             w == CHOOSE d \in 0..NOFILE - 1 : p[d] = <<"write", at>>
         IN  {Process(at, "wait", Parent(p, r, w))}
               \cup runcmd(cmd.left, Plumb(p, w, 1, r, w), Append(at, 1))
               \cup runcmd(cmd.right, Plumb(p, r, 0, r, w), Append(at, 2))
    [] cmd.type = "BACK" -> runcmd(cmd.cmd, fds, Append(at, 0))

\* main() has opened the console as descriptors 0, 1 and 2.
ShellFds == [d \in 0..NOFILE - 1 |-> IF d < 3 THEN Console ELSE Closed]
=============================================================================

--------------------------- MODULE MC_FileServer ----------------------------
(* Instances of FileServer for TLC. *)
EXTENDS FileServer, TLC

ServerMagic == <<9>>
\* Path 3 is another spelling of path 1.
Spellings == [n \in Paths |-> IF n = 3 THEN 1 ELSE n]

Cmd(op, from, to) == [op |-> op, src |-> from, dst |-> to, data |-> <<>>]

\* Every command.  Bytes go from file 1 to file 2, and back only when they are
\* decompressed, which keeps the contents few; the locks of a pair are asked
\* for in both orders.  <<1, 2>> compresses to more than MAX_FILE_SIZE bytes.
ServerCommands ==
  {[Cmd("SETFILE", 1, 1) EXCEPT !.data = s] : s \in {<<1, 1>>, <<1, 2>>}}
    \cup {Cmd("GETFILE", n, n) : n \in Paths}
    \cup {Cmd("DELFILE", n, n) : n \in Files}
    \cup {Cmd("RENAMEFILE", 1, n) : n \in Files} \cup {Cmd("COPYFILE", 1, n) : n \in {2, 3}}
    \cup {Cmd("STATFILE", 1, 1), Cmd("COMPRESS", 1, 2)}
    \cup {Cmd("DECOMPRESS", 2, n) : n \in Files}

Symmetry == Permutations(Clients)
=============================================================================

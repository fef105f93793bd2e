------------------------------ MODULE TtyLines ------------------------------
(***************************************************************************)
(* What the console promises those who read from it: they get what was     *)
(* typed, in order, a line at a time at most; a character can be erased    *)
(* until its line is complete and not after that; input beyond Size        *)
(* characters that nobody has read is dropped, all of it; an end of file   *)
(* ends one read that has got nothing, and no other.                       *)
(***************************************************************************)
EXTENDS Naturals, Sequences

CONSTANTS Plain, Newline, Eof, \* the characters
          Size, NoResult

VARIABLES lines,  \* characters a read can get
          edit,   \* the line that is being typed
          result  \* what this step delivered to a reader, or NoResult

tvars == <<lines, edit, result>>

TInit == lines = <<>> /\ edit = <<>> /\ result = NoResult

Type(c) ==
  LET line == Append(edit, c)
      ends == c \in {Newline, Eof} \/ Len(lines) + Len(line) = Size
  IN  /\ Len(lines) + Len(edit) < Size
      /\ lines' = IF ends THEN lines \o line ELSE lines
      /\ edit' = IF ends THEN <<>> ELSE line
      /\ result' = NoResult

Erase(k) ==
  /\ k \in 1..Len(edit)
  /\ edit' = SubSeq(edit, 1, Len(edit) - k)
  /\ result' = NoResult
  /\ UNCHANGED lines

\* A part of a line; the end of it is the last that a read gets.
Get(k) ==
  /\ k \in 1..Len(lines)
  /\ \A i \in 1..k : lines[i] # Eof /\ (lines[i] = Newline => i = k)
  /\ result' = SubSeq(lines, 1, k)
  /\ lines' = SubSeq(lines, k + 1, Len(lines))
  /\ UNCHANGED edit

End ==
  /\ lines # <<>> /\ lines[1] = Eof
  /\ result' = <<>>
  /\ lines' = Tail(lines)
  /\ UNCHANGED edit

\* A read to an address that does not exist loses a character.
Fault ==
  /\ lines # <<>> /\ lines[1] # Eof
  /\ lines' = Tail(lines)
  /\ result' = NoResult
  /\ UNCHANGED edit

Other ==
  /\ result' = NoResult
  /\ UNCHANGED <<lines, edit>>

TNext ==
  \/ \E c \in Plain \cup {Newline, Eof} : Type(c)
  \/ \E k \in 1..Size : Erase(k) \/ Get(k)
  \/ End \/ Fault \/ Other

TSpec == TInit /\ [][tvars' # tvars /\ TNext]_tvars
=============================================================================

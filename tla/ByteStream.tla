----------------------------- MODULE ByteStream -----------------------------
(***************************************************************************)
(* What a pipe promises: the bytes come out in the order in which they     *)
(* went in, each of them once; a read that delivers nothing has seen the   *)
(* end, which means that nobody can write any more and that all bytes have *)
(* been read.  Bytes go in one at a time: writes are not atomic.           *)
(***************************************************************************)
EXTENDS Naturals, Sequences

CONSTANTS Bytes, Size, NoResult

VARIABLES queue,  \* the bytes in the pipe
          open,   \* the ends that are open, a subset of {"r", "w"}
          result  \* what the step before, a read, delivered, or NoResult

svars == <<queue, open, result>>

SInit ==
  /\ queue = <<>>
  /\ open = {}
  /\ result = NoResult

Open ==
  /\ open = {}
  /\ open' = {"r", "w"}
  /\ queue' = <<>>
  /\ result' = NoResult

\* What is left in a pipe that nobody can read is lost.
Close(e) ==
  /\ e \in open
  /\ open' = open \ {e}
  /\ queue' = IF open' = {} THEN <<>> ELSE queue
  /\ result' = NoResult

Put(b) ==
  /\ open = {"r", "w"} /\ Len(queue) < Size
  /\ queue' = Append(queue, b)
  /\ result' = NoResult
  /\ UNCHANGED open

Take(k) ==
  /\ "r" \in open /\ k \in 1..Len(queue)
  /\ result' = SubSeq(queue, 1, k)
  /\ queue' = SubSeq(queue, k + 1, Len(queue))
  /\ UNCHANGED open

End ==
  /\ open = {"r"} /\ queue = <<>>
  /\ result' = <<>>
  /\ UNCHANGED <<queue, open>>

\* A step that does not concern the bytes.
Other ==
  /\ result' = NoResult
  /\ UNCHANGED <<queue, open>>

SNext ==
  \/ Open
  \/ \E e \in {"r", "w"} : Close(e)
  \/ \E b \in Bytes : Put(b)
  \/ \E k \in 1..Size : Take(k)
  \/ End \/ Other

SSpec == SInit /\ [][svars' # svars /\ SNext]_svars
=============================================================================

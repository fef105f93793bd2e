---------------------------- MODULE AtomicFiles -----------------------------
(***************************************************************************)
(* What the file server promises its clients: each command takes effect at *)
(* one moment between its request and its reply, as if the clients took    *)
(* turns.  A command that fails while it writes may leave a part of what   *)
(* it had to write; every other failure changes nothing.                   *)
(***************************************************************************)
EXTENDS Rle

CONSTANTS Clients, Files, Commands, Absent

VARIABLES files, \* contents of each file, or Absent
          call,  \* the command a client waits for, or Absent
          reply  \* the reply it is about to receive

avars == <<files, call, reply>>

Prefixes(s) == {SubSeq(s, 1, n) : n \in 0..Len(s)}

AInit ==
  /\ files = [f \in Files |-> Absent]
  /\ call = [c \in Clients |-> Absent]
  /\ reply = [c \in Clients |-> [kind |-> "none"]]

Call(c, m) ==
  /\ call[c] = Absent
  /\ call' = [call EXCEPT ![c] = m]
  /\ UNCHANGED <<files, reply>>

Ends(c, r) ==
  /\ call' = [call EXCEPT ![c] = Absent]
  /\ reply' = [reply EXCEPT ![c] = r]

\* The client has read the reply.
Return(c) ==
  /\ call[c] = Absent
  /\ reply' = [reply EXCEPT ![c] = [kind |-> "none"]]
  /\ UNCHANGED <<files, call>>

\* Any command may fail without having changed anything.
Fails(c) ==
  /\ call[c] # Absent
  /\ Ends(c, [kind |-> "err"])
  /\ UNCHANGED files

\* What the command puts into its destination, given what it finds.
\* COPYFILE of a file to itself empties it.
Output(m) ==
  CASE m.op = "SETFILE" -> m.data
    [] m.op = "COPYFILE" -> IF m.src = m.dst THEN <<>> ELSE files[m.src]
    [] m.op = "COMPRESS" -> rle_compress_bytes(files[m.src])
    [] m.op = "DECOMPRESS" -> rle_decompress_bytes(files[m.src])

Writes(m) ==
  \/ m.op = "SETFILE"
  \/ m.op = "COPYFILE" /\ files[m.src] # Absent
  \/ m.op = "COMPRESS" /\ files[m.src] # Absent
  \/ m.op = "DECOMPRESS" /\ files[m.src] # Absent /\ Decodable(files[m.src])

Write(c) ==
  /\ call[c] # Absent /\ Writes(call[c])
  /\ files' = [files EXCEPT ![call[c].dst] = Output(call[c])]
  /\ Ends(c, [kind |-> "ok"])

WriteFails(c) ==
  /\ call[c] # Absent /\ Writes(call[c])
  /\ \E s \in Prefixes(Output(call[c])) :
       files' = [files EXCEPT ![call[c].dst] = s]
  /\ Ends(c, [kind |-> "err"])

Get(c) ==
  /\ call[c] # Absent /\ call[c].op \in {"GETFILE", "STATFILE"}
  /\ LET s == files[call[c].src]
     IN  Ends(c, IF s = Absent THEN [kind |-> "null"]
                 ELSE IF call[c].op = "GETFILE" THEN [kind |-> "bulk", data |-> s]
                 ELSE [kind |-> "size", size |-> Len(s)])
  /\ UNCHANGED files

Delete(c) ==
  /\ call[c] # Absent /\ call[c].op = "DELFILE"
  /\ files' = [files EXCEPT ![call[c].src] = Absent]
  /\ Ends(c, [kind |-> "int", n |-> IF files[call[c].src] = Absent THEN 0 ELSE 1])

Rename(c) ==
  /\ call[c] # Absent /\ call[c].op = "RENAMEFILE" /\ files[call[c].src] # Absent
  /\ files' = [f \in Files |-> CASE f = call[c].dst -> files[call[c].src]
                                 [] f # call[c].dst /\ f = call[c].src -> Absent
                                 [] OTHER -> files[f]]
  /\ Ends(c, [kind |-> "ok"])

ANext ==
  \E c \in Clients :
    \/ \E m \in Commands : Call(c, m)
    \/ Return(c) \/ Fails(c) \/ Write(c) \/ WriteFails(c)
    \/ Get(c) \/ Delete(c) \/ Rename(c)

ASpec == AInit /\ [][ANext]_avars
=============================================================================

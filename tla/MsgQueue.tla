------------------------------ MODULE MsgQueue ------------------------------
(***************************************************************************)
(* The message queues of kernel/msg.c and the calls msgget, sendmsg,       *)
(* recvmsg and msgcount (kernel/sysproc.c).  A call runs under msgqlock    *)
(* from its first look at the table to its return, so it is one step.      *)
(*                                                                         *)
(* The bytes of a message are its identity: the number of the sendmsg that *)
(* copied them in.  A copyin or copyout that fails part of the way leaves  *)
(* Torn: a part of the bytes, and other bytes after them.                  *)
(***************************************************************************)
EXTENDS Integers, FiniteSets

CONSTANTS MAX_Q,       \* queues in msgq[]
          MAX_MSG,     \* messages in a queue
          MAX_MSG_LEN, \* bytes in a message
          Keys,        \* the keys passed to msgget
          NoKey,       \* key of a queue that is not used
          Types,       \* the message types used
          Lens,        \* the lengths passed to sendmsg and recvmsg
          MaxSent      \* bound: number of sendmsg calls that reach the copyin

ASSUME MsgAssumption ==
  /\ MAX_Q \in Nat \ {0}
  /\ MAX_MSG \in Nat \ {0}
  /\ MAX_MSG_LEN \in Nat \ {0}
  /\ NoKey \notin Keys
  /\ Types \subseteq Int
  /\ Lens \subseteq Int
  /\ MaxSent \in Nat

Queues == 0..MAX_Q - 1
Slots == 0..MAX_MSG - 1
Torn == -1

VARIABLES key,    \* key of each queue, NoKey when the queue is not used
          count,  \* messages counted in each queue
          valid,  \* the places <<queue, slot>> that hold a message
          type, len, msgdata, \* the fields of each place
          sent,   \* number of copyins begun by sendmsg
          got,    \* what the last call copied out, 0 when nothing
          res     \* what the last call returned

msgtable == <<key, count, valid, type, len, msgdata>>
msgvars == <<msgtable, sent, got, res>>

Places == Queues \X Slots
Used(q) == q \in Queues /\ key[q] # NoKey
ValidSlots(q) == {i \in Slots : <<q, i>> \in valid}

msginit ==
  /\ key = [q \in Queues |-> NoKey]
  /\ count = [q \in Queues |-> 0]
  /\ valid = {}
  /\ type = [a \in Places |-> 0]
  /\ len = [a \in Places |-> 0]
  /\ msgdata = [a \in Places |-> 0]
  /\ sent = 0
  /\ got = 0
  /\ res = 0

Returns(r) == res' = r /\ got' = 0

\* An early return: bad queue id, bad length, full queue, no message of the
\* type, or, in msgget, no queue left.
Fails == Returns(-1) /\ UNCHANGED <<msgtable, sent>>

-----------------------------------------------------------------------------

\* The queue of the key, or else the first unused queue.
sys_msgget(k) ==
  LET known == {q \in Queues : key[q] = k}
      free  == {q \in Queues : ~Used(q)}
  IN  \/ \E q \in known :
           /\ \A r \in known : q <= r
           /\ Returns(q)
           /\ UNCHANGED <<msgtable, sent>>
      \/ \E q \in free :
           /\ known = {} /\ \A r \in free : q <= r
           /\ key' = [key EXCEPT ![q] = k]
           /\ count' = [count EXCEPT ![q] = 0]
           /\ Returns(q)
           /\ UNCHANGED <<valid, type, len, msgdata, sent>>
      \/ known = {} /\ free = {} /\ Fails

\* sendmsg before the copyin: the checks, and the first slot that is not valid.
SendRejected(q, n) ==
  \/ ~Used(q)
  \/ n <= 0 \/ n > MAX_MSG_LEN
  \/ Used(q) /\ count[q] = MAX_MSG
  \/ Used(q) /\ ValidSlots(q) = Slots

sendmsg_rejected(q, n) == SendRejected(q, n) /\ Fails

FirstFree(q, i) ==
  /\ i \in Slots \ ValidSlots(q)
  /\ \A j \in Slots \ ValidSlots(q) : i <= j

\* Type and length are stored before the copyin, valid and count after it.
sys_sendmsg(q, t, n, ok) ==
  /\ sent < MaxSent /\ ~SendRejected(q, n)
  /\ sent' = sent + 1
  /\ \E i \in Slots :
       /\ FirstFree(q, i)
       /\ type' = [type EXCEPT ![<<q, i>>] = t]
       /\ len' = [len EXCEPT ![<<q, i>>] = n]
       /\ msgdata' = [msgdata EXCEPT ![<<q, i>>] = IF ok THEN sent + 1 ELSE Torn]
       /\ valid' = IF ok THEN valid \cup {<<q, i>>} ELSE valid
       /\ count' = IF ok THEN [count EXCEPT ![q] = @ + 1] ELSE count
  /\ Returns(IF ok THEN 0 ELSE -1)
  /\ UNCHANGED key

\* recvmsg: the slots that hold a message of type t.
Matching(q, t) == {i \in ValidSlots(q) : type[<<q, i>>] = t}

recvmsg_rejected(q, t) ==
  /\ ~Used(q) \/ Matching(q, t) = {}
  /\ Fails

CopyFails == res' = -1 /\ got' = Torn

\* copylen
Bug_Smaller(m, n) == IF m < n THEN n ELSE m
Smaller(m, n) == IF m < n THEN m ELSE n

\* The first match is copied out, cut to the buffer, and removed.  When the
\* copyout fails the message stays, but a part of it may be in the caller's
\* buffer.  A negative length fails always: copyout() takes it for a huge one,
\* and copies what follows the message in the kernel too until it comes to an
\* address that is not the user's to write.
Bug_sys_recvmsg(q, t, n, ok) ==
  /\ Used(q)
  /\ \E i \in Matching(q, t) :
       /\ \A j \in Matching(q, t) : i <= j
       /\ IF ok /\ n >= 0
            THEN /\ valid' = valid \ {<<q, i>>}
                 /\ res' = Smaller(len[<<q, i>>], n)
                 /\ got' = msgdata[<<q, i>>]
                 /\ UNCHANGED count
            ELSE CopyFails /\ UNCHANGED <<valid, count>>
  /\ UNCHANGED <<key, type, len, msgdata, sent>>
sys_recvmsg(q, t, n, ok) ==
  /\ Used(q)
  /\ \E i \in Matching(q, t) :
       /\ \A j \in Matching(q, t) : i <= j
       /\ IF ok /\ n >= 0
            THEN /\ valid' = valid \ {<<q, i>>}
                 /\ count' = [count EXCEPT ![q] = @ - 1]
                 /\ res' = Smaller(len[<<q, i>>], n)
                 /\ got' = msgdata[<<q, i>>]
            ELSE CopyFails /\ UNCHANGED <<valid, count>>
  /\ UNCHANGED <<key, type, len, msgdata, sent>>

sys_msgcount(q) ==
  \/ Used(q) /\ Returns(count[q]) /\ UNCHANGED <<msgtable, sent>>
  \/ ~Used(q) /\ Fails

-----------------------------------------------------------------------------

\* A queue id may be anything; MAX_Q stands for every id out of range.
MsgNext ==
  \/ \E k \in Keys : sys_msgget(k)
  \/ \E q \in Queues \cup {MAX_Q} :
       \/ sys_msgcount(q)
       \/ \E n \in Lens : sendmsg_rejected(q, n)
       \/ \E t \in Types : recvmsg_rejected(q, t)
       \/ \E t \in Types, n \in Lens, ok \in BOOLEAN :
            sys_sendmsg(q, t, n, ok) \/ sys_recvmsg(q, t, n, ok)

MsgSpec == msginit /\ [][MsgNext]_msgvars

-----------------------------------------------------------------------------
(* Properties *)

\* Every variable holds a value of its kind.
MsgTypes ==
  /\ key \in [Queues -> Keys \cup {NoKey}]
  /\ count \in [Queues -> 0..MAX_MSG]
  /\ valid \subseteq Places
  /\ type \in [Places -> Int]
  /\ len \in [Places -> Int]
  /\ msgdata \in [Places -> Int]
  /\ sent \in Nat
  /\ got \in Int
  /\ res \in Int

\* count is the number of valid messages, so that the full test of sendmsg and
\* the slot search never disagree, and msgcount is right.
CountIsValid ==
  \A q \in Queues : count[q] = Cardinality(ValidSlots(q))

\* README: "key is used to identify the queue uniquely".
KeysNameQueues ==
  \A q, r \in Queues : key[q] = key[r] /\ key[q] # NoKey => q = r

\* The table stays consistent through every call, failing ones included: a key
\* names one queue and a count is the number of messages.
TableIsConsistent == MsgTypes /\ CountIsValid /\ KeysNameQueues

\* The abstract mailboxes this table implements.
Message(a) == [id |-> msgdata[a], type |-> type[a], len |-> len[a]]
Inbox == [q \in Queues |-> {Message(<<q, i>>) : i \in ValidSlots(q)}]
M == INSTANCE Mailbox WITH name <- key, inbox <- Inbox

\* The calls implement the mailboxes: every call is an open, a send, a receive
\* or a count of the mailbox specification, or fails and changes nothing but
\* the caller's buffer.
ImplementsMailbox == M!MSpec
=============================================================================

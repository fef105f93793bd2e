------------------------------ MODULE Mailbox ------------------------------
(***************************************************************************)
(* What the message queue system calls promise: a key names one mailbox,   *)
(* and a mailbox holds at most MAX_MSG messages.  A message is delivered   *)
(* at most once, to a receiver that asked for its type, with the contents  *)
(* it was sent with; a call that fails changes no mailbox.  Nothing is     *)
(* promised of the buffer of a receive that fails, and no order between    *)
(* messages.                                                               *)
(***************************************************************************)
EXTENDS Integers, FiniteSets

CONSTANTS Queues,   \* the queue ids
          Keys,     \* the keys programs use
          NoKey,    \* no key has been given the queue
          MAX_MSG,  \* capacity of a mailbox
          Types,    \* the message types
          Lens      \* the lengths of messages and of buffers

VARIABLES name,   \* the key of each mailbox
          inbox,  \* the messages in each mailbox
          sent,   \* number of sends begun: identifies the messages
          got,    \* the message the last call delivered, 0 for none
          res     \* what the last call returned

mvars == <<name, inbox, sent, got, res>>

MInit ==
  /\ name = [q \in Queues |-> NoKey]
  /\ inbox = [q \in Queues |-> {}]
  /\ sent = 0
  /\ got = 0
  /\ res = 0

\* The mailbox of key k, made when the key is new.
Open(k) ==
  /\ \E q \in Queues :
       /\ \/ name[q] = k
          \/ name[q] = NoKey /\ \A r \in Queues : name[r] # k
       /\ name' = [name EXCEPT ![q] = k]
       /\ res' = q
  /\ got' = 0
  /\ UNCHANGED <<inbox, sent>>

Send(q, t, n) ==
  /\ name[q] # NoKey
  /\ Cardinality(inbox[q]) < MAX_MSG
  /\ sent' = sent + 1
  /\ inbox' = [inbox EXCEPT ![q] = @ \cup {[id |-> sent + 1, type |-> t, len |-> n]}]
  /\ got' = 0 /\ res' = 0
  /\ UNCHANGED name

Receive(q, t, n) ==
  /\ name[q] # NoKey
  /\ \E m \in inbox[q] :
       /\ m.type = t
       /\ inbox' = [inbox EXCEPT ![q] = @ \ {m}]
       /\ got' = m.id
       /\ res' = IF m.len < n THEN m.len ELSE n
  /\ UNCHANGED <<name, sent>>

\* msgcount
Count(q) ==
  /\ name[q] # NoKey
  /\ res' = Cardinality(inbox[q])
  /\ got' = 0
  /\ UNCHANGED <<name, inbox, sent>>

\* Torn stands for whatever a failing receive has put into the buffer.
Torn == -1
Fail ==
  /\ got' \in {0, Torn} /\ res' = -1
  /\ sent' \in {sent, sent + 1}
  /\ UNCHANGED <<name, inbox>>

MNext ==
  \/ \E k \in Keys : Open(k)
  \/ \E q \in Queues :
       \/ Count(q)
       \/ \E t \in Types, n \in Lens : Send(q, t, n) \/ Receive(q, t, n)
  \/ Fail

MSpec == MInit /\ [][MNext]_mvars
=============================================================================

--------------------------- MODULE MsgQueueProofs ---------------------------
(***************************************************************************)
(* Proofs about the message queues (MsgQueue): for any number of queues,   *)
(* slots, keys, types and lengths the table stays consistent, and the      *)
(* calls implement the mailboxes of module Mailbox.                        *)
(***************************************************************************)
EXTENDS MsgQueue, FiniteSetTheorems, TLAPS

\* The inductive invariant: besides, an unused queue is empty (msgget sets its
\* count to 0 and looks at no slot), and the messages in the table are
\* different ones that were really sent.
MsgInv ==
  /\ TableIsConsistent
  /\ \A q \in Queues : key[q] = NoKey => ValidSlots(q) = {}
  /\ \A a \in valid : msgdata[a] \in 1..sent
  /\ \A a, b \in valid : msgdata[a] = msgdata[b] => a = b

\* The slots of a queue can be counted.
LEMMA SlotsAreFinite ==
  ASSUME NEW q
  PROVE  /\ IsFiniteSet(ValidSlots(q)) /\ Cardinality(ValidSlots(q)) \in Nat
         /\ ValidSlots(q) # {} => Cardinality(ValidSlots(q)) >= 1
<1>1. MAX_MSG - 1 \in Int
  BY MsgAssumption
<1>2. IsFiniteSet(Slots)
  BY <1>1, FS_Interval DEF Slots
<1>3. ValidSlots(q) \in SUBSET Slots
  BY Zenon DEF ValidSlots
<1>4. IsFiniteSet(ValidSlots(q))
  BY <1>2, <1>3, FS_Subset, Zenon
<1>5. Cardinality(ValidSlots(q)) \in Nat
  BY <1>4, FS_CardinalityType, Zenon
<1> QED
  BY <1>4, <1>5, FS_EmptySet

-----------------------------------------------------------------------------
(* The table *)

\* A call that leaves the table as it is.
LEMMA TableStays ==
  ASSUME MsgInv, UNCHANGED <<msgtable, sent>>, got' \in Int, res' \in Int
  PROVE  MsgInv'
BY DEF MsgInv, TableIsConsistent, MsgTypes, CountIsValid, KeysNameQueues, ValidSlots, msgtable

LEMMA MsgInitially == ASSUME msginit PROVE MsgInv
<1>1. \A q \in Queues : ValidSlots(q) = {}
  BY Zenon DEF msginit, ValidSlots
<1>2. MsgTypes
  BY MsgAssumption DEF msginit, MsgTypes
<1>3. CountIsValid
  BY <1>1, FS_EmptySet, Zenon DEF msginit, CountIsValid
<1>4. KeysNameQueues
  BY Zenon DEF msginit, KeysNameQueues
<1> QED
  BY <1>1, <1>2, <1>3, <1>4, Zenon DEF MsgInv, TableIsConsistent, msginit

\* msgget gives a new key an unused queue, which is empty.
LEMMA MsggetKeeps ==
  ASSUME MsgInv, NEW k \in Keys, sys_msgget(k)
  PROVE  MsgInv'
<1>1. ASSUME NEW q \in Queues, Returns(q), UNCHANGED <<msgtable, sent>>
      PROVE  MsgInv'
  BY <1>1, TableStays, MsgAssumption DEF Returns, Queues
<1>2. ASSUME Fails PROVE MsgInv'
  BY <1>2, TableStays DEF Fails, Returns
<1>3. ASSUME NEW q \in Queues, ~Used(q), \A r \in Queues : key[r] # k,
             key' = [key EXCEPT ![q] = k], count' = [count EXCEPT ![q] = 0],
             Returns(q), UNCHANGED <<valid, type, len, msgdata, sent>>
      PROVE  MsgInv'
  <2>1. \A r \in Queues : /\ key'[r] = IF r = q THEN k ELSE key[r]
                          /\ count'[r] = IF r = q THEN 0 ELSE count[r]
    BY <1>3, Zenon DEF MsgInv, TableIsConsistent, MsgTypes
  <2>2. k # NoKey /\ key[q] = NoKey
    BY <1>3, MsgAssumption, Zenon DEF Used
  <2>3. MsgTypes'
    <3>1. key' \in [Queues -> Keys \cup {NoKey}]
      BY <1>3, Zenon DEF MsgInv, TableIsConsistent, MsgTypes
    <3>2. count' \in [Queues -> 0..MAX_MSG]
      BY <1>3, MsgAssumption DEF MsgInv, TableIsConsistent, MsgTypes
    <3>3. got' \in Int /\ res' \in Int
      BY <1>3, MsgAssumption DEF Returns, Queues
    <3> QED
      BY <1>3, <3>1, <3>2, <3>3, Zenon DEF MsgInv, TableIsConsistent, MsgTypes
  <2>4. \A r \in Queues : ValidSlots(r)' = ValidSlots(r)
    BY <1>3, Zenon DEF ValidSlots
  <2>5. Cardinality(ValidSlots(q)) = 0
    BY <2>2, FS_EmptySet, Zenon DEF MsgInv
  <2>6. CountIsValid'
    BY <2>1, <2>4, <2>5, Zenon DEF MsgInv, TableIsConsistent, CountIsValid
  <2>7. KeysNameQueues'
    BY <1>3, <2>1 DEF MsgInv, TableIsConsistent, KeysNameQueues
  <2>8. \A r \in Queues : key'[r] = NoKey => ValidSlots(r)' = {}
    BY <2>1, <2>2, <2>4, Zenon DEF MsgInv
  <2> QED
    BY <1>3, <2>3, <2>6, <2>7, <2>8, Zenon DEF MsgInv, TableIsConsistent
<1> QED
  BY <1>1, <1>2, <1>3, Zenon DEF sys_msgget

\* What sendmsg does to the place it chooses.
Placed(q, i, t, n, ok) ==
  /\ FirstFree(q, i)
  /\ type' = [type EXCEPT ![<<q, i>>] = t]
  /\ len' = [len EXCEPT ![<<q, i>>] = n]
  /\ msgdata' = [msgdata EXCEPT ![<<q, i>>] = IF ok THEN sent + 1 ELSE Torn]
  /\ valid' = IF ok THEN valid \cup {<<q, i>>} ELSE valid
  /\ count' = IF ok THEN [count EXCEPT ![q] = @ + 1] ELSE count

LEMMA SendPlaces ==
  ASSUME MsgInv, NEW q, NEW t, NEW n, NEW ok \in BOOLEAN, sys_sendmsg(q, t, n, ok)
  PROVE  /\ Used(q) /\ q \in Queues /\ count[q] # MAX_MSG
         /\ \E i \in Slots : Placed(q, i, t, n, ok)
         /\ sent' = sent + 1 /\ got' = 0 /\ res' \in {0, -1}
         /\ UNCHANGED key
BY Zenon DEF sys_sendmsg, SendRejected, Used, Placed, Returns

\* sendmsg counts the message it has put into a free slot; a copyin that fails
\* leaves the slot free.
LEMMA SendKeeps ==
  ASSUME MsgInv, NEW q, NEW t \in Types, NEW n \in Lens, NEW ok \in BOOLEAN,
         sys_sendmsg(q, t, n, ok)
  PROVE  MsgInv'
<1>1. /\ key[q] # NoKey /\ q \in Queues /\ count[q] # MAX_MSG
      /\ sent' = sent + 1 /\ got' = 0 /\ res' \in {0, -1} /\ key' = key
  BY SendPlaces, Zenon DEF Used
<1>2. PICK i \in Slots : Placed(q, i, t, n, ok)
  BY SendPlaces, Zenon
<1> DEFINE a == <<q, i>>
<1>3. a \in Places /\ a \notin valid /\ i \notin ValidSlots(q)
  BY <1>1, <1>2, Zenon DEF Placed, FirstFree, ValidSlots, Places
<1>4. /\ type' \in [Places -> Int] /\ len' \in [Places -> Int]
      /\ msgdata' \in [Places -> Int]
      /\ msgdata'[a] = IF ok THEN sent + 1 ELSE Torn
      /\ \A c \in Places \ {a} : msgdata'[c] = msgdata[c]
  BY <1>2, <1>3, MsgAssumption DEF Placed, Torn, MsgInv, TableIsConsistent, MsgTypes
<1>5. /\ sent \in Nat /\ valid \subseteq Places
      /\ \A c \in valid : msgdata[c] \in 1..sent /\ c # a
      /\ \A c, d \in valid : msgdata[c] = msgdata[d] => c = d
  BY <1>3, Zenon DEF MsgInv, TableIsConsistent, MsgTypes
<1>6. got' \in Int /\ res' \in Int /\ sent' \in Nat
  BY <1>1, <1>5
<1>7. CASE ~ok
  <2>1. valid' = valid /\ count' = count
    BY <1>2, <1>7, Zenon DEF Placed
  <2>2. MsgTypes'
    BY <1>1, <1>4, <1>6, <2>1, Zenon DEF MsgInv, TableIsConsistent, MsgTypes
  <2>3. CountIsValid' /\ KeysNameQueues'
    BY <1>1, <2>1 DEF MsgInv, TableIsConsistent, CountIsValid, KeysNameQueues, ValidSlots
  <2>4. \A r \in Queues : key'[r] = NoKey => ValidSlots(r)' = {}
    BY <1>1, <2>1, Zenon DEF MsgInv, ValidSlots
  <2>5. \A c \in valid' : msgdata'[c] = msgdata[c] /\ msgdata'[c] \in 1..sent'
    BY <1>1, <1>4, <1>5, <2>1
  <2> QED
    BY <1>5, <2>1, <2>2, <2>3, <2>4, <2>5 DEF MsgInv, TableIsConsistent
<1>8. CASE ok
  <2>1. valid' = valid \cup {a} /\ count' = [count EXCEPT ![q] = @ + 1]
          /\ msgdata'[a] = sent + 1
    BY <1>2, <1>4, <1>8, Zenon DEF Placed
  <2>2. \A r \in Queues : count'[r] = IF r = q THEN count[q] + 1 ELSE count[r]
    BY <2>1, Zenon DEF MsgInv, TableIsConsistent, MsgTypes
  <2>3. MsgTypes'
    <3>1. count[q] + 1 \in 0..MAX_MSG
      BY <1>1, MsgAssumption DEF MsgInv, TableIsConsistent, MsgTypes
    <3>2. count' \in [Queues -> 0..MAX_MSG]
      BY <2>1, <3>1, Zenon DEF MsgInv, TableIsConsistent, MsgTypes
    <3> QED
      BY <1>1, <1>3, <1>4, <1>6, <2>1, <3>2, Zenon DEF MsgInv, TableIsConsistent, MsgTypes
  <2>4. /\ ValidSlots(q)' = ValidSlots(q) \cup {i}
        /\ \A r \in Queues \ {q} : ValidSlots(r)' = ValidSlots(r)
    BY <2>1, Zenon DEF ValidSlots
  <2>5. Cardinality(ValidSlots(q) \cup {i}) = Cardinality(ValidSlots(q)) + 1
    BY <1>3, SlotsAreFinite, FS_AddElement, Zenon
  <2>6. CountIsValid'
    BY <2>2, <2>4, <2>5, Zenon DEF MsgInv, TableIsConsistent, CountIsValid
  <2>7. KeysNameQueues'
    BY <1>1, Zenon DEF MsgInv, TableIsConsistent, KeysNameQueues
  <2>8. \A r \in Queues : key'[r] = NoKey => ValidSlots(r)' = {}
    BY <1>1, <2>4, Zenon DEF MsgInv
  <2>9. \A c \in valid : msgdata'[c] = msgdata[c] /\ msgdata'[c] # sent + 1
          /\ msgdata'[c] \in 1..sent'
    BY <1>1, <1>4, <1>5
  <2>10. /\ \A c \in valid' : msgdata'[c] \in 1..sent'
         /\ \A c, d \in valid' : msgdata'[c] = msgdata'[d] => c = d
    BY <1>1, <1>5, <2>1, <2>9
  <2> QED
    BY <2>3, <2>6, <2>7, <2>8, <2>10, Zenon DEF MsgInv, TableIsConsistent
<1> QED
  BY <1>7, <1>8, Zenon

\* recvmsg takes the message from its place and from the count, or neither.
LEMMA RecvKeeps ==
  ASSUME MsgInv, NEW q, NEW t \in Types, NEW n \in Lens, NEW ok \in BOOLEAN,
         sys_recvmsg(q, t, n, ok)
  PROVE  MsgInv'
<1>1. key[q] # NoKey /\ q \in Queues /\ UNCHANGED <<key, type, len, msgdata, sent>>
  BY Zenon DEF sys_recvmsg, Used
<1>2. CASE CopyFails /\ UNCHANGED <<valid, count>>
  BY <1>1, <1>2, TableStays DEF CopyFails, Torn, msgtable
<1>3. ASSUME NEW i \in Matching(q, t),
             valid' = valid \ {<<q, i>>}, count' = [count EXCEPT ![q] = @ - 1],
             res' = Smaller(len[<<q, i>>], n), got' = msgdata[<<q, i>>]
      PROVE  MsgInv'
  <2>1. i \in ValidSlots(q) /\ <<q, i>> \in Places
    BY <1>1, <1>3, Zenon DEF Matching, ValidSlots, Places
  <2>2. \A r \in Queues : count'[r] = IF r = q THEN count[q] - 1 ELSE count[r]
    BY <1>3, Zenon DEF MsgInv, TableIsConsistent, MsgTypes
  <2>3. count[q] >= 1 /\ count[q] \in 0..MAX_MSG
    BY <1>1, <2>1, SlotsAreFinite DEF MsgInv, TableIsConsistent, CountIsValid, MsgTypes
  <2>4. MsgTypes'
    <3>1. count[q] - 1 \in 0..MAX_MSG
      BY <2>3, MsgAssumption
    <3>2. count' \in [Queues -> 0..MAX_MSG]
      BY <1>3, <3>1, Zenon DEF MsgInv, TableIsConsistent, MsgTypes
    <3>3. res' \in Int /\ got' \in Int
      BY <1>3, <2>1, MsgAssumption, Zenon DEF Smaller, MsgInv, TableIsConsistent, MsgTypes
    <3> QED
      BY <1>1, <1>3, <3>2, <3>3, Zenon DEF MsgInv, TableIsConsistent, MsgTypes
  <2>5. /\ ValidSlots(q)' = ValidSlots(q) \ {i}
        /\ \A r \in Queues \ {q} : ValidSlots(r)' = ValidSlots(r)
    BY <1>3, Zenon DEF ValidSlots
  <2>6. Cardinality(ValidSlots(q) \ {i}) = Cardinality(ValidSlots(q)) - 1
    BY <2>1, SlotsAreFinite, FS_RemoveElement, Zenon
  <2>7. CountIsValid'
    BY <2>2, <2>5, <2>6, Zenon DEF MsgInv, TableIsConsistent, CountIsValid
  <2>8. KeysNameQueues'
    BY <1>1, Zenon DEF MsgInv, TableIsConsistent, KeysNameQueues
  <2>9. \A r \in Queues : key'[r] = NoKey => ValidSlots(r)' = {}
    BY <1>1, <2>5, Zenon DEF MsgInv
  <2> QED
    BY <1>1, <1>3, <2>4, <2>7, <2>8, <2>9, Zenon DEF MsgInv, TableIsConsistent
<1> QED
  BY <1>2, <1>3, Zenon DEF sys_recvmsg

LEMMA MsgStep == ASSUME MsgInv, [MsgNext]_msgvars PROVE MsgInv'
<1>1. ASSUME NEW q, sys_msgcount(q) PROVE MsgInv'
  <2>1. CASE Fails
    BY <2>1, TableStays DEF Fails, Returns
  <2>2. CASE Used(q) /\ Returns(count[q]) /\ UNCHANGED <<msgtable, sent>>
    BY <2>2, TableStays, MsgAssumption
       DEF Returns, Used, MsgInv, TableIsConsistent, MsgTypes
  <2> QED
    BY <1>1, <2>1, <2>2, Zenon DEF sys_msgcount
<1>2. ASSUME Fails PROVE MsgInv'
  BY <1>2, TableStays DEF Fails, Returns
<1>3. CASE UNCHANGED msgvars
  BY <1>3, TableStays, Zenon DEF msgvars, MsgInv, TableIsConsistent, MsgTypes
<1> QED
  BY <1>1, <1>2, <1>3, MsggetKeeps, SendKeeps, RecvKeeps, Zenon
     DEF MsgNext, sendmsg_rejected, recvmsg_rejected

\* The inductive invariant of the message queues.
THEOREM MsgInvariant == MsgSpec => []MsgInv
<1>1. msginit => MsgInv
  BY MsgInitially, Zenon
<1>2. MsgInv /\ [MsgNext]_msgvars => MsgInv'
  BY MsgStep, Zenon
<1> QED
  BY <1>1, <1>2, PTL DEF MsgSpec

\* Through every call, failing ones included, a key names one queue and a count
\* is the number of messages in the queue, for tables of every size.
THEOREM TableStaysConsistent == MsgSpec => []TableIsConsistent
<1>1. MsgInv => TableIsConsistent
  BY Zenon DEF MsgInv
<1> QED
  BY <1>1, MsgInvariant, PTL

-----------------------------------------------------------------------------
(* The refinement *)

\* The messages of a queue are as many as its valid slots: no two are the same.
LEMMA InboxSize ==
  ASSUME MsgInv, NEW q \in Queues
  PROVE  Cardinality(Inbox[q]) = count[q] /\ M!Cardinality(Inbox[q]) = count[q]
<1> DEFINE S == ValidSlots(q)
           msg(i) == Message(<<q, i>>)
           f == [i \in S |-> msg(i)]
<1>1. \A i, j \in S : msg(i) = msg(j) => i = j
  <2> SUFFICES ASSUME NEW i \in S, NEW j \in S, msg(i) = msg(j) PROVE i = j
    BY Zenon
  <2>1. msgdata[<<q, i>>] = msgdata[<<q, j>>]
    BY Zenon DEF Message
  <2>2. <<q, i>> \in valid /\ <<q, j>> \in valid
    BY Zenon DEF ValidSlots
  <2>3. <<q, i>> = <<q, j>>
    BY <2>1, <2>2, Zenon DEF MsgInv
  <2> QED
    BY <2>3, Zenon
<1>2. Inbox[q] = {msg(i) : i \in S}
  BY Zenon DEF Inbox
<1> HIDE DEF msg, S
<1>3. f \in Bijection(S, {msg(i) : i \in S})
  BY <1>1, Zenon DEF Bijection, Injection, IsInjective, Surjection
<1>4. ExistsBijection(S, {msg(i) : i \in S})
  BY <1>3, Zenon DEF ExistsBijection
<1>5. IsFiniteSet(S)
  BY SlotsAreFinite, Zenon DEF S
<1>6. Cardinality({msg(i) : i \in S}) = Cardinality(S)
  BY <1>4, <1>5, FS_Bijection, Zenon
<1>7. Cardinality(S) = count[q]
  BY Zenon DEF S, MsgInv, TableIsConsistent, CountIsValid
<1>8. M!Cardinality(Inbox[q]) = Cardinality(Inbox[q])
  BY Zenon DEF Cardinality, M!Cardinality
<1> QED
  BY <1>2, <1>6, <1>7, <1>8, Zenon

\* The inboxes depend only on the valid places.
LEMMA InboxStays ==
  ASSUME valid' = valid,
         \A a \in valid : msgdata'[a] = msgdata[a] /\ type'[a] = type[a] /\ len'[a] = len[a]
  PROVE  Inbox' = Inbox
<1>1. \A q \in Queues : {Message(<<q, i>>) : i \in ValidSlots(q)}'
                          = {Message(<<q, i>>) : i \in ValidSlots(q)}
  BY Zenon DEF Message, ValidSlots
<1> QED
  BY <1>1, Zenon DEF Inbox

LEMMA FailsRefines == ASSUME Fails PROVE M!Fail
<1>1. Inbox' = Inbox /\ key' = key /\ sent' = sent
  BY InboxStays, Zenon DEF Fails, msgtable
<1> QED
  BY <1>1, Zenon DEF Fails, Returns, M!Fail

LEMMA MsggetRefines ==
  ASSUME MsgInv, NEW k \in Keys, sys_msgget(k)
  PROVE  M!MNext
<1>1. CASE Fails
  BY <1>1, FailsRefines, Zenon DEF M!MNext
<1>2. ASSUME NEW q \in Queues, Returns(q), key' = [key EXCEPT ![q] = k],
             key[q] = k \/ (key[q] = NoKey /\ \A r \in Queues : key[r] # k),
             UNCHANGED <<valid, type, len, msgdata, sent>>
      PROVE  M!MNext
  <2>1. Inbox' = Inbox
    BY <1>2, InboxStays, Zenon
  <2>2. M!Open(k)
    BY <1>2, <2>1, Zenon DEF M!Open, Returns
  <2> QED
    BY <2>2, Zenon DEF M!MNext
<1>3. ASSUME NEW q \in Queues, key[q] = k, Returns(q), UNCHANGED <<msgtable, sent>>
      PROVE  M!MNext
  <2>1. key' = [key EXCEPT ![q] = k]
    BY <1>3, Zenon DEF msgtable, MsgInv, TableIsConsistent, MsgTypes
  <2> QED
    BY <1>2, <1>3, <2>1, Zenon DEF msgtable
<1>4. ASSUME NEW q \in Queues, ~Used(q), {r \in Queues : key[r] = k} = {},
             key' = [key EXCEPT ![q] = k],
             Returns(q), UNCHANGED <<valid, type, len, msgdata, sent>>
      PROVE  M!MNext
  <2>1. key[q] = NoKey /\ \A r \in Queues : key[r] # k
    BY <1>4, Zenon DEF Used
  <2> QED
    BY <1>2, <1>4, <2>1, Zenon
<1> QED
  BY <1>1, <1>3, <1>4, Zenon DEF sys_msgget

LEMMA SendRefines ==
  ASSUME MsgInv, NEW q, NEW t \in Types, NEW n \in Lens, NEW ok \in BOOLEAN,
         sys_sendmsg(q, t, n, ok)
  PROVE  M!MNext
<1>1. /\ key[q] # NoKey /\ q \in Queues /\ count[q] # MAX_MSG
      /\ sent' = sent + 1 /\ got' = 0 /\ key' = key
      /\ res' = IF ok THEN 0 ELSE -1
  BY SendPlaces, Zenon DEF Used, sys_sendmsg, Returns
<1>2. PICK i \in Slots : Placed(q, i, t, n, ok)
  BY SendPlaces
<1> DEFINE a == <<q, i>>
<1>3. a \in Places /\ a \notin valid /\ valid \subseteq Places
  BY <1>1, <1>2, Zenon
     DEF Placed, FirstFree, ValidSlots, Places, MsgInv, TableIsConsistent, MsgTypes
<1>4. /\ msgdata'[a] = (IF ok THEN sent + 1 ELSE Torn) /\ type'[a] = t /\ len'[a] = n
      /\ \A c \in valid : msgdata'[c] = msgdata[c] /\ type'[c] = type[c] /\ len'[c] = len[c]
  BY <1>2, <1>3, Zenon DEF Placed, MsgInv, TableIsConsistent, MsgTypes
<1>5. CASE ~ok
  <2>1. valid' = valid
    BY <1>2, <1>5, Zenon DEF Placed
  <2>2. Inbox' = Inbox
    BY <1>4, <2>1, InboxStays, Zenon
  <2>3. M!Fail
    BY <1>1, <1>5, <2>2, Zenon DEF M!Fail
  <2> QED
    BY <2>3, Zenon DEF M!MNext
<1>6. CASE ok
  <2> DEFINE m == [id |-> sent + 1, type |-> t, len |-> n]
  <2>1. valid' = valid \cup {a}
    BY <1>2, <1>6, Zenon DEF Placed
  <2>2. Message(a)' = m
    BY <1>4, <1>6, Zenon DEF Message
  <2>3. \A c \in valid : Message(c)' = Message(c)
    BY <1>4, Zenon DEF Message
  <2>4. {Message(<<q, j>>) : j \in ValidSlots(q)}'
          = {Message(<<q, j>>) : j \in ValidSlots(q)} \cup {m}
    BY <2>1, <2>2, <2>3, Zenon DEF ValidSlots
  <2>5. \A r \in Queues \ {q} : {Message(<<r, j>>) : j \in ValidSlots(r)}'
          = {Message(<<r, j>>) : j \in ValidSlots(r)}
    BY <2>1, <2>3, Zenon DEF ValidSlots
  <2>6. Inbox' = [Inbox EXCEPT ![q] = @ \cup {m}]
    BY <1>1, <2>4, <2>5, Zenon DEF Inbox
  <2>7. M!Cardinality(Inbox[q]) < MAX_MSG
    BY <1>1, InboxSize, MsgAssumption DEF MsgInv, TableIsConsistent, MsgTypes
  <2>8. M!Send(q, t, n)
    BY <1>1, <1>6, <2>6, <2>7, Zenon DEF M!Send
  <2> QED
    BY <1>1, <2>8, Zenon DEF M!MNext
<1> QED
  BY <1>5, <1>6, Zenon

LEMMA RecvRefines ==
  ASSUME MsgInv, NEW q, NEW t \in Types, NEW n \in Lens, NEW ok \in BOOLEAN,
         sys_recvmsg(q, t, n, ok)
  PROVE  M!MNext
<1>1. key[q] # NoKey /\ q \in Queues /\ UNCHANGED <<key, type, len, msgdata, sent>>
  BY DEF sys_recvmsg, Used
<1>2. CASE CopyFails /\ UNCHANGED <<valid, count>>
  <2>1. Inbox' = Inbox /\ key' = key /\ sent' = sent
    BY <1>1, <1>2, InboxStays, Zenon DEF msgtable
  <2>2. M!Fail
    BY <1>2, <2>1, Zenon DEF CopyFails, Torn, M!Torn, M!Fail
  <2> QED
    BY <2>2, Zenon DEF M!MNext
<1>3. ASSUME NEW i \in Matching(q, t), valid' = valid \ {<<q, i>>},
             res' = Smaller(len[<<q, i>>], n), got' = msgdata[<<q, i>>]
      PROVE  M!MNext
  <2> DEFINE m == Message(<<q, i>>)
  <2>1. i \in ValidSlots(q) /\ <<q, i>> \in valid /\ type[<<q, i>>] = t
    BY <1>3, Zenon DEF Matching, ValidSlots
  <2>2. \A c : Message(c)' = Message(c)
    BY <1>1, Zenon DEF Message
  <2>3. \A j \in ValidSlots(q) : Message(<<q, j>>) = m => j = i
    <3> SUFFICES ASSUME NEW j \in ValidSlots(q), Message(<<q, j>>) = m PROVE j = i
      BY Zenon
    <3>1. msgdata[<<q, j>>] = msgdata[<<q, i>>] /\ <<q, j>> \in valid
      BY Zenon DEF Message, ValidSlots
    <3>2. <<q, j>> = <<q, i>>
      BY <2>1, <3>1, Zenon DEF MsgInv
    <3> QED
      BY <3>2, Zenon
  <2>4. {Message(<<q, j>>) : j \in ValidSlots(q)}'
          = {Message(<<q, j>>) : j \in ValidSlots(q)} \ {m}
    <3>1. ValidSlots(q)' = ValidSlots(q) \ {i}
      BY <1>3, Zenon DEF ValidSlots
    <3>2. {Message(<<q, j>>) : j \in ValidSlots(q)}'
            = {Message(<<q, j>>) : j \in ValidSlots(q) \ {i}}
      BY <2>2, <3>1, Zenon
    <3> HIDE DEF Message
    <3> QED
      BY <2>1, <2>3, <3>2, Zenon
  <2>5. \A r \in Queues \ {q} : {Message(<<r, j>>) : j \in ValidSlots(r)}'
          = {Message(<<r, j>>) : j \in ValidSlots(r)}
    BY <1>3, <2>2, Zenon DEF ValidSlots
  <2>6. Inbox' = [Inbox EXCEPT ![q] = @ \ {m}]
    BY <1>1, <2>4, <2>5, Zenon DEF Inbox
  <2>7. m \in Inbox[q]
    BY <1>1, <2>1, Zenon DEF Inbox
  <2>8. m.type = t /\ got' = m.id /\ res' = IF m.len < n THEN m.len ELSE n
    BY <1>3, <2>1, Zenon DEF Message, Smaller
  <2>9. M!Receive(q, t, n)
    <3> HIDE DEF m
    <3> QED
      BY <1>1, <2>6, <2>7, <2>8, Zenon DEF M!Receive
  <2> QED
    BY <1>1, <2>9, Zenon DEF M!MNext
<1> QED
  BY <1>2, <1>3, Zenon DEF sys_recvmsg

LEMMA MsgStepRefines ==
  ASSUME MsgInv, [MsgNext]_msgvars PROVE M!MNext \/ UNCHANGED M!mvars
<1>1. ASSUME NEW q, sys_msgcount(q) PROVE M!MNext
  <2>1. CASE Fails
    BY <2>1, FailsRefines, Zenon DEF M!MNext
  <2>2. CASE Used(q) /\ Returns(count[q]) /\ UNCHANGED <<msgtable, sent>>
    <3>1. q \in Queues /\ key[q] # NoKey /\ res' = M!Cardinality(Inbox[q]) /\ got' = 0
      BY <2>2, InboxSize, Zenon DEF Used, Returns
    <3>2. Inbox' = Inbox
      BY <2>2, InboxStays, Zenon DEF msgtable
    <3>3. M!Count(q)
      BY <2>2, <3>1, <3>2, Zenon DEF M!Count, msgtable
    <3> QED
      BY <3>1, <3>3, Zenon DEF M!MNext
  <2> QED
    BY <1>1, <2>1, <2>2, Zenon DEF sys_msgcount
<1>2. ASSUME Fails PROVE M!MNext
  BY <1>2, FailsRefines, Zenon DEF M!MNext
<1>3. CASE UNCHANGED msgvars
  <2>1. Inbox' = Inbox
    BY <1>3, InboxStays, Zenon DEF msgvars, msgtable
  <2> QED
    BY <1>3, <2>1, Zenon DEF msgvars, msgtable, M!mvars
<1> QED
  BY <1>1, <1>2, <1>3, MsggetRefines, SendRefines, RecvRefines, Zenon
     DEF MsgNext, sendmsg_rejected, recvmsg_rejected

\* The calls implement the mailboxes for tables of every size: a message is
\* received at most once, by a call that asked for its type, as it was sent; a
\* call that fails, also in the middle of a copy, changes no mailbox.
THEOREM QueuesRefineMailbox == MsgSpec => ImplementsMailbox
<1>1. msginit => M!MInit
  <2> SUFFICES ASSUME msginit PROVE M!MInit
    BY Zenon
  <2>1. Inbox = [q \in Queues |-> {}]
    BY Zenon DEF msginit, Inbox, ValidSlots
  <2> QED
    BY <2>1, Zenon DEF msginit, M!MInit
<1>2. MsgInv /\ [MsgNext]_msgvars => [M!MNext]_(M!mvars)
  BY MsgStepRefines, Zenon
<1> QED
  BY <1>1, <1>2, MsgInvariant, PTL DEF MsgSpec, ImplementsMailbox, M!MSpec
=============================================================================

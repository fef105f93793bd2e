--------------------------- MODULE ConsoleProofs ----------------------------
(***************************************************************************)
(* Proofs about the console and the UART, for any number of processes, any *)
(* size of the buffer and any width of its indices: the sleepers and the   *)
(* device first, then the ring and the refinement of TtyLines.             *)
(***************************************************************************)
EXTENDS Console, TLAPS

Labels == {"user", "uartwrite", "tx_chan", "consoleread", "sleeps", "sleep"}
Handler == {"idle", "acked", "rx", "consoleintr", "echo"}

\* printf(), the echo and uartwrite() may each still write one character that the
\* device does not hold back: each of them finds room.
RoomForWriters ==
  /\ fifo <= 3
  /\ printf \/ intr = "echo" \/ ~tx_busy => fifo <= 2
  /\ printf /\ intr = "echo" => fifo <= 1
  /\ printf /\ ~tx_busy => fifo <= 1
  /\ intr = "echo" /\ ~tx_busy => fifo <= 1
  /\ printf /\ intr = "echo" /\ ~tx_busy => fifo = 0

\* The inductive invariant.  A busy transmitter has an interrupt to come; what the
\* device holds and may still be given is bounded; who stands before a sleep holds
\* cons.lock, and the handler holds it while it changes the buffer.
ConsoleInv ==
  /\ fifo \in Nat /\ tx_busy \in BOOLEAN /\ thre \in BOOLEAN /\ printf \in BOOLEAN
  /\ intr \in Handler
  /\ pc \in [Procs -> Labels]
  /\ tx_busy => fifo > 0 \/ thre \/ intr = "acked"
  /\ RoomForWriters
  /\ intr \in {"consoleintr", "echo"} => lock = "intr"
  /\ \A p \in Procs :
       /\ pc[p] = "tx_chan" => tx_busy
       /\ pc[p] = "sleeps" => lock = p /\ r = w
       /\ pc[p] = "sleep" => r = w

\* The console starts idle, with an empty buffer.
LEMMA ConsoleInitially == Init => ConsoleInv
  <1> SUFFICES ASSUME Init PROVE ConsoleInv
    BY Zenon
  <1>1. /\ ~tx_busy /\ ~thre /\ ~printf
        /\ tx_busy \in BOOLEAN /\ thre \in BOOLEAN /\ printf \in BOOLEAN
    BY Zenon DEF Init
  <1>2. fifo = 0 /\ r = w /\ intr = "idle" /\ pc = [p \in Procs |-> "user"]
    BY Zenon DEF Init
  <1>3. QED
    BY <1>1, <1>2 DEF ConsoleInv, Labels, Handler, RoomForWriters

\* A step of a process in a read or a write keeps the invariant.
LEMMA ProcessKeeps ==
  ASSUME ConsoleInv, NEW p \in Procs,
         \/ \E n \in 1..MaxN : consolewrite(p, n) \/ consoleread(p, n)
         \/ uartwrite_sleep(p) \/ uartwrite(p) \/ kill(p) \/ exit(p)
         \/ read_empty(p) \/ read_sleep(p) \/ read_fault(p)
         \/ (\E k \in 0..MaxN : read_line(p, k))
  PROVE  ConsoleInv'
  <1> USE ConsoleAssumption DEF ConsoleInv, Labels, Handler, RoomForWriters, cons, uart, Goto
  <1>1. ASSUME NEW n \in 1..MaxN, consolewrite(p, n) PROVE ConsoleInv'
    BY <1>1, Zenon DEF consolewrite
  <1>2. ASSUME NEW n \in 1..MaxN, consoleread(p, n) PROVE ConsoleInv'
    BY <1>2, Zenon DEF consoleread
  <1>3. CASE uartwrite_sleep(p)
    BY <1>3, Zenon DEF uartwrite_sleep
  <1>4. CASE uartwrite(p)
    <2>1. /\ ~tx_busy /\ tx_busy' /\ ~thre' /\ (printf' <=> printf)
          /\ tx_busy' \in BOOLEAN /\ thre' \in BOOLEAN /\ printf' \in BOOLEAN
      BY <1>4, Zenon DEF uartwrite, WriteTHR
    <2>2. QED
      BY <1>4, <2>1 DEF uartwrite, WriteTHR
  <1>5. CASE kill(p)
    BY <1>5, Zenon DEF kill
  <1>6. CASE exit(p)
    BY <1>6, Zenon DEF exit
  <1>7. CASE read_empty(p)
    BY <1>7, Zenon DEF read_empty
  <1>8. CASE read_sleep(p)
    BY <1>8, Zenon DEF read_sleep
  <1>9. CASE read_fault(p)
    BY <1>9, Zenon DEF read_fault
  <1>10. ASSUME NEW k \in 0..MaxN, read_line(p, k) PROVE ConsoleInv'
    BY <1>10, Zenon DEF read_line
  <1>11. QED
    BY <1>1, <1>2, <1>3, <1>4, <1>5, <1>6, <1>7, <1>8, <1>9, <1>10, Zenon

\* A step of the device, of printf() or of the interrupt handler keeps it.
LEMMA HandlerKeeps ==
  ASSUME ConsoleInv,
         \/ transmit \/ receive \/ printf_waits \/ printf_writes
         \/ uartintr \/ uartintr_tx \/ (\E c \in Keys : uartgetc(c)) \/ uartintr_done
         \/ consputc \/ ignored \/ stored \/ erased
  PROVE  ConsoleInv'
  <1> USE ConsoleAssumption DEF ConsoleInv, Labels, Handler, RoomForWriters, cons, uart, proc
  <1>1. ASSUME NEW c \in Keys, uartgetc(c) PROVE ConsoleInv'
    BY <1>1, Zenon DEF uartgetc
  <1>2. CASE transmit
    BY <1>2 DEF transmit
  <1>3. CASE receive
    BY <1>3, Zenon DEF receive
  <1>4. CASE printf_waits
    BY <1>4 DEF printf_waits, Idle
  <1>5. CASE printf_writes
    <2>1. printf /\ ~printf' /\ printf' \in BOOLEAN /\ ~thre' /\ thre' \in BOOLEAN
      BY <1>5, Zenon DEF printf_writes, WriteTHR
    <2>2. QED
      BY <1>5, <2>1 DEF printf_writes, WriteTHR
  <1>6. CASE uartintr
    BY <1>6, Zenon DEF uartintr
  <1>7. CASE uartintr_tx
    <2>1. CASE fifo = 0 /\ tx_busy' = FALSE
      <3>1. ~tx_busy' /\ tx_busy' \in BOOLEAN
        BY <2>1, Zenon
      <3>2. QED
        BY <1>7, <2>1, <3>1 DEF uartintr_tx
    <2>2. CASE fifo # 0 /\ UNCHANGED <<tx_busy, pc>>
      BY <1>7, <2>2 DEF uartintr_tx
    <2>3. QED
      BY <1>7, <2>1, <2>2, Zenon DEF uartintr_tx
  <1>8. CASE uartintr_done
    BY <1>8, Zenon DEF uartintr_done
  <1>9. CASE consputc
    BY <1>9 DEF consputc, Idle
  <1>10. CASE ignored
    BY <1>10, Zenon DEF ignored, Released
  <1>11. CASE stored
    <2>1. ~thre' /\ thre' \in BOOLEAN /\ tx_busy' = tx_busy /\ printf' = printf
      BY <1>11, Zenon DEF stored, WriteTHR, Released, wakeup_readers
    <2>2. QED
      BY <1>11, <2>1 DEF stored, WriteTHR, Released, wakeup_readers
  <1>12. CASE erased
    <2>1. ~thre' /\ thre' \in BOOLEAN /\ tx_busy' = tx_busy /\ printf' = printf
      BY <1>12, Zenon DEF erased, WriteTHR, Released
    <2>2. QED
      BY <1>12, <2>1 DEF erased, WriteTHR, Released
  <1>13. QED
    BY <1>1, <1>2, <1>3, <1>4, <1>5, <1>6, <1>7, <1>8, <1>9, <1>10, <1>11, <1>12, Zenon

\* The invariant is inductive.
THEOREM ConsoleInvariant == Spec => []ConsoleInv
  <1>1. ASSUME ConsoleInv, [Next]_vars PROVE ConsoleInv'
    <2>1. CASE Next
      BY <1>1, <2>1, ProcessKeeps, HandlerKeeps, Zenon DEF Next, Steps
    <2>2. CASE UNCHANGED vars
      BY <1>1, <2>2, Zenon DEF ConsoleInv, RoomForWriters, vars, cons, uart, proc
    <2>3. QED
      BY <1>1, <2>1, <2>2, Zenon
  <1>2. QED
    BY <1>1, ConsoleInitially, PTL DEF Spec

\* For any number of processes nobody sleeps in uartwrite() or consoleread() through
\* the interrupt or the line it waits for, although uartintr() acknowledges the
\* interrupt before it looks at the transmitter.
THEOREM ConsoleWakesSleepers == Spec => []NoMissedWakeup
  <1>1. ConsoleInv => NoMissedWakeup
    BY Zenon DEF ConsoleInv, NoMissedWakeup, NoMissedTransmit, NoMissedLine
  <1>2. QED
    BY <1>1, ConsoleInvariant, PTL

\* However many processes write, printf(), the echo and one uartwrite() are all that
\* can meet in the transmitter: it never holds more than three characters.
THEOREM TransmitterNeverOverruns == Spec => []NoOverrun
  <1>1. ConsoleInv => NoOverrun
    BY ConsoleAssumption DEF ConsoleInv, NoOverrun, RoomForWriters
  <1>2. QED
    BY <1>1, ConsoleInvariant, PTL

-----------------------------------------------------------------------------
(* Remainders *)

\* A number is a multiple of n and its remainder.
LEMMA ModSplit ==
  ASSUME NEW a \in Int, NEW n \in Nat \ {0}
  PROVE  a \div n \in Int /\ a % n \in 0..n - 1 /\ a = n * (a \div n) + (a % n)
  OBVIOUS

\* There is only one way to write it so.
LEMMA ModUnique ==
  ASSUME NEW n \in Nat \ {0}, NEW q \in Int, NEW x \in 0..n - 1
  PROVE  (n * q + x) % n = x
  OBVIOUS

\* A multiple of n does not change the remainder.
LEMMA ModShift ==
  ASSUME NEW a \in Int, NEW n \in Nat \ {0}, NEW m \in Int
  PROVE  (a + n * m) % n = a % n
  <1> DEFINE q == a \div n
             x == a % n
  <1>1. q \in Int /\ x \in 0..n - 1 /\ a = n * q + x
    BY ModSplit
  <1> HIDE DEF q, x
  <1>2. q + m \in Int /\ n * (q + m) = n * q + n * m /\ n * q \in Int /\ n * m \in Int
    BY <1>1
  <1>3. a + n * m = n * (q + m) + x
    BY <1>1, <1>2
  <1>4. (n * (q + m) + x) % n = x
    BY <1>1, <1>2, ModUnique
  <1>5. QED
    BY <1>3, <1>4 DEF x

\* Less than n apart, two numbers have different remainders.
LEMMA ModApart ==
  ASSUME NEW a \in Int, NEW n \in Nat \ {0}, NEW i \in 0..n - 1, NEW j \in 0..n - 1,
         (a + i) % n = (a + j) % n
  PROVE  i = j
  <1> DEFINE q == (a + i) \div n
             s == (a + j) \div n
             x == (a + i) % n
  <1>1. q \in Int /\ x \in 0..n - 1 /\ a + i = n * q + x
    BY ModSplit
  <1>2. s \in Int /\ a + j = n * s + x
    BY ModSplit
  <1> HIDE DEF q, s, x
  <1>3. q - s \in Int /\ n * (q - s) = n * q - n * s /\ n * q \in Int /\ n * s \in Int
    BY <1>1, <1>2
  <1>4. i - j = n * (q - s)
    BY <1>1, <1>2, <1>3
  <1> DEFINE d == q - s
  <1>5. d \in Int /\ i - j = n * d
    BY <1>3, <1>4
  <1> HIDE DEF d
  <1>6. CASE d >= 1
    <2>1. n * d >= n
      BY <1>5, <1>6
    <2>2. QED
      BY <1>5, <2>1
  <1>7. CASE d <= -1
    <2>1. n * d <= -n
      BY <1>5, <1>7
    <2>2. QED
      BY <1>5, <2>1
  <1>8. CASE d = 0
    BY <1>5, <1>8
  <1>9. QED
    BY <1>5, <1>6, <1>7, <1>8

\* Once around is enough for what the code computes.
LEMMA ModOnce ==
  ASSUME NEW n \in Nat \ {0}, NEW a \in Int
  PROVE  /\ a \in 0..n - 1 => a % n = a
         /\ a \in n..2 * n - 1 => a % n = a - n
         /\ a \in -n..-1 => a % n = a + n
  OBVIOUS

-----------------------------------------------------------------------------
(* The ring *)

\* The width of the indices is a multiple of the size of the buffer, so that an index
\* that wraps goes on at the right slot.
LEMMA SlotOfInc ==
  ASSUME NEW a \in Int, NEW k \in Int
  PROVE  Inc(a, k) \in 0..WRAP - 1 /\ Inc(a, k) % INPUT_BUF_SIZE = (a + k) % INPUT_BUF_SIZE
  <1> DEFINE N == INPUT_BUF_SIZE
             q == (a + k) \div WRAP
             m == WRAP \div N
  <1>1. N \in Nat \ {0} /\ WRAP \in Nat \ {0} /\ WRAP % N = 0
    BY ConsoleAssumption
  <1>2. m \in Int /\ WRAP = N * m
    BY <1>1, ModSplit
  <1>3. a + k \in Int
    OBVIOUS
  <1>4. q \in Int /\ Inc(a, k) \in 0..WRAP - 1 /\ a + k = WRAP * q + Inc(a, k)
    BY <1>1, <1>3, ModSplit, Zenon DEF Inc
  <1> HIDE DEF q, m, N
  <1> DEFINE z == m * (-q)
  <1>5. z \in Int /\ N * z = -(WRAP * q) /\ WRAP * q \in Int
    BY <1>1, <1>2, <1>4
  <1> HIDE DEF z
  <1>6. Inc(a, k) = (a + k) + N * z
    BY <1>4, <1>5
  <1>7. ((a + k) + N * z) % N = (a + k) % N
    BY <1>1, <1>3, <1>5, ModShift, Zenon
  <1>8. QED
    BY <1>4, <1>6, <1>7, Zenon DEF N

\* An index that has wrapped around leads to the same slots.
LEMMA SameSlot ==
  ASSUME NEW a \in Int, NEW b \in Int, NEW i \in Int, b = a \/ b = a - WRAP
  PROVE  (b + i) % INPUT_BUF_SIZE = (a + i) % INPUT_BUF_SIZE
  <1> DEFINE N == INPUT_BUF_SIZE
             m == WRAP \div N
  <1>1. N \in Nat \ {0} /\ WRAP \in Nat \ {0} /\ WRAP % N = 0
    BY ConsoleAssumption
  <1>2. m \in Int /\ WRAP = N * m
    BY <1>1, ModSplit
  <1> HIDE DEF N, m
  <1> DEFINE z == -m
  <1>3. z \in Int /\ N * z = -WRAP /\ a + i \in Int
    BY <1>1, <1>2
  <1> HIDE DEF z
  <1>4. b + i = a + i \/ b + i = (a + i) + N * z
    BY <1>1, <1>3
  <1>5. ((a + i) + N * z) % N = (a + i) % N
    BY <1>1, <1>3, ModShift, Zenon
  <1>6. QED
    BY <1>4, <1>5, Zenon DEF N

\* The distance from one index to another.
LEMMA Distance ==
  ASSUME NEW a \in 0..WRAP - 1, NEW b \in 0..WRAP - 1
  PROVE  (b - a) % WRAP = IF b >= a THEN b - a ELSE b - a + WRAP
  <1>1. WRAP \in Nat \ {0} /\ b - a \in Int
    BY ConsoleAssumption
  <1>2. CASE b >= a
    BY <1>1, <1>2, ModOnce
  <1>3. CASE ~(b >= a)
    <2>1. b - a \in -WRAP..-1
      BY <1>1, <1>3
    <2>2. QED
      BY <1>1, <1>3, <2>1, ModOnce
  <1>4. QED
    BY <1>2, <1>3

\* The index k characters further on.
LEMMA Ahead ==
  ASSUME NEW a \in 0..WRAP - 1, NEW k \in 0..WRAP
  PROVE  Inc(a, k) = IF a + k < WRAP THEN a + k ELSE a + k - WRAP
  <1>1. WRAP \in Nat \ {0} /\ a + k \in 0..2 * WRAP - 1
    BY ConsoleAssumption
  <1>2. QED
    BY <1>1, ModOnce DEF Inc

\* The index k characters back, where erasing goes.
LEMMA Back ==
  ASSUME NEW a \in 0..WRAP - 1, NEW k \in 0..WRAP
  PROVE  Inc(a, -k) = IF a >= k THEN a - k ELSE a - k + WRAP
  <1>1. WRAP \in Nat \ {0} /\ a + (-k) \in -WRAP..WRAP - 1 /\ a + (-k) = a - k
    BY ConsoleAssumption
  <1>2. QED
    BY <1>1, ModOnce DEF Inc


-----------------------------------------------------------------------------
(* Sequences *)

\* A sequence is a function.
LEMMA LenProperties ==
  ASSUME NEW S, NEW s \in Seq(S)
  PROVE  Len(s) \in Nat /\ s \in [1..Len(s) -> S]
  OBVIOUS

\* Sequences with the same elements are equal.
LEMMA SeqEqual ==
  ASSUME NEW S, NEW s \in Seq(S), NEW t \in Seq(S),
         Len(s) = Len(t), \A i \in 1..Len(s) : s[i] = t[i]
  PROVE  s = t
  <1>1. s \in [1..Len(s) -> S] /\ t \in [1..Len(s) -> S]
    BY LenProperties, Zenon
  <1>2. QED
    BY <1>1

\* What a concatenation is.
LEMMA ConcatProperties ==
  ASSUME NEW S, NEW s \in Seq(S), NEW t \in Seq(S)
  PROVE  /\ s \o t \in Seq(S) /\ Len(s \o t) = Len(s) + Len(t)
         /\ \A i \in 1..Len(s) + Len(t) :
              (s \o t)[i] = IF i <= Len(s) THEN s[i] ELSE t[i - Len(s)]
  OBVIOUS

\* The elements of a sequence from m + 1 to n.
LEMMA SliceIs ==
  ASSUME NEW S, NEW s \in Seq(S), NEW m \in Nat, NEW n \in m..Len(s)
  PROVE  /\ SubSeq(s, m + 1, n) \in Seq(S) /\ Len(SubSeq(s, m + 1, n)) = n - m
         /\ \A i \in 1..n - m : SubSeq(s, m + 1, n)[i] = s[m + i]
  OBVIOUS

-----------------------------------------------------------------------------
(* Characters in the buffer *)

\* What n characters from index a on are.
Chars == Plain \cup {Newline, Eof, None}
Ring(b, a, n) == [k \in 1..n |-> b[(a + (k - 1)) % INPUT_BUF_SIZE]]
Buffers == [0..INPUT_BUF_SIZE - 1 -> Chars]

\* They are a sequence of characters.
LEMMA RingIsSeq ==
  ASSUME NEW b \in Buffers, NEW a \in Int, NEW n \in Nat
  PROVE  /\ Ring(b, a, n) \in Seq(Chars) /\ Len(Ring(b, a, n)) = n
         /\ \A k \in 1..n : Ring(b, a, n)[k] = b[(a + (k - 1)) % INPUT_BUF_SIZE]
  <1>1. \A k \in 1..n : b[(a + (k - 1)) % INPUT_BUF_SIZE] \in Chars
    <2> TAKE k \in 1..n
    <2>1. a + (k - 1) \in Int /\ INPUT_BUF_SIZE \in Nat \ {0}
      BY ConsoleAssumption
    <2>2. (a + (k - 1)) % INPUT_BUF_SIZE \in 0..INPUT_BUF_SIZE - 1
      BY <2>1, ModSplit
    <2>3. QED
      BY <2>2 DEF Buffers
  <1>2. QED
    BY <1>1 DEF Ring

\* The first k of them.
LEMMA RingFront ==
  ASSUME NEW b \in Buffers, NEW a \in Int, NEW n \in Nat, NEW k \in 0..n
  PROVE  SubSeq(Ring(b, a, n), 1, k) = Ring(b, a, k)
  <1>1. k \in Nat
    OBVIOUS
  <1>2. /\ Ring(b, a, n) \in Seq(Chars) /\ Len(Ring(b, a, n)) = n
        /\ \A i \in 1..n : Ring(b, a, n)[i] = b[(a + (i - 1)) % INPUT_BUF_SIZE]
    BY RingIsSeq
  <1>3. /\ Ring(b, a, k) \in Seq(Chars) /\ Len(Ring(b, a, k)) = k
        /\ \A i \in 1..k : Ring(b, a, k)[i] = b[(a + (i - 1)) % INPUT_BUF_SIZE]
    BY <1>1, RingIsSeq
  <1>4. QED
    BY <1>2, <1>3

\* The others.
LEMMA RingRest ==
  ASSUME NEW b \in Buffers, NEW a \in Int, NEW n \in Nat, NEW k \in 0..n
  PROVE  SubSeq(Ring(b, a, n), k + 1, n) = Ring(b, a + k, n - k)
  <1>1. n - k \in Nat /\ a + k \in Int
    OBVIOUS
  <1>2. /\ Ring(b, a, n) \in Seq(Chars) /\ Len(Ring(b, a, n)) = n
        /\ \A i \in 1..n : Ring(b, a, n)[i] = b[(a + (i - 1)) % INPUT_BUF_SIZE]
    BY RingIsSeq
  <1>3. /\ Ring(b, a + k, n - k) \in Seq(Chars) /\ Len(Ring(b, a + k, n - k)) = n - k
        /\ \A i \in 1..n - k :
             Ring(b, a + k, n - k)[i] = b[((a + k) + (i - 1)) % INPUT_BUF_SIZE]
    BY <1>1, RingIsSeq
  <1>4. \A i \in 1..n - k : k + i \in 1..n /\ (a + k) + (i - 1) = a + ((k + i) - 1)
    OBVIOUS
  <1>5. \A i \in 1..n - k : Ring(b, a + k, n - k)[i] = Ring(b, a, n)[k + i]
    BY <1>2, <1>3, <1>4
  <1>6. /\ SubSeq(Ring(b, a, n), k + 1, n) \in Seq(Chars)
        /\ Len(SubSeq(Ring(b, a, n), k + 1, n)) = n - k
        /\ \A i \in 1..n - k : SubSeq(Ring(b, a, n), k + 1, n)[i] = Ring(b, a, n)[k + i]
    <2>1. k \in Nat /\ n \in k..Len(Ring(b, a, n))
      BY <1>2
    <2>2. QED
      BY <1>2, <2>1, SliceIs, Zenon
  <1>7. QED
    BY <1>3, <1>5, <1>6, SeqEqual, Zenon

\* One more.
LEMMA RingAppend ==
  ASSUME NEW b \in Buffers, NEW a \in Int, NEW n \in Nat, NEW c \in Chars,
         b[(a + n) % INPUT_BUF_SIZE] = c
  PROVE  Append(Ring(b, a, n), c) = Ring(b, a, n + 1)
  <1>1. n + 1 \in Nat /\ (n + 1) - 1 = n
    OBVIOUS
  <1>2. /\ Ring(b, a, n) \in Seq(Chars) /\ Len(Ring(b, a, n)) = n
        /\ \A i \in 1..n : Ring(b, a, n)[i] = b[(a + (i - 1)) % INPUT_BUF_SIZE]
    BY RingIsSeq
  <1>3. /\ Ring(b, a, n + 1) \in Seq(Chars) /\ Len(Ring(b, a, n + 1)) = n + 1
        /\ \A i \in 1..n + 1 : Ring(b, a, n + 1)[i] = b[(a + (i - 1)) % INPUT_BUF_SIZE]
    BY <1>1, RingIsSeq
  <1>4. Ring(b, a, n + 1)[n + 1] = c
    BY <1>1, <1>3
  <1>5. \A i \in 1..n : Ring(b, a, n + 1)[i] = Ring(b, a, n)[i]
    BY <1>2, <1>3
  <1>6. QED
    BY <1>2, <1>3, <1>4, <1>5

\* Some and then some more.
LEMMA RingConcat ==
  ASSUME NEW b \in Buffers, NEW a \in Int, NEW m \in Nat, NEW n \in Nat
  PROVE  Ring(b, a, m) \o Ring(b, a + m, n) = Ring(b, a, m + n)
  <1>1. m + n \in Nat /\ a + m \in Int
    OBVIOUS
  <1>2. /\ Ring(b, a, m) \in Seq(Chars) /\ Len(Ring(b, a, m)) = m
        /\ \A i \in 1..m : Ring(b, a, m)[i] = b[(a + (i - 1)) % INPUT_BUF_SIZE]
    BY RingIsSeq
  <1>3. /\ Ring(b, a + m, n) \in Seq(Chars) /\ Len(Ring(b, a + m, n)) = n
        /\ \A i \in 1..n : Ring(b, a + m, n)[i] = b[((a + m) + (i - 1)) % INPUT_BUF_SIZE]
    BY <1>1, RingIsSeq
  <1>4. /\ Ring(b, a, m + n) \in Seq(Chars) /\ Len(Ring(b, a, m + n)) = m + n
        /\ \A i \in 1..m + n : Ring(b, a, m + n)[i] = b[(a + (i - 1)) % INPUT_BUF_SIZE]
    BY <1>1, RingIsSeq
  <1>5. \A i \in 1..m : i \in 1..m + n /\ Ring(b, a, m)[i] = Ring(b, a, m + n)[i]
    BY <1>2, <1>4
  <1>6. \A i \in m + 1..m + n : i - m \in 1..n /\ (a + m) + ((i - m) - 1) = a + (i - 1)
    OBVIOUS
  <1>7. \A i \in m + 1..m + n : Ring(b, a + m, n)[i - m] = Ring(b, a, m + n)[i]
    BY <1>3, <1>4, <1>6
  <1> DEFINE s == Ring(b, a, m)
             t == Ring(b, a + m, n)
             u == Ring(b, a, m + n)
  <1> HIDE DEF s, t, u
  <1>8. /\ s \in Seq(Chars) /\ Len(s) = m /\ t \in Seq(Chars) /\ Len(t) = n
        /\ u \in Seq(Chars) /\ Len(u) = m + n
        /\ \A i \in 1..m : s[i] = u[i]
        /\ \A i \in m + 1..m + n : t[i - m] = u[i]
    BY <1>2, <1>3, <1>4, <1>5, <1>7, Zenon DEF s, t, u
  <1>9. /\ s \o t \in Seq(Chars) /\ Len(s \o t) = m + n
        /\ \A i \in 1..m + n : (s \o t)[i] = IF i <= m THEN s[i] ELSE t[i - m]
    BY <1>8, ConcatProperties, Zenon
  <1>10. \A i \in 1..m + n : (s \o t)[i] = u[i]
    BY <1>8, <1>9
  <1>11. s \o t = u
    BY <1>8, <1>9, <1>10, SeqEqual, Zenon
  <1>12. QED
    BY <1>11, Zenon DEF s, t, u

\* Buffers that agree on these characters.
Agree(b, c, a, n) ==
  \A i \in 0..n - 1 : b[(a + i) % INPUT_BUF_SIZE] = c[(a + i) % INPUT_BUF_SIZE]
LEMMA RingSame ==
  ASSUME NEW b, NEW c, NEW a \in Int, NEW n \in Nat, Agree(b, c, a, n)
  PROVE  Ring(b, a, n) = Ring(c, a, n)
  <1>1. \A k \in 1..n : k - 1 \in 0..n - 1
    OBVIOUS
  <1>2. \A k \in 1..n : b[(a + (k - 1)) % INPUT_BUF_SIZE] = c[(a + (k - 1)) % INPUT_BUF_SIZE]
    BY <1>1, Zenon DEF Agree
  <1>3. QED
    BY <1>2, Zenon DEF Ring

-----------------------------------------------------------------------------
(* The console implements TtyLines *)

\* The indices stand in the order r, w, e around the ring, and what is between them
\* fits into the buffer.
RingInv ==
  /\ buf \in Buffers
  /\ r \in 0..WRAP - 1 /\ w \in 0..WRAP - 1 /\ e \in 0..WRAP - 1
  /\ Lines + Editing = Waiting /\ Waiting <= INPUT_BUF_SIZE

\* The views of the refinement mapping are parts of the ring, one after the other.
ViewsRight ==
  /\ Lines \in 0..INPUT_BUF_SIZE /\ Editing \in 0..INPUT_BUF_SIZE
  /\ Waiting \in 0..INPUT_BUF_SIZE
  /\ LinesView = Ring(buf, r, Lines)
  /\ EditView = Ring(buf, w, Editing)
  /\ \A i \in Int : (w + i) % INPUT_BUF_SIZE = ((r + Lines) + i) % INPUT_BUF_SIZE
  /\ e % INPUT_BUF_SIZE = (r + Waiting) % INPUT_BUF_SIZE

\* This follows from the order of the indices.
LEMMA Views == RingInv => ViewsRight
  <1> SUFFICES ASSUME RingInv PROVE ViewsRight
    BY Zenon
  <1>1. /\ r \in 0..WRAP - 1 /\ w \in 0..WRAP - 1 /\ e \in 0..WRAP - 1
        /\ INPUT_BUF_SIZE \in Nat \ {0} /\ WRAP \in Nat \ {0}
    BY ConsoleAssumption DEF RingInv
  <1>2. /\ Lines = IF w >= r THEN w - r ELSE w - r + WRAP
        /\ Editing = IF e >= w THEN e - w ELSE e - w + WRAP
        /\ Waiting = IF e >= r THEN e - r ELSE e - r + WRAP
    BY <1>1, Distance, Zenon DEF Lines, Editing, Waiting
  <1>3. /\ Lines \in 0..INPUT_BUF_SIZE /\ Editing \in 0..INPUT_BUF_SIZE
        /\ Waiting \in 0..INPUT_BUF_SIZE
    BY <1>1, <1>2 DEF RingInv
  <1>4. \A i \in Int : /\ At(Inc(r, i)) = buf[(r + i) % INPUT_BUF_SIZE]
                       /\ At(Inc(w, i)) = buf[(w + i) % INPUT_BUF_SIZE]
    <2>1. r \in Int /\ w \in Int
      BY <1>1
    <2>2. QED
      BY <2>1, SlotOfInc, Zenon DEF At
  <1>5. \A k \in 1..Lines : At(Inc(r, k - 1)) = buf[(r + (k - 1)) % INPUT_BUF_SIZE]
    BY <1>3, <1>4
  <1>6. LinesView = Ring(buf, r, Lines)
    BY <1>5, Zenon DEF LinesView, Ring
  <1>7. \A k \in 1..Editing : At(Inc(w, k - 1)) = buf[(w + (k - 1)) % INPUT_BUF_SIZE]
    BY <1>3, <1>4
  <1>8. EditView = Ring(buf, w, Editing)
    BY <1>7, Zenon DEF EditView, Ring
  <1>9. /\ w \in Int /\ r + Lines \in Int
        /\ w = r + Lines \/ w = (r + Lines) - WRAP
    BY <1>1, <1>2
  <1>10. \A i \in Int : (w + i) % INPUT_BUF_SIZE = ((r + Lines) + i) % INPUT_BUF_SIZE
    BY <1>9, SameSlot, Zenon
  <1>11. e % INPUT_BUF_SIZE = (r + Waiting) % INPUT_BUF_SIZE
    <2>1. r \in Int /\ Waiting \in Int /\ Waiting \in 0..WRAP
      BY <1>1, <1>3, ConsoleAssumption
    <2>2. Inc(r, Waiting) = e
      BY <1>1, <1>2, <2>1, Ahead
    <2>3. QED
      BY <2>1, <2>2, SlotOfInc, Zenon
  <1>12. QED
    BY <1>3, <1>6, <1>8, <1>10, <1>11, Zenon DEF ViewsRight

\* The same after a step.
LEMMA ViewsNext == RingInv' => ViewsRight'
  BY Views, PTL

\* What is kept of the buffer when a part of it is forgotten.
LEMMA KeptIs ==
  ASSUME RingInv, NEW from \in 0..WRAP - 1, NEW to, NEW n \in Nat, (to - from) % WRAP = n
  PROVE  /\ Kept(from, to) \in Buffers
         /\ \A i \in 0..n - 1 : Kept(from, to)[(from + i) % INPUT_BUF_SIZE]
                                  = buf[(from + i) % INPUT_BUF_SIZE]
  <1>1. buf \in Buffers /\ DOMAIN buf = 0..INPUT_BUF_SIZE - 1
    BY DEF RingInv, Buffers
  <1>2. Kept(from, to) \in Buffers
    BY <1>1 DEF Kept, Buffers, Chars
  <1>3. ASSUME NEW i \in 0..n - 1
        PROVE  Kept(from, to)[(from + i) % INPUT_BUF_SIZE] = buf[(from + i) % INPUT_BUF_SIZE]
    <2>1. from \in Int /\ i \in Int /\ from + i \in Int /\ INPUT_BUF_SIZE \in Nat \ {0}
      BY ConsoleAssumption
    <2>2. Inc(from, i) % INPUT_BUF_SIZE = (from + i) % INPUT_BUF_SIZE
      BY <2>1, SlotOfInc, Zenon
    <2>3. (from + i) % INPUT_BUF_SIZE \in 0..INPUT_BUF_SIZE - 1
      BY <2>1, ModSplit, Zenon
    <2>4. QED
      BY <1>1, <2>2, <2>3, Zenon DEF Kept
  <1>4. QED
    BY <1>2, <1>3, Zenon

\* A step that leaves cons alone leaves the views alone.
LEMMA ViewsStay ==
  ASSUME RingInv, UNCHANGED cons
  PROVE  RingInv' /\ LinesView' = LinesView /\ EditView' = EditView
  BY Zenon DEF cons, RingInv, LinesView, EditView, Lines, Editing, Waiting, At, Inc

\* A reader takes k characters; the rest stays as it was.
LEMMA TakesFront ==
  ASSUME RingInv, NEW k \in 0..Lines, r' = Inc(r, k), buf' = Kept(r', e), UNCHANGED <<w, e>>
  PROVE  /\ RingInv' /\ EditView' = EditView
         /\ LinesView' = SubSeq(LinesView, k + 1, Lines)
  <1> DEFINE N == INPUT_BUF_SIZE
  <1>1. /\ r \in 0..WRAP - 1 /\ w \in 0..WRAP - 1 /\ e \in 0..WRAP - 1
        /\ N \in Nat \ {0} /\ WRAP \in Nat \ {0} /\ WRAP > N
        /\ Lines + Editing = Waiting /\ Waiting <= N
    BY ConsoleAssumption DEF RingInv
  <1>2. /\ Lines = IF w >= r THEN w - r ELSE w - r + WRAP
        /\ Editing = IF e >= w THEN e - w ELSE e - w + WRAP
        /\ Waiting = IF e >= r THEN e - r ELSE e - r + WRAP
    BY <1>1, Distance, Zenon DEF Lines, Editing, Waiting
  <1>3. ViewsRight
    BY Views, Zenon
  <1>4. Lines \in 0..N /\ Editing \in 0..N /\ Waiting \in 0..N
    BY <1>3, Zenon DEF ViewsRight
  <1> HIDE DEF N
  <1>5. r' = IF r + k < WRAP THEN r + k ELSE r + k - WRAP
    BY <1>1, <1>4, Ahead
  <1>6. r' \in 0..WRAP - 1 /\ w' = w /\ e' = e
    BY <1>1, <1>4, <1>5
  <1>7. /\ Lines' = IF w >= r' THEN w - r' ELSE w - r' + WRAP
        /\ Editing' = Editing
        /\ Waiting' = IF e >= r' THEN e - r' ELSE e - r' + WRAP
    BY <1>1, <1>6, Distance, Zenon DEF Lines, Editing, Waiting
  <1>8. Lines' = Lines - k /\ Waiting' = Waiting - k
    BY <1>1, <1>2, <1>4, <1>5, <1>7
  <1>9. /\ buf' \in Buffers
        /\ \A i \in 0..Waiting' - 1 : buf'[(r' + i) % N] = buf[(r' + i) % N]
    <2>1. Waiting' \in Nat /\ (e - r') % WRAP = Waiting'
      BY <1>1, <1>4, <1>6, <1>8 DEF Waiting
    <2>2. QED
      BY <1>6, <2>1, KeptIs, Zenon DEF N
  <1>10. RingInv'
    <2>1. Lines' + Editing' = Waiting' /\ Waiting' <= N
      BY <1>1, <1>4, <1>7, <1>8
    <2>2. QED
      BY <1>1, <1>6, <1>9, <2>1, Zenon DEF RingInv, N
  <1>11. ViewsRight'
    BY <1>10, ViewsNext, Zenon
  <1>12. LinesView' = SubSeq(LinesView, k + 1, Lines)
    <2>1. LinesView' = Ring(buf', r', Lines')
      BY <1>11, Zenon DEF ViewsRight
    <2>2. Ring(buf', r', Lines') = Ring(buf, r', Lines')
      <3>1. /\ r' \in Int /\ Lines' \in Nat
            /\ \A i \in 0..Lines' - 1 : i \in 0..Waiting' - 1
        BY <1>1, <1>4, <1>6, <1>8
      <3>2. Agree(buf', buf, r', Lines')
        BY <1>9, <3>1, Zenon DEF Agree, N
      <3>3. QED
        BY <3>1, <3>2, RingSame
    <2>3. Ring(buf, r', Lines') = Ring(buf, r + k, Lines')
      <3>1. ASSUME NEW j \in 1..Lines'
            PROVE  (r' + (j - 1)) % N = ((r + k) + (j - 1)) % N
        <4>1. r + k \in Int /\ r' \in Int /\ j - 1 \in Int /\ (r' = r + k \/ r' = (r + k) - WRAP)
          BY <1>1, <1>4, <1>5, <1>6, <1>8
        <4>2. QED
          BY <4>1, SameSlot, Zenon DEF N
      <3>2. QED
        BY <3>1, Zenon DEF Ring, N
    <2>4. Ring(buf, r + k, Lines - k) = SubSeq(Ring(buf, r, Lines), k + 1, Lines)
      <3>1. buf \in Buffers /\ r \in Int /\ Lines \in Nat
        BY <1>1, <1>4 DEF RingInv
      <3>2. QED
        BY <3>1, RingRest, Zenon
    <2>5. QED
      BY <1>3, <1>8, <2>1, <2>2, <2>3, <2>4, Zenon DEF ViewsRight
  <1>13. EditView' = EditView
    <2>1. EditView' = Ring(buf', w, Editing) /\ EditView = Ring(buf, w, Editing)
      BY <1>3, <1>6, <1>7, <1>11, Zenon DEF ViewsRight
    <2>2. ASSUME NEW i \in 0..Editing - 1
          PROVE  buf'[(w + i) % N] = buf[(w + i) % N]
      <3>1. i \in Int /\ (r' + Lines') + i = r' + (Lines' + i) /\ Lines' + i \in 0..Waiting' - 1
        BY <1>1, <1>4, <1>6, <1>7, <1>8
      <3>2. (w + i) % N = ((r' + Lines') + i) % N
        BY <1>6, <1>11, <3>1, Zenon DEF ViewsRight, N
      <3>3. QED
        BY <1>9, <3>1, <3>2, Zenon
    <2>3. w \in Int /\ Editing \in Nat
      BY <1>1, <1>4
    <2>4. Agree(buf', buf, w, Editing)
      BY <2>2, Zenon DEF Agree, N
    <2>5. QED
      BY <2>1, <2>3, <2>4, RingSame
  <1>14. QED
    BY <1>10, <1>12, <1>13, Zenon


\* consoleintr() stores a character.  It is appended to the line that is being typed,
\* and what was in the buffer stays there: the slot is none of theirs.
LEMMA StoresOne ==
  ASSUME RingInv, stored, result' = None
  PROVE  RingInv' /\ Tty!Type(key) /\ key \in Plain \cup {Newline, Eof}
  <1> DEFINE N == INPUT_BUF_SIZE
             ends == key \in {Newline, Eof} \/ Waiting + 1 = N
  <1>1. /\ r \in 0..WRAP - 1 /\ w \in 0..WRAP - 1 /\ e \in 0..WRAP - 1
        /\ N \in Nat \ {0} /\ WRAP \in Nat \ {0} /\ WRAP > N
        /\ Lines + Editing = Waiting /\ Waiting <= N /\ buf \in Buffers
    BY ConsoleAssumption DEF RingInv
  <1>2. /\ Lines = IF w >= r THEN w - r ELSE w - r + WRAP
        /\ Editing = IF e >= w THEN e - w ELSE e - w + WRAP
        /\ Waiting = IF e >= r THEN e - r ELSE e - r + WRAP
    BY <1>1, Distance, Zenon DEF Lines, Editing, Waiting
  <1>3. ViewsRight
    BY Views, Zenon
  <1>4. Lines \in 0..N /\ Editing \in 0..N /\ Waiting \in 0..N
    BY <1>3, Zenon DEF ViewsRight
  <1>5. /\ key \in Plain \cup {Newline, Eof} /\ key \in Chars /\ Waiting < N
        /\ buf' = [buf EXCEPT ![e % N] = key] /\ e' = Inc(e, 1) /\ r' = r
        /\ w' = IF ends THEN e' ELSE w
    BY Zenon DEF stored, Accepts, Chars
  <1> HIDE DEF N, ends
  <1>6. /\ e' = IF e + 1 < WRAP THEN e + 1 ELSE e + 1 - WRAP
        /\ e' \in 0..WRAP - 1 /\ w' \in 0..WRAP - 1 /\ r' \in 0..WRAP - 1
    <2>1. e' = IF e + 1 < WRAP THEN e + 1 ELSE e + 1 - WRAP
      BY <1>1, <1>5, Ahead
    <2>2. QED
      BY <1>1, <1>5, <2>1
  <1>7. /\ Lines' = IF w' >= r THEN w' - r ELSE w' - r + WRAP
        /\ Editing' = IF e' >= w' THEN e' - w' ELSE e' - w' + WRAP
        /\ Waiting' = IF e' >= r THEN e' - r ELSE e' - r + WRAP
    BY <1>1, <1>5, <1>6, Distance, Zenon DEF Lines, Editing, Waiting
  <1>8. /\ Waiting' = Waiting + 1
        /\ ends => Lines' = Waiting + 1 /\ Editing' = 0
        /\ ~ends => Lines' = Lines /\ Editing' = Editing + 1
    BY <1>1, <1>2, <1>4, <1>5, <1>6, <1>7
  <1>9. /\ buf' \in Buffers
        /\ \A i \in 0..Waiting - 1 : buf'[(r + i) % N] = buf[(r + i) % N]
        /\ buf'[(r + Waiting) % N] = key
    <2>1. e % N \in 0..N - 1 /\ e % N = (r + Waiting) % N
      <3>1. e \in Int
        BY <1>1
      <3>2. QED
        BY <1>1, <1>3, <3>1, ModSplit, Zenon DEF ViewsRight, N
    <2>2. /\ buf' \in Buffers /\ buf'[e % N] = key
          /\ \A j \in 0..N - 1 : j # e % N => buf'[j] = buf[j]
      BY <1>1, <1>5, <2>1, Zenon DEF Buffers, N
    <2>3. ASSUME NEW i \in 0..Waiting - 1
          PROVE  buf'[(r + i) % N] = buf[(r + i) % N]
      <3>1. /\ r \in Int /\ i \in 0..N - 1 /\ Waiting \in 0..N - 1 /\ i # Waiting
            /\ r + i \in Int
        BY <1>1, <1>4, <1>5
      <3>2. (r + i) % N # (r + Waiting) % N
        BY <1>1, <3>1, ModApart, Zenon
      <3>3. (r + i) % N \in 0..N - 1
        BY <1>1, <3>1, ModSplit, Zenon
      <3>4. QED
        BY <2>1, <2>2, <3>2, <3>3, Zenon
    <2>4. QED
      BY <2>1, <2>2, <2>3, Zenon
  <1>10. RingInv'
    <2>1. Lines' + Editing' = Waiting' /\ Waiting' <= N
      BY <1>1, <1>4, <1>5, <1>8
    <2>2. QED
      BY <1>6, <1>9, <2>1, Zenon DEF RingInv, N
  <1>11. ViewsRight'
    BY <1>10, ViewsNext, Zenon
  <1>types. /\ r \in Int /\ w \in Int /\ r + Lines \in Int
            /\ Lines \in Nat /\ Editing \in Nat /\ Waiting \in Nat
    BY <1>1, <1>4
  <1>12. /\ \A i \in 0..Lines - 1 : i \in 0..Waiting - 1
         /\ \A i \in 0..Editing - 1 : /\ i \in Int /\ Lines + i \in 0..Waiting - 1
                                      /\ (r + Lines) + i = r + (Lines + i)
         /\ (r + Lines) + Editing = r + Waiting /\ Editing \in Int
    BY <1>1, <1>4
  <1>13. /\ LinesView = Ring(buf, r, Lines) /\ EditView = Ring(buf, w, Editing)
         /\ LinesView' = Ring(buf', r, Lines') /\ EditView' = Ring(buf', w', Editing')
    BY <1>3, <1>5, <1>11, Zenon DEF ViewsRight
  <1>14. \A i \in 0..Editing - 1 : buf'[(w + i) % N] = buf[(w + i) % N]
    <2> TAKE i \in 0..Editing - 1
    <2>1. (w + i) % N = (r + (Lines + i)) % N
      BY <1>3, <1>12, Zenon DEF ViewsRight, N
    <2>2. QED
      BY <1>9, <1>12, <2>1, Zenon
  <1>15. buf'[(w + Editing) % N] = key
    <2>1. (w + Editing) % N = (r + Waiting) % N
      BY <1>3, <1>12, Zenon DEF ViewsRight, N
    <2>2. QED
      BY <1>9, <2>1, Zenon
  <1>16. /\ LinesView = Ring(buf', r, Lines) /\ EditView = Ring(buf', w, Editing)
    <2>1. Agree(buf', buf, r, Lines)
      BY <1>9, <1>12, Zenon DEF Agree, N
    <2>2. Agree(buf', buf, w, Editing)
      BY <1>14, Zenon DEF Agree, N
    <2>3. Ring(buf', r, Lines) = Ring(buf, r, Lines)
      BY <1>types, <2>1, RingSame
    <2>4. Ring(buf', w, Editing) = Ring(buf, w, Editing)
      BY <1>types, <2>2, RingSame
    <2>5. QED
      BY <1>13, <2>3, <2>4, Zenon
  <1>17. Append(EditView, key) = Ring(buf', w, Editing + 1)
    <2>1. buf' \in Buffers /\ key \in Chars
      BY <1>5, <1>9, Zenon
    <2>2. Append(Ring(buf', w, Editing), key) = Ring(buf', w, Editing + 1)
      BY <1>types, <1>15, <2>1, RingAppend, Zenon DEF N
    <2>3. QED
      BY <1>16, <2>2, Zenon
  <1>18. /\ Len(LinesView) = Lines /\ Len(EditView) = Editing
         /\ Len(Append(EditView, key)) = Editing + 1
    <2>1. Editing + 1 \in Nat
      BY <1>types
    <2>2. Len(Ring(buf', r, Lines)) = Lines /\ Len(Ring(buf', w, Editing)) = Editing
      BY <1>9, <1>types, RingIsSeq, Zenon
    <2>3. Len(Ring(buf', w, Editing + 1)) = Editing + 1
      BY <1>9, <1>types, <2>1, RingIsSeq, Zenon
    <2>4. QED
      BY <1>16, <1>17, <2>2, <2>3, Zenon
  <1>19. CASE ~ends
    <2>1. LinesView' = LinesView /\ EditView' = Append(EditView, key)
      BY <1>5, <1>8, <1>13, <1>16, <1>17, <1>19, Zenon
    <2>2. ~(key \in {Newline, Eof} \/ Lines + (Editing + 1) = N) /\ Lines + Editing < N
      BY <1>1, <1>5, <1>types, <1>19 DEF ends
    <2>3. Tty!Type(key)
      BY <1>18, <2>1, <2>2, Zenon DEF Tty!Type, N
    <2>4. QED
      BY <1>5, <1>10, <2>3, Zenon
  <1>20. CASE ends
    <2>1. /\ Lines + (Editing + 1) = Waiting + 1 /\ Editing + 1 \in Nat
          /\ \A k \in 1..Editing + 1 : k - 1 \in Int
      BY <1>1, <1>types
    <2>2. Ring(buf', w, Editing + 1) = Ring(buf', r + Lines, Editing + 1)
      BY <1>3, <2>1, Zenon DEF ViewsRight, Ring
    <2>3. Ring(buf', r, Lines) \o Ring(buf', r + Lines, Editing + 1)
            = Ring(buf', r, Lines + (Editing + 1))
      <3>1. buf' \in Buffers
        BY <1>9, Zenon
      <3>2. QED
        BY <1>types, <2>1, <3>1, RingConcat, Zenon
    <2>4. LinesView' = LinesView \o Append(EditView, key)
      BY <1>8, <1>13, <1>16, <1>17, <1>20, <2>1, <2>2, <2>3, Zenon
    <2>5. EditView' = << >>
      <3>1. EditView' = Ring(buf', w', 0)
        BY <1>8, <1>13, <1>20, Zenon
      <3>2. QED
        BY <3>1 DEF Ring
    <2>6. (key \in {Newline, Eof} \/ Lines + (Editing + 1) = N) /\ Lines + Editing < N
      BY <1>1, <1>5, <1>types, <1>20 DEF ends
    <2>7. Tty!Type(key)
      BY <1>18, <2>4, <2>5, <2>6, Zenon DEF Tty!Type, N
    <2>8. QED
      BY <1>5, <1>10, <2>7, Zenon
  <1>21. QED
    BY <1>19, <1>20, Zenon

\* ^H and ^U take characters off the end of the line that is being typed, and no
\* character of a finished line.
LEMMA ErasesEnd ==
  ASSUME RingInv, erased, result' = None
  PROVE  RingInv' /\ \E k \in 1..INPUT_BUF_SIZE : Tty!Erase(k)
  <1> DEFINE N == INPUT_BUF_SIZE
             k == IF key = Backspace THEN 1 ELSE Editing
  <1>1. /\ r \in 0..WRAP - 1 /\ w \in 0..WRAP - 1 /\ e \in 0..WRAP - 1
        /\ N \in Nat \ {0} /\ WRAP \in Nat \ {0} /\ WRAP > N
        /\ Lines + Editing = Waiting /\ Waiting <= N /\ buf \in Buffers
    BY ConsoleAssumption DEF RingInv
  <1>2. /\ Lines = IF w >= r THEN w - r ELSE w - r + WRAP
        /\ Editing = IF e >= w THEN e - w ELSE e - w + WRAP
        /\ Waiting = IF e >= r THEN e - r ELSE e - r + WRAP
    BY <1>1, Distance, Zenon DEF Lines, Editing, Waiting
  <1>3. ViewsRight
    BY Views, Zenon
  <1>4. Lines \in 0..N /\ Editing \in 0..N /\ Waiting \in 0..N
    BY <1>3, Zenon DEF ViewsRight
  <1>5. e # w /\ e' = Inc(e, -k) /\ buf' = Kept(r, e') /\ r' = r /\ w' = w
    BY Zenon DEF erased, Erases
  <1>6. k \in 1..Editing /\ k \in 1..N
    BY <1>1, <1>2, <1>4, <1>5
  <1> HIDE DEF N, k
  <1>7. e' = IF e >= k THEN e - k ELSE e - k + WRAP
    BY <1>1, <1>4, <1>5, <1>6, Back
  <1>8. e' \in 0..WRAP - 1 /\ w' \in 0..WRAP - 1 /\ r' \in 0..WRAP - 1
    BY <1>1, <1>4, <1>5, <1>6, <1>7
  <1>9. /\ Lines' = Lines
        /\ Editing' = IF e' >= w THEN e' - w ELSE e' - w + WRAP
        /\ Waiting' = IF e' >= r THEN e' - r ELSE e' - r + WRAP
    BY <1>1, <1>5, <1>8, Distance, Zenon DEF Lines, Editing, Waiting
  <1>10. Waiting' = Waiting - k /\ Editing' = Editing - k
    BY <1>1, <1>2, <1>4, <1>6, <1>7, <1>9
  <1>11. /\ buf' \in Buffers
         /\ \A i \in 0..Waiting' - 1 : buf'[(r + i) % N] = buf[(r + i) % N]
    <2>1. Waiting' \in Nat /\ (e' - r) % WRAP = Waiting'
      BY <1>1, <1>4, <1>5, <1>6, <1>10 DEF Waiting
    <2>2. /\ Kept(r, e') \in Buffers
          /\ \A i \in 0..Waiting' - 1 : Kept(r, e')[(r + i) % N] = buf[(r + i) % N]
      BY <1>1, <2>1, KeptIs, Zenon DEF N
    <2>3. QED
      BY <1>5, <2>2, Zenon
  <1>12. RingInv'
    <2>1. Lines' + Editing' = Waiting' /\ Waiting' <= N
      BY <1>1, <1>4, <1>6, <1>9, <1>10
    <2>2. QED
      BY <1>8, <1>11, <2>1, Zenon DEF RingInv, N
  <1>13. ViewsRight'
    BY <1>12, ViewsNext, Zenon
  <1>14. /\ LinesView = Ring(buf, r, Lines) /\ EditView = Ring(buf, w, Editing)
         /\ LinesView' = Ring(buf', r, Lines) /\ EditView' = Ring(buf', w, Editing - k)
    BY <1>3, <1>5, <1>9, <1>10, <1>13, Zenon DEF ViewsRight
  <1>types. /\ r \in Int /\ w \in Int /\ Lines \in Nat /\ Editing \in Nat
            /\ Editing - k \in Nat /\ Editing - k \in 0..Editing
    BY <1>1, <1>4, <1>6
  <1>15. /\ \A i \in 0..Lines - 1 : i \in 0..Waiting' - 1
         /\ \A i \in 0..(Editing - k) - 1 : /\ i \in Int /\ Lines + i \in 0..Waiting' - 1
                                            /\ (r + Lines) + i = r + (Lines + i)
    BY <1>1, <1>4, <1>6, <1>10
  <1>16. LinesView' = LinesView
    <2>1. Agree(buf', buf, r, Lines)
      BY <1>11, <1>15, Zenon DEF Agree, N
    <2>2. QED
      BY <1>14, <1>types, <2>1, RingSame
  <1>17. EditView' = Ring(buf, w, Editing - k)
    <2>1. ASSUME NEW i \in 0..(Editing - k) - 1
          PROVE  buf'[(w + i) % N] = buf[(w + i) % N]
      <3>1. (w + i) % N = (r + (Lines + i)) % N
        BY <1>3, <1>15, Zenon DEF ViewsRight, N
      <3>2. QED
        BY <1>11, <1>15, <3>1, Zenon
    <2>2. Agree(buf', buf, w, Editing - k)
      BY <2>1, Zenon DEF Agree, N
    <2>3. QED
      BY <1>14, <1>types, <2>2, RingSame
  <1>18. EditView' = SubSeq(EditView, 1, Editing - k)
    BY <1>1, <1>14, <1>17, <1>types, RingFront, Zenon
  <1>19. Len(EditView) = Editing
    BY <1>1, <1>14, <1>types, RingIsSeq, Zenon
  <1>20. Tty!Erase(k)
    BY <1>6, <1>16, <1>18, <1>19, Zenon DEF Tty!Erase
  <1>21. QED
    BY <1>6, <1>12, <1>20, Zenon DEF N

\* copyout() fails: the character is lost.
LEMMA FaultTakesOne ==
  ASSUME RingInv, NEW p \in Procs, read_fault(p), result' = None
  PROVE  RingInv' /\ Tty!Fault
  <1> DEFINE N == INPUT_BUF_SIZE
  <1>1. /\ r \in 0..WRAP - 1 /\ w \in 0..WRAP - 1 /\ r \in Int
        /\ N \in Nat \ {0} /\ WRAP \in Nat \ {0} /\ buf \in Buffers
    BY ConsoleAssumption DEF RingInv
  <1>2. r # w /\ At(r) # Eof /\ r' = Inc(r, 1) /\ buf' = Kept(r', e) /\ UNCHANGED <<w, e>>
    BY Zenon DEF read_fault
  <1>3. ViewsRight
    BY Views, Zenon
  <1>4. Lines \in 0..N /\ LinesView = Ring(buf, r, Lines)
    BY <1>3, Zenon DEF ViewsRight
  <1>5. Lines >= 1
    <2>1. Lines = IF w >= r THEN w - r ELSE w - r + WRAP
      BY <1>1, Distance, Zenon DEF Lines
    <2>2. QED
      BY <1>1, <1>2, <2>1
  <1>6. RingInv' /\ EditView' = EditView /\ LinesView' = SubSeq(LinesView, 2, Lines)
    <2>1. 1 \in 0..Lines /\ 1 + 1 = 2
      BY <1>1, <1>4, <1>5
    <2>2. RingInv' /\ EditView' = EditView /\ LinesView' = SubSeq(LinesView, 1 + 1, Lines)
      BY <1>2, <2>1, TakesFront, Zenon
    <2>3. QED
      BY <2>1, <2>2, Zenon
  <1>7. /\ LinesView \in Seq(Chars) /\ Len(LinesView) = Lines
        /\ LinesView[1] = buf[(r + (1 - 1)) % N]
    <2>1. Lines \in Nat /\ 1 \in 1..Lines
      BY <1>1, <1>4, <1>5
    <2>2. /\ LinesView \in Seq(Chars) /\ Len(LinesView) = Lines
          /\ \A j \in 1..Lines : LinesView[j] = buf[(r + (j - 1)) % N]
      BY <1>1, <1>4, <2>1, RingIsSeq, Zenon
    <2>3. QED
      BY <2>1, <2>2, Zenon
  <1>8. LinesView[1] # Eof
    <2>1. r + (1 - 1) = r
      BY <1>1
    <2>2. QED
      BY <1>2, <1>7, <2>1, Zenon DEF At
  <1>9. LinesView # << >> /\ SubSeq(LinesView, 2, Lines) = Tail(LinesView)
    BY <1>4, <1>5, <1>7
  <1>10. QED
    BY <1>6, <1>8, <1>9, Zenon DEF Tty!Fault


\* A reader gets a part of a line, or the end of the file, or nothing yet.
LEMMA ReadsLine ==
  ASSUME RingInv, NEW p \in Procs, NEW k \in 0..MaxN, read_line(p, k)
  PROVE  /\ RingInv'
         /\ \/ \E j \in 1..INPUT_BUF_SIZE : Tty!Get(j)
            \/ Tty!End \/ Tty!Other
  <1> DEFINE N == INPUT_BUF_SIZE
             eof == k < left[p] /\ k < Lines /\ At(Inc(r, k)) = Eof
             eats == ~EndsLine(k) /\ eof /\ Ends(p, k)
             chars == [i \in 1..k |-> At(Inc(r, i - 1))]
  <1>1. /\ r \in 0..WRAP - 1 /\ w \in 0..WRAP - 1 /\ r \in Int
        /\ N \in Nat \ {0} /\ WRAP \in Nat \ {0} /\ buf \in Buffers /\ MaxN \in Nat
    BY ConsoleAssumption DEF RingInv
  <1>2. /\ r' = Inc(r, IF eats THEN k + 1 ELSE k) /\ buf' = Kept(r', e) /\ UNCHANGED <<w, e>>
        /\ result' = IF k > 0 \/ eats THEN chars ELSE None
        /\ k <= Lines /\ r # w
        /\ \A i \in 1..k : At(Inc(r, i - 1)) # Eof /\ (At(Inc(r, i - 1)) = Newline => i = k)
    BY Zenon DEF read_line, Copies
  <1>3. eats => k = 0 /\ k < Lines /\ At(Inc(r, k)) = Eof
    BY Zenon DEF Ends
  <1> HIDE DEF eof, eats, chars
  <1>4. ViewsRight
    BY Views, Zenon
  <1>5. Lines \in 0..N /\ LinesView = Ring(buf, r, Lines)
    BY <1>4, Zenon DEF ViewsRight
  <1>6. Lines \in Nat /\ k \in 0..Lines
    BY <1>1, <1>2, <1>5
  <1>7. /\ LinesView \in Seq(Chars) /\ Len(LinesView) = Lines
        /\ \A j \in 1..Lines : LinesView[j] = buf[(r + (j - 1)) % N]
    BY <1>1, <1>5, <1>6, RingIsSeq, Zenon
  <1>8. \A j \in 1..Lines : LinesView[j] = At(Inc(r, j - 1))
    <2> TAKE j \in 1..Lines
    <2>1. j - 1 \in Int
      BY <1>6
    <2>2. Inc(r, j - 1) % N = (r + (j - 1)) % N
      BY <1>1, <2>1, SlotOfInc, Zenon DEF N
    <2>3. QED
      BY <1>7, <2>2, Zenon DEF At, N
  <1>9. CASE eats
    <2>1. 1 \in 0..Lines /\ k + 1 = 1 /\ 1 + 1 = 2 /\ 1 \in 1..Lines /\ 1 - 1 = k
      BY <1>3, <1>6, <1>9
    <2>2. RingInv' /\ EditView' = EditView /\ LinesView' = SubSeq(LinesView, 1 + 1, Lines)
      BY <1>2, <1>9, <2>1, TakesFront, Zenon
    <2>3. LinesView[1] = Eof
      BY <1>3, <1>8, <1>9, <2>1, Zenon
    <2>4. LinesView # << >> /\ SubSeq(LinesView, 1 + 1, Lines) = Tail(LinesView)
      BY <1>6, <1>7, <2>1
    <2>5. result' = << >>
      <3>1. result' = [i \in 1..0 |-> At(Inc(r, i - 1))]
        BY <1>2, <1>3, <1>9, Zenon DEF chars
      <3>2. QED
        BY <3>1
    <2>6. Tty!End
      BY <2>2, <2>3, <2>4, <2>5, Zenon DEF Tty!End
    <2>7. QED
      BY <2>2, <2>6, Zenon
  <1>10. CASE ~eats
    <2>1. RingInv' /\ EditView' = EditView /\ LinesView' = SubSeq(LinesView, k + 1, Lines)
      BY <1>2, <1>6, <1>10, TakesFront, Zenon
    <2>2. CASE k = 0
      <3>1. result' = None
        BY <1>2, <1>10, <2>2
      <3>2. SubSeq(LinesView, k + 1, Lines) = LinesView
        BY <1>7, <2>2
      <3>3. Tty!Other
        BY <2>1, <3>1, <3>2, Zenon DEF Tty!Other
      <3>4. QED
        BY <2>1, <3>3, Zenon
    <2>3. CASE k # 0
      <3>1. k > 0 /\ k \in 1..Lines /\ k \in 1..N /\ \A i \in 1..k : i \in 1..Lines
        BY <1>1, <1>5, <1>6, <2>3
      <3>2. result' = SubSeq(LinesView, 1, k)
        <4>1. \A i \in 1..k : LinesView[i] = At(Inc(r, i - 1))
          BY <1>8, <3>1, Zenon
        <4>2. chars = [i \in 1..k |-> LinesView[i]]
          BY <4>1, Zenon DEF chars
        <4>3. SubSeq(LinesView, 1, k) = [i \in 1..k |-> LinesView[i]]
          BY <1>7, <3>1
        <4>4. QED
          BY <1>2, <3>1, <4>2, <4>3, Zenon
      <3>3. \A i \in 1..k : LinesView[i] # Eof /\ (LinesView[i] = Newline => i = k)
        BY <1>2, <1>8, <3>1, Zenon
      <3>4. Tty!Get(k)
        BY <1>7, <2>1, <3>1, <3>2, <3>3, Zenon DEF Tty!Get
      <3>5. QED
        BY <2>1, <3>1, <3>4, Zenon DEF N
    <2>4. QED
      BY <2>2, <2>3, Zenon
  <1>11. QED
    BY <1>9, <1>10, Zenon

\* The other steps leave the buffer alone.
LEMMA OtherSteps ==
  ASSUME Steps, ~stored, ~erased, ~ \E p \in Procs : read_fault(p)
  PROVE  UNCHANGED cons
  BY Zenon DEF Steps, transmit, receive, printf_waits, printf_writes, uartintr, uartintr_tx,
       uartgetc, uartintr_done, consputc, ignored, consolewrite, consoleread,
       uartwrite_sleep, uartwrite, kill, exit, read_empty, read_sleep

\* Every step of the console is a step of TtyLines or leaves what it shows alone.
LEMMA StepRefines ==
  ASSUME RingInv, [Next]_vars
  PROVE  RingInv' /\ [Tty!tvars' # Tty!tvars /\ Tty!TNext]_(Tty!tvars)
  <1>1. CASE UNCHANGED vars
    <2>1. UNCHANGED cons /\ result' = result
      BY <1>1, Zenon DEF vars
    <2>2. QED
      BY <2>1, ViewsStay, Zenon DEF Tty!tvars
  <1>2. ASSUME Steps, result' = None PROVE RingInv' /\ Tty!TNext
    <2>1. CASE stored
      BY <1>2, <2>1, StoresOne, Zenon DEF Tty!TNext
    <2>2. CASE erased
      BY <1>2, <2>2, ErasesEnd, Zenon DEF Tty!TNext
    <2>3. ASSUME NEW p \in Procs, read_fault(p) PROVE RingInv' /\ Tty!TNext
      BY <1>2, <2>3, FaultTakesOne, Zenon DEF Tty!TNext
    <2>4. CASE ~stored /\ ~erased /\ ~ \E p \in Procs : read_fault(p)
      <3>1. UNCHANGED cons
        BY <1>2, <2>4, OtherSteps, Zenon
      <3>2. QED
        BY <1>2, <3>1, ViewsStay, Zenon DEF Tty!TNext, Tty!Other
    <2>5. QED
      BY <2>1, <2>2, <2>3, <2>4, Zenon
  <1>3. ASSUME NEW p \in Procs, NEW k \in 0..MaxN, read_line(p, k) PROVE RingInv' /\ Tty!TNext
    BY <1>3, ReadsLine, Zenon DEF Tty!TNext
  <1>4. CASE Next
    BY <1>2, <1>3, <1>4, Zenon DEF Next
  <1>5. QED
    BY <1>1, <1>4, Zenon

\* For any size of the buffer, any width of the indices and any number of readers, the
\* console delivers what was typed, once and in order: the code of consoleread() and
\* consoleintr() with its three indices that wrap implements TtyLines.
THEOREM ConsoleDeliversLines == Spec => ImplementsTtyLines
  <1>1. Init => RingInv /\ Tty!TInit
    <2> SUFFICES ASSUME Init PROVE RingInv /\ Tty!TInit
      BY Zenon
    <2>1. /\ buf = [k \in 0..INPUT_BUF_SIZE - 1 |-> None] /\ r = 0 /\ w = 0 /\ e = 0
          /\ result = None
      BY Zenon DEF Init
    <2>2. buf \in Buffers
      BY <2>1, Zenon DEF Buffers, Chars
    <2>3. Lines = 0 /\ Editing = 0 /\ Waiting = 0
      BY <2>1, ConsoleAssumption, Distance DEF Lines, Editing, Waiting
    <2>4. RingInv
      BY <2>1, <2>2, <2>3, ConsoleAssumption DEF RingInv
    <2>5. LinesView = << >> /\ EditView = << >>
      BY <2>3 DEF LinesView, EditView
    <2>6. QED
      BY <2>1, <2>4, <2>5, Zenon DEF Tty!TInit
  <1>2. QED
    BY <1>1, StepRefines, PTL DEF Spec, ImplementsTtyLines, Tty!TSpec

=============================================================================

------------------------------ MODULE Console -------------------------------
(***************************************************************************)
(* The console (kernel/console.c) and the UART under it (kernel/uart.c):   *)
(* processes that read and write, the interrupt handler, and the device.   *)
(*                                                                         *)
(* A critical section of tx_lock is one step.  cons.lock is a variable:    *)
(* consoleread() looks at the kill flag while it holds it, and             *)
(* consoleintr() waits for the device.  One interrupt is handled at a time *)
(* (the PLIC).  An echo is one character, whatever it draws.               *)
(***************************************************************************)
EXTENDS Integers, Sequences, FiniteSets

CONSTANTS Procs,
          Plain, Newline, Eof, Backspace, KillLine, \* what can be typed
          INPUT_BUF_SIZE,
          WRAP,  \* the indices are taken modulo this (2^32)
          FIFO,  \* characters the device holds before one is lost
          MaxN,  \* bound: the longest read and write
          None

ASSUME ConsoleAssumption ==
  /\ INPUT_BUF_SIZE \in Nat \ {0} /\ WRAP \in Nat /\ FIFO \in Nat /\ MaxN \in Nat
  /\ WRAP > INPUT_BUF_SIZE /\ WRAP % INPUT_BUF_SIZE = 0
  /\ FIFO >= 3 \* the device has 16
  /\ None \notin Procs /\ "intr" \notin Procs \cup {None}

VARIABLES buf, r, w, e, \* cons
          lock,    \* cons.lock: "intr", a process or None
          result,  \* what this step delivered to a reader, or None
          tx_busy,
          fifo,    \* device: characters it has still to transmit
          thre,    \* device: the interrupt "transmitter empty" is pending
          rx,      \* device: a character has arrived
          intr,    \* where uartintr() stands
          key,     \* the character consoleintr() deals with, or None
          pc, left, \* each process: where it stands, characters still wanted
          got,     \* processes whose read has got something
          killed,
          printf   \* a printf() has found the transmitter idle

cons == <<buf, r, w, e>>
uart == <<tx_busy, fifo, thre, rx>>
proc == <<pc, left, got, killed>>
vars == <<cons, lock, result, uart, intr, key, printf, proc>>

Init ==
  /\ buf = [k \in 0..INPUT_BUF_SIZE - 1 |-> None]
  /\ r = 0 /\ w = 0 /\ e = 0
  /\ lock = None /\ result = None
  /\ tx_busy = FALSE /\ fifo = 0 /\ thre = FALSE /\ rx = FALSE
  /\ intr = "idle" /\ key = None
  /\ pc = [p \in Procs |-> "user"]
  /\ left = [p \in Procs |-> 0]
  /\ got = {} /\ killed = {} /\ printf = FALSE

Goto(p, l) == pc' = [pc EXCEPT ![p] = l]
Inc(i, n) == (i + n) % WRAP
At(i) == buf[i % INPUT_BUF_SIZE]

\* What cons.buf holds between from and to; the model forgets the rest, which has
\* been read or erased.
Kept(from, to) ==
  [k \in DOMAIN buf |->
     IF \E i \in 0..((to - from) % WRAP) - 1 : k = Inc(from, i) % INPUT_BUF_SIZE
       THEN buf[k] ELSE None]

\* WriteReg(THR, c) takes back the interrupt of an empty transmitter.
WriteTHR == fifo' = fifo + 1 /\ thre' = FALSE

-----------------------------------------------------------------------------
(* The device *)

\* A character is sent; the last one raises the interrupt.
transmit ==
  /\ fifo > 0
  /\ fifo' = fifo - 1
  /\ thre' = (thre \/ fifo = 1)
  /\ UNCHANGED <<cons, lock, tx_busy, rx, intr, key, printf, proc>>

receive ==
  /\ ~rx
  /\ rx' = TRUE
  /\ UNCHANGED <<cons, lock, tx_busy, fifo, thre, intr, key, printf, proc>>

-----------------------------------------------------------------------------
(* consolewrite and uartwrite *)

consolewrite(p, n) ==
  /\ pc[p] = "user" /\ p \notin killed
  /\ left' = [left EXCEPT ![p] = n]
  /\ Goto(p, "uartwrite")
  /\ UNCHANGED <<cons, lock, uart, intr, key, printf, got, killed>>

uartwrite_sleep(p) ==
  /\ pc[p] = "uartwrite" /\ tx_busy
  /\ Goto(p, "tx_chan")
  /\ UNCHANGED <<cons, lock, uart, intr, key, printf, left, got, killed>>

\* WriteReg(THR), tx_busy = 1; for the next character it sleeps.
uartwrite(p) ==
  /\ pc[p] = "uartwrite" /\ ~tx_busy
  /\ WriteTHR
  /\ tx_busy' = TRUE
  /\ left' = [left EXCEPT ![p] = @ - 1]
  /\ Goto(p, IF left[p] > 1 THEN "tx_chan" ELSE "user")
  /\ UNCHANGED <<cons, lock, rx, intr, key, printf, got, killed>>

\* kill() ends every sleep; the loop of uartwrite() goes back to it.
kill(p) ==
  /\ pc[p] # "user" /\ p \notin killed
  /\ killed' = killed \cup {p}
  /\ Goto(p, CASE pc[p] = "tx_chan" -> "uartwrite" [] pc[p] = "sleep" -> "consoleread"
               [] OTHER -> pc[p])
  /\ UNCHANGED <<cons, lock, uart, intr, key, printf, left, got>>

\* A killed process is replaced by another one once it has left the kernel.
exit(p) ==
  /\ pc[p] = "user" /\ p \in killed
  /\ killed' = killed \ {p}
  /\ UNCHANGED <<cons, lock, uart, intr, key, printf, pc, left, got>>

-----------------------------------------------------------------------------
(* uartintr and consoleintr *)

\* ReadReg(ISR) acknowledges the interrupt.
uartintr ==
  /\ intr = "idle" /\ (thre \/ rx)
  /\ thre' = FALSE
  /\ intr' = "acked"
  /\ UNCHANGED <<cons, lock, tx_busy, fifo, rx, key, printf, proc>>

\* Under tx_lock: is the transmitter idle?
uartintr_tx ==
  /\ intr = "acked"
  /\ \/ /\ fifo = 0
        /\ tx_busy' = FALSE
        /\ pc' = [p \in Procs |-> IF pc[p] = "tx_chan" THEN "uartwrite" ELSE pc[p]]
     \/ fifo # 0 /\ UNCHANGED <<tx_busy, pc>>
  /\ intr' = "rx"
  /\ UNCHANGED <<cons, lock, fifo, thre, rx, key, printf, left, got, killed>>

\* uartgetc() finds c, and acquire(&cons.lock).
uartgetc(c) ==
  /\ intr = "rx" /\ rx /\ lock = None
  /\ rx' = FALSE /\ key' = c
  /\ lock' = "intr"
  /\ intr' = "consoleintr"
  /\ UNCHANGED <<cons, tx_busy, fifo, thre, printf, proc>>

Bug_uartintr_done ==
  /\ intr = "rx" /\ ~rx
  /\ intr' = "idle"
  /\ thre' = FALSE
  /\ UNCHANGED <<cons, lock, tx_busy, fifo, rx, key, printf, proc>>
uartintr_done ==
  /\ intr = "rx" /\ ~rx
  /\ intr' = "idle"
  /\ UNCHANGED <<cons, lock, uart, key, printf, proc>>

Editing == (e - w) % WRAP
Waiting == (e - r) % WRAP
Accepts(c) == c \in Plain \cup {Newline, Eof} /\ Waiting < INPUT_BUF_SIZE
Bug_Erases(c) == c \in {Backspace, KillLine} /\ e # r
Erases(c) == c \in {Backspace, KillLine} /\ e # w

\* uartputc_sync(), from printf() and for the echo, reads LSR until the
\* transmitter is idle and then writes THR, both without tx_lock.
Bug_Idle == TRUE
Idle == fifo = 0

printf_waits ==
  /\ ~printf /\ Idle
  /\ printf' = TRUE
  /\ UNCHANGED <<cons, lock, uart, intr, key, proc>>

printf_writes ==
  /\ printf
  /\ printf' = FALSE
  /\ WriteTHR
  /\ UNCHANGED <<cons, lock, tx_busy, rx, intr, key, proc>>

consputc ==
  /\ intr = "consoleintr" /\ (Accepts(key) \/ Erases(key))
  /\ Idle
  /\ intr' = "echo"
  /\ UNCHANGED <<cons, lock, uart, key, printf, proc>>

Released == lock' = None /\ key' = None /\ intr' = "rx"

ignored ==
  /\ intr = "consoleintr" /\ ~Accepts(key) /\ ~Erases(key)
  /\ Released
  /\ UNCHANGED <<cons, uart, printf, proc>>

wakeup_readers == [p \in Procs |-> IF pc[p] = "sleep" THEN "consoleread" ELSE pc[p]]

\* The character is stored; the end of a line, or a full buffer, publishes it.
stored ==
  /\ intr = "echo" /\ Accepts(key)
  /\ WriteTHR
  /\ buf' = [buf EXCEPT ![e % INPUT_BUF_SIZE] = key]
  /\ e' = Inc(e, 1)
  /\ IF key \in {Newline, Eof} \/ Waiting + 1 = INPUT_BUF_SIZE
       THEN /\ w' = e'
            /\ pc' = wakeup_readers
       ELSE UNCHANGED <<w, pc>>
  /\ Released
  /\ UNCHANGED <<r, tx_busy, rx, printf, left, got, killed>>

\* One character, or the whole line that is being typed.
erased ==
  /\ intr = "echo" /\ Erases(key)
  /\ WriteTHR
  /\ e' = Inc(e, -(IF key = Backspace THEN 1 ELSE Editing))
  /\ buf' = Kept(r, e')
  /\ Released
  /\ UNCHANGED <<r, w, tx_busy, rx, printf, proc>>

-----------------------------------------------------------------------------
(* consoleread *)

consoleread(p, n) ==
  /\ pc[p] = "user" /\ p \notin killed
  /\ left' = [left EXCEPT ![p] = n]
  /\ got' = got \ {p}
  /\ Goto(p, "consoleread")
  /\ UNCHANGED <<cons, lock, uart, intr, key, printf, killed>>

\* No line: p looks at the kill flag and keeps cons.lock until it sleeps.
read_empty(p) ==
  /\ pc[p] = "consoleread" /\ lock = None /\ r = w
  /\ IF p \in killed
       THEN /\ Goto(p, "user")
            /\ left' = [left EXCEPT ![p] = 0]
            /\ got' = got \ {p}
            /\ UNCHANGED lock
       ELSE /\ Goto(p, "sleeps")
            /\ lock' = p
            /\ UNCHANGED <<left, got>>
  /\ UNCHANGED <<cons, uart, intr, key, printf, killed>>

read_sleep(p) ==
  /\ pc[p] = "sleeps"
  /\ lock' = None
  /\ Goto(p, "sleep")
  /\ UNCHANGED <<cons, uart, intr, key, printf, left, got, killed>>

\* Turns of the loop up to the end of the line, the end of the read or the end of
\* the input: k characters are copied.
Lines == (w - r) % WRAP
EndsLine(k) == k > 0 /\ At(Inc(r, k - 1)) = Newline
Copies(p, k) ==
  /\ k <= left[p] /\ k <= Lines
  /\ \A i \in 1..k : At(Inc(r, i - 1)) # Eof /\ (At(Inc(r, i - 1)) = Newline => i = k)
  /\ k = left[p] \/ k = Lines \/ At(Inc(r, k)) = Eof \/ EndsLine(k)

\* ^D ends a read that has got nothing and is kept for the next read otherwise.
Ends(p, k) == k = 0 /\ p \notin got

read_line(p, k) ==
  LET eof == k < left[p] /\ k < Lines /\ At(Inc(r, k)) = Eof
      eats == ~EndsLine(k) /\ eof /\ Ends(p, k)
  IN  /\ pc[p] = "consoleread" /\ lock = None /\ r # w
      /\ Copies(p, k)
      /\ r' = Inc(r, IF eats THEN k + 1 ELSE k)
      /\ buf' = Kept(r', e)
      /\ result' = IF k > 0 \/ eats THEN [i \in 1..k |-> At(Inc(r, i - 1))] ELSE None
      /\ IF EndsLine(k) \/ eof \/ k = left[p]
           THEN /\ Goto(p, "user")
                /\ left' = [left EXCEPT ![p] = 0]
                /\ got' = got \ {p}
           ELSE /\ left' = [left EXCEPT ![p] = @ - k]
                /\ got' = got \cup {p}
                /\ UNCHANGED pc
      /\ UNCHANGED <<w, e, lock, uart, intr, key, printf, killed>>

\* copyout() fails for the first character, which is gone.
read_fault(p) ==
  /\ pc[p] = "consoleread" /\ lock = None /\ r # w /\ At(r) # Eof
  /\ r' = Inc(r, 1)
  /\ buf' = Kept(r', e)
  /\ Goto(p, "user")
  /\ left' = [left EXCEPT ![p] = 0]
  /\ got' = got \ {p}
  /\ UNCHANGED <<w, e, lock, uart, intr, key, printf, killed>>

-----------------------------------------------------------------------------

Keys == Plain \cup {Newline, Eof, Backspace, KillLine}

\* Every step but one that reads.
Steps ==
  \/ transmit \/ receive \/ printf_waits \/ printf_writes
  \/ uartintr \/ uartintr_tx \/ (\E c \in Keys : uartgetc(c)) \/ uartintr_done
  \/ consputc \/ ignored \/ stored \/ erased
  \/ \E p \in Procs :
       \/ \E n \in 1..MaxN : consolewrite(p, n) \/ consoleread(p, n)
       \/ uartwrite_sleep(p) \/ uartwrite(p) \/ kill(p) \/ exit(p)
       \/ read_empty(p) \/ read_sleep(p) \/ read_fault(p)

Next ==
  \/ Steps /\ result' = None
  \/ \E p \in Procs : \E k \in 0..MaxN : read_line(p, k)

Spec == Init /\ [][Next]_vars

-----------------------------------------------------------------------------
(* Properties *)

\* A process that sleeps in uartwrite() waits for a transmission, and the interrupt
\* that ends it is still to come: the device is sending, or the interrupt is
\* pending, or the handler has acknowledged it and not yet looked at LSR.
NoMissedTransmit ==
  \A p \in Procs : pc[p] = "tx_chan" =>
    tx_busy /\ (fifo > 0 \/ thre \/ intr = "acked")

\* A process that sleeps in consoleread() has no line to read: a line, an end of
\* file or a full buffer wakes all readers.
NoMissedLine == \A p \in Procs : pc[p] = "sleep" => r = w

\* Nobody sleeps on the console through the event it waits for: neither the end of
\* a transmission nor a line.
NoMissedWakeup == NoMissedTransmit /\ NoMissedLine

\* The device never has more characters to send than it has room for, although
\* printf() and the echo write without tx_lock and uartwrite() without a look at
\* LSR.
NoOverrun == fifo <= FIFO

\* The console delivers what was typed (module TtyLines), across the wrap of the
\* indices, with erasing, full buffers and ends of file.
LinesView == [k \in 1..Lines |-> At(Inc(r, k - 1))]
EditView == [k \in 1..Editing |-> At(Inc(w, k - 1))]
Tty == INSTANCE TtyLines WITH
  Size <- INPUT_BUF_SIZE, NoResult <- None, lines <- LinesView, edit <- EditView
ImplementsTtyLines == Tty!TSpec
=============================================================================

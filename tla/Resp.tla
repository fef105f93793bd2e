-------------------------------- MODULE Resp --------------------------------
(***************************************************************************)
(* The wire format of the file server (resp.c): what resp_read_array()     *)
(* makes of the bytes a client has sent, and the bulk strings the server   *)
(* sends.  A stream is the sequence of the characters not yet received;    *)
(* where it ends the peer has closed the connection.  recv() may split the *)
(* stream anywhere and be interrupted; recv_exact() loops until it has all *)
(* it asked for, so only the stream matters.                               *)
(***************************************************************************)
EXTENDS Integers, Sequences, SequencesExt, TLC

CONSTANTS LINE,     \* size of the line buffer, its NUL included (64)
          MAXITEMS, \* items of a request (128)
          INT_MAX

CR == "r"
LF == "n"
NulByte == "0x0"
Space == {" ", "t", LF, "v", "f", CR}
Digits == {ToString(d) : d \in 0..9}
DigitValue(c) == CHOOSE d \in 0..9 : ToString(d) = c

Rest(s, n) == SubSeq(s, n + 1, Len(s))

\* What recv_exact() returns: 0 when the peer closes first, and also when
\* nothing was asked for.
recv_exact(s, n) == IF Len(s) < n THEN 0 ELSE n

Fails == [ok |-> FALSE]

\* The line is what precedes CR LF and fits the buffer.
recv_crlf_line(s) ==
  LET crs == {k \in 1..Len(s) : s[k] = CR /\ \A j \in 1..k - 1 : s[j] # CR}
      k == CHOOSE i \in crs : TRUE
  IN  IF crs = {} THEN Fails
      ELSE IF k > LINE - 1 \/ k = Len(s) \/ s[k + 1] # LF THEN Fails
      ELSE [ok |-> TRUE, line |-> SubSeq(s, 1, k - 1), rest |-> Rest(s, k + 1)]

\* strtol(): white space, a sign and digits, and nothing after them before the
\* NUL that ends the string, which the line itself may hold.
RECURSIVE strtol(_)
strtol(digits) ==
  IF digits = <<>> THEN 0
  ELSE 10 * strtol(Front(digits)) + DigitValue(Last(digits))

RECURSIVE LTrim(_)
LTrim(line) == IF line # <<>> /\ Head(line) \in Space THEN LTrim(Tail(line)) ELSE line

CString(line) ==
  LET nuls == {k \in DOMAIN line : line[k] = NulByte}
  IN  IF nuls = {} THEN line ELSE SubSeq(line, 1, Min(nuls) - 1)

parse_int(line) ==
  LET t == LTrim(CString(line))
      signed == t # <<>> /\ Head(t) \in {"-", "+"}
      digits == IF signed THEN Tail(t) ELSE t
      v == IF signed /\ Head(t) = "-" THEN -strtol(digits) ELSE strtol(digits)
  IN  IF \/ digits = <<>>
         \/ ~(ToSet(digits) \subseteq Digits)
      THEN Fails
      ELSE IF v < -INT_MAX - 1 \/ v > INT_MAX THEN Fails
      ELSE [ok |-> TRUE, v |-> v]

\* A lead character, a line, and the number on it.
Number(s, lead) ==
  LET l == recv_crlf_line(Rest(s, 1))
      n == parse_int(l.line)
  IN  IF recv_exact(s, 1) <= 0 \/ Head(s) # lead THEN Fails
      ELSE IF ~l.ok THEN Fails
      ELSE IF ~n.ok THEN Fails
      ELSE [ok |-> TRUE, v |-> n.v, rest |-> l.rest]

\* An empty item is refused: recv_exact() of no bytes returns 0.
Bug_Item(s) ==
  LET n == Number(s, "$")
  IN  IF ~n.ok THEN Fails
      ELSE IF n.v < 0 \/ recv_exact(n.rest, n.v) <= 0 THEN Fails
      ELSE [ok |-> TRUE, data |-> SubSeq(n.rest, 1, n.v), rest |-> Rest(n.rest, n.v + 2)]
Item(s) ==
  LET n == Number(s, "$")
      after == Rest(n.rest, n.v)
  IN  IF ~n.ok THEN Fails
      ELSE IF n.v < 0 \/ recv_exact(n.rest, n.v) <= 0 THEN Fails
      ELSE IF recv_exact(after, 2) <= 0 \/ SubSeq(after, 1, 2) # <<CR, LF>> THEN Fails
      ELSE [ok |-> TRUE, data |-> SubSeq(n.rest, 1, n.v), rest |-> Rest(after, 2)]

RECURSIVE Items(_, _)
Items(s, n) ==
  LET first == Item(s)
      others == Items(first.rest, n - 1)
  IN  IF n = 0 THEN [ok |-> TRUE, items |-> <<>>, rest |-> s]
      ELSE IF ~first.ok THEN Fails
      ELSE IF ~others.ok THEN Fails
      ELSE [ok |-> TRUE, items |-> <<first.data>> \o others.items, rest |-> others.rest]

\* The items are freed and the connection is closed when this fails.
resp_read_array(s) ==
  LET n == Number(s, "*")
  IN  IF ~n.ok THEN Fails
      ELSE IF n.v <= 0 \/ n.v > MAXITEMS THEN Fails
      ELSE Items(n.rest, n.v)

RECURSIVE Decimal(_)
Decimal(n) ==
  IF n < 10 THEN <<ToString(n)>> ELSE Append(Decimal(n \div 10), ToString(n % 10))

resp_reply_bulk(data) ==
  <<"$">> \o Decimal(Len(data)) \o <<CR, LF>> \o data \o <<CR, LF>>

\* A request as redis-cli sends it.
Request(items) ==
  <<"*">> \o Decimal(Len(items)) \o <<CR, LF>>
    \o FlattenSeq([i \in DOMAIN items |-> resp_reply_bulk(items[i])])
=============================================================================

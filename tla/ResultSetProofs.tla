--------------------------- MODULE ResultSetProofs ---------------------------
(***************************************************************************)
(* That nothing of an answer is lost or held back, that the query cache    *)
(* gets whole answers only and that a connection is released clean, for    *)
(* answers with any number of columns and rows and any                     *)
(* mysql_max_resultset_size.                                               *)
(*                                                                         *)
(* The argument is that resultset_progress says how far the answer has     *)
(* been read: the packets received and those still to come make one        *)
(* answer, and progress is a function of the number received.  So          *)
(* RESULTSET_COMPLETED comes with the last packet and not before.          *)
(***************************************************************************)
EXTENDS ResultSet, SequenceTheorems, WellFoundedInduction, TLAPS

Kinds == {"OK", "WIDE", "ERR", "COUNT", "COLUMN", "EOF", "ROW", "EMPTY"}
Packets == [kind : Kinds, n : Nat]

(* The two forms an answer has. *)
Single(a) == Len(a) = 1 /\ a[1].kind \in {"OK", "WIDE", "ERR"}

Table(a, c) ==
    /\ Len(a) >= c + 3
    /\ a[1].kind = "COUNT"
    /\ \A i \in 2 .. c + 1 : a[i].kind = "COLUMN"
    /\ a[c + 2].kind = "EOF"
    /\ \A i \in c + 3 .. Len(a) - 1 : a[i].kind \in {"ROW", "EMPTY"}
    /\ a[Len(a)].kind \in {"EOF", "ERR"}

(* resultset_progress when n packets of an answer with c columns were read. *)
ProgressAt(c, n) ==
    CASE n = 0           -> "WAITING"
      [] n = 1           -> "COLUMN_COUNT"
      [] n \in 2 .. c + 1 -> "COLUMN_DEFINITIONS"
      [] n = c + 2       -> "EOF1"
      [] n > c + 2       -> "ROWS"

Follows(at, a, n) ==
    \/ Single(a) /\ at = "WAITING"
    \/ \E c \in 1 .. MaxCols : Table(a, c) /\ at = ProgressAt(c, n)

TypeOK ==
    /\ command \in {"none", "QUERY", "END", "ADMIN"}
    /\ {resultset, server, received} \subseteq Seq(Packets)
    /\ command # "ADMIN" => out \in Seq(Packets)
    /\ size \in Nat
    /\ {to_cache, trx, held, open} \subseteq BOOLEAN
    /\ DOMAIN cache = Queries

(* The inductive invariant. *)
OneAnswer ==
    /\ command \in {"QUERY", "END"} /\ held => received \o server \in Answers
    /\ command = "none" => received = <<>>
    /\ command \in {"none", "ADMIN"} => ~held

Reading ==
    command = "QUERY" /\ held /\ server # <<>> =>
        /\ size = Len(received) /\ (Fits(size) => out = <<>>)
        /\ to_cache => Fits(size)
        /\ Follows(progress, received \o server, Len(received))

Collected ==
    /\ ~held \/ server = <<>> \/ command # "QUERY" => resultset = <<>>
    /\ command # "ADMIN" => NothingLost

ToCache == to_cache => command = "QUERY" /\ query \in Queries

IInv == TypeOK /\ OneAnswer /\ Reading /\ Collected /\ ToCache /\ CachedWhole

-----------------------------------------------------------------------------
(* Sequences. *)

(* An answer moves one packet on. *)
LEMMA MovedOn ==
    ASSUME NEW S, NEW r \in Seq(S), NEW s \in Seq(S), s # <<>>
    PROVE  /\ Head(s) \in S /\ Tail(s) \in Seq(S) /\ Append(r, Head(s)) \in Seq(S)
           /\ Append(r, Head(s)) \o Tail(s) = r \o s
           /\ Len(r) \in Nat /\ Len(Append(r, Head(s))) = Len(r) + 1
           /\ Head(s) = (r \o s)[Len(r) + 1]
           /\ Len(r \o s) \in Nat /\ Len(r \o s) >= Len(r) + 1
           /\ Tail(s) = <<>> <=> Len(r \o s) = Len(r) + 1
  <1>1. /\ Len(r) \in Nat /\ Len(s) \in Nat /\ Len(s) >= 1 /\ Head(s) \in S /\ Head(s) = s[1]
        /\ Tail(s) \in Seq(S) /\ Len(Tail(s)) = Len(s) - 1
    BY LenProperties, EmptySeq, HeadTailProperties
  <1>2. Append(r, Head(s)) \in Seq(S) /\ Len(Append(r, Head(s))) = Len(r) + 1
    BY <1>1, AppendProperties
  <1>3. s = <<Head(s)>> \o Tail(s)
    <2>1. s = SubSeq(s, 1, Len(s)) /\ Tail(s) = SubSeq(s, 2, Len(s))
      BY SubSeqFull, TailIsSubSeq
    <2>2. 1 \in 1 .. Len(s) /\ Len(s) \in 1 .. Len(s) /\ 1 + 1 = 2
      BY <1>1
    <2>3. SubSeq(s, 1, Len(s)) = <<s[1]>> \o SubSeq(s, 2, Len(s))
      BY <2>2, SubSeqRecursiveFirst
    <2> QED BY <1>1, <2>1, <2>3
  <1>4. Append(r, Head(s)) \o Tail(s) = r \o s
    <2>1. Append(r, Head(s)) = r \o <<Head(s)>> /\ <<Head(s)>> \in Seq(S)
      BY <1>1, AppendIsConcat
    <2>2. (r \o <<Head(s)>>) \o Tail(s) = r \o (<<Head(s)>> \o Tail(s))
      BY <1>1, <2>1, ConcatAssociative
    <2> QED BY <1>3, <2>1, <2>2
  <1>5. Len(r \o s) = Len(r) + Len(s) /\ (r \o s)[Len(r) + 1] = s[1]
    BY <1>1, ConcatProperties
  <1>6. Tail(s) = <<>> <=> Len(Tail(s)) = 0
    BY <1>1, EmptySeq, Zenon
  <1> QED BY <1>1, <1>2, <1>4, <1>5, <1>6

Collects(S, s, t, p) ==
    /\ Append(t, p) \in Seq(S) /\ s \o Append(t, p) \in Seq(S)
    /\ s \o Append(t, p) = Append(s \o t, p)

(* A packet collected is the last of what is passed on and collected. *)
LEMMA Collecting ==
    ASSUME NEW S, NEW s \in Seq(S), NEW t \in Seq(S), NEW p \in S
    PROVE  Collects(S, s, t, p)
  <1>1. Append(s, p) \in Seq(S) /\ Append(t, p) \in Seq(S) /\ Append(t, p) = t \o <<p>>
    BY AppendProperties, AppendIsConcat
  <1>2. s \o t \in Seq(S) /\ s \o Append(t, p) \in Seq(S) /\ <<p>> \in Seq(S)
    BY <1>1, ConcatProperties
  <1>3. Append(s \o t, p) = (s \o t) \o <<p>>
    BY <1>2, AppendIsConcat
  <1>4. (s \o t) \o <<p>> = s \o (t \o <<p>>)
    BY <1>2, ConcatAssociative
  <1> QED BY <1>1, <1>2, <1>3, <1>4, Zenon DEF Collects

(* What the concatenation of two sequences holds where. *)
LEMMA Joined ==
    ASSUME NEW S, NEW p \in Seq(S), NEW q \in Seq(S)
    PROVE  /\ p \o q \in Seq(S) /\ Len(p) \in Nat /\ Len(q) \in Nat
           /\ Len(p \o q) = Len(p) + Len(q)
           /\ \A i \in 1 .. Len(p) : (p \o q)[i] = p[i]
           /\ \A i \in 1 .. Len(q) : (p \o q)[Len(p) + i] = q[i]
  <1>1. /\ p \o q \in Seq(S) /\ Len(p \o q) = Len(p) + Len(q)
        /\ \A i \in 1 .. Len(p) + Len(q) :
              (p \o q)[i] = IF i <= Len(p) THEN p[i] ELSE q[i - Len(p)]
    BY ConcatProperties, Zenon
  <1>2. Len(p) \in Nat /\ Len(q) \in Nat
    OBVIOUS
  <1>3. ASSUME NEW i \in 1 .. Len(p)
        PROVE  (p \o q)[i] = p[i]
    <2>1. i \in 1 .. Len(p) + Len(q) /\ i <= Len(p)
      BY <1>2
    <2> QED BY <1>1, <2>1, Zenon
  <1>4. ASSUME NEW i \in 1 .. Len(q)
        PROVE  (p \o q)[Len(p) + i] = q[i]
    <2>1. Len(p) + i \in 1 .. Len(p) + Len(q) /\ ~(Len(p) + i <= Len(p)) /\ (Len(p) + i) - Len(p) = i
      BY <1>2
    <2>2. (p \o q)[Len(p) + i] = q[(Len(p) + i) - Len(p)]
      BY <1>1, <2>1, Zenon
    <2> QED BY <2>1, <2>2, Zenon
  <1> QED BY <1>1, <1>2, <1>3, <1>4, Zenon

(* h has x, c times y and z before the elements of rows. *)
Heads(h, x, y, z, c, rows) ==
    /\ Len(h) = c + 2 + Len(rows)
    /\ h[1] = x /\ h[c + 2] = z
    /\ \A i \in 2 .. c + 1 : h[i] = y
    /\ \A i \in 1 .. Len(rows) : h[c + 2 + i] = rows[i]

(* The packets before the rows, and the rows. *)
LEMMA Headed ==
    ASSUME NEW S, NEW x \in S, NEW y \in S, NEW z \in S, NEW c \in Nat, NEW rows \in Seq(S)
    PROVE  /\ <<x>> \o Repeat(y, c) \o <<z>> \o rows \in Seq(S)
           /\ Heads(<<x>> \o Repeat(y, c) \o <<z>> \o rows, x, y, z, c, rows)
  <1> DEFINE first == <<x>>
             r0 == Repeat(y, c)
             r1 == first \o r0
             middle == <<z>>
             r2 == r1 \o middle
             h == r2 \o rows
  <1>1. first \in Seq(S) /\ Len(first) = 1 /\ first[1] = x
    OBVIOUS
  <1>2. middle \in Seq(S) /\ Len(middle) = 1 /\ middle[1] = z
    OBVIOUS
  <1>3. r0 \in Seq(S) /\ Len(r0) = c /\ \A i \in 1 .. c : r0[i] = y
    BY DEF Repeat
  <1>4. SUFFICES h \in Seq(S) /\ Heads(h, x, y, z, c, rows)
    BY Zenon
  <1> HIDE DEF first, middle, r0
  <1>5. /\ r1 \in Seq(S) /\ Len(r1) = Len(first) + Len(r0)
        /\ \A i \in 1 .. Len(first) : r1[i] = first[i]
        /\ \A i \in 1 .. Len(r0) : r1[Len(first) + i] = r0[i]
    <2>1. first \in Seq(S) /\ r0 \in Seq(S)
      BY <1>1, <1>3, Zenon
    <2>2. /\ first \o r0 \in Seq(S) /\ Len(r0) \in Nat /\ Len(first \o r0) = Len(first) + Len(r0)
          /\ \A i \in 1 .. Len(first) : (first \o r0)[i] = first[i]
          /\ \A i \in 1 .. Len(r0) : (first \o r0)[Len(first) + i] = r0[i]
      BY <2>1, Joined
    <2> QED BY <2>2, Zenon
  <1> HIDE DEF r1
  <1>6. /\ r2 \in Seq(S) /\ Len(r2) = Len(r1) + Len(middle)
        /\ \A i \in 1 .. Len(r1) : r2[i] = r1[i]
        /\ \A i \in 1 .. Len(middle) : r2[Len(r1) + i] = middle[i]
    <2>1. r1 \in Seq(S) /\ middle \in Seq(S)
      BY <1>2, <1>5, Zenon
    <2>2. /\ r1 \o middle \in Seq(S) /\ Len(middle) \in Nat /\ Len(r1 \o middle) = Len(r1) + Len(middle)
          /\ \A i \in 1 .. Len(r1) : (r1 \o middle)[i] = r1[i]
          /\ \A i \in 1 .. Len(middle) : (r1 \o middle)[Len(r1) + i] = middle[i]
      BY <2>1, Joined
    <2> QED BY <2>2, Zenon
  <1> HIDE DEF r2
  <1>7. /\ h \in Seq(S) /\ Len(rows) \in Nat /\ Len(h) = Len(r2) + Len(rows)
        /\ \A i \in 1 .. Len(r2) : h[i] = r2[i]
        /\ \A i \in 1 .. Len(rows) : h[Len(r2) + i] = rows[i]
    <2>1. r2 \in Seq(S)
      BY <1>6, Zenon
    <2>2. /\ r2 \o rows \in Seq(S) /\ Len(rows) \in Nat /\ Len(r2 \o rows) = Len(r2) + Len(rows)
          /\ \A i \in 1 .. Len(r2) : (r2 \o rows)[i] = r2[i]
          /\ \A i \in 1 .. Len(rows) : (r2 \o rows)[Len(r2) + i] = rows[i]
      BY <2>1, Joined
    <2> QED BY <2>2, Zenon
  <1> HIDE DEF h
  <1>8. Len(r1) = c + 1 /\ Len(r2) = c + 2
    BY <1>1, <1>2, <1>3, <1>5, <1>6
  <1>9. h[1] = x /\ h[c + 2] = z
    <2>1. 1 \in 1 .. Len(first) /\ 1 \in 1 .. Len(r1) /\ 1 \in 1 .. Len(r2) /\ 1 \in 1 .. Len(middle)
      BY <1>1, <1>2, <1>8
    <2>2. c + 2 \in 1 .. Len(r2) /\ c + 2 = Len(r1) + 1
      BY <1>8
    <2> QED BY <1>1, <1>2, <1>5, <1>6, <1>7, <2>1, <2>2
  <1>10. ASSUME NEW i \in 2 .. c + 1
         PROVE  h[i] = y
    <2>1. /\ i - 1 \in 1 .. Len(r0) /\ i - 1 \in 1 .. c /\ i = Len(first) + (i - 1)
          /\ i \in 1 .. Len(r1) /\ i \in 1 .. Len(r2)
      BY <1>1, <1>3, <1>8
    <2>2. h[i] = r2[i] /\ r2[i] = r1[i]
      BY <1>6, <1>7, <2>1, Zenon
    <2>3. r1[Len(first) + (i - 1)] = r0[i - 1] /\ r0[i - 1] = y
      BY <1>3, <1>5, <2>1, Zenon
    <2> QED BY <2>1, <2>2, <2>3, Zenon
  <1>11. Len(h) = c + 2 + Len(rows) /\ \A i \in 1 .. Len(rows) : h[c + 2 + i] = rows[i]
    BY <1>7, <1>8
  <1> QED BY <1>7, <1>9, <1>10, <1>11, Zenon DEF Heads

(* a has the packets of a result set of c columns, in their order. *)
Formed(a, c, rows, last) ==
    /\ Len(a) = c + 3 + Len(rows)
    /\ a[1].kind = "COUNT" /\ a[c + 2].kind = "EOF"
    /\ \A i \in 2 .. c + 1 : a[i].kind = "COLUMN"
    /\ \A i \in 1 .. Len(rows) : a[c + 2 + i].kind = rows[i]
    /\ a[c + 3 + Len(rows)].kind = last
    /\ \A i \in 1 .. c + 3 + Len(rows) : a[i].n = i

(* A result set of c columns: the packets with their numbers. *)
LEMMA ResultsetForm ==
    ASSUME NEW c \in Nat, NEW rows \in Seq(Kinds), NEW last \in Kinds
    PROVE  /\ Number(Resultset(c, rows, last)) \in Seq(Packets)
           /\ Formed(Number(Resultset(c, rows, last)), c, rows, last)
  <1> DEFINE h == <<"COUNT">> \o Repeat("COLUMN", c) \o <<"EOF">> \o rows
             e == <<last>>
             r == h \o e
             a == Number(r)
  <1>1. SUFFICES a \in Seq(Packets) /\ Formed(a, c, rows, last)
    BY Zenon DEF Resultset
  <1>2. /\ h \in Seq(Kinds) /\ Len(rows) \in Nat /\ Len(h) = c + 2 + Len(rows)
        /\ h[1] = "COUNT" /\ h[c + 2] = "EOF"
        /\ \A i \in 2 .. c + 1 : h[i] = "COLUMN"
        /\ \A i \in 1 .. Len(rows) : h[c + 2 + i] = rows[i]
    <2>1. "COUNT" \in Kinds /\ "COLUMN" \in Kinds /\ "EOF" \in Kinds
      BY DEF Kinds
    <2>2. h \in Seq(Kinds) /\ Heads(h, "COUNT", "COLUMN", "EOF", c, rows)
      BY <2>1, Headed, Zenon
    <2>3. Len(rows) \in Nat
      OBVIOUS
    <2> QED BY <2>2, <2>3, Zenon DEF Heads
  <1>3. e \in Seq(Kinds) /\ Len(e) = 1 /\ e[1] = last
    OBVIOUS
  <1> HIDE DEF h, e
  <1>4. /\ r \in Seq(Kinds) /\ Len(r) = Len(h) + Len(e) /\ \A i \in 1 .. Len(h) : r[i] = h[i]
        /\ \A i \in 1 .. Len(e) : r[Len(h) + i] = e[i]
    <2>1. h \in Seq(Kinds) /\ e \in Seq(Kinds)
      BY <1>2, <1>3, Zenon
    <2>2. /\ h \o e \in Seq(Kinds) /\ Len(e) \in Nat /\ Len(h \o e) = Len(h) + Len(e)
          /\ \A i \in 1 .. Len(h) : (h \o e)[i] = h[i]
          /\ \A i \in 1 .. Len(e) : (h \o e)[Len(h) + i] = e[i]
      BY <2>1, Joined
    <2> QED BY <2>2, Zenon
  <1> HIDE DEF r
  <1>6. PICK m \in Nat : m = Len(rows)
    BY <1>2
  <1>7. /\ Len(r) = c + 3 + m /\ r[c + 3 + m] = last
        /\ \A i \in 1 .. c + 2 + m : r[i] = h[i]
    BY <1>2, <1>3, <1>4, <1>6
  <1>8. a = [i \in 1 .. c + 3 + m |-> [kind |-> r[i], n |-> i]]
    <2>1. r \in Seq(Kinds) /\ Len(r) = c + 3 + m
      BY <1>4, <1>7, Zenon
    <2>2. DOMAIN r = 1 .. c + 3 + m
      BY <2>1, LenProperties, Zenon
    <2> QED BY <2>2, Zenon DEF Number
  <1> HIDE DEF a
  <1>9. \A i \in 1 .. c + 3 + m : a[i].kind = r[i] /\ a[i].n = i
    BY <1>8
  <1>10. a \in Seq(Packets) /\ Len(a) = c + 3 + m
    BY <1>4, <1>7, <1>8 DEF Packets
  <1>11. a[1].kind = "COUNT" /\ a[c + 2].kind = "EOF" /\ a[c + 3 + m].kind = last
    <2>1. 1 \in 1 .. c + 2 + m /\ c + 2 \in 1 .. c + 2 + m
      OBVIOUS
    <2>2. 1 \in 1 .. c + 3 + m /\ c + 2 \in 1 .. c + 3 + m /\ c + 3 + m \in 1 .. c + 3 + m
      OBVIOUS
    <2> QED BY <1>2, <1>7, <1>9, <2>1, <2>2
  <1>12. ASSUME NEW i \in 2 .. c + 1
         PROVE  a[i].kind = "COLUMN"
    <2>1. i \in 1 .. c + 2 + m /\ i \in 1 .. c + 3 + m
      OBVIOUS
    <2> QED BY <1>2, <1>7, <1>9, <2>1
  <1>13. ASSUME NEW i \in 1 .. Len(rows)
         PROVE  a[c + 2 + i].kind = rows[i]
    <2>1. c + 2 + i \in 1 .. c + 2 + m /\ c + 2 + i \in 1 .. c + 3 + m
      BY <1>6
    <2> QED BY <1>2, <1>7, <1>9, <2>1
  <1> QED BY <1>2, <1>6, <1>9, <1>10, <1>11, <1>12, <1>13, Zenon DEF Formed

(* The answers a server gives have one of the two forms. *)
LEMMA AnswerForm ==
    ASSUME NEW a \in Answers
    PROVE  a \in Seq(Packets) /\ (Single(a) \/ \E c \in 1 .. MaxCols : Table(a, c))
  <1>1. PICK r \in Results : a = Number(r)
    BY Zenon DEF Answers
  <1>2. CASE r \in {<<"OK">>, <<"WIDE">>, <<"ERR">>}
    <2>1. DOMAIN r = {1} /\ r[1] \in {"OK", "WIDE", "ERR"}
      BY <1>2
    <2>2. a = [i \in {1} |-> [kind |-> r[i], n |-> i]]
      BY <1>1, <2>1, Zenon DEF Number
    <2>3. a = <<[kind |-> r[1], n |-> 1]>>
      BY <2>2
    <2> QED BY <2>1, <2>3 DEF Single, Packets, Kinds
  <1>3. CASE r \notin {<<"OK">>, <<"WIDE">>, <<"ERR">>}
    <2>1. PICK c \in 1 .. MaxCols, last \in {"EOF", "ERR"} :
            \E rows \in UNION {RowsOf(k) : k \in 0 .. MaxRows} : r = Resultset(c, rows, last)
      BY <1>1, <1>3, SMT DEF Results, Oks
    <2>2. PICK rows \in UNION {RowsOf(k) : k \in 0 .. MaxRows} : r = Resultset(c, rows, last)
      BY <2>1
    <2>3. PICK m \in 0 .. MaxRows : rows \in [1 .. m -> {"ROW", "EMPTY"}]
      BY Zenon DEF RowsOf
    <2>4. m \in Nat /\ c \in Nat /\ c >= 1 /\ last \in Kinds
      BY ResultSetAssumption DEF Kinds
    <2>5. rows \in Seq(Kinds) /\ Len(rows) = m /\ \A i \in 1 .. m : rows[i] \in {"ROW", "EMPTY"}
      BY <2>3, <2>4 DEF Kinds
    <2> DEFINE g == Number(Resultset(c, rows, last))
    <2>6. g \in Seq(Packets) /\ Formed(g, c, rows, last)
      BY <2>4, <2>5, ResultsetForm, Zenon
    <2>g. a = g
      BY <1>1, <2>2, Zenon
    <2> HIDE DEF g
    <2>7. /\ a \in Seq(Packets) /\ Len(a) = c + 3 + m
          /\ a[1].kind = "COUNT" /\ a[c + 2].kind = "EOF"
          /\ \A i \in 2 .. c + 1 : a[i].kind = "COLUMN"
          /\ \A i \in 1 .. m : a[c + 2 + i].kind = rows[i]
          /\ a[c + 3 + m].kind = last
      BY <2>5, <2>6, <2>g DEF Formed
    <2>8. \A i \in c + 3 .. Len(a) - 1 : a[i].kind \in {"ROW", "EMPTY"}
      <3> SUFFICES ASSUME NEW i \in c + 3 .. Len(a) - 1 PROVE a[i].kind \in {"ROW", "EMPTY"}
        BY Zenon
      <3>1. i - (c + 2) \in 1 .. m /\ i = c + 2 + (i - (c + 2))
        <4>1. Len(a) = c + 3 + m
          BY <2>7
        <4> QED BY <2>4, <4>1
      <3> QED BY <2>5, <2>7, <3>1, Zenon
    <2>9. Table(a, c)
      <3>1. Len(a) = c + 3 + m /\ a[Len(a)].kind = last
        BY <2>7, Zenon
      <3> QED BY <2>4, <2>7, <2>8, <3>1 DEF Table
    <2> QED BY <2>7, <2>9, Zenon
  <1> QED BY <1>2, <1>3, Zenon

LEMMA ProgressValues ==
    ASSUME NEW c \in Nat, c >= 1, NEW n \in Nat
    PROVE  /\ n = 0 => ProgressAt(c, n) = "WAITING"
           /\ n = 1 => ProgressAt(c, n) = "COLUMN_COUNT"
           /\ n >= 2 /\ n <= c + 1 => ProgressAt(c, n) = "COLUMN_DEFINITIONS"
           /\ n = c + 2 => ProgressAt(c, n) = "EOF1"
           /\ n > c + 2 => ProgressAt(c, n) = "ROWS"
  <1>1. CASE n = 0
    BY <1>1 DEF ProgressAt
  <1>2. CASE n = 1
    BY <1>2 DEF ProgressAt
  <1>3. CASE n >= 2 /\ n <= c + 1
    BY <1>3 DEF ProgressAt
  <1>4. CASE n = c + 2
    BY <1>4 DEF ProgressAt
  <1>5. CASE n > c + 2
    BY <1>5 DEF ProgressAt
  <1> QED BY <1>1, <1>2, <1>3, <1>4, <1>5

(* One more packet: RESULTSET_COMPLETED with the last one, and only then.     *)
LEMMA Followed ==
    ASSUME NEW a \in Seq(Packets), NEW n \in Nat, n < Len(a), NEW at0, Follows(at0, a, n),
           NEW r, r = mysql_response(a[n + 1]), NEW at, at = NextProgress(r, at0)
    PROVE  /\ at = "COMPLETED" <=> n + 1 = Len(a)
           /\ at # "COMPLETED" => Follows(at, a, n + 1)
           /\ at = "COMPLETED" /\ r # "ERR" => a[n + 1].kind \in {"OK", "WIDE", "EOF"}
  <1> DEFINE k == a[n + 1].kind
  <1>1. /\ k \in {"OK", "WIDE", "EMPTY"} => r = "OK"
        /\ k = "ERR" => r = "ERR"
        /\ k = "EOF" => r = "EOF"
        /\ k \in {"COUNT", "COLUMN", "ROW"} => r = "UNKNOWN"
    BY DEF mysql_response
  <1> USE DEF NextProgress, AfterOk, AfterErr, AfterEof, AfterUnknown
  <1>2. CASE Single(a) /\ at0 = "WAITING"
    BY <1>1, <1>2 DEF Single
  <1>3. ASSUME NEW c \in 1 .. MaxCols, Table(a, c), at0 = ProgressAt(c, n)
        PROVE  /\ at = "COMPLETED" <=> n + 1 = Len(a)
               /\ at # "COMPLETED" => at = ProgressAt(c, n + 1)
               /\ at = "COMPLETED" /\ r # "ERR" => a[n + 1].kind \in {"OK", "WIDE", "EOF"}
    <2>1. c \in Nat /\ c >= 1 /\ Len(a) \in Nat /\ Len(a) >= c + 3
      BY <1>3, ResultSetAssumption, LenProperties DEF Table
    <2>2. CASE n = 0
      <3>1. k = "COUNT"
        BY <1>3, <2>2 DEF Table
      <3>2. at0 = "WAITING" /\ ProgressAt(c, n + 1) = "COLUMN_COUNT"
        BY <1>3, <2>1, <2>2, ProgressValues
      <3>3. at = "COLUMN_COUNT"
        BY <1>1, <3>1, <3>2
      <3> HIDE DEF k, NextProgress
      <3>4. n + 1 # Len(a)
        <4>1. n + 1 < Len(a)
          BY <2>1, <2>2
        <4> QED BY <2>1, <4>1
      <3> QED BY <3>2, <3>3, <3>4, Zenon
    <2>3. CASE n >= 1 /\ n <= c
      <3>1. n + 1 \in 2 .. c + 1
        BY <2>1, <2>3
      <3>2. k = "COLUMN"
        BY <1>3, <3>1, Zenon DEF Table
      <3>3. at0 \in {"COLUMN_COUNT", "COLUMN_DEFINITIONS"}
        BY <1>3, <2>1, <2>3, ProgressValues
      <3>4. ProgressAt(c, n + 1) = "COLUMN_DEFINITIONS"
        BY <2>1, <2>3, ProgressValues
      <3> QED BY <1>1, <2>1, <2>3, <3>2, <3>3, <3>4
    <2>4. CASE n = c + 1
      <3>1. k = "EOF"
        BY <1>3, <2>1, <2>4 DEF Table
      <3>2. at0 = "COLUMN_DEFINITIONS" /\ ProgressAt(c, n + 1) = "EOF1"
        BY <1>3, <2>1, <2>4, ProgressValues
      <3> QED BY <1>1, <2>1, <2>4, <3>1, <3>2
    <2>5. CASE n >= c + 2 /\ n <= Len(a) - 2
      <3>1. n + 1 \in c + 3 .. Len(a) - 1
        BY <2>1, <2>5
      <3>2. k \in {"ROW", "EMPTY"}
        BY <1>3, <3>1, Zenon DEF Table
      <3>3. at0 \in {"EOF1", "ROWS"} /\ ProgressAt(c, n + 1) = "ROWS"
        BY <1>3, <2>1, <2>5, ProgressValues
      <3> QED BY <1>1, <2>1, <2>5, <3>2, <3>3
    <2>6. CASE n = Len(a) - 1
      <3>1. n + 1 = Len(a)
        BY <2>1, <2>6
      <3>2. k \in {"EOF", "ERR"}
        BY <1>3, <3>1, Zenon DEF Table
      <3>3. at0 \in {"EOF1", "ROWS"}
        BY <1>3, <2>1, <2>6, ProgressValues
      <3> QED BY <1>1, <3>1, <3>2, <3>3
    <2>7. n = 0 \/ (n >= 1 /\ n <= c) \/ n = c + 1 \/ (n >= c + 2 /\ n <= Len(a) - 2)
          \/ n = Len(a) - 1
      BY <2>1
    <2> QED BY <2>2, <2>3, <2>4, <2>5, <2>6, <2>7, Zenon
  <1> QED BY <1>2, <1>3, Zenon DEF Follows

(* The status flags of an OK packet are found when both counts take one byte. *)
LEMMA OneByte ==
    ASSUME NEW v \in 0 .. 127
    PROVE  writeencint(v) = <<v>> /\ lencint(lencint_unknown(v)) = 1
  <1>1. lencint(v) = 1 /\ lencint_unknown(v) = v
    BY DEF lencint, lencint_unknown
  <1>2. LittleEndian(v, 1) = <<v>>
    <2>1. 256 ^ 0 = 1 /\ (v \div 1) % 256 = v
      BY SMT
    <2>2. LittleEndian(v, 1) = [i \in 1 .. 1 |-> (v \div 256 ^ (i - 1)) % 256]
      BY Zenon DEF LittleEndian
    <2>3. \A i \in 1 .. 1 : (v \div 256 ^ (i - 1)) % 256 = v
      BY <2>1
    <2> QED BY <2>2, <2>3
  <1> QED BY <1>1, <1>2 DEF writeencint

LEMMA FlagsFound ==
    ASSUME NEW rows \in 0 .. 127, NEW id \in 0 .. 127, NEW st \in {0, 1},
           NEW f \in status_flags(myproto_ok_pkt(rows, id, st))
    PROVE  f = st
  <1> DEFINE p == myproto_ok_pkt(rows, id, st)
             low == LittleEndian(st, 2)
  <1>1. low \in Seq(Nat) /\ Len(low) = 2 /\ low[1] = st
    <2>1. low = [i \in 1 .. 2 |-> (st \div 256 ^ (i - 1)) % 256]
      BY Zenon DEF LittleEndian
    <2>2. 256 ^ 0 = 1 /\ 256 ^ 1 = 256
      BY SMT
    <2>3. (st \div 256 ^ (1 - 1)) % 256 = st
      BY <2>2
    <2>4. (st \div 256 ^ (2 - 1)) % 256 \in Nat
      BY <2>2
    <2>5. \A i \in 1 .. 2 : (st \div 256 ^ (i - 1)) % 256 \in Nat
      BY <2>3, <2>4
    <2> HIDE DEF low
    <2> QED BY <2>1, <2>3, <2>5
  <1>2. p = <<0>> \o <<rows>> \o <<id>> \o low \o <<0, 0>>
    BY OneByte, Zenon DEF myproto_ok_pkt
  <1> HIDE DEF low
  <1>3. Len(p) = 7 /\ p[2] = rows /\ p[3] = id /\ p[4] = st
    <2> HIDE DEF p
    <2> DEFINE q1 == Append(<<0>>, rows)
               q2 == Append(q1, id)
               q3 == q2 \o low
    <2>1. rows \in Nat /\ id \in Nat /\ <<0>> \in Seq(Nat) /\ Len(<<0>>) = 1
      BY SMT
    <2>2. q1 \in Seq(Nat) /\ Len(q1) = Len(<<0>>) + 1 /\ q1[Len(<<0>>) + 1] = rows
          /\ q1 = <<0>> \o <<rows>>
      <3>1. q1 = <<0>> \o <<rows>>
        BY <2>1, AppendIsConcat, Zenon
      <3> QED BY <2>1, <3>1, AppendProperties
    <2> HIDE DEF q1
    <2>3. /\ q2 \in Seq(Nat) /\ Len(q2) = Len(q1) + 1 /\ q2[Len(q1) + 1] = id
          /\ \A i \in 1 .. Len(q1) : q2[i] = q1[i]
          /\ q2 = q1 \o <<id>>
      <3>1. q2 = q1 \o <<id>>
        BY <2>1, <2>2, AppendIsConcat, Zenon
      <3> QED BY <2>1, <2>2, <3>1, AppendProperties
    <2>4. p = q3 \o <<0, 0>>
      BY <1>2, <2>2, <2>3, Zenon
    <2> HIDE DEF q2
    <2>5. Len(q2) = 3 /\ q2[2] = rows /\ q2[3] = id
      BY <2>1, <2>2, <2>3
    <2>6. /\ q3 \in Seq(Nat) /\ Len(q3) = 3 + 2
          /\ q3[2] = q2[2] /\ q3[3] = q2[3] /\ q3[4] = low[4 - 3]
      <3>1. /\ q3 \in Seq(Nat) /\ Len(q3) = Len(q2) + Len(low)
            /\ \A i \in 1 .. Len(q2) + Len(low) :
                   q3[i] = IF i <= Len(q2) THEN q2[i] ELSE low[i - Len(q2)]
        BY <1>1, <2>3, ConcatProperties, ZenonT(30)
      <3> HIDE DEF q3
      <3> QED BY <1>1, <2>5, <3>1
    <2> HIDE DEF q3
    <2>7. Len(p) = 5 + 2 /\ p[2] = q3[2] /\ p[3] = q3[3] /\ p[4] = q3[4]
      <3> DEFINE e == <<0, 0>>
      <3>1. e \in Seq(Nat) /\ Len(e) = 2
        BY SMT
      <3> HIDE DEF e
      <3>2. /\ Len(q3 \o e) = Len(q3) + Len(e)
            /\ \A i \in 1 .. Len(q3) + Len(e) :
                   (q3 \o e)[i] = IF i <= Len(q3) THEN q3[i] ELSE e[i - Len(q3)]
        BY <2>6, <3>1, ConcatProperties, Zenon
      <3>3. p = q3 \o e
        BY <2>4, Zenon DEF e
      <3>4. /\ Len(q3) + Len(e) = 5 + 2
            /\ \A i \in {2, 3, 4} : i \in 1 .. Len(q3) + Len(e) /\ i <= Len(q3)
        BY <2>6, <3>1
      <3> QED BY <3>2, <3>3, <3>4, Zenon
    <2> QED BY <1>1, <2>6, <2>7, <2>5
  <1> HIDE DEF p
  <1>4. ByteAt(p, 1) = {rows} /\ ByteAt(p, 2) = {id} /\ ByteAt(p, 3) = {st}
    BY <1>3 DEF ByteAt
  <1>5. PICK x \in ByteAt(p, 1) :
           \E y \in ByteAt(p, 1 + lencint(lencint_unknown(x))) :
              f \in ByteAt(p, 1 + lencint(lencint_unknown(x)) + lencint(lencint_unknown(y)))
    BY DEF status_flags, p
  <1>6. x = rows /\ lencint(lencint_unknown(x)) = 1
    BY <1>4, <1>5, OneByte
  <1>7. PICK y \in ByteAt(p, 2) : f \in ByteAt(p, 2 + lencint(lencint_unknown(y)))
    BY <1>5, <1>6
  <1>8. y = id /\ lencint(lencint_unknown(y)) = 1
    BY <1>4, <1>7, OneByte
  <1> QED BY <1>4, <1>7, <1>8

LEMMA FlagsOfOkRight ==
    ASSUME open \in BOOLEAN, NEW f \in FlagsOfOk("OK")
    PROVE  is_transaction_active(f) = open
  <1> DEFINE st == IF open THEN SERVER_STATUS_IN_TRANS ELSE 0
  <1>1. PICK c \in CountsOf("OK") : f \in status_flags(myproto_ok_pkt(c[1], c[2], st))
    BY DEF FlagsOfOk
  <1>2. c[1] \in 0 .. 127 /\ c[2] \in 0 .. 127
    BY ResultSetAssumption DEF CountsOf
  <1>3. st \in {0, 1} /\ (st = 1 <=> open)
    BY DEF SERVER_STATUS_IN_TRANS
  <1> HIDE DEF st
  <1>4. f = st
    BY <1>1, <1>2, <1>3, FlagsFound, Zenon
  <1> QED BY <1>3, <1>4 DEF is_transaction_active, SERVER_STATUS_IN_TRANS

-----------------------------------------------------------------------------
(* A packet of the answer to a query that is looked at.                       *)
LEMMA QueryPacket ==
    ASSUME IInv, process_server_pkts, command = "QUERY"
    PROVE  /\ IInv'
           /\ ~held' => server' = <<>> /\ ~trx' /\ Head(server).kind \in {"OK", "WIDE", "EOF"}
  <1> DEFINE p == Head(server)
             a == received \o server
             n == Len(received)
             r == mysql_response(p)
             at == NextProgress(r, progress)
             collected == Append(resultset, p)
  <1>1. /\ TypeOK /\ OneAnswer /\ Collected /\ ToCache /\ CachedWhole
        /\ size = n /\ (Fits(size) => out = <<>>) /\ (to_cache => Fits(size))
        /\ Follows(progress, a, n) /\ NothingLost /\ a \in Answers
        /\ held /\ server # <<>>
    BY Zenon DEF IInv, Reading, Collected, OneAnswer, process_server_pkts
  <1>2. /\ server \in Seq(Packets) /\ received \in Seq(Packets) /\ resultset \in Seq(Packets)
        /\ out \in Seq(Packets) /\ size \in Nat
    BY <1>1 DEF TypeOK
  <1>3. /\ server' = Tail(server) /\ received' = Append(received, p) /\ server_COM_QUERY(p)
        /\ command' = command /\ query' = query /\ open' = open /\ trx' \in Learn(p)
    BY Zenon DEF process_server_pkts
  <1>4. /\ p \in Packets /\ server' \in Seq(Packets) /\ received' \in Seq(Packets)
        /\ received' \o server' = a
        /\ n \in Nat /\ Len(received') = n + 1 /\ p = a[n + 1]
        /\ Len(a) \in Nat /\ Len(a) >= n + 1
        /\ server' = <<>> <=> Len(a) = n + 1
    <2>1. /\ Head(server) \in Packets /\ Tail(server) \in Seq(Packets)
          /\ Append(received, Head(server)) \in Seq(Packets)
          /\ Append(received, Head(server)) \o Tail(server) = received \o server
          /\ Len(received) \in Nat /\ Len(Append(received, Head(server))) = Len(received) + 1
          /\ Head(server) = (received \o server)[Len(received) + 1]
          /\ Len(received \o server) \in Nat /\ Len(received \o server) >= Len(received) + 1
          /\ Tail(server) = <<>> <=> Len(received \o server) = Len(received) + 1
      BY <1>1, <1>2, MovedOn, Zenon
    <2> QED BY <1>3, <2>1, Zenon
  <1>5. a \in Seq(Packets)
    BY <1>1, AnswerForm, Zenon
  <1> HIDE DEF a, n, p
  <1>6. /\ at = "COMPLETED" <=> server' = <<>>
        /\ at # "COMPLETED" => Follows(at, a, n + 1)
        /\ at = "COMPLETED" /\ r # "ERR" => p.kind \in {"OK", "WIDE", "EOF"}
    <2>1. n < Len(a)
      BY <1>4
    <2>2. r = mysql_response(a[n + 1])
      BY <1>4, Zenon
    <2>3. at = NextProgress(r, progress)
      BY Zenon
    <2> HIDE DEF r, at
    <2>4. /\ at = "COMPLETED" <=> n + 1 = Len(a)
          /\ at # "COMPLETED" => Follows(at, a, n + 1)
          /\ at = "COMPLETED" /\ r # "ERR" => a[n + 1].kind \in {"OK", "WIDE", "EOF"}
      BY <1>1, <1>4, <1>5, <2>1, <2>2, <2>3, Followed, SMTT(30)
    <2> QED BY <1>4, <2>4, Zenon
  <1>7. /\ progress' = IF at = "COMPLETED" THEN "WAITING" ELSE at
        /\ size' = size + 1
        /\ held' = (held /\ ~Releases(r, at = "COMPLETED"))
        /\ to_cache' = (to_cache /\ Fits(size'))
        /\ \/ /\ ~Fits(size') /\ resultset' = <<>> /\ out' = out \o collected /\ cache' = cache
           \/ /\ Fits(size') /\ at # "COMPLETED" /\ resultset' = collected
              /\ out' = out /\ cache' = cache
           \/ /\ Fits(size') /\ at = "COMPLETED" /\ resultset' = <<>> /\ out' = out \o collected
              /\ IF to_cache
                 THEN cache' \in {cache, [cache EXCEPT ![query] = collected]}
                 ELSE cache' = cache
    <2>1. server_COM_QUERY(p)
      BY <1>3
    <2> QED BY <2>1, Zenon DEF server_COM_QUERY, Flushed, Stored
  <1>8. /\ collected \in Seq(Packets) /\ out \o collected \in Seq(Packets)
        /\ out \o collected = received'
        /\ (out \o collected) \o <<>> = received'
        /\ <<>> \in Seq(Packets)
    <2>1. received' = Append(out \o resultset, p)
      BY <1>1, <1>3, Zenon DEF NothingLost
    <2>2. /\ collected \in Seq(Packets) /\ out \o collected \in Seq(Packets)
          /\ out \o collected = Append(out \o resultset, p) /\ <<>> \in Seq(Packets)
      <3>1. Collects(Packets, out, resultset, p)
        BY <1>2, <1>4, Collecting, Zenon
      <3> QED BY <3>1, EmptySeq, Zenon DEF Collects
    <2> HIDE DEF collected
    <2>3. (out \o collected) \o <<>> = out \o collected
      BY <2>2, ConcatEmptySeq
    <2> QED BY <2>1, <2>2, <2>3, Zenon
  <1> HIDE DEF r, at, collected
  <1>9. /\ size' = n + 1 /\ size' \in Nat
        /\ Fits(size') => out = <<>>
        /\ Fits(size') => out' = IF at = "COMPLETED" THEN received' ELSE <<>>
        /\ Fits(size') => collected = received'
    <2>1. size' = n + 1 /\ size' \in Nat
      BY <1>1, <1>4, <1>7
    <2>2. Fits(size') => Fits(size)
      BY <1>1, <1>4, <2>1, ResultSetAssumption DEF Fits
    <2>3. out = <<>> => collected = received'
      BY <1>8, ConcatEmptySeq, Zenon
    <2> QED BY <1>1, <1>7, <1>8, <2>1, <2>2, <2>3, Zenon
  <1>10. resultset' \in Seq(Packets) /\ out' \in Seq(Packets) /\ out' \o resultset' = received'
    BY <1>2, <1>7, <1>8, Zenon
  <1>11. TypeOK'
    <2>1. to_cache' \in BOOLEAN /\ held' \in BOOLEAN /\ trx' \in BOOLEAN
      <3>1. Learn(p) \subseteq BOOLEAN
        BY <1>1, Zenon DEF TypeOK, Learn, is_transaction_active
      <3> QED BY <1>1, <1>3, <1>7, <3>1 DEF TypeOK
    <2>2. DOMAIN cache' = Queries
      BY <1>1, <1>7 DEF TypeOK
    <2> QED BY <1>1, <1>3, <1>4, <1>9, <1>10, <2>1, <2>2, Zenon DEF TypeOK
  <1>12. OneAnswer'
    BY <1>1, <1>3, <1>4, Zenon DEF OneAnswer, a
  <1>13. Reading'
    <2> SUFFICES ASSUME server' # <<>>
                 PROVE  /\ size' = Len(received') /\ (Fits(size') => out' = <<>>)
                        /\ to_cache' => Fits(size')
                        /\ Follows(progress', received' \o server', Len(received'))
      BY Zenon DEF Reading, Fits
    <2>1. at # "COMPLETED" /\ progress' = at
      BY <1>6, <1>7, Zenon
    <2> QED BY <1>4, <1>6, <1>7, <1>9, <2>1, Zenon
  <1>17. ~held' => server' = <<>> /\ ~trx' /\ p.kind \in {"OK", "WIDE", "EOF"}
    BY <1>1, <1>6, <1>7, Zenon DEF Releases
  <1>14. Collected'
    BY <1>3, <1>6, <1>7, <1>10, <1>17, Zenon DEF Collected, NothingLost
  <1>15. ToCache'
    BY <1>1, <1>3, <1>7, Zenon DEF ToCache
  <1>16. CachedWhole'
    <2>1. CASE cache' = cache
      BY <1>1, <2>1, Zenon DEF CachedWhole, Fits
    <2>2. CASE cache' # cache
      <3>1. /\ Fits(size') /\ at = "COMPLETED" /\ to_cache
            /\ cache' = [cache EXCEPT ![query] = collected]
        BY <1>7, <2>2, Zenon
      <3>2. collected = received' /\ server' = <<>>
        BY <1>6, <1>9, <3>1, Zenon
      <3>3. received' = a
        BY <1>4, <3>2, ConcatEmptySeq, Zenon
      <3>4. collected \in Answers /\ Fits(Len(collected))
        BY <1>1, <1>4, <1>9, <3>1, <3>2, <3>3, Zenon DEF a
      <3>5. \A q \in Queries : cache'[q] = IF q = query THEN collected ELSE cache[q]
        BY <1>1, <3>1, Zenon DEF TypeOK, ToCache
      <3> QED BY <1>1, <3>4, <3>5, Zenon DEF CachedWhole, Fits
    <2> QED BY <2>1, <2>2, Zenon
  <1> QED BY <1>11, <1>12, <1>13, <1>14, <1>15, <1>16, <1>17, Zenon DEF IInv, p

(* A packet that is passed on unseen. *)
LEMMA OtherPacket ==
    ASSUME IInv, process_server_pkts, command # "QUERY"
    PROVE  IInv' /\ held' = held
  <1> DEFINE p == Head(server)
  <1>1. /\ TypeOK /\ OneAnswer /\ Collected /\ ToCache /\ CachedWhole
        /\ held /\ server # <<>> /\ resultset = <<>>
    BY Zenon DEF IInv, Collected, process_server_pkts
  <1>2. command = "END" /\ NothingLost /\ received \o server \in Answers
    BY <1>1, Zenon DEF OneAnswer, TypeOK, Collected
  <1>3. /\ server \in Seq(Packets) /\ received \in Seq(Packets) /\ out \in Seq(Packets)
    BY <1>1, <1>2 DEF TypeOK
  <1>4. /\ server' = Tail(server) /\ received' = Append(received, p)
        /\ out' = Append(out, p) /\ trx' \in Learn(p)
        /\ UNCHANGED <<progress, size, resultset, to_cache, held, cache, command, query, open>>
    BY Zenon DEF process_server_pkts
  <1>5. /\ p \in Packets /\ server' \in Seq(Packets) /\ received' \in Seq(Packets)
        /\ received' \o server' = received \o server
    <2>1. /\ Head(server) \in Packets /\ Tail(server) \in Seq(Packets)
          /\ Append(received, Head(server)) \in Seq(Packets)
          /\ Append(received, Head(server)) \o Tail(server) = received \o server
      BY <1>1, <1>3, MovedOn, Zenon
    <2> QED BY <1>4, <2>1, Zenon
  <1> HIDE DEF p
  <1>6. out = received
    BY <1>1, <1>2, <1>3, ConcatEmptySeq, Zenon DEF NothingLost
  <1>7. out' = received' /\ out' \o resultset' = received'
    <2>1. received' \o <<>> = received'
      BY <1>5, ConcatEmptySeq, Zenon
    <2> QED BY <1>1, <1>4, <1>6, <2>1, Zenon
  <1>8. TypeOK'
    <2>1. Learn(p) \subseteq BOOLEAN
      BY <1>1, Zenon DEF TypeOK, Learn, is_transaction_active
    <2>2. {to_cache', trx', held', open'} \subseteq BOOLEAN
      BY <1>1, <1>4, <2>1, Zenon DEF TypeOK
    <2> QED BY <1>1, <1>4, <1>5, <1>7, <2>2, Zenon DEF TypeOK
  <1>9. OneAnswer' /\ Collected' /\ Reading'
    BY <1>1, <1>2, <1>4, <1>5, <1>7, Zenon DEF OneAnswer, Collected, Reading, NothingLost
  <1>10. ToCache' /\ CachedWhole'
    BY <1>1, <1>4, Zenon DEF ToCache, CachedWhole, Fits
  <1> QED BY <1>4, <1>8, <1>9, <1>10, Zenon DEF IInv

(* A command that goes to a server. *)
LEMMA AskedInv ==
    ASSUME IInv, Answered, Asked, UNCHANGED <<resultset, cache>>,
           to_cache' \in BOOLEAN,
           \/ /\ command' = "QUERY" /\ progress' = "WAITING" /\ size' = 0 /\ query' \in Queries
           \/ /\ command' = "END" /\ ~to_cache' /\ size' = size
    PROVE  IInv'
  <1>1. /\ TypeOK /\ CachedWhole /\ resultset = <<>>
    BY Zenon DEF IInv, Collected, Answered
  <1>2. /\ server' \in Answers /\ received' = <<>> /\ out' = <<>> /\ held' = TRUE /\ trx' = trx
        /\ open' \in BOOLEAN
    BY <1>1, Zenon DEF Asked, TypeOK
  <1>3. server' \in Seq(Packets) /\ server' # <<>> /\ <<>> \in Seq(Packets)
        /\ <<>> \o server' = server' /\ Len(<<>>) = 0 /\ <<>> \o <<>> = <<>>
    <2>1. server' \in Seq(Packets)
      BY <1>2, AnswerForm, Zenon
    <2>2. Len(server') # 0
      BY <1>2, <2>1, AnswerForm DEF Single, Table
    <2>3. <<>> \in Seq(Packets) /\ Len(<<>>) = 0
      BY EmptySeq
    <2> QED BY <2>1, <2>2, <2>3, ConcatEmptySeq, Zenon
  <1>4. Follows("WAITING", server', 0)
    <2>1. \A c \in 1 .. MaxCols : ProgressAt(c, 0) = "WAITING"
      BY ProgressValues, ResultSetAssumption
    <2> QED BY <1>2, <2>1, AnswerForm, Zenon DEF Follows
  <1>5. Fits(0) /\ size' \in Nat
    BY <1>1, ResultSetAssumption DEF Fits, TypeOK
  <1>6. TypeOK'
    <2>1. {to_cache', trx', held', open'} \subseteq BOOLEAN
      BY <1>1, <1>2, Zenon DEF TypeOK
    <2> QED BY <1>1, <1>2, <1>3, <1>5, <2>1, Zenon DEF TypeOK
  <1>7. OneAnswer' /\ Collected'
    BY <1>1, <1>2, <1>3, Zenon DEF OneAnswer, Collected, NothingLost
  <1>8. Reading'
    BY <1>2, <1>3, <1>4, <1>5, Zenon DEF Reading, Fits
  <1>9. ToCache' /\ CachedWhole'
    BY <1>1, Zenon DEF ToCache, CachedWhole, Fits
  <1> QED BY <1>6, <1>7, <1>8, <1>9, Zenon DEF IInv

-----------------------------------------------------------------------------
(* The admin interface's answers.                                             *)

(* The least-number principle, which induction over a loop comes down to.     *)
LEMMA Least ==
    ASSUME NEW T \in SUBSET Nat, T # {}
    PROVE  \E m \in T : \A k \in T : m <= k
  <1> DEFINE R == OpToRel(<, Nat)
  <1>1. IsWellFoundedOn(R, Nat)
    BY NatLessThanWellFounded, Zenon
  <1>2. \A k, m \in T : <<k, m>> \notin R => m <= k
    BY DEF OpToRel
  <1> HIDE DEF R
  <1>3. \E m \in T : \A k \in T : <<k, m>> \notin R
    BY <1>1, WFMin, Zenon
  <1> QED BY <1>2, <1>3, Zenon

(* The packet at the end takes the place of the one that is removed. *)
LEMMA Placed ==
    ASSUME NEW S, NEW s \in Seq(S), NEW e \in S, NEW i \in Nat, i + 1 <= Len(s)
    PROVE  RemoveIndexFast(Append(s, e), i) = [s EXCEPT ![i + 1] = e]
  <1> DEFINE t == Append(s, e)
             u == [t EXCEPT ![i + 1] = e]
  <1>1. /\ t \in Seq(S) /\ Len(t) = Len(s) + 1 /\ Len(s) \in Nat /\ t[Len(t)] = e
        /\ \A j \in 1 .. Len(s) : t[j] = s[j]
    BY AppendProperties, LenProperties
  <1>2. RemoveIndexFast(t, i) = SubSeq(u, 1, Len(u) - 1)
    <2>1. Len(u) = Len(t) /\ t[Len(t)] = e
      BY <1>1
    <2> QED BY <2>1, Zenon DEF RemoveIndexFast
  <1> HIDE DEF t
  <1>3. i + 1 \in 1 .. Len(t)
    BY <1>1
  <1>4. /\ u \in Seq(S) /\ Len(u) = Len(t)
        /\ \A j \in 1 .. Len(t) : u[j] = IF j = i + 1 THEN e ELSE t[j]
    BY <1>1, <1>3, ExceptSeq
  <1> HIDE DEF u
  <1> DEFINE v == SubSeq(u, 1, Len(s))
             w == [s EXCEPT ![i + 1] = e]
  <1>5. v \in Seq(S) /\ Len(v) = Len(s) /\ \A j \in 1 .. Len(s) : v[j] = u[j]
    BY <1>1, <1>4
  <1>6. /\ w \in Seq(S) /\ Len(w) = Len(s)
        /\ \A j \in 1 .. Len(s) : w[j] = IF j = i + 1 THEN e ELSE s[j]
    <2>1. i + 1 \in 1 .. Len(s)
      BY <1>1
    <2> QED BY <2>1, ExceptSeq
  <1> HIDE DEF v, w
  <1>7. \A j \in 1 .. Len(s) : v[j] = w[j]
    BY <1>1, <1>4, <1>5, <1>6
  <1>8. v = w
    BY <1>5, <1>6, <1>7, SeqEqual
  <1> QED BY <1>1, <1>2, <1>4, <1>8 DEF v, w, t

(* When the loop over the columns is done every definition is in its place.   *)
LEMMA DefinedAll ==
    ASSUME NEW S, NEW pkts \in Seq(S), NEW cols \in Nat, cols + 1 <= Len(pkts),
           \A i \in Nat : [kind |-> "COLUMN", n |-> i] \in S
    PROVE  Defined(pkts, cols) =
             [i \in 1 .. Len(pkts) |-> IF i \in 2 .. cols + 1 THEN [kind |-> "COLUMN", n |-> i]
                                                              ELSE pkts[i]]
  <1> DEFINE C(i) == [kind |-> "COLUMN", n |-> i]
             Filled(g) == [col \in 0 .. cols |->
                              IF col = 0 THEN pkts
                              ELSE RemoveIndexFast(Append(g[col - 1], C(col + 1)), col)]
             After(col) == [i \in 1 .. Len(pkts) |-> IF i \in 2 .. col + 1 THEN C(i) ELSE pkts[i]]
             G == [col \in 0 .. cols |-> After(col)]
             f == CHOOSE g : g = Filled(g)
  <1>1. Defined(pkts, cols) = f[cols]
    BY Zenon DEF Defined
  <1> HIDE DEF C
  <1>2. Len(pkts) \in Nat /\ After(0) = pkts
    BY LenProperties
  <1>3. \A col \in 1 .. cols : After(col) = RemoveIndexFast(Append(After(col - 1), C(col + 1)), col)
    <2> SUFFICES ASSUME NEW col \in 1 .. cols
                 PROVE  After(col) = RemoveIndexFast(Append(After(col - 1), C(col + 1)), col)
      BY Zenon
    <2> DEFINE s == After(col - 1)
    <2>1. s \in Seq(S) /\ Len(s) = Len(pkts)
      BY <1>2 DEF C
    <2>2. After(col) = [s EXCEPT ![col + 1] = C(col + 1)]
      <3>1. \A i \in 1 .. Len(pkts) :
               /\ i = col + 1 => i \in 2 .. col + 1
               /\ i # col + 1 => (i \in 2 .. col + 1 <=> i \in 2 .. (col - 1) + 1)
        BY <1>2
      <3>2. \A i \in 1 .. Len(pkts) : After(col)[i] = IF i = col + 1 THEN C(col + 1) ELSE s[i]
        BY <3>1, Zenon
      <3> DEFINE A == After(col)
      <3>3. DOMAIN A = 1 .. Len(pkts) /\ DOMAIN s = 1 .. Len(pkts) /\ A = [i \in 1 .. Len(pkts) |-> A[i]]
        BY Zenon
      <3> HIDE DEF s, A
      <3>4. [s EXCEPT ![col + 1] = C(col + 1)] =
               [i \in 1 .. Len(pkts) |-> IF i = col + 1 THEN C(col + 1) ELSE s[i]]
        BY <3>3, Zenon
      <3> QED BY <3>2, <3>3, <3>4, Zenon DEF A
    <2>3. C(col + 1) \in S /\ col \in Nat /\ col + 1 <= Len(s)
      BY <1>2, <2>1 DEF C
    <2> HIDE DEF s
    <2>4. RemoveIndexFast(Append(s, C(col + 1)), col) = [s EXCEPT ![col + 1] = C(col + 1)]
      BY <2>1, <2>3, Placed
    <2> QED BY <2>2, <2>4, Zenon DEF s
  <1> HIDE DEF After
  <1>4. G = Filled(G)
    <2>1. \A col \in 0 .. cols : G[col] = Filled(G)[col]
      <3> SUFFICES ASSUME NEW col \in 0 .. cols PROVE G[col] = Filled(G)[col]
        BY Zenon
      <3>1. CASE col = 0
        BY <1>2, <3>1
      <3>2. CASE col # 0
        <4>1. col \in 1 .. cols /\ col - 1 \in 0 .. cols
          BY <3>2
        <4>2. G[col - 1] = After(col - 1) /\ G[col] = After(col)
          BY <4>1, Zenon
        <4>3. Filled(G)[col] = RemoveIndexFast(Append(G[col - 1], C(col + 1)), col)
          BY <3>2, Zenon
        <4> QED BY <1>3, <4>1, <4>2, <4>3, Zenon
      <3> QED BY <3>1, <3>2, Zenon
    <2> QED BY <2>1, Zenon
  <1>5. f = Filled(f)
    BY <1>4, Zenon
  <1> HIDE DEF f
  <1>6. \A k \in 0 .. cols : f[k] = After(k)
    <2> DEFINE T == {k \in 0 .. cols : f[k] # After(k)}
    <2> SUFFICES ASSUME T # {} PROVE FALSE
      BY Zenon
    <2>1. T \in SUBSET Nat
      BY SMT
    <2> HIDE DEF T
    <2>2. PICK m \in T : \A k \in T : m <= k
      BY <2>1, Least, Zenon
    <2>3. m \in 0 .. cols /\ f[m] # After(m)
      BY <2>2 DEF T
    <2>4. f[0] = pkts
      <3>1. 0 \in 0 .. cols
        BY SMT
      <3> QED BY <1>5, <3>1, Zenon
    <2>5. m # 0
      BY <1>2, <2>3, <2>4, Zenon
    <2>6. m \in 1 .. cols /\ m - 1 \in 0 .. cols /\ ~(m <= m - 1)
      BY <2>3, <2>5
    <2>7. f[m - 1] = After(m - 1)
      BY <2>2, <2>6, Zenon DEF T
    <2>8. f[m] = RemoveIndexFast(Append(f[m - 1], C(m + 1)), m)
      BY <1>5, <2>3, <2>5, Zenon
    <2> QED BY <1>3, <2>3, <2>6, <2>7, <2>8, Zenon
  <1>7. f[cols] = After(cols)
    BY <1>6
  <1> QED BY <1>1, <1>7, Zenon DEF After, C


-----------------------------------------------------------------------------
(* The admin interface. *)

(* Every row an answer of the admin interface may have fits its memory. *)
RowsFit ==
    \A cols \in 1 .. MaxCols : \A row \in [1 .. cols -> Lengths \cup {Null}] : AdminRow(row) = "ROW"

(* The packets the admin interface puts together, whose column definitions    *)
(* come last, are those of a result set in their order.                       *)
LEMMA AdminAnswer ==
    ASSUME RowsFit, NEW cols \in 1 .. MaxCols, NEW n \in 0 .. MaxRows,
           NEW row \in [1 .. cols -> Lengths \cup {Null}]
    PROVE  mysql_pkt_to_sqlite_exec(cols, Repeat(row, n)) = Number(Resultset(cols, Repeat("ROW", n), "EOF"))
  <1> DEFINE S == [kind : Kinds \cup {"NULL"}, n : Nat]
             rows == Repeat(row, n)
             first == [kind |-> "COUNT", n |-> 1]
             eof == [kind |-> "EOF", n |-> 2 + cols]
             numbered == [i \in DOMAIN rows |-> [kind |-> AdminRow(rows[i]), n |-> cols + 2 + i]]
             h == <<first>> \o Repeat(Placeholder, cols) \o <<eof>> \o numbered
             last == [kind |-> "EOF", n |-> 3 + cols + Len(rows)]
             C(i) == [kind |-> "COLUMN", n |-> i]
             d == [i \in 1 .. Len(h) |-> IF i \in 2 .. cols + 1 THEN C(i) ELSE h[i]]
             kinds == Repeat("ROW", n)
             a == Number(Resultset(cols, kinds, "EOF"))
  <1>1. cols \in Nat /\ cols >= 1 /\ n \in Nat
    BY ResultSetAssumption
  <1>2. rows = [i \in 1 .. n |-> row] /\ DOMAIN rows = 1 .. n /\ Len(rows) = n
    BY <1>1 DEF Repeat
  <1>3. \A i \in 1 .. n : AdminRow(rows[i]) = "ROW"
    BY <1>2 DEF RowsFit
  <1>4. mysql_pkt_to_sqlite_exec(cols, rows) = Append(Defined(h, cols), last)
    BY Zenon DEF mysql_pkt_to_sqlite_exec
  <1> HIDE DEF rows
  <1>5. numbered = [i \in 1 .. n |-> [kind |-> "ROW", n |-> cols + 2 + i]]
    BY <1>2, <1>3
  <1> HIDE DEF numbered
  <1>6. /\ numbered \in Seq(S) /\ Len(numbered) = n
        /\ \A i \in 1 .. n : numbered[i] = [kind |-> "ROW", n |-> cols + 2 + i]
    <2>1. \A i \in 1 .. n : [kind |-> "ROW", n |-> cols + 2 + i] \in S
      BY <1>1 DEF Kinds
    <2> DEFINE e(i) == [kind |-> "ROW", n |-> cols + 2 + i]
    <2>2. numbered = [i \in 1 .. n |-> e(i)] /\ \A i \in 1 .. n : e(i) \in S
      BY <1>5, <2>1, Zenon
    <2> HIDE DEF S, e
    <2>3. /\ numbered \in Seq(S) /\ Len(numbered) = n
          /\ \A i \in 1 .. n : numbered[i] = e(i)
      BY <1>1, <2>2
    <2> QED BY <2>3, Zenon DEF e
  <1>7. first \in S /\ eof \in S /\ Placeholder \in S /\ \A i \in Nat : C(i) \in S
    BY <1>1 DEF Placeholder, Kinds
  <1>L. last \in S /\ last.kind = "EOF" /\ last.n = cols + 3 + n
    BY <1>1, <1>2 DEF Kinds
  <1> HIDE DEF S, first, eof, last
  <1>8. h \in Seq(S) /\ Heads(h, first, Placeholder, eof, cols, numbered)
    BY <1>1, <1>6, <1>7, Headed, Zenon
  <1> HIDE DEF h
  <1>9. /\ Len(h) = cols + 2 + n /\ h[1] = first /\ h[cols + 2] = eof
        /\ \A i \in 1 .. n : h[cols + 2 + i] = numbered[i]
    BY <1>6, <1>8 DEF Heads
  <1>10. Defined(h, cols) = d
    <2>1. cols + 1 <= Len(h)
      BY <1>1, <1>9
    <2>2. \A i \in Nat : [kind |-> "COLUMN", n |-> i] \in S
      BY <1>7, Zenon
    <2> QED BY <1>1, <1>8, <2>1, <2>2, DefinedAll
  <1>11. kinds \in Seq(Kinds) /\ Len(kinds) = n /\ \A i \in 1 .. n : kinds[i] = "ROW"
    BY <1>1 DEF Repeat, Kinds
  <1> HIDE DEF kinds
  <1>12. a \in Seq(Packets) /\ Formed(a, cols, kinds, "EOF")
    <2>1. "EOF" \in Kinds
      BY DEF Kinds
    <2> QED BY <1>1, <1>11, <2>1, ResultsetForm, Zenon
  <1> HIDE DEF a
  <1>13. /\ Len(a) = cols + 3 + n
         /\ a[1].kind = "COUNT" /\ a[cols + 2].kind = "EOF"
         /\ \A i \in 2 .. cols + 1 : a[i].kind = "COLUMN"
         /\ \A i \in 1 .. n : a[cols + 2 + i].kind = "ROW"
         /\ a[cols + 3 + n].kind = "EOF"
         /\ \A i \in 1 .. cols + 3 + n : a[i].n = i
    BY <1>11, <1>12, Zenon DEF Formed
  <1>14. ASSUME NEW i \in 1 .. cols + 3 + n, NEW p \in S, p.kind = a[i].kind, p.n = i
         PROVE  a[i] = p
    <2>1. i \in 1 .. Len(a) /\ a[i].n = i
      BY <1>13
    <2>2. a[i] \in Packets
      BY <1>12, <2>1
    <2> QED BY <1>14, <2>1, <2>2 DEF Packets, S
  <1>15. /\ d \in Seq(S) /\ Len(d) = cols + 2 + n
         /\ \A i \in 1 .. cols + 2 + n : d[i] = IF i \in 2 .. cols + 1 THEN C(i) ELSE h[i]
    <2>1. \A i \in 1 .. cols + 2 + n : h[i] \in S
      BY <1>8, <1>9
    <2>2. \A i \in 1 .. cols + 2 + n : C(i) \in S
      <3>1. \A i \in 1 .. cols + 2 + n : i \in Nat
        BY <1>1
      <3> QED BY <1>7, <3>1, Zenon
    <2>3. d = [i \in 1 .. cols + 2 + n |-> IF i \in 2 .. cols + 1 THEN C(i) ELSE h[i]]
      BY <1>9, Zenon
    <2> DEFINE e(i) == IF i \in 2 .. cols + 1 THEN C(i) ELSE h[i]
    <2>4. d = [i \in 1 .. cols + 2 + n |-> e(i)] /\ \A i \in 1 .. cols + 2 + n : e(i) \in S
      BY <2>1, <2>2, <2>3, Zenon
    <2> HIDE DEF d, C, e
    <2>5. cols + 2 + n \in Nat
      BY <1>1
    <2>6. /\ d \in Seq(S) /\ Len(d) = cols + 2 + n
          /\ \A i \in 1 .. cols + 2 + n : d[i] = e(i)
      BY <2>4, <2>5
    <2> QED BY <2>6, Zenon DEF e
  <1> HIDE DEF d
  <1> DEFINE b == Append(d, last)
  <1>16. /\ b \in Seq(S) /\ Len(b) = cols + 3 + n /\ b[cols + 3 + n] = last
         /\ \A i \in 1 .. cols + 2 + n : b[i] = d[i]
    <2>1. /\ b \in Seq(S) /\ Len(b) = Len(d) + 1 /\ b[Len(d) + 1] = last
          /\ \A i \in 1 .. Len(d) : b[i] = d[i]
      BY <1>15, <1>L, AppendProperties
    <2> HIDE DEF b
    <2> QED BY <1>1, <1>15, <2>1
  <1> HIDE DEF b
  <1>17. ASSUME NEW i \in 1 .. cols + 3 + n
         PROVE  b[i].kind = a[i].kind /\ b[i].n = i
    <2>1. CASE i = cols + 3 + n
      BY <1>13, <1>16, <1>L, <2>1
    <2>2. CASE i \in 2 .. cols + 1
      <3>1. b[i] = C(i)
        BY <1>1, <1>15, <1>16, <2>2
      <3>2. a[i].kind = "COLUMN"
        BY <1>13, <2>2
      <3> QED BY <3>1, <3>2
    <2>3. CASE i = 1 \/ i = cols + 2
      <3>1. b[i] = h[i]
        BY <1>1, <1>15, <1>16, <2>3
      <3> QED BY <1>1, <1>9, <1>13, <2>3, <3>1 DEF first, eof
    <2>4. CASE i \in cols + 3 .. cols + 2 + n
      <3>1. b[i] = h[i]
        BY <1>1, <1>15, <1>16, <2>4
      <3>2. i - (cols + 2) \in 1 .. n /\ i = cols + 2 + (i - (cols + 2))
        BY <1>1, <2>4
      <3>3. h[i] = numbered[i - (cols + 2)] /\ a[i].kind = "ROW"
        BY <1>9, <1>13, <3>2, Zenon
      <3>4. numbered[i - (cols + 2)] = [kind |-> "ROW", n |-> i]
        BY <1>6, <3>2
      <3> QED BY <3>1, <3>3, <3>4
    <2>5. i = cols + 3 + n \/ i \in 2 .. cols + 1 \/ i = 1 \/ i = cols + 2 \/ i \in cols + 3 .. cols + 2 + n
      BY <1>1
    <2> QED BY <2>1, <2>2, <2>3, <2>4, <2>5, Zenon
  <1>18. ASSUME NEW i \in 1 .. cols + 3 + n
         PROVE  a[i] = b[i]
    <2>1. b[i] \in S
      BY <1>16
    <2> QED BY <1>14, <1>17, <2>1, Zenon
  <1>19. a = b
    BY <1>12, <1>13, <1>16, <1>18
  <1> QED BY <1>4, <1>10, <1>19, Zenon DEF a, b, kinds, rows


-----------------------------------------------------------------------------
(* The other steps, and the theorems. *)

LEMMA InitInv ==
    Init => IInv
  <1> SUFFICES ASSUME Init PROVE IInv
    BY Zenon
  <1>1. <<>> \in Seq(Packets) /\ <<>> \o <<>> = <<>>
    BY EmptySeq, ConcatEmptySeq, Zenon
  <1>2. TypeOK
    BY <1>1, Zenon DEF Init, TypeOK
  <1>3. OneAnswer /\ Reading /\ Collected /\ ToCache
    BY <1>1, Zenon DEF Init, OneAnswer, Reading, Collected, NothingLost, ToCache
  <1>4. CachedWhole
    BY Zenon DEF Init, CachedWhole
  <1> QED BY <1>2, <1>3, <1>4, Zenon DEF IInv

LEMMA QueryCacheHitInv ==
    ASSUME IInv, NEW q \in Queries, QueryCacheHit(q)
    PROVE  IInv'
  <1>1. /\ TypeOK /\ CachedWhole /\ (held => server = <<>>) /\ resultset = <<>>
    BY Zenon DEF IInv, Collected, QueryCacheHit, Answered
  <1>2. /\ cache[q] \in Answers /\ cache[q] \in Seq(Packets)
        /\ cache[q] \o <<>> = cache[q]
    <2>1. cache[q] \in Answers
      BY <1>1, Zenon DEF CachedWhole, QueryCacheHit
    <2>2. cache[q] \in Seq(Packets)
      BY <2>1, AnswerForm, Zenon
    <2> QED BY <2>1, <2>2, ConcatEmptySeq, Zenon
  <1>3. /\ command' = "QUERY" /\ to_cache' = FALSE /\ size' = 0
        /\ out' = cache[q] /\ received' = cache[q]
        /\ resultset' = <<>>
        /\ UNCHANGED <<trx, held, cache, server, open>>
    BY <1>1, Zenon DEF QueryCacheHit
  <1>4. TypeOK'
    BY <1>1, <1>2, <1>3, Zenon DEF TypeOK
  <1>5. OneAnswer'
    BY <1>1, <1>2, <1>3, Zenon DEF OneAnswer
  <1>6. Reading' /\ ToCache'
    BY <1>1, <1>3, Zenon DEF Reading, ToCache
  <1>7. Collected'
    BY <1>2, <1>3 DEF Collected, NothingLost
  <1>8. CachedWhole'
    BY <1>1, <1>3, Zenon DEF CachedWhole
  <1> QED BY <1>4, <1>5, <1>6, <1>7, <1>8, Zenon DEF IInv

LEMMA ExpireInv ==
    ASSUME IInv, Expire
    PROVE  IInv'
  <1>1. PICK x \in Queries : cache' = [cache EXCEPT ![x] = NoEntry]
    BY Zenon DEF Expire
  <1>2. /\ TypeOK /\ OneAnswer /\ Reading /\ Collected /\ ToCache /\ CachedWhole
        /\ UNCHANGED <<command, query, progress, size, resultset, to_cache, out, trx, held,
                       server, received, open>>
    BY Zenon DEF IInv, Expire
  <1>3. DOMAIN cache = Queries
    BY <1>2, Zenon DEF TypeOK
  <1>4. /\ DOMAIN cache' = Queries
        /\ \A q \in Queries : cache'[q] # NoEntry => cache'[q] = cache[q] /\ cache[q] # NoEntry
    BY <1>1, <1>3
  <1>5. TypeOK'
    BY <1>2, <1>4 DEF TypeOK
  <1>6. OneAnswer' /\ Reading' /\ Collected' /\ ToCache'
    BY <1>2, Zenon DEF OneAnswer, Reading, Collected, NothingLost, ToCache, Follows
  <1>7. CachedWhole'
    BY <1>2, <1>4 DEF CachedWhole
  <1> QED BY <1>5, <1>6, <1>7, Zenon DEF IInv

LEMMA AdminQueryInv ==
    ASSUME IInv, AdminQuery
    PROVE  IInv'
  <1>1. PICK cols \in 1 .. MaxCols, n \in 0 .. MaxRows :
           received' = Number(Resultset(cols, Repeat("ROW", n), "EOF"))
    BY Zenon DEF AdminQuery
  <1>2. /\ TypeOK /\ CachedWhole /\ ~held /\ resultset = <<>>
    BY Zenon DEF IInv, OneAnswer, Collected, AdminQuery
  <1>3. received' \in Seq(Packets)
    <2>1. cols \in Nat /\ n \in Nat /\ "EOF" \in Kinds /\ "ROW" \in Kinds
      BY ResultSetAssumption DEF Kinds
    <2>2. Repeat("ROW", n) \in Seq(Kinds)
      BY <2>1 DEF Repeat
    <2> QED BY <1>1, <2>1, <2>2, ResultsetForm, Zenon
  <1>4. /\ command' = "ADMIN" /\ to_cache' = FALSE /\ resultset' = <<>> /\ server' = <<>>
        /\ open' = FALSE /\ UNCHANGED <<size, trx, held, cache>>
    BY <1>2, Zenon DEF AdminQuery
  <1>5. TypeOK'
    BY <1>2, <1>3, <1>4, EmptySeq, Zenon DEF TypeOK
  <1>6. OneAnswer' /\ Reading' /\ ToCache' /\ Collected'
    BY <1>2, <1>4, Zenon DEF OneAnswer, Reading, Collected, ToCache
  <1>7. CachedWhole'
    BY <1>2, <1>4, Zenon DEF CachedWhole
  <1> QED BY <1>5, <1>6, <1>7, Zenon DEF IInv

LEMMA SessionEndsInv ==
    ASSUME IInv, SessionEnds
    PROVE  IInv'
  <1>1. <<>> \in Seq(Packets) /\ <<>> \o <<>> = <<>>
    BY EmptySeq, ConcatEmptySeq, Zenon
  <1>2. /\ command' = "none" /\ size' = 0 /\ resultset' = <<>> /\ to_cache' = FALSE
        /\ out' = <<>> /\ trx' = FALSE /\ held' = FALSE
        /\ server' = server /\ received' = <<>> /\ open' = open /\ cache' = cache
    BY Zenon DEF SessionEnds
  <1>3. TypeOK /\ CachedWhole
    BY Zenon DEF IInv
  <1>4. TypeOK'
    BY <1>1, <1>2, <1>3, Zenon DEF TypeOK
  <1>5. OneAnswer' /\ Reading' /\ ToCache'
    BY <1>2, Zenon DEF OneAnswer, Reading, ToCache
  <1>6. Collected'
    BY <1>1, <1>2 DEF Collected, NothingLost
  <1>7. CachedWhole'
    BY <1>2, <1>3, Zenon DEF CachedWhole
  <1> QED BY <1>4, <1>5, <1>6, <1>7, Zenon DEF IInv


(* One step per action. *)
LEMMA StepInv ==
    ASSUME IInv, [Next]_vars
    PROVE  IInv'
  <1>1. ASSUME NEW q \in Queries, client_COM_QUERY(q)
        PROVE  IInv'
    <2>1. /\ Answered /\ Asked /\ UNCHANGED <<resultset, cache>> /\ to_cache' \in BOOLEAN
          /\ command' = "QUERY" /\ progress' = "WAITING" /\ size' = 0 /\ query' \in Queries
      BY <1>1, Zenon DEF client_COM_QUERY
    <2> QED BY <2>1, AskedInv, Zenon
  <1>2. ASSUME NEW q \in Queries, QueryCacheHit(q)
        PROVE  IInv'
    BY <1>2, QueryCacheHitInv, Zenon
  <1>3. CASE PassThrough
    <2>1. /\ Answered /\ Asked /\ UNCHANGED <<resultset, cache>> /\ to_cache' = FALSE
          /\ command' = "END" /\ size' = size
      BY <1>3, Zenon DEF PassThrough
    <2>2. to_cache' \in BOOLEAN /\ ~to_cache'
      BY <2>1, Zenon
    <2> QED BY <2>1, <2>2, AskedInv, Zenon
  <1>4. CASE process_server_pkts
    BY <1>4, QueryPacket, OtherPacket, Zenon
  <1>5. CASE Expire
    BY <1>5, ExpireInv, Zenon
  <1>6. CASE AdminQuery
    BY <1>6, AdminQueryInv, Zenon
  <1>7. CASE SessionEnds
    BY <1>7, SessionEndsInv, Zenon
  <1>8. CASE UNCHANGED vars
    <2>1. UNCHANGED <<command, query, progress, size, resultset, to_cache, out, trx, held,
                      cache, server, received, open>>
      BY <1>8, Zenon DEF vars
    <2>2. TypeOK' /\ OneAnswer' /\ Reading' /\ Collected' /\ ToCache' /\ CachedWhole'
      BY <2>1, Zenon DEF IInv, TypeOK, OneAnswer, Reading, Collected, NothingLost, ToCache,
                         CachedWhole, Follows
    <2> QED BY <2>2, Zenon DEF IInv
  <1> QED BY <1>1, <1>2, <1>3, <1>4, <1>5, <1>6, <1>7, <1>8, Zenon DEF Next

(* resultset_progress follows the answer packet by packet, what was collected *)
(* and passed on is what was received, and the query cache holds whole        *)
(* answers: the invariant the theorems below rest on.                         *)
THEOREM ProgressFollows == Spec => []IInv
  <1>1. Init => IInv
    BY InitInv, Zenon
  <1>2. IInv /\ [Next]_vars => IInv'
    BY StepInv, Zenon
  <1> QED BY <1>1, <1>2, PTL DEF Spec

(* server_COM_QUERY stores in the query cache whole answers only, within      *)
(* mysql_max_resultset_size, whether they ended well or with an error: for    *)
(* results of any number of columns and rows.                                 *)
THEOREM CacheGetsWhole == Spec => []CachedWhole
  <1>1. IInv => CachedWhole
    BY Zenon DEF IInv
  <1> QED BY <1>1, ProgressFollows, PTL

(* What a step that takes the connection from a session that goes on says of  *)
(* the connection.                                                            *)
CleanStep ==
    held /\ ~held' /\ command' # "none" =>
        server' = <<>> /\ (open' => Head(server).kind = "WIDE")

LEMMA ReleasedBy ==
    ASSUME IInv, [Next]_vars
    PROVE  CleanStep
  <1> SUFFICES ASSUME held, ~held', command' # "none"
               PROVE  server' = <<>> /\ (open' => Head(server).kind = "WIDE")
    BY Zenon DEF CleanStep
  <1>1. process_server_pkts
    <2>1. \A q \in Queries : ~client_COM_QUERY(q) /\ ~QueryCacheHit(q)
      BY Zenon DEF client_COM_QUERY, QueryCacheHit, Asked
    <2>2. ~PassThrough /\ ~Expire /\ ~AdminQuery /\ ~SessionEnds /\ ~UNCHANGED vars
      BY Zenon DEF PassThrough, Asked, Expire, AdminQuery, SessionEnds, vars
    <2> QED BY <2>1, <2>2, Zenon DEF Next
  <1>2. open' = open /\ trx' \in Learn(Head(server)) /\ open \in BOOLEAN
    <2>1. open' = open /\ trx' \in Learn(Head(server))
      BY <1>1, Zenon DEF process_server_pkts
    <2>2. open \in BOOLEAN
      BY DEF IInv, TypeOK
    <2> QED BY <2>1, <2>2
  <1>3. command = "QUERY"
    BY <1>1, OtherPacket, Zenon
  <1>4. server' = <<>> /\ ~trx' /\ Head(server).kind \in {"OK", "WIDE", "EOF"}
    BY <1>1, <1>3, QueryPacket, Zenon
  <1>5. CASE Head(server).kind = "EOF"
    BY <1>2, <1>4, <1>5 DEF Learn
  <1>6. CASE Head(server).kind = "OK"
    <2>1. PICK f \in FlagsOfOk("OK") : trx' = is_transaction_active(f)
      BY <1>2, <1>6 DEF Learn
    <2>2. is_transaction_active(f) = open
      BY <1>2, FlagsOfOkRight, Zenon
    <2> QED BY <1>2, <1>4, <2>1, <2>2, Zenon
  <1> QED BY <1>4, <1>5, <1>6

(* server_COM_QUERY takes a connection from a session that goes on only when  *)
(* its server has nothing more to send and no transaction open, unless the    *)
(* answer was an OK packet with a count of 128 or more, behind which          *)
(* is_transaction_active does not find the flags: for answers of any size,    *)
(* whatever the counts, and wherever sessions end.                            *)
THEOREM ReleasesClean == Spec => ReleasedClean
  <1>1. IInv /\ [Next]_vars => [CleanStep]_vars
    BY ReleasedBy, Zenon
  <1> QED BY <1>1, ProgressFollows, PTL DEF Spec, ReleasedClean, CleanStep

-----------------------------------------------------------------------------
(* The rows of the admin interface. *)

(* Lengths whose header has one byte or three. *)
Short == {n \in Nat : n < 65536}

LEMMA TwoBytes ==
    ASSUME NEW v \in Short
    PROVE  /\ LittleEndian(v, 2) = <<v % 256, (v \div 256) % 256>>
           /\ (v % 256) + 256 * ((v \div 256) % 256) = v
           /\ v % 256 \in Nat /\ (v \div 256) % 256 \in Nat
  <1>1. 256 ^ 0 = 1 /\ 256 ^ 1 = 256 /\ v \div 1 = v
    BY SMT DEF Short
  <1>2. LittleEndian(v, 2) = [i \in 1 .. 2 |-> (v \div 256 ^ (i - 1)) % 256]
    BY Zenon DEF LittleEndian
  <1>3. ASSUME NEW i \in 1 .. 2
        PROVE  (v \div 256 ^ (i - 1)) % 256 = IF i = 1 THEN v % 256 ELSE (v \div 256) % 256
    <2>1. (i = 1 /\ i - 1 = 0) \/ (i = 2 /\ i - 1 = 1 /\ i # 1)
      OBVIOUS
    <2> QED BY <1>1, <2>1, ZenonT(30)
  <1>4. PICK a, b : a = v % 256 /\ b = (v \div 256) % 256
    BY Zenon
  <1>5. LittleEndian(v, 2) = [i \in 1 .. 2 |-> IF i = 1 THEN a ELSE b]
    <2> DEFINE e(i) == (v \div 256 ^ (i - 1)) % 256
    <2>1. LittleEndian(v, 2) = [i \in 1 .. 2 |-> e(i)]
      BY <1>2, Zenon
    <2>2. \A i \in 1 .. 2 : e(i) = IF i = 1 THEN v % 256 ELSE (v \div 256) % 256
      BY <1>3, Zenon
    <2> HIDE DEF e
    <2>3. \A i \in 1 .. 2 : e(i) = IF i = 1 THEN a ELSE b
      BY <1>4, <2>2
    <2> QED BY <2>1, <2>3
  <1>6. LittleEndian(v, 2) = <<a, b>>
    BY <1>5
  <1>7. (v % 256) + 256 * ((v \div 256) % 256) = v /\ v % 256 \in Nat /\ (v \div 256) % 256 \in Nat
    BY SMT DEF Short
  <1> QED BY <1>4, <1>6, <1>7, Zenon

LEMMA ValueOfTwo ==
    ASSUME NEW a \in Nat, NEW b \in Nat
    PROVE  Value(<<a, b>>) = a + 256 * b
  <1> DEFINE s == <<a, b>>
             F(g) == [i \in 1 .. Len(s) + 1 |-> IF i > Len(s) THEN 0 ELSE s[i] + 256 * g[i + 1]]
             G == [i \in 1 .. 3 |-> IF i = 3 THEN 0 ELSE IF i = 2 THEN b ELSE a + 256 * b]
             f == CHOOSE g : g = F(g)
  <1>1. Value(s) = f[1]
    BY Zenon DEF Value
  <1>2. Len(s) = 2 /\ s[1] = a /\ s[2] = b
    OBVIOUS
  <1> HIDE DEF s
  <1>3. \A g : F(g) = [i \in 1 .. 3 |-> IF i > 2 THEN 0 ELSE s[i] + 256 * g[i + 1]]
    BY <1>2
  <1>4. G[3] = 0 /\ G[2] = b /\ G[1] = a + 256 * b
    OBVIOUS
  <1>5. ASSUME NEW i \in 1 .. 3
        PROVE  G[i] = IF i > 2 THEN 0 ELSE s[i] + 256 * G[i + 1]
    <2>1. i = 1 \/ i = 2 \/ i = 3
      OBVIOUS
    <2> HIDE DEF G
    <2> QED BY <1>2, <1>4, <2>1
  <1>6. G = F(G)
    <2>1. G = [i \in 1 .. 3 |-> G[i]]
      BY Zenon
    <2> HIDE DEF G, F
    <2> QED BY <1>3, <1>5, <2>1, Zenon
  <1> HIDE DEF G, F
  <1>7. f = F(f)
    BY <1>6, Zenon
  <1> HIDE DEF f
  <1>8. f = [i \in 1 .. 3 |-> IF i > 2 THEN 0 ELSE s[i] + 256 * f[i + 1]]
    BY <1>3, <1>7, Zenon
  <1>9. /\ f[3] = 0 /\ f[2] = s[2] + 256 * f[3] /\ f[1] = s[1] + 256 * f[2]
    BY <1>8
  <1>10. f[2] = b
    BY <1>2, <1>9
  <1>11. f[1] = a + 256 * b
    BY <1>2, <1>9, <1>10
  <1> QED BY <1>1, <1>11, Zenon DEF s

(* A header takes the room it was given and reads back as the length.         *)
LEMMA HeaderFits ==
    ASSUME NEW l \in Short \cup {Null}, NEW h \in writeencstrnull(l)
    PROVE  /\ Len(h) + Chars(l) = IF Chars(l) = 0 THEN 1 ELSE l + lencint(l)
           /\ Decoded(h) = l
  <1>1. CASE l = Null
    <2>1. h = <<251>>
      BY <1>1 DEF writeencstrnull
    <2>2. Len(h) = 1 /\ h[1] = 251 /\ Chars(l) = 0
      BY <1>1, <2>1 DEF Chars
    <2>3. Decoded(h) = Null
      BY <2>2 DEF Decoded
    <2> QED BY <1>1, <2>2, <2>3
  <1>2. CASE l \in 0 .. 250
    <2>1. l # Null /\ lencint(l) = 1 /\ Chars(l) = l
      BY <1>2 DEF Null, lencint, Chars
    <2>2. h = LittleEndian(l, 1)
      <3>1. h = writeencint(l)
        BY <2>1 DEF writeencstrnull
      <3> QED BY <2>1, <3>1 DEF writeencint
    <2>3. 256 ^ 0 = 1 /\ (l \div 1) % 256 = l
      BY <1>2, SMT
    <2>4. h = [i \in 1 .. 1 |-> (l \div 256 ^ (i - 1)) % 256]
      BY <2>2, Zenon DEF LittleEndian
    <2>5. \A i \in 1 .. 1 : (l \div 256 ^ (i - 1)) % 256 = l
      BY <2>3
    <2>6. h = <<l>>
      BY <2>4, <2>5
    <2>7. Len(h) = 1 /\ h[1] = l
      BY <2>6
    <2>8. Decoded(h) = l
      BY <1>2, <2>7 DEF Decoded
    <2> QED BY <1>2, <2>1, <2>7, <2>8
  <1>3. CASE l \in Short \ 0 .. 250
    <2>1. l # Null /\ lencint(l) = 3 /\ Chars(l) = l /\ l # 0
      BY <1>3 DEF Null, lencint, Chars, Short
    <2>2. h = <<252>> \o LittleEndian(l, 2)
      <3>1. h = writeencint(l)
        BY <2>1 DEF writeencstrnull
      <3> QED BY <2>1, <3>1 DEF writeencint
    <2>3. PICK a \in Nat, b \in Nat : LittleEndian(l, 2) = <<a, b>> /\ a + 256 * b = l
      BY <1>3, TwoBytes
    <2>4. h = <<252>> \o <<a, b>>
      BY <2>2, <2>3, Zenon
    <2>5. Len(h) = 3 /\ h[1] = 252 /\ Tail(h) = <<a, b>>
      <3> DEFINE p == <<252>>
                 q == <<a, b>>
                 t == Tail(h)
      <3>1. p \in Seq(Nat) /\ Len(p) = 1 /\ p[1] = 252
        OBVIOUS
      <3>2. q \in Seq(Nat) /\ Len(q) = 2
        BY <2>3
      <3>3. h = p \o q
        BY <2>4, Zenon
      <3> HIDE DEF p, q
      <3>4. /\ h \in Seq(Nat) /\ Len(h) = Len(p) + Len(q)
            /\ \A i \in 1 .. Len(p) : h[i] = p[i]
            /\ \A i \in 1 .. Len(q) : h[Len(p) + i] = q[i]
        <4>1. /\ p \o q \in Seq(Nat) /\ Len(p \o q) = Len(p) + Len(q)
              /\ \A i \in 1 .. Len(p) : (p \o q)[i] = p[i]
              /\ \A i \in 1 .. Len(q) : (p \o q)[Len(p) + i] = q[i]
          <5>1. p \in Seq(Nat) /\ q \in Seq(Nat)
            BY <3>1, <3>2, Zenon
          <5> QED BY <5>1, Joined
        <4> QED BY <3>3, <4>1, Zenon
      <3>5. Len(h) = 3 /\ h[1] = 252 /\ h[2] = q[1] /\ h[3] = q[2]
        BY <3>1, <3>2, <3>4
      <3>6. t \in Seq(Nat) /\ Len(t) = 2 /\ t[1] = h[2] /\ t[2] = h[3]
        <4>1. h # <<>>
          BY <3>5
        <4>2. /\ t \in Seq(Nat) /\ Len(t) = Len(h) - 1
              /\ \A i \in 1 .. Len(t) : t[i] = h[i + 1]
          BY <3>4, <4>1, HeadTailProperties
        <4> HIDE DEF t
        <4> QED BY <3>5, <4>2
      <3> HIDE DEF t
      <3>7. t = q
        <4>1. Len(t) = Len(q) /\ \A i \in 1 .. Len(t) : t[i] = q[i]
          <5>1. Len(t) = Len(q) /\ \A i \in 1 .. Len(t) : i = 1 \/ i = 2
            BY <3>2, <3>6
          <5>2. t[1] = q[1] /\ t[2] = q[2]
            BY <3>5, <3>6, Zenon
          <5> QED BY <5>1, <5>2, Zenon
        <4>2. t \in Seq(Nat) /\ q \in Seq(Nat)
          BY <3>2, <3>6, Zenon
        <4> QED BY <4>1, <4>2, SeqEqual, Zenon
      <3>8. Tail(h) = <<a, b>>
        BY <3>7, Zenon DEF t, q
      <3> QED BY <3>5, <3>8, Zenon
    <2>6. Decoded(h) = Value(<<a, b>>)
      <3>1. Decoded(h) = Value(Tail(h))
        BY <2>5 DEF Decoded
      <3> QED BY <2>5, <3>1, Zenon
    <2>7. Decoded(h) = l
      BY <2>3, <2>6, ValueOfTwo, ZenonT(30)
    <2>8. l \in Nat
      BY <1>3 DEF Short
    <2> QED BY <2>1, <2>5, <2>7, <2>8
  <1> QED BY <1>1, <1>2, <1>3

(* Strings of up to 65535 bytes fit, as many as there are columns.            *)
LEMMA RowsFitTheirMemory ==
    ASSUME Lengths \subseteq Short
    PROVE  RowsFit
  <1> SUFFICES ASSUME NEW cols \in 1 .. MaxCols, NEW row \in [1 .. cols -> Lengths \cup {Null}],
                      NEW headers, \A i \in DOMAIN row : headers[i] \in writeencstrnull(row[i])
               PROVE  RowFits(headers, row)
    BY Zenon DEF RowsFit, AdminRow
  <1>1. DOMAIN row = 1 .. cols
    OBVIOUS
  <1>2. ASSUME NEW i \in 1 .. cols
        PROVE  /\ Len(headers[i]) + Chars(row[i]) =
                     IF Chars(row[i]) = 0 THEN 1 ELSE row[i] + lencint(row[i])
               /\ Decoded(headers[i]) = row[i]
    <2>1. row[i] \in Short \cup {Null} /\ headers[i] \in writeencstrnull(row[i])
      BY <1>1
    <2> QED BY <2>1, HeaderFits, Zenon
  <1>3. [i \in DOMAIN row |-> Len(headers[i]) + Chars(row[i])]
        = [i \in DOMAIN row |-> IF Chars(row[i]) = 0 THEN 1 ELSE row[i] + lencint(row[i])]
    BY <1>1, <1>2, Zenon
  <1>4. WrittenBy(headers, row) = rowlen(row)
    BY <1>3, Zenon DEF WrittenBy, rowlen
  <1> QED BY <1>1, <1>2, <1>4, Zenon DEF RowFits

(* An answer of the admin interface is what the protocol asks for. *)
AdminWhole == command = "ADMIN" => out = received

(* mysql_pkt_to_sqlite_exec, which fills in the column definitions last, puts *)
(* every packet of its answer in its place, with its number, and every row    *)
(* into memory of its size: for any number of columns and rows, as long as no *)
(* string is longer than 65535 bytes.                                         *)
THEOREM AdminInPlace ==
    ASSUME Lengths \subseteq Short
    PROVE  Spec => [](IInv /\ AdminWhole)
  <1>1. Init => IInv /\ AdminWhole
    <2>1. Init => AdminWhole
      BY Zenon DEF Init, AdminWhole
    <2> QED BY <2>1, InitInv, Zenon
  <1>2. IInv /\ AdminWhole /\ [Next]_vars => IInv' /\ AdminWhole'
    <2> SUFFICES ASSUME IInv, AdminWhole, [Next]_vars PROVE IInv' /\ AdminWhole'
      BY Zenon
    <2>1. IInv'
      BY StepInv, Zenon
    <2>2. ASSUME AdminQuery PROVE AdminWhole'
      <3>0. PICK cols \in 1 .. MaxCols :
               \E row \in [1 .. cols -> Lengths \cup {Null}], n \in 0 .. MaxRows :
                  /\ out' = mysql_pkt_to_sqlite_exec(cols, Repeat(row, n))
                  /\ received' = Number(Resultset(cols, Repeat("ROW", n), "EOF"))
        BY <2>2, Zenon DEF AdminQuery
      <3>1. PICK row \in [1 .. cols -> Lengths \cup {Null}], n \in 0 .. MaxRows :
               /\ out' = mysql_pkt_to_sqlite_exec(cols, Repeat(row, n))
               /\ received' = Number(Resultset(cols, Repeat("ROW", n), "EOF"))
        BY <3>0, Zenon
      <3>2. mysql_pkt_to_sqlite_exec(cols, Repeat(row, n)) = Number(Resultset(cols, Repeat("ROW", n), "EOF"))
        BY RowsFitTheirMemory, AdminAnswer, Zenon
      <3> QED BY <3>1, <3>2, Zenon DEF AdminWhole
    <2>3. ASSUME process_server_pkts PROVE AdminWhole'
      <3>1. command # "ADMIN" /\ command' = command
        BY <2>3, Zenon DEF IInv, OneAnswer, process_server_pkts
      <3> QED BY <3>1, Zenon DEF AdminWhole
    <2>4. ASSUME NEW q \in Queries, client_COM_QUERY(q) \/ QueryCacheHit(q)
          PROVE  AdminWhole'
      BY <2>4, Zenon DEF client_COM_QUERY, QueryCacheHit, AdminWhole
    <2>5. ASSUME PassThrough \/ SessionEnds
          PROVE  AdminWhole'
      BY <2>5, Zenon DEF PassThrough, SessionEnds, AdminWhole
    <2>6. ASSUME Expire \/ UNCHANGED vars
          PROVE  AdminWhole'
      BY <2>6, Zenon DEF Expire, AdminWhole, vars
    <2> QED BY <2>1, <2>2, <2>3, <2>4, <2>5, <2>6, Zenon DEF Next
  <1> QED BY <1>1, <1>2, PTL DEF Spec

LEMMA Emptied ==
    ASSUME IInv, AdminWhole
    PROVE  NothingLost /\ NothingHeldBack
  <1>1. TypeOK /\ Collected /\ OneAnswer
    BY Zenon DEF IInv
  <1>2. received \in Seq(Packets) /\ (command # "ADMIN" => out \in Seq(Packets))
    BY <1>1 DEF TypeOK
  <1>3. CASE command = "ADMIN"
    <2>1. out = received /\ resultset = <<>>
      BY <1>1, <1>3, Zenon DEF AdminWhole, Collected, OneAnswer
    <2>2. received \o <<>> = received
      BY <1>2, ConcatEmptySeq, Zenon
    <2> QED BY <2>1, <2>2, Zenon DEF NothingLost, NothingHeldBack
  <1>4. CASE command # "ADMIN"
    <2>1. NothingLost
      BY <1>1, <1>4, Zenon DEF Collected
    <2>2. ASSUME held => server = <<>> PROVE out = received
      <3>1. resultset = <<>>
        BY <1>1, <2>2, Zenon DEF Collected
      <3>2. out \o <<>> = out
        BY <1>2, <1>4, ConcatEmptySeq, Zenon
      <3> QED BY <2>1, <3>1, <3>2, Zenon DEF NothingLost
    <2> QED BY <2>1, <2>2, Zenon DEF NothingHeldBack
  <1> QED BY <1>3, <1>4, Zenon

(* Nothing of an answer is lost, repeated or reordered on its way through     *)
(* server_COM_QUERY: what went to the client and what is collected is what    *)
(* was received, for results of any number of columns and rows.               *)
THEOREM LosesNothing ==
    ASSUME Lengths \subseteq Short
    PROVE  Spec => []NothingLost
  <1>1. IInv /\ AdminWhole => NothingLost
    BY Emptied, Zenon
  <1> QED BY <1>1, AdminInPlace, PTL

(* When a server has sent its answer the client has all of it, and            *)
(* server_COM_QUERY leaves nothing in sess->resultset, where no later event   *)
(* would move it.                                                             *)
THEOREM HoldsNothingBack ==
    ASSUME Lengths \subseteq Short
    PROVE  Spec => []NothingHeldBack
  <1>1. IInv /\ AdminWhole => NothingHeldBack
    BY Emptied, Zenon
  <1> QED BY <1>1, AdminInPlace, PTL
=============================================================================

------------------------------- MODULE Lenenc --------------------------------
(***************************************************************************)
(* Length-encoded integers and strings, where the status flags of an OK    *)
(* packet are looked for (src/src/mysql_protocol.c), and the memory a row  *)
(* of the admin interface is given (src/src/admin_sqlite.c).               *)
(*                                                                         *)
(* A packet is the sequence of its bytes after the header.  A uint64_t     *)
(* that came from a negative char is that negative number: of its size     *)
(* only "at least 2^24" is ever asked.                                     *)
(*                                                                         *)
(* An operator named Mut_X is a wrong variant of X, used to show that the  *)
(* properties notice the difference.                                       *)
(***************************************************************************)
EXTENDS Integers, Sequences, Functions

CONSTANTS Junk       \* bound: bytes that may lie where no packet is

ASSUME LenencAssumption == Junk \subseteq 0 .. 255

SERVER_STATUS_IN_TRANS == 1
Null == -1

-----------------------------------------------------------------------------
lencint(v) ==
    CASE v < 0 \/ v >= 16777216 -> 9
      [] v >= 0 /\ v < 251 -> 1
      [] v >= 251 /\ v < 65536 -> 3
      [] OTHER -> 4

LittleEndian(v, n) == [i \in 1 .. n |-> (v \div 256 ^ (i - 1)) % 256]

writeencint(v) ==
    LET l == lencint(v)
    IN  CASE l = 1 -> LittleEndian(v, 1)
          [] l = 3 -> <<252>> \o LittleEndian(v, 2)
          [] l = 4 -> <<253>> \o LittleEndian(v, 3)
          [] l = 9 -> <<254>> \o LittleEndian(v, 4) \o <<0, 0, 0, 0>>

(* char is signed, so every first byte is below 251. *)
lencint_unknown(byte) == IF byte < 128 THEN byte ELSE byte - 256

myproto_ok_pkt(rows, id, st) ==
    <<0>> \o writeencint(rows) \o writeencint(id) \o LittleEndian(st, 2) \o <<0, 0>>

(* What may be read at a place; past the end there is anything. *)
ByteAt(p, offset) == IF offset < Len(p) THEN {p[offset + 1]} ELSE Junk

Mut_status_flags(p) ==
    UNION {ByteAt(p, 1 + lencint(lencint_unknown(a))) : a \in ByteAt(p, 1)}
status_flags(p) ==
    UNION {LET second == 1 + lencint(lencint_unknown(a))
           IN  UNION {ByteAt(p, second + lencint(lencint_unknown(b))) : b \in ByteAt(p, second)} :
           a \in ByteAt(p, 1)}

is_transaction_active(flags) == flags % 2 = SERVER_STATUS_IN_TRANS

-----------------------------------------------------------------------------
(* The header writeencstrnull writes for a string of length l.  Of a header   *)
(* of four bytes it writes one; the others are what was in the memory.        *)
writeencstrnull(l) ==
    IF l = Null THEN {<<251>>}
    ELSE CASE lencint(l) = 4 -> {<<253, a, b, c>> : a \in Junk, b \in Junk, c \in Junk}
           [] OTHER          -> {writeencint(l)}

Chars(l) == IF l = Null THEN 0 ELSE l

(* What a row takes by sqlite3_column_bytes; it gives 0 for NULL.             *)
rowlen(cols) ==
    SumFunction([i \in DOMAIN cols |-> IF Chars(cols[i]) = 0 THEN 1 ELSE cols[i] + lencint(cols[i])])

WrittenBy(headers, cols) == SumFunction([i \in DOMAIN cols |-> Len(headers[i]) + Chars(cols[i])])

(* What the protocol says a header stands for. *)
Value(s) ==
    LET from[i \in 1 .. Len(s) + 1] == IF i > Len(s) THEN 0 ELSE s[i] + 256 * from[i + 1]
    IN  from[1]
Decoded(h) == CASE h[1] < 251 -> h[1]
                [] h[1] = 251 -> Null
                [] OTHER      -> Value(Tail(h))

(* A row fills the memory it was given exactly and reads back as it was.      *)
RowFits(headers, cols) ==
    /\ WrittenBy(headers, cols) = rowlen(cols)
    /\ \A i \in DOMAIN cols : Decoded(headers[i]) = cols[i]
=============================================================================

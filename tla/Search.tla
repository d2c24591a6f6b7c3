------------------------------- MODULE Search -------------------------------
(***************************************************************************)
(* The type-to-search buffer (src/search.c) and the UTF-8 encoder it calls *)
(* (sway-client-helpers/unicode.c).  The C buffer is a 64-byte array and a *)
(* length; here it is the sequence of the bytes in use, the terminating    *)
(* NUL being the end of the sequence.                                      *)
(***************************************************************************)
EXTENDS Naturals, Sequences

CONSTANTS
  Codepoint,   \* the Unicode code points the keyboard can produce
  BufSize      \* sizeof(buffer.data): 64 in the program

Unicode == {c \in Nat : 0 < c /\ c < 1114112}

(* menu_handle_key passes only a non-zero code point on, and xkbcommon     *)
(* yields only Unicode code points; the array has room for one of each.    *)
ASSUME SearchAssumption ==
  /\ Codepoint \subseteq Unicode
  /\ BufSize \in Nat

VARIABLE data  \* buffer.data[0 .. len - 1]

len == Len(data)
-----------------------------------------------------------------------------
(* The number of bytes of the encoding of a code point. *)
utf8_chsize(ch) ==
  IF ch < 128 THEN 1 ELSE IF ch < 2048 THEN 2 ELSE IF ch < 65536 THEN 3 ELSE 4

(* The marker bits of the first byte of an encoding of n bytes. *)
first(n) == CASE n = 1 -> 0 [] n = 2 -> 192 [] n = 3 -> 224 [] n = 4 -> 240

(* What is left of ch once the loop has shifted k groups of six bits out.  *)
Shift(ch, k) ==
  CASE k = 0 -> ch
    [] k = 1 -> ch \div 64
    [] k = 2 -> ch \div 4096
    [] k = 3 -> ch \div 262144

(* The bytes of the encoding: markers and bits do not overlap, so that the *)
(* `|' of the code is a sum.                                               *)
utf8_encode(ch) ==
  LET n == utf8_chsize(ch)
  IN  [i \in 1 .. n |-> IF i = 1 THEN first(n) + Shift(ch, n - 1)
                                 ELSE 128 + (Shift(ch, n - i) % 64)]

(* (b & 0xc0) = 0x80: a byte inside a character. *)
IsContinuation(b) == b \div 64 = 2

(* The positions of buf at which a character begins. *)
Leads(buf) == {i \in DOMAIN buf : ~ IsContinuation(buf[i])}

(* A slip: one byte is taken for a character. *)
one_byte(buf) == IF buf = << >> THEN 0 ELSE 1

(* How far back from the end of buf the last character begins; 0 with an   *)
(* error message when no character does.                                   *)
utf8_nr_bytes_to_prev_character(buf) ==
  IF Leads(buf) = {}
    THEN 0
    ELSE LET last == CHOOSE i \in Leads(buf) : \A j \in Leads(buf) : j <= i
         IN  Len(buf) - last + 1
-----------------------------------------------------------------------------
search_remove_last_uft8_character ==
  data' = SubSeq(data, 1, len - utf8_nr_bytes_to_prev_character(data))

(* A slip: the bound check forgets the terminating NUL. *)
add_without_nul(ch) ==
  data' = IF len + utf8_chsize(ch) > BufSize THEN data ELSE data \o utf8_encode(ch)

(* A slip: characters of more than one byte are dropped. *)
add_ascii(ch) ==
  data' = IF ch > 127 \/ len + 2 >= BufSize THEN data ELSE data \o utf8_encode(ch)

(* A character that does not fit is dropped whole. *)
search_add_utf8_character(ch) ==
  data' = IF len + utf8_chsize(ch) + 1 >= BufSize
            THEN data
            ELSE data \o utf8_encode(ch)

Init == data = << >>

Next ==
  \/ search_remove_last_uft8_character
  \/ \E ch \in Codepoint : search_add_utf8_character(ch)

Spec == Init /\ [][Next]_data
-----------------------------------------------------------------------------
(* Every byte in use is a non-NUL byte: the C string ends at len. *)
TypeOK == data \in Seq(1 .. 255)

(* The bytes in use and the NUL after them stay inside the array, whatever *)
(* is typed and erased (the bound check of search_add_utf8_character).     *)
InBounds == data # << >> => len < BufSize

(* The length a first byte announces. *)
Width(b) == IF b < 128 THEN 1 ELSE IF b < 224 THEN 2 ELSE IF b < 240 THEN 3 ELSE 4

(* The buffer is always a run of whole characters: it starts with a first  *)
(* byte, and each first byte is followed by exactly the continuation bytes *)
(* it announces.  This is what makes one BackSpace erase one character,    *)
(* and what keeps "data is not valid utf8" from ever being reached.        *)
WholeCharacters ==
  /\ data # << >> => 1 \in Leads(data)
  /\ \A i \in Leads(data) :
       LET next == i + Width(data[i])
       IN  /\ next <= len + 1
           /\ \A j \in i + 1 .. next - 1 : j \notin Leads(data)
           /\ next <= len => next \in Leads(data)
=============================================================================

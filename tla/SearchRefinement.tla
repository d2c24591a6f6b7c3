-------------------------- MODULE SearchRefinement --------------------------
(***************************************************************************)
(* The text that the bytes of the search buffer stand for, and how Search  *)
(* implements SearchText.  The keys that reach the buffer are recorded in  *)
(* a history variable: only the refinement looks at it.                    *)
(***************************************************************************)
EXTENDS Search, FiniteSets

VARIABLE key  \* history: the key handled last, and a bit that each inverts

keyVars == << data, key >>

(* No code point: what stands for the BackSpace key in the history. *)
BackSpace == 0

Handled(k) == key' = [sym |-> k, bit |-> ~ key.bit]

(* The two calls that menu_handle_key makes to search.c, each with the key *)
(* that it is made for.                                                    *)
Erased == search_remove_last_uft8_character /\ Handled(BackSpace)
Typed(ch) == search_add_utf8_character(ch) /\ Handled(ch)

KeyInit == Init /\ key = [sym |-> BackSpace, bit |-> FALSE]

KeyNext == Erased \/ \E ch \in Codepoint : Typed(ch)

KeySpec == KeyInit /\ [][KeyNext]_keyVars
-----------------------------------------------------------------------------
(* The character that begins at position i of buf, by the definition of    *)
(* UTF-8.                                                                  *)
DecodeAt(buf, i) ==
  LET Tail6(k) == buf[i + k] - 128
      b == buf[i]
  IN  CASE Width(b) = 1 -> b
        [] Width(b) = 2 -> (b - 192) * 64 + Tail6(1)
        [] Width(b) = 3 -> (b - 224) * 4096 + Tail6(1) * 64 + Tail6(2)
        [] Width(b) = 4 -> (b - 240) * 262144 + Tail6(1) * 4096
                             + Tail6(2) * 64 + Tail6(3)

(* How many members of S come before i. *)
RankIn(S, i) == Cardinality({j \in S : j < i})

(* The characters of buf, in order. *)
CharactersOf(buf) ==
  [k \in 1 .. Cardinality(Leads(buf)) |->
     DecodeAt(buf, CHOOSE i \in Leads(buf) : RankIn(Leads(buf), i) = k - 1)]

Characters == CharactersOf(data)

(* The room for characters: the bound check keeps two bytes back, though   *)
(* the terminating NUL takes one.                                          *)
Text == INSTANCE SearchText WITH
  text <- Characters, free <- BufSize - 2 - len,
  Weight <- utf8_chsize, Room <- BufSize - 2

(* The byte buffer implements the text, key by key.  A character that is   *)
(* typed goes to the end, that very one, unless its bytes do not fit;      *)
(* BackSpace removes the last character whenever there is one, with all of *)
(* its bytes (search.c:35-57).  Since every key changes the history, a     *)
(* character that is dropped though there is room for it, or a BackSpace   *)
(* without effect, is a step that the text does not allow.                 *)
ImplementsText == Text!Spec
=============================================================================

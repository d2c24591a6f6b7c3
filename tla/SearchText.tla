----------------------------- MODULE SearchText -----------------------------
(***************************************************************************)
(* What the search box of the menu promises: a line of text, edited at its *)
(* end, one whole character at a time, by each key that it is given.       *)
(* Nothing is said of bytes.                                               *)
(*                                                                         *)
(* The keys are part of the specification, as the requests of a client     *)
(* are: each of them changes the variable key, so that a key which leaves  *)
(* the text alone is a step like any other, and is allowed only where an   *)
(* action below says so.                                                   *)
(***************************************************************************)
EXTENDS Naturals, Sequences, SequencesExt

CONSTANTS
  Codepoint,   \* the characters a keyboard can type
  Weight(_),   \* how much room a character takes
  Room         \* how much room there is

VARIABLES
  text,  \* the characters typed and not erased, oldest first
  free,  \* how much room is left
  key    \* the key that was handled last, and a bit that each key inverts

BackSpace == 0

(* A key is handled: a character, or BackSpace. *)
Handle(k) == key' = [sym |-> k, bit |-> ~ key.bit]

Init ==
  /\ text = << >> /\ free = Room
  /\ key = [sym |-> BackSpace, bit |-> FALSE]

(* The character that has been typed goes to the end of the text. *)
Type(ch) ==
  /\ Handle(ch)
  /\ Weight(ch) <= free
  /\ text' = Append(text, ch)
  /\ free' = free - Weight(ch)

(* It is refused only if there is no room for it. *)
Refuse(ch) ==
  /\ Handle(ch)
  /\ Weight(ch) > free
  /\ UNCHANGED << text, free >>

(* BackSpace takes the last character away, and gives its room back. *)
Erase ==
  /\ Handle(BackSpace)
  /\ IF text = << >>
       THEN UNCHANGED << text, free >>
       ELSE text' = Front(text) /\ free' = free + Weight(Last(text))

Next ==
  \/ \E ch \in Codepoint : Type(ch) \/ Refuse(ch)
  \/ Erase

Spec == Init /\ [][Next]_<< text, free, key >>
=============================================================================

------------------------------ MODULE Options ------------------------------
(***************************************************************************)
(* Reading the command line (ccan/opt as main() uses it).  opt_parse calls *)
(* parse_one until there are no more options; each call takes one option   *)
(* out of argv, or one letter of a bundle such as -Vmfile, and calls what  *)
(* is registered for it.                                                   *)
(*                                                                         *)
(* A word is plain (it does not begin with `-'), the terminator --, a long *)
(* option with or without a value (--name=value), or a bundle of letters.  *)
(* argv is what is left of the line: the places of its words.  A pointer   *)
(* into the line is the place of a word and how much of the word it skips: *)
(* nothing, some letters of a bundle, or the name of a long option.        *)
(***************************************************************************)
EXTENDS Integers, Sequences, FiniteSets

CONSTANT Lines  \* the command lines, without the name of the program

Word == [kind : {"plain", "terminator", "long", "short"},
         name : STRING, value : BOOLEAN, letters : Seq(STRING)]

ASSUME OptionsAssumption == Lines \subseteq Seq(Word)

VARIABLES
  line,          \* the command line
  posix,         \* whether POSIXLY_CORRECT is set
  argv,
  offset,        \* how many letters of the present bundle have been read
  config_file, menu_file, show_version, verbose,
  log_importance,
  status         \* "parsing", "parsed", "error", "help", "exit",
                 \* "run" or "running"

values == << config_file, menu_file, show_version, verbose >>
optionVars == << line, posix, argv, offset, values, log_importance, status >>
-----------------------------------------------------------------------------
Null == [word |-> 0, from |-> 0]

(* The table of main.c: the names of each option, without the dashes, and  *)
(* whether it takes an argument.                                           *)
opts ==
  [config_file |-> [letter |-> "c", name |-> "config-file", hasarg |-> TRUE],
   help        |-> [letter |-> "h", name |-> "help",        hasarg |-> FALSE],
   menu_file   |-> [letter |-> "m", name |-> "menu-file",   hasarg |-> TRUE],
   version     |-> [letter |-> "v", name |-> "version",     hasarg |-> FALSE],
   verbose     |-> [letter |-> "V", name |-> "verbose",     hasarg |-> FALSE]]

(* first_lopt and next_lopt go through the long names of the table, and    *)
(* first_sopt and next_sopt through its letters; no name is there twice,   *)
(* so that the order does not matter.                                      *)
lopts == {opts[o].name : o \in DOMAIN opts}
sopts == {opts[o].letter : o \in DOMAIN opts}

(* A name matches as a whole, and not if it is only the beginning of one.  *)
opt_find_long(n) == {o \in DOMAIN opts : n \in lopts /\ opts[o].name = n}
opt_find_short(l) == {o \in DOMAIN opts : l \in sopts /\ opts[o].letter = l}

(* An option has a letter and a long name that is not empty; the program   *)
(* exits when one is registered that does not.                             *)
check_opt(o) == Len(opts[o].letter) = 1 /\ Len(opts[o].name) > 0
opt_register_table == \A o \in DOMAIN opts : check_opt(o)

(* The callbacks, where the option is the one that is meant.               *)
opt_set_charp(meant, arg, p) == IF meant THEN arg ELSE p
opt_set_bool(meant, b) == b \/ meant
opt_inc_intval(meant, i) == IF meant THEN i + 1 ELSE i
opt_usage_and_exit(meant) == IF meant THEN "help" ELSE status

callback(o, arg) ==
  /\ config_file' = opt_set_charp(o = "config_file", arg, config_file)
  /\ menu_file' = opt_set_charp(o = "menu_file", arg, menu_file)
  /\ show_version' = opt_set_bool(o = "version", show_version)
  /\ verbose' = opt_inc_intval(o = "verbose", verbose)
  /\ status' = opt_usage_and_exit(o = "help")
-----------------------------------------------------------------------------
WordAt(i) == line[argv[i]]

(* Slip: options are looked for everywhere, whatever POSIXLY_CORRECT says. *)
FirstAnywhere ==
  {i \in DOMAIN argv : /\ WordAt(i).kind # "plain"
                       /\ \A j \in 1 .. i - 1 : WordAt(j).kind = "plain"}

(* Where parse_one finds the next option: one place, or none. *)
First ==
  {i \in DOMAIN argv : /\ WordAt(i).kind # "plain"
                       /\ \A j \in 1 .. i - 1 : WordAt(j).kind = "plain" /\ ~ posix}

(* argv without the word at i, or without the n words from there on. *)
consume_option(i, n) ==
  [k \in 1 .. Len(argv) - n |-> IF k < i THEN argv[k] ELSE argv[k + n]]

Parsing == status = "parsing"

(* Slip: parsing ends at the terminator only. *)
NeverDone == FALSE /\ UNCHANGED optionVars

Done ==
  /\ Parsing /\ First = {}
  /\ status' = "parsed"
  /\ UNCHANGED << line, posix, argv, offset, values, log_importance >>

Terminator(i) ==
  /\ WordAt(i).kind = "terminator"
  /\ argv' = consume_option(i, 1)
  /\ status' = "parsed"
  /\ UNCHANGED << offset, values >>

(* parse_err: the erroneous option stays. *)
Fail == status' = "error" /\ UNCHANGED << argv, offset, values >>

(* --name or --name=value; the value may also be the next word, whatever   *)
(* it looks like.  (That offset is 0 here, which parse_one asserts, is     *)
(* shown in Program_proofs.)                                               *)
Long(i) ==
  LET w == WordAt(i)
      known == opt_find_long(w.name) # {}
      o == CHOOSE x \in opt_find_long(w.name) : TRUE
      last == i = Len(argv)
  IN  /\ w.kind = "long"
      /\ \/ ~ known /\ Fail
         \/ known /\ ~ opts[o].hasarg /\ w.value /\ Fail
         \/ known /\ opts[o].hasarg /\ ~ w.value /\ last /\ Fail
         \/ /\ known /\ opts[o].hasarg = w.value
            /\ callback(o, IF w.value THEN [word |-> argv[i], from |-> 1] ELSE Null)
            /\ argv' = IF o = "help" THEN argv ELSE consume_option(i, 1)
         \/ /\ known /\ opts[o].hasarg /\ ~ w.value /\ ~ last
            /\ callback(o, [word |-> argv[i + 1], from |-> 0])
            /\ argv' = consume_option(i, 2)
      /\ offset' = offset

(* Slip: the rest of a bundle is not taken for the argument. *)
ShortNextWord(i) ==
  LET w == WordAt(i)
      n == offset + 1
      o == CHOOSE x \in opt_find_short(w.letters[n]) : TRUE
      known == n <= Len(w.letters) /\ opt_find_short(w.letters[n]) # {}
  IN  /\ w.kind = "short"
      /\ \/ ~ known /\ Fail
         \/ known /\ opts[o].hasarg /\ i = Len(argv) /\ Fail
         \/ /\ known /\ ~ opts[o].hasarg
            /\ callback(o, Null)
            /\ IF o # "help" /\ n = Len(w.letters)
                 THEN offset' = 0 /\ argv' = consume_option(i, 1)
                 ELSE offset' = n /\ argv' = argv
         \/ /\ known /\ opts[o].hasarg /\ i < Len(argv)
            /\ callback(o, [word |-> argv[i + 1], from |-> 0])
            /\ offset' = 0 /\ argv' = consume_option(i, 2)

(* The next letter of a bundle.  An argument is the rest of the bundle, or *)
(* the next word.  (A single `-' is a bundle without letters.)             *)
Short(i) ==
  LET w == WordAt(i)
      n == offset + 1
      o == CHOOSE x \in opt_find_short(w.letters[n]) : TRUE
      last == n = Len(w.letters)
      known == n <= Len(w.letters) /\ opt_find_short(w.letters[n]) # {}
  IN  /\ w.kind = "short"
      /\ \/ ~ known /\ Fail
         \/ known /\ opts[o].hasarg /\ last /\ i = Len(argv) /\ Fail
         \/ /\ known /\ ~ opts[o].hasarg
            /\ callback(o, Null)
            /\ IF o # "help" /\ last
                 THEN offset' = 0 /\ argv' = consume_option(i, 1)
                 ELSE offset' = n /\ argv' = argv
         \/ /\ known /\ opts[o].hasarg /\ ~ last
            /\ callback(o, [word |-> argv[i], from |-> n])
            /\ offset' = 0 /\ argv' = consume_option(i, 1)
         \/ /\ known /\ opts[o].hasarg /\ last /\ i < Len(argv)
            /\ callback(o, [word |-> argv[i + 1], from |-> 0])
            /\ offset' = 0 /\ argv' = consume_option(i, 2)

parse_one ==
  \/ Done
  \/ /\ Parsing
     /\ \E i \in First : Terminator(i) \/ Long(i) \/ Short(i)
     /\ UNCHANGED << line, posix, log_importance >>

(* LOG_ERROR to LOG_DEBUG are 1 to 3.                                      *)
LogDebug == 3
log_init(v) == IF v <= LogDebug THEN v ELSE log_importance

(* The rest of main(): the program runs, or exits with a message.          *)
main ==
  /\ status = "parsed"
  /\ status' = IF show_version \/ menu_file = Null THEN "exit" ELSE "run"
  /\ log_importance' =
       IF show_version THEN log_importance
       ELSE log_init(IF 1 + verbose < LogDebug THEN 1 + verbose ELSE LogDebug)
  /\ UNCHANGED << line, posix, argv, offset, values >>

OptionsInit ==
  /\ line \in Lines /\ posix \in BOOLEAN
  /\ argv = [i \in 1 .. Len(line) |-> i] /\ offset = 0
  /\ config_file = Null /\ menu_file = Null
  /\ show_version = FALSE /\ verbose = 0
  /\ log_importance = 1
  /\ status = IF opt_register_table THEN "parsing" ELSE "exit"

OptionsNext == parse_one \/ main

OptionsSpec == OptionsInit /\ [][OptionsNext]_optionVars
-----------------------------------------------------------------------------
(* What a command line means, read in one go: the options that are set,    *)
(* with their arguments, the words that are left, and how reading ends.    *)
(* Letters that take no argument may be followed by others; the first that *)
(* does, or that ends reading, is the turn of the bundle w.                *)
Flags == {o.letter : o \in {opts.version, opts.verbose}}

Turn(w) ==
  CHOOSE k \in 1 .. Len(w.letters) + 1 :
    /\ \A j \in 1 .. k - 1 : w.letters[j] \in Flags
    /\ k <= Len(w.letters) => w.letters[k] \notin Flags

Set(o, arg) == << [option |-> o, arg |-> arg] >>
SetFlags(w, n) ==
  [k \in 1 .. n |-> [option |-> CHOOSE o \in opt_find_short(w.letters[k]) : TRUE,
                     arg    |-> Null]]

(* What the word at i says of line l: the options, how many words it       *)
(* takes, and what comes then: the next word, or an end.                   *)
Meaning(l, i) ==
  LET w == l[i]
      Says(sets, words, then) == [sets |-> sets, words |-> words, then |-> then]
      Error(sets) == Says(sets, 0, "error")
      last == i = Len(l)
      k == Turn(w)
      sets == SetFlags(w, k - 1)
      found == IF w.kind = "long" THEN opt_find_long(w.name)
               ELSE opt_find_short(w.letters[k])
      o == CHOOSE x \in found : TRUE
  IN  IF w.kind = "terminator" THEN Says(<< >>, 1, "parsed")
      ELSE IF w.kind = "short" /\ k > Len(w.letters)
        THEN IF w.letters = << >> THEN Error(<< >>) ELSE Says(sets, 1, "next")
      ELSE LET before == IF w.kind = "long" THEN << >> ELSE sets
               inside == IF w.kind = "long" THEN w.value ELSE k < Len(w.letters)
           IN  IF found = {} THEN Error(before)
               ELSE IF opts[o].hasarg
                 THEN IF inside
                        THEN Says(before \o Set(o, [word |-> i, from |->
                                    IF w.kind = "long" THEN 1 ELSE k]), 1, "next")
                      ELSE IF last THEN Error(before)
                      ELSE Says(before \o Set(o, [word |-> i + 1, from |-> 0]), 2, "next")
               ELSE IF w.kind = "long" /\ w.value THEN Error(<< >>)
               ELSE IF o = "help" THEN Says(before, 0, "help")
               ELSE Says(before \o Set(o, Null), 1, "next")

(* The reading of line l from each of its words on. *)
Reading(l, px) ==
  LET Rest(i) == [k \in 1 .. Len(l) + 1 - i |-> i + k - 1]
      End(i, sets, then) == [sets |-> sets, left |-> Rest(i), end |-> then]
      read[i \in 1 .. Len(l) + 1] ==
        IF i > Len(l) \/ (px /\ l[i].kind = "plain") THEN End(i, << >>, "parsed")
        ELSE IF l[i].kind = "plain"
          THEN [read[i + 1] EXCEPT !.left = << i >> \o @]
        ELSE LET m == Meaning(l, i)
             IN  IF m.then = "next"
                   THEN [read[i + m.words] EXCEPT !.sets = m.sets \o @]
                   ELSE End(i + m.words, m.sets, m.then)
  IN  read[1]

LastOf(sets, o) ==
  LET K == {k \in DOMAIN sets : sets[k].option = o}
  IN  IF K = {} THEN Null
      ELSE sets[CHOOSE k \in K : \A j \in K : j <= k].arg

Times(sets, o) == Cardinality({k \in DOMAIN sets : sets[k].option = o})

(* The command line has been read as it is meant: options are found behind *)
(* other words, unless POSIXLY_CORRECT is set, and not after --; an option *)
(* takes its argument from the rest of the bundle, behind the =, or from   *)
(* the next word even if that looks like an option; the last of several    *)
(* options counts; nothing but what belongs to options is taken out of     *)
(* argv; and the program runs just if a menu file has been named and no    *)
(* version been asked for.                                                 *)
WordsRead ==
  LET r == Reading(line, posix)
  IN  ~ Parsing /\ status # "running" =>
        /\ argv = r.left
        /\ config_file = LastOf(r.sets, "config_file")
        /\ menu_file = LastOf(r.sets, "menu_file")
        /\ show_version <=> Times(r.sets, "version") > 0
        /\ verbose = Times(r.sets, "verbose")
        /\ status \in {"error", "help"} => status = r.end
        /\ status \in {"parsed", "run", "exit"} => r.end = "parsed"
        /\ status = "run" => menu_file # Null /\ ~ show_version
        /\ status = "exit" => menu_file = Null \/ show_version

(* Every command line is read to its end, or to an error.                  *)
ParsingEnds == <>(status # "parsing")
-----------------------------------------------------------------------------
(* The types, for the proofs. *)
Place == [word : Nat, from : Nat]

OptionsTypeOK ==
  /\ line \in Seq(Word) /\ posix \in BOOLEAN
  /\ argv \in Seq(1 .. Len(line))
  /\ offset \in Nat
  /\ config_file \in Place /\ menu_file \in Place
  /\ show_version \in BOOLEAN /\ verbose \in Nat
  /\ log_importance \in 1 .. 3
  /\ status \in {"parsing", "parsed", "error", "help", "run", "running", "exit"}
=============================================================================

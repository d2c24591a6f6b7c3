----------------------------- MODULE MCProgram -----------------------------
(***************************************************************************)
(* Program with all command lines of up to three of a dozen words, and a   *)
(* menu file with a submenu that two items lead to.                        *)
(***************************************************************************)
EXTENDS Program

W(kind, name, value, letters) ==
  [kind |-> kind, name |-> name, value |-> value, letters |-> letters]
Bundle(letters) == W("short", "", FALSE, letters)

(* a  --  --menu-file  --menu-file=a  --config-file  --verbose=a  --help   *)
(* --zoom  -  -V  -m  -Vm  -mV  -cm  -Vh  -vx                              *)
MCWords ==
  {W("plain", "", FALSE, << >>), W("terminator", "", FALSE, << >>),
   W("long", "menu-file", FALSE, << >>), W("long", "menu-file", TRUE, << >>),
   W("long", "config-file", FALSE, << >>), W("long", "verbose", TRUE, << >>),
   W("long", "help", FALSE, << >>), W("long", "zoom", FALSE, << >>),
   Bundle(<< >>), Bundle(<< "V" >>), Bundle(<< "m" >>), Bundle(<< "V", "m" >>),
   Bundle(<< "m", "V" >>), Bundle(<< "c", "m" >>), Bundle(<< "V", "h" >>),
   Bundle(<< "v", "x" >>)}

(* The table of main.c is one that can be registered. *)
ASSUME MCTableAssumption == opt_register_table

MCLines == UNION {[1 .. n -> MCWords] : n \in 0 .. 3}

Item(name, submenu) ==
  [icon |-> name, label |-> TRUE, selectable |-> TRUE, submenu |-> submenu]
Separator ==
  [icon |-> "png", label |-> FALSE, selectable |-> FALSE, submenu |-> 0]

(* Menu 1 with two submenus that share a third; menu 5, with a path of     *)
(* three bytes in its submenu; and menu 7, with a submenu that is empty.   *)
MCEntries ==
  << << Item("known", 2), Separator, Item("none", 3) >>,
     << Item("unknown", 4) >>,
     << Item("other", 4), Item("svg", 0) >>,
     << Item("", 0) >>,
     << Item("known", 6) >>,
     << Item("short", 0) >>,
     << Item("broken", 8) >>,
     << >> >>

MCTheme ==
  [n \in {"known", "broken", "unknown", "", "folder"} |->
     CASE n = "known" -> "svg" [] n = "folder" -> "png" [] n = "broken" -> "invalid"
       [] OTHER -> "none"]

MCConfSizes == {-1}

(* Everything is there, or neither the cursor nor a keymap. *)
MCSystems == {Provisions, {}}
=============================================================================

------------------------------- MODULE MCMenu -------------------------------
(***************************************************************************)
(* Menus for TLC.                                                          *)
(***************************************************************************)
EXTENDS Menu

item(cmd)  == [selectable |-> TRUE,  submenu |-> 0, command |-> cmd]
sep        == [selectable |-> FALSE, submenu |-> 0, command |-> FALSE]
sub(m)     == [selectable |-> TRUE,  submenu |-> m, command |-> FALSE]

(* Nested <menu> elements: the vector is in the order of their start tags. *)
(* One menu holds a separator only, and one nothing.                       *)
InlineMenus == << << item(TRUE), sub(2), sep, sub(4) >>,
                  << sub(3), sub(5) >>,
                  << item(FALSE), sep >>,
                  << sep >>,
                  << >> >>

(* <menu id=...> references to earlier menus: the root menu comes last.    *)
ReferencedMenus == << << item(TRUE), sep, item(TRUE) >>,
                      << item(FALSE), sub(1) >>,
                      << item(TRUE) >>,
                      << item(TRUE), sub(2), sub(3) >> >>

(* The position over the items S (of different menus), inside their menus. *)
Over(S) ==
  [item   |-> [m \in Menus |-> IF \E i \in S : i[1] = m
                                 THEN (CHOOSE i \in S : i[1] = m)[2] ELSE 0],
   inside |-> {i[1] : i \in S}]

(* Outside of all menus; the edge of each menu, where it has no item; each *)
(* item.                                                                   *)
SimplePositions ==
  {Over({})} \union {[Over({}) EXCEPT !.inside = {m}] : m \in Menus}
    \union {Over({i}) : i \in Items}

(* On a screen that is too small for the menus two of them overlap: here   *)
(* the first submenu and its submenu lie over the root menu.               *)
OverlappingPositions ==
  (SimplePositions \ {[Over({}) EXCEPT !.inside = {m}] : m \in Menus \ {Root}})
    \union
    {Over({<< 1, 1 >>, << 2, 1 >>}), Over({<< 1, 2 >>, << 3, 1 >>}),
     Over({<< 1, 4 >>, << 2, 2 >>}), Over({<< 1, 4 >>, << 2, 1 >>})}
=============================================================================

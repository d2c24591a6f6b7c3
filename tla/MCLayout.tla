------------------------------ MODULE MCLayout ------------------------------
(***************************************************************************)
(* A chain of five menus, deep enough for menus to come back over others;  *)
(* the third is the submenu of two items, and the last is empty.           *)
(***************************************************************************)
EXTENDS Layout

item   == [height |-> 30, submenu |-> NoMenu]
sep    == [height |-> 5, submenu |-> NoMenu]
sub(m) == [height |-> 30, submenu |-> m]

MCEntries == << << sub(2), sep, sub(3) >>,
                << item, sub(3) >>,
                << item, item, sub(4) >>,
                << sub(5), item >>,
                << >> >>

ASSUME MCEntriesAssumption == Deeper([m \in Menus |-> m])

(* One pixel around the width and the height at which the properties begin *)
(* to hold, and sizes well above.                                          *)
MCScreens == [width : {520, 521, 900}, height : {182, 183, 500}]

(* The columns and rows around those at which a menu changes sides.        *)
Columns == (0 .. 8) \union (165 .. 185) \union (340 .. 356) \union (515 .. 521)
             \union (720 .. 730) \union {899}
Rows == (0 .. 4) \union (60 .. 66) \union (88 .. 94) \union (118 .. 124)
          \union (150 .. 156) \union (181 .. 183) \union {407, 408, 409, 499}

MCPointers == [x : Columns, y : {0, 90, 183}] \union [x : {0, 175, 350, 521}, y : Rows]
=============================================================================

------------------------------ MODULE MenuFile ------------------------------
(***************************************************************************)
(* Reading the menu file (src/menu.c): xml_tree_walk visits the elements   *)
(* in document order, and its handlers build the vector of menus, until    *)
(* menu_init hands them over and menu_finish frees them.                   *)
(*                                                                         *)
(* The document is not part of the state: any element may come next that   *)
(* Openbox syntax allows, so that menus, references, separators and items  *)
(* come in menus or outside of them, and items contain properties only.    *)
(* The library has read the document before the walk begins.               *)
(*                                                                         *)
(* The vector moves when realloc says so.  A pointer to its element k is   *)
(* << b, k >>, where b counts the places the vector has been in; it        *)
(* dangles when b is not the present one.  Items do not move: <<m, k>> is  *)
(* the k-th entry of menu m, in document order.                            *)
(***************************************************************************)
EXTENDS Naturals, Sequences, FiniteSets

CONSTANTS
  Id,          \* the ids of menus
  RootId,      \* "root-menu"
  Chunk,       \* 16 in menu_create
  LabelFirst,  \* whether the label is the first property of each item
  MaxElements  \* bound: how many elements the document has

ASSUME FileAssumption ==
  /\ RootId \in Id
  /\ Chunk \in Nat \ {0}
  /\ LabelFirst \in BOOLEAN
  /\ MaxElements \in Nat

VARIABLES
  menus,         \* the vector, with the entries of each menu
  base,          \* the place where the vector is
  alloc_menus,
  current_menu,
  current_item,
  in_item,
  menu_level,
  stage,         \* "reading", "built" (by menu_init) or "finished"
  fate,          \* "alive", or how the process died
  elements,      \* document: how many elements have begun
  open,          \* document: the menus whose definitions are not closed yet
  labelled,      \* document: whether this item has had its label
  referenced,    \* history: the references, each an element and the menu it names
  looped         \* history: whether one was to a menu that was still open

vector == << menus, base, alloc_menus >>
program == << vector, current_menu, menu_level, current_item, in_item >>
level == << current_menu, menu_level >>
document == << elements, open, labelled >>
history == << referenced, looped >>
vars == << program, document, history, stage, fate >>
-----------------------------------------------------------------------------
NULL == << 0, 0 >>
Pointer == Nat \X Nat

(* made is the element that has made the entry, or 0 for those of          *)
(* menu_init; given are the elements whose properties it has been given.   *)
Entry == [selectable : BOOLEAN, submenu : Pointer, made : Nat, given : SUBSET Nat]

(* A list head points to itself when it is initialised: head is the place  *)
(* where that was.                                                         *)
Menu == [id : Id, parent : Pointer, head : Nat, entries : Seq(Entry)]

NewEntry(selectable, submenu, made) ==
  [selectable |-> selectable, submenu |-> submenu, made |-> made, given |-> {}]

(* Slip: the menu is its own parent. *)
NewMenuInside(id, parent, b) ==
  [id |-> id, parent |-> << b, Len(menus) + 1 >>, head |-> b, entries |-> << >>]

NewMenu(id, parent, b) ==
  [id |-> id, parent |-> parent, head |-> b, entries |-> << >>]

(* menu_create: where the vector is afterwards, and how long it may be.    *)
(* (Slips: it is extended for each menu; the test is off by one.)          *)
MovesEachTime == IF alloc_menus = 0 THEN {1} ELSE {base, base + 1}
GrownLate == IF Len(menus) <= alloc_menus THEN alloc_menus ELSE (alloc_menus + Chunk) * 2
Moves ==
  IF Len(menus) < alloc_menus THEN {base}
  ELSE IF alloc_menus = 0 THEN {1} ELSE {base, base + 1}
Grown == IF Len(menus) < alloc_menus THEN alloc_menus ELSE (alloc_menus + Chunk) * 2

Valid(p) == p[1] = base /\ p[2] \in 1 .. Len(menus)

(* The use of a pointer that is not valid ends the process, or worse.      *)
Dies(p) ==
  /\ ~ Valid(p)
  /\ fate' = IF p = NULL THEN "crashed" ELSE "undefined"
  /\ UNCHANGED << program, stage >>

(* item_create and separator_create insert into the list of current_menu.  *)
Create(e) ==
  \/ Dies(current_menu)
  \/ LET m == current_menu[2]
     IN  /\ Valid(current_menu)
         /\ menus' = [menus EXCEPT ![m].entries = Append(@, e)]
         /\ current_item' = << m, Len(menus[m].entries) + 1 >>
         /\ UNCHANGED << base, alloc_menus, level, in_item, stage, fate >>

(* get_menu_by_id *)
WithId(id) ==
  {k \in 1 .. Len(menus) : menus[k].id = id /\ \A j \in 1 .. k - 1 : menus[j].id # id}
-----------------------------------------------------------------------------
(* The elements. *)

Reading == stage = "reading" /\ fate = "alive"

(* An element begins; none does within an item. *)
Element ==
  /\ Reading /\ ~ in_item /\ elements < MaxElements
  /\ elements' = elements + 1

(* A definition: <menu> with id and label.  Within another one it also has *)
(* an item, which is inserted before the vector may move.                  *)
StartMenu(id) ==
  /\ Element
  /\ open' = Append(open, Len(menus) + 1)
  /\ UNCHANGED << labelled, history >>
  /\ \/ menu_level > 0 /\ Dies(current_menu)
     \/ \E b \in Moves :
          LET p   == << b, Len(menus) + 1 >>
              m   == current_menu[2]
              new == NewMenu(id, current_menu, b)
          IN  /\ \/ /\ menu_level = 0
                    /\ menus' = Append(menus, new)
                    /\ UNCHANGED current_item
                 \/ /\ menu_level > 0 /\ Valid(current_menu)
                    /\ menus' = Append([menus EXCEPT ![m].entries =
                                  Append(@, NewEntry(TRUE, p, elements'))], new)
                    /\ current_item' = << m, Len(menus[m].entries) + 1 >>
              /\ current_menu' = p /\ menu_level' = menu_level + 1
              /\ base' = b /\ alloc_menus' = Grown
              /\ UNCHANGED << in_item, stage, fate >>

EndMenu ==
  /\ Reading /\ ~ in_item /\ open # << >>
  /\ open' = SubSeq(open, 1, Len(open) - 1)
  /\ UNCHANGED << elements, labelled, history >>
  /\ \/ Dies(current_menu)
     \/ /\ Valid(current_menu)
        /\ current_menu' = menus[current_menu[2]].parent
        /\ menu_level' = menu_level - 1
        /\ UNCHANGED << vector, current_item, in_item, stage, fate >>

(* <menu> with an id only.  (With `execute' it is skipped.)                *)
Reference(id) ==
  /\ Element
  /\ UNCHANGED << open, labelled >>
  /\ \/ WithId(id) = {} /\ UNCHANGED << program, history, stage, fate >>
     \/ \E k \in WithId(id) :
          /\ Create(NewEntry(TRUE, << base, k >>, elements'))
          /\ referenced' = referenced \union {<< elements', k >>}
          /\ looped' = (looped \/ \E i \in 1 .. Len(open) : open[i] = k)

handle_separator_element ==
  /\ Element
  /\ Create(NewEntry(FALSE, NULL, elements'))
  /\ UNCHANGED << open, labelled, history >>

(* current_item is left as it is. *)
StartItem ==
  /\ Element
  /\ labelled' = FALSE /\ in_item' = TRUE
  /\ UNCHANGED << vector, level, current_item, open, history, stage, fate >>

EndItem ==
  /\ Reading /\ in_item
  /\ in_item' = FALSE
  /\ UNCHANGED << vector, level, current_item, document, history, stage, fate >>
-----------------------------------------------------------------------------
(* fill_item: the properties of an item, of which it knows the names only  *)
(* if the item is in a menu.  (Slip: the new item is not remembered.)      *)
label_keeps_item ==
  /\ Reading /\ in_item /\ ~ labelled
  /\ labelled' = TRUE
  /\ UNCHANGED << elements, open, history, current_item >>
  /\ UNCHANGED << base, alloc_menus, level, in_item, stage, fate >>
  /\ IF open = << >> \/ ~ Valid(current_menu)
       THEN UNCHANGED menus
       ELSE menus' = [menus EXCEPT ![current_menu[2]].entries =
                        Append(@, NewEntry(TRUE, NULL, elements))]

Label ==
  /\ Reading /\ in_item /\ ~ labelled
  /\ labelled' = TRUE
  /\ UNCHANGED << elements, open, history >>
  /\ \/ open = << >> /\ UNCHANGED << program, stage, fate >>
     \/ open # << >> /\ Create(NewEntry(TRUE, NULL, elements))

(* Icon, action or command. *)
Property ==
  /\ Reading /\ in_item /\ (LabelFirst => labelled)
  /\ IF open = << >> \/ current_item = NULL
       THEN UNCHANGED menus
       ELSE menus' = [menus EXCEPT ![current_item[1]].entries[current_item[2]].given
                        = @ \union {elements}]
  /\ UNCHANGED << base, alloc_menus, level, current_item, in_item, document,
                  history, stage, fate >>
-----------------------------------------------------------------------------
(* The end of the document. *)

(* The menus below menu k of the vector v. *)
Submenus(v, k) == {v[k].entries[i].submenu[2] : i \in 1 .. Len(v[k].entries)} \ {0}
Below(v, k) ==
  {d \in 1 .. Len(v) : \A S \in SUBSET (1 .. Len(v)) :
     (Submenus(v, k) \subseteq S /\ \A x \in S : Submenus(v, x) \subseteq S) => d \in S}

(* What post_processing, generate_pixmaps and configure, which recur into  *)
(* every submenu, make of menu k when the vector v is at b.                *)
Recursion(v, k, b) ==
  LET ms == Below(v, k) \union {k}
  IN  IF \E m \in ms : \/ v[m].head # b
                       \/ \E i \in 1 .. Len(v[m].entries) :
                            v[m].entries[i].submenu[1] \notin {0, b}
        THEN "undefined"
      ELSE IF \E m \in ms : m \in Below(v, m) THEN "exhausted"
      ELSE "alive"

(* Slip: only for a menu that the file does not have. *)
FilledNever(v, k, b) == v

(* The two items of a root menu that the file leaves empty. *)
Filled(v, k, b) ==
  IF v[k].entries = << >> /\ v[k].head = b
    THEN [v EXCEPT ![k].entries =
            << NewEntry(TRUE, NULL, 0), NewEntry(TRUE, NULL, 0) >>]
    ELSE v

menu_init ==
  /\ Reading /\ ~ in_item /\ open = << >>
  /\ stage' = "built"
  /\ UNCHANGED << level, in_item, document, history >>
  /\ \/ \E k \in WithId(RootId) :
          /\ menus' = Filled(menus, k, base)
          /\ fate' = Recursion(menus', k, base)
          /\ current_item' = IF menus' = menus THEN current_item ELSE << k, 2 >>
          /\ UNCHANGED << base, alloc_menus >>
     \/ /\ WithId(RootId) = {}
        /\ LET k == Len(menus) + 1
           IN  \E b \in Moves :
                 /\ menus' = Filled(Append(menus, NewMenu(RootId, current_menu, b)), k, b)
                 /\ fate' = Recursion(menus', k, b)
                 /\ current_item' = << k, 2 >>
                 /\ base' = b
        /\ alloc_menus' = Grown

(* Every list is walked again. *)
menu_finish ==
  /\ stage = "built" /\ fate = "alive"
  /\ stage' = "finished"
  /\ \/ /\ \E m \in 1 .. Len(menus) : menus[m].head # base
        /\ fate' = "undefined"
        /\ UNCHANGED << menus, alloc_menus >>
     \/ /\ \A m \in 1 .. Len(menus) : menus[m].head = base
        /\ menus' = << >> /\ alloc_menus' = 0
        /\ UNCHANGED fate
  /\ UNCHANGED << base, level, current_item, in_item, document, history >>
-----------------------------------------------------------------------------
Init ==
  /\ menus = << >> /\ base = 0 /\ alloc_menus = 0
  /\ current_menu = NULL /\ current_item = NULL
  /\ in_item = FALSE /\ menu_level = 0
  /\ stage = "reading" /\ fate = "alive"
  /\ elements = 0 /\ open = << >> /\ labelled = FALSE
  /\ referenced = {} /\ looped = FALSE

Next ==
  \/ \E id \in Id : StartMenu(id) \/ Reference(id)
  \/ EndMenu
  \/ handle_separator_element
  \/ StartItem \/ Label \/ Property \/ EndItem
  \/ menu_init \/ menu_finish

Spec == Init /\ [][Next]_vars
-----------------------------------------------------------------------------
(* The state has its type, and the vector is not overrun.                  *)
TypeOK ==
  /\ menus \in Seq(Menu)
  /\ Len(menus) <= alloc_menus
  /\ base \in Nat /\ alloc_menus \in Nat /\ menu_level \in Nat
  /\ current_menu \in Pointer /\ current_item \in Pointer
  /\ in_item \in BOOLEAN
  /\ stage \in {"reading", "built", "finished"}
  /\ fate \in {"alive", "crashed", "undefined", "exhausted"}
  /\ elements \in 0 .. MaxElements /\ labelled \in BOOLEAN
  /\ open \in Seq(Nat \ {0})
  /\ referenced \subseteq Nat \X Nat /\ looped \in BOOLEAN

(* The reader keeps no stack: the parent pointers lead from current_menu   *)
(* through the definitions that are still open in the document, whatever   *)
(* has come between, so that each entry goes into the menu it is in.       *)
NestingKept ==
  Reading =>
    /\ menu_level = Len(open)
    /\ current_menu[2] = IF open = << >> THEN 0 ELSE open[Len(open)]
    /\ \A i \in 1 .. Len(open) :
         menus[open[i]].parent[2] = IF i = 1 THEN 0 ELSE open[i - 1]

(* The reader dies only of elements outside of all menus, of more menus    *)
(* than the vector first has room for, and of menus that contain           *)
(* themselves, which takes a reference to a menu that is still open.       *)
DeathsExplained ==
  /\ fate = "crashed" => open = << >>
  /\ fate = "undefined" => Len(menus) > 2 * Chunk
  /\ fate = "exhausted" => looped

(* The entries of the menus, and those that open menu m. *)
Items == UNION {{<< m, k >> : k \in 1 .. Len(menus[m].entries)} : m \in 1 .. Len(menus)}
Openers(m) == {i \in Items : menus[i[1]].entries[i[2]].submenu[2] = m}

MadeBy(i) == menus[i[1]].entries[i[2]].made

(* What the menus are when they are shown.  There is a root menu, and it   *)
(* is not empty.  Items that open menus can be selected.  No menu is below *)
(* itself, unless a reference was to a menu that was still open.  A menu   *)
(* is opened by one item of the menu it is defined in, if it is defined in *)
(* one, by one item for each reference to it, and by nothing else.         *)
Delivered ==
  stage = "built" /\ fate = "alive" =>
    /\ \E k \in WithId(RootId) : menus[k].entries # << >>
    /\ \A i \in Items :
         LET e == menus[i[1]].entries[i[2]]
         IN  e.submenu # NULL => e.selectable /\ e.submenu[2] \in 1 .. Len(menus)
    /\ looped \/ \A m \in 1 .. Len(menus) : m \notin Below(menus, m)
    /\ \A m \in 1 .. Len(menus) :
         LET parent == menus[m].parent[2]
             own    == {i \in Openers(m) : << MadeBy(i), m >> \notin referenced}
         IN  IF parent = 0 THEN own = {} ELSE \E i \in own : own = {i} /\ i[1] = parent
    /\ \A r \in referenced :
         \E i \in Openers(r[2]) : {j \in Openers(r[2]) : MadeBy(j) = r[1]} = {i}

(* The properties of an item are those of the element that has made it.    *)
OwnProperties ==
  \A m \in 1 .. Len(menus) : \A k \in 1 .. Len(menus[m].entries) :
    menus[m].entries[k].given \subseteq {menus[m].entries[k].made}

(* The item of a submenu points to it (the comment in                      *)
(* handle_menu_element).                                                   *)
SubmenusValid ==
  fate = "alive" =>
    \A m \in 1 .. Len(menus) : \A k \in 1 .. Len(menus[m].entries) :
      LET s == menus[m].entries[k].submenu IN s # NULL => Valid(s)
=============================================================================

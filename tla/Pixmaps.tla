------------------------------ MODULE Pixmaps ------------------------------
(***************************************************************************)
(* The icons and pixmaps of the menu (icon.c, pixmap.c, and the loops of   *)
(* menu_init and menu_finish over all items): post_processing looks up the *)
(* icons, generate_pixmaps draws each item twice, highlighted and not.     *)
(*                                                                         *)
(* Both recur into submenus, and a submenu that several items refer to is  *)
(* visited for each of them.  The recursion is unrolled: todo holds the    *)
(* items that the loops have still to visit.                               *)
(***************************************************************************)
EXTENDS Integers, Sequences, FiniteSets

CONSTANTS
  Entries,  \* the items of each menu, in the order of its list; an item has
            \* an icon, perhaps a label, and the number of its submenu, or 0
  Roots,    \* the root menus of the menu files that may be read
  Theme     \* what the icon theme has for each name: a file, None, or
            \* Invalid (SFDO_ICON_FILE_INVALID)

VARIABLES
  root,       \* the root menu
  icon,       \* item->icon: a name, a file, or None
  pixmaps,    \* the items that have their two pixmaps
  painted,    \* the items whose pixmaps show an icon
  surfaces,   \* how many pixmaps have been created and not destroyed
  todo,
  visited,    \* history: the items that the present loop has visited
  work,       \* "idle", "icons", "pixmaps", "done" or "freed"
  icon_size,  \* conf->icon.size
  fate        \* "alive", or "crashed"

pixmapVars ==
  << root, icon, pixmaps, painted, surfaces, todo, visited, work, icon_size,
     fate >>
-----------------------------------------------------------------------------
None == "none"
Invalid == "invalid"
Default == "folder"

(* Files are absolute paths: "short" is one of less than four bytes, and   *)
(* "other" one that is neither PNG nor SVG, or that cannot be read.        *)
Files == {"png", "svg", "other", "short"}
Names == DOMAIN Theme

Items == UNION {{<< m, k >> : k \in DOMAIN Entries[m]} : m \in DOMAIN Entries}
Entry(i) == Entries[i[1]][i[2]]

ASSUME PixmapsAssumption ==
  /\ Roots \subseteq DOMAIN Entries
  /\ DOMAIN Entries \subseteq Nat \ {0}
  /\ Default \in Names
  /\ Names \intersect (Files \union {None}) = {}
  /\ \A n \in Names : Theme[n] \in Files \union {None, Invalid}
  /\ \A m \in DOMAIN Entries :
       Entries[m] \in Seq([icon : Names \union Files \union {None}, label : BOOLEAN,
                           selectable : BOOLEAN, submenu : DOMAIN Entries \union {0}])

(* The items a loop over menu m visits; there is no menu 0. *)
List(m) == IF m = 0 THEN << >> ELSE [k \in DOMAIN Entries[m] |-> << m, k >>]

(* The file for a name, or that for the default name if there is none.     *)
(* What is invalid gives nothing, and the default is not tried for it.     *)
FileOf(found) == IF found = Invalid THEN None ELSE found
icon_strdup_path(name) ==
  FileOf(IF Theme[name] = None THEN Theme[Default] ELSE Theme[name])
-----------------------------------------------------------------------------
(* The visit to one item by post_processing: names are replaced, so that a *)
(* second visit finds a file, or nothing.                                  *)
(* (Slip: the loop does not recur.)                                        *)
ResolveHere(i) ==
  /\ icon' = IF icon[i] \in Names
               THEN [icon EXCEPT ![i] = icon_strdup_path(@)] ELSE icon
  /\ todo' = Tail(todo)
  /\ UNCHANGED << pixmaps, painted, surfaces, fate >>

post_processing(i) ==
  /\ icon' = IF icon[i] \in Names
               THEN [icon EXCEPT ![i] = icon_strdup_path(@)] ELSE icon
  /\ todo' = List(Entry(i).submenu) \o Tail(todo)
  /\ UNCHANGED << pixmaps, painted, surfaces, fate >>

(* pixmap_create, for the two pixmaps of item i: earlier ones are          *)
(* destroyed.  (Slip: they are not.)                                       *)
CreateAnew(i) == surfaces' = surfaces + 2 /\ pixmaps' = pixmaps \union {i}
pixmap_create(i) ==
  /\ surfaces' = surfaces + (IF i \in pixmaps THEN 0 ELSE 2)
  /\ pixmaps' = pixmaps \union {i}

(* render_menu_entry draws an icon only next to a label, and looks at the  *)
(* last four bytes of its name, however long it is.  add_svg and add_png   *)
(* scale it to icon_size; if that is negative there is no image for an     *)
(* SVG to be rendered on, but a PNG is still drawn, mirrored.              *)
HasIcon(i) == Entry(i).selectable /\ Entry(i).label /\ icon[i] # None
Drawable(file) ==
  \/ file = "svg" /\ icon_size > 0
  \/ file = "png" /\ icon_size # 0

(* Slip: that an item may be without an icon is not looked at.             *)
DrawUnchecked(i) ==
  /\ pixmap_create(i)
  /\ todo' = List(Entry(i).submenu) \o Tail(todo)
  /\ painted' = IF HasIcon(i) /\ Drawable(icon[i])
                  THEN painted \union {i} ELSE painted \ {i}
  /\ fate' = IF Entry(i).selectable /\ Entry(i).label /\ icon[i] \in {"short", None}
               THEN "crashed" ELSE fate
  /\ UNCHANGED icon

generate_pixmaps(i) ==
  /\ pixmap_create(i)
  /\ todo' = List(Entry(i).submenu) \o Tail(todo)
  /\ painted' = IF HasIcon(i) /\ Drawable(icon[i])
                  THEN painted \union {i} ELSE painted \ {i}
  /\ fate' = IF HasIcon(i) /\ icon[i] = "short" THEN "crashed" ELSE fate
  /\ UNCHANGED icon

Visit ==
  /\ todo # << >>
  /\ \/ work = "icons" /\ post_processing(Head(todo))
     \/ work = "pixmaps" /\ generate_pixmaps(Head(todo))
  /\ visited' = visited \union {Head(todo)}
  /\ UNCHANGED << root, work, icon_size >>

(* The next of the two calls in menu_init. *)
Advance ==
  /\ todo = << >>
  /\ \/ work = "icons" /\ work' = "pixmaps" /\ todo' = List(root)
     \/ work = "pixmaps" /\ work' = "done" /\ todo' = todo
  /\ visited' = {}
  /\ UNCHANGED << root, icon, pixmaps, painted, surfaces, icon_size, fate >>

(* menu_finish destroys the pixmaps of all items of the vector, those that *)
(* have none included.                                                     *)
FreePixmaps ==
  /\ work' = "freed"
  /\ surfaces' = surfaces - 2 * Cardinality(pixmaps)
  /\ pixmaps' = {} /\ painted' = {}
  /\ UNCHANGED << root, icon, todo, visited, icon_size, fate >>

PixmapsInit ==
  /\ root \in Roots
  /\ icon = [i \in Items |-> Entry(i).icon]
  /\ pixmaps = {} /\ painted = {} /\ surfaces = 0
  /\ todo = << >> /\ visited = {} /\ work = "idle"
  /\ icon_size = 0 /\ fate = "alive"
-----------------------------------------------------------------------------
(* The menus that are a root menu or below it, and the items in them.      *)
Closed(M) == \A i \in Items : i[1] \in M => Entry(i).submenu \in M \union {0}

Under ==
  [r \in Roots |-> {m \in DOMAIN Entries :
                      \A M \in SUBSET DOMAIN Entries : r \in M /\ Closed(M) => m \in M}]

Reachable == {i \in Items : i[1] \in Under[root]}

(* Every pixmap that has been created and not been destroyed belongs to an *)
(* item, which knows two: none is lost when a shared submenu is drawn      *)
(* again, and none is left, or destroyed twice, at the end.                *)
SurfacesAccounted ==
  /\ surfaces = 2 * Cardinality(pixmaps)
  /\ work = "done" => pixmaps = Reachable
  /\ work = "freed" => surfaces = 0

(* The file that is to be shown for item i, or None. *)
IconFile(i) ==
  IF Entry(i).icon \in Names THEN icon_strdup_path(Entry(i).icon) ELSE Entry(i).icon

(* When the menu has been drawn, each item with a label shows the icon     *)
(* that the file names, if the theme or the path leads to a PNG or SVG     *)
(* file: however deep it is in the tree, and however often it has been     *)
(* visited.                                                                *)
IconsShown ==
  work = "done" =>
    \A i \in Reachable :
      i \in painted <=>
        Entry(i).selectable /\ Entry(i).label /\ Drawable(IconFile(i))
=============================================================================

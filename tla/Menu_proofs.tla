---------------------------- MODULE Menu_proofs ----------------------------
(***************************************************************************)
(* Proofs about Menu, for every set of menus and every layout.             *)
(***************************************************************************)
EXTENDS Menu, Extrema, FiniteSetTheorems, SequenceTheorems, TLAPS

(* The history of the keys plays no part in what is used here. *)
SearchProofs == INSTANCE Search_proofs WITH key <- << >>

(* Facts about the constants. *)

LEMMA ItemFacts ==
  ASSUME NEW i \in Items
  PROVE  /\ i[1] \in Menus
         /\ i[2] \in 1 .. Len(Entries[i[1]])
         /\ i = << i[1], i[2] >>
         /\ At(i) \in Entry
         /\ At(i).submenu # 0 => At(i).submenu \in Menus /\ At(i).selectable
<1>1. PICK m \in Menus : \E n \in 1 .. Len(Entries[m]) : i = << m, n >>
  BY DEF Items
<1>2. PICK k \in 1 .. Len(Entries[m]) : i = << m, k >>
  BY <1>1
<1>3. Entries[m] \in Seq(Entry)
  BY MenuAssumption
<1>4. At(i) \in Entry
  BY <1>2, <1>3 DEF At
<1>5. At(i).submenu # 0 => At(i).submenu \in Menus /\ At(i).selectable
  <2>1. At(i).submenu \in 0 .. NMenus
    BY <1>4 DEF Entry
  <2>2. At(i).submenu # 0 => At(i).selectable
    BY <1>2, MenuAssumption DEF At
  <2>3. QED
    BY <2>1, <2>2, MenuAssumption DEF Menus
<1>6. QED
  BY <1>2, <1>4, <1>5

LEMMA MakeItem ==
  ASSUME NEW m \in Menus, NEW k \in 1 .. Len(Entries[m])
  PROVE  << m, k >> \in Items
BY DEF Items

(* A null item is not an item, nor is a list head. *)
LEMMA NoItemFacts == NoItem \notin Items /\ \A m \in Menus : ListHead(m) \notin Items
<1>1. ASSUME NEW m, << m, 0 >> \in Items PROVE FALSE
  BY <1>1, ItemFacts
<1>2. QED
  BY <1>1 DEF NoItem, ListHead

LEMMA ChildFacts ==
  ASSUME NEW i \in Items, At(i).submenu # 0
  PROVE  At(i).submenu \in Children(i[1])
BY ItemFacts DEF Children, At

LEMMA OpenerOfChild ==
  ASSUME NEW m \in Menus, NEW c \in Children(m)
  PROVE  /\ \E i \in Items : i[1] = m /\ At(i).submenu = c
         /\ c \in Menus /\ c # 0
<1>1. PICK k \in 1 .. Len(Entries[m]) : c = Entries[m][k].submenu /\ c # 0
  BY DEF Children
<1>2. << m, k >> \in Items /\ At(<< m, k >>).submenu = c
  BY <1>1, MakeItem DEF At
<1>3. c \in Menus
  BY <1>1, <1>2, ItemFacts
<1>4. QED
  BY <1>1, <1>2, <1>3

(* Below[m] holds the children of m and those of its members. *)
LEMMA BelowFacts ==
  ASSUME NEW m \in Menus
  PROVE  /\ Below[m] \subseteq Menus
         /\ Children(m) \subseteq Below[m]
         /\ \A x \in Below[m] : Children(x) \subseteq Below[m]
<1>1. Below[m] = {d \in Menus : \A S \in SUBSET Menus :
        (Children(m) \subseteq S /\ \A x \in S : Children(x) \subseteq S) => d \in S}
  BY DEF Below
<1>2. \A x \in Menus : Children(x) \subseteq Menus
  BY OpenerOfChild
<1>3. Children(m) \subseteq Below[m]
  BY <1>1, <1>2
<1>4. ASSUME NEW x \in Below[m], NEW c \in Children(x) PROVE c \in Below[m]
  <2>1. x \in Menus
    BY <1>1
  <2>2. c \in Menus
    BY <1>2, <2>1
  <2>3. ASSUME NEW S \in SUBSET Menus, Children(m) \subseteq S,
               \A y \in S : Children(y) \subseteq S
        PROVE  c \in S
    BY <1>1, <1>4, <2>3
  <2>4. QED
    BY <1>1, <2>2, <2>3
<1>5. QED
  BY <1>1, <1>3, <1>4

(* Below[m] is the least such set. *)
LEMMA BelowLeast ==
  ASSUME NEW m \in Menus, NEW S \in SUBSET Menus, Children(m) \subseteq S,
         \A x \in S : Children(x) \subseteq S
  PROVE  Below[m] \subseteq S
BY DEF Below

(* A root menu that no item opens is below no menu. *)
LEMMA RootIsTop ==
  ASSUME Openers(Root) = {}, NEW m \in Menus
  PROVE  Root \notin Below[m] /\ Root \notin Children(m)
<1>1. \A x \in Menus : Root \notin Children(x)
  BY OpenerOfChild DEF Openers
<1>2. \A x \in Menus : Children(x) \subseteq Menus \ {Root}
  BY <1>1, OpenerOfChild
<1>3. Below[m] \subseteq Menus \ {Root}
  BY <1>2, BelowLeast
<1>4. QED
  BY <1>1, <1>3
-----------------------------------------------------------------------------
(* What the helpers return. *)

LEMMA FirstOfType ==
  ASSUME NEW m \in Menus
  PROVE  /\ FirstOf(m) \in Selection
         /\ Entries[m] # << >> => FirstOf(m) \in Items /\ FirstOf(m) = << m, 1 >>
<1>1. Entries[m] \in Seq(Entry)
  BY MenuAssumption
<1>2. Entries[m] # << >> => 1 \in 1 .. Len(Entries[m])
  BY <1>1
<1>3. QED
  BY <1>2, MakeItem DEF FirstOf, Selection

LEMMA FirstSelectableType ==
  ASSUME visible \subseteq Menus
  PROVE  /\ visible = {} => first_selectable_menuitem = NoItem
         /\ visible # {} =>
              \E m \in visible : first_selectable_menuitem = FirstOf(m)
<1> DEFINE least == CHOOSE m \in visible : \A n \in visible : m <= n
<1>1. visible \in SUBSET Nat
  BY MenuAssumption DEF Menus
<1>2. visible # {} => least \in visible
  BY <1>1, LeastExists
<1>3. QED
  BY <1>2 DEF first_selectable_menuitem

LEMMA KeySelectionType ==
  ASSUME visible \subseteq Menus, selection \in Selection
  PROVE  KeySelection \in Selection
BY FirstSelectableType, FirstOfType DEF KeySelection, Selection

LEMMA MovedType ==
  ASSUME NEW i \in Items, Selectables(i[1]) # {}, NEW dir \in {"Up", "Down"}
  PROVE  /\ Moved(i, dir) \in Items
         /\ Moved(i, dir)[1] = i[1]
         /\ At(Moved(i, dir)).selectable
<1> DEFINE S == Selectables(i[1])
           St(j) == Steps(i[1], dir, i[2], j)
           T == {St(j) : j \in S}
<1>1. i[1] \in Menus /\ i[2] \in 1 .. Len(Entries[i[1]]) /\ Len(Entries[i[1]]) \in Nat
  BY ItemFacts, MenuAssumption
<1>2. S \subseteq 1 .. Len(Entries[i[1]])
  BY DEF Selectables
<1>3. \A j \in S : St(j) \in Nat
  <2> SUFFICES ASSUME NEW j \in S PROVE Steps(i[1], dir, i[2], j) \in Nat
    OBVIOUS
  <2> DEFINE n == Len(Entries[i[1]]) + 1
             d == IF dir = "Down" THEN j + n - i[2] ELSE i[2] + n - j
  <2>1. n \in Nat /\ i[2] \in 1 .. n - 1 /\ j \in 1 .. n - 1
    BY <1>1, <1>2
  <2> HIDE DEF n
  <2>2. d \in Nat
    BY <2>1
  <2>3. Steps(i[1], dir, i[2], j) = IF d > n THEN d - n ELSE d
    BY DEF Steps, n
  <2> HIDE DEF d
  <2>4. QED
    BY <2>1, <2>2, <2>3
<1>4. T \in SUBSET Nat /\ T # {}
  BY <1>3
<1> HIDE DEF St
<1>5. PICK t \in T : \A u \in T : t <= u
  BY <1>4, LeastExists
<1>6. \E j \in S : \A k \in S : St(j) <= St(k)
  BY <1>5
<1> DEFINE j == CHOOSE j \in S : \A k \in S : St(j) <= St(k)
<1>7. j \in S
  BY <1>6
<1>8. Moved(i, dir) = << i[1], j >>
  BY DEF Moved, St
<1> HIDE DEF j
<1>9. QED
  BY <1>1, <1>2, <1>7, <1>8, MakeItem DEF At, Selectables

(* parent_of finds an item if there is one to find. *)
LEMMA ParentOfType ==
  ASSUME NEW i
  PROVE  LET child == IF i \in Items THEN i[1] ELSE 0
         IN  \/ parent_of(i) = i /\ \A j \in Items : At(j).submenu # child
             \/ parent_of(i) \in Items /\ At(parent_of(i)).submenu = child
<1> DEFINE child == IF i \in Items THEN i[1] ELSE 0
           found == {j \in Items : At(j).submenu = child}
           First(j) == \A n \in found :
                         \/ j[1] < n[1]
                         \/ j[1] = n[1] /\ j[2] >= n[2]
<1>1. CASE found = {}
  BY <1>1 DEF parent_of
<1>2. CASE found # {}
  <2> DEFINE M == {j[1] : j \in found}
  <2>1. \A j \in found : j[1] \in Nat
    BY ItemFacts, MenuAssumption DEF Menus
  <2>2. M \in SUBSET Nat /\ M # {}
    BY <1>2, <2>1
  <2>3. PICK m \in M : \A n \in M : m <= n
    BY <2>2, LeastExists
  <2> DEFINE K == {k \in 0 .. Len(Entries[m]) : << m, k >> \in found}
  <2>4. PICK a \in found : a[1] = m
    BY <2>3
  <2>5. m \in Menus /\ Len(Entries[m]) \in Nat
    BY <2>4, ItemFacts, MenuAssumption
  <2>6. \A j \in found : j[1] = m => j[2] \in K /\ j = << m, j[2] >>
    BY ItemFacts, <2>5
  <2>7. K \in SUBSET (0 .. Len(Entries[m])) /\ K # {}
    BY <2>4, <2>6
  <2> HIDE DEF K
  <2>8. PICK k \in K : \A n \in K : n <= k
    BY <2>5, <2>7, GreatestExists
  <2>9. << m, k >> \in found
    BY <2>8 DEF K
  <2>10. ASSUME NEW n \in found
         PROVE  m < n[1] \/ (m = n[1] /\ k >= n[2])
    <3>1. m <= n[1] /\ m \in Nat /\ n[1] \in Nat
      BY <2>1, <2>3, <2>2
    <3>2. CASE m = n[1]
      <4>1. n[2] \in K
        BY <2>6, <3>2
      <4>2. n[2] \in 0 .. Len(Entries[m]) /\ k \in 0 .. Len(Entries[m])
        BY <2>7, <4>1
      <4>3. QED
        BY <2>5, <2>8, <3>2, <4>1, <4>2
    <3>3. QED
      BY <3>1, <3>2
  <2>11. \E j \in found : First(j)
    BY <2>9, <2>10
  <2>12. (CHOOSE j \in found : First(j)) \in found
    BY <2>11
  <2>13. parent_of(i) = IF found = {} THEN i ELSE CHOOSE j \in found : First(j)
    BY DEF parent_of
  <2>14. QED
    BY <1>2, <2>12, <2>13
<1>3. QED
  BY <1>1, <1>2

LEMMA DepthType == \A m \in Menus : Depth[m] \in Nat
<1>1. IsFiniteSet(Menus)
  BY FS_Interval, MenuAssumption DEF Menus
<1>2. ASSUME NEW m \in Menus PROVE Depth[m] \in Nat
  <2>1. {a \in Menus : m \in Below[a]} \in SUBSET Menus
    OBVIOUS
  <2>2. Cardinality({a \in Menus : m \in Below[a]}) \in Nat
    BY <1>1, <2>1, FS_Subset, FS_CardinalityType
  <2>3. QED
    BY <2>2 DEF Depth
<1>3. QED
  BY <1>2

(* A motion closes menus, below menus it stops in, and selects nothing but *)
(* a selectable item of the uppermost menu it stops in.                    *)
LEMMA AfterMotionType ==
  ASSUME NEW vis \in SUBSET Menus, NEW sel, NEW p \in Positions
  PROVE  LET stops  == {m \in Entered(vis, p) : Breaks(vis, p, m)}
             closed == {m \in stops : Entries[m][p.item[m]].submenu = 0}
             after  == AfterMotion(vis, sel, p)
         IN  /\ after.visible = vis \ UNION {Below[m] : m \in closed}
             /\ stops = {} => after.selection = sel
             /\ stops # {} =>
                  /\ after.selection \in Items
                  /\ At(after.selection).selectable
                  /\ after.selection[1] \in stops
                  /\ \A n \in stops : Depth[after.selection[1]] <= Depth[n]
<1> DEFINE stops  == {m \in Entered(vis, p) : Breaks(vis, p, m)}
           closed == {m \in stops : Entries[m][p.item[m]].submenu = 0}
           after  == AfterMotion(vis, sel, p)
           top    == CHOOSE m \in stops : \A n \in stops : Depth[m] <= Depth[n]
<1>1. after = [visible   |-> vis \ UNION {Below[m] : m \in closed},
               selection |-> IF stops = {} THEN sel ELSE << top, p.item[top] >>]
  BY DEF AfterMotion
<1>2. stops \subseteq Menus
  BY BelowFacts, MenuAssumption DEF Entered
<1>3. CASE stops = {}
  BY <1>1, <1>3
<1>4. CASE stops # {}
  <2> DEFINE D == {Depth[m] : m \in stops}
  <2>1. D \in SUBSET Nat /\ D # {}
    BY <1>2, <1>4, DepthType
  <2>2. PICK d \in D : \A e \in D : d <= e
    BY <2>1, LeastExists
  <2>3. \E m \in stops : \A n \in stops : Depth[m] <= Depth[n]
    BY <2>2
  <2>4. top \in stops /\ \A n \in stops : Depth[top] <= Depth[n]
    BY <2>3
  <2>5. after.visible = vis \ UNION {Below[m] : m \in closed}
    BY <1>1
  <2>6. after.selection = IF stops = {} THEN sel ELSE << top, p.item[top] >>
    BY <1>1
  <2>7. after.selection = << top, p.item[top] >>
    BY <1>4, <2>6
  <2> HIDE DEF top, after, closed
  <2>8. p.item[top] # 0 /\ Entries[top][p.item[top]].selectable /\ top \in Menus
    BY <1>2, <2>4 DEF Breaks
  <2>9. p.item[top] \in 1 .. Len(Entries[top])
    BY <2>8, MenuAssumption
  <2>10. << top, p.item[top] >> \in Items
    BY <2>8, <2>9, MakeItem
  <2>11. /\ after.selection \in Items
         /\ At(after.selection).selectable
         /\ after.selection[1] = top
    BY <2>7, <2>8, <2>10 DEF At
  <2>12. QED
    BY <1>4, <2>4, <2>5, <2>11 DEF after, closed
<1>5. QED
  BY <1>3, <1>4
-----------------------------------------------------------------------------
(* What the steps do to the visible menus and to the selection. *)

(* The type of what menus and selection are, without the rest of the state *)
MenuType == visible \subseteq Menus /\ selection \in Selection

LEMMA AfterFrameType ==
  ASSUME MenuType, NEW motion \in BOOLEAN, NEW p \in Positions
  PROVE  /\ AfterFrame(motion, p).selection \in Items \union {selection}
         /\ AfterFrame(motion, p).visible \subseteq visible \union {Root}
         /\ \A x \in visible \ AfterFrame(motion, p).visible :
              \E m \in Menus : x \in Below[m]
         /\ motion /\ ~ has_run => \/ Root \in AfterFrame(motion, p).visible
                                   \/ \E m \in Menus : Root \in Below[m]
<1> DEFINE vis == IF has_run THEN visible ELSE visible \union {Root}
<1>1. CASE ~ motion
  BY <1>1 DEF AfterFrame
<1>2. CASE motion
  <2>1. vis \in SUBSET Menus
    BY MenuAssumption DEF MenuType
  <2>2. AfterFrame(motion, p) = AfterMotion(vis, selection, p)
    BY <1>2 DEF AfterFrame
  <2> HIDE DEF vis
  <2> DEFINE stops  == {m \in Entered(vis, p) : Breaks(vis, p, m)}
             closed == {m \in stops : Entries[m][p.item[m]].submenu = 0}
             after  == AfterMotion(vis, selection, p)
  <2>3. /\ after.visible = vis \ UNION {Below[m] : m \in closed}
        /\ stops = {} => after.selection = selection
        /\ stops # {} => after.selection \in Items
    BY <2>1, AfterMotionType
  <2>4. closed \subseteq Menus
    BY BelowFacts, MenuAssumption DEF Entered
  <2> HIDE DEF stops, closed, after
  <2>5. /\ after.visible \subseteq vis
        /\ \A x \in vis \ after.visible : \E m \in Menus : x \in Below[m]
    BY <2>3, <2>4
  <2>6. after.selection \in Items \union {selection}
    BY <2>3
  <2>7. AfterFrame(motion, p) = after
    BY <2>2 DEF after
  <2>8. QED
    BY <2>5, <2>6, <2>7 DEF vis
<1>3. QED
  BY <1>1, <1>2

(* Every step closes menus that are below others, opens one submenu, or    *)
(* shows the root.                                                         *)
LEMMA VisibleStep ==
  ASSUME MenuType, [Next]_vars
  PROVE  \/ /\ visible' \subseteq visible \union {Root}
            /\ \A x \in visible \ visible' : \E m \in Menus : x \in Below[m]
         \/ \E i \in Items : At(i).submenu # 0 /\ visible' = open_submenu(visible, i)
<1>1. CASE UNCHANGED vars
  BY <1>1 DEF vars
<1>2. ASSUME NEW key \in Keys, menu_handle_key(key)
      PROVE  \/ visible' = visible
             \/ \E m \in Menus : visible' = close_all_submenus(visible, m)
             \/ \E i \in Items : At(i).submenu # 0 /\ visible' = open_submenu(visible, i)
  <2>1. ASSUME NEW dir \in {"Up", "Down"}, MoveKey(dir)
        PROVE  \/ visible' = visible
               \/ \E m \in Menus : visible' = close_all_submenus(visible, m)
               \/ \E i \in Items : /\ At(i).submenu # 0
                                   /\ visible' = open_submenu(visible, i)
    <3> DEFINE i == KeySelection
               j == Moved(i, dir)
    <3>1. \/ visible' = visible
          \/ /\ i \in Items /\ Selectables(i[1]) # {}
             /\ visible' = IF At(j).submenu # 0
                             THEN open_submenu(visible, j)
                             ELSE close_all_submenus(visible, j[1])
      BY <2>1 DEF MoveKey, Dies
    <3>2. i \in Items /\ Selectables(i[1]) # {} => j \in Items /\ j[1] \in Menus
      BY MovedType, ItemFacts
    <3> HIDE DEF i, j
    <3>3. QED
      BY <3>1, <3>2
  <2>2. RightKey \/ LeftKey \/ ReturnKey \/ EscapeKey \/ TextKey => visible' = visible
    BY DEF RightKey, LeftKey, ReturnKey, EscapeKey, TextKey, Dies
  <2>3. QED
    BY <1>2, <2>1, <2>2 DEF menu_handle_key, Keys
<1>3. ASSUME NEW motion \in BOOLEAN, NEW p \in Positions, NEW button,
             handle_wl_pointer_frame(motion, p, button)
      PROVE  visible' = AfterFrame(motion, p).visible
  BY <1>3 DEF handle_wl_pointer_frame, menu_handle_cursor_motion
<1>4. ASSUME NEW motion \in BOOLEAN, NEW p \in Positions, ReleaseWild(motion, p)
      PROVE  visible' = visible
  BY <1>4 DEF ReleaseWild, Dies
<1>5. CASE timer_hover_clear
  <2>1. \/ visible' = visible
        \/ /\ selection \in Items /\ At(selection).submenu # 0
           /\ visible' = open_submenu(visible, selection)
    BY <1>5 DEF timer_hover_clear
  <2>2. QED
    BY <2>1
<1>6. FrameDone \/ LoopExit \/ ConnectionLost => visible' = visible
  BY DEF FrameDone, LoopExit, ConnectionLost
<1>7. CASE PointerFrame
  <2>1. \/ visible' = visible
        \/ \E motion \in BOOLEAN, p \in Positions :
             visible' = AfterFrame(motion, p).visible
    BY <1>3, <1>4, <1>7 DEF PointerFrame
  <2>2. QED
    BY <2>1, AfterFrameType
<1>8. CASE \E key \in Keys : menu_handle_key(key)
  BY <1>2, <1>8 DEF close_all_submenus
<1>9. QED
  BY <1>1, <1>5, <1>6, <1>7, <1>8 DEF Next, OtherSteps

(* What is selected after a step. *)
LEMMA SelectionStep ==
  ASSUME MenuType, [Next]_vars
  PROVE  \/ selection' \in Items
         \/ selection' \in {selection, KeySelection}
         \/ \E i \in Items : At(i).submenu # 0 /\ selection' = child_of(i)
<1>1. CASE UNCHANGED vars
  BY <1>1 DEF vars
<1>2. CASE \E key \in Keys : menu_handle_key(key)
  <2>1. ASSUME NEW dir \in {"Up", "Down"}, MoveKey(dir)
        PROVE  selection' = selection \/ selection' \in Items
    <3> DEFINE i == KeySelection
    <3>1. \/ selection' = selection
          \/ /\ i \in Items /\ Selectables(i[1]) # {}
             /\ selection' = Moved(i, dir)
      BY <2>1 DEF MoveKey, Dies, Select
    <3>2. i \in Items /\ Selectables(i[1]) # {} => Moved(i, dir) \in Items
      BY MovedType
    <3> HIDE DEF i
    <3>3. QED
      BY <3>1, <3>2
  <2>2. CASE RightKey
    BY <2>2 DEF RightKey, Dies, Select
  <2>3. CASE LeftKey
    <3>1. selection' = parent_of(KeySelection)
      BY <2>3 DEF LeftKey, Select
    <3>2. parent_of(KeySelection) = KeySelection \/ parent_of(KeySelection) \in Items
      BY ParentOfType
    <3>3. QED
      BY <3>1, <3>2
  <2>4. CASE ReturnKey \/ EscapeKey \/ TextKey
    BY <2>4 DEF ReturnKey, EscapeKey, TextKey, Dies, Select
  <2>5. QED
    BY <1>2, <2>1, <2>2, <2>3, <2>4 DEF menu_handle_key, Keys
<1>3. CASE PointerFrame
  <2>1. \/ selection' = selection
        \/ \E motion \in BOOLEAN, p \in Positions :
             selection' = AfterFrame(motion, p).selection
    BY <1>3 DEF PointerFrame, ReleaseWild, Dies, handle_wl_pointer_frame,
                menu_handle_cursor_motion
  <2>2. QED
    BY <2>1, AfterFrameType
<1>4. timer_hover_clear \/ FrameDone \/ LoopExit \/ ConnectionLost => selection' = selection
  BY DEF timer_hover_clear, FrameDone, LoopExit, ConnectionLost
<1>5. QED
  BY <1>1, <1>2, <1>3, <1>4 DEF Next, OtherSteps

LEMMA MenuTypeStep ==
  ASSUME MenuType, [Next]_vars
  PROVE  MenuType'
<1>1. visible' \subseteq Menus
  <2>1. \A i \in Items : At(i).submenu # 0 =>
          open_submenu(visible, i) \subseteq visible \union {At(i).submenu}
    BY DEF open_submenu, close_all_submenus
  <2>2. QED
    BY <2>1, VisibleStep, ItemFacts, MenuAssumption DEF MenuType
<1>2. selection' \in Selection
  <2>1. KeySelection \in Selection
    BY KeySelectionType DEF MenuType
  <2>2. \A i \in Items : At(i).submenu # 0 => child_of(i) \in Selection
    BY FirstOfType, ItemFacts DEF child_of
  <2>3. QED
    BY <2>1, <2>2, SelectionStep DEF MenuType, Selection
<1>3. QED
  BY <1>1, <1>2 DEF MenuType

(* The search buffer of the menu is that of Search: what is proved there   *)
(* holds here.                                                             *)
LEMMA QueryIsSearch ==
  /\ Query!TypeOK <=> SearchProofs!TypeOK
  /\ Query!search_remove_last_uft8_character
       <=> SearchProofs!search_remove_last_uft8_character
  /\ \A ch : Query!search_add_utf8_character(ch)
               <=> SearchProofs!search_add_utf8_character(ch)
<1>1. Query!TypeOK <=> SearchProofs!TypeOK
  BY DEF Query!TypeOK, SearchProofs!TypeOK
<1>2. Query!search_remove_last_uft8_character
        <=> SearchProofs!search_remove_last_uft8_character
  BY SMT DEF Query!search_remove_last_uft8_character,
             SearchProofs!search_remove_last_uft8_character,
             Query!utf8_nr_bytes_to_prev_character,
             SearchProofs!utf8_nr_bytes_to_prev_character,
             Query!len, SearchProofs!len, Query!Leads, SearchProofs!Leads,
             Query!IsContinuation, SearchProofs!IsContinuation
<1>3. ASSUME NEW ch
      PROVE  Query!search_add_utf8_character(ch)
               <=> SearchProofs!search_add_utf8_character(ch)
  BY SMT DEF Query!search_add_utf8_character,
             SearchProofs!search_add_utf8_character,
             Query!utf8_encode, SearchProofs!utf8_encode,
             Query!utf8_chsize, SearchProofs!utf8_chsize,
             Query!Shift, SearchProofs!Shift, Query!first, SearchProofs!first,
             Query!len, SearchProofs!len
<1>4. QED
  BY <1>1, <1>2, <1>3

LEMMA QueryStep ==
  ASSUME SearchProofs!Inv, [Next]_vars
  PROVE  SearchProofs!Inv'
<1>1. CASE data' = data
  BY <1>1, SMT DEF SearchProofs!Inv, SearchProofs!TypeOK, SearchProofs!InBounds,
                   SearchProofs!len
<1>2. CASE \/ Query!search_remove_last_uft8_character
           \/ \E ch \in Codepoint : Query!search_add_utf8_character(ch)
  <2>1. SearchProofs!Next
    BY <1>2, QueryIsSearch DEF SearchProofs!Next
  <2>2. Codepoint \subseteq SearchProofs!Unicode /\ BufSize \in Nat
    BY MenuAssumption, SMT DEF SearchProofs!Unicode
  <2>3. QED
    BY <2>1, <2>2, SearchProofs!NextInv
<1>3. ASSUME NEW key \in Keys, menu_handle_key(key)
      PROVE  data' = data \/ TextKey
  BY <1>3 DEF Keys, menu_handle_key, MoveKey, RightKey, LeftKey, ReturnKey,
              EscapeKey, Dies
<1>4. OtherSteps \/ UNCHANGED vars => data' = data
  BY DEF OtherSteps, PointerFrame, handle_wl_pointer_frame, ReleaseWild,
         timer_hover_clear, FrameDone, LoopExit, ConnectionLost, Dies, vars
<1>5. TextKey => data' = data \/ Query!search_remove_last_uft8_character
                 \/ \E ch \in Codepoint : Query!search_add_utf8_character(ch)
  BY DEF TextKey
<1>6. QED
  BY <1>1, <1>2, <1>3, <1>4, <1>5 DEF Next
-----------------------------------------------------------------------------
(* The types of the rest of the state. *)
RestType ==
  /\ hover_timer \in BOOLEAN
  /\ has_run \in BOOLEAN
  /\ pointer \in Positions
  /\ dirty \in BOOLEAN
  /\ run_display \in BOOLEAN
  /\ exited \in BOOLEAN
  /\ fate \in {"alive", "assert", "null", "undefined", "hang"}
  /\ launched \in Items \union {NoItem}

TypeInv == MenuType /\ RestType /\ SearchProofs!Inv

LEMMA RestTypeStep ==
  ASSUME RestType, [Next]_vars
  PROVE  RestType'
<1>1. CASE UNCHANGED vars
  BY <1>1 DEF vars, RestType
<1>2. ASSUME NEW how \in {"assert", "null", "undefined", "hang"}, Dies(how)
      PROVE  RestType'
  BY <1>2 DEF Dies, RestType
<1>3. ASSUME NEW i, i \in Items, spawn_async_no_shell(i)
      PROVE  launched' \in Items \union {NoItem}
  BY <1>3 DEF spawn_async_no_shell, RestType
<1>4. ASSUME NEW key \in Keys, menu_handle_key(key)
      PROVE  RestType'
  <2>1. ASSUME NEW dir \in {"Up", "Down"}, MoveKey(dir) PROVE RestType'
    BY <1>2, <2>1 DEF MoveKey, surface_damage, RestType
  <2>2. CASE RightKey
    BY <1>2, <2>2 DEF RightKey, surface_damage, RestType
  <2>3. CASE LeftKey
    BY <2>3 DEF LeftKey, surface_damage, RestType
  <2>4. CASE ReturnKey
    BY <1>2, <1>3, <2>4 DEF ReturnKey, surface_damage, RestType
  <2>5. CASE EscapeKey
    BY <2>5 DEF EscapeKey, surface_damage, RestType
  <2>6. CASE TextKey
    BY <2>6 DEF TextKey, surface_damage, RestType
  <2>7. QED
    BY <1>4, <2>1, <2>2, <2>3, <2>4, <2>5, <2>6 DEF menu_handle_key, Keys
<1>5. ASSUME NEW motion \in BOOLEAN, NEW p \in Positions, NEW button,
             handle_wl_pointer_frame(motion, p, button)
      PROVE  RestType'
  <2>1. menu_handle_cursor_motion(motion, p) /\ dirty' = TRUE
        /\ UNCHANGED << exited, fate >>
    BY <1>5 DEF handle_wl_pointer_frame, surface_damage
  <2>2. has_run' \in BOOLEAN /\ hover_timer' \in BOOLEAN /\ pointer' \in Positions
    BY <2>1 DEF menu_handle_cursor_motion, RestType
  <2>3. run_display' \in BOOLEAN /\ launched' \in Items \union {NoItem}
    <3>1. CASE UNCHANGED << run_display, launched >>
      BY <3>1 DEF RestType
    <3>2. CASE menu_handle_button_pressed(p)
      BY <3>2 DEF menu_handle_button_pressed, RestType
    <3>3. CASE /\ selection' = NoItem \/ selection' \in Items
               /\ menu_handle_button_released
      <4>1. CASE selection' = NoItem
        BY <3>1, <3>3, <4>1 DEF menu_handle_button_released
      <4>2. CASE selection' # NoItem
        <5>1. selection' \in Items /\ spawn_async_no_shell(selection')
              /\ run_display' = FALSE
          BY <3>3, <4>2 DEF menu_handle_button_released
        <5>2. QED
          BY <1>3, <5>1
      <4>3. QED
        BY <4>1, <4>2
    <3>4. QED
      BY <1>5, <3>1, <3>2, <3>3 DEF handle_wl_pointer_frame
  <2>4. QED
    BY <2>1, <2>2, <2>3 DEF RestType
<1>6. CASE PointerFrame
  BY <1>2, <1>5, <1>6 DEF PointerFrame, ReleaseWild
<1>7. CASE timer_hover_clear
  BY <1>7 DEF timer_hover_clear, surface_damage, RestType
<1>8. CASE FrameDone \/ LoopExit \/ ConnectionLost
  BY <1>8 DEF FrameDone, LoopExit, ConnectionLost, RestType
<1>9. QED
  BY <1>1, <1>4, <1>6, <1>7, <1>8 DEF Next, OtherSteps

LEMMA TypeInvInductive ==
  /\ Init => TypeInv
  /\ TypeInv /\ [Next]_vars => TypeInv'
<1>1. Init => TypeInv
  <2>1. Init => MenuType /\ RestType
    BY DEF Init, MenuType, RestType, Selection
  <2>2. Init => data = << >>
    BY DEF Init, Query!Init
  <2>3. data = << >> => SearchProofs!Inv
    BY SMT DEF SearchProofs!Inv, SearchProofs!TypeOK, SearchProofs!InBounds
  <2>4. QED
    BY <2>1, <2>2, <2>3 DEF TypeInv
<1>2. TypeInv /\ [Next]_vars => TypeInv'
  BY MenuTypeStep, RestTypeStep, QueryStep DEF TypeInv
<1>3. QED
  BY <1>1, <1>2

LEMMA TypeInvType == TypeInv => TypeOK
BY QueryIsSearch DEF TypeInv, TypeOK, MenuType, RestType, SearchProofs!Inv

(* The state of the menu keeps its type: the visible menus are menus, the  *)
(* selection is an item, NULL or the list head of an empty menu, and the   *)
(* search buffer holds bytes and never overruns its array.                 *)
THEOREM TypeCorrect == Spec => []TypeOK
<1>1. Spec => []TypeInv
  BY TypeInvInductive, PTL DEF Spec
<1>2. QED
  BY <1>1, TypeInvType, PTL
-----------------------------------------------------------------------------
(* Opening a submenu closes whatever else is open in its menu. *)
LEMMA OpenKeepsOne ==
  ASSUME IsTree, NEW vis \in SUBSET Menus,
         \A m \in Menus : \A c, d \in Children(m) \intersect vis : c = d,
         NEW i \in Items, At(i).submenu # 0
  PROVE  \A m \in Menus :
           \A c, d \in Children(m) \intersect open_submenu(vis, i) : c = d
<1> DEFINE s == At(i).submenu
           after == open_submenu(vis, i)
<1>1. after = (vis \ Below[i[1]]) \union {s}
  BY DEF open_submenu, close_all_submenus
<1>2. i[1] \in Menus
  BY ItemFacts
<1>3. ASSUME NEW m \in Menus, s \in Children(m) PROVE m = i[1]
  <2>1. PICK j \in Items : j[1] = m /\ At(j).submenu = s
    BY <1>3, OpenerOfChild
  <2>2. i = j
    BY <2>1 DEF IsTree
  <2>3. QED
    BY <2>1, <2>2
<1>4. ASSUME NEW m \in Menus, s \in Children(m),
             NEW d \in Children(m) \intersect after
      PROVE  d = s
  <2>1. d \in Below[i[1]]
    BY <1>2, <1>3, <1>4, BelowFacts
  <2>2. QED
    BY <1>1, <1>4, <2>1
<1> HIDE DEF s, after
<1>5. ASSUME NEW m \in Menus, NEW c \in Children(m) \intersect after,
             NEW d \in Children(m) \intersect after
      PROVE  c = d
  <2>1. CASE c = s \/ d = s
    BY <1>4, <2>1
  <2>2. CASE c # s /\ d # s
    BY <1>1, <2>2
  <2>3. QED
    BY <2>1, <2>2
<1>6. QED
  BY <1>5 DEF after

LEMMA OneOpenStep ==
  ASSUME IsTree, MenuType, OneOpenPerMenu, [Next]_vars
  PROVE  OneOpenPerMenu'
<1>1. CASE visible' \subseteq visible \union {Root}
  <2>1. \A m \in Menus : Children(m) \intersect visible' \subseteq
                         Children(m) \intersect visible
    BY <1>1, RootIsTop DEF IsTree
  <2>2. QED
    BY <2>1 DEF OneOpenPerMenu
<1>2. ASSUME NEW i \in Items, At(i).submenu # 0, visible' = open_submenu(visible, i)
      PROVE  OneOpenPerMenu'
  BY <1>2, OpenKeepsOne DEF MenuType, OneOpenPerMenu
<1>3. QED
  BY <1>1, <1>2, VisibleStep

(* If each menu is opened by one item at most, no menu shows two of its    *)
(* submenus at once, in any order of keys, motions and timeouts: every     *)
(* step that shows a menu closes what is below its parent first.           *)
THEOREM OneSubmenuAtATime ==
  ASSUME IsTree
  PROVE  Spec => []OneOpenPerMenu
<1> DEFINE IInv == TypeInv /\ OneOpenPerMenu
<1>1. Init => IInv
  BY TypeInvInductive DEF Init, OneOpenPerMenu
<1>2. IInv /\ [Next]_vars => IInv'
  BY TypeInvInductive, OneOpenStep DEF TypeInv
<1>3. QED
  BY <1>1, <1>2, PTL DEF Spec
-----------------------------------------------------------------------------
(* From the first motion on the root menu is shown: nothing opens it, so   *)
(* that nothing closes it.                                                 *)
RootShown == has_run => Root \in visible

LEMMA RootShownStep ==
  ASSUME Openers(Root) = {}, MenuType, RootShown, [Next]_vars
  PROVE  RootShown'
<1>1. has_run => Root \in visible'
  <2>1. \A m \in Menus : Root \notin Below[m]
    BY RootIsTop
  <2>2. \A i \in Items : Root \in visible => Root \in open_submenu(visible, i)
    BY <2>1, ItemFacts DEF open_submenu, close_all_submenus
  <2>3. QED
    BY <2>1, <2>2, VisibleStep DEF RootShown
<1>2. CASE has_run' = has_run
  BY <1>1, <1>2 DEF RootShown
<1>3. ASSUME NEW motion \in BOOLEAN, NEW p \in Positions, NEW button,
             handle_wl_pointer_frame(motion, p, button), ~ has_run
      PROVE  RootShown'
  <2>1. /\ visible' = AfterFrame(motion, p).visible
        /\ motion
    BY <1>3 DEF handle_wl_pointer_frame, menu_handle_cursor_motion
  <2>2. Root \in visible'
    BY <1>3, <2>1, AfterFrameType, RootIsTop
  <2>3. QED
    BY <2>2 DEF RootShown
<1>4. ASSUME NEW motion \in BOOLEAN, NEW p \in Positions, NEW button,
             handle_wl_pointer_frame(motion, p, button), has_run
      PROVE  RootShown'
  BY <1>1, <1>4 DEF RootShown
<1>5. ASSUME NEW key \in Keys, menu_handle_key(key)
      PROVE  has_run' = has_run
  BY <1>5 DEF Keys, menu_handle_key, MoveKey, RightKey, LeftKey, ReturnKey,
              EscapeKey, TextKey, Dies
<1>6. timer_hover_clear \/ FrameDone \/ LoopExit \/ ConnectionLost \/ UNCHANGED vars
        => has_run' = has_run
  BY DEF timer_hover_clear, FrameDone, LoopExit, ConnectionLost, vars
<1>7. CASE PointerFrame
  BY <1>2, <1>3, <1>4, <1>7 DEF PointerFrame, ReleaseWild, Dies
<1>8. QED
  BY <1>2, <1>5, <1>6, <1>7 DEF Next, OtherSteps

(* With a visible menu menu_handle_key always has something selected: an   *)
(* item, or the head of an empty menu.                                     *)
LEMMA KeySelectionShown ==
  ASSUME MenuType, visible # {}
  PROVE  /\ KeySelection # NoItem
         /\ KeySelection \notin Items =>
              \E m \in Menus : Entries[m] = << >> /\ KeySelection = ListHead(m)
<1>1. \A m \in Menus : FirstOf(m) # NoItem
  BY MenuAssumption DEF FirstOf, NoItem, ListHead, Menus
<1>2. KeySelection # NoItem
  BY <1>1, FirstSelectableType DEF KeySelection, MenuType
<1>3. KeySelection \in Selection
  BY KeySelectionType DEF MenuType
<1>4. QED
  BY <1>2, <1>3 DEF Selection

(* How a step can kill the process. *)
LEMMA FaultStep ==
  ASSUME MenuType, Next, fate' # "alive"
  PROVE  /\ UNCHANGED << has_run, visible, selection >>
         /\ \/ fate' = "null" /\ KeySelection = NoItem
            \/ fate' \in {"assert", "undefined"} /\ KeySelection \notin Items
            \/ /\ fate' = "hang" /\ KeySelection \in Items
               /\ Selectables(KeySelection[1]) = {}
<1>1. fate = "alive"
  BY DEF Next, Running
<1>2. ASSUME NEW key \in Keys, menu_handle_key(key)
      PROVE  /\ UNCHANGED << has_run, visible, selection >>
             /\ \/ fate' = "null" /\ KeySelection = NoItem
                \/ fate' \in {"assert", "undefined"} /\ KeySelection \notin Items
                \/ /\ fate' = "hang" /\ KeySelection \in Items
                   /\ Selectables(KeySelection[1]) = {}
  BY <1>1, <1>2 DEF Keys, menu_handle_key, MoveKey, RightKey, LeftKey,
                    ReturnKey, EscapeKey, TextKey, Dies
<1>3. selection \notin Items \union {NoItem} => KeySelection \notin Items
  BY DEF KeySelection
<1>4. ASSUME NEW motion \in BOOLEAN, NEW p \in Positions, ReleaseWild(motion, p)
      PROVE  /\ UNCHANGED << has_run, visible, selection >>
             /\ fate' = "undefined"
             /\ selection \notin Items \union {NoItem}
  BY <1>4, AfterFrameType DEF ReleaseWild, Dies
<1>5. CASE PointerFrame
  BY <1>1, <1>3, <1>4, <1>5 DEF PointerFrame, handle_wl_pointer_frame
<1>6. CASE timer_hover_clear
  BY <1>1, <1>3, <1>6 DEF timer_hover_clear
<1>7. CASE FrameDone \/ LoopExit \/ ConnectionLost
  BY <1>1, <1>7 DEF FrameDone, LoopExit, ConnectionLost
<1>8. QED
  BY <1>2, <1>5, <1>6, <1>7 DEF Next, OtherSteps

LEMMA FaultsStep ==
  ASSUME MenuType, RootShown, FaultsExplained, [Next]_vars
  PROVE  FaultsExplained'
<1>1. UNCHANGED << visible, selection >> => KeySelection' = KeySelection
  BY DEF KeySelection, first_selectable_menuitem
<1>2. CASE UNCHANGED vars
  BY <1>1, <1>2 DEF vars, FaultsExplained
<1>3. CASE Next /\ fate' = "alive"
  BY <1>3 DEF FaultsExplained
<1>4. CASE Next /\ fate' # "alive" /\ has_run
  <2>1. visible # {}
    BY <1>4 DEF RootShown
  <2>2. KeySelection' = KeySelection
    BY <1>1, <1>4, FaultStep
  <2>3. KeySelection \in Items => KeySelection[1] \in Menus
    BY ItemFacts
  <2>4. QED
    BY <1>4, <2>1, <2>2, <2>3, FaultStep, KeySelectionShown DEF FaultsExplained
<1>5. CASE Next /\ fate' # "alive" /\ ~ has_run
  BY <1>5, FaultStep DEF FaultsExplained
<1>6. QED
  BY <1>2, <1>3, <1>4, <1>5

(* Once the menu has been shown, no sequence of events makes the program   *)
(* dereference NULL, and only empty menus and menus of separators make it  *)
(* fail an assertion, use a list head as an item, or loop for ever; all of *)
(* this as long as no item opens the root menu.                            *)
THEOREM SafeOnceShown ==
  ASSUME Openers(Root) = {}
  PROVE  Spec => []FaultsExplained
<1> DEFINE IInv == TypeInv /\ RootShown /\ FaultsExplained
<1>1. Init => IInv
  BY TypeInvInductive DEF Init, RootShown, FaultsExplained
<1>2. IInv /\ [Next]_vars => IInv'
  BY TypeInvInductive, RootShownStep, FaultsStep DEF TypeInv
<1>3. QED
  BY <1>1, <1>2, PTL DEF Spec
-----------------------------------------------------------------------------
(* The menus below a menu that is below m are below m. *)
LEMMA BelowTransitive ==
  ASSUME NEW m \in Menus, NEW x \in Below[m]
  PROVE  Below[x] \subseteq Below[m]
<1>1. x \in Menus /\ Below[m] \in SUBSET Menus
  BY BelowFacts
<1>2. Children(x) \subseteq Below[m] /\ \A y \in Below[m] : Children(y) \subseteq Below[m]
  BY BelowFacts
<1>3. QED
  BY <1>1, <1>2, BelowLeast

(* A menu below m is opened by an item of m or of a menu below m.          *)
LEMMA BelowOpener ==
  ASSUME NEW m \in Menus, NEW d \in Below[m]
  PROVE  \E i \in Items : At(i).submenu = d /\ i[1] \in Below[m] \union {m}
<1> DEFINE S == {e \in Below[m] : \E i \in Items : /\ At(i).submenu = e
                                                   /\ i[1] \in Below[m] \union {m}}
<1>1. S \in SUBSET Menus /\ Below[m] \subseteq Menus
  BY BelowFacts
<1>2. ASSUME NEW x \in Below[m] \union {m} PROVE Children(x) \subseteq S
  BY <1>1, BelowFacts, OpenerOfChild
<1>3. Below[m] \subseteq S
  BY <1>1, <1>2, BelowLeast
<1>4. QED
  BY <1>3

(* What is above a menu is above all that is below it, and so is the menu. *)
LEMMA DepthGrows ==
  ASSUME IsTree, NEW m \in Menus, NEW d \in Below[m]
  PROVE  Depth[m] < Depth[d]
<1> DEFINE Above(x) == {a \in Menus : x \in Below[a]}
<1>1. IsFiniteSet(Menus)
  BY FS_Interval, MenuAssumption DEF Menus
<1>2. d \in Menus
  BY BelowFacts
<1>3. m \notin Above(m)
  BY DEF IsTree
<1>4. Above(m) \union {m} \subseteq Above(d)
  BY BelowTransitive
<1>5. IsFiniteSet(Above(m)) /\ IsFiniteSet(Above(d))
  BY <1>1, FS_Subset
<1>6. Depth[m] = Cardinality(Above(m)) /\ Depth[d] = Cardinality(Above(d))
  BY <1>2 DEF Depth
<1> HIDE DEF Above
<1>7. Cardinality(Above(m) \union {m}) = Cardinality(Above(m)) + 1
  BY <1>3, <1>5, FS_AddElement
<1>8. Cardinality(Above(m) \union {m}) <= Cardinality(Above(d))
  BY <1>4, <1>5, FS_Subset
<1>9. Cardinality(Above(m)) \in Nat /\ Cardinality(Above(d)) \in Nat
  BY <1>5, FS_CardinalityType
<1>10. QED
  BY <1>6, <1>7, <1>8, <1>9
-----------------------------------------------------------------------------
(* A set of menus that hangs together: all are under the root menu, and    *)
(* with each menu the one that opens it is there.                          *)
Hangs(vis) ==
  /\ vis \subseteq {Root} \union Below[Root]
  /\ \A i \in Items : At(i).submenu \in vis => i[1] \in vis

LEMMA HangsType ==
  ASSUME NEW vis, Hangs(vis)
  PROVE  vis \subseteq Menus
BY BelowFacts, MenuAssumption DEF Hangs

(* It still does when all that is below some of them goes. *)
LEMMA CloseHangs ==
  ASSUME NEW vis, Hangs(vis), NEW S \in SUBSET Menus
  PROVE  Hangs(vis \ UNION {Below[m] : m \in S})
<1> DEFINE gone == UNION {Below[m] : m \in S}
<1>1. ASSUME NEW i \in Items, At(i).submenu \in vis, At(i).submenu \notin gone
      PROVE  i[1] \in vis \ gone
  <2>1. i[1] \in vis /\ At(i).submenu # 0
    <3>1. vis \subseteq Menus
      BY HangsType
    <3>2. QED
      BY <1>1, <3>1, MenuAssumption DEF Hangs, Menus
  <2>2. ASSUME NEW m \in S, i[1] \in Below[m] PROVE FALSE
    BY <1>1, <2>1, <2>2, ChildFacts, BelowFacts
  <2>3. QED
    BY <2>1, <2>2
<1> HIDE DEF gone
<1>2. Hangs(vis \ gone)
  BY <1>1 DEF Hangs
<1>3. QED
  BY <1>2 DEF gone

LEMMA CloseAllHangs ==
  ASSUME NEW vis, Hangs(vis), NEW m \in Menus
  PROVE  Hangs(close_all_submenus(vis, m))
<1>1. vis \ UNION {Below[n] : n \in {m}} = close_all_submenus(vis, m)
  BY DEF close_all_submenus
<1>2. Hangs(vis \ UNION {Below[n] : n \in {m}})
  BY CloseHangs
<1>3. QED
  BY <1>1, <1>2

(* Opening the submenu of an item that is shown keeps it together.         *)
LEMMA OpenHangs ==
  ASSUME IsTree, NEW vis, Hangs(vis), NEW i \in Items, At(i).submenu # 0,
         i[1] \in vis
  PROVE  Hangs(open_submenu(vis, i)) /\ i[1] \in open_submenu(vis, i)
<1> DEFINE kept == close_all_submenus(vis, i[1])
           s == At(i).submenu
<1>1. i[1] \in Menus
  BY ItemFacts
<1>2. Hangs(kept)
  BY <1>1, CloseAllHangs
<1>3. i[1] \in kept
  BY <1>1 DEF close_all_submenus, IsTree
<1>4. s \in {Root} \union Below[Root]
  <2>1. s \in Children(i[1])
    BY ChildFacts
  <2>2. i[1] = Root \/ i[1] \in Below[Root]
    BY DEF Hangs
  <2>3. QED
    BY <2>1, <2>2, BelowFacts, MenuAssumption
<1>5. open_submenu(vis, i) = kept \union {s}
  BY DEF open_submenu
<1>6. ASSUME NEW j \in Items, At(j).submenu \in kept \union {s}
      PROVE  j[1] \in kept
  <2>1. CASE At(j).submenu = s
    <3>1. i = j
      BY <2>1 DEF IsTree
    <3>2. QED
      BY <3>1, <1>3
  <2>2. CASE At(j).submenu \in kept
    BY <2>2, <1>2 DEF Hangs
  <2>3. QED
    BY <1>6, <2>1, <2>2
<1> HIDE DEF kept, s
<1>7. QED
  BY <1>2, <1>3, <1>4, <1>5, <1>6 DEF Hangs
-----------------------------------------------------------------------------
(* A patient user. *)

(* What is true of the menus on the screen and of the selection.  Nothing  *)
(* is shown or selected before the first motion, and the root menu always  *)
(* is after it.                                                            *)
Untouched == ~ has_run => visible = {} /\ selection = NoItem
SelectedShown ==
  selection # NoItem => selection \in Items /\ selection[1] \in visible

CalmInv ==
  /\ MenuType
  /\ Untouched
  /\ RootShown
  /\ Hangs(visible)
  /\ SelectedShown

(* The selection is a selectable item, if there is one. *)
SelectionIsSelectable == selection # NoItem => At(selection).selectable

(* What a step can do to the screen.  Still: nothing; Appears: the root    *)
(* menu is shown; Goes: an item on the screen is selected, and what is     *)
(* below some menus may be closed, but not the menu it is in; Opens: the   *)
(* submenu of an item on the screen is opened.                             *)
Still == UNCHANGED << visible, selection >>
Appears ==
  /\ visible = {} /\ selection = NoItem
  /\ visible' = {Root}
  /\ \/ selection' = NoItem
     \/ selection' \in Items /\ selection'[1] = Root
Goes ==
  /\ selection' \in Items /\ selection'[1] \in visible'
  /\ \E S \in SUBSET Menus : visible' = visible \ UNION {Below[m] : m \in S}
Opens ==
  /\ selection' \in Items /\ selection'[1] \in visible
  /\ At(selection').submenu # 0
  /\ visible' = open_submenu(visible, selection')

(* What replaces the selection can be selected.                            *)
SelectsSelectable ==
  \/ selection' = selection
  \/ selection' \in Items /\ At(selection').selectable

(* The key handlers begin with a selection on the screen. *)
LEMMA CalmKeySelection ==
  ASSUME NoEmptyMenus, CalmInv, has_run
  PROVE  /\ KeySelection \in Items /\ KeySelection[1] \in visible
         /\ KeySelection = selection \/
              /\ selection = NoItem
              /\ NoneBeginsWithSeparator => At(KeySelection).selectable
<1>1. visible # {} /\ visible \subseteq Menus
  BY DEF CalmInv, RootShown, MenuType
<1>2. CASE selection = NoItem
  <2>1. KeySelection = first_selectable_menuitem
    BY <1>2 DEF KeySelection
  <2>2. PICK m \in visible : KeySelection = FirstOf(m)
    BY <1>1, <2>1, FirstSelectableType
  <2>3. KeySelection = << m, 1 >> /\ KeySelection \in Items
    BY <1>1, <2>2, FirstOfType DEF NoEmptyMenus
  <2>4. NoneBeginsWithSeparator => At(KeySelection).selectable
    BY <1>1, <2>3 DEF NoEmptyMenus, NoneBeginsWithSeparator, At
  <2>5. QED
    BY <1>2, <2>3, <2>4
<1>3. CASE selection # NoItem
  BY <1>3 DEF KeySelection, CalmInv, SelectedShown
<1>4. QED
  BY <1>2, <1>3

(* Selecting an item on the screen, without opening or closing anything.   *)
LEMMA GoesThere ==
  ASSUME visible' = visible, selection' \in Items, selection'[1] \in visible
  PROVE  Goes
<1>1. visible' = visible \ UNION {Below[m] : m \in {}}
  OBVIOUS
<1>2. QED
  BY <1>1 DEF Goes

LEMMA CalmMoveKey ==
  ASSUME NoEmptyMenus, IsTree, CalmInv, has_run,
         NEW dir \in {"Up", "Down"}, MoveKey(dir)
  PROVE  (Still \/ Goes \/ Opens) /\ SelectsSelectable
<1> DEFINE i == KeySelection
           j == Moved(i, dir)
<1>1. i \in Items /\ i[1] \in visible
  BY CalmKeySelection
<1>2. CASE Dies("hang") \/ Dies("assert")
  BY <1>2 DEF Dies, Still, SelectsSelectable
<1>3. CASE ~ (Dies("hang") \/ Dies("assert"))
  <2>1. /\ Selectables(i[1]) # {} /\ selection' = j
        /\ visible' = IF At(j).submenu # 0 THEN open_submenu(visible, j)
                                           ELSE close_all_submenus(visible, j[1])
    BY <1>1, <1>3 DEF MoveKey, Select
  <2>2. j \in Items /\ j[1] = i[1] /\ At(j).selectable
    BY <1>1, <2>1, MovedType
  <2> HIDE DEF i, j
  <2>3. SelectsSelectable
    BY <2>1, <2>2 DEF SelectsSelectable
  <2>4. CASE At(j).submenu # 0
    BY <1>1, <2>1, <2>2, <2>3, <2>4 DEF Opens
  <2>5. CASE At(j).submenu = 0
    <3>1. j[1] \in Menus /\ j[1] \in visible
      BY <1>1, <2>2, ItemFacts
    <3>2. visible' = visible \ Below[j[1]]
      BY <2>1, <2>5 DEF close_all_submenus
    <3>3. visible' = visible \ UNION {Below[m] : m \in {j[1]}}
      BY <3>2
    <3>4. j[1] \in visible'
      BY <3>1, <3>2 DEF IsTree
    <3>5. Goes
      BY <2>1, <2>2, <3>1, <3>3, <3>4 DEF Goes
    <3>6. QED
      BY <2>3, <3>5
  <2>6. QED
    BY <2>3, <2>4, <2>5
<1>4. QED
  BY <1>2, <1>3

LEMMA CalmOtherKeys ==
  ASSUME NoEmptyMenus, IsTree, CalmInv, NEW key \in Keys, Patient(key),
         (RightKey /\ key = "Right") \/ LeftKey \/ ReturnKey \/ EscapeKey \/ TextKey
  PROVE  /\ Still \/ Goes
         /\ NoneBeginsWithSeparator => SelectsSelectable
<1> DEFINE i == KeySelection
<1>1. /\ i \in Items /\ i[1] \in visible
      /\ NoneBeginsWithSeparator => i = selection \/ At(i).selectable
  BY CalmKeySelection DEF Patient
<1>2. CASE RightKey /\ key = "Right"
  <2>1. /\ visible' = visible
        /\ selection' = IF At(i).submenu # 0 THEN child_of(i) ELSE i
    BY <1>1, <1>2, NoItemFacts DEF RightKey, Select
  <2>2. CASE At(i).submenu = 0
    BY <1>1, <2>1, <2>2, GoesThere DEF SelectsSelectable
  <2>3. CASE At(i).submenu # 0
    <3>1. At(i).submenu \in visible
      BY <1>2, <2>3 DEF Patient
    <3>2. At(i).submenu \in Menus
      BY <1>1, <2>3, ItemFacts
    <3>3. selection' = << At(i).submenu, 1 >> /\ selection' \in Items
      BY <2>1, <2>3, <3>2, FirstOfType DEF child_of, NoEmptyMenus
    <3>4. selection'[1] \in visible
      BY <3>1, <3>3
    <3>5. NoneBeginsWithSeparator => At(selection').selectable
      BY <3>2, <3>3 DEF NoEmptyMenus, NoneBeginsWithSeparator, At
    <3>6. QED
      BY <2>1, <3>3, <3>4, <3>5, GoesThere DEF SelectsSelectable
  <2>4. QED
    BY <2>2, <2>3
<1>3. CASE LeftKey
  <2> DEFINE j == parent_of(i)
  <2>1. visible' = visible /\ selection' = j
    BY <1>3 DEF LeftKey, Select
  <2>2. j = i \/ (j \in Items /\ At(j).submenu = i[1])
    BY <1>1, ParentOfType
  <2> HIDE DEF j, i
  <2>3. CASE j = i
    BY <1>1, <2>1, <2>3, GoesThere DEF SelectsSelectable
  <2>4. CASE j \in Items /\ At(j).submenu = i[1]
    <3>1. i[1] # 0
      BY <1>1, ItemFacts, MenuAssumption DEF Menus
    <3>2. j[1] \in visible /\ At(j).selectable
      BY <1>1, <2>4, <3>1, ItemFacts DEF CalmInv, Hangs
    <3>3. QED
      BY <2>1, <2>4, <3>2, GoesThere DEF SelectsSelectable
  <2>5. QED
    BY <2>2, <2>3, <2>4
<1>4. CASE ReturnKey \/ EscapeKey \/ TextKey
  <2>1. visible' = visible /\ selection' = i
    BY <1>1, <1>4, NoItemFacts DEF ReturnKey, EscapeKey, TextKey, Select
  <2>2. QED
    BY <1>1, <2>1, GoesThere DEF SelectsSelectable
<1>5. QED
  BY <1>2, <1>3, <1>4

(* The menus that the motion handler is called for are on the screen. *)
LEMMA EnteredShown ==
  ASSUME NEW vis, Root \in vis, NEW p, NEW m \in Entered(vis, p)
  PROVE  m \in vis /\ m \in {Root} \union Below[Root] /\ m \in Menus
<1>1. m \in {Root} \union Below[Root] /\ m \in Menus
  BY BelowFacts, MenuAssumption DEF Entered
<1>2. CASE m = Root
  BY <1>1, <1>2
<1>3. CASE m \in Below[Root]
  <2>1. PICK i \in Items : At(i).submenu = m
    BY <1>3, BelowOpener, MenuAssumption
  <2>2. i \in Way[m]
    BY <1>1, <1>3, <2>1 DEF Way
  <2>3. Recurs(vis, p, i)
    BY <2>2 DEF Entered
  <2>4. QED
    BY <1>1, <2>1, <2>3 DEF Recurs
<1>4. QED
  BY <1>1, <1>2, <1>3

LEMMA CalmFrame ==
  ASSUME IsTree, CalmInv, NEW motion \in BOOLEAN, NEW p \in Positions,
         motion \/ has_run,
         visible' = AfterFrame(motion, p).visible,
         selection' = AfterFrame(motion, p).selection
  PROVE  (Still \/ Appears \/ Goes) /\ SelectsSelectable
<1> DEFINE vis == IF has_run THEN visible ELSE visible \union {Root}
           stops  == {m \in Entered(vis, p) : Breaks(vis, p, m)}
           closed == {m \in stops : Entries[m][p.item[m]].submenu = 0}
           after  == AfterMotion(vis, selection, p)
<1>1. CASE ~ motion
  BY <1>1 DEF AfterFrame, Still, SelectsSelectable
<1>2. CASE motion
  <2>1. vis \in SUBSET Menus /\ Root \in vis
    BY MenuAssumption DEF CalmInv, MenuType, RootShown
  <2>2. visible' = after.visible /\ selection' = after.selection
    BY <1>2 DEF AfterFrame
  <2> HIDE DEF vis
  <2>3. /\ visible' = vis \ UNION {Below[m] : m \in closed}
        /\ stops = {} => selection' = selection
        /\ stops # {} =>
             /\ selection' \in Items
             /\ At(selection').selectable
             /\ selection'[1] \in stops
             /\ \A n \in stops : Depth[selection'[1]] <= Depth[n]
    BY <2>1, <2>2, AfterMotionType
  <2>4. SelectsSelectable
    BY <2>3 DEF SelectsSelectable
  <2>5. \A m \in stops : m \in vis /\ m \in Menus
    BY <2>1, EnteredShown
  <2>6. closed \in SUBSET Menus /\ closed \subseteq stops
    BY <2>5
  <2> HIDE DEF after
  <2>7. CASE has_run
    <3>1. vis = visible
      BY <2>7 DEF vis
    <3>2. CASE stops = {}
      BY <2>3, <2>4, <2>6, <3>1, <3>2 DEF Still
    <3>3. CASE stops # {}
      <4> DEFINE top == selection'[1]
      <4>1. top \in vis /\ top \in Menus
        BY <2>3, <2>5, <3>3
      <4>2. ASSUME NEW m \in closed, top \in Below[m] PROVE FALSE
        <5>1. Depth[m] < Depth[top]
          BY <2>6, <4>2, DepthGrows
        <5>2. Depth[top] <= Depth[m]
          BY <2>3, <2>6, <3>3, <4>2
        <5>3. Depth[m] \in Nat /\ Depth[top] \in Nat
          BY <2>6, <4>1, DepthType
        <5>4. QED
          BY <5>1, <5>2, <5>3
      <4> HIDE DEF closed, stops
      <4>3. top \in visible'
        BY <2>3, <4>1, <4>2
      <4>4. QED
        BY <2>3, <2>4, <2>6, <3>1, <3>3, <4>3 DEF Goes
    <3>4. QED
      BY <3>2, <3>3
  <2>8. CASE ~ has_run
    <3>1. visible = {} /\ selection = NoItem /\ vis = {Root}
      BY <2>8 DEF CalmInv, Untouched, vis
    <3>2. Root \notin UNION {Below[m] : m \in closed}
      BY <2>6, RootIsTop DEF IsTree
    <3>3. visible' = {Root}
      BY <2>3, <3>1, <3>2
    <3>4. stops # {} => selection' \in Items /\ selection'[1] = Root
      BY <2>3, <2>5, <3>1
    <3> HIDE DEF closed, stops
    <3>5. Appears
      BY <2>3, <3>1, <3>3, <3>4 DEF Appears
    <3>6. QED
      BY <2>4, <3>5
  <2>9. QED
    BY <2>7, <2>8
<1>3. QED
  BY <1>1, <1>2

LEMMA CalmFrameStep ==
  ASSUME IsTree, CalmInv, PointerFrame
  PROVE  (Still \/ Appears \/ Goes) /\ SelectsSelectable
<1>1. ASSUME NEW motion \in BOOLEAN, NEW p \in Positions, ReleaseWild(motion, p)
      PROVE  Still /\ SelectsSelectable
  BY <1>1 DEF ReleaseWild, Dies, Still, SelectsSelectable
<1>2. ASSUME NEW motion \in BOOLEAN, NEW p \in Positions, NEW button,
             handle_wl_pointer_frame(motion, p, button)
      PROVE  (Still \/ Appears \/ Goes) /\ SelectsSelectable
  <2>1. /\ visible' = AfterFrame(motion, p).visible
        /\ selection' = AfterFrame(motion, p).selection
        /\ motion \/ has_run
    BY <1>2 DEF handle_wl_pointer_frame, menu_handle_cursor_motion
  <2>2. QED
    BY <2>1, CalmFrame
<1>3. QED
  BY <1>1, <1>2 DEF PointerFrame

LEMMA CalmStep ==
  ASSUME NoEmptyMenus, IsTree, CalmInv, [CalmNext]_vars
  PROVE  /\ Still \/ Appears \/ Goes \/ Opens
         /\ NoneBeginsWithSeparator => SelectsSelectable
<1>1. CASE UNCHANGED vars
  BY <1>1 DEF vars, Still, SelectsSelectable
<1>2. ASSUME NEW key \in Keys, Patient(key), menu_handle_key(key)
      PROVE  /\ Still \/ Goes \/ Opens
             /\ NoneBeginsWithSeparator => SelectsSelectable
  <2>1. has_run
    BY <1>2 DEF Patient
  <2>2. \/ \E dir \in {"Up", "Down"} : MoveKey(dir)
        \/ (RightKey /\ key = "Right") \/ LeftKey \/ ReturnKey \/ EscapeKey \/ TextKey
    BY <1>2 DEF menu_handle_key, Keys
  <2>3. QED
    BY <1>2, <2>1, <2>2, CalmMoveKey, CalmOtherKeys
<1>3. CASE PointerFrame
  BY <1>3, CalmFrameStep
<1>4. CASE timer_hover_clear
  <2>1. selection' = selection
    BY <1>4 DEF timer_hover_clear
  <2>2. \/ visible' = visible
        \/ /\ selection \in Items /\ At(selection).submenu # 0
           /\ visible' = open_submenu(visible, selection)
    BY <1>4 DEF timer_hover_clear
  <2>3. selection \in Items => selection[1] \in visible
    BY NoItemFacts DEF CalmInv, SelectedShown
  <2>4. QED
    BY <2>1, <2>2, <2>3 DEF Still, Opens, SelectsSelectable
<1>5. CASE FrameDone \/ LoopExit \/ ConnectionLost
  BY <1>5 DEF FrameDone, LoopExit, ConnectionLost, Still, SelectsSelectable
<1>6. QED
  BY <1>1, <1>2, <1>3, <1>4, <1>5 DEF CalmNext, OtherSteps

LEMMA CalmIsNext == [CalmNext]_vars => [Next]_vars
BY DEF CalmNext, Next

LEMMA HasRunStays == has_run /\ [Next]_vars => has_run'
BY DEF Next, menu_handle_key, Keys, MoveKey, RightKey, LeftKey, ReturnKey,
       EscapeKey, TextKey, OtherSteps, PointerFrame, timer_hover_clear,
       handle_wl_pointer_frame, menu_handle_cursor_motion, ReleaseWild,
       FrameDone, LoopExit, ConnectionLost, Dies, vars

(* Before the first motion there is no step but to stay so, or to show the *)
(* root menu.                                                              *)
LEMMA UntouchedStep ==
  ASSUME CalmInv, [CalmNext]_vars, ~ has_run'
  PROVE  UNCHANGED << visible, selection >>
<1>1. CASE has_run
  BY <1>1, CalmIsNext, HasRunStays
<1>2. CASE ~ has_run
  <2>1. \A key \in Keys : ~ Patient(key)
    BY <1>2 DEF Patient
  <2>2. selection = NoItem
    BY <1>2 DEF CalmInv, Untouched
  <2>3. timer_hover_clear => UNCHANGED << visible, selection >>
    BY <2>2, NoItemFacts DEF timer_hover_clear
  <2>4. FrameDone \/ LoopExit \/ ConnectionLost \/ UNCHANGED vars
          => UNCHANGED << visible, selection >>
    BY DEF FrameDone, LoopExit, ConnectionLost, vars
  <2>5. PointerFrame => UNCHANGED << visible, selection >>
    BY <1>2 DEF PointerFrame, handle_wl_pointer_frame, menu_handle_cursor_motion,
                ReleaseWild, Dies
  <2>6. QED
    BY <2>1, <2>3, <2>4, <2>5 DEF CalmNext, OtherSteps
<1>3. QED
  BY <1>1, <1>2

LEMMA CalmInvInductive ==
  ASSUME NoEmptyMenus, IsTree
  PROVE  /\ Init => CalmInv
         /\ CalmInv /\ [CalmNext]_vars => CalmInv'
<1>1. Init => CalmInv
  BY TypeInvInductive, MenuAssumption, ItemFacts
     DEF Init, CalmInv, TypeInv, Untouched, RootShown, Hangs, SelectedShown
<1>2. ASSUME CalmInv, [CalmNext]_vars PROVE CalmInv'
  <2>1. MenuType' /\ RootShown'
    BY <1>2, CalmIsNext, MenuTypeStep, RootShownStep DEF CalmInv, IsTree
  <2>2. Untouched'
    <3>1. CASE has_run'
      BY <3>1 DEF Untouched
    <3>2. CASE ~ has_run'
      <4>1. CASE ~ has_run
        BY <1>2, <3>2, <4>1, UntouchedStep DEF Untouched, CalmInv
      <4>2. CASE has_run
        BY <1>2, <3>2, <4>2, CalmIsNext, HasRunStays
      <4>3. QED
        BY <4>1, <4>2
    <3>3. QED
      BY <3>1, <3>2
  <2>3. Hangs(visible') /\ SelectedShown'
    <3>1. CASE Still
      BY <1>2, <3>1 DEF Still, CalmInv, SelectedShown
    <3>2. CASE Appears
      <4>1. Hangs({Root})
        <5>1. ASSUME NEW i \in Items, At(i).submenu = Root PROVE FALSE
          BY <5>1 DEF IsTree, Openers
        <5>2. QED
          BY <5>1 DEF Hangs
      <4>2. QED
        BY <3>2, <4>1 DEF Appears, SelectedShown
    <3>3. CASE Goes
      <4>1. PICK S \in SUBSET Menus : visible' = visible \ UNION {Below[m] : m \in S}
        BY <3>3 DEF Goes
      <4>2. Hangs(visible \ UNION {Below[m] : m \in S})
        BY <1>2, CloseHangs DEF CalmInv
      <4>3. QED
        BY <3>3, <4>1, <4>2 DEF Goes, SelectedShown
    <3>4. CASE Opens
      <4>1. /\ Hangs(open_submenu(visible, selection'))
            /\ selection'[1] \in open_submenu(visible, selection')
        BY <1>2, <3>4, OpenHangs DEF Opens, CalmInv
      <4>2. QED
        BY <3>4, <4>1 DEF Opens, SelectedShown
    <3>5. QED
      BY <1>2, <3>1, <3>2, <3>3, <3>4, CalmStep
  <2>4. QED
    BY <2>1, <2>2, <2>3 DEF CalmInv, Hangs
<1>3. QED
  BY <1>1, <1>2
-----------------------------------------------------------------------------

(* What draw_menu draws. *)

(* A step of draw_menu: what is drawn on, from the menus of S. *)
DrawOn(S) == S \union ((UNION {Children(m) : m \in S}) \intersect visible)

LEMMA DrawMenuSteps ==
  ASSUME visible \subseteq Menus
  PROVE  \E f :
           /\ f[0] = {Root} \intersect visible
           /\ \A n \in 1 .. NMenus : f[n] = DrawOn(f[n - 1])
           /\ draw_menu = f[NMenus]
<1> DEFINE T == SUBSET visible
           base == {Root} \intersect visible
           step == [n \in Nat |-> [S \in T |-> DrawOn(S)]]
           Rec(f) == f = [n \in 0 .. NMenus |->
                            IF n = 0 THEN {Root} \intersect visible
                            ELSE LET above == f[n - 1]
                                 IN  above \union ((UNION {Children(m) : m \in above})
                                                     \intersect visible)]
           drawn == CHOOSE f : Rec(f)
<1>1. NMenus \in Nat
  BY MenuAssumption
<1>2. base \in T /\ step \in [Nat -> [T -> T]]
  <2>1. \A S \in T : DrawOn(S) \in T
    BY DEF DrawOn
  <2>2. base \in T
    OBVIOUS
  <2> HIDE DEF T
  <2>3. QED
    BY <2>1, <2>2
<1> HIDE DEF T, base, step
<1> PICK f \in RecursiveOver(T, base, step, NMenus) : TRUE
  BY <1>1, <1>2, RecursionExists
<1>3. /\ f \in [0 .. NMenus -> T]
      /\ f[0] = base /\ \A k \in 1 .. NMenus : f[k] = step[k][f[k - 1]]
  BY DEF RecursiveOver
<1>4. \A k \in 1 .. NMenus : f[k] = DrawOn(f[k - 1])
  <2> SUFFICES ASSUME NEW k \in 1 .. NMenus PROVE f[k] = DrawOn(f[k - 1])
    OBVIOUS
  <2>1. k \in Nat /\ k - 1 \in 0 .. NMenus
    BY <1>1
  <2>2. f[k - 1] \in T
    BY <1>3, <2>1
  <2>3. step[k][f[k - 1]] = DrawOn(f[k - 1])
    BY <2>1, <2>2 DEF step
  <2>4. QED
    BY <1>3, <2>3
<1>5. Rec(f)
  BY <1>1, <1>3, <1>4 DEF DrawOn, base
<1>6. Rec(drawn)
  BY <1>5
<1>7. draw_menu = drawn[NMenus]
  BY DEF draw_menu
<1>8. /\ drawn[0] = {Root} \intersect visible
      /\ \A n \in 1 .. NMenus : drawn[n] = DrawOn(drawn[n - 1])
  <2>1. PICK g : g = drawn
    OBVIOUS
  <2>2. Rec(g)
    BY <1>6, <2>1
  <2> HIDE DEF drawn
  <2>3. /\ g[0] = {Root} \intersect visible
        /\ \A n \in 1 .. NMenus : g[n] = DrawOn(g[n - 1])
    BY <1>1, <2>2 DEF DrawOn
  <2>4. QED
    BY <2>1, <2>3
<1>9. QED
  BY <1>7, <1>8

(* The menus that hang together are all drawn: a step of draw_menu that    *)
(* adds none is the last that would, and there are no more steps that add  *)
(* one than there are menus.                                               *)
LEMMA AllAreDrawn ==
  ASSUME Hangs(visible)
  PROVE  draw_menu = visible
<1>1. visible \subseteq Menus /\ NMenus \in Nat
  BY HangsType, MenuAssumption
<1>2. PICK f : /\ f[0] = {Root} \intersect visible
               /\ \A n \in 1 .. NMenus : f[n] = DrawOn(f[n - 1])
               /\ draw_menu = f[NMenus]
  BY <1>1, DrawMenuSteps
<1>3. IsFiniteSet(Menus) /\ Cardinality(Menus) = NMenus /\ IsFiniteSet(visible)
  <2>1. IsFiniteSet(Menus) /\ Cardinality(Menus) = NMenus
    BY <1>1, FS_Interval, MenuAssumption DEF Menus
  <2>2. QED
    BY <2>1, <1>1, FS_Subset
<1> DEFINE Good(n) == /\ f[n] \subseteq visible
                      /\ {Root} \intersect visible \subseteq f[n]
                      /\ f[n] = DrawOn(f[n]) \/ Cardinality(f[n]) >= n + 1
           G == {n \in Nat : n <= NMenus => Good(n)}
<1>4. \A S \in SUBSET visible : /\ S \subseteq DrawOn(S) /\ DrawOn(S) \subseteq visible
                                /\ IsFiniteSet(S) /\ Cardinality(S) \in Nat
  BY <1>3, FS_Subset, FS_CardinalityType DEF DrawOn
<1>5. 0 \in G
  <2>1. f[0] \subseteq visible /\ {Root} \intersect visible \subseteq f[0]
    BY <1>2
  <2>2. CASE Root \in visible
    <3>1. f[0] = {Root}
      BY <1>2, <2>2
    <3>2. Cardinality(f[0]) >= 0 + 1
      BY <3>1, FS_Singleton
    <3>3. QED
      BY <2>1, <3>2
  <2>3. CASE Root \notin visible
    <3>1. f[0] = {}
      BY <1>2, <2>3
    <3>2. f[0] = DrawOn(f[0])
      BY <3>1 DEF DrawOn
    <3>3. QED
      BY <2>1, <3>2
  <2>4. QED
    BY <2>2, <2>3
<1>6. ASSUME NEW n \in G PROVE n + 1 \in G
  <2> SUFFICES ASSUME n + 1 <= NMenus PROVE Good(n + 1)
    OBVIOUS
  <2>1. n \in Nat /\ n + 1 \in 1 .. NMenus /\ (n + 1) - 1 = n
    BY <1>1
  <2>2. Good(n)
    BY <1>1, <2>1
  <2>3. f[n + 1] = DrawOn(f[n])
    BY <1>2, <2>1
  <2>4. /\ f[n + 1] \subseteq visible /\ f[n] \subseteq f[n + 1]
        /\ {Root} \intersect visible \subseteq f[n + 1]
    BY <1>4, <2>2, <2>3
  <2>5. CASE f[n] = DrawOn(f[n])
    BY <2>3, <2>4, <2>5
  <2>6. CASE f[n] # DrawOn(f[n])
    <3>1. Cardinality(f[n]) >= n + 1
      BY <2>2, <2>6
    <3>2. PICK x \in f[n + 1] : x \notin f[n]
      BY <2>3, <2>4, <2>6
    <3>3. f[n] \union {x} \subseteq f[n + 1]
      BY <2>4, <3>2
    <3>4. IsFiniteSet(f[n]) /\ IsFiniteSet(f[n + 1])
      BY <1>4, <2>2, <2>4
    <3>5. Cardinality(f[n] \union {x}) = Cardinality(f[n]) + 1
      BY <3>2, <3>4, FS_AddElement
    <3>6. Cardinality(f[n] \union {x}) <= Cardinality(f[n + 1])
      BY <3>3, <3>4, FS_Subset
    <3>7. Cardinality(f[n]) \in Nat /\ Cardinality(f[n + 1]) \in Nat
      BY <3>4, FS_CardinalityType
    <3>8. Cardinality(f[n + 1]) >= (n + 1) + 1
      BY <2>1, <3>1, <3>5, <3>6, <3>7
    <3>9. QED
      BY <2>4, <3>8
  <2>7. QED
    BY <2>5, <2>6
<1> HIDE DEF Good
<1>7. Good(NMenus)
  <2>1. \A n \in Nat : n \in G
    <3> HIDE DEF G
    <3>1. QED
      BY <1>5, <1>6, InductionBySet DEF G
  <2>2. QED
    BY <1>1, <2>1
<1> DEFINE d == f[NMenus]
<1>8. /\ d \subseteq visible /\ {Root} \intersect visible \subseteq d
      /\ d = DrawOn(d)
  <2>1. Cardinality(d) <= NMenus
    <3>1. d \subseteq Menus
      BY <1>1, <1>7 DEF Good
    <3>2. QED
      BY <1>3, <3>1, FS_Subset
  <2>2. Cardinality(d) \in Nat
    BY <1>4, <1>7 DEF Good
  <2>3. QED
    BY <1>1, <1>7, <2>1, <2>2 DEF Good
<1>9. visible \subseteq d
  <2> DEFINE S == {m \in Menus : m \in visible => m \in d}
  <2>1. ASSUME NEW x \in Menus, x \in visible => x \in d, NEW c \in Children(x), c \in visible
        PROVE  c \in d
    <3>1. PICK i \in Items : i[1] = x /\ At(i).submenu = c
      BY <2>1, OpenerOfChild
    <3>2. x \in visible
      BY <2>1, <3>1 DEF Hangs
    <3>3. c \in DrawOn(d)
      BY <2>1, <3>2 DEF DrawOn
    <3>4. QED
      BY <1>8, <3>3
  <2>2. Root \in visible => Root \in d
    BY <1>8
  <2> HIDE DEF d
  <2>3. (\A x \in S : Children(x) \subseteq S) /\ Children(Root) \subseteq S
    BY <2>1, <2>2, OpenerOfChild, MenuAssumption
  <2>4. Below[Root] \subseteq S
    <3>1. S \in SUBSET Menus /\ Root \in Menus
      BY MenuAssumption
    <3> HIDE DEF S
    <3>2. QED
      BY <2>3, <3>1, BelowLeast
  <2>5. QED
    BY <2>2, <2>4 DEF Hangs
<1>10. QED
  BY <1>2, <1>8, <1>9
-----------------------------------------------------------------------------
LEMMA CalmInvAlways ==
  ASSUME NoEmptyMenus, IsTree
  PROVE  CalmSpec => []CalmInv
BY CalmInvInductive, PTL DEF CalmSpec

(* In a tree of menus none of which is empty the menus that are visible    *)
(* hang together from the root, so that draw_menu draws each of them,      *)
(* whatever a patient user does.                                           *)
THEOREM AllVisibleDrawn ==
  ASSUME NoEmptyMenus, IsTree
  PROVE  CalmSpec => []OpenChain
<1>1. CalmInv => OpenChain
  BY AllAreDrawn DEF CalmInv, Hangs, OpenChain
<1>2. QED
  BY <1>1, CalmInvAlways, PTL

(* If no menu begins with a separator either, the selection can always be  *)
(* selected and is in a menu that is on the screen.                        *)
THEOREM SelectionOnScreen ==
  ASSUME NoEmptyMenus, NoneBeginsWithSeparator, IsTree
  PROVE  CalmSpec => []SelectionShown
<1>1. Init => SelectionIsSelectable
  BY DEF Init, SelectionIsSelectable
<1>2. ASSUME CalmInv, SelectionIsSelectable, [CalmNext]_vars
      PROVE  SelectionIsSelectable'
  <2>1. SelectsSelectable
    BY <1>2, CalmStep
  <2>2. QED
    BY <1>2, <2>1 DEF SelectsSelectable, SelectionIsSelectable, At
<1>3. CalmInv /\ SelectionIsSelectable => SelectionShown
  BY DEF CalmInv, SelectedShown, SelectionIsSelectable, SelectionShown
<1>4. QED
  BY <1>1, <1>2, <1>3, CalmInvAlways, PTL DEF CalmSpec

(* What runs a command: the Return key, or a button that is released.      *)
LEMMA LaunchStep ==
  ASSUME [CalmNext]_vars, launched' # launched
  PROVE  launched' = selection' /\ selection' # NoItem /\ run_display' = FALSE
<1>1. ASSUME NEW key \in Keys, menu_handle_key(key)
      PROVE  launched' = selection' /\ selection' # NoItem /\ run_display' = FALSE
  BY <1>1, NoItemFacts DEF menu_handle_key, Keys, MoveKey, RightKey, LeftKey, ReturnKey, EscapeKey,
     TextKey, Dies, Select, spawn_async_no_shell
<1>2. ASSUME PointerFrame
      PROVE  launched' = selection' /\ selection' # NoItem /\ run_display' = FALSE
  BY <1>2 DEF PointerFrame, handle_wl_pointer_frame, ReleaseWild, Dies,
     menu_handle_button_pressed, menu_handle_button_released, spawn_async_no_shell
<1>3. timer_hover_clear \/ FrameDone \/ LoopExit \/ ConnectionLost \/ UNCHANGED vars
        => launched' = launched
  BY DEF timer_hover_clear, FrameDone, LoopExit, ConnectionLost, vars
<1>4. QED
  BY <1>1, <1>2, <1>3 DEF CalmNext, OtherSteps

(* A patient user runs only what is on the screen, and that is the end:    *)
(* what a key or a button runs is what is selected after the motion of the *)
(* same frame, and the invariant holds of the menus after it as well.      *)
THEOREM LaunchedFromScreen ==
  ASSUME NoEmptyMenus, IsTree
  PROVE  CalmSpec => LaunchShown
<1>1. ASSUME CalmInv', [CalmNext]_vars
      PROVE  [launched' # launched => launched'[1] \in visible' /\ ~ run_display']_vars
  <2>1. selection' # NoItem => selection'[1] \in visible'
    BY <1>1 DEF CalmInv, SelectedShown
  <2>2. QED
    BY <1>1, <2>1, LaunchStep
<1>2. QED
  BY <1>1, CalmInvAlways, PTL DEF CalmSpec, LaunchShown
-----------------------------------------------------------------------------
(* The path of menus. *)

(* What is below a menu is one of its submenus or below one of them.       *)
LEMMA BelowThroughChild ==
  ASSUME NEW m \in Menus, NEW d \in Below[m]
  PROVE  \E c \in Children(m) : d = c \/ d \in Below[c]
<1> DEFINE S == {e \in Menus : \E c \in Children(m) : e = c \/ e \in Below[c]}
<1>1. S \in SUBSET Menus /\ Children(m) \subseteq S
  BY OpenerOfChild
<1>2. ASSUME NEW x \in S, NEW y \in Children(x) PROVE y \in S
  <2>1. PICK c \in Children(m) : x = c \/ x \in Below[c]
    OBVIOUS
  <2>2. c \in Menus /\ x \in Menus /\ y \in Menus
    BY OpenerOfChild
  <2>3. y \in Below[c]
    BY <2>1, <2>2, BelowFacts
  <2>4. QED
    BY <2>2, <2>3
<1>3. Below[m] \subseteq S
  BY <1>1, <1>2, BelowLeast
<1>4. QED
  BY <1>3

(* Menus that hang together have all there is between them and the root.   *)
LEMMA HangsUpwards ==
  ASSUME NEW vis, Hangs(vis), NEW m \in vis, NEW n \in Menus, m \in Below[n]
  PROVE  n \in vis
<1> SUFFICES ASSUME n \notin vis PROVE FALSE
  OBVIOUS
<1> DEFINE S == Menus \ vis
<1>1. \A x \in S : Children(x) \subseteq S
  BY OpenerOfChild DEF Hangs
<1>2. Below[n] \subseteq S
  BY <1>1, BelowLeast
<1>3. QED
  BY <1>2

(* If no menu shows two of its submenus at once, they are a path.          *)
OnePath(vis) ==
  /\ Hangs(vis)
  /\ \A m \in Menus : \A c, d \in Children(m) \intersect vis : c = d

LEMMA PathOrdered ==
  ASSUME NEW vis, OnePath(vis), NEW m \in vis, NEW n \in vis
  PROVE  m = n \/ m \in Below[n] \/ n \in Below[m]
<1> DEFINE S == {x \in Menus : x \in vis => x = m \/ x \in Below[m] \/ m \in Below[x]}
<1>1. m \in Menus /\ n \in Menus /\ Hangs(vis)
  BY HangsType DEF OnePath
<1>2. Root \in Menus /\ (m = Root \/ m \in Below[Root])
  BY <1>1, MenuAssumption DEF Hangs
<1>3. ASSUME NEW x \in Menus, x \in vis => x = m \/ x \in Below[m] \/ m \in Below[x],
             NEW c \in Children(x), c \in vis
      PROVE  c = m \/ c \in Below[m] \/ m \in Below[c]
  <2>1. c \in Menus /\ x \in vis
    BY <1>1, <1>3, OpenerOfChild DEF Hangs
  <2>2. CASE x = m \/ x \in Below[m]
    BY <1>1, <2>2, BelowFacts
  <2>3. CASE m \in Below[x]
    <3>1. PICK d \in Children(x) : m = d \/ m \in Below[d]
      BY <2>3, BelowThroughChild
    <3>2. d \in vis
      BY <1>1, <3>1, OpenerOfChild, HangsUpwards
    <3>3. c = d
      BY <1>3, <3>2 DEF OnePath
    <3>4. QED
      BY <3>1, <3>3
  <2>4. QED
    BY <1>3, <2>1, <2>2, <2>3
<1>4. (\A x \in S : Children(x) \subseteq S) /\ Children(Root) \subseteq S
  BY <1>2, <1>3, OpenerOfChild
<1>5. Below[Root] \subseteq S
  <2>1. S \in SUBSET Menus
    OBVIOUS
  <2> HIDE DEF S
  <2>2. QED
    BY <1>2, <1>4, <2>1, BelowLeast
<1>6. n = Root \/ n \in S
  BY <1>1, <1>5 DEF Hangs
<1>7. QED
  BY <1>2, <1>6

(* The menus of vis that are above m, and how many they are. *)
AboveIn(vis, m) == {n \in vis : m \in Below[n]}
Rank(vis, m) == Cardinality(AboveIn(vis, m))

(* The path from the root downwards: each menu in the place of its rank.   *)
PathOf(vis) == [k \in 1 .. Cardinality(vis) |-> CHOOSE m \in vis : Rank(vis, m) = k - 1]

LEMMA PathIsVisiblePath == VisiblePath = PathOf(visible)
BY DEF VisiblePath, PathOf, Rank, AboveIn

LEMMA FiniteVis ==
  ASSUME NEW vis \in SUBSET Menus
  PROVE  /\ IsFiniteSet(vis) /\ Cardinality(vis) \in Nat
         /\ \A m : AboveIn(vis, m) \subseteq vis /\ IsFiniteSet(AboveIn(vis, m))
         /\ \A m : Rank(vis, m) \in Nat
<1>1. IsFiniteSet(Menus)
  BY FS_Interval, MenuAssumption DEF Menus
<1>2. IsFiniteSet(vis)
  BY <1>1, FS_Subset
<1>3. \A m : AboveIn(vis, m) \subseteq vis
  BY DEF AboveIn
<1>4. \A m : IsFiniteSet(AboveIn(vis, m))
  BY <1>2, <1>3, FS_Subset
<1>5. QED
  BY <1>2, <1>3, <1>4, FS_CardinalityType DEF Rank

(* A menu has a greater rank than the one it is below. *)
LEMMA RankGrows ==
  ASSUME IsTree, NEW vis \in SUBSET Menus, NEW n \in vis, NEW m \in Below[n]
  PROVE  Rank(vis, n) < Rank(vis, m)
<1>1. AboveIn(vis, n) \union {n} \subseteq AboveIn(vis, m)
  BY BelowTransitive DEF AboveIn
<1>2. n \notin AboveIn(vis, n)
  BY DEF AboveIn, IsTree
<1>3. IsFiniteSet(AboveIn(vis, n)) /\ IsFiniteSet(AboveIn(vis, m))
  BY FiniteVis
<1>4. Cardinality(AboveIn(vis, n) \union {n}) = Cardinality(AboveIn(vis, n)) + 1
  BY <1>2, <1>3, FS_AddElement
<1>5. Cardinality(AboveIn(vis, n) \union {n}) <= Cardinality(AboveIn(vis, m))
  BY <1>1, <1>3, FS_Subset
<1>6. Rank(vis, n) \in Nat /\ Rank(vis, m) \in Nat
  BY FiniteVis
<1>7. QED
  BY <1>4, <1>5, <1>6 DEF Rank

(* Each of the menus of a path has a place of its own, and each place a    *)
(* menu.                                                                   *)
LEMMA RankBijection ==
  ASSUME IsTree, NEW vis, OnePath(vis)
  PROVE  /\ \A m, n \in vis : Rank(vis, m) = Rank(vis, n) => m = n
         /\ \A m \in vis : Rank(vis, m) + 1 \in 1 .. Cardinality(vis)
         /\ \A k \in 1 .. Cardinality(vis) : \E m \in vis : Rank(vis, m) = k - 1
<1>1. vis \subseteq Menus
  BY HangsType DEF OnePath
<1>2. /\ IsFiniteSet(vis) /\ Cardinality(vis) \in Nat
      /\ \A m : AboveIn(vis, m) \subseteq vis /\ IsFiniteSet(AboveIn(vis, m))
      /\ \A m : Rank(vis, m) \in Nat
  BY <1>1, FiniteVis
<1>3. ASSUME NEW m \in vis, NEW n \in vis, Rank(vis, m) = Rank(vis, n)
      PROVE  m = n
  <2>1. m \in Below[n] => Rank(vis, n) < Rank(vis, m)
    BY <1>1, RankGrows
  <2>2. n \in Below[m] => Rank(vis, m) < Rank(vis, n)
    BY <1>1, RankGrows
  <2>3. QED
    BY <1>2, <1>3, <2>1, <2>2, PathOrdered
<1>4. ASSUME NEW m \in vis PROVE Rank(vis, m) + 1 \in 1 .. Cardinality(vis)
  <2>1. AboveIn(vis, m) \subseteq vis \ {m}
    BY <1>1 DEF AboveIn, IsTree
  <2>2. IsFiniteSet(vis \ {m}) /\ Cardinality(vis \ {m}) = Cardinality(vis) - 1
    BY <1>2, FS_RemoveElement
  <2>3. Rank(vis, m) <= Cardinality(vis \ {m})
    BY <2>1, <2>2, FS_Subset DEF Rank
  <2>4. Rank(vis, m) \in Nat
    BY <1>2
  <2>5. QED
    BY <1>2, <2>2, <2>3, <2>4
<1> DEFINE N == 1 .. Cardinality(vis)
           place == [m \in vis |-> Rank(vis, m) + 1]
<1>5. place \in Injection(vis, N)
  <2>1. place \in [vis -> N]
    BY <1>4
  <2>2. \A m, n \in vis : place[m] = place[n] => m = n
    BY <1>2, <1>3
  <2> HIDE DEF place
  <2>3. QED
    BY <2>1, <2>2 DEF Injection, IsInjective
<1>6. IsFiniteSet(N) /\ Cardinality(N) = Cardinality(vis)
  BY <1>2, FS_Interval
<1>7. place \in Surjection(vis, N)
  <2> HIDE DEF place, N
  <2>1. QED
    BY <1>5, <1>6, FS_Injection
<1>8. ASSUME NEW k \in N PROVE \E m \in vis : Rank(vis, m) = k - 1
  <2>1. PICK m \in vis : place[m] = k
    BY <1>7 DEF Surjection
  <2>2. QED
    BY <1>2, <2>1
<1>9. QED
  BY <1>3, <1>4, <1>8

LEMMA PathOfFacts ==
  ASSUME IsTree, NEW vis, OnePath(vis)
  PROVE  /\ PathOf(vis) \in Seq(Menus) /\ Len(PathOf(vis)) = Cardinality(vis)
         /\ Cardinality(vis) \in Nat
         /\ \A k \in 1 .. Cardinality(vis) :
              PathOf(vis)[k] \in vis /\ Rank(vis, PathOf(vis)[k]) = k - 1
         /\ \A m \in vis : PathOf(vis)[Rank(vis, m) + 1] = m
<1>1. vis \subseteq Menus
  BY HangsType DEF OnePath
<1>2. Cardinality(vis) \in Nat /\ \A m : Rank(vis, m) \in Nat
  BY <1>1, FiniteVis
<1>3. ASSUME NEW k \in 1 .. Cardinality(vis)
      PROVE  PathOf(vis)[k] \in vis /\ Rank(vis, PathOf(vis)[k]) = k - 1
  BY RankBijection DEF PathOf
<1>4. PathOf(vis) \in [1 .. Cardinality(vis) -> Menus]
  <2>1. PathOf(vis) = [k \in 1 .. Cardinality(vis) |-> PathOf(vis)[k]]
    BY DEF PathOf
  <2>2. QED
    BY <1>1, <1>3, <2>1
<1>5. ASSUME NEW m \in vis PROVE PathOf(vis)[Rank(vis, m) + 1] = m
  <2>1. Rank(vis, m) + 1 \in 1 .. Cardinality(vis)
    BY RankBijection
  <2>2. (Rank(vis, m) + 1) - 1 = Rank(vis, m)
    BY <1>2
  <2>3. QED
    BY <1>3, <2>1, <2>2, RankBijection
<1>6. QED
  BY <1>2, <1>3, <1>4, <1>5

(* Menus that hang together, from a path, are where it begins.             *)
LEMMA PrefixOfPath ==
  ASSUME IsTree, NEW vis, OnePath(vis), NEW less \in SUBSET vis, Hangs(less)
  PROVE  /\ OnePath(less)
         /\ PathOf(less) = SubSeq(PathOf(vis), 1, Cardinality(less))
         /\ Cardinality(less) \in 0 .. Cardinality(vis)
         /\ \A m \in less : Rank(less, m) = Rank(vis, m)
<1>1. OnePath(less)
  BY DEF OnePath
<1>2. vis \subseteq Menus /\ less \subseteq Menus
  BY HangsType DEF OnePath
<1>3. ASSUME NEW m \in less PROVE Rank(less, m) = Rank(vis, m)
  <2>1. AboveIn(less, m) = AboveIn(vis, m)
    BY <1>2, HangsUpwards DEF AboveIn
  <2>2. QED
    BY <2>1 DEF Rank
<1>4. Cardinality(less) \in 0 .. Cardinality(vis) /\ Cardinality(vis) \in Nat
  BY <1>2, FiniteVis, FS_Subset
<1> DEFINE n == Cardinality(less)
           p == PathOf(vis)
           q == PathOf(less)
<1>5. ASSUME NEW k \in 1 .. n PROVE q[k] = p[k]
  <2>1. q[k] \in less /\ Rank(less, q[k]) = k - 1
    BY <1>1, PathOfFacts
  <2>2. Rank(vis, q[k]) = k - 1
    BY <1>3, <2>1
  <2>3. k \in 1 .. Cardinality(vis)
    BY <1>4
  <2>4. p[k] \in vis /\ Rank(vis, p[k]) = k - 1
    BY <2>3, PathOfFacts
  <2>5. QED
    BY <2>1, <2>2, <2>4, RankBijection
<1>6. q = SubSeq(p, 1, n)
  <2>1. p \in Seq(Menus) /\ q \in Seq(Menus) /\ Len(q) = n /\ Len(p) = Cardinality(vis)
    BY <1>1, PathOfFacts
  <2> HIDE DEF p, q, n
  <2>2. /\ SubSeq(p, 1, n) \in Seq(Menus)
        /\ Len(SubSeq(p, 1, n)) = n
        /\ \A k \in 1 .. n : SubSeq(p, 1, n)[k] = p[k]
    BY <1>4, <2>1 DEF n
  <2>3. QED
    BY <1>5, <2>1, <2>2, SeqEqual
<1>7. QED
  BY <1>1, <1>3, <1>4, <1>6

(* A submenu that is shown of the last menu of a path makes it longer. *)
LEMMA PathAppend ==
  ASSUME IsTree, NEW vis, OnePath(vis), NEW c \in vis, NEW less,
         less = vis \ {c}, Hangs(less), \A m \in less : c \in Below[m]
  PROVE  /\ PathOf(vis) = Append(PathOf(less), c)
         /\ OnePath(less)
<1>1. /\ OnePath(less)
      /\ PathOf(less) = SubSeq(PathOf(vis), 1, Cardinality(less))
  BY PrefixOfPath
<1>2. vis \subseteq Menus /\ less \subseteq vis /\ c \in Menus
  BY HangsType DEF OnePath
<1>3. IsFiniteSet(vis)
  BY <1>2, FiniteVis
<1>4. Cardinality(vis) = Cardinality(less) + 1 /\ Cardinality(less) \in Nat
  <2>1. IsFiniteSet(less) /\ c \notin less /\ vis = less \union {c}
    BY <1>2, <1>3, FS_Subset
  <2>2. QED
    BY <2>1, FS_AddElement, FS_CardinalityType
<1>5. AboveIn(vis, c) = less
  BY <1>2 DEF AboveIn, IsTree
<1>6. Rank(vis, c) = Cardinality(less)
  BY <1>5 DEF Rank
<1> DEFINE p == PathOf(vis)
           q == PathOf(less)
           n == Cardinality(less)
<1>7. /\ p \in Seq(Menus) /\ Len(p) = n + 1 /\ q \in Seq(Menus) /\ Len(q) = n
      /\ p[n + 1] = c
  BY <1>1, <1>4, <1>6, PathOfFacts
<1>8. q = SubSeq(p, 1, n)
  BY <1>1
<1> HIDE DEF p, q, n
<1>9. \A k \in 1 .. n : q[k] = p[k]
  BY <1>7, <1>8
<1>10. n \in Nat
  BY <1>4 DEF n
<1>11. /\ Append(q, c) \in Seq(Menus) /\ Len(Append(q, c)) = n + 1
       /\ \A k \in 1 .. n : Append(q, c)[k] = p[k]
       /\ Append(q, c)[n + 1] = c
  BY <1>2, <1>7, <1>9, AppendProperties
<1>12. \A k \in 1 .. n + 1 : Append(q, c)[k] = p[k]
  BY <1>7, <1>10, <1>11
<1>13. p = Append(q, c)
  BY <1>7, <1>11, <1>12, SeqEqual
<1>14. QED
  BY <1>1, <1>13 DEF p, q
-----------------------------------------------------------------------------
(* What the steps of a patient user do to the path. *)

PathInv == TypeOK /\ CalmInv /\ OneOpenPerMenu /\ SelectionIsSelectable

LEMMA PathInvIsPath ==
  PathInv => /\ OnePath(visible)
             /\ selection # NoItem => selection \in Selectable /\ selection[1] \in visible
BY DEF PathInv, CalmInv, OneOpenPerMenu, OnePath, SelectedShown, SelectionIsSelectable,
       Selectable

LEMMA AppearsPath ==
  ASSUME IsTree, PathInv, PathInv', Appears
  PROVE  Path!Appear
<1>1. VisiblePath = << >>
  <2>1. Cardinality(visible) = 0
    BY FS_EmptySet DEF Appears
  <2>2. PathOf(visible) \in Seq(Menus) /\ Len(PathOf(visible)) = 0
    BY <2>1, PathInvIsPath, PathOfFacts
  <2>3. QED
    BY <2>2, PathIsVisiblePath
<1>2. VisiblePath' = << Root >>
  <2>1. visible' = {Root} /\ Cardinality(visible') = 1
    BY FS_Singleton DEF Appears
  <2>2. OnePath(visible')
    BY DEF PathInv, CalmInv, OneOpenPerMenu, OnePath
  <2>3. /\ PathOf(visible') \in Seq(Menus) /\ Len(PathOf(visible')) = 1
        /\ PathOf(visible')[1] \in visible'
    <3> DEFINE v == visible'
    <3>1. OnePath(v) /\ Cardinality(v) = 1 /\ 1 \in 1 .. 1
      BY <2>1, <2>2
    <3> HIDE DEF v
    <3>2. PathOf(v) \in Seq(Menus) /\ Len(PathOf(v)) = 1 /\ PathOf(v)[1] \in v
      BY <3>1, PathOfFacts
    <3>3. QED
      BY <3>2 DEF v
  <2>4. VisiblePath' = PathOf(visible')
    BY DEF VisiblePath, PathOf, Rank, AboveIn
  <2>5. QED
    BY <2>1, <2>3, <2>4
<1>3. selection' \in {i \in Selectable : i[1] = Root} \union {NoItem}
  <2>1. selection' # NoItem => selection' \in Selectable /\ selection'[1] = Root
    BY DEF PathInv, SelectionIsSelectable, Selectable, Appears
  <2>2. QED
    BY <2>1
<1>4. QED
  BY <1>1, <1>2, <1>3 DEF Path!Appear

LEMMA GoesPath ==
  ASSUME IsTree, PathInv, PathInv', Goes
  PROVE  \E i \in Selectable : Path!Highlight(i)
<1> DEFINE i == selection'
           n == Cardinality(visible')
<1>1. i \in Selectable /\ i[1] \in visible'
  BY NoItemFacts DEF PathInv, SelectionIsSelectable, Selectable, Goes
<1>2. OnePath(visible) /\ OnePath(visible') /\ visible' \subseteq visible
  BY PathInvIsPath DEF Goes, PathInv, CalmInv, OneOpenPerMenu, OnePath
<1>3. /\ PathOf(visible') = SubSeq(PathOf(visible), 1, n)
      /\ n \in 0 .. Cardinality(visible)
      /\ \A m \in visible' : Rank(visible', m) = Rank(visible, m)
  BY <1>2, PrefixOfPath DEF OnePath
<1>4. VisiblePath = PathOf(visible) /\ VisiblePath' = PathOf(visible')
  BY DEF VisiblePath, PathOf, Rank, AboveIn
<1>5. /\ Len(PathOf(visible)) = Cardinality(visible) /\ Cardinality(visible) \in Nat
      /\ PathOf(visible)[Rank(visible, i[1]) + 1] = i[1]
  BY <1>1, <1>2, PathOfFacts
<1>6. Rank(visible', i[1]) + 1 \in 1 .. n
  BY <1>1, <1>2, RankBijection
<1>7. \E k \in 1 .. n : PathOf(visible)[k] = i[1]
  BY <1>1, <1>3, <1>5, <1>6
<1>8. n \in 1 .. Len(PathOf(visible))
  BY <1>3, <1>5, <1>6
<1> HIDE DEF n
<1>9. Path!On(i, n)
  BY <1>1, <1>4, <1>7, <1>8 DEF Path!On
<1>10. Path!Highlight(i)
  BY <1>3, <1>4, <1>8, <1>9 DEF Path!Highlight
<1>11. QED
  BY <1>1, <1>10

LEMMA OpensPath ==
  ASSUME IsTree, PathInv, PathInv', Opens
  PROVE  \E i \in Selectable : Path!Unfold(i)
<1> DEFINE i == selection'
           m == i[1]
           c == At(i).submenu
           kept == close_all_submenus(visible, m)
           n == Cardinality(kept)
<1>1. i \in Selectable /\ m \in visible /\ i \in Items /\ c # 0
  BY NoItemFacts DEF PathInv, SelectionIsSelectable, Selectable, Opens
<1>2. m \in Menus /\ c \in Below[m] /\ c \in Menus
  BY <1>1, ItemFacts, ChildFacts, BelowFacts
<1>3. OnePath(visible) /\ OnePath(visible') /\ visible' = kept \union {c}
  BY PathInvIsPath DEF Opens, open_submenu, PathInv, CalmInv, OneOpenPerMenu, OnePath
<1>4. kept = visible \ Below[m] /\ m \in kept
  BY <1>1, <1>2 DEF close_all_submenus, IsTree
<1>5. c \notin kept
  BY <1>2, <1>4
<1>6. Hangs(kept)
  BY <1>2, <1>3, CloseAllHangs DEF OnePath
<1>7. \A x \in kept : x = m \/ m \in Below[x]
  BY <1>1, <1>3, <1>4, PathOrdered
<1>8. \A x \in kept : c \in Below[x]
  <2>1. kept \subseteq Menus
    BY <1>6, HangsType
  <2>2. QED
    BY <1>2, <1>7, <2>1, BelowTransitive
<1> HIDE DEF kept
<1>9. PathOf(visible') = Append(PathOf(kept), c) /\ OnePath(kept)
  <2>1. kept = visible' \ {c} /\ c \in visible'
    BY <1>3, <1>5
  <2>2. QED
    BY <1>3, <1>6, <1>8, <2>1, PathAppend
<1>10. /\ PathOf(kept) = SubSeq(PathOf(visible), 1, n)
       /\ n \in 0 .. Cardinality(visible)
       /\ Rank(kept, m) = Rank(visible, m)
  BY <1>3, <1>4, <1>6, PrefixOfPath
<1>11. Rank(kept, m) + 1 = n
  <2>1. AboveIn(kept, m) = kept \ {m}
    BY <1>4, <1>7, <1>2 DEF AboveIn, IsTree
  <2>2. kept \subseteq Menus
    BY <1>6, HangsType
  <2>3. IsFiniteSet(kept) /\ Cardinality(kept) \in Nat
    BY <2>2, FiniteVis
  <2>4. Cardinality(kept \ {m}) = Cardinality(kept) - 1
    BY <1>4, <2>3, FS_RemoveElement
  <2>5. QED
    BY <2>1, <2>3, <2>4 DEF Rank
<1>12. /\ Len(PathOf(visible)) = Cardinality(visible) /\ Cardinality(visible) \in Nat
       /\ PathOf(visible)[Rank(visible, m) + 1] = m
  BY <1>1, <1>3, PathOfFacts
<1>13. PathOf(visible)[n] = m
  BY <1>10, <1>11, <1>12
<1>14. n \in 1 .. Len(PathOf(visible))
  <2>1. Rank(kept, m) + 1 \in 1 .. Cardinality(kept)
    BY <1>4, <1>9, RankBijection
  <2>2. QED
    BY <1>10, <1>11, <1>12, <2>1
<1>15. VisiblePath = PathOf(visible) /\ VisiblePath' = PathOf(visible')
  BY DEF VisiblePath, PathOf, Rank, AboveIn
<1> HIDE DEF n
<1>16. Path!Unfold(i)
  <2>1. i \in {j \in Items : At(j).submenu # 0}
    BY <1>1
  <2>2. VisiblePath' = Append(SubSeq(VisiblePath, 1, n), c)
    BY <1>9, <1>10, <1>15
  <2>3. QED
    BY <1>1, <1>13, <1>14, <1>15, <2>1, <2>2 DEF Path!Unfold
<1>17. QED
  BY <1>1, <1>16

LEMMA RunDisplayStays == [CalmNext]_vars /\ run_display' => run_display
<1>1. ASSUME NEW key \in Keys, menu_handle_key(key), run_display'
      PROVE  run_display
  BY <1>1 DEF menu_handle_key, Keys, MoveKey, RightKey, LeftKey, ReturnKey,
     EscapeKey, TextKey, Dies
<1>2. PointerFrame /\ run_display' => run_display
  BY DEF PointerFrame, handle_wl_pointer_frame, ReleaseWild, Dies,
     menu_handle_button_pressed, menu_handle_button_released
<1>3. timer_hover_clear \/ FrameDone \/ LoopExit \/ ConnectionLost \/ UNCHANGED vars
        => run_display' = run_display \/ ~ run_display'
  BY DEF timer_hover_clear, FrameDone, LoopExit, ConnectionLost, vars
<1>4. QED
  BY <1>1, <1>2, <1>3 DEF CalmNext, OtherSteps

LEMMA PathStep ==
  ASSUME NoEmptyMenus, NoneBeginsWithSeparator, IsTree,
         PathInv, PathInv', [CalmNext]_vars
  PROVE  Path!Next
<1>1. Path!Move
  <2>1. CASE Still
    BY <2>1 DEF Still, Path!Move, VisiblePath
  <2>2. CASE Appears
    BY <2>2, AppearsPath DEF Path!Move
  <2>3. CASE Goes
    BY <2>3, GoesPath DEF Path!Move
  <2>4. CASE Opens
    BY <2>4, OpensPath DEF Path!Move
  <2>5. QED
    BY <2>1, <2>2, <2>3, <2>4, CalmStep DEF PathInv
<1>2. Path!Run \/ Path!Leave \/ UNCHANGED << launched, ~ run_display >>
  <2>1. run_display \in BOOLEAN /\ run_display' \in BOOLEAN
    BY DEF PathInv, TypeOK
  <2>2. CASE launched' # launched
    <3>1. launched' = selection' /\ selection' # NoItem /\ run_display' = FALSE
      BY <2>2, LaunchStep
    <3>2. QED
      BY <3>1 DEF Path!Run
  <2>3. CASE launched' = launched /\ run_display' = FALSE
    BY <2>3 DEF Path!Leave
  <2>4. CASE launched' = launched /\ run_display' = TRUE
    BY <2>1, <2>4, RunDisplayStays
  <2>5. QED
    BY <2>1, <2>2, <2>3, <2>4
<1>3. QED
  BY <1>1, <1>2 DEF Path!Next

(* Whatever the handlers of keys, pointer frames and hover timer do for a  *)
(* patient user is a step along the path of menus: VisiblePath is a        *)
(* refinement mapping, for every tree of menus.                            *)
THEOREM HandlersFollowPath ==
  ASSUME NoEmptyMenus, NoneBeginsWithSeparator, IsTree
  PROVE  CalmSpec => ImplementsPath
<1>1. Init => Path!Init
  <2>1. ASSUME Init PROVE VisiblePath = << >>
    <3>1. Cardinality(visible) = 0
      BY <2>1, FS_EmptySet DEF Init
    <3>2. OnePath(visible)
      BY <2>1, CalmInvInductive DEF CalmInv, OnePath, Init
    <3>3. PathOf(visible) \in Seq(Menus) /\ Len(PathOf(visible)) = 0
      BY <3>1, <3>2, PathOfFacts
    <3>4. QED
      BY <3>3, PathIsVisiblePath
  <2>2. QED
    BY <2>1 DEF Init, Path!Init
<1>2. CalmSpec => []PathInv
  <2>1. CalmSpec => Spec
    <3>1. [CalmNext]_vars => [Next]_vars
      BY CalmIsNext
    <3>2. QED
      BY <3>1, PTL DEF CalmSpec, Spec
  <2>2. Init => SelectionIsSelectable
    BY DEF Init, SelectionIsSelectable
  <2>3. CalmInv /\ SelectionIsSelectable /\ [CalmNext]_vars => SelectionIsSelectable'
    <3>1. ASSUME CalmInv, SelectionIsSelectable, [CalmNext]_vars
          PROVE  SelectionIsSelectable'
      <4>1. SelectsSelectable
        BY <3>1, CalmStep
      <4>2. QED
        BY <3>1, <4>1 DEF SelectsSelectable, SelectionIsSelectable, At
    <3>2. QED
      BY <3>1
  <2>4. QED
    BY <2>1, <2>2, <2>3, CalmInvAlways, OneSubmenuAtATime, TypeCorrect, PTL DEF CalmSpec, PathInv
<1>3. PathInv /\ PathInv' /\ [CalmNext]_vars => [Path!Next]_Path!vars
  BY PathStep
<1>4. QED
  BY <1>1, <1>2, <1>3, PTL DEF CalmSpec, ImplementsPath, Path!Spec
-----------------------------------------------------------------------------
(* The loop over the entries of a menu, and into its open submenus, ends:  *)
(* there are weights that decrease.                                        *)
LEMMA LengthsBounded == \E l \in Nat : \A m \in Menus : Len(Entries[m]) <= l
<1> DEFINE S == {n \in Nat : \E l \in Nat : \A m \in Menus : m <= n => Len(Entries[m]) <= l}
<1>1. \A m \in Menus : Len(Entries[m]) \in Nat /\ m \in Nat \ {0}
  BY MenuAssumption DEF Menus
<1>2. 0 \in S
  BY <1>1
<1>3. ASSUME NEW n \in S PROVE n + 1 \in S
  <2>1. PICK l \in Nat : \A m \in Menus : m <= n => Len(Entries[m]) <= l
    OBVIOUS
  <2>2. CASE n + 1 \in Menus
    <3>1. PICK k \in Nat : k >= l /\ k >= Len(Entries[n + 1])
      <4>1. l >= Len(Entries[n + 1]) \/ Len(Entries[n + 1]) >= l
        BY <1>1, <2>2
      <4>2. QED
        BY <1>1, <2>2, <4>1
    <3>2. \A m \in Menus : m <= n + 1 => Len(Entries[m]) <= k
      BY <1>1, <2>1, <3>1
    <3>3. QED
      BY <3>2
  <2>3. CASE n + 1 \notin Menus
    BY <1>1, <2>1, <2>3
  <2>4. QED
    BY <2>2, <2>3
<1>4. S \in SUBSET Nat
  OBVIOUS
<1> HIDE DEF S
<1>5. NMenus \in S
  BY <1>2, <1>3, <1>4, InductionBySet, MenuAssumption
<1>6. QED
  BY <1>1, <1>5 DEF S, Menus

LEMMA ProductGrows ==
  ASSUME NEW a \in Nat, NEW b \in Nat, NEW c \in Nat, a < c
  PROVE  a * b + b <= c * b
<1>1. a + 1 <= c
  OBVIOUS
<1>2. (a + 1) * b <= c * b
  BY <1>1
<1>3. (a + 1) * b = a * b + b
  OBVIOUS
<1>4. QED
  BY <1>2, <1>3

LEMMA PlaceFacts ==
  /\ Items \subseteq Places
  /\ \A i \in Places : i[1] \in Menus /\ i[2] \in 0 .. Len(Entries[i[1]]) /\ i = << i[1], i[2] >>
  /\ \A m \in Menus : \A k \in 0 .. Len(Entries[m]) : << m, k >> \in Places
  /\ \A m \in Menus : LastOf(m) \in Places
<1>1. \A m \in Menus : Len(Entries[m]) \in Nat
  BY MenuAssumption
<1>2. ASSUME NEW m \in Menus, NEW k \in 0 .. Len(Entries[m]) PROVE << m, k >> \in Places
  <2>1. CASE k = 0
    BY <2>1 DEF Places, ListHead
  <2>2. CASE k # 0
    BY <1>1, <2>2, MakeItem DEF Places
  <2>3. QED
    BY <2>1, <2>2
<1>3. \A i \in Places : i[1] \in Menus /\ i[2] \in 0 .. Len(Entries[i[1]]) /\ i = << i[1], i[2] >>
  BY <1>1, ItemFacts DEF Places, ListHead
<1>4. QED
  BY <1>1, <1>2, <1>3 DEF Places, LastOf

(* The weights of a tree: the loop goes from each place to lighter ones.   *)
Weighs(w) ==
  /\ w \in [Places -> Nat]
  /\ \A i \in Items : /\ w[<< i[1], i[2] - 1 >>] < w[i]
                      /\ At(i).submenu # 0 => w[LastOf(At(i).submenu)] < w[i]

LEMMA WeightsExist ==
  ASSUME IsTree
  PROVE  \E w : Weighs(w) /\ \E n \in Nat : \A i \in Places : w[i] < n
<1>1. PICK l \in Nat : \A m \in Menus : Len(Entries[m]) <= l
  BY LengthsBounded
<1> DEFINE size(m) == Cardinality(Below[m])
           w == [i \in Places |-> size(i[1]) * (l + 1) + i[2]]
<1>2. IsFiniteSet(Menus) /\ Cardinality(Menus) = NMenus
  BY FS_Interval, MenuAssumption DEF Menus
<1>3. \A m \in Menus : IsFiniteSet(Below[m]) /\ size(m) \in Nat /\ size(m) <= NMenus
  BY <1>2, BelowFacts, FS_Subset, FS_CardinalityType
<1>4. ASSUME NEW m \in Menus, NEW c \in Children(m) PROVE size(c) < size(m)
  <2>1. c \in Menus /\ c \in Below[m] /\ c \notin Below[c]
    BY OpenerOfChild, BelowFacts DEF IsTree
  <2>2. Below[c] \union {c} \subseteq Below[m]
    BY <2>1, BelowTransitive
  <2>3. Cardinality(Below[c] \union {c}) = size(c) + 1
    BY <1>3, <2>1, FS_AddElement
  <2>4. Cardinality(Below[c] \union {c}) <= size(m)
    BY <1>3, <2>2, FS_Subset
  <2>5. QED
    BY <1>3, <2>1, <2>3, <2>4
<1> HIDE DEF size
<1>5. \A m \in Menus : size(m) * (l + 1) \in Nat
  BY <1>3
<1>6. w \in [Places -> Nat]
  BY <1>5, PlaceFacts
<1>7. ASSUME NEW i \in Items
      PROVE  /\ w[<< i[1], i[2] - 1 >>] < w[i]
             /\ At(i).submenu # 0 => w[LastOf(At(i).submenu)] < w[i]
  <2>1. i[1] \in Menus /\ i[2] \in 1 .. Len(Entries[i[1]]) /\ i \in Places
    BY ItemFacts, PlaceFacts
  <2>2. Len(Entries[i[1]]) \in Nat
    BY <2>1, MenuAssumption
  <2>3. << i[1], i[2] - 1 >> \in Places
    BY <2>1, <2>2, PlaceFacts
  <2>4. w[i] = size(i[1]) * (l + 1) + i[2]
    BY <2>1
  <2>5. w[<< i[1], i[2] - 1 >>] = size(i[1]) * (l + 1) + (i[2] - 1)
    BY <2>3
  <2>6. ASSUME At(i).submenu # 0 PROVE w[LastOf(At(i).submenu)] < w[i]
    <3> DEFINE c == At(i).submenu
    <3>1. c \in Menus /\ c \in Children(i[1])
      BY <2>6, ItemFacts, ChildFacts
    <3>2. w[LastOf(c)] = size(c) * (l + 1) + Len(Entries[c])
      BY <3>1, PlaceFacts DEF LastOf
    <3>3. size(c) * (l + 1) + (l + 1) <= size(i[1]) * (l + 1)
      <4>1. /\ size(c) \in Nat /\ size(i[1]) \in Nat /\ l + 1 \in Nat
            /\ size(c) < size(i[1])
        BY <1>3, <1>4, <2>1, <3>1
      <4>2. QED
        BY <4>1, ProductGrows
    <3>4. Len(Entries[c]) \in Nat /\ Len(Entries[c]) <= l
      BY <1>1, <3>1, MenuAssumption
    <3>5. size(c) * (l + 1) \in Nat /\ size(i[1]) * (l + 1) \in Nat
      BY <1>5, <2>1, <3>1
    <3>6. size(c) * (l + 1) + Len(Entries[c]) < size(i[1]) * (l + 1) + i[2]
      BY <2>1, <2>2, <3>3, <3>4, <3>5
    <3>7. QED
      BY <2>4, <3>2, <3>6
  <2>7. QED
    BY <1>5, <2>1, <2>2, <2>4, <2>5, <2>6
<1>8. \A i \in Places : w[i] < (NMenus + 1) * (l + 1)
  <2> TAKE i \in Places
  <2>1. i[1] \in Menus /\ i[2] \in Nat /\ i[2] <= l
    BY <1>1, PlaceFacts, MenuAssumption
  <2>2. size(i[1]) * (l + 1) + (l + 1) <= (NMenus + 1) * (l + 1)
    <3>1. /\ size(i[1]) \in Nat /\ NMenus + 1 \in Nat /\ l + 1 \in Nat
          /\ size(i[1]) < NMenus + 1
      BY <1>3, <2>1, MenuAssumption
    <3>2. QED
      BY <3>1, ProductGrows
  <2>3. w[i] = size(i[1]) * (l + 1) + i[2]
    OBVIOUS
  <2>4. QED
    BY <1>5, <2>1, <2>2, <2>3, MenuAssumption
<1>9. (NMenus + 1) * (l + 1) \in Nat
  BY MenuAssumption
<1> HIDE DEF w
<1>10. Weighs(w)
  BY <1>6, <1>7 DEF Weighs
<1>11. QED
  BY <1>8, <1>9, <1>10

Calls == Positions \X Places \X Screen

LEMMA RoundPlaces ==
  ASSUME NEW i \in Items
  PROVE  /\ << i[1], i[2] - 1 >> \in Places
         /\ At(i).submenu # 0 => LastOf(At(i).submenu) \in Places
<1>1. i[1] \in Menus /\ i[2] \in 1 .. Len(Entries[i[1]]) /\ Len(Entries[i[1]]) \in Nat
  BY ItemFacts, MenuAssumption
<1>2. i[2] - 1 \in 0 .. Len(Entries[i[1]])
  BY <1>1
<1>3. QED
  BY <1>1, <1>2, ItemFacts, PlaceFacts

LEMMA ScreenFacts ==
  ASSUME NEW s \in Screen
  PROVE  /\ s.visible \subseteq Menus /\ 0 \notin s.visible
         /\ s.selection \in Places \union {NoItem}
         /\ s = [visible |-> s.visible, selection |-> s.selection]
BY MenuAssumption DEF Screen, Menus

LEMMA RoundType ==
  ASSUME NEW f \in [Calls -> Screen], NEW p \in Positions, NEW i \in Places,
         NEW s \in Screen
  PROVE  MotionRound(f, p, i, s) \in Screen
<1>1. CASE i \notin Items
  BY <1>1 DEF MotionRound
<1>2. CASE i \in Items
  <2> DEFINE sub == At(i).submenu
             before == << i[1], i[2] - 1 >>
  <2>1. before \in Places /\ (sub # 0 => LastOf(sub) \in Places)
    BY <1>2, RoundPlaces
  <2>2. \A t \in Screen : f[<< p, before, t >>] \in Screen
    BY <2>1 DEF Calls
  <2>3. sub \in s.visible => f[<< p, LastOf(sub), s >>] \in Screen
    BY <2>1, ScreenFacts DEF Calls
  <2>4. [visible   |-> IF sub = 0 THEN close_all_submenus(s.visible, i[1]) ELSE s.visible,
         selection |-> i] \in Screen
    BY <1>2, PlaceFacts, ScreenFacts DEF Screen, close_all_submenus
  <2> HIDE DEF before, sub
  <2>5. QED
    BY <1>2, <2>2, <2>3, <2>4 DEF MotionRound, before, sub
<1>3. QED
  BY <1>1, <1>2

(* A round depends on the rounds at lighter places only. *)
LEMMA RoundDepends ==
  ASSUME NEW w, Weighs(w),
         NEW f, NEW g \in [Calls -> Screen], NEW p \in Positions, NEW i \in Places,
         \A j \in Places : w[j] < w[i] =>
           \A t \in Screen : f[<< p, j, t >>] = g[<< p, j, t >>],
         NEW s \in Screen
  PROVE  MotionRound(f, p, i, s) = MotionRound(g, p, i, s)
<1>1. CASE i \notin Items
  BY <1>1 DEF MotionRound
<1>2. CASE i \in Items
  <2> DEFINE sub == At(i).submenu
             before == << i[1], i[2] - 1 >>
  <2>1. before \in Places /\ (sub # 0 => LastOf(sub) \in Places)
    BY <1>2, RoundPlaces
  <2>2. \A t \in Screen : f[<< p, before, t >>] = g[<< p, before, t >>]
    BY <1>2, <2>1 DEF Weighs
  <2>3. sub \in s.visible => /\ f[<< p, LastOf(sub), s >>] = g[<< p, LastOf(sub), s >>]
                             /\ g[<< p, LastOf(sub), s >>] \in Screen
    <3>1. ASSUME sub \in s.visible PROVE w[LastOf(sub)] < w[i] /\ LastOf(sub) \in Places
      BY <1>2, <2>1, <3>1, ScreenFacts DEF Weighs
    <3>2. QED
      BY <3>1 DEF Calls
  <2> HIDE DEF before, sub
  <2>4. QED
    BY <1>2, <2>2, <2>3 DEF MotionRound, before, sub
<1>3. QED
  BY <1>1, <1>2

(* The recursive function is what its definition says.                     *)
LEMMA MotionLoopExists ==
  ASSUME IsTree
  PROVE  /\ MotionLoop \in [Calls -> Screen]
         /\ \A p \in Positions, i \in Places, s \in Screen :
              MotionLoop[<< p, i, s >>] = MotionRound(MotionLoop, p, i, s)
<1>1. PICK w : Weighs(w) /\ \E n \in Nat : \A i \in Places : w[i] < n
  BY WeightsExist
<1>2. PICK top \in Nat : \A i \in Places : w[i] < top
  BY <1>1
<1> DEFINE T == [Calls -> Screen]
           once(f) == [x \in Calls |-> MotionRound(f, x[1], x[2], x[3])]
           base == [x \in Calls |-> x[3]]
           step == [n \in Nat |-> [f \in T |-> once(f)]]
<1>3. \A f \in T : once(f) \in T
  BY RoundType DEF Calls
<1>4. base \in T /\ step \in [Nat -> [T -> T]]
  BY <1>3 DEF Calls
<1> HIDE DEF T, base
<1>5. PICK r \in RecursiveOver(T, base, step, top + 1) : TRUE
  <2>1. top + 1 \in Nat
    OBVIOUS
  <2> HIDE DEF step
  <2>2. RecursiveOver(T, base, step, top + 1) # {}
    BY <1>4, <2>1, RecursionExists
  <2>3. QED
    BY <2>2
<1>6. r \in [0 .. top + 1 -> T] /\ \A n \in 0 .. top : r[n + 1] = once(r[n])
  <2>1. r \in [0 .. top + 1 -> T] /\ \A k \in 1 .. top + 1 : r[k] = step[k][r[k - 1]]
    BY DEF RecursiveOver
  <2>2. ASSUME NEW n \in 0 .. top PROVE r[n + 1] = once(r[n])
    <3>1. n + 1 \in 1 .. top + 1 /\ n + 1 \in Nat /\ (n + 1) - 1 = n /\ r[n] \in T
      BY <2>1
    <3>2. r[n + 1] = step[n + 1][r[n]]
      BY <2>1, <3>1
    <3> HIDE DEF once
    <3>3. QED
      BY <3>1, <3>2
  <2>3. QED
    BY <2>1, <2>2
<1> HIDE DEF step
<1>7. \A n \in 0 .. top : \A p \in Positions, i \in Places, s \in Screen :
        r[n + 1][<< p, i, s >>] = MotionRound(r[n], p, i, s)
  BY <1>6 DEF Calls
<1> HIDE DEF once
<1> DEFINE Stable(n) ==
             \A i \in Places : w[i] < n =>
               \A p \in Positions, s \in Screen : r[n + 1][<< p, i, s >>] = r[n][<< p, i, s >>]
           S == {n \in Nat : n <= top => Stable(n)}
<1>8. w \in [Places -> Nat]
  BY <1>1 DEF Weighs
<1>9. 0 \in S
  BY <1>8
<1>10. ASSUME NEW n \in S PROVE n + 1 \in S
  <2> SUFFICES ASSUME n + 1 <= top PROVE Stable(n + 1)
    OBVIOUS
  <2>1. n \in 0 .. top /\ n + 1 \in 0 .. top /\ Stable(n)
    BY <1>2
  <2>2. r[n] \in T /\ r[n + 1] \in T
    BY <1>6, <2>1
  <2> SUFFICES ASSUME NEW i \in Places, w[i] < n + 1,
                      NEW p \in Positions, NEW s \in Screen
               PROVE  r[(n + 1) + 1][<< p, i, s >>] = r[n + 1][<< p, i, s >>]
    OBVIOUS
  <2>3. \A j \in Places : w[j] < w[i] =>
          \A t \in Screen : r[n + 1][<< p, j, t >>] = r[n][<< p, j, t >>]
    <3>1. \A j \in Places : w[j] < w[i] => w[j] < n
      BY <1>8, <2>1
    <3>2. QED
      BY <2>1, <3>1
  <2> HIDE DEF Stable
  <2>4. MotionRound(r[n + 1], p, i, s) = MotionRound(r[n], p, i, s)
    BY <1>1, <2>2, <2>3, RoundDepends DEF T
  <2>5. QED
    BY <1>7, <2>1, <2>4
<1>11. S \in SUBSET Nat
  OBVIOUS
<1> HIDE DEF S
<1>12. top \in S
  BY <1>9, <1>10, <1>11, InductionBySet
<1>13. r[top + 1] = r[top] /\ r[top] \in T
  <2>1. r[top] \in T /\ r[top + 1] \in T
    BY <1>6
  <2>2. \A x \in Calls : r[top + 1][x] = r[top][x]
    BY <1>2, <1>12 DEF S, Calls
  <2>3. QED
    BY <2>1, <2>2 DEF T
<1>14. r[top] = [x \in Calls |-> MotionRound(r[top], x[1], x[2], x[3])]
  BY <1>6, <1>13 DEF once
<1>15. MotionLoop = [x \in Calls |-> MotionRound(MotionLoop, x[1], x[2], x[3])]
  <2>1. MotionLoop = CHOOSE f : f = [x \in Calls |-> MotionRound(f, x[1], x[2], x[3])]
    BY DEF MotionLoop, Calls
  <2>2. \E f : f = [x \in Calls |-> MotionRound(f, x[1], x[2], x[3])]
    BY <1>14
  <2>3. QED
    BY <2>1, <2>2
<1> DEFINE g == r[top]
           Same(n) == \A i \in Places : w[i] < n =>
                        \A p \in Positions, s \in Screen :
                          MotionLoop[<< p, i, s >>] = g[<< p, i, s >>]
           U == {n \in Nat : Same(n)}
<1>16. \A p \in Positions, i \in Places, s \in Screen :
         /\ MotionLoop[<< p, i, s >>] = MotionRound(MotionLoop, p, i, s)
         /\ g[<< p, i, s >>] = MotionRound(g, p, i, s)
  <2>1. \A p \in Positions, i \in Places, s \in Screen :
          MotionLoop[<< p, i, s >>] = MotionRound(MotionLoop, p, i, s)
    BY <1>15 DEF Calls
  <2>2. \A p \in Positions, i \in Places, s \in Screen :
          g[<< p, i, s >>] = MotionRound(g, p, i, s)
    BY <1>14 DEF Calls
  <2>3. QED
    BY <2>1, <2>2
<1>17. g \in [Calls -> Screen]
  BY <1>13 DEF T
<1> HIDE DEF g
<1>18. 0 \in U
  BY <1>8
<1>19. ASSUME NEW n \in U PROVE n + 1 \in U
  <2> SUFFICES ASSUME NEW i \in Places, w[i] < n + 1,
                      NEW p \in Positions, NEW s \in Screen
               PROVE  MotionLoop[<< p, i, s >>] = g[<< p, i, s >>]
    OBVIOUS
  <2>1. \A j \in Places : w[j] < w[i] =>
          \A t \in Screen : MotionLoop[<< p, j, t >>] = g[<< p, j, t >>]
    <3>1. \A j \in Places : w[j] < w[i] => w[j] < n
      BY <1>8
    <3>2. QED
      BY <3>1
  <2> HIDE DEF U
  <2>2. MotionRound(MotionLoop, p, i, s) = MotionRound(g, p, i, s)
    BY <1>1, <1>17, <2>1, RoundDepends
  <2>3. QED
    BY <1>16, <2>2
<1>20. U \in SUBSET Nat
  OBVIOUS
<1> HIDE DEF U
<1>21. top \in U
  BY <1>18, <1>19, <1>20, InductionBySet
<1>22. \A p \in Positions, i \in Places, s \in Screen :
         MotionLoop[<< p, i, s >>] \in Screen
  <2>1. \A p \in Positions, i \in Places, s \in Screen :
          MotionLoop[<< p, i, s >>] = g[<< p, i, s >>]
    BY <1>2, <1>21 DEF U
  <2>2. QED
    BY <1>17, <2>1 DEF Calls
<1>23. MotionLoop \in [Calls -> Screen]
  <2> DEFINE body(x) == MotionRound(MotionLoop, x[1], x[2], x[3])
  <2>1. MotionLoop = [x \in Calls |-> body(x)]
    BY <1>15
  <2>2. \A x \in Calls : MotionLoop[x] \in Screen
    BY <1>22 DEF Calls
  <2> HIDE DEF body
  <2>3. \A x \in Calls : body(x) \in Screen
    BY <2>1, <2>2
  <2>4. QED
    BY <2>1, <2>3
<1>24. QED
  BY <1>16, <1>23
-----------------------------------------------------------------------------
(* What the loop over the list of one menu does. *)

After(p, i, s) == MotionLoop[<< p, i, s >>]

(* The loop stops at the entry under the pointer and selects it.           *)
Stop(m, p, s) ==
  [visible   |-> IF Entries[m][p.item[m]].submenu = 0 THEN s.visible \ Below[m]
                                                     ELSE s.visible,
   selection |-> << m, p.item[m] >>]

LEMMA OneRound ==
  ASSUME IsTree, NEW p \in Positions, NEW s \in Screen,
         NEW m \in Menus, NEW k \in 1 .. Len(Entries[m])
  PROVE  LET sub  == Entries[m][k].submenu
             open == sub \in s.visible
         IN  /\ p.item[m] # k =>
                  /\ open => LastOf(sub) \in Places
                  /\ After(p, << m, k >>, s) =
                       After(p, << m, k - 1 >>,
                             IF open THEN After(p, LastOf(sub), s) ELSE s)
             /\ p.item[m] = k => After(p, << m, k >>, s) =
                  IF ~ Entries[m][k].selectable \/ open
                    THEN After(p, << m, k - 1 >>, s) ELSE Stop(m, p, s)
<1> DEFINE i == << m, k >>
<1>1. i \in Items /\ i \in Places /\ At(i) = Entries[m][k]
  BY MakeItem, PlaceFacts DEF At
<1>2. MotionLoop[<< p, i, s >>] = MotionRound(MotionLoop, p, i, s)
  BY <1>1, MotionLoopExists
<1>3. Entries[m][k].submenu \in s.visible => LastOf(Entries[m][k].submenu) \in Places
  BY <1>1, RoundPlaces, ScreenFacts
<1>4. i[1] = m /\ i[2] = k
  OBVIOUS
<1> HIDE DEF i
<1>5. QED
  BY <1>1, <1>2, <1>3, <1>4 DEF MotionRound, After, Stop, close_all_submenus, i

LEMMA AtTheHead ==
  ASSUME IsTree, NEW p \in Positions, NEW s \in Screen, NEW m \in Menus
  PROVE  After(p, << m, 0 >>, s) = s
<1>1. << m, 0 >> \in Places /\ << m, 0 >> \notin Items
  BY NoItemFacts DEF Places, ListHead
<1>2. QED
  BY <1>1, MotionLoopExists DEF After, MotionRound

LEMMA AfterType ==
  ASSUME IsTree, NEW p \in Positions, NEW s \in Screen, NEW i \in Places
  PROVE  After(p, i, s) \in Screen
BY MotionLoopExists DEF After, Calls

(* It only hides menus. *)
LEMMA LoopShrinks ==
  ASSUME IsTree
  PROVE  \A i \in Places, p \in Positions, s \in Screen :
           After(p, i, s).visible \subseteq s.visible
<1>1. PICK w : Weighs(w) /\ \E n \in Nat : \A i \in Places : w[i] < n
  BY WeightsExist
<1>2. PICK top \in Nat : \A i \in Places : w[i] < top
  BY <1>1
<1>3. w \in [Places -> Nat]
  BY <1>1 DEF Weighs
<1> DEFINE Hides(i) == \A p \in Positions, s \in Screen :
                         After(p, i, s).visible \subseteq s.visible
           S == {n \in Nat : \A i \in Places : w[i] < n => Hides(i)}
<1>4. 0 \in S
  BY <1>3
<1>5. ASSUME NEW n \in S PROVE n + 1 \in S
  <2>1. ASSUME NEW i \in Places, w[i] < n + 1, NEW p \in Positions, NEW s \in Screen
        PROVE  After(p, i, s).visible \subseteq s.visible
    <3>1. ASSUME NEW j \in Places, w[j] < w[i], NEW t \in Screen
          PROVE  After(p, j, t).visible \subseteq t.visible /\ After(p, j, t) \in Screen
      <4>1. w[j] < n
        BY <1>3, <2>1, <3>1
      <4>2. QED
        BY <4>1, AfterType
    <3>2. CASE i \notin Items
      <4>1. MotionLoop[<< p, i, s >>] = MotionRound(MotionLoop, p, i, s)
        BY <2>1, MotionLoopExists
      <4>2. MotionRound(MotionLoop, p, i, s) = s
        BY <3>2 DEF MotionRound
      <4>3. QED
        BY <4>1, <4>2 DEF After
    <3>3. CASE i \in Items
      <4> DEFINE before == << i[1], i[2] - 1 >>
                 sub == Entries[i[1]][i[2]].submenu
      <4>1. /\ i[1] \in Menus /\ i[2] \in 1 .. Len(Entries[i[1]])
            /\ i = << i[1], i[2] >> /\ At(i).submenu = sub
        BY <3>3, ItemFacts DEF At
      <4>2. before \in Places /\ w[before] < w[i]
        BY <1>1, <3>3, RoundPlaces DEF Weighs
      <4>3. sub \in s.visible => LastOf(sub) \in Places /\ w[LastOf(sub)] < w[i]
        <5>1. sub # 0 => LastOf(sub) \in Places /\ w[LastOf(sub)] < w[i]
          BY <1>1, <3>3, <4>1, RoundPlaces DEF Weighs
        <5>2. QED
          BY <5>1, ScreenFacts
      <4> HIDE DEF before
      <4>4. /\ p.item[i[1]] # i[2] =>
                 After(p, i, s) = After(p, before, IF sub \in s.visible
                                                     THEN After(p, LastOf(sub), s) ELSE s)
            /\ p.item[i[1]] = i[2] => \/ After(p, i, s) = After(p, before, s)
                                      \/ After(p, i, s) = Stop(i[1], p, s)
        BY <4>1, OneRound DEF before
      <4>5. Stop(i[1], p, s).visible \subseteq s.visible
        BY DEF Stop
      <4> HIDE DEF sub
      <4>6. CASE p.item[i[1]] # i[2]
        <5>1. CASE sub \in s.visible
          <6>1. /\ After(p, LastOf(sub), s) \in Screen
                /\ After(p, LastOf(sub), s).visible \subseteq s.visible
            BY <3>1, <4>3, <5>1
          <6>2. After(p, before, After(p, LastOf(sub), s)).visible
                  \subseteq After(p, LastOf(sub), s).visible
            BY <3>1, <4>2, <6>1
          <6>3. QED
            BY <4>4, <4>6, <5>1, <6>1, <6>2
        <5>2. CASE sub \notin s.visible
          BY <3>1, <4>2, <4>4, <4>6, <5>2
        <5>3. QED
          BY <5>1, <5>2
      <4>7. CASE p.item[i[1]] = i[2]
        BY <3>1, <4>2, <4>4, <4>5, <4>7
      <4>8. QED
        BY <4>6, <4>7
    <3>4. QED
      BY <3>2, <3>3
  <2>2. \A i \in Places : w[i] < n + 1 => Hides(i)
    BY <2>1
  <2>3. n + 1 \in Nat
    BY <1>5
  <2> HIDE DEF Hides
  <2>4. QED
    BY <2>2, <2>3
<1>6. S \in SUBSET Nat
  OBVIOUS
<1> HIDE DEF S
<1>7. top \in S
  BY <1>4, <1>5, <1>6, InductionBySet
<1>8. QED
  BY <1>2, <1>7 DEF S

(* Without an open submenu from entry k on, it finds the entry under the   *)
(* pointer or nothing.                                                     *)
LEMMA LoopWithoutOpen ==
  ASSUME IsTree, NEW p \in Positions, NEW s \in Screen, NEW m \in Menus,
         NEW k \in 0 .. Len(Entries[m]),
         \A j \in 1 .. k : Entries[m][j].submenu \notin s.visible
  PROVE  After(p, << m, k >>, s) =
           IF p.item[m] \in 1 .. k /\ Entries[m][p.item[m]].selectable
             THEN Stop(m, p, s) ELSE s
<1> DEFINE b == p.item[m]
           Done(n) == After(p, << m, n >>, s) =
                        IF b \in 1 .. n /\ Entries[m][b].selectable
                          THEN Stop(m, p, s) ELSE s
           S == {n \in Nat : n <= k => Done(n)}
<1>1. Len(Entries[m]) \in Nat /\ k \in Nat
  BY MenuAssumption
<1>2. 0 \in S
  BY AtTheHead
<1>3. ASSUME NEW n \in S PROVE n + 1 \in S
  <2> SUFFICES ASSUME n + 1 <= k PROVE Done(n + 1)
    OBVIOUS
  <2>1. /\ n \in Nat /\ n + 1 \in 1 .. k /\ n + 1 \in 1 .. Len(Entries[m])
        /\ (n + 1) - 1 = n /\ n + 1 \notin 1 .. n
        /\ Done(n)
    BY <1>1
  <2>2. Entries[m][n + 1].submenu \notin s.visible
    BY <2>1
  <2>3. /\ b # n + 1 => After(p, << m, n + 1 >>, s) = After(p, << m, n >>, s)
        /\ b = n + 1 => After(p, << m, n + 1 >>, s) =
             IF ~ Entries[m][n + 1].selectable THEN After(p, << m, n >>, s) ELSE Stop(m, p, s)
    <3>1. LET l == n + 1
          IN  /\ b # l => After(p, << m, l >>, s) = After(p, << m, l - 1 >>, s)
              /\ b = l => After(p, << m, l >>, s) =
                   IF ~ Entries[m][l].selectable THEN After(p, << m, l - 1 >>, s)
                                                 ELSE Stop(m, p, s)
      BY <2>1, <2>2, OneRound
    <3>2. QED
      BY <2>1, <3>1
  <2>4. b \in 1 .. n + 1 <=> b \in 1 .. n \/ b = n + 1
    BY <2>1
  <2>5. Done(n)
    BY <2>1
  <2> HIDE DEF b, S
  <2>6. QED
    BY <2>1, <2>3, <2>4, <2>5
<1>4. S \in SUBSET Nat
  OBVIOUS
<1> HIDE DEF S
<1>5. k \in S
  BY <1>1, <1>2, <1>3, <1>4, InductionBySet
<1>6. QED
  BY <1>1, <1>5 DEF S

(* With one open submenu, that of entry c, it stops before it gets there,  *)
(* or passes it over because the pointer is on it, or recurs into it and   *)
(* goes on.                                                                *)
PastOpen(m, c, p, s) ==
  LET t == After(p, LastOf(Entries[m][c].submenu), s)
  IN  IF p.item[m] \in 1 .. c - 1 /\ Entries[m][p.item[m]].selectable
        THEN Stop(m, p, t) ELSE t

LEMMA LoopWithOpen ==
  ASSUME IsTree, NEW p \in Positions, NEW s \in Screen, NEW m \in Menus,
         NEW c \in 1 .. Len(Entries[m]), Entries[m][c].submenu \in s.visible,
         \A j \in 1 .. Len(Entries[m]) : j # c => Entries[m][j].submenu \notin s.visible,
         NEW k \in c .. Len(Entries[m])
  PROVE  After(p, << m, k >>, s) =
           IF p.item[m] \in c + 1 .. k /\ Entries[m][p.item[m]].selectable
             THEN Stop(m, p, s)
           ELSE IF p.item[m] = c THEN s
           ELSE PastOpen(m, c, p, s)
<1> DEFINE b == p.item[m]
           sub == Entries[m][c].submenu
           Done(n) == After(p, << m, n >>, s) =
                        IF b \in c + 1 .. n /\ Entries[m][b].selectable THEN Stop(m, p, s)
                        ELSE IF b = c THEN s ELSE PastOpen(m, c, p, s)
           S == {n \in Nat : c + n <= k => Done(c + n)}
<1>1. /\ Len(Entries[m]) \in Nat /\ k \in Nat /\ c \in Nat /\ c >= 1 /\ c <= k
      /\ c - 1 \in 0 .. Len(Entries[m]) /\ k - c \in Nat /\ c + (k - c) = k
  BY MenuAssumption
<1>2. b \in 0 .. Len(Entries[m])
  BY MenuAssumption
<1>3. \A j \in 1 .. c - 1 : j \in 1 .. Len(Entries[m]) /\ j # c
  BY <1>1
<1>4. Done(c)
  <2>1. /\ b # c => /\ LastOf(sub) \in Places
                    /\ After(p, << m, c >>, s) =
                         After(p, << m, c - 1 >>, After(p, LastOf(sub), s))
        /\ b = c => After(p, << m, c >>, s) = After(p, << m, c - 1 >>, s)
    BY OneRound
  <2>2. CASE b = c
    <3>1. After(p, << m, c - 1 >>, s) = s
      <4>1. b \notin 1 .. c - 1
        BY <1>1, <2>2
      <4> HIDE DEF b
      <4>2. QED
        BY <1>1, <1>3, <4>1, LoopWithoutOpen DEF b
    <3>2. b \notin c + 1 .. c
      BY <1>1
    <3>3. QED
      BY <2>1, <2>2, <3>1, <3>2
  <2>3. CASE b # c
    <3> DEFINE t == After(p, LastOf(sub), s)
    <3>1. t \in Screen /\ t.visible \subseteq s.visible
      BY <2>1, <2>3, AfterType, LoopShrinks
    <3>2. \A j \in 1 .. c - 1 : Entries[m][j].submenu \notin t.visible
      BY <1>3, <3>1
    <3> HIDE DEF t
    <3>3. After(p, << m, c - 1 >>, t) =
            IF b \in 1 .. c - 1 /\ Entries[m][b].selectable THEN Stop(m, p, t) ELSE t
      BY <1>1, <3>1, <3>2, LoopWithoutOpen
    <3>4. b \notin c + 1 .. c
      BY <1>1
    <3>5. QED
      BY <2>1, <2>3, <3>3, <3>4 DEF PastOpen, t
  <2>4. QED
    BY <2>2, <2>3
<1>5. 0 \in S
  BY <1>1, <1>4
<1>6. ASSUME NEW n \in S PROVE n + 1 \in S
  <2> SUFFICES ASSUME c + (n + 1) <= k PROVE Done(c + (n + 1))
    OBVIOUS
  <2> DEFINE l == c + n + 1
  <2>1. /\ l \in 1 .. Len(Entries[m]) /\ l - 1 = c + n /\ l # c /\ Done(c + n)
        /\ c + (n + 1) = l /\ l \notin c + 1 .. c + n
    BY <1>1
  <2>2. Entries[m][l].submenu \notin s.visible
    BY <2>1
  <2>3. b \in c + 1 .. l <=> b \in c + 1 .. c + n \/ b = l
    BY <1>1, <1>2, <2>1
  <2> HIDE DEF l
  <2>4. /\ b # l => After(p, << m, l >>, s) = After(p, << m, l - 1 >>, s)
        /\ b = l => After(p, << m, l >>, s) =
             IF ~ Entries[m][l].selectable THEN After(p, << m, l - 1 >>, s)
                                           ELSE Stop(m, p, s)
    BY <2>1, <2>2, OneRound
  <2>5. After(p, << m, l - 1 >>, s) = After(p, << m, c + n >>, s)
    BY <2>1
  <2>6. Done(c + n)
    BY <2>1
  <2> HIDE DEF b, S
  <2>7. Done(l)
    BY <2>1, <2>3, <2>4, <2>5, <2>6
  <2>8. QED
    BY <2>1, <2>7
<1>7. S \in SUBSET Nat
  OBVIOUS
<1> HIDE DEF S, Done
<1>8. k - c \in S
  BY <1>1, <1>5, <1>6, <1>7, InductionBySet
<1>9. Done(k)
  BY <1>1, <1>8 DEF S
<1>10. QED
  BY <1>9 DEF Done

OneOpen(vis) == \A m \in Menus : \A c, d \in Children(m) \intersect vis : c = d

(* The loop over a whole menu, in the words of AfterMotion.                *)
LEMMA LoopOfMenu ==
  ASSUME IsTree, NEW p \in Positions, NEW s \in Screen, OneOpen(s.visible),
         NEW m \in Menus
  PROVE  /\ (\A i \in Items : i[1] = m => ~ Recurs(s.visible, p, i)) =>
              After(p, LastOf(m), s) =
                IF Breaks(s.visible, p, m) THEN Stop(m, p, s) ELSE s
         /\ \A i \in Items : i[1] = m /\ Recurs(s.visible, p, i) =>
              LET t == After(p, LastOf(At(i).submenu), s)
              IN  After(p, LastOf(m), s) =
                    IF Breaks(s.visible, p, m) THEN Stop(m, p, t) ELSE t
<1> DEFINE n == Len(Entries[m])
           b == p.item[m]
           IsOpen(j) == Entries[m][j].submenu \in s.visible
<1>1. n \in Nat /\ b \in 0 .. n /\ LastOf(m) = << m, n >>
  BY MenuAssumption DEF LastOf
<1>2. \A i \in Items : i[1] = m =>
        i[2] \in 1 .. n /\ i = << m, i[2] >> /\ At(i) = Entries[m][i[2]]
  BY ItemFacts DEF At
<1>3. Breaks(s.visible, p, m) <=> b \in 1 .. n /\ Entries[m][b].selectable /\ ~ IsOpen(b)
  BY <1>1 DEF Breaks
<1>4. CASE \A j \in 1 .. n : ~ IsOpen(j)
  <2>1. After(p, LastOf(m), s) =
          IF b \in 1 .. n /\ Entries[m][b].selectable THEN Stop(m, p, s) ELSE s
    BY <1>1, <1>4, LoopWithoutOpen
  <2>2. \A i \in Items : i[1] = m => ~ Recurs(s.visible, p, i)
    BY <1>2, <1>4 DEF Recurs
  <2>3. QED
    BY <1>3, <1>4, <2>1, <2>2
<1>5. CASE \E j \in 1 .. n : IsOpen(j)
  <2>1. PICK c \in 1 .. n : IsOpen(c)
    BY <1>5
  <2>2. ASSUME NEW j \in 1 .. n, j # c, IsOpen(j) PROVE FALSE
    <3>1. /\ << m, j >> \in Items /\ << m, c >> \in Items
          /\ At(<< m, j >>) = Entries[m][j] /\ At(<< m, c >>) = Entries[m][c]
      BY <2>1, MakeItem DEF At
    <3>2. Entries[m][j].submenu # 0 /\ Entries[m][c].submenu # 0
      BY <2>1, <2>2, ScreenFacts
    <3>3. /\ Entries[m][j].submenu \in Children(m) \intersect s.visible
          /\ Entries[m][c].submenu \in Children(m) \intersect s.visible
      BY <2>1, <2>2, <3>1, <3>2, ChildFacts
    <3>4. Entries[m][j].submenu = Entries[m][c].submenu
      BY <3>3 DEF OneOpen
    <3>5. << m, j >> = << m, c >>
      BY <3>1, <3>2, <3>4 DEF IsTree
    <3>6. QED
      BY <2>2, <3>5
  <2>3. n \in c .. n
    BY <1>1
  <2>4. After(p, LastOf(m), s) =
          IF b \in c + 1 .. n /\ Entries[m][b].selectable THEN Stop(m, p, s)
          ELSE IF b = c THEN s ELSE PastOpen(m, c, p, s)
    BY <1>1, <2>1, <2>2, <2>3, LoopWithOpen
  <2>5. \A i \in Items : i[1] = m /\ Recurs(s.visible, p, i) => i = << m, c >>
    BY <1>2, <2>2 DEF Recurs
  <2>6. << m, c >> \in Items /\ At(<< m, c >>) = Entries[m][c]
    BY MakeItem DEF At
  <2>7. Recurs(s.visible, p, << m, c >>)
          <=> b # c /\ (Breaks(s.visible, p, m) => c > b)
    BY <2>1, <2>6 DEF Recurs
  <2>8. Breaks(s.visible, p, m) <=> b \in 1 .. n /\ Entries[m][b].selectable /\ b # c
    BY <1>3, <2>1, <2>2
  <2>9. /\ b \in c + 1 .. n <=> b \in 1 .. n /\ b > c
        /\ b \in 1 .. c - 1 <=> b \in 1 .. n /\ c > b
        /\ b > c \/ b = c \/ c > b
    BY <1>1
  <2> DEFINE t == After(p, LastOf(Entries[m][c].submenu), s)
  <2> HIDE DEF n, b, IsOpen, t
  <2>10. ASSUME ~ Recurs(s.visible, p, << m, c >>)
         PROVE  After(p, LastOf(m), s) =
                  IF Breaks(s.visible, p, m) THEN Stop(m, p, s) ELSE s
    BY <2>4, <2>7, <2>8, <2>9, <2>10
  <2>11. ASSUME Recurs(s.visible, p, << m, c >>)
         PROVE  After(p, LastOf(m), s) =
                  IF Breaks(s.visible, p, m) THEN Stop(m, p, t) ELSE t
    <3>1. PastOpen(m, c, p, s) =
            IF b \in 1 .. c - 1 /\ Entries[m][b].selectable THEN Stop(m, p, t) ELSE t
      BY DEF PastOpen, t, b
    <3>2. QED
      BY <2>4, <2>7, <2>8, <2>9, <2>11, <3>1
  <2>12. \A i \in Items : i[1] = m /\ Recurs(s.visible, p, i) =>
           After(p, LastOf(At(i).submenu), s) = t /\ Recurs(s.visible, p, << m, c >>)
    BY <2>5, <2>6 DEF t
  <2>13. (\A i \in Items : i[1] = m => ~ Recurs(s.visible, p, i))
           => ~ Recurs(s.visible, p, << m, c >>)
    BY <2>6
  <2>14. QED
    BY <2>10, <2>11, <2>12, <2>13
<1>6. QED
  BY <1>4, <1>5
-----------------------------------------------------------------------------
(* The closed form. *)

(* AfterMotion for the stops among the menus of E.                         *)
AfterStops(E, vis, sel, p) ==
  LET stops  == {m \in E : Breaks(vis, p, m)}
      closed == {m \in stops : Entries[m][p.item[m]].submenu = 0}
      top    == CHOOSE m \in stops : \A n \in stops : Depth[m] <= Depth[n]
  IN  [visible   |-> vis \ UNION {Below[m] : m \in closed},
       selection |-> IF stops = {} THEN sel ELSE << top, p.item[top] >>]

LEMMA NoStops ==
  ASSUME NEW vis, NEW sel, NEW p
  PROVE  AfterStops({}, vis, sel, p) = [visible |-> vis, selection |-> sel]
BY DEF AfterStops

(* A menu above all of them comes last and has the last word.              *)
LEMMA OneMoreStop ==
  ASSUME NEW E \in SUBSET Menus, NEW m \in Menus, \A n \in E : Depth[m] < Depth[n],
         NEW vis, NEW sel, NEW p
  PROVE  LET t == AfterStops(E, vis, sel, p)
         IN  AfterStops({m} \union E, vis, sel, p) =
               IF Breaks(vis, p, m) THEN Stop(m, p, t) ELSE t
<1> DEFINE stops(F) == {n \in F : Breaks(vis, p, n)}
           closed(F) == {n \in stops(F) : Entries[n][p.item[n]].submenu = 0}
           top(F) == CHOOSE x \in stops(F) : \A n \in stops(F) : Depth[x] <= Depth[n]
           gone(F) == UNION {Below[n] : n \in closed(F)}
           G == {m} \union E
<1>1. \A F : AfterStops(F, vis, sel, p) =
        [visible   |-> vis \ gone(F),
         selection |-> IF stops(F) = {} THEN sel ELSE << top(F), p.item[top(F)] >>]
  BY DEF AfterStops
<1>2. CASE ~ Breaks(vis, p, m)
  <2>1. stops(G) = stops(E)
    BY <1>2
  <2>2. QED
    BY <1>2, <2>1 DEF AfterStops
<1>3. CASE Breaks(vis, p, m)
  <2>1. stops(G) = {m} \union stops(E)
    BY <1>3
  <2>2. top(G) = m
    <3>1. m \in stops(G) /\ \A n \in stops(G) : Depth[m] <= Depth[n]
      BY <2>1, DepthType
    <3>2. ASSUME NEW x \in stops(G), \A n \in stops(G) : Depth[x] <= Depth[n]
          PROVE  x = m
      BY <2>1, <3>1, <3>2, DepthType
    <3> HIDE DEF stops
    <3>3. QED
      BY <3>1, <3>2
  <2>3. vis \ gone(G) = IF Entries[m][p.item[m]].submenu = 0
                          THEN (vis \ gone(E)) \ Below[m] ELSE vis \ gone(E)
    <3>1. CASE Entries[m][p.item[m]].submenu = 0
      <4>1. closed(G) = {m} \union closed(E)
        BY <1>3, <3>1
      <4> HIDE DEF closed
      <4>2. gone(G) = Below[m] \union gone(E)
        BY <4>1
      <4> HIDE DEF gone
      <4>3. QED
        BY <3>1, <4>2
    <3>2. CASE Entries[m][p.item[m]].submenu # 0
      <4>1. closed(G) = closed(E)
        BY <1>3, <3>2
      <4>2. QED
        BY <3>2, <4>1
    <3>3. QED
      BY <3>1, <3>2
  <2>4. stops(G) # {}
    BY <2>1
  <2> HIDE DEF stops, gone, top, G
  <2>5. AfterStops(G, vis, sel, p) =
          [visible |-> vis \ gone(G), selection |-> << m, p.item[m] >>]
    BY <1>1, <2>2, <2>4
  <2>6. AfterStops(E, vis, sel, p).visible = vis \ gone(E)
    BY <1>1
  <2>7. QED
    BY <1>3, <2>3, <2>5, <2>6 DEF Stop, G
<1>4. QED
  BY <1>2, <1>3

Under(m) == {m} \union Below[m]

(* The menus entered from menu m downwards: the loop over m enters one     *)
(* more menu if it recurs, and otherwise none.                             *)
LEMMA EnteredFrom ==
  ASSUME IsTree, NEW vis, OneOpen(vis), 0 \notin vis, NEW p,
         NEW m \in Entered(vis, p)
  PROVE  /\ m \in Menus
         /\ (\A i \in Items : i[1] = m => ~ Recurs(vis, p, i)) =>
              Entered(vis, p) \intersect Under(m) = {m}
         /\ \A i \in Items : i[1] = m /\ Recurs(vis, p, i) =>
              LET c == At(i).submenu
              IN  /\ c \in Entered(vis, p) /\ c \in Children(m)
                  /\ Entered(vis, p) \intersect Under(m)
                       = {m} \union (Entered(vis, p) \intersect Under(c))
<1>1. /\ Root \in Menus /\ Below[Root] \subseteq Menus
      /\ Entered(vis, p) \subseteq {Root} \union Below[Root]
      /\ m \in Menus /\ m \in {Root} \union Below[Root]
  BY BelowFacts, MenuAssumption DEF Entered
<1>2. \A c \in Children(m) : c \in Menus /\ c \in Below[Root] /\ Under(c) \subseteq Under(m)
  <2> TAKE c \in Children(m)
  <2>1. c \in Menus /\ c \in Below[m]
    BY <1>1, OpenerOfChild, BelowFacts
  <2>2. c \in Below[Root]
    BY <1>1, <2>1, BelowFacts
  <2>3. QED
    BY <1>1, <2>1, <2>2, BelowTransitive DEF Under
(* A menu entered below m is reached through an item of m.                 *)
<1>3. ASSUME NEW d \in Entered(vis, p), d \in Below[m]
      PROVE  \E i \in Items : i[1] = m /\ Recurs(vis, p, i) /\ d \in Under(At(i).submenu)
  <2>1. PICK c \in Children(m) : d = c \/ d \in Below[c]
    BY <1>1, <1>3, BelowThroughChild
  <2>2. PICK i \in Items : i[1] = m /\ At(i).submenu = c
    BY <1>1, OpenerOfChild
  <2>3. d \in Menus /\ c \in Below[Root]
    BY <1>1, <1>2
  <2>4. i \in Way[d]
    BY <2>1, <2>2, <2>3 DEF Way
  <2>5. Recurs(vis, p, i)
    BY <2>4 DEF Entered
  <2>6. QED
    BY <2>1, <2>2, <2>5 DEF Under
<1>4. ASSUME \A i \in Items : i[1] = m => ~ Recurs(vis, p, i)
      PROVE  Entered(vis, p) \intersect Under(m) = {m}
  BY <1>3, <1>4 DEF Under
<1>5. ASSUME NEW i \in Items, i[1] = m, Recurs(vis, p, i)
      PROVE  LET c == At(i).submenu
             IN  /\ c \in Entered(vis, p) /\ c \in Children(m)
                 /\ Entered(vis, p) \intersect Under(m)
                      = {m} \union (Entered(vis, p) \intersect Under(c))
  <2> DEFINE c == At(i).submenu
  <2>1. c \in vis /\ c # 0
    BY <1>5 DEF Recurs
  <2>2. c \in Children(m)
    BY <1>5, <2>1, ChildFacts
  <2>3. ASSUME NEW j \in Way[c] PROVE j \in Way[m] \union {i}
    <3>1. j \in Items /\ At(j).submenu \in Below[Root]
          /\ (At(j).submenu = c \/ c \in Below[At(j).submenu])
      BY <1>2, <2>2 DEF Way
    <3>2. CASE At(j).submenu = c
      BY <1>5, <2>1, <3>1, <3>2 DEF IsTree
    <3>3. CASE c \in Below[At(j).submenu]
      <4>1. At(j).submenu \in Menus
        BY <1>1, <3>1
      <4>2. PICK k \in Items : /\ At(k).submenu = c
                               /\ k[1] \in Below[At(j).submenu] \union {At(j).submenu}
        BY <3>3, <4>1, BelowOpener
      <4>3. k = i
        BY <2>1, <4>2 DEF IsTree
      <4>4. QED
        BY <1>1, <1>5, <3>1, <4>2, <4>3 DEF Way
    <3>4. QED
      BY <3>1, <3>2, <3>3
  <2>4. c \in Entered(vis, p)
    BY <1>2, <1>5, <2>2, <2>3 DEF Entered
  <2>5. ASSUME NEW d \in Entered(vis, p), d \in Below[m] PROVE d \in Under(c)
    <3>1. PICK j \in Items : j[1] = m /\ Recurs(vis, p, j) /\ d \in Under(At(j).submenu)
      BY <1>3, <2>5
    <3>2. At(j).submenu \in Children(m) /\ At(j).submenu \in vis
      BY <3>1, ChildFacts DEF Recurs
    <3>3. At(j).submenu = c
      BY <1>1, <2>1, <2>2, <3>2 DEF OneOpen
    <3>4. QED
      BY <3>1, <3>3
  <2>6. Under(c) \subseteq Under(m)
    BY <1>2, <2>2
  <2> HIDE DEF c
  <2>7. Entered(vis, p) \intersect Under(m)
          = {m} \union (Entered(vis, p) \intersect Under(c))
    BY <2>5, <2>6 DEF Under
  <2>8. QED
    BY <2>2, <2>4, <2>7 DEF c
<1>6. QED
  BY <1>1, <1>4, <1>5

(* The loop over each menu entered does what the stops under it say.       *)
LEMMA LoopIsAfterStops ==
  ASSUME IsTree, NEW p \in Positions, NEW s \in Screen, OneOpen(s.visible),
         NEW m0 \in Entered(s.visible, p)
  PROVE  After(p, LastOf(m0), s)
           = AfterStops(Entered(s.visible, p) \intersect Under(m0),
                        s.visible, s.selection, p)
<1> DEFINE vis == s.visible
           E(m) == Entered(vis, p) \intersect Under(m)
           Good(m) == After(p, LastOf(m), s) = AfterStops(E(m), vis, s.selection, p)
           size(m) == Cardinality(Below[m])
           S == {n \in Nat : \A m \in Entered(vis, p) : size(m) < n => Good(m)}
<1>1. 0 \notin vis /\ s = [visible |-> vis, selection |-> s.selection]
  BY ScreenFacts
<1>2. \A m \in Menus : IsFiniteSet(Below[m]) /\ size(m) \in Nat
  <2>1. IsFiniteSet(Menus)
    BY FS_Interval, MenuAssumption DEF Menus
  <2>2. QED
    BY <2>1, FS_Subset, FS_CardinalityType, BelowFacts
<1>3. \A m \in Entered(vis, p) : m \in Menus
  BY BelowFacts, MenuAssumption DEF Entered
<1>4. 0 \in S
  BY <1>2, <1>3
<1>5. ASSUME NEW n \in S PROVE n + 1 \in S
  <2>1. ASSUME NEW m \in Entered(vis, p), size(m) < n + 1 PROVE Good(m)
    <3>1. m \in Menus
      BY <1>3
    <3>2. CASE \A i \in Items : i[1] = m => ~ Recurs(vis, p, i)
      <4>1. E(m) = {m} \union {}
        BY <1>1, <3>2, EnteredFrom
      <4>2. AfterStops({m} \union {}, vis, s.selection, p) =
              IF Breaks(vis, p, m) THEN Stop(m, p, s) ELSE s
        <5>1. {} \in SUBSET Menus /\ \A d \in {} : Depth[m] < Depth[d]
          OBVIOUS
        <5>2. AfterStops({}, vis, s.selection, p) = s
          BY <1>1, NoStops
        <5> HIDE DEF vis
        <5>3. QED
          BY <3>1, <5>1, <5>2, OneMoreStop
      <4>3. After(p, LastOf(m), s) = IF Breaks(vis, p, m) THEN Stop(m, p, s) ELSE s
        BY <3>1, <3>2, LoopOfMenu
      <4>4. QED
        BY <4>1, <4>2, <4>3
    <3>3. CASE \E i \in Items : i[1] = m /\ Recurs(vis, p, i)
      <4>1. PICK i \in Items : i[1] = m /\ Recurs(vis, p, i)
        BY <3>3
      <4> DEFINE c == At(i).submenu
      <4>2. /\ c \in Entered(vis, p) /\ c \in Children(m)
            /\ E(m) = {m} \union E(c)
        BY <1>1, <4>1, EnteredFrom
      <4>3. c \in Menus /\ c \in Below[m] /\ Below[c] \subseteq Below[m]
        BY <1>3, <3>1, <4>2, BelowFacts, BelowTransitive
      <4>4. size(c) < size(m)
        <5>1. c \notin Below[c]
          BY <4>3 DEF IsTree
        <5>2. Cardinality(Below[c] \union {c}) = size(c) + 1
          BY <1>2, <4>3, <5>1, FS_AddElement
        <5>3. Cardinality(Below[c] \union {c}) <= size(m)
          BY <1>2, <3>1, <4>3, FS_Subset
        <5>4. QED
          BY <1>2, <3>1, <4>3, <5>2, <5>3
      <4>5. Good(c)
        <5>1. size(c) < n
          BY <1>2, <2>1, <3>1, <4>3, <4>4
        <5>2. QED
          BY <4>2, <5>1
      <4>6. \A d \in E(c) : Depth[m] < Depth[d]
        BY <3>1, <4>3, DepthGrows DEF Under
      <4>7. E(c) \in SUBSET Menus
        BY <1>3
      <4> DEFINE t == After(p, LastOf(c), s)
      <4>8. After(p, LastOf(m), s) = IF Breaks(vis, p, m) THEN Stop(m, p, t) ELSE t
        BY <3>1, <4>1, LoopOfMenu
      <4>9. t = AfterStops(E(c), vis, s.selection, p)
        BY <4>5
      <4> HIDE DEF E, t, S
      <4>10. AfterStops({m} \union E(c), vis, s.selection, p) =
               IF Breaks(vis, p, m) THEN Stop(m, p, t) ELSE t
        BY <3>1, <4>6, <4>7, <4>9, OneMoreStop
      <4>11. QED
        BY <4>2, <4>8, <4>10
    <3>4. QED
      BY <3>2, <3>3
  <2>2. n + 1 \in Nat
    BY <1>5
  <2> HIDE DEF Good
  <2>3. QED
    BY <2>1, <2>2
<1>6. S \in SUBSET Nat
  OBVIOUS
<1> HIDE DEF S
<1>7. size(m0) + 1 \in S
  BY <1>2, <1>3, <1>4, <1>5, <1>6, InductionBySet
<1>8. size(m0) \in Nat
  BY <1>2, <1>3
<1> HIDE DEF size, Good
<1>9. Good(m0)
  BY <1>7, <1>8 DEF S
<1>10. QED
  BY <1>9 DEF Good

LEMMA MotionAgreesInvariant ==
  ASSUME IsTree, TypeInv, OneOpenPerMenu
  PROVE  MotionAgrees
<1> DEFINE vis == visible \union {Root}
           s == [visible |-> vis, selection |-> selection]
<1>1. visible \subseteq Menus /\ selection \in Selection /\ Root \in Menus
  BY MenuAssumption DEF TypeInv, MenuType
<1>2. s \in Screen
  BY <1>1 DEF Screen, Selection, Places
<1>3. OneOpen(vis)
  BY <1>1, RootIsTop DEF OneOpen, OneOpenPerMenu, IsTree
<1>4. ASSUME NEW p \in Positions
      PROVE  AfterMotion(vis, selection, p) = MotionLoop[<< p, LastOf(Root), s >>]
  <2>1. Root \in Entered(vis, p)
    <3>1. \A i \in Way[Root] : FALSE
      <4>1. \A i \in Items : At(i).submenu # Root
        BY DEF IsTree, Openers
      <4>2. \A x \in Below[Root] : Root \notin Below[x]
        BY <1>1, BelowFacts, RootIsTop DEF IsTree
      <4>3. QED
        BY <1>1, <4>1, <4>2 DEF Way
    <3>2. QED
      BY <3>1 DEF Entered
  <2>2. Entered(vis, p) \intersect Under(Root) = Entered(vis, p)
    BY DEF Entered, Under
  <2>3. AfterMotion(vis, selection, p) = AfterStops(Entered(vis, p), vis, selection, p)
    BY DEF AfterMotion, AfterStops
  <2>4. After(p, LastOf(Root), s)
          = AfterStops(Entered(vis, p) \intersect Under(Root), vis, selection, p)
    <3>1. s.visible = vis /\ s.selection = selection
      OBVIOUS
    <3> HIDE DEF s, vis
    <3>2. QED
      BY <1>2, <1>3, <2>1, <3>1, LoopIsAfterStops
  <2>5. QED
    BY <2>2, <2>3, <2>4 DEF After
<1>5. QED
  BY <1>4 DEF MotionAgrees

(* Where the menus are a tree, the closed form in which the model gives    *)
(* the effect of a pointer motion is that of the loop of                   *)
(* menu_handle_cursor_motion with its recursion into open submenus, and    *)
(* its early ends, for every set of menus and every position.              *)
THEOREM ClosedFormIsLoop ==
  ASSUME IsTree
  PROVE  Spec => []MotionAgrees
<1>1. Init => TypeInv /\ OneOpenPerMenu
  BY TypeInvInductive DEF Init, OneOpenPerMenu
<1>2. TypeInv /\ OneOpenPerMenu /\ [Next]_vars => (TypeInv /\ OneOpenPerMenu)'
  BY TypeInvInductive, OneOpenStep DEF TypeInv
<1>3. TypeInv /\ OneOpenPerMenu => MotionAgrees
  BY MotionAgreesInvariant
<1>4. QED
  BY <1>1, <1>2, <1>3, PTL DEF Spec
=============================================================================

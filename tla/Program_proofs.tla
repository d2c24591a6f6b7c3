--------------------------- MODULE Program_proofs ---------------------------
(***************************************************************************)
(* Proofs about Program: for every set of command lines, every tree of     *)
(* menus, icon theme and number of seats.                                  *)
(***************************************************************************)
EXTENDS Program, Extrema, FiniteSetTheorems, SequenceTheorems, TLAPS

-----------------------------------------------------------------------------
(* The walk over the items.                                                *)

RangeOf(s) == {s[k] : k \in DOMAIN s}

EntryType ==
  [icon : Names \union Files \union {None}, label : BOOLEAN,
   selectable : BOOLEAN, submenu : DOMAIN Entries \union {0}]

LEMMA ItemsTyped ==
  ASSUME NEW i \in Items
  PROVE  /\ i[1] \in DOMAIN Entries /\ i[2] \in DOMAIN Entries[i[1]]
         /\ i = << i[1], i[2] >>
         /\ Entry(i) \in EntryType
<1>1. PICK m \in DOMAIN Entries : \E k \in DOMAIN Entries[m] : i = << m, k >>
  BY DEF Items
<1>2. PICK k \in DOMAIN Entries[m] : i = << m, k >>
  BY <1>1
<1>3. Entries[m] \in Seq(EntryType)
  BY PixmapsAssumption DEF EntryType
<1>4. Entries[m][k] \in EntryType
  BY <1>2, <1>3
<1>5. QED
  BY <1>2, <1>4 DEF Entry

LEMMA ItemsMade ==
  ASSUME NEW m \in DOMAIN Entries, NEW k \in DOMAIN Entries[m]
  PROVE  << m, k >> \in Items
BY DEF Items

(* A loop visits the items of its menu, and no others. *)
LEMMA ListTyped ==
  ASSUME NEW m \in DOMAIN Entries \union {0}
  PROVE  /\ List(m) \in Seq(Items)
         /\ RangeOf(List(m)) = {i \in Items : i[1] = m}
<1>1. CASE m = 0
  <2>1. List(m) = << >>
    BY <1>1 DEF List
  <2>2. \A i \in Items : i[1] # 0
    BY ItemsTyped, PixmapsAssumption
  <2>3. List(m) \in Seq(Items) /\ DOMAIN List(m) = {}
    BY <2>1
  <2>4. RangeOf(List(m)) = {}
    BY <2>3 DEF RangeOf
  <2>5. QED
    BY <1>1, <2>2, <2>3, <2>4
<1>2. CASE m # 0
  <2>1. m \in DOMAIN Entries /\ List(m) = [k \in DOMAIN Entries[m] |-> << m, k >>]
    BY <1>2 DEF List
  <2>2. Entries[m] \in Seq(EntryType)
    BY <2>1, PixmapsAssumption DEF EntryType
  <2>3. \A k \in DOMAIN Entries[m] : << m, k >> \in Items
    BY <2>1, ItemsMade
  <2>4. DOMAIN Entries[m] = 1 .. Len(Entries[m]) /\ Len(Entries[m]) \in Nat
    BY <2>2
  <2>5. List(m) \in Seq(Items)
    BY <2>1, <2>3, <2>4
  <2>6. RangeOf(List(m)) = {<< m, k >> : k \in DOMAIN Entries[m]}
    BY <2>1 DEF RangeOf
  <2>7. \A i \in Items : i[1] = m => i \in {<< m, k >> : k \in DOMAIN Entries[m]}
    BY ItemsTyped
  <2>8. QED
    BY <2>3, <2>5, <2>6, <2>7
<1>3. QED
  BY <1>1, <1>2

(* What is left to be visited, after a visit that adds a list.             *)
LEMMA RangeOfNext ==
  ASSUME NEW S, NEW s \in Seq(S), NEW t \in Seq(S), t # << >>
  PROVE  /\ s \o Tail(t) \in Seq(S)
         /\ Head(t) \in S /\ Head(t) \in RangeOf(t)
         /\ RangeOf(s \o Tail(t)) \union {Head(t)} = RangeOf(s) \union RangeOf(t)
<1> DEFINE u == Tail(t)
<1>1. u \in Seq(S) /\ Len(u) = Len(t) - 1 /\ Len(t) > 0 /\ Len(t) \in Nat
  OBVIOUS
<1>2. \A k \in 1 .. Len(u) : u[k] = t[k + 1]
  OBVIOUS
<1>3. Head(t) = t[1] /\ Head(t) \in S
  OBVIOUS
<1>4. DOMAIN t = 1 .. Len(t) /\ DOMAIN s = 1 .. Len(s) /\ DOMAIN u = 1 .. Len(u)
  BY <1>1
<1>5. RangeOf(t) = RangeOf(u) \union {Head(t)}
  <2>1. \A k \in 1 .. Len(t) : t[k] \in RangeOf(u) \union {Head(t)}
    <3> SUFFICES ASSUME NEW k \in 1 .. Len(t) PROVE t[k] \in RangeOf(u) \union {Head(t)}
      OBVIOUS
    <3>1. CASE k = 1
      BY <3>1, <1>3
    <3>2. CASE k # 1
      <4>1. k - 1 \in 1 .. Len(u) /\ u[k - 1] = t[k]
        BY <3>2, <1>1, <1>2
      <4>2. QED
        BY <4>1, <1>4 DEF RangeOf
    <3>3. QED
      BY <3>1, <3>2
  <2>2. \A k \in 1 .. Len(u) : u[k] \in RangeOf(t)
    <3> SUFFICES ASSUME NEW k \in 1 .. Len(u) PROVE u[k] \in RangeOf(t)
      OBVIOUS
    <3>1. k + 1 \in DOMAIN t /\ u[k] = t[k + 1]
      BY <1>1, <1>2, <1>4
    <3>2. QED
      BY <3>1 DEF RangeOf
  <2>3. Head(t) \in RangeOf(t)
    BY <1>1, <1>3, <1>4 DEF RangeOf
  <2>4. QED
    BY <2>1, <2>2, <2>3, <1>4 DEF RangeOf
<1>6. s \o u \in Seq(S) /\ Len(s \o u) = Len(s) + Len(u)
      /\ Len(s) \in Nat /\ Len(u) \in Nat
  BY <1>1
<1>7. /\ \A k \in 1 .. Len(s) : (s \o u)[k] = s[k]
      /\ \A k \in 1 .. Len(u) : (s \o u)[Len(s) + k] = u[k]
      /\ DOMAIN (s \o u) = 1 .. Len(s) + Len(u)
  BY <1>1, <1>6
<1>8. RangeOf(s \o u) = RangeOf(s) \union RangeOf(u)
  <2> DEFINE w == s \o u
  <2>1. \A k \in 1 .. Len(s) + Len(u) : w[k] \in RangeOf(s) \union RangeOf(u)
    <3> SUFFICES ASSUME NEW k \in 1 .. Len(s) + Len(u)
                 PROVE  w[k] \in RangeOf(s) \union RangeOf(u)
      OBVIOUS
    <3>1. CASE k \in 1 .. Len(s)
      BY <3>1, <1>4, <1>7 DEF RangeOf
    <3>2. CASE k \notin 1 .. Len(s)
      <4>1. k - Len(s) \in 1 .. Len(u) /\ k = Len(s) + (k - Len(s))
        BY <3>2, <1>6
      <4>2. w[k] = u[k - Len(s)]
        BY <4>1, <1>7
      <4>3. QED
        BY <4>1, <4>2, <1>4 DEF RangeOf
    <3>3. QED
      BY <3>1, <3>2
  <2>2. \A k \in 1 .. Len(s) : s[k] \in RangeOf(w)
    <3> SUFFICES ASSUME NEW k \in 1 .. Len(s) PROVE s[k] \in RangeOf(w)
      OBVIOUS
    <3>1. k \in DOMAIN w /\ w[k] = s[k]
      BY <1>6, <1>7
    <3>2. QED
      BY <3>1 DEF RangeOf
  <2>3. \A k \in 1 .. Len(u) : u[k] \in RangeOf(w)
    <3> SUFFICES ASSUME NEW k \in 1 .. Len(u) PROVE u[k] \in RangeOf(w)
      OBVIOUS
    <3>1. Len(s) + k \in DOMAIN w /\ w[Len(s) + k] = u[k]
      BY <1>6, <1>7
    <3>2. QED
      BY <3>1 DEF RangeOf
  <2>4. QED
    BY <2>1, <2>2, <2>3, <1>4, <1>7 DEF RangeOf
<1>9. QED
  BY <1>3, <1>5, <1>6, <1>8

(* The root menu is reachable, and so is what hangs below reachable items. *)
LEMMA RootReachable ==
  ASSUME root \in Roots
  PROVE  {i \in Items : i[1] = root} \subseteq Reachable
BY PixmapsAssumption DEF Reachable, Under

LEMMA SubmenuReachable ==
  ASSUME root \in Roots, NEW i \in Reachable
  PROVE  {j \in Items : j[1] = Entry(i).submenu} \subseteq Reachable
<1> SUFFICES ASSUME NEW j \in Items, j[1] = Entry(i).submenu
             PROVE  j[1] \in Under[root]
  BY DEF Reachable
<1>1. i \in Items /\ i[1] \in Under[root]
  BY DEF Reachable
<1>2. j[1] \in DOMAIN Entries /\ j[1] # 0
  BY ItemsTyped, PixmapsAssumption
<1>3. ASSUME NEW M \in SUBSET DOMAIN Entries, root \in M, Closed(M) PROVE j[1] \in M
  <2>1. i[1] \in M
    BY <1>1, <1>3 DEF Under
  <2>2. QED
    BY <1>1, <1>2, <1>3, <2>1 DEF Closed
<1>4. QED
  BY <1>2, <1>3 DEF Under

(* A set of items that has those of the root and, with each item, those of *)
(* its submenu has all that are reachable.                                 *)
LEMMA ClosedHasAll ==
  ASSUME root \in Roots, NEW V \in SUBSET Items,
         {i \in Items : i[1] = root} \subseteq V,
         \A i \in V : {j \in Items : j[1] = Entry(i).submenu} \subseteq V
  PROVE  Reachable \subseteq V
<1> DEFINE M == {m \in DOMAIN Entries : {i \in Items : i[1] = m} \subseteq V}
<1>1. M \in SUBSET DOMAIN Entries /\ root \in M
  BY PixmapsAssumption
<1>2. Closed(M)
  <2> SUFFICES ASSUME NEW i \in Items, i[1] \in M
               PROVE  Entry(i).submenu \in M \union {0}
    BY DEF Closed
  <2>1. i \in V
    OBVIOUS
  <2>2. Entry(i).submenu \in DOMAIN Entries \union {0}
    BY ItemsTyped DEF EntryType
  <2>3. QED
    BY <2>1, <2>2
<1>3. ASSUME NEW i \in Reachable PROVE i \in V
  <2>1. i \in Items /\ i[1] \in Under[root]
    BY DEF Reachable
  <2>2. i[1] \in M
    BY <1>1, <1>2, <2>1 DEF Under
  <2>3. QED
    BY <2>1, <2>2
<1>4. QED
  BY <1>3
-----------------------------------------------------------------------------
(* The inductive invariant of the pixmaps.  A loop has visited, or has     *)
(* still to visit, the items of the root and of the submenu of each item   *)
(* that it has visited (WalkInv); with ClosedHasAll this says that it ends *)
(* when it has visited all that are reachable, and no others.  What it     *)
(* does is known for the visited items (IconInv, PixmapInv).               *)
PixmapTypes ==
  /\ root \in Roots
  /\ icon \in [Items -> Names \union Files \union {None}]
  /\ todo \in Seq(Items)
  /\ visited \subseteq Items /\ pixmaps \subseteq Items
  /\ work \in {"idle", "icons", "pixmaps", "done", "freed"}

SurfaceInv == IsFiniteSet(pixmaps) /\ surfaces = 2 * Cardinality(pixmaps)

ItemsOf(m) == {i \in Items : i[1] = m}
Known == visited \union RangeOf(todo)

WalkInv ==
  /\ work = "idle" => todo = << >> /\ visited = {}
  /\ Known \subseteq Reachable
  /\ work \in {"icons", "pixmaps"} =>
       /\ ItemsOf(root) \subseteq Known
       /\ \A i \in visited : ItemsOf(Entry(i).submenu) \subseteq Known

IconInv ==
  /\ \A i \in Items : icon[i] = Entry(i).icon \/ icon[i] = IconFile(i)
  /\ work = "icons" => \A i \in visited : icon[i] = IconFile(i)
  /\ work \in {"pixmaps", "done"} => \A i \in Reachable : icon[i] = IconFile(i)

Shows(i) == Entry(i).selectable /\ Entry(i).label /\ Drawable(IconFile(i))

PixmapInv ==
  /\ work \in {"idle", "icons", "freed"} => pixmaps = {}
  /\ work = "pixmaps" => pixmaps = visited
  /\ work = "done" => pixmaps = Reachable
  /\ \A i \in pixmaps : i \in painted <=> Shows(i)

WorkInv == PixmapTypes /\ SurfaceInv /\ WalkInv /\ IconInv /\ PixmapInv

(* The theme's files are not names: looking up an icon twice is harmless.  *)
LEMMA FilesAreNoNames ==
  ASSUME NEW i \in Items
  PROVE  IconFile(i) \in Files \union {None} /\ IconFile(i) \notin Names
<1>1. Entry(i) \in EntryType
  BY ItemsTyped
<1>2. CASE Entry(i).icon \in Names
  BY <1>2, PixmapsAssumption DEF IconFile, icon_strdup_path, FileOf
<1>3. CASE Entry(i).icon \notin Names
  BY <1>1, <1>3, PixmapsAssumption DEF IconFile, EntryType
<1>4. QED
  BY <1>2, <1>3

(* A lookup finds a short path only if the theme has one.                  *)
LEMMA ShortInTheme ==
  ASSUME NEW i \in Items, IconFile(i) = "short"
  PROVE  Entry(i).icon = "short" \/ \E n \in Names : Theme[n] = "short"
BY PixmapsAssumption DEF IconFile, icon_strdup_path, FileOf, None

LEMMA InitWork == PixmapsInit => WorkInv
<1> SUFFICES ASSUME PixmapsInit PROVE WorkInv
  OBVIOUS
<1> USE DEF PixmapsInit
<1>1. PixmapTypes
  <2>1. \A i \in Items : Entry(i).icon \in Names \union Files \union {None}
    BY ItemsTyped DEF EntryType
  <2>2. QED
    BY <2>1 DEF PixmapTypes
<1>2. SurfaceInv
  BY FS_EmptySet DEF SurfaceInv
<1>3. WalkInv
  <2>1. RangeOf(todo) = {}
    BY DEF RangeOf
  <2>2. QED
    BY <2>1 DEF WalkInv, Known
<1>4. IconInv /\ PixmapInv
  BY DEF IconInv, PixmapInv
<1>5. QED
  BY <1>1, <1>2, <1>3, <1>4 DEF WorkInv

(* The first loop begins with the items of the root menu.                  *)
LEMMA StartWork ==
  ASSUME WorkInv, work = "idle", work' = "icons", todo' = List(root),
         UNCHANGED << root, icon, pixmaps, painted, surfaces, visited, icon_size >>
  PROVE  WorkInv'
<1> USE DEF WorkInv
<1>1. root \in DOMAIN Entries /\ root \in Roots
  BY PixmapsAssumption DEF PixmapTypes
<1>2. todo' \in Seq(Items) /\ RangeOf(todo') = ItemsOf(root)
  BY <1>1, ListTyped DEF ItemsOf
<1>3. PixmapTypes'
  BY <1>2 DEF PixmapTypes
<1>4. SurfaceInv'
  BY DEF SurfaceInv
<1>5. visited' = {} /\ Known' = ItemsOf(root) /\ Reachable' = Reachable
  BY <1>2 DEF WalkInv, Known, Reachable
<1>6. WalkInv'
  BY <1>1, <1>5, RootReachable DEF WalkInv, ItemsOf
<1>7. IconInv' /\ PixmapInv'
  BY <1>5 DEF IconInv, PixmapInv
<1>8. QED
  BY <1>3, <1>4, <1>6, <1>7

(* A visit to an item, in either loop.                                     *)
LEMMA VisitWalks ==
  ASSUME WorkInv, Visit
  PROVE  /\ Head(todo) \in Items /\ Head(todo) \in Reachable
         /\ todo' \in Seq(Items) /\ visited' \subseteq Items
         /\ WalkInv'
<1> DEFINE h == Head(todo)
           l == List(Entry(h).submenu)
<1> USE DEF WorkInv
<1>1. todo \in Seq(Items) /\ todo # << >> /\ root \in Roots
  BY DEF PixmapTypes, Visit
<1>2. h \in Items /\ h \in RangeOf(todo)
  BY <1>1, RangeOfNext
<1>3. todo' = l \o Tail(todo) /\ visited' = visited \union {h}
      /\ UNCHANGED << root, work >> /\ work \in {"icons", "pixmaps"}
  BY DEF Visit, post_processing, generate_pixmaps
<1>4. Entry(h).submenu \in DOMAIN Entries \union {0}
  BY <1>2, ItemsTyped DEF EntryType
<1>5. l \in Seq(Items) /\ RangeOf(l) = ItemsOf(Entry(h).submenu)
  BY <1>4, ListTyped DEF ItemsOf
<1>6. todo' \in Seq(Items)
      /\ RangeOf(todo') \union {h} = ItemsOf(Entry(h).submenu) \union RangeOf(todo)
  BY <1>1, <1>3, <1>5, RangeOfNext
<1>7. h \in Reachable
  BY <1>2 DEF WalkInv, Known
<1>8. Known' = Known \union ItemsOf(Entry(h).submenu)
  BY <1>2, <1>3, <1>6 DEF Known
<1>9. Known' \subseteq Reachable'
  <2>1. ItemsOf(Entry(h).submenu) \subseteq Reachable
    BY <1>1, <1>7, SubmenuReachable DEF ItemsOf
  <2>2. Reachable' = Reachable
    BY <1>3 DEF Reachable
  <2>3. QED
    BY <1>8, <2>1, <2>2 DEF WalkInv
<1>10. ItemsOf(root') \subseteq Known'
  BY <1>3, <1>8 DEF WalkInv
<1>11. \A i \in visited' : ItemsOf(Entry(i).submenu) \subseteq Known'
  BY <1>3, <1>8 DEF WalkInv
<1>12. WalkInv'
  BY <1>3, <1>9, <1>10, <1>11 DEF WalkInv
<1>13. visited' \subseteq Items
  BY <1>2, <1>3 DEF PixmapTypes
<1>14. QED
  BY <1>2, <1>6, <1>7, <1>12, <1>13

(* A loop that has nothing left to visit has visited what is reachable.    *)
LEMMA LoopComplete ==
  ASSUME WorkInv, todo = << >>, work \in {"icons", "pixmaps"}
  PROVE  visited = Reachable
<1> USE DEF WorkInv
<1>1. RangeOf(todo) = {}
  BY DEF RangeOf
<1>2. Known = visited
  BY <1>1 DEF Known
<1>3. visited \subseteq Reachable
  BY <1>2 DEF WalkInv
<1>4. Reachable \subseteq visited
  BY <1>2, ClosedHasAll DEF WalkInv, ItemsOf, PixmapTypes
<1>5. QED
  BY <1>3, <1>4

LEMMA VisitWork == WorkInv /\ Visit => WorkInv'
<1> SUFFICES ASSUME WorkInv, Visit PROVE WorkInv'
  OBVIOUS
<1> DEFINE h == Head(todo)
<1> USE DEF WorkInv
<1>1. h \in Items /\ h \in Reachable /\ todo' \in Seq(Items)
      /\ visited' \subseteq Items /\ WalkInv'
  BY VisitWalks
<1>2. visited' = visited \union {h} /\ UNCHANGED << root, work, icon_size >>
  BY DEF Visit
<1>3. Reachable' = Reachable
  BY <1>2 DEF Reachable
<1> HIDE DEF h
<1>4. CASE work = "icons" /\ post_processing(h)
  <2>1. UNCHANGED << pixmaps, painted, surfaces >>
    BY <1>4 DEF post_processing
  <2>2. icon' = IF icon[h] \in Names
                  THEN [icon EXCEPT ![h] = icon_strdup_path(icon[h])] ELSE icon
    BY <1>4 DEF post_processing
  <2>3. icon \in [Items -> Names \union Files \union {None}]
    BY DEF PixmapTypes
  <2>4. icon[h] \in Names => icon_strdup_path(icon[h]) = IconFile(h)
    BY <1>1, FilesAreNoNames DEF IconInv, IconFile
  <2>5. icon[h] \notin Names => icon[h] = IconFile(h)
    BY <1>1 DEF IconInv, IconFile
  <2>6. /\ icon' \in [Items -> Names \union Files \union {None}]
        /\ icon'[h] = IconFile(h)
        /\ \A i \in Items : i # h => icon'[i] = icon[i]
    BY <1>1, <2>2, <2>3, <2>4, <2>5, FilesAreNoNames
  <2>7. PixmapTypes' /\ SurfaceInv'
    BY <1>1, <1>2, <2>1, <2>6 DEF PixmapTypes, SurfaceInv
  <2>8. IconInv'
    <3>1. \A i \in Items : icon'[i] = Entry(i).icon \/ icon'[i] = IconFile(i)
      BY <2>6 DEF IconInv
    <3>2. \A i \in visited' : icon'[i] = IconFile(i)
      BY <1>1, <1>2, <1>4, <2>6 DEF IconInv
    <3>3. work' = "icons"
      BY <1>2, <1>4
    <3>4. QED
      BY <3>1, <3>2, <3>3 DEF IconInv
  <2>9. PixmapInv'
    BY <1>2, <1>4, <2>1 DEF PixmapInv
  <2>10. QED
    BY <1>1, <2>7, <2>8, <2>9
<1>5. CASE work = "pixmaps" /\ generate_pixmaps(h)
  <2>1. /\ pixmaps' = pixmaps \union {h}
        /\ surfaces' = surfaces + (IF h \in pixmaps THEN 0 ELSE 2)
        /\ painted' = IF HasIcon(h) /\ Drawable(icon[h])
                         THEN painted \union {h} ELSE painted \ {h}
        /\ UNCHANGED icon
    BY <1>5 DEF generate_pixmaps, pixmap_create
  <2>2. PixmapTypes'
    BY <1>1, <1>2, <2>1 DEF PixmapTypes
  <2>3. SurfaceInv'
    <3>1. IsFiniteSet(pixmaps) /\ surfaces = 2 * Cardinality(pixmaps)
          /\ Cardinality(pixmaps) \in Nat
      BY FS_CardinalityType DEF SurfaceInv
    <3>2. IsFiniteSet(pixmaps')
          /\ Cardinality(pixmaps') = IF h \in pixmaps THEN Cardinality(pixmaps)
                                     ELSE Cardinality(pixmaps) + 1
      BY <2>1, <3>1, FS_AddElement
    <3>3. QED
      BY <2>1, <3>1, <3>2 DEF SurfaceInv
  <2>4. IconInv'
    BY <1>2, <1>3, <1>5, <2>1 DEF IconInv
  <2>5. PixmapInv'
    <3>1. work' = "pixmaps" /\ pixmaps' = visited'
      BY <1>2, <1>5, <2>1 DEF PixmapInv
    <3>2. icon[h] = IconFile(h)
      BY <1>1, <1>5 DEF IconInv
    <3>3. HasIcon(h) /\ Drawable(icon[h]) <=> Shows(h)
      BY <3>2 DEF HasIcon, Shows, Drawable, None
    <3>4. \A i : Shows(i)' <=> Shows(i)
      BY <1>2 DEF Shows, Drawable
    <3>5. \A i \in pixmaps' : i \in painted' <=> Shows(i)
      BY <2>1, <3>3 DEF PixmapInv
    <3>6. QED
      BY <3>1, <3>4, <3>5 DEF PixmapInv
  <2>6. QED
    BY <1>1, <2>2, <2>3, <2>4, <2>5
<1>6. QED
  BY <1>4, <1>5 DEF Visit, h

LEMMA AdvanceWork == WorkInv /\ Advance => WorkInv'
<1> SUFFICES ASSUME WorkInv, Advance PROVE WorkInv'
  OBVIOUS
<1> USE DEF WorkInv
<1>1. todo = << >> /\ visited' = {}
      /\ UNCHANGED << root, icon, pixmaps, painted, surfaces, icon_size >>
  BY DEF Advance
<1>2. root \in DOMAIN Entries /\ root \in Roots
  BY PixmapsAssumption DEF PixmapTypes
<1>3. Reachable' = Reachable /\ SurfaceInv' /\ \A i : Shows(i)' <=> Shows(i)
  BY <1>1 DEF Reachable, SurfaceInv, Shows, Drawable
<1>4. CASE work = "icons" /\ work' = "pixmaps" /\ todo' = List(root)
  <2>1. visited = Reachable
    BY <1>1, <1>4, LoopComplete
  <2>2. todo' \in Seq(Items) /\ RangeOf(todo') = ItemsOf(root)
    BY <1>2, <1>4, ListTyped DEF ItemsOf
  <2>3. PixmapTypes'
    BY <1>1, <1>4, <2>2 DEF PixmapTypes
  <2>4. Known' = ItemsOf(root)
    BY <1>1, <2>2 DEF Known
  <2>5. WalkInv'
    BY <1>1, <1>2, <1>3, <1>4, <2>4, RootReachable DEF WalkInv, ItemsOf
  <2>6. IconInv'
    BY <1>1, <1>3, <1>4, <2>1 DEF IconInv
  <2>7. PixmapInv'
    BY <1>1, <1>4 DEF PixmapInv
  <2>8. QED
    BY <1>3, <2>3, <2>5, <2>6, <2>7
<1>5. CASE work = "pixmaps" /\ work' = "done" /\ todo' = todo
  <2>1. visited = Reachable
    BY <1>1, <1>5, LoopComplete
  <2>2. PixmapTypes'
    BY <1>1, <1>5 DEF PixmapTypes
  <2>3. RangeOf(todo') = {}
    BY <1>1, <1>5 DEF RangeOf
  <2>4. WalkInv'
    BY <1>1, <1>5, <2>3 DEF WalkInv, Known
  <2>5. IconInv'
    BY <1>1, <1>3, <1>5 DEF IconInv
  <2>6. PixmapInv'
    BY <1>1, <1>3, <1>5, <2>1 DEF PixmapInv
  <2>7. QED
    BY <1>3, <2>2, <2>4, <2>5, <2>6
<1>6. QED
  BY <1>4, <1>5 DEF Advance

LEMMA FreeWork == WorkInv /\ FreePixmaps => WorkInv'
<1> SUFFICES ASSUME WorkInv, FreePixmaps PROVE WorkInv'
  OBVIOUS
<1> USE DEF WorkInv
<1>1. /\ work' = "freed" /\ pixmaps' = {} /\ painted' = {}
      /\ surfaces' = surfaces - 2 * Cardinality(pixmaps)
      /\ UNCHANGED << root, icon, todo, visited, icon_size >>
  BY DEF FreePixmaps
<1>2. surfaces' = 0
  BY <1>1, FS_CardinalityType DEF SurfaceInv
<1>3. SurfaceInv'
  BY <1>1, <1>2, FS_EmptySet DEF SurfaceInv
<1>4. PixmapTypes'
  BY <1>1 DEF PixmapTypes
<1>5. WalkInv'
  BY <1>1 DEF WalkInv, Known, Reachable
<1>6. IconInv' /\ PixmapInv'
  BY <1>1 DEF IconInv, PixmapInv
<1>7. QED
  BY <1>3, <1>4, <1>5, <1>6

(* Steps that leave the pixmaps alone; before the first loop icon_size may *)
(* change.                                                                 *)
LEMMA OtherWork ==
  ASSUME WorkInv,
         UNCHANGED << root, icon, pixmaps, painted, surfaces, todo, visited, work >>,
         icon_size' = icon_size \/ work = "idle"
  PROVE  WorkInv'
<1> USE DEF WorkInv
<1>1. PixmapTypes' /\ SurfaceInv'
  BY DEF PixmapTypes, SurfaceInv
<1>2. WalkInv'
  BY DEF WalkInv, Known, Reachable
<1>3. IconInv'
  BY DEF IconInv, Reachable
<1>4. PixmapInv'
  BY DEF PixmapInv, Reachable, Shows, Drawable
<1>5. QED
  BY <1>1, <1>2, <1>3, <1>4
-----------------------------------------------------------------------------
(* The inductive invariant of the seats.  While there is one seat, it is   *)
(* the one that run() has equipped.                                        *)
SeatInv ==
  /\ stage \in {"off", "registry"} => work = "idle"
  /\ seats \in Nat
  /\ keyboards \subseteq 1 .. seats /\ pointers \subseteq 1 .. seats
  /\ stage \in {"menu", "loop"} /\ seats <= 1 => ready = {1}

(* And of the pointer frames: what has been noted of the present frame is  *)
(* what the compositor has told, and the place of an earlier one is kept   *)
(* while the pointer is on the surface, and until a button is delivered.   *)
EventType ==
  [mask : SUBSET {"ENTER", "LEAVE", "MOTION", "BUTTON", "AXIS"},
   pos : Positions \union {0}, state : Buttons \union {NoButton}]

SaidType ==
  [inside : BOOLEAN, pos : Positions \union {0}, moved : BOOLEAN,
   button : Buttons \union {NoButton}]

FrameTypes ==
  /\ event \in [Seats -> EventType] /\ said \in [Seats -> SaidType]
  /\ pointer_xy \in [Seats -> Positions \union {0}]
  /\ pointers \subseteq Seats

FrameKept(s) ==
  /\ said[s].moved <=> Moved(s)
  /\ Moved(s) => event[s].pos = said[s].pos
  /\ ~ Moved(s) /\ (said[s].inside \/ said[s].button # NoButton) =>
       pointer_xy[s] = said[s].pos
  /\ said[s].button # NoButton <=> "BUTTON" \in event[s].mask
  /\ said[s].button # NoButton => event[s].state = said[s].button

FrameInv == FrameTypes /\ \A s \in Seats : FrameKept(s)

Inv == WorkInv /\ SeatInv /\ FrameInv /\ CrashesExplained

(* The steps of Startup, with the start of run().                          *)
Steps == StartupNext \/ \E c \in BOOLEAN : Begin(c)

LEMMA InitInv == StartupInit => Inv
<1> SUFFICES ASSUME StartupInit PROVE Inv
  OBVIOUS
<1> USE DEF StartupInit
<1>1. WorkInv
  BY InitWork
<1>2. SeatInv
  BY DEF SeatInv, PixmapsInit
<1>3. FrameTypes
  BY DEF FrameTypes, EventType, SaidType, NoEvent, Outside, Seats
<1>4. \A s \in Seats : FrameKept(s)
  BY DEF FrameKept, Moved, NoEvent, Outside
<1>5. CrashesExplained
  BY DEF CrashesExplained, PixmapsInit, Alive
<1>6. QED
  BY <1>1, <1>2, <1>3, <1>4, <1>5 DEF Inv, FrameInv

LEMMA StepsWork == Inv /\ Steps => WorkInv'
<1> SUFFICES ASSUME Inv, Steps PROVE WorkInv'
  OBVIOUS
<1> USE DEF Inv
<1>1. ASSUME UNCHANGED << root, icon, pixmaps, painted, surfaces, todo, visited, work,
                          icon_size >>
      PROVE  WorkInv'
  BY <1>1, OtherWork
<1>2. ASSUME NEW c \in BOOLEAN, Begin(c) PROVE WorkInv'
  BY <1>2, OtherWork DEF Begin, SeatInv
<1>3. ASSUME NEW i \in Interfaces, handle_wl_registry_global(i) PROVE WorkInv'
  BY <1>1, <1>3 DEF handle_wl_registry_global, pixmapVars
<1>4. ASSUME Connected PROVE WorkInv'
  BY <1>1, <1>4, StartWork DEF Connected, pixmapVars, SeatInv
<1>5. ASSUME menu_init PROVE WorkInv'
  BY <1>1, <1>5, VisitWork, AdvanceWork DEF menu_init, pixmapVars
<1>6. ASSUME NEW s \in Seats, NEW caps, handle_wl_seat_capabilities(s, caps)
      PROVE  WorkInv'
  BY <1>1, <1>6 DEF handle_wl_seat_capabilities, pixmapVars
<1>7. ASSUME NEW s \in Seats, handle_wl_keyboard_keymap(s) PROVE WorkInv'
  BY <1>1, <1>7 DEF handle_wl_keyboard_keymap, pixmapVars, Crash
<1>8. ASSUME NEW s \in Seats, handle_wl_keyboard_key(s) PROVE WorkInv'
  BY <1>1, <1>8 DEF handle_wl_keyboard_key, MenuCall, Crash, pixmapVars
<1>9. ASSUME NEW s \in Seats, PointerEvents(s) PROVE WorkInv'
  <2>1. UNCHANGED << root, icon, pixmaps, painted, surfaces, todo, visited, work,
                     icon_size >>
    BY <1>9 DEF PointerEvents, handle_wl_pointer_enter, handle_wl_pointer_motion,
       handle_wl_pointer_leave, handle_wl_pointer_button, handle_wl_pointer_axis,
       handle_wl_pointer_frame, MenuCall, update_cursor, Crash, PointerUnchanged,
       pixmapVars
  <2>2. QED
    BY <1>1, <2>1
<1>10. ASSUME timer_hover_clear PROVE WorkInv'
  BY <1>1, <1>10 DEF timer_hover_clear, Crash, pixmapVars
<1>11. ASSUME display_in PROVE WorkInv'
  BY <1>1, <1>11 DEF display_in, pixmapVars
<1>12. ASSUME Finish PROVE WorkInv'
  BY <1>12, FreeWork DEF Finish
<1>13. QED
  BY <1>2, <1>3, <1>4, <1>5, <1>6, <1>7, <1>8, <1>9, <1>10, <1>11, <1>12
     DEF Steps, StartupNext

LEMMA StepsSeats == Inv /\ Steps => SeatInv'
<1> SUFFICES ASSUME Inv, Steps PROVE SeatInv'
  OBVIOUS
<1>0. SeatInv
  BY DEF Inv
<1>1. ASSUME UNCHANGED << seats, ready, keyboards, pointers >>,
             stage' = stage \/ stage' \in {"finished", "failed"},
             work' = work \/ stage' \notin {"off", "registry"}
      PROVE  SeatInv'
  BY <1>0, <1>1 DEF SeatInv
<1>2. ASSUME NEW c \in BOOLEAN, Begin(c) PROVE SeatInv'
  BY <1>0, <1>2 DEF Begin, globalVars, deviceVars, SeatInv
<1>3. ASSUME NEW i \in Interfaces, handle_wl_registry_global(i) PROVE SeatInv'
  <2>1. /\ UNCHANGED << work, stage, ready, keyboards, pointers >>
        /\ stage \in {"registry", "loop"}
        /\ seats' = seats \/ seats' = seats + 1
    BY <1>3 DEF handle_wl_registry_global, seat_init, output_init, pixmapVars, deviceVars
  <2>2. seats' \in Nat /\ seats <= seats' /\ 1 .. seats \subseteq 1 .. seats'
    BY <1>0, <2>1 DEF SeatInv
  <2>3. stage' \in {"menu", "loop"} /\ seats' <= 1 => ready' = {1}
    BY <1>0, <2>1, <2>2 DEF SeatInv
  <2>4. QED
    BY <1>0, <2>1, <2>2, <2>3 DEF SeatInv
<1>4. ASSUME Connected PROVE SeatInv'
  <2>1. CASE stage' = "failed"
    BY <1>0, <1>4, <2>1 DEF Connected, SeatInv, globalVars, deviceVars
  <2>2. CASE stage' # "failed"
    <3>1. /\ UNCHANGED << seats, keyboards, pointers >>
          /\ stage' = "menu" /\ ready' = {seats} /\ seats > 0
      BY <1>4, <2>2 DEF Connected, deviceVars
    <3>2. seats <= 1 => seats = 1
      BY <1>0, <3>1 DEF SeatInv
    <3>3. QED
      BY <1>0, <3>1, <3>2 DEF SeatInv
  <2>3. QED
    BY <2>1, <2>2
<1>5. ASSUME menu_init PROVE SeatInv'
  <2>1. UNCHANGED << seats, ready, keyboards, pointers >> /\ stage = "menu"
        /\ stage' \in {"menu", "loop"}
    BY <1>5 DEF menu_init, globalVars, deviceVars
  <2>2. QED
    BY <1>0, <2>1 DEF SeatInv
<1>6. ASSUME NEW s \in Seats, NEW caps, handle_wl_seat_capabilities(s, caps)
      PROVE  SeatInv'
  <2>1. /\ UNCHANGED << work, stage, seats, ready >> /\ s <= seats
        /\ pointers' \subseteq pointers \union {s}
        /\ keyboards' \subseteq keyboards \union {s}
    BY <1>6 DEF handle_wl_seat_capabilities, pixmapVars, globalVars
  <2>2. s \in 1 .. seats
    BY <1>0, <2>1 DEF Seats, SeatInv
  <2>3. QED
    BY <1>0, <2>1, <2>2 DEF SeatInv
<1>7. ASSUME NEW s \in Seats, handle_wl_keyboard_keymap(s) PROVE SeatInv'
  BY <1>1, <1>7 DEF handle_wl_keyboard_keymap, pixmapVars, globalVars, Crash
<1>8. ASSUME NEW s \in Seats, handle_wl_keyboard_key(s) PROVE SeatInv'
  BY <1>1, <1>8 DEF handle_wl_keyboard_key, MenuCall, Crash, pixmapVars, globalVars,
     deviceVars
<1>9. ASSUME NEW s \in Seats, PointerEvents(s) PROVE SeatInv'
  <2>1. UNCHANGED << seats, ready, keyboards, pointers, stage, work >>
    BY <1>9 DEF PointerEvents, handle_wl_pointer_enter, handle_wl_pointer_motion,
       handle_wl_pointer_leave, handle_wl_pointer_button, handle_wl_pointer_axis,
       handle_wl_pointer_frame, MenuCall, update_cursor, Crash, PointerUnchanged,
       pixmapVars, globalVars
  <2>2. QED
    BY <1>1, <2>1
<1>10. ASSUME timer_hover_clear PROVE SeatInv'
  BY <1>1, <1>10 DEF timer_hover_clear, Crash, pixmapVars, globalVars, deviceVars
<1>11. ASSUME display_in PROVE SeatInv'
  BY <1>1, <1>11 DEF display_in, pixmapVars, globalVars, deviceVars
<1>12. ASSUME Finish PROVE SeatInv'
  BY <1>1, <1>12 DEF Finish, globalVars, deviceVars
<1>13. QED
  BY <1>2, <1>3, <1>4, <1>5, <1>6, <1>7, <1>8, <1>9, <1>10, <1>11, <1>12
     DEF Steps, StartupNext

(* A step is taken by a program that has not crashed; so only a step that  *)
(* crashes is to be explained.                                             *)
LEMMA StepsCrash == Inv /\ Steps => CrashesExplained'
<1> SUFFICES ASSUME Inv, Steps PROVE CrashesExplained'
  OBVIOUS
<1>0. SeatInv /\ WorkInv
  BY DEF Inv
<1>1. Alive
  BY DEF Steps, StartupNext, Begin, handle_wl_registry_global, Connected, menu_init,
     handle_wl_seat_capabilities, handle_wl_keyboard_keymap, handle_wl_keyboard_key,
     PointerEvents, handle_wl_pointer_enter, handle_wl_pointer_motion,
     handle_wl_pointer_leave, handle_wl_pointer_button, handle_wl_pointer_axis,
     handle_wl_pointer_frame, Over, timer_hover_clear, display_in, Finish, Looping
<1>2. fate' = fate => CrashesExplained'
  BY <1>1 DEF CrashesExplained, Alive
<1>3. ASSUME Visit PROVE CrashesExplained'
  <2> DEFINE h == Head(todo)
  <2>1. h \in Items /\ h \in Reachable
    BY <1>0, <1>3, VisitWalks
  <2>2. Reachable' = Reachable
    BY <1>3 DEF Visit, Reachable
  <2>3. CASE HasIcon(h) /\ icon[h] = "short"
    <3>1. Entry(h).icon = "short" \/ IconFile(h) = "short"
      BY <1>0, <2>1, <2>3 DEF WorkInv, IconInv
    <3>2. Entry(h).icon = "short" \/ \E n \in Names : Theme[n] = "short"
      BY <2>1, <3>1, ShortInTheme
    <3>3. QED
      BY <2>1, <2>2, <3>2 DEF CrashesExplained
  <2>4. CASE ~ (HasIcon(h) /\ icon[h] = "short")
    BY <1>2, <1>3, <2>4 DEF Visit, post_processing, generate_pixmaps
  <2>5. QED
    BY <2>3, <2>4
<1>4. ASSUME HasEmptyMenu, root' = root PROVE CrashesExplained'
  <2>1. HasEmptyMenu'
    BY <1>4 DEF HasEmptyMenu, Vector
  <2>2. QED
    BY <2>1 DEF CrashesExplained
<1>5. ASSUME NEW s \in keyboards \union pointers, s \notin ready, stage = "loop",
             seats' = seats
      PROVE  CrashesExplained'
  BY <1>0, <1>5 DEF SeatInv, CrashesExplained
<1>6. ASSUME NEW s \in Seats, handle_wl_keyboard_keymap(s) PROVE CrashesExplained'
  <2>1. /\ stage = "loop" /\ s \in keyboards
        /\ UNCHANGED << seats, provided, keyboards >>
        /\ fate' = fate \/ s \notin ready \/ "keymap" \notin provided
    BY <1>6 DEF handle_wl_keyboard_keymap, Looping, Crash, pixmapVars, globalVars
  <2>2. CASE "keymap" \notin provided
    BY <2>1, <2>2 DEF CrashesExplained
  <2>3. QED
    BY <1>2, <1>5, <2>1, <2>2
<1>7. ASSUME NEW s \in Seats, handle_wl_keyboard_key(s) PROVE CrashesExplained'
  <2>1. /\ s \in keymaps /\ UNCHANGED << root, has_run, keymaps >>
        /\ fate' = fate \/ ~ has_run \/ HasEmptyMenu
    BY <1>7 DEF handle_wl_keyboard_key, MenuCall, Crash, pixmapVars, deviceVars
  <2>2. CASE ~ has_run
    BY <2>1, <2>2 DEF CrashesExplained
  <2>3. QED
    BY <1>2, <1>4, <2>1, <2>2
<1>8. ASSUME NEW s \in Seats, NEW p \in Positions, handle_wl_pointer_enter(s, p)
      PROVE  CrashesExplained'
  <2>1. /\ stage = "loop" /\ s \in pointers
        /\ UNCHANGED << seats, provided, pointers >>
        /\ fate' = fate \/ s \notin ready \/ "left_ptr" \notin provided
    BY <1>8 DEF handle_wl_pointer_enter, update_cursor, Looping, Crash, pixmapVars,
       globalVars
  <2>2. said'[s].inside
    BY <1>8 DEF Inv, FrameInv, FrameTypes, SaidType, handle_wl_pointer_enter
  <2>3. CASE "left_ptr" \notin provided
    BY <2>1, <2>2, <2>3 DEF CrashesExplained
  <2>4. QED
    BY <1>2, <1>5, <2>1, <2>3
<1>9. ASSUME NEW s \in Seats, handle_wl_pointer_frame(s) PROVE CrashesExplained'
  BY <1>2, <1>4, <1>9 DEF handle_wl_pointer_frame, MenuCall, Crash, pixmapVars
<1>10. ASSUME timer_hover_clear PROVE CrashesExplained'
  BY <1>2, <1>4, <1>10 DEF timer_hover_clear, Crash, pixmapVars
<1>11. ASSUME menu_init PROVE CrashesExplained'
  BY <1>2, <1>3, <1>11 DEF menu_init, Advance, pixmapVars
<1>12. CASE \/ \E c \in BOOLEAN : Begin(c)
            \/ \E i \in Interfaces : handle_wl_registry_global(i)
            \/ Connected \/ display_in \/ Finish
            \/ \E s \in Seats, caps \in SUBSET {"keyboard", "pointer"} :
                 handle_wl_seat_capabilities(s, caps)
  BY <1>2, <1>12 DEF Begin, handle_wl_registry_global, Connected, display_in, Finish,
     FreePixmaps, handle_wl_seat_capabilities, pixmapVars
<1>13. ASSUME NEW s \in Seats, PointerEvents(s) PROVE CrashesExplained'
  <2>1. CASE PointerUnchanged
    BY <1>2, <2>1 DEF PointerUnchanged, pixmapVars
  <2>2. QED
    BY <1>8, <1>9, <1>13, <2>1 DEF PointerEvents, handle_wl_pointer_motion,
       handle_wl_pointer_leave, handle_wl_pointer_button, handle_wl_pointer_axis
<1>14. QED
  BY <1>6, <1>7, <1>10, <1>11, <1>12, <1>13 DEF Steps, StartupNext

(* A handler for one seat leaves the frames of the others as they are.     *)
LEMMA OneFrame ==
  ASSUME FrameInv, NEW s \in Seats, FrameTypes', FrameKept(s)',
         \A t \in Seats \ {s} :
           event'[t] = event[t] /\ said'[t] = said[t] /\ pointer_xy'[t] = pointer_xy[t]
  PROVE  FrameInv'
<1>1. ASSUME NEW t \in Seats, t # s PROVE FrameKept(t)'
  BY <1>1 DEF FrameInv, FrameKept, Moved
<1>2. QED
  BY <1>1 DEF FrameInv, Seats

LEMMA EventPut ==
  ASSUME event \in [Seats -> EventType], NEW s \in Seats,
         NEW flag \in {"ENTER", "LEAVE", "MOTION", "BUTTON", "AXIS"},
         NEW p \in Positions \union {0}, NEW b \in Buttons \union {NoButton}
  PROVE  /\ [event EXCEPT ![s].mask = @ \union {flag}, ![s].pos = p] \in [Seats -> EventType]
         /\ [event EXCEPT ![s].mask = @ \union {flag}, ![s].state = b]
              \in [Seats -> EventType]
<1>1. event[s] \in EventType
  OBVIOUS
<1>2. event[s].mask \union {flag} \in SUBSET {"ENTER", "LEAVE", "MOTION", "BUTTON", "AXIS"}
  BY <1>1 DEF EventType
<1>3. /\ [event[s] EXCEPT !.mask = @ \union {flag}, !.pos = p] \in EventType
      /\ [event[s] EXCEPT !.mask = @ \union {flag}, !.state = b] \in EventType
  BY <1>1, <1>2 DEF EventType
<1>4. QED
  BY <1>3

LEMMA SaidPut ==
  ASSUME said \in [Seats -> SaidType], NEW s \in Seats, NEW p \in Positions
  PROVE  /\ [said EXCEPT ![s].inside = TRUE, ![s].pos = p, ![s].moved = TRUE]
              \in [Seats -> SaidType]
         /\ [said EXCEPT ![s].pos = p, ![s].moved = TRUE] \in [Seats -> SaidType]
<1>1. said[s] \in SaidType
  OBVIOUS
<1>2. /\ [said[s] EXCEPT !.inside = TRUE, !.pos = p, !.moved = TRUE] \in SaidType
      /\ [said[s] EXCEPT !.pos = p, !.moved = TRUE] \in SaidType
  BY <1>1 DEF SaidType
<1>3. QED
  BY <1>2

LEMMA StepsFrame == Inv /\ Steps => FrameInv'
<1> SUFFICES ASSUME Inv, Steps PROVE FrameInv'
  OBVIOUS
<1>0. FrameInv /\ FrameTypes /\ \A s \in Seats : FrameKept(s)
  BY DEF Inv, FrameInv
<1>1. ASSUME UNCHANGED << pointers, event, said, pointer_xy >> PROVE FrameInv'
  BY <1>0, <1>1 DEF FrameInv, FrameTypes, FrameKept, Moved, Seats
<1>2. CASE \/ \E c \in BOOLEAN : Begin(c)
           \/ \E i \in Interfaces : handle_wl_registry_global(i)
           \/ Connected \/ menu_init \/ timer_hover_clear \/ display_in \/ Finish
           \/ \E s \in Seats : handle_wl_keyboard_keymap(s) \/ handle_wl_keyboard_key(s)
  BY <1>1, <1>2 DEF Begin, handle_wl_registry_global, Connected, menu_init,
     timer_hover_clear, display_in, Finish, handle_wl_keyboard_keymap,
     handle_wl_keyboard_key, deviceVars
<1>3. ASSUME NEW s \in Seats, NEW caps, handle_wl_seat_capabilities(s, caps)
      PROVE  FrameInv'
  <2>1. /\ pointers' \subseteq Seats /\ UNCHANGED << event, pointer_xy >>
        /\ event[s].mask = {} /\ said' = [said EXCEPT ![s] = Outside]
    BY <1>0, <1>3 DEF handle_wl_seat_capabilities, FrameTypes
  <2>2. FrameTypes'
    BY <1>0, <2>1 DEF FrameTypes, SaidType, Outside, Seats
  <2>3. FrameKept(s)'
    BY <1>0, <2>1 DEF FrameTypes, FrameKept, Moved, Outside
  <2>4. QED
    BY <1>0, <2>1, <2>2, <2>3, OneFrame DEF FrameTypes
<1>4. ASSUME NEW s \in Seats, NEW p \in Positions,
             handle_wl_pointer_enter(s, p) \/ handle_wl_pointer_motion(s, p)
      PROVE  FrameInv'
  <2>1. /\ UNCHANGED << pointers, pointer_xy >>
        /\ \E flag \in {"ENTER", "MOTION"} :
             event' = [event EXCEPT ![s].mask = @ \union {flag}, ![s].pos = p]
        /\ \/ said' = [said EXCEPT ![s].inside = TRUE, ![s].pos = p, ![s].moved = TRUE]
           \/ said' = [said EXCEPT ![s].pos = p, ![s].moved = TRUE]
    BY <1>4 DEF handle_wl_pointer_enter, handle_wl_pointer_motion, Add, PointerUnchanged
  <2>2. FrameTypes'
    <3>1. event' \in [Seats -> EventType]
      <4>1. PICK flag \in {"ENTER", "MOTION"} :
              event' = [event EXCEPT ![s].mask = @ \union {flag}, ![s].pos = p]
        BY <2>1
      <4>2. QED
        BY <1>0, <4>1, EventPut DEF FrameTypes
    <3>2. said' \in [Seats -> SaidType]
      <4>1. said \in [Seats -> SaidType]
        BY <1>0 DEF FrameTypes
      <4>2. CASE said' = [said EXCEPT ![s].inside = TRUE, ![s].pos = p, ![s].moved = TRUE]
        BY <4>1, <4>2, SaidPut
      <4>3. CASE said' = [said EXCEPT ![s].pos = p, ![s].moved = TRUE]
        BY <4>1, <4>3, SaidPut
      <4>4. QED
        BY <2>1, <4>2, <4>3
    <3>3. QED
      BY <1>0, <2>1, <3>1, <3>2 DEF FrameTypes, Seats
  <2>3. FrameKept(s)'
    BY <1>0, <2>1 DEF FrameTypes, EventType, SaidType, FrameKept, Moved
  <2>4. QED
    BY <1>0, <2>1, <2>2, <2>3, OneFrame DEF FrameTypes
<1>5. ASSUME NEW s \in Seats, handle_wl_pointer_leave(s) \/ handle_wl_pointer_axis(s)
      PROVE  FrameInv'
  <2>1. /\ UNCHANGED << pointers, pointer_xy >>
        /\ \E flag \in {"LEAVE", "AXIS"} :
             event' = [event EXCEPT ![s].mask = @ \union {flag}, ![s].pos = event[s].pos]
        /\ said' = said \/ said' = [said EXCEPT ![s].inside = FALSE]
    BY <1>5 DEF handle_wl_pointer_leave, handle_wl_pointer_axis, Add, PointerUnchanged
  <2>2. FrameTypes'
    <3>1. event' \in [Seats -> EventType]
      <4>1. PICK flag \in {"LEAVE", "AXIS"} :
              event' = [event EXCEPT ![s].mask = @ \union {flag}, ![s].pos = event[s].pos]
        BY <2>1
      <4>2. event[s].pos \in Positions \union {0}
        BY <1>0 DEF FrameTypes, EventType
      <4>3. QED
        BY <1>0, <4>1, <4>2, EventPut DEF FrameTypes
    <3>2. said' \in [Seats -> SaidType]
      <4>1. said \in [Seats -> SaidType]
        BY <1>0 DEF FrameTypes
      <4>2. [said[s] EXCEPT !.inside = FALSE] \in SaidType
        BY <4>1 DEF SaidType
      <4>3. [said EXCEPT ![s].inside = FALSE] \in [Seats -> SaidType]
        BY <4>1, <4>2
      <4>4. QED
        BY <2>1, <4>1, <4>3
    <3>3. QED
      BY <1>0, <2>1, <3>1, <3>2 DEF FrameTypes, Seats
  <2>3. FrameKept(s)'
    BY <1>0, <2>1 DEF FrameTypes, EventType, SaidType, FrameKept, Moved
  <2>4. QED
    BY <1>0, <2>1, <2>2, <2>3, OneFrame DEF FrameTypes
<1>6. ASSUME NEW s \in Seats, NEW b \in Buttons, handle_wl_pointer_button(s, b)
      PROVE  FrameInv'
  <2>1. /\ UNCHANGED << pointers, pointer_xy >> /\ said[s].inside
        /\ event' = [event EXCEPT ![s].mask = @ \union {"BUTTON"}, ![s].state = b]
        /\ said' = [said EXCEPT ![s].button = b]
        /\ b # NoButton
    BY <1>6 DEF handle_wl_pointer_button, PointerUnchanged, Over, Buttons, NoButton
  <2>2. FrameTypes'
    <3>1. event' \in [Seats -> EventType]
      BY <1>0, <2>1, EventPut DEF FrameTypes
    <3>2. said' \in [Seats -> SaidType]
      BY <1>0, <2>1 DEF FrameTypes, SaidType
    <3>3. QED
      BY <1>0, <2>1, <3>1, <3>2 DEF FrameTypes, Seats
  <2>3. FrameKept(s)'
    BY <1>0, <2>1 DEF FrameTypes, EventType, SaidType, FrameKept, Moved
  <2>4. QED
    BY <1>0, <2>1, <2>2, <2>3, OneFrame DEF FrameTypes
<1>7. ASSUME NEW s \in Seats, handle_wl_pointer_frame(s) PROVE FrameInv'
  <2>1. /\ UNCHANGED pointers
        /\ pointer_xy' = [pointer_xy EXCEPT ![s] = At(s)]
        /\ event' = [event EXCEPT ![s] = NoEvent]
        /\ said' = [said EXCEPT ![s].moved = FALSE, ![s].button = NoButton]
    BY <1>7 DEF handle_wl_pointer_frame
  <2>2. At(s) \in Positions \union {0}
    BY <1>0 DEF FrameTypes, EventType, At
  <2>3. FrameTypes'
    <3>1. NoEvent \in EventType
      BY DEF NoEvent, EventType
    <3>2. event' \in [Seats -> EventType]
      BY <1>0, <2>1, <3>1 DEF FrameTypes
    <3>3. said' \in [Seats -> SaidType]
      BY <1>0, <2>1 DEF FrameTypes, SaidType
    <3>4. pointer_xy' \in [Seats -> Positions \union {0}]
      BY <1>0, <2>1, <2>2 DEF FrameTypes
    <3>5. QED
      BY <1>0, <2>1, <3>2, <3>3, <3>4 DEF FrameTypes, Seats
  <2>4. said[s].inside => At(s) = said[s].pos
    BY <1>0 DEF FrameKept, At
  <2>5. FrameKept(s)'
    BY <1>0, <2>1, <2>4 DEF FrameTypes, EventType, SaidType, FrameKept, Moved, NoEvent
  <2>6. QED
    BY <1>0, <2>1, <2>3, <2>5, OneFrame DEF FrameTypes
<1>8. QED
  BY <1>2, <1>3, <1>4, <1>5, <1>6, <1>7 DEF Steps, StartupNext, PointerEvents

LEMMA StuttersInv == Inv /\ UNCHANGED startupVars => Inv'
<1> SUFFICES ASSUME Inv, UNCHANGED startupVars PROVE Inv'
  OBVIOUS
<1> USE DEF Inv, startupVars, pixmapVars, globalVars, deviceVars
<1>1. WorkInv'
  BY OtherWork
<1>2. SeatInv'
  BY DEF SeatInv
<1>3. FrameInv'
  BY DEF FrameInv, FrameTypes, FrameKept, Moved, Seats
<1>4. CrashesExplained'
  BY DEF CrashesExplained, Alive, Reachable, HasEmptyMenu, Vector
<1>5. QED
  BY <1>1, <1>2, <1>3, <1>4

LEMMA NextInv == Inv /\ [Next]_programVars => Inv'
<1> SUFFICES ASSUME Inv, [Next]_programVars PROVE Inv'
  OBVIOUS
<1>1. Steps \/ UNCHANGED startupVars
  BY DEF Next, run, Steps, programVars
<1>2. QED
  BY <1>1, StepsWork, StepsSeats, StepsFrame, StepsCrash, StuttersInv DEF Inv

LEMMA Invariant == Spec => []Inv
<1>1. Init => Inv
  BY InitInv DEF Init
<1>2. QED
  BY <1>1, NextInv, PTL DEF Spec

(* Of every run of the program, with any menus, icon theme and number of   *)
(* seats: the two pixmaps that pixmap_create makes for an item are known   *)
(* to the item as long as they exist, and menu_finish leaves none.         *)
THEOREM PixmapsAccounted == Spec => []SurfacesAccounted
<1>1. Inv => SurfacesAccounted
  <2> SUFFICES ASSUME Inv PROVE SurfacesAccounted
    OBVIOUS
  <2>1. work = "freed" => surfaces = 0
    BY FS_EmptySet DEF Inv, WorkInv, PixmapInv, SurfaceInv
  <2>2. QED
    BY <2>1 DEF Inv, WorkInv, PixmapInv, SurfaceInv, SurfacesAccounted
<1>2. QED
  BY <1>1, Invariant, PTL

(* post_processing and generate_pixmaps come to every item below the root  *)
(* menu, however the submenus refer to each other, and when both are done  *)
(* the items show the icons that the menu file and the theme name.         *)
THEOREM MenuDrawn == Spec => []IconsShown
<1>1. Inv => IconsShown
  BY DEF Inv, WorkInv, PixmapInv, IconsShown, Shows
<1>2. QED
  BY <1>1, Invariant, PTL

(* What handle_wl_pointer_frame tells the menu is what the compositor has  *)
(* told since the last frame, for every seat and order of pointer events.  *)
THEOREM FramesDelivered == Spec => []FrameDelivered
<1>1. Inv => FrameDelivered
  <2> SUFFICES ASSUME Inv, NEW s \in pointers
               PROVE  menu_calls(s) = Calls(said[s].moved, said[s].button, said[s].pos)
    BY DEF FrameDelivered
  <2>1. s \in Seats /\ FrameKept(s) /\ FrameTypes
    BY DEF Inv, FrameInv, FrameTypes
  <2>2. Moved(s) = said[s].moved
    BY <2>1 DEF FrameKept, FrameTypes, SaidType, Moved
  <2>3. (IF "BUTTON" \in event[s].mask THEN event[s].state ELSE NoButton) = said[s].button
    BY <2>1 DEF FrameKept
  <2>4. Moved(s) \/ said[s].button # NoButton => At(s) = said[s].pos
    BY <2>1 DEF FrameKept, At
  <2>5. QED
    BY <2>2, <2>3, <2>4 DEF menu_calls, Calls
<1>2. QED
  BY <1>1, Invariant, PTL

(* What makes the program crash where it uses the cursor and the keymap,   *)
(* where it looks at the end of the name of an icon, and in its calls into *)
(* the menu: a second seat, a cursor or keymap that is not there, a key    *)
(* before the menu is shown, an empty menu, or a path of less than four    *)
(* bytes.                                                                  *)
THEOREM CrashesAreExplained == Spec => []CrashesExplained
<1>1. Inv => CrashesExplained
  BY DEF Inv
<1>2. QED
  BY <1>1, Invariant, PTL
-----------------------------------------------------------------------------
(* The command line.  While a bundle is being read, it is the first option *)
(* of argv, and some of it is left.                                        *)
InBundle ==
  \E i \in First : WordAt(i).kind = "short" /\ offset < Len(WordAt(i).letters)

OffsetInv == Parsing /\ offset # 0 => InBundle

LineInv == OptionsTypeOK /\ OffsetInv

LEMMA FirstIsOne ==
  ASSUME OptionsTypeOK, NEW i \in First, NEW j \in First
  PROVE  /\ i = j /\ i \in 1 .. Len(argv) /\ Len(argv) \in Nat
         /\ argv[i] \in 1 .. Len(line) /\ WordAt(i) \in Word
<1>1. argv \in Seq(1 .. Len(line)) /\ line \in Seq(Word)
  BY DEF OptionsTypeOK
<1>2. i \in 1 .. Len(argv) /\ j \in 1 .. Len(argv) /\ Len(argv) \in Nat
  BY <1>1 DEF First
<1>3. WordAt(i).kind # "plain" /\ WordAt(j).kind # "plain"
      /\ (\A k \in 1 .. i - 1 : WordAt(k).kind = "plain")
      /\ (\A k \in 1 .. j - 1 : WordAt(k).kind = "plain")
  BY DEF First
<1>4. i = j
  BY <1>2, <1>3
<1>5. argv[i] \in 1 .. Len(line)
  BY <1>1, <1>2
<1>6. WordAt(i) \in Word
  BY <1>1, <1>5 DEF WordAt
<1>7. QED
  BY <1>2, <1>4, <1>5, <1>6

(* Taking words out of argv leaves places of the line.                     *)
LEMMA Consumed ==
  ASSUME OptionsTypeOK, NEW i \in 1 .. Len(argv), NEW n \in 1 .. 2, n <= Len(argv)
  PROVE  consume_option(i, n) \in Seq(1 .. Len(line))
<1>1. argv \in Seq(1 .. Len(line)) /\ Len(argv) \in Nat
  BY DEF OptionsTypeOK
<1>2. \A k \in 1 .. Len(argv) - n :
        (IF k < i THEN argv[k] ELSE argv[k + n]) \in 1 .. Len(line)
  BY <1>1
<1>3. Len(argv) - n \in Nat
  BY <1>1
<1>4. QED
  BY <1>2, <1>3 DEF consume_option

(* A callback keeps the types, whatever the option and the argument.       *)
LEMMA CallbackTypes ==
  ASSUME OptionsTypeOK, NEW o, NEW arg \in Place, callback(o, arg)
  PROVE  /\ config_file' \in Place /\ menu_file' \in Place
         /\ show_version' \in BOOLEAN /\ verbose' \in Nat
         /\ status' \in {"help", status}
         /\ o = "help" => status' = "help"
BY DEF callback, opt_set_charp, opt_set_bool, opt_inc_intval, opt_usage_and_exit,
   OptionsTypeOK

LEMMA PlaceMade ==
  ASSUME NEW w \in Nat, NEW n \in Nat
  PROVE  [word |-> w, from |-> n] \in Place /\ Null \in Place
BY DEF Place, Null

LEMMA InitLine == OptionsInit => LineInv
<1> SUFFICES ASSUME OptionsInit PROVE LineInv
  OBVIOUS
<1> USE DEF OptionsInit
<1>1. line \in Seq(Word) /\ Len(line) \in Nat
  BY OptionsAssumption
<1>2. argv \in Seq(1 .. Len(line))
  BY <1>1
<1>3. config_file \in Place /\ menu_file \in Place
  BY PlaceMade
<1>4. status \in {"parsing", "exit"}
  OBVIOUS
<1>5. show_version \in BOOLEAN /\ posix \in BOOLEAN
  OBVIOUS
<1>6. offset \in Nat /\ verbose \in Nat /\ log_importance \in 1 .. 3
  BY SMT
<1>7. OptionsTypeOK
  BY <1>1, <1>2, <1>3, <1>4, <1>5, <1>6 DEF OptionsTypeOK
<1>8. QED
  BY <1>7 DEF LineInv, OffsetInv

LEMMA ErrorLine ==
  ASSUME LineInv, Fail, UNCHANGED << line, posix, log_importance >>
  PROVE  LineInv'
BY DEF LineInv, OptionsTypeOK, OffsetInv, Parsing, Fail, values

LEMMA LongLine ==
  ASSUME LineInv, Parsing, NEW i \in First, Long(i),
         UNCHANGED << line, posix, log_importance >>
  PROVE  LineInv'
<1> DEFINE w == WordAt(i)
           o == CHOOSE x \in opt_find_long(w.name) : TRUE
<1>0. OptionsTypeOK /\ OffsetInv
  BY DEF LineInv
<1>1. /\ i \in 1 .. Len(argv) /\ Len(argv) \in Nat
      /\ argv[i] \in 1 .. Len(line) /\ Len(line) \in Nat
      /\ argv \in Seq(1 .. Len(line))
  BY <1>0, FirstIsOne DEF OptionsTypeOK
<1>2. w.kind = "long" /\ offset' = offset
  BY DEF Long
<1>3. offset = 0
  <2> SUFFICES ASSUME offset # 0 PROVE FALSE
    OBVIOUS
  <2>1. PICK j \in First : WordAt(j).kind = "short"
    BY <1>0 DEF OffsetInv, InBundle
  <2>2. i = j
    BY <1>0, FirstIsOne
  <2>3. QED
    BY <1>2, <2>1, <2>2
<1>4. Null \in Place /\ [word |-> argv[i], from |-> 1] \in Place
  BY <1>1, PlaceMade
<1> HIDE DEF w
<1>5. CASE Fail
  BY <1>5, ErrorLine
<1>6. CASE /\ callback(o, IF w.value THEN [word |-> argv[i], from |-> 1] ELSE Null)
           /\ argv' = IF o = "help" THEN argv ELSE consume_option(i, 1)
  <2> DEFINE arg == IF w.value THEN [word |-> argv[i], from |-> 1] ELSE Null
  <2>1. arg \in Place
    BY <1>4
  <2> HIDE DEF arg, o
  <2>2. callback(o, arg)
    BY <1>6 DEF arg
  <2>3. argv' \in Seq(1 .. Len(line))
    BY <1>0, <1>1, <1>6, Consumed
  <2>4. OptionsTypeOK'
    BY <1>0, <1>2, <2>1, <2>2, <2>3, CallbackTypes DEF OptionsTypeOK
  <2>5. QED
    BY <1>2, <1>3, <2>4 DEF LineInv, OffsetInv
<1>7. CASE /\ i # Len(argv)
           /\ callback(o, [word |-> argv[i + 1], from |-> 0])
           /\ argv' = consume_option(i, 2)
  <2> DEFINE arg == [word |-> argv[i + 1], from |-> 0]
  <2>1. i + 1 \in 1 .. Len(argv)
    BY <1>1, <1>7
  <2>2. argv[i + 1] \in 1 .. Len(line)
    BY <1>1, <2>1
  <2>3. arg \in Place
    BY <1>1, <2>2, PlaceMade
  <2> HIDE DEF arg, o
  <2>4. callback(o, arg)
    BY <1>7 DEF arg
  <2>5. argv' \in Seq(1 .. Len(line))
    BY <1>0, <1>1, <1>7, <2>1, Consumed
  <2>6. OptionsTypeOK'
    BY <1>0, <1>2, <2>3, <2>4, <2>5, CallbackTypes DEF OptionsTypeOK
  <2>7. QED
    BY <1>2, <1>3, <2>6 DEF LineInv, OffsetInv
<1>8. QED
  BY <1>5, <1>6, <1>7 DEF Long, w

LEMMA ShortLine ==
  ASSUME LineInv, Parsing, NEW i \in First, Short(i),
         UNCHANGED << line, posix, log_importance >>
  PROVE  LineInv'
<1> DEFINE w == WordAt(i)
           n == offset + 1
           o == CHOOSE x \in opt_find_short(w.letters[n]) : TRUE
<1>0. OptionsTypeOK
  BY DEF LineInv
<1>1. /\ i \in 1 .. Len(argv) /\ Len(argv) \in Nat /\ w \in Word
      /\ argv[i] \in 1 .. Len(line) /\ Len(line) \in Nat
      /\ argv \in Seq(1 .. Len(line))
  BY <1>0, FirstIsOne DEF OptionsTypeOK
<1>2. w.kind = "short" /\ n \in Nat /\ Len(w.letters) \in Nat
  BY <1>0, <1>1 DEF Short, OptionsTypeOK, Word
<1>3. Null \in Place /\ [word |-> argv[i], from |-> n] \in Place
  BY <1>1, <1>2, PlaceMade
<1>4. ASSUME NEW x, NEW arg \in Place, callback(x, arg), offset' \in Nat,
             argv' \in Seq(1 .. Len(line))
      PROVE  OptionsTypeOK'
  BY <1>0, <1>4, CallbackTypes DEF OptionsTypeOK
<1> HIDE DEF w, n, o
<1>5. CASE Fail
  BY <1>5, ErrorLine
<1>6. CASE /\ n <= Len(w.letters) /\ callback(o, Null)
           /\ IF o # "help" /\ n = Len(w.letters)
                THEN offset' = 0 /\ argv' = consume_option(i, 1)
                ELSE offset' = n /\ argv' = argv
  <2>1. argv' \in Seq(1 .. Len(line)) /\ offset' \in Nat
    BY <1>0, <1>1, <1>2, <1>6, Consumed
  <2>2. OptionsTypeOK'
    BY <1>3, <1>4, <1>6, <2>1
  <2>3. ASSUME Parsing', offset' # 0 PROVE InBundle'
    <3>1. o # "help"
      BY <1>0, <1>3, <1>6, <2>3, CallbackTypes DEF Parsing
    <3>2. n < Len(w.letters) /\ offset' = n /\ argv' = argv
      BY <1>2, <1>6, <2>3, <3>1
    <3>3. First' = First /\ WordAt(i)' = w
      BY <3>2 DEF First, WordAt, w
    <3>4. QED
      BY <1>2, <3>2, <3>3 DEF InBundle
  <2>4. QED
    BY <2>2, <2>3 DEF LineInv, OffsetInv
<1>7. CASE /\ callback(o, [word |-> argv[i], from |-> n])
           /\ offset' = 0 /\ argv' = consume_option(i, 1)
  <2>1. argv' \in Seq(1 .. Len(line))
    BY <1>0, <1>1, <1>7, Consumed
  <2>2. QED
    BY <1>3, <1>4, <1>7, <2>1 DEF LineInv, OffsetInv
<1>8. CASE /\ i < Len(argv) /\ callback(o, [word |-> argv[i + 1], from |-> 0])
           /\ offset' = 0 /\ argv' = consume_option(i, 2)
  <2>1. i + 1 \in 1 .. Len(argv)
    BY <1>1, <1>8
  <2>2. [word |-> argv[i + 1], from |-> 0] \in Place
    BY <1>1, <2>1, PlaceMade
  <2>3. argv' \in Seq(1 .. Len(line))
    BY <1>0, <1>1, <1>8, <2>1, Consumed
  <2>4. QED
    BY <1>4, <1>8, <2>2, <2>3 DEF LineInv, OffsetInv
<1>9. QED
  BY <1>5, <1>6, <1>7, <1>8 DEF Short, w, n, o

LEMMA NextLine == LineInv /\ [Next]_programVars => LineInv'
<1> SUFFICES ASSUME LineInv, [Next]_programVars PROVE LineInv'
  OBVIOUS
<1>0. OptionsTypeOK /\ OffsetInv
  BY DEF LineInv
<1>1. CASE UNCHANGED optionVars
  BY <1>0, <1>1 DEF optionVars, values, LineInv, OptionsTypeOK, OffsetInv, InBundle,
     Parsing, First, WordAt
<1>2. CASE parse_one
  <2>1. CASE Done
    BY <1>0, <2>1 DEF Done, LineInv, OptionsTypeOK, OffsetInv, Parsing, values
  <2>2. ASSUME Parsing, UNCHANGED << line, posix, log_importance >>,
               NEW i \in First, Terminator(i)
        PROVE  LineInv'
    <3>1. i \in 1 .. Len(argv) /\ Len(argv) \in Nat
      BY <1>0, FirstIsOne
    <3>2. argv' \in Seq(1 .. Len(line))
      BY <1>0, <2>2, <3>1, Consumed DEF Terminator
    <3>3. OptionsTypeOK' /\ ~ Parsing'
      BY <1>0, <2>2, <3>2 DEF Terminator, OptionsTypeOK, values, Parsing
    <3>4. QED
      BY <3>3 DEF LineInv, OffsetInv
  <2>3. QED
    BY <1>2, <2>1, <2>2, LongLine, ShortLine DEF parse_one
<1>3. CASE main
  <2>1. log_importance' \in 1 .. 3
    BY <1>0, <1>3 DEF main, OptionsTypeOK, log_init, LogDebug
  <2>2. OptionsTypeOK'
    BY <1>0, <1>3, <2>1 DEF main, OptionsTypeOK, values
  <2>3. ~ Parsing'
    BY <1>3 DEF main, Parsing
  <2>4. QED
    BY <2>2, <2>3 DEF LineInv, OffsetInv
<1>4. CASE run
  <2>1. config_file' \in Place /\ menu_file' \in Place
    BY <1>4, PlaceMade DEF run
  <2>2. line' \in Seq(Word) /\ argv' \in Seq(1 .. Len(line'))
    BY <1>4 DEF run
  <2>3. show_version' \in BOOLEAN /\ posix' \in BOOLEAN /\ status' = "running"
    BY <1>4 DEF run
  <2>4. offset' = 0 /\ verbose' \in Nat /\ log_importance' \in 1 .. 3
    BY <1>4, SMT DEF run
  <2>5. OptionsTypeOK'
    BY <2>1, <2>2, <2>3, <2>4 DEF OptionsTypeOK
  <2>6. QED
    BY <2>4, <2>5 DEF LineInv, OffsetInv
<1>5. QED
  BY <1>1, <1>2, <1>3, <1>4 DEF Next, programVars

(* The assertion of parse_one holds: it is at a long option only when no   *)
(* bundle has been begun.  And a bundle that has been begun is not yet     *)
(* over, so that the next letter is one of it.                             *)
BundlesFinished ==
  Parsing /\ offset # 0 =>
    \A i \in First : WordAt(i).kind = "short" /\ offset + 1 <= Len(WordAt(i).letters)

THEOREM AssertionHolds == Spec => [](OptionsTypeOK /\ BundlesFinished)
<1>1. Init => LineInv
  BY InitLine DEF Init
<1>2. LineInv => OptionsTypeOK /\ BundlesFinished
  <2> SUFFICES ASSUME LineInv, Parsing, offset # 0, NEW i \in First
               PROVE  WordAt(i).kind = "short" /\ offset + 1 <= Len(WordAt(i).letters)
    BY DEF LineInv, BundlesFinished
  <2>1. PICK j \in First : WordAt(j).kind = "short" /\ offset < Len(WordAt(j).letters)
    BY DEF LineInv, OffsetInv, InBundle
  <2>2. i = j /\ WordAt(j) \in Word /\ offset \in Nat
    BY FirstIsOne DEF LineInv, OptionsTypeOK
  <2>3. Len(WordAt(j).letters) \in Nat
    BY <2>2 DEF Word
  <2>4. QED
    BY <2>1, <2>2, <2>3
<1>3. QED
  BY <1>1, <1>2, NextLine, PTL DEF Spec

-----------------------------------------------------------------------------
(* What a command line means.  The words of Meaning and Reading, in the    *)
(* order in which a proof needs them.                                      *)

(* What Meaning says of a word. *)
Says(sets, words, then) == [sets |-> sets, words |-> words, then |-> then]

TheOption(found) == CHOOSE o \in found : TRUE

(* The table, written out. *)
LEMMA Table ==
  /\ DOMAIN opts = {"config_file", "help", "menu_file", "version", "verbose"}
  /\ opts["config_file"].hasarg /\ opts["menu_file"].hasarg
  /\ ~ opts["help"].hasarg /\ ~ opts["version"].hasarg /\ ~ opts["verbose"].hasarg
  /\ opts["config_file"].letter = "c" /\ opts["menu_file"].letter = "m"
  /\ opts["help"].letter = "h" /\ opts["version"].letter = "v"
  /\ opts["verbose"].letter = "V"
  /\ Flags = {"v", "V"}
  /\ \A o \in DOMAIN opts : opts[o].hasarg \in BOOLEAN
<1>1. DOMAIN opts = {"config_file", "help", "menu_file", "version", "verbose"}
  BY DEF opts
<1>2. /\ opts["config_file"].hasarg = TRUE /\ opts["menu_file"].hasarg = TRUE
      /\ opts["help"].hasarg = FALSE /\ opts["version"].hasarg = FALSE
      /\ opts["verbose"].hasarg = FALSE
  BY DEF opts
<1>3. /\ opts["config_file"].letter = "c" /\ opts["menu_file"].letter = "m"
      /\ opts["help"].letter = "h" /\ opts["version"].letter = "v"
      /\ opts["verbose"].letter = "V"
  BY DEF opts
<1>4. Flags = {"v", "V"}
  BY <1>3 DEF Flags
<1>5. \A o \in DOMAIN opts : opts[o].hasarg \in BOOLEAN
  <2>1. \A o \in DOMAIN opts : opts[o].hasarg = TRUE \/ opts[o].hasarg = FALSE
    BY <1>1, <1>2
  <2>2. QED
    BY <2>1
<1>6. QED
  BY <1>1, <1>2, <1>3, <1>4, <1>5

(* A flag is the letter of an option without an argument that does not end *)
(* reading; another letter is not.                                         *)
LEMMA LetterFacts ==
  ASSUME NEW letter, opt_find_short(letter) # {}
  PROVE  LET o == TheOption(opt_find_short(letter))
         IN  /\ o \in DOMAIN opts /\ opts[o].letter = letter
             /\ letter \in Flags <=> o \in {"version", "verbose"}
             /\ letter \in Flags <=> ~ opts[o].hasarg /\ o # "help"
<1> DEFINE o == TheOption(opt_find_short(letter))
<1>1. o \in opt_find_short(letter)
  BY DEF TheOption
<1>2. o \in DOMAIN opts /\ opts[o].letter = letter
  BY <1>1 DEF opt_find_short
<1> HIDE DEF o
<1>3. letter \in Flags <=> o \in {"version", "verbose"}
  BY <1>2, Table
<1>4. letter \in Flags <=> ~ opts[o].hasarg /\ o # "help"
  BY <1>2, <1>3, Table
<1>5. QED
  BY <1>2, <1>3, <1>4 DEF o

LEMMA FlagsAreFound ==
  ASSUME NEW letter \in Flags PROVE opt_find_short(letter) # {}
<1>1. letter \in sopts /\ \E o \in DOMAIN opts : opts[o].letter = letter
  BY Table DEF sopts
<1>2. QED
  BY <1>1 DEF opt_find_short

LEMMA NameFacts ==
  ASSUME NEW name, opt_find_long(name) # {}
  PROVE  TheOption(opt_find_long(name)) \in DOMAIN opts
<1>1. TheOption(opt_find_long(name)) \in opt_find_long(name)
  BY DEF TheOption
<1>2. QED
  BY <1>1 DEF opt_find_long

(* Meaning, case by case. *)
LEMMA TerminatorMeans ==
  ASSUME NEW l, NEW i, l[i].kind = "terminator"
  PROVE  Meaning(l, i) = Says(<< >>, 1, "parsed")
BY DEF Meaning, Says

LEMMA LongMeans ==
  ASSUME NEW l, NEW i, l[i].kind = "long"
  PROVE  LET w == l[i]
             found == opt_find_long(w.name)
             o == TheOption(found)
             arg(n, k) == [word |-> n, from |-> k]
         IN  /\ found = {} => Meaning(l, i) = Says(<< >>, 0, "error")
             /\ found # {} /\ opts[o].hasarg /\ w.value =>
                  Meaning(l, i) = Says(<< >> \o Set(o, arg(i, 1)), 1, "next")
             /\ found # {} /\ opts[o].hasarg /\ ~ w.value /\ i = Len(l) =>
                  Meaning(l, i) = Says(<< >>, 0, "error")
             /\ found # {} /\ opts[o].hasarg /\ ~ w.value /\ i # Len(l) =>
                  Meaning(l, i) = Says(<< >> \o Set(o, arg(i + 1, 0)), 2, "next")
             /\ found # {} /\ ~ opts[o].hasarg /\ w.value =>
                  Meaning(l, i) = Says(<< >>, 0, "error")
             /\ found # {} /\ ~ opts[o].hasarg /\ ~ w.value /\ o = "help" =>
                  Meaning(l, i) = Says(<< >>, 0, "help")
             /\ found # {} /\ ~ opts[o].hasarg /\ ~ w.value /\ o # "help" =>
                  Meaning(l, i) = Says(<< >> \o Set(o, Null), 1, "next")
BY DEF Meaning, Says, TheOption

LEMMA ShortMeans ==
  ASSUME NEW l, NEW i, l[i].kind = "short"
  PROVE  LET w == l[i]
             k == Turn(w)
             sets == SetFlags(w, k - 1)
             found == opt_find_short(w.letters[k])
             o == TheOption(found)
             arg(n, j) == [word |-> n, from |-> j]
         IN  /\ k > Len(w.letters) /\ w.letters = << >> =>
                  Meaning(l, i) = Says(<< >>, 0, "error")
             /\ k > Len(w.letters) /\ w.letters # << >> =>
                  Meaning(l, i) = Says(sets, 1, "next")
             /\ ~ (k > Len(w.letters)) =>
                  /\ found = {} => Meaning(l, i) = Says(sets, 0, "error")
                  /\ found # {} /\ opts[o].hasarg /\ k < Len(w.letters) =>
                       Meaning(l, i) = Says(sets \o Set(o, arg(i, k)), 1, "next")
                  /\ found # {} /\ opts[o].hasarg /\ ~ (k < Len(w.letters)) /\ i = Len(l) =>
                       Meaning(l, i) = Says(sets, 0, "error")
                  /\ found # {} /\ opts[o].hasarg /\ ~ (k < Len(w.letters)) /\ i # Len(l) =>
                       Meaning(l, i) = Says(sets \o Set(o, arg(i + 1, 0)), 2, "next")
                  /\ found # {} /\ ~ opts[o].hasarg /\ o = "help" =>
                       Meaning(l, i) = Says(sets, 0, "help")
                  /\ found # {} /\ ~ opts[o].hasarg /\ o # "help" =>
                       Meaning(l, i) = Says(sets \o Set(o, Null), 1, "next")
BY DEF Meaning, Says, TheOption

(* The turn of a bundle. *)
LEMMA TurnFacts ==
  ASSUME NEW w \in Word
  PROVE  /\ Len(w.letters) \in Nat
         /\ Turn(w) \in 1 .. Len(w.letters) + 1
         /\ \A j \in 1 .. Turn(w) - 1 : w.letters[j] \in Flags
         /\ Turn(w) <= Len(w.letters) => w.letters[Turn(w)] \notin Flags
         /\ \A n \in 1 .. Len(w.letters) + 1 :
              /\ \A j \in 1 .. n - 1 : w.letters[j] \in Flags
              /\ n <= Len(w.letters) => w.letters[n] \notin Flags
              => Turn(w) = n
<1> DEFINE N == Len(w.letters)
           IsTurn(k) == /\ \A j \in 1 .. k - 1 : w.letters[j] \in Flags
                        /\ k <= N => w.letters[k] \notin Flags
           Stops == {k \in 1 .. N + 1 : k <= N => w.letters[k] \notin Flags}
<1>1. N \in Nat
  <2>1. w.letters \in Seq(STRING)
    BY DEF Word
  <2>2. QED
    BY <2>1, LenProperties
<1> HIDE DEF N
<1>2. Stops \in SUBSET Nat /\ Stops # {}
  <2>1. N + 1 \in Stops
    BY <1>1
  <2>2. QED
    BY <1>1, <2>1
<1>3. PICK k \in Stops : \A j \in Stops : k <= j
  BY <1>2, LeastExists
<1>4. k \in 1 .. N + 1 /\ IsTurn(k)
  <2>1. \A j \in 1 .. k - 1 : j \in 1 .. N + 1 /\ j <= N /\ ~ (k <= j)
    BY <1>1
  <2>2. \A j \in 1 .. k - 1 : w.letters[j] \in Flags
    BY <1>3, <2>1
  <2>3. QED
    BY <2>2
<1>5. Turn(w) = CHOOSE x \in 1 .. N + 1 : IsTurn(x)
  BY DEF Turn, N
<1>6. Turn(w) \in 1 .. N + 1 /\ IsTurn(Turn(w))
  BY <1>4, <1>5
<1>7. ASSUME NEW n \in 1 .. N + 1, IsTurn(n) PROVE Turn(w) = n
  <2> PICK t : t = Turn(w)
    OBVIOUS
  <2>1. t \in 1 .. N + 1 /\ IsTurn(t)
    BY <1>6
  <2>2. ~ (t < n)
    <3>1. SUFFICES ASSUME t < n PROVE FALSE
      OBVIOUS
    <3>2. t \in 1 .. n - 1 /\ t <= N
      BY <1>1, <2>1, <3>1
    <3>3. QED
      BY <1>7, <2>1, <3>2
  <2>3. ~ (n < t)
    <3>1. SUFFICES ASSUME n < t PROVE FALSE
      OBVIOUS
    <3>2. n \in 1 .. t - 1 /\ n <= N
      BY <1>1, <2>1, <3>1
    <3>3. QED
      BY <1>7, <2>1, <3>2
  <2>4. t = n
    BY <1>1, <2>1, <2>2, <2>3
  <2>5. QED
    BY <2>4
<1>8. QED
  BY <1>1, <1>6, <1>7 DEF N

(* The options that the letters of a bundle before its turn set.           *)
Assignment == [option : DOMAIN opts, arg : Place]

LEMMA SetType ==
  ASSUME NEW o \in DOMAIN opts, NEW arg \in Place
  PROVE  /\ [option |-> o, arg |-> arg] \in Assignment
         /\ Set(o, arg) = << [option |-> o, arg |-> arg] >>
         /\ Set(o, arg) \in Seq(Assignment)
<1>1. [option |-> o, arg |-> arg] \in Assignment
  BY DEF Assignment
<1>2. QED
  BY <1>1 DEF Set

LEMMA FlagsType ==
  ASSUME NEW w \in Word, NEW n \in Nat, n <= Len(w.letters),
         \A j \in 1 .. n : w.letters[j] \in Flags
  PROVE  /\ SetFlags(w, n) \in Seq(Assignment)
         /\ Len(SetFlags(w, n)) = n
         /\ \A j \in 1 .. n :
              SetFlags(w, n)[j] =
                [option |-> TheOption(opt_find_short(w.letters[j])), arg |-> Null]
<1>1. ASSUME NEW j \in 1 .. n
      PROVE  [option |-> TheOption(opt_find_short(w.letters[j])), arg |-> Null]
               \in Assignment
  <2>1. TheOption(opt_find_short(w.letters[j])) \in DOMAIN opts
    BY FlagsAreFound, LetterFacts
  <2>2. Null \in Place
    BY DEF Null, Place
  <2>3. QED
    BY <2>1, <2>2, SetType
<1> DEFINE flag(j) == [option |-> TheOption(opt_find_short(w.letters[j])), arg |-> Null]
<1>2. SetFlags(w, n) = [j \in 1 .. n |-> flag(j)]
  BY DEF SetFlags, TheOption
<1>3. \A j \in 1 .. n : flag(j) \in Assignment
  BY <1>1
<1> HIDE DEF flag
<1>4. SetFlags(w, n) \in Seq(Assignment) /\ Len(SetFlags(w, n)) = n
  BY <1>2, <1>3
<1>5. \A j \in 1 .. n : SetFlags(w, n)[j] = flag(j)
  BY <1>2
<1>6. QED
  BY <1>4, <1>5 DEF flag

(* One more letter is one more option. *)
LEMMA FlagsGrow ==
  ASSUME NEW w \in Word, NEW n \in Nat, n + 1 <= Len(w.letters),
         \A j \in 1 .. n + 1 : w.letters[j] \in Flags
  PROVE  SetFlags(w, n + 1) =
           SetFlags(w, n) \o Set(TheOption(opt_find_short(w.letters[n + 1])), Null)
<1> DEFINE a == SetFlags(w, n)
           b == SetFlags(w, n + 1)
           o == TheOption(opt_find_short(w.letters[n + 1]))
           c == Set(o, Null)
<1>1. Len(w.letters) \in Nat
  BY TurnFacts
<1>2. n <= Len(w.letters) /\ \A j \in 1 .. n : j \in 1 .. n + 1
  BY <1>1
<1>3. \A j \in 1 .. n : w.letters[j] \in Flags
  BY <1>2
<1>4. /\ a \in Seq(Assignment) /\ Len(a) = n
      /\ \A j \in 1 .. n :
           a[j] = [option |-> TheOption(opt_find_short(w.letters[j])), arg |-> Null]
  BY <1>2, <1>3, FlagsType
<1>5. /\ b \in Seq(Assignment) /\ Len(b) = n + 1
      /\ \A j \in 1 .. n + 1 :
           b[j] = [option |-> TheOption(opt_find_short(w.letters[j])), arg |-> Null]
  BY FlagsType
<1>6. o \in DOMAIN opts /\ Null \in Place
  <2>1. n + 1 \in 1 .. n + 1
    OBVIOUS
  <2>2. o \in DOMAIN opts
    BY <2>1, FlagsAreFound, LetterFacts
  <2>3. QED
    BY <2>2 DEF Null, Place
<1>7. c \in Seq(Assignment) /\ c = << [option |-> o, arg |-> Null] >>
  BY <1>6, SetType
<1>8. Len(c) = 1 /\ c[1] = [option |-> o, arg |-> Null]
  BY <1>7
<1> HIDE DEF a, b, c
<1>9. /\ a \o c \in Seq(Assignment) /\ Len(a \o c) = n + 1
      /\ \A j \in 1 .. n + 1 : (a \o c)[j] = IF j <= n THEN a[j] ELSE c[j - n]
  BY <1>4, <1>7, <1>8, ConcatProperties
<1>10. ASSUME NEW j \in 1 .. n + 1 PROVE (a \o c)[j] = b[j]
  <2>1. CASE j \in 1 .. n
    BY <1>4, <1>5, <1>9, <2>1
  <2>2. CASE j = n + 1
    <3>1. ~ (j <= n) /\ j - n = 1
      BY <2>2
    <3>2. (a \o c)[j] = c[1]
      BY <1>9, <3>1
    <3>3. QED
      BY <1>5, <1>8, <2>2, <3>2
  <2>3. j \in 1 .. n \/ j = n + 1
    OBVIOUS
  <2>4. QED
    BY <2>1, <2>2, <2>3
<1>11. b = a \o c
  BY <1>5, <1>9, <1>10, SeqEqual
<1>12. QED
  BY <1>11 DEF a, b, c

(* What a word means takes no more words than there are. *)
LEMMA MeaningType ==
  ASSUME NEW l \in Seq(Word), NEW i \in 1 .. Len(l), l[i].kind # "plain"
  PROVE  \E sets \in Seq(Assignment), words \in 0 .. 2,
            then \in {"next", "parsed", "error", "help"} :
           /\ Meaning(l, i) = Says(sets, words, then)
           /\ then = "next" => words >= 1
           /\ i + words <= Len(l) + 1
<1> DEFINE w == l[i]
<1>1. Len(l) \in Nat /\ i \in Nat /\ i + 1 <= Len(l) + 1
      /\ (i # Len(l) => i + 2 <= Len(l) + 1)
  BY LenProperties
<1>2. w \in Word /\ w.kind \in {"terminator", "long", "short"}
  <2>1. w \in Word
    BY ElementOfSeq
  <2>2. w.kind \in {"plain", "terminator", "long", "short"}
    BY <2>1 DEF Word
  <2>3. w.kind # "plain"
    OBVIOUS
  <2> HIDE DEF w
  <2>4. QED
    BY <2>1, <2>2, <2>3
<1>3. << >> \in Seq(Assignment)
  OBVIOUS
<1>4. /\ Null \in Place /\ \A k \in Nat : [word |-> i, from |-> k] \in Place
      /\ [word |-> i + 1, from |-> 0] \in Place
  BY <1>1 DEF Null, Place
<1>5. ASSUME NEW sets \in Seq(Assignment), NEW o \in DOMAIN opts, NEW arg \in Place
      PROVE  sets \o Set(o, arg) \in Seq(Assignment)
  BY SetType, ConcatProperties
<1> DEFINE Fits(m) ==
             \E sets \in Seq(Assignment), words \in 0 .. 2,
                then \in {"next", "parsed", "error", "help"} :
               /\ m = Says(sets, words, then)
               /\ then = "next" => words >= 1
               /\ i + words <= Len(l) + 1
<1>6. ASSUME NEW sets \in Seq(Assignment), NEW then \in {"error", "help"}
      PROVE  Fits(Says(sets, 0, then))
  BY <1>1
<1>7. ASSUME NEW sets \in Seq(Assignment), NEW then \in {"next", "parsed"}
      PROVE  Fits(Says(sets, 1, then))
  BY <1>1
<1>8. ASSUME NEW sets \in Seq(Assignment), i # Len(l)
      PROVE  Fits(Says(sets, 2, "next"))
  BY <1>1, <1>8
<1> HIDE DEF Fits, w
<1>9. CASE w.kind = "terminator"
  <2>1. Meaning(l, i) = Says(<< >>, 1, "parsed")
    BY <1>9, TerminatorMeans DEF w
  <2>2. Fits(Says(<< >>, 1, "parsed"))
    BY <1>3, <1>7
  <2>3. Fits(Meaning(l, i))
    BY <2>1, <2>2
  <2>4. QED
    BY <2>3 DEF Fits
<1>10. CASE w.kind = "long"
  <2> PICK found : found = opt_find_long(w.name)
    OBVIOUS
  <2> PICK o : o = TheOption(found)
    OBVIOUS
  <2>1. found # {} => o \in DOMAIN opts
    BY NameFacts
  <2>2. \/ Meaning(l, i) = Says(<< >>, 0, "error")
        \/ found # {} /\ Meaning(l, i) = Says(<< >> \o Set(o, [word |-> i, from |-> 1]), 1, "next")
        \/ /\ found # {} /\ i # Len(l)
           /\ Meaning(l, i) = Says(<< >> \o Set(o, [word |-> i + 1, from |-> 0]), 2, "next")
        \/ Meaning(l, i) = Says(<< >>, 0, "help")
        \/ found # {} /\ Meaning(l, i) = Says(<< >> \o Set(o, Null), 1, "next")
    BY <1>10, LongMeans DEF w
  <2>3. Fits(Meaning(l, i))
    BY <1>3, <1>4, <1>5, <1>6, <1>7, <1>8, <2>1, <2>2
  <2>4. QED
    BY <2>3 DEF Fits
<1>11. CASE w.kind = "short"
  <2> PICK k : k = Turn(w)
    OBVIOUS
  <2> PICK sets : sets = SetFlags(w, k - 1)
    OBVIOUS
  <2> PICK found : found = opt_find_short(w.letters[k])
    OBVIOUS
  <2> PICK o : o = TheOption(found)
    OBVIOUS
  <2>1. found # {} => o \in DOMAIN opts
    BY LetterFacts
  <2>2. k \in Nat /\ sets \in Seq(Assignment)
    <3>1. /\ k \in 1 .. Len(w.letters) + 1 /\ Len(w.letters) \in Nat
          /\ \A j \in 1 .. k - 1 : w.letters[j] \in Flags
      BY <1>2, TurnFacts
    <3>2. k - 1 \in Nat /\ k - 1 <= Len(w.letters)
      BY <3>1
    <3>3. QED
      BY <1>2, <3>1, <3>2, FlagsType
  <2>3. \/ Meaning(l, i) = Says(<< >>, 0, "error")
        \/ Meaning(l, i) = Says(sets, 1, "next")
        \/ Meaning(l, i) = Says(sets, 0, "error")
        \/ found # {} /\ Meaning(l, i) = Says(sets \o Set(o, [word |-> i, from |-> k]), 1, "next")
        \/ /\ found # {} /\ i # Len(l)
           /\ Meaning(l, i) = Says(sets \o Set(o, [word |-> i + 1, from |-> 0]), 2, "next")
        \/ Meaning(l, i) = Says(sets, 0, "help")
        \/ found # {} /\ Meaning(l, i) = Says(sets \o Set(o, Null), 1, "next")
    <3>1. l[i].kind = "short"
      BY <1>11 DEF w
    <3>2. QED
      BY <3>1, ShortMeans DEF w
  <2>4. Fits(Meaning(l, i))
    BY <1>3, <1>4, <1>5, <1>6, <1>7, <1>8, <2>1, <2>2, <2>3
  <2>5. QED
    BY <2>4 DEF Fits
<1>12. QED
  BY <1>2, <1>9, <1>10, <1>11 DEF Fits

(* The words of a line of n from the i-th on, and reading that ends there. *)
RestOf(n, i) == [k \in 1 .. n + 1 - i |-> i + k - 1]
EndAt(l, i, sets, then) ==
  [sets |-> sets, left |-> RestOf(Len(l), i), end |-> then]

(* One step of Reading, where read has what is read behind i. *)
ReadFrom(l, px, read, i) ==
  IF i > Len(l) \/ (px /\ l[i].kind = "plain") THEN EndAt(l, i, << >>, "parsed")
  ELSE IF l[i].kind = "plain" THEN [read[i + 1] EXCEPT !.left = << i >> \o @]
  ELSE IF Meaning(l, i).then = "next"
    THEN [read[i + Meaning(l, i).words] EXCEPT !.sets = Meaning(l, i).sets \o @]
    ELSE EndAt(l, i + Meaning(l, i).words, Meaning(l, i).sets, Meaning(l, i).then)

IsReading(l, px, read) ==
  read = [i \in 1 .. Len(l) + 1 |-> ReadFrom(l, px, read, i)]

(* What is read from a word on depends only on what is read behind it.     *)
LEMMA ReadBehind ==
  ASSUME NEW l \in Seq(Word), NEW px, NEW i \in 1 .. Len(l) + 1, NEW f, NEW g,
         \A j \in i + 1 .. Len(l) + 1 : f[j] = g[j]
  PROVE  ReadFrom(l, px, f, i) = ReadFrom(l, px, g, i)
<1>1. Len(l) \in Nat
  BY LenProperties
<1>2. CASE i > Len(l) \/ l[i].kind = "plain"
  <2>1. ~ (i > Len(l)) => i + 1 \in i + 1 .. Len(l) + 1
    BY <1>1
  <2>2. QED
    BY <1>2, <2>1 DEF ReadFrom
<1>3. CASE ~ (i > Len(l)) /\ l[i].kind # "plain"
  <2>1. i \in 1 .. Len(l)
    BY <1>1, <1>3
  <2>2. PICK sets \in Seq(Assignment), words \in 0 .. 2,
             then \in {"next", "parsed", "error", "help"} :
          /\ Meaning(l, i) = Says(sets, words, then)
          /\ then = "next" => words >= 1
          /\ i + words <= Len(l) + 1
    BY <1>3, <2>1, MeaningType
  <2>3. /\ Meaning(l, i).sets = sets /\ Meaning(l, i).words = words
        /\ Meaning(l, i).then = then
    BY <2>2 DEF Says
  <2>4. then = "next" => i + words \in i + 1 .. Len(l) + 1
    BY <1>1, <2>1, <2>2
  <2>5. QED
    BY <1>3, <2>3, <2>4 DEF ReadFrom
<1>4. QED
  BY <1>2, <1>3

LEMMA ReadingExists ==
  ASSUME NEW l \in Seq(Word), NEW px
  PROVE  \E read : IsReading(l, px, read) /\ Reading(l, px) = read[1]
<1> DEFINE N == Len(l)
           D == 1 .. N + 1
           Good(f, n) == f = [i \in D |-> f[i]]
                           /\ \A i \in D : i + n >= N + 1 => f[i] = ReadFrom(l, px, f, i)
           S == {n \in Nat : \E f : Good(f, n)}
<1>1. N \in Nat
  BY LenProperties
<1>2. 0 \in S
  <2> DEFINE f == [i \in D |-> EndAt(l, i, << >>, "parsed")]
  <2>1. N + 1 \in D /\ N + 1 > N
    BY <1>1
  <2>2. f[N + 1] = ReadFrom(l, px, f, N + 1)
    BY <2>1 DEF ReadFrom
  <2>3. \A i \in D : i + 0 >= N + 1 => i = N + 1
    BY <1>1
  <2>4. f = [i \in D |-> f[i]]
    OBVIOUS
  <2> HIDE DEF f
  <2>5. Good(f, 0)
    BY <2>2, <2>3, <2>4
  <2> HIDE DEF Good
  <2>6. QED
    BY <2>5
<1>3. ASSUME NEW n \in S PROVE n + 1 \in S
  <2>1. PICK f : Good(f, n)
    OBVIOUS
  <2>2. n \in Nat
    OBVIOUS
  <2> DEFINE g == [i \in D |-> IF i + n >= N + 1 THEN f[i] ELSE ReadFrom(l, px, f, i)]
  <2>3. g = [i \in D |-> g[i]]
    OBVIOUS
  <2>4. /\ \A i \in D : i + n >= N + 1 => g[i] = f[i]
        /\ \A i \in D : ~ (i + n >= N + 1) => g[i] = ReadFrom(l, px, f, i)
    OBVIOUS
  <2> HIDE DEF g
  <2>5. ASSUME NEW i \in D, i + (n + 1) >= N + 1
        PROVE  g[i] = ReadFrom(l, px, g, i)
    <3>1. \A j \in i + 1 .. N + 1 : j \in D /\ j + n >= N + 1
      BY <1>1, <2>2, <2>5
    <3>2. \A j \in i + 1 .. N + 1 : f[j] = g[j]
      BY <2>4, <3>1
    <3>3. ReadFrom(l, px, f, i) = ReadFrom(l, px, g, i)
      BY <3>2, ReadBehind
    <3>4. g[i] = ReadFrom(l, px, f, i)
      BY <2>1, <2>4
    <3>5. QED
      BY <3>3, <3>4
  <2>6. Good(g, n + 1)
    BY <2>3, <2>5
  <2> HIDE DEF Good
  <2>7. QED
    BY <2>2, <2>6
<1>4. PICK f : Good(f, N)
  <2> HIDE DEF S, Good
  <2>1. N \in S
    <3>1. S \in SUBSET Nat
      BY DEF S
    <3>2. QED
      BY <1>1, <1>2, <1>3, <3>1, InductionBySet
  <2>2. QED
    BY <2>1 DEF S
<1>5. IsReading(l, px, f)
  <2>1. \A i \in D : f[i] = ReadFrom(l, px, f, i)
    <3>1. \A i \in D : i + N >= N + 1
      BY <1>1
    <3>2. QED
      BY <1>4, <3>1
  <2>2. f = [i \in D |-> ReadFrom(l, px, f, i)]
    BY <1>4, <2>1
  <2>3. QED
    BY <2>2 DEF IsReading
<1> DEFINE read == CHOOSE g : IsReading(l, px, g)
<1>6. IsReading(l, px, read)
  BY <1>5
<1>7. Reading(l, px) = read[1]
  BY DEF Reading, IsReading, ReadFrom, EndAt, RestOf
<1>8. QED
  BY <1>6, <1>7

LEMMA RestFacts ==
  ASSUME NEW n \in Nat, NEW i \in 1 .. n + 1
  PROVE  /\ RestOf(n, i) \in Seq(1 .. n) /\ Len(RestOf(n, i)) = n + 1 - i
         /\ \A k \in 1 .. n + 1 - i : RestOf(n, i)[k] = i + k - 1
<1>1. n + 1 - i \in Nat /\ \A k \in 1 .. n + 1 - i : i + k - 1 \in 1 .. n
  OBVIOUS
<1>2. RestOf(n, i) = [k \in 1 .. n + 1 - i |-> i + k - 1]
  BY DEF RestOf
<1>3. RestOf(n, i) \in [1 .. n + 1 - i -> 1 .. n]
  BY <1>1, <1>2
<1>4. QED
  BY <1>1, <1>2, <1>3

One(x) == << x >>

LEMMA OneFacts ==
  ASSUME NEW T, NEW x \in T
  PROVE  One(x) \in Seq(T) /\ Len(One(x)) = 1 /\ One(x)[1] = x
BY DEF One

LEMMA RestSplit ==
  ASSUME NEW n \in Nat, NEW i \in 1 .. n
  PROVE  RestOf(n, i) = One(i) \o RestOf(n, i + 1)
<1> DEFINE r == RestOf(n, i)
           t == RestOf(n, i + 1)
<1>1. i \in 1 .. n + 1 /\ i + 1 \in 1 .. n + 1
  OBVIOUS
<1>2. /\ r \in Seq(1 .. n) /\ Len(r) = n + 1 - i
      /\ \A k \in 1 .. n + 1 - i : r[k] = i + k - 1
  BY <1>1, RestFacts
<1>3. /\ t \in Seq(1 .. n) /\ Len(t) = n - i
      /\ \A k \in 1 .. n - i : t[k] = i + k
  <2>1. Len(t) = n + 1 - (i + 1) /\ t \in Seq(1 .. n)
        /\ \A k \in 1 .. n + 1 - (i + 1) : t[k] = (i + 1) + k - 1
    BY <1>1, RestFacts
  <2>2. n + 1 - (i + 1) = n - i /\ \A k \in Int : (i + 1) + k - 1 = i + k
    OBVIOUS
  <2>3. QED
    BY <2>1, <2>2
<1>4. One(i) \in Seq(1 .. n) /\ Len(One(i)) = 1 /\ One(i)[1] = i
  BY OneFacts
<1> HIDE DEF r, t
<1>5. /\ One(i) \o t \in Seq(1 .. n) /\ Len(One(i) \o t) = 1 + (n - i)
      /\ \A k \in 1 .. 1 + (n - i) :
           (One(i) \o t)[k] = IF k <= 1 THEN One(i)[k] ELSE t[k - 1]
  <2>1. /\ One(i) \o t \in Seq(1 .. n) /\ Len(One(i) \o t) = Len(One(i)) + Len(t)
        /\ \A k \in 1 .. Len(One(i)) + Len(t) :
             (One(i) \o t)[k] = IF k <= Len(One(i)) THEN One(i)[k]
                                 ELSE t[k - Len(One(i))]
    BY <1>3, <1>4, ConcatProperties
  <2>2. QED
    BY <1>3, <1>4, <2>1
<1>6. ASSUME NEW k \in 1 .. n + 1 - i PROVE r[k] = (One(i) \o t)[k]
  <2>1. k \in 1 .. 1 + (n - i)
    OBVIOUS
  <2>2. CASE k = 1
    <3>1. (One(i) \o t)[1] = One(i)[1]
      BY <1>5, <2>1, <2>2
    <3>2. r[1] = i + 1 - 1
      BY <1>2, <2>2
    <3>3. QED
      BY <1>4, <2>2, <3>1, <3>2
  <2>3. CASE k # 1
    <3>1. k - 1 \in 1 .. n - i /\ ~ (k <= 1)
      BY <2>3
    <3>2. (One(i) \o t)[k] = t[k - 1] /\ t[k - 1] = i + (k - 1)
      BY <1>3, <1>5, <2>1, <3>1
    <3>3. r[k] = i + k - 1
      BY <1>2
    <3>4. QED
      BY <3>2, <3>3
  <2>4. QED
    BY <2>2, <2>3
<1>7. Len(r) = Len(One(i) \o t)
  BY <1>2, <1>5
<1>8. r = One(i) \o t
  BY <1>2, <1>5, <1>6, <1>7, SeqEqual
<1>9. QED
  BY <1>8 DEF r, t

(* What is read is typed. *)
ReadType(l) ==
  [sets : Seq(Assignment), left : Seq(1 .. Len(l)),
   end : {"parsed", "error", "help"}]

LEMMA EndType ==
  ASSUME NEW l \in Seq(Word), NEW i \in 1 .. Len(l) + 1, NEW sets \in Seq(Assignment),
         NEW then \in {"parsed", "error", "help"}
  PROVE  EndAt(l, i, sets, then) \in ReadType(l)
<1>1. RestOf(Len(l), i) \in Seq(1 .. Len(l))
  BY LenProperties, RestFacts
<1>2. QED
  BY <1>1 DEF EndAt, ReadType

LEMMA ReadingTyped ==
  ASSUME NEW l \in Seq(Word), NEW px, NEW read, IsReading(l, px, read)
  PROVE  \A i \in 1 .. Len(l) + 1 : read[i] \in ReadType(l)
<1> DEFINE N == Len(l)
           S == {n \in Nat : \A i \in 1 .. N + 1 : i + n >= N + 1 => read[i] \in ReadType(l)}
<1>1. N \in Nat
  BY LenProperties
<1>2. \A i \in 1 .. N + 1 : read[i] = ReadFrom(l, px, read, i)
  BY DEF IsReading
<1>3. << >> \in Seq(Assignment)
  OBVIOUS
<1>4. 0 \in S
  <2> SUFFICES ASSUME NEW i \in 1 .. N + 1, i + 0 >= N + 1 PROVE read[i] \in ReadType(l)
    OBVIOUS
  <2>1. i > N
    BY <1>1
  <2>2. read[i] = EndAt(l, i, << >>, "parsed")
    BY <1>2, <2>1 DEF ReadFrom
  <2>3. QED
    BY <1>3, <2>2, EndType
<1>5. ASSUME NEW n \in S PROVE n + 1 \in S
  <2>1. n \in Nat /\ \A i \in 1 .. N + 1 : i + n >= N + 1 => read[i] \in ReadType(l)
    OBVIOUS
  <2> SUFFICES ASSUME NEW i \in 1 .. N + 1, i + (n + 1) >= N + 1
               PROVE  read[i] \in ReadType(l)
    BY <2>1
  <2> HIDE DEF S
  <2>2. ASSUME NEW j \in i + 1 .. N + 1 PROVE read[j] \in ReadType(l)
    <3>1. j \in 1 .. N + 1 /\ j + n >= N + 1
      BY <1>1, <2>1
    <3>2. QED
      BY <2>1, <3>1
  <2>3. CASE i > N \/ (px /\ l[i].kind = "plain")
    <3>1. read[i] = EndAt(l, i, << >>, "parsed")
      BY <1>2, <2>3 DEF ReadFrom
    <3>2. QED
      BY <1>3, <3>1, EndType
  <2>4. CASE ~ (i > N) /\ l[i].kind = "plain" /\ ~ px
    <3>1. read[i] = [read[i + 1] EXCEPT !.left = << i >> \o @]
      BY <1>2, <2>4 DEF ReadFrom
    <3>2. read[i + 1] \in ReadType(l)
      BY <1>1, <2>2, <2>4
    <3>3. i \in 1 .. N /\ << i >> \in Seq(1 .. N)
      BY <1>1, <2>4
    <3>4. read[i + 1].left \in Seq(1 .. N)
      BY <3>2 DEF ReadType
    <3>5. << i >> \o read[i + 1].left \in Seq(1 .. N)
      BY <3>3, <3>4, ConcatProperties
    <3>6. QED
      BY <3>1, <3>2, <3>5 DEF ReadType
  <2>5. CASE ~ (i > N) /\ l[i].kind # "plain"
    <3>1. i \in 1 .. N
      BY <1>1, <2>5
    <3>2. PICK sets \in Seq(Assignment), words \in 0 .. 2,
               then \in {"next", "parsed", "error", "help"} :
            /\ Meaning(l, i) = Says(sets, words, then)
            /\ then = "next" => words >= 1
            /\ i + words <= Len(l) + 1
      BY <2>5, <3>1, MeaningType
    <3>3. /\ Meaning(l, i).sets = sets /\ Meaning(l, i).words = words
          /\ Meaning(l, i).then = then
      BY <3>2 DEF Says
    <3>4. CASE then = "next"
      <4>1. read[i] = [read[i + words] EXCEPT !.sets = sets \o @]
        BY <1>2, <2>5, <3>3, <3>4 DEF ReadFrom
      <4>2. i + words \in i + 1 .. N + 1
        BY <1>1, <3>1, <3>2, <3>4
      <4>3. read[i + words] \in ReadType(l)
        BY <2>2, <4>2
      <4>4. read[i + words].sets \in Seq(Assignment)
        BY <4>3 DEF ReadType
      <4>5. sets \o read[i + words].sets \in Seq(Assignment)
        BY <4>4, ConcatProperties
      <4>6. QED
        BY <4>1, <4>3, <4>5 DEF ReadType
    <3>5. CASE then # "next"
      <4>1. read[i] = EndAt(l, i + words, sets, then)
        BY <1>2, <2>5, <3>3, <3>5 DEF ReadFrom
      <4>2. i + words \in 1 .. N + 1
        BY <1>1, <3>1, <3>2
      <4>3. QED
        BY <3>5, <4>1, <4>2, EndType
    <3>6. QED
      BY <3>4, <3>5
  <2>6. QED
    BY <2>3, <2>4, <2>5
<1>6. \A n \in Nat : n \in S
  <2> HIDE DEF S
  <2>1. S \in SUBSET Nat
    BY DEF S
  <2>2. QED
    BY <1>4, <1>5, <2>1, InductionBySet
<1>7. QED
  <2> SUFFICES ASSUME NEW i \in 1 .. N + 1 PROVE read[i] \in ReadType(l)
    OBVIOUS
  <2>1. i + N >= N + 1 /\ N \in S
    BY <1>1, <1>6
  <2>2. QED
    BY <2>1

-----------------------------------------------------------------------------
(* The reading of a line l has come to its i-th word: it has kept the      *)
(* plain words and taken the options that make sofar; rest is what is left *)
(* of argv.                                                                *)
ComeTo(l, px, rest, read, i, kept, sofar) ==
  /\ i \in 1 .. Len(l) + 1
  /\ kept \in Seq(1 .. Len(l)) /\ sofar \in Seq(Assignment)
  /\ rest = kept \o RestOf(Len(l), i)
  /\ \A k \in 1 .. Len(kept) : l[kept[k]].kind = "plain" /\ ~ px
  /\ Reading(l, px) = [sets |-> sofar \o read[i].sets,
                       left |-> kept \o read[i].left,
                       end  |-> read[i].end]

LEMMA Regroup ==
  ASSUME NEW T, NEW a \in Seq(T), NEW b \in Seq(T)
  PROVE  \A t \in Seq(T) : (a \o b) \o t = a \o (b \o t)
BY ConcatAssociative

(* A plain word is kept, unless POSIXLY_CORRECT is set. *)
LEMMA KeepsPlain ==
  ASSUME NEW l \in Seq(Word), NEW px, NEW rest, NEW read, NEW i, NEW kept, NEW sofar,
         IsReading(l, px, read), ComeTo(l, px, rest, read, i, kept, sofar),
         i <= Len(l), l[i].kind = "plain", ~ px
  PROVE  ComeTo(l, px, rest, read, i + 1, kept \o One(i), sofar)
<1> DEFINE N == Len(l)
<1>1. /\ N \in Nat /\ i \in 1 .. N /\ i + 1 \in 1 .. N + 1
      /\ kept \in Seq(1 .. N) /\ sofar \in Seq(Assignment)
      /\ rest = kept \o RestOf(N, i)
  BY LenProperties DEF ComeTo
<1>2. One(i) \in Seq(1 .. N) /\ Len(One(i)) = 1 /\ One(i)[1] = i
  BY <1>1, OneFacts
<1>3. RestOf(N, i + 1) \in Seq(1 .. N)
  BY <1>1, RestFacts
<1>4. read[i + 1] \in ReadType(l)
  BY <1>1, ReadingTyped
<1> PICK r : r = read[i + 1]
  OBVIOUS
<1>5. r.left \in Seq(1 .. N)
  BY <1>4 DEF ReadType
<1>6. read[i] = [r EXCEPT !.left = One(i) \o @]
  <2>1. i \in 1 .. N + 1 /\ ~ (i > N)
    BY <1>1
  <2>2. read[i] = ReadFrom(l, px, read, i)
    BY <2>1 DEF IsReading
  <2>3. QED
    BY <2>1, <2>2 DEF ReadFrom, One
<1>7. read[i].sets = r.sets /\ read[i].end = r.end /\ read[i].left = One(i) \o r.left
  BY <1>4, <1>6 DEF ReadType
<1> DEFINE more == kept \o One(i)
<1> PICK T : T = 1 .. N
  OBVIOUS
<1>8. /\ kept \in Seq(T) /\ One(i) \in Seq(T) /\ r.left \in Seq(T)
      /\ RestOf(N, i + 1) \in Seq(T)
  BY <1>1, <1>2, <1>3, <1>5
<1>9. \A t \in Seq(T) : (kept \o One(i)) \o t = kept \o (One(i) \o t)
  <2> HIDE DEF N, more
  <2> PICK one : one = One(i)
    OBVIOUS
  <2>1. one \in Seq(T) /\ kept \in Seq(T)
    BY <1>8
  <2>2. \A t \in Seq(T) : (kept \o one) \o t = kept \o (one \o t)
    BY <2>1, Regroup
  <2>3. QED
    BY <2>2
<1>10. /\ more \in Seq(T) /\ Len(more) = Len(kept) + Len(One(i)) /\ Len(kept) \in Nat
      /\ \A k \in 1 .. Len(kept) + Len(One(i)) :
           more[k] = IF k <= Len(kept) THEN kept[k] ELSE One(i)[k - Len(kept)]
  <2> HIDE DEF N
  <2>1. QED
    BY <1>8, ConcatProperties, LenProperties
<1>11. /\ more \in Seq(1 .. N) /\ Len(more) = Len(kept) + 1 /\ Len(kept) \in Nat
      /\ \A k \in 1 .. Len(kept) + 1 :
           more[k] = IF k <= Len(kept) THEN kept[k] ELSE One(i)[k - Len(kept)]
  BY <1>2, <1>10
<1>12. rest = more \o RestOf(N, i + 1)
  <2>1. RestOf(N, i) = One(i) \o RestOf(N, i + 1)
    BY <1>1, RestSplit
  <2>2. (kept \o One(i)) \o RestOf(N, i + 1) = kept \o (One(i) \o RestOf(N, i + 1))
    BY <1>8, <1>9
  <2>3. QED
    BY <1>1, <2>1, <2>2
<1>13. more \o r.left = kept \o read[i].left
  BY <1>7, <1>8, <1>9
<1>14. ASSUME NEW k \in 1 .. Len(more) PROVE l[more[k]].kind = "plain" /\ ~ px
  <2> HIDE DEF more
  <2>1. CASE k <= Len(kept)
    <3>1. k \in 1 .. Len(kept) /\ k \in 1 .. Len(kept) + 1
      BY <1>11, <2>1
    <3>2. more[k] = kept[k]
      BY <1>11, <2>1, <3>1
    <3>3. QED
      BY <3>1, <3>2 DEF ComeTo
  <2>2. CASE ~ (k <= Len(kept))
    <3>1. k = Len(kept) + 1 /\ k - Len(kept) = 1 /\ k \in 1 .. Len(kept) + 1
      BY <1>11, <2>2
    <3>2. more[k] = i
      BY <1>2, <1>11, <2>2, <3>1
    <3>3. QED
      BY <3>2
  <2>3. QED
    BY <2>1, <2>2
<1> HIDE DEF more
<1>15. Reading(l, px) = [sets |-> sofar \o r.sets, left |-> more \o r.left, end |-> r.end]
  BY <1>7, <1>13 DEF ComeTo
<1>16. ComeTo(l, px, rest, read, i + 1, more, sofar)
  BY <1>1, <1>11, <1>12, <1>14, <1>15 DEF ComeTo
<1>17. QED
  BY <1>16 DEF more

Places(n) == 1 .. n

(* The line that is left, word by word. *)
LEMMA LineLeft ==
  ASSUME NEW n \in Nat, NEW i \in 1 .. n + 1, NEW kept \in Seq(Places(n))
  PROVE  LET rest == kept \o RestOf(n, i) IN
         /\ Len(kept) \in Nat /\ rest \in Seq(Places(n))
         /\ Len(rest) = Len(kept) + (n + 1 - i)
         /\ \A k \in 1 .. Len(kept) : rest[k] = kept[k]
         /\ \A k \in Len(kept) + 1 .. Len(kept) + (n + 1 - i) :
              rest[k] = i + (k - Len(kept)) - 1
<1> PICK r : r = RestOf(n, i)
  OBVIOUS
<1> DEFINE rest == kept \o r
<1>1. /\ r \in Seq(1 .. n) /\ Len(r) = n + 1 - i
      /\ \A k \in 1 .. n + 1 - i : r[k] = i + k - 1
  BY RestFacts
<1> PICK T : T = Places(n)
  OBVIOUS
<1>2. r \in Seq(T) /\ kept \in Seq(T)
  BY <1>1 DEF Places
<1>3. /\ rest \in Seq(T) /\ Len(rest) = Len(kept) + Len(r) /\ Len(kept) \in Nat
      /\ \A k \in 1 .. Len(kept) + Len(r) :
           rest[k] = IF k <= Len(kept) THEN kept[k] ELSE r[k - Len(kept)]
  BY <1>2, ConcatProperties, LenProperties
<1>4. ASSUME NEW k \in 1 .. Len(kept) PROVE rest[k] = kept[k]
  <2>1. k \in 1 .. Len(kept) + Len(r) /\ k <= Len(kept)
    BY <1>1, <1>3
  <2>2. QED
    BY <1>3, <2>1
<1>5. ASSUME NEW k \in Len(kept) + 1 .. Len(kept) + (n + 1 - i)
      PROVE  rest[k] = i + (k - Len(kept)) - 1
  <2>1. /\ k \in 1 .. Len(kept) + Len(r) /\ ~ (k <= Len(kept))
        /\ k - Len(kept) \in 1 .. n + 1 - i
    BY <1>1, <1>3
  <2>2. rest[k] = r[k - Len(kept)]
    BY <1>3, <2>1
  <2>3. QED
    BY <1>1, <2>1, <2>2
<1>6. QED
  BY <1>1, <1>3, <1>4, <1>5

(* Behind the plain words, reading comes to an option or to the end. *)
AtStop(l, px, i) == i = Len(l) + 1 \/ px \/ l[i].kind # "plain"

LEMMA ReachesStop ==
  ASSUME NEW l \in Seq(Word), NEW px, NEW rest, NEW read, NEW i, NEW kept, NEW sofar,
         IsReading(l, px, read), ComeTo(l, px, rest, read, i, kept, sofar)
  PROVE  \E j, k : ComeTo(l, px, rest, read, j, k, sofar) /\ AtStop(l, px, j)
<1> DEFINE N == Len(l)
           Reached(j) == \E k : ComeTo(l, px, rest, read, j, k, sofar)
           S == {j \in 1 .. N + 1 : Reached(j)}
<1>1. N \in Nat
  BY LenProperties
<1>2. i \in S
  BY DEF ComeTo
<1>3. S \in SUBSET (0 .. N + 1) /\ S # {}
  BY <1>1, <1>2
<1>4. PICK j \in S : \A k \in S : k <= j
  <2> HIDE DEF S
  <2>1. N + 1 \in Nat
    BY <1>1
  <2>2. QED
    BY <1>3, <2>1, GreatestExists
<1>5. PICK k : ComeTo(l, px, rest, read, j, k, sofar)
  OBVIOUS
<1>6. AtStop(l, px, j)
  <2> SUFFICES ASSUME ~ AtStop(l, px, j) PROVE FALSE
    OBVIOUS
  <2>1. j \in 1 .. N + 1
    OBVIOUS
  <2>2. ~ px /\ l[j].kind = "plain" /\ j # N + 1
    BY DEF AtStop
  <2>3. j <= N /\ j + 1 \in 1 .. N + 1 /\ ~ (j + 1 <= j)
    BY <1>1, <2>1, <2>2
  <2>4. ComeTo(l, px, rest, read, j + 1, k \o One(j), sofar)
    BY <1>5, <2>2, <2>3, KeepsPlain
  <2>5. j + 1 \in S
    BY <2>3, <2>4
  <2>6. QED
    BY <1>4, <2>3, <2>5
<1>7. QED
  BY <1>5, <1>6

(* What parse_one finds there. *)
LEMMA StopIsFirst ==
  ASSUME OptionsTypeOK, NEW read, NEW i, NEW kept, NEW sofar,
         ComeTo(line, posix, argv, read, i, kept, sofar), AtStop(line, posix, i)
  PROVE  /\ i \in 1 .. Len(line) + 1 /\ Len(line) \in Nat /\ Len(kept) \in Nat
         /\ ~ (i <= Len(line) /\ line[i].kind # "plain") => First = {}
         /\ i <= Len(line) /\ line[i].kind # "plain" =>
              /\ Len(kept) + 1 \in First /\ argv[Len(kept) + 1] = i
              /\ Len(argv) = Len(kept) + (Len(line) + 1 - i)
<1> DEFINE N == Len(line)
           K == Len(kept)
<1>1. /\ line \in Seq(Word) /\ N \in Nat /\ posix \in BOOLEAN
  BY DEF OptionsTypeOK
<1>2. /\ i \in 1 .. N + 1 /\ kept \in Seq(1 .. N)
      /\ argv = kept \o RestOf(N, i)
      /\ \A k \in 1 .. K : line[kept[k]].kind = "plain" /\ ~ posix
  BY DEF ComeTo
<1>3. /\ K \in Nat /\ argv \in Seq(1 .. N)
      /\ Len(argv) = K + (N + 1 - i)
      /\ \A k \in 1 .. K : argv[k] = kept[k]
      /\ \A k \in K + 1 .. K + (N + 1 - i) : argv[k] = i + (k - K) - 1
  <2>1. kept \in Seq(Places(N))
    BY <1>2 DEF Places
  <2> HIDE DEF N, K
  <2>2. /\ Len(kept) \in Nat /\ argv \in Seq(Places(N))
        /\ Len(argv) = Len(kept) + (N + 1 - i)
        /\ \A k \in 1 .. Len(kept) : argv[k] = kept[k]
        /\ \A k \in Len(kept) + 1 .. Len(kept) + (N + 1 - i) :
             argv[k] = i + (k - Len(kept)) - 1
    BY <1>1, <1>2, <2>1, LineLeft
  <2>3. QED
    BY <2>2 DEF K, Places
<1> HIDE DEF N, K
<1>4. \A k \in 1 .. K : WordAt(k).kind = "plain" /\ ~ posix
  BY <1>2, <1>3 DEF WordAt
<1>5. DOMAIN argv = 1 .. K + (N + 1 - i)
  BY <1>3
<1>6. i <= N => K + 1 \in DOMAIN argv /\ argv[K + 1] = i
  <2> SUFFICES ASSUME i <= N PROVE K + 1 \in DOMAIN argv /\ argv[K + 1] = i
    OBVIOUS
  <2>1. K + 1 \in K + 1 .. K + (N + 1 - i) /\ i + ((K + 1) - K) - 1 = i
        /\ K + 1 \in 1 .. K + (N + 1 - i)
    BY <1>1, <1>2, <1>3
  <2>2. QED
    BY <1>3, <1>5, <2>1
<1>7. CASE i <= N /\ line[i].kind # "plain"
  <2>1. WordAt(K + 1).kind # "plain"
    BY <1>6, <1>7 DEF WordAt
  <2>2. (K + 1) - 1 = K
    BY <1>3
  <2>3. K + 1 \in First
    BY <1>4, <1>6, <1>7, <2>1, <2>2 DEF First
  <2>4. QED
    BY <1>1, <1>2, <1>3, <1>6, <1>7, <2>3 DEF N, K
<1>8. CASE ~ (i <= N /\ line[i].kind # "plain")
  <2>1. First = {}
    <3> SUFFICES ASSUME NEW p \in First PROVE FALSE
      OBVIOUS
    <3>1. /\ p \in 1 .. K + (N + 1 - i) /\ WordAt(p).kind # "plain"
          /\ \A j \in 1 .. p - 1 : ~ posix
      BY <1>5 DEF First
    <3>2. CASE i <= N
      <4>1. line[i].kind = "plain" /\ i # N + 1
        BY <1>1, <1>2, <1>8, <3>2
      <4>2. posix
        BY <4>1 DEF AtStop, N
      <4>3. K = 0
        <5> SUFFICES ASSUME K # 0 PROVE FALSE
          OBVIOUS
        <5>1. 1 \in 1 .. K
          BY <1>3
        <5>2. QED
          BY <1>4, <4>2, <5>1
      <4>4. p = 1
        <5> SUFFICES ASSUME p # 1 PROVE FALSE
          OBVIOUS
        <5>1. 1 \in 1 .. p - 1
          BY <1>1, <1>2, <1>3, <3>1
        <5>2. QED
          BY <3>1, <4>2, <5>1
      <4>5. WordAt(p).kind = "plain"
        BY <1>6, <3>2, <4>1, <4>3, <4>4 DEF WordAt
      <4>6. QED
        BY <3>1, <4>5
    <3>3. CASE ~ (i <= N)
      <4>1. p \in 1 .. K
        BY <1>1, <1>2, <1>3, <3>1, <3>3
      <4>2. QED
        BY <1>4, <3>1, <4>1
    <3>4. QED
      BY <3>2, <3>3
  <2>2. QED
    BY <1>1, <1>2, <1>3, <1>8, <2>1 DEF N, K
<1>9. QED
  BY <1>7, <1>8
(* The word behind the option, and argv without the option.                *)
LEMMA TakesWords ==
  ASSUME OptionsTypeOK, NEW read, NEW i, NEW kept, NEW sofar,
         ComeTo(line, posix, argv, read, i, kept, sofar), i <= Len(line)
  PROVE  LET p == Len(kept) + 1
         IN  /\ p = Len(argv) <=> i = Len(line)
             /\ i # Len(line) => p < Len(argv) /\ argv[p + 1] = i + 1
             /\ \A n \in 1 .. 2 : i + n <= Len(line) + 1 =>
                  consume_option(p, n) = kept \o RestOf(Len(line), i + n)
<1> DEFINE N == Len(line)
           K == Len(kept)
<1>1. N \in Nat /\ i \in 1 .. N + 1 /\ kept \in Seq(Places(N))
      /\ argv = kept \o RestOf(N, i)
  BY DEF OptionsTypeOK, ComeTo, Places
<1>2. /\ K \in Nat /\ argv \in Seq(Places(N))
      /\ Len(argv) = K + (N + 1 - i)
      /\ \A k \in 1 .. K : argv[k] = kept[k]
      /\ \A k \in K + 1 .. K + (N + 1 - i) : argv[k] = i + (k - K) - 1
  <2> HIDE DEF N
  <2>1. QED
    BY <1>1, LineLeft
<1> HIDE DEF N, K
<1>3. i <= N
  BY DEF N
<1>4. K + 1 = Len(argv) <=> i = N
  BY <1>1, <1>2, <1>3
<1>5. i # N => K + 1 < Len(argv) /\ argv[K + 2] = i + 1
  <2> SUFFICES ASSUME i # N PROVE K + 1 < Len(argv) /\ argv[K + 2] = i + 1
    OBVIOUS
  <2>1. K + 2 \in K + 1 .. K + (N + 1 - i) /\ i + ((K + 2) - K) - 1 = i + 1
    BY <1>1, <1>2, <1>3
  <2>2. argv[K + 2] = i + ((K + 2) - K) - 1
    BY <1>2, <2>1
  <2>3. K + 1 < Len(argv)
    BY <1>1, <1>2, <1>3
  <2>4. QED
    BY <2>1, <2>2, <2>3
<1>6. ASSUME NEW n \in 1 .. 2, i + n <= N + 1
      PROVE  consume_option(K + 1, n) = kept \o RestOf(N, i + n)
  <2> PICK c : c = consume_option(K + 1, n)
    OBVIOUS
  <2> PICK r : r = kept \o RestOf(N, i + n)
    OBVIOUS
  <2> PICK M : M = K + (N + 1 - (i + n))
    OBVIOUS
  <2>1. /\ i + n \in 1 .. N + 1 /\ M \in Nat
        /\ Len(argv) - n = M
    BY <1>1, <1>2, <1>6
  <2>2. /\ r \in Seq(Places(N)) /\ Len(r) = M
        /\ \A k \in 1 .. K : r[k] = kept[k]
        /\ \A k \in K + 1 .. M : r[k] = (i + n) + (k - K) - 1
    <3>1. /\ r \in Seq(Places(N)) /\ Len(r) = Len(kept) + (N + 1 - (i + n))
          /\ \A k \in 1 .. Len(kept) : r[k] = kept[k]
          /\ \A k \in Len(kept) + 1 .. Len(kept) + (N + 1 - (i + n)) :
               r[k] = (i + n) + (k - Len(kept)) - 1
      BY <1>1, <2>1, LineLeft
    <3>2. QED
      BY <3>1 DEF K
  <2>3. c = [k \in 1 .. M |-> IF k < K + 1 THEN argv[k] ELSE argv[k + n]]
    BY <2>1 DEF consume_option
  <2>4. ASSUME NEW k \in 1 .. M PROVE c[k] = r[k] /\ c[k] \in Places(N)
    <3>1. c[k] = IF k < K + 1 THEN argv[k] ELSE argv[k + n]
      BY <2>3
    <3>2. CASE k < K + 1
      <4>1. k \in 1 .. K
        BY <1>2, <2>1, <3>2
      <4>2. c[k] = kept[k] /\ r[k] = kept[k]
        BY <1>2, <2>2, <3>1, <3>2, <4>1
      <4>3. kept[k] \in Places(N)
        BY <1>1, <4>1 DEF K
      <4>4. QED
        BY <4>2, <4>3
    <3>3. CASE ~ (k < K + 1)
      <4>1. /\ k + n \in K + 1 .. K + (N + 1 - i) /\ k \in K + 1 .. M
            /\ i + ((k + n) - K) - 1 = (i + n) + (k - K) - 1
            /\ (i + n) + (k - K) - 1 \in 1 .. N
        BY <1>1, <1>2, <1>6, <2>1, <3>3
      <4>2. c[k] = argv[k + n] /\ argv[k + n] = i + ((k + n) - K) - 1
        BY <1>2, <3>1, <3>3, <4>1
      <4>3. r[k] = (i + n) + (k - K) - 1
        BY <2>2, <4>1
      <4>4. QED
        BY <4>1, <4>2, <4>3 DEF Places
    <3>4. QED
      BY <3>2, <3>3
  <2>5. c \in Seq(Places(N)) /\ Len(c) = M
    <3>1. PICK T : T = Places(N)
      OBVIOUS
    <3>2. c = [k \in 1 .. M |-> c[k]] /\ \A k \in 1 .. M : c[k] \in T
      BY <2>3, <2>4, <3>1
    <3>3. c \in Seq(T) /\ Len(c) = M
      BY <2>1, <3>2
    <3>4. QED
      BY <3>1, <3>3
  <2>6. Len(c) = Len(r) /\ \A k \in 1 .. Len(c) : c[k] = r[k]
    BY <2>2, <2>4, <2>5
  <2>7. c = r
    BY <2>2, <2>5, <2>6, SeqEqual
  <2>8. QED
    BY <2>7
<1>7. (K + 1) + 1 = K + 2
  BY <1>2
<1>8. QED
  BY <1>4, <1>5, <1>6, <1>7 DEF N, K
(* The variables hold what has been set. *)
LEMMA SetAppended ==
  ASSUME NEW sets \in Seq(Assignment), NEW o \in DOMAIN opts, NEW arg \in Place, NEW x
  PROVE  LET s == sets \o Set(o, arg)
         IN  /\ LastOf(s, x) = IF x = o THEN arg ELSE LastOf(sets, x)
             /\ Times(sets, x) \in Nat
             /\ Times(s, x) = IF x = o THEN Times(sets, x) + 1 ELSE Times(sets, x)
<1> DEFINE s == sets \o Set(o, arg)
           n == Len(sets)
           K == {k \in DOMAIN sets : sets[k].option = x}
           J == {k \in DOMAIN s : s[k].option = x}
           a == Set(o, arg)
<1>1. /\ a \in Seq(Assignment) /\ Len(a) = 1
      /\ a[1] = [option |-> o, arg |-> arg]
  BY SetType DEF Set
<1> HIDE DEF a
<1>2. /\ n \in Nat /\ s \in Seq(Assignment) /\ Len(s) = n + 1
      /\ DOMAIN sets = 1 .. n /\ DOMAIN s = 1 .. n + 1
      /\ \A k \in 1 .. n : s[k] = sets[k]
      /\ s[n + 1] = a[1]
  <2>1. /\ n \in Nat /\ a \o << >> = a
        /\ \A k \in 1 .. n + 1 :
             (sets \o a)[k] = IF k <= n THEN sets[k] ELSE a[k - n]
        /\ sets \o a \in Seq(Assignment) /\ Len(sets \o a) = n + 1
    BY <1>1, ConcatProperties, LenProperties
  <2>2. s = sets \o a
    BY DEF a
  <2> HIDE DEF s, n
  <2>3. \A k \in 1 .. n : k \in 1 .. n + 1 /\ k <= n
    BY <2>1
  <2>4. n + 1 \in 1 .. n + 1 /\ ~ (n + 1 <= n) /\ (n + 1) - n = 1
    BY <2>1
  <2>5. DOMAIN s = 1 .. n + 1
    BY <2>1, <2>2
  <2>6. DOMAIN sets = 1 .. n
    BY DEF n
  <2>7. s[n + 1] = a[1]
    BY <2>1, <2>2, <2>4
  <2>8. \A k \in 1 .. n : s[k] = sets[k]
    BY <2>1, <2>2, <2>3
  <2>9. QED
    BY <2>1, <2>2, <2>5, <2>6, <2>7, <2>8
<1>3. s[n + 1].option = o /\ s[n + 1].arg = arg
  BY <1>1, <1>2
<1> HIDE DEF n, s
<1>4. IsFiniteSet(K) /\ n + 1 \notin K /\ \A k \in K : k \in 1 .. n
  <2>1. K \in SUBSET (1 .. n)
    BY <1>2
  <2>2. IsFiniteSet(1 .. n)
    <3>1. 1 \in Int /\ n \in Int
      BY <1>2
    <3>2. QED
      BY <3>1, FS_Interval
  <2>3. QED
    BY <1>2, <2>1, <2>2, FS_Subset
<1>5. J = IF x = o THEN K \union {n + 1} ELSE K
  <2>1. \A k : k \in 1 .. n + 1 <=> k \in 1 .. n \/ k = n + 1
    BY <1>2
  <2>2. QED
    BY <1>2, <1>3, <2>1
<1>6. /\ LastOf(s, x) = IF J = {} THEN Null ELSE s[CHOOSE k \in J : \A j \in J : j <= k].arg
      /\ LastOf(sets, x) =
           IF K = {} THEN Null ELSE sets[CHOOSE k \in K : \A j \in K : j <= k].arg
  BY DEF LastOf
<1>7. Times(s, x) = Cardinality(J) /\ Times(sets, x) = Cardinality(K)
  BY DEF Times
<1> HIDE DEF J, K
<1>8. LastOf(s, x) = IF x = o THEN arg ELSE LastOf(sets, x)
  <2>1. CASE x = o
    <3>1. n + 1 \in J /\ \A j \in J : j <= n + 1
      BY <1>2, <1>4, <1>5, <2>1
    <3>2. \A k \in J : k \in Nat
      BY <1>2, <1>4, <1>5, <2>1
    <3>3. ASSUME NEW k \in J, \A j \in J : j <= k PROVE k = n + 1
      BY <1>2, <3>1, <3>2, <3>3
    <3> PICK m : m = CHOOSE k \in J : \A j \in J : j <= k
      OBVIOUS
    <3>4. m \in J /\ \A j \in J : j <= m
      BY <3>1
    <3>5. m = n + 1
      BY <3>3, <3>4
    <3>6. LastOf(s, x) = s[m].arg
      BY <1>6, <3>1
    <3>7. QED
      BY <1>3, <2>1, <3>5, <3>6
  <2>2. CASE x # o
    <3>1. J = K
      BY <1>5, <2>2
    <3> PICK m : m = CHOOSE k \in K : \A j \in K : j <= k
      OBVIOUS
    <3>2. K # {} => m \in K
      <4> SUFFICES ASSUME K # {} PROVE m \in K
        OBVIOUS
      <4>1. K \in SUBSET (0 .. n)
        BY <1>2, <1>4
      <4>2. \E k \in K : \A j \in K : j <= k
        BY <1>2, <4>1, GreatestExists
      <4>3. QED
        BY <4>2
    <3>3. K # {} => s[m] = sets[m]
      BY <1>2, <1>4, <3>2
    <3>4. QED
      BY <1>6, <2>2, <3>1, <3>3
  <2>3. QED
    BY <2>1, <2>2
<1>9. /\ Times(sets, x) \in Nat
      /\ Times(s, x) = IF x = o THEN Times(sets, x) + 1 ELSE Times(sets, x)
  <2>1. Cardinality(K) \in Nat /\ Cardinality(K \union {n + 1}) = Cardinality(K) + 1
    BY <1>4, FS_CardinalityType, FS_AddElement
  <2>2. QED
    BY <1>5, <1>7, <2>1
<1>10. QED
  BY <1>8, <1>9 DEF s

Reflects(config, menu, version, verb, sets) ==
  /\ config = LastOf(sets, "config_file")
  /\ menu = LastOf(sets, "menu_file")
  /\ version <=> Times(sets, "version") > 0
  /\ verb = Times(sets, "verbose")

NowReflects(sets) == Reflects(config_file, menu_file, show_version, verbose, sets)

LEMMA NothingSet == Reflects(Null, Null, FALSE, 0, << >>)
<1>1. DOMAIN << >> = {}
  OBVIOUS
<1>2. \A x : LastOf(<< >>, x) = Null
  BY <1>1 DEF LastOf
<1>3. \A x : Times(<< >>, x) = 0
  <2>1. \A x : {k \in DOMAIN << >> : << >>[k].option = x} = {}
    BY <1>1
  <2>2. QED
    BY <2>1, FS_EmptySet DEF Times
<1>4. QED
  BY <1>2, <1>3 DEF Reflects

LEMMA CallbackSets ==
  ASSUME NEW sets \in Seq(Assignment), NEW o \in DOMAIN opts, NEW arg \in Place,
         NowReflects(sets), callback(o, arg)
  PROVE  /\ o # "help" => NowReflects(sets \o Set(o, arg))' /\ status' = status
         /\ o = "help" => NowReflects(sets)' /\ status' = "help"
<1>1. CASE o = "help"
  <2>1. /\ config_file' = config_file /\ menu_file' = menu_file
        /\ show_version' = (show_version \/ FALSE)
        /\ verbose' = verbose /\ status' = "help"
    BY <1>1 DEF callback, opt_set_charp, opt_set_bool, opt_inc_intval, opt_usage_and_exit
  <2>2. Reflects(config_file', menu_file', show_version', verbose', sets)
    BY <2>1 DEF NowReflects, Reflects
  <2>3. QED
    BY <1>1, <2>1, <2>2 DEF NowReflects
<1>2. CASE o # "help"
  <2> PICK s : s = sets \o Set(o, arg)
    OBVIOUS
  <2>1. \A x : /\ LastOf(s, x) = IF x = o THEN arg ELSE LastOf(sets, x)
               /\ Times(sets, x) \in Nat
               /\ Times(s, x) = IF x = o THEN Times(sets, x) + 1 ELSE Times(sets, x)
    BY SetAppended
  <2>2. /\ config_file' = IF o = "config_file" THEN arg ELSE config_file
        /\ menu_file' = IF o = "menu_file" THEN arg ELSE menu_file
        /\ show_version' = (show_version \/ o = "version")
        /\ verbose' = IF o = "verbose" THEN verbose + 1 ELSE verbose
        /\ status' = status
    BY <1>2 DEF callback, opt_set_charp, opt_set_bool, opt_inc_intval, opt_usage_and_exit
  <2>3. /\ config_file = LastOf(sets, "config_file")
        /\ menu_file = LastOf(sets, "menu_file")
        /\ (show_version <=> Times(sets, "version") > 0)
        /\ verbose = Times(sets, "verbose")
    BY DEF NowReflects, Reflects
  <2>4. config_file' = LastOf(s, "config_file") /\ menu_file' = LastOf(s, "menu_file")
    BY <2>1, <2>2, <2>3
  <2>5. verbose' = Times(s, "verbose")
    BY <2>1, <2>2, <2>3
  <2>6. show_version' <=> Times(s, "version") > 0
    <3>1. CASE o = "version"
      <4>1. Times(s, "version") = Times(sets, "version") + 1 /\ Times(sets, "version") \in Nat
        BY <2>1, <3>1
      <4>2. Times(s, "version") > 0
        BY <4>1
      <4>3. QED
        BY <2>2, <3>1, <4>2
    <3>2. CASE o # "version"
      BY <2>1, <2>2, <2>3, <3>2
    <3>3. QED
      BY <3>1, <3>2
  <2>7. Reflects(config_file', menu_file', show_version', verbose', s)
    BY <2>4, <2>5, <2>6 DEF Reflects
  <2>8. QED
    BY <1>2, <2>2, <2>7 DEF NowReflects
<1>3. QED
  BY <1>1, <1>2
LEMMA SetsRegroup ==
  ASSUME NEW a \in Seq(Assignment), NEW b \in Seq(Assignment), NEW c \in Seq(Assignment)
  PROVE  (a \o b) \o c = a \o (b \o c)
BY Regroup

(* Reading goes on behind a word that says so. *)
LEMMA NextWord ==
  ASSUME NEW l \in Seq(Word), NEW px, NEW rest, NEW read, NEW i, NEW kept, NEW sofar,
         IsReading(l, px, read), ComeTo(l, px, rest, read, i, kept, sofar),
         i <= Len(l), l[i].kind # "plain", Meaning(l, i).then = "next"
  PROVE  LET m == Meaning(l, i)
         IN  ComeTo(l, px, kept \o RestOf(Len(l), i + m.words), read, i + m.words,
                    kept, sofar \o m.sets)
<1> DEFINE N == Len(l)
<1>1. /\ N \in Nat /\ i \in 1 .. N /\ i \in 1 .. N + 1
      /\ kept \in Seq(1 .. N) /\ sofar \in Seq(Assignment)
  BY LenProperties DEF ComeTo
<1> PICK words : words = Meaning(l, i).words
  OBVIOUS
<1> PICK sets : sets = Meaning(l, i).sets
  OBVIOUS
<1>2. i + words \in 1 .. N + 1 /\ sets \in Seq(Assignment)
  <2>1. PICK s \in Seq(Assignment), w \in 0 .. 2,
             t \in {"next", "parsed", "error", "help"} :
          Meaning(l, i) = Says(s, w, t) /\ i + w <= N + 1
    BY <1>1, MeaningType
  <2>2. w = words /\ s = sets
    BY <2>1 DEF Says
  <2>3. QED
    BY <1>1, <2>1, <2>2
<1>3. read[i + words] \in ReadType(l)
  BY <1>2, ReadingTyped
<1> PICK r : r = read[i + words]
  OBVIOUS
<1>4. r \in ReadType(l) /\ r.sets \in Seq(Assignment)
  BY <1>3 DEF ReadType
<1>5. read[i] = [r EXCEPT !.sets = sets \o @]
  <2>1. read[i] = ReadFrom(l, px, read, i)
    BY <1>1 DEF IsReading
  <2>3. ~ (i > N)
    <3> HIDE DEF N
    <3>1. QED
      BY <1>1
  <2>2. /\ Meaning(l, i).then = "next" /\ Meaning(l, i).sets = sets
        /\ Meaning(l, i).words = words
    BY DEF Says
  <2>4. QED
    BY <2>1, <2>2, <2>3 DEF ReadFrom
<1>6. read[i].sets = sets \o r.sets /\ read[i].left = r.left /\ read[i].end = r.end
  BY <1>4, <1>5 DEF ReadType
<1>7. /\ sofar \o sets \in Seq(Assignment)
      /\ (sofar \o sets) \o r.sets = sofar \o (sets \o r.sets)
  <2>1. sofar \in Seq(Assignment) /\ r.sets \in Seq(Assignment)
    BY <1>1, <1>4
  <2>2. sofar \o sets \in Seq(Assignment) /\ sets \in Seq(Assignment)
    BY <1>2, <2>1, ConcatProperties
  <2> PICK t : t = r.sets
    OBVIOUS
  <2>3. t \in Seq(Assignment)
    BY <2>1
  <2>4. (sofar \o sets) \o t = sofar \o (sets \o t)
    BY ONLY <1>1, <1>2, <2>3, SetsRegroup
  <2>5. QED
    BY <2>2, <2>4
<1>8. Reading(l, px) = [sets |-> (sofar \o sets) \o r.sets, left |-> kept \o r.left,
                        end |-> r.end]
  BY <1>6, <1>7 DEF ComeTo
<1>9. ComeTo(l, px, kept \o RestOf(Len(l), i + words), read, i + words,
             kept, sofar \o sets)
  BY <1>1, <1>2, <1>7, <1>8 DEF ComeTo
<1>10. QED
  BY <1>9

(* Reading ends at a word that says so, and at a place where it stops that *)
(* is no option.                                                           *)
LEMMA LastWord ==
  ASSUME NEW l \in Seq(Word), NEW px, NEW rest, NEW read, NEW i, NEW kept, NEW sofar,
         IsReading(l, px, read), ComeTo(l, px, rest, read, i, kept, sofar),
         i <= Len(l), l[i].kind # "plain",
         Meaning(l, i).then # "next"
  PROVE  LET m == Meaning(l, i)
         IN  Reading(l, px) = [sets |-> sofar \o m.sets,
                               left |-> kept \o RestOf(Len(l), i + m.words),
                               end  |-> m.then]
<1>1. Len(l) \in Nat /\ i \in 1 .. Len(l) + 1 /\ ~ (i > Len(l))
  BY LenProperties DEF ComeTo
<1>2. read[i] = EndAt(l, i + Meaning(l, i).words, Meaning(l, i).sets, Meaning(l, i).then)
  <2>1. read[i] = ReadFrom(l, px, read, i)
    BY <1>1 DEF IsReading
  <2>2. QED
    BY <1>1, <2>1 DEF ReadFrom
<1>3. QED
  BY <1>2 DEF ComeTo, EndAt

LEMMA SaysFacts ==
  ASSUME NEW sets, NEW words, NEW then
  PROVE  /\ Says(sets, words, then).sets = sets /\ Says(sets, words, then).words = words
         /\ Says(sets, words, then).then = then
BY DEF Says

LEMMA NoMoreWords ==
  ASSUME NEW l \in Seq(Word), NEW px, NEW rest, NEW read, NEW i, NEW kept, NEW sofar,
         IsReading(l, px, read), ComeTo(l, px, rest, read, i, kept, sofar),
         AtStop(l, px, i), ~ (i <= Len(l) /\ l[i].kind # "plain")
  PROVE  Reading(l, px) = [sets |-> sofar, left |-> rest, end |-> "parsed"]
<1>1. Len(l) \in Nat /\ i \in 1 .. Len(l) + 1 /\ sofar \in Seq(Assignment)
  BY LenProperties DEF ComeTo
<1>2. i > Len(l) \/ (px /\ l[i].kind = "plain")
  BY <1>1 DEF AtStop
<1>3. read[i] = EndAt(l, i, << >>, "parsed")
  <2>1. read[i] = ReadFrom(l, px, read, i)
    BY <1>1 DEF IsReading
  <2>2. QED
    BY <1>2, <2>1 DEF ReadFrom
<1>4. sofar \o << >> = sofar
  BY <1>1
<1>5. QED
  BY <1>3, <1>4 DEF ComeTo, EndAt
-----------------------------------------------------------------------------
(* While the line is parsed, the reading of it has come to a word: the     *)
(* words before it are kept or have been taken out of argv, and the        *)
(* variables hold what they set, and what the letters have set that have   *)
(* been read of the bundle at that word.                                   *)
BundleBegun(i) ==
  /\ i <= Len(line) /\ line[i].kind = "short"
  /\ offset < Len(line[i].letters)
  /\ \A j \in 1 .. offset : line[i].letters[j] \in Flags

HasRead(read, i, kept, sofar) ==
  /\ IsReading(line, posix, read)
  /\ ComeTo(line, posix, argv, read, i, kept, sofar)
  /\ offset = 0 => NowReflects(sofar)
  /\ offset # 0 => BundleBegun(i) /\ NowReflects(sofar \o SetFlags(line[i], offset))

ParsingInv == Parsing => \E read, i, kept, sofar : HasRead(read, i, kept, sofar)

(* It has come to the next option, or to the end.                          *)
LEMMA ComesToOption ==
  ASSUME LineInv, ParsingInv, Parsing
  PROVE  \E read, i, kept, sofar : HasRead(read, i, kept, sofar) /\ AtStop(line, posix, i)
<1>1. PICK read, i, kept, sofar : HasRead(read, i, kept, sofar)
  BY DEF ParsingInv
<1>2. CASE offset # 0
  <2>1. AtStop(line, posix, i)
    BY <1>1, <1>2 DEF HasRead, BundleBegun, AtStop
  <2>2. QED
    BY <1>1, <2>1
<1>3. CASE offset = 0
  <2>1. line \in Seq(Word)
    BY DEF LineInv, OptionsTypeOK
  <2>2. /\ IsReading(line, posix, read)
        /\ ComeTo(line, posix, argv, read, i, kept, sofar) /\ NowReflects(sofar)
    BY <1>1, <1>3 DEF HasRead
  <2>3. PICK j, k : /\ ComeTo(line, posix, argv, read, j, k, sofar)
                    /\ AtStop(line, posix, j)
    BY <2>1, <2>2, ReachesStop
  <2>4. HasRead(read, j, k, sofar)
    BY <1>3, <2>2, <2>3 DEF HasRead
  <2>5. QED
    BY <2>3, <2>4
<1>4. QED
  BY <1>2, <1>3

(* Parsing goes on as reading does, and ends with it.                      *)
LEMMA GoesOn ==
  ASSUME line' = line, posix' = posix, Parsing', offset' = 0,
         NEW read, NEW i, NEW kept, NEW sofar,
         IsReading(line, posix, read),
         ComeTo(line, posix, argv', read, i, kept, sofar),
         Reflects(config_file', menu_file', show_version', verbose', sofar)
  PROVE  ParsingInv' /\ WordsRead'
<1>1. HasRead(read, i, kept, sofar)'
  BY DEF HasRead, NowReflects
<1>2. ParsingInv'
  BY <1>1 DEF ParsingInv
<1>3. WordsRead'
  BY DEF WordsRead
<1>4. QED
  BY <1>2, <1>3

LEMMA ComesToEnd ==
  ASSUME line' = line, posix' = posix,
         NEW sets, NEW left, NEW end \in {"parsed", "error", "help"},
         Reading(line, posix) = [sets |-> sets, left |-> left, end |-> end],
         argv' = left, status' = end,
         Reflects(config_file', menu_file', show_version', verbose', sets)
  PROVE  ParsingInv' /\ WordsRead'
<1>1. ~ Parsing'
  BY DEF Parsing
<1>2. ParsingInv'
  BY <1>1 DEF ParsingInv
<1> PICK r : r = Reading(line, posix)
  OBVIOUS
<1>3. r.sets = sets /\ r.left = left /\ r.end = end
  OBVIOUS
<1>4. Reading(line', posix') = r
  OBVIOUS
<1>5. WordsRead'
  BY <1>3, <1>4 DEF WordsRead, Reflects
<1>6. QED
  BY <1>2, <1>5
(* parse_one is where reading is. *)
TakesOut(p, i, kept) ==
  \A n \in 1 .. 2 : i + n <= Len(line) + 1 =>
    consume_option(p, n) = kept \o RestOf(Len(line), i + n)

LEMMA AtOption ==
  ASSUME LineInv, Parsing, NEW read, NEW i, NEW kept, NEW sofar,
         HasRead(read, i, kept, sofar), AtStop(line, posix, i), NEW p \in First
  PROVE  /\ line \in Seq(Word) /\ Len(line) \in Nat /\ i \in 1 .. Len(line)
         /\ line[i].kind # "plain" /\ line[i] \in Word
         /\ argv[p] = i /\ WordAt(p) = line[i]
         /\ argv = kept \o RestOf(Len(line), i) /\ sofar \in Seq(Assignment)
         /\ p = Len(argv) <=> i = Len(line)
         /\ i # Len(line) => p < Len(argv) /\ argv[p + 1] = i + 1
         /\ TakesOut(p, i, kept)
<1>1. /\ OptionsTypeOK /\ line \in Seq(Word)
      /\ IsReading(line, posix, read)
      /\ ComeTo(line, posix, argv, read, i, kept, sofar)
  BY DEF LineInv, HasRead, OptionsTypeOK
<1>2. /\ i \in 1 .. Len(line) + 1 /\ Len(line) \in Nat
      /\ ~ (i <= Len(line) /\ line[i].kind # "plain") => First = {}
      /\ i <= Len(line) /\ line[i].kind # "plain" =>
           Len(kept) + 1 \in First /\ argv[Len(kept) + 1] = i
  BY <1>1, StopIsFirst
<1>3. i <= Len(line) /\ line[i].kind # "plain"
  BY <1>2
<1>4. i \in 1 .. Len(line)
  BY <1>2, <1>3
<1>5. p = Len(kept) + 1 /\ argv[p] = i
  BY <1>1, <1>2, <1>3, FirstIsOne
<1>6. WordAt(p) = line[i] /\ line[i] \in Word
  BY <1>1, <1>4, <1>5 DEF WordAt
<1>7. argv = kept \o RestOf(Len(line), i) /\ sofar \in Seq(Assignment)
  BY <1>1 DEF ComeTo
<1>8. LET q == Len(kept) + 1
      IN  /\ q = Len(argv) <=> i = Len(line)
          /\ i # Len(line) => q < Len(argv) /\ argv[q + 1] = i + 1
          /\ \A n \in 1 .. 2 : i + n <= Len(line) + 1 =>
               consume_option(q, n) = kept \o RestOf(Len(line), i + n)
  BY <1>1, <1>3, TakesWords
<1>9. TakesOut(p, i, kept)
  BY <1>5, <1>8 DEF TakesOut
<1>10. QED
  BY <1>1, <1>2, <1>3, <1>4, <1>5, <1>6, <1>7, <1>8, <1>9

LEMMA NoLetters ==
  ASSUME NEW w, NEW s \in Seq(Assignment)
  PROVE  SetFlags(w, 0) = << >> /\ s \o SetFlags(w, 0) = s /\ s \o << >> = s
<1>1. SetFlags(w, 0) = << >>
  <2>1. 1 .. 0 = {}
    OBVIOUS
  <2>2. QED
    BY <2>1 DEF SetFlags
<1>2. QED
  BY <1>1

(* What has been read of the present word. *)
LEMMA BegunFacts ==
  ASSUME LineInv, NEW read, NEW i, NEW kept, NEW sofar, HasRead(read, i, kept, sofar),
         NEW q, q \in Nat, offset = q
  PROVE  /\ NowReflects(sofar \o SetFlags(line[i], q))
         /\ \A j \in 1 .. q : line[i].letters[j] \in Flags
         /\ q # 0 => line[i].kind = "short" /\ q < Len(line[i].letters)
<1>1. CASE q = 0
  <2>1. sofar \in Seq(Assignment)
    BY DEF HasRead, ComeTo
  <2>2. NowReflects(sofar)
    BY <1>1 DEF HasRead
  <2>3. sofar \o SetFlags(line[i], q) = sofar
    BY <1>1, <2>1, NoLetters
  <2>4. \A j \in 1 .. q : FALSE
    BY <1>1
  <2>5. QED
    BY <1>1, <2>2, <2>3, <2>4
<1>2. CASE q # 0
  BY <1>2 DEF HasRead, BundleBegun
<1>3. QED
  BY <1>1, <1>2

LEMMA DoneRead ==
  ASSUME LineInv, ParsingInv, Done
  PROVE  ParsingInv' /\ WordsRead'
<1>1. Parsing /\ First = {} /\ status' = "parsed"
      /\ UNCHANGED << line, posix, argv, values >>
  BY DEF Done
<1>2. PICK read, i, kept, sofar : HasRead(read, i, kept, sofar) /\ AtStop(line, posix, i)
  BY <1>1, ComesToOption
<1>3. /\ OptionsTypeOK /\ line \in Seq(Word) /\ offset \in Nat
      /\ IsReading(line, posix, read)
      /\ ComeTo(line, posix, argv, read, i, kept, sofar)
  BY <1>2 DEF LineInv, HasRead, OptionsTypeOK
<1>4. ~ (i <= Len(line) /\ line[i].kind # "plain")
  BY <1>1, <1>2, <1>3, StopIsFirst
<1>5. Reading(line, posix) = [sets |-> sofar, left |-> argv, end |-> "parsed"]
  BY <1>2, <1>3, <1>4, NoMoreWords
<1>6. NowReflects(sofar)
  <2>1. offset = 0
    BY <1>2, <1>4 DEF HasRead, BundleBegun
  <2>2. QED
    BY <1>2, <2>1 DEF HasRead
<1>7. Reflects(config_file', menu_file', show_version', verbose', sofar)
  BY <1>1, <1>6 DEF NowReflects, values
<1>8. QED
  BY <1>1, <1>5, <1>7, ComesToEnd

LEMMA TerminatorRead ==
  ASSUME LineInv, ParsingInv, Parsing, NEW p \in First, Terminator(p),
         UNCHANGED << line, posix, log_importance >>
  PROVE  ParsingInv' /\ WordsRead'
<1>1. PICK read, i, kept, sofar : HasRead(read, i, kept, sofar) /\ AtStop(line, posix, i)
  BY ComesToOption
<1>2. /\ line \in Seq(Word) /\ Len(line) \in Nat /\ i \in 1 .. Len(line)
      /\ WordAt(p) = line[i] /\ sofar \in Seq(Assignment)
      /\ TakesOut(p, i, kept)
  BY <1>1, AtOption
<1>3. /\ line[i].kind = "terminator" /\ status' = "parsed"
      /\ argv' = consume_option(p, 1) /\ UNCHANGED values
  BY <1>2 DEF Terminator
<1>4. argv' = kept \o RestOf(Len(line), i + 1)
  <2>1. i + 1 <= Len(line) + 1 /\ 1 \in 1 .. 2
    BY <1>2
  <2>2. QED
    BY <1>2, <1>3, <2>1 DEF TakesOut
<1>5. Reading(line, posix) =
        [sets |-> sofar \o << >>, left |-> kept \o RestOf(Len(line), i + 1),
         end |-> "parsed"]
  <2>1. Meaning(line, i) = Says(<< >>, 1, "parsed")
    BY <1>3, TerminatorMeans
  <2>2. i <= Len(line) /\ line[i].kind # "plain"
    BY <1>2, <1>3
  <2>3. /\ IsReading(line, posix, read)
        /\ ComeTo(line, posix, argv, read, i, kept, sofar)
    BY <1>1 DEF HasRead
  <2>4. /\ Meaning(line, i).sets = << >> /\ Meaning(line, i).words = 1
        /\ Meaning(line, i).then = "parsed"
    BY <2>1, SaysFacts
  <2> PICK m : m = Meaning(line, i)
    OBVIOUS
  <2>5. Reading(line, posix) =
          [sets |-> sofar \o m.sets, left |-> kept \o RestOf(Len(line), i + m.words),
           end |-> m.then]
    BY <1>2, <2>2, <2>3, <2>4, LastWord
  <2>6. QED
    BY <2>4, <2>5
<1>6. NowReflects(sofar)
  <2>1. offset = 0
    BY <1>1, <1>3 DEF HasRead, BundleBegun
  <2>2. QED
    BY <1>1, <2>1 DEF HasRead
<1>7. Reflects(config_file', menu_file', show_version', verbose', sofar \o << >>)
  BY <1>2, <1>3, <1>6, NoLetters DEF NowReflects, values
<1>8. QED
  BY <1>3, <1>4, <1>5, <1>7, ComesToEnd
(* A step that takes the present word as Meaning says. *)
LEMMA StepGoesOn ==
  ASSUME LineInv, NEW read, NEW i, NEW kept, NEW sofar, HasRead(read, i, kept, sofar),
         i \in 1 .. Len(line), line[i].kind # "plain",
         UNCHANGED << line, posix >>, Parsing', offset' = 0,
         NEW sets, NEW words, Meaning(line, i) = Says(sets, words, "next"),
         argv' = kept \o RestOf(Len(line), i + words),
         Reflects(config_file', menu_file', show_version', verbose', sofar \o sets)
  PROVE  ParsingInv' /\ WordsRead'
<1>1. /\ line \in Seq(Word) /\ IsReading(line, posix, read)
      /\ ComeTo(line, posix, argv, read, i, kept, sofar)
  BY DEF LineInv, HasRead, OptionsTypeOK
<1>2. /\ Meaning(line, i).sets = sets /\ Meaning(line, i).words = words
      /\ Meaning(line, i).then = "next"
  BY SaysFacts
<1>3. i <= Len(line)
  BY <1>1
<1> PICK m : m = Meaning(line, i)
  OBVIOUS
<1>4. ComeTo(line, posix, kept \o RestOf(Len(line), i + m.words), read, i + m.words,
             kept, sofar \o m.sets)
  BY <1>1, <1>2, <1>3, NextWord
<1>5. ComeTo(line, posix, argv', read, i + words, kept, sofar \o sets)
  BY <1>2, <1>4
<1>6. QED
  BY <1>1, <1>5, GoesOn

LEMMA StepEnds ==
  ASSUME LineInv, NEW read, NEW i, NEW kept, NEW sofar, HasRead(read, i, kept, sofar),
         i \in 1 .. Len(line), line[i].kind # "plain",
         UNCHANGED << line, posix, argv >>,
         argv = kept \o RestOf(Len(line), i),
         NEW sets, NEW then \in {"error", "help"}, status' = then,
         Meaning(line, i) = Says(sets, 0, then),
         Reflects(config_file', menu_file', show_version', verbose', sofar \o sets)
  PROVE  ParsingInv' /\ WordsRead'
<1>1. /\ line \in Seq(Word) /\ IsReading(line, posix, read)
      /\ ComeTo(line, posix, argv, read, i, kept, sofar)
  BY DEF LineInv, HasRead, OptionsTypeOK
<1>2. /\ Meaning(line, i).sets = sets /\ Meaning(line, i).words = 0
      /\ Meaning(line, i).then = then
  BY SaysFacts
<1>3. i <= Len(line) /\ i + 0 = i
  BY <1>1
<1> PICK m : m = Meaning(line, i)
  OBVIOUS
<1>4. m.then # "next"
  BY <1>2
<1>5. Reading(line, posix) =
        [sets |-> sofar \o m.sets, left |-> kept \o RestOf(Len(line), i + m.words),
         end  |-> m.then]
  <2>1. i <= Len(line) /\ line[i].kind # "plain" /\ m = Meaning(line, i)
    BY <1>3
  <2>2. QED
    BY ONLY <1>1, <1>4, <2>1, LastWord
<1>6. Reading(line, posix) = [sets |-> sofar \o sets, left |-> argv, end |-> then]
  BY <1>2, <1>3, <1>5
<1>7. then \in {"parsed", "error", "help"}
  OBVIOUS
<1>8. QED
  BY <1>6, <1>7, ComesToEnd

(* A long option. *)
LEMMA LongRead ==
  ASSUME LineInv, ParsingInv, Parsing, NEW p \in First, Long(p),
         UNCHANGED << line, posix, log_importance >>
  PROVE  ParsingInv' /\ WordsRead'
<1>1. PICK read, i, kept, sofar : HasRead(read, i, kept, sofar) /\ AtStop(line, posix, i)
  BY ComesToOption
<1>2. /\ line \in Seq(Word) /\ Len(line) \in Nat /\ i \in 1 .. Len(line)
      /\ line[i].kind # "plain" /\ line[i] \in Word
      /\ argv[p] = i /\ WordAt(p) = line[i]
      /\ argv = kept \o RestOf(Len(line), i) /\ sofar \in Seq(Assignment)
      /\ p = Len(argv) <=> i = Len(line)
      /\ i # Len(line) => p < Len(argv) /\ argv[p + 1] = i + 1
      /\ \A n \in 1 .. 2 : i + n <= Len(line) + 1 =>
           consume_option(p, n) = kept \o RestOf(Len(line), i + n)
  <2>1. /\ line \in Seq(Word) /\ Len(line) \in Nat /\ i \in 1 .. Len(line)
        /\ line[i].kind # "plain" /\ line[i] \in Word
        /\ argv[p] = i /\ WordAt(p) = line[i]
        /\ argv = kept \o RestOf(Len(line), i) /\ sofar \in Seq(Assignment)
    BY <1>1, AtOption
  <2>2. /\ p = Len(argv) <=> i = Len(line)
        /\ i # Len(line) => p < Len(argv) /\ argv[p + 1] = i + 1
    BY <1>1, AtOption
  <2>3. TakesOut(p, i, kept)
    BY <1>1, AtOption
  <2>4. QED
    BY <2>1, <2>2, <2>3 DEF TakesOut
<1> PICK w : w = line[i]
  OBVIOUS
<1> PICK found : found = opt_find_long(w.name)
  OBVIOUS
<1> PICK o : o = TheOption(found)
  OBVIOUS
<1>3. /\ w.kind = "long" /\ offset' = offset
      /\ \/ found = {} /\ Fail
         \/ found # {} /\ ~ opts[o].hasarg /\ w.value /\ Fail
         \/ found # {} /\ opts[o].hasarg /\ ~ w.value /\ p = Len(argv) /\ Fail
         \/ /\ found # {} /\ opts[o].hasarg = w.value
            /\ callback(o, IF w.value THEN [word |-> argv[p], from |-> 1] ELSE Null)
            /\ argv' = IF o = "help" THEN argv ELSE consume_option(p, 1)
         \/ /\ found # {} /\ opts[o].hasarg /\ ~ w.value /\ ~ (p = Len(argv))
            /\ callback(o, [word |-> argv[p + 1], from |-> 0])
            /\ argv' = consume_option(p, 2)
  BY <1>2 DEF Long, TheOption
<1>4. offset = 0 /\ NowReflects(sofar)
  <2>1. offset = 0
    BY <1>1, <1>3 DEF HasRead, BundleBegun
  <2>2. QED
    BY <1>1, <2>1 DEF HasRead
<1>5. /\ found # {} => o \in DOMAIN opts
      /\ o = "help" => ~ opts[o].hasarg
  BY NameFacts, Table
<1>6. w.value \in BOOLEAN /\ (found # {} => opts[o].hasarg \in BOOLEAN)
  BY <1>2, <1>5, Table DEF Word
<1>7. /\ found = {} => Meaning(line, i) = Says(<< >>, 0, "error")
      /\ found # {} /\ opts[o].hasarg /\ w.value =>
           Meaning(line, i) = Says(<< >> \o Set(o, [word |-> i, from |-> 1]), 1, "next")
      /\ found # {} /\ opts[o].hasarg /\ ~ w.value /\ i = Len(line) =>
           Meaning(line, i) = Says(<< >>, 0, "error")
      /\ found # {} /\ opts[o].hasarg /\ ~ w.value /\ i # Len(line) =>
           Meaning(line, i) = Says(<< >> \o Set(o, [word |-> i + 1, from |-> 0]), 2, "next")
      /\ found # {} /\ ~ opts[o].hasarg /\ w.value =>
           Meaning(line, i) = Says(<< >>, 0, "error")
      /\ found # {} /\ ~ opts[o].hasarg /\ ~ w.value /\ o = "help" =>
           Meaning(line, i) = Says(<< >>, 0, "help")
      /\ found # {} /\ ~ opts[o].hasarg /\ ~ w.value /\ o # "help" =>
           Meaning(line, i) = Says(<< >> \o Set(o, Null), 1, "next")
  BY <1>3, LongMeans
<1>8. sofar \o << >> = sofar
  BY <1>2
<1>9. ASSUME Fail, Meaning(line, i) = Says(<< >>, 0, "error")
      PROVE  ParsingInv' /\ WordsRead'
  <2>1. status' = "error" /\ argv' = argv
        /\ Reflects(config_file', menu_file', show_version', verbose', sofar)
    BY <1>4, <1>9 DEF Fail, values, NowReflects
  <2> PICK e : e = << >>
    OBVIOUS
  <2>2. /\ Meaning(line, i) = Says(e, 0, "error")
        /\ Reflects(config_file', menu_file', show_version', verbose', sofar \o e)
    BY <1>8, <1>9, <2>1
  <2>3. QED
    BY <1>1, <1>2, <2>1, <2>2, StepEnds
<1>10. ASSUME NEW arg \in Place, found # {}, o # "help", callback(o, arg),
              NEW n \in 1 .. 2, i + n <= Len(line) + 1, argv' = consume_option(p, n),
              Meaning(line, i) = Says(<< >> \o Set(o, arg), n, "next")
       PROVE  ParsingInv' /\ WordsRead'
  <2>1. /\ NowReflects(sofar \o Set(o, arg))' /\ status' = status
    BY <1>2, <1>4, <1>5, <1>10, CallbackSets
  <2>2. Reflects(config_file', menu_file', show_version', verbose', sofar \o Set(o, arg))
    BY <2>1 DEF NowReflects
  <2> PICK s : s = Set(o, arg)
    OBVIOUS
  <2>3. << >> \o s = s
    BY <1>5, <1>10, SetType
  <2>4. Meaning(line, i) = Says(s, n, "next")
    BY <1>10, <2>3
  <2>5. argv' = kept \o RestOf(Len(line), i + n)
    BY <1>2, <1>10
  <2>6. Parsing' /\ offset' = 0
    BY <1>3, <1>4, <2>1 DEF Parsing
  <2>7. QED
    BY <1>1, <1>2, <2>2, <2>4, <2>5, <2>6, StepGoesOn
<1>11. CASE found # {} /\ ~ opts[o].hasarg /\ ~ w.value /\ o = "help"
  <2>1. callback(o, Null) /\ argv' = argv /\ Null \in Place
    BY <1>3, <1>6, <1>11, PlaceMade
  <2>2. NowReflects(sofar)' /\ status' = "help"
    BY <1>2, <1>4, <1>5, <1>11, <2>1, CallbackSets
  <2> PICK e : e = << >>
    OBVIOUS
  <2>3. /\ Meaning(line, i) = Says(e, 0, "help")
        /\ Reflects(config_file', menu_file', show_version', verbose', sofar \o e)
    BY <1>7, <1>8, <1>11, <2>2 DEF NowReflects
  <2>4. QED
    BY <1>1, <1>2, <2>1, <2>2, <2>3, StepEnds
<1>12. CASE found # {} /\ ~ opts[o].hasarg /\ ~ w.value /\ o # "help"
  <2>1. callback(o, Null) /\ argv' = consume_option(p, 1) /\ Null \in Place
    BY <1>3, <1>6, <1>12, PlaceMade
  <2>2. Meaning(line, i) = Says(<< >> \o Set(o, Null), 1, "next")
    BY <1>7, <1>12
  <2>3. 1 \in 1 .. 2 /\ i + 1 <= Len(line) + 1
    BY <1>2
  <2>4. QED
    BY <1>10, <1>12, <2>1, <2>2, <2>3
<1>13. CASE found # {} /\ opts[o].hasarg /\ w.value
  <2>1. /\ callback(o, [word |-> i, from |-> 1]) /\ argv' = consume_option(p, 1)
        /\ o # "help"
    BY <1>2, <1>3, <1>5, <1>6, <1>13
  <2>2. Meaning(line, i) = Says(<< >> \o Set(o, [word |-> i, from |-> 1]), 1, "next")
    BY <1>7, <1>13
  <2>3. 1 \in 1 .. 2 /\ i + 1 <= Len(line) + 1 /\ [word |-> i, from |-> 1] \in Place
    BY <1>2, PlaceMade
  <2>4. QED
    BY <1>10, <1>13, <2>1, <2>2, <2>3
<1>14. CASE found # {} /\ opts[o].hasarg /\ ~ w.value /\ i # Len(line)
  <2>1. /\ callback(o, [word |-> i + 1, from |-> 0]) /\ argv' = consume_option(p, 2)
        /\ o # "help"
    BY <1>2, <1>3, <1>5, <1>6, <1>14
  <2>2. Meaning(line, i) = Says(<< >> \o Set(o, [word |-> i + 1, from |-> 0]), 2, "next")
    BY <1>7, <1>14
  <2>3. 2 \in 1 .. 2 /\ i + 2 <= Len(line) + 1 /\ i + 1 \in Nat
    BY <1>2, <1>14
  <2>4. [word |-> i + 1, from |-> 0] \in Place
    BY <2>3, PlaceMade
  <2>5. QED
    BY <1>10, <1>14, <2>1, <2>2, <2>3, <2>4
<1>15. CASE \/ found = {} \/ (~ opts[o].hasarg /\ w.value)
            \/ (opts[o].hasarg /\ ~ w.value /\ i = Len(line))
  <2>1. Fail /\ Meaning(line, i) = Says(<< >>, 0, "error")
    BY <1>2, <1>3, <1>6, <1>7, <1>15
  <2>2. QED
    BY <1>9, <2>1
<1>16. QED
  BY <1>6, <1>11, <1>12, <1>13, <1>14, <1>15
(* A letter of a bundle. *)
LEMMA ShortRead ==
  ASSUME LineInv, ParsingInv, Parsing, NEW p \in First, Short(p),
         UNCHANGED << line, posix, log_importance >>
  PROVE  ParsingInv' /\ WordsRead'
<1>1. PICK read, i, kept, sofar : HasRead(read, i, kept, sofar) /\ AtStop(line, posix, i)
  BY ComesToOption
<1>2. /\ line \in Seq(Word) /\ Len(line) \in Nat /\ i \in 1 .. Len(line)
      /\ line[i].kind # "plain" /\ line[i] \in Word
      /\ argv[p] = i /\ WordAt(p) = line[i]
      /\ argv = kept \o RestOf(Len(line), i) /\ sofar \in Seq(Assignment)
      /\ p = Len(argv) <=> i = Len(line)
      /\ i # Len(line) => p < Len(argv) /\ argv[p + 1] = i + 1
      /\ \A n \in 1 .. 2 : i + n <= Len(line) + 1 =>
           consume_option(p, n) = kept \o RestOf(Len(line), i + n)
  <2>1. /\ line \in Seq(Word) /\ Len(line) \in Nat /\ i \in 1 .. Len(line)
        /\ line[i].kind # "plain" /\ line[i] \in Word
        /\ argv[p] = i /\ WordAt(p) = line[i]
        /\ argv = kept \o RestOf(Len(line), i) /\ sofar \in Seq(Assignment)
    BY <1>1, AtOption
  <2>2. /\ p = Len(argv) <=> i = Len(line)
        /\ i # Len(line) => p < Len(argv) /\ argv[p + 1] = i + 1
    BY <1>1, AtOption
  <2>3. TakesOut(p, i, kept)
    BY <1>1, AtOption
  <2>4. QED
    BY <2>1, <2>2, <2>3 DEF TakesOut
<1> PICK w : w = line[i]
  OBVIOUS
<1> PICK q : q = offset
  OBVIOUS
<1> PICK n : n = q + 1
  OBVIOUS
<1> PICK N : N = Len(w.letters)
  OBVIOUS
<1> PICK found : found = opt_find_short(w.letters[n])
  OBVIOUS
<1> PICK o : o = TheOption(found)
  OBVIOUS
<1>3. /\ w.kind = "short"
      /\ \/ ~ (n <= N /\ found # {}) /\ Fail
         \/ n <= N /\ found # {} /\ opts[o].hasarg /\ n = N /\ p = Len(argv) /\ Fail
         \/ /\ n <= N /\ found # {} /\ ~ opts[o].hasarg
            /\ callback(o, Null)
            /\ IF o # "help" /\ n = N
                 THEN offset' = 0 /\ argv' = consume_option(p, 1)
                 ELSE offset' = n /\ argv' = argv
         \/ /\ n <= N /\ found # {} /\ opts[o].hasarg /\ ~ (n = N)
            /\ callback(o, [word |-> argv[p], from |-> n])
            /\ offset' = 0 /\ argv' = consume_option(p, 1)
         \/ /\ n <= N /\ found # {} /\ opts[o].hasarg /\ n = N /\ p < Len(argv)
            /\ callback(o, [word |-> argv[p + 1], from |-> 0])
            /\ offset' = 0 /\ argv' = consume_option(p, 2)
  BY <1>2 DEF Short, TheOption
<1>4. q \in Nat /\ n \in Nat /\ n # 0 /\ n - 1 = q /\ w \in Word /\ N \in Nat
  <2>1. offset \in Nat
    BY DEF LineInv, OptionsTypeOK
  <2>2. q \in Nat /\ w \in Word
    BY <1>2, <2>1
  <2>3. N \in Nat
    BY <2>2, TurnFacts
  <2>4. QED
    BY <2>2, <2>3
<1> PICK set : set = SetFlags(w, q)
  OBVIOUS
<1>5. /\ NowReflects(sofar \o set) /\ \A j \in 1 .. q : w.letters[j] \in Flags
      /\ q # 0 => q < N
  BY <1>1, <1>4, BegunFacts
<1>6. q <= N
  BY <1>4, <1>5
<1>7. set \in Seq(Assignment) /\ sofar \o set \in Seq(Assignment)
  <2>1. set \in Seq(Assignment)
    BY <1>4, <1>5, <1>6, FlagsType
  <2>2. QED
    BY <1>2, <2>1, ConcatProperties
<1>8. found # {} => o \in DOMAIN opts /\ (w.letters[n] \in Flags <=> ~ opts[o].hasarg /\ o # "help")
  BY LetterFacts
<1>9. o = "help" => ~ opts[o].hasarg
  BY Table
<1>10. Reflects(config_file, menu_file, show_version, verbose, sofar \o set)
  BY <1>5 DEF NowReflects
<1>11. ASSUME Fail, Meaning(line, i) = Says(set, 0, "error")
       PROVE  ParsingInv' /\ WordsRead'
  <2>1. /\ status' = "error" /\ argv' = argv
        /\ Reflects(config_file', menu_file', show_version', verbose', sofar \o set)
    BY <1>10, <1>11 DEF Fail, values
  <2>2. QED
    BY <1>1, <1>2, <1>11, <2>1, StepEnds
<1>12. ASSUME NEW arg \in Place, found # {}, o # "help", callback(o, arg),
              NEW k \in 1 .. 2, i + k <= Len(line) + 1, argv' = consume_option(p, k),
              offset' = 0, Meaning(line, i) = Says(set \o Set(o, arg), k, "next")
       PROVE  ParsingInv' /\ WordsRead'
  <2> PICK a : a = Set(o, arg)
    OBVIOUS
  <2>1. a \in Seq(Assignment)
    BY <1>8, <1>12, SetType
  <2>2. /\ NowReflects((sofar \o set) \o a)' /\ status' = status
    BY <1>5, <1>7, <1>8, <1>12, CallbackSets
  <2>3. (sofar \o set) \o a = sofar \o (set \o a)
    <3>1. sofar \in Seq(Assignment) /\ set \in Seq(Assignment)
      BY <1>2, <1>7
    <3>2. QED
      BY ONLY <2>1, <3>1, SetsRegroup
  <2> PICK s : s = set \o a
    OBVIOUS
  <2>4. Reflects(config_file', menu_file', show_version', verbose', sofar \o s)
    BY <2>2, <2>3 DEF NowReflects
  <2>5. Meaning(line, i) = Says(s, k, "next") /\ Parsing'
    BY <1>12, <2>2 DEF Parsing
  <2>6. argv' = kept \o RestOf(Len(line), i + k)
    BY <1>2, <1>12
  <2>7. /\ HasRead(read, i, kept, sofar) /\ i \in 1 .. Len(line) /\ line[i].kind # "plain"
        /\ offset' = 0
    BY <1>1, <1>2, <1>12
  <2>8. QED
    BY <2>4, <2>5, <2>6, <2>7, StepGoesOn
<1>13. /\ 1 \in 1 .. 2 /\ 2 \in 1 .. 2 /\ i + 1 <= Len(line) + 1 /\ i + 1 \in Nat
       /\ i # Len(line) => i + 2 <= Len(line) + 1
  BY <1>2
<1>14. /\ Null \in Place /\ [word |-> i, from |-> n] \in Place
       /\ [word |-> i + 1, from |-> 0] \in Place
  BY <1>2, <1>4, <1>13, PlaceMade
<1>15. CASE ~ (n <= N)
  <2>1. q = 0 /\ N = 0
    BY <1>4, <1>5, <1>15
  <2>2. w.letters = << >>
    <3> PICK t : t = w.letters
      OBVIOUS
    <3>1. t \in Seq(STRING)
      BY <1>4 DEF Word
    <3>2. Len(t) = 0
      BY <2>1
    <3>3. t = << >>
      BY <3>1, <3>2
    <3>4. QED
      BY <3>3
  <2>3. Turn(w) > Len(w.letters)
    BY <1>4, <2>1, TurnFacts
  <2>4. Meaning(line, i) = Says(<< >>, 0, "error")
    BY <1>3, <2>2, <2>3, ShortMeans
  <2>5. set = << >>
    BY <1>2, <2>1, NoLetters
  <2>6. Fail
    BY <1>3, <1>15
  <2>7. QED
    BY <1>11, <2>4, <2>5, <2>6
<1>16. CASE n <= N /\ w.letters[n] \in Flags
  <2>1. found # {}
    BY <1>16, FlagsAreFound
  <2>2. ~ opts[o].hasarg /\ o # "help" /\ o \in DOMAIN opts
    BY <1>8, <1>16, <2>1
  <2>3. /\ callback(o, Null)
        /\ IF n = N THEN offset' = 0 /\ argv' = consume_option(p, 1)
                    ELSE offset' = n /\ argv' = argv
    BY <1>3, <1>16, <2>1, <2>2
  <2>4. \A j \in 1 .. n : w.letters[j] \in Flags
    <3>1. \A j \in 1 .. n : j \in 1 .. q \/ j = n
      BY <1>4
    <3>2. QED
      BY <1>5, <1>16, <3>1
  <2>5. SetFlags(w, n) = set \o Set(o, Null)
    <3>1. q + 1 <= Len(w.letters) /\ \A j \in 1 .. q + 1 : w.letters[j] \in Flags
      BY <1>16, <2>4
    <3>2. SetFlags(w, q + 1) =
            SetFlags(w, q) \o Set(TheOption(opt_find_short(w.letters[q + 1])), Null)
      BY <1>4, <3>1, FlagsGrow
    <3>3. QED
      BY <3>2
  <2>6. CASE n = N
    <3>1. /\ N + 1 \in 1 .. Len(w.letters) + 1 /\ ~ (N + 1 <= Len(w.letters))
          /\ \A j \in 1 .. (N + 1) - 1 : w.letters[j] \in Flags
      BY <1>4, <2>4, <2>6
    <3>2. Turn(w) = N + 1
      BY <1>4, <3>1, TurnFacts
    <3>3. Turn(w) > Len(w.letters) /\ Turn(w) - 1 = n
      BY <1>4, <2>6, <3>2
    <3>4. w.letters # << >>
      BY <1>4, <2>6
    <3>5. Meaning(line, i) = Says(SetFlags(w, n), 1, "next")
      BY <1>3, <3>3, <3>4, ShortMeans
    <3>6. Meaning(line, i) = Says(set \o Set(o, Null), 1, "next")
      BY <2>5, <3>5
    <3>7. offset' = 0 /\ argv' = consume_option(p, 1)
      BY <2>3, <2>6
    <3>8. QED
      BY <1>12, <1>13, <1>14, <2>1, <2>2, <2>3, <3>6, <3>7
  <2>7. CASE n # N
    <3>1. offset' = n /\ argv' = argv /\ n < N
      BY <1>4, <1>16, <2>3, <2>7
    <3> PICK a : a = Set(o, Null)
      OBVIOUS
    <3>2. a \in Seq(Assignment)
      BY <1>14, <2>2, SetType
    <3>3. /\ NowReflects((sofar \o set) \o a)' /\ status' = status
      BY <1>5, <1>7, <1>14, <2>2, <2>3, CallbackSets
    <3>4. (sofar \o set) \o a = sofar \o SetFlags(w, n)
      <4>1. sofar \in Seq(Assignment) /\ set \in Seq(Assignment)
        BY <1>2, <1>7
      <4>2. (sofar \o set) \o a = sofar \o (set \o a)
        BY ONLY <3>2, <4>1, SetsRegroup
      <4>3. QED
        BY <2>5, <4>2
    <3>5. NowReflects(sofar \o SetFlags(line[i], n))'
      BY <1>2, <3>3, <3>4 DEF NowReflects
    <3>6. BundleBegun(i)'
      BY <1>2, <1>3, <2>4, <3>1 DEF BundleBegun
    <3>7. /\ IsReading(line, posix, read)'
          /\ ComeTo(line, posix, argv, read, i, kept, sofar)'
      BY <1>1, <3>1 DEF HasRead
    <3>8. HasRead(read, i, kept, sofar)'
      BY <1>4, <3>1, <3>5, <3>6, <3>7 DEF HasRead, NowReflects
    <3>9. Parsing'
      BY <3>3 DEF Parsing
    <3>10. QED
      BY <3>8, <3>9 DEF ParsingInv, WordsRead
  <2>8. QED
    BY <2>6, <2>7
<1>17. CASE n <= N /\ w.letters[n] \notin Flags
  <2>1. Turn(w) = n
    <3>1. n \in 1 .. Len(w.letters) + 1 /\ \A j \in 1 .. n - 1 : w.letters[j] \in Flags
      BY <1>4, <1>5, <1>17
    <3>2. QED
      BY <1>4, <1>17, <3>1, TurnFacts
  <2>2. /\ found = {} => Meaning(line, i) = Says(set, 0, "error")
        /\ found # {} /\ opts[o].hasarg /\ n < N =>
             Meaning(line, i) = Says(set \o Set(o, [word |-> i, from |-> n]), 1, "next")
        /\ found # {} /\ opts[o].hasarg /\ ~ (n < N) /\ i = Len(line) =>
             Meaning(line, i) = Says(set, 0, "error")
        /\ found # {} /\ opts[o].hasarg /\ ~ (n < N) /\ i # Len(line) =>
             Meaning(line, i) = Says(set \o Set(o, [word |-> i + 1, from |-> 0]), 2, "next")
        /\ found # {} /\ ~ opts[o].hasarg /\ o = "help" =>
             Meaning(line, i) = Says(set, 0, "help")
    <3>1. ~ (n > N) /\ n - 1 = q
      BY <1>4, <1>17
    <3>2. QED
      BY <1>3, <2>1, <3>1, ShortMeans
  <2>3. n < N <=> n # N
    BY <1>4, <1>17
  <2>4. CASE found = {}
    <3>1. Fail
      BY <1>3, <2>4
    <3>2. QED
      BY <1>11, <2>2, <2>4, <3>1
  <2>5. CASE found # {} /\ opts[o].hasarg /\ n < N
    <3>1. /\ callback(o, [word |-> i, from |-> n]) /\ o # "help"
          /\ offset' = 0 /\ argv' = consume_option(p, 1)
      BY <1>2, <1>3, <1>9, <1>17, <2>3, <2>5
    <3>2. Meaning(line, i) = Says(set \o Set(o, [word |-> i, from |-> n]), 1, "next")
      BY <2>2, <2>5
    <3>3. QED
      BY <1>12, <1>13, <1>14, <2>5, <3>1, <3>2
  <2>6. CASE found # {} /\ opts[o].hasarg /\ ~ (n < N) /\ i = Len(line)
    <3>1. Fail
      BY <1>2, <1>3, <1>17, <2>3, <2>6
    <3>2. QED
      BY <1>11, <2>2, <2>6, <3>1
  <2>7. CASE found # {} /\ opts[o].hasarg /\ ~ (n < N) /\ i # Len(line)
    <3>1. /\ callback(o, [word |-> i + 1, from |-> 0]) /\ o # "help"
          /\ offset' = 0 /\ argv' = consume_option(p, 2)
      BY <1>2, <1>3, <1>9, <1>17, <2>3, <2>7
    <3>2. Meaning(line, i) = Says(set \o Set(o, [word |-> i + 1, from |-> 0]), 2, "next")
      BY <2>2, <2>7
    <3>3. i + 2 <= Len(line) + 1
      BY <1>13, <2>7
    <3>4. QED
      BY <1>12, <1>13, <1>14, <2>7, <3>1, <3>2, <3>3
  <2>8. CASE found # {} /\ ~ opts[o].hasarg
    <3>1. o = "help" /\ o \in DOMAIN opts
      BY <1>8, <1>17, <2>8
    <3>2. callback(o, Null) /\ argv' = argv
      BY <1>3, <1>17, <2>8, <3>1
    <3>3. NowReflects(sofar \o set)' /\ status' = "help"
      BY <1>5, <1>7, <1>14, <3>1, <3>2, CallbackSets
    <3>4. Reflects(config_file', menu_file', show_version', verbose', sofar \o set)
      BY <3>3 DEF NowReflects
    <3>5. Meaning(line, i) = Says(set, 0, "help")
      BY <2>2, <2>8, <3>1
    <3>6. QED
      BY <1>1, <1>2, <3>2, <3>3, <3>4, <3>5, StepEnds
  <2>9. QED
    BY <2>4, <2>5, <2>6, <2>7, <2>8
<1>18. QED
  BY <1>15, <1>16, <1>17
-----------------------------------------------------------------------------
ReadInv == LineInv /\ ParsingInv /\ WordsRead

LEMMA InitRead == opt_register_table /\ OptionsInit => ReadInv
<1> SUFFICES ASSUME opt_register_table, OptionsInit PROVE ReadInv
  OBVIOUS
<1>1. /\ line \in Seq(Word) /\ Len(line) \in Nat
      /\ argv = [i \in 1 .. Len(line) |-> i] /\ offset = 0 /\ status = "parsing"
      /\ config_file = Null /\ menu_file = Null /\ show_version = FALSE /\ verbose = 0
  BY OptionsAssumption, LenProperties DEF OptionsInit
<1>2. PICK read : IsReading(line, posix, read) /\ Reading(line, posix) = read[1]
  BY <1>1, ReadingExists
<1> PICK N : N = Len(line)
  OBVIOUS
<1>3. 1 \in 1 .. N + 1
  BY <1>1
<1>4. read[1] \in ReadType(line)
  BY <1>1, <1>2, <1>3, ReadingTyped
<1> PICK r : r = read[1]
  OBVIOUS
<1>5. /\ r.sets \in Seq(Assignment) /\ r.left \in Seq(Places(N))
      /\ r = [sets |-> r.sets, left |-> r.left, end |-> r.end]
  BY <1>4 DEF ReadType, Places
<1>6. << >> \o r.sets = r.sets /\ << >> \o r.left = r.left
  BY <1>5
<1>7. argv = << >> \o RestOf(N, 1)
  <2>1. N + 1 - 1 = N /\ \A k \in 1 .. N : 1 + k - 1 = k
    BY <1>1
  <2>2. RestOf(N, 1) = [k \in 1 .. N |-> k]
    BY <2>1 DEF RestOf
  <2>3. RestOf(N, 1) \in Seq(1 .. N)
    BY <1>1, <1>3, RestFacts
  <2>4. << >> \o RestOf(N, 1) = RestOf(N, 1)
    BY <2>3
  <2>5. QED
    BY <1>1, <2>2, <2>4
<1>8. /\ << >> \in Seq(1 .. N) /\ << >> \in Seq(Assignment)
      /\ \A k \in 1 .. Len(<< >>) : FALSE
  OBVIOUS
<1>9. ComeTo(line, posix, argv, read, 1, << >>, << >>)
  <2>1. Reading(line, posix) = [sets |-> << >> \o r.sets, left |-> << >> \o r.left,
                                end |-> r.end]
    BY <1>2, <1>5, <1>6
  <2>2. QED
    BY <1>3, <1>7, <1>8, <2>1 DEF ComeTo
<1>10. NowReflects(<< >>)
  BY <1>1, NothingSet DEF NowReflects
<1>11. HasRead(read, 1, << >>, << >>)
  BY <1>1, <1>2, <1>9, <1>10 DEF HasRead
<1>12. ParsingInv /\ WordsRead
  BY <1>1, <1>11 DEF ParsingInv, WordsRead, Parsing
<1>13. QED
  BY <1>12, InitLine DEF ReadInv

LEMMA ParseRead == ReadInv /\ parse_one => ParsingInv' /\ WordsRead'
<1> SUFFICES ASSUME ReadInv, parse_one PROVE ParsingInv' /\ WordsRead'
  OBVIOUS
<1>1. LineInv /\ ParsingInv
  BY DEF ReadInv
<1>2. CASE Done
  BY <1>1, <1>2, DoneRead
<1>3. CASE /\ Parsing /\ UNCHANGED << line, posix, log_importance >>
           /\ \E p \in First : Terminator(p) \/ Long(p) \/ Short(p)
  BY <1>1, <1>3, TerminatorRead, LongRead, ShortRead
<1>4. QED
  BY <1>2, <1>3 DEF parse_one

LEMMA MainRead == ReadInv /\ main => ParsingInv' /\ WordsRead'
<1> SUFFICES ASSUME ReadInv, main PROVE ParsingInv' /\ WordsRead'
  OBVIOUS
<1>1. /\ status = "parsed" /\ UNCHANGED << line, posix, argv, values >>
      /\ status' = IF show_version \/ menu_file = Null THEN "exit" ELSE "run"
  BY DEF main
<1>2. /\ line' = line /\ posix' = posix /\ argv' = argv
      /\ config_file' = config_file /\ menu_file' = menu_file
      /\ show_version' = show_version /\ verbose' = verbose
  BY <1>1 DEF values
<1> PICK r : r = Reading(line, posix)
  OBVIOUS
<1>3. Reading(line', posix') = r
  BY <1>2
<1>4. /\ argv = r.left
      /\ config_file = LastOf(r.sets, "config_file")
      /\ menu_file = LastOf(r.sets, "menu_file")
      /\ show_version <=> Times(r.sets, "version") > 0
      /\ verbose = Times(r.sets, "verbose")
      /\ r.end = "parsed"
  BY <1>1 DEF ReadInv, WordsRead, Parsing
<1>5. /\ status' \in {"exit", "run"}
      /\ status' = "run" => menu_file # Null /\ ~ show_version
      /\ status' = "exit" => menu_file = Null \/ show_version
  BY <1>1
<1>6. WordsRead'
  BY <1>2, <1>3, <1>4, <1>5 DEF WordsRead
<1>7. ParsingInv'
  BY <1>5 DEF ParsingInv, Parsing
<1>8. QED
  BY <1>6, <1>7

LEMMA NextRead == ReadInv /\ [Next]_programVars => ReadInv'
<1> SUFFICES ASSUME ReadInv, [Next]_programVars PROVE ReadInv'
  OBVIOUS
<1>1. LineInv'
  BY NextLine DEF ReadInv
<1>2. CASE UNCHANGED optionVars
  <2>1. /\ line' = line /\ posix' = posix /\ argv' = argv /\ offset' = offset
        /\ config_file' = config_file /\ menu_file' = menu_file
        /\ show_version' = show_version /\ verbose' = verbose /\ status' = status
    BY <1>2 DEF optionVars, values
  <2>2. WordsRead'
    BY <2>1 DEF ReadInv, WordsRead, Parsing
  <2>3. ParsingInv'
    BY <2>1 DEF ReadInv, ParsingInv, Parsing, HasRead, BundleBegun, NowReflects
  <2>4. QED
    BY <1>1, <2>2, <2>3 DEF ReadInv
<1>3. CASE parse_one
  BY <1>1, <1>3, ParseRead DEF ReadInv
<1>4. CASE main
  BY <1>1, <1>4, MainRead DEF ReadInv
<1>5. CASE run
  <2>1. status' = "running"
    BY <1>5 DEF run
  <2>2. QED
    BY <1>1, <2>1 DEF ReadInv, WordsRead, ParsingInv, Parsing
<1>6. QED
  BY <1>2, <1>3, <1>4, <1>5 DEF Next, programVars

(* The command line is read as it is meant.  The table of options is one   *)
(* that can be registered: what the lengths of its names are is for TLC.   *)
THEOREM CommandLineRead ==
  ASSUME opt_register_table
  PROVE  Spec => []WordsRead
<1>1. Init => ReadInv
  BY InitRead DEF Init
<1>2. ReadInv => WordsRead
  BY DEF ReadInv
<1>3. QED
  BY <1>1, <1>2, NextRead, PTL DEF Spec
=============================================================================

--------------------------- MODULE Layout_proofs ---------------------------
(***************************************************************************)
(* Proofs about Layout, for every set of menus, however deeply they are    *)
(* nested, for all heights of the entries, and for every screen and        *)
(* position of the pointer.                                                *)
(***************************************************************************)
EXTENDS Layout, Extrema, SequenceTheorems, TLAPS

(* Facts about the constants. *)

LEMMA Numbers ==
  /\ MENU_ITEM_WIDTH = 170 /\ MENU_PADDING_X = 1 /\ MENU_PADDING_Y = 1
  /\ menu_overlap_x = -4 /\ MenuWidth = 172
BY DEF MENU_ITEM_WIDTH, MENU_PADDING_X, MENU_PADDING_Y, menu_overlap_x, MenuWidth

LEMMA EntryFacts ==
  ASSUME NEW m \in Menus
  PROVE  /\ Len(Entries[m]) \in Nat
         /\ \A k \in 1 .. Len(Entries[m]) :
              /\ Entries[m][k].height \in Nat \ {0}
              /\ Entries[m][k].submenu \in Menus \union {NoMenu}
<1>1. Entries[m] \in Seq([height : Nat \ {0}, submenu : Menus \union {NoMenu}])
  BY LayoutAssumption
<1>2. \A k \in 1 .. Len(Entries[m]) :
        Entries[m][k] \in [height : Nat \ {0}, submenu : Menus \union {NoMenu}]
  BY <1>1, ElementOfSeq
<1>3. QED
  BY <1>1, <1>2

LEMMA ScreenType ==
  ASSUME NEW s \in Screens \union {NoScreen}
  PROVE  s.width \in Nat /\ s.height \in Nat
BY LayoutAssumption DEF NoScreen
-----------------------------------------------------------------------------
(* The entries of a menu are under one another: each begins where the one  *)
(* before it ends, and get_menu_height is where the last one ends.         *)
LEMMA OffsetFacts ==
  ASSUME NEW m \in Menus
  PROVE  /\ \A k \in 1 .. Len(Entries[m]) + 1 : Offset(m)[k] \in Nat
         /\ Offset(m)[1] = 0
         /\ \A k \in 1 .. Len(Entries[m]) :
              Offset(m)[k + 1] = Offset(m)[k] + Entries[m][k].height
<1> DEFINE n == Len(Entries[m])
           h(k) == Entries[m][k].height
           step == [k \in Nat |-> [v \in Nat |-> IF k \in 1 .. n THEN v + h(k) ELSE v]]
           Rec(f) == f = [k \in 1 .. n + 1 |-> IF k = 1 THEN 0 ELSE f[k - 1] + h(k - 1)]
           offset == CHOOSE f : Rec(f)
<1>1. n \in Nat /\ \A k \in 1 .. n : h(k) \in Nat
  BY EntryFacts
<1>2. step \in [Nat -> [Nat -> Nat]]
  <2>1. \A k \in Nat : [v \in Nat |-> IF k \in 1 .. n THEN v + h(k) ELSE v] \in [Nat -> Nat]
    <3> HIDE DEF n, h
    <3>1. QED
      BY <1>1
  <2>2. QED
    BY <2>1
<1>3. PICK g \in RecursiveOver(Nat, 0, step, n) : TRUE
  <2> DEFINE T == Nat
             base == 0
  <2>1. base \in T /\ step \in [Nat -> [T -> T]]
    BY <1>2
  <2> HIDE DEF n, step, T, base
  <2>2. RecursiveOver(T, base, step, n) # {}
    BY <1>1, <2>1, RecursionExists
  <2>3. QED
    BY <2>2 DEF T, base
<1>4. /\ g[0] = 0 /\ \A k \in 0 .. n : g[k] \in Nat
      /\ \A k \in 1 .. n : g[k] = step[k][g[k - 1]]
  BY <1>3 DEF RecursiveOver
<1>5. \A k \in 1 .. n : g[k] = g[k - 1] + h(k)
  <2> HIDE DEF n, h
  <2>1. ASSUME NEW k \in 1 .. n PROVE g[k] = g[k - 1] + h(k)
    <3>1. k \in Nat /\ k - 1 \in 0 .. n
      BY <1>1
    <3>2. QED
      BY <1>4, <3>1
  <2>2. QED
    BY <2>1
<1> HIDE DEF step, n, h
<1> DEFINE f == [k \in 1 .. n + 1 |-> g[k - 1]]
<1>6. Rec(f)
  <2>1. \A k \in 1 .. n + 1 : k - 1 \in 0 .. n
    BY <1>1
  <2>2. \A k \in 1 .. n + 1 : k # 1 => k - 1 \in 1 .. n /\ (k - 1) \in 1 .. n + 1
    BY <1>1
  <2>3. \A k \in 1 .. n + 1 : f[k] = IF k = 1 THEN 0 ELSE f[k - 1] + h(k - 1)
    BY <1>4, <1>5, <2>1, <2>2
  <2>4. QED
    BY <2>3
<1> HIDE DEF f, Rec
<1>7. Rec(offset)
  BY <1>6
<1>8. Offset(m) = offset
  BY DEF Offset, offset, Rec, n, h
<1> HIDE DEF offset
<1>9. /\ offset[1] = 0
      /\ \A k \in 1 .. n : offset[k + 1] = offset[k] + h(k)
  <2>1. offset = [k \in 1 .. n + 1 |-> IF k = 1 THEN 0 ELSE offset[k - 1] + h(k - 1)]
    BY <1>7 DEF Rec
  <2>2. 1 \in 1 .. n + 1
    BY <1>1
  <2>3. \A k \in 1 .. n : k + 1 \in 1 .. n + 1 /\ k + 1 # 1 /\ (k + 1) - 1 = k
    BY <1>1
  <2>4. QED
    BY <2>1, <2>2, <2>3
<1>10. \A k \in 1 .. n + 1 : offset[k] \in Nat
  <2> DEFINE S == {k \in Nat : k <= n => offset[k + 1] \in Nat}
  <2>1. 0 \in S
    BY <1>9
  <2>2. ASSUME NEW k \in S PROVE k + 1 \in S
    <3>1. CASE k + 1 <= n
      <4>1. k + 1 \in 1 .. n /\ k <= n
        BY <1>1, <3>1
      <4>2. offset[k + 1] \in Nat
        BY <4>1
      <4>3. QED
        BY <1>1, <1>9, <4>1, <4>2
    <3>2. CASE ~ (k + 1 <= n)
      BY <3>2
    <3>3. QED
      BY <3>1, <3>2
  <2> HIDE DEF S
  <2>3. \A k \in Nat : k \in S
    BY <2>1, <2>2, InductionBySet DEF S
  <2>4. ASSUME NEW k \in 1 .. n + 1 PROVE offset[k] \in Nat
    <3>1. k - 1 \in Nat /\ k - 1 <= n /\ (k - 1) + 1 = k
      BY <1>1
    <3>2. k - 1 \in S
      BY <2>3, <3>1
    <3>3. QED
      BY <3>1, <3>2 DEF S
  <2>5. QED
    BY <2>4
<1>11. QED
  BY <1>8, <1>9, <1>10 DEF n, h

LEMMA OffsetGrows ==
  ASSUME NEW m \in Menus, NEW j \in 1 .. Len(Entries[m]) + 1,
         NEW k \in 1 .. Len(Entries[m]) + 1, j <= k
  PROVE  Offset(m)[j] <= Offset(m)[k]
<1> DEFINE n == Len(Entries[m])
           o == Offset(m)
           S == {i \in Nat : j + i <= n + 1 => o[j] <= o[j + i]}
<1>1. n \in Nat /\ j \in Nat /\ \A i \in 1 .. n : Entries[m][i].height \in Nat
  BY EntryFacts
<1>2. /\ \A i \in 1 .. n + 1 : o[i] \in Nat
      /\ \A i \in 1 .. n : o[i + 1] = o[i] + Entries[m][i].height
  BY OffsetFacts
<1> HIDE DEF n, o
<1>3. 0 \in S
  BY <1>1, <1>2 DEF n
<1>4. ASSUME NEW i \in S PROVE i + 1 \in S
  <2>1. SUFFICES ASSUME j + (i + 1) <= n + 1 PROVE o[j] <= o[j + (i + 1)]
    OBVIOUS
  <2>2. j + i \in 1 .. n /\ j + (i + 1) = (j + i) + 1 /\ j \in 1 .. n + 1
    BY <1>1, <2>1 DEF n
  <2>3. o[j] <= o[j + i]
    BY <1>1, <2>2
  <2>4. /\ o[j + (i + 1)] = o[j + i] + Entries[m][j + i].height
        /\ Entries[m][j + i].height \in Nat
    BY <1>1, <1>2, <2>2
  <2>5. o[j] \in Nat /\ o[j + i] \in Nat
    <3>1. j \in 1 .. n + 1 /\ j + i \in 1 .. n + 1
      BY <1>1, <2>2
    <3>2. QED
      BY <1>2, <3>1
  <2>6. QED
    BY <2>3, <2>4, <2>5
<1> HIDE DEF S
<1>5. \A i \in Nat : i \in S
  BY <1>3, <1>4, InductionBySet DEF S
<1>6. k - j \in S /\ j + (k - j) = k /\ k <= n + 1
  BY <1>1, <1>5 DEF n
<1>7. QED
  BY <1>6 DEF S, n, o

LEMMA HeightFacts ==
  ASSUME NEW m \in Menus
  PROVE  /\ get_menu_height(m) \in Nat /\ MenuHeight(m) = get_menu_height(m) + 2
         /\ \A k \in 1 .. Len(Entries[m]) :
              /\ Offset(m)[k] \in Nat /\ Entries[m][k].height \in Nat \ {0}
              /\ Offset(m)[k] + Entries[m][k].height <= get_menu_height(m)
              /\ \A j \in 1 .. k - 1 :
                   Offset(m)[j] + Entries[m][j].height <= Offset(m)[k]
<1> DEFINE n == Len(Entries[m])
<1>1. n \in Nat /\ \A k \in 1 .. n : Entries[m][k].height \in Nat \ {0}
  BY EntryFacts
<1>2. get_menu_height(m) = Offset(m)[n + 1] /\ n + 1 \in 1 .. n + 1
  BY <1>1 DEF get_menu_height
<1>3. \A k \in 1 .. n :
        /\ Offset(m)[k + 1] = Offset(m)[k] + Entries[m][k].height
        /\ k + 1 \in 1 .. n + 1 /\ k \in 1 .. n + 1
  BY <1>1, OffsetFacts
<1>4. \A k \in 1 .. n : Offset(m)[k + 1] <= Offset(m)[n + 1]
  BY <1>1, <1>2, <1>3, OffsetGrows
<1>5. ASSUME NEW k \in 1 .. n, NEW j \in 1 .. k - 1
      PROVE  Offset(m)[j + 1] <= Offset(m)[k] /\ j \in 1 .. n
  <2>1. j \in 1 .. n /\ j + 1 \in 1 .. n + 1 /\ j + 1 <= k /\ k \in 1 .. n + 1
    BY <1>1
  <2>2. QED
    BY <2>1, OffsetGrows
<1>6. get_menu_height(m) \in Nat
  BY <1>2, OffsetFacts
<1>7. MenuHeight(m) = get_menu_height(m) + 2
  BY <1>6, Numbers DEF MenuHeight
<1> HIDE DEF n
<1>8. QED
  BY <1>1, <1>2, <1>3, <1>4, <1>5, <1>6, <1>7, OffsetFacts DEF n
-----------------------------------------------------------------------------
(* What configure computes. *)

LEMMA ItemBoxFacts ==
  ASSUME NEW m \in Menus, NEW k \in 1 .. Len(Entries[m]), NEW b \in Box
  PROVE  /\ ItemBox(m, k, b) \in Box
         /\ ItemBox(m, k, b).x = b.x + 1
         /\ ItemBox(m, k, b).y = b.y + 1 + Offset(m)[k]
         /\ ItemBox(m, k, b).width = MENU_ITEM_WIDTH
         /\ ItemBox(m, k, b).height = Entries[m][k].height
<1>1. Offset(m)[k] \in Nat /\ Entries[m][k].height \in Nat
  BY HeightFacts
<1>2. b.x \in Int /\ b.y \in Int
  BY DEF Box
<1>3. QED
  BY <1>1, <1>2, Numbers DEF ItemBox, Box

LEMMA PlacedFacts ==
  ASSUME NEW c \in Call, c.menu \in Menus
  PROVE  /\ Placed(c) \in Box
         /\ Placed(c).width = MenuWidth
         /\ Placed(c).height = MenuHeight(c.menu)
         /\ Placed(c).x = IF RightAligned(c) THEN c.ref.x - 176
                                             ELSE c.ref.x + RefWidth(c.ref)
         /\ Placed(c).y = IF BottomAligned(c)
                            THEN c.ref.y + c.ref.height - MenuHeight(c.menu)
                            ELSE c.ref.y
<1>1. c.ref.x \in Int /\ c.ref.y \in Int /\ c.ref.width \in Nat /\ c.ref.height \in Nat
  BY DEF Call, Box
<1>2. MenuHeight(c.menu) \in Nat /\ RefWidth(c.ref) \in Int
  BY <1>1, HeightFacts, Numbers DEF RefWidth
<1>3. QED
  BY <1>1, <1>2, Numbers DEF Placed, Box

LEMMA LoopFacts ==
  ASSUME NEW c \in Call, c.menu \in Menus, NEW b \in Box
  PROVE  /\ Loop(c, b) \in Seq(Call)
         /\ Len(Loop(c, b)) = Len(Entries[c.menu])
         /\ \A k \in 1 .. Len(Entries[c.menu]) :
              /\ Loop(c, b)[k].menu = Entries[c.menu][k].submenu
              /\ Loop(c, b)[k].ref = ItemBox(c.menu, k, b)
<1> DEFINE n == Len(Entries[c.menu])
<1>1. n \in Nat /\ \A k \in 1 .. n : Entries[c.menu][k].submenu \in Menus \union {NoMenu}
  BY EntryFacts
<1>2. RightAligned(c) \in BOOLEAN /\ BottomAligned(c) \in BOOLEAN
  <2>1. \A p, q \in BOOLEAN : (IF c.right THEN p ELSE ~ q) \in BOOLEAN
    OBVIOUS
  <2>2. \A p, q \in BOOLEAN : (IF c.bottom THEN p ELSE ~ q) \in BOOLEAN
    OBVIOUS
  <2>3. /\ FitsLeft(c.ref) \in BOOLEAN /\ FitsRight(c.ref) \in BOOLEAN
        /\ FitsAbove(c.menu, c.ref) \in BOOLEAN /\ FitsBelow(c.menu, c.ref) \in BOOLEAN
    BY DEF FitsLeft, FitsRight, FitsAbove, FitsBelow
  <2>4. QED
    BY <2>1, <2>2, <2>3 DEF RightAligned, BottomAligned
<1>3. \A k \in 1 .. n : ItemBox(c.menu, k, b) \in Box
  BY ItemBoxFacts
<1>4. Loop(c, b) \in [1 .. n -> Call]
  BY <1>1, <1>2, <1>3 DEF Loop, Call
<1>5. Loop(c, b) \in Seq(Call)
  BY <1>1, <1>4, SeqDef
<1>6. Len(Loop(c, b)) = n
  BY <1>1, <1>4, <1>5
<1>7. QED
  BY <1>5, <1>6 DEF Loop

(* Which call of the loops is where, once the first is done and the loop   *)
(* of a menu is put before the others.                                     *)
LEMMA NextCalls ==
  ASSUME NEW s \in Seq(Call), s # << >>, NEW t \in Seq(Call)
  PROVE  /\ Head(s) = s[1] /\ Head(s) \in Call /\ 1 \in 1 .. Len(s)
         /\ Tail(s) \in Seq(Call) /\ t \o Tail(s) \in Seq(Call)
         /\ Len(s) \in Nat /\ Len(t) \in Nat
         /\ Len(Tail(s)) = Len(s) - 1
         /\ Len(t \o Tail(s)) = Len(t) + Len(s) - 1
         /\ \A i \in 1 .. Len(s) - 1 : Tail(s)[i] = s[i + 1]
         /\ \A i \in 1 .. Len(t) : (t \o Tail(s))[i] = t[i]
         /\ \A i \in Len(t) + 1 .. Len(t) + Len(s) - 1 : (t \o Tail(s))[i] = s[i - Len(t) + 1]
<1>1. /\ Len(s) \in Nat \ {0} /\ Len(t) \in Nat
      /\ s \in [1 .. Len(s) -> Call] /\ t \in [1 .. Len(t) -> Call]
  BY LenProperties, EmptySeq
<1>2. /\ Tail(s) \in Seq(Call) /\ Len(Tail(s)) = Len(s) - 1
      /\ \A i \in 1 .. Len(Tail(s)) : Tail(s)[i] = s[i + 1]
  BY HeadTailProperties
<1>3. Head(s) = s[1] /\ Head(s) \in Call
  BY <1>1
<1>4. /\ t \o Tail(s) \in Seq(Call)
      /\ Len(t \o Tail(s)) = Len(t) + Len(Tail(s))
      /\ \A k \in 1 .. Len(t) + Len(Tail(s)) :
           (t \o Tail(s))[k] = IF k <= Len(t) THEN t[k] ELSE Tail(s)[k - Len(t)]
  BY <1>2, ConcatProperties
<1>5. \A i \in 1 .. Len(t) : (t \o Tail(s))[i] = t[i]
  BY <1>1, <1>2, <1>4
<1>6. ASSUME NEW i \in Len(t) + 1 .. Len(t) + Len(s) - 1
      PROVE  (t \o Tail(s))[i] = s[i - Len(t) + 1]
  <2>1. /\ i \in 1 .. Len(t) + Len(Tail(s)) /\ ~ (i <= Len(t))
        /\ i - Len(t) \in 1 .. Len(Tail(s))
    BY <1>1, <1>2
  <2>2. QED
    BY <1>2, <1>4, <2>1
<1>7. QED
  BY <1>1, <1>2, <1>3, <1>4, <1>5, <1>6
-----------------------------------------------------------------------------
(* The invariant. *)

Wide(width) == width >= 2 * (MenuWidth - menu_overlap_x) + MENU_ITEM_WIDTH - 1
Tall(height) == \A m \in Menus : height >= 2 * MenuHeight(m) - 1

(* On a screen that is wide, or tall, enough: a box to align a menu to is  *)
(* on the screen, and so is a menu.                                        *)
Across(r) == 0 <= r.x /\ r.x + r.width <= on.width
Down(r) == 0 <= r.y /\ r.y + r.height <= on.height
OnScreen(r) == /\ Wide(on.width) => Across(r)
               /\ Tall(on.height) => Down(r)

SizesKept ==
  \A m \in Menus : IsPlaced(m) => /\ box[m].width = MenuWidth
                                  /\ box[m].height = MenuHeight(m)

(* Where the menus are says nothing of the next one: what has to be known  *)
(* is that the loops visit entries on the screen, and that the screen does *)
(* not change before they have ended.                                      *)
Inv ==
  /\ TypeOK
  /\ todo # << >> => screen = on
  /\ on = NoScreen => todo = << >> /\ \A m \in Menus : ~ IsPlaced(m)
  /\ SizesKept
  /\ \A i \in 1 .. Len(todo) : OnScreen(todo[i].ref)
  /\ \A m \in Menus : IsPlaced(m) => OnScreen(box[m])

(* The heart of it: whichever side is chosen, the menu fits, *)
LEMMA PlacedAcross ==
  ASSUME NEW c \in Call, c.menu \in Menus, c.ref.width \in {0, MENU_ITEM_WIDTH},
         Across(c.ref), Wide(on.width), screen = on, on.width \in Nat
  PROVE  Across(Placed(c))
<1> DEFINE W == on.width
           X == c.ref.x
           R == RefWidth(c.ref)
<1>1. /\ X \in Int /\ R \in Int /\ W \in Nat
      /\ 0 <= X
      /\ W >= 521
      /\ \/ R = 0 /\ X <= W
         \/ R = 174 /\ X + 170 <= W
  BY Numbers DEF Across, Wide, RefWidth, Call, Box
<1>2. /\ FitsRight(c.ref) <=> X + R + 172 <= W
      /\ FitsLeft(c.ref) <=> X - 176 >= 0
  BY <1>1, Numbers DEF FitsRight, FitsLeft
<1>3. /\ Placed(c).x = IF RightAligned(c) THEN X - 176 ELSE X + R
      /\ Placed(c).width = 172
  BY PlacedFacts, Numbers
<1> HIDE DEF W, X, R
<1>4. CASE RightAligned(c)
  <2>1. X >= 176
    BY <1>1, <1>2, <1>4 DEF RightAligned
  <2>2. QED
    BY <2>1, <1>1, <1>3, <1>4 DEF Across, W
<1>5. CASE ~ RightAligned(c)
  <2>1. X + R + 172 <= W
    BY <1>1, <1>2, <1>5 DEF RightAligned
  <2>2. QED
    BY <2>1, <1>1, <1>3, <1>5 DEF Across, W
<1>6. QED
  BY <1>4, <1>5

(* and so from top to bottom. *)
LEMMA PlacedDown ==
  ASSUME NEW c \in Call, c.menu \in Menus,
         Down(c.ref), Tall(on.height), screen = on, on.height \in Nat
  PROVE  Down(Placed(c))
<1> DEFINE S == on.height
           Y == c.ref.y
           R == c.ref.height
           H == MenuHeight(c.menu)
<1>1. /\ Y \in Int /\ R \in Nat /\ S \in Nat /\ H \in Nat
      /\ 0 <= Y /\ Y + R <= S /\ S >= 2 * H - 1
  BY HeightFacts DEF Down, Tall, Call, Box
<1>2. /\ FitsBelow(c.menu, c.ref) <=> Y + H <= S
      /\ FitsAbove(c.menu, c.ref) <=> Y + R - H >= 0
  BY DEF FitsBelow, FitsAbove
<1>3. /\ Placed(c).y = IF BottomAligned(c) THEN Y + R - H ELSE Y
      /\ Placed(c).height = H
  BY PlacedFacts
<1> HIDE DEF S, Y, R, H
<1>4. CASE BottomAligned(c)
  <2>1. Y + R - H >= 0
    BY <1>1, <1>2, <1>4 DEF BottomAligned
  <2>2. QED
    BY <2>1, <1>1, <1>3, <1>4 DEF Down, S
<1>5. CASE ~ BottomAligned(c)
  <2>1. Y + H <= S
    BY <1>1, <1>2, <1>5 DEF BottomAligned
  <2>2. QED
    BY <2>1, <1>1, <1>3, <1>5 DEF Down, S
<1>6. QED
  BY <1>4, <1>5

(* The entries of a menu on the screen are on the screen. *)
LEMMA ItemOnScreen ==
  ASSUME NEW m \in Menus, NEW k \in 1 .. Len(Entries[m]), NEW b \in Box,
         b.width = MenuWidth, b.height = MenuHeight(m), OnScreen(b),
         on.width \in Nat, on.height \in Nat
  PROVE  OnScreen(ItemBox(m, k, b))
<1> DEFINE i == ItemBox(m, k, b)
<1>1. /\ i.x = b.x + 1 /\ i.width = 170 /\ b.width = 172
      /\ i.y = b.y + 1 + Offset(m)[k] /\ i.height = Entries[m][k].height
      /\ b.x \in Int /\ b.y \in Int
  BY ItemBoxFacts, Numbers DEF Box
<1>2. /\ Offset(m)[k] \in Nat /\ Entries[m][k].height \in Nat
      /\ Offset(m)[k] + Entries[m][k].height <= get_menu_height(m)
      /\ b.height = get_menu_height(m) + 2 /\ get_menu_height(m) \in Nat
  BY HeightFacts
<1> HIDE DEF i
<1>3. Across(b) => Across(i)
  BY <1>1 DEF Across
<1>4. Down(b) => Down(i)
  <2> DEFINE o == Offset(m)[k]
             h == Entries[m][k].height
             g == get_menu_height(m)
             y == b.y
             top == i.y
  <2>1. /\ top = y + 1 + o /\ i.height = h /\ b.height = g + 2
        /\ o \in Nat /\ h \in Nat /\ g \in Nat /\ y \in Int /\ on.height \in Nat
        /\ o + h <= g
    BY <1>1, <1>2
  <2> HIDE DEF o, h, g, y, top
  <2>2. 0 <= y /\ y + b.height <= on.height => 0 <= top /\ top + i.height <= on.height
    BY <2>1
  <2>3. QED
    BY <2>2 DEF Down, y, top
<1>5. QED
  BY <1>3, <1>4 DEF OnScreen, i
-----------------------------------------------------------------------------
LEMMA InitInv == Init => Inv
<1> SUFFICES ASSUME Init PROVE Inv
  OBVIOUS
<1>1. todo \in Seq(Call) /\ Len(todo) = 0
  BY EmptySeq DEF Init
<1>2. \A m \in Menus : box[m] = Nowhere /\ Nowhere \in Box /\ Nowhere.width = 0
  <2>1. Nowhere \in Box /\ Nowhere.width = 0
    BY DEF Nowhere, Box
  <2>2. QED
    BY <2>1 DEF Init
<1>3. box \in [Menus -> Box]
  BY <1>2 DEF Init
<1>4. QED
  BY <1>1, <1>2, <1>3 DEF Init, Inv, TypeOK, IsPlaced, SizesKept

(* The pointer enters: the root menu is aligned to a point on the screen.  *)
LEMMA PositionInv ==
  ASSUME Inv, NEW p \in Pointers, process_initial_position(p)
  PROVE  Inv'
<1> DEFINE r == [x |-> p.x, y |-> p.y, width |-> 0, height |-> 0]
           c == [menu |-> Root, ref |-> r, right |-> FALSE, bottom |-> FALSE]
<1>1. /\ screen' = screen /\ on' = screen /\ box' = box /\ todo' = << c >>
      /\ on = NoScreen /\ screen \in Screens
      /\ p.x < screen.width /\ p.y < screen.height
  BY DEF process_initial_position, Inv, TypeOK
<1>2. p.x \in Nat /\ p.y \in Nat /\ screen.width \in Nat \ {0} /\ screen.height \in Nat
  BY <1>1, LayoutAssumption
<1>3. r \in Box /\ r.width = 0 /\ r.x = p.x /\ r.y = p.y /\ r.height = 0
  BY <1>2 DEF Box
<1>4. c \in Call /\ c.ref = r
  BY <1>3, LayoutAssumption DEF Call
<1> HIDE DEF r, c
<1>5. /\ todo' \in Seq(Call) /\ Len(todo') = 1
      /\ \A i \in 1 .. Len(todo') : todo'[i] = c
  BY <1>1, <1>4
<1>6. OnScreen(r)'
  BY <1>1, <1>2, <1>3 DEF OnScreen, Across, Down
<1>7. \A m \in Menus : ~ IsPlaced(m) /\ ~ IsPlaced(m)'
  BY <1>1 DEF Inv, IsPlaced
<1>8. on' # NoScreen
  BY <1>1, <1>2 DEF NoScreen
<1>9. TypeOK'
  BY <1>1, <1>3, <1>4, <1>5 DEF Inv, TypeOK
<1>10. (\A i \in 1 .. Len(todo) : OnScreen(todo[i].ref))'
  BY <1>4, <1>5, <1>6 DEF OnScreen, Across, Down
<1>11. QED
  BY <1>1, <1>7, <1>8, <1>9, <1>10 DEF Inv, SizesKept

(* A step of the loops, in other words. *)
LEMMA ConfigureStep ==
  ASSUME Inv, configure
  PROVE  LET c == Head(todo)
         IN  /\ c \in Call /\ c = todo[1] /\ 1 \in 1 .. Len(todo)
             /\ \/ c.menu = NoMenu /\ todo' = Tail(todo) /\ box' = box
                \/ /\ c.menu \in Menus
                   /\ todo' = Loop(c, Placed(c)) \o Tail(todo)
                   /\ \A m \in Menus : box'[m] = IF m = c.menu THEN Placed(c) ELSE box[m]
                   /\ box' \in [Menus -> Box]
<1>1. todo \in Seq(Call) /\ todo # << >> /\ box \in [Menus -> Box]
  BY DEF Inv, TypeOK, configure
<1> DEFINE c == Head(todo)
<1>2. c \in Call /\ c = todo[1] /\ 1 \in 1 .. Len(todo)
  BY <1>1, NextCalls
<1>3. c.menu \in Menus \union {NoMenu} /\ NoMenu \notin Menus
  BY <1>2, LayoutAssumption DEF Call
<1>4. CASE c.menu = NoMenu
  BY <1>2, <1>3, <1>4 DEF configure
<1>5. CASE c.menu \in Menus
  <2>1. Placed(c) \in Box
    BY <1>2, <1>5, PlacedFacts
  <2>2. /\ todo' = Loop(c, Placed(c)) \o Tail(todo)
        /\ box' = [box EXCEPT ![c.menu] = Placed(c)]
    BY <1>3, <1>5 DEF configure
  <2> HIDE DEF c
  <2>3. QED
    BY <1>1, <1>2, <1>5, <2>1, <2>2 DEF c
<1>6. QED
  BY <1>3, <1>4, <1>5

LEMMA ConfigureInv ==
  ASSUME Inv, configure
  PROVE  Inv'
<1> DEFINE c == Head(todo)
           b == Placed(c)
           Known(s) == \A i \in 1 .. Len(s) : /\ s[i].ref.width \in {0, MENU_ITEM_WIDTH}
                                              /\ OnScreen(s[i].ref)
<1>1. /\ todo # << >> /\ todo \in Seq(Call) /\ Known(todo) /\ SizesKept
      /\ screen' = screen /\ on' = on /\ screen = on /\ on # NoScreen
      /\ on \in Screens \union {NoScreen} /\ screen \in Screens \union {NoScreen}
      /\ on.width \in Nat /\ on.height \in Nat
      /\ \A m \in Menus : box[m].width \in {0, MenuWidth}
      /\ \A m \in Menus : IsPlaced(m) => OnScreen(box[m])
      /\ box \in [Menus -> Box]
  BY ScreenType DEF Inv, TypeOK, configure
<1>2. c \in Call /\ Known(<< c >>) /\ c.ref.width \in {0, MENU_ITEM_WIDTH} /\ OnScreen(c.ref)
  BY <1>1, ConfigureStep
<1>3. ASSUME todo' \in Seq(Call), Known(todo'), box' \in [Menus -> Box],
             \A m \in Menus : box'[m] = box[m] \/
               /\ OnScreen(box'[m]) /\ box'[m].width = MenuWidth
               /\ box'[m].height = MenuHeight(m)
      PROVE  Inv'
  <2>1. \A m \in Menus : box'[m].width \in {0, MenuWidth}
    BY <1>1, <1>3
  <2>2. TypeOK'
    BY <1>1, <1>3, <2>1 DEF TypeOK
  <2>3. SizesKept'
    BY <1>1, <1>3 DEF SizesKept, IsPlaced
  <2>4. \A r : OnScreen(r)' <=> OnScreen(r)
    BY <1>1 DEF OnScreen, Across, Down
  <2>5. \A m \in Menus : IsPlaced(m)' => OnScreen(box'[m])
    BY <1>1, <1>3 DEF IsPlaced
  <2>6. QED
    BY <1>1, <1>3, <2>2, <2>3, <2>5 DEF Inv, OnScreen, Across, Down
<1>4. CASE c.menu = NoMenu
  <2>1. todo' = Tail(todo) /\ box' = box
    BY <1>4, ConfigureStep, LayoutAssumption
  <2>2. todo' \in Seq(Call) /\ Known(todo')
    <3>1. Tail(todo) \in Seq(Call) /\ Len(Tail(todo)) = Len(todo) - 1 /\ Len(todo) \in Nat
          /\ \A i \in 1 .. Len(todo) - 1 : Tail(todo)[i] = todo[i + 1]
      BY <1>1, NextCalls
    <3>2. \A i \in 1 .. Len(todo) - 1 : i + 1 \in 1 .. Len(todo)
      BY <3>1
    <3>3. QED
      BY <1>1, <2>1, <3>1, <3>2
  <2>3. QED
    BY <1>1, <1>3, <2>1, <2>2
<1>5. CASE c.menu \in Menus
  <2>1. /\ todo' = Loop(c, b) \o Tail(todo)
        /\ \A m \in Menus : box'[m] = IF m = c.menu THEN b ELSE box[m]
        /\ box' \in [Menus -> Box]
    BY <1>5, ConfigureStep, LayoutAssumption
  <2>2. b \in Box /\ b.width = MenuWidth /\ b.height = MenuHeight(c.menu)
    BY <1>2, <1>5, PlacedFacts
  <2>3. OnScreen(b)
    BY <1>1, <1>2, <1>5, PlacedAcross, PlacedDown DEF OnScreen
  <2> HIDE DEF b, c
  <2> DEFINE t == Loop(c, b)
  <2>4. /\ t \in Seq(Call) /\ Len(t) = Len(Entries[c.menu]) /\ Len(t) \in Nat
        /\ \A k \in 1 .. Len(t) : t[k].ref = ItemBox(c.menu, k, b)
    BY <1>2, <1>5, <2>2, LoopFacts, EntryFacts
  <2>5. Known(t)
    <3>1. \A k \in 1 .. Len(Entries[c.menu]) :
            ItemBox(c.menu, k, b).width = MENU_ITEM_WIDTH /\ OnScreen(ItemBox(c.menu, k, b))
      BY <1>1, <1>5, <2>2, <2>3, ItemOnScreen, ItemBoxFacts
    <3>2. QED
      BY <2>4, <3>1
  <2> HIDE DEF t
  <2>6. todo' \in Seq(Call) /\ Known(todo')
    <3> DEFINE u == t \o Tail(todo)
    <3>1. /\ u \in Seq(Call) /\ Len(u) = Len(t) + Len(todo) - 1 /\ Len(todo) \in Nat
          /\ \A i \in 1 .. Len(t) : u[i] = t[i]
          /\ \A i \in Len(t) + 1 .. Len(t) + Len(todo) - 1 : u[i] = todo[i - Len(t) + 1]
      BY <1>1, <2>4, NextCalls
    <3>2. todo' = u
      BY <2>1 DEF t
    <3> HIDE DEF u
    <3>3. ASSUME NEW i \in 1 .. Len(u)
          PROVE  \/ i \in 1 .. Len(t) /\ u[i] = t[i]
                 \/ i - Len(t) + 1 \in 1 .. Len(todo) /\ u[i] = todo[i - Len(t) + 1]
      <4> DEFINE a == Len(t)
                 z == Len(todo)
      <4>1. a \in Nat /\ z \in Nat /\ i \in 1 .. a + z - 1
        BY <2>4, <3>1
      <4> HIDE DEF a, z
      <4>2. i \in 1 .. a \/ (i \in a + 1 .. a + z - 1 /\ i - a + 1 \in 1 .. z)
        BY <4>1
      <4>3. QED
        BY <3>1, <4>2 DEF a, z
    <3>4. Known(u)
      BY <1>1, <2>5, <3>3
    <3>5. QED
      BY <3>1, <3>2, <3>4
  <2>7. QED
    BY <1>3, <2>1, <2>2, <2>3, <2>6
<1>6. QED
  BY <1>4, <1>5, ConfigureStep

(* A change of the size of the surface does not concern the menus any more.*)
LEMMA ResizeInv ==
  ASSUME Inv, NEW s \in Screens, layer_surface_configure(s)
  PROVE  Inv'
BY DEF Inv, TypeOK, layer_surface_configure, IsPlaced, SizesKept, OnScreen, Across, Down

LEMMA NextInv == Inv /\ [Next]_vars => Inv'
<1>1. Inv /\ UNCHANGED vars => Inv'
  BY DEF Inv, TypeOK, vars, IsPlaced, SizesKept, OnScreen, Across, Down
<1>2. QED
  BY <1>1, PositionInv, ConfigureInv, ResizeInv DEF Next

LEMMA InvAlways == Spec => []Inv
BY InitInv, NextInv, PTL DEF Spec

(* The types of boxes and calls: a menu has no width, or that of a menu.   *)
THEOREM TypeCorrect == Spec => []TypeOK
BY InvAlways, PTL DEF Inv

(* On a screen of 521 pixels or more no menu ever leaves the screen on the *)
(* left or on the right, for every tree of menus, however deep, and every  *)
(* position of the pointer, although configure does not test the side that *)
(* it flips to.                                                            *)
THEOREM NeverOffTheSide == Spec => []FitsAcross
<1>1. Inv => FitsAcross
  BY DEF Inv, FitsAcross, Wide, Across, OnScreen, SizesKept
<1>2. QED
  BY <1>1, InvAlways, PTL

(* On a screen with room for the tallest menu above and below any point no *)
(* menu leaves it at the top or at the bottom, either.                     *)
THEOREM NeverOverTheEdge == Spec => []FitsDown
<1>1. Inv => FitsDown
  BY DEF Inv, FitsDown, Tall, Down, OnScreen
<1>2. QED
  BY <1>1, InvAlways, PTL

(* Whatever the heights of the entries are, they lie in the box of their   *)
(* menu and no two overlap: the hit tests find one entry at most.          *)
THEOREM EntriesApart == Spec => []HitTestsAgree
<1>1. ASSUME Inv PROVE HitTestsAgree
  <2> SUFFICES ASSUME NEW m \in Menus, IsPlaced(m), NEW k \in 1 .. Len(Entries[m])
               PROVE  LET b == ItemBox(m, k, box[m])
                      IN  /\ Contains(box[m], b.x, b.y)
                          /\ Contains(box[m], b.x + b.width - 1, b.y + b.height - 1)
                          /\ \A j \in 1 .. k - 1 : LET a == ItemBox(m, j, box[m])
                                                   IN  a.y + a.height <= b.y
    BY DEF HitTestsAgree
  <2>1. box[m] \in Box /\ box[m].width = 172 /\ box[m].height = get_menu_height(m) + 2
    BY <1>1, Numbers, HeightFacts DEF Inv, TypeOK, SizesKept
  <2>2. box[m].x \in Int /\ box[m].y \in Int
    BY <2>1 DEF Box
  <2>3. /\ Offset(m)[k] \in Nat /\ Entries[m][k].height \in Nat \ {0}
        /\ Offset(m)[k] + Entries[m][k].height <= get_menu_height(m)
        /\ get_menu_height(m) \in Nat
    BY HeightFacts
  <2> DEFINE b == ItemBox(m, k, box[m])
  <2>4. /\ b.x = box[m].x + 1 /\ b.width = 170
        /\ b.y = box[m].y + 1 + Offset(m)[k] /\ b.height = Entries[m][k].height
    BY <2>1, ItemBoxFacts, Numbers
  <2> HIDE DEF b
  <2> DEFINE o == Offset(m)[k]
             h == Entries[m][k].height
             g == get_menu_height(m)
             x == box[m].x
             y == box[m].y
  <2>5. /\ Contains(box[m], b.x, b.y)
        /\ Contains(box[m], b.x + b.width - 1, b.y + b.height - 1)
    <3>1. /\ x \in Int /\ y \in Int /\ o \in Nat /\ h \in Nat \ {0} /\ g \in Nat /\ o + h <= g
          /\ b.x = x + 1 /\ b.y = y + 1 + o /\ b.width = 170 /\ b.height = h
      BY <2>2, <2>3, <2>4
    <3> HIDE DEF o, h, g, x, y
    <3>2. /\ x <= x + 1 /\ x + 1 + 170 - 1 < x + 172
          /\ y <= y + 1 + o /\ y + 1 + o + h - 1 < y + (g + 2)
          /\ x + 1 < x + 172 /\ x <= x + 1 + 170 - 1
          /\ y + 1 + o < y + (g + 2) /\ y <= y + 1 + o + h - 1
      BY <3>1
    <3>3. box[m].x = x /\ box[m].y = y /\ box[m].height = g + 2
      BY <2>1 DEF x, y, g
    <3>4. QED
      BY <2>1, <3>1, <3>2, <3>3 DEF Contains
  <2>6. ASSUME NEW j \in 1 .. k - 1
        PROVE  ItemBox(m, j, box[m]).y + ItemBox(m, j, box[m]).height <= b.y
    <3>1. j \in 1 .. Len(Entries[m])
      BY EntryFacts
    <3>2. /\ Offset(m)[j] \in Nat /\ Entries[m][j].height \in Nat
          /\ Offset(m)[j] + Entries[m][j].height <= Offset(m)[k]
      BY <3>1, HeightFacts
    <3>3. /\ ItemBox(m, j, box[m]).y = box[m].y + 1 + Offset(m)[j]
          /\ ItemBox(m, j, box[m]).height = Entries[m][j].height
      BY <2>1, <3>1, ItemBoxFacts
    <3> DEFINE oj == Offset(m)[j]
               hj == Entries[m][j].height
    <3>4. o \in Nat /\ oj \in Nat /\ hj \in Nat /\ y \in Int /\ oj + hj <= o
      BY <2>2, <2>3, <3>2
    <3> HIDE DEF o, y, oj, hj
    <3>5. (y + 1 + oj) + hj <= y + 1 + o
      BY <3>4
    <3>6. QED
      BY <2>4, <3>3, <3>5 DEF o, y, oj, hj
  <2>7. QED
    BY <2>5, <2>6 DEF b
<1>2. QED
  BY <1>1, InvAlways, PTL
-----------------------------------------------------------------------------
(* Beside the item. *)

(* Each call that is still to be made is for an entry of a menu that is    *)
(* placed, and will not be placed again before it: the calls before it are *)
(* for deeper menus.  (Only the root menu is placed without an entry.)     *)
OwnedBy(n, k, i, depth) ==
  /\ n \in Menus /\ k \in 1 .. Len(Entries[n]) /\ IsPlaced(n)
  /\ todo[i].menu = Entries[n][k].submenu
  /\ todo[i].ref = ItemBox(n, k, box[n])
  /\ \A j \in 1 .. i : todo[j].menu # NoMenu => depth[n] < depth[todo[j].menu]

Owned(i, depth) ==
  \/ \E n, k : OwnedBy(n, k, i, depth)
  \/ todo[i].menu = Root

BesideEntry(m, n, k) ==
  /\ n \in Menus /\ k \in 1 .. Len(Entries[n])
  /\ Entries[n][k].submenu = m
  /\ Beside(m, n, k)

BesideOne(m) ==
  \/ \E n, k : BesideEntry(m, n, k)
  \/ \E i \in 1 .. Len(todo) : todo[i].menu = m

BesideInv(depth) ==
  /\ \A i \in 1 .. Len(todo) : Owned(i, depth)
  /\ \A m \in Menus \ {Root} : IsPlaced(m) => BesideOne(m)

(* A menu is placed beside the entry that it is placed for. *)
LEMMA PlacedBeside ==
  ASSUME Inv, NEW c \in Call, c.menu \in Menus, NEW n \in Menus, IsPlaced(n),
         NEW k \in 1 .. Len(Entries[n]), c.ref = ItemBox(n, k, box[n]),
         box'[n] = box[n], box'[c.menu] = Placed(c)
  PROVE  Beside(c.menu, n, k)'
<1> DEFINE i == ItemBox(n, k, box[n])
           b == Placed(c)
           H == MenuHeight(c.menu)
<1>1. box[n] \in Box /\ box[n].width = 172
  BY Numbers DEF Inv, TypeOK, SizesKept
<1>2. box[n].x \in Int /\ i.y \in Int /\ i.height \in Nat
  BY <1>1, ItemBoxFacts DEF Box
<1>3. i.x = box[n].x + 1 /\ i.width = 170
  BY <1>1, ItemBoxFacts, Numbers
<1>4. RefWidth(i) = 174
  BY <1>3, Numbers DEF RefWidth
<1>5. /\ b.width = 172 /\ b.height = H /\ H \in Nat
      /\ b.x = IF RightAligned(c) THEN i.x - 176 ELSE i.x + 174
      /\ b.y = IF BottomAligned(c) THEN i.y + i.height - H ELSE i.y
  BY <1>4, PlacedFacts, HeightFacts, Numbers
<1> HIDE DEF i, b, H
<1>6. b.x + b.width <= box[n].x \/ box[n].x + box[n].width <= b.x
  BY <1>1, <1>2, <1>3, <1>5
<1>7. b.y = i.y \/ b.y + b.height = i.y + i.height
  BY <1>2, <1>5
<1>8. ItemBox(n, k, box[n])' = i
  BY DEF i, ItemBox
<1>9. QED
  BY <1>6, <1>7, <1>8 DEF Beside, b

LEMMA BesideConfigure ==
  ASSUME NEW depth \in [Menus -> Nat], Deeper(depth),
         Inv, BesideInv(depth), configure
  PROVE  BesideInv(depth)'
<1> PICK c, z : c = Head(todo) /\ z = Len(todo)
  OBVIOUS
<1>1. /\ todo \in Seq(Call) /\ todo # << >> /\ box \in [Menus -> Box] /\ NoMenu \notin Menus
      /\ z \in Nat /\ 1 \in 1 .. z /\ c = todo[1] /\ c \in Call
  BY NextCalls, LayoutAssumption DEF Inv, TypeOK, configure
<1>2. CASE c.menu = NoMenu
  <2>1. todo' = Tail(todo) /\ box' = box
    BY <1>1, <1>2, ConfigureStep
  <2>2. Len(todo') = z - 1 /\ \A i \in 1 .. z - 1 : todo'[i] = todo[i + 1]
    BY <1>1, <2>1, NextCalls
  <2>3. ASSUME NEW i \in 1 .. z - 1 PROVE Owned(i, depth)'
    <3>1. i \in Nat /\ i + 1 \in 1 .. z /\ todo'[i] = todo[i + 1]
      BY <1>1, <2>2
    <3>2. Owned(i + 1, depth)
      BY <3>1 DEF BesideInv
    <3>3. ASSUME NEW n, NEW k, OwnedBy(n, k, i + 1, depth) PROVE OwnedBy(n, k, i, depth)'
      <4>1. ASSUME NEW j \in 1 .. i, todo'[j].menu # NoMenu
            PROVE  depth[n] < depth[todo'[j].menu]
        <5>1. j + 1 \in 1 .. i + 1 /\ j \in 1 .. z - 1
          BY <1>1, <3>1
        <5>2. QED
          BY <2>2, <3>3, <4>1, <5>1 DEF OwnedBy
      <4>2. IsPlaced(n)' <=> IsPlaced(n)
        BY <2>1 DEF IsPlaced
      <4>3. QED
        BY <2>1, <3>1, <3>3, <4>1, <4>2 DEF OwnedBy
    <3>4. QED
      BY <3>1, <3>2, <3>3 DEF Owned
  <2>4. ASSUME NEW m \in Menus \ {Root}, IsPlaced(m)' PROVE BesideOne(m)'
    <3>1. BesideOne(m)
      BY <2>1, <2>4 DEF BesideInv, IsPlaced
    <3>2. ASSUME NEW n, NEW k, BesideEntry(m, n, k) PROVE BesideEntry(m, n, k)'
      BY <2>1, <3>2 DEF BesideEntry, Beside
    <3>3. ASSUME NEW i \in 1 .. z, todo[i].menu = m
          PROVE  \E j \in 1 .. z - 1 : todo'[j].menu = m
      <4>1. i # 1
        BY <1>1, <1>2, <3>3
      <4>2. i - 1 \in 1 .. z - 1 /\ (i - 1) + 1 = i
        BY <1>1, <4>1
      <4>3. QED
        BY <2>2, <3>3, <4>2
    <3>4. QED
      BY <2>2, <3>1, <3>2, <3>3 DEF BesideOne
  <2>5. QED
    BY <2>2, <2>3, <2>4 DEF BesideInv
<1>3. CASE c.menu \in Menus
  <2> PICK m0, b, t, L : m0 = c.menu /\ b = Placed(c) /\ t = Loop(c, b) /\ L = Len(t)
    OBVIOUS
  <2>1. /\ todo' = t \o Tail(todo)
        /\ \A m \in Menus : box'[m] = IF m = m0 THEN b ELSE box[m]
    BY <1>1, <1>3, ConfigureStep
  <2>2. b \in Box /\ b.width = 172
    BY <1>1, <1>3, PlacedFacts, Numbers
  <2>3. /\ t \in Seq(Call) /\ L = Len(Entries[m0]) /\ L \in Nat
        /\ \A k \in 1 .. L : /\ t[k].menu = Entries[m0][k].submenu
                             /\ t[k].ref = ItemBox(m0, k, b)
    BY <1>1, <1>3, <2>2, LoopFacts, EntryFacts
  <2>4. /\ Len(todo') = L + z - 1
        /\ \A i \in 1 .. L : todo'[i] = t[i]
        /\ \A i \in L + 1 .. L + z - 1 : todo'[i] = todo[i - L + 1]
    BY <1>1, <2>1, <2>3, NextCalls
  <2>5. m0 \in Menus /\ box'[m0] = b
    BY <1>3, <2>1
  <2>6. \A k \in 1 .. L : todo'[k].menu # NoMenu =>
                            todo'[k].menu \in Menus /\ depth[m0] < depth[todo'[k].menu]
    BY <2>3, <2>4, <2>5, EntryFacts DEF Deeper
  <2>7. ASSUME NEW i \in 1 .. z, NEW n, NEW k, OwnedBy(n, k, i, depth)
        PROVE  n # m0 /\ box'[n] = box[n] /\ n \in Menus /\ depth[n] < depth[m0]
    <3>1. depth[n] < depth[m0] /\ n \in Menus
      <4>1. 1 \in 1 .. i
        BY <1>1
      <4>2. QED
        BY <1>1, <1>3, <2>7, <4>1 DEF OwnedBy
    <3>2. n # m0
      <4>1. depth[n] \in Nat
        BY <3>1
      <4>2. QED
        BY <3>1, <4>1
    <3>3. QED
      BY <2>1, <3>1, <3>2
  <2>8. ASSUME NEW i \in 1 .. L PROVE Owned(i, depth)'
    <3>1. OwnedBy(m0, i, i, depth)'
      <4>1. IsPlaced(m0)'
        BY <2>2, <2>5 DEF IsPlaced
      <4>2. todo'[i].menu = Entries[m0][i].submenu /\ todo'[i].ref = ItemBox(m0, i, b)
        BY <2>3, <2>4
      <4>3. \A j \in 1 .. i : j \in 1 .. L
        BY <2>3
      <4>4. ItemBox(m0, i, box[m0])' = ItemBox(m0, i, b)
        BY <2>5 DEF ItemBox
      <4>5. QED
        BY <2>3, <2>5, <2>6, <4>1, <4>2, <4>3, <4>4 DEF OwnedBy
    <3>2. QED
      BY <3>1 DEF Owned
  <2>9. ASSUME NEW i \in L + 1 .. L + z - 1 PROVE Owned(i, depth)'
    <3> PICK i0 : i0 = i - L + 1
      OBVIOUS
    <3>1. i0 \in 1 .. z /\ todo'[i] = todo[i0] /\ i \in Nat
      <4>1. L \in Nat /\ z \in Nat
        BY <1>1, <2>3
      <4>2. i0 \in 1 .. z /\ i \in Nat
        BY <4>1
      <4>3. QED
        BY <2>4, <4>2
    <3>2. Owned(i0, depth)
      BY <3>1 DEF BesideInv
    <3>3. ASSUME NEW n, NEW k, OwnedBy(n, k, i0, depth) PROVE OwnedBy(n, k, i, depth)'
      <4>1. n # m0 /\ box'[n] = box[n] /\ n \in Menus /\ depth[n] < depth[m0]
        BY <2>7, <3>1, <3>3
      <4>2. ASSUME NEW j \in 1 .. i, todo'[j].menu # NoMenu
            PROVE  depth[n] < depth[todo'[j].menu]
        <5>1. CASE j \in 1 .. L
          <6>1. /\ todo'[j].menu \in Menus /\ depth[m0] < depth[todo'[j].menu]
            BY <2>6, <4>2, <5>1
          <6>2. depth[n] \in Nat /\ depth[m0] \in Nat /\ depth[todo'[j].menu] \in Nat
            BY <2>5, <4>1, <6>1
          <6>3. QED
            BY <4>1, <6>1, <6>2
        <5>2. CASE j \notin 1 .. L
          <6>1. j \in L + 1 .. L + z - 1 /\ j - L + 1 \in 1 .. i0
            BY <1>1, <2>3, <3>1, <5>2
          <6>2. todo'[j] = todo[j - L + 1]
            BY <2>4, <6>1
          <6>3. QED
            BY <3>3, <4>2, <6>1, <6>2 DEF OwnedBy
        <5>3. QED
          BY <5>1, <5>2
      <4>3. IsPlaced(n)'
        BY <3>3, <4>1 DEF OwnedBy, IsPlaced
      <4>4. todo'[i].ref = ItemBox(n, k, box[n])'
        BY <3>1, <3>3, <4>1 DEF OwnedBy, ItemBox
      <4>5. QED
        BY <3>1, <3>3, <4>1, <4>2, <4>3, <4>4 DEF OwnedBy
    <3>4. QED
      BY <3>1, <3>2, <3>3 DEF Owned
  <2>10. ASSUME NEW m \in Menus \ {Root}, IsPlaced(m)' PROVE BesideOne(m)'
    <3>1. CASE m = m0
      <4>1. Owned(1, depth) /\ todo[1].menu # Root
        BY <1>1, <2>10, <3>1 DEF BesideInv
      <4>2. PICK n, k : OwnedBy(n, k, 1, depth)
        BY <4>1 DEF Owned
      <4>3. box'[n] = box[n]
        BY <1>1, <2>7, <4>2
      <4>4. Beside(m0, n, k)'
        <5>1. /\ c.ref = ItemBox(n, k, box[n]) /\ n \in Menus /\ IsPlaced(n)
              /\ k \in 1 .. Len(Entries[n])
          BY <1>1, <4>2 DEF OwnedBy
        <5>2. box'[c.menu] = Placed(c)
          BY <2>5
        <5>3. QED
          BY <1>1, <1>3, <4>3, <5>1, <5>2, PlacedBeside
      <4>5. BesideEntry(m, n, k)'
        BY <1>1, <3>1, <4>2, <4>4 DEF BesideEntry, OwnedBy
      <4>6. QED
        BY <4>5 DEF BesideOne
    <3>2. CASE m # m0
      <4>1. box'[m] = box[m] /\ BesideOne(m)
        BY <2>1, <2>10, <3>2 DEF BesideInv, IsPlaced
      <4>2. ASSUME NEW n, NEW k, BesideEntry(m, n, k) PROVE BesideOne(m)'
        <5>1. CASE n = m0
          <6>1. k \in 1 .. L /\ todo'[k].menu = m
            BY <2>3, <2>4, <4>2, <5>1 DEF BesideEntry
          <6>2. k \in 1 .. Len(todo')
            BY <1>1, <2>3, <2>4, <6>1
          <6>3. QED
            BY <6>1, <6>2 DEF BesideOne
        <5>2. CASE n # m0
          <6>1. box'[n] = box[n]
            BY <2>1, <4>2, <5>2 DEF BesideEntry
          <6>2. BesideEntry(m, n, k)'
            BY <4>1, <4>2, <6>1 DEF BesideEntry, Beside, ItemBox
          <6>3. QED
            BY <6>2 DEF BesideOne
        <5>3. QED
          BY <5>1, <5>2
      <4>3. ASSUME NEW i \in 1 .. z, todo[i].menu = m PROVE BesideOne(m)'
        <5>1. i # 1
          BY <1>1, <3>2, <4>3
        <5> DEFINE j == L + i - 1
        <5>2. j \in L + 1 .. L + z - 1 /\ j - L + 1 = i /\ j \in 1 .. L + z - 1
          BY <1>1, <2>3, <5>1
        <5>3. todo'[j].menu = m
          <6>1. todo'[j] = todo[j - L + 1]
            BY <2>4, <5>2
          <6>2. QED
            BY <4>3, <5>2, <6>1
        <5>4. QED
          BY <2>4, <5>2, <5>3 DEF BesideOne
      <4>4. QED
        BY <4>1, <4>2, <4>3 DEF BesideOne
    <3>3. QED
      BY <3>1, <3>2
  <2>11. \A i \in 1 .. Len(todo') : i \in 1 .. L \/ i \in L + 1 .. L + z - 1
    BY <1>1, <2>3, <2>4
  <2>12. QED
    BY <2>8, <2>9, <2>10, <2>11 DEF BesideInv
<1>4. QED
  BY <1>2, <1>3, ConfigureStep

(* When the loops have ended each submenu stands beside the item that      *)
(* opens it and covers nothing of its menu, also if another reference has  *)
(* had it placed elsewhere before.  Nothing is assumed but that the menus  *)
(* have no cycle.                                                          *)
THEOREM SubmenuBesideItem ==
  ASSUME NEW depth \in [Menus -> Nat], Deeper(depth)
  PROVE  Spec => []BesideOpener
<1>1. Init => BesideInv(depth)
  <2>1. ASSUME Init PROVE Len(todo) = 0 /\ \A m \in Menus : ~ IsPlaced(m)
    BY <2>1, InitInv DEF Inv, Init
  <2>2. QED
    BY <2>1 DEF BesideInv
<1>2. Inv /\ BesideInv(depth) /\ [Next]_vars => BesideInv(depth)'
  <2> SUFFICES ASSUME Inv, BesideInv(depth), [Next]_vars PROVE BesideInv(depth)'
    OBVIOUS
  <2>1. ASSUME NEW p \in Pointers, process_initial_position(p) PROVE BesideInv(depth)'
    <3>1. /\ on = NoScreen /\ box' = box
          /\ Len(todo') = 1 /\ todo'[1].menu = Root
      BY <2>1 DEF process_initial_position
    <3>2. \A m \in Menus : ~ IsPlaced(m)'
      BY <3>1 DEF Inv, IsPlaced
    <3>3. \A i \in 1 .. Len(todo') : todo'[i].menu = Root
      BY <3>1
    <3>4. (\A i \in 1 .. Len(todo) : Owned(i, depth))'
      BY <3>3 DEF Owned
    <3>5. QED
      BY <3>2, <3>4 DEF BesideInv
  <2>2. CASE UNCHANGED << box, todo >>
    BY <2>2 DEF BesideInv, Owned, OwnedBy, BesideOne, BesideEntry, Beside, IsPlaced
  <2>3. QED
    BY <2>1, <2>2, BesideConfigure DEF Next, layer_surface_configure, vars
<1>3. BesideInv(depth) => BesideOpener
  BY DEF BesideInv, BesideOne, BesideEntry, BesideOpener
<1>4. QED
  BY <1>1, <1>2, <1>3, InvAlways, PTL DEF Spec
=============================================================================

--------------------------- MODULE MenuFile_proofs ---------------------------
(***************************************************************************)
(* Proofs about MenuFile: for every document, and wherever realloc puts    *)
(* the vector.                                                             *)
(***************************************************************************)
EXTENDS MenuFile, Extrema, SequenceTheorems

-----------------------------------------------------------------------------
(* Vectors.  The vector v may get an entry in the menu p, or a menu more.  *)

Added(v, p, e) == [v EXCEPT ![p].entries = Append(@, e)]

(* Entry k of menu a has the pointer s, and opens menu m.                  *)
Leads(v, a, k, s) ==
  /\ a \in 1 .. Len(v) /\ k \in 1 .. Len(v[a].entries)
  /\ v[a].entries[k].submenu = s

Opens(v, a, k, m) == \E s : Leads(v, a, k, s) /\ s[2] = m

LEMMA VectorTyped ==
  ASSUME NEW v \in Seq(Menu), NEW a \in 1 .. Len(v)
  PROVE  /\ v[a] \in Menu /\ v[a].entries \in Seq(Entry)
         /\ Len(v[a].entries) \in Nat /\ v[a].parent \in Pointer /\ v[a].head \in Nat
         /\ \A k \in 1 .. Len(v[a].entries) :
              /\ v[a].entries[k] \in Entry
              /\ v[a].entries[k].submenu \in Pointer
              /\ v[a].entries[k].submenu[2] \in Nat
<1>1. v[a] \in Menu
  OBVIOUS
<1>2. v[a].entries \in Seq(Entry) /\ v[a].parent \in Pointer /\ v[a].head \in Nat
  BY <1>1 DEF Menu
<1>3. ASSUME NEW k \in 1 .. Len(v[a].entries)
      PROVE  /\ v[a].entries[k] \in Entry
             /\ v[a].entries[k].submenu \in Pointer
             /\ v[a].entries[k].submenu[2] \in Nat
  <2>1. v[a].entries[k] \in Entry
    BY <1>2
  <2>2. QED
    BY <2>1 DEF Entry, Pointer
<1>4. QED
  BY <1>1, <1>2, <1>3

LEMMA AddedVector ==
  ASSUME NEW v \in Seq(Menu), NEW p \in 1 .. Len(v), NEW e \in Entry
  PROVE  LET w == Added(v, p, e)
             n == Len(v[p].entries) + 1
         IN  /\ w \in Seq(Menu) /\ Len(w) = Len(v)
             /\ \A m \in 1 .. Len(v) : /\ w[m].id = v[m].id /\ w[m].head = v[m].head
                                       /\ w[m].parent = v[m].parent
             /\ \A m \in 1 .. Len(v) : m # p => w[m] = v[m]
             /\ Len(w[p].entries) = n /\ w[p].entries[n] = e
             /\ \A k \in 1 .. n - 1 : w[p].entries[k] = v[p].entries[k]
<1> DEFINE w == Added(v, p, e)
           s == Append(v[p].entries, e)
<1>1. v[p] \in Menu /\ v[p].entries \in Seq(Entry)
  BY VectorTyped
<1>2. s \in Seq(Entry) /\ Len(s) = Len(v[p].entries) + 1 /\ s[Len(v[p].entries) + 1] = e
      /\ \A k \in 1 .. Len(v[p].entries) : s[k] = v[p].entries[k]
  BY <1>1
<1> HIDE DEF s
<1>3. [v[p] EXCEPT !.entries = s] \in Menu
  BY <1>1, <1>2 DEF Menu
<1>4. w = [v EXCEPT ![p] = [v[p] EXCEPT !.entries = s]]
  BY DEF Added, s
<1>5. w \in Seq(Menu) /\ Len(w) = Len(v)
      /\ (\A m \in 1 .. Len(v) : m # p => w[m] = v[m])
      /\ w[p] = [v[p] EXCEPT !.entries = s]
  BY <1>3, <1>4
<1>6. w[p].entries = s /\ w[p].id = v[p].id /\ w[p].head = v[p].head
      /\ w[p].parent = v[p].parent
  BY <1>1, <1>5 DEF Menu
<1> HIDE DEF w
<1>7. \A m \in 1 .. Len(v) : w[m].id = v[m].id /\ w[m].head = v[m].head
                             /\ w[m].parent = v[m].parent
  BY <1>5, <1>6
<1>8. /\ Len(w[p].entries) = Len(v[p].entries) + 1
      /\ w[p].entries[Len(v[p].entries) + 1] = e
      /\ \A k \in 1 .. Len(v[p].entries) : w[p].entries[k] = v[p].entries[k]
  BY <1>2, <1>6
<1>9. (Len(v[p].entries) + 1) - 1 = Len(v[p].entries)
  BY VectorTyped
<1>10. QED
  BY <1>5, <1>7, <1>8, <1>9 DEF w

LEMMA AppendedVector ==
  ASSUME NEW v \in Seq(Menu), NEW new \in Menu
  PROVE  LET w == Append(v, new)
         IN  /\ w \in Seq(Menu) /\ Len(w) = Len(v) + 1 /\ Len(v) \in Nat
             /\ \A m \in 1 .. Len(v) : w[m] = v[m]
             /\ w[Len(v) + 1] = new
OBVIOUS

(* What opens what, afterwards. *)
LEMMA LeadsAdded ==
  ASSUME NEW v \in Seq(Menu), NEW p \in 1 .. Len(v), NEW e \in Entry,
         NEW a, NEW k, NEW s
  PROVE  Leads(Added(v, p, e), a, k, s) <=>
           \/ Leads(v, a, k, s)
           \/ a = p /\ k = Len(v[p].entries) + 1 /\ e.submenu = s
<1> DEFINE w == Added(v, p, e)
           n == Len(v[p].entries)
<1>1. /\ Len(w) = Len(v) /\ Len(w[p].entries) = n + 1 /\ w[p].entries[n + 1] = e
      /\ \A x \in 1 .. Len(v) : x # p => w[x] = v[x]
      /\ \A x \in 1 .. n : w[p].entries[x] = v[p].entries[x]
  BY AddedVector
<1>2. n \in Nat
  BY VectorTyped
<1> HIDE DEF w
<1>3. CASE a # p
  BY <1>1, <1>3 DEF Leads, w
<1>4. CASE a = p
  <2>1. k \in 1 .. n + 1 <=> k \in 1 .. n \/ k = n + 1
    BY <1>2
  <2>2. n + 1 \notin 1 .. n
    BY <1>2
  <2>3. QED
    BY <1>1, <1>4, <2>1, <2>2 DEF Leads, w
<1>5. QED
  BY <1>3, <1>4

LEMMA OpensAdded ==
  ASSUME NEW v \in Seq(Menu), NEW p \in 1 .. Len(v), NEW e \in Entry,
         NEW a, NEW k, NEW m
  PROVE  Opens(Added(v, p, e), a, k, m) <=>
           \/ Opens(v, a, k, m)
           \/ a = p /\ k = Len(v[p].entries) + 1 /\ e.submenu[2] = m
BY LeadsAdded DEF Opens

LEMMA LeadsAppended ==
  ASSUME NEW v \in Seq(Menu), NEW new \in Menu, new.entries = << >>,
         NEW a, NEW k, NEW s
  PROVE  Leads(Append(v, new), a, k, s) <=> Leads(v, a, k, s)
<1> DEFINE w == Append(v, new)
<1>1. Len(w) = Len(v) + 1 /\ Len(v) \in Nat /\ w[Len(v) + 1] = new
      /\ \A x \in 1 .. Len(v) : w[x] = v[x]
  BY AppendedVector
<1> HIDE DEF w
<1>2. CASE a \in 1 .. Len(v)
  BY <1>1, <1>2 DEF Leads, w
<1>3. CASE a \notin 1 .. Len(v)
  <2>1. Leads(w, a, k, s) => a = Len(v) + 1 /\ k \in 1 .. Len(new.entries)
    BY <1>1, <1>3 DEF Leads
  <2>2. Len(new.entries) = 0
    OBVIOUS
  <2>3. QED
    BY <1>3, <2>1, <2>2 DEF Leads, w
<1>4. QED
  BY <1>2, <1>3

LEMMA OpensAppended ==
  ASSUME NEW v \in Seq(Menu), NEW new \in Menu, new.entries = << >>,
         NEW a, NEW k, NEW m
  PROVE  Opens(Append(v, new), a, k, m) <=> Opens(v, a, k, m)
BY LeadsAppended DEF Opens

LEMMA Replaced ==
  ASSUME NEW S, NEW s \in Seq(S), NEW n, NEW y, n \in 1 .. Len(s) => y \in S
  PROVE  LET w == [s EXCEPT ![n] = y]
         IN  /\ w \in Seq(S) /\ Len(w) = Len(s)
             /\ \A k \in 1 .. Len(s) : w[k] = IF k = n THEN y ELSE s[k]
<1>1. CASE n \in 1 .. Len(s)
  BY <1>1
<1>2. CASE n \notin 1 .. Len(s)
  <2>1. [s EXCEPT ![n] = y] = s
    BY <1>2
  <2>2. QED
    BY <1>2, <2>1
<1>3. QED
  BY <1>1, <1>2

(* A property changes nothing but what an entry has been given.            *)
GivenTo(s, k, x) == [s EXCEPT ![k].given = @ \union {x}]
Given(v, p, k, x) == [v EXCEPT ![p].entries = GivenTo(@, k, x)]

SameEntries(s, t) ==
  /\ Len(s) = Len(t)
  /\ \A k \in 1 .. Len(t) : /\ s[k].submenu = t[k].submenu /\ s[k].made = t[k].made
                            /\ s[k].selectable = t[k].selectable

(* As s, but for entry n, which has been given x.                          *)
GivenIn(s, t, n, x) ==
  \A k \in 1 .. Len(s) :
    t[k].given = IF k = n THEN s[k].given \union {x} ELSE s[k].given

SameMenu(x, y) ==
  x.id = y.id /\ x.head = y.head /\ x.parent = y.parent /\ SameEntries(x.entries, y.entries)

LEMMA GivenEntries ==
  ASSUME NEW s \in Seq(Entry), NEW n, NEW x \in Nat
  PROVE  /\ GivenTo(s, n, x) \in Seq(Entry) /\ SameEntries(GivenTo(s, n, x), s)
         /\ GivenIn(s, GivenTo(s, n, x), n, x)
<1> DEFINE y(k) == [s[k] EXCEPT !.given = @ \union {x}]
           t == [s EXCEPT ![n] = y(n)]
<1>1. ASSUME NEW k \in 1 .. Len(s)
      PROVE  /\ y(k) \in Entry /\ y(k).submenu = s[k].submenu /\ y(k).made = s[k].made
             /\ y(k).selectable = s[k].selectable
             /\ y(k).given = s[k].given \union {x}
  <2>1. s[k] \in Entry
    OBVIOUS
  <2>2. QED
    BY <2>1 DEF Entry
<1>2. GivenTo(s, n, x) = t
  BY DEF GivenTo
<1> HIDE DEF y
<1>3. n \in 1 .. Len(s) => y(n) \in Entry
  BY <1>1
<1>4. /\ t \in Seq(Entry) /\ Len(t) = Len(s)
      /\ \A k \in 1 .. Len(s) : t[k] = IF k = n THEN y(n) ELSE s[k]
  BY <1>3, Replaced
<1> HIDE DEF t
<1>5. \A k \in 1 .. Len(s) :
        /\ t[k].submenu = s[k].submenu /\ t[k].made = s[k].made
        /\ t[k].selectable = s[k].selectable
        /\ t[k].given = IF k = n THEN s[k].given \union {x} ELSE s[k].given
  BY <1>1, <1>4
<1>6. QED
  BY <1>2, <1>4, <1>5 DEF SameEntries, GivenIn

LEMMA GivenVector ==
  ASSUME NEW v \in Seq(Menu), NEW p, NEW n, NEW x \in Nat
  PROVE  LET w == Given(v, p, n, x)
         IN  /\ w \in Seq(Menu) /\ Len(w) = Len(v)
             /\ \A m \in 1 .. Len(v) : SameMenu(w[m], v[m])
             /\ \A m \in 1 .. Len(v) \ {p} : w[m] = v[m]
             /\ p \in 1 .. Len(v) => GivenIn(v[p].entries, w[p].entries, n, x)
<1> DEFINE w == Given(v, p, n, x)
           t == GivenTo(v[p].entries, n, x)
           new == [v[p] EXCEPT !.entries = t]
<1>1. w = [v EXCEPT ![p] = new]
  BY DEF Given
<1>2. ASSUME p \in 1 .. Len(v)
      PROVE  /\ new \in Menu /\ SameMenu(new, v[p])
             /\ GivenIn(v[p].entries, new.entries, n, x)
  <2>1. v[p] \in Menu /\ v[p].entries \in Seq(Entry)
    BY <1>2, VectorTyped
  <2>2. /\ t \in Seq(Entry) /\ SameEntries(t, v[p].entries)
        /\ GivenIn(v[p].entries, t, n, x)
    BY <2>1, GivenEntries
  <2> HIDE DEF t
  <2>3. /\ new \in Menu /\ new.entries = t /\ new.id = v[p].id
        /\ new.head = v[p].head /\ new.parent = v[p].parent
    BY <2>1, <2>2 DEF Menu
  <2> HIDE DEF new
  <2>4. QED
    BY <2>2, <2>3 DEF SameMenu
<1> HIDE DEF new
<1>3. p \in 1 .. Len(v) => new \in Menu
  BY <1>2
<1>4. /\ w \in Seq(Menu) /\ Len(w) = Len(v)
      /\ \A m \in 1 .. Len(v) : w[m] = IF m = p THEN new ELSE v[m]
  BY <1>1, <1>3, Replaced
<1>5. \A m : SameMenu(v[m], v[m])
  BY DEF SameMenu, SameEntries
<1> HIDE DEF w
<1>6. \A m \in 1 .. Len(v) : SameMenu(w[m], v[m])
  BY <1>2, <1>4, <1>5
<1>7. /\ \A m \in 1 .. Len(v) \ {p} : w[m] = v[m]
      /\ p \in 1 .. Len(v) => GivenIn(v[p].entries, w[p].entries, n, x)
  BY <1>2, <1>4
<1>8. QED
  BY <1>4, <1>6, <1>7 DEF w

LEMMA LeadsGiven ==
  ASSUME NEW v \in Seq(Menu), NEW p, NEW n, NEW x \in Nat, NEW a, NEW k, NEW s
  PROVE  Leads(Given(v, p, n, x), a, k, s) <=> Leads(v, a, k, s)
<1> DEFINE w == Given(v, p, n, x)
<1>1. Len(w) = Len(v) /\ \A m \in 1 .. Len(v) : SameMenu(w[m], v[m])
  BY GivenVector
<1> HIDE DEF w
<1>2. QED
  BY <1>1 DEF Leads, SameMenu, SameEntries, w

(* The two items of an empty root menu are added one by one.               *)
LEMMA FilledVector ==
  ASSUME NEW v \in Seq(Menu), NEW k \in 1 .. Len(v), NEW b,
         v[k].entries = << >>, v[k].head = b
  PROVE  Filled(v, k, b) = Added(Added(v, k, NewEntry(TRUE, NULL, 0)), k, NewEntry(TRUE, NULL, 0))
<1> DEFINE e == NewEntry(TRUE, NULL, 0)
<1> HIDE DEF e
<1>1. Filled(v, k, b) = [v EXCEPT ![k].entries = << e, e >>]
  BY DEF Filled, e
<1>2. Append(Append(<< >>, e), e) = << e, e >>
  <2> DEFINE s == Append(Append(<< >>, e), e)
             t == << e, e >>
  <2>1. s \in Seq({e}) /\ Len(s) = 2 /\ s[1] = e /\ s[2] = e
    OBVIOUS
  <2>2. t \in Seq({e}) /\ Len(t) = 2 /\ t[1] = e /\ t[2] = e
    OBVIOUS
  <2> HIDE DEF s, t
  <2>3. s = t
    BY <2>1, <2>2, SeqEqual
  <2>4. QED
    BY <2>3 DEF s, t
<1>3. Added(Added(v, k, e), k, e) = [v EXCEPT ![k].entries = Append(Append(@, e), e)]
  BY DEF Added
<1>4. QED
  BY <1>1, <1>2, <1>3 DEF e
-----------------------------------------------------------------------------
(* The types. *)

LEMMA EntryTyped ==
  ASSUME NEW q \in Pointer, NEW n \in Nat
  PROVE  /\ NewEntry(TRUE, q, n) \in Entry /\ NewEntry(FALSE, q, n) \in Entry
         /\ NewEntry(TRUE, q, n).submenu = q /\ NewEntry(FALSE, q, n).submenu = q
         /\ NewEntry(TRUE, q, n).made = n /\ NewEntry(FALSE, q, n).made = n
         /\ NewEntry(TRUE, q, n).given = {} /\ NewEntry(FALSE, q, n).given = {}
<1>1. TRUE \in BOOLEAN /\ FALSE \in BOOLEAN
  OBVIOUS
<1>2. QED
  BY <1>1 DEF NewEntry, Entry

LEMMA EntrySelectable ==
  ASSUME NEW q, NEW n
  PROVE  NewEntry(TRUE, q, n).selectable
BY DEF NewEntry

LEMMA MenuTyped ==
  ASSUME NEW id \in Id, NEW q \in Pointer, NEW b \in Nat
  PROVE  /\ NewMenu(id, q, b) \in Menu /\ NewMenu(id, q, b).entries = << >>
         /\ NewMenu(id, q, b).parent = q /\ NewMenu(id, q, b).head = b
         /\ NewMenu(id, q, b).id = id
<1>1. << >> \in Seq(Entry)
  OBVIOUS
<1>2. QED
  BY <1>1 DEF NewMenu, Menu

LEMMA NullTyped == NULL \in Pointer /\ NULL[1] = 0 /\ NULL[2] = 0
BY DEF NULL, Pointer

(* The vector has room for another menu where it is, or where it moves to. *)
LEMMA GrownTyped ==
  ASSUME TypeOK, NEW b \in Moves
  PROVE  b \in Nat /\ Grown \in Nat /\ Len(menus) + 1 <= Grown
<1>1. base \in Nat /\ alloc_menus \in Nat /\ Len(menus) \in Nat
      /\ Len(menus) <= alloc_menus /\ Chunk \in Nat \ {0}
  BY FileAssumption DEF TypeOK
<1>2. QED
  BY <1>1 DEF Moves, Grown

(* They change nothing but the entries of the root menu. *)
LEMMA FilledKeeps ==
  ASSUME NEW v \in Seq(Menu), NEW k \in 1 .. Len(v), NEW b
  PROVE  LET w == Filled(v, k, b)
         IN  /\ w \in Seq(Menu) /\ Len(w) = Len(v)
             /\ \A m \in 1 .. Len(v) : /\ w[m].id = v[m].id /\ w[m].head = v[m].head
                                       /\ w[m].parent = v[m].parent
             /\ v[k].head = b => w[k].entries # << >>
<1> DEFINE e == NewEntry(TRUE, NULL, 0)
           u == Added(v, k, e)
           w == Added(u, k, e)
<1>1. CASE v[k].entries = << >> /\ v[k].head = b
  <2>1. e \in Entry
    BY EntryTyped, NullTyped
  <2> HIDE DEF e
  <2>2. /\ u \in Seq(Menu) /\ Len(u) = Len(v)
        /\ \A m \in 1 .. Len(v) : /\ u[m].id = v[m].id /\ u[m].head = v[m].head
                                  /\ u[m].parent = v[m].parent
    BY <2>1, AddedVector
  <2> HIDE DEF u
  <2>3. /\ w \in Seq(Menu) /\ Len(w) = Len(u)
        /\ \A m \in 1 .. Len(u) : /\ w[m].id = u[m].id /\ w[m].head = u[m].head
                                  /\ w[m].parent = u[m].parent
        /\ Len(w[k].entries) = Len(u[k].entries) + 1 /\ Len(u[k].entries) \in Nat
    BY <2>1, <2>2, AddedVector, VectorTyped
  <2> HIDE DEF w
  <2>4. w[k].entries # << >>
    <3>1. Len(w[k].entries) # 0
      BY <2>3
    <3>2. QED
      BY <3>1
  <2>5. w = Filled(v, k, b)
    BY <1>1, FilledVector DEF e, u, w
  <2>6. QED
    BY <2>2, <2>3, <2>4, <2>5
<1>2. CASE ~ (v[k].entries = << >> /\ v[k].head = b)
  <2>1. Filled(v, k, b) = v
    BY <1>2 DEF Filled
  <2>2. QED
    BY <1>2, <2>1
<1>3. QED
  BY <1>1, <1>2

LEMMA FilledTyped ==
  ASSUME NEW v \in Seq(Menu), NEW k \in 1 .. Len(v), NEW b
  PROVE  Filled(v, k, b) \in Seq(Menu) /\ Len(Filled(v, k, b)) = Len(v)
BY FilledKeeps

LEMMA RecursionTyped ==
  ASSUME NEW v, NEW k, NEW b
  PROVE  Recursion(v, k, b) \in {"undefined", "exhausted", "alive"}
BY DEF Recursion

LEMMA InitTypes == Init => TypeOK
<1> SUFFICES ASSUME Init PROVE TypeOK
  OBVIOUS
<1>1. menus \in Seq(Menu) /\ Len(menus) = 0 /\ open \in Seq(Nat \ {0})
  BY DEF Init
<1>2. elements \in 0 .. MaxElements /\ base \in Nat /\ alloc_menus \in Nat
      /\ menu_level \in Nat /\ Len(menus) <= alloc_menus
  BY <1>1, FileAssumption DEF Init
<1>3. current_menu \in Pointer /\ current_item \in Pointer
  BY NullTyped DEF Init
<1>4. in_item \in BOOLEAN /\ labelled \in BOOLEAN /\ looped \in BOOLEAN
      /\ referenced \subseteq Nat \X Nat /\ stage \in {"reading", "built", "finished"}
      /\ fate \in {"alive", "crashed", "undefined", "exhausted"}
  BY DEF Init
<1>5. QED
  BY <1>1, <1>2, <1>3, <1>4 DEF TypeOK

LEMMA CreateTypes ==
  ASSUME TypeOK, NEW e \in Entry, Create(e)
  PROVE  /\ menus' \in Seq(Menu) /\ Len(menus') = Len(menus)
         /\ UNCHANGED << base, alloc_menus, level, in_item, stage >>
         /\ current_item' \in Pointer
         /\ fate' \in {fate, "crashed", "undefined"}
<1>1. CASE Dies(current_menu)
  BY <1>1 DEF Dies, program, vector, level, TypeOK
<1>2. CASE ~ Dies(current_menu)
  <2> DEFINE m == current_menu[2]
  <2>1. /\ Valid(current_menu) /\ menus' = Added(menus, m, e)
        /\ current_item' = << m, Len(menus[m].entries) + 1 >>
        /\ UNCHANGED << base, alloc_menus, level, in_item, stage, fate >>
    BY <1>2 DEF Create, Added
  <2>2. menus \in Seq(Menu) /\ m \in 1 .. Len(menus)
    BY <2>1 DEF Valid, TypeOK
  <2>3. menus' \in Seq(Menu) /\ Len(menus') = Len(menus)
    BY <2>1, <2>2, AddedVector
  <2>4. m \in Nat /\ Len(menus[m].entries) + 1 \in Nat
    BY <2>2, VectorTyped
  <2>5. current_item' \in Pointer
    BY <2>1, <2>4 DEF Pointer
  <2>6. QED
    BY <2>1, <2>3, <2>5
<1>3. QED
  BY <1>1, <1>2

LEMMA NextTypes == TypeOK /\ NestingKept /\ [Next]_vars => TypeOK'
<1> SUFFICES ASSUME TypeOK, NestingKept, [Next]_vars PROVE TypeOK'
  OBVIOUS
<1>0. /\ menus \in Seq(Menu) /\ Len(menus) \in Nat /\ Len(menus) <= alloc_menus
      /\ base \in Nat /\ alloc_menus \in Nat /\ current_menu \in Pointer
      /\ open \in Seq(Nat \ {0}) /\ Len(open) \in Nat /\ elements \in Nat
      /\ elements \in 0 .. MaxElements /\ MaxElements \in Nat
  BY FileAssumption DEF TypeOK
<1> USE DEF TypeOK
<1>1. CASE UNCHANGED vars
  BY <1>1 DEF vars, program, vector, document, history
<1>2. ASSUME Element PROVE elements' \in 0 .. MaxElements /\ elements' \in Nat
  BY <1>0, <1>2 DEF Element
<1>3. ASSUME NEW id \in Id, StartMenu(id) PROVE TypeOK'
  <2>1. elements' \in 0 .. MaxElements /\ elements' \in Nat /\ labelled' = labelled
        /\ open' \in Seq(Nat \ {0}) /\ UNCHANGED history
    BY <1>0, <1>2, <1>3 DEF StartMenu
  <2>2. CASE Dies(current_menu)
    BY <2>1, <2>2 DEF Dies, program, vector, level, history
  <2>3. CASE ~ Dies(current_menu)
    <3>1. PICK b \in Moves :
            /\ \/ menus' = Append(menus, NewMenu(id, current_menu, b))
                  /\ UNCHANGED current_item
               \/ /\ menu_level > 0 /\ Valid(current_menu)
                  /\ menus' = Append(Added(menus, current_menu[2],
                                 NewEntry(TRUE, << b, Len(menus) + 1 >>, elements')),
                                 NewMenu(id, current_menu, b))
                  /\ current_item' = << current_menu[2],
                                        Len(menus[current_menu[2]].entries) + 1 >>
            /\ current_menu' = << b, Len(menus) + 1 >> /\ menu_level' = menu_level + 1
            /\ base' = b /\ alloc_menus' = Grown
            /\ UNCHANGED << in_item, stage, fate >>
      BY <1>3, <2>3 DEF StartMenu, Added
    <3>2. b \in Nat /\ Grown \in Nat /\ Len(menus) + 1 <= Grown
      BY GrownTyped
    <3>3. << b, Len(menus) + 1 >> \in Pointer
      BY <1>0, <3>2 DEF Pointer
    <3> DEFINE new == NewMenu(id, current_menu, b)
               e == NewEntry(TRUE, << b, Len(menus) + 1 >>, elements')
    <3>4. new \in Menu /\ e \in Entry
      BY <1>0, <2>1, <3>2, <3>3, MenuTyped, EntryTyped
    <3> HIDE DEF new, e
    <3>5. menus' \in Seq(Menu) /\ Len(menus') = Len(menus) + 1 /\ current_item' \in Pointer
      <4>1. CASE menus' = Append(menus, new) /\ UNCHANGED current_item
        BY <1>0, <3>4, <4>1, AppendedVector
      <4>2. CASE /\ Valid(current_menu)
                 /\ menus' = Append(Added(menus, current_menu[2], e), new)
                 /\ current_item' = << current_menu[2],
                                       Len(menus[current_menu[2]].entries) + 1 >>
        <5>1. current_menu[2] \in 1 .. Len(menus)
          BY <4>2 DEF Valid
        <5>2. /\ Added(menus, current_menu[2], e) \in Seq(Menu)
              /\ Len(Added(menus, current_menu[2], e)) = Len(menus)
          BY <1>0, <3>4, <5>1, AddedVector
        <5>3. current_menu[2] \in Nat /\ Len(menus[current_menu[2]].entries) + 1 \in Nat
          BY <1>0, <5>1, VectorTyped
        <5>4. QED
          BY <3>4, <4>2, <5>2, <5>3, AppendedVector DEF Pointer
      <4>3. QED
        BY <3>1, <4>1, <4>2 DEF new, e
    <3>6. QED
      BY SMTT(30), <2>1, <3>1, <3>2, <3>3, <3>5 DEF history
  <2>4. QED
    BY <2>2, <2>3
<1>4. ASSUME EndMenu PROVE TypeOK'
  <2>1. open' \in Seq(Nat \ {0}) /\ menu_level - 1 \in Nat
    <3>1. Len(open) > 0 /\ menu_level = Len(open)
      BY <1>0, <1>4 DEF EndMenu, NestingKept
    <3>2. QED
      BY <1>0, <1>4, <3>1 DEF EndMenu
  <2>2. CASE Dies(current_menu)
    BY <1>4, <2>1, <2>2 DEF EndMenu, Dies, program, vector, level, history
  <2>3. CASE ~ Dies(current_menu)
    <3>1. /\ Valid(current_menu) /\ current_menu' = menus[current_menu[2]].parent
          /\ menu_level' = menu_level - 1
          /\ UNCHANGED << vector, current_item, in_item, stage, fate, elements, labelled,
                          history >>
      BY <1>4, <2>3 DEF EndMenu
    <3>2. current_menu' \in Pointer
      BY <1>0, <3>1, VectorTyped DEF Valid
    <3>3. QED
      BY <2>1, <3>1, <3>2 DEF vector, history
  <2>4. QED
    BY <2>2, <2>3
<1>5. ASSUME NEW id \in Id, Reference(id) PROVE TypeOK'
  <2>1. elements' \in 0 .. MaxElements /\ elements' \in Nat /\ UNCHANGED << open, labelled >>
    BY <1>2, <1>5 DEF Reference
  <2>2. CASE UNCHANGED << program, history, stage, fate >>
    BY <2>1, <2>2 DEF program, vector, history
  <2>3. ASSUME NEW k \in WithId(id), Create(NewEntry(TRUE, << base, k >>, elements')),
               referenced' = referenced \union {<< elements', k >>}, looped' \in BOOLEAN
        PROVE  TypeOK'
    <3>1. k \in Nat /\ << base, k >> \in Pointer /\ << elements', k >> \in Nat \X Nat
      BY <1>0, <2>1 DEF WithId, Pointer
    <3>2. NewEntry(TRUE, << base, k >>, elements') \in Entry
      BY <2>1, <3>1, EntryTyped
    <3>3. QED
      BY <2>1, <2>3, <3>1, <3>2, CreateTypes DEF level
  <2>4. QED
    BY <1>5, <2>2, <2>3 DEF Reference
<1>6. ASSUME handle_separator_element PROVE TypeOK'
  <2>1. elements' \in 0 .. MaxElements /\ elements' \in Nat
        /\ UNCHANGED << open, labelled, history >>
    BY <1>2, <1>6 DEF handle_separator_element
  <2>2. NewEntry(FALSE, NULL, elements') \in Entry
    BY <2>1, EntryTyped, NullTyped
  <2>3. QED
    BY <1>6, <2>1, <2>2, CreateTypes DEF handle_separator_element, level, history
<1>7. ASSUME StartItem \/ EndItem PROVE TypeOK'
  BY <1>2, <1>7 DEF StartItem, EndItem, vector, level, document, history
<1>8. ASSUME Label PROVE TypeOK'
  <2>1. UNCHANGED << elements, open, history >> /\ labelled' = TRUE
    BY <1>8 DEF Label
  <2>2. NewEntry(TRUE, NULL, elements) \in Entry
    BY <1>0, EntryTyped, NullTyped
  <2>3. CASE UNCHANGED << program, stage, fate >>
    BY <2>1, <2>3 DEF program, vector, history
  <2>4. CASE Create(NewEntry(TRUE, NULL, elements))
    BY <2>1, <2>2, <2>4, CreateTypes DEF level, history
  <2>5. QED
    BY <1>8, <2>3, <2>4 DEF Label
<1>9. ASSUME Property PROVE TypeOK'
  <2>1. UNCHANGED << base, alloc_menus, level, current_item, in_item, document,
                     history, stage, fate >>
    BY <1>9 DEF Property
  <2>2. menus' = menus \/ menus' = Given(menus, current_item[1], current_item[2], elements)
    BY <1>9 DEF Property, Given, GivenTo
  <2>3. menus' \in Seq(Menu) /\ Len(menus') = Len(menus)
    BY <1>0, <2>2, GivenVector
  <2>4. QED
    BY <2>1, <2>3 DEF level, document, history
<1>10. ASSUME menu_init PROVE TypeOK'
  <2>1. stage' = "built" /\ UNCHANGED << level, in_item, document, history >>
    BY <1>10 DEF menu_init
  <2>2. ASSUME NEW k \in WithId(RootId), menus' = Filled(menus, k, base),
               fate' = Recursion(menus', k, base),
               current_item' = IF menus' = menus THEN current_item ELSE << k, 2 >>,
               UNCHANGED << base, alloc_menus >>
        PROVE  TypeOK'
    <3>1. k \in 1 .. Len(menus) /\ << k, 2 >> \in Pointer
      BY <1>0 DEF WithId, Pointer
    <3>2. menus' \in Seq(Menu) /\ Len(menus') = Len(menus)
      BY <1>0, <2>2, <3>1, FilledTyped
    <3>3. QED
      BY <2>1, <2>2, <3>1, <3>2, RecursionTyped DEF level, document, history
  <2>3. ASSUME NEW b \in Moves,
               menus' = Filled(Append(menus, NewMenu(RootId, current_menu, b)), Len(menus) + 1, b),
               fate' = Recursion(menus', Len(menus) + 1, b),
               current_item' = << Len(menus) + 1, 2 >>, base' = b, alloc_menus' = Grown
        PROVE  TypeOK'
    <3>1. b \in Nat /\ Grown \in Nat /\ Len(menus) + 1 <= Grown
      BY GrownTyped
    <3> DEFINE v == Append(menus, NewMenu(RootId, current_menu, b))
    <3>2. v \in Seq(Menu) /\ Len(v) = Len(menus) + 1
      <4>1. NewMenu(RootId, current_menu, b) \in Menu
        BY <1>0, <3>1, FileAssumption, MenuTyped
      <4>2. QED
        BY <1>0, <4>1, AppendedVector
    <3> HIDE DEF v
    <3>3. menus' \in Seq(Menu) /\ Len(menus') = Len(menus) + 1
      <4>1. Len(menus) + 1 \in 1 .. Len(v)
        BY <1>0, <3>2
      <4>2. QED
        BY <2>3, <3>2, <4>1, FilledTyped DEF v
    <3>4. << Len(menus) + 1, 2 >> \in Pointer
      BY <1>0 DEF Pointer
    <3>5. QED
      BY <2>1, <2>3, <3>1, <3>3, <3>4, RecursionTyped DEF level, document, history
  <2>4. QED
    BY <1>10, <2>2, <2>3 DEF menu_init
<1>11. ASSUME menu_finish PROVE TypeOK'
  <2>1. << >> \in Seq(Menu) /\ Len(<< >>) <= 0
    OBVIOUS
  <2>2. /\ stage' \in {"reading", "built", "finished"}
        /\ fate' \in {"alive", "crashed", "undefined", "exhausted"}
        /\ UNCHANGED << base, level, current_item, in_item, document, history >>
    BY <1>11 DEF menu_finish
  <2>3. \/ menus' = menus /\ alloc_menus' = alloc_menus
        \/ menus' = << >> /\ alloc_menus' = 0
    BY <1>11 DEF menu_finish
  <2>4. menus' \in Seq(Menu) /\ Len(menus') <= alloc_menus' /\ alloc_menus' \in Nat
    <3>1. CASE menus' = menus /\ alloc_menus' = alloc_menus
      BY <1>0, <3>1
    <3>2. CASE menus' = << >> /\ alloc_menus' = 0
      BY <2>1, <3>2
    <3>3. QED
      BY <2>3, <3>1, <3>2
  <2>5. QED
    BY <2>2, <2>4 DEF level, document, history
<1>12. QED
  BY <1>1, <1>3, <1>4, <1>5, <1>6, <1>7, <1>8, <1>9, <1>10, <1>11 DEF Next
-----------------------------------------------------------------------------
(* The steps, as far as the vector and the nesting go.                     *)

still == << stage, fate >>

Quiet == UNCHANGED << vector, level, open, history, still >>

GivenStep ==
  /\ Reading /\ in_item /\ open # << >> /\ (LabelFirst => labelled)
  /\ UNCHANGED << base, alloc_menus, level, open, history, still >>
  /\ \E q, k : /\ q = current_item[1] /\ k = current_item[2]
               /\ menus' = Given(menus, q, k, elements)

(* An entry in current_menu, which may be a reference.                     *)
Plain(e) == e.submenu = NULL /\ UNCHANGED history

NewReference(k) ==
  elements' = elements + 1 /\ referenced' = referenced \union {<< elements', k >>}

Refers(e) ==
  \E k \in 1 .. Len(menus) :
    /\ e.submenu = << base, k >> /\ e.selectable /\ e.made = elements'
    /\ NewReference(k)
    /\ looped' = (looped \/ \E i \in 1 .. Len(open) : open[i] = k)

AddStep(e) ==
  /\ Reading /\ Valid(current_menu) /\ e.given = {}
  /\ menus' = Added(menus, current_menu[2], e)
  /\ Plain(e) \/ Refers(e)
  /\ e.made <= elements'
  /\ UNCHANGED << base, alloc_menus, level, open, still >>

(* A definition: the vector is v, with this menu, and moves to b.          *)
StartStep(id, b, v) ==
  /\ Reading /\ b \in Moves
  /\ menus' = Append(v, NewMenu(id, current_menu, b))
  /\ current_menu' = << b, Len(menus) + 1 >> /\ menu_level' = menu_level + 1
  /\ open' = Append(open, Len(menus) + 1) /\ elements' = elements + 1
  /\ base' = b /\ alloc_menus' = Grown
  /\ UNCHANGED << history, still >>

RootStart(id, b) == menu_level = 0 /\ StartStep(id, b, menus)

ItemFor(b) == NewEntry(TRUE, << b, Len(menus) + 1 >>, elements')

NestedStart(id, b) ==
  /\ menu_level > 0 /\ Valid(current_menu)
  /\ StartStep(id, b, Added(menus, current_menu[2], ItemFor(b)))

EndStep ==
  /\ Reading /\ open # << >> /\ Valid(current_menu)
  /\ current_menu' = menus[current_menu[2]].parent /\ menu_level' = menu_level - 1
  /\ open' = SubSeq(open, 1, Len(open) - 1)
  /\ UNCHANGED << vector, history, still >>

DeathStep ==
  /\ Reading /\ Dies(current_menu)
  /\ UNCHANGED referenced \/ \E k \in 1 .. Len(menus) : NewReference(k)
  /\ open' = open \/ open # << >>

(* The end of a document with a root menu, and of one without.             *)
InitWith(k) ==
  /\ Reading /\ open = << >> /\ k \in WithId(RootId) /\ k \in 1 .. Len(menus)
  /\ menus' = Filled(menus, k, base)
  /\ fate' = Recursion(menus', k, base) /\ stage' = "built"
  /\ UNCHANGED << base, alloc_menus, level, open, history >>

Rooted(b) == Append(menus, NewMenu(RootId, current_menu, b))

InitWithout(b) ==
  /\ Reading /\ open = << >> /\ WithId(RootId) = {} /\ b \in Moves
  /\ menus' = Filled(Rooted(b), Len(menus) + 1, b)
  /\ fate' = Recursion(menus', Len(menus) + 1, b) /\ stage' = "built"
  /\ base' = b /\ alloc_menus' = Grown
  /\ UNCHANGED << level, open, history >>

(* Each step is one of these. *)
Step ==
  \/ Quiet \/ GivenStep \/ EndStep \/ DeathStep \/ menu_finish
  \/ \E e \in Entry : AddStep(e)
  \/ \E id \in Id, b \in Moves : RootStart(id, b) \/ NestedStart(id, b)
  \/ \E k \in 1 .. Len(menus) : InitWith(k)
  \/ \E b \in Moves : InitWithout(b)

LEMMA CreateSteps ==
  ASSUME NEW e, e.given = {}, e.made <= elements', Create(e), Reading, UNCHANGED open,
         Plain(e) \/ Refers(e)
  PROVE  DeathStep \/ AddStep(e)
<1>1. CASE Dies(current_menu)
  <2>1. UNCHANGED referenced \/ \E k \in 1 .. Len(menus) : NewReference(k)
    BY DEF Plain, Refers, history
  <2>2. QED
    BY <1>1, <2>1 DEF DeathStep
<1>2. CASE ~ Dies(current_menu)
  BY <1>2 DEF Create, AddStep, Added, still
<1>3. QED
  BY <1>1, <1>2

LEMMA Steps == TypeOK /\ NestingKept /\ [Next]_vars => Step
<1> SUFFICES ASSUME TypeOK, NestingKept, [Next]_vars PROVE Step
  OBVIOUS
<1>0. elements \in Nat /\ elements' \in Nat /\ menu_level \in Nat
  BY NextTypes, FileAssumption DEF TypeOK
<1>1. CASE UNCHANGED vars
  BY <1>1 DEF vars, program, document, Step, Quiet, still, level, vector
<1>2. ASSUME NEW id \in Id, StartMenu(id) PROVE Step
  <2>1. Reading
    BY <1>2 DEF StartMenu, Element
  <2>2. CASE menu_level > 0 /\ Dies(current_menu)
    <3>1. Len(open) = menu_level
      BY <2>1 DEF NestingKept
    <3>2. open # << >>
      BY <2>2, <3>1
    <3>3. QED
      BY <1>2, <2>1, <2>2, <3>2 DEF StartMenu, history, DeathStep, Step
  <2>3. CASE ~ (menu_level > 0 /\ Dies(current_menu))
    <3>1. PICK b \in Moves : RootStart(id, b) \/ NestedStart(id, b)
      BY <1>2, <2>1, <2>3
      DEF StartMenu, Element, RootStart, NestedStart, StartStep, ItemFor, Added, still
    <3>2. QED
      BY <1>2, <3>1 DEF Step
  <2>4. QED
    BY <2>2, <2>3
<1>3. ASSUME EndMenu PROVE Step
  BY <1>3 DEF EndMenu, Step, EndStep, DeathStep, history, still
<1>4. ASSUME NEW id \in Id, Reference(id) PROVE Step
  <2>1. CASE UNCHANGED << program, history, stage, fate >>
    BY <1>4, <2>1 DEF Reference, Step, Quiet, program, level, vector, still
  <2>2. ASSUME NEW k \in WithId(id), Create(NewEntry(TRUE, << base, k >>, elements')),
               referenced' = referenced \union {<< elements', k >>},
               looped' = (looped \/ \E i \in 1 .. Len(open) : open[i] = k)
        PROVE  Step
    <3> DEFINE e == NewEntry(TRUE, << base, k >>, elements')
    <3>1. Reading /\ UNCHANGED open /\ elements' = elements + 1
      BY <1>4 DEF Reference, Element
    <3>2. k \in 1 .. Len(menus) /\ << base, k >> \in Pointer
      BY DEF WithId, Pointer, TypeOK
    <3>3. /\ e \in Entry /\ e.submenu = << base, k >> /\ e.given = {}
          /\ e.made = elements' /\ e.selectable
      <4>1. e.selectable
        BY EntrySelectable
      <4> DEFINE q == << base, k >>
      <4>2. q \in Pointer /\ e = NewEntry(TRUE, q, elements')
        BY <3>2
      <4> HIDE DEF q, e
      <4>3. e \in Entry /\ e.submenu = q /\ e.given = {} /\ e.made = elements'
        BY <1>0, <4>2, EntryTyped
      <4>4. QED
        BY <4>1, <4>3 DEF q
    <3> HIDE DEF e
    <3>4. Refers(e)
      BY <2>2, <3>1, <3>2, <3>3 DEF Refers, NewReference
    <3>5. e.made <= elements'
      BY <1>0, <3>3
    <3>6. DeathStep \/ AddStep(e)
      BY <2>2, <3>1, <3>3, <3>4, <3>5, CreateSteps DEF e
    <3>7. QED
      BY <3>3, <3>6 DEF Step
  <2>3. QED
    BY <1>4, <2>1, <2>2 DEF Reference
<1>5. ASSUME handle_separator_element PROVE Step
  <2> DEFINE e == NewEntry(FALSE, NULL, elements')
  <2>1. e \in Entry /\ e.submenu = NULL /\ e.given = {} /\ e.made <= elements'
    <3>1. e \in Entry /\ e.submenu = NULL /\ e.given = {} /\ e.made = elements'
      BY <1>0, EntryTyped, NullTyped
    <3> HIDE DEF e
    <3>2. QED
      BY <1>0, <3>1
  <2>2. Reading /\ Create(e) /\ UNCHANGED << open, history >>
    BY <1>5 DEF handle_separator_element, Element
  <2> HIDE DEF e
  <2>3. DeathStep \/ AddStep(e)
    BY <2>1, <2>2, CreateSteps DEF Plain
  <2>4. QED
    BY <2>1, <2>3 DEF Step
<1>6. ASSUME Label PROVE Step
  <2> DEFINE e == NewEntry(TRUE, NULL, elements)
  <2>1. e \in Entry /\ e.submenu = NULL /\ e.given = {} /\ e.made <= elements'
    <3>1. e \in Entry /\ e.submenu = NULL /\ e.given = {} /\ e.made = elements
      BY <1>0, EntryTyped, NullTyped
    <3>2. elements' = elements
      BY <1>6 DEF Label
    <3> HIDE DEF e
    <3>3. QED
      BY <1>0, <3>1, <3>2
  <2>2. Reading /\ UNCHANGED << open, history >>
        /\ (Create(e) \/ UNCHANGED << program, stage, fate >>)
    BY <1>6 DEF Label
  <2> HIDE DEF e
  <2>3. CASE Create(e)
    <3>1. DeathStep \/ AddStep(e)
      BY <2>1, <2>2, <2>3, CreateSteps DEF Plain
    <3>2. QED
      BY <2>1, <3>1 DEF Step
  <2>4. CASE UNCHANGED << program, stage, fate >>
    BY <2>2, <2>4 DEF Step, Quiet, program, level, vector, still
  <2>5. QED
    BY <2>2, <2>3, <2>4
<1>7. ASSUME StartItem \/ EndItem PROVE Step
  BY <1>7 DEF StartItem, EndItem, Step, Quiet, document, still
<1>8. ASSUME Property PROVE Step
  <2>1. \/ menus' = menus
        \/ /\ open # << >>
           /\ menus' = Given(menus, current_item[1], current_item[2], elements)
    BY <1>8 DEF Property, Given, GivenTo
  <2>2. UNCHANGED << base, alloc_menus, level, open, history, still >>
    BY <1>8 DEF Property, document, still
  <2>3. QED
    BY <1>8, <2>1, <2>2 DEF Property, Step, Quiet, GivenStep, vector
<1>9. ASSUME menu_init PROVE Step
  <2>1. \/ \E k \in 1 .. Len(menus) : InitWith(k)
        \/ \E b \in Moves : InitWithout(b)
    BY <1>9 DEF menu_init, WithId, InitWith, InitWithout, Rooted, document
  <2>2. QED
    BY <2>1 DEF Step
<1>10. QED
  BY <1>1, <1>2, <1>3, <1>4, <1>5, <1>6, <1>7, <1>8, <1>9 DEF Next, Step
-----------------------------------------------------------------------------
(* The nesting.  The open menus were defined in this order.                *)

Nested ==
  Reading =>
    /\ open \in Seq(1 .. Len(menus))
    /\ \A i, j \in 1 .. Len(open) : i < j => open[i] < open[j]

LEMMA Opened ==
  ASSUME NEW n \in Nat, NEW o \in Seq(1 .. n)
  PROVE  LET p == Append(o, n + 1)
         IN  /\ p \in Seq(1 .. n + 1) /\ p # << >>
             /\ Len(o) \in Nat /\ Len(p) = Len(o) + 1 /\ p[Len(o) + 1] = n + 1
             /\ \A i \in 1 .. Len(o) : p[i] = o[i] /\ o[i] \in 1 .. n
<1> DEFINE p == Append(o, n + 1)
<1>1. Len(o) \in Nat /\ \A i \in 1 .. Len(o) : o[i] \in 1 .. n
  OBVIOUS
<1>2. o \in Seq(1 .. n + 1) /\ n + 1 \in 1 .. n + 1
  OBVIOUS
<1>3. p \in Seq(1 .. n + 1) /\ Len(p) = Len(o) + 1 /\ p[Len(o) + 1] = n + 1
  BY <1>2
<1>4. \A i \in 1 .. Len(o) : p[i] = o[i]
  BY <1>2
<1> HIDE DEF p
<1>5. p # << >>
  <2>1. Len(p) # 0
    BY <1>1, <1>3
  <2>2. QED
    BY <2>1
<1>6. QED
  BY <1>1, <1>3, <1>4, <1>5 DEF p

LEMMA Closed ==
  ASSUME NEW S, NEW o \in Seq(S), o # << >>
  PROVE  LET p == SubSeq(o, 1, Len(o) - 1)
         IN  /\ p \in Seq(S) /\ Len(o) \in Nat /\ Len(o) > 0 /\ Len(p) = Len(o) - 1
             /\ \A i \in 1 .. Len(o) - 1 : p[i] = o[i]
             /\ \A i \in 1 .. Len(o) : o[i] \in S
<1>1. Len(o) \in Nat /\ Len(o) > 0 /\ \A i \in 1 .. Len(o) : o[i] \in S
  OBVIOUS
<1>2. \A i \in 1 .. Len(o) - 1 : i \in 1 .. Len(o)
  BY <1>1
<1> DEFINE n == Len(o) - 1
           p == SubSeq(o, 1, n)
<1>3. n \in Nat /\ n \in Int /\ 1 \in Int /\ \A i \in 1 .. n : o[i] \in S
  BY <1>1, <1>2
<1> HIDE DEF n
<1>4. /\ p \in Seq(S) /\ Len(p) = IF 1 <= n THEN n - 1 + 1 ELSE 0
      /\ \A i \in 1 .. n - 1 + 1 : p[i] = o[1 + i - 1]
  BY <1>3, SubSeqProperties
<1> HIDE DEF p
<1>5. Len(p) = n
  BY <1>3, <1>4
<1>6. \A i \in 1 .. n : p[i] = o[i]
  <2>1. n - 1 + 1 = n
    BY <1>3
  <2>2. ASSUME NEW i \in 1 .. n PROVE p[i] = o[i]
    <3>1. p[i] = o[1 + i - 1]
      BY <1>4, <2>1
    <3>2. 1 + i - 1 = i
      BY <1>3
    <3>3. QED
      BY <3>1, <3>2
  <2>3. QED
    BY <2>2
<1>7. QED
  BY <1>1, <1>4, <1>5, <1>6 DEF n, p

(* The vector with a menu more. *)
LEMMA StartedVector ==
  ASSUME TypeOK, NEW id \in Id, NEW b \in Moves,
         NEW v \in Seq(Menu), Len(v) = Len(menus)
  PROVE  LET w == Append(v, NewMenu(id, current_menu, b))
         IN  /\ w \in Seq(Menu) /\ Len(w) = Len(menus) + 1 /\ Len(menus) \in Nat
             /\ \A m \in 1 .. Len(menus) : w[m] = v[m]
             /\ w[Len(menus) + 1].parent = current_menu
             /\ w[Len(menus) + 1].head = b
             /\ w[Len(menus) + 1].entries = << >>
<1> DEFINE new == NewMenu(id, current_menu, b)
<1>1. b \in Nat /\ current_menu \in Pointer
  BY GrownTyped DEF TypeOK
<1>2. new \in Menu /\ new.parent = current_menu /\ new.head = b /\ new.entries = << >>
  BY <1>1, MenuTyped
<1> HIDE DEF new
<1>3. QED
  BY <1>2, AppendedVector DEF new

(* The item that a definition has in the menu around it.                   *)
LEMMA ItemTyped ==
  ASSUME TypeOK, NEW b \in Moves, elements' \in Nat
  PROVE  ItemFor(b) \in Entry /\ ItemFor(b).submenu = << b, Len(menus) + 1 >>
         /\ ItemFor(b).submenu[2] = Len(menus) + 1
<1>1. << b, Len(menus) + 1 >> \in Pointer
  BY GrownTyped DEF TypeOK, Pointer
<1>2. << b, Len(menus) + 1 >>[2] = Len(menus) + 1
  OBVIOUS
<1> DEFINE q == << b, Len(menus) + 1 >>
<1> HIDE DEF q
<1>3. NewEntry(TRUE, q, elements') \in Entry /\ NewEntry(TRUE, q, elements').submenu = q
  BY <1>1, EntryTyped DEF q
<1>4. QED
  BY <1>2, <1>3 DEF ItemFor, q

LEMMA ElementsCounted == TypeOK /\ NestingKept /\ [Next]_vars => elements' \in Nat
BY NextTypes, FileAssumption DEF TypeOK

LEMMA StartNests ==
  ASSUME TypeOK, NestingKept, Nested, NEW id \in Id, NEW b, NEW v \in Seq(Menu),
         Len(v) = Len(menus), \A m \in 1 .. Len(menus) : v[m].parent = menus[m].parent,
         StartStep(id, b, v)
  PROVE  NestingKept' /\ Nested'
<1> DEFINE n == Len(menus)
<1>1. /\ Len(menus') = n + 1 /\ n \in Nat /\ menus'[n + 1].parent = current_menu
      /\ \A m \in 1 .. n : menus'[m].parent = menus[m].parent
  BY StartedVector DEF StartStep
<1>2. /\ Reading /\ open \in Seq(1 .. n) /\ open' = Append(open, n + 1)
      /\ \A i, j \in 1 .. Len(open) : i < j => open[i] < open[j]
      /\ menu_level = Len(open) /\ menu_level' = menu_level + 1
      /\ current_menu[2] = IF open = << >> THEN 0 ELSE open[Len(open)]
      /\ current_menu' = << b, n + 1 >>
      /\ \A i \in 1 .. Len(open) :
           menus[open[i]].parent[2] = IF i = 1 THEN 0 ELSE open[i - 1]
  BY DEF StartStep, NestingKept, Nested
<1> HIDE DEF n
<1>3. /\ open' \in Seq(1 .. n + 1) /\ open' # << >>
      /\ Len(open) \in Nat /\ Len(open') = Len(open) + 1 /\ open'[Len(open) + 1] = n + 1
      /\ \A i \in 1 .. Len(open) : open'[i] = open[i] /\ open[i] \in 1 .. n
  BY <1>1, <1>2, Opened
<1>4. ASSUME NEW i \in 1 .. Len(open')
      PROVE  menus'[open'[i]].parent[2] = IF i = 1 THEN 0 ELSE open'[i - 1]
  <2>1. CASE i \in 1 .. Len(open)
    <3>1. menus'[open'[i]].parent = menus[open[i]].parent
      BY <1>1, <1>3, <2>1
    <3>0. menus[open[i]].parent[2] = IF i = 1 THEN 0 ELSE open[i - 1]
      BY <1>2, <2>1
    <3>2. i # 1 => i - 1 \in 1 .. Len(open)
      BY <1>3, <2>1
    <3>3. QED
      BY <1>3, <3>0, <3>1, <3>2
  <2>2. CASE i = Len(open) + 1
    <3>1. menus'[open'[i]].parent = current_menu
      BY <1>1, <1>3, <2>2
    <3>2. CASE open = << >>
      BY <1>2, <2>2, <3>1, <3>2
    <3>3. CASE open # << >>
      <4>1. Len(open) # 0 /\ i - 1 = Len(open)
        BY <1>2, <1>3, <2>2, <3>3
      <4>2. QED
        BY <1>2, <1>3, <2>2, <3>1, <3>3, <4>1
    <3>4. QED
      BY <3>2, <3>3
  <2>3. QED
    BY <1>3, <2>1, <2>2
<1>5. ASSUME NEW i \in 1 .. Len(open'), NEW j \in 1 .. Len(open'), i < j
      PROVE  open'[i] < open'[j]
  <2>1. i \in 1 .. Len(open) /\ (j \in 1 .. Len(open) \/ j = Len(open) + 1)
    BY <1>3, <1>5
  <2>2. QED
    BY SMTT(30), <1>1, <1>2, <1>3, <1>5, <2>1
<1>6. NestingKept'
  BY <1>2, <1>3, <1>4 DEF NestingKept
<1>7. Nested'
  BY <1>1, <1>3, <1>5 DEF Nested
<1>8. QED
  BY <1>6, <1>7

LEMMA Nests == TypeOK /\ NestingKept /\ Nested /\ [Next]_vars => NestingKept' /\ Nested'
<1> SUFFICES ASSUME TypeOK, NestingKept, Nested, [Next]_vars PROVE NestingKept' /\ Nested'
  OBVIOUS
<1> DEFINE n == Len(menus)
<1>0. /\ Step /\ menus \in Seq(Menu) /\ n \in Nat /\ elements \in Nat /\ elements' \in Nat
  BY Steps, ElementsCounted, FileAssumption DEF TypeOK
<1>1. ASSUME UNCHANGED << level, open, still >>, Len(menus') = n,
             \A m \in 1 .. n : menus'[m].parent = menus[m].parent
      PROVE  NestingKept' /\ Nested'
  <2>1. /\ open' = open /\ current_menu' = current_menu /\ menu_level' = menu_level
        /\ Reading' <=> Reading
    BY <1>1 DEF Reading, level, still
  <2>2. Nested'
    BY <1>1, <2>1 DEF Nested
  <2>3. Reading => \A i \in 1 .. Len(open) : menus'[open[i]].parent = menus[open[i]].parent
    BY <1>1 DEF Nested
  <2>4. QED
    BY <2>1, <2>2, <2>3 DEF NestingKept
<1>2. CASE Quiet
  BY <1>1, <1>2 DEF Quiet, vector
<1>3. CASE GivenStep
  <2>1. Len(menus') = n /\ \A m \in 1 .. n : SameMenu(menus'[m], menus[m])
    BY <1>0, <1>3, GivenVector DEF GivenStep
  <2>2. QED
    BY <1>1, <1>3, <2>1 DEF GivenStep, SameMenu
<1>4. ASSUME NEW e \in Entry, AddStep(e) PROVE NestingKept' /\ Nested'
  <2>1. current_menu[2] \in 1 .. n
    BY <1>4 DEF AddStep, Valid
  <2>2. Len(menus') = n /\ \A m \in 1 .. n : menus'[m].parent = menus[m].parent
    BY SMTT(30), <1>0, <1>4, <2>1, AddedVector DEF AddStep
  <2>3. QED
    BY <1>1, <1>4, <2>2 DEF AddStep
<1>5. ASSUME NEW id \in Id, NEW b \in Moves, RootStart(id, b) PROVE NestingKept' /\ Nested'
  BY <1>0, <1>5, StartNests DEF RootStart
<1>6. ASSUME NEW id \in Id, NEW b \in Moves, NestedStart(id, b) PROVE NestingKept' /\ Nested'
  <2> DEFINE v == Added(menus, current_menu[2], ItemFor(b))
  <2>1. current_menu[2] \in 1 .. n /\ ItemFor(b) \in Entry
    BY <1>0, <1>6, ItemTyped DEF NestedStart, Valid
  <2>2. /\ v \in Seq(Menu) /\ Len(v) = n
        /\ \A m \in 1 .. n : v[m].parent = menus[m].parent
    BY <1>0, <2>1, AddedVector
  <2> HIDE DEF v
  <2>3. QED
    BY <1>6, <2>2, StartNests DEF NestedStart, v
<1>7. CASE EndStep
  <2>1. /\ Reading /\ open \in Seq(1 .. n) /\ open # << >>
        /\ open' = SubSeq(open, 1, Len(open) - 1) /\ menus' = menus
        /\ \A i, j \in 1 .. Len(open) : i < j => open[i] < open[j]
        /\ menu_level = Len(open) /\ menu_level' = menu_level - 1
        /\ current_menu[2] = open[Len(open)]
        /\ current_menu' = menus[current_menu[2]].parent
        /\ \A i \in 1 .. Len(open) :
             menus[open[i]].parent[2] = IF i = 1 THEN 0 ELSE open[i - 1]
    BY <1>7 DEF EndStep, NestingKept, Nested, vector
  <2>2. /\ open' \in Seq(1 .. n) /\ Len(open) \in Nat /\ Len(open) > 0
        /\ Len(open') = Len(open) - 1
        /\ \A i \in 1 .. Len(open) - 1 : open'[i] = open[i]
    BY <2>1, Closed
  <2>3. current_menu'[2] = IF Len(open) = 1 THEN 0 ELSE open[Len(open) - 1]
    BY <2>1, <2>2
  <2>4. current_menu'[2] = IF open' = << >> THEN 0 ELSE open'[Len(open')]
    <3>1. CASE Len(open) = 1
      BY <2>2, <2>3, <3>1
    <3>2. CASE Len(open) # 1
      <4>1. Len(open) - 1 \in 1 .. Len(open) - 1 /\ Len(open') # 0
        BY <2>2, <3>2
      <4>2. open' # << >>
        BY <4>1
      <4>3. QED
        BY <2>2, <2>3, <3>2, <4>1, <4>2
    <3>3. QED
      BY <3>1, <3>2
  <2>5. \A i \in 1 .. Len(open') :
          /\ i \in 1 .. Len(open) /\ open'[i] = open[i]
          /\ i # 1 => open'[i - 1] = open[i - 1]
    BY <2>2
  <2>6. NestingKept'
    BY SMTT(30), <2>1, <2>2, <2>4, <2>5 DEF NestingKept
  <2>7. Nested'
    BY <2>1, <2>2, <2>5 DEF Nested
  <2>8. QED
    BY <2>6, <2>7
<1>8. CASE DeathStep
  BY <1>8 DEF DeathStep, Dies, Reading, NestingKept, Nested
<1>9. ASSUME NEW k, InitWith(k) PROVE NestingKept' /\ Nested'
  BY <1>9 DEF InitWith, Reading, NestingKept, Nested
<1>10. ASSUME NEW b, InitWithout(b) PROVE NestingKept' /\ Nested'
  BY <1>10 DEF InitWithout, Reading, NestingKept, Nested
<1>11. CASE menu_finish
  BY <1>11 DEF menu_finish, Reading, NestingKept, Nested
<1>12. QED
  BY <1>0, <1>2, <1>3, <1>4, <1>5, <1>6, <1>7, <1>8, <1>9, <1>10, <1>11 DEF Step
-----------------------------------------------------------------------------
(* Pointers.  Those of entries are in S, and those of menus, whose lists   *)
(* are at b, in T.                                                         *)

Into(v, S) == \A a, k, s : Leads(v, a, k, s) => s \in S
Under(v, b, T) == \A m \in 1 .. Len(v) : v[m].head = b /\ v[m].parent \in T

LEMMA IntoAdded ==
  ASSUME NEW v \in Seq(Menu), NEW q \in 1 .. Len(v), NEW e \in Entry,
         NEW S, Into(v, S), e.submenu \in S
  PROVE  Into(Added(v, q, e), S)
BY LeadsAdded DEF Into

LEMMA UnderAdded ==
  ASSUME NEW v \in Seq(Menu), NEW q \in 1 .. Len(v), NEW e \in Entry,
         NEW b, NEW T, Under(v, b, T)
  PROVE  Under(Added(v, q, e), b, T)
<1> DEFINE w == Added(v, q, e)
<1>1. Len(w) = Len(v)
      /\ \A m \in 1 .. Len(v) : w[m].head = v[m].head /\ w[m].parent = v[m].parent
  BY AddedVector
<1> HIDE DEF w
<1>2. QED
  BY <1>1 DEF Under, w

LEMMA IntoAppended ==
  ASSUME NEW v \in Seq(Menu), NEW new \in Menu, new.entries = << >>, NEW S, Into(v, S)
  PROVE  Into(Append(v, new), S)
BY LeadsAppended DEF Into

LEMMA UnderAppended ==
  ASSUME NEW v \in Seq(Menu), NEW new \in Menu, NEW b, NEW T,
         Under(v, b, T), new.head = b, new.parent \in T
  PROVE  Under(Append(v, new), b, T)
<1> DEFINE w == Append(v, new)
<1>1. Len(w) = Len(v) + 1 /\ Len(v) \in Nat /\ w[Len(v) + 1] = new
      /\ \A m \in 1 .. Len(v) : w[m] = v[m]
  BY AppendedVector
<1> HIDE DEF w
<1>2. \A m \in 1 .. Len(v) + 1 : m \in 1 .. Len(v) \/ m = Len(v) + 1
  BY <1>1
<1>3. QED
  BY <1>1, <1>2 DEF Under, w

LEMMA FillingSettles ==
  ASSUME NEW v \in Seq(Menu), NEW k \in 1 .. Len(v), NEW b, NEW S, Into(v, S), NULL \in S
  PROVE  /\ Into(Filled(v, k, b), S)
         /\ \A c, T : Under(v, c, T) => Under(Filled(v, k, b), c, T)
<1> DEFINE e == NewEntry(TRUE, NULL, 0)
           u == Added(v, k, e)
<1>1. CASE v[k].entries = << >> /\ v[k].head = b
  <2>1. e \in Entry /\ e.submenu \in S
    BY EntryTyped, NullTyped
  <2> HIDE DEF e
  <2>2. u \in Seq(Menu) /\ Len(u) = Len(v) /\ Into(u, S)
        /\ \A c, T : Under(v, c, T) => Under(u, c, T)
    BY <2>1, AddedVector, IntoAdded, UnderAdded
  <2> HIDE DEF u
  <2>3. Into(Added(u, k, e), S)
        /\ \A c, T : Under(u, c, T) => Under(Added(u, k, e), c, T)
    BY <2>1, <2>2, IntoAdded, UnderAdded
  <2>4. QED
    BY <1>1, <2>2, <2>3, FilledVector DEF e, u
<1>2. CASE ~ (v[k].entries = << >> /\ v[k].head = b)
  BY <1>2 DEF Filled
<1>3. QED
  BY <1>1, <1>2

LEMMA IntoGiven ==
  ASSUME NEW v \in Seq(Menu), NEW q, NEW n, NEW x \in Nat, NEW S, Into(v, S)
  PROVE  Into(Given(v, q, n, x), S)
BY LeadsGiven DEF Into

LEMMA UnderGiven ==
  ASSUME NEW v \in Seq(Menu), NEW q, NEW n, NEW x \in Nat, NEW b, NEW T, Under(v, b, T)
  PROVE  Under(Given(v, q, n, x), b, T)
<1> DEFINE w == Given(v, q, n, x)
<1>1. Len(w) = Len(v) /\ \A m \in 1 .. Len(v) : SameMenu(w[m], v[m])
  BY GivenVector
<1> HIDE DEF w
<1>2. QED
  BY <1>1 DEF Under, SameMenu, w

LEMMA IntoMore ==
  ASSUME NEW v, NEW S, NEW T, S \subseteq T, Into(v, S)
  PROVE  Into(v, T)
BY DEF Into

LEMMA UnderMore ==
  ASSUME NEW v, NEW b, NEW S, NEW T, S \subseteq T, Under(v, b, S)
  PROVE  Under(v, b, T)
BY DEF Under

(* The pointers to n menus; the sound ones, when the vector is at b.       *)
Numbered(n) == Nat \X (0 .. n)
Sound(b, n) == {NULL} \union ({b} \X (1 .. n))

LEMMA PointerSets ==
  ASSUME NEW n \in Nat, NEW b \in Nat
  PROVE  /\ Numbered(n) \subseteq Numbered(n + 1)
         /\ Sound(b, n) \subseteq Sound(b, n + 1)
         /\ Sound(b, n) \subseteq Numbered(n)
         /\ NULL \in Sound(b, n) /\ NULL \in Numbered(n)
         /\ << b, n + 1 >> \in Sound(b, n + 1) /\ << b, n + 1 >> \in Numbered(n + 1)
         /\ \A k \in 1 .. n : << b, k >> \in Sound(b, n) /\ << b, k >> \in Numbered(n)
BY DEF Numbered, Sound, NULL

(* All entries lead to menus, and as long as there are no more menus than  *)
(* the vector first has room for, it is where it was.                      *)
InRange == Into(menus, Numbered(Len(menus)))

Room ==
  /\ alloc_menus = 0 \/ alloc_menus >= 2 * Chunk
  /\ Len(menus) <= 2 * Chunk => alloc_menus <= 2 * Chunk

Settled ==
  Len(menus) <= 2 * Chunk /\ stage # "finished" =>
    /\ Into(menus, Sound(base, Len(menus)))
    /\ Under(menus, base, Sound(base, Len(menus)))
    /\ current_menu \in Sound(base, Len(menus))

LEMMA Stays ==
  ASSUME TypeOK, Room, NEW b \in Moves
  PROVE  /\ Len(menus) + 1 <= 2 * Chunk => b = base \/ Len(menus) = 0
         /\ Grown = 0 \/ Grown >= 2 * Chunk
         /\ Len(menus) + 1 <= 2 * Chunk => Grown <= 2 * Chunk
<1>1. base \in Nat /\ alloc_menus \in Nat /\ Len(menus) \in Nat
      /\ Len(menus) <= alloc_menus /\ Chunk \in Nat \ {0}
  BY FileAssumption DEF TypeOK
<1>2. QED
  BY <1>1 DEF Moves, Grown, Room

LEMMA Nowhere ==
  ASSUME NEW v, Len(v) = 0, NEW b, NEW S
  PROVE  Into(v, S) /\ Under(v, b, S)
BY DEF Into, Under, Leads

(* Where the vector moves, if it is not full, its pointers are sound.      *)
LEMMA MovesSettled ==
  ASSUME TypeOK, Room, Settled, Reading, NEW b \in Moves, Len(menus) + 1 <= 2 * Chunk
  PROVE  /\ Into(menus, Sound(b, Len(menus) + 1))
         /\ Under(menus, b, Sound(b, Len(menus) + 1))
         /\ current_menu \in Sound(b, Len(menus) + 1)
<1> DEFINE n == Len(menus)
<1>1. n \in Nat /\ base \in Nat /\ b \in Nat /\ n <= 2 * Chunk /\ stage # "finished"
  BY GrownTyped, FileAssumption DEF TypeOK, Reading
<1>2. /\ Into(menus, Sound(base, n)) /\ Under(menus, base, Sound(base, n))
      /\ current_menu \in Sound(base, n)
  BY <1>1 DEF Settled
<1>3. b = base \/ n = 0
  BY Stays
<1>4. CASE b = base
  <2>1. Sound(b, n) \subseteq Sound(b, n + 1)
    BY <1>1, PointerSets
  <2>2. QED
    BY <1>2, <1>4, <2>1, IntoMore, UnderMore
<1>5. CASE n = 0
  <2>1. current_menu = NULL
    BY <1>2, <1>5 DEF Sound
  <2>2. current_menu \in Sound(b, n + 1)
    BY <2>1 DEF Sound
  <2>3. QED
    BY <1>5, <2>2, Nowhere
<1>6. QED
  BY <1>3, <1>4, <1>5

LEMMA StartSettles ==
  ASSUME TypeOK, Room, Settled, NEW id \in Id, NEW b, NEW v \in Seq(Menu),
         Len(v) = Len(menus), Into(v, Numbered(Len(menus) + 1)),
         Len(menus) + 1 <= 2 * Chunk =>
           /\ Into(v, Sound(b, Len(menus) + 1)) /\ Under(v, b, Sound(b, Len(menus) + 1)),
         StartStep(id, b, v)
  PROVE  InRange' /\ Room' /\ Settled'
<1> DEFINE n == Len(menus)
           new == NewMenu(id, current_menu, b)
<1>1. n \in Nat /\ b \in Nat /\ current_menu \in Pointer /\ b \in Moves /\ Reading
  BY GrownTyped DEF TypeOK, StartStep
<1>2. new \in Menu /\ new.parent = current_menu /\ new.head = b /\ new.entries = << >>
  BY <1>1, MenuTyped
<1>3. /\ menus' = Append(v, new) /\ base' = b /\ alloc_menus' = Grown
      /\ current_menu' = << b, n + 1 >>
  BY DEF StartStep
<1> HIDE DEF new
<1>4. Len(menus') = n + 1
  BY <1>2, <1>3, AppendedVector
<1>5. InRange'
  BY <1>2, <1>3, <1>4, IntoAppended DEF InRange
<1>6. Room'
  BY <1>1, <1>3, <1>4, Stays DEF Room
<1>7. ASSUME n + 1 <= 2 * Chunk
      PROVE  /\ Into(menus', Sound(b, n + 1)) /\ Under(menus', b, Sound(b, n + 1))
             /\ current_menu' \in Sound(b, n + 1)
  <2>1. current_menu \in Sound(b, n + 1)
    BY <1>1, <1>7, MovesSettled
  <2>2. current_menu' \in Sound(b, n + 1)
    BY <1>1, <1>3, PointerSets
  <2>3. QED
    BY <1>2, <1>3, <1>7, <2>1, <2>2, IntoAppended, UnderAppended
<1>8. Settled'
  BY <1>3, <1>4, <1>7 DEF Settled
<1>9. QED
  BY <1>5, <1>6, <1>8

LEMMA Settles ==
  TypeOK /\ NestingKept /\ InRange /\ Room /\ Settled /\ [Next]_vars
    => InRange' /\ Room' /\ Settled'
<1> SUFFICES ASSUME TypeOK, NestingKept, InRange, Room, Settled, [Next]_vars
             PROVE  InRange' /\ Room' /\ Settled'
  OBVIOUS
<1> DEFINE n == Len(menus)
           Few == n <= 2 * Chunk /\ stage # "finished"
<1>0. /\ Step /\ menus \in Seq(Menu) /\ n \in Nat /\ base \in Nat
      /\ elements \in Nat /\ elements' \in Nat
  BY Steps, ElementsCounted, FileAssumption DEF TypeOK
<1>1. ASSUME UNCHANGED << base, alloc_menus >>, Len(menus') = n,
             stage = "finished" => stage' = "finished",
             Into(menus', Numbered(n)),
             Few => /\ Into(menus', Sound(base, n)) /\ Under(menus', base, Sound(base, n))
                    /\ current_menu' \in Sound(base, n)
      PROVE  InRange' /\ Room' /\ Settled'
  BY <1>1 DEF InRange, Room, Settled
<1>2. CASE Quiet \/ DeathStep
  <2>1. UNCHANGED << menus, base, alloc_menus, current_menu, stage >>
    BY <1>2 DEF Quiet, DeathStep, Dies, program, vector, level, still
  <2>2. QED
    BY <1>1, <2>1 DEF InRange, Settled
<1>3. CASE GivenStep
  <2>1. UNCHANGED << base, alloc_menus, current_menu, stage >>
    BY <1>3 DEF GivenStep, level, still
  <2>2. PICK q, k : menus' = Given(menus, q, k, elements)
    BY <1>3 DEF GivenStep
  <2>3. Len(menus') = n
    BY <1>0, <2>2, GivenVector
  <2>4. Into(menus', Numbered(n))
    BY <1>0, <2>2, IntoGiven DEF InRange
  <2>5. Few => Into(menus', Sound(base, n)) /\ Under(menus', base, Sound(base, n))
    BY <1>0, <2>2, IntoGiven, UnderGiven DEF Settled
  <2>6. QED
    BY <1>1, <2>1, <2>3, <2>4, <2>5 DEF Settled
<1>4. ASSUME NEW e \in Entry, AddStep(e) PROVE InRange' /\ Room' /\ Settled'
  <2>1. /\ current_menu[2] \in 1 .. n /\ menus' = Added(menus, current_menu[2], e)
        /\ UNCHANGED << base, alloc_menus, current_menu, stage >>
    BY <1>4 DEF AddStep, Valid, level, still
  <2>2. e.submenu \in Sound(base, n)
    BY <1>0, <1>4, PointerSets DEF AddStep, Plain, Refers
  <2>3. e.submenu \in Numbered(n)
    BY <1>0, <2>2, PointerSets
  <2>4. Len(menus') = n
    BY <1>0, <2>1, AddedVector
  <2>5. Into(menus', Numbered(n))
    BY <1>0, <2>1, <2>3, IntoAdded DEF InRange
  <2>6. Few => Into(menus', Sound(base, n)) /\ Under(menus', base, Sound(base, n))
    BY <1>0, <2>1, <2>2, IntoAdded, UnderAdded DEF Settled
  <2>7. QED
    BY <1>1, <2>1, <2>4, <2>5, <2>6 DEF Settled
<1>5. ASSUME NEW b \in Moves
      PROVE  Into(menus, Numbered(n + 1)) /\ b \in Nat
  BY <1>0, GrownTyped, PointerSets, IntoMore DEF InRange
<1>6. ASSUME NEW id \in Id, NEW b \in Moves, RootStart(id, b)
      PROVE  InRange' /\ Room' /\ Settled'
  <2>1. StartStep(id, b, menus) /\ Reading
    BY <1>6 DEF RootStart, StartStep
  <2>2. QED
    BY <1>0, <1>5, <2>1, MovesSettled, StartSettles
<1>7. ASSUME NEW id \in Id, NEW b \in Moves, NestedStart(id, b)
      PROVE  InRange' /\ Room' /\ Settled'
  <2> DEFINE q == current_menu[2]
             e == ItemFor(b)
             v == Added(menus, q, e)
  <2>1. Reading /\ q \in 1 .. n /\ StartStep(id, b, v)
    BY <1>7 DEF NestedStart, StartStep, Valid
  <2>2. e \in Entry /\ e.submenu \in Sound(b, n + 1) /\ e.submenu \in Numbered(n + 1)
    BY <1>0, <1>5, ItemTyped, PointerSets
  <2> HIDE DEF q, e
  <2>3. v \in Seq(Menu) /\ Len(v) = n
    BY <1>0, <2>1, <2>2, AddedVector
  <2>4. Into(v, Numbered(n + 1))
    BY <1>0, <1>5, <2>1, <2>2, IntoAdded
  <2>5. n + 1 <= 2 * Chunk => Into(v, Sound(b, n + 1)) /\ Under(v, b, Sound(b, n + 1))
    BY <1>0, <2>1, <2>2, MovesSettled, IntoAdded, UnderAdded
  <2> HIDE DEF v
  <2>6. QED
    BY <2>1, <2>3, <2>4, <2>5, StartSettles
<1>8. CASE EndStep
  <2>1. /\ current_menu[2] \in 1 .. n /\ current_menu' = menus[current_menu[2]].parent
        /\ UNCHANGED << menus, base, alloc_menus, stage >>
    BY <1>8 DEF EndStep, Valid, vector, still
  <2>2. QED
    BY <1>1, <2>1 DEF InRange, Settled, Under
<1>9. ASSUME NEW k \in 1 .. n, InitWith(k) PROVE InRange' /\ Room' /\ Settled'
  <2>1. /\ menus' = Filled(menus, k, base) /\ stage # "finished"
        /\ UNCHANGED << base, alloc_menus, current_menu >>
    BY <1>9 DEF InitWith, level, Reading
  <2>2. Len(menus') = n
    BY <1>0, <2>1, FilledTyped
  <2>3. NULL \in Numbered(n) /\ NULL \in Sound(base, n)
    BY <1>0, PointerSets
  <2>4. Into(menus', Numbered(n))
    BY <1>0, <2>1, <2>3, FillingSettles DEF InRange
  <2>5. Few => Into(menus', Sound(base, n)) /\ Under(menus', base, Sound(base, n))
    BY <1>0, <2>1, <2>3, FillingSettles DEF Settled
  <2>6. QED
    BY <1>1, <2>1, <2>2, <2>4, <2>5 DEF Settled
<1>10. ASSUME NEW b \in Moves, InitWithout(b) PROVE InRange' /\ Room' /\ Settled'
  <2> DEFINE u == Rooted(b)
             new == NewMenu(RootId, current_menu, b)
  <2>1. /\ menus' = Filled(u, n + 1, b) /\ base' = b /\ alloc_menus' = Grown
        /\ UNCHANGED current_menu /\ Reading
    BY <1>10 DEF InitWithout, level
  <2>2. new \in Menu /\ new.parent = current_menu /\ new.head = b /\ new.entries = << >>
    BY <1>5, FileAssumption, MenuTyped DEF TypeOK
  <2>3. u = Append(menus, new)
    BY DEF Rooted
  <2> HIDE DEF new, u
  <2>4. u \in Seq(Menu) /\ Len(u) = n + 1 /\ n + 1 \in 1 .. Len(u)
    BY <1>0, <2>2, <2>3, AppendedVector
  <2>5. NULL \in Numbered(n + 1) /\ NULL \in Sound(b, n + 1)
    BY <1>0, <1>5, PointerSets
  <2>6. Len(menus') = n + 1
    BY <2>1, <2>4, FilledTyped
  <2>7. Into(u, Numbered(n + 1))
    BY <1>0, <1>5, <2>2, <2>3, IntoAppended
  <2>8. Into(menus', Numbered(n + 1))
    BY <2>1, <2>4, <2>5, <2>7, FillingSettles
  <2>9. ASSUME n + 1 <= 2 * Chunk
        PROVE  /\ Into(menus', Sound(b, n + 1)) /\ Under(menus', b, Sound(b, n + 1))
               /\ current_menu \in Sound(b, n + 1)
    <3>1. /\ Into(menus, Sound(b, n + 1)) /\ Under(menus, b, Sound(b, n + 1))
          /\ current_menu \in Sound(b, n + 1)
      BY <2>1, <2>9, MovesSettled
    <3>2. Into(u, Sound(b, n + 1)) /\ Under(u, b, Sound(b, n + 1))
      BY <1>0, <2>2, <2>3, <3>1, IntoAppended, UnderAppended
    <3>3. QED
      BY <2>1, <2>4, <2>5, <3>1, <3>2, FillingSettles
  <2>10. Room'
    BY <1>0, <2>1, <2>6, Stays DEF Room
  <2>11. QED
    BY <2>1, <2>6, <2>8, <2>9, <2>10 DEF InRange, Settled
<1>11. CASE menu_finish
  <2>1. stage' = "finished" /\ UNCHANGED base
        /\ \/ UNCHANGED << menus, alloc_menus >>
           \/ menus' = << >> /\ alloc_menus' = 0
    BY <1>11 DEF menu_finish
  <2>2. Settled'
    BY <2>1 DEF Settled
  <2>3. CASE UNCHANGED << menus, alloc_menus >>
    BY <2>2, <2>3 DEF InRange, Room
  <2>4. CASE menus' = << >> /\ alloc_menus' = 0
    <3>1. Len(menus') = 0 /\ 0 <= 2 * Chunk
      BY <2>4, FileAssumption
    <3>2. InRange' /\ Room'
      BY <2>4, <3>1, Nowhere DEF InRange, Room
    <3>3. QED
      BY <2>2, <3>2
  <2>5. QED
    BY <2>1, <2>3, <2>4
<1>12. QED
  BY <1>0, <1>2, <1>3, <1>4, <1>6, <1>7, <1>8, <1>9, <1>10, <1>11 DEF Step
-----------------------------------------------------------------------------
(* Recursions.  They use no pointer that is not sound, and they end if the *)
(* menus have ranks: those below a menu have smaller ranks than it.        *)

LEMMA SubmenusOpened ==
  ASSUME NEW v \in Seq(Menu), NEW a \in 1 .. Len(v), NEW d
  PROVE  d \in Submenus(v, a) <=> d # 0 /\ \E k : Opens(v, a, k, d)
BY DEF Submenus, Opens, Leads

LEMMA RecursionSound ==
  ASSUME NEW v \in Seq(Menu), NEW k \in 1 .. Len(v), NEW b, NEW n, NEW T,
         Into(v, Sound(b, n)), Under(v, b, T)
  PROVE  Recursion(v, k, b) # "undefined"
<1> DEFINE ms == Below(v, k) \union {k}
<1>1. ms \subseteq 1 .. Len(v)
  BY DEF Below
<1>2. ASSUME NEW m \in ms, NEW i \in 1 .. Len(v[m].entries)
      PROVE  v[m].entries[i].submenu[1] \in {0, b}
  <2>1. Leads(v, m, i, v[m].entries[i].submenu)
    BY <1>1 DEF Leads
  <2>2. v[m].entries[i].submenu \in Sound(b, n)
    BY <2>1 DEF Into
  <2>3. QED
    BY <2>2 DEF Sound, NULL
<1>3. \A m \in ms : v[m].head = b
  BY <1>1 DEF Under
<1> HIDE DEF ms
<1>4. ~ (\E m \in ms : \/ v[m].head # b
                       \/ \E i \in 1 .. Len(v[m].entries) :
                            v[m].entries[i].submenu[1] \notin {0, b})
  BY <1>2, <1>3
<1>5. QED
  BY <1>4 DEF Recursion, ms

Ranks(v, f) ==
  \A a, k, d : Opens(v, a, k, d) /\ d # 0 => d \in 1 .. Len(v) /\ f[d] < f[a]

LEMMA NoneBelowItself ==
  ASSUME NEW v \in Seq(Menu), NEW f \in [Nat -> Nat], Ranks(v, f),
         NEW m \in 1 .. Len(v)
  PROVE  m \notin Below(v, m)
<1> SUFFICES ASSUME m \in Below(v, m) PROVE FALSE
  OBVIOUS
<1> DEFINE S == {x \in 1 .. Len(v) : f[x] < f[m]}
<1>1. Submenus(v, m) \subseteq S
  BY SubmenusOpened DEF Ranks
<1>2. ASSUME NEW x \in S, NEW d \in Submenus(v, x) PROVE d \in S
  <2>1. d \in 1 .. Len(v) /\ f[d] < f[x]
    BY <1>2, SubmenusOpened DEF Ranks
  <2>2. f[d] \in Nat /\ f[x] \in Nat /\ f[m] \in Nat /\ f[x] < f[m]
    BY <2>1
  <2>3. QED
    BY <2>1, <2>2
<1>3. S \in SUBSET (1 .. Len(v))
  OBVIOUS
<1>4. m \in S
  <2> HIDE DEF S
  <2>1. QED
    BY <1>1, <1>2, <1>3 DEF Below
<1>5. QED
  BY <1>4

LEMMA RecursionEnds ==
  ASSUME NEW v \in Seq(Menu), NEW k \in 1 .. Len(v), NEW b,
         NEW f \in [Nat -> Nat], Ranks(v, f)
  PROVE  Recursion(v, k, b) # "exhausted"
<1>1. \A m \in 1 .. Len(v) : m \notin Below(v, m)
  BY NoneBelowItself
<1>2. Below(v, k) \union {k} \subseteq 1 .. Len(v)
  BY DEF Below
<1>3. ~ (\E m \in Below(v, k) \union {k} : m \in Below(v, m))
  BY <1>1, <1>2
<1>4. QED
  BY <1>3 DEF Recursion

(* Closed menus have ranks below n; an open one opens closed ones and the  *)
(* one opened next only.                                                   *)
In(o, a) == \E i \in 1 .. Len(o) : o[i] = a
Successive(o, a, d) == \E i \in 1 .. Len(o) - 1 : o[i] = a /\ o[i + 1] = d

Ordered(v, o, f, n) ==
  /\ f \in [Nat -> Nat] /\ n \in Nat
  /\ \A a \in 1 .. Len(v) : ~ In(o, a) => f[a] < n
  /\ \A a, k, d : Opens(v, a, k, d) /\ d # 0 =>
       /\ In(o, a) => ~ In(o, d) \/ Successive(o, a, d)
       /\ ~ In(o, a) => ~ In(o, d) /\ f[d] < f[a]

Ranked ==
  Reading /\ ~ looped => \E f, n : Ordered(menus, open, f, n)

LEMMA OpensFilled ==
  ASSUME NEW v \in Seq(Menu), NEW q \in 1 .. Len(v), NEW b, NEW a, NEW k, NEW d, d # 0
  PROVE  Opens(Filled(v, q, b), a, k, d) <=> Opens(v, a, k, d)
<1> DEFINE e == NewEntry(TRUE, NULL, 0)
           u == Added(v, q, e)
<1>1. CASE v[q].entries = << >> /\ v[q].head = b
  <2>1. e \in Entry /\ e.submenu[2] = 0
    <3>1. e \in Entry /\ e.submenu = NULL
      BY EntryTyped, NullTyped
    <3>2. QED
      BY <3>1, NullTyped
  <2> HIDE DEF e
  <2>2. u \in Seq(Menu) /\ Len(u) = Len(v) /\ (Opens(u, a, k, d) <=> Opens(v, a, k, d))
    BY <2>1, AddedVector, OpensAdded
  <2> HIDE DEF u
  <2>3. Opens(Added(u, q, e), a, k, d) <=> Opens(u, a, k, d)
    BY <2>1, <2>2, OpensAdded
  <2>4. QED
    BY <1>1, <2>2, <2>3, FilledVector DEF e, u
<1>2. CASE ~ (v[q].entries = << >> /\ v[q].head = b)
  BY <1>2 DEF Filled
<1>3. QED
  BY <1>1, <1>2

LEMMA OpensInRange ==
  ASSUME TypeOK, InRange, NEW a, NEW k, NEW d, Opens(menus, a, k, d)
  PROVE  /\ a \in 1 .. Len(menus) /\ d \in 0 .. Len(menus)
         /\ d # 0 => d \in 1 .. Len(menus)
         /\ d # Len(menus) + 1
<1>1. PICK s : Leads(menus, a, k, s) /\ s[2] = d
  BY DEF Opens
<1>2. s \in Numbered(Len(menus)) /\ a \in 1 .. Len(menus)
  BY <1>1 DEF InRange, Into, Leads
<1>3. Len(menus) \in Nat
  BY DEF TypeOK
<1>4. QED
  BY <1>1, <1>2, <1>3 DEF Numbered

LEMMA RankAdded ==
  ASSUME TypeOK, InRange, Reading, NestingKept, NEW e \in Entry,
         current_menu[2] \in 1 .. Len(menus),
         e.submenu[2] = 0 \/ ~ In(open, e.submenu[2]),
         NEW f, NEW n, Ordered(menus, open, f, n)
  PROVE  Ordered(Added(menus, current_menu[2], e), open, f, n)
<1> DEFINE q == current_menu[2]
           w == Added(menus, q, e)
<1>1. open # << >> /\ q = open[Len(open)]
  <2>1. q = IF open = << >> THEN 0 ELSE open[Len(open)]
    BY DEF NestingKept
  <2>2. q # 0
    BY DEF TypeOK
  <2>3. QED
    BY <2>1, <2>2
<1>2. In(open, q)
  <2>1. Len(open) \in 1 .. Len(open)
    <3>1. open \in Seq(Nat \ {0})
      BY DEF TypeOK
    <3>2. QED
      BY <1>1, <3>1
  <2>2. QED
    BY <1>1, <2>1 DEF In
<1>3. menus \in Seq(Menu) /\ Len(w) = Len(menus)
  BY AddedVector DEF TypeOK
<1>4. \A a, k, d : Opens(w, a, k, d) =>
        Opens(menus, a, k, d) \/ (a = q /\ d = e.submenu[2])
  BY <1>3, OpensAdded
<1> HIDE DEF w, q
<1>5. QED
  BY <1>2, <1>3, <1>4 DEF Ordered, w, q

LEMMA RankStarted ==
  ASSUME TypeOK, InRange, Reading, NestingKept, Nested,
         NEW w, Len(w) = Len(menus) + 1,
         \A a, k, d : Opens(w, a, k, d) =>
           \/ Opens(menus, a, k, d)
           \/ open # << >> /\ a = open[Len(open)] /\ d = Len(menus) + 1,
         NEW f, NEW n, Ordered(menus, open, f, n)
  PROVE  Ordered(w, Append(open, Len(menus) + 1), f, n)
<1> DEFINE c == Len(menus)
           o == Append(open, c + 1)
<1>1. c \in Nat /\ open \in Seq(1 .. c)
  BY DEF TypeOK, Nested
<1>2. /\ Len(open) \in Nat /\ Len(o) = Len(open) + 1 /\ o[Len(open) + 1] = c + 1
      /\ \A i \in 1 .. Len(open) : o[i] = open[i] /\ open[i] \in 1 .. c
  BY <1>1, Opened
<1> HIDE DEF c, o
<1>3. \A i \in 1 .. Len(o) : i \in 1 .. Len(open) \/ i = Len(open) + 1
  BY <1>2
<1>4. \A a : In(o, a) <=> (In(open, a) \/ a = c + 1)
  <2>1. ASSUME NEW a, In(o, a) PROVE In(open, a) \/ a = c + 1
    BY <1>2, <1>3, <2>1 DEF In
  <2>2. ASSUME NEW a, In(open, a) \/ a = c + 1 PROVE In(o, a)
    <3>1. Len(open) + 1 \in 1 .. Len(o) /\ \A i \in 1 .. Len(open) : i \in 1 .. Len(o)
      BY <1>2
    <3>2. QED
      BY <1>2, <2>2, <3>1 DEF In
  <2>3. QED
    BY <2>1, <2>2
<1>5. ASSUME NEW a, NEW d, Successive(open, a, d) PROVE Successive(o, a, d)
  <2>1. PICK i \in 1 .. Len(open) - 1 : open[i] = a /\ open[i + 1] = d
    BY <1>5 DEF Successive
  <2>2. i \in 1 .. Len(open) /\ i + 1 \in 1 .. Len(open) /\ i \in 1 .. Len(o) - 1
    BY <1>2
  <2>3. QED
    BY <1>2, <2>1, <2>2 DEF Successive
<1>6. ASSUME open # << >> PROVE Successive(o, open[Len(open)], c + 1) /\ In(open, open[Len(open)])
  <2>1. Len(open) # 0
    BY <1>1, <1>6
  <2>2. Len(open) \in 1 .. Len(open) /\ Len(open) \in 1 .. Len(o) - 1
    BY <1>2, <2>1
  <2>3. QED
    BY <1>2, <2>2 DEF Successive, In
<1>7. ASSUME NEW a \in 1 .. Len(w), ~ In(o, a) PROVE f[a] < n
  <2>1. a # c + 1 /\ ~ In(open, a)
    BY <1>4, <1>7
  <2>2. a \in 1 .. c
    BY <1>1, <2>1 DEF c
  <2>3. QED
    BY <2>1, <2>2 DEF Ordered, c
<1>8. ASSUME NEW a, NEW k, NEW d, Opens(w, a, k, d), d # 0
      PROVE  /\ In(o, a) => ~ In(o, d) \/ Successive(o, a, d)
             /\ ~ In(o, a) => ~ In(o, d) /\ f[d] < f[a]
  <2>1. CASE Opens(menus, a, k, d)
    <3>1. a # c + 1 /\ d # c + 1
      BY <1>1, <2>1, OpensInRange DEF c
    <3>2. QED
      BY <1>4, <1>5, <1>8, <2>1, <3>1 DEF Ordered
  <2>2. CASE open # << >> /\ a = open[Len(open)] /\ d = c + 1
    BY <1>4, <1>6, <2>2
  <2>3. QED
    BY <1>8, <2>1, <2>2 DEF c
<1>9. QED
  BY <1>7, <1>8 DEF Ordered, c, o

(* The menu that is closed gets the rank n. *)
LEMMA RankClosed ==
  ASSUME TypeOK, InRange, Reading, Nested, open # << >>,
         NEW f, NEW n, Ordered(menus, open, f, n)
  PROVE  \E g : Ordered(menus, SubSeq(open, 1, Len(open) - 1), g, n + 1)
<1> DEFINE c == Len(menus)
           o == SubSeq(open, 1, Len(open) - 1)
           m == open[Len(open)]
           g == [f EXCEPT ![m] = n]
<1>0. n \in Nat /\ n + 1 \in Nat
  BY DEF Ordered
<1>1. /\ c \in Nat /\ open \in Seq(1 .. c)
      /\ \A i, j \in 1 .. Len(open) : i < j => open[i] < open[j]
  BY DEF TypeOK, Nested
<1>2. /\ Len(open) \in Nat /\ Len(open) > 0 /\ Len(o) = Len(open) - 1
      /\ \A i \in 1 .. Len(open) - 1 : o[i] = open[i]
      /\ \A i \in 1 .. Len(open) : open[i] \in 1 .. c
  BY <1>1, Closed
<1> HIDE DEF c, o, m, g
<1>3. /\ Len(open) \in 1 .. Len(open) /\ m \in 1 .. c /\ m \in Nat /\ In(open, m)
  <2>1. Len(open) \in 1 .. Len(open)
    BY <1>2
  <2>2. m \in 1 .. c
    BY <1>2, <2>1 DEF m
  <2>3. QED
    BY <2>1, <2>2 DEF In, m
<1>4. g \in [Nat -> Nat] /\ g[m] = n /\ \A x \in Nat : x # m => g[x] = f[x]
  BY <1>3 DEF g, Ordered
<1>5. \A i \in 1 .. Len(open) - 1 : i \in 1 .. Len(open) /\ open[i] # m
  <2>1. ASSUME NEW i \in 1 .. Len(open) - 1 PROVE i \in 1 .. Len(open) /\ open[i] # m
    <3>1. i \in 1 .. Len(open) /\ i < Len(open)
      BY <1>2
    <3>2. open[i] < m /\ open[i] \in Nat /\ m \in Nat
      BY <1>1, <1>2, <1>3, <3>1 DEF m
    <3>3. QED
      BY <3>1, <3>2
  <2>2. QED
    BY <2>1
<1>6. \A a : In(open, a) <=> (In(o, a) \/ a = m)
  <2>1. ASSUME NEW a, In(open, a) PROVE In(o, a) \/ a = m
    <3>1. PICK i \in 1 .. Len(open) : open[i] = a
      BY <2>1 DEF In
    <3>2. i \in 1 .. Len(open) - 1 \/ i = Len(open)
      BY <1>2
    <3>3. QED
      BY <1>2, <3>1, <3>2 DEF In, m
  <2>2. ASSUME NEW a, In(o, a) PROVE In(open, a)
    BY <1>2, <1>5, <2>2 DEF In
  <2>3. QED
    BY <1>3, <2>1, <2>2
<1>7. ~ In(o, m)
  BY <1>2, <1>5 DEF In
<1>8. ASSUME NEW a, NEW d, Successive(open, a, d)
      PROVE  a # m /\ (Successive(o, a, d) \/ d = m)
  <2>1. PICK i \in 1 .. Len(open) - 1 : open[i] = a /\ open[i + 1] = d
    BY <1>8 DEF Successive
  <2>2. a # m
    BY <1>5, <2>1
  <2>3. CASE i + 1 = Len(open)
    BY <2>1, <2>2, <2>3 DEF m
  <2>4. CASE i + 1 # Len(open)
    <3>1. i \in 1 .. Len(o) - 1 /\ i + 1 \in 1 .. Len(open) - 1
      BY <1>2, <2>4
    <3>2. QED
      BY <1>2, <2>1, <2>2, <3>1 DEF Successive
  <2>5. QED
    BY <2>3, <2>4
<1>9. \A a \in 1 .. c : ~ In(open, a) => f[a] < n /\ a \in Nat /\ f[a] \in Nat
  BY <1>1 DEF Ordered, c
<1>10. \A a \in 1 .. c : a = m => g[a] = n
  BY <1>4
<1>11. \A a \in 1 .. c : a \in Nat /\ (a # m => g[a] = f[a])
  <2>1. ASSUME NEW a \in 1 .. c PROVE a \in Nat
    BY <1>1 DEF c
  <2>2. QED
    BY <1>4, <2>1
<1>12. ASSUME NEW a \in 1 .. c, ~ In(o, a) PROVE g[a] < n + 1
  <2>1. CASE a = m
    BY <1>0, <1>10, <2>1
  <2>2. CASE a # m
    <3>1. f[a] < n /\ f[a] \in Nat /\ g[a] = f[a]
      BY <1>6, <1>9, <1>12, <1>11, <2>2
    <3>2. QED
      BY <1>0, <3>1
  <2>3. QED
    BY <2>1, <2>2
<1>13. ASSUME NEW a, NEW k, NEW d, Opens(menus, a, k, d), d # 0
       PROVE  /\ In(o, a) => ~ In(o, d) \/ Successive(o, a, d)
              /\ ~ In(o, a) => ~ In(o, d) /\ g[d] < g[a]
  <2>1. a \in 1 .. c /\ d \in 1 .. c /\ a \in Nat /\ d \in Nat
    BY <1>1, <1>13, OpensInRange DEF c
  <2>2. /\ In(open, a) => ~ In(open, d) \/ Successive(open, a, d)
        /\ ~ In(open, a) => ~ In(open, d) /\ f[d] < f[a]
    BY <1>13 DEF Ordered
  <2>3. CASE In(o, a)
    BY <1>6, <1>7, <1>8, <2>2, <2>3
  <2>4. CASE a = m
    <3>1. ~ In(open, d) /\ d # m
      BY <1>3, <1>6, <1>8, <2>2, <2>4
    <3>2. f[d] < n /\ g[d] = f[d] /\ g[a] = n
      BY <1>4, <1>9, <2>1, <2>4, <3>1
    <3>3. QED
      BY <1>6, <1>7, <2>4, <3>1, <3>2
  <2>5. CASE ~ In(o, a) /\ a # m
    <3>1. ~ In(open, d) /\ d # m /\ f[d] < f[a]
      BY <1>6, <2>2, <2>5
    <3>2. g[d] = f[d] /\ g[a] = f[a]
      BY <1>4, <2>1, <2>5, <3>1
    <3>3. QED
      BY <1>6, <2>5, <3>1, <3>2
  <2>6. QED
    BY <2>3, <2>4, <2>5
<1>14. Ordered(menus, o, g, n + 1)
  <2>1. g \in [Nat -> Nat]
    BY <1>4
  <2>2. QED
    BY <1>0, <1>12, <1>13, <2>1 DEF Ordered, c
<1>15. QED
  BY <1>14 DEF o

LEMMA SameOrder ==
  ASSUME NEW v, NEW w, Len(w) = Len(v),
         \A a, k, d : Opens(w, a, k, d) /\ d # 0 => Opens(v, a, k, d),
         NEW o, NEW f, NEW n, Ordered(v, o, f, n)
  PROVE  Ordered(w, o, f, n)
BY DEF Ordered

LEMMA OpensGiven ==
  ASSUME NEW v \in Seq(Menu), NEW q, NEW n, NEW x \in Nat, NEW a, NEW k, NEW d
  PROVE  Opens(Given(v, q, n, x), a, k, d) <=> Opens(v, a, k, d)
BY LeadsGiven DEF Opens

LEMMA Ranking ==
  TypeOK /\ NestingKept /\ Nested /\ InRange /\ Ranked /\ [Next]_vars => Ranked'
<1> SUFFICES ASSUME TypeOK, NestingKept, Nested, InRange, Ranked, [Next]_vars,
                    Reading', ~ looped'
             PROVE  \E f, n : Ordered(menus', open', f, n)
  BY DEF Ranked
<1>0. Step /\ menus \in Seq(Menu) /\ elements \in Nat /\ elements' \in Nat
  BY Steps, ElementsCounted, FileAssumption DEF TypeOK
<1>1. ASSUME ~ looped, Reading PROVE \E f, n : Ordered(menus, open, f, n)
  BY <1>1 DEF Ranked
<1>2. CASE Quiet
  <2>1. UNCHANGED << menus, open, looped >> /\ Reading
    BY <1>2 DEF Quiet, vector, history, still, Reading
  <2>2. QED
    BY <1>1, <2>1
<1>3. CASE GivenStep
  <2>1. UNCHANGED << open, looped >> /\ Reading
    BY <1>3 DEF GivenStep, history
  <2>2. PICK q, k : menus' = Given(menus, q, k, elements)
    BY <1>3 DEF GivenStep
  <2>3. PICK f, n : Ordered(menus, open, f, n)
    BY <1>1, <2>1
  <2>4. Len(menus') = Len(menus)
        /\ \A a, i, d : Opens(menus', a, i, d) => Opens(menus, a, i, d)
    BY <1>0, <2>2, GivenVector, OpensGiven
  <2>5. Ordered(menus', open', f, n)
    BY <2>1, <2>3, <2>4, SameOrder
  <2>6. QED
    BY <2>5
<1>4. ASSUME NEW e \in Entry, AddStep(e) PROVE \E f, n : Ordered(menus', open', f, n)
  <2>1. /\ Reading /\ current_menu[2] \in 1 .. Len(menus) /\ UNCHANGED open
        /\ menus' = Added(menus, current_menu[2], e) /\ (Plain(e) \/ Refers(e))
    BY <1>4 DEF AddStep, Valid
  <2>2. ~ looped /\ (e.submenu[2] = 0 \/ ~ In(open, e.submenu[2]))
    <3>1. CASE Plain(e)
      BY <3>1, NullTyped DEF Plain, history
    <3>2. CASE Refers(e)
      <4>1. PICK k \in 1 .. Len(menus) :
              /\ e.submenu = << base, k >>
              /\ looped' = (looped \/ \E i \in 1 .. Len(open) : open[i] = k)
        BY <3>2 DEF Refers
      <4>2. ~ looped /\ ~ In(open, k)
        BY <4>1, Zenon DEF In
      <4>3. e.submenu[2] = k
        BY <4>1
      <4>4. QED
        BY <4>2, <4>3
    <3>3. QED
      BY <2>1, <3>1, <3>2
  <2>3. PICK f, n : Ordered(menus, open, f, n)
    BY <1>1, <2>1, <2>2
  <2>4. Ordered(menus', open', f, n)
    BY <2>1, <2>2, <2>3, RankAdded
  <2>5. QED
    BY <2>4
<1>5. ASSUME NEW id \in Id, NEW b \in Moves, RootStart(id, b)
      PROVE  \E f, n : Ordered(menus', open', f, n)
  <2> DEFINE new == NewMenu(id, current_menu, b)
  <2>1. /\ Reading /\ ~ looped /\ open' = Append(open, Len(menus) + 1)
        /\ menus' = Append(menus, new)
    BY <1>5 DEF RootStart, StartStep, history
  <2>2. new \in Menu /\ new.entries = << >>
    BY GrownTyped, MenuTyped DEF TypeOK
  <2> HIDE DEF new
  <2>3. PICK f, n : Ordered(menus, open, f, n)
    BY <1>1, <2>1
  <2>4. Len(menus') = Len(menus) + 1
        /\ \A a, k, d : Opens(menus', a, k, d) => Opens(menus, a, k, d)
    BY <1>0, <2>1, <2>2, AppendedVector, OpensAppended
  <2>5. Ordered(menus', open', f, n)
    BY <2>1, <2>3, <2>4, RankStarted
  <2>6. QED
    BY <2>5
<1>6. ASSUME NEW id \in Id, NEW b \in Moves, NestedStart(id, b)
      PROVE  \E f, n : Ordered(menus', open', f, n)
  <2> DEFINE new == NewMenu(id, current_menu, b)
             q == current_menu[2]
             e == ItemFor(b)
             v == Added(menus, q, e)
  <2>1. /\ Reading /\ ~ looped /\ open' = Append(open, Len(menus) + 1)
        /\ menus' = Append(v, new) /\ q \in 1 .. Len(menus) /\ menu_level > 0
    BY <1>6 DEF NestedStart, StartStep, history, Valid
  <2>2. new \in Menu /\ new.entries = << >>
    BY GrownTyped, MenuTyped DEF TypeOK
  <2>3. e \in Entry /\ e.submenu[2] = Len(menus) + 1
    BY <1>0, ItemTyped
  <2>4. open # << >> /\ q = open[Len(open)]
    <3>1. menu_level = Len(open) /\ q = IF open = << >> THEN 0 ELSE open[Len(open)]
      BY <2>1 DEF NestingKept
    <3>2. open # << >>
      BY <2>1, <3>1
    <3>3. QED
      BY <3>1, <3>2
  <2> HIDE DEF new, q, e
  <2>5. v \in Seq(Menu) /\ Len(v) = Len(menus)
        /\ \A a, k, d : Opens(v, a, k, d) =>
             Opens(menus, a, k, d) \/ (a = q /\ d = Len(menus) + 1)
    BY <1>0, <2>1, <2>3, AddedVector, OpensAdded
  <2> HIDE DEF v
  <2>6. PICK f, n : Ordered(menus, open, f, n)
    BY <1>1, <2>1
  <2>7. Len(menus') = Len(menus) + 1
        /\ \A a, k, d : Opens(menus', a, k, d) =>
             \/ Opens(menus, a, k, d)
             \/ open # << >> /\ a = open[Len(open)] /\ d = Len(menus) + 1
    BY <2>1, <2>2, <2>4, <2>5, AppendedVector, OpensAppended
  <2>8. Ordered(menus', open', f, n)
    BY <2>1, <2>6, <2>7, RankStarted
  <2>9. QED
    BY <2>8
<1>7. CASE EndStep
  <2>1. /\ Reading /\ open # << >> /\ UNCHANGED << menus, looped >>
        /\ open' = SubSeq(open, 1, Len(open) - 1)
    BY <1>7 DEF EndStep, vector, history
  <2>2. PICK f, n : Ordered(menus, open, f, n)
    BY <1>1, <2>1
  <2>3. QED
    BY <2>1, <2>2, RankClosed
<1>8. CASE DeathStep \/ menu_finish \/ (\E k : InitWith(k)) \/ (\E b : InitWithout(b))
  BY <1>8 DEF DeathStep, Dies, menu_finish, InitWith, InitWithout, Reading
<1>9. QED
  BY <1>0, <1>2, <1>3, <1>4, <1>5, <1>6, <1>7, <1>8 DEF Step

(* When no menu is open any more, all of them have ranks. *)
LEMMA AllRanked ==
  ASSUME TypeOK, InRange, Reading, open = << >>, NEW f, NEW n, Ordered(menus, open, f, n)
  PROVE  f \in [Nat -> Nat] /\ Ranks(menus, f)
<1>1. \A a : ~ In(open, a)
  BY DEF In
<1>2. QED
  BY <1>1, OpensInRange DEF Ordered, Ranks

(* menu_init adds no submenus, so that the ranks remain ranks.             *)
Ending == (\E k \in 1 .. Len(menus) : InitWith(k)) \/ (\E b \in Moves : InitWithout(b))

LEMMA EndOpens ==
  ASSUME TypeOK, Ending
  PROVE  /\ Reading /\ open = << >> /\ menus' \in Seq(Menu) /\ Len(menus') >= Len(menus)
         /\ \A a, i, d : Opens(menus', a, i, d) /\ d # 0 => Opens(menus, a, i, d)
<1>0. menus \in Seq(Menu) /\ Len(menus) \in Nat
  BY DEF TypeOK
<1>1. ASSUME NEW k \in 1 .. Len(menus), InitWith(k)
      PROVE  /\ Reading /\ open = << >> /\ menus' \in Seq(Menu) /\ Len(menus') >= Len(menus)
             /\ \A a, i, d : Opens(menus', a, i, d) /\ d # 0 => Opens(menus, a, i, d)
  <2>1. menus' = Filled(menus, k, base) /\ Reading /\ open = << >>
    BY <1>1 DEF InitWith
  <2>2. /\ menus' \in Seq(Menu) /\ Len(menus') = Len(menus)
        /\ \A a, i, d : Opens(menus', a, i, d) /\ d # 0 => Opens(menus, a, i, d)
    BY <1>0, <2>1, FilledTyped, OpensFilled
  <2>3. QED
    BY <1>0, <2>1, <2>2
<1>2. ASSUME NEW b \in Moves, InitWithout(b)
      PROVE  /\ Reading /\ open = << >> /\ menus' \in Seq(Menu) /\ Len(menus') >= Len(menus)
             /\ \A a, i, d : Opens(menus', a, i, d) /\ d # 0 => Opens(menus, a, i, d)
  <2> DEFINE u == Rooted(b)
             new == NewMenu(RootId, current_menu, b)
             k == Len(menus) + 1
  <2>1. menus' = Filled(u, k, b) /\ Reading /\ open = << >>
    BY <1>2 DEF InitWithout
  <2>2. new \in Menu /\ new.entries = << >>
    BY FileAssumption, GrownTyped, MenuTyped DEF TypeOK
  <2>3. u = Append(menus, new)
    BY DEF Rooted
  <2> HIDE DEF new, u
  <2>4. u \in Seq(Menu) /\ Len(u) = k /\ k \in 1 .. Len(u)
    BY <1>0, <2>2, <2>3, AppendedVector
  <2>5. \A a, i, d : Opens(u, a, i, d) => Opens(menus, a, i, d)
    BY <1>0, <2>2, <2>3, OpensAppended
  <2>6. /\ menus' \in Seq(Menu) /\ Len(menus') = k
        /\ \A a, i, d : Opens(menus', a, i, d) /\ d # 0 => Opens(menus, a, i, d)
    BY <2>1, <2>4, <2>5, FilledTyped, OpensFilled
  <2>7. QED
    BY <1>0, <2>1, <2>6
<1>3. QED
  BY <1>1, <1>2 DEF Ending

LEMMA EndRanks ==
  ASSUME TypeOK, InRange, Ranked, ~ looped, Ending
  PROVE  \E f \in [Nat -> Nat] : Ranks(menus', f)
<1>1. /\ Reading /\ open = << >> /\ Len(menus') >= Len(menus)
      /\ \A a, i, d : Opens(menus', a, i, d) /\ d # 0 => Opens(menus, a, i, d)
      /\ menus' \in Seq(Menu)
  BY EndOpens
<1>2. PICK f, n : Ordered(menus, open, f, n)
  BY <1>1 DEF Ranked
<1>3. f \in [Nat -> Nat] /\ Ranks(menus, f)
  BY <1>1, <1>2, AllRanked
<1>4. \A d \in 1 .. Len(menus) : d \in 1 .. Len(menus')
  <2>1. Len(menus) \in Nat /\ Len(menus') \in Nat
    BY <1>1 DEF TypeOK
  <2>2. QED
    BY <1>1, <2>1
<1>5. Ranks(menus', f)
  BY <1>1, <1>3, <1>4 DEF Ranks
<1>6. QED
  BY <1>3, <1>5

(* Unless a reference was to an open menu, no menu ends up below itself.   *)
Acyclic ==
  stage = "built" /\ ~ looped => \A m \in 1 .. Len(menus) : m \notin Below(menus, m)

LEMMA StaysAcyclic ==
  TypeOK /\ NestingKept /\ InRange /\ Ranked /\ Acyclic /\ [Next]_vars => Acyclic'
<1> SUFFICES ASSUME TypeOK, NestingKept, InRange, Ranked, Acyclic, [Next]_vars PROVE Acyclic'
  OBVIOUS
<1>1. Step
  BY Steps
<1>2. CASE Quiet
  <2>1. UNCHANGED << menus, stage, looped >>
    BY <1>2 DEF Quiet, vector, history, still
  <2>2. QED
    BY <2>1 DEF Acyclic
<1>3. ASSUME Reading, UNCHANGED stage PROVE Acyclic'
  BY <1>3 DEF Reading, Acyclic
<1>4. CASE GivenStep \/ EndStep \/ DeathStep \/ (\E e : AddStep(e))
           \/ \E id, b : RootStart(id, b) \/ NestedStart(id, b)
  BY <1>3, <1>4
  DEF GivenStep, EndStep, DeathStep, Dies, AddStep, RootStart, NestedStart, StartStep, still
<1>5. CASE menu_finish
  BY <1>5 DEF menu_finish, Acyclic
<1>6. CASE Ending
  <2>1. looped' = looped /\ menus' \in Seq(Menu)
    BY <1>6, EndOpens DEF Ending, InitWith, InitWithout, history
  <2>2. ASSUME ~ looped, NEW m \in 1 .. Len(menus') PROVE m \notin Below(menus', m)
    <3>1. PICK f \in [Nat -> Nat] : Ranks(menus', f)
      BY <1>6, <2>2, EndRanks
    <3>2. QED
      BY <2>1, <2>2, <3>1, NoneBelowItself
  <2>3. Acyclic' <=> (stage' = "built" /\ ~ looped' =>
                        \A m \in 1 .. Len(menus') : m \notin Below(menus', m))
    BY DEF Acyclic, Below, Submenus
  <2>4. QED
    BY <2>1, <2>2, <2>3
<1>7. QED
  BY <1>1, <1>2, <1>4, <1>5, <1>6 DEF Step, Ending

LEMMA Deaths ==
  TypeOK /\ NestingKept /\ InRange /\ Room /\ Settled /\ Ranked /\ DeathsExplained
    /\ [Next]_vars => DeathsExplained'
<1> SUFFICES ASSUME TypeOK, NestingKept, InRange, Room, Settled, Ranked, DeathsExplained,
                    [Next]_vars
             PROVE  DeathsExplained'
  OBVIOUS
<1>0. /\ Step /\ menus \in Seq(Menu) /\ Len(menus) \in Nat
      /\ menus' \in Seq(Menu) /\ Len(menus') \in Nat /\ Chunk \in Nat
      /\ Settled'
  BY Steps, NextTypes, Settles, FileAssumption DEF TypeOK
<1>1. ASSUME fate' = "alive" PROVE DeathsExplained'
  BY <1>1 DEF DeathsExplained
<1>2. CASE Quiet
  BY <1>2 DEF Quiet, DeathsExplained, vector, history, still
<1>3. ASSUME Reading, UNCHANGED fate PROVE DeathsExplained'
  BY <1>1, <1>3 DEF Reading
<1>4. CASE DeathStep
  <2>1. /\ ~ Valid(current_menu) /\ UNCHANGED menus /\ Reading
        /\ fate' = IF current_menu = NULL THEN "crashed" ELSE "undefined"
        /\ open' = open \/ open # << >>
    BY <1>4 DEF DeathStep, Dies, program, vector
  <2>2. CASE current_menu = NULL
    <3>1. current_menu[2] = 0
      BY <2>2, NullTyped
    <3>2. open = << >>
      <4>1. ASSUME open # << >> PROVE open[Len(open)] \in Nat \ {0}
        BY <4>1 DEF TypeOK
      <4>2. QED
        BY <2>1, <3>1, <4>1 DEF NestingKept
    <3>3. QED
      BY <2>1, <2>2, <3>2 DEF DeathsExplained
  <2>3. CASE current_menu # NULL
    <3>1. current_menu \notin Sound(base, Len(menus))
      BY <2>1, <2>3 DEF Sound, Valid
    <3>2. Len(menus) > 2 * Chunk
      BY <1>0, <2>1, <3>1 DEF Settled, Reading
    <3>3. QED
      BY <2>1, <2>3, <3>2 DEF DeathsExplained
  <2>4. QED
    BY <2>2, <2>3
<1>5. ASSUME NEW v \in Seq(Menu), NEW k \in 1 .. Len(v), NEW b,
             v = menus', b = base', stage' = "built", fate' = Recursion(v, k, b),
             UNCHANGED << open, history >>, Ending
      PROVE  DeathsExplained'
  <2>1. ASSUME Len(menus') <= 2 * Chunk PROVE fate' # "undefined"
    <3>1. /\ Into(v, Sound(b, Len(menus')))
          /\ Under(v, b, Sound(b, Len(menus')))
      BY <1>0, <1>5, <2>1 DEF Settled
    <3>2. QED
      BY <1>5, <3>1, RecursionSound
  <2>2. ASSUME ~ looped PROVE fate' # "exhausted"
    <3>1. PICK f \in [Nat -> Nat] : Ranks(v, f)
      BY <1>5, <2>2, EndRanks
    <3>2. QED
      BY <1>5, <3>1, RecursionEnds
  <2>3. fate' # "crashed"
    BY <1>5, RecursionTyped
  <2>4. looped' = looped
    BY <1>5 DEF history
  <2>5. fate' = "undefined" => Len(menus') > 2 * Chunk
    BY <1>0, <2>1
  <2>6. QED
    BY <2>2, <2>3, <2>4, <2>5 DEF DeathsExplained
<1>6. ASSUME NEW k \in 1 .. Len(menus), InitWith(k) PROVE DeathsExplained'
  <2>1. /\ fate' = Recursion(menus', k, base) /\ base' = base /\ stage' = "built"
        /\ menus' = Filled(menus, k, base) /\ UNCHANGED << open, history >> /\ Ending
    BY <1>6 DEF InitWith, Ending
  <2>2. Len(menus') = Len(menus)
    BY <1>0, <2>1, FilledTyped
  <2>3. QED
    BY <1>0, <1>5, <2>1, <2>2
<1>7. ASSUME NEW b \in Moves, InitWithout(b) PROVE DeathsExplained'
  <2> DEFINE k == Len(menus) + 1
  <2>1. /\ fate' = Recursion(menus', k, b) /\ base' = b /\ stage' = "built"
        /\ menus' = Filled(Rooted(b), k, b) /\ UNCHANGED << open, history >> /\ Ending
    BY <1>7 DEF InitWithout, Ending
  <2>2. Rooted(b) \in Seq(Menu) /\ Len(Rooted(b)) = k
    <3>1. NewMenu(RootId, current_menu, b) \in Menu
      BY FileAssumption, GrownTyped, MenuTyped DEF TypeOK
    <3>2. QED
      BY <1>0, <3>1, AppendedVector DEF Rooted
  <2>3. k \in 1 .. Len(menus')
    <3>1. k \in 1 .. Len(Rooted(b))
      BY <1>0, <2>2
    <3>2. QED
      BY <2>1, <2>2, <3>1, FilledTyped
  <2>4. QED
    BY <1>0, <1>5, <2>1, <2>3
<1>8. CASE menu_finish
  <2>1. CASE \A m \in 1 .. Len(menus) : menus[m].head = base
    BY <1>1, <1>8, <2>1 DEF menu_finish
  <2>2. CASE ~ (\A m \in 1 .. Len(menus) : menus[m].head = base)
    <3>1. ~ Under(menus, base, Sound(base, Len(menus))) /\ stage = "built"
      BY <1>8, <2>2 DEF Under, menu_finish
    <3>2. Len(menus) > 2 * Chunk
      BY <1>0, <3>1 DEF Settled
    <3>3. fate' = "undefined" /\ menus' = menus
      BY <1>8, <2>2 DEF menu_finish
    <3>4. QED
      BY <3>2, <3>3 DEF DeathsExplained
  <2>3. QED
    BY <2>1, <2>2
<1>9. ASSUME NEW e, AddStep(e) PROVE DeathsExplained'
  BY <1>3, <1>9 DEF AddStep, still
<1>10. ASSUME NEW id, NEW b, RootStart(id, b) \/ NestedStart(id, b) PROVE DeathsExplained'
  BY <1>3, <1>10 DEF RootStart, NestedStart, StartStep, still
<1>11. CASE GivenStep \/ EndStep
  BY <1>3, <1>11 DEF GivenStep, EndStep, still
<1>12. QED
  BY <1>0, <1>2, <1>4, <1>6, <1>7, <1>8, <1>9, <1>10, <1>11 DEF Step
-----------------------------------------------------------------------------
(* The entries.  All of them are in S.                                     *)

Contains(v, S) ==
  \A m \in 1 .. Len(v) : \A k \in 1 .. Len(v[m].entries) : v[m].entries[k] \in S

LEMMA ContainsAdded ==
  ASSUME NEW v \in Seq(Menu), NEW q \in 1 .. Len(v), NEW e \in Entry,
         NEW S, Contains(v, S), e \in S
  PROVE  Contains(Added(v, q, e), S)
<1> DEFINE w == Added(v, q, e)
           n == Len(v[q].entries)
<1>0. n \in Nat
  BY VectorTyped
<1> HIDE DEF n
<1>1. /\ Len(w) = Len(v) /\ Len(w[q].entries) = n + 1 /\ w[q].entries[n + 1] = e
      /\ \A m \in 1 .. Len(v) : m # q => w[m] = v[m]
      /\ \A k \in 1 .. n : w[q].entries[k] = v[q].entries[k]
  <2>1. Len(w) = Len(v) /\ \A m \in 1 .. Len(v) : m # q => w[m] = v[m]
    BY AddedVector
  <2>2. Len(w[q].entries) = n + 1 /\ w[q].entries[n + 1] = e
    BY AddedVector DEF n
  <2>3. ASSUME NEW k \in 1 .. n PROVE w[q].entries[k] = v[q].entries[k]
    <3>1. k \in 1 .. (n + 1) - 1
      BY <1>0
    <3>2. QED
      BY <3>1, AddedVector DEF n
  <2> HIDE DEF w
  <2>4. QED
    BY <2>1, <2>2, <2>3
<1>2. \A k \in 1 .. n + 1 : k \in 1 .. n \/ k = n + 1
  BY <1>0
<1> HIDE DEF w
<1>3. ASSUME NEW m \in 1 .. Len(w), NEW k \in 1 .. Len(w[m].entries)
      PROVE  w[m].entries[k] \in S
  <2>1. CASE m # q
    BY <1>1, <1>3, <2>1 DEF Contains
  <2>2. CASE m = q /\ k \in 1 .. n
    BY <1>1, <1>3, <2>2 DEF Contains, n
  <2>3. CASE m = q /\ k = n + 1
    BY <1>1, <2>3
  <2>4. QED
    BY <1>1, <1>2, <1>3, <2>1, <2>2, <2>3
<1>4. QED
  BY <1>3 DEF Contains, w

LEMMA ContainsAppended ==
  ASSUME NEW v \in Seq(Menu), NEW new \in Menu, new.entries = << >>, NEW S, Contains(v, S)
  PROVE  Contains(Append(v, new), S)
<1> DEFINE w == Append(v, new)
<1>1. Len(w) = Len(v) + 1 /\ Len(v) \in Nat /\ w[Len(v) + 1] = new
      /\ \A m \in 1 .. Len(v) : w[m] = v[m]
  BY AppendedVector
<1> HIDE DEF w
<1>2. \A m \in 1 .. Len(w) : m \in 1 .. Len(v) \/ m = Len(v) + 1
  BY <1>1
<1>3. QED
  BY <1>1, <1>2 DEF Contains, w

LEMMA ContainsFilled ==
  ASSUME NEW v \in Seq(Menu), NEW k \in 1 .. Len(v), NEW b, NEW S, Contains(v, S),
         NewEntry(TRUE, NULL, 0) \in S
  PROVE  Contains(Filled(v, k, b), S)
<1> DEFINE e == NewEntry(TRUE, NULL, 0)
           u == Added(v, k, e)
<1>1. CASE v[k].entries = << >> /\ v[k].head = b
  <2>1. e \in Entry /\ e \in S
    BY EntryTyped, NullTyped
  <2> HIDE DEF e
  <2>2. u \in Seq(Menu) /\ Len(u) = Len(v) /\ Contains(u, S)
    BY <2>1, AddedVector, ContainsAdded
  <2> HIDE DEF u
  <2>3. Contains(Added(u, k, e), S)
    BY <2>1, <2>2, ContainsAdded
  <2>4. QED
    BY <1>1, <2>3, FilledVector DEF e, u
<1>2. CASE ~ (v[k].entries = << >> /\ v[k].head = b)
  BY <1>2 DEF Filled
<1>3. QED
  BY <1>1, <1>2

(* Entries of the first n elements, which can be selected if they open a   *)
(* menu.                                                                   *)
Selectable == {e \in Entry : e.selectable}
Fit(n) ==
  {e \in Entry : /\ e.made <= n
                 /\ e.submenu # NULL => e \in Selectable /\ e.submenu[2] # 0}

Fitting == Contains(menus, Fit(elements))

LEMMA FitMore ==
  ASSUME NEW n \in Nat, NEW k \in Nat, n <= k
  PROVE  Fit(n) \subseteq Fit(k)
<1> SUFFICES ASSUME NEW e \in Entry, e.made <= n PROVE e.made <= k
  BY DEF Fit
<1>1. e.made \in Nat
  BY DEF Entry
<1>2. QED
  BY <1>1

LEMMA ContainsMore ==
  ASSUME NEW v, NEW S, NEW T, S \subseteq T, Contains(v, S)
  PROVE  Contains(v, T)
BY DEF Contains

LEMMA ContainsGiven ==
  ASSUME NEW v \in Seq(Menu), NEW p, NEW q, NEW x \in Nat, NEW n, Contains(v, Fit(n))
  PROVE  Contains(Given(v, p, q, x), Fit(n))
<1> DEFINE w == Given(v, p, q, x)
<1>1. w \in Seq(Menu) /\ Len(w) = Len(v) /\ \A m \in 1 .. Len(v) : SameMenu(w[m], v[m])
  BY GivenVector
<1> HIDE DEF w
<1>2. ASSUME NEW m \in 1 .. Len(w), NEW k \in 1 .. Len(w[m].entries)
      PROVE  w[m].entries[k] \in Fit(n)
  <2> DEFINE e == v[m].entries[k]
             y == w[m].entries[k]
  <2>1. /\ k \in 1 .. Len(v[m].entries) /\ y.submenu = e.submenu /\ y.made = e.made
        /\ y.selectable = e.selectable
    BY <1>1, <1>2 DEF SameMenu, SameEntries
  <2>2. e \in Fit(n)
    BY <1>1, <2>1 DEF Contains
  <2>3. y \in Entry
    BY <1>1, <1>2, VectorTyped
  <2> HIDE DEF e, y
  <2>4. e \in Selectable => y \in Selectable
    BY Zenon, <2>1, <2>3 DEF Selectable
  <2>5. QED
    BY <2>1, <2>2, <2>3, <2>4 DEF Fit, y
<1>3. QED
  BY <1>2 DEF Contains, w

LEMMA ElementsGrow ==
  ASSUME TypeOK, NestingKept, [Next]_vars
  PROVE  elements \in Nat /\ elements' \in Nat /\ elements <= elements'
<1>1. elements \in Nat /\ elements' \in Nat
  BY ElementsCounted, FileAssumption DEF TypeOK
<1>2. elements' = elements \/ elements' = elements + 1
  BY DEF Next, vars, StartMenu, Reference, handle_separator_element, StartItem, Element,
         EndMenu, Label, Property, EndItem, menu_init, menu_finish, document
<1>3. QED
  BY <1>1, <1>2

(* It is of the present element, and can be selected.                      *)
LEMMA ItemFits ==
  ASSUME TypeOK, NEW b \in Moves, elements' \in Nat
  PROVE  ItemFor(b) \in Entry /\ ItemFor(b).made = elements' /\ ItemFor(b) \in Fit(elements')
<1> DEFINE q == << b, Len(menus) + 1 >>
           e == NewEntry(TRUE, q, elements')
<1>1. q \in Pointer
  BY GrownTyped DEF TypeOK, Pointer
<1>2. e.selectable
  BY EntrySelectable
<1>3. q[2] # 0
  BY DEF TypeOK
<1> HIDE DEF q
<1>4. e \in Entry /\ e.made = elements' /\ e.submenu = q
  BY <1>1, EntryTyped
<1>5. ItemFor(b) = e
  BY DEF ItemFor, q
<1> HIDE DEF e
<1>6. e \in Selectable
  BY <1>2, <1>4 DEF Selectable
<1>7. QED
  BY <1>3, <1>4, <1>5, <1>6 DEF Fit

(* What opens a menu can be selected.                                      *)
LEMMA Fits == TypeOK /\ NestingKept /\ Fitting /\ [Next]_vars => Fitting'
<1> SUFFICES ASSUME TypeOK, NestingKept, Fitting, [Next]_vars
             PROVE  Contains(menus', Fit(elements'))
  BY DEF Fitting
<1> DEFINE n == Len(menus)
           S == Fit(elements')
<1>0. /\ Step /\ menus \in Seq(Menu) /\ n \in Nat
      /\ elements \in Nat /\ elements' \in Nat /\ elements <= elements'
  BY Steps, ElementsGrow DEF TypeOK
<1>1. Contains(menus, S) /\ Contains(menus, Fit(elements))
  BY <1>0, FitMore, ContainsMore DEF Fitting
<1>2. CASE Quiet \/ DeathStep \/ EndStep
  BY <1>1, <1>2 DEF Quiet, DeathStep, EndStep, Dies, program, vector
<1>3. CASE GivenStep
  <2>1. PICK q, k : menus' = Given(menus, q, k, elements)
    BY <1>3 DEF GivenStep
  <2>2. QED
    BY <1>0, <1>1, <2>1, ContainsGiven
<1>4. ASSUME NEW e \in Entry, AddStep(e) PROVE Contains(menus', S)
  <2>1. /\ current_menu[2] \in 1 .. n /\ e.made <= elements'
        /\ menus' = Added(menus, current_menu[2], e)
    BY <1>4 DEF AddStep, Valid
  <2>2. e.submenu # NULL => e \in Selectable
    BY Zenon, <1>4 DEF AddStep, Plain, Refers, Selectable
  <2>3. e.submenu # NULL => e.submenu[2] # 0
    BY <1>4 DEF AddStep, Plain, Refers
  <2>4. e \in S
    BY <2>1, <2>2, <2>3 DEF Fit
  <2> HIDE DEF S
  <2>5. QED
    BY <1>0, <1>1, <2>1, <2>4, ContainsAdded
<1> HIDE DEF S
<1>5. ASSUME NEW id \in Id, NEW b \in Moves, NEW v \in Seq(Menu), Contains(v, S),
             menus' = Append(v, NewMenu(id, current_menu, b))
      PROVE  Contains(menus', S)
  <2> DEFINE new == NewMenu(id, current_menu, b)
  <2>1. new \in Menu /\ new.entries = << >>
    BY GrownTyped, MenuTyped DEF TypeOK
  <2> HIDE DEF new
  <2>2. QED
    BY <1>5, <2>1, ContainsAppended DEF new
<1>6. ASSUME NEW id \in Id, NEW b \in Moves, RootStart(id, b) PROVE Contains(menus', S)
  BY <1>0, <1>1, <1>5, <1>6 DEF RootStart, StartStep
<1>7. ASSUME NEW id \in Id, NEW b \in Moves, NestedStart(id, b) PROVE Contains(menus', S)
  <2> DEFINE q == current_menu[2]
             e == ItemFor(b)
             v == Added(menus, q, e)
  <2>1. q \in 1 .. n /\ menus' = Append(v, NewMenu(id, current_menu, b))
    BY <1>7 DEF NestedStart, StartStep, Valid
  <2>2. e \in Entry /\ e \in S
    BY <1>0, ItemFits DEF S
  <2> HIDE DEF q, e
  <2>3. v \in Seq(Menu) /\ Contains(v, S)
    BY <1>0, <1>1, <2>1, <2>2, AddedVector, ContainsAdded
  <2> HIDE DEF v
  <2>4. QED
    BY <1>5, <2>1, <2>3
<1>8. NewEntry(TRUE, NULL, 0) \in S
  <2> DEFINE e == NewEntry(TRUE, NULL, 0)
  <2>1. e \in Entry /\ e.submenu = NULL /\ e.made = 0
    <3>1. NULL \in Pointer /\ 0 \in Nat
      BY NullTyped
    <3> HIDE DEF e
    <3>2. e = NewEntry(TRUE, NULL, 0)
      BY DEF e
    <3>3. QED
      BY <3>1, <3>2, EntryTyped
  <2> HIDE DEF e
  <2>2. e \in Fit(elements')
    BY <1>0, <2>1 DEF Fit
  <2>3. QED
    BY <2>2 DEF e, S
<1>9. ASSUME NEW k \in 1 .. n, InitWith(k) PROVE Contains(menus', S)
  BY <1>0, <1>1, <1>8, <1>9, ContainsFilled DEF InitWith
<1>10. ASSUME NEW b \in Moves, InitWithout(b) PROVE Contains(menus', S)
  <2> DEFINE u == Rooted(b)
             new == NewMenu(RootId, current_menu, b)
  <2>1. menus' = Filled(u, n + 1, b)
    BY <1>10 DEF InitWithout
  <2>2. new \in Menu /\ new.entries = << >>
    BY FileAssumption, GrownTyped, MenuTyped DEF TypeOK
  <2>3. u = Append(menus, new)
    BY DEF Rooted
  <2> HIDE DEF new, u
  <2>4. u \in Seq(Menu) /\ Len(u) = n + 1 /\ n + 1 \in 1 .. Len(u) /\ Contains(u, S)
    BY <1>0, <1>1, <2>2, <2>3, AppendedVector, ContainsAppended
  <2>5. QED
    BY <1>8, <2>1, <2>4, ContainsFilled
<1>11. CASE menu_finish
  <2>1. UNCHANGED menus \/ menus' = << >>
    BY <1>11 DEF menu_finish
  <2>2. Contains(<< >>, S)
    BY DEF Contains
  <2>3. CASE UNCHANGED menus
    BY <1>1, <2>3 DEF S
  <2>4. CASE menus' = << >>
    BY <2>2, <2>4 DEF S
  <2>5. QED
    BY <2>1, <2>3, <2>4
<1>12. QED
  BY <1>0, <1>2, <1>3, <1>4, <1>6, <1>7, <1>9, <1>10, <1>11 DEF Step, S

(* The element x has made the item that opens menu m.                      *)
OpensBy(v, a, k, m, x) == Opens(v, a, k, m) /\ v[a].entries[k].made = x

LEMMA OpensByAdded ==
  ASSUME NEW v \in Seq(Menu), NEW p \in 1 .. Len(v), NEW e \in Entry,
         NEW a, NEW k, NEW m, NEW x
  PROVE  OpensBy(Added(v, p, e), a, k, m, x) <=>
           \/ OpensBy(v, a, k, m, x)
           \/ /\ a = p /\ k = Len(v[p].entries) + 1
              /\ e.submenu[2] = m /\ e.made = x
<1> DEFINE w == Added(v, p, e)
           n == Len(v[p].entries)
<1>1. n \in Nat
  BY VectorTyped
<1>2. Opens(w, a, k, m) <=> Opens(v, a, k, m) \/ (a = p /\ k = n + 1 /\ e.submenu[2] = m)
  <2>1. Opens(Added(v, p, e), a, k, m) <=>
           \/ Opens(v, a, k, m)
           \/ a = p /\ k = Len(v[p].entries) + 1 /\ e.submenu[2] = m
    BY OpensAdded
  <2>2. QED
    BY <2>1
<1>3. /\ w[p].entries[n + 1] = e
      /\ \A c \in 1 .. Len(v) : c # p => w[c] = v[c]
  BY AddedVector
<1>4. \A j \in 1 .. n : w[p].entries[j] = v[p].entries[j]
  <2>1. \A j \in 1 .. n : j \in 1 .. (n + 1) - 1
    BY <1>1
  <2>2. \A j \in 1 .. (n + 1) - 1 : w[p].entries[j] = v[p].entries[j]
    BY AddedVector
  <2>3. QED
    BY <2>1, <2>2
<1>5. n + 1 \notin 1 .. n
  BY <1>1
<1>6. Opens(v, a, k, m) => /\ a \in 1 .. Len(v) /\ (a = p => k \in 1 .. n)
  BY DEF Opens, Leads
<1> DEFINE y == w[a].entries[k]
           z == v[a].entries[k]
<1> HIDE DEF w, n
<1>7. Opens(v, a, k, m) => y = z /\ ~ (a = p /\ k = n + 1)
  BY <1>3, <1>4, <1>5, <1>6
<1>8. a = p /\ k = n + 1 => y = e
  BY <1>3
<1>9. /\ OpensBy(w, a, k, m, x) <=> Opens(w, a, k, m) /\ y.made = x
      /\ OpensBy(v, a, k, m, x) <=> Opens(v, a, k, m) /\ z.made = x
  BY DEF OpensBy
<1> HIDE DEF y, z
<1>10. OpensBy(w, a, k, m, x) <=>
         \/ OpensBy(v, a, k, m, x)
         \/ a = p /\ k = n + 1 /\ e.submenu[2] = m /\ e.made = x
  BY <1>2, <1>7, <1>8, <1>9
<1>11. QED
  BY <1>10 DEF w, n

LEMMA OpensByAppended ==
  ASSUME NEW v \in Seq(Menu), NEW new \in Menu, new.entries = << >>,
         NEW a, NEW k, NEW m, NEW x
  PROVE  OpensBy(Append(v, new), a, k, m, x) <=> OpensBy(v, a, k, m, x)
<1> DEFINE w == Append(v, new)
<1>1. Opens(w, a, k, m) <=> Opens(v, a, k, m)
  BY OpensAppended
<1>2. Opens(v, a, k, m) => w[a] = v[a]
  BY AppendedVector DEF Opens, Leads
<1> HIDE DEF w
<1>3. QED
  BY <1>1, <1>2 DEF OpensBy, w

LEMMA OpensByGiven ==
  ASSUME NEW v \in Seq(Menu), NEW p, NEW n, NEW y \in Nat, NEW a, NEW k, NEW m, NEW x
  PROVE  OpensBy(Given(v, p, n, y), a, k, m, x) <=> OpensBy(v, a, k, m, x)
<1> DEFINE w == Given(v, p, n, y)
<1>1. Opens(w, a, k, m) <=> Opens(v, a, k, m)
  BY OpensGiven
<1>2. Opens(w, a, k, m) => w[a].entries[k].made = v[a].entries[k].made
  <2>1. Len(w) = Len(v) /\ \A d \in 1 .. Len(v) : SameMenu(w[d], v[d])
    BY GivenVector
  <2> HIDE DEF w
  <2>2. QED
    BY <2>1 DEF Opens, Leads, SameMenu, SameEntries
<1> HIDE DEF w
<1>3. QED
  BY <1>1, <1>2 DEF OpensBy, w

LEMMA OpensByFilled ==
  ASSUME NEW v \in Seq(Menu), NEW q \in 1 .. Len(v), NEW b,
         NEW a, NEW k, NEW d, NEW x, d # 0
  PROVE  OpensBy(Filled(v, q, b), a, k, d, x) <=> OpensBy(v, a, k, d, x)
<1> DEFINE e == NewEntry(TRUE, NULL, 0)
           u == Added(v, q, e)
<1>1. CASE v[q].entries = << >> /\ v[q].head = b
  <2>1. e \in Entry /\ e.submenu[2] = 0
    <3>1. e \in Entry /\ e.submenu = NULL
      BY EntryTyped, NullTyped
    <3>2. QED
      BY <3>1, NullTyped
  <2> HIDE DEF e
  <2>2. /\ u \in Seq(Menu) /\ Len(u) = Len(v)
        /\ OpensBy(u, a, k, d, x) <=> OpensBy(v, a, k, d, x)
    BY <2>1, AddedVector, OpensByAdded
  <2> HIDE DEF u
  <2>3. OpensBy(Added(u, q, e), a, k, d, x) <=> OpensBy(u, a, k, d, x)
    BY <2>1, <2>2, OpensByAdded
  <2>4. QED
    BY <1>1, <2>2, <2>3, FilledVector DEF e, u
<1>2. CASE ~ (v[q].entries = << >> /\ v[q].head = b)
  BY <1>2 DEF Filled
<1>3. QED
  BY <1>1, <1>2

LEMMA OpensByInRange ==
  ASSUME TypeOK, InRange, Fitting, NEW a, NEW k, NEW d, NEW x, OpensBy(menus, a, k, d, x)
  PROVE  d \in 0 .. Len(menus) /\ d # Len(menus) + 1 /\ x \in 0 .. elements
<1>1. Opens(menus, a, k, d) /\ x = menus[a].entries[k].made
  BY DEF OpensBy
<1>2. d \in 0 .. Len(menus) /\ d # Len(menus) + 1
  BY <1>1, OpensInRange
<1>3. menus[a].entries[k] \in Fit(elements)
  BY <1>1 DEF Fitting, Contains, Opens, Leads
<1>4. x \in Nat /\ x <= elements
  BY <1>1, <1>3 DEF Fit, Entry
<1>5. elements \in Nat
  BY FileAssumption DEF TypeOK
<1>6. QED
  BY <1>2, <1>4, <1>5
-----------------------------------------------------------------------------
(* Delivery.  The references R are elements, and menus that they name.     *)
(* Other items than theirs open menu m in menu p only, and are one, or     *)
(* none if p is 0.                                                         *)

Defines(v, R, a, k, m) == \E x : OpensBy(v, a, k, m, x) /\ << x, m >> \notin R

Sole(v, R, m, p) ==
  /\ \A a, k : Defines(v, R, a, k, m) => a = p
  /\ \A k, j : Defines(v, R, p, k, m) /\ Defines(v, R, p, j, m) => k = j
  /\ p # 0 => \E k : Defines(v, R, p, k, m)

OneOpener == \A m \in 1 .. Len(menus) : Sole(menus, referenced, m, menus[m].parent[2])

(* Element x has made one item that opens menu m.                          *)
Single(v, m, x) ==
  \E a, k : /\ OpensBy(v, a, k, m, x)
            /\ \A b, j : OpensBy(v, b, j, m, x) => b = a /\ j = k

ReferencesKept ==
  stage # "finished" => \A r \in referenced :
    /\ r[1] <= elements /\ r[2] \in 1 .. Len(menus)
    /\ fate = "alive" => Single(menus, r[2], r[1])

LEMMA SameOpeners ==
  ASSUME NEW v, NEW R, NEW w, NEW Q, NEW m, NEW p,
         \A a, k : Defines(w, Q, a, k, m) <=> Defines(v, R, a, k, m), Sole(v, R, m, p)
  PROVE  Sole(w, Q, m, p)
BY DEF Sole

LEMMA SameSingle ==
  ASSUME NEW v, NEW w, NEW m, NEW x,
         \A a, k : OpensBy(w, a, k, m, x) <=> OpensBy(v, a, k, m, x), Single(v, m, x)
  PROVE  Single(w, m, x)
BY DEF Single

LEMMA SameItems ==
  ASSUME NEW v, NEW w, NEW m,
         \A a, k, x : OpensBy(w, a, k, m, x) <=> OpensBy(v, a, k, m, x)
  PROVE  /\ \A x : Single(v, m, x) => Single(w, m, x)
         /\ \A R, a, k : Defines(w, R, a, k, m) <=> Defines(v, R, a, k, m)
<1>1. \A x : Single(v, m, x) => Single(w, m, x)
  BY DEF Single
<1>2. \A R, a, k : Defines(w, R, a, k, m) <=> Defines(v, R, a, k, m)
  BY DEF Defines
<1>3. QED
  BY <1>1, <1>2

(* w has a menu more, which entry k of current_menu opens, if any.         *)
StartedIn(w, k) ==
  /\ Len(w) = Len(menus) + 1
  /\ \A m \in 1 .. Len(menus) : w[m].parent = menus[m].parent
  /\ w[Len(menus) + 1].parent = current_menu
  /\ \A a, i, d, x : OpensBy(w, a, i, d, x) /\ d # 0 <=>
       \/ OpensBy(menus, a, i, d, x) /\ d # 0
       \/ /\ open # << >> /\ a = current_menu[2] /\ i = k
          /\ d = Len(menus) + 1 /\ x = elements'

Tidy == OneOpener /\ ReferencesKept

LEMMA StartOpens ==
  ASSUME TypeOK, NestingKept, InRange, Fitting, Tidy, Reading, elements' \in Nat,
         elements <= elements', UNCHANGED referenced, NEW k, StartedIn(menus', k)
  PROVE  Tidy'
<1> DEFINE c == Len(menus)
           w == menus'
           r == referenced
<1> HIDE DEF w, r
<1>1. /\ c \in Nat /\ Len(w) = c + 1 /\ referenced = r /\ referenced' = r
      /\ \A m \in 1 .. c : w[m].parent = menus[m].parent
      /\ w[c + 1].parent = current_menu
      /\ \A a, i, d, x : OpensBy(w, a, i, d, x) /\ d # 0 <=>
           \/ OpensBy(menus, a, i, d, x) /\ d # 0
           \/ open # << >> /\ a = current_menu[2] /\ i = k /\ d = c + 1 /\ x = elements'
  BY DEF TypeOK, StartedIn, w, r
<1>2. \A s \in r : s[1] <= elements /\ s[2] \in 1 .. c /\ s[1] \in Nat
                   /\ (fate = "alive" => Single(menus, s[2], s[1]))
  BY DEF Tidy, ReferencesKept, Reading, TypeOK, r
<1>3. ASSUME NEW m \in 1 .. c
      PROVE  \A a, i, x : OpensBy(w, a, i, m, x) <=> OpensBy(menus, a, i, m, x)
  <2>1. m # 0 /\ m # c + 1
    BY <1>1
  <2>2. QED
    BY <1>1, <2>1
<1>4. ASSUME NEW m \in 1 .. c PROVE Sole(w, r, m, w[m].parent[2])
  <2>1. Sole(menus, r, m, menus[m].parent[2])
    BY DEF Tidy, OneOpener, r
  <2>2. \A a, i : Defines(w, r, a, i, m) <=> Defines(menus, r, a, i, m)
    BY <1>3, SameItems
  <2>3. QED
    BY <1>1, <2>1, <2>2, SameOpeners
<1>5. Sole(w, r, c + 1, current_menu[2])
  <2>1. \A a, i, x : ~ OpensBy(menus, a, i, c + 1, x)
    BY OpensByInRange
  <2>2. c + 1 # 0 /\ c + 1 \notin 1 .. c
    BY <1>1
  <2>3. \A a, i, x : OpensBy(w, a, i, c + 1, x) <=>
          open # << >> /\ a = current_menu[2] /\ i = k /\ x = elements'
    BY <1>1, <2>1, <2>2
  <2>4. \A x : << x, c + 1 >> \notin r
    BY <1>2, <2>2
  <2>5. \A a, i : Defines(w, r, a, i, c + 1) <=>
          open # << >> /\ a = current_menu[2] /\ i = k
    BY <2>3, <2>4 DEF Defines
  <2>6. open = << >> => current_menu[2] = 0
    BY DEF NestingKept
  <2>7. QED
    BY SMTT(30), <2>5, <2>6 DEF Sole
<1>6. \A m \in 1 .. c + 1 : m \in 1 .. c \/ m = c + 1
  BY <1>1
<1>7. OneOpener'
  BY <1>1, <1>4, <1>5, <1>6 DEF OneOpener, w
<1>8. ReferencesKept'
  <2>1. fate' = "alive" => fate = "alive"
    BY DEF Reading
  <2>2. ASSUME NEW s \in r
        PROVE  /\ s[1] <= elements' /\ s[2] \in 1 .. c + 1
               /\ fate' = "alive" => Single(w, s[2], s[1])
    <3>1. s[1] <= elements'
      BY <1>2, FileAssumption DEF TypeOK
    <3>2. s[2] \in 1 .. c /\ s[2] \in 1 .. c + 1
      BY <1>1, <1>2
    <3>3. fate' = "alive" => Single(menus, s[2], s[1])
      BY <1>2, <2>1
    <3>4. QED
      BY <1>3, <3>1, <3>2, <3>3, SameItems
  <2>3. QED
    BY <1>1, <2>2 DEF ReferencesKept, w
<1>9. QED
  BY <1>7, <1>8 DEF Tidy

(* A step that moves no menu, and opens none. *)
LEMMA KeepsTidy ==
  ASSUME TypeOK, Tidy, UNCHANGED referenced,
         elements \in Nat, elements' \in Nat, elements <= elements',
         stage' # "finished" => stage # "finished", fate' = "alive" => fate = "alive",
         Len(menus') = Len(menus),
         \A m \in 1 .. Len(menus) : menus'[m].parent = menus[m].parent,
         \A a, k, d, x : d # 0 => (OpensBy(menus', a, k, d, x) <=> OpensBy(menus, a, k, d, x))
  PROVE  Tidy'
<1> DEFINE n == Len(menus)
<1>1. ASSUME NEW m \in 1 .. n
      PROVE  /\ \A x : Single(menus, m, x) => Single(menus', m, x)
             /\ \A R, a, k : Defines(menus', R, a, k, m) <=> Defines(menus, R, a, k, m)
  <2>1. m # 0
    OBVIOUS
  <2>2. \A a, k, x : OpensBy(menus', a, k, m, x) <=> OpensBy(menus, a, k, m, x)
    BY <2>1
  <2>3. QED
    BY <2>2, SameItems
<1>2. ASSUME NEW m \in 1 .. n PROVE Sole(menus', referenced, m, menus'[m].parent[2])
  <2>1. Sole(menus, referenced, m, menus[m].parent[2])
    BY DEF Tidy, OneOpener
  <2>2. QED
    BY <1>1, <2>1, SameOpeners
<1>3. OneOpener'
  BY <1>2 DEF OneOpener
<1>4. ASSUME stage' # "finished", NEW s \in referenced
      PROVE  /\ s[1] <= elements' /\ s[2] \in 1 .. n
             /\ fate' = "alive" => Single(menus', s[2], s[1])
  <2>1. /\ s[1] <= elements /\ s[2] \in 1 .. n /\ s[1] \in Nat
        /\ fate = "alive" => Single(menus, s[2], s[1])
    BY <1>4 DEF Tidy, ReferencesKept, TypeOK
  <2>2. s[1] <= elements'
    BY <2>1
  <2>3. QED
    BY <1>1, <2>1, <2>2
<1>5. ReferencesKept'
  BY <1>4 DEF ReferencesKept
<1>6. QED
  BY <1>3, <1>5 DEF Tidy

(* A new reference to menu j, of which the process has died, or entry i of *)
(* menu b is it.                                                           *)
ReferredIn(w, j, died, b, i) ==
  \A a, k, d, x : OpensBy(w, a, k, d, x) <=>
    \/ OpensBy(menus, a, k, d, x)
    \/ ~ died /\ a = b /\ k = i /\ d = j /\ x = elements'

LEMMA ReferTidy ==
  ASSUME TypeOK, InRange, Fitting, Tidy, Reading, elements \in Nat,
         NEW j \in 1 .. Len(menus), NewReference(j), stage' = stage,
         Len(menus') = Len(menus),
         \A m \in 1 .. Len(menus) : menus'[m].parent = menus[m].parent,
         NEW b, NEW i, NEW died \in BOOLEAN, fate' = "alive" => ~ died,
         ReferredIn(menus', j, died, b, i)
  PROVE  Tidy'
<1> DEFINE n == Len(menus)
           w == menus'
           r == referenced
           y == elements'
<1> HIDE DEF w, y
<1>1. /\ y = elements + 1 /\ referenced' = r \union {<< y, j >>}
      /\ Len(w) = n /\ \A m \in 1 .. n : w[m].parent = menus[m].parent
      /\ \A a, k, d, x : OpensBy(w, a, k, d, x) <=>
           \/ OpensBy(menus, a, k, d, x)
           \/ ~ died /\ a = b /\ k = i /\ d = j /\ x = y
  BY DEF NewReference, ReferredIn, w, y
<1>2. \A a, k, d, x : OpensBy(menus, a, k, d, x) => x # y
  <2>1. y \notin 0 .. elements
    BY <1>1
  <2>2. QED
    BY <2>1, OpensByInRange
<1>3. \A s \in r : /\ s[1] <= elements /\ s[2] \in 1 .. n /\ s[1] \in Nat
                   /\ fate = "alive" => Single(menus, s[2], s[1])
  BY DEF Tidy, ReferencesKept, Reading, TypeOK
<1>4. ASSUME NEW m \in 1 .. n PROVE Sole(w, referenced', m, w[m].parent[2])
  <2>1. Sole(menus, r, m, menus[m].parent[2])
    BY DEF Tidy, OneOpener
  <2>2. \A x : x # y => (<< x, m >> \in referenced' <=> << x, m >> \in r)
    BY <1>1
  <2>3. \A a, k : Defines(w, referenced', a, k, m) => Defines(menus, r, a, k, m)
    <3>1. ASSUME NEW a, NEW k, NEW x, OpensBy(w, a, k, m, x), << x, m >> \notin referenced'
          PROVE  OpensBy(menus, a, k, m, x) /\ << x, m >> \notin r
      <4>1. ~ (m = j /\ x = y)
        BY <1>1, <3>1
      <4>2. QED
        BY <1>1, <3>1, <4>1
    <3>2. QED
      BY <3>1 DEF Defines
  <2>4. \A a, k : Defines(menus, r, a, k, m) => Defines(w, referenced', a, k, m)
    BY <1>1, <1>2, <2>2 DEF Defines
  <2>5. \A a, k : Defines(w, referenced', a, k, m) <=> Defines(menus, r, a, k, m)
    BY <2>3, <2>4
  <2> HIDE DEF r
  <2>6. Sole(w, referenced', m, menus[m].parent[2])
    BY <2>1, <2>5, SameOpeners
  <2>7. QED
    BY <1>1, <2>6
<1>5. OneOpener'
  BY <1>1, <1>4 DEF OneOpener, w
<1>6. ASSUME NEW s \in r, fate' = "alive" PROVE Single(w, s[2], s[1])
  <2>1. fate = "alive"
    BY DEF Reading
  <2>2. s[1] # y
    BY <1>1, <1>3
  <2>3. \A a, k : OpensBy(w, a, k, s[2], s[1]) <=> OpensBy(menus, a, k, s[2], s[1])
    BY <1>1, <2>2
  <2>4. Single(menus, s[2], s[1])
    BY <1>3, <2>1
  <2>5. QED
    BY <2>3, <2>4, SameSingle
<1>7. ASSUME fate' = "alive" PROVE Single(w, j, y)
  <2>1. \A a, k : OpensBy(w, a, k, j, y) <=> a = b /\ k = i
    BY <1>1, <1>2, <1>7
  <2>2. OpensBy(w, b, i, j, y)
    BY <2>1
  <2>3. QED
    BY <2>1, <2>2 DEF Single
<1>8. ASSUME NEW s \in referenced'
      PROVE  /\ s[1] <= y /\ s[2] \in 1 .. n
             /\ fate' = "alive" => Single(w, s[2], s[1])
  <2>1. CASE s \in r
    <3>1. s[1] <= y
      BY <1>1, <1>3, <2>1
    <3>2. QED
      BY <1>3, <1>6, <2>1, <3>1
  <2>2. CASE s = << y, j >>
    <3>1. s[1] = y /\ s[2] = j /\ y <= y
      BY <1>1, <2>2
    <3>2. QED
      BY <1>7, <3>1
  <2>3. QED
    BY <1>1, <2>1, <2>2
<1>9. ReferencesKept'
  BY <1>1, <1>8 DEF ReferencesKept, w, y
<1>10. QED
  BY <1>5, <1>9 DEF Tidy

LEMMA Openings ==
  TypeOK /\ NestingKept /\ InRange /\ Fitting /\ Tidy /\ [Next]_vars => Tidy'
<1> SUFFICES ASSUME TypeOK, NestingKept, InRange, Fitting, Tidy, [Next]_vars PROVE Tidy'
  OBVIOUS
<1> DEFINE n == Len(menus)
<1>0. /\ Step /\ menus \in Seq(Menu) /\ n \in Nat
      /\ elements \in Nat /\ elements' \in Nat /\ elements <= elements'
  BY Steps, ElementsGrow DEF TypeOK
<1>1. ASSUME UNCHANGED << menus, referenced >>, stage' # "finished" => stage # "finished",
             fate' = "alive" => fate = "alive"
      PROVE  Tidy'
  BY <1>0, <1>1, KeepsTidy
<1>2. CASE Quiet \/ EndStep
  BY <1>1, <1>2 DEF Quiet, EndStep, vector, history, still
<1>3. CASE DeathStep
  <2>1. UNCHANGED << menus, stage >> /\ Reading /\ fate' # "alive"
    BY <1>3 DEF DeathStep, Dies, program, vector
  <2>2. CASE UNCHANGED referenced
    BY <1>1, <2>1, <2>2
  <2>3. ASSUME NEW j \in 1 .. n, NewReference(j) PROVE Tidy'
    <3> DEFINE died == TRUE
    <3>1. ReferredIn(menus', j, died, 0, 0)
      BY <2>1 DEF ReferredIn
    <3>2. died \in BOOLEAN /\ (fate' = "alive" => ~ died)
      BY <2>1
    <3>3. Len(menus') = n /\ \A m \in 1 .. n : menus'[m].parent = menus[m].parent
      BY <2>1
    <3> HIDE DEF died
    <3>4. QED
      BY <1>0, <2>1, <2>3, <3>1, <3>2, <3>3, ReferTidy
  <2>4. QED
    BY <1>3, <2>2, <2>3 DEF DeathStep
<1>4. CASE GivenStep
  <2>1. PICK q, k : menus' = Given(menus, q, k, elements) /\ UNCHANGED << referenced, still >>
    BY <1>4 DEF GivenStep, history
  <2>2. Len(menus') = n /\ \A m \in 1 .. n : menus'[m].parent = menus[m].parent
    BY <1>0, <2>1, GivenVector DEF SameMenu
  <2>3. \A a, i, d, x : OpensBy(menus', a, i, d, x) <=> OpensBy(menus, a, i, d, x)
    BY <1>0, <2>1, OpensByGiven
  <2>4. QED
    BY <1>0, <2>1, <2>2, <2>3, KeepsTidy DEF still
<1>5. ASSUME NEW e \in Entry, AddStep(e) PROVE Tidy'
  <2> DEFINE q == current_menu[2]
             i == Len(menus[q].entries) + 1
  <2>1. /\ Reading /\ q \in 1 .. n /\ menus' = Added(menus, q, e)
        /\ Plain(e) \/ Refers(e)
    BY <1>5 DEF AddStep, Valid
  <2>2. Len(menus') = n /\ \A m \in 1 .. n : menus'[m].parent = menus[m].parent
    BY <1>0, <2>1, AddedVector
  <2> HIDE DEF q
  <2>3. \A a, k, d, x : OpensBy(menus', a, k, d, x) <=>
          \/ OpensBy(menus, a, k, d, x)
          \/ /\ a = q /\ k = i
             /\ e.submenu[2] = d /\ e.made = x
    BY <1>0, <2>1, OpensByAdded
  <2> HIDE DEF i
  <2>4. UNCHANGED << stage, fate >>
    BY <1>5 DEF AddStep, still
  <2>5. CASE Plain(e)
    <3>1. e.submenu[2] = 0 /\ UNCHANGED referenced
      BY <2>5, NullTyped DEF Plain, history
    <3>2. \A a, k, d, x : d # 0 =>
            (OpensBy(menus', a, k, d, x) <=> OpensBy(menus, a, k, d, x))
      BY <2>3, <3>1
    <3>3. QED
      BY <1>0, <2>2, <2>4, <3>1, <3>2, KeepsTidy
  <2>6. CASE Refers(e)
    <3> DEFINE died == FALSE
    <3>1. PICK j \in 1 .. n : NewReference(j) /\ e.submenu[2] = j /\ e.made = elements'
      BY <2>6 DEF Refers
    <3>2. ReferredIn(menus', j, died, q, i)
      BY <2>3, <3>1 DEF ReferredIn
    <3>3. died \in BOOLEAN /\ (fate' = "alive" => ~ died)
      OBVIOUS
    <3> HIDE DEF died
    <3>4. Reading /\ NewReference(j) /\ stage' = stage
      BY <2>1, <2>4, <3>1
    <3>5. QED
      BY <1>0, <2>2, <3>2, <3>3, <3>4, ReferTidy
  <2>7. QED
    BY <2>1, <2>5, <2>6
<1>6. ASSUME NEW id \in Id, NEW b \in Moves, RootStart(id, b) PROVE Tidy'
  <2> DEFINE new == NewMenu(id, current_menu, b)
  <2>1. Reading /\ UNCHANGED referenced /\ menus' = Append(menus, new) /\ menu_level = 0
    BY <1>6 DEF RootStart, StartStep, history
  <2>2. new \in Menu /\ new.entries = << >> /\ new.parent = current_menu
    BY GrownTyped, MenuTyped DEF TypeOK
  <2> HIDE DEF new
  <2>3. open = << >>
    <3>1. Len(open) = 0
      BY <2>1 DEF NestingKept
    <3>2. QED
      BY <3>1 DEF TypeOK
  <2>4. /\ Len(menus') = n + 1 /\ \A m \in 1 .. n : menus'[m].parent = menus[m].parent
        /\ menus'[n + 1].parent = current_menu
    BY <1>0, <2>1, <2>2, AppendedVector
  <2>5. \A a, i, d, x : OpensBy(menus', a, i, d, x) <=> OpensBy(menus, a, i, d, x)
    BY <1>0, <2>1, <2>2, OpensByAppended
  <2>6. StartedIn(menus', 0)
    BY <2>3, <2>4, <2>5 DEF StartedIn
  <2>7. QED
    BY <1>0, <2>1, <2>6, StartOpens
<1>7. ASSUME NEW id \in Id, NEW b \in Moves, NestedStart(id, b) PROVE Tidy'
  <2> DEFINE new == NewMenu(id, current_menu, b)
             q == current_menu[2]
             e == ItemFor(b)
             v == Added(menus, q, e)
             k == Len(menus[q].entries) + 1
  <2>1. /\ Reading /\ UNCHANGED referenced /\ menus' = Append(v, new)
        /\ q \in 1 .. n /\ menu_level > 0
    BY <1>7 DEF NestedStart, StartStep, history, Valid
  <2>2. new \in Menu /\ new.entries = << >> /\ new.parent = current_menu
    BY GrownTyped, MenuTyped DEF TypeOK
  <2>3. e \in Entry /\ e.submenu[2] = n + 1 /\ e.made = elements'
    BY <1>0, ItemTyped, ItemFits
  <2> HIDE DEF new, e
  <2>4. open # << >>
    <3>1. menu_level = Len(open)
      BY <2>1 DEF NestingKept
    <3>2. QED
      BY <2>1, <3>1
  <2>5. /\ v \in Seq(Menu) /\ Len(v) = n
        /\ \A m \in 1 .. n : v[m].parent = menus[m].parent
    BY <1>0, <2>1, <2>3, AddedVector
  <2>6. \A a, i, d, x : OpensBy(v, a, i, d, x) <=>
          \/ OpensBy(menus, a, i, d, x)
          \/ a = q /\ i = k /\ e.submenu[2] = d /\ e.made = x
    BY <1>0, <2>1, <2>3, OpensByAdded
  <2> HIDE DEF v, k
  <2>7. /\ Len(menus') = n + 1 /\ \A m \in 1 .. n : menus'[m].parent = menus[m].parent
        /\ menus'[n + 1].parent = current_menu
    BY <2>1, <2>2, <2>5, AppendedVector
  <2>8. \A a, i, d, x : OpensBy(menus', a, i, d, x) <=> OpensBy(v, a, i, d, x)
    BY <2>1, <2>2, <2>5, OpensByAppended
  <2>9. n + 1 # 0
    BY <1>0
  <2>10. \A a, i, d, x : OpensBy(menus', a, i, d, x) /\ d # 0 <=>
           \/ OpensBy(menus, a, i, d, x) /\ d # 0
           \/ open # << >> /\ a = q /\ i = k /\ d = n + 1 /\ x = elements'
    BY <2>3, <2>4, <2>6, <2>8, <2>9
  <2>11. StartedIn(menus', k)
    BY <2>7, <2>10 DEF StartedIn
  <2>12. QED
    BY <1>0, <2>1, <2>11, StartOpens
<1>8. ASSUME NEW k \in 1 .. n, InitWith(k) PROVE Tidy'
  <2>1. menus' = Filled(menus, k, base) /\ UNCHANGED referenced /\ Reading
    BY <1>8 DEF InitWith, history
  <2>2. Len(menus') = n /\ \A m \in 1 .. n : menus'[m].parent = menus[m].parent
    BY <1>0, <2>1, FilledKeeps
  <2>3. \A a, i, d, x : d # 0 =>
          (OpensBy(menus', a, i, d, x) <=> OpensBy(menus, a, i, d, x))
    BY <1>0, <2>1, OpensByFilled
  <2>4. stage # "finished" /\ fate = "alive"
    BY <2>1 DEF Reading
  <2>5. QED
    BY <1>0, <2>1, <2>2, <2>3, <2>4, KeepsTidy
<1>9. ASSUME NEW b \in Moves, InitWithout(b) PROVE Tidy'
  <2> DEFINE u == Rooted(b)
             new == NewMenu(RootId, current_menu, b)
  <2>1. Reading /\ open = << >> /\ UNCHANGED referenced /\ menus' = Filled(u, n + 1, b)
    BY <1>9 DEF InitWithout, history
  <2>2. new \in Menu /\ new.entries = << >> /\ new.parent = current_menu
    BY FileAssumption, GrownTyped, MenuTyped DEF TypeOK
  <2>3. u = Append(menus, new)
    BY DEF Rooted
  <2> HIDE DEF new, u
  <2>4. /\ u \in Seq(Menu) /\ Len(u) = n + 1 /\ n + 1 \in 1 .. Len(u)
        /\ \A m \in 1 .. n : u[m] = menus[m]
        /\ u[n + 1].parent = current_menu
    BY <1>0, <2>2, <2>3, AppendedVector
  <2>5. Len(menus') = n + 1 /\ \A m \in 1 .. n + 1 : menus'[m].parent = u[m].parent
    BY <2>1, <2>4, FilledKeeps
  <2>6. /\ \A m \in 1 .. n : menus'[m].parent = menus[m].parent
        /\ menus'[n + 1].parent = current_menu
    <3>1. \A m \in 1 .. n : m \in 1 .. n + 1
      BY <1>0
    <3>2. QED
      BY <2>4, <2>5, <3>1
  <2>7. \A a, i, d, x : OpensBy(menus', a, i, d, x) /\ d # 0 <=>
          OpensBy(menus, a, i, d, x) /\ d # 0
    BY <1>0, <2>1, <2>2, <2>3, <2>4, OpensByFilled, OpensByAppended
  <2>8. StartedIn(menus', 0)
    BY <2>1, <2>5, <2>6, <2>7 DEF StartedIn
  <2>9. QED
    BY <1>0, <2>1, <2>8, StartOpens
<1>10. CASE menu_finish
  <2>1. /\ UNCHANGED referenced /\ (UNCHANGED menus \/ menus' = << >>)
        /\ stage' = "finished"
    BY <1>10 DEF menu_finish, history
  <2>2. ReferencesKept'
    BY <2>1 DEF ReferencesKept
  <2>3. OneOpener'
    <3>1. CASE UNCHANGED menus
      BY <2>1, <3>1 DEF Tidy, OneOpener
    <3>2. CASE menus' = << >>
      BY <3>2 DEF OneOpener
    <3>3. QED
      BY <2>1, <3>1, <3>2
  <2>4. QED
    BY <2>2, <2>3 DEF Tidy
<1>11. QED
  BY <1>0, <1>2, <1>3, <1>4, <1>5, <1>6, <1>7, <1>8, <1>9, <1>10 DEF Step

(* The root menu that menu_init has found or made is not empty.            *)
RootKept ==
  stage = "built" /\ fate = "alive" => \E k \in WithId(RootId) : menus[k].entries # << >>

(* No menu has the id, or one is the first that has it.                    *)
LEMMA IdsFound ==
  ASSUME NEW id, menus \in Seq(Menu), NEW m \in 1 .. Len(menus), menus[m].id = id
  PROVE  WithId(id) # {}
<1> DEFINE S == {k \in 1 .. Len(menus) : menus[k].id = id}
<1>1. S \in SUBSET Nat /\ S # {}
  OBVIOUS
<1>2. PICK k \in S : \A j \in S : k <= j
  BY <1>1, LeastExists
<1>3. ASSUME NEW j \in 1 .. k - 1 PROVE menus[j].id # id
  <2>1. j \in 1 .. Len(menus) /\ ~ (k <= j)
    OBVIOUS
  <2>2. QED
    BY <1>2, <2>1
<1>4. QED
  BY <1>3 DEF WithId

LEMMA AliveAtBase ==
  ASSUME NEW v, NEW k, NEW b, Recursion(v, k, b) = "alive"
  PROVE  v[k].head = b
BY DEF Recursion

LEMMA RootsKept ==
  TypeOK /\ NestingKept /\ RootKept /\ [Next]_vars => RootKept'
<1> SUFFICES ASSUME TypeOK, NestingKept, RootKept, [Next]_vars PROVE RootKept'
  OBVIOUS
<1> DEFINE n == Len(menus)
<1>0. Step /\ menus \in Seq(Menu) /\ n \in Nat
  BY Steps DEF TypeOK
<1>1. ASSUME stage' = "reading" PROVE RootKept'
  BY <1>1 DEF RootKept
<1>2. CASE Quiet
  BY <1>2 DEF Quiet, vector, still, RootKept, WithId
<1>3. CASE DeathStep \/ menu_finish
  BY <1>3 DEF DeathStep, Dies, menu_finish, RootKept
<1>4. ASSUME NEW k \in 1 .. n, InitWith(k), fate' = "alive"
      PROVE  (\E m \in WithId(RootId) : menus[m].entries # << >>)'
  <2>1. /\ k \in WithId(RootId) /\ menus' = Filled(menus, k, base)
        /\ Recursion(menus', k, base) = "alive"
    BY <1>4 DEF InitWith
  <2>2. /\ Len(menus') = n /\ menus'[k].head = menus[k].head
        /\ \A m \in 1 .. n : menus'[m].id = menus[m].id
        /\ menus[k].head = base => menus'[k].entries # << >>
    BY <1>0, <2>1, FilledKeeps
  <2>3. menus'[k].entries # << >>
    BY <2>1, <2>2, AliveAtBase
  <2>4. k \in WithId(RootId)'
    BY <1>0, <2>1, <2>2 DEF WithId
  <2>5. QED
    BY <2>3, <2>4
<1>5. ASSUME NEW b \in Moves, InitWithout(b), fate' = "alive"
      PROVE  (\E m \in WithId(RootId) : menus[m].entries # << >>)'
  <2> DEFINE u == Rooted(b)
             new == NewMenu(RootId, current_menu, b)
             k == n + 1
  <2>1. WithId(RootId) = {} /\ menus' = Filled(u, k, b)
    BY <1>5 DEF InitWithout
  <2>2. new \in Menu /\ new.id = RootId /\ new.head = b
    BY FileAssumption, GrownTyped, MenuTyped DEF TypeOK
  <2>3. u = Append(menus, new)
    BY DEF Rooted
  <2> HIDE DEF new, u
  <2>4. /\ u \in Seq(Menu) /\ Len(u) = k /\ k \in 1 .. Len(u)
        /\ u[k].id = RootId /\ u[k].head = b
        /\ \A m \in 1 .. n : u[m] = menus[m]
    BY <1>0, <2>2, <2>3, AppendedVector
  <2>5. /\ Len(menus') = k /\ menus'[k].entries # << >>
        /\ \A m \in 1 .. k : menus'[m].id = u[m].id
    BY <2>1, <2>4, FilledKeeps
  <2>6. \A m \in 1 .. n : menus[m].id # RootId
    BY <1>0, <2>1, IdsFound
  <2>7. \A j \in 1 .. k - 1 : menus'[j].id # RootId
    <3>1. \A j \in 1 .. k - 1 : j \in 1 .. n /\ j \in 1 .. k
      BY <1>0
    <3>2. QED
      BY <2>4, <2>5, <2>6, <3>1
  <2>8. k \in WithId(RootId)'
    BY <2>4, <2>5, <2>7 DEF WithId
  <2>9. QED
    BY <2>5, <2>8
<1>6. CASE GivenStep \/ EndStep \/ (\E e : AddStep(e))
           \/ \E id, b : RootStart(id, b) \/ NestedStart(id, b)
  BY <1>1, <1>6
  DEF GivenStep, EndStep, AddStep, RootStart, NestedStart, StartStep, Reading, still
<1>7. QED
  BY <1>0, <1>2, <1>3, <1>4, <1>5, <1>6 DEF Step, RootKept

(* The items that open menu m, and those of them that no reference made.   *)
Own(m) == {i \in Openers(m) : << MadeBy(i), m >> \notin referenced}

LEMMA OpenersOpen ==
  ASSUME NEW m
  PROVE  /\ \A a, k, x : OpensBy(menus, a, k, m, x) <=>
              << a, k >> \in Openers(m) /\ MadeBy(<< a, k >>) = x
         /\ \A i \in Openers(m) : \E a, k : i = << a, k >>
<1>1. \A a, k : << a, k >> \in Items <=>
        a \in 1 .. Len(menus) /\ k \in 1 .. Len(menus[a].entries)
  BY DEF Items
<1>2. \A a, k : << a, k >> \in Openers(m) <=> Opens(menus, a, k, m)
  BY <1>1 DEF Openers, Opens, Leads
<1>3. \A a, k, x : OpensBy(menus, a, k, m, x) <=>
        << a, k >> \in Openers(m) /\ MadeBy(<< a, k >>) = x
  BY <1>2 DEF OpensBy, MadeBy
<1>4. \A i \in Openers(m) : \E a, k : i = << a, k >>
  BY DEF Openers, Items
<1>5. QED
  BY <1>3, <1>4

(* Each item that opens a menu opens one of them, and can be selected.     *)
LEMMA ItemsLead ==
  ASSUME TypeOK, InRange, Fitting, NEW i \in Items,
         menus[i[1]].entries[i[2]].submenu # NULL
  PROVE  /\ menus[i[1]].entries[i[2]].selectable
         /\ menus[i[1]].entries[i[2]].submenu[2] \in 1 .. Len(menus)
<1> DEFINE e == menus[i[1]].entries[i[2]]
<1>1. i[1] \in 1 .. Len(menus) /\ i[2] \in 1 .. Len(menus[i[1]].entries)
  BY DEF Items
<1>2. e \in Fit(elements)
  BY <1>1 DEF Fitting, Contains
<1>3. e.selectable /\ e.submenu[2] # 0
  BY <1>2 DEF Fit, Selectable
<1>4. Opens(menus, i[1], i[2], e.submenu[2])
  BY <1>1 DEF Opens, Leads
<1>5. e.submenu[2] \in 1 .. Len(menus)
  BY <1>3, <1>4, OpensInRange
<1>6. QED
  BY <1>3, <1>5

(* A menu is opened where it is defined, by one item of its own. *)
LEMMA DefinedItems ==
  ASSUME TypeOK, OneOpener, NEW m \in 1 .. Len(menus)
  PROVE  LET parent == menus[m].parent[2]
         IN  IF parent = 0 THEN Own(m) = {} ELSE \E i \in Own(m) : Own(m) = {i} /\ i[1] = parent
<1> DEFINE p == menus[m].parent[2]
           r == referenced
<1>1. Sole(menus, r, m, p)
  BY DEF OneOpener
<1>2. \A a, k : Defines(menus, r, a, k, m) <=> << a, k >> \in Own(m)
  BY OpenersOpen DEF Defines, Own
<1>3. \A i \in Own(m) : \E a, k : i = << a, k >>
  BY OpenersOpen DEF Own
<1> HIDE DEF p, r
<1>4. CASE p = 0
  <2>1. ASSUME NEW i \in Own(m) PROVE FALSE
    <3>1. PICK a, k : i = << a, k >>
      BY <1>3
    <3>2. Defines(menus, r, a, k, m)
      BY <1>2, <2>1, <3>1
    <3>3. a = 0
      BY <1>1, <1>4, <3>2 DEF Sole
    <3>4. a \in 1 .. Len(menus)
      BY <3>2 DEF Defines, OpensBy, Opens, Leads
    <3>5. QED
      BY <3>3, <3>4
  <2>2. Own(m) = {}
    BY <2>1
  <2>3. QED
    BY <1>4, <2>2 DEF p
<1>5. CASE p # 0
  <2>1. PICK k : Defines(menus, r, p, k, m)
    BY <1>1, <1>5 DEF Sole
  <2>2. << p, k >> \in Own(m)
    BY <1>2, <2>1
  <2>3. ASSUME NEW i \in Own(m) PROVE i = << p, k >>
    <3>1. PICK a, j : i = << a, j >>
      BY <1>3
    <3>2. Defines(menus, r, a, j, m)
      BY <1>2, <2>3, <3>1
    <3>3. a = p /\ j = k
      BY <1>1, <2>1, <3>2 DEF Sole
    <3>4. QED
      BY <3>1, <3>3
  <2>4. Own(m) = {<< p, k >>} /\ << p, k >>[1] = p
    BY <2>2, <2>3
  <2>5. QED
    BY <1>5, <2>2, <2>4 DEF p
<1>6. QED
  BY <1>4, <1>5

(* A reference has made one item. *)
LEMMA ReferringItems ==
  ASSUME NEW m, NEW x, Single(menus, m, x)
  PROVE  \E i \in Openers(m) : {j \in Openers(m) : MadeBy(j) = x} = {i}
<1>1. PICK a, k : /\ OpensBy(menus, a, k, m, x)
                  /\ \A b, j : OpensBy(menus, b, j, m, x) => b = a /\ j = k
  BY DEF Single
<1>2. << a, k >> \in Openers(m) /\ MadeBy(<< a, k >>) = x
  BY <1>1, OpenersOpen
<1>3. ASSUME NEW i \in Openers(m), MadeBy(i) = x PROVE i = << a, k >>
  <2>1. PICK b, j : i = << b, j >>
    BY OpenersOpen
  <2>2. OpensBy(menus, b, j, m, x)
    BY <1>3, <2>1, OpenersOpen
  <2>3. QED
    BY <1>1, <2>1, <2>2
<1>4. {j \in Openers(m) : MadeBy(j) = x} = {<< a, k >>}
  BY <1>2, <1>3
<1>5. QED
  BY <1>2, <1>4

LEMMA DeliveredAsPromised ==
  ASSUME TypeOK, InRange, Fitting, Tidy, Acyclic, RootKept
  PROVE  Delivered
<1> SUFFICES ASSUME stage = "built", fate = "alive" PROVE Delivered
  BY DEF Delivered
<1>1. \E k \in WithId(RootId) : menus[k].entries # << >>
  BY DEF RootKept
<1>2. \A i \in Items :
        LET e == menus[i[1]].entries[i[2]]
        IN  e.submenu # NULL => e.selectable /\ e.submenu[2] \in 1 .. Len(menus)
  BY ItemsLead
<1>3. looped \/ \A m \in 1 .. Len(menus) : m \notin Below(menus, m)
  BY DEF Acyclic
<1>4. \A m \in 1 .. Len(menus) :
        LET parent == menus[m].parent[2]
        IN  IF parent = 0 THEN Own(m) = {}
            ELSE \E i \in Own(m) : Own(m) = {i} /\ i[1] = parent
  BY DefinedItems DEF Tidy
<1>5. \A r \in referenced :
        \E i \in Openers(r[2]) : {j \in Openers(r[2]) : MadeBy(j) = r[1]} = {i}
  BY ReferringItems DEF Tidy, ReferencesKept
<1>6. QED
  BY <1>1, <1>2, <1>3, <1>4, <1>5 DEF Delivered, Own

(* A document whose menus make a tree: no reference is to an open menu, to *)
(* one that another reference or the place of its definition has shown, or *)
(* to the root, which is not defined in another menu.                      *)
TreeDocument ==
  /\ ~ looped
  /\ \A r, s \in referenced : r[2] = s[2] => r = s
  /\ \A r \in referenced : menus[r[2]].parent[2] = 0
  /\ \A k \in WithId(RootId) : menus[k].parent[2] = 0 /\ \A r \in referenced : r[2] # k

(* What Menu takes a tree to be (IsTree). *)
MenusAreTree ==
  /\ \A m \in 1 .. Len(menus) : \A i, j \in Openers(m) : i = j
  /\ \A k \in WithId(RootId) : Openers(k) = {}
  /\ \A m \in 1 .. Len(menus) : m \notin Below(menus, m)

LEMMA DeliveredTree ==
  ASSUME Delivered, stage = "built", fate = "alive", TreeDocument
  PROVE  MenusAreTree
<1> DEFINE r == referenced
<1>1. /\ \A m \in 1 .. Len(menus) : m \notin Below(menus, m)
      /\ \A m \in 1 .. Len(menus) :
           LET parent == menus[m].parent[2]
           IN  IF parent = 0 THEN Own(m) = {}
               ELSE \E i \in Own(m) : Own(m) = {i} /\ i[1] = parent
      /\ \A s \in r : \E i \in Openers(s[2]) : {j \in Openers(s[2]) : MadeBy(j) = s[1]} = {i}
  BY DEF Delivered, TreeDocument, Own
<1>2. /\ \A s, t \in r : s[2] = t[2] => s = t
      /\ \A s \in r : menus[s[2]].parent[2] = 0
      /\ \A k \in WithId(RootId) : menus[k].parent[2] = 0 /\ \A s \in r : s[2] # k
  BY DEF TreeDocument
<1>3. \A m : \A i \in Openers(m) \ Own(m) : << MadeBy(i), m >> \in r
  BY DEF Own
<1> HIDE DEF r
<1>4. ASSUME NEW m \in 1 .. Len(menus), NEW i \in Openers(m), NEW j \in Openers(m)
      PROVE  i = j
  <2>1. CASE menus[m].parent[2] = 0
    <3> DEFINE s == << MadeBy(i), m >>
               t == << MadeBy(j), m >>
    <3>1. s \in r /\ t \in r /\ s[2] = m /\ t[2] = m
      BY <1>1, <1>3, <2>1
    <3>2. s = t
      BY <1>2, <3>1
    <3>3. MadeBy(i) = s[1] /\ MadeBy(j) = s[1]
      BY <3>2
    <3> HIDE DEF s, t
    <3>4. PICK o \in Openers(s[2]) : {x \in Openers(s[2]) : MadeBy(x) = s[1]} = {o}
      BY <1>1, <3>1
    <3>5. {x \in Openers(m) : MadeBy(x) = s[1]} = {o}
      BY <3>1, <3>4
    <3>6. i \in {x \in Openers(m) : MadeBy(x) = s[1]}
      BY <3>3
    <3>7. j \in {x \in Openers(m) : MadeBy(x) = s[1]}
      BY <3>3
    <3>8. QED
      BY <3>5, <3>6, <3>7
  <2>2. CASE menus[m].parent[2] # 0
    <3>1. \A s \in r : s[2] # m
      BY <1>2, <2>2
    <3>2. i \in Own(m) /\ j \in Own(m)
      <4>1. << MadeBy(i), m >>[2] = m /\ << MadeBy(j), m >>[2] = m
        OBVIOUS
      <4>2. << MadeBy(i), m >> \notin r /\ << MadeBy(j), m >> \notin r
        BY <3>1, <4>1
      <4>3. QED
        BY <1>3, <4>2
    <3>3. PICK o \in Own(m) : Own(m) = {o}
      BY <1>1, <2>2
    <3>4. QED
      BY <3>2, <3>3
  <2>3. QED
    BY <2>1, <2>2
<1>5. ASSUME NEW k \in WithId(RootId), NEW i \in Openers(k) PROVE FALSE
  <2>1. k \in 1 .. Len(menus) /\ menus[k].parent[2] = 0 /\ Own(k) = {}
    BY <1>1, <1>2 DEF WithId
  <2>2. << MadeBy(i), k >> \in r
    BY <1>3, <2>1
  <2>3. << MadeBy(i), k >>[2] = k
    OBVIOUS
  <2>4. QED
    BY <1>2, <2>2, <2>3
<1>6. QED
  BY <1>1, <1>4, <1>5 DEF MenusAreTree
-----------------------------------------------------------------------------
(* Properties.  The label is what makes the item, so that an item with a   *)
(* label is the current one.                                               *)

Holds(v, c, x) ==
  /\ c[1] \in 1 .. Len(v) /\ c[2] \in 1 .. Len(v[c[1]].entries)
  /\ v[c[1]].entries[c[2]].made = x

CurrentItem ==
  Reading /\ in_item /\ labelled /\ open # << >> => Holds(menus, current_item, elements)

LEMMA HoldsGiven ==
  ASSUME NEW v \in Seq(Menu), NEW q, NEW n, NEW x \in Nat, NEW c, NEW y, Holds(v, c, y)
  PROVE  Holds(Given(v, q, n, x), c, y)
<1> DEFINE w == Given(v, q, n, x)
<1>1. Len(w) = Len(v) /\ \A m \in 1 .. Len(v) : SameMenu(w[m], v[m])
  BY GivenVector
<1> HIDE DEF w
<1>2. QED
  BY <1>1 DEF Holds, SameMenu, SameEntries, w

LEMMA CurrentItems ==
  TypeOK /\ CurrentItem /\ [Next]_vars => CurrentItem'
<1> SUFFICES ASSUME TypeOK, CurrentItem, [Next]_vars,
                    Reading', in_item', labelled', open' # << >>
             PROVE  Holds(menus', current_item', elements')
  BY DEF CurrentItem
<1>0. menus \in Seq(Menu) /\ elements \in Nat
  BY FileAssumption DEF TypeOK
<1>1. CASE UNCHANGED vars
  BY <1>1 DEF vars, program, vector, document, CurrentItem, Reading
<1>2. ASSUME NEW id, StartMenu(id) \/ Reference(id) \/ handle_separator_element PROVE FALSE
  <2>1. ~ in_item
    BY <1>2 DEF StartMenu, Reference, handle_separator_element, Element
  <2>2. in_item' = in_item
    BY <1>2 DEF StartMenu, Reference, handle_separator_element, Create, Dies, program
  <2>3. QED
    BY <2>1, <2>2
<1>3. CASE EndMenu
  BY <1>3 DEF EndMenu, Dies, program
<1>4. CASE StartItem \/ EndItem
  BY <1>4 DEF StartItem, EndItem
<1>5. CASE Label
  <2> DEFINE e == NewEntry(TRUE, NULL, elements)
             m == current_menu[2]
  <2>1. /\ UNCHANGED << elements, open >> /\ Create(e) /\ ~ Dies(current_menu)
    BY <1>5 DEF Label, Dies, Reading
  <2>2. /\ menus' = Added(menus, m, e) /\ m \in 1 .. Len(menus)
        /\ current_item' = << m, Len(menus[m].entries) + 1 >>
    BY <2>1 DEF Create, Added, Valid
  <2>3. e \in Entry /\ e.made = elements
    BY <1>0, EntryTyped, NullTyped
  <2> HIDE DEF e, m
  <2>4. /\ Len(menus') = Len(menus)
        /\ Len(menus'[m].entries) = Len(menus[m].entries) + 1
        /\ menus'[m].entries[Len(menus[m].entries) + 1] = e
        /\ Len(menus[m].entries) \in Nat
    BY <1>0, <2>2, <2>3, AddedVector, VectorTyped
  <2>5. current_item'[1] = m /\ current_item'[2] = Len(menus[m].entries) + 1
    BY <2>2
  <2>6. Len(menus[m].entries) + 1 \in 1 .. Len(menus'[m].entries)
    BY <2>4
  <2>7. QED
    BY <2>1, <2>2, <2>3, <2>4, <2>5, <2>6 DEF Holds
<1>6. CASE Property
  <2>1. UNCHANGED << in_item, labelled, open, current_item, elements, stage, fate >>
    BY <1>6 DEF Property, document
  <2>2. Holds(menus, current_item, elements)
    BY <2>1 DEF CurrentItem, Reading
  <2>3. menus' = menus \/ menus' = Given(menus, current_item[1], current_item[2], elements)
    BY <1>6 DEF Property, Given, GivenTo
  <2>4. QED
    BY <1>0, <2>1, <2>2, <2>3, HoldsGiven
<1>7. CASE menu_init \/ menu_finish
  BY <1>7 DEF menu_init, menu_finish, Reading
<1>8. QED
  BY <1>1, <1>2, <1>3, <1>4, <1>5, <1>6, <1>7 DEF Next

(* OwnProperties, of any vector. *)
OwnIn(v) ==
  \A m \in 1 .. Len(v) : \A k \in 1 .. Len(v[m].entries) :
    v[m].entries[k].given \subseteq {v[m].entries[k].made}

LEMMA OwnAdded ==
  ASSUME NEW v \in Seq(Menu), NEW q \in 1 .. Len(v), NEW e \in Entry, e.given = {}, OwnIn(v)
  PROVE  OwnIn(Added(v, q, e))
<1> DEFINE w == Added(v, q, e)
           n == Len(v[q].entries)
<1>0. n \in Nat
  BY VectorTyped
<1> HIDE DEF n
<1>1. /\ Len(w) = Len(v) /\ Len(w[q].entries) = n + 1 /\ w[q].entries[n + 1] = e
      /\ \A m \in 1 .. Len(v) : m # q => w[m] = v[m]
      /\ \A k \in 1 .. n : w[q].entries[k] = v[q].entries[k]
  <2>1. Len(w) = Len(v) /\ \A m \in 1 .. Len(v) : m # q => w[m] = v[m]
    BY AddedVector
  <2>2. Len(w[q].entries) = n + 1 /\ w[q].entries[n + 1] = e
    BY AddedVector DEF n
  <2>3. ASSUME NEW k \in 1 .. n PROVE w[q].entries[k] = v[q].entries[k]
    <3>1. k \in 1 .. (n + 1) - 1
      BY <1>0
    <3>2. QED
      BY <3>1, AddedVector DEF n
  <2> HIDE DEF w
  <2>4. QED
    BY <2>1, <2>2, <2>3
<1>2. \A k \in 1 .. n + 1 : k \in 1 .. n \/ k = n + 1
  BY <1>0
<1> HIDE DEF w
<1>3. ASSUME NEW m \in 1 .. Len(w), NEW k \in 1 .. Len(w[m].entries)
      PROVE  w[m].entries[k].given \subseteq {w[m].entries[k].made}
  <2>1. CASE m # q
    BY <1>1, <1>3, <2>1 DEF OwnIn
  <2>2. CASE m = q /\ k \in 1 .. n
    BY <1>1, <1>3, <2>2 DEF OwnIn, n
  <2>3. CASE m = q /\ k = n + 1
    BY <1>1, <2>3
  <2>4. QED
    BY <1>1, <1>2, <1>3, <2>1, <2>2, <2>3
<1>4. QED
  BY <1>3 DEF OwnIn, w

LEMMA OwnAppended ==
  ASSUME NEW v \in Seq(Menu), NEW new \in Menu, new.entries = << >>, OwnIn(v)
  PROVE  OwnIn(Append(v, new))
<1> DEFINE w == Append(v, new)
<1>1. Len(w) = Len(v) + 1 /\ Len(v) \in Nat /\ w[Len(v) + 1] = new
      /\ \A m \in 1 .. Len(v) : w[m] = v[m]
  BY AppendedVector
<1> HIDE DEF w
<1>2. \A m \in 1 .. Len(w) : m \in 1 .. Len(v) \/ m = Len(v) + 1
  BY <1>1
<1>3. QED
  BY <1>1, <1>2 DEF OwnIn, w

LEMMA OwnFilled ==
  ASSUME NEW v \in Seq(Menu), NEW k \in 1 .. Len(v), NEW b, OwnIn(v)
  PROVE  OwnIn(Filled(v, k, b))
<1> DEFINE e == NewEntry(TRUE, NULL, 0)
           u == Added(v, k, e)
<1>1. CASE v[k].entries = << >> /\ v[k].head = b
  <2>1. e \in Entry /\ e.given = {}
    BY EntryTyped, NullTyped
  <2> HIDE DEF e
  <2>2. u \in Seq(Menu) /\ Len(u) = Len(v) /\ OwnIn(u)
    BY <2>1, AddedVector, OwnAdded
  <2> HIDE DEF u
  <2>3. OwnIn(Added(u, k, e))
    BY <2>1, <2>2, OwnAdded
  <2>4. QED
    BY <1>1, <2>3, FilledVector DEF e, u
<1>2. CASE ~ (v[k].entries = << >> /\ v[k].head = b)
  BY <1>2 DEF Filled
<1>3. QED
  BY <1>1, <1>2

LEMMA OwnGiven ==
  ASSUME NEW v \in Seq(Menu), NEW c, NEW x \in Nat, Holds(v, c, x), OwnIn(v)
  PROVE  OwnIn(Given(v, c[1], c[2], x))
<1> DEFINE w == Given(v, c[1], c[2], x)
           q == c[1]
<1>1. /\ Len(w) = Len(v) /\ \A m \in 1 .. Len(v) : SameMenu(w[m], v[m])
      /\ \A m \in 1 .. Len(v) \ {q} : w[m] = v[m]
      /\ q \in 1 .. Len(v) => GivenIn(v[q].entries, w[q].entries, c[2], x)
  BY GivenVector
<1> HIDE DEF w
<1>2. q \in 1 .. Len(v) /\ v[q].entries[c[2]].made = x
  BY DEF Holds
<1> HIDE DEF q
<1>3. ASSUME NEW m \in 1 .. Len(v), NEW k \in 1 .. Len(w[m].entries)
      PROVE  w[m].entries[k].given \subseteq {w[m].entries[k].made}
  <2>1. k \in 1 .. Len(v[m].entries) /\ w[m].entries[k].made = v[m].entries[k].made
    BY <1>1, <1>3 DEF SameMenu, SameEntries
  <2>2. v[m].entries[k].given \subseteq {v[m].entries[k].made}
    BY <2>1 DEF OwnIn
  <2>3. CASE m # q
    BY <1>1, <2>2, <2>3
  <2>4. CASE m = q
    <3>1. w[q].entries[k].given =
            IF k = c[2] THEN v[q].entries[k].given \union {x} ELSE v[q].entries[k].given
      BY <1>1, <1>2, <2>1, <2>4 DEF GivenIn
    <3>2. CASE k = c[2]
      <4>1. w[m].entries[k].given = v[m].entries[k].given \union {v[m].entries[k].made}
        BY <1>2, <2>4, <3>1, <3>2
      <4>2. QED
        BY <2>1, <2>2, <4>1
    <3>3. CASE k # c[2]
      BY <2>1, <2>2, <2>4, <3>1, <3>3
    <3>4. QED
      BY <3>2, <3>3
  <2>5. QED
    BY <2>3, <2>4
<1>4. QED
  BY <1>1, <1>3 DEF OwnIn, w, q

LEMMA Owning ==
  LabelFirst /\ TypeOK /\ NestingKept /\ CurrentItem /\ OwnProperties /\ [Next]_vars
    => OwnProperties'
<1> SUFFICES ASSUME LabelFirst, TypeOK, NestingKept, CurrentItem, OwnIn(menus), [Next]_vars
             PROVE  OwnIn(menus')
  BY DEF OwnProperties, OwnIn
<1> DEFINE n == Len(menus)
<1>0. /\ Step /\ menus \in Seq(Menu) /\ n \in Nat /\ elements \in Nat /\ elements' \in Nat
  BY Steps, ElementsCounted, FileAssumption DEF TypeOK
<1>1. CASE Quiet \/ DeathStep \/ EndStep
  BY <1>1 DEF Quiet, DeathStep, EndStep, Dies, program, vector
<1>2. CASE GivenStep
  <2>1. Holds(menus, current_item, elements)
    BY <1>2 DEF GivenStep, CurrentItem
  <2>2. menus' = Given(menus, current_item[1], current_item[2], elements)
    BY <1>2 DEF GivenStep
  <2>3. QED
    BY <1>0, <2>1, <2>2, OwnGiven
<1>3. ASSUME NEW e \in Entry, AddStep(e) PROVE OwnIn(menus')
  <2>1. /\ current_menu[2] \in 1 .. n /\ e.given = {}
        /\ menus' = Added(menus, current_menu[2], e)
    BY <1>3 DEF AddStep, Valid
  <2>2. QED
    BY <1>0, <2>1, OwnAdded
<1>4. ASSUME NEW id \in Id, NEW b \in Moves, NEW v \in Seq(Menu), OwnIn(v),
             menus' = Append(v, NewMenu(id, current_menu, b))
      PROVE  OwnIn(menus')
  <2> DEFINE new == NewMenu(id, current_menu, b)
  <2>1. new \in Menu /\ new.entries = << >>
    BY GrownTyped, MenuTyped DEF TypeOK
  <2> HIDE DEF new
  <2>2. QED
    BY <1>4, <2>1, OwnAppended DEF new
<1>5. ASSUME NEW id \in Id, NEW b \in Moves, RootStart(id, b) PROVE OwnIn(menus')
  BY <1>0, <1>4, <1>5 DEF RootStart, StartStep
<1>6. ASSUME NEW id \in Id, NEW b \in Moves, NestedStart(id, b) PROVE OwnIn(menus')
  <2> DEFINE q == current_menu[2]
             e == ItemFor(b)
             v == Added(menus, q, e)
  <2>1. q \in 1 .. n /\ menus' = Append(v, NewMenu(id, current_menu, b))
    BY <1>6 DEF NestedStart, StartStep, Valid
  <2>2. e \in Entry /\ e.given = {}
    <3>1. e \in Entry
      BY <1>0, ItemTyped
    <3>2. QED
      BY <3>1 DEF ItemFor, NewEntry
  <2> HIDE DEF q, e
  <2>3. v \in Seq(Menu) /\ OwnIn(v)
    BY <1>0, <2>1, <2>2, AddedVector, OwnAdded
  <2> HIDE DEF v
  <2>4. QED
    BY <1>4, <2>1, <2>3
<1>7. ASSUME NEW k \in 1 .. n, InitWith(k) PROVE OwnIn(menus')
  BY <1>0, <1>7, OwnFilled DEF InitWith
<1>8. ASSUME NEW b \in Moves, InitWithout(b) PROVE OwnIn(menus')
  <2> DEFINE u == Rooted(b)
             new == NewMenu(RootId, current_menu, b)
  <2>1. menus' = Filled(u, n + 1, b)
    BY <1>8 DEF InitWithout
  <2>2. new \in Menu /\ new.entries = << >>
    BY FileAssumption, GrownTyped, MenuTyped DEF TypeOK
  <2>3. u = Append(menus, new)
    BY DEF Rooted
  <2> HIDE DEF new, u
  <2>4. u \in Seq(Menu) /\ Len(u) = n + 1 /\ n + 1 \in 1 .. Len(u) /\ OwnIn(u)
    BY <1>0, <2>2, <2>3, AppendedVector, OwnAppended
  <2>5. QED
    BY <2>1, <2>4, OwnFilled
<1>9. CASE menu_finish
  <2>1. UNCHANGED menus \/ menus' = << >>
    BY <1>9 DEF menu_finish
  <2>2. OwnIn(<< >>)
    BY DEF OwnIn
  <2>3. QED
    BY <2>1, <2>2
<1>10. QED
  BY <1>0, <1>1, <1>2, <1>3, <1>5, <1>6, <1>7, <1>8, <1>9 DEF Step
-----------------------------------------------------------------------------
(* The inductive invariant, of which the last part alone depends on where  *)
(* the labels are.                                                         *)
Inv ==
  /\ TypeOK /\ NestingKept /\ Nested
  /\ InRange /\ Room /\ Settled /\ Ranked /\ DeathsExplained
  /\ Fitting /\ Tidy /\ Acyclic /\ RootKept /\ CurrentItem

LEMMA InitInv == Init => Inv /\ OwnProperties
<1> SUFFICES ASSUME Init PROVE Inv /\ OwnProperties
  OBVIOUS
<1>1. TypeOK
  BY InitTypes
<1>2. /\ menus = << >> /\ Len(menus) = 0 /\ open = << >> /\ Len(open) = 0
      /\ current_menu = NULL /\ menu_level = 0 /\ alloc_menus = 0
      /\ stage = "reading" /\ fate = "alive" /\ in_item = FALSE
  BY DEF Init
<1>3. NestingKept
  BY <1>2, NullTyped DEF NestingKept
<1>4. Nested
  BY <1>2 DEF Nested
<1>5. InRange
  BY <1>2, Nowhere DEF InRange
<1>6. Room
  BY <1>2, FileAssumption DEF Room
<1>7. Settled
  BY <1>2, Nowhere DEF Settled, Sound
<1>8. Ranked
  <2> DEFINE f == [x \in Nat |-> 0]
  <2>1. f \in [Nat -> Nat] /\ 0 \in Nat
    OBVIOUS
  <2>2. Ordered(menus, open, f, 0)
    <3> HIDE DEF f
    <3>1. \A a, k, d : ~ Opens(menus, a, k, d)
      BY <1>2 DEF Opens, Leads
    <3>2. QED
      BY <1>2, <2>1, <3>1 DEF Ordered
  <2>3. QED
    BY <2>2 DEF Ranked
<1>9. DeathsExplained /\ Acyclic /\ RootKept /\ CurrentItem
  BY <1>2 DEF DeathsExplained, Acyclic, RootKept, CurrentItem
<1>10. Fitting /\ Tidy /\ OwnProperties
  <2>1. OneOpener /\ Fitting /\ OwnProperties
    BY <1>2 DEF OneOpener, Fitting, Contains, OwnProperties
  <2>2. ReferencesKept
    BY DEF Init, ReferencesKept
  <2>3. QED
    BY <2>1, <2>2 DEF Tidy
<1>11. QED
  BY <1>1, <1>3, <1>4, <1>5, <1>6, <1>7, <1>8, <1>9, <1>10 DEF Inv

LEMMA NextInv == Inv /\ [Next]_vars => Inv'
BY NextTypes, Nests, Settles, Ranking, Deaths, Fits, Openings, StaysAcyclic, RootsKept,
   CurrentItems DEF Inv

LEMMA SpecInv == Spec => []Inv
<1>1. Init => Inv
  BY InitInv
<1>2. QED
  BY <1>1, NextInv, PTL DEF Spec

(* The state has its type, and the vector is not overrun.                  *)
THEOREM VectorNotOverrun == Spec => []TypeOK
<1>1. Inv => TypeOK
  BY DEF Inv
<1>2. QED
  BY <1>1, SpecInv, PTL

(* The parent pointers lead through the definitions that are still open    *)
(* (handle_menu_element and pop_parent_menu in src/menu.c).                *)
THEOREM ParentsAreNesting == Spec => []NestingKept
<1>1. Inv => NestingKept
  BY DEF Inv
<1>2. QED
  BY <1>1, SpecInv, PTL

(* The reader dies of nothing but elements outside of menus, more menus    *)
(* than the vector first has room for, and references to open menus.       *)
THEOREM ReaderDiesExplained == Spec => []DeathsExplained
<1>1. Inv => DeathsExplained
  BY DEF Inv
<1>2. QED
  BY <1>1, SpecInv, PTL

(* menu_init hands over a root menu that is not empty, and menus that one  *)
(* item each opens where they are defined, and one for each reference; no  *)
(* menu is below itself unless a reference was to an open menu.            *)
THEOREM MenusDelivered == Spec => []Delivered
<1>1. Inv => Delivered
  BY DeliveredAsPromised DEF Inv
<1>2. QED
  BY <1>1, SpecInv, PTL

(* The tree that the menus are assumed to be, of which the theorem of the  *)
(* motion loop depends, is what menu_init hands over if the document is    *)
(* one.                                                                    *)
THEOREM TreesDelivered ==
  Spec => [](stage = "built" /\ fate = "alive" /\ TreeDocument => MenusAreTree)
<1>1. Inv => (stage = "built" /\ fate = "alive" /\ TreeDocument => MenusAreTree)
  BY DeliveredAsPromised, DeliveredTree DEF Inv
<1>2. QED
  BY <1>1, SpecInv, PTL

(* If each item has its label first, its properties are its own.           *)
THEOREM PropertiesAreOwn ==
  ASSUME LabelFirst
  PROVE  Spec => []OwnProperties
<1>1. Init => Inv /\ OwnProperties
  BY InitInv
<1>2. Inv /\ OwnProperties /\ [Next]_vars => (Inv /\ OwnProperties)'
  BY NextInv, Owning DEF Inv
<1>3. QED
  BY <1>1, <1>2, PTL DEF Spec
=============================================================================

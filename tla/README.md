# Trappist in TLA+

Trappist is a Wayland menu: it reads an openbox menu file, covers the screen
with a layer-shell surface, draws the menu with cairo, and runs the command of
the item that is chosen. It is one process with one thread; what makes it hard
is the order in which keys, pointer frames, timers, frame callbacks and buffer
releases arrive.

This directory holds TLA+ modules translated from the source, configurations
with which TLC checks them on small instances, and proofs that TLAPS checks for
every value of the constants. `PROJECT.json` maps each definition to the lines
it stands for.

## The system

| Part | Source | State | Operations | Correct when |
|---|---|---|---|---|
| Menu interaction | `src/menu.c`, frame and key delivery in `src/seat.c` | `visible` of each menu, `state->selection`, `hover_timer`, static `has_run`, `run_display` | keys, pointer frames (motion, then button), hover timeout | one open submenu per menu; selection and launched item are on the screen; no crash; submenus do open |
| Surface, frames, buffers | `src/surface.c`, `src/render.c`, `pool-buffer.c` | size, `frame_pending`, `dirty`, two buffers with `busy` | configure, damage, frame done, buffer release, closed, destroy | no buffer in use is touched; one callback; no change is lost; nothing is used after it is freed |
| Type-to-search buffer | `src/search.c`, `unicode.c` | 64 bytes and a length | add a code point, remove a character | in bounds, whole characters |
| Event loop | `loop.c` | descriptors, list of timers | poll and dispatch, add and remove timers | a removed timer does not fire, no pointer to a freed timer, every timer that is due fires |
| Seat | `src/seat.c` | key repeat timer and rate, keyboard and pointer of each seat, pointer event being put together | wl_keyboard, wl_pointer, wl_seat events | a key repeats only while held; a frame tells the menu what has happened, at the right place, once |
| Menu file reader | `src/menu.c` (`parse_xml` to `menu_init`) | `menus` vector, `current_menu`, `current_item`, `menu_level`, `in_item` | one per element and attribute | nesting is kept; pointers into the vector survive; each property goes to its item |
| Geometry | `src/menu.c` (`configure`, `box_contains_point`) | boxes, `right_aligned`, `bottom_aligned` | place menus, hit tests | menus fit on the screen when they can; boxes of one menu are disjoint |
| Command line | `src/main.c`, `ccan/opt` | `argv`, the place in a bundle of letters, the settings | one option per call of `parse_one` | the line means what it says; reading ends |
| Start and end | `src/main.c`, `globals.c`, `output.c`, `seat.c`, `conf.c` | globals, seats, outputs, `run_display` | connect, bind, equip the seat, build the menu, loop, tear down | nothing is used that has not been set up; torn down once, in order |
| Icons and pixmaps | `icon.c`, `pixmap.c`, loops of `menu.c` | icon of each item, its two pixmaps | one visit per item, for each item that leads to it | each item shows its icon; each pixmap is destroyed once |
| Text and drawing, logging | `pango.c`, `cairo.c`, `log.c` | none | straight-line calls | not modelled |

How they interact: `main()` reads the command line and calls `run()`, which
reads the configuration, waits for the globals, and calls `menu_init`, which
reads the menu file, looks up the icons and draws the pixmaps. Then it calls `loop_poll`, which dispatches the Wayland
connection (`display_in`) and then the timers. Wayland events end in
`menu_handle_key`, `handle_wl_pointer_frame`, `layer_surface_configure`,
`surface_frame_done` or `buffer_release`; timers end in `timer_hover_clear` or
`keyboard_repeat`. All that the user does changes `state->selection`,
`visible` and `run_display` and calls `surface_damage`; drawing happens only in
`layer_surface_configure` and `surface_frame_done`. `run_display` is looked at
only after a whole `loop_poll`, so that further events may be handled after it
has been cleared.

`PROJECT.json` lists the behaviours that are hard to test (`hazards`), each at
its line with the properties that watch it.

## Modules

| Module | What it is |
|---|---|
| `Search` | `search.c` and the UTF-8 encoder, byte by byte |
| `SearchText` | what the search box promises each key: a line of text, edited at its end, with a known room |
| `SearchRefinement` | the text that the bytes stand for (decoding), the keys as a history, and the refinement of `SearchText` |
| `MCSearch` | code points for `Search` on a small array |
| `Menu` | the menu on the screen: all handlers of keys, pointer frames and the hover timer; the refinement of `MenuPath` |
| `MenuPath` | what the menu promises a patient user: a path of menus from the root, with the highlighted item on it |
| `MCMenu` | menus and layouts for TLC |
| `Surface` | surface, frame callbacks, buffer pool, and the compositor as their environment |
| `EventLoop` | the timers of `loop.c`: the memory they live in, the phases of `loop_poll` |
| `Seat` | the users of the timers: key repeat, and the hover delay |
| `Alarms` | what they are promised: alarms that are set, cancelled, and go off |
| `MenuFile` | the reader of the menu file, on an arbitrary document |
| `Layout` | where `configure` puts the menus |
| `MCLayout` | a chain of five menus, and screens and pointers around the thresholds |
| `Extrema` | lemmas: nonempty sets of naturals have a least, and bounded ones a greatest, element; a set with zero and all successors is that of all naturals; what a recursion over a range of numbers defines exists |
| `Options` | the command line: `parse_one` of `ccan/opt` with the table of `main.c`; and what a line means, read in one go |
| `Pixmaps` | the recursions of `menu_init` over all items: icons, then pixmaps |
| `Startup` | `run()`: globals, outputs and seats, pointer frames, the loop and its end (extends `Pixmaps`) |
| `Program` | the composition: command line, then `run()` |
| `MCProgram` | command lines, menus and an icon theme for `Program` |
| `Search_proofs`, `Menu_proofs`, `Surface_proofs`, `Seat_proofs`, `Layout_proofs`, `Program_proofs`, `MenuFile_proofs` | theorems and their proofs |

Definitions described as a *slip* in a module are what the operator after them
might have been by mistake; no action uses them. They show that each property
notices the mistake it is there for.

### Menu

The menus that `menu_init` has built do not change and are constants: `Entries`
gives the entries of each menu of the vector `menus`, in document order (the
`wl_list` of the code is in the opposite order: `menuitems.prev` is the first
entry). An item is a pair `<<m, k>>`; `<<m, 0>>` is the list head of menu `m`,
which the code takes for an item in two places, and `<<0, 0>>` is NULL.

| Variable | Code |
|---|---|
| `visible` | the menus with `visible` set |
| `selection` | `state->selection` |
| `hover_timer` | whether `state->hover_timer` is armed |
| `has_run` | the static flag of `menu_handle_cursor_motion` |
| `pointer` | `seat->pointer_x`, `pointer_y` |
| `dirty` | `surface->dirty` (abstracted; `Surface` has the details) |
| `run_display`, `exited` | `state->run_display`; the loop of `run()` has ended |
| `fate` | `"alive"`, or how the process died: assertion, NULL, use of a list head, endless loop |
| `launched` | the item whose command was run last |
| `data` | the search buffer (`Query == INSTANCE Search`) |

The geometry enters only through hit tests, so a pointer position is a record of
the item of each menu whose box it is in, and of the menus it is inside of.
Boxes of different menus may overlap, as they do on a small screen. The
position of the boxes is fixed by the first motion.

The motion handler is a loop over the items that recurs into open submenus. The
actions use its effect in closed form, `AfterMotion` (`Entered`: the menus the
recursion reaches; `Breaks`: where a loop stops; the uppermost stop decides the
selection). `MotionLoop` is the loop itself, a recursive function of the
position, the place in the list and the screen so far, and the invariant
`MotionAgrees` compares the two, in every reachable state and for every
position; it is proved for all trees of menus. `Below`, the least closed set of
submenus, stands for the recursion of `close_all_submenus` in the same way.

One step is one handler, with everything that it calls. A pointer frame is one
step: motion, then button (`handle_wl_pointer_frame`); `Startup` shows how it is
put together. `draw_menu` is what `render_menu` draws: the root menu if it is
visible, and from each menu that is drawn on the visible submenus of its items.
`OpenChain` says that this is every visible menu.

`Spec` lets every event happen at any time. `CalmSpec` is the same with a
patient user: no key before the menu is on the screen, and *right* only when
the submenu is shown. The code does not enforce that; without it the selection
can be moved into an invisible submenu within the 100 ms of the hover delay,
so the properties about what is on the screen are stated for `CalmSpec` and
those about crashes and open submenus for `Spec`. No property watches for that
hazard, since `CalmSpec` leaves it out; nor for two others, which the models
have and the properties allow: a click runs the selection even if the pointer
has left it long ago, and events that come with the one that clears
`run_display` may run a second command. Nothing in the repository says that
these should not happen.

`ConnectionLost` stands for a failing dispatch or flush. XML files with a cycle
of references never get as far as `Init`: `post_processing` recurs over them
for ever.

### Surface

The client's variables (`size`, `buf`, `frame_pending`, `dirty`) are those of
`struct surface` and `struct pool_buffer`. The compositor's are the requests it
has been sent: callbacks asked for but not committed (`asked`), committed and
not yet called (`armed`), the attached buffer, the buffers it may read, and the
size shown. `stale` (something changed since the contents were drawn) and
`skipped` (`render_frame` once found no buffer) are history variables. The
distinction of `asked` and `armed` matters: `surface_frame_done` asks for a
callback before `render_frame`, which may return before the commit.

`calm` is chosen at the start and does not change: whether shared memory never
runs out (`anonymous_shm_open`) and the compositor releases a buffer that has
been replaced before it sends the next configure or frame event. Safety
holds whatever `calm` is; only in calm runs does every frame find a buffer
(`NeverSkips`) and the screen catch up in the end (`CatchesUp`).

### EventLoop, Seat and Alarms

`timers` gives for each address what is there: nothing, an armed `struct
loop_timer`, or one that `loop_remove_timer` has flagged and the next walk will
free. `calloc` may return any free address, so that addresses are used again,
and NULL when there are none. `phase`, `left` and `rest` tell where `loop_poll`
is: waiting, dispatching (at most `MaxBatch` events), or walking over the list;
`rest` holds the elements it has still to visit. Timers that callbacks add are
put at the head of the list, behind the walk, and are not in `rest`. A timer is
`due` when its expiry lies in the past, as the next look at the clock will find;
one of -1 ms (the period when repetition is switched off) is due at once.

`hover_timer`, `repeat_timer`, `repeat_period_ms` and `devices` are the fields
of `struct state` and `struct seat`. `pressed` (the last key event was a press)
and `ran` (the callback that ran in the last step) are history variables.
`Alarms` has, for each user, whether its alarm is set: the refinement maps this
to the pointer being different from NULL, and `rings` to `ran`.

### MenuFile

A step is the beginning or the end of an element, or a property of an item; the
document itself is not written down, only that it nests (`open`, `labelled`).
Elements that contain nothing are one step. An entry carries the number of the
element that made it and the numbers of the elements that gave it properties.
`LabelFirst` confines the items to those that begin with their label. A pointer
into the vector `menus` is a place and an index; it dangles when the vector has
moved on (`base`). `fate` tells how the process dies: at a NULL pointer, by
undefined behaviour at a dangling one, or by recursion without end. `referenced`
and `looped` are history: which element has referred to which menu, and whether
one has referred to a menu that was still open.

`menu_init` is one step: the lookup of the root menu, its default, and the
recursion of `post_processing`, `generate_pixmaps` (and, later, of `configure`)
over all submenus.

### Layout

`screen` is the size of the surface, `box` the box of each menu. The recursion
of `configure` is unrolled: `todo` is the list of the calls that its loops have
still to make, in order, each with its reference box and the alignment it
inherits; a step places one menu and puts the calls for its entries in front.
The loops end, and the last call for a menu is the one that counts, only if no
menu is below itself: `Deeper` gives each menu a depth that is less than those
of its submenus, and `MCLayout` has TLC evaluate it for the menus of the run.
Placing happens once, at the first motion (when `menu_init` calls `menu_move`
the surface has no size, and `menu_configure` returns); `on` is the size for
which it was done. The code resets the alignments of a submenu before each call,
and those of the root menu are still false at its only call, so that they are
parameters of a call rather than state.

### Options

A command line is a sequence of words, each of which is plain, `--`, a long
option, or a bundle of letters. `argv` holds the places of the words that are
left, so that "the argument of `-m`" is a place in the line and how much of that
word is skipped. A step of `parse_one` is one call: it looks for the first
option (`First`), and takes it, one letter of it, or it and the next word out
of `argv`, and calls what is registered for it. `offset` is kept from call to
call, as in the code. Help ends the program in the callback. `Reading` says what
a line means without any of this: from its end to its beginning, word by word,
each bundle as a whole. `WordsRead` compares the two whenever reading has ended.

### Pixmaps, Startup and Program

`Entries` gives the menus as `menu_init` has built them, without cycles. The two
recursions are unrolled: `todo` is the list of the items that the nested loops
have still to visit, and a visit puts the items of the submenu in front. A
submenu that two items refer to is visited twice. A name of an icon is a member
of the domain of `Theme`, which has a file for it, none, or an invalid one (for
which the default is not tried); a path is one of four kinds of `Files`. `Under` and
`Reachable` are the least set of menus that has the root and is closed under
submenus: what the recursions are to reach, defined without them.

| Variable | Code |
|---|---|
| `stage` | where `run()` is: before it, in the roundtrip, in `menu_init`, in the loop, ended |
| `bound` | `state->compositor`, `shm`, `layer_shell` |
| `seats`, `ready` | the seats made by `seat_init`; those with `xkb.context` and `cursor_surface` |
| `outputs`, `wl_output` | the list of outputs; the one that the surface is put on |
| `keyboards`, `pointers`, `keymaps` | `seat->keyboard`, `pointer`, `xkb.state` of each seat |
| `event`, `pointer_xy` | `seat->pointer_event`; `pointer_x`, `pointer_y` |
| `said` | history of the compositor: where it has said the pointer is, and what it has said since the last frame |
| `has_run` | the static flag of `menu_handle_cursor_motion`: the menu has been shown |
| `provided` | external: whether the cursor theme has a `left_ptr`, and libxkbcommon makes of the keymap what it should |
| `icon`, `pixmaps`, `painted`, `surfaces` | `item->icon`; the items with pixmaps, and with an icon on them; how many cairo surfaces exist |
| `root`, `visited` | the root menu, which does not change; history: the items the present loop has visited |

A pointer frame is `handle_wl_pointer_frame`: `menu_calls` is what it tells the
menu. What the menu does then is in `Menu`. Here it is `MenuCall`, with the
outcomes that `Menu` shows a call to have: it may clear `run_display`, and it may
crash, where a menu is empty (`HasEmptyMenu`), or when a key or its repetition
comes before the menu is shown.

`fate` is `"crashed"` when NULL is dereferenced or given to a library that follows
it, an assertion fails, or memory is read that is not the program's. Of such
ends `Startup` has: a keymap that cannot be made, without `xkb.context` or of what
does not compile (seat.c:34-40); a `left_ptr` that the cursor theme does not have,
or no `cursor_surface` to put it on (seat.c:141-150); the calls into the menu; and
the four bytes at the end of a path that is shorter (pixmap.c:97).
`CrashesExplained` says what has to be the case for any of them. It says nothing
of how the reader of the menu file dies (`MenuFile`), of the surface that has been
closed (`Surface`), or of allocations that fail; and a menu of separators only,
in which a key never comes to an end, is not a crash (`FaultsExplained` of `Menu`
has it).

The environment is a compositor that follows the protocol: enter and leave
alternate; motion, buttons and axes come between them; a keymap comes before the
first key, and stays when the keyboard goes, so that a repetition may come
later; a seat loses or gets
its pointer between frames; a frame has at most one button event. (With two, the
second would overwrite the first: `struct pointer_event` has room for one.)

`Program` composes `Options` and `Startup`. All that `run()` takes over from the
command line is whether there is a configuration file (and the menu file, which
is `Entries`); `run` forgets the rest, which nothing reads any more, so that
TLC does not tell apart the runs of the loop by how they were started.

### Search

`data` is the sequence of bytes in use. The bit operations of `utf8_encode` are
sums, divisions and remainders; `&` and `|` never overlap there.

`SearchText` is the promise: a line of characters, and the room that is left.
A key that is handled is part of it: `Type` appends the very character that was
typed, `Refuse` is possible only when its weight is more than the room left, and
`Erase` takes away the last character, if there is one, and gives its room back.
A specification `[][Next]_text` would also allow any key to be ignored, as a
stuttering step. So the keys are visible: `key` holds the last one, and a bit that
each inverts. `SearchRefinement` adds this history to `Search` (`KeySpec`), maps the
text to the decoded bytes, the weight to `utf8_chsize`, and the room to
`BufSize - 2 - len`; the check of search.c:50 keeps two bytes back. A
`search_add_utf8_character` that drops a character for which there is room, or a
BackSpace that does nothing, violates `ImplementsText`.

## Runs

| Run | Configuration | Shows |
|---|---|---|
| `search` | `MCSearch.cfg` | `InBounds`, `WholeCharacters`, and `ImplementsText` under `KeySpec`: key by key, the byte buffer implements a line of text |
| `menu_any_user` | `MCMenu.cfg` | `TypeOK`, `OneOpenPerMenu`, `FaultsExplained`, `MotionAgrees` under `Spec` |
| `menu_patient_user` | `MCMenuCalm.cfg` | `SelectionShown`, `OpenChain`, `LaunchShown`, `ImplementsPath`, `SubmenuOpens` under `FairSpec` |
| `surface` | `MCSurface.cfg` | `TypeOK`, `ReadIsBusy`, `OneCallback`, `StaleIsPending`, `ShownSize` with any compositor and failing allocations, and `NeverSkips`, `CatchesUp` in calm runs |
| `timers` | `MCSeat.cfg` | `TypeOK`, `PointersValid`, `NoStrayTimer`, `NoRepeatAfterRelease`, the liveness of `HoverGoesOff` and `RemovedAreFreed`, and `ImplementsAlarms` |
| `menu_file` | `MCMenuFile.cfg` | `NestingKept`, `DeathsExplained`, `Delivered`, `OwnProperties` for items that begin with their label |
| `layout` | `MCLayout.cfg` | `FitsAcross`, `FitsDown`, `HitTestsAgree`, `BesideOpener` |
| `program` | `MCProgram.cfg` | `WordsRead`, `ParsingEnds` of the command line; `FrameDelivered`, `CrashesExplained`, `SurfacesAccounted`, `IconsShown` of what `run()` does, with two seats |
| `key_before_motion` | `MCMenuKeyFirst.cfg` | violates `NoAssertFailure`: see below |
| `surface_closed` | `MCSurfaceClosed.cfg` | violates `NoUseAfterDestroy`: see below |
| `icon_first` | `MCMenuFileIcon.cfg` | violates `OwnProperties`: see below |
| `many_menus` | `MCMenuFileMany.cfg` | violates `SubmenusValid`: see below |

Deadlock is not checked where the program may end: `Menu` stops when the loop
has ended or the process has died, `Surface` after `surface_destroy`, `MenuFile` when the
reader is done or has died, `Program` when it has exited. `Search`, `Seat` and `Layout` always have a step.

Bounds, and why they are enough:

- `InlineMenus` has three levels, two submenus side by side, a separator between
  them, a separator at the end, an item without a command, a menu that holds
  only a separator and one that is empty: every branch of the handlers is
  taken, an open submenu can be replaced by a sibling, and a submenu of a
  submenu can be orphaned. `ReferencedMenus` has three levels too, without the
  odd menus and with references, where the vector is not in the order of the tree and the root is
  last, which is what `first_selectable_menuitem` and `parent_of` depend on.
- `OverlappingPositions` adds positions in two menus at once, over items of
  both kinds, and in a parent and a grandchild.
- The search buffer does not influence anything else in `Menu`: it has two bytes
  in the two large runs, so that nothing ever fits, and three with one character
  in `key_before_motion`. `search` looks at it in detail, with nine bytes and the
  first and last code point of each encoded length. Nine bytes hold two of the
  longest characters with the margin of the check.
- Two sizes are enough for a resize in either direction; the pool has two
  buffers in the code.
- Three addresses of timers (`Address`) suffice for both users to have one and
  for a removed one to be waiting, and two events in a dispatch (`MaxBatch`) for
  a timer to be set and removed before the walk; with more motions the memory
  runs out, and `calloc` fails. The rates 0, 25 and 2000 give the periods -1,
  40 and 0.
- The document has at most five elements (`MaxElements`), which nest five deep
  or stand side by side, with two ids. `Chunk` is 1 for the 16 of
  `menu_create`, so that the vector has room for two menus at first and moves
  with the third, as it does with the thirty-third.
- A chain of five menus is deep enough for the submenus to reach one side of a
  narrow screen, come back, and cover the first ones. Screens of 520 and 521 by
  182 and 183 pixels are those just below and just at the size from which menus
  always fit; 900 by 500 is far above. The pointers are the columns and rows
  around which a menu changes its side, and a few others.
- Command lines of up to three of sixteen words: each way of giving an argument
  (the rest of the bundle, behind `=`, the next word), missing and superfluous
  arguments, unknown names, an empty bundle, flags before and after, words left
  in front and behind, and `POSIXLY_CORRECT` set or not. Three words are enough
  for one option to take the second and the third to be looked at.
- Three root menus (`Roots`): one with a separator, two submenus and a third that
  both refer to; one that leads to a path of three bytes; and one whose item has
  an invalid icon and opens an empty menu. The theme knows one name and the
  default, has nothing for two others, and an invalid file for one.
  `ConfSizes` adds a negative icon size, which `atoi` may yield and for which only
  PNGs can be drawn, to the 22 of the defaults. `Systems` has a system that
  provides all, and one that provides neither the cursor nor the keymaps.
- Two seats, which differ in that `run()` has equipped one of them at most;
  one output, since the others are never looked at; two positions of the
  pointer, so that an old one can be told from a new one.

Fairness: `FairSpec` of `Program` says that `opt_parse` goes on calling
`parse_one`, which is a `while` loop. `FairSpec` of `Seat` says that every expiry passes in the end (strong
fairness, since the walk, which has read the clock, does not see it pass), that
`run` polls again when a timer is due, that a dispatch ends, and that the walk
goes on; it says nothing about events. `FairSpec` of `Menu` assumes that the hover timer fires if it stays
armed, which is what a loop that keeps polling does once the pointer rests for
100 ms; it assumes nothing about the user. `FairSpec` of `Surface` assumes of
the compositor that it stops reading buffers that have been replaced and that
it calls back the callbacks that have been committed, and of the client that it
dispatches what has been sent to it.

## What the violations show

- *Key before motion.* The root menu becomes visible with the first pointer
  motion only. A key pressed before it finds nothing to select; Up and Down
  reach `assert(menu)` in `move_selection` (menu.c:755), Right and Return
  dereference NULL. (`CrashesExplained` of `Startup` lists this among the ends of the
  whole program.) `FaultsExplained` shows that NULL is
  dereferenced at no other time, and that what is left are odd menus: for an
  empty submenu `child_of` takes `menuitems.prev` of an empty list, so that
  Right selects the list head, and the next arrow key reaches the same
  assertion; and in a menu that holds only separators `move_selection` never
  comes to an end.
- *Closed surface.* `layer_surface_closed` frees the surface, `state->surface`
  keeps pointing to it, and the program goes on; `run()` destroys it a second
  time at the latest.
- *Property before the label.* A comment in `fill_item` says that the label
  defines the start of an item, but `current_item` still points to the item
  before: an icon, action or command that is written before the label goes
  there. `OwnProperties` holds if labels come first: the run `menu_file`, which has
  `LabelFirst`, shows that there is no other way for it to fail.
- *Many menus.* When `menu_create` extends the vector, `realloc` may move it:
  the submenu pointers of items, the parents, and the heads of the lists, which
  lie in the vector, keep the old addresses. `DeathsExplained` shows that up to
  32 menus (2 * `Chunk`) none is ever used.

## Proofs

All theorems hold for every value of the constants that satisfies the `ASSUME`
of the module, which TLC evaluates in every run.

- `Search_proofs`. `Bounded`: `TypeOK /\ InBounds` is inductive (the buffer may
  be empty whatever its size, hence the form of `InBounds`).
  `NoSplitCharacters`: `Whole`, a form of `WholeCharacters` that speaks of one
  position at a time, is inductive together with the type: erasing cuts at the
  last first byte, and typing appends an encoding whose first byte tells its
  length (`EncodeLemma`). `BufferIsText` is the refinement of `SearchText` under
  `Characters`, with `KeySpec`; that the history adds nothing to the buffer is
  `KeysOnly`. It needs that decoding gives back what was encoded
  (`DecodeEncode`, the arithmetic of UTF-8 for each of the four widths), that a
  first byte appended at the end takes the last rank and leaves the others as
  they were (`OneMore`, `TypesCharacter`, `ErasesCharacter`), and, for the room
  that BackSpace gives back, that the character decoded from the last bytes takes
  as many bytes as are removed. For that the invariant `Minimal` says that each
  character stands in its shortest encoding; `SameCharacter` carries it from one
  state to the next.
- `Surface_proofs`. The invariant `Inv` adds to the checked properties what
  makes them inductive: before the first configure nothing is pending
  (`Unconfigured`), a callback stays uncommitted only after a skipped frame
  (`AskedAfterSkip`), and damage always has a callback (`DirtyIsPending`).
  `TwoBuffersSuffice` adds that of a prompt compositor's two buffers only the
  attached one is busy when a frame is drawn.
- `Menu_proofs`. `TypeCorrect`: menus and selection (`MenuType`), the other
  variables (`RestType`) and the search buffer, for which the lemma `NextInv`
  of `Search_proofs` is reused. `OneSubmenuAtATime` assumes a tree (`IsTree`:
  no menu is opened by two items). `VisibleStep` reduces all handlers to two
  cases, and `OpenKeepsOne` is the interesting one: an opened submenu has one
  opener, so the menus that `close_all_submenus` hides are its siblings.
  `SafeOnceShown` assumes that no item opens the root menu; the invariant is
  that the root menu, once shown, stays shown (`RootShown`), because nothing is
  above it, so that every key finds an item.
  The theorems about `CalmSpec` rest on the invariant `CalmInv`: before the first
  motion nothing is visible or selected (`Untouched`), afterwards the root is
  visible; each visible menu but the root has a visible opener (`Hangs`); and
  what is selected is in a visible menu (`SelectedShown`). What the handlers do
  to the screen is reduced to four cases (`Still`, `Appears`, `Goes`, `Opens`),
  of which only closing is hard: what is closed is closed with all that is below
  it, and the menu of the new selection is not. `AllVisibleDrawn` follows from
  `Hangs` because the set that `draw_menu` reaches is closed under visible
  submenus. It assumes a tree without empty menus (`NoEmptyMenus`: at an empty
  one the code selects the list head); `SelectionOnScreen`, `LaunchedFromScreen`
  and `HandlersFollowPath` assume as well that no menu begins with a separator
  (`NoneBeginsWithSeparator`: `child_of` selects the first entry whatever it
  is). Nothing in the reader keeps such menus out, but with them the properties
  are false; `FaultsExplained` says what else happens then. `HandlersFollowPath` is the
  refinement: by `OneOpenPerMenu` the visible menus are on one path, so that the
  number of visible menus above a menu is its place (`Rank`), and the four cases
  become steps of `MenuPath`.
  `ClosedFormIsLoop` is about the loop of the motion handler. In a tree the
  places of the loop have weights (`Weighs`: the number of menus below, then the
  place in the list) which fall from a place to the next one and to the list of
  a submenu, whence there is such a function (`MotionLoopExists`). A loop only
  takes menus off the screen (`LoopShrinks`), and as one submenu of a menu is
  open at most, it recurs at most once and what the recursive call closes is
  below it, so that the rest of the loop finds its own submenus as they were
  (`LoopOfMenu`). By induction on the number of menus below a menu, the loop
  makes of the screen what the menus it enters say (`LoopIsAfterStops`); the
  menu that calls is above those that are called, and has the last word.
- `Seat_proofs`. The invariant `Inv` is `TypeOK`, `PointersValid`,
  `NoStrayTimer`, and `RepeatPressed` (there is no repeat timer unless a key is
  pressed). They need each other: a timer that goes off is that of its user
  (`NoStrayTimer`), so that the callback clears or replaces the very pointer
  whose timer is freed (`PointersValid`); the timer that `keyboard_repeat` adds
  is at another address, as its own is freed afterwards. `TimersAreAlarms` maps
  each step to setting, cancelling, ringing or waiting.
- `Layout_proofs`. `NeverOffTheSide` and `NeverOverTheEdge`: the invariant `Inv`
  is about the reference boxes of the calls that are still to come: each lies on
  the screen. `PlacedAcross` is the arithmetic: on 521 pixels a menu that does
  not fit on one side of an item fits on the other one; `PlacedDown` is the same
  for heights. The height of a menu is a sum over its entries (`Offset`, a
  recursive function); that such a function exists is `RecursionExists` of
  `Extrema`, whence `OffsetFacts` and `OffsetGrows`: every entry is below the
  ones before it. From these `EntriesApart` follows. `SubmenuBesideItem` assumes
  that the menus have no cycle (`Deeper`); its invariant `BesideInv` says of a
  call that is still to come that an item of a placed menu makes it (`OwnedBy`),
  a menu that is not moved before it, since the calls before it are for deeper
  menus; and of each placed menu that it is beside an item that opens it or has
  a call that will put it there.
- `Program_proofs`. The invariant of the walks (`WalkInv`) is that what a loop
  has visited or has still to visit is reachable, has the items of the root, and
  with each visited item those of its submenu. When nothing is left, the
  visited items are a closed set that has the root, and so have all that are
  reachable (`ClosedHasAll`, from the definition of `Under` as a least set,
  without induction). `IconInv` and `PixmapInv` say what the loops have done to
  the items visited; that a second visit does no harm rests on the files of the
  theme not being names (`FilesAreNoNames`, an assumption on `Theme`). From
  these follow `PixmapsAccounted` and `MenuDrawn`. `FramesDelivered`: `FrameKept`
  relates, for each seat, the event noted so far and the kept place to what the
  compositor has said; the hard part is a button in a frame without motion,
  for which the kept place is that of the pointer only while it is on the
  surface or the button is still to be delivered. `CrashesAreExplained` needs of
  the seats (`SeatInv`) that the only one is the one that `run()` has equipped, and
  of an item that is visited that its icon is what the file or the theme says
  (`IconInv`, `ShortInTheme`); since a step is taken by a program that has not
  crashed, only the steps that crash are to be explained.
  `AssertionHolds`: `OffsetInv` says that a bundle that has been begun is the
  first option of `argv`, with letters left; there is only one first option
  (`FirstIsOne`), so that it is no long one.
  `CommandLineRead` is the comparison with `Reading`: while the line is parsed,
  `ParsingInv` says that what has been read of it is the beginning of a reading
  (`ComeTo`): the plain words before some word are kept, `argv` is these and the
  words from there on, what is still to be read from there is what `Reading`
  says, and the settings reflect the options before it and the letters of the
  bundle that have been read (`BundleBegun`). A plain word is kept without a
  step of the program (`KeepsPlain`), so that the place of the invariant can be
  moved to the next option, which is where `parse_one` looks (`ComesToOption`,
  `StopIsFirst`); there each alternative of `Long` and `Short` is that of
  `Meaning`. `Reading` is a recursive function; `ReadingExists` shows that there
  is one, by induction on the number of words from the end. The theorem
  assumes `opt_register_table`, that each name of the table has its length: the
  provers know nothing of the lengths of strings, and `MCProgram` has TLC
  evaluate it.
- `MenuFile_proofs`. `Step` reduces the handlers to what they do to the vector
  and to the nesting, and the parts of the invariant `Inv` follow one from the
  other. `NestingKept` needs that the open menus are in the vector in the order
  of their definitions (`Nested`). `DeathsExplained` needs `Room` (the vector
  has no allocation yet or one of at least 2 * `Chunk`), whence `Settled`: up to
  2 * `Chunk` menus every pointer is NULL or sound and every list head is where
  it was initialised, because the only move is that of the empty vector. That
  the recursions end is `Ranked`: the menus that are closed have ranks which
  fall from a menu to those below it, an open menu opens closed ones and the one
  opened next in it only, and closing a menu gives it the next rank; a reference
  to an open menu (`looped`) is what would break this. The set of the menus of
  smaller rank is then closed under submenus, so that no menu is below itself
  (`RecursionEnds`, again without induction); at the end of the document no menu
  is open, whence `Acyclic`. The other parts of `Delivered` hold from the start:
  items that open menus can be selected and are of an element that has begun
  (`Fitting`), each menu is opened by one item where it is defined (`OneOpener`),
  and each reference has made one item (`ReferencesKept`). A new menu has no
  opener but its own, because no entry leads beyond the vector (`InRange`); an
  item is not mistaken for that of another reference, because its element is
  later than all that have made items. `TreesDelivered` draws the conclusion:
  `Delivered` grants what `MenuAssumption` of `Menu` says of the entries, and the
  menus are a tree, which the theorems of `Menu_proofs` assume where they need it
  (`IsTree`), if the document is one (`TreeDocument`): no reference is to an open
  menu, to the root menu, to a menu that is defined in another one, or to one
  with another reference, and the root menu is not defined in another one.
  `OwnProperties` assumes `LabelFirst`, and adds
  that an item that has had its label is `current_item`. `MaxElements` is
  any number.

What the recursive functions `Offset`, `Reading` and `MotionLoop` compute is proved without
the induction theorems of the library, which take an operator as a parameter:
`InductionBySet` of `Extrema` has a set of numbers in its place.

Only model-checked: liveness (`SubmenuOpens`, `ParsingEnds`, `CatchesUp`,
`HoverGoesOff`, `RemovedAreFreed`), which is out of the reach of the provers.

## Not modelled, and the plan

What is left of the plan is `Trappist`: `Menu` composed with `Surface` and with
the timers of `Seat`, with the property that what is shown catches up with what
is selected, and that `hover_timer` of `Menu` is the alarm of `Alarms`.

Not modelled:

- the drawing of text and boxes (`pango.c`, `cairo.c`, `render_frame` beyond
  which menus it draws), which keeps no state;
- the text of the usage message and the numeric callbacks of `ccan/opt`, early
  parsing, subtables and error handlers other than `opt_log_stderr`, which the
  program does not use; what `exit` releases;
- the grammar of the configuration file: a file sets an icon size or not, and
  may be refused; colours and fonts do not influence anything else;
- the descriptors of the event loop, of which the program has one;
- allocations that fail, but for those of `Surface` (shared memory) and of the
  timers in `Seat`;
- the children of the double fork of `spawn_async_no_shell`: `Menu` says which
  command is run.

Where a document and the code differ, but no run can show it: `README.md:7`
calls the program as `trappist <menu.xml>`, while `main()` takes the menu file
from `-m` only, and exits without it (main.c:138).

# Formal models of the ESPTerm firmware

ESPTerm is a terminal emulator that runs on an ESP8266: bytes from UART0 go
through an ANSI parser into a screen buffer, and a browser shows the screen and
sends keys back over a web socket. These modules model the parts of the firmware
whose correctness depends on order, concurrency or long sequences of operations,
check them with TLC on small instances and prove the central safety properties
for every size with TLAPS.

Everything here is translated from the sources in `src/`; `PROJECT.json` maps
every definition to the lines it stands for.

## The system

Tasks, timers and network callbacks of the non-OS SDK are cooperative: one runs
at a time, to completion. The only preemption is the UART interrupt. So the
UART modules have interleavings inside one C function, and the other modules have
one action per escape sequence, byte, callback or page. Power can fail inside a
callback too; `Device` says between which of its writes.

| Component | State | Operations | What is hard | What makes it correct |
|---|---|---|---|---|
| UART transmitter (`uart_buffer.c`, `uart_handler.c`) | ring buffer, `Space`, TX-empty interrupt bit, `next_empty_it_only_for_notify` | `UART_SendAsync`, interrupt, `uart_rx_intr_enable` | the interrupt preempts every read-modify-write | bytes in order, none stranded, room never overstated |
| UART receiver (same files) | FIFO, interrupt mask, two event queues, ring buffer | interrupt, `uart_recvTask`, `uart_processTask` | posts that a full queue refuses, discards, masks, priorities | nothing in FIFO or ring is forgotten; FIFO order |
| Flow control (`cgi_sockets.c`) | `browser_wants_xon`, `xonTim` | 's' message, empty-buffer notification, timer, reload | a flag shared with the interrupt; traffic that ignores it | a stopped browser is told to go on |
| Screen geometry (`screen.c`) | size, cursor, region, double-width lines, saved cursor, alternate buffer | escape sequences, settings | long legal sequences; state that outlives a change of size | cursor and region fit the screen |
| Screen contents (`screen.c`, `utf8.c`) | cells, glyph cache with use counters, insert mode, last character | printing, inserting, deleting, scrolling, clearing | hand-written loops that move cells and count references | the user sees what was printed; counters are exact |
| ANSI parser (`ansi_parser.c`, `ansi_parser_callbacks.c`, `apars_utf8.c`, `io.c`) | machine state, arguments, string flag, UTF-8 collector, idle counters | one byte; reset timer | sequences cut by controls, resets and ill-formed characters | only whole sequences act; the parser returns to text |
| Modes and queries (`apars_csi.c`, `apars_osc.c`, `apars_dcs.c`, `screen.c`, `cgi_sockets.c`) | attributes, options, their backup, tab stops, character sets, texts | the sequences that set, save, restore and query; mouse events | state in several structs, options that overlap | what was saved, reported or swapped comes back |
| Serialisation (`screen.c`) | continuation of a chunked section | `screenSerializeToBuffer` | buffers that end anywhere, colours carried over | all cells arrive |
| Notification (`cgi_sockets.c`, `screen.c`) | pending topics, dirty rectangle, three timers, clients | `screen_notifyChange`, timers, page loads, broadcasts | changes between updates, restarted timers, several clients | every browser ends up with the screen as it is |
| Stored configuration (`persist.c`, `cgi_persist.c`, `cgi_term_cfg.c`, `cgi_network.c`, `cgi_system.c`) | current, defaults and admin blocks, flash, live copies | load, store, restore, hard reset, forms, import | power loss between stores, failed writes, refused forms, aborted imports | running and stored settings agree, and are usable |
| WiFi (`wifimgr.c`, `cgi_wifi.c`) | what the radio runs with, two change flags; the list of access points, `scanInProgress` | apply settings; scan, list | flags cleared by others; a list replaced while it is read | settings take effect; requests end |
| Device-to-device requests (`cgi_d2d.c`) | `request_pending` | command, callback | a flag lowered by a callback | one at a time, all answered |
| Button (`io.c`) | count, pins | 500 ms timer | whatever state the device is in | the access point comes up |

The UART receiver feeds the parser, which calls the operations of the screen;
these raise notifications, which timers turn into messages to the browsers. Keys come back
through the web socket into the UART transmitter, and answers of the parser use
the same transmit buffer. Configuration is read by all of them and changed by
request handlers. The web server (libesphttpd) and the browser's code are git
submodules that are not in the tree.

`PROJECT.json` lists each component with what is and is not modelled, and each
hazard at its line with the properties that watch it.

## Modules

| Module | Stands for | Uses |
|---|---|---|
| `ByteQueue` | abstract: a bounded queue of numbered bytes | |
| `UartTx` | the transmitter, with the interrupt between any two accesses | refines `ByteQueue` |
| `TxFlow` | "-" / "+" flow control with the browser | extends `UartTx` |
| `UartRx` | FIFO, interrupt, both tasks, ring buffer | refines `ByteQueue` |
| `Iteration` | lemmas: induction and recursion over numbers, for loops | |
| `TxFlowProofs` | proofs about `UartTx` and `TxFlow` | extends `TxFlow` |
| `UartRxProofs` | proofs about `UartRx` | |
| `ScreenGeometry` | where things are on the screen | |
| `UnicodeCache` | slots and use counters of `utf8.c` | |
| `Grid` | abstract: the characters a user sees | extends `ScreenGeometry` |
| `ScreenCells` | `screen[]` and the cache under every operation | extends `ScreenGeometry`, `UnicodeCache`; refines `Grid` |
| `ScreenCellsProofs` | proofs about `ScreenGeometry` and `ScreenCells` | extends `ScreenCells`, `Iteration` |
| `Utf8Collector` | `apars_utf8.c` | |
| `AnsiParser` | the generated machine, the controls around it, the reset timer | extends `Utf8Collector` |
| `AnsiParserProofs` | proofs about `AnsiParser` | |
| `TabStops` | the bitmap of tab stops and the searches on its words | |
| `CharacterSets` | the tables and `utf8_remap` | |
| `TermModes` | commands that set modes, attributes and texts; queries; mouse reports | extends `TabStops`, `CharacterSets` |
| `TermModesProofs` | proofs about `TermModes` and `TabStops` | extends `TermModes`, `Iteration` |
| `Serializer` | the cells of an update, cut into buffers | |
| `Display` | topics, dirty rectangle, timers, browsers | extends `Serializer` |
| `DisplayProofs` | proofs about `Serializer` and `Display` | extends `Display`, `Iteration` |
| `Settings` | the block in the flash, and applying it to the modules | |
| `WifiScan`, `D2D` | the list of access points; requests to other devices | |
| `Device` | forms, imports, button, timers, power | extends `Settings`, `WifiScan`, `D2D` |
| `DeviceProofs` | proofs about `Settings` and `Device` | extends `Device` |
| `MC...` | instances for TLC | |

### How the code became actions

*UartTx.* `pc` says where the running task is. `Space -= len` in
`UART_WriteToAsyncBuffer` is two steps, the load in `Copy` and the store in
`StoreSpace`; so is the read-modify-write of `INT_ENA` in `uart_rx_intr_enable`
(`RxEnableLoad`, `RxEnableStore`). The interrupt may come at every label in
`Windows`, so one constant selects between the code as it is (`AllWindows`) and
the code with the update of `Space` protected (`SafeWindows`). Bytes are numbered in
the order they are accepted; `wire` collects what goes to the FIFO. `stored` and
`wire` exist for the properties only.

*UartRx.* `uart_recvTask` has priority over `uart_processTask`, and a pending interrupt
over both; the guards say so. A full event queue refuses a post, as
`system_os_post` does. Bytes are numbered as they enter the ring. A sender keeps at most
`pace` bytes on this side of the parser; it is chosen from `Paces` at the start, so
that one run has both a sender that waits and one that never does.

*TxFlow.* One 's' message is `SockString`, then `CheckSpace` (the broadcast of "-"),
then `SetWantsXon`: the interrupt can come between any two. The browser, which is
not in the sources, is external: it sends nothing between "-" and "+". `alone` records
whether anything but 's' messages has used the transmitter.

*ScreenGeometry.* One record each for the screen, the cursor and the remembered
state. `Ops` selects the groups of operations a run uses. Loops became closed
forms (reverse wraparound is a remainder). C's undefined or accidental values are
choices: a line attribute read outside its array is any bit (`DoubleAt`), and the
comparison of the signed column with the unsigned half width is written as what it
computes (`PastHalf`). Tab motions go to any column on their side, a superset
of what tab stops allow. `Careful` closes two guards that are the host's and the user's
business and that the code does not check: a cursor saved on a larger screen is not
restored on a smaller one (`Restorable`), and settings are not saved over a screen
the host has resized (`ApplySettingsNoClear`). With `Careful = FALSE` the model does
what the code does.

*ScreenCells.* Each action is the action of `ScreenGeometry` conjoined with what
happens to `buf`, the cells and the cache together. The C loops over rows and cells
are recursive functions over the same positions in the same order, because the order of free,
copy and count is what the properties are about. Colours and attributes travel
with the symbol and are left out. Deleting characters at the end of a screen that fills
the array reads one cell behind it, whose contents are a choice (`Overread`, `junk`).

*Grid* says the same operations without references: lines and characters move,
what they leave is blank, and a character that finds no room in the cache may show
as "?". `ScreenCells` implements it with `grid` read through the cache (`Shown`).

*AnsiParser.* One action is one byte handed to `ansi_parser`, with all that it sets
off, or one tick of the timer. The generated tables are the functions `Edges` and
`ActionOn`; `Unfinished` and `Finished` are the grammar of `ansi_parser.rl`, written
without the machine, and `GrammarKept` compares the two. Arguments are read as `int`s,
which wrap around beyond `INT_MAX` (`AsInt`); `CsiAsWritten` says of every CSI sequence that
what is carried out is what the text says, read without the machine, where an `int` holds
the numbers. `out` is what the last byte
completed. The commands that are called then are in `TermModes` and in the modules
of the screen. `text` exists for the properties only.

*TermModes.* `term` holds the structs of `screen.c`. A sequence is an operator from one
`term` to the next, so that the properties can ask what a save followed by anything
and a restore does. The arguments of SGR and of `CSI ? h` and `l` are taken in
turn by recursive functions. `topics` collects what the `NOTIFY_DONE`s of one sequence
raise. `MousePlaces` are any places: what `sendMouseAction` is told by a browser it does not
compare with the screen. `Expressible` says which of them each encoding has room for.

*Serializer* and *Display.* A section is a rectangle and a list of marks, repetitions and
symbols, put together buffer by buffer; `Paint` is what a browser makes of it. A view
is what a browser shows once everything sent to it has arrived. Connections deliver
in order, so a message is received when it is sent, and a slow client is one that
is `busy`. Timers are armed or not. The screen is what a browser can see of it;
its operations are reduced to what they change and which rectangle and topics they
raise, including the cases in which they raise too little or too much. `Before` is what
the header and the other topics take of the first buffer: it depends on the topics, texts and line
attributes, and is otherwise any number for which the code would not begin a new buffer.
`MCBefore` takes the sizes the code reserves for each topic.

*Settings* and *Device.* Settings that nothing depends on are left out; the ones of the
access point and of the station are one value each. A callback is an operator from
one device to the next that collects the blocks it writes (`writes`); `Completed`
puts them into the flash, `Cut` loses power after some of them. A user has some of
the operations (`does`), so that their states add up. `notes` names the events after
which the code does not keep the settings in step.

*WifiScan* and *D2D.* A list is read in pieces while another request's scan may replace it:
`Astray(p)` says that the entry about to be read was never stored or is no more. Two variables only
record: `flaws` is what is wrong with the latest answer to each reader (`"missing"`: an entry was
read that does not exist; `"comma"`: one is left at its end; `"head"`: a second answer begins inside
it), `overtaken` the readers during whose answer another request has started a scan. They are
forgotten (`Forgotten`) when a reader leaves or asks again. `trouble` says how memory
ran out (`"array"`, `"short"`) or that the SDK did not scan (`"refused"`), the variable `refused` of
`D2D` that the HTTP client did not take a request. A reader of a missing entry
goes on in the model; what the real device then does is not modelled.

## Runs

Bounds are in the `.cfg` files. Each bound is named in its module.

| Run | Question | Result |
|---|---|---|
| `tx_safe` | update of `Space` undisturbed: types, order on the wire, refinement of `ByteQueue` | holds |
| `tx_race` | order on the wire with the code as it is | violated |
| `txflow` | all traffic, reloads, the interrupt anywhere but between sending "-" and setting the flag: nothing stranded, room never overstated, a stopped browser goes on, a browser that is alone loses nothing | holds |
| `rx` | types with the ring never full, nothing forgotten, queue refinement, under a flood; a paced sender loses nothing and all it sent is parsed | holds |
| `geo` | cursor, region, margins and origin mode under every operation, saved cursors, the alternate buffer and changes of size | holds |
| `cells_refs` | use counters are exact, two glyphs for one slot | holds |
| `cells_edits` | the user sees what `Grid` promises of lines and characters, by one and by two | holds |
| `cells_sizes` | counters and contents when the screen is cleared, resized, reset or switched | holds |
| `parser` | the machine accepts the grammar, reads arguments as written, collects well-formed characters only, and is brought back to text | holds |
| `modes` | what is saved, reported, swapped or reset comes back as it should; tabs, mouse reports; the browser is told | holds |
| `display` | the pending update suffices, chunks keep their cells, every browser settles | holds |
| `device` | settings in step and usable through forms, imports, resets and power losses; requests end; the button rescues | holds |

`ImplementsGrid` says that every step is one `Grid` allows for its geometry: an
operation that leaves the cursor and the line attributes alone must change the
characters as one of the operations of that kind does. The sizes are chosen so that
one cannot pass for another.

### Bounds and why they are enough

* The rings hold 3 to 5 bytes before a FIFO of 2 or 3, and messages of 0 to more
  than the ring: every message folds at every position, overfills the FIFO, and
  fills or exceeds the ring. `MaxBytes` allows about twice round the ring, after
  which positions repeat. `Wrap`'s behaviour depends on nothing else.
* `geo` chooses a host at the start: one that does everything but save the cursor, one
  that saves it on double-width lines and in the alternate buffer, one that saves it and
  resizes. It has the sizes 4 by 2 and 2 by 3: a region that
  touches neither edge of the screen, one, or both, double-width halves of 1 and 2 columns,
  and a resize between a wide, low screen and a narrow, high one. Steps of 1 and 3
  are "by one" and "by more than there is" (in rows) or "to the other end" (in
  columns); beyond them the theorems below speak for every value.
* `cells_refs` has a screen of 2 columns and 3 rows, the smallest on which a region can
  have an inner row. `cells_edits` adds one of 3 columns and 1 row, on which a line of
  characters has an inner one, and steps of 2. `cells_sizes` changes between 2 by 1
  and 2 by 2. `MaxCells` leaves the smaller sizes room behind the screen, and the largest
  one none, as a screen of 80 by 25 fills `MAX_SCREEN_SIZE`.
* `ScreenCells` uses one or two glyphs and one slot, so that the cache is full, a
  slot is given away and reused, and every pattern of glyph and blank occurs; the two glyphs of
  `cells_refs` are symmetrical.
  `MaxUses` stops the leaking operations (below) before the counts grow without
  end; `CountMod` stands for the 16-bit counter and is never reached.
* A ring of 5 bytes and a limit of 9 (`MaxBytes`) in `rx` let a flood fill the ring and
  the FIFO twice; `Paces` are 4, one less than the ring, and 9, no limit at all.
* `parser` has five hosts: two for the arguments (of one and two digits, present,
  empty and missing, up to more than `CSI_N_MAX`), one for strings and short sequences,
  one with a byte of each class of the table of well-formed UTF-8, and one whose
  characters are written out over a line of 20. `longest` bounds a sequence, not their
  number. `INT_MAX` is 127, so that the largest arguments the hosts write are beyond it.
* `modes` has hosts for groups of sequences that touch the same state, 6 columns and
  words of 2 bits, so that stops are in the same word, in the next one and two words
  away. `MCSgrArgs` has every form of SGR arguments. `MCMousePlaces` are the last columns
  each encoding has room for, and the first ones it does not.
* `display` starts nine hosts from screens that are not empty, each with one or
  two operations (`left`) before it is quiet; an operation after a clean, a dirty and a
  partly sent screen are all the cases there are. Two clients connect once each.
  `CutAt` are buffers of fewer cells than the section.
* `device` has nine users; `MaxHold` is the 12 ticks of a factory reset. Two readers
  and up to two access points: a list replaced by a shorter one while it is read.
* Every passing run terminates with its whole state space explored. Deadlock is not
  checked in the UART runs, which stop when `MaxBytes` have been sent,
  in `display`, whose hosts become quiet, in `modes`, where a host of a few queries may have
  nothing left to do, and in `device`, where the power may stay off.

### What is left out of the passing runs, and why

The code does not satisfy the properties in the cases below; the passing runs state
their condition:

* `Slack = 0`: the host asks for no bottom margin below the screen.
* `Careful = TRUE`: no old cursor and no old size on a screen of another size.
* `cells_refs` has single steps and no deletion of characters (see below);
  `cells_edits` and `cells_sizes` do not ask for exact counts where these are used,
  and `cells_edits` has no deletion of lines.
* Sizes are two columns wide at least: with one column, half of a double-width line
  is column -1. (`cells_*` have no double-width lines.)
* `RowsAssumption`, `RowsReachDown`: no more rows than `line_attribs` has entries (64).
  `TabsReachAcross`: no more columns than `tab_stops` has bits (160). What lies behind these
  arrays is not modelled.
* `MouseDecodes` excepts places (and with the option for UTF-8, motion with a wheel
  button) that the encoding has no room for.
* `tx_safe` protects the update of `Space` (`tx_race`); `SetWindow = FALSE`: `txflow` says
  `XonOwed` and `Resumes` of a buffer that is not run empty between "-" and the flag.
* `rx`: `NeverDiscards` and `AllParsed` are about a sender that waits.
* `Cancels = FALSE`: strings are not cancelled.
* `Restores`: options 5 and 2004 are not restored.
* `TabsNearest` excepts a search that passes an empty word.
* `ResizesUnwatched = FALSE`: the size does not change while no browser is there.
* `SlotsTakenOver = FALSE`: no glyph gets the slot of the cache that the one it replaces
  has just given up.
* `CutsKeepCells` excepts the last cell of a section.
* `notes`, `trouble` and `refused` in `device`, each at its property. `AnswersSound`
  excepts missing entries once memory for an entry ran out (`"short"`), and commas and heads of
  an answer that another request's scan has overtaken (`overtaken`).
* `SizesFit`, `FlashesFit`: no imported file makes the screen empty, and a device that
  imports has a flash that was whole at first (see below).

## Where code and comments disagree

* `tx_race`: `Space -= n` in the task loses the interrupt's update; `Space` stays
  too small, and the interrupt sends stale bytes.

Also seen, without a run of their own. UART:

* The browser is stopped for good if the buffer runs empty between "-" and the flag
  that would let it go on (`cgi_sockets.c:264`).
* With one byte of room, discarding discards nothing (`uart_buffer.c:177`): the receive
  task posts itself for ever and starves the one that makes room.
* The interrupt that should only report an empty FIFO (`uart_buffer.c:282`) may be
  the one that fills it again: a message accepted in between does not call it off.

Screen:

* Deleting characters leaks slots of the cache, as does moving several lines at once
  (`screen.c:1196`).
* On a double-width line the pending wrap is set in column W/2-1 (`screen.c:2059`) and
  thrown away as invalid before the next character (`screen.c:196`).
* Backspace in column 0 of a double-width line jumps to column W/2-1: `cursor.x` is -1
  when it is compared with an unsigned number (`screen.c:1580`), although backspace
  should "not wrap around" (`screen.c:2094`). `PastHalf` models it.
* A saved cursor is restored unclamped on a smaller screen (`screen.c:1678`), although
  the "cursor must never go past EOL" (`screen.c:761`).
* Saving any setting undoes the host's resize without a clear (`screen.c:468`), in the
  function for settings "that do not affect the screen size" (`screen.c:412`).
* A screen of more than 64 rows is accepted (`screen.c:469` looks at the product only) and
  writes line attributes behind `line_attribs` (`screen.c:61`), one of more than 160
  columns reads and writes tab stops behind `tab_stops` (`screen.c:742`, `:750`, `:801`).
* Deleting characters on the last line of a screen that fills the array reads one cell
  behind it (`screen.c:1195`).
* A bottom margin below the screen is accepted (`screen.c:1439`) where "Bad range, do
  nothing" (`screen.c:1443`) would be expected.
* Deleting lines with one line left to pull up erases that line (`screen.c:1134`); the
  header says "pull up" (`screen.h:265`).
* `CSI ? 1048 l` saves the cursor instead of restoring it (`apars_csi.c:741`).
* Restoring private option 6 does not home the cursor (`screen.c:1902`, marked XXX).
* The search for a tab stop to the left, after a word without stops, ends 32 columns
  too far right (`screen.c:803`).
* Restoring options 5 and 2004 tells no browser (`screen.c:1901`, `screen.c:1943`).
* Lines that are inserted keep the double-width attribute of those they push down
  (`screen.c:1115`); if nothing is left to push down (`screen.c:1101`), and when lines are
  deleted, the cleared lines lose it.
* Mouse reports for UTF-8 "break if any coord is over 127" (`cgi_sockets.c:225`): they do
  from column or row 96 on, since 32 is added, and for motion with a wheel button.
* The answer to a query of the rendition leaves out overline (`screen.c:1976`).

Parser:

* A string that is cancelled leaves `inside_string` up (`ansi_parser.rl:110`); controls
  are then taken for parts of a string until the next error or string.
* With more than `CSI_N_MAX` arguments the count exceeds the array (`ansi_parser.c:450`).

Browsers:

* A glyph that takes over the slot of the one it replaces is not told
  (`screen.c:2046`): slots are compared, not glyphs.
* The last cell of an update is lost if the buffer is full just before it
  (`screen.c:2642`).
* The dirty rectangle of a larger screen survives a resize while nobody watches.
* With `display_tout` above 0, a host that never pauses postpones updates for ever
  (`cgi_sockets.c:159`), and a client that takes nothing any more stops all others
  (`cgi_sockets.c:104`).

Settings:

* `wifimgr_notify_sta` raises the flag of the access point (`wifimgr.h:24`).
* A power failure between the two stores of a hard reset leaves empty defaults under
  a valid checksum (`persist.c:143`).
* Restored defaults reach the radio only where an interface is switched on
  (`persist.c:202`).
* An abandoned import leaves what it had read in use (`cgi_persist.c:434`); one that fails
  after another page has stored takes back the running settings but not the stored
  ones (`cgi_persist.c:361`).
* An imported file may give the screen a width or height of 0 (`cgi_persist.c:348`),
  which the form refuses (`cgi_term_cfg.c:50`).
* After a power failure in a hard reset, with empty defaults, an import that restores
  nothing else can leave settings that are not whole with defaults that are.
* A scan without memory for its result, or one the SDK refuses, never ends
  (`cgi_wifi.c:101`, `cgi_wifi.c:145`); so does one that finds nothing, where `malloc(0)` is
  `NULL` (`cgi_wifi.c:100`).
* When memory runs out for an entry, the counter runs ahead of the entries: a missing one
  is read by the list and freed by the next scan (`cgi_wifi.c:116`, `:173`, `:89`).
* A list that another request's scan has overtaken can end with a comma (`cgi_wifi.c:172`) or
  with a second answer inside it (`cgi_wifi.c:205`): it is not JSON.
* A request to another device that `http_request` refuses leaves `request_pending` up
  (`cgi_d2d.c:175`, `cgi_d2d.c:274`): no later one is sent.

## Fairness

`UartTx`: a task that has begun runs on, an enabled interrupt is taken, the shift
register shifts. Nobody has to send. `UartRx`: the same, and strong fairness for
the two tasks, since the SDK dispatches the highest-priority queued task whenever no
interrupt is pending. `TxFlow`: strong fairness for the timer, which the SDK serves
before tasks; its guard is closed while a message is being handled. `AnsiParser`: the
timer of `io.c` repeats for ever. `Display`: an armed timer of the SDK runs, and what
was sent is received or its connection closed. `Device`: the button's timer repeats,
the web server calls a handler that has more to send until it is done, the SDK ends a
scan it has begun, and the HTTP client calls back for each request it has taken (it has a
timeout). Nobody has to print, to load a page or to press anything.

## Proofs

Loops of the firmware are recursive functions in the models. `Iteration` has what proofs about them
need: `Iterates` and `Recursion`, that such a function obeys its equation, and
`SetInduction` and `TurnByTurn`, induction as statements about sets and functions. They
come from the least element of a set of numbers (`WFMin`), which needs no operator
as a parameter.

`TxFlowProofs` begins with `UartTx`. It proves, for every size of the ring and the FIFO, every threshold, every
set of message lengths and every set of interrupt windows:

* `TypeCorrect`: `TypeOK`, in particular `Space` stays in 0..`Size`. `TypeOK` is not
  inductive: `Progressing` adds that the rest of the message being copied fits
  the `Space` the task has loaded, and that this is never more than there is, because the
  interrupt only adds.
* `NothingStranded`: `TxArmed`. The read-modify-write of `INT_ENA` in a receive task
  puts an old value back; `RxLoaded` says that it cannot be older than an interrupt
  that was enabled meanwhile.
* `NoOvercommitment`: `NeverOvercommitted`.
* `InOrder`: `WireInOrder`, when "store" is not in `Windows`. `RingInv` says that the
  bytes from `pOutPos` on are the next ones in order; each step shifts that window.
* `IsAQueue`: `ImplementsQueue`, under the same condition. The abstract queue is
  `Pending`, the bytes from `pOutPos` on, read around the fold. `RingInv` makes them
  the numbers that follow the wire (`Waiting`), so what a step does to the array
  is seen to append to the sequence or to take from its front.

It then shows that every step of `TxFlow` is one of `UartTx` or leaves it
alone (`FlowIsTx`), and so takes over all the above:

* `FlowStrandsNothing`: `TxArmed`, and `FlowSeesNoFalseRoom`: `NeverOvercommitted`.
* `StoppedIsOwed`: `XonOwed`, with `SetWindow = FALSE` as in the run.
* `AloneLosesNothing`: `NothingLost`, if no 's' message is longer than the low water
  mark. `Room` says, for every place in the handling of a message, that a browser that may
  send will find that much, that a flag or timer that is set belongs to a stopped one, and
  that the timer runs only when the buffer has been empty and still is.

`UartRxProofs` proves the same for the receiver, for every size of the ring, the FIFO,
the event queues, every threshold, chunk length and pace:

* `TypeCorrect`: `TypeOK`. With it goes `InBehind`, that `pInPos` is `Count` bytes behind
  `pOutPos`: without it "equal positions mean empty" does not carry over a step.
* `Attended`: `NothingForgotten`. `UnmaskOwed` is stronger: a masked interrupt
  has an event to come that unmasks it, and the mask that `UART_SendAsync` has loaded is
  not written back over one that nobody would take off again.
* `PacedIsSafe`: `NeverDiscards`. `PaceInv` bounds FIFO and ring together by the sender's limit, so
  that what is in the FIFO fits.
* `IsAQueue`: `ImplementsQueue`. `ShortcutIsRight` says that `UART_ReadAsync`, which looks
  past the end of the array only when `pOutPos` is beyond `pInPos`, misses nothing.

`ScreenCellsProofs` begins with the geometry. It proves, for every set of sizes at least two columns wide
(`Wide`) and with at most as many rows as line attributes (`RowsAssumption`, 64), every set of steps and every choice of operations, with `Slack = 0` and
`Careful`:

* `TypesKept`, `CursorStays` and `RegionStays`: `GeoTypeOK`, `CursorInScreen` and
  `RegionInScreen`. Neither of the last two is inductive: motion needs the region
  to be on the screen, printing needs the cursor to be, leaving the alternate
  buffer needs the remembered size to be one to work on. `IInv` is all of them: a
  `Sound` screen, a `Sound` remembered one, and a cursor `On` the screen. One lemma
  per operator says where it leaves the cursor (`SetXIsOn`, `MoveXIsInLine`, `ConfineYIsOn`,
  ...), one per action that it keeps `IInv`. `Slack = 0` is used in `RegionKeeps`
  only, `Careful` where a cursor is restored (`RestoreKeeps`, `AlternateOutKeeps`) and in
  `NoClearKeeps`.
* `MotionStays`: `MotionConfined`, and `OriginStays`: `OriginConfined`, from the same
  invariant.

Then it turns to the cells and the cache, for every number of slots, glyphs and cells, and
every size the array has room for, one that fills it included:

* `CountsExact`: `ExactRefs`. `CInv` adds to the above that the screen's sizes are known ones, so
  that it fits the array, and that each slot's counter is the number of cells *on the
  screen* that hold it; cells behind it hold what they held before and do not count. An operation is
  taken apart into its loops, and in between the counters are exact for other sets of
  cells (`Exact(b, U)`): while lines move down, say, the row that was copied last is on the
  screen twice and counted once. `Counted`'s lemmas say how the sets change (`CountExchanged`:
  two rows that hold the same cells may stand for each other), and one lemma for each loop, by
  `TurnByTurn`, from which set to which it leads. A counter cannot wrap around, since it
  counts cells and `MaxCells < CountMod`. The theorem is about hosts that do not delete
  characters and move lines one at a time (`NoLeaks`): the code leaks in the other
  two cases (see above), where `ExactRefs` is false.
* `ShowsTheGrid`: `ImplementsGrid`, the refinement of `Grid`, step by step (`InitSeen`, `StepSeen`).
  Three things are put together. The operators of the geometry that `Grid` has for itself are those
  of this one (`MotionSame`, `LinesSame`, ...). Each loop leaves in the cells what it should:
  `MoveRowsCells` and `MoveCellsCells` say, by recursion over the turns, that row or cell `k` holds
  what row or cell `k + n` held *before* the loop, since no turn reads what one before it has
  written (`ReadsAhead`); from there `UpMoved`, `DownMoved`, `RightMoved` and `Wiped` say it of
  each operation. And cells that hold the same show the same: the bytes of a slot
  change only when its counter is 0 (`AddKeeps`), and because the counters are exact (`CInv`) no slot
  that a cell of the screen refers to has that counter (`ExactHolds`). So the theorem needs `NoLeaks`
  as `CountsExact` does. It also leaves out the deletion of lines, where the code and
  `Grid` differ (`screen.c:1134`, see above).

`AnsiParserProofs` proves, for every host, reset, time-out and debugging in between:

* `KeepsTheGrammar`: `GrammarKept`, with `Cancels = FALSE`. `MachineInv` says for each of
  the ten states what text leads there (`InText`), that the string flag is up in
  states 8 and 9 only, and that what is handed out is right (`OutRight`). `GrammarKept`
  alone knows that the text is the beginning of a sequence, but not which, so it
  cannot tell what the next byte may do. There is one lemma for each state
  (`FromEscape`, `InNumbers`, ...), which compares its edges with the grammar.
* `ShowsCharacters`: `CharactersRight`. `CharInv` says that the collector of
  `apars_utf8.c` holds a beginning of one character, whose first byte is one for the
  length it waits for.
* `CarriesOutNumbers`: `CsiAsWritten`, with or without cancelled strings. `CsiInv` adds that in the
  states of a CSI sequence the variables hold what is written so far (`Kept`): the
  leading byte, as many arguments as there are semicolons, each the number its digits
  denote if an `int` holds it, and nothing of an earlier sequence. What is written is
  defined on the whole text, so one more byte has to be shown to leave the fields
  before it as they are (`SemisLonger`, `NumberLonger`, ...). There is one lemma for each
  action of the grammar.

`TermModesProofs` proves, for lines of two columns at least (`2 <= Width`) and no more than the
bitmap of tab stops reaches across (`TabsReachAcross`, 160), for every
set of hosts, arguments and word length. `ModesInv` is the type of the structs, and three facts
more: the shape of the cursor is 1 only if the settings say so, an event reported is one that was
to be reported, and the report is the one made of it.

* `BrowserIsTold`: `ChangesTold`, for hosts that do not restore options 5 and 2004 (the code
  restores them silently). `Told(t, u)` says that `u` raises a topic for each thing a message
  shows that differs from `t`. It is transitive, so that it holds along the list of
  arguments of a sequence (`TurnByTurn`) if it holds for each of them.
* `TabsFindStops`: `TabsNearest`. The search goes by words of the bitmap, so the proof divides
  columns with remainder; it excepts what the property excepts.
* `BackupsBringBack`: `BackupsHold`. `OnlyOpt` and `OnlyCur` say that setting an option changes
  one field and keeps the backups, so that saving, setting and restoring bring it
  back; what a reset saves is what it sets; nothing but the alternate screen's own two
  operations touches what it is to bring back (`OscKeepsAlt`).
* `ReportsDecode`: `MouseDecodes`, for every set of places; it excepts those an encoding has no room
  for (`Expressible`). With the option for UTF-8 a report is read as three characters, so each of its
  bytes must be one (`AllCharacters`). Buttons, keys and motion are added up to
  one number; `BitsOf` takes it apart.
* `ReportsRestore`: `ReportRestores`. `Lists(s, c, A)` says that a list of arguments has one code
  for each attribute of `c` in `A`; carrying it out adds just these (`SgrAdds`, `SgrRuns`).

`DeviceProofs` begins with one lemma for each operation of `Settings`: what blocks it
writes, what it leaves alone, and what it does to the flags. It proves, for every
set of users, forms and contents of files and flash:

* `StaysInStep`: `InStep`, and `AccessPointFollows`: `ApFollows`. Both are about moments at
  which nothing is under way; `StepInv` and `ApInv` also say what holds during an import
  (what is stored is what the copy to go back to would make of the running settings)
  and before a timer (what the access point does not run with is flagged). Since
  a failed import goes back to that copy, the flags must also account for the
  difference from the copy.
* `RunsUsable`: `Usable`, for `SizesFit` and `FlashesFit`. `UseInv` says it of the flash,
  too, so that it survives every cut of power.
* `AnswersAreSound`: `AnswersSound`. `ScanInv` says that counter and array agree until memory
  runs out (`ListInv`), and of each reader, whatever scans end between two of its
  pieces, that its place is one in the list there is now or that it has been overtaken, and that
  its answer so far has a head and its commas if it has not (`AnswerInv`).

`DisplayProofs` begins with the serialiser: the loop of `screenSerializeToBuffer` and the browser's
reading of what it wrote undo each other. `Good(s, k, ...)` is the invariant of the loop:
what is in the buffers so far shows the first `k` cells of the rectangle and nothing else,
and the sender's last cell, attributes and colours are those the browser's pen has, as far
as they can still matter (`Knows`). `GoodNext` carries it over one turn, with one lemma for
each kind of mark (`PutColorsIs`, `RepeatedIs`, ...); `LoopEnds` and `ChunkEnds` over
a buffer and from one to the next. The results are `SectionShows` (a section that
reaches its last cell shows them all) and `SectionKeeps` (with room for the largest cells, all but
the last one are shown and no other is touched).

It proves, for every set of sizes (of up to 64 rows), hosts and clients, every content of the
screen and every room that the topics before the cells leave, with `ResizesUnwatched` and `SlotsTakenOver` FALSE:

* `WholeUpdatesSuffice`: `UpdateSuffices` in every behaviour in which no section ends with
  its last buffer full just before its last cell (`SectionsArrive`). `UpdateSuffices`
  is about the message that would be sent now; `Inv` is about what a browser lacks. A browser
  `Follows` the screen if each part of it that it does not show is accounted for: a cell by the
  dirty rectangle or the topic "all", a text, the cursor, the line attributes
  and the size by their topics. `Tells` says that an operation raises what accounts for the
  change it makes; there is one lemma per operation (`PutCharTold`,
  `ScrollTold`, ...), and a postponed, sent or received update carries `Follows` on by what
  is said of sections above.
* `CutsKeep`: `CutsKeepCells`, when the twenty buffers hold every cell (`CutsFit`).

`CutsFit` counts each cell at its largest, 13 bytes; the firmware's 2000 cells and twenty buffers of
2000 bytes meet it. One buffer has no room for the cells of even the default screen of 26 by 10 at their
largest, so the last cell remains an exception: no condition on the sizes excludes
`screen.c:2642`.

`MCDevice` makes TLC evaluate `SizesFit` and `FlashesFit` for the users of the run, and
`MCDisplay` `CutsFit`, and that every update of the run goes into one buffer, for its screens. No
other theorem has a hypothesis beyond the named assumptions on the constants and the
conditions given here.

Left to TLC:

* Liveness (`Resumes`, `AllParsed`, `Recovers`, `Settles`, `RequestsEnd`, `Rescued`) and
  ENABLED, which are out of the prover's reach.
* `ImplementsGrid` where slots leak: characters deleted, or several lines moved at once.
  The counters are too large then, and the proof would have to bound by how
  much; `cells_edits` checks these steps.
* Nothing is proved of `UpdateSuffices` where glyphs take over slots or sizes change
  unwatched: the code does not satisfy it there (see above).

## Not modelled

* Wordings, formats and encodings: the text of answers and messages, numbers as
  characters, JSON and HTML, the parser of imported files (`ini_parser.c`).
* Window manipulation by `CSI t` other than titles and size; bracketed paste, which is
  the browser's.
* The blinking of the indicator. Joining a network and its status page. Settings nothing
  depends on. The "system" section of an imported file, two imports at once, an export.
* Messages from other devices, which are written to the UART as they come.
* libesphttpd and the browser's code, which are not in the tree; `Display` has of the
  browser what the messages are for.
* Logging, ping, authentication and sntp: handlers without state of their own.
* Calls of the SDK that fail when the radio is configured, where `wifimgr.c` returns early.

## What could follow

Theorems: `ImplementsGrid` with operations that leak, from a bound on the leaks.
Models: colours and double-width lines combined with `ScreenCells`; slots of the glyph
cache in `Display`.

------------------------------- MODULE Display -------------------------------
(***************************************************************************)
(* How browsers are kept up to date with the screen: the dirty rectangle   *)
(* and the topics that the operations of screen.c raise, the timers and    *)
(* broadcasts of cgi_sockets.c, and the messages of Serializer.            *)
(*                                                                         *)
(* A view is what a browser shows once it has received all that was sent   *)
(* to it; a connection delivers in order or is closed.  A client is busy   *)
(* while too much of what was sent is still on the way.  Timers have no    *)
(* lengths here: one that is armed may run at any time.  An update is      *)
(* serialised and sent in one go, as no callback runs in between.          *)
(***************************************************************************)
EXTENDS Serializer, TLC

CONSTANTS
  Clients,
  Hosts,       \* kinds of host: what each uses, the screens it starts from,
               \* display_tout_ms, and (a bound) how many operations it does
  Sizes,       \* the sizes <<rows, columns>>
  Pens,        \* the cells the host writes
  Counts,      \* arguments of the operations that take one
  Fields,      \* what is told as a whole: the title, the buttons, ...
  Rows,        \* LINE_ATTRS_COUNT
  BufLen,      \* SOCK_BUF_LEN
  Before,      \* the bytes an update takes before its cells
  CutAt,       \* smaller buffers, that cut the cells as well
  Sessions,    \* bound: how often a client connects
  ResizesUnwatched, \* does the size change while nobody watches?
  SlotsTakenOver    \* may a glyph get the slot of the one it replaces?

(* What the screen of screen.c can be.                                     *)
IsScreen(s) ==
  /\ <<s.h, s.w>> \in Sizes
  /\ s \in [h : Nat, w : Nat, cells : [0..(s.h * s.w - 1) -> Cells],
            cur : [y : 0..(s.h - 1), x : 0..(s.w - 1), hang : BOOLEAN],
            text : [Fields -> {0, 1}], line : [0..(Rows - 1) -> {0, 1}],
            top : 0..(s.h - 1), btm : 0..(s.h - 1)]
  /\ s.top <= s.btm

(* The topics that come before the cells.  What they take depends on them, *)
(* the texts and the line attributes; they fit into one buffer.            *)
HeadTopics == Fields \cup {"opts", "double", "internal", "bell", "cursor"}
HeadKinds ==
  [Fields -> {0, 1}] \X [0..(Rows - 1) -> {0, 1}] \X SUBSET HeadTopics

ASSUME DisplayAssumption ==
  /\ Rows \in Nat
  /\ \A s \in Sizes : s \in (Nat \ {0}) \X (Nat \ {0})
  /\ Pens \subseteq Cells /\ Counts \subseteq Nat \ {0}
  /\ \A h \in Hosts : /\ h.tout \in Nat /\ h.left \in Nat
                      /\ \A s \in h.screens : IsScreen(s)
  /\ BufLen \in Nat /\ Before \in [HeadKinds -> 0..BufLen]
  /\ CutAt \subseteq {n \in Nat : n > Reserve}
  /\ Sessions \in Nat
  /\ {"all", "part", "opts", "cursor", "double", "noclean"} \cap Fields = {}
  /\ {ResizesUnwatched, SlotsTakenOver} \subseteq BOOLEAN

(* The code does not check this one: the line attributes of further rows   *)
(* would lie behind line_attribs.  That is not modelled.                   *)
ASSUME RowsReachDown == \A s \in Sizes : s[1] <= Rows

VARIABLES
  host,
  scr,         \* h, w, cells, cur, text (by field), line (by row), top, btm
  dirty,       \* scr_dirty
  pending,     \* pendingBroadcastTopics
  scheduled,   \* notify_scheduled
  timers,      \* which of "update", "cooldown", "heartbeat" are armed
  client,      \* off, open, or loaded, by client; and how often it came
  view,        \* by client
  busy         \* the clients with a backlog

vars == <<host, scr, dirty, pending, scheduled, timers, client, view, busy>>
screenvars == <<host, scr, dirty>>
clientvars == <<client, view, busy>>

Home == [y |-> 0, x |-> 0, hang |-> FALSE]
NoLines == [y \in 0..(Rows - 1) |-> 0]

Content == {"all", "part"}
TOPIC_INITIAL == Fields \cup {"opts", "all", "cursor", "double"}
Active == {c \in Clients : client[c].is # "off"}     \* term_active_clients
Loaded == {c \in Clients : client[c].is = "loaded"}

-----------------------------------------------------------------------------
(* The dirty rectangle.                                                    *)

Clean(s) == [y0 |-> s.h, y1 |-> -1, x0 |-> s.w, x1 |-> -1]

Lower(a, b) == IF a < b THEN a ELSE b
Upper(a, b) == IF a > b THEN a ELSE b

Expand(d, y0, y1, x0, x1) ==
  [y0 |-> Lower(y0, d.y0), y1 |-> Upper(y1, d.y1),
   x0 |-> Lower(x0, d.x0), x1 |-> Upper(x1, d.x1)]

ExpandRows(d, s, y0, y1) == Expand(d, y0, y1, 0, s.w - 1)

BadBounds(d) == d.x0 > d.x1 \/ d.y0 > d.y1

-----------------------------------------------------------------------------
(* Messages.  A message holds the values of its topics, and the cells.     *)

(* The section for the cells: a partial one unless the bounds are bad or   *)
(* everything is to be sent.                                               *)
Rect(s, d, topics) ==
  IF "all" \in topics \/ BadBounds(d) THEN WholeScreen(s.h, s.w) ELSE d

(* The room that the header of an update and the other topics leave.       *)
Room(s, topics) == BufLen - Before[<<s.text, s.line, topics \cap HeadTopics>>]

Message(s, d, topics) ==
  [topics |-> topics, h |-> s.h, w |-> s.w, text |-> s.text, cur |-> s.cur, line |-> s.line,
   section |-> Section(s.cells, Rect(s, d, topics), s.w, Room(s, topics), BufLen)]

Nothing == [h |-> 0, w |-> 0, cells |-> <<>>, text |-> [f \in Fields |-> 0],
            line |-> NoLines, cur |-> Home]

Resized(v, m) ==
  IF "opts" \in m.topics /\ <<v.h, v.w>> # <<m.h, m.w>>
  THEN [v EXCEPT !.h = m.h, !.w = m.w, !.cells = [p \in 0..(m.h * m.w - 1) |-> Blank]]
  ELSE v

(* What a browser makes of a message.                                      *)
Received(view0, m) ==
  LET v == Resized(view0, m)
  IN  [v EXCEPT !.text = [f \in Fields |-> IF f \in m.topics THEN m.text[f] ELSE @[f]],
                !.line = IF "double" \in m.topics THEN m.line ELSE @,
                !.cur = IF "cursor" \in m.topics THEN m.cur ELSE @,
                !.cells = IF m.topics \cap Content # {} THEN Paint(@, m.section, v.w) ELSE @]

Picture(s) == [h |-> s.h, w |-> s.w, cells |-> [p \in DOMAIN s.cells |-> Shown(s.cells[p])],
               text |-> s.text, line |-> s.line, cur |-> s.cur]

(* Mutant of CleanedBy: an initial load makes the screen clean as well.    *)
CleanedByAny(s, d, topics) ==
  IF topics \cap Content # {} THEN Clean(s) ELSE d

(* Serialising the cells makes the screen clean, unless "noclean" forbids. *)
CleanedBy(s, d, topics) ==
  IF topics \cap Content # {} /\ "noclean" \notin topics THEN Clean(s) ELSE d

-----------------------------------------------------------------------------
(* Raising topics, and the update.                                         *)

(* Mutant of Notify: it is not noted that the update is due.               *)
NotifyUnnoted(topics) ==
  IF Active = {} THEN UNCHANGED <<pending, scheduled, timers>>
  ELSE /\ pending' = pending \cup topics
       /\ IF host.tout = 0 /\ scheduled THEN UNCHANGED <<scheduled, timers>>
          ELSE scheduled' = TRUE /\ UNCHANGED timers

(* screen_notifyChange *)
Notify(topics) ==
  IF Active = {} THEN UNCHANGED <<pending, scheduled, timers>>
  ELSE /\ pending' = pending \cup topics
       /\ IF host.tout = 0 /\ scheduled THEN UNCHANGED <<scheduled, timers>>
          ELSE scheduled' = TRUE /\ timers' = timers \cup {"update"}

(* updateNotifyCb, when it is postponed it is armed again; or when it      *)
(* broadcasts all that is pending.                                         *)
Postponed == "cooldown" \in timers \/ busy # {}

Broadcast ==
  LET m == Message(scr, dirty, pending)
  IN  view' = [c \in Clients |-> IF c \in Loaded THEN Received(view[c], m) ELSE view[c]]

(* Mutant of Update: notify_scheduled is left set.                         *)
UpdateStaysDue ==
  /\ "update" \in timers
  /\ ~Postponed
  /\ pending' = {}
  /\ timers' = (timers \ {"update"}) \cup {"cooldown", "heartbeat"}
  /\ dirty' = CleanedBy(scr, dirty, pending)
  /\ UNCHANGED <<host, scr, client, scheduled>>
  /\ Broadcast
  /\ busy' \in SUBSET Active

Update ==
  /\ "update" \in timers
  /\ ~Postponed
  /\ pending' = {}
  /\ scheduled' = FALSE
  /\ timers' = (timers \ {"update"}) \cup {"cooldown", "heartbeat"}
  /\ dirty' = CleanedBy(scr, dirty, pending)
  /\ UNCHANGED <<host, scr, client>>
  /\ Broadcast
  /\ busy' \in SUBSET Active

CooldownOver ==
  /\ "cooldown" \in timers
  /\ timers' = timers \ {"cooldown"}
  /\ UNCHANGED <<screenvars, pending, scheduled, clientvars>>

(* With a client it arms itself again.                                     *)
Heartbeat ==
  /\ "heartbeat" \in timers
  /\ timers' = IF Active = {} THEN timers \ {"heartbeat"} ELSE timers
  /\ UNCHANGED <<screenvars, pending, scheduled, clientvars>>

-----------------------------------------------------------------------------
(* Clients.                                                                *)

Connect(c) ==
  /\ client[c].is = "off"
  /\ client[c].came < Sessions
  /\ client' = [client EXCEPT ![c] = [is |-> "open", came |-> @.came + 1]]
  /\ timers' = IF Active = {} THEN timers \cup {"heartbeat"} ELSE timers
  /\ UNCHANGED <<screenvars, pending, scheduled, view, busy>>

(* updateSockRx "i": the whole screen, to one client.                      *)
Load(c) ==
  LET topics == TOPIC_INITIAL \cup {"noclean"}
  IN  /\ client[c].is = "open"
      /\ client' = [client EXCEPT ![c].is = "loaded"]
      /\ view' = [view EXCEPT ![c] = Received(Nothing, Message(scr, dirty, topics))]
      /\ dirty' = CleanedBy(scr, dirty, topics)
      /\ busy' \in {busy, busy \cup {c}}
      /\ UNCHANGED <<host, scr, pending, scheduled, timers>>

Close(c) ==
  /\ client[c].is # "off"
  /\ client' = [client EXCEPT ![c].is = "off"]
  /\ view' = [view EXCEPT ![c] = Nothing]
  /\ busy' = busy \ {c}
  /\ timers' = IF Active = {c} THEN timers \ {"heartbeat"} ELSE timers
  /\ UNCHANGED <<screenvars, pending, scheduled>>

(* What was sent arrives.                                                  *)
Deliver(c) ==
  /\ c \in busy
  /\ busy' = busy \ {c}
  /\ UNCHANGED <<screenvars, pending, scheduled, timers, client, view>>

-----------------------------------------------------------------------------
(* The operations on the screen: what each writes, and where it is dirty.  *)

At(s, y, x) == y * s.w + x

(* clear_range_do: a cell keeps no attribute but its colours.              *)
Sample(pen) == [pen EXCEPT !.sym = Blank.sym, !.attrs = @ \cap {"fg", "bg"}]

Fill(s, from, to, pen) ==
  [s EXCEPT !.cells = [p \in DOMAIN @ |-> IF p \in from..to THEN Sample(pen) ELSE @[p]]]
NoAttrs(s, y0, y1) ==
  [s EXCEPT !.line = [y \in DOMAIN @ |-> IF y \in y0..y1 THEN 0 ELSE @[y]]]
FillRows(s, y0, y1, pen) == NoAttrs(Fill(s, At(s, y0, 0), At(s, y1 + 1, 0) - 1, pen), y0, y1)

(* Rows y0..y1 take the place of those n above, or n below for n < 0.      *)
RowsMoved(s, y0, y1, n, pen) ==
  LET in(y) == y + n \in y0..y1
  IN  [s EXCEPT !.cells = [p \in DOMAIN @ |->
                   IF p \div s.w \notin y0..y1 THEN @[p]
                   ELSE IF in(p \div s.w) THEN @[p + n * s.w] ELSE Sample(pen)],
                !.line = [y \in DOMAIN @ |->
                   IF y \notin y0..y1 THEN @[y] ELSE IF in(y) THEN @[y + n] ELSE 0]]

CharsMoved(s, n, pen) ==
  LET c == s.cur
      in(p) == p + n \in At(s, c.y, c.x)..At(s, c.y, s.w - 1)
  IN  [s EXCEPT !.cells = [p \in DOMAIN @ |->
                   IF p \notin At(s, c.y, c.x)..At(s, c.y, s.w - 1) THEN @[p]
                   ELSE IF in(p) THEN @[p + n] ELSE Sample(pen)]]

Uses(op) == op \in host.uses /\ host.left > 0

(* One operation of the host is done.                                      *)
Done(s, d, topics) ==
  /\ host' = [host EXCEPT !.left = @ - 1]
  /\ scr' = s
  /\ dirty' = d
  /\ Notify(topics)
  /\ UNCHANGED clientvars

Edit(s, topics, y0, y1, x0, x1) == Done(s, Expand(dirty, y0, y1, x0, x1), topics)
EditRows(s, topics, y0, y1) == Edit(s, topics, y0, y1, 0, scr.w - 1)

(* Is the symbol of a cell the same number as before?  A glyph that is not *)
(* in the cache may take the slot of the old one, when nothing else on the *)
(* screen was using it (SlotsTakenOver).                                   *)
SameSymbol(s, p, g) ==
  LET old == s.cells[p].sym
      elsewhere == {s.cells[q].sym : q \in DOMAIN s.cells \ {p}}
  IN  IF old = g THEN {TRUE}
      ELSE IF SlotsTakenOver /\ {old, g} \cap (Ascii \cup elsewhere) = {} THEN BOOLEAN
      ELSE {FALSE}

(* putchar_graphic: after the wrap that was due, the cell is dirty if it   *)
(* changed.                                                                *)
Wraps == scr.cur.hang
WrapScrolls == Wraps /\ scr.cur.y + 1 > scr.btm
PutAt == IF Wraps THEN [y |-> IF WrapScrolls THEN scr.btm ELSE scr.cur.y + 1, x |-> 0]
         ELSE [y |-> scr.cur.y, x |-> scr.cur.x]

(* Mutant of Stay: only the symbol is compared.                            *)
StaySymbol(s, p, pen, same) == same

(* Does the cell stay as it was?                                           *)
Stay(s, p, pen, same) ==
  same /\ [s.cells[p] EXCEPT !.sym = pen.sym] = pen

PutChar(pen) ==
  LET s == IF WrapScrolls THEN RowsMoved(scr, scr.top, scr.btm, 1, pen) ELSE scr
      d == IF WrapScrolls THEN ExpandRows(dirty, scr, scr.top, scr.btm) ELSE dirty
      p == At(scr, PutAt.y, PutAt.x)
      new == [s EXCEPT !.cells[p] = pen,
                       !.cur = [y |-> PutAt.y, x |-> Lower(PutAt.x + 1, scr.w - 1),
                                hang |-> PutAt.x + 1 >= scr.w]]
      scrolled == IF WrapScrolls THEN {"part", "double"} ELSE {}
  IN  /\ Uses("put")
      /\ \E same \in SameSymbol(s, p, pen.sym) :
           IF Stay(s, p, pen, same) THEN Done(new, d, {"cursor"} \cup scrolled)
           ELSE Done(new, Expand(d, PutAt.y, PutAt.y, PutAt.x, PutAt.x),
                     {"cursor", "part"} \cup scrolled)

(* screen_cursor_set *)
Go(y, x) ==
  /\ Uses("go")
  /\ Done([scr EXCEPT !.cur = [y |-> y, x |-> x, hang |-> FALSE]], dirty, {"cursor"})

(* screen_cursor_move by one line, scrolling.                              *)
Index(n) ==
  LET y == scr.cur.y + n
      to == Upper(0, Lower(y, scr.h - 1))
      inside == scr.cur.y \in scr.top..scr.btm
      scrolls == inside /\ y \notin scr.top..scr.btm
      hang == scr.cur.hang /\ scr.cur.x = scr.w - 1
  IN  /\ Uses("scroll")
      /\ IF scrolls
         THEN \E pen \in Pens :
                EditRows([RowsMoved(scr, scr.top, scr.btm, n, pen) EXCEPT !.cur.hang = hang],
                         {"cursor", "part", "double"}, scr.top, scr.btm)
         ELSE Done([scr EXCEPT !.cur.y = to, !.cur.hang = hang], dirty, {"cursor"})

(* screen_scroll_up, or down for n < 0.                                    *)
Scroll(n, pen) ==
  /\ Uses("scroll")
  /\ EditRows(RowsMoved(scr, scr.top, scr.btm, n, pen), {"part", "double"}, scr.top, scr.btm)

(* screen_insert_lines: where some lines are left, the new ones keep the   *)
(* attributes of those they push down.                                     *)
InsertLines(n, pen) ==
  LET c == scr.cur
      kept == IF c.y + n > scr.btm THEN {} ELSE c.y..(c.y + n - 1)
  IN  /\ Uses("lines")
      /\ c.y \in scr.top..scr.btm
      /\ EditRows([RowsMoved(scr, c.y, scr.btm, -n, pen) EXCEPT
                    !.line = [y \in DOMAIN @ |-> IF y \in kept THEN scr.line[y] ELSE @[y]]],
                  {"part", "double"}, c.y, scr.btm)

(* screen_delete_lines: with only one line left to move, that line is      *)
(* cleared as well.                                                        *)
DeleteLines(n, pen) ==
  LET c == scr.cur
      by == IF scr.btm - n <= c.y THEN scr.btm - c.y + 1 ELSE n
  IN  /\ Uses("lines")
      /\ c.y \in scr.top..scr.btm
      /\ EditRows(RowsMoved(scr, c.y, scr.btm, by, pen), {"part", "double"}, c.y, scr.btm)

(* screen_delete_characters, or insert_characters for n < 0.               *)
Chars(n, pen) ==
  /\ Uses("chars")
  /\ Edit(CharsMoved(scr, n, pen), {"part"}, scr.cur.y, scr.cur.y, scr.cur.x, scr.w - 1)

(* screen_clear *)
ClearAll(pen) ==
  /\ Uses("clear")
  /\ Done(FillRows(NoAttrs(scr, 0, Rows - 1), 0, scr.h - 1, pen), dirty, {"all", "double"})

ClearFromCursor(pen) ==
  LET c == scr.cur
  IN  /\ Uses("clear")
      /\ EditRows(NoAttrs(Fill(scr, At(scr, c.y, c.x), At(scr, scr.h, 0) - 1, pen), c.y, Rows - 1),
                  {"part", "double"}, c.y, scr.h - 1)

ClearToCursor(pen) ==
  LET c == scr.cur
  IN  /\ Uses("clear")
      /\ EditRows(NoAttrs(Fill(scr, 0, At(scr, c.y, c.x), pen), 0, c.y),
                  {"part", "double"}, 0, c.y)

(* screen_clear_line from column a to b; and in_line, for some cells.      *)
ClearInLine(a, b, pen) ==
  /\ Uses("clearline")
  /\ Edit(Fill(scr, At(scr, scr.cur.y, a), At(scr, scr.cur.y, b), pen), {"part"},
          scr.cur.y, scr.cur.y, a, b)

ClearLine(pen) ==
  \/ ClearInLine(0, scr.w - 1, pen)
  \/ ClearInLine(scr.cur.x, scr.w - 1, pen)
  \/ ClearInLine(0, scr.cur.x, pen)
  \/ \E n \in Counts : ClearInLine(scr.cur.x, Lower(scr.cur.x + n - 1, scr.w - 1), pen)

(* screen_reset_do without size and labels, then E everywhere.             *)
FillWithE ==
  /\ Uses("clear")
  /\ Done([NoAttrs(scr, 0, Rows - 1) EXCEPT
             !.cells = [p \in DOMAIN @ |-> [Blank EXCEPT !.sym = "E"]],
             !.cur = Home, !.top = 0, !.btm = scr.h - 1],
          dirty, {"all", "opts", "cursor", "double"})

Screen(size, text) ==
  [h |-> size[1], w |-> size[2], cells |-> [p \in 0..(size[1] * size[2] - 1) |-> Blank],
   cur |-> Home, text |-> text, line |-> NoLines, top |-> 0, btm |-> size[1] - 1]

(* screen_resize resets all but the texts.                                 *)
Resize(size) ==
  /\ Uses("resize")
  /\ size # <<scr.h, scr.w>>
  /\ Active # {} \/ ResizesUnwatched
  /\ Done(Screen(size, scr.text), dirty, {"opts", "all", "cursor", "double"})

(* Another setting or text, told in its topic; the settings page tells all.*)
Set(f) ==
  /\ Uses("set")
  /\ \E topics \in {{f}, TOPIC_INITIAL} :
       Done([scr EXCEPT !.text[f] = 1 - @], dirty, topics)

SetLineAttr ==
  /\ Uses("lines")
  /\ Done([scr EXCEPT !.line[scr.cur.y] = 1 - @], dirty, {"double"})

(* send_beep and TOPIC_INTERNAL: nothing to show.                          *)
Beep ==
  /\ Uses("set")
  /\ \E t \in {"bell", "internal"} : Done(scr, dirty, {t})

HostStep ==
  \/ \E pen \in Pens : PutChar(pen)
  \/ \E y \in 0..(scr.h - 1), x \in 0..(scr.w - 1) : Go(y, x)
  \/ \E n \in {-1, 1} : Index(n)
  \/ \E n \in Counts, way \in {-1, 1}, pen \in Pens :
       Scroll(way * n, pen) \/ Chars(way * n, pen)
  \/ \E n \in Counts, pen \in Pens : InsertLines(n, pen) \/ DeleteLines(n, pen)
  \/ \E pen \in Pens :
       ClearAll(pen) \/ ClearFromCursor(pen) \/ ClearToCursor(pen) \/ ClearLine(pen)
  \/ FillWithE
  \/ \E size \in Sizes : Resize(size)
  \/ \E f \in Fields : Set(f)
  \/ SetLineAttr
  \/ Beep

-----------------------------------------------------------------------------

Init ==
  /\ \E h \in Hosts :
       /\ host = [uses |-> h.uses, tout |-> h.tout, left |-> h.left]
       /\ scr \in h.screens
  /\ dirty = [y0 |-> 0, y1 |-> 0, x0 |-> 0, x1 |-> 0]
  /\ pending = {}
  /\ scheduled = FALSE
  /\ timers = {}
  /\ client = [c \in Clients |-> [is |-> "off", came |-> 0]]
  /\ view = [c \in Clients |-> Nothing]
  /\ busy = {}

Next ==
  \/ HostStep
  \/ Update
  \/ CooldownOver
  \/ Heartbeat
  \/ \E c \in Clients : Connect(c) \/ Load(c) \/ Close(c) \/ Deliver(c)

(* The part of Update that only it does.                                   *)
UpdateRuns ==
  /\ "update" \in timers
  /\ ~Postponed
  /\ timers' = (timers \ {"update"}) \cup {"cooldown", "heartbeat"}

(* Timers run; what was sent is received, or the connection is closed.     *)
Fairness ==
  /\ WF_timers(UpdateRuns)
  /\ WF_vars(CooldownOver)
  /\ \A c \in Clients : WF_vars(Deliver(c))

Spec == Init /\ [][Next]_vars /\ Fairness

-----------------------------------------------------------------------------
(* Properties.                                                             *)

(* The smaller buffers, as many as there may be, hold every cell.          *)
CutsFit ==
  \A s \in Sizes, len \in CutAt : MaxCellLen * (s[1] * s[2]) <= MaxChunks * (len - Reserve)

(* What is pending is enough: if the update were sent now, every browser   *)
(* that loaded the page would show the screen as it is.  With nothing      *)
(* pending they show it already (expand_dirty, screen_notifyChange).       *)
UpdateSuffices ==
  \A c \in Loaded : Received(view[c], Message(scr, dirty, pending)) = Picture(scr)

(* Whatever is cut into however many buffers, all cells but the last one   *)
(* of the section arrive (screenSerializeToBuffer).                        *)
CutsKeepCells ==
  host.uses = {} /\ Active = {} => \A len \in CutAt, r \in RectsOn(scr.h, scr.w) :
    LET old == [p \in DOMAIN scr.cells |-> NoCell]
        got == Paint(old, Section(scr.cells, r, scr.w, len, len), scr.w)
        inside(p) == p \div scr.w \in r.y0..r.y1 /\ p % scr.w \in r.x0..r.x1
    IN  \A p \in DOMAIN scr.cells \ {Final(r, scr.w)} :
          got[p] = IF inside(p) THEN Shown(scr.cells[p]) ELSE old[p]

(* A browser that stays connected shows the screen as it is once the host  *)
(* is quiet, however the updates were postponed (updateNotifyCb).          *)
Settles ==
  \A c \in Clients : client[c].is = "loaded" ~>
    (client[c].is = "off" \/ (pending = {} /\ view[c] = Picture(scr)))
=============================================================================

------------------------------ MODULE Terminal ------------------------------
(* The terminal grid of the event-driven hosts: a program draws cells from   *)
(* its key handler, on the one thread that also runs the views, the window   *)
(* changes its size between handlers, and what is on the glass is meant to   *)
(* change only at a flush.  Three implementations of one contract: the       *)
(* browser (tui-shim.ts), iOS (TerminalState.swift), Android                 *)
(* (TerminalState.kt); the C files in front of them only forward.            *)
EXTENDS Integers, FiniteSets, Functions

CONSTANTS
    Hosts,      \* of "web", "ios", "android"
    Sizes,      \* of the window: << rows, columns >>
    Default,    \* the size before the first layout
    Cell,       \* a character with its style
    MaxOps,     \* bound: calls in one event
    MaxEvents,  \* bound: keys and window changes
    BLANK

ASSUME TerminalAssumption ==
    /\ Hosts \subseteq {"web", "ios", "android"}
    /\ Sizes \subseteq (Nat \ {0}) \X (Nat \ {0}) /\ Default \in Sizes
    /\ MaxOps \in Nat

VARIABLES
    host,
    window,     \* the size that fits the view
    dims,       \* the size of the grid, as rows and cols of the host say
    seen,       \* TUI.Rows and TUI.Cols of the program
    cells,      \* the pending grid: << row, column >> -> cell
    lines,      \* browser: the rows that have an array; the others are holes
    displayed,  \* what the view shows
    cursor,
    dirty,      \* browser: something has been drawn
    resizeQueued, \* a callback for a changed window is due
    handler,    \* a key handler is registered
    mode,       \* "off", "running" (the program has the thread) or "idle"
    calls,      \* calls left to the running event
    redraw,     \* the running event is Ctrl-L, and TUI.Resize not yet called
    inString,   \* browser: write_str has drawn a part of its string
    events,     \* counter
    drew,       \* history: calls that draw since the last flush
    flushed,    \* history: the grid at the last flush
    broken      \* history: what clearing a row ahead of the others has led to

vars == <<host, window, dims, seen, cells, lines, displayed, cursor, dirty,
          resizeQueued, handler, mode, calls, redraw, inString, events, drew, flushed,
          broken>>

Rect(d) == (0 .. d[1] - 1) \X (0 .. d[2] - 1)
Blank(d) == [x \in Rect(d) |-> BLANK]

(* What a view draws of a grid: the rows it has, and of each row the cells   *)
(* that are not blank. *)
View(g, d) == Restrict(g, { x \in DOMAIN g : x[1] < d[1] /\ g[x] # BLANK })

Within(x, n) == IF x < 0 THEN 0 ELSE IF x < n THEN x ELSE n - 1

(* The cursor kept inside. *)
Clamp(c, d) == << Within(c[1], d[1]), Within(c[2], d[2]) >>

Running == mode = "running"

Init == /\ host \in Hosts /\ window \in Sizes
        /\ dims = Default /\ seen = << 0, 0 >>
        /\ cells = (IF host = "web" THEN << >> ELSE Blank(dims)) /\ lines = {}
        /\ displayed = View(cells, dims) /\ flushed = displayed
        /\ cursor = << 0, 0 >> /\ dirty = FALSE
        /\ resizeQueued = (host # "web") /\ handler = FALSE
        /\ mode = "off" /\ calls = 0 /\ redraw = FALSE /\ events = 0 /\ drew = FALSE
        /\ inString = FALSE /\ broken = {}

--------------------------------------------------------------------------
(* Calls of the program. *)

Step == /\ Running /\ calls > 0
        /\ calls' = calls - 1
        /\ UNCHANGED <<host, window, mode, events>>

Call == Step /\ ~inString /\ UNCHANGED inString

(* One character, or one of a string that has `more`: the browser marks a    *)
(* string as drawn when it has come to its end.                              *)
Put(more) == /\ Step /\ (more => host = "web" /\ calls > 1)
             /\ inString' = more
             /\ dirty' = (dirty \/ ~more)

(* A grid that is shown as it is. *)
Show(g, d) == /\ displayed' = View(g, d) /\ flushed' = View(g, d) /\ drew' = FALSE

(* On Android the rows shown are the rows drawn on. *)
Draw(g, l) ==
    /\ cells' = g /\ lines' = l
    /\ displayed' = IF host = "android" THEN View(g, dims) ELSE displayed
    /\ drew' = TRUE
    /\ UNCHANGED <<dims, seen, resizeQueued, handler, redraw, flushed>>

(* cells.push([]) until there is a row r; a hole below the last row stays.   *)
Pushed(r) == { k \in 0 .. r : \A l \in lines : l < k }
Hole(r)   == host = "web" /\ r \notin lines \cup Pushed(r)

(* tuiRows and tuiCols; the browser measures again. *)
refresh_dims == /\ dims' = IF host = "web" THEN window ELSE dims
                /\ seen' = dims'

TUI_Init ==
    /\ Call /\ refresh_dims
    /\ cells' = (IF host = "web" THEN << >> ELSE Blank(dims)) /\ lines' = {}
    /\ Show(cells', dims')
    /\ cursor' = << 0, 0 >> /\ dirty' = FALSE
    /\ broken' = {}
    /\ UNCHANGED <<resizeQueued, handler, redraw>>

(* The one that answers Ctrl-L does not count. *)
TUI_Resize == /\ Running /\ ~inString /\ (redraw \/ calls > 0)
              /\ calls' = IF redraw THEN calls ELSE calls - 1
              /\ refresh_dims
              /\ redraw' = FALSE
              /\ broken' = broken \ {"size"}
              /\ UNCHANGED <<host, window, mode, events, cells, lines, displayed, cursor, dirty,
                             resizeQueued, handler, inString, drew, flushed>>

Clear == /\ Call
         /\ Draw(IF host = "web" THEN << >> ELSE Blank(dims), {})
         /\ cursor' = << 0, 0 >>
         /\ dirty' = TRUE
         /\ broken' = broken \ {"row"}

\* What ClearLine and its mutant share.  cells[curRow] = [] puts the row where
\* it is told to, and rows that are not there yet below it become holes.
ClearedLine ==
    LET row == cursor[1]
    IN  /\ Call
        /\ IF row >= dims[1] THEN Draw(cells, lines) /\ UNCHANGED broken
           ELSE IF host # "web"
           THEN /\ Draw([x \in DOMAIN cells |-> IF x[1] = row THEN BLANK ELSE cells[x]], lines)
                /\ UNCHANGED broken
           ELSE /\ Draw(Restrict(cells, { x \in DOMAIN cells : x[1] # row }), lines \cup {row})
                /\ broken' = IF Pushed(row - 1) # {} THEN broken \cup {"row"} ELSE broken
        /\ UNCHANGED cursor

(* A mutant: the line is cleared without a note that something was drawn. *)
ClearLineClean == ClearedLine /\ UNCHANGED dirty

ClearLine == ClearedLine /\ dirty' = TRUE

MoveTo(c) == /\ Call /\ Draw(cells, lines)
             /\ cursor' = Clamp(c, dims)
             /\ dirty' = TRUE
             /\ UNCHANGED broken

(* Showing or hiding the cursor counts as drawing. *)
ShowCursor == Call /\ Draw(cells, lines) /\ dirty' = TRUE /\ UNCHANGED <<cursor, broken>>

(* A mutant: a cell wherever the cursor is. *)
CellAnywhere(c) == c

(* The cell that a write goes to. *)
ensureCell(c) == Clamp(c, dims)

(* The cursor stops at the right margin, in the browser one behind it. *)
Write(cell, more) ==
    /\ Put(more)
    /\ LET at == ensureCell(cursor)
           row == IF host = "web" THEN { << at[1], k >> : k \in 0 .. at[2] } ELSE {}
       IN /\ ~Hole(at[1])
          /\ Draw([x \in DOMAIN cells \cup row |->
                     IF x = at THEN cell
                     ELSE IF x \in DOMAIN cells THEN cells[x] ELSE BLANK],
                  IF host = "web" THEN lines \cup Pushed(at[1]) ELSE lines)
    /\ cursor' = IF host = "web" THEN << cursor[1], cursor[2] + 1 >>
                 ELSE Clamp(<< cursor[1], cursor[2] + 1 >>, dims)
    /\ UNCHANGED broken

(* row.length of a hole throws, and the exception ends the event: what is    *)
(* drawn of the string is not marked, what the handler had to do is not done. *)
WriteThrows ==
    /\ Running /\ calls > 0
    /\ Hole(ensureCell(cursor)[1])
    /\ mode' = "idle" /\ calls' = 0 /\ redraw' = FALSE /\ inString' = FALSE
    /\ broken' = broken \cup (IF redraw THEN {"size"} ELSE {})
                         \cup (IF inString /\ ~dirty THEN {"frame"} ELSE {})
    /\ UNCHANGED <<host, window, dims, seen, cells, lines, displayed, cursor, dirty,
                   resizeQueued, handler, events, drew, flushed>>

(* A line feed in a string; the browser lets the row run on. *)
LineFeed(more) ==
    /\ Put(more) /\ Draw(cells, lines)
    /\ cursor' = IF host = "web" THEN << cursor[1] + 1, 0 >>
                 ELSE Clamp(<< cursor[1] + 1, 0 >>, dims)
    /\ UNCHANGED broken

(* Also the whole of ReadKey: its queue stays empty, since every key goes to *)
(* oc_dispatch_key. *)
Flush ==
    LET render == host = "web" => dirty
    IN  /\ Call
        /\ displayed' = IF render THEN View(cells, dims) ELSE displayed
        /\ broken' = IF render THEN broken \ {"frame"} ELSE broken
        /\ dirty' = FALSE
        /\ flushed' = IF drew THEN View(cells, dims) ELSE flushed
        /\ drew' = FALSE
        /\ UNCHANGED <<dims, seen, cells, lines, cursor, resizeQueued, handler, redraw>>

SetKeyHandler == /\ Call /\ ~handler /\ handler' = TRUE
                 /\ UNCHANGED <<dims, seen, cells, lines, displayed, cursor, dirty,
                                resizeQueued, redraw, drew, flushed, broken>>

Quit == /\ Call /\ handler /\ handler' = FALSE
        /\ UNCHANGED <<dims, seen, cells, lines, displayed, cursor, dirty,
                       resizeQueued, redraw, drew, flushed, broken>>

(* The handler returns; that of Ctrl-L has called TUI.Resize by then, as the *)
(* hosts expect of an editor. *)
Return == /\ Running /\ ~redraw /\ ~inString
          /\ mode' = "idle" /\ calls' = 0
          /\ UNCHANGED <<host, window, dims, seen, cells, lines, displayed, cursor, dirty,
                         resizeQueued, handler, redraw, inString, events, drew, flushed, broken>>

--------------------------------------------------------------------------
(* Events.  Nothing else runs while the program does. *)

Run == mode' = "running" /\ calls' = MaxOps

(* oc_dispatch_key: without a handler nothing happens. *)
Dispatch(ctrlL) == IF handler THEN Run /\ redraw' = ctrlL
                   ELSE UNCHANGED <<mode, calls, redraw>>

(* The page starts the program when it is loaded. *)
Load == /\ mode = "off" /\ host = "web"
        /\ Run
        /\ UNCHANGED <<host, window, dims, seen, cells, lines, displayed, cursor, dirty,
                       resizeQueued, handler, redraw, inString, events, drew, flushed, broken>>

KeyDown == /\ mode = "idle" /\ events < MaxEvents
           /\ events' = events + 1
           /\ Dispatch(FALSE)
           /\ UNCHANGED <<host, window, dims, seen, cells, lines, displayed, cursor, dirty,
                          resizeQueued, handler, inString, drew, flushed, broken>>

(* The window changes; the callback comes later, once for several changes. *)
Window(d) ==
    /\ ~Running /\ d # window /\ events < MaxEvents
    /\ window' = d /\ events' = events + 1
    /\ resizeQueued' = TRUE
    /\ UNCHANGED <<host, dims, seen, cells, lines, displayed, cursor, dirty, handler,
                   mode, calls, redraw, inString, drew, flushed, broken>>

(* Cells that still fit survive; nothing happens when the size is the same. *)
resize(d) ==
    IF d = dims THEN UNCHANGED <<dims, cells, displayed, flushed, drew, cursor>>
    ELSE LET g == [x \in Rect(d) |-> IF x \in DOMAIN cells THEN cells[x] ELSE BLANK]
         IN /\ dims' = d /\ cells' = g /\ Show(g, d)
            /\ cursor' = Clamp(cursor, d)

(* The callback of the views: a first size with more than one row and column *)
(* starts the program (on iOS a Ctrl-L may follow), a later one wakes it.    *)
Layout ==
    /\ ~Running /\ host # "web" /\ resizeQueued
    /\ resize(window)
    /\ \/ /\ mode = "off" /\ window[1] > 1 /\ window[2] > 1
          /\ Run /\ UNCHANGED redraw
          /\ resizeQueued' \in (IF host = "ios" THEN BOOLEAN ELSE {FALSE})
       \/ /\ mode = "off" /\ (window[1] = 1 \/ window[2] = 1)
          /\ resizeQueued' = FALSE
          /\ UNCHANGED <<mode, calls, redraw>>
       \/ /\ mode = "idle"
          /\ resizeQueued' = FALSE
          /\ Dispatch(TRUE)
    /\ UNCHANGED <<host, window, seen, lines, dirty, handler, inString, events, broken>>

(* A mutant: the callback sends a key that no program redraws for. *)
FrameOtherKey == /\ ~Running /\ host = "web" /\ resizeQueued
                 /\ resizeQueued' = FALSE
                 /\ Dispatch(FALSE)
                 /\ UNCHANGED <<host, window, dims, seen, cells, lines, displayed, cursor,
                                dirty, handler, inString, events, drew, flushed, broken>>

(* The frame callback of the browser. *)
Frame == /\ ~Running /\ host = "web" /\ resizeQueued
         /\ resizeQueued' = FALSE
         /\ Dispatch(TRUE)
         /\ UNCHANGED <<host, window, dims, seen, cells, lines, displayed, cursor, dirty,
                        handler, inString, events, drew, flushed, broken>>

Program == \/ TUI_Init \/ TUI_Resize \/ Clear \/ ClearLine \/ ShowCursor \/ Flush
           \/ WriteThrows \/ \E more \in BOOLEAN : LineFeed(more)
           \/ \E c \in (UNION { Rect(d) : d \in Sizes }) \cup { << -1, -1 >> } : MoveTo(c)
           \/ \E cell \in Cell, more \in BOOLEAN : Write(cell, more)
           \/ SetKeyHandler \/ Quit \/ Return

Next == Program \/ Load \/ KeyDown \/ Frame \/ Layout \/ \E d \in Sizes : Window(d)

StringEnds == /\ inString
              /\ WriteThrows \/ LineFeed(FALSE) \/ \E cell \in Cell : Write(cell, FALSE)

(* A handler returns, a string comes to its end, a callback that is due      *)
(* comes, and TUI.Resize is called in answer to Ctrl-L. *)
Fairness == WF_vars(Return) /\ WF_vars(StringEnds) /\ WF_vars(Frame) /\ WF_vars(Layout)
            /\ WF_vars(redraw /\ TUI_Resize)

Spec == Init /\ [][Next]_vars /\ Fairness
--------------------------------------------------------------------------
(* "The two-buffer scheme avoids partial-frame flicker during a multi-call   *)
(* redraw": what is shown is the grid of the last flush, and all of it       *)
(* (flush, reset, resize; render).  Not on Android, where the rows are       *)
(* shared; and in the browser not after a string that broke off at a hole,   *)
(* until something else is drawn and flushed. *)
FrameKept == host # "android" /\ "frame" \notin broken => displayed = flushed

(* No cell outside the grid, whatever the cursor and the sizes were: clear   *)
(* and resize index every cell of the size, and cells that accumulate behind *)
(* the margin would make the page grow (ensureCell, resize).  In the browser *)
(* every row is an array that a write can go to, unless a row ahead of the   *)
(* others was cleared since the last Clear or Init. *)
CellsInGrid ==
    IF host = "web"
    THEN /\ \A x \in DOMAIN cells : x[1] \in lines /\ \E d \in Sizes : x \in Rect(d)
         /\ \A l \in lines : \E d \in Sizes : l < d[1]
         /\ "row" \notin broken => \A l \in lines : 0 .. l \subseteq lines
    ELSE DOMAIN cells = Rect(dims) /\ cursor \in Rect(dims)

(* A program with the screen and a handler gets to know every change of the  *)
(* window, as long as it keeps the handler, no window follows and its answer *)
(* to Ctrl-L is not broken off at a hole before it asks for the size         *)
(* (scheduleResize, onChange, LaunchedEffect). *)
SizeSeen == \A d \in Sizes :
                (window = d /\ handler /\ seen \in Sizes)
                    ~> (seen = d \/ window # d \/ ~handler \/ "size" \in broken)

(* "The TUI contract gives callers a fixed grid": a write has a cell to go   *)
(* to.  In the browser it may meet a hole. *)
WritesLand == Running => ~Hole(ensureCell(cursor)[1])
=============================================================================

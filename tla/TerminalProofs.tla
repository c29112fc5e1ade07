--------------------------- MODULE TerminalProofs ---------------------------
(* The grid never grows past the window and the glass never shows a frame    *)
(* half drawn, whatever the windows, the cursor positions and the calls.     *)
EXTENDS Terminal, TLAPS

\* Where the cursor is asked to go, and where it can be.
Cursor == Int \X Int
Place  == Nat \X Nat

(* Sizes are those of windows, and a cell of the grid is in one of them: the *)
(* invariant behind CellsInGrid. *)
GridInv ==
    /\ host \in Hosts /\ window \in Sizes /\ dims \in Sizes
    /\ cursor \in Place /\ lines \subseteq Nat
    /\ CellsInGrid

(* What the program drew since the last flush is noted; without it a flush   *)
(* shows what was flushed before.  In the browser the view is made again only *)
(* when dirty says so, on the others at every flush.  What is drawn of a      *)
(* string that is not over is noted and not marked yet. *)
FrameInv ==
    /\ dirty \in BOOLEAN /\ drew \in BOOLEAN /\ inString \in BOOLEAN
    /\ host = "web" => /\ dirty => drew
                       /\ drew /\ ~dirty => inString \/ "frame" \in broken
    /\ host # "web" => ~inString /\ (~drew => View(cells, dims) = flushed)
    /\ FrameKept

-----------------------------------------------------------------------------
(* Clamp and Rect. *)

LEMMA SizeFacts ==
    ASSUME NEW d \in Sizes
    PROVE  /\ d[1] \in Nat /\ d[1] > 0 /\ d[2] \in Nat /\ d[2] > 0
           /\ << 0, 0 >> \in Rect(d)
  <1>1. d \in (Nat \ {0}) \X (Nat \ {0})
    BY TerminalAssumption
  <1>2. d[1] \in Nat /\ d[1] > 0 /\ d[2] \in Nat /\ d[2] > 0
    BY <1>1
  <1>3. 0 \in 0 .. d[1] - 1 /\ 0 \in 0 .. d[2] - 1
    BY <1>2
  <1> QED
    BY <1>2, <1>3 DEF Rect

(* Within brings any number into range. *)
LEMMA WithinFacts ==
    ASSUME NEW x \in Int, NEW n \in Nat, n > 0
    PROVE  Within(x, n) \in 0 .. n - 1
  BY DEF Within

(* Clamp brings any position into the grid. *)
LEMMA ClampFacts ==
    ASSUME NEW c \in Cursor, NEW d \in Sizes
    PROVE  /\ Clamp(c, d) \in Rect(d) /\ Clamp(c, d) \in Place
           /\ Clamp(c, d)[1] \in 0 .. d[1] - 1 /\ Clamp(c, d)[2] \in 0 .. d[2] - 1
  <1>1. c[1] \in Int /\ c[2] \in Int
    BY DEF Cursor
  <1>2. Within(c[1], d[1]) \in 0 .. d[1] - 1 /\ Within(c[2], d[2]) \in 0 .. d[2] - 1
    BY <1>1, SizeFacts, WithinFacts
  <1> QED
    BY <1>2, SizeFacts DEF Clamp, Rect, Place

LEMMA RectCursor ==
    ASSUME NEW d \in Sizes, NEW c \in Rect(d)
    PROVE  c \in Cursor
  BY SizeFacts DEF Rect, Cursor

(* The row up to a cell of the grid lies in the grid. *)
LEMMA RowFacts ==
    ASSUME NEW d \in Sizes, NEW c \in Cursor
    PROVE  \A k \in 0 .. Clamp(c, d)[2] : << Clamp(c, d)[1], k >> \in Rect(d)
  <1> DEFINE a == Clamp(c, d)
  <1>1. a[1] \in 0 .. d[1] - 1 /\ a[2] \in 0 .. d[2] - 1 /\ d[2] \in Nat
    BY ClampFacts, SizeFacts
  <1> HIDE DEF a
  <1>2. \A k \in 0 .. a[2] : k \in 0 .. d[2] - 1
    BY <1>1
  <1> QED
    BY <1>1, <1>2 DEF Rect, a

-----------------------------------------------------------------------------
(* The grid. *)

\* A row that is in a size of the window.
RowIn(l) == \E d \in Sizes : l < d[1]

\* A grid with the same cells, and a grid of the browser.
LEMMA SameGrid ==
    ASSUME GridInv, UNCHANGED <<host, window, dims, lines>>, cursor' \in Place,
           DOMAIN cells' = DOMAIN cells, host # "web" => cursor' \in Rect(dims),
           "row" \in broken => "row" \in broken'
    PROVE  GridInv'
  BY DEF GridInv, CellsInGrid

LEMMA WebGrid ==
    ASSUME GridInv, UNCHANGED <<host, window>>, host = "web", dims' \in Sizes,
           cursor' \in Place, lines' \subseteq Nat,
           \A x \in DOMAIN cells' : x[1] \in lines' /\ \E d \in Sizes : x \in Rect(d),
           \A l \in lines' : RowIn(l),
           "row" \notin broken' => \A l \in lines' : 0 .. l \subseteq lines'
    PROVE  GridInv'
  BY DEF GridInv, CellsInGrid, RowIn

LEMMA GridFacts ==
    ASSUME GridInv
    PROVE  /\ host # "web" => DOMAIN cells = Rect(dims) /\ cursor \in Rect(dims)
           /\ host = "web" =>
                 /\ \A x \in DOMAIN cells : x[1] \in lines /\ \E d \in Sizes : x \in Rect(d)
                 /\ \A l \in lines : RowIn(l)
                 /\ "row" \notin broken => \A l \in lines : 0 .. l \subseteq lines
           /\ window \in Sizes /\ dims \in Sizes /\ lines \subseteq Nat
           /\ cursor \in Place /\ cursor \in Cursor /\ cursor[1] \in Nat /\ cursor[2] \in Nat
  <1>1. cursor \in Place /\ window \in Sizes /\ dims \in Sizes /\ lines \subseteq Nat
    BY DEF GridInv
  <1>2. cursor \in Cursor /\ cursor[1] \in Nat /\ cursor[2] \in Nat
    BY <1>1 DEF Cursor, Place
  <1> QED
    BY <1>1, <1>2 DEF GridInv, CellsInGrid, RowIn

\* Calls that draw nothing.
LEMMA GridStill ==
    ASSUME GridInv, UNCHANGED <<host, window, dims, cells, lines, cursor>>,
           "row" \in broken => "row" \in broken'
    PROVE  GridInv'
  BY DEF GridInv, CellsInGrid

\* Rows are pushed up to the one that is wanted.
LEMMA PushedFacts ==
    ASSUME GridInv, host = "web", NEW r \in 0 .. dims[1] - 1
    PROVE  /\ lines \cup Pushed(r) \subseteq Nat
           /\ \A l \in lines \cup Pushed(r) : RowIn(l)
           /\ "row" \notin broken =>
                 \A l \in lines \cup Pushed(r) : 0 .. l \subseteq lines \cup Pushed(r)
  <1>1. dims \in Sizes /\ dims[1] \in Nat /\ r \in Nat /\ r < dims[1]
    BY GridFacts, SizeFacts
  <1>2. \A l \in Pushed(r) : l \in Nat /\ l <= r
    BY <1>1 DEF Pushed
  <1>3. \A l \in Pushed(r) : l < dims[1]
    BY <1>1, <1>2
  <1>4. ASSUME "row" \notin broken, NEW l \in Pushed(r), NEW k \in 0 .. l
        PROVE  k \in lines \cup Pushed(r)
    <2>1. k \in 0 .. r /\ k \in Nat
      BY <1>1, <1>2
    <2>2. CASE \A j \in lines : j < k
      BY <2>1, <2>2 DEF Pushed
    <2>3. CASE \E j \in lines : ~(j < k)
      <3>1. PICK j \in lines : ~(j < k)
        BY <2>3
      <3>2. j \in Nat /\ k \in 0 .. j
        BY <2>1, <3>1, GridFacts
      <3> QED
        BY <1>4, <3>2, GridFacts
    <2> QED
      BY <2>2, <2>3
  <1> QED
    BY <1>1, <1>2, <1>3, <1>4, GridFacts DEF RowIn

\* A row that is put where it is told to, none being missing below it.
LEMMA AheadFacts ==
    ASSUME GridInv, host = "web", NEW r \in Nat, r < dims[1]
    PROVE  /\ lines \cup {r} \subseteq Nat
           /\ \A l \in lines \cup {r} : RowIn(l)
           /\ "row" \notin broken /\ Pushed(r - 1) = {} =>
                 \A l \in lines \cup {r} : 0 .. l \subseteq lines \cup {r}
  <1>1. dims \in Sizes
    BY GridFacts
  <1>2. ASSUME "row" \notin broken, Pushed(r - 1) = {}, NEW k \in 0 .. r
        PROVE  k \in lines \cup {r}
    <2>1. CASE k = r
      BY <2>1
    <2>2. CASE k # r
      <3>1. k \in 0 .. r - 1 /\ k \in Nat
        BY <2>2
      <3>2. PICK j \in lines : ~(j < k)
        BY <1>2, <3>1 DEF Pushed
      <3>3. j \in Nat /\ k \in 0 .. j
        BY <3>1, <3>2, GridFacts
      <3> QED
        BY <1>2, <3>3, GridFacts
    <2> QED
      BY <2>1, <2>2
  <1> QED
    BY <1>1, <1>2, GridFacts DEF RowIn

LEMMA GridProgram ==
    ASSUME GridInv, Program
    PROVE  GridInv'
  <1>1. CASE TUI_Init
    <2>1. /\ UNCHANGED <<host, window>> /\ cursor' = << 0, 0 >> /\ lines' = {}
          /\ dims' = IF host = "web" THEN window ELSE dims
          /\ cells' = IF host = "web" THEN << >> ELSE Blank(dims)
      BY <1>1 DEF TUI_Init, Call, Step, refresh_dims
    <2>2. dims' \in Sizes /\ << 0, 0 >> \in Rect(dims') /\ << 0, 0 >> \in Place
      BY <2>1, SizeFacts DEF GridInv, Place
    <2>3. CASE host = "web"
      <3>1. DOMAIN cells' = {}
        BY <2>1, <2>3
      <3> QED
        BY <2>1, <2>2, <2>3, <3>1, WebGrid
    <2>4. CASE host # "web"
      BY <2>1, <2>2, <2>4 DEF GridInv, CellsInGrid, Blank
    <2> QED
      BY <2>3, <2>4
  <1>2. CASE TUI_Resize
    <2>1. /\ UNCHANGED <<host, window, cells, lines, cursor>>
          /\ dims' = IF host = "web" THEN window ELSE dims
          /\ "row" \in broken => "row" \in broken'
      BY <1>2 DEF TUI_Resize, refresh_dims
    <2> QED
      BY <2>1 DEF GridInv, CellsInGrid
  <1>3. CASE Clear
    <2>1. /\ UNCHANGED <<host, window, dims>> /\ cursor' = << 0, 0 >> /\ lines' = {}
          /\ cells' = IF host = "web" THEN << >> ELSE Blank(dims)
      BY <1>3 DEF Clear, Call, Step, Draw
    <2>2. dims \in Sizes /\ << 0, 0 >> \in Rect(dims) /\ << 0, 0 >> \in Place
      BY SizeFacts DEF GridInv, Place
    <2>3. CASE host # "web"
      BY <2>1, <2>2, <2>3 DEF Blank, GridInv, CellsInGrid
    <2>4. CASE host = "web"
      <3>1. DOMAIN cells' = {}
        BY <2>1, <2>4
      <3> QED
        BY <2>1, <2>2, <2>4, <3>1, WebGrid
    <2> QED
      BY <2>3, <2>4
  <1>4. CASE ClearLine
    <2> DEFINE row == cursor[1]
    <2>1. ClearedLine /\ UNCHANGED <<host, window, dims, cursor>>
      BY <1>4 DEF ClearLine, ClearedLine, Call, Step, Draw
    <2>2. CASE row >= dims[1] \/ host # "web"
      <3>1. DOMAIN cells' = DOMAIN cells /\ lines' = lines /\ broken' = broken
        BY <2>1, <2>2 DEF ClearedLine, Draw
      <3> QED
        BY <2>1, <3>1, GridFacts, SameGrid
    <2>3. CASE row < dims[1] /\ host = "web" /\ row \in Nat
      <3>1. /\ \A x \in DOMAIN cells' : x \in DOMAIN cells
            /\ lines' = lines \cup {row}
            /\ broken' = IF Pushed(row - 1) # {} THEN broken \cup {"row"} ELSE broken
        <4>1. dims[1] \in Nat
          BY GridFacts, SizeFacts
        <4> QED
          BY <2>1, <2>3, <4>1 DEF ClearedLine, Draw, Restrict
      <3>2. "row" \notin broken' => "row" \notin broken /\ Pushed(row - 1) = {}
        BY <3>1
      <3>3. /\ lines' \subseteq Nat /\ \A l \in lines' : RowIn(l)
            /\ "row" \notin broken' => \A l \in lines' : 0 .. l \subseteq lines'
        BY <2>3, <3>1, <3>2, AheadFacts
      <3>4. \A x \in DOMAIN cells' : x[1] \in lines' /\ \E d \in Sizes : x \in Rect(d)
        BY <2>3, <3>1, GridFacts
      <3> QED
        BY <2>1, <2>3, <3>3, <3>4, GridFacts, WebGrid
    <2> QED
      BY <2>2, <2>3, GridFacts, SizeFacts DEF GridInv
  <1>5. CASE \E c \in (UNION { Rect(d) : d \in Sizes }) \cup { << -1, -1 >> } : MoveTo(c)
    <2>1. PICK c \in (UNION { Rect(d) : d \in Sizes }) \cup { << -1, -1 >> } : MoveTo(c)
      BY <1>5
    <2>2. c \in Cursor
      <3>1. CASE \E d \in Sizes : c \in Rect(d)
        BY <3>1, RectCursor
      <3>2. CASE c = << -1, -1 >>
        <4>1. -1 \in Int
          OBVIOUS
        <4>2. \A x, y \in Int : << x, y >> \in Cursor
          BY DEF Cursor
        <4> QED
          BY <3>2, <4>1, <4>2
      <3> QED
        BY <2>1, <3>1, <3>2
    <2>3. cursor' \in Rect(dims) /\ cursor' \in Place
      BY <2>1, <2>2, ClampFacts, GridFacts DEF MoveTo
    <2>4. UNCHANGED <<host, window, dims, cells, lines, broken>>
      BY <2>1 DEF MoveTo, Call, Step, Draw
    <2> QED
      BY <2>3, <2>4, SameGrid
  <1>6. CASE ShowCursor
    BY <1>6, GridStill DEF ShowCursor, Call, Step, Draw
  <1>7. CASE WriteThrows
    BY <1>7, GridStill DEF WriteThrows
  <1>8. CASE \E cell \in Cell, more \in BOOLEAN : Write(cell, more)
    <2>1. PICK cell \in Cell, more \in BOOLEAN : Write(cell, more)
      BY <1>8
    <2> DEFINE at == ensureCell(cursor)
               row == IF host = "web" THEN { << at[1], k >> : k \in 0 .. at[2] } ELSE {}
               next == << cursor[1], cursor[2] + 1 >>
    <2>2. /\ UNCHANGED <<host, window, dims, broken>> /\ DOMAIN cells' = DOMAIN cells \cup row
          /\ cursor' = IF host = "web" THEN next ELSE Clamp(next, dims)
          /\ lines' = IF host = "web" THEN lines \cup Pushed(at[1]) ELSE lines
          /\ ~Hole(at[1])
      BY <2>1 DEF Write, Put, Step, Draw
    <2>3. next \in Cursor /\ next \in Place
      BY GridFacts DEF Cursor, Place
    <2>4. cursor' \in Place /\ (host # "web" => cursor' \in Rect(dims))
      BY <2>2, <2>3, ClampFacts, GridFacts
    <2>5. at[1] \in 0 .. dims[1] - 1 /\ \A x \in row : x \in Rect(dims) /\ x[1] = at[1]
      BY RowFacts, ClampFacts, GridFacts DEF ensureCell
    <2>6. CASE host # "web"
      BY <2>2, <2>4, <2>6, SameGrid
    <2>7. CASE host = "web"
      <3>1. at[1] \in lines'
        BY <2>2, <2>7 DEF Hole
      <3>2. \A x \in DOMAIN cells' : x[1] \in lines' /\ \E d \in Sizes : x \in Rect(d)
        <4> HIDE DEF row, at
        <4> QED
          BY <2>2, <2>5, <2>7, <3>1, GridFacts
      <3>3. /\ lines' \subseteq Nat /\ \A l \in lines' : RowIn(l)
            /\ "row" \notin broken' => \A l \in lines' : 0 .. l \subseteq lines'
        <4> HIDE DEF at
        <4> QED
          BY <2>2, <2>5, <2>7, PushedFacts
      <3> QED
        BY <2>2, <2>4, <2>7, <3>2, <3>3, GridFacts, WebGrid
    <2> QED
      BY <2>6, <2>7
  <1>9. CASE \E more \in BOOLEAN : LineFeed(more)
    <2> DEFINE next == << cursor[1] + 1, 0 >>
    <2>1. /\ UNCHANGED <<host, window, dims, cells, lines, broken>>
          /\ cursor' = IF host = "web" THEN next ELSE Clamp(next, dims)
      BY <1>9 DEF LineFeed, Put, Step, Draw
    <2>2. next \in Cursor /\ next \in Place
      BY GridFacts DEF Cursor, Place
    <2>3. cursor' \in Place /\ (host # "web" => cursor' \in Rect(dims))
      BY <2>1, <2>2, ClampFacts, GridFacts
    <2> QED
      BY <2>1, <2>3, SameGrid
  <1>10. CASE Flush
    BY <1>10, GridStill DEF Flush, Call, Step
  <1>11. CASE SetKeyHandler \/ Quit \/ Return
    BY <1>11, GridStill DEF SetKeyHandler, Quit, Return, Call, Step
  <1> QED
    BY <1>1, <1>2, <1>3, <1>4, <1>5, <1>6, <1>7, <1>8, <1>9, <1>10, <1>11 DEF Program

(* A new size: the cells outside it go, the cursor comes inside. *)
LEMMA GridResize ==
    ASSUME GridInv, NEW d \in Sizes, resize(d), UNCHANGED <<host, window, lines, broken>>, host # "web"
    PROVE  GridInv'
  <1>1. CASE d = dims
    BY <1>1, GridStill DEF resize
  <1>2. CASE d # dims
    <2>1. /\ dims' = d /\ DOMAIN cells' = Rect(d) /\ cursor' = Clamp(cursor, d)
      BY <1>2 DEF resize
    <2>2. cursor' \in Rect(d) /\ cursor' \in Place
      BY <2>1, ClampFacts, GridFacts
    <2> QED
      BY <2>1, <2>2 DEF GridInv, CellsInGrid
  <1> QED
    BY <1>1, <1>2

LEMMA GridEvents ==
    ASSUME GridInv, Load \/ KeyDown \/ Frame \/ Layout \/ \E d \in Sizes : Window(d)
    PROVE  GridInv'
  <1>1. CASE Load \/ KeyDown \/ Frame
    BY <1>1, GridStill DEF Load, KeyDown, Frame
  <1>2. CASE Layout
    BY <1>2, GridResize DEF Layout, GridInv
  <1>3. CASE \E d \in Sizes : Window(d)
    BY <1>3 DEF Window, GridInv, CellsInGrid
  <1> QED
    BY <1>1, <1>2, <1>3

(* After any sequence of calls, window changes, callbacks and exceptions: in  *)
(* the browser no row and no cell lies outside the sizes the window had, and  *)
(* no row is a hole unless a row ahead of the others was cleared; on iOS and  *)
(* Android the grid is exactly its size with the cursor inside. *)
THEOREM GridStaysInside == Spec => []CellsInGrid
  <1>1. Init => GridInv
    <2> SUFFICES ASSUME Init PROVE GridInv
      OBVIOUS
    <2>1. /\ host \in Hosts /\ window \in Sizes /\ dims = Default /\ Default \in Sizes
          /\ cells = (IF host = "web" THEN << >> ELSE Blank(dims)) /\ cursor = << 0, 0 >>
          /\ lines = {}
      BY TerminalAssumption DEF Init
    <2>2. << 0, 0 >> \in Rect(dims) /\ << 0, 0 >> \in Place
      BY <2>1, SizeFacts DEF Place
    <2>3. host = "web" => DOMAIN cells = {}
      BY <2>1
    <2>4. host # "web" => DOMAIN cells = Rect(dims)
      BY <2>1 DEF Blank
    <2> QED
      BY <2>1, <2>2, <2>3, <2>4 DEF GridInv, CellsInGrid
  <1>2. GridInv /\ [Next]_vars => GridInv'
    <2>1. CASE UNCHANGED vars
      BY <2>1, GridStill DEF vars
    <2> QED
      BY <2>1, GridProgram, GridEvents DEF Next
  <1>3. GridInv => CellsInGrid
    BY DEF GridInv
  <1> QED
    BY <1>1, <1>2, <1>3, PTL DEF Spec

-----------------------------------------------------------------------------
(* The glass. *)

\* A call that draws leaves a note, in dirty if it is over.
LEMMA DrawFrame ==
    ASSUME FrameInv, NEW g, NEW l, Draw(g, l), UNCHANGED host,
           inString' \in BOOLEAN, host # "web" => ~inString',
           dirty' = (dirty \/ ~inString'), "frame" \in broken => "frame" \in broken'
    PROVE  FrameInv'
  BY DEF FrameInv, FrameKept, Draw

\* A grid is shown whole.
LEMMA ShowFrame ==
    ASSUME FrameInv, UNCHANGED <<host, inString>>, Show(cells', dims'),
           dirty' \in BOOLEAN, host = "web" => dirty' = FALSE
    PROVE  FrameInv'
  BY DEF FrameInv, FrameKept, Show

\* Nothing is drawn; only the browser's size may change.
LEMMA FrameStill ==
    ASSUME FrameInv, UNCHANGED <<host, cells, displayed, flushed, drew, dirty, inString>>,
           host = "web" \/ dims' = dims, "frame" \in broken => "frame" \in broken'
    PROVE  FrameInv'
  <1>1. host # "web" => View(cells', dims') = View(cells, dims)
    OBVIOUS
  <1> QED
    BY <1>1 DEF FrameInv, FrameKept

LEMMA FrameProgram ==
    ASSUME FrameInv, Program
    PROVE  FrameInv'
  <1>1. CASE TUI_Init
    BY <1>1, ShowFrame DEF TUI_Init, Call, Step
  <1>2. CASE TUI_Resize
    <2>1. host = "web" \/ dims' = dims
      BY <1>2 DEF TUI_Resize, refresh_dims
    <2> QED
      BY <1>2, <2>1, FrameStill DEF TUI_Resize
  <1>3. CASE \/ Clear \/ ClearLine \/ ShowCursor
             \/ \E c \in (UNION { Rect(d) : d \in Sizes }) \cup { << -1, -1 >> } : MoveTo(c)
    <2>1. /\ dirty' = TRUE /\ UNCHANGED <<host, inString>> /\ ~inString
          /\ \E g, l : Draw(g, l)
          /\ "frame" \in broken => "frame" \in broken'
      BY <1>3 DEF Clear, ClearLine, ClearedLine, ShowCursor, MoveTo, Call, Step
    <2>2. PICK g, l : Draw(g, l)
      BY <2>1
    <2>3. /\ dirty' = (dirty \/ ~inString') /\ host' = host
          /\ inString' \in BOOLEAN /\ (host # "web" => ~inString')
      BY <2>1 DEF FrameInv
    <2> QED
      BY <2>1, <2>2, <2>3, DrawFrame
  <1>4. CASE \/ \E cell \in Cell, more \in BOOLEAN : Write(cell, more)
             \/ \E more \in BOOLEAN : LineFeed(more)
    <2>1. /\ \E more \in BOOLEAN : Put(more)
          /\ \E g, l : Draw(g, l)
          /\ broken' = broken
      BY <1>4 DEF Write, LineFeed
    <2>2. /\ inString' \in BOOLEAN /\ (host # "web" => ~inString') /\ host' = host
          /\ dirty' = (dirty \/ ~inString')
      BY <2>1 DEF Put, Step
    <2>3. PICK g, l : Draw(g, l)
      BY <2>1
    <2> QED
      BY <2>1, <2>2, <2>3, DrawFrame
  <1>5. CASE WriteThrows
    <2>1. /\ UNCHANGED <<host, dims, cells, displayed, flushed, drew, dirty>> /\ inString' = FALSE
          /\ "frame" \in broken => "frame" \in broken'
          /\ inString /\ ~dirty => "frame" \in broken'
          /\ host = "web"
      BY <1>5 DEF WriteThrows, Hole
    <2> QED
      BY <2>1 DEF FrameInv, FrameKept
  <1>6. CASE Flush
    <2> DEFINE render == host = "web" => dirty
    <2>1. /\ UNCHANGED <<host, cells, dims, inString>> /\ ~inString
          /\ dirty' = FALSE /\ drew' = FALSE
          /\ displayed' = IF render THEN View(cells, dims) ELSE displayed
          /\ flushed' = IF drew THEN View(cells, dims) ELSE flushed
          /\ broken' = IF render THEN broken \ {"frame"} ELSE broken
      BY <1>6 DEF Flush, Call, Step
    <2>2. View(cells', dims') = View(cells, dims)
      BY <2>1
    <2> HIDE DEF View
    <2>3. CASE host = "web"
      <3>1. CASE dirty
        BY <2>1, <2>2, <2>3, <3>1 DEF FrameInv, FrameKept
      <3>2. CASE ~dirty
        BY <2>1, <2>2, <2>3, <3>2 DEF FrameInv, FrameKept
      <3> QED
        BY <3>1, <3>2
    <2>4. CASE host # "web"
      BY <2>1, <2>2, <2>4 DEF FrameInv, FrameKept
    <2> QED
      BY <2>3, <2>4
  <1>7. CASE SetKeyHandler \/ Quit \/ Return
    BY <1>7, FrameStill DEF SetKeyHandler, Quit, Return, Call, Step
  <1> QED
    BY <1>1, <1>2, <1>3, <1>4, <1>5, <1>6, <1>7 DEF Program

\* A new size is shown at once.
LEMMA FrameResize ==
    ASSUME FrameInv, NEW d, resize(d), UNCHANGED <<host, dirty, inString, broken>>, host # "web"
    PROVE  FrameInv'
  <1>1. CASE d = dims
    BY <1>1, FrameStill DEF resize
  <1>2. CASE d # dims
    <2>1. Show(cells', dims')
      BY <1>2 DEF resize
    <2> QED
      BY <2>1, ShowFrame DEF FrameInv
  <1> QED
    BY <1>1, <1>2

LEMMA FrameEvents ==
    ASSUME FrameInv, Load \/ KeyDown \/ Frame \/ Layout \/ \E d \in Sizes : Window(d)
    PROVE  FrameInv'
  <1>1. CASE Load \/ KeyDown \/ Frame \/ \E d \in Sizes : Window(d)
    BY <1>1, FrameStill DEF Load, KeyDown, Frame, Window
  <1>2. CASE Layout
    BY <1>2, FrameResize DEF Layout
  <1> QED
    BY <1>1, <1>2

(* In the browser and on iOS what is shown is the grid of the last flush,    *)
(* all of it, until the next one or a new size; in the browser not between a *)
(* string that broke off and the next frame that is rendered. *)
THEOREM WholeFrames == Spec => []FrameKept
  <1>1. Init => FrameInv
    BY DEF Init, FrameInv, FrameKept
  <1>2. FrameInv /\ [Next]_vars => FrameInv'
    <2>1. CASE UNCHANGED vars
      BY <2>1, FrameStill DEF vars
    <2> QED
      BY <2>1, FrameProgram, FrameEvents DEF Next
  <1>3. FrameInv => FrameKept
    BY DEF FrameInv
  <1> QED
    BY <1>1, <1>2, <1>3, PTL DEF Spec
=============================================================================

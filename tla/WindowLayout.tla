---------------------------- MODULE WindowLayout ----------------------------
(***************************************************************************)
(* The window and its children: where gui/layout.rs puts each control for  *)
(* a client area and a scaling, which of them gui/render.rs shows, which   *)
(* way gui/direction.rs makes each of them read, what window.rs outlines,  *)
(* and which control has the keyboard.                                     *)
(***************************************************************************)
EXTENDS Integers, FiniteSets, TLC

CONSTANTS
    Dpis,                                   \* scalings of the monitors
    Sizes,                                  \* window sizes, at 100 %
    Desktops,                               \* work areas, at 100 %
    FrameWidth, FrameHeight, MenuHeight,    \* what Windows takes of them
    ComboHeight                             \* what Windows makes of a combobox

BaseDpi == 96
DesignWidth == 1040
DesignHeight == 576

LayoutAssumption ==
    /\ \A dpi \in Dpis : dpi \in Nat /\ dpi >= BaseDpi
    /\ Sizes \subseteq Nat \X Nat /\ <<DesignWidth, DesignHeight>> \in Sizes
    /\ Desktops \subseteq Nat \X Nat
    /\ {FrameWidth, FrameHeight, MenuHeight, ComboHeight} \subseteq Nat

VARIABLES
    size, dpi, menu,   \* of the window: at 100 %, scaling, whether it has a menu
    desktop,           \* the work area of its monitor, at 100 %
    laid,              \* last_layout: the geometry the layout was computed for
    placed,            \* the geometry and direction the controls stand in
    direction,         \* layout_direction
    ex, alignment,     \* direction styles of every window
    language, tab, source, running,
    shown,             \* the visible controls
    focus

geometryVars == <<size, dpi, menu, desktop>>
layoutVars == <<laid, placed>>
styleVars == <<direction, ex, alignment>>
content == <<language, tab, source, running>>
vars == <<geometryVars, layoutVars, styleVars, content, shown, focus>>

Languages == {"Russian", "English", "Arabic", "Persian"}
DirectionOf(l) == IF l \in {"Arabic", "Persian"} THEN "RightToLeft" ELSE "LeftToRight"

Never == <<0 - 1, 0 - 1, 0 - 1>>

-----------------------------------------------------------------------------
(* The controls.                                                           *)

HeaderControls == {"brand_badge", "title", "subtitle", "language_label", "language", "tabs"}

InstallationControls ==
    {"source_panel", "source_title", "source_hint", "source_link", "source_file",
     "input_label", "input", "file_path", "source_action", "clear_file",
     "drop_overlay", "app_card", "region_panel", "current_region_label",
     "current_region", "temporary_region_label", "temporary_region",
     "find_region", "check_remaining", "show_all_regions",
     "availability_status", "status", "install", "restore",
     "open_store_page", "details"}

JournalControls ==
    {"journal_list", "journal_details", "journal_open_store", "journal_repeat",
     "journal_delete", "journal_clear", "journal_copy_id"}

UpdatesControls == {"updates_list", "updates_details", "updates_refresh", "updates_open"}

Controls == HeaderControls \cup InstallationControls \cup JournalControls
                \cup UpdatesControls \cup {"progress", "tab_content"}

\* The areas the window outlines, and those created without a border.
FramedControls == {"tab_content", "journal_details", "source_panel", "file_path",
                   "app_card", "region_panel", "current_region", "status", "drop_overlay"}
Borderless == {"tab_content", "journal_details", "updates_details", "source_panel",
               "file_path", "app_card", "region_panel", "current_region", "status",
               "drop_overlay"}

Panels == {"source_panel", "region_panel", "drop_overlay"}
TextBoxes == {"input", "journal_details", "updates_details", "app_card", "status"}
ReadsLeftToRight == {"brand_badge", "input", "file_path"}

\* The window, its children, and the headings of the two tables.
Handles == Controls \cup {"window", "journal_headings", "updates_headings"}

-----------------------------------------------------------------------------
(* The arithmetic of one layout. A geometry is a client width, a client    *)
(* height and a scaling; a place is left, top, width, height.              *)

At(x, y, w, h) == [x |-> x, y |-> y, w |-> w, h |-> h]
AtLeast(a, b) == IF a >= b THEN a ELSE b
AtMost(a, b) == IF a <= b THEN a ELSE b
Scaled(value, d) == (value * d) \div BaseDpi

Client(s, d, hasMenu) ==
    << AtLeast(Scaled(s[1], d) - Scaled(FrameWidth, d), 0),
       AtLeast(Scaled(s[2], d)
                   - Scaled(FrameHeight + (IF hasMenu THEN MenuHeight ELSE 0), d), 0),
       d >>

\* The commands sit on the bottom edge, the status box takes what is left.
VerticalFlow(g) ==
    LET S(value) == Scaled(value, g[3])
        panelTop == S(70) + S(30) + S(10)
        commands == AtLeast(g[2] - S(20) - S(34), panelTop)
        region == panelTop + S(164) + S(10)
        status == region + S(110) + S(10)
        progress == AtLeast(commands - S(10) - S(16), status)
    IN  [tabs |-> S(70), panelTop |-> panelTop, region |-> region,
         status |-> status,
         statusHeight |-> AtLeast(progress - S(10) - status, S(40)),
         progress |-> progress, commands |-> commands, button |-> S(34)]

ContentWidth(g) == AtLeast(g[1] - 2 * Scaled(20, g[3]), Scaled(320, g[3]))

ColumnWidth(g) ==
    AtLeast((AtLeast(ContentWidth(g) - 2 * Scaled(16, g[3]), Scaled(280, g[3]))
                 - Scaled(12, g[3])) \div 2,
            Scaled(150, g[3]))

Header(g) ==
    LET S(value) == Scaled(value, g[3])
        language_x == AtLeast(g[1] - S(20) - S(180), S(20))
        text_x == S(20) + S(60)
        text_width == AtLeast(language_x - S(72) - text_x, S(220))
    IN  "brand_badge" :> At(S(20), S(14), S(44), S(44))
        @@ "title" :> At(text_x, S(14), text_width, S(24))
        @@ "subtitle" :> At(text_x, S(40), text_width, S(20))
        @@ "language_label" :> At(language_x - S(96) - S(8), S(22), S(96), S(20))
        @@ "language" :> At(language_x, S(18), S(180), S(26))
        @@ "tabs" :> At(S(20), S(70), ContentWidth(g), S(30))

\* The Journal and the Updates tab share one split.
Tables(g) ==
    LET S(value) == Scaled(value, g[3])
        flow == VerticalFlow(g)
        width == ContentWidth(g)
        area == AtLeast(flow.commands - S(10) - flow.panelTop, S(200))
        height == AtLeast((area * 3) \div 5, S(120))
        below == flow.panelTop + height + S(8)
        rest(least) == AtLeast(flow.commands - S(10) - below, S(least))
        updates == AtLeast((width - S(8)) \div 4, S(140))
        journal == AtLeast((width - 4 * S(8)) \div 5, S(110))
        Button(index, w) == At(S(20) + index * (w + S(8)), flow.commands, w, flow.button)
    IN  "journal_list" :> At(S(20), flow.panelTop, width, height)
        @@ "journal_details" :> At(S(20), below, width, rest(120))
        @@ "updates_list" :> At(S(20), flow.panelTop, width, height)
        @@ "updates_details" :> At(S(20), below, width, rest(80))
        @@ "updates_refresh" :> Button(0, updates)
        @@ "updates_open" :> Button(1, updates)
        @@ "journal_open_store" :> Button(0, journal)
        @@ "journal_repeat" :> Button(1, journal)
        @@ "journal_copy_id" :> Button(2, journal)
        @@ "journal_delete" :> Button(3, journal)
        @@ "journal_clear" :> Button(4, journal)
        @@ "tab_content" :> At(S(20), flow.panelTop, width,
                               AtLeast(flow.commands - S(10) - flow.panelTop, S(120)))

SourcePanel(g) ==
    LET S(value) == Scaled(value, g[3])
        flow == VerticalFlow(g)
        left == S(20) + S(16)
        column == ColumnWidth(g)
        top == flow.panelTop + S(16)
        hint == top + S(20) + S(4)
        sources == hint + S(32) + S(4)
        choice == AtLeast((column - S(8)) \div 2, S(110))
        label == sources + S(24) + S(4)
        field == label + S(20) + S(2)
    IN  "source_panel" :> At(S(20), flow.panelTop, ContentWidth(g), S(164))
        @@ "drop_overlay" :> At(S(20), flow.panelTop, ContentWidth(g), S(164))
        @@ "source_title" :> At(left, top, column, S(20))
        @@ "source_hint" :> At(left, hint, column, S(32))
        @@ "source_link" :> At(left, sources, choice, S(24))
        @@ "source_file" :> At(left + choice + S(8), sources, choice, S(24))
        @@ "input_label" :> At(left, label, column, S(20))
        @@ "input" :> At(left, field, AtLeast(column - S(120) - S(8), S(120)), S(26))
        @@ "file_path" :> At(left, field,
                             AtLeast(column - S(120) - S(78) - 2 * S(8), S(80)), S(26))
        @@ "clear_file" :> At(left + column - S(120) - S(78) - S(8), field, S(78), S(26))
        @@ "source_action" :> At(left + column - S(120), field, S(120), S(26))
        @@ "app_card" :> At(left + column + S(12), top, column, S(164) - 2 * S(16))

\* The field beside it takes the height Windows gives the box.
RegionPanel(g) ==
    LET S(value) == Scaled(value, g[3])
        flow == VerticalFlow(g)
        left == S(20) + S(16)
        column == ColumnWidth(g)
        right == left + column + S(12)
        label == flow.region + S(12)
        field == label + S(20) + S(2)
        combo == S(ComboHeight)
        row == field + combo + S(8)
        find == AtLeast((column * 13) \div 20, S(180))
        all == AtLeast((column * 2) \div 5, S(140))
    IN  "region_panel" :> At(S(20), flow.region, ContentWidth(g), S(110))
        @@ "current_region_label" :> At(left, label, column, S(20))
        @@ "temporary_region_label" :> At(right, label, column, S(20))
        @@ "temporary_region" :> At(right, field, column, combo)
        @@ "current_region" :> At(left, field, column, combo)
        @@ "find_region" :> At(left, row, find, S(26))
        @@ "check_remaining" :> At(left + find + S(8), row,
                                   AtLeast(column - find - S(8), S(120)), S(26))
        @@ "show_all_regions" :> At(right, row, all, S(26))
        @@ "availability_status" :> At(right + all + S(8), row,
                                       AtLeast(column - all - S(8), S(120)), S(32))

CommandRow(g) ==
    LET S(value) == Scaled(value, g[3])
        flow == VerticalFlow(g)
        Button(x, w) == At(x, flow.commands, w, flow.button)
    IN  "install" :> Button(S(20), S(180))
        @@ "restore" :> Button(S(20) + S(180) + S(8), S(300))
        @@ "open_store_page" :> Button(S(20) + S(180) + S(300) + 2 * S(8), S(200))
        @@ "details" :> Button(AtLeast(g[1] - S(20) - S(170), S(20)), S(170))
        @@ "status" :> At(S(20), flow.status, ContentWidth(g), flow.statusHeight)
        @@ "progress" :> At(S(20), flow.progress, ContentWidth(g), S(16))

Places(g) == Header(g) @@ Tables(g) @@ SourcePanel(g) @@ RegionPanel(g) @@ CommandRow(g)

-----------------------------------------------------------------------------
(* What a render shows.                                                    *)

LinkControls == {"input_label", "input"}
FileControls == {"file_path", "clear_file"}

OfTab(t) ==
    CASE t = "Installation" -> InstallationControls
      [] t = "Journal" -> JournalControls
      [] t = "Updates" -> UpdatesControls

\* With the file's controls or the link's, and never the overlay.
Hidden(t, s) ==
    {"tab_content"} \cup
    (IF t # "Installation" THEN {}
     ELSE {"drop_overlay"} \cup (IF s = "link" THEN FileControls ELSE LinkControls))

Visible(t, s, r) ==
    (HeaderControls \cup OfTab(t) \cup (IF r THEN {"progress"} ELSE {})) \ Hidden(t, s)

\* Windows hands the keyboard of a control that is hidden to the window.
KeyboardAfter(f, visible) == IF f \in visible THEN f ELSE "window"

-----------------------------------------------------------------------------
(* Which way a window reads.                                               *)

Mirroring == {"layout", "right", "rtlreading", "leftscrollbar"}

MirroredExStyle(current, mirrored) ==
    IF mirrored THEN current \cup {"layout"} ELSE current \ Mirroring

AlignedStyle(mirrored) == IF mirrored THEN "right" ELSE "left"

\* A text box spends the request on what it means for a box of text.
Spent(h, style) ==
    IF h \in TextBoxes /\ "layout" \in style
    THEN (style \ {"layout"}) \cup (Mirroring \ {"layout"})
    ELSE style

ExAfter(mirrored) ==
    [h \in Handles |->
        Spent(h, MirroredExStyle(ex[h], mirrored /\ h \notin ReadsLeftToRight))]

AlignmentAfter(mirrored) ==
    [h \in Handles |-> IF h \in TextBoxes
                       THEN AlignedStyle(mirrored /\ h \notin ReadsLeftToRight)
                       ELSE alignment[h]]

-----------------------------------------------------------------------------
(* Laying out, and the render that ends in it.                             *)

\* For the geometry the window has after the step, unless it is the cached
\* one.
LayoutControls(cached) ==
    LET geometry == Client(size', dpi', menu') IN
    /\ laid' = geometry
    /\ placed' = IF cached = geometry THEN placed ELSE <<geometry, direction'>>

TrustsTheCache(wanted) ==   \* mutated
    /\ direction' = wanted
    /\ LayoutControls(laid)
    /\ ex' = IF direction = wanted THEN ex ELSE ExAfter(wanted = "RightToLeft")
    /\ alignment' = IF direction = wanted THEN alignment
                    ELSE AlignmentAfter(wanted = "RightToLeft")

\* The window turns around and everything moves before a control is told.
ApplyInterfaceDirection(wanted) ==
    IF direction = wanted
    THEN /\ UNCHANGED styleVars
         /\ LayoutControls(laid)
    ELSE /\ direction' = wanted
         /\ LayoutControls(Never)
         /\ ex' = ExAfter(wanted = "RightToLeft")
         /\ alignment' = AlignmentAfter(wanted = "RightToLeft")

\* The content after the step, drawn.
Render ==
    /\ shown' = Visible(tab', source', running')
    /\ ApplyInterfaceDirection(DirectionOf(language'))

\* WM_SIZE: the window moves its children and draws nothing else.
Sized ==
    /\ UNCHANGED <<styleVars, content, shown, focus>>
    /\ LayoutControls(laid)

-----------------------------------------------------------------------------

\* WM_CREATE has created the controls and rendered once, without a menu.
Init ==
    /\ size = <<DesignWidth, DesignHeight>> /\ menu = FALSE
    /\ dpi \in Dpis /\ desktop \in Desktops
    /\ laid = Client(size, dpi, menu)
    /\ language \in Languages
    /\ direction = DirectionOf(language)
    /\ placed = <<laid, direction>>
    /\ ex = [h \in Handles |->
               IF direction = "RightToLeft" /\ h \notin ReadsLeftToRight
               THEN Spent(h, {"layout"}) ELSE {}]
    /\ alignment = [h \in Handles |->
               IF direction = "RightToLeft" /\ h \in TextBoxes \ ReadsLeftToRight
               THEN "right" ELSE "left"]
    /\ tab = "Installation" /\ source = "link" /\ running = FALSE
    /\ shown = Visible(tab, source, running)
    /\ focus = "window"

\* WM_GETMINMAXINFO: Windows asks it before every size the program gives.
Tracked(s) == <<AtLeast(s[1], DesignWidth), AtLeast(s[2], DesignHeight)>>

\* The menu, then the design size or what the desktop can show of it.
PlaceWindow ==
    /\ ~menu
    /\ menu' = TRUE
    /\ size' = Tracked(<<AtMost(DesignWidth, desktop[1]), AtMost(DesignHeight, desktop[2])>>)
    /\ UNCHANGED <<dpi, desktop>>
    /\ Sized

\* The user, or Windows, which may hand less than the least size.
Resize ==
    /\ menu
    /\ \E s \in Sizes \ {size} : size' = s
    /\ UNCHANGED <<dpi, menu, desktop>>
    /\ Sized

\* The window goes to a monitor of another scaling, at the suggested size.
DpiChanged ==
    /\ menu
    /\ \E d \in Dpis \ {dpi} : dpi' = d
    /\ UNCHANGED <<size, menu, desktop>>
    /\ Sized

SelectLanguage ==
    /\ menu
    /\ \E l \in Languages \ {language} : language' = l
    /\ UNCHANGED <<geometryVars, tab, source, running>>
    /\ Render
    /\ focus' = KeyboardAfter(focus, shown')

\* The first control of the tab that can take the keyboard gets it.
FirstControlOf(t) ==
    CASE t = "Installation" -> "source_link"
      [] t = "Journal" -> "journal_list"
      [] t = "Updates" -> "updates_list"

SelectTab(t) ==
    /\ menu /\ t # tab
    /\ tab' = t
    /\ UNCHANGED <<geometryVars, language, source, running>>
    /\ Render
    /\ focus' = FirstControlOf(t)

\* "Open" of an update and "Repeat" of an entry carry the product to the tab
\* that can install it.
OpenInInstallation ==
    /\ menu /\ tab # "Installation"
    /\ tab' = "Installation"
    /\ source' = "link"
    /\ UNCHANGED <<geometryVars, language, running>>
    /\ Render
    /\ focus' = KeyboardAfter(IF tab = "Updates" THEN "updates_open" ELSE "journal_repeat",
                              shown')

\* A radio button, a dropped file or a downloaded installer.
SelectSource ==
    /\ menu
    /\ \E s \in {"link", "file"} \ {source} : source' = s
    /\ UNCHANGED <<geometryVars, language, tab, running>>
    /\ Render
    /\ focus' = KeyboardAfter(focus, shown')

OperationRuns ==
    /\ menu
    /\ running' = ~running
    /\ UNCHANGED <<geometryVars, language, tab, source>>
    /\ Render
    /\ focus' = KeyboardAfter(focus, shown')

\* A file is dragged over the window, or leaves it again.
Drag ==
    /\ menu
    /\ shown' = IF "drop_overlay" \in shown THEN shown \ {"drop_overlay"}
                ELSE shown \cup {"drop_overlay"}
    /\ UNCHANGED <<geometryVars, layoutVars, styleVars, content, focus>>

\* The keyboard moves by Tab, an arrow or a click.
Focus(c) ==
    /\ menu /\ c \in shown /\ c # focus
    /\ focus' = c
    /\ UNCHANGED <<geometryVars, layoutVars, styleVars, content, shown>>

Next ==
    \/ PlaceWindow \/ Resize \/ DpiChanged
    \/ SelectLanguage \/ SelectSource \/ OperationRuns \/ Drag
    \/ \E t \in {"Installation", "Journal", "Updates"} : SelectTab(t)
    \/ OpenInInstallation
    \/ \E c \in {"input", "clear_file", "tabs"} : Focus(c)

Spec == Init /\ [][Next]_vars

-----------------------------------------------------------------------------
(* Properties.                                                             *)

TypeOK ==
    /\ size \in Sizes \cup {Tracked(d) : d \in Desktops} /\ dpi \in Dpis
    /\ menu \in BOOLEAN /\ desktop \in Desktops
    /\ laid \in Nat \X Nat \X Dpis
    /\ placed \in (Nat \X Nat \X Dpis) \X {"LeftToRight", "RightToLeft"}
    /\ direction \in {"LeftToRight", "RightToLeft"}
    /\ DOMAIN ex = Handles /\ \A h \in Handles : ex[h] \subseteq Mirroring
    /\ DOMAIN alignment = Handles /\ \A h \in Handles : alignment[h] \in {"left", "right"}
    /\ language \in Languages /\ tab \in {"Installation", "Journal", "Updates"}
    /\ source \in {"link", "file"} /\ running \in BOOLEAN
    /\ shown \subseteq Controls
    /\ focus \in Controls \cup {"window"}

\* Whatever was cached, every control stands where the present client area,
\* scaling and direction put it (layout.rs keeps the last geometry and moves
\* nothing when it is the same).
LayoutIsCurrent == placed = <<Client(size, dpi, menu), DirectionOf(language)>>

\* After any sequence of languages every window carries exactly the styles of
\* the one in force: those a text box was given when it was asked to mirror
\* are gone with it (direction.rs, mirrored_ex_style and aligned_style).
ReadsAsItsLanguage ==
    \A h \in Handles :
        LET turned == DirectionOf(language) = "RightToLeft" /\ h \notin ReadsLeftToRight IN
        /\ ex[h] = IF ~turned THEN {}
                   ELSE IF h \in TextBoxes THEN Mirroring \ {"layout"}
                   ELSE {"layout"}
        /\ alignment[h] = IF turned /\ h \in TextBoxes THEN "right" ELSE "left"

Disjoint(a, b) ==
    a.x + a.w <= b.x \/ b.x + b.w <= a.x \/ a.y + a.h <= b.y \/ b.y + b.h <= a.y

\* A panel holds its controls. The two lines of the title run on behind the
\* label of the language box, and the progress bar is StatusClearsProgress.
MayOverlap(a, b) ==
    \/ {a, b} \in {{"title", "language_label"}, {"subtitle", "language_label"}}
    \/ {a, b} \cap (Panels \cup {"progress"}) # {}

FullSize == size[1] >= DesignWidth /\ size[2] >= DesignHeight

\* In a window of at least the design size no visible control covers another
\* and none leaves the window, on any tab, at any scaling.
Apart ==
    FullSize =>
        LET places == Places(placed[1]) IN
        /\ \A a, b \in shown :
               a # b /\ ~MayOverlap(a, b) => Disjoint(places[a], places[b])
        /\ \A c \in shown : /\ places[c].x + places[c].w <= placed[1][1]
                            /\ places[c].y + places[c].h <= placed[1][2]

\* What lies in a panel by its coordinates lies in it whole.
Inside(a, b) ==
    /\ b.x <= a.x /\ a.x + a.w <= b.x + b.w
    /\ b.y <= a.y /\ a.y + a.h <= b.y + b.h

\* The outlines the window draws cross no control: each visible control is
\* inside a panel or clear of it (layout.rs:184, "Placing content at `margin`
\* too is what put every label and field on top of the panel outline").
PanelsHold ==
    FullSize =>
        LET places == Places(placed[1]) IN
        \A p \in {"source_panel", "region_panel"} \cap shown, c \in shown \ {"progress"} :
            p # c => Disjoint(places[p], places[c]) \/ Inside(places[c], places[p])

\* layout.rs:764, of the client area "the window has at its own minimum size":
\* "the status box runs into the progress bar".
StatusClearsProgress ==
    FullSize =>
        LET places == Places(placed[1]) IN Disjoint(places["status"], places["progress"])

\* controls.rs:688, of the children created without a border: "this list and
\* `create_framed_static` must stay in step: a box missing here simply has no
\* frame on screen".
FramedInStep == (shown \cap Borderless) \subseteq FramedControls

\* command.rs:893: "The previously focused control may now be hidden, which
\* would leave the window without a focus a keyboard user can move from."
KeyboardStays == [][focus # "window" => focus' # "window"]_vars

\* window.rs:278: "The design size in physical pixels, but never larger than
\* the desktop can actually show".
PlacedOnDesktop ==
    [][menu # menu' => size'[1] <= desktop[1] /\ size'[2] <= desktop[2]]_vars

=============================================================================

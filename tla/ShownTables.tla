---------------------------- MODULE ShownTables ----------------------------
(***************************************************************************)
(* The two tables of the window, the Journal's and the Updates', as the    *)
(* controls hold them and as the window's state holds them                 *)
(* (gui/render.rs, gui/journal.rs, gui/command.rs, gui/controls.rs).       *)
(*                                                                         *)
(* A table keeps the row the user picked on its own; a rebuilding forgets  *)
(* it. The window keeps an index and acts on the entry it stands for. The  *)
(* Updates table is rebuilt when its rows differ, the Journal's by every   *)
(* rendering.                                                              *)
(***************************************************************************)
EXTENDS Naturals, Sequences

CONSTANTS
    Languages,  \* the languages of the interface
    Found,      \* the lists a scan may end with
    Histories   \* the histories the journal file may hold

TablesAssumption ==
    /\ Languages # {}
    /\ <<>> \in Found /\ <<>> \in Histories
    /\ \A rows \in Found \cup Histories : rows \in Seq({rows[i] : i \in DOMAIN rows})

VARIABLES
    language,  \* the language of the interface
    tab,       \* the tab selected
    updates,   \* what the last scan says
    update,    \* selected_update_index, 0 for none
    table,     \* the Updates table
    journal,   \* the history as loaded
    entry,     \* selected_journal_index, 0 for none
    list,      \* the Journal table
    headings,  \* the language the headings of both are written in
    scanning,  \* a scan the window still listens to has not ended
    startup    \* the check at the start, which brings the last run's list

vars == <<language, tab, updates, update, table, journal, entry, list, headings,
          scanning, startup>>

scan == <<scanning, startup>>

Tabs == {"Installation", "Journal", "Updates"}

Views == [kind: {"Idle", "Scanning", "Unavailable", "Ready"}, rows: Found]

Journals == [kind: {"Loading", "Failed", "Ready"}, rows: Histories]

NoRows(kind) == [kind |-> kind, rows |-> <<>>]

Ready(rows) == [kind |-> "Ready", rows |-> rows]

\* A table as rebuilt: nothing selected, nothing focused.
Fresh(rows) == [rows |-> rows, selected |-> 0, focus |-> 0]

-----------------------------------------------------------------------------
(* Rendering.                                                              *)

\* The outcome of an entry is a word of the language.
JournalRow(e, lang) == <<e, lang>>

JournalRows(history, lang) ==
    [i \in DOMAIN history.rows |-> JournalRow(history.rows[i], lang)]

RebuildJournalList(shown) == list' = Fresh(JournalRows(journal', language'))

\* The hidden table is left alone.
RefreshUpdateTable(shown) ==
    table' = IF tab' = "Updates" /\ shown.rows # updates'.rows
             THEN Fresh(updates'.rows) ELSE shown

RefreshColumnHeadings == headings' = language'

\* "shownList" and "shownTable" are the tables as the user left them.
RenderOver(shownList, shownTable) ==
    /\ RebuildJournalList(shownList)
    /\ RefreshUpdateTable(shownTable)
    /\ RefreshColumnHeadings

Render == RenderOver(list, table)

SelectedUpdate == updates.kind = "Ready" /\ update \in DOMAIN updates.rows

SelectedEntry == journal.kind = "Ready" /\ entry \in DOMAIN journal.rows

UpdatesDetails ==
    IF updates.kind # "Ready" THEN updates.kind
    ELSE IF updates.rows = <<>> THEN "none"
    ELSE IF SelectedUpdate THEN "entry" ELSE "choose"

JournalDetails ==
    IF journal.kind # "Ready" THEN journal.kind
    ELSE IF SelectedEntry THEN "entry" ELSE "empty"

-----------------------------------------------------------------------------
(* The tables. A row picked notifies the window, which asks the table what *)
(* is selected.                                                            *)

Picked(shown, i) == [shown EXCEPT !.selected = i, !.focus = IF i = 0 THEN @ ELSE i]

\* With no row focused the first one is.
Below(shown) ==
    IF shown.focus < Len(shown.rows) THEN shown.focus + 1 ELSE shown.focus

\* A row, or the empty space under the rows when a row is selected.
Pickable(shown) ==
    DOMAIN shown.rows \cup IF shown.selected # 0 THEN {0} ELSE {}

JournalItemChanged(i) ==
    /\ entry' = IF journal.kind = "Ready" /\ i \in DOMAIN journal.rows THEN i ELSE 0
    /\ UNCHANGED <<scan, language, tab, updates, update, journal>>
    /\ RenderOver(Picked(list, i), table)

UpdatesItemChanged(i) ==
    /\ update' = i
    /\ UNCHANGED <<scan, language, tab, updates, journal, entry>>
    /\ RenderOver(list, Picked(table, i))

PickEntry ==
    /\ tab = "Journal"
    /\ \E i \in Pickable(list) : JournalItemChanged(i)

PickUpdate ==
    /\ tab = "Updates"
    /\ \E i \in Pickable(table) : UpdatesItemChanged(i)

ArrowDownJournal ==
    /\ tab = "Journal" /\ list.rows # <<>>
    /\ JournalItemChanged(Below(list))

ArrowDownUpdates ==
    /\ tab = "Updates" /\ table.rows # <<>>
    /\ UpdatesItemChanged(Below(table))

-----------------------------------------------------------------------------
(* The commands of the window.                                             *)

SelectTab ==
    /\ tab' \in Tabs \ {tab}
    /\ UNCHANGED <<scan, language, updates, update, journal, entry>>
    /\ Render

SelectLanguage ==
    /\ language' \in Languages \ {language}
    /\ UNCHANGED <<scan, tab, updates, update, journal, entry>>
    /\ Render

BeginUpdatesScan ==
    /\ tab = "Updates" /\ updates.kind # "Scanning"
    /\ updates' = NoRows("Scanning") /\ update' = 0 /\ scanning' = TRUE
    /\ UNCHANGED <<startup, language, tab, journal, entry>>
    /\ Render

\* A report of progress, or the end of the scan.
UpdatesScanned ==
    /\ scanning
    /\ updates' \in {NoRows("Scanning"), NoRows("Unavailable")}
                       \cup {Ready(rows) : rows \in Found}
    /\ scanning' = (updates'.kind = "Scanning")
    /\ update' = IF updates'.kind = "Ready" THEN update ELSE 0
    /\ UNCHANGED <<startup, language, tab, journal, entry>>
    /\ Render

\* The last run's list, if there is one: whatever the window shows by then.
StartupChecked ==
    /\ startup = "running"
    /\ updates' \in {updates} \cup {Ready(rows) : rows \in Found}
    /\ startup' = IF updates.kind = "Idle" \/ updates' = updates
                  THEN "done" ELSE "late"
    /\ UNCHANGED <<scanning, language, tab, update, journal, entry>>
    /\ Render

\* Deleting and clearing drop the history until it is read again.
ConfirmDelete ==
    /\ tab = "Journal" /\ SelectedEntry
    /\ journal' = NoRows("Loading") /\ entry' = 0
    /\ UNCHANGED <<scan, language, tab, updates, update>>
    /\ Render

ConfirmClear ==
    /\ tab = "Journal" /\ journal.kind = "Ready" /\ journal.rows # <<>>
    /\ journal' = NoRows("Loading") /\ entry' = 0
    /\ UNCHANGED <<scan, language, tab, updates, update>>
    /\ Render

\* Any thread that is done with the file posts what it holds.
JournalLoaded ==
    /\ journal' \in {NoRows("Failed")} \cup {Ready(rows) : rows \in Histories}
    /\ entry' = IF journal'.rows = <<>> THEN 0 ELSE 1
    /\ UNCHANGED <<scan, language, tab, updates, update>>
    /\ Render

-----------------------------------------------------------------------------
Init ==
    /\ language \in Languages
    /\ tab \in {"Installation", "Journal"}
    /\ updates = NoRows("Idle") /\ update = 0 /\ table = Fresh(<<>>)
    /\ journal = NoRows("Loading") /\ entry = 0 /\ list = Fresh(<<>>)
    /\ headings = language
    /\ scanning = FALSE /\ startup = "running"

Next ==
    \/ PickEntry \/ PickUpdate \/ ArrowDownJournal \/ ArrowDownUpdates
    \/ SelectTab \/ SelectLanguage
    \/ BeginUpdatesScan \/ UpdatesScanned \/ StartupChecked
    \/ ConfirmDelete \/ ConfirmClear \/ JournalLoaded

Spec == Init /\ [][Next]_vars

-----------------------------------------------------------------------------
TypeOK ==
    /\ language \in Languages /\ headings \in Languages
    /\ tab \in Tabs
    /\ updates \in Views /\ update \in Nat
    /\ table.rows \in Found
    /\ {table.selected, table.focus} \subseteq {0} \cup DOMAIN table.rows
    /\ journal \in Journals /\ entry \in {0} \cup DOMAIN journal.rows
    /\ {list.selected, list.focus} \subseteq {0} \cup DOMAIN list.rows
    /\ scanning \in BOOLEAN /\ startup \in {"running", "done", "late"}

(* While the Updates tab is open, the row highlighted in its table is the  *)
(* application its button opens, through scans that end on another tab and *)
(* lists that replace one another (render.rs:386, window.rs:1240), unless  *)
(* the last run's list came over one of this run.                          *)
HighlightIsOpened ==
    tab = "Updates" /\ startup # "late" =>
        /\ table.rows = updates.rows
        /\ table.selected = update
        /\ UpdatesDetails = "entry" <=> table.selected # 0

(* "The journal is empty" is said of an empty journal only: each way to    *)
(* load or pick leaves an entry selected where there is one (journal.rs:18,*)
(* command.rs:994).                                                        *)
EmptyMeansEmpty == JournalDetails = "empty" => journal.rows = <<>>

(* A change of language reaches the rows and headings that no caption      *)
(* rewrites (controls.rs:396, journal.rs:64).                              *)
TablesSpeakTheLanguage ==
    /\ headings = language
    /\ list.rows = JournalRows(journal, language)

-----------------------------------------------------------------------------
(* Three sentences of the documents and comments that the code does not    *)
(* keep.                                                                   *)

(* "A selection made during a scan belongs to a list that has since grown; *)
(* only a finished list can be pointed into" (window.rs:1240): the         *)
(* application the button opens is highlighted. The last run's list may    *)
(* arrive under a selection of another list.                               *)
OpenedIsHighlighted ==
    tab = "Updates" /\ SelectedUpdate => table.selected = update

(* "Only safe actions are offered for a selected entry" (README.md:348):   *)
(* the entry the Journal's buttons act on is the one its table highlights. *)
(* No row of it is ever highlighted after a rendering.                     *)
EntryIsHighlighted == SelectedEntry => list.selected = entry

(* "The interface works from the keyboard" (README.md:207): the arrow goes *)
(* from the selected entry to the next. A rendering has dropped the focus, *)
(* and the arrow starts from the first entry again.                        *)
MovesToTheNext ==
    ArrowDownJournal /\ entry < Len(journal.rows) => entry' = entry + 1

ArrowMovesOn == [][MovesToTheNext]_vars

=============================================================================

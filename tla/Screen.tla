------------------------------- MODULE Screen -------------------------------
(***************************************************************************)
(* The terminal interface: the loop of internal/tui/loop.go, the screens   *)
(* that cmd/replay/tui.go renders, and the advice file they share with     *)
(* `replay advise`.  One goroutine takes a key, applies it and paints; the *)
(* corpus is counted by another, and another process rewrites the advice   *)
(* file, at any moment between the two.                                    *)
(*                                                                         *)
(* A key is offered to the screen's own handler first (SetLocal), then to  *)
(* the cursor, then to the loop.  The reader answers the frame they see,   *)
(* so `shown` keeps what the last frame showed: the row under the marker,  *)
(* the finding whose detail is open, the card being previewed.             *)
(***************************************************************************)
EXTENDS Integers, Sequences

CONSTANTS
    Tasks,      \* the sessions of the cost report, dearest first
    Openable,   \* those whose transcript was found
    Start,      \* screens it may be opened on (--screen)
    Rankings,   \* what a run of `replay advise` may suggest, best first
    MaxAdvise,  \* bound: runs of `replay advise`
    MaxKeys     \* bound: keys the reader presses

\* The screens by their key.  "d" stands for doctor, guards, safe, model and
\* live, which have neither rows nor keys of their own; "x" is named because the
\* advice screen borrows its key.
Screens == {"c", "w", "x", "a", "d", "p"}
Keys == Screens \cup {"j", "k", "H", "G", "t", "?", "esc", "enter", "q"}
Elements(s) == {s[i] : i \in DOMAIN s}
Findings == UNION {Elements(r) : r \in Rankings}

ASSUME ScreenAssumption ==
    /\ Tasks \in Seq(Elements(Tasks)) /\ Start \subseteq Screens
    /\ \A r \in Rankings : r \in Seq(Findings)
    /\ MaxAdvise \in Nat /\ MaxKeys \in Nat

VARIABLES
    pc,         \* the loop: "wait" for a key, "marking", "paint", "gone"
    onShow, before, \* the screen on show and the one before it
    help,       \* the overlay is up
    cursor, rows, \* the cursor (from 0) and the number of rows it moves over
    opened,     \* enter was pressed and no screen has taken it
    local,      \* the screen's own handler, with what it captured
    mark,       \* a decision being written: its key, its finding, the file as read
    tasks,      \* m.TaskRows: empty until the count lands
    whyOf,      \* the session the why screen answers about
    detail,     \* adviseOpen: the finding whose detail is open
    ui,         \* the share card's design and register
    advice,     \* advice.json: the suggestions and the reader's decisions
    run, held,  \* `replay advise`: where it is and what it is about to write
    adviseRuns, \* runs of it so far
    pressed,    \* keys pressed so far
    \* What the reader saw and did, for the properties only:
    shown,      \* the last frame
    entered,    \* the frame enter was pressed on, while `opened`
    did,        \* what the last key of a screen's own did, and on which frame
    lastOpen,   \* what the last frame opened, and on which frame's enter
    choices,    \* sessions the reader pressed enter on
    decided,    \* the reader's decisions
    excused     \* a run was under way, or died, over a decision

loopVars == <<pc, onShow, before, help, cursor, rows, opened, local, mark, pressed>>
uiVars == <<tasks, whyOf, detail, ui>>
diskVars == <<advice, run, held, adviseRuns>>
ghostVars == <<shown, entered, did, lastOpen, choices, decided, excused>>
screenVars == <<loopVars, uiVars, diskVars, ghostVars>>

Nil == "none"
NoKeys == [of |-> Nil, ids |-> <<>>, card |-> Nil]
NoMark == [key |-> Nil, id |-> Nil, image |-> Nil]
\* A frame: its screen, the row under the marker, the open detail, the card.
Frame(k, under, open, card) ==
    [key |-> k, help |-> FALSE, under |-> under, open |-> open, card |-> card]
NoFrame == Frame(Nil, Nil, Nil, Nil)
DidNothing == [what |-> Nil, item |-> Nil, on |-> NoFrame]
NoOpen == [screen |-> Nil, item |-> Nil, on |-> NoFrame, moved |-> FALSE]

\* No file, and a file cut short, hold neither suggestions nor decisions.
Undecided == [f \in Findings |-> Nil]
NoAdvice == [ids |-> <<>>, dec |-> Undecided]
Decisions == {Nil, "applied", "dismissed"}
AdviceFiles == [ids : Rankings \cup {<<>>}, dec : [Findings -> Decisions]]

ScreenInit ==
    /\ pc = "paint" /\ onShow \in Start /\ before = Nil /\ help = FALSE
    /\ cursor = 0 /\ rows = 0 /\ opened = FALSE /\ local = NoKeys /\ mark = NoMark
    /\ pressed = 0 /\ tasks = <<>> /\ whyOf = Nil /\ detail = Nil
    /\ ui = [variant |-> "C", tone |-> "measured"]
    /\ advice \in {NoAdvice} \cup {[ids |-> r, dec |-> Undecided] : r \in Rankings}
    /\ run = "idle" /\ held = NoAdvice /\ adviseRuns = 0
    /\ shown = NoFrame /\ entered = NoFrame /\ did = DidNothing /\ lastOpen = NoOpen
    /\ choices = {} /\ decided = Undecided /\ excused = FALSE

-----------------------------------------------------------------------------
(* The loop's own keys.                                                    *)

\* Selection.Move: clamped, never wrapped.
Moved(k, n) ==
    CASE k = "j" -> IF cursor + 1 >= n THEN n - 1 ELSE cursor + 1
      [] k = "k" -> IF cursor = 0 THEN 0 ELSE cursor - 1
      [] k = "H" -> 0
      [] k = "G" -> n - 1

Moves(k) == ~help /\ rows > 0 /\ k \in {"j", "k", "H", "G"}

Move(k) ==
    /\ Moves(k)
    /\ cursor' = Moved(k, rows)
    /\ UNCHANGED <<onShow, before, help, opened, entered, choices>>

ToggleHelp ==
    /\ help' = ~help
    /\ UNCHANGED <<onShow, before, cursor, opened, entered, choices>>

\* Escape closes the overlay, and only then goes back, one step.
Escape ==
    /\ help' = FALSE
    /\ IF ~help /\ before \notin {Nil, onShow} THEN onShow' = before /\ before' = onShow
       ELSE UNCHANGED <<onShow, before>>
    /\ UNCHANGED <<cursor, opened, entered, choices>>

\* Enter is only noted: the next screen that asks will open its row.
Enter ==
    /\ opened' = TRUE /\ entered' = shown
    /\ choices' = choices \cup
         (IF shown.key = "c" /\ ~shown.help THEN {shown.under} \ {Nil} ELSE {})
    /\ UNCHANGED <<onShow, before, help, cursor>>

Shortcut(k) ==
    /\ onShow' = k /\ help' = FALSE
    /\ before' = IF k = onShow THEN before ELSE onShow
    /\ UNCHANGED <<cursor, opened, entered, choices>>

\* press, after the screen has declined the key.
LoopKey(k) ==
    /\ \/ Move(k)
       \/ k = "?" /\ ToggleHelp
       \/ k = "esc" /\ Escape
       \/ k = "enter" /\ Enter
       \/ k \in Screens /\ Shortcut(k)
       \/ /\ ~Moves(k) /\ k \in {"j", "k", "H", "G", "t"}
          /\ UNCHANGED <<onShow, before, help, cursor, opened, entered, choices>>
    /\ pc' = "paint" /\ mark' = NoMark

-----------------------------------------------------------------------------
(* The screens' own keys: adviseKeys and shareUI.press.                    *)

RowOf(list, i) == IF i < Len(list) THEN list[i + 1] ELSE Nil
Decision(k) == IF k = "a" THEN "applied" ELSE "dismissed"

\* Slip: the finding is looked up in the file as it is when the key arrives.
MarkedNow == RowOf(advice.ids, cursor)

\* The row is the cursor's when the key arrives, the findings are the frame's.
Marked == RowOf(local.ids, cursor)

ClosesDetail(k) == local.of = "a" /\ k = "esc" /\ detail # Nil

\* markAdvice finds the id in a file it can read.
CanMark(k) ==
    /\ local.of = "a" /\ k \in {"a", "x"}
    /\ cursor < Len(local.ids)
    /\ Marked \in Elements(advice.ids)

IsOwn(k) ==
    ~help /\ (ClosesDetail(k) \/ CanMark(k) \/ (local.of = "p" /\ k \in {"t", "d", "w"}))

CloseDetail(k) ==
    /\ ClosesDetail(k)
    /\ detail' = Nil /\ pc' = "paint"
    /\ UNCHANGED <<mark, ui, did>>

BeginMark(k) ==
    /\ CanMark(k)
    /\ mark' = [key |-> k, id |-> Marked, image |-> advice] /\ pc' = "marking"
    /\ UNCHANGED <<detail, ui, did>>

\* shareState: there is a card once the corpus is counted.
CardOf == [ready |-> tasks # <<>>, variant |-> ui.variant, tone |-> ui.tone]

\* The state that was previewed, captured by the render.
Previewed == local.card

\* t and d toggle away from what was previewed; w writes what was previewed,
\* unless there is nothing worth a card.
Other(s, v) == CHOOSE x \in s : x # v
ShareKey(k) ==
    /\ local.of = "p" /\ pc' = "paint"
    /\ LET st == Previewed
       IN \/ /\ k = "t" /\ UNCHANGED did
             /\ ui' = [ui EXCEPT !.tone = Other({"measured", "rekt"}, st.tone)]
          \/ /\ k = "d" /\ UNCHANGED did
             /\ ui' = [ui EXCEPT !.variant = Other({"B", "C"}, st.variant)]
          \/ /\ k = "w" /\ UNCHANGED ui
             /\ did' = IF st.ready THEN [what |-> "card", item |-> st, on |-> shown] ELSE did
    /\ UNCHANGED <<mark, detail>>

Press(k) ==
    /\ pc = "wait" /\ k # "q"
    /\ pressed < MaxKeys /\ pressed' = pressed + 1
    /\ lastOpen' = NoOpen
    /\ \/ /\ IsOwn(k)
          /\ CloseDetail(k) \/ BeginMark(k) \/ ShareKey(k)
          /\ UNCHANGED <<onShow, before, help, cursor, opened, entered, choices>>
       \/ /\ ~IsOwn(k)
          /\ LoopKey(k)
          /\ UNCHANGED <<detail, ui, did>>
    /\ UNCHANGED <<rows, local, tasks, whyOf, diskVars, shown, decided, excused>>

Quit ==
    /\ pc = "wait"
    /\ pc' = "gone"
    /\ UNCHANGED <<onShow, before, help, cursor, rows, opened, local, mark, pressed, uiVars, diskVars, ghostVars>>

\* The file as it was read, with the decision, is renamed into place.
MarkWritten ==
    /\ pc = "marking"
    /\ advice' = [mark.image EXCEPT !.dec[mark.id] = Decision(mark.key)]
    /\ decided' = [decided EXCEPT ![mark.id] = Decision(mark.key)]
    /\ excused' = (excused \/ run # "idle")
    /\ did' = [what |-> "mark", item |-> mark.id, on |-> shown]
    /\ pc' = "paint" /\ mark' = NoMark
    /\ UNCHANGED <<onShow, before, help, cursor, rows, opened, local, pressed, uiVars, run, held, adviseRuns, shown,
                   entered, lastOpen, choices>>

\* A write that fails declines the key, which keeps its meaning for the loop.
MarkFails ==
    /\ pc = "marking"
    /\ LoopKey(mark.key)
    /\ UNCHANGED <<rows, local, pressed, uiVars, diskVars, shown, did, lastOpen, decided, excused>>

-----------------------------------------------------------------------------
(* Painting.  A key is followed by a paint, and so is every tick.          *)

\* SetRows: the cursor stays within the rows.
SetRows(n) ==
    /\ rows' = n
    /\ cursor' = IF cursor >= n THEN (IF n = 0 THEN 0 ELSE n - 1) ELSE cursor

Painting == pc \in {"wait", "paint"} /\ pc' = "wait" /\ did' = DidNothing

\* The overlay hides the screen; the screen is not asked.
PaintHelp ==
    /\ Painting /\ help
    /\ shown' = [NoFrame EXCEPT !.key = onShow, !.help = TRUE]
    /\ UNCHANGED <<onShow, before, help, cursor, rows, opened, local, mark, pressed, uiVars, diskVars,
                   entered, lastOpen, choices, decided, excused>>

\* Cleared on every render, so a screen's own keys cannot follow the reader.
ClearLocal == NoKeys

\* The screens without rows or keys, the why screen among them.
PaintPlain ==
    /\ Painting /\ ~help /\ onShow \in {"w", "x", "d"}
    /\ SetRows(0)
    /\ local' = ClearLocal
    /\ shown' = Frame(onShow, Nil, IF onShow = "w" THEN whyOf ELSE Nil, Nil)
    /\ UNCHANGED <<onShow, before, help, opened, mark, pressed, uiVars, diskVars, entered, lastOpen,
                   choices, decided, excused>>

\* The cost screen marks the row of the cursor it was given, then clamps it,
\* and opens the row of the clamped one.
PaintCost ==
    /\ Painting /\ ~help /\ onShow = "c"
    /\ local' = ClearLocal
    /\ opened' = FALSE /\ entered' = NoFrame
    /\ LET n == Len(tasks)
           clamped == IF cursor >= n THEN (IF n = 0 THEN 0 ELSE n - 1) ELSE cursor
           t == RowOf(tasks, clamped)
       IN \/ /\ opened /\ t \in Openable
             /\ whyOf' = t
             /\ onShow' = "w" /\ before' = "c"
             /\ rows' = 0 /\ cursor' = 0
             /\ shown' = Frame("w", Nil, t, Nil)
             /\ lastOpen' = [screen |-> "c", item |-> t, on |-> entered, moved |-> FALSE]
          \/ /\ ~(opened /\ t \in Openable)
             /\ SetRows(n)
             /\ shown' = Frame("c", RowOf(tasks, cursor), Nil, Nil)
             /\ UNCHANGED <<onShow, before, whyOf, lastOpen>>
    /\ UNCHANGED <<help, mark, pressed, tasks, detail, ui, diskVars, choices, decided, excused>>

\* The advice file can be read and covers the corpus: the list, or the detail
\* of the finding that is open.
PaintAdvice ==
    /\ Painting /\ ~help /\ onShow = "a"
    /\ advice.ids # <<>>
    /\ LET chosen == IF opened THEN RowOf(advice.ids, cursor) ELSE Nil
           open == IF chosen # Nil THEN chosen ELSE detail
       IN /\ detail' = open
          /\ SetRows(IF open # Nil THEN 0 ELSE Len(advice.ids))
          /\ shown' = Frame("a", IF open = Nil THEN advice.ids[cursor' + 1] ELSE Nil, open, Nil)
          /\ lastOpen' = IF chosen = Nil THEN lastOpen
                         ELSE [screen |-> "a", item |-> chosen, on |-> entered,
                               moved |-> local.ids # advice.ids]
    /\ opened' = FALSE /\ entered' = NoFrame
    /\ local' = [NoKeys EXCEPT !.of = "a", !.ids = advice.ids]
    /\ UNCHANGED <<onShow, before, help, mark, pressed, tasks, whyOf, ui, diskVars, choices, decided, excused>>

\* No usable file: the findings are computed, shown without a marker, and the
\* enter that was noted stays noted.
PaintComputed ==
    /\ Painting /\ ~help /\ onShow = "a"
    /\ \E r \in Rankings \cup {<<>>} : SetRows(Len(r))
    /\ local' = ClearLocal
    /\ shown' = Frame("a", Nil, Nil, Nil)
    /\ UNCHANGED <<onShow, before, help, opened, mark, pressed, uiVars, diskVars, entered, lastOpen, choices,
                   decided, excused>>

PaintShare ==
    /\ Painting /\ ~help /\ onShow = "p"
    /\ SetRows(0)
    /\ local' = [NoKeys EXCEPT !.of = "p", !.card = CardOf]
    /\ shown' = Frame("p", Nil, Nil, CardOf)
    /\ UNCHANGED <<onShow, before, help, opened, mark, pressed, uiVars, diskVars, entered, lastOpen, choices,
                   decided, excused>>

-----------------------------------------------------------------------------
(* The other goroutine and the other process.                              *)

\* costState returns, and the machine is replaced under the mutex.
CountLands ==
    /\ tasks = <<>>
    /\ tasks' = Tasks
    /\ UNCHANGED <<loopVars, whyOf, detail, ui, diskVars, ghostVars>>

\* Slip: the decisions are not carried into the file that replaces them.
CarriedNone == Undecided

\* readerDecisions: what the reader has said, as the file has it now.
Carried == advice.dec

\* suggestForReader: the suggestions are new, the decisions are carried.
AdviseReads ==
    /\ run = "idle" /\ adviseRuns < MaxAdvise
    /\ adviseRuns' = adviseRuns + 1
    /\ \E r \in Rankings \cup {<<>>} : held' = [ids |-> r, dec |-> Carried]
    /\ run' = "computed"
    /\ UNCHANGED <<loopVars, uiVars, advice, ghostVars>>

\* os.WriteFile: truncated, then filled.
AdviseTruncates ==
    /\ run = "computed"
    /\ advice' = NoAdvice /\ run' = "writing"
    /\ UNCHANGED <<loopVars, uiVars, held, adviseRuns, ghostVars>>

AdviseFills ==
    /\ run = "writing"
    /\ advice' = held /\ held' = NoAdvice /\ run' = "idle"
    /\ UNCHANGED <<loopVars, uiVars, adviseRuns, ghostVars>>

AdviseDies ==
    /\ run # "idle"
    /\ held' = NoAdvice /\ run' = "idle"
    /\ excused' = (excused \/ run = "writing")
    /\ UNCHANGED <<loopVars, uiVars, advice, adviseRuns, shown, entered, did, lastOpen, choices, decided>>

ScreenNext ==
    \/ \E k \in Keys : Press(k)
    \/ Quit \/ MarkWritten \/ MarkFails
    \/ PaintHelp \/ PaintPlain \/ PaintCost \/ PaintAdvice \/ PaintComputed \/ PaintShare
    \/ CountLands \/ AdviseReads \/ AdviseTruncates \/ AdviseFills \/ AdviseDies

ScreenSpec == ScreenInit /\ [][ScreenNext]_screenVars

-----------------------------------------------------------------------------
ScreenTypeOK ==
    /\ pc \in {"wait", "marking", "paint", "gone"}
    /\ onShow \in Screens /\ before \in (Screens \cup {Nil}) \ {onShow}
    /\ help \in BOOLEAN /\ opened \in BOOLEAN
    /\ rows \in Nat /\ cursor \in Nat /\ (cursor < rows \/ cursor = 0)
    /\ advice \in AdviceFiles /\ held \in AdviceFiles
    /\ decided \in [Findings -> Decisions] /\ excused \in BOOLEAN
    /\ tasks \in {<<>>, Tasks} /\ run \in {"idle", "computed", "writing"}

\* A key answers the frame the reader was looking at, whatever the count and
\* `replay advise` did since it was painted: a decision taken on the list is
\* about the finding under the marker, the card written is the card previewed,
\* no screen's key acts on another screen or under the overlay, and enter on a
\* marked row of a list that has not changed opens that row.
FrameAnswered ==
    /\ did.what = "mark" =>
         /\ did.on.key = "a" /\ ~did.on.help
         /\ did.on.open = Nil => did.item = did.on.under
    /\ did.what = "card" => did.on.key = "p" /\ did.item = did.on.card
    /\ lastOpen.on.key = lastOpen.screen /\ lastOpen.on.under # Nil /\ ~lastOpen.moved =>
         lastOpen.item = lastOpen.on.under

\* What the reader decided outlives the keystroke: it is in the advice file
\* however often `replay advise` has rewritten it since, unless a run was under
\* way when it was taken or died while writing.
DecisionsKept == ~excused /\ run # "writing" => advice.dec = decided

\* A decision taken with a finding open is about that finding.
MarksWhatIsOpen ==
    did.what = "mark" /\ did.on.open # Nil => did.item = did.on.open

\* The why screen answers about a session the reader pressed enter on.
OpensWhatWasChosen == whyOf # Nil => whyOf \in choices

\* A key of the terminal interface answers the frame the reader was looking at,
\* and what the reader decided about a finding outlives the keystroke.
ScreenIsTrue == ScreenTypeOK /\ FrameAnswered /\ DecisionsKept

=============================================================================

-------------------------------- MODULE Screen --------------------------------
(***************************************************************************)
(* The terminal client's keys and what is drawn over the transcript: the   *)
(* questions of the turn, the session switcher, the help, the sidebar, the *)
(* confirmation to quit.  Modelled from pkgs/clients/tui/src/              *)
(* {tui,app,keymap,commands,blocks}.rs.                                    *)
(*                                                                         *)
(* The loop applies the events of the turn, sends what was asked for,      *)
(* draws, and handles one key.  The text being written is Composer's: here *)
(* it is blank, a text, or a command the menu is open for.                 *)
(***************************************************************************)
EXTENDS Integers, Sequences

CONSTANTS
    Stdio,         \* the gateway is a child of the client
    SidebarHidden, \* the terminal is too narrow for the sidebar
    MaxOptions,    \* bound: options of a question
    MaxAsks,       \* bound: questions
    MaxTurns       \* bound: turns

VARIABLES
    pc,          \* where the loop is: "events", "requests" or "key"
    phase,       \* App.phase
    rx,          \* the events of a turn are listened to
    prompts,     \* App.prompts: options and which one is picked, 0 without
    dialog,      \* App.dialog_open
    draft,       \* the text
    sent,        \* something was sent
    session,     \* App.session
    sessions,    \* the switcher is open
    help, sidebar,
    quit,        \* App.quit
    requested,   \* what the next pass of the loop sends
    small,       \* regions.too_small at the last drawing: nothing but a note was drawn
    gone,        \* App.disconnected
    shouldQuit,
    asks, turns  \* for the bounds

vars == <<pc, phase, rx, prompts, dialog, draft, sent, session, sessions, help, sidebar, quit,
          requested, small, gone, shouldQuit, asks, turns>>
turn == <<phase, rx, prompts, dialog>>
over == <<sessions, help, sidebar, quit>>
rest == <<session, small, gone, shouldQuit, asks, turns>>

NoQuit == [open |-> FALSE, picked |-> FALSE, midTurn |-> FALSE, lost |-> FALSE, escalate |-> FALSE]
Requests == {"cancel", "list", "invoke", "new"}
BuiltIns == {"newline", "cancel", "new", "sessions", "help", "quit"}
KeyNames == {"esc", "enter", "up", "down", "tab", "digit", "char", "?", "backspace", "newline",
             "ctrl-b", "ctrl-c", "ctrl-d", "ctrl-s"}

TypeOK ==
    /\ pc \in {"events", "requests", "key"} /\ phase \in {"idle", "streaming", "cancelling"}
    /\ \A i \in DOMAIN prompts : prompts[i].options \in 0..MaxOptions /\ prompts[i].picked \in 0..prompts[i].options
    /\ (dialog => prompts # <<>>) /\ draft \in {"blank", "text", "command"}
    /\ requested \subseteq Requests /\ session \in Nat
    /\ {rx, sent, sessions, help, sidebar, small, gone, shouldQuit, quit.open} \subseteq BOOLEAN

Init ==
    /\ pc = "events" /\ phase = "idle" /\ rx = FALSE /\ prompts = <<>> /\ dialog = FALSE
    /\ draft = "blank" /\ sent = FALSE /\ session = 0
    /\ sessions = FALSE /\ help = FALSE /\ sidebar = FALSE /\ quit = NoQuit
    /\ requested = {} /\ small = FALSE /\ gone = FALSE /\ shouldQuit = FALSE /\ asks = 0 /\ turns = 0

Turn == IF prompts # <<>> THEN "blocked" ELSE phase

---------------------------------------------------------------------------
(* What is drawn, in this order, unless the terminal is too small, and     *)
(* what the status bar says.                                               *)

Layers == <<"dialog", "sessions", "help", "sidebar", "quit">>
IsOpen(layer) ==
    CASE layer = "dialog" -> dialog [] layer = "sessions" -> sessions [] layer = "help" -> help
      [] layer = "sidebar" -> sidebar [] layer = "quit" -> quit.open
Covered(i) == \E j \in (i + 1)..Len(Layers) : IsOpen(Layers[j])

\* status_context
Context ==
    IF prompts # <<>> THEN (IF dialog THEN "dialog-open" ELSE "dialog-closed") ELSE phase

\* The rows of keymap::BINDINGS that every state has a key for: what a key is said to do.
Said ==
    CASE Context = "idle" -> [enter |-> "send", esc |-> "quit"]
      [] Context = "streaming" -> [enter |-> "steer", ctrlc |-> "cancel"]
      [] Context = "cancelling" -> [enter |-> "nothing"]
      [] Context = "dialog-open" -> [enter |-> "answer", esc |-> "close"]
      [] Context = "dialog-closed" -> [enter |-> "reopen", esc |-> "quit"]

---------------------------------------------------------------------------
(* Whose a key is.                                                         *)

\* Mutant: the dialog is not looked at before the state of the turn.
EnterMeansByPhase ==
    CASE phase = "streaming" -> "steer" [] phase = "idle" -> "send" [] OTHER -> "nothing"

\* enter_means: a blocked turn is streaming underneath.
EnterMeans ==
    CASE Turn = "blocked" /\ dialog -> "answer"
      [] Turn = "blocked" /\ ~dialog -> "reopen"
      [] Turn = "streaming" -> "steer"
      [] Turn = "idle" -> "send"
      [] OTHER -> "nothing"

ListMode == prompts # <<>> /\ Head(prompts).options # 0

\* With Shift or Alt it breaks the line, but only the keys that edit look at those.
IsEnter(k) == k \in {"enter", "newline"}

\* The menu, the keys that edit, and the loop.
OwnerBelow(k) ==
    CASE k = "?" /\ draft = "blank" -> "help-key"
      [] k = "ctrl-b" /\ SidebarHidden -> "sidebar-key"
      [] draft = "command" /\ (IsEnter(k) \/ k \in {"esc", "up", "down", "tab"}) -> "menu"
      [] k \in {"up", "down", "digit", "char", "?", "backspace", "newline"} \/ (k = "ctrl-d" /\ draft = "blank") -> "edit"
      [] OTHER -> "loop"

\* Mutant: the help and the sidebar leave Enter to the turn.
OwnerLax(k) ==
    CASE dialog /\ (k = "esc" \/ (ListMode /\ ~IsEnter(k))) -> "dialog"
      [] quit.open -> "quit"
      [] sessions /\ ~IsEnter(k) -> "sessions"
      [] help /\ k # "enter" -> "help"
      [] sidebar /\ k # "enter" -> "sidebar"
      [] OTHER -> OwnerBelow(k)

\* The first that takes it: dialog_priority_keys, then what is below.
Owner(k) ==
    CASE dialog /\ (k = "esc" \/ (ListMode /\ ~IsEnter(k))) -> "dialog"
      [] quit.open -> "quit"
      [] sessions /\ ~IsEnter(k) -> "sessions"
      [] help -> "help"
      [] sidebar -> "sidebar"
      [] OTHER -> OwnerBelow(k)

\* What Esc, Enter and Ctrl+C come to with nothing but the dialog open.
Does(k) ==
    CASE k = "enter" /\ Owner(k) = "loop" -> EnterMeans
      [] k = "esc" /\ Owner(k) = "dialog" -> "close"
      [] k = "esc" /\ Owner(k) = "loop" -> "quit"
      [] k = "ctrlc" /\ Owner("ctrl-c") = "loop" -> IF phase = "streaming" THEN "cancel" ELSE "nothing"
      [] OTHER -> "nothing"

Press(k, owner) == pc = "key" /\ ~shouldQuit /\ Owner(k) = owner /\ pc' = "events"

---------------------------------------------------------------------------
(* Questions.                                                              *)

\* Mutant: the picked row stays where it was in the question before.
TakeFrontSharing ==
    /\ prompts' = IF Len(prompts) = 1 THEN <<>>
                  ELSE <<[prompts[2] EXCEPT !.picked = IF prompts[1].picked <= prompts[2].options
                                                       THEN prompts[1].picked ELSE 0]>>
                         \o SubSeq(prompts, 3, Len(prompts))
    /\ dialog' = (Len(prompts) > 1)

TakeFront == prompts' = Tail(prompts) /\ dialog' = (Len(prompts) > 1)

\* App::prompt_move and prompt_jump, on the front question.
PickOption(k) ==
    /\ Press(k, "dialog") /\ k # "esc"
    /\ LET n == Head(prompts).options
           picked == Head(prompts).picked
           at == IF picked = 0 THEN 1 ELSE picked
           to == CASE k = "up" -> {((at + n - 2) % n) + 1}
                   [] k = "down" -> {(at % n) + 1}
                   [] k = "digit" -> {picked} \cup 1..n
                   [] OTHER -> {picked}
       IN \E i \in to : prompts' = <<[Head(prompts) EXCEPT !.picked = i]>> \o Tail(prompts)
    /\ UNCHANGED <<phase, rx, dialog, draft, sent, over, requested, rest>>

CloseDialog ==
    /\ Press("esc", "dialog") /\ dialog' = FALSE
    /\ UNCHANGED <<phase, rx, prompts, draft, sent, over, requested, rest>>

ReopenDialog ==
    /\ Press("enter", "loop") /\ ~sessions /\ EnterMeans = "reopen" /\ dialog' = TRUE
    /\ UNCHANGED <<phase, rx, prompts, draft, sent, over, requested, rest>>

\* App::take_answer: the option picked, or the text; the text goes either way.
TakeAnswer ==
    /\ Press("enter", "loop") /\ ~sessions /\ EnterMeans = "answer"
    /\ IF ListMode /\ Head(prompts).picked = 0 THEN UNCHANGED <<prompts, dialog, draft>>
       ELSE TakeFront /\ draft' = "blank"
    /\ UNCHANGED <<phase, rx, sent, over, requested, rest>>

---------------------------------------------------------------------------
(* The overlays.                                                           *)

\* App::request_quit: at once as long as nothing was sent.
RequestQuit ==
    /\ shouldQuit' = (shouldQuit \/ ~sent)
    /\ quit' = IF sent /\ ~dialog
               THEN [open |-> TRUE, picked |-> FALSE, midTurn |-> Turn # "idle",
                     lost |-> Turn # "idle" /\ Stdio, escalate |-> FALSE]
               ELSE quit

\* Esc closes it, the arrows and Tab turn it round, Enter takes it: mid-turn only
\* when asked a second time.
QuitKeys(k) ==
    /\ Press(k, "quit")
    /\ CASE k = "esc" -> quit' = NoQuit /\ UNCHANGED shouldQuit
         [] k \in {"up", "down", "tab"} -> quit' = [quit EXCEPT !.picked = ~@] /\ UNCHANGED shouldQuit
         [] IsEnter(k) /\ ~quit.picked -> quit' = NoQuit /\ UNCHANGED shouldQuit
         [] IsEnter(k) /\ quit.picked /\ quit.midTurn /\ ~quit.escalate ->
                quit' = [quit EXCEPT !.escalate = TRUE] /\ UNCHANGED shouldQuit
         [] IsEnter(k) /\ quit.picked /\ (quit.midTurn => quit.escalate) ->
                quit' = NoQuit /\ shouldQuit' = TRUE
         [] OTHER -> UNCHANGED <<quit, shouldQuit>>
    /\ UNCHANGED <<turn, draft, sent, sessions, help, sidebar, requested, session, small, gone, asks, turns>>

\* The switcher filters and picks; Esc closes it.
SessionsKeys(k) ==
    /\ Press(k, "sessions") /\ sessions' = (k # "esc")
    /\ UNCHANGED <<turn, draft, sent, help, sidebar, quit, requested, rest>>

HelpKeys(k) ==
    /\ Press(k, "help") /\ help' = (k \notin {"esc", "?"})
    /\ UNCHANGED <<turn, draft, sent, sessions, sidebar, quit, requested, rest>>

SidebarKeys(k) ==
    /\ Press(k, "sidebar") /\ sidebar' = (k \notin {"esc", "ctrl-b"})
    /\ UNCHANGED <<turn, draft, sent, sessions, help, quit, requested, rest>>

\* toggle_help and toggle_sidebar_dialog: not over a question.
OpenHelp ==
    /\ Press("?", "help-key") /\ help' = ~dialog
    /\ UNCHANGED <<turn, draft, sent, sessions, sidebar, quit, requested, rest>>
OpenSidebar ==
    /\ Press("ctrl-b", "sidebar-key") /\ sidebar' = ~dialog
    /\ UNCHANGED <<turn, draft, sent, sessions, help, quit, requested, rest>>

\* Enter in the switcher: the session is fetched now, or that fails.
SwitchSession ==
    /\ Press("enter", "loop") /\ sessions
    /\ \/ Turn = "idle" /\ session' \in {0, 1} /\ sessions' = FALSE
       \/ UNCHANGED <<session, sessions>>
    /\ UNCHANGED <<turn, draft, sent, help, sidebar, quit, requested, small, gone, shouldQuit, asks, turns>>

---------------------------------------------------------------------------
(* The text, the menu and the turn.                                        *)

\* What typing and deleting make of the text; scrolling leaves it.
Edit(k) ==
    /\ Press(k, "edit")
    /\ draft' \in CASE k \in {"digit", "char", "?", "backspace"} -> {"blank", "text", "command"}
                    [] k \in {"up", "down"} -> {draft, "text"}
                    [] OTHER -> {draft}
    /\ UNCHANGED <<turn, sent, over, requested, rest>>

\* App::cancel: of a streaming turn only.
Cancel ==
    IF phase = "streaming"
    THEN phase' = "cancelling" /\ requested' = requested \cup {"cancel"} /\ prompts' = <<>> /\ dialog' = FALSE
    ELSE UNCHANGED <<phase, prompts, dialog, requested>>

MenuKeys(k) ==
    /\ Press(k, "menu") /\ ~IsEnter(k) /\ k # "tab"
    /\ draft' = IF k = "esc" THEN "text" ELSE draft
    /\ UNCHANGED <<turn, sent, over, requested, rest>>

\* App::menu_accept, of a command of an extension too.
MenuAccept(k, command) ==
    /\ Press(k, "menu") /\ (IsEnter(k) \/ k = "tab")
    /\ draft' = "blank"
    /\ CASE command = "cancel" -> Cancel /\ UNCHANGED <<over, shouldQuit>>
         [] command = "quit" -> RequestQuit /\ UNCHANGED <<phase, prompts, dialog, requested, sessions, help, sidebar>>
         [] command = "help" ->
                /\ help' = IF dialog THEN help ELSE ~help
                /\ UNCHANGED <<phase, prompts, dialog, requested, sessions, sidebar, quit, shouldQuit>>
         [] OTHER ->
                /\ requested' = requested \cup
                     (CASE command = "invoke" -> {"invoke"}
                        [] command = "new" /\ ~dialog -> {"new"}
                        [] command = "sessions" /\ ~dialog -> {"list"}
                        [] OTHER -> {})
                /\ UNCHANGED <<phase, prompts, dialog, over, shouldQuit>>
    /\ UNCHANGED <<rx, sent, session, small, gone, asks, turns>>

\* take_submission, with which a turn begins or is steered.
Submit ==
    /\ Press("enter", "loop") /\ ~sessions /\ draft # "command" /\ EnterMeans \in {"send", "steer"}
    /\ IF draft = "blank" \/ (EnterMeans = "send" /\ rx)
       THEN UNCHANGED <<phase, rx, sent, turns>> /\ draft' = draft
       ELSE /\ draft' = "blank" /\ sent' = TRUE
            /\ turns < MaxTurns \/ EnterMeans = "steer"
            /\ turns' = IF EnterMeans = "send" THEN turns + 1 ELSE turns
            /\ phase' = "streaming" /\ rx' = TRUE
    /\ UNCHANGED <<prompts, dialog, over, requested, session, small, gone, shouldQuit, asks>>

\* The keys of the loop itself.
LoopKeys(k) ==
    /\ Press(k, "loop") /\ k # "enter"
    /\ CASE k = "esc" -> shouldQuit' = TRUE /\ UNCHANGED <<phase, prompts, dialog, requested, quit>>
         [] k = "ctrl-d" \/ (k = "ctrl-c" /\ Turn = "idle" /\ draft = "blank") ->
                RequestQuit /\ UNCHANGED <<phase, prompts, dialog, requested>>
         [] k = "ctrl-c" /\ ~(Turn = "idle" /\ draft = "blank") -> Cancel /\ UNCHANGED <<quit, shouldQuit>>
         [] k = "ctrl-s" /\ ~dialog ->
                requested' = requested \cup {"list"} /\ UNCHANGED <<phase, prompts, dialog, quit, shouldQuit>>
         [] OTHER -> UNCHANGED <<phase, prompts, dialog, requested, quit, shouldQuit>>
    /\ UNCHANGED <<rx, draft, sent, sessions, help, sidebar, session, small, gone, asks, turns>>

---------------------------------------------------------------------------
(* The loop.                                                               *)

\* StreamEvent::Prompt: it is shown if it is the only one; its default is picked,
\* where the options name it.
Ask(n, default) ==
    /\ pc = "events" /\ rx /\ asks < MaxAsks /\ asks' = asks + 1
    /\ prompts' = Append(prompts, [options |-> n, picked |-> default])
    /\ dialog' = (dialog \/ prompts = <<>>)
    /\ UNCHANGED <<pc, phase, rx, draft, sent, over, requested, session, small, gone, shouldQuit, turns>>

\* The turn ends, also because its transport failed.
EndTurn(failed) ==
    /\ pc = "events" /\ rx
    /\ pc' = "requests" /\ rx' = FALSE /\ phase' = "idle" /\ prompts' = <<>> /\ dialog' = FALSE
    /\ gone' = (gone \/ failed)
    /\ UNCHANGED <<draft, sent, over, requested, session, small, shouldQuit, asks, turns>>

NoMoreEvents == pc = "events" /\ pc' = "requests" /\ UNCHANGED <<turn, draft, sent, over, requested, rest>>

\* drain_transport_requests: what was asked for is sent, in this order, and done or
\* refused; a session that is new shows nothing of the old one.  Then all is drawn, in a
\* terminal that may have shrunk or grown.
Drain ==
    /\ pc = "requests" /\ pc' = "key" /\ requested' = {} /\ small' \in BOOLEAN
    /\ \E listed \in {FALSE, "list" \in requested}, made \in {FALSE, "new" \in requested} :
          /\ sessions' = ((sessions \/ listed) /\ ~made)
          /\ session' = IF made THEN 1 ELSE session
    /\ UNCHANGED <<turn, draft, sent, help, sidebar, quit, gone, shouldQuit, asks, turns>>

\* No key in time, and the child has exited.
Disconnect ==
    /\ pc = "key" /\ ~gone /\ pc' = "events"
    /\ gone' = TRUE /\ phase' = "idle" /\ prompts' = <<>> /\ dialog' = FALSE
    /\ UNCHANGED <<rx, draft, sent, over, requested, session, small, shouldQuit, asks, turns>>

Next ==
    \/ \E n \in 0..MaxOptions : \E default \in 0..n : Ask(n, default)
    \/ \E failed \in BOOLEAN : EndTurn(failed)
    \/ NoMoreEvents \/ Drain \/ Disconnect
    \/ \E k \in KeyNames :
        \/ PickOption(k) \/ QuitKeys(k) \/ SessionsKeys(k) \/ HelpKeys(k) \/ SidebarKeys(k)
        \/ Edit(k) \/ MenuKeys(k) \/ LoopKeys(k)
        \/ \E command \in BuiltIns \cup {"invoke"} : MenuAccept(k, command)
    \/ CloseDialog \/ ReopenDialog \/ TakeAnswer \/ OpenHelp \/ OpenSidebar \/ SwitchSession \/ Submit

Spec == Init /\ [][Next]_vars

---------------------------------------------------------------------------

\* A question is answered only from the screen, if the terminal has room for a screen:
\* nothing is drawn over the dialog when Enter answers it, in whatever order questions
\* arrive, overlays are opened and lists come back.
AnswersAreSeen == [][TakeAnswer /\ ~small => ~Covered(1)]_vars

\* Promised nowhere, and not so: a question is answered only when its dialog was drawn.
\* In a terminal that is too small none is (tui.rs:663), and Enter answers it.
AnswersAreDrawn == [][TakeAnswer => ~small /\ ~Covered(1)]_vars

\* A question that comes to the front has what it came with picked, its default or
\* nothing: no key pressed for another question has chosen for it.
FrontsAreFresh ==
    [][Len(prompts') < Len(prompts) /\ prompts' # <<>> => prompts' = Tail(prompts)]_prompts

\* Whoever quits with a turn running was told so, unless with the key that quits at
\* once: the confirmation is not older than the turn.
QuitIsTold == ~gone /\ quit.open /\ Turn # "idle" => quit.midTurn

\* The status bar is true: while nothing but the question is drawn over it, Enter,
\* Esc and Ctrl+C do what it says (keymap.rs:34).
HintsAreTrue ==
    pc = "key" /\ ~gone /\ ~Covered(1) /\ draft # "command" =>
        \A k \in DOMAIN Said : Does(k) = Said[k]
===============================================================================

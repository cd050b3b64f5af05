-------------------------------- MODULE Page --------------------------------
(***************************************************************************)
(* ui.js: the page around the console.  Three panels that exclude each     *)
(* other, settings that live in form controls and in the storage of the    *)
(* browser, the connect button with its changing meaning, and the modes    *)
(* "clip" and "drag" of the display.                                       *)
(***************************************************************************)
EXTENDS Naturals

CONSTANTS
  Settings,     \* names of settings, "clip" and "cursor" among them
  CursorUri     \* whether the browser shows a cursor of the guest

PageAssumption == "clip" \in Settings /\ "cursor" \in Settings /\ CursorUri \in BOOLEAN

VARIABLES
  rfb_state,          \* as onUpdateState told it; "none": no page is loaded
  settingsOpen, connSettingsOpen, clipboardOpen,
  connectButton,      \* onclick of noVNC_connect_button
  saved,              \* the settings in localStorage, which outlive the page
  control,            \* what the form controls show
  viewport,           \* display.js: conf.viewport
  viewportDrag        \* rfb.js: conf.viewportDrag

panels == <<settingsOpen, connSettingsOpen, clipboardOpen>>
modes == <<viewport, viewportDrag>>
vars == <<rfb_state, panels, connectButton, saved, control, modes>>

Idle == {"loaded", "disconnected", "failed", "fatal"}
Connected == rfb_state = "normal"

-----------------------------------------------------------------------------
(* The handlers call each other, so they are functions of the whole page.  *)

page == [state |-> rfb_state, settings |-> settingsOpen, connect |-> connSettingsOpen,
         clipboard |-> clipboardOpen, button |-> connectButton, saved |-> saved,
         control |-> control, viewport |-> viewport, drag |-> viewportDrag]
Becomes(p) ==
  /\ rfb_state' = p.state /\ settingsOpen' = p.settings /\ connSettingsOpen' = p.connect
  /\ clipboardOpen' = p.clipboard /\ connectButton' = p.button /\ saved' = p.saved
  /\ control' = p.control /\ viewport' = p.viewport /\ viewportDrag' = p.drag

\* updateSetting: saves a value, if there is one, and shows what is saved.
updateSetting(p, s, value) == [p EXCEPT !.saved[s] = value, !.control[s] = value]
Refreshed(p, some) ==
  [p EXCEPT !.control = [s \in Settings |-> IF s \in some THEN p.saved[s] ELSE @[s]]]

\* setViewClip without an argument: the display follows the setting.
setViewClip(p) == [p EXCEPT !.viewport = p.saved["clip"], !.control["clip"] =
                                IF p.saved["clip"] = p.viewport THEN @ ELSE p.saved["clip"]]

setViewDrag(p, drag) == [p EXCEPT !.drag = drag]

\* settingsApply: every control is saved, and the display follows.
saveSettings(p) ==
  [p EXCEPT !.saved = [s \in Settings |->
                         IF s = "cursor" /\ ~CursorUri THEN @[s] ELSE p.control[s]]]
settingsApply(p) == setViewClip(saveSettings(p))
closeSettingsMenu(p) == [p EXCEPT !.settings = FALSE]
CloseSettings(p) == IF p.settings THEN closeSettingsMenu(settingsApply(p)) ELSE p

\* toggleClipboardPanel and toggleConnectPanel close each other by a call that
\* toggles, and that calls back only if both were open.
toggleClipboardPanel(p) ==
  LET q == CloseSettings(p)
      r == IF q.connect THEN [q EXCEPT !.connect = FALSE] ELSE q
  IN [r EXCEPT !.clipboard = ~@]
toggleOver(p) ==   \* mutant: the clipboard stays open
  [CloseSettings(p) EXCEPT !.connect = ~@]
toggleConnectPanel(p) ==
  LET q == CloseSettings(p)
      r == IF q.clipboard THEN [q EXCEPT !.clipboard = FALSE] ELSE q
  IN [r EXCEPT !.connect = ~@]
ToggledConnect(p) == toggleConnectPanel(p)

openSettingsMenu(p) ==
  LET q == IF p.clipboard THEN toggleClipboardPanel(p) ELSE p
      r == IF q.connect THEN ToggledConnect(q) ELSE q
  IN [r EXCEPT !.settings = TRUE]
toggleSettingsPanel(p) ==
  IF p.settings THEN CloseSettings(p)
  ELSE openSettingsMenu(IF CursorUri THEN Refreshed(p, Settings)
                        ELSE updateSetting(Refreshed(p, Settings), "cursor", FALSE))

\* updateVisualState: "State change disables viewport dragging".
updateVisualState(p) ==
  LET q == IF CursorUri THEN p ELSE updateSetting(p, "cursor", FALSE)
      r == IF q.state = "normal" THEN setViewClip(q) ELSE q
  IN setViewDrag(r, FALSE)
updateState(p, state) ==
  LET q == [p EXCEPT !.state = state]
  IN updateVisualState(IF state = "password"
                       THEN [ToggledConnect(q) EXCEPT !.button = "setPassword"] ELSE q)

-----------------------------------------------------------------------------
(* Actions.                                                                *)

\* The page is loaded: UI.start.  rfb.js says 'loaded' while it is constructed
\* and UI.rfb is not set, which updateVisualState takes for a browser without
\* cursors: the setting 'cursor' is lost.
Load ==
  LET loaded == [state |-> "loaded", settings |-> FALSE, connect |-> FALSE, clipboard |-> FALSE,
                 button |-> "connect", saved |-> [saved EXCEPT !["cursor"] = FALSE],
                 control |-> [saved EXCEPT !["cursor"] = FALSE], viewport |-> FALSE, drag |-> FALSE]
  IN Becomes(toggleConnectPanel(setViewClip(updateVisualState(loaded))))

\* The buttons of the bar, as far as they are shown.
ClickClipboard == Connected /\ Becomes(toggleClipboardPanel(page))
ClickSettings == rfb_state # "none" /\ Becomes(toggleSettingsPanel(page))
\* connectButton of the bar, and descriptionButton under the description.
ClickConnectPanel == rfb_state # "none" /\ Becomes(ToggledConnect(page))
ClickDrag == Connected /\ viewport /\ Becomes(setViewDrag(page, ~viewportDrag))
ClickApply == settingsOpen /\ Becomes(settingsApply(page))
Resize == rfb_state # "none" /\ Becomes(setViewClip(page))

\* A control is changed by hand; a session disables all but "clip".
Edit(s, value) ==
  /\ settingsOpen /\ (Connected => s = "clip") /\ (s = "cursor" => CursorUri)
  /\ Becomes([page EXCEPT !.control[s] = value])

\* UI.connect, by the button of the connect panel; it throws when the host or
\* the port is missing, with the panel closed already.
Connect(host) ==
  /\ connSettingsOpen /\ connectButton = "connect" /\ rfb_state \in Idle
  /\ LET closed == ToggledConnect(closeSettingsMenu(page))
     IN Becomes(IF host THEN updateState(closed, "connect") ELSE closed)

\* UI.setPassword, by the same button.  Afterwards its handler is UI.Connect,
\* which does not exist.
SetPassword ==
  /\ connSettingsOpen /\ connectButton = "setPassword"
  /\ Becomes(ToggledConnect([page EXCEPT !.button = "nothing"]))

\* UI.disconnect, by the button that a session shows.
Disconnect ==
  /\ rfb_state \notin Idle \cup {"none"}
  /\ LET p == [updateState(closeSettingsMenu(page), "disconnect") EXCEPT !.connect = FALSE]
     IN Becomes(toggleConnectPanel(p))

\* rfb.js changes its state (external).
Follows(state) ==
  CASE rfb_state = "connect" -> state \in {"handshake", "failed", "disconnect"}
    [] rfb_state = "handshake" -> state \in {"password", "normal", "failed"}
    [] rfb_state = "password" -> state \in {"handshake", "failed"}
    [] rfb_state = "normal" -> state = "failed"
    [] rfb_state = "disconnect" -> state = "disconnected"
    [] OTHER -> FALSE
StateChanges(state) == Follows(state) /\ Becomes(updateState(page, state))

Init ==
  /\ rfb_state = "none" /\ connectButton = "connect"
  /\ settingsOpen = FALSE /\ connSettingsOpen = FALSE /\ clipboardOpen = FALSE
  /\ saved \in [Settings -> BOOLEAN] /\ control = saved
  /\ viewport = FALSE /\ viewportDrag = FALSE

Next ==
  \/ Load \/ ClickClipboard \/ ClickSettings \/ ClickConnectPanel \/ ClickDrag \/ ClickApply
  \/ Resize \/ (\E host \in BOOLEAN : Connect(host)) \/ SetPassword \/ Disconnect
  \/ \E s \in Settings, value \in BOOLEAN : Edit(s, value)
  \/ \E state \in {"handshake", "password", "normal", "failed", "disconnect", "disconnected"} :
       StateChanges(state)

Spec == Init /\ [][Next]_vars

-----------------------------------------------------------------------------
(* Properties.                                                             *)

\* Whatever the user clicks and whenever the state changes, one panel is open
\* at most, the display clips exactly when the saved setting says so, and the
\* viewport is dragged in a session only.
PanelsAndModes ==
  /\ ~(settingsOpen /\ connSettingsOpen) /\ ~(settingsOpen /\ clipboardOpen)
  /\ ~(connSettingsOpen /\ clipboardOpen)
  /\ rfb_state # "none" => viewport = saved["clip"]
  /\ viewportDrag => Connected

-----------------------------------------------------------------------------
(* PanelsAndModes, as the handlers keep it.                                *)

States == {"none", "loaded", "connect", "handshake", "password", "normal", "failed",
           "disconnect", "disconnected"}
Meanings == {"connect", "setPassword", "nothing"}
Pages == [state : States, settings : BOOLEAN, connect : BOOLEAN, clipboard : BOOLEAN,
          button : Meanings, saved : [Settings -> BOOLEAN], control : [Settings -> BOOLEAN],
          viewport : BOOLEAN, drag : BOOLEAN]

\* One panel is open at most.
OnePanel(p) == /\ ~(p.settings /\ p.connect) /\ ~(p.settings /\ p.clipboard)
               /\ ~(p.connect /\ p.clipboard)
\* The display clips as the saved setting says.
Clips(p) == p.viewport = p.saved["clip"]

PageInv == /\ page \in Pages /\ OnePanel(page)
           /\ page.state # "none" => Clips(page)
           /\ page.drag => page.state = "normal"

=============================================================================

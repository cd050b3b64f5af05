------------------------------ MODULE Console ------------------------------
(***************************************************************************)
(* What the user of the console has before him: the part of the screen     *)
(* that is shown, keyboard and mouse, the panels and modes of the page,    *)
(* the scripts it loads, the settings it keeps and the password it asks    *)
(* for.  A part takes what it reads of another, a mode or the state of     *)
(* the session, to change at any time, so the parts share no variable;     *)
(* their steps come in any order, one at a time as the browser calls the   *)
(* handlers.  What runs below them, the stream and the encodings, is not   *)
(* here.                                                                   *)
(***************************************************************************)
EXTENDS Integers, Sequences

CONSTANTS
  Sizes, ClearSize, Windows, Drags, MaxPending, MaxSizes,      \* Viewport
  KeyCodes, Shift, Ctrl, DeadKey, Typed(_, _), ListMax,        \* Keyboard
  Buttons, Wheel, ArrMax,                                      \* Mouse
  PageSettings, CursorUri,                                     \* Page
  Files, Asker, Nested,                                        \* Scripts
  SettingType, SettingDefault, RfbDefault, PageDefault, Queries, Texts, Numbers,
  LowerCase(_),                                                \* Settings
  Passwords, Challenges                                        \* Auth

VARIABLES
  port, cr, canvas, clip, fb, viewState, pending, modified, sizes,
  keyDownList, keyFocused, keyGrabbed, keyViewOnly, inWindow, keysHeld, serverDown,
  mouse_buttonMask, mouse_arr, viewportDrag, viewportDragging, mouseFocused, mouseGrabbed,
  mouseViewOnly, buttonsHeld, serverMask, disturbed,
  pageState, settingsOpen, connSettingsOpen, clipboardOpen, connectButton, saved, control,
  viewport, pageDrag,
  engine, readyState, arrived, document, ran, ls, ps, events, started,
  settingsPage, chrome, cursorUri, query, stored, settings, controls, menu, attributes, wanted,
  authState, rfb_password, timer, challenge, unsent, authQueue, response

View == INSTANCE Viewport WITH v <- port, rfb_state <- viewState
Keys == INSTANCE Keyboard WITH
  Keys <- KeyCodes, focused <- keyFocused, grabbed <- keyGrabbed, view_only <- keyViewOnly,
  held <- keysHeld
Pointing == INSTANCE Mouse WITH
  focused <- mouseFocused, grabbed <- mouseGrabbed, view_only <- mouseViewOnly,
  held <- buttonsHeld
Ui == INSTANCE Page WITH
  Settings <- PageSettings, rfb_state <- pageState, viewportDrag <- pageDrag
Loader == INSTANCE Scripts
Kept == INSTANCE Settings WITH
  Type <- SettingType, Default <- SettingDefault, Integers <- Numbers,
  page <- settingsPage, control <- controls, conf <- attributes
Login == INSTANCE Auth WITH rfb_state <- authState, rQ <- authQueue

ASSUME ConsoleAssumption ==
  /\ View!ViewportAssumption /\ Keys!KeyboardAssumption /\ Pointing!MouseAssumption
  /\ Ui!PageAssumption /\ Loader!ScriptsAssumption /\ Kept!SettingsAssumption
  /\ Login!AuthAssumption

-----------------------------------------------------------------------------

viewVars == <<port, cr, canvas, clip, fb, viewState, pending, modified, sizes>>
keyVars == <<keyDownList, keyFocused, keyGrabbed, keyViewOnly, inWindow, keysHeld, serverDown>>
mouseVars == <<mouse_buttonMask, mouse_arr, viewportDrag, viewportDragging, mouseFocused,
               mouseGrabbed, mouseViewOnly, buttonsHeld, serverMask, disturbed>>
pageVars == <<pageState, settingsOpen, connSettingsOpen, clipboardOpen, connectButton, saved,
              control, viewport, pageDrag>>
scriptVars == <<engine, readyState, arrived, document, ran, ls, ps, events, started>>
settingVars == <<settingsPage, chrome, cursorUri, query, stored, settings, controls, menu,
                 attributes, wanted>>
authVars == <<authState, rfb_password, timer, challenge, unsent, authQueue, response>>
consoleVars == <<viewVars, keyVars, mouseVars, pageVars, scriptVars, settingVars, authVars>>

ConsoleInit ==
  /\ View!Init /\ Keys!Init /\ Pointing!Init /\ Ui!Init /\ Loader!Init /\ Kept!Init /\ Login!Init

ViewSteps ==
  View!Next /\ UNCHANGED <<keyVars, mouseVars, pageVars, scriptVars, settingVars, authVars>>
KeysSteps ==
  Keys!Next /\ UNCHANGED <<viewVars, mouseVars, pageVars, scriptVars, settingVars, authVars>>
MouseSteps ==
  Pointing!Next /\ UNCHANGED <<viewVars, keyVars, pageVars, scriptVars, settingVars, authVars>>
PageSteps ==
  Ui!Next /\ UNCHANGED <<viewVars, keyVars, mouseVars, scriptVars, settingVars, authVars>>
ScriptsSteps ==
  Loader!Next /\ UNCHANGED <<viewVars, keyVars, mouseVars, pageVars, settingVars, authVars>>
SettingsSteps ==
  Kept!Next /\ UNCHANGED <<viewVars, keyVars, mouseVars, pageVars, scriptVars, authVars>>
AuthSteps ==
  Login!Next /\ UNCHANGED <<viewVars, keyVars, mouseVars, pageVars, scriptVars, settingVars>>

ConsoleNext ==
  \/ ViewSteps \/ KeysSteps \/ MouseSteps \/ PageSteps \/ ScriptsSteps \/ SettingsSteps \/ AuthSteps

ConsoleSpec == ConsoleInit /\ [][ConsoleNext]_consoleVars

-----------------------------------------------------------------------------
(* The properties of the parts; the modules state them.                    *)

\* Viewport: a pixel of the canvas shows its own place in the frame buffer, or
\* a request on its way or the next one brings it.
EveryPixelComes == View!EveryPixelComes
\* Keyboard: whatever the guest has down, keyDownList knows.
Remembered == Keys!Remembered
\* Mouse: the guest is told every change of a button, and no release is lost.
PointerTold == Pointing!PointerTold
\* Page: one panel at most, the display clips as the saved setting says.
PanelsAndModes == Ui!PanelsAndModes
\* Scripts: the page starts once, when all of its scripts have run in order.
StartsOnce == Loader!StartsOnce
\* Settings: RFB works with what the user asked for last.
Configured == Kept!Configured
\* Auth: the answer to a challenge is the one the server expects.
Accepted == Login!Accepted

=============================================================================

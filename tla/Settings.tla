------------------------------ MODULE Settings ------------------------------
(***************************************************************************)
(* The settings of a console on their way: from the query of the page, the *)
(* storage of the browser or a default (ui.js: initSetting, webutil.js)    *)
(* into the controls, from there into the storage (saveSetting), and from  *)
(* the storage into the attributes of RFB (connect, util.js: conf_default).*)
(* localStorage makes a string of everything it stores, chrome.storage     *)
(* keeps the type and answers later.  The page that DefaultController      *)
(* renders (vnc.html.twig) has neither: it hands the query to RFB.         *)
(***************************************************************************)
EXTENDS Naturals

CONSTANTS
  Type,        \* of each setting: "bool" has a checkbox, "int" and "str" a text
  Default,     \* the value initSetting is given
  RfbDefault,  \* the value the constructor of RFB takes
  PageDefault, \* of the settings the rendered page hands to RFB, its default
  Queries,     \* query strings: a text, or None, for each setting
  Texts,       \* what is typed into a control
  Integers,    \* those of them that parseInt reads
  LowerCase(_) \* toLowerCase of a text

\* The cursor has a checkbox, initSetting a default for every setting, and
\* toLowerCase leaves small letters and digits as they are.
SettingsAssumption ==
  /\ "cursor" \in DOMAIN Type => Type["cursor"] = "bool"
  /\ DOMAIN PageDefault \subseteq DOMAIN Type
  /\ \A s \in DOMAIN Type : Default[s] # [type |-> "null", text |-> "null"]
  /\ \A text \in {"0", "no", "false", "true"} : LowerCase(text) = text

VARIABLES
  page,        \* "none", "asking" (chrome.storage), "ready", "connected" or "auto"
  chrome,      \* whether there is a chrome.storage
  cursorUri,   \* whether the browser shows a cursor of the guest
  query, stored,
  settings,    \* WebUtil.settings
  control,     \* what the controls show
  menu,        \* the settings menu is open
  conf,        \* the attributes of RFB
  wanted       \* what the user asked for, in the query, by default or by hand

vars == <<page, chrome, cursorUri, query, stored, settings, control, menu, conf, wanted>>

Settings == DOMAIN Type
JS(type, text) == [type |-> type, text |-> text]    \* a value and what String makes of it
None == JS("null", "null")
Bool(b) == JS("bool", IF b THEN "true" ELSE "false")
Str(text) == JS("str", text)

No == {"0", "no", "false"}

\* The setter that conf_default gives an attribute; RFB has its own for the
\* cursor, which leaves it as it is when the browser shows none.
Falsy(value) == value = None \/ value = Bool(FALSE) \/ value.text = ""
Setter(type, value) ==
  CASE type = "bool" -> Bool(~(Falsy(value) \/ value.text \in No))
    [] type = "int" -> JS("int", IF value.text \in Integers THEN value.text ELSE "NaN")
    [] OTHER -> Str(value.text)
set_(s, value) ==
  IF s = "cursor" /\ ~cursorUri /\ Setter("bool", value) = Bool(TRUE) THEN conf[s]
  ELSE Setter(Type[s], value)
Constructed == [s \in Settings |-> Setter(Type[s], RfbDefault[s])]

-----------------------------------------------------------------------------

\* writeSetting and readSetting, for a storage st.
Written(value) == IF chrome THEN value ELSE Str(value.text)
readSetting(st, s, default) == IF st[s] = None THEN default ELSE st[s]

\* getSetting: the texts of a checkbox are understood.
getSettingTruthy(st, s) ==   \* mutant: "false" from localStorage is true
  IF Type[s] = "bool" THEN Bool(~Falsy(st[s])) ELSE st[s]
getSetting(st, s) ==
  IF Type[s] = "bool" /\ st[s] # None THEN Bool(LowerCase(st[s].text) \notin No) ELSE st[s]

\* updateSetting: the control shows the setting; a text control has a text.
Shown(st, s) == LET value == getSetting(st, s)
                IN IF Type[s] = "bool" THEN value ELSE Str(IF value = None THEN "" ELSE value.text)
Storage == IF chrome THEN settings ELSE stored
Save(st) ==
  /\ stored' = st
  /\ settings' = IF chrome THEN st ELSE settings

\* UI.start: initSetting for each of them.  Then RFB is constructed, whose
\* first state, told before UI.rfb is set, takes the cursor away.
Initial(st, s) == Written(IF query'[s] # None THEN query'[s] ELSE readSetting(st, s, Default[s]))
Start(st) ==
  LET read == [s \in Settings |-> Initial(st, s)]
      begun == [s \in Settings |-> IF s = "cursor" THEN Written(Bool(FALSE)) ELSE read[s]]
  IN /\ Save(begun)
     /\ control' = [s \in Settings |-> Shown(begun, s)]
     /\ conf' = Constructed
     /\ page' = "ready" /\ menu' = FALSE

\* What a text says.
Meaning(s, value) ==
  IF Type[s] = "bool" THEN Bool(LowerCase(value.text) \notin No) ELSE Str(value.text)
Asked ==
  [s \in Settings |-> IF s = "cursor" THEN Bool(FALSE)
                     ELSE IF query'[s] # None THEN Meaning(s, query'[s])
                     ELSE IF wanted[s] # None THEN wanted[s]
                     ELSE Meaning(s, Default[s])]

\* UI.load: chrome.storage answers later.
Load(q) ==
  /\ page = "none" /\ query' = q /\ UNCHANGED <<chrome, cursorUri>>
  /\ IF chrome
     THEN page' = "asking" /\ UNCHANGED <<stored, settings, control, menu, conf, wanted>>
     ELSE Start(stored) /\ wanted' = Asked
GotSettings ==
  /\ page = "asking" /\ UNCHANGED <<chrome, cursorUri, query>>
  /\ Start(stored) /\ wanted' = Asked

\* The settings menu: opened, edited, closed (settingsApply).
OpenMenu ==
  /\ page = "ready" /\ ~menu /\ menu' = TRUE
  /\ LET st == IF cursorUri THEN Storage ELSE [Storage EXCEPT !["cursor"] = Written(Bool(FALSE))]
     IN Save(st) /\ control' = [s \in Settings |-> Shown(st, s)]
  /\ UNCHANGED <<page, chrome, cursorUri, query, conf, wanted>>
Edit(s, value) ==
  /\ page = "ready" /\ menu /\ (s = "cursor" => cursorUri)
  /\ control' = [control EXCEPT ![s] = value]
  /\ UNCHANGED <<page, chrome, cursorUri, query, stored, settings, menu, conf, wanted>>
saveSetting(s) ==
  IF s = "cursor" /\ ~cursorUri THEN Storage[s] ELSE Written(control[s])
CloseMenu ==
  /\ page = "ready" /\ menu /\ menu' = FALSE
  /\ Save([s \in Settings |-> saveSetting(s)]) /\ wanted' = control
  /\ UNCHANGED <<page, chrome, cursorUri, query, control, conf>>

\* UI.connect, with the menu closed: the connect panel is open.
Connect ==
  /\ page = "ready" /\ ~menu /\ page' = "connected"
  /\ conf' = [s \in Settings |-> set_(s, getSetting(Storage, s))]
  /\ UNCHANGED <<chrome, cursorUri, query, stored, settings, control, menu, wanted>>
Disconnect ==
  /\ page = "connected" /\ page' = "ready"
  /\ UNCHANGED <<chrome, cursorUri, query, stored, settings, control, menu, conf, wanted>>

\* vnc.html.twig: RFB takes what the query says, or the default of the page.
AutoConnect(q) ==
  /\ page = "none" /\ page' = "auto" /\ query' = q
  /\ conf' = [s \in Settings |->
                IF s \notin DOMAIN PageDefault THEN Constructed[s]
                ELSE Setter(Type[s], IF q[s] = None THEN PageDefault[s] ELSE q[s])]
  /\ UNCHANGED <<chrome, cursorUri, stored, settings, control, menu, wanted>>

\* The page goes; the storage stays.
Unload ==
  /\ page # "none" /\ page' = "none" /\ menu' = FALSE
  /\ query' = [s \in Settings |-> None] /\ settings' = query' /\ control' = query' /\ conf' = query'
  /\ UNCHANGED <<chrome, cursorUri, stored, wanted>>

Init ==
  /\ page = "none" /\ chrome \in BOOLEAN /\ cursorUri \in BOOLEAN /\ menu = FALSE
  /\ query = [s \in Settings |-> None] /\ stored = query /\ settings = query
  /\ control = query /\ conf = query /\ wanted = query

Next ==
  \/ \E q \in Queries : Load(q) \/ AutoConnect(q)
  \/ GotSettings \/ OpenMenu \/ CloseMenu \/ Connect \/ Disconnect \/ Unload
  \/ \E s \in Settings, text \in Texts : Type[s] # "bool" /\ Edit(s, Str(text))
  \/ \E s \in Settings, b \in BOOLEAN : Type[s] = "bool" /\ Edit(s, Bool(b))

Spec == Init /\ [][Next]_vars

-----------------------------------------------------------------------------
(* Properties.                                                             *)

\* A checkbox of the page that DefaultController renders takes an empty text and
\* capital letters for yes.
Misread(s, text) ==
  Type[s] = "bool" /\ (text = "" \/ (LowerCase(text) \in No /\ text \notin No))

\* RFB works with what the user asked for last, in the query, in the settings
\* menu or in an earlier visit of the page, whatever the storage makes of the
\* types; and the controls show it while nobody edits them.  The rendered page
\* understands its query alike, but for the texts that it misreads.
Configured ==
  /\ page = "connected" => \A s \in Settings : conf[s] = Setter(Type[s], wanted[s])
  /\ page = "auto" => \A s \in DOMAIN PageDefault :
       query[s] # None /\ ~Misread(s, query[s].text) =>
         conf[s] = Setter(Type[s], Meaning(s, query[s]))
  /\ page \in {"ready", "connected"} /\ ~menu => \A s \in Settings : control[s] = wanted[s]

-----------------------------------------------------------------------------
(* What Configured rests on.                                               *)

\* What is stored says what is wanted; nothing is wanted before the first visit.
StoredIsWanted ==
  /\ stored = [s \in Settings |-> stored[s]]
  /\ \/ \A s \in Settings : stored[s] = None /\ wanted[s] = None
     \/ \A s \in Settings : stored[s] # None /\ wanted[s] = Meaning(s, stored[s])

\* WebUtil.settings is a copy of chrome.storage.
Copied == chrome /\ page \in {"ready", "connected"} => settings = stored

\* A page that has begun has settings, and no cursor if the browser shows none.
Begun ==
  page \in {"ready", "connected"} =>
    /\ \A s \in Settings : stored[s] # None
    /\ "cursor" \in Settings /\ ~cursorUri => wanted["cursor"] = Bool(FALSE)

\* A checkbox has a yes or no, the other controls a text.
Controlled ==
  page \in {"ready", "connected"} /\ menu =>
    /\ control = [s \in Settings |-> control[s]]
    /\ \A s \in Settings : \/ Type[s] = "bool" /\ control[s] \in {Bool(FALSE), Bool(TRUE)}
                           \/ Type[s] # "bool" /\ control[s] = Str(control[s].text)
    /\ "cursor" \in Settings /\ ~cursorUri => control["cursor"] = Bool(FALSE)

SettingsInv == StoredIsWanted /\ Copied /\ Begun /\ Controlled /\ Configured

=============================================================================

---------------------------- MODULE SystemConfig ----------------------------
(***************************************************************************)
(* The system configuration in the hands of administrators                 *)
(* (SystemConfigPage.tsx, and the values admin.service.ts reads and        *)
(* writes).  The page shows all settings as one text, and its save sends   *)
(* all of them back, whichever the administrator meant to change.          *)
(* Accounts has who is let in and what is audited.                         *)
(***************************************************************************)
EXTENDS Naturals, Functions

CONSTANTS
    Editors,        \* administrators, each with the page open
    SuperEditors,   \* the super administrators among them
    Calls,          \* how many requests of the pages are under way at once, as slots
    Settings,       \* keys of the configuration
    Secrets,        \* HIGH_RISK_KEYS among them
    Typings,        \* the values administrators type
    MaxEdits        \* bound: values typed and settings struck out

ASSUME EditorsAssumption == SuperEditors \subseteq Editors
ASSUME SecretsAssumption == Secrets \subseteq Settings
ASSUME EditsAssumption == MaxEdits \in Nat

VARIABLES
    config,   \* the rows of systemConfig: a value for some of the settings
    forms,    \* the page of each administrator
    call,     \* what each request is still to write, or to bring the page
    edits

configVars == <<config, forms, call, edits>>

----------------------------------------------------------------------------
DefaultValue == "default"
Mask == "***MASKED***"
Values == Typings \cup {DefaultValue, Mask}
Texts == UNION { [S -> Values] : S \in SUBSET Settings }

DefaultSystemConfig == [k \in Settings \ Secrets |-> DefaultValue]

\* What of the defaults the rows have not replaced, and the rows.
Merged(defaults, rows) ==
    [k \in DOMAIN defaults \cup DOMAIN rows |-> IF k \in DOMAIN rows THEN rows[k] ELSE defaults[k]]

\* Faulty: the defaults replace the rows.
GetSystemConfigOfDefaults(rows) ==
    [k \in DOMAIN DefaultSystemConfig \cup DOMAIN rows |->
        IF k \in Secrets THEN Mask ELSE Merged(rows, DefaultSystemConfig)[k]]

GetSystemConfig(rows) ==
    [k \in DOMAIN DefaultSystemConfig \cup DOMAIN rows |->
        IF k \in Secrets THEN Mask ELSE Merged(DefaultSystemConfig, rows)[k]]

\* A form's text is its settings; typed and behind are history: the settings changed by hand
\* since the API answered last, and whether a save has written beside this text (see Beside).
Form == [text : Texts, typed : SUBSET Settings, behind : BOOLEAN]
EmptyForm == [text |-> << >>, typed |-> {}, behind |-> FALSE]

\* A request has what its page had when it was sent, or what it brings the page.  While page is
\* "same" that page still rests on the answer it rested on then; it may have got "another" one
\* since, or be "gone".
NoCall == [step |-> "none"]
Call == {NoCall} \cup [step : {"writing", "answer"}, of : Editors, left : SUBSET Settings,
                       text : Texts, typed : SUBSET Settings, failed : BOOLEAN,
                       behind : BOOLEAN, page : {"same", "another", "gone"}]
Sending(e, form) == [step |-> "writing", of |-> e, left |-> DOMAIN form.text, text |-> form.text,
                   typed |-> form.typed, failed |-> FALSE, behind |-> form.behind,
                   page |-> "same"]

\* The requests once the page of e has got another text, or is gone.
Leaves(e, page) ==
    [n \in Calls |-> IF call[n] # NoCall /\ call[n].of = e /\ call[n].page # "gone"
                     THEN [call[n] EXCEPT !.page = page] ELSE call[n]]

----------------------------------------------------------------------------
\* No page has been answered yet.
ConfigInit ==
    /\ config = << >>
    /\ forms = [e \in Editors |-> EmptyForm]
    /\ call = [n \in Calls |-> NoCall]
    /\ edits = 0

\* The page is opened, again, with an empty text, and asks for the configuration; what was
\* under way goes on, for nobody.
Reopen(e, n) ==
    /\ call[n] = NoCall
    /\ forms' = [forms EXCEPT ![e] = EmptyForm]
    /\ call' = [Leaves(e, "gone") EXCEPT ![n] = Sending(e, EmptyForm)]
    /\ UNCHANGED <<config, edits>>

Edits(e, k, text) ==
    /\ edits < MaxEdits /\ edits' = edits + 1
    /\ forms' = [forms EXCEPT ![e].text = text, ![e].typed = @ \cup {k}]
    /\ UNCHANGED <<config, call>>
TypeValue(e, k, v) == Edits(e, k, Merged(forms[e].text, [i \in {k} |-> v]))
StrikeOut(e, k) ==
    /\ k \in DOMAIN forms[e].text
    /\ Edits(e, k, Restrict(forms[e].text, DOMAIN forms[e].text \ {k}))

\* All that the text has is sent, also while another save of the page is under way; the API
\* refuses secrets of any other administrator.
SaveConfig(e, n) ==
    /\ call[n] = NoCall
    /\ DOMAIN forms[e].text \cap Secrets # {} => e \in SuperEditors
    /\ call' = [call EXCEPT ![n] = Sending(e, forms[e])]
    /\ UNCHANGED <<config, forms, edits>>

\* Save n writes beside a text of page o: any text but the one n itself was sent from, and
\* what has been sent from that since.
Beside(n, o, page, typed) ==
    ~(o = call[n].of /\ "same" = call[n].page /\ "same" = page /\ call[n].typed \subseteq typed)

\* The settings are written all at once, in any order.
WriteSetting(n, k) ==
    /\ call[n].step = "writing" /\ k \in call[n].left
    /\ config' = Merged(config, [i \in {k} |-> call[n].text[k]])
    /\ forms' = [o \in Editors |->
                    [forms[o] EXCEPT !.behind = @ \/ Beside(n, o, "same", forms[o].typed)]]
    /\ call' = [m \in Calls |->
                  CASE m = n -> [call[n] EXCEPT !.left = @ \ {k}]
                    [] m # n /\ call[m] = NoCall -> NoCall
                    [] OTHER -> [call[m] EXCEPT !.behind =
                                   @ \/ Beside(n, call[m].of, call[m].page, call[m].typed)]]
    /\ UNCHANGED edits

\* The page is told so at once and keeps its text; the others are written nevertheless.
SettingFails(n, k) ==
    /\ call[n].step = "writing" /\ k \in call[n].left
    /\ call' = [call EXCEPT ![n].left = @ \ {k}, ![n].failed = TRUE]
    /\ UNCHANGED <<config, forms, edits>>

\* The configuration as it has become, after a save, or as it is, for a page just opened.
ReadConfig(n) ==
    /\ call[n].step = "writing" /\ call[n].left = {} /\ ~call[n].failed
    /\ call' = [call EXCEPT ![n].step = "answer", ![n].text = GetSystemConfig(config),
                            ![n].typed = {}, ![n].behind = FALSE,
                            ![n].page = IF @ = "gone" THEN @ ELSE "another"]
    /\ UNCHANGED <<config, forms, edits>>

\* The answer replaces whatever was typed before it came.
Answered(n) ==
    LET e == call[n].of IN
    /\ call[n].step = "answer"
    /\ IF call[n].page = "gone" THEN call' = [call EXCEPT ![n] = NoCall] /\ UNCHANGED forms
       ELSE /\ forms' = [forms EXCEPT ![e] = [text |-> call[n].text, typed |-> call[n].typed,
                                              behind |-> call[n].behind]]
            /\ call' = [Leaves(e, "another") EXCEPT ![n] = NoCall]
    /\ UNCHANGED <<config, edits>>

\* A save that failed has ended, the audit or the reading fails, or the answer is lost: the
\* page keeps its text.
Unanswered(n) ==
    /\ call[n] # NoCall /\ call[n].left = {}
    /\ call' = [call EXCEPT ![n] = NoCall]
    /\ UNCHANGED <<config, forms, edits>>

ConfigNext ==
    \/ \E n \in Calls :
         \/ ReadConfig(n) \/ Answered(n) \/ Unanswered(n)
         \/ \E k \in Settings : WriteSetting(n, k) \/ SettingFails(n, k)
         \/ \E e \in Editors : Reopen(e, n) \/ SaveConfig(e, n)
    \/ \E e \in Editors, k \in Settings :
         StrikeOut(e, k) \/ \E v \in Typings : TypeValue(e, k, v)

----------------------------------------------------------------------------
(* Properties *)

ConfigTypeOK ==
    /\ config \in Texts
    /\ forms \in [Editors -> Form]
    /\ call \in [Calls -> Call]
    /\ edits \in 0 .. MaxEdits

\* Of the settings shown in clear a save changes those its administrator had changed when he
\* sent it and no other, although it sends all of them: also one of several of a page that
\* failed half-way or were sent before the first was answered.  Unless it is behind, its older
\* text then undoing what was written: since the API answered its page last, or while it is
\* under way itself, some save has written but those of the same text with no more changes,
\* be it another administrator's or a later one of this page.
SavesKeepTheRest ==
    [][\A n \in Calls, k \in Settings \ Secrets :
         WriteSetting(n, k) /\ ~call[n].behind /\ k \notin call[n].typed
         => Merged(DefaultSystemConfig, config')[k] = Merged(DefaultSystemConfig, config)[k]]_configVars

\* "Mask sensitive values" (admin.service.ts) is for the eyes of those who look: what is
\* stored of a secret is never the mask it was shown under.
MasksAreNotStored == \A k \in DOMAIN config \cap Secrets : config[k] # Mask
=============================================================================

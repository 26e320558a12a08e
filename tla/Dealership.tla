----------------------------- MODULE Dealership ------------------------------
(***************************************************************************)
(* A dealer's settings: one JSON column, written as a whole by whoever     *)
(* changes a part of it -- the four forms of the settings page, the team   *)
(* endpoints, a representative's Telegram link and free-text window, the   *)
(* administrator's edit form, and every restart (_auto_provision_dealers). *)
(*                                                                         *)
(* A handler that takes its fields as parameters is one step of the event  *)
(* loop.  A form handler loads the dealer first and then awaits the body,  *)
(* so its copy is as old as the upload is long; the administrator's page   *)
(* shows the team it will post back.                                       *)
(***************************************************************************)
EXTENDS Availability

CONSTANTS
  Reps,          \* the names a team may hold
  HoursOf,       \* what the two values of the hours stand for
  Appointments,  \* slots that may be taken
  NoForm,        \* no request of this kind is being received
  MaxOpen,       \* bound: forms being received at once
  MaxWrites      \* bound: requests that change something

ASSUME HoursAssumption == HoursOf \in [0..1 -> [Weekdays -> Opening]]
ASSUME BoundAssumption == MaxOpen \in Nat /\ MaxWrites \in Nat

\* "hours" is dealer.hours, which everybody reads; "shown" is the top-level "hours",
\* which the business form writes and the settings page shows.
Fields == {"number", "shown", "hours", "mode", "quiet", "digest"}
Sections == Fields \cup {"team"}

Member == [chat : BOOLEAN, windows : 0..MaxWrites]
Absent == [chat |-> FALSE, windows |-> -1]
Configs == [fields : [Fields -> 0..1], team : [Reps -> Member \cup {Absent}]]

Forms == {"channels", "business", "ai", "compliance", "admin"}

VARIABLES
  listed,   \* dealers/ has a file for the dealer; otherwise it was onboarded
  exists,   \* there is a row for the dealer
  config,   \* its config column
  column,   \* its sms_number column
  open,     \* per form, the config loaded before the body arrived, or NoForm
  page,     \* the team shown on the administrator's page
  asked,    \* _CONFIRMATION_CACHE: representatives asked to confirm a window
  kept,     \* history: the config as its own handlers have set it
  missed,   \* history: sections set since a form was loaded, a page shown
  writes    \* bound: requests so far

vars == <<listed, exists, config, column, open, page, asked, kept, missed, writes>>

\* What a restart writes: the file, without what its schema does not know.  Each
\* representative in it has the Telegram link the file gives, here none.
FileConfig ==
  [fields |-> [f \in Fields |-> 0], team |-> [r \in Reps |-> [chat |-> FALSE, windows |-> 0]]]

\* _build_dealer_config: a representative of the onboarding form has no "phone" and
\* does not validate, so a dealer is onboarded without a team.
OnboardedConfig(number) ==
  [fields |-> [f \in Fields |-> IF f = "number" THEN number ELSE 0], team |-> [r \in Reps |-> Absent]]

Init ==
  /\ listed \in BOOLEAN
  /\ exists = TRUE
  /\ config = IF listed THEN FileConfig ELSE OnboardedConfig(0)
  /\ column = 0
  /\ open = [f \in Forms |-> NoForm]
  /\ page = config.team
  /\ asked = {}
  /\ kept = config
  /\ missed = [h \in Forms \cup {"page"} |-> {}]
  /\ writes = 0

Request == exists /\ writes < MaxWrites /\ writes' = writes + 1

\* Sections this step sets are missed by every copy that is already out.
Missed(own) == [h \in Forms \cup {"page"} |-> missed[h] \cup own]

Set(c, values) ==
  [c EXCEPT !.fields = [f \in Fields |-> IF f \in DOMAIN values THEN values[f] ELSE c.fields[f]]]

-----------------------------------------------------------------------------
\* The settings forms (dashboard/__init__.py)

\* The dealer is loaded, then the handler waits for the form.
Load(f) ==
  /\ exists /\ writes < MaxWrites
  /\ open[f] = NoForm
  /\ Cardinality({g \in Forms : open[g] # NoForm}) < MaxOpen
  /\ open' = [open EXCEPT ![f] = config]
  /\ missed' = [missed EXCEPT ![f] = {}]
  /\ UNCHANGED <<listed, exists, config, column, page, asked, kept, writes>>

\* What each form posts: a field left blank is not set, hours and quiet hours have a
\* value in any case.
Posted(f) ==
  CASE f = "channels"   -> [{"digest"} -> 0..1]
    [] f = "business"   -> [{"shown"} -> 0..1] \cup [{"shown", "number"} -> 0..1]
    [] f = "ai"         -> [{} -> 0..1] \cup [{"mode"} -> 0..1]
    [] f = "compliance" -> [{"quiet"} -> 0..1]

\* What the handlers have set when form f's values are stored: what the form missed
\* is as it was when the form was loaded.
KeptAfter(f, values) ==
  [fields |-> [g \in Fields |-> IF g \in DOMAIN values THEN values[g]
                               ELSE IF g \in missed[f] THEN open[f].fields[g]
                               ELSE kept.fields[g]],
   team |-> IF "team" \in missed[f] THEN open[f].team ELSE kept.team]

\* Mutated form of Save: the form is laid over defaults, not over the stored config.
SaveOverDefaults(f, values) ==
  /\ Request
  /\ open[f] # NoForm
  /\ config' = [Set(FileConfig, values) EXCEPT !.team = open[f].team]
  /\ kept' = KeptAfter(f, values)
  /\ missed' = Missed(DOMAIN values \cup missed[f])
  /\ open' = [open EXCEPT ![f] = NoForm]
  /\ UNCHANGED <<listed, exists, column, page, asked>>

\* The body has arrived: the copy, with the form's values, replaces the column.
\* flag_modified makes it an UPDATE even when nothing differs.
Save(f, values) ==
  /\ Request
  /\ open[f] # NoForm
  /\ config' = Set(open[f], values)
  /\ kept' = KeptAfter(f, values)
  /\ missed' = Missed(DOMAIN values \cup missed[f])
  /\ open' = [open EXCEPT ![f] = NoForm]
  /\ UNCHANGED <<listed, exists, column, page, asked>>

\* The row is gone when the UPDATE comes: the request fails.
SaveFails(f) ==
  /\ ~exists /\ open[f] # NoForm
  /\ open' = [open EXCEPT ![f] = NoForm]
  /\ UNCHANGED <<listed, exists, config, column, page, asked, kept, missed, writes>>

-----------------------------------------------------------------------------
\* Handlers that change the team in one step

\* One representative's entry is changed in the stored team.
Team(r, row) ==
  /\ Request
  /\ config' = [config EXCEPT !.team[r] = row]
  /\ kept' = [kept EXCEPT !.team[r] = row]
  /\ missed' = Missed({"team"})
  /\ UNCHANGED <<listed, exists, column, open, page>>

\* add_team_member.
AddMember(r) ==
  /\ config.team[r] = Absent
  /\ Team(r, [chat |-> FALSE, windows |-> 0])
  /\ UNCHANGED asked

\* add_unavailable_window, for a representative who is on the team.
AddWindow(r) ==
  /\ config.team[r] # Absent
  /\ Team(r, [config.team[r] EXCEPT !.windows = @ + 1])
  /\ UNCHANGED asked

\* Mutated form of RemoveWindow: the index is not checked.
RemoveWindowUnchecked(r) ==
  /\ Team(r, [config.team[r] EXCEPT !.windows = @ - 1])
  /\ UNCHANGED asked

\* remove_unavailable_window: by its index, which must be there.
RemoveWindow(r) ==
  /\ config.team[r].windows > 0
  /\ Team(r, [config.team[r] EXCEPT !.windows = @ - 1])
  /\ UNCHANGED asked

\* _handle_telegram_start, with the right PIN.
Link(r) ==
  /\ config.team[r] # Absent
  /\ Team(r, [config.team[r] EXCEPT !.chat = TRUE])
  /\ UNCHANGED asked

\* The webhook knows a representative by the chat of his Telegram link.
Knows(r) == config.team[r].chat

\* handle_free_text, a message that announces an absence: asked to confirm it.
Ask(r) ==
  /\ exists /\ Knows(r) /\ r \notin asked /\ writes < MaxWrites
  /\ asked' = asked \cup {r}
  /\ UNCHANGED <<listed, exists, config, column, open, page, kept, missed, writes>>

\* ... and the next message is a yes: the window is stored, once.
Confirm(r) ==
  /\ Knows(r) /\ r \in asked
  /\ Team(r, [config.team[r] EXCEPT !.windows = @ + 1])
  /\ asked' = asked \ {r}

\* ... or anything else.
Cancel(r) ==
  /\ exists /\ Knows(r) /\ r \in asked
  /\ asked' = asked \ {r}
  /\ UNCHANGED <<listed, exists, config, column, open, page, kept, missed, writes>>

-----------------------------------------------------------------------------
\* The administrator (admin/__init__.py)

\* dealer_detail: the edit form shows the team as it is now.  One administrator has
\* one page.
ShowPage ==
  /\ exists /\ writes < MaxWrites
  /\ open["admin"] = NoForm
  /\ page' = config.team
  /\ missed' = [missed EXCEPT !["page"] = {}]
  /\ UNCHANGED <<listed, exists, config, column, open, asked, kept, writes>>

\* What an administrator makes of the team on the page: it as it is, or with a
\* representative taken off or put on.
Edits == {page} \cup {[page EXCEPT ![r] = row] : r \in Reps, row \in {Absent, [chat |-> FALSE, windows |-> 0]}}

\* dealer_edit.  The copy is shallow, so the values set inside its parts are also in
\* the loaded config, which then equals the new one: the column is written only when
\* the team differs.  An empty team is not posted.
Edit(team, values) ==
  LET loaded == open["admin"]
      stored == team # loaded.team /\ \E r \in Reps : page[r] # Absent
  IN  /\ Request
      /\ loaded # NoForm
      /\ column' = values["number"]
      /\ config' = IF stored THEN [Set(loaded, values) EXCEPT !.team = team] ELSE config
      /\ kept' = IF ~stored THEN kept
                 ELSE [KeptAfter("admin", values) EXCEPT !.team =
                         IF "team" \in missed["page"] THEN team
                         ELSE [r \in Reps |-> IF team[r] = page[r] THEN kept.team[r] ELSE team[r]]]
      /\ missed' = IF stored THEN Missed(DOMAIN values \cup {"team"} \cup missed["admin"]) ELSE missed
      /\ open' = [open EXCEPT !["admin"] = NoForm]
      /\ UNCHANGED <<listed, exists, page, asked>>

\* onboarding_submit: refused when the slug is taken.
Onboard(number) ==
  /\ ~exists /\ writes < MaxWrites
  /\ exists' = TRUE
  /\ config' = OnboardedConfig(number)
  /\ column' = number
  /\ kept' = OnboardedConfig(number)
  /\ missed' = Missed(Sections)
  /\ writes' = writes + 1
  /\ UNCHANGED <<listed, open, page, asked>>

\* dealer_delete, of a dealer without leads.
Delete ==
  /\ Request
  /\ exists' = FALSE
  /\ UNCHANGED <<listed, config, column, open, page, asked, kept, missed>>

-----------------------------------------------------------------------------
\* The process starts again: requests in flight and the questions asked are gone, and
\* a dealer with a file has the file's settings.
Restart ==
  /\ writes < MaxWrites
  /\ writes' = writes + 1
  /\ open' = [f \in Forms |-> NoForm]
  /\ asked' = {}
  /\ IF listed
     THEN /\ exists' = TRUE
          /\ config' = FileConfig
          /\ column' = 0
          /\ kept' = FileConfig
          /\ missed' = Missed(Sections)
     ELSE UNCHANGED <<exists, config, column, kept, missed>>
  /\ UNCHANGED <<listed, page>>

Next ==
  \/ \E f \in Forms : Load(f) \/ SaveFails(f)
  \/ \E f \in Forms \ {"admin"} : \E values \in Posted(f) : Save(f, values)
  \/ \E r \in Reps :
       AddMember(r) \/ AddWindow(r) \/ RemoveWindow(r) \/ Link(r) \/ Ask(r) \/ Confirm(r) \/ Cancel(r)
  \/ ShowPage \/ Delete \/ Restart
  \/ \E team \in Edits, values \in [{"number"} -> 0..1] \cup [{"number", "hours"} -> 0..1] : Edit(team, values)
  \/ \E number \in 0..1 : Onboard(number)

Spec == Init /\ [][Next]_vars

-----------------------------------------------------------------------------
\* Every variable stays in its range.
TypeOK ==
  /\ listed \in BOOLEAN /\ exists \in BOOLEAN
  /\ config \in Configs /\ kept \in Configs
  /\ column \in 0..1
  /\ open \in [Forms -> Configs \cup {NoForm}]
  /\ page \in [Reps -> Member \cup {Absent}]
  /\ asked \subseteq Reps
  /\ missed \in [Forms \cup {"page"} -> SUBSET Sections]
  /\ writes \in 0..MaxWrites

\* A setting, a Telegram link or a window that was stored is still there, whatever
\* other handlers, forms and edits did since; only a restart, and a form or page that
\* was already open when it was stored, take it away.
StoredIsKept == config = kept

\* Whatever hours are stored, the times the AI may offer are the earliest free times
\* inside the opening hours that is_business_hours goes by.
HoursAreRight == [h \in 0..1 |-> RightFor(HoursOf[h], Appointments)]

OfferedIsOpen == HoursAreRight[config.fields["hours"]]
=============================================================================

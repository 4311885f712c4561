-------------------------- MODULE ConstructorPage --------------------------
(***************************************************************************)
(* The homework editor of the staff (AssignmentConstructor) and the        *)
(* endpoints of AssignmentsService behind it.  One form edits one          *)
(* assignment at a time; a timer, restarted by every edit, saves it; the   *)
(* assignment the save goes to is read from a ref when it starts, and its  *)
(* answer sets the form's assignment and switch whatever the form shows by *)
(* then.  The content of an assignment is its questions as they are sent   *)
(* (none where a file is asked for); of the title only matters that there  *)
(* is one, and limits and mode go with the switch "published".             *)
(***************************************************************************)
EXTENDS Naturals

CONSTANTS
    Assignments,
    Contents,       \* question lists
    Template,       \* the list a new form starts with
    MaxClicks,      \* bound: edits and clicks
    None,           \* no assignment yet, nothing under way
    Gone            \* an assignment that was deleted

VARIABLES
    row,        \* row[a]: the Assignment
    form,       \* the editor: assignment, title, questions, switch, scope chosen
    skip,       \* skipAutosaveRef
    timer,      \* the autosave timer is running
    hint,       \* the line above the buttons
    saving,     \* the save under way
    loading,    \* loading[a]: the request of the button Open
    deleting    \* the deletion under way behind its dialog

VARIABLES       \* bound and history, read by no other guard
    clicks,     \* edits and clicks so far
    quiet,      \* no failure, no skipped timer, nothing done while an assignment is
                \* opened, nothing opened, begun or deleted during a save
    owner,      \* the assignment the form's questions belong to
    met,        \* assignments an attempt was opened for while its questions were replaced
    switched    \* assignments published on request

past     == <<quiet, owner, met, switched>>
editVars == <<row, form, skip, timer, hint, saving, loading, deleting, clicks, past>>

Row  == [questions : Contents, published : BOOLEAN, attempt : Contents \cup {None}]
\* questions None: all questions of a quiz were deleted.
Form == [id : Assignments \cup {None}, questions : Contents \cup {None},
         published : BOOLEAN, titled : BOOLEAN, scoped : BOOLEAN]
Save == [step : {"patch", "count", "put", "post", "created", "ok", "failed"},
         id : Assignments \cup {None}, questions : Contents, published : BOOLEAN,
         mode : {"draft", "publish", "autosave"}, of : Assignments \cup {None}]

Load == [step : {"asked", "failed"}] \cup [step : {"answered"}, data : Row]
Deletion == [id : Assignments, step : {"asked", "ok", "failed"}, shown : BOOLEAN]

\* What the theorems assume of the constants.
GoodConstants ==
    /\ MaxClicks \in Nat /\ Template \in Contents
    /\ None \notin Assignments \cup Contents \cup Row \cup Save \cup Load \cup Deletion
    /\ Gone \notin Row \cup {None}

TypeOK ==
    /\ row \in [Assignments -> Row \cup {None, Gone}]
    /\ form \in Form
    /\ skip \in BOOLEAN /\ timer \in BOOLEAN /\ quiet \in BOOLEAN
    /\ hint \in {"none", "saving", "saved", "failed", "opened"}
    /\ saving \in Save \cup {None}
    /\ loading \in [Assignments -> Load \cup {None}]
    /\ deleting \in Deletion \cup {None}
    /\ owner \in Assignments \cup {None}
    /\ met \subseteq Assignments /\ switched \subseteq Assignments
    /\ clicks \in 0 .. MaxClicks

Exists(a) == row[a] \notin {None, Gone}

Fresh == [id |-> None, questions |-> Template, published |-> FALSE,
          titled |-> TRUE, scoped |-> FALSE]

Init ==
    /\ row \in [Assignments -> {r \in Row : r.attempt = None} \cup {None}]
    /\ switched = {a \in Assignments : Exists(a) /\ row[a].published}
    /\ form = Fresh /\ skip = FALSE /\ timer = FALSE /\ hint = "none"
    /\ saving = None /\ loading = [a \in Assignments |-> None] /\ deleting = None
    /\ clicks = 0 /\ quiet = TRUE /\ owner = None /\ met = {}

\* The curator does something; the dialog of a deletion blocks the page.
Act ==
    /\ deleting = None
    /\ clicks < MaxClicks /\ clicks' = clicks + 1

Loading == \E a \in Assignments : loading[a] # None
Busy    == saving # None \/ Loading

-----------------------------------------------------------------------------
(***************************************************************************)
(* The editor.                                                             *)
(***************************************************************************)
CanPersist(f) == f.titled /\ f.questions # None /\ f.scoped

\* The effect that runs when a field changed: the running timer is dropped
\* and another is started, unless saving is suspended or the form lacks its
\* title, its questions, or its lesson or module.
Autosave(f, suspended) == timer' = (~suspended /\ CanPersist(f))

Edit(f) ==
    /\ Act
    /\ form' = f /\ f # form
    /\ Autosave(f, skip)
    /\ quiet' = (quiet /\ ~Loading)
    /\ UNCHANGED <<row, skip, hint, saving, loading, deleting, owner, met>>

EditQuestions(q) == Edit([form EXCEPT !.questions = q]) /\ UNCHANGED switched
EditTitle        == Edit([form EXCEPT !.titled = ~@]) /\ UNCHANGED switched
ChooseScope      == form.id = None /\ Edit([form EXCEPT !.scoped = TRUE]) /\ UNCHANGED switched
Switch ==
    /\ Edit([form EXCEPT !.published = ~@])
    /\ switched' = IF form'.published THEN switched \cup ({form.id} \ {None}) ELSE switched

\* Mutant: the assignment of the last save stays the form's.
ResetFields ==
    /\ form' = [Fresh EXCEPT !.id = form.id] /\ skip' = FALSE /\ timer' = FALSE /\ hint' = "none"
    /\ owner' = None

\* resetDraft; whatever the timer would have saved is gone.
ResetDraft ==
    /\ form' = Fresh /\ skip' = FALSE /\ timer' = FALSE /\ hint' = "none"
    /\ owner' = None

New ==
    /\ Act /\ form.id # None
    /\ ResetDraft
    /\ quiet' = (quiet /\ ~Busy)
    /\ UNCHANGED <<row, saving, loading, deleting, met, switched>>

Open(a) ==
    /\ Act /\ Exists(a) /\ loading[a] = None
    /\ loading' = [loading EXCEPT ![a] = [step |-> "asked"]]
    /\ skip' = TRUE
    /\ quiet' = (quiet /\ ~Busy)
    /\ UNCHANGED <<row, form, timer, hint, saving, deleting, owner, met, switched>>

\* The form is filled; saving is suspended until a timeout of 0 ms, and the
\* effect runs before or after it.
Opened(a) ==
    /\ loading[a] # None /\ loading[a].step = "answered"
    /\ form' = [id |-> a, questions |-> loading[a].data.questions,
                published |-> loading[a].data.published, titled |-> TRUE, scoped |-> TRUE]
    /\ skip' = FALSE
    /\ \E suspended \in BOOLEAN : Autosave(form', suspended)
    /\ hint' = "opened" /\ owner' = a
    /\ loading' = [loading EXCEPT ![a] = None]
    /\ UNCHANGED <<clicks, row, saving, deleting, quiet, met, switched>>

OpenFails(a) ==
    /\ loading[a] # None /\ loading[a].step \in {"asked", "failed"}
    /\ loading' = [loading EXCEPT ![a] = None]
    /\ skip' = FALSE /\ quiet' = FALSE
    /\ UNCHANGED <<clicks, row, form, timer, hint, saving, deleting, owner, met, switched>>

\* persist: one save at a time; an autosave leaves the switch as it is and
\* creates drafts only.
Persist(mode) ==
    /\ saving = None /\ CanPersist(form)
    /\ saving' = [step |-> IF form.id = None THEN "post" ELSE "patch",
                  id |-> form.id, questions |-> form.questions,
                  published |-> CASE mode = "publish" -> TRUE
                                  [] mode = "draft" -> FALSE
                                  [] OTHER -> form.id # None /\ form.published,
                  mode |-> mode, of |-> owner]
    /\ hint' = IF mode = "autosave" THEN "saving" ELSE hint
    /\ UNCHANGED <<row, form, skip, loading, deleting, owner, met>>

ClickSave(mode) ==
    /\ Act
    /\ Persist(mode)
    /\ switched' = IF mode = "publish" THEN switched \cup ({form.id} \ {None}) ELSE switched
    /\ quiet' = (quiet /\ ~Loading)
    /\ UNCHANGED timer

\* The timer ends; during a save or while an assignment is being opened the
\* edits wait for the next one.
TimerFires ==
    /\ timer
    /\ timer' = FALSE
    /\ IF skip \/ saving # None
       THEN /\ quiet' = FALSE
            /\ UNCHANGED <<row, form, skip, hint, saving, loading, deleting, owner, met>>
       ELSE /\ Persist("autosave")
            /\ quiet' = (quiet /\ ~Loading)
    /\ UNCHANGED <<clicks, switched>>

\* The answer sets the switch, and after a creation the assignment, of
\* whatever is on the form by then.
Saved ==
    /\ saving # None /\ saving.step \in {"ok", "created"}
    /\ form' = [form EXCEPT !.published = saving.published,
                            !.id = IF saving.step = "created" THEN saving.id ELSE @]
    /\ owner' = IF saving.step = "created" /\ owner = None THEN saving.id ELSE owner
    /\ IF form'.published = form.published THEN UNCHANGED timer ELSE Autosave(form', skip)
    /\ hint' = "saved" /\ saving' = None
    /\ UNCHANGED <<clicks, row, skip, loading, deleting, quiet, met, switched>>

NotSaved ==
    /\ saving # None /\ saving.step = "failed"
    /\ hint' = IF saving.mode = "autosave" THEN "failed" ELSE hint
    /\ saving' = None
    /\ UNCHANGED <<clicks, row, form, skip, timer, loading, deleting, past>>

\* The dialog blocks the page until the deletion is answered; it knows the
\* assignment the form showed when it was opened.
Delete(a) ==
    /\ Act /\ Exists(a)
    /\ deleting' = [id |-> a, step |-> "asked", shown |-> form.id = a]
    /\ quiet' = (quiet /\ ~Busy)
    /\ UNCHANGED <<row, form, skip, timer, hint, saving, loading, owner, met, switched>>

Deleted ==
    /\ deleting # None /\ deleting.step # "asked"
    /\ deleting' = None
    /\ IF deleting.step = "ok" /\ deleting.shown THEN ResetDraft
       ELSE UNCHANGED <<form, skip, timer, hint, owner>>
    /\ UNCHANGED <<clicks, row, saving, loading, quiet, met, switched>>

-----------------------------------------------------------------------------
(***************************************************************************)
(* AssignmentsService and the network.                                     *)
(***************************************************************************)
At(step) == saving # None /\ saving.step = step

Created ==
    /\ At("post")
    /\ \E a \in Assignments :
        /\ row[a] = None
        /\ row' = [row EXCEPT ![a] = [questions |-> saving.questions,
                                      published |-> saving.published, attempt |-> None]]
        /\ saving' = [saving EXCEPT !.step = "created", !.id = a, !.of = a]
        /\ switched' = IF saving.published THEN switched \cup {a} ELSE switched
    /\ UNCHANGED <<clicks, form, skip, timer, hint, loading, deleting, quiet, owner, met>>

\* update, where the deadline in the calendar follows (module Calendar).
Updated ==
    /\ At("patch")
    /\ IF ~Exists(saving.id)
       THEN saving' = [saving EXCEPT !.step = "failed"] /\ UNCHANGED row
       ELSE /\ saving' = [saving EXCEPT !.step = "count"]
            /\ row' = [row EXCEPT ![saving.id].published = saving.published]
    /\ UNCHANGED <<clicks, form, skip, timer, hint, loading, deleting, past>>

\* Mutant: the attempts are not looked at.
CountedNone ==
    /\ At("count")
    /\ saving' = [saving EXCEPT !.step = IF Exists(saving.id) THEN "put" ELSE "ok"]
    /\ UNCHANGED <<clicks, row, form, skip, timer, hint, loading, deleting, past>>

\* replaceQuestions counts the attempts ...
Counted ==
    /\ At("count")
    /\ saving' = [saving EXCEPT !.step =
          IF Exists(saving.id) /\ row[saving.id].attempt = None THEN "put" ELSE "ok"]
    /\ UNCHANGED <<clicks, row, form, skip, timer, hint, loading, deleting, past>>

\* ... and replaces the questions in a transaction.
ReplaceQuestions ==
    /\ At("put")
    /\ row' = IF ~Exists(saving.id) THEN row
              ELSE [row EXCEPT ![saving.id].questions = saving.questions]
    /\ saving' = [saving EXCEPT !.step = "ok"]
    /\ UNCHANGED <<clicks, form, skip, timer, hint, loading, deleting, past>>

\* A request or its answer is lost; that of the questions is passed over.
SaveFails ==
    /\ saving # None
    /\ \/ saving.step \in {"patch", "post", "created", "count"}
          /\ saving' = [saving EXCEPT !.step = "failed"]
       \/ saving.step \in {"count", "put"}
          /\ saving' = [saving EXCEPT !.step = "ok"]
    /\ quiet' = FALSE
    /\ UNCHANGED <<clicks, row, form, skip, timer, hint, loading, deleting,
                   owner, met, switched>>

Read(a) ==
    /\ loading[a] = [step |-> "asked"]
    /\ loading' = [loading EXCEPT ![a] = IF ~Exists(a) THEN [step |-> "failed"]
                                         ELSE [step |-> "answered", data |-> row[a]]]
    /\ UNCHANGED <<clicks, row, form, skip, timer, hint, saving, deleting, past>>

Removed ==
    /\ deleting # None /\ deleting.step = "asked"
    /\ \/ /\ row' = [row EXCEPT ![deleting.id] = Gone]
          /\ deleting' = [deleting EXCEPT !.step = "ok"]
          /\ UNCHANGED quiet
       \/ /\ deleting' = [deleting EXCEPT !.step = "failed"]
          /\ quiet' = FALSE /\ UNCHANGED row
    /\ UNCHANGED <<clicks, form, skip, timer, hint, saving, loading, owner, met, switched>>

\* A student opens an attempt (module Attempts): its answers refer to the
\* questions there are.
OpenAttempt(a) ==
    /\ Exists(a) /\ row[a].published /\ row[a].attempt = None
    /\ row' = [row EXCEPT ![a].attempt = row[a].questions]
    /\ met' = IF At("put") /\ saving.id = a THEN met \cup {a} ELSE met
    /\ UNCHANGED <<clicks, form, skip, timer, hint, saving, loading, deleting, quiet, owner, switched>>

Next ==
    \/ \E q \in Contents \cup {None} : EditQuestions(q)
    \/ EditTitle \/ ChooseScope \/ Switch \/ New
    \/ \E mode \in {"draft", "publish"} : ClickSave(mode)
    \/ TimerFires \/ Saved \/ NotSaved \/ Deleted
    \/ Created \/ Updated \/ Counted \/ ReplaceQuestions \/ SaveFails \/ Removed
    \/ \E a \in Assignments :
        Open(a) \/ Opened(a) \/ OpenFails(a) \/ Delete(a) \/ Read(a) \/ OpenAttempt(a)

Spec == Init /\ [][Next]_editVars

-----------------------------------------------------------------------------
(***************************************************************************)
(* Properties.                                                             *)
(***************************************************************************)
\* While nothing is opened, begun or deleted during a save, questions are
\* only written to the assignment they were loaded from or created as.
OwnQuestions ==
    quiet => /\ saving # None => saving.id = saving.of
             /\ form.id = owner

\* Students see an assignment only after somebody published it: no save, of
\* whatever mode and however late its answer, publishes a draft by itself.
PublishedOnRequest ==
    \A a \in Assignments : Exists(a) /\ row[a].published => a \in switched
PublishedOnRequestWhenQuiet == quiet => PublishedOnRequest

\* A settled editor that says "saved" over a complete form shows what the
\* server has, unless a student's attempt froze the questions.  Who deletes
\* the title or the last question sees "saved" go on over what no timer will
\* save; the next edit that completes the form starts one.
SavedIsOnServer ==
    quiet /\ hint = "saved" /\ ~timer /\ ~Busy /\ deleting = None /\ form.id # None
    /\ CanPersist(form) =>
        /\ Exists(form.id)
        /\ row[form.id].published = form.published
        /\ row[form.id].attempt = None => row[form.id].questions = form.questions

\* Attempted questions are not replaced, save by a request that counted
\* before the attempt was opened.
QuestionsStand ==
    \A a \in Assignments \ met :
        Exists(a) /\ row[a].attempt # None => row[a].questions = row[a].attempt

=============================================================================

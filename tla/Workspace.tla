----------------------------- MODULE Workspace ------------------------------
(***************************************************************************)
(* The curator's page of one course: CourseWorkspace with its settings     *)
(* form and LessonEditPanel, over CoursesService.update, CourseModules-    *)
(* Service and LessonsService.  Both forms take their initial values when  *)
(* they are mounted and send all their fields.  The settings form is       *)
(* mounted anew when the title it was made from changes; the panel holds   *)
(* the lesson as it was in the list when it was clicked, and can be closed *)
(* at any time: what was sent goes on without it, the second half of a     *)
(* save included.  Another curator works on the same course.  The one      *)
(* lesson stands for any, its module is there; title stands for the fields *)
(* of the form's key, price for the others.                                *)
(***************************************************************************)
EXTENDS Naturals

CONSTANTS
    Values,     \* titles and prices
    Slots,      \* slots for the requests of lesson panels
    MaxOthers,  \* bound: changes by the other curator
    MaxSaves,   \* bound: saves of this one
    None

Fields == {"title", "price"}
Videos == {"none", "link", "file"}
Links  == {"none", "kept", "typed"}

VARIABLES       \* the database
    course,     \* the fields of the course
    lesson      \* the video of the lesson, "absent" before it and "gone" after

VARIABLES       \* the page
    cached,     \* course and lesson as last read
    tab,        \* the tab shown
    form,       \* the settings form, None unless mounted
    saving,     \* the settings sent, None when none are
    panel,      \* the lesson panel: the link in its field, kept or typed
    task,       \* requests of lesson panels, this one's or of some before
    others,     \* changes the other curator has made
    saves

VARIABLES       \* history
    typed,      \* fields edited since the form was mounted
    stale,      \* fields written elsewhere and not read by this page since
    choice,     \* the video chosen last: a file picked, or a link saved
    calm        \* nobody else changed the lesson, no request for its video
                \* failed or met another, no old link was sent over a file

pageState     == <<cached, tab, form, saving, panel, task, others, saves>>
history       == <<typed, stale, choice, calm>>
workspaceVars == <<course, lesson, pageState, history>>

Courses == [Fields -> Values]
Panels  == [link : Links]
\* mine: the panel it came from is open.
Tasks   == [step : {"patch", "video", "upload"}, link : Links, mine : BOOLEAN]

\* What the theorems assume of the constants.
GoodConstants ==
    /\ MaxOthers \in Nat /\ MaxSaves \in Nat
    /\ None \notin Courses \cup Panels \cup Tasks

TypeOK ==
    /\ course \in Courses
    /\ lesson \in Videos \cup {"absent", "gone"}
    /\ cached \in [course : Courses, lesson : Videos \cup {"absent", "gone"}]
    /\ tab \in {"content", "settings"}
    /\ form \in Courses \cup {None} /\ saving \in Courses \cup {None}
    /\ panel \in Panels \cup {None}
    /\ task \in [Slots -> Tasks \cup {None}]
    /\ others \in 0 .. MaxOthers /\ saves \in 0 .. MaxSaves
    /\ typed \subseteq Fields /\ stale \subseteq Fields
    /\ choice \in Videos /\ calm \in BOOLEAN

Init ==
    /\ \E v \in Values : course = [f \in Fields |-> v]
    /\ lesson = "absent"
    /\ cached = [course |-> course, lesson |-> lesson]
    /\ tab = "content" /\ form = None /\ saving = None
    /\ panel = None /\ task = [t \in Slots |-> None] /\ others = 0 /\ saves = 0
    /\ typed = {} /\ stale = {} /\ choice = "none" /\ calm = TRUE

-----------------------------------------------------------------------------
\* The query ['course', id] is read: on a focus, and after every save.
Key(fields) == fields["title"]

Refetch ==
    /\ cached' = [course |-> course, lesson |-> lesson]
    /\ stale' = stale \ {"title"}
    /\ IF form # None /\ Key(course) # Key(cached.course)
       THEN form' = course /\ typed' = {}
       ELSE UNCHANGED <<form, typed>>
    /\ UNCHANGED <<course, lesson, tab, saving, panel, task, others, saves,
                   choice, calm>>

\* Only the tab shown is mounted.
SetTab(key) ==
    /\ key # tab /\ panel = None
    /\ tab' = key
    /\ form' = (IF key = "settings" THEN cached.course ELSE None)
    /\ typed' = {}
    /\ stale' = {f \in Fields : cached.course[f] # course[f]}
    /\ UNCHANGED <<course, lesson, cached, saving, panel, task, others, saves,
                   choice, calm>>

Type(f, v) ==
    /\ form # None /\ form[f] # v
    /\ form' = [form EXCEPT ![f] = v]
    /\ typed' = typed \cup {f}
    /\ UNCHANGED <<course, lesson, cached, tab, saving, panel, task, others, saves,
                   stale, choice, calm>>

-----------------------------------------------------------------------------
SaveSettings ==
    /\ form # None /\ saving = None /\ saves < MaxSaves
    /\ saving' = form /\ saves' = saves + 1
    /\ UNCHANGED <<course, lesson, cached, tab, form, panel, task, others, history>>

\* CoursesService.update writes every field it is given.
SettingsArrive ==
    /\ saving # None
    /\ course' = saving /\ saving' = None
    /\ stale' = stale \cup {f \in Fields : course[f] # saving[f]}
    /\ UNCHANGED <<lesson, cached, tab, form, panel, task, others, saves,
                   typed, choice, calm>>

SettingsFail ==
    /\ saving # None
    /\ saving' = None
    /\ UNCHANGED <<course, lesson, cached, tab, form, panel, task, others, saves, history>>

-----------------------------------------------------------------------------
(***************************************************************************)
(* Lessons.                                                                *)
(***************************************************************************)
There == lesson \in Videos

\* Adding a lesson needs its title only.
AddLesson ==
    /\ tab = "content" /\ lesson = "absent"
    /\ lesson' = "none"
    /\ UNCHANGED <<course, pageState, history>>

\* The panel starts from the list, not from the server.
EditLesson ==
    /\ tab = "content" /\ cached.lesson \in Videos /\ panel = None
    /\ panel' = [link |-> IF cached.lesson = "link" THEN "kept" ELSE "none"]
    /\ UNCHANGED <<course, lesson, cached, tab, form, saving, task, others, saves, history>>

\* What a closed panel has sent goes on.
Orphaned(tasks) ==
    [t \in Slots |-> IF tasks[t] = None THEN None ELSE [tasks[t] EXCEPT !.mine = FALSE]]

ClosePanel ==
    /\ panel # None
    /\ panel' = None /\ task' = Orphaned(task)
    /\ UNCHANGED <<course, lesson, cached, tab, form, saving, others, saves, history>>

TypeLink(link) ==
    /\ panel # None
    /\ panel' = [panel EXCEPT !.link = link]
    /\ UNCHANGED <<course, lesson, cached, tab, form, saving, task, others, saves, history>>

Running(step)  == {t \in Slots : task[t] # None /\ task[t].step = step}
\* Requests that will write the video.
VideoWriters ==
    Running("upload") \cup {t \in Running("patch") \cup Running("video") : task[t].link # "none"}

\* The button is blocked while the first request of its save is under way.
SaveLesson(t) ==
    /\ panel # None /\ \A o \in Running("patch") : ~task[o].mine
    /\ task[t] = None /\ saves < MaxSaves
    /\ task' = [task EXCEPT ![t] = [step |-> "patch", link |-> panel.link, mine |-> TRUE]]
    /\ saves' = saves + 1
    /\ choice' = IF panel.link = "typed" THEN "link" ELSE choice
    /\ calm' = (calm /\ (panel.link # "none" => VideoWriters = {})
                     /\ (panel.link = "kept" => choice = "link"))
    /\ UNCHANGED <<course, lesson, cached, tab, form, saving, panel, others, typed, stale>>

\* The end of a save closes the panel, whichever is open by then.
Ends(t) ==
    /\ panel' = None
    /\ task' = Orphaned([task EXCEPT ![t] = None])

\* Mutant: a save is over with its panel.
PatchArrivesMine(t) ==
    /\ t \in Running("patch") /\ There
    /\ IF task[t].link = "none" \/ ~task[t].mine THEN Ends(t)
       ELSE task' = [task EXCEPT ![t].step = "video"] /\ UNCHANGED panel
    /\ UNCHANGED <<course, lesson, cached, tab, form, saving, others, saves, history>>

\* The other fields of the lesson are written, then, if there is a link, its
\* video.
PatchArrives(t) ==
    /\ t \in Running("patch") /\ There
    /\ IF task[t].link = "none" THEN Ends(t)
       ELSE task' = [task EXCEPT ![t].step = "video"] /\ UNCHANGED panel
    /\ UNCHANGED <<course, lesson, cached, tab, form, saving, others, saves, history>>

VideoArrives(t) ==
    /\ t \in Running("video") /\ There
    /\ lesson' = "link"
    /\ Ends(t)
    /\ UNCHANGED <<course, cached, tab, form, saving, others, saves, history>>

\* The file goes at once, beside the form, which keeps its link.
UploadVideo(t) ==
    /\ panel # None
    /\ task[t] = None
    /\ task' = [task EXCEPT ![t] = [step |-> "upload", link |-> "none", mine |-> TRUE]]
    /\ choice' = "file"
    /\ calm' = (calm /\ VideoWriters = {})
    /\ UNCHANGED <<course, lesson, cached, tab, form, saving, panel, others, saves,
                   typed, stale>>

UploadArrives(t) ==
    /\ t \in Running("upload") /\ There
    /\ lesson' = "file"
    /\ task' = [task EXCEPT ![t] = None]
    /\ UNCHANGED <<course, cached, tab, form, saving, panel, others, saves, history>>

\* A request fails, or its lesson is gone: the panel stays, with what was
\* written before.
LessonFails(t) ==
    /\ task[t] # None
    /\ task' = [task EXCEPT ![t] = None]
    /\ calm' = (calm /\ t \notin VideoWriters)
    /\ UNCHANGED <<course, lesson, cached, tab, form, saving, panel, others, saves,
                   typed, stale, choice>>

\* From the list or from the panel, behind a dialog.
RemoveLesson ==
    /\ There /\ cached.lesson \in Videos /\ tab = "content"
    /\ lesson' = "gone"
    /\ panel' = None /\ task' = Orphaned(task)
    /\ UNCHANGED <<course, cached, tab, form, saving, others, saves, history>>

-----------------------------------------------------------------------------
\* The other curator.
OtherSaves(f, v) ==
    /\ others < MaxOthers /\ course[f] # v
    /\ course' = [course EXCEPT ![f] = v] /\ others' = others + 1
    /\ stale' = stale \cup {f}
    /\ UNCHANGED <<lesson, cached, tab, form, saving, panel, task, saves,
                   typed, choice, calm>>

OtherEdits(l) ==
    /\ others < MaxOthers /\ There /\ l # lesson
    /\ lesson' = l /\ others' = others + 1 /\ calm' = FALSE
    /\ UNCHANGED <<course, cached, tab, form, saving, panel, task, saves,
                   typed, stale, choice>>

Next ==
    \/ Refetch
    \/ \E key \in {"content", "settings"} : SetTab(key)
    \/ \E f \in Fields, v \in Values : Type(f, v) \/ OtherSaves(f, v)
    \/ SaveSettings \/ SettingsArrive \/ SettingsFail
    \/ AddLesson \/ EditLesson \/ ClosePanel \/ RemoveLesson
    \/ \E link \in {"none", "typed"} : TypeLink(link)
    \/ \E t \in Slots :
        \/ SaveLesson(t) \/ PatchArrives(t) \/ VideoArrives(t)
        \/ UploadVideo(t) \/ UploadArrives(t) \/ LessonFails(t)
    \/ \E l \in Videos : OtherEdits(l)

Spec == Init /\ [][Next]_workspaceVars

-----------------------------------------------------------------------------
(***************************************************************************)
(* Properties.                                                             *)
(***************************************************************************)
\* The settings a curator sends change only what he edited, and what others
\* changed behind the page: a title changed by others is back in the form
\* as soon as the page has read it.  A price is not.
SendsWhatWasEdited ==
    form # None => {f \in Fields : form[f] # course[f]} \subseteq typed \cup stale

\* The video of a lesson is a file after a file was picked last and a link
\* after a link was saved last (which link is not told apart), whatever is
\* closed, opened or read while it is sent; unless a request for it failed or
\* met another one, somebody else edits the lesson, or a panel opened on a
\* link is saved after a file was picked, which brings the old link back.
VideoIsLastChosen ==
    calm /\ There /\ VideoWriters = {} => lesson = choice

=============================================================================

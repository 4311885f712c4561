----------------------------- MODULE ReviewPages -----------------------------
(***************************************************************************)
(* A review of one course seen from its two pages: the dialog in which a   *)
(* student with a place writes it (CourseReviewsModal), and the page on    *)
(* which a moderator reads and judges it (StaffReviewsPage).  A call of    *)
(* the API is one step here; what its statements do to each other is the   *)
(* subject of module Reviews.  Saving takes a call for the text, one for   *)
(* every photo taken away and one for every photo added.                   *)
(***************************************************************************)
EXTENDS Naturals, FiniteSets

CONSTANTS
    Texts,          \* ratings and texts
    Pictures,       \* pictures the author may attach
    MaxPhotos,      \* MAX_PHOTOS
    MaxSaves,       \* bound: saves and deletions asked for
    None

Rows == Pictures \X {1, 2}      \* stored files: the second is a duplicate

VARIABLES           \* Postgres
    review,         \* the CourseReview, or None
    photos          \* its StoredFile rows

VARIABLES           \* the dialog of the author
    mine,           \* eligibility.data: the review and its photos as last fetched
    form,           \* the form while it is open, else None
    save,           \* the mutation save: what it was clicked with and how far it is
    deleting        \* the mutation removeReview is under way

VARIABLES           \* the page of the moderator
    read,           \* the row the moderator has before him, as it was polled
    verdict         \* the mutation moderate

VARIABLES           \* history; clicks also bounds the run
    clicks,         \* saves and deletions asked for
    told,           \* the form of the last save reported as done, until the next click
    calm            \* no two calls of the dialog at a time, and no failure

dialog     == <<mine, form, save, deleting>>
staff      == <<read, verdict>>
history    == <<clicks, told, calm>>
reviewVars == <<review, photos, dialog, staff, history>>

Review == [status : {"PENDING", "APPROVED", "REJECTED"}, text : Texts,
           public : Texts \cup {None}]
Mine   == [review : Review \cup {None}, photos : SUBSET Rows]
Form   == [editing : BOOLEAN, text : Texts, kept : SUBSET Rows, removed : SUBSET Rows,
           fresh : SUBSET Pictures]
Save   == [form : Form, gone : SUBSET Rows, sent : SUBSET Pictures,
           step : {"text", "files", "fetch"}]

\* What the theorems assume of the constants.
GoodConstants ==
    /\ MaxSaves \in Nat
    /\ None \notin Texts \cup Review \cup Form \cup Save
                    \cup {"asked", "fetch", "APPROVED", "REJECTED"}

TypeOK ==
    /\ review \in Review \cup {None} /\ photos \subseteq Rows
    /\ mine \in Mine
    /\ form \in Form \cup {None} /\ save \in Save \cup {None}
    /\ deleting \in {None, "asked", "fetch"}
    /\ read \in Texts \cup {None}
    /\ verdict \in {None, "APPROVED", "REJECTED"}
    /\ clicks \in 0 .. MaxSaves /\ told \in Form \cup {None} /\ calm \in BOOLEAN

Init ==
    /\ review = None /\ photos = {}
    /\ mine = [review |-> None, photos |-> {}]
    /\ form = None /\ save = None /\ deleting = None
    /\ read = None /\ verdict = None
    /\ clicks = 0 /\ told = None /\ calm = TRUE

-----------------------------------------------------------------------------
(***************************************************************************)
(* The author.  eligibility and presentMine answer with what is stored.    *)
(***************************************************************************)
CanWrite == mine.review # None => mine.review.status = "REJECTED"
Shown(f) == f # None /\ (CanWrite \/ f.editing)
Fetched  == mine' = [review |-> review, photos |-> photos]
Left(f)  == f.kept \ f.removed

StartCreate ==
    /\ form = None /\ CanWrite
    /\ \E x \in Texts :
        form' = [editing |-> FALSE, text |-> x, kept |-> {}, removed |-> {}, fresh |-> {}]
    /\ UNCHANGED <<review, photos, mine, save, deleting, staff, history>>

StartEdit ==
    /\ form = None /\ mine.review # None
    /\ form' = [editing |-> TRUE, text |-> mine.review.text, kept |-> mine.photos,
                removed |-> {}, fresh |-> {}]
    /\ UNCHANGED <<review, photos, mine, save, deleting, staff, history>>

\* The form can be changed while its save is under way; it offers room for
\* MaxPhotos pictures.
Edit ==
    /\ Shown(form)
    /\ \/ \E x \in Texts \ {form.text} : form' = [form EXCEPT !.text = x]
       \/ \E p \in Left(form) : form' = [form EXCEPT !.removed = @ \cup {p}]
       \/ /\ Cardinality(Left(form)) + Cardinality(form.fresh) < MaxPhotos
          /\ \E p \in Pictures \ form.fresh :
                p \notin {r[1] : r \in form.kept} /\ form' = [form EXCEPT !.fresh = @ \cup {p}]
    /\ UNCHANGED <<review, photos, mine, save, deleting, staff, history>>

Abandon ==
    /\ Shown(form) /\ form' = None
    /\ UNCHANGED <<review, photos, mine, save, deleting, staff, history>>

Asks ==
    /\ clicks < MaxSaves /\ clicks' = clicks + 1
    /\ told' = None
    /\ calm' = (calm /\ save = None /\ deleting = None)

ClickSave ==
    /\ save = None /\ Shown(form) /\ Asks
    /\ save' = [form |-> form, gone |-> {}, sent |-> {}, step |-> "text"]
    /\ UNCHANGED <<review, photos, mine, form, deleting, staff>>

ClickDelete ==
    /\ deleting = None /\ mine.review # None /\ form = None /\ Asks
    /\ deleting' = "asked"
    /\ UNCHANGED <<review, photos, mine, form, save, staff>>

\* POST creates the review, or sends a rejected one again; PATCH edits it,
\* in the catalogue at once if it is there.
Writable(f) == IF f.editing THEN review # None
               ELSE review # None => review.status = "REJECTED"
Pending(x)  == [status |-> "PENDING", text |-> x,
                public |-> IF review = None THEN None ELSE review.public]
Live(x)     == [status |-> "APPROVED", text |-> x, public |-> x]

SaveText ==
    /\ save # None /\ save.step = "text" /\ Writable(save.form)
    /\ review' = IF save.form.editing /\ review.public # None
                 THEN Live(save.form.text) ELSE Pending(save.form.text)
    /\ save' = [save EXCEPT !.step = "files"]
    /\ UNCHANGED <<photos, mine, form, deleting, staff, history>>

RemovePhoto ==
    /\ save # None /\ save.step = "files"
    /\ \E r \in (save.form.removed \ save.gone) \cap photos :
        photos' = photos \ {r} /\ save' = [save EXCEPT !.gone = @ \cup {r}]
    /\ UNCHANGED <<review, mine, form, deleting, staff, history>>

AddPhoto ==
    /\ save # None /\ save.step = "files" /\ save.form.removed = save.gone
    /\ review # None
    /\ \E p \in save.form.fresh \ save.sent :
        /\ photos' = photos \cup {<<p, IF <<p, 1>> \in photos THEN 2 ELSE 1>>}
        /\ save' = [save EXCEPT !.sent = @ \cup {p}]
    /\ UNCHANGED <<review, mine, form, deleting, staff, history>>

\* Mutant: the save is reported with its text, before its photos.
SavedEarly ==
    /\ save # None /\ save.step = "files"
    /\ save' = [save EXCEPT !.step = "fetch"]
    /\ form' = None /\ told' = save.form
    /\ UNCHANGED <<review, photos, mine, deleting, staff, clicks, calm>>

\* onSuccess closes the form as it is now, and fetches.
Saved ==
    /\ save # None /\ save.step = "files"
    /\ save.form.removed = save.gone /\ save.form.fresh = save.sent
    /\ save' = [save EXCEPT !.step = "fetch"]
    /\ form' = None /\ told' = save.form
    /\ UNCHANGED <<review, photos, mine, deleting, staff, clicks, calm>>

\* A statement is refused, or lost before or after it took effect.
SaveFails ==
    /\ save # None /\ save.step # "fetch"
    /\ save' = None /\ calm' = FALSE
    /\ UNCHANGED <<review, photos, mine, form, deleting, staff, clicks, told>>

DeleteReview ==
    /\ deleting = "asked"
    /\ \/ /\ review # None /\ review' = None /\ photos' = {} /\ deleting' = "fetch"
          /\ form' = None /\ UNCHANGED calm
       \/ deleting' = None /\ calm' = FALSE /\ UNCHANGED <<review, photos, form>>
    /\ UNCHANGED <<mine, save, staff, clicks, told>>

Refetch ==
    /\ Fetched
    /\ IF save # None /\ save.step = "fetch" THEN save' = None /\ UNCHANGED deleting
       ELSE UNCHANGED save /\ deleting' = IF deleting = "fetch" THEN None ELSE deleting
    /\ UNCHANGED <<review, photos, form, staff, history>>

-----------------------------------------------------------------------------
(***************************************************************************)
(* The moderator.                                                          *)
(***************************************************************************)
\* The list is polled every twenty seconds and after every verdict; the
\* drawer keeps the row it was opened with.
OpenRow ==
    /\ review # None /\ review.status = "PENDING"
    /\ read' = review.text
    /\ UNCHANGED <<review, photos, dialog, verdict, history>>

ClickVerdict(v) ==
    /\ verdict = None /\ read # None
    /\ verdict' = v
    /\ UNCHANGED <<review, photos, dialog, read, history>>

\* moderate looks neither at the status nor at what the moderator has read.
Moderate ==
    /\ verdict # None
    /\ verdict' = None /\ read' = None
    /\ review' = IF review = None THEN None
                 ELSE IF verdict = "APPROVED" THEN Live(review.text)
                 ELSE IF review.public # None THEN Live(review.public)
                 ELSE [review EXCEPT !.status = "REJECTED"]
    /\ UNCHANGED <<photos, dialog, history>>

ModerateFails ==
    /\ verdict # None /\ verdict' = None
    /\ UNCHANGED <<review, photos, dialog, read, history>>

Next ==
    \/ StartCreate \/ StartEdit \/ Edit \/ Abandon \/ ClickSave \/ ClickDelete
    \/ SaveText \/ RemovePhoto \/ AddPhoto \/ Saved \/ SaveFails \/ DeleteReview \/ Refetch
    \/ OpenRow \/ Moderate \/ ModerateFails
    \/ \E v \in {"APPROVED", "REJECTED"} : ClickVerdict(v)

Spec == Init /\ [][Next]_reviewVars

-----------------------------------------------------------------------------
(***************************************************************************)
(* Properties.                                                             *)
(***************************************************************************)
\* What a save has reported stands, text and photos, until the author asks
\* for something else, whatever is typed while it runs and whatever the
\* moderator decides, if no call of the dialog failed or met another.
SavedStands ==
    calm /\ told # None =>
        /\ review # None /\ review.text = told.text
        /\ told.removed \cap photos = {}
        /\ told.fresh \subseteq {r[1] : r \in photos}

\* A moderator who clicks on what he has opened publishes what he has read.
\* The code does not keep this: the text may be replaced meanwhile.
PublishedAsRead ==
    [][review # None /\ review' # None /\ verdict = "APPROVED" /\ verdict' = None
        /\ review'.public # review.public => review'.public = read]_reviewVars

=============================================================================

--------------------------- MODULE RegistrationScan ---------------------------
(***************************************************************************)
(* The registration document of the listing forms of the web application:  *)
(* of the car form (components/PostCar.js, Form = "car") and of the bike   *)
(* form (components/PostBike.js, Form = "bike"; the plate form does the    *)
(* same).  A file is chosen, uploaded and scanned; it may be replaced or   *)
(* cleared while uploads and scans of earlier files are under way, and the *)
(* form may be submitted.                                                  *)
(*                                                                         *)
(* A document is a model value; the path of its upload and what the scan   *)
(* reads from it are named by it.  Uploads and scans end in any order.     *)
(* The car form uploads when Scan is pressed, and otherwise at submission; *)
(* the bike form uploads as soon as a file is chosen.                      *)
(***************************************************************************)
CONSTANTS
    Documents,  \* files the user may choose
    Calls,      \* uploads and scans that may be under way at once
    Form,       \* "car" or "bike"
    Null

VARIABLES
    file,       \* registrationOcrFile, regDocFile
    url,        \* registrationDocumentUrl, regDocUrl: the document it is of
    promise,    \* registrationDocumentUploadPromiseRef.current: a call
    calls,      \* uploads and scans under way
    scanning,   \* registrationOcrStatus is 'Preparing' or 'Scanning'
    filled,     \* the document the form was last filled in from
    submit,     \* the submission under way
    posted,     \* what was posted: the listing's document, and more
    changed     \* history: the file changed while a call was under way, and no
                \* other was chosen since

vars == <<file, url, promise, calls, scanning, filled, submit, posted, changed>>

Idle == [kind |-> "idle"]
Works == [kind : {"upload", "scan"}, doc : Documents]

\* awaits: the upload the submission waits for; url: the value of the state
\* variable in the render whose button was pressed.
Submissions == [awaits : Calls \cup {Null}, file : Documents \cup {Null},
                url : Documents \cup {Null}, stored : BOOLEAN]

TypeOK ==
    /\ file \in Documents \cup {Null}
    /\ url \in Documents \cup {Null}
    /\ promise \in Calls \cup {Null}
    /\ calls \in [Calls -> Works \cup {Idle}]
    /\ scanning \in BOOLEAN
    /\ filled \in Documents \cup {Null}
    /\ submit \in Submissions \cup {Null}
    /\ posted \in Submissions \cup {Null}
    /\ changed \in BOOLEAN

Init ==
    /\ file = Null
    /\ url = Null
    /\ promise = Null
    /\ calls = [c \in Calls |-> Idle]
    /\ scanning = FALSE
    /\ filled = Null
    /\ submit = Null
    /\ posted = Null
    /\ changed = FALSE

-----------------------------------------------------------------------------
(* Helpers *)

Busy == \E c \in Calls : calls[c] # Idle
Editing == posted = Null

\* resetRegistrationOcrState.
Reset ==
    /\ url' = Null
    /\ promise' = Null
    /\ scanning' = FALSE

Upload(d) == [kind |-> "upload", doc |-> d]

\* Mutant: the callback that scans is not renewed when the file changes.
ScanOfLast(d) == [kind |-> "scan", doc |-> IF filled = Null THEN d ELSE filled]

Scan(d) == [kind |-> "scan", doc |-> d]

-----------------------------------------------------------------------------
(* The user chooses, clears and scans *)

\* The conversion of the file may end after that of a file chosen later, which
\* is a choice in the other order.
Choose(d, c) ==
    /\ Editing
    /\ calls[c] = Idle
    /\ file' = d
    /\ Reset
    /\ calls' = IF Form = "bike" THEN [calls EXCEPT ![c] = Upload(d)] ELSE calls
    /\ changed' = (Busy \/ (changed /\ submit # Null))
    /\ UNCHANGED <<filled, submit, posted>>

Clear ==
    /\ Form = "car"
    /\ Editing
    /\ file # Null
    /\ file' = Null
    /\ Reset
    /\ changed' = (Busy \/ (changed /\ submit # Null))
    /\ UNCHANGED <<calls, filled, submit, posted>>

\* The car form resets its state and then asks for the upload (call d) with the
\* path of the last render: when it has one, nothing is uploaded and the path
\* is gone.  The bike form shows the button when the upload has ended.
PressScan(c, d) ==
    /\ Editing
    /\ file # Null
    /\ ~scanning
    /\ c # d /\ calls[c] = Idle /\ calls[d] = Idle
    /\ Form = "bike" => url # Null
    /\ scanning' = TRUE
    /\ IF Form = "car" /\ url = Null
       THEN /\ calls' = [calls EXCEPT ![c] = Scan(file), ![d] = Upload(file)]
            /\ promise' = d
            /\ UNCHANGED url
       ELSE /\ calls' = [calls EXCEPT ![c] = Scan(file)]
            /\ promise' = Null
            /\ url' = IF Form = "car" THEN Null ELSE url
    /\ UNCHANGED <<file, filled, submit, posted, changed>>

-----------------------------------------------------------------------------
(* Uploads and scans end *)

Awaited(c) == submit # Null /\ submit.awaits = c

\* The path is stored whatever the file is by now, and the promise of a later
\* upload is forgotten too.
UploadEnds(c) ==
    /\ calls[c].kind = "upload"
    /\ calls' = [calls EXCEPT ![c] = Idle]
    /\ promise' = Null
    /\ \/ /\ url' = calls[c].doc
          /\ submit' = IF Awaited(c) THEN [submit EXCEPT !.awaits = Null, !.stored = TRUE]
                       ELSE submit
       \/ /\ submit' = IF Awaited(c) THEN [submit EXCEPT !.awaits = Null] ELSE submit
          /\ UNCHANGED url
    /\ UNCHANGED <<file, scanning, filled, posted, changed>>

\* A scan that read something fills the form in, whatever the file is by now;
\* one that read nothing, or failed, only ends the waiting.
ScanEnds(c) ==
    /\ calls[c].kind = "scan"
    /\ calls' = [calls EXCEPT ![c] = Idle]
    /\ scanning' = FALSE
    /\ filled' \in {filled, calls[c].doc}
    /\ UNCHANGED <<file, url, promise, submit, posted, changed>>

-----------------------------------------------------------------------------
(* The form is submitted *)

\* The car form waits for the upload of its file, starting it (call c) when
\* there is none; the bike form waits for nothing.  Both post the path of the
\* render whose button was pressed.
Submit(c) ==
    LET wait == Form = "car" /\ file # Null /\ url = Null
        start == wait /\ promise = Null IN
    /\ Editing
    /\ submit = Null
    /\ Form = "car" => ~scanning
    /\ calls[c] = Idle
    /\ calls' = IF start THEN [calls EXCEPT ![c] = Upload(file)] ELSE calls
    /\ promise' = IF start THEN c ELSE promise
    /\ submit' = [awaits |-> IF start THEN c ELSE IF wait THEN promise ELSE Null,
                  file |-> file, url |-> url, stored |-> url # Null]
    /\ UNCHANGED <<file, url, scanning, filled, posted, changed>>

\* The listing is created and the form is left, or it is shown again.
Post ==
    /\ submit # Null
    /\ submit.awaits = Null
    /\ posted' \in {submit, Null}
    /\ submit' = Null
    /\ UNCHANGED <<file, url, promise, calls, scanning, filled, changed>>

-----------------------------------------------------------------------------
Next ==
    \/ Clear
    \/ Post
    \/ \E c \in Calls :
        \/ \E d \in Documents : Choose(d, c)
        \/ \E d \in Calls : PressScan(c, d)
        \/ UploadEnds(c)
        \/ ScanEnds(c)
        \/ Submit(c)

Spec == Init /\ [][Next]_vars

FairSpec ==
    Spec /\ WF_vars(Post) /\ \A c \in Calls : WF_vars(UploadEnds(c) \/ ScanEnds(c))

-----------------------------------------------------------------------------
(* Properties *)

(***************************************************************************)
(* The path the form holds, the one a listing is posted with, and what is  *)
(* being uploaded and scanned are of the document that is chosen, as long  *)
(* as none was chosen or cleared while an upload or a scan was under way;  *)
(* choosing one when none is under way puts an earlier mix-up right.       *)
(***************************************************************************)
OwnDocument ==
    ~changed =>
        /\ url \in {file, Null}
        /\ \A c \in Calls : calls[c] # Idle => calls[c].doc = file
        /\ posted # Null => posted.url \in {posted.file, Null}

(***************************************************************************)
(* A submission does not wait for ever for its upload: also when another   *)
(* upload ends first and its promise is forgotten.                         *)
(***************************************************************************)
SubmitEnds == submit # Null ~> submit = Null

(***************************************************************************)
(* "Submit waits on the same promise before persisting the listing": a     *)
(* listing whose document was uploaded before it was posted has its path.  *)
(***************************************************************************)
SubmittedDocument ==
    posted # Null => (posted.stored => posted.url # Null)

=============================================================================

------------------------ MODULE DealerApproval_proofs -----------------------
(***************************************************************************)
(* Proofs about DealerApproval, for any number of documents, uploads,      *)
(* scheduled rows, workers and faults: types, one e-mail for a row, only   *)
(* scored documents approved, and verification on documents that stand.    *)
(***************************************************************************)
EXTENDS DealerApproval, TLAPS

-----------------------------------------------------------------------------
(***************************************************************************)
(* Types.  An upload under way has a document and a worker at work a row.  *)
(***************************************************************************)
Owned == /\ \A u \in Uploads : upload[u].at # "idle" => upload[u].doc \in Docs
         /\ \A w \in Workers : worker[w].at # "idle" => worker[w].row \in Rows

TypeInv == TypeOK /\ Owned

\* Constants of the types.
LEMMA Blank ==
    /\ NoUpload \in Request /\ NoUpload.at = "idle"
    /\ Idle \in Job /\ Idle.at = "idle" /\ Idle.row = Null
    /\ NoRow \in Row /\ NoRow.state = "none"
BY DEF NoUpload, Request, Idle, Job, NoRow, Row

\* The faults stay within their bound.
LEMMA FaultType ==
    ASSUME TypeOK, NEW ok \in BOOLEAN, Fault \/ Outcome(ok)
    PROVE  faults' \in 0 .. MaxFaults
BY FaultsAssumption DEF TypeOK, Fault, Outcome

\* Marking workers as outdated changes nothing else of theirs.
LEMMA OutdatedType ==
    ASSUME worker \in [Workers -> Job]
    PROVE  /\ Outdated \in [Workers -> Job]
           /\ \A w \in Workers :
                /\ Outdated[w].at = worker[w].at
                /\ Outdated[w].row = worker[w].row
                /\ Outdated[w].todo = worker[w].todo
                /\ Outdated[w].approve = worker[w].approve
                /\ worker[w].at # "idle" => Outdated[w].changed = TRUE
<1>1. ASSUME NEW w \in Workers
      PROVE  /\ [worker[w] EXCEPT !.changed = TRUE] \in Job
             /\ [worker[w] EXCEPT !.changed = TRUE].at = worker[w].at
             /\ [worker[w] EXCEPT !.changed = TRUE].row = worker[w].row
             /\ [worker[w] EXCEPT !.changed = TRUE].todo = worker[w].todo
             /\ [worker[w] EXCEPT !.changed = TRUE].approve = worker[w].approve
             /\ [worker[w] EXCEPT !.changed = TRUE].changed = TRUE
  BY DEF Job
<1>2. \A w \in Workers : Outdated[w] = IF worker[w].at = "idle" THEN worker[w]
                                      ELSE [worker[w] EXCEPT !.changed = TRUE]
  BY DEF Outdated
<1>3. Outdated \in [Workers -> Job]
  BY <1>1 DEF Outdated
<1> QED
  BY <1>1, <1>2, <1>3

\* What a worker's job becomes in each of the worker's own steps.
LEMMA JobType ==
    ASSUME NEW j \in Job, NEW at \in {"idle", "docs", "user", "approve", "verify", "mark", "email"},
           NEW approve \in BOOLEAN, NEW changed \in BOOLEAN, NEW ok \in BOOLEAN,
           NEW todo \in SUBSET Docs, NEW r \in Rows
    PROVE  /\ [j EXCEPT !.at = at] \in Job
           /\ [j EXCEPT !.at = at].at = at
           /\ [j EXCEPT !.at = at].row = j.row
           /\ [j EXCEPT !.at = at, !.approve = approve, !.changed = changed, !.todo = todo]
                \in Job
           /\ [j EXCEPT !.at = at, !.approve = approve, !.changed = changed, !.todo = todo].row
                = j.row
           /\ [[j EXCEPT !.todo = todo] EXCEPT !.ok = ok] \in Job
           /\ [Idle EXCEPT !.at = at, !.row = r] \in Job
           /\ [Idle EXCEPT !.at = at, !.row = r].row = r
BY DEF Job, Idle

\* What a row and a request become.
LEMMA RowType ==
    ASSUME NEW r \in Row, NEW state \in {"none", "pending", "fired", "cancelled"},
           NEW w \in Workers, NEW b \in BOOLEAN
    PROVE  /\ [r EXCEPT !.state = state] \in Row
           /\ [r EXCEPT !.state = state].state = state
           /\ [r EXCEPT !.due = b] \in Row
           /\ [r EXCEPT !.due = b].state = r.state
           /\ [r EXCEPT !.live = b] \in Row
           /\ [r EXCEPT !.live = b].state = r.state
           /\ [[r EXCEPT !.lease = w] EXCEPT !.live = b] \in Row
           /\ [[r EXCEPT !.lease = w] EXCEPT !.live = b].state = r.state
BY DEF Row

LEMMA RequestType ==
    ASSUME NEW q \in Request,
           NEW at \in {"idle", "replace", "insert", "check", "user", "cancel", "add"}
    PROVE  /\ [q EXCEPT !.at = at] \in Request
           /\ [q EXCEPT !.at = at].doc = q.doc
BY DEF Request

\* Uploads keep the types.
LEMMA UploadTypes ==
    ASSUME TypeInv, NEW u \in Uploads,
           Upload(u) \/ UploadFailed(u) \/ \E d \in Docs : UploadStart(u, d)
    PROVE  TypeInv'
<1> USE DEF TypeInv, TypeOK, Owned, documents
<1>0. upload[u] \in Request /\ (upload[u].at # "idle" => upload[u].doc \in Docs)
  OBVIOUS
<1>1. ASSUME NEW d \in Docs, UploadStart(u, d)
      PROVE  TypeInv'
  <2> DEFINE q == [at |-> IF active \cap Kind(d) = {} THEN "insert" ELSE "replace",
                   doc |-> d, prev |-> active \cap Kind(d)]
  <2>1. q \in Request /\ q.doc = d
    BY DEF Request
  <2>2. upload' = [upload EXCEPT ![u] = q]
    BY <1>1 DEF UploadStart
  <2>3. UNCHANGED <<documents, verified, rows, review, worker, emails, byWorker, twins, faults>>
    BY <1>1 DEF UploadStart
  <2> HIDE DEF q
  <2> QED
    BY <2>1, <2>2, <2>3
<1>2. ASSUME NEW ok \in BOOLEAN, UploadReplace(u, ok)
      PROVE  TypeInv'
  <2>1. [upload[u] EXCEPT !.at = "insert"] \in Request
        /\ [upload[u] EXCEPT !.at = "insert"].doc \in Docs
    BY <1>0, <1>2, RequestType DEF UploadReplace
  <2>2. faults' \in 0 .. MaxFaults
    BY <1>2, FaultType DEF UploadReplace
  <2>3. active' \subseteq Docs
    BY <1>2 DEF UploadReplace
  <2> QED
    BY <1>2, <2>1, <2>2, <2>3, OutdatedType DEF UploadReplace
<1>3. ASSUME NEW ok \in BOOLEAN, UploadInsert(u, ok)
      PROVE  TypeInv'
  <2>1. [upload[u] EXCEPT !.at = "check"] \in Request
        /\ [upload[u] EXCEPT !.at = "check"].doc \in Docs /\ upload[u].doc \in Docs
    BY <1>0, <1>3, RequestType DEF UploadInsert
  <2>2. status' \in [Docs -> Statuses] /\ active' \subseteq Docs /\ good' \subseteq Docs
    BY <1>3, <2>1 DEF UploadInsert, Statuses
  <2>3. twins' \in BOOLEAN
    BY <1>3 DEF UploadInsert, Twins
  <2> QED
    BY <1>3, <2>1, <2>2, <2>3, OutdatedType DEF UploadInsert
<1>4. ASSUME NEW ok \in BOOLEAN, ScheduleCheck(u, ok)
      PROVE  TypeInv'
  <2>1. [upload[u] EXCEPT !.at = "user"] \in Request
        /\ [upload[u] EXCEPT !.at = "user"].doc \in Docs
    BY <1>0, <1>4, RequestType DEF ScheduleCheck
  <2> QED
    BY <1>4, <2>1, Blank DEF ScheduleCheck
<1>5. ASSUME NEW ok \in BOOLEAN, ScheduleUser(u, ok)
      PROVE  TypeInv'
  <2>1. [upload[u] EXCEPT !.at = "cancel"] \in Request
        /\ [upload[u] EXCEPT !.at = "cancel"].doc \in Docs
    BY <1>0, <1>5, RequestType DEF ScheduleUser
  <2>2. faults' \in 0 .. MaxFaults
    BY <1>5, FaultType DEF ScheduleUser
  <2> QED
    BY <1>5, <2>1, <2>2, Blank DEF ScheduleUser
<1>6. ASSUME NEW ok \in BOOLEAN, ScheduleCancel(u, ok)
      PROVE  TypeInv'
  <2>1. [upload[u] EXCEPT !.at = "add"] \in Request
        /\ [upload[u] EXCEPT !.at = "add"].doc \in Docs
    BY <1>0, <1>6, RequestType DEF ScheduleCancel
  <2>2. faults' \in 0 .. MaxFaults
    BY <1>6, FaultType DEF ScheduleCancel
  <2>3. \A r \in Rows : [rows[r] EXCEPT !.state = "cancelled"] \in Row
    BY DEF Row
  <2>4. rows' \in [Rows -> Row]
    BY <1>6, <2>3 DEF ScheduleCancel
  <2> QED
    BY <1>6, <2>1, <2>2, <2>4 DEF ScheduleCancel
<1>7. ASSUME ScheduleInsert(u)
      PROVE  TypeInv'
  <2>1. \A r \in Rows : [rows[r] EXCEPT !.state = "pending"] \in Row
    BY DEF Row
  <2>2. rows' \in [Rows -> Row]
    BY <1>7, <2>1 DEF ScheduleInsert
  <2> QED
    BY <1>7, <2>2, Blank DEF ScheduleInsert
<1>8. ASSUME UploadFailed(u)
      PROVE  TypeInv'
  <2>1. faults' \in 0 .. MaxFaults
    BY <1>8, FaultType DEF UploadFailed
  <2>2. status' \in [Docs -> Statuses]
    BY <1>8 DEF UploadFailed, Statuses
  <2> QED
    BY <1>8, <2>1, <2>2, Blank DEF UploadFailed
<1> QED
  BY <1>1, <1>2, <1>3, <1>4, <1>5, <1>6, <1>7, <1>8 DEF Upload

\* So do the dealer, the administrator and the clock.
LEMMA OtherTypes ==
    ASSUME TypeInv,
           \/ \E d \in Docs : Delete(d)
           \/ \E d \in Docs, s \in {"pending", "approved", "denied"} : Review(d, s)
           \/ \E ok \in BOOLEAN : ReviewUser(ok)
           \/ \E r \in Rows : Due(r) \/ LeaseEnds(r)
    PROVE  TypeInv'
<1> USE DEF TypeInv, TypeOK, Owned, documents
<1>1. ASSUME NEW d \in Docs, Delete(d)
      PROVE  TypeInv'
  <2>1. faults' \in 0 .. MaxFaults
    BY <1>1, FaultType DEF Delete
  <2>2. status' \in [Docs -> Statuses] /\ active' \subseteq Docs
    BY <1>1 DEF Delete, Statuses
  <2> QED
    BY <1>1, <2>1, <2>2, OutdatedType DEF Delete
<1>2. ASSUME NEW d \in Docs, NEW s \in {"pending", "approved", "denied"}, Review(d, s)
      PROVE  TypeInv'
  <2>1. faults' \in 0 .. MaxFaults
    BY <1>2, FaultType DEF Review
  <2>2. status' \in [Docs -> Statuses] /\ review' \in BOOLEAN
    BY <1>2 DEF Review, Statuses
  <2> QED
    BY <1>2, <2>1, <2>2, OutdatedType DEF Review
<1>3. ASSUME NEW ok \in BOOLEAN, ReviewUser(ok)
      PROVE  TypeInv'
  <2>1. faults' \in 0 .. MaxFaults
    BY <1>3, FaultType DEF ReviewUser
  <2>2. verified' \in BOOLEAN /\ review' \in BOOLEAN
    BY <1>3 DEF ReviewUser
  <2> QED
    BY <1>3, <2>1, <2>2 DEF ReviewUser
<1>4. ASSUME NEW r \in Rows, Due(r)
      PROVE  TypeInv'
  <2>1. [rows[r] EXCEPT !.due = TRUE] \in Row
    BY ZenonT(60) DEF Row
  <2> QED
    BY <1>4, <2>1 DEF Due
<1>5. ASSUME NEW r \in Rows, LeaseEnds(r)
      PROVE  TypeInv'
  <2>1. [rows[r] EXCEPT !.live = FALSE] \in Row
    BY ZenonT(60) DEF Row
  <2>2. faults' \in 0 .. MaxFaults
    BY <1>5, FaultsAssumption DEF LeaseEnds, Outcome, Fault
  <2> QED
    BY <1>5, <2>1, <2>2 DEF LeaseEnds
<1> QED
  BY <1>1, <1>2, <1>3, <1>4, <1>5

\* And the workers.
LEMMA WorkerTypes ==
    ASSUME TypeInv, NEW w \in Workers, Work(w) \/ WorkerFails(w)
    PROVE  TypeInv'
<1> USE DEF TypeInv, TypeOK, Owned, documents
<1>0. worker[w] \in Job /\ (worker[w].at # "idle" => worker[w].row \in Rows)
  OBVIOUS
<1>1. ASSUME NEW r \in Rows, Claim(w, r)
      PROVE  TypeInv'
  <2> DEFINE q == [Idle EXCEPT !.at = "docs", !.row = r]
  <2>1. q \in Job /\ q.row = r
    BY DEF Idle, Job
  <2>2. worker' = [worker EXCEPT ![w] = q]
    BY <1>1 DEF Claim
  <2>3. [[rows[r] EXCEPT !.lease = w] EXCEPT !.live = TRUE] \in Row
    BY ZenonT(60) DEF Row
  <2>4. rows' \in [Rows -> Row]
    BY <1>1, <2>3 DEF Claim
  <2>5. UNCHANGED <<documents, verified, upload, review, emails, byWorker, twins, faults>>
    BY <1>1 DEF Claim
  <2> HIDE DEF q
  <2> QED
    BY <2>1, <2>2, <2>4, <2>5
<1>2. ASSUME NEW ok \in BOOLEAN, ReadDocs(w, ok)
      PROVE  TypeInv'
  <2> DEFINE todo == {d \in active : status[d] # "approved"}
             q == [worker[w] EXCEPT !.at = "user", !.approve = ok, !.changed = FALSE,
                                    !.todo = todo]
  <2>1. todo \in SUBSET Docs
    OBVIOUS
  <2>2. worker' = [worker EXCEPT ![w] = q]
    BY <1>2 DEF ReadDocs
  <2>3. UNCHANGED <<documents, verified, rows, upload, review, emails, byWorker, twins, faults>>
        /\ worker[w].at = "docs"
    BY <1>2 DEF ReadDocs
  <2> HIDE DEF todo
  <2>4. q \in Job /\ q.row = worker[w].row
    BY <1>0, <2>1 DEF Job
  <2> HIDE DEF q
  <2> QED
    BY <1>0, <2>2, <2>3, <2>4
<1>3. ASSUME ReadUser(w)
      PROVE  TypeInv'
  <2>1. \A at \in {"approve", "mark"} : /\ [worker[w] EXCEPT !.at = at] \in Job
                                        /\ [worker[w] EXCEPT !.at = at].row = worker[w].row
    BY <1>0 DEF Job
  <2> QED
    BY <1>0, <1>3, <2>1 DEF ReadUser
<1>4. ASSUME NEW ok \in BOOLEAN, NEW d \in Docs, ApproveDoc(w, d, ok)
      PROVE  TypeInv'
  <2>0. PICK served \in BOOLEAN :
          LET found == served /\ status[d] \notin {"gone", "approved"} IN
          /\ status' = IF found THEN [status EXCEPT ![d] = "approved"] ELSE status
          /\ byWorker' = IF found THEN byWorker \cup {d} ELSE byWorker
          /\ worker' = [worker EXCEPT ![w].todo = @ \ {d}, ![w].ok = @ /\ ok /\ found]
    BY <1>4 DEF ApproveDoc
  <2> DEFINE found == ok /\ served /\ status[d] \notin {"gone", "approved"}
             q == [worker[w] EXCEPT !.todo = worker[w].todo \ {d}, !.ok = worker[w].ok /\ found]
  <2>1. found \in BOOLEAN /\ worker[w].ok \in BOOLEAN /\ worker[w].todo \in SUBSET Docs
    BY <1>0 DEF Job
  <2>2. worker' = [worker EXCEPT ![w] = q]
    BY <2>0
  <2>3. status' \in [Docs -> Statuses] /\ byWorker' \subseteq Docs
    BY <2>0 DEF Statuses
  <2>4. faults' \in 0 .. MaxFaults
    BY <1>4, FaultType DEF ApproveDoc
  <2>5. UNCHANGED <<active, good, verified, rows, upload, review, emails, twins>>
        /\ worker[w].at = "approve"
    BY <1>4 DEF ApproveDoc
  <2> HIDE DEF found
  <2>6. q \in Job /\ q.row = worker[w].row
    BY <1>0, <2>1 DEF Job
  <2> HIDE DEF q
  <2> QED
    BY <1>0, <2>2, <2>3, <2>4, <2>5, <2>6
<1>5. ASSUME DocsApproved(w)
      PROVE  TypeInv'
  <2>1. /\ [worker[w] EXCEPT !.at = "verify"] \in Job
        /\ [worker[w] EXCEPT !.at = "verify"].row = worker[w].row
    BY <1>0 DEF Job
  <2> QED
    BY <1>0, <1>5, <2>1, Blank DEF DocsApproved
<1>6. ASSUME ApproveUser(w)
      PROVE  TypeInv'
  <2>1. /\ [worker[w] EXCEPT !.at = "mark"] \in Job
        /\ [worker[w] EXCEPT !.at = "mark"].row = worker[w].row
    BY <1>0 DEF Job
  <2> QED
    BY <1>0, <1>6, <2>1 DEF ApproveUser
<1>7. ASSUME worker[w].at = "mark",
             rows' = [rows EXCEPT ![worker[w].row].state = Ending(w)]
      PROVE  rows' \in [Rows -> Row]
  <2>1. [rows[worker[w].row] EXCEPT !.state = Ending(w)] \in Row
    BY <1>0, <1>7 DEF Row, Ending
  <2> QED
    BY <1>0, <1>7, <2>1
<1>8. ASSUME Mark(w)
      PROVE  TypeInv'
  <2>1. /\ [worker[w] EXCEPT !.at = "email"] \in Job
        /\ [worker[w] EXCEPT !.at = "email"].row = worker[w].row
    BY <1>0 DEF Job
  <2>2. rows' \in [Rows -> Row]
    BY <1>7, <1>8 DEF Mark
  <2>3. /\ worker' = [worker EXCEPT ![w] = IF Matches(w) /\ worker[w].approve
                                           THEN [worker[w] EXCEPT !.at = "email"] ELSE Idle]
        /\ UNCHANGED <<documents, verified, upload, review, emails, byWorker, twins, faults>>
        /\ worker[w].at = "mark"
    BY <1>8 DEF Mark
  <2> QED
    BY <1>0, <2>1, <2>2, <2>3, Blank
<1>9. ASSUME Email(w)
      PROVE  TypeInv'
  <2>1. emails' \in [Rows -> 0 .. 2]
    BY <1>0, <1>9 DEF Email
  <2> QED
    BY <1>9, <2>1, Blank DEF Email
<1>10. ASSUME WorkerFails(w)
       PROVE  TypeInv'
  <2>1. rows' \in [Rows -> Row]
    BY <1>7, <1>10 DEF WorkerFails
  <2>2. faults' \in 0 .. MaxFaults
    BY <1>10, FaultType DEF WorkerFails
  <2>3. verified' \in BOOLEAN /\ emails' = emails
    BY <1>10 DEF WorkerFails
  <2> QED
    BY <1>10, <2>1, <2>2, <2>3, Blank DEF WorkerFails
<1> QED
  BY <1>1, <1>2, <1>3, <1>4, <1>5, <1>6, <1>8, <1>9, <1>10 DEF Work

\* The strengthened types are invariant.
LEMMA Typed == Spec => []TypeInv
<1>1. Init => TypeInv
  <2> SUFFICES ASSUME Init PROVE TypeInv
    OBVIOUS
  <2>1. /\ upload \in [Uploads -> Request] /\ \A u \in Uploads : upload[u].at = "idle"
        /\ worker \in [Workers -> Job] /\ \A w \in Workers : worker[w].at = "idle"
        /\ rows \in [Rows -> Row]
    BY Blank DEF Init
  <2>2. status \in [Docs -> Statuses] /\ faults \in 0 .. MaxFaults /\ emails \in [Rows -> 0 .. 2]
    BY FaultsAssumption DEF Init, Statuses
  <2> QED
    BY <2>1, <2>2 DEF Init, TypeInv, TypeOK, Owned
<1>2. TypeInv /\ [Next]_vars => TypeInv'
  <2> SUFFICES ASSUME TypeInv, [Next]_vars PROVE TypeInv'
    OBVIOUS
  <2>1. CASE UNCHANGED vars
    BY <2>1 DEF vars, documents, TypeInv, TypeOK, Owned
  <2> QED
    BY <2>1, UploadTypes, OtherTypes, WorkerTypes DEF Next
<1> QED
  BY <1>1, <1>2, PTL DEF Spec

(***************************************************************************)
(* Every party keeps to its types: a dealer's uploads, an administrator,   *)
(* the clock, and workers that fail or die at any request.                 *)
(***************************************************************************)
THEOREM TypeCorrect == Spec => []TypeOK
<1>1. TypeInv => TypeOK
  BY DEF TypeInv
<1> QED
  BY <1>1, Typed, PTL

-----------------------------------------------------------------------------
(***************************************************************************)
(* One e-mail.  Whoever is about to send it has turned its row from        *)
(* pending to fired, which happens to a row once: so he is alone, and      *)
(* nobody has sent it before.                                              *)
(***************************************************************************)
Sending(w, r) == worker[w].at = "email" /\ worker[w].row = r

NoticeInv ==
    \A r \in Rows :
      /\ emails[r] <= 1
      /\ emails[r] # 0 => rows[r].state = "fired"
      /\ \A w \in Workers : Sending(w, r) => rows[r].state = "fired" /\ emails[r] = 0
      /\ \A v, w \in Workers : Sending(v, r) /\ Sending(w, r) => v = w

\* Steps that send nothing, let nobody begin to and leave fired rows alone.
LEMMA Unsent ==
    ASSUME NoticeInv, UNCHANGED emails,
           \A r \in Rows : rows[r].state = "fired" => rows'[r].state = "fired",
           \A w \in Workers, r \in Rows : Sending(w, r)' => Sending(w, r)
    PROVE  NoticeInv'
BY DEF NoticeInv

\* Firing a row makes its worker the only one to send.
LEMMA Firing ==
    ASSUME TypeInv, NoticeInv, NEW w \in Workers, UNCHANGED emails,
           worker[w].row \in Rows, rows[worker[w].row].state # "fired",
           rows'[worker[w].row].state = "fired",
           \A r \in Rows : rows[r].state = "fired" => rows'[r].state = "fired",
           \A v \in Workers, r \in Rows :
             Sending(v, r)' => Sending(v, r) \/ (v = w /\ r = worker[w].row)
    PROVE  NoticeInv'
BY DEF NoticeInv, TypeInv, TypeOK

LEMMA NoticeStep ==
    ASSUME TypeInv, NoticeInv, [Next]_vars
    PROVE  NoticeInv'
<1> USE DEF TypeInv, TypeOK, Owned
<1>1. ASSUME NEW u \in Uploads,
             Upload(u) \/ UploadFailed(u) \/ \E d \in Docs : UploadStart(u, d)
      PROVE  NoticeInv'
  <2>1. \A w \in Workers, r \in Rows : Sending(w, r)' => Sending(w, r)
    BY <1>1, OutdatedType DEF Upload, UploadFailed, UploadStart, UploadReplace, UploadInsert,
       ScheduleCheck, ScheduleUser, ScheduleCancel, ScheduleInsert, Sending
  <2>2. \A r \in Rows : rows[r].state = "fired" => rows'[r].state = "fired"
    BY <1>1 DEF Upload, UploadFailed, UploadStart, UploadReplace, UploadInsert,
       ScheduleCheck, ScheduleUser, ScheduleCancel, ScheduleInsert
  <2>3. UNCHANGED emails
    BY <1>1 DEF Upload, UploadFailed, UploadStart, UploadReplace, UploadInsert,
       ScheduleCheck, ScheduleUser, ScheduleCancel, ScheduleInsert
  <2> QED
    BY <2>1, <2>2, <2>3, Unsent
<1>2. ASSUME \/ \E d \in Docs : Delete(d)
             \/ \E d \in Docs, s \in {"pending", "approved", "denied"} : Review(d, s)
             \/ \E ok \in BOOLEAN : ReviewUser(ok)
      PROVE  NoticeInv'
  <2>1. UNCHANGED <<rows, emails>> /\ (worker' = worker \/ worker' = Outdated)
    BY <1>2 DEF Delete, Review, ReviewUser
  <2>2. \A w \in Workers, r \in Rows : Sending(w, r)' => Sending(w, r)
    BY <2>1, OutdatedType DEF Sending
  <2> QED
    BY <2>1, <2>2, Unsent
<1>3. ASSUME NEW r \in Rows, Due(r) \/ LeaseEnds(r)
      PROVE  NoticeInv'
  <2>1. UNCHANGED <<emails, worker>>
    BY <1>3 DEF Due, LeaseEnds
  <2>2. \A q \in Rows : rows[q].state = "fired" => rows'[q].state = "fired"
    BY <1>3 DEF Due, LeaseEnds, Row
  <2> QED
    BY <2>1, <2>2, Unsent DEF Sending
<1>4. ASSUME NEW w \in Workers, NEW r \in Rows, Claim(w, r)
      PROVE  NoticeInv'
  <2>1. UNCHANGED emails
    BY <1>4 DEF Claim
  <2>2. \A q \in Rows : rows[q].state = "fired" => rows'[q].state = "fired"
    BY <1>4 DEF Claim, Row
  <2>3. \A v \in Workers, q \in Rows : Sending(v, q)' => Sending(v, q)
    BY <1>4 DEF Claim, Sending, Idle
  <2> QED
    BY <2>1, <2>2, <2>3, Unsent
<1>5. ASSUME NEW w \in Workers,
             \/ \E ok \in BOOLEAN : ReadDocs(w, ok)
             \/ \E ok \in BOOLEAN, d \in Docs : ApproveDoc(w, d, ok)
             \/ ReadUser(w) \/ DocsApproved(w) \/ ApproveUser(w)
      PROVE  NoticeInv'
  <2>1. UNCHANGED <<emails, rows>>
    BY <1>5 DEF ReadDocs, ApproveDoc, ReadUser, DocsApproved, ApproveUser
  <2>2. worker'[w].at # "email"
    <3>0. worker[w] \in Job
      OBVIOUS
    <3>1. CASE \E ok \in BOOLEAN : ReadDocs(w, ok)
      BY <3>0, <3>1 DEF ReadDocs, Job
    <3>2. CASE \E ok \in BOOLEAN, d \in Docs : ApproveDoc(w, d, ok)
      BY <3>0, <3>2 DEF ApproveDoc, Job
    <3>3. CASE ReadUser(w) \/ DocsApproved(w) \/ ApproveUser(w)
      BY <3>0, <3>3, Blank DEF ReadUser, DocsApproved, ApproveUser, Job
    <3> QED
      BY <1>5, <3>1, <3>2, <3>3
  <2>3. \A v \in Workers : v # w => worker'[v] = worker[v]
    BY <1>5 DEF ReadDocs, ApproveDoc, ReadUser, DocsApproved, ApproveUser
  <2>4. \A v \in Workers, q \in Rows : Sending(v, q)' => Sending(v, q)
    BY <2>2, <2>3 DEF Sending
  <2> QED
    BY <2>1, <2>4, Unsent
<1>6. ASSUME NEW w \in Workers, Mark(w)
      PROVE  NoticeInv'
  <2>0. worker[w].row \in Rows
    BY <1>6 DEF Mark
  <2>1. CASE Matches(w) /\ worker[w].approve
    <3>1. rows[worker[w].row].state = "pending" /\ rows'[worker[w].row].state = "fired"
      BY <1>6, <2>0, <2>1 DEF Mark, Matches, Ending, Row
    <3>2. \A r \in Rows : rows[r].state = "fired" => rows'[r].state = "fired"
      BY <1>6, <2>0, <2>1, <3>1 DEF Mark, Row
    <3>3. \A v \in Workers : v # w => worker'[v] = worker[v]
      BY <1>6 DEF Mark
    <3>4. worker'[w].row = worker[w].row
      BY <1>6, <2>1 DEF Mark, Job
    <3>5. \A v \in Workers, r \in Rows :
            Sending(v, r)' => Sending(v, r) \/ (v = w /\ r = worker[w].row)
      BY <3>3, <3>4 DEF Sending
    <3>6. UNCHANGED emails
      BY <1>6 DEF Mark
    <3> QED
      BY <2>0, <3>1, <3>2, <3>5, <3>6, Firing
  <2>2. CASE ~(Matches(w) /\ worker[w].approve)
    <3>1. worker' = [worker EXCEPT ![w] = Idle] /\ UNCHANGED emails
      BY <1>6, <2>2 DEF Mark
    <3>2. \A r \in Rows : rows[r].state = "fired" => rows'[r].state = "fired"
      BY <1>6, <2>0 DEF Mark, Matches, Row
    <3>3. \A v \in Workers, q \in Rows : Sending(v, q)' => Sending(v, q)
      BY <3>1, Blank DEF Sending
    <3> QED
      BY <3>1, <3>2, <3>3, Unsent
  <2> QED
    BY <2>1, <2>2
<1>7. ASSUME NEW w \in Workers, Email(w)
      PROVE  NoticeInv'
  <2> DEFINE r == worker[w].row
  <2>1. r \in Rows /\ Sending(w, r) /\ UNCHANGED rows
    BY <1>7 DEF Email, Sending
  <2>2. emails' = [emails EXCEPT ![r] = emails[r] + 1] /\ emails[r] = 0
    BY <1>7, <2>1 DEF Email, NoticeInv
  <2>3. worker' = [worker EXCEPT ![w] = Idle]
    BY <1>7 DEF Email
  <2>4. \A v \in Workers, q \in Rows : Sending(v, q)' => Sending(v, q) /\ v # w
    BY <2>3, Blank DEF Sending
  <2>5. \A v \in Workers, q \in Rows : Sending(v, q)' => q # r
    BY <2>1, <2>4 DEF NoticeInv
  <2> HIDE DEF r
  <2>6. emails'[r] = 1 /\ \A q \in Rows : q # r => emails'[q] = emails[q]
    BY <2>1, <2>2
  <2>7. rows[r].state = "fired"
    BY <2>1 DEF NoticeInv
  <2> QED
    BY <2>1, <2>4, <2>5, <2>6, <2>7 DEF NoticeInv
<1>8. ASSUME NEW w \in Workers, WorkerFails(w)
      PROVE  NoticeInv'
  <2>1. worker' = [worker EXCEPT ![w] = Idle] /\ UNCHANGED emails
    BY <1>8 DEF WorkerFails
  <2>2. \A r \in Rows : rows[r].state = "fired" => rows'[r].state = "fired"
    BY <1>8 DEF WorkerFails, Matches, Row
  <2>3. \A v \in Workers, q \in Rows : Sending(v, q)' => Sending(v, q)
    BY <2>1, Blank DEF Sending
  <2> QED
    BY <2>1, <2>2, <2>3, Unsent
<1>9. CASE UNCHANGED vars
  BY <1>9, Unsent DEF vars, Sending
<1> QED
  BY <1>1, <1>2, <1>3, <1>4, <1>5, <1>6, <1>7, <1>8, <1>9 DEF Next, Work

(***************************************************************************)
(* The dealer gets at most one e-mail for a row, and none for a row that   *)
(* was not fired, whatever leases ended early and whichever worker died.   *)
(***************************************************************************)
THEOREM NoticeOnceHolds == Spec => []NoticeOnce
<1>1. Init => NoticeInv
  BY Blank DEF Init, NoticeInv, Sending
<1>2. TypeInv /\ NoticeInv /\ [Next]_vars => NoticeInv'
  BY NoticeStep
<1>3. TypeInv /\ NoticeInv => NoticeOnce
  BY DEF TypeInv, TypeOK, NoticeInv, NoticeOnce
<1> QED
  BY <1>1, <1>2, <1>3, Typed, PTL DEF Spec

-----------------------------------------------------------------------------
(***************************************************************************)
(* What a worker that approves rests on.  While one document of a kind is  *)
(* active, the one the decision looked at is the one approved; and what it *)
(* looked at stands, unless the worker is marked as outdated.              *)
(***************************************************************************)
Decided(w) == worker[w].at \in {"user", "approve", "verify"} /\ worker[w].approve

RestsOn(w) == /\ ~twins /\ worker[w].at # "verify" => worker[w].todo \subseteq good
              /\ ~worker[w].changed => MayApprove

BasisInv == /\ ~twins => ~Twins(active) /\ byWorker \subseteq good
            /\ \A w \in Workers : Decided(w) => RestsOn(w)
            /\ \A w \in Workers : worker[w].at \in {"approve", "verify"} => worker[w].approve

\* Without twins a decision to approve looked at every active document.
LEMMA NoTwins ==
    ASSUME TypeOK, MayApprove, ~Twins(active)
    PROVE  active \subseteq good
<1> SUFFICES ASSUME NEW e \in active, e \notin good PROVE FALSE
  OBVIOUS
<1>1. PICK t \in Candidates(Trade) \cap good : TRUE
  BY DEF MayApprove
<1>2. PICK x \in Candidates(Tax) \cap good : TRUE
  BY DEF MayApprove
<1>3. t \in active /\ t \in Trade /\ x \in active /\ x \in Tax /\ x \notin Trade
  BY <1>1, <1>2, KindAssumption DEF Candidates
<1>4. e \in Trade \/ (e \in Tax /\ e \notin Trade)
  BY DEF TypeOK, Docs
<1>5. CASE e \in Trade
  BY <1>1, <1>3, <1>5 DEF Twins, Kind
<1>6. CASE e \in Tax /\ e \notin Trade
  BY <1>2, <1>3, <1>6 DEF Twins, Kind
<1> QED
  BY <1>4, <1>5, <1>6

\* Documents may be added to what counts and outdated workers to what does not.
LEMMA Stands ==
    ASSUME MayApprove, active' = active, good \subseteq good',
           \A d \in active : status'[d] = "denied" => status[d] = "denied"
    PROVE  MayApprove'
BY DEF MayApprove, Candidates

\* Steps after which workers are outdated or the documents still stand.
LEMMA BasisKept ==
    ASSUME TypeInv, BasisInv, good \subseteq good', byWorker' = byWorker,
           \/ worker' = worker /\ (MayApprove => MayApprove')
           \/ worker' = Outdated,
           ~twins' => ~twins /\ ~Twins(active')
    PROVE  BasisInv'
<1>1. CASE worker' = worker /\ (MayApprove => MayApprove')
  BY <1>1 DEF BasisInv, Decided, RestsOn
<1>2. CASE worker' = Outdated
  <2>1. \A w \in Workers : /\ worker'[w].at = worker[w].at
                           /\ worker'[w].todo = worker[w].todo
                           /\ worker'[w].approve = worker[w].approve
                           /\ worker[w].at # "idle" => worker'[w].changed = TRUE
    BY <1>2, OutdatedType DEF TypeInv, TypeOK
  <2> QED
    BY <2>1 DEF BasisInv, Decided, RestsOn
<1> QED
  BY <1>1, <1>2

LEMMA BasisStep ==
    ASSUME TypeInv, BasisInv, [Next]_vars
    PROVE  BasisInv'
<1> USE DEF TypeInv, TypeOK, Owned
<1>1. ASSUME NEW u \in Uploads,
             Upload(u) \/ UploadFailed(u) \/ \E d \in Docs : UploadStart(u, d)
      PROVE  BasisInv'
  <2>1. CASE \E ok \in BOOLEAN : UploadReplace(u, ok)
    <3>1. ~Twins(active) => ~Twins(active')
      BY <2>1 DEF UploadReplace, Twins
    <3>2. worker' = Outdated /\ UNCHANGED <<good, byWorker, twins>>
      BY <2>1 DEF UploadReplace
    <3> QED
      BY <3>1, <3>2, BasisKept DEF BasisInv
  <2>2. CASE \E ok \in BOOLEAN : UploadInsert(u, ok)
    <3>1. worker' = Outdated /\ good \subseteq good' /\ UNCHANGED byWorker
      BY <2>2 DEF UploadInsert
    <3>2. ~twins' => ~twins /\ ~Twins(active')
      BY <2>2 DEF UploadInsert
    <3> QED
      BY <3>1, <3>2, BasisKept
  <2>3. CASE \/ \E ok \in BOOLEAN : \/ ScheduleCheck(u, ok) \/ ScheduleUser(u, ok)
                                      \/ ScheduleCancel(u, ok)
             \/ ScheduleInsert(u) \/ \E d \in Docs : UploadStart(u, d)
    <3>1. UNCHANGED <<status, active, good, worker, byWorker, twins>>
      BY <2>3 DEF ScheduleCheck, ScheduleCancel, ScheduleUser, ScheduleInsert, UploadStart,
         documents
    <3> QED
      BY <3>1, Stands, BasisKept DEF BasisInv
  <2>4. CASE UploadFailed(u)
    <3>1. UNCHANGED <<active, good, worker, byWorker, twins>>
      BY <2>4 DEF UploadFailed
    <3>2. \A d \in active : status'[d] = "denied" => status[d] = "denied"
      BY <2>4 DEF UploadFailed
    <3> QED
      BY <3>1, <3>2, Stands, BasisKept DEF BasisInv
  <2> QED
    BY <1>1, <2>1, <2>2, <2>3, <2>4 DEF Upload
<1>2. ASSUME \/ \E d \in Docs : Delete(d)
             \/ \E d \in Docs, s \in {"pending", "approved", "denied"} : Review(d, s)
      PROVE  BasisInv'
  <2>1. worker' = Outdated /\ UNCHANGED <<good, byWorker, twins>> /\ active' \subseteq active
    BY <1>2 DEF Delete, Review
  <2>2. ~Twins(active) => ~Twins(active')
    BY <2>1 DEF Twins
  <2> QED
    BY <2>1, <2>2, BasisKept DEF BasisInv
<1>3. ASSUME \/ \E ok \in BOOLEAN : ReviewUser(ok)
             \/ \E r \in Rows : Due(r) \/ LeaseEnds(r)
             \/ UNCHANGED vars
      PROVE  BasisInv'
  <2>1. UNCHANGED <<status, active, good, worker, byWorker, twins>>
    BY <1>3 DEF ReviewUser, Due, LeaseEnds, vars, documents
  <2> QED
    BY <2>1, Stands, BasisKept DEF BasisInv
<1>4. ASSUME NEW w \in Workers, Work(w) \/ WorkerFails(w)
      PROVE  BasisInv'
  <2>0. worker[w] \in Job
    OBVIOUS
  <2>1. CASE \E ok \in BOOLEAN : ReadDocs(w, ok)
    <3>1. PICK ok \in BOOLEAN : ReadDocs(w, ok)
      BY <2>1
    <3>2. /\ UNCHANGED <<status, active, good, byWorker, twins>>
          /\ \A v \in Workers : v # w => worker'[v] = worker[v]
      BY <3>1 DEF ReadDocs, documents
    <3>3. MayApprove <=> MayApprove'
      BY <3>2 DEF MayApprove, Candidates
    <3>4. /\ worker'[w].at = "user" /\ worker'[w].approve = ok
          /\ worker'[w].todo = {d \in active : status[d] # "approved"}
      BY <2>0, <3>1 DEF ReadDocs, Job
    <3>5. ok => MayApprove
      BY <3>1 DEF ReadDocs
    <3>6. ~twins /\ ok => worker'[w].todo \subseteq good
      BY <3>4, <3>5, NoTwins DEF BasisInv
    <3> QED
      BY <3>2, <3>3, <3>4, <3>5, <3>6 DEF BasisInv, Decided, RestsOn
  <2>2. CASE \E ok \in BOOLEAN, d \in Docs : ApproveDoc(w, d, ok)
    <3>1. PICK ok \in BOOLEAN, d \in Docs : ApproveDoc(w, d, ok)
      BY <2>2
    <3>2. /\ UNCHANGED <<active, good, twins>>
          /\ \A v \in Workers : v # w => worker'[v] = worker[v]
      BY <3>1 DEF ApproveDoc
    <3>3. \A e \in active : status'[e] = "denied" => status[e] = "denied"
      BY <3>1 DEF ApproveDoc
    <3>4. MayApprove => MayApprove'
      BY <3>2, <3>3, Stands
    <3>5. /\ worker'[w].at = "approve" /\ worker[w].at = "approve"
          /\ worker'[w].approve = worker[w].approve
          /\ worker'[w].todo = worker[w].todo \ {d} /\ d \in worker[w].todo
          /\ worker'[w].changed = worker[w].changed
      BY <2>0, <3>1 DEF ApproveDoc, Job
    <3>6. byWorker' \subseteq byWorker \cup {d}
      BY <3>1 DEF ApproveDoc
    <3>7. ~twins => d \in good
      BY <3>5 DEF BasisInv, Decided, RestsOn
    <3> QED
      BY <3>2, <3>4, <3>5, <3>6, <3>7 DEF BasisInv, Decided, RestsOn
  <2>3. CASE ReadUser(w) \/ DocsApproved(w)
    <3>1. /\ UNCHANGED <<status, active, good, byWorker, twins>>
          /\ \A v \in Workers : v # w => worker'[v] = worker[v]
      BY <2>3 DEF ReadUser, DocsApproved, documents
    <3>2. MayApprove <=> MayApprove'
      BY <3>1 DEF MayApprove, Candidates
    <3>3. \/ worker'[w] = Idle
          \/ /\ worker[w].at \in {"user", "approve"}
             /\ worker'[w].at \in {"approve", "verify"} => worker[w].approve
             /\ worker'[w].todo = worker[w].todo
             /\ worker'[w].approve = worker[w].approve
             /\ worker'[w].changed = worker[w].changed
      BY <2>0, <2>3 DEF ReadUser, DocsApproved, Job, BasisInv
    <3> QED
      BY <3>1, <3>2, <3>3, Blank DEF BasisInv, Decided, RestsOn
  <2>4. CASE \/ \E r \in Rows : Claim(w, r)
             \/ ApproveUser(w) \/ Mark(w) \/ Email(w) \/ WorkerFails(w)
    <3>1. /\ UNCHANGED <<status, active, good, byWorker, twins>>
          /\ \A v \in Workers : v # w => worker'[v] = worker[v]
      BY <2>4 DEF Claim, ApproveUser, Mark, Email, WorkerFails, documents
    <3>2. MayApprove <=> MayApprove'
      BY <3>1 DEF MayApprove, Candidates
    <3>3. worker'[w].at \in {"idle", "docs", "mark", "email"}
      <4>1. CASE \E r \in Rows : Claim(w, r)
        BY <4>1 DEF Claim, Idle
      <4>2. CASE ApproveUser(w) \/ Mark(w)
        BY <2>0, <4>2, Blank DEF ApproveUser, Mark, Job
      <4>3. CASE Email(w) \/ WorkerFails(w)
        BY <4>3, Blank DEF Email, WorkerFails
      <4> QED
        BY <2>4, <4>1, <4>2, <4>3
    <3> QED
      BY <3>1, <3>2, <3>3 DEF BasisInv, Decided, RestsOn
  <2> QED
    BY <1>4, <2>1, <2>2, <2>3, <2>4 DEF Work
<1> QED
  BY <1>1, <1>2, <1>3, <1>4 DEF Next

LEMMA Based == Spec => []BasisInv
<1>1. Init => BasisInv
  BY Blank DEF Init, BasisInv, Twins, Decided
<1>2. TypeInv /\ BasisInv /\ [Next]_vars => BasisInv'
  BY BasisStep
<1> QED
  BY <1>1, <1>2, Typed, PTL DEF Spec

(***************************************************************************)
(* Workers approve documents scored well enough only, unless two of one    *)
(* kind were active at some time.                                          *)
(***************************************************************************)
THEOREM ScoredOnlyHolds == Spec => []ScoredOnly
<1>1. BasisInv => ScoredOnly
  BY DEF BasisInv, ScoredOnly
<1> QED
  BY <1>1, Based, PTL

(***************************************************************************)
(* A dealer becomes verified on documents that would be approved at that   *)
(* moment, or that changed after the worker had read them.                 *)
(***************************************************************************)
THEOREM VerifiedOnDocumentsHolds == Spec => VerifiedOnDocuments
<1> DEFINE A == ~verified /\ verified' =>
                  MayApprove \/ \E w \in Workers : worker[w].at = "verify" /\ worker[w].changed
<1>1. ASSUME TypeInv, BasisInv, [Next]_vars, ~verified, verified'
      PROVE  \E w \in Workers : worker[w].at = "verify"
  BY <1>1, ZenonT(60) DEF Next, Upload, UploadFailed, UploadStart, UploadReplace, UploadInsert, ScheduleCheck,
     ScheduleUser, ScheduleCancel, ScheduleInsert, Delete, Review, ReviewUser, Due, LeaseEnds,
     Work, Claim, ReadDocs, ReadUser, ApproveDoc, DocsApproved, ApproveUser, Mark, Email,
     WorkerFails, vars
<1>2. TypeInv /\ BasisInv /\ [Next]_vars => [A]_vars
  BY <1>1 DEF BasisInv, Decided, RestsOn, TypeInv, TypeOK, Job
<1>3. Spec => [][A]_vars
  BY <1>2, Typed, Based, PTL DEF Spec
<1> QED
  BY <1>3, PTL DEF VerifiedOnDocuments

=============================================================================

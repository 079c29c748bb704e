------------------------------- MODULE Media -------------------------------
(***************************************************************************)
(* MediaService and MediaStorageService: pictures that sellers upload,     *)
(* admins approve or reject, sellers attach to products, and a nightly     *)
(* cleanup deletes.  An asset is a row of media_assets and a file under    *)
(* the staging or the gallery root; no transaction spans the two.          *)
(*                                                                         *)
(* Every operation loads the row, touches the file, and saves the row.     *)
(* TypeORM's save() is itself two statements: it selects the row again and *)
(* updates the columns that differ, or inserts when it finds no row.  Each *)
(* of these is a step; calls[h] is what request h has in hand.             *)
(***************************************************************************)
EXTENDS Integers, FiniteSets

CONSTANTS
  Assets,     \* ids of media assets
  NoRow,      \* an id without a row in media_assets
  Handlers,   \* concurrent requests
  Cron,       \* the cleanup job, run by one process
  Quota,      \* mediaConfig.dailyUploadQuota, of the one seller modelled
  Calm,       \* assets worked on by one request, or the cleanup, at a time
  MaxDates    \* bound: expiry dates handed out

VARIABLES
  assets,  \* media_assets
  files,   \* files[a]: the roots under which the file of a exists
  known,   \* ids handed out by newId()
  dates,   \* number of expiry dates handed out; 0 is null
  past,    \* the dates that have passed
  calls,   \* the request each handler is in the middle of
  cut      \* history: assets on which a request or the job was cut short

mediaVars == <<assets, files, known, dates, past, calls, cut>>

Roots == {"staging", "gallery"}

Row ==
  [location : Roots, status : {"pending", "approved", "rejected"}, used : BOOLEAN,
   expires : 0..MaxDates]

ASSUME MediaAssumption ==
  /\ Quota \in Nat \ {0}
  /\ Calm \subseteq Assets
  /\ MaxDates \in Nat
  /\ Cron \notin Handlers
  /\ NoRow \notin Row

(* File deletions still to do, in no particular order.                     *)
Doomed == [asset : Assets, location : Roots]

Idle == [op |-> "idle"]

Call ==
  {Idle}
  \cup [op : {"store", "insert", "promote", "save"}, asset : Assets, new : Row]
  \cup [op : {"update"}, asset : Assets, new : Row, seen : Row]
  \cup [op : {"delete"}, todo : SUBSET Doomed]
  \cup [op : {"drop"}, asset : Assets, todo : SUBSET Doomed]

Workers == Handlers \cup {Cron}

-----------------------------------------------------------------------------
Exists(a) == assets[a] # NoRow

Rows == {a \in Assets : Exists(a)}

Goto(h, call) == calls' = [calls EXCEPT ![h] = call]

Accept(h, call) == calls[h] = Idle /\ Goto(h, call)

In(h, op) == calls[h].op = op

(* The assets a request has in hand.                                       *)
InHand(call) ==
  IF call.op = "idle" THEN {}
  ELSE IF call.op = "delete" THEN {t.asset : t \in call.todo}
  ELSE IF call.op = "drop" THEN {call.asset} \cup {t.asset : t \in call.todo}
  ELSE {call.asset}

InWork(a) == \E h \in Workers : a \in InHand(calls[h])

(* hoursFromNow: no two dates are equal.                                   *)
NewDate ==
  /\ dates < MaxDates
  /\ dates' = dates + 1

(* The uploads of the day; the model is one day of one seller.             *)
WithinQuota == Cardinality(Rows) < Quota

(* upload: count, write the file to staging, save the row.                 *)
BeginUpload(h, a) ==
  /\ a \notin known
  /\ WithinQuota
  /\ NewDate
  /\ known' = known \cup {a}
  /\ Accept(h, [op |-> "store", asset |-> a,
                new |-> [location |-> "staging", status |-> "pending", used |-> FALSE,
                         expires |-> dates + 1]])
  /\ UNCHANGED <<assets, files, past, cut>>

StoreFile(h) ==
  /\ In(h, "store")
  /\ files' = [files EXCEPT ![calls[h].asset] = @ \cup {"staging"}]
  /\ Goto(h, [calls[h] EXCEPT !.op = "save"])
  /\ UNCHANGED <<assets, known, dates, past, cut>>

ApprovedRow(a) ==
  [assets[a] EXCEPT !.location = "gallery", !.status = "approved", !.expires = 0]

(* review: an approved asset is answered at once; a file in staging is     *)
(* moved before the row is saved.                                          *)
Approve(h, a) ==
  /\ Exists(a)
  /\ assets[a].status # "approved"
  /\ Accept(h, [op |-> IF assets[a].location = "staging" THEN "promote" ELSE "save",
                asset |-> a, new |-> ApprovedRow(a)])
  /\ UNCHANGED <<assets, files, known, dates, past, cut>>

(* Mutant: the file is deleted from staging and not moved.                 *)
MovedNowhere(left) == left
Moved(left) == {"gallery"} \cup left

(* promoteToGallery: a rename; failing that a copy and a deletion whose    *)
(* error is ignored.  Without a file in staging both fail and so does the  *)
(* request.                                                                *)
Promote(h) ==
  /\ In(h, "promote")
  /\ LET a == calls[h].asset
     IN  \/ /\ "staging" \in files[a]
            /\ \E left \in SUBSET {"staging"} :
                 files' = [files EXCEPT ![a] = Moved(left)]
            /\ Goto(h, [calls[h] EXCEPT !.op = "save"])
         \/ /\ "staging" \notin files[a]
            /\ Goto(h, Idle)
            /\ UNCHANGED files
  /\ UNCHANGED <<assets, known, dates, past, cut>>

MayReject(a) == ~assets[a].used

Reject(h, a) ==
  /\ Exists(a)
  /\ MayReject(a)
  /\ NewDate
  /\ Accept(h, [op |-> "save", asset |-> a,
                new |-> [assets[a] EXCEPT !.status = "rejected", !.used = FALSE,
                                          !.expires = dates + 1]])
  /\ UNCHANGED <<assets, files, known, past, cut>>

(* Mutant: the status is not tested.                                       *)
MayAttachAny(a) == TRUE
MayAttach(a) == assets[a].status = "approved"

Attach(h, a) ==
  /\ Exists(a)
  /\ MayAttach(a)
  /\ Accept(h, [op |-> "save", asset |-> a,
                new |-> [assets[a] EXCEPT !.used = TRUE, !.expires = 0]])
  /\ UNCHANGED <<assets, files, known, dates, past, cut>>

Detach(h, a) ==
  /\ Exists(a)
  /\ Accept(h, [op |-> "save", asset |-> a,
                new |-> [assets[a] EXCEPT !.used = FALSE,
                           !.expires = IF assets[a].status = "approved" THEN 0 ELSE @]])
  /\ UNCHANGED <<assets, files, known, dates, past, cut>>

(* save(): what it does depends on the row it finds now.                   *)
SelectRow(h) ==
  /\ In(h, "save")
  /\ LET c == calls[h]
     IN  IF Exists(c.asset)
         THEN Goto(h, [op |-> "update", asset |-> c.asset, new |-> c.new,
                       seen |-> assets[c.asset]])
         ELSE Goto(h, [c EXCEPT !.op = "insert"])
  /\ UNCHANGED <<assets, files, known, dates, past, cut>>

(* The INSERT fails if the row has come back.                              *)
InsertRow(h) ==
  /\ In(h, "insert")
  /\ assets' = IF Exists(calls[h].asset) THEN assets
               ELSE [assets EXCEPT ![calls[h].asset] = calls[h].new]
  /\ Goto(h, Idle)
  /\ UNCHANGED <<files, known, dates, past, cut>>

(* The columns that differed are written, the others left alone.           *)
Updated(row, seen, new) ==
  [c \in DOMAIN row |-> IF new[c] # seen[c] THEN new[c] ELSE row[c]]

(* The UPDATE matches nothing if the row is gone.                          *)
UpdateRow(h) ==
  /\ In(h, "update")
  /\ LET c == calls[h]
     IN  assets' = IF ~Exists(c.asset) THEN assets
                   ELSE [assets EXCEPT ![c.asset] = Updated(@, c.seen, c.new)]
  /\ Goto(h, Idle)
  /\ UNCHANGED <<files, known, dates, past, cut>>

-----------------------------------------------------------------------------
(* Mutant: an asset in use is deleted like any other.                      *)
MayRemoveAny(a) == TRUE
MayRemove(a) == ~assets[a].used

Remove(h, a) ==
  /\ Exists(a)
  /\ MayRemove(a)
  /\ Accept(h, [op |-> "delete", todo |-> {[asset |-> a, location |-> assets[a].location]}])
  /\ UNCHANGED <<assets, files, known, dates, past, cut>>

(* The WHERE clauses of cleanupExpired.                                    *)
Expired(a) ==
  /\ Exists(a)
  /\ assets[a].status \in {"pending", "rejected"}
  /\ ~assets[a].used
  /\ assets[a].expires \in past

(* cleanupExpired finds all expired assets and then deletes one after the  *)
(* other, each as it was when found.                                       *)
FindExpired ==
  /\ \A h \in Handlers : InHand(calls[h]) \cap Calm = {}
  /\ \E a \in Assets : Expired(a)
  /\ Accept(Cron, [op |-> "delete",
                   todo |-> {[asset |-> a, location |-> assets[a].location] :
                               a \in {b \in Assets : Expired(b)}}])
  /\ UNCHANGED <<assets, files, known, dates, past, cut>>

(* deleteFile: nothing happens if there is no such file.                   *)
DeleteFile(h) ==
  /\ In(h, "delete")
  /\ \E t \in calls[h].todo :
       /\ files' = [files EXCEPT ![t.asset] = @ \ {t.location}]
       /\ Goto(h, [op |-> "drop", asset |-> t.asset, todo |-> calls[h].todo \ {t}])
  /\ UNCHANGED <<assets, known, dates, past, cut>>

(* Mutant: the row stays behind.                                           *)
WithoutRowKept(a) == assets
WithoutRow(a) == [assets EXCEPT ![a] = NoRow]

DropRow(h) ==
  /\ In(h, "drop")
  /\ assets' = WithoutRow(calls[h].asset)
  /\ Goto(h, IF calls[h].todo = {} THEN Idle
             ELSE [op |-> "delete", todo |-> calls[h].todo])
  /\ UNCHANGED <<files, known, dates, past, cut>>

(* A storage error, a database error, a restart.                           *)
Abort(h) ==
  /\ calls[h] # Idle
  /\ Goto(h, Idle)
  /\ cut' = cut \cup InHand(calls[h])
  /\ UNCHANGED <<assets, files, known, dates, past>>

TimePasses(d) ==
  /\ d \notin past
  /\ past' = past \cup {d}
  /\ UNCHANGED <<assets, files, known, dates, calls, cut>>

-----------------------------------------------------------------------------
MediaInit ==
  /\ assets = [a \in Assets |-> NoRow]
  /\ files = [a \in Assets |-> {}]
  /\ known = {}
  /\ dates = 0
  /\ past = {}
  /\ calls = [h \in Workers |-> Idle]
  /\ cut = {}

Request(h, a) ==
  /\ a \in Calm => ~InWork(a)
  /\ \/ BeginUpload(h, a)
     \/ Approve(h, a)
     \/ Reject(h, a)
     \/ Attach(h, a)
     \/ Detach(h, a)
     \/ Remove(h, a)

WorkerStep(h) ==
  \/ StoreFile(h)
  \/ Promote(h)
  \/ SelectRow(h)
  \/ InsertRow(h)
  \/ UpdateRow(h)
  \/ DeleteFile(h)
  \/ DropRow(h)

MediaNext ==
  \/ \E h \in Handlers, a \in Assets : Request(h, a)
  \/ FindExpired
  \/ \E h \in Workers : WorkerStep(h)
  \/ \E h \in Workers : Abort(h)
  \/ \E d \in 1..dates : TimePasses(d)

MediaSpec == MediaInit /\ [][MediaNext]_mediaVars

(* A request comes to an end, one way or another.  The job runs every      *)
(* night, finds the calm assets untouched on some, and is not interrupted  *)
(* every time.                                                             *)
MediaFairSpec ==
  /\ MediaSpec
  /\ \A h \in Handlers : WF_mediaVars(WorkerStep(h) \/ Abort(h))
  /\ SF_mediaVars(FindExpired)
  /\ SF_mediaVars(DeleteFile(Cron))
  /\ SF_mediaVars(DropRow(Cron))

-----------------------------------------------------------------------------
(* Types of table, files and requests; a row has an id that was handed out,*)
(* and expiresAt is null in exactly the approved rows, unless requests for *)
(* one asset have overlapped.                                              *)
MediaTypeOK ==
  /\ assets \in [Assets -> Row \cup {NoRow}]
  /\ files \in [Assets -> SUBSET Roots]
  /\ known \subseteq Assets
  /\ Rows \subseteq known
  /\ \A a \in Rows \cap Calm : assets[a].status = "approved" <=> assets[a].expires = 0
  /\ dates \in 0..MaxDates
  /\ past \subseteq 1..dates
  /\ calls \in [Workers -> Call]
  /\ cut \subseteq Assets

(* The file of an asset is where its row says, whatever reviews, moves and *)
(* detachments it has been through: its public URL works.  Only a request  *)
(* cut short, or one that overlaps the cleanup, can separate the two.       *)
FileWhereRowSays ==
  \A a \in (Rows \cap Calm) \ cut : ~InWork(a) => assets[a].location \in files[a]

(* What is attached to a product is approved and in the gallery.           *)
UsedIsApproved ==
  \A a \in Rows \cap Calm :
    assets[a].used => assets[a].status = "approved" /\ assets[a].location = "gallery"

(* The media of a product is not deleted, neither row nor file, by a       *)
(* removal or by a cleanup that does not overlap with requests for it.     *)
UsedIsKept ==
  [][\A a \in Rows \cap Calm :
       assets[a].used =>
         /\ assets'[a] # NoRow
         /\ assets[a].location \in files[a] => assets[a].location \in files'[a]]_mediaVars

(* An unused asset whose date has passed does not stay: the cleanup gets   *)
(* it, unless it is approved, attached or rejected anew before.            *)
ExpiredIsCollected == \A a \in Assets : Expired(a) ~> ~Expired(a)
=============================================================================

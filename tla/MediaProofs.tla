---------------------------- MODULE MediaProofs ----------------------------
(***************************************************************************)
(* Proofs about Media, for any assets, any number of concurrent requests   *)
(* and any quota.  The theorems speak of the assets in Calm, which one     *)
(* request at a time works on; the others are worked on by any number.     *)
(*                                                                         *)
(* No transaction spans row and file, and save() is two statements: what   *)
(* keeps row and file of a calm asset together between the steps of a      *)
(* request is in the request's hands.  CallFits says what a request knows  *)
(* of row and file at each step, until the row is written.                 *)
(***************************************************************************)
EXTENDS Media, TLAPS

RowOps == {"store", "insert", "promote", "save", "update"}

(* A row of an asset: in use only when approved, approved only in the      *)
(* gallery, and with an expiry date exactly when it is not approved.       *)
RowFine(row) ==
  /\ row.used => row.status = "approved"
  /\ row.status = "approved" => row.location = "gallery"
  /\ row.status = "approved" <=> row.expires = 0

(* The file is where row says; after an interruption it need not be.       *)
FileFits(a, row) == a \in cut \/ row.location \in files[a]

(* What holds of row and file at each step of a request for asset a.       *)
RowCallFits(call, a) ==
  /\ RowFine(call.new)
  /\ call.op = "store" => call.new.location = "staging"
  /\ call.op = "promote" =>
       /\ call.new.location = "gallery"
       /\ Exists(a) => FileFits(a, assets[a])
  /\ call.op \in {"save", "insert", "update"} => FileFits(a, call.new)
  /\ call.op = "update" /\ Exists(a) => call.seen = assets[a]
  /\ call.op = "insert" => ~Exists(a)

CallFits(call) ==
  /\ call.op \in RowOps /\ call.asset \in Calm => RowCallFits(call, call.asset)
  /\ call.op \in {"delete", "drop"} =>
       \A a \in InHand(call) \cap Calm : Exists(a) => ~assets[a].used

(* One request, or the cleanup, works on a calm asset.                     *)
OneAtATime ==
  \A v, w \in Workers : v # w => InHand(calls[v]) \cap InHand(calls[w]) \cap Calm = {}

MediaInv ==
  /\ MediaTypeOK
  /\ calls[Cron].op \in {"idle", "delete", "drop"}
  /\ OneAtATime
  /\ \A a \in Rows \cap Calm : RowFine(assets[a])
  /\ \A w \in Workers : CallFits(calls[w])
  /\ \A a \in Rows \cap Calm : ~InWork(a) => FileFits(a, assets[a])
  /\ \A w \in Workers : InHand(calls[w]) \subseteq known

-----------------------------------------------------------------------------
(* The kinds of calls, told apart by op, and what each has in hand.        *)
LEMMA MediaCallKinds ==
  ASSUME NEW c \in Call
  PROVE  /\ c.op \in RowOps \cup {"idle", "delete", "drop"}
         /\ c.op = "idle" => c = Idle /\ InHand(c) = {}
         /\ c.op \in RowOps => c.asset \in Assets /\ c.new \in Row /\ InHand(c) = {c.asset}
         /\ c.op = "update" => c.seen \in Row
         /\ c.op = "delete" => c.todo \subseteq Doomed /\ InHand(c) = {t.asset : t \in c.todo}
         /\ c.op = "drop" =>
              /\ c.asset \in Assets
              /\ c.todo \subseteq Doomed
              /\ InHand(c) = {c.asset} \cup {t.asset : t \in c.todo}
BY DEF Call, Idle, RowOps, InHand

LEMMA InHandAreAssets ==
  ASSUME NEW c \in Call
  PROVE  InHand(c) \subseteq Assets
BY MediaCallKinds DEF Doomed

(* The calls that steps make.                                              *)
LEMMA IdleIsCall ==
  Idle \in Call /\ InHand(Idle) = {} /\ Idle.op = "idle"
BY DEF Idle, Call, InHand

LEMMA RowCallIsCall ==
  ASSUME NEW op \in {"store", "insert", "promote", "save"}, NEW a \in Assets, NEW row \in Row
  PROVE  /\ [op |-> op, asset |-> a, new |-> row] \in Call
         /\ InHand([op |-> op, asset |-> a, new |-> row]) = {a}
<1> DEFINE call == [op |-> op, asset |-> a, new |-> row]
<1>1. call \in Call
  BY DEF Call
<1>2. call.op \in RowOps /\ call.asset = a
  BY DEF RowOps
<1> HIDE DEF call
<1>3. InHand(call) = {a}
  BY <1>1, <1>2, MediaCallKinds
<1> QED
  BY <1>1, <1>3 DEF call

LEMMA UpdateCallIsCall ==
  ASSUME NEW a \in Assets, NEW row \in Row, NEW seen \in Row
  PROVE  /\ [op |-> "update", asset |-> a, new |-> row, seen |-> seen] \in Call
         /\ InHand([op |-> "update", asset |-> a, new |-> row, seen |-> seen]) = {a}
<1> DEFINE call == [op |-> "update", asset |-> a, new |-> row, seen |-> seen]
<1>1. call \in Call
  BY DEF Call
<1>2. call.op \in RowOps /\ call.asset = a
  BY DEF RowOps
<1> HIDE DEF call
<1>3. InHand(call) = {a}
  BY <1>1, <1>2, MediaCallKinds
<1> QED
  BY <1>1, <1>3 DEF call

LEMMA DeleteCallIsCall ==
  ASSUME NEW todo \in SUBSET Doomed
  PROVE  /\ [op |-> "delete", todo |-> todo] \in Call
         /\ InHand([op |-> "delete", todo |-> todo]) = {t.asset : t \in todo}
BY DEF Call, InHand

LEMMA DropCallIsCall ==
  ASSUME NEW a \in Assets, NEW todo \in SUBSET Doomed
  PROVE  /\ [op |-> "drop", asset |-> a, todo |-> todo] \in Call
         /\ InHand([op |-> "drop", asset |-> a, todo |-> todo]) =
              {a} \cup {t.asset : t \in todo}
BY DEF Call, InHand

(* save() of a call goes on with the same asset and row.                   *)
LEMMA NextOp ==
  ASSUME NEW c \in Call, c.op \in {"store", "promote", "save"}, NEW op \in {"save", "insert"}
  PROVE  [c EXCEPT !.op = op] = [op |-> op, asset |-> c.asset, new |-> c.new]
BY DEF Call, Idle

(* The columns that differ, written to the row that was selected, make it  *)
(* the row that was saved; written to any row they make a row.             *)
LEMMA UpdatedRow ==
  ASSUME NEW row \in Row, NEW seen \in Row, NEW new \in Row
  PROVE  Updated(row, seen, new) \in Row /\ Updated(row, row, new) = new
BY DEF Updated, Row

-----------------------------------------------------------------------------
(* A step of worker h that touches no calm asset but those in its hands,   *)
(* and leaves what it keeps in hand as it must be.                         *)
LEMMA StepKeeps ==
  ASSUME MediaInv, NEW h \in Workers, NEW call \in Call, Goto(h, call), MediaTypeOK',
         cut \subseteq cut', known \subseteq known', InHand(call) \subseteq known',
         h = Cron => call.op \in {"idle", "delete", "drop"},
         CallFits(call)',
         \A a \in Calm \ InHand(calls[h]) : assets'[a] = assets[a] /\ files'[a] = files[a],
         \A a \in InHand(call) \cap Calm : a \in InHand(calls[h]) \/ ~InWork(a),
         \A a \in InHand(calls[h]) \cap Calm :
           assets'[a] # NoRow =>
             /\ RowFine(assets'[a])
             /\ a \notin InHand(call) => a \in cut' \/ assets'[a].location \in files'[a]
  PROVE  MediaInv'
<1>1. calls' = [calls EXCEPT ![h] = call] /\ calls \in [Workers -> Call]
  BY DEF Goto, MediaInv, MediaTypeOK
<1>2. \A w \in Workers : calls'[w] = IF w = h THEN call ELSE calls[w]
  BY <1>1
<1>3. \A w \in Workers : calls'[w] \in Call /\ calls[w] \in Call
  BY <1>1, <1>2
<1>4. calls'[Cron].op \in {"idle", "delete", "drop"}
  BY <1>2 DEF MediaInv, Workers
<1>5. \A v, w \in Workers :
        v # w => InHand(calls[v]) \cap InHand(calls[w]) \cap Calm = {}
  BY DEF MediaInv, OneAtATime
<1>6. OneAtATime'
  <2>1. SUFFICES ASSUME NEW v \in Workers, NEW w \in Workers, v # w,
                        NEW a \in Calm, a \in InHand(calls'[v]), a \in InHand(calls'[w])
                 PROVE  FALSE
    BY DEF OneAtATime, InHand
  <2>2. ASSUME NEW x \in Workers, NEW y \in Workers, x # y, y = h,
               a \in InHand(calls'[x]), a \in InHand(calls'[y])
        PROVE  FALSE
    <3>1. calls'[y] = call /\ calls'[x] = calls[x]
      BY <1>2, <2>2
    <3>2. a \in InHand(calls[h]) \/ ~InWork(a)
      BY <2>2, <3>1
    <3>3. a \notin InHand(calls[h])
      BY <1>5, <2>2, <3>1
    <3> QED
      BY <2>2, <3>1, <3>2, <3>3 DEF InWork
  <2>3. v = h \/ w = h
    BY <1>2, <1>5, <2>1
  <2> QED
    BY <2>1, <2>2, <2>3
<1>7. \A a \in Rows' \cap Calm : RowFine(assets'[a])
  BY DEF Rows, Exists, MediaInv
<1>8. ASSUME NEW w \in Workers, w # h PROVE CallFits(calls[w])'
  <2>1. calls'[w] = calls[w] /\ CallFits(calls[w])
    BY <1>2, <1>8 DEF MediaInv
  <2>2. \A a \in InHand(calls[w]) \cap Calm : assets'[a] = assets[a] /\ files'[a] = files[a]
    BY <1>5, <1>8
  <2>3. calls[w].op \in RowOps => InHand(calls[w]) = {calls[w].asset}
    BY <1>3, MediaCallKinds
  <2>4. ASSUME calls[w].op \in RowOps, calls[w].asset \in Calm
        PROVE  RowCallFits(calls[w], calls[w].asset)'
    <3> DEFINE a == calls[w].asset
               call_w == calls[w]
    <3>1. RowCallFits(calls[w], a)
      BY <2>1, <2>4 DEF CallFits
    <3>2. assets'[a] = assets[a] /\ files'[a] = files[a]
      BY <2>2, <2>3, <2>4
    <3>3. /\ RowFine(calls'[w].new)
          /\ calls'[w].op = "store" => calls'[w].new.location = "staging"
          /\ calls'[w].op = "insert" => assets'[a] = NoRow
          /\ calls'[w].op = "update" /\ assets'[a] # NoRow => calls'[w].seen = assets'[a]
      BY <2>1, <3>1, <3>2 DEF RowCallFits, Exists
    <3>4. /\ calls'[w].op = "promote" =>
               /\ calls'[w].new.location = "gallery"
               /\ assets'[a] # NoRow => a \in cut' \/ assets'[a].location \in files'[a]
          /\ calls'[w].op \in {"save", "insert", "update"} =>
               a \in cut' \/ calls'[w].new.location \in files'[a]
      BY <2>1, <3>1, <3>2 DEF RowCallFits, Exists, FileFits
    <3> QED
      BY <2>1, <3>3, <3>4 DEF RowCallFits, Exists, FileFits
  <2>5. ASSUME calls[w].op \in {"delete", "drop"}, NEW a \in InHand(calls[w]) \cap Calm,
               assets'[a] # NoRow
        PROVE  ~assets'[a].used
    BY <2>1, <2>2, <2>5 DEF CallFits, Exists
  <2> QED
    BY <2>1, <2>4, <2>5 DEF CallFits, Exists, InHand
<1>9. \A w \in Workers : CallFits(calls[w])'
  BY <1>2, <1>8 DEF CallFits
<1>10. \A a \in Rows' \cap Calm : ~InWork(a)' => a \in cut' \/ assets'[a].location \in files'[a]
  <2>1. SUFFICES ASSUME NEW a \in Calm, assets'[a] # NoRow,
                        \A w \in Workers : a \notin InHand(calls'[w])
                 PROVE  a \in cut' \/ assets'[a].location \in files'[a]
    BY DEF Rows, Exists, InWork, InHand
  <2>2. a \notin InHand(call)
    BY <1>2, <2>1
  <2>3. CASE a \in InHand(calls[h])
    BY <2>1, <2>2, <2>3
  <2>4. CASE a \notin InHand(calls[h])
    <3>1. ~InWork(a)
      BY <1>2, <2>1, <2>4 DEF InWork
    <3>2. a \in Rows
      BY <2>1, <2>4, MediaAssumption DEF Rows, Exists
    <3> QED
      BY <2>4, <3>1, <3>2 DEF MediaInv, FileFits
  <2> QED
    BY <2>3, <2>4
<1>11. \A w \in Workers : InHand(calls'[w]) \subseteq known'
  BY <1>2 DEF MediaInv
<1> QED
  BY <1>4, <1>6, <1>7, <1>9, <1>10, <1>11 DEF MediaInv, FileFits, InHand

(* Types after a step that writes neither table nor clock.                 *)
LEMMA CallTyped ==
  ASSUME MediaInv, NEW h \in Workers, NEW call \in Call, Goto(h, call),
         assets' \in [Assets -> Row \cup {NoRow}], Rows' \subseteq known',
         \A a \in Rows' \cap Calm : assets'[a].status = "approved" <=> assets'[a].expires = 0,
         files' \in [Assets -> SUBSET Roots], cut' \subseteq Assets,
         known' \subseteq Assets, dates' \in 0..MaxDates, past' \subseteq 1..dates'
  PROVE  MediaTypeOK'
<1>1. calls' \in [Workers -> Call]
  BY DEF Goto, MediaInv, MediaTypeOK
<1> QED
  BY <1>1 DEF MediaTypeOK

(* A request is accepted: nothing is written yet.                          *)
LEMMA AcceptKeeps ==
  ASSUME MediaInv, NEW h \in Handlers, NEW a \in Assets, a \in Calm => ~InWork(a),
         NEW call \in Call, Accept(h, call), InHand(call) = {a}, CallFits(call)',
         UNCHANGED <<assets, files, past, cut>>, known \subseteq known', known' \subseteq Assets,
         a \in known', dates' \in dates..MaxDates
  PROVE  MediaInv'
<1>1. h \in Workers /\ h # Cron /\ Goto(h, call) /\ InHand(calls[h]) = {}
  BY MediaAssumption, IdleIsCall DEF Workers, Accept
<1>2. Rows' = Rows
  BY DEF Rows, Exists
<1>3. dates' \in 0..MaxDates /\ past' \subseteq 1..dates'
  BY MediaAssumption DEF MediaInv, MediaTypeOK
<1>4. MediaTypeOK'
  BY <1>1, <1>2, <1>3, CallTyped DEF MediaInv, MediaTypeOK
<1> QED
  BY <1>1, <1>4, StepKeeps

LEMMA RowAccepted ==
  ASSUME MediaInv, NEW h \in Handlers, NEW a \in Assets, a \in Calm => ~InWork(a),
         NEW row \in Row, NEW op \in {"store", "promote", "save"},
         Accept(h, [op |-> op, asset |-> a, new |-> row]),
         a \in Calm => RowFine(row),
         op = "store" => row.location = "staging",
         op = "promote" => row.location = "gallery",
         op = "save" => Exists(a) /\ row.location = assets[a].location,
         UNCHANGED <<assets, files, past, cut>>, known \subseteq known', known' \subseteq Assets,
         a \in known', dates' \in dates..MaxDates
  PROVE  MediaInv'
<1> DEFINE call == [op |-> op, asset |-> a, new |-> row]
<1>1. call \in Call /\ InHand(call) = {a}
  BY RowCallIsCall
<1>2. call.op = op /\ call.asset = a /\ call.new = row
  OBVIOUS
<1> HIDE DEF call
<1>3. a \in Calm /\ assets[a] # NoRow => a \in cut \/ assets[a].location \in files[a]
  BY DEF MediaInv, Rows, Exists, FileFits
<1>4. CallFits(call)'
  BY <1>2, <1>3 DEF CallFits, RowCallFits, FileFits, Exists
<1>5. Accept(h, call)
  BY DEF call
<1> QED
  BY <1>1, <1>4, <1>5, AcceptKeeps

LEMMA RowsKnown ==
  ASSUME MediaInv, NEW a \in Assets, Exists(a)
  PROVE  /\ assets[a] \in Row
         /\ a \in known
         /\ a \in Calm => RowFine(assets[a])
BY DEF MediaInv, MediaTypeOK, Rows, Exists

LEMMA RequestKeeps ==
  ASSUME MediaInv, NEW h \in Handlers, NEW a \in Assets, Request(h, a)
  PROVE  MediaInv'
<1>1. a \in Calm => ~InWork(a)
  BY DEF Request
<1>2. dates \in Nat /\ MaxDates \in Nat /\ dates <= MaxDates /\ 0 \in 0..MaxDates
      /\ known \subseteq Assets
  BY MediaAssumption DEF MediaInv, MediaTypeOK
<1>3. NewDate => dates' \in dates..MaxDates /\ dates + 1 \in 0..MaxDates /\ dates + 1 # 0
  BY <1>2 DEF NewDate
<1>4. CASE BeginUpload(h, a)
  <2> DEFINE row == [location |-> "staging", status |-> "pending", used |-> FALSE,
                     expires |-> dates + 1]
  <2>1. row \in Row
    BY <1>3, <1>4 DEF BeginUpload, Roots, Row
  <2>2. RowFine(row) /\ row.location = "staging"
    BY <1>3, <1>4 DEF BeginUpload, RowFine
  <2>3. Accept(h, [op |-> "store", asset |-> a, new |-> row])
    BY <1>4 DEF BeginUpload
  <2> HIDE DEF row
  <2>4. UNCHANGED <<assets, files, past, cut>> /\ known' = known \cup {a} /\ NewDate
    BY <1>4 DEF BeginUpload
  <2> QED
    BY <1>1, <1>2, <1>3, <2>1, <2>2, <2>3, <2>4, RowAccepted
<1>5. ASSUME Exists(a), NEW row \in Row, NEW op \in {"promote", "save"},
             Accept(h, [op |-> op, asset |-> a, new |-> row]),
             RowFine(assets[a]) => RowFine(row),
             op = "promote" => row.location = "gallery",
             op = "save" => row.location = assets[a].location,
             UNCHANGED <<assets, files, known, past, cut>>,
             NewDate \/ UNCHANGED dates
      PROVE  MediaInv'
  <2>1. a \in known /\ (a \in Calm => RowFine(row))
    BY <1>5, RowsKnown
  <2>2. dates' \in dates..MaxDates
    BY <1>2, <1>3, <1>5
  <2> QED
    BY <1>1, <1>2, <1>5, <2>1, <2>2, RowAccepted
<1>6. CASE Approve(h, a)
  <2>1. assets[a] \in Row
    BY <1>6, RowsKnown DEF Approve
  <2>2. ApprovedRow(a) \in Row
    BY <1>2, <2>1 DEF ApprovedRow, Roots, Row
  <2>3. RowFine(ApprovedRow(a)) /\ ApprovedRow(a).location = "gallery"
    BY <2>1 DEF ApprovedRow, RowFine, Row
  <2>4. assets[a].location \in {"staging", "gallery"}
    BY <2>1 DEF Row, Roots
  <2>5. PICK op \in {"promote", "save"} :
          /\ Accept(h, [op |-> op, asset |-> a, new |-> ApprovedRow(a)])
          /\ op = "save" => assets[a].location = "gallery"
    BY <1>6, <2>4 DEF Approve
  <2>6. UNCHANGED <<assets, files, known, past, cut, dates>> /\ Exists(a)
    BY <1>6 DEF Approve
  <2> QED
    BY <1>5, <2>2, <2>3, <2>5, <2>6
<1>7. CASE Reject(h, a)
  <2> DEFINE row == [assets[a] EXCEPT !.status = "rejected", !.used = FALSE,
                                      !.expires = dates + 1]
  <2>1. assets[a] \in Row
    BY <1>7, RowsKnown DEF Reject
  <2>2. row \in Row
    BY <1>3, <1>7, <2>1 DEF Reject, Row
  <2>3. RowFine(row) /\ row.location = assets[a].location
    BY <1>3, <1>7, <2>1 DEF Reject, RowFine, Row
  <2>4. Accept(h, [op |-> "save", asset |-> a, new |-> row])
    BY <1>7 DEF Reject
  <2>5. UNCHANGED <<assets, files, known, past, cut>> /\ NewDate /\ Exists(a)
    BY <1>7 DEF Reject
  <2> HIDE DEF row
  <2> QED
    BY <1>5, <2>2, <2>3, <2>4, <2>5
<1>8. CASE Attach(h, a)
  <2> DEFINE row == [assets[a] EXCEPT !.used = TRUE, !.expires = 0]
  <2>1. assets[a] \in Row
    BY <1>8, RowsKnown DEF Attach
  <2>2. row \in Row
    BY <1>2, <2>1 DEF Row
  <2>3. (RowFine(assets[a]) => RowFine(row)) /\ row.location = assets[a].location
    BY <1>8, <2>1 DEF Attach, MayAttach, RowFine, Row
  <2>4. Accept(h, [op |-> "save", asset |-> a, new |-> row])
    BY <1>8 DEF Attach
  <2>5. UNCHANGED <<assets, files, known, past, cut, dates>> /\ Exists(a)
    BY <1>8 DEF Attach
  <2> HIDE DEF row
  <2> QED
    BY <1>5, <2>2, <2>3, <2>4, <2>5
<1>9. CASE Detach(h, a)
  <2> DEFINE row == [assets[a] EXCEPT !.used = FALSE,
                       !.expires = IF assets[a].status = "approved" THEN 0 ELSE @]
  <2>1. assets[a] \in Row
    BY <1>9, RowsKnown DEF Detach
  <2>2. row \in Row
    BY <1>2, <2>1 DEF Row
  <2>3. (RowFine(assets[a]) => RowFine(row)) /\ row.location = assets[a].location
    BY <2>1 DEF RowFine, Row
  <2>4. Accept(h, [op |-> "save", asset |-> a, new |-> row])
    BY <1>9 DEF Detach
  <2>5. UNCHANGED <<assets, files, known, past, cut, dates>> /\ Exists(a)
    BY <1>9 DEF Detach
  <2> HIDE DEF row
  <2> QED
    BY <1>5, <2>2, <2>3, <2>4, <2>5
<1>10. CASE Remove(h, a)
  <2>1. assets[a] \in Row /\ a \in known
    BY <1>10, RowsKnown DEF Remove
  <2>2. PICK location \in Roots : location = assets[a].location
    BY <2>1 DEF Row
  <2> DEFINE todo == {[asset |-> a, location |-> location]}
             call == [op |-> "delete", todo |-> todo]
  <2>3. todo \in SUBSET Doomed
    BY DEF Doomed
  <2>4. call \in Call /\ InHand(call) = {t.asset : t \in todo}
    BY <2>3, DeleteCallIsCall
  <2>5. InHand(call) = {a} /\ call.op = "delete"
    BY <2>4
  <2>6. Accept(h, call)
    BY <1>10, <2>2 DEF Remove
  <2> HIDE DEF call
  <2>7. UNCHANGED <<assets, files, known, past, cut, dates>> /\ ~assets[a].used
    BY <1>10 DEF Remove, MayRemove
  <2>8. CallFits(call)'
    BY <2>5, <2>7 DEF CallFits, RowOps, Exists, InHand
  <2>9. dates' \in dates..MaxDates
    BY <1>2, <2>7
  <2> QED
    BY <1>1, <1>2, <2>1, <2>4, <2>5, <2>6, <2>7, <2>8, <2>9, AcceptKeeps
<1> QED
  BY <1>4, <1>6, <1>7, <1>8, <1>9, <1>10 DEF Request

(* The cleanup finds no calm asset that a request has in hand.             *)
LEMMA FindKeeps ==
  ASSUME MediaInv, FindExpired
  PROVE  MediaInv'
<1> DEFINE found == {b \in Assets : Expired(b)}
           todo == {[asset |-> a, location |-> assets[a].location] : a \in found}
<1>1. \A a \in found : Exists(a) /\ assets[a] \in Row /\ ~assets[a].used /\ a \in known
  BY RowsKnown DEF Expired
<1>2. todo \in SUBSET Doomed
  BY <1>1 DEF Doomed, Row
<1>3. [op |-> "delete", todo |-> todo] \in Call
      /\ InHand([op |-> "delete", todo |-> todo]) = found
  <2>1. {t.asset : t \in todo} = found
    <3>1. \A t \in todo : t.asset \in found
      OBVIOUS
    <3>2. \A a \in found : \E t \in todo : t.asset = a
      <4>1. TAKE a \in found
      <4>2. WITNESS [asset |-> a, location |-> assets[a].location] \in todo
      <4> QED
        OBVIOUS
    <3> QED
      BY <3>1, <3>2
  <2> QED
    BY <1>2, <2>1, DeleteCallIsCall
<1>4. PICK call \in Call :
        call = [op |-> "delete", todo |-> todo] /\ InHand(call) = found /\ call.op = "delete"
  BY <1>3
<1>5. Accept(Cron, call) /\ UNCHANGED <<assets, files, known, dates, past, cut>>
      /\ \A h \in Handlers : InHand(calls[h]) \cap Calm = {}
  BY <1>4 DEF FindExpired
<1>6. Cron \in Workers /\ Goto(Cron, call) /\ InHand(calls[Cron]) = {}
  BY <1>5, IdleIsCall DEF Workers, Accept
<1>7. MediaTypeOK'
  <2>1. Rows' = Rows
    BY <1>5 DEF Rows, Exists
  <2> QED
    BY <1>5, <1>6, <2>1, CallTyped DEF MediaInv, MediaTypeOK
<1>8. \A a \in InHand(call) \cap Calm : ~InWork(a)
  BY <1>5, <1>6 DEF InWork, Workers
<1>9. CallFits(call)'
  BY <1>1, <1>4, <1>5 DEF CallFits, RowOps, Exists, InHand
<1>10. InHand(call) \subseteq known'
  BY <1>1, <1>4, <1>5
<1> QED
  BY <1>4, <1>5, <1>6, <1>7, <1>8, <1>9, <1>10, StepKeeps

(* A step of a request for asset a that goes on with a, or ends.           *)
LEMMA RowStepKeeps ==
  ASSUME MediaInv, NEW h \in Workers, calls[h].op \in RowOps, NEW a \in Assets,
         a = calls[h].asset,
         NEW call \in Call, Goto(h, call), InHand(call) \in {{a}, {}}, CallFits(call)',
         assets' \in [Assets -> Row \cup {NoRow}],
         files' \in [Assets -> SUBSET Roots],
         \A b \in Assets \ {a} : assets'[b] = assets[b] /\ files'[b] = files[b],
         a \in Calm /\ assets'[a] # NoRow =>
           /\ RowFine(assets'[a])
           /\ InHand(call) = {} => a \in cut \/ assets'[a].location \in files'[a],
         UNCHANGED <<known, dates, past, cut>>
  PROVE  MediaInv'
<1>1. calls[h] \in Call /\ InHand(calls[h]) = {a}
  BY MediaCallKinds DEF MediaInv, MediaTypeOK
<1>2. a \in known
  BY <1>1 DEF MediaInv
<1>3. h # Cron
  BY DEF MediaInv, RowOps
<1>4. MediaTypeOK'
  <2>1. Rows' \subseteq known'
    BY <1>2 DEF Rows, Exists, MediaInv, MediaTypeOK
  <2>2. \A b \in Rows' \cap Calm : assets'[b].status = "approved" <=> assets'[b].expires = 0
    BY DEF Rows, Exists, MediaInv, MediaTypeOK, RowFine
  <2> QED
    BY <2>1, <2>2, CallTyped DEF MediaInv, MediaTypeOK
<1>5. \A b \in Calm \ InHand(calls[h]) : assets'[b] = assets[b] /\ files'[b] = files[b]
  BY <1>1, MediaAssumption
<1>6. \A b \in InHand(calls[h]) \cap Calm :
        assets'[b] # NoRow =>
          /\ RowFine(assets'[b])
          /\ b \notin InHand(call) => b \in cut' \/ assets'[b].location \in files'[b]
  BY <1>1
<1> QED
  BY <1>1, <1>2, <1>3, <1>4, <1>5, <1>6, StepKeeps

(* What the request knows of its asset.                                    *)
LEMMA RowCallParts ==
  ASSUME MediaInv, NEW h \in Workers, calls[h].op \in RowOps
  PROVE  /\ calls[h] \in Call
         /\ calls[h].asset \in Assets /\ calls[h].new \in Row
         /\ calls[h].asset \in Calm => RowCallFits(calls[h], calls[h].asset)
         /\ calls[h].asset \in Calm /\ assets[calls[h].asset] # NoRow =>
              RowFine(assets[calls[h].asset])
BY MediaCallKinds DEF MediaInv, MediaTypeOK, CallFits, Rows, Exists

LEMMA TablesTyped ==
  MediaInv => assets \in [Assets -> Row \cup {NoRow}] /\ files \in [Assets -> SUBSET Roots]
BY DEF MediaInv, MediaTypeOK

(* The call goes on to save the row.                                       *)
LEMMA SaveFits ==
  ASSUME NEW a \in Assets, NEW row \in Row, NEW op \in {"save", "insert"},
         a \in Calm => /\ RowFine(row)
                       /\ a \in cut' \/ row.location \in files'[a]
                       /\ op = "insert" => assets'[a] = NoRow
  PROVE  CallFits([op |-> op, asset |-> a, new |-> row])'
<1> DEFINE call == [op |-> op, asset |-> a, new |-> row]
<1>1. call.op = op /\ call.asset = a /\ call.new = row
  OBVIOUS
<1> HIDE DEF call
<1>2. CallFits(call)'
  BY <1>1 DEF CallFits, RowCallFits, FileFits, Exists
<1> QED
  BY <1>2 DEF call

LEMMA IdleFits ==
  CallFits(Idle)'
BY IdleIsCall DEF CallFits, RowOps

LEMMA StoreKeeps ==
  ASSUME MediaInv, NEW h \in Workers, StoreFile(h)
  PROVE  MediaInv'
<1>1. calls[h].op = "store" /\ calls[h].op \in RowOps
  BY DEF StoreFile, In, RowOps
<1>2. PICK a \in Assets, row \in Row : a = calls[h].asset /\ row = calls[h].new
  BY <1>1, RowCallParts
<1>3. PICK call \in Call : call = [op |-> "save", asset |-> a, new |-> row] /\ InHand(call) = {a}
  BY RowCallIsCall
<1>4. Goto(h, call)
  BY <1>1, <1>2, <1>3, RowCallParts, NextOp DEF StoreFile
<1>5. /\ files' = [files EXCEPT ![a] = @ \cup {"staging"}]
      /\ UNCHANGED <<assets, known, dates, past, cut>>
  BY <1>2 DEF StoreFile
<1>6. /\ files' \in [Assets -> SUBSET Roots] /\ assets' \in [Assets -> Row \cup {NoRow}]
      /\ "staging" \in files'[a]
      /\ \A b \in Assets \ {a} : assets'[b] = assets[b] /\ files'[b] = files[b]
  BY <1>5, TablesTyped DEF Roots
<1>7. a \in Calm => RowFine(row) /\ row.location = "staging"
  BY <1>1, <1>2, RowCallParts DEF RowCallFits
<1>8. CallFits(call)'
  BY <1>3, <1>6, <1>7, SaveFits
<1>9. a \in Calm /\ assets'[a] # NoRow => RowFine(assets'[a])
  BY <1>1, <1>2, <1>5, RowCallParts
<1> QED
  BY <1>1, <1>2, <1>3, <1>4, <1>5, <1>6, <1>8, <1>9, RowStepKeeps

LEMMA PromoteKeeps ==
  ASSUME MediaInv, NEW h \in Workers, Promote(h)
  PROVE  MediaInv'
<1>1. calls[h].op = "promote" /\ calls[h].op \in RowOps
  BY DEF Promote, In, RowOps
<1>2. PICK a \in Assets, row \in Row : a = calls[h].asset /\ row = calls[h].new
  BY <1>1, RowCallParts
<1>3. UNCHANGED <<assets, known, dates, past, cut>>
  BY DEF Promote
<1>4. a \in Calm => /\ RowFine(row) /\ row.location = "gallery"
                    /\ assets[a] # NoRow => /\ RowFine(assets[a])
                                            /\ a \in cut \/ assets[a].location \in files[a]
  BY <1>1, <1>2, RowCallParts DEF RowCallFits, Exists, FileFits
<1>5. CASE "staging" \in files[a]
  <2>1. PICK left \in SUBSET {"staging"} : files' = [files EXCEPT ![a] = {"gallery"} \cup left]
    BY <1>2, <1>5 DEF Promote, Moved
  <2>2. /\ files' \in [Assets -> SUBSET Roots] /\ assets' \in [Assets -> Row \cup {NoRow}]
        /\ "gallery" \in files'[a]
        /\ \A b \in Assets \ {a} : assets'[b] = assets[b] /\ files'[b] = files[b]
    BY <1>3, <2>1, TablesTyped DEF Roots
  <2>3. PICK call \in Call :
          call = [op |-> "save", asset |-> a, new |-> row] /\ InHand(call) = {a}
    BY RowCallIsCall
  <2>4. Goto(h, call)
    BY <1>1, <1>2, <1>5, <2>3, RowCallParts, NextOp DEF Promote
  <2>5. CallFits(call)'
    BY <1>4, <2>2, <2>3, SaveFits
  <2>6. a \in Calm /\ assets'[a] # NoRow => RowFine(assets'[a])
    BY <1>3, <1>4
  <2> QED
    BY <1>1, <1>2, <1>3, <2>2, <2>3, <2>4, <2>5, <2>6, RowStepKeeps
<1>6. CASE "staging" \notin files[a]
  <2>1. Goto(h, Idle) /\ UNCHANGED files
    BY <1>2, <1>6 DEF Promote
  <2>2. a \in Calm /\ assets'[a] # NoRow =>
          RowFine(assets'[a]) /\ (a \in cut \/ assets'[a].location \in files'[a])
    BY <1>3, <1>4, <2>1
  <2>3. /\ files' \in [Assets -> SUBSET Roots] /\ assets' \in [Assets -> Row \cup {NoRow}]
        /\ \A b \in Assets \ {a} : assets'[b] = assets[b] /\ files'[b] = files[b]
    BY <1>3, <2>1, TablesTyped
  <2> QED
    BY <1>1, <1>2, <1>3, <2>1, <2>2, <2>3, IdleIsCall, IdleFits, RowStepKeeps
<1> QED
  BY <1>5, <1>6

LEMMA SelectKeeps ==
  ASSUME MediaInv, NEW h \in Workers, SelectRow(h)
  PROVE  MediaInv'
<1>1. calls[h].op = "save" /\ calls[h].op \in RowOps
  BY DEF SelectRow, In, RowOps
<1>2. PICK a \in Assets, row \in Row : a = calls[h].asset /\ row = calls[h].new
  BY <1>1, RowCallParts
<1>3. UNCHANGED <<assets, files, known, dates, past, cut>>
  BY DEF SelectRow
<1>4. a \in Calm => /\ RowFine(row)
                    /\ a \in cut \/ row.location \in files[a]
                    /\ assets[a] # NoRow => RowFine(assets[a])
  BY <1>1, <1>2, RowCallParts DEF RowCallFits, FileFits
<1>5. /\ files' \in [Assets -> SUBSET Roots] /\ assets' \in [Assets -> Row \cup {NoRow}]
      /\ \A b \in Assets \ {a} : assets'[b] = assets[b] /\ files'[b] = files[b]
  BY <1>3, TablesTyped
<1>6. a \in Calm /\ assets'[a] # NoRow => RowFine(assets'[a])
  BY <1>3, <1>4
<1>7. CASE Exists(a)
  <2>1. PICK seen \in Row : seen = assets[a]
    BY <1>7, RowsKnown
  <2>2. PICK call \in Call :
          /\ call = [op |-> "update", asset |-> a, new |-> row, seen |-> seen]
          /\ InHand(call) = {a}
    BY UpdateCallIsCall
  <2>3. Goto(h, call)
    BY <1>2, <1>7, <2>1, <2>2 DEF SelectRow
  <2>4. call.op = "update" /\ call.asset = a /\ call.new = row /\ call.seen = seen
    BY <2>2
  <2>5. CallFits(call)'
    BY <1>3, <1>4, <2>1, <2>4 DEF CallFits, RowCallFits, FileFits, Exists
  <2> QED
    BY <1>1, <1>2, <1>3, <1>5, <1>6, <2>2, <2>3, <2>5, RowStepKeeps
<1>8. CASE ~Exists(a)
  <2>1. PICK call \in Call :
          call = [op |-> "insert", asset |-> a, new |-> row] /\ InHand(call) = {a}
    BY RowCallIsCall
  <2>2. Goto(h, call)
    BY <1>1, <1>2, <1>8, <2>1, RowCallParts, NextOp DEF SelectRow
  <2>3. CallFits(call)'
    BY <1>3, <1>4, <1>8, <2>1, SaveFits DEF Exists
  <2> QED
    BY <1>1, <1>2, <1>3, <1>5, <1>6, <2>1, <2>2, <2>3, RowStepKeeps
<1> QED
  BY <1>7, <1>8

LEMMA InsertKeeps ==
  ASSUME MediaInv, NEW h \in Workers, InsertRow(h)
  PROVE  MediaInv'
<1>1. calls[h].op = "insert" /\ calls[h].op \in RowOps
  BY DEF InsertRow, In, RowOps
<1>2. PICK a \in Assets, row \in Row : a = calls[h].asset /\ row = calls[h].new
  BY <1>1, RowCallParts
<1>3. UNCHANGED <<files, known, dates, past, cut>> /\ Goto(h, Idle)
  BY DEF InsertRow
<1>4. a \in Calm => /\ RowFine(row)
                    /\ a \in cut \/ row.location \in files[a]
                    /\ ~Exists(a)
  BY <1>1, <1>2, RowCallParts DEF RowCallFits, FileFits
<1>5. assets' = IF Exists(a) THEN assets ELSE [assets EXCEPT ![a] = row]
  BY <1>2 DEF InsertRow
<1>6. /\ files' \in [Assets -> SUBSET Roots] /\ assets' \in [Assets -> Row \cup {NoRow}]
      /\ \A b \in Assets \ {a} : assets'[b] = assets[b] /\ files'[b] = files[b]
  BY <1>3, <1>5, TablesTyped
<1>7. a \in Calm /\ assets'[a] # NoRow =>
        RowFine(assets'[a]) /\ (a \in cut \/ assets'[a].location \in files'[a])
  BY <1>3, <1>4, <1>5, TablesTyped
<1> QED
  BY <1>1, <1>2, <1>3, <1>6, <1>7, IdleIsCall, IdleFits, RowStepKeeps

LEMMA UpdateKeeps ==
  ASSUME MediaInv, NEW h \in Workers, UpdateRow(h)
  PROVE  MediaInv'
<1>1. calls[h].op = "update" /\ calls[h].op \in RowOps
  BY DEF UpdateRow, In, RowOps
<1>2. PICK a \in Assets, row \in Row : a = calls[h].asset /\ row = calls[h].new
  BY <1>1, RowCallParts
<1>3. PICK seen \in Row : seen = calls[h].seen
  BY <1>1, RowCallParts, MediaCallKinds
<1>4. UNCHANGED <<files, known, dates, past, cut>> /\ Goto(h, Idle)
  BY DEF UpdateRow
<1>5. a \in Calm => /\ RowFine(row)
                    /\ a \in cut \/ row.location \in files[a]
                    /\ Exists(a) => seen = assets[a]
  BY <1>1, <1>2, <1>3, RowCallParts DEF RowCallFits, FileFits
<1>6. assets' = IF ~Exists(a) THEN assets
                ELSE [assets EXCEPT ![a] = Updated(assets[a], seen, row)]
  BY <1>2, <1>3 DEF UpdateRow
<1>7. Exists(a) => /\ Updated(assets[a], seen, row) \in Row
                   /\ seen = assets[a] => Updated(assets[a], seen, row) = row
  BY UpdatedRow, RowsKnown
<1>8. /\ files' \in [Assets -> SUBSET Roots] /\ assets' \in [Assets -> Row \cup {NoRow}]
      /\ \A b \in Assets \ {a} : assets'[b] = assets[b] /\ files'[b] = files[b]
  BY <1>4, <1>6, <1>7, TablesTyped
<1>9. a \in Calm /\ assets'[a] # NoRow =>
        RowFine(assets'[a]) /\ (a \in cut \/ assets'[a].location \in files'[a])
  BY <1>4, <1>5, <1>6, <1>7, TablesTyped DEF Exists
<1> QED
  BY <1>1, <1>2, <1>4, <1>8, <1>9, IdleIsCall, IdleFits, RowStepKeeps

(* Removals and the cleanup: the file first, then the row.                 *)
LEMMA DeleteKeeps ==
  ASSUME MediaInv, NEW h \in Workers, DeleteFile(h)
  PROVE  MediaInv'
<1>1. calls[h] \in Call /\ calls[h].op = "delete"
  BY DEF DeleteFile, In, MediaInv, MediaTypeOK
<1>2. PICK todo \in SUBSET Doomed :
        todo = calls[h].todo /\ InHand(calls[h]) = {t.asset : t \in todo}
  BY <1>1, MediaCallKinds
<1>3. PICK t \in todo :
        /\ files' = [files EXCEPT ![t.asset] = @ \ {t.location}]
        /\ Goto(h, [op |-> "drop", asset |-> t.asset, todo |-> todo \ {t}])
  BY <1>2 DEF DeleteFile
<1>4. UNCHANGED <<assets, known, dates, past, cut>>
  BY DEF DeleteFile
<1>5. PICK a \in Assets : a = t.asset
  BY <1>3 DEF Doomed
<1>6. PICK call \in Call :
        /\ call = [op |-> "drop", asset |-> a, todo |-> todo \ {t}]
        /\ InHand(call) = {a} \cup {x.asset : x \in todo \ {t}}
  BY <1>3, DropCallIsCall
<1>7. InHand(call) = InHand(calls[h]) /\ call.op = "drop" /\ a \in InHand(call)
  <2>1. call.op = "drop"
    BY <1>6
  <2> QED
    BY <1>2, <1>3, <1>5, <1>6, <2>1
<1>8. /\ files' \in [Assets -> SUBSET Roots]
      /\ \A b \in Assets \ {a} : files'[b] = files[b]
  BY <1>3, <1>5, TablesTyped
<1>9. Goto(h, call)
  BY <1>3, <1>5, <1>6
<1>10. MediaTypeOK'
  <2>1. Rows' = Rows
    BY <1>4 DEF Rows, Exists
  <2> QED
    BY <1>4, <1>8, <1>9, <2>1, CallTyped DEF MediaInv, MediaTypeOK
<1>11. CallFits(call)'
  <2>1. \A b \in InHand(call) \cap Calm : Exists(b) => ~assets[b].used
    BY <1>1, <1>7 DEF MediaInv, CallFits
  <2> QED
    BY <1>4, <1>7, <2>1 DEF CallFits, RowOps, Exists, InHand
<1>12. \A b \in Calm \ InHand(calls[h]) : assets'[b] = assets[b] /\ files'[b] = files[b]
  BY <1>4, <1>7, <1>8, MediaAssumption
<1>13. \A b \in InHand(calls[h]) \cap Calm : assets'[b] # NoRow => RowFine(assets'[b])
  BY <1>4, MediaAssumption DEF MediaInv, Rows, Exists
<1>14. InHand(call) \subseteq known'
  BY <1>4, <1>7 DEF MediaInv
<1> QED
  BY <1>4, <1>7, <1>9, <1>10, <1>11, <1>12, <1>13, <1>14, StepKeeps

LEMMA DropKeeps ==
  ASSUME MediaInv, NEW h \in Workers, DropRow(h)
  PROVE  MediaInv'
<1>1. calls[h] \in Call /\ calls[h].op = "drop"
  BY DEF DropRow, In, MediaInv, MediaTypeOK
<1>2. PICK a \in Assets, todo \in SUBSET Doomed :
        /\ a = calls[h].asset
        /\ todo = calls[h].todo
        /\ InHand(calls[h]) = {a} \cup {t.asset : t \in todo}
  BY <1>1, MediaCallKinds
<1>3. UNCHANGED <<files, known, dates, past, cut>> /\ assets' = [assets EXCEPT ![a] = NoRow]
      /\ Goto(h, IF todo = {} THEN Idle ELSE [op |-> "delete", todo |-> todo])
  BY <1>2 DEF DropRow, WithoutRow
<1>4. PICK call \in Call :
        /\ call = IF todo = {} THEN Idle ELSE [op |-> "delete", todo |-> todo]
        /\ InHand(call) = {t.asset : t \in todo}
        /\ call.op \in {"idle", "delete"}
  BY DeleteCallIsCall, IdleIsCall
<1>5. Goto(h, call)
  BY <1>3, <1>4
<1>6. \A b \in Assets : assets'[b] = IF b = a THEN NoRow ELSE assets[b]
  BY <1>3, TablesTyped
<1>7. MediaTypeOK'
  <2>1. Rows' \subseteq Rows /\ \A b \in Rows' : assets'[b] = assets[b]
    BY <1>6 DEF Rows, Exists
  <2>2. assets' \in [Assets -> Row \cup {NoRow}]
    BY <1>3, TablesTyped
  <2>3. \A b \in Rows' \cap Calm : assets'[b].status = "approved" <=> assets'[b].expires = 0
    BY <2>1 DEF MediaInv, MediaTypeOK
  <2>4. Rows' \subseteq known'
    BY <1>3, <2>1 DEF MediaInv, MediaTypeOK
  <2> QED
    BY <1>3, <1>5, <2>2, <2>3, <2>4, CallTyped DEF MediaInv, MediaTypeOK
<1>8. CallFits(call)'
  <2>1. \A b \in InHand(call) \cap Calm : assets[b] # NoRow => ~assets[b].used
    BY <1>1, <1>2, <1>4 DEF MediaInv, CallFits, Exists
  <2>2. \A b \in InHand(call) \cap Calm : assets'[b] # NoRow => ~assets'[b].used
    BY <1>6, <2>1, MediaAssumption
  <2> QED
    BY <1>4, <2>2 DEF CallFits, RowOps, Exists, InHand
<1>9. \A b \in Calm \ InHand(calls[h]) : assets'[b] = assets[b] /\ files'[b] = files[b]
  BY <1>2, <1>3, <1>6, MediaAssumption
<1>10. \A b \in InHand(calls[h]) \cap Calm :
         assets'[b] # NoRow => RowFine(assets'[b]) /\ b \in InHand(call)
  BY <1>2, <1>4, <1>6, MediaAssumption DEF MediaInv, Rows, Exists
<1>11. InHand(call) \subseteq known' /\ InHand(call) \subseteq InHand(calls[h])
  BY <1>2, <1>3, <1>4 DEF MediaInv
<1> QED
  BY <1>3, <1>4, <1>5, <1>7, <1>8, <1>9, <1>10, <1>11, StepKeeps

LEMMA AbortKeeps ==
  ASSUME MediaInv, NEW h \in Workers, Abort(h)
  PROVE  MediaInv'
<1>1. Goto(h, Idle) /\ cut' = cut \cup InHand(calls[h])
      /\ UNCHANGED <<assets, files, known, dates, past>>
  BY DEF Abort
<1>2. calls[h] \in Call /\ InHand(calls[h]) \subseteq Assets
  BY InHandAreAssets DEF MediaInv, MediaTypeOK
<1>3. MediaTypeOK'
  <2>1. Rows' = Rows /\ cut' \subseteq Assets
    BY <1>1, <1>2 DEF Rows, Exists, MediaInv, MediaTypeOK
  <2> QED
    BY <1>1, <2>1, IdleIsCall, CallTyped DEF MediaInv, MediaTypeOK
<1>4. \A a \in InHand(calls[h]) \cap Calm : assets'[a] # NoRow => RowFine(assets'[a]) /\ a \in cut'
  BY <1>1, MediaAssumption DEF MediaInv, Rows, Exists
<1> QED
  BY <1>1, <1>3, <1>4, IdleIsCall, IdleFits, StepKeeps

LEMMA TimeKeeps ==
  ASSUME MediaInv, UNCHANGED <<assets, files, known, dates, calls, cut>>,
         past' \subseteq 1..dates
  PROVE  MediaInv'
<1>1. Rows' = Rows
  BY DEF Rows, Exists
<1>2. MediaTypeOK'
  BY <1>1 DEF MediaInv, MediaTypeOK
<1>3. \A w \in Workers : CallFits(calls[w])'
  BY DEF MediaInv, CallFits, RowCallFits, FileFits, Exists, InHand
<1>4. OneAtATime' /\ \A a : InWork(a)' <=> InWork(a)
  BY DEF MediaInv, OneAtATime, InWork, InHand
<1> QED
  BY <1>1, <1>2, <1>3, <1>4 DEF MediaInv, FileFits, InHand

LEMMA MediaStart ==
  MediaInit => MediaInv
<1> SUFFICES ASSUME MediaInit PROVE MediaInv
  OBVIOUS
<1>1. \A w \in Workers : calls[w] = Idle /\ InHand(calls[w]) = {}
  BY IdleIsCall DEF MediaInit
<1>2. Rows = {}
  BY DEF MediaInit, Rows, Exists
<1>3. MediaTypeOK
  BY <1>2, MediaAssumption, IdleIsCall DEF MediaInit, MediaTypeOK
<1>4. \A w \in Workers : CallFits(calls[w])
  BY <1>1, IdleIsCall DEF CallFits, RowOps
<1>5. calls[Cron].op = "idle"
  BY <1>1, IdleIsCall DEF Workers
<1> QED
  BY <1>1, <1>2, <1>3, <1>4, <1>5 DEF MediaInv, OneAtATime

LEMMA MediaStep ==
  MediaInv /\ [MediaNext]_mediaVars => MediaInv'
<1> SUFFICES ASSUME MediaInv, [MediaNext]_mediaVars PROVE MediaInv'
  OBVIOUS
<1>1. CASE \E h \in Handlers, a \in Assets : Request(h, a)
  BY <1>1, RequestKeeps
<1>2. CASE FindExpired
  BY <1>2, FindKeeps
<1>3. CASE \E h \in Workers : WorkerStep(h)
  BY <1>3, StoreKeeps, PromoteKeeps, SelectKeeps, InsertKeeps, UpdateKeeps, DeleteKeeps,
     DropKeeps
  DEF WorkerStep
<1>4. CASE \E h \in Workers : Abort(h)
  BY <1>4, AbortKeeps
<1>5. CASE \E d \in 1..dates : TimePasses(d)
  <2>1. UNCHANGED <<assets, files, known, dates, calls, cut>> /\ past' \subseteq 1..dates
    BY <1>5 DEF TimePasses, MediaInv, MediaTypeOK
  <2> QED
    BY <2>1, TimeKeeps
<1>6. CASE UNCHANGED mediaVars
  <2>1. UNCHANGED <<assets, files, known, dates, calls, cut>> /\ past' \subseteq 1..dates
    BY <1>6 DEF mediaVars, MediaInv, MediaTypeOK
  <2> QED
    BY <2>1, TimeKeeps
<1> QED
  BY <1>1, <1>2, <1>3, <1>4, <1>5, <1>6 DEF MediaNext

-----------------------------------------------------------------------------
(* The invariant of rows, files and requests, whatever is cut short        *)
(* between a file and its row.                                             *)
THEOREM MediaInvariant ==
  MediaSpec => []MediaInv
BY MediaStart, MediaStep, PTL DEF MediaSpec

(* Tables, files and requests keep their types; null is the expiry date of *)
(* exactly the approved rows.                                              *)
THEOREM MediaTypes ==
  MediaSpec => []MediaTypeOK
<1>1. MediaInv => MediaTypeOK
  BY DEF MediaInv
<1> QED
  BY <1>1, MediaInvariant, PTL

(* The public URL of an asset works when no request is at it: review moves *)
(* the file before it saves the row, remove deletes it before the row.     *)
THEOREM FilesAreThere ==
  MediaSpec => []FileWhereRowSays
<1>1. MediaInv => FileWhereRowSays
  BY DEF MediaInv, FileWhereRowSays, FileFits
<1> QED
  BY <1>1, MediaInvariant, PTL

(* What attach gave to a product is approved and in the gallery: reject    *)
(* refuses what is in use, and attach what is not approved.                *)
THEOREM UsedAreApproved ==
  MediaSpec => []UsedIsApproved
<1>1. MediaInv => UsedIsApproved
  BY DEF MediaInv, UsedIsApproved, RowFine
<1> QED
  BY <1>1, MediaInvariant, PTL

(* Neither remove nor cleanupExpired deletes the row or the file of what a *)
(* product uses, and no review moves it away.                              *)
THEOREM UsedAreKept ==
  MediaSpec => UsedIsKept
<1>1. ASSUME MediaInv, [MediaNext]_mediaVars, NEW a \in Rows \cap Calm, assets[a].used
      PROVE  /\ assets'[a] # NoRow
             /\ assets[a].location \in files[a] => assets[a].location \in files'[a]
  <2>1. a \in Assets /\ assets[a] # NoRow /\ assets[a].location = "gallery"
    BY <1>1 DEF Rows, Exists, MediaInv, RowFine
  <2>2. CASE UNCHANGED <<assets, files>>
    BY <2>1, <2>2
  <2>3. CASE \E h \in Workers : StoreFile(h) \/ Promote(h)
    BY <1>1, <2>1, <2>3, TablesTyped DEF StoreFile, Promote, Moved
  <2>4. CASE \E h \in Workers : InsertRow(h)
    <3>1. PICK h \in Workers : InsertRow(h)
      BY <2>4
    <3>2. calls[h].new \in Row
      BY <1>1, <3>1, RowCallParts DEF InsertRow, In, RowOps
    <3> QED
      BY <1>1, <2>1, <3>1, <3>2, TablesTyped, MediaAssumption DEF InsertRow
  <2>5. CASE \E h \in Workers : UpdateRow(h)
    <3>1. PICK h \in Workers : UpdateRow(h)
      BY <2>5
    <3>2. /\ calls[h].new \in Row /\ calls[h].seen \in Row /\ calls[h].asset \in Assets
      BY <1>1, <3>1, RowCallParts, MediaCallKinds DEF UpdateRow, In, RowOps
    <3>3. Exists(calls[h].asset) =>
            Updated(assets[calls[h].asset], calls[h].seen, calls[h].new) \in Row
      BY <1>1, <3>2, UpdatedRow, RowsKnown
    <3> QED
      BY <1>1, <2>1, <3>1, <3>3, TablesTyped, MediaAssumption DEF UpdateRow
  <2>6. CASE \E h \in Workers : DeleteFile(h) \/ DropRow(h)
    <3>1. PICK h \in Workers : DeleteFile(h) \/ DropRow(h)
      BY <2>6
    <3>2. calls[h] \in Call /\ calls[h].op \in {"delete", "drop"}
      BY <1>1, <3>1 DEF DeleteFile, DropRow, In, MediaInv, MediaTypeOK
    <3>3. a \notin InHand(calls[h])
      BY <1>1, <2>1, <3>2 DEF MediaInv, CallFits, Exists
    <3>4. CASE DeleteFile(h)
      BY <1>1, <2>1, <3>2, <3>3, <3>4, TablesTyped, MediaCallKinds DEF DeleteFile, In
    <3>5. CASE DropRow(h)
      BY <1>1, <2>1, <3>2, <3>3, <3>5, TablesTyped, MediaCallKinds DEF DropRow, In, WithoutRow
    <3> QED
      BY <3>1, <3>4, <3>5
  <2>7. ASSUME MediaNext
        PROVE  \/ UNCHANGED <<assets, files>>
               \/ \E h \in Workers : \/ StoreFile(h) \/ Promote(h) \/ InsertRow(h)
                                     \/ UpdateRow(h) \/ DeleteFile(h) \/ DropRow(h)
    BY <2>7 DEF MediaNext, Request, BeginUpload, Approve, Reject, Attach, Detach, Remove,
       FindExpired, WorkerStep, SelectRow, Abort, TimePasses
  <2>8. CASE UNCHANGED mediaVars
    BY <2>1, <2>8 DEF mediaVars
  <2> QED
    BY <1>1, <2>2, <2>3, <2>4, <2>5, <2>6, <2>7, <2>8
<1>2. MediaInv /\ [MediaNext]_mediaVars =>
        [\A a \in Rows \cap Calm :
           assets[a].used =>
             /\ assets'[a] # NoRow
             /\ assets[a].location \in files[a] => assets[a].location \in files'[a]]_mediaVars
  BY <1>1
<1> QED
  BY <1>2, MediaInvariant, PTL DEF MediaSpec, UsedIsKept
=============================================================================

------------------------- MODULE ResultCatalogProofs -------------------------
(***************************************************************************)
(* Proofs about ResultCatalog, for any barcodes, clients, remarks and      *)
(* orders and any number of pages and edits: what a row says is never      *)
(* ahead of the stores, and what disturbs the agreement of the stores.     *)
(***************************************************************************)
EXTENDS ResultCatalog, TLAPS

USE CatalogAssumption

Operations == {"none", "publish", "delete", "slot", "archive", "unarchive", "remark", "close", "cleanup"}
Places == {"idle", "read", "write"} \cup OnObject

ClientRecord ==
  [op : Operations, at : Places, todo : SUBSET Barcodes, page : Nat,
   read : [Barcodes -> NotesType], fresh : SUBSET Barcodes, alone : BOOLEAN]

RowRecord == [sha : Nat, remark : Remarks, archived : BOOLEAN, closed : SUBSET Orders]

-----------------------------------------------------------------------------
(* The inductive invariant.                                                *)

Typed ==
  /\ pages \in 0 .. MaxPages
  /\ edits \in 0 .. MaxEdits
  /\ uploaded \subseteq 1 .. pages
  /\ object \in [Barcodes -> 0 .. pages]
  /\ record \in [Barcodes -> [sha : 0 .. pages, deleted : BOOLEAN]]
  /\ row \in [Barcodes -> RowRecord]
  /\ settled \in [Barcodes -> BOOLEAN]
  /\ client \in [Clients -> ClientRecord]

\* The operations that read notes in a step of their own.
NoteReaders == {"slot", "archive", "unarchive", "cleanup"}

\* A client at an object is at that of one barcode, and a publication has a
\* page in hand, which R2 has once the upload is done.
Sound(c) ==
  /\ client[c].at \in OnObject => \E b \in Barcodes : client[c].todo = {b}
  /\ client[c].at \in {"upload", "record", "point"} =>
       client[c].page \in 1 .. pages /\ client[c].op = "publish"
  /\ client[c].at \in {"record", "point"} => client[c].page \in uploaded
  /\ client[c].at = "read" => client[c].op \in NoteReaders

\* A copy that is fresh agrees with the row, but for what the operation is
\* about.
Copied(v, b) ==
  b \in v.fresh =>
    /\ v.op # "remark" => v.read[b].remark = row[b].remark
    /\ v.op \notin {"archive", "unarchive"} => v.read[b].archived = row[b].archived
    /\ row[b].closed \subseteq v.read[b].closed

\* An undisturbed client is the only one at its object, and has done what its
\* place says.
Undisturbed(c, b) ==
  Working(c, b) /\ client[c].alone =>
    /\ \A d \in Clients \ {c} : ~Working(d, b)
    /\ client[c].at \in {"record", "point"} => object[b] = client[c].page
    /\ client[c].at = "point" => record[b] = [sha |-> client[c].page, deleted |-> FALSE]
    /\ client[c].at \in {"unrecord", "unpoint"} => object[b] = 0
    /\ client[c].at = "unpoint" /\ record[b].sha # 0 => record[b].deleted

Quiet(b) == settled[b] => \A c \in Clients : ~Working(c, b)

\* What SettledStoresAgree says of one barcode.
Agree(b) ==
  settled[b] =>
    IF Exists(b)
    THEN object[b] = row[b].sha /\ record[b] = [sha |-> row[b].sha, deleted |-> FALSE]
    ELSE object[b] = 0 /\ (record[b].sha # 0 => record[b].deleted)

Base == Typed /\ (\A c \in Clients : Sound(c)) /\ RowAfterUpload
Copies == \A c \in Clients, b \in Barcodes : Copied(client[c], b)
Stores(b) == Quiet(b) /\ (\A c \in Clients : Undisturbed(c, b)) /\ Agree(b)

IInv == Base /\ Copies /\ \A b \in Barcodes : Stores(b)

-----------------------------------------------------------------------------
(* What a step does to the clients.                                        *)

LEMMA IdleTyped == Idle \in ClientRecord /\ Blank \in NotesType /\ NoRow \in RowRecord
  BY DEF Idle, ClientRecord, Blank, NotesType, Operations, Places, NoRow, RowRecord

LEMMA RowsTyped == ASSUME Typed, NEW b \in Barcodes PROVE row[b] \in RowRecord /\ Notes(b) \in NotesType
  BY DEF Typed, RowRecord, Notes, NotesType

\* A client whose step it is not: its copy may become stale, and it may cease
\* to be alone.
Beside(d) ==
  /\ client'[d].op = client[d].op /\ client'[d].at = client[d].at
  /\ client'[d].todo = client[d].todo /\ client'[d].page = client[d].page
  /\ client'[d].read = client[d].read
  /\ client'[d].fresh \subseteq client[d].fresh
  /\ client'[d].alone => client[d].alone

\* Client c goes on with next, and no other is disturbed.
GoesOn(c, next) == next \in ClientRecord /\ client' = [client EXCEPT ![c] = next]

LEMMA GoesOnEffect ==
  ASSUME Typed, NEW c \in Clients, NEW next, GoesOn(c, next)
  PROVE  /\ client' \in [Clients -> ClientRecord] /\ client'[c] = next
         /\ \A d \in Clients \ {c} : client'[d] = client[d] /\ Beside(d)
  BY DEF Typed, GoesOn, Beside

LEMMA EnterEffect ==
  ASSUME Typed, NEW c \in Clients, NEW b \in Barcodes, NEW next \in ClientRecord, Enter(c, b, next)
  PROVE  /\ client' \in [Clients -> ClientRecord]
         /\ client'[c] = [next EXCEPT !.alone = \A d \in Clients \ {c} : ~Working(d, b)]
         /\ \A d \in Clients \ {c} : Beside(d) /\ (Working(d, b) => ~client'[d].alone)
<1> DEFINE others == {d \in Clients \ {c} : Working(d, b)}
<1>1. client' = [d \in Clients |->
       IF d = c THEN [next EXCEPT !.alone = others = {}]
       ELSE IF d \in others THEN [client[d] EXCEPT !.alone = FALSE]
       ELSE client[d]]
  BY DEF Enter
<1>2. others = {} <=> \A d \in Clients \ {c} : ~Working(d, b)
  OBVIOUS
<1>3. [next EXCEPT !.alone = others = {}] = [next EXCEPT !.alone = \A d \in Clients \ {c} : ~Working(d, b)]
  BY <1>2
<1>4. client'[c] = [next EXCEPT !.alone = \A d \in Clients \ {c} : ~Working(d, b)]
  BY <1>1, <1>3
<1>5. ASSUME NEW v \in ClientRecord, NEW a \in BOOLEAN
      PROVE  /\ [v EXCEPT !.alone = a] \in ClientRecord
             /\ [v EXCEPT !.alone = a].op = v.op /\ [v EXCEPT !.alone = a].at = v.at
             /\ [v EXCEPT !.alone = a].todo = v.todo /\ [v EXCEPT !.alone = a].page = v.page
             /\ [v EXCEPT !.alone = a].read = v.read /\ [v EXCEPT !.alone = a].fresh = v.fresh
             /\ [v EXCEPT !.alone = a].alone = a
  BY DEF ClientRecord
<1>6. client'[c] \in ClientRecord
  BY <1>4, <1>5
<1>7. ASSUME NEW d \in Clients \ {c}
      PROVE  client'[d] \in ClientRecord /\ Beside(d) /\ (Working(d, b) => ~client'[d].alone)
  <2>1. client[d] \in ClientRecord
    BY DEF Typed
  <2>2. CASE Working(d, b)
    BY <1>1, <1>5, <2>1, <2>2 DEF Beside
  <2>3. CASE ~Working(d, b)
    BY <1>1, <2>1, <2>3 DEF Beside
  <2> QED
    BY <2>2, <2>3
<1> QED
  BY <1>1, <1>4, <1>6, <1>7

\* Row b is written by a client that goes on with next.
Overtakes(c, b, next) == next \in ClientRecord /\ client' = Outdate([client EXCEPT ![c] = next], b)

LEMMA OvertakesEffect ==
  ASSUME Typed, NEW c \in Clients, NEW b \in Barcodes, NEW next, Overtakes(c, b, next)
  PROVE  /\ client' \in [Clients -> ClientRecord]
         /\ client'[c] = [next EXCEPT !.fresh = @ \ {b}]
         /\ \A d \in Clients \ {c} : Beside(d)
         /\ \A d \in Clients : b \notin client'[d].fresh
<1>1. client' = [d \in Clients |-> [[client EXCEPT ![c] = next][d] EXCEPT !.fresh = @ \ {b}]]
  BY DEF Overtakes, Outdate
<1>2. ASSUME NEW v \in ClientRecord
      PROVE  /\ [v EXCEPT !.fresh = @ \ {b}] \in ClientRecord
             /\ [v EXCEPT !.fresh = @ \ {b}].fresh = v.fresh \ {b}
             /\ [v EXCEPT !.fresh = @ \ {b}].op = v.op /\ [v EXCEPT !.fresh = @ \ {b}].at = v.at
             /\ [v EXCEPT !.fresh = @ \ {b}].todo = v.todo /\ [v EXCEPT !.fresh = @ \ {b}].page = v.page
             /\ [v EXCEPT !.fresh = @ \ {b}].read = v.read /\ [v EXCEPT !.fresh = @ \ {b}].alone = v.alone
  BY DEF ClientRecord
<1>3. client'[c] = [next EXCEPT !.fresh = @ \ {b}]
  BY <1>1 DEF Typed
<1>4. client'[c] \in ClientRecord /\ client'[c].fresh = next.fresh \ {b}
  BY <1>2, <1>3 DEF Overtakes
<1>5. ASSUME NEW d \in Clients \ {c}
      PROVE  client'[d] \in ClientRecord /\ Beside(d) /\ b \notin client'[d].fresh
  <2>1. client'[d] = [client[d] EXCEPT !.fresh = @ \ {b}] /\ client[d] \in ClientRecord
    BY <1>1 DEF Typed
  <2> QED
    BY <1>2, <2>1 DEF Beside
<1> QED
  BY <1>1, <1>3, <1>4, <1>5

-----------------------------------------------------------------------------
(* Types, and the pages R2 has.                                            *)

LEMMA StepEffect ==
  ASSUME Typed, NEW c \in Clients, NEW at \in Places, Step(c, at)
  PROVE  GoesOn(c, [client[c] EXCEPT !.at = at]) /\ client'[c] = [client[c] EXCEPT !.at = at]
<1>1. client[c] \in ClientRecord
  BY DEF Typed
<1>2. [client[c] EXCEPT !.at = at] \in ClientRecord
  BY <1>1 DEF ClientRecord
<1> QED
  BY <1>2 DEF Step, GoesOn, Typed

LEMMA BesideSound ==
  ASSUME Typed, NEW d \in Clients, Beside(d), Sound(d), uploaded \subseteq uploaded',
         pages' \in Nat, pages <= pages'
  PROVE  Sound(d)'
<1>1. ASSUME NEW n \in 1 .. pages PROVE n \in 1 .. pages'
  BY DEF Typed
<1> QED
  BY <1>1 DEF Beside, Sound

\* Where a client that starts afresh stands.
LEMMA StartTyped ==
  ASSUME NEW op \in Operations, NEW at \in Places, NEW todo \in SUBSET Barcodes
  PROVE  [Idle EXCEPT !.op = op, !.at = at, !.todo = todo] \in ClientRecord
  BY IdleTyped DEF ClientRecord

LEMMA StartPageTyped ==
  ASSUME NEW op \in Operations, NEW at \in Places, NEW todo \in SUBSET Barcodes, NEW page \in Nat,
         NEW read \in [Barcodes -> NotesType], NEW fresh \in SUBSET Barcodes
  PROVE  [Idle EXCEPT !.op = op, !.at = at, !.todo = todo, !.page = page,
                      !.read = read, !.fresh = fresh] \in ClientRecord
  BY IdleTyped DEF ClientRecord

LEMMA StartNotesTyped ==
  ASSUME NEW op \in Operations, NEW at \in Places, NEW todo \in SUBSET Barcodes,
         NEW fresh \in SUBSET Barcodes, NEW read \in [Barcodes -> NotesType]
  PROVE  [Idle EXCEPT !.op = op, !.at = at, !.todo = todo, !.fresh = fresh, !.read = read] \in ClientRecord
  BY IdleTyped DEF ClientRecord

LEMMA PublishMoves ==
  ASSUME Base, NEW c \in Clients, NEW b \in Barcodes, ReadForPublication(c, b)
  PROVE  /\ pages \in Nat /\ pages' = pages + 1 /\ pages' \in 0 .. MaxPages
         /\ \E next \in ClientRecord :
              /\ Enter(c, b, next)
              /\ next.op = "publish" /\ next.at = "upload" /\ next.todo = {b} /\ next.page = pages'
              /\ next.fresh = {b} /\ next.read[b] = Notes(b)
<1> DEFINE next == [Idle EXCEPT !.op = "publish", !.at = "upload", !.todo = {b}, !.page = pages + 1,
                              !.read[b] = Notes(b), !.fresh = {b}]
<1>1. pages \in Nat /\ pages' = pages + 1 /\ pages' \in 0 .. MaxPages
  BY DEF ReadForPublication, Base, Typed
<1>2. next \in ClientRecord
  <2> DEFINE read == [Idle.read EXCEPT ![b] = Notes(b)]
  <2>1. read \in [Barcodes -> NotesType]
    BY IdleTyped, RowsTyped DEF Base, ClientRecord
  <2>2. next = [Idle EXCEPT !.op = "publish", !.at = "upload", !.todo = {b}, !.page = pages + 1,
                            !.read = read, !.fresh = {b}]
    OBVIOUS
  <2>3. pages + 1 \in Nat /\ "publish" \in Operations /\ "upload" \in Places /\ {b} \in SUBSET Barcodes
    BY <1>1 DEF Operations, Places, OnObject
  <2> HIDE DEF next, read
  <2> QED
    BY <2>1, <2>2, <2>3, StartPageTyped
<1>3. /\ next.op = "publish" /\ next.at = "upload" /\ next.todo = {b} /\ next.page = pages'
      /\ next.fresh = {b} /\ next.read[b] = Notes(b)
  BY <1>1 DEF Idle
<1> HIDE DEF next
<1>4. Enter(c, b, next)
  BY DEF ReadForPublication, next
<1> QED
  BY <1>1, <1>2, <1>3, <1>4

LEMMA PublishBase ==
  ASSUME Base, NEW c \in Clients, NEW b \in Barcodes, ReadForPublication(c, b)
  PROVE  Base'
<1>1. pages \in Nat /\ pages' = pages + 1 /\ pages' \in 0 .. MaxPages
  BY PublishMoves
<1>2. PICK next \in ClientRecord :
        /\ Enter(c, b, next)
        /\ next.op = "publish" /\ next.at = "upload" /\ next.todo = {b} /\ next.page = pages'
  BY PublishMoves
<1>5. /\ client' \in [Clients -> ClientRecord]
      /\ client'[c] = [next EXCEPT !.alone = \A d \in Clients \ {c} : ~Working(d, b)]
      /\ \A d \in Clients \ {c} : Beside(d)
  BY <1>2, EnterEffect DEF Base
<1>6. client'[c].op = next.op /\ client'[c].at = next.at /\ client'[c].todo = next.todo /\ client'[c].page = next.page
  BY <1>2, <1>5 DEF ClientRecord
<1>7. Sound(c)'
  BY <1>1, <1>2, <1>6 DEF Sound
<1>8. \A d \in Clients \ {c} : Sound(d)'
  BY <1>1, <1>5, BesideSound DEF Base, ReadForPublication
<1>9. settled' \in [Barcodes -> BOOLEAN]
  BY <1>2 DEF Enter, Base, Typed
<1>10. Typed'
  BY <1>1, <1>5, <1>9 DEF ReadForPublication, Base, Typed
<1>11. RowAfterUpload'
  BY DEF ReadForPublication, Base, RowAfterUpload, Exists
<1> QED
  BY <1>7, <1>8, <1>10, <1>11 DEF Base

LEMMA DeletionMoves ==
  ASSUME NEW c \in Clients, NEW b \in Barcodes, BeginDelete(c, b)
  PROVE  \E next \in ClientRecord :
           /\ Enter(c, b, next)
           /\ next.op = "delete" /\ next.at = "erase" /\ next.todo = {b} /\ next.fresh = {}
<1> DEFINE next == [Idle EXCEPT !.op = "delete", !.at = "erase", !.todo = {b}]
<1>1. next \in ClientRecord
  BY StartTyped DEF Operations, Places, OnObject
<1>2. next.op = "delete" /\ next.at = "erase" /\ next.todo = {b} /\ next.fresh = {}
  BY DEF Idle
<1> QED
  BY <1>1, <1>2 DEF BeginDelete

LEMMA DeletionBase ==
  ASSUME Base, NEW c \in Clients, NEW b \in Barcodes, BeginDelete(c, b)
  PROVE  Base'
<1>1. PICK next \in ClientRecord :
        /\ Enter(c, b, next)
        /\ next.op = "delete" /\ next.at = "erase" /\ next.todo = {b}
  BY DeletionMoves
<1>4. /\ client' \in [Clients -> ClientRecord]
      /\ client'[c] = [next EXCEPT !.alone = \A d \in Clients \ {c} : ~Working(d, b)]
      /\ \A d \in Clients \ {c} : Beside(d)
  BY <1>1, EnterEffect DEF Base
<1>5. client'[c].at = next.at /\ client'[c].todo = next.todo
  BY <1>1, <1>4 DEF ClientRecord
<1>6. Sound(c)'
  BY <1>1, <1>5 DEF Sound
<1>7. \A d \in Clients \ {c} : Sound(d)'
  BY <1>4, BesideSound DEF Base, Typed, BeginDelete
<1>8. settled' \in [Barcodes -> BOOLEAN]
  BY <1>1 DEF Enter, Base, Typed
<1>9. Typed'
  BY <1>4, <1>8 DEF BeginDelete, Base, Typed
<1>10. RowAfterUpload'
  BY DEF BeginDelete, Base, RowAfterUpload, Exists
<1> QED
  BY <1>6, <1>7, <1>9, <1>10 DEF Base

\* A client goes on, and neither rows nor pages nor uploads change.
LEMMA GoesOnBase ==
  ASSUME Base, NEW c \in Clients, NEW next, GoesOn(c, next), next.at \notin OnObject,
         next.at = "read" => next.op \in NoteReaders, edits' \in 0 .. MaxEdits, UNCHANGED <<object, record, row, pages, uploaded, settled>>
  PROVE  Base'
<1>1. /\ client' \in [Clients -> ClientRecord] /\ client'[c] = next
      /\ \A d \in Clients \ {c} : Beside(d)
  BY GoesOnEffect DEF Base
<1>2. Sound(c)'
  BY <1>1 DEF Sound, OnObject
<1>3. \A d \in Clients \ {c} : Sound(d)'
  BY <1>1, BesideSound DEF Base, Typed
<1>4. Typed' /\ RowAfterUpload'
  BY <1>1 DEF Base, Typed, RowAfterUpload, Exists
<1> QED
  BY <1>2, <1>3, <1>4 DEF Base

\* The steps of a publication or a deletion before the row is written.
LEMMA ObjectMoves ==
  ASSUME Base, NEW c \in Clients, NEW b \in Barcodes,
         Upload(c, b) \/ RecordObject(c, b) \/ EraseObject(c, b) \/ UnrecordObject(c, b)
  PROVE  /\ client' \in [Clients -> ClientRecord]
         /\ client'[c].op = client[c].op /\ client'[c].todo = client[c].todo
         /\ client'[c].page = client[c].page /\ client'[c].read = client[c].read
         /\ client'[c].fresh = client[c].fresh /\ client'[c].alone = client[c].alone
         /\ \A d \in Clients \ {c} : Beside(d)
         /\ client[c].at \in OnObject
         /\ \/ Upload(c, b) /\ client'[c].at = "record"
            \/ RecordObject(c, b) /\ client'[c].at = "point"
            \/ EraseObject(c, b) /\ client'[c].at = "unrecord"
            \/ UnrecordObject(c, b) /\ client'[c].at = "unpoint"
<1>1. PICK at \in {"record", "point", "unrecord", "unpoint"} :
        /\ Step(c, at)
        /\ \/ Upload(c, b) /\ at = "record"
           \/ RecordObject(c, b) /\ at = "point"
           \/ EraseObject(c, b) /\ at = "unrecord"
           \/ UnrecordObject(c, b) /\ at = "unpoint"
  BY DEF Upload, RecordObject, EraseObject, UnrecordObject
<1>2. /\ client' \in [Clients -> ClientRecord]
      /\ client'[c] = [client[c] EXCEPT !.at = at]
      /\ \A d \in Clients \ {c} : Beside(d)
  BY <1>1, StepEffect, GoesOnEffect DEF Base, Places, OnObject
<1>3. client[c] \in ClientRecord /\ client[c].at \in OnObject
  BY DEF Base, Typed, Upload, RecordObject, EraseObject, UnrecordObject, OnObject
<1>4. /\ client'[c].at = at /\ client'[c].op = client[c].op /\ client'[c].todo = client[c].todo
      /\ client'[c].page = client[c].page /\ client'[c].read = client[c].read
      /\ client'[c].fresh = client[c].fresh /\ client'[c].alone = client[c].alone
  BY <1>2, <1>3 DEF ClientRecord
<1> QED
  BY <1>1, <1>2, <1>3, <1>4

LEMMA ObjectBase ==
  ASSUME Base, NEW c \in Clients, NEW b \in Barcodes,
         Upload(c, b) \/ RecordObject(c, b) \/ EraseObject(c, b) \/ UnrecordObject(c, b)
  PROVE  Base'
<1> DEFINE at == client'[c].at
<1>1. /\ at \in {"record", "point", "unrecord", "unpoint"}
      /\ at = "record" => Upload(c, b)
      /\ at = "point" => RecordObject(c, b)
  BY ObjectMoves
<1>2. /\ client' \in [Clients -> ClientRecord]
      /\ \A d \in Clients \ {c} : Beside(d)
  BY ObjectMoves
<1>3. client[c] \in ClientRecord /\ Sound(c) /\ client[c].at \in OnObject
  BY DEF Base, Typed, Upload, RecordObject, EraseObject, UnrecordObject, OnObject
<1>4. /\ client'[c].op = client[c].op /\ client'[c].todo = client[c].todo
      /\ client'[c].page = client[c].page
  BY ObjectMoves
<1>5. /\ at = "record" => client[c].at = "upload" /\ client[c].page \in uploaded'
      /\ at = "point" => client[c].at = "record" /\ client[c].page \in uploaded'
  BY <1>1, <1>3 DEF Upload, RecordObject, Sound
<1>6. pages' = pages /\ uploaded \subseteq uploaded' /\ uploaded' \subseteq 1 .. pages /\ row' = row
  BY <1>3 DEF Base, Typed, Sound, Upload, RecordObject, EraseObject, UnrecordObject
<1>7. Sound(c)'
  BY <1>1, <1>3, <1>4, <1>5, <1>6 DEF Sound
<1>8. \A d \in Clients \ {c} : Sound(d)'
  BY <1>2, <1>6, BesideSound DEF Base, Typed
<1>9. object' \in [Barcodes -> 0 .. pages']
  BY <1>3, <1>6 DEF Base, Typed, Sound, Upload, RecordObject, EraseObject, UnrecordObject
<1>10. record' \in [Barcodes -> [sha : 0 .. pages', deleted : BOOLEAN]]
  <2>1. CASE RecordObject(c, b)
    BY <1>3, <2>1 DEF Base, Typed, Sound, RecordObject
  <2>2. CASE UnrecordObject(c, b)
    BY ZenonT(40), <2>2 DEF Base, Typed, UnrecordObject
  <2>3. CASE UNCHANGED record
    BY <1>6, <2>3 DEF Base, Typed
  <2> QED
    BY <2>1, <2>2, <2>3 DEF Upload, EraseObject
<1>11. Typed' /\ RowAfterUpload'
  BY <1>2, <1>6, <1>9, <1>10
  DEF Base, Typed, RowAfterUpload, Exists, Upload, RecordObject, EraseObject, UnrecordObject
<1> QED
  BY <1>7, <1>8, <1>11 DEF Base

\* A row is written: with a page that R2 has, or not at all.
LEMMA OvertakesBase ==
  ASSUME Base, NEW c \in Clients, NEW b \in Barcodes, NEW next, Overtakes(c, b, next),
         next.at \notin OnObject, next.at = "read" => next.op \in NoteReaders, NEW r \in RowRecord, r = NoRow \/ r.sha \in uploaded, Write(b, r),
         settled' \in [Barcodes -> BOOLEAN],
         UNCHANGED <<object, record, pages, edits, uploaded>>
  PROVE  Base'
<1>1. /\ client' \in [Clients -> ClientRecord]
      /\ client'[c] = [next EXCEPT !.fresh = @ \ {b}]
      /\ \A d \in Clients \ {c} : Beside(d)
  BY OvertakesEffect DEF Base
<1>2. client'[c].at = next.at /\ client'[c].op = next.op
  BY <1>1 DEF Overtakes, ClientRecord
<1>3. Sound(c)'
  BY <1>2 DEF Sound, OnObject
<1>4. \A d \in Clients \ {c} : Sound(d)'
  BY <1>1, BesideSound DEF Base, Typed
<1>5. Typed' /\ RowAfterUpload'
  BY <1>1 DEF Base, Typed, RowAfterUpload, Exists, Write
<1> QED
  BY <1>3, <1>4, <1>5 DEF Base

-----------------------------------------------------------------------------
(* How each action moves its client.                                       *)

LEMMA PublishedRow ==
  ASSUME Base, NEW c \in Clients, NEW b \in Barcodes, client[c].at = "point"
  PROVE  Published(c, b) \in RowRecord /\ Published(c, b).sha \in uploaded /\ Published(c, b).sha # 0
<1>1. client[c] \in ClientRecord /\ client[c].page \in uploaded /\ uploaded \subseteq 1 .. pages /\ pages \in Nat
  BY DEF Base, Typed, Sound
<1>2. client[c].read[b] \in NotesType /\ client[c].page \in Nat
  BY <1>1 DEF ClientRecord
<1>3. /\ client[c].read[b].remark \in Remarks /\ client[c].read[b].archived \in BOOLEAN
      /\ client[c].read[b].closed \in SUBSET Orders
  BY <1>2 DEF NotesType
<1>4. Published(c, b) \in RowRecord /\ Published(c, b).sha = client[c].page
  BY <1>2, <1>3 DEF Published, RowRecord
<1>5. client[c].page # 0
  BY <1>1
<1> QED
  BY <1>1, <1>4, <1>5

LEMMA UpsertMoves ==
  ASSUME Base, NEW c \in Clients, NEW b \in Barcodes, UpsertRow(c, b)
  PROVE  \E next : /\ Overtakes(c, b, next) /\ next.at \notin OnObject /\ next.fresh = {}
                   /\ next.at = "read" => next.op \in NoteReaders
                   /\ settled' = [settled EXCEPT ![b] = client[c].alone]
<1>1. [Idle EXCEPT !.op = "slot", !.at = "read", !.todo = {b}] \in ClientRecord
  BY StartTyped DEF Operations, Places
<1>2. /\ Idle.at = "idle" /\ Idle.fresh = {}
      /\ [Idle EXCEPT !.op = "slot", !.at = "read", !.todo = {b}].at = "read"
      /\ [Idle EXCEPT !.op = "slot", !.at = "read", !.todo = {b}].fresh = {}
      /\ [Idle EXCEPT !.op = "slot", !.at = "read", !.todo = {b}].op \in NoteReaders
      /\ "idle" \notin OnObject /\ "read" \notin OnObject
  BY DEF Idle, NoteReaders, OnObject
<1>3. CASE Leave(c, b, Idle)
  BY <1>2, <1>3, IdleTyped DEF Leave, Overtakes
<1>4. CASE Leave(c, b, [Idle EXCEPT !.op = "slot", !.at = "read", !.todo = {b}])
  BY <1>1, <1>2, <1>4 DEF Leave, Overtakes
<1> QED
  BY <1>3, <1>4 DEF UpsertRow

LEMMA DeleteMoves ==
  ASSUME Base, NEW c \in Clients, NEW b \in Barcodes, DeleteRow(c, b)
  PROVE  /\ Overtakes(c, b, Idle) /\ settled' = [settled EXCEPT ![b] = client[c].alone]
         /\ Idle.at = "idle" /\ Idle.fresh = {}
  BY IdleTyped DEF DeleteRow, Leave, Overtakes, Idle

\* The actions on notes but the write: what they begin or go on with.
Reads(c, next) ==
  /\ GoesOn(c, next) /\ next.at \notin OnObject
  /\ next.at = "read" => next.op \in NoteReaders
  /\ \A b \in Barcodes : Copied(next, b)

LEMMA BeginMoves ==
  ASSUME Base, NEW c \in Clients, NEW op \in NoteReaders, NEW todo \in SUBSET Barcodes,
         Begin(c, [Idle EXCEPT !.op = op, !.at = "read", !.todo = todo])
  PROVE  \E next : Reads(c, next)
<1> DEFINE next == [Idle EXCEPT !.op = op, !.at = "read", !.todo = todo]
<1>1. next \in ClientRecord
  BY StartTyped DEF Places, Operations, NoteReaders
<1>2. next.at = "read" /\ next.fresh = {} /\ next.op = op
  BY DEF Idle
<1> QED
  BY <1>1, <1>2 DEF Reads, GoesOn, Begin, Copied, OnObject

LEMMA ReadNotesMoves ==
  ASSUME Base, NEW c \in Clients, NEW b \in Barcodes, ReadNotes(c, b)
  PROVE  \E next : Reads(c, next)
<1> DEFINE read == IF client[c].op = "slot" THEN Notes(b)
                   ELSE [Notes(b) EXCEPT !.archived = client[c].op = "archive"]
           all == [client[c].read EXCEPT ![b] = read]
           next == [client[c] EXCEPT !.at = "write", !.fresh = {b}, !.read[b] = read]
<1>1. client[c] \in ClientRecord /\ Notes(b) \in NotesType
  BY RowsTyped DEF Base, Typed
<1>2. read \in NotesType
  BY <1>1 DEF NotesType
<1>3. /\ read.remark = row[b].remark /\ read.closed = row[b].closed
      /\ client[c].op = "slot" => read.archived = row[b].archived
  BY DEF Notes
<1>4. all \in [Barcodes -> NotesType] /\ all[b] = read
  BY <1>1, <1>2 DEF ClientRecord
<1>5. next = [client[c] EXCEPT !.at = "write", !.fresh = {b}, !.read = all]
  OBVIOUS
<1>6. client' = [client EXCEPT ![c] = next]
  BY DEF ReadNotes
<1> HIDE DEF read, all, next
<1>7. next \in ClientRecord /\ next.at = "write" /\ next.fresh = {b} /\ next.read = all /\ next.op = client[c].op
  BY <1>1, <1>4, <1>5 DEF ClientRecord, Places
<1>8. client[c].op \in {"slot", "archive", "unarchive"}
  BY DEF Base, Sound, ReadNotes, NoteReaders
<1>9. \A d \in Barcodes : Copied(next, d)
  BY <1>3, <1>4, <1>7, <1>8 DEF Copied
<1> QED
  BY <1>6, <1>7, <1>9 DEF Reads, GoesOn, OnObject

LEMMA RemarkMoves ==
  ASSUME Base, NEW c \in Clients, NEW b \in Barcodes, NEW text \in Remarks, ReadForRemark(c, b, text)
  PROVE  \E next : Reads(c, next)
<1> DEFINE read == [Notes(b) EXCEPT !.remark = text]
           all == [Idle.read EXCEPT ![b] = read]
           next == [Idle EXCEPT !.op = "remark", !.at = "write", !.todo = {b}, !.fresh = {b}, !.read[b] = read]
<1>1. read \in NotesType
  BY RowsTyped DEF Base, NotesType
<1>2. read.archived = row[b].archived /\ read.closed = row[b].closed
  BY DEF Notes
<1>3. all \in [Barcodes -> NotesType] /\ all[b] = read
  BY <1>1, IdleTyped DEF ClientRecord
<1>4. next = [Idle EXCEPT !.op = "remark", !.at = "write", !.todo = {b}, !.fresh = {b}, !.read = all]
  OBVIOUS
<1>5. client' = [client EXCEPT ![c] = next]
  BY DEF ReadForRemark, Begin
<1>6. "remark" \in Operations /\ "write" \in Places /\ {b} \in SUBSET Barcodes
  BY DEF Operations, Places
<1> HIDE DEF read, all, next
<1>7. /\ next \in ClientRecord /\ next.at = "write" /\ next.fresh = {b} /\ next.read = all /\ next.op = "remark"
  <2>1. next \in ClientRecord
    BY <1>3, <1>4, <1>6, StartNotesTyped
  <2> QED
    BY <1>4, <2>1 DEF Idle
<1>8. \A d \in Barcodes : Copied(next, d)
  BY <1>2, <1>3, <1>7 DEF Copied
<1> QED
  BY <1>5, <1>7, <1>8 DEF Reads, GoesOn, OnObject

\* A client that has loaded the notes of all rows.
LEMMA LoadAllCopies ==
  ASSUME NEW op \in Operations \ {"remark", "archive", "unarchive"}, NEW todo \in SUBSET Barcodes,
         NEW read \in [Barcodes -> NotesType],
         \A b \in todo : /\ read[b].remark = row[b].remark /\ read[b].archived = row[b].archived
                         /\ row[b].closed \subseteq read[b].closed
  PROVE  /\ LoadAll(op, todo, read) \in ClientRecord /\ LoadAll(op, todo, read).at = "write"
         /\ \A b \in Barcodes : Copied(LoadAll(op, todo, read), b)
<1> DEFINE all == [b \in Barcodes |-> IF b \in todo THEN read[b] ELSE Blank]
           next == LoadAll(op, todo, read)
<1>1. all \in [Barcodes -> NotesType] /\ \A b \in todo : all[b] = read[b]
  BY IdleTyped
<1>2. next = [Idle EXCEPT !.op = op, !.at = "write", !.todo = todo, !.fresh = todo, !.read = all]
  BY DEF LoadAll
<1>3. op \in Operations /\ "write" \in Places
  BY DEF Places
<1> HIDE DEF all, next
<1>4. next \in ClientRecord /\ next.at = "write" /\ next.fresh = todo /\ next.read = all /\ next.op = op
  <2>1. next \in ClientRecord
    BY <1>1, <1>2, <1>3, StartNotesTyped
  <2> QED
    BY <1>2, <2>1 DEF Idle
<1>5. \A b \in Barcodes : Copied(next, b)
  BY <1>1, <1>4 DEF Copied
<1> QED
  BY <1>4, <1>5 DEF next

LEMMA ClosingMoves ==
  ASSUME Base, NEW c \in Clients, NEW order \in Orders, NEW S \in SUBSET Barcodes, ReadForClosing(c, order, S)
  PROVE  \E next : Reads(c, next)
<1> DEFINE todo == S \cup {b \in Barcodes : Exists(b)}
           read == [b \in Barcodes |-> IF b \in S THEN [Notes(b) EXCEPT !.closed = @ \cup {order}] ELSE Notes(b)]
<1>1. read \in [Barcodes -> NotesType]
  BY RowsTyped DEF Base, NotesType
<1>2. ASSUME NEW b \in Barcodes
      PROVE  /\ read[b].remark = row[b].remark /\ read[b].archived = row[b].archived
             /\ row[b].closed \subseteq read[b].closed
  BY DEF Notes
<1>3. client' = [client EXCEPT ![c] = LoadAll("close", todo, read)]
  BY DEF ReadForClosing, Begin
<1>4. "close" \in Operations \ {"remark", "archive", "unarchive"} /\ todo \in SUBSET Barcodes
  BY DEF Operations
<1> HIDE DEF todo, read
<1>5. /\ LoadAll("close", todo, read) \in ClientRecord /\ LoadAll("close", todo, read).at = "write"
      /\ \A b \in Barcodes : Copied(LoadAll("close", todo, read), b)
  BY <1>1, <1>2, <1>4, LoadAllCopies
<1> QED
  BY <1>3, <1>5 DEF Reads, GoesOn, OnObject

LEMMA CleanupMoves ==
  ASSUME Base, NEW c \in Clients, NEW b \in Barcodes, ReadForCleanup(c, b)
  PROVE  \E next : Reads(c, next)
<1> DEFINE others == {d \in Barcodes \ {b} : Exists(d)}
           read == [d \in Barcodes |-> Notes(d)]
<1>1. client' = [client EXCEPT ![c] = LoadAll("cleanup", others, read)] \/ client' = [client EXCEPT ![c] = Idle]
  BY DEF ReadForCleanup
<1>2. read \in [Barcodes -> NotesType]
  BY RowsTyped DEF Base
<1>3. ASSUME NEW d \in Barcodes
      PROVE  /\ read[d].remark = row[d].remark /\ read[d].archived = row[d].archived
             /\ row[d].closed \subseteq read[d].closed
  BY DEF Notes
<1>4. "cleanup" \in Operations \ {"remark", "archive", "unarchive"} /\ others \in SUBSET Barcodes
  BY DEF Operations
<1>5. Idle.at = "idle" /\ Idle.fresh = {}
  BY DEF Idle
<1> HIDE DEF others, read
<1>6. /\ LoadAll("cleanup", others, read) \in ClientRecord /\ LoadAll("cleanup", others, read).at = "write"
      /\ \A d \in Barcodes : Copied(LoadAll("cleanup", others, read), d)
  BY <1>2, <1>3, <1>4, LoadAllCopies
<1> QED
  BY <1>1, <1>5, <1>6, IdleTyped DEF Reads, GoesOn, OnObject, Copied

LEMMA RaiseMoves ==
  ASSUME Base, NEW c \in Clients, Raise(c)
  PROVE  Reads(c, Idle)
  BY IdleTyped DEF Raise, End, Reads, GoesOn, Copied, OnObject, Idle

\* The row of b as client c would write its notes back.
NotesWritten(c, b) ==
  [sha |-> row[b].sha, remark |-> client[c].read[b].remark,
   archived |-> client[c].read[b].archived, closed |-> client[c].read[b].closed]

LEMMA WriteMoves ==
  ASSUME Base, NEW c \in Clients, NEW b \in Barcodes, WriteNotes(c, b)
  PROVE  \E next :
           /\ next \in ClientRecord /\ next.at \in {"idle", "write"}
           /\ \A d \in Barcodes : d \in next.fresh =>
                /\ d # b /\ d \in client[c].fresh
                /\ next.op = client[c].op /\ next.read[d] = client[c].read[d]
           /\ \/ Exists(b) /\ Write(b, NotesWritten(c, b)) /\ Overtakes(c, b, next)
              \/ ~Exists(b) /\ UNCHANGED row /\ GoesOn(c, next)
<1> DEFINE rest == [client[c] EXCEPT !.todo = @ \ {b}, !.fresh = @ \ {b}, !.read[b] = Blank]
           read == [client[c].read EXCEPT ![b] = Blank]
           next == IF client[c].todo = {b} THEN Idle ELSE rest
<1>1. client[c] \in ClientRecord /\ client[c].at = "write"
  BY DEF Base, Typed, WriteNotes
<1>2. /\ read \in [Barcodes -> NotesType]
      /\ \A d \in Barcodes : d # b => read[d] = client[c].read[d]
  BY <1>1, IdleTyped DEF ClientRecord
<1>3. rest = [client[c] EXCEPT !.todo = @ \ {b}, !.fresh = @ \ {b}, !.read = read]
  OBVIOUS
<1>4. \/ Exists(b) /\ Write(b, NotesWritten(c, b)) /\ client' = Outdate([client EXCEPT ![c] = next], b)
      \/ ~Exists(b) /\ UNCHANGED row /\ client' = [client EXCEPT ![c] = next]
  BY DEF WriteNotes, NotesWritten
<1>5. next = Idle \/ next = rest
  OBVIOUS
<1> HIDE DEF read, rest, next
<1>6. /\ rest \in ClientRecord /\ rest.at = "write" /\ rest.op = client[c].op
      /\ rest.fresh = client[c].fresh \ {b} /\ rest.read = read
  BY <1>1, <1>2, <1>3 DEF ClientRecord
<1>7. Idle \in ClientRecord /\ Idle.at = "idle" /\ Idle.fresh = {}
  BY IdleTyped DEF Idle
<1>8. /\ next \in ClientRecord /\ next.at \in {"idle", "write"}
      /\ \A d \in Barcodes : d \in next.fresh =>
                /\ d # b /\ d \in client[c].fresh
                /\ next.op = client[c].op /\ next.read[d] = client[c].read[d]
  BY <1>2, <1>5, <1>6, <1>7
<1> QED
  BY <1>4, <1>8 DEF Overtakes, GoesOn

LEMMA NotesWrittenRow ==
  ASSUME Base, NEW c \in Clients, NEW b \in Barcodes, Exists(b)
  PROVE  /\ NotesWritten(c, b) \in RowRecord
         /\ NotesWritten(c, b).sha \in uploaded /\ NotesWritten(c, b).sha # 0
<1>1. client[c] \in ClientRecord /\ row[b] \in RowRecord /\ row[b].sha \in uploaded /\ uploaded \subseteq 1 .. pages
  BY DEF Base, Typed, RowAfterUpload
<1>2. client[c].read[b] \in NotesType /\ row[b].sha \in Nat /\ row[b].sha # 0
  BY <1>1 DEF ClientRecord, RowRecord, Base, Typed
<1>3. /\ client[c].read[b].remark \in Remarks /\ client[c].read[b].archived \in BOOLEAN
      /\ client[c].read[b].closed \in SUBSET Orders
  BY <1>2 DEF NotesType
<1> QED
  BY <1>1, <1>2, <1>3 DEF NotesWritten, RowRecord

\* Which of the forms above a step of a client has.
LEMMA ClientMoves ==
  ASSUME Base, NEW c \in Clients, ClientStep(c)
  PROVE  \/ \E b \in Barcodes :
              \/ ReadForPublication(c, b) \/ BeginDelete(c, b)
              \/ Upload(c, b) \/ RecordObject(c, b) \/ EraseObject(c, b) \/ UnrecordObject(c, b)
              \/ UpsertRow(c, b) \/ DeleteRow(c, b) \/ WriteNotes(c, b)
         \/ /\ \E next : Reads(c, next)
            /\ edits' \in 0 .. MaxEdits
            /\ UNCHANGED <<object, record, row, pages, uploaded, settled>>
<1>1. edits \in 0 .. MaxEdits /\ (edits < MaxEdits => edits + 1 \in 0 .. MaxEdits)
  BY DEF Base, Typed
<1>2. ASSUME NEW b \in Barcodes, NEW op \in {"archive", "unarchive"}, CheckRow(c, b, op)
      PROVE  \E next : Reads(c, next)
  BY <1>2, BeginMoves DEF CheckRow, NoteReaders
<1>3. ASSUME NEW b \in Barcodes, BeginLookup(c, b)
      PROVE  \E next : Reads(c, next)
  BY <1>3, BeginMoves DEF BeginLookup, NoteReaders
<1>4. ASSUME NEW b \in Barcodes, \/ \E op \in {"archive", "unarchive"} : CheckRow(c, b, op)
                                 \/ \E text \in Remarks : ReadForRemark(c, b, text)
                                 \/ BeginLookup(c, b)
      PROVE  edits' \in 0 .. MaxEdits /\ UNCHANGED <<object, record, row, pages, uploaded, settled>>
  BY <1>1, <1>4 DEF CheckRow, ReadForRemark, BeginLookup, Begin
<1>5. ASSUME NEW b \in Barcodes, ReadNotes(c, b) \/ ReadForCleanup(c, b)
      PROVE  edits' \in 0 .. MaxEdits /\ UNCHANGED <<object, record, row, pages, uploaded, settled>>
  BY <1>1, <1>5 DEF ReadNotes, ReadForCleanup
<1>6. ASSUME NEW order \in Orders, NEW S \in SUBSET Barcodes, ReadForClosing(c, order, S)
      PROVE  edits' \in 0 .. MaxEdits /\ UNCHANGED <<object, record, row, pages, uploaded, settled>>
  BY <1>1, <1>6 DEF ReadForClosing, Begin
<1>7. ASSUME Raise(c)
      PROVE  edits' \in 0 .. MaxEdits /\ UNCHANGED <<object, record, row, pages, uploaded, settled>>
  BY <1>1, <1>7 DEF Raise
<1> QED
  BY <1>2, <1>3, <1>4, <1>5, <1>6, <1>7, ReadNotesMoves, RemarkMoves, ClosingMoves, CleanupMoves, RaiseMoves
  DEF ClientStep

LEMMA StepBase == Base /\ [Next]_vars => Base'
<1> SUFFICES ASSUME Base, [Next]_vars PROVE Base'
  OBVIOUS
<1>1. ASSUME NEW c \in Clients, ClientStep(c) PROVE Base'
  <2>1. ASSUME NEW b \in Barcodes, UpsertRow(c, b) PROVE Base'
    <3>1. PICK next : /\ Overtakes(c, b, next) /\ next.at \notin OnObject
                      /\ next.at = "read" => next.op \in NoteReaders
                      /\ settled' = [settled EXCEPT ![b] = client[c].alone]
      BY <2>1, UpsertMoves
    <3>2. settled' \in [Barcodes -> BOOLEAN]
      BY <3>1 DEF Base, Typed, ClientRecord
    <3>3. Published(c, b) \in RowRecord /\ Published(c, b).sha \in uploaded
      BY <2>1, PublishedRow DEF UpsertRow
    <3> QED
      BY <2>1, <3>1, <3>2, <3>3, OvertakesBase DEF UpsertRow
  <2>2. ASSUME NEW b \in Barcodes, DeleteRow(c, b) PROVE Base'
    <3>1. settled' \in [Barcodes -> BOOLEAN]
      BY <2>2, DeleteMoves DEF Base, Typed, ClientRecord
    <3> QED
      BY <2>2, <3>1, DeleteMoves, OvertakesBase, IdleTyped DEF DeleteRow, OnObject
  <2>3. ASSUME NEW b \in Barcodes, WriteNotes(c, b) PROVE Base'
    <3>1. PICK next :
            /\ next.at \in {"idle", "write"}
            /\ \/ Exists(b) /\ Write(b, NotesWritten(c, b)) /\ Overtakes(c, b, next)
               \/ ~Exists(b) /\ UNCHANGED row /\ GoesOn(c, next)
      BY <2>3, WriteMoves
    <3>2. CASE Exists(b) /\ Write(b, NotesWritten(c, b)) /\ Overtakes(c, b, next)
      BY <2>3, <3>1, <3>2, NotesWrittenRow, OvertakesBase DEF WriteNotes, OnObject, Base, Typed
    <3>3. CASE ~Exists(b) /\ UNCHANGED row /\ GoesOn(c, next)
      BY <2>3, <3>1, <3>3, GoesOnBase DEF WriteNotes, OnObject, Base, Typed
    <3> QED
      BY <3>1, <3>2, <3>3
  <2>4. ASSUME NEW next, Reads(c, next), edits' \in 0 .. MaxEdits,
               UNCHANGED <<object, record, row, pages, uploaded, settled>>
        PROVE  Base'
    BY <2>4, GoesOnBase DEF Reads
  <2> QED
    BY <1>1, <2>1, <2>2, <2>3, <2>4, ClientMoves, PublishBase, DeletionBase, ObjectBase
<1>2. CASE UNCHANGED vars
  BY <1>2 DEF vars, Base, Typed, Sound, RowAfterUpload, Exists
<1> QED
  BY <1>1, <1>2 DEF Next, Terminating

-----------------------------------------------------------------------------
(* Whose step it is, and the copies.                                       *)

LEMMA OthersBeside ==
  ASSUME Base, NEW c \in Clients, ClientStep(c)
  PROVE  \A d \in Clients \ {c} : Beside(d)
<1>1. ASSUME NEW b \in Barcodes, ReadForPublication(c, b) PROVE \A d \in Clients \ {c} : Beside(d)
  BY <1>1, PublishMoves, EnterEffect DEF Base
<1>2. ASSUME NEW b \in Barcodes, BeginDelete(c, b) PROVE \A d \in Clients \ {c} : Beside(d)
  BY <1>2, DeletionMoves, EnterEffect DEF Base
<1>3. ASSUME NEW b \in Barcodes,
             Upload(c, b) \/ RecordObject(c, b) \/ EraseObject(c, b) \/ UnrecordObject(c, b)
      PROVE  \A d \in Clients \ {c} : Beside(d)
  BY <1>3, ObjectMoves
<1>4. ASSUME NEW b \in Barcodes, UpsertRow(c, b) \/ DeleteRow(c, b)
      PROVE  \A d \in Clients \ {c} : Beside(d)
  BY <1>4, UpsertMoves, DeleteMoves, OvertakesEffect DEF Base
<1>5. ASSUME NEW b \in Barcodes, WriteNotes(c, b) PROVE \A d \in Clients \ {c} : Beside(d)
  BY <1>5, WriteMoves, OvertakesEffect, GoesOnEffect DEF Base
<1>6. ASSUME NEW next, Reads(c, next) PROVE \A d \in Clients \ {c} : Beside(d)
  BY <1>6, GoesOnEffect DEF Base, Reads
<1> QED
  BY <1>1, <1>2, <1>3, <1>4, <1>5, <1>6, ClientMoves

LEMMA BesideCopied ==
  ASSUME NEW d \in Clients, Beside(d), NEW b \in Barcodes, Copied(client[d], b),
         row'[b] = row[b] \/ b \notin client'[d].fresh
  PROVE  Copied(client[d], b)'
  BY DEF Beside, Copied

LEMMA StepCopies == Base /\ Copies /\ [Next]_vars => Copies'
<1> SUFFICES ASSUME Base, Copies, [Next]_vars PROVE Copies'
  OBVIOUS
<1>1. ASSUME NEW c \in Clients, ClientStep(c) PROVE Copies'
  <2>1. ASSUME row' = row, \A x \in Barcodes : Copied(client[c], x)' PROVE Copies'
    BY <1>1, <2>1, OthersBeside, BesideCopied DEF Copies
  <2>2. ASSUME NEW b \in Barcodes, ReadForPublication(c, b) PROVE Copies'
    <3>1. PICK next \in ClientRecord :
            /\ Enter(c, b, next) /\ next.fresh = {b} /\ next.read[b] = Notes(b)
      BY <2>2, PublishMoves
    <3>2. client'[c] = [next EXCEPT !.alone = \A d \in Clients \ {c} : ~Working(d, b)]
      BY <3>1, EnterEffect DEF Base
    <3>3. client'[c].fresh = {b} /\ client'[c].read[b] = Notes(b) /\ row' = row
      BY <2>2, <3>1, <3>2 DEF ClientRecord, ReadForPublication
    <3>4. \A x \in Barcodes : Copied(client[c], x)'
      BY <3>3 DEF Copied, Notes
    <3> QED
      BY <2>1, <3>3, <3>4
  <2>3. ASSUME NEW b \in Barcodes, BeginDelete(c, b) PROVE Copies'
    <3>1. PICK next \in ClientRecord : Enter(c, b, next) /\ next.fresh = {}
      BY <2>3, DeletionMoves
    <3>2. client'[c] = [next EXCEPT !.alone = \A d \in Clients \ {c} : ~Working(d, b)]
      BY <3>1, EnterEffect DEF Base
    <3>3. client'[c].fresh = {} /\ row' = row
      BY <2>3, <3>1, <3>2 DEF ClientRecord, BeginDelete
    <3> QED
      BY <2>1, <3>3 DEF Copied
  <2>4. ASSUME NEW b \in Barcodes,
               Upload(c, b) \/ RecordObject(c, b) \/ EraseObject(c, b) \/ UnrecordObject(c, b)
        PROVE  Copies'
    <3>1. /\ client'[c].op = client[c].op /\ client'[c].fresh = client[c].fresh
          /\ client'[c].read = client[c].read /\ row' = row
      BY <2>4, ObjectMoves DEF Upload, RecordObject, EraseObject, UnrecordObject
    <3> QED
      BY <2>1, <3>1 DEF Copied, Copies
  <2>5. ASSUME NEW b \in Barcodes, UpsertRow(c, b) \/ DeleteRow(c, b) PROVE Copies'
    <3>1. PICK next : Overtakes(c, b, next) /\ next.fresh = {}
      BY <2>5, UpsertMoves, DeleteMoves
    <3>2. /\ client'[c] = [next EXCEPT !.fresh = @ \ {b}] /\ next \in ClientRecord
          /\ \A d \in Clients : b \notin client'[d].fresh
      BY <3>1, OvertakesEffect DEF Base, Overtakes
    <3>3. client'[c].fresh = {}
      BY <3>1, <3>2 DEF ClientRecord
    <3>4. \A x \in Barcodes : x # b => row'[x] = row[x]
      BY <2>5 DEF UpsertRow, DeleteRow, Write, Base, Typed
    <3>5. ASSUME NEW d \in Clients \ {c}, NEW x \in Barcodes PROVE Copied(client[d], x)'
      BY <1>1, <3>2, <3>4, OthersBeside, BesideCopied DEF Copies
    <3>6. \A x \in Barcodes : Copied(client[c], x)'
      BY <3>3 DEF Copied
    <3> QED
      BY <3>5, <3>6 DEF Copies
  <2>6. ASSUME NEW b \in Barcodes, WriteNotes(c, b) PROVE Copies'
    <3>1. PICK next :
           /\ next \in ClientRecord
           /\ \A d \in Barcodes : d \in next.fresh =>
                /\ d # b /\ d \in client[c].fresh
                /\ next.op = client[c].op /\ next.read[d] = client[c].read[d]
           /\ \/ Exists(b) /\ Write(b, NotesWritten(c, b)) /\ Overtakes(c, b, next)
              \/ ~Exists(b) /\ UNCHANGED row /\ GoesOn(c, next)
      BY <2>6, WriteMoves
    <3>2. \A x \in Barcodes : x # b => row'[x] = row[x]
      BY <3>1 DEF Write, Base, Typed
    <3>3. row'[b] = row[b] \/ \A d \in Clients : b \notin client'[d].fresh
      BY <3>1, OvertakesEffect DEF Base
    <3>4. /\ client'[c].op = next.op /\ client'[c].read = next.read
          /\ client'[c].fresh \subseteq next.fresh
      <4>1. client'[c] = next \/ client'[c] = [next EXCEPT !.fresh = @ \ {b}]
        BY <3>1, OvertakesEffect, GoesOnEffect DEF Base
      <4> QED
        BY <3>1, <4>1 DEF ClientRecord
    <3>5. ASSUME NEW d \in Clients \ {c}, NEW x \in Barcodes PROVE Copied(client[d], x)'
      BY <1>1, <3>2, <3>3, OthersBeside, BesideCopied DEF Copies
    <3>6. ASSUME NEW x \in Barcodes PROVE Copied(client[c], x)'
      BY <3>1, <3>2, <3>4 DEF Copied, Copies
    <3> QED
      BY <3>5, <3>6 DEF Copies
  <2>7. ASSUME NEW next, Reads(c, next), row' = row PROVE Copies'
    <3>1. client'[c] = next
      BY <2>7, GoesOnEffect DEF Base, Reads
    <3> QED
      BY <2>1, <2>7, <3>1 DEF Copied, Reads
  <2> QED
    BY <1>1, <2>2, <2>3, <2>4, <2>5, <2>6, <2>7, ClientMoves
<1>2. CASE UNCHANGED vars
  BY <1>2 DEF vars, Copies, Copied
<1> QED
  BY <1>1, <1>2 DEF Next, Terminating

-----------------------------------------------------------------------------
(* The agreement of the stores.                                            *)

\* A step leaves the stores of x as they are when it changes nothing there,
\* and nobody comes to work on x or moves on in doing so.
LEMMA StoresKept ==
  ASSUME Base, NEW x \in Barcodes, Stores(x),
         object'[x] = object[x], record'[x] = record[x], row'[x].sha = row[x].sha,
         Exists(x)' <=> Exists(x), settled'[x] = settled[x],
         \A d \in Clients : Working(d, x)' =>
           /\ Working(d, x) /\ client'[d].at = client[d].at /\ client'[d].page = client[d].page
           /\ client'[d].alone => client[d].alone
  PROVE  Stores(x)'
<1>1. Quiet(x)'
  BY DEF Stores, Quiet
<1>2. Agree(x)'
  BY DEF Stores, Agree
<1>3. ASSUME NEW d \in Clients PROVE Undisturbed(d, x)'
  <2> SUFFICES ASSUME Working(d, x)', client'[d].alone PROVE Undisturbed(d, x)'
    BY DEF Undisturbed
  <2>1. /\ Working(d, x) /\ client'[d].at = client[d].at /\ client'[d].page = client[d].page
        /\ client[d].alone /\ Undisturbed(d, x)
    BY DEF Stores
  <2>2. \A e \in Clients \ {d} : ~Working(e, x)'
    BY <2>1 DEF Undisturbed
  <2> QED
    BY <2>1, <2>2 DEF Undisturbed
<1> QED
  BY <1>1, <1>2, <1>3 DEF Stores

\* The step of a client that works on x neither before nor after it.
LEMMA StoresApart ==
  ASSUME Base, NEW c \in Clients, ClientStep(c), NEW x \in Barcodes, Stores(x),
         object'[x] = object[x], record'[x] = record[x], row'[x].sha = row[x].sha,
         Exists(x)' <=> Exists(x), settled'[x] = settled[x], ~Working(c, x)'
  PROVE  Stores(x)'
<1>1. \A d \in Clients : Working(d, x)' =>
        /\ Working(d, x) /\ client'[d].at = client[d].at /\ client'[d].page = client[d].page
        /\ client'[d].alone => client[d].alone
  BY OthersBeside DEF Beside, Working
<1> QED
  BY <1>1, StoresKept

\* A client comes to work on b.
LEMMA EnterStores ==
  ASSUME Base, NEW c \in Clients, NEW b \in Barcodes, ClientStep(c), \A x \in Barcodes : Stores(x),
         UNCHANGED <<object, record, row>>,
         NEW next \in ClientRecord, Enter(c, b, next), next.at \in {"upload", "erase"}, next.todo = {b}
  PROVE  \A x \in Barcodes : Stores(x)'
<1>1. /\ client'[c] = [next EXCEPT !.alone = \A d \in Clients \ {c} : ~Working(d, b)]
      /\ \A d \in Clients \ {c} : Beside(d) /\ (Working(d, b) => ~client'[d].alone)
  BY EnterEffect DEF Base
<1>2. /\ client'[c].at = next.at /\ client'[c].todo = {b}
      /\ client'[c].alone <=> \A d \in Clients \ {c} : ~Working(d, b)
  BY <1>1 DEF ClientRecord
<1>3. /\ settled' = [settled EXCEPT ![b] = FALSE]
      /\ b \in DOMAIN settled
  BY DEF Enter, Base, Typed
<1>4. ASSUME NEW x \in Barcodes, x # b PROVE Stores(x)'
  <2>1. settled'[x] = settled[x] /\ ~Working(c, x)'
    BY <1>2, <1>3, <1>4 DEF Working, Base, Typed
  <2>2. object'[x] = object[x] /\ record'[x] = record[x] /\ row'[x] = row[x]
    OBVIOUS
  <2> QED
    BY <2>1, <2>2, StoresApart DEF Exists
<1>5. Quiet(b)' /\ Agree(b)'
  BY <1>3 DEF Quiet, Agree
<1>6. \A d \in Clients \ {c} : Working(d, b)' <=> Working(d, b)
  BY <1>1 DEF Beside, Working
<1>7. Undisturbed(c, b)'
  BY <1>2, <1>6 DEF Undisturbed
<1>8. \A d \in Clients \ {c} : Undisturbed(d, b)'
  BY <1>1, <1>6 DEF Undisturbed
<1> QED
  BY <1>4, <1>5, <1>7, <1>8 DEF Stores

\* A client that works on b is done with the object, the record, or both.
LEMMA ObjectStores ==
  ASSUME Base, NEW c \in Clients, NEW b \in Barcodes, ClientStep(c), \A x \in Barcodes : Stores(x),
         Upload(c, b) \/ RecordObject(c, b) \/ EraseObject(c, b) \/ UnrecordObject(c, b)
  PROVE  \A x \in Barcodes : Stores(x)'
<1>1. /\ client'[c].todo = client[c].todo /\ client'[c].page = client[c].page
      /\ client'[c].alone = client[c].alone
      /\ \A d \in Clients \ {c} : Beside(d)
      /\ client[c].at \in OnObject
      /\ \/ Upload(c, b) /\ client'[c].at = "record"
         \/ RecordObject(c, b) /\ client'[c].at = "point"
         \/ EraseObject(c, b) /\ client'[c].at = "unrecord"
         \/ UnrecordObject(c, b) /\ client'[c].at = "unpoint"
  BY ObjectMoves
<1>2. client[c].todo = {b} /\ Working(c, b)
  BY <1>1 DEF Base, Sound, Upload, RecordObject, EraseObject, UnrecordObject, Working
<1>3. settled' = settled /\ row' = row /\ ~settled[b]
  BY <1>2 DEF Upload, RecordObject, EraseObject, UnrecordObject, Stores, Quiet
<1>4. ASSUME NEW x \in Barcodes, x # b PROVE Stores(x)'
  <2>1. object'[x] = object[x] /\ record'[x] = record[x]
    BY <1>4 DEF Upload, RecordObject, EraseObject, UnrecordObject, Base, Typed
  <2> QED
    BY <1>1, <1>2, <1>3, <1>4, <2>1, StoresApart DEF Working, Exists
<1>5. Quiet(b)' /\ Agree(b)'
  BY <1>3 DEF Quiet, Agree
<1>6. \A d \in Clients \ {c} : Working(d, b)' <=> Working(d, b)
  BY <1>1 DEF Beside, Working
<1>7. ASSUME NEW d \in Clients \ {c} PROVE Undisturbed(d, b)'
  BY <1>1, <1>2, <1>6 DEF Undisturbed, Stores, Beside
<1>8. Undisturbed(c, b)'
  <2> SUFFICES ASSUME client[c].alone PROVE Undisturbed(c, b)'
    BY <1>1 DEF Undisturbed
  <2>1. \A d \in Clients \ {c} : ~Working(d, b)'
    BY <1>2, <1>6 DEF Stores, Undisturbed
  <2>2. CASE Upload(c, b) /\ client'[c].at = "record"
    <3>1. object'[b] = client[c].page
      BY <2>2 DEF Upload, Base, Typed
    <3> QED
      BY <1>1, <2>1, <2>2, <3>1 DEF Undisturbed
  <2>3. CASE RecordObject(c, b) /\ client'[c].at = "point"
    <3>1. object'[b] = client[c].page
      BY <1>2, <2>3 DEF RecordObject, Stores, Undisturbed
    <3>2. record'[b] = [sha |-> client[c].page, deleted |-> FALSE]
      BY <2>3 DEF RecordObject, Base, Typed
    <3> QED
      BY <1>1, <2>1, <2>3, <3>1, <3>2 DEF Undisturbed
  <2>4. CASE EraseObject(c, b) /\ client'[c].at = "unrecord"
    <3>1. object'[b] = 0
      BY <2>4 DEF EraseObject, Base, Typed
    <3> QED
      BY <2>1, <2>4, <3>1 DEF Undisturbed
  <2>5. CASE UnrecordObject(c, b) /\ client'[c].at = "unpoint"
    <3>1. object'[b] = 0
      BY <1>2, <2>5 DEF UnrecordObject, Stores, Undisturbed
    <3>2. record'[b].sha # 0 => record'[b].deleted
      BY ZenonT(40), <2>5 DEF UnrecordObject, Base, Typed
    <3> QED
      BY <2>1, <2>5, <3>1, <3>2 DEF Undisturbed
  <2> QED
    BY <1>1, <2>2, <2>3, <2>4, <2>5
<1> QED
  BY <1>4, <1>5, <1>7, <1>8 DEF Stores

\* A client that worked on b writes the row, and is done.
LEMMA LeaveStores ==
  ASSUME Base, NEW c \in Clients, NEW b \in Barcodes, ClientStep(c), \A x \in Barcodes : Stores(x),
         UpsertRow(c, b) \/ DeleteRow(c, b)
  PROVE  \A x \in Barcodes : Stores(x)'
<1>1. PICK next : /\ Overtakes(c, b, next) /\ next.at \notin OnObject
                  /\ settled' = [settled EXCEPT ![b] = client[c].alone]
  BY UpsertMoves, DeleteMoves DEF OnObject
<1>2. /\ client'[c].at = next.at
      /\ \A d \in Clients \ {c} : Beside(d)
  <2>1. client'[c] = [next EXCEPT !.fresh = @ \ {b}] /\ next \in ClientRecord
    BY <1>1, OvertakesEffect DEF Base, Overtakes
  <2> QED
    BY <1>1, <2>1, OvertakesEffect DEF Base, ClientRecord
<1>3. \A x \in Barcodes : ~Working(c, x)'
  BY <1>1, <1>2 DEF Working
<1>4. UNCHANGED <<object, record>> /\ \A x \in Barcodes : x # b => row'[x] = row[x]
  BY DEF UpsertRow, DeleteRow, Write, Base, Typed
<1>5. ASSUME NEW x \in Barcodes, x # b PROVE Stores(x)'
  BY <1>1, <1>3, <1>4, <1>5, StoresApart DEF Exists, Base, Typed
<1>6. Working(c, b) /\ settled'[b] = client[c].alone
  BY <1>1 DEF UpsertRow, DeleteRow, Working, OnObject, Base, Typed
<1>7. \A d \in Clients \ {c} : Working(d, b)' <=> Working(d, b)
  BY <1>2 DEF Beside, Working
<1>8. Quiet(b)'
  BY <1>3, <1>6, <1>7 DEF Quiet, Stores, Undisturbed
<1>9. ASSUME NEW d \in Clients PROVE Undisturbed(d, b)'
  BY <1>2, <1>3, <1>6, <1>7 DEF Undisturbed, Stores, Beside
<1>10. ASSUME client[c].alone PROVE Agree(b)'
  <2>1. CASE UpsertRow(c, b)
    <3>1. /\ row'[b] = Published(c, b) /\ Published(c, b).sha = client[c].page
          /\ Published(c, b).sha # 0 /\ NoRow.sha = 0
      BY <2>1, PublishedRow DEF UpsertRow, Write, Published, NoRow, Base, Typed
    <3>2. object[b] = client[c].page /\ record[b] = [sha |-> client[c].page, deleted |-> FALSE]
      BY <1>6, <1>10, <2>1 DEF UpsertRow, Stores, Undisturbed
    <3> QED
      BY <1>4, <3>1, <3>2 DEF Agree, Exists
  <2>2. CASE DeleteRow(c, b)
    <3>1. row'[b] = NoRow
      BY <2>2 DEF DeleteRow, Write, Base, Typed
    <3>2. object[b] = 0 /\ (record[b].sha # 0 => record[b].deleted)
      BY <1>6, <1>10, <2>2 DEF DeleteRow, Stores, Undisturbed
    <3> QED
      BY <1>4, <3>1, <3>2 DEF Agree, Exists
  <2> QED
    BY <2>1, <2>2
<1>11. Agree(b)'
  BY <1>6, <1>10 DEF Agree
<1> QED
  BY <1>5, <1>8, <1>9, <1>11 DEF Stores

LEMMA StepStores ==
  ASSUME Base, \A x \in Barcodes : Stores(x), [Next]_vars
  PROVE  \A x \in Barcodes : Stores(x)'
<1>1. ASSUME NEW c \in Clients, ClientStep(c) PROVE \A x \in Barcodes : Stores(x)'
  <2>1. ASSUME NEW b \in Barcodes, ReadForPublication(c, b) \/ BeginDelete(c, b)
        PROVE  \A x \in Barcodes : Stores(x)'
    <3>1. PICK next \in ClientRecord :
            Enter(c, b, next) /\ next.at \in {"upload", "erase"} /\ next.todo = {b}
      BY <2>1, PublishMoves, DeletionMoves
    <3>2. UNCHANGED <<object, record, row>>
      BY <2>1 DEF ReadForPublication, BeginDelete
    <3> QED
      BY <1>1, <3>1, <3>2, EnterStores
  <2>2. ASSUME NEW b \in Barcodes, WriteNotes(c, b) PROVE \A x \in Barcodes : Stores(x)'
    <3>1. PICK next :
           /\ next \in ClientRecord /\ next.at \in {"idle", "write"}
           /\ \/ Exists(b) /\ Write(b, NotesWritten(c, b)) /\ Overtakes(c, b, next)
              \/ ~Exists(b) /\ UNCHANGED row /\ GoesOn(c, next)
      BY <2>2, WriteMoves
    <3>2. client'[c].at = next.at
      <4>1. client'[c] = next \/ client'[c] = [next EXCEPT !.fresh = @ \ {b}]
        BY <3>1, OvertakesEffect, GoesOnEffect DEF Base
      <4> QED
        BY <3>1, <4>1 DEF ClientRecord
    <3>3. ASSUME NEW x \in Barcodes PROVE row'[x].sha = row[x].sha /\ (Exists(x)' <=> Exists(x))
      <4>1. CASE row' = row
        BY <4>1 DEF Exists
      <4>2. CASE Exists(b) /\ Write(b, NotesWritten(c, b))
        <5>1. NotesWritten(c, b).sha # 0 /\ NoRow.sha = 0 /\ NotesWritten(c, b).sha = row[b].sha
          BY <4>2, NotesWrittenRow DEF NoRow, NotesWritten
        <5> QED
          BY <4>2, <5>1 DEF Write, Exists, Base, Typed
      <4> QED
        BY <3>1, <4>1, <4>2
    <3> QED
      BY <1>1, <2>2, <3>1, <3>2, <3>3, StoresApart DEF WriteNotes, Working, OnObject
  <2>3. ASSUME NEW next, Reads(c, next), UNCHANGED <<object, record, row, settled>>
        PROVE  \A x \in Barcodes : Stores(x)'
    <3>1. client'[c] = next
      BY <2>3, GoesOnEffect DEF Base, Reads
    <3> QED
      BY <1>1, <2>3, <3>1, StoresApart DEF Reads, Working, Exists
  <2> QED
    BY <1>1, <2>1, <2>2, <2>3, ClientMoves, ObjectStores, LeaveStores
<1>2. CASE UNCHANGED vars
  BY <1>2 DEF vars, Stores, Quiet, Undisturbed, Agree, Working, Exists
<1> QED
  BY <1>1, <1>2 DEF Next, Terminating

-----------------------------------------------------------------------------

LEMMA InitIInv == Init => IInv
<1> SUFFICES ASSUME Init PROVE IInv
  OBVIOUS
<1>1. Idle.at = "idle" /\ Idle.fresh = {} /\ NoRow.sha = 0
  BY DEF Idle, NoRow
<1>2. Typed
  BY IdleTyped DEF Init, Typed
<1>3. \A c \in Clients : Sound(c)
  BY <1>1 DEF Init, Sound, OnObject
<1>4. RowAfterUpload
  BY DEF Init, RowAfterUpload, Exists
<1>5. Copies
  BY <1>1 DEF Init, Copies, Copied
<1>6. ASSUME NEW b \in Barcodes PROVE Stores(b)
  BY <1>1 DEF Init, Stores, Quiet, Undisturbed, Agree, Working, OnObject, Exists
<1> QED
  BY <1>2, <1>3, <1>4, <1>5, <1>6 DEF IInv, Base

LEMMA StepIInv == IInv /\ [Next]_vars => IInv'
  BY StepBase, StepCopies, StepStores DEF IInv

LEMMA CatalogSound == Spec => []IInv
  BY InitIInv, StepIInv, PTL DEF Spec

(* Every variable keeps its type, whatever the bounds.                     *)
THEOREM CatalogTyped == Spec => []TypeOK
<1>1. IInv => TypeOK
  <2> SUFFICES ASSUME IInv PROVE TypeOK
    OBVIOUS
  <2>1. ASSUME NEW b \in Barcodes, Exists(b) PROVE row[b].sha \in 1 .. pages /\ Notes(b) \in NotesType
    BY <2>1, RowsTyped DEF IInv, Base, Typed, RowAfterUpload
  <2>2. ASSUME NEW c \in Clients
        PROVE  /\ client[c].todo \subseteq Barcodes /\ client[c].fresh \subseteq Barcodes
               /\ client[c].read \in [Barcodes -> NotesType]
               /\ client[c].at \in OnObject => client[c].todo # {}
    BY DEF IInv, Base, Typed, Sound, ClientRecord
  <2> QED
    BY <2>1, <2>2 DEF IInv, Base, Typed, TypeOK
<1> QED
  BY <1>1, CatalogSound, PTL

(* The page a row names is one that R2 accepted, whatever fails and        *)
(* whatever overlaps: the upload comes before the row in every publication,*)
(* and no other operation brings a hash of its own.                        *)
THEOREM RowAfterUploadCorrect == Spec => []RowAfterUpload
<1>1. IInv => RowAfterUpload
  BY DEF IInv, Base
<1> QED
  BY <1>1, CatalogSound, PTL

(* After an undisturbed publication or deletion the object, its record and *)
(* the row agree, and stay in agreement until the next one begins.         *)
THEOREM StoresAgree == Spec => []SettledStoresAgree
<1>1. IInv => SettledStoresAgree
  BY DEF IInv, Stores, Agree, SettledStoresAgree
<1> QED
  BY <1>1, CatalogSound, PTL

\* The action of FreshWritersKeepNotes.
FreshKept(c, b) ==
  /\ Exists(b) /\ row'[b] # row[b] /\ row'[b] # NoRow
  /\ client[c].at \in {"point", "write"} /\ Moves(c)
  /\ b \in client[c].fresh
  => /\ client[c].op # "remark" => row'[b].remark = row[b].remark
     /\ client[c].op \notin {"archive", "unarchive"} => row'[b].archived = row[b].archived
     /\ row[b].closed \subseteq row'[b].closed
     /\ client[c].op # "publish" => row'[b].sha = row[b].sha

LEMMA StepFresh ==
  ASSUME IInv, [Next]_vars, NEW c \in Clients, NEW b \in Barcodes
  PROVE  FreshKept(c, b)
<1> SUFFICES ASSUME row'[b] # row[b], row'[b] # NoRow, client[c].at \in {"point", "write"}, Moves(c),
                    b \in client[c].fresh
             PROVE  /\ client[c].op # "remark" => row'[b].remark = row[b].remark
                    /\ client[c].op \notin {"archive", "unarchive"} => row'[b].archived = row[b].archived
                    /\ row[b].closed \subseteq row'[b].closed
                    /\ client[c].op # "publish" => row'[b].sha = row[b].sha
  BY DEF FreshKept
<1>1. PICK a \in Clients : ClientStep(a)
  BY DEF Next, Terminating, vars
<1>2. a = c
  BY <1>1, OthersBeside DEF IInv, Beside, Moves
<1>3. Copied(client[c], b) /\ row \in [Barcodes -> RowRecord]
  BY DEF IInv, Copies, Base, Typed
<1>4. PICK k \in Barcodes : UpsertRow(c, k) \/ DeleteRow(c, k) \/ WriteNotes(c, k)
  BY <1>1, <1>2, ClientMoves
  DEF IInv, ReadForPublication, BeginDelete, Upload, RecordObject, EraseObject, UnrecordObject
<1>5. k = b
  <2>1. \A x \in Barcodes : x # k => row'[x] = row[x]
    BY <1>3, <1>4 DEF UpsertRow, DeleteRow, WriteNotes, Write
  <2> QED
    BY <2>1
<1>6. CASE UpsertRow(c, b)
  <2>1. row'[b] = Published(c, b) /\ client[c].op = "publish"
    BY <1>3, <1>6 DEF UpsertRow, Write, IInv, Base, Sound
  <2> QED
    BY <1>3, <2>1 DEF Published, Copied
<1>7. CASE WriteNotes(c, b)
  <2>1. row'[b] = NotesWritten(c, b)
    BY <1>3, <1>7 DEF WriteNotes, Write, NotesWritten
  <2> QED
    BY <1>3, <2>1 DEF NotesWritten, Copied
<1>8. ~DeleteRow(c, b)
  BY <1>3 DEF DeleteRow, Write
<1> QED
  BY <1>4, <1>5, <1>6, <1>7, <1>8

(* Operations that write a row back whole change only what they are about, *)
(* unless the row was written since they read it.                          *)
THEOREM FreshWritersCorrect == Spec => FreshWritersKeepNotes
<1>1. IInv /\ [Next]_vars =>
        [\A c \in Clients, b \in Barcodes :
           /\ Exists(b) /\ row'[b] # row[b] /\ row'[b] # NoRow
           /\ client[c].at \in {"point", "write"} /\ Moves(c)
           /\ b \in client[c].fresh
           => /\ client[c].op # "remark" => row'[b].remark = row[b].remark
              /\ client[c].op \notin {"archive", "unarchive"} => row'[b].archived = row[b].archived
              /\ row[b].closed \subseteq row'[b].closed
              /\ client[c].op # "publish" => row'[b].sha = row[b].sha]_vars
  BY StepFresh DEF FreshKept
<1> QED
  BY <1>1, CatalogSound, PTL DEF Spec, FreshWritersKeepNotes

=============================================================================

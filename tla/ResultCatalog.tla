---------------------------- MODULE ResultCatalog ----------------------------
(***************************************************************************)
(* The results of barcode queries as all nodes share them: the page of a   *)
(* barcode is an object in R2, object_records keeps its hash, and the row  *)
(* in barcode_records points at the object and carries what users noted:   *)
(* remark, archive flag, closed service orders.                            *)
(*                                                                         *)
(* Two stores without a common transaction, and four operations that read  *)
(* a row, think, and write the row back whole.  A client is a request or a *)
(* handler of some node; each access to a store is a step of its own, and  *)
(* any access may raise, which ends the operation where it stands.         *)
(***************************************************************************)
EXTENDS Integers

CONSTANTS
  Barcodes,
  Clients,     (* requests and job handlers at work, of all nodes          *)
  Remarks,     (* texts a user may note, NoRemark among them               *)
  NoRemark,
  Orders,      (* service orders                                           *)
  MaxPages,    (* bound of the model: pages that are queried               *)
  MaxEdits     (* bound of the model: operations on notes that begin       *)

ASSUME CatalogAssumption ==
  /\ NoRemark \in Remarks
  /\ MaxPages \in Nat
  /\ MaxEdits \in Nat

VARIABLES
  object,    (* R2: the page stored under a barcode's key, 0 without       *)
  record,    (* object_records: hash of the object, and deleted_at         *)
  row,       (* barcode_records: hash, and what users noted                *)
  client,    (* what each client is doing                                  *)
  pages,     (* how many pages have been queried; each has its own hash    *)
  edits,     (* how many operations on notes have begun                    *)
  uploaded,  (* history: pages R2 accepted                                 *)
  settled    (* history: no operation on the object failed or overlapped   *)

vars == <<object, record, row, client, pages, edits, uploaded, settled>>

-----------------------------------------------------------------------------

Blank == [remark |-> NoRemark, archived |-> FALSE, closed |-> {}]
NoRow == [sha |-> 0, remark |-> NoRemark, archived |-> FALSE, closed |-> {}]
Exists(b) == row[b] # NoRow

Notes(b) == [remark |-> row[b].remark, archived |-> row[b].archived, closed |-> row[b].closed]

Idle == [op |-> "none", at |-> "idle", todo |-> {}, page |-> 0,
         read |-> [b \in Barcodes |-> Blank], fresh |-> {}, alone |-> FALSE]

\* The steps of an operation that work on the object of a barcode.
OnObject == {"upload", "record", "point", "erase", "unrecord", "unpoint"}

Working(c, b) == client[c].at \in OnObject /\ b \in client[c].todo

\* Client c is about to touch the object of b: those who are at it are no
\* longer alone, and neither is c.
Enter(c, b, next) ==
  LET others == {d \in Clients \ {c} : Working(d, b)} IN
  /\ client' = [d \in Clients |->
       IF d = c THEN [next EXCEPT !.alone = others = {}]
       ELSE IF d \in others THEN [client[d] EXCEPT !.alone = FALSE]
       ELSE client[d]]
  /\ settled' = [settled EXCEPT ![b] = FALSE]

\* Row b becomes r: whoever else has read it holds a stale copy now.
Write(b, r) == row' = [row EXCEPT ![b] = r]
Outdate(clients, b) == [d \in Clients |-> [clients[d] EXCEPT !.fresh = @ \ {b}]]

Step(c, at) == client' = [client EXCEPT ![c].at = at]
End(c) == client' = [client EXCEPT ![c] = Idle]

\* The last step at the object of b, which is to write row b; next is what
\* the client goes on with.
Leave(c, b, next) ==
  /\ client' = Outdate([client EXCEPT ![c] = next], b)
  /\ settled' = [settled EXCEPT ![b] = client[c].alone]

-----------------------------------------------------------------------------

Init ==
  /\ object = [b \in Barcodes |-> 0]
  /\ record = [b \in Barcodes |-> [sha |-> 0, deleted |-> FALSE]]
  /\ row = [b \in Barcodes |-> NoRow]
  /\ client = [c \in Clients |-> Idle]
  /\ pages = 0
  /\ edits = 0
  /\ uploaded = {}
  /\ settled = [b \in Barcodes |-> TRUE]

(* Publication of a query result.                                          *)

\* Mutant of ReadForPublication: the row that is there is not looked up.
ReadForPublicationBlank(c, b) ==
  /\ client[c].at = "idle" /\ pages < MaxPages
  /\ pages' = pages + 1
  /\ Enter(c, b, [Idle EXCEPT !.op = "publish", !.at = "upload", !.todo = {b}, !.page = pages + 1,
                              !.fresh = {b}])
  /\ UNCHANGED <<object, record, row, edits, uploaded>>

\* publish_cluster_query_result: a new page was saved to disk; what users
\* noted is read from the row, to be written back with the new hash.
ReadForPublication(c, b) ==
  /\ client[c].at = "idle" /\ pages < MaxPages
  /\ pages' = pages + 1
  /\ Enter(c, b, [Idle EXCEPT !.op = "publish", !.at = "upload", !.todo = {b}, !.page = pages + 1,
                              !.read[b] = Notes(b), !.fresh = {b}])
  /\ UNCHANGED <<object, record, row, edits, uploaded>>

\* The row of b as client c would publish it.
Published(c, b) ==
  [sha |-> client[c].page, remark |-> client[c].read[b].remark,
   archived |-> client[c].read[b].archived, closed |-> client[c].read[b].closed]

\* Mutant of Upload: the row is written first, the page uploaded last.
UploadLast(c, b) ==
  /\ client[c].at = "upload" /\ b \in client[c].todo
  /\ row' = [row EXCEPT ![b] = Published(c, b)]
  /\ Step(c, "record")
  /\ UNCHANGED <<object, record, pages, edits, uploaded, settled>>

\* put_file: put_object, then object_records.
Upload(c, b) ==
  /\ client[c].at = "upload" /\ b \in client[c].todo
  /\ object' = [object EXCEPT ![b] = client[c].page]
  /\ uploaded' = uploaded \cup {client[c].page}
  /\ Step(c, "record")
  /\ UNCHANGED <<record, row, pages, edits, settled>>

RecordObject(c, b) ==
  /\ client[c].at = "record" /\ b \in client[c].todo
  /\ record' = [record EXCEPT ![b] = [sha |-> client[c].page, deleted |-> FALSE]]
  /\ Step(c, "point")
  /\ UNCHANGED <<object, row, pages, edits, uploaded, settled>>

\* upsert_barcode writes every column.  The handler of a cluster job is done
\* then; a request goes on to note the slot.
UpsertRow(c, b) ==
  /\ client[c].at = "point" /\ b \in client[c].todo
  /\ Write(b, Published(c, b))
  /\ \/ Leave(c, b, Idle)
     \/ Leave(c, b, [Idle EXCEPT !.op = "slot", !.at = "read", !.todo = {b}])
  /\ UNCHANGED <<object, record, pages, edits, uploaded>>

(* Deletion of a result: a barcode without a row is refused.               *)

BeginDelete(c, b) ==
  /\ client[c].at = "idle" /\ Exists(b)
  /\ Enter(c, b, [Idle EXCEPT !.op = "delete", !.at = "erase", !.todo = {b}])
  /\ UNCHANGED <<object, record, row, pages, edits, uploaded>>

EraseObject(c, b) ==
  /\ client[c].at = "erase" /\ b \in client[c].todo
  /\ object' = [object EXCEPT ![b] = 0]
  /\ Step(c, "unrecord")
  /\ UNCHANGED <<record, row, pages, edits, uploaded, settled>>

\* Mutant of UnrecordObject: deleted_at is not set.
UnrecordNothing(c, b) ==
  /\ client[c].at = "unrecord" /\ b \in client[c].todo
  /\ Step(c, "unpoint")
  /\ UNCHANGED <<object, record, row, pages, edits, uploaded, settled>>

UnrecordObject(c, b) ==
  /\ client[c].at = "unrecord" /\ b \in client[c].todo
  /\ record' = [record EXCEPT ![b].deleted = @ \/ record[b].sha # 0]
  /\ Step(c, "unpoint")
  /\ UNCHANGED <<object, row, pages, edits, uploaded, settled>>

DeleteRow(c, b) ==
  /\ client[c].at = "unpoint" /\ b \in client[c].todo
  /\ Write(b, NoRow)
  /\ Leave(c, b, Idle)
  /\ UNCHANGED <<object, record, pages, edits, uploaded>>

(* Notes.  A missing row reads as blank notes, and an UPDATE of it changes *)
(* nothing, without anybody being told.                                    *)

\* An operation on notes begins.
Begin(c, next) ==
  /\ client[c].at = "idle" /\ edits < MaxEdits
  /\ edits' = edits + 1
  /\ client' = [client EXCEPT ![c] = next]
  /\ UNCHANGED <<object, record, row, pages, uploaded, settled>>

\* archive_barcode and unarchive_barcode look the row up once before they
\* read it.
CheckRow(c, b, op) ==
  /\ Exists(b) /\ (op = "unarchive" => row[b].archived)
  /\ Begin(c, [Idle EXCEPT !.op = op, !.at = "read", !.todo = {b}])

\* get_barcode_info, for an archive flag or for the slot of a query.
ReadNotes(c, b) ==
  /\ client[c].at = "read" /\ client[c].op # "cleanup" /\ b \in client[c].todo
  /\ client' = [client EXCEPT
       ![c].at = "write", ![c].fresh = {b},
       ![c].read[b] = IF client[c].op = "slot" THEN Notes(b)
                      ELSE [Notes(b) EXCEPT !.archived = client[c].op = "archive"]]
  /\ UNCHANGED <<object, record, row, pages, edits, uploaded, settled>>

ReadForRemark(c, b, text) ==
  Begin(c, [Idle EXCEPT !.op = "remark", !.at = "write", !.todo = {b}, !.fresh = {b},
                        !.read[b] = [Notes(b) EXCEPT !.remark = text]])

\* load_data reads the notes of all rows, and save_data writes back those of
\* the barcodes in todo.
LoadAll(op, todo, read) ==
  [Idle EXCEPT !.op = op, !.at = "write", !.todo = todo, !.fresh = todo,
               !.read = [b \in Barcodes |-> IF b \in todo THEN read[b] ELSE Blank]]

\* _record_service_closed_for_barcodes adds the order to the barcodes in S.
ReadForClosing(c, order, S) ==
  Begin(c, LoadAll("close", S \cup {b \in Barcodes : Exists(b)},
    [b \in Barcodes |-> IF b \in S THEN [Notes(b) EXCEPT !.closed = @ \cup {order}] ELSE Notes(b)]))

\* A lookup for the product library of a barcode without a row: afterwards
\* delete_temporary_query_result takes a row that appeared meanwhile out of
\* what it loaded, and saves the others.
BeginLookup(c, b) ==
  /\ ~Exists(b)
  /\ Begin(c, [Idle EXCEPT !.op = "cleanup", !.at = "read", !.todo = {b}])

ReadForCleanup(c, b) ==
  LET others == {d \in Barcodes \ {b} : Exists(d)} IN
  /\ client[c].at = "read" /\ client[c].op = "cleanup" /\ b \in client[c].todo
  /\ client' = [client EXCEPT ![c] =
       IF Exists(b) /\ others # {} THEN LoadAll("cleanup", others, [d \in Barcodes |-> Notes(d)])
       ELSE Idle]
  /\ UNCHANGED <<object, record, row, pages, edits, uploaded, settled>>

\* Mutant of WriteNotes: the notes of a missing row are inserted.
WriteNotesUpserted(c, b) ==
  /\ client[c].at = "write" /\ b \in client[c].todo
  /\ Write(b, [sha |-> row[b].sha, remark |-> client[c].read[b].remark,
               archived |-> client[c].read[b].archived, closed |-> client[c].read[b].closed])
  /\ End(c)
  /\ UNCHANGED <<object, record, pages, edits, uploaded, settled>>

\* update_barcode_metadata: one UPDATE of all notes of one barcode.
WriteNotes(c, b) ==
  LET notes == client[c].read[b]
      next == IF client[c].todo = {b} THEN Idle ELSE [client[c] EXCEPT !.todo = @ \ {b}, !.fresh = @ \ {b}, !.read[b] = Blank]
  IN
  /\ client[c].at = "write" /\ b \in client[c].todo
  /\ IF Exists(b)
     THEN /\ Write(b, [sha |-> row[b].sha, remark |-> notes.remark,
                       archived |-> notes.archived, closed |-> notes.closed])
          /\ client' = Outdate([client EXCEPT ![c] = next], b)
     ELSE UNCHANGED row /\ client' = [client EXCEPT ![c] = next]
  /\ UNCHANGED <<object, record, pages, edits, uploaded, settled>>

\* A store cannot be reached, or the process of the client ends: what was
\* done stays done.  (An access that takes effect and then raises is the
\* access followed by this.)
Raise(c) ==
  /\ client[c].at # "idle"
  /\ End(c)
  /\ UNCHANGED <<object, record, row, pages, edits, uploaded, settled>>

ClientStep(c) ==
  \/ \E b \in Barcodes :
       \/ ReadForPublication(c, b) \/ Upload(c, b) \/ RecordObject(c, b) \/ UpsertRow(c, b)
       \/ BeginDelete(c, b) \/ EraseObject(c, b) \/ UnrecordObject(c, b) \/ DeleteRow(c, b)
       \/ \E op \in {"archive", "unarchive"} : CheckRow(c, b, op)
       \/ ReadNotes(c, b)
       \/ \E text \in Remarks : ReadForRemark(c, b, text)
       \/ BeginLookup(c, b) \/ ReadForCleanup(c, b)
       \/ WriteNotes(c, b)
  \/ \E order \in Orders, S \in SUBSET Barcodes \ {{}} : ReadForClosing(c, order, S)
  \/ Raise(c)

\* Everybody is done and the bounds of the model are used up.
Terminating ==
  /\ pages = MaxPages /\ edits = MaxEdits
  /\ \A c \in Clients : client[c].at = "idle"
  /\ UNCHANGED vars

Next == (\E c \in Clients : ClientStep(c)) \/ Terminating

Spec == Init /\ [][Next]_vars

-----------------------------------------------------------------------------

NotesType == [remark : Remarks, archived : BOOLEAN, closed : SUBSET Orders]

\* What each variable holds: hashes are those of pages that were queried, and
\* a row, once there, has one.
TypeOK ==
  /\ pages \in 0 .. MaxPages
  /\ edits \in 0 .. MaxEdits
  /\ uploaded \subseteq 1 .. pages
  /\ object \in [Barcodes -> 0 .. pages]
  /\ record \in [Barcodes -> [sha : 0 .. pages, deleted : BOOLEAN]]
  /\ \A b \in Barcodes : Exists(b) => row[b].sha \in 1 .. pages /\ Notes(b) \in NotesType
  /\ settled \in [Barcodes -> BOOLEAN]
  /\ \A c \in Clients :
       /\ client[c].todo \subseteq Barcodes /\ client[c].fresh \subseteq Barcodes
       /\ client[c].read \in [Barcodes -> NotesType]
       /\ client[c].at \in OnObject => client[c].todo # {}

\* "PostgreSQL does not point to an object until upload succeeds", whatever
\* else runs or raises: the hash of a row is of a page that R2 accepted, under
\* this key.  (It need not be the page that is there now: another publication
\* or a deletion may have been faster.)
RowAfterUpload == \A b \in Barcodes : Exists(b) => row[b].sha \in uploaded

\* When no publication or deletion of a barcode is at work and the last one
\* ran to its end without another beside it, the three places agree: with a
\* row, the object and its record are the row's page; without one, there is no
\* object and its record is marked deleted.  So a disagreement takes a raised
\* call or two operations at once, and the next undisturbed operation repairs
\* it.
SettledStoresAgree ==
  \A b \in Barcodes : settled[b] =>
    IF Exists(b)
    THEN object[b] = row[b].sha /\ record[b] = [sha |-> row[b].sha, deleted |-> FALSE]
    ELSE object[b] = 0 /\ (record[b].sha # 0 => record[b].deleted)

\* The client whose step it is (others only lose the freshness of a copy).
Moves(c) == <<client'[c].at, client'[c].todo>> # <<client[c].at, client[c].todo>>

\* A client whose copy of a row is still fresh changes nothing in it that its
\* operation is not about: a query keeps remark, archive flag and closed
\* orders; a remark keeps the rest, and so on; and nobody takes a closed order
\* back.  What is lost is lost to a stale copy, or with the row.
FreshWritersKeepNotes ==
  [][\A c \in Clients, b \in Barcodes :
       /\ Exists(b) /\ row'[b] # row[b] /\ row'[b] # NoRow
       /\ client[c].at \in {"point", "write"} /\ Moves(c)
       /\ b \in client[c].fresh
       => /\ client[c].op # "remark" => row'[b].remark = row[b].remark
          /\ client[c].op \notin {"archive", "unarchive"} => row'[b].archived = row[b].archived
          /\ row[b].closed \subseteq row'[b].closed
          /\ client[c].op # "publish" => row'[b].sha = row[b].sha]_vars

=============================================================================

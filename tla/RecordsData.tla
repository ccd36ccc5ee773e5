---------------------------- MODULE RecordsData ----------------------------
(***************************************************************************)
(* The record store of a table page: class RecordsData of                  *)
(* mathesar_ui/src/stores/table-data/records.ts, with the statuses it      *)
(* keeps in Meta (meta.ts), the requests it has in flight, and the table   *)
(* on the server that those requests read and change.                      *)
(*                                                                         *)
(* The client is one thread: what a function does between two awaits is    *)
(* one action here.  Every RPC takes three steps (sent, served, heard),    *)
(* so requests overtake each other as HTTP requests do.  A promise that is *)
(* cancelled is never heard: the code after its await does not run         *)
(* (CancellablePromise.ts), though the server may still serve the request. *)
(*                                                                         *)
(* One data column; its value is what a cell holds.  Sorting, filtering,   *)
(* grouping and search select what a request lists just as the page does,  *)
(* so the page stands for all the request parameters.                      *)
(***************************************************************************)
EXTENDS Integers, FiniteSets

CONSTANTS
    RowIds,        \* identifiers the client gives to rows it has added
    Values,        \* what a cell may hold
    Blank,         \* the value of a cell nobody has filled in (NULL)
    Required,      \* is the data column NOT NULL?
    PageSize,      \* rows per page
    LastPage,      \* pages the user may ask for: 0..LastPage
    InitialRows,   \* rows in the table when the page opens
    Outcomes,      \* what may become of a request on the server
    MaxFetches,    \* bound: fetches asked for by the user
    MaxCreates,    \* bound: records.add requests
    MaxPatches,    \* bound: records.patch requests
    MaxDeletes     \* bound: deletions the user confirms

NoPk == 0
Pks == Nat \ {NoPk}
Pages == 0 .. LastPage
RowKeys == Pks \cup RowIds
RequestStates == {"processing", "success", "failure"}

ASSUME RowIdsAssumption == RowIds \cap Nat = {}
ASSUME BlankAssumption == Blank \in Values
ASSUME RequiredAssumption == Required \in BOOLEAN
ASSUME PagesAssumption == PageSize \in Nat \ {0} /\ LastPage \in Nat
ASSUME InitialRowsAssumption == InitialRows \in Nat
ASSUME OutcomesAssumption == Outcomes \subseteq {"answered", "rejected", "lost"}
ASSUME BoundsAssumption ==
    {MaxFetches, MaxCreates, MaxPatches, MaxDeletes} \subseteq Nat

VARIABLES
    \* the server
    rows,            \* the table: primary key -> value
    nextPk,          \* the next value of the key's sequence
    inserted,        \* history: how many records were stored for a new row
    \* requests that are on their way, served or not
    fetches, creates, patches,
    fetchCount, createCount, patchCount, deleteCount,
    \* the client
    page,            \* meta.pagination, for all the request parameters
    state,           \* recordsData.state
    saved,           \* recordsData.savedRecords: primary key -> value shown
    shownPage,       \* the offset in the identifiers of the saved rows
    newRows,         \* recordsData.newRecords: identifier -> [pk, val]
    usedIds,         \* identifiers getGloballyUniqueId has given out
    total,           \* recordsData.totalCount
    creation,        \* meta.rowCreationStatus: row key -> state
    modification,    \* meta.cellModificationStatus of the row's data cell
    deletionStatus,  \* meta.rowDeletionStatus
    cellErrors,      \* meta.cellClientSideErrors: rows whose cell has one
    deletion,        \* the deleteSelected() that has not returned
    reported,        \* rows the user was told are deleted
    destroyed        \* has destroy() been called?

server == <<rows, nextPk, inserted>>
counts == <<fetchCount, createCount, patchCount, deleteCount>>
statuses == <<creation, modification, deletionStatus, cellErrors>>
shown == <<state, saved, shownPage, total>>
user == <<page, usedIds, destroyed>>
vars == <<server, fetches, creates, patches, counts, shown, newRows, user,
          statuses, deletion, reported>>

(***************************************************************************)
(* Maps.                                                                   *)
(***************************************************************************)
Empty == [k \in {} |-> k]
Put(f, S, v) == [k \in DOMAIN f \cup S |-> IF k \in S THEN v ELSE f[k]]
Drop(f, S) == [k \in DOMAIN f \ S |-> f[k]]
IsMap(f, D, R) == DOMAIN f \subseteq D /\ f \in [DOMAIN f -> R]

(***************************************************************************)
(* Rows and their keys.                                                    *)
(***************************************************************************)
\* A row is known by its primary key once it has one, by its identifier before.
KeyOf_KeyAlways(r, row) == row.pk    \* mutant: no check that there is a key
KeyOf(r, row) == IF row.pk = NoPk THEN r ELSE row.pk
NewKeys == {KeyOf(r, newRows[r]) : r \in DOMAIN newRows}
ShownKeys == DOMAIN saved \cup NewKeys

\* The rows of a page, in primary key order, and the count that comes with them.
RowsOnPage(p) ==
    {k \in DOMAIN rows : Cardinality({j \in DOMAIN rows : j < k}) \div PageSize = p}
\* count_cte is cross joined to the page: it is lost when the page is empty.
CountWith(p) == IF RowsOnPage(p) = {} THEN 0 ELSE Cardinality(DOMAIN rows)

(***************************************************************************)
(* Sending and cancelling.                                                 *)
(***************************************************************************)
\* this.promise is the newest request for records; cancelled, it is not heard.
CancelFetch_None(fs) == fs           \* mutant: the previous request is not cancelled
CancelFetch(fs) == {f \in fs : f.id # fetchCount}
\* A cancelled write is not heard either, but an unserved one may yet be served.
CancelWrites_None(cs, old) == cs     \* mutant: the previous request is not cancelled
CancelWrites(cs, old) ==
    (cs \ old) \cup {[c EXCEPT !.live = FALSE] : c \in {d \in old : d.st = "sent"}}

NoDeletion == [stage |-> "none", keys |-> {}, st |-> "sent", failed |-> FALSE,
               savedKeys |-> {}, fetch |-> 0]

\* The part of fetch() that every caller runs: cancel, then send.
SendFetch(p) ==
    /\ fetchCount' = fetchCount + 1
    /\ fetches' = CancelFetch(fetches) \cup
           {[id |-> fetchCount + 1, page |-> p, st |-> "sent",
             rows |-> Empty, count |-> 0]}

\* fetch() with its default options, up to its await.
Fetch(p) ==
    /\ SendFetch(p)
    /\ newRows' = Empty
    /\ state' = "loading"
    /\ creation' = Empty
    /\ modification' = Empty
    /\ deletionStatus' = Empty
    /\ cellErrors' = {}

\* createRecord(row), up to its await.
CreateRecord(r, v) ==
    IF Required /\ v = Blank
    THEN /\ cellErrors' = cellErrors \cup {r}
         /\ UNCHANGED <<creation, creates, createCount>>
    ELSE /\ createCount < MaxCreates
         /\ createCount' = createCount + 1
         /\ cellErrors' = cellErrors \ {r}
         /\ creation' = Put(creation, {r}, "processing")
         /\ creates' = CancelWrites(creates, {c \in creates : c.row = r}) \cup
                {[id |-> createCount + 1, row |-> r, val |-> v, st |-> "sent",
                  pk |-> NoPk, live |-> TRUE]}

\* updateCell(row, column), up to its await.
UpdateCell(k, v) ==
    /\ patchCount < MaxPatches
    /\ patchCount' = patchCount + 1
    /\ modification' = Put(modification, {k}, "processing")
    /\ patches' = CancelWrites(patches, {p \in patches : p.pk = k}) \cup
           {[id |-> patchCount + 1, pk |-> k, val |-> v, st |-> "sent",
             live |-> TRUE]}

(***************************************************************************)
(* What the user does.  A confirmation dialog covers the page from the     *)
(* moment a deletion is confirmed until deleteSelected() returns.          *)
(***************************************************************************)
Usable == ~destroyed /\ deletion.stage = "none"

\* Any change of the request parameters makes the subscription fetch.
SetPage(p) ==
    /\ Usable
    /\ p # page
    /\ fetchCount < MaxFetches
    /\ page' = p
    /\ Fetch(p)
    /\ UNCHANGED <<server, creates, patches, createCount, patchCount, deleteCount,
                   saved, shownPage, total, usedIds, destroyed, deletion, reported>>

\* A refresh by the user or by a change of the columns, dialog or no dialog.
Refresh ==
    /\ ~destroyed
    /\ fetchCount < MaxFetches
    /\ Fetch(page)
    /\ UNCHANGED <<server, creates, patches, createCount, patchCount, deleteCount,
                   saved, shownPage, total, user, deletion, reported>>

\* addEmptyRecord(), or a value typed into the placeholder row, which then
\* joins the new rows; either way createRecord() is called at once.
AddRow(r, v) ==
    /\ Usable
    /\ r \notin usedIds
    /\ usedIds' = usedIds \cup {r}
    /\ newRows' = Put(newRows, {r}, [pk |-> NoPk, val |-> v])
    /\ CreateRecord(r, v)
    /\ UNCHANGED <<server, fetches, patches, fetchCount, patchCount, deleteCount,
                   shown, page, destroyed, modification, deletionStatus,
                   deletion, reported>>

\* A new value for the cell of a new row: createOrUpdateRecord().
EditNewRow(r, v) ==
    /\ Usable
    /\ r \in DOMAIN newRows
    /\ v # newRows[r].val
    /\ newRows' = [newRows EXCEPT ![r].val = v]
    /\ IF newRows[r].pk = NoPk
       THEN /\ CreateRecord(r, v)
            /\ UNCHANGED <<patches, patchCount, modification>>
       ELSE /\ UpdateCell(newRows[r].pk, v)
            /\ UNCHANGED <<creates, createCount, creation, cellErrors>>
    /\ UNCHANGED <<server, fetches, fetchCount, deleteCount, shown, user,
                   deletionStatus, deletion, reported>>

\* A new value for the cell of a saved row: updateCell().
EditSavedRow(k, v) ==
    /\ Usable
    /\ k \in DOMAIN saved
    /\ v # saved[k]
    /\ saved' = [saved EXCEPT ![k] = v]
    /\ UpdateCell(k, v)
    /\ UNCHANGED <<server, fetches, creates, fetchCount, createCount, deleteCount,
                   state, shownPage, total, newRows, user, creation,
                   deletionStatus, cellErrors, deletion, reported>>

\* deleteSelected() after the RPC, or without one: the new rows go, then the
\* records are fetched again, quietly.
RefetchAfterDelete_KeepNew(d) ==     \* mutant: the new rows stay
    /\ deletion' = [d EXCEPT !.stage = "refetching", !.savedKeys = DOMAIN saved,
                             !.fetch = fetchCount + 1]
    /\ newRows' = newRows
    /\ SendFetch(page)
RefetchAfterDelete(d) ==
    /\ deletion' = [d EXCEPT !.stage = "refetching", !.savedKeys = DOMAIN saved,
                             !.fetch = fetchCount + 1]
    /\ newRows' = Empty
    /\ SendFetch(page)

\* deleteSelected() for the rows with these keys, up to its first await.
DeleteSelected(keys) ==
    /\ Usable
    /\ keys # {}
    /\ keys \subseteq ShownKeys
    /\ deleteCount < MaxDeletes
    /\ deleteCount' = deleteCount + 1
    /\ deletionStatus' = Put(deletionStatus, keys, "processing")
    /\ LET d == [NoDeletion EXCEPT !.stage = "deleting", !.keys = keys]
       IN IF keys \cap Pks = {}
          THEN RefetchAfterDelete(d)
          ELSE /\ deletion' = d
               /\ UNCHANGED <<newRows, fetches, fetchCount>>
    /\ UNCHANGED <<server, creates, patches, createCount, patchCount, shown, user,
                   creation, modification, cellErrors, reported>>

\* destroy(): the page is left.  Only the request for records is cancelled.
Destroy ==
    /\ ~destroyed
    /\ destroyed' = TRUE
    /\ fetches' = CancelFetch(fetches)
    /\ UNCHANGED <<server, creates, patches, counts, shown, newRows, page, usedIds,
                   statuses, deletion, reported>>

(***************************************************************************)
(* What the server does with a request: it is answered, it is rejected     *)
(* (or never arrives), or it takes effect and its answer is lost.          *)
(***************************************************************************)
Served(o) == IF o = "answered" THEN "ok" ELSE "err"
\* A call nobody listens to is gone once it is served.
Reply(c, r) == IF c.live THEN {r} ELSE {}

\* records.list: one statement, so the rows and the count are of one moment.
ServeList(f, o) ==
    /\ f \in fetches /\ f.st = "sent"
    /\ fetches' = (fetches \ {f}) \cup
           {[id |-> f.id, page |-> f.page, st |-> Served(o),
             rows |-> [k \in RowsOnPage(f.page) |-> rows[k]],
             count |-> CountWith(f.page)]}
    /\ UNCHANGED <<server, creates, patches, counts, shown, newRows, user, statuses,
                   deletion, reported>>

\* records.add: the row is stored under the next key of the sequence.
ServeAdd(c, o) ==
    /\ c \in creates /\ c.st = "sent"
    /\ creates' = (creates \ {c}) \cup
           Reply(c, [c EXCEPT !.st = Served(o), !.pk = nextPk])
    /\ nextPk' = nextPk + 1
    /\ IF o = "rejected"
       THEN UNCHANGED <<rows, inserted>>
       ELSE /\ rows' = Put(rows, {nextPk}, c.val)
            /\ inserted' = [inserted EXCEPT ![c.row] = @ + 1]
    /\ UNCHANGED <<fetches, patches, counts, shown, newRows, user, statuses,
                   deletion, reported>>

\* records.patch: the client fails on the answer when the row is no longer there.
ServePatch(p, o) ==
    /\ p \in patches /\ p.st = "sent"
    /\ LET there == p.pk \in DOMAIN rows IN
       /\ patches' = (patches \ {p}) \cup
              Reply(p, [p EXCEPT !.st = IF there THEN Served(o) ELSE "err"])
       /\ rows' = IF there /\ o # "rejected" THEN [rows EXCEPT ![p.pk] = p.val]
                                             ELSE rows
    /\ UNCHANGED <<nextPk, inserted, fetches, creates, counts, shown, newRows, user,
                   statuses, deletion, reported>>

\* records.delete: one statement for all the rows.
ServeDelete(o) ==
    /\ deletion.stage = "deleting" /\ deletion.st = "sent"
    /\ deletion' = [deletion EXCEPT !.st = Served(o)]
    /\ rows' = IF o = "rejected" THEN rows ELSE Drop(rows, deletion.keys)
    /\ UNCHANGED <<nextPk, inserted, fetches, creates, patches, counts, shown,
                   newRows, user, statuses, reported>>

(***************************************************************************)
(* What follows each await.                                                *)
(***************************************************************************)
\* The keys of a deletion's rows that are gone.
SuccessRowKeys(d) == IF d.failed THEN d.keys \ Pks ELSE d.keys

\* clearAllStatusesAndErrorsForRows(): `.filter(([cellkey]) => ...)` takes the
\* first character of each cell key, so no entry of a cell is ever cleared.
ClearAllStatusesAndErrorsForRows(keys, c) == Drop(c, keys)

\* deleteSelected() after its fetch().
FinishDelete_KeepFailures(d) ==      \* mutant: failed rows keep their old status
    /\ creation' = ClearAllStatusesAndErrorsForRows(SuccessRowKeys(d),
                                                    Drop(creation, d.savedKeys))
    /\ deletionStatus' = Drop(deletionStatus, SuccessRowKeys(d))
    /\ reported' = IF d.failed THEN reported ELSE reported \cup d.keys
    /\ deletion' = NoDeletion
FinishDelete(d) ==
    /\ creation' = ClearAllStatusesAndErrorsForRows(SuccessRowKeys(d),
                                                    Drop(creation, d.savedKeys))
    \* The failures are entered and the map is cleared at once.
    /\ deletionStatus' = Empty
    \* The toast: with a failure there is an error and no count of deleted rows.
    /\ reported' = IF d.failed THEN reported ELSE reported \cup d.keys
    /\ deletion' = NoDeletion

\* fetch() after its await: the rows and the count are shown, or an error.
ShowRows(f) ==
    /\ f.st = "ok"
    /\ saved' = f.rows
    /\ shownPage' = f.page
    /\ total' = f.count
    /\ state' = "done"
ShowError_Silent(f) == f.st = "err" /\ UNCHANGED shown    \* mutant: nothing is set
ShowError(f) ==
    /\ f.st = "err"
    /\ state' = "error"
    /\ UNCHANGED <<saved, shownPage, total>>

HearList(f) ==
    /\ f \in fetches /\ f.st # "sent"
    /\ fetches' = fetches \ {f}
    /\ ShowRows(f) \/ ShowError(f)
    /\ IF deletion.stage = "refetching" /\ deletion.fetch = f.id
       THEN FinishDelete(deletion)
       ELSE UNCHANGED <<creation, deletionStatus, reported, deletion>>
    /\ UNCHANGED <<server, creates, patches, counts, newRows, user, modification,
                   cellErrors>>

\* createRecord() after its await: the status moves from the identifier to the key.
CreatedStatus_Kept(c) == Put(creation, {c.pk}, "success")    \* mutant: not moved
CreatedStatus(c) == Put(Drop(creation, {c.row}), {c.pk}, "success")

HearAdd(c) ==
    /\ c \in creates /\ c.live /\ c.st # "sent"
    /\ creates' = creates \ {c}
    /\ \/ /\ c.st = "ok"
          /\ creation' = CreatedStatus(c)
          /\ newRows' = [r \in DOMAIN newRows |->
                 IF r = c.row THEN [pk |-> c.pk, val |-> c.val] ELSE newRows[r]]
          /\ total' = total + 1
       \/ /\ c.st = "err"
          /\ creation' = Put(creation, {c.row}, "failure")
          /\ UNCHANGED <<newRows, total>>
    /\ UNCHANGED <<server, fetches, patches, counts, state, saved, shownPage, user,
                   modification, deletionStatus, cellErrors, deletion, reported>>

\* updateCell() after its await, and the cell that called it.
HearPatch(p) ==
    /\ p \in patches /\ p.live /\ p.st # "sent"
    /\ patches' = patches \ {p}
    /\ \/ /\ p.st = "ok"
          /\ modification' = Put(modification, {p.pk}, "success")
          /\ saved' = [k \in DOMAIN saved |-> IF k = p.pk THEN p.val ELSE saved[k]]
          /\ newRows' = [r \in DOMAIN newRows |->
                 IF newRows[r].pk = p.pk THEN [newRows[r] EXCEPT !.val = p.val]
                                         ELSE newRows[r]]
       \/ /\ p.st = "err"
          /\ modification' = Put(modification, {p.pk}, "failure")
          /\ UNCHANGED <<saved, newRows>>
    /\ UNCHANGED <<server, fetches, creates, counts, state, shownPage, total, user,
                   creation, deletionStatus, cellErrors, deletion, reported>>

\* deleteSelected() after its RPC.
HearDelete ==
    /\ deletion.stage = "deleting" /\ deletion.st # "sent"
    /\ RefetchAfterDelete([deletion EXCEPT !.failed = deletion.st = "err"])
    /\ UNCHANGED <<server, creates, patches, createCount, patchCount, deleteCount,
                   shown, user, statuses, reported>>

(***************************************************************************)
(* The specification.                                                      *)
(***************************************************************************)
\* The constructor fetches, then subscribes to the request parameters, which
\* fetches again: the page opens with one request to listen to.
Init ==
    /\ rows = [k \in 1 .. InitialRows |-> Blank]
    /\ nextPk = InitialRows + 1
    /\ inserted = [r \in RowIds |-> 0]
    /\ fetches = {[id |-> 1, page |-> 0, st |-> "sent", rows |-> Empty, count |-> 0]}
    /\ creates = {} /\ patches = {}
    /\ fetchCount = 1 /\ createCount = 0 /\ patchCount = 0 /\ deleteCount = 0
    /\ page = 0 /\ state = "loading" /\ saved = Empty /\ shownPage = 0 /\ total = 0
    /\ newRows = Empty /\ usedIds = {}
    /\ creation = Empty /\ modification = Empty /\ deletionStatus = Empty
    /\ cellErrors = {}
    /\ deletion = NoDeletion /\ reported = {} /\ destroyed = FALSE

UserStep ==
    \/ \E p \in Pages : SetPage(p)
    \/ Refresh
    \/ \E r \in RowIds, v \in Values : AddRow(r, v) \/ EditNewRow(r, v)
    \/ \E k \in DOMAIN saved, v \in Values : EditSavedRow(k, v)
    \/ \E keys \in SUBSET ShownKeys : DeleteSelected(keys)
    \/ Destroy

ServeAnyList == \E f \in fetches, o \in Outcomes : ServeList(f, o)
ServeAnyAdd == \E c \in creates, o \in Outcomes : ServeAdd(c, o)
ServeAnyPatch == \E p \in patches, o \in Outcomes : ServePatch(p, o)
ServeAnyDelete == \E o \in Outcomes : ServeDelete(o)
HearAnyList == \E f \in fetches : HearList(f)
HearAnyAdd == \E c \in creates : HearAdd(c)
HearAnyPatch == \E p \in patches : HearPatch(p)

Next ==
    \/ UserStep
    \/ ServeAnyList \/ ServeAnyAdd \/ ServeAnyPatch \/ ServeAnyDelete
    \/ HearAnyList \/ HearAnyAdd \/ HearAnyPatch \/ HearDelete

Spec == Init /\ [][Next]_vars

\* Every request is served in the end and every answer is heard: HTTP requests
\* end with an answer or an error, and the browser runs their callbacks.
Fairness ==
    /\ WF_vars(ServeAnyList) /\ WF_vars(ServeAnyAdd)
    /\ WF_vars(ServeAnyPatch) /\ WF_vars(ServeAnyDelete)
    /\ WF_vars(HearAnyList) /\ WF_vars(HearAnyAdd)
    /\ WF_vars(HearAnyPatch) /\ WF_vars(HearDelete)

FairSpec == Spec /\ Fairness

(***************************************************************************)
(* Properties.                                                             *)
(***************************************************************************)
CallStates == {"sent", "ok", "err"}
FetchCall(f) ==
    f.id \in Nat /\ f.page \in Pages /\ f.st \in CallStates /\ f.count \in Nat
    /\ IsMap(f.rows, Pks, Values)
CreateCalls == [id : Nat, row : RowIds, val : Values, st : CallStates, pk : Nat,
                live : BOOLEAN]
PatchCalls == [id : Nat, pk : Pks, val : Values, st : CallStates, live : BOOLEAN]
Deletions == [stage : {"none", "deleting", "refetching"}, keys : SUBSET RowKeys,
              st : CallStates, failed : BOOLEAN, savedKeys : SUBSET Pks, fetch : Nat]

ServerOK == /\ IsMap(rows, Pks, Values) /\ IsFiniteSet(DOMAIN rows)
            /\ nextPk \in Pks /\ inserted \in [RowIds -> Nat]
CallsOK == /\ \A f \in fetches : FetchCall(f)
           /\ creates \subseteq CreateCalls /\ patches \subseteq PatchCalls
           /\ \A c \in creates : c.st # "sent" => c.pk \in Pks
CountsOK == {fetchCount, createCount, patchCount, deleteCount} \subseteq Nat
ShownOK == /\ state \in {"loading", "done", "error"} /\ IsMap(saved, Pks, Values)
           /\ shownPage \in Pages /\ total \in Nat
NewRowsOK == IsMap(newRows, RowIds, [pk : Nat, val : Values])
UserOK == page \in Pages /\ usedIds \subseteq RowIds /\ destroyed \in BOOLEAN
StatusesOK == /\ IsMap(creation, RowKeys, RequestStates)
              /\ IsMap(modification, Pks, RequestStates)
              /\ IsMap(deletionStatus, RowKeys, RequestStates)
              /\ cellErrors \subseteq RowIds
DeletionOK == deletion \in Deletions /\ reported \subseteq RowKeys

\* The shape of every variable.
TypeOK == /\ ServerOK /\ CallsOK /\ CountsOK /\ ShownOK /\ NewRowsOK /\ UserOK
          /\ StatusesOK /\ DeletionOK

\* The spinner is never orphaned: while the page is loading there is a request
\* whose answer will end it, although deleteSelected() refetches silently.
LoadingIsAwaited == state = "loading" /\ ~destroyed => fetches # {}

\* A row or cell marked as processing has a request that will be heard: a
\* request is cancelled only when another one takes its place.
ProcessingIsAwaited ==
    /\ \A k \in DOMAIN creation : creation[k] = "processing" =>
           \E c \in creates : c.live /\ c.row = k
    /\ \A k \in DOMAIN modification : modification[k] = "processing" =>
           \E p \in patches : p.live /\ p.pk = k
    /\ \A k \in DOMAIN deletionStatus : deletionStatus[k] = "processing" =>
           deletion.stage # "none"

\* "The status of the most recent request" (Meta): success or failure is not
\* shown for a cell or a row while a newer request for it is on its way.
StatusIsOfNewestRequest ==
    /\ \A c \in creates : c.live /\ c.row \in DOMAIN creation =>
           creation[c.row] = "processing"
    /\ \A p \in patches : p.live /\ p.pk \in DOMAIN modification =>
           modification[p.pk] = "processing"

\* A record the user was told is deleted is not shown by a loaded page again,
\* whatever requests and answers were under way when it was deleted.
Gone == reported \cap Pks
ReportedRowsStayGone == state = "done" => Gone \cap ShownKeys = {}

(***************************************************************************)
(* The invariants behind them.                                             *)
(***************************************************************************)
\* One request for records is listened to, the newest, and it asks for the page
\* the user is on.
OnlyNewestIsHeard ==
    /\ \A f \in fetches : f.id = fetchCount /\ f.page = page
    /\ \A f, g \in fetches : f = g

\* For each row one create, and for each cell one update, is listened to.
OneWriteIsHeard ==
    /\ \A c, d \in creates : c.live /\ d.live /\ c.row = d.row => c = d
    /\ \A p, q \in patches : p.live /\ q.live /\ p.pk = q.pk => p = q

\* Keys come from the server's sequence, identifiers from getGloballyUniqueId.
KeysAreIssued ==
    /\ \A k \in DOMAIN rows \cup DOMAIN saved \cup Gone \cup (deletion.keys \cap Pks) :
          k < nextPk
    /\ \A f \in fetches : \A k \in DOMAIN f.rows : k < nextPk
    /\ \A c \in creates : c.pk < nextPk /\ c.row \in usedIds
    /\ \A r \in DOMAIN newRows : newRows[r].pk < nextPk /\ r \in usedIds

\* A record whose deletion has succeeded is in no place it could come back from:
\* the table, an answer under way, the new rows, a create under way for one of them.
Deleted ==
    Gone \cup
    IF \/ deletion.stage = "deleting" /\ deletion.st = "ok"
       \/ deletion.stage = "refetching" /\ ~deletion.failed
    THEN deletion.keys \cap Pks ELSE {}
NothingBringsBack ==
    /\ Deleted \cap DOMAIN rows = {}
    /\ \A f \in fetches : Gone \cap DOMAIN f.rows = {}
    /\ \A f \in fetches : deletion.stage = "refetching" /\ f.id = deletion.fetch =>
           Deleted \cap DOMAIN f.rows = {}
    /\ deletion.stage = "refetching" => DOMAIN newRows = {}
    /\ \A r \in DOMAIN newRows : newRows[r].pk \notin Gone
    /\ \A c \in creates : c.row \in DOMAIN newRows => c.pk \notin Gone
    /\ state = "done" => Gone \cap DOMAIN saved = {}

\* The store keeps the promise of LatestWins: silent refetches, failures and
\* the other requests included, it shows the answer to what was asked last.
Promise == INSTANCE LatestWins WITH Questions <- Pages, asked <- page,
                                    answered <- shownPage, phase <- state
ImplementsLatestWins == Promise!Spec

\* A page that is loading stops loading, with its rows or an error, once the
\* user leaves it alone for a while.
LoadingSettles == state = "loading" ~> state # "loading" \/ destroyed

\* Rows and cells do not stay marked as processing.
Processing == "processing" \in {creation[k] : k \in DOMAIN creation}
                          \cup {modification[k] : k \in DOMAIN modification}
ProcessingSettles == Processing ~> ~Processing

(***************************************************************************)
(* What comments of the code say and the code does not do.                 *)
(***************************************************************************)
\* records.ts, deleteSelected(): newRecords is emptied before a re-fetch,
\* "otherwise we could end up with duplicate records that cause JS errors due
\* to svelte's keyed each block".
NoDuplicateRowKeys ==
    \A r \in DOMAIN newRows : newRows[r].pk \notin DOMAIN saved

\* records.ts, createOrUpdateRecord(): "check current values to ensure another
\* row has not been created".
OneRecordPerNewRow == \A r \in RowIds : inserted[r] <= 1

\* records.ts, deleteSelected(): "In that case we delete the unsaved records
\* anyway"; the rows are counted among the deleted ones.
DeletedNewRowsAreNotStored == \A r \in reported \cap RowIds : inserted[r] = 0

\* meta.ts, rowCreationStatus: "Rows that are not newly added rows will never
\* have entries here."
CreationStatusIsForNewRows ==
    deletion.stage = "none" => DOMAIN creation \cap DOMAIN saved \subseteq NewKeys

\* mathesar/rpc/records.py, RecordList: "count: The total number of records in
\* the table."
CountIsTotal ==
    [][\A f \in fetches' \ fetches : f.st = "ok" => f.count = Cardinality(DOMAIN rows)]_vars

\* records.ts, deleteSelected(): "@returns the number of selected rows deleted".
DeleteSelectedReturns == deletion.stage # "none" ~> deletion.stage = "none"

=============================================================================

------------------------- MODULE RecordsDataProofs -------------------------
(***************************************************************************)
(* What TLAPS proves of RecordsData, for every value of its constants.     *)
(***************************************************************************)
EXTENDS RecordsData, FiniteSetTheorems, TLAPS

(***************************************************************************)
(* Maps.                                                                   *)
(***************************************************************************)
\* The empty map is a map between any two sets.
LEMMA EmptyIsMap == \A D, R : IsMap(Empty, D, R)
  BY DEF IsMap, Empty

\* Entering keys keeps a map's type.
LEMMA PutIsMap ==
  ASSUME NEW D, NEW R, NEW f, IsMap(f, D, R),
         NEW S \in SUBSET D, NEW v \in R
  PROVE  IsMap(Put(f, S, v), D, R)
  BY DEF IsMap, Put

\* Removing keys keeps a map's type.
LEMMA DropIsMap ==
  ASSUME NEW D, NEW R, NEW f, IsMap(f, D, R), NEW S
  PROVE  IsMap(Drop(f, S), D, R)
  BY DEF IsMap, Drop

\* A table stays finite when one row is entered, and when rows are removed.
LEMMA DomainsStayFinite ==
  ASSUME NEW f, IsFiniteSet(DOMAIN f), NEW k, NEW v, NEW S
  PROVE  /\ IsFiniteSet(DOMAIN Put(f, {k}, v))
         /\ IsFiniteSet(DOMAIN Drop(f, S))
<1>1. DOMAIN Put(f, {k}, v) = DOMAIN f \cup {k}
  BY DEF Put
<1>2. DOMAIN Drop(f, S) \subseteq DOMAIN f
  BY DEF Drop
<1> QED
  BY <1>1, <1>2, FS_AddElement, FS_Subset

\* The count that goes with a page is a number.
LEMMA CountIsNat ==
  ASSUME IsFiniteSet(DOMAIN rows), NEW p
  PROVE  CountWith(p) \in Nat
  BY FS_CardinalityType DEF CountWith

(***************************************************************************)
(* Type correctness.                                                       *)
(***************************************************************************)
USE DEF Pks, NoPk, RowKeys, CallStates, RequestStates

LEMMA InitType == Init => TypeOK
<1> SUFFICES ASSUME Init PROVE TypeOK
  OBVIOUS
<1>1. ServerOK
  <2>1. IsFiniteSet(DOMAIN rows)
    BY FS_Interval, InitialRowsAssumption DEF Init
  <2> QED
    BY <2>1, InitialRowsAssumption, BlankAssumption DEF Init, ServerOK, IsMap
<1>2. CallsOK /\ CountsOK
  BY EmptyIsMap, PagesAssumption DEF Init, CallsOK, CountsOK, FetchCall, Pages
<1>3. ShownOK /\ UserOK
  <2>1. IsMap(saved, Pks, Values) /\ 0 \in Pages
    BY EmptyIsMap, PagesAssumption DEF Init, Pages
  <2> QED
    BY <2>1 DEF Init, ShownOK, UserOK
<1>5. NewRowsOK /\ StatusesOK
  BY EmptyIsMap DEF Init, NewRowsOK, StatusesOK
<1>4. DeletionOK
  BY DEF Init, DeletionOK, Deletions, NoDeletion
<1> QED
  BY <1>1, <1>2, <1>3, <1>4, <1>5 DEF TypeOK

\* Sending a request for the records.
LEMMA SendFetchType ==
  ASSUME CallsOK, CountsOK, NEW p \in Pages, SendFetch(p)
  PROVE  /\ fetchCount' \in Nat
         /\ \A f \in fetches' : FetchCall(f)
  BY EmptyIsMap DEF CallsOK, CountsOK, SendFetch, CancelFetch, FetchCall

\* fetch() with its default options, whatever else the step does.
LEMMA FetchType ==
  ASSUME TypeOK, NEW p \in Pages, Fetch(p),
         UNCHANGED <<creates, patches, createCount, patchCount, deleteCount,
                     saved, shownPage, total>>
  PROVE  CallsOK' /\ CountsOK' /\ ShownOK' /\ NewRowsOK' /\ StatusesOK'
<1>1. CallsOK' /\ CountsOK'
  BY SendFetchType DEF TypeOK, CallsOK, CountsOK, Fetch
<1>2. ShownOK' /\ NewRowsOK' /\ StatusesOK'
  BY EmptyIsMap DEF TypeOK, ShownOK, NewRowsOK, StatusesOK, Fetch
<1> QED
  BY <1>1, <1>2

LEMMA SetPageType == TypeOK /\ (\E p \in Pages : SetPage(p)) => TypeOK'
  BY FetchType DEF TypeOK, SetPage, server, ServerOK, UserOK, DeletionOK

LEMMA RefreshType == TypeOK /\ Refresh => TypeOK'
  BY FetchType DEF TypeOK, Refresh, server, user, ServerOK, UserOK, DeletionOK

\* createRecord() up to its await.
LEMMA CreateRecordType ==
  ASSUME TypeOK, NEW r \in RowIds, NEW v \in Values, CreateRecord(r, v)
  PROVE  /\ creates' \subseteq CreateCalls /\ createCount' \in Nat
         /\ \A c \in creates' : c.st # "sent" => c.pk \in Pks
         /\ IsMap(creation', RowKeys, RequestStates) /\ cellErrors' \subseteq RowIds
<1>1. IsMap(Put(creation, {r}, "processing"), RowKeys, RequestStates)
  BY PutIsMap DEF TypeOK, StatusesOK
<1>2. /\ CancelWrites(creates, {c \in creates : c.row = r}) \subseteq CreateCalls
      /\ \A d \in CancelWrites(creates, {c \in creates : c.row = r}) :
            d.st # "sent" => d.pk \in Pks
  BY DEF TypeOK, CallsOK, CreateCalls, CancelWrites
<1>3. createCount + 1 \in Nat /\ creates \subseteq CreateCalls /\ cellErrors \subseteq RowIds
  BY DEF TypeOK, CallsOK, CountsOK, StatusesOK
<1>4. [id |-> createCount + 1, row |-> r, val |-> v, st |-> "sent", pk |-> NoPk,
       live |-> TRUE] \in CreateCalls
  BY <1>3 DEF CreateCalls
<1>5. CASE Required /\ v = Blank
  BY <1>3, <1>5 DEF TypeOK, CallsOK, CountsOK, StatusesOK, CreateRecord
<1>6. CASE ~(Required /\ v = Blank)
  <2> DEFINE new == [id |-> createCount + 1, row |-> r, val |-> v, st |-> "sent",
                     pk |-> NoPk, live |-> TRUE]
  <2>1. /\ creates' = CancelWrites(creates, {c \in creates : c.row = r}) \cup {new}
        /\ createCount' = createCount + 1 /\ cellErrors' = cellErrors \ {r}
        /\ creation' = Put(creation, {r}, "processing")
    BY <1>6 DEF CreateRecord
  <2>2. new \in CreateCalls /\ new.st = "sent"
    BY <1>4
  <2> HIDE DEF new
  <2> QED
    BY <1>1, <1>2, <1>3, <2>1, <2>2
<1> QED
  BY <1>5, <1>6

\* updateCell() up to its await.
LEMMA UpdateCellType ==
  ASSUME TypeOK, NEW k \in Pks, NEW v \in Values, UpdateCell(k, v)
  PROVE  /\ patches' \subseteq PatchCalls /\ patchCount' \in Nat
         /\ IsMap(modification', Pks, RequestStates)
<1>1. IsMap(Put(modification, {k}, "processing"), Pks, RequestStates)
  BY PutIsMap DEF TypeOK, StatusesOK
<1>2. CancelWrites(patches, {p \in patches : p.pk = k}) \subseteq PatchCalls
  BY DEF TypeOK, CallsOK, PatchCalls, CancelWrites
<1>3. patchCount + 1 \in Nat
  BY DEF TypeOK, CountsOK
<1>4. [id |-> patchCount + 1, pk |-> k, val |-> v, st |-> "sent", live |-> TRUE]
        \in PatchCalls
  BY <1>3 DEF PatchCalls
<1> QED
  BY <1>1, <1>2, <1>3, <1>4 DEF UpdateCell

LEMMA AddRowType ==
  ASSUME TypeOK, NEW r \in RowIds, NEW v \in Values, AddRow(r, v)
  PROVE  TypeOK'
<1>1. [pk |-> NoPk, val |-> v] \in [pk : Nat, val : Values]
  OBVIOUS
<1>2. NewRowsOK'
  BY <1>1, PutIsMap DEF TypeOK, NewRowsOK, AddRow
<1>3. CallsOK' /\ CountsOK' /\ StatusesOK'
  BY CreateRecordType DEF TypeOK, CallsOK, CountsOK, StatusesOK, AddRow
<1>4. ServerOK' /\ ShownOK' /\ UserOK' /\ DeletionOK'
  BY DEF TypeOK, ServerOK, ShownOK, UserOK, DeletionOK, AddRow, server, shown
<1> QED
  BY <1>2, <1>3, <1>4 DEF TypeOK

LEMMA EditNewRowType ==
  ASSUME TypeOK, NEW r \in RowIds, NEW v \in Values, EditNewRow(r, v)
  PROVE  TypeOK'
<1>1. NewRowsOK' /\ newRows[r].pk \in Nat
  BY DEF TypeOK, NewRowsOK, EditNewRow, IsMap
<1>2. CallsOK' /\ CountsOK' /\ StatusesOK'
  <2>1. CASE newRows[r].pk = NoPk
    BY <2>1, CreateRecordType DEF TypeOK, CallsOK, CountsOK, StatusesOK, EditNewRow
  <2>2. CASE newRows[r].pk # NoPk
    <3>1. UpdateCell(newRows[r].pk, v) /\ newRows[r].pk \in Pks
      BY <1>1, <2>2 DEF EditNewRow
    <3> QED
      BY <2>2, <3>1, UpdateCellType
      DEF TypeOK, CallsOK, CountsOK, StatusesOK, EditNewRow
  <2> QED
    BY <2>1, <2>2
<1>3. ServerOK' /\ ShownOK' /\ UserOK' /\ DeletionOK'
  BY DEF TypeOK, ServerOK, ShownOK, UserOK, DeletionOK, EditNewRow, server, shown, user
<1> QED
  BY <1>1, <1>2, <1>3 DEF TypeOK

LEMMA EditSavedRowType ==
  ASSUME TypeOK, NEW k \in DOMAIN saved, NEW v \in Values, EditSavedRow(k, v)
  PROVE  TypeOK'
<1>1. ShownOK' /\ k \in Pks
  BY DEF TypeOK, ShownOK, EditSavedRow, IsMap
<1>2. CallsOK' /\ CountsOK' /\ StatusesOK'
  BY <1>1, UpdateCellType DEF TypeOK, CallsOK, CountsOK, StatusesOK, EditSavedRow
<1>3. ServerOK' /\ NewRowsOK' /\ UserOK' /\ DeletionOK'
  BY DEF TypeOK, ServerOK, NewRowsOK, UserOK, DeletionOK, EditSavedRow, server, user
<1> QED
  BY <1>1, <1>2, <1>3 DEF TypeOK

\* The keys on screen are keys.
LEMMA ShownKeysType == TypeOK => ShownKeys \subseteq RowKeys
  BY DEF TypeOK, ShownOK, NewRowsOK, IsMap, ShownKeys, NewKeys, KeyOf

\* deleteSelected() from its RPC to its fetch.
LEMMA RefetchType ==
  ASSUME TypeOK, NEW d \in Deletions, RefetchAfterDelete(d)
  PROVE  /\ deletion' \in Deletions /\ NewRowsOK' /\ fetchCount' \in Nat
         /\ \A f \in fetches' : FetchCall(f)
<1>1. DOMAIN saved \subseteq Pks /\ fetchCount + 1 \in Nat /\ page \in Pages
  BY DEF TypeOK, ShownOK, CountsOK, UserOK, IsMap
<1>2. deletion' \in Deletions
  BY <1>1 DEF RefetchAfterDelete, Deletions
<1>3. NewRowsOK'
  BY EmptyIsMap DEF RefetchAfterDelete, NewRowsOK
<1> QED
  BY <1>1, <1>2, <1>3, SendFetchType DEF RefetchAfterDelete, TypeOK

LEMMA DeleteSelectedType ==
  ASSUME TypeOK, NEW keys \in SUBSET ShownKeys, DeleteSelected(keys)
  PROVE  TypeOK'
<1> DEFINE d == [NoDeletion EXCEPT !.stage = "deleting", !.keys = keys]
<1>1. d \in Deletions /\ keys \subseteq RowKeys
  BY ShownKeysType DEF Deletions, NoDeletion
<1>2. deletion' \in Deletions /\ NewRowsOK' /\ fetchCount' \in Nat
      /\ \A f \in fetches' : FetchCall(f)
  <2>1. CASE keys \cap Pks = {}
    BY <1>1, <2>1, RefetchType DEF DeleteSelected
  <2>2. CASE keys \cap Pks # {}
    BY <1>1, <2>2 DEF DeleteSelected, TypeOK, CallsOK, CountsOK, NewRowsOK
  <2> QED
    BY <2>1, <2>2
<1>3. IsMap(deletionStatus', RowKeys, RequestStates)
  BY <1>1, PutIsMap DEF DeleteSelected, TypeOK, StatusesOK
<1>4. CallsOK' /\ CountsOK' /\ StatusesOK' /\ DeletionOK'
  BY <1>2, <1>3 DEF DeleteSelected, TypeOK, CallsOK, CountsOK, StatusesOK, DeletionOK
<1>5. ServerOK' /\ ShownOK' /\ UserOK'
  BY DEF DeleteSelected, TypeOK, ServerOK, ShownOK, UserOK, server, shown, user
<1> QED
  BY <1>2, <1>4, <1>5 DEF TypeOK

LEMMA DestroyType == TypeOK /\ Destroy => TypeOK'
  BY DEF TypeOK, Destroy, CancelFetch, ServerOK, CallsOK, CountsOK, ShownOK, NewRowsOK,
         UserOK, StatusesOK, DeletionOK, server, counts, shown, statuses

LEMMA ServeListType ==
  ASSUME TypeOK, NEW f \in fetches, NEW o \in Outcomes, ServeList(f, o)
  PROVE  TypeOK'
<1>1. IsMap([k \in RowsOnPage(f.page) |-> rows[k]], Pks, Values)
  BY DEF TypeOK, ServerOK, IsMap, RowsOnPage
<1>2. CountWith(f.page) \in Nat /\ Served(o) \in CallStates
  BY CountIsNat DEF TypeOK, ServerOK, Served
<1>3. FetchCall(f)
  BY DEF TypeOK, CallsOK
<1>4. CallsOK'
  BY <1>1, <1>2, <1>3 DEF TypeOK, CallsOK, ServeList, FetchCall
<1>5. /\ ServerOK' /\ CountsOK' /\ ShownOK' /\ NewRowsOK' /\ UserOK' /\ StatusesOK'
      /\ DeletionOK'
  BY DEF TypeOK, ServerOK, CountsOK, ShownOK, NewRowsOK, UserOK, StatusesOK, DeletionOK,
         ServeList, server, counts, shown, user, statuses
<1> QED
  BY <1>4, <1>5 DEF TypeOK

LEMMA ServeAddType ==
  ASSUME TypeOK, NEW c \in creates, NEW o \in Outcomes, ServeAdd(c, o)
  PROVE  TypeOK'
<1>1. c \in CreateCalls /\ nextPk \in Pks
  BY DEF TypeOK, CallsOK, ServerOK
<1>2. CallsOK'
  BY <1>1 DEF TypeOK, CallsOK, CreateCalls, ServeAdd, Served, Reply
<1>3. ServerOK'
  <2>1. IsMap(Put(rows, {nextPk}, c.val), Pks, Values)
    BY <1>1, PutIsMap DEF TypeOK, ServerOK, CreateCalls
  <2>2. IsFiniteSet(DOMAIN Put(rows, {nextPk}, c.val))
    BY DomainsStayFinite DEF TypeOK, ServerOK
  <2>3. nextPk' \in Pks /\ inserted' \in [RowIds -> Nat]
    BY <1>1 DEF TypeOK, ServerOK, CreateCalls, ServeAdd
  <2> QED
    BY <2>1, <2>2, <2>3 DEF TypeOK, ServerOK, ServeAdd
<1>4. /\ CountsOK' /\ ShownOK' /\ NewRowsOK' /\ UserOK' /\ StatusesOK' /\ DeletionOK'
  BY DEF TypeOK, CountsOK, ShownOK, NewRowsOK, UserOK, StatusesOK, DeletionOK,
         ServeAdd, counts, shown, user, statuses
<1> QED
  BY <1>2, <1>3, <1>4 DEF TypeOK

LEMMA ServePatchType ==
  ASSUME TypeOK, NEW p \in patches, NEW o \in Outcomes, ServePatch(p, o)
  PROVE  TypeOK'
<1>1. p \in PatchCalls
  BY DEF TypeOK, CallsOK
<1>2. CallsOK'
  BY <1>1 DEF TypeOK, CallsOK, PatchCalls, ServePatch, Served, Reply
<1>3. ServerOK'
  BY <1>1 DEF TypeOK, ServerOK, PatchCalls, ServePatch, IsMap
<1>4. /\ CountsOK' /\ ShownOK' /\ NewRowsOK' /\ UserOK' /\ StatusesOK' /\ DeletionOK'
  BY DEF TypeOK, CountsOK, ShownOK, NewRowsOK, UserOK, StatusesOK, DeletionOK,
         ServePatch, counts, shown, user, statuses
<1> QED
  BY <1>2, <1>3, <1>4 DEF TypeOK

LEMMA ServeDeleteType ==
  ASSUME TypeOK, NEW o \in Outcomes, ServeDelete(o)
  PROVE  TypeOK'
<1>1. ServerOK'
  BY DropIsMap, DomainsStayFinite DEF TypeOK, ServerOK, ServeDelete
<1>2. DeletionOK'
  BY DEF TypeOK, DeletionOK, Deletions, ServeDelete, Served
<1>3. /\ CallsOK' /\ CountsOK' /\ ShownOK' /\ NewRowsOK' /\ UserOK' /\ StatusesOK'
  BY DEF TypeOK, CallsOK, CountsOK, ShownOK, NewRowsOK, UserOK, StatusesOK, ServeDelete,
         counts, shown, user, statuses
<1> QED
  BY <1>1, <1>2, <1>3 DEF TypeOK

LEMMA HearListType ==
  ASSUME TypeOK, NEW f \in fetches, HearList(f)
  PROVE  TypeOK'
<1>1. FetchCall(f)
  BY DEF TypeOK, CallsOK
<1>2. ShownOK'
  BY <1>1 DEF TypeOK, ShownOK, HearList, ShowRows, ShowError, FetchCall
<1>3. IsMap(creation', RowKeys, RequestStates) /\ IsMap(deletionStatus', RowKeys, RequestStates)
  BY EmptyIsMap, DropIsMap
  DEF TypeOK, StatusesOK, HearList, FinishDelete, ClearAllStatusesAndErrorsForRows
<1>4. DeletionOK'
  <2>1. CASE deletion' = NoDeletion /\ reported' \in {reported, reported \cup deletion.keys}
    BY <2>1 DEF TypeOK, DeletionOK, Deletions, NoDeletion
  <2>2. CASE UNCHANGED <<deletion, reported>>
    BY <2>2 DEF TypeOK, DeletionOK
  <2> QED
    BY <2>1, <2>2 DEF HearList, FinishDelete
<1>5. /\ ServerOK' /\ CallsOK' /\ CountsOK' /\ NewRowsOK' /\ UserOK'
  BY DEF TypeOK, ServerOK, CallsOK, CountsOK, NewRowsOK, UserOK, HearList, server,
         counts, user
<1>6. StatusesOK'
  BY <1>3 DEF TypeOK, StatusesOK, HearList
<1> QED
  BY <1>2, <1>4, <1>5, <1>6 DEF TypeOK

LEMMA HearAddType ==
  ASSUME TypeOK, NEW c \in creates, HearAdd(c)
  PROVE  TypeOK'
<1>1. c \in CreateCalls /\ c.pk \in Pks
  BY DEF TypeOK, CallsOK, HearAdd
<1>2. IsMap(creation', RowKeys, RequestStates)
  <2>1. /\ IsMap(CreatedStatus(c), RowKeys, RequestStates)
        /\ IsMap(Put(creation, {c.row}, "failure"), RowKeys, RequestStates)
    BY <1>1, PutIsMap, DropIsMap DEF TypeOK, StatusesOK, CreateCalls, CreatedStatus
  <2> QED
    BY <2>1 DEF HearAdd
<1>3. NewRowsOK' /\ total' \in Nat
  BY <1>1 DEF TypeOK, ShownOK, NewRowsOK, IsMap, HearAdd, CreateCalls
<1>4. ShownOK' /\ StatusesOK'
  BY <1>2, <1>3 DEF TypeOK, ShownOK, StatusesOK, HearAdd
<1>5. /\ ServerOK' /\ CallsOK' /\ CountsOK' /\ UserOK' /\ DeletionOK'
  BY DEF TypeOK, ServerOK, CallsOK, CountsOK, UserOK, DeletionOK, HearAdd, server,
         counts, user
<1> QED
  BY <1>3, <1>4, <1>5 DEF TypeOK

LEMMA HearPatchType ==
  ASSUME TypeOK, NEW p \in patches, HearPatch(p)
  PROVE  TypeOK'
<1>1. p \in PatchCalls
  BY DEF TypeOK, CallsOK
<1>2. IsMap(modification', Pks, RequestStates)
  BY <1>1, PutIsMap DEF TypeOK, StatusesOK, PatchCalls, HearPatch
<1>3. NewRowsOK' /\ ShownOK'
  BY <1>1 DEF TypeOK, ShownOK, NewRowsOK, IsMap, HearPatch, PatchCalls
<1>4. StatusesOK'
  BY <1>2 DEF TypeOK, StatusesOK, HearPatch
<1>5. /\ ServerOK' /\ CallsOK' /\ CountsOK' /\ UserOK' /\ DeletionOK'
  BY DEF TypeOK, ServerOK, CallsOK, CountsOK, UserOK, DeletionOK, HearPatch, server,
         counts, user
<1> QED
  BY <1>3, <1>4, <1>5 DEF TypeOK

LEMMA HearDeleteType == TypeOK /\ HearDelete => TypeOK'
<1> SUFFICES ASSUME TypeOK, HearDelete PROVE TypeOK'
  OBVIOUS
<1>1. [deletion EXCEPT !.failed = deletion.st = "err"] \in Deletions
  BY DEF TypeOK, DeletionOK, Deletions
<1>2. /\ deletion' \in Deletions /\ NewRowsOK' /\ fetchCount' \in Nat
      /\ \A f \in fetches' : FetchCall(f)
  BY <1>1, RefetchType DEF HearDelete
<1>3. CallsOK' /\ CountsOK' /\ DeletionOK'
  BY <1>2 DEF TypeOK, CallsOK, CountsOK, DeletionOK, HearDelete
<1>4. ServerOK' /\ ShownOK' /\ UserOK' /\ StatusesOK'
  BY DEF TypeOK, ServerOK, ShownOK, UserOK, StatusesOK, HearDelete, server, shown, user,
         statuses
<1> QED
  BY <1>2, <1>3, <1>4 DEF TypeOK

\* Every step of the program keeps the type of the state.
LEMMA NextType == TypeOK /\ [Next]_vars => TypeOK'
<1> SUFFICES ASSUME TypeOK, [Next]_vars PROVE TypeOK'
  OBVIOUS
<1>1. CASE UserStep
  BY <1>1, SetPageType, RefreshType, AddRowType, EditNewRowType, EditSavedRowType,
     DeleteSelectedType, DestroyType DEF UserStep
<1>2. CASE ServeAnyList \/ ServeAnyAdd \/ ServeAnyPatch \/ ServeAnyDelete
  BY <1>2, ServeListType, ServeAddType, ServePatchType, ServeDeleteType
  DEF ServeAnyList, ServeAnyAdd, ServeAnyPatch, ServeAnyDelete
<1>3. CASE HearAnyList \/ HearAnyAdd \/ HearAnyPatch \/ HearDelete
  BY <1>3, HearListType, HearAddType, HearPatchType, HearDeleteType
  DEF HearAnyList, HearAnyAdd, HearAnyPatch
<1>4. CASE UNCHANGED vars
  BY <1>4 DEF TypeOK, ServerOK, CallsOK, CountsOK, ShownOK, NewRowsOK, UserOK,
              StatusesOK, DeletionOK, vars, server, counts, shown, user, statuses
<1> QED
  BY <1>1, <1>2, <1>3, <1>4 DEF Next

\* Type correctness, with the facts the code relies on without checking them: a
\* record that is answered has a key, and the table is finite.
THEOREM TypeCorrect == Spec => []TypeOK
<1>1. Init => TypeOK
  BY InitType
<1>2. TypeOK /\ [Next]_vars => TypeOK'
  BY NextType
<1> QED
  BY <1>1, <1>2, PTL DEF Spec

(***************************************************************************)
(* One request for records is listened to, so that the store shows the     *)
(* answer to what was asked last.                                          *)
(***************************************************************************)
\* The request that is cancelled is the only one there is.
LEMMA CancelFetchLeavesNone == OnlyNewestIsHeard => CancelFetch(fetches) = {}
  BY DEF OnlyNewestIsHeard, CancelFetch

\* After fetch() there is one request, for the page that was asked for.
LEMMA SendFetchIsNewest ==
  ASSUME OnlyNewestIsHeard, NEW p, SendFetch(p)
  PROVE  \E f : /\ fetches' = {f}
                /\ f.id = fetchCount' /\ f.page = p /\ f.st = "sent"
                /\ DOMAIN f.rows = {}
<1> DEFINE new == [id |-> fetchCount + 1, page |-> p, st |-> "sent",
                   rows |-> Empty, count |-> 0]
<1>1. fetches' = {new} /\ fetchCount' = fetchCount + 1
  BY CancelFetchLeavesNone DEF SendFetch
<1>2. new.id = fetchCount' /\ new.page = p /\ new.st = "sent" /\ DOMAIN new.rows = {}
  BY <1>1 DEF Empty
<1> QED
  BY <1>1, <1>2

LEMMA InitNewest == Init => OnlyNewestIsHeard
  BY DEF Init, OnlyNewestIsHeard

LEMMA UserStepNewest == OnlyNewestIsHeard /\ UserStep => OnlyNewestIsHeard'
<1> SUFFICES ASSUME OnlyNewestIsHeard, UserStep PROVE OnlyNewestIsHeard'
  OBVIOUS
<1>1. ASSUME NEW p \in Pages, SetPage(p) PROVE OnlyNewestIsHeard'
  BY <1>1, SendFetchIsNewest DEF SetPage, Fetch, OnlyNewestIsHeard
<1>2. CASE Refresh
  BY <1>2, SendFetchIsNewest DEF Refresh, Fetch, user, OnlyNewestIsHeard
<1>3. ASSUME NEW keys \in SUBSET ShownKeys, DeleteSelected(keys)
      PROVE  OnlyNewestIsHeard'
  <2>1. page' = page
    BY <1>3 DEF DeleteSelected, user
  <2>2. CASE SendFetch(page)
    BY <2>1, <2>2, SendFetchIsNewest DEF OnlyNewestIsHeard
  <2>3. CASE UNCHANGED <<fetches, fetchCount>>
    BY <2>1, <2>3 DEF OnlyNewestIsHeard
  <2> QED
    BY <1>3, <2>2, <2>3 DEF DeleteSelected, RefetchAfterDelete
<1>4. CASE Destroy
  BY <1>4 DEF Destroy, CancelFetch, counts, OnlyNewestIsHeard
<1>5. ASSUME UNCHANGED <<fetches, fetchCount, page>> PROVE OnlyNewestIsHeard'
  BY <1>5 DEF OnlyNewestIsHeard
<1>6. ASSUME NEW r \in RowIds, NEW v \in Values, AddRow(r, v) \/ EditNewRow(r, v)
      PROVE  OnlyNewestIsHeard'
  BY <1>5, <1>6 DEF AddRow, EditNewRow, user
<1>7. ASSUME NEW k \in DOMAIN saved, NEW v \in Values, EditSavedRow(k, v)
      PROVE  OnlyNewestIsHeard'
  BY <1>5, <1>7 DEF EditSavedRow, user
<1> QED
  BY <1>1, <1>2, <1>3, <1>4, <1>6, <1>7 DEF UserStep

LEMMA NextNewest == OnlyNewestIsHeard /\ [Next]_vars => OnlyNewestIsHeard'
<1> SUFFICES ASSUME OnlyNewestIsHeard, [Next]_vars PROVE OnlyNewestIsHeard'
  OBVIOUS
<1>1. ASSUME UNCHANGED <<fetches, fetchCount, page>> PROVE OnlyNewestIsHeard'
  BY <1>1 DEF OnlyNewestIsHeard
<1>2. CASE ServeAnyList
  BY <1>2 DEF ServeAnyList, ServeList, counts, user, OnlyNewestIsHeard
<1>3. CASE ServeAnyAdd \/ ServeAnyPatch \/ ServeAnyDelete
  BY <1>1, <1>3 DEF ServeAnyAdd, ServeAdd, ServeAnyPatch, ServePatch, ServeAnyDelete,
                    ServeDelete, counts, user
<1>4. CASE HearAnyList
  BY <1>4 DEF HearAnyList, HearList, counts, user, OnlyNewestIsHeard
<1>5. CASE HearAnyAdd \/ HearAnyPatch
  BY <1>1, <1>5 DEF HearAnyAdd, HearAdd, HearAnyPatch, HearPatch, counts, user
<1>6. CASE HearDelete
  BY <1>6, SendFetchIsNewest DEF HearDelete, RefetchAfterDelete, user, OnlyNewestIsHeard
<1>7. CASE UNCHANGED vars
  BY <1>1, <1>7 DEF vars, counts, user
<1> QED
  BY <1>2, <1>3, <1>4, <1>5, <1>6, <1>7, UserStepNewest DEF Next

\* One request for records is listened to, the newest, for the page the user is on.
THEOREM NewestIsHeard == Spec => []OnlyNewestIsHeard
<1>1. Init => OnlyNewestIsHeard
  BY InitNewest
<1>2. OnlyNewestIsHeard /\ [Next]_vars => OnlyNewestIsHeard'
  BY NextNewest
<1> QED
  BY <1>1, <1>2, PTL DEF Spec

\* A step that leaves the parameters and what is shown alone is no step of
\* LatestWins.
LEMMA OtherStepsStutter ==
  ASSUME UNCHANGED <<page, shown>>
  PROVE  UNCHANGED <<page, shownPage, state>>
  BY DEF shown

LEMMA NextImplements ==
  TypeOK /\ OnlyNewestIsHeard /\ [Next]_vars
     => [Promise!Next]_<<page, shownPage, state>>
<1> SUFFICES ASSUME TypeOK, OnlyNewestIsHeard, [Next]_vars
             PROVE  [Promise!Next]_<<page, shownPage, state>>
  OBVIOUS
<1>1. page \in Pages
  BY DEF TypeOK, UserOK
<1>2. ASSUME NEW p \in Pages, page' = p, state' = "loading", shownPage' = shownPage
      PROVE  Promise!Ask
  BY <1>2 DEF Promise!Ask
<1>3. CASE \E p \in Pages : SetPage(p)
  BY <1>2, <1>3 DEF SetPage, Fetch, Promise!Next
<1>4. CASE Refresh
  BY <1>1, <1>2, <1>4 DEF Refresh, Fetch, user, Promise!Next
<1>5. CASE \/ \E r \in RowIds, v \in Values : AddRow(r, v) \/ EditNewRow(r, v)
           \/ \E k \in DOMAIN saved, v \in Values : EditSavedRow(k, v)
  BY <1>5 DEF AddRow, EditNewRow, EditSavedRow, shown, user
<1>6. CASE Destroy \/ \E keys \in SUBSET ShownKeys : DeleteSelected(keys)
  BY <1>6, OtherStepsStutter DEF Destroy, DeleteSelected, user
<1>7. CASE ServeAnyList \/ ServeAnyAdd \/ ServeAnyPatch \/ ServeAnyDelete \/ HearDelete
  BY <1>7, OtherStepsStutter DEF ServeAnyList, ServeList, ServeAnyAdd, ServeAdd, ServeAnyPatch,
           ServePatch, ServeAnyDelete, ServeDelete, HearDelete, user
<1>8. ASSUME NEW f \in fetches, HearList(f)
      PROVE  [Promise!Next]_<<page, shownPage, state>>
  <2>1. page' = page /\ f.page = page
    BY <1>8 DEF HearList, user, OnlyNewestIsHeard
  <2>2. CASE ShowRows(f)
    BY <2>1, <2>2 DEF ShowRows, Promise!Answer, Promise!Next
  <2>3. CASE ShowError(f)
    BY <2>1, <2>3 DEF ShowError, Promise!Fail, Promise!Next
  <2> QED
    BY <1>8, <2>2, <2>3 DEF HearList
<1>9. CASE HearAnyAdd \/ HearAnyPatch
  BY <1>9 DEF HearAnyAdd, HearAdd, HearAnyPatch, HearPatch, user
<1>10. CASE UNCHANGED vars
  BY <1>10, OtherStepsStutter DEF vars, user
<1> QED
  BY <1>3, <1>4, <1>5, <1>6, <1>7, <1>8, <1>9, <1>10 DEF Next, UserStep, HearAnyList

\* The record store keeps the promise of LatestWins, the silent refetch of
\* deleteSelected(), failed requests and overtaking ones included.
THEOREM Implementation == Spec => ImplementsLatestWins
<1>1. Init => Promise!Init
  BY PagesAssumption DEF Init, Promise!Init, Pages
<1>2. TypeOK /\ OnlyNewestIsHeard /\ [Next]_vars
         => [Promise!Next]_<<page, shownPage, state>>
  BY NextImplements
<1> QED
  BY <1>1, <1>2, TypeCorrect, NewestIsHeard, PTL
  DEF Spec, ImplementsLatestWins, Promise!Spec

(***************************************************************************)
(* The spinner.                                                            *)
(***************************************************************************)
LEMMA NextLoading ==
  OnlyNewestIsHeard /\ LoadingIsAwaited /\ [Next]_vars => LoadingIsAwaited'
<1> SUFFICES ASSUME OnlyNewestIsHeard, LoadingIsAwaited, [Next]_vars
             PROVE  LoadingIsAwaited'
  OBVIOUS
<1>1. ASSUME UNCHANGED <<state, fetches, destroyed>> PROVE LoadingIsAwaited'
  BY <1>1 DEF LoadingIsAwaited
<1>2. ASSUME NEW p, SendFetch(p) PROVE LoadingIsAwaited'
  BY <1>2 DEF SendFetch, LoadingIsAwaited
<1>3. CASE UserStep
  <2>1. CASE Refresh \/ \E p \in Pages : SetPage(p)
    BY <1>2, <2>1 DEF Refresh, SetPage, Fetch
  <2>2. CASE \E keys \in SUBSET ShownKeys : DeleteSelected(keys)
    BY <1>1, <1>2, <2>2 DEF DeleteSelected, RefetchAfterDelete, shown, user
  <2>3. CASE \/ \E r \in RowIds, v \in Values : AddRow(r, v) \/ EditNewRow(r, v)
             \/ \E k \in DOMAIN saved, v \in Values : EditSavedRow(k, v)
    BY <1>1, <2>3 DEF AddRow, EditNewRow, EditSavedRow, shown, user
  <2>4. CASE Destroy
    BY <2>4 DEF Destroy, LoadingIsAwaited
  <2> QED
    BY <1>3, <2>1, <2>2, <2>3, <2>4 DEF UserStep
<1>4. CASE ServeAnyList
  BY <1>4 DEF ServeAnyList, ServeList, LoadingIsAwaited
<1>5. CASE ServeAnyAdd \/ ServeAnyPatch \/ ServeAnyDelete \/ HearAnyAdd \/ HearAnyPatch
  BY <1>1, <1>5 DEF ServeAnyAdd, ServeAdd, ServeAnyPatch, ServePatch, ServeAnyDelete,
           ServeDelete, HearAnyAdd, HearAdd, HearAnyPatch, HearPatch, shown, user
<1>6. CASE HearAnyList
  BY <1>6 DEF HearAnyList, HearList, ShowRows, ShowError, LoadingIsAwaited
<1>7. CASE HearDelete
  BY <1>2, <1>7 DEF HearDelete, RefetchAfterDelete
<1>8. CASE UNCHANGED vars
  BY <1>1, <1>8 DEF vars, shown, user
<1> QED
  BY <1>3, <1>4, <1>5, <1>6, <1>7, <1>8 DEF Next

\* While the page is loading, a request that is listened to will end it.
THEOREM SpinnerIsAwaited == Spec => []LoadingIsAwaited
<1>1. Init => LoadingIsAwaited
  BY DEF Init, LoadingIsAwaited
<1>2. OnlyNewestIsHeard /\ LoadingIsAwaited /\ [Next]_vars => LoadingIsAwaited'
  BY NextLoading
<1> QED
  BY <1>1, <1>2, NewestIsHeard, PTL DEF Spec

(***************************************************************************)
(* The statuses of rows and cells.  For the writes of one kind: one is     *)
(* listened to for each row, a row that is processing has one, and a row   *)
(* that has one is processing, unless its statuses were cleared.           *)
(***************************************************************************)
CreationInv ==
    /\ \A c, d \in creates : c.live /\ d.live /\ c.row = d.row => c = d
    /\ \A k \in DOMAIN creation : creation[k] = "processing" =>
           \E c \in creates : c.live /\ c.row = k
    /\ \A c \in creates : c.live /\ c.row \in DOMAIN creation =>
           creation[c.row] = "processing"
ModificationInv ==
    /\ \A p, q \in patches : p.live /\ q.live /\ p.pk = q.pk => p = q
    /\ \A k \in DOMAIN modification : modification[k] = "processing" =>
           \E p \in patches : p.live /\ p.pk = k
    /\ \A p \in patches : p.live /\ p.pk \in DOMAIN modification =>
           modification[p.pk] = "processing"
DeletionInv ==
    \A k \in DOMAIN deletionStatus :
       deletionStatus[k] = "processing" => deletion.stage # "none"
StatusInv == CreationInv /\ ModificationInv /\ DeletionInv

\* createRecord(): the new request takes the place of the row's old one.
LEMMA CreateRecordStatus ==
  ASSUME TypeOK, CreationInv, NEW r \in RowIds, NEW v \in Values, CreateRecord(r, v)
  PROVE  CreationInv'
<1>1. CASE Required /\ v = Blank
  BY <1>1 DEF CreateRecord, CreationInv
<1>2. CASE ~(Required /\ v = Blank)
  <2> DEFINE new == [id |-> createCount + 1, row |-> r, val |-> v, st |-> "sent",
                     pk |-> NoPk, live |-> TRUE]
             kept == CancelWrites(creates, {c \in creates : c.row = r})
  <2>1. creates' = kept \cup {new} /\ creation' = Put(creation, {r}, "processing")
    BY <1>2 DEF CreateRecord
  <2>2. new.live /\ new.row = r
    OBVIOUS
  <2>3. \A c \in kept : c.live => c \in creates /\ c.row # r
    BY DEF TypeOK, CallsOK, CreateCalls, CancelWrites
  <2>4. \A c \in creates : c.row # r => c \in kept
    BY DEF CancelWrites
  <2> HIDE DEF new, kept
  <2>5. \A c, d \in creates' : c.live /\ d.live /\ c.row = d.row => c = d
    BY <2>1, <2>2, <2>3 DEF CreationInv
  <2>6. \A k \in DOMAIN creation' : creation'[k] = "processing" =>
           \E c \in creates' : c.live /\ c.row = k
    BY <2>1, <2>2, <2>4 DEF CreationInv, Put
  <2>7. \A c \in creates' : c.live /\ c.row \in DOMAIN creation' =>
           creation'[c.row] = "processing"
    BY <2>1, <2>2, <2>3 DEF CreationInv, Put
  <2> QED
    BY <2>5, <2>6, <2>7 DEF CreationInv
<1> QED
  BY <1>1, <1>2

\* updateCell(): the new request takes the place of the cell's old one.
LEMMA UpdateCellStatus ==
  ASSUME TypeOK, ModificationInv, NEW k \in Pks, NEW v \in Values, UpdateCell(k, v)
  PROVE  ModificationInv'
<1> DEFINE new == [id |-> patchCount + 1, pk |-> k, val |-> v, st |-> "sent",
                   live |-> TRUE]
           kept == CancelWrites(patches, {p \in patches : p.pk = k})
<1>1. patches' = kept \cup {new} /\ modification' = Put(modification, {k}, "processing")
  BY DEF UpdateCell
<1>2. new.live /\ new.pk = k
  OBVIOUS
<1>3. \A p \in kept : p.live => p \in patches /\ p.pk # k
  BY DEF TypeOK, CallsOK, PatchCalls, CancelWrites
<1>4. \A p \in patches : p.pk # k => p \in kept
  BY DEF CancelWrites
<1> HIDE DEF new, kept
<1>5. \A p, q \in patches' : p.live /\ q.live /\ p.pk = q.pk => p = q
  BY <1>1, <1>2, <1>3 DEF ModificationInv
<1>6. \A j \in DOMAIN modification' : modification'[j] = "processing" =>
         \E p \in patches' : p.live /\ p.pk = j
  BY <1>1, <1>2, <1>4 DEF ModificationInv, Put
<1>7. \A p \in patches' : p.live /\ p.pk \in DOMAIN modification' =>
         modification'[p.pk] = "processing"
  BY <1>1, <1>2, <1>3 DEF ModificationInv, Put
<1> QED
  BY <1>5, <1>6, <1>7 DEF ModificationInv

\* The statuses cleared by fetch() and by a deletion that has ended.
LEMMA ClearedStatus ==
  /\ DOMAIN creation' = {} /\ CreationInv /\ UNCHANGED creates => CreationInv'
  /\ DOMAIN modification' = {} /\ ModificationInv /\ UNCHANGED patches => ModificationInv'
  /\ DOMAIN deletionStatus' = {} => DeletionInv'
  /\ \A S : creation' = Drop(creation, S) /\ CreationInv /\ UNCHANGED creates
               => CreationInv'
  BY DEF CreationInv, ModificationInv, DeletionInv, Drop

LEMMA ServeAddStatus ==
  ASSUME TypeOK, CreationInv, NEW c \in creates, NEW o, ServeAdd(c, o),
         UNCHANGED creation
  PROVE  CreationInv'
<1> DEFINE reply == [c EXCEPT !.st = Served(o), !.pk = nextPk]
<1>1. reply.live = c.live /\ reply.row = c.row
  BY DEF TypeOK, CallsOK, CreateCalls
<1>2. creates' = (creates \ {c}) \cup (IF c.live THEN {reply} ELSE {})
  BY <1>1 DEF ServeAdd, Reply
<1> HIDE DEF reply
<1> QED
  BY <1>1, <1>2 DEF CreationInv

LEMMA ServePatchStatus ==
  ASSUME TypeOK, ModificationInv, NEW p \in patches, NEW o, ServePatch(p, o),
         UNCHANGED modification
  PROVE  ModificationInv'
<1> DEFINE reply == [p EXCEPT !.st = IF p.pk \in DOMAIN rows THEN Served(o) ELSE "err"]
<1>1. reply.live = p.live /\ reply.pk = p.pk
  BY DEF TypeOK, CallsOK, PatchCalls
<1>2. patches' = (patches \ {p}) \cup (IF p.live THEN {reply} ELSE {})
  BY <1>1 DEF ServePatch, Reply
<1> HIDE DEF reply
<1> QED
  BY <1>1, <1>2 DEF ModificationInv

\* createRecord() after its await: the key that gets a status is no identifier.
LEMMA HearAddStatus ==
  ASSUME TypeOK, CreationInv, NEW c \in creates, HearAdd(c)
  PROVE  CreationInv'
<1>1. /\ creates' = creates \ {c} /\ c.live /\ c.row \in RowIds
      /\ \A d \in creates : d.row \in RowIds
  BY DEF HearAdd, TypeOK, CallsOK, CreateCalls
<1>2. CASE creation' = CreatedStatus(c) /\ c.pk \in Pks
  <2>1. c.pk \notin RowIds
    BY <1>2, RowIdsAssumption
  <2> QED
    BY <1>1, <1>2, <2>1 DEF CreationInv, CreatedStatus, Put, Drop
<1>3. CASE creation' = Put(creation, {c.row}, "failure")
  BY <1>1, <1>3 DEF CreationInv, Put
<1> QED
  BY <1>2, <1>3 DEF HearAdd, TypeOK, CallsOK

LEMMA HearPatchStatus ==
  ASSUME ModificationInv, NEW p \in patches, HearPatch(p)
  PROVE  ModificationInv'
<1>1. /\ patches' = patches \ {p} /\ p.live
      /\ \E s \in {"success", "failure"} : modification' = Put(modification, {p.pk}, s)
  BY DEF HearPatch
<1> QED
  BY <1>1 DEF ModificationInv, Put

LEMMA UserStepStatus == TypeOK /\ StatusInv /\ UserStep => StatusInv'
<1> SUFFICES ASSUME TypeOK, StatusInv, UserStep PROVE StatusInv'
  OBVIOUS
<1>1. CASE Refresh \/ \E p \in Pages : SetPage(p)
  BY <1>1, ClearedStatus DEF Refresh, SetPage, Fetch, Empty, StatusInv
<1>2. ASSUME NEW r \in RowIds, NEW v \in Values, AddRow(r, v) PROVE StatusInv'
  BY <1>2, CreateRecordStatus DEF AddRow, StatusInv, ModificationInv, DeletionInv
<1>3. ASSUME NEW r \in RowIds, NEW v \in Values, EditNewRow(r, v) PROVE StatusInv'
  <2>1. CASE newRows[r].pk = NoPk
    BY <1>3, <2>1, CreateRecordStatus
    DEF EditNewRow, StatusInv, ModificationInv, DeletionInv
  <2>2. CASE newRows[r].pk # NoPk
    <3>1. newRows[r].pk \in Pks
      BY <1>3, <2>2 DEF EditNewRow, TypeOK, NewRowsOK, IsMap
    <3> QED
      BY <1>3, <2>2, <3>1, UpdateCellStatus
      DEF EditNewRow, StatusInv, CreationInv, DeletionInv
  <2> QED
    BY <2>1, <2>2
<1>4. ASSUME NEW k \in DOMAIN saved, NEW v \in Values, EditSavedRow(k, v)
      PROVE  StatusInv'
  <2>1. k \in Pks
    BY DEF TypeOK, ShownOK, IsMap
  <2> QED
    BY <1>4, <2>1, UpdateCellStatus DEF EditSavedRow, StatusInv, CreationInv, DeletionInv
<1>5. ASSUME NEW keys \in SUBSET ShownKeys, DeleteSelected(keys) PROVE StatusInv'
  <2>1. deletion'.stage # "none"
    BY <1>5 DEF DeleteSelected, RefetchAfterDelete, NoDeletion
  <2> QED
    BY <1>5, <2>1 DEF DeleteSelected, StatusInv, CreationInv, ModificationInv, DeletionInv
<1>6. CASE Destroy
  BY <1>6 DEF Destroy, statuses, StatusInv, CreationInv, ModificationInv, DeletionInv
<1> QED
  BY <1>1, <1>2, <1>3, <1>4, <1>5, <1>6 DEF UserStep

LEMMA NextStatus == TypeOK /\ StatusInv /\ [Next]_vars => StatusInv'
<1> SUFFICES ASSUME TypeOK, StatusInv, [Next]_vars PROVE StatusInv'
  OBVIOUS
<1>1. CASE ServeAnyList
  BY <1>1 DEF ServeAnyList, ServeList, statuses, StatusInv, CreationInv, ModificationInv,
              DeletionInv
<1>2. CASE ServeAnyAdd
  BY <1>2, ServeAddStatus
  DEF ServeAnyAdd, ServeAdd, statuses, StatusInv, ModificationInv, DeletionInv
<1>3. CASE ServeAnyPatch
  BY <1>3, ServePatchStatus
  DEF ServeAnyPatch, ServePatch, statuses, StatusInv, CreationInv, DeletionInv
<1>4. CASE ServeAnyDelete
  <2>1. deletion'.stage = deletion.stage
    BY <1>4 DEF ServeAnyDelete, ServeDelete, TypeOK, DeletionOK, Deletions
  <2> QED
    BY <1>4, <2>1 DEF ServeAnyDelete, ServeDelete, statuses, StatusInv, CreationInv,
                      ModificationInv, DeletionInv
<1>5. ASSUME NEW f \in fetches, HearList(f) PROVE StatusInv'
  <2>1. ModificationInv'
    BY <1>5 DEF HearList, StatusInv, ModificationInv
  <2>2. CASE FinishDelete(deletion)
    <3>1. \E S : creation' = Drop(creation, S)
      <4>1. creation' = Drop(creation, deletion.savedKeys \cup SuccessRowKeys(deletion))
        BY <2>2 DEF FinishDelete, ClearAllStatusesAndErrorsForRows, Drop
      <4> QED
        BY <4>1
    <3>2. DOMAIN deletionStatus' = {} /\ UNCHANGED creates
      BY <1>5, <2>2 DEF FinishDelete, HearList, Empty
    <3> QED
      BY <2>1, <3>1, <3>2, ClearedStatus DEF StatusInv
  <2>3. CASE UNCHANGED <<creation, deletionStatus, deletion>>
    BY <1>5, <2>1, <2>3 DEF HearList, StatusInv, CreationInv, DeletionInv
  <2> QED
    BY <1>5, <2>2, <2>3 DEF HearList
<1>6. CASE HearAnyAdd
  BY <1>6, HearAddStatus DEF HearAnyAdd, HearAdd, StatusInv, ModificationInv, DeletionInv
<1>7. CASE HearAnyPatch
  BY <1>7, HearPatchStatus DEF HearAnyPatch, HearPatch, StatusInv, CreationInv, DeletionInv
<1>8. CASE HearDelete
  <2>1. deletion'.stage # "none"
    BY <1>8 DEF HearDelete, RefetchAfterDelete, TypeOK, DeletionOK, Deletions
  <2> QED
    BY <1>8, <2>1 DEF HearDelete, statuses, StatusInv, CreationInv, ModificationInv,
                      DeletionInv
<1>9. CASE UNCHANGED vars
  BY <1>9 DEF vars, statuses, StatusInv, CreationInv, ModificationInv, DeletionInv
<1> QED
  BY <1>1, <1>2, <1>3, <1>4, <1>5, <1>6, <1>7, <1>8, <1>9, UserStepStatus
  DEF Next, HearAnyList

LEMMA StatusInvariant == Spec => []StatusInv
<1>1. Init => StatusInv
  BY DEF Init, Empty, StatusInv, CreationInv, ModificationInv, DeletionInv
<1>2. TypeOK /\ StatusInv /\ [Next]_vars => StatusInv'
  BY NextStatus
<1> QED
  BY <1>1, <1>2, TypeCorrect, PTL DEF Spec

\* A row or cell that is marked as processing has a request under way that is
\* listened to: cancelling a write never orphans a mark.
THEOREM MarksAreAwaited == Spec => []ProcessingIsAwaited
<1>1. StatusInv => ProcessingIsAwaited
  BY DEF StatusInv, CreationInv, ModificationInv, DeletionInv, ProcessingIsAwaited
<1> QED
  BY <1>1, StatusInvariant, PTL

\* While the newest write for a row or cell is under way its status is that
\* write's, whatever older writes were answered in between.
THEOREM StatusesAreCurrent == Spec => []StatusIsOfNewestRequest
<1>1. StatusInv => StatusIsOfNewestRequest
  BY DEF StatusInv, CreationInv, ModificationInv, StatusIsOfNewestRequest
<1> QED
  BY <1>1, StatusInvariant, PTL

\* One write is listened to for each row and each cell.
THEOREM NewestWriteIsHeard == Spec => []OneWriteIsHeard
<1>1. StatusInv => OneWriteIsHeard
  BY DEF StatusInv, CreationInv, ModificationInv, OneWriteIsHeard
<1> QED
  BY <1>1, StatusInvariant, PTL

(***************************************************************************)
(* Keys and identifiers are issued before they are seen.                   *)
(***************************************************************************)
\* The parts of KeysAreIssued, for the steps that change one of them.
KnownKeys == DOMAIN rows \cup DOMAIN saved \cup Gone \cup (deletion.keys \cap Pks)
Issued == \A k \in KnownKeys : k < nextPk
ListedIssued == \A f \in fetches : \A k \in DOMAIN f.rows : k < nextPk
CreatedIssued == \A c \in creates : c.pk < nextPk /\ c.row \in usedIds
NewIssued == \A r \in DOMAIN newRows : newRows[r].pk < nextPk /\ r \in usedIds

LEMMA KeysAreIssuedParts ==
  KeysAreIssued <=> Issued /\ ListedIssued /\ CreatedIssued /\ NewIssued
  BY DEF KeysAreIssued, Issued, KnownKeys, ListedIssued, CreatedIssued, NewIssued

\* The keys of the rows on screen are issued.
LEMMA ShownKeysIssued ==
  ASSUME TypeOK, KeysAreIssued
  PROVE  \A k \in ShownKeys \cap Pks : k < nextPk
<1>1. \A r \in DOMAIN newRows : KeyOf(r, newRows[r]) \in Pks
                                  => KeyOf(r, newRows[r]) = newRows[r].pk
  BY RowIdsAssumption DEF TypeOK, NewRowsOK, IsMap, KeyOf
<1> QED
  BY <1>1 DEF ShownKeys, NewKeys, KeysAreIssued

\* createRecord() sends no key, for a row that has its identifier.
LEMMA CreateRecordIssued ==
  ASSUME TypeOK, KeysAreIssued, NEW r \in RowIds, NEW v, CreateRecord(r, v),
         r \in usedIds', usedIds \subseteq usedIds', UNCHANGED nextPk
  PROVE  CreatedIssued'
<1>1. nextPk \in Nat /\ 0 < nextPk
  BY DEF TypeOK, ServerOK
<1>2. \A c \in CancelWrites(creates, {d \in creates : d.row = r}) :
         c.pk < nextPk /\ c.row \in usedIds
  BY DEF TypeOK, CallsOK, CreateCalls, CancelWrites, KeysAreIssued
<1>3. CASE UNCHANGED creates
  BY <1>3 DEF KeysAreIssued, CreatedIssued
<1>4. CASE creates' = CancelWrites(creates, {c \in creates : c.row = r}) \cup
                {[id |-> createCount + 1, row |-> r, val |-> v, st |-> "sent",
                  pk |-> NoPk, live |-> TRUE]}
  BY <1>1, <1>2, <1>4 DEF CreatedIssued
<1> QED
  BY <1>3, <1>4 DEF CreateRecord

\* A request that has just been sent has no rows yet.
LEMMA SendFetchIssued ==
  ASSUME OnlyNewestIsHeard, NEW p, SendFetch(p)
  PROVE  \A f \in fetches' : DOMAIN f.rows = {}
  BY SendFetchIsNewest

LEMMA UserStepIssued ==
  TypeOK /\ OnlyNewestIsHeard /\ KeysAreIssued /\ UserStep => KeysAreIssued'
<1> SUFFICES ASSUME TypeOK, OnlyNewestIsHeard, KeysAreIssued, UserStep
             PROVE  KeysAreIssued'
  OBVIOUS
<1>1. nextPk' = nextPk /\ rows' = rows /\ reported' = reported
  BY DEF UserStep, SetPage, Refresh, AddRow, EditNewRow, EditSavedRow, DeleteSelected,
         Destroy, server
<1>2. CASE Refresh \/ \E p \in Pages : SetPage(p)
  <2>1. ListedIssued' /\ DOMAIN newRows' = {}
    BY <1>2, SendFetchIssued DEF Refresh, SetPage, Fetch, Empty, ListedIssued
  <2>2. UNCHANGED <<saved, deletion, creates, usedIds>>
    BY <1>2 DEF Refresh, SetPage, user
  <2> QED
    BY <1>1, <2>1, <2>2 DEF KeysAreIssued, ListedIssued, Gone
<1>3. ASSUME NEW r \in RowIds, NEW v \in Values, AddRow(r, v) PROVE KeysAreIssued'
  <2>1. CreatedIssued'
    BY <1>1, <1>3, CreateRecordIssued DEF AddRow
  <2>2. NewIssued'
    BY <1>1, <1>3 DEF AddRow, Put, KeysAreIssued, NewIssued, TypeOK, ServerOK
  <2>3. UNCHANGED <<saved, deletion, fetches>>
    BY <1>3 DEF AddRow, shown
  <2> QED
    BY <1>1, <2>1, <2>2, <2>3 DEF KeysAreIssued, CreatedIssued, NewIssued, Gone
<1>4. ASSUME NEW r \in RowIds, NEW v \in Values, EditNewRow(r, v) PROVE KeysAreIssued'
  <2>1. UNCHANGED <<saved, deletion, fetches, usedIds>> /\ r \in usedIds
    BY <1>4 DEF EditNewRow, shown, user, KeysAreIssued
  <2>2. CreatedIssued'
    BY <1>1, <1>4, <2>1, CreateRecordIssued DEF EditNewRow, KeysAreIssued, CreatedIssued
  <2>3. NewIssued'
    <3>1. newRows' = [newRows EXCEPT ![r].val = v] /\ r \in DOMAIN newRows
      BY <1>4 DEF EditNewRow
    <3>2. \A q \in DOMAIN newRows : newRows'[q].pk = newRows[q].pk
      BY <3>1 DEF TypeOK, NewRowsOK, IsMap
    <3> QED
      BY <1>1, <2>1, <3>1, <3>2 DEF KeysAreIssued, NewIssued
  <2> QED
    BY <1>1, <2>1, <2>2, <2>3 DEF KeysAreIssued, CreatedIssued, NewIssued, Gone
<1>5. ASSUME NEW k \in DOMAIN saved, NEW v \in Values, EditSavedRow(k, v)
      PROVE  KeysAreIssued'
  <2>1. DOMAIN saved' = DOMAIN saved /\ UNCHANGED <<deletion, fetches, creates, newRows, usedIds>>
    BY <1>5 DEF EditSavedRow, user
  <2> QED
    BY <1>1, <2>1 DEF KeysAreIssued, Gone
<1>6. ASSUME NEW keys \in SUBSET ShownKeys, DeleteSelected(keys) PROVE KeysAreIssued'
  <2>1. deletion'.keys = keys /\ UNCHANGED <<saved, creates, usedIds>>
    BY <1>6 DEF DeleteSelected, RefetchAfterDelete, NoDeletion, shown, user
  <2>2. Issued'
    BY <1>1, <2>1, ShownKeysIssued DEF KeysAreIssued, Issued, KnownKeys, Gone
  <2>3. CASE SendFetch(page) /\ newRows' = Empty
    BY <1>1, <2>1, <2>2, <2>3, SendFetchIssued, KeysAreIssuedParts
    DEF Empty, KeysAreIssued, Issued, KnownKeys, Gone
  <2>4. CASE UNCHANGED <<newRows, fetches>>
    BY <1>1, <2>1, <2>2, <2>4 DEF KeysAreIssued, Issued, KnownKeys, Gone
  <2> QED
    BY <1>6, <2>3, <2>4 DEF DeleteSelected, RefetchAfterDelete
<1>7. CASE Destroy
  BY <1>1, <1>7 DEF Destroy, CancelFetch, shown, KeysAreIssued, Gone
<1> QED
  BY <1>2, <1>3, <1>4, <1>5, <1>6, <1>7 DEF UserStep

\* The server issues the next key when it stores a row.
LEMMA ServeAddIssued ==
  ASSUME TypeOK, KeysAreIssued, NEW c \in creates, NEW o, ServeAdd(c, o)
  PROVE  KeysAreIssued'
<1>1. /\ nextPk \in Nat /\ nextPk' = nextPk + 1
      /\ UNCHANGED <<fetches, saved, newRows, usedIds, deletion, reported>>
  BY DEF ServeAdd, TypeOK, ServerOK, shown, user
<1>2. \A k \in Nat : k < nextPk => k < nextPk'
  BY <1>1
<1>3. Issued'
  <2>1. KnownKeys \subseteq Nat /\ KnownKeys' \subseteq KnownKeys \cup {nextPk}
    BY <1>1 DEF KnownKeys, Gone, ServeAdd, Put, TypeOK, ServerOK, ShownOK, IsMap
  <2> QED
    BY <1>1, <1>2, <2>1, KeysAreIssuedParts DEF Issued
<1>4. ListedIssued' /\ NewIssued'
  BY <1>1, <1>2 DEF KeysAreIssued, ListedIssued, NewIssued, TypeOK, CallsOK, FetchCall,
                    NewRowsOK, IsMap
<1>5. CreatedIssued'
  <2>1. \A d \in creates : d.pk \in Nat /\ d.pk < nextPk' /\ d.row \in usedIds
    BY <1>2 DEF KeysAreIssued, TypeOK, CallsOK, CreateCalls
  <2>2. \A d \in creates' : d \in creates \/ (d.pk = nextPk /\ d.row = c.row)
    BY DEF ServeAdd, Reply, TypeOK, CallsOK, CreateCalls
  <2> QED
    BY <1>1, <2>1, <2>2 DEF CreatedIssued
<1> QED
  BY <1>3, <1>4, <1>5 DEF KeysAreIssued, Issued, KnownKeys, ListedIssued, CreatedIssued,
                          NewIssued, Gone

LEMMA HearListIssued ==
  ASSUME TypeOK, KeysAreIssued, NEW f \in fetches, HearList(f)
  PROVE  KeysAreIssued'
<1>1. /\ fetches' = fetches \ {f} /\ UNCHANGED <<nextPk, rows, creates, newRows, usedIds>>
      /\ DOMAIN saved' \subseteq DOMAIN saved \cup DOMAIN f.rows
      /\ reported' \subseteq reported \cup deletion.keys
      /\ deletion'.keys \subseteq deletion.keys
  BY DEF HearList, ShowRows, ShowError, FinishDelete, NoDeletion, server, user
<1> QED
  BY <1>1 DEF KeysAreIssued, Gone

LEMMA HearAddIssued ==
  ASSUME TypeOK, KeysAreIssued, NEW c \in creates, HearAdd(c)
  PROVE  KeysAreIssued'
<1>1. /\ creates' = creates \ {c}
      /\ UNCHANGED <<nextPk, rows, fetches, saved, usedIds, deletion, reported>>
  BY DEF HearAdd, server, user
<1>2. NewIssued'
  <2>1. \/ UNCHANGED newRows
        \/ newRows' = [r \in DOMAIN newRows |->
               IF r = c.row THEN [pk |-> c.pk, val |-> c.val] ELSE newRows[r]]
    BY DEF HearAdd
  <2> QED
    BY <1>1, <2>1 DEF KeysAreIssued, NewIssued
<1> QED
  BY <1>1, <1>2 DEF KeysAreIssued, NewIssued, Gone

LEMMA HearPatchIssued ==
  ASSUME TypeOK, KeysAreIssued, NEW p \in patches, HearPatch(p)
  PROVE  /\ KeysAreIssued'
         /\ DOMAIN saved' = DOMAIN saved
         /\ DOMAIN newRows' = DOMAIN newRows
         /\ \A r \in DOMAIN newRows : newRows'[r].pk = newRows[r].pk
<1>1. UNCHANGED <<nextPk, rows, fetches, creates, usedIds, deletion, reported>>
  BY DEF HearPatch, server, user
<1>2. DOMAIN saved' = DOMAIN saved
  BY DEF HearPatch
<1>3. /\ DOMAIN newRows' = DOMAIN newRows
      /\ \A r \in DOMAIN newRows : newRows'[r].pk = newRows[r].pk
  BY DEF HearPatch, TypeOK, NewRowsOK, IsMap
<1> QED
  BY <1>1, <1>2, <1>3 DEF KeysAreIssued, Gone

\* An answered list holds records that were in the table.
LEMMA AnswerIsOfTable ==
  ASSUME NEW f \in fetches, NEW o, ServeList(f, o)
  PROVE  \A g \in fetches' : g \in fetches \/ DOMAIN g.rows \subseteq DOMAIN rows
<1> DEFINE listed == [k \in RowsOnPage(f.page) |-> rows[k]]
           reply == [id |-> f.id, page |-> f.page, st |-> Served(o),
                     rows |-> listed, count |-> CountWith(f.page)]
<1>1. reply.rows = listed /\ DOMAIN listed \subseteq DOMAIN rows
  BY DEF RowsOnPage
<1>2. fetches' = (fetches \ {f}) \cup {reply}
  BY DEF ServeList
<1> HIDE DEF reply
<1> QED
  BY <1>1, <1>2

LEMMA NextIssued ==
  TypeOK /\ OnlyNewestIsHeard /\ KeysAreIssued /\ [Next]_vars => KeysAreIssued'
<1> SUFFICES ASSUME TypeOK, OnlyNewestIsHeard, KeysAreIssued, [Next]_vars
             PROVE  KeysAreIssued'
  OBVIOUS
<1>1. CASE ServeAnyList
  <2>1. PICK f \in fetches, o \in Outcomes : ServeList(f, o)
    BY <1>1 DEF ServeAnyList
  <2>2. ListedIssued'
    <3>1. \A g \in fetches' : g \in fetches \/ DOMAIN g.rows \subseteq DOMAIN rows
      BY <2>1, AnswerIsOfTable
    <3> QED
      BY <2>1, <3>1 DEF ServeList, server, KeysAreIssued, ListedIssued
  <2> QED
    BY <2>1, <2>2 DEF ServeList, server, shown, user, KeysAreIssued, ListedIssued, Gone
<1>2. CASE ServeAnyPatch
  BY <1>2 DEF ServeAnyPatch, ServePatch, shown, user, KeysAreIssued, Gone
<1>3. CASE ServeAnyDelete
  <2>1. PICK o \in Outcomes : ServeDelete(o)
    BY <1>3 DEF ServeAnyDelete
  <2>2. deletion'.keys = deletion.keys /\ DOMAIN rows' \subseteq DOMAIN rows
    BY <2>1 DEF ServeDelete, Drop, TypeOK, DeletionOK, Deletions
  <2> QED
    BY <2>1, <2>2 DEF ServeDelete, shown, user, KeysAreIssued, Gone
<1>4. CASE HearDelete
  <2>1. deletion'.keys = deletion.keys
    BY <1>4 DEF HearDelete, RefetchAfterDelete, TypeOK, DeletionOK, Deletions
  <2> QED
    BY <1>4, <2>1, SendFetchIssued
    DEF HearDelete, RefetchAfterDelete, Empty, server, shown, user, KeysAreIssued, Gone
<1>5. CASE UNCHANGED vars
  BY <1>5 DEF vars, server, shown, user, KeysAreIssued, Gone
<1> QED
  BY <1>1, <1>2, <1>3, <1>4, <1>5, UserStepIssued, ServeAddIssued, HearListIssued,
     HearAddIssued, HearPatchIssued
  DEF Next, ServeAnyAdd, HearAnyList, HearAnyAdd, HearAnyPatch

\* Every key and identifier the client holds, in whatever place, has been issued:
\* what the server issues next is new to it.
THEOREM KeysIssued == Spec => []KeysAreIssued
<1>1. Init => KeysAreIssued
  BY InitialRowsAssumption
  DEF Init, Empty, NoDeletion, KeysAreIssued, Gone
<1>2. TypeOK /\ OnlyNewestIsHeard /\ KeysAreIssued /\ [Next]_vars => KeysAreIssued'
  BY NextIssued
<1> QED
  BY <1>1, <1>2, TypeCorrect, NewestIsHeard, PTL DEF Spec

(***************************************************************************)
(* Deleted records stay away.                                              *)
(***************************************************************************)
\* While no deletion is under way, what is deleted is what was reported.
LEMMA NoDeletionNothingMore == deletion.stage = "none" => Deleted = Gone
  BY DEF Deleted

\* fetch() asks again with no new rows and no answer: nothing to come back from.
LEMMA FetchGone ==
  ASSUME OnlyNewestIsHeard, NothingBringsBack, NEW p, Fetch(p),
         UNCHANGED <<rows, creates, deletion, reported>>
  PROVE  NothingBringsBack'
<1>1. /\ \A f \in fetches' : DOMAIN f.rows = {}
      /\ DOMAIN newRows' = {} /\ state' = "loading"
  BY SendFetchIssued DEF Fetch, Empty
<1> QED
  BY <1>1 DEF NothingBringsBack, Deleted, Gone

\* createRecord() sends no key.
LEMMA CreateRecordGone ==
  ASSUME TypeOK, NEW r \in RowIds, NEW v, CreateRecord(r, v)
  PROVE  \A c \in creates' : c.pk = NoPk \/ \E d \in creates : c.row = d.row /\ c.pk = d.pk
<1>1. \A c \in CancelWrites(creates, {d \in creates : d.row = r}) :
         \E d \in creates : c.row = d.row /\ c.pk = d.pk
  BY DEF TypeOK, CallsOK, CreateCalls, CancelWrites
<1>2. CASE UNCHANGED creates
  BY <1>2
<1>3. CASE \E new : /\ creates' = CancelWrites(creates, {c \in creates : c.row = r}) \cup {new}
                    /\ new.pk = NoPk
  BY <1>1, <1>3
<1>4. [id |-> createCount + 1, row |-> r, val |-> v, st |-> "sent", pk |-> NoPk,
       live |-> TRUE].pk = NoPk
  OBVIOUS
<1> QED
  BY <1>2, <1>3, <1>4 DEF CreateRecord

LEMMA UserStepGone ==
  ASSUME TypeOK, OnlyNewestIsHeard, KeysAreIssued, NothingBringsBack, UserStep
  PROVE  NothingBringsBack'
<1>1. CASE Refresh \/ \E p \in Pages : SetPage(p)
  BY <1>1, FetchGone DEF Refresh, SetPage, server
<1>2. ASSUME NEW r \in RowIds, NEW v \in Values, AddRow(r, v) PROVE NothingBringsBack'
  <2>1. /\ UNCHANGED <<rows, fetches, state, saved, deletion, reported>>
        /\ deletion.stage = "none" /\ r \notin usedIds
        /\ newRows' = Put(newRows, {r}, [pk |-> NoPk, val |-> v])
    BY <1>2 DEF AddRow, Usable, server, shown
  <2>2. \A c \in creates' : c.row \in DOMAIN newRows' => c.pk \notin Gone
    BY <1>2, <2>1, CreateRecordGone DEF AddRow, Put, KeysAreIssued, NothingBringsBack, Gone
  <2>3. \A q \in DOMAIN newRows' : newRows'[q].pk \notin Gone
    BY <2>1 DEF Put, NothingBringsBack, Gone
  <2> QED
    BY <2>1, <2>2, <2>3 DEF NothingBringsBack, Deleted, Gone
<1>3. ASSUME NEW r \in RowIds, NEW v \in Values, EditNewRow(r, v)
      PROVE  NothingBringsBack'
  <2>1. /\ UNCHANGED <<rows, fetches, state, saved, deletion, reported>>
        /\ deletion.stage = "none"
    BY <1>3 DEF EditNewRow, Usable, server, shown
  <2>2. /\ DOMAIN newRows' = DOMAIN newRows
        /\ \A q \in DOMAIN newRows : newRows'[q].pk = newRows[q].pk
    BY <1>3 DEF EditNewRow, TypeOK, NewRowsOK, IsMap
  <2>3. \A c \in creates' : c.row \in DOMAIN newRows => c.pk \notin Gone
    BY <1>3, CreateRecordGone DEF EditNewRow, NothingBringsBack, Gone
  <2> QED
    BY <2>1, <2>2, <2>3 DEF NothingBringsBack, Deleted, Gone
<1>4. ASSUME NEW k \in DOMAIN saved, NEW v \in Values, EditSavedRow(k, v)
      PROVE  NothingBringsBack'
  <2>1. /\ UNCHANGED <<rows, fetches, creates, newRows, state, deletion, reported>>
        /\ DOMAIN saved' = DOMAIN saved
    BY <1>4 DEF EditSavedRow, server
  <2> QED
    BY <2>1 DEF NothingBringsBack, Deleted, Gone
<1>5. ASSUME NEW keys \in SUBSET ShownKeys, DeleteSelected(keys)
      PROVE  NothingBringsBack'
  <2>1. /\ UNCHANGED <<rows, creates, state, saved, reported>>
        /\ deletion.stage = "none" /\ Deleted = Gone
    BY <1>5, NoDeletionNothingMore DEF DeleteSelected, Usable, server, shown
  <2>2. CASE keys \cap Pks = {}
    <3>1. /\ deletion'.stage = "refetching" /\ deletion'.keys \cap Pks = {}
          /\ DOMAIN newRows' = {} /\ SendFetch(page)
      BY <1>5, <2>2 DEF DeleteSelected, RefetchAfterDelete, NoDeletion, Empty
    <3> QED
      BY <2>1, <3>1, SendFetchIssued DEF NothingBringsBack, Deleted, Gone
  <2>3. CASE keys \cap Pks # {}
    <3>1. /\ deletion'.stage = "deleting" /\ deletion'.st = "sent"
          /\ UNCHANGED <<newRows, fetches>>
      BY <1>5, <2>3 DEF DeleteSelected, NoDeletion
    <3> QED
      BY <2>1, <3>1 DEF NothingBringsBack, Deleted, Gone
  <2> QED
    BY <2>2, <2>3
<1>6. CASE Destroy
  BY <1>6 DEF Destroy, CancelFetch, server, shown, NothingBringsBack, Deleted, Gone
<1> QED
  BY <1>1, <1>2, <1>3, <1>4, <1>5, <1>6 DEF UserStep

LEMMA ServeListGone ==
  ASSUME NothingBringsBack, NEW f \in fetches, NEW o, ServeList(f, o)
  PROVE  NothingBringsBack'
<1>1. UNCHANGED <<rows, creates, newRows, state, saved, deletion, reported>>
  BY DEF ServeList, server, shown
<1>2. /\ \A g \in fetches' : Gone \cap DOMAIN g.rows = {}
      /\ \A g \in fetches' : deletion.stage = "refetching" /\ g.id = deletion.fetch =>
            Deleted \cap DOMAIN g.rows = {}
  BY AnswerIsOfTable DEF NothingBringsBack, Deleted
<1> QED
  BY <1>1, <1>2 DEF NothingBringsBack, Deleted, Gone

\* The server stores a row under a key that no deletion has seen.
LEMMA ServeAddGone ==
  ASSUME TypeOK, KeysAreIssued, NothingBringsBack, NEW c \in creates, NEW o,
         ServeAdd(c, o)
  PROVE  NothingBringsBack'
<1>1. UNCHANGED <<fetches, newRows, state, saved, deletion, reported>>
  BY DEF ServeAdd, shown
<1>2. nextPk \notin Gone \cup deletion.keys
  BY DEF KeysAreIssued, TypeOK, ServerOK
<1>3. Deleted \cap DOMAIN rows' = {}
  BY <1>2 DEF ServeAdd, Put, NothingBringsBack, Deleted
<1>4. \A d \in creates' : d \in creates \/ d.pk = nextPk
  BY DEF ServeAdd, Reply, TypeOK, CallsOK, CreateCalls
<1>5. \A d \in creates' : d.row \in DOMAIN newRows => d.pk \notin Gone
  BY <1>2, <1>4 DEF NothingBringsBack
<1> QED
  BY <1>1, <1>3, <1>5 DEF NothingBringsBack, Deleted, Gone

LEMMA ServeDeleteGone ==
  ASSUME TypeOK, NothingBringsBack, NEW o, ServeDelete(o)
  PROVE  NothingBringsBack'
<1>1. UNCHANGED <<fetches, creates, newRows, state, saved, reported>>
  BY DEF ServeDelete, shown
<1>2. /\ deletion'.stage = "deleting" /\ deletion'.keys = deletion.keys
      /\ deletion'.st = "ok" => o = "answered"
  BY DEF ServeDelete, Served, TypeOK, DeletionOK, Deletions
<1>3. Deleted' \cap DOMAIN rows' = {}
  BY <1>1, <1>2 DEF ServeDelete, Drop, NothingBringsBack, Deleted, Gone
<1> QED
  BY <1>1, <1>2, <1>3 DEF NothingBringsBack, Deleted, Gone

\* The answer that ends a deletion was read from the table after it.
LEMMA HearListGone ==
  ASSUME TypeOK, OnlyNewestIsHeard, NothingBringsBack, NEW f \in fetches, HearList(f)
  PROVE  NothingBringsBack'
<1>1. fetches' = {} /\ UNCHANGED <<rows, creates, newRows>>
  BY DEF HearList, OnlyNewestIsHeard, server
<1>2. state' = "done" => DOMAIN saved' = DOMAIN f.rows
  BY DEF HearList, ShowRows, ShowError
<1>3. CASE deletion.stage = "refetching" /\ deletion.fetch = f.id
  <2>1. deletion'.stage = "none" /\ DOMAIN newRows = {} /\ Gone' \subseteq Deleted
    BY <1>3 DEF HearList, FinishDelete, NoDeletion, NothingBringsBack, Deleted, Gone
  <2>2. Deleted \cap DOMAIN f.rows = {} /\ Deleted \cap DOMAIN rows = {}
    BY <1>3 DEF NothingBringsBack
  <2>3. Deleted' = Gone'
    BY <2>1 DEF Deleted
  <2> QED
    BY <1>1, <1>2, <2>1, <2>2, <2>3 DEF NothingBringsBack
<1>4. CASE UNCHANGED <<deletion, reported>>
  BY <1>1, <1>2, <1>4 DEF NothingBringsBack, Deleted, Gone
<1> QED
  BY <1>3, <1>4 DEF HearList

LEMMA HearAddGone ==
  ASSUME TypeOK, NothingBringsBack, NEW c \in creates, HearAdd(c)
  PROVE  NothingBringsBack'
<1>1. /\ creates' = creates \ {c}
      /\ UNCHANGED <<rows, fetches, state, saved, deletion, reported>>
  BY DEF HearAdd, server
<1>2. /\ DOMAIN newRows' = DOMAIN newRows
      /\ \A r \in DOMAIN newRows : newRows'[r].pk \notin Gone
  BY DEF HearAdd, NothingBringsBack
<1> QED
  BY <1>1, <1>2 DEF NothingBringsBack, Deleted, Gone

LEMMA HearPatchGone ==
  ASSUME TypeOK, KeysAreIssued, NothingBringsBack, NEW p \in patches, HearPatch(p)
  PROVE  NothingBringsBack'
<1>1. UNCHANGED <<rows, fetches, creates, state, deletion, reported>>
  BY DEF HearPatch, server
<1> QED
  BY <1>1, HearPatchIssued DEF NothingBringsBack, Deleted, Gone

LEMMA HearDeleteGone ==
  ASSUME TypeOK, OnlyNewestIsHeard, NothingBringsBack, HearDelete
  PROVE  NothingBringsBack'
<1>1. /\ UNCHANGED <<rows, creates, state, saved, reported>>
      /\ DOMAIN newRows' = {}
      /\ \A f \in fetches' : DOMAIN f.rows = {}
  BY SendFetchIssued DEF HearDelete, RefetchAfterDelete, Empty, server, shown
<1>2. /\ deletion.stage = "deleting" /\ deletion.st \in {"ok", "err"}
      /\ deletion'.stage = "refetching" /\ deletion'.keys = deletion.keys
      /\ deletion'.failed = (deletion.st = "err")
  BY DEF HearDelete, RefetchAfterDelete, TypeOK, DeletionOK, Deletions
<1>3. Deleted' = Deleted
  BY <1>1, <1>2 DEF Deleted, Gone
<1> QED
  BY <1>1, <1>2, <1>3 DEF NothingBringsBack, Gone

LEMMA NextGone ==
  TypeOK /\ OnlyNewestIsHeard /\ KeysAreIssued /\ NothingBringsBack /\ [Next]_vars
     => NothingBringsBack'
<1> SUFFICES ASSUME TypeOK, OnlyNewestIsHeard, KeysAreIssued, NothingBringsBack,
                    [Next]_vars
             PROVE  NothingBringsBack'
  OBVIOUS
<1>1. CASE ServeAnyPatch
  <2>1. /\ UNCHANGED <<fetches, creates, newRows, state, saved, deletion, reported>>
        /\ DOMAIN rows' = DOMAIN rows
    BY <1>1 DEF ServeAnyPatch, ServePatch, shown
  <2> QED
    BY <2>1 DEF NothingBringsBack, Deleted, Gone
<1>2. CASE UNCHANGED vars
  BY <1>2 DEF vars, server, shown, NothingBringsBack, Deleted, Gone
<1> QED
  BY <1>1, <1>2, UserStepGone, ServeListGone, ServeAddGone, ServeDeleteGone, HearListGone,
     HearAddGone, HearPatchGone, HearDeleteGone
  DEF Next, ServeAnyList, ServeAnyAdd, ServeAnyDelete, HearAnyList, HearAnyAdd,
      HearAnyPatch

\* A deleted record is in no place it could come back from.
THEOREM DeletedIsNowhere == Spec => []NothingBringsBack
<1>1. Init => NothingBringsBack
  BY DEF Init, Empty, NoDeletion, NothingBringsBack, Deleted, Gone
<1>2. TypeOK /\ OnlyNewestIsHeard /\ KeysAreIssued /\ NothingBringsBack /\ [Next]_vars
         => NothingBringsBack'
  BY NextGone
<1> QED
  BY <1>1, <1>2, TypeCorrect, NewestIsHeard, KeysIssued, PTL DEF Spec

\* A record that the user was told is deleted is not on a loaded page again.
THEOREM DeletionIsFinal == Spec => []ReportedRowsStayGone
<1>1. TypeOK /\ NothingBringsBack => ReportedRowsStayGone
  <2>1. TypeOK => \A r \in DOMAIN newRows :
           KeyOf(r, newRows[r]) \in Pks => KeyOf(r, newRows[r]) = newRows[r].pk
    BY RowIdsAssumption DEF TypeOK, NewRowsOK, IsMap, KeyOf
  <2> QED
    BY <2>1 DEF NothingBringsBack, ReportedRowsStayGone, ShownKeys, NewKeys, Gone
<1> QED
  BY <1>1, TypeCorrect, DeletedIsNowhere, PTL

=============================================================================

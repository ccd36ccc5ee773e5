# A verification of Mathesar in TLA+

Mathesar lets people work on a PostgreSQL database in the browser: a Django
backend (`mathesar/`, `db/`, `config/`) calls a library of PL/pgSQL functions
(`db/sql/00_msar.sql`), and a Svelte client (`mathesar_ui/src/`) keeps what is on
screen in stores and talks to the backend with JSON-RPC. This directory holds
TLA+ modules that model parts of it, the TLC configurations that check them and
TLAPS proofs about them.

Run a configuration with `tlc -config RecordsFetch.cfg MCRecordsData` and check the
proofs with `tlapm RecordsDataProofs.tla`, and likewise for every other module whose name
ends in `Proofs` and for `OrderLemmas`. The runs are listed in `PROJECT.json` and in
section 2, the theorems in `PROJECT.json` and in section 3.

Contents: 1 the system and its hazards; 2 the modules, runs, bounds and disagreements;
3 the proofs; 4 the plan; 5 what is not modelled.

## 1. The system

### Where state and order matter

The client is one JavaScript thread. Its hard behaviour comes from what happens
between an `await` and the answer: the user goes on, other requests are sent, an
answer is overtaken by another, a request is cancelled on the client and still
served. The backend serves each request in one transaction; its hard behaviour is
several requests at once, caches next to the database, and operations made of
several transactions of which one may fail.

| Component | State | Operations | Interacts with | What makes it correct | Module |
|---|---|---|---|---|---|
| Record store (`stores/table-data/records.ts`) | load state, saved rows, new rows, total, the request in flight, one promise per cell and per new row | fetch, deleteSelected, updateCell, createRecord, createOrUpdateRecord, addEmptyRecord, destroy | Meta, columns store, RPC client, table | what is shown answers what was asked last; a deleted row stays away; marks and spinner are awaited | `RecordsData` |
| Meta (`meta.ts`) | sorting, filtering, page, search; statuses of rows and cells; client-side errors | set and clear statuses; derive request parameters | record store, cells | a status is that of the newest request | `RecordsData` |
| Cancellable promises, JSON-RPC client | settled or cancelled; batch | run, cancel, batchSend | every store | a promise settles once, or never once cancelled | `RecordsData` |
| Async stores (`AsyncStore.ts`, `AsyncRpcApiStore.ts`) | loading flag, last settlement, promise of the last run | run, runBatched, cancel, reset, updateResolvedValue | pages, dialogs, inspector | a store that loads has a request under way that ends it | `DatabaseSettings` |
| Settings of a database (`contexts/Database*RouteContext.ts`, `pages/database/settings/`) | async stores of roles, configured roles, collaborators | configure, remove, add, set, delete; reset of dependent stores | three pages share the stores | lists patched by hand agree with the server; a page has what it needs | `DatabaseSettings` |
| Reflection (`mathesar/state/`, `models/deprecated.py`) | Django rows of schemas, tables, columns and constraints; a flag | reset_reflection, the reflection's steps, mutations of the REST API | every request of the REST API; the catalogs, which others change | rows agree with the catalog and keep what users set | `Reflection` |
| Database functions and filters (`db/functions/`, `mathesar/filters/`, `mathesar/functions/`) | none; a request's filter on its way | rewrite, deserialise, check, unpack, run | the installed functions, the columns | a filter selects what it says, and tests the column it was sent for | `DbFunctions` |
| Explorations (`db/queries/`, `db/transforms/`, `db/records/`, `mathesar/models/query.py`, `mathesar/utils/explorations.py`) | saved explorations; a request's query | save, run, list, page, describe | PostgreSQL, Django columns | pages cover the result; aliases mean what they are traced to | `Explorations` |
| Casts and type inference (`db/types/operations/cast.py`, `db/columns/operations/infer_types.py`) | installed SQL functions | cast, infer, preview, change type | imports, columns | what is offered works; a changed value still says the same | `TypeCasts` |
| Data file import (`mathesar/imports/`, `utils/datafiles.py`) | a table under construction, temporary copies | upload, import, retry, suggest types, patch | PostgreSQL, other users | the rows are the file's; nothing half-made stays; others' tables are left alone | `DataFileImport` |
| Database setup (`utils/permissions.py`, `db/install.py`) and the Django rows of servers, databases, roles and collaborators | rows on one side, what is installed on the other | set up, disconnect, drop, collaborators, passwords | PostgreSQL servers | a listed database is installed, a connection that worked works | `DatabaseSetup` |
| Methods that change tables (`rpc/tables`, `columns`, `constraints`, `data_modeling`, `records`; `00_msar.sql`) | the user's tables | add, patch, delete, link, split, move | PostgreSQL, metadata rows | references refer, values are kept | `DataModeling`, `RpcMethods` |
| Dependents (`db/dependents/`) | none | list what depends on a table or column | tables, views | what is listed is what goes with a drop | `Dependents` |
| Metadata and saved explorations of the RPC API | Django rows by database | set, add, replace, delete | databases | none outlives its database | `RpcMethods` |
| Columns and constraints stores, sheet selection, data explorer, navigation stores, record page and selector, import page, forms, toasts, modals | state of the client | | | | section 5 |
| Errors, connections of the REST API, schemas, users, settings | | | | | section 5 |

Not considered: vendored code, migrations, translations, docs,
deployment files and tests, other than as documentation of the code.

### Hazards

`PROJECT.json` lists the forty that matter most, each with the line where it bites and the
properties that would catch it, or the reason why none does. The main families:

- *Answers out of order* in the client: overtaking answers (`records.ts:372`), a
  spinner or a mark nobody will end (`records.ts:380`, `594`), a deletion racing
  with everything else (`records.ts:543`), lists patched by hand next to a delete that
  cascades (`DatabaseSettingsRouteContext.ts:118`).
- *Two databases that know nothing of each other*: Mathesar's rows and the user's
  catalog, changed by others at any time (`state/django.py:52`, `89`, `110`), a set-up that
  breaks half-way (`utils/permissions.py:47`) or whose rows go meanwhile
  (`rpc/databases/configured.py:73`), a filter by ids run by names
  (`functions/operations/convert.py:26`).
- *Operations made of several transactions*: imports (`imports/csv.py:157`, `159`), type
  inference on a copy named by the second (`infer_types.py:68`), a page and its count
  (`api/pagination.py:81`).
- *Meaning carried through a translation*: packed functions and SQL's third truth value
  (`functions/packed.py:84`), aliases traced through summaries (`transforms/base.py:300`),
  casts offered from one map and made from another (`cast.py:173`), a cast that changes
  the time zone for those that follow (`cast.py:493`).
- *Boundaries*: NULLs and equal rows in a split or a move (`00_msar.sql:4063`, `4171`),
  ties in an order (`sort.py:20`), ids that come with a file (`insert.py:107`), a listing of
  dependents that is cut off (`dependents_utils.py:14`).

### Further hazards

Met while modelling, none of which any property covers. Where the models include the code
concerned, they behave as it does.

*Client*

- `stores/table-data/records.ts:671`: createRecord() cancels the row's earlier create only on
  the client; the server may serve both and store two records for one row.
- `stores/table-data/records.ts:550`: The keys of the saved rows are read before the refetch
  and used after it to clear statuses, so rows that the refetch turned from new into saved
  keep a creation status.
- `stores/table-data/records.ts:377`: fetch() empties newRecords when it is sent, not when
  it is answered: a row added while the page loads is in the answer and among the new rows.
- `stores/table-data/records.ts:530`: deleteSelected() drops new rows without cancelling
  their creates: the record of a row reported as deleted is stored afterwards.
- `stores/table-data/records.ts:552`: The statuses of rows whose deletion failed are entered
  under the joined keys and cleared by the next statement.
- `stores/table-data/meta.ts:240`: Statuses of cells of deleted rows stay in the maps
  because the filter tests the first character of each key.
- `db/sql/00_msar.sql:4852`: The total is cross joined to the rows of the page: a page past
  the end has total 0, after deleting the last rows of the last page for instance.
- `stores/table-data/records.ts:445`: A list answered before an edit was stored and heard
  after it puts the old value back on screen next to the edit's success status.
- `stores/table-data/records.ts:594`: A cancelled update may be served after the update that
  replaced it, and the older value stays in the table.
- `stores/table-data/records.ts:711`: totalCount is increased for a row that the list under
  way has counted already, or set by a list served before the row was stored.
- `stores/table-data/records.ts:469`: deleteSelected() gets selection identifiers built from
  positions and resolves them after the confirmation: rows that were refetched under the
  dialog are other rows.
- `packages/json-rpc-client-builder/requests.ts:58`: A reply that is not JSON rejects a
  promise nobody handles: the caller's promise never settles.
- `packages/json-rpc-client-builder/requests.ts:74`: The answers of a batch are matched to
  its requests by position, which JSON-RPC does not promise.
- `stores/AsyncRpcApiStore.ts:107`: The promise of a batch is kept nowhere: a reset does not
  stop it, and its answer, read from the server before the change that caused the reset,
  fills the store again.
- `stores/AsyncStore.ts:97`: A list that failed to load counts as initialized: opening the
  page again does not ask for it again.
- `stores/table-data/constraints.ts:181`: Whether the column is unique is read before the
  request and acted upon after other requests.
- `stores/tables.ts:303`: Updating a table with nothing to change sends an empty batch,
  which the server answers with an error.
- `components/sheet/selection/selectionUtils.ts:109`: The start of a selection that no
  longer fits is reduced by one too few, so that its end lies past the series.
- `systems/data-explorer/QueryUndoRedoManager.ts:20`: Undo, edit and redo in an order nobody
  tested: the links of the list are changed on one side only.

*Explorations*

- `db/queries/base.py:115`: An order transformation followed by a summary suppresses the
  order the server falls back to, although the summary has undone the one that was asked
  for.
- `mathesar/api/utils.py:69`: A grouped page without rows (past the end, or an empty result)
  unpacks the zip of nothing, and the request fails instead of answering an empty page.
- `mathesar/utils/explorations.py:89`: A saved exploration without transformations is stored
  with null, and running it iterates over it: definitions that may be saved cannot be run.
- `db/records/operations/select.py:165`: The count of a listing ignores the groupings and
  duplicates that leave rows out, so the last pages counted are empty.
- `db/transforms/operations/apply.py:61`: A search is limited to the page size before the
  offset is applied, so every page after the first is empty.
- `db/records/operations/group.py:117`: The bounds counted up from the least value stop
  before the greatest when the step does not divide their distance: rows above the last
  bound are in no group, and dropped from the page.
- `db/records/operations/calculation.py:28`: The step of a magnitude grouping is taken from
  the logarithm of the range of the values, which is 0 when all values are equal.
- `db/transforms/operations/finish_specifying.py:188`: A column that is one of several of a
  unique constraint counts as unique, and a summary about it groups the columns of its row
  that are not determined by it.
- `mathesar/models/query.py:257`: Options of an alias are looked for in the column it is
  made of, up to an initial column: an alias that is given its own name leads to itself, and
  the search does not end.
- `mathesar/utils/explorations.py:159`: The metadata of an output column is looked for by
  the attnum of a column of a CTE, which is None, so it is never found.
- `mathesar/utils/preview.py:83`: A template none of whose columns exist restricts nothing,
  so every reference of the referred table is followed.
- `mathesar/api/utils.py:110`: The values of a preview are popped from the record, so a
  template that names a column twice fails on the second.

*Reflection and the REST API*

- `mathesar/api/serializers/table_settings.py:28`: The settings of a preview are deleted before
  the default template is computed from the user database: when that fails, the table is
  left without settings.
- `mathesar/state/cached_property.py:33`: The key that is cleared is not the one that is
  filled, so clearing the cache clears nothing and a property stays as it was first read.
- `mathesar/state/django.py:193`: Constraints are matched to tables by oid alone, over all
  databases: oids of two databases may be equal.
- `mathesar/models/deprecated.py:509`: A table is dropped by the names its row last heard
  of: after others renamed tables, that may be another one.
- `mathesar/models/deprecated.py:560`: The constraint just added is taken to be the one with
  the greatest oid of its table, which is another's if two are added at once, or when oids
  wrap around.
- `mathesar/middleware.py:21`: A request that fails on a closed cursor is run again as a
  whole, also if it had changed something before.

*Filters*

- `db/functions/base.py:308`: Texts are put between the wildcards of LIKE without escaping,
  so a percent sign in them matches anything.
- `db/functions/base.py:547`: Functions that return no truth value have the hint of a
  filter, are offered as filters and fail in the database.
- `mathesar/api/db/viewsets/records.py:58`: The filter is rewritten outside of the try that
  turns its errors into answers: an unknown column id is an internal error.

*Imports, casts and types*

- `mathesar/utils/tables.py:28`: Inferred types are paired with columns by position, of two
  readings of the table: a column dropped in between gives every later column its
  neighbour's type.
- `mathesar/api/serializers/tables.py:165`: What Mathesar keeps of a table (import_verified)
  is saved before its columns are changed, and stays when that fails.
- `db/tables/operations/alter.py:46`: Name, comment and columns of a table are changed by
  calls of their own: one that fails leaves the changes before it.
- `mathesar/utils/tables.py:57`: A free name for a table is looked for in a reflection and
  taken later.
- `db/columns/utils.py:180`: Columns are matched for an import into an existing table by
  asking whether the target can be cast to the imported column, the other way round.
- `mathesar/imports/base.py:38`: The file row is saved as it was read at the start, and
  overwrites a header setting changed while the import ran.

*RPC methods and set-ups*

- `mathesar/utils/permissions.py:16`: The move of an old-style connection to the new rows
  lists its database without connecting to it or installing anything.
- `db/sql/00_msar.sql:4063`: Rows that others change between the copy of the columns and the
  statement that drops them lose the change.
- `db/sql/00_msar.sql:2981`: A unique constraint of several columns is copied as one on its
  first column when it is extracted, and the split fails on equal values.
- `mathesar/utils/permissions.py:114`: A sample schema that exists already is passed over
  after its error has aborted the transaction; the samples after it are not loaded.
- `mathesar/rpc/collaborators.py:84`: The server of a collaborator is that of the role it is
  first given, whether or not it is the server of the database, and stays when the role is
  changed: the connection is looked for in the wrong place.
- `mathesar/utils/columns.py:12`: Metadata of several columns is saved column by column; one
  that is refused leaves those before it.
- `mathesar/rpc/schemas/base.py:121`: schemas.get calls the function of the db library
  without the schema it was asked for, and always fails.
- `mathesar/utils/connections.py:77`: Only an OperationalError removes the connection row of
  an installation that broke; any other leaves a connection to a database that is not
  installed.

*Dependents*

- `db/dependents/dependents_utils.py:47`: The dependents are listed in one request and the
  table deleted in another; what others make in between goes with it unlisted.
- `db/dependents/dependents_utils.py:257`: A table with a primary key has a dependent by
  itself, so has_dependents is true of nearly every table.

## 2. The modules

| Module | What it is |
|---|---|
| `LatestWins` | Abstract specification: a store that asks questions and shows answers shows as final only the answer to what was asked last. |
| `RecordsData` | The record store, the statuses it keeps in Meta, its requests under way, and the table they act on. |
| `DatabaseSettings` | Three async stores of a database's settings, the pages that share them, their requests, and the tables their lists are read from. |
| `Reflection` | The Django rows that mirror user databases, the steps of a reflection, requests that change a database or customize a preview, and others who do. |
| `DbTypes` | Types of the database and of the interface, categories and hints. No state. |
| `DbFunctions` | The functions filters are made of, filters as trees, and the steps of a request for filtered records. Extends `DbTypes`. |
| `Transforms` | Relations, and what each transformation, order and search does to one. No state. |
| `RecordGroups` | The modes of grouping and the groups of a page. Extends `Transforms`. |
| `Previews` | Templates of referred rows, the columns they need, and their place in a page. Extends `RecordGroups`. |
| `Explorations` | Joins, summaries and how they are finished, aliases, requests and pages. Extends `Previews`. |
| `TypeCasts` | Every cast as the set of its results on a value, the casts offered, and inference. Extends `DbTypes`. |
| `DataFiles` | Uploads, the type they are given, and the columns and rows read from them. |
| `DataFileImport` | Imports, inference on copies, previews and changes of types, with other users. Extends `TypeCasts` and `DataFiles`. |
| `DataModeling` | The effect of a method on the tables of one database. No state. |
| `Dependents` | What is listed as depending on a table or column, and what PostgreSQL drops. Extends `DataModeling`. |
| `DatabaseSetup` | Servers, databases, roles and collaborators, set-ups step by step, and old-style connections that are moved to the new rows. |
| `RpcMethods` | The methods together: `DatabaseSetup`, `DataModeling` and `Dependents` composed, with metadata and explorations. |
| `MC...` | Modules with a state machine for TLC: values of constants and symmetry, and in `MCFirstReflection` whether a reflection has happened. |
| `Mappings` | Functions as finite mappings, which `Transforms`, `DbFunctions`, `TypeCasts`, `DataModeling`, `DatabaseSetup`, `RpcMethods` and `DataFileImport` use where a TLC module would offer `:>` and `@@`, so that proofs can expand them. |
| `RecordsDataProofs`, `DatabaseSettingsProofs`, `ReflectionProofs`, `DbFunctionsProofs`, `DataFileImportProofs`, `ExplorationsProofs` | TLAPS proofs about the module named. |
| `RpcMethodsProofs` | What the methods do to tables and views, what depends on what, what the steps of a set-up do to Django's rows and to the servers, and the theorems about `RpcMethods`. |
| `OrderLemmas` | Largest and smallest elements, and ranks in a finite ordered set. |

### `RecordsData`

Source: `stores/table-data/records.ts`, `meta.ts`, `CancellablePromise.ts`,
`requests.ts`, `Confirmation.svelte`, and for the server's side
`mathesar/rpc/records.py` and the four record functions of `00_msar.sql`.

*How the code is cut into steps.* What a function of the client does between two
awaits is one action: `Fetch`, `CreateRecord` and `UpdateCell` are the parts before
the await, `HearList`, `HearAdd`, `HearPatch` the parts after it, and
`deleteSelected()` is three steps: `DeleteSelected`, `HearDelete` (after its RPC) and
the `FinishDelete` part of `HearList` (after its fetch). An RPC is sent, then served
(`ServeList`, `ServeAdd`, `ServePatch`, `ServeDelete`: one transaction of the backend),
then heard. Nothing orders two requests, so they overtake each other. What becomes of
a request is one of `Outcomes`: `answered`, `rejected` (an error answer, or the
request never arrived) or `lost` (it took effect and its answer is lost).

*Cancelling.* A cancelled `CancellablePromise` neither resolves nor rejects, so the
code after its await never runs. A cancelled request for records changes nothing, so
it is dropped; a cancelled create or update is kept, with `live` FALSE, until the server
serves it.

*State.*

| Variable | Code |
|---|---|
| `rows`, `nextPk`, `inserted` | the table and its key's sequence; `inserted` is a history variable |
| `fetches`, `creates`, `patches` | requests under way; `promise`, `createPromises`, `updatePromises` are the live ones |
| `page` | `meta.pagination`, standing for all request parameters |
| `state`, `saved`, `shownPage`, `total` | `state`, `savedRecords`, the offset in their identifiers, `totalCount` |
| `newRows`, `usedIds` | `newRecords`, what `getGloballyUniqueId` has given out |
| `creation`, `modification`, `deletionStatus`, `cellErrors` | the maps of Meta |
| `deletion` | the `deleteSelected()` that has not returned, with its local variables |
| `reported` | rows for which the user was told "deleted" |
| `destroyed` | `destroy()` was called |

*What is abstracted.* One data column, so a cell key is a row key; `Required` says
whether the column is NOT NULL, which is what `validateRow` checks. Sorting, filters,
grouping and search select what a request lists as the page does. Record summaries,
grouping, error texts and `fetchCallback` are left out. The key is an identity column;
the server's rows are listed in key order.

*What is assumed.* One user in one page: nobody else writes to the table. Every
response is JSON (`requests.ts:58-71` never settles otherwise). While a deletion runs the
confirmation dialog covers the page, so the user starts nothing in it (the guard
`Usable`); a refresh caused by a change of the columns still happens.

*The bounds.* `MaxFetches`, `MaxCreates`, `MaxPatches` and `MaxDeletes` bound what the user
starts, never what the program does in response: the refetch of a deletion is not
counted against `MaxFetches`' guard. They are guards of the model and no part of the
code.

### `DatabaseSettings`

Source: `stores/AsyncStore.ts` and `AsyncRpcApiStore.ts`, which most stores of the
client are built on; the contexts `DatabaseRouteContext.ts` and
`DatabaseSettingsRouteContext.ts`; the models `Database.ts`, `Role.ts`,
`ConfiguredRole.ts`, `Collaborator.ts`; the pages of `pages/database/settings/`; and on the
server `rpc/roles/`, `rpc/collaborators.py` and the constraints of `models/base.py`.

*How the code is cut into steps.* As above: up to the await, served, after the await.
`Open` is a page's reactive statement, which asks for the lists that are not there;
`ServeLoad` reads one list of a batch (the server runs the calls of a batch one after
the other, so a change may come between two of them); `HearLoad` gives every store of the
batch its answer. `ConfigureRole`, `RemoveConfiguredRole`, `AddCollaborator`,
`SetConfiguredRole`, `DeleteCollaborator`, `AddRole` and `DeleteRole` send a change,
`ServeWrite` and `RefuseWrite` are the server's transaction, and `HearWrite` patches the
list or sets the object, and resets the lists that depend on it.

*Cancelling.* `run()` keeps its promise in the store, and whatever settles, resets or
reruns the store cancels it. A batch's promise is kept nowhere. `Cancel` therefore
drops the runs of a store and leaves batches: their answers are always heard.

*State.*

| Variable | Code |
|---|---|
| `db`, `nextId` | the PostgreSQL roles, and Mathesar's tables of configured roles and of collaborators; ids come from one counter |
| `stores` | the three stores: `isLoading`, `settlement`; `origin` tells which answer the objects in the list came from, because `setConfiguredRole` changes the object it is called on, shown or not |
| `page` | the page of the settings on screen, or `elsewhere` |
| `loads` | requests for lists: runs and batches, the lists read so far |
| `writes` | changes under way; `here`: the page they were made on is still open (its button spins); `attached`: the settings' context they were made in is still there |
| `lost`, `removed` | history: changes whose answers were lost; configured roles whose removal was reported |

*What is abstracted.* All roles may log in. The members of roles, passwords, the list
of users and the privileges are left out: they are kept by one page or dialog only, or
in objects that no other list depends on. Opening a dialog and submitting it is one
step. A lost answer is one the client hears of as an error.

*What is assumed.* One administrator in one page, and JSON replies. Two of the
properties are about a user who waits (`Patient`): who leaves a page when nothing is
under way, and does not change again what is being changed; on one page several changes
may be under way. Without it they do not hold, and it is a real limit of the code: a
list under way overwrites a patch, a patch of a loading store is dropped
(`AsyncStore.ts:182`), and a page whose lists are reset while it is on screen shows
nothing and asks for nothing.

### `Reflection`

Source: `mathesar/state/`, `models/deprecated.py`, the view sets of tables and columns and
what they call in `db/`.

One worker serves the requests of the REST API. A request changes the user's database
in its own transaction (`CreateEmptyTable`, `AddColumnRequest`, `SplitTable`, `MoveColumns`,
`AddConstraintRequest`, ...), may change rows of Mathesar's, and then reflects:
`SyncDatabasesStatus`, then per database `ReflectSchemasFromDatabase`,
`ReflectTablesFromSchemas`, `CreateTableSettings`, `DeleteStaleTables`,
`ReflectColumnsFromTables`, `SetDefaultPreviewTemplate`,
`InvalidateColumnsWithIncorrectDisplayOptions`, `ReflectConstraintsFromDatabase`: each
reads the catalog or writes rows once, and between two of them others change the
catalog (`OthersChangeDatabase`, which is also what Mathesar's own RPC methods are to the
reflection), the database stops answering (`Outage`) or the worker restarts (`Restart`).
A row is named by what identifies it (a table by database, schema and oid), so deleting
and making it again is visible in what it lost. `clean[d]` is history: no side changed
since the reflection of `d` began.

The settings of a table say which column its preview shows and whether a user customized
it (`CustomizePreview`, `ResetPreview`). A reflection computes the default anew for the
tables that follow it (`Follows`) and leaves a customized template as it is, so what is
promised of previews is said of the former only. `ResetPreview` deletes the old settings before
it computes the default, and a table whose default cannot be computed is left without any.

### `DbFunctions`

Source: `db/functions/`, `mathesar/functions/`, `mathesar/filters/`, and the steps of
`api/db/viewsets/records.py` and `api/pagination.py`.

A function is a row of a table (parameters' hints, what it returns, the SQL function it
needs) and a meaning on sequences of at most one value, the empty one being NULL. A packed
function has the meaning of what it unpacks to, `Unpack`. A filter, nested JSON in the
code, is a function from places (the positions of the parameters that lead to a node) to
nodes, so that what the code does by recursion over the JSON (rewriting, collecting
columns, checking ids of functions) is said of all nodes at once; only `Evaluate`, as a function
over places, and `Like`, as a function from the places in a pattern to the places in the text
from which the rest of it matches, recur. A request is four steps: `RewriteFilter` (ids to names), `BuildQuery`
(deserialise, check the columns, unpack) and `RunQuery`, the last two twice, for the count
and the page. Columns are renamed and dropped between them.

### `Explorations`

Source: `db/queries/`, `db/transforms/`, `db/records/operations/`, `models/query.py`,
`utils/explorations.py`, `utils/preview.py`, `api/pagination.py`.

A relation has columns, those of them that are primary keys of the tables they come from,
and rows with values, ranks in the order asked for and a group; rows of one rank come in
any order (`Arrangements`), which is what SQL promises. Each transformation ends in a CTE,
whose columns are still primary keys if those they stand for are: hiding, selecting and
summarizing keep the keys that are left (`KeysGroupedBy`). An order is completed by these
(`Deterministic`), and by all columns only when there is neither an order nor a key. Keys of
several tables are completed in the order of a Python set, which each query may
choose differently, so an order stands for a set of them, and a row has a rank in each.
`InitialRelation` joins along foreign keys, each path once; `Finish` completes a summary;
`Listed` is what a listing asks of the result. Requests are of four kinds: a run of the
RPC API (`RunExploration`, `RunSavedExploration`), a listing of an exploration's records
(`ListRecords`), a query of the REST API (`RunQuery`) and a table's records with previews
(`ListTableRecords`); each goes through some of `FinishSummaries`,
`ProcessTransformations`, `FetchRecords`, `DescribeColumns`, `CountRecords` and
`NextPage`, every one a transaction, and others insert, delete and drop in between.
PostgreSQL refuses an insertion that a constraint forbids, so what is unique stays so
(`ConstraintsHold`). The tables are lists that satisfy the constraints at first, foreign keys
refer to what is unique (PostgreSQL asks for it), and queries name tables there are and
transformations the library knows (`ContentsAssumption`, `QueriesAssumption`, which TLC
evaluates).

### `DataFileImport`

Source: `mathesar/imports/`, `utils/datafiles.py`, `utils/tables.py`, `db/types/operations/cast.py`,
`infer_types.py`, `columns/operations/alter.py`, the serializers of tables and data files, and
`db/tables/operations/import_.py`.

Casts are sets of results on representative texts, empty when the function raises. An
upload has a form (delimited, JSON, scalar, sheet), lines and objects; `DataFiles` gives it
a type and reads it. An import is `StartImport`, `CreateTable`, `Fill`,
`UpdatePkSequenceToLatest`, `DropTable` (before the retry) and `FinishImport`, each a
transaction; RPC's is one (`ImportCsv`). A request for types copies the table under a name
with the second, tries the types column by column and drops the copy. A change of
the table is a rename and then the columns, all in one statement. The statement casts row by
row, and within a row the columns in some order (the request's is lost in a join without
ORDER BY); a cast to dates or to timestamps without a zone leaves UTC as the zone of the
transaction (`LeavesUtc`), and the casts that come after it work in that zone (`ZoneAt`).
Inference needs none of this: each column is changed in a transaction of its own.
`TypeChangesKeepMeaning` says what that leaves of a text without a zone: it is read in the session's
zone, or in UTC where another column of the change becomes one of dates or timestamps. Others create tables of the same name,
rename, and add rows; a server stops; the clock ticks. The name of a table is the tuple of
its word and the numbers added to it.

### `RpcMethods`

Source: `rpc/`, `mathesar/models/base.py`, `utils/permissions.py`, `db/install.py`,
`db/dependents/`, `00_msar.sql`.

A set-up is two things that know nothing of each other: the Django rows, one transaction
which is seen only when it commits, and what is installed, one transaction per part in the
user database. `SetupRows` is what the first finds and what it will enter; `Connect` and
`install_mathesar` install; `FinishSetup` loads the samples and commits. `BreakSetup` ends a set-up at any
step, when the Django rows are rolled back and what was installed stays.

Meanwhile other requests are served. Django's foreign keys are deferred, so a database that
is disconnected or a role that is removed goes although rows not yet committed refer to it
(`Losing`); the commit then finds out, and is refused after the samples are in the database
(`LoseSetup`). A request that would enter a row the set-up has entered waits for its
end (`Enters`, `EntersPlace`), which is what a unique index does. While a database is being
installed it has a connection open and cannot be dropped.

`migrate_connection_for_user` (`connections.grant_access_to_user`) enters the same rows for an
old-style connection, which may name any place, in one step: it installs nothing and
connects to nothing. `bare` is history: the databases that were listed in this way, or
dropped, and not set up since. Collaborators, roles, passwords and databases change
by methods that are one action each.

A method on tables is one action: the whole of `DataModeling`'s effect, or nothing. Other
requests on the user's tables go through the connection of the collaborator who calls
(`connect`), so they need a usable one.

### The runs

| Run | Bounds | Shows |
|---|---|---|
| `records_fetch` | 1 new row, 2 pages of 1 row, 2 more fetches, 1 create, 1 deletion, all outcomes; 117 thousand states | type, `LoadingIsAwaited`, `ProcessingIsAwaited` (deletions), `ReportedRowsStayGone`, `NothingBringsBack`, refinement of `LatestWins` |
| `records_edit` | 2 new rows (symmetric), a required column, 2 creates, 2 updates, 1 more fetch; 1.7 million states | `StatusIsOfNewestRequest` under edits that replace each other |
| `records_live` | 1 new row, 1 page, 1 refresh, 1 create, 1 update, 1 deletion; 234 thousand states | `LoadingSettles`, `ProcessingSettles` |
| `settings_free` | 1 role, configured, 1 collaborator; 3 requests for lists, 1 change, answered or lost, impatient; 146 thousand states | type, `LoadingIsAwaited`, `LoadingSettles` |
| `settings_patient` | 2 roles, 1 configured, 1 collaborator; 4 requests for lists, 3 changes, ids up to 4, all outcomes, patient; 589 thousand states | `ListsAgreeWithServer`, `PageIsFed` |
| `reflection` | 1 database, 2 schemas, 2 oids, 3 attnums, 1 statement of others, 2 requests; 416 thousand states | rows refer to rows, `RowsAgreeWithCatalog`, `OptionsKept`, `ReflectionCatchesUp` (liveness) |
| `filters` | 2 columns, every kind of value, every set of installed functions that matters, 2 changes by others; 205 thousand states | `FiltersMeanWhatTheySay`, `OfferedFiltersWork`, `FilterFollowsItsColumn` |
| `explorations` | 3 contents of 3 tables, 12 queries, 14 listings, pages of 2, 1 change by others; 218 thousand states | `PagesCoverTheResult`, `GroupsCoverThePage`, `JoinsKeepBaseRows`, `AliasesAreTraced`, `OneRowPerBaseValue`, `DescribedColumnsAreExplained`, `PreviewsShowReferredRows` |
| `imports` | about 70 uploads, 2 requests for types (symmetric), 2 steps of others or changes, of one column or of all, every zone; 344 thousand states | `PromisedCastsWork`, `SuggestionsFit`, `NextIdIsFree`, `CopiesHaveOwners`, `TypeChangesKeepMeaning`, `ImportedRowsAreTheFiles` |
| `rpc` | 2 users (symmetric), 2 servers, 4 databases, 2 passwords, samples of 1 or 2 schemas, 3 calls around set-ups or 2 methods on tables of up to 3 columns and 5 rows; 488 thousand states | `RowsReferToRows`, `RegisteredDatabasesAreInstalled`, `ReferencesHold`, `SetUpsKeepConnections`, `ValuesAreKept`, `DependentsForetellDrops` |
| `ordering_is_total`, `imports_touch_only_new_tables` | those of `explorations`; one request and one step of others | the first two of the statements below that do not hold |

Each property is stated in a comment above its definition, with its exceptions; where a
property has several parts (`TypeOK` of a module is part of one of them in the last five
passing runs), each part is a definition of its own.

*Why the bounds are enough.* They are the smallest at which the interesting cases
happen. Two fetches can overtake each other while a deletion refetches (three requests
for records); two creates of one row and two updates of one cell replace each other,
with another row beside them; a row becomes saved by a list while its create is
unheard. For the settings, three requests for lists are a batch, one that overtakes it
and the run of the roles' page. For the reflection, one statement of others falls between any two steps of a
request, and a second request meets what the first left. For filters, two changes let
a name pass from one column to another between two steps. For explorations, the
contents have NULL references, ties, two references to one table, a table without rows
and rows referred to several times; three rows and pages of two make two pages, and there
are queries that keep their key and queries that hide it. For
imports, the uploads have a value for every branch of every cast, ids that repeat, are
no numbers or are the greatest, rows of other lengths, nested objects and empty cells, and
one has two columns of dates and times, which may be changed to different types at once
(`Together`: text, date and timestamp with time zone).
For the methods, a table has equal rows, NULLs, a row nobody refers to and a reference
that is moved or split along, and views are chained past the depth that is listed.

*Constants smaller than the code's*: `CheckRows` 2 for 10, `MAX_LEVEL` 2 for 10,
`MaxDepth` 2 for 3, the page size. The model has them as constants, and nothing
depends on their values but where the boundary lies.

*What the runs leave out on purpose*: several set-ups at once; dropping or renaming the id
column; NOT NULL and default values; views made after the start; templates that name a
column twice; aliases given their own name; explorations that are saved with null for
their transformations are refused when they run, as in the code. A split and a move are one
step, as they are one transaction.

Deadlock is not checked (`CHECK_DEADLOCK FALSE`): the user may stop, and the bounds
make it so.

*Fairness* (`FairSpec`, for the liveness runs): a request that was sent is served, and
an answer is heard, for each kind of request. Requests end (the browser turns a
connection that breaks into a rejection) and the browser runs the callbacks of a
settled promise. The user is never obliged to anything. `LoadingSettles` holds for a
user who asks for finitely many fetches; one who refreshes faster than the server
answers can keep any page loading. `LoadFairness` assumes the same of the requests for
lists; nothing is assumed of the changes, since no spinner of a store waits for one. The
reflection's worker goes on with the request it serves (`WF_vars(WorkerStep)`): its thread
is scheduled, and every statement it sends is answered or fails. Nothing obliges users or
others to ask for anything.

### Where the code and what is said of it disagree

Twelve configurations show a statement of the repository that the code does not keep, each
by a counterexample of TLC. The first two are runs of the project; the others are kept
beside the runs and are started by hand, as
`tlc -config DuplicateKeys.cfg MCRecordsData`.

| Configuration | Statement | What happens |
|---|---|---|
| `ExplorationsOrder.cfg` (run `ordering_is_total`, `MCExplorations`) | "the ordering is always total" (`db/transforms/operations/apply.py:36`) | an order that is given is completed with the primary key columns the relation still has; when the key is hidden, there is none, and rows that tie are on two pages or on none |
| `ImportsTaken.cfg` (run `imports_touch_only_new_tables`, `MCDataFileImport`) | "We only currently support importing to a new table" (`api/serializers/data_files.py:33`) | the retry drops the table by the requested name, which is another's when the name was taken |
| `ImportsIsolated.cfg` (`MCDataFileImport`) | the cast changes the time zone of the transaction, "so this function call should be used in a isolated transaction" (`db/types/operations/cast.py:517-519`) | one statement casts several columns: one that becomes dates has another, of timestamps with a zone, read in UTC |
| `ReflectionFirst.cfg` (`MCFirstReflection`) | "a mechanism to ensure that at least one reflection has happened" (`mathesar/state/base.py:37-38`) | the flag is set before the attempt; after one that fails it is set and no reflection has happened |
| `RpcMoves.cfg` (`MCRpcMethods`) | "should be IS NOT DISTINCT FROM" (`00_msar.sql:4170`) | a row with a NULL in a column that is moved matches nothing, keeps its reference, and finds another row's values |
| `DuplicateKeys.cfg` (`MCRecordsData`) | no duplicates among the keyed rows (`records.ts:532-534`) | a row added while the page loads is both listed and a new row |
| `DoubleCreate.cfg` (`MCRecordsData`) | no other row is created for a new row (`records.ts:732-733`) | editing a row whose create is under way stores it twice |
| `DeletedRowStored.cfg` (`MCRecordsData`) | unsaved records are deleted (`records.ts:526-527`) | a create under way stores the row after it was reported deleted |
| `CreationStatus.cfg` (`MCRecordsData`) | rows not newly added have no creation status (`meta.ts:136`) | rows made saved by a deletion's refetch keep theirs |
| `EmptyPageCount.cfg` (`MCRecordsData`) | `count` is the number of records in the table (`rpc/records.py:140`) | 0 for a page past the end |
| `CascadeShown.cfg` (`MCDatabaseSettings`) | the list of collaborators is reset since the removal of a configured role cascades (`DatabaseSettingsRouteContext.ts:113-114`) | a page opened during the removal shows the collaborators that are gone: its batch was served before and is heard after the reset |
| `DeleteReturns.cfg` (`MCRecordsData`) | `deleteSelected` returns a number (`records.ts:461`) | never, when another fetch cancels the one it awaits |

Two more were met while modelling and need no model to be seen. The status of a failed
deletion is entered and cleared by the next statement (`records.ts:552-558`, against
`meta.ts:127-129`). And `clearAllStatusesAndErrorsForRows` (`meta.ts:240`) compares the first
character of a cell's key with the rows it is given, so it clears no cell. Both are
modelled as they are (`FinishDelete`, `ClearAllStatusesAndErrorsForRows`).

## 3. The proofs

`RecordsDataProofs` proves, for all values of the constants (any number of rows,
identifiers, pages, values, outcomes, requests), from the named assumptions of
`RecordsData`: identifiers are no numbers, the blank value is a value, pages hold at
least one row, and the bounds are numbers.

| Theorem | Statement |
|---|---|
| `TypeCorrect` | `Spec => []TypeOK` |
| `NewestIsHeard` | `Spec => []OnlyNewestIsHeard` |
| `Implementation` | `Spec => ImplementsLatestWins` |
| `SpinnerIsAwaited` | `Spec => []LoadingIsAwaited` |
| `MarksAreAwaited`, `StatusesAreCurrent`, `NewestWriteIsHeard` | `Spec => []ProcessingIsAwaited`, `[]StatusIsOfNewestRequest`, `[]OneWriteIsHeard` |
| `KeysIssued` | `Spec => []KeysAreIssued` |
| `DeletedIsNowhere`, `DeletionIsFinal` | `Spec => []NothingBringsBack`, `[]ReportedRowsStayGone` |

*The argument.* `TypeOK` is inductive with one lemma per operation. `OnlyNewestIsHeard`
is inductive by itself: every fetch cancels the newest request, which is the only one.
From it, `LoadingIsAwaited` is inductive, and every answer that is heard is to the page
the user is on, which is the step of the refinement.

For the statuses, `ProcessingIsAwaited` and `StatusIsOfNewestRequest` are not inductive:
an answer removes a request from those under way, and one needs that no other request
for the same row is listened to (`OneWriteIsHeard`), and that the key a create is
answered with is no identifier. Their conjunction, written per kind of write
(`CreationInv`, `ModificationInv`, `DeletionInv`), is.

`ReportedRowsStayGone` says something of one moment, and the ways to break it go
through every place where a key may linger: a list served before the deletion, a new
row that got its key, a create whose answer is under way, a row stored later under the
same key. `NothingBringsBack` says that a deleted key is in none of these, and needs
`KeysAreIssued` for the last one and for creates of rows that are gone. Both, with `TypeOK`
and `OnlyNewestIsHeard`, are inductive.

### `DatabaseSettings`

`DatabaseSettingsProofs` proves, for any names, users, ids, outcomes and bounds, and for
patient users and others, from the named assumptions of `DatabaseSettings` (ids are
numbers, what the server holds at first is well formed):

| Theorem | Statement |
|---|---|
| `TypeCorrect` | `Spec => []TypeOK` |
| `SpinnerIsAwaited` | `Spec => []LoadingIsAwaited` |
| `ListsAgreeHolds`, `PageIsFedHolds` | for a patient user, `Spec => []ListsAgreeWithServer`, `[]PageIsFed` |

*The argument.* `TypeOK` says more than types: a run is for the roles only, what is
unread of a request is part of what it was asked for, each answer is a list of its store,
and of all the runs under way one at most can be heard. `Load` keeps the last because it
cancels the runs of the stores it asks for; it is what the promise in a store is for.
`LoadingIsAwaited` is inductive given `TypeOK`. The step worth reading is `HearWriteAwaits`:
what a change cancels are runs of stores that it resets or that were not loading, so no
spinner loses its request.

*Users who wait.* `ListsAgreeWithServer` and `PageIsFed` hold only for them (`Patient`), and
neither is inductive. `PatientInv` adds why they hold: one request for lists is under way at
a time, its stores load, and what it has read is still what the server holds
(`LoadsOfPage`); a change belongs to the open page, and no list it will patch or reset is
being asked for (`WritesOfPage`); ids are given once and an entry is changed once at a time
(`IdsGiven`, `KeysDiffer`); a change touched its own entry, and, if it removed it, entries
of lists that will be reset, and what its answer tells is so (`Told`); an object that is
being set is the one in the list (`SetIsShown`), and its id stands for the user it stood
for (`UsersStay`). The step that needs all of it is `HearWritePatient`: the patched list
agrees because the answer is still true, and the cascade is covered by the reset. TLC
checked `PatientInv` on `settings_patient` before it was proved.

### `Reflection`

`ReflectionProofs`, for any databases, schemas, oids, columns and numbers of statements and
requests. The assumption beside numbers being numbers is that a schema exists and a table
may have two columns: the code presumes `public`, and makes tables with an id and links
with a key.

| Theorem | Statement |
|---|---|
| `RowsReferToRowsHolds` | `Spec => []RowsReferToRows` |
| `RowsAgreeHolds` | `Spec => []RowsAgreeWithCatalog` |
| `OptionsKeptHolds` | `Spec => OptionsKept` |

*The argument.* `RowsInv` is inductive: the catalogs are well formed, rows refer to rows, and
the worker's state fits the step it is at. The last is the point: a step works on the tables
an earlier step read (`scope`), others change the catalog meanwhile, and yet the schemas of
those tables have rows all along, since only reflections delete such rows and there is one
worker. `RowsReferToRows` follows.

`RowsAgreeWithCatalog` says what is so at the end of a reflection, so `ReflectionInv` says
how far the rows agree at each step (`AgreeUpTo`) while nobody disturbs (`clean` is
`"so_far"`), and that a step never undoes what an earlier one has brought into agreement.
`OptionsKept` is proved from it, one lemma per step that writes options: a reflection
others disturb is excused by the property, and in one they do not, the steps delete only
what `AgreeUpTo` says is not in the catalog. What a user customized is a step of
`SetDefaultPreviewTemplate` away from being lost, which leaves alone all that does not
follow the default.

### `RpcMethods`

`RpcMethodsProofs`, for any servers, users, roles, passwords and samples, any numbers of
tables, columns and rows, and any initial tables that are well formed and whose references
refer (`RpcAssumption`, which TLC evaluates on those of the run). Initial views have oids
below the tables' (the model gives new tables natural numbers as oids).

| Theorem | Statement |
|---|---|
| `RowsReferToRowsHolds` | `Spec => []RowsReferToRows` |
| `RegisteredDatabasesAreInstalledHolds` | `Spec => []RegisteredDatabasesAreInstalled` |
| `SetUpsKeepConnectionsHolds` | `Spec => SetUpsKeepConnections` |
| `ReferencesHoldAlways` | `Spec => []ReferencesHold` |
| `ValuesAreKeptHolds` | `Spec => ValuesAreKept` |
| `DependentsForetellDropsHolds` | `Spec => DependentsForetellDrops` |

*The argument.* `RpcInv` is inductive: `DatabaseSetupInv`, tables that are consistent and views
that read them, and metadata of databases there are.

`DatabaseSetupInv` relates the set-up under way to what others do beside it. Each row that a
set-up found is there, or was removed and is known to be gone, which its commit
looks for, and each row it is to enter is still not there (`RowsFit`, part of `JobOK`): nobody else has
entered it, the old-style connections included. And what
it has left to do tells what it has installed (`Progress`), so that a row that becomes
visible stands for a database with every part, unless it is in `bare`. A set-up that breaks leaves its parts
behind, which is why a later one may find some of them.

The methods on tables rest on the first part of the module: for each method, that a well-formed table
stays so and that references refer. Those of the split and the move are the long ones.
Extracted rows are numbered by their place in the order of their values, and rows get their
reference from the same place: that the two agree needs the order to be total
(`BeforeIsTotal`, `CopyOrderIsTotal`), and that the places of a finite set are 1 up to its
size (`OrderLemmas`). From there, a reference of an extracted row is below the next
id (`SplitKeeps`, `MoveKeeps`), and following it gives the values back
(`SplitKeepsWhatRowsHeld`, `MoveKeepsWhatRowsHeld`).

`DependentsForetellDrops` compares two closures. The listing goes level by level from the
object asked about, along pairs of a dependent and what it depends on; what is dropped is
found by PostgreSQL's rules, constraints, references and views of what goes. `Listed` is the
least set closed under the pairs (`ListedIsLeast`, `ListedIsClosed`: a member missed is missed
at a least level, and the level before it lists what it depends on), unless it was cut
off, which is the only exception; likewise the views of a view are the least closed set
of them. So each of the two contains the other if it is closed under the other's rules:
`DependentsOfTableGo` and `DependentsOfGoneGo` say it in one direction, `TableDropForetold` puts
both together.
Columns are dropped only when no view reads them, so all that goes with them is listed at
the first level (`ListedForColumn`). That no other method takes a table or a column along
is shown method by method.

*The model was changed for this* in what it says of its constants (the assumptions above) and
in how it is written: mappings by `Mappings`, well-formedness of a table as an operator
of `DataModeling`, and parentheses about unions. No step of it was changed.

### `DataFileImport`

`DataFileImportProofs`, for any uploads, requests, texts others add and bounds. The
assumptions (`ImportAssumption`) are that the lines and objects of an upload are tuples and
that columns are changed to types Mathesar knows. For `CopiesHaveOwners` and `NextIdIsFree`
nothing is used of the casts but whether all cells of a column can be cast.

| Theorem | Statement |
|---|---|
| `CopiesHaveOwnersHolds` | `Spec => []CopiesHaveOwners` (with `TypeOK`) |
| `SuggestionsFitHolds` | `Spec => []SuggestionsFit` |
| `NextIdIsFreeHolds` | `Spec => []NextIdIsFree` |
| `PromisedCastsWorkHolds` | `Spec => []PromisedCastsWork` |
| `FailedImportsLeaveNoRows` | `Spec => [][NoRowsAreLeft]_vars`, the second part of `ImportedRowsAreTheFiles` |

*The argument.* None of them is inductive; `ImportInv` is. Its part on requests and copies
(`Owned`) goes both ways: a request that infers has a copy, and a copy has a request that
infers or was stopped, by its name; then a request whose name is taken fails and never
works on another's copy. A copy that is under way has the types found so far, each fitting
the table as it was copied (`Found`), and so have the suggestions made of it. A suggestion
is tried in the session's zone, and applied together with others perhaps in UTC, so that it
fits is said of both: a text that can be cast to a type that inference tries can be cast to it in UTC,
too (`TextsFitInUtc`, cast by cast), since the zone only moves the hour of a moment and
UTC does not move it at all. What is said
of tables by oid is kept by every step of the catalog: a table is new, or has the
columns it had (`Evolves`), and if its next id was free it still is (`FreeStays`). The
import itself carries, step by step, that the table it has made last is there, that a
retry has no id column, and that at `finish` the next id is free (`ImportOK`); that names
found by counting up are free needs that fewer names are taken than numbers are tried
(`FirstFreeIsFree`). TLC checked `ImportInv` on the uploads of `imports` before it was proved.

`PromisedCastsWork` and `FailedImportsLeaveNoRows` rest on a second invariant, `CellsInv`. Columns
have types that casts are offered to, and cells of URIs have a scheme (`TablesFit`): the types
that are found, suggested and asked for are offered ones (`TypesOffered`), and what a
cast to a type gives is a value of it. From there, that each cast offered has a function
is a comparison of the map of offered casts with those the functions are made from, which
differ; and the two previews, of which one casts a column to its own type and the other
does not, agree because a cast of a value to the type it has changes nothing (`CastToItself`),
which is not so of text that a URI column could not hold. While an import is under way the
tables it has made are changed by nobody else, they have text columns only and no rows
before the step that fills them, and there is one unless the import was tried again
(`ImportsAlone`); so an import that fails does so where its tables are empty, or in the step
that sets the sequence, which only the greatest id can make fail (`FailsEmpty`).

*The model was changed for this* in how it is written only: mappings by `Mappings`, also those of
the casts, what `dropna` keeps by places instead of a filter of the library, names of tables
as tuples, the map of offered casts in three definitions, and `NoRowsAreLeft` as a
definition of its own.

### `DbFunctions`

`DbFunctionsProofs`, for any columns, names, numbers, kinds of values others change the table
of and number of their statements. The assumption (`FunctionsAssumption`) is that the two
columns filters are about are two, and that there are names for all columns.

| Theorem | Statement |
|---|---|
| `FilterFollowsItsColumnHolds` | `Spec => []FilterFollowsItsColumn` (with `TypeOK`) |
| `OfferedFiltersWorkHolds` | `Spec => []OfferedFiltersWork` |
| `FiltersMeanWhatTheySayHolds` | `Spec => []FiltersMeanWhatTheySay` |

*The argument.* `FollowsInv`: the filter by names is the filter rewritten to the names the columns
had at a moment no more statements of others ago than are counted (`SpecIsTheFilter`), and
its names were checked against the relation, which holds while nobody has changed it
(`NamesWereChecked`). One statement drops a column, or gives one column a name that was not
in use; so after one statement a query that still runs can name no column but the ones the
filter was sent for (`OneStatementMisleadsNobody`). It takes two to hand a name on.

`OfferedInv`: what is sent is a good filter (`GoodFilter`): its functions are known, have as
many parameters as they take, call only what is installed, and are conditions where
conditions are asked for; rewriting keeps all of it. While the table stays as it is, a good
filter passes every check (`GoodFiltersPass`). The first part of `OfferedFiltersWork`, on types of
the interface, is about the tables of hints and types (`HintsAreSatisfied`): each hint set a
filter asks for is one that some type of the interface has.

`FiltersMeanWhatTheySay` follows from the two, since a query that answers with rows reads the columns
the filter was sent for and is a condition; what is left is that such a filter, evaluated,
says what it promises (`FilterSelects`). Three things had to be found for it.

- *What a tree evaluates to.* `Evaluate` chooses a recursive function over the places of a tree. That
  there is one, and that all give the root the same value, is not proved by induction
  over trees but composed: a leaf yields its value, and a call of trees that yield values
  yields what its function makes of them (`CallYields`); the filters that are sent are at
  most three levels deep, so this suffices (`TestYields`, `FilterSelects`).
- *What LIKE says.* The recursive function over the places of a pattern is unique, by the
  smallest place at which two of them would differ (`OneMatching`), and for a pattern made of
  a text, with wildcards about it, the function that gives the places where the text occurs is
  one (`PlacesOfPattern`); so LIKE asks for a prefix or an infix, for all texts of the letters
  the model has, in either case (`TextMatchSays`).
- *What a function says.* A function, packed or not, says TRUE where its test holds, FALSE where it
  fails and NULL where there is no value (`Says`): shown for each group of functions, through
  what it unpacks to. Which column kinds a function is offered for comes from the tables of
  hints (`KindsHinted`), and with it what values it meets (`TestSays`).

The values of the columns are those of `Values`, all numbers but three texts; the filters are
those of `Tests`, alone, negated and combined with a test of another column.

*The model was changed for this*: filters were nested records and operators on them RECURSIVE;
they are functions over places now, as described in section 2, packed functions are given by
what their unpacked form computes, and `Like` is a function of one argument. TLC found the same states and the same answers as before.

### `Explorations`

`ExplorationsProofs`, for any contents of the tables, foreign keys, constraints, templates,
queries, listings, page size and number of changes by others, from the three assumptions of
`Explorations`.

| Theorem | Statement |
|---|---|
| `DatabasesStaySound` | `Spec => []JoinsInv` |
| `JoinsKeepBaseRowsHolds` | `Spec => []JoinsKeepBaseRows` |
| `OutputAliasesAreColumnsHolds` | `Spec => []OutputAliasesAreColumns`, the first half of `AliasesAreTraced` |
| `PagesAreNeverTooLong` | `Spec => []TypeOK`, a part of `PagesCoverTheResult` |
| `CountIsOfThePagesHolds` | `Spec => []CountIsOfThePages`, another part of it |

*The argument.* `JoinsKeepBaseRows` is about values, not steps: it follows from `JoinsInv`, which
is inductive. Constraints whose columns are left hold, tables are lists, and whatever is
asked for is a query on tables there are, the one made of a table's templates included.
A join along a foreign key is an outer one and what the key refers to is unique, so each row
has one row of the join or, with no row to refer to, one with NULLs: the join is a
list as long as what it extends. When the column a key refers to is dropped, so is its
constraint, but then the query fails.

A query joins along a sequence of paths, and transforms by a sequence of
transformations, so both are folds. That a fold keeps what each step of it keeps would be proved by
induction over the sequence, with a theorem that takes an operator. Instead the function a fold is chosen as is shown
to exist, by the smallest number of elements for which it would not (`StepsAreThere`); a
fold then is the last of a list of results, each one step from the one before
(`FoldsGoStepByStep`), and if every step keeps a set of results, there is no first result
that is not in it (`StepsKeep`).

`OutputAliasesAreColumns` is said of one transformation first (`TransformationGivesItsAliases`): the
columns of what it makes are what the code works out from the columns it is given, without a
query. It needs what is transformed to be transformations (`SpecInv`), also the summaries
that the server has completed (`FinishedAreTransformations`). For `TypeOK`, each transformation, order,
search and grouping gives a list of rows when given one (the `...HasRows` lemmas), and a page is a part
of at most `Limit` of them (`SlicesAreLimited`); `PagesInv` adds that offsets are numbers.

`CountIsOfThePages` is about two queries and many steps: the count is made by one query, the
pages by one each, and `CountInv` says what they have in common. The finished transformations
are the same each time (`FinalSpec`), so while nobody changes anything every page
is cut from an arrangement of one list (`Whole`) behind all pages before it, and is as long as that
leaves it (`PageLength`), and the pages end up holding as many rows as the list (`PagesHoldTheRows`). What is counted
(`Counts`) leaves out the order, the grouping and, for a table, the previews. An order and
a grouping that is no range keep the rows there are (`CountedIsListed`). Without the previews
the joins are gone, and with them some of the columns: but each alias stands for
one column on one path (`FetchedColumnsDiffer`), a join keeps the row of the base table
in its place (`JoinedKeepsTheBase`), and a filter both queries accept is on a column of
the base table, which has the same values in both (`TablesAreCountedAsListed`).

*The model was changed for this.* Insertions that a constraint refuses are refused in the
model as well; the run has one more insertion, which reaches such a case. The others are changes of
writing: choices from a list by places instead of filters of the library
(`Those`, `At`, `Sorted`), mappings by `Mappings`, previews by a recursive function, and assumptions about
the contents and the queries.

### What is only model-checked

- *Liveness*: both `LoadingSettles`, `ProcessingSettles`, `DeleteSelectedReturns` and
  `ReflectionCatchesUp`. They need fairness and ENABLED, which the prover does not handle.
- *What readers and casts compute*: `TypeChangesKeepMeaning` and the first part of
  `ImportedRowsAreTheFiles` compare texts and values that casts and readers make of them, and are
  decided by evaluating the functions.
- *Explorations*: what queries answer with, beyond being lists of rows with known columns.
  `PagesCoverTheResult` (but for its parts on types and on the count) and `GroupsCoverThePage` relate pages that are cut from
  different arrangements of rows that tie; `OneRowPerBaseValue` and the second half of
  `AliasesAreTraced` follow values and aliases through every stage of a query, where a
  given alias may hide another of the same name; `DescribedColumnsAreExplained` and
  `PreviewsShowReferredRows` follow references recursively. What they need is an
  induction over the stages that says which values, and NULLs, a column may have.

The statements that do not hold have counterexamples, of course, and no theorems.

## 4. The plan

*Done*: the record store and `LatestWins`; the async stores in the settings of a database;
reflection; filters; explorations with groupings and previews; casts and data file imports;
set-ups, methods on tables and dependents; proofs of the record store, the settings,
reflection, filters, imports, the methods of the RPC API, and the joins, aliases and pages
of explorations.

*What is left to do*:

1. `Explorations`: `OneRowPerBaseValue`, as `OutputAliasesAreColumnsHolds` is proved, from a
   set of relations whose joined columns depend on the base column and which each step keeps;
   then `PagesCoverTheResult` from the order of the result.
2. `DataFileImport`: the first part of `ImportedRowsAreTheFiles` for delimited text, whose rows
   are read without folds.

## 5. What is not modelled

`PROJECT.json` says of each component why. In short:

- *Client*: sheet selection, undo and redo of the data explorer, forms, toasts, modals
  (synchronous state of one component, without requests); columns and constraints
  stores, navigation stores, record page and selector, import page (one request at a
  time, of the pattern that `RecordsData` and `DatabaseSettings` show in full).
- *Backend*: errors and their wording, the connections of the REST API (predecessors of the
  set-ups, but for the move of one to the new rows), schemas, comments, privileges and members of roles, users and settings.
- *Within what is modelled*: concurrent users of one table page and keys users may edit
  (`RecordsData`); members, passwords and several administrators (`DatabaseSettings`); two
  workers reflecting at once and the caches of a request (`Reflection`); functions that only
  preprocess groupings (`DbFunctions`); aggregations other than counts and lists
  (`Explorations`); arrays, lengths and precisions of types, encodings, and imports into an
  existing table (`DataFileImport`); triggers, functions, sequences and schemas as dependents,
  check and exclusion constraints, and what another transaction sees in the middle of a
  split or a move (`RpcMethods`).

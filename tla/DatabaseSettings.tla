-------------------------- MODULE DatabaseSettings --------------------------
(***************************************************************************)
(* The settings of a database: three asynchronous stores (AsyncStore.ts,   *)
(* AsyncRpcApiStore.ts) that keep lists of the server - roles, configured  *)
(* roles, collaborators - and are shared by three pages; the contexts that *)
(* own them (DatabaseRouteContext.ts, DatabaseSettingsRouteContext.ts);    *)
(* and the tables on the server that the lists are read from.              *)
(*                                                                         *)
(* A page that opens asks for the lists it needs and does not have.  What  *)
(* the user then changes is sent to the server, and the lists are patched  *)
(* by hand when the answer comes, or reset.  Requests take three steps     *)
(* (sent, served, heard), in any order.  A batch asks for several lists in *)
(* one request and cannot be cancelled; a run asks for one and can.        *)
(*                                                                         *)
(* All roles may log in.  Members, passwords and the list of users are     *)
(* left out: no two pages keep them.                                       *)
(***************************************************************************)
EXTENDS Integers

CONSTANTS
    Names,        \* names of roles
    Users,        \* users of Mathesar
    MaxId,        \* bound: the highest id the server gives out
    InitialDb,    \* what the server holds when the page is opened
    FirstFree,    \* the first id it gives out
    Outcomes,     \* what may become of a request
    MaxLoads,     \* bound: requests for lists
    MaxWrites,    \* bound: requests that change something
    Patient       \* does the user wait for what he started?

Stores == {"roles", "configuredRoles", "collaborators"}
Settings == {"configuredRoles", "collaborators"}   \* owned by the settings
Pages == {"roleConfiguration", "collaborators", "roles", "elsewhere"}
Ids == 1 .. MaxId
NoId == 0
Entries(s) == IF s = "collaborators" THEN [user: Users, role: Ids] ELSE Names
AllEntries == UNION {Entries(s) : s \in Stores}
Lists(s) == UNION {[D -> Entries(s)] : D \in SUBSET Ids}
AllLists == UNION {Lists(s) : s \in Stores}
Dbs == {d \in [Stores -> AllLists] : \A s \in Stores : d[s] \in Lists(s)}

ASSUME IdsAssumption == MaxId \in Nat /\ FirstFree \in Nat \ {0}
ASSUME InitialDbAssumption ==
    InitialDb \in Dbs /\ \A s \in Stores : DOMAIN InitialDb[s] \subseteq 1 .. FirstFree - 1
ASSUME OutcomesAssumption == Outcomes \subseteq {"answered", "rejected", "lost"}
ASSUME BoundsAssumption == {MaxLoads, MaxWrites} \subseteq Nat
ASSUME PatientAssumption == Patient \in BOOLEAN

VARIABLES
    db,           \* the server: store -> id -> entry
    nextId,       \* the next id it gives out, for all its tables
    stores,       \* the three stores of the client
    page,         \* the page on screen
    loads,        \* requests for lists
    writes,       \* requests that change something
    loadCount, writeCount,
    lost,         \* history: changes whose answers were lost
    removed       \* history: configured roles reported as removed

server == <<db, nextId>>
counts == <<loadCount, writeCount>>
vars == <<server, stores, page, loads, writes, counts, lost, removed>>

(***************************************************************************)
(* Lists: ImmutableMap's with and without.                                 *)
(***************************************************************************)
Nothing == [i \in {} |-> i]
With(f, i, e) == [j \in DOMAIN f \cup {i} |-> IF j = i THEN e ELSE f[j]]
Without(f, i) == [j \in DOMAIN f \ {i} |-> f[j]]

(***************************************************************************)
(* The operations of an AsyncStore on its value.  origin is the request    *)
(* that brought the list: it tells the objects of two lists apart.         *)
(***************************************************************************)
NotRun == [loading |-> FALSE, state |-> "none", list |-> Nothing, origin |-> 0]
BeforeRun(v) == [v EXCEPT !.loading = TRUE]
Resolved(f, n) == [loading |-> FALSE, state |-> "resolved", list |-> f, origin |-> n]
Rejected_Loading(v) == [v EXCEPT !.state = "rejected", !.list = Nothing, !.origin = 0]
Rejected(v) == [loading |-> FALSE, state |-> "rejected", list |-> Nothing, origin |-> 0]

HasInitialized(v) == v.state # "none"
IsOk(v) == ~v.loading /\ v.state = "resolved"

\* updateResolvedValue: nothing is updated while the store loads.
Update(v, f) == IF IsOk(v) THEN [v EXCEPT !.list = f] ELSE v

\* cancel(): a run of one of the stores S is not heard, a batch is.
Cancel_None(ls, S) == ls             \* mutant: nothing is cancelled
Cancel_Batches(ls, S) ==             \* mutant: a batch is cancelled too
    {l \in ls : l.stores \cap S = {}}
Cancel(ls, S) == {l \in ls : l.run => l.stores \cap S = {}}

(***************************************************************************)
(* The pages.                                                              *)
(***************************************************************************)
Needs == [roleConfiguration |-> {"configuredRoles", "roles"},
          collaborators     |-> {"collaborators", "configuredRoles"},
          roles             |-> {"roles"},
          elsewhere         |-> {}]
\* the order of the requests in a batch
Rank == [collaborators |-> 1, configuredRoles |-> 2, roles |-> 3]

Missing_AllOrNone(S) ==              \* mutant: nothing is asked for if a list is there
    IF \E s \in S : HasInitialized(stores[s]) THEN {} ELSE S
Missing(S) == {s \in S : ~HasInitialized(stores[s])}

NoAnswer == [ok |-> FALSE, list |-> Nothing]

\* Ask for the lists of the stores S: runBatched(), or run() for one store.
Load(S, run, ls, vs) ==
    IF S = {}
    THEN stores' = vs /\ loads' = ls /\ UNCHANGED loadCount
    ELSE /\ loadCount < MaxLoads
         /\ loadCount' = loadCount + 1
         /\ stores' = [s \in Stores |-> IF s \in S THEN BeforeRun(vs[s]) ELSE vs[s]]
         /\ loads' = Cancel(ls, S) \cup
                {[n |-> loadCount + 1, run |-> run, stores |-> S, unread |-> S,
                  answers |-> [s \in Stores |-> NoAnswer]]}

\* A user who waits goes on when nothing is under way.
Quiet == Patient => loads = {} /\ writes = {}

\* A page of the settings is opened from another one.
Open(p) ==
    /\ p \in Pages \ {page, "elsewhere"}
    /\ Quiet
    /\ page' = p
    /\ Load(Missing(Needs[p]), p = "roles", loads, stores)
    /\ writes' = {[w EXCEPT !.here = FALSE] : w \in writes}
    /\ UNCHANGED <<server, writeCount, lost, removed>>

\* Leaving the settings drops their context.  A new one is constructed on the
\* way back, so what is still under way for the old stores changes nothing.
Leave ==
    /\ page # "elsewhere"
    /\ Quiet
    /\ page' = "elsewhere"
    /\ stores' = [s \in Stores |-> IF s \in Settings THEN NotRun ELSE stores[s]]
    /\ loads' = {[l EXCEPT !.stores = @ \ Settings, !.unread = @ \ Settings] : l \in loads}
    /\ writes' = {[w EXCEPT !.here = FALSE, !.attached = FALSE] : w \in writes}
    /\ UNCHANGED <<server, counts, lost, removed>>

\* The dialog of the database's permissions needs the roles too.
OpenPermissions ==
    /\ Missing({"roles"}) # {}
    /\ Quiet
    /\ Load({"roles"}, FALSE, loads, stores)
    /\ UNCHANGED <<server, page, writes, writeCount, lost, removed>>

(***************************************************************************)
(* What the user changes, up to the await.                                 *)
(***************************************************************************)
\* A request to add an entry (key NoId), to set it or to remove it.
Write(op, s, key, entry) ==
    /\ writeCount < MaxWrites
    /\ Patient => \A w \in writes : <<w.store, w.key>> # <<s, key>> \/ key = NoId
    /\ writeCount' = writeCount + 1
    /\ writes' = writes \cup
           {[n |-> writeCount + 1, op |-> op, store |-> s, key |-> key, entry |-> entry,
             origin |-> stores[s].origin, answer |-> "none", touched |-> {},
             here |-> TRUE, attached |-> TRUE]}
    /\ UNCHANGED <<server, stores, page, loads, loadCount, lost, removed>>

\* The button that removes an entry is disabled while it does, until the page
\* is left.
Removing(s, i) == \E w \in writes : w.op = "remove" /\ w.store = s /\ w.key = i /\ w.here

\* combinedLoginRoles: what the role configuration page lists.
CombinedLoginRoles ==
    LET roles == stores["roles"]
        configured == stores["configuredRoles"]
        Named(name) == {i \in DOMAIN configured.list : configured.list[i] = name}
    IN  IF roles.loading \/ configured.loading THEN {}
        ELSE IF IsOk(roles) /\ IsOk(configured)
        THEN UNION {LET same == Named(roles.list[r]) IN
                      {[name |-> roles.list[r], role |-> r, configured |-> i] :
                          i \in IF same = {} THEN {NoId} ELSE same} :
                    r \in DOMAIN roles.list}
        ELSE IF IsOk(configured)
        THEN {[name |-> configured.list[i], role |-> NoId, configured |-> i] :
                  i \in DOMAIN configured.list}
        ELSE {}

\* configureRole of a role that is not configured yet; for one that is, it
\* changes its password only.
ConfigureRole ==
    /\ page = "roleConfiguration"
    /\ \E c \in CombinedLoginRoles :
         /\ c.configured = NoId
         /\ Write("add", "configuredRoles", NoId, c.name)

RemoveConfiguredRole ==
    /\ page = "roleConfiguration"
    /\ \E c \in CombinedLoginRoles :
         /\ c.configured # NoId
         /\ ~Removing("configuredRoles", c.configured)
         /\ Write("remove", "configuredRoles", c.configured, c.name)

CollaboratorsShown ==
    page = "collaborators" /\ IsOk(stores["collaborators"]) /\ IsOk(stores["configuredRoles"])

AddCollaborator ==
    /\ CollaboratorsShown
    /\ \E u \in Users, r \in DOMAIN stores["configuredRoles"].list :
         /\ \A i \in DOMAIN stores["collaborators"].list :
              stores["collaborators"].list[i].user # u
         /\ Write("add", "collaborators", NoId, [user |-> u, role |-> r])

SetConfiguredRole ==
    /\ CollaboratorsShown
    /\ \E i \in DOMAIN stores["collaborators"].list,
          r \in DOMAIN stores["configuredRoles"].list :
         LET shown == stores["collaborators"].list[i] IN
         /\ r # shown.role
         /\ Write("set", "collaborators", i, [shown EXCEPT !.role = r])

DeleteCollaborator ==
    /\ CollaboratorsShown
    /\ \E i \in DOMAIN stores["collaborators"].list :
         /\ ~Removing("collaborators", i)
         /\ Write("remove", "collaborators", i, stores["collaborators"].list[i])

AddRole ==
    /\ page = "roles"
    /\ ~stores["roles"].loading
    /\ \E name \in Names : Write("add", "roles", NoId, name)

DeleteRole ==
    /\ page = "roles"
    /\ IsOk(stores["roles"])
    /\ \E i \in DOMAIN stores["roles"].list :
         /\ ~Removing("roles", i)
         /\ Write("remove", "roles", i, stores["roles"].list[i])

(***************************************************************************)
(* The server.  The lists of a batch are read one after the other; a       *)
(* request that changes something is one transaction.                      *)
(***************************************************************************)
ServeLoad(l, outcome) ==
    /\ \E first \in l.unread :
         /\ \A s \in l.unread : Rank[first] <= Rank[s]
         /\ loads' = (loads \ {l}) \cup
              {IF outcome = "lost"
               THEN [l EXCEPT !.unread = {}, !.answers = [s \in Stores |-> NoAnswer]]
               ELSE [l EXCEPT !.unread = @ \ {first},
                              !.answers[first] = IF outcome = "answered"
                                                 THEN [ok |-> TRUE, list |-> db[first]]
                                                 ELSE NoAnswer]}
    /\ UNCHANGED <<server, stores, page, writes, counts, lost, removed>>

\* Do two versions of a list say the same of an entry?
Agree(f, g, i) == (i \in DOMAIN f <=> i \in DOMAIN g) /\ (i \in DOMAIN f => f[i] = g[i])
Changed(d) == {p \in Stores \X Ids : ~Agree(db[p[1]], d[p[1]], p[2])}

\* Names of roles are unique, a user collaborates once, and what is named exists.
Accepted(w) ==
    CASE w.op = "remove" -> w.key \in DOMAIN db[w.store]
      [] w.op = "set" -> w.key \in DOMAIN db["collaborators"]
                         /\ w.entry.role \in DOMAIN db["configuredRoles"]
      [] w.op = "add" /\ w.store = "collaborators" ->
             /\ w.entry.role \in DOMAIN db["configuredRoles"]
             /\ \A i \in DOMAIN db["collaborators"] :
                  db["collaborators"][i].user # w.entry.user
      [] OTHER -> \A i \in DOMAIN db[w.store] : db[w.store][i] # w.entry

\* Removing a configured role removes its collaborators: the foreign key cascades.
CollaboratorsWithout(i) ==
    LET f == db["collaborators"]
        kept == {j \in DOMAIN f : f[j].role # i}
    IN  [j \in kept |-> f[j]]

After(w) ==
    IF w.op = "add" THEN [db EXCEPT ![w.store] = With(@, nextId, w.entry)]
    ELSE IF w.op = "set" THEN [db EXCEPT !["collaborators"][w.key].role = w.entry.role]
    ELSE IF w.store = "configuredRoles"
    THEN [db EXCEPT !["configuredRoles"] = Without(@, w.key),
                    !["collaborators"] = CollaboratorsWithout(w.key)]
    ELSE [db EXCEPT ![w.store] = Without(@, w.key)]

ServeWrite(w, outcome) ==
    /\ w.answer = "none"
    /\ outcome # "rejected"
    /\ Accepted(w)
    /\ w.op = "add" => nextId \in Ids    \* bound
    /\ db' = After(w)
    /\ nextId' = IF w.op = "add" THEN nextId + 1 ELSE nextId
    /\ writes' = (writes \ {w}) \cup
         {IF outcome = "answered"
          THEN [w EXCEPT !.answer = "ok", !.touched = Changed(After(w)),
                         !.key = IF w.op = "add" THEN nextId ELSE @]
          ELSE [w EXCEPT !.answer = "error"]}
    /\ lost' = IF outcome = "lost" THEN lost \cup Changed(After(w)) ELSE lost
    /\ UNCHANGED <<stores, page, loads, counts, removed>>

\* The request is in error, or does not arrive.
RefuseWrite(w, outcome) ==
    /\ w.answer = "none"
    /\ outcome = "rejected" \/ ~Accepted(w)
    /\ writes' = (writes \ {w}) \cup {[w EXCEPT !.answer = "error"]}
    /\ UNCHANGED <<server, stores, page, loads, counts, lost, removed>>

(***************************************************************************)
(* The answers, after the await.                                           *)
(***************************************************************************)
\* onResponse of every store of a batch, or the end of run().
HearLoad(l) ==
    /\ l.unread = {}
    /\ stores' = [s \in Stores |->
                    IF s \notin l.stores THEN stores[s]
                    ELSE IF l.answers[s].ok THEN Resolved(l.answers[s].list, l.n)
                    ELSE Rejected(stores[s])]
    /\ loads' = Cancel(loads \ {l}, l.stores)
    /\ lost' = {p \in lost : p[1] \in l.stores => ~l.answers[p[1]].ok}
    /\ UNCHANGED <<server, page, writes, counts, removed>>

\* The stores an answer changes: after Leave only the roles are left of them.
Reached(w, S) == IF w.attached THEN S ELSE S \ Settings

\* What must be asked for again once an entry of the store s is removed.
Dependents_None(s) == {}             \* mutant: no list is reset
Dependents(s) == CASE s = "roles" -> {"configuredRoles", "collaborators"}
                   [] s = "configuredRoles" -> {"collaborators"}
                   [] OTHER -> {}

HearAdded(w) ==
    /\ w.op = "add"
    /\ LET S == Reached(w, {w.store}) IN
       /\ stores' = [s \in Stores |->
                       IF s \in S THEN Update(stores[s], With(stores[s].list, w.key, w.entry))
                       ELSE stores[s]]
       /\ loads' = Cancel(loads, {s \in S : IsOk(stores[s])})
    /\ UNCHANGED removed

HearRemoved(w) ==
    /\ w.op = "remove"
    /\ LET S == Reached(w, {w.store})
           resets == Reached(w, Dependents(w.store))
       IN
       /\ stores' = [s \in Stores |->
                       IF s \in S THEN Update(stores[s], Without(stores[s].list, w.key))
                       ELSE IF s \in resets THEN NotRun ELSE stores[s]]
       /\ loads' = Cancel(loads, {s \in S : IsOk(stores[s])} \cup resets)
    /\ removed' = IF w.store = "configuredRoles" THEN removed \cup {w.key} ELSE removed

\* The object the dialog was opened for is changed; it is shown if the list it
\* came with still is.
HearSet(w) ==
    /\ w.op = "set"
    /\ LET v == stores["collaborators"] IN
       stores' = IF w.attached /\ v.origin = w.origin /\ w.key \in DOMAIN v.list
                 THEN [stores EXCEPT !["collaborators"].list = With(@, w.key, w.entry)]
                 ELSE stores
    /\ UNCHANGED <<loads, removed>>

HearWrite(w) ==
    /\ w.answer # "none"
    /\ writes' = writes \ {w}
    /\ \/ w.answer = "ok" /\ (HearAdded(w) \/ HearRemoved(w) \/ HearSet(w))
       \/ w.answer = "error" /\ UNCHANGED <<stores, loads, removed>>
    /\ UNCHANGED <<server, page, counts, lost>>

-----------------------------------------------------------------------------
Init ==
    /\ db = InitialDb
    /\ nextId = FirstFree
    /\ stores = [s \in Stores |-> NotRun]
    /\ page = "elsewhere"
    /\ loads = {} /\ writes = {}
    /\ loadCount = 0 /\ writeCount = 0
    /\ lost = {} /\ removed = {}

Next ==
    \/ \E p \in Pages : Open(p)
    \/ Leave \/ OpenPermissions
    \/ ConfigureRole \/ RemoveConfiguredRole
    \/ AddCollaborator \/ SetConfiguredRole \/ DeleteCollaborator
    \/ AddRole \/ DeleteRole
    \/ \E l \in loads, o \in Outcomes : ServeLoad(l, o)
    \/ \E l \in loads : HearLoad(l)
    \/ \E w \in writes, o \in Outcomes : ServeWrite(w, o) \/ RefuseWrite(w, o)
    \/ \E w \in writes : HearWrite(w)

Spec == Init /\ [][Next]_vars

\* A request for lists is served, and its answer is heard.
LoadFairness ==
    /\ WF_vars(\E l \in loads, o \in Outcomes : ServeLoad(l, o))
    /\ WF_vars(\E l \in loads : HearLoad(l))
FairSpec == Spec /\ LoadFairness

-----------------------------------------------------------------------------
(***************************************************************************)
(* Properties.                                                             *)
(***************************************************************************)
Values(s) == [loading: BOOLEAN, state: {"none", "resolved", "rejected"},
              list: Lists(s), origin: Nat]
Answers(s) == [ok: BOOLEAN, list: Lists(s)]
Loads == [n: Nat, run: BOOLEAN, stores: SUBSET Stores, unread: SUBSET Stores,
          answers: [Stores -> [ok: BOOLEAN, list: AllLists]]]
LoadOf(l) ==
    /\ l \in Loads
    /\ l.n <= loadCount
    /\ l.unread \subseteq l.stores
    /\ l.run => l.stores \subseteq {"roles"}
    /\ \A s \in Stores : l.answers[s] \in Answers(s)
WriteOf(w) ==
    /\ w \in [n: Nat, op: {"add", "set", "remove"}, store: Stores, key: Ids \cup {NoId},
               entry: AllEntries, origin: Nat,
               answer: {"none", "ok", "error"}, touched: SUBSET (Stores \X Ids),
               here: BOOLEAN, attached: BOOLEAN]
    /\ w.n <= writeCount
    /\ w.entry \in Entries(w.store)
    /\ w.op = "set" => w.store = "collaborators"
    /\ w.op # "add" \/ w.answer = "ok" => w.key \in Ids

ServerOK == db \in Dbs /\ nextId \in Nat
StoresOK == DOMAIN stores = Stores /\ \A s \in Stores : stores[s] \in Values(s)
\* A store has one promise: one run that can be heard.
LoadsOK ==
    /\ loadCount \in Nat
    /\ \A l \in loads : LoadOf(l)
    /\ \A l, m \in loads : l.run /\ m.run /\ l.stores # {} /\ m.stores # {} => l = m
WritesOK == writeCount \in Nat /\ \A w \in writes : WriteOf(w)

\* The type invariant.
TypeOK ==
    /\ ServerOK /\ StoresOK /\ LoadsOK /\ WritesOK
    /\ page \in Pages
    /\ lost \subseteq Stores \X Ids /\ removed \subseteq Ids

(***************************************************************************)
(* A store that shows a spinner has a request under way whose answer ends  *)
(* it, however batches, runs, resets and answers follow one another.       *)
(***************************************************************************)
LoadingIsAwaited ==
    \A s \in Stores : stores[s].loading => \E l \in loads : s \in l.stores

\* Entries whose change was lost, or is served and not yet heard of.
Unsure == lost \cup UNION {w.touched : w \in writes}

(***************************************************************************)
(* The lists agree with the server, but for what is under way or was lost: *)
(* patching one list by hand and resetting those that depend on it is      *)
(* enough to follow every change, the cascading ones included.  This holds *)
(* for a user who lets a page load and a change end before going to        *)
(* another page; on one page several changes may be under way.             *)
(***************************************************************************)
ListsAgreeWithServer ==
    \A s \in Stores : IsOk(stores[s]) =>
        \A i \in Ids : <<s, i>> \notin Unsure => Agree(stores[s].list, db[s], i)

(***************************************************************************)
(* A page is never left with nothing to show: each list it needs is there, *)
(* failed, or on its way.  Resets happen on other pages, whose changes a   *)
(* patient user lets end first.                                            *)
(***************************************************************************)
PageIsFed ==
    \A s \in Needs[page] : stores[s].loading \/ HasInitialized(stores[s])

(***************************************************************************)
(* "When a configured role is removed from the Role Configuration page,    *)
(* Collaborators list needs to be reset, since the drop statement          *)
(* cascades" (DatabaseSettingsRouteContext.ts:113-114): the list that is   *)
(* shown names no configured role that was reported as removed.            *)
(***************************************************************************)
RemovedRolesHaveNoCollaborators ==
    LET v == stores["collaborators"] IN
    IsOk(v) => \A i \in DOMAIN v.list : v.list[i].role \notin removed

\* Every spinner ends, when requests are served and heard.
LoadingSettles == \A s \in Stores : stores[s].loading ~> ~stores[s].loading
=============================================================================

----------------------- MODULE DatabaseSettingsProofs -----------------------
(***************************************************************************)
(* Proofs about DatabaseSettings: type correctness, that every spinner is  *)
(* awaited and, for users who wait, that lists agree with the server and   *)
(* pages have the lists they need.                                         *)
(***************************************************************************)
EXTENDS DatabaseSettings, TLAPS

-----------------------------------------------------------------------------
(***************************************************************************)
(* Lists and values.                                                       *)
(***************************************************************************)
\* What it is to be a list of a store.
LEMMA ListDef ==
    ASSUME NEW s, NEW f
    PROVE  f \in Lists(s) <=> DOMAIN f \subseteq Ids /\ f \in [DOMAIN f -> Entries(s)]
BY DEF Lists

\* The list of no entries (ImmutableMap's constructor) is a list of any store.
LEMMA NothingIsList == ASSUME NEW s PROVE Nothing \in Lists(s)
BY ListDef DEF Nothing

\* ImmutableMap.with keeps lists lists.
LEMMA WithIsList ==
    ASSUME NEW s, NEW f \in Lists(s), NEW i \in Ids, NEW e \in Entries(s)
    PROVE  With(f, i, e) \in Lists(s)
BY ListDef DEF With

\* ImmutableMap.without keeps lists lists.
LEMMA WithoutIsList ==
    ASSUME NEW s, NEW f \in Lists(s), NEW i
    PROVE  Without(f, i) \in Lists(s)
BY ListDef DEF Without

\* The operations of AsyncStore yield values of a store.
LEMMA ValuesOfStores ==
    ASSUME NEW s
    PROVE  /\ NotRun \in Values(s)
           /\ \A v \in Values(s) : BeforeRun(v) \in Values(s) /\ Rejected(v) \in Values(s)
           /\ \A f \in Lists(s), n \in Nat : Resolved(f, n) \in Values(s)
           /\ \A v \in Values(s), f \in Lists(s) : Update(v, f) \in Values(s)
BY NothingIsList DEF Values, NotRun, BeforeRun, Rejected, Resolved, Update

\* cancel() leaves batches and the runs of other stores.
LEMMA CancelKeeps ==
    ASSUME NEW ls, NEW S
    PROVE  /\ Cancel(ls, S) \subseteq ls
           /\ \A l \in ls : (l.run => l.stores \cap S = {}) => l \in Cancel(ls, S)
BY DEF Cancel

\* Requests that are still good when more are counted.
LEMMA LoadsStay ==
    ASSUME LoadsOK, loadCount' \in Nat, loadCount' >= loadCount, loads' \subseteq loads
    PROVE  LoadsOK'
BY DEF LoadsOK, LoadOf, Loads

\* What Load sends is as it should be, from values and requests that are.
LEMMA LoadTyped ==
    ASSUME LoadsOK, NEW S \in SUBSET Stores, NEW run \in BOOLEAN,
           NEW vs, \A s \in Stores : vs[s] \in Values(s), DOMAIN vs = Stores,
           run => S \subseteq {"roles"},
           Load(S, run, loads, vs)
    PROVE  StoresOK' /\ LoadsOK'
<1>1. CASE S = {}
  BY <1>1, LoadsStay DEF Load, StoresOK, LoadsOK
<1>2. CASE S # {}
  <2>0. PICK new : new = [n |-> loadCount + 1, run |-> run, stores |-> S, unread |-> S,
                          answers |-> [s \in Stores |-> NoAnswer]]
    OBVIOUS
  <2>1. loadCount' = loadCount + 1 /\ loads' = Cancel(loads, S) \cup {new}
    BY <1>2, <2>0 DEF Load
  <2>2. StoresOK'
    BY <1>2, ValuesOfStores DEF Load, StoresOK
  <2>3. \A s \in Stores : NoAnswer \in Answers(s) /\ NoAnswer \in [ok: BOOLEAN, list: AllLists]
    BY NothingIsList DEF NoAnswer, Answers, AllLists
  <2>4. LoadOf(new)'
    <3>1. new \in Loads
      BY <2>0, <2>3 DEF Loads, LoadsOK
    <3>2. \A s \in Stores : new.answers[s] \in Answers(s)
      BY <2>0, <2>3
    <3> QED BY <2>0, <2>1, <3>1, <3>2 DEF LoadOf, LoadsOK
  <2>5. \A l \in loads : LoadOf(l)'
    BY <2>1 DEF LoadOf, Loads, LoadsOK
  <2>6. \A l, m \in loads' : l.run /\ m.run /\ l.stores # {} /\ m.stores # {} => l = m
    <3>1. \A l \in Cancel(loads, S) : l.run => l.stores \cap S = {}
      BY DEF Cancel
    <3>2. \A l \in loads : l.run => l.stores \subseteq {"roles"}
      BY DEF LoadsOK, LoadOf
    <3>3. run => S = {"roles"}
      BY <1>2
    <3> QED BY <2>0, <2>1, <3>1, <3>2, <3>3, CancelKeeps DEF LoadsOK
  <2>7. \A l \in loads' : LoadOf(l)'
    BY <2>1, <2>4, <2>5, CancelKeeps
  <2>8. loadCount' \in Nat
    BY <2>1 DEF LoadsOK
  <2> QED BY <2>2, <2>6, <2>7, <2>8 DEF LoadsOK
<1> QED BY <1>1, <1>2

-----------------------------------------------------------------------------
(***************************************************************************)
(* Type correctness.                                                       *)
(***************************************************************************)
\* Writes that are still good when their pages and settings are left.
LEMMA WritesLeft ==
    ASSUME NEW w, WriteOf(w), writeCount' = writeCount
    PROVE  /\ WriteOf([w EXCEPT !.here = FALSE])'
           /\ WriteOf([w EXCEPT !.here = FALSE, !.attached = FALSE])'
<1>1. ASSUME NEW a \in BOOLEAN, NEW v, v = [w EXCEPT !.here = FALSE, !.attached = a]
      PROVE  WriteOf(v)'
  <2>1. /\ v.n = w.n /\ v.op = w.op /\ v.store = w.store /\ v.key = w.key
        /\ v.entry = w.entry /\ v.answer = w.answer
    BY <1>1 DEF WriteOf
  <2>2. v \in [n: Nat, op: {"add", "set", "remove"}, store: Stores, key: Ids \cup {NoId},
               entry: AllEntries, origin: Nat,
               answer: {"none", "ok", "error"}, touched: SUBSET (Stores \X Ids),
               here: BOOLEAN, attached: BOOLEAN]
    BY <1>1 DEF WriteOf
  <2> QED BY <2>1, <2>2 DEF WriteOf
<1>2. [w EXCEPT !.here = FALSE] = [w EXCEPT !.here = FALSE, !.attached = w.attached]
  BY DEF WriteOf
<1>3. w.attached \in BOOLEAN
  BY DEF WriteOf
<1>4. WriteOf([w EXCEPT !.here = FALSE, !.attached = w.attached])'
  BY <1>1, <1>3
<1> QED BY <1>1, <1>2, <1>4

\* Opening a page of the settings.
LEMMA OpenTyped ==
    ASSUME TypeOK, NEW p \in Pages, Open(p) PROVE TypeOK'
<1>1. StoresOK' /\ LoadsOK'
  <2>1. Missing(Needs[p]) \subseteq Stores
    BY DEF Missing, Needs, Pages, Stores, Open
  <2>2. p = "roles" => Missing(Needs[p]) \subseteq {"roles"}
    BY DEF Missing, Needs
  <2>3. LoadsOK /\ DOMAIN stores = Stores /\ \A s \in Stores : stores[s] \in Values(s)
    BY DEF TypeOK, StoresOK
  <2>4. Load(Missing(Needs[p]), p = "roles", loads, stores)
    BY DEF Open
  <2> HIDE DEF Missing
  <2> QED BY <2>1, <2>2, <2>3, <2>4, LoadTyped
<1>2. WritesOK'
  BY WritesLeft DEF Open, TypeOK, WritesOK
<1> QED BY <1>1, <1>2 DEF Open, TypeOK, ServerOK, server

\* Leaving the settings.
LEMMA LeaveTyped ==
    ASSUME TypeOK, Leave PROVE TypeOK'
<1>1. StoresOK'
  BY ValuesOfStores DEF Leave, TypeOK, StoresOK
<1>2. LoadsOK'
  <2>1. \A l \in loads : LoadOf([l EXCEPT !.stores = @ \ Settings, !.unread = @ \ Settings])'
    <3> SUFFICES ASSUME NEW l \in loads, NEW m,
                        m = [l EXCEPT !.stores = @ \ Settings, !.unread = @ \ Settings]
                 PROVE  LoadOf(m)'
      OBVIOUS
    <3>1. LoadOf(l) /\ loadCount' = loadCount
      BY DEF Leave, counts, TypeOK, LoadsOK
    <3>2. /\ m \in Loads /\ m.n = l.n /\ m.run = l.run /\ m.answers = l.answers
          /\ m.stores = l.stores \ Settings /\ m.unread = l.unread \ Settings
      BY <3>1 DEF LoadOf, Loads
    <3> QED BY <3>1, <3>2 DEF LoadOf
  <2>2. \A l, m \in loads' : l.run /\ m.run /\ l.stores # {} /\ m.stores # {} => l = m
    <3> DEFINE left(l) == [l EXCEPT !.stores = @ \ Settings, !.unread = @ \ Settings]
    <3>1. \A l \in loads : left(l).run = l.run /\ left(l).stores = l.stores \ Settings
      BY DEF TypeOK, LoadsOK, LoadOf, Loads
    <3>2. \A l, m \in loads : left(l).run /\ left(m).run /\ left(l).stores # {}
                                /\ left(m).stores # {} => l = m
      BY <3>1 DEF TypeOK, LoadsOK
    <3>3. loads' = {left(l) : l \in loads}
      BY DEF Leave
    <3> HIDE DEF left
    <3> QED BY <3>2, <3>3
  <2> QED BY <2>1, <2>2 DEF Leave, counts, TypeOK, LoadsOK
<1>3. WritesOK'
  BY WritesLeft DEF Leave, counts, TypeOK, WritesOK
<1> QED BY <1>1, <1>2, <1>3 DEF Leave, counts, server, TypeOK, ServerOK, Pages

\* Opening the dialog of the permissions.
LEMMA OpenPermissionsTyped ==
    ASSUME TypeOK, OpenPermissions PROVE TypeOK'
<1>1. StoresOK' /\ LoadsOK'
  BY LoadTyped DEF OpenPermissions, TypeOK, StoresOK, Stores
<1> QED BY <1>1 DEF OpenPermissions, TypeOK, ServerOK, server, WritesOK, WriteOf

\* Sending a change.
LEMMA WriteTyped ==
    ASSUME TypeOK, NEW op \in {"add", "set", "remove"}, NEW s \in Stores,
           NEW key \in Ids \cup {NoId}, NEW entry \in Entries(s),
           op = "set" => s = "collaborators", op # "add" => key \in Ids,
           Write(op, s, key, entry)
    PROVE  TypeOK'
<1>1. PICK w : w = [n |-> writeCount + 1, op |-> op, store |-> s, key |-> key,
                    entry |-> entry, origin |-> stores[s].origin, answer |-> "none",
                    touched |-> {}, here |-> TRUE, attached |-> TRUE]
  OBVIOUS
<1>2. writes' = writes \cup {w} /\ writeCount' = writeCount + 1
  BY <1>1 DEF Write
<1>3. WriteOf(w)'
  <2>1. stores[s].origin \in Nat /\ entry \in AllEntries
    BY DEF TypeOK, StoresOK, Values, AllEntries
  <2> QED BY <1>1, <1>2, <2>1 DEF WriteOf, TypeOK, WritesOK
<1>4. \A v \in writes : WriteOf(v)'
  BY <1>2 DEF WriteOf, TypeOK, WritesOK
<1>5. WritesOK'
  BY <1>2, <1>3, <1>4 DEF TypeOK, WritesOK
<1> QED BY <1>5 DEF Write, server, TypeOK, ServerOK, StoresOK, LoadsOK, LoadOf

\* What the role configuration page lists.
LEMMA CombinedTyped ==
    ASSUME TypeOK, NEW c \in CombinedLoginRoles
    PROVE  c.name \in Names /\ c.configured \in Ids \cup {NoId}
<1>1. \A s \in {"roles", "configuredRoles"} :
        /\ DOMAIN stores[s].list \subseteq Ids
        /\ \A i \in DOMAIN stores[s].list : stores[s].list[i] \in Names
  BY ListDef DEF TypeOK, StoresOK, Values, Entries, Stores
<1> QED BY <1>1 DEF CombinedLoginRoles

\* Everything the user changes on the role configuration page.
LEMMA ConfigurationTyped ==
    ASSUME TypeOK, ConfigureRole \/ RemoveConfiguredRole PROVE TypeOK'
<1>1. CASE ConfigureRole
  BY <1>1, CombinedTyped, WriteTyped DEF ConfigureRole, Stores, Entries
<1>2. CASE RemoveConfiguredRole
  <2>1. PICK c \in CombinedLoginRoles :
          c.configured # NoId /\ Write("remove", "configuredRoles", c.configured, c.name)
    BY <1>2 DEF RemoveConfiguredRole
  <2> QED BY <2>1, CombinedTyped, WriteTyped DEF Stores, Entries
<1> QED BY <1>1, <1>2

\* Everything the user changes on the page of collaborators.
LEMMA CollaboratorsTyped ==
    ASSUME TypeOK, AddCollaborator \/ SetConfiguredRole \/ DeleteCollaborator
    PROVE  TypeOK'
<1>1. /\ DOMAIN stores["configuredRoles"].list \subseteq Ids
      /\ DOMAIN stores["collaborators"].list \subseteq Ids
      /\ \A i \in DOMAIN stores["collaborators"].list :
           stores["collaborators"].list[i] \in [user: Users, role: Ids]
  BY ListDef DEF TypeOK, StoresOK, Values, Entries, Stores
<1>2. Entries("collaborators") = [user: Users, role: Ids] /\ "collaborators" \in Stores
  BY DEF Entries, Stores
<1>3. CASE AddCollaborator
  BY <1>1, <1>2, <1>3, WriteTyped DEF AddCollaborator
<1>4. CASE SetConfiguredRole
  <2>1. PICK i \in DOMAIN stores["collaborators"].list,
             r \in DOMAIN stores["configuredRoles"].list :
          Write("set", "collaborators", i, [stores["collaborators"].list[i] EXCEPT !.role = r])
    BY <1>4 DEF SetConfiguredRole
  <2>2. [stores["collaborators"].list[i] EXCEPT !.role = r] \in Entries("collaborators")
    BY <1>1, <1>2
  <2> QED BY <1>1, <1>2, <2>1, <2>2, WriteTyped
<1>5. CASE DeleteCollaborator
  BY <1>1, <1>2, <1>5, WriteTyped DEF DeleteCollaborator
<1> QED BY <1>3, <1>4, <1>5

\* Everything the user changes on the page of roles.
LEMMA RolesTyped ==
    ASSUME TypeOK, AddRole \/ DeleteRole PROVE TypeOK'
<1>1. /\ DOMAIN stores["roles"].list \subseteq Ids
      /\ \A i \in DOMAIN stores["roles"].list : stores["roles"].list[i] \in Names
      /\ Entries("roles") = Names /\ "roles" \in Stores
  BY ListDef DEF TypeOK, StoresOK, Values, Entries, Stores
<1>2. CASE AddRole
  BY <1>1, <1>2, WriteTyped DEF AddRole
<1>3. CASE DeleteRole
  BY <1>1, <1>3, WriteTyped DEF DeleteRole
<1> QED BY <1>2, <1>3

\* Serving a request for lists.
LEMMA ServeLoadTyped ==
    ASSUME TypeOK, NEW l \in loads, NEW o \in Outcomes, ServeLoad(l, o)
    PROVE  TypeOK'
<1>1. PICK first \in l.unread :
        loads' = (loads \ {l}) \cup
          {IF o = "lost"
           THEN [l EXCEPT !.unread = {}, !.answers = [s \in Stores |-> NoAnswer]]
           ELSE [l EXCEPT !.unread = @ \ {first},
                          !.answers[first] = IF o = "answered"
                                             THEN [ok |-> TRUE, list |-> db[first]]
                                             ELSE NoAnswer]}
  BY DEF ServeLoad
<1>2. PICK m : loads' = (loads \ {l}) \cup {m} /\
               m = IF o = "lost"
                   THEN [l EXCEPT !.unread = {}, !.answers = [s \in Stores |-> NoAnswer]]
                   ELSE [l EXCEPT !.unread = @ \ {first},
                                  !.answers[first] = IF o = "answered"
                                                     THEN [ok |-> TRUE, list |-> db[first]]
                                                     ELSE NoAnswer]
  BY <1>1
<1>3. LoadOf(l) /\ loadCount' = loadCount /\ first \in Stores
  BY <1>1 DEF ServeLoad, counts, TypeOK, LoadsOK, LoadOf, Loads
<1>4. \A s \in Stores : /\ NoAnswer \in Answers(s)
                        /\ [ok |-> TRUE, list |-> db[s]] \in Answers(s)
                        /\ Answers(s) \subseteq [ok: BOOLEAN, list: AllLists]
  BY NothingIsList DEF NoAnswer, Answers, AllLists, TypeOK, ServerOK, Dbs
<1>5. /\ m.n = l.n /\ m.run = l.run /\ m.stores = l.stores /\ m.unread \subseteq l.unread
      /\ m.answers \in [Stores -> [ok: BOOLEAN, list: AllLists]]
      /\ \A s \in Stores : m.answers[s] \in Answers(s)
      /\ m \in Loads
  <2>1. CASE o = "lost"
    BY <1>2, <1>3, <1>4, <2>1 DEF LoadOf, Loads
  <2>2. CASE o # "lost"
    <3>1. PICK a \in Answers(first) :
            m = [l EXCEPT !.unread = @ \ {first}, !.answers[first] = a]
      BY <1>2, <1>3, <1>4, <2>2
    <3>2. m.answers = [l.answers EXCEPT ![first] = a]
      BY <1>3, <3>1 DEF LoadOf, Loads
    <3>3. /\ m.answers \in [Stores -> [ok: BOOLEAN, list: AllLists]]
          /\ \A s \in Stores : m.answers[s] \in Answers(s)
      BY <1>3, <1>4, <3>2 DEF LoadOf, Loads
    <3> QED BY <1>3, <3>1, <3>3 DEF LoadOf, Loads
  <2> QED BY <2>1, <2>2
<1>6. LoadOf(m)'
  BY <1>3, <1>5 DEF LoadOf
<1>7. LoadsOK'
  BY <1>2, <1>3, <1>5, <1>6 DEF TypeOK, LoadsOK, LoadOf
<1> QED BY <1>7 DEF ServeLoad, server, counts, TypeOK, ServerOK, StoresOK, WritesOK, WriteOf

\* Hearing the answer to a request for lists.
LEMMA HearLoadTyped ==
    ASSUME TypeOK, NEW l \in loads, HearLoad(l)
    PROVE  TypeOK'
<1>1. StoresOK'
  <2>1. \A s \in Stores : l.answers[s].list \in Lists(s) /\ l.n \in Nat
    BY DEF TypeOK, LoadsOK, LoadOf, Loads, Answers
  <2> QED BY <2>1, ValuesOfStores DEF HearLoad, TypeOK, StoresOK
<1>2. LoadsOK'
  <2>1. loads' \subseteq loads
    BY CancelKeeps DEF HearLoad
  <2>2. LoadsOK /\ loadCount' \in Nat /\ loadCount' >= loadCount
    BY DEF HearLoad, counts, TypeOK, LoadsOK
  <2> QED BY <2>1, <2>2, LoadsStay
<1> QED BY <1>1, <1>2 DEF HearLoad, server, counts, TypeOK, ServerOK, WritesOK, WriteOf

\* What the server holds after a change.
LEMMA AfterTyped ==
    ASSUME TypeOK, NEW w \in writes, Accepted(w), w.op = "add" => nextId \in Ids
    PROVE  After(w) \in Dbs
<1>1. /\ w.entry \in Entries(w.store) /\ w.store \in Stores /\ WriteOf(w)
      /\ w.op \in {"add", "set", "remove"}
  BY DEF TypeOK, WritesOK, WriteOf
<1>2. db \in Dbs /\ DOMAIN db = Stores /\ \A s \in Stores : db[s] \in Lists(s)
  BY DEF TypeOK, ServerOK, Dbs
<1>3. ASSUME NEW d, NEW s \in Stores, NEW f \in Lists(s), d \in Dbs
      PROVE  [d EXCEPT ![s] = f] \in Dbs
  BY <1>3 DEF Dbs, AllLists
<1>4. CASE w.op = "add"
  BY <1>1, <1>2, <1>3, <1>4, WithIsList DEF After
<1>5. CASE w.op = "set"
  <2> DEFINE f == db["collaborators"]
             g == [f EXCEPT ![w.key].role = w.entry.role]
  <2>1. /\ w.key \in DOMAIN f /\ w.entry.role \in Ids
        /\ f \in Lists("collaborators") /\ "collaborators" \in Stores
        /\ \A i \in DOMAIN f : f[i] \in [user: Users, role: Ids]
    BY <1>1, <1>2, <1>5, ListDef DEF Accepted, Entries, WriteOf, Stores
  <2>2. g \in Lists("collaborators")
    <3>1. [f[w.key] EXCEPT !.role = w.entry.role] \in [user: Users, role: Ids]
      BY <2>1
    <3>2. DOMAIN g = DOMAIN f /\ \A i \in DOMAIN f : g[i] \in Entries("collaborators")
      BY <2>1, <3>1 DEF Entries
    <3> QED BY <2>1, <3>2, ListDef
  <2>3. After(w) = [db EXCEPT !["collaborators"] = g]
    BY <1>2, <1>5, <2>1 DEF After
  <2>4. ASSUME NEW h \in Lists("collaborators")
        PROVE  [db EXCEPT !["collaborators"] = h] \in Dbs
    BY <1>2, <1>3 DEF Stores
  <2> HIDE DEF f, g
  <2>5. [db EXCEPT !["collaborators"] = g] \in Dbs
    BY <2>2, <2>4
  <2> QED BY <2>3, <2>5
<1>6. CASE w.op = "remove" /\ w.store = "configuredRoles"
  <2>1. CollaboratorsWithout(w.key) \in Lists("collaborators")
    BY <1>2, ListDef DEF CollaboratorsWithout, Stores
  <2>2. Without(db["configuredRoles"], w.key) \in Lists("configuredRoles")
    BY <1>2, WithoutIsList DEF Stores
  <2> DEFINE d == [db EXCEPT !["configuredRoles"] = Without(db["configuredRoles"], w.key)]
  <2>3. d \in Dbs
    BY <1>2, <1>3, <2>2 DEF Stores
  <2>4. After(w) = [d EXCEPT !["collaborators"] = CollaboratorsWithout(w.key)]
    BY <1>6 DEF After
  <2> HIDE DEF d
  <2> QED BY <1>3, <2>1, <2>3, <2>4 DEF Stores
<1>7. CASE w.op = "remove" /\ w.store # "configuredRoles"
  BY <1>1, <1>2, <1>3, <1>7, WithoutIsList DEF After
<1> QED BY <1>1, <1>4, <1>5, <1>6, <1>7

\* What a change touches are entries of the stores.
LEMMA ChangedTyped == ASSUME NEW d PROVE Changed(d) \subseteq Stores \X Ids
BY DEF Changed

\* Serving and refusing a change.
LEMMA ServeWriteTyped ==
    ASSUME TypeOK, NEW w \in writes, NEW o \in Outcomes,
           ServeWrite(w, o) \/ RefuseWrite(w, o)
    PROVE  TypeOK'
<1>1. WriteOf(w) /\ writeCount' = writeCount
  BY DEF ServeWrite, RefuseWrite, counts, TypeOK, WritesOK
<1>2. ASSUME NEW v, NEW a \in {"ok", "error"}, NEW t \in SUBSET (Stores \X Ids),
             NEW k \in Ids \cup {NoId}, w.op # "add" => k = w.key, a = "ok" => k \in Ids,
             v = [w EXCEPT !.answer = a, !.touched = t, !.key = k]
      PROVE  WriteOf(v)'
  <2>1. /\ v.n = w.n /\ v.op = w.op /\ v.store = w.store /\ v.key = k
        /\ v.entry = w.entry /\ v.answer = a
    BY <1>1, <1>2 DEF WriteOf
  <2>2. v \in [n: Nat, op: {"add", "set", "remove"}, store: Stores, key: Ids \cup {NoId},
               entry: AllEntries, origin: Nat,
               answer: {"none", "ok", "error"}, touched: SUBSET (Stores \X Ids),
               here: BOOLEAN, attached: BOOLEAN]
    BY <1>1, <1>2 DEF WriteOf
  <2> QED BY <1>1, <1>2, <2>1, <2>2 DEF WriteOf
<1>3. WriteOf([w EXCEPT !.answer = "error"])'
  <2>1. [w EXCEPT !.answer = "error"]
          = [w EXCEPT !.answer = "error", !.touched = w.touched, !.key = w.key]
    BY <1>1 DEF WriteOf
  <2> QED BY <1>1, <1>2, <2>1 DEF WriteOf
<1>4. CASE RefuseWrite(w, o)
  <2>1. WritesOK'
    BY <1>1, <1>3, <1>4 DEF RefuseWrite, TypeOK, WritesOK, WriteOf
  <2> QED BY <1>4, <2>1
          DEF RefuseWrite, server, counts, TypeOK, ServerOK, StoresOK, LoadsOK, LoadOf
<1>5. CASE ServeWrite(w, o)
  <2>1. WritesOK'
    <3>1. CASE o = "answered"
      <4>1. PICK k, v :
              /\ k = IF w.op = "add" THEN nextId ELSE w.key
              /\ v = [w EXCEPT !.answer = "ok", !.touched = Changed(After(w)), !.key = k]
              /\ writes' = (writes \ {w}) \cup {v}
        BY <1>5, <3>1 DEF ServeWrite
      <4>2. k \in Ids /\ (w.op # "add" => k = w.key)
        BY <1>1, <1>5, <4>1 DEF ServeWrite, WriteOf
      <4>3. WriteOf(v)'
        <5>1. Changed(After(w)) \in SUBSET (Stores \X Ids)
          BY ChangedTyped
        <5> QED BY <1>2, <4>1, <4>2, <5>1
      <4>4. \A old \in writes : WriteOf(old)'
        BY <1>1 DEF TypeOK, WritesOK, WriteOf
      <4> QED BY <1>1, <4>1, <4>3, <4>4 DEF TypeOK, WritesOK
    <3>2. CASE o # "answered"
      BY <1>1, <1>3, <1>5, <3>2 DEF ServeWrite, TypeOK, WritesOK, WriteOf
    <3> QED BY <3>1, <3>2
  <2>2. ServerOK'
    BY <1>5, AfterTyped DEF ServeWrite, TypeOK, ServerOK
  <2>3. lost' \subseteq Stores \X Ids
    BY <1>5, ChangedTyped DEF ServeWrite, TypeOK
  <2> QED BY <1>5, <2>1, <2>2, <2>3
          DEF ServeWrite, counts, TypeOK, StoresOK, LoadsOK, LoadOf
<1> QED BY <1>4, <1>5

\* Hearing the answer to a change.
LEMMA HearWriteTyped ==
    ASSUME TypeOK, NEW w \in writes, HearWrite(w)
    PROVE  TypeOK'
<1>1. /\ w.store \in Stores /\ w.entry \in Entries(w.store)
      /\ w.answer = "ok" => w.key \in Ids
      /\ w.op = "set" => w.store = "collaborators"
  BY DEF TypeOK, WritesOK, WriteOf
<1>2. DOMAIN stores = Stores /\ \A s \in Stores : stores[s] \in Values(s)
                                               /\ stores[s].list \in Lists(s)
  BY DEF TypeOK, StoresOK, Values
<1>3. StoresOK' /\ loads' \subseteq loads /\ removed' \subseteq Ids
  <2>1. CASE w.answer = "ok" /\ HearAdded(w)
    <3>1. With(stores[w.store].list, w.key, w.entry) \in Lists(w.store)
      BY <1>1, <1>2, <2>1, WithIsList
    <3>2. Update(stores[w.store], With(stores[w.store].list, w.key, w.entry))
            \in Values(w.store)
      BY <1>1, <1>2, <3>1, ValuesOfStores
    <3>3. \A s \in Stores : 
            \/ stores'[s] = stores[s]
            \/ /\ s = w.store
               /\ stores'[s] = Update(stores[s], With(stores[s].list, w.key, w.entry))
      BY <2>1 DEF HearAdded, Reached
    <3>4. DOMAIN stores' = Stores /\ removed' = removed /\ loads' \subseteq loads
      BY <2>1, CancelKeeps DEF HearAdded
    <3> QED BY <1>2, <3>2, <3>3, <3>4 DEF StoresOK, TypeOK
  <2>2. CASE w.answer = "ok" /\ HearRemoved(w)
    <3>1. Update(stores[w.store], Without(stores[w.store].list, w.key)) \in Values(w.store)
      BY <1>1, <1>2, WithoutIsList, ValuesOfStores
    <3>2. \A s \in Stores : 
            \/ stores'[s] \in {stores[s], NotRun}
            \/ /\ s = w.store
               /\ stores'[s] = Update(stores[s], Without(stores[s].list, w.key))
      BY <2>2 DEF HearRemoved, Reached
    <3>3. DOMAIN stores' = Stores /\ loads' \subseteq loads /\ removed' \subseteq Ids
      BY <1>1, <2>2, CancelKeeps DEF HearRemoved, TypeOK
    <3> QED BY <1>2, <3>1, <3>2, <3>3, ValuesOfStores DEF StoresOK
  <2>3. CASE w.answer = "ok" /\ HearSet(w)
    <3> DEFINE v == stores["collaborators"]
               f == With(v.list, w.key, w.entry)
    <3>1. f \in Lists("collaborators")
      BY <1>1, <1>2, <2>3, WithIsList DEF HearSet, Stores
    <3>2. v \in Values("collaborators") /\ [v EXCEPT !.list = f] \in Values("collaborators")
      <4> HIDE DEF f
      <4> QED BY <1>2, <3>1 DEF Values, Stores
    <3>3. \/ stores' = stores
          \/ stores' = [stores EXCEPT !["collaborators"] = [v EXCEPT !.list = f]]
      BY <1>2, <2>3 DEF HearSet, Stores
    <3>4. loads' = loads /\ removed' = removed
      BY <2>3 DEF HearSet
    <3> HIDE DEF v, f
    <3> QED BY <1>2, <3>2, <3>3, <3>4 DEF StoresOK, TypeOK
  <2>4. CASE w.answer = "error" /\ UNCHANGED <<stores, loads, removed>>
    BY <2>4 DEF TypeOK, StoresOK
  <2> QED BY <2>1, <2>2, <2>3, <2>4 DEF HearWrite
<1>4. LoadsOK'
  <2>1. LoadsOK /\ loadCount' \in Nat /\ loadCount' >= loadCount
    BY DEF HearWrite, counts, TypeOK, LoadsOK
  <2> QED BY <1>3, <2>1, LoadsStay
<1> QED BY <1>3, <1>4 DEF HearWrite, server, counts, TypeOK, ServerOK, WritesOK, WriteOf

\* A step that changes nothing.
LEMMA StutterTyped == ASSUME TypeOK, UNCHANGED vars PROVE TypeOK'
BY DEF vars, server, counts, TypeOK, ServerOK, StoresOK, LoadsOK, LoadOf, WritesOK, WriteOf

(***************************************************************************)
(* The state of the settings stays well formed: lists are lists of their   *)
(* stores, requests are what the code sends, and a store has one run that  *)
(* can be heard.                                                           *)
(***************************************************************************)
THEOREM TypeCorrect == Spec => []TypeOK
<1>1. Init => TypeOK
  BY ValuesOfStores, InitialDbAssumption, IdsAssumption
     DEF Init, TypeOK, ServerOK, StoresOK, LoadsOK, WritesOK, Pages
<1>2. TypeOK /\ [Next]_vars => TypeOK'
  <2> SUFFICES ASSUME TypeOK, [Next]_vars PROVE TypeOK'
    OBVIOUS
  <2>1. CASE \E p \in Pages : Open(p)
    BY <2>1, OpenTyped
  <2>2. CASE Leave \/ OpenPermissions
    BY <2>2, LeaveTyped, OpenPermissionsTyped
  <2>3. CASE ConfigureRole \/ RemoveConfiguredRole
    BY <2>3, ConfigurationTyped
  <2>4. CASE AddCollaborator \/ SetConfiguredRole \/ DeleteCollaborator
    BY <2>4, CollaboratorsTyped
  <2>5. CASE AddRole \/ DeleteRole
    BY <2>5, RolesTyped
  <2>6. CASE \E l \in loads, o \in Outcomes : ServeLoad(l, o)
    BY <2>6, ServeLoadTyped
  <2>7. CASE \E l \in loads : HearLoad(l)
    BY <2>7, HearLoadTyped
  <2>8. CASE \E w \in writes, o \in Outcomes : ServeWrite(w, o) \/ RefuseWrite(w, o)
    BY <2>8, ServeWriteTyped
  <2>9. CASE \E w \in writes : HearWrite(w)
    BY <2>9, HearWriteTyped
  <2>10. CASE UNCHANGED vars
    BY <2>10, StutterTyped
  <2> QED BY <2>1, <2>2, <2>3, <2>4, <2>5, <2>6, <2>7, <2>8, <2>9, <2>10 DEF Next
<1> QED BY <1>1, <1>2, PTL DEF Spec

-----------------------------------------------------------------------------
(***************************************************************************)
(* Every spinner is awaited.                                               *)
(***************************************************************************)
\* Asking for lists: the runs that are cancelled asked for lists that are asked
\* for again.
LEMMA LoadAwaits ==
    ASSUME LoadsOK, DOMAIN stores = Stores, LoadingIsAwaited,
           NEW S \in SUBSET Stores, NEW run, Load(S, run, loads, stores)
    PROVE  LoadingIsAwaited'
<1>1. CASE S = {}
  BY <1>1 DEF Load, LoadingIsAwaited
<1>2. CASE S # {}
  <2> SUFFICES ASSUME NEW s \in Stores, stores'[s].loading
               PROVE  \E l \in loads' : s \in l.stores
    BY DEF LoadingIsAwaited
  <2>1. CASE s \in S
    <3>1. PICK new : new = [n |-> loadCount + 1, run |-> run, stores |-> S, unread |-> S,
                            answers |-> [t \in Stores |-> NoAnswer]]
      OBVIOUS
    <3>2. new \in loads' /\ new.stores = S
      BY <1>2, <3>1 DEF Load
    <3> QED BY <2>1, <3>2
  <2>2. CASE s \notin S
    <3>1. stores'[s] = stores[s]
      BY <1>2, <2>2 DEF Load
    <3>2. PICK l \in loads : s \in l.stores
      BY <3>1 DEF LoadingIsAwaited
    <3>3. l.run => l.stores \cap S = {}
      BY <2>2, <3>2 DEF LoadsOK, LoadOf
    <3>4. l \in loads'
      BY <1>2, <3>3, CancelKeeps DEF Load
    <3> QED BY <3>2, <3>4
  <2> QED BY <2>1, <2>2
<1> QED BY <1>1, <1>2

\* Leaving the settings: its stores do not load any more.
LEMMA LeaveAwaits ==
    ASSUME TypeOK, LoadingIsAwaited, Leave PROVE LoadingIsAwaited'
<1> SUFFICES ASSUME NEW s \in Stores, stores'[s].loading
             PROVE  \E l \in loads' : s \in l.stores
  BY DEF LoadingIsAwaited
<1>1. s \notin Settings /\ stores'[s] = stores[s]
  BY DEF Leave, NotRun
<1>2. PICK l \in loads : s \in l.stores
  BY <1>1 DEF LoadingIsAwaited
<1>3. s \in [l EXCEPT !.stores = @ \ Settings, !.unread = @ \ Settings].stores
  BY <1>1, <1>2 DEF TypeOK, LoadsOK, LoadOf, Loads
<1>4. [l EXCEPT !.stores = @ \ Settings, !.unread = @ \ Settings] \in loads'
  BY <1>2 DEF Leave
<1> QED BY <1>3, <1>4

\* Serving a request for lists leaves it awaited.
LEMMA ServeLoadAwaits ==
    ASSUME TypeOK, LoadingIsAwaited, NEW l \in loads, NEW o \in Outcomes, ServeLoad(l, o)
    PROVE  LoadingIsAwaited'
<1> DEFINE answer(s) == IF o = "answered" THEN [ok |-> TRUE, list |-> db[s]] ELSE NoAnswer
           served(s) == IF o = "lost"
                        THEN [l EXCEPT !.unread = {}, !.answers = [t \in Stores |-> NoAnswer]]
                        ELSE [l EXCEPT !.unread = @ \ {s}, !.answers[s] = answer(s)]
<1>1. PICK first \in l.unread : loads' = (loads \ {l}) \cup {served(first)}
  BY DEF ServeLoad
<1>2. l \in Loads
  BY DEF TypeOK, LoadsOK, LoadOf
<1>3. served(first).stores = l.stores
  <2> HIDE DEF answer
  <2> QED BY <1>2 DEF Loads
<1> HIDE DEF served
<1> QED BY <1>1, <1>3 DEF ServeLoad, LoadingIsAwaited

\* An answer that is heard ends the spinners of all the stores it was asked for.
LEMMA HearLoadAwaits ==
    ASSUME TypeOK, LoadingIsAwaited, NEW l \in loads, HearLoad(l)
    PROVE  LoadingIsAwaited'
<1> SUFFICES ASSUME NEW s \in Stores, stores'[s].loading
             PROVE  \E k \in loads' : s \in k.stores
  BY DEF LoadingIsAwaited
<1>1. s \notin l.stores /\ stores'[s] = stores[s]
  BY DEF HearLoad, Resolved, Rejected
<1>2. PICK k \in loads : s \in k.stores
  BY <1>1 DEF LoadingIsAwaited
<1>3. k.run => k.stores \cap l.stores = {}
  BY <1>1, <1>2 DEF TypeOK, LoadsOK, LoadOf
<1>4. k \in loads'
  BY <1>1, <1>2, <1>3, CancelKeeps DEF HearLoad
<1> QED BY <1>2, <1>4

\* The answer to a change cancels runs of stores only that do not load then.
LEMMA HearWriteAwaits ==
    ASSUME TypeOK, LoadingIsAwaited, NEW w \in writes, HearWrite(w)
    PROVE  LoadingIsAwaited'
<1> SUFFICES ASSUME NEW s \in Stores, stores'[s].loading
             PROVE  \E l \in loads' : s \in l.stores
  BY DEF LoadingIsAwaited
<1>1. PICK S : /\ loads' = Cancel(loads, S) \/ loads' = loads
               /\ s \notin S /\ stores[s].loading
  <2>1. \A t \in Stores : stores[t] \in Values(t) /\ DOMAIN stores = Stores
    BY DEF TypeOK, StoresOK
  <2>2. CASE HearAdded(w)
    BY <2>1, <2>2 DEF HearAdded, Update, IsOk, Values
  <2>3. CASE HearRemoved(w)
    <3> DEFINE S == {t \in Reached(w, {w.store}) : IsOk(stores[t])}
                      \cup Reached(w, Dependents(w.store))
    <3>1. loads' = Cancel(loads, S)
      BY <2>3 DEF HearRemoved
    <3>2. ~NotRun.loading
      BY DEF NotRun
    <3>3. s \notin S /\ stores[s].loading
      <4>1. CASE s \in Reached(w, {w.store})
        <5>1. stores'[s] = Update(stores[s], Without(stores[s].list, w.key))
          BY <2>3, <4>1 DEF HearRemoved
        <5>2. stores[s].loading
          BY <2>1, <5>1 DEF Update, IsOk, Values
        <5>3. s = w.store /\ s \notin Dependents(s)
          BY <4>1 DEF Reached, Dependents
        <5>4. Reached(w, Dependents(s)) \subseteq Dependents(s) /\ ~IsOk(stores[s])
          BY <5>2 DEF Reached, IsOk
        <5> QED BY <5>2, <5>3, <5>4
      <4>2. CASE s \notin Reached(w, {w.store})
        BY <2>3, <3>2, <4>2 DEF HearRemoved
      <4> QED BY <4>1, <4>2
    <3> HIDE DEF S
    <3> QED BY <3>1, <3>3
  <2>4. CASE HearSet(w)
    BY <2>1, <2>4 DEF HearSet, Values, Stores
  <2>5. CASE UNCHANGED <<stores, loads, removed>>
    <3>1. PICK S : S = {}
      OBVIOUS
    <3>2. loads' = loads /\ s \notin S /\ stores[s].loading
      BY <2>5, <3>1
    <3> QED BY <3>2
  <2> QED BY <2>2, <2>3, <2>4, <2>5 DEF HearWrite
<1>2. PICK l \in loads : s \in l.stores
  BY <1>1 DEF LoadingIsAwaited
<1>3. l.run => l.stores \cap S = {}
  BY <1>1, <1>2 DEF TypeOK, LoadsOK, LoadOf
<1>4. l \in loads'
  BY <1>1, <1>2, <1>3, CancelKeeps
<1> QED BY <1>2, <1>4

(***************************************************************************)
(* A store that loads has a request under way whose answer ends it.        *)
(***************************************************************************)
THEOREM SpinnerIsAwaited == Spec => []LoadingIsAwaited
<1>1. Init => LoadingIsAwaited
  BY DEF Init, LoadingIsAwaited, NotRun
<1>2. TypeOK /\ LoadingIsAwaited /\ [Next]_vars => LoadingIsAwaited'
  <2> SUFFICES ASSUME TypeOK, LoadingIsAwaited, [Next]_vars PROVE LoadingIsAwaited'
    OBVIOUS
  <2>0. LoadsOK /\ DOMAIN stores = Stores
    BY DEF TypeOK, StoresOK
  <2>1. CASE \E p \in Pages : Open(p)
    <3>1. PICK p \in Pages : Load(Missing(Needs[p]), p = "roles", loads, stores)
                             /\ Missing(Needs[p]) \subseteq Stores
      BY <2>1 DEF Open, Missing, Needs, Pages, Stores
    <3> HIDE DEF Missing
    <3> QED BY <2>0, <3>1, LoadAwaits
  <2>2. CASE Leave
    BY <2>2, LeaveAwaits
  <2>3. CASE OpenPermissions
    BY <2>0, <2>3, LoadAwaits DEF OpenPermissions, Stores
  <2>4. CASE \/ ConfigureRole \/ RemoveConfiguredRole
             \/ AddCollaborator \/ SetConfiguredRole \/ DeleteCollaborator
             \/ AddRole \/ DeleteRole
    BY <2>4 DEF ConfigureRole, RemoveConfiguredRole, AddCollaborator, SetConfiguredRole,
                DeleteCollaborator, AddRole, DeleteRole, Write, LoadingIsAwaited
  <2>5. CASE \E l \in loads, o \in Outcomes : ServeLoad(l, o)
    BY <2>5, ServeLoadAwaits
  <2>6. CASE \E l \in loads : HearLoad(l)
    BY <2>6, HearLoadAwaits
  <2>7. CASE \E w \in writes, o \in Outcomes : ServeWrite(w, o) \/ RefuseWrite(w, o)
    BY <2>7 DEF ServeWrite, RefuseWrite, LoadingIsAwaited
  <2>8. CASE \E w \in writes : HearWrite(w)
    BY <2>8, HearWriteAwaits
  <2>9. CASE UNCHANGED vars
    BY <2>9 DEF vars, LoadingIsAwaited
  <2> QED BY <2>1, <2>2, <2>3, <2>4, <2>5, <2>6, <2>7, <2>8, <2>9 DEF Next
<1> QED BY <1>1, <1>2, TypeCorrect, PTL DEF Spec

-----------------------------------------------------------------------------
(***************************************************************************)
(* A user who waits: pages have what they need, and lists agree with the   *)
(* server.  Neither is inductive.  What makes them hold is that what is    *)
(* under way belongs to the page, and never reads and changes one store.   *)
(***************************************************************************)
\* The page on which the entries of a store are changed.
PageOf == [roles           |-> "roles",
           configuredRoles |-> "roleConfiguration",
           collaborators   |-> "collaborators"]

\* One request for lists at a time; its stores load, for the page or for the dialog of
\* the permissions, and what it has read is what the server holds.
LoadsOfPage ==
    /\ \A l, m \in loads : l = m
    /\ \A l \in loads : l.stores \subseteq Needs[page] \cup {"roles"}
    /\ \A l \in loads : \A s \in l.stores : stores[s].loading
    /\ \A l \in loads : \A s \in l.stores \ l.unread :
         l.answers[s].ok => l.answers[s].list = db[s]

\* A change is one of the page's, and no list it will patch or reset is being asked for.
WritesOfPage ==
    \A w \in writes :
        /\ page = PageOf[w.store] /\ w.attached
        /\ \A l \in loads : l.stores \cap ({w.store} \cup Dependents(w.store)) = {}

\* Ids are given out once.
IdsGiven ==
    /\ NoId < nextId
    /\ \A s \in Stores : \A i \in DOMAIN db[s] \cup DOMAIN stores[s].list : i < nextId
    /\ \A w \in writes : w.key < nextId

\* One change of an entry at a time.
KeysDiffer ==
    \A v, w \in writes : v.store = w.store /\ v.key = w.key /\ v.key # NoId => v = w

\* What the answer to a change tells is so, and the change touched its own entry and, if
\* it removed it, those of lists that will be reset.
Told ==
    \A w \in writes :
        /\ w.op = "add" /\ w.answer # "ok" => w.key = NoId
        /\ w.answer # "ok" => w.touched = {}
        /\ \A s \in Stores, i \in Ids : <<s, i>> \in w.touched =>
             (s = w.store /\ i = w.key) \/ (w.op = "remove" /\ s \in Dependents(w.store))
        /\ w.answer = "ok" /\ w.op = "remove" => w.key \notin DOMAIN db[w.store]
        /\ w.answer = "ok" /\ w.op # "remove" =>
             w.key \in DOMAIN db[w.store] /\ db[w.store][w.key] = w.entry

\* The list that holds a collaborator being set is still there, and still holds him.
SetIsShown ==
    \A w \in writes : w.op = "set" =>
        /\ stores["collaborators"].origin = w.origin
        /\ w.key \in DOMAIN stores["collaborators"].list

\* An id stands for one user, in the list and in the changes under way.
UsersStay ==
    \A i \in DOMAIN db["collaborators"] :
        /\ i \in DOMAIN stores["collaborators"].list =>
             stores["collaborators"].list[i].user = db["collaborators"][i].user
        /\ \A w \in writes : w.store = "collaborators" /\ w.key = i =>
             w.entry.user = db["collaborators"][i].user

PatientInv ==
    /\ LoadsOfPage /\ WritesOfPage /\ IdsGiven /\ KeysDiffer /\ Told /\ SetIsShown /\ UsersStay
    /\ ListsAgreeWithServer /\ PageIsFed

\* The types of what stores and server hold.
LEMMA Held ==
    ASSUME TypeOK
    PROVE  /\ DOMAIN stores = Stores
           /\ \A s \in Stores :
                /\ stores[s] \in Values(s) /\ stores[s].loading \in BOOLEAN
                /\ stores[s].list \in Lists(s) /\ db[s] \in Lists(s)
                /\ DOMAIN stores[s].list \subseteq Ids /\ DOMAIN db[s] \subseteq Ids
           /\ NoId \notin Ids /\ Ids \subseteq Nat /\ nextId \in Nat
<1>1. \A s \in Stores : stores[s] \in Values(s) /\ db[s] \in Lists(s)
  BY DEF TypeOK, StoresOK, ServerOK, Dbs
<1>2. \A s \in Stores : stores[s].list \in Lists(s) /\ stores[s].loading \in BOOLEAN
  BY <1>1 DEF Values
<1> QED BY <1>1, <1>2, ListDef, IdsAssumption DEF TypeOK, StoresOK, ServerOK, Ids, NoId

\* Asking for the lists of a page when nothing is under way.
LEMMA LoadPatient ==
    ASSUME TypeOK, PatientInv, loads = {}, writes = {}, writes' = {}, UNCHANGED server,
           UNCHANGED lost, NEW S \in SUBSET Stores, NEW run, Load(S, run, loads, stores),
           page' \in Pages, S \subseteq Needs[page'] \cup {"roles"},
           \A s \in Needs[page'] : s \in S \/ stores[s].loading \/ HasInitialized(stores[s])
    PROVE  PatientInv'
<1>1. Needs[page'] \subseteq Stores
  BY DEF Needs, Pages, Stores
<1>2. \A s \in Stores : /\ s \notin S => stores'[s] = stores[s]
                        /\ stores'[s].list = stores[s].list
                        /\ s \in S => stores'[s].loading
  BY Held DEF Load, BeforeRun, Values
<1>3. PICK new : new = [n |-> loadCount + 1, run |-> run, stores |-> S, unread |-> S,
                        answers |-> [s \in Stores |-> NoAnswer]]
  OBVIOUS
<1>4. loads' \subseteq {new} /\ new.stores = S /\ new.unread = S
  BY <1>3 DEF Load, Cancel
<1>5. LoadsOfPage'
  BY <1>2, <1>4 DEF LoadsOfPage
<1>6. ListsAgreeWithServer'
  <2>1. \A s \in Stores : IsOk(stores[s])' => IsOk(stores[s]) /\ stores'[s] = stores[s]
    BY <1>2 DEF IsOk
  <2> QED BY <2>1 DEF PatientInv, ListsAgreeWithServer, Unsure, server, Agree
<1>7. PageIsFed'
  BY <1>1, <1>2 DEF PageIsFed, HasInitialized
<1>8. IdsGiven' /\ UsersStay'
  BY <1>2 DEF PatientInv, IdsGiven, UsersStay, server, Stores
<1>9. WritesOfPage' /\ KeysDiffer' /\ Told' /\ SetIsShown'
  BY DEF WritesOfPage, KeysDiffer, Told, SetIsShown
<1> QED BY <1>5, <1>6, <1>7, <1>8, <1>9 DEF PatientInv

\* Opening a page and the dialog of the permissions, for a user who waits.
LEMMA OpenPatient ==
    ASSUME Patient, TypeOK, PatientInv, OpenPermissions \/ \E p \in Pages : Open(p)
    PROVE  PatientInv'
<1>1. CASE OpenPermissions
  <2>1. {"roles"} \subseteq Stores /\ page \in Pages /\ page' = page /\ writes' = writes
    BY <1>1 DEF OpenPermissions, Stores, TypeOK
  <2>2. loads = {} /\ writes = {}
    BY <1>1 DEF OpenPermissions, Quiet
  <2> QED BY <1>1, <2>1, <2>2, LoadPatient DEF OpenPermissions, PatientInv, PageIsFed
<1>2. ASSUME NEW p \in Pages, Open(p) PROVE PatientInv'
  <2>1. PICK S : S = Missing(Needs[p])
    OBVIOUS
  <2>2. /\ S \subseteq Stores /\ S \subseteq Needs[page'] /\ page' \in Pages
        /\ \A s \in Needs[page'] : s \in S \/ HasInitialized(stores[s])
    BY <1>2, <2>1 DEF Open, Missing, Needs, Pages, Stores
  <2>3. loads = {} /\ writes = {} /\ writes' = {}
    BY <1>2 DEF Open, Quiet
  <2>4. Load(S, p = "roles", loads, stores)
    BY <1>2, <2>1 DEF Open
  <2> QED BY <1>2, <2>2, <2>3, <2>4, LoadPatient DEF Open
<1> QED BY <1>1, <1>2

\* Leaving the settings, for a user who waits.
LEMMA LeavePatient ==
    ASSUME Patient, TypeOK, PatientInv, Leave PROVE PatientInv'
<1>1. loads' = {} /\ writes' = {} /\ loads = {} /\ writes = {}
  BY DEF Leave, Quiet
<1>2. \A s \in Stores : stores'[s] \in {stores[s], NotRun}
  BY DEF Leave
<1>3. LoadsOfPage' /\ WritesOfPage' /\ KeysDiffer' /\ Told' /\ SetIsShown'
  BY <1>1 DEF LoadsOfPage, WritesOfPage, KeysDiffer, Told, SetIsShown
<1>4. \A s \in Stores : IsOk(stores[s])' => stores'[s] = stores[s]
  BY <1>2 DEF IsOk, NotRun
<1>5. ListsAgreeWithServer'
  BY <1>1, <1>4 DEF Leave, server, PatientInv, ListsAgreeWithServer, Unsure, Agree
<1>6. PageIsFed'
  BY DEF Leave, PageIsFed, Needs
<1>7. \A s \in Stores : \A i \in DOMAIN stores'[s].list :
        i \in DOMAIN stores[s].list /\ stores'[s].list[i] = stores[s].list[i]
  BY <1>2 DEF NotRun, Nothing
<1>8. IdsGiven' /\ UsersStay'
  BY <1>1, <1>7 DEF Leave, server, PatientInv, IdsGiven, UsersStay, Stores
<1> QED BY <1>3, <1>5, <1>6, <1>8 DEF PatientInv

\* Sending a change of a page, for a user who changes what nothing else is changing.
LEMMA WritePatient ==
    ASSUME Patient, TypeOK, PatientInv, NEW op \in {"add", "set", "remove"}, NEW s \in Stores,
           NEW key \in Ids \cup {NoId}, NEW entry \in Entries(s), Write(op, s, key, entry),
           op = "add" <=> key = NoId, page = PageOf[s],
           \A l \in loads : l.stores \cap ({s} \cup Dependents(s)) = {},
           op # "add" => key \in DOMAIN stores[s].list,
           op # "add" /\ s = "collaborators" => entry.user = stores[s].list[key].user,
           op = "set" => s = "collaborators"
    PROVE  PatientInv'
<1>1. PICK w : w = [n |-> writeCount + 1, op |-> op, store |-> s, key |-> key,
                    entry |-> entry, origin |-> stores[s].origin, answer |-> "none",
                    touched |-> {}, here |-> TRUE, attached |-> TRUE]
  OBVIOUS
<1>2. /\ writes' = writes \cup {w}
      /\ \A v \in writes : <<v.store, v.key>> # <<s, key>> \/ key = NoId
      /\ UNCHANGED <<server, stores, page, loads, loadCount, lost>>
  BY <1>1 DEF Write
<1>3. /\ w.op = op /\ w.store = s /\ w.key = key /\ w.entry = entry /\ w.attached
      /\ w.answer = "none" /\ w.touched = {} /\ w.origin = stores[s].origin
  BY <1>1
<1>4. LoadsOfPage' /\ PageIsFed'
  BY <1>2 DEF PatientInv, LoadsOfPage, PageIsFed, server
<1>5. WritesOfPage'
  BY <1>2, <1>3 DEF PatientInv, WritesOfPage
<1>6. IdsGiven'
  <2>1. key < nextId
    BY DEF PatientInv, IdsGiven
  <2> QED BY <1>2, <1>3, <2>1 DEF PatientInv, IdsGiven, server
<1>7. KeysDiffer'
  BY <1>2, <1>3 DEF PatientInv, KeysDiffer
<1>8. Told'
  BY <1>2, <1>3 DEF PatientInv, Told, server
<1>9. SetIsShown'
  BY <1>2, <1>3 DEF PatientInv, SetIsShown
<1>10. UsersStay'
  <2>1. ASSUME NEW i \in DOMAIN db["collaborators"], s = "collaborators", key = i
        PROVE  entry.user = db["collaborators"][i].user
    <3>1. key # NoId
      BY <2>1, Held DEF Stores
    <3> QED BY <2>1, <3>1 DEF PatientInv, UsersStay
  <2> QED BY <1>2, <1>3, <2>1 DEF PatientInv, UsersStay, server
<1>11. ListsAgreeWithServer'
  <2>1. Unsure \subseteq Unsure'
    BY <1>2 DEF Unsure
  <2> QED BY <1>2, <2>1 DEF PatientInv, ListsAgreeWithServer, server, Agree
<1> QED BY <1>4, <1>5, <1>6, <1>7, <1>8, <1>9, <1>10, <1>11 DEF PatientInv

\* What the user changes on the three pages.
LEMMA ChangePatient ==
    ASSUME Patient, TypeOK, PatientInv,
           \/ ConfigureRole \/ RemoveConfiguredRole
           \/ AddCollaborator \/ SetConfiguredRole \/ DeleteCollaborator
           \/ AddRole \/ DeleteRole
    PROVE  PatientInv'
<1>1. \A l \in loads : /\ l.stores \subseteq Needs[page] \cup {"roles"}
                       /\ \A t \in l.stores : stores[t].loading
  BY DEF PatientInv, LoadsOfPage
<1>2. {"roles", "configuredRoles", "collaborators"} = Stores
  BY DEF Stores
<1>3. ASSUME NEW t \in Stores PROVE \A i \in DOMAIN stores[t].list :
                                      i \in Ids /\ stores[t].list[i] \in Entries(t)
  BY Held, ListDef
<1>4. CASE ConfigureRole \/ RemoveConfiguredRole
  <2>1. PICK c \in CombinedLoginRoles, op \in {"add", "remove"} :
          /\ op = "add" <=> c.configured = NoId
          /\ Write(op, "configuredRoles", c.configured, c.name)
    BY <1>4 DEF ConfigureRole, RemoveConfiguredRole
  <2>2. page = "roleConfiguration"
    BY <1>4 DEF ConfigureRole, RemoveConfiguredRole
  <2>3. /\ ~stores["roles"].loading /\ ~stores["configuredRoles"].loading
        /\ c.configured # NoId => c.configured \in DOMAIN stores["configuredRoles"].list
    BY DEF CombinedLoginRoles
  <2>4. \A l \in loads : l.stores = {}
    BY <1>1, <2>2, <2>3 DEF Needs
  <2>5. c.name \in Entries("configuredRoles") /\ c.configured \in Ids \cup {NoId}
    BY CombinedTyped DEF Entries
  <2>6. page = PageOf["configuredRoles"]
    BY <2>2 DEF PageOf
  <2> QED BY <1>2, <2>1, <2>3, <2>4, <2>5, <2>6, WritePatient
<1>5. CASE AddCollaborator \/ SetConfiguredRole \/ DeleteCollaborator
  <2> DEFINE v == stores["collaborators"]
  <2>1. CollaboratorsShown
    BY <1>5 DEF AddCollaborator, SetConfiguredRole, DeleteCollaborator
  <2>2. page = PageOf["collaborators"]
    BY <2>1 DEF CollaboratorsShown, PageOf
  <2>3. \A l \in loads : l.stores \cap ({"collaborators"} \cup Dependents("collaborators")) = {}
    BY <1>1, <2>1 DEF CollaboratorsShown, Needs, IsOk, Dependents
  <2>4. \A i \in DOMAIN v.list : i \in Ids /\ i # NoId /\ v.list[i] \in [user: Users, role: Ids]
    BY <1>2, <1>3, Held DEF Entries
  <2>5. CASE AddCollaborator
    <3>1. PICK u, r, e :
            u \in Users /\ r \in Ids /\ e = [user |-> u, role |-> r] /\ Write("add", "collaborators", NoId, e)
      BY <1>2, <1>3, <2>5 DEF AddCollaborator
    <3>2. e \in Entries("collaborators")
      BY <3>1 DEF Entries
    <3> QED BY <1>2, <2>2, <2>3, <3>1, <3>2, WritePatient
  <2>6. CASE SetConfiguredRole
    <3>1. PICK i, r, e :
            i \in DOMAIN v.list /\ r \in Ids /\ e = [v.list[i] EXCEPT !.role = r] /\ Write("set", "collaborators", i, e)
      BY <1>2, <1>3, <2>6 DEF SetConfiguredRole
    <3>2. e \in Entries("collaborators") /\ e.user = v.list[i].user /\ i \in Ids /\ i # NoId
      BY <2>4, <3>1 DEF Entries
    <3>3. i \in DOMAIN v.list /\ Write("set", "collaborators", i, e)
      BY <3>1
    <3> QED BY <1>2, <2>2, <2>3, <3>2, <3>3, WritePatient
  <2>7. CASE DeleteCollaborator
    <3>1. PICK i \in DOMAIN v.list : Write("remove", "collaborators", i, v.list[i])
      BY <2>7 DEF DeleteCollaborator
    <3>2. v.list[i] \in Entries("collaborators") /\ i \in Ids /\ i # NoId
      BY <2>4 DEF Entries
    <3> QED BY <1>2, <2>2, <2>3, <3>1, <3>2, WritePatient
  <2> QED BY <1>5, <2>5, <2>6, <2>7
<1>6. CASE AddRole \/ DeleteRole
  <2>1. page = "roles" /\ ~stores["roles"].loading
    BY <1>6 DEF AddRole, DeleteRole, IsOk
  <2>2. page = PageOf["roles"] /\ \A l \in loads : l.stores = {}
    BY <1>1, <2>1 DEF Needs, PageOf
  <2>3. PICK op \in {"add", "remove"}, key \in Ids \cup {NoId}, name \in Names :
          /\ op = "add" <=> key = NoId
          /\ op # "add" => key \in DOMAIN stores["roles"].list
          /\ Write(op, "roles", key, name)
    <3>1. CASE AddRole
      BY <3>1 DEF AddRole
    <3>2. CASE DeleteRole
      <4>1. PICK i \in DOMAIN stores["roles"].list :
              Write("remove", "roles", i, stores["roles"].list[i])
        BY <3>2 DEF DeleteRole
      <4>2. i \in Ids /\ i # NoId /\ stores["roles"].list[i] \in Names
        BY <1>2, <1>3, Held DEF Entries
      <4> QED BY <4>1, <4>2
    <3> QED BY <1>6, <3>1, <3>2
  <2>4. name \in Entries("roles")
    BY DEF Entries
  <2> QED BY <1>2, <2>2, <2>3, <2>4, WritePatient
<1> QED BY <1>4, <1>5, <1>6

\* Serving a request for lists: what is read is what the server holds.
LEMMA ServeLoadPatient ==
    ASSUME TypeOK, PatientInv, NEW l \in loads, NEW o \in Outcomes, ServeLoad(l, o)
    PROVE  PatientInv'
<1>1. l \in Loads /\ loads = {l}
  BY DEF PatientInv, LoadsOfPage, TypeOK, LoadsOK, LoadOf
<1>0. PICK first, a :
        /\ first \in l.unread
        /\ a = IF o = "answered" THEN [ok |-> TRUE, list |-> db[first]] ELSE NoAnswer
        /\ loads' = (loads \ {l}) \cup
             {IF o = "lost"
              THEN [l EXCEPT !.unread = {}, !.answers = [s \in Stores |-> NoAnswer]]
              ELSE [l EXCEPT !.unread = @ \ {first}, !.answers[first] = a]}
  BY DEF ServeLoad
<1>2. PICK m :
        /\ loads' = (loads \ {l}) \cup {m}
        /\ m = IF o = "lost"
               THEN [l EXCEPT !.unread = {}, !.answers = [s \in Stores |-> NoAnswer]]
               ELSE [l EXCEPT !.unread = @ \ {first}, !.answers[first] = a]
  BY <1>0
<1>3. /\ m.stores = l.stores
      /\ \A s \in Stores \ m.unread :
           \/ ~m.answers[s].ok
           \/ m.answers[s].list = db[s]
           \/ s \notin l.unread /\ m.answers[s] = l.answers[s]
  <2>1. CASE o = "lost"
    BY <1>1, <1>2, <2>1 DEF Loads, NoAnswer
  <2>2. CASE o # "lost"
    <3>1. /\ m.stores = l.stores /\ m.unread = l.unread \ {first}
          /\ m.answers = [l.answers EXCEPT ![first] = a]
      BY <1>1, <1>2, <2>2 DEF Loads
    <3>2. ~a.ok \/ a.list = db[first]
      BY <1>0 DEF NoAnswer
    <3> QED BY <1>1, <3>1, <3>2 DEF Loads
  <2> QED BY <2>1, <2>2
<1>4. UNCHANGED <<db, nextId, stores, page, writes, lost>> /\ loads' = {m}
  BY <1>1, <1>2 DEF ServeLoad, server
<1>5. LoadsOfPage'
  <2>1. m.stores \subseteq Stores
    BY <1>1, <1>3 DEF Loads
  <2>2. \A s \in m.stores \ m.unread : m.answers[s].ok => m.answers[s].list = db[s]
    BY <1>3, <2>1 DEF PatientInv, LoadsOfPage
  <2> QED BY <1>3, <1>4, <2>2 DEF PatientInv, LoadsOfPage
<1>6. WritesOfPage'
  BY <1>3, <1>4 DEF PatientInv, WritesOfPage
<1>7. ListsAgreeWithServer'
  BY <1>4 DEF PatientInv, ListsAgreeWithServer, Unsure, Agree
<1> QED BY <1>4, <1>5, <1>6, <1>7
        DEF PatientInv, IdsGiven, KeysDiffer, Told, SetIsShown, UsersStay, PageIsFed

\* Hearing the answer to a request for lists: a list that was read is what the server holds.
LEMMA HearLoadPatient ==
    ASSUME TypeOK, PatientInv, NEW l \in loads, HearLoad(l) PROVE PatientInv'
<1>1. l \in Loads /\ loads = {l}
  BY DEF PatientInv, LoadsOfPage, TypeOK, LoadsOK, LoadOf
<1>2. loads' = {} /\ UNCHANGED <<db, nextId, page, writes>>
  BY <1>1, CancelKeeps DEF HearLoad, server
<1>3. \A s \in Stores :
        \/ s \notin l.stores /\ stores'[s] = stores[s]
        \/ /\ s \in l.stores /\ l.answers[s].ok
           /\ stores'[s].list = db[s] /\ HasInitialized(stores'[s])
        \/ /\ s \in l.stores /\ ~l.answers[s].ok /\ stores'[s] = Rejected(stores[s])
  BY DEF HearLoad, PatientInv, LoadsOfPage, Resolved, HasInitialized
<1>4. LoadsOfPage' /\ WritesOfPage'
  BY <1>2 DEF PatientInv, LoadsOfPage, WritesOfPage
<1>5. KeysDiffer' /\ Told'
  BY <1>2 DEF PatientInv, KeysDiffer, Told
<1>6. \A s \in Stores : \A i \in DOMAIN stores'[s].list :
        \/ i \in DOMAIN stores[s].list /\ stores'[s].list[i] = stores[s].list[i]
        \/ i \in DOMAIN db[s] /\ stores'[s].list[i] = db[s][i]
  BY <1>3 DEF Rejected, Nothing
<1>7. IdsGiven' /\ UsersStay'
  BY <1>2, <1>6 DEF PatientInv, IdsGiven, UsersStay, Stores
<1>8. SetIsShown'
  <2>1. ASSUME NEW w \in writes, w.op = "set" PROVE stores'["collaborators"] = stores["collaborators"]
    <3>1. w.store = "collaborators"
      BY <2>1 DEF TypeOK, WritesOK, WriteOf
    <3>2. "collaborators" \notin l.stores
      BY <3>1 DEF PatientInv, WritesOfPage
    <3> QED BY <1>3, <3>2 DEF Stores
  <2> QED BY <1>2, <2>1 DEF PatientInv, SetIsShown
<1>9. ListsAgreeWithServer'
  <2> SUFFICES ASSUME NEW s \in Stores, IsOk(stores'[s]), NEW i \in Ids, <<s, i>> \notin Unsure'
               PROVE  Agree(stores'[s].list, db[s], i)
    BY <1>2 DEF ListsAgreeWithServer, IsOk, Agree
  <2>1. CASE s \in l.stores
    BY <1>3, <2>1 DEF Rejected, IsOk, Agree
  <2>2. CASE s \notin l.stores
    <3>1. <<s, i>> \in lost => <<s, i>> \in lost'
      BY <2>2 DEF HearLoad
    <3>2. <<s, i>> \notin Unsure
      BY <1>2, <3>1 DEF Unsure
    <3> QED BY <1>3, <2>2, <3>2 DEF PatientInv, ListsAgreeWithServer
  <2> QED BY <2>1, <2>2
<1>10. PageIsFed'
  <2>1. Needs[page] \subseteq Stores
    BY DEF Needs, Pages, Stores, TypeOK
  <2> QED BY <1>2, <1>3, <2>1 DEF PatientInv, PageIsFed, HasInitialized, Rejected
<1> QED BY <1>4, <1>5, <1>7, <1>8, <1>9, <1>10 DEF PatientInv

\* The page of a store needs no list that a change of the store resets, and no two
\* stores are changed on one page.
LEMMA PagesApart ==
    ASSUME NEW s \in Stores
    PROVE  /\ s \notin Dependents(s) /\ Dependents(s) \subseteq Stores
           /\ Needs[PageOf[s]] \cap Dependents(s) = {}
           /\ \A t \in Stores : PageOf[s] = PageOf[t] => s = t
BY DEF Stores, PageOf, Needs, Dependents

\* What a change does to the server: it puts, sets or removes its own entry, and a removal
\* may remove entries of the lists that will be reset.
LEMMA AfterPatient ==
    ASSUME TypeOK, PatientInv, NEW w \in writes, Accepted(w), w.op = "add" => nextId \in Ids,
           NEW key, key = IF w.op = "add" THEN nextId ELSE w.key,
           NEW d, d = After(w)
    PROVE  /\ \A s \in Stores :
                /\ s # w.store /\ (w.op # "remove" \/ s \notin Dependents(w.store)) => d[s] = db[s]
                /\ s \in Dependents(w.store) => \A i \in DOMAIN d[s] : i \in DOMAIN db[s] /\ d[s][i] = db[s][i]
           /\ \A i : i # key => Agree(db[w.store], d[w.store], i)
           /\ w.op = "remove" => key \notin DOMAIN d[w.store]
           /\ w.op # "remove" => key \in DOMAIN d[w.store] /\ d[w.store][key] = w.entry
           /\ w.op # "add" => key \in DOMAIN db[w.store]
<1>1. /\ w.op \in {"add", "set", "remove"} /\ w.store \in Stores /\ w.entry \in Entries(w.store)
      /\ w.op = "set" => w.store = "collaborators"
  BY DEF TypeOK, WritesOK, WriteOf
<1>2. DOMAIN db = Stores /\ \A s \in Stores : db[s] \in Lists(s)
  BY DEF TypeOK, ServerOK, Dbs
<1>3. CASE w.op = "add"
  <2>1. d = [db EXCEPT ![w.store] = With(@, nextId, w.entry)]
    BY <1>3 DEF After
  <2> QED BY <1>1, <1>2, <1>3, <2>1, PagesApart DEF With, Agree
<1>4. CASE w.op = "set"
  <2>1. /\ w.store = "collaborators" /\ Dependents("collaborators") = {}
        /\ w.key \in DOMAIN db["collaborators"]
    BY <1>1, <1>4 DEF Accepted, Dependents
  <2>2. PICK f : f = db["collaborators"]
    OBVIOUS
  <2>3. d = [db EXCEPT !["collaborators"] = [f EXCEPT ![w.key] = [f[w.key] EXCEPT !.role = w.entry.role]]]
    BY <1>2, <1>4, <2>1, <2>2 DEF After, Stores
  <2>4. /\ f[w.key] \in [user: Users, role: Ids] /\ w.entry \in [user: Users, role: Ids]
        /\ w.entry.user = f[w.key].user /\ w.key \in DOMAIN f
    BY <1>1, <1>2, <2>1, <2>2, ListDef DEF Entries, PatientInv, UsersStay, Stores
  <2>5. [f[w.key] EXCEPT !.role = w.entry.role] = w.entry
    BY <2>4
  <2>6. d["collaborators"] = [f EXCEPT ![w.key] = w.entry]
    BY <1>2, <2>3, <2>5 DEF Stores
  <2>7. \A s \in Stores : s # "collaborators" => d[s] = db[s]
    BY <1>2, <2>3
  <2>8. \A i : i # key => Agree(f, d["collaborators"], i)
    BY <1>4, <2>6 DEF Agree
  <2> QED BY <1>4, <2>1, <2>2, <2>4, <2>6, <2>7, <2>8
<1>5. CASE w.op = "remove"
  <2>1. d[w.store] = Without(db[w.store], w.key)
    BY <1>1, <1>2, <1>5 DEF After, Stores
  <2>2. \A s \in Stores : \/ s = w.store
                          \/ d[s] = db[s]
                          \/ /\ w.store = "configuredRoles" /\ s = "collaborators"
                             /\ d[s] = CollaboratorsWithout(w.key)
    BY <1>1, <1>2, <1>5 DEF After, Stores
  <2>3. \A i \in DOMAIN CollaboratorsWithout(w.key) :
          /\ i \in DOMAIN db["collaborators"]
          /\ CollaboratorsWithout(w.key)[i] = db["collaborators"][i]
    BY DEF CollaboratorsWithout
  <2>4. w.key \in DOMAIN db[w.store]
    BY <1>5 DEF Accepted
  <2>5. \A i : i # key => Agree(db[w.store], d[w.store], i)
    BY <1>5, <2>1 DEF Without, Agree
  <2>6. key \notin DOMAIN d[w.store]
    BY <1>5, <2>1 DEF Without
  <2>7. \A s \in Stores : s # w.store /\ s \notin Dependents(w.store) => d[s] = db[s]
    BY <2>2 DEF Dependents
  <2>8. \A s \in Stores : s \in Dependents(w.store) =>
          \A i \in DOMAIN d[s] : i \in DOMAIN db[s] /\ d[s][i] = db[s][i]
    BY <1>1, <2>2, <2>3, PagesApart
  <2> QED BY <1>5, <2>4, <2>5, <2>6, <2>7, <2>8
<1> QED BY <1>1, <1>3, <1>4, <1>5

\* Serving and refusing a change.
LEMMA ServeWritePatient ==
    ASSUME TypeOK, PatientInv, NEW w \in writes, NEW o \in Outcomes, ServeWrite(w, o)
    PROVE  PatientInv'
<1>1. PICK key, d, v :
        /\ key = IF w.op = "add" THEN nextId ELSE w.key
        /\ d = After(w)
        /\ v = IF o = "answered"
               THEN [w EXCEPT !.answer = "ok", !.touched = Changed(d), !.key = key]
               ELSE [w EXCEPT !.answer = "error"]
  OBVIOUS
<1>2. /\ db' = d /\ nextId' = (IF w.op = "add" THEN nextId + 1 ELSE nextId)
      /\ w.op = "add" => nextId \in Ids
      /\ w.answer = "none" /\ Accepted(w)
      /\ writes' = (writes \ {w}) \cup {v}
      /\ UNCHANGED <<stores, page, loads>>
      /\ lost \subseteq lost' /\ (o = "lost" => Changed(d) \subseteq lost')
  BY <1>1 DEF ServeWrite
<1>3. o \in {"answered", "lost"}
  BY OutcomesAssumption DEF ServeWrite
<1>4. /\ WriteOf(w) /\ w.store \in Stores /\ w.touched = {}
      /\ page = PageOf[w.store] /\ w.attached /\ w.key < nextId /\ w.key \in Nat
      /\ \A l \in loads : l.stores \cap ({w.store} \cup Dependents(w.store)) = {}
  BY <1>2, Held DEF TypeOK, WritesOK, WriteOf, PatientInv, Told, WritesOfPage, IdsGiven, NoId
<1>5. /\ v.op = w.op /\ v.store = w.store /\ v.entry = w.entry /\ v.origin = w.origin
      /\ v.attached
      /\ \/ o = "answered" /\ v.answer = "ok" /\ v.key = key /\ v.touched = Changed(d)
         \/ o = "lost" /\ v.answer = "error" /\ v.key = w.key /\ v.touched = {}
  BY <1>1, <1>3, <1>4 DEF WriteOf
<1>6. /\ \A s \in Stores :
           /\ s # w.store /\ (w.op # "remove" \/ s \notin Dependents(w.store)) => d[s] = db[s]
           /\ s \in Dependents(w.store) => \A i \in DOMAIN d[s] : i \in DOMAIN db[s] /\ d[s][i] = db[s][i]
      /\ \A i : i # key => Agree(db[w.store], d[w.store], i)
      /\ w.op = "remove" => key \notin DOMAIN d[w.store]
      /\ w.op # "remove" => key \in DOMAIN d[w.store] /\ d[w.store][key] = w.entry
      /\ w.op # "add" => key \in DOMAIN db[w.store]
  BY <1>1, <1>2, AfterPatient
<1>7. ASSUME NEW u \in writes \ {w}
      PROVE  /\ u.store = w.store /\ u.store \in Stores /\ u.key < nextId
             /\ u.key # NoId => u.key # key
  <2>1. u.store = w.store /\ u.store \in Stores /\ u.key < nextId
    BY <1>4, PagesApart DEF PatientInv, WritesOfPage, IdsGiven, TypeOK, WritesOK, WriteOf
  <2>2. ASSUME u.key # NoId, u.key = key PROVE FALSE
    <3>1. CASE w.op = "add"
      BY <1>1, <2>1, <2>2, <3>1, Held
    <3>2. CASE w.op # "add"
      BY <1>1, <2>1, <2>2, <3>2 DEF PatientInv, KeysDiffer
    <3> QED BY <3>1, <3>2
  <2> QED BY <2>1, <2>2
<1>8. LoadsOfPage' /\ PageIsFed'
  <2>1. \A l \in loads : \A s \in l.stores : s \in Stores /\ d[s] = db[s]
    <3> SUFFICES ASSUME NEW l \in loads, NEW s \in l.stores PROVE s \in Stores /\ d[s] = db[s]
      OBVIOUS
    <3>1. s \in Stores
      BY DEF TypeOK, LoadsOK, LoadOf, Loads
    <3>2. s \notin {w.store} \cup Dependents(w.store)
      BY <1>4
    <3> QED BY <1>6, <3>1, <3>2
  <2> QED BY <1>2, <2>1 DEF PatientInv, LoadsOfPage, PageIsFed
<1>9. WritesOfPage'
  BY <1>2, <1>4, <1>5 DEF PatientInv, WritesOfPage
<1>10. IdsGiven'
  <2>1. nextId' \in Nat /\ nextId <= nextId' /\ key < nextId' /\ NoId < nextId'
    BY <1>1, <1>2, <1>4, Held DEF PatientInv, IdsGiven, NoId
  <2>2. ASSUME NEW s \in Stores, NEW i \in DOMAIN d[s]
        PROVE  i \in DOMAIN db[s] \/ i = key
    <3>1. CASE s = w.store
      BY <1>6, <3>1 DEF Agree
    <3>2. CASE s # w.store
      BY <1>6, <3>2
    <3> QED BY <3>1, <3>2
  <2>3. \A s \in Stores : \A i \in DOMAIN d[s] \cup DOMAIN stores[s].list : i < nextId'
    <3> SUFFICES ASSUME NEW s \in Stores, NEW i \in DOMAIN d[s] \cup DOMAIN stores[s].list
                 PROVE  i < nextId'
      OBVIOUS
    <3>1. CASE i \in DOMAIN db[s] \cup DOMAIN stores[s].list
      <4>1. i < nextId /\ i \in Nat
        BY <3>1, Held DEF PatientInv, IdsGiven
      <4> QED BY <2>1, <4>1, Held
    <3> QED BY <2>1, <2>2, <3>1
  <2>4. \A u \in writes' : u.key < nextId'
    <3>1. \A u \in writes : u.key < nextId /\ u.key \in Nat
      BY Held DEF PatientInv, IdsGiven, TypeOK, WritesOK, WriteOf, NoId
    <3> QED BY <1>2, <1>5, <2>1, <3>1, Held
  <2> QED BY <1>2, <2>1, <2>3, <2>4 DEF IdsGiven
<1>11. KeysDiffer'
  <2>1. \A u \in writes \ {w} : u.store = v.store /\ u.key = v.key => u.key = NoId
    BY <1>5, <1>7 DEF PatientInv, KeysDiffer
  <2> QED BY <1>2, <2>1 DEF PatientInv, KeysDiffer
<1>12. Told'
  <2>1. ASSUME NEW s \in Stores, NEW i \in Ids, <<s, i>> \in Changed(d)
        PROVE  (s = w.store /\ i = key) \/ (w.op = "remove" /\ s \in Dependents(w.store))
    <3>1. ~Agree(db[s], d[s], i)
      BY <2>1 DEF Changed
    <3>2. d[s] # db[s]
      BY <3>1 DEF Agree
    <3>3. CASE s = w.store
      <4>1. ~Agree(db[w.store], d[w.store], i)
        BY <3>1, <3>3 DEF Agree
      <4>2. i = key
        BY <1>6, <4>1
      <4> QED BY <3>3, <4>2
    <3>4. CASE s # w.store
      BY <1>6, <3>2, <3>4
    <3> QED BY <3>3, <3>4
  <2>2. ASSUME NEW u \in writes \ {w}, u.answer = "ok"
        PROVE  /\ u.op = "remove" => u.key \notin DOMAIN d[u.store]
               /\ u.op # "remove" => u.key \in DOMAIN d[u.store] /\ d[u.store][u.key] = u.entry
    <3>1. u.key \in Ids /\ u.key # NoId
      BY <2>2, Held DEF TypeOK, WritesOK, WriteOf
    <3>2. Agree(db[u.store], d[u.store], u.key)
      BY <1>6, <1>7, <3>1
    <3> QED BY <2>2, <3>2 DEF Agree, PatientInv, Told
  <2>3. /\ v.op = "add" /\ v.answer # "ok" => v.key = NoId
        /\ v.answer # "ok" => v.touched = {}
        /\ \A s \in Stores, i \in Ids : <<s, i>> \in v.touched =>
             (s = v.store /\ i = v.key) \/ (v.op = "remove" /\ s \in Dependents(v.store))
        /\ v.answer = "ok" /\ v.op = "remove" => v.key \notin DOMAIN d[v.store]
        /\ v.answer = "ok" /\ v.op # "remove" => v.key \in DOMAIN d[v.store] /\ d[v.store][v.key] = v.entry
    BY <1>2, <1>5, <1>6, <2>1 DEF PatientInv, Told
  <2>4. ASSUME NEW u \in writes \ {w}
        PROVE
          /\ u.op = "add" /\ u.answer # "ok" => u.key = NoId
          /\ u.answer # "ok" => u.touched = {}
          /\ \A s \in Stores, i \in Ids : <<s, i>> \in u.touched =>
             (s = u.store /\ i = u.key) \/ (u.op = "remove" /\ s \in Dependents(u.store))
    <3>1. Told
      BY DEF PatientInv
    <3> QED BY <3>1 DEF Told
  <2> QED BY <1>2, <2>2, <2>3, <2>4 DEF Told
<1>13. SetIsShown'
  <2>1. v.op = "set" => v.key = w.key
    BY <1>1, <1>5
  <2>2. SetIsShown
    BY DEF PatientInv
  <2> QED BY <1>2, <1>5, <2>1, <2>2 DEF SetIsShown
<1>14. UsersStay'
  <2> SUFFICES ASSUME NEW i \in DOMAIN d["collaborators"]
               PROVE  /\ i \in DOMAIN stores["collaborators"].list =>
                           stores["collaborators"].list[i].user = d["collaborators"][i].user
                      /\ \A u \in writes' : u.store = "collaborators" /\ u.key = i =>
                           u.entry.user = d["collaborators"][i].user
    BY <1>2 DEF UsersStay
  <2>1. CASE w.store = "collaborators" /\ i = key
    <3>1. w.op # "remove" /\ d["collaborators"][i] = w.entry
      BY <1>6, <2>1
    <3>2. \A u \in writes \ {w} : u.key # key
      <4>1. key # NoId
        BY <1>1, <1>2, <1>6, <2>1, Held DEF Stores
      <4> QED BY <1>7, <4>1
    <3>3. i \in DOMAIN stores["collaborators"].list =>
            stores["collaborators"].list[i].user = w.entry.user
      <4>1. CASE w.op = "add"
        <5>1. nextId \notin DOMAIN stores["collaborators"].list
          BY Held DEF PatientInv, IdsGiven, Stores
        <5> QED BY <1>1, <2>1, <4>1, <5>1
      <4>2. CASE w.op # "add"
        BY <1>1, <1>6, <2>1, <4>2 DEF PatientInv, UsersStay
      <4> QED BY <4>1, <4>2
    <3> QED BY <1>2, <1>5, <2>1, <3>1, <3>2, <3>3
  <2>2. CASE ~(w.store = "collaborators" /\ i = key)
    <3>1. i \in DOMAIN db["collaborators"] /\ d["collaborators"][i] = db["collaborators"][i]
      <4>1. CASE w.store = "collaborators"
        BY <1>6, <2>2, <4>1 DEF Agree
      <4>2. CASE w.store # "collaborators"
        BY <1>6, <4>2 DEF Stores
      <4> QED BY <4>1, <4>2
    <3>2. v.store = "collaborators" => v.key # i \/ v.key = w.key
      BY <1>5, <2>2
    <3> QED BY <1>2, <1>5, <3>1, <3>2 DEF PatientInv, UsersStay
  <2> QED BY <2>1, <2>2
<1>15. ListsAgreeWithServer'
  <2> SUFFICES ASSUME NEW s \in Stores, IsOk(stores[s]), NEW i \in Ids, <<s, i>> \notin Unsure'
               PROVE  Agree(stores[s].list, d[s], i)
    BY <1>2 DEF ListsAgreeWithServer, IsOk, Agree
  <2>1. <<s, i>> \notin Unsure
    BY <1>2, <1>4 DEF Unsure
  <2>2. <<s, i>> \notin Changed(d)
    <3>1. v.touched \subseteq Unsure' /\ lost' \subseteq Unsure'
      BY <1>2 DEF Unsure
    <3> QED BY <1>2, <1>5, <3>1
  <2>3. Agree(db[s], d[s], i)
    BY <2>2 DEF Changed
  <2>4. Agree(stores[s].list, db[s], i)
    BY <2>1 DEF PatientInv, ListsAgreeWithServer
  <2> QED BY <2>3, <2>4 DEF Agree
<1> QED BY <1>8, <1>9, <1>10, <1>11, <1>12, <1>13, <1>14, <1>15 DEF PatientInv

\* A change that is refused.
LEMMA RefuseWritePatient ==
    ASSUME TypeOK, PatientInv, NEW w \in writes, NEW o \in Outcomes, RefuseWrite(w, o)
    PROVE  PatientInv'
<1>1. PICK v : v = [w EXCEPT !.answer = "error"]
  OBVIOUS
<1>2. /\ w.answer = "none" /\ writes' = (writes \ {w}) \cup {v}
      /\ UNCHANGED <<db, nextId, stores, page, loads, lost>>
  BY <1>1 DEF RefuseWrite, server
<1>3. /\ v.op = w.op /\ v.store = w.store /\ v.entry = w.entry /\ v.origin = w.origin
      /\ v.attached = w.attached /\ v.key = w.key /\ v.touched = w.touched /\ v.answer = "error"
  BY <1>1 DEF TypeOK, WritesOK, WriteOf
<1>4. LoadsOfPage' /\ PageIsFed'
  BY <1>2 DEF PatientInv, LoadsOfPage, PageIsFed
<1>5. WritesOfPage' /\ IdsGiven'
  BY <1>2, <1>3 DEF PatientInv, WritesOfPage, IdsGiven
<1>6. KeysDiffer'
  BY <1>2, <1>3 DEF PatientInv, KeysDiffer
<1>7. Told'
  <2>1. w.touched = {} /\ (w.op = "add" => w.key = NoId)
    BY <1>2 DEF PatientInv, Told
  <2> QED BY <1>2, <1>3, <2>1 DEF PatientInv, Told
<1>8. SetIsShown' /\ UsersStay'
  BY <1>2, <1>3 DEF PatientInv, SetIsShown, UsersStay
<1>9. ListsAgreeWithServer'
  <2>1. Unsure \subseteq Unsure'
    BY <1>2, <1>3 DEF Unsure
  <2> QED BY <1>2, <2>1 DEF PatientInv, ListsAgreeWithServer, Agree
<1> QED BY <1>4, <1>5, <1>6, <1>7, <1>8, <1>9 DEF PatientInv

\* What the answer to a change does to the stores.
LEMMA AnswerPatches ==
    ASSUME TypeOK, PatientInv, NEW w \in writes, HearWrite(w)
    PROVE  /\ loads' \subseteq loads
           /\ \A s \in Stores :
                /\ s \notin {w.store} \cup Dependents(w.store) => stores'[s] = stores[s]
                /\ s \in Dependents(w.store) => stores'[s] \in {stores[s], NotRun}
                /\ w.answer = "ok" /\ w.op = "remove" /\ s \in Dependents(w.store) =>
                     stores'[s] = NotRun
           /\ LET old == stores[w.store]
                  new == stores'[w.store]
              IN /\ new.loading = old.loading /\ new.state = old.state /\ new.origin = old.origin
                 /\ \A i : i # w.key => Agree(new.list, old.list, i)
                 /\ w.answer # "ok" => new = old
                 /\ w.answer = "ok" /\ IsOk(old) /\ w.op = "remove" => w.key \notin DOMAIN new.list
                 /\ w.answer = "ok" /\ IsOk(old) /\ w.op # "remove" =>
                      w.key \in DOMAIN new.list /\ new.list[w.key] = w.entry
                 /\ w.key \in DOMAIN new.list =>
                      new = old \/ (w.op # "remove" /\ new.list[w.key] = w.entry)
<1>1. /\ w.store \in Stores /\ w.attached /\ w.op \in {"add", "set", "remove"}
      /\ w.op = "set" => w.store = "collaborators"
      /\ w.answer \in {"ok", "error"}
  BY DEF HearWrite, PatientInv, WritesOfPage, TypeOK, WritesOK, WriteOf
<1>2. DOMAIN stores = Stores /\ \A s \in Stores : stores[s] \in Values(s)
  BY Held
<1>3. w.store \notin Dependents(w.store) /\ Dependents(w.store) \subseteq Stores
  BY <1>1, PagesApart
<1>4. PICK v : v = stores[w.store]
  OBVIOUS
<1>5. v \in Values(w.store)
  BY <1>1, <1>2, <1>4
<1>6. CASE w.answer = "error"
  BY <1>1, <1>6 DEF HearWrite, Agree
<1>7. CASE w.answer = "ok" /\ w.op = "add"
  <2>1. HearAdded(w)
    BY <1>7 DEF HearWrite, HearRemoved, HearSet
  <2>2. loads' \subseteq loads
    BY <2>1, CancelKeeps DEF HearAdded
  <2>3. \A s \in Stores : s # w.store => stores'[s] = stores[s]
    BY <2>1 DEF HearAdded, Reached
  <2>4. stores'[w.store] = Update(v, With(v.list, w.key, w.entry))
    BY <1>1, <1>4, <2>1 DEF HearAdded, Reached
  <2>5. CASE IsOk(v)
    <3>1. PICK f : f = With(v.list, w.key, w.entry)
      OBVIOUS
    <3>2. w.key \in DOMAIN f /\ f[w.key] = w.entry /\ \A i : i # w.key => Agree(f, v.list, i)
      BY <3>1 DEF With, Agree
    <3>3. stores'[w.store] = [v EXCEPT !.list = f]
      BY <2>4, <2>5, <3>1 DEF Update
    <3>4. /\ stores'[w.store].list = f /\ stores'[w.store].loading = v.loading
          /\ stores'[w.store].state = v.state /\ stores'[w.store].origin = v.origin
      BY <1>5, <3>3 DEF Values
    <3> QED BY <1>3, <1>4, <1>7, <2>2, <2>3, <3>2, <3>4
  <2>6. CASE ~IsOk(v)
    BY <1>3, <1>4, <1>7, <2>2, <2>3, <2>4, <2>6 DEF Update, Agree
  <2> QED BY <2>5, <2>6
<1>8. CASE w.answer = "ok" /\ w.op = "remove"
  <2>1. HearRemoved(w)
    BY <1>8 DEF HearWrite, HearAdded, HearSet
  <2>2. loads' \subseteq loads
    BY <2>1, CancelKeeps DEF HearRemoved
  <2>3. \A s \in Stores :
          stores'[s] = IF s = w.store THEN Update(stores[s], Without(stores[s].list, w.key))
                       ELSE IF s \in Dependents(w.store) THEN NotRun ELSE stores[s]
    BY <1>1, <2>1 DEF HearRemoved, Reached
  <2>4. stores'[w.store] = Update(v, Without(v.list, w.key))
    BY <1>1, <1>4, <2>3
  <2>5. CASE IsOk(v)
    <3>1. PICK f : f = Without(v.list, w.key)
      OBVIOUS
    <3>2. w.key \notin DOMAIN f /\ \A i : i # w.key => Agree(f, v.list, i)
      BY <3>1 DEF Without, Agree
    <3>3. stores'[w.store] = [v EXCEPT !.list = f]
      BY <2>4, <2>5, <3>1 DEF Update
    <3>4. /\ stores'[w.store].list = f /\ stores'[w.store].loading = v.loading
          /\ stores'[w.store].state = v.state /\ stores'[w.store].origin = v.origin
      BY <1>5, <3>3 DEF Values
    <3> QED BY <1>3, <1>4, <1>8, <2>2, <2>3, <3>2, <3>4
  <2>6. CASE ~IsOk(v)
    BY <1>3, <1>4, <1>8, <2>2, <2>3, <2>4, <2>6 DEF Update, Agree
  <2> QED BY <2>5, <2>6
<1>9. CASE w.answer = "ok" /\ w.op = "set"
  <2>1. HearSet(w)
    BY <1>9 DEF HearWrite, HearAdded, HearRemoved
  <2>2. w.store = "collaborators" /\ v.origin = w.origin /\ w.key \in DOMAIN v.list
    BY <1>1, <1>4, <1>9 DEF PatientInv, SetIsShown
  <2>3. PICK f : f = With(v.list, w.key, w.entry)
    OBVIOUS
  <2>4. w.key \in DOMAIN f /\ f[w.key] = w.entry /\ \A i : i # w.key => Agree(f, v.list, i)
    BY <2>3 DEF With, Agree
  <2>5. stores' = [stores EXCEPT !["collaborators"].list = f] /\ loads' = loads
    BY <1>1, <1>4, <2>1, <2>2, <2>3 DEF HearSet
  <2>6. stores'[w.store] = [v EXCEPT !.list = f]
    BY <1>1, <1>2, <1>4, <2>2, <2>5
  <2>7. /\ stores'[w.store].list = f /\ stores'[w.store].loading = v.loading
        /\ stores'[w.store].state = v.state /\ stores'[w.store].origin = v.origin
    BY <1>5, <2>6 DEF Values
  <2>8. \A s \in Stores : s # w.store => stores'[s] = stores[s]
    BY <1>2, <2>2, <2>5
  <2> QED BY <1>3, <1>4, <1>9, <2>4, <2>5, <2>7, <2>8
<1> QED BY <1>1, <1>6, <1>7, <1>8, <1>9

\* Hearing the answer to a change: the patched list follows the server, and the lists that
\* do not are reset.
LEMMA HearWritePatient ==
    ASSUME TypeOK, PatientInv, NEW w \in writes, HearWrite(w) PROVE PatientInv'
<1>1. /\ writes' = writes \ {w} /\ UNCHANGED <<db, nextId, page, lost>>
      /\ w.store \in Stores /\ page = PageOf[w.store] /\ w.answer \in {"ok", "error"}
      /\ w.op \in {"add", "set", "remove"} /\ w.key < nextId /\ w.key \in Nat
      /\ \A l \in loads : l.stores \cap ({w.store} \cup Dependents(w.store)) = {}
  BY Held DEF HearWrite, server, PatientInv, WritesOfPage, IdsGiven, TypeOK, WritesOK, WriteOf, NoId
<1>2. PICK old, new : old = stores[w.store] /\ new = stores'[w.store]
  OBVIOUS
<1>3. loads' \subseteq loads
  BY AnswerPatches
<1>4. /\ \A s \in Stores \ ({w.store} \cup Dependents(w.store)) : stores'[s] = stores[s]
      /\ \A s \in Stores : s \in Dependents(w.store) => stores'[s] \in {stores[s], NotRun}
      /\ \A s \in Stores : w.answer = "ok" /\ w.op = "remove" /\ s \in Dependents(w.store) =>
           stores'[s] = NotRun
  BY AnswerPatches
<1>5. /\ new.loading = old.loading /\ new.state = old.state /\ new.origin = old.origin
      /\ \A i : i # w.key => Agree(new.list, old.list, i)
      /\ w.answer # "ok" => new = old
      /\ w.answer = "ok" /\ IsOk(old) /\ w.op = "remove" => w.key \notin DOMAIN new.list
      /\ w.answer = "ok" /\ IsOk(old) /\ w.op # "remove" =>
           w.key \in DOMAIN new.list /\ new.list[w.key] = w.entry
      /\ w.key \in DOMAIN new.list => new = old \/ (w.op # "remove" /\ new.list[w.key] = w.entry)
  BY <1>2, AnswerPatches
<1>6. \A s \in Stores : \A i \in DOMAIN stores'[s].list :
        \/ i \in DOMAIN stores[s].list /\ stores'[s].list[i] = stores[s].list[i]
        \/ s = w.store /\ i = w.key /\ stores'[s].list[i] = w.entry
  <2> SUFFICES ASSUME NEW s \in Stores, NEW i \in DOMAIN stores'[s].list
               PROVE  \/ i \in DOMAIN stores[s].list /\ stores'[s].list[i] = stores[s].list[i]
                      \/ s = w.store /\ i = w.key /\ stores'[s].list[i] = w.entry
    OBVIOUS
  <2>1. CASE s = w.store
    BY <1>2, <1>5, <2>1 DEF Agree
  <2>2. CASE s # w.store
    BY <1>4, <2>2 DEF NotRun, Nothing
  <2> QED BY <2>1, <2>2
<1>7. LoadsOfPage'
  <2>1. ASSUME NEW l \in loads', NEW s \in l.stores PROVE s \in Stores /\ stores'[s] = stores[s]
    <3>1. s \in Stores
      BY <1>3, <2>1 DEF TypeOK, LoadsOK, LoadOf, Loads
    <3> QED BY <1>1, <1>3, <1>4, <2>1, <3>1
  <2> QED BY <1>1, <1>3, <2>1 DEF PatientInv, LoadsOfPage
<1>8. WritesOfPage' /\ KeysDiffer' /\ Told'
  <2>1. WritesOfPage'
    BY <1>1, <1>3 DEF PatientInv, WritesOfPage
  <2>2. KeysDiffer' /\ Told'
    BY <1>1 DEF PatientInv, KeysDiffer, Told
  <2> QED BY <2>1, <2>2
<1>9. IdsGiven'
  BY <1>1, <1>6 DEF PatientInv, IdsGiven
<1>10. SetIsShown'
  <2> SUFFICES ASSUME NEW u \in writes \ {w}, u.op = "set"
               PROVE  /\ stores'["collaborators"].origin = u.origin
                      /\ u.key \in DOMAIN stores'["collaborators"].list
    BY <1>1 DEF SetIsShown
  <2>1. u.store = "collaborators" /\ u.key \in Ids /\ PageOf[u.store] = page
    BY DEF TypeOK, WritesOK, WriteOf, PatientInv, WritesOfPage
  <2>2. w.store = "collaborators"
    BY <1>1, <2>1, PagesApart DEF Stores
  <2>3. u.key # w.key
    BY <2>1, <2>2, Held DEF PatientInv, KeysDiffer
  <2>4. old.origin = u.origin /\ u.key \in DOMAIN old.list
    BY <1>2, <2>2 DEF PatientInv, SetIsShown
  <2>5. Agree(new.list, old.list, u.key)
    BY <1>5, <2>3
  <2> QED BY <1>2, <1>5, <2>2, <2>4, <2>5 DEF Agree
<1>11. UsersStay'
  BY <1>1, <1>6 DEF PatientInv, UsersStay, Stores
<1>12. ListsAgreeWithServer'
  <2> SUFFICES ASSUME NEW s \in Stores, IsOk(stores'[s]), NEW i \in Ids, <<s, i>> \notin Unsure'
               PROVE  Agree(stores'[s].list, db[s], i)
    BY <1>1 DEF ListsAgreeWithServer, IsOk, Agree
  <2>1. <<s, i>> \in Unsure => <<s, i>> \in w.touched
    BY <1>1 DEF Unsure
  <2>2. CASE s = w.store /\ i = w.key /\ w.answer = "ok"
    <3>1. IsOk(old)
      BY <1>2, <1>5, <2>2 DEF IsOk
    <3>2. /\ w.op = "remove" => i \notin DOMAIN db[s]
          /\ w.op # "remove" => i \in DOMAIN db[s] /\ db[s][i] = w.entry
      BY <2>2 DEF PatientInv, Told
    <3>3. CASE w.op = "remove"
      BY <1>2, <1>5, <2>2, <3>1, <3>2, <3>3 DEF Agree
    <3>4. CASE w.op # "remove"
      BY <1>2, <1>5, <2>2, <3>1, <3>2, <3>4 DEF Agree
    <3> QED BY <3>3, <3>4
  <2>3. CASE ~(s = w.store /\ i = w.key /\ w.answer = "ok")
    <3>1. <<s, i>> \notin w.touched
      <4> SUFFICES ASSUME <<s, i>> \in w.touched PROVE FALSE
        OBVIOUS
      <4>1. w.answer = "ok" /\ w.op = "remove" /\ s \in Dependents(w.store)
        BY <1>1, <2>3 DEF PatientInv, Told
      <4> QED BY <1>4, <4>1 DEF NotRun, IsOk
    <3>2. IsOk(stores[s]) /\ Agree(stores'[s].list, stores[s].list, i)
      <4>1. CASE s = w.store
        BY <1>1, <1>2, <1>5, <2>3, <4>1 DEF IsOk, Agree
      <4>2. CASE s # w.store
        BY <1>4, <4>2 DEF IsOk, NotRun, Agree
      <4> QED BY <4>1, <4>2
    <3>3. Agree(stores[s].list, db[s], i)
      BY <2>1, <3>1, <3>2 DEF PatientInv, ListsAgreeWithServer
    <3> QED BY <3>2, <3>3 DEF Agree
  <2> QED BY <2>2, <2>3
<1>13. PageIsFed'
  <2>1. Needs[page] \cap Dependents(w.store) = {} /\ Needs[page] \subseteq Stores
    BY <1>1, PagesApart DEF Needs, Pages, Stores, TypeOK
  <2>2. ASSUME NEW s \in Needs[page]
        PROVE  stores'[s].loading = stores[s].loading /\ stores'[s].state = stores[s].state
    BY <1>2, <1>4, <1>5, <2>1, <2>2
  <2> QED BY <1>1, <2>2 DEF PatientInv, PageIsFed, HasInitialized
<1> QED BY <1>7, <1>8, <1>9, <1>10, <1>11, <1>12, <1>13 DEF PatientInv

(***************************************************************************)
(* For a user who waits, what is under way belongs to the page, ids and    *)
(* entries are told apart, and the two properties below hold.              *)
(***************************************************************************)
THEOREM PatientInvHolds == ASSUME Patient PROVE Spec => []PatientInv
<1>1. Init => PatientInv
  <2> SUFFICES ASSUME Init PROVE PatientInv
    OBVIOUS
  <2>1. /\ loads = {} /\ writes = {} /\ page = "elsewhere"
        /\ \A s \in Stores : stores[s] = NotRun /\ ~IsOk(NotRun) /\ DOMAIN NotRun.list = {}
    BY DEF Init, NotRun, IsOk, Nothing
  <2>2. IdsGiven
    <3>1. NoId < nextId /\ nextId \in Nat
      BY IdsAssumption DEF Init, NoId
    <3>2. \A s \in Stores : \A i \in DOMAIN db[s] : i < nextId
      BY InitialDbAssumption, IdsAssumption DEF Init
    <3> QED BY <2>1, <3>1, <3>2 DEF IdsGiven
  <2>3. UsersStay /\ ListsAgreeWithServer
    BY <2>1 DEF UsersStay, ListsAgreeWithServer, Stores
  <2>4. PageIsFed
    BY <2>1 DEF PageIsFed, Needs
  <2> QED BY <2>1, <2>2, <2>3, <2>4
          DEF PatientInv, LoadsOfPage, WritesOfPage, KeysDiffer, Told, SetIsShown
<1>2. TypeOK /\ PatientInv /\ [Next]_vars => PatientInv'
  <2> SUFFICES ASSUME TypeOK, PatientInv, [Next]_vars PROVE PatientInv'
    OBVIOUS
  <2>1. CASE OpenPermissions \/ \E p \in Pages : Open(p)
    BY <2>1, OpenPatient
  <2>2. CASE Leave
    BY <2>2, LeavePatient
  <2>3. CASE \/ ConfigureRole \/ RemoveConfiguredRole
             \/ AddCollaborator \/ SetConfiguredRole \/ DeleteCollaborator
             \/ AddRole \/ DeleteRole
    BY <2>3, ChangePatient
  <2>4. CASE \E l \in loads, o \in Outcomes : ServeLoad(l, o)
    BY <2>4, ServeLoadPatient
  <2>5. CASE \E l \in loads : HearLoad(l)
    BY <2>5, HearLoadPatient
  <2>6. CASE \E w \in writes, o \in Outcomes : ServeWrite(w, o) \/ RefuseWrite(w, o)
    BY <2>6, ServeWritePatient, RefuseWritePatient
  <2>7. CASE \E w \in writes : HearWrite(w)
    BY <2>7, HearWritePatient
  <2>8. CASE UNCHANGED vars
    BY <2>8 DEF vars, server, counts, PatientInv, LoadsOfPage, WritesOfPage, IdsGiven, KeysDiffer,
                Told, SetIsShown, UsersStay, ListsAgreeWithServer, Unsure, Agree, PageIsFed
  <2> QED BY <2>1, <2>2, <2>3, <2>4, <2>5, <2>6, <2>7, <2>8 DEF Next
<1> QED BY <1>1, <1>2, TypeCorrect, PTL DEF Spec

(***************************************************************************)
(* Patching one list by hand and resetting those that depend on it is      *)
(* enough to follow the server, for a user who waits.                      *)
(***************************************************************************)
THEOREM ListsAgreeHolds == ASSUME Patient PROVE Spec => []ListsAgreeWithServer
<1>1. PatientInv => ListsAgreeWithServer
  BY DEF PatientInv
<1> QED BY <1>1, PatientInvHolds, PTL

(***************************************************************************)
(* A page is never left with nothing to show, for a user who waits.        *)
(***************************************************************************)
THEOREM PageIsFedHolds == ASSUME Patient PROVE Spec => []PageIsFed
<1>1. PatientInv => PageIsFed
  BY DEF PatientInv
<1> QED BY <1>1, PatientInvHolds, PTL

=============================================================================

---------------------------- MODULE DatabaseSetup ----------------------------
(***************************************************************************)
(* Who may reach which database as whom: the Django rows of servers,       *)
(* databases, configured roles and collaborators (mathesar/models/base.py),*)
(* the methods that change them (rpc/databases, rpc/collaborators,         *)
(* rpc/roles/configured) and the installation of Mathesar's own functions  *)
(* in a user database (mathesar/utils/permissions.py, db/install.py).      *)
(*                                                                         *)
(* The Django rows of a set-up are one transaction, what is installed in   *)
(* the user database is a transaction for every part, and the two servers  *)
(* know nothing of each other.  A set-up is therefore many steps, between  *)
(* which other requests are served, rows go, passwords change and things   *)
(* break.  An old-style connection enters the same rows in one step, and   *)
(* installs nothing.                                                       *)
(*                                                                         *)
(* A server is its host; a configured role is its server and its name.     *)
(***************************************************************************)
EXTENDS Naturals, SequencesExt, Mappings

CONSTANTS
    Users, Superusers,
    Hosts, InternalHost,        \* the servers; the one of Mathesar's own database
    Names, InternalName,        \* names of databases; the name of Mathesar's own
    Roles, InternalRole,        \* names of roles; the one in Django's settings
    Passwords, InitialPassword, InternalPassword,
    Samples,                    \* the data sets a set-up can load
    MaxIds                      \* databases ever entered

ASSUME SetupAssumption ==
    /\ Superusers \subseteq Users /\ InternalHost \in Hosts /\ InternalName \in Names
    /\ InternalRole \in Roles /\ InternalPassword \in Passwords
    /\ InitialPassword \in [Hosts -> Passwords] /\ MaxIds \in Nat \ {0}

VARIABLES
    servers,          \* Server rows
    databases,        \* Database rows, by id: the server and the name
    configuredRoles,  \* ConfiguredRole rows, by server and name: the password
    maps,             \* UserDatabaseRoleMap rows, by user and database: the role and the server
    nextId,           \* the next Database id
    setup,            \* the set-up under way: none or one
    passwords,        \* on the servers: the password of every role
    parts,            \* on the servers: the parts of Mathesar in every database there is
    samples,          \* on the servers: the sample schemas in them
    bare              \* databases dropped or entered without an installation, and not set up since

djangoRows == <<servers, databases, configuredRoles, maps, nextId>>
serverSide == <<passwords, parts, samples, bare>>

\* What is installed, in this order, each in a transaction of its own.
TypeParts == <<"types", "tlds", "tld_rows", "casts">>
SqlParts == <<"msar", "joins_and_aggregates">>
Parts == Range(TypeParts) \cup Range(SqlParts)

\* A database a connection can name.
Places == Hosts \X Names

----------------------------------------------------------------------------
(* Connecting. *)

\* The place a map's connection goes to, and whether it gets in.
Reach(u, d) == <<maps[<<u, d>>].server, databases[d][2]>>
CanConnect(place, role, password) ==
    place \in DOMAIN parts /\ passwords[<<place[1], role>>] = password
Works(u, d) ==
    LET m == maps[<<u, d>>] IN CanConnect(Reach(u, d), m.role[2], configuredRoles[m.role])
connect(d, u) == <<u, d>> \in DOMAIN maps /\ Works(u, d)

\* Databases a user reaches and can use the functions of.
Reached == {Reach(x[1], x[2]) : x \in {y \in DOMAIN maps : Works(y[1], y[2])}}
Usable == {p \in Reached : "msar" \in parts[p]}

----------------------------------------------------------------------------
(* Setting up a database. *)

\* The id of the Database row of this server and name, a new one if there is none.
DatabaseId(host, name) ==
    IF \E d \in DOMAIN databases : databases[d] = <<host, name>>
    THEN CHOOSE d \in DOMAIN databases : databases[d] = <<host, name>> ELSE nextId

\* get_or_create of the four rows, where an existing role keeps its password, which
\* of the rows found are gone since, and what is left to do.
SetupRows(u, host, name, role, password, create, data) ==
    LET d == DatabaseId(host, name)
        key == <<host, role>>
    IN  [database |-> d, place |-> <<host, name>>, user |-> u, role |-> key, given |-> password,
         stored |-> IF key \in DOMAIN configuredRoles THEN configuredRoles[key] ELSE password,
         new |-> {x \in {"database", "role", "map"} : \/ (x = "database" /\ d = nextId)
                                                     \/ (x = "role" /\ key \notin DOMAIN configuredRoles)
                                                     \/ (x = "map" /\ <<u, d>> \notin DOMAIN maps)},
         gone |-> {}, create |-> create, data |-> data, left |-> <<"connect">> \o TypeParts \o SqlParts]

\* A user with another role for this database breaks the unique constraint.
HasOtherRole(u, d, key, host) ==
    <<u, d>> \in DOMAIN maps /\ maps[<<u, d>>] # [role |-> key, server |-> host]

_setup_connection_models(u, host, name, role, password, create, data) ==
    LET rows == SetupRows(u, host, name, role, password, create, data)
    IN  /\ setup = {}
        /\ <<host, name>> # <<InternalHost, InternalName>>
        /\ ~HasOtherRole(u, rows.database, rows.role, host)
        /\ nextId <= MaxIds
        /\ nextId' = IF "database" \in rows.new THEN nextId + 1 ELSE nextId
        /\ setup' = {rows}
        /\ UNCHANGED <<servers, databases, configuredRoles, maps, serverSide>>

set_up_preexisting_database_for_user(u, host, name, role, password, data) ==
    _setup_connection_models(u, host, name, role, password, FALSE, data)

set_up_new_database_for_user_on_internal_server(u, name, data) ==
    _setup_connection_models(u, InternalHost, name, InternalRole, InternalPassword, TRUE, data)

Job == CHOOSE s \in setup : TRUE

\* A method that would enter a row the set-up under way has entered waits for its end.
Enters(u, d, key) == \E s \in setup : \/ ("map" \in s.new /\ s.user = u /\ s.database = d)
                                      \/ ("role" \in s.new /\ s.role = key)
EntersPlace(place) == \E s \in setup : \/ (s.place[1] = place[1] /\ place[1] \notin servers)
                                       \/ ("database" \in s.new /\ s.place = place)

\* The rows that were not there.
EnterRows(s) ==
    /\ servers' = servers \cup {s.place[1]}
    /\ databases' = IF "database" \in s.new THEN databases ++ Single(s.database, s.place) ELSE databases
    /\ configuredRoles' = IF "role" \in s.new THEN configuredRoles ++ Single(s.role, s.given) ELSE configuredRoles
    /\ maps' = IF "map" \in s.new
               THEN maps ++ Single(<<s.user, s.database>>, [role |-> s.role, server |-> s.place[1]]) ELSE maps

\* The rows of an old-style connection, which may name any place: nothing is opened
\* and nothing is installed.
migrate_connection_for_user(u, host, name, role, password) ==
    LET rows == SetupRows(u, host, name, role, password, FALSE, <<>>)
    IN  /\ ~HasOtherRole(u, rows.database, rows.role, host)
        /\ ~Enters(u, rows.database, rows.role) /\ ~EntersPlace(rows.place)
        /\ nextId <= MaxIds
        /\ nextId' = IF "database" \in rows.new THEN nextId + 1 ELSE nextId
        /\ EnterRows(rows)
        /\ bare' = IF "database" \in rows.new THEN bare \cup {rows.place} ELSE bare
        /\ UNCHANGED <<setup, passwords, parts, samples>>

\* Opens the database, which a set-up on the internal server creates if it must.
Connect ==
    /\ setup # {} /\ Job.left # <<>> /\ Head(Job.left) = "connect"
    /\ passwords[<<Job.place[1], Job.role[2]>>] = Job.given
    /\ Job.place \in DOMAIN parts \/ Job.create
    /\ parts' = parts ++ Single(Job.place, {})
    /\ samples' = samples ++ Single(Job.place, {})
    /\ setup' = {[Job EXCEPT !.left = Tail(@)]}
    /\ UNCHANGED <<djangoRows, passwords, bare>>

\* mutant: what has been left behind is taken for a whole installation.
install_mathesar_OnlyOnce ==
    /\ setup # {} /\ Job.left # <<>> /\ Head(Job.left) # "connect" /\ Job.place \in DOMAIN parts
    /\ IF "types" \in parts[Job.place] /\ Head(Job.left) = "types"
       THEN setup' = {[Job EXCEPT !.left = <<>>]} /\ UNCHANGED parts
       ELSE /\ setup' = {[Job EXCEPT !.left = Tail(@)]}
            /\ parts' = [parts EXCEPT ![Job.place] = @ \cup {Head(Job.left)}]
    /\ UNCHANGED <<djangoRows, passwords, samples, bare>>

\* The next part.  Every part replaces what is there, but the list of top level
\* domains: where its table exists already it is left as it is, filled or not.
install_mathesar ==
    /\ setup # {} /\ Job.left # <<>> /\ Head(Job.left) # "connect" /\ Job.place \in DOMAIN parts
    /\ parts' = [parts EXCEPT ![Job.place] = @ \cup {Head(Job.left)}]
    /\ setup' = {[Job EXCEPT !.left = IF Head(@) = "tlds" /\ "tlds" \in parts[Job.place]
                                     THEN Tail(Tail(@)) ELSE Tail(@)]}
    /\ UNCHANGED <<djangoRows, passwords, samples, bare>>

\* The data sets are loaded in one transaction.  One whose schema exists already
\* is passed over, but its error has ended the transaction: a data set after it
\* fails, and what was loaded before it is lost.
Duplicates(data, place) == {k \in DOMAIN data : data[k] \in samples[place]}
_load_sample_data_Fails(data, place) == \E k \in Duplicates(data, place) : k < Len(data)
_load_sample_data(data, place) == IF Duplicates(data, place) = {} THEN Range(data) ELSE {}

\* The last step opens the database with the rows a new map was entered with, or
\* with those a map that was found refers to, as they are by now.
Opens(s) ==
    IF "map" \in s.new THEN CanConnect(s.place, s.role[2], s.stored)
    ELSE s.gone = {} /\ CanConnect(s.place, s.role[2], configuredRoles[s.role])

\* The data is in the database when its connection closes.
LoadData ==
    /\ setup # {} /\ Job.left = <<>>
    /\ Opens(Job) /\ ~_load_sample_data_Fails(Job.data, Job.place)
    /\ samples' = [samples EXCEPT ![Job.place] = @ \cup _load_sample_data(Job.data, Job.place)]
    /\ setup' = {}

\* mutant: the rows found are not looked at again.
FinishSetup_Unchecked ==
    /\ LoadData
    /\ EnterRows(Job)
    /\ bare' = bare \ {Job.place}
    /\ UNCHANGED <<nextId, passwords, parts>>

\* Commits the Django rows, which looks for those the new ones refer to.
FinishSetup ==
    /\ LoadData
    /\ Job.gone = {}
    /\ EnterRows(Job)
    /\ bare' = bare \ {Job.place}
    /\ UNCHANGED <<nextId, passwords, parts>>

\* The commit is refused, or the worker stops before it: the data stays.
LoseSetup ==
    /\ LoadData
    /\ UNCHANGED <<djangoRows, passwords, parts, bare>>

\* mutant: a set-up that breaks cleans up by dropping the database.
BreakSetup_Dropping ==
    /\ setup # {} /\ setup' = {}
    /\ parts' = Restrict(parts, DOMAIN parts \ {Job.place})
    /\ samples' = Restrict(samples, DOMAIN samples \ {Job.place})
    /\ UNCHANGED <<djangoRows, passwords, bare>>

\* A connection refused or lost, a row that is gone, or a worker stopped, at any
\* step: the Django rows are rolled back and what is installed stays.
BreakSetup ==
    /\ setup # {} /\ setup' = {}
    /\ UNCHANGED <<djangoRows, serverSide>>

----------------------------------------------------------------------------
(* Collaborators. *)

collaborators_add(u, d, key) ==
    /\ d \in DOMAIN databases /\ key \in DOMAIN configuredRoles
    /\ <<u, d>> \notin DOMAIN maps /\ ~Enters(u, d, key)
    /\ maps' = maps ++ Single(<<u, d>>, [role |-> key, server |-> key[1]])
    /\ UNCHANGED <<servers, databases, configuredRoles, nextId, setup, serverSide>>

collaborators_delete(u, d) ==
    /\ <<u, d>> \in DOMAIN maps
    /\ maps' = Restrict(maps, DOMAIN maps \ {<<u, d>>})
    /\ UNCHANGED <<servers, databases, configuredRoles, nextId, setup, serverSide>>

\* The server of the row stays what it was.
collaborators_set_role(u, d, key) ==
    /\ <<u, d>> \in DOMAIN maps /\ key \in DOMAIN configuredRoles
    /\ maps' = [maps EXCEPT ![<<u, d>>].role = key]
    /\ UNCHANGED <<servers, databases, configuredRoles, nextId, setup, serverSide>>

(* Configured roles. *)

roles_configured_add(host, role, password) ==
    /\ host \in servers /\ <<host, role>> \notin DOMAIN configuredRoles
    /\ ~Enters("", 0, <<host, role>>)
    /\ configuredRoles' = configuredRoles ++ Single(<<host, role>>, password)
    /\ UNCHANGED <<servers, databases, maps, nextId, setup, serverSide>>

\* What is left of the maps when these databases or these roles are deleted.
Remaining(D, K) == Restrict(maps, {x \in DOMAIN maps : x[2] \notin D /\ maps[x].role \notin K})

\* The set-up under way, which has found a row that goes if it is in S.  Foreign keys
\* are deferred: what refers to a row by a key not yet committed does not keep it.
Losing(row, S) == {[s EXCEPT !.gone = IF s \in S THEN @ \cup {row} ELSE @] : s \in setup}

roles_configured_delete(key) ==
    /\ key \in DOMAIN configuredRoles
    /\ configuredRoles' = Restrict(configuredRoles, DOMAIN configuredRoles \ {key})
    /\ maps' = Remaining({}, {key})
    /\ setup' = Losing("role", {s \in setup : s.role = key})
    /\ UNCHANGED <<servers, databases, nextId, serverSide>>

roles_configured_set_password(key, password) ==
    /\ key \in DOMAIN configuredRoles
    /\ configuredRoles' = [configuredRoles EXCEPT ![key] = password]
    /\ UNCHANGED <<servers, databases, maps, nextId, setup, serverSide>>

(* Databases. *)

\* Forgets a database: nothing on its server changes, its server and roles stay.
databases_configured_disconnect(d) ==
    /\ d \in DOMAIN databases
    /\ databases' = Restrict(databases, DOMAIN databases \ {d})
    /\ maps' = Remaining({d}, {})
    /\ setup' = Losing("database", {s \in setup : s.database = d})
    /\ UNCHANGED <<servers, configuredRoles, nextId, serverSide>>

\* Between its first step and its last a set-up has the database open.
IsInstalling(s) == s.left # <<>> /\ Head(s.left) # "connect"

\* Drops a database of the server a user reaches, through another one of it, while
\* no installation has it open.  Its Django rows stay.
databases_delete(u, d, place) ==
    /\ connect(d, u)
    /\ place \in DOMAIN parts /\ place[1] = Reach(u, d)[1] /\ place # Reach(u, d)
    /\ place # <<InternalHost, InternalName>>
    /\ ~\E s \in setup : s.place = place /\ IsInstalling(s)
    /\ parts' = Restrict(parts, DOMAIN parts \ {place})
    /\ samples' = Restrict(samples, DOMAIN samples \ {place})
    /\ bare' = bare \cup {place}
    /\ UNCHANGED <<djangoRows, setup, passwords>>

(* The servers' own users. *)

OthersChangePassword(host, role, password) ==
    /\ passwords' = [passwords EXCEPT ![<<host, role>>] = password]
    /\ UNCHANGED <<djangoRows, setup, parts, samples, bare>>
=============================================================================

---------------------------- MODULE MCRpcMethods ----------------------------
(* The values TLC checks RpcMethods with. *)
EXTENDS RpcMethods

MCInitialPassword == [h \in Hosts |-> IF h = InternalHost THEN InternalPassword ELSE "p"]

MCSamples == {<<"library">>, <<"library", "movies">>}

\* One table; and one that refers to another, with rows that are referred to
\* once, twice and never, equal ones, and NULLs.
MCInitialTables == {<<>>,
    (1 :> [cols |-> (1 :> 0 @@ 2 :> 1 @@ 3 :> 2), next |-> 4, nextId |-> 5, fks |-> <<>>, uniques |-> {},
           rows |-> (1 :> (2 :> 1 @@ 3 :> 2) @@ 2 :> (2 :> 1 @@ 3 :> 0) @@ 4 :> (2 :> 1 @@ 3 :> 2))]),
    (1 :> [cols |-> (1 :> 0 @@ 2 :> 1 @@ 3 :> 10), next |-> 4, nextId |-> 6, fks |-> (3 :> 2), uniques |-> {},
           rows |-> (1 :> (2 :> 1 @@ 3 :> 2) @@ 2 :> (2 :> 2 @@ 3 :> 2) @@ 3 :> (2 :> 2 @@ 3 :> 1)
                     @@ 4 :> (2 :> 1 @@ 3 :> 1) @@ 5 :> (2 :> 0 @@ 3 :> 1))]
     @@ 2 :> [cols |-> (1 :> 0 @@ 2 :> 2), next |-> 3, nextId |-> 4, fks |-> <<>>, uniques |-> {},
              rows |-> (1 :> (2 :> 2) @@ 2 :> (2 :> 1) @@ 3 :> (2 :> 1))])}

\* A chain of views of the first column, one of which also reads the id.
MCInitialViews == {<<>>,
    -1 :> {<<1, 2>>} @@ -2 :> {<<-1, 1>>, <<1, 1>>} @@ -3 :> {<<-2, 1>>} @@ -4 :> {<<-3, 1>>}}

Calls(s, t, r, e) == [setup |-> s, shape |-> t, row |-> r, extra |-> e]
MCBudgets == {Calls(3, 0, 0, 0), Calls(0, 2, 1, 0), Calls(0, 2, 0, 0), Calls(1, 1, 0, 0), Calls(1, 0, 0, 2), Calls(2, 0, 0, 1)}

\* Tables only where a call changes them, views where only methods do, a
\* database where something is kept for it.
MCInit == /\ Init
          /\ budget["shape"] = 0 => \A p \in Places : tables[p] = <<>>
          /\ (\E p \in Places : views[p] # <<>>) <=> budget = Calls(0, 2, 0, 0)
          /\ budget["extra"] > 0 => databases # <<>>
MCSpec == MCInit /\ [][Next]_vars

MCSymmetry == Permutations(Users)
=============================================================================

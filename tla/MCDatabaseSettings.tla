------------------------- MODULE MCDatabaseSettings -------------------------
\* DatabaseSettings for TLC: two roles, one of them configured, and a user who
\* collaborates with it; or that role alone.
EXTENDS DatabaseSettings

CONSTANTS A, B, u1

Configured == [configuredRoles |-> [i \in {1} |-> A],
               collaborators |-> [i \in {1} |-> [user |-> u1, role |-> 1]]]
BothNames == {A, B}
BothRoles == [roles |-> [i \in 1 .. 2 |-> IF i = 1 THEN A ELSE B],
              configuredRoles |-> Configured.configuredRoles,
              collaborators |-> Configured.collaborators]
OneName == {A}
OneRole == [roles |-> [i \in {1} |-> A],
            configuredRoles |-> Configured.configuredRoles,
            collaborators |-> Configured.collaborators]
=============================================================================

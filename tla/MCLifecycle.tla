----------------------------- MODULE MCLifecycle ------------------------------
(***************************************************************************)
(* A small instance of Lifecycle for TLC.                                  *)
(***************************************************************************)
EXTENDS Lifecycle

MCDefault == [provider |-> 2, drain |-> 1, write |-> 1, delay |-> 2, shutdown |-> 1]

AllDefault == [provider |-> Unset, drain |-> Unset, ttl |-> Unset, write |-> Unset,
               delay |-> Unset, shutdown |-> Unset,
               migrate |-> TRUE, credentials |-> TRUE]
NoMigration == [AllDefault EXCEPT !.migrate = FALSE]

(* The default TTL, a TTL with no margin, one that is too short, a variable *)
(* that is not positive, a drain wider than the provider timeout, and no    *)
(* credentials.                                                             *)
MCEnvs ==
    {AllDefault,
     [NoMigration EXCEPT !.ttl = 3],
     [NoMigration EXCEPT !.ttl = 2],
     [NoMigration EXCEPT !.write = 0],
     [NoMigration EXCEPT !.drain = 3],
     [AllDefault EXCEPT !.credentials = FALSE]}

MCKeyDrains == {Unset, 2}
===============================================================================

---------------------------- MODULE MCResources -----------------------------
(* A small build with resources for module Resources: see the .cfg files.  *)
EXTENDS Resources, TLC

CONSTANTS t1, t2, t3, database, migrations, registry

\* migrations depends on database; the tasks reach them in different orders.
MCNeeds ==
  (t1 :> <<migrations, registry>>) @@ (t2 :> <<registry, database>>)
    @@ (t3 :> <<migrations>>)
MCDependsOn ==
  (database :> << >>) @@ (migrations :> <<database>>) @@ (registry :> << >>)
=============================================================================

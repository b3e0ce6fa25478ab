------------------------------ MODULE MCStorage ------------------------------
(***************************************************************************)
(* Instances for TLC of the database: its migration when the process       *)
(* starts (Migration), and the rows the routes then read and write         *)
(* (Credentials).  A behaviour is of one part, the other stays as it       *)
(* began.                                                                  *)
(***************************************************************************)
EXTENDS Credentials, TLC

CONSTANTS Ids, Parents, Times, Fallible

VARIABLES
    part,   \* "start" or "routes"
    pc, tables, columns, rows, index, before

startVars == <<pc, tables, columns, rows, index, before>>

Start == INSTANCE Migration

ASSUME StorageConstants == Start!ConstantsOK

StorageInit ==
    /\ part \in {"start", "routes"}
    /\ Init /\ Start!Init
    /\ part # "start" => ~tables
    /\ part # "routes" =>
          ~crashing /\ \A r \in LegacyRows : creds[r].namespace = CHOOSE ns \in Namespaces : TRUE

StorageNext ==
    \/ part = "start" /\ Start!Next /\ UNCHANGED <<part, vars>>
    \/ part = "routes" /\ Next /\ UNCHANGED <<part, startVars>>

StorageSpec == StorageInit /\ [][StorageNext]_<<part, vars, startVars>>

-----------------------------------------------------------------------------
(* Properties: those of the parts.                                         *)

\* Between two statements of a migration, with crashes and earlier versions in
\* between: one access row of every enrollment is left, the right one, and the
\* index fits.  A gateway that is up has its columns.
MigrationInv == part = "start" => Start!MigrationInv

\* No start fails, and none after the first that finished drops a row.
StartsSucceed == Start!StartsSucceed

\* Credential ids that were not issued yet, backend ids, connections and the
\* enrollments of a migration are interchangeable.
Symmetry ==
    Permutations(Rows \ LegacyRows) \cup Permutations(BackendIds)
        \cup Permutations(Conns) \cup Permutations(LegacyRows) \cup Permutations(Parents)

=============================================================================

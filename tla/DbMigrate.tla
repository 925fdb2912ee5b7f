------------------------------ MODULE DbMigrate ------------------------------
(* `workbuddy db migrate`: every row of every table is read from one store   *)
(* and inserted into another, batch by batch, then the row counts of both    *)
(* sides are compared.  No transaction spans two batches, so a failure       *)
(* leaves what was inserted; the operator runs the command again with        *)
(* --force, which deletes everything first.  The coordinator should be       *)
(* stopped meanwhile; one that was not may still add rows to the source.     *)
EXTENDS Naturals, FiniteSets, FiniteSetsExt, Sequences

CONSTANTS
    migrationTables,    \* the tables in the order they are copied
    Parent,             \* table -> the table its rows refer to, or itself
    Rows,               \* row ids; a child refers to the parent row of its id
    SourceRows,         \* the rows the source starts with
    batchSize,
    MaxDbFaults, MaxWrites

MigTables == {migrationTables[n] : n \in 1 .. Len(migrationTables)}

ASSUME MigrationAssumption ==
    /\ batchSize \in Nat \ {0}
    /\ Len(migrationTables) \in Nat \ {0} /\ IsFiniteSet(Rows)
    /\ SourceRows \in [MigTables -> SUBSET Rows]
    /\ \A t \in MigTables : Parent[t] \in MigTables

VARIABLES
    src, dst,       \* table -> its rows
    mig,            \* [pc, at: index into the tables, cursor: rows still to read]
    due,            \* the source when the counts began to be compared
    dbFaults, writes
migVars == <<src, dst, mig, due, dbFaults, writes>>

This == migrationTables[mig.at]
Empty == [t \in MigTables |-> {}]
To(pc, n) == [pc |-> pc, at |-> n, cursor |-> {}]
Stopped == To("failed", 1)

(* MySQL refuses a child without its parent and a parent's deletion before   *)
(* its children's.                                                           *)
Referenced(t, r) == Parent[t] # t => r \in dst[Parent[t]]
Deletable(t) == \A c \in MigTables \ {t} : Parent[c] = t => dst[c] = {}

-----------------------------------------------------------------------------
(* A destination with rows is refused without --force and wiped with it.     *)
Start(force) ==
    /\ mig.pc \in {"idle", "failed"}
    /\ mig' = IF dst = Empty THEN To("copy", 1)
              ELSE IF force THEN To("wipe", Len(migrationTables))
              ELSE Stopped
    /\ UNCHANGED <<src, dst, due, dbFaults, writes>>

(* Children before parents, one statement per table.                         *)
ToWipeInOrder == migrationTables[Len(migrationTables) + 1 - mig.at]
ToWipe == migrationTables[mig.at]
WipeTable ==
    /\ mig.pc = "wipe"
    /\ IF Deletable(ToWipe)
       THEN /\ dst' = [dst EXCEPT ![ToWipe] = {}]
            /\ mig' = IF mig.at = 1 THEN To("copy", 1) ELSE To("wipe", mig.at - 1)
       ELSE mig' = Stopped /\ UNCHANGED dst
    /\ UNCHANGED <<src, due, dbFaults, writes>>

(* SELECT sees the table as it is then.                                      *)
Select ==
    /\ mig.pc = "copy"
    /\ mig' = [mig EXCEPT !.pc = "insert", !.cursor = src[This]]
    /\ UNCHANGED <<src, dst, due, dbFaults, writes>>

Batches == IF Cardinality(mig.cursor) <= batchSize THEN {mig.cursor}
           ELSE kSubset(batchSize, mig.cursor)

(* One multi-row INSERT, or its rows one at a time when the server finds it  *)
(* too large; an error keeps what is in already.                             *)
InsertBatch ==
    /\ mig.pc = "insert" /\ mig.cursor # {}
    /\ \E batch \in Batches :
          IF batch \cap dst[This] = {} /\ \A r \in batch : Referenced(This, r)
          THEN /\ dst' = [dst EXCEPT ![This] = @ \cup batch]
               /\ mig' = [mig EXCEPT !.cursor = @ \ batch]
          ELSE mig' = Stopped /\ UNCHANGED dst
    /\ UNCHANGED <<src, due, dbFaults, writes>>

InsertFails ==
    /\ mig.pc = "insert" /\ mig.cursor # {}
    /\ dbFaults < MaxDbFaults
    /\ dbFaults' = dbFaults + 1
    /\ \E batch \in Batches : \E part \in SUBSET {r \in batch \ dst[This] : Referenced(This, r)} :
          /\ part # batch
          /\ dst' = [dst EXCEPT ![This] = @ \cup part]
    /\ mig' = Stopped
    /\ UNCHANGED <<src, due, writes>>

TableCopied ==
    /\ mig.pc = "insert" /\ mig.cursor = {}
    /\ IF mig.at < Len(migrationTables)
       THEN mig' = To("copy", mig.at + 1) /\ UNCHANGED due
       ELSE mig' = To("verify", 1) /\ due' = src
    /\ UNCHANGED <<src, dst, dbFaults, writes>>

(* The counts of one table after the other, the source's before the          *)
(* destination's.                                                            *)
CountsAgreeAlways(t) == TRUE
CountsAgree(t) == Cardinality(src[t]) = Cardinality(dst[t])

VerifyTable ==
    /\ mig.pc = "verify"
    /\ mig' = IF ~CountsAgree(This) THEN Stopped
              ELSE IF mig.at = Len(migrationTables) THEN To("done", 1)
              ELSE To("verify", mig.at + 1)
    /\ UNCHANGED <<src, dst, due, dbFaults, writes>>

(* Any other statement may fail too.                                         *)
StatementFails ==
    /\ mig.pc \in {"wipe", "copy", "verify"}
    /\ dbFaults < MaxDbFaults
    /\ dbFaults' = dbFaults + 1
    /\ mig' = Stopped
    /\ UNCHANGED <<src, dst, due, writes>>

(* A coordinator that was not stopped inserts a row.                         *)
SourceGrows ==
    /\ writes < MaxWrites
    /\ writes' = writes + 1
    /\ \E t \in MigTables : \E r \in Rows \ src[t] :
          /\ Parent[t] # t => r \in src[Parent[t]]
          /\ src' = [src EXCEPT ![t] = @ \cup {r}]
    /\ UNCHANGED <<dst, mig, due, dbFaults>>

-----------------------------------------------------------------------------
MigInit ==
    /\ src = SourceRows /\ dst = Empty
    /\ mig = To("idle", 1)
    /\ due = Empty
    /\ dbFaults = 0 /\ writes = 0

MigStep == WipeTable \/ Select \/ InsertBatch \/ TableCopied \/ VerifyTable
MigNext == (\E force \in BOOLEAN : Start(force)) \/ MigStep
               \/ InsertFails \/ StatementFails \/ SourceGrows

(* The command goes on, and the operator runs it again with --force.         *)
MigFairness == WF_migVars(MigStep) /\ WF_migVars(Start(TRUE))

MigSpec == MigInit /\ [][MigNext]_migVars /\ MigFairness

-----------------------------------------------------------------------------
(* Both stores and the command keep their shapes.                            *)
MigTypeOK ==
    /\ src \in [MigTables -> SUBSET Rows] /\ dst \in [MigTables -> SUBSET Rows]
    /\ mig.pc \in {"idle", "failed", "wipe", "copy", "insert", "verify", "done"}
    /\ mig.at \in 1 .. Len(migrationTables) /\ mig.cursor \subseteq Rows

(* A migration that reports success has copied every row the source held     *)
(* when the counts began to be compared, also rows added behind the copy     *)
(* and after failed attempts (cmd/db_migrate.go runDBMigrate).               *)
DoneIsComplete == mig.pc = "done" => \A t \in MigTables : due[t] \subseteq dst[t]

(* When statements stop failing and rows stop coming, running the command    *)
(* with --force completes the migration, from whatever earlier attempts left *)
(* (wipeDestination and the order of migrationTables).                       *)
MigrationCompletes == mig.pc # "idle" ~> mig.pc = "done"

(* "Rows per destination INSERT batch (each table is one transaction)", says *)
(* the help of --batch-size: once no attempt runs, each table of the         *)
(* destination is whole or empty.                                            *)
TablesAreWhole ==
    mig.pc = "failed" /\ writes = 0
        => \A t \in MigTables : dst[t] \in {{}, src[t]}
=============================================================================

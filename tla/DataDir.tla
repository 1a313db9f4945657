------------------------------ MODULE DataDir ------------------------------
(***************************************************************************)
(* The boot-time guard against a rewound database                          *)
(* (internal/store/dbstate.go, called from main.go).                       *)
(*                                                                         *)
(* The SQLite header carries a boot counter (PRAGMA user_version); a       *)
(* sidecar file beside the database carries the counter of the last boot   *)
(* that was recorded.  A boot refuses a database whose counter is below    *)
(* the sidecar's.  Around the program stands an operator who takes copies  *)
(* of the database file, restores them, and may delete the sidecar.        *)
(***************************************************************************)
EXTENDS Naturals, FiniteSets

CONSTANTS MaxGen,   \* bound: boots recorded in the header
          MaxRows,  \* bound: rows ever written
          MaxCopies \* bound: copies the operator takes

ASSUME BoundsAssumption == MaxGen \in Nat /\ MaxRows \in Nat /\ MaxCopies \in Nat

VARIABLES
    pc,       \* where run() in main.go is; "down" when no process runs
    gen,      \* PRAGMA user_version of the database file
    rows,     \* the rows the database file holds
    sidecar,  \* Generation in the .state file, NoFile when there is none
    copies,   \* database files the operator has put aside
    origin,   \* where the present database file came from, until a boot records it
    expected, \* rows the data directory held at the last recorded boot, or later
    nextRow,  \* identifies rows
    hatch     \* TRUE once an operator has deleted the sidecar

vars == <<pc, gen, rows, sidecar, copies, origin, expected, nextRow, hatch>>

\* The sidecar does not exist.  Generations recorded in it start at 1.
NoFile == 0

\* A row remembers the boot it was written in.
Row == [id : Nat, gen : Nat]

\* A copy is "live" when it was taken while the program was serving, and
\* "odd" when it was taken in the middle of a boot or while it was down.
Copy == [gen : Nat, rows : SUBSET Row, kind : {"live", "odd"}]

Booting == {"verified", "migrated", "counted"}

TypeOK ==
    /\ pc \in {"down", "running"} \cup Booting
    /\ gen \in Nat
    /\ rows \subseteq Row
    /\ sidecar \in Nat
    /\ copies \subseteq Copy
    /\ origin \in {"own", "live", "odd"}
    /\ expected \subseteq Row
    /\ nextRow \in Nat
    /\ hatch \in BOOLEAN

\* A data directory before its first boot: no database, no sidecar.
Init ==
    /\ pc = "down"
    /\ gen = 0
    /\ rows = {}
    /\ sidecar = NoFile
    /\ copies = {}
    /\ origin = "own"
    /\ expected = {}
    /\ nextRow = 0
    /\ hatch = FALSE

-----------------------------------------------------------------------------
(* One boot, in the order of run().                                        *)

\* BUG: tolerates a database one boot behind.
AcceptsOneBehind == sidecar = NoFile \/ gen + 1 >= sidecar

\* VerifyDataDirectory: no sidecar establishes a baseline, otherwise the
\* header must not be below it.
GenerationAccepted == sidecar = NoFile \/ gen >= sidecar

\* BUG: a refused boot hangs instead of exiting.
RefusalHangs ==
    /\ pc = "down"
    /\ pc' = IF GenerationAccepted THEN "verified" ELSE "refused"
    /\ UNCHANGED <<gen, rows, sidecar, copies, origin, expected, nextRow, hatch>>

VerifyDataDirectory ==
    /\ pc = "down"
    /\ \/ /\ GenerationAccepted
          /\ pc' = "verified"
       \/ /\ ~GenerationAccepted       \* run() returns the error, the process exits
          /\ pc' = "down"
    /\ UNCHANGED <<gen, rows, sidecar, copies, origin, expected, nextRow, hatch>>

\* RunMigrations writes rows (backfills) only when a migration is pending.
RunMigrations ==
    /\ pc = "verified"
    /\ pc' = "migrated"
    /\ \/ UNCHANGED <<rows, nextRow>>
       \/ /\ nextRow < MaxRows
          /\ rows' = rows \cup {[id |-> nextRow, gen |-> gen]}
          /\ nextRow' = nextRow + 1
    /\ UNCHANGED <<gen, sidecar, copies, origin, expected, hatch>>

\* BUG: the sidecar is written before the header, both from generation + 1.
SidecarFirst ==
    /\ pc = "migrated"
    /\ gen < MaxGen
    /\ sidecar' = gen + 1
    /\ pc' = "counted"
    /\ UNCHANGED <<gen, rows, copies, origin, expected, nextRow, hatch>>

\* RecordDataDirectoryState, first half: generation++ into the header.
SetDataGeneration ==
    /\ pc = "migrated"
    /\ gen < MaxGen
    /\ gen' = gen + 1
    /\ pc' = "counted"
    /\ UNCHANGED <<rows, sidecar, copies, origin, expected, nextRow, hatch>>

\* RecordDataDirectoryState, second half: the sidecar is installed by a
\* rename, so a crash leaves either the old file or the new one.
WriteStateFile ==
    /\ pc = "counted"
    /\ sidecar' = gen
    /\ expected' = rows
    /\ origin' = "own"
    /\ pc' = "running"
    /\ UNCHANGED <<gen, rows, copies, nextRow, hatch>>

\* Serving: any write of the application (seeding included).
Write ==
    /\ pc = "running"
    /\ nextRow < MaxRows
    /\ LET r == [id |-> nextRow, gen |-> gen]
       IN  rows' = rows \cup {r} /\ expected' = expected \cup {r}
    /\ nextRow' = nextRow + 1
    /\ UNCHANGED <<pc, gen, sidecar, copies, origin, hatch>>

\* The process stops or is killed, at any point of a boot or while serving.
\* Committed rows and the header are durable.
Exit ==
    /\ pc # "down"
    /\ pc' = "down"
    /\ UNCHANGED <<gen, rows, sidecar, copies, origin, expected, nextRow, hatch>>

-----------------------------------------------------------------------------
(* The operator and the storage underneath.                                *)

TakeCopy ==
    /\ Cardinality(copies) < MaxCopies
    /\ copies' = copies \cup {[gen |-> gen, rows |-> rows,
                               kind |-> IF pc = "running" THEN "live" ELSE "odd"]}
    /\ UNCHANGED <<pc, gen, rows, sidecar, origin, expected, nextRow, hatch>>

\* The database file alone is replaced; the sidecar stays where it is.
Restore ==
    /\ pc = "down"
    /\ \E c \in copies :
          /\ gen' = c.gen
          /\ rows' = c.rows
          /\ origin' = c.kind
    /\ UNCHANGED <<pc, sidecar, copies, expected, nextRow, hatch>>

\* The escape hatch: the operator deletes the state file.
DeleteStateFile ==
    /\ pc = "down"
    /\ sidecar # NoFile
    /\ sidecar' = NoFile
    /\ hatch' = TRUE
    /\ UNCHANGED <<pc, gen, rows, copies, origin, expected, nextRow>>

Next ==
    \/ VerifyDataDirectory
    \/ RunMigrations
    \/ SetDataGeneration
    \/ WriteStateFile
    \/ Write
    \/ Exit
    \/ TakeCopy
    \/ Restore
    \/ DeleteStateFile

Spec == Init /\ [][Next]_vars

-----------------------------------------------------------------------------
(* What the guard promises.                                                *)

\* While a boot goes on with a database the guard let through (the program's
\* own, or a copy taken while it was serving), the only rows missing from it
\* are rows of the very last recorded boot: everything written in an earlier
\* boot is there, unless an operator has used the escape hatch.  This is what
\* VerifyDataDirectory's comparison of generations is able to promise.
LossOnlyWithinLastBoot ==
    (pc \in Booting /\ ~hatch /\ origin # "odd")
        => \A r \in expected \ rows : r.gen = sidecar

\* A database nobody replaced is never refused, whatever the point at which
\* the previous boot was killed: the header is written before the sidecar.
OwnDatabaseNeverRefused ==
    origin = "own" => GenerationAccepted

\* dbstate.go says of the generation: "Anything older than the data directory
\* it lands in therefore reports a lower number", so a boot never goes on
\* with a copy that lacks rows the data directory already had.
AnythingOlderIsRefused ==
    (pc \in Booting /\ ~hatch /\ origin = "live") => expected \subseteq rows
=============================================================================

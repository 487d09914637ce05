------------------------------- MODULE Upgrades -------------------------------
(***************************************************************************)
(* The migration runner.  A run lists the shipped files, reads once which  *)
(* of them schema_migrations has, and executes the others in order, each   *)
(* with its row in a transaction of its own.  Two runs may overlap, a      *)
(* release may ship more files, and the database may have been set up by   *)
(* its container, which executes the files and records nothing.            *)
(*                                                                         *)
(* Unrecorded, which no other definition uses, is a wrong version of       *)
(* Recorded.                                                               *)
(***************************************************************************)
EXTENDS Integers, Sequences, FiniteSets

CONSTANTS
    Runners,      \* runs of the migrate script
    LastFile,     \* the files are 1 .. LastFile, in the order of their names
    Repeatable    \* files whose statements succeed a second time

ASSUME UpgradesAssumption == LastFile \in Nat /\ Repeatable \subseteq 1 .. LastFile

Files == 1 .. LastFile

VARIABLES
    shipped,     \* the migrations directory
    executed,    \* the files whose effects are committed, in order
    recorded,    \* schema_migrations
    run,         \* per runner, where it is
    listed,      \* per runner, the files it found in the directory
    due,         \* per runner, those of them it has to execute
    booted,      \* history: the container set the database up
    belated,     \* history: files shipped after a run had taken a later one
    ills         \* history: per runner, why it failed

upgradeVars == <<shipped, executed, recorded, run, listed, due, booted, belated, ills>>

Open == {"begun", "altered"}
Done == {executed[i] : i \in DOMAIN executed}

UpgradesTypeOK ==
    /\ shipped \subseteq Files /\ recorded \subseteq Files
    /\ executed \in Seq(Files)
    /\ run \in [Runners -> Open \cup {"idle", "reading", "between", "finished", "failed"}]
    /\ listed \in [Runners -> SUBSET Files] /\ due \in [Runners -> SUBSET Files]
    /\ booted \in BOOLEAN /\ belated \subseteq Files
    /\ ills \in [Runners -> SUBSET {"broken", "rival", "untracked", "crash"}]

UpgradesInit ==
    /\ shipped \in SUBSET Files /\ executed = <<>> /\ recorded = {}
    /\ run = [r \in Runners |-> "idle"]
    /\ listed = [r \in Runners |-> {}] /\ due = listed
    /\ booted = FALSE /\ belated = {} /\ ills = listed

Least(S)     == CHOOSE f \in S : \A g \in S : f <= g
Moves(r, to) == run' = [run EXCEPT ![r] = to]
Current(r)   == Least(due[r])

\* Files of a release, in the directory before anyone runs it.
Ship(f) ==
    /\ f \notin shipped
    /\ shipped' = shipped \cup {f}
    /\ belated' = IF \E g \in Done \cup UNION {listed[r] : r \in Runners} : g > f
                  THEN belated \cup {f} ELSE belated
    /\ UNCHANGED <<executed, recorded, run, listed, due, booted, ills>>

\* The container's first start, on an empty volume.
InitDb ==
    /\ ~booted /\ executed = <<>> /\ \A r \in Runners : run[r] = "idle"
    /\ executed' = [i \in 1 .. Cardinality(shipped) |-> CHOOSE f \in shipped : Cardinality({g \in shipped : g <= f}) = i]
    /\ booted' = TRUE
    /\ UNCHANGED <<shipped, recorded, run, listed, due, belated, ills>>

Main(r) ==
    /\ run[r] = "idle" /\ shipped # {}
    /\ listed' = [listed EXCEPT ![r] = shipped]
    /\ Moves(r, "reading")
    /\ UNCHANGED <<shipped, executed, recorded, due, booted, belated, ills>>

ReadApplied(r) ==
    /\ run[r] = "reading"
    /\ due' = [due EXCEPT ![r] = listed[r] \ recorded]
    /\ Moves(r, "between")
    /\ UNCHANGED <<shipped, executed, recorded, listed, booted, belated, ills>>

\* The statements wait for a transaction that has the same file's tables.
Apply(r) ==
    /\ run[r] = "between" /\ due[r] # {}
    /\ \A s \in Runners : run[s] \in Open => Current(s) # Current(r)
    /\ Moves(r, "begun")
    /\ UNCHANGED <<shipped, executed, recorded, listed, due, booted, belated, ills>>

Unrecorded(f) == {}
Recorded(f)   == {f}

Alter(r) ==
    /\ run[r] = "begun" /\ (Current(r) \in Done => Current(r) \in Repeatable)
    /\ Moves(r, "altered")
    /\ UNCHANGED <<shipped, executed, recorded, listed, due, booted, belated, ills>>

\* The row's key refuses a file that is recorded.
CommitFile(r) ==
    /\ run[r] = "altered" /\ Current(r) \notin recorded
    /\ executed' = Append(executed, Current(r))
    /\ recorded' = recorded \cup Recorded(Current(r))
    /\ due' = [due EXCEPT ![r] = @ \ {Current(r)}]
    /\ Moves(r, "between")
    /\ UNCHANGED <<shipped, listed, booted, belated, ills>>

\* ROLLBACK, and the run ends with an error.
Ends(r, why) ==
    /\ Moves(r, "failed")
    /\ due' = [due EXCEPT ![r] = {}]
    /\ ills' = [ills EXCEPT ![r] = @ \cup why]
    /\ UNCHANGED <<shipped, executed, recorded, listed, booted, belated>>

Refused(r) ==
    /\ \/ run[r] = "begun" /\ Current(r) \in Done \ Repeatable
       \/ run[r] = "altered" /\ Current(r) \in recorded
    /\ Ends(r, (IF Current(r) \in recorded THEN {"rival"} ELSE {}) \cup (IF booted THEN {"untracked"} ELSE {}))

FileBroken(r) == run[r] = "begun" /\ Ends(r, {"broken"})
RunnerDies(r) == run[r] \in Open \cup {"reading", "between"} /\ Ends(r, {"crash"})

UpToDate(r) ==
    /\ run[r] = "between" /\ due[r] = {}
    /\ Moves(r, "finished")
    /\ UNCHANGED <<shipped, executed, recorded, listed, due, booted, belated, ills>>

RunAgain(r) ==
    /\ run[r] \in {"finished", "failed"}
    /\ Moves(r, "idle")
    /\ listed' = [listed EXCEPT ![r] = {}] /\ ills' = [ills EXCEPT ![r] = {}]
    /\ UNCHANGED <<shipped, executed, recorded, due, booted, belated>>

UpgradesNext ==
    \/ InitDb \/ \E f \in Files : Ship(f)
    \/ \E r \in Runners :
          \/ Main(r) \/ ReadApplied(r) \/ Apply(r) \/ Alter(r) \/ CommitFile(r)
          \/ Refused(r) \/ FileBroken(r) \/ RunnerDies(r) \/ UpToDate(r) \/ RunAgain(r)
-----------------------------------------------------------------------------
(* Properties *)

\* In a database the runner has managed from the start, each file took effect
\* once and is recorded, and in the order of the names but for files shipped
\* late; a run that ends well left none of what it listed behind; and a run
\* fails only for a broken file, a rival, a crash or an untracked database,
\* with nothing of the failing file left (migrate.ts 4-16, 72-88).
UpgradesAreSound ==
    /\ ~booted => /\ Done = recorded
                  /\ Cardinality(Done) = Len(executed)
                  /\ \A i, j \in DOMAIN executed : i < j /\ executed[i] > executed[j] => executed[j] \in belated
    /\ \A r \in Runners : /\ run[r] = "finished" => listed[r] \subseteq recorded
                          /\ run[r] = "failed" => ills[r] # {}
=============================================================================

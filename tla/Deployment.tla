----------------------------- MODULE Deployment -----------------------------
(***************************************************************************)
(* What is run by hand around a deployment, over and over and sometimes    *)
(* twice at once: npm run migrate, which brings the schema up to the       *)
(* files of the release, and the seeds, which put in the menus and the     *)
(* bank account that administrators change afterwards.                     *)
(*                                                                         *)
(* Each migration file runs in a transaction of its own together with the  *)
(* row of schema_migrations that records it.  A statement of a second      *)
(* transaction that creates or alters the same objects waits for the first *)
(* one's end.  A seed is a sequence of single statements.                  *)
(***************************************************************************)
EXTENDS Integers, Sequences, FiniteSets

CONSTANTS
    Releases,       \* the releases, in order: the files of each, as numbers
                    \* in the order of their names
    Requires,       \* the files whose objects a file's statements need
    Repeatable,     \* the files whose statements also succeed a second time
    MenusFile, SettingsFile,    \* the files that create the seeded tables
    Runners,        \* the terminals in which npm run migrate is run
    Seeders,        \* those in which npm run seed:menus is run
    MenuNames,      \* MENUS of seed-menus.ts, a sequence of names
    InitialPrice, InitialAccount,   \* what the seeds put in
    Prices, Accounts,   \* what administrators may change them to
    None,           \* no value
    MaxFaults       \* bound: processes killed and connections lost

Files == Releases[Len(Releases)]
Names == {MenuNames[i] : i \in 1 .. Len(MenuNames)}

ASSUME DeploymentAssumption ==
    /\ Releases \in Seq(SUBSET Nat) /\ Releases # <<>> /\ IsFiniteSet(Files)
    /\ \A i \in 1 .. Len(Releases) : Releases[i] \subseteq Files
    /\ Requires \in [Files -> SUBSET Files]
    /\ Repeatable \subseteq Files
    /\ MenuNames \in Seq(Names) /\ MenuNames # <<>>
    /\ None \notin Accounts \cup Prices \cup {InitialPrice, InitialAccount}
    /\ MaxFaults \in Nat

VARIABLES
    release,    \* the release that is checked out
    tracked,    \* the table schema_migrations exists
    recorded,   \* its rows
    applied,    \* the files whose statements were committed, in that order
    step, todo, \* each migrate: where it is, and its pending files
    readAt,     \* the release whose files it read, for the properties
    seed,       \* each seed:menus: the menu it is at, and what it has read
    menus,      \* the rows of menus with a name: their prices
    account,    \* the row of payment_settings
    changed,    \* what administrators set last, for the properties
    overlapped, \* two seed:menus have been under way at once
    faults      \* faults so far

schemaVars == <<tracked, recorded, applied>>
runnerVars == <<step, todo, readAt>>
seedVars   == <<seed, menus, account, changed, overlapped>>
vars == <<release, schemaVars, runnerVars, seedVars, faults>>

\* A migrate that failed is idle again.
RunnerSteps == {"idle", "started", "listing", "sql", "record", "commit",
                "rollback", "succeeded"}

\* There may be more than one row with a name, see SeedMenusInsert.
Copies == 1 .. Cardinality(Seeders)

Applied == {applied[i] : i \in 1 .. Len(applied)}

Goto(x, s) == step' = [step EXCEPT ![x] = s]

----------------------------------------------------------------------------
(* database/migrate.ts                                                     *)

\* Somebody checks out the next release: files are added, never edited.
Release ==
    /\ release < Len(Releases)
    /\ release' = release + 1
    /\ UNCHANGED <<schemaVars, runnerVars, seedVars, faults>>

\* npm run migrate, again whenever something is missing.
Run(x) ==
    /\ step[x] \in {"idle", "succeeded"}
    /\ ~ Releases[release] \subseteq recorded
    /\ Goto(x, "started")
    /\ UNCHANGED <<release, schemaVars, todo, readAt, seedVars, faults>>

\* ensureMigrationsTable: CREATE TABLE IF NOT EXISTS, which fails when
\* another process creates the table at the same instant.
EnsureMigrationsTable(x) ==
    /\ step[x] = "started"
    /\ \/ Goto(x, "listing")
       \/ /\ ~tracked /\ \E y \in Runners \ {x} : step[y] = "started"
          /\ Goto(x, "idle")
    /\ tracked' = TRUE
    /\ UNCHANGED <<release, recorded, applied, todo, readAt, seedVars, faults>>

\* Mutant: the files in any order, here backwards, without sort().
InDirectoryOrder(files) ==
    [i \in 1 .. Cardinality(files) |->
        CHOOSE f \in files : Cardinality({e \in files : e > f}) = i - 1]

\* getMigrationFiles: a file comes after those with a smaller name.
InNameOrder(files) ==
    [i \in 1 .. Cardinality(files) |->
        CHOOSE f \in files : Cardinality({e \in files : e < f}) = i - 1]

\* getAppliedMigrations, and the pending files.
ListPending(x) ==
    /\ step[x] = "listing"
    /\ LET pending == InNameOrder(Releases[release] \ recorded)
       IN  /\ todo' = [todo EXCEPT ![x] = pending]
           /\ readAt' = [readAt EXCEPT ![x] = release]
           /\ Goto(x, IF pending = <<>> THEN "succeeded" ELSE "sql")
    /\ UNCHANGED <<release, schemaVars, seedVars, faults>>

File(x) == Head(todo[x])

\* The statements of the file have run in an open transaction.
HasRun(y, f) == step[y] \in {"record", "commit"} /\ File(y) = f

\* BEGIN and the file's statements: what they create must not be there yet,
\* what they refer to must be.
RunSql(x) ==
    /\ step[x] = "sql"
    /\ \A y \in Runners \ {x} : ~HasRun(y, File(x))
    /\ Goto(x, IF /\ File(x) \in Applied => File(x) \in Repeatable
                  /\ Requires[File(x)] \subseteq Applied
               THEN "record" ELSE "rollback")
    /\ UNCHANGED <<release, schemaVars, todo, readAt, seedVars, faults>>

\* Mutant: filename is not a primary key.
UnrecordedUnchecked(f) == TRUE

\* The primary key of schema_migrations.
Unrecorded(f) == f \notin recorded

\* INSERT INTO schema_migrations
Record(x) ==
    /\ step[x] = "record"
    /\ Goto(x, IF Unrecorded(File(x)) THEN "commit" ELSE "rollback")
    /\ UNCHANGED <<release, schemaVars, todo, readAt, seedVars, faults>>

\* COMMIT, of which the process hears unless the connection breaks just then.
Commit(x, heard) ==
    /\ step[x] = "commit"
    /\ applied'  = Append(applied, File(x))
    /\ recorded' = recorded \cup {File(x)}
    /\ IF heard
       THEN /\ todo' = [todo EXCEPT ![x] = Tail(@)]
            /\ Goto(x, IF Tail(todo[x]) = <<>> THEN "succeeded" ELSE "sql")
            /\ UNCHANGED faults
       ELSE /\ faults < MaxFaults /\ faults' = faults + 1
            /\ todo' = [todo EXCEPT ![x] = <<>>]
            /\ Goto(x, "idle")
    /\ UNCHANGED <<release, tracked, readAt, seedVars>>

\* ROLLBACK; the error ends the loop and the process, with exit code 1.
Rollback(x) ==
    /\ step[x] = "rollback"
    /\ Goto(x, "idle")
    /\ todo' = [todo EXCEPT ![x] = <<>>]
    /\ UNCHANGED <<release, schemaVars, readAt, seedVars, faults>>

\* The process is killed or loses its connection; so does its transaction.
Kill(x) ==
    /\ faults < MaxFaults /\ faults' = faults + 1
    /\ step[x] \in {"started", "listing", "sql", "record", "commit", "rollback"}
    /\ Goto(x, "idle")
    /\ todo' = [todo EXCEPT ![x] = <<>>]
    /\ UNCHANGED <<release, schemaVars, readAt, seedVars>>

----------------------------------------------------------------------------
(* database/seeds                                                          *)

Unseeded == [at |-> 0, found |-> FALSE, reading |-> FALSE]
SeedingMenus(s) == seed[s].at > 0

SeedMenusStart(s) ==
    /\ ~SeedingMenus(s)
    /\ MenusFile \in Applied        \* otherwise the first statement fails
    /\ seed' = [seed EXCEPT ![s] = [Unseeded EXCEPT !.at = 1]]
    /\ overlapped' = (overlapped \/ \E u \in Seeders \ {s} : SeedingMenus(u))
    /\ UNCHANGED <<release, schemaVars, runnerVars, menus, account, changed, faults>>

\* INSERT ... WHERE NOT EXISTS begins: it sees what is committed now.
SeedMenusRead(s) ==
    /\ SeedingMenus(s) /\ ~seed[s].reading
    /\ seed' = [seed EXCEPT ![s].reading = TRUE,
                            ![s].found = menus[MenuNames[seed[s].at]] # <<>>]
    /\ UNCHANGED <<release, schemaVars, runnerVars, menus, account, changed,
                   overlapped, faults>>

\* It ends: no unique index on the name looks at it again.
SeedMenusInsert(s) ==
    /\ seed[s].reading
    /\ menus' = [menus EXCEPT ![MenuNames[seed[s].at]] =
                    IF seed[s].found THEN @ ELSE Append(@, InitialPrice)]
    /\ seed' = [seed EXCEPT ![s] =
                    IF @.at = Len(MenuNames)
                    THEN Unseeded ELSE [Unseeded EXCEPT !.at = seed[s].at + 1]]
    /\ UNCHANGED <<release, schemaVars, runnerVars, account, changed, overlapped, faults>>

SeedMenusKill(s) ==
    /\ SeedingMenus(s)
    /\ faults < MaxFaults /\ faults' = faults + 1
    /\ seed' = [seed EXCEPT ![s] = Unseeded]
    /\ UNCHANGED <<release, schemaVars, runnerVars, menus, account, changed, overlapped>>

\* Mutant: ON CONFLICT (id) DO UPDATE
DoUpdate(a) == a

\* ON CONFLICT (id) DO NOTHING
DoNothing(a) == IF account = None THEN a ELSE account

\* npm run seed:payment-settings
SeedPaymentSettings ==
    /\ SettingsFile \in Applied
    /\ account' = DoNothing(InitialAccount)
    /\ UNCHANGED <<release, schemaVars, runnerVars, seed, menus, changed,
                   overlapped, faults>>

\* PATCH /admin/settings/payment and PATCH /admin/menus/:menuId
SetAccount(a) ==
    /\ SettingsFile \in Applied
    /\ account' = a
    /\ changed' = [changed EXCEPT !.account = a]
    /\ UNCHANGED <<release, schemaVars, runnerVars, seed, menus, overlapped, faults>>

SetPrice(n, i, p) ==
    /\ menus' = [menus EXCEPT ![n][i] = p]
    /\ changed' = [changed EXCEPT !.prices[n][i] = p]
    /\ UNCHANGED <<release, schemaVars, runnerVars, seed, account, overlapped, faults>>

----------------------------------------------------------------------------
Init ==
    /\ release = 1
    /\ tracked = FALSE /\ recorded = {} /\ applied = <<>>
    /\ step = [x \in Runners |-> "idle"]
    /\ todo = [x \in Runners |-> <<>>]
    /\ readAt = [x \in Runners |-> 1]
    /\ seed = [s \in Seeders |-> Unseeded]
    /\ menus = [n \in Names |-> <<>>]
    /\ account = None
    /\ changed = [account |-> None,
                  prices |-> [n \in Names |-> [i \in Copies |-> None]]]
    /\ overlapped = FALSE
    /\ faults = 0

Proceed(x) ==
    \/ EnsureMigrationsTable(x)
    \/ ListPending(x)
    \/ RunSql(x)
    \/ Record(x)
    \/ Commit(x, TRUE)
    \/ Rollback(x)

Next ==
    \/ Release
    \/ \E x \in Runners : Run(x) \/ Proceed(x) \/ Commit(x, FALSE) \/ Kill(x)
    \/ \E s \in Seeders : \/ SeedMenusStart(s) \/ SeedMenusRead(s)
                          \/ SeedMenusInsert(s) \/ SeedMenusKill(s)
    \/ SeedPaymentSettings
    \/ \E a \in Accounts : SetAccount(a)
    \/ \E n \in Names, p \in Prices : \E i \in 1 .. Len(menus[n]) : SetPrice(n, i, p)

Spec == Init /\ [][Next]_vars

\* A started migrate goes on, and somebody runs it again until all is there.
Fairness == \A x \in Runners : WF_vars(Proceed(x)) /\ WF_vars(Run(x))

FairSpec == Spec /\ Fairness

----------------------------------------------------------------------------
(* Properties.                                                             *)

TypeOK ==
    /\ release \in 1 .. Len(Releases)
    /\ tracked \in BOOLEAN /\ recorded \subseteq Files
    /\ applied \in Seq(Files)
    /\ step \in [Runners -> RunnerSteps]
    /\ todo \in [Runners -> Seq(Files)]
    /\ readAt \in [Runners -> 1 .. Len(Releases)]
    /\ menus \in [Names -> Seq(Prices \cup {InitialPrice})]
    /\ account \in Accounts \cup {InitialAccount, None}
    /\ faults \in 0 .. MaxFaults

(* schema_migrations and the schema agree: a file is recorded exactly when *)
(* its statements have taken effect, and they did so once, though migrates *)
(* run at once, fail, are killed and lose the answer to a COMMIT; and a    *)
(* migrate that reports success has left out no file of the release that   *)
(* was checked out when it read the files.                                 *)
SchemaSound ==
    /\ TypeOK
    /\ recorded = Applied
    /\ \A i, j \in 1 .. Len(applied) : applied[i] = applied[j] => i = j
    /\ \A x \in Runners : step[x] = "succeeded" => Releases[readAt[x]] \subseteq recorded

(* Every release is applied in the end, on an empty database and on one    *)
(* that has an earlier release, if migrate is run until it succeeds: no    *)
(* failed or killed run leaves anything that makes the next ones fail.     *)
EveryReleaseApplied ==
    \A i \in 1 .. Len(Releases) : release = i ~> Releases[i] \subseteq recorded

(* Seeds may be run again at any time: the account and the prices are what *)
(* administrators set last, and a menu is there once, unless two           *)
(* seed:menus overlapped (docs/backend/001, section 48).                   *)
SeedsKeepChanges ==
    /\ changed.account # None => account = changed.account
    /\ \A n \in Names, i \in Copies :
        changed.prices[n][i] # None => menus[n][i] = changed.prices[n][i]
    /\ ~overlapped => \A n \in Names : Len(menus[n]) <= 1
=============================================================================

-------------------------- MODULE DeploymentProofs --------------------------
(* What Deployment promises of the schema and of the seeded rows, for any   *)
(* releases, any number of terminals and any sequence of kills: proofs.     *)
EXTENDS Deployment, FiniteSetTheorems, TLAPS

----------------------------------------------------------------------------
(* The inductive invariant.                                                *)

\* The types of the seeded rows, whatever the rest does.
RowsTyped ==
    /\ menus \in [Names -> Seq(Prices \cup {InitialPrice})]
    /\ account \in Accounts \cup {InitialAccount, None}

\* Where a process of seed:menus is.
SeedStates == [at : 0 .. Len(MenuNames), found : BOOLEAN, reading : BOOLEAN]

\* Where the processes of the seeds are, and the domains of what they read.
SeedsTyped ==
    /\ seed \in [Seeders -> SeedStates]
    /\ \A s \in Seeders : seed[s].reading => seed[s].at > 0
    /\ changed \in [account : Accounts \cup {None},
                    prices : [Names -> [Copies -> Prices \cup {None}]]]
    /\ overlapped \in BOOLEAN

Working(x) == step[x] \in {"sql", "record", "commit", "rollback"}

\* A migrate that is at a file has that file and the later ones pending.
AtAFile == \A x \in Runners : Working(x) => todo[x] # <<>>

\* Only one transaction holds the objects of a file, and the one that is
\* about to commit has found it unrecorded: what makes the check and the
\* commit one step, which SchemaSound alone does not say.
OneHolder ==
    \A x, y \in Runners :
        (/\ step[x] \in {"record", "commit"}
         /\ step[y] \in {"record", "commit"}
         /\ File(x) = File(y)) => x = y

CommitsUnrecorded == \A x \in Runners : step[x] = "commit" => File(x) \notin recorded

Pending(x) == {todo[x][i] : i \in 1 .. Len(todo[x])}

\* What the release has whose files were read is applied, or waits its turn.
NothingForgotten ==
    \A x \in Runners :
        step[x] \in {"sql", "record", "commit"} =>
            Releases[readAt[x]] \subseteq recorded \cup Pending(x)

AppliedOnce == \A i, j \in 1 .. Len(applied) : applied[i] = applied[j] => i = j

SuccessComplete ==
    \A x \in Runners : step[x] = "succeeded" => Releases[readAt[x]] \subseteq recorded

MigrationInv ==
    /\ TypeOK
    /\ AtAFile /\ OneHolder /\ CommitsUnrecorded /\ NothingForgotten
    /\ recorded = Applied /\ AppliedOnce /\ SuccessComplete

AccountKept == changed.account # None => account = changed.account

\* A price that an administrator has set is that of a row that is there.
PricesKept ==
    \A n \in Names, i \in Copies :
        changed.prices[n][i] # None =>
            i \in 1 .. Len(menus[n]) /\ menus[n][i] = changed.prices[n][i]

\* As long as seed:menus has not overlapped with itself, one process at most
\* is between a look for a name and its insert, and what it saw still holds.
SeedsAlone ==
    ~overlapped =>
        /\ \A s, u \in Seeders : SeedingMenus(s) /\ SeedingMenus(u) => s = u
        /\ \A s \in Seeders : seed[s].reading =>
              (seed[s].found <=> menus[MenuNames[seed[s].at]] # <<>>)
        /\ \A n \in Names : Len(menus[n]) <= 1

SeedInv == RowsTyped /\ SeedsTyped /\ AccountKept /\ PricesKept /\ SeedsAlone

----------------------------------------------------------------------------
(* The order of the files.                                                 *)

\* The number of files whose names come before that of f.
Before(files, f) == Cardinality({e \in files : e < f})

LEMMA BeforeMonotone ==
    ASSUME NEW files \in SUBSET Nat, IsFiniteSet(files)
    PROVE  /\ \A f \in files : Before(files, f) \in 0 .. Cardinality(files) - 1
           /\ \A f, g \in files : f < g => Before(files, f) < Before(files, g)
  <1> DEFINE smaller(f) == {e \in files : e < f}
  <1>1. \A f : IsFiniteSet(smaller(f)) /\ Cardinality(smaller(f)) \in Nat
    <2>1. \A f : smaller(f) \in SUBSET files
      OBVIOUS
    <2> HIDE DEF smaller
    <2> QED
      BY <2>1, FS_Subset, FS_CardinalityType
  <1>2. ASSUME NEW f \in files, NEW T \in SUBSET files, smaller(f) \subseteq T, f \in T
        PROVE  Cardinality(smaller(f)) < Cardinality(T)
    <2>1. IsFiniteSet(T) /\ Cardinality(T) \in Nat
      BY FS_Subset, FS_CardinalityType
    <2>2. smaller(f) \in SUBSET T /\ smaller(f) # T
      BY <1>2
    <2>3. PICK S \in SUBSET T : S = smaller(f) /\ S # T
      BY <2>2
    <2>4. Cardinality(S) <= Cardinality(T) /\ Cardinality(S) # Cardinality(T)
      BY <2>1, <2>3, FS_Subset
    <2>5. Cardinality(S) \in Nat
      BY <1>1, <2>3
    <2> QED
      BY <2>1, <2>3, <2>4, <2>5
  <1>3. ASSUME NEW f \in files
        PROVE  Before(files, f) \in 0 .. Cardinality(files) - 1
    <2>1. smaller(f) \subseteq files
      OBVIOUS
    <2>2. Cardinality(smaller(f)) < Cardinality(files)
      BY <1>2, <2>1
    <2>3. Cardinality(files) \in Nat
      BY FS_CardinalityType
    <2>4. Before(files, f) = Cardinality(smaller(f))
      BY DEF Before
    <2> HIDE DEF smaller
    <2> QED
      BY <1>1, <2>2, <2>3, <2>4
  <1>4. ASSUME NEW f \in files, NEW g \in files, f < g
        PROVE  Before(files, f) < Before(files, g)
    <2>1. smaller(f) \subseteq smaller(g) /\ f \in smaller(g) /\ smaller(g) \in SUBSET files
      <3>1. \A e \in files : e < f => e < g
        <4>1. f \in Nat /\ g \in Nat /\ \A e \in files : e \in Nat
          OBVIOUS
        <4> HIDE DEF smaller
        <4> QED
          BY <1>4, <4>1
      <3> QED
        BY <1>4, <3>1
    <2>2. Cardinality(smaller(f)) < Cardinality(smaller(g))
      BY <1>2, <2>1
    <2> QED
      BY <2>2 DEF Before
  <1> QED
    BY <1>3, <1>4

\* sort() loses and repeats no file, and the files come in the order of
\* their names.
LEMMA InNameOrderCorrect ==
    ASSUME NEW files \in SUBSET Nat, IsFiniteSet(files), NEW T, files \subseteq T
    PROVE  /\ InNameOrder(files) \in Seq(T)
           /\ files = {InNameOrder(files)[i] : i \in 1 .. Len(InNameOrder(files))}
           /\ \A i, j \in 1 .. Len(InNameOrder(files)) :
                i < j => InNameOrder(files)[i] < InNameOrder(files)[j]
  <1>1. PICK N \in Nat : N = Cardinality(files)
    BY FS_CardinalityType
  <1>2. PICK q : q = InNameOrder(files)
    OBVIOUS
  <1>3. PICK rank : rank = [f \in files |-> Before(files, f) + 1]
    OBVIOUS
  <1>4. /\ \A f \in files : Before(files, f) \in 0 .. N - 1
        /\ \A f, g \in files : f < g => Before(files, f) < Before(files, g)
    BY <1>1, BeforeMonotone
  <1>5. /\ rank \in [files -> 1 .. N]
        /\ \A f, g \in files : f < g => rank[f] < rank[g]
    BY <1>3, <1>4
  <1>6. \A f, g \in files : rank[f] = rank[g] => f = g
    <2> SUFFICES ASSUME NEW f \in files, NEW g \in files, rank[f] = rank[g], f # g
                 PROVE  FALSE
      OBVIOUS
    <2>1. f < g \/ g < f
      OBVIOUS
    <2>2. rank[f] \in Nat
      BY <1>5
    <2>3. ~ rank[f] < rank[g] /\ ~ rank[g] < rank[f]
      BY <2>2
    <2> QED
      BY <1>5, <2>1, <2>3
  <1>7. rank \in Injection(files, 1 .. N)
    BY <1>5, <1>6 DEF Injection, IsInjective
  <1>8. rank \in Surjection(files, 1 .. N)
    <2>1. IsFiniteSet(1 .. N) /\ Cardinality(1 .. N) = N
      BY FS_Interval
    <2> QED
      BY <1>1, <1>7, <2>1, FS_Injection
  <1>9. \A i \in 1 .. N : \E f \in files : rank[f] = i
    BY <1>8 DEF Surjection
  <1>10. q \in [1 .. N -> files] /\ \A i \in 1 .. N : q[i] \in files /\ rank[q[i]] = i
    <2>1. q = [i \in 1 .. N |-> CHOOSE f \in files : Before(files, f) = i - 1]
      BY <1>1, <1>2 DEF InNameOrder, Before
    <2>2. ASSUME NEW i \in 1 .. N
          PROVE  \E f \in files : Before(files, f) = i - 1
      <3>1. PICK f \in files : rank[f] = i
        BY <1>9
      <3>2. Before(files, f) \in Int /\ rank[f] = Before(files, f) + 1
        BY <1>3, <1>4
      <3> QED
        BY <3>1, <3>2
    <2>3. \A i \in 1 .. N : q[i] \in files /\ Before(files, q[i]) = i - 1
      BY <2>1, <2>2
    <2>4. ASSUME NEW i \in 1 .. N
          PROVE  rank[q[i]] = i
      <3>1. rank[q[i]] = Before(files, q[i]) + 1
        BY <1>3, <2>3
      <3> QED
        BY <2>3, <3>1
    <2>5. q \in [1 .. N -> files]
      BY <2>1, <2>3
    <2> QED
      BY <2>3, <2>4, <2>5
  <1>11. q \in Seq(T) /\ Len(q) = N
    <2>1. q \in [1 .. N -> T]
      BY <1>10
    <2> QED
      BY <2>1
  <1>12. files = {q[i] : i \in 1 .. N}
    <2>1. \A f \in files : rank[f] \in 1 .. N /\ q[rank[f]] = f
      BY <1>5, <1>6, <1>10
    <2> QED
      BY <1>10, <2>1
  <1>13. \A i, j \in 1 .. N : i < j => q[i] < q[j]
    <2> SUFFICES ASSUME NEW i \in 1 .. N, NEW j \in 1 .. N, i < j, ~ q[i] < q[j]
                 PROVE  FALSE
      OBVIOUS
    <2>1. q[i] \in files /\ q[j] \in files /\ rank[q[i]] = i /\ rank[q[j]] = j
      BY <1>10
    <2>2. q[j] < q[i] \/ q[j] = q[i]
      <3>1. q[i] \in Nat /\ q[j] \in Nat
        BY <2>1
      <3> QED
        BY <3>1
    <2>3. CASE q[i] = q[j]
      BY <2>1, <2>3
    <2>4. CASE q[j] < q[i]
      <3>1. rank[q[j]] < rank[q[i]]
        BY <1>5, <2>1, <2>4
      <3> QED
        BY <2>1, <3>1
    <2> QED
      BY <2>2, <2>3, <2>4
  <1> QED
    BY <1>2, <1>11, <1>12, <1>13

----------------------------------------------------------------------------
(* The schema.                                                             *)

LEMMA ReleasesFacts ==
    ASSUME NEW i \in 1 .. Len(Releases)
    PROVE  /\ Len(Releases) \in Nat \ {0}
           /\ Releases[i] \in SUBSET Nat /\ Releases[i] \subseteq Files
           /\ IsFiniteSet(Releases[i])
  <1>1. /\ Releases \in Seq(SUBSET Nat) /\ Releases # <<>> /\ IsFiniteSet(Files)
        /\ Releases[i] \subseteq Files
    BY DeploymentAssumption
  <1>2. Len(Releases) \in Nat \ {0} /\ Releases[i] \in SUBSET Nat
    BY <1>1
  <1>3. IsFiniteSet(Releases[i])
    BY <1>1, FS_Subset
  <1> QED
    BY <1>1, <1>2, <1>3

\* What a migrate makes of the rows it has read.
LEMMA PendingFacts ==
    ASSUME NEW r \in 1 .. Len(Releases), NEW q, q = InNameOrder(Releases[r] \ recorded)
    PROVE  /\ q \in Seq(Files)
           /\ Releases[r] \subseteq recorded \cup {q[i] : i \in 1 .. Len(q)}
  <1>1. PICK files : files = Releases[r] \ recorded
    OBVIOUS
  <1>a. /\ Releases[r] \in SUBSET Nat /\ Releases[r] \subseteq Files
        /\ IsFiniteSet(Releases[r])
    BY ReleasesFacts
  <1>2. files \in SUBSET Releases[r] /\ files \in SUBSET Nat /\ files \in SUBSET Files
    BY <1>1, <1>a
  <1>3. IsFiniteSet(files)
    BY <1>2, <1>a, FS_Subset
  <1>b. q = InNameOrder(files)
    BY <1>1
  <1>4. q \in Seq(Files) /\ files = {q[i] : i \in 1 .. Len(q)}
    <2>1. /\ InNameOrder(files) \in Seq(Files)
          /\ files = {InNameOrder(files)[i] : i \in 1 .. Len(InNameOrder(files))}
      BY <1>2, <1>3, InNameOrderCorrect
    <2> QED
      BY <1>b, <2>1
  <1> QED
    BY <1>1, <1>4

\* Every step is one of these: what a migrate does, or something that leaves
\* the schema and the terminals of npm run migrate alone.
SeedStep ==
    \/ \E s \in Seeders : \/ SeedMenusStart(s) \/ SeedMenusRead(s)
                          \/ SeedMenusInsert(s) \/ SeedMenusKill(s)
    \/ SeedPaymentSettings
    \/ \E a \in Accounts : SetAccount(a)
    \/ \E n \in Names, p \in Prices : \E i \in 1 .. Len(menus[n]) : SetPrice(n, i, p)

LEMMA SeedStepLeavesSchema ==
    ASSUME SeedStep
    PROVE  UNCHANGED <<release, schemaVars, runnerVars>>
  BY DEF SeedStep, SeedMenusStart, SeedMenusRead, SeedMenusInsert, SeedMenusKill,
         SeedPaymentSettings, SetAccount, SetPrice

LEMMA MigrateLeavesSeeds ==
    ASSUME NEW x \in Runners,
           \/ Release
           \/ Run(x) \/ EnsureMigrationsTable(x) \/ ListPending(x) \/ RunSql(x) \/ Record(x)
           \/ (\E heard \in BOOLEAN : Commit(x, heard)) \/ Rollback(x) \/ Kill(x)
    PROVE  UNCHANGED seedVars
  BY DEF Release, Run, EnsureMigrationsTable, ListPending, RunSql, Record, Commit, Rollback,
         Kill

LEMMA NextCases ==
    ASSUME Next
    PROVE  \/ Release
           \/ \E x \in Runners :
                \/ Run(x) \/ EnsureMigrationsTable(x) \/ ListPending(x) \/ RunSql(x)
                \/ Record(x) \/ (\E heard \in BOOLEAN : Commit(x, heard)) \/ Rollback(x)
                \/ Kill(x)
           \/ SeedStep
  BY DEF Next, Proceed, SeedStep

LEMMA SeedStepTyped ==
    ASSUME RowsTyped, faults \in 0 .. MaxFaults, SeedStep
    PROVE  RowsTyped' /\ faults' \in 0 .. MaxFaults
  <1>0. MaxFaults \in Nat
    BY DeploymentAssumption
  <1>1. ASSUME NEW s \in Seeders, SeedMenusStart(s) \/ SeedMenusRead(s) \/ SeedMenusKill(s)
        PROVE  RowsTyped' /\ faults' \in 0 .. MaxFaults
    <2>1. UNCHANGED <<menus, account>> /\ faults' \in {faults, faults + 1}
      BY <1>1 DEF SeedMenusStart, SeedMenusRead, SeedMenusKill
    <2>2. faults' # faults => faults < MaxFaults
      BY <1>1 DEF SeedMenusStart, SeedMenusRead, SeedMenusKill
    <2> QED
      BY <1>0, <2>1, <2>2 DEF RowsTyped
  <1>2. ASSUME NEW s \in Seeders, SeedMenusInsert(s)
        PROVE  RowsTyped' /\ faults' \in 0 .. MaxFaults
    <2>1. PICK n : n = MenuNames[seed[s].at]
      OBVIOUS
    <2>2. menus' = [menus EXCEPT ![n] = IF seed[s].found THEN @ ELSE Append(@, InitialPrice)]
      BY <1>2, <2>1 DEF SeedMenusInsert
    <2>3. menus' \in [Names -> Seq(Prices \cup {InitialPrice})]
      <3>1. n \in Names => Append(menus[n], InitialPrice) \in Seq(Prices \cup {InitialPrice})
        BY DEF RowsTyped
      <3> QED
        BY <2>2, <3>1 DEF RowsTyped
    <2>4. UNCHANGED <<account, faults>>
      BY <1>2 DEF SeedMenusInsert
    <2> QED
      BY <2>3, <2>4 DEF RowsTyped
  <1>3. ASSUME SeedPaymentSettings \/ \E a \in Accounts : SetAccount(a)
        PROVE  RowsTyped' /\ faults' \in 0 .. MaxFaults
    BY <1>3 DEF SeedPaymentSettings, SetAccount, DoNothing, RowsTyped
  <1>4. ASSUME NEW n \in Names, NEW p \in Prices, NEW i \in 1 .. Len(menus[n]), SetPrice(n, i, p)
        PROVE  RowsTyped' /\ faults' \in 0 .. MaxFaults
    <2>1. [menus[n] EXCEPT ![i] = p] \in Seq(Prices \cup {InitialPrice})
      BY DEF RowsTyped
    <2>2. menus' = [menus EXCEPT ![n] = [menus[n] EXCEPT ![i] = p]]
      BY <1>4 DEF SetPrice
    <2>3. UNCHANGED <<account, faults>>
      BY <1>4 DEF SetPrice
    <2> QED
      BY <2>1, <2>2, <2>3 DEF RowsTyped
  <1> QED
    BY <1>1, <1>2, <1>3, <1>4 DEF SeedStep

\* What the invariant says of the terminals, apart from the rows.
RunnersSound ==
    /\ step \in [Runners -> RunnerSteps] /\ todo \in [Runners -> Seq(Files)]
    /\ readAt \in [Runners -> 1 .. Len(Releases)]
    /\ AtAFile /\ OneHolder /\ CommitsUnrecorded /\ NothingForgotten /\ SuccessComplete

\* What one migrate has to see to when it goes to step s with q pending.
LEMMA RunnerMoves ==
    ASSUME RunnersSound, NEW x \in Runners, NEW s \in RunnerSteps, NEW q \in Seq(Files),
           NEW r \in 1 .. Len(Releases), readAt' = [readAt EXCEPT ![x] = r],
           step' = [step EXCEPT ![x] = s], todo' = [todo EXCEPT ![x] = q],
           recorded \subseteq recorded',
           s \in {"sql", "record", "commit", "rollback"} => q # <<>>,
           s \in {"record", "commit"} =>
               \A y \in Runners \ {x} : step[y] \in {"record", "commit"} => File(y) # Head(q),
           s = "commit" => Head(q) \notin recorded',
           \A y \in Runners \ {x} : step[y] = "commit" => File(y) \notin recorded',
           s \in {"sql", "record", "commit"} =>
               Releases[r] \subseteq recorded' \cup {q[i] : i \in 1 .. Len(q)},
           s = "succeeded" => Releases[r] \subseteq recorded'
    PROVE  RunnersSound'
  <1>1. /\ step' \in [Runners -> RunnerSteps] /\ todo' \in [Runners -> Seq(Files)]
        /\ readAt' \in [Runners -> 1 .. Len(Releases)]
    BY DEF RunnersSound
  <1>2. /\ step'[x] = s /\ todo'[x] = q /\ readAt'[x] = r
        /\ \A y \in Runners \ {x} :
             step'[y] = step[y] /\ todo'[y] = todo[y] /\ readAt'[y] = readAt[y]
    BY DEF RunnersSound
  <1>3. AtAFile'
    BY <1>2 DEF RunnersSound, AtAFile, Working
  <1>4. OneHolder'
    BY <1>2 DEF RunnersSound, OneHolder, File
  <1>5. CommitsUnrecorded'
    BY <1>2 DEF CommitsUnrecorded, File
  <1>6. NothingForgotten'
    <2> SUFFICES ASSUME NEW y \in Runners, step'[y] \in {"sql", "record", "commit"}
                 PROVE  Releases[readAt'[y]] \subseteq
                            recorded' \cup {todo'[y][i] : i \in 1 .. Len(todo'[y])}
      BY DEF NothingForgotten, Pending
    <2>1. CASE y = x
      BY <1>2, <2>1
    <2>2. CASE y # x
      <3>1. Releases[readAt[y]] \subseteq recorded \cup {todo[y][i] : i \in 1 .. Len(todo[y])}
        BY <1>2, <2>2 DEF RunnersSound, NothingForgotten, Pending
      <3> QED
        BY <1>2, <2>2, <3>1
    <2> QED
      BY <2>1, <2>2
  <1>7. SuccessComplete'
    BY <1>2 DEF RunnersSound, SuccessComplete
  <1> QED
    BY <1>1, <1>3, <1>4, <1>5, <1>6, <1>7 DEF RunnersSound

\* The rows of schema_migrations and the statements that took effect.
RowsSound ==
    /\ release \in 1 .. Len(Releases)
    /\ tracked \in BOOLEAN /\ recorded \subseteq Files /\ applied \in Seq(Files)
    /\ recorded = Applied /\ AppliedOnce

LEMMA MigrationInvParts ==
    MigrationInv <=> RowsSound /\ RunnersSound /\ RowsTyped /\ faults \in 0 .. MaxFaults
  BY DEF MigrationInv, TypeOK, RowsSound, RunnersSound, RowsTyped

\* A step of x that records nothing, and where x is then.
LEMMA WithoutCommit ==
    ASSUME MigrationInv, NEW x \in Runners,
           \/ Run(x) \/ EnsureMigrationsTable(x) \/ ListPending(x) \/ RunSql(x)
           \/ Record(x) \/ Rollback(x) \/ Kill(x)
    PROVE  RowsSound' /\ RunnersSound' /\ faults' \in 0 .. MaxFaults
  <1>0. MaxFaults \in Nat
    BY DeploymentAssumption
  <1>1. RowsSound /\ RunnersSound /\ faults \in 0 .. MaxFaults
    BY MigrationInvParts
  <1>2. UNCHANGED <<release, recorded, applied>> /\ tracked' \in {tracked, TRUE}
    BY DEF Run, EnsureMigrationsTable, ListPending, RunSql, Record, Rollback, Kill, schemaVars
  <1>3. RowsSound'
    BY <1>1, <1>2 DEF RowsSound, Applied, AppliedOnce
  <1>4. faults' \in 0 .. MaxFaults
    <2>1. \/ faults' = faults
          \/ faults < MaxFaults /\ faults' = faults + 1
      BY DEF Run, EnsureMigrationsTable, ListPending, RunSql, Record, Rollback, Kill
    <2> QED
      BY <1>0, <1>1, <2>1
  <1>5. /\ todo = [todo EXCEPT ![x] = todo[x]] /\ todo[x] \in Seq(Files) /\ <<>> \in Seq(Files)
        /\ \A y \in Runners : step[y] = "commit" => File(y) \notin recorded
        /\ readAt = [readAt EXCEPT ![x] = readAt[x]] /\ readAt[x] \in 1 .. Len(Releases)
    BY <1>1 DEF RunnersSound, CommitsUnrecorded
  <1>6. /\ step[x] \in {"sql", "record", "commit", "rollback"} => todo[x] # <<>>
        /\ step[x] \in {"sql", "record", "commit"} =>
             Releases[readAt[x]] \subseteq recorded \cup {todo[x][i] : i \in 1 .. Len(todo[x])}
    BY <1>1 DEF RunnersSound, AtAFile, Working, NothingForgotten, Pending
  <1>7. CASE Run(x)
    <2>1. /\ step' = [step EXCEPT ![x] = "started"]
          /\ todo' = [todo EXCEPT ![x] = todo[x]] /\ readAt' = [readAt EXCEPT ![x] = readAt[x]]
      BY <1>5, <1>7 DEF Run, Goto
    <2>2. RunnersSound'
      BY <1>1, <1>2, <1>5, <2>1, RunnerMoves DEF RunnerSteps
    <2> QED
      BY <1>3, <1>4, <2>2
  <1>8. CASE EnsureMigrationsTable(x)
    <2>1. PICK s \in {"listing", "idle"} :
            /\ step' = [step EXCEPT ![x] = s]
            /\ todo' = [todo EXCEPT ![x] = todo[x]] /\ readAt' = [readAt EXCEPT ![x] = readAt[x]]
      BY <1>5, <1>8 DEF EnsureMigrationsTable, Goto
    <2>2. RunnersSound'
      BY <1>1, <1>2, <1>5, <2>1, RunnerMoves DEF RunnerSteps
    <2> QED
      BY <1>3, <1>4, <2>2
  <1>9. CASE ListPending(x)
    <2>1. PICK q : q = InNameOrder(Releases[release] \ recorded)
      OBVIOUS
    <2>2. PICK s : s = IF q = <<>> THEN "succeeded" ELSE "sql"
      OBVIOUS
    <2>3. /\ step' = [step EXCEPT ![x] = s] /\ todo' = [todo EXCEPT ![x] = q]
          /\ readAt' = [readAt EXCEPT ![x] = release] /\ release \in 1 .. Len(Releases)
      BY <1>1, <1>9, <2>1, <2>2 DEF ListPending, Goto, RowsSound
    <2>4. q \in Seq(Files) /\ Releases[release] \subseteq recorded \cup {q[i] : i \in 1 .. Len(q)}
      <3>1. release \in 1 .. Len(Releases)
        BY <2>3
      <3> QED
        BY <2>1, <3>1, PendingFacts
    <2>5. q = <<>> => Releases[release] \subseteq recorded
      BY <2>4
    <2>6. RunnersSound'
      BY <1>1, <1>2, <1>5, <2>2, <2>3, <2>4, <2>5, RunnerMoves DEF RunnerSteps
    <2> QED
      BY <1>3, <1>4, <2>6
  <1>10. CASE RunSql(x)
    <2>1. PICK s \in {"record", "rollback"} :
            /\ step' = [step EXCEPT ![x] = s]
            /\ todo' = [todo EXCEPT ![x] = todo[x]] /\ readAt' = [readAt EXCEPT ![x] = readAt[x]]
      BY <1>5, <1>10 DEF RunSql, Goto
    <2>2. step[x] = "sql" /\ \A y \in Runners \ {x} :
            step[y] \in {"record", "commit"} => File(y) # Head(todo[x])
      BY <1>10 DEF RunSql, HasRun, File
    <2>3. RunnersSound'
      BY <1>1, <1>2, <1>5, <1>6, <2>1, <2>2, RunnerMoves DEF RunnerSteps
    <2> QED
      BY <1>3, <1>4, <2>3
  <1>11. CASE Record(x)
    <2>1. PICK s \in {"commit", "rollback"} :
            /\ step' = [step EXCEPT ![x] = s]
            /\ todo' = [todo EXCEPT ![x] = todo[x]] /\ readAt' = [readAt EXCEPT ![x] = readAt[x]]
            /\ s = "commit" => Head(todo[x]) \notin recorded
      BY <1>5, <1>11 DEF Record, Goto, Unrecorded, File
    <2>2. step[x] = "record" /\ \A y \in Runners \ {x} :
            step[y] \in {"record", "commit"} => File(y) # Head(todo[x])
      BY <1>1, <1>11 DEF Record, RunnersSound, OneHolder, File
    <2>3. RunnersSound'
      BY <1>1, <1>2, <1>5, <1>6, <2>1, <2>2, RunnerMoves DEF RunnerSteps
    <2> QED
      BY <1>3, <1>4, <2>3
  <1>12. CASE Rollback(x) \/ Kill(x)
    <2>1. /\ step' = [step EXCEPT ![x] = "idle"] /\ todo' = [todo EXCEPT ![x] = <<>>]
          /\ readAt' = [readAt EXCEPT ![x] = readAt[x]]
      BY <1>5, <1>12 DEF Rollback, Kill, Goto
    <2>2. RunnersSound'
      BY <1>1, <1>2, <1>5, <2>1, RunnerMoves DEF RunnerSteps
    <2> QED
      BY <1>3, <1>4, <2>2
  <1> QED
    BY <1>7, <1>8, <1>9, <1>10, <1>11, <1>12

LEMMA AfterCommit ==
    ASSUME MigrationInv, NEW x \in Runners, NEW heard \in BOOLEAN, Commit(x, heard)
    PROVE  RowsSound' /\ RunnersSound' /\ faults' \in 0 .. MaxFaults
  <1>0. MaxFaults \in Nat
    BY DeploymentAssumption
  <1>1. RowsSound /\ RunnersSound /\ faults \in 0 .. MaxFaults
    BY MigrationInvParts
  <1>2. PICK q \in Seq(Files) : q = todo[x]
    BY <1>1 DEF RunnersSound
  <1>3. PICK f : f = Head(q)
    OBVIOUS
  <1>4. q # <<>> /\ f \in Files /\ Tail(q) \in Seq(Files) /\ f \notin recorded
    <2>1. step[x] = "commit"
      BY DEF Commit
    <2>2. q # <<>> /\ f \notin recorded
      BY <1>1, <1>2, <1>3, <2>1 DEF RunnersSound, AtAFile, Working, CommitsUnrecorded, File
    <2> QED
      BY <1>2, <1>3, <2>2
  <1>5. applied' = Append(applied, f) /\ recorded' = recorded \cup {f}
    BY <1>2, <1>3 DEF Commit, File
  <1>6. RowsSound'
    <2>1. UNCHANGED <<release, tracked>> /\ recorded' \subseteq Files
      BY <1>1, <1>4, <1>5 DEF Commit, RowsSound
    <2>2. PICK n \in Nat : n = Len(applied)
      BY <1>1 DEF RowsSound
    <2>3. /\ applied' \in Seq(Files) /\ Len(applied') = n + 1 /\ applied'[n + 1] = f
          /\ \A i \in 1 .. n : applied'[i] = applied[i]
      BY <1>1, <1>4, <1>5, <2>2 DEF RowsSound
    <2>4. recorded = {applied[i] : i \in 1 .. n}
          /\ \A i, j \in 1 .. n : applied[i] = applied[j] => i = j
      BY <1>1, <2>2 DEF RowsSound, Applied, AppliedOnce
    <2>5. \A i \in 1 .. n + 1 : i = n + 1 \/ i \in 1 .. n
      BY <2>2
    <2>6. recorded' = {applied'[i] : i \in 1 .. n + 1}
      <3>1. \A e \in recorded : \E i \in 1 .. n + 1 : e = applied'[i]
        <4>1. \A i \in 1 .. n : i \in 1 .. n + 1
          BY <2>2
        <4> QED
          BY <2>3, <2>4, <4>1
      <3>2. n + 1 \in 1 .. n + 1
        BY <2>2
      <3> QED
        BY <1>5, <2>3, <2>4, <2>5, <3>1, <3>2
    <2>7. \A i, j \in 1 .. n + 1 : applied'[i] = applied'[j] => i = j
      <3>1. \A i \in 1 .. n : applied'[i] # f
        BY <1>4, <2>3, <2>4
      <3> QED
        BY <2>3, <2>4, <2>5, <3>1
    <2> QED
      BY <1>1, <2>1, <2>3, <2>6, <2>7 DEF RowsSound, Applied, AppliedOnce
  <1>7. \A y \in Runners \ {x} : step[y] = "commit" => File(y) \notin recorded'
    BY <1>1, <1>2, <1>3, <1>5 DEF Commit, RunnersSound, OneHolder, CommitsUnrecorded, File
  <1>8. Releases[readAt[x]] \subseteq recorded' \cup {Tail(q)[i] : i \in 1 .. Len(Tail(q))}
    <2>1. Releases[readAt[x]] \subseteq recorded \cup {q[i] : i \in 1 .. Len(q)}
      BY <1>1, <1>2 DEF Commit, RunnersSound, NothingForgotten, Pending
    <2>2. \A i \in 1 .. Len(q) : q[i] = f \/ (i - 1 \in 1 .. Len(Tail(q)) /\ Tail(q)[i - 1] = q[i])
      BY <1>2, <1>3, <1>4
    <2> QED
      BY <1>5, <2>1, <2>2
  <1>r. readAt' = [readAt EXCEPT ![x] = readAt[x]] /\ readAt[x] \in 1 .. Len(Releases)
    BY <1>1 DEF Commit, RunnersSound
  <1>9. CASE heard
    <2>1. PICK s : s = IF Tail(q) = <<>> THEN "succeeded" ELSE "sql"
      OBVIOUS
    <2>2. step' = [step EXCEPT ![x] = s] /\ todo' = [todo EXCEPT ![x] = Tail(q)] /\ faults' = faults
      BY <1>1, <1>2, <1>9, <2>1 DEF Commit, Goto, RunnersSound
    <2>3. s \in RunnerSteps /\ recorded \subseteq recorded'
      BY <1>5, <2>1 DEF RunnerSteps
    <2>4. Tail(q) = <<>> => Releases[readAt[x]] \subseteq recorded'
      <3>1. Tail(q) = <<>> => 1 .. Len(Tail(q)) = {}
        OBVIOUS
      <3> QED
        BY <1>8, <3>1
    <2>5. RunnersSound'
      BY <1>1, <1>4, <1>7, <1>8, <1>r, <2>1, <2>2, <2>3, <2>4, RunnerMoves
    <2> QED
      BY <1>1, <1>6, <2>2, <2>5
  <1>10. CASE ~heard
    <2>1. step' = [step EXCEPT ![x] = "idle"] /\ todo' = [todo EXCEPT ![x] = <<>>]
      BY <1>10 DEF Commit, Goto
    <2>2. faults' \in 0 .. MaxFaults
      BY <1>0, <1>1, <1>10 DEF Commit
    <2>3. "idle" \in RunnerSteps /\ <<>> \in Seq(Files) /\ recorded \subseteq recorded'
      BY <1>5 DEF RunnerSteps
    <2>4. RunnersSound'
      BY <1>1, <1>7, <1>r, <2>1, <2>3, RunnerMoves
    <2> QED
      BY <1>6, <2>2, <2>4
  <1> QED
    BY <1>9, <1>10

\* Nothing but a migrate touches the schema.
LEMMA SchemaLeftAlone ==
    ASSUME MigrationInv, UNCHANGED <<schemaVars, runnerVars>>, release' \in 1 .. Len(Releases)
    PROVE  RowsSound' /\ RunnersSound'
  <1>1. RowsSound /\ RunnersSound
    BY MigrationInvParts
  <1>2. RowsSound'
    BY <1>1 DEF RowsSound, Applied, AppliedOnce, schemaVars
  <1>3. RunnersSound'
    BY <1>1 DEF RunnersSound, AtAFile, Working, OneHolder, CommitsUnrecorded, NothingForgotten,
                Pending, SuccessComplete, File, schemaVars, runnerVars
  <1> QED
    BY <1>2, <1>3

LEMMA MigrationInit == Init => MigrationInv
  <1> SUFFICES ASSUME Init
               PROVE  MigrationInv
    OBVIOUS
  <1>1. RowsSound
    <2>1. 1 \in 1 .. Len(Releases)
      BY DeploymentAssumption
    <2>2. release = 1 /\ tracked = FALSE /\ recorded = {} /\ applied = <<>>
      BY DEF Init
    <2>3. <<>> \in Seq(Files) /\ 1 .. Len(<<>>) = {}
      OBVIOUS
    <2>4. 1 .. Len(applied) = {}
      BY <2>2, <2>3
    <2>5. Applied = {} /\ AppliedOnce
      BY <2>4 DEF Applied, AppliedOnce
    <2> QED
      BY <2>1, <2>2, <2>3, <2>5 DEF RowsSound
  <1>2. RunnersSound
    <2>1. 1 \in 1 .. Len(Releases)
      BY DeploymentAssumption
    <2> QED
      BY <2>1 DEF Init, RunnersSound, RunnerSteps, AtAFile, Working, OneHolder,
                  CommitsUnrecorded, NothingForgotten, SuccessComplete
  <1>3. RowsTyped /\ faults \in 0 .. MaxFaults
    BY DeploymentAssumption DEF Init, RowsTyped
  <1> QED
    BY <1>1, <1>2, <1>3, MigrationInvParts

LEMMA MigrationNext == MigrationInv /\ [Next]_vars => MigrationInv'
  <1> SUFFICES ASSUME MigrationInv, [Next]_vars
               PROVE  RowsSound' /\ RunnersSound' /\ RowsTyped' /\ faults' \in 0 .. MaxFaults
    BY DEF MigrationInv, TypeOK, RowsSound, RunnersSound, RowsTyped
  <1>1. RowsSound /\ RowsTyped /\ faults \in 0 .. MaxFaults /\ release \in 1 .. Len(Releases)
    BY MigrationInvParts DEF RowsSound
  <1>2. CASE Release
    <2>1. release' \in 1 .. Len(Releases) /\ faults' = faults
          /\ UNCHANGED <<schemaVars, runnerVars, seedVars>>
      <3>1. Len(Releases) \in Nat
        BY DeploymentAssumption
      <3> QED
        BY <1>1, <1>2, <3>1 DEF Release
    <2> QED
      BY <1>1, <2>1, SchemaLeftAlone DEF RowsTyped, seedVars
  <1>3. ASSUME NEW x \in Runners,
               \/ Run(x) \/ EnsureMigrationsTable(x) \/ ListPending(x) \/ RunSql(x)
               \/ Record(x) \/ Rollback(x) \/ Kill(x)
        PROVE  RowsSound' /\ RunnersSound' /\ RowsTyped' /\ faults' \in 0 .. MaxFaults
    BY <1>1, <1>3, WithoutCommit, MigrateLeavesSeeds DEF RowsTyped, seedVars
  <1>4. ASSUME NEW x \in Runners, NEW heard \in BOOLEAN, Commit(x, heard)
        PROVE  RowsSound' /\ RunnersSound' /\ RowsTyped' /\ faults' \in 0 .. MaxFaults
    BY <1>1, <1>4, AfterCommit, MigrateLeavesSeeds DEF RowsTyped, seedVars
  <1>5. CASE SeedStep
    BY <1>1, <1>5, SeedStepLeavesSchema, SeedStepTyped, SchemaLeftAlone
  <1>6. CASE UNCHANGED vars
    BY <1>1, <1>6, SchemaLeftAlone DEF vars, seedVars, RowsTyped
  <1> QED
    BY <1>2, <1>3, <1>4, <1>5, <1>6, NextCases

(* On every database and for all releases that only add files: whatever    *)
(* migrates run at once, are killed or lose the answer to a COMMIT, a file *)
(* is recorded exactly when its statements took effect, which they did     *)
(* once, and a migrate that succeeds has left out no file of the release   *)
(* it read (applyMigration and main of database/migrate.ts).               *)
THEOREM SchemaStaysSound == Spec => []SchemaSound
  <1>1. MigrationInv => SchemaSound
    BY DEF MigrationInv, SchemaSound, AppliedOnce, SuccessComplete
  <1> QED
    BY <1>1, MigrationInit, MigrationNext, PTL DEF Spec

----------------------------------------------------------------------------
(* The seeded rows.                                                        *)

LEMMA MenuNamesFacts ==
    /\ Len(MenuNames) \in Nat \ {0}
    /\ \A i \in 1 .. Len(MenuNames) : MenuNames[i] \in Names
  <1>1. MenuNames \in Seq(Names) /\ MenuNames # <<>>
    BY DeploymentAssumption
  <1> QED
    BY <1>1

\* At menu k, before it has been looked for.
LEMMA SeedAt ==
    ASSUME NEW k \in 0 .. Len(MenuNames)
    PROVE  /\ [Unseeded EXCEPT !.at = k] \in SeedStates
           /\ [Unseeded EXCEPT !.at = k].at = k /\ ~[Unseeded EXCEPT !.at = k].reading
           /\ Unseeded \in SeedStates /\ Unseeded.at = 0 /\ ~Unseeded.reading
  <1>1. Len(MenuNames) \in Nat
    BY MenuNamesFacts
  <1>2. Unseeded \in SeedStates /\ Unseeded.at = 0 /\ ~Unseeded.reading
    BY <1>1 DEF Unseeded, SeedStates
  <1>3. PICK q : q = [Unseeded EXCEPT !.at = k]
    OBVIOUS
  <1>4. q \in SeedStates /\ q.at = k /\ q.reading = Unseeded.reading
    BY <1>2, <1>3 DEF SeedStates
  <1> QED
    BY <1>2, <1>3, <1>4

LEMMA SeedInit == Init => SeedInv
  <1> SUFFICES ASSUME Init
               PROVE  SeedInv
    OBVIOUS
  <1>1. RowsTyped /\ SeedsTyped
    <2>1. 0 \in 0 .. Len(MenuNames)
      BY MenuNamesFacts
    <2>2. Unseeded \in SeedStates
      BY <2>1 DEF Unseeded, SeedStates
    <2>3. \A s \in Seeders : ~seed[s].reading
      BY DEF Init, Unseeded
    <2>4. SeedsTyped
      BY <2>2, <2>3 DEF Init, SeedsTyped
    <2> QED
      BY <2>4 DEF Init, RowsTyped
  <1>2. AccountKept /\ PricesKept
    BY DEF Init, AccountKept, PricesKept
  <1>3. SeedsAlone
    BY DEF Init, SeedsAlone, SeedingMenus, Unseeded
  <1> QED
    BY <1>1, <1>2, <1>3 DEF SeedInv

LEMMA SeedVarsLeftAlone ==
    ASSUME SeedInv, UNCHANGED seedVars
    PROVE  SeedInv'
  BY DEF SeedInv, RowsTyped, SeedsTyped, AccountKept, PricesKept, SeedsAlone, SeedingMenus,
         seedVars

\* A process of seed:menus goes on without a look at the rows: it begins, or
\* is killed.
LEMMA SeedMenusGoes ==
    ASSUME SeedInv, NEW s \in Seeders, SeedMenusStart(s) \/ SeedMenusKill(s)
    PROVE  SeedInv'
  <1>1. PICK q \in SeedStates :
            /\ seed' = [seed EXCEPT ![s] = q] /\ ~q.reading
            /\ SeedMenusStart(s) \/ q.at = 0
    <2>1. 0 \in 0 .. Len(MenuNames) /\ 1 \in 0 .. Len(MenuNames)
      BY MenuNamesFacts
    <2>2. CASE SeedMenusStart(s)
      BY <2>1, <2>2, SeedAt DEF SeedMenusStart
    <2>3. CASE SeedMenusKill(s)
      BY <2>1, <2>3, SeedAt DEF SeedMenusKill
    <2> QED
      BY <2>2, <2>3
  <1>2. UNCHANGED <<menus, account, changed>> /\ overlapped' \in BOOLEAN
        /\ (overlapped => overlapped')
    BY DEF SeedMenusStart, SeedMenusKill, SeedInv, SeedsTyped
  <1>3. RowsTyped' /\ AccountKept' /\ PricesKept'
    BY <1>2 DEF SeedInv, RowsTyped, AccountKept, PricesKept
  <1>5. SeedsTyped'
    BY <1>1, <1>2 DEF SeedInv, SeedsTyped
  <1>6. SeedsAlone'
    <2> SUFFICES ASSUME ~overlapped'
                 PROVE  SeedsAlone'
      BY DEF SeedsAlone
    <2>1. SeedsAlone /\ ~overlapped /\ \A u \in Seeders \ {s} : seed'[u] = seed[u]
      BY <1>1, <1>2 DEF SeedInv, SeedsTyped
    <2>2. seed'[s] = q
      BY <1>1 DEF SeedInv, SeedsTyped
    <2>3. q.at > 0 => \A u \in Seeders \ {s} : ~(seed[u].at > 0)
      <3>1. CASE SeedMenusStart(s)
        BY <3>1 DEF SeedMenusStart, SeedingMenus
      <3>2. CASE q.at = 0
        BY <3>2
      <3> QED
        BY <1>1, <3>1, <3>2
    <2>4. \A u, v \in Seeders : seed'[u].at > 0 /\ seed'[v].at > 0 => u = v
      BY <2>1, <2>2, <2>3 DEF SeedsAlone, SeedingMenus
    <2>5. \A u \in Seeders : seed'[u].reading =>
            (seed'[u].found <=> menus[MenuNames[seed'[u].at]] # <<>>)
      BY <1>1, <2>1, <2>2 DEF SeedsAlone
    <2>6. \A n \in Names : Len(menus[n]) <= 1
      BY <2>1 DEF SeedsAlone
    <2> QED
      BY <1>2, <2>4, <2>5, <2>6 DEF SeedsAlone, SeedingMenus
  <1> QED
    BY <1>3, <1>5, <1>6 DEF SeedInv

LEMMA SeedMenusReads ==
    ASSUME SeedInv, NEW s \in Seeders, SeedMenusRead(s)
    PROVE  SeedInv'
  <1>1. PICK seen \in BOOLEAN : seen = (menus[MenuNames[seed[s].at]] # <<>>)
    OBVIOUS
  <1>2. PICK q \in SeedStates :
            /\ seed' = [seed EXCEPT ![s] = q]
            /\ q.at = seed[s].at /\ q.at > 0 /\ q.found = seen
    <2>1. seed' = [seed EXCEPT ![s] = [seed[s] EXCEPT !.reading = TRUE, !.found = seen]]
      BY <1>1 DEF SeedMenusRead
    <2>2. PICK p \in SeedStates : p = seed[s]
      BY DEF SeedInv, SeedsTyped
    <2>3. PICK q : q = [p EXCEPT !.reading = TRUE, !.found = seen]
      OBVIOUS
    <2>4. q \in SeedStates /\ q.at = p.at /\ q.found = seen
      BY <2>2, <2>3 DEF SeedStates
    <2>5. seed[s].at > 0
      BY DEF SeedMenusRead, SeedingMenus
    <2> QED
      BY <2>1, <2>2, <2>3, <2>4, <2>5
  <1>3. UNCHANGED <<menus, account, changed, overlapped>>
    BY DEF SeedMenusRead
  <1>4. RowsTyped' /\ AccountKept' /\ PricesKept'
    BY <1>3 DEF SeedInv, RowsTyped, AccountKept, PricesKept
  <1>5. SeedsTyped'
    BY <1>2, <1>3 DEF SeedInv, SeedsTyped
  <1>6. SeedsAlone'
    <2> SUFFICES ASSUME ~overlapped
                 PROVE  SeedsAlone'
      BY <1>3 DEF SeedsAlone
    <2>1. \A u \in Seeders : seed'[u].at = seed[u].at
      BY <1>2 DEF SeedInv, SeedsTyped
    <2>2. /\ seed'[s].found = seen /\ \A u \in Seeders \ {s} : seed'[u] = seed[u]
      BY <1>2 DEF SeedInv, SeedsTyped
    <2>3. \A u \in Seeders : seed'[u].reading =>
            (seed'[u].found <=> menus[MenuNames[seed'[u].at]] # <<>>)
      BY <1>1, <2>1, <2>2 DEF SeedInv, SeedsAlone
    <2> QED
      BY <1>3, <2>1, <2>3 DEF SeedInv, SeedsAlone, SeedingMenus
  <1> QED
    BY <1>4, <1>5, <1>6 DEF SeedInv

\* As long as nobody else is under way, what was read still holds, so that a
\* second row is never put in.
LEMMA SeedMenusInserts ==
    ASSUME SeedInv, NEW s \in Seeders, SeedMenusInsert(s)
    PROVE  SeedInv'
  <1>1. PICK n : n = MenuNames[seed[s].at]
    OBVIOUS
  <1>2. seed[s].reading /\ seed[s].at \in 1 .. Len(MenuNames) /\ n \in Names
    <2>1. seed[s].reading /\ seed[s].at \in 1 .. Len(MenuNames)
      <3>1. seed[s].reading /\ seed[s].at > 0 /\ seed[s] \in SeedStates
        BY DEF SeedMenusInsert, SeedInv, SeedsTyped
      <3> QED
        BY <3>1, MenuNamesFacts DEF SeedStates
    <2> QED
      BY <1>1, <2>1, MenuNamesFacts
  <1>3. PICK rows : rows = IF seed[s].found THEN menus[n] ELSE Append(menus[n], InitialPrice)
    OBVIOUS
  <1>4. menus' = [menus EXCEPT ![n] = rows] /\ UNCHANGED <<account, changed, overlapped>>
    BY <1>1, <1>3 DEF SeedMenusInsert
  <1>5. menus[n] \in Seq(Prices \cup {InitialPrice})
    BY <1>2 DEF SeedInv, RowsTyped
  <1>6. /\ rows \in Seq(Prices \cup {InitialPrice})
        /\ \A i \in 1 .. Len(menus[n]) : i \in 1 .. Len(rows) /\ rows[i] = menus[n][i]
    BY <1>3, <1>5
  <1>7. RowsTyped' /\ AccountKept'
    BY <1>4, <1>6 DEF SeedInv, RowsTyped, AccountKept
  <1>8. \A m \in Names : menus'[m] = IF m = n THEN rows ELSE menus[m]
    BY <1>4 DEF SeedInv, RowsTyped
  <1>9. PricesKept'
    BY <1>4, <1>6, <1>8 DEF SeedInv, PricesKept
  <1>10. PICK q \in SeedStates : seed' = [seed EXCEPT ![s] = q] /\ ~q.reading
    <2>1. seed' = [seed EXCEPT ![s] =
                    IF seed[s].at = Len(MenuNames)
                    THEN Unseeded ELSE [Unseeded EXCEPT !.at = seed[s].at + 1]]
      BY DEF SeedMenusInsert
    <2>2. 0 \in 0 .. Len(MenuNames)
          /\ (seed[s].at # Len(MenuNames) => seed[s].at + 1 \in 0 .. Len(MenuNames))
      BY <1>2, MenuNamesFacts
    <2> QED
      BY <2>1, <2>2, SeedAt
  <1>11. SeedsTyped'
    BY <1>4, <1>10 DEF SeedInv, SeedsTyped
  <1>12. SeedsAlone'
    <2> SUFFICES ASSUME ~overlapped
                 PROVE  SeedsAlone'
      BY <1>4 DEF SeedsAlone
    <2>1. /\ seed'[s] = q
          /\ \A u \in Seeders \ {s} : seed'[u] = seed[u]
      BY <1>10 DEF SeedInv, SeedsTyped
    <2>2. \A u \in Seeders \ {s} : ~(seed[u].at > 0) /\ ~seed[u].reading
      <3>1. seed[s].at > 0
        BY <1>2, MenuNamesFacts
      <3> QED
        BY <3>1 DEF SeedInv, SeedsTyped, SeedsAlone, SeedingMenus
    <2>3. Len(rows) <= 1
      <3>1. Len(menus[n]) <= 1 /\ (seed[s].found <=> menus[n] # <<>>)
        BY <1>1, <1>2 DEF SeedInv, SeedsAlone
      <3>2. CASE seed[s].found
        BY <1>3, <3>1, <3>2
      <3>3. CASE ~seed[s].found
        <4>1. menus[n] = <<>> /\ rows = Append(menus[n], InitialPrice)
          BY <1>3, <3>1, <3>3
        <4> QED
          BY <1>5, <4>1
      <3> QED
        BY <3>2, <3>3
    <2>4. \A m \in Names : Len(menus'[m]) <= 1
      BY <1>8, <2>3 DEF SeedInv, SeedsAlone
    <2>5. \A u, v \in Seeders : seed'[u].at > 0 /\ seed'[v].at > 0 => u = v
      BY <2>1, <2>2
    <2>6. \A u \in Seeders : ~seed'[u].reading
      BY <1>10, <2>1, <2>2
    <2> QED
      BY <2>4, <2>5, <2>6 DEF SeedsAlone, SeedingMenus
  <1> QED
    BY <1>7, <1>9, <1>11, <1>12 DEF SeedInv

\* The other writers of the rows: seed:payment-settings, which leaves an
\* account that is there, and the administrators.
LEMMA AccountChanges ==
    ASSUME SeedInv, SeedPaymentSettings \/ \E a \in Accounts : SetAccount(a)
    PROVE  SeedInv'
  <1>1. UNCHANGED <<seed, menus, overlapped>> /\ changed'.prices = changed.prices
    <2>1. CASE SeedPaymentSettings
      BY <2>1 DEF SeedPaymentSettings
    <2>2. ASSUME NEW a \in Accounts, SetAccount(a)
          PROVE  UNCHANGED <<seed, menus, overlapped>> /\ changed'.prices = changed.prices
      BY <2>2 DEF SetAccount, SeedInv, SeedsTyped
    <2> QED
      BY <2>1, <2>2
  <1>2. /\ account' \in Accounts \cup {InitialAccount, None} /\ AccountKept'
        /\ changed' \in [account : Accounts \cup {None},
                         prices : [Names -> [Copies -> Prices \cup {None}]]]
    <2>1. CASE SeedPaymentSettings
      BY <2>1, DeploymentAssumption
         DEF SeedPaymentSettings, DoNothing, SeedInv, RowsTyped, SeedsTyped, AccountKept
    <2>2. ASSUME NEW a \in Accounts, SetAccount(a)
          PROVE  /\ account' \in Accounts \cup {InitialAccount, None} /\ AccountKept'
                 /\ changed' \in [account : Accounts \cup {None},
                                  prices : [Names -> [Copies -> Prices \cup {None}]]]
      BY <2>2 DEF SetAccount, SeedInv, SeedsTyped, AccountKept
    <2> QED
      BY <2>1, <2>2
  <1>3. RowsTyped' /\ SeedsTyped'
    BY <1>1, <1>2 DEF SeedInv, RowsTyped, SeedsTyped
  <1>4. PricesKept' /\ SeedsAlone'
    BY <1>1 DEF SeedInv, PricesKept, SeedsAlone, SeedingMenus
  <1> QED
    BY <1>2, <1>3, <1>4 DEF SeedInv

LEMMA PriceChanges ==
    ASSUME SeedInv, NEW n \in Names, NEW p \in Prices, NEW i \in 1 .. Len(menus[n]),
           SetPrice(n, i, p)
    PROVE  SeedInv'
  <1>1. PICK rows : rows = [menus[n] EXCEPT ![i] = p]
    OBVIOUS
  <1>2. menus[n] \in Seq(Prices \cup {InitialPrice})
    BY DEF SeedInv, RowsTyped
  <1>3. /\ rows \in Seq(Prices \cup {InitialPrice}) /\ Len(rows) = Len(menus[n]) /\ rows[i] = p
        /\ \A j \in 1 .. Len(menus[n]) : j # i => rows[j] = menus[n][j]
    BY <1>1, <1>2
  <1>4. menus' = [menus EXCEPT ![n] = rows] /\ UNCHANGED <<seed, account, overlapped>>
    BY <1>1 DEF SetPrice
  <1>5. \A m \in Names : menus'[m] = IF m = n THEN rows ELSE menus[m]
    BY <1>4 DEF SeedInv, RowsTyped
  <1>6. RowsTyped'
    BY <1>3, <1>4 DEF SeedInv, RowsTyped
  <1>7. PICK set : set = [changed.prices[n] EXCEPT ![i] = p]
    OBVIOUS
  <1>8. changed' = [changed EXCEPT !.prices = [changed.prices EXCEPT ![n] = set]]
    BY <1>7 DEF SetPrice
  <1>9. /\ changed.prices \in [Names -> [Copies -> Prices \cup {None}]]
        /\ changed.account \in Accounts \cup {None}
    BY DEF SeedInv, SeedsTyped
  <1>10. /\ set \in [Copies -> Prices \cup {None}]
         /\ \A j \in Copies : set[j] = IF j = i THEN p ELSE changed.prices[n][j]
    BY <1>7, <1>9
  <1>11. /\ changed'.account = changed.account
         /\ changed' \in [account : Accounts \cup {None},
                          prices : [Names -> [Copies -> Prices \cup {None}]]]
         /\ \A m \in Names : changed'.prices[m] = IF m = n THEN set ELSE changed.prices[m]
    BY <1>8, <1>9, <1>10 DEF SeedInv, SeedsTyped
  <1>12. SeedsTyped' /\ AccountKept'
    BY <1>4, <1>11 DEF SeedInv, SeedsTyped, AccountKept
  <1>13. PricesKept'
    BY <1>3, <1>5, <1>10, <1>11 DEF SeedInv, PricesKept
  <1>14. SeedsAlone'
    <2>1. \A m \in Names : Len(menus'[m]) = Len(menus[m]) /\ (menus'[m] # <<>> <=> menus[m] # <<>>)
      <3>1. rows # <<>> /\ menus[n] # <<>>
        BY <1>2, <1>3
      <3> QED
        BY <1>3, <1>5, <3>1
    <2>2. \A s \in Seeders : seed[s].reading => MenuNames[seed[s].at] \in Names
      <3>1. \A s \in Seeders : seed[s] \in SeedStates /\ (seed[s].reading => seed[s].at > 0)
        BY DEF SeedInv, SeedsTyped
      <3>2. \A s \in Seeders : seed[s].reading => seed[s].at \in 1 .. Len(MenuNames)
        BY <3>1, MenuNamesFacts DEF SeedStates
      <3> QED
        BY <3>2, MenuNamesFacts
    <2> QED
      BY <1>4, <2>1, <2>2 DEF SeedInv, SeedsAlone, SeedingMenus
  <1> QED
    BY <1>6, <1>12, <1>13, <1>14 DEF SeedInv

LEMMA SeedNext == SeedInv /\ [Next]_vars => SeedInv'
  <1> SUFFICES ASSUME SeedInv, [Next]_vars
               PROVE  SeedInv'
    OBVIOUS
  <1>1. CASE SeedStep
    BY <1>1, SeedMenusGoes, SeedMenusReads, SeedMenusInserts, AccountChanges, PriceChanges
       DEF SeedStep
  <1>2. CASE UNCHANGED vars
    BY <1>2, SeedVarsLeftAlone DEF vars
  <1>3. CASE Release
    BY <1>3, SeedVarsLeftAlone DEF Release
  <1>4. ASSUME NEW x \in Runners,
               \/ Run(x) \/ EnsureMigrationsTable(x) \/ ListPending(x) \/ RunSql(x)
               \/ Record(x) \/ (\E heard \in BOOLEAN : Commit(x, heard)) \/ Rollback(x)
               \/ Kill(x)
        PROVE  SeedInv'
    BY <1>4, MigrateLeavesSeeds, SeedVarsLeftAlone
  <1> QED
    BY <1>1, <1>2, <1>3, <1>4, NextCases

(* However often the seeds are run, killed and run again, the account and  *)
(* every price stay what an administrator set last, and as long as no two  *)
(* seed:menus are under way at once there is one row per name at most (the *)
(* INSERTs of seed-menus.ts and seed-payment-settings.ts).                 *)
THEOREM SeedsNeverUndoChanges == Spec => []SeedsKeepChanges
  <1>1. SeedInv => SeedsKeepChanges
    BY DEF SeedInv, SeedsKeepChanges, AccountKept, PricesKept, SeedsAlone
  <1> QED
    BY <1>1, SeedInit, SeedNext, PTL DEF Spec
=============================================================================

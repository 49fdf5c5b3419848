------------------------------- MODULE Admin -------------------------------
(***************************************************************************)
(* The administrator's commands: init, migrate, rotate-credentials and      *)
(* reset-policy.  Each is a sequence of statements on the server without a  *)
(* transaction around it; every migration file has one of its own.  Nothing *)
(* keeps two administrators apart, and a command ends at the first          *)
(* statement that fails, with what it did before left as it is.             *)
(***************************************************************************)
EXTENDS Integers, FiniteSets

CONSTANTS
  Administrator,  \* who runs commands, one at a time each
  Command,        \* the commands in use
  NumRules,       \* rules of the default policy in the binary
  MaxCommands,    \* bound on commands
  MaxFails        \* bound on statements that fail for no reason of the model

ASSUME AdminAssumption ==
  /\ Command \subseteq {"init", "migrate", "rotate", "reset"}
  /\ NumRules \in Nat \ {0}
  /\ MaxCommands \in Nat /\ MaxFails \in Nat

VARIABLES
  applied,    \* the files recorded in schema_migrations
  functions,  \* the file whose versions of the read functions are installed; 0: none
  password,   \* the role's, named by the command that set it; 0: there is no role
  granted,    \* does the role have its privileges
  printed,    \* the passwords that were printed
  rules,      \* the live rules of the default policy
  admin,      \* admin[a]: the command administrator a runs
  runs,       \* how many commands were begun
  fails       \* statements that failed

serverSetup == <<applied, functions, password, granted, printed, rules>>
adminVars == <<serverSetup, admin, runs, fails>>

Files == 1 .. 4
DefaultRules == 1 .. NumRules

\* A rule's row has a random id: by whom it was inserted tells rows apart.
RuleRow == [by : Nat, rule : DefaultRules]

Place == {"idle", "table", "apply", "role", "password", "grant", "count", "clear", "insert",
          "print"}

\* at: the next statement; todo: the files or rules still to be treated;
\* exists: was the role there; alone: has no other command run since it began.
Running == [cmd : Command \cup {"none"}, run : Nat, exists : BOOLEAN, alone : BOOLEAN,
            at : Place, todo : SUBSET (Files \cup DefaultRules)]

NoCommand == [cmd |-> "none", run |-> 0, exists |-> FALSE, alone |-> FALSE,
              at |-> "idle", todo |-> {}]

AdminTypeOK ==
  /\ applied \subseteq Files
  /\ functions \in {0, 2, 4}
  /\ password \in Nat
  /\ granted \in BOOLEAN
  /\ printed \subseteq Nat
  /\ rules \subseteq RuleRow
  /\ admin \in [Administrator -> Running]
  /\ runs \in Nat
  /\ fails \in Nat

AdminInit ==
  /\ applied = {} /\ functions = 0
  /\ password = 0 /\ granted = FALSE /\ printed = {}
  /\ rules = {}
  /\ admin = [a \in Administrator |-> NoCommand]
  /\ runs = 0 /\ fails = 0

-----------------------------------------------------------------------------

At(a, place) == admin[a].at = place
Runs(a, cmd) == admin[a].cmd = cmd

GoTo(a, place, todo) == admin' = [admin EXCEPT ![a].at = place, ![a].todo = todo]

End(a) == admin' = [admin EXCEPT ![a] = NoCommand]

Begin(a, cmd) ==
  /\ At(a, "idle")
  /\ runs < MaxCommands
  /\ runs' = runs + 1
  /\ admin' = [b \in Administrator |->
       IF b # a THEN [admin[b] EXCEPT !.alone = FALSE]
       ELSE [NoCommand EXCEPT
               !.cmd = cmd, !.run = runs + 1,
               !.alone = \A c \in Administrator \ {a} : At(c, "idle"),
               !.at = CASE cmd \in {"init", "migrate"} -> "table"
                        [] cmd = "rotate"              -> "password"
                        [] cmd = "reset"               -> "count",
               !.exists = (cmd = "rotate")]]
  /\ UNCHANGED <<serverSetup, fails>>

Fault == fails < MaxFails /\ fails' = fails + 1

\* Reads which files were applied.  First it asks whether the table exists; if
\* that fails, the answer is no.
ReadApplied(a) ==
  /\ At(a, "table")
  /\ \/ GoTo(a, "apply", Files \ applied) /\ UNCHANGED fails
     \/ GoTo(a, "apply", Files) /\ Fault
  /\ UNCHANGED <<serverSetup, runs>>

\* What a file needs of earlier ones: all need the tables of the first, the
\* last alters the audit table of the third.
Ready(f) == (f > 1 => 1 \in applied) /\ (f = 4 => 3 \in applied)

\* Files are applied in the order of their names.
IsNextFile(a, f) == f \in admin[a].todo /\ \A g \in admin[a].todo : f <= g

\* Wrong: a file that somebody else has applied meanwhile is skipped.
Rest(a, f) == admin[a].todo \ ({f} \cup applied)

Remaining(a, f) == admin[a].todo \ {f}

\* Wrong: every file is taken to define the read functions.
LatestFile(f) == f

\* The second and the fourth file define the read functions.
Installs(f) == IF f \in {2, 4} THEN f ELSE functions

\* One transaction: the file's statements, all of which may be repeated, and
\* its record.
ApplyFile(a) ==
  /\ At(a, "apply")
  /\ \E f \in admin[a].todo :
       /\ IsNextFile(a, f) /\ Ready(f)
       /\ applied' = applied \cup {f}
       /\ functions' = Installs(f)
       /\ GoTo(a, "apply", Remaining(a, f))
  /\ UNCHANGED <<password, granted, printed, rules, runs, fails>>

Migrated(a) ==
  /\ At(a, "apply") /\ admin[a].todo = {}
  /\ IF Runs(a, "init") THEN GoTo(a, "role", {}) ELSE End(a)
  /\ UNCHANGED <<serverSetup, runs, fails>>

CheckRole(a) ==
  /\ At(a, "role")
  /\ admin' = [admin EXCEPT ![a].at = "password", ![a].exists = (password # 0)]
  /\ UNCHANGED <<serverSetup, runs, fails>>

\* Wrong: the role keeps the password it has.
OldPassword(a) == IF password = 0 THEN admin[a].run ELSE password

NewPassword(a) == admin[a].run

\* alter role if it was there, create role if not: either fails when that is
\* not so any more, and rotate-credentials never asked.
SetPassword(a) ==
  /\ At(a, "password")
  /\ admin[a].exists = (password # 0)
  /\ password' = NewPassword(a)
  /\ GoTo(a, IF Runs(a, "init") THEN "grant" ELSE "print", {})
  /\ UNCHANGED <<applied, functions, granted, printed, rules, runs, fails>>

Grant(a) ==
  /\ At(a, "grant")
  /\ granted' = TRUE
  /\ GoTo(a, "count", {})
  /\ UNCHANGED <<applied, functions, password, printed, rules, runs, fails>>

\* Wrong: existing rules are left alone, as by init.
KeepsRules(a) == rules # {}

\* init leaves a policy alone that has rules.
Keeps(a) == rules # {} /\ ~Runs(a, "reset")

\* Ensures the policy's entity and counts its rules, with a column of the
\* last file.
CountRules(a) ==
  /\ At(a, "count") /\ 4 \in applied
  /\ \/ Keeps(a) /\ GoTo(a, "insert", {})
     \/ ~Keeps(a) /\ GoTo(a, IF rules # {} THEN "clear" ELSE "insert", DefaultRules)
  /\ UNCHANGED <<serverSetup, runs, fails>>

ClearRules(a) ==
  /\ At(a, "clear")
  /\ rules' = {}
  /\ GoTo(a, "insert", DefaultRules)
  /\ UNCHANGED <<applied, functions, password, granted, printed, runs, fails>>

InsertRule(a) ==
  /\ At(a, "insert")
  /\ \E i \in admin[a].todo :
       /\ \A j \in admin[a].todo : i <= j
       /\ rules' = rules \cup {[by |-> admin[a].run, rule |-> i]}
       /\ GoTo(a, "insert", admin[a].todo \ {i})
  /\ UNCHANGED <<applied, functions, password, granted, printed, runs, fails>>

Seeded(a) ==
  /\ At(a, "insert") /\ admin[a].todo = {}
  /\ IF Runs(a, "init") THEN GoTo(a, "print", {}) ELSE End(a)
  /\ UNCHANGED <<serverSetup, runs, fails>>

PrintPassword(a) ==
  /\ At(a, "print")
  /\ printed' = printed \cup {admin[a].run}
  /\ End(a)
  /\ UNCHANGED <<applied, functions, password, granted, rules, runs, fails>>

\* The server refuses the statement, whatever the network does.
Refused(a) ==
  \/ At(a, "password") /\ admin[a].exists # (password # 0)
  \/ At(a, "count") /\ 4 \notin applied

\* The command ends with an error, or is killed.
Abort(a) ==
  /\ ~At(a, "idle")
  /\ Fault \/ (Refused(a) /\ UNCHANGED fails)
  /\ End(a)
  /\ UNCHANGED <<serverSetup, runs>>

Administer(a) ==
  \/ ReadApplied(a) \/ ApplyFile(a) \/ Migrated(a)
  \/ CheckRole(a) \/ SetPassword(a) \/ Grant(a)
  \/ CountRules(a) \/ ClearRules(a) \/ InsertRule(a) \/ Seeded(a)
  \/ PrintPassword(a)

AdminNext ==
  \E a \in Administrator :
    (\E cmd \in Command : Begin(a, cmd)) \/ Administer(a) \/ Abort(a)

-----------------------------------------------------------------------------
(* Safety *)

\* The read functions are those of the last file once all are applied and
\* nobody is applying any, although a second administrator who read the
\* applied set early runs old files again after newer ones.  A failure in the
\* middle of that leaves the old functions for good (migrate.go: Migrate).
FunctionsCurrent ==
  /\ 4 \in applied
  /\ fails = 0
  /\ \A a \in Administrator : ~At(a, "apply")
  => functions = 4

\* A reset that nobody disturbs leaves each default rule once, whatever
\* earlier commands left behind half done (setup/main.go: ensurePolicy).
ResetIsExact ==
  \A a \in Administrator :
    At(a, "insert") /\ admin[a].todo = {} /\ Runs(a, "reset") /\ admin[a].alone
      => rules = {[by |-> admin[a].run, rule |-> i] : i \in DefaultRules}

\* What init prints works: the schema is complete and the role may use it,
\* whatever others ran or failed to run; and if nobody else ran anything, the
\* password is the role's and there is a policy (setup/main.go: mustDoInit).
FragmentWorks ==
  \A a \in Administrator :
    At(a, "print") /\ Runs(a, "init") =>
      /\ applied = Files /\ granted /\ functions # 0
      /\ admin[a].alone => password = admin[a].run /\ rules # {}

-----------------------------------------------------------------------------
(* The inductive invariant behind them                                       *)

AppliedIsPrefix == \A f, g \in Files : f <= g /\ g \in applied => f \in applied

\* A migration that runs has its last files still to come and its first applied.
FilesInOrder ==
  \A a \in Administrator : At(a, "apply") =>
    /\ admin[a].todo \subseteq Files
    /\ Files \ admin[a].todo \subseteq applied
    /\ \A f, g \in Files : f <= g /\ f \in admin[a].todo => g \in admin[a].todo

\* Whoever installs old functions will install the last ones.
FunctionsFollow ==
  /\ 2 \in applied => functions # 0
  /\ fails = 0 /\ 4 \in applied =>
       functions = 4 \/ \E a \in Administrator : At(a, "apply") /\ 4 \in admin[a].todo

AloneMeansAlone ==
  \A a \in Administrator : admin[a].alone =>
    \A b \in Administrator \ {a} : At(b, "idle")

ResetInserts ==
  \A a \in Administrator : At(a, "insert") =>
    /\ admin[a].todo \subseteq DefaultRules
    /\ Runs(a, "reset") /\ admin[a].alone =>
         rules = {[by |-> admin[a].run, rule |-> i] : i \in DefaultRules \ admin[a].todo}

InitProceeds ==
  \A a \in Administrator : Runs(a, "init") =>
    /\ ~At(a, "clear")
    /\ admin[a].at \in {"role", "password", "grant", "count", "insert", "print"} => applied = Files
    /\ admin[a].at \in {"count", "insert", "print"} => granted
    /\ admin[a].alone =>
         /\ admin[a].at \in {"grant", "count", "insert", "print"} => password = admin[a].run
         /\ At(a, "insert") => rules # {} \/ admin[a].todo = DefaultRules
         /\ At(a, "print") => rules # {}

AdminInv ==
  /\ AdminTypeOK
  /\ AppliedIsPrefix /\ FilesInOrder /\ FunctionsFollow
  /\ AloneMeansAlone /\ ResetInserts /\ InitProceeds
=============================================================================

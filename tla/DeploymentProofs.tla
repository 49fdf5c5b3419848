-------------------------- MODULE DeploymentProofs --------------------------
(***************************************************************************)
(* The administrator's commands, for any number of administrators, commands *)
(* and failures, next to any device; the types of both; the default policy  *)
(* of the device, for any number of rules; the identity of a project, for   *)
(* any names.                                                               *)
(***************************************************************************)
EXTENDS Deployment, SequenceTheorems, TLAPS

-----------------------------------------------------------------------------
(* The commands                                                             *)

\* What an administrator's own step leaves: where it is and its list change,
\* the command stays; nobody else's changes.
LEMMA GoToChanges ==
  ASSUME AdminTypeOK, NEW a \in Administrator, NEW place, NEW todo, GoTo(a, place, todo)
  PROVE  /\ \A b \in Administrator \ {a} : admin'[b] = admin[b]
         /\ admin'[a].at = place /\ admin'[a].todo = todo
         /\ admin'[a].cmd = admin[a].cmd /\ admin'[a].run = admin[a].run
         /\ admin'[a].alone = admin[a].alone /\ admin'[a].exists = admin[a].exists
BY DEF AdminTypeOK, GoTo, Running

\* So does the end of a command, after which there is none.
LEMMA EndChanges ==
  ASSUME AdminTypeOK, NEW a \in Administrator, End(a)
  PROVE  /\ \A b \in Administrator \ {a} : admin'[b] = admin[b]
         /\ admin'[a] = NoCommand
BY DEF AdminTypeOK, End

\* Moving on to another statement keeps the type of the commands.
LEMMA GoToType ==
  ASSUME AdminTypeOK, NEW a \in Administrator,
         NEW place \in Place, NEW todo \in SUBSET (Files \cup DefaultRules),
         GoTo(a, place, todo)
  PROVE  admin' \in [Administrator -> Running]
<1> DEFINE command == [admin[a] EXCEPT !.at = place, !.todo = todo]
<1>1. admin[a] \in Running
  BY DEF AdminTypeOK
<1>2. command \in Running
  BY <1>1 DEF Running
<1>3. admin' = [admin EXCEPT ![a] = command]
  BY DEF GoTo, AdminTypeOK
<1> QED
  BY <1>2, <1>3 DEF AdminTypeOK

\* The end of a command keeps them too.
LEMMA EndType ==
  ASSUME AdminTypeOK, NEW a \in Administrator, End(a)
  PROVE  admin' \in [Administrator -> Running]
BY DEF AdminTypeOK, End, Running, NoCommand, Place

\* Every statement of a command keeps the types, as long as the lists hold
\* what they should.
LEMMA AdminTypes ==
  ASSUME AdminTypeOK, FilesInOrder, ResetInserts, AdminNext
  PROVE  AdminTypeOK'
<1> USE DEF serverSetup, Place
<1>1. ASSUME NEW a \in Administrator, NEW cmd \in Command, Begin(a, cmd)
      PROVE  AdminTypeOK'
  <2>1. runs + 1 \in Nat /\ cmd \in {"init", "migrate", "rotate", "reset"}
    BY AdminAssumption DEF AdminTypeOK
  <2>2. ASSUME NEW b \in Administrator \ {a}
        PROVE  admin'[b] = [admin[b] EXCEPT !.alone = FALSE] /\ admin'[b] \in Running
    <3>1. admin'[b] = [admin[b] EXCEPT !.alone = FALSE] /\ admin[b] \in Running
      BY <1>1 DEF Begin, AdminTypeOK
    <3> QED
      BY <3>1 DEF Running
  <2>3. admin'[a] \in Running
    BY <1>1, <2>1 DEF Begin, AdminTypeOK, Running, NoCommand, Place
  <2>4. admin' \in [Administrator -> Running]
    BY <1>1, <2>2, <2>3 DEF Begin
  <2> QED
    BY <1>1, <2>1, <2>4 DEF Begin, AdminTypeOK
<1>2. ASSUME NEW a \in Administrator, Abort(a) PROVE AdminTypeOK'
  BY <1>2, EndType DEF Abort, Fault, AdminTypeOK
<1>3. ASSUME NEW a \in Administrator, Administer(a) PROVE AdminTypeOK'
  <2> DEFINE todo == admin[a].todo
  <2>0. todo \in SUBSET (Files \cup DefaultRules) /\ admin[a].run \in Nat
    BY DEF AdminTypeOK, Running
  <2>1. CASE ReadApplied(a)
    <3>1. Files \ applied \in SUBSET (Files \cup DefaultRules)
          /\ Files \in SUBSET (Files \cup DefaultRules)
      OBVIOUS
    <3> QED
      BY <2>1, <3>1, GoToType DEF ReadApplied, Fault, AdminTypeOK
  <2>2. CASE ApplyFile(a)
    <3>1. PICK f \in todo : /\ IsNextFile(a, f) /\ Ready(f) /\ applied' = applied \cup {f}
                            /\ functions' = Installs(f) /\ GoTo(a, "apply", Remaining(a, f))
      BY <2>2 DEF ApplyFile
    <3>2. Remaining(a, f) \in SUBSET (Files \cup DefaultRules)
      BY <2>0 DEF Remaining
    <3>3. f \in Files /\ functions' \in {0, 2, 4}
      BY <2>2, <3>1 DEF ApplyFile, FilesInOrder, Installs, AdminTypeOK
    <3>4. applied' \subseteq Files
      BY <3>1, <3>3 DEF AdminTypeOK
    <3> QED
      BY <2>2, <3>1, <3>2, <3>3, <3>4, GoToType DEF ApplyFile, AdminTypeOK
  <2>3. CASE Migrated(a)
    BY <2>3, GoToType, EndType DEF Migrated, AdminTypeOK
  <2>4. CASE CheckRole(a)
    <3> DEFINE command == [admin[a] EXCEPT !.at = "password", !.exists = (password # 0)]
    <3>1. admin[a] \in Running
      BY DEF AdminTypeOK
    <3>2. command \in Running
      BY <3>1 DEF Running, Place
    <3>3. admin' = [admin EXCEPT ![a] = command]
      BY <2>4 DEF CheckRole, AdminTypeOK
    <3> QED
      BY <2>4, <3>2, <3>3 DEF CheckRole, AdminTypeOK
  <2>5. CASE SetPassword(a)
    BY <2>0, <2>5, GoToType DEF SetPassword, NewPassword, AdminTypeOK
  <2>6. CASE Grant(a)
    BY <2>6, GoToType DEF Grant, AdminTypeOK
  <2>7. CASE CountRules(a)
    BY <2>7, GoToType DEF CountRules, AdminTypeOK
  <2>8. CASE ClearRules(a)
    BY <2>8, GoToType DEF ClearRules, AdminTypeOK
  <2>9. CASE InsertRule(a)
    <3>1. PICK i \in todo : /\ rules' = rules \cup {[by |-> admin[a].run, rule |-> i]}
                            /\ GoTo(a, "insert", todo \ {i})
      BY <2>9 DEF InsertRule
    <3>2. i \in DefaultRules
      BY <2>9, <3>1 DEF InsertRule, ResetInserts
    <3> QED
      BY <2>0, <2>9, <3>1, <3>2, GoToType DEF InsertRule, AdminTypeOK, RuleRow
  <2>10. CASE Seeded(a)
    BY <2>10, GoToType, EndType DEF Seeded, AdminTypeOK
  <2>11. CASE PrintPassword(a)
    BY <2>0, <2>11, EndType DEF PrintPassword, AdminTypeOK
  <2> QED
    BY <1>3, <2>1, <2>2, <2>3, <2>4, <2>5, <2>6, <2>7, <2>8, <2>9, <2>10, <2>11
       DEF Administer
<1> QED
  BY <1>1, <1>2, <1>3 DEF AdminNext

\* A statement of a command is its administrator's only; whether the command
\* is init or another, and whether it ran alone, stays until it ends.
LEMMA OneActs ==
  ASSUME AdminTypeOK, NEW a \in Administrator, Administer(a) \/ Abort(a)
  PROVE  /\ ~At(a, "idle")
         /\ \A b \in Administrator \ {a} : admin'[b] = admin[b]
         /\ \/ admin'[a] = NoCommand
            \/ /\ admin'[a].cmd = admin[a].cmd /\ admin'[a].run = admin[a].run
               /\ admin'[a].alone = admin[a].alone
<1>1. CASE Abort(a)
  BY <1>1, EndChanges DEF Abort
<1>2. CASE CheckRole(a)
  <2>1. /\ \A b \in Administrator \ {a} : admin'[b] = admin[b]
        /\ admin'[a].cmd = admin[a].cmd /\ admin'[a].run = admin[a].run
        /\ admin'[a].alone = admin[a].alone
    BY <1>2 DEF CheckRole, AdminTypeOK, Running
  <2> QED
    BY <1>2, <2>1 DEF CheckRole, At
<1>3. CASE ReadApplied(a) \/ ApplyFile(a) \/ SetPassword(a) \/ Grant(a) \/ CountRules(a)
             \/ ClearRules(a) \/ InsertRule(a)
  <2>1. \E place, todo : GoTo(a, place, todo)
    BY <1>3 DEF ReadApplied, ApplyFile, SetPassword, Grant, CountRules, ClearRules, InsertRule
  <2>2. ~At(a, "idle")
    BY <1>3 DEF ReadApplied, ApplyFile, SetPassword, Grant, CountRules, ClearRules, InsertRule, At
  <2> QED
    BY <2>1, <2>2, GoToChanges
<1>4. CASE Migrated(a) \/ Seeded(a) \/ PrintPassword(a)
  <2>1. End(a) \/ \E place, todo : GoTo(a, place, todo)
    BY <1>4 DEF Migrated, Seeded, PrintPassword
  <2>2. ~At(a, "idle")
    BY <1>4 DEF Migrated, Seeded, PrintPassword, At
  <2> QED
    BY <2>1, <2>2, GoToChanges, EndChanges
<1> QED
  BY <1>1, <1>2, <1>3, <1>4 DEF Administer

\* Who begins is the only one to move; nobody else is alone any more.
LEMMA BeginChanges ==
  ASSUME AdminTypeOK, NEW a \in Administrator, NEW cmd \in Command, Begin(a, cmd)
  PROVE  /\ At(a, "idle")
         /\ \A b \in Administrator \ {a} :
              /\ admin'[b].at = admin[b].at /\ admin'[b].todo = admin[b].todo
              /\ admin'[b].cmd = admin[b].cmd /\ admin'[b].run = admin[b].run
              /\ admin'[b].alone = FALSE
         /\ admin'[a].at \in {"table", "password", "count"}
         /\ cmd = "init" => admin'[a].at = "table"
         /\ admin'[a].cmd = cmd
         /\ admin'[a].alone = (\A c \in Administrator \ {a} : At(c, "idle"))
         /\ UNCHANGED <<applied, functions, password, granted, printed, rules, fails>>
<1>1. cmd \in {"init", "migrate", "rotate", "reset"}
  BY AdminAssumption
<1>2. ASSUME NEW b \in Administrator \ {a}
      PROVE  /\ admin'[b].at = admin[b].at /\ admin'[b].todo = admin[b].todo
             /\ admin'[b].cmd = admin[b].cmd /\ admin'[b].run = admin[b].run
             /\ admin'[b].alone = FALSE
  BY DEF Begin, AdminTypeOK, Running
<1>3. admin'[a] = [NoCommand EXCEPT
               !.cmd = cmd, !.run = runs + 1,
               !.alone = \A c \in Administrator \ {a} : At(c, "idle"),
               !.at = CASE cmd \in {"init", "migrate"} -> "table"
                        [] cmd = "rotate"              -> "password"
                        [] cmd = "reset"               -> "count",
               !.exists = (cmd = "rotate")]
  BY DEF Begin
<1>4. /\ admin'[a].at \in {"table", "password", "count"}
      /\ cmd = "init" => admin'[a].at = "table"
      /\ admin'[a].cmd = cmd
      /\ admin'[a].alone = (\A c \in Administrator \ {a} : At(c, "idle"))
  BY <1>1, <1>3 DEF NoCommand
<1> QED
  BY <1>2, <1>4 DEF Begin, serverSetup

\* The same, for one of the others and for who begins.
LEMMA BeginKeepsOthers ==
  ASSUME AdminTypeOK, NEW a \in Administrator, NEW cmd \in Command, Begin(a, cmd),
         NEW b \in Administrator, b # a
  PROVE  /\ admin'[b].at = admin[b].at /\ admin'[b].todo = admin[b].todo
         /\ admin'[b].cmd = admin[b].cmd /\ admin'[b].run = admin[b].run
         /\ admin'[b].alone = FALSE
<1>1. b \in Administrator \ {a}
  OBVIOUS
<1> QED
  BY <1>1, BeginChanges, Zenon

LEMMA BeginStarts ==
  ASSUME AdminTypeOK, NEW a \in Administrator, NEW cmd \in Command, Begin(a, cmd)
  PROVE  /\ admin[a].at = "idle"
         /\ admin'[a].at \in {"table", "password", "count"}
         /\ admin'[a].cmd = "init" => admin'[a].at = "table"
         /\ applied' = applied /\ functions' = functions /\ granted' = granted
         /\ rules' = rules /\ fails' = fails
<1>1. /\ At(a, "idle") /\ admin'[a].at \in {"table", "password", "count"}
      /\ cmd = "init" => admin'[a].at = "table"
      /\ admin'[a].cmd = cmd
      /\ UNCHANGED <<applied, functions, password, granted, printed, rules, fails>>
  BY BeginChanges, Zenon
<1> QED
  BY <1>1 DEF At

\* While a command runs that is alone, nobody else's does: a second one ends
\* its being alone for good.
LEMMA AloneKept ==
  ASSUME AdminTypeOK, AloneMeansAlone, AdminNext
  PROVE  AloneMeansAlone'
<1>1. ASSUME NEW a \in Administrator, NEW cmd \in Command, Begin(a, cmd)
      PROVE  AloneMeansAlone'
  <2>1. ASSUME NEW c \in Administrator, admin'[c].alone, NEW b \in Administrator \ {c}
        PROVE  At(b, "idle")'
    <3>1. c = a
      BY <1>1, <2>1, BeginKeepsOthers
    <3>2. At(b, "idle")
      <4>1. admin'[a].alone = (\A d \in Administrator \ {a} : At(d, "idle"))
        BY <1>1, BeginChanges, Zenon
      <4> QED
        BY <2>1, <3>1, <4>1, Zenon
    <3>3. admin'[b].at = admin[b].at
      BY <1>1, <2>1, <3>1, BeginKeepsOthers
    <3> QED
      BY <3>2, <3>3 DEF At
  <2> QED
    BY <2>1 DEF AloneMeansAlone
<1>2. ASSUME NEW a \in Administrator, Administer(a) \/ Abort(a)
      PROVE  AloneMeansAlone'
  <2>1. ~(NoCommand.alone)
    BY DEF NoCommand
  <2> QED
    BY <1>2, <2>1, OneActs DEF AloneMeansAlone, At
<1> QED
  BY <1>1, <1>2 DEF AdminNext

\* Files are recorded in order: whoever records one has seen the earlier ones
\* recorded or records them before.
LEMMA PrefixKept ==
  ASSUME AdminTypeOK, FilesInOrder, AppliedIsPrefix, AdminNext
  PROVE  AppliedIsPrefix' /\ applied \subseteq applied'
<1>1. CASE \E a \in Administrator : ApplyFile(a)
  <2>1. PICK a \in Administrator : ApplyFile(a)
    BY <1>1
  <2>2. PICK f \in admin[a].todo : IsNextFile(a, f) /\ Ready(f) /\ applied' = applied \cup {f}
    BY <2>1 DEF ApplyFile
  <2>3. f \in Files /\ \A g \in Files : g < f => g \in applied
    BY <2>1, <2>2 DEF ApplyFile, FilesInOrder, IsNextFile, Files
  <2> QED
    BY <2>2, <2>3 DEF AppliedIsPrefix, Files
<1>2. CASE UNCHANGED applied
  BY <1>2 DEF AppliedIsPrefix
<1> QED
  BY <1>1, <1>2 DEF AdminNext, Begin, Administer, Abort, ReadApplied, Migrated, CheckRole,
     SetPassword, Grant, CountRules, ClearRules, InsertRule, Seeded, PrintPassword, serverSetup

\* A list of files still to apply has the last ones, and what it lacks is
\* recorded.
LEMMA ListsKept ==
  ASSUME AdminTypeOK, FilesInOrder, AppliedIsPrefix, AdminNext
  PROVE  FilesInOrder'
<1> DEFINE Orderly(todo, done) ==
      /\ todo \subseteq Files /\ Files \ todo \subseteq done
      /\ \A f, g \in Files : f <= g /\ f \in todo => g \in todo
<1>0. applied \subseteq applied'
  BY PrefixKept
<1>1. ASSUME NEW a \in Administrator, NEW cmd \in Command, Begin(a, cmd)
      PROVE  FilesInOrder'
  <2>1. ASSUME NEW b \in Administrator, admin'[b].at = "apply"
        PROVE  admin[b].at = "apply" /\ admin'[b].todo = admin[b].todo
    BY <1>1, <2>1, BeginChanges
  <2> QED
    BY <1>0, <2>1 DEF FilesInOrder, At
<1>2. ASSUME NEW a \in Administrator, Administer(a) \/ Abort(a)
      PROVE  FilesInOrder'
  <2>1. ASSUME NEW b \in Administrator \ {a}, admin'[b].at = "apply"
        PROVE  Orderly(admin'[b].todo, applied')
    BY <1>0, <1>2, <2>1, OneActs DEF FilesInOrder, At
  <2>2. ASSUME admin'[a].at = "apply"
        PROVE  Orderly(admin'[a].todo, applied')
    <3>1. CASE ReadApplied(a)
      <4>1. admin'[a].todo \in {Files, Files \ applied} /\ applied' = applied
        BY <3>1, GoToChanges DEF ReadApplied, serverSetup
      <4> QED
        BY <4>1 DEF AppliedIsPrefix, AdminTypeOK
    <3>2. CASE ApplyFile(a)
      <4>1. PICK f \in admin[a].todo :
              IsNextFile(a, f) /\ applied' = applied \cup {f} /\ GoTo(a, "apply", Remaining(a, f))
        BY <3>2 DEF ApplyFile
      <4>2. admin'[a].todo = admin[a].todo \ {f} /\ Orderly(admin[a].todo, applied)
        BY <3>2, <4>1, GoToChanges DEF ApplyFile, Remaining, FilesInOrder
      <4> QED
        BY <4>1, <4>2 DEF IsNextFile, Files
    <3>3. CASE CheckRole(a)
      BY <2>2, <3>3 DEF CheckRole, AdminTypeOK, Running
    <3>4. ASSUME NEW place, NEW todo, GoTo(a, place, todo), place # "apply" PROVE FALSE
      BY <2>2, <3>4, GoToChanges
    <3>5. ASSUME End(a) PROVE FALSE
      BY <2>2, <3>5, EndChanges DEF NoCommand
    <3> QED
      BY <1>2, <3>1, <3>2, <3>3, <3>4, <3>5 DEF Administer, Abort, Migrated, SetPassword,
         Grant, CountRules, ClearRules, InsertRule, Seeded, PrintPassword
  <2> QED
    BY <2>1, <2>2 DEF FilesInOrder, At
<1> QED
  BY <1>1, <1>2 DEF AdminNext

\* As long as nothing has failed, whoever installs the functions of an old file
\* goes on to those of the last.
LEMMA FunctionsFollowKept ==
  ASSUME AdminTypeOK, FilesInOrder, FunctionsFollow, AdminNext
  PROVE  FunctionsFollow'
<1> DEFINE Coming(b) == admin[b].at = "apply" /\ 4 \in admin[b].todo
<1>1. ASSUME UNCHANGED <<applied, functions>>, fails \in Nat, fails' \in Nat,
             fails' = 0 => fails = 0,
             fails = 0 /\ fails' = 0 => \A b \in Administrator : Coming(b) => Coming(b)'
      PROVE  FunctionsFollow'
  BY <1>1 DEF FunctionsFollow, At
<1>2. ASSUME NEW a \in Administrator, NEW cmd \in Command, Begin(a, cmd)
      PROVE  FunctionsFollow'
  <2>1. ASSUME NEW b \in Administrator, Coming(b)
        PROVE  Coming(b)'
    <3>1. b # a
      BY <1>2, <2>1, BeginStarts
    <3>2. admin'[b].at = admin[b].at /\ admin'[b].todo = admin[b].todo
      BY <1>2, <3>1, BeginKeepsOthers
    <3> QED
      BY <2>1, <3>2
  <2>2. applied' = applied /\ functions' = functions /\ fails' = fails
    BY <1>2, BeginStarts
  <2>3. fails \in Nat /\ fails' \in Nat
    BY <2>2 DEF AdminTypeOK
  <2> HIDE DEF Coming
  <2> QED
    BY <1>1, <2>1, <2>2, <2>3
<1>3. ASSUME NEW a \in Administrator, Administer(a) \/ Abort(a)
      PROVE  FunctionsFollow'
  <2>1. CASE ApplyFile(a)
    <3>1. PICK f \in admin[a].todo :
            /\ IsNextFile(a, f) /\ applied' = applied \cup {f} /\ functions' = Installs(f)
            /\ GoTo(a, "apply", Remaining(a, f)) /\ fails' = fails
      BY <2>1 DEF ApplyFile
    <3>2. /\ f \in Files /\ admin[a].todo \subseteq Files
          /\ 4 \in admin[a].todo
          /\ admin'[a].at = "apply" /\ admin'[a].todo = admin[a].todo \ {f}
          /\ \A b \in Administrator \ {a} : admin'[b] = admin[b]
      BY <2>1, <3>1, GoToChanges DEF ApplyFile, FilesInOrder, Remaining, Files
    <3>3. 2 \in applied' => functions' # 0
      BY <3>1 DEF FunctionsFollow, Installs
    <3>4. CASE f = 4
      BY <3>1, <3>3, <3>4 DEF FunctionsFollow, Installs
    <3>5. CASE f # 4
      BY <3>2, <3>3, <3>5 DEF FunctionsFollow, At
    <3> QED
      BY <3>4, <3>5
  <2>2. CASE Abort(a)
    <3>1. fails' = fails + 1 \/ (fails' = fails /\ admin[a].at # "apply")
      BY <2>2 DEF Abort, Fault, Refused, At
    <3> QED
      BY <1>1, <2>2, <3>1, EndChanges DEF Abort, serverSetup, AdminTypeOK
  <2>3. CASE Migrated(a)
    <3>1. ~Coming(a)
      BY <2>3 DEF Migrated
    <3> QED
      BY <1>1, <1>3, <2>3, <3>1, OneActs DEF Migrated, serverSetup, AdminTypeOK
  <2>4. CASE ReadApplied(a)
    <3>1. ~Coming(a) /\ fails' \in Nat /\ (fails' = 0 => fails = 0)
      BY <2>4 DEF ReadApplied, Fault, At, AdminTypeOK
    <3> QED
      BY <1>1, <1>3, <2>4, <3>1, OneActs DEF ReadApplied, serverSetup, AdminTypeOK
  <2>5. CASE \/ CheckRole(a) \/ SetPassword(a) \/ Grant(a) \/ CountRules(a) \/ ClearRules(a)
             \/ InsertRule(a) \/ Seeded(a) \/ PrintPassword(a)
    <3>1. ~Coming(a) /\ UNCHANGED <<applied, functions, fails>>
      BY <2>5 DEF CheckRole, SetPassword, Grant, CountRules, ClearRules, InsertRule, Seeded,
         PrintPassword, At, serverSetup
    <3> QED
      BY <1>1, <1>3, <3>1, OneActs DEF AdminTypeOK
  <2> QED
    BY <1>3, <2>1, <2>2, <2>3, <2>4, <2>5 DEF Administer
<1> QED
  BY <1>2, <1>3 DEF AdminNext

\* A reset that runs alone has inserted exactly the rules it has dealt with.
LEMMA ResetKept ==
  ASSUME AdminTypeOK, AloneMeansAlone, ResetInserts, AdminNext
  PROVE  ResetInserts'
<1> DEFINE Inserted(run, todo) == {[by |-> run, rule |-> i] : i \in DefaultRules \ todo}
<1>1. ASSUME NEW a \in Administrator, NEW cmd \in Command, Begin(a, cmd)
      PROVE  ResetInserts'
  <2>1. ASSUME NEW b \in Administrator, admin'[b].at = "insert"
        PROVE  /\ admin'[b].todo \subseteq DefaultRules
               /\ ~admin'[b].alone
    <3>1. b # a
      BY <1>1, <2>1, BeginStarts
    <3>2. /\ admin'[b].at = admin[b].at /\ admin'[b].todo = admin[b].todo
          /\ admin'[b].alone = FALSE
      BY <1>1, <3>1, BeginKeepsOthers
    <3> QED
      BY <2>1, <3>2 DEF ResetInserts, At
  <2> QED
    BY <2>1 DEF ResetInserts, At, Runs
<1>2. ASSUME NEW a \in Administrator, Administer(a) \/ Abort(a)
      PROVE  ResetInserts'
  <2>1. ASSUME NEW b \in Administrator \ {a}, admin'[b].at = "insert"
        PROVE  /\ admin'[b].todo \subseteq DefaultRules
               /\ ~admin'[b].alone
    <3>1. admin'[b] = admin[b] /\ ~At(a, "idle")
      BY <1>2, OneActs
    <3> QED
      BY <2>1, <3>1 DEF ResetInserts, AloneMeansAlone, At
  <2>2. ASSUME admin'[a].at = "insert"
        PROVE  /\ admin'[a].todo \subseteq DefaultRules
               /\ admin'[a].cmd = "reset" /\ admin'[a].alone
                    => rules' = Inserted(admin'[a].run, admin'[a].todo)
    <3>1. CASE CountRules(a)
      BY <3>1, <2>2, GoToChanges DEF CountRules, Keeps, Runs, serverSetup
    <3>2. CASE ClearRules(a)
      BY <3>2, GoToChanges DEF ClearRules
    <3>3. CASE InsertRule(a)
      <4>1. PICK i \in admin[a].todo : /\ rules' = rules \cup {[by |-> admin[a].run, rule |-> i]}
                                       /\ GoTo(a, "insert", admin[a].todo \ {i})
        BY <3>3 DEF InsertRule
      <4>2. /\ admin'[a].todo = admin[a].todo \ {i} /\ admin'[a].run = admin[a].run
            /\ admin'[a].cmd = admin[a].cmd /\ admin'[a].alone = admin[a].alone
        BY <4>1, GoToChanges
      <4>3. /\ admin[a].todo \subseteq DefaultRules
            /\ admin[a].cmd = "reset" /\ admin[a].alone
                 => rules = Inserted(admin[a].run, admin[a].todo)
        BY <3>3 DEF InsertRule, ResetInserts, Runs
      <4>4. DefaultRules \ (admin[a].todo \ {i}) = (DefaultRules \ admin[a].todo) \cup {i}
        BY <4>1, <4>3
      <4> QED
        BY <4>1, <4>2, <4>3, <4>4
    <3>4. CASE CheckRole(a)
      BY <2>2, <3>4 DEF CheckRole, AdminTypeOK, Running
    <3>5. ASSUME NEW place, NEW todo, GoTo(a, place, todo), place # "insert" PROVE FALSE
      BY <2>2, <3>5, GoToChanges
    <3>6. ASSUME End(a) PROVE FALSE
      BY <2>2, <3>6, EndChanges DEF NoCommand
    <3> QED
      BY <1>2, <3>1, <3>2, <3>3, <3>4, <3>5, <3>6 DEF Administer, Abort, ReadApplied, ApplyFile,
         Migrated, SetPassword, Grant, Seeded, PrintPassword
  <2> QED
    BY <2>1, <2>2 DEF ResetInserts, At, Runs
<1> QED
  BY <1>1, <1>2 DEF AdminNext

\* What init has done stays done, and the next statement of it finds what it
\* needs.
LEMMA InitKept ==
  ASSUME AdminInv, AdminNext
  PROVE  InitProceeds'
<1> DEFINE Done(b) ==
      /\ admin[b].at # "clear"
      /\ admin[b].at \in {"role", "password", "grant", "count", "insert", "print"}
           => applied = Files
      /\ admin[b].at \in {"count", "insert", "print"} => granted
    Own(b) ==
      /\ admin[b].at \in {"grant", "count", "insert", "print"} => password = admin[b].run
      /\ admin[b].at = "insert" => rules # {} \/ admin[b].todo = DefaultRules
      /\ admin[b].at = "print" => rules # {}
<1> USE DEF AdminInv
<1>0. /\ applied = Files => applied' = Files
      /\ AdminTypeOK' /\ applied \subseteq applied' /\ applied' \subseteq Files
  <2>1. AdminTypeOK' /\ applied \subseteq applied'
    BY AdminTypes, PrefixKept
  <2> QED
    BY <2>1 DEF AdminTypeOK
<1>1. ASSUME NEW a \in Administrator, NEW cmd \in Command, Begin(a, cmd)
      PROVE  InitProceeds'
  <2>1. ASSUME NEW b \in Administrator, b # a, admin'[b].cmd = "init"
        PROVE  Done(b)' /\ ~admin'[b].alone
    <3>1. /\ admin'[b].at = admin[b].at /\ admin'[b].cmd = admin[b].cmd
          /\ ~admin'[b].alone
          /\ applied' = applied /\ granted' = granted
      BY <1>1, <2>1, BeginKeepsOthers, BeginStarts
    <3>2. Done(b)
      BY <2>1, <3>1 DEF InitProceeds, At, Runs
    <3> QED
      BY <3>1, <3>2
  <2>2. ASSUME admin'[a].cmd = "init"
        PROVE  admin'[a].at = "table"
    BY <1>1, <2>2, BeginStarts
  <2> QED
    BY <2>1, <2>2 DEF InitProceeds, At, Runs
<1>2. ASSUME NEW a \in Administrator, Administer(a) \/ Abort(a)
      PROVE  InitProceeds'
  <2>1. granted => granted'
    BY <1>2 DEF Administer, Abort, ReadApplied, ApplyFile, Migrated, CheckRole, SetPassword, Grant,
       CountRules, ClearRules, InsertRule, Seeded, PrintPassword, serverSetup
  <2>2. ASSUME NEW b \in Administrator \ {a}, admin'[b].cmd = "init"
        PROVE  Done(b)' /\ ~admin'[b].alone
    <3>1. admin'[b] = admin[b] /\ ~At(a, "idle")
      BY <1>2, OneActs
    <3>2. ~admin[b].alone
      BY <3>1 DEF AloneMeansAlone
    <3> QED
      BY <1>0, <2>1, <2>2, <3>1, <3>2 DEF InitProceeds, At, Runs
  <2>3. ASSUME admin'[a].cmd = "init"
        PROVE  Done(a)' /\ (admin'[a].alone => Own(a)')
    <3>1. /\ admin[a].cmd = "init" /\ Done(a) /\ (admin[a].alone => Own(a))
          /\ admin'[a].run = admin[a].run /\ admin'[a].alone = admin[a].alone
      BY <1>2, <2>3, OneActs DEF InitProceeds, At, Runs, NoCommand
    <3>2. ASSUME End(a) PROVE FALSE
      BY <2>3, <3>2, EndChanges DEF NoCommand
    <3>3. CASE ReadApplied(a)
      BY <3>3, GoToChanges DEF ReadApplied
    <3>4. CASE ApplyFile(a)
      BY <3>4, GoToChanges DEF ApplyFile
    <3>5. CASE Migrated(a)
      <4>1. applied = Files
        BY <3>5 DEF Migrated, FilesInOrder, AdminTypeOK
      <4>2. admin'[a].at = "role"
        BY <3>2, <3>5, GoToChanges DEF Migrated
      <4> QED
        BY <1>0, <4>1, <4>2
    <3>6. CASE CheckRole(a)
      <4>1. admin'[a].at = "password"
        BY <3>6 DEF CheckRole, AdminTypeOK, Running
      <4> QED
        BY <1>0, <3>1, <3>6, <4>1 DEF CheckRole, At
    <3>7. CASE SetPassword(a)
      <4>1. admin'[a].at = "grant" /\ password' = admin[a].run /\ applied' = Files
        BY <1>0, <3>1, <3>7, GoToChanges DEF SetPassword, NewPassword, Runs, At
      <4> QED
        BY <3>1, <4>1
    <3>8. CASE Grant(a)
      BY <1>0, <3>1, <3>8, GoToChanges DEF Grant, At
    <3>9. CASE CountRules(a)
      <4>1. /\ admin'[a].at = "insert"
            /\ rules # {} \/ admin'[a].todo = DefaultRules
            /\ UNCHANGED <<rules, password, granted>>
        BY <3>1, <3>9, GoToChanges DEF CountRules, Keeps, Runs, serverSetup
      <4> QED
        BY <1>0, <3>1, <3>9, <4>1 DEF CountRules, At
    <3>10. CASE ClearRules(a)
      BY <3>1, <3>10 DEF ClearRules, At
    <3>11. CASE InsertRule(a)
      <4>1. admin'[a].at = "insert" /\ rules' # {} /\ UNCHANGED <<password, granted>>
        <5>1. PICK i \in admin[a].todo :
                /\ rules' = rules \cup {[by |-> admin[a].run, rule |-> i]}
                /\ GoTo(a, "insert", admin[a].todo \ {i})
          BY <3>11 DEF InsertRule
        <5>2. [by |-> admin[a].run, rule |-> i] \in rules'
          BY <5>1
        <5> QED
          BY <3>11, <5>1, <5>2, GoToChanges DEF InsertRule
      <4> QED
        BY <1>0, <3>1, <3>11, <4>1 DEF InsertRule, At
    <3>12. CASE Seeded(a)
      <4>1. /\ admin'[a].at = "print" /\ admin[a].todo = {}
            /\ UNCHANGED <<rules, password, granted>>
        BY <3>2, <3>12, GoToChanges DEF Seeded, serverSetup
      <4>2. 1 \in DefaultRules
        BY AdminAssumption DEF DefaultRules
      <4> QED
        BY <1>0, <3>1, <3>12, <4>1, <4>2 DEF Seeded, At
    <3> QED
      BY <1>2, <3>2, <3>3, <3>4, <3>5, <3>6, <3>7, <3>8, <3>9, <3>10, <3>11, <3>12
         DEF Administer, Abort, PrintPassword
  <2> QED
    BY <2>2, <2>3 DEF InitProceeds, At, Runs
<1> QED
  BY <1>1, <1>2 DEF AdminNext

\* Commands, and devices next to them, keep the invariant (setup/main.go;
\* migrate.go).
THEOREM AdministrationCorrect == Spec => []AdminInv
<1>1. Init => AdminInv
  <2> SUFFICES ASSUME AdminInit PROVE AdminInv
    BY DEF Init
  <2>1. NoCommand \in Running /\ NoCommand.at = "idle" /\ NoCommand.cmd = "none"
        /\ NoCommand.alone = FALSE
    BY DEF NoCommand, Running, Place
  <2>2. AdminTypeOK
    BY <2>1 DEF AdminInit, AdminTypeOK
  <2>3. AppliedIsPrefix /\ FunctionsFollow
    BY DEF AdminInit, AppliedIsPrefix, FunctionsFollow
  <2>4. \A a \in Administrator :
          admin[a].at = "idle" /\ admin[a].cmd = "none" /\ admin[a].alone = FALSE
    BY <2>1 DEF AdminInit
  <2>5. FilesInOrder /\ AloneMeansAlone /\ ResetInserts /\ InitProceeds
    BY <2>4 DEF FilesInOrder, AloneMeansAlone, ResetInserts, InitProceeds, At, Runs
  <2> QED
    BY <2>2, <2>3, <2>5 DEF AdminInv
<1>2. AdminInv /\ [Next]_vars => AdminInv'
  <2> SUFFICES ASSUME AdminInv, [Next]_vars
               PROVE  AdminInv'
    OBVIOUS
  <2>1. CASE AdminNext
    BY <2>1, AdminTypes, PrefixKept, ListsKept, FunctionsFollowKept, AloneKept, ResetKept,
       InitKept DEF AdminInv
  <2>2. ASSUME UNCHANGED <<serverSetup, admin, runs>>, fails' \in Nat, fails' = 0 => fails = 0
        PROVE  AdminInv'
    BY <2>2 DEF AdminInv, serverSetup, AdminTypeOK, AppliedIsPrefix,
     FilesInOrder, FunctionsFollow, AloneMeansAlone, ResetInserts, InitProceeds, At, Runs
  <2>3. CASE Device /\ UNCHANGED <<serverSetup, admin, runs>>
    <3>1. fails' = fails \/ fails' = fails + 1
      BY <2>3 DEF Device, LocalFails, Fault
    <3> QED
      BY <2>2, <2>3, <3>1 DEF AdminInv, AdminTypeOK
  <2>4. CASE UNCHANGED vars
    BY <2>2, <2>4 DEF vars, adminVars, AdminInv, AdminTypeOK
  <2> QED
    BY <2>1, <2>3, <2>4 DEF Next
<1> QED
  BY <1>1, <1>2, PTL DEF Spec

\* Without failures, the functions of the last file are the installed ones
\* whenever nobody migrates (migrate.go: Migrate).
THEOREM FunctionsStayCurrent == Spec => []FunctionsCurrent
<1>1. AdminInv => FunctionsCurrent
  BY DEF AdminInv, FunctionsFollow, FunctionsCurrent
<1> QED
  BY <1>1, AdministrationCorrect, PTL

\* A reset that nobody disturbs leaves each default rule once (setup/main.go:
\* ensurePolicy).
THEOREM ResetsAreExact == Spec => []ResetIsExact
<1>1. AdminInv => ResetIsExact
  BY DEF AdminInv, ResetInserts, ResetIsExact
<1> QED
  BY <1>1, AdministrationCorrect, PTL

\* What init prints is a way into a database that is complete (setup/main.go:
\* mustDoInit).
THEOREM FragmentsWork == Spec => []FragmentWorks
<1>1. AdminInv => FragmentWorks
  BY DEF AdminInv, InitProceeds, FunctionsFollow, FragmentWorks, At, Runs, Files
<1> QED
  BY <1>1, AdministrationCorrect, PTL

-----------------------------------------------------------------------------
(* Type correctness                                                         *)

\* The type of the device, by the groups of variables that its steps leave alone.
ConfigType == config \in {"missing", "template", "local", "remote"} /\ key \in Nat

ProcessType ==
  /\ proc \in {"down", "config", "project", "pull", "own", "defaults", "mirror", "query",
               "stream", "serve"}
  /\ using \in Nat /\ stream \subseteq RuleRow /\ got \in BOOLEAN
  /\ shown \in {"none", "project", "defaults"}

LinkType == linked \in BOOLEAN

CacheType == own \in BOOLEAN /\ owed \in BOOLEAN /\ mirror \in BOOLEAN /\ cached \subseteq RuleRow

ServerType == projectRow \in BOOLEAN /\ serverOwn \in BOOLEAN

SpoiledType == spoiled \in BOOLEAN

DeviceType ==
  ConfigType /\ ProcessType /\ LinkType /\ CacheType /\ ServerType /\ SpoiledType

\* Together they are the type of the device.
LEMMA TypeParts == (StartupTypeOK => DeviceType) /\ (DeviceType' => StartupTypeOK')
<1>1. ASSUME StartupTypeOK PROVE DeviceType
  <2>1. ConfigType /\ LinkType /\ ServerType /\ SpoiledType
    BY <1>1 DEF StartupTypeOK, ConfigType, LinkType, ServerType, SpoiledType
  <2>2. ProcessType
    BY <1>1 DEF StartupTypeOK, ProcessType
  <2>3. CacheType
    BY <1>1 DEF StartupTypeOK, CacheType
  <2> QED
    BY <2>1, <2>2, <2>3 DEF DeviceType
<1>2. ASSUME DeviceType' PROVE StartupTypeOK'
  BY <1>2, Zenon DEF DeviceType, ConfigType, ProcessType, LinkType, CacheType, ServerType,
     SpoiledType, StartupTypeOK
<1> QED
  BY <1>1, <1>2

\* What is left alone keeps its type.
LEMMA PartsKept ==
  ASSUME DeviceType
  PROVE  /\ UNCHANGED configVars => ConfigType'
         /\ UNCHANGED processVars => ProcessType'
         /\ UNCHANGED linked => LinkType'
         /\ UNCHANGED cacheFile => CacheType'
         /\ UNCHANGED serverData => ServerType'
         /\ UNCHANGED spoiled => SpoiledType'
<1> USE DEF DeviceType
<1>1. UNCHANGED configVars => ConfigType'
  BY DEF configVars, ConfigType
<1>2. UNCHANGED processVars => ProcessType'
  BY DEF processVars, ProcessType
<1>3. UNCHANGED cacheFile => CacheType'
  BY DEF cacheFile, CacheType
<1>4. UNCHANGED serverData => ServerType'
  BY DEF serverData, ServerType
<1> QED
  BY <1>1, <1>2, <1>3, <1>4 DEF LinkType, SpoiledType

\* A session that begins to serve shows one of three things.
LEMMA ServeType ==
  ASSUME ProcessType, UNCHANGED using,
         NEW source \in {"none", "project", "defaults"}, Serve(source)
  PROVE  ProcessType'
BY DEF ProcessType, Serve

\* What a device shows and copies are rules of the server, and what it connects
\* with was printed.
LEMMA DeviceTypes ==
  ASSUME AdminTypeOK, StartupTypeOK, Device
  PROVE  StartupTypeOK'
<1>1. DeviceType
  BY TypeParts
<1>2. /\ ConfigType /\ ProcessType /\ LinkType /\ CacheType /\ ServerType /\ SpoiledType
      /\ using \in Nat /\ key \in Nat
  BY <1>1 DEF DeviceType, ProcessType, ConfigType
<1>3. printed \subseteq Nat /\ rules \subseteq RuleRow
  BY DEF AdminTypeOK
<1> DEFINE NextParts == ConfigType' /\ ProcessType' /\ LinkType' /\ CacheType' /\ ServerType'
<1>4. CASE LocalFails
  <2>1. spoiled' = TRUE /\ UNCHANGED <<configVars, using, linked, cacheFile, serverData>>
    BY <1>4 DEF LocalFails
  <2>2. ProcessType'
    <3>1. CASE Serve("none")
      BY <1>2, <2>1, <3>1, ServeType
    <3>2. CASE proc' \in {"defaults", "mirror"} /\ UNCHANGED <<stream, got, shown>>
      BY <1>2, <2>1, <3>2 DEF ProcessType
    <3>3. CASE (\E x \in stream : stream' = stream \ {x}) /\ got' = TRUE /\ UNCHANGED <<proc, shown>>
      BY <1>2, <2>1, <3>3 DEF ProcessType
    <3> QED
      BY <1>4, <3>1, <3>2, <3>3 DEF LocalFails
  <2>3. SpoiledType'
    BY <2>1 DEF SpoiledType
  <2> QED
    BY <1>1, <2>1, <2>2, <2>3, PartsKept, TypeParts DEF DeviceType
<1>5. CASE ~LocalFails
  <2>1. UNCHANGED spoiled
    BY <1>5, Zenon DEF Device
  <2>2. SpoiledType'
    BY <1>1, <2>1, PartsKept
  <2> SUFFICES NextParts
    BY <2>2, TypeParts DEF DeviceType
  <2>3. CASE Start
    <3>1. /\ proc' = "config"
          /\ UNCHANGED <<configVars, using, stream, got, shown, linked, cacheFile, serverData>>
      BY <2>3, Zenon DEF Start
    <3>2. ProcessType'
      BY <1>2, <3>1 DEF ProcessType
    <3> QED
      BY <1>1, <3>1, <3>2, PartsKept, Zenon
  <2>4. CASE LoadConfig
    <3>1. proc' \in {"project", "own", "down"}
      BY <2>4, Zenon DEF LoadConfig
    <3>2. /\ config' \in {"template", config} /\ using' = key
          /\ UNCHANGED <<key, stream, got, shown, linked, cacheFile, serverData>>
      BY <2>4, Zenon DEF LoadConfig
    <3>3. ProcessType'
      BY <1>2, <3>1, <3>2 DEF ProcessType
    <3>4. ConfigType'
      BY <1>2, <3>2 DEF ConfigType
    <3> QED
      BY <1>1, <3>2, <3>3, <3>4, PartsKept, Zenon
  <2>5. CASE EnsureProject
    <3>1. /\ proc' = "pull" /\ linked' \in BOOLEAN /\ projectRow' \in {projectRow, TRUE}
          /\ UNCHANGED <<configVars, using, stream, got, shown, cacheFile, serverOwn>>
      BY <2>5, Zenon DEF EnsureProject
    <3>2. ProcessType'
      BY <1>2, <3>1 DEF ProcessType
    <3>3. LinkType' /\ ServerType'
      BY <1>2, <3>1 DEF LinkType, ServerType
    <3> QED
      BY <1>1, <3>1, <3>2, <3>3, PartsKept, Zenon
  <2>6. CASE BootstrapPull
    <3>1. /\ proc' = "own" /\ linked' \in BOOLEAN /\ own' \in {own, serverOwn}
          /\ UNCHANGED <<configVars, using, stream, got, shown, owed, mirror, cached, serverData>>
      BY <2>6, Zenon DEF BootstrapPull, Pulled
    <3>2. ProcessType'
      BY <1>2, <3>1 DEF ProcessType
    <3>3. LinkType' /\ CacheType'
      BY <1>2, <3>1 DEF LinkType, CacheType, ServerType
    <3> QED
      BY <1>1, <3>1, <3>2, <3>3, PartsKept, Zenon
  <2>7. CASE OwnPolicy \/ DefaultPolicy \/ EndStream
    <3>1. UNCHANGED <<configVars, using, linked, cacheFile, serverData>>
      BY <2>7, Zenon DEF OwnPolicy, DefaultPolicy, EndStream
    <3>2. \/ \E source \in {"none", "project", "defaults"} : Serve(source)
          \/ proc' \in {"defaults", "mirror"} /\ UNCHANGED <<stream, got, shown>>
      BY <2>7, Zenon DEF OwnPolicy, DefaultPolicy, EndStream
    <3>3. ProcessType'
      <4>1. CASE \E source \in {"none", "project", "defaults"} : Serve(source)
        BY <1>2, <3>1, <4>1, ServeType
      <4>2. CASE proc' \in {"defaults", "mirror"} /\ UNCHANGED <<stream, got, shown>>
        BY <1>2, <3>1, <4>2 DEF ProcessType
      <4> QED
        BY <3>2, <4>1, <4>2
    <3> QED
      BY <1>1, <3>1, <3>3, PartsKept, Zenon
  <2>8. CASE MirrorEntity
    <3>1. /\ proc' = "query" /\ mirror' = TRUE
          /\ UNCHANGED <<configVars, using, stream, got, shown, linked, own, owed, cached, serverData>>
      BY <2>8, Zenon DEF MirrorEntity, CreatesEntity
    <3>2. ProcessType'
      BY <1>2, <3>1 DEF ProcessType
    <3>3. CacheType'
      BY <1>2, <3>1 DEF CacheType
    <3> QED
      BY <1>1, <3>1, <3>2, <3>3, PartsKept, Zenon
  <2>9. CASE QueryDefaults
    <3>1. linked' \in BOOLEAN /\ UNCHANGED <<configVars, using, cacheFile, serverData>>
      BY <2>9, Zenon DEF QueryDefaults
    <3>2. \/ Serve("none")
          \/ stream' = rules /\ proc' = "stream" /\ UNCHANGED <<got, shown>>
      BY <2>9, Zenon DEF QueryDefaults
    <3>3. ProcessType'
      <4>1. CASE Serve("none")
        BY <1>2, <3>1, <4>1, ServeType
      <4>2. CASE stream' = rules /\ proc' = "stream" /\ UNCHANGED <<got, shown>>
        BY <1>2, <1>3, <3>1, <4>2 DEF ProcessType
      <4> QED
        BY <3>2, <4>1, <4>2
    <3>4. LinkType'
      BY <3>1 DEF LinkType
    <3> QED
      BY <1>1, <3>1, <3>3, <3>4, PartsKept, Zenon
  <2>10. CASE CopyRule
    <3>1. PICK x \in stream : stream' = stream \ {x} /\ got' = TRUE /\ cached' = cached \cup {x}
      BY <2>10, Zenon DEF CopyRule
    <3>2. UNCHANGED <<configVars, proc, using, shown, linked, own, owed, mirror, serverData>>
      BY <2>10, Zenon DEF CopyRule
    <3>3. ProcessType'
      BY <1>2, <3>1, <3>2 DEF ProcessType
    <3>4. CacheType'
      BY <1>2, <3>1, <3>2 DEF CacheType, ProcessType
    <3> QED
      BY <1>1, <3>2, <3>3, <3>4, PartsKept, Zenon
  <2>11. CASE Cycle
    <3>1. /\ linked' = TRUE /\ owed' \in BOOLEAN
          /\ serverOwn' \in {own, serverOwn} /\ own' \in {own, serverOwn}
          /\ UNCHANGED <<configVars, processVars, mirror, cached, projectRow>>
      <4>1. (owed /\ ~projectRow) \in BOOLEAN
        OBVIOUS
      <4>2. owed' = (owed /\ ~projectRow)
        BY <2>11, Zenon DEF Cycle
      <4>3. owed' \in BOOLEAN
        BY <4>1, <4>2, Zenon
      <4>4. serverOwn' \in {own, serverOwn} /\ own' \in {own, serverOwn}
        BY <2>11, Zenon DEF Cycle, Pulled
      <4> QED
        BY <2>11, <4>3, <4>4, Zenon DEF Cycle
    <3>2. LinkType' /\ CacheType' /\ ServerType'
      BY <1>2, <3>1 DEF LinkType, CacheType, ServerType
    <3> QED
      BY <1>1, <3>1, <3>2, PartsKept, Zenon
  <2>12. CASE EditPolicy
    <3>1. /\ own' = ~own /\ owed' = TRUE
          /\ UNCHANGED <<configVars, processVars, linked, mirror, cached, serverData>>
      BY <2>12, Zenon DEF EditPolicy
    <3>2. CacheType'
      BY <1>2, <3>1 DEF CacheType
    <3> QED
      BY <1>1, <3>1, <3>2, PartsKept, Zenon
  <2>13. CASE Unlink
    <3>1. linked' = FALSE /\ UNCHANGED <<configVars, processVars, cacheFile, serverData>>
      BY <2>13, Zenon DEF Unlink
    <3>2. LinkType'
      BY <3>1 DEF LinkType
    <3> QED
      BY <1>1, <3>1, <3>2, PartsKept, Zenon
  <2>14. CASE EditConfig
    <3>1. UNCHANGED <<processVars, linked, cacheFile, serverData>>
      BY <2>14, Zenon DEF EditConfig
    <3>2. config' \in {"remote", "local"} /\ key' \in printed \cup {0}
      BY <2>14, Zenon DEF EditConfig
    <3>3. ConfigType'
      BY <1>3, <3>2 DEF ConfigType
    <3> QED
      BY <1>1, <3>1, <3>3, PartsKept, Zenon
  <2>15. CASE PeerEdits
    <3>1. /\ serverOwn' = ~serverOwn /\ projectRow' = TRUE
          /\ UNCHANGED <<configVars, processVars, linked, cacheFile>>
      BY <2>15, Zenon DEF PeerEdits
    <3>2. ServerType'
      BY <1>2, <3>1 DEF ServerType
    <3> QED
      BY <1>1, <3>1, <3>2, PartsKept, Zenon
  <2>16. CASE Stop
    <3>1. /\ proc' = "down" /\ using' = 0 /\ linked' = FALSE
          /\ stream' = {} /\ got' = FALSE /\ shown' = "none"
          /\ UNCHANGED <<configVars, cacheFile, serverData>>
      BY <2>16, Zenon DEF Stop
    <3>2. ProcessType' /\ LinkType'
      BY <3>1 DEF ProcessType, LinkType
    <3> QED
      BY <1>1, <3>1, <3>2, PartsKept, Zenon
  <2> HIDE DEF NextParts
  <2> QED
    BY <1>5, <2>3, <2>4, <2>5, <2>6, <2>7, <2>8, <2>9, <2>10, <2>11, <2>12, <2>13, <2>14,
       <2>15, <2>16, Zenon DEF Device, Boot
<1> QED
  BY <1>4, <1>5

\* Administrators and the device keep to their types, and never hand over a
\* password that was not printed or a rule that was not inserted (server/main.go:
\* run, loadPolicy; setup/main.go: main).
THEOREM TypeCorrect == Spec => []TypeOK
<1>1. Init => StartupTypeOK /\ taught \in BOOLEAN
  <2> SUFFICES ASSUME StartupInit PROVE StartupTypeOK
    BY DEF Init
  <2>1. {linked, projectRow, serverOwn, own, owed, mirror, got, spoiled} \subseteq BOOLEAN
    BY Zenon DEF StartupInit
  <2> QED
    BY <2>1 DEF StartupInit, StartupTypeOK
<1>2. AdminInv /\ StartupTypeOK /\ taught \in BOOLEAN /\ [Next]_vars
        => StartupTypeOK' /\ (taught \in BOOLEAN)'
  <2> SUFFICES ASSUME AdminInv, StartupTypeOK, taught \in BOOLEAN, [Next]_vars
               PROVE  StartupTypeOK' /\ (taught \in BOOLEAN)'
    OBVIOUS
  <2>1. CASE Next
    <3>1. taught' \in BOOLEAN
      BY <2>1 DEF Next, Remember
    <3>2. CASE Device
      BY <3>1, <3>2, DeviceTypes DEF AdminInv
    <3>3. CASE UNCHANGED deviceVars
      BY <3>1, <3>3 DEF deviceVars, configVars, processVars, cacheFile, serverData, StartupTypeOK
    <3> QED
      BY <2>1, <3>2, <3>3 DEF Next
  <2>2. CASE UNCHANGED vars
    BY <2>2 DEF vars, deviceVars, configVars, processVars, cacheFile, serverData, StartupTypeOK
  <2> QED
    BY <2>1, <2>2
<1>3. AdminInv => AdminTypeOK
  BY DEF AdminInv
<1> QED
  BY <1>1, <1>2, <1>3, AdministrationCorrect, PTL DEF Spec, TypeOK

-----------------------------------------------------------------------------
(* The default policy                                                       *)

\* Only the loading of the policy touches the cached defaults; everything else
\* that the device does either leaves the process where it is or takes it to a
\* place before that.
LEMMA OthersLeavePolicy ==
  ASSUME PolicyInv, Remember, UNCHANGED <<mirror, cached>>,
         ~spoiled' => ~spoiled,
         \/ UNCHANGED <<proc, shown, got>>
         \/ /\ proc' \notin {"mirror", "query", "stream", "serve"}
            /\ shown' \in {"none", shown} /\ (got' => got /\ proc # "stream")
  PROVE  PolicyInv'
BY DEF PolicyInv, Remember, CachedDefaults

\* Every statement of the loading keeps the invariant.
LEMMA LoadingKeepsPolicy ==
  ASSUME PolicyInv, Remember, UNCHANGED spoiled,
         \/ OwnPolicy \/ DefaultPolicy \/ MirrorEntity \/ QueryDefaults \/ CopyRule \/ EndStream
  PROVE  PolicyInv'
<1>1. CASE OwnPolicy
  BY <1>1 DEF OwnPolicy, Serve, PolicyInv, Remember, CachedDefaults, cacheFile
<1>2. CASE DefaultPolicy
  BY <1>2 DEF DefaultPolicy, HasDefaults, Serve, PolicyInv, Remember, CachedDefaults, cacheFile
<1>3. CASE MirrorEntity
  BY <1>3 DEF MirrorEntity, CreatesEntity, PolicyInv, Remember, CachedDefaults
<1>4. CASE QueryDefaults
  BY <1>4 DEF QueryDefaults, Serve, PolicyInv, Remember, CachedDefaults, cacheFile
<1>5. CASE CopyRule
  BY <1>5 DEF CopyRule, PolicyInv, Remember, CachedDefaults
<1>6. CASE EndStream
  <2>1. /\ proc = "stream" /\ proc' = "serve" /\ stream' = {} /\ got' = FALSE
        /\ shown' \in {"none", "defaults"}
        /\ shown' = "defaults" => got
        /\ UNCHANGED <<mirror, cached>>
    BY <1>6 DEF EndStream, Serve, cacheFile
  <2> QED
    BY <2>1 DEF PolicyInv, Remember, CachedDefaults
<1> QED
  BY <1>1, <1>2, <1>3, <1>4, <1>5, <1>6

\* A step is the loading's or leaves the policy alone, unless a statement on
\* the cache fails.
LEMMA StepsOfPolicy ==
  ASSUME Next, ~LocalFails
  PROVE  \/ OwnPolicy \/ DefaultPolicy \/ MirrorEntity \/ QueryDefaults \/ CopyRule
         \/ EndStream
         \/ /\ UNCHANGED <<mirror, cached>>
            /\ \/ UNCHANGED <<proc, shown, got>>
               \/ /\ proc' \notin {"mirror", "query", "stream", "serve"}
                  /\ shown' \in {"none", shown} /\ (got' => got /\ proc # "stream")
<1>1. CASE AdminNext /\ UNCHANGED deviceVars
  BY <1>1 DEF deviceVars, processVars, cacheFile
<1>2. CASE Start \/ LoadConfig \/ EnsureProject \/ BootstrapPull \/ Stop
  BY <1>2 DEF Start, LoadConfig, EnsureProject, BootstrapPull, Stop, cacheFile
<1>3. CASE Cycle \/ EditPolicy \/ Unlink \/ EditConfig \/ PeerEdits
  BY <1>3 DEF Cycle, EditPolicy, Unlink, EditConfig, PeerEdits, cacheFile, processVars
<1> QED
  BY <1>1, <1>2, <1>3 DEF Next, Device, Boot

\* What the loading of the policy relies on (server/main.go: loadPolicy,
\* fetchRemoteDefaultsPolicy).
THEOREM PolicyCorrect == Spec => []PolicyInv
<1>1. Init => PolicyInv
  BY DEF Init, StartupInit, PolicyInv
<1>2. PolicyInv /\ [Next]_vars => PolicyInv'
  <2> SUFFICES ASSUME PolicyInv, [Next]_vars
               PROVE  PolicyInv'
    OBVIOUS
  <2>1. CASE Next
    <3>1. Remember
      BY <2>1 DEF Next
    <3>2. CASE LocalFails
      BY <3>2 DEF LocalFails, PolicyInv
    <3>3. CASE ~LocalFails
      <4>1. UNCHANGED spoiled
        BY <2>1, <3>3 DEF Next, Device, deviceVars
      <4> QED
        BY <2>1, <3>1, <3>3, <4>1, StepsOfPolicy, LoadingKeepsPolicy, OthersLeavePolicy
    <3> QED
      BY <3>2, <3>3
  <2>2. CASE UNCHANGED vars
    BY <2>2 DEF vars, deviceVars, processVars, cacheFile, PolicyInv, CachedDefaults
  <2> QED
    BY <2>1, <2>2
<1> QED
  BY <1>1, <1>2, PTL DEF Spec

\* Once shown, the default policy is there in every later session, unless a
\* statement on the cache failed (server/main.go: loadPolicy).
THEOREM DefaultsSurvive == Spec => []DefaultsSurviveOffline
<1>1. PolicyInv => DefaultsSurviveOffline
  BY DEF PolicyInv, DefaultsSurviveOffline
<1> QED
  BY <1>1, PolicyCorrect, PTL

\* The first default policy shown is the one the device keeps, whatever the
\* administrators do (server/main.go: loadPolicy; setup/main.go: ensurePolicy).
THEOREM DefaultsKept == Spec => DefaultsAreKept
<1>1. PolicyInv /\ [Next]_vars => [taught /\ ~spoiled' => CachedDefaults' = CachedDefaults]_vars
  <2> SUFFICES ASSUME PolicyInv, Next, taught, ~spoiled'
               PROVE  CachedDefaults' = CachedDefaults
    OBVIOUS
  <2>1. ~LocalFails
    BY DEF LocalFails
  <2>2. ~spoiled
    BY <2>1 DEF Next, Device, deviceVars
  <2>3. proc \notin {"mirror", "stream"}
    BY <2>2 DEF PolicyInv
  <2>4. UNCHANGED <<mirror, cached>>
    BY <2>1, <2>3, StepsOfPolicy DEF OwnPolicy, DefaultPolicy, MirrorEntity, QueryDefaults,
       CopyRule, EndStream, cacheFile
  <2> QED
    BY <2>4 DEF CachedDefaults
<1> QED
  BY <1>1, PolicyCorrect, PTL DEF Spec, DefaultsAreKept

-----------------------------------------------------------------------------
(* The identity of a project                                                *)

\* The walk meets three places for a marker, and the one nearest to the working
\* directory decides.
LEMMA NearestMarker ==
  ASSUME NEW c, NEW a, NEW x, NEW y, Markers(c) = <<a, x, y>>
  PROVE  FindMarker(c) = IF y # None THEN {y}
                         ELSE IF x # None THEN {x}
                         ELSE IF a # None THEN {a} ELSE {}
<1> DEFINE M == <<a, x, y>>
           valid == {j \in 1 .. 3 : M[j] # None /\ \A k \in 1 .. 3 : k > j => M[k] = None}
<1>1. M[1] = a /\ M[2] = x /\ M[3] = y /\ DOMAIN M = 1 .. 3
  OBVIOUS
<1>2. FindMarker(c) = {M[i] : i \in valid}
  BY <1>1 DEF FindMarker
<1> HIDE DEF M
<1>3. valid = IF y # None THEN {3} ELSE IF x # None THEN {2} ELSE IF a # None THEN {1} ELSE {}
  <2>1. 1 .. 3 = {1, 2, 3}
    OBVIOUS
  <2>2. 3 \in valid <=> y # None
    BY <1>1
  <2>3. 2 \in valid <=> x # None /\ y = None
    BY <1>1
  <2>4. 1 \in valid <=> a # None /\ x = None /\ y = None
    BY <1>1
  <2>5. valid \subseteq {1, 2, 3}
    BY <2>1
  <2> HIDE DEF valid
  <2> QED
    BY <2>2, <2>3, <2>4, <2>5
<1> HIDE DEF valid
<1> QED
  BY <1>1, <1>2, <1>3

\* The shape of a working directory and of the same repository on another
\* device: the markers in the repository and the end of its remote are its own.
LEMMA SameRepository ==
  ASSUME NEW c \in Checkout, NEW d \in Elsewhere(c)
  PROVE  /\ d.inside = c.inside
         /\ \E m : c.above = <<m>>
         /\ \E m : d.above = <<m>>
         /\ \E x, y : c.inside = <<x, y>>
         /\ Len(d.remote) = Len(c.remote) /\ Len(c.remote) \in 0 .. 3
         /\ Len(c.remote) >= 2 => GitRemoteSlug(d) = GitRemoteSlug(c)
<1>1. PICK n \in 0 .. 3 : c.remote \in [1 .. n -> Name]
  BY DEF Checkout
<1>2. Len(c.remote) = n /\ DOMAIN c.remote = 1 .. n
  BY <1>1
<1>3. PICK m \in Name \cup {None}, configured \in Name \cup {None}, base \in Name, host \in Name :
        d = [above |-> <<m>>, inside |-> c.inside, remote |-> Mirrored(c, host),
             config |-> configured, base |-> base]
  BY DEF Elsewhere
<1> DEFINE R == Mirrored(c, host)
<1>4. d.inside = c.inside /\ d.above = <<m>> /\ d.remote = R
  BY <1>3
<1> USE DEF Mirrored
<1>5. Len(R) = n /\ (n >= 2 => R[n - 1] = c.remote[n - 1] /\ R[n] = c.remote[n])
  <2>1. CASE n = 3
    <3>1. R = [c.remote EXCEPT ![1] = host] /\ R \in [1 .. 3 -> Name]
      BY <1>1, <1>2, <2>1
    <3>2. Len(R) = 3
      BY <3>1
    <3> QED
      BY <1>2, <2>1, <3>1, <3>2
  <2>2. CASE n # 3
    BY <1>2, <2>2
  <2> QED
    BY <2>1, <2>2
<1> HIDE DEF R
<1>6. n >= 2 => GitRemoteSlug(d) = GitRemoteSlug(c)
  BY <1>2, <1>4, <1>5 DEF GitRemoteSlug
<1>7. (\E u : c.above = <<u>>) /\ \E x, y : c.inside = <<x, y>>
  BY DEF Checkout
<1> QED
  BY <1>2, <1>4, <1>5, <1>6, <1>7

\* A marker in the repository hides those above it, and a remote decides where
\* there is none; neither depends on the device.
LEMMA NobodyMistaken == Mistaken = {}
<1> SUFFICES ASSUME NEW c \in Checkout, NEW d \in Elsewhere(c),
                    \/ \E i \in DOMAIN c.inside : c.inside[i] # None
                    \/ c.above = <<None>> /\ d.above = <<None>> /\ Len(c.remote) >= 2
             PROVE  Resolve(c) = Resolve(d)
  BY DEF Mistaken
<1>1. PICK m, k, x, y : /\ c.above = <<m>> /\ d.above = <<k>>
                        /\ c.inside = <<x, y>> /\ d.inside = <<x, y>>
  BY SameRepository
<1>2. Markers(c) = <<m, x, y>> /\ Markers(d) = <<k, x, y>>
  <2>1. Markers(c) = <<m>> \o <<x, y>> /\ Markers(d) = <<k>> \o <<x, y>>
    BY <1>1 DEF Markers
  <2>2. ASSUME NEW u
        PROVE  <<u>> \o <<x, y>> = <<u, x, y>>
    <3> DEFINE S == {u, x, y}
               s == <<u>> \o <<x, y>>
               t == <<u, x, y>>
    <3>1. <<u>> \in Seq(S) /\ <<x, y>> \in Seq(S)
          /\ Len(<<u>>) = 1 /\ Len(<<x, y>>) = 2
      OBVIOUS
    <3>2. s \in Seq(S) /\ Len(s) = 3 /\ s[1] = u /\ s[2] = x /\ s[3] = y
      BY <3>1, ConcatProperties
    <3>3. t \in Seq(S) /\ Len(t) = 3 /\ t[1] = u /\ t[2] = x /\ t[3] = y
      OBVIOUS
    <3> HIDE DEF s, t
    <3>4. s = t
      BY <3>2, <3>3, SeqEqual
    <3> QED
      BY <3>4 DEF s, t
  <2> QED
    BY <2>1, <2>2
<1>3. /\ FindMarker(c) = IF y # None THEN {y} ELSE IF x # None THEN {x}
                         ELSE IF m # None THEN {m} ELSE {}
      /\ FindMarker(d) = IF y # None THEN {y} ELSE IF x # None THEN {x}
                         ELSE IF k # None THEN {k} ELSE {}
  BY <1>2, NearestMarker
<1>4. CASE x # None \/ y # None
  <2>1. FindMarker(c) = FindMarker(d) /\ FindMarker(c) # {}
    BY <1>3, <1>4
  <2> QED
    BY <2>1, Zenon DEF Resolve
<1>5. CASE x = None /\ y = None
  <2>1. c.above = <<None>> /\ d.above = <<None>> /\ Len(c.remote) >= 2
    BY <1>1, <1>5
  <2>2. m = None /\ k = None
    BY <1>1, <2>1
  <2>3. FindMarker(c) = {} /\ FindMarker(d) = {}
    BY <1>3, <1>5, <2>2
  <2>4. GitRemoteSlug(c) = GitRemoteSlug(d) /\ GitRemoteSlug(c) # {}
    <3>1. Len(c.remote) \in 0 .. 3 /\ GitRemoteSlug(d) = GitRemoteSlug(c)
      BY <2>1, SameRepository
    <3>2. ~(Len(c.remote) < 2)
      BY <2>1, <3>1
    <3> QED
      BY <3>1, <3>2, Zenon DEF GitRemoteSlug
  <2> QED
    BY <2>3, <2>4, Zenon DEF Resolve
<1> QED
  BY <1>4, <1>5

\* Whatever a device is told apart by, its directories, its configuration, the
\* mirror it cloned from, it resolves a repository as every other one does
\* (project.go: Resolve).
THEOREM IdentityKept == Spec => []IdentityFollowsProject
<1>1. IdentityFollowsProject
  BY NobodyMistaken DEF IdentityFollowsProject
<1> QED
  BY <1>1, PTL
=============================================================================

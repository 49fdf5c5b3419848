------------------------------ MODULE Startup ------------------------------
(***************************************************************************)
(* A device and the start of its server process: the configuration, the     *)
(* project's row on the server, the startup pull, and the policy that the   *)
(* session hands to its agent.  The project's own policy comes first, then  *)
(* the cached copy of the default one, then the server's, which is copied   *)
(* into the cache row by row.                                               *)
(*                                                                          *)
(* Of the project's data only its own policy is kept, as there or not; how  *)
(* rows travel is the subject of DeviceSync.                                *)
(***************************************************************************)
EXTENDS Admin

VARIABLES
  config,      \* the configuration file
  key,         \* the password in it; 0: none
  proc,        \* the statement the process executes next; "serve" once it serves
  using,       \* the password the process connects with; 0: local-only mode
  linked,      \* has the process an open connection
  projectRow,  \* does the server have the project's row
  serverOwn,   \* does the server have the project's own policy
  own,         \* does the cache have it, alive
  owed,        \* is an edit of it waiting in the queue
  mirror,      \* does the cache have the entity of the default policy
  cached,      \* its copy of the rules
  stream,      \* rows of the default policy that the server still has to hand over
  got,         \* has it handed over any
  shown,       \* where the policy of the session comes from
  spoiled      \* has a statement on the cache failed

configVars == <<config, key>>
processVars == <<proc, using, stream, got, shown>>
cacheFile == <<own, owed, mirror, cached>>
serverData == <<projectRow, serverOwn>>
deviceVars == <<configVars, processVars, linked, cacheFile, serverData, spoiled>>

StartupTypeOK ==
  /\ config \in {"missing", "template", "local", "remote"}
  /\ key \in Nat /\ using \in Nat
  /\ proc \in {"down", "config", "project", "pull", "own", "defaults", "mirror", "query",
               "stream", "serve"}
  /\ {linked, projectRow, serverOwn, own, owed, mirror, got, spoiled} \subseteq BOOLEAN
  /\ cached \subseteq RuleRow /\ stream \subseteq RuleRow
  /\ shown \in {"none", "project", "defaults"}

StartupInit ==
  /\ config = "missing" /\ key = 0
  /\ proc = "down" /\ using = 0 /\ linked = FALSE
  /\ projectRow = FALSE /\ serverOwn = FALSE
  /\ own = FALSE /\ owed = FALSE /\ mirror = FALSE /\ cached = {}
  /\ stream = {} /\ got = FALSE /\ shown = "none"
  /\ spoiled = FALSE

-----------------------------------------------------------------------------
(* The connection and the user *)

\* Any statement on the server may fail.  One can succeed over a connection
\* that is open, which outlives a change of the password, or over a new one.
Reach == granted /\ using # 0 /\ (linked \/ using = password)

\* The network breaks, or the pool closes the connection after some minutes.
Unlink ==
  /\ linked
  /\ linked' = FALSE
  /\ UNCHANGED <<configVars, processVars, cacheFile, serverData>>

\* The user pastes a printed connection string, or removes it.
EditConfig ==
  /\ \/ \E k \in printed : config' = "remote" /\ key' = k
     \/ config # "missing" /\ config' = "local" /\ key' = 0
  /\ UNCHANGED <<processVars, linked, cacheFile, serverData>>

\* A device of the same project adds or deletes the project's own policy.
PeerEdits ==
  /\ granted
  /\ serverOwn' = ~serverOwn
  /\ projectRow' = TRUE
  /\ UNCHANGED <<configVars, processVars, linked, cacheFile>>

-----------------------------------------------------------------------------
(* The process *)

Start ==
  /\ proc = "down"
  /\ proc' = "config"
  /\ UNCHANGED <<configVars, using, stream, got, shown, linked, cacheFile, serverData>>

\* The first run writes a template; the process ends until the user edited it.
LoadConfig ==
  /\ proc = "config"
  /\ config' = IF config = "missing" THEN "template" ELSE config
  /\ using' = key
  /\ proc' = CASE config = "remote" -> "project"
               [] config = "local"  -> "own"
               [] OTHER             -> "down"
  /\ UNCHANGED <<key, stream, got, shown, linked, cacheFile, serverData>>

\* The project's row is created, or the error is logged; once.
EnsureProject ==
  /\ proc = "project"
  /\ proc' = "pull"
  /\ \/ Reach /\ projectRow' = TRUE /\ linked' = TRUE
     \/ linked' = FALSE /\ UNCHANGED projectRow
  /\ UNCHANGED <<configVars, using, stream, got, shown, cacheFile, serverOwn>>

\* What a pull makes of the cached policy: an edit that waits is kept.
Pulled == IF owed THEN own ELSE serverOwn

BootstrapPull ==
  /\ proc = "pull"
  /\ proc' = "own"
  /\ \/ Reach /\ own' = Pulled /\ linked' = TRUE
     \/ linked' = FALSE /\ UNCHANGED own
  /\ UNCHANGED <<configVars, using, stream, got, shown, owed, mirror, cached, serverData>>

\* The process serves with this policy from now on.
Serve(source) ==
  /\ proc' = "serve"
  /\ shown' = source
  /\ stream' = {}
  /\ got' = FALSE

\* loadPolicy: the project's own policy first.
OwnPolicy ==
  /\ proc = "own"
  /\ \/ own /\ Serve("project")
     \/ ~own /\ proc' = "defaults" /\ UNCHANGED <<stream, got, shown>>
  /\ UNCHANGED <<configVars, using, linked, cacheFile, serverData>>

\* What the query for the cached defaults finds: it joins the rules with their entity.
CachedDefaults == IF mirror THEN cached ELSE {}

\* Wrong: the server is asked on every start.
OfflineDefaults == CachedDefaults # {} /\ using = 0

HasDefaults == CachedDefaults # {}

DefaultPolicy ==
  /\ proc = "defaults"
  /\ \/ HasDefaults /\ Serve("defaults")
     \/ ~HasDefaults /\ using # 0
          /\ proc' = "mirror" /\ UNCHANGED <<stream, got, shown>>
     \/ ~HasDefaults /\ using = 0 /\ Serve("none")
  /\ UNCHANGED <<configVars, using, linked, cacheFile, serverData>>

\* Wrong: the entity of the cached rules is left out.
RulesOnly == UNCHANGED mirror

CreatesEntity == mirror' = TRUE

MirrorEntity ==
  /\ proc = "mirror"
  /\ CreatesEntity
  /\ proc' = "query"
  /\ UNCHANGED <<configVars, using, stream, got, shown, linked, own, owed, cached, serverData>>

QueryDefaults ==
  /\ proc = "query"
  /\ \/ Reach /\ stream' = rules /\ proc' = "stream" /\ linked' = TRUE
          /\ UNCHANGED <<got, shown>>
     \/ linked' = FALSE /\ Serve("none")
  /\ UNCHANGED <<configVars, using, cacheFile, serverData>>

\* A row arrives and is copied into the cache.
CopyRule ==
  /\ proc = "stream"
  /\ \E x \in stream :
       /\ stream' = stream \ {x}
       /\ got' = TRUE
       /\ cached' = cached \cup {x}
  /\ UNCHANGED <<configVars, proc, using, shown, linked, own, owed, mirror, serverData>>

\* The last row was read, or the connection broke: then nothing is shown, but
\* the rules that arrived stay in the cache.
EndStream ==
  /\ proc = "stream"
  /\ \/ stream = {} /\ Serve(IF got THEN "defaults" ELSE "none")
     \/ stream # {} /\ ~linked /\ Serve("none")
  /\ UNCHANGED <<configVars, using, linked, cacheFile, serverData>>

\* A statement on the cache fails: a read that fails finds nothing, a rule that
\* cannot be copied is shown all the same.
LocalFails ==
  /\ Fault
  /\ spoiled' = TRUE
  /\ \/ proc = "own" /\ proc' = "defaults" /\ UNCHANGED <<stream, got, shown>>
     \/ proc = "defaults" /\ using # 0 /\ proc' = "mirror" /\ UNCHANGED <<stream, got, shown>>
     \/ proc = "defaults" /\ using = 0 /\ Serve("none")
     \/ proc = "mirror" /\ Serve("none")
     \/ /\ proc = "stream"
        /\ \E x \in stream : stream' = stream \ {x} /\ got' = TRUE
        /\ UNCHANGED <<proc, shown>>
  /\ UNCHANGED <<configVars, using, linked, cacheFile, serverData>>

Boot ==
  \/ LoadConfig \/ EnsureProject \/ BootstrapPull \/ OwnPolicy \/ DefaultPolicy
  \/ MirrorEntity \/ QueryDefaults \/ CopyRule \/ EndStream

\* One cycle of the engine, which runs since before the policy is loaded: what
\* waits is pushed, which needs the project's row, then the server's rows are
\* pulled.
Cycle ==
  /\ proc \in {"own", "defaults", "mirror", "query", "stream", "serve"} /\ Reach
  /\ linked' = TRUE
  /\ owed' = (owed /\ ~projectRow)
  /\ serverOwn' = IF owed /\ projectRow THEN own ELSE serverOwn
  /\ own' = Pulled
  /\ UNCHANGED <<configVars, processVars, mirror, cached, projectRow>>

\* A tool call adds to the project's own policy or deletes it.
EditPolicy ==
  /\ proc = "serve"
  /\ own' = ~own
  /\ owed' = TRUE
  /\ UNCHANGED <<configVars, processVars, linked, mirror, cached, serverData>>

\* The process ends or is killed.
Stop ==
  /\ proc # "down"
  /\ proc' = "down"
  /\ using' = 0 /\ linked' = FALSE
  /\ stream' = {} /\ got' = FALSE /\ shown' = "none"
  /\ UNCHANGED <<configVars, cacheFile, serverData>>

Device ==
  \/ LocalFails
  \/ /\ \/ Start \/ Boot \/ Cycle \/ EditPolicy \/ Stop
        \/ Unlink \/ EditConfig \/ PeerEdits
     /\ UNCHANGED <<spoiled, fails>>
=============================================================================

---------------------------- MODULE Deployment -----------------------------
(***************************************************************************)
(* Administrators set up a server and change it while a device is           *)
(* configured, started, used and restarted against it.                      *)
(***************************************************************************)
EXTENDS Startup, Project

VARIABLE taught   \* has a session shown the default policy; history

vars == <<adminVars, deviceVars, taught>>

TypeOK == AdminTypeOK /\ StartupTypeOK /\ taught \in BOOLEAN

Init == AdminInit /\ StartupInit /\ taught = FALSE

Remember == taught' = (taught \/ shown' = "defaults")

Next ==
  /\ \/ AdminNext /\ UNCHANGED deviceVars
     \/ Device /\ UNCHANGED <<serverSetup, admin, runs>>
  /\ Remember

Spec == Init /\ [][Next]_vars

\* A command that was begun goes on, a process that was started comes up, and
\* its engine runs its cycles.  Nobody need begin a command, start a process or
\* edit a file, and no statement on the server need succeed, but for cycles that
\* are possible for ever.
FairSpec ==
  /\ Spec
  /\ \A a \in Administrator : WF_vars(Administer(a) /\ UNCHANGED deviceVars /\ Remember)
  /\ WF_vars((Boot \/ Cycle) /\ UNCHANGED <<adminVars, spoiled>> /\ Remember)

-----------------------------------------------------------------------------
(* Safety *)

\* Once a session has shown the default policy, every later one has a policy,
\* its own or the cached one, without a network and whatever happened to the
\* server's rules, unless a statement on the cache failed (server/main.go:
\* loadPolicy, fetchRemoteDefaultsPolicy).
DefaultsSurviveOffline ==
  taught /\ ~spoiled /\ proc = "serve" => shown # "none"

\* The first default policy a session has shown is the one the device keeps:
\* neither a reset nor a later start changes it, so all its sessions show the
\* same rules, even if these were an incomplete or an outdated set
\* (server/main.go: loadPolicy; setup/main.go: ensurePolicy).
DefaultsAreKept ==
  [][taught /\ ~spoiled' => CachedDefaults' = CachedDefaults]_vars

\* Identity follows the project, not the device: in whatever checkout a session
\* is started, any checkout of the same repository elsewhere leads to the same
\* project (project.go: Resolve, findMarker; server/main.go: run).
IdentityFollowsProject == proc = "project" => Mistaken = {}

-----------------------------------------------------------------------------
(* The inductive invariant behind the first two                              *)

\* A session that has shown the default policy has left it in the cache, whence
\* it is never asked of the server again.
PolicyInv ==
  ~spoiled =>
    /\ taught => /\ CachedDefaults # {}
                 /\ proc \notin {"mirror", "query", "stream"}
                 /\ proc = "serve" => shown # "none"
    /\ shown = "defaults" => taught
    /\ proc \in {"query", "stream"} => mirror
    /\ got => proc = "stream" /\ cached # {}

-----------------------------------------------------------------------------
(* What a comment says of the code, and the code does not do *)

\* server/main.go, run: "Don't fail startup; we may be offline. Sync will retry
\* later."  While a session serves and reaches the server, the project's row
\* gets there in the end.
SyncRetries == <>[](proc = "serve" /\ linked) => <>projectRow
=============================================================================

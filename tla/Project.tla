------------------------------ MODULE Project ------------------------------
(***************************************************************************)
(* Which project a session serves: the nearest valid marker file in the     *)
(* working directory or above it, else the remote of its repository, else   *)
(* the configured name, else the name of the directory.                     *)
(***************************************************************************)
EXTENDS Integers, Sequences

CONSTANTS
  Name,   \* names of hosts, owners, repositories and directories, and slugs
  None    \* no marker file, or one that does not parse or has no slug

ASSUME NameAssumption == None \notin Name

\* A working directory.  above and inside: the markers on the way down to the
\* repository and in it; remote: the names in the remote's URL, host first.
Checkout == [above : {<<m>> : m \in Name \cup {None}},
             inside : {<<m, n>> : m \in Name \cup {None}, n \in Name \cup {None}},
             remote : UNION {[1 .. n -> Name] : n \in 0 .. 3},
             config : Name \cup {None},
             base : Name]

Markers(c) == c.above \o c.inside

\* Wrong: the walk begins at the root.
Outermost(c) ==
  {Markers(c)[i] : i \in {j \in DOMAIN Markers(c) :
     Markers(c)[j] # None /\ \A k \in 1 .. j - 1 : Markers(c)[k] = None}}

\* The walk begins at the working directory and skips what is not valid.
FindMarker(c) ==
  {Markers(c)[i] : i \in {j \in DOMAIN Markers(c) :
     Markers(c)[j] # None /\ \A k \in DOMAIN Markers(c) : k > j => Markers(c)[k] = None}}

\* The last two names of the URL, owner and repository, wherever it is hosted.
GitRemoteSlug(c) ==
  IF Len(c.remote) < 2 THEN {}
  ELSE {<<c.remote[Len(c.remote) - 1], c.remote[Len(c.remote)]>>}

\* A slug is a marker's, a pair from a remote, or a name of the device.
Resolve(c) ==
  CASE FindMarker(c) # {}                            -> FindMarker(c)
    [] FindMarker(c) = {} /\ GitRemoteSlug(c) # {}   -> GitRemoteSlug(c)
    [] OTHER -> {IF c.config # None THEN c.config ELSE c.base}

-----------------------------------------------------------------------------

\* Its remote on another device: a URL may name another host, a mirror.
Mirrored(c, host) ==
  IF Len(c.remote) = 3 THEN [c.remote EXCEPT ![1] = host] ELSE c.remote

\* The same repository on another device: cloned below other directories, from
\* a mirror, next to another configuration.
Elsewhere(c) ==
  {[above |-> <<m>>, inside |-> c.inside, remote |-> Mirrored(c, host),
    config |-> configured, base |-> base] :
     m \in Name \cup {None}, configured \in Name \cup {None}, base \in Name, host \in Name}

\* The checkouts of which another device would make a different project,
\* although the repository holds a valid marker, or has a remote and no marker
\* lies above it on either device.
Mistaken ==
  {c \in Checkout : \E d \in Elsewhere(c) :
     /\ \/ \E i \in DOMAIN c.inside : c.inside[i] # None
        \/ c.above = <<None>> /\ d.above = <<None>> /\ Len(c.remote) >= 2
     /\ Resolve(c) # Resolve(d)}
=============================================================================

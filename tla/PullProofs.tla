----------------------------- MODULE PullProofs ---------------------------
(***************************************************************************)
(* Delta pull loses no row and leaves no difference for good: for every set *)
(* of rows, every page size and every interleaving, as long as transactions *)
(* commit in the order of their stamps (MaxLag = 0).                        *)
(***************************************************************************)
EXTENDS CallersProofs

-----------------------------------------------------------------------------
(* The keyset order and its pages *)

Stamped(S) == \A x \in S : x.ts \in Nat /\ x.row \in Nat

\* Every row is in one table, and the tables' rows are those of the server.
LEMMA SnapshotFields ==
  \A r \in Row : Snapshot(r).row = r /\ Snapshot(r).ts = remote[r].ts
BY DEF Snapshot

\* A page is closed downwards: what precedes one of its rows is on it.
LEMMA PageClosed ==
  ASSUME NEW S, IsFiniteSet(S), Stamped(S), NEW n \in Nat,
         NEW x \in FirstRows(S, n), NEW y \in S, Before(y, x)
  PROVE  y \in FirstRows(S, n)
<1> DEFINE below(z) == {u \in S : Before(u, z)}
<1>1. x \in S /\ Cardinality(below(x)) < n
  BY DEF FirstRows
<1>2. below(y) \subseteq below(x)
  BY <1>1 DEF Before, Stamped
<1>3. IsFiniteSet(below(x)) /\ IsFiniteSet(below(y))
  BY FS_Subset
<1>4. Cardinality(below(y)) <= Cardinality(below(x))
  BY <1>2, <1>3, FS_Subset
<1>5. Cardinality(below(y)) \in Nat /\ Cardinality(below(x)) \in Nat
  BY <1>3, FS_CardinalityType
<1>6. Cardinality(below(y)) < n
  BY <1>1, <1>4, <1>5
<1> QED
  BY <1>6 DEF FirstRows

\* The rows of a table are finitely many, each with one snapshot.
LEMMA TableRows ==
  ASSUME ServerTypeOK, NEW t
  PROVE  /\ IsFiniteSet(RowsOf(t))
         /\ Stamped(RowsOf(t))
         /\ \A x \in RowsOf(t) : /\ x.row \in Row /\ TableOf(x.row) = t
                                 /\ x = Snapshot(x.row)
         /\ \A r \in Row : TableOf(r) = t /\ Present(r) => Snapshot(r) \in RowsOf(t)
<1> DEFINE present == {q \in Row : TableOf(q) = t /\ Present(q)}
<1>1. IsFiniteSet(present)
  BY RowAssumption, FS_Subset
<1>2. IsFiniteSet({Snapshot(r) : r \in present})
  <2> DEFINE image == {Snapshot(r) : r \in present}
             f == [r \in present |-> Snapshot(r)]
  <2>1. f \in Surjection(present, image)
    BY DEF Surjection
  <2> HIDE DEF present, image, f
  <2>2. IsFiniteSet(image)
    BY <1>1, <2>1, FS_Surjection
  <2> QED
    BY <2>2 DEF image
<1>3. \A r \in Row : Snapshot(r).ts \in Nat /\ Snapshot(r).row \in Nat
  BY RowAssumption DEF Snapshot, ServerTypeOK, RemoteRow
<1> QED
  BY <1>2, <1>3 DEF RowsOf, Stamped, Snapshot

\* What a fetch returns: rows beyond the position, and every row of the table
\* that is beyond the position is on the page or after all of it.
LEMMA FetchedPage ==
  ASSUME TypeOK, NEW p, p = FirstRows(Newer(table, cursor[table], sinceId), PageSize)
  PROVE  /\ \A x \in p : /\ x.row \in Row /\ TableOf(x.row) = table
                         /\ x = Snapshot(x.row)
         /\ \A r \in Row : TableOf(r) = table /\ Present(r) /\ Before(Position, Snapshot(r)) =>
              Snapshot(r) \in p \/ \A x \in p : Before(x, Snapshot(r))
<1> DEFINE S == Newer(table, cursor[table], sinceId)
<1>1. /\ IsFiniteSet(RowsOf(table)) /\ Stamped(RowsOf(table))
      /\ \A x \in RowsOf(table) : /\ x.row \in Row /\ TableOf(x.row) = table
                                  /\ x = Snapshot(x.row)
      /\ \A r \in Row : TableOf(r) = table /\ Present(r) => Snapshot(r) \in RowsOf(table)
  BY TableRows DEF TypeOK
<1>2. S \subseteq RowsOf(table)
  BY DEF Newer
<1>3. IsFiniteSet(S) /\ Stamped(S)
  BY <1>1, <1>2, FS_Subset DEF Stamped
<1>4. p \subseteq S
  BY DEF FirstRows
<1>5. ASSUME NEW r \in Row, TableOf(r) = table, Present(r), Before(Position, Snapshot(r)),
             Snapshot(r) \notin p, NEW x \in p
      PROVE  Before(x, Snapshot(r))
  <2>1. Snapshot(r) \in S
    BY <1>1, <1>5 DEF Newer, Position
  <2>2. PageSize \in Nat
    BY PageAssumption
  <2>3. ~Before(Snapshot(r), x)
    <3>1. p = FirstRows(S, PageSize)
      OBVIOUS
    <3> HIDE DEF S
    <3> QED
      BY <1>3, <1>5, <2>1, <2>2, <3>1, PageClosed
  <2>4. x.ts \in Nat /\ x.row \in Nat /\ Snapshot(r).ts \in Nat /\ Snapshot(r).row \in Nat
    BY <1>3, <1>4, <2>1 DEF Stamped
  <2>5. x.row # Snapshot(r).row
    BY <1>1, <1>2, <1>4, <1>5, SnapshotFields
  <2> QED
    BY <2>3, <2>4, <2>5 DEF Before
<1> QED
  BY <1>1, <1>2, <1>4, <1>5

-----------------------------------------------------------------------------
(* Steps *)

\* A step after which the engine is between statements that matter here.
LEMMA QuietStep ==
  ASSUME StampOrder', NothingInvented', CursorSound', pc' \notin {"mark", "fetch", "apply"}
  PROVE  PullInv'
BY DEF PullInv, ReplyIsNew, FreshBehindPosition, PageCovers, PageInv

\* A pull of a table starts at its cursor, and behind it all rows are fresh.
LEMMA StartOfTable ==
  ASSUME TypeOK', StampOrder', NothingInvented', CursorSound', pc' = "fetch", sinceId' = NoRow
  PROVE  PullInv'
<1>1. FreshBehindPosition'
  <2> SUFFICES ASSUME NEW r \in Row, TableOf(r) = table', ~Before(Position, Snapshot(r))'
               PROVE  Fresh(r)'
    BY DEF FreshBehindPosition
  <2>1. r > 0 /\ NoRow = 0
    BY RowAssumption DEF NoRow
  <2>2. cursor'[table'] \in Nat /\ remote'[r].ts \in Nat
    BY DEF TypeOK, CacheTypeOK, EngineTypeOK, ServerTypeOK, RemoteRow
  <2>3. remote'[r].ts < cursor'[table']
    BY <2>1, <2>2 DEF Before, Position, Snapshot
  <2> QED
    BY <2>3 DEF CursorSound
<1> QED
  BY <1>1 DEF PullInv, ReplyIsNew, PageCovers, PageInv

\* Edits of the cache make rows pending; pending rows are fresh.
LEMMA EditStep ==
  ASSUME TypeOK, PullInv,
         UNCHANGED <<remote, clock, cursor, pc, batch, reply, pullVars>>,
         \A r \in Row : cache'[r] = cache[r] \/ (cache'[r].sync = "pending" /\ cache'[r].ts = 0)
  PROVE  PullInv'
<1> USE DEF pullVars
<1>1. \A r \in Row : cache[r].ts \in Nat /\ remote[r].ts \in Nat /\ cache'[r].ts <= cache[r].ts
                     /\ cache'[r].ts \in Nat
  BY DEF TypeOK, CacheTypeOK, ServerTypeOK, CacheRow, RemoteRow
<1>2. \A r \in Row : Fresh(r) => Fresh(r)'
  BY DEF Fresh, Agrees, Pending
<1>3. clock \in Nat /\ reply \in Nat
  BY DEF TypeOK, ServerTypeOK, EngineTypeOK
<1>4. StampOrder'
  BY <1>1, <1>3 DEF PullInv, StampOrder
<1>5. ReplyIsNew'
  <2> SUFFICES ASSUME pc = "mark", NEW op \in batch, IsNext(op), op.do # "audit"
               PROVE  /\ cursor[TableOf(op.row)] < reply
                      /\ cache'[op.row].ts <= reply
                      /\ reply <= remote[op.row].ts
    BY DEF ReplyIsNew, IsNext
  <2>1. op.row \in Row
    BY DEF TypeOK, EngineTypeOK, Entry
  <2>2. /\ cursor[TableOf(op.row)] < reply
        /\ cache[op.row].ts <= reply
        /\ reply <= remote[op.row].ts
    BY DEF PullInv, ReplyIsNew
  <2> QED
    BY <1>1, <1>3, <2>1, <2>2
<1>6. FreshBehindPosition'
  BY <1>2 DEF PullInv, FreshBehindPosition, Position, Snapshot
<1>7. PageCovers' /\ NothingInvented'
  BY <1>2 DEF PullInv, PageCovers, NothingInvented, Present, Beyond, Snapshot
<1>8. PageInv'
  <2> SUFFICES ASSUME pc = "apply"
               PROVE  \A x \in todo : cache'[x.row].ts <= x.ts
    BY DEF PullInv, PageInv, Beyond, Snapshot
  <2>1. \A x \in todo : x.row \in Row /\ x.ts \in Nat /\ cache[x.row].ts <= x.ts
    BY DEF PullInv, PageInv, TypeOK, EngineTypeOK, PulledRow
  <2> QED
    BY <1>1, <2>1
<1>9. CursorSound'
  BY <1>2 DEF PullInv, CursorSound
<1> QED
  BY <1>4, <1>5, <1>6, <1>7, <1>8, <1>9 DEF PullInv

\* A handler edits the cache only in that way.
LEMMA HandlerEdits ==
  ASSUME CacheTypeOK, NEW w \in Worker, Handle(w) \/ HandleFails(w)
  PROVE  \A r \in Row :
           cache'[r] = cache[r] \/ (cache'[r].sync = "pending" /\ cache'[r].ts = 0)
<1> DEFINE Edit == \A r \in Row :
                     cache'[r] = cache[r] \/ (cache'[r].sync = "pending" /\ cache'[r].ts = 0)
<1>1. ASSUME NEW q, NEW v, UpsertLocal(q, v) PROVE Edit
  BY <1>1 DEF UpsertLocal, CacheTypeOK
<1>2. ASSUME NEW S, DeleteLocal(S) PROVE Edit
  <2>1. \A r \in Row : cache[r] \in CacheRow
    BY DEF CacheTypeOK
  <2> QED
    BY <1>2, <2>1 DEF DeleteLocal, CacheRow
<1>3. CASE UNCHANGED cache
  BY <1>3
<1>4. CASE Handle(w)
  BY <1>1, <1>2, <1>3, <1>4, Zenon DEF Handle, CreateEntity, FindEntity, EnsureEntity, AddObservation,
     AddRelation, DeleteEntity, DeleteRelation, DeleteOne, EraseObservations, LookupErased, EnqueueWrite, RecordAudit,
     TriggerSync, cacheVars
<1>5. CASE HandleFails(w)
  BY <1>3, <1>5 DEF HandleFails, AbortCall, DropWrite, DropAudit, cacheVars
<1> QED
  BY <1>4, <1>5

\* With stamps in commit order, a write carries a stamp newer than all others.
LEMMA WriteIsNewest ==
  ASSUME MaxLag = 0, ServerTypeOK, NEW r \in Row, NEW v, NEW s \in Stamp,
         UpsertAt(r, v, s) \/ DeleteAt(r, s)
  PROVE  /\ s = clock + 1 /\ clock' = clock + 1
         /\ remote'[r].ts = clock + 1
         /\ \A q \in Row : q # r => remote'[q] = remote[q]
<1>1. s = clock + 1
  BY DEF Stamp, ServerTypeOK
<1>2. clock' = clock + 1
  BY <1>1 DEF UpsertAt, DeleteAt, Commit, ServerTypeOK
<1>3. CASE UpsertAt(r, v, s)
  BY <1>1, <1>2, <1>3 DEF UpsertAt, ServerTypeOK
<1>4. CASE DeleteAt(r, s)
  BY <1>1, <1>2, <1>4 DEF DeleteAt, ServerTypeOK, RemoteRow
<1> QED
  BY <1>3, <1>4

\* Such a write leaves the cursors behind it.
LEMMA WriteKeepsOrder ==
  ASSUME TypeOK, StampOrder, NothingInvented, CursorSound, UNCHANGED <<cache, cursor>>,
         NEW r \in Row, clock' = clock + 1, remote'[r].ts = clock + 1,
         \A q \in Row : q # r => remote'[q] = remote[q]
  PROVE  StampOrder' /\ NothingInvented' /\ CursorSound'
<1>1. /\ clock \in Nat
      /\ \A q \in Row : cache[q].ts \in Nat /\ remote[q].ts \in Nat
      /\ \A t \in Table : cursor[t] \in Nat
  BY DEF TypeOK, ServerTypeOK, CacheTypeOK, CacheRow, RemoteRow
<1>2. StampOrder'
  BY <1>1 DEF StampOrder
<1>4. NothingInvented'
  BY <1>1 DEF NothingInvented, Present, Fresh, Agrees, Pending
<1>3. CursorSound'
  <2> SUFFICES ASSUME NEW q \in Row, remote'[q].ts < cursor[TableOf(q)]
               PROVE  Fresh(q)'
    BY DEF CursorSound
  <2>1. TableOf(q) \in Table
    BY DEF TableOf, Table
  <2>2. q # r
    BY <1>1, <2>1 DEF StampOrder
  <2> QED
    BY <2>2 DEF CursorSound, Fresh, Agrees, Pending
<1> QED
  BY <1>2, <1>3, <1>4

\* A peer's write falls beyond the position of the pull and beyond its page.
LEMMA PeerStep ==
  ASSUME TypeOK, PullInv, UNCHANGED <<cacheVars, engineVars>>, NEW r \in Row,
         clock' = clock + 1, remote'[r].ts = clock + 1,
         \A q \in Row : q # r => remote'[q] = remote[q]
  PROVE  PullInv'
<1> USE DEF cacheVars, engineVars, drainVars, pullVars
<1>1. StampOrder' /\ NothingInvented' /\ CursorSound'
  BY WriteKeepsOrder DEF PullInv
<1>2. /\ clock \in Nat /\ reply \in Nat
      /\ \A q \in Row : cache[q].ts \in Nat /\ remote[q].ts \in Nat
      /\ \A t \in Table : cursor[t] \in Nat /\ cursor[t] <= clock
      /\ \A q \in Row : remote[q].ts <= clock
  BY DEF PullInv, StampOrder, TypeOK, ServerTypeOK, CacheTypeOK, EngineTypeOK, CacheRow, RemoteRow
<1>3. \A q \in Row : remote[q].ts <= remote'[q].ts
  BY <1>2
<1>4. ReplyIsNew'
  <2> SUFFICES ASSUME pc = "mark", NEW op \in batch, IsNext(op), op.do # "audit"
               PROVE  /\ cursor[TableOf(op.row)] < reply
                      /\ cache[op.row].ts <= reply
                      /\ reply <= remote'[op.row].ts
    BY DEF ReplyIsNew, IsNext
  <2>1. op.row \in Row
    BY DEF TypeOK, EngineTypeOK, Entry
  <2>2. /\ cursor[TableOf(op.row)] < reply
        /\ cache[op.row].ts <= reply
        /\ reply <= remote[op.row].ts
    BY DEF PullInv, ReplyIsNew
  <2>3. remote'[op.row].ts \in Nat
    BY <1>2, <2>1
  <2> QED
    BY <1>2, <1>3, <2>1, <2>2, <2>3
<1>5. table \in Table
  BY DEF TypeOK, EngineTypeOK
<1>6. FreshBehindPosition'
  <2> SUFFICES ASSUME pc \in {"fetch", "apply"}, NEW q \in Row, TableOf(q) = table,
                      ~Before(Position, Snapshot(q))'
               PROVE  Fresh(q)'
    BY DEF FreshBehindPosition
  <2>1. CASE q = r
    <3>1. cursor[table] < remote'[r].ts
      BY <1>2, <1>5
    <3> QED
      BY <2>1, <3>1 DEF Before, Position, Snapshot
  <2>2. CASE q # r
    <3>1. Snapshot(q)' = Snapshot(q) /\ Position' = Position /\ (Fresh(q) => Fresh(q)')
      BY <2>2 DEF Snapshot, Position, Fresh, Agrees, Pending
    <3>2. ~Before(Position, Snapshot(q))
      BY <3>1 DEF Before
    <3> QED
      BY <3>1, <3>2 DEF PullInv, FreshBehindPosition
  <2> QED
    BY <2>1, <2>2
<1>7. ASSUME pc = "apply", NEW q \in Row
      PROVE  Beyond(q) \/ q = r => Beyond(q)'
  <2>1. \A x \in page : x.ts \in Nat /\ x.ts <= clock
    BY <1>7 DEF PullInv, PageInv, TypeOK, EngineTypeOK, PulledRow
  <2>2. CASE q = r
    BY <1>2, <2>1, <2>2 DEF Beyond, Before, Snapshot
  <2>3. CASE q # r
    BY <2>3 DEF Beyond, Before, Snapshot
  <2> QED
    BY <2>2, <2>3
<1>8. PageCovers'
  <2> SUFFICES ASSUME pc = "apply", NEW q \in Row, TableOf(q) = table
               PROVE  (Fresh(q) \/ Beyond(q) \/ Snapshot(q) \in todo)'
    BY DEF PageCovers
  <2>1. CASE q = r
    BY <1>7, <2>1
  <2>2. CASE q # r
    <3>1. Fresh(q) \/ Beyond(q) \/ Snapshot(q) \in todo
      BY DEF PullInv, PageCovers
    <3> QED
      BY <1>7, <2>2, <3>1 DEF Fresh, Agrees, Pending, Snapshot
  <2> QED
    BY <2>1, <2>2
<1>9. PageInv'
  <2> SUFFICES ASSUME pc = "apply" PROVE PageInv'
    BY DEF PageInv
  <2>1. \A x \in page : x.ts \in Nat /\ x.row \in Row
    BY DEF TypeOK, EngineTypeOK, PulledRow
  <2>2. \A x \in page : x.ts <= clock' /\ TableOf(x.row) = table
    BY <1>2, <2>1 DEF PullInv, PageInv
  <2>3. ASSUME NEW x \in todo
        PROVE  /\ cache[x.row].ts <= x.ts
               /\ x.ts <= remote'[x.row].ts
               /\ x = Snapshot(x.row)' \/ Beyond(x.row)'
    <3>1. x \in page
      BY DEF TypeOK, EngineTypeOK
    <3>2. /\ cache[x.row].ts <= x.ts
          /\ x.ts <= remote[x.row].ts
          /\ x = Snapshot(x.row) \/ Beyond(x.row)
      BY DEF PullInv, PageInv
    <3>3. x.row \in Row /\ x.ts \in Nat /\ remote'[x.row].ts \in Nat
      BY <1>2, <2>1, <3>1
    <3>4. x = Snapshot(x.row)' \/ Beyond(x.row)'
      BY <1>7, <3>2, <3>3 DEF Snapshot
    <3> QED
      BY <1>2, <1>3, <3>2, <3>3, <3>4
  <2> QED
    BY <2>2, <2>3 DEF PullInv, PageInv
<1> QED
  BY <1>1, <1>4, <1>6, <1>8, <1>9 DEF PullInv
\* A push stamps its row beyond everything the device has seen.
LEMMA PushStep ==
  ASSUME MaxLag = 0, TypeOK, PullInv, QueueInv, NEW op \in batch, Push(op) \/ PushLost(op)
  PROVE  PullInv'
<1> USE DEF cacheVars, pullVars
<1>1. op \in Entry /\ (op.do # "audit" => op.row \in Row)
  <2>1. op \in Entry
    BY DEF TypeOK, EngineTypeOK
  <2> QED
    BY <2>1 DEF Entry
<1>2. PICK s \in Stamp : Execute(op, s)
  BY DEF Push, PushLost
<1>3. UNCHANGED <<cache, cursor, batch>> /\ pc' \in {"mark", "success", "failure"}
  BY DEF Push, PushLost
<1>4. ASSUME NEW p \in batch', IsNext(p)'
      PROVE  p = op
  <2>1. \A q \in batch : q.id \in Nat
    BY DEF TypeOK, EngineTypeOK, Entry
  <2>2. p.id = op.id /\ p \in queue /\ op \in queue
    BY <1>3, <1>4, <2>1 DEF Push, PushLost, IsNext, QueueInv
  <2> QED
    BY <2>2 DEF QueueInv
<1>5. CASE op.do \in {"delete", "audit"} /\ reply' = 0 /\ UNCHANGED <<remote, clock>>
  <2>1. StampOrder' /\ NothingInvented' /\ CursorSound'
    BY <1>3, <1>5
    DEF PullInv, StampOrder, NothingInvented, CursorSound, Present, Fresh, Agrees, Pending
  <2>2. pc' = "mark" => op.do = "audit"
    BY <1>5 DEF Push, PushLost
  <2> QED
    BY <1>3, <1>4, <2>1, <2>2
    DEF PullInv, ReplyIsNew, FreshBehindPosition, PageCovers, PageInv
<1>6. CASE /\ UpsertAt(op.row, op.val, s) \/ DeleteAt(op.row, s)
           /\ reply' = s
           /\ op.row \in Row
  <2>1. /\ s = clock + 1 /\ clock' = clock + 1
        /\ remote'[op.row].ts = clock + 1
        /\ \A q \in Row : q # op.row => remote'[q] = remote[q]
    BY <1>6, WriteIsNewest DEF TypeOK
  <2>2. StampOrder' /\ NothingInvented' /\ CursorSound'
    BY <1>3, <1>6, <2>1, WriteKeepsOrder DEF PullInv
  <2>3. /\ cursor[TableOf(op.row)] < reply'
        /\ cache[op.row].ts <= reply'
        /\ reply' <= remote'[op.row].ts
    <3>1. /\ clock \in Nat /\ cache[op.row].ts \in Nat /\ remote[op.row].ts \in Nat
          /\ cursor[TableOf(op.row)] \in Nat /\ TableOf(op.row) \in Table
      BY <1>6 DEF TypeOK, ServerTypeOK, CacheTypeOK, CacheRow, RemoteRow, TableOf, Table
    <3>2. /\ cursor[TableOf(op.row)] <= clock
          /\ cache[op.row].ts <= remote[op.row].ts /\ remote[op.row].ts <= clock
      BY <1>6, <3>1 DEF PullInv, StampOrder
    <3> QED
      BY <1>6, <2>1, <3>1, <3>2
  <2>4. ReplyIsNew'
    BY <1>3, <1>4, <2>3 DEF ReplyIsNew
  <2> QED
    BY <1>3, <2>2, <2>4 DEF PullInv, FreshBehindPosition, PageCovers, PageInv
<1> QED
  BY <1>1, <1>2, <1>5, <1>6 DEF Execute

\* Marking the pushed row keeps it behind the server and ahead of the cursor.
LEMMA MarkStep ==
  ASSUME TypeOK, PullInv, NEW op \in batch, Mark(op)
  PROVE  PullInv'
<1> USE DEF serverVars, pullVars
<1>1. pc' = "success" /\ UNCHANGED <<cursor, remote, clock>> /\ pc = "mark" /\ IsNext(op)
  BY DEF Mark
<1>2. CASE UNCHANGED cache
  <2>1. StampOrder' /\ NothingInvented' /\ CursorSound'
    BY <1>1, <1>2
    DEF PullInv, StampOrder, NothingInvented, CursorSound, Present, Fresh, Agrees, Pending
  <2> QED
    BY <1>1, <2>1, QuietStep
<1>3. CASE op.do # "audit" /\ MarkSynced(op.row, reply)
  <2>1. op.row \in Row
    <3>1. op \in Entry
      BY DEF TypeOK, EngineTypeOK
    <3> QED
      BY <1>3, <3>1 DEF Entry
  <2>2. /\ cursor[TableOf(op.row)] < reply
        /\ reply <= remote[op.row].ts
    BY <1>1, <1>3 DEF PullInv, ReplyIsNew
  <2>3. /\ cache'[op.row].ts = reply
        /\ \A q \in Row : q # op.row => cache'[q] = cache[q]
    BY <1>3, <2>1 DEF MarkSynced, TypeOK, CacheTypeOK, CacheRow
  <2>4. StampOrder'
    BY <1>1, <2>2, <2>3 DEF PullInv, StampOrder
  <2>5. CursorSound'
    <3> SUFFICES ASSUME NEW q \in Row, remote[q].ts < cursor[TableOf(q)]
                 PROVE  Fresh(q)'
      BY <1>1 DEF CursorSound
    <3>1. TableOf(q) \in Table /\ remote[q].ts \in Nat /\ cursor[TableOf(q)] \in Nat
      BY DEF TableOf, Table, TypeOK, ServerTypeOK, CacheTypeOK, RemoteRow
    <3>2. reply \in Nat
      BY DEF TypeOK, EngineTypeOK
    <3>3. q # op.row
      BY <2>2, <3>1, <3>2
    <3> QED
      BY <1>1, <2>3, <3>3 DEF PullInv, CursorSound, Fresh, Agrees, Pending
  <2>6. NothingInvented'
    <3>1. Present(op.row)
      <4>1. cursor[TableOf(op.row)] \in Nat /\ reply \in Nat /\ remote[op.row].ts \in Nat
        BY <2>1 DEF TableOf, Table, TypeOK, ServerTypeOK, CacheTypeOK, EngineTypeOK, RemoteRow
      <4> QED
        BY <2>2, <4>1 DEF Present
    <3> QED
      BY <1>1, <2>3, <3>1 DEF PullInv, NothingInvented, Present, Fresh, Agrees, Pending
  <2> QED
    BY <1>1, <2>4, <2>5, <2>6, QuietStep
<1> QED
  BY <1>2, <1>3 DEF Mark

\* Steps that leave rows, cursors and stamps alone and end in a quiet place or
\* at the start of a table.
LEMMA IdleStep ==
  ASSUME PullInv, TypeOK', UNCHANGED <<cache, cursor, remote, clock>>,
         pc' \notin {"mark", "fetch", "apply"} \/ (pc' = "fetch" /\ sinceId' = NoRow)
  PROVE  PullInv'
<1>1. StampOrder' /\ NothingInvented' /\ CursorSound'
  BY DEF PullInv, StampOrder, NothingInvented, CursorSound, Present, Fresh, Agrees, Pending
<1> QED
  BY <1>1, QuietStep, StartOfTable

\* A page that was just read covers its table.
LEMMA FetchStep ==
  ASSUME TypeOK, TypeOK', PullInv, Fetch
  PROVE  PullInv'
<1> DEFINE rows == FirstRows(Newer(table, cursor[table], sinceId), PageSize)
<1> USE DEF cacheVars, serverVars
<1>1. CASE NextTable
  <2>1. (pc' = "fetch" /\ sinceId' = NoRow) \/ pc' = "idle"
    BY <1>1 DEF NextTable, PullFrom, EndPull, EndCycle
  <2>2. UNCHANGED <<cache, cursor, remote, clock>>
    BY DEF Fetch
  <2> QED
    BY <2>1, <2>2, IdleStep
<1>2. CASE page' = rows /\ todo' = rows /\ pc' = "apply" /\ UNCHANGED <<mode, table, sinceId>>
  <2>1. /\ \A x \in rows : x.row \in Row /\ TableOf(x.row) = table /\ x = Snapshot(x.row)
        /\ \A r \in Row : TableOf(r) = table /\ Present(r) /\ Before(Position, Snapshot(r)) =>
             Snapshot(r) \in rows \/ \A x \in rows : Before(x, Snapshot(r))
    BY FetchedPage
  <2> HIDE DEF rows
  <2>2. UNCHANGED <<cache, cursor, remote, clock, table, sinceId>> /\ pc = "fetch"
    BY <1>2 DEF Fetch
  <2>3. StampOrder' /\ NothingInvented' /\ CursorSound'
    BY <2>2
    DEF PullInv, StampOrder, NothingInvented, CursorSound, Present, Fresh, Agrees, Pending
  <2>4. \A r \in Row : Snapshot(r)' = Snapshot(r) /\ (Fresh(r) => Fresh(r)')
    BY <2>2 DEF Snapshot, Fresh, Agrees, Pending
  <2>5. FreshBehindPosition'
    <3> SUFFICES ASSUME NEW r \in Row, TableOf(r) = table, ~Before(Position, Snapshot(r))'
                 PROVE  Fresh(r)'
      BY <2>2 DEF FreshBehindPosition
    <3>1. ~Before(Position, Snapshot(r))
      BY <2>2 DEF Before, Position, Snapshot
    <3>2. Fresh(r)
      BY <2>2, <3>1 DEF PullInv, FreshBehindPosition
    <3> QED
      BY <2>4, <3>2
  <2>6. PageCovers'
    <3> SUFFICES ASSUME NEW r \in Row, TableOf(r) = table
                 PROVE  Fresh(r)' \/ Beyond(r)' \/ Snapshot(r)' \in rows
      BY <1>2, <2>2 DEF PageCovers
    <3>1. CASE Fresh(r)
      BY <2>4, <3>1
    <3>2. CASE ~Present(r)
      <4>1. Fresh(r)
        BY <3>2 DEF PullInv, NothingInvented
      <4> QED
        BY <2>4, <4>1
    <3>3. CASE Present(r) /\ ~Fresh(r)
      <4>1. Before(Position, Snapshot(r))
        BY <2>2, <3>3 DEF PullInv, FreshBehindPosition
      <4>2. CASE Snapshot(r) \in rows
        BY <2>4, <4>2
      <4>3. CASE \A x \in rows : Before(x, Snapshot(r))
        <5>1. \A x \in rows : Before(x, Snapshot(r))'
          BY <2>2, <4>3 DEF Before, Snapshot
        <5> QED
          BY <1>2, <4>3, <2>4 DEF Beyond, Before
      <4> QED
        BY <2>1, <3>3, <4>1, <4>2, <4>3
    <3> QED
      BY <3>1, <3>2, <3>3
  <2>7. PageInv'
    <3>1. \A x \in rows : /\ x.row \in Row /\ TableOf(x.row) = table /\ x.ts = remote[x.row].ts
                          /\ x = Snapshot(x.row)'
      BY <2>1, <2>4, SnapshotFields
    <3>2. \A r \in Row : /\ cache[r].ts \in Nat /\ remote[r].ts \in Nat
                         /\ cache[r].ts <= remote[r].ts /\ remote[r].ts <= clock
      BY DEF PullInv, StampOrder, TypeOK, CacheTypeOK, ServerTypeOK, CacheRow, RemoteRow
    <3>3. \A x, y \in rows : x.row = y.row => x = y
      BY <2>1
    <3> QED
      BY <1>2, <2>2, <3>1, <3>2, <3>3 DEF PageInv
  <2> QED
    BY <1>2, <2>3, <2>5, <2>6, <2>7 DEF PullInv, ReplyIsNew
<1> QED
  BY <1>1, <1>2 DEF Fetch
\* Applying a row of the page makes no row less fresh, and that row fresh
\* unless the server has a newer one beyond the page.
LEMMA ApplyStep ==
  ASSUME TypeOK, PullInv, NEW x \in todo, ApplyRow(x)
  PROVE  PullInv'
<1> USE DEF serverVars
<1>1. /\ pc = "apply" /\ todo' = todo \ {x}
      /\ UNCHANGED <<pc, table, sinceId, page, cursor, remote, clock>>
  BY DEF ApplyRow
<1>2. x \in page /\ x.row \in Row /\ x.ts \in Nat
  BY DEF TypeOK, EngineTypeOK, PulledRow
<1>3. /\ cache[x.row].ts <= x.ts /\ x.ts <= remote[x.row].ts
      /\ x = Snapshot(x.row) \/ Beyond(x.row)
      /\ \A y \in page : y.row = x.row => y = x
  BY <1>1, <1>2 DEF PullInv, PageInv
<1>4. /\ \A q \in Row : q # x.row => cache'[q] = cache[q]
      /\ Pending(x.row) => cache'[x.row] = cache[x.row]
      /\ ~Pending(x.row) => cache'[x.row] = [ts |-> x.ts, val |-> x.val, dead |-> x.dead,
                                             sync |-> "synced"]
  BY <1>2 DEF ApplyRow, ApplyPulled, TypeOK, CacheTypeOK
<1>5. \A q \in Row : cache[q].ts \in Nat /\ remote[q].ts \in Nat
  BY DEF TypeOK, CacheTypeOK, ServerTypeOK, CacheRow, RemoteRow
<1>12. x = Snapshot(x.row) => Fresh(x.row)'
  <2>1. ASSUME Pending(x.row) PROVE Pending(x.row)'
    BY <1>4, <2>1 DEF Pending
  <2>2. ASSUME x = Snapshot(x.row), ~Pending(x.row) PROVE Agrees(x.row)'
    <3>1. x.ts = remote[x.row].ts /\ x.val = remote[x.row].val /\ x.dead = remote[x.row].dead
      BY <2>2 DEF Snapshot
    <3> QED
      BY <1>1, <1>4, <2>2, <3>1 DEF Agrees
  <2> QED
    BY <2>1, <2>2 DEF Fresh
<1>6. ASSUME NEW q \in Row, Fresh(q)
      PROVE  Fresh(q)'
  <2>1. CASE cache'[q] = cache[q]
    BY <1>1, <1>6, <2>1 DEF Fresh, Agrees, Pending
  <2>2. CASE q = x.row /\ ~Pending(q)
    <3>1. x.ts = remote[q].ts
      BY <1>2, <1>3, <1>5, <1>6, <2>2 DEF Fresh, Agrees
    <3>2. ~Beyond(q)
      BY <1>2, <2>2, <3>1, RowAssumption DEF Beyond, Before, Snapshot
    <3> QED
      BY <1>3, <1>12, <2>2, <3>2
  <2> QED
    BY <1>4, <2>1, <2>2
<1>7. StampOrder'
  <2>1. \A q \in Row : cache'[q].ts <= remote[q].ts
    BY <1>2, <1>3, <1>4, <1>5 DEF PullInv, StampOrder
  <2> QED
    BY <1>1, <2>1 DEF PullInv, StampOrder
<1>8. CursorSound' /\ NothingInvented' /\ FreshBehindPosition'
  <2>1. CursorSound' /\ NothingInvented'
    BY <1>1, <1>6 DEF PullInv, CursorSound, NothingInvented, Present
  <2>2. FreshBehindPosition'
    BY <1>1, <1>6 DEF PullInv, FreshBehindPosition, Position, Snapshot
  <2> QED
    BY <2>1, <2>2
<1>9. \A q : Beyond(q) <=> Beyond(q)'
  BY <1>1 DEF Beyond, Snapshot
<1>10. PageCovers'
  <2> SUFFICES ASSUME NEW q \in Row, TableOf(q) = table
               PROVE  (Fresh(q) \/ Beyond(q) \/ Snapshot(q) \in todo)'
    BY <1>1 DEF PageCovers
  <2>1. CASE Fresh(q) \/ Beyond(q)
    BY <1>6, <1>9, <2>1
  <2>2. CASE Snapshot(q) \in todo /\ Snapshot(q) # x
    BY <1>1, <2>2 DEF Snapshot
  <2>3. CASE Snapshot(q) = x
    BY <1>12, <2>3, SnapshotFields
  <2>4. Fresh(q) \/ Beyond(q) \/ Snapshot(q) \in todo
    BY <1>1 DEF PullInv, PageCovers
  <2> QED
    BY <2>1, <2>2, <2>3, <2>4
<1>11. PageInv'
  <2>1. ASSUME NEW y \in todo'
        PROVE  cache'[y.row].ts <= y.ts
    <3>1. y \in todo /\ y \in page /\ y # x /\ y.row \in Row
      BY <1>1 DEF TypeOK, EngineTypeOK, PulledRow
    <3>2. y.row # x.row
      BY <1>3, <3>1
    <3> QED
      BY <1>1, <1>4, <3>1, <3>2 DEF PullInv, PageInv
  <2> QED
    BY <1>1, <1>9, <2>1 DEF PullInv, PageInv, Snapshot
<1> QED
  BY <1>1, <1>7, <1>8, <1>10, <1>11 DEF PullInv, ReplyIsNew

\* When the page is applied, every row up to its last one is fresh, so the
\* cursor may move there.
LEMMA AdvanceStep ==
  ASSUME TypeOK, TypeOK', PullInv, Advance
  PROVE  PullInv'
<1> USE DEF serverVars
<1>1. PICK last \in page :
        /\ cursor' = [cursor EXCEPT ![table] = last.ts]
        /\ NextTable \/ PullFrom(table, last.row)
  BY DEF Advance
<1>2. pc = "apply" /\ todo = {} /\ UNCHANGED <<cache, remote, clock>>
  BY DEF Advance
<1>3. /\ last.ts \in Nat /\ last.row \in Nat /\ last.ts <= clock
      /\ table \in Table
  BY <1>2, RowAssumption DEF PullInv, PageInv, TypeOK, EngineTypeOK, PulledRow
<1>4. /\ cursor'[table] = last.ts
      /\ \A t \in Table : t # table => cursor'[t] = cursor[t]
  BY <1>1, <1>3 DEF TypeOK, CacheTypeOK
<1>5. \A q \in Row : remote[q].ts \in Nat /\ TableOf(q) \in Table /\ (Fresh(q) => Fresh(q)')
  BY <1>2 DEF Fresh, Agrees, Pending, TypeOK, ServerTypeOK, RemoteRow, TableOf, Table
<1>6. ASSUME NEW q \in Row, TableOf(q) = table, ~Before(last, Snapshot(q))
      PROVE  Fresh(q)
  <2>1. Fresh(q) \/ Beyond(q)
    BY <1>2, <1>6 DEF PullInv, PageCovers
  <2> QED
    BY <1>6, <2>1 DEF Beyond
<1>7. StampOrder'
  BY <1>2, <1>3, <1>4 DEF PullInv, StampOrder
<1>8. CursorSound'
  <2> SUFFICES ASSUME NEW q \in Row, remote[q].ts < cursor'[TableOf(q)]
               PROVE  Fresh(q)
    BY <1>2, <1>5 DEF CursorSound
  <2>1. CASE TableOf(q) = table
    <3>1. ~Before(last, Snapshot(q))
      BY <1>3, <1>4, <1>5, <2>1, SnapshotFields DEF Before
    <3> QED
      BY <1>6, <2>1, <3>1
  <2>2. CASE TableOf(q) # table
    BY <1>4, <1>5, <2>2 DEF PullInv, CursorSound
  <2> QED
    BY <2>1, <2>2
<1>11. NothingInvented'
  BY <1>2, <1>5 DEF PullInv, NothingInvented, Present
<1>9. CASE NextTable
  <2>1. (pc' = "fetch" /\ sinceId' = NoRow) \/ pc' = "idle"
    BY <1>9 DEF NextTable, PullFrom, EndPull, EndCycle
  <2> QED
    BY <1>7, <1>8, <1>11, <2>1, QuietStep, StartOfTable
<1>10. CASE PullFrom(table, last.row)
  <2>1. pc' = "fetch" /\ table' = table /\ sinceId' = last.row
    BY <1>10 DEF PullFrom
  <2>2. FreshBehindPosition'
    <3> SUFFICES ASSUME NEW q \in Row, TableOf(q) = table, ~Before(Position, Snapshot(q))'
                 PROVE  Fresh(q)'
      BY <2>1 DEF FreshBehindPosition
    <3>1. ~Before(last, Snapshot(q))
      BY <1>2, <1>4, <2>1 DEF Before, Position, Snapshot
    <3> QED
      BY <1>5, <1>6, <3>1
  <2> QED
    BY <1>7, <1>8, <1>11, <2>1, <2>2 DEF PullInv, ReplyIsNew, PageCovers, PageInv
<1> QED
  BY <1>1, <1>9, <1>10
\* Every step of the engine keeps the invariant of the pull.
LEMMA CycleKeepsPull ==
  ASSUME MaxLag = 0, TypeOK, TypeOK', QueueInv, PullInv, Cycle
  PROVE  PullInv'
<1> USE DEF cacheVars, serverVars, drainVars, pullVars
<1>1. ASSUME EndDrain, UNCHANGED <<cache, cursor, remote, clock>>
      PROVE  PullInv'
  <2>1. (pc' = "fetch" /\ sinceId' = NoRow) \/ pc' = "idle"
    BY <1>1 DEF EndDrain, PullFrom, EndCycle
  <2> QED
    BY <1>1, <2>1, IdleStep
<1>2. CASE Tick \/ Triggered
  BY <1>2, IdleStep DEF Tick, Triggered
<1>3. CASE Peek \/ PeekFails
  BY <1>1, <1>3, IdleStep DEF Peek, PeekFails
<1>4. ASSUME NEW op \in batch, PushFail(op) \/ MarkFails(op) \/ Success(op)
      PROVE  PullInv'
  BY <1>4, IdleStep DEF PushFail, MarkFails, Success
<1>5. ASSUME NEW op \in batch, Failure(op)
      PROVE  PullInv'
  BY <1>1, <1>5 DEF Failure
<1>6. CASE PullFail
  BY <1>6, IdleStep DEF PullFail, EndPull, EndCycle
<1> QED
  BY <1>2, <1>3, <1>4, <1>5, <1>6, PushStep, MarkStep, FetchStep, ApplyStep, AdvanceStep DEF Cycle

\* What the other actors do to it.
LEMMA OthersKeepPull ==
  ASSUME MaxLag = 0, TypeOK, TypeOK', PullInv,
         Peers \/ Backoff \/ Restart \/ UNCHANGED vars
         \/ \E w \in Worker : Serve(w) \/ HandleFails(w)
  PROVE  PullInv'
<1> USE DEF cacheVars, serverVars, engineVars, drainVars, pullVars
<1>1. CASE Peers
  <2>1. ASSUME NEW r \in Row, NEW v \in Content, PeerUpsert(r, v)
        PROVE  PullInv'
    BY <1>1, <2>1, WriteIsNewest, PeerStep DEF Peers, PeerUpsert, TypeOK
  <2>2. ASSUME NEW r \in Row, PeerDelete(r)
        PROVE  PullInv'
    BY <1>1, <2>2, WriteIsNewest, PeerStep DEF Peers, PeerDelete, TypeOK
  <2>3. CASE FlipNetwork
    BY <1>1, <2>3, EditStep DEF Peers, FlipNetwork
  <2> QED
    BY <1>1, <2>1, <2>2, <2>3 DEF Peers
<1>2. CASE Backoff \/ UNCHANGED vars
  BY <1>2, EditStep DEF Backoff, vars
<1>3. CASE Restart
  BY <1>3, IdleStep DEF Restart
<1>4. ASSUME NEW w \in Worker, NEW tool \in Tool, Begin(w, tool)
      PROVE  PullInv'
  BY <1>4, EditStep DEF Begin
<1>5. ASSUME NEW w \in Worker, Handle(w) \/ HandleFails(w)
      PROVE  PullInv'
  BY <1>5, HandleLeaves, HandlerEdits, EditStep DEF TypeOK
<1> QED
  BY <1>1, <1>2, <1>3, <1>4, <1>5 DEF Serve

\* The invariant of the pull: behind its position every row is fresh, and a
\* page under way covers the rows between the cursor and its last row.
THEOREM PullCorrect ==
  ASSUME MaxLag = 0
  PROVE  Spec => []PullInv
<1>1. Init => PullInv
  <2> SUFFICES ASSUME Init PROVE PullInv
    OBVIOUS
  <2>1. \A r \in Row : remote[r].ts \in {0, 1} /\ cache[r].ts = 0
    BY DEF Init, ServerInit, CacheInit, Absent, Missing
  <2>7. ASSUME NEW r \in Row, remote[r].ts = 0 PROVE Agrees(r)
    <3>1. PICK old \in SUBSET Entity :
            remote = [q \in Row |-> IF q \in old THEN [Absent EXCEPT !.ts = 1] ELSE Absent]
      BY DEF Init, ServerInit
    <3>2. remote[r] = Absent
      BY <2>7, <3>1 DEF Absent
    <3>3. cache[r] = Missing
      BY DEF Init, CacheInit
    <3> QED
      BY <3>2, <3>3 DEF Agrees, Absent, Missing
  <2>8. NothingInvented
    BY <2>7 DEF NothingInvented, Present, Fresh
  <2>2. clock = 1 /\ (\A t \in Table : cursor[t] = 0) /\ pc = "fetch" /\ sinceId = NoRow
        /\ table = "entities"
    BY DEF Init, ServerInit, CacheInit, EngineInit
  <2>3. StampOrder
    BY <2>1, <2>2 DEF StampOrder
  <2>4. \A r \in Row : TableOf(r) \in Table
    BY DEF TableOf, Table
  <2>5. CursorSound
    BY <2>1, <2>2, <2>4 DEF CursorSound
  <2>6. FreshBehindPosition
    <3> SUFFICES ASSUME NEW r \in Row, ~Before(Position, Snapshot(r)) PROVE Fresh(r)
      BY DEF FreshBehindPosition
    <3>1. r > 0 /\ NoRow = 0
      BY RowAssumption DEF NoRow
    <3>2. remote[r].ts = 0
      BY <2>1, <2>2, <3>1 DEF Before, Position, Snapshot, Table
    <3> QED
      BY <2>7, <3>2 DEF Fresh
  <2> QED
    BY <2>2, <2>3, <2>5, <2>6, <2>8 DEF PullInv, ReplyIsNew, PageCovers, PageInv
<1>2. TypeOK /\ TypeOK' /\ QueueInv /\ PullInv /\ [Next]_vars => PullInv'
  BY CycleKeepsPull, OthersKeepPull DEF Next, Sync
<1> QED
  BY <1>1, <1>2, TypeCorrect, QueueCorrect, PTL DEF Spec

\* Delta pull loses nothing that was written before the cursor, as long as
\* transactions commit in the order of their stamps (pull.go).
THEOREM PullLosesNothing ==
  ASSUME MaxLag = 0
  PROVE  Spec => []CursorSound
<1>1. PullInv => CursorSound
  BY DEF PullInv
<1> QED
  BY <1>1, PullCorrect, PTL

\* What is neither the server's row nor an edit of the device is ahead of the
\* cursor.
LEMMA StaleIsAhead ==
  ASSUME TypeOK, PullInv, NEW r \in Row, ~Fresh(r)
  PROVE  Ahead(r)
<1>1. /\ remote[r].ts \in Nat /\ cursor[TableOf(r)] \in Nat
      /\ r > 0 /\ NoRow = 0
  BY RowAssumption
  DEF TypeOK, ServerTypeOK, CacheTypeOK, RemoteRow, TableOf, Table, NoRow
<1>2. Present(r)
  BY DEF PullInv, NothingInvented
<1>3. ~(remote[r].ts < cursor[TableOf(r)])
  BY DEF PullInv, CursorSound
<1>4. Before([ts |-> cursor[TableOf(r)], row |-> NoRow], Snapshot(r))
  BY <1>1, <1>3, SnapshotFields DEF Before
<1>5. Snapshot(r) \in RowsOf(TableOf(r))
  BY <1>2 DEF RowsOf
<1> QED
  BY <1>4, <1>5 DEF Ahead, Newer

\* As long as no handler fails and the process does not die, a device at rest
\* is one pull away from the server, whatever went before: the safety half of
\* convergence.  No row waits for a push that nobody will make (the carriers),
\* and no row that differs is behind a cursor (the pull), so the next pull
\* returns every row that differs (push.go: applyOp; pull.go: pullEntities).
THEOREM RestAgrees ==
  ASSUME MaxLag = 0
  PROVE  Spec => []AgreementAtRest
<1>1. TypeOK /\ PullInv /\ PendingHasCarrier => AgreementAtRest
  <2> SUFFICES ASSUME TypeOK, PullInv, PendingHasCarrier, breaks = 0, AtRest, NEW r \in Row
               PROVE  Agrees(r) \/ Ahead(r)
    BY DEF AgreementAtRest
  <2>1. ~HasCarrier(r)
    BY DEF AtRest, HasCarrier, Carries, At
  <2>2. ~Pending(r)
    BY <2>1 DEF PendingHasCarrier
  <2> QED
    BY <2>2, StaleIsAhead DEF Fresh
<1> QED
  BY <1>1, TypeCorrect, PullCorrect, CarrierKept, PTL

-----------------------------------------------------------------------------
(* Versions *)

\* A step that leaves synced rows synced does not take them back in time.
LEMMA VersionStep ==
  ASSUME TypeOK, PullInv, Next, NEW r \in Row,
         cache[r].sync = "synced", cache'[r].sync = "synced"
  PROVE  cache'[r].ts >= cache[r].ts
<1>0. cache[r].ts \in Nat
  BY DEF TypeOK, CacheTypeOK, CacheRow
<1>1. CASE cache'[r] = cache[r]
  BY <1>0, <1>1
<1>2. ASSUME NEW op \in batch, Mark(op)
      PROVE  cache'[r].ts >= cache[r].ts
  <2>1. CASE op.do # "audit" /\ op.row = r
    <3>1. cache[r].ts <= reply
      BY <1>2, <2>1 DEF Mark, PullInv, ReplyIsNew
    <3>2. cache'[r].ts = reply
      BY <1>2, <2>1 DEF Mark, MarkSynced, TypeOK, CacheTypeOK, CacheRow
    <3> QED
      BY <1>0, <3>1, <3>2 DEF TypeOK, EngineTypeOK
  <2>2. CASE op.do = "audit" \/ op.row # r
    BY <1>1, <1>2, <2>2 DEF Mark, MarkSynced, TypeOK, CacheTypeOK
  <2> QED
    BY <2>1, <2>2
<1>3. ASSUME NEW x \in todo, ApplyRow(x)
      PROVE  cache'[r].ts >= cache[r].ts
  <2>1. CASE x.row = r
    <3>1. cache[r].ts <= x.ts /\ x.ts \in Nat
      BY <1>3, <2>1 DEF ApplyRow, PullInv, PageInv, TypeOK, EngineTypeOK, PulledRow
    <3>2. cache'[r] = cache[r] \/ cache'[r].ts = x.ts
      BY <1>3, <2>1 DEF ApplyRow, ApplyPulled, TypeOK, CacheTypeOK
    <3> QED
      BY <1>0, <3>1, <3>2
  <2>2. CASE x.row # r
    BY <1>1, <1>3, <2>2 DEF ApplyRow, ApplyPulled, TypeOK, CacheTypeOK
  <2> QED
    BY <2>1, <2>2
<1>4. ASSUME NEW w \in Worker, Handle(w) \/ HandleFails(w)
      PROVE  cache'[r].ts >= cache[r].ts
  BY <1>1, <1>4, HandlerEdits DEF TypeOK
<1>5. CASE Peers \/ Backoff \/ Restart \/ \E w \in Worker, tool \in Tool : Begin(w, tool)
  BY <1>1, <1>5 DEF Peers, Backoff, Restart, Begin, cacheVars
<1>6. CASE Tick \/ Triggered \/ Peek \/ PeekFails \/ Fetch \/ Advance \/ PullFail
  BY <1>1, <1>6 DEF Tick, Triggered, Peek, PeekFails, Fetch, Advance, PullFail, cacheVars
<1>7. ASSUME NEW op \in batch,
             Push(op) \/ PushLost(op) \/ PushFail(op) \/ MarkFails(op) \/ Success(op) \/ Failure(op)
      PROVE  cache'[r].ts >= cache[r].ts
  BY <1>1, <1>7 DEF Push, PushLost, PushFail, MarkFails, Success, Failure, cacheVars
<1> QED
  BY <1>2, <1>3, <1>4, <1>5, <1>6, <1>7 DEF Next, Sync, Serve, Cycle

\* A synced row never goes back to an older version of the server's row, as
\* long as transactions commit in the order of their stamps: no page that was
\* read before a push is applied after it (engine.go: the mutex of a cycle).
THEOREM VersionsGrow ==
  ASSUME MaxLag = 0
  PROVE  Spec => SyncedVersionMonotone
<1>1. TypeOK /\ PullInv /\ [Next]_vars =>
        [\A r \in Row :
           cache[r].sync = "synced" /\ cache'[r].sync = "synced" => cache'[r].ts >= cache[r].ts]_vars
  BY VersionStep
<1> QED
  BY <1>1, TypeCorrect, PullCorrect, PTL DEF Spec, SyncedVersionMonotone
=============================================================================

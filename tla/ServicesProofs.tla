--------------------------- MODULE ServicesProofs ---------------------------
(***************************************************************************)
(* Proofs about the services behind the handlers that keep their own       *)
(* books: the audit trail, the block list, the restock notices and the     *)
(* mailings, for any number of entries, callers, customers and letters;    *)
(* and about all services together.                                        *)
(***************************************************************************)
EXTENDS MCServices, AccessProofs, StorageProofs

-----------------------------------------------------------------------------
(***************************************************************************)
(* The audit trail                                                         *)
(***************************************************************************)

\* The same type in a form the provers take apart.
TrailTypes ==
    /\ scheduled \subseteq Entries /\ fileLog \subseteq Entries
    /\ buffered \subseteq Entries /\ batch \subseteq Entries /\ through \subseteq Entries
    /\ stored \subseteq Entries /\ gone \subseteq Entries
    /\ IsFiniteSet(buffered) /\ Cardinality(buffered) <= MaxBuffered
    /\ flusher \in {"off", "waiting", "writing", "last"}
    /\ stage \in {"running", "draining", "stopping", "down"}
    /\ auditDb \in BOOLEAN /\ excused \in BOOLEAN

\* TrailComplete is not inductive alone: a flusher that takes the buffer must
\* not still hold rows of an earlier flush, a scheduled entry must not have
\* been logged, and a row that is given up must be held nowhere else.
TrailInv ==
    /\ TrailTypes /\ TrailComplete
    /\ flusher \in {"off", "waiting"} => batch = {}
    /\ scheduled \cap fileLog = {}
    /\ gone \cap (buffered \cup batch \cup through) = {}

LEMMA TrailTypesOK == TrailTypes => AuditTypeOK
BY DEF TrailTypes, AuditTypeOK

LEMMA TrailInit == AuditInit => TrailInv
<1>1. IsFiniteSet({}) /\ Cardinality({}) = 0
  BY FS_EmptySet
<1>2. 0 <= MaxBuffered
  BY AuditAssumption
<1> SUFFICES ASSUME AuditInit PROVE TrailInv
  OBVIOUS
<1>3. TrailTypes
  BY <1>1, <1>2 DEF AuditInit, TrailTypes
<1>4. TrailComplete
  BY DEF AuditInit, TrailComplete
<1> QED BY <1>3, <1>4 DEF AuditInit, TrailInv

LEMMA TrailLog ==
    ASSUME TrailInv, NEW e \in Entries, LogAudit(e)
    PROVE  TrailInv'
<1>0. e \notin fileLog
  BY DEF LogAudit, Fresh, TrailInv
<1>1. CASE UNCHANGED through
  <2>1. buffered' = buffered \cup {e} /\ Cardinality(buffered) < MaxBuffered
        /\ flusher \in {"waiting", "writing"}
    BY <1>0, <1>1 DEF LogAudit, TrailInv, TrailComplete, BufferActive
  <2>2. e \notin buffered /\ IsFiniteSet(buffered)
    BY <1>0 DEF TrailInv, TrailComplete, TrailTypes
  <2>3. IsFiniteSet(buffered') /\ Cardinality(buffered') = Cardinality(buffered) + 1
    BY <2>1, <2>2, FS_AddElement
  <2>4. Cardinality(buffered') <= MaxBuffered
    BY <2>1, <2>2, <2>3, FS_CardinalityType, AuditAssumption
  <2>5. TrailTypes'
    BY <1>1, <2>1, <2>3, <2>4 DEF TrailInv, TrailTypes, LogAudit
  <2>6. TrailComplete'
    BY <1>0, <1>1, <2>1 DEF TrailInv, TrailComplete, LogAudit
  <2> QED BY <1>0, <1>1, <2>1, <2>5, <2>6 DEF TrailInv, TrailComplete, LogAudit
<1>2. CASE through' = through \cup {e} /\ UNCHANGED buffered
  <2>1. TrailTypes'
    BY <1>2 DEF TrailInv, TrailTypes, LogAudit
  <2>2. TrailComplete'
    BY <1>0, <1>2 DEF TrailInv, TrailComplete, LogAudit
  <2> QED BY <1>0, <1>2, <2>1, <2>2 DEF TrailInv, TrailComplete, LogAudit
<1> QED BY <1>1, <1>2 DEF LogAudit

LEMMA TrailStep ==
    ASSUME TrailInv, [AuditNext]_auditVars
    PROVE  TrailInv'
<1>e. IsFiniteSet({}) /\ Cardinality({}) = 0 /\ MaxBuffered \in Nat
  BY FS_EmptySet, AuditAssumption
<1>1. ASSUME NEW e \in Entries, Schedule(e) PROVE TrailInv'
  BY <1>1 DEF TrailInv, TrailTypes, TrailComplete, Schedule, Fresh
<1>2. ASSUME NEW e \in Entries, LogAudit(e) PROVE TrailInv'
  BY <1>2, TrailLog
<1>3. ASSUME NEW e \in Entries, WriteThrough(e) PROVE TrailInv'
  <2>1. TrailTypes'
    BY <1>3 DEF TrailInv, TrailTypes, WriteThrough
  <2>2. TrailComplete'
    BY <1>3 DEF TrailInv, TrailTypes, TrailComplete, WriteThrough
  <2> QED BY <1>3, <2>1, <2>2 DEF TrailInv, TrailComplete, WriteThrough
<1>4. CASE StartFlusher \/ BeginShutdown \/ Exit \/ AuditDbUpDown
  BY <1>4 DEF TrailInv, TrailTypes, TrailComplete, StartFlusher, BeginShutdown, Exit, AuditDbUpDown
<1>5. CASE TakeBatch
  <2>1. TrailTypes'
    BY <1>5, <1>e DEF TrailInv, TrailTypes, TakeBatch
  <2> QED BY <1>5, <2>1 DEF TrailInv, TrailTypes, TrailComplete, TakeBatch
<1>6. CASE WriteBatch
  <2>1. TrailTypes'
    BY <1>6 DEF TrailInv, TrailTypes, WriteBatch
  <2>2. TrailComplete'
    BY <1>6 DEF TrailInv, TrailTypes, TrailComplete, WriteBatch
  <2> QED BY <1>6, <2>1, <2>2 DEF TrailInv, TrailComplete, WriteBatch
<1>7. CASE CancelFlusher
  <2>0. excused' \in BOOLEAN
    BY <1>7 DEF TrailInv, TrailTypes, CancelFlusher
  <2>1. TrailTypes'
    BY <1>7, <1>e, <2>0 DEF TrailInv, TrailTypes, CancelFlusher
  <2>2. TrailComplete'
    BY <1>7 DEF TrailInv, TrailTypes, TrailComplete, CancelFlusher
  <2> QED BY <1>7, <2>1, <2>2 DEF TrailInv, TrailComplete, CancelFlusher
<1>8. CASE AuditCrash
  <2>1. TrailTypes'
    BY <1>8, <1>e DEF TrailInv, TrailTypes, AuditCrash
  <2> QED BY <1>8, <2>1 DEF TrailInv, TrailTypes, TrailComplete, AuditCrash
<1>9. CASE UNCHANGED auditVars
  BY <1>9 DEF TrailInv, TrailTypes, TrailComplete, auditVars
<1> QED BY <1>1, <1>2, <1>3, <1>4, <1>5, <1>6, <1>7, <1>8, <1>9 DEF AuditNext

LEMMA TrailInvariant == AuditSpec => []TrailInv
BY TrailInit, TrailStep, PTL DEF AuditSpec

\* Every entry in the log file is in audit_log or on its way there in exactly
\* one place, or it is known why it was given up: through flushes, full
\* buffers, write-throughs, a shutdown that interrupts a flush, and crashes
\* (TrailComplete).
THEOREM TrailAlwaysComplete == AuditSpec => []TrailComplete
<1>1. TrailInv => TrailComplete
  BY DEF TrailInv
<1> QED BY <1>1, TrailInvariant, PTL

-----------------------------------------------------------------------------
(***************************************************************************)
(* The block list                                                          *)
(***************************************************************************)

LEMMA GateFacts ==
    /\ MaxEdits \in Nat /\ MaxModeFlips \in Nat /\ MaxBoots \in Nat
    /\ NoEdit \notin BOOLEAN /\ NoLoad \notin BOOLEAN /\ NoMode \notin BOOLEAN
BY GateAssumption

BlockTypes ==
    /\ dbBlocked \in BOOLEAN /\ inSet \in BOOLEAN /\ loadedSet \in BOOLEAN /\ crossed \in BOOLEAN
    /\ load \in [Loaders -> BOOLEAN \cup {NoLoad}] /\ edit \in [Editors -> BOOLEAN \cup {NoEdit}]

ModeTypes ==
    /\ gateDb \in BOOLEAN /\ maintenance \in BOOLEAN
    /\ savedMode \in BOOLEAN \cup {NoMode} /\ saving \in BOOLEAN \cup {NoMode}
    /\ boot \in {"models", "restore", "caching", "serving"}

CountTypes == edits \in 0..MaxEdits /\ flips \in 0..MaxModeFlips /\ boots \in 0..MaxBoots

\* BlockListAgrees speaks of quiet moments only. What carries it from one to
\* the next: unless changes crossed, every load and every change under way
\* brings what the database says, so the set is wrong only while a committed
\* change waits to be applied.
BlockInv ==
    ~crossed =>
      /\ \A l \in Loaders : load[l] \in {NoLoad, dbBlocked}
      /\ \A e \in Editors : edit[e] \in {NoEdit, dbBlocked}
      /\ loadedSet /\ (\A e \in Editors : edit[e] = NoEdit) => inSet = dbBlocked

GateInv == BlockTypes /\ ModeTypes /\ CountTypes /\ BlockInv

LEMMA GateInitInv == GateInit => GateInv
<1> SUFFICES ASSUME GateInit PROVE GateInv
  OBVIOUS
<1>1. BlockTypes
  BY DEF GateInit, BlockTypes
<1>2. ModeTypes
  BY DEF GateInit, ModeTypes
<1>3. CountTypes
  BY GateFacts DEF GateInit, CountTypes
<1>4. BlockInv
  BY DEF GateInit, BlockInv
<1> QED BY <1>1, <1>2, <1>3, <1>4 DEF GateInv

\* A step that leaves the set, the database and everything under way alone.
LEMMA BlockStays ==
    ASSUME BlockTypes, BlockInv, UNCHANGED blockVars
    PROVE  BlockTypes' /\ BlockInv'
<1>1. UNCHANGED <<dbBlocked, inSet, loadedSet, load, edit, crossed>>
  BY DEF blockVars
<1> QED BY <1>1 DEF BlockTypes, BlockInv

LEMMA CommitEditStep ==
    ASSUME BlockTypes, BlockInv, NEW e \in Editors, NEW v \in BOOLEAN, CommitEdit(e, v)
    PROVE  BlockTypes' /\ BlockInv'
<1>1. /\ UNCHANGED <<inSet, loadedSet, load>> /\ dbBlocked' = v
      /\ edit' = [edit EXCEPT ![e] = v]
      /\ crossed' = (crossed \/ InFlight)
  BY DEF CommitEdit
<1>2. crossed' \in BOOLEAN
  BY <1>1 DEF BlockTypes
<1>3. BlockTypes'
  BY <1>1, <1>2 DEF BlockTypes
<1>4. ASSUME ~crossed'
      PROVE  /\ \A l \in Loaders : load'[l] = NoLoad
             /\ \A f \in Editors : edit'[f] \in {NoEdit, dbBlocked'}
             /\ edit'[e] # NoEdit
  <2>1. ~InFlight
    BY <1>1, <1>4
  <2>2. (\A l \in Loaders : load[l] = NoLoad) /\ (\A f \in Editors : edit[f] = NoEdit)
    BY <2>1 DEF InFlight
  <2> QED BY <1>1, <2>2, GateFacts DEF BlockTypes
<1> QED BY <1>3, <1>4 DEF BlockInv

LEMMA BlockStep ==
    ASSUME BlockTypes, BlockInv, [GateNext]_gateVars
    PROVE  BlockTypes' /\ BlockInv'
<1>1. ASSUME NEW l \in Loaders, BeginLoad(l) PROVE BlockTypes' /\ BlockInv'
  BY <1>1 DEF BeginLoad, BlockTypes, BlockInv
<1>2. ASSUME NEW l \in Loaders, EndLoad(l) PROVE BlockTypes' /\ BlockInv'
  <2>1. load[l] \in BOOLEAN
    BY <1>2 DEF EndLoad, BlockTypes
  <2>2. BlockTypes'
    BY <1>2, <2>1 DEF EndLoad, BlockTypes
  <2>3. BlockInv'
    BY <1>2 DEF EndLoad, BlockTypes, BlockInv
  <2> QED BY <2>2, <2>3
<1>3. ASSUME NEW e \in Editors, ApplyEdit(e) PROVE BlockTypes' /\ BlockInv'
  <2>1. edit[e] \in BOOLEAN
    BY <1>3 DEF ApplyEdit, BlockTypes
  <2>2. BlockTypes'
    BY <1>3, <2>1 DEF ApplyEdit, BlockTypes
  <2>3. BlockInv'
    BY <1>3 DEF ApplyEdit, BlockTypes, BlockInv
  <2> QED BY <2>2, <2>3
<1>4. ASSUME NEW e \in Editors, NEW v \in BOOLEAN, CommitEdit(e, v) PROVE BlockTypes' /\ BlockInv'
  BY <1>4, CommitEditStep
<1>5. CASE RestartGate
  BY <1>5 DEF RestartGate, BlockTypes, BlockInv
<1>6. CASE ToggleMaintenance \/ SaveMode \/ EndLoading \/ RestoreMode \/ SetupCaching \/ GateDbUpDown
  BY <1>6, BlockStays DEF ToggleMaintenance, SaveMode, EndLoading, RestoreMode, SetupCaching, GateDbUpDown
<1>7. CASE UNCHANGED gateVars
  BY <1>7, BlockStays DEF gateVars, blockVars
<1> QED BY <1>1, <1>2, <1>3, <1>4, <1>5, <1>6, <1>7 DEF GateNext

LEMMA ModeStep ==
    ASSUME ModeTypes, CountTypes, [GateNext]_gateVars
    PROVE  ModeTypes' /\ CountTypes'
<1>1. ASSUME NEW l \in Loaders, BeginLoad(l) \/ EndLoad(l) PROVE ModeTypes' /\ CountTypes'
  BY <1>1 DEF BeginLoad, EndLoad, ModeTypes, CountTypes, modeVars
<1>2. ASSUME NEW e \in Editors, ApplyEdit(e) PROVE ModeTypes' /\ CountTypes'
  BY <1>2 DEF ApplyEdit, ModeTypes, CountTypes, modeVars
<1>3. ASSUME NEW e \in Editors, NEW v \in BOOLEAN, CommitEdit(e, v) PROVE ModeTypes' /\ CountTypes'
  BY <1>3, GateFacts DEF CommitEdit, ModeTypes, CountTypes, modeVars
<1>4. CASE ToggleMaintenance
  <2>1. ModeTypes'
    BY <1>4 DEF ToggleMaintenance, ModeTypes
  <2>2. CountTypes'
    BY <1>4, GateFacts DEF ToggleMaintenance, CountTypes
  <2> QED BY <2>1, <2>2
<1>5. CASE RestoreMode
  <2>1. maintenance' \in BOOLEAN
    BY <1>5 DEF RestoreMode, ModeTypes
  <2> QED BY <1>5, <2>1 DEF RestoreMode, ModeTypes, CountTypes
<1>6. CASE SaveMode \/ EndLoading \/ SetupCaching
  BY <1>6 DEF SaveMode, EndLoading, SetupCaching, ModeTypes, CountTypes, modeVars
<1>7. CASE RestartGate
  <2>1. ModeTypes'
    BY <1>7 DEF RestartGate, ModeTypes
  <2>2. CountTypes'
    BY <1>7, GateFacts DEF RestartGate, CountTypes
  <2> QED BY <2>1, <2>2
<1>8. CASE GateDbUpDown
  <2>1. gateDb' \in BOOLEAN
    BY <1>8 DEF GateDbUpDown, ModeTypes
  <2> QED BY <1>8, <2>1 DEF GateDbUpDown, ModeTypes, CountTypes, modeVars
<1>9. CASE UNCHANGED gateVars
  BY <1>9 DEF gateVars, ModeTypes, CountTypes
<1> QED BY <1>1, <1>2, <1>3, <1>4, <1>5, <1>6, <1>7, <1>8, <1>9 DEF GateNext

LEMMA GateInvariant == GateSpec => []GateInv
<1>1. GateInv /\ [GateNext]_gateVars => GateInv'
  BY BlockStep, ModeStep DEF GateInv
<1> QED BY <1>1, GateInitInv, PTL DEF GateSpec

LEMMA GateTypesOK == GateInv => GateTypeOK
BY DEF GateInv, BlockTypes, ModeTypes, CountTypes, GateTypeOK

\* Once the set is loaded and nothing is under way the gate bars a user
\* exactly if the database says so, for any number of loaders, blocks,
\* unblocks, panel edits, outages and restarts, unless two of them crossed
\* (BlockListAgrees).
THEOREM BlockListAlwaysAgrees == GateSpec => []BlockListAgrees
<1>1. GateInv => BlockListAgrees
  BY DEF GateInv, BlockInv, BlockTypes, BlockListAgrees, InFlight, Barred
<1> QED BY <1>1, GateInvariant, PTL

-----------------------------------------------------------------------------
(***************************************************************************)
(* Restock notices                                                         *)
(***************************************************************************)

\* The rows of a set that belong to a customer.
OfWatcher(X, w) == {r \in X : r[1] = w}

LEMMA RowParts ==
    ASSUME NEW r \in Rows
    PROVE  r[1] \in Watchers /\ r[2] \in 1..MaxTimes /\ r = <<r[1], r[2]>>
BY DEF Rows

LEMMA OfWatcherFinite ==
    ASSUME NEW X, X \subseteq Rows, NEW w
    PROVE  IsFiniteSet(OfWatcher(X, w)) /\ Cardinality(OfWatcher(X, w)) \in Nat
<1> DEFINE box == {w} \X (1..MaxTimes)
<1>0. 1 \in Int /\ MaxTimes \in Int
  BY RestockAssumption
<1>1. IsFiniteSet({w}) /\ IsFiniteSet(1..MaxTimes)
  BY <1>0, FS_Singleton, FS_Interval
<1>2. IsFiniteSet(box)
  BY <1>1, FS_Product
<1>3. OfWatcher(X, w) \subseteq box
  BY RowParts DEF OfWatcher
<1> HIDE DEF box
<1>4. IsFiniteSet(OfWatcher(X, w))
  BY <1>2, <1>3, FS_Subset
<1> QED BY <1>4, FS_CardinalityType

\* The cardinality of a union of sets apart from each other.
LEMMA UnionApart ==
    ASSUME NEW A, NEW B, IsFiniteSet(A), IsFiniteSet(B), A \cap B = {}
    PROVE  IsFiniteSet(A \cup B) /\ Cardinality(A \cup B) = Cardinality(A) + Cardinality(B)
<1>1. /\ IsFiniteSet(A \cup B)
      /\ Cardinality(A \cup B) = Cardinality(A) + Cardinality(B) - Cardinality(A \cap B)
  BY FS_Union
<1>2. Cardinality(A \cap B) = 0
  BY FS_EmptySet
<1>3. Cardinality(A) \in Nat /\ Cardinality(B) \in Nat
  BY FS_CardinalityType
<1> QED BY <1>1, <1>2, <1>3

\* Rows that move from one set to a set apart from it are still counted once.
LEMMA CountMoved ==
    ASSUME NEW A, NEW B, NEW M, IsFiniteSet(A), IsFiniteSet(B), A \cap B = {}, M \subseteq B
    PROVE  Cardinality(A \cup M) + Cardinality(B \ M) = Cardinality(A) + Cardinality(B)
<1>1. IsFiniteSet(M) /\ IsFiniteSet(B \ M)
  BY FS_Subset
<1>2. Cardinality(A \cup M) = Cardinality(A) + Cardinality(M)
  BY <1>1, UnionApart
<1>3. Cardinality(B) = Cardinality(M) + Cardinality(B \ M)
  <2>1. B = M \cup (B \ M) /\ M \cap (B \ M) = {}
    OBVIOUS
  <2> QED BY <1>1, <2>1, UnionApart
<1>4. Cardinality(A) \in Nat /\ Cardinality(B \ M) \in Nat /\ Cardinality(M) \in Nat
  BY <1>1, FS_CardinalityType
<1> QED BY <1>2, <1>3, <1>4

LEMMA OwedIs ==
    \A r : r \in Owed <=> \E n \in Restockers : notifier[n].pc = "sending" /\ r \in notifier[n].rows
BY DEF Owed

LEMMA OwedNextIs ==
    \A r : r \in Owed' <=> \E n \in Restockers : notifier'[n].pc = "sending" /\ r \in notifier'[n].rows
BY DEF Owed

LEMMA LockedRowsIs ==
    \A r : r \in LockedRows <=> \E n \in Restockers : notifier[n].pc = "locked" /\ r \in notifier[n].rows
BY DEF LockedRows

\* Every row is in one place: in the table, with one notifier, or dropped.
RowsApart ==
    /\ subs \cap Owed = {} /\ subs \cap dropped = {} /\ Owed \cap dropped = {}
    /\ \A n \in Restockers : /\ notifier[n].pc = "idle" => notifier[n].rows = {}
                             /\ notifier[n].pc = "locked" => notifier[n].rows \subseteq subs
    /\ \A m, n \in Restockers : m # n => notifier[m].rows \cap notifier[n].rows = {}

\* A subscription's number was given out, and there is one for who asks.
RowsNumbered ==
    /\ \A w \in asking : times[w] < MaxTimes
    /\ \A r \in subs \cup Owed \cup dropped : r[2] <= times[r[1]]

Counted ==
    \A w \in Watchers :
      told[w] + Cardinality(OfWatcher(Owed \cup dropped, w)) + Cardinality(OfWatcher(subs, w)) = times[w]

RestockInv == RestockTypeOK /\ RowsApart /\ RowsNumbered /\ Counted

LEMMA RestockTypes ==
    ASSUME RestockTypeOK
    PROVE  /\ \A n \in Restockers : notifier[n].rows \subseteq Rows
           /\ \A n \in Restockers : notifier[n].pc \in {"idle", "locked", "sending"}
           /\ Owed \subseteq Rows
<1>1. \A n \in Restockers : notifier[n].rows \subseteq Rows
                            /\ notifier[n].pc \in {"idle", "locked", "sending"}
  BY DEF RestockTypeOK
<1> QED BY <1>1, OwedIs

LEMMA RestockInitInv == RestockInit => RestockInv
<1> SUFFICES ASSUME RestockInit PROVE RestockInv
  OBVIOUS
<1>1. \A n \in Restockers : notifier[n] = RestockIdle
  BY DEF RestockInit
<1>2. Owed = {}
  BY <1>1, OwedIs DEF RestockIdle
<1>3. RestockTypeOK
  BY RestockAssumption DEF RestockInit, RestockTypeOK, RestockIdle
<1>4. RowsApart /\ RowsNumbered
  BY <1>1, <1>2 DEF RestockInit, RowsApart, RowsNumbered, RestockIdle
<1>5. Counted
  <2>1. \A w : OfWatcher({}, w) = {}
    BY DEF OfWatcher
  <2>2. Owed \cup dropped = {} /\ subs = {}
    BY <1>2 DEF RestockInit
  <2> QED BY <2>1, <2>2, FS_EmptySet DEF RestockInit, Counted
<1> QED BY <1>3, <1>4, <1>5 DEF RestockInv

\* Only the sets matter to the count.
LEMMA CountedStays ==
    ASSUME Counted, UNCHANGED <<told, times, subs>>, Owed' \cup dropped' = Owed \cup dropped
    PROVE  Counted'
BY DEF Counted, OfWatcher

LEMMA OwedStays ==
    ASSUME UNCHANGED notifier
    PROVE  Owed' = Owed
BY DEF Owed

LEMMA SubscribeStep ==
    ASSUME RestockInv, NEW w \in Watchers, Subscribe(w)
    PROVE  RestockInv'
<1>0. RestockTypeOK /\ RowsApart /\ RowsNumbered /\ Counted
  BY DEF RestockInv
<1>1. w \in asking /\ asking' = asking \ {w} /\ UNCHANGED <<notifier, told, dropped>> /\ Owed' = Owed
  BY OwedStays DEF Subscribe
<1>2. times \in [Watchers -> 0..MaxTimes] /\ times[w] < MaxTimes /\ times[w] \in Nat /\ MaxTimes \in Nat
  BY <1>0, <1>1, RestockAssumption DEF RestockTypeOK, RowsNumbered
<1>3. CASE UNCHANGED <<subs, times>>
  <2>1. RestockTypeOK'
    BY <1>0, <1>1, <1>3 DEF RestockTypeOK
  <2>2. RowsApart' /\ RowsNumbered'
    BY <1>0, <1>1, <1>3 DEF RowsApart, RowsNumbered
  <2>3. Counted'
    BY <1>0, <1>1, <1>3, CountedStays
  <2> QED BY <2>1, <2>2, <2>3 DEF RestockInv
<1>4. CASE times' = [times EXCEPT ![w] = @ + 1] /\ subs' = subs \cup {<<w, times[w] + 1>>}
  <2> DEFINE new == <<w, times[w] + 1>>
  <2>1. new \in Rows /\ new[1] = w /\ new[2] = times[w] + 1
    BY <1>2 DEF Rows
  <2>2. times'[w] = times[w] + 1 /\ \A v \in Watchers : v # w => times'[v] = times[v]
    BY <1>2, <1>4
  <2>3. new \notin subs \cup Owed \cup dropped
    BY <1>0, <1>2, <2>1 DEF RowsNumbered
  <2>4. subs' = subs \cup {new}
    BY <1>4
  <2> HIDE DEF new
  <2>5. times' \in [Watchers -> 0..MaxTimes]
    BY <1>2, <1>4
  <2>6. RestockTypeOK'
    BY <1>0, <1>1, <2>1, <2>4, <2>5 DEF RestockTypeOK
  <2>7. RowsApart'
    BY <1>0, <1>1, <2>3, <2>4 DEF RowsApart
  <2>8. RowsNumbered'
    <3>1. \A v \in asking' : v \in Watchers /\ v # w /\ times'[v] < MaxTimes
      BY <1>0, <1>1, <2>2 DEF RowsNumbered, RestockTypeOK
    <3>2. ASSUME NEW r \in subs \cup Owed \cup dropped PROVE r[2] <= times'[r[1]]
      <4>1. r \in Rows /\ r[2] <= times[r[1]]
        BY <1>0, RestockTypes DEF RowsNumbered, RestockTypeOK
      <4>2. r[1] \in Watchers /\ r[2] \in Nat /\ times[r[1]] \in Nat
        BY <1>2, <4>1, RowParts, RestockAssumption
      <4> QED BY <2>2, <4>1, <4>2
    <3>3. new[2] <= times'[new[1]]
      BY <1>2, <2>1, <2>2
    <3> QED BY <1>1, <2>4, <3>1, <3>2, <3>3 DEF RowsNumbered
  <2>9. Counted'
    <3> SUFFICES ASSUME NEW v \in Watchers
                 PROVE  told'[v] + Cardinality(OfWatcher(Owed' \cup dropped', v))
                          + Cardinality(OfWatcher(subs', v)) = times'[v]
      BY DEF Counted, OfWatcher
    <3>1. Owed' \cup dropped' = Owed \cup dropped /\ told' = told
      BY <1>1
    <3> DEFINE d == Cardinality(OfWatcher(Owed \cup dropped, v))
               k == Cardinality(OfWatcher(subs, v))
    <3>2. told[v] + d + k = times[v]
      BY <1>0 DEF Counted
    <3>3. IsFiniteSet(OfWatcher(subs, v)) /\ k \in Nat /\ d \in Nat /\ told[v] \in Nat /\ times[v] \in Nat
      <4>1. subs \subseteq Rows /\ Owed \cup dropped \subseteq Rows
        BY <1>0, RestockTypes DEF RestockTypeOK
      <4>2. told[v] \in Nat /\ times[v] \in Nat
        BY <1>0, RestockAssumption DEF RestockTypeOK
      <4> QED BY <4>1, <4>2, OfWatcherFinite
    <3>4. CASE v = w
      <4>1. OfWatcher(subs', v) = OfWatcher(subs, v) \cup {new} /\ new \notin OfWatcher(subs, v)
        BY <2>1, <2>3, <2>4, <3>4 DEF OfWatcher
      <4>2. Cardinality(OfWatcher(subs', v)) = k + 1
        BY <3>3, <4>1, FS_AddElement
      <4> HIDE DEF d, k
      <4>3. told[v] + d + (k + 1) = times'[v]
        BY <2>2, <3>2, <3>3, <3>4
      <4> QED BY <3>1, <4>2, <4>3 DEF d, k
    <3>5. CASE v # w
      <4>1. OfWatcher(subs', v) = OfWatcher(subs, v)
        BY <2>1, <2>4, <3>5 DEF OfWatcher
      <4> QED BY <2>2, <3>1, <3>2, <3>5, <4>1
    <3> QED BY <3>4, <3>5
  <2> QED BY <2>6, <2>7, <2>8, <2>9 DEF RestockInv
<1> QED BY <1>3, <1>4 DEF Subscribe

\* Rows that leave the table to be told, or to be dropped.
LEMMA CountedMove ==
    ASSUME RestockInv, NEW M, M \subseteq subs, subs' = subs \ M,
           Owed' \cup dropped' = (Owed \cup dropped) \cup M, UNCHANGED <<told, times>>
    PROVE  Counted'
<1> SUFFICES ASSUME NEW v \in Watchers
             PROVE  told'[v] + Cardinality(OfWatcher(Owed' \cup dropped', v))
                      + Cardinality(OfWatcher(subs', v)) = times'[v]
  BY DEF Counted, OfWatcher
<1> DEFINE A == OfWatcher(Owed \cup dropped, v)
           B == OfWatcher(subs, v)
           m == OfWatcher(M, v)
<1>0. RestockTypeOK /\ RowsApart /\ Counted
  BY DEF RestockInv
<1>1. subs \subseteq Rows /\ Owed \cup dropped \subseteq Rows
  BY <1>0, RestockTypes DEF RestockTypeOK
<1>2. IsFiniteSet(A) /\ IsFiniteSet(B) /\ Cardinality(A) \in Nat /\ Cardinality(B) \in Nat
  BY <1>1, OfWatcherFinite
<1>3. A \cap B = {} /\ m \subseteq B
  BY <1>0 DEF OfWatcher, RowsApart
<1>4. OfWatcher(Owed' \cup dropped', v) = A \cup m /\ OfWatcher(subs', v) = B \ m
  BY DEF OfWatcher
<1>5. told[v] + Cardinality(A) + Cardinality(B) = times[v]
  BY <1>0 DEF Counted
<1>t. told[v] \in Nat
  BY <1>0, RestockAssumption DEF RestockTypeOK
<1> HIDE DEF A, B, m
<1>6. Cardinality(A \cup m) + Cardinality(B \ m) = Cardinality(A) + Cardinality(B)
  BY <1>2, <1>3, CountMoved
<1>7. IsFiniteSet(A \cup m) /\ IsFiniteSet(B \ m)
  BY <1>2, <1>3, FS_Subset, FS_Union, FS_Difference
<1>8. Cardinality(A \cup m) \in Nat /\ Cardinality(B \ m) \in Nat
  BY <1>7, FS_CardinalityType
<1>9. told[v] + Cardinality(A \cup m) + Cardinality(B \ m) = times[v]
  BY ONLY <1>2, <1>5, <1>t, <1>6, <1>8
<1> QED BY <1>4, <1>9

LEMMA UnsubscribeStep ==
    ASSUME RestockInv, NEW w \in Watchers, Unsubscribe(w)
    PROVE  RestockInv'
<1>0. RestockTypeOK /\ RowsApart /\ RowsNumbered /\ Counted
  BY DEF RestockInv
<1> DEFINE M == RowsOf(w)
<1>1. /\ subs' = subs \ M /\ dropped' = dropped \cup M /\ M \cap LockedRows = {}
      /\ UNCHANGED <<times, asking, notifier, told>> /\ Owed' = Owed /\ M \subseteq subs
  BY OwedStays DEF Unsubscribe, RowsOf
<1> HIDE DEF M
<1>2. RestockTypeOK'
  BY <1>0, <1>1 DEF RestockTypeOK
<1>3. RowsApart'
  <2>1. \A n \in Restockers : notifier[n].pc = "locked" => notifier[n].rows \cap M = {}
    BY <1>1, LockedRowsIs
  <2> QED BY <1>0, <1>1, <2>1 DEF RowsApart
<1>4. RowsNumbered'
  BY <1>0, <1>1 DEF RowsNumbered
<1>5. Counted'
  BY <1>1, CountedMove
<1> QED BY <1>2, <1>3, <1>4, <1>5 DEF RestockInv

LEMMA LockRowsStep ==
    ASSUME RestockInv, NEW n \in Restockers, LockRows(n)
    PROVE  RestockInv'
<1>0. RestockTypeOK /\ RowsApart /\ RowsNumbered /\ Counted
  BY DEF RestockInv
<1>1. /\ notifier[n] = RestockIdle /\ subs \cap LockedRows = {}
      /\ notifier' = [notifier EXCEPT ![n] = [pc |-> "locked", rows |-> subs]]
      /\ UNCHANGED <<subs, times, asking, told, dropped>>
  BY DEF LockRows
<1>t. notifier \in [Restockers -> [pc : {"idle", "locked", "sending"}, rows : SUBSET Rows]]
      /\ subs \subseteq Rows
  BY <1>0 DEF RestockTypeOK
<1>2. /\ notifier'[n].pc = "locked" /\ notifier'[n].rows = subs
      /\ \A m \in Restockers : m # n => notifier'[m] = notifier[m]
  BY <1>1, <1>t
<1>3. Owed' = Owed
  <2>1. notifier[n].pc # "sending"
    BY <1>1 DEF RestockIdle
  <2> QED BY <1>2, <2>1, OwedIs, OwedNextIs
<1>4. RestockTypeOK'
  BY <1>0, <1>1, <1>t DEF RestockTypeOK
<1>5. \A m \in Restockers : m # n => notifier[m].rows \cap subs = {}
  BY <1>0, <1>1, <1>t, OwedIs, LockedRowsIs DEF RowsApart
<1>6. RowsApart'
  BY <1>0, <1>1, <1>2, <1>3, <1>5 DEF RowsApart
<1>7. RowsNumbered'
  BY <1>0, <1>1, <1>3 DEF RowsNumbered
<1>8. Counted'
  BY <1>0, <1>1, <1>3, CountedStays
<1> QED BY <1>4, <1>6, <1>7, <1>8 DEF RestockInv

LEMMA PopRowsStep ==
    ASSUME RestockInv, NEW n \in Restockers, PopRows(n)
    PROVE  RestockInv'
<1>0. RestockTypeOK /\ RowsApart /\ RowsNumbered /\ Counted
  BY DEF RestockInv
<1> DEFINE M == notifier[n].rows
<1>1. /\ notifier[n].pc = "locked" /\ subs' = subs \ M
      /\ notifier' = [notifier EXCEPT ![n].pc = "sending"]
      /\ UNCHANGED <<times, asking, told, dropped>>
  BY DEF PopRows
<1>t. notifier \in [Restockers -> [pc : {"idle", "locked", "sending"}, rows : SUBSET Rows]]
      /\ subs \subseteq Rows
  BY <1>0 DEF RestockTypeOK
<1>2. /\ notifier'[n].pc = "sending" /\ notifier'[n].rows = M
      /\ \A m \in Restockers : m # n => notifier'[m] = notifier[m]
  BY <1>1, <1>t
<1>3. M \subseteq subs
  BY <1>0, <1>1 DEF RowsApart
<1>4. Owed' = Owed \cup M
  BY <1>1, <1>2, OwedIs, OwedNextIs
<1>5. RestockTypeOK'
  <2>1. notifier' \in [Restockers -> [pc : {"idle", "locked", "sending"}, rows : SUBSET Rows]]
    BY <1>1, <1>t
  <2> QED BY <1>0, <1>1, <2>1 DEF RestockTypeOK
<1>6. RowsApart'
  BY <1>0, <1>1, <1>2, <1>3, <1>4 DEF RowsApart
<1>7. RowsNumbered'
  BY <1>0, <1>1, <1>3, <1>4 DEF RowsNumbered
<1>8. Counted'
  <2>1. Owed' \cup dropped' = (Owed \cup dropped) \cup M
    BY <1>1, <1>4
  <2> HIDE DEF M
  <2> QED BY <1>1, <1>3, <2>1, CountedMove
<1> QED BY <1>5, <1>6, <1>7, <1>8 DEF RestockInv

LEMMA TellStep ==
    ASSUME RestockInv, NEW n \in Restockers, NEW r \in Rows, Tell(n, r)
    PROVE  RestockInv'
<1>0. RestockTypeOK /\ RowsApart /\ RowsNumbered /\ Counted
  BY DEF RestockInv
<1>1. /\ notifier[n].pc = "sending" /\ r \in notifier[n].rows
      /\ told' = [told EXCEPT ![r[1]] = IF @ < MaxTimes THEN @ + 1 ELSE @]
      /\ notifier' = [notifier EXCEPT ![n] =
            IF notifier[n].rows = {r} THEN RestockIdle
            ELSE [pc |-> "sending", rows |-> notifier[n].rows \ {r}]]
      /\ UNCHANGED <<subs, times, asking, dropped>>
  BY DEF Tell
<1>t. /\ notifier \in [Restockers -> [pc : {"idle", "locked", "sending"}, rows : SUBSET Rows]]
      /\ subs \subseteq Rows /\ told \in [Watchers -> 0..MaxTimes] /\ times \in [Watchers -> 0..MaxTimes]
      /\ MaxTimes \in Nat
  BY <1>0, RestockAssumption DEF RestockTypeOK
<1> DEFINE w == r[1]
<1>w. w \in Watchers
  BY RowParts
<1>2. /\ notifier'[n] \in [pc : {"idle", "locked", "sending"}, rows : SUBSET Rows]
      /\ notifier'[n].rows = notifier[n].rows \ {r}
      /\ notifier'[n].pc \in {"idle", "sending"}
      /\ notifier'[n].pc = "idle" => notifier'[n].rows = {}
  <2>1. CASE notifier[n].rows = {r}
    BY <1>1, <1>t, <2>1 DEF RestockIdle
  <2>2. CASE notifier[n].rows # {r}
    <3>1. notifier'[n] = [pc |-> "sending", rows |-> notifier[n].rows \ {r}]
      BY <1>1, <1>t, <2>2
    <3>2. notifier[n] \in [pc : {"idle", "locked", "sending"}, rows : SUBSET Rows]
      BY <1>t
    <3>3. notifier'[n].rows = notifier[n].rows \ {r} /\ notifier'[n].pc = "sending"
      BY <1>1, <3>1, <3>2
    <3>4. notifier'[n] \in [pc : {"idle", "locked", "sending"}, rows : SUBSET Rows]
      BY <3>1, <3>2
    <3> QED BY <3>3, <3>4
  <2> QED BY <2>1, <2>2
<1>3. \A m \in Restockers : m # n => notifier'[m] = notifier[m]
  BY <1>1, <1>t
<1>4. r \in Owed /\ r \notin dropped
  BY <1>0, <1>1, OwedIs DEF RowsApart
<1>5. Owed' = Owed \ {r}
  <2>1. \A m \in Restockers : m # n => r \notin notifier[m].rows
    BY <1>0, <1>1 DEF RowsApart
  <2> QED BY <1>1, <1>2, <1>3, <2>1, OwedIs, OwedNextIs
<1>6. Counted'
  <2> SUFFICES ASSUME NEW v \in Watchers
               PROVE  told'[v] + Cardinality(OfWatcher(Owed' \cup dropped', v))
                        + Cardinality(OfWatcher(subs', v)) = times'[v]
    BY DEF Counted, OfWatcher
  <2> DEFINE A == OfWatcher(Owed \cup dropped, v)
             B == OfWatcher(subs, v)
  <2>1. IsFiniteSet(A) /\ Cardinality(A) \in Nat /\ Cardinality(B) \in Nat
    BY <1>0, RestockTypes, OfWatcherFinite DEF RestockTypeOK
  <2>2. told[v] + Cardinality(A) + Cardinality(B) = times[v]
    BY <1>0 DEF Counted
  <2>3. OfWatcher(subs', v) = B
    BY <1>1
  <2>4. CASE v = w
    <3>1. OfWatcher(Owed' \cup dropped', v) = A \ {r} /\ r \in A
      BY <1>1, <1>4, <1>5, <2>4 DEF OfWatcher
    <3> HIDE DEF A, B
    <3>2. Cardinality(A \ {r}) = Cardinality(A) - 1
      BY <2>1, <3>1, FS_RemoveElement
    <3>3. Cardinality(A) # 0
      BY <2>1, <3>1, FS_EmptySet
    <3>4. told[v] \in Nat /\ times[v] \in 0..MaxTimes
      BY <1>t
    <3>5. told[v] < MaxTimes
      BY <1>t, <2>1, <2>2, <3>3, <3>4
    <3>6. told'[v] = told[v] + 1
      BY <1>1, <1>t, <2>4, <3>5
    <3>7. (told[v] + 1) + (Cardinality(A) - 1) + Cardinality(B) = times[v]
      BY <2>1, <2>2, <3>4
    <3> QED BY <1>1, <2>3, <3>1, <3>2, <3>6, <3>7
  <2>5. CASE v # w
    <3>1. OfWatcher(Owed' \cup dropped', v) = A
      BY <1>1, <1>5, <2>5 DEF OfWatcher
    <3>2. told'[v] = told[v]
      BY <1>1, <1>t, <2>5
    <3> QED BY <1>1, <2>2, <2>3, <3>1, <3>2
  <2> QED BY <2>4, <2>5
<1>7. RestockTypeOK'
  <2>1. told' \in [Watchers -> 0..MaxTimes]
    <3>1. (IF told[w] < MaxTimes THEN told[w] + 1 ELSE told[w]) \in 0..MaxTimes
      BY <1>t, <1>w
    <3> QED BY <1>1, <1>t, <1>w, <3>1
  <2>2. notifier' \in [Restockers -> [pc : {"idle", "locked", "sending"}, rows : SUBSET Rows]]
    BY <1>1, <1>2, <1>3, <1>t
  <2> QED BY <1>0, <1>1, <2>1, <2>2 DEF RestockTypeOK
<1>8. RowsApart'
  BY <1>0, <1>1, <1>2, <1>3, <1>5 DEF RowsApart
<1>9. RowsNumbered'
  BY <1>0, <1>1, <1>5 DEF RowsNumbered
<1> QED BY <1>6, <1>7, <1>8, <1>9 DEF RestockInv

LEMMA RestockStep ==
    ASSUME RestockInv, [RestockNext]_restockVars
    PROVE  RestockInv'
<1>0. RestockTypeOK /\ RowsApart /\ RowsNumbered /\ Counted
  BY DEF RestockInv
<1>1. ASSUME NEW w \in Watchers, AskSubscribe(w) PROVE RestockInv'
  <2>1. UNCHANGED <<subs, times, notifier, told, dropped>> /\ asking' = asking \cup {w}
        /\ times[w] < MaxTimes /\ Owed' = Owed
    BY <1>1, OwedStays DEF AskSubscribe
  <2>2. RestockTypeOK' /\ RowsApart' /\ RowsNumbered'
    BY <1>0, <2>1 DEF RestockTypeOK, RowsApart, RowsNumbered
  <2> QED BY <1>0, <2>1, <2>2, CountedStays DEF RestockInv
<1>2. ASSUME NEW w \in Watchers, Subscribe(w) \/ Unsubscribe(w) PROVE RestockInv'
  BY <1>2, SubscribeStep, UnsubscribeStep
<1>3. ASSUME NEW n \in Restockers, LockRows(n) \/ PopRows(n) PROVE RestockInv'
  BY <1>3, LockRowsStep, PopRowsStep
<1>4. ASSUME NEW n \in Restockers, NEW r \in Rows, Tell(n, r) PROVE RestockInv'
  BY <1>4, TellStep
<1>5. CASE RestockCrash
  <2>1. dropped' = dropped \cup Owed /\ asking' = {} /\ UNCHANGED <<subs, times, told>>
        /\ notifier' = [n \in Restockers |-> RestockIdle]
    BY <1>5 DEF RestockCrash, Owed
  <2>2. \A n \in Restockers : notifier'[n].pc = "idle" /\ notifier'[n].rows = {}
    BY <2>1 DEF RestockIdle
  <2>3. Owed' = {}
    BY <2>2, OwedNextIs
  <2>4. RestockTypeOK'
    BY <1>0, <2>1, RestockTypes DEF RestockTypeOK, RestockIdle
  <2>5. RowsApart' /\ RowsNumbered'
    BY <1>0, <2>1, <2>2, <2>3 DEF RowsApart, RowsNumbered
  <2>6. Counted'
    BY <1>0, <2>1, <2>3, CountedStays
  <2> QED BY <2>4, <2>5, <2>6 DEF RestockInv
<1>6. CASE UNCHANGED restockVars
  <2>1. UNCHANGED <<subs, times, asking, notifier, told, dropped>> /\ Owed' = Owed
    BY <1>6, OwedStays DEF restockVars
  <2>2. RestockTypeOK' /\ RowsApart' /\ RowsNumbered'
    BY <1>0, <2>1 DEF RestockTypeOK, RowsApart, RowsNumbered
  <2> QED BY <1>0, <2>1, <2>2, CountedStays DEF RestockInv
<1> QED BY <1>1, <1>2, <1>3, <1>4, <1>5, <1>6 DEF RestockNext

LEMMA RestockInvariant == RestockSpec => []RestockInv
BY RestockInitInv, RestockStep, PTL DEF RestockSpec

\* However restocks, subscriptions, withdrawals and crashes interleave, a
\* subscription is told once or still waits in one place, unless its owner
\* withdrew it or a crash lost it (ToldOnce).
THEOREM AlwaysToldOnce == RestockSpec => []ToldOnce
<1>1. RestockInv => ToldOnce
  BY DEF RestockInv, Counted, RowsApart, ToldOnce, OfWatcher, RowsOf
<1> QED BY <1>1, RestockInvariant, PTL

-----------------------------------------------------------------------------
(***************************************************************************)
(* Mailings                                                                *)
(***************************************************************************)

LEMMA MailingFacts ==
    /\ Audience \in Nat /\ BatchSize \in Nat /\ BatchSize > 0 /\ Retries \in Nat /\ Retries > 0
    /\ NoLetter \notin Letters /\ IsFiniteSet(Users) /\ Cardinality(Users) = Audience
<1>1. Audience \in Nat /\ BatchSize \in Nat /\ BatchSize > 0 /\ Retries \in Nat /\ Retries > 0
      /\ NoLetter \notin Letters
  BY MailingAssumption
<1>2. 1 \in Int /\ Audience \in Int
  BY <1>1
<1>3. IsFiniteSet(1..Audience) /\ Cardinality(1..Audience) = IF 1 > Audience THEN 0 ELSE Audience - 1 + 1
  BY <1>2, FS_Interval
<1> QED BY <1>1, <1>3 DEF Users

MailPcs == {"idle", "reserved", "batch", "pause", "report", "done", "refused"}
UnderWay == {"reserved", "batch", "pause", "report"}
MailingRows == [pc : MailPcs, at : Nat \ {0}, launched : BOOLEAN, cancelled : BOOLEAN,
                sent : Nat, blocked : Nat, failed : Nat]

MailTypes ==
    /\ prompt \in BOOLEAN /\ slot \in Letters \cup {NoLetter}
    /\ mailing \in [Letters -> MailingRows]
    /\ result \in [Letters -> [Users -> Closed \cup {"todo"}]]
    /\ tries \in [Letters -> [Users -> 0..Retries]]

\* Reserving the slot before the first await: who is under way holds it.
SlotHeld == \A l \in Letters : mailing[l].pc \in UnderWay => slot = l

\* The users whose results are in the counters: those of the batch under way
\* are not.
Current(l) == IF mailing[l].pc = "batch" THEN BatchOf(mailing[l].at) ELSE {}
Came(l, res) == {u \in Users \ Current(l) : result[l][u] = res}

TalliesRight(l) ==
    mailing[l].pc \in UnderWay \cup {"idle"} =>
      /\ mailing[l].sent = Cardinality(Came(l, "sent"))
      /\ mailing[l].blocked = Cardinality(Came(l, "blocked"))
      /\ mailing[l].failed = Cardinality(Came(l, "failed"))

TalliesBounded(l) == mailing[l].sent + mailing[l].blocked + mailing[l].failed <= Audience

\* How far the batches have come.
BatchesInOrder(l) ==
    /\ mailing[l].pc \in {"idle", "reserved"} =>
         ~mailing[l].launched /\ mailing[l].at = 1 /\ \A u \in Users : result[l][u] = "todo"
    /\ mailing[l].pc = "batch" =>
         \A u \in Users : /\ u < mailing[l].at => result[l][u] \in Closed
                          /\ u >= mailing[l].at + BatchSize => result[l][u] = "todo"
    /\ mailing[l].pc = "pause" =>
         \A u \in Users : /\ u < mailing[l].at + BatchSize => result[l][u] \in Closed
                          /\ u >= mailing[l].at + BatchSize => result[l][u] = "todo"
    /\ mailing[l].pc = "report" /\ mailing[l].launched /\ ~mailing[l].cancelled =>
         \A u \in Users : result[l][u] \in Closed

TriesLeft(l) == \A u \in Users : result[l][u] = "todo" => tries[l][u] < Retries

LetterInv(l) == TalliesRight(l) /\ TalliesBounded(l) /\ BatchesInOrder(l) /\ TriesLeft(l)

MailInv == MailTypes /\ SlotHeld /\ \A l \in Letters : LetterInv(l)

LEMMA CameFinite ==
    ASSUME NEW l \in Letters, NEW res
    PROVE  IsFiniteSet(Came(l, res)) /\ Cardinality(Came(l, res)) \in Nat
<1>1. Came(l, res) \subseteq Users
  BY DEF Came
<1>2. IsFiniteSet(Came(l, res))
  BY <1>1, MailingFacts, FS_Subset
<1> QED BY <1>2, FS_CardinalityType

\* Three sets apart from each other.
LEMMA ThreeApart ==
    ASSUME NEW A, NEW B, NEW C, NEW S, IsFiniteSet(S),
           A \subseteq S, B \subseteq S, C \subseteq S,
           A \cap B = {}, A \cap C = {}, B \cap C = {}
    PROVE  /\ Cardinality(A) + Cardinality(B) + Cardinality(C) <= Cardinality(S)
           /\ A \cup B \cup C = S => Cardinality(A) + Cardinality(B) + Cardinality(C) = Cardinality(S)
<1>1. IsFiniteSet(A) /\ IsFiniteSet(B) /\ IsFiniteSet(C)
  BY FS_Subset
<1>2. Cardinality(A) \in Nat /\ Cardinality(B) \in Nat /\ Cardinality(C) \in Nat /\ Cardinality(S) \in Nat
  BY <1>1, FS_CardinalityType
<1> DEFINE D == A \cup B
<1>3. IsFiniteSet(D) /\ Cardinality(D) = Cardinality(A) + Cardinality(B)
  BY <1>1, UnionApart
<1>4. D \cap C = {} /\ D \cup C \subseteq S /\ D \cup C = A \cup B \cup C
  OBVIOUS
<1> HIDE DEF D
<1>5. Cardinality(D \cup C) = Cardinality(D) + Cardinality(C)
  BY <1>1, <1>3, <1>4, UnionApart
<1>6. Cardinality(D \cup C) <= Cardinality(S)
  BY <1>4, FS_Subset
<1>7. Cardinality(D \cup C) = Cardinality(A) + Cardinality(B) + Cardinality(C)
  BY <1>3, <1>5
<1> QED BY <1>4, <1>6, <1>7

\* The counters of a mailing never exceed the audience.
LEMMA TalliesFit ==
    ASSUME NEW l \in Letters, mailing[l].pc \in UnderWay, TalliesRight(l)
    PROVE  TalliesBounded(l)
<1>1. /\ Came(l, "sent") \subseteq Users /\ Came(l, "blocked") \subseteq Users
      /\ Came(l, "failed") \subseteq Users /\ Came(l, "sent") \cap Came(l, "blocked") = {}
      /\ Came(l, "sent") \cap Came(l, "failed") = {} /\ Came(l, "blocked") \cap Came(l, "failed") = {}
  BY DEF Came
<1>2. Cardinality(Came(l, "sent")) + Cardinality(Came(l, "blocked")) + Cardinality(Came(l, "failed"))
        <= Audience
  BY <1>1, MailingFacts, ThreeApart
<1> QED BY <1>2 DEF TalliesRight, TalliesBounded

LEMMA MailInitInv == MailInit => MailInv
<1> SUFFICES ASSUME MailInit PROVE MailInv
  OBVIOUS
<1>1. \A l \in Letters : mailing[l] = NoMailing
  BY DEF MailInit
<1>2. MailTypes
  <2>1. NoMailing \in MailingRows
    BY DEF NoMailing, MailingRows, MailPcs
  <2>2. tries \in [Letters -> [Users -> 0..Retries]]
    BY MailingFacts DEF MailInit
  <2> QED BY <2>1, <2>2 DEF MailInit, MailTypes
<1>3. SlotHeld
  BY <1>1 DEF SlotHeld, NoMailing, UnderWay
<1>4. ASSUME NEW l \in Letters PROVE LetterInv(l)
  <2>1. \A u \in Users : result[l][u] = "todo" /\ tries[l][u] = 0
    BY DEF MailInit
  <2>2. \A res \in Closed : Came(l, res) = {}
    BY <2>1 DEF Came, Closed
  <2>3. TalliesRight(l)
    BY <1>1, <2>2, FS_EmptySet DEF TalliesRight, NoMailing, Closed
  <2> QED BY <1>1, <2>1, <2>3, MailingFacts
          DEF LetterInv, BatchesInOrder, TriesLeft, TalliesBounded, NoMailing
<1> QED BY <1>2, <1>3, <1>4 DEF MailInv

\* A letter the step leaves alone.
LEMMA LetterStays ==
    ASSUME NEW m \in Letters, LetterInv(m),
           mailing'[m] = mailing[m], result'[m] = result[m], tries'[m] = tries[m]
    PROVE  LetterInv(m)'
<1>1. Current(m)' = Current(m)
  BY DEF Current
<1>2. \A res : Came(m, res)' = Came(m, res)
  BY <1>1 DEF Came
<1> QED BY <1>2 DEF LetterInv, TalliesRight, TalliesBounded, BatchesInOrder, TriesLeft

\* A step about one letter.
LEMMA OneLetterStep ==
    ASSUME MailInv, NEW l \in Letters, MailTypes', SlotHeld', LetterInv(l)',
           \A m \in Letters \ {l} : mailing'[m] = mailing[m] /\ result'[m] = result[m] /\ tries'[m] = tries[m]
    PROVE  MailInv'
<1>1. ASSUME NEW m \in Letters \ {l} PROVE LetterInv(m)'
  BY <1>1, LetterStays DEF MailInv
<1> QED BY <1>1 DEF MailInv

\* Counters that stay right because nobody came into them or left them.
LEMMA TalliesStay ==
    ASSUME NEW l \in Letters, TalliesRight(l), mailing[l].pc \in UnderWay \cup {"idle"},
           mailing'[l].sent = mailing[l].sent, mailing'[l].blocked = mailing[l].blocked,
           mailing'[l].failed = mailing[l].failed,
           \A u \in Users, res \in Closed :
              result'[l][u] = res /\ u \notin Current(l)' <=> result[l][u] = res /\ u \notin Current(l)
    PROVE  TalliesRight(l)'
<1>1. ASSUME NEW res \in Closed PROVE Came(l, res)' = Came(l, res)
  BY DEF Came
<1> QED BY <1>1 DEF TalliesRight, Closed

\* Only the position, or a flag, of a letter changes.
LEMMA PositionTypes ==
    ASSUME MailTypes, NEW l \in Letters, NEW row \in MailingRows,
           mailing' = [mailing EXCEPT ![l] = row], UNCHANGED <<result, tries>>,
           prompt' \in BOOLEAN, slot' \in Letters \cup {NoLetter}
    PROVE  /\ MailTypes' /\ mailing'[l] = row
           /\ \A m \in Letters \ {l} : mailing'[m] = mailing[m] /\ result'[m] = result[m] /\ tries'[m] = tries[m]
BY DEF MailTypes

LEMMA ReceiveStep ==
    ASSUME MailInv, NEW l \in Letters, Receive(l)
    PROVE  MailInv'
<1>0. MailTypes /\ SlotHeld /\ LetterInv(l) /\ mailing[l] \in MailingRows
  BY DEF MailInv, MailTypes
<1> DEFINE row == [mailing[l] EXCEPT !.pc = IF slot # NoLetter THEN "refused" ELSE "reserved"]
<1>1. /\ mailing' = [mailing EXCEPT ![l] = row] /\ UNCHANGED <<prompt, result, tries>>
      /\ mailing[l].pc = "idle" /\ slot' = IF slot # NoLetter THEN slot ELSE l
  BY <1>0 DEF Receive, MailTypes
<1>2. /\ row \in MailingRows /\ row.pc = (IF slot # NoLetter THEN "refused" ELSE "reserved")
      /\ row.sent = mailing[l].sent /\ row.blocked = mailing[l].blocked /\ row.failed = mailing[l].failed
      /\ row.launched = mailing[l].launched /\ row.at = mailing[l].at
  BY <1>0 DEF MailingRows, MailPcs
<1> HIDE DEF row
<1>3. /\ MailTypes' /\ mailing'[l] = row
      /\ \A m \in Letters \ {l} : mailing'[m] = mailing[m] /\ result'[m] = result[m] /\ tries'[m] = tries[m]
  <2>1. prompt' \in BOOLEAN /\ slot' \in Letters \cup {NoLetter} /\ UNCHANGED <<result, tries>>
    BY <1>0, <1>1 DEF MailTypes
  <2> QED BY <1>0, <1>1, <1>2, <2>1, PositionTypes
<1>4. SlotHeld'
  BY <1>0, <1>1, <1>2, <1>3, MailingFacts DEF SlotHeld, UnderWay
<1>5. TalliesRight(l)'
  <2>1. Current(l)' = {} /\ Current(l) = {}
    BY <1>1, <1>2, <1>3 DEF Current
  <2> QED BY <1>0, <1>1, <1>2, <1>3, <2>1, TalliesStay DEF LetterInv
<1>6. LetterInv(l)'
  BY <1>0, <1>1, <1>2, <1>3, <1>5 DEF LetterInv, TalliesBounded, BatchesInOrder, TriesLeft
<1> QED BY <1>3, <1>4, <1>6, OneLetterStep

LEMMA SpoilStep ==
    ASSUME MailInv, NEW l \in Letters, Spoil(l)
    PROVE  MailInv'
<1>0. MailTypes /\ SlotHeld /\ LetterInv(l) /\ mailing[l] \in MailingRows
  BY DEF MailInv, MailTypes
<1> DEFINE row == [mailing[l] EXCEPT !.pc = "report"]
<1>1. /\ mailing' = [mailing EXCEPT ![l] = row] /\ UNCHANGED <<prompt, slot, result, tries>>
      /\ mailing[l].pc = "reserved"
  BY <1>0 DEF Spoil, MailTypes
<1>2. /\ row \in MailingRows /\ row.pc = "report"
      /\ row.sent = mailing[l].sent /\ row.blocked = mailing[l].blocked /\ row.failed = mailing[l].failed
      /\ row.launched = mailing[l].launched
  BY <1>0 DEF MailingRows, MailPcs
<1> HIDE DEF row
<1>3. /\ MailTypes' /\ mailing'[l] = row
      /\ \A m \in Letters \ {l} : mailing'[m] = mailing[m] /\ result'[m] = result[m] /\ tries'[m] = tries[m]
  <2>1. prompt' \in BOOLEAN /\ slot' \in Letters \cup {NoLetter} /\ UNCHANGED <<result, tries>>
    BY <1>0, <1>1 DEF MailTypes
  <2> QED BY <1>0, <1>1, <1>2, <2>1, PositionTypes
<1>4. SlotHeld'
  BY <1>0, <1>1, <1>2, <1>3 DEF SlotHeld, UnderWay
<1>5. TalliesRight(l)'
  <2>1. Current(l)' = {} /\ Current(l) = {}
    BY <1>1, <1>2, <1>3 DEF Current
  <2> QED BY <1>0, <1>1, <1>2, <1>3, <2>1, TalliesStay DEF LetterInv, UnderWay
<1>6. LetterInv(l)'
  BY <1>0, <1>1, <1>2, <1>3, <1>5 DEF LetterInv, TalliesBounded, BatchesInOrder, TriesLeft
<1> QED BY <1>3, <1>4, <1>6, OneLetterStep

LEMMA LaunchStep ==
    ASSUME MailInv, NEW l \in Letters, Launch(l)
    PROVE  MailInv'
<1>0. MailTypes /\ SlotHeld /\ LetterInv(l) /\ mailing[l] \in MailingRows
  BY DEF MailInv, MailTypes
<1> DEFINE row == [mailing[l] EXCEPT !.launched = TRUE, !.pc = IF Audience = 0 THEN "report" ELSE "batch"]
<1>1. /\ mailing' = [mailing EXCEPT ![l] = row] /\ UNCHANGED <<prompt, result, tries>>
      /\ mailing[l].pc = "reserved" /\ slot' = l
  BY <1>0 DEF Launch, MailTypes
<1>2. /\ row \in MailingRows /\ row.pc = (IF Audience = 0 THEN "report" ELSE "batch")
      /\ row.sent = mailing[l].sent /\ row.blocked = mailing[l].blocked /\ row.failed = mailing[l].failed
      /\ row.at = mailing[l].at
  BY <1>0 DEF MailingRows, MailPcs
<1> HIDE DEF row
<1>3. /\ MailTypes' /\ mailing'[l] = row
      /\ \A m \in Letters \ {l} : mailing'[m] = mailing[m] /\ result'[m] = result[m] /\ tries'[m] = tries[m]
  <2>1. prompt' \in BOOLEAN /\ slot' \in Letters \cup {NoLetter} /\ UNCHANGED <<result, tries>>
    BY <1>0, <1>1 DEF MailTypes
  <2> QED BY <1>0, <1>1, <1>2, <2>1, PositionTypes
<1>4. SlotHeld'
  BY <1>0, <1>1, <1>2, <1>3 DEF SlotHeld, UnderWay
<1>5. \A u \in Users : result[l][u] = "todo" /\ result'[l][u] = "todo"
  BY <1>0, <1>1 DEF LetterInv, BatchesInOrder
<1>6. TalliesRight(l)'
  BY <1>0, <1>1, <1>2, <1>3, <1>5, TalliesStay DEF LetterInv, UnderWay, Closed
<1>7. BatchesInOrder(l)'
  <2>1. CASE Audience = 0
    BY <1>2, <1>3, <2>1 DEF BatchesInOrder, Users
  <2>2. CASE Audience # 0
    <3>1. mailing'[l].at = 1 /\ mailing'[l].pc = "batch"
      BY <1>0, <1>1, <1>2, <1>3, <2>2 DEF LetterInv, BatchesInOrder
    <3>2. \A u \in Users : ~(u < 1)
      BY DEF Users
    <3> QED BY <1>5, <3>1, <3>2 DEF BatchesInOrder
  <2> QED BY <2>1, <2>2
<1>8. LetterInv(l)'
  BY <1>0, <1>1, <1>2, <1>3, <1>6, <1>7 DEF LetterInv, TalliesBounded, TriesLeft
<1> QED BY <1>3, <1>4, <1>8, OneLetterStep

LEMMA CancelStep ==
    ASSUME MailInv, Cancel
    PROVE  MailInv'
<1>l. PICK l \in Letters : l = slot
  BY DEF MailInv, MailTypes, Cancel
<1>0. MailTypes /\ SlotHeld /\ LetterInv(l) /\ mailing[l] \in MailingRows
  BY DEF MailInv, MailTypes
<1> DEFINE row == [mailing[l] EXCEPT !.cancelled = TRUE]
<1>1. /\ mailing' = [mailing EXCEPT ![l] = row] /\ UNCHANGED <<prompt, slot, result, tries>>
      /\ mailing[l].pc \in {"batch", "pause"}
  BY <1>0, <1>l DEF Cancel, MailTypes
<1>2. /\ row \in MailingRows /\ row.pc = mailing[l].pc /\ row.at = mailing[l].at
      /\ row.sent = mailing[l].sent /\ row.blocked = mailing[l].blocked /\ row.failed = mailing[l].failed
  BY <1>0 DEF MailingRows, MailPcs
<1> HIDE DEF row
<1>3. /\ MailTypes' /\ mailing'[l] = row
      /\ \A m \in Letters \ {l} : mailing'[m] = mailing[m] /\ result'[m] = result[m] /\ tries'[m] = tries[m]
  <2>1. prompt' \in BOOLEAN /\ slot' \in Letters \cup {NoLetter} /\ UNCHANGED <<result, tries>>
    BY <1>0, <1>1 DEF MailTypes
  <2> QED BY <1>0, <1>1, <1>2, <2>1, PositionTypes
<1>4. SlotHeld'
  BY <1>0, <1>1, <1>2, <1>3 DEF SlotHeld, UnderWay
<1>5. TalliesRight(l)'
  <2>1. Current(l)' = Current(l)
    BY <1>1, <1>2, <1>3 DEF Current
  <2> QED BY <1>0, <1>1, <1>2, <1>3, <2>1, TalliesStay DEF LetterInv, UnderWay
<1>6. LetterInv(l)'
  BY <1>0, <1>1, <1>2, <1>3, <1>5 DEF LetterInv, TalliesBounded, BatchesInOrder, TriesLeft
<1> QED BY <1>0, <1>3, <1>4, <1>6, OneLetterStep

LEMMA ReportStep ==
    ASSUME MailInv, NEW l \in Letters, Report(l)
    PROVE  MailInv'
<1>0. MailTypes /\ SlotHeld /\ LetterInv(l) /\ mailing[l] \in MailingRows
  BY DEF MailInv, MailTypes
<1> DEFINE row == [mailing[l] EXCEPT !.pc = "done"]
<1>1. /\ mailing' = [mailing EXCEPT ![l] = row] /\ mailing[l].pc = "report"
      /\ slot' = NoLetter /\ prompt' = FALSE
      /\ result' = [result EXCEPT ![l] = [u \in Users |-> "todo"]]
      /\ tries' = [tries EXCEPT ![l] = [u \in Users |-> 0]]
  BY <1>0 DEF Report, MailTypes
<1>2. /\ row \in MailingRows /\ row.pc = "done"
      /\ row.sent = mailing[l].sent /\ row.blocked = mailing[l].blocked /\ row.failed = mailing[l].failed
  BY <1>0 DEF MailingRows, MailPcs
<1> HIDE DEF row
<1>3. /\ MailTypes' /\ mailing'[l] = row /\ \A u \in Users : tries'[l][u] = 0
      /\ \A m \in Letters \ {l} : mailing'[m] = mailing[m] /\ result'[m] = result[m] /\ tries'[m] = tries[m]
  <2>1. mailing' \in [Letters -> MailingRows] /\ mailing'[l] = row
    BY <1>0, <1>1, <1>2 DEF MailTypes
  <2>2. result' \in [Letters -> [Users -> Closed \cup {"todo"}]]
    BY <1>0, <1>1 DEF MailTypes
  <2>3. tries' \in [Letters -> [Users -> 0..Retries]] /\ \A u \in Users : tries'[l][u] = 0
    BY <1>0, <1>1, MailingFacts DEF MailTypes
  <2>4. \A m \in Letters \ {l} : mailing'[m] = mailing[m] /\ result'[m] = result[m] /\ tries'[m] = tries[m]
    BY <1>0, <1>1 DEF MailTypes
  <2> QED BY <1>1, <2>1, <2>2, <2>3, <2>4 DEF MailTypes
<1>4. SlotHeld'
  <2>1. \A m \in Letters : mailing[m].pc \in UnderWay => m = l
    BY <1>0, <1>1 DEF SlotHeld, UnderWay
  <2> QED BY <1>1, <1>2, <1>3, <2>1 DEF SlotHeld, UnderWay
<1>5. LetterInv(l)'
  BY <1>0, <1>2, <1>3, MailingFacts
     DEF LetterInv, TalliesRight, TalliesBounded, BatchesInOrder, TriesLeft, UnderWay
<1> QED BY <1>3, <1>4, <1>5, OneLetterStep

LEMMA NextBatchStep ==
    ASSUME MailInv, NEW l \in Letters, NextBatch(l)
    PROVE  MailInv'
<1>0. MailTypes /\ SlotHeld /\ LetterInv(l) /\ mailing[l] \in MailingRows
  BY DEF MailInv, MailTypes
<1> DEFINE row == [mailing[l] EXCEPT !.pc = IF mailing[l].cancelled THEN "report" ELSE "batch",
                      !.at = IF mailing[l].cancelled THEN mailing[l].at ELSE mailing[l].at + BatchSize]
<1>1. /\ mailing' = [mailing EXCEPT ![l] = row] /\ UNCHANGED <<prompt, slot, result, tries>>
      /\ mailing[l].pc = "pause"
  BY <1>0 DEF NextBatch, MailTypes
<1>t. mailing[l].at \in Nat \ {0} /\ mailing[l].at + BatchSize \in Nat \ {0}
  BY <1>0, MailingFacts DEF MailingRows
<1>2. /\ row \in MailingRows
      /\ row.pc = (IF mailing[l].cancelled THEN "report" ELSE "batch")
      /\ ~mailing[l].cancelled => row.at = mailing[l].at + BatchSize
      /\ row.cancelled = mailing[l].cancelled
      /\ row.sent = mailing[l].sent /\ row.blocked = mailing[l].blocked /\ row.failed = mailing[l].failed
  BY <1>0, <1>t DEF MailingRows, MailPcs
<1> HIDE DEF row
<1>3. /\ MailTypes' /\ mailing'[l] = row
      /\ \A m \in Letters \ {l} : mailing'[m] = mailing[m] /\ result'[m] = result[m] /\ tries'[m] = tries[m]
  <2>1. prompt' \in BOOLEAN /\ slot' \in Letters \cup {NoLetter} /\ UNCHANGED <<result, tries>>
    BY <1>0, <1>1 DEF MailTypes
  <2> QED BY <1>0, <1>1, <1>2, <2>1, PositionTypes
<1>4. SlotHeld'
  BY <1>0, <1>1, <1>2, <1>3 DEF SlotHeld, UnderWay
<1>5. \A u \in Users : u >= mailing[l].at + BatchSize => result[l][u] = "todo"
  BY <1>0, <1>1 DEF LetterInv, BatchesInOrder
<1>6. \A u \in Users : u < mailing[l].at + BatchSize => result[l][u] \in Closed
  BY <1>0, <1>1 DEF LetterInv, BatchesInOrder
<1>7. TalliesRight(l)'
  <2>1. Current(l) = {}
    BY <1>1 DEF Current
  <2>2. \A u \in Current(l)' : result[l][u] = "todo"
    BY <1>2, <1>3, <1>5 DEF Current, BatchOf
  <2> QED BY <1>0, <1>1, <1>2, <1>3, <2>1, <2>2, TalliesStay DEF LetterInv, UnderWay, Closed
<1>8. BatchesInOrder(l)'
  <2>1. CASE mailing[l].cancelled
    BY <1>2, <1>3, <2>1 DEF BatchesInOrder
  <2>2. CASE ~mailing[l].cancelled
    <3>1. mailing'[l].pc = "batch" /\ mailing'[l].at = mailing[l].at + BatchSize
      BY <1>2, <1>3, <2>2
    <3>2. \A u \in Users : u >= mailing'[l].at + BatchSize => u >= mailing[l].at + BatchSize
      <4> DEFINE a == mailing[l].at
      <4>1. a \in Nat /\ mailing'[l].at = a + BatchSize /\ BatchSize \in Nat
        BY <1>t, <3>1, MailingFacts
      <4>2. \A u \in Users : u \in Nat
        BY DEF Users
      <4> HIDE DEF a
      <4>3. \A u \in Users : u >= (a + BatchSize) + BatchSize => u >= a + BatchSize
        BY <4>1, <4>2
      <4> QED BY <4>1, <4>3 DEF a
    <3> QED BY <1>1, <1>5, <1>6, <3>1, <3>2 DEF BatchesInOrder
  <2> QED BY <2>1, <2>2
<1>9. LetterInv(l)'
  BY <1>0, <1>1, <1>2, <1>3, <1>7, <1>8 DEF LetterInv, TalliesBounded, TriesLeft
<1> QED BY <1>3, <1>4, <1>9, OneLetterStep

\* What an attempt comes to concerns a user of the batch under way.
LEMMA AttemptStep ==
    ASSUME MailInv, NEW l \in Letters, NEW u \in Users, Pending(l, u),
           NEW res \in Closed \cup {"todo"}, NEW n \in 0..Retries, res = "todo" => n < Retries,
           result' = [result EXCEPT ![l][u] = res], tries' = [tries EXCEPT ![l][u] = n],
           UNCHANGED <<prompt, slot, mailing>>
    PROVE  MailInv'
<1>0. MailTypes /\ SlotHeld /\ LetterInv(l) /\ mailing[l] \in MailingRows
  BY DEF MailInv, MailTypes
<1>1. mailing[l].pc = "batch" /\ u \in BatchOf(mailing[l].at) /\ mailing[l].at \in Nat
  BY <1>0 DEF Pending, MailingRows
<1>2. result' \in [Letters -> [Users -> Closed \cup {"todo"}]]
  BY <1>0 DEF MailTypes
<1>3. tries' \in [Letters -> [Users -> 0..Retries]]
  BY <1>0 DEF MailTypes
<1>4. MailTypes'
  BY <1>0, <1>2, <1>3 DEF MailTypes
<1>5. /\ \A m \in Letters \ {l} : result'[m] = result[m] /\ tries'[m] = tries[m]
      /\ \A v \in Users : v # u => result'[l][v] = result[l][v] /\ tries'[l][v] = tries[l][v]
      /\ result'[l][u] = res /\ tries'[l][u] = n
  BY <1>0 DEF MailTypes
<1>6. SlotHeld'
  BY <1>0 DEF SlotHeld
<1>7. Current(l)' = Current(l) /\ u \in Current(l)
  BY <1>1 DEF Current
<1>8. TalliesRight(l)'
  BY <1>0, <1>1, <1>5, <1>7, TalliesStay DEF LetterInv, UnderWay
<1>9. BatchesInOrder(l)'
  <2>1. u \in Nat /\ BatchSize \in Nat /\ ~(u < mailing[l].at) /\ ~(u >= mailing[l].at + BatchSize)
    BY <1>1, MailingFacts DEF BatchOf, Users
  <2> QED BY <1>0, <1>1, <1>5, <2>1 DEF LetterInv, BatchesInOrder
<1>10. TriesLeft(l)'
  BY <1>0, <1>5 DEF LetterInv, TriesLeft
<1>11. LetterInv(l)'
  BY <1>0, <1>8, <1>9, <1>10 DEF LetterInv, TalliesBounded
<1> QED BY <1>4, <1>5, <1>6, <1>11, OneLetterStep

LEMMA AnswerStep ==
    ASSUME MailInv, NEW l \in Letters, NEW u \in Users, NEW res \in Closed, Answer(l, u, res)
    PROVE  MailInv'
<1>1. tries[l][u] \in 0..Retries /\ tries \in [Letters -> [Users -> 0..Retries]]
  BY DEF MailInv, MailTypes
<1> DEFINE n == tries[l][u]
<1>2. tries' = [tries EXCEPT ![l][u] = n]
  BY <1>1 DEF Answer
<1>3. Pending(l, u) /\ result' = [result EXCEPT ![l][u] = res] /\ UNCHANGED <<prompt, slot, mailing>>
  BY DEF Answer
<1>4. res # "todo" /\ res \in Closed \cup {"todo"} /\ n \in 0..Retries
  BY <1>1 DEF Closed
<1> HIDE DEF n
<1> QED BY <1>2, <1>3, <1>4, AttemptStep

LEMMA AgainStep ==
    ASSUME MailInv, NEW l \in Letters, NEW u \in Users, Again(l, u)
    PROVE  MailInv'
<1>1. /\ tries[l][u] \in 0..Retries /\ tries[l][u] < Retries /\ result[l][u] = "todo"
      /\ Retries \in Nat
  BY MailingFacts DEF MailInv, MailTypes, Again, Pending, LetterInv, TriesLeft
<1> DEFINE n == tries[l][u] + 1
           res == IF n = Retries THEN "failed" ELSE "todo"
<1>2. tries' = [tries EXCEPT ![l][u] = n] /\ result' = [result EXCEPT ![l][u] = res]
  BY <1>1 DEF Again
<1>3. Pending(l, u) /\ UNCHANGED <<prompt, slot, mailing>>
  BY DEF Again
<1>4. n \in 0..Retries /\ res \in Closed \cup {"todo"} /\ (res = "todo" => n < Retries)
  BY <1>1 DEF Closed
<1> HIDE DEF n, res
<1> QED BY <1>2, <1>3, <1>4, AttemptStep

LEMMA TallyAdds ==
    ASSUME NEW l \in Letters, mailing[l].pc = "batch", NEW res, mailing'[l].pc # "batch", UNCHANGED result
    PROVE  /\ Tally(l, res) \in Nat
           /\ Cardinality(Came(l, res)') = Cardinality(Came(l, res)) + Tally(l, res)
<1> DEFINE A == Came(l, res)
           B == {u \in BatchOf(mailing[l].at) : result[l][u] = res}
<1>1. IsFiniteSet(A) /\ Cardinality(A) \in Nat
  BY CameFinite
<1>2. B \subseteq Users
  BY DEF BatchOf
<1>3. IsFiniteSet(B)
  BY <1>2, MailingFacts, FS_Subset
<1>4. A \cap B = {} /\ Came(l, res)' = A \cup B
  BY <1>2 DEF Came, Current
<1>5. Tally(l, res) = Cardinality(B)
  BY DEF Tally
<1> HIDE DEF A, B
<1>6. Cardinality(A \cup B) = Cardinality(A) + Cardinality(B) /\ Cardinality(B) \in Nat
  BY <1>1, <1>3, <1>4, UnionApart, FS_CardinalityType
<1> QED BY <1>4, <1>5, <1>6 DEF A

LEMMA BatchDoneStep ==
    ASSUME MailInv, NEW l \in Letters, BatchDone(l)
    PROVE  MailInv'
<1>0. MailTypes /\ SlotHeld /\ LetterInv(l) /\ mailing[l] \in MailingRows
  BY DEF MailInv, MailTypes
<1> DEFINE to == IF LastBatch(mailing[l].at) THEN "report" ELSE "pause"
           s == mailing[l].sent + Tally(l, "sent")
           b == mailing[l].blocked + Tally(l, "blocked")
           f == mailing[l].failed + Tally(l, "failed")
           row == [mailing[l] EXCEPT !.pc = to, !.sent = s, !.blocked = b, !.failed = f]
<1>1. /\ mailing' = [mailing EXCEPT ![l] = row] /\ UNCHANGED <<prompt, slot, result, tries>>
      /\ mailing[l].pc = "batch" /\ \A u \in BatchOf(mailing[l].at) : result[l][u] \in Closed
  BY <1>0 DEF BatchDone, MailTypes
<1>t. mailing[l].at \in Nat /\ BatchSize \in Nat
  BY <1>0, MailingFacts DEF MailingRows
<1>2. mailing'[l] = row /\ row.pc = to /\ to \in {"report", "pause"}
  BY <1>0, <1>1 DEF MailTypes, MailingRows
<1>3. mailing'[l].pc # "batch"
  BY <1>2
<1>4. ASSUME NEW res
      PROVE  Tally(l, res) \in Nat /\ Cardinality(Came(l, res)') = Cardinality(Came(l, res)) + Tally(l, res)
  BY <1>1, <1>3, TallyAdds
<1>5. s \in Nat /\ b \in Nat /\ f \in Nat
  <2>1. mailing[l].sent \in Nat /\ mailing[l].blocked \in Nat /\ mailing[l].failed \in Nat
    BY <1>0 DEF MailingRows
  <2> QED BY <1>4, <2>1
<1>6. s = Cardinality(Came(l, "sent")') /\ b = Cardinality(Came(l, "blocked")') /\ f = Cardinality(Came(l, "failed")')
  BY <1>0, <1>1, <1>4 DEF LetterInv, TalliesRight, UnderWay
<1> HIDE DEF s, b, f
<1>7. /\ row \in MailingRows /\ row.sent = s /\ row.blocked = b /\ row.failed = f
      /\ row.at = mailing[l].at
  BY <1>0, <1>2, <1>5 DEF MailingRows, MailPcs
<1> HIDE DEF row
<1>8. /\ MailTypes'
      /\ \A m \in Letters \ {l} : mailing'[m] = mailing[m] /\ result'[m] = result[m] /\ tries'[m] = tries[m]
  <2>1. prompt' \in BOOLEAN /\ slot' \in Letters \cup {NoLetter} /\ UNCHANGED <<result, tries>>
    BY <1>0, <1>1 DEF MailTypes
  <2> QED BY <1>0, <1>1, <1>7, <2>1, PositionTypes
<1>9. SlotHeld'
  BY <1>0, <1>1, <1>2, <1>8 DEF SlotHeld, UnderWay
<1>10. TalliesRight(l)'
  BY <1>2, <1>6, <1>7 DEF TalliesRight
<1>11. TalliesBounded(l)'
  <2>1. TRUE /\ mailing'[l].pc \in UnderWay
    BY <1>2 DEF UnderWay
  <2>2. LET A == Came(l, "sent")'
            B == Came(l, "blocked")'
            C == Came(l, "failed")'
        IN  /\ A \subseteq Users /\ B \subseteq Users /\ C \subseteq Users
            /\ A \cap B = {} /\ A \cap C = {} /\ B \cap C = {}
    BY DEF Came
  <2>3. s + b + f <= Audience
    BY <1>6, <2>2, MailingFacts, ThreeApart
  <2> QED BY <1>2, <1>7, <2>3 DEF TalliesBounded
<1>12. \A u \in Users : u < mailing[l].at + BatchSize => result[l][u] \in Closed
  BY <1>0, <1>1, <1>t DEF LetterInv, BatchesInOrder, BatchOf, Users
<1>13. BatchesInOrder(l)'
  <2>1. CASE LastBatch(mailing[l].at)
    <3>1. \A u \in Users : u < mailing[l].at + BatchSize
      BY <1>t, <2>1, MailingFacts DEF LastBatch, Users
    <3> QED BY <1>1, <1>2, <1>12, <2>1, <3>1 DEF BatchesInOrder
  <2>2. CASE ~LastBatch(mailing[l].at)
    <3>1. \A u \in Users : u >= mailing[l].at + BatchSize => result[l][u] = "todo"
      BY <1>0, <1>1 DEF LetterInv, BatchesInOrder
    <3> QED BY <1>1, <1>2, <1>7, <1>12, <2>2, <3>1 DEF BatchesInOrder
  <2> QED BY <2>1, <2>2
<1>14. LetterInv(l)'
  BY <1>0, <1>1, <1>10, <1>11, <1>13 DEF LetterInv, TriesLeft
<1> QED BY <1>8, <1>9, <1>14, OneLetterStep

LEMMA MailStep ==
    ASSUME MailInv, [MailNext]_mailVars
    PROVE  MailInv'
<1>1. CASE OpenPrompt \/ UNCHANGED mailVars
  <2>1. UNCHANGED <<slot, mailing, result, tries>> /\ prompt' \in BOOLEAN
    BY <1>1 DEF OpenPrompt, mailVars, MailInv, MailTypes
  <2>2. MailTypes' /\ SlotHeld'
    BY <2>1 DEF MailInv, MailTypes, SlotHeld
  <2>3. \A l \in Letters : LetterInv(l)'
    BY <2>1, LetterStays DEF MailInv
  <2> QED BY <2>2, <2>3 DEF MailInv
<1>2. CASE Cancel
  BY <1>2, CancelStep
<1>3. ASSUME NEW l \in Letters,
             Receive(l) \/ Spoil(l) \/ Launch(l) \/ Report(l) \/ BatchDone(l) \/ NextBatch(l)
      PROVE  MailInv'
  BY <1>3, ReceiveStep, SpoilStep, LaunchStep, ReportStep, BatchDoneStep, NextBatchStep
<1>4. ASSUME NEW l \in Letters, NEW u \in Users, Again(l, u) \/ \E res \in Closed : Answer(l, u, res)
      PROVE  MailInv'
  BY <1>4, AgainStep, AnswerStep
<1> QED BY <1>1, <1>2, <1>3, <1>4 DEF MailNext

LEMMA MailInvariant == MailSpec => []MailInv
BY MailInitInv, MailStep, PTL DEF MailSpec

\* For any audience, batch size, number of retries and letters: a report adds
\* up to what the attempts came to, batch after batch, and one that was not
\* cancelled accounts for every user (ReportIsTrue).
THEOREM ReportAlwaysTrue == MailSpec => []ReportIsTrue
<1>1. MailInv => ReportIsTrue
  <2> SUFFICES ASSUME MailInv, NEW l \in Letters, mailing[l].pc = "report", mailing[l].launched
               PROVE  /\ \A res \in Closed :
                            mailing[l][res] = Cardinality({u \in Users : result[l][u] = res})
                      /\ ~mailing[l].cancelled =>
                            mailing[l].sent + mailing[l].blocked + mailing[l].failed = Audience
    BY DEF ReportIsTrue
  <2>1. LetterInv(l)
    BY DEF MailInv
  <2>2. \A res : Came(l, res) = {u \in Users : result[l][u] = res}
    BY DEF Came, Current
  <2>3. /\ mailing[l].sent = Cardinality(Came(l, "sent"))
        /\ mailing[l].blocked = Cardinality(Came(l, "blocked"))
        /\ mailing[l].failed = Cardinality(Came(l, "failed"))
    BY <2>1 DEF LetterInv, TalliesRight, UnderWay
  <2>4. \A res \in Closed : mailing[l][res] = Cardinality({u \in Users : result[l][u] = res})
    BY <2>2, <2>3 DEF Closed
  <2>5. ASSUME ~mailing[l].cancelled
        PROVE  mailing[l].sent + mailing[l].blocked + mailing[l].failed = Audience
    <3>1. \A u \in Users : result[l][u] \in Closed
      BY <2>1, <2>5 DEF LetterInv, BatchesInOrder
    <3> DEFINE A == Came(l, "sent")
               B == Came(l, "blocked")
               C == Came(l, "failed")
    <3>2. /\ A \subseteq Users /\ B \subseteq Users /\ C \subseteq Users
          /\ A \cap B = {} /\ A \cap C = {} /\ B \cap C = {} /\ A \cup B \cup C = Users
      BY <2>2, <3>1 DEF Closed
    <3> HIDE DEF A, B, C
    <3>3. Cardinality(A) + Cardinality(B) + Cardinality(C) = Audience
      BY <3>2, MailingFacts, ThreeApart
    <3> QED BY <2>3, <3>3 DEF A, B, C
  <2> QED BY <2>4, <2>5
<1> QED BY <1>1, MailInvariant, PTL-----------------------------------------------------------------------------
(***************************************************************************)
(* The services together                                                   *)
(***************************************************************************)

LEMMA AuditFormed == AuditSpec => []AuditTypeOK
<1>1. TrailInv => AuditTypeOK
  BY TrailTypesOK DEF TrailInv
<1> QED BY <1>1, TrailInvariant, PTL

LEMMA GateFormed == GateSpec => []GateTypeOK
<1>1. GateInv => GateTypeOK
  BY DEF GateInv, BlockTypes, ModeTypes, CountTypes, GateTypeOK
<1> QED BY <1>1, GateInvariant, PTL

LEMMA RestockFormed == RestockSpec => []RestockTypeOK
BY RestockInvariant, PTL DEF RestockInv

\* The slot belongs to one letter, so one mailing is under way at most.
LEMMA MailFormed == MailSpec => []MailTypeOK
<1>1. MailInv => MailTypeOK
  <2> SUFFICES ASSUME MailInv PROVE MailTypeOK
    OBVIOUS
  <2>1. MailTypes /\ SlotHeld
    BY DEF MailInv
  <2>2. ASSUME NEW l \in Letters
        PROVE  /\ mailing[l].pc \in {"idle", "reserved", "batch", "pause", "report", "done", "refused"}
               /\ mailing[l].sent + mailing[l].blocked + mailing[l].failed <= Audience
    BY <2>1 DEF MailInv, LetterInv, TalliesBounded, MailTypes, MailingRows, MailPcs
  <2>3. PICK S : S = {l \in Letters : mailing[l].pc \in {"reserved", "batch", "pause", "report"}}
    OBVIOUS
  <2>4. Cardinality(S) <= 1
    <3>1. CASE S = {}
      BY <3>1, FS_EmptySet
    <3>2. CASE S # {}
      <4>1. S = {slot}
        BY <2>1, <2>3, <3>2 DEF SlotHeld, UnderWay
      <4>2. Cardinality({slot}) = 1
        BY FS_Singleton
      <4> QED BY <4>1, <4>2
    <3> QED BY <3>1, <3>2
  <2> QED BY <2>1, <2>2, <2>3, <2>4 DEF MailTypeOK, MailTypes
<1> QED BY <1>1, MailInvariant, PTL

LEMMA AdmissionFormed == AdmissionSpec => []AdmissionTypeOK
BY AlwaysAdmissionInv, AdmissionBounds, PTL

LEMMA RolesFormed == RoleSpec => []RoleTypeOK
BY AlwaysRoleInv, RoleBounds, PTL

\* A behaviour of the services together is one of each of them.
LEMMA ServicesApart ==
    /\ ServicesSpec => CacheSpec
    /\ ServicesSpec => RoleSpec
    /\ ServicesSpec => AdmissionSpec
    /\ ServicesSpec => MailSpec
    /\ ServicesSpec => RestockSpec
    /\ ServicesSpec => AuditSpec
    /\ ServicesSpec => GateSpec
    /\ ServicesSpec => RowLocksSpec
<1>1. Init => /\ CacheInit /\ RoleInit /\ AdmissionInit /\ MailInit /\ RestockInit
              /\ AuditInit /\ GateInit /\ RowLocksInit
  BY DEF Init
<1>2. [Next]_vars => [CacheNext]_cacheVars
  BY DEF Next, vars
<1>3. [Next]_vars => [RoleNext]_roleVars
  BY DEF Next, vars
<1>4. [Next]_vars => [AdmissionNext]_admissionVars
  BY DEF Next, vars
<1>5. [Next]_vars => [MailNext]_mailVars
  BY DEF Next, vars
<1>6. [Next]_vars => [RestockNext]_restockVars
  BY DEF Next, vars
<1>7. [Next]_vars => [AuditNext]_auditVars
  BY DEF Next, vars
<1>8. [Next]_vars => [GateNext]_gateVars
  BY DEF Next, vars
<1>9. [Next]_vars => [RowLocksNext]_lockVars
  BY DEF Next, vars
<1> QED
  BY <1>1, <1>2, <1>3, <1>4, <1>5, <1>6, <1>7, <1>8, <1>9, PTL
     DEF ServicesSpec, CacheSpec, RoleSpec, AdmissionSpec, MailSpec, RestockSpec, AuditSpec,
         GateSpec, RowLocksSpec

\* The state of every service stays well formed, for any limits, lifetimes,
\* callers and outages: above all, the queue of failed deletes stays within its
\* cap, the audit buffer within its own, an administrator has one mailing under
\* way at most, and no two sessions have locks that conflict.
THEOREM ServicesFormed == ServicesSpec => []ServicesTypeOK
BY ServicesApart, CacheTypeCorrect, RolesFormed, AdmissionFormed, MailFormed, RestockFormed,
   AuditFormed, GateFormed, LocksFormed, PTL DEF ServicesTypeOK
\* Put together as the `services' run has them, the services keep every safety
\* property stated of each: invalidations and single flights of the cache,
\* expiry of roles, windows and bans of admission, the reports of mailings, the
\* restock notices, the audit trail, the block list and the lock order.
THEOREM ServicesKeepFaith ==
    ServicesSpec => [](/\ NoMaskedWrite /\ OneComputationPerLock /\ StaleRoleExpires
                       /\ WindowBound /\ BanIsEarned /\ ReportIsTrue /\ ToldOnce
                       /\ TrailComplete /\ BlockListAgrees /\ CyclesNeedASecondUser)
BY ServicesApart, WritesNeverMasked, AlwaysOneComputation, StaleRolesAlwaysExpire,
   WindowsAlwaysBounded, BansAlwaysEarned, ReportAlwaysTrue, AlwaysToldOnce,
   TrailAlwaysComplete, BlockListAlwaysAgrees, CyclesAlwaysNeedASecondUser, PTL
=============================================================================

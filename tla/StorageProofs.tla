---------------------------- MODULE StorageProofs ----------------------------
(***************************************************************************)
(* Proofs about the layer between the handlers and the tables: the cache   *)
(* in front of the database, for any keys, readers, outages and restarts,  *)
(* and the row locks, for any sessions.                                    *)
(***************************************************************************)
EXTENDS Caching, RowLocks, SumTheorems, SequenceTheorems

-----------------------------------------------------------------------------
(***************************************************************************)
(* The cache manager's state                                               *)
(***************************************************************************)

RowTypes ==
    /\ rowVersion \in [Keys -> 0..MaxWrites]
    /\ invalidations \in [Keys -> Nat]
    /\ \A k \in Keys : \E j \in Keys : invalidations[k] <= rowVersion[j]

EntryTypes ==
    /\ redis \in [Keys -> {NoEntry} \cup [version : 1..MaxWrites, raced : BOOLEAN]]
    /\ lost \subseteq Keys

LinkTypes ==
    /\ linkUp \in BOOLEAN /\ enabled \in BOOLEAN /\ healthy \in BOOLEAN
    /\ outages \in 0..MaxOutages /\ restarts \in 0..MaxRestarts

PendingTypes ==
    /\ pendingDeletes \subseteq Keys /\ IsFiniteSet(pendingDeletes)
    /\ Cardinality(pendingDeletes) <= PendingCap
    /\ pendingPatterns \subseteq SUBSET Keys
    /\ pendingOverflow \in BOOLEAN

ReplayTypes ==
    /\ replay \in [running : BOOLEAN, deletes : SUBSET Keys, patterns : SUBSET SUBSET Keys]
    /\ IsFiniteSet(replay.deletes)
    /\ ~replay.running => replay.deletes = {} /\ replay.patterns = {}

\* A key whose invalidation the manager has recorded to be made later.
PendingKey(k) == k \in pendingDeletes \cup UNION pendingPatterns \/ pendingOverflow
Replayed(k) == k \in replay.deletes \cup UNION replay.patterns

\* The entry of k is right, or was not right when it was stored.
Sound(k) == redis[k] # NoEntry /\ ~redis[k].raced => redis[k].version = rowVersion[k]

\* NoMaskedWrite, by the stage a key's invalidation is in.
Unmasked(k) == Sound(k) \/ invalidations[k] > 0 \/ PendingKey(k) \/ Replayed(k)

\* It is inductive once the replay is known to be empty when it does not run:
\* a key leaves one stage of its invalidation only for the next.
MaskInv ==
    /\ RowTypes /\ EntryTypes /\ LinkTypes /\ PendingTypes /\ ReplayTypes
    /\ \A k \in Known \ lost : Unmasked(k)

LEMMA CacheFacts ==
    /\ Known \subseteq Keys /\ Swept \subseteq Known
    /\ Calls \subseteq Readers \X Keys /\ IsFiniteSet(Readers)
    /\ NoEntry \notin [version : Nat, raced : BOOLEAN]
    /\ PendingCap \in Nat \ {0}
    /\ MaxWrites \in Nat /\ MaxOutages \in Nat /\ MaxRestarts \in Nat
BY CachingAssumption

LEMMA MaskMeans == (\A k \in Known \ lost : Unmasked(k)) => NoMaskedWrite
BY DEF NoMaskedWrite, Unmasked, Sound, OnItsWay, Recorded, PendingKey, Replayed

-----------------------------------------------------------------------------
(***************************************************************************)
(* Deletes that are made or recorded                                       *)
(***************************************************************************)

\* What a delete of ks does, whether Redis answers or not: nothing recorded is
\* forgotten, and each key of ks is gone or recorded.
Settles(ks) ==
    /\ \A k \in Keys : \/ redis'[k] = NoEntry
                       \/ redis'[k] = redis[k] /\ (k \in lost <=> k \in lost')
    /\ \A k \in Keys : PendingKey(k) => PendingKey(k)'
    /\ \A k \in ks : redis'[k] = NoEntry \/ PendingKey(k)'

LEMMA DropSettles ==
    ASSUME EntryTypes, NEW ks \in SUBSET Keys, DropEntries(ks)
    PROVE  /\ EntryTypes'
           /\ \A k \in Keys : \/ redis'[k] = NoEntry
                              \/ redis'[k] = redis[k] /\ (k \in lost <=> k \in lost')
           /\ \A k \in ks : redis'[k] = NoEntry
<1>1. redis' = [k \in Keys |-> IF k \in ks THEN NoEntry ELSE redis[k]] /\ lost' = lost \ ks
  BY DEF DropEntries
<1>2. EntryTypes'
  BY <1>1 DEF EntryTypes
<1>3. QED
  BY <1>1, <1>2

LEMMA DeferSettles ==
    ASSUME PendingTypes, NEW ks \in SUBSET Keys, IsFiniteSet(ks), DeferDeletes(ks)
    PROVE  /\ PendingTypes'
           /\ \A k \in Keys : PendingKey(k) => PendingKey(k)'
           /\ \A k \in ks : PendingKey(k)'
<1>1. PICK kept \in SUBSET (ks \ pendingDeletes) :
        /\ pendingDeletes' = pendingDeletes \cup kept
        /\ Cardinality(pendingDeletes') <= PendingCap
        /\ Cardinality(pendingDeletes') < PendingCap => ks \subseteq pendingDeletes'
        /\ pendingOverflow' \in
             {pendingOverflow \/ (Cardinality(pendingDeletes') = PendingCap /\ ks # kept),
              pendingOverflow \/ ~(ks \subseteq pendingDeletes')
                              \/ Cardinality(pendingDeletes) = PendingCap}
        /\ UNCHANGED pendingPatterns
  BY DEF DeferDeletes
<1>2. IsFiniteSet(pendingDeletes')
  <2>1. IsFiniteSet(kept)
    BY <1>1, FS_Subset
  <2>2. QED
    BY <1>1, <2>1, FS_Union DEF PendingTypes
<1>3. Cardinality(pendingDeletes') \in Nat
  BY <1>2, FS_CardinalityType
<1>4. PendingTypes'
  <2>1. pendingOverflow' \in BOOLEAN
    BY <1>1 DEF PendingTypes
  <2>2. QED
    BY <1>1, <1>2, <2>1 DEF PendingTypes
<1>5. pendingOverflow => pendingOverflow'
  BY <1>1
<1>6. ASSUME NEW k \in ks, k \notin pendingDeletes'
      PROVE  pendingOverflow'
  <2>1. Cardinality(pendingDeletes') = PendingCap
    BY <1>1, <1>3, <1>6, CacheFacts
  <2>2. ks # kept /\ ~(ks \subseteq pendingDeletes')
    BY <1>1, <1>6
  <2>3. QED
    BY <1>1, <2>1, <2>2
<1>7. QED
  BY <1>1, <1>4, <1>5, <1>6 DEF PendingKey

LEMMA PatternSettles ==
    ASSUME PendingTypes, NEW ks \in SUBSET Keys, DeferPattern(ks)
    PROVE  /\ PendingTypes'
           /\ \A k \in Keys : PendingKey(k) => PendingKey(k)'
           /\ \A k \in ks : PendingKey(k)'
<1>1. pendingDeletes' = pendingDeletes
  BY DEF DeferPattern
<1>2. \/ pendingOverflow' = TRUE /\ pendingPatterns' = pendingPatterns
      \/ pendingOverflow' = pendingOverflow /\ pendingPatterns' = pendingPatterns \cup {ks}
  BY DEF DeferPattern
<1>3. QED
  BY <1>1, <1>2 DEF PendingTypes, PendingKey

LEMMA DeleteSettles ==
    ASSUME EntryTypes, PendingTypes, LinkTypes, NEW ks \in SUBSET Keys,
           (DeleteMany(ks) /\ IsFiniteSet(ks)) \/ InvalidatePattern(ks)
    PROVE  EntryTypes' /\ PendingTypes' /\ healthy' \in BOOLEAN /\ Settles(ks)
<1>1. CASE Reaches /\ DropEntries(ks) /\ UNCHANGED <<healthy, pendingVars>>
  <2>1. /\ EntryTypes'
        /\ \A k \in Keys : \/ redis'[k] = NoEntry
                           \/ redis'[k] = redis[k] /\ (k \in lost <=> k \in lost')
        /\ \A k \in ks : redis'[k] = NoEntry
    BY <1>1, DropSettles
  <2>2. PendingTypes' /\ \A k \in Keys : PendingKey(k) => PendingKey(k)'
    BY <1>1 DEF PendingTypes, PendingKey, pendingVars
  <2>3. QED
    BY <1>1, <2>1, <2>2 DEF Settles, LinkTypes
<1>2. CASE /\ healthy' = FALSE /\ UNCHANGED <<redis, computes, lost>>
           /\ (DeferDeletes(ks) /\ IsFiniteSet(ks)) \/ DeferPattern(ks)
  <2>1. /\ PendingTypes' /\ \A k \in Keys : PendingKey(k) => PendingKey(k)'
        /\ \A k \in ks : PendingKey(k)'
    BY <1>2, DeferSettles, PatternSettles
  <2>2. EntryTypes'
    BY <1>2 DEF EntryTypes
  <2>3. QED
    BY <1>2, <2>1, <2>2 DEF Settles
<1>3. QED
  BY <1>1, <1>2 DEF DeleteMany, InvalidatePattern

\* A key that settles stays unmasked.
LEMMA SettledUnmasked ==
    ASSUME EntryTypes, NEW ks \in SUBSET Keys, Settles(ks), rowVersion' = rowVersion,
           NEW k \in Keys, k \notin lost', k \in lost \/ Unmasked(k),
           k \notin ks => (invalidations[k] > 0 => invalidations'[k] > 0),
           k \notin ks => (Replayed(k) => Replayed(k)')
    PROVE  Unmasked(k)'
<1>1. CASE redis'[k] = NoEntry
  BY <1>1 DEF Unmasked, Sound
<1>2. CASE redis'[k] # NoEntry
  <2>1. redis'[k] = redis[k] /\ k \notin lost
    BY <1>2 DEF Settles
  <2>2. k \in ks => PendingKey(k)'
    BY <1>2 DEF Settles
  <2>3. PendingKey(k) => PendingKey(k)'
    BY DEF Settles
  <2>4. Sound(k) => Sound(k)'
    BY <2>1 DEF Sound
  <2>5. QED
    BY <2>1, <2>2, <2>3, <2>4 DEF Unmasked
<1>3. QED
  BY <1>1, <1>2

LEMMA InvalidationMasks ==
    ASSUME MaskInv, NEW k \in Keys, RunInvalidation(k)
    PROVE  MaskInv'
<1>1. /\ invalidations[k] > 0 /\ invalidations' = [invalidations EXCEPT ![k] = @ - 1]
      /\ DeleteMany({k})
      /\ rowVersion' = rowVersion /\ replay' = replay
      /\ UNCHANGED <<linkUp, enabled, outages, restarts>>
  BY DEF RunInvalidation, envVars
<1>2. IsFiniteSet({k})
  BY FS_Singleton
<1>3. EntryTypes' /\ PendingTypes' /\ healthy' \in BOOLEAN /\ Settles({k})
  BY <1>1, <1>2, DeleteSettles DEF MaskInv
<1>4. RowTypes'
  <2>1. rowVersion \in [Keys -> 0..MaxWrites] /\ invalidations \in [Keys -> Nat]
    BY DEF MaskInv, RowTypes
  <2>2. invalidations' \in [Keys -> Nat]
    BY <1>1, <2>1
  <2>3. ASSUME NEW q \in Keys PROVE \E j \in Keys : invalidations'[q] <= rowVersion'[j]
    <3>1. PICK j \in Keys : invalidations[q] <= rowVersion[j]
      BY DEF MaskInv, RowTypes
    <3>2. invalidations[q] \in Nat /\ invalidations'[q] \in Nat /\ rowVersion[j] \in Nat
      BY <2>1, <2>2, CacheFacts
    <3>3. invalidations'[q] <= invalidations[q]
      BY <1>1, <2>1
    <3>4. invalidations'[q] <= rowVersion'[j]
      BY <1>1, <3>1, <3>2, <3>3
    <3>5. QED
      BY <3>4
  <2>4. QED
    BY <1>1, <2>1, <2>2, <2>3 DEF RowTypes
<1>5. ASSUME NEW q \in Known \ lost' PROVE Unmasked(q)'
  <2>1. q \in Keys
    BY CacheFacts
  <2>2. q # k => invalidations'[q] = invalidations[q]
    BY <1>1, <2>1 DEF MaskInv, RowTypes
  <2>3. Replayed(q) => Replayed(q)'
    BY <1>1 DEF Replayed
  <2>4. q \in lost \/ Unmasked(q)
    BY DEF MaskInv
  <2>5. QED
    BY <1>1, <1>3, <2>1, <2>2, <2>3, <2>4, SettledUnmasked DEF MaskInv
<1>6. QED
  BY <1>1, <1>3, <1>4, <1>5 DEF MaskInv, LinkTypes, ReplayTypes

LEMMA SweepMasks ==
    ASSUME MaskInv, SchedulerSweep
    PROVE  MaskInv'
<1>1. /\ InvalidatePattern(Swept)
      /\ rowVersion' = rowVersion /\ replay' = replay /\ invalidations' = invalidations
      /\ UNCHANGED <<linkUp, enabled, outages, restarts>>
  BY DEF SchedulerSweep, envVars
<1>2. Swept \in SUBSET Keys
  BY CacheFacts
<1>3. EntryTypes' /\ PendingTypes' /\ healthy' \in BOOLEAN /\ Settles(Swept)
  BY <1>1, <1>2, DeleteSettles DEF MaskInv
<1>4. ASSUME NEW q \in Known \ lost' PROVE Unmasked(q)'
  <2>1. q \in Keys
    BY CacheFacts
  <2>2. Replayed(q) => Replayed(q)'
    BY <1>1 DEF Replayed
  <2>3. q \in lost \/ Unmasked(q)
    BY DEF MaskInv
  <2>4. QED
    BY <1>1, <1>2, <1>3, <2>1, <2>2, <2>3, SettledUnmasked DEF MaskInv
<1>5. QED
  BY <1>1, <1>3, <1>4 DEF MaskInv, LinkTypes, ReplayTypes, RowTypes

LEMMA ReplayMasks ==
    ASSUME MaskInv, ReplayStep
    PROVE  MaskInv'
<1>1. /\ replay.running
      /\ rowVersion' = rowVersion /\ invalidations' = invalidations
      /\ UNCHANGED <<linkUp, enabled, outages, restarts>>
  BY DEF ReplayStep, envVars
<1>2. /\ replay \in [running : BOOLEAN, deletes : SUBSET Keys, patterns : SUBSET SUBSET Keys]
      /\ IsFiniteSet(replay.deletes)
  BY DEF MaskInv, ReplayTypes
<1>3. RowTypes'
  BY <1>1 DEF MaskInv, RowTypes
<1>4. ASSUME NEW ks \in SUBSET Keys, Settles(ks), EntryTypes', PendingTypes', healthy' \in BOOLEAN,
             ReplayTypes', \A q \in Keys \ ks : Replayed(q) => Replayed(q)'
      PROVE  MaskInv'
  <2>1. ASSUME NEW q \in Known \ lost' PROVE Unmasked(q)'
    <3>1. q \in Keys
      BY CacheFacts
    <3>2. q \in lost \/ Unmasked(q)
      BY DEF MaskInv
    <3>3. QED
      BY <1>1, <1>4, <3>1, <3>2, SettledUnmasked DEF MaskInv
  <2>2. QED
    BY <1>1, <1>3, <1>4, <2>1 DEF MaskInv, LinkTypes
<1>5. CASE /\ DeleteMany(replay.deletes)
           /\ replay' = [replay EXCEPT !.deletes = {}]
  <2>1. replay.deletes \in SUBSET Keys
    BY <1>2
  <2>2. EntryTypes' /\ PendingTypes' /\ healthy' \in BOOLEAN /\ Settles(replay.deletes)
    BY <1>2, <1>5, <2>1, DeleteSettles DEF MaskInv
  <2>3. replay'.deletes = {} /\ replay'.patterns = replay.patterns /\ replay'.running = replay.running
        /\ replay' \in [running : BOOLEAN, deletes : SUBSET Keys, patterns : SUBSET SUBSET Keys]
    BY <1>2, <1>5
  <2>4. ReplayTypes'
    BY <1>1, <2>3, FS_EmptySet DEF ReplayTypes
  <2>5. \A q \in Keys \ replay.deletes : Replayed(q) => Replayed(q)'
    BY <2>3 DEF Replayed
  <2>6. QED
    BY <1>4, <2>1, <2>2, <2>4, <2>5
<1>6. ASSUME NEW p \in replay.patterns, InvalidatePattern(p),
             replay' = [replay EXCEPT !.patterns = @ \ {p}]
      PROVE  MaskInv'
  <2>1. p \in SUBSET Keys
    BY <1>2
  <2>2. EntryTypes' /\ PendingTypes' /\ healthy' \in BOOLEAN /\ Settles(p)
    BY <1>6, <2>1, DeleteSettles DEF MaskInv
  <2>3. replay'.deletes = replay.deletes /\ replay'.patterns = replay.patterns \ {p}
        /\ replay'.running = replay.running
        /\ replay' \in [running : BOOLEAN, deletes : SUBSET Keys, patterns : SUBSET SUBSET Keys]
    BY <1>2, <1>6
  <2>4. ReplayTypes'
    BY <1>1, <1>2, <2>3 DEF ReplayTypes
  <2>5. \A q \in Keys \ p : Replayed(q) => Replayed(q)'
    BY <2>3 DEF Replayed
  <2>6. QED
    BY <1>4, <2>1, <2>2, <2>4, <2>5
<1>7. CASE /\ replay.deletes = {} /\ replay.patterns = {} /\ healthy' = Reaches
           /\ replay' = NoReplay /\ UNCHANGED <<redis, computes, lost, pendingVars>>
  <2>1. EntryTypes' /\ PendingTypes' /\ healthy' \in BOOLEAN
    BY <1>7 DEF MaskInv, EntryTypes, PendingTypes, LinkTypes, Reaches, pendingVars
  <2>2. Settles({})
    BY <1>7 DEF Settles, PendingKey, pendingVars
  <2>3. ReplayTypes'
    BY <1>7, FS_EmptySet DEF ReplayTypes, NoReplay
  <2>4. \A q \in Keys : ~Replayed(q)
    BY <1>7 DEF Replayed
  <2>5. QED
    BY <1>4, <2>1, <2>2, <2>3, <2>4
<1>8. QED
  BY <1>5, <1>6, <1>7 DEF ReplayStep

\* Commits are numbered: the last one is the largest version of a row.
LEMMA LastCommitIs ==
    ASSUME RowTypes, NEW k \in Keys
    PROVE  /\ LastCommit \in 0..MaxWrites
           /\ \A j \in Keys : rowVersion[j] <= LastCommit
<1>1. rowVersion \in [Keys -> 0..MaxWrites]
  BY DEF RowTypes
<1> DEFINE B == {MaxWrites - rowVersion[j] : j \in Keys}
<1>2. B \subseteq Nat /\ B # {}
  BY <1>1, CacheFacts
<1>3. PICK m \in B : \A b \in B : m <= b
  <2> HIDE DEF B
  <2>1. QED
    BY <1>2, LeastNat
<1>4. PICK j \in Keys : m = MaxWrites - rowVersion[j]
  BY <1>3
<1>5. ASSUME NEW q \in Keys PROVE rowVersion[q] <= rowVersion[j]
  <2>1. MaxWrites - rowVersion[q] \in B
    OBVIOUS
  <2>2. m <= MaxWrites - rowVersion[q]
    BY <1>3, <2>1
  <2>3. rowVersion[q] \in 0..MaxWrites /\ rowVersion[j] \in 0..MaxWrites
    BY <1>1
  <2>4. QED
    BY <1>4, <2>2, <2>3, CacheFacts
<1>6. \E n \in 0..MaxWrites : /\ \E q \in Keys : rowVersion[q] = n
                              /\ \A q \in Keys : rowVersion[q] <= n
  BY <1>1, <1>5
<1>7. QED
  BY <1>6 DEF LastCommit

LEMMA CommitMasks ==
    ASSUME MaskInv, NEW k \in Keys, CommitWrite(k)
    PROVE  MaskInv'
<1>1. PICK n : n = LastCommit
  OBVIOUS
<1>2. /\ n < MaxWrites /\ rowVersion' = [rowVersion EXCEPT ![k] = n + 1]
      /\ invalidations' = [invalidations EXCEPT ![k] = IF enabled THEN @ + 1 ELSE @]
      /\ lost' = IF enabled THEN lost ELSE lost \cup Forgotten({k})
      /\ UNCHANGED <<redis, healthy, pendingDeletes, pendingPatterns, pendingOverflow, replay,
                     linkUp, enabled, outages, restarts>>
  BY <1>1 DEF CommitWrite, pendingVars, envVars
<1>3. n \in 0..MaxWrites /\ \A j \in Keys : rowVersion[j] <= n
  BY <1>1, LastCommitIs DEF MaskInv
<1>4. rowVersion \in [Keys -> 0..MaxWrites] /\ invalidations \in [Keys -> Nat]
  BY DEF MaskInv, RowTypes
<1>5. RowTypes'
  <2>1. rowVersion' \in [Keys -> 0..MaxWrites] /\ invalidations' \in [Keys -> Nat]
    BY <1>2, <1>3, <1>4, CacheFacts
  <2>2. ASSUME NEW q \in Keys PROVE \E j \in Keys : invalidations'[q] <= rowVersion'[j]
    <3>1. PICK j \in Keys : invalidations[q] <= rowVersion[j]
      BY DEF MaskInv, RowTypes
    <3>2. invalidations[q] \in Nat /\ rowVersion[j] \in Nat /\ rowVersion[j] <= n /\ n \in Nat
      BY <1>3, <1>4, CacheFacts
    <3>3. invalidations'[q] \in Nat /\ invalidations'[q] <= invalidations[q] + 1
      BY <1>2, <1>4, <2>1
    <3>4. rowVersion'[k] = n + 1
      BY <1>2, <1>4
    <3>5. invalidations'[q] <= rowVersion'[k]
      BY <3>1, <3>2, <3>3, <3>4
    <3>6. QED
      BY <3>5
  <2>3. QED
    BY <2>1, <2>2 DEF RowTypes
<1>6. EntryTypes'
  BY <1>2 DEF MaskInv, EntryTypes, Forgotten
<1>7. ASSUME NEW q \in Known \ lost' PROVE Unmasked(q)'
  <2>1. q \in Keys /\ q \notin lost
    BY <1>2, CacheFacts
  <2>2. CASE q = k /\ enabled
    <3>1. invalidations'[q] > 0
      BY <1>2, <1>4, <2>2
    <3>2. QED
      BY <3>1 DEF Unmasked
  <2>3. CASE q = k /\ ~enabled
    <3>1. redis[q] = NoEntry
      BY <1>2, <2>3 DEF Forgotten
    <3>2. QED
      BY <1>2, <3>1 DEF Unmasked, Sound
  <2>4. CASE q # k
    <3>1. rowVersion'[q] = rowVersion[q] /\ invalidations'[q] = invalidations[q]
      BY <1>2, <1>4, <2>1, <2>4
    <3>2. Unmasked(q)
      BY <2>1 DEF MaskInv
    <3>3. QED
      BY <1>2, <3>1, <3>2 DEF Unmasked, Sound, PendingKey, Replayed
  <2>5. QED
    BY <2>2, <2>3, <2>4
<1>8. QED
  BY <1>2, <1>5, <1>6, <1>7 DEF MaskInv, LinkTypes, PendingTypes, ReplayTypes

LEMMA ExpiryMasks ==
    ASSUME MaskInv, NEW k \in Keys, ExpireEntry(k)
    PROVE  MaskInv'
<1>1. /\ DropEntries({k})
      /\ UNCHANGED <<rowVersion, healthy, invalidations, pendingDeletes, pendingPatterns,
                     pendingOverflow, replay, linkUp, enabled, outages, restarts>>
  BY DEF ExpireEntry, pendingVars, envVars
<1>2. {k} \in SUBSET Keys
  OBVIOUS
<1>3. /\ EntryTypes'
      /\ \A q \in Keys : \/ redis'[q] = NoEntry
                         \/ redis'[q] = redis[q] /\ (q \in lost <=> q \in lost')
      /\ \A q \in {k} : redis'[q] = NoEntry
  BY <1>1, <1>2, DropSettles DEF MaskInv
<1>4. Settles({k})
  BY <1>1, <1>3 DEF Settles, PendingKey
<1>5. ASSUME NEW q \in Known \ lost' PROVE Unmasked(q)'
  <2>1. q \in Keys
    BY CacheFacts
  <2>2. Replayed(q) => Replayed(q)'
    BY <1>1 DEF Replayed
  <2>3. q \in lost \/ Unmasked(q)
    BY DEF MaskInv
  <2>4. QED
    BY <1>1, <1>2, <1>4, <2>1, <2>2, <2>3, SettledUnmasked DEF MaskInv
<1>6. QED
  BY <1>1, <1>3, <1>5 DEF MaskInv, LinkTypes, ReplayTypes, RowTypes, PendingTypes

\* Steps that change neither rows nor entries nor what is recorded.
LEMMA QuietMasks ==
    ASSUME MaskInv, LinkTypes',
           UNCHANGED <<rowVersion, invalidations, redis, lost, pendingVars, replay>>
    PROVE  MaskInv'
<1>1. RowTypes' /\ EntryTypes' /\ PendingTypes' /\ ReplayTypes'
  BY DEF MaskInv, RowTypes, EntryTypes, PendingTypes, ReplayTypes, pendingVars
<1>2. \A k \in Known \ lost' : Unmasked(k)'
  BY DEF MaskInv, Unmasked, Sound, PendingKey, Replayed, pendingVars
<1>3. QED
  BY <1>1, <1>2 DEF MaskInv

LEMMA NothingPending == IsFiniteSet({}) /\ Cardinality({}) <= PendingCap
<1>1. IsFiniteSet({}) /\ Cardinality({}) = 0
  BY FS_EmptySet
<1>2. QED
  BY <1>1, CacheFacts

LEMMA HealthMasks ==
    ASSUME MaskInv, CheckHealth
    PROVE  MaskInv'
<1>1. /\ ~replay.running /\ healthy' = linkUp
      /\ UNCHANGED <<rowVersion, redis, invalidations, lost, linkUp, enabled, outages, restarts>>
  BY DEF CheckHealth, envVars
<1>2. LinkTypes'
  BY <1>1 DEF MaskInv, LinkTypes
<1>3. CASE UNCHANGED <<replay, pendingVars>>
  BY <1>1, <1>2, <1>3, QuietMasks
<1>4. CASE /\ replay' = IF pendingOverflow
                        THEN [running |-> TRUE, deletes |-> {}, patterns |-> {{k} : k \in Known}]
                        ELSE [running |-> TRUE, deletes |-> pendingDeletes,
                              patterns |-> pendingPatterns]
           /\ pendingDeletes' = {} /\ pendingPatterns' = {} /\ pendingOverflow' = FALSE
  <2>1. PendingTypes'
    BY <1>4, NothingPending DEF PendingTypes
  <2>2. ReplayTypes'
    <3>1. CASE pendingOverflow
      BY <1>4, <3>1, FS_EmptySet, CacheFacts DEF ReplayTypes
    <3>2. CASE ~pendingOverflow
      BY <1>4, <3>2 DEF ReplayTypes, MaskInv, PendingTypes
    <3>3. QED
      BY <3>1, <3>2
  <2>3. RowTypes' /\ EntryTypes'
    BY <1>1 DEF MaskInv, RowTypes, EntryTypes
  <2>4. ASSUME NEW q \in Known \ lost' PROVE Unmasked(q)'
    <3>1. Unmasked(q) /\ ~Replayed(q)
      BY <1>1 DEF MaskInv, Replayed, ReplayTypes
    <3>2. PendingKey(q) => Replayed(q)'
      <4>1. CASE pendingOverflow
        <5>1. replay'.patterns = {{k} : k \in Known}
          BY <1>4, <4>1
        <5>2. {q} \in replay'.patterns
          BY <5>1
        <5>3. QED
          BY <5>2 DEF Replayed
      <4>2. CASE ~pendingOverflow
        <5>1. replay'.patterns = pendingPatterns /\ replay'.deletes = pendingDeletes
          BY <1>4, <4>2
        <5>2. QED
          BY <4>2, <5>1 DEF PendingKey, Replayed
      <4>3. QED
        BY <4>1, <4>2
    <3>3. QED
      BY <1>1, <3>1, <3>2 DEF Unmasked, Sound
  <2>5. QED
    BY <1>2, <2>1, <2>2, <2>3, <2>4 DEF MaskInv
<1>5. QED
  BY <1>3, <1>4 DEF CheckHealth

\* A restart: what was recorded and is forgotten is counted as lost.
LEMMA RestartMasks ==
    ASSUME MaskInv, KillBot \/ StopBot
    PROVE  MaskInv'
<1>1. /\ restarts < MaxRestarts /\ restarts' = restarts + 1
      /\ enabled' = linkUp /\ healthy' = TRUE
      /\ pendingDeletes' = {} /\ pendingPatterns' = {} /\ pendingOverflow' = FALSE
      /\ replay' = NoReplay
      /\ UNCHANGED <<rowVersion, redis, linkUp, outages>>
  BY DEF KillBot, StopBot, NewProcess
<1>2. invalidations \in [Keys -> Nat] /\ rowVersion \in [Keys -> 0..MaxWrites]
  BY DEF MaskInv, RowTypes
<1>3. RowTypes'
  <2>1. CASE KillBot
    <3>1. invalidations' = [k \in Keys |-> 0]
      BY <2>1 DEF KillBot
    <3>2. \A k \in Keys : invalidations'[k] <= rowVersion'[k]
      BY <1>1, <1>2, <3>1, CacheFacts
    <3>3. QED
      BY <1>1, <1>2, <3>1, <3>2 DEF RowTypes
  <2>2. CASE StopBot
    BY <1>1, <2>2 DEF StopBot, MaskInv, RowTypes
  <2>3. QED
    BY <2>1, <2>2
<1>4. EntryTypes'
  BY <1>1 DEF KillBot, StopBot, MaskInv, EntryTypes, Forgotten
<1>5. LinkTypes'
  <2>1. restarts' \in 0..MaxRestarts
    BY <1>1, CacheFacts DEF MaskInv, LinkTypes
  <2>2. QED
    BY <1>1, <2>1 DEF MaskInv, LinkTypes
<1>6. PendingTypes'
  BY <1>1, NothingPending DEF PendingTypes
<1>7. ReplayTypes'
  BY <1>1, FS_EmptySet DEF ReplayTypes, NoReplay
<1>8. ASSUME NEW q \in Known \ lost' PROVE Unmasked(q)'
  <2>1. q \in Keys
    BY CacheFacts
  <2>2. q \notin lost /\ (redis[q] = NoEntry \/ (~(invalidations[q] > 0) /\ ~Recorded(q)))
    <3>1. CASE KillBot
      BY <2>1, <3>1 DEF KillBot, Forgotten
    <3>2. CASE StopBot
      <4>1. invalidations[q] = 0
        BY <2>1, <3>2 DEF StopBot
      <4>2. QED
        BY <2>1, <3>2, <4>1 DEF StopBot, Forgotten
    <3>3. QED
      BY <3>1, <3>2
  <2>3. Unmasked(q)
    BY <2>2 DEF MaskInv
  <2>4. Sound(q)
    BY <2>2, <2>3 DEF Unmasked, Recorded, PendingKey, Replayed, Sound
  <2>5. QED
    BY <1>1, <2>4 DEF Unmasked, Sound
<1>9. QED
  BY <1>3, <1>4, <1>5, <1>6, <1>7, <1>8 DEF MaskInv

-----------------------------------------------------------------------------
(***************************************************************************)
(* single_flight                                                           *)
(***************************************************************************)

\* The caller refers to a lock, and is inside it.
HasLock(x) == x.pc \in {"waiting", "locked", "computing", "computed"}
Inside(x) == x.pc \in {"locked", "computing", "computed"}

FlightTypes ==
    /\ reader \in [Readers -> ReaderStates]
    /\ flightLock \in [Keys -> LockIds \cup {NoLock}]
    /\ computes \in [LockIds -> {0, 1}]

\* A lock is one caller's at a time and belongs to one key, and the dictionary
\* names only locks that a caller refers to: the lock a new caller creates is
\* nobody else's.
LockInv ==
    /\ \A r, s \in Readers : Inside(reader[r]) /\ Inside(reader[s])
                             /\ reader[r].lock = reader[s].lock => r = s
    /\ \A r, s \in Readers : HasLock(reader[r]) /\ HasLock(reader[s])
                             /\ reader[r].lock = reader[s].lock => reader[r].key = reader[s].key
    /\ \A k \in Keys : flightLock[k] # NoLock =>
          \E r \in Readers : /\ HasLock(reader[r])
                             /\ reader[r].lock = flightLock[k] /\ reader[r].key = k

Carries(x, l) == x.pc = "computed" /\ x.lock = l /\ x.seen > 0

\* Once a result has been computed under a lock, its entry is there or its
\* caller is about to store it; so the next caller inside the lock, who looks
\* first, computes only if the entry was lost or the manager was cut off.
ComputeInv ==
    /\ ~Reaches => \A l \in LockIds : computes[l] = 0
    /\ \A r \in Readers : HasLock(reader[r]) /\ computes[reader[r].lock] = 1 =>
          redis[reader[r].key] # NoEntry \/ \E s \in Readers : Carries(reader[s], reader[r].lock)
    /\ \A r \in Readers : reader[r].pc = "computing" => computes[reader[r].lock] = 0

FlightInv == FlightTypes /\ LockInv /\ ComputeInv

LEMMA ReaderForm ==
    ASSUME NEW x \in ReaderStates
    PROVE  /\ x.pc \in {"idle", "missed", "waiting", "locked", "computing", "computed"}
           /\ x.pc = "idle" <=> x = Idle
           /\ x.pc = "missed" => x.key \in Keys
           /\ HasLock(x) => x.key \in Keys /\ x.lock \in LockIds
           /\ x.pc = "computed" => x.seen \in 0..MaxWrites
<1>1. CASE x = Idle
  BY <1>1 DEF Idle, HasLock
<1>2. CASE x \in [pc : {"missed"}, key : Keys]
  BY <1>2 DEF Idle, HasLock
<1>3. CASE x \in [pc : {"waiting", "locked", "computing"}, key : Keys, lock : LockIds]
  BY <1>3 DEF Idle, HasLock
<1>4. CASE x \in [pc : {"computed"}, key : Keys, lock : LockIds, seen : 0..MaxWrites]
  BY <1>4 DEF Idle, HasLock
<1>5. QED
  BY <1>1, <1>2, <1>3, <1>4 DEF ReaderStates

LEMMA InsideHasLock == ASSUME NEW x PROVE /\ Inside(x) => HasLock(x)
                                          /\ HasLock(x) => x.pc # "idle" /\ x.pc # "missed"
BY DEF Inside, HasLock

LEMMA StateOfMissed == ASSUME NEW k \in Keys PROVE [pc |-> "missed", key |-> k] \in ReaderStates
BY DEF ReaderStates

LEMMA StateOfHolder ==
    ASSUME NEW p \in {"waiting", "locked", "computing"}, NEW k \in Keys, NEW l \in LockIds
    PROVE  [pc |-> p, key |-> k, lock |-> l] \in ReaderStates
BY DEF ReaderStates

LEMMA StateOfComputed ==
    ASSUME NEW k \in Keys, NEW l \in LockIds, NEW v \in 0..MaxWrites
    PROVE  [pc |-> "computed", key |-> k, lock |-> l, seen |-> v] \in ReaderStates
BY DEF ReaderStates

\* Moving a caller inside its lock from one stage to the next.
LEMMA StageChange ==
    ASSUME NEW x \in ReaderStates, x.pc \in {"waiting", "locked", "computing"},
           NEW p \in {"waiting", "locked", "computing"}
    PROVE  /\ [x EXCEPT !.pc = p] \in ReaderStates
           /\ [x EXCEPT !.pc = p].pc = p
           /\ [x EXCEPT !.pc = p].key = x.key
           /\ [x EXCEPT !.pc = p].lock = x.lock
<1>1. x \in [pc : {"waiting", "locked", "computing"}, key : Keys, lock : LockIds]
  BY DEF ReaderStates, Idle
<1>2. [x EXCEPT !.pc = p] \in [pc : {"waiting", "locked", "computing"}, key : Keys, lock : LockIds]
  BY <1>1
<1>3. QED
  BY <1>1, <1>2 DEF ReaderStates

\* Steps that move no caller.
LEMMA QuietFlight ==
    ASSUME FlightInv, UNCHANGED flightVars,
           computes' \in [LockIds -> {0, 1}],
           \A l \in LockIds : computes'[l] = 0 \/ computes'[l] = computes[l],
           ~Reaches' => \A l \in LockIds : computes'[l] = 0,
           \A r \in Readers : HasLock(reader[r]) =>
              \/ computes'[reader[r].lock] = 0
              \/ redis[reader[r].key] # NoEntry => redis'[reader[r].key] # NoEntry
    PROVE  FlightInv'
<1>1. reader' = reader /\ flightLock' = flightLock
  BY DEF flightVars
<1>2. FlightTypes'
  BY <1>1 DEF FlightInv, FlightTypes
<1>3. LockInv'
  BY <1>1 DEF FlightInv, LockInv
<1>4. ASSUME NEW r \in Readers, HasLock(reader[r])
      PROVE  reader[r].lock \in LockIds
  BY <1>4, ReaderForm DEF FlightInv, FlightTypes
<1>5. \A r \in Readers : reader[r].pc = "computing" => computes'[reader[r].lock] = 0
  BY <1>4 DEF FlightInv, ComputeInv, HasLock
<1>6. ASSUME NEW r \in Readers, HasLock(reader[r]), computes'[reader[r].lock] = 1
      PROVE  redis'[reader[r].key] # NoEntry \/ \E s \in Readers : Carries(reader[s], reader[r].lock)
  <2>1. computes[reader[r].lock] = 1
    BY <1>4, <1>6
  <2>2. QED
    BY <1>6, <2>1 DEF FlightInv, ComputeInv
<1>7. ComputeInv'
  BY <1>1, <1>5, <1>6 DEF ComputeInv, Carries
<1>8. QED
  BY <1>2, <1>3, <1>7 DEF FlightInv

\* A loss of entries starts the count of their locks again.
LEMMA DropFlight ==
    ASSUME FlightInv, UNCHANGED flightVars, NEW ks \in SUBSET Keys, DropEntries(ks),
           UNCHANGED <<healthy, linkUp>>
    PROVE  FlightInv'
<1>1. /\ redis' = [k \in Keys |-> IF k \in ks THEN NoEntry ELSE redis[k]]
      /\ computes' = [l \in LockIds |-> IF l \in LocksOf(ks) THEN 0 ELSE computes[l]]
  BY DEF DropEntries
<1>2. computes \in [LockIds -> {0, 1}]
  BY DEF FlightInv, FlightTypes
<1>3. computes' \in [LockIds -> {0, 1}]
  BY <1>1, <1>2
<1>4. \A l \in LockIds : computes'[l] = 0 \/ computes'[l] = computes[l]
  BY <1>1
<1>5. ~Reaches' => \A l \in LockIds : computes'[l] = 0
  BY <1>4 DEF FlightInv, ComputeInv, Reaches
<1>6. ASSUME NEW r \in Readers, HasLock(reader[r])
      PROVE  \/ computes'[reader[r].lock] = 0
             \/ redis[reader[r].key] # NoEntry => redis'[reader[r].key] # NoEntry
  <2>1. reader[r].key \in Keys /\ reader[r].lock \in LockIds
    BY <1>6, ReaderForm DEF FlightInv, FlightTypes
  <2>2. reader[r].key \in ks => reader[r].lock \in LocksOf(ks)
    BY <1>6, InsideHasLock DEF LocksOf
  <2>3. QED
    BY <1>1, <2>1, <2>2
<1>7. QED
  BY <1>3, <1>4, <1>5, <1>6, QuietFlight

LEMMA DeleteFlight ==
    ASSUME FlightInv, UNCHANGED flightVars, NEW ks \in SUBSET Keys,
           DeleteMany(ks) \/ InvalidatePattern(ks), linkUp' = linkUp
    PROVE  FlightInv'
<1>1. CASE DropEntries(ks) /\ healthy' = healthy
  BY <1>1, DropFlight
<1>2. CASE ~Reaches /\ UNCHANGED <<redis, computes>> /\ healthy' = FALSE
  <2>1. \A l \in LockIds : computes'[l] = 0
    BY <1>2 DEF FlightInv, ComputeInv
  <2>2. computes' \in [LockIds -> {0, 1}]
    BY <1>2 DEF FlightInv, FlightTypes
  <2>3. \A r \in Readers : HasLock(reader[r]) => computes'[reader[r].lock] = 0
    BY <2>1, ReaderForm DEF FlightInv, FlightTypes
  <2>4. QED
    BY <2>1, <2>2, <2>3, QuietFlight
<1>3. QED
  BY <1>1, <1>2 DEF DeleteMany, InvalidatePattern

LEMMA ReadersHave ==
    ASSUME FlightTypes, NEW r \in Readers
    PROVE  /\ reader[r] \in ReaderStates
           /\ HasLock(reader[r]) => reader[r].key \in Keys /\ reader[r].lock \in LockIds
           /\ reader[r].pc = "missed" => reader[r].key \in Keys
           /\ HasLock(reader[r]) <=> reader[r].pc \notin {"idle", "missed"}
           /\ Inside(reader[r]) => HasLock(reader[r])
BY ReaderForm DEF FlightTypes, HasLock, Inside

\* There are as many locks as callers, so a caller without one finds a free one.
LEMMA FreshLockExists ==
    ASSUME FlightTypes, NEW r \in Readers, ~HasLock(reader[r])
    PROVE  FreshLocks # {}
<1>1. SUFFICES ASSUME FreshLocks = {} PROVE FALSE
  OBVIOUS
<1>2. \A l \in LockIds : \E s \in Readers : HasLock(reader[s]) /\ reader[s].lock = l
  BY <1>1, ReadersHave DEF FreshLocks
<1> DEFINE f == [l \in LockIds |-> CHOOSE s \in Readers : HasLock(reader[s]) /\ reader[s].lock = l]
<1>3. \A l \in LockIds : /\ f[l] \in Readers \ {r}
                         /\ HasLock(reader[f[l]]) /\ reader[f[l]].lock = l
  BY <1>2
<1>4. f \in [LockIds -> Readers \ {r}]
  BY <1>3
<1>5. IsFiniteSet(Readers) /\ Cardinality(Readers) \in Nat
  BY CacheFacts, FS_CardinalityType
<1>6. IsFiniteSet(Readers \ {r}) /\ Cardinality(Readers \ {r}) = Cardinality(Readers) - 1
  BY <1>5, FS_RemoveElement
<1>7. Cardinality(Readers \ {r}) \in Nat
  BY <1>6, FS_CardinalityType
<1>8. IsFiniteSet(LockIds) /\ Cardinality(LockIds) = Cardinality(Readers)
  <2>1. PICK n \in Nat : n = Cardinality(Readers)
    BY <1>5
  <2>2. 1 \in Int /\ n \in Int /\ n # 0
    BY <2>1, <1>6, <1>7
  <2>3. IsFiniteSet(1..n) /\ Cardinality(1..n) = IF 1 > n THEN 0 ELSE n - 1 + 1
    BY <2>2, FS_Interval
  <2>4. Cardinality(1..n) = n
    BY <2>2, <2>3
  <2>5. QED
    BY <2>1, <2>3, <2>4 DEF LockIds
<1>9. Cardinality(Readers \ {r}) < Cardinality(LockIds)
  BY <1>5, <1>6, <1>8
<1>10. \E l, m \in LockIds : l # m /\ f[l] = f[m]
  <2> HIDE DEF f
  <2>1. QED
    BY <1>4, <1>6, <1>8, <1>9, FS_PigeonHole
<1>11. QED
  BY <1>3, <1>10

LEMMA GetFlight ==
    ASSUME FlightInv, NEW r \in Readers, NEW k \in Keys, FlightGet(r, k)
    PROVE  FlightInv'
<1>1. /\ reader[r] = Idle /\ healthy' = Reaches
      /\ reader' = [reader EXCEPT ![r] = [pc |-> "missed", key |-> k]]
      /\ UNCHANGED <<redis, flightLock, computes, linkUp>>
  BY DEF FlightGet, envVars
<1>2. reader \in [Readers -> ReaderStates]
  BY DEF FlightInv, FlightTypes
<1>3. FlightTypes'
  BY <1>1, <1>2, StateOfMissed DEF FlightInv, FlightTypes
<1>4. reader'[r].pc = "missed" /\ ~HasLock(reader'[r]) /\ ~Inside(reader'[r])
  BY <1>1, <1>2 DEF HasLock, Inside
<1>5. \A s \in Readers \ {r} : reader'[s] = reader[s]
  BY <1>1, <1>2
<1>6. ~HasLock(reader[r]) /\ reader[r].pc # "computed"
  BY <1>1 DEF HasLock, Idle
<1>7. LockInv'
  <2>1. \A k1 \in Keys : flightLock[k1] # NoLock =>
          \E s \in Readers \ {r} : /\ HasLock(reader[s])
                                   /\ reader[s].lock = flightLock[k1] /\ reader[s].key = k1
    BY <1>6 DEF FlightInv, LockInv
  <2>2. QED
    BY <1>1, <1>4, <1>5, <2>1 DEF FlightInv, LockInv
<1>8. ComputeInv'
  <2>1. ~Reaches' => ~Reaches
    BY <1>1 DEF Reaches
  <2>2. ASSUME NEW s \in Readers, HasLock(reader'[s]), computes[reader'[s].lock] = 1
        PROVE  redis[reader'[s].key] # NoEntry \/ \E q \in Readers : Carries(reader'[q], reader'[s].lock)
    <3>1. s # r /\ reader'[s] = reader[s]
      BY <1>4, <1>5, <2>2
    <3>2. CASE redis[reader[s].key] # NoEntry
      BY <3>1, <3>2
    <3>3. ASSUME NEW q \in Readers, Carries(reader[q], reader[s].lock)
          PROVE  Carries(reader'[q], reader'[s].lock)
      BY <3>1, <3>3, <1>5, <1>6 DEF Carries
    <3>4. QED
      BY <2>2, <3>1, <3>2, <3>3 DEF FlightInv, ComputeInv
  <2>3. QED
    BY <1>1, <1>4, <1>5, <2>1, <2>2 DEF FlightInv, ComputeInv
<1>9. QED
  BY <1>3, <1>7, <1>8 DEF FlightInv

\* A caller moves on, with the lock and the key it has.
LEMMA SameLock ==
    ASSUME FlightInv, NEW r \in Readers, NEW y \in ReaderStates,
           reader' = [reader EXCEPT ![r] = y], flightLock' = flightLock,
           HasLock(reader[r]), HasLock(y),
           y.lock = reader[r].lock, y.key = reader[r].key,
           Inside(reader[r]) \/ ~LockTaken(reader[r].lock)
    PROVE  reader' \in [Readers -> ReaderStates] /\ LockInv'
<1>1. reader \in [Readers -> ReaderStates]
  BY DEF FlightInv, FlightTypes
<1>2. reader'[r] = y /\ \A s \in Readers \ {r} : reader'[s] = reader[s]
  BY <1>1
<1>3. \A s \in Readers : /\ HasLock(reader'[s]) <=> HasLock(reader[s])
                         /\ HasLock(reader[s]) => reader'[s].lock = reader[s].lock
                                                  /\ reader'[s].key = reader[s].key
  BY <1>2
<1>4. \A s, q \in Readers : Inside(reader'[s]) /\ Inside(reader'[q])
                            /\ reader'[s].lock = reader'[q].lock => s = q
  <2>1. CASE Inside(reader[r])
    BY <1>2, <2>1 DEF FlightInv, LockInv
  <2>2. CASE ~LockTaken(reader[r].lock)
    <3>1. \A s \in Readers \ {r} : ~(Inside(reader[s]) /\ reader[s].lock = y.lock)
      BY <2>2 DEF LockTaken, Inside
    <3>2. QED
      BY <1>2, <3>1 DEF FlightInv, LockInv
  <2>3. QED
    BY <2>1, <2>2
<1>5. LockInv'
  BY <1>3, <1>4 DEF FlightInv, LockInv
<1>6. QED
  BY <1>1, <1>5

LEMMA WakeFlight ==
    ASSUME FlightInv, NEW r \in Readers, FlightWake(r)
    PROVE  FlightInv'
<1>1. /\ reader[r].pc = "waiting" /\ ~LockTaken(reader[r].lock)
      /\ UNCHANGED <<redis, healthy, flightLock, computes, linkUp>>
  BY DEF FlightWake, envVars
<1>2. reader[r] \in ReaderStates /\ reader \in [Readers -> ReaderStates]
  BY DEF FlightInv, FlightTypes
<1>3. PICK y : y = [reader[r] EXCEPT !.pc = "locked"]
  OBVIOUS
<1>4. y \in ReaderStates /\ y.pc = "locked" /\ y.lock = reader[r].lock /\ y.key = reader[r].key
  BY <1>1, <1>2, <1>3, StageChange
<1>5. reader' = [reader EXCEPT ![r] = y]
  BY <1>2, <1>3 DEF FlightWake
<1>6. HasLock(reader[r]) /\ HasLock(y)
  BY <1>1, <1>4 DEF HasLock
<1>7. reader' \in [Readers -> ReaderStates] /\ LockInv'
  BY <1>1, <1>4, <1>5, <1>6, SameLock
<1>8. reader'[r] = y /\ \A s \in Readers \ {r} : reader'[s] = reader[s]
  BY <1>2, <1>5
<1>9. ComputeInv'
  <2>1. ~Reaches' => ~Reaches
    BY <1>1 DEF Reaches
  <2>2. ASSUME NEW s \in Readers, HasLock(reader'[s]), computes[reader'[s].lock] = 1
        PROVE  redis[reader'[s].key] # NoEntry \/ \E q \in Readers : Carries(reader'[q], reader'[s].lock)
    <3>1. HasLock(reader[s]) /\ reader'[s].lock = reader[s].lock /\ reader'[s].key = reader[s].key
      BY <1>4, <1>6, <1>8, <2>2
    <3>2. CASE redis[reader[s].key] # NoEntry
      BY <3>1, <3>2
    <3>3. ASSUME NEW q \in Readers, Carries(reader[q], reader[s].lock)
          PROVE  Carries(reader'[q], reader'[s].lock)
      BY <3>1, <3>3, <1>1, <1>8 DEF Carries
    <3>4. QED
      BY <2>2, <3>1, <3>2, <3>3 DEF FlightInv, ComputeInv
  <2>3. QED
    BY <1>1, <1>4, <1>8, <2>1, <2>2 DEF FlightInv, ComputeInv
<1>10. QED
  BY <1>1, <1>7, <1>9 DEF FlightInv, FlightTypes

LEMMA LockFlight ==
    ASSUME FlightInv, NEW r \in Readers, FlightLock(r)
    PROVE  FlightInv'
<1>1. PICK k : k = reader[r].key
  OBVIOUS
<1>2. PICK l : l = IF flightLock[k] # NoLock THEN flightLock[k] ELSE CHOOSE n \in FreshLocks : TRUE
  OBVIOUS
<1>3. PICK y : y = [pc |-> IF LockTaken(l) THEN "waiting" ELSE "locked", key |-> k, lock |-> l]
  OBVIOUS
<1>4. /\ reader[r].pc = "missed"
      /\ flightLock' = [flightLock EXCEPT ![k] = l]
      /\ computes' = IF flightLock[k] = NoLock THEN [computes EXCEPT ![l] = 0] ELSE computes
      /\ reader' = [reader EXCEPT ![r] = y]
      /\ UNCHANGED <<redis, healthy, linkUp>>
  BY <1>1, <1>2, <1>3 DEF FlightLock, envVars
<1>5. /\ reader \in [Readers -> ReaderStates] /\ flightLock \in [Keys -> LockIds \cup {NoLock}]
      /\ computes \in [LockIds -> {0, 1}] /\ FlightTypes
  BY DEF FlightInv, FlightTypes
<1>6. k \in Keys /\ ~HasLock(reader[r]) /\ ~Inside(reader[r])
  BY <1>1, <1>4, <1>5, ReadersHave DEF HasLock, Inside
<1>7. flightLock[k] = NoLock => l \in FreshLocks
  BY <1>2, <1>5, <1>6, FreshLockExists
<1>8. l \in LockIds
  BY <1>2, <1>5, <1>6, <1>7 DEF FreshLocks
<1>9. /\ y.pc \in {"waiting", "locked"} /\ y.key = k /\ y.lock = l /\ y \in ReaderStates
      /\ y.pc = "locked" => ~LockTaken(l)
  BY <1>3, <1>6, <1>8, StateOfHolder
<1>10. HasLock(y) /\ (Inside(y) => ~LockTaken(l))
  BY <1>9 DEF HasLock, Inside
<1>11. reader'[r] = y /\ \A s \in Readers \ {r} : reader'[s] = reader[s]
  BY <1>4, <1>5
\* The other callers that refer to the lock are callers of the same key.
<1>12. ASSUME NEW s \in Readers, HasLock(reader[s]), reader[s].lock = l
       PROVE  flightLock[k] = l /\ flightLock[k] # NoLock /\ reader[s].key = k
  <2>1. l \notin FreshLocks
    BY <1>5, <1>12, ReadersHave DEF FreshLocks
  <2>2. flightLock[k] # NoLock /\ flightLock[k] = l
    BY <1>2, <1>7, <2>1
  <2>3. PICK q \in Readers : HasLock(reader[q]) /\ reader[q].lock = l /\ reader[q].key = k
    BY <1>6, <2>2 DEF FlightInv, LockInv
  <2>4. QED
    BY <1>12, <2>2, <2>3 DEF FlightInv, LockInv
<1>13. FlightTypes'
  <2>1. computes' \in [LockIds -> {0, 1}]
    BY <1>4, <1>5
  <2>2. reader' \in [Readers -> ReaderStates] /\ flightLock' \in [Keys -> LockIds \cup {NoLock}]
    BY <1>4, <1>5, <1>8, <1>9
  <2>3. QED
    BY <2>1, <2>2 DEF FlightTypes
<1>14. LockInv'
  <2>1. ASSUME NEW s \in Readers, NEW q \in Readers, Inside(reader'[s]), Inside(reader'[q]),
               reader'[s].lock = reader'[q].lock
        PROVE  s = q
    <3>1. \A p \in Readers \ {r} : ~(Inside(y) /\ Inside(reader[p]) /\ reader[p].lock = l)
      BY <1>10 DEF LockTaken, Inside
    <3>2. QED
      BY <1>9, <1>11, <2>1, <3>1 DEF FlightInv, LockInv
  <2>2. ASSUME NEW s \in Readers, NEW q \in Readers, HasLock(reader'[s]), HasLock(reader'[q]),
               reader'[s].lock = reader'[q].lock
        PROVE  reader'[s].key = reader'[q].key
    BY <1>9, <1>11, <1>12, <2>2 DEF FlightInv, LockInv
  <2>3. ASSUME NEW j \in Keys, flightLock'[j] # NoLock
        PROVE  \E s \in Readers : /\ HasLock(reader'[s])
                                  /\ reader'[s].lock = flightLock'[j] /\ reader'[s].key = j
    <3>1. CASE j = k
      BY <1>4, <1>5, <1>9, <1>10, <1>11, <3>1
    <3>2. CASE j # k
      <4>1. flightLock'[j] = flightLock[j]
        BY <1>4, <1>5, <3>2
      <4>2. PICK s \in Readers : HasLock(reader[s]) /\ reader[s].lock = flightLock[j]
                                 /\ reader[s].key = j
        BY <2>3, <4>1 DEF FlightInv, LockInv
      <4>3. s # r
        BY <1>6, <4>2
      <4>4. QED
        BY <1>11, <4>1, <4>2, <4>3
    <3>3. QED
      BY <3>1, <3>2
  <2>4. QED
    BY <2>1, <2>2, <2>3 DEF LockInv
<1>15. ComputeInv'
  <2>1. \A n \in LockIds : computes'[n] = 0 \/ computes'[n] = computes[n]
    BY <1>4, <1>5
  <2>2. ~Reaches' => \A n \in LockIds : computes'[n] = 0
    BY <1>4, <2>1 DEF Reaches, FlightInv, ComputeInv
  <2>3. ASSUME NEW s \in Readers, NEW q \in Readers, Carries(reader[q], reader[s].lock)
        PROVE  Carries(reader'[q], reader[s].lock)
    <3>1. q # r
      BY <1>4, <2>3 DEF Carries
    <3>2. QED
      BY <1>11, <2>3, <3>1
  <2>4. ASSUME NEW s \in Readers, HasLock(reader[s]), computes'[reader[s].lock] = 1
        PROVE  redis[reader[s].key] # NoEntry \/ \E q \in Readers : Carries(reader'[q], reader[s].lock)
    <3>1. reader[s].lock \in LockIds
      BY <1>5, <2>4, ReadersHave
    <3>2. computes[reader[s].lock] = 1
      BY <2>1, <2>4, <3>1
    <3>3. redis[reader[s].key] # NoEntry \/ \E q \in Readers : Carries(reader[q], reader[s].lock)
      BY <2>4, <3>2 DEF FlightInv, ComputeInv
    <3>4. QED
      BY <2>3, <3>3
  <2>5. ASSUME computes'[l] = 1
        PROVE  redis[k] # NoEntry \/ \E q \in Readers : Carries(reader'[q], l)
    <3>1. flightLock[k] # NoLock
      BY <1>4, <1>5, <1>8, <2>5
    <3>2. PICK s \in Readers : HasLock(reader[s]) /\ reader[s].lock = l /\ reader[s].key = k
      BY <1>2, <1>6, <3>1 DEF FlightInv, LockInv
    <3>3. QED
      BY <2>4, <2>5, <3>2
  <2>6. ASSUME NEW s \in Readers, HasLock(reader'[s]), computes'[reader'[s].lock] = 1
        PROVE  redis[reader'[s].key] # NoEntry
               \/ \E q \in Readers : Carries(reader'[q], reader'[s].lock)
    <3>1. CASE s = r
      BY <1>9, <1>11, <2>5, <2>6, <3>1
    <3>2. CASE s # r
      BY <1>11, <2>4, <2>6, <3>2
    <3>3. QED
      BY <3>1, <3>2
  <2>7. ASSUME NEW s \in Readers, reader'[s].pc = "computing"
        PROVE  computes'[reader'[s].lock] = 0
    <3>1. s # r /\ reader'[s] = reader[s] /\ HasLock(reader[s])
      BY <1>9, <1>11, <2>7 DEF HasLock
    <3>2. computes[reader[s].lock] = 0 /\ reader[s].lock \in LockIds
      BY <1>5, <2>7, <3>1, ReadersHave DEF FlightInv, ComputeInv
    <3>3. QED
      BY <2>1, <3>1, <3>2
  <2>8. QED
    BY <1>4, <2>2, <2>6, <2>7 DEF ComputeInv
<1>16. QED
  BY <1>13, <1>14, <1>15 DEF FlightInv

\* A caller leaves, and takes its lock out of the dictionary if it is there.
LEMMA LeaveFlight ==
    ASSUME FlightInv, NEW r \in Readers, HasLock(reader[r]), FlightLeave(r)
    PROVE  /\ reader' \in [Readers -> ReaderStates]
           /\ flightLock' \in [Keys -> LockIds \cup {NoLock}]
           /\ LockInv'
           /\ ~HasLock(reader'[r]) /\ reader'[r].pc = "idle"
           /\ \A s \in Readers \ {r} : reader'[s] = reader[s]
<1>1. /\ reader' = [reader EXCEPT ![r] = Idle]
      /\ flightLock' = [k \in Keys |-> IF k = reader[r].key /\ flightLock[k] = reader[r].lock
                                       THEN NoLock ELSE flightLock[k]]
  BY DEF FlightLeave
<1>2. reader \in [Readers -> ReaderStates] /\ flightLock \in [Keys -> LockIds \cup {NoLock}]
  BY DEF FlightInv, FlightTypes
<1>3. Idle \in ReaderStates /\ ~HasLock(Idle) /\ ~Inside(Idle) /\ Idle.pc = "idle"
  BY DEF ReaderStates, Idle, HasLock, Inside
<1>4. reader' \in [Readers -> ReaderStates] /\ flightLock' \in [Keys -> LockIds \cup {NoLock}]
  BY <1>1, <1>2, <1>3
<1>5. reader'[r] = Idle /\ \A s \in Readers \ {r} : reader'[s] = reader[s]
  BY <1>1, <1>2
<1>6. ASSUME NEW j \in Keys, flightLock'[j] # NoLock
      PROVE  \E s \in Readers : /\ HasLock(reader'[s])
                                /\ reader'[s].lock = flightLock'[j] /\ reader'[s].key = j
  <2>1. flightLock'[j] = flightLock[j] /\ ~(j = reader[r].key /\ flightLock[j] = reader[r].lock)
    BY <1>1, <1>6
  <2>2. PICK s \in Readers : HasLock(reader[s]) /\ reader[s].lock = flightLock[j] /\ reader[s].key = j
    BY <1>6, <2>1 DEF FlightInv, LockInv
  <2>3. s # r
    BY <2>1, <2>2
  <2>4. QED
    BY <1>5, <2>1, <2>2, <2>3
<1>7. LockInv'
  BY <1>3, <1>5, <1>6 DEF FlightInv, LockInv
<1>8. QED
  BY <1>3, <1>4, <1>5, <1>7

\* One caller moves and carries nothing before or after: the others' results
\* are where they were.
LEMMA OthersCarry ==
    ASSUME FlightInv, NEW r \in Readers, ~(reader[r].pc = "computed" /\ reader[r].seen > 0),
           \A s \in Readers \ {r} : reader'[s] = reader[s],
           redis' = redis, computes' = computes
    PROVE  \A s \in Readers : HasLock(reader[s]) /\ computes'[reader[s].lock] = 1 =>
              \/ redis'[reader[s].key] # NoEntry
              \/ \E q \in Readers : Carries(reader'[q], reader[s].lock)
<1>1. ASSUME NEW s \in Readers, HasLock(reader[s]), computes'[reader[s].lock] = 1
      PROVE  \/ redis'[reader[s].key] # NoEntry
             \/ \E q \in Readers : Carries(reader'[q], reader[s].lock)
  <2>1. CASE redis[reader[s].key] # NoEntry
    BY <2>1
  <2>2. ASSUME NEW q \in Readers, Carries(reader[q], reader[s].lock)
        PROVE  Carries(reader'[q], reader[s].lock)
    <3>1. q # r
      BY <2>2 DEF Carries
    <3>2. QED
      BY <2>2, <3>1
  <2>3. QED
    BY <1>1, <2>1, <2>2 DEF FlightInv, ComputeInv
<1>2. QED
  BY <1>1

LEMMA RegetFlight ==
    ASSUME FlightInv, NEW r \in Readers, FlightReget(r)
    PROVE  FlightInv'
<1>1. /\ reader[r].pc = "locked" /\ healthy' = Reaches
      /\ UNCHANGED <<redis, computes, linkUp>>
  BY DEF FlightReget, envVars
<1>2. reader[r] \in ReaderStates /\ reader \in [Readers -> ReaderStates] /\ FlightTypes
  BY DEF FlightInv, FlightTypes
<1>3. HasLock(reader[r]) /\ Inside(reader[r])
  BY <1>1 DEF HasLock, Inside
<1>4. reader[r].lock \in LockIds /\ reader[r].key \in Keys
  BY <1>2, <1>3, ReadersHave
<1>5. ~Reaches' => ~Reaches
  BY <1>1 DEF Reaches
<1>6. CASE FlightLeave(r)
  <2>1. /\ reader' \in [Readers -> ReaderStates] /\ flightLock' \in [Keys -> LockIds \cup {NoLock}]
        /\ LockInv' /\ ~HasLock(reader'[r]) /\ reader'[r].pc = "idle"
        /\ \A s \in Readers \ {r} : reader'[s] = reader[s]
    BY <1>3, <1>6, LeaveFlight
  <2>2. \A s \in Readers : HasLock(reader[s]) /\ computes'[reader[s].lock] = 1 =>
              \/ redis'[reader[s].key] # NoEntry
              \/ \E q \in Readers : Carries(reader'[q], reader[s].lock)
    BY <1>1, <2>1, OthersCarry
  <2>3. ComputeInv'
    BY <1>1, <1>5, <2>1, <2>2 DEF FlightInv, ComputeInv
  <2>4. FlightTypes'
    BY <1>1, <1>2, <2>1 DEF FlightTypes
  <2>5. QED
    BY <2>1, <2>3, <2>4 DEF FlightInv
<1>7. CASE /\ ~(Reaches /\ redis[reader[r].key] # NoEntry)
           /\ reader' = [reader EXCEPT ![r].pc = "computing"] /\ UNCHANGED flightLock
  <2>1. PICK y : y = [reader[r] EXCEPT !.pc = "computing"]
    OBVIOUS
  <2>2. y \in ReaderStates /\ y.pc = "computing" /\ y.lock = reader[r].lock /\ y.key = reader[r].key
    BY <1>1, <1>2, <2>1, StageChange
  <2>3. reader' = [reader EXCEPT ![r] = y]
    BY <1>2, <1>7, <2>1
  <2>4. HasLock(y)
    BY <2>2 DEF HasLock
  <2>5. reader' \in [Readers -> ReaderStates] /\ LockInv'
    BY <1>3, <1>7, <2>2, <2>3, <2>4, SameLock
  <2>6. reader'[r] = y /\ \A s \in Readers \ {r} : reader'[s] = reader[s]
    BY <1>2, <2>3
  \* The caller looked inside the lock: nobody has computed under it.
  <2>7. computes[reader[r].lock] = 0
    <3>1. CASE ~Reaches
      BY <1>4, <3>1 DEF FlightInv, ComputeInv
    <3>2. CASE redis[reader[r].key] = NoEntry
      <4>1. ASSUME NEW s \in Readers PROVE ~Carries(reader[s], reader[r].lock)
        <5>1. SUFFICES ASSUME Carries(reader[s], reader[r].lock) PROVE FALSE
          OBVIOUS
        <5>2. Inside(reader[s]) /\ reader[s].lock = reader[r].lock /\ reader[s].pc = "computed"
          BY <5>1 DEF Carries, Inside
        <5>3. s = r
          BY <1>3, <5>2 DEF FlightInv, LockInv
        <5>4. QED
          BY <1>1, <5>2, <5>3
      <4>2. computes[reader[r].lock] # 1
        BY <1>3, <3>2, <4>1 DEF FlightInv, ComputeInv
      <4>3. QED
        BY <1>2, <1>4, <4>2 DEF FlightTypes
    <3>3. QED
      BY <1>7, <3>1, <3>2
  <2>8. \A s \in Readers : HasLock(reader[s]) /\ computes'[reader[s].lock] = 1 =>
              \/ redis'[reader[s].key] # NoEntry
              \/ \E q \in Readers : Carries(reader'[q], reader[s].lock)
    BY <1>1, <2>6, OthersCarry
  <2>9. \A s \in Readers : HasLock(reader'[s]) =>
           /\ HasLock(reader[s]) /\ reader'[s].lock = reader[s].lock /\ reader'[s].key = reader[s].key
    BY <1>3, <2>2, <2>6
  <2>10. \A s \in Readers : reader'[s].pc = "computing" => computes[reader'[s].lock] = 0
    BY <2>2, <2>6, <2>7 DEF FlightInv, ComputeInv
  <2>11. ComputeInv'
    <3>1. ~Reaches' => \A l \in LockIds : computes'[l] = 0
      BY <1>1, <1>5 DEF FlightInv, ComputeInv
    <3>2. \A s \in Readers : HasLock(reader'[s]) /\ computes'[reader'[s].lock] = 1 =>
              \/ redis'[reader'[s].key] # NoEntry
              \/ \E q \in Readers : Carries(reader'[q], reader'[s].lock)
      BY <2>8, <2>9
    <3>3. QED
      BY <1>1, <2>10, <3>1, <3>2 DEF ComputeInv
  <2>12. FlightTypes'
    BY <1>1, <1>2, <1>7, <2>5 DEF FlightTypes
  <2>13. QED
    BY <2>5, <2>11, <2>12 DEF FlightInv
<1>8. QED
  BY <1>6, <1>7 DEF FlightReget

LEMMA ComputeFlight ==
    ASSUME FlightInv, RowTypes, LinkTypes, NEW r \in Readers, FlightCompute(r)
    PROVE  FlightInv'
<1>1. PICK k : k = reader[r].key
  OBVIOUS
<1>2. PICK l : l = reader[r].lock
  OBVIOUS
<1>3. PICK v : v = rowVersion[k]
  OBVIOUS
<1>4. PICK y : y = [pc |-> "computed", key |-> k, lock |-> l, seen |-> v]
  OBVIOUS
<1>5. /\ reader[r].pc = "computing" /\ reader' = [reader EXCEPT ![r] = y]
      /\ computes' = [computes EXCEPT ![l] = IF Reaches /\ v > 0 THEN computes[l] + 1
                                                                 ELSE computes[l]]
      /\ UNCHANGED <<redis, healthy, linkUp, flightLock>>
  BY <1>1, <1>2, <1>3, <1>4 DEF FlightCompute, envVars
<1>6. /\ reader[r] \in ReaderStates /\ reader \in [Readers -> ReaderStates] /\ FlightTypes
      /\ computes \in [LockIds -> {0, 1}]
  BY DEF FlightInv, FlightTypes
<1>7. HasLock(reader[r]) /\ Inside(reader[r])
  BY <1>5 DEF HasLock, Inside
<1>8. l \in LockIds /\ k \in Keys
  BY <1>1, <1>2, <1>6, <1>7, ReadersHave
<1>9. v \in 0..MaxWrites
  BY <1>3, <1>8 DEF RowTypes
<1>10. /\ y \in ReaderStates /\ y.pc = "computed" /\ y.lock = l /\ y.key = k /\ y.seen = v
       /\ HasLock(y)
  BY <1>4, <1>8, <1>9, StateOfComputed DEF HasLock
<1>11. reader' \in [Readers -> ReaderStates] /\ LockInv'
  BY <1>1, <1>2, <1>5, <1>7, <1>10, SameLock
<1>12. reader'[r] = y /\ \A s \in Readers \ {r} : reader'[s] = reader[s]
  BY <1>5, <1>6
<1>13. computes[l] = 0
  BY <1>2, <1>5 DEF FlightInv, ComputeInv
<1>14. /\ computes'[l] = IF Reaches /\ v > 0 THEN 1 ELSE 0
       /\ \A n \in LockIds \ {l} : computes'[n] = computes[n]
       /\ computes' \in [LockIds -> {0, 1}]
  <2>1. PICK c \in {0, 1} : c = IF Reaches /\ v > 0 THEN computes[l] + 1 ELSE computes[l]
    BY <1>13
  <2>2. computes' = [computes EXCEPT ![l] = c]
    BY <1>5, <2>1
  <2>3. c = IF Reaches /\ v > 0 THEN 1 ELSE 0
    BY <1>13, <2>1
  <2>4. QED
    BY <1>6, <1>8, <2>2, <2>3
<1>15. ~Reaches' => \A n \in LockIds : computes'[n] = 0
  <2>1. ~Reaches' => ~Reaches
    BY <1>5 DEF Reaches
  <2>2. ~Reaches => \A n \in LockIds : computes[n] = 0
    BY DEF FlightInv, ComputeInv
  <2>3. QED
    BY <1>14, <2>1, <2>2
<1>16. ASSUME NEW s \in Readers, reader'[s].pc = "computing"
       PROVE  computes'[reader'[s].lock] = 0
  <2>1. s # r /\ reader'[s] = reader[s]
    BY <1>10, <1>12, <1>16
  <2>2. Inside(reader[s]) /\ HasLock(reader[s]) /\ computes[reader[s].lock] = 0
    BY <1>16, <2>1 DEF Inside, HasLock, FlightInv, ComputeInv
  <2>3. reader[s].lock # l
    BY <1>2, <1>7, <2>1, <2>2 DEF FlightInv, LockInv
  <2>4. reader[s].lock \in LockIds
    BY <1>6, <2>2, ReadersHave
  <2>5. QED
    BY <1>14, <2>1, <2>2, <2>3, <2>4
<1>17. ASSUME NEW s \in Readers, HasLock(reader'[s]), computes'[reader'[s].lock] = 1
       PROVE  \/ redis'[reader'[s].key] # NoEntry
              \/ \E q \in Readers : Carries(reader'[q], reader'[s].lock)
  <2>1. HasLock(reader[s]) /\ reader'[s].lock = reader[s].lock /\ reader'[s].key = reader[s].key
    BY <1>1, <1>2, <1>7, <1>10, <1>12, <1>17
  <2>2. CASE reader'[s].lock = l
    <3>1. v > 0
      BY <1>14, <1>17, <2>2
    <3>2. Carries(reader'[r], reader'[s].lock)
      BY <1>10, <1>12, <2>2, <3>1 DEF Carries
    <3>3. QED
      BY <3>2
  <2>3. CASE reader'[s].lock # l
    <3>1. reader[s].lock \in LockIds
      BY <1>6, <2>1, ReadersHave
    <3>2. computes[reader[s].lock] = 1
      BY <1>14, <1>17, <2>1, <2>3, <3>1
    <3>3. CASE redis[reader[s].key] # NoEntry
      BY <1>5, <2>1, <3>3
    <3>4. ASSUME NEW q \in Readers, Carries(reader[q], reader[s].lock)
          PROVE  Carries(reader'[q], reader'[s].lock)
      <4>1. q # r
        BY <1>5, <3>4 DEF Carries
      <4>2. QED
        BY <1>12, <2>1, <3>4, <4>1
    <3>5. QED
      BY <2>1, <3>2, <3>3, <3>4 DEF FlightInv, ComputeInv
  <2>4. QED
    BY <2>2, <2>3
<1>18. ComputeInv'
  BY <1>15, <1>16, <1>17 DEF ComputeInv
<1>19. FlightTypes'
  BY <1>5, <1>6, <1>11, <1>14 DEF FlightTypes
<1>20. QED
  BY <1>11, <1>18, <1>19 DEF FlightInv

LEMMA StoreFlight ==
    ASSUME FlightInv, MaskInv, NEW r \in Readers, FlightStore(r)
    PROVE  FlightInv'
<1>1. PICK k : k = reader[r].key
  OBVIOUS
<1>2. PICK v : v = reader[r].seen
  OBVIOUS
<1>3. PICK e : e = [version |-> v, raced |-> v # rowVersion[k]]
  OBVIOUS
<1>4. /\ reader[r].pc = "computed" /\ FlightLeave(r)
      /\ healthy' = IF v = 0 THEN healthy ELSE Reaches
      /\ redis' = IF v > 0 /\ Reaches THEN [redis EXCEPT ![k] = e] ELSE redis
      /\ UNCHANGED <<computes, linkUp>>
  BY <1>1, <1>2, <1>3 DEF FlightStore, envVars
<1>5. /\ reader[r] \in ReaderStates /\ reader \in [Readers -> ReaderStates] /\ FlightTypes
      /\ computes \in [LockIds -> {0, 1}]
  BY DEF FlightInv, FlightTypes
<1>6. HasLock(reader[r]) /\ Inside(reader[r])
  BY <1>4 DEF HasLock, Inside
<1>7. k \in Keys /\ reader[r].lock \in LockIds /\ v \in 0..MaxWrites
  BY <1>1, <1>2, <1>4, <1>5, <1>6, ReadersHave, ReaderForm
<1>8. v \in Nat
  BY <1>7, CacheFacts
<1>9. e # NoEntry
  <2>1. e \in [version : Nat, raced : BOOLEAN]
    BY <1>3, <1>8
  <2>2. QED
    BY <2>1, CacheFacts
<1>10. redis \in [Keys -> {NoEntry} \cup [version : 1..MaxWrites, raced : BOOLEAN]]
  BY DEF MaskInv, EntryTypes
<1>11. /\ reader' \in [Readers -> ReaderStates] /\ flightLock' \in [Keys -> LockIds \cup {NoLock}]
       /\ LockInv' /\ ~HasLock(reader'[r]) /\ reader'[r].pc = "idle"
       /\ \A s \in Readers \ {r} : reader'[s] = reader[s]
  BY <1>4, <1>6, LeaveFlight
<1>12. ~Reaches' => ~Reaches
  BY <1>4 DEF Reaches
<1>13. \A j \in Keys : redis[j] # NoEntry => redis'[j] # NoEntry
  <2>1. CASE v > 0 /\ Reaches
    BY <1>4, <1>7, <1>9, <1>10, <2>1
  <2>2. CASE ~(v > 0 /\ Reaches)
    BY <1>4, <2>2
  <2>3. QED
    BY <2>1, <2>2
<1>14. ASSUME NEW s \in Readers, HasLock(reader'[s]), computes'[reader'[s].lock] = 1
       PROVE  \/ redis'[reader'[s].key] # NoEntry
              \/ \E q \in Readers : Carries(reader'[q], reader'[s].lock)
  <2>1. s # r /\ reader'[s] = reader[s] /\ HasLock(reader[s])
    BY <1>11, <1>14
  <2>2. reader[s].lock \in LockIds /\ reader[s].key \in Keys
    BY <1>5, <2>1, ReadersHave
  <2>3. computes[reader[s].lock] = 1
    BY <1>4, <1>14, <2>1
  <2>4. CASE redis[reader[s].key] # NoEntry
    BY <1>13, <2>1, <2>2, <2>4
  <2>5. ASSUME NEW q \in Readers, Carries(reader[q], reader[s].lock), q # r
        PROVE  Carries(reader'[q], reader'[s].lock)
    BY <1>11, <2>1, <2>5
  \* The result counted was this caller's: it has just been stored.
  <2>6. CASE Carries(reader[r], reader[s].lock)
    <3>1. Reaches
      BY <2>2, <2>3 DEF FlightInv, ComputeInv
    <3>2. v > 0 /\ reader[r].lock = reader[s].lock
      BY <1>2, <2>6 DEF Carries
    <3>3. reader[s].key = k
      BY <1>1, <1>6, <2>1, <3>2 DEF FlightInv, LockInv
    <3>4. redis'[k] = e
      BY <1>4, <1>7, <1>10, <3>1, <3>2
    <3>5. QED
      BY <1>9, <2>1, <3>3, <3>4
  <2>7. QED
    BY <2>1, <2>3, <2>4, <2>5, <2>6 DEF FlightInv, ComputeInv
<1>15. ComputeInv'
  <2>1. \A s \in Readers : reader'[s].pc = "computing" => computes'[reader'[s].lock] = 0
    BY <1>4, <1>11 DEF FlightInv, ComputeInv
  <2>2. ~Reaches' => \A l \in LockIds : computes'[l] = 0
    BY <1>4, <1>12 DEF FlightInv, ComputeInv
  <2>3. QED
    BY <1>14, <2>1, <2>2 DEF ComputeInv
<1>16. FlightTypes'
  BY <1>4, <1>5, <1>11 DEF FlightTypes
<1>17. QED
  BY <1>11, <1>15, <1>16 DEF FlightInv

\* What a caller stores is right, or is known to have been overtaken.
LEMMA StoreMasks ==
    ASSUME FlightInv, MaskInv, NEW r \in Readers, FlightStore(r)
    PROVE  MaskInv'
<1>1. PICK k : k = reader[r].key
  OBVIOUS
<1>2. PICK v : v = reader[r].seen
  OBVIOUS
<1>3. PICK e : e = [version |-> v, raced |-> v # rowVersion[k]]
  OBVIOUS
<1>4. /\ reader[r].pc = "computed"
      /\ healthy' = IF v = 0 THEN healthy ELSE Reaches
      /\ redis' = IF v > 0 /\ Reaches THEN [redis EXCEPT ![k] = e] ELSE redis
      /\ lost' = IF v > 0 /\ Reaches THEN lost \ {k} ELSE lost
      /\ UNCHANGED <<rowVersion, invalidations, pendingVars, replay, linkUp, enabled, outages,
                     restarts>>
  BY <1>1, <1>2, <1>3 DEF FlightStore, envVars
<1>5. FlightTypes
  BY DEF FlightInv
<1>6. HasLock(reader[r])
  BY <1>4 DEF HasLock
<1>7. k \in Keys /\ v \in 0..MaxWrites
  BY <1>1, <1>2, <1>4, <1>5, <1>6, ReadersHave, ReaderForm
<1>8. LinkTypes'
  BY <1>4 DEF MaskInv, LinkTypes, Reaches
<1>9. CASE ~(v > 0 /\ Reaches)
  <2>1. UNCHANGED <<redis, lost>>
    BY <1>4, <1>9
  <2>2. QED
    BY <1>4, <1>8, <2>1, QuietMasks
<1>10. CASE v > 0 /\ Reaches
  <2>1. v \in 1..MaxWrites
    BY <1>7, <1>10, CacheFacts
  <2>2. e \in [version : 1..MaxWrites, raced : BOOLEAN] /\ e.version = v
        /\ (e.raced <=> v # rowVersion[k])
    BY <1>3, <2>1
  <2>3. redis \in [Keys -> {NoEntry} \cup [version : 1..MaxWrites, raced : BOOLEAN]]
        /\ lost \subseteq Keys
    BY DEF MaskInv, EntryTypes
  <2>4. redis' = [redis EXCEPT ![k] = e] /\ lost' = lost \ {k}
    BY <1>4, <1>10
  <2>5. EntryTypes'
    BY <2>2, <2>3, <2>4 DEF EntryTypes
  <2>6. RowTypes' /\ PendingTypes' /\ ReplayTypes'
    BY <1>4 DEF MaskInv, RowTypes, PendingTypes, ReplayTypes, pendingVars
  <2>7. ASSUME NEW q \in Known \ lost' PROVE Unmasked(q)'
    <3>1. q \in Keys
      BY CacheFacts
    <3>2. CASE q = k
      <4>1. redis'[q] = e
        BY <1>7, <2>3, <2>4, <3>2
      <4>2. Sound(q)'
        BY <1>4, <2>2, <3>2, <4>1 DEF Sound
      <4>3. QED
        BY <4>2 DEF Unmasked
    <3>3. CASE q # k
      <4>1. redis'[q] = redis[q] /\ q \notin lost
        BY <2>3, <2>4, <3>1, <3>3
      <4>2. Unmasked(q)
        BY <4>1 DEF MaskInv
      <4>3. QED
        BY <1>4, <4>1, <4>2 DEF Unmasked, Sound, PendingKey, Replayed, pendingVars
    <3>4. QED
      BY <3>2, <3>3
  <2>8. QED
    BY <1>8, <2>5, <2>6, <2>7 DEF MaskInv
<1>11. QED
  BY <1>9, <1>10

-----------------------------------------------------------------------------
(***************************************************************************)
(* The whole of it                                                         *)
(***************************************************************************)

CacheInv == MaskInv /\ FlightInv

LEMMA CacheInitInv == ASSUME CacheInit PROVE CacheInv
<1>1. /\ rowVersion = [k \in Keys |-> 0] /\ redis = [k \in Keys |-> NoEntry]
      /\ linkUp = TRUE /\ enabled = TRUE /\ healthy = TRUE
      /\ invalidations = [k \in Keys |-> 0]
      /\ pendingDeletes = {} /\ pendingPatterns = {} /\ pendingOverflow = FALSE
      /\ replay = NoReplay /\ lost = {} /\ outages = 0 /\ restarts = 0
  BY DEF CacheInit
<1>2. /\ flightLock = [k \in Keys |-> NoLock] /\ reader = [r \in Readers |-> Idle]
      /\ computes = [l \in LockIds |-> 0]
  BY DEF CacheInit
<1>3. RowTypes /\ EntryTypes /\ LinkTypes
  BY <1>1, CacheFacts DEF RowTypes, EntryTypes, LinkTypes
<1>4. PendingTypes
  BY <1>1, NothingPending DEF PendingTypes
<1>5. ReplayTypes
  BY <1>1, FS_EmptySet DEF ReplayTypes, NoReplay
<1>6. \A k \in Known \ lost : Unmasked(k)
  BY <1>1, CacheFacts DEF Unmasked, Sound
<1>7. FlightTypes
  BY <1>2 DEF FlightTypes, ReaderStates
<1>8. \A r \in Readers : ~HasLock(reader[r]) /\ ~Inside(reader[r]) /\ reader[r].pc = "idle"
  BY <1>2 DEF HasLock, Inside, Idle
<1>9. LockInv /\ ComputeInv
  BY <1>2, <1>8 DEF LockInv, ComputeInv
<1>10. QED
  BY <1>3, <1>4, <1>5, <1>6, <1>7, <1>9 DEF CacheInv, MaskInv, FlightInv

\* Steps that leave the callers, the entries and the counts alone.
LEMMA StillFlight ==
    ASSUME FlightInv, UNCHANGED <<flightLock, reader, redis, computes>>,
           ~Reaches' => \A l \in LockIds : computes[l] = 0
    PROVE  FlightInv'
<1>1. computes' \in [LockIds -> {0, 1}]
  BY DEF FlightInv, FlightTypes
<1>2. UNCHANGED flightVars
  BY DEF flightVars
<1>3. QED
  BY <1>1, <1>2, QuietFlight

LEMMA RestartFlight == ASSUME NewProcess PROVE FlightInv'
<1>1. /\ flightLock' = [k \in Keys |-> NoLock] /\ reader' = [r \in Readers |-> Idle]
      /\ computes' = [l \in LockIds |-> 0]
  BY DEF NewProcess
<1>2. FlightTypes'
  BY <1>1 DEF FlightTypes, ReaderStates
<1>3. \A r \in Readers : ~HasLock(reader'[r]) /\ ~Inside(reader'[r]) /\ reader'[r].pc = "idle"
  BY <1>1 DEF HasLock, Inside, Idle
<1>4. LockInv' /\ ComputeInv'
  BY <1>1, <1>3 DEF LockInv, ComputeInv
<1>5. QED
  BY <1>2, <1>4 DEF FlightInv

LEMMA CacheStep == ASSUME CacheInv, CacheNext PROVE CacheInv'
<1>1. MaskInv /\ FlightInv /\ RowTypes /\ LinkTypes
  BY DEF CacheInv, MaskInv
<1>3. ASSUME NEW k \in Keys, CommitWrite(k) PROVE CacheInv'
  <2>1. UNCHANGED <<flightLock, reader, redis, computes, healthy, linkUp>>
    BY <1>3 DEF CommitWrite, flightVars, envVars
  <2>2. FlightInv'
    BY <1>1, <2>1, StillFlight DEF Reaches, FlightInv, ComputeInv
  <2>3. QED
    BY <1>1, <1>3, <2>2, CommitMasks DEF CacheInv
<1>4. ASSUME NEW k \in Keys, RunInvalidation(k) PROVE CacheInv'
  <2>1. UNCHANGED flightVars /\ linkUp' = linkUp /\ DeleteMany({k})
    BY <1>4 DEF RunInvalidation, envVars
  <2>2. FlightInv'
    BY <1>1, <2>1, DeleteFlight
  <2>3. QED
    BY <1>1, <1>4, <2>2, InvalidationMasks DEF CacheInv
<1>5. ASSUME NEW k \in Keys, ExpireEntry(k) PROVE CacheInv'
  <2>1. UNCHANGED flightVars /\ UNCHANGED <<healthy, linkUp>> /\ DropEntries({k})
    BY <1>5 DEF ExpireEntry, envVars
  <2>2. FlightInv'
    BY <1>1, <2>1, DropFlight
  <2>3. QED
    BY <1>1, <1>5, <2>2, ExpiryMasks DEF CacheInv
<1>6. CASE SchedulerSweep
  <2>1. UNCHANGED flightVars /\ linkUp' = linkUp /\ InvalidatePattern(Swept)
    BY <1>6 DEF SchedulerSweep, envVars
  <2>2. Swept \in SUBSET Keys
    BY CacheFacts
  <2>3. FlightInv'
    BY <1>1, <2>1, <2>2, DeleteFlight
  <2>4. QED
    BY <1>1, <1>6, <2>3, SweepMasks DEF CacheInv
<1>7. ASSUME NEW r \in Readers, NEW k \in Keys, FlightGet(r, k) PROVE CacheInv'
  <2>1. /\ UNCHANGED <<rowVersion, invalidations, redis, lost, pendingVars, replay>>
        /\ UNCHANGED <<linkUp, enabled, outages, restarts>> /\ healthy' = Reaches
    BY <1>7 DEF FlightGet, envVars
  <2>2. LinkTypes'
    BY <1>1, <2>1 DEF LinkTypes, Reaches
  <2>3. QED
    BY <1>1, <1>7, <2>1, <2>2, QuietMasks, GetFlight DEF CacheInv
<1>8. ASSUME NEW r \in Readers, FlightLock(r) \/ FlightWake(r) \/ FlightCompute(r) PROVE CacheInv'
  <2>1. /\ UNCHANGED <<rowVersion, invalidations, redis, lost, pendingVars, replay>>
        /\ UNCHANGED <<linkUp, enabled, outages, restarts, healthy>>
    BY <1>8 DEF FlightLock, FlightWake, FlightCompute, envVars
  <2>2. LinkTypes'
    BY <1>1, <2>1 DEF LinkTypes
  <2>3. FlightInv'
    BY <1>1, <1>8, LockFlight, WakeFlight, ComputeFlight
  <2>4. QED
    BY <1>1, <2>1, <2>2, <2>3, QuietMasks DEF CacheInv
<1>9. ASSUME NEW r \in Readers, FlightReget(r) PROVE CacheInv'
  <2>1. /\ UNCHANGED <<rowVersion, invalidations, redis, lost, pendingVars, replay>>
        /\ UNCHANGED <<linkUp, enabled, outages, restarts>> /\ healthy' = Reaches
    BY <1>9 DEF FlightReget, envVars
  <2>2. LinkTypes'
    BY <1>1, <2>1 DEF LinkTypes, Reaches
  <2>3. QED
    BY <1>1, <1>9, <2>1, <2>2, QuietMasks, RegetFlight DEF CacheInv
<1>10. ASSUME NEW r \in Readers, FlightStore(r) PROVE CacheInv'
  BY <1>1, <1>10, StoreMasks, StoreFlight DEF CacheInv
<1>11. CASE LinkDown
  <2>1. /\ UNCHANGED <<rowVersion, invalidations, redis, lost, pendingVars, replay, flightVars>>
        /\ UNCHANGED <<enabled, healthy, restarts>> /\ linkUp' = FALSE
        /\ outages < MaxOutages /\ outages' = outages + 1
        /\ computes' = [l \in LockIds |-> 0]
    BY <1>11 DEF LinkDown
  <2>2. outages' \in 0..MaxOutages
    BY <1>1, <2>1, CacheFacts DEF LinkTypes
  <2>3. LinkTypes'
    BY <1>1, <2>1, <2>2 DEF LinkTypes
  <2>4. computes' \in [LockIds -> {0, 1}] /\ \A l \in LockIds : computes'[l] = 0
    BY <2>1
  <2>5. \A r \in Readers : HasLock(reader[r]) => computes'[reader[r].lock] = 0
    BY <1>1, <2>4, ReadersHave DEF FlightInv
  <2>6. FlightInv'
    BY <1>1, <2>1, <2>4, <2>5, QuietFlight
  <2>7. QED
    BY <1>1, <2>1, <2>3, <2>6, QuietMasks DEF CacheInv
<1>12. CASE LinkBack
  <2>1. /\ UNCHANGED <<rowVersion, invalidations, redis, lost, pendingVars, replay>>
        /\ UNCHANGED <<enabled, healthy, restarts, outages>> /\ ~linkUp /\ linkUp' = TRUE
        /\ UNCHANGED <<flightLock, reader, redis, computes>>
    BY <1>12 DEF LinkBack, flightVars
  <2>2. LinkTypes'
    BY <1>1, <2>1 DEF LinkTypes
  <2>3. \A l \in LockIds : computes[l] = 0
    BY <1>1, <2>1 DEF FlightInv, ComputeInv, Reaches
  <2>4. FlightInv'
    BY <1>1, <2>1, <2>3, StillFlight
  <2>5. QED
    BY <1>1, <2>1, <2>2, <2>4, QuietMasks DEF CacheInv
<1>13. CASE CheckHealth
  <2>1. UNCHANGED <<flightLock, reader, redis, computes, linkUp>> /\ healthy' = linkUp
    BY <1>13 DEF CheckHealth, flightVars, envVars
  <2>2. ~Reaches' => \A l \in LockIds : computes[l] = 0
    BY <1>1, <2>1 DEF FlightInv, ComputeInv, Reaches
  <2>3. FlightInv'
    BY <1>1, <2>1, <2>2, StillFlight
  <2>4. QED
    BY <1>1, <1>13, <2>3, HealthMasks DEF CacheInv
<1>14. CASE ReplayStep
  <2>1. UNCHANGED flightVars /\ linkUp' = linkUp
    BY <1>14 DEF ReplayStep, envVars
  <2>2. replay.deletes \in SUBSET Keys /\ replay.patterns \subseteq SUBSET Keys
    BY <1>1 DEF MaskInv, ReplayTypes
  <2>3. ASSUME DeleteMany(replay.deletes) PROVE FlightInv'
    BY <1>1, <2>1, <2>2, <2>3, DeleteFlight
  <2>4. ASSUME NEW p \in replay.patterns, InvalidatePattern(p) PROVE FlightInv'
    <3>1. p \in SUBSET Keys
      BY <2>2
    <3>2. QED
      BY <1>1, <2>1, <2>4, <3>1, DeleteFlight
  <2>5. ASSUME healthy' = Reaches, UNCHANGED <<redis, computes>> PROVE FlightInv'
    <3>1. ~Reaches' => \A l \in LockIds : computes[l] = 0
      BY <1>1, <2>1, <2>5 DEF FlightInv, ComputeInv, Reaches
    <3>2. QED
      BY <1>1, <2>1, <2>5, <3>1, StillFlight DEF flightVars
  <2>6. FlightInv'
    BY <1>14, <2>3, <2>4, <2>5 DEF ReplayStep
  <2>7. QED
    BY <1>1, <1>14, <2>6, ReplayMasks DEF CacheInv
<1>15. CASE KillBot \/ StopBot
  <2>1. NewProcess
    BY <1>15 DEF KillBot, StopBot
  <2>2. QED
    BY <1>1, <1>15, <2>1, RestartMasks, RestartFlight DEF CacheInv
<1>16. QED
  BY <1>3, <1>4, <1>5, <1>6, <1>7, <1>8, <1>9, <1>10, <1>11, <1>12, <1>13, <1>14, <1>15
  DEF CacheNext

LEMMA CacheStutter == ASSUME CacheInv, UNCHANGED cacheVars PROVE CacheInv'
<1>1. MaskInv /\ FlightInv /\ LinkTypes
  BY DEF CacheInv, MaskInv
<1>2. /\ UNCHANGED <<rowVersion, invalidations, redis, lost, pendingVars, replay>>
      /\ UNCHANGED <<linkUp, enabled, healthy, outages, restarts>>
      /\ UNCHANGED <<flightLock, reader, redis, computes>>
  BY DEF cacheVars, pendingVars
<1>3. LinkTypes'
  BY <1>1, <1>2 DEF LinkTypes
<1>4. FlightInv'
  BY <1>1, <1>2, StillFlight DEF FlightInv, ComputeInv, Reaches
<1>5. QED
  BY <1>1, <1>2, <1>3, <1>4, QuietMasks DEF CacheInv

LEMMA CacheInvariant == CacheSpec => []CacheInv
<1>1. CacheInit => CacheInv
  BY CacheInitInv
<1>2. CacheInv /\ [CacheNext]_cacheVars => CacheInv'
  BY CacheStep, CacheStutter
<1>3. QED
  BY <1>1, <1>2, PTL DEF CacheSpec

\* A committed write is never masked by an entry that was right when it was
\* stored: for any keys, callers, outages, restarts, cap on what the manager
\* records, and order of the background tasks, such an entry behind its row has
\* its invalidation scheduled, recorded or being replayed (_defer_delete,
\* _defer_pattern, check_health and _replay_pending), unless a dead process
\* took it along.
THEOREM WritesNeverMasked == CacheSpec => []NoMaskedWrite
<1>1. CacheInv => NoMaskedWrite
  BY MaskMeans DEF CacheInv, MaskInv
<1>2. QED
  BY <1>1, CacheInvariant, PTL

\* single_flight computes a value at most once for all who queue behind one lock
\* between two losses of the entry, however many callers there are and however
\* the finally clause that removes the lock interleaves with new callers.
THEOREM AlwaysOneComputation == CacheSpec => []OneComputationPerLock
<1>1. CacheInv => OneComputationPerLock
  BY DEF CacheInv, FlightInv, FlightTypes, OneComputationPerLock
<1>2. QED
  BY <1>1, CacheInvariant, PTL

\* The manager's state is well formed throughout: what it records stays under
\* its cap, and no more invalidations are scheduled than writes were committed.
THEOREM CacheTypeCorrect == CacheSpec => []CacheTypeOK
<1>1. ASSUME CacheInv PROVE CacheTypeOK
  <2>1. RowTypes /\ EntryTypes /\ LinkTypes /\ PendingTypes /\ ReplayTypes /\ FlightTypes
    BY <1>1 DEF CacheInv, MaskInv, FlightInv
  <2>2. invalidations \in [Keys -> 0..MaxWrites]
    <3>1. ASSUME NEW k \in Keys PROVE invalidations[k] \in 0..MaxWrites
      <4>1. PICK j \in Keys : invalidations[k] <= rowVersion[j]
        BY <2>1 DEF RowTypes
      <4>2. rowVersion[j] \in 0..MaxWrites /\ invalidations[k] \in Nat
        BY <2>1 DEF RowTypes
      <4>3. QED
        BY <4>1, <4>2, CacheFacts
    <3>2. QED
      BY <2>1, <3>1 DEF RowTypes
  <2>3. computes \in [LockIds -> Nat]
    BY <2>1 DEF FlightTypes
  <2>4. {linkUp, enabled, healthy, pendingOverflow} \subseteq BOOLEAN
    BY <2>1 DEF LinkTypes, PendingTypes
  <2>5. rowVersion \in [Keys -> 0..MaxWrites] /\ outages \in 0..MaxOutages
        /\ restarts \in 0..MaxRestarts
    BY <2>1 DEF RowTypes, LinkTypes
  <2>6. QED
    BY <2>1, <2>2, <2>3, <2>4, <2>5
    DEF CacheTypeOK, EntryTypes, PendingTypes, ReplayTypes, FlightTypes
<1>2. QED
  BY <1>1, CacheInvariant, PTL
-----------------------------------------------------------------------------
(***************************************************************************)
(* The row locks                                                           *)
(***************************************************************************)

LEMMA AscendingRises ==
    ASSUME NEW S, S \subseteq Nat, IsFiniteSet(S)
    PROVE  /\ Ascending(S) \in [1..Cardinality(S) -> S]
           /\ Rises(Ascending(S), Cardinality(S)) /\ Cardinality(S) \in Nat
<1>1. \E f \in [1..Cardinality(S) -> S] :
         \A i, k \in 1..Cardinality(S) : i < k => f[i] < f[k]
  BY AscendingExists DEF Rises
<1>2. QED
  BY <1>1, FS_CardinalityType DEF Ascending, Rises

LEMMA LockFacts ==
    ASSUME NEW j \in Jobs
    PROVE  /\ IsFiniteSet(Jobs) /\ Nobody \notin Jobs /\ JobOf[j].op \in Operations
           /\ JobOf[j].goods \in Seq(Nat) /\ JobOf[j].promos \in Seq(Nat)
           /\ JobOf[j].op = "buy" => Len(JobOf[j].goods) = 1
BY RowLocksAssumption, Zenon DEF RowLocksAssumption

\* The rows of a table, locked for update.
TableLocks(t) == {ForUpdate(t, id) : id \in Nat}

LEMMA EachRow ==
    ASSUME NEW t, NEW ids \in Seq(Nat)
    PROVE  /\ Each(t, ids) \in Seq(TableLocks(t)) /\ Len(Each(t, ids)) = Len(ids)
           /\ Len(ids) \in Nat
           /\ \A i \in 1..Len(ids) : Each(t, ids)[i] = ForUpdate(t, ids[i]) /\ ids[i] \in Nat
<1>1. Len(ids) \in Nat /\ \A i \in 1..Len(ids) : ids[i] \in Nat
  OBVIOUS
<1>2. PICK f : f = [i \in 1..Len(ids) |-> ForUpdate(t, ids[i])]
  OBVIOUS
<1>3. f = Each(t, ids)
  BY <1>2 DEF Each
<1>4. \A i \in 1..Len(ids) : f[i] = ForUpdate(t, ids[i]) /\ f[i] \in TableLocks(t)
  BY <1>1, <1>2 DEF TableLocks
<1>5. f \in Seq(TableLocks(t)) /\ Len(f) = Len(ids)
  <2>1. f = [i \in 1..Len(ids) |-> f[i]]
    BY <1>2
  <2>2. [i \in 1..Len(ids) |-> f[i]] \in Seq(TableLocks(t)) /\ Len([i \in 1..Len(ids) |-> f[i]]) = Len(ids)
    BY <1>1, <1>4
  <2>3. QED
    BY <2>1, <2>2
<1>6. QED
  BY <1>1, <1>3, <1>4, <1>5

LEMMA TwoParts ==
    ASSUME NEW D, NEW a \in Seq(D), NEW b \in Seq(D)
    PROVE  /\ a \o b \in Seq(D) /\ Len(a \o b) = Len(a) + Len(b)
           /\ Len(a) \in Nat /\ Len(b) \in Nat
           /\ \A i \in 1..(Len(a) + Len(b)) :
                 (a \o b)[i] = IF i <= Len(a) THEN a[i] ELSE b[i - Len(a)]
OBVIOUS

LEMMA ThreeInOrder ==
    ASSUME NEW r, NEW s, NEW t PROVE <<r, s>> \o <<t>> = <<r, s, t>>
<1>1. PICK D : D = {r, s, t}
  OBVIOUS
<1>2. PICK a : a = <<r, s>>
  OBVIOUS
<1>3. PICK b : b = <<t>>
  OBVIOUS
<1>4. PICK c : c = <<r, s, t>>
  OBVIOUS
<1>5. /\ a \in Seq(D) /\ Len(a) = 2 /\ a[1] = r /\ a[2] = s
      /\ b \in Seq(D) /\ Len(b) = 1 /\ b[1] = t
      /\ c \in Seq(D) /\ Len(c) = 3 /\ c[1] = r /\ c[2] = s /\ c[3] = t
  BY <1>1, <1>2, <1>3, <1>4
<1>6. PICK e : e = a \o b
  OBVIOUS
<1>7. /\ e \in Seq(D) /\ Len(e) = Len(a) + Len(b)
      /\ \A i \in 1..(Len(a) + Len(b)) : e[i] = IF i <= Len(a) THEN a[i] ELSE b[i - Len(a)]
  BY <1>5, <1>6, TwoParts
<1>8. Len(e) = 3 /\ e[1] = r /\ e[2] = s /\ e[3] = t
  BY <1>5, <1>7
<1>9. e = c
  <2>1. \A i \in 1..3 : e[i] = c[i]
    <3>1. \A i \in 1..3 : i = 1 \/ i = 2 \/ i = 3
      OBVIOUS
    <3>2. QED
      BY <1>5, <1>8, <3>1
  <2>2. QED
    BY <1>5, <1>7, <1>8, <2>1
<1>10. QED
  BY <1>2, <1>3, <1>4, <1>6, <1>9

LEMMA IdsAscend ==
    ASSUME NEW ids \in Seq(Nat)
    PROVE  /\ Ascending(Ids(ids)) \in Seq(Nat)
           /\ Rises(Ascending(Ids(ids)), Len(Ascending(Ids(ids))))
<1>1. PICK S : S = Ids(ids)
  OBVIOUS
<1>2. S \subseteq Nat
  BY <1>1 DEF Ids
<1>3. IsFiniteSet(S)
  <2>1. IsFiniteSet(1..Len(ids))
    BY FS_Interval
  <2>2. PICK f : f = [i \in 1..Len(ids) |-> ids[i]]
    OBVIOUS
  <2>3. f \in Surjection(1..Len(ids), S)
    BY <1>1, <2>2 DEF Ids, Surjection
  <2>4. QED
    BY <2>1, <2>3, FS_Surjection
<1>4. PICK n \in Nat : n = Cardinality(S)
  BY <1>3, FS_CardinalityType
<1>5. PICK f : f = Ascending(S)
  OBVIOUS
<1>6. f \in [1..n -> S] /\ Rises(f, n)
  BY <1>2, <1>3, <1>4, <1>5, AscendingRises
<1>7. f \in Seq(Nat) /\ Len(f) = n
  <2>1. f = [i \in 1..n |-> f[i]] /\ \A i \in 1..n : f[i] \in Nat
    BY <1>2, <1>6
  <2>2. [i \in 1..n |-> f[i]] \in Seq(Nat) /\ Len([i \in 1..n |-> f[i]]) = n
    BY <2>1
  <2>3. QED
    BY <2>1, <2>2
<1>8. QED
  BY <1>1, <1>5, <1>6, <1>7

\* The order in which the sessions take their locks: an order or a payment,
\* the customer, then goods by id. Only promo codes and a second user are
\* outside it.
Rank(l) == IF l.table = "goods" THEN 2 + l.id ELSE IF l.table = "users" THEN 1 ELSE 0

\* A sequence of locks keeps to that order, but for those.
Ordered(q) ==
    \A i, k \in 1..Len(q) : i < k =>
        \/ q[k].table = "promos"
        \/ q[k].table = "users" /\ \E m \in 1..(k - 1) : q[m].table = "users"
        \/ Rank(q[i]) < Rank(q[k])
Ranked(q) == Len(q) \in Nat /\ \A i \in 1..Len(q) : Rank(q[i]) \in Nat
HasUser(q) == \E i \in 1..Len(q) : q[i].table = "users"
Listed(q) == \E D : q \in Seq(D)

LEMMA RankOf ==
    ASSUME NEW id, NEW mode
    PROVE  /\ Rank(Lock(mode, "users", id)) = 1 /\ Lock(mode, "users", id).table = "users"
           /\ Rank(ForUpdate("orders", id)) = 0 /\ Rank(ForUpdate("payments", id)) = 0
           /\ Rank(ForUpdate("promos", id)) = 0 /\ ForUpdate("promos", id).table = "promos"
           /\ Rank(ForUpdate("goods", id)) = 2 + id
BY DEF Rank, ForUpdate, Lock

Then(x, g) == <<ForUpdate("users", x.user)>> \o Each("goods", g) \o Each("promos", x.promos)

\* The customer, goods by ascending id, promo codes.
LEMMA GoodsOrdered ==
    ASSUME NEW x, x.promos \in Seq(Nat), NEW g \in Seq(Nat), Rises(g, Len(g))
    PROVE  /\ Ordered(Then(x, g)) /\ Ranked(Then(x, g)) /\ Listed(Then(x, g))
           /\ HasUser(Then(x, g))
<1>1. PICK u : u = ForUpdate("users", x.user)
  OBVIOUS
<1>2. g \in Seq(Nat) /\ Rises(g, Len(g))
  OBVIOUS
<1>3. PICK n \in Nat : n = Len(g)
  BY <1>2
<1>4. PICK p : p = x.promos
  OBVIOUS
<1>5. p \in Seq(Nat) /\ Len(p) \in Nat
  BY <1>4
<1>6. PICK D : D = {u} \cup TableLocks("goods") \cup TableLocks("promos")
  OBVIOUS
<1>7. <<u>> \in Seq(D) /\ Len(<<u>>) = 1 /\ <<u>>[1] = u
  BY <1>6
<1>8. PICK a : a = Each("goods", g)
  OBVIOUS
<1>9. a \in Seq(D) /\ Len(a) = n /\ \A i \in 1..n : a[i] = ForUpdate("goods", g[i]) /\ g[i] \in Nat
  <2>1. /\ a \in Seq(TableLocks("goods")) /\ Len(a) = n
        /\ \A i \in 1..n : a[i] = ForUpdate("goods", g[i]) /\ g[i] \in Nat
    BY <1>2, <1>3, <1>8, EachRow
  <2>2. TableLocks("goods") \subseteq D
    BY <1>6
  <2>3. QED
    BY <2>1, <2>2, SeqMonotonic
<1>10. PICK b : b = Each("promos", p)
  OBVIOUS
<1>11. b \in Seq(D) /\ Len(b) = Len(p) /\ \A i \in 1..Len(p) : b[i] = ForUpdate("promos", p[i])
  <2>1. /\ b \in Seq(TableLocks("promos")) /\ Len(b) = Len(p)
        /\ \A i \in 1..Len(p) : b[i] = ForUpdate("promos", p[i])
    BY <1>5, <1>10, EachRow
  <2>2. TableLocks("promos") \subseteq D
    BY <1>6
  <2>3. QED
    BY <2>1, <2>2, SeqMonotonic
<1>12. PICK c : c = <<u>> \o a
  OBVIOUS
<1>13. /\ c \in Seq(D) /\ Len(c) = 1 + n
       /\ \A i \in 1..(1 + n) : c[i] = IF i <= 1 THEN <<u>>[i] ELSE a[i - 1]
  BY <1>7, <1>9, <1>12, TwoParts
<1>14. PICK q : q = c \o b
  OBVIOUS
<1>15. /\ q \in Seq(D) /\ Len(q) = 1 + n + Len(p)
       /\ \A i \in 1..(1 + n + Len(p)) : q[i] = IF i <= 1 + n THEN c[i] ELSE b[i - (1 + n)]
  <2>1. /\ q \in Seq(D) /\ Len(q) = Len(c) + Len(b)
        /\ \A i \in 1..(Len(c) + Len(b)) : q[i] = IF i <= Len(c) THEN c[i] ELSE b[i - Len(c)]
    <3>1. c \in Seq(D)
      BY <1>13
    <3>2. b \in Seq(D)
      BY <1>11
    <3>3. QED
      BY <1>14, <3>1, <3>2, TwoParts
  <2>2. Len(c) = 1 + n /\ Len(b) = Len(p)
    BY <1>11, <1>13
  <2>3. QED
    BY <2>1, <2>2
<1>16. q = Then(x, g)
  BY <1>1, <1>4, <1>8, <1>10, <1>12, <1>14 DEF Then
<1>17. Len(q) \in Nat
  BY <1>3, <1>5, <1>15
<1>18. q[1] = u
  <2>1. 1 \in 1..(1 + n + Len(p)) /\ 1 \in 1..(1 + n) /\ 1 <= 1 + n
    BY <1>3, <1>5
  <2>2. q[1] = c[1]
    BY <1>15, <2>1
  <2>3. c[1] = <<u>>[1]
    BY <1>13, <2>1
  <2>4. QED
    BY <1>7, <2>2, <2>3
<1>19. \A i \in 2..(1 + n) : q[i] = ForUpdate("goods", g[i - 1]) /\ g[i - 1] \in Nat
  <2>1. SUFFICES ASSUME NEW i \in 2..(1 + n) PROVE q[i] = ForUpdate("goods", g[i - 1]) /\ g[i - 1] \in Nat
    OBVIOUS
  <2>2. i - 1 \in 1..n /\ i \in 1..(1 + n + Len(p)) /\ i <= 1 + n /\ ~(i <= 1)
    BY <1>3, <1>5, <2>1
  <2>3. q[i] = c[i] /\ c[i] = a[i - 1]
    BY <1>13, <1>15, <2>2
  <2>4. QED
    BY <1>9, <2>2, <2>3
<1>20. \A i \in 1..Len(q) : i > 1 + n => q[i] = ForUpdate("promos", p[i - (1 + n)])
  <2>1. SUFFICES ASSUME NEW i \in 1..Len(q), i > 1 + n PROVE q[i] = ForUpdate("promos", p[i - (1 + n)])
    OBVIOUS
  <2>2. i - (1 + n) \in 1..Len(p) /\ i \in 1..(1 + n + Len(p)) /\ ~(i <= 1 + n)
    BY <1>3, <1>5, <1>15, <2>1
  <2>3. QED
    BY <1>11, <1>15, <2>2
<1>21. ASSUME NEW i \in 1..Len(q) PROVE i = 1 \/ i \in 2..(1 + n) \/ i > 1 + n
  BY <1>3, <1>17
<1>22. Ranked(q)
  <2>1. ASSUME NEW i \in 1..Len(q) PROVE Rank(q[i]) \in Nat
    <3>1. CASE i = 1
      <4>1. Rank(q[i]) = 1
        BY <1>1, <1>18, <3>1, RankOf DEF ForUpdate
      <4>2. QED
        BY <4>1
    <3>2. CASE i \in 2..(1 + n)
      <4>1. Rank(q[i]) = 2 + g[i - 1] /\ g[i - 1] \in Nat
        BY <1>19, <3>2, RankOf
      <4>2. QED
        BY <4>1
    <3>3. CASE i > 1 + n
      <4>1. Rank(q[i]) = 0
        BY <1>20, <3>3, RankOf
      <4>2. QED
        BY <4>1
    <3>4. QED
      BY <1>21, <3>1, <3>2, <3>3
  <2>2. QED
    BY <1>17, <2>1 DEF Ranked
<1>23. Ordered(q)
  <2>1. SUFFICES ASSUME NEW i \in 1..Len(q), NEW k \in 1..Len(q), i < k
                 PROVE  q[k].table = "promos" \/ Rank(q[i]) < Rank(q[k])
    BY DEF Ordered
  <2>2. CASE k > 1 + n
    <3>1. q[k] = ForUpdate("promos", p[k - (1 + n)])
      BY <1>20, <2>2
    <3>2. QED
      BY <3>1, RankOf
  <2>3. CASE k \in 2..(1 + n)
    <3>1. Rank(q[k]) = 2 + g[k - 1] /\ g[k - 1] \in Nat
      BY <1>19, <2>3, RankOf
    <3>2. CASE i = 1
      <4>1. Rank(q[i]) = 1
        BY <1>1, <1>18, <3>2, RankOf DEF ForUpdate
      <4>2. QED
        BY <3>1, <4>1
    <3>3. CASE i \in 2..(1 + n)
      <4>1. Rank(q[i]) = 2 + g[i - 1] /\ g[i - 1] \in Nat
        BY <1>19, <3>3, RankOf
      <4>2. i - 1 \in 1..n /\ k - 1 \in 1..n /\ i - 1 < k - 1
        BY <1>3, <2>1, <2>3, <3>3
      <4>3. g[i - 1] < g[k - 1]
        BY <1>2, <1>3, <4>2 DEF Rises
      <4>4. QED
        BY <3>1, <4>1, <4>3
    <3>4. QED
      BY <1>3, <1>21, <2>1, <2>3, <3>2, <3>3
  <2>4. QED
    BY <1>21, <2>1, <2>2, <2>3
<1>24. HasUser(q)
  <2>1. 1 \in 1..Len(q)
    BY <1>3, <1>5, <1>15
  <2>2. q[1].table = "users"
    BY <1>1, <1>18, RankOf DEF ForUpdate
  <2>3. QED
    BY <2>1, <2>2 DEF HasUser
<1>25. Listed(q)
  BY <1>15, Zenon DEF Listed
<1>26. QED
  BY <1>16, <1>22, <1>23, <1>24, <1>25

\* Further users, locked after a first one, are outside the order.
LEMMA UsersAppended ==
    ASSUME NEW q, Ordered(q), Ranked(q), Listed(q), HasUser(q),
           NEW l, l.table = "users"
    PROVE  /\ Ordered(q \o <<l>>) /\ Ranked(q \o <<l>>) /\ Listed(q \o <<l>>)
           /\ HasUser(q \o <<l>>)
<1>1. PICK D : q \in Seq(D)
  BY DEF Listed
<1>2. PICK n \in Nat : n = Len(q)
  BY DEF Ranked
<1>3. PICK e : e = q \o <<l>>
  OBVIOUS
<1>4. e \in Seq(D \cup {l}) /\ Len(e) = n + 1 /\ e[n + 1] = l /\ \A i \in 1..n : e[i] = q[i]
  <2>1. q \in Seq(D \cup {l}) /\ <<l>> \in Seq(D \cup {l})
    BY <1>1
  <2>2. e = Append(q, l)
    BY <1>3, <2>1
  <2>3. QED
    BY <1>2, <2>1, <2>2
<1>5. PICK o \in 1..n : q[o].table = "users"
  BY <1>2 DEF HasUser
<1>6. o \in 1..Len(e) /\ e[o].table = "users"
  BY <1>2, <1>4, <1>5
<1>7. Rank(l) = 1
  BY DEF Rank
<1>8. ASSUME NEW i \in 1..Len(e) PROVE i = n + 1 \/ i \in 1..n
  BY <1>2, <1>4
<1>9. Ranked(e)
  <2>1. ASSUME NEW i \in 1..Len(e) PROVE Rank(e[i]) \in Nat
    <3>1. CASE i = n + 1
      <4>1. Rank(e[i]) = 1
        BY <1>4, <1>7, <3>1
      <4>2. QED
        BY <4>1
    <3>2. CASE i \in 1..n
      <4>1. Rank(q[i]) \in Nat
        BY <1>2, <3>2 DEF Ranked
      <4>2. e[i] = q[i]
        BY <1>4, <3>2
      <4>3. QED
        BY <4>1, <4>2
    <3>3. QED
      BY <1>8, <3>1, <3>2
  <2>2. QED
    BY <1>4, <2>1 DEF Ranked
<1>10. Ordered(e)
  <2>1. SUFFICES ASSUME NEW i \in 1..Len(e), NEW k \in 1..Len(e), i < k
                 PROVE  \/ e[k].table = "promos"
                        \/ e[k].table = "users" /\ \E m \in 1..(k - 1) : e[m].table = "users"
                        \/ Rank(e[i]) < Rank(e[k])
    BY DEF Ordered
  <2>2. CASE k = n + 1
    <3>1. o \in 1..(k - 1) /\ e[o].table = "users" /\ e[k].table = "users"
      BY <1>2, <1>4, <1>5, <1>6, <2>2
    <3>2. QED
      BY <3>1
  <2>3. CASE k \in 1..n
    <3>1. i \in 1..n /\ e[i] = q[i] /\ e[k] = q[k] /\ \A m \in 1..(k - 1) : e[m] = q[m]
      BY <1>2, <1>4, <2>1, <2>3
    <3>2. \/ q[k].table = "promos"
          \/ q[k].table = "users" /\ \E m \in 1..(k - 1) : q[m].table = "users"
          \/ Rank(q[i]) < Rank(q[k])
      BY <1>2, <2>1, <2>3, <3>1 DEF Ordered
    <3>3. QED
      BY <3>1, <3>2
  <2>4. QED
    BY <1>8, <2>2, <2>3
<1>11. Listed(e)
  BY <1>4, Zenon DEF Listed
<1>12. HasUser(e)
  BY <1>6 DEF HasUser
<1>13. QED
  BY <1>3, <1>9, <1>10, <1>11, <1>12

LEMMA ReferrerAppended ==
    ASSUME NEW q, Ordered(q), Ranked(q), Listed(q), HasUser(q), NEW x
    PROVE  Ordered(q \o Referrer(x)) /\ Ranked(q \o Referrer(x))
<1>1. CASE x.referrer = Nobody
  <2>1. PICK D : q \in Seq(D)
    BY DEF Listed
  <2>2. q \o Referrer(x) = q
    BY <1>1, <2>1 DEF Referrer
  <2>3. QED
    BY <2>2
<1>2. CASE x.referrer # Nobody
  <2>1. PICK l : l = ForUpdate("users", x.referrer)
    OBVIOUS
  <2>2. l.table = "users" /\ Referrer(x) = <<l>>
    BY <1>2, <2>1 DEF Referrer, ForUpdate, Lock
  <2>3. QED
    BY <2>2, UsersAppended
<1>3. QED
  BY <1>1, <1>2

\* An order or a payment, then a first user.
LEMMA PaperOrdered ==
    ASSUME NEW id, NEW t \in {"orders", "payments"}, NEW l, l.table = "users",
           NEW q, q = <<ForUpdate(t, id), l>>
    PROVE  Ordered(q) /\ Ranked(q) /\ Listed(q) /\ HasUser(q)
<1>1. Len(q) = 2 /\ q[1] = ForUpdate(t, id) /\ q[2] = l
  OBVIOUS
<1>2. Rank(q[1]) = 0 /\ Rank(q[2]) = 1
  BY <1>1 DEF Rank, ForUpdate, Lock
<1>3. \A i \in 1..2 : i = 1 \/ i = 2
  OBVIOUS
<1>4. Ranked(q)
  BY <1>1, <1>2, <1>3 DEF Ranked
<1>5. Ordered(q)
  <2>1. SUFFICES ASSUME NEW i \in 1..2, NEW k \in 1..2, i < k PROVE Rank(q[i]) < Rank(q[k])
    BY <1>1 DEF Ordered
  <2>2. i = 1 /\ k = 2
    BY <1>3, <2>1
  <2>3. QED
    BY <1>2, <2>2
<1>6. q \in Seq({q[1], q[2]})
  BY <1>1
<1>7. Listed(q)
  BY <1>6, Zenon DEF Listed
<1>8. HasUser(q)
  BY <1>1 DEF HasUser
<1>9. QED
  BY <1>4, <1>5, <1>7, <1>8

LEMMA LocksOrdered ==
    ASSUME NEW j \in Jobs
    PROVE  Ordered(Locks[j]) /\ Ranked(Locks[j])
<1>1. PICK x : x = JobOf[j]
  OBVIOUS
<1>2. /\ x.op \in Operations /\ x.goods \in Seq(Nat) /\ x.promos \in Seq(Nat)
      /\ x.op = "buy" => Len(x.goods) = 1
  BY <1>1, LockFacts
<1>3. PICK own : own = ForUpdate("users", x.user)
  OBVIOUS
<1>4. PICK share : share = KeyShare("users", x.recipient)
  OBVIOUS
<1>5. own.table = "users" /\ share.table = "users"
  BY <1>3, <1>4 DEF ForUpdate, KeyShare, Lock
<1>6. CASE x.op = "checkout"
  <2>1. Locks[j] = Then(x, Ascending(Ids(x.goods)))
    BY <1>1, <1>6 DEF Locks, CheckoutLocks, Then
  <2>2. QED
    BY <1>2, <2>1, IdsAscend, GoodsOrdered
<1>7. CASE x.op = "buy"
  <2>1. Locks[j] = (Then(x, x.goods) \o <<share>>) \o Referrer(x)
    BY <1>1, <1>4, <1>7 DEF Locks, BuyLocks, Then
  <2>2. Rises(x.goods, Len(x.goods))
    BY <1>2, <1>7 DEF Rises
  <2>3. PICK q : q = Then(x, x.goods)
    OBVIOUS
  <2>4. Ordered(q) /\ Ranked(q) /\ Listed(q) /\ HasUser(q)
    BY <1>2, <2>2, <2>3, GoodsOrdered
  <2>5. PICK e : e = q \o <<share>>
    OBVIOUS
  <2>6. Ordered(e) /\ Ranked(e) /\ Listed(e) /\ HasUser(e)
    BY <1>5, <2>4, <2>5, UsersAppended
  <2>7. QED
    BY <2>1, <2>3, <2>5, <2>6, ReferrerAppended
<1>8. CASE x.op = "fulfil"
  <2>1. PICK q : q = <<ForUpdate("orders", x.order), share>>
    OBVIOUS
  <2>2. Ordered(q) /\ Ranked(q) /\ Listed(q) /\ HasUser(q)
    BY <1>5, <2>1, PaperOrdered
  <2>3. PICK e : e = q \o <<own>>
    OBVIOUS
  <2>4. Ordered(e) /\ Ranked(e) /\ Listed(e) /\ HasUser(e)
    BY <1>5, <2>2, <2>3, UsersAppended
  <2>5. e = <<ForUpdate("orders", x.order), share, own>>
    BY <2>1, <2>3, ThreeInOrder
  <2>6. Locks[j] = e \o Referrer(x)
    BY <1>1, <1>3, <1>4, <1>8, <2>5 DEF Locks, FulfilLocks
  <2>7. QED
    BY <2>4, <2>6, ReferrerAppended
<1>9. CASE x.op = "refund"
  <2>1. PICK q : q = <<ForUpdate("orders", x.order), own>>
    OBVIOUS
  <2>2. Locks[j] = q \o Referrer(x)
    BY <1>1, <1>3, <1>9, <2>1 DEF Locks, RefundLocks
  <2>3. Ordered(q) /\ Ranked(q) /\ Listed(q) /\ HasUser(q)
    BY <1>5, <2>1, PaperOrdered
  <2>4. QED
    BY <2>2, <2>3, ReferrerAppended
<1>10. CASE x.op = "topup"
  <2>1. Locks[j] = <<ForUpdate("payments", x.order), own>>
    BY <1>1, <1>3, <1>10 DEF Locks, TopupLocks
  <2>2. QED
    BY <1>5, <2>1, PaperOrdered
<1>11. QED
  BY <1>2, <1>6, <1>7, <1>8, <1>9, <1>10 DEF Operations

\* A session has asked for the locks it has in order, and no two sessions have
\* locks that conflict.
Apart == \A j, k \in Jobs : j # k => \A a \in Taken(j), b \in Taken(k) : ~Conflict(a, b)
HeldInv ==
    /\ taken \in [Jobs -> Nat] /\ \A j \in Jobs : taken[j] <= Len(Locks[j])
    /\ Apart

LEMMA JobsFinite == IsFiniteSet(Jobs)
BY RowLocksAssumption, Zenon DEF RowLocksAssumption

LEMMA ConflictBoth == ASSUME NEW a, NEW b, Conflict(a, b) PROVE Conflict(b, a)
BY DEF Conflict, SameRow

LEMMA LocksHeld ==
    ASSUME HeldInv, RowLocksNext
    PROVE  HeldInv'
<1>1. /\ taken \in [Jobs -> Nat]
      /\ \A j \in Jobs : taken[j] <= Len(Locks[j]) /\ Len(Locks[j]) \in Nat
      /\ \A j, k \in Jobs : j # k => \A a \in Taken(j), b \in Taken(k) : ~Conflict(a, b)
  BY LocksOrdered DEF HeldInv, Ranked, Apart
<1>2. ASSUME UNCHANGED taken PROVE HeldInv'
  BY <1>1, <1>2 DEF HeldInv, Apart, Taken
<1>3. ASSUME NEW h \in Jobs, Acquire(h) PROVE HeldInv'
  <2>1. PICK n \in Nat : n = taken[h]
    BY <1>1
  <2>2. PICK w : w = Wanted(h)
    OBVIOUS
  <2>3. n < Len(Locks[h]) /\ w = Locks[h][n + 1] /\ taken' = [taken EXCEPT ![h] = n + 1]
    BY <1>1, <1>3, <2>1, <2>2 DEF Acquire, Asks, Wanted
  <2>4. taken' \in [Jobs -> Nat] /\ taken'[h] = n + 1 /\ \A j \in Jobs \ {h} : taken'[j] = taken[j]
    BY <1>1, <2>1, <2>3
  <2>5. \A j \in Jobs : taken'[j] <= Len(Locks[j])
    BY <1>1, <2>3, <2>4
  <2>6. \A j \in Jobs \ {h} : \A a \in Taken(j) : ~Conflict(a, w)
    BY <1>3, <2>2 DEF Acquire, Waiting, Blockers
  <2>7. \A j \in Jobs \ {h} : Taken(j)' = Taken(j)
    BY <2>4 DEF Taken
  <2>8. \A a \in Taken(h)' : a \in Taken(h) \/ a = w
    <3>1. SUFFICES ASSUME NEW i \in 1..(n + 1) PROVE Locks[h][i] \in Taken(h) \/ Locks[h][i] = w
      BY <2>4 DEF Taken
    <3>2. i \in 1..n \/ i = n + 1
      BY <2>1, <3>1
    <3>3. QED
      BY <2>1, <2>3, <3>2 DEF Taken
  <2>9. ASSUME NEW j \in Jobs, NEW k \in Jobs, j # k, NEW a \in Taken(j)', NEW b \in Taken(k)'
        PROVE  ~Conflict(a, b)
    <3>1. CASE j # h /\ k # h
      BY <1>1, <2>7, <2>9, <3>1
    <3>2. CASE j = h
      <4>1. b \in Taken(k) /\ k \in Jobs \ {h}
        BY <2>7, <2>9, <3>2
      <4>2. CASE a \in Taken(h)
        BY <1>1, <3>2, <4>1, <4>2
      <4>3. CASE a = w
        BY <2>6, <4>1, <4>3, ConflictBoth
      <4>4. QED
        BY <2>8, <2>9, <3>2, <4>2, <4>3
    <3>3. CASE k = h
      <4>1. a \in Taken(j) /\ j \in Jobs \ {h}
        BY <2>7, <2>9, <3>3
      <4>2. CASE b \in Taken(h)
        BY <1>1, <3>3, <4>1, <4>2
      <4>3. CASE b = w
        BY <2>6, <4>1, <4>3
      <4>4. QED
        BY <2>8, <2>9, <3>3, <4>2, <4>3
    <3>4. QED
      BY <3>1, <3>2, <3>3
  <2>10. QED
    BY <2>4, <2>5, <2>9 DEF HeldInv, Apart
<1>4. ASSUME NEW h \in Jobs, Release(h) PROVE HeldInv'
  <2>1. taken' = [taken EXCEPT ![h] = 0]
    BY <1>4 DEF Release
  <2>2. taken' \in [Jobs -> Nat] /\ taken'[h] = 0 /\ \A j \in Jobs \ {h} : taken'[j] = taken[j]
    BY <1>1, <2>1
  <2>3. \A j \in Jobs : taken'[j] <= Len(Locks[j])
    BY <1>1, <2>2
  <2>4. Taken(h)' = {} /\ \A j \in Jobs \ {h} : Taken(j)' = Taken(j)
    BY <2>2 DEF Taken
  <2>5. \A j \in Jobs : Taken(j)' \subseteq Taken(j)
    BY <2>4
  <2>6. QED
    BY <1>1, <2>2, <2>3, <2>5 DEF HeldInv, Apart
<1>5. ASSUME NEW h \in Jobs, BeginJob(h) PROVE HeldInv'
  BY <1>2, <1>5 DEF BeginJob
<1>6. ASSUME NEW h \in Jobs, Commit(h) \/ EndEarly(h) \/ Abort(h) PROVE HeldInv'
  BY <1>4, <1>6 DEF Commit, EndEarly, Abort, Return
<1>7. QED
  BY <1>3, <1>5, <1>6 DEF RowLocksNext

\* In a cycle whose sessions all want locks within the order, the one that
\* wants the lock of the highest rank waits for a session that wants a higher
\* one.
LEMMA NoCycleInside == HeldInv => CyclesNeedASecondUser
<1>1. SUFFICES ASSUME HeldInv, NEW S \in SUBSET Waiting, Cycle(S),
                      \A j \in S : Wanted(j).table # "promos" /\ ~SecondUser(j)
               PROVE  FALSE
  BY DEF CyclesNeedASecondUser
<1>2. S \subseteq Jobs /\ S # {} /\ \A j \in S : Asks(j) /\ Blockers(j) \cap S # {}
  BY <1>1 DEF Waiting, Cycle
<1>3. IsFiniteSet(S)
  BY <1>2, JobsFinite, FS_Subset
<1>4. ASSUME NEW j \in S
      PROVE  /\ taken[j] \in Nat /\ taken[j] + 1 \in 1..Len(Locks[j]) /\ Len(Locks[j]) \in Nat
             /\ Wanted(j) = Locks[j][taken[j] + 1] /\ Rank(Wanted(j)) \in Nat
  <2>1. taken[j] \in Nat /\ taken[j] < Len(Locks[j]) /\ Len(Locks[j]) \in Nat
    BY <1>1, <1>2, <1>4, LocksOrdered DEF HeldInv, Ranked, Asks
  <2>2. taken[j] + 1 \in 1..Len(Locks[j])
    BY <2>1
  <2>3. QED
    BY <1>2, <2>1, <2>2, LocksOrdered DEF Ranked, Wanted
<1>5. PICK f : f = [j \in S |-> Rank(Wanted(j))]
  OBVIOUS
<1>6. \A j \in S : f[j] = Rank(Wanted(j)) /\ f[j] \in Nat
  BY <1>4, <1>5
<1>7. PICK top \in S : \A j \in S : f[j] <= f[top]
  BY <1>2, <1>3, <1>6, GreatestValue
<1>8. PICK h \in S : h \in Blockers(top)
  BY <1>2, <1>7
<1>9. PICK l \in Taken(h) : Conflict(l, Wanted(top))
  BY <1>8 DEF Blockers
<1>10. PICK i \in 1..taken[h] : Locks[h][i] = l
  BY <1>9 DEF Taken
<1>11. PICK k : k = taken[h] + 1
  OBVIOUS
<1>12. i \in 1..Len(Locks[h]) /\ k \in 1..Len(Locks[h]) /\ i < k /\ Wanted(h) = Locks[h][k]
  <2>1. PICK n \in Nat : n = taken[h]
    BY <1>4
  <2>2. n + 1 \in 1..Len(Locks[h]) /\ Len(Locks[h]) \in Nat
    BY <1>4, <2>1
  <2>3. QED
    BY <1>4, <1>10, <1>11, <2>1, <2>2
<1>13. Locks[h][k].table # "promos"
       /\ ~(Locks[h][k].table = "users" /\ \E m \in 1..(k - 1) : Locks[h][m].table = "users")
  <2>1. k - 1 = taken[h]
    BY <1>4, <1>11
  <2>2. QED
    BY <1>1, <1>12, <2>1 DEF SecondUser, Taken
<1>14. Rank(l) < Rank(Wanted(h))
  BY <1>2, <1>10, <1>12, <1>13, LocksOrdered DEF Ordered
<1>15. Rank(l) = Rank(Wanted(top))
  BY <1>9 DEF Conflict, SameRow, Rank
<1>16. QED
  BY <1>6, <1>7, <1>14, <1>15

LEMMA HeldAlways == RowLocksSpec => []HeldInv
<1>1. RowLocksInit => HeldInv
  <2>1. SUFFICES ASSUME RowLocksInit PROVE HeldInv
    OBVIOUS
  <2>2. taken \in [Jobs -> Nat] /\ \A j \in Jobs : taken[j] = 0
    BY <2>1 DEF RowLocksInit
  <2>3. \A j \in Jobs : taken[j] <= Len(Locks[j])
    BY <2>2, LocksOrdered DEF Ranked
  <2>4. \A j \in Jobs : Taken(j) = {}
    BY <2>2 DEF Taken
  <2>5. QED
    BY <2>2, <2>3, <2>4 DEF HeldInv, Apart
<1>2. HeldInv /\ [RowLocksNext]_lockVars => HeldInv'
  <2>1. CASE UNCHANGED lockVars
    BY <2>1 DEF lockVars, HeldInv, Apart, Taken
  <2>2. QED
    BY <2>1, LocksHeld
<1>3. QED
  BY <1>1, <1>2, PTL DEF RowLocksSpec

\* Sessions deadlock only through a promo code or a second user, for any number
\* of checkouts, purchases, gifts, fulfilments, refunds and top-ups of any
\* carts: every other lock, the shares of foreign keys among them, is taken in
\* one order, which goods keep because a checkout takes them by ascending id.
THEOREM CyclesAlwaysNeedASecondUser == RowLocksSpec => []CyclesNeedASecondUser
BY HeldAlways, NoCycleInside, PTL

\* The lock table is well formed: no two sessions have locks that conflict, and
\* no session is tried more often than max_retries allows.
LEMMA LocksFormed == RowLocksSpec => []RowLocksTypeOK
<1> DEFINE Phases == {"ready", "running", "over"}
           Tried == /\ phase \in [Jobs -> Phases] /\ attempts \in [Jobs -> 0..MaxRetries]
                    /\ counter \in Jobs \cup {Nobody}
                    /\ \A j \in Jobs : phase[j] = "ready" => attempts[j] < MaxRetries
<1>0. MaxRetries \in Nat /\ 0 < MaxRetries
  BY RowLocksAssumption DEF RowLocksAssumption
<1>1. RowLocksInit => Tried
  BY <1>0 DEF RowLocksInit
<1>2. Tried /\ [RowLocksNext]_lockVars => Tried'
  <2>1. SUFFICES ASSUME Tried, [RowLocksNext]_lockVars PROVE Tried'
    OBVIOUS
  <2>2. CASE UNCHANGED <<phase, attempts, counter>>
    BY <2>1, <2>2
  <2>3. ASSUME NEW j \in Jobs, BeginJob(j) PROVE Tried'
    <3>1. /\ phase' = [phase EXCEPT ![j] = "running"] /\ attempts' = [attempts EXCEPT ![j] = @ + 1]
          /\ counter' \in Jobs \cup {Nobody} /\ phase[j] = "ready"
      BY <2>1, <2>3 DEF BeginJob
    <3>2. attempts[j] + 1 \in 0..MaxRetries
      BY <1>0, <2>1, <3>1
    <3>3. attempts' \in [Jobs -> 0..MaxRetries] /\ phase' \in [Jobs -> Phases]
      BY <2>1, <3>1, <3>2
    <3>4. \A k \in Jobs : phase'[k] = "ready" => k # j /\ phase[k] = "ready" /\ attempts'[k] = attempts[k]
      BY <2>1, <3>1
    <3>5. QED
      BY <2>1, <3>1, <3>3, <3>4
  <2>4. ASSUME NEW j \in Jobs, Return(j) PROVE Tried'
    <3>1. /\ phase' = [phase EXCEPT ![j] = "over"] /\ attempts' = [attempts EXCEPT ![j] = 0]
          /\ counter' \in Jobs \cup {Nobody}
      BY <2>1, <2>4 DEF Return, Release
    <3>2. attempts' \in [Jobs -> 0..MaxRetries] /\ phase' \in [Jobs -> Phases]
      BY <1>0, <2>1, <3>1
    <3>3. \A k \in Jobs : phase'[k] = "ready" => k # j /\ phase[k] = "ready" /\ attempts'[k] = attempts[k]
      BY <2>1, <3>1
    <3>4. QED
      BY <2>1, <3>1, <3>2, <3>3
  <2>5. ASSUME NEW j \in Jobs, Commit(j) \/ EndEarly(j) PROVE Tried'
    BY <2>4, <2>5 DEF Commit, EndEarly
  <2>6. ASSUME NEW j \in Jobs, Abort(j) PROVE Tried'
    <3>1. CASE Return(j)
      BY <2>4, <3>1
    <3>2. CASE /\ Release(j) /\ phase' = [phase EXCEPT ![j] = "ready"] /\ UNCHANGED attempts
               /\ attempts[j] < MaxRetries
      BY <2>1, <3>2 DEF Release
    <3>3. QED
      BY <2>6, <3>1, <3>2 DEF Abort
  <2>7. ASSUME NEW j \in Jobs, Acquire(j) PROVE Tried'
    BY <2>2, <2>7 DEF Acquire
  <2>8. CASE UNCHANGED lockVars
    BY <2>2, <2>8 DEF lockVars
  <2>9. QED
    BY <2>1, <2>3, <2>5, <2>6, <2>7, <2>8 DEF RowLocksNext
<1>3. HeldInv /\ Tried => RowLocksTypeOK
  <2>1. SUFFICES ASSUME HeldInv, Tried PROVE RowLocksTypeOK
    OBVIOUS
  <2>2. \A j \in Jobs : taken[j] \in 0..Len(Locks[j])
    BY <2>1, LocksOrdered DEF HeldInv, Ranked
  <2>3. QED
    BY <2>1, <2>2 DEF HeldInv, Apart, RowLocksTypeOK
<1>4. QED
  BY <1>1, <1>2, <1>3, HeldAlways, PTL DEF RowLocksSpec
=============================================================================

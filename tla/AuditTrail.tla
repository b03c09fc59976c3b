----------------------------- MODULE AuditTrail -----------------------------
(***************************************************************************)
(* The audit buffer (bot/database/methods/audit.py), the background tasks  *)
(* that feed it (bot/database/methods/cache_utils.py) and the shutdown     *)
(* that drains both (bot/main.py).                                         *)
(***************************************************************************)
EXTENDS Naturals, FiniteSets

CONSTANTS
    Entries,        \* audit entries
    MaxBuffered     \* AuditBuffer.MAX_BUFFERED

ASSUME AuditAssumption == MaxBuffered \in Nat \ {0}

VARIABLES
    scheduled,      \* log_audit_bg: tasks that have not run yet
    fileLog,        \* entries in the log file
    buffered,       \* AuditBuffer._rows
    batch,          \* rows a flush has taken and not yet written
    through,        \* rows being written on their own
    stored,         \* rows in audit_log
    gone,           \* rows that will never be there
    flusher,        \* the task, as "off", "waiting" or "writing"; a final flush is "last"
    auditDb,        \* the database answers
    stage,          \* "running", "draining", "stopping", "down"
    excused         \* ghost: the database failed, the process died, or a flush
                    \* was cancelled

auditVars == <<scheduled, fileLog, buffered, batch, through, stored, gone,
               flusher, auditDb, stage, excused>>

\* The parts of the trail are well formed.
AuditTypeOK ==
    /\ \A part \in {scheduled, fileLog, buffered, batch, through, stored, gone} : part \subseteq Entries
    /\ Cardinality(buffered) <= MaxBuffered
    /\ flusher \in {"off", "waiting", "writing", "last"}
    /\ stage \in {"running", "draining", "stopping", "down"}
    /\ {auditDb, excused} \subseteq BOOLEAN

AuditInit ==
    /\ scheduled = {} /\ fileLog = {} /\ buffered = {} /\ batch = {} /\ through = {}
    /\ stored = {} /\ gone = {} /\ excused = FALSE
    /\ flusher = "off" /\ auditDb = TRUE /\ stage = "running"

Fresh == Entries \ (scheduled \cup fileLog)
Up == stage # "down"

-----------------------------------------------------------------------------
(***************************************************************************)
(* Logging                                                                 *)
(***************************************************************************)

\* log_audit_bg
Schedule(e) ==
    /\ Up /\ e \in Fresh
    /\ scheduled' = scheduled \cup {e}
    /\ UNCHANGED <<fileLog, buffered, batch, through, stored, gone, flusher, auditDb, stage, excused>>

\* AuditBuffer.active: stop() forgets the task before it cancels it.
BufferActive == flusher \in {"waiting", "writing"} /\ stage # "stopping"

\* log_audit: first the file, then the buffer, or a session of its own when
\* there is no flusher or the buffer is full.
LogAudit(e) ==
    /\ Up /\ e \in Fresh \cup scheduled
    /\ scheduled' = scheduled \ {e}
    /\ fileLog' = fileLog \cup {e}
    /\ IF BufferActive /\ Cardinality(buffered) < MaxBuffered
       THEN buffered' = buffered \cup {e} /\ UNCHANGED through
       ELSE through' = through \cup {e} /\ UNCHANGED buffered
    /\ UNCHANGED <<batch, stored, gone, flusher, auditDb, stage, excused>>

\* The row written through is stored, or only a warning is left.
WriteThrough(e) ==
    /\ Up /\ e \in through /\ through' = through \ {e}
    /\ IF auditDb THEN stored' = stored \cup {e} /\ UNCHANGED <<gone, excused>>
       ELSE gone' = gone \cup {e} /\ excused' = TRUE /\ UNCHANGED stored
    /\ UNCHANGED <<scheduled, fileLog, buffered, batch, flusher, auditDb, stage>>

-----------------------------------------------------------------------------
(***************************************************************************)
(* The flusher                                                             *)
(***************************************************************************)

StartFlusher ==
    /\ stage = "running" /\ flusher = "off"
    /\ flusher' = "waiting"
    /\ UNCHANGED <<scheduled, fileLog, buffered, batch, through, stored, gone, auditDb, stage, excused>>

\* _run wakes after the interval or when a batch is full; flush takes the rows
\* out of the buffer before it waits for the database.
TakeBatch ==
    /\ Up /\ flusher = "waiting" /\ buffered # {}
    /\ batch' = buffered /\ buffered' = {} /\ flusher' = "writing"
    /\ UNCHANGED <<scheduled, fileLog, through, stored, gone, auditDb, stage, excused>>

\* Mutant: the buffer is emptied once the rows are written.
WriteBatchThenClear ==
    /\ Up /\ flusher \in {"writing", "last"}
    /\ IF auditDb THEN stored' = stored \cup batch /\ UNCHANGED <<gone, excused>>
       ELSE gone' = gone \cup batch /\ excused' = TRUE /\ UNCHANGED stored
    /\ batch' = {} /\ buffered' = {}
    /\ flusher' = IF flusher = "last" THEN "off" ELSE "waiting"
    /\ UNCHANGED <<scheduled, fileLog, through, auditDb, stage>>

WriteBatch ==
    /\ Up /\ flusher \in {"writing", "last"}
    /\ IF auditDb THEN stored' = stored \cup batch /\ UNCHANGED <<gone, excused>>
       ELSE gone' = gone \cup batch /\ excused' = TRUE /\ UNCHANGED stored
    /\ batch' = {}
    /\ flusher' = IF flusher = "last" THEN "off" ELSE "waiting"
    /\ UNCHANGED <<scheduled, fileLog, buffered, through, auditDb, stage>>

-----------------------------------------------------------------------------
(***************************************************************************)
(* Shutdown and failures                                                   *)
(***************************************************************************)

\* _shutdown: drain_background_tasks waits for the tasks there are now.
BeginShutdown ==
    /\ stage = "running" /\ stage' = "draining"
    /\ UNCHANGED <<scheduled, fileLog, buffered, batch, through, stored, gone, flusher, auditDb, excused>>

\* AuditBuffer.stop: the cancellation interrupts a flush under way, whose rows
\* are already out of the buffer: they are lost, or the commit had got through.
CancelFlusher ==
    /\ stage = "draining" /\ stage' = "stopping"
    /\ \/ stored' = stored \cup batch /\ auditDb /\ UNCHANGED <<gone, excused>>
       \/ gone' = gone \cup batch /\ excused' = (excused \/ batch # {}) /\ UNCHANGED stored
    /\ batch' = buffered /\ buffered' = {} /\ flusher' = "last"
    /\ UNCHANGED <<scheduled, fileLog, through, auditDb>>

\* The engine is disposed of with nothing under way.
Exit ==
    /\ stage = "stopping" /\ flusher = "off" /\ through = {} /\ scheduled = {}
    /\ stage' = "down"
    /\ UNCHANGED <<scheduled, fileLog, buffered, batch, through, stored, gone, flusher, auditDb, excused>>

\* The process is killed, or ends with tasks unfinished after the drain's
\* timeout.
AuditCrash ==
    /\ Up /\ stage' = "down"
    /\ gone' = gone \cup buffered \cup batch \cup through
    /\ scheduled' = {} /\ buffered' = {} /\ batch' = {} /\ through' = {}
    /\ flusher' = "off" /\ excused' = TRUE
    /\ UNCHANGED <<fileLog, stored, auditDb>>

AuditDbUpDown ==
    /\ auditDb' = ~auditDb
    /\ UNCHANGED <<scheduled, fileLog, buffered, batch, through, stored, gone, flusher, stage, excused>>

AuditNext ==
    \/ \E e \in Entries : Schedule(e) \/ LogAudit(e) \/ WriteThrough(e)
    \/ StartFlusher \/ TakeBatch \/ WriteBatch \/ BeginShutdown \/ CancelFlusher
    \/ Exit \/ AuditCrash \/ AuditDbUpDown

AuditSpec == AuditInit /\ [][AuditNext]_auditVars

-----------------------------------------------------------------------------
\* Every entry in the log file is in the table or on its way there, in one
\* place only, so that none is written twice, unless it is known why not:
\* entries logged while a flush waits for the database included.
TrailComplete ==
    /\ fileLog = stored \cup buffered \cup batch \cup through \cup gone
    /\ gone # {} => excused
    /\ stored \cap (buffered \cup batch \cup through \cup gone) = {}
    /\ buffered \cap (batch \cup through) = {} /\ batch \cap through = {}

\* "Stop the flusher and write out whatever is still buffered": a shutdown
\* with a working database and no crash loses nothing.
StopWritesOut == stage = "down" /\ auditDb => gone = {}
=============================================================================

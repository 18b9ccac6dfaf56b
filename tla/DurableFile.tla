----------------------------- MODULE DurableFile -----------------------------
(***************************************************************************)
(* The file a store keeps its database in: AnchoredDirectory.atomic_write  *)
(* (adapters/localfs.py) and the stores that call it, adapters/state.py    *)
(* (pipeline), adapters/operations_state.py (operations) and               *)
(* adapters/publication_state.py (publication).  A store holds the whole   *)
(* database in memory; a transaction writes the previous bytes to a backup *)
(* and the new ones to the file, each through a temporary that is flushed, *)
(* renamed and made durable by a sync of the directory.                    *)
(*                                                                         *)
(* A process may be killed between any two calls, a call may fail, and the *)
(* power may be lost: then every name of the directory has, independently  *)
(* of the others, one of the contents it had since the last sync.          *)
(***************************************************************************)
EXTENDS Naturals

CONSTANTS Processes, Kinds,
          Absent,      \* no such file
          Partial,     \* a file that is not written to its end
          Blank,       \* a file of no bytes
          MaxWrites,   \* bound: transactions
          MaxFaults,   \* bound: calls that fail
          MaxCrashes   \* bound: processes killed and losses of power

ASSUME KindsAssumption == Kinds \subseteq {"pipeline", "operations", "publication"}
ASSUME ContentsAssumption ==
  /\ Absent # Partial /\ Absent # Blank /\ Partial # Blank
  /\ \A c \in SUBSET (1 .. MaxWrites) : c \notin {Absent, Partial, Blank}
ASSUME BoundsAssumption == MaxWrites \in Nat /\ MaxFaults \in Nat /\ MaxCrashes \in Nat

VARIABLES
  kind,       \* which store this is
  view,       \* the directory as processes see it
  disk,       \* for each name the contents a loss of power may leave
  proc,       \* the processes
  attempted,  \* transactions begun
  acked,      \* the content of the last write that returned
  faults, crashes

vars == <<kind, view, disk, proc, attempted, acked, faults, crashes>>

Names == {"target", "temp", "backup", "backuptemp"}

\* A database is the set of the transactions applied to it.
Databases == SUBSET (1 .. MaxWrites)
IsDatabase(c) == c \notin {Absent, Partial, Blank}

\* The transactions of a file; an empty file is an empty database.
Written(c) == IF c = Blank THEN {} ELSE c

Temp(file) == IF file = "target" THEN "temp" ELSE "backuptemp"

Closed == [pc |-> "closed", bytes |-> Absent, payload |-> Absent,
           file |-> "target", backed |-> FALSE, flushed |-> FALSE]

Init ==
  /\ kind \in Kinds
  /\ view = [n \in Names |-> Absent]
  /\ disk = [n \in Names |-> {Absent}]
  /\ proc = [p \in Processes |-> Closed]
  /\ attempted = {} /\ acked = Absent
  /\ faults = 0 /\ crashes = 0

-----------------------------------------------------------------------------
(* The directory.                                                           *)

\* Names change at once for every process, on disk some time before the next
\* sync; a file renamed before its bytes are flushed may turn out incomplete.
ChangeUnflushed(new, torn) ==
  /\ view' = new
  /\ disk' = [n \in Names |-> IF new[n] = view[n] THEN disk[n]
                              ELSE disk[n] \cup {new[n]} \cup torn]

Change(new) == ChangeUnflushed(new, {})

\* A change of the directory, then its sync.
ChangeAndSync(new) ==
  /\ view' = new
  /\ disk' = [n \in Names |-> {new[n]}]

Sync == UNCHANGED view /\ disk' = [n \in Names |-> {view[n]}]

Unchanged == UNCHANGED <<view, disk>>

-----------------------------------------------------------------------------
(* Opening a store.                                                         *)

At(p, pc) == proc[p].pc = pc
Go(p, pc) == proc' = [proc EXCEPT ![p].pc = pc]

\* MUTANT: the lock file is opened but not locked.
LockIgnored(p) == At(p, "closed")

\* flock on the lock file; a dead process has none.  The publication store
\* has no lock: every job that uses it has a disk of its own.
LockFree(p) == \A q \in Processes : At(q, "closed")

Open(p) ==
  /\ At(p, "closed") /\ LockFree(p)
  /\ Go(p, IF kind = "publication" THEN "reading" ELSE "recovering")
  /\ Unchanged
  /\ UNCHANGED <<kind, attempted, acked, faults, crashes>>

\* MUTANT: the temporary of the backup is forgotten.
StaleTargetOnly == {"temp"}

\* The temporaries a store removes when it starts.
Stale == IF kind = "pipeline" THEN {"temp", "backuptemp"} ELSE {"temp"}

Recover(p) ==
  /\ At(p, "recovering")
  /\ Go(p, "reading")
  /\ LET found == {n \in Stale : view[n] # Absent}
     IN  IF found = {} THEN Unchanged
                       ELSE ChangeAndSync([n \in Names |-> IF n \in Stale THEN Absent ELSE view[n]])
  /\ UNCHANGED <<kind, attempted, acked, faults, crashes>>

\* Only the publication store backs up a file that does not exist.
BackedUp(bytes) == bytes # Absent \/ kind = "publication"

Readable == IsDatabase(view["target"]) \/ (view["target"] = Blank /\ kind = "publication")

\* A process in which a write of payload begins.
Writing(bytes, payload) ==
  [pc |-> "creating", bytes |-> bytes, payload |-> payload,
   file |-> IF BackedUp(bytes) THEN "backup" ELSE "target",
   backed |-> BackedUp(bytes), flushed |-> FALSE]

\* The file is read; when there is none an empty database is written.
Read(p) ==
  /\ At(p, "reading")
  /\ proc' = [proc EXCEPT ![p] =
       CASE view["target"] = Absent -> Writing(Absent, {})
         [] Readable -> [Closed EXCEPT !.pc = "open", !.bytes = view["target"]]
         [] OTHER -> Closed]
  /\ Unchanged
  /\ UNCHANGED <<kind, attempted, acked, faults, crashes>>

Close(p) ==
  /\ proc[p].pc \in {"open", "poisoned"}
  /\ proc' = [proc EXCEPT ![p] = Closed]
  /\ Unchanged
  /\ UNCHANGED <<kind, attempted, acked, faults, crashes>>

-----------------------------------------------------------------------------
(* Writing.                                                                 *)

\* A transaction on the bytes in memory.
Transaction(p) ==
  /\ At(p, "open")
  /\ \E n \in 1 .. MaxWrites :
       /\ attempted = 1 .. n - 1 /\ attempted' = 1 .. n
       /\ proc' = [proc EXCEPT ![p] =
            Writing(proc[p].bytes, Written(proc[p].bytes) \cup {n})]
  /\ Unchanged
  /\ UNCHANGED <<kind, acked, faults, crashes>>

\* The bytes that go to the file being written.
Content(p) ==
  IF proc[p].file = "target" THEN proc[p].payload
  ELSE IF proc[p].bytes = Absent THEN Blank ELSE proc[p].bytes

CreateTemporary(p) ==
  /\ At(p, "creating") /\ view[Temp(proc[p].file)] = Absent
  /\ Change([view EXCEPT ![Temp(proc[p].file)] = Partial])
  /\ Go(p, "filling")
  /\ UNCHANGED <<kind, attempted, acked, faults, crashes>>

Fill(p) ==
  /\ At(p, "filling")
  /\ Change([view EXCEPT ![Temp(proc[p].file)] = Content(p)])
  /\ proc' = [proc EXCEPT ![p].pc = "renaming", ![p].flushed = TRUE]
  /\ UNCHANGED <<kind, attempted, acked, faults, crashes>>

Rename(p) ==
  /\ At(p, "renaming")
  /\ ChangeUnflushed([view EXCEPT ![proc[p].file] = view[Temp(proc[p].file)],
                                  ![Temp(proc[p].file)] = Absent],
                     IF proc[p].flushed THEN {} ELSE {Partial})
  /\ Go(p, "syncing")
  /\ UNCHANGED <<kind, attempted, acked, faults, crashes>>

\* The process goes on after the directory is synced: from the backup to the
\* file, from the file to the removal of the backup.
Proceed(p) ==
  IF proc[p].file = "backup"
    THEN proc' = [proc EXCEPT ![p].pc = "creating", ![p].file = "target",
                              ![p].flushed = FALSE]
    ELSE Go(p, "retiring")

\* MUTANT: the sync of the directory is left to the system.
SyncDirectoryLater(p) ==
  /\ At(p, "syncing") /\ Proceed(p) /\ Unchanged
  /\ UNCHANGED <<kind, attempted, acked, faults, crashes>>

SyncDirectory(p) ==
  /\ At(p, "syncing") /\ Proceed(p) /\ Sync
  /\ UNCHANGED <<kind, attempted, acked, faults, crashes>>

\* The backup goes, if it can, and the write returns.
Retire(p) ==
  /\ At(p, "retiring")
  /\ \/ (IF proc[p].backed THEN ChangeAndSync([view EXCEPT !["backup"] = Absent]) ELSE Unchanged)
        /\ UNCHANGED faults
     \/ faults < MaxFaults /\ faults' = faults + 1 /\ Unchanged
  /\ acked' = proc[p].payload
  /\ proc' = [proc EXCEPT ![p] = [Closed EXCEPT !.pc = "open", !.bytes = proc[p].payload]]
  /\ UNCHANGED <<kind, attempted, crashes>>

-----------------------------------------------------------------------------
(* Failures.  The removals after an error are best effort; that they fail    *)
(* leaves what a crash in their place leaves.                                *)

Poison(p) == proc' = [proc EXCEPT ![p] = [Closed EXCEPT !.pc = "poisoned",
                                                        !.bytes = proc[p].bytes]]

\* A backup is removed, and the directory synced, when the file is as before.
Abandon(p, new) ==
  IF proc[p].file = "target" /\ proc[p].backed
    THEN ChangeAndSync([new EXCEPT !["backup"] = Absent])
    ELSE Change(new)

\* temporary_exists: it is not this process's to remove.
TemporaryExists(p) ==
  /\ At(p, "creating") /\ view[Temp(proc[p].file)] # Absent
  /\ Abandon(p, view)
  /\ Poison(p)
  /\ UNCHANGED <<kind, attempted, acked, faults, crashes>>

Fault == faults < MaxFaults /\ faults' = faults + 1

FailsBeforeRename(p) ==
  /\ proc[p].pc \in {"filling", "renaming"} /\ Fault
  /\ Abandon(p, [view EXCEPT ![Temp(proc[p].file)] = Absent])
  /\ Poison(p)
  /\ UNCHANGED <<kind, attempted, acked, crashes>>

FailsAfterRename(p) ==
  /\ At(p, "syncing") /\ Fault
  /\ IF proc[p].file = "target" THEN Go(p, "restoring") ELSE Poison(p)
  /\ Unchanged
  /\ UNCHANGED <<kind, attempted, acked, crashes>>

\* MUTANT: the error is raised with the new bytes in place.
RestoreNothing(p) ==
  /\ At(p, "restoring")
  /\ Poison(p) /\ Unchanged
  /\ UNCHANGED <<kind, attempted, acked, faults, crashes>>

Restore(p) ==
  /\ At(p, "restoring")
  /\ \/ /\ Change(IF proc[p].backed
                    THEN [view EXCEPT !["target"] = view["backup"], !["backup"] = Absent]
                    ELSE [view EXCEPT !["target"] = Absent])
        /\ Go(p, "restored") /\ UNCHANGED faults
     \/ Fault /\ Poison(p) /\ Unchanged
  /\ UNCHANGED <<kind, attempted, acked, crashes>>

SyncRestored(p) ==
  /\ At(p, "restored") /\ Poison(p)
  /\ \/ Sync /\ UNCHANGED faults
     \/ Fault /\ Unchanged
  /\ UNCHANGED <<kind, attempted, acked, crashes>>

Kill(p) ==
  /\ ~At(p, "closed") /\ crashes < MaxCrashes
  /\ crashes' = crashes + 1
  /\ proc' = [proc EXCEPT ![p] = Closed]
  /\ Unchanged
  /\ UNCHANGED <<kind, attempted, acked, faults>>

PowerLoss ==
  /\ crashes < MaxCrashes /\ crashes' = crashes + 1
  /\ view' \in [Names -> UNION {disk[n] : n \in Names}]
  /\ \A n \in Names : view'[n] \in disk[n]
  /\ disk' = [n \in Names |-> {view'[n]}]
  /\ proc' = [p \in Processes |-> Closed]
  /\ UNCHANGED <<kind, attempted, acked, faults>>

Next ==
  \/ PowerLoss
  \/ \E p \in Processes :
       \/ Open(p) \/ Recover(p) \/ Read(p) \/ Close(p)
       \/ Transaction(p) \/ CreateTemporary(p) \/ Fill(p) \/ Rename(p)
       \/ SyncDirectory(p) \/ Retire(p)
       \/ TemporaryExists(p) \/ FailsBeforeRename(p) \/ FailsAfterRename(p)
       \/ Restore(p) \/ SyncRestored(p) \/ Kill(p)

Spec == Init /\ [][Next]_vars

-----------------------------------------------------------------------------
Contents == {Absent, Partial, Blank} \cup Databases

Processing ==
  [pc : {"closed", "recovering", "reading", "open", "creating", "filling",
         "renaming", "syncing", "retiring", "restoring", "restored", "poisoned"},
   bytes : {Absent, Blank} \cup Databases, payload : {Absent} \cup Databases,
   file : {"target", "backup"}, backed : BOOLEAN, flushed : BOOLEAN]

\* The types of all variables; an empty file is only ever left by the
\* publication store.
TypeOK ==
  /\ kind \in Kinds
  /\ view \in [Names -> Contents] /\ \A n \in Names : view[n] \in disk[n]
  /\ disk \in [Names -> SUBSET Contents]
  /\ proc \in [Processes -> Processing]
  /\ attempted \subseteq 1 .. MaxWrites /\ acked \in {Absent} \cup Databases
  /\ faults \in 0 .. MaxFaults /\ crashes \in 0 .. MaxCrashes
  /\ Blank \in disk["target"] => kind = "publication"

(* Whatever a loss of power leaves of the file at any moment is a whole      *)
(* database with every write that returned and none that was never begun;    *)
(* it is missing or empty only while no write has returned (atomic_write).   *)
FileSurvives ==
  \A c \in disk["target"] :
    \/ IsDatabase(c) /\ c \subseteq attempted /\ (acked = Absent \/ acked \subseteq c)
    \/ c \in {Absent, Blank} /\ acked = Absent

(* The bytes an open store builds its next transaction on are those of the   *)
(* file, whatever other processes did: no update is lost (_acquire_lock).    *)
OpenStoreIsCurrent ==
  \A p \in Processes : At(p, "open") => proc[p].bytes = view["target"]

(* A write that raises leaves the previous bytes, unless a second failure or *)
(* a crash stopped the restoration (_restore_after_failed_replace).          *)
RefusedWriteIsUndone ==
  crashes = 0 /\ faults <= 1 =>
    \A p \in Processes : At(p, "poisoned") =>
      \/ view["target"] = proc[p].bytes
      \/ view["target"] = Blank /\ proc[p].bytes = Absent

(* No crash keeps the pipeline store from writing: a store that has started  *)
(* never meets the temporary of a dead process (SQLiteStateStore.__init__).  *)
TemporariesAreRecovered ==
  \A p \in Processes :
    At(p, "creating") => \A n \in {"temp", "backuptemp"} : view[n] = Absent

PipelineIsNeverBlocked == kind = "pipeline" => TemporariesAreRecovered

(* The file implements the register: a write is acknowledged only when it is *)
(* the only content a loss of power can leave.                               *)
Survivors == {Written(c) : c \in disk["target"]}

Register == INSTANCE DurableRegister WITH survivors <- Survivors

ImplementsRegister == Register!RegisterSpec
=============================================================================

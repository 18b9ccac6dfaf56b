-------------------------- MODULE DurableFileProofs --------------------------
(***************************************************************************)
(* The file of a store, for any number of processes, transactions, failed  *)
(* calls, kills and losses of power: what an open store holds is the file, *)
(* a refused write is undone, no temporary of a dead process blocks the    *)
(* pipeline store, and the file implements DurableRegister, which never    *)
(* loses an acknowledged write.                                            *)
(***************************************************************************)
EXTENDS DurableFile, TLAPS

-----------------------------------------------------------------------------
(* The inductive invariant.                                                 *)

\* The lock: at most one process has the store.
OneProcess ==
  \A p, q \in Processes : ~At(p, "closed") /\ ~At(q, "closed") => p = q

\* The transactions begun are numbered without a gap.
Numbered == \E n \in 0 .. MaxWrites : attempted = 1 .. n

\* What the backup of bytes holds.
Saved(bytes) == IF bytes = Absent THEN Blank ELSE bytes

\* A write applies one transaction more than the file has, or creates it.
PayloadFits(p) ==
  \/ proc[p].bytes = Absent /\ proc[p].payload = {} /\ acked = Absent
  \/ /\ proc[p].bytes # Absent
     /\ \E n \in attempted \ Written(proc[p].bytes) :
          proc[p].payload = Written(proc[p].bytes) \cup {n}

\* The process is between two steps of the write of the backup, of the file,
\* or of the file after its rename.
SavingBackup(p) == proc[p].file = "backup" /\ view["target"] = proc[p].bytes
BeforeRename(p) ==
  /\ proc[p].file = "target" /\ view["target"] = proc[p].bytes
  /\ proc[p].backed => view["backup"] = Saved(proc[p].bytes)
AfterRename(p) ==
  /\ proc[p].file = "target" /\ view["target"] = proc[p].payload
  /\ proc[p].backed => view["backup"] = Saved(proc[p].bytes)
  /\ {proc[p].bytes, proc[p].payload} \subseteq disk["target"]

Undone(p) ==
  \/ view["target"] = proc[p].bytes
  \/ view["target"] = Blank /\ proc[p].bytes = Absent

Writes == {"creating", "filling", "renaming", "syncing", "retiring", "restoring"}

WriteInv(p) ==
  /\ At(p, "open") => view["target"] = proc[p].bytes /\ Readable
  /\ proc[p].pc \in {"creating", "filling", "renaming"} =>
       PayloadFits(p) /\ (SavingBackup(p) \/ BeforeRename(p))
  /\ At(p, "renaming") =>
       proc[p].flushed /\ view[Temp(proc[p].file)] = Content(p)
  /\ At(p, "syncing") =>
       /\ PayloadFits(p)
       /\ \/ SavingBackup(p) /\ view["backup"] = Saved(proc[p].bytes)
          \/ AfterRename(p)
  /\ At(p, "restoring") => PayloadFits(p) /\ AfterRename(p) /\ faults >= 1
  /\ At(p, "retiring") =>
       PayloadFits(p) /\ disk["target"] = {proc[p].payload} /\ proc[p].file = "target"
  /\ At(p, "restored") => Undone(p)
  /\ At(p, "poisoned") => Undone(p) \/ faults >= 2
  /\ proc[p].pc \in Writes =>
       IF proc[p].backed THEN Saved(proc[p].bytes) = Blank => kind = "publication"
       ELSE proc[p].file = "target" /\ proc[p].bytes = Absent

\* The temporaries are gone once the pipeline store has recovered, but for the
\* one a write is filling.
TemporariesInv(p) ==
  kind = "pipeline" =>
    \A n \in {"temp", "backuptemp"} :
      \/ proc[p].pc \in {"closed", "recovering", "restoring", "restored", "poisoned"}
      \/ proc[p].pc \in {"filling", "renaming"} /\ n = Temp(proc[p].file)
      \/ view[n] = Absent

FileInv ==
  /\ TypeOK /\ OneProcess /\ Numbered /\ FileSurvives
  /\ \A p \in Processes : WriteInv(p) /\ TemporariesInv(p)

-----------------------------------------------------------------------------
(* What the steps have in common.                                           *)

\* A step of one process leaves the others closed.
LEMMA ProcessStep ==
  ASSUME FileInv, NEW p \in Processes,
         ~At(p, "closed") \/ LockFree(p),
         NEW r \in Processing, proc' = [proc EXCEPT ![p] = r],
         WriteInv(p)', TemporariesInv(p)'
  PROVE  OneProcess' /\ \A q \in Processes : WriteInv(q)' /\ TemporariesInv(q)'
<1>1. \A q \in Processes : q # p => proc'[q] = proc[q] /\ proc[q].pc = "closed"
  BY DEF FileInv, OneProcess, TypeOK, At, LockFree
<1>2. OneProcess'
  BY <1>1 DEF OneProcess, At
<1>3. ASSUME NEW q \in Processes, q # p PROVE WriteInv(q)' /\ TemporariesInv(q)'
  BY <1>1, <1>3 DEF WriteInv, TemporariesInv, At, Writes
<1> QED BY <1>2, <1>3

\* Names, and what is no database.
LEMMA Distinct ==
  /\ \A c \in Databases : IsDatabase(c) /\ Written(c) = c /\ c # Absent /\ c # Blank
  /\ Absent # Partial /\ Absent # Blank /\ Partial # Blank
  /\ {} \in Databases
BY ContentsAssumption DEF Databases, IsDatabase, Written

\* The payload of a write is a database with all that was acknowledged.
LEMMA PayloadIsSafe ==
  ASSUME FileInv, NEW p \in Processes, PayloadFits(p),
         proc[p].bytes \in disk["target"]
  PROVE  /\ proc[p].payload \in Databases
         /\ proc[p].payload \subseteq attempted
         /\ acked = Absent \/ acked \subseteq proc[p].payload
<1>1. proc[p].bytes \in {Absent, Blank} \cup Databases
  BY DEF FileInv, TypeOK, Processing
<1>2. CASE proc[p].bytes = Absent
  BY <1>2, Distinct DEF PayloadFits
<1>3. CASE proc[p].bytes # Absent
  <2>1. PICK n \in attempted \ Written(proc[p].bytes) :
          proc[p].payload = Written(proc[p].bytes) \cup {n}
    BY <1>3 DEF PayloadFits
  <2>2. /\ Written(proc[p].bytes) \in Databases
        /\ Written(proc[p].bytes) \subseteq attempted
        /\ acked = Absent \/ acked \subseteq Written(proc[p].bytes)
    BY <1>1, <1>3, Distinct DEF FileInv, FileSurvives, Written, IsDatabase
  <2> QED BY <2>1, <2>2 DEF FileInv, TypeOK, Databases
<1> QED BY <1>2, <1>3

-----------------------------------------------------------------------------
(* Every step keeps the invariant.                                          *)

LEMMA InitFits == Init => FileInv
<1> SUFFICES ASSUME Init PROVE FileInv
  OBVIOUS
<1>1. TypeOK
  BY BoundsAssumption, Distinct DEF Init, TypeOK, Names, Contents, Processing, Closed
<1>2. Numbered
  BY BoundsAssumption DEF Init, Numbered
<1>3. OneProcess /\ FileSurvives
  BY DEF Init, OneProcess, FileSurvives, At, Closed, Names
<1>4. \A p \in Processes : WriteInv(p) /\ TemporariesInv(p)
  BY DEF Init, WriteInv, TemporariesInv, At, Closed, Writes
<1> QED BY <1>1, <1>2, <1>3, <1>4 DEF FileInv

LEMMA OpenFits ==
  ASSUME FileInv, NEW p \in Processes, Open(p) PROVE FileInv'
<1> DEFINE r == [proc[p] EXCEPT !.pc = IF kind = "publication" THEN "reading" ELSE "recovering"]
<1>1. r \in Processing /\ proc' = [proc EXCEPT ![p] = r] /\ LockFree(p)
  BY DEF FileInv, TypeOK, Processing, Open, Go
<1>2. TypeOK' /\ Numbered' /\ FileSurvives'
  BY <1>1 DEF FileInv, TypeOK, Numbered, FileSurvives, Open, Unchanged
<1>3. proc'[p] = r
  BY <1>1 DEF FileInv, TypeOK
<1>4. WriteInv(p)'
  BY <1>3 DEF WriteInv, At, Writes, FileInv, TypeOK, Processing
<1>5. TemporariesInv(p)'
  BY <1>3 DEF TemporariesInv, FileInv, TypeOK, Processing, Open
<1> QED BY <1>1, <1>2, <1>4, <1>5, ProcessStep DEF FileInv

LEMMA RecoverFits ==
  ASSUME FileInv, NEW p \in Processes, Recover(p) PROVE FileInv'
<1> DEFINE r == [proc[p] EXCEPT !.pc = "reading"]
<1>1. r \in Processing /\ proc' = [proc EXCEPT ![p] = r] /\ proc'[p] = r
  BY DEF FileInv, TypeOK, Processing, Recover, Go
<1>2. ~At(p, "closed")
  BY DEF Recover, At
<1>3. TypeOK' /\ Numbered'
  BY <1>1 DEF FileInv, TypeOK, Numbered, Recover, Unchanged, ChangeAndSync, Names, Stale, Contents
<1>4. FileSurvives'
  BY DEF FileInv, TypeOK, FileSurvives, Recover, Unchanged, ChangeAndSync, Names, Stale
<1>5. WriteInv(p)'
  BY <1>1 DEF WriteInv, At, Writes, FileInv, TypeOK, Processing
<1>6. TemporariesInv(p)'
  BY <1>1 DEF TemporariesInv, FileInv, TypeOK, Processing, Recover, Unchanged, ChangeAndSync, Names, Stale
<1> QED BY <1>1, <1>2, <1>3, <1>4, <1>5, <1>6, ProcessStep DEF FileInv

LEMMA ReadFits ==
  ASSUME FileInv, NEW p \in Processes, Read(p) PROVE FileInv'
<1> DEFINE r == CASE view["target"] = Absent -> Writing(Absent, {})
                 [] Readable -> [Closed EXCEPT !.pc = "open", !.bytes = view["target"]]
                 [] OTHER -> Closed
<1>1. r \in Processing /\ proc' = [proc EXCEPT ![p] = r] /\ proc'[p] = r
  BY Distinct DEF FileInv, TypeOK, Processing, Read, Writing, Closed, BackedUp, Readable, IsDatabase, Contents, Names
<1>2. ~At(p, "closed")
  BY DEF Read, At
<1>3. TypeOK' /\ Numbered'
  BY <1>1 DEF FileInv, TypeOK, Numbered, Read, Unchanged
<1>4. FileSurvives'
  BY DEF FileInv, FileSurvives, Read, Unchanged
<1>5. WriteInv(p)'
  <2>1. CASE view["target"] = Absent
    <3>1. proc'[p] = Writing(Absent, {})
      BY <1>1, <2>1, Distinct DEF Readable, IsDatabase
    <3>2. /\ proc'[p].pc = "creating" /\ proc'[p].bytes = Absent
          /\ proc'[p].payload = {}
          /\ proc'[p].file = IF BackedUp(Absent) THEN "backup" ELSE "target"
          /\ proc'[p].backed = BackedUp(Absent)
      BY <3>1 DEF Writing
    <3>3. acked = Absent /\ acked' = Absent
      BY <2>1, Distinct DEF FileInv, TypeOK, FileSurvives, Names, IsDatabase, Read
    <3>4. PayloadFits(p)' /\ (SavingBackup(p) \/ BeforeRename(p))'
      BY <2>1, <3>2, <3>3 DEF PayloadFits, SavingBackup, BeforeRename, Read, Unchanged
    <3>5. proc'[p].backed => kind' = "publication"
      BY <3>2 DEF BackedUp, Read
    <3> QED BY <3>2, <3>4, <3>5 DEF WriteInv, At, Writes
  <2>2. CASE view["target"] # Absent
    BY <1>1, <2>2 DEF WriteInv, At, Writes, Closed, Readable, Read, Unchanged
  <2> QED BY <2>1, <2>2
<1>6. TemporariesInv(p)'
  BY <1>1 DEF TemporariesInv, FileInv, Read, Unchanged, At, Closed, Writing
<1> QED BY <1>1, <1>2, <1>3, <1>4, <1>5, <1>6, ProcessStep DEF FileInv

LEMMA CloseFits ==
  ASSUME FileInv, NEW p \in Processes, Close(p) PROVE FileInv'
<1> DEFINE r == Closed
<1>1. r \in Processing /\ proc' = [proc EXCEPT ![p] = r] /\ proc'[p] = r
  BY DEF FileInv, TypeOK, Processing, Close, Closed
<1>2. ~At(p, "closed")
  BY DEF Close, At
<1>3. TypeOK' /\ Numbered'
  BY <1>1 DEF FileInv, TypeOK, Numbered, Close, Unchanged
<1>4. FileSurvives'
  BY DEF FileInv, FileSurvives, Close, Unchanged
<1>5. WriteInv(p)'
  BY <1>1 DEF WriteInv, At, Writes, Closed
<1>6. TemporariesInv(p)'
  BY <1>1 DEF TemporariesInv, Closed
<1> QED BY <1>1, <1>2, <1>3, <1>4, <1>5, <1>6, ProcessStep DEF FileInv

LEMMA CreateTemporaryFits ==
  ASSUME FileInv, NEW p \in Processes, CreateTemporary(p) PROVE FileInv'
<1> DEFINE r == [proc[p] EXCEPT !.pc = "filling"]
<1>1. r \in Processing /\ proc' = [proc EXCEPT ![p] = r] /\ proc'[p] = r
  BY DEF FileInv, TypeOK, Processing, CreateTemporary, Go
<1>2. ~At(p, "closed")
  BY DEF CreateTemporary, At
<1>3. TypeOK' /\ Numbered'
  BY <1>1 DEF FileInv, TypeOK, Numbered, CreateTemporary, Change, ChangeUnflushed, Names, Temp, Contents
<1>4. FileSurvives'
  BY DEF FileInv, FileSurvives, CreateTemporary, Change, ChangeUnflushed, Names, Temp
<1>5. WriteInv(p)'
  BY <1>1 DEF WriteInv, At, Writes, FileInv, TypeOK, Processing, CreateTemporary, PayloadFits, SavingBackup, BeforeRename, Change, ChangeUnflushed, Names, Temp
<1>6. TemporariesInv(p)'
  BY <1>1 DEF TemporariesInv, FileInv, TypeOK, Processing, CreateTemporary, At, Change, ChangeUnflushed, Names, Temp
<1> QED BY <1>1, <1>2, <1>3, <1>4, <1>5, <1>6, ProcessStep DEF FileInv

LEMMA FillFits ==
  ASSUME FileInv, NEW p \in Processes, Fill(p) PROVE FileInv'
<1> DEFINE r == [proc[p] EXCEPT !.pc = "renaming", !.flushed = TRUE]
<1>1. r \in Processing /\ proc' = [proc EXCEPT ![p] = r] /\ proc'[p] = r
  BY DEF FileInv, TypeOK, Processing, Fill
<1>2. ~At(p, "closed")
  BY DEF Fill, At
<1>3. TypeOK' /\ Numbered'
  BY <1>1, Distinct DEF FileInv, TypeOK, Numbered, Fill, Change, ChangeUnflushed, Names, Temp, Contents, Content, Processing
<1>4. FileSurvives'
  BY DEF FileInv, FileSurvives, Fill, Change, ChangeUnflushed, Names, Temp
<1>5. WriteInv(p)'
  BY <1>1 DEF WriteInv, At, Writes, FileInv, TypeOK, Processing, Fill, PayloadFits, SavingBackup, BeforeRename, Change, ChangeUnflushed, Names, Temp, Content
<1>6. TemporariesInv(p)'
  BY <1>1 DEF TemporariesInv, FileInv, TypeOK, Processing, Fill, At, Change, ChangeUnflushed, Names, Temp
<1> QED BY <1>1, <1>2, <1>3, <1>4, <1>5, <1>6, ProcessStep DEF FileInv

LEMMA RenameFits ==
  ASSUME FileInv, NEW p \in Processes, Rename(p) PROVE FileInv'
<1> DEFINE r == [proc[p] EXCEPT !.pc = "syncing"]
<1>1. r \in Processing /\ proc' = [proc EXCEPT ![p] = r] /\ proc'[p] = r
  BY DEF FileInv, TypeOK, Processing, Rename, Go
<1>2. ~At(p, "closed")
  BY DEF Rename, At
<1>3. /\ PayloadFits(p) /\ (SavingBackup(p) \/ BeforeRename(p))
      /\ proc[p].flushed /\ view[Temp(proc[p].file)] = Content(p)
  BY DEF FileInv, WriteInv, Rename, At
<1>4. proc[p].bytes \in disk["target"] /\ view["target"] = proc[p].bytes
  BY <1>3 DEF FileInv, TypeOK, Names, SavingBackup, BeforeRename
<1>5. TypeOK' /\ Numbered'
  <2>1. view[Temp(proc[p].file)] # Blank \/ proc[p].file = "backup"
    BY <1>3, <1>4, PayloadIsSafe, Distinct DEF Content, FileInv, TypeOK, Processing
  <2>2. view' \in [Names -> Contents] /\ disk' \in [Names -> SUBSET Contents]
    BY DEF FileInv, TypeOK, Rename, Change, ChangeUnflushed, Names, Temp, Contents
  <2>3. \A n \in Names : view'[n] \in disk'[n]
    BY DEF FileInv, TypeOK, Rename, Change, ChangeUnflushed, Names, Temp
  <2>4. Blank \in disk'["target"] => kind' = "publication"
    BY <1>3, <2>1, Distinct DEF FileInv, TypeOK, Processing, Rename, ChangeUnflushed, Names, Temp
  <2> QED BY <1>1, <2>2, <2>3, <2>4 DEF FileInv, TypeOK, Numbered, Rename
<1>6. FileSurvives'
  <2>1. disk'["target"] \subseteq disk["target"] \cup
          (IF proc[p].file = "target" THEN {proc[p].payload} ELSE {})
    BY <1>3 DEF FileInv, TypeOK, Processing, Rename, ChangeUnflushed, Names, Temp, Content
  <2> QED BY <1>3, <1>4, <2>1, PayloadIsSafe, Distinct DEF FileInv, FileSurvives, Rename
<1>7. WriteInv(p)'
  BY <1>1, <1>3, <1>4 DEF WriteInv, At, Writes, FileInv, TypeOK, Processing, Rename, PayloadFits, SavingBackup, BeforeRename, AfterRename, Content, Saved, Change, ChangeUnflushed, Names, Temp
<1>8. TemporariesInv(p)'
  BY <1>1 DEF TemporariesInv, FileInv, TypeOK, Processing, Rename, At, Change, ChangeUnflushed, Names, Temp
<1> QED BY <1>1, <1>2, <1>5, <1>6, <1>7, <1>8, ProcessStep DEF FileInv

LEMMA SyncDirectoryFits ==
  ASSUME FileInv, NEW p \in Processes, SyncDirectory(p) PROVE FileInv'
<1> DEFINE r == IF proc[p].file = "backup"
               THEN [proc[p] EXCEPT !.pc = "creating", !.file = "target", !.flushed = FALSE]
               ELSE [proc[p] EXCEPT !.pc = "retiring"]
<1>1. r \in Processing /\ proc' = [proc EXCEPT ![p] = r] /\ proc'[p] = r
  BY DEF FileInv, TypeOK, Processing, SyncDirectory, Proceed, Go
<1>2. ~At(p, "closed")
  BY DEF SyncDirectory, At
<1>3. TypeOK' /\ Numbered'
  BY <1>1, Distinct DEF FileInv, TypeOK, Numbered, SyncDirectory, Sync, Contents, Names
<1>4. FileSurvives'
  BY DEF FileInv, TypeOK, FileSurvives, SyncDirectory, Sync, Names
<1>5. WriteInv(p)'
  BY <1>1 DEF WriteInv, At, Writes, FileInv, TypeOK, Processing, SyncDirectory, Sync, PayloadFits, SavingBackup, BeforeRename, AfterRename, Names
<1>6. TemporariesInv(p)'
  BY <1>1 DEF TemporariesInv, FileInv, TypeOK, Processing, SyncDirectory, At, Sync
<1> QED BY <1>1, <1>2, <1>3, <1>4, <1>5, <1>6, ProcessStep DEF FileInv

LEMMA RetireFits ==
  ASSUME FileInv, NEW p \in Processes, Retire(p) PROVE FileInv'
<1> DEFINE r == [Closed EXCEPT !.pc = "open", !.bytes = proc[p].payload]
<1>1. /\ disk["target"] = {proc[p].payload}
      /\ proc[p].payload \in Databases /\ proc[p].payload \subseteq attempted
  <2>1. disk["target"] = {proc[p].payload} /\ PayloadFits(p)
    BY DEF FileInv, WriteInv, Retire, At
  <2>2. proc[p].payload # Absent
    BY <2>1, Distinct DEF PayloadFits, Written, FileInv, TypeOK, Databases, Processing
  <2> QED BY <2>1, <2>2, Distinct DEF FileInv, TypeOK, FileSurvives, Processing
<1>2. view["target"] = proc[p].payload
  BY <1>1 DEF FileInv, TypeOK, Names
<1>3. r \in Processing /\ proc' = [proc EXCEPT ![p] = r] /\ proc'[p] = r
  BY <1>1 DEF FileInv, TypeOK, Processing, Retire, Closed
<1>4. ~At(p, "closed")
  BY DEF Retire, At
<1>5. TypeOK' /\ Numbered'
  <2>1. /\ view' \in [Names -> Contents] /\ disk' \in [Names -> SUBSET Contents]
        /\ \A n \in Names : view'[n] \in disk'[n]
        /\ disk'["target"] \subseteq disk["target"]
    BY DEF FileInv, TypeOK, Retire, ChangeAndSync, Unchanged, Contents, Names
  <2>2. faults' \in 0 .. MaxFaults
    BY BoundsAssumption DEF FileInv, TypeOK, Retire
  <2> QED BY <1>3, <1>1, <2>1, <2>2 DEF FileInv, TypeOK, Numbered, Retire
<1>6. FileSurvives'
  BY <1>1, <1>2, Distinct DEF FileInv, TypeOK, FileSurvives, Retire, ChangeAndSync, Unchanged, Names
<1>7. WriteInv(p)'
  BY <1>3, <1>1, <1>2, Distinct DEF WriteInv, At, Writes, FileInv, TypeOK, Processing, Retire, ChangeAndSync, Unchanged, Names, Readable, Closed
<1>8. TemporariesInv(p)'
  BY <1>3 DEF TemporariesInv, FileInv, TypeOK, Processing, Retire, At, ChangeAndSync, Unchanged, Names, Closed
<1> QED BY <1>3, <1>4, <1>5, <1>6, <1>7, <1>8, ProcessStep DEF FileInv

LEMMA TemporaryExistsFits ==
  ASSUME FileInv, NEW p \in Processes, TemporaryExists(p) PROVE FileInv'
<1> DEFINE r == [Closed EXCEPT !.pc = "poisoned", !.bytes = proc[p].bytes]
<1>1. /\ view["target"] = proc[p].bytes /\ view'["target"] = view["target"]
      /\ disk'["target"] \subseteq disk["target"]
  BY DEF FileInv, TypeOK, WriteInv, TemporaryExists, At, SavingBackup, BeforeRename, Abandon, Change, ChangeUnflushed, ChangeAndSync, Names
<1>2. r \in Processing /\ proc' = [proc EXCEPT ![p] = r] /\ proc'[p] = r
  BY DEF FileInv, TypeOK, Processing, TemporaryExists, Poison, Closed
<1>3. ~At(p, "closed")
  BY DEF TemporaryExists, At
<1>4. TypeOK' /\ Numbered'
  BY <1>2 DEF FileInv, TypeOK, Numbered, TemporaryExists, Contents, Abandon, Change, ChangeUnflushed, ChangeAndSync, Names, Temp
<1>5. FileSurvives'
  BY <1>1 DEF FileInv, TypeOK, FileSurvives, TemporaryExists, Abandon, Change, ChangeUnflushed, ChangeAndSync, Names, Temp
<1>6. WriteInv(p)'
  <2>1. proc'[p].pc = "poisoned" /\ proc'[p].bytes = proc[p].bytes
    BY <1>2 DEF Closed
  <2> QED BY <1>1, <2>1 DEF WriteInv, At, Writes, Undone
<1>7. TemporariesInv(p)'
  BY <1>2 DEF TemporariesInv, Closed
<1> QED BY <1>2, <1>3, <1>4, <1>5, <1>6, <1>7, ProcessStep DEF FileInv

LEMMA FailsBeforeRenameFits ==
  ASSUME FileInv, NEW p \in Processes, FailsBeforeRename(p) PROVE FileInv'
<1> DEFINE r == [Closed EXCEPT !.pc = "poisoned", !.bytes = proc[p].bytes]
<1>1. /\ view["target"] = proc[p].bytes /\ view'["target"] = view["target"]
      /\ disk'["target"] \subseteq disk["target"]
  BY DEF FileInv, TypeOK, WriteInv, FailsBeforeRename, At, SavingBackup, BeforeRename, Abandon, Change, ChangeUnflushed, ChangeAndSync, Names, Temp
<1>2. r \in Processing /\ proc' = [proc EXCEPT ![p] = r] /\ proc'[p] = r
  BY DEF FileInv, TypeOK, Processing, FailsBeforeRename, Poison, Closed
<1>3. ~At(p, "closed")
  BY DEF FailsBeforeRename, At
<1>4. TypeOK' /\ Numbered'
  BY <1>2, <1>1, BoundsAssumption DEF FileInv, TypeOK, Numbered, FailsBeforeRename, Fault, Contents, Abandon, Change, ChangeUnflushed, ChangeAndSync, Names, Temp
<1>5. FileSurvives'
  BY <1>1 DEF FileInv, FileSurvives, FailsBeforeRename
<1>6. WriteInv(p)'
  <2>1. proc'[p].pc = "poisoned" /\ proc'[p].bytes = proc[p].bytes
    BY <1>2 DEF Closed
  <2> QED BY <1>1, <2>1 DEF WriteInv, At, Writes, Undone
<1>7. TemporariesInv(p)'
  BY <1>2 DEF TemporariesInv, Closed
<1> QED BY <1>2, <1>3, <1>4, <1>5, <1>6, <1>7, ProcessStep DEF FileInv

LEMMA FailsAfterRenameFits ==
  ASSUME FileInv, NEW p \in Processes, FailsAfterRename(p) PROVE FileInv'
<1> DEFINE r == IF proc[p].file = "target" THEN [proc[p] EXCEPT !.pc = "restoring"]
               ELSE [Closed EXCEPT !.pc = "poisoned", !.bytes = proc[p].bytes]
<1>1. r \in Processing /\ proc' = [proc EXCEPT ![p] = r] /\ proc'[p] = r
  BY DEF FileInv, TypeOK, Processing, FailsAfterRename, Poison, Closed, Go
<1>2. ~At(p, "closed")
  BY DEF FailsAfterRename, At
<1>3. TypeOK' /\ Numbered'
  BY <1>1, BoundsAssumption DEF FileInv, TypeOK, Numbered, FailsAfterRename, Fault, Unchanged
<1>4. FileSurvives'
  BY DEF FileInv, FileSurvives, FailsAfterRename, Unchanged
<1>5. WriteInv(p)'
  BY <1>1, BoundsAssumption DEF WriteInv, At, Writes, Closed, Undone, FileInv, TypeOK, Processing, FailsAfterRename, Fault, Unchanged, PayloadFits, SavingBackup, AfterRename
<1>6. TemporariesInv(p)'
  BY <1>1 DEF TemporariesInv, Closed, FileInv, TypeOK, Processing
<1> QED BY <1>1, <1>2, <1>3, <1>4, <1>5, <1>6, ProcessStep DEF FileInv

LEMMA RestoreFits ==
  ASSUME FileInv, NEW p \in Processes, Restore(p) PROVE FileInv'
<1> DEFINE r == IF proc'[p].pc = "restored" THEN [proc[p] EXCEPT !.pc = "restored"]
               ELSE [Closed EXCEPT !.pc = "poisoned", !.bytes = proc[p].bytes]
<1>1. /\ PayloadFits(p) /\ AfterRename(p) /\ faults >= 1
      /\ IF proc[p].backed THEN Saved(proc[p].bytes) = Blank => kind = "publication"
         ELSE proc[p].bytes = Absent
  BY DEF FileInv, WriteInv, Restore, At, Writes
<1>2. \/ /\ view' = view /\ disk' = disk /\ faults' = faults + 1
         /\ proc'[p].pc = "poisoned"
      \/ /\ view'["target"] \in {proc[p].bytes, Saved(proc[p].bytes)}
         /\ disk'["target"] = disk["target"] \cup {view'["target"]}
         /\ faults' = faults /\ proc'[p].pc = "restored"
  <2>1. CASE Fault /\ Poison(p) /\ Unchanged
    BY <2>1 DEF FileInv, TypeOK, Fault, Poison, Unchanged, Closed
  <2>2. CASE Go(p, "restored") /\ ~(Fault /\ Poison(p) /\ Unchanged)
    <3>1. proc'[p].pc = "restored"
      BY <2>2 DEF FileInv, TypeOK, Processing, Go
    <3> QED BY <1>1, <2>2, <3>1 DEF FileInv, TypeOK, Restore, Change, ChangeUnflushed, Names, AfterRename
  <2> QED BY <2>1, <2>2 DEF Restore
<1>3. Blank \in disk'["target"] => kind = "publication"
  <2>1. CASE proc[p].backed
    BY <1>1, <1>2, <2>1, Distinct DEF FileInv, TypeOK, Restore, Change, ChangeUnflushed, AfterRename, Names, Unchanged
  <2>2. CASE ~proc[p].backed
    BY <1>1, <1>2, <2>2, Distinct DEF FileInv, TypeOK, Restore, Change, ChangeUnflushed, AfterRename, Names, Unchanged
  <2> QED BY <2>1, <2>2
<1>4. r \in Processing /\ proc' = [proc EXCEPT ![p] = r] /\ proc'[p] = r
  BY DEF FileInv, TypeOK, Processing, Restore, Poison, Closed, Go, At
<1>5. ~At(p, "closed")
  BY DEF Restore, At
<1>6. TypeOK' /\ Numbered'
  <2>1. view' \in [Names -> Contents] /\ disk' \in [Names -> SUBSET Contents]
    BY DEF FileInv, TypeOK, Restore, Unchanged, Change, ChangeUnflushed, Names, Contents
  <2>2. \A n \in Names : view'[n] \in disk'[n]
    BY DEF FileInv, TypeOK, Restore, Unchanged, Change, ChangeUnflushed, Names
  <2>3. faults' \in 0 .. MaxFaults
    BY BoundsAssumption DEF FileInv, TypeOK, Restore, Fault
  <2>4. Blank \in disk'["target"] => kind' = "publication"
    BY <1>3 DEF FileInv, TypeOK, Restore
  <2> QED BY <1>4, <2>1, <2>2, <2>3, <2>4 DEF FileInv, TypeOK, Numbered, Restore
<1>7. FileSurvives'
  <2>1. CASE proc[p].bytes = Absent
    BY <1>1, <1>2, <2>1 DEF FileInv, FileSurvives, Restore, Saved, PayloadFits
  <2>2. CASE proc[p].bytes # Absent
    BY <1>1, <1>2, <2>2 DEF FileInv, FileSurvives, Restore, Saved, AfterRename
  <2> QED BY <2>1, <2>2
<1>8. WriteInv(p)'
  <2>1. CASE At(p, "restored")'
    <3>1. proc'[p].pc = "restored" /\ proc'[p].bytes = proc[p].bytes
      BY <1>4, <2>1 DEF At, FileInv, TypeOK, Processing
    <3>2. view'["target"] \in {proc[p].bytes, Saved(proc[p].bytes)}
      BY <1>2, <3>1
    <3> QED BY <3>1, <3>2 DEF WriteInv, At, Writes, Undone, Saved
  <2>2. CASE ~At(p, "restored")'
    <3>1. proc'[p].pc = "poisoned"
      BY <1>4, <2>2 DEF At, Closed
    <3>2. faults' >= 2
      BY <1>1, <1>2, <3>1 DEF FileInv, TypeOK
    <3> QED BY <3>1, <3>2 DEF WriteInv, At, Writes
  <2> QED BY <2>1, <2>2
<1>9. TemporariesInv(p)'
  BY <1>4 DEF TemporariesInv, Closed, FileInv, TypeOK, Processing
<1> QED BY <1>4, <1>5, <1>6, <1>7, <1>8, <1>9, ProcessStep DEF FileInv

LEMMA SyncRestoredFits ==
  ASSUME FileInv, NEW p \in Processes, SyncRestored(p) PROVE FileInv'
<1> DEFINE r == [Closed EXCEPT !.pc = "poisoned", !.bytes = proc[p].bytes]
<1>1. r \in Processing /\ proc' = [proc EXCEPT ![p] = r] /\ proc'[p] = r
  BY DEF FileInv, TypeOK, Processing, SyncRestored, Poison, Closed
<1>2. ~At(p, "closed")
  BY DEF SyncRestored, At
<1>3. TypeOK' /\ Numbered'
  BY <1>1, BoundsAssumption DEF FileInv, TypeOK, Numbered, SyncRestored, Fault, Sync, Unchanged, Names, Contents
<1>4. FileSurvives'
  BY DEF FileInv, TypeOK, FileSurvives, SyncRestored, Sync, Unchanged, Names
<1>5. WriteInv(p)'
  BY <1>1 DEF WriteInv, At, Writes, Closed, Undone, FileInv, SyncRestored, Sync, Unchanged
<1>6. TemporariesInv(p)'
  BY <1>1 DEF TemporariesInv, Closed
<1> QED BY <1>1, <1>2, <1>3, <1>4, <1>5, <1>6, ProcessStep DEF FileInv

LEMMA KillFits ==
  ASSUME FileInv, NEW p \in Processes, Kill(p) PROVE FileInv'
<1> DEFINE r == Closed
<1>1. r \in Processing /\ proc' = [proc EXCEPT ![p] = r] /\ proc'[p] = r
  BY DEF FileInv, TypeOK, Processing, Kill, Closed
<1>2. ~At(p, "closed")
  BY DEF Kill, At
<1>3. TypeOK' /\ Numbered'
  BY <1>1, BoundsAssumption DEF FileInv, TypeOK, Numbered, Kill, Unchanged
<1>4. FileSurvives'
  BY DEF FileInv, FileSurvives, Kill, Unchanged
<1>5. WriteInv(p)'
  BY <1>1 DEF WriteInv, At, Writes, Closed
<1>6. TemporariesInv(p)'
  BY <1>1 DEF TemporariesInv, Closed
<1> QED BY <1>1, <1>2, <1>3, <1>4, <1>5, <1>6, ProcessStep DEF FileInv

LEMMA TransactionFits ==
  ASSUME FileInv, NEW p \in Processes, Transaction(p) PROVE FileInv'
<1>1. PICK n \in 1 .. MaxWrites :
        /\ attempted = 1 .. n - 1 /\ attempted' = 1 .. n
        /\ proc' = [proc EXCEPT ![p] =
             Writing(proc[p].bytes, Written(proc[p].bytes) \cup {n})]
  BY DEF Transaction
<1> DEFINE bytes == proc[p].bytes
           r == Writing(bytes, Written(bytes) \cup {n})
<1>2. n \notin attempted /\ attempted' = attempted \cup {n}
  BY <1>1, BoundsAssumption
<1>3. /\ bytes = view["target"] /\ bytes # Absent
      /\ bytes \in {Blank} \cup Databases
      /\ Written(bytes) \in Databases /\ Written(bytes) \subseteq attempted
  <2>1. bytes = view["target"] /\ bytes # Absent
    BY Distinct DEF FileInv, WriteInv, Transaction, At, Readable, IsDatabase
  <2>2. bytes \in {Blank} \cup Databases
    BY <2>1 DEF FileInv, TypeOK, Processing
  <2>3. Written(bytes) \in Databases /\ Written(bytes) \subseteq attempted
    BY <2>1, <2>2, Distinct DEF FileInv, TypeOK, FileSurvives, Written, Names
  <2> QED BY <2>1, <2>2, <2>3
<1>4. r \in Processing
  BY <1>2, <1>3 DEF Writing, Processing, BackedUp, Databases
<1>5. proc' = [proc EXCEPT ![p] = r] /\ proc'[p] = r
  BY <1>1 DEF FileInv, TypeOK
<1>6. ~At(p, "closed")
  BY DEF Transaction, At
<1>7. TypeOK' /\ Numbered'
  BY <1>1, <1>4, <1>5, BoundsAssumption DEF FileInv, TypeOK, Numbered, Transaction, Unchanged
<1>8. FileSurvives'
  BY <1>2 DEF FileInv, FileSurvives, Transaction, Unchanged
<1>9. /\ proc'[p].pc = "creating" /\ proc'[p].bytes = bytes
      /\ proc'[p].payload = Written(bytes) \cup {n}
      /\ proc'[p].backed /\ proc'[p].file = "backup"
  <2>1. BackedUp(bytes)
    BY <1>3 DEF BackedUp
  <2>2. /\ proc'[p].backed = BackedUp(bytes)
        /\ proc'[p].file = IF BackedUp(bytes) THEN "backup" ELSE "target"
    BY <1>5 DEF Writing
  <2> QED BY <1>5, <2>1, <2>2 DEF Writing
<1>10. WriteInv(p)'
  <2>1. PayloadFits(p)' /\ SavingBackup(p)'
    BY <1>2, <1>3, <1>9 DEF PayloadFits, SavingBackup, Transaction, Unchanged
  <2>2. Saved(bytes) = Blank => kind' = "publication"
    BY <1>3 DEF Saved, FileInv, TypeOK, Transaction, Names
  <2> QED BY <1>9, <2>1, <2>2 DEF WriteInv, At, Writes
<1>11. TemporariesInv(p)'
  BY <1>9 DEF TemporariesInv, FileInv, Transaction, At, Unchanged
<1> QED BY <1>4, <1>5, <1>6, <1>7, <1>8, <1>10, <1>11, ProcessStep DEF FileInv

LEMMA PowerLossFits ==
  ASSUME FileInv, PowerLoss PROVE FileInv'
<1>1. \A p \in Processes : proc'[p] = Closed
  BY DEF PowerLoss
<1>2. TypeOK'
  <2>1. view' \in [Names -> Contents] /\ disk' \in [Names -> SUBSET Contents]
        /\ \A n \in Names : view'[n] \in disk'[n]
    BY DEF FileInv, TypeOK, PowerLoss
  <2>2. proc' \in [Processes -> Processing]
    BY DEF PowerLoss, Closed, Processing
  <2>3. Blank \in disk'["target"] => kind' = "publication"
    BY DEF FileInv, TypeOK, PowerLoss, Names
  <2> QED BY <2>1, <2>2, <2>3, BoundsAssumption DEF FileInv, TypeOK, PowerLoss
<1>3. Numbered' /\ OneProcess'
  BY <1>1 DEF FileInv, Numbered, OneProcess, At, Closed, PowerLoss
<1>4. FileSurvives'
  BY DEF FileInv, FileSurvives, PowerLoss, Names
<1>5. \A p \in Processes : WriteInv(p)' /\ TemporariesInv(p)'
  BY <1>1 DEF WriteInv, TemporariesInv, At, Writes, Closed
<1> QED BY <1>2, <1>3, <1>4, <1>5 DEF FileInv

LEMMA StepFits ==
  ASSUME FileInv, [Next]_vars PROVE FileInv'
<1>1. ASSUME NEW p \in Processes,
             \/ Open(p) \/ Recover(p) \/ Read(p) \/ Close(p)
             \/ Transaction(p) \/ CreateTemporary(p) \/ Fill(p) \/ Rename(p)
             \/ SyncDirectory(p) \/ Retire(p)
             \/ TemporaryExists(p) \/ FailsBeforeRename(p) \/ FailsAfterRename(p)
             \/ Restore(p) \/ SyncRestored(p) \/ Kill(p)
      PROVE  FileInv'
  BY <1>1, OpenFits, RecoverFits, ReadFits, CloseFits, TransactionFits,
     CreateTemporaryFits, FillFits, RenameFits, SyncDirectoryFits, RetireFits,
     TemporaryExistsFits, FailsBeforeRenameFits, FailsAfterRenameFits,
     RestoreFits, SyncRestoredFits, KillFits
<1>2. CASE UNCHANGED vars
  BY <1>2 DEF vars, FileInv, TypeOK, OneProcess, Numbered, FileSurvives, WriteInv,
     TemporariesInv, At, PayloadFits, SavingBackup, BeforeRename, AfterRename,
     Undone, Content, Readable
<1> QED BY <1>1, <1>2, PowerLossFits DEF Next

(* The inductive invariant of the file (atomic_write and its callers).       *)
THEOREM FileIsConsistent == Spec => []FileInv
<1>1. FileInv /\ [Next]_vars => FileInv'
  BY StepFits
<1> QED BY <1>1, InitFits, PTL DEF Spec

(* Whatever a loss of power leaves is a whole database with every write that *)
(* returned (AnchoredDirectory.atomic_write).                                *)
THEOREM FileAlwaysSurvives == Spec => []FileSurvives
<1>1. FileInv => FileSurvives
  BY DEF FileInv
<1> QED BY <1>1, FileIsConsistent, PTL

(* An open store builds on the bytes of the file (_acquire_lock).            *)
THEOREM OpenStoresAreCurrent == Spec => []OpenStoreIsCurrent
<1>1. FileInv => OpenStoreIsCurrent
  BY DEF FileInv, WriteInv, OpenStoreIsCurrent
<1> QED BY <1>1, FileIsConsistent, PTL

(* A write that raises leaves the previous bytes unless its restoration      *)
(* failed too (_restore_after_failed_replace).                               *)
THEOREM RefusedWritesAreUndone == Spec => []RefusedWriteIsUndone
<1>1. FileInv => RefusedWriteIsUndone
  BY DEF FileInv, TypeOK, WriteInv, RefusedWriteIsUndone, Undone
<1> QED BY <1>1, FileIsConsistent, PTL

(* No temporary of a dead process blocks the pipeline store                  *)
(* (SQLiteStateStore.__init__).                                              *)
THEOREM PipelineNeverBlocked == Spec => []PipelineIsNeverBlocked
<1>1. FileInv => PipelineIsNeverBlocked
  BY DEF FileInv, TemporariesInv, PipelineIsNeverBlocked, TemporariesAreRecovered, At
<1> QED BY <1>1, FileIsConsistent, PTL

-----------------------------------------------------------------------------
(* The file implements the register.                                        *)

LEMMA SettleStep ==
  ASSUME FileInv, disk'["target"] = {view["target"]}, UNCHANGED <<attempted, acked>>
  PROVE  Register!RegisterNext
<1>1. view["target"] \in disk["target"]
  BY DEF FileInv, TypeOK, Names
<1>2. Written(view["target"]) \in Survivors /\ Survivors' = {Written(view["target"])}
  BY <1>1 DEF Survivors
<1> QED BY <1>2 DEF Register!RegisterNext, Register!Settle

\* A step that leaves the contents of the file as they are, or settles them.
LEMMA QuietStep ==
  ASSUME FileInv, UNCHANGED <<attempted, acked>>,
         \/ disk'["target"] = disk["target"]
         \/ disk'["target"] = {view["target"]}
  PROVE  [Register!RegisterNext]_Register!registerVars
<1>1. CASE disk'["target"] = disk["target"]
  BY <1>1 DEF Survivors, Register!registerVars
<1>2. CASE disk'["target"] = {view["target"]}
  BY <1>2, SettleStep
<1> QED BY <1>1, <1>2

LEMMA RenameImplements ==
  ASSUME FileInv, NEW p \in Processes, Rename(p)
  PROVE  [Register!RegisterNext]_Register!registerVars
<1>1. /\ PayloadFits(p) /\ (SavingBackup(p) \/ BeforeRename(p))
      /\ proc[p].flushed /\ view[Temp(proc[p].file)] = Content(p)
  BY DEF FileInv, WriteInv, Rename, At
<1>2. CASE proc[p].file # "target"
  <2>1. disk'["target"] = disk["target"]
    BY <1>2 DEF FileInv, TypeOK, Processing, Rename, ChangeUnflushed, Names, Temp
  <2> QED BY <2>1, QuietStep DEF Rename
<1>3. CASE proc[p].file = "target"
  <2>1. disk'["target"] = disk["target"] \cup {proc[p].payload}
    BY <1>1, <1>3 DEF FileInv, TypeOK, Rename, ChangeUnflushed, Names, Temp, Content
  <2>2. proc[p].bytes \in disk["target"] /\ proc[p].payload \in Databases
    BY <1>1, PayloadIsSafe DEF FileInv, TypeOK, Names, SavingBackup, BeforeRename
  <2>3. Survivors' = Survivors \cup {proc[p].payload}
    BY <2>1, <2>2, Distinct DEF Survivors
  <2>4. Written(proc[p].bytes) \in Survivors
    BY <2>2 DEF Survivors
  <2>5. CASE proc[p].bytes = Absent
    BY <1>1, <2>3, <2>4, <2>5, Distinct DEF PayloadFits, Rename, Written, Register!RegisterNext, Register!Create
  <2>6. CASE proc[p].bytes # Absent
    <3>1. PICK n \in attempted \ Written(proc[p].bytes) :
            proc[p].payload = Written(proc[p].bytes) \cup {n}
      BY <1>1, <2>6 DEF PayloadFits
    <3>2. Written(proc[p].bytes) # Absent
      BY <2>6, Distinct DEF Written, FileInv, TypeOK, Processing
    <3> QED BY <2>3, <2>4, <3>1, <3>2 DEF Rename, Register!RegisterNext, Register!Extend
  <2> QED BY <2>5, <2>6
<1> QED BY <1>2, <1>3

LEMMA RestoreImplements ==
  ASSUME FileInv, NEW p \in Processes, Restore(p)
  PROVE  [Register!RegisterNext]_Register!registerVars
<1>1. /\ PayloadFits(p) /\ AfterRename(p)
      /\ ~proc[p].backed => proc[p].bytes = Absent
  BY DEF FileInv, WriteInv, Restore, At, Writes
<1>2. \/ disk' = disk
      \/ /\ disk'["target"] = disk["target"] \cup {view'["target"]}
         /\ view'["target"] \in {proc[p].bytes, Saved(proc[p].bytes)}
  BY <1>1 DEF FileInv, TypeOK, Restore, Unchanged, Change, ChangeUnflushed, Names, AfterRename
<1>3. {Written(proc[p].bytes), proc[p].payload} \subseteq Survivors
  <2>1. proc[p].payload \in Databases
    BY <1>1, PayloadIsSafe DEF AfterRename
  <2> QED BY <1>1, <2>1, Distinct DEF AfterRename, Survivors
<1>4. Written(Saved(proc[p].bytes)) \in Survivors
  \* The backup of a missing file is empty, as is the database it was to get.
  BY <1>1, <1>3, Distinct DEF Saved, Written, PayloadFits
<1>5. Survivors' = Survivors
  BY <1>2, <1>3, <1>4 DEF Survivors
<1> QED BY <1>5 DEF Restore, Register!registerVars

LEMMA RetireImplements ==
  ASSUME FileInv, NEW p \in Processes, Retire(p)
  PROVE  Register!RegisterNext
<1>1. PayloadFits(p) /\ disk["target"] = {proc[p].payload}
  BY DEF FileInv, WriteInv, Retire, At
<1>2. view["target"] = proc[p].payload
  BY <1>1 DEF FileInv, TypeOK, Names
<1>3. proc[p].payload \in Databases
  <2>1. proc[p].payload # Absent
    BY <1>1, Distinct DEF PayloadFits, Written, FileInv, TypeOK, Databases, Processing
  <2> QED BY <2>1 DEF FileInv, TypeOK, Processing
<1>4. disk'["target"] = {proc[p].payload}
  BY <1>1, <1>2 DEF FileInv, TypeOK, Retire, ChangeAndSync, Unchanged, Names
<1>5. Survivors = {proc[p].payload} /\ Survivors' = {proc[p].payload}
  BY <1>1, <1>3, <1>4, Distinct DEF Survivors
<1>6. acked' = proc[p].payload /\ attempted' = attempted
  BY DEF Retire
<1> QED BY <1>3, <1>5, <1>6, Distinct DEF Register!RegisterNext, Register!Acknowledge

LEMMA PowerLossImplements ==
  ASSUME FileInv, PowerLoss
  PROVE  Register!RegisterNext
<1>1. view'["target"] \in disk["target"] /\ disk'["target"] = {view'["target"]}
  BY DEF PowerLoss, Names
<1>2. Written(view'["target"]) \in Survivors /\ Survivors' = {Written(view'["target"])}
  BY <1>1 DEF Survivors
<1> QED BY <1>2 DEF PowerLoss, Register!RegisterNext, Register!Settle

LEMMA StepImplements ==
  ASSUME FileInv, [Next]_vars
  PROVE  [Register!RegisterNext]_Register!registerVars
<1> USE DEF At
<1>1. ASSUME NEW p \in Processes, Open(p) \/ Read(p) \/ Close(p) \/ Kill(p) \/ FailsAfterRename(p)
      PROVE  [Register!RegisterNext]_Register!registerVars
  BY <1>1, QuietStep DEF Open, Read, Close, Kill, FailsAfterRename, Unchanged
<1>2. ASSUME NEW p \in Processes, Recover(p)
      PROVE  [Register!RegisterNext]_Register!registerVars
  BY <1>2, QuietStep DEF Recover, Unchanged, ChangeAndSync, Names, Stale
<1>3. ASSUME NEW p \in Processes, Transaction(p)
      PROVE  [Register!RegisterNext]_Register!registerVars
  <2>1. Survivors' = Survivors
    BY <1>3 DEF Transaction, Unchanged, Survivors
  <2>2. /\ \E n \in 1 .. MaxWrites : attempted = 1 .. n - 1 /\ attempted' = 1 .. n
        /\ acked' = acked
    BY <1>3 DEF Transaction
  <2>3. Register!Attempt
    BY <2>1, <2>2 DEF Register!Attempt
  <2> QED BY <2>3 DEF Register!RegisterNext
<1>4. ASSUME NEW p \in Processes, CreateTemporary(p) \/ Fill(p)
      PROVE  [Register!RegisterNext]_Register!registerVars
  BY <1>4, QuietStep DEF CreateTemporary, Fill, Change, ChangeUnflushed, Names, Temp, FileInv, TypeOK
<1>5. ASSUME NEW p \in Processes, SyncDirectory(p) \/ SyncRestored(p)
      PROVE  [Register!RegisterNext]_Register!registerVars
  BY <1>5, QuietStep DEF SyncDirectory, SyncRestored, Sync, Unchanged, Names
<1>6. ASSUME NEW p \in Processes, TemporaryExists(p) \/ FailsBeforeRename(p)
      PROVE  [Register!RegisterNext]_Register!registerVars
  <2>1. \/ disk'["target"] = disk["target"]
        \/ disk'["target"] = {view["target"]}
    BY <1>6 DEF TemporaryExists, FailsBeforeRename, Abandon, Change, ChangeUnflushed,
       ChangeAndSync, Names, Temp, FileInv, TypeOK
  <2> QED BY <1>6, <2>1, QuietStep DEF TemporaryExists, FailsBeforeRename
<1>7. CASE UNCHANGED vars
  BY <1>7, QuietStep DEF vars
<1> QED BY <1>1, <1>2, <1>3, <1>4, <1>5, <1>6, <1>7, RenameImplements,
  RetireImplements, RestoreImplements, PowerLossImplements DEF Next

(* The file implements the register: every call changes what may survive in  *)
(* no way the register does not allow (AnchoredDirectory.atomic_write).      *)
THEOREM FileImplementsRegister == Spec => ImplementsRegister
<1>1. Init => Register!RegisterInit
  <2> SUFFICES ASSUME Init PROVE Register!RegisterInit
    OBVIOUS
  <2>1. Survivors = {Absent}
    BY Distinct DEF Init, Survivors, Written, Names
  <2> QED BY <2>1 DEF Init, Register!RegisterInit
<1>2. FileInv /\ [Next]_vars => [Register!RegisterNext]_Register!registerVars
  BY StepImplements
<1> QED BY <1>1, <1>2, FileIsConsistent, PTL DEF Spec, ImplementsRegister, Register!RegisterSpec

-----------------------------------------------------------------------------
(* What the register promises.                                              *)

RegisterInv ==
  /\ attempted \subseteq 1 .. MaxWrites
  /\ Survivors \subseteq Databases \cup {Absent}
  /\ Register!AckedSurvives

LEMMA RegisterStepKeeps ==
  ASSUME RegisterInv, [Register!RegisterNext]_Register!registerVars
  PROVE  RegisterInv'
<1> USE DEF RegisterInv, Register!AckedSurvives
<1>1. CASE Register!Attempt
  BY <1>1, BoundsAssumption DEF Register!Attempt
<1>2. CASE Register!Create /\ UNCHANGED <<attempted, acked>>
  \* Creation is over once a write is acknowledged: Absent no longer survives.
  BY <1>2, Distinct DEF Register!Create
<1>3. CASE Register!Extend /\ UNCHANGED <<attempted, acked>>
  <2>1. PICK c \in Survivors \ {Absent} :
          \E n \in attempted \ c : Survivors' = Survivors \cup {c \cup {n}}
    BY <1>3 DEF Register!Extend
  <2>2. PICK n \in attempted \ c : Survivors' = Survivors \cup {c \cup {n}}
    BY <2>1
  <2>3. c \cup {n} \in Databases
    BY <2>2 DEF Databases
  <2> QED BY <1>3, <2>2, <2>3, Distinct
<1>4. CASE Register!Settle /\ UNCHANGED <<attempted, acked>>
  BY <1>4 DEF Register!Settle
<1>5. CASE Register!Acknowledge
  BY <1>5 DEF Register!Acknowledge
<1>6. CASE UNCHANGED Register!registerVars
  BY <1>6 DEF Register!registerVars
<1> QED BY <1>1, <1>2, <1>3, <1>4, <1>5, <1>6 DEF Register!RegisterNext

(* A write that was acknowledged is in every content a loss of power may     *)
(* leave, for whatever implements the register (atomic_write_bytes,          *)
(* S/adapters/localfs.py).                                                   *)
THEOREM AcknowledgedWritesSurvive ==
  Register!RegisterSpec => []Register!AckedSurvives
<1>1. Register!RegisterInit => RegisterInv
  BY DEF Register!RegisterInit, RegisterInv, Register!AckedSurvives
<1>2. RegisterInv /\ [Register!RegisterNext]_Register!registerVars => RegisterInv'
  BY RegisterStepKeeps
<1>3. RegisterInv => Register!AckedSurvives
  BY DEF RegisterInv
<1> QED BY <1>1, <1>2, <1>3, PTL DEF Register!RegisterSpec
=============================================================================

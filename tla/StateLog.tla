------------------------------ MODULE StateLog ------------------------------
(***************************************************************************)
(* What the remote state branch promises to the rest of SkillScout, with   *)
(* no writers, requests or failures: an append-only log of state commits,  *)
(* and acknowledgements that only ever name the commit the branch shows at *)
(* that moment.  StateBranch is shown to implement it.                     *)
(***************************************************************************)
EXTENDS Naturals, Sequences

CONSTANT Entry          \* the contents a state commit can have

VARIABLES log,          \* the commits of the branch, oldest first
          acked         \* the commits acknowledged so far, as histories

logVars == <<log, acked>>

\* A state commit of the program never drops a fact its parent recorded; an
\* entry that does not link to its parent comes from outside the program.
Extends(history, entry) ==
  history # <<>> /\ entry.linked =>
    history[Len(history)].facts \subseteq entry.facts

LogInit == log = <<>> /\ acked = {}

Land == \E entry \in Entry : /\ Extends(log, entry)
                             /\ log' = Append(log, entry)
                             /\ UNCHANGED acked

Acknowledge == /\ log # <<>>
               /\ acked' = acked \cup {log}
               /\ UNCHANGED log

LogNext == Land \/ Acknowledge

LogSpec == LogInit /\ [][LogNext]_logVars
=============================================================================

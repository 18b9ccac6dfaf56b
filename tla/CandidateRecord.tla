--------------------------- MODULE CandidateRecord ---------------------------
(***************************************************************************)
(* What the candidate tables of the pipeline store promise about one       *)
(* candidate, whatever crashes in between: the results are a legal prefix  *)
(* of the four stages, a recorded result is never withdrawn or replaced,   *)
(* and the one terminal is the row of the terminal matrix that the results *)
(* allow (CandidateTerminalSummaryV1.validate_terminal_matrix).            *)
(***************************************************************************)
EXTENDS Naturals, Sequences, SequencesExt

VARIABLES lineage,   \* "new", "retained" or "rejected", fixed
          results,   \* outcome codes of the stages done
          terminal   \* outcome of the candidate, "none" before it has one

vars == <<lineage, results, terminal>>

\* Outcomes a stage may record: qualifier, generator, validator, reviewer.
StageOutcomes ==
  <<{"accepted", "qualification_rejected"},
    {"parsed", "refused", "incomplete", "schema_invalid"},
    {"accepted", "rejected"},
    {"reviewer_refusal", "reviewer_incomplete", "reviewer_schema_failure",
     "review_completed_no", "review_completed_low_confidence",
     "review_completed_eligible"}>>

\* The outcomes after which the next stage follows.
Continuing == <<"accepted", "parsed", "accepted">>

Legal(rs) ==
  /\ Len(rs) <= 4
  /\ \A i \in DOMAIN rs : /\ rs[i] \in StageOutcomes[i]
                          /\ i < Len(rs) => rs[i] = Continuing[i]

\* The rows of the matrix: an outcome and the results it is evidence for.
Matrix ==
  {<<"qualification_rejected", <<"qualification_rejected">>>>,
   <<"lineage_rejected", <<"accepted">>>>,
   <<"generator_refusal", <<"accepted", "refused">>>>,
   <<"generator_incomplete", <<"accepted", "incomplete">>>>,
   <<"generator_schema_failure", <<"accepted", "schema_invalid">>>>,
   <<"validation_rejected", <<"accepted", "parsed", "rejected">>>>}
  \cup
  {<<row[1], Append(Continuing, row[2])>> : row \in
     {<<"reviewer_refusal", "reviewer_refusal">>,
      <<"reviewer_incomplete", "reviewer_incomplete">>,
      <<"reviewer_schema_failure", "reviewer_schema_failure">>,
      <<"review_rejected", "review_completed_no">>,
      <<"review_low_confidence", "review_completed_low_confidence">>,
      <<"eligible_local_candidate", "review_completed_eligible">>}}

\* A rejected lineage ends a qualified candidate, and nothing else does so.
Admitted(outcome, rs) ==
  /\ <<outcome, rs>> \in Matrix
  /\ rs # <<"qualification_rejected">> =>
       (outcome = "lineage_rejected") = (lineage = "rejected")

-----------------------------------------------------------------------------
Init ==
  /\ lineage \in {"new", "retained", "rejected"}
  /\ results = <<>> /\ terminal = "none"

\* One commit may add several results, and the terminal with the last one.
Advance ==
  /\ terminal = "none"
  /\ IsPrefix(results, results') /\ Legal(results')
  /\ terminal' # "none" => Admitted(terminal', results')
  /\ UNCHANGED lineage

Spec == Init /\ [][Advance]_vars

=============================================================================

-------------------------- MODULE MCSourceEvidence --------------------------
(* Instances of SourceEvidence for TLC. *)
EXTENDS SourceEvidenceInvariant

\* Two repositories of one file each: one may vanish while the other changes.
TwoRepositories == {{"file"}, {"other"}}
=============================================================================

--------------------------- MODULE MCAttachments ---------------------------
(* Two photos of one record. *)
EXTENDS Attachments, TLC

\* Photos, uploads, temporary files and commit calls are interchangeable.
Renaming == Permutations(Photos) \cup Permutations(Workers)
            \cup Permutations(Temps) \cup Permutations(Commits)
=============================================================================

---------------------------- MODULE MCCodeReview ----------------------------
(* CodeReview for TLC: a working copy with two files in two directories.    *)
EXTENDS CodeReview, TLC

CONSTANTS f1, f2, root, lib

\* svn st run in the root lists both files, run in lib only lib's file
MCUnder == (root :> {f1, f2}) @@ (lib :> {f2})

\* the target of f1 depends on the target of f2
MCDependsOn == {<<f1, f2>>}

\* --files absent, or naming one file
MCFileOptions == {Files} \cup {{f} : f \in Files}

NoFileOption == {Files}

=============================================================================

---------------------------- MODULE MCCheckSubmit ----------------------------
(***************************************************************************)
(* CheckSubmit for TLC: the marks of a submit.py message, one checked and  *)
(* one excepted path, and the kinds of commit the audit tells apart.       *)
(***************************************************************************)
EXTENDS CheckSubmit

\* "Issue: ", "Digest: ", "--crid=" and a message of four lines or more
MCMarks == {"Issue", "Digest", "crid", "lines"}

\* a path of the trunk and one under /qzone_adsdev_proj/trunk/java/BizRd
MCPaths == {"app", "BizRd"}

MCExceptPaths == {"BizRd"}

\* made with submit.py; made by hand on a checked path; by hand on an
\* excepted path; by hand with a message that lacks its fourth line, on both
MCCommits ==
    {[msg |-> MCMarks, paths |-> {"app"}],
     [msg |-> {}, paths |-> {"app"}],
     [msg |-> {}, paths |-> {"BizRd"}],
     [msg |-> MCMarks \ {"lines"}, paths |-> {"app", "BizRd"}]}

=============================================================================

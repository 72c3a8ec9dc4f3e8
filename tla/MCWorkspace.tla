----------------------------- MODULE MCWorkspace -----------------------------
(* One build file that lists one source, and another source as top level.     *)
EXTENDS Workspace, TLC

CONSTANTS buildA, src, top, bad

OneBuild == {buildA}
TwoSources == {src, top}
OneSource == {src}
NeedsSource == buildA :> {src}
OneTop == {top}
OneFlag == {bad}
AnyWorkspace ==
    [l \in AllLayers |->
        CASE l = "workspace" -> Settings \cup {Missing, Broken}
          [] l = "user" -> {Broken, [NoSettings EXCEPT !.build = buildA]}
          [] l = "local" -> {}]
Everything == {buildA, src, top}
=============================================================================

------------------------------ MODULE MCProject ------------------------------
(* Loading a project: the modules it is made of are synced and walked       *)
(* (ModuleSync), and what their files declare is evaluated (ProjectLoad).   *)
(* The two phases share no state, so a behaviour is of one of them.         *)
EXTENDS MCProjectLoad, MCModuleSync

VARIABLE loading        \* "modules" or "units"

AnyProject == P(<<>>, NoPins)
AnyModuleList == CHOOSE l \in ModuleLists : TRUE

Init ==
    /\ LoadInit
    /\ loading \in {"modules", "units"}
    /\ loading = "modules" => proj = AnyProject
    /\ project \in IF loading = "modules" THEN ModuleLists ELSE {AnyModuleList}
    /\ SyncInit

Next ==
    /\ UNCHANGED loading
    /\ \/ loading = "modules" /\ SyncNext /\ UNCHANGED loadVars
       \/ loading = "units" /\ LoadNext /\ UNCHANGED syncVars

Spec == Init /\ [][Next]_<<loading, loadVars, syncVars>>
==============================================================================

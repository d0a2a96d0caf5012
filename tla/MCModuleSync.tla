---------------------------- MODULE MCModuleSync ----------------------------
(* A project with a board module whose dependencies are two levels deep,    *)
(* one with a shared module in conflict, pinned by the project or not, and  *)
(* ones with cycles of one and of three modules.                            *)
EXTENDS ModuleSync

Module(name, deps) == [name |-> name, info |-> name, deps |-> deps, local |-> FALSE]

MCRefs ==
    [core1 |-> Module("core", <<>>),
     core2 |-> Module("core", <<>>),
     bsp   |-> Module("bsp", <<"fw", "core1">>),
     fw    |-> Module("fw", <<"core1">>),
     apps  |-> [Module("apps", <<"core2">>) EXCEPT !.local = TRUE],
     selfy |-> [Module("selfy", <<"selfy">>) EXCEPT !.local = TRUE],
     a     |-> [Module("a", <<"b">>) EXCEPT !.local = TRUE],
     b     |-> [Module("b", <<"c">>) EXCEPT !.local = TRUE],
     c     |-> [Module("c", <<"a">>) EXCEPT !.local = TRUE]]

MCModuleLists == {<<"bsp">>, <<"bsp", "apps">>, <<"apps", "core1">>, <<"core2", "bsp">>, <<"selfy">>, <<"a">>, <<"apps">>}

(* A project with a single module. *)
OneModule == {<<"core1">>}
=============================================================================

------------------------------ MODULE MCTuiViews -----------------------------
(* The pages of the terminal user interface side by side: the table of      *)
(* three units on a screen of one or two rows, the page of a unit of two    *)
(* lines and its logs on a screen of two or three, and Setup with two       *)
(* machines and three forwards.  They share no state here, so a behaviour   *)
(* is of one of them.                                                       *)
EXTENDS TuiList, DetailView, TuiSetup

VARIABLE shownPage

MCClass == [n \in UnitNames |-> IF n = 3 THEN 2 ELSE 1]
MCDeps == [n \in UnitNames |-> CASE n = 3 -> {1, 2} [] n = 2 -> {1} [] OTHER -> {}]
MCProjects == [m1 |-> UnitNames, m2 |-> {2, 3}]
MCImage == [m1 |-> 3, m2 |-> NoImage]
MCQueries ==
    {EmptyQuery, [EmptyQuery EXCEPT !.status = {"cached", "building"}],
     [EmptyQuery EXCEPT !.in = {1}, !.words = {{1, 2}}]}
MCPanicQueries == {EmptyQuery, [EmptyQuery EXCEPT !.status = {"cached"}]}

MCAbove == [u \in PageUnits |-> <<"a", "b">>]
MCFileSize == [p \in FilePaths |-> IF p = 1 THEN 2 ELSE 1]

MCMachines == [m1 |-> <<[host |-> 8080, guest |-> 80]>>, m2 |-> <<[host |-> 2222, guest |-> 22]>>]
MCEntries == {[host |-> 8080, guest |-> 80], [host |-> 8081, guest |-> 80],
              [host |-> 2223, guest |-> 22]}

Init ==
    /\ ListInit /\ PageInit /\ SetupInit
    /\ shownPage \in {"units", "detail", "setup"}
    /\ shownPage # "units" => proj = "m1" /\ height = Max(Heights)
    /\ shownPage # "detail" => pane = Max(PaneHeights)

Next ==
    /\ UNCHANGED shownPage
    /\ \/ shownPage = "units" /\ ListNext /\ UNCHANGED <<pageVars, setupVars>>
       \/ shownPage = "detail" /\ PageNext /\ UNCHANGED <<listVars, setupVars>>
       \/ shownPage = "setup" /\ SetupNext /\ UNCHANGED <<listVars, pageVars>>

Spec == Init /\ [][Next]_<<shownPage, listVars, pageVars, setupVars>>
==============================================================================

---------------------------- MODULE MCUnitCache -----------------------------
(* Small projects for UnitCache: a library, an application, a toolchain and *)
(* an image, with one virtual name.                                         *)
EXTENDS UnitCache

CONSTANTS lib, app, tool, img, virt

FourUnits == {lib, app, tool, img}
NameOrder == [u \in FourUnits |-> CASE u = app -> 1 [] u = img -> 2 [] u = lib -> 3 [] u = tool -> 4]
None == [u \in FourUnits |-> {}]

Project(classes, d, a, r, k, prov) ==
    [class |-> classes, deps |-> d, artifacts |-> a, runtime |-> r, containers |-> k, provides |-> prov,
     unread |-> {}]
Classes == [u \in FourUnits |-> CASE u = img -> "image" [] u = tool -> "container" [] OTHER -> "package"]
Unprovided == [n \in FourUnits \union {virt} |-> NoUnit]

(* An image over an application over a library, all built in a toolchain,   *)
(* every dependency of a package declared.                                  *)
Chain == Project(Classes,
    [None EXCEPT ![lib] = {tool}, ![app] = {lib, tool}], [None EXCEPT ![img] = {app}],
    None, [None EXCEPT ![lib] = {tool}, ![app] = {tool}], Unprovided)

(* The application has nothing to run, and the image is built in a          *)
(* toolchain it names by a virtual name, which a function builds.           *)
Bare == [Project([Classes EXCEPT ![app] = "bare"],
    [None EXCEPT ![app] = {lib}, ![img] = {app}], None, None,
    [None EXCEPT ![img] = {virt}], [Unprovided EXCEPT ![virt] = tool]) EXCEPT !.unread = {tool}]

(* Every graph of declared dependencies over the packages and a virtual     *)
(* name, the application's name provided by the toolchain or not, with     *)
(* runtime dependencies, cyclic ones too, and with or without a container,  *)
(* in which the toolchain itself may be built.                              *)
Sub == SUBSET {lib, app, virt}
Shapes == {Project(Classes,
             [u \in FourUnits |-> CASE u = lib -> l [] u = app -> a [] u = tool -> t [] OTHER -> {}],
             [None EXCEPT ![img] = {app}],
             [u \in FourUnits |-> CASE u = lib -> rl [] u = app -> {tool} [] u = tool -> rt [] OTHER -> {}],
             [u \in FourUnits |-> k],
             [Unprovided EXCEPT ![virt] = v, ![app] = s]) :
             l \in Sub, a \in Sub, t \in {{}, {virt}}, s \in {NoUnit, tool},
             rl \in {{}, {app}, {virt, tool}}, rt \in {{}, {app, img}}, k \in {{}, {tool}}, v \in {NoUnit, tool, lib}}

DeepProjects == {Chain, Bare}
AllProjects == DeepProjects \union Shapes
SomeTargets == {{}, {lib}, {app}}
ChainOnly == {Chain}

(* The library is built in a container it names by what the application     *)
(* provides, whose own name the toolchain provides.                         *)
ProviderOfProvider == {Project(Classes, None, None, None, [None EXCEPT ![lib] = {virt}],
    [Unprovided EXCEPT ![virt] = app, ![app] = tool])}
=============================================================================

------------------------------ MODULE MCStores -------------------------------
(* What builds leave behind, side by side: the build cache and the apk      *)
(* repository.  They are checked on different abstractions of a project, so *)
(* a behaviour is of one of them.                                           *)
EXTENDS MCUnitCache, MCPackageRepo

VARIABLE store

(* While the repository is looked at, the cache belongs to a project whose  *)
(* units depend on each other in a cycle, which its one run reported.       *)
Cyclic == Project(Classes, [None EXCEPT ![lib] = {app}, ![app] = {lib}],
    [None EXCEPT ![img] = {app}], [None EXCEPT ![app] = {tool}], None, Unprovided)

StoresInit ==
    /\ Init
    /\ \/ store = "cache" /\ CacheInit /\ keep = {libv1, data}
       \/ store = "repo" /\ Unbuilt /\ proj = Cyclic /\ result = "error" /\ runs = 1

StoresNext ==
    /\ UNCHANGED store
    /\ \/ store = "cache" /\ CacheNext /\ UNCHANGED vars
       \/ store = "repo" /\ Next /\ UNCHANGED cacheVars

StoresSpec == StoresInit /\ [][StoresNext]_<<store, cacheVars, vars>>
=============================================================================

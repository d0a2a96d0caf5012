------------------------------ MODULE MCSources ------------------------------
(* Where sources come from: the shared caches of downloads and clones, with *)
(* two workers and three units that both may want at once (an archive with  *)
(* a checksum and a mirror, an apk whose checksum does not decode, a git    *)
(* source), and the source tree of one unit over toggles and builds.  The   *)
(* two share no state here, so a behaviour is of one of them.               *)
EXTENDS SourceFetch, MCUnitSource

VARIABLE place          \* "cache" or "tree"

MCUnits ==
    [zlib  |-> [git |-> FALSE, key |-> "zlib.tar", hosts |-> 2, kind |-> "sha256", want |-> "v1"],
     musl  |-> [git |-> FALSE, key |-> "musl.apk", hosts |-> 1, kind |-> "apk", want |-> Malformed],
     linux |-> [git |-> TRUE, key |-> "linux#v6", hosts |-> 1, kind |-> "none", want |-> "v1"]]

AllDeclared == [tag : Tags, branch : Branches, patches : PatchLists]
AnyDeclared == CHOOSE s \in AllDeclared : TRUE

Init ==
    /\ place \in {"cache", "tree"}
    /\ star \in IF place = "tree" THEN AllDeclared ELSE {AnyDeclared}
    /\ FetchInit /\ SourceInit

Next ==
    /\ UNCHANGED place
    /\ \/ place = "cache" /\ FetchNext /\ UNCHANGED sourceVars
       \/ place = "tree" /\ SourceNext /\ UNCHANGED fetchVars

Spec == Init /\ [][Next]_<<place, fetchVars, sourceVars>> /\ FetchFairness
==============================================================================

--------------------------- MODULE MCPackageRepo ----------------------------
(* Small instances of PackageRepo: a library and a tool for one arch and a  *)
(* portable data package; "lib" is also a prefix of the tool's name.        *)
EXTENDS PackageRepo

CONSTANTS libv1, libtool, data, x86, noarch

AllFiles == {libv1, libtool, data}
AllDirs == {x86, noarch}
AllHome == [f \in AllFiles |-> IF f = data THEN noarch ELSE x86]
RemoveArgs == {"lib", "data"}
PrefixMatch == [n \in RemoveArgs |-> IF n = "lib" THEN {libv1, libtool} ELSE {data}]
TwoReleases == {{libv1, data}, {libv1, libtool}}
ArchOnly == {{libv1}, {libtool}}

=============================================================================

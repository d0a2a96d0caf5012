-------------------------- MODULE MCBuildScheduler --------------------------
(* Small projects for BuildScheduler: a library, an application built on    *)
(* it, a tool, and images of them.                                          *)
EXTENDS BuildScheduler, TLC

CONSTANTS lib, app, tool, img, img2, ghost

(* A library, a package of packages that has nothing to build itself, an    *)
(* image of both, a tool outside the image and an image this machine cannot *)
(* boot; the same with the library waiting for that image; and a cycle.     *)
AllUnits == {lib, app, img, tool, img2}
AllNames == AllUnits \cup {ghost}
AllGraphs ==
    { (lib :> {} @@ app :> {lib} @@ img :> {app, lib} @@ tool :> {} @@ img2 :> {tool}),
      (lib :> {img2} @@ app :> {} @@ img :> {app, lib, tool} @@ tool :> {} @@ img2 :> {}),
      (lib :> {app} @@ app :> {lib} @@ img :> {lib} @@ tool :> {} @@ img2 :> {}) }
AllClass == (lib :> "package" @@ app :> "package" @@ img :> "image" @@ tool :> "package" @@ img2 :> "image")
AllWork == AllUnits \ {app}

(* No build reads the record of img2, which this machine cannot boot, so   *)
(* one value of it stands for all.                                          *)
InitOneRecord == Init /\ meta[img2] = "none"
OneRecord == InitOneRecord /\ [][Next]_vars /\ Fairness

(* Two images that share no package. *)
TwoUnits == {img, img2, app, tool}
TwoGraphs == { (app :> {} @@ tool :> {} @@ img :> {app} @@ img2 :> {tool}) }
TwoClass == (app :> "package" @@ tool :> "package" @@ img :> "image" @@ img2 :> "image")

=============================================================================

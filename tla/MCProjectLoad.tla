---------------------------- MODULE MCProjectLoad ----------------------------
(* Families of small projects for ProjectLoad. *)
EXTENDS ProjectLoad

MCNames == <<"a", "b", "c", "imga", "imgd", "p", "q", "v">>
MCDistros == {"alpine", "debian"}
Nothing == [d \in MCDistros |-> <<>>]

\* The first two feeds offer the same name, to different distros.
MCFeeds == <<
    [distro |-> "alpine", offers |-> [n \in {"a", "b"} |-> IF n = "a" THEN <<"b">> ELSE <<>>]],
    [distro |-> "debian", offers |-> [n \in {"a", "b", "c"} |-> CASE n = "a" -> <<"b">> [] n = "b" -> <<"c">> [] n = "c" -> <<"b">>]],
    [distro |-> "alpine", offers |-> [n \in {"b", "c"} |-> <<>>]] >>

U(n, d, deps, rdeps, prov) ==
    [name |-> n, distro |-> d, class |-> "unit", tasks |-> TRUE, container |-> TRUE, mod |-> 0, idx |-> 0, deps |-> deps, distroDeps |-> Nothing,
     rdeps |-> rdeps, distroRdeps |-> Nothing, provides |-> prov]
File1(m, dir, loads, u) == [mod |-> m, dir |-> dir, loads |-> loads, unit |-> u]
UnitFile(m, u) == File1(m, "units", <<>>, u)
ImageFile(m, n, d, artifacts) == File1(m, "images", <<>>, [U(n, d, <<>>, artifacts, {}) EXCEPT !.class = "image"])

NoPins == [d \in MCDistros |-> [n \in Range(MCNames) |-> 0]]
Pin(d, n, m) == [NoPins EXCEPT ![d][n] = m]
Board(virtual, u) == [board |-> [provides |-> virtual, unit |-> u, distroUnit |-> <<>>]]
Boards(virtual, units) == [board |-> [provides |-> virtual, unit |-> "", distroUnit |-> units]]
NoOpts == [machine |-> "", distro |-> "", machinesOnly |-> FALSE]
P(files, pins) ==
    [files |-> files, pins |-> pins, machines |-> Board("", ""), machine |-> "board", image |-> "imga",
     distro |-> "alpine", allowDuplicates |-> TRUE, local |-> [distro |-> "", image |-> ""], opts |-> NoOpts]

Tags == {"", "alpine", "debian"}
Maybe == {"no"} \union Tags
OneOf(m, tag, deps) == IF tag = "no" THEN <<>> ELSE <<UnitFile(m, U("a", tag, deps, <<"b">>, {}))>>

\* "a" in any of the root and two modules under any tag, in the feeds, pinned or not.
Shadowing ==
    {P(OneOf(1, t[1], <<>>) \o OneOf(2, t[2], <<"c">>) \o OneOf(3, t[3], <<>>)
         \o <<ImageFile(1, "imga", "", <<"a">>), ImageFile(3, "imgd", "debian", <<"a">>)>>, pins) :
        t \in [1 .. 3 -> Maybe],
        pins \in {NoPins, Pin("alpine", "a", -1), Pin("debian", "a", 1)}}

\* A virtual name with two claimants.
Virtuals ==
    {[P(<<UnitFile(m[1], U("p", t[1], <<>>, <<>>, {"v"})), UnitFile(m[2], U("q", t[2], <<>>, <<>>, {"v"})),
          ImageFile(2, "imga", "alpine", <<"v">>)>>, NoPins)
        EXCEPT !.machines = k, !.allowDuplicates = dup] :
        m \in [1 .. 2 -> 1 .. 2], t \in [1 .. 2 -> Tags], dup \in BOOLEAN,
        k \in {Board("", ""), Board("v", "a")}}

\* Every dependency graph of three units, cycles included.
Graphs ==
    {P(<<UnitFile(1, U("a", "", <<>>, SetToSeq(g[1]), {})), UnitFile(1, U("b", "", <<>>, SetToSeq(g[2]), {})),
         UnitFile(1, U("c", "", <<>>, SetToSeq(g[3]), {})), ImageFile(1, "imga", "", <<"a", "c">>)>>, NoPins) :
        g \in [1 .. 3 -> SUBSET {"a", "b", "c"}]}

\* Build dependencies only feeds satisfy, some for one distro; classes loaded by several files; a wrong pin.
Others ==
    {P(<<UnitFile(1, [U("v", t, <<"a">>, <<>>, {}) EXCEPT !.distroDeps["debian"] = <<"c">>]),
         ImageFile(2, "imgd", "debian", arts), ImageFile(2, "imga", "", arts)>>, pins) :
        arts \in {<<>>, <<"b">>}, t \in Tags, pins \in {NoPins, Pin("alpine", "b", -3), Pin("alpine", "a", 9)}}
    \union
    {P(<<File1(1, "classes", <<2>>, NoUnit), File1(1, "classes", <<>>, NoUnit),
         File1(1, "containers", <<2>>, U("c", "", <<>>, <<>>, {})),
         File1(1, "units", <<1>>, U("a", "", <<>>, <<>>, {})), File1(2, "units", <<2, 1>>, U("b", "", <<>>, <<>>, {})),
         File1(2, "units", <<1>>, U(n, "", <<>>, <<>>, {}))>>, NoPins) : n \in {"b", "v"}}

\* Images of one name in two modules, a distro from local.star or the flag, other machines, a unit without container.
Images ==
    {[P(<<UnitFile(1, U("p", "", <<>>, <<>>, {})), ImageFile(m[1], "imga", t[1], <<"p">>), ImageFile(m[2], "imga", t[2], <<>>)>>, NoPins)
        EXCEPT !.local = l, !.opts.distro = o] :
        m \in {<<1, 2>>, <<3, 1>>, <<2, 3>>}, t \in {<<"alpine", "debian">>, <<"", "debian">>, <<"debian", "debian">>, <<"debian", "">>},
        l \in [distro : {"", "debian"}, image : {"", "imga", "none"}], o \in {"", "alpine", "debian"}}
    \union {[P(<<UnitFile(1, U("p", "", <<>>, <<>>, {})), ImageFile(1, "imga", "", <<"p">>)>>, NoPins)
               EXCEPT !.opts.machine = m, !.opts.machinesOnly = only, !.machine = dm] :
               m \in {"", "board", "other"}, only \in BOOLEAN, dm \in {"board", "other"}}
    \union {P(<<UnitFile(1, [U("p", "", <<>>, <<>>, {}) EXCEPT !.container = FALSE])>>, NoPins)}

\* A kernel for some distros only, or for none, and images of both distros that list it by its virtual name.
Kernels ==
    {[P(<<UnitFile(1, U("p", "", <<>>, <<"a">>, v)), ImageFile(1, "imga", "", <<"v">>), ImageFile(m, "imga", "debian", <<"v">>),
          ImageFile(2, "imgd", "debian", <<"v", "p">>)>>, NoPins)
        EXCEPT !.machines = Boards("v", k), !.opts.distro = o] :
        v \in {{}, {"v"}}, m \in {2, 3}, o \in {"", "debian"},
        k \in UNION {[S -> {"p", "b"}] : S \in SUBSET MCDistros}}

\* A name that a module defines for two distros, which another module defines too.
TwoTags ==
    {P(<<UnitFile(m, U("a", t, <<>>, <<>>, {})), UnitFile(m, U("a", w, <<>>, <<"b">>, {}))>> \o OneOf(2, x, <<>>)
         \o <<ImageFile(1, "imga", "", <<"a">>), ImageFile(1, "imgd", "debian", <<"a">>), ImageFile(m, "imgd", "alpine", <<"b">>)>>, NoPins) :
        m \in {1, 3}, t \in Tags, w \in Tags, x \in Maybe}

\* Classes and a unit file that load each other, in a cycle or not.
Loads ==
    {P(<<File1(1, "classes", SetToSeq(g[1]), NoUnit), File1(1, "classes", SetToSeq(g[2]), NoUnit),
         File1(1, "units", SetToSeq(g[3]), NoUnit), UnitFile(1, U("a", "", <<>>, <<>>, {}))>>, NoPins) :
        g \in [1 .. 3 -> SUBSET (1 .. 3)]}

MCProjects == Images \union Shadowing \union Virtuals \union Graphs \union Others \union Kernels \union TwoTags \union Loads
              \union {P(<<>>, NoPins)}

\* A package of the image needs a virtual name that each distro has a provider of.
MCVirtuals ==
    {P(<<UnitFile(1, U("a", "", <<>>, <<"v">>, {})), UnitFile(1, U("p", t[1], <<>>, <<>>, {"v"})),
         UnitFile(2, U("q", t[2], <<>>, <<>>, {"v"})), ImageFile(2, "imga", "alpine", <<"a">>)>>, NoPins) :
        t \in [1 .. 2 -> Tags]}

\* A virtual name whose provider is provided by another unit: the image has one and needs the virtual name.
MCChain ==
    {P(<<UnitFile(1, U("a", "", <<>>, <<"v">>, {})), UnitFile(1, U("p", "", <<>>, <<>>, {"v"})),
         UnitFile(1, U("q", "", <<>>, <<>>, {"p"})), ImageFile(2, "imga", "alpine", <<"a">>)>>, NoPins)}
=============================================================================

------------------------------ MODULE MCFiles ------------------------------
(* A small tree for FileCommands: a writable zone with a link to one of its  *)
(* files and a link that leaves it, a read only zone, and four mounts: one   *)
(* that takes any batch, one that takes single operations, a projection and  *)
(* a remote one without a mutator.                                           *)
EXTENDS FileCommands

MCZones == {[root |-> <<"o">>, base |-> <<"o">>, writable |-> TRUE],
            [root |-> <<"k">>, base |-> <<"k">>, writable |-> FALSE]}

Mount(point, truth, write, latency, caps, maxCount) ==
  [point |-> point, truth |-> truth, write |-> write, latency |-> latency,
   consistent |-> write # "read_only", access |-> "ro", classes |-> CLIClasses,
   caps |-> caps, maxCount |-> maxCount, maxBytes |-> 0, maxPaths |-> 0, maxTargets |-> 2]

MCLocalRoot == <<"o">>

\* What keeps a read only zone as it is holds of these zones.
ASSUME MCZonesAssumption == ZonesApart

MCMounts ==
  {Mount(<<"m">>, "factual", "write_through", "local_fast",
         {"EntryLister", "Mutator", "Refresher"}, 0),
   Mount(<<"b">>, "factual", "write_through", "local_fast",
         {"EntryLister", "PathEnumerator", "Mutator", "Refresher"}, 1),
   Mount(<<"y", "p">>, "projection", "read_only", "local_fast",
         {"EntryLister", "PathEnumerator", "BulkReader", "ContentSearcher", "Mutator"}, 0),
   Mount(<<"y", "q", "r">>, "factual", "write_through", "remote_high_latency",
         {"EntryLister", "PathEnumerator", "Refresher"}, 0)}

MCHost ==
  (<<"o">> :> Folder) @@ (<<"o", "a">> :> File(<<"x">>)) @@ (<<"o", "d">> :> Folder)
  @@ (<<"o", "d", "f">> :> File(<<"x", "x">>)) @@ (<<"o", "l">> :> Link(<<"o", "a">>))
  @@ (<<"o", "e">> :> Link(<<"k">>)) @@ (<<"k">> :> Folder) @@ (<<"k", "s">> :> File(<<"z">>))

Flat(point) ==
  [p \in {SubSeq(point, 1, i) : i \in 1 .. Len(point)} |-> Folder]
  @@ (Append(point, "f") :> File(<<"x">>))
Deep(point) ==
  Flat(point) @@ (Append(point, "d") :> Folder) @@ (point \o <<"d", "h">> :> File(<<"z">>))
MCData == [point \in {m.point : m \in MCMounts} |->
             IF Len(point) = 2 \/ point = <<"m">> THEN Deep(point) ELSE Flat(point)]

Cmd(name, paths, text, old, all) ==
  [name |-> name, paths |-> paths, text |-> text, old |-> old, all |-> all]
Plain(name, paths) == Cmd(name, paths, <<>>, "x", FALSE)

oa == <<"o", "a">>
oc == <<"o", "d", "c">>
ol == <<"o", "l">>
oes == <<"o", "e", "s">>
ks == <<"k", "s">>
mf == <<"m", "f">>
mg == <<"m", "g">>
bf == <<"b", "f">>
bg == <<"b", "g">>
ypf == <<"y", "p", "f">>
yqf == <<"y", "q", "r", "f">>

CONSTANTS e1, e2

MCExecs == {e1, e2}

ManyCommands ==
  {Plain("mv", ps) : ps \in {<<oa, oc>>, <<ol, oc>>, <<oa, ol>>, <<oes, oc>>, <<oa, mf>>, <<mf, oc>>,
                             <<mf, mg>>, <<bf, bg>>, <<ypf, oc>>, <<yqf, mg>>}}
  \cup {Plain("cp", ps) : ps \in {<<ks, oc>>, <<oa, oes>>, <<oa, ks>>, <<oa, mg>>}}
  \cup {Plain("rm", ps) : ps \in {<<oa, <<"o", "d">>>>, <<oa, ol>>, <<oa, ks>>, <<mf, mg>>, <<bf>>,
                                  <<mf, oa>>, <<oes>>, <<ypf>>}}
  \cup {Plain("mkdir", ps) : ps \in {<<<<"o", "n", "i">>>>, <<<<"m", "n">>>>, <<<<"y">>>>}}
  \cup {Plain("rmdir", ps) : ps \in {<<<<"o", "d">>>>, <<<<"o", "e">>>>}}
  \cup {Plain("touch", ps) : ps \in {<<oa, oc>>, <<mg>>}}
  \cup {Cmd("tee", <<p>>, <<"y", "y">>, "x", p # oes) : p \in {oa, oes, yqf}}
  \cup {Cmd("tee", <<oa>>, <<"y", "y">>, "x", FALSE)}
  \cup {Cmd("edit", <<p>>, <<"y">>, "x", TRUE) : p \in {<<"o", "d", "f">>, mf}}
  \cup {Cmd("edit", <<<<"o", "d", "f">>>>, <<"y">>, "x", FALSE)}
  \cup {Cmd("refresh", <<mf, bf>>, <<>>, "x", TRUE), Cmd("refresh", <<<<"m">>, bf>>, <<>>, "x", TRUE),
         Cmd("refresh", <<<<"y", "q", "r">>, mf>>, <<>>, "x", FALSE)}
  \cup {Plain("count", <<oa>>)}

\* The second execution disturbs the first at its paths.
FewCommands == {Plain("mv", <<oa, oc>>)}

MCCommands == (e1 :> ManyCommands) @@ (e2 :> FewCommands)
============================================================================

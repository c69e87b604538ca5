----------------------------- MODULE MCHttpApi -----------------------------
(* Two connections, two sessions, a writable zone, a read only one, two      *)
(* mounts that state an access, read only and writable, and one without it,  *)
(* and one word that is a script.                                            *)
EXTENDS HttpApi

MCZones == {[root |-> <<"o">>, base |-> <<"o">>, writable |-> TRUE],
            [root |-> <<"k">>, base |-> <<"k">>, writable |-> FALSE]}
MCLocalRoot == <<"o">>

Mount(point, access) ==
  [point |-> point, truth |-> "projection", write |-> "read_only", latency |-> "local_fast",
   consistent |-> FALSE, access |-> access, classes |-> CLIClasses,
   caps |-> {"EntryLister", "PathEnumerator"},
   maxCount |-> 0, maxBytes |-> 0, maxPaths |-> 0, maxTargets |-> 0]
MCMounts == {Mount(<<"y", "p">>, "ro"), Mount(<<"z">>, ""), Mount(<<"v">>, "rw")}

MCHost == (<<"o">> :> Folder) @@ (<<"o", "a">> :> File(<<"x">>)) @@ (<<"o", "d">> :> Folder)
          @@ (<<"o", "d", "l">> :> Link(<<"o", "a">>))
          @@ (<<"k">> :> Folder) @@ (<<"k", "s">> :> File(<<"z">>))
MCData == [point \in {m.point : m \in MCMounts} |->
             (point :> Folder) @@ (Append(point, "f") :> File(<<"x">>))]

Command(kind, p, paths) ==
  [kind |-> "command", paths |-> paths \cup {p},
   op |-> [kind |-> kind, path |-> p, content |-> <<"y">>, old |-> <<>>, all |-> FALSE]]
Store == Command("write", <<"o", "b">>, {<<"o">>})
Discard == Command("rm", <<"o", "a">>, {<<"o", "d">>, <<"k", "s">>})
Look == Command("write", <<"y", "p", "f">>, {<<"y">>, <<"z", "f">>, <<"v", "f">>})

\* A word in quotes that no path has.
Words == <<"o", "w">>
Quoted == Command("write", <<"o", "b">>, {Words})
MCScripts == Words :> Discard.op

CONSTANTS s1, s2, c1, c2

MCSessions == {s1, s2}
MCConns == {c1, c2}

Creates(names) == {[Request EXCEPT !.route = "create", !.policy = n] : n \in names}
Runs(id, cmd, names) ==
  {[Request EXCEPT !.route = "execute", !.id = id, !.cmd = cmd, !.policy = n, !.meta = TRUE] :
     n \in names}
Acts(id, routes) == {[Request EXCEPT !.route = r, !.id = id, !.expect = TRUE] : r \in routes}

MCAsks ==
  (c1 :> Creates({"full", "read-only", "unknown"}) \cup Runs(s1, Store, {"read-only"})
         \cup Runs(s1, Look, {"full"}) \cup Runs(s1, Quoted, {""})
         \cup Runs(NoSession, Discard, {"full"}) \cup Acts(s1, {"close"})
         \cup {[Request EXCEPT !.route = "execute", !.id = s1],
               [Request EXCEPT !.route = "execute", !.body = "empty"]})
  @@ (c2 :> Creates({""}) \cup Runs(s1, Discard, {"full"}) \cup Acts(s1, Actions \cup {"get", "other"})
         \cup {[Request EXCEPT !.route = "execute", !.id = s1, !.override = TRUE]})
============================================================================

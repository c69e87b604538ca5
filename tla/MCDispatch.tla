----------------------------- MODULE MCDispatch -----------------------------
(* A registry of four builtins, one outside the profile, an external command *)
(* and aliases that chain, loop and call themselves through find -exec.      *)
EXTENDS Dispatch, TLC

MCSpecs == <<[name |-> "find", caps |-> {}], [name |-> "cat", caps |-> {}],
             [name |-> "date", caps |-> {"compat:date"}], [name |-> "ls", caps |-> {}]>>

Ref(namespace, name) == [ok |-> TRUE, namespace |-> namespace, name |-> name]
MCPathRefs ==
  ("/sys/bin/cat" :> Ref("builtin", "cat")) @@ ("/sys/bin/no" :> Ref("builtin", "no"))
  @@ ("/bin/cat" :> Ref("external", "cat")) @@ ("/bin/tool" :> Ref("external", "tool"))
  @@ ("/bin/find" :> Ref("external", "find"))
  @@ ("/etc/x" :> Ref("none", "x"))

MCConfigured == ("ll" :> <<"ls", "-l">>) @@ ("d" :> <<"date">>) @@ ("a" :> <<"b", "1">>)
                @@ ("b" :> <<"c", "2">>) @@ ("z" :> <<"a", "0">>) @@ ("ls" :> <<"ls", "-h">>)

Line(kind, name, words) == [kind |-> kind, name |-> name, words |-> words]
Read(lines) == [found |-> "yes", lines |-> lines]
MCRCContent ==
  ("/rc1" :> Read(<<Line("alias", "again", <<"find", "-exec", "again", "-name", "{}", ";">>),
                    Line("alias", "each", <<"find", "-exec", "tool", "{}", ";">>),
                    Line("alias", "ll", <<"cat">>), Line("export", "V", <<>>)>>))
  @@ ("/rc2" :> Read(<<Line("alias", "ll", <<"cat", "-n">>), Line("alias", "c", <<"cat", "3">>)>>))
  @@ ("/rc3" :> [found |-> "missing", lines |-> <<>>])

MCRCFiles == <<"/rc1", "/rc3", "/rc2">>

MCTree == ("/" :> <<"f", "g">>) @@ ("/e" :> <<>>)

MCCommands ==
  {<<"cat", "x">>, <<"ll", "x">>, <<"d">>, <<"a", "y">>, <<"ls">>, <<"again">>, <<"z", "x">>, <<"tool">>, <<"b">>,
   <<"/sys/bin/cat">>, <<"/sys/bin/no">>, <<"/bin/cat">>, <<"/bin/tool", "x">>, <<"/etc/x">>, <<"">>,
   <<"find", "-exec", "cat", "{}", ";">>, <<"find", "/", "-exec", "tool", "+">>, <<"find", "/e", "-exec", "cat", ";">>,
   <<"find", "-name", "g", "-o", "-name", "f", "-exec", "each", "-name", "{}", ";">>,
   <<"find", "-exec", "each", "-o", "{}", "+">>,
   <<"find", "-exec", "again", "-name", "{}", ";">>, <<"find", "-o">>, <<"find", "/n">>, <<"find", "-x">>,
   <<"find", "-name", "f">>, <<"/bin/find", "-exec", "cat", "{}", ";">>, <<"find", "-exec", "find", "-name", "f", "-exec", "cat", "+", ";">>}

Reply(err, exit, raw, stdout, stderr) ==
  [err |-> err, exit |-> exit, raw |-> raw, stdout |-> stdout, stderr |-> stderr]
MCReplies ==
  {Reply("none", 0, <<>>, 0, 0), Reply("none", 0, <<>>, 2, 1), Reply("none", 4, <<>>, 0, 0),
   Reply("none", -9, <<>>, 0, 0), Reply("none", 1, <<-2>>, 0, 1), Reply("timed_out", -1, <<>>, 0, 0),
   Reply("not_found", 0, <<>>, 0, 0), Reply("unsupported", 0, <<>>, 0, 0),
   Reply("provider_failure", 0, <<>>, 1, 0)}
MCPlainResults == {[stdout |-> 1, stderr |-> 0, code |-> 0], [stdout |-> 0, stderr |-> 0, code |-> 1]}
=============================================================================

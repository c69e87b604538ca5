--------------------------- MODULE MCScriptRunner ---------------------------
(***************************************************************************)
(* Scripts for ScriptRunner.  Directory d holds a and b, directory m only  *)
(* m/a and m/b; m/b is of a mount that cannot append, m/a not writable.    *)
(***************************************************************************)
EXTENDS ScriptRunner, TLC

MCPaths == {"d/a", "d/b", "m/a", "m/b"}
MCAt == [d \in {"d", "m"} |->
            [t \in {"a", "b", "m/b", "null"} |->
                CASE t = "null" -> "d/a"
                  [] t = "m/b"  -> "m/b"
                  [] OTHER      -> d \o "/" \o t]]
MCWritable == {"d/a", "d/b", "m/b"}
MCAppendable == {"d/a", "d/b"}

Builtin(redirs) == [kind |-> "builtin", redirs |-> redirs]
External(redirs) == [kind |-> "external", redirs |-> redirs]
Cd(redirs) == [kind |-> "cd", redirs |-> redirs]
R(kind, target) == [kind |-> kind, target |-> target]
P(op, commands) == [op |-> op, commands |-> commands]

\* e | b > a > b && b || b < a
Connected ==
    << << P("", <<External(<< >>), Builtin(<<R("write", "a"), R("write", "b")>>)>>),
          P("&&", <<Builtin(<< >>)>>),
          P("||", <<Builtin(<<R("file", "a")>>)>>) >> >>

\* b > a >> a ; cd || b >> b > null | b
Listed ==
    << << P("", <<Builtin(<<R("write", "a"), R("append", "a")>>)>>) >>,
       << P("", <<Cd(<< >>)>>),
          P("||", <<Builtin(<<R("append", "b"), R("write", "null")>>), Builtin(<< >>)>>) >> >>

\* b | b << x > null > a ; b
HereDoc ==
    << << P("", <<Builtin(<< >>),
                  Builtin(<<R("here", "a"), R("write", "null"), R("write", "a")>>)>>) >>,
       << P("", <<Builtin(<< >>)>>) >> >>

\* e | e | b , one deeper than allowed ; b < null
Deep ==
    << << P("", <<External(<< >>), External(<< >>), Builtin(<< >>)>>),
          P("||", <<External(<<R("file", "null")>>), External(<< >>)>>) >> >>

\* cd > b > a || b > a >> m/b
Moving ==
    << << P("", <<Cd(<<R("write", "b"), R("write", "a")>>)>>),
          P("||", <<Builtin(<<R("write", "a"), R("append", "m/b")>>)>>) >> >>

Long == << << P("", <<Builtin(<< >>)>>) >>, << P("", <<Builtin(<< >>)>>) >>,
           << P("", <<Builtin(<< >>)>>) >> >>

MCScripts == {<< >>, Connected, Listed, HereDoc, Deep, Moving, Long}

Limits(mode, write, output) ==
    [mode |-> mode, maxWriteBytes |-> write, maxPipelineDepth |-> 2,
     maxOutputBytes |-> output, timeout |-> 0]
MCPolicies == {Limits("write-limited", 1, 2), Limits("full", 0, 0), Limits("read-only", 0, 3)}
=============================================================================

--------------------------- MODULE MCScriptParser ---------------------------
(* Every text of up to four letters, every script of up to five pieces,      *)
(* which reaches pipelines, lists and here documents, and every text of up   *)
(* to five letters that can make a path.                                     *)
EXTENDS ScriptParser

Letters == {"a", " ", "'", "\\", "\n", "&", "|", ";", "<", ">"}
Fragments == {<<"a">>, <<"b", " ">>, <<"\n">>, <<"&", "&">>, <<"|", "|">>, <<"|">>, <<">">>,
              <<"<", "<">>}
SeqsUpTo(set, n) == UNION {[1 .. k -> set] : k \in 0 .. n}

MCTexts == SeqsUpTo(Letters, 4) \cup {FlattenSeq(f) : f \in SeqsUpTo(Fragments, 5)}
  \cup {<<"a", "<", "<", "b", "<", "<", "a">> \o f :
          f \in {FlattenSeq(g) : g \in SeqsUpTo({<<"a">>, <<"b">>, <<"\n">>}, 7)}}
  \cup SeqsUpTo({"/", "a", " ", "'", "\"", "\\", "|"}, 5)
============================================================================

---------------------------- MODULE ScriptParser ----------------------------
(***************************************************************************)
(* From the text of a script to its statements: the tokenizer and the      *)
(* recursive descent parser of pkg/engine/script_parser_v2.go, and the     *)
(* expansion of an alias, which reads the same words                       *)
(* (pkg/engine/orchestrator_bootstrap.go).                                 *)
(*                                                                         *)
(* A text is a sequence of one letter strings.  Every function of the      *)
(* parser returns where it stopped and whether it failed; the messages are *)
(* left out.                                                               *)
(***************************************************************************)
EXTENDS Naturals, Sequences, SequencesExt, FiniteSetsExt

CONSTANTS
  Texts,          \* the scripts to parse
  MaxHereDoc,     \* maxHereDocBytes
  MaxStatements   \* maxStatementCount

VARIABLES
  text,    \* the script
  done,    \* whether it has been parsed
  parsed   \* what the parser made of it

vars == <<text, done, parsed>>

Spaces == {" ", "\t", "\r"}
Quotes == {"'", "\""}
Breaks == Spaces \cup {"\n", "|", "&", ";", "<", ">"}

At(s, i) == IF i \in DOMAIN s THEN s[i] ELSE ""

SkipInlineSpaces(s, i) ==
  Min({j \in i .. (Len(s) + 1) : j > Len(s) \/ s[j] \notin Spaces} \cup {Max({i, Len(s) + 1})})

----------------------------------------------------------------------------
\* Words.  A backslash takes the next letter as it is, in quotes too; quotes may
\* open and close inside a word.

NoWord == [ok |-> FALSE]

\* Broken: a backslash in quotes is a letter like any other.
Broken_ReadShellWord(s, i) ==
  LET end == Min({j \in i .. (Len(s) + 1) : At(s, j) \in Breaks \cup {""}})
  IN IF At(s, i) \in Quotes
     THEN LET close == {j \in (i + 1) .. Len(s) : s[j] = s[i]}
          IN IF close = {} THEN NoWord
             ELSE [ok |-> TRUE, word |-> SubSeq(s, i + 1, Min(close) - 1), next |-> Min(close) + 1]
     ELSE [ok |-> end > i, word |-> SubSeq(s, i, end - 1), next |-> end]

RECURSIVE WordFrom(_, _, _)
WordFrom(s, i, w) ==
  LET c == At(s, i)
      take(letter) == WordFrom(s, i + 1, [w EXCEPT !.word = @ \o letter, !.escaped = FALSE])
      end == IF w.word = <<>> /\ ~w.quoted THEN NoWord
             ELSE [ok |-> TRUE, word |-> w.word, next |-> i]
  IN CASE c = "" /\ w.quote # "" -> NoWord
       [] c = "" /\ w.quote = "" ->
            IF w.escaped THEN [ok |-> TRUE, word |-> Append(w.word, "\\"), next |-> i] ELSE end
       [] c # "" /\ w.escaped -> take(<<c>>)
       [] c = "\\" /\ ~w.escaped -> WordFrom(s, i + 1, [w EXCEPT !.escaped = TRUE])
       [] ~w.escaped /\ c \in Quotes /\ c = w.quote -> WordFrom(s, i + 1, [w EXCEPT !.quote = ""])
       [] ~w.escaped /\ c \in Quotes /\ w.quote = "" ->
            WordFrom(s, i + 1, [w EXCEPT !.quote = c, !.quoted = TRUE])
       [] ~w.escaped /\ c \in Breaks /\ w.quote = "" -> end
       [] OTHER -> take(<<c>>)

ReadShellWord(s, i) ==
  WordFrom(s, i, [word |-> <<>>, quote |-> "", quoted |-> FALSE, escaped |-> FALSE])

----------------------------------------------------------------------------
\* Here documents: whole lines up to the one that is the delimiter.

LineEnd(s, i) == Min({j \in i .. (Len(s) + 1) : j = Len(s) + 1 \/ s[j] = "\n"})

TrimReturn(line) == IF line # <<>> /\ Last(line) = "\r" THEN Front(line) ELSE line

RECURSIVE ReadHereDocBody(_, _, _, _)
ReadHereDocBody(s, i, delim, body) ==
  LET end == LineEnd(s, i)
      line == TrimReturn(SubSeq(s, i, end - 1))
      longer == body \o line
  IN CASE i > Len(s) -> [ok |-> FALSE]
       [] i <= Len(s) /\ line = delim -> [ok |-> TRUE, body |-> body, next |-> end + 1]
       [] i <= Len(s) /\ line # delim /\ Len(longer) > MaxHereDoc -> [ok |-> FALSE]
       [] OTHER -> ReadHereDocBody(s, end + 1, delim,
                                   IF end <= Len(s) THEN Append(longer, "\n") ELSE longer)

\* The bodies of all documents a line has opened, one after the other.
RECURSIVE ReadHereDocs(_, _, _, _)
\* Broken: the last document is read first.
Broken_ReadHereDocs(s, i, delims, bodies) ==
  IF delims = <<>> THEN [ok |-> TRUE, bodies |-> bodies, next |-> i]
  ELSE LET doc == ReadHereDocBody(s, i, Last(delims), <<>>)
       IN IF doc.ok THEN ReadHereDocs(s, doc.next, Front(delims), Append(bodies, doc.body))
          ELSE [ok |-> FALSE]

ReadHereDocs(s, i, delims, bodies) ==
  IF delims = <<>> THEN [ok |-> TRUE, bodies |-> bodies, next |-> i]
  ELSE LET doc == ReadHereDocBody(s, i, Head(delims), <<>>)
       IN IF doc.ok THEN ReadHereDocs(s, doc.next, Tail(delims), Append(bodies, doc.body))
          ELSE [ok |-> FALSE]

----------------------------------------------------------------------------
\* Tokens.

Token(kind) == [kind |-> kind]
WordToken(word) == [kind |-> "word", value |-> word]
NoTokens == [ok |-> FALSE]

\* The operator at a place: the longest one that is there.
OperatorAt(s, i) ==
  LET two == At(s, i) = At(s, i + 1)
  IN CASE At(s, i) \in {";", "\n"} -> <<"semi", 1>>
       [] At(s, i) = "&" -> <<IF two THEN "and" ELSE "none", 2>>
       [] At(s, i) = "|" -> IF two THEN <<"or", 2>> ELSE <<"pipe", 1>>
       [] At(s, i) = ">" -> IF two THEN <<"append", 2>> ELSE <<"out", 1>>
       [] At(s, i) = "<" -> IF two THEN <<"heredoc", 2>> ELSE <<"in", 1>>
       [] OTHER -> <<"word", 0>>

RECURSIVE TokensFrom(_, _, _)
TokensFrom(s, start, acc) ==
  LET i == SkipInlineSpaces(s, start)
      op == OperatorAt(s, i)
      tokens(more) == [acc EXCEPT !.tokens = @ \o more]
      word == ReadShellWord(s, i)
      after == SkipInlineSpaces(s, i + 2)
      delim == ReadShellWord(s, after)
      docs == ReadHereDocs(s, i + 1, acc.pending, acc.bodies)
  IN CASE i > Len(s) -> [ok |-> acc.pending = <<>>, tokens |-> acc.tokens, bodies |-> acc.bodies]
       [] i <= Len(s) /\ s[i] = "\n" ->
            IF ~docs.ok THEN NoTokens
            ELSE TokensFrom(s, docs.next, [tokens |-> Append(acc.tokens, Token("semi")),
                                           bodies |-> docs.bodies, pending |-> <<>>])
       [] op[1] = "none" -> NoTokens
       [] op[1] = "heredoc" ->
            IF At(s, after) \in {"", "\n"} \/ ~delim.ok THEN NoTokens
            ELSE TokensFrom(s, delim.next,
                   [tokens(<<Token("heredoc"), WordToken(delim.word)>>)
                      EXCEPT !.pending = Append(@, delim.word)])
       [] op[1] = "word" ->
            IF word.ok THEN TokensFrom(s, word.next, tokens(<<WordToken(word.word)>>)) ELSE NoTokens
       [] OTHER -> TokensFrom(s, i + op[2], tokens(<<Token(op[1])>>))

TokenizeScript(s) == TokensFrom(s, 1, [tokens |-> <<>>, bodies |-> <<>>, pending |-> <<>>])

----------------------------------------------------------------------------
\* Statements.  A cursor is the next token and the next here document.

Redirections == {"in", "out", "append", "heredoc"}
Separators == {"semi", "and", "or", "pipe"}

KindAt(ts, i) == IF i \in DOMAIN ts THEN ts[i].kind ELSE "end"
Failed == [ok |-> FALSE]
Parsed(c, out) == [ok |-> TRUE, at |-> c.at, doc |-> c.doc, out |-> out]

RECURSIVE ParseSimpleCommand(_, _, _, _)
ParseSimpleCommand(ts, bodies, c, cmd) ==
  LET kind == KindAt(ts, c.at)
      next == [c EXCEPT !.at = @ + 1]
      redirect == [kind |-> kind, target |-> ts[c.at + 1].value,
                   body |-> IF kind = "heredoc" THEN bodies[c.doc] ELSE <<>>]
  IN CASE kind = "word" ->
            ParseSimpleCommand(ts, bodies, next, [cmd EXCEPT !.args = Append(@, ts[c.at].value)])
       [] kind \in Redirections ->
            IF KindAt(ts, c.at + 1) # "word" \/ (kind = "heredoc" /\ c.doc > Len(bodies))
            THEN Failed
            ELSE ParseSimpleCommand(ts, bodies,
                   [at |-> c.at + 2, doc |-> c.doc + (IF kind = "heredoc" THEN 1 ELSE 0)],
                   [cmd EXCEPT !.redirs = Append(@, redirect)])
       [] OTHER -> IF cmd.args = <<>> THEN Failed ELSE Parsed(c, cmd)

\* One more item than those in out.
Joined(one, out) == [one EXCEPT !.out = Append(out, @)]
Past(one) == [at |-> one.at + 1, doc |-> one.doc]

RECURSIVE ParsePipelineExpr(_, _, _, _)
ParsePipelineExpr(ts, bodies, c, out) ==
  LET one == ParseSimpleCommand(ts, bodies, c, [args |-> <<>>, redirs |-> <<>>])
  IN CASE ~one.ok -> Failed
       [] one.ok /\ KindAt(ts, one.at) = "pipe" ->
            ParsePipelineExpr(ts, bodies, Past(one), Joined(one, out).out)
       [] OTHER -> Joined(one, out)

\* Pipelines joined by connectives; the operator before a pipeline is the token it
\* was reached over.
RECURSIVE ParseConditionals(_, _, _, _)
ParseConditionals(ts, bodies, c, out) ==
  LET pipeline == ParsePipelineExpr(ts, bodies, c, <<>>)
      op == IF KindAt(ts, c.at - 1) \in {"and", "or"} THEN ts[c.at - 1].kind ELSE ""
      one == [pipeline EXCEPT !.out = [op |-> op, pipeline |-> @]]
  IN CASE ~pipeline.ok -> Failed
       [] pipeline.ok /\ KindAt(ts, one.at) \in {"and", "or"} ->
            ParseConditionals(ts, bodies, Past(one), Joined(one, out).out)
       [] OTHER -> Joined(one, out)

\* Broken: an empty line is an empty command.
Broken_SkipSemis(ts, i) == i

SkipSemis(ts, i) ==
  Min({j \in i .. (Len(ts) + 1) : KindAt(ts, j) # "semi"})

RECURSIVE ParseStatements(_, _, _, _)
ParseStatements(ts, bodies, c, out) ==
  LET start == [c EXCEPT !.at = SkipSemis(ts, @)]
      one == ParseConditionals(ts, bodies, start, <<>>)
  IN CASE start.at > Len(ts) -> [ok |-> c.doc = Len(bodies) + 1, out |-> out]
       [] start.at <= Len(ts) /\ ~one.ok -> Failed
       [] OTHER -> IF KindAt(ts, one.at) \notin {"semi", "end"} \/ Len(out) >= MaxStatements
                   THEN Failed
                   ELSE ParseStatements(ts, bodies, [at |-> one.at, doc |-> one.doc],
                                        Append(out, one.out))

ParseScript(s) ==
  LET lexed == TokenizeScript(s)
  IN IF lexed.ok THEN ParseStatements(lexed.tokens, lexed.bodies, [at |-> 1, doc |-> 1], <<>>)
     ELSE Failed

----------------------------------------------------------------------------
\* The expansion of an alias: the words of one trimmed text, none of them blank.

Blank(word) == \A i \in DOMAIN word : word[i] \in Spaces \cup {"\n"}

TrimSpace(s) ==
  LET ink == {i \in DOMAIN s : s[i] \notin Spaces \cup {"\n"}}
  IN IF ink = {} THEN <<>> ELSE SubSeq(s, Min(ink), Max(ink))

RECURSIVE WordsFrom(_, _, _)
WordsFrom(s, start, out) ==
  LET i == SkipInlineSpaces(s, start)
      word == ReadShellWord(s, i)
  IN CASE i > Len(s) -> [ok |-> out # <<>>, out |-> out]
       [] i <= Len(s) /\ (~word.ok \/ Blank(word.word)) -> Failed
       [] OTHER -> WordsFrom(s, word.next, Append(out, word.word))

ParseAliasExpansion(s) == WordsFrom(TrimSpace(s), 1, <<>>)

----------------------------------------------------------------------------
\* The words the HTTP service reads in a command, to find the paths it is to
\* describe: a splitter of its own, which never fails.  It takes all absolute
\* words; the service stops at the fiftieth.

Separator == Breaks \cup {"(", ")"}

Flush(w) == [w EXCEPT !.words = IF w.word = <<>> THEN @ ELSE @ \cup {w.word}, !.word = <<>>]

\* Broken: a backslash in double quotes is a letter like any other.
Broken_SplitLetter(w, c) ==
  CASE w.quote # "" /\ c = w.quote -> [w EXCEPT !.quote = ""]
    [] w.quote # "" /\ c # w.quote -> [w EXCEPT !.word = Append(@, c)]
    [] w.quote = "" /\ c \in Quotes -> [w EXCEPT !.quote = c]
    [] w.quote = "" /\ c \in Separator -> Flush(w)
    [] OTHER -> [w EXCEPT !.word = Append(@, c)]

SplitLetter(w, c) ==
  CASE w.escaped -> [w EXCEPT !.word = Append(@, c), !.escaped = FALSE]
    [] ~w.escaped /\ c = "\\" /\ w.quote # "'" -> [w EXCEPT !.escaped = TRUE]
    [] ~w.escaped /\ w.quote # "" /\ c = w.quote -> [w EXCEPT !.quote = ""]
    [] ~w.escaped /\ w.quote = "" /\ c \in Quotes -> [w EXCEPT !.quote = c]
    [] ~w.escaped /\ w.quote = "" /\ c \in Separator -> Flush(w)
    [] OTHER -> [w EXCEPT !.word = Append(@, c)]

SplitShellWords(s) ==
  LET w == FoldLeft(SplitLetter, [words |-> {}, word |-> <<>>, quote |-> "", escaped |-> FALSE], s)
  IN Flush(IF w.escaped THEN [w EXCEPT !.word = Append(@, "\\")] ELSE w).words

Absolute(words) == {word \in {TrimSpace(v) : v \in words} : word # <<>> /\ Head(word) = "/"}

ExtractAbsPaths(s) == Absolute(SplitShellWords(s))

----------------------------------------------------------------------------

Init == text \in Texts /\ done = FALSE /\ parsed = Failed

Parse ==
  /\ ~done
  /\ done' = TRUE
  /\ parsed' = ParseScript(text)
  /\ UNCHANGED text

Next == Parse

Spec == Init /\ [][Next]_vars

----------------------------------------------------------------------------
\* The grammar the parser is for, over the places of the tokens: a script is cut
\* at every ; and end of line, a statement at every && and ||, a pipeline at
\* every |, and a command is its words and its redirections with their targets.

\* The pieces of the places a .. b between the tokens of some kinds.
Pieces(ts, a, b, kinds) ==
  LET cuts == {a - 1} \cup {j \in a .. b : ts[j].kind \in kinds} \cup {b + 1}
      places == SetToSortSeq(cuts, <)
  IN [k \in 1 .. (Len(places) - 1) |-> <<places[k] + 1, places[k + 1] - 1>>]

IsTarget(ts, a, j) == j > a /\ ts[j - 1].kind \in Redirections /\ ts[j].kind = "word"

WellFormed(ts, piece) ==
  LET places == piece[1] .. piece[2]
  IN /\ \E j \in places : ts[j].kind = "word" /\ ~IsTarget(ts, piece[1], j)
     /\ \A j \in places : ts[j].kind \in Redirections
          => j + 1 \in places /\ ts[j + 1].kind = "word"

CommandAt(ts, bodies, piece) ==
  LET places == piece[1] .. piece[2]
      words == {j \in places : ts[j].kind = "word" /\ ~IsTarget(ts, piece[1], j)}
      redirs == {j \in places : ts[j].kind \in Redirections}
      nth(j) == Cardinality({k \in 1 .. j : ts[k].kind = "heredoc"})
      inOrder(set) == SetToSortSeq(set, <)
  IN [args |-> [k \in DOMAIN inOrder(words) |-> ts[inOrder(words)[k]].value],
      redirs |-> [k \in DOMAIN inOrder(redirs) |->
        LET j == inOrder(redirs)[k]
        IN [kind |-> ts[j].kind, target |-> ts[j + 1].value,
            body |-> IF ts[j].kind = "heredoc" THEN bodies[nth(j)] ELSE <<>>]]]

StatementPieces(ts) ==
  SelectSeq(Pieces(ts, 1, Len(ts), {"semi"}), LAMBDA piece : piece[1] <= piece[2])
PipelinePieces(ts, piece) == Pieces(ts, piece[1], piece[2], {"and", "or"})
CommandPieces(ts, piece) == Pieces(ts, piece[1], piece[2], {"pipe"})

StatementAt(ts, bodies, piece) ==
  [k \in DOMAIN PipelinePieces(ts, piece) |->
    LET p == PipelinePieces(ts, piece)[k]
    IN [op |-> IF k = 1 THEN "" ELSE ts[p[1] - 1].kind,
        pipeline |-> [n \in DOMAIN CommandPieces(ts, p) |->
                        CommandAt(ts, bodies, CommandPieces(ts, p)[n])]]]

\* The parser accepts exactly the scripts of the grammar, and what it returns is
\* what the grammar says the script is: no token is lost, bound to another
\* command or joined by another operator, and the nth here document goes to the
\* nth << of the script (script_parser_v2.go:109).
StatementsParsed ==
  done =>
    LET lexed == TokenizeScript(text)
        ts == lexed.tokens
        pieces == StatementPieces(ts)
        good == lexed.ok /\ Len(pieces) <= MaxStatements
                /\ \A s \in Range(pieces) : \A p \in Range(PipelinePieces(ts, s)) :
                     \A c \in Range(CommandPieces(ts, p)) : WellFormed(ts, c)
    IN /\ parsed.ok <=> good
       /\ parsed.ok => parsed.out = [k \in DOMAIN pieces |-> StatementAt(ts, lexed.bodies, pieces[k])]

\* The here documents of an accepted script stand in its text in the order of
\* their <<, each ended by its own delimiter, and no line before it is that
\* delimiter (script_parser_v2.go:314).
HereDocs(out) ==
  FlattenSeq([k \in DOMAIN out |-> FlattenSeq([p \in DOMAIN out[k] |->
    FlattenSeq([c \in DOMAIN out[k][p].pipeline |->
      SelectSeq(out[k][p].pipeline[c].redirs, LAMBDA r : r.kind = "heredoc")])])])
StandsAt(part, i) ==
  i + Len(part) - 1 <= Len(text) /\ SubSeq(text, i, i + Len(part) - 1) = part
Places(doc) == {i \in DOMAIN text : StandsAt(doc.body \o doc.target, i)}
HereDocsInOrder ==
  parsed.ok =>
    LET docs == HereDocs(parsed.out)
    IN /\ \A k \in DOMAIN docs : Places(docs[k]) # {}
       /\ \A k \in DOMAIN docs \ {1} :
            \E i \in Places(docs[k - 1]), j \in Places(docs[k]) :
              i + Len(docs[k - 1].body) + Len(docs[k - 1].target) < j

\* The parser accepts exactly the scripts of the grammar and returns what they
\* say, with the text of every here document where it stands in the script.
ParsesGrammar == StatementsParsed /\ HereDocsInOrder

\* A word in which every quote and backslash is escaped and that is put in quotes
\* comes back as it was, blank, with operators and line ends in it, alone and
\* between other words (script_parser_v2.go:242).
Quoted(word) ==
  <<"'">> \o FlattenSeq([i \in DOMAIN word |->
                            IF word[i] \in {"'", "\\"} THEN <<"\\", word[i]>> ELSE <<word[i]>>])
  \o <<"'">>
QuotingIsExact ==
  LET line == <<"a", " ">> \o Quoted(text) \o <<" ", "b">>
      Reads(s, words) ==
        LET lexed == TokenizeScript(s)
        IN lexed.ok /\ lexed.tokens = [i \in DOMAIN words |-> WordToken(words[i])]
  IN Reads(Quoted(text), <<text>>) /\ Reads(line, <<<<"a">>, text, <<"b">>>>)

\* An alias expands to the words its text would have as a command, when the text
\* holds no operator, no blank word and no blank at its ends
\* (orchestrator_bootstrap.go:101).
AliasReadsLikeAScript ==
  LET lexed == TokenizeScript(text)
      plain == /\ lexed.ok /\ text # <<>> /\ TrimSpace(text) = text
               /\ \A i \in DOMAIN lexed.tokens :
                    lexed.tokens[i].kind = "word" /\ ~Blank(lexed.tokens[i].value)
      alias == ParseAliasExpansion(text)
      WordAt(token) == IF token.kind = "word" THEN token.value ELSE <<>>
  IN plain <=> (TrimSpace(text) = text /\ alias.ok /\ lexed.ok
                  /\ alias.out = [i \in DOMAIN lexed.tokens |-> WordAt(lexed.tokens[i])])

\* The paths the service describes after a command are the absolute words of that
\* command, as the engine reads them: two scanners, one reading.  It is said of
\* commands without here documents and parentheses, and without a backslash
\* where there are single quotes (execute_endpoint.go:497, script_parser_v2.go:256).
MetaPathsAreTheWords ==
  LET lexed == TokenizeScript(text)
      ts == lexed.tokens
      letters == Range(text)
      alike == /\ lexed.ok /\ \A t \in Range(ts) : t.kind # "heredoc"
               /\ letters \cap {"(", ")"} = {}
               /\ ~({"'", "\\"} \subseteq letters)
  IN alike => ExtractAbsPaths(text) = Absolute({t.value : t \in {u \in Range(ts) : u.kind = "word"}})

\* The three readers of words read the same words, and quoted ones as they are.
WordsReadAlike == QuotingIsExact /\ AliasReadsLikeAScript /\ MetaPathsAreTheWords
============================================================================

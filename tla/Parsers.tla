-------------------------------- MODULE Parsers --------------------------------
(***************************************************************************)
(* The two parsers of the tunnel client, of its configuration file and of  *)
(* the server's answer, against what their texts mean.  They share         *)
(* nothing: a behavior parses a file or an answer.                         *)
(***************************************************************************)
EXTENDS IniParser, JsmnParser, FiniteSets

\* The array of get_prefix holds the three tokens of the server's answer: it has ten
\* (client.c:184).
ASSUME AnswerAssumption == NumTokens >= 3

parserVars == <<iniVars, jsmnVars>>

ParsersTypeOK == IniTypeOK /\ JsmnTypeOK
ParsersInit == IniInit /\ JsmnInit

ParseFile == text = <<>> /\ result = "none" /\ IniNext /\ UNCHANGED jsmnVars
ParseAnswer == lines = <<>> /\ JsmnNext /\ UNCHANGED iniVars

ParsersNext == ParseFile \/ ParseAnswer
ParsersSpec == ParsersInit /\ [][ParsersNext]_parserVars

-----------------------------------------------------------------------------
\* What a configuration file means.  A line is a continuation if it is indented and a
\* name comes before it that no section and no nameless pair at the margin has ended.
Named(line) == line.kind = "pair" /\ line.name # NoText
EndsName(line) == line.kind = "section" \/ (line.kind = "pair" /\ line.name = NoText)
HasName(i) ==
  \E j \in 1..(i - 1) :
    /\ Named(lines[j])
    /\ \A k \in (j + 1)..(i - 1) : EndsName(lines[k]) => lines[k].indent
Continued(i) == lines[i].indent /\ lines[i].kind # "skipped" /\ HasName(i)

LineIs(i, kind) == lines[i].kind = kind /\ ~Continued(i)
LastOf(S, i) == i \in S /\ \A j \in S : j <= i

\* The section of line i, and the name whose value it is or goes on with.
InSection(i, name) ==
  \E j \in 1..i : LastOf({k \in 1..i : LineIs(k, "section")}, j) /\ lines[j].name = name
NameOf(i, name) ==
  \E j \in 1..i : LastOf({k \in 1..i : LineIs(k, "pair")}, j) /\ lines[j].name = name

Assigns(i, option) ==
  /\ LineIs(i, "pair") \/ Continued(i)
  /\ InSection(i, ClientName) /\ NameOf(i, option)
Assigned(i) == IF LineIs(i, "pair") THEN lines[i].value ELSE lines[i].text

\* The option has been set to the text: the host is the text itself, the port its number
\* in sixteen bits, and 0 if it is none.
IsSetTo(option, t) ==
  IF option = "remotehost" THEN cfg.remotehost = t
  ELSE cfg.remoteport = IF t \in Numbers THEN t % 65536 ELSE 0
IsUnset(option) ==
  IF option = "remotehost" THEN cfg.remotehost = NoText ELSE cfg.remoteport = 0

\* Each option is set to the text that the last line for it in the section [client]
\* gives it, and the error is the number of the first line that means nothing:
\* "line number of first error on parse error (doesn't stop on first error)"
\* (ini.h:20-31, 45-47; client.c:71-84).
ConfigAsWritten ==
  LET read == 1..Len(lines)
      bad == {i \in read : LineIs(i, "bad") \/ LineIs(i, "badSection")}
  IN  /\ \A o \in Options :
           LET own == {i \in read : Assigns(i, o)}
           IN  IF own = {} THEN IsUnset(o)
               ELSE \E i \in own : LastOf(own, i) /\ IsSetTo(o, Assigned(i))
      /\ IF bad = {} THEN iniError = 0
         ELSE iniError \in bad /\ \A i \in bad : iniError <= i

-----------------------------------------------------------------------------
\* The tokens are the tree of the text: in its order, properly nested, each bracket
\* closed by its own kind, its size the number of its children, and toksuper the
\* bracket that the next lexeme is in (jsmn.c:146-203).
Encloses(i, j) == i < j /\ tokens[i].type \in Openers /\ (Open(i) \/ tokens[j].start < tokens[i].end)
Parent(i, j) == Encloses(i, j) /\ \A k \in 1..Len(tokens) : Encloses(k, j) => k <= i

TokensAreTheTree ==
  LET all == 1..Len(tokens)
  IN  /\ \A i, j \in all : i < j =>
           /\ tokens[i].start < tokens[j].start
           /\ Encloses(i, j) => Open(i) \/ (~Open(j) /\ tokens[j].end <= tokens[i].end)
      /\ \A i \in all : tokens[i].type \in Openers =>
           /\ tokens[i].size = Cardinality({j \in all : Parent(i, j)})
           /\ ~Open(i) => text[tokens[i].end] = Closer(text[tokens[i].start])
      /\ IF OpenTokens = {} THEN toksuper = 0 ELSE IsInnermost(toksuper, OpenTokens)

\* The positions of a text at which lexemes of S are.
At(t, S) == {i \in 1..Len(t) : t[i] \in S}

\* Each bracket is closed by its own kind, and brackets do not overlap.
Matches(t, match) ==
  /\ \A i \in At(t, Openers) : i < match[i] /\ t[match[i]] = Closer(t[i])
  /\ \A i, j \in At(t, Openers) : i < j =>
       match[i] # match[j] /\ (j < match[i] => match[j] < match[i])

\* Its brackets match, and every lexeme is whole.
WellFormed(t) ==
  /\ At(t, {"bad", "cut"}) = {}
  /\ Cardinality(At(t, Openers)) = Cardinality(At(t, Closers))
  /\ \E match \in [At(t, Openers) -> At(t, Closers)] : Matches(t, match)

\* Some brackets would complete it, after the rest of a string that is cut.
Completable(t) ==
  LET whole == [i \in 1..Len(t) |-> IF t[i] = "cut" THEN "string" ELSE t[i]]
  IN  \E n \in 0..Len(t) : \E rest \in [1..n -> Closers] : WellFormed(whole \o rest)

\* "Everything was fine", "The string is not a full JSON packet, more bytes
\* expected", "Invalid character" and "Not enough tokens were provided" are said of
\* such texts and of no others (jsmn.h:19-28).
ResultIsRight ==
  /\ result = "SUCCESS" => WellFormed(text)
  /\ result = "PART" => ~WellFormed(text) /\ Completable(text)
  /\ result = "INVAL" => ~Completable(text)
  /\ result = "NOMEM" =>
       Cardinality(At(text, Openers \cup Scalars)) > NumTokens

\* What get_prefix makes of the server's answer, of a part of it, and of the answer
\* with the start of a packet behind it: the prefix is copied from the answer or
\* from nothing (client.c:171-201).
TheAnswer == <<"{", "Prefix", "string", "}">>
AnswerUnderstood ==
  /\ result = "SUCCESS" /\ Len(text) >= 4 /\ SubSeq(text, 1, 4) = TheAnswer =>
       tokens[3].start = 3 /\ \A i \in 1..NumTokens : Copies(i) <=> i = 3
  /\ result # "none" /\ Len(text) < 4 /\ text = SubSeq(TheAnswer, 1, Len(text)) =>
       IF text = <<>> THEN result = "SUCCESS" /\ PrefixTokens = {} ELSE result = "PART"
=============================================================================

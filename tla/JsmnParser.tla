------------------------------ MODULE JsmnParser ------------------------------
(***************************************************************************)
(* jsmn_parse, not strict and without parent links, as get_prefix calls it *)
(* on the server's answer.                                                 *)
(*                                                                         *)
(* The text is a sequence of lexemes: brackets, strings, of which the one  *)
(* that reads "Prefix" is told from the others, and primitives; "bad" is a *)
(* string or a primitive with a character that must not be there, or a     *)
(* string that ends after a backslash, and "cut" any other string whose    *)
(* end is missing.  Separators are left out.  A position is the number of  *)
(* a lexeme, and tokens are numbered from 1.                               *)
(***************************************************************************)
EXTENDS Naturals, Sequences

CONSTANTS
  NumTokens,   \* the length of the array tok
  MaxText      \* lexemes of a text

ASSUME JsmnAssumption ==
  /\ NumTokens \in Nat \ {0}
  /\ MaxText \in Nat

Openers == {"{", "["}
Closers == {"}", "]"}
Scalars == {"Prefix", "string", "primitive"}
Lexemes == Openers \cup Closers \cup Scalars \cup {"bad", "cut"}
Closer(opener) == IF opener = "{" THEN "}" ELSE "]"

VARIABLES
  text,       \* the lexemes parsed; the parser's pos is their number
  tokens,     \* the tokens allocated; toknext is their number
  toksuper,   \* the token of the innermost open bracket, 0 if there is none
  result      \* what jsmn_parse returned

jsmnVars == <<text, tokens, toksuper, result>>

\* end is 0 while the bracket is open.
Token(type, start, end) == [type |-> type, start |-> start, end |-> end, size |-> 0]

JsmnTypeOK ==
  /\ text \in Seq(Lexemes) /\ Len(text) <= MaxText
  /\ tokens \in Seq([type : Openers \cup {"scalar"}, start : 1..MaxText,
                     end : 0..MaxText, size : 0..MaxText])
  /\ Len(tokens) <= NumTokens
  /\ toksuper \in 0..Len(tokens)
  /\ result \in {"none", "SUCCESS", "PART", "INVAL", "NOMEM"}

\* jsmn_init
JsmnInit == text = <<>> /\ tokens = <<>> /\ toksuper = 0 /\ result = "none"

-----------------------------------------------------------------------------
Here == Len(text) + 1
Open(i) == tokens[i].end = 0
OpenTokens == {i \in 1..Len(tokens) : Open(i)}
IsInnermost(i, open) == i \in open /\ \A j \in open : j <= i

Returns(r) == result' = r /\ UNCHANGED <<tokens, toksuper>>

\* Faulty variant: the end of the array is not looked for.
AllocUnchecked(token) ==
  tokens' = Append(IF toksuper = 0 THEN tokens ELSE [tokens EXCEPT ![toksuper].size = @ + 1],
                   token)

\* jsmn_alloc_token and jsmn_fill_token, and the bracket around it has one more child.
Alloc(token) ==
  /\ Len(tokens) < NumTokens
  /\ tokens' = Append(IF toksuper = 0 THEN tokens ELSE [tokens EXCEPT ![toksuper].size = @ + 1],
                      token)

NoMemory(lexeme) ==
  /\ lexeme \in Openers \cup Scalars
  /\ Len(tokens) = NumTokens
  /\ Returns("NOMEM")

Opens(lexeme) ==
  /\ lexeme \in Openers
  /\ Alloc(Token(lexeme, Here, 0))
  /\ toksuper' = Len(tokens) + 1
  /\ UNCHANGED result

\* Faulty variant: what follows is still counted as inside the bracket.
ClosesOnly(lexeme) ==
  /\ lexeme \in Closers
  /\ \E i \in OpenTokens :
       /\ IsInnermost(i, OpenTokens)
       /\ Closer(tokens[i].type) = lexeme
       /\ tokens' = [tokens EXCEPT ![i].end = Here]
  /\ UNCHANGED <<toksuper, result>>

\* The last open bracket is closed, and the one before it is the innermost.
Closes(lexeme) ==
  /\ lexeme \in Closers
  /\ \E i \in OpenTokens :
       /\ IsInnermost(i, OpenTokens)
       /\ Closer(tokens[i].type) = lexeme
       /\ tokens' = [tokens EXCEPT ![i].end = Here]
       /\ IF OpenTokens = {i}
            THEN toksuper' = 0
            ELSE \E j \in OpenTokens \ {i} : IsInnermost(j, OpenTokens \ {i}) /\ toksuper' = j
  /\ UNCHANGED result

\* No bracket is open, or one of the other type.
Unmatched(lexeme) ==
  /\ lexeme \in Closers
  /\ \A i \in OpenTokens : IsInnermost(i, OpenTokens) => Closer(tokens[i].type) # lexeme
  /\ Returns("INVAL")

\* jsmn_parse_string and jsmn_parse_primitive
Scalar(lexeme) ==
  /\ lexeme \in Scalars
  /\ Alloc(Token("scalar", Here, Here))
  /\ UNCHANGED <<toksuper, result>>

BadCharacter(lexeme) == lexeme = "bad" /\ Returns("INVAL")
CutString(lexeme) == lexeme = "cut" /\ Returns("PART")

ParseLexeme(lexeme) ==
  /\ result = "none"
  /\ Len(text) < MaxText
  /\ text' = Append(text, lexeme)
  /\ \/ Opens(lexeme) \/ Closes(lexeme) \/ Unmatched(lexeme)
     \/ Scalar(lexeme) \/ BadCharacter(lexeme) \/ CutString(lexeme)
     \/ NoMemory(lexeme)

\* Faulty variant: brackets may still be open.
EndAnywhere ==
  /\ result = "none"
  /\ Returns("SUCCESS")
  /\ UNCHANGED text

\* The end of the text.
EndOfText ==
  /\ result = "none"
  /\ Returns(IF OpenTokens = {} THEN "SUCCESS" ELSE "PART")
  /\ UNCHANGED text

JsmnNext == EndOfText \/ \E lexeme \in Lexemes : ParseLexeme(lexeme)

-----------------------------------------------------------------------------
\* The tokens whose text is "Prefix", and the token get_prefix copies: the one
\* behind the first of them.  The last token of the array is not looked at.
PrefixTokens == {i \in 1..Len(tokens) : i < NumTokens /\ text[tokens[i].start] = "Prefix"}

\* Faulty variant: the key itself is copied.
CopiesKey(i) == i \in PrefixTokens /\ \A j \in PrefixTokens : i <= j

Copies(i) == i - 1 \in PrefixTokens /\ \A j \in PrefixTokens : i - 1 <= j
=============================================================================

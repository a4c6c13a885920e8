------------------------------- MODULE IniParser -------------------------------
(***************************************************************************)
(* ini_parse_file with the tunnel client's handler: the configuration file *)
(* is read line by line, and what a line means depends on its indentation  *)
(* and on the lines before it.                                             *)
(*                                                                         *)
(* A line is what one fgets returns, as the helpers rstrip, lskip and      *)
(* find_char_or_comment take it apart: whether it is indented, what it     *)
(* looks like, its name and value, and its whole text.  A text is a value  *)
(* of the model; a text that atoi reads as a number is that number.        *)
(***************************************************************************)
EXTENDS Integers, Sequences

CONSTANTS
  Sections,     \* the names of the sections
  ClientName,   \* "client"
  OtherNames,   \* names that config_handler does not know
  Numbers,      \* texts that begin with a number, as that number
  Words,        \* texts that do not
  NoText,       \* the empty section or name; NULL in cfg
  MaxLines      \* lines of a file

Options == {"remotehost", "remoteport"}
Names == Options \cup OtherNames
Texts == Numbers \cup Words

ASSUME IniAssumption ==
  /\ ClientName \in Sections
  /\ Numbers \subseteq Int
  /\ NoText \notin Sections \cup Names /\ NoText \notin Texts
  /\ Options \cap OtherNames = {}
  /\ MaxLines \in Nat

\* A blank line and a comment are "skipped".  "[x]" and "[x" begin no number, nor does
\* a pair without a name or with the name of an option.
Line(kinds, names, values, texts) ==
  [kind : kinds, indent : BOOLEAN, name : names, value : values, text : texts]
Lines ==
  Line({"skipped"}, {NoText}, {NoText}, {NoText})
    \cup Line({"section"}, Sections \cup {NoText}, {NoText}, Words)
    \cup Line({"badSection"}, {NoText}, {NoText}, Words)
    \cup Line({"pair"}, Options \cup {NoText}, Texts, Words)
    \cup Line({"pair"}, OtherNames, Texts, Texts)
    \cup Line({"bad"}, {NoText}, {NoText}, Texts)

VARIABLES
  lines,       \* the lines read; lineno is their number
  section,
  prev_name,
  iniError,    \* error
  cfg          \* what each option is set to

iniVars == <<lines, section, prev_name, iniError, cfg>>

PortMod == 2^16   \* remoteport is a uint16_t

IniTypeOK ==
  /\ lines \in Seq(Lines) /\ Len(lines) <= MaxLines
  /\ section \in Sections \cup {NoText}
  /\ prev_name \in Names \cup {NoText}
  /\ iniError \in 0..MaxLines
  /\ cfg \in [remotehost : Texts \cup {NoText}, remoteport : 0..(PortMod - 1)]

IniInit ==
  /\ lines = <<>>
  /\ section = NoText /\ prev_name = NoText
  /\ iniError = 0
  /\ cfg = [remotehost |-> NoText, remoteport |-> 0]

-----------------------------------------------------------------------------
atoi(value) == IF value \in Numbers THEN value ELSE 0

\* It always returns 1.
config_handler(name, value) ==
  IF section = ClientName
    THEN cfg' = [remotehost |-> IF name = "remotehost" THEN value ELSE cfg.remotehost,
                 remoteport |-> IF name = "remoteport" THEN atoi(value) % PortMod
                                ELSE cfg.remoteport]
    ELSE cfg' = cfg

Comment(line) ==
  /\ line.kind = "skipped"
  /\ UNCHANGED <<section, prev_name, iniError, cfg>>

\* A line with leading whitespace goes on with the value of the name before it,
\* whatever it looks like.
Continues(line) ==
  prev_name # NoText /\ line.indent /\ line.kind # "skipped"
Continuation(line) ==
  /\ Continues(line)
  /\ config_handler(prev_name, line.text)
  /\ UNCHANGED <<section, prev_name, iniError>>

\* Faulty variant: a section does not end the value before it.
SectionKeepsName(line) ==
  /\ ~Continues(line) /\ line.kind = "section"
  /\ section' = line.name
  /\ UNCHANGED <<prev_name, iniError, cfg>>

Section(line) ==
  /\ ~Continues(line) /\ line.kind = "section"
  /\ section' = line.name
  /\ prev_name' = NoText
  /\ UNCHANGED <<iniError, cfg>>

\* The name may be empty; then no line continues this pair.
Pair(line) ==
  /\ ~Continues(line) /\ line.kind = "pair"
  /\ prev_name' = line.name
  /\ config_handler(line.name, line.value)
  /\ UNCHANGED <<section, iniError>>

\* No ']', or neither '=' nor ':'.
BadLine(line) ==
  /\ ~Continues(line) /\ line.kind \in {"badSection", "bad"}
  /\ iniError' = IF iniError = 0 THEN Len(lines) + 1 ELSE iniError
  /\ UNCHANGED <<section, prev_name, cfg>>

\* fgets returns a line; ini_parse_file goes on to the end of the file.
ReadLine(line) ==
  /\ Len(lines) < MaxLines
  /\ lines' = Append(lines, line)
  /\ Comment(line) \/ Continuation(line) \/ Section(line) \/ Pair(line) \/ BadLine(line)

IniNext == \E line \in Lines : ReadLine(line)
=============================================================================
